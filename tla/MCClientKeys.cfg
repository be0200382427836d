SPECIFICATION Spec
CONSTANTS
  Clients = {c1, c2}
  Rooms = {general, r1}
  General = general
  Server = Server
  Admin = Admin
  Nobody = Nobody
  MaxGen = 3
SYMMETRY Symmetry
INVARIANTS TypeOK KeysFitLabels BlobsFromOnePair JoinedMeansReadable TokenIsCurrent
CHECK_DEADLOCK FALSE
