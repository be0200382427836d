SPECIFICATION Spec
CONSTANTS
  Rooms = {general, task}
  General = general
  KeyIds = {k0, k1, k2, k3}
  Server = Server
  None = None
  Rotators = {p1, p2}
  Creators = {c1}
  MaxEpoch = 3
  AnyEpoch = FALSE
SYMMETRY KeySymmetry
INVARIANTS CurrentEpochPublished SomeActiveKey KeyOpensItsRooms
PROPERTIES BlobsAreFinal EpochsAdvanceByOne
CHECK_DEADLOCK FALSE
