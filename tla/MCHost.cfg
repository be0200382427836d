SPECIFICATION Spec
CONSTANTS
  Clients = {c1}
  MemberTokens = {m1, m2}
  AccessTokens = {a1}
  NoToken = NoToken
  Address = Address
  Window = 2
  OpenLimit = 2
  MemberLimit = 2
  MaxEntries = 2
  Members = {u1, u2}
  Fields = {read, ack}
  Read = read
  LastSeq = 2
  MaxPosts = 2
  Slugs = {g1, g2}
  MaxAsks = 4
SYMMETRY Symmetry
INVARIANTS TypeOK HeadersSayWho LimitsHold ReceiptsAreTrue EnsureFindsTheSpace
PROPERTIES DirectorySpec
CHECK_DEADLOCK FALSE
