SPECIFICATION Spec
CONSTANTS
  Handles = {creator, guest}
  Creator = creator
  Users = {u1}
  NoUser = NoUser
  Requests = {q1, q2}
  MaxMints = 3
SYMMETRY RequestSymmetry
INVARIANTS TypeOK OneFirstJoin CurrentTokensWork
PROPERTIES ReplacedTokensStayDead
CHECK_DEADLOCK FALSE
