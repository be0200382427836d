SPECIFICATION Spec
CONSTANTS
  Users = {u1}
  Channels = {c1}
  Keys = {k1, k2, k3}
  NoKey = NoKey
  Devices = {d1, d2}
  Helpers = {h1}
  Readers = {r1}
  Rotators = {a1}
  MaxVersion = 2
  MaxSecret = 1
SYMMETRY Symmetry
INVARIANTS VersionsNameKeys RecoverableOpens UsableFits
CHECK_DEADLOCK FALSE
