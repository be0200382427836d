SPECIFICATION Spec
CONSTANTS
  Senders = {s1, s2}
  Readers = {r1}
  Keys = {k1}
  NoKey = NoKey
  NoOne = NoOne
  MaxEpoch = 2
  MaxCalls = 3
  Limit = 2
INVARIANT SameKeyIsReplayed
CHECK_DEADLOCK FALSE
