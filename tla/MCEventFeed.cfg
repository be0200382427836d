SPECIFICATION FairSpec
CONSTANTS
  Streams = {s1, s2}
  Requests = {q1, q2}
  Hooks = {h1}
  AllHooks = AllHooks
  MaxSeq = 2
  MaxRestarts = 1
  MaxPosts = 1
INVARIANTS LiveStreamsOnBus CaughtUp
PROPERTIES MessagesGetRead
CHECK_DEADLOCK FALSE
