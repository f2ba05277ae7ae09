SPECIFICATION ReclaimFairSpec
CONSTANTS
  Conversations = {c1}
  Sockets = {s1, s2}
  Timeout = 3
  Every = 1
  Late = 1
  Unset = Unset
CHECK_DEADLOCK FALSE
INVARIANT UnusedIsReclaimed
PROPERTIES StopsWhenAlone EventuallyStops
