SPECIFICATION ClientSpec
CONSTANTS
  c1 = c1
  c2 = c2
  d1 = d1
  d2 = d2
  None = None
  Sockets = {s1, s2}
  Dirs = {d1, d2}
  Starts = {a1, a2, a3}
  p1 = p1
  p2 = p2
  Beginnings <- MCBeginnings
  Pages = {p1, p2}
  Conversations = {c1, c2}
  Place <- MCPlace
  Home = d1
  MaxAsks = 1
  MaxTools = 1
  MaxTroubles = 1
CHECK_DEADLOCK FALSE
INVARIANTS ClientInv NothingIsForgotten
PROPERTIES PagesComeBack StartsFollowDecision WaitEndsWithAsker
