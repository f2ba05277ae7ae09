SPECIFICATION FeedSpec
CONSTANTS
  Clients = {s1, s2}
  MaxMessages = 1
  MaxText = 1
  MaxUnread = 2
  MaxUnsent = 2
  NoCopy = NoCopy
SYMMETRY Symmetry
INVARIANTS  NothingIsMissed
