SPECIFICATION FairSpec
CONSTANTS
  Conversations = {c1}
  Sockets = {s1}
  Procs = {p1, p2}
  Requests = {r1}
  Handlers = {h1}
  Default = Default
  None = None
CHECK_DEADLOCK FALSE
 
PROPERTIES NeverLiveAgain CrashIsRecovered NothingHangs
