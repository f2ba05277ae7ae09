SPECIFICATION Spec
CONSTANTS
  Origins = {o1, o2}
  MaxHosts = 2
  MaxServers = 3
  MaxTroubles = 1
  MaxJobs = 2
INVARIANT HostInv
PROPERTIES RemovedIsUnlinked OperationsEnd
CHECK_DEADLOCK FALSE
