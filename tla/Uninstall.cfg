SPECIFICATION Spec
CONSTANTS
  Attempts <- MCAttempts
  Requests <- MCRequests
  MaxTroubles = 1
CHECK_DEADLOCK FALSE
INVARIANTS  LeftoversAreReported ReinstallSurvives
PROPERTIES UninstallEnds
