SPECIFICATION FairSpec
CONSTANTS
  MaxEnrollments = 2
  MaxRevision = 1
  MaxTroubles = 1
  MaxChanges = 3
CHECK_DEADLOCK FALSE
INVARIANT LinkInv
INVARIANT RevokedLearnsNothing
 
