SPECIFICATION FairSpec
CONSTANTS
  Surfaces <- MCSurfaces
  Situations <- MCSituations
  MaxVersion = 2
  MaxTries = 2
  MaxChecks = 1
  MaxTroubles = 1
INVARIANT UpdateInv ServicesRestored
PROPERTY InstallsWhatWasConfirmed UpdateEnds
CHECK_DEADLOCK FALSE
