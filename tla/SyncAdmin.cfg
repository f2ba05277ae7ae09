SPECIFICATION AdminSpec
CONSTANTS
  Admins <- MCAdmins
  a1 = a1
  a2 = a2
  MaxAsks = 2
  MaxCommands = 2
  MaxMishaps = 1
  MaxRaces = 1
CHECK_DEADLOCK FALSE
INVARIANT AdminInv
PROPERTY NothingIsOverwritten ResetEndsSessions
