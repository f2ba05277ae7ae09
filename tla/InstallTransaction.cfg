SPECIFICATION Spec
CONSTANTS
  Installers = {i1, i2}
  r1 = r1
  r2 = r2
  r3 = r3
  Releases = {r1, r2, r3}
  Format <- Formats
  Migrates = {i1}
  MaxTroubles = 2
  None = None
  Torn = Torn
INVARIANT Launchable
PROPERTY InstallsAtomically
