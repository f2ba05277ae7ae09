SPECIFICATION Spec
CONSTANTS
  Callers = {m1, m2}
  Cores = {c1, c2, c3}
  Revisions = {r1, r2}
  MaxCrashes = 1
  None = None
SYMMETRY Symmetry
INVARIANT Exclusive
INVARIANT RecordsNameCore
 
