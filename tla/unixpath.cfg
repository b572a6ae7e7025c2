CONSTANTS
  f1 = f1
  f2 = f2
  f3 = f3
  None = None
  File = {f1, f2, f3}
  Lengths <- MCLengths
  Faults = {}
  Platform = "unix"
  Absolute = TRUE
  Cap = 2
SPECIFICATION FairSpec
INVARIANTS ListedIsFound
