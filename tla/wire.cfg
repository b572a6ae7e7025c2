CONSTANTS
  f1 = f1
  f2 = f2
  f3 = f3
  None = None
  File = {f1, f2, f3}
  Lengths <- MCLengths
  Faults = {"disk", "source", "net", "crash"}
  Platform = "windows"
  Absolute = TRUE
  Cap = 2
SPECIFICATION FairSpec
INVARIANTS TypeOK IInv InStep OwnAnswersInStep CopiesAreWhole ListedIsFound
PROPERTIES SourceSpec RemoteEnds
CHECK_DEADLOCK FALSE  \* after a failed write both sides may wait for ever
