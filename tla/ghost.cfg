CONSTANTS
  r1 = r1
  r2 = r2
  f1 = f1
  f2 = f2
  h1 = h1
  h2 = h2
  t1 = t1
  b1 = b1
  b2 = b2
  g1 = g1
  g2 = g2
  c1 = c1
  None = None
  Root = {r1}
  File = {f1, f2}
  RootOf <- MCOneRoot
  Hash = {h1, h2}
  SizeOf <- MCSizeOf
  Target = {t1}
  Callers = {}
  Backups = {b1}
  Gcs = {}
  Checks = {}
  Faults = {"disk"}
  MaxSessions = 1
  MaxRuns = 1
  MaxEdits = 0
SPECIFICATION Spec
INVARIANTS AllRestorable
