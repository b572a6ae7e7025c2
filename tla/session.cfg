CONSTANTS
  r1 = r1
  r2 = r2
  f1 = f1
  f2 = f2
  h1 = h1
  h2 = h2
  t1 = t1
  t2 = t2
  b1 = b1
  None = None
  Root = {r1, r2}
  File = {f1, f2}
  RootOf <- MCRootOf
  Hash = {h1, h2}
  SizeOf <- MCSizeOf
  Target = {t1, t2}
  Order <- MCOrder
  Quota <- MCQuota
  Platform = "windows"
  Space = {0, 3}
  Callers = {}
  Backups = {b1}
  Gcs = {}
  Checks = {}
  Faults = {"source", "disk", "full", "db", "crash"}
  MaxSessions = 2
  MaxRuns = 1
  MaxEdits = 1
SPECIFICATION SessionSpec
INVARIANTS SessionTypeOK Acquired QuotaKept EveryFileDone BytesAgree RowCounts
