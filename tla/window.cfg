CONSTANTS
  r1 = r1
  r2 = r2
  t1 = t1
  Roots = {r1, r2}
  Targets = {t1}
  Stored <- MCStored
  MaxFiles = 1
  MaxClicks = 2
SPECIFICATION FairSpec
INVARIANTS TypeOK OneBackup TrackerAgrees TellsTheSame
PROPERTIES CompletedCounts BackupIsTold
