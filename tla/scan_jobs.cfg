SPECIFICATION FairSpec
CONSTANTS
  i1 = i1  i2 = i2  s1 = s1  s2 = s2
  Scans = {s1, s2}
  Incidents = {i1, i2}
  IncidentsOf <- MCIncidentsOf
  MaxConcurrent = 1
  Findings <- MCFindings
  Users = {u1}
  Admins = {}
  Nobody = Nobody
  Presets <- WithModel
  Archiving = TRUE
INVARIANTS
  OneScanAtATime
  NothingRunsForEver
  DiagnosisIsAccounted
  ReportIsHonest
PROPERTIES
  EveryJobEnds
CHECK_DEADLOCK FALSE
ACTION_CONSTRAINT InTurn
