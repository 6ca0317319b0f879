SPECIFICATION ArchiveFairSpec
CONSTANTS
  s1 = s1
  Scans = {s1}
  Incidents = {}
  IncidentsOf <- MCHealthy
  MaxConcurrent = 1
  Findings <- MCNothing
  Users = {u1}
  Admins = {}
  Nobody = Nobody
  Presets <- WithLogs
  Archiving = TRUE
  Requests = {s1, h1}
  Probers = {h1}
  Retry = 1
  MaxOutages = 2
  MaxGone = 1
PROPERTIES
  ReadyAgain
  OutageIsNoticed
CHECK_DEADLOCK FALSE
