SPECIFICATION Spec
CONSTANTS
  s1 = s1
  s2 = s2
  job = job
  Servers <- MCServers
  Jobs <- MCJobs
  Processes <- MCProcesses
  Deployments <- MCDeployments
  Releases <- MCReleases
  MaxCrashes = 2
INVARIANTS
  ReadyIsWhole
  ServingIsComplete
PROPERTIES
  ServerServes
CHECK_DEADLOCK FALSE
