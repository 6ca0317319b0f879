SPECIFICATION MCSpec
CONSTANTS
  base_url = base_url
  api_key = api_key
  provider = provider
  context = context
  f1 = f1
  f2 = f2
  a1 = a1
  Keys <- MCKeys
  GroupOf <- MCGroupOf
  Groups <- MCGroups
  PatchOrder <- MCPatchOrder
  CatalogOrder <- MCCatalogOrder
  Sourced <- MCSourced
  Sensitive <- MCSensitive
  Seeded <- MCSeeded
  Secret <- MCSecret
  Modelled <- MCModelled
  SessionFiles <- MCSessionFiles
  AuditFiles <- MCAuditFiles
  Lines <- MCLines
  Saved = "saved"
  Deployed = "deployed"
  Filed = "filed"
  Bad = "bad"
  Savers = {u1}
  Loaders = {l1}
  MaxSaves = 1
  MaxLoads = 1
  MaxFaults = 2
  MaxRuns = 3
INVARIANTS
  SetIsLoaded
  CompletedIsWhole
  AuditOnce
PROPERTIES
  DeletedStaysGone
CHECK_DEADLOCK FALSE
