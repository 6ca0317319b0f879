SPECIFICATION Spec
CONSTANTS
  Config = Config
  Token = Token
  Cert = Cert
  Objects <- MCObjects
  Manifests <- MCManifests
  Policies <- MCPolicies
  TTL = 2
  MaxPerSession = 2
  MaxTime = 2
  MaxDryRuns = 3
VIEW SecretsUnread
INVARIANTS
  AppliedWasRehearsed
  AgreedIsSubmitted
  StoreIsRecent
