SPECIFICATION MCSpec
CONSTANTS
  root = root
  ann = ann
  n1 = n1
  c1 = c1
  c2 = c2
  t1 = t1
  t2 = t2
  Users <- MCUsers
  Starts <- MCStarts
  LoggedIn <- MCLoggedIn
  Builtin = root
  Callers <- MCCallers
  Tokens <- MCTokens
  GrantIds = {g1, g2}
  Namespaces = {n1}
  Grantees <- MCGrantees
  StartGrants <- MCStartGrants
  MaxRequests = 3
SYMMETRY MCSymmetry
INVARIANTS
  AdminRemains
  ActsWithAuthority
  ScopeIsGranted
CHECK_DEADLOCK FALSE
