SPECIFICATION FairSpec
CONSTANTS
  Web = Web
  Every = Every
  NoName = Every
  Calls <- MCCalls
  Rounds <- MCRounds
  RequireApproval = TRUE
  SkipPermissions = FALSE
  MaxIterations = 2
  MaxToolCalls = 3
  MaxTurns = 2
INVARIANTS
  WritesAreConsented
  NeverAskedThrice
  RefusalEndsTheRound
  EndedTurnIsRecorded
PROPERTY TurnEnds
CHECK_DEADLOCK FALSE
