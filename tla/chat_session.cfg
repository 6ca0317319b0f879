SPECIFICATION FairSpec
CONSTANTS
  None = None
  Unnamed = unnamed
  Sends = {s1, s2}
  Posts = {p1}
  Edits = {e1}
  Lives = 2
  MaxPrompts = 1
INVARIANTS
  SlotIsHeld
  OneRunAtATime
PROPERTIES
  TurnsAreKept
  RunEnds
CHECK_DEADLOCK FALSE
