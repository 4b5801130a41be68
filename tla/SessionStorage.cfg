CONSTANTS
  Project = {p1, p2}
  Content = {a, b}
  Blank = a
  Imported = {b}
  HistoryLimit = 2
  GenerationsToKeep = 1
  MaxSaves = 4
  MaxSequence = 5
  MaxDamages = 1
  Damaged = Damaged
  None = None
SYMMETRY Symmetry
SPECIFICATION Spec
INVARIANTS SavesSurvive StartsWhereItStopped
PROPERTIES PreparedOnLatest ImplementsEditHistory
CHECK_DEADLOCK FALSE
