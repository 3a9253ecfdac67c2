SPECIFICATION Spec
CONSTANTS
  None = None
  Values = {default, mine, theirs}
  Default = default
  Broken = broken
  Missing = missing
  Threads = {t1, t2}
  GapEdits = FALSE
  MaxEdits = 2
  MaxAsks = 2
  MaxFaults = 1
INVARIANT OverwriteWritesTheDraft
CHECK_DEADLOCK FALSE
