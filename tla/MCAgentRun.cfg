SPECIFICATION FairSpec
CONSTANTS
  Calls = {c1, c2}
  MaxSteps = 2
  MaxFailures = 1
  MaxRestarts = 1
\* a run that is over is over
CHECK_DEADLOCK FALSE
INVARIANTS
  TypeOK
  OneResultPerCall
  UsageIffCompleted
  ToolRunsOnlyApproved
  EndedRunLeavesNothingOpen
PROPERTIES
  TerminalRowsStay
  StopSettlesTheRow
