SPECIFICATION FairSpec
CONSTANTS
  Conversations = {c1}
  KeyModulus = 1
  MaxAttempts = 2
  MaxQueued = 2
  MaxRestarts = 1
\* every attempt and every restart may have been used up
CHECK_DEADLOCK FALSE
INVARIANTS
  OneLiveAttempt
  RunningRowHasARun
PROPERTIES
  StopLeavesNoRunningRow
  StopEnds
  SubmissionResolves
  ShutdownEnds
