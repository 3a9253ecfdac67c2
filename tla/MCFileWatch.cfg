SPECIFICATION Spec
CONSTANTS
  Deepest = 3
  Targets <- MCTargets
  MaxPending = 1
  MaxRegistrations = 2
  MaxChanges = 3
  MaxFaults = 1
INVARIANTS
  TypeOK
  RootsAnswerNeeds
  NoChangeIsLost
CHECK_DEADLOCK FALSE
