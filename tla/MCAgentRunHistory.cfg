SPECIFICATION Spec
CONSTANTS
  Calls = {c1}
  MaxSteps = 1
  MaxFailures = 0
  MaxRestarts = 0
\* a run that is over is over
CHECK_DEADLOCK FALSE
INVARIANT ResultsHaveTheirCall
