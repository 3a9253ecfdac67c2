SPECIFICATION Spec
CONSTANTS
  Jobs = {j1}
  Sessions = {s1}
  MaxStarts = 1
PROPERTY QuitWaitsForJobs
