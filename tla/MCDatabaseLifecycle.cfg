SPECIFICATION FairSpec
CONSTANTS
  Jobs = {j1, j2}
  Sessions = {s1, s2}
  MaxStarts = 2
INVARIANT TypeOK
INVARIANT JobsRunUnderTheLock
INVARIANT NothingIsLost
PROPERTY FileChangesAlone
PROPERTY RetirementEnds
PROPERTY QuitEnds
