SPECIFICATION Spec
CONSTANTS
  Data = {d1, d2, d3}
  Problems = {p1, p2, p3}
  Tasks = {t1, t2, t3}
INVARIANTS
  TypeOK
  OnlyTheHeldTaskLives
PROPERTIES
  FetchEnds
  ImplementsLastKnownGood
