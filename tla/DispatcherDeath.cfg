CONSTANTS
  Main = main
  Children = {k1, k2}
  Workers = {w1}
  MayDie = TRUE
  MainPid = 2
  AdopterPid = 1
SPECIFICATION Spec
INVARIANT DeathsNoticed
CHECK_DEADLOCK FALSE
