CONSTANTS
  Main = main
  Children = {k1, k2}
  Workers = {w1}
  MayDie = FALSE
  MainPid = 2
  AdopterPid = 1
SPECIFICATION Spec
INVARIANT WorkersGoneAtTeardown
CHECK_DEADLOCK FALSE
