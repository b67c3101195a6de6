CONSTANTS
  Main = main
  Children = {k1, k2}
  Workers = {w1}
  MayDie = TRUE
  MainPid = 2
  AdopterPid = 1
SPECIFICATION FairSpec
INVARIANTS NobodyRunsAhead OthersKeepDispatching TeardownAlone
PROPERTIES ShutdownCompletes OrphansDie
CHECK_DEADLOCK FALSE
