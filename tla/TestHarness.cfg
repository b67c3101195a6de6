SPECIFICATION Spec
CONSTANTS
    Keys = {k1, k2}
    TimerIds = {t1}
    NoTimer = none
    MaxRuns = 2
    MaxReports = 1
    MaxClients = 2
INVARIANTS
    NothingLeaks
    VerdictsBelong
    AnswersOnce
    ParamsComplete
PROPERTIES
    EveryRunEnds
CHECK_DEADLOCK FALSE
