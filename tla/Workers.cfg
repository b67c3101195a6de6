SPECIFICATION Spec
CONSTANTS
    IdCount = 1
    IdBase = 1
    NoId = NoId
    Cores = {c1, c2}
    c1 = c1
    c2 = c2
    CoreMasks <- AllCores
    Names = {n1}
    NoName = NoName
    Eos = {e1, e2}
    NoEo = NoEo
    Messages = {m1, m2, m3}
    BufferLength = 2
    MaxDepth = 3
    Failures = {"Eo", "Queue", "Init", "Send"}
SYMMETRY Symmetry
INVARIANTS NoFatal ContextOutlivesUsers ResourcesAccounted
PROPERTIES OnlyRollBackLosesMessages ImplementsWorkerService
CHECK_DEADLOCK FALSE
