SPECIFICATION Spec
CONSTANTS
    IdCount = 1
    IdBase = 1
    NoId = NoId
    Cores = {c1, c2}
    c1 = c1
    c2 = c2
    CoreMasks <- AllCores
    Names = {n1, n2}
    NoName = NoName
    Eos = {e1, e2}
    NoEo = NoEo
    Messages = {m1}
    BufferLength = 1
    MaxDepth = 2
    Failures = {}
SYMMETRY Symmetry
INVARIANT FindsNamedWorker
CHECK_DEADLOCK FALSE
