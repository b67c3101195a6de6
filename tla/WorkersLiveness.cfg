SPECIFICATION FairSpec
CONSTANTS
    IdCount = 1
    IdBase = 0
    NoId = NoId
    Cores = {c1, c2}
    c1 = c1
    c2 = c2
    CoreMasks <- Masks
    Names = {n1}
    NoName = NoName
    Eos = {e1, e2}
    NoEo = NoEo
    Messages = {m1}
    BufferLength = 1
    MaxDepth = 2
    Failures = {"Init"}
INVARIANT ContextOutlivesUsers
PROPERTIES DeploymentResolves TerminationCompletes
CHECK_DEADLOCK FALSE
