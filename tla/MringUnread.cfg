SPECIFICATION Spec
CONSTANTS
    NumRings = 2
    Readers = {0}
    Size = 4
    Bursts = {1, 2}
INVARIANT UnreadStable
