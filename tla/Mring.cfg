SPECIFICATION Spec
CONSTANTS
    NumRings = 2
    Readers = {0}
    Size = 8
    Bursts = {2, 3, 8}
INVARIANTS IndicesExact PagesReleasedInTime
PROPERTY SpoilsOnlyWrapped
