SPECIFICATION Spec
CONSTANTS
    Buffers = {b1, b2}
    Holders = {h1, h2, h3}
    Children = {c1, c2}
    Main = main
    Blocks = {x1, x2}
    None = none
INVARIANTS ReferencesExact InitMemoryReleased
PROPERTY BuffersReturn
CHECK_DEADLOCK FALSE
