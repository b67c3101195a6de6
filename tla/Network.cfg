SPECIFICATION NetworkSpec
CONSTANTS
    Nodes = {1, 2}
    NodeIds = {1, 2, 3}
    Receivers = {0, 1, 2, 3}
    Cores = {c1, c2}
    Ids = {i1, i2}
    PayloadSizes = {8, 1466, 1467}
    U32Range = 65536
    Alien = 99
    Noisy = {2}
    MsgBufs = 1
    PktBufs = 3
    MaxRxBurst = 2
INVARIANT BuffersConserved
PROPERTIES ImplementsMessageTransfer MessagesSettle
CHECK_DEADLOCK FALSE
