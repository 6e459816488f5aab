SPECIFICATION Spec
CONSTANTS
    a = a
    b = b
    c = c
    Root = r
    Cells = {r, a, b, c}
    None = None
    Parent <- Tree
    Order <- InOrder
    Initial = {r, a, b}
    Capacity = 1
    Modes <- BothEnds
    MaxRestarts = 1
    MaxMessages = 2
    MaxCancels = 1
INVARIANTS TypeOK  InstancesClosed RestartLimit 
CHECK_DEADLOCK FALSE
