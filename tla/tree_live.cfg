SPECIFICATION FairSpec
CONSTANTS
    a = a
    b = b
    c = c
    Root = r
    Cells = {r, a, b, c}
    None = None
    Parent <- Tree
    Order <- InOrder
    Initial = {r, a}
    Capacity = 1
    Modes <- BothEnds
    MaxRestarts = 1
    MaxMessages = 2
    MaxCancels = 0
PROPERTY TreeStops
CHECK_DEADLOCK FALSE
