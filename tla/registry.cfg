SPECIFICATION FairSpec
CONSTANTS
    Activators = {c1, c2, c3}
    Deactivators = {d1}
    Keys = {k1}
    Names = {n1}
    NameOf <- OneName
    None = None
    MayFail = {"start", "put", "delete"}
INVARIANTS TypeOK SingleUntilStop NothingLeaks
PROPERTY CallsReturn
CHECK_DEADLOCK FALSE
