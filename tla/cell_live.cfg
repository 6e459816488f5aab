SPECIFICATION FairSpec
CONSTANTS
    Tells = {t1, t2}
    Asks = {a1}
    Stop = Stop
    NoMsg = NoMsg
    Capacity = 1
    Backend = "memory"
    Policy = "block"
    MaxFailures = 2
    StopPolicies <- AllPolicies
    HasMiddleware = TRUE
    Calls = {"stop", "interrupt"}
    MaxJoinCancels = 1
PROPERTIES AskSettles  TellReturns
CHECK_DEADLOCK FALSE
