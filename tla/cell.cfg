SPECIFICATION Spec
CONSTANTS
    Tells = {t1, t2, t3}
    Asks = {a1, a2}
    Stop = Stop
    NoMsg = NoMsg
    Capacity = 2
    Backend = "memory"
    Policy = "block"
    MaxFailures = 2
    StopPolicies <- AllPolicies
    HasMiddleware = FALSE
    Calls = {"stop", "interrupt"}
    MaxJoinCancels = 0
SYMMETRY Symmetric
INVARIANTS TypeOK AskHeld TellAccounted NoLostWakeup FailureLimit HookRuns
PROPERTIES NoHandlingOnceStopped KeepsContract
CHECK_DEADLOCK FALSE
