SPECIFICATION Spec
CONSTANTS
    Chains <- MCChains
    Sources <- MCSources
    Others <- MCOthers
    Sinks = {"list", "first", "last", "reduce", "count"}
INVARIANTS KeepsDerivation SinksAgree Lazy  TimeoutKeepsOrder
CHECK_DEADLOCK FALSE
