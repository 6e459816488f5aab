SPECIFICATION Spec
CONSTANTS
    Agents <- MCAgents
    Programs <- MCPrograms
INVARIANTS
    Agrees
    NothingRuns
PROPERTIES
    Ends
CHECK_DEADLOCK FALSE
