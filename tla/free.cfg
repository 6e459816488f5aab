SPECIFICATION Spec
CONSTANTS
    Flows = {"A", "B"}
    Programs <- MCPrograms
    Runners = {"live", "sync", "mock", "loop"}
    Values <- MCValues
    None = "none"
    Answers <- MCAnswers
    Size = 2
INVARIANTS  OwnSystem
PROPERTY TrampolineEnds
CHECK_DEADLOCK FALSE
