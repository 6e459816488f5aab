SPECIFICATION Spec
CONSTANTS
    r1 = r1
    r2 = r2
    q1 = q1
    q2 = q2
    Runs = {r1, r2}
    Asks = {q1, q2}
    Shared = Shared
    IdOf <- OneId
    None = None
    Halt = Halt
    MaxChunks = 0
    Workloads <- Together
PROPERTIES
    RetriesStart
CHECK_DEADLOCK FALSE
