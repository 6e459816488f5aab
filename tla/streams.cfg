SPECIFICATION Spec
CONSTANTS
    Tasks <- MCTasks
    Loads <- MCLoads
    Size = 1
    Width = 2
INVARIANTS DeliversInOrder ProducersGone Bounded AcceptedIsRead
PROPERTIES Settles CloserReturns
CHECK_DEADLOCK FALSE
