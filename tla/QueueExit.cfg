SPECIFICATION FairSpec
CONSTANTS
    Queues = {q1, q2}
    Exit = exit
    Threads = 2
INVARIANT HandlerUsesLiveQueues
PROPERTIES ExitWaitsForAll ExitReturns
