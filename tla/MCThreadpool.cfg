CONSTANTS
    Workers = {w1, w2}
    Clients = {c1}
    Tasks = {k1, k2, k3}
    NoTask = NoTask
SPECIFICATION FairSpec
INVARIANTS
    TaskConservation
    ClientWillBeTold
    QueueIsServed
PROPERTIES
    StopReturns
    EveryTaskRuns
    WaitReturns
