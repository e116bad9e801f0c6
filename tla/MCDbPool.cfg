\* Four workers share two connections: waits, wake-ups and newcomers; and
\* every job must be served.
CONSTANTS
    w1 = w1
    w2 = w2
    w3 = w3
    w4 = w4
    None = None
    Workers <- MCWorkers
    MaxPool = 2
    MaxJobs = 2
SPECIFICATION FairSpec
INVARIANTS ExclusiveConnections Accounting NoLostWakeup DestroyNeverWaits
PROPERTIES EveryJobServed
