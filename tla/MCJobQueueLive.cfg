\* Liveness and refinement: no spurious wake-up, weak fairness of the threads.
CONSTANTS
    Workers = {w1, w2}
    Clients = {c1, c2}
    Owner = o
    Jobs = {j1, j2}
    Flushes = {f1}
    Submitters = {w1, c1, c2}
    Spurious = FALSE
    None = None
SPECIFICATION FairSpec
PROPERTIES Drains FlushReturns DestructorReturns ImplementsPool
