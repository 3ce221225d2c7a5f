\* Two workers, two clients, two jobs, two flushes; functors may submit;
\* condition variables may wake spuriously.
CONSTANTS
    Workers = {w1, w2}
    Clients = {c1, c2}
    Owner = o
    Jobs = {j1, j2}
    Flushes = {f1, f2}
    Submitters = {w1, w2, c1, c2}
    Spurious = TRUE
    None = None
SPECIFICATION Spec
SYMMETRY Symmetry
INVARIANTS ExactlyOnce FlushedThenDestroyedRan SetsLiveFlush
