\* The functor of flush against the locals of flush, with spurious wake-ups.
CONSTANTS
    Workers = {w1, w2}
    Clients = {c1}
    Owner = o
    Jobs = {j1}
    Flushes = {f1}
    Submitters = {c1}
    Spurious = TRUE
    None = None
SPECIFICATION Spec
INVARIANT NotifiesLiveFlush
