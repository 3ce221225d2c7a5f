\* A signal, or value_signal, whose callbacks connect, disconnect themselves
\* and others and assign again, under each combiner: three nodes, three
\* cookies, two values, nesting depth two.  A walk whose next listener was
\* disconnected stops where it is.
CONSTANTS
    Nodes = {n1, n2, n3}
    Cookies = {k1, k2, k3}
    Values = {v1, v2}
    Combiners = {"noop", "and", "or"}
    MaxDepth = 2
    ClearOwned = FALSE
    None = None
SPECIFICATION Spec
SYMMETRY Symmetry
INVARIANTS CookiesValid WalksSound ListenersCurrent
PROPERTIES WalkOutcome
CHECK_DEADLOCK FALSE
