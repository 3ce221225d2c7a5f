\* clear () called while cookies are alive.
CONSTANTS
    Nodes = {n1, n2}
    Cookies = {k1, k2}
    Values = {v1}
    Combiners = {"noop"}
    MaxDepth = 1
    ClearOwned = TRUE
    None = None
SPECIFICATION Spec
INVARIANTS CookiesValid
