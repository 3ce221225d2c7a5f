\* One argument is enough.
SPECIFICATION Spec
CONSTANTS
    a = a
    b = b
    z = z
    Help = h
    Keys = {a, b, z, h}
    None = None
    NoText = NoText
    Top = 3
    Kilo = 2
    MaxArgs = 1
    Programs <- MCPrograms
    Args <- MCArgs
INVARIANT RequiredNotSeen
