\* Variables of two bits, a suffix that doubles, up to three arguments.
SPECIFICATION Spec
CONSTANTS
    a = a
    b = b
    z = z
    Help = h
    Keys = {a, b, z, h}
    None = None
    NoText = NoText
    Top = 3
    Kilo = 2
    MaxArgs = 3
    Programs <- MCPrograms
    Args <- MCArgs
INVARIANTS
    FollowsArguments
    DataFollowsCalls
    RequiredWereCalled
