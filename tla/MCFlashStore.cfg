CONSTANTS
    v1 = v1
    v2 = v2
    Spaces <- MCSpaces
    sa = sa
    sb = sb
    Names <- MCNames
    x = x
    y = y
    Values <- MCValues
    Length <- MCLength
    Blocks = 2
    Slots = 2
    Cells = 3
    None = None
    MaxCrashes = 1
SPECIFICATION Spec
SYMMETRY Symmetry
INVARIANTS
    ReadsBack
    ProgramsErased
    WellFormed
