CONSTANTS
    Sessions = {s1, s2}
    Size = 5
    Page = 2
    Half = 16
    OldLengths = {0}
SYMMETRY MCSymmetry
SPECIFICATION Spec
INVARIANT
    CompleteIsWhole
