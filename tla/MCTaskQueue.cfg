\* The list against the abstract queue, up to the step that damages it, and
\* the calls that follow.
CONSTANTS
    f1 = f1
    f2 = f2
    f3 = f3
    a1 = a1
    a2 = a2
    a3 = a3
    a4 = a4
    a5 = a5
    Null = Null
    Temp = Temp
    Fd = {f1, f2}
    Addr = {a1, a2, a3, a4, a5}
    MaxSize = 5
SPECIFICATION QueueSpec
SYMMETRY MCSymmetry
INVARIANTS ListAgreesWithCounters FindsWhatIsCounted
PROPERTIES ImplementsFifo
