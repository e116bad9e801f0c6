\* Three connections, two workers, a queue of two tasks, up to the damage;
\* transfers may hang.
CONSTANTS
    f1 = f1
    f2 = f2
    f3 = f3
    a1 = a1
    a2 = a2
    ws = ws
    w1 = w1
    Null = Null
    Temp = Temp
    ShortThread = ws
    Workers = {ws, w1}
    Fd = {f1, f2, f3}
    Addr = {a1, a2}
    MaxSize = 2
    Stimuli <- LiveStimuli
    Interrupted = TRUE
SPECIFICATION FairSpec
CONSTRAINT Undamaged
PROPERTIES ShortServed LongServed ShutdownCompletes
