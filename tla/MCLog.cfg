SPECIFICATION Spec
CONSTANTS
    main = main
    w1 = w1
    Threads = {main, w1}
    Main = main
    Levels = {1, 3}
    Info = 1
    OutputLevel = 0
    MaxFd = 2
    MaxDay = 2
    Closed = Closed
    Socket = Socket
INVARIANTS
    LinesReachTheLog
    FilesAreKnown
