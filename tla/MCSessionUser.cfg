CONSTANTS
    Workers = {w1, w2}
    Clients = {c1, c2}
    Dirs = {"home", "sub"}
    Home = "home"
    MaxRuns = 2
    Commands = {"register", "cd", "ls", "puts"}
    MaxRequests = 5
    Nobody = Nobody
    Garbage = Garbage
    CdUser = CdUser
    DefaultKey = DefaultKey
    ConfigKey = ConfigKey
    MixedKey = MixedKey
SYMMETRY MCSymmetry
SPECIFICATION Spec
INVARIANT
    NeverAnotherUser
