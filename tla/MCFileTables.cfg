\* Two workers, two users, one content; paths of up to two names.
CONSTANTS
    Workers = {w1, w2}
    alice = alice
    bob = bob
    a = a
    Accounts = {alice, bob}
    Names <- MCNames
    Like <- MCLike
    Hashes = {"h"}
    Ops = {"register", "mkdir", "puts", "rm", "gets", "ls", "ll"}
    MaxUser = 2
    MaxFile = 4
    MaxRow = 4
    MaxDepth = 1
SYMMETRY MCSymmetry
SPECIFICATION Spec
INVARIANTS
    TypeOK
    DirectoriesFormATree
    CdFollowsEntries
    CdFindsDirectories
    UniqueNames
    NoOrphans
PROPERTIES
    RemovalsStayWithinUser
