SPECIFICATION Spec
CONSTANTS
    None = None
    Account <- MCAccount
    LocalDir <- MCLocalDir
    Chars = {" ", "/", ".", "a"}
    MaxTyped = 5
    MaxPath = 6
    CmdSize = 6
INVARIANTS
    PathsAreResolved
    EntryIsNamed
    WorkpathStaysHome
    ServerAgrees
