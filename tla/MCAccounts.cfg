\* Three workers with one request each, two connections, two accounts.
CONSTANTS
    Workers = {w1, w2, w3}
    MaxPool = 2
    MaxJobs = 1
    None = None
    NoTask = NoTask
    Users = {a, b}
SPECIFICATION AccountsFairSpec
INVARIANTS
    AccountsAreWhole
    ToldIsKept
    OneAccountPerName
PROPERTIES
    LoginFindsAccount
    RequestsAreServed
