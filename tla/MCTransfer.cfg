CONSTANTS
    Sessions = {s1, s2, s3}
    Size = 3
    Page = 2
    Half = 8
    OldLengths = {0, 1, 4}
SPECIFICATION FairSpec
INVARIANTS
    SessionBytesArrive
    MapsWithinFile
    WholeUnlessResumed
    DownloadIsWhole
PROPERTIES
    SessionsEnd
