SPECIFICATION MCSpec
CONSTANTS
    Workers = {w1, w2}
    NoArg = NoArg
    NoOwner = NoOwner
    FileSize = {0, 2}
    Limit = {1}
    NoLimit = NoLimit
    MaxByte = 3
    MaxServed = 2
    Max32 = 100
    MaxEntries16 = 1
    Size = {0, 69, 101}
    NameLen = 1
    MaxFiles = 3
    Version = {v1, v2, v3}
    NoPicture = NoPicture
INVARIANTS
    CountWithinLimit
    ServedIsCounted
    RangeExact
    LengthAnnounced
    ReaderFindsAll
    PictureThere
PROPERTY
    StalePictureGoes
CHECK_DEADLOCK FALSE
