SPECIFICATION FairSpec
CONSTANTS
    Threads = {t1, t2}
    Total = 3
    NoOwner = NoOwner
INVARIANTS
    TypeOK
    OffsetDurable
    BlobWhole
PROPERTIES
    Settles
