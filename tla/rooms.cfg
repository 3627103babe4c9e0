SPECIFICATION Spec
CONSTANTS
    a1 = a1
    Workers = {w1}
    User = {a1, b}
    Admins = {a1}
    Room = {r1}
    Share = {s1, s2}
    Owner <- MCOwner
    Batch = {i1, i2}
    Nobody = Nobody
    NoArg = NoArg
    NoOwner = NoOwner
SYMMETRY Interchangeable
CONSTRAINT Apart
INVARIANTS
    PhotosGoWithRoom
    ItemsAgree
PROPERTIES
    MembershipSpec
    SentWhole
    BlockedNotHeard
