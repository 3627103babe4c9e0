SPECIFICATION MCSpec
CONSTANTS
    Workers = {w1}
    User = {a, b}
    Name = {m, n}
    Token = {k1, k2}
    Invite = {i1}
    Nobody = Nobody
    NoArg = NoArg
    NoOwner = NoOwner
    MaxPassword = 1
    Slot = {p1, p2}
    Client = {c1, c2, c3}
    NoClient = NoClient
    Target = {t1}
    Window = 3
    ClientFailures = 2
    FreeFailures = 1
    MaxDelay = 2
    MaxEntries = 2
    MaxClock = 5
    MaxTries = 5
    h1 = h1
    Item = {x1, x2, x3}
    Link = {l1, l2}
    Hash = {h1, h2}
    SizeOf <- MCSize
    Member = {a, b}
    Limits = {3, NoLimit}
    NoLimit = NoLimit
SYMMETRY Interchangeable
INVARIANTS
    AnAdminRemains
    SessionsStand
    SnapshotsFollow
    MapsBounded
    ClientHeld
    TargetSlowed
    CountsMatch
PROPERTIES
    VouchRecordKept
    GrowsWithinLimit
