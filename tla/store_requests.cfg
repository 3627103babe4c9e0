SPECIFICATION RequestSpec
CONSTANTS
    Workers = {w1, w2}
    Sweeper = gc
    Upload = {u1, u2}
    Hash = {h1}
    Share = {s1, s2}
    Content <- SameContent
    Nil = Nil
    NoOwner = NoOwner
SYMMETRY Interchangeable
VIEW View
INVARIANTS
    TypeOK
    SpentOnce
