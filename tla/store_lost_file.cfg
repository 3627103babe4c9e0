SPECIFICATION Spec
CONSTANTS
    Workers = {w1}
    Sweeper = gc
    Upload = {u1, u2}
    Hash = {h1}
    Share = {s1, s2}
    Content <- SameContent
    Nil = Nil
    NoOwner = NoOwner
INVARIANT ReferencedOnDisk
