SPECIFICATION ChatSpec
CONSTANTS
    a1 = a1
    y = y
    Workers = {w1, w2}
    User = {a1, d}
    Admins = {d}
    Text = {y}
    NoText = NoText
    Names <- MCNames
    MaxMsg = 2
    MaxPins = 1
    NoArg = NoArg
    NoOwner = NoOwner
    Poll = {p1, p2}
    Body = {x}
    MaxSaid = 3
    MaxTime = 2
    Page = 1
CONSTRAINTS Bounded Short
INVARIANTS
    RemovedIsErased
    
    RemovedKeepsNothing
    
PROPERTIES
    ReadNeverBack
    
