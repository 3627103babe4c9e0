SPECIFICATION FeedSpec
CONSTANTS
    Poll = {p1}
    Body = {x}
    MaxSaid = 2
    MaxTime = 2
    Page = 2
INVARIANTS
    NothingMissedInQuotes
