CONSTANTS
    m1 = m1
    m2 = m2
    Marshals = {m1, m2}
    MinSize = 2
    MaxBytes = 3
    MaxArg = 3
    Feeds <- OneFeed
    Bookmarked = {m2}
SPECIFICATION Spec
INVARIANTS
    AssertsHold
    OnlyLastHasRoom
    BookmarkPoints
PROPERTIES
    IsByteQueue
