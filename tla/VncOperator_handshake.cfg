CONSTANTS
    s1 = s1
    s2 = s2
    k1 = k1
    k2 = k2
    p1 = p1
    NoEnd = NoEnd
    NoWord = NoWord
    Sessions = {s1, s2}
    NFds = 3
    HangupEnds <- FirstSession
    Offers <- OfferSets
    Keys = {k1, k2}
    KeyOf <- OwnKeys
    PasswdOf <- OnePasswd
    Edited = {k1}
    MaxAddrs = 1
    MaxEdits = 1
CHECK_DEADLOCK FALSE
SPECIFICATION FairSpec
INVARIANTS
    TypeOK
    RoutedByAnswer
    RefusedOnlyUnknown
    ServerAnswered
    InSync
    OwnDescriptors
PROPERTIES
    ImplementsEndPoint
    HandshakesFinish
