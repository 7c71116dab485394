CONSTANTS
    s1 = s1
    s2 = s2
    k1 = k1
    NoEnd = NoEnd
    Sessions = {s1, s2}
    NFds = 3
    SendBuf = 1
    MaxNev = 100
    MaxBytes <- NoBytes
    HangupEnds <- FirstSession
    Keys = {k1}
    KeyOf <- OneKey
    MaxEdits = 0
    AllowStop = FALSE
SPECIFICATION Spec
INVARIANTS
    RemoveAssertHolds
