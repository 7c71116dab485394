CONSTANTS
    s1 = s1
    s2 = s2
    k1 = k1
    NoEnd = NoEnd
    Sessions = {s1}
    NFds = 2
    SendBuf = 1
    MaxNev = 100
    MaxBytes <- NoBytes
    HangupEnds <- Clients
    Keys = {k1}
    KeyOf <- OneKey
    MaxEdits = 0
    AllowStop = FALSE
SPECIFICATION Spec
INVARIANTS
    NoUseAfterFree
