SPECIFICATION Spec
CONSTANTS
    LongBits = 64
    HexKeys <- MCKeys
    Blocks <- MCBlocks
    MaxCalls = 5
INVARIANTS SixBitGroups IsStandardDes TopBitsIgnored
PROPERTIES Decrypts
CHECK_DEADLOCK FALSE
