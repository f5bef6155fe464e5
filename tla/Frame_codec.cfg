CONSTANTS
    Half = 2
    MaxVarBytes = 5
    MaxSafe = 22
    MaxSize = 21
    MaxEntries = 3
    Utf8 <- MCUtf8
    Json <- MCJson
    Messages <- MCMessages
    MaxTyped = 7
SPECIFICATION CodecSpec
INVARIANTS
    RoundTrip
    RelayKeepsMeaning
    PrefixFree
