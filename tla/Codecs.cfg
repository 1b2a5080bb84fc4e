SPECIFICATION CodecsSpec
CONSTANTS
    None = None
    Odd = Odd
    Absent = Absent
    MaxDamage = 2
    Byte <- MCByte
    MaxLen = 15
    MaxNum = 63
    Le32 <- MCLe32
    Le64 <- MCLe64
    Be64 <- MCBe64
    Tag <- MCTag
    IntBits = 14
    Precision = 4
    MaxPoint = 3
    MinPoint = 2
    MaxInt = 1100
    Max64 = 3
    WireInts <- MCWireInts
    TokenMin = 2
    IdMax = 4
    Micro = 2
    Day = 3
    MaxMillis = 9
    MaxInstant = 14
    Window = 2
    Partitions = {p1, p2}
    MaxEvents = 4
INVARIANTS
    PayloadsTellApart
    TypedAsSent
    CanonicalBytes
    StreamedVerdict
    HeadVerdict
    DecisionVerdict
    AnswersFailClosed
    RequestsVerify
    InputsKeepTheirMeaning
    CredentialsWork
    WalkIsExact
    AttestedPrefixHeld
CHECK_DEADLOCK FALSE
