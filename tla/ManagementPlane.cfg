SPECIFICATION PlaneSpec
CONSTANTS
    None = None
    Odd = Odd
    Operators = {o1, o2}
    Decisions = {d1, d2}
    MaxMethods = 2
    CallTimeout = 1
    DefaultTimeout = 3
    Window = 2
    RuntimeAud = "cell-7"
    Pairings <- MCPairings
    Skews = {1}
    Counts = {1}
    SealedBefore = {d1}
    Tenants = {None, ""}
    Governed = {"ListTenants"}
INVARIANTS PairingHonoured ErasedAsShown AtMostOnce
PROPERTY EveryMethodReturns
