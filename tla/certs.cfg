CONSTANTS
    a = a
    b = b
    r = r
    x = x
    s1 = s1
    s2 = s2
    m1 = m1
    m2 = m2
    p1 = p1
    j1 = j1
    j2 = j2
    None = None
    Cert = {a, b, r, x}
    Peer = {p1}
    Slot = {s1, s2}
    Extra = {m2}
    Job = {j1, j2}
    Blocking = {j1}
    Offered = {r}
    Pinnable = {a}
    OtherUri <- MCOtherUri
    Subject <- MCSubject
    Issuer <- MCIssuer
    SlotsOf <- MCSlotsOf
    Registered <- MCRegistered
    StoreOption <- MCStoreOption
    LookupOption <- MCLookupOption
    MaxCalls = 2
    MaxTroubles = 1
    MaxChain = 6
SPECIFICATION FairSpec
CHECK_DEADLOCK FALSE
INVARIANTS
    ModulesOnce
    RemovedIsGone
    BuiltInOrder
PROPERTIES
    AddsWhatIsMissing
    EndsOrCircles
