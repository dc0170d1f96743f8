SPECIFICATION ImportingSpec
CONSTANTS
    GnuPG = GnuPG
    c1 = c1
    c2 = c2
    k1 = k1
    k2 = k2
    rq = rq
    pg = pg
    fpr = fpr
    s1 = s1
    s2 = s2
    s3 = s3
    Item = {c1, c2, k1, rq, pg}
    Class <- MCClass
    Pair <- MCPair
    TokenSlots <- MCSlot
    Flags <- MCFlags
    Refused = {s2}
    MaxItems = 1
    MaxFaults = 0
CHECK_DEADLOCK FALSE
PROPERTIES
    ImportsComplete
