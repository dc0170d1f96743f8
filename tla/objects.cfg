SPECIFICATION FairSpec
CONSTANTS
    o1 = o1
    o2 = o2
    o3 = o3
    s1 = s1
    s2 = s2
    s3 = s3
    m1 = m1
    e1 = e1
    e2 = e2
    None = None
    Lost = Lost
    Object = {o1, o2, o3}
    Slot = {s1, s2, s3}
    At <- MCAt
    Modules <- MCModules
    SlotsOf <- MCSlotsOf
    Enumerator = {e1, e2}
    Chained <- MCChained
    OfSession <- MCOfSession
    Call = {k1, k2}
    ObjectCall = {j1, j2}
    Here = {o1, o2}
    Want = {1, 3}
    Type = {"label", "id"}
    DefaultType = {"label"}
    MaxCalls = 3
    MaxEvents = 2
CHECK_DEADLOCK FALSE
INVARIANTS
    EndMeansAll
PROPERTIES
    UpdatesAreFresh
