SPECIFICATION FairSpec
CONSTANTS
    Call = {k1, k2}
    PoolSize = 1
    Rv <- MCRv
    s1 = s1
    h1 = h1
    None = None
    Session = {s1, s2}
    Handle = {h1, h2}
    Raw = {s1}
    RawHandle <- MCRawHandle
    Auth = {"none", "pin", "pad"}
    MaxTries = 2
    MaxFind = 1
CHECK_DEADLOCK FALSE
INVARIANTS
    CallsUseOpenHandles
    LoginLasts
    OperationsEnd
    EachPinSentOnce
PROPERTIES
    CallsFinish
