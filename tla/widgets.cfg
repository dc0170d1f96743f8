SPECIFICATION WidgetsSpec
CONSTANTS
    x = x
    y = y
    c = c
    None = None
    Root = Root
    FilterOf = FilterOf
    Object = {x, y, c}
    Simple = {A, c}
    Single = {B}
    Members = {A, B}
    Label = {1, 2}
    Low = {1}
    FirstLabel <- MCLabel
    Rank <- MCRank
    Sorts <- MCSorts
    Changing = {x}
    Selecting = {y}
    f1 = f1
    f2 = f2
    File = {f1, f2}
    Sound <- MCSound
    Damaged <- MCDamaged
    Formats <- MCFormats
    Password = {"a", "b"}
    MaxClicks = 2
    GnuPG = GnuPG
    c1 = c1
    c2 = c2
    k1 = k1
    k2 = k2
    rq = rq
    pg = pg
    fpr = fpr
    s1 = s1
    s2 = s2
    s3 = s3
    Item = {c1, c2, k1, rq, pg}
    Class <- MCClass
    Pair <- MCPair
    TokenSlots <- MCSlot
    Flags <- MCFlags
    Refused = {s2}
    MaxItems = 3
    MaxFaults = 1
    p1 = p1
    p2 = p2
    Key = {p1, p2}
    Packet = {p1, p2}
    Photo <- MCPhoto
    Keyrings <- MCKeyrings
    Jobs = {"load", "import"}
    ReadBlock = 2
    PipeSize = 2
    MaxRuns = 2
    Troubles <- MCTroubles
CHECK_DEADLOCK FALSE
INVARIANTS
    CollectionsAreExact
    ViewMirrors
    RowsMirror
    EachObjectOnce
    PairsShareId
    ItemsMirrorListing
    PhotosAreTheirs
    ImportsAll
PROPERTIES
    UnlockOpens
    SuccessMeansAll
    ImportsEnd
    EndsOrStuck
