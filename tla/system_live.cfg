SPECIFICATION FairSystemSpec
CONSTANTS
    c1 = c1
    c2 = c2
    n1 = n1
    n2 = n2
    None = None
    Callback <- MCAlone
    Caller = {n1, n2}
    Owner <- MCAloneOwner
    Prompt = {p1, p2}
    Mode = "single"
    me = c1
    MaxOp = 1
    Styles = {"async"}
    MayCancel = TRUE
    HasTimeout = TRUE
    MaxStarts = 2
CHECK_DEADLOCK FALSE
INVARIANT
    NoPromptForTheClosed
PROPERTY
    OperationsFinish
