SPECIFICATION SystemSpec
CONSTANTS
    c1 = c1
    c2 = c2
    n1 = n1
    n2 = n2
    None = None
    Callback <- MCCallback
    Caller = {n1, n2}
    Owner <- MCOwner
    Prompt = {p1, p2}
    Mode = "single"
    me = c1
    MaxOp = 2
    Styles = {"async", "sync"}
    MayCancel = FALSE
    HasTimeout = FALSE
    MaxStarts = 1
SYMMETRY PromptSymmetry
CHECK_DEADLOCK FALSE
INVARIANTS
    NobodyIsForgotten
    AnswersAreTheUsers
