SPECIFICATION FairProcessSpec
CONSTANTS
    c1 = c1
    c2 = c2
    c3 = c3
    n1 = n1
    n2 = n2
    None = None
    Callback = {c1, c2, c3}
    Caller = {n1, n2}
    Owner <- MCOwner
    Prompt = {p1, p2}
    Mode = "single"
    Persist = FALSE
CHECK_DEADLOCK FALSE
INVARIANTS
    NobodyLeftBehind
PROPERTIES
    EndsWithDone
    ImplementsQueue
    IdleProcessExits
