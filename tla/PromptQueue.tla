---------------------------- MODULE PromptQueue ----------------------------
(***************************************************************************)
(* What the prompter promises to the callers it serves, without the way it *)
(* does it: a caller that joins gets in line, the head of the line may be  *)
(* shown when there is room on the screen, nobody else is shown, and       *)
(* callers can leave at any time from wherever they are: one of them, all  *)
(* those of a program together, or all there are, and nobody else with     *)
(* them.  At most one caller is taken off the line in a step.              *)
(***************************************************************************)
EXTENDS WaitQueue

CONSTANTS Callback, Mode, Caller, Owner

VARIABLES
    line,       \* the queue of callers that have joined
    showing     \* those whose prompt is shown

Members == QueuedIn(line) \union showing

Room(s) == Mode = "multiple" \/ s = {}

\* The line and the screen become l and s, after which its head may be shown.
Serve(l, s) ==
    \/ line' = l /\ showing' = s
    \/ \E c \in Callback :
          /\ Room(s)
          /\ IsHead(l, c)
          /\ line' = Without(l, {c})
          /\ showing' = s \union {c}

Init == line = EmptyQueue(Callback) /\ showing = {}

Join(c) == c \notin Members /\ Serve(PushTail(line, c), showing)

Leave(S) == Serve(Without(line, S), showing \ S)

\* One callback, those of one program, or all.
Company ==
    {{c} : c \in Callback} \union {{c \in Callback : Owner[c] = n} : n \in Caller}
        \union {Callback}

Next ==
    \/ \E c \in Callback : Join(c)
    \/ \E S \in Company : Leave(S \intersect Members)

Spec == Init /\ [][Next]_<<line, showing>>
=============================================================================
