-------------------------- MODULE GcrGnupgProcess --------------------------
(***************************************************************************)
(* gcr/gcr-gnupg-process.c: one run of gpg.  A GSource polls five pipes,   *)
(* reads and writes what is ready, one pipe after the other, while the     *)
(* child goes on; a child watch reports the exit.  The run is complete     *)
(* when the pipes are closed and the exit is known, whichever is last.     *)
(***************************************************************************)
EXTENDS Integers, Sequences, FiniteSets, SequencesExt

CONSTANTS
    Block,      \* the most that one read() returns
    PipeSize    \* what a pipe holds; a writer of a full pipe waits

PipesAssumption == Block \in Nat \ {0} /\ PipeSize \in Nat \ {0}

VARIABLES
    proc,     \* the GcrGnupgProcess and its GnupgSource
    at,       \* "loop", or the pipe that the dispatch function is at, or its "end"
    revents,  \* what poll said of each pipe
    pipe,     \* what is in each pipe
    child,    \* the gpg process
    stopped,  \* the cancellable is cancelled
    faults    \* how many children may still fail, or programs not start (a bound)

processVars == <<proc, at, revents, pipe, child, stopped, faults>>

\* The order in which on_gnupg_source_dispatch takes them.
Order == <<"input", "status", "attribute", "output", "error">>
Fd == ToSet(Order)
Outputs == Fd \ {"input"}

NoProcess == [running |-> FALSE, complete |-> FALSE, error |-> "none", later |-> FALSE,
              fds |-> {}, pid |-> FALSE, connected |-> FALSE]
NoChild == [alive |-> FALSE, todo |-> <<>>, status |-> "ok", term |-> FALSE]
Empty == [f \in Fd |-> <<>>]

-----------------------------------------------------------------------------
(***************************************************************************)
(* The child: writes what it has to say, reads its input, and ends.        *)
(***************************************************************************)
Write(f, item) == [fd |-> f, item |-> item]
ReadInput == [fd |-> "input", item |-> "any"]

\* What a packet that is read makes gpg say.
Answer(packet) == Write("status", packet)

Exits(status) == child' = [child EXCEPT !.alive = FALSE, !.todo = <<>>, !.status = status]

ChildWrites ==
    /\ child.alive /\ child.todo # <<>>
    /\ LET op == Head(child.todo)
       IN  /\ op.fd # "input" /\ Len(pipe[op.fd]) < PipeSize
           /\ pipe' = [pipe EXCEPT ![op.fd] = Append(@, op.item)]
    /\ child' = [child EXCEPT !.todo = Tail(@)]

\* Reading ends when the program has closed its end.
ChildReads ==
    /\ child.alive /\ child.todo # <<>> /\ Head(child.todo).fd = "input"
    /\ IF pipe["input"] # <<>>
       THEN /\ pipe' = [pipe EXCEPT !["input"] = Tail(@)]
            /\ child' = [child EXCEPT !.todo = <<Answer(Head(pipe["input"]))>> \o @]
       ELSE /\ "input" \notin proc.fds
            /\ child' = [child EXCEPT !.todo = Tail(@)]
            /\ pipe' = pipe

ChildEnds ==
    /\ child.alive /\ child.todo = <<>> /\ Exits("ok")
    /\ UNCHANGED <<pipe, faults>>

\* An error makes gpg say so and exit with a code; so may SIGTERM.
ChildFails ==
    /\ child.alive /\ Len(pipe["error"]) < PipeSize
    /\ \/ child.term /\ faults' = faults
       \/ faults > 0 /\ faults' = faults - 1
    /\ Exits("failed")
    /\ pipe' = [pipe EXCEPT !["error"] = Append(@, "error line")]

ChildDies ==
    /\ child.alive /\ child.term /\ Exits("signal")
    /\ UNCHANGED <<pipe, faults>>

ChildRuns ==
    /\ \/ (ChildWrites \/ ChildReads) /\ UNCHANGED faults
       \/ ChildEnds \/ ChildFails \/ ChildDies
    /\ UNCHANGED <<proc, at, revents, stopped>>

-----------------------------------------------------------------------------
(***************************************************************************)
(* The program's side.  What changes is passed on as values, since what a  *)
(* callback does is part of the same step.                                 *)
(***************************************************************************)
FirstError(error, new) == IF error = "none" THEN new ELSE error

\* on_cancellable_cancelled
Cancelled(p) == [p EXCEPT !.error = FirstError(@, "cancelled")]
Terminated(p, c) == [c EXCEPT !.term = @ \/ (p.pid /\ c.alive)]

\* run_async, after the child is started; g_cancellable_connect calls the
\* handler at once when it is too late.
Connected(p, late) == IF late THEN Cancelled(p) ELSE [p EXCEPT !.connected = TRUE]

Started(p, fds, late) ==
    Connected([p EXCEPT !.running = TRUE, !.complete = FALSE, !.fds = fds, !.pid = TRUE], late)

\* run_async, when it is not: complete_run_process and an idle callback.
NotStarted(p) == [p EXCEPT !.running = FALSE, !.complete = TRUE, !.error = "spawn",
                           !.later = TRUE]

Finished(p) == p.running /\ p.fds = {} /\ ~p.pid
Completed(p) == [p EXCEPT !.running = FALSE, !.complete = TRUE, !.connected = FALSE]

\* run_finish
Result(p) == p.error
Cleared(p) == [p EXCEPT !.complete = FALSE, !.error = "none"]

\* on_gnupg_process_child_exited; the error of a killed child is dropped if
\* the run was cancelled, and the first error is the one that stays.
ExitSeen(p) ==
    LET said == CASE child.status = "ok" -> p.error
                  [] child.status = "failed" -> FirstError(p.error, "failed")
                  [] child.status = "signal" -> FirstError(p.error, "failed")
    IN  [p EXCEPT !.pid = FALSE, !.error = said]

\* What poll says: there is something to read, the other end is closed, there
\* is room to write.  Of a full pipe that nobody reads it says neither.
Ready(f) ==
    IF f = "input"
    THEN IF Len(pipe[f]) < PipeSize THEN {"OUT"} ELSE {}
    ELSE (IF pipe[f] # <<>> THEN {"IN"} ELSE {}) \cup (IF child.alive THEN {} ELSE {"HUP"})
Wakes(f) == Ready(f) # {} \/ (f = "input" /\ ~child.alive)

\* The next pipe that the dispatch function has something to do with.
FirstReady(rev, from) ==
    LET ready == {i \in from..5 : rev[Order[i]] # {}}
    IN  IF ready = {} THEN "end" ELSE Order[CHOOSE i \in ready : \A j \in ready : i <= j]
NextFd(f) == FirstReady(revents, 1 + CHOOSE i \in 1..5 : Order[i] = f)

Poll ==
    /\ at = "loop" /\ \E f \in proc.fds : Wakes(f)
    /\ revents' = [f \in Fd |-> IF f \in proc.fds THEN Ready(f) ELSE {}]
    /\ at' = FirstReady(revents', 1)
    /\ UNCHANGED <<proc, pipe, child, stopped, faults>>

\* One read() of read_output: a full block means another, which waits for
\* the child when the pipe is empty.
Taken(f) == SubSeq(pipe[f], 1, IF Len(pipe[f]) < Block THEN Len(pipe[f]) ELSE Block)
Returns(f) == pipe[f] # <<>> \/ ~child.alive
Again(f) == Len(Taken(f)) = Block
After(f) == [pipe EXCEPT ![f] = SubSeq(@, Len(Taken(f)) + 1, Len(@))]

\* close_poll
ClosedButKept(p, f) == p
Closed(p, f) == [p EXCEPT !.fds = @ \ {f}]
HungUp(p, f) == IF "HUP" \in revents[f] THEN Closed(p, f) ELSE p

\* on_gnupg_source_input: a block of the input stream is written when there
\* is room; at the end of the stream, when the stream is cancelled and gives
\* nothing, or when nobody reads, the pipe closes.
FedWhole(p, packets) ==
    IF Len(packets) <= 1
    THEN [proc |-> Closed(p, "input"), packets |-> <<>>, sent |-> <<>>]
    ELSE [proc |-> p, packets |-> Tail(packets), sent |-> <<Head(packets)>>]
Fed(p, packets) ==
    IF packets = <<>> \/ stopped
    THEN [proc |-> Closed(p, "input"), packets |-> packets, sent |-> <<>>]
    ELSE [proc    |-> IF child.alive THEN p ELSE Closed(p, "input"),
          packets |-> Tail(packets),
          sent    |-> IF child.alive THEN <<Head(packets)>> ELSE <<>>]

ProcessInit ==
    /\ proc = NoProcess /\ at = "loop" /\ revents = [f \in Fd |-> {}]
    /\ pipe = Empty /\ child = NoChild /\ stopped = FALSE
=============================================================================
