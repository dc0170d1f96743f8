---------------------------- MODULE SystemPrompt ----------------------------
(***************************************************************************)
(* The client side of system prompting, gcr/gcr-system-prompt.c: one       *)
(* GcrSystemPrompt, which opens a prompt at the prompter service, asks     *)
(* questions with it and closes it.                                        *)
(*                                                                         *)
(* Operation 0 is the initialisation, operations 1 .. MaxOp are prompts,   *)
(* each a GSimpleAsyncResult with its CallClosure.  A "sync" operation     *)
(* runs a main loop of its own, with its own context, and its caller waits *)
(* there; an "async" one uses the main context.                            *)
(***************************************************************************)
EXTENDS Integers, Sequences

CONSTANTS
    MaxOp,      \* how many prompts the caller performs: a bound for TLC
    Styles,     \* those of "sync" and "async" that the caller uses
    MayCancel,  \* whether the caller cancels what it passed a cancellable to
    HasTimeout  \* timeout_seconds > 0

Op == 0 .. MaxOp
NoOp == -1

VARIABLES
    closed,     \* the prompt may not be used any more
    begun,      \* begun_prompting: BeginPrompting returned, no Stop or Done since
    received,   \* the exchange has received something from the prompter
    owner,      \* prompt_owner # NULL: the prompter was present when last heard of
    context,    \* where calls to the exported object are dispatched: "none" if it
                \* is not exported, "main", "run" (the loop of the operation that
                \* runs) or "dead" (the context of a loop that has ended)
    response,   \* last_response, "null" until there is one
    pending,    \* the operation that waits for the prompter, or NoOp
    running,    \* the sync operation whose loop runs, or NoOp
    ops,        \* the operations
    sent        \* what the last step sent to the prompter

promptVars == <<closed, begun, received, owner, context, response, pending,
                running, ops, sent>>

OpRecord ==
    [style : {"unused", "sync", "async"},
     call : {"none", "bus", "Begin", "Perform"},   \* the call of it in flight
     waiting : BOOLEAN,     \* the source of on_call_cancelled is attached,
     late : BOOLEAN,        \* after a completion was scheduled
     timeout : BOOLEAN,     \* the source of on_call_timeout is attached
     watch : BOOLEAN,       \* it watches the name of the prompter
     cancelled : BOOLEAN,   \* the cancellable of the closure is cancelled
     aborted : BOOLEAN,     \* the cancellable of the caller is cancelled
     idle : Nat,            \* completions scheduled with complete_in_idle
     leaked : BOOLEAN,      \* a reference is never dropped
     error : {"none", "cancelled", "progress", "failed"},
     results : Seq({"null", "none", "yes", "no", "cancelled", "progress", "failed"})]
                            \* what its callback was called with, in order

UnusedOp ==
    [style |-> "unused", call |-> "none", waiting |-> FALSE, timeout |-> FALSE,
     watch |-> FALSE, late |-> FALSE, cancelled |-> FALSE, aborted |-> FALSE,
     idle |-> 0, leaked |-> FALSE, error |-> "none", results |-> <<>>]

Call(method, o) == [msg |-> method, op |-> o]
Answered == [msg |-> "Answered", op |-> NoOp]

-----------------------------------------------------------------------------
(* Operations.                                                             *)

\* The references to a GSimpleAsyncResult.  With the last one the closure is
\* freed, and with it the sources and the watch on the prompter's name.
Alive(o) ==
    \/ pending = o
    \/ ops[o].call # "none"
    \/ ops[o].idle > 0
    \/ ops[o].leaked

Started(o) == ops[o].style # "unused"
Finished(o) == ops[o].results # <<>>
Opened == Finished(0) /\ ops[0].results[1] \notin {"cancelled", "progress", "failed"}

\* The context an operation was started in is being iterated.
Iterated(o) == IF ops[o].style = "sync" THEN running = o ELSE running = NoOp

\* The source of on_call_cancelled can be dispatched.  perform_prompt_async
\* leaves closure->context unset, so that its source is in the main context,
\* whatever context the operation runs in.
WaitingInMain(o) == running = NoOp
WaitingIterated(o) == IF o = 0 THEN Iterated(o) ELSE WaitingInMain(o)
CancelReady(o) ==
    Alive(o) /\ ops[o].waiting /\ ops[o].cancelled /\ WaitingIterated(o)
\* A scheduled completion can be dispatched.
IdleReady(o) == ops[o].idle > 0 /\ Iterated(o)

\* The callback of the operation is called, with its error or with the last
\* response; a sync operation leaves its loop.
Complete(op, answer) ==
    [op EXCEPT !.results = Append(@, IF op.error = "none" THEN answer ELSE op.error)]
Return(o) ==
    /\ running' = IF running = o THEN NoOp ELSE running
    /\ context' = IF running = o /\ context = "run" THEN "dead" ELSE context

\* The cancellation has no source.
AwaitOnly(op) == [op EXCEPT !.call = "none"]
\* The operation waits for the prompter, or is to be told of its cancellation.
Await(op) == [op EXCEPT !.call = "none", !.waiting = TRUE, !.late = op.idle > 0]

\* How the call of an operation ends: an aborted call fails as cancelled,
\* whatever came back.
Failure(op, isAborted) ==
    [op EXCEPT !.call = "none", !.error = IF isAborted THEN "cancelled" ELSE "failed"]

-----------------------------------------------------------------------------
(* Closing.                                                                *)

\* The pending operation is forgotten without being completed.
AbandonPending(f) == f
\* The pending operation is cancelled and completes later.
DropPending(f) ==
    IF pending = NoOp THEN f
    ELSE [f EXCEPT ![pending].cancelled = TRUE, ![pending].idle = @ + 1]

\* The prompter is not told.
StopForgotten(hasBegun) == <<>>
\* Stop is sent if there is something to stop and somebody to tell.
StopIfBegun(hasBegun) ==
    IF hasBegun /\ context # "none" /\ owner THEN <<Call("Stop", NoOp)>> ELSE <<>>

\* Where its calls are dispatched once it is closed.
ClosedContext == "none"

\* perform_close, except what it does to the operations.
PerformClose(hasBegun) ==
    /\ closed' = TRUE
    /\ begun' = FALSE
    /\ pending' = NoOp
    /\ context' = ClosedContext
    /\ sent' = StopIfBegun(hasBegun)
    /\ UNCHANGED <<received, owner, response>>

-----------------------------------------------------------------------------
(* What the caller does.                                                   *)

\* gcr_system_prompt_real_init and _init_async: connect to the bus.
Open(style) ==
    /\ ~Started(0) /\ ~closed
    /\ ops' = [ops EXCEPT ![0].style = style, ![0].call = "bus"]
    /\ running' = IF style = "sync" THEN 0 ELSE NoOp
    /\ sent' = <<>>
    /\ UNCHANGED <<closed, begun, received, owner, context, response, pending>>

\* perform_prompt_async, and the loop that gcr_prompt_password and _confirm run
\* around it.  A closed prompt dismisses.
Perform(o, style) ==
    /\ Opened /\ running = NoOp /\ pending = NoOp
    /\ o > 0 /\ ~Started(o) /\ \A p \in 0 .. o - 1 : Started(p)
    /\ running' = IF style = "sync" THEN o ELSE NoOp
    /\ IF closed
       THEN /\ response' = "none"
            /\ ops' = [ops EXCEPT ![o].style = style, ![o].idle = 1]
            /\ sent' = <<>>
            /\ UNCHANGED <<context, pending>>
       ELSE /\ context' = IF style = "sync" THEN "run" ELSE "main"
            /\ ops' = [ops EXCEPT ![o].style = style, ![o].call = "Perform",
                                  ![o].watch = TRUE]
            /\ sent' = <<Call("Perform", o)>>
            /\ pending' = o
            /\ UNCHANGED response
    /\ UNCHANGED <<closed, begun, received, owner>>

\* The caller cancels the cancellable it passed, which cancels the closure's.
Cancel(o) ==
    /\ MayCancel
    /\ Started(o) /\ ~Finished(o) /\ ~ops[o].aborted
    /\ ops' = [ops EXCEPT ![o].cancelled = TRUE, ![o].aborted = TRUE]
    /\ sent' = <<>>
    /\ UNCHANGED <<closed, begun, received, owner, context, response, pending, running>>

\* gcr_prompt_close, gcr_system_prompt_close and _close_async; or the last
\* reference to the object is dropped: gcr_system_prompt_dispose.
Close ==
    /\ ~closed /\ Finished(0) /\ running = NoOp
    /\ PerformClose(begun)
    /\ ops' = DropPending(ops)
    /\ UNCHANGED running

-----------------------------------------------------------------------------
(* What the main loop dispatches.                                          *)

\* on_bus_connected and the second step of perform_init_async: the name of the
\* prompter is watched, the object exported, and Begin called.
BusConnected(ok) ==
    /\ ops[0].call = "bus" /\ Iterated(0)
    /\ IF ok /\ ~ops[0].cancelled
       THEN /\ ops' = [ops EXCEPT ![0].call = "Begin", ![0].watch = TRUE]
            /\ context' = IF ops[0].style = "sync" THEN "run" ELSE "main"
            /\ sent' = <<Call("Begin", 0)>>
            /\ UNCHANGED running
       ELSE /\ ops' = [ops EXCEPT ![0] = Complete(Failure(@, @.cancelled), response)]
            /\ sent' = <<>>
            /\ Return(0)
    /\ UNCHANGED <<closed, begun, received, owner, response, pending>>

\* on_prompter_begin_prompting and the third step of perform_init_async: wait
\* for the prompter to be ready.
BeginReturns(ok) ==
    /\ ops[0].call = "Begin" /\ Iterated(0)
    /\ IF ok /\ ~ops[0].cancelled
       THEN /\ begun' = TRUE
            /\ pending' = 0
            /\ ops' = [ops EXCEPT ![0] = [Await(@) EXCEPT !.timeout = HasTimeout]]
            /\ UNCHANGED <<context, running>>
       ELSE /\ ops' = [ops EXCEPT ![0] = Complete(Failure(@, @.cancelled), response)]
            /\ Return(0)
            /\ UNCHANGED <<begun, pending>>
    /\ sent' = <<>>
    /\ UNCHANGED <<closed, received, owner, response>>

\* on_perform_prompt_complete.  The call was made with the caller's
\* cancellable.  When it failed the reference of pending is lost.
PerformReturns(o, ok) ==
    /\ o > 0 /\ ops[o].call = "Perform" /\ Iterated(o)
    /\ IF ok /\ ~ops[o].aborted
       THEN /\ ops' = [ops EXCEPT ![o] = Await(@)]
            /\ UNCHANGED <<context, pending, running>>
       ELSE /\ ops' = [ops EXCEPT ![o] =
                          [Complete(Failure(@, @.aborted), response)
                              EXCEPT !.leaked = (pending = o)]]
            /\ pending' = NoOp
            /\ Return(o)
    /\ sent' = <<>>
    /\ UNCHANGED <<closed, begun, received, owner, response>>

\* The operation is completed before the answer is kept.
ReadyTooSoon(answer) ==
    /\ response' = answer
    /\ ops' = [ops EXCEPT ![pending] = Complete(@, response)]
\* What prompt_method_ready does with the answer.
ReadyAnswers(answer) ==
    /\ response' = answer
    /\ ops' = [ops EXCEPT ![pending] = Complete(@, answer)]

\* prompt_method_ready.  When nothing is pending it returns at once, without a
\* reply.
ReadyCalled(answer) ==
    /\ IF pending = NoOp
       THEN /\ sent' = <<>>
            /\ UNCHANGED <<received, response, pending, ops, running, context>>
       ELSE /\ sent' = <<Answered>>
            /\ received' = TRUE
            /\ pending' = NoOp
            /\ ReadyAnswers(answer)
            /\ Return(pending)
    /\ UNCHANGED <<closed, begun, owner>>

\* prompt_method_done
DoneCalled ==
    /\ PerformClose(FALSE)
    /\ ops' = DropPending(ops)
    /\ UNCHANGED running

\* on_call_timeout
CallTimeout ==
    /\ Alive(0) /\ ops[0].timeout /\ Iterated(0)
    /\ PerformClose(begun)
    /\ ops' = [DropPending(ops) EXCEPT ![0] =
                  Complete([@ EXCEPT !.timeout = FALSE, !.error = "progress"], response)]
    /\ running' = IF running = 0 THEN NoOp ELSE running

\* on_call_cancelled.  Sources that are ready are dispatched in the order in
\* which they were attached.
CallCancelled(o) ==
    /\ CancelReady(o) /\ ~(IdleReady(o) /\ ops[o].late)
    /\ PerformClose(begun)
    /\ ops' = [DropPending(ops) EXCEPT ![o].waiting = FALSE, ![o].error = "cancelled"]
    /\ UNCHANGED running

\* What complete_in_idle scheduled runs.
IdleCompletes(o) ==
    /\ IdleReady(o) /\ (CancelReady(o) => ops[o].late)
    /\ ops' = [ops EXCEPT ![o] = Complete([ops[o] EXCEPT !.idle = @ - 1], response)]
    /\ Return(o)
    /\ sent' = <<>>
    /\ UNCHANGED <<closed, begun, received, owner, response, pending>>

\* on_prompter_present
PrompterPresent ==
    /\ owner' = TRUE
    /\ sent' = <<>>
    /\ UNCHANGED <<closed, begun, received, context, response, pending, running, ops>>

\* on_prompter_vanished, called for the watch of operation o
PrompterVanished(o) ==
    /\ owner' = FALSE
    /\ ops' = IF owner THEN [ops EXCEPT ![o].cancelled = TRUE] ELSE ops
    /\ sent' = <<>>
    /\ UNCHANGED <<closed, begun, received, context, response, pending, running>>

-----------------------------------------------------------------------------
PromptInit ==
    /\ closed = FALSE
    /\ begun = FALSE
    /\ received = FALSE
    /\ owner = FALSE
    /\ context = "none"
    /\ response = "null"
    /\ pending = NoOp
    /\ running = NoOp
    /\ ops = [o \in Op |-> UnusedOp]
    /\ sent = <<>>
=============================================================================
