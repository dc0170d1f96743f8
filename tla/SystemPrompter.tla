--------------------------- MODULE SystemPrompter ---------------------------
(***************************************************************************)
(* The system prompter service of gcr/gcr-system-prompter.c: the object    *)
(* that queues the prompts of all callers, shows them with a prompt dialog *)
(* (ui/gcr-prompt-dialog.c) and reports the answers.                       *)
(*                                                                         *)
(* Each D-Bus method, each callback from the main loop and each action of  *)
(* the user on the dialog is one action.  The service is single threaded,  *)
(* so a handler runs to its end; what interleaves are the handlers and the *)
(* completions of the asynchronous calls they start.                       *)
(***************************************************************************)
EXTENDS Naturals, Sequences, WaitQueue

CONSTANTS
    Callback,   \* the <<object path, bus name>> pairs that may begin prompting
    Caller,     \* the unique bus names
    Owner,      \* Owner[c] is the bus name of callback c
    Prompt,     \* identities for ActivePrompt structures; the bound on how many
                \* are allocated at a time, in use or waiting for a completion
    Mode,       \* "single" or "multiple"
    None        \* the absence of a value

ASSUME OwnerAssumption == Owner \in [Callback -> Caller]
ASSUME ModeAssumption == Mode \in {"single", "multiple"}
ASSUME NoneAssumption == None \notin Prompt /\ None \notin Callback

VARIABLES
    registered, \* prompter_registered # 0, exactly when connection # NULL
    callbacks,  \* the keys of the callbacks table
    waiting,    \* the queue of callbacks that have no prompt yet: waiting[c] is
                \* c and everybody ahead of it (WaitQueue)
    active,     \* active[c] is the ActivePrompt of callback c, or None
    prompts,    \* the ActivePrompt structures
    gone,       \* bus names whose disappearance has been seen
    out         \* out[c]: what the last step sent to callback c, in order

vars == <<registered, callbacks, waiting, active, prompts, gone, out>>

-----------------------------------------------------------------------------
(* Messages of the service, in the order a caller receives them.           *)

Replies == [msg : {"Return", "Failed", "InvalidArgs"},
            arg : {"Begin", "Perform", "Stop"}]
Calls == [msg : {"Ready"}, arg : {"none", "yes", "no"}]
             \union [msg : {"Done"}, arg : {"none"}]
Message == Replies \union Calls

Reply(result, method) == [msg |-> result, arg |-> method]
Ready(response) == [msg |-> "Ready", arg |-> response]
Done == [msg |-> "Done", arg |-> "none"]

Silence == [c \in Callback |-> <<>>]

\* Whether the step from the current state sends message m to callback c.
Sends(c, m) == \E i \in 1 .. Len(out'[c]) : out'[c][i] = m

-----------------------------------------------------------------------------
(* ActivePrompt structures.  refs counts the references: the active table  *)
(* holds one, each Ready call in flight one, and each prompt operation the *)
(* dialog has not completed one.                                           *)

PromptRecord ==
    [callback : Callback \union {None},
     refs : Nat,
     ready : BOOLEAN,       \* the caller may perform a prompt
     received : BOOLEAN,    \* a secret exchange has come from the caller
     cancelled : BOOLEAN,   \* the cancellable of its calls is cancelled
     shown : BOOLEAN,       \* its dialog is on screen
     calls : Nat,           \* Ready calls whose completion has not been handled
     ops : Nat]             \* dialog operations not completed

FreePrompt ==
    [callback |-> None, refs |-> 0, ready |-> FALSE, received |-> FALSE,
     cancelled |-> FALSE, shown |-> FALSE, calls |-> 0, ops |-> 0]

NewPrompt(c) == [FreePrompt EXCEPT !.callback = c, !.refs = 1]

Unref(pr) == IF pr.refs = 1 THEN FreePrompt ELSE [pr EXCEPT !.refs = @ - 1]

\* prompt_send_ready: one more call in flight, which holds a reference.
SendReady(pr) == [pr EXCEPT !.refs = @ + 1, !.calls = @ + 1]

\* on_prompt_confirm and on_prompt_password: the dialog's operation is over and
\* its answer is sent.  The call takes the reference, the operation drops its.
OperationDone(pr) == [pr EXCEPT !.calls = @ + 1, !.ops = @ - 1]

Performing(pr) ==
    [pr EXCEPT !.refs = @ + 1, !.ops = @ + 1, !.ready = FALSE, !.shown = TRUE,
               !.received = TRUE]

\* on_prompt_ready_complete, before it drops its reference.
Completed(pr) == [pr EXCEPT !.ready = TRUE, !.calls = @ - 1]

\* g_cancellable_cancel, unless the caller is to make the next move.
Cancelled(pr) == IF pr.ready THEN pr ELSE [pr EXCEPT !.cancelled = TRUE]

\* The part of prompt_stop_prompting that concerns the ActivePrompt: cancel a
\* call in flight, drop the dialog, leave the active table.  Disposing the
\* dialog answers its operation, and as the cancellable is cancelled by then
\* that answer is not sent: only its completion is still to come.
Closed(pr) ==
    Unref(IF pr.ops = 0 THEN Cancelled(pr) ELSE OperationDone(Cancelled(pr)))

-----------------------------------------------------------------------------
(* The helpers of the service map a state of its tables to another.        *)

Tables == [callbacks |-> callbacks, waiting |-> waiting, active |-> active,
           prompts |-> prompts, out |-> Silence]

Become(st) ==
    /\ callbacks' = st.callbacks
    /\ waiting' = st.waiting
    /\ active' = st.active
    /\ prompts' = st.prompts
    /\ out' = st.out

Put(f, x, y) == [z \in DOMAIN f |-> IF z = x THEN y ELSE f[z]]

Post(st, c, m) == [st EXCEPT !.out = Put(@, c, Append(@[c], m))]

Update(st, p, pr) == [st EXCEPT !.prompts = Put(@, p, pr)]

Begun(st, S) == S \intersect st.callbacks

\* prompt_stop_prompting for each callback of S that has begun prompting; notice
\* is what its caller is sent: <<Done>> if send_done_message is set, else <<>>.
StopPrompting(st, S, notice) ==
    LET stopped == Begun(st, S)
        hit(p) == \E c \in stopped : st.active[c] = p
    IN  [callbacks |-> st.callbacks \ stopped,
         waiting |-> Without(st.waiting, stopped),
         active |-> [c \in Callback |->
                        IF c \in stopped THEN None ELSE st.active[c]],
         prompts |-> [p \in Prompt |->
                        IF hit(p) THEN Closed(st.prompts[p]) ELSE st.prompts[p]],
         out |-> [c \in Callback |->
                        IF c \in stopped THEN st.out[c] \o notice ELSE st.out[c]]]

\* The mode is not looked at.
NeverBusy(st) == FALSE
Busy(st) == Mode = "single" /\ \E c \in Callback : st.active[c] # None

Heads(st) == {c \in Callback : IsHead(st.waiting, c)}
Unused(st) == {p \in Prompt : st.prompts[p].refs = 0}

\* The head c of the queue becomes active with a new structure p.
Activated(st, c, p) ==
    [callbacks |-> st.callbacks,
     waiting |-> Without(st.waiting, {c}),
     active |-> Put(st.active, c, p),
     prompts |-> Put(st.prompts, p, SendReady(NewPrompt(c))),
     out |-> Put(st.out, c, Append(st.out[c], Ready("none")))]

\* prompt_next_ready: the states it may lead to, one for each structure the
\* allocator may return.  It takes at most one callback off the queue.
NextReady(st) ==
    IF Busy(st) \/ Heads(st) = {}
    THEN {st}
    ELSE {Activated(st, c, p) : c \in Heads(st), p \in Unused(st)}

-----------------------------------------------------------------------------
Init ==
    /\ registered = FALSE
    /\ callbacks = {}
    /\ waiting = EmptyQueue(Callback)
    /\ active = [c \in Callback |-> None]
    /\ prompts = [p \in Prompt |-> FreePrompt]
    /\ gone = {}
    /\ out = Silence

\* A method call of c can be dispatched.
CanCall(c) == registered /\ Owner[c] \notin gone

\* gcr_system_prompter_register
Register ==
    /\ ~registered
    /\ registered' = TRUE
    /\ out' = Silence
    /\ UNCHANGED <<callbacks, waiting, active, prompts, gone>>

\* gcr_system_prompter_unregister
Unregister ==
    /\ registered
    /\ Become(StopPrompting(Tables, callbacks, <<Done>>))
    /\ registered' = FALSE
    /\ UNCHANGED gone

Enqueued(st, c) ==
    [st EXCEPT !.callbacks = @ \union {c}, !.waiting = PushTail(@, c)]

\* prompter_method_begin_prompting
BeginPrompting(c) ==
    /\ CanCall(c)
    /\ IF c \in callbacks
       THEN Become(Post(Tables, c, Reply("Failed", "Begin")))
       ELSE LET begun == Post(Enqueued(Tables, c), c, Reply("Return", "Begin"))
            IN  \E st \in NextReady(begun) : Become(st)
    /\ UNCHANGED <<registered, gone>>

\* prompter_method_perform_prompt, with the two things its outcome depends on:
\* whether the secret exchange is well formed, and the type of prompt.
PerformPrompt(c, type, valid) ==
    /\ CanCall(c)
    /\ LET p == active[c]
           received == [prompts[p] EXCEPT !.received = TRUE]
       IN  IF p = None
           THEN Become(Post(Tables, c, Reply("Failed", "Perform")))
           ELSE IF ~prompts[p].ready
           THEN Become(Post(Tables, c, Reply("Failed", "Perform")))
           ELSE IF ~valid
           THEN Become(Post(Tables, c, Reply("InvalidArgs", "Perform")))
           ELSE IF type = "other"
           THEN Become(Post(Update(Tables, p, received),
                            c, Reply("InvalidArgs", "Perform")))
           ELSE Become(Post(Update(Tables, p, Performing(prompts[p])),
                            c, Reply("Return", "Perform")))
    /\ UNCHANGED <<registered, gone>>

\* prompter_method_stop_prompting
StopMethod(c) ==
    /\ CanCall(c)
    /\ LET stopped == Post(StopPrompting(Tables, {c}, <<Done>>), c, Reply("Return", "Stop"))
       IN  \E st \in NextReady(stopped) : Become(st)
    /\ UNCHANGED <<registered, gone>>

CallbacksOf(n) == {c \in callbacks : Owner[c] = n}

\* on_caller_vanished
CallerVanished(n) ==
    /\ n \notin gone
    /\ gone' = gone \union {n}
    /\ Become(StopPrompting(Tables, CallbacksOf(n), <<>>))
    /\ UNCHANGED registered

\* The user answers the dialog: on_prompt_confirm or on_prompt_password.
UserAnswers(p, response) ==
    /\ prompts[p].ops > 0
    /\ Become(Post(Update(Tables, p, OperationDone(prompts[p])),
                   prompts[p].callback, Ready(response)))
    /\ UNCHANGED <<registered, gone>>

\* The caller is not told.
UserClosesSilently(p) ==
    /\ prompts[p].shown /\ prompts[p].ops = 0
    /\ active[prompts[p].callback] = p
    /\ Become(StopPrompting(Tables, {prompts[p].callback}, <<>>))
    /\ UNCHANGED <<registered, gone>>

\* The user dismisses a dialog that is between two prompts: on_prompt_close.
UserCloses(p) ==
    /\ prompts[p].shown /\ prompts[p].ops = 0
    /\ active[prompts[p].callback] = p
    /\ Become(StopPrompting(Tables, {prompts[p].callback}, <<Done>>))
    /\ UNCHANGED <<registered, gone>>

\* on_prompt_ready_complete.  A call whose cancellable is cancelled completes
\* as cancelled whatever came back.
ReadyComplete(p, ok) ==
    /\ prompts[p].calls > 0
    /\ LET c == prompts[p].callback
           completed == Update(Tables, p, Completed(prompts[p]))
           after == IF prompts[p].cancelled \/ ok
                    THEN {completed}
                    ELSE NextReady(StopPrompting(completed, {c}, <<>>))
       IN  \E st \in after : Become(Update(st, p, Unref(st.prompts[p])))
    /\ UNCHANGED <<registered, gone>>

-----------------------------------------------------------------------------
Next ==
    \/ Register
    \/ Unregister
    \/ \E c \in Callback :
          \/ BeginPrompting(c)
          \/ \E type \in {"confirm", "password", "other"}, valid \in BOOLEAN :
                PerformPrompt(c, type, valid)
          \/ StopMethod(c)
    \/ \E n \in Caller : CallerVanished(n)
    \/ \E p \in Prompt :
          \/ \E response \in {"yes", "no"} : UserAnswers(p, response)
          \/ UserCloses(p)
          \/ \E ok \in BOOLEAN : ReadyComplete(p, ok)

\* A D-Bus call always completes: with the reply, with an error (after the
\* default timeout at the latest) or as cancelled.
Fairness == \A p \in Prompt : WF_vars(\E ok \in BOOLEAN : ReadyComplete(p, ok))

Spec == Init /\ [][Next]_vars
FairSpec == Spec /\ Fairness

-----------------------------------------------------------------------------
(* Safety.                                                                 *)

\* The types of the variables of the service.
TypeOK ==
    /\ registered \in BOOLEAN
    /\ callbacks \in SUBSET Callback
    /\ waiting \in [Callback -> SUBSET Callback]
    /\ active \in [Callback -> Prompt \union {None}]
    /\ prompts \in [Prompt -> PromptRecord]
    /\ gone \in SUBSET Caller
    /\ out \in [Callback -> Seq(Message)]

Queued == QueuedIn(waiting)
Active == {c \in Callback : active[c] # None}
InTable(p) == \E c \in Callback : active[c] = p
Allocated(p) == prompts[p].refs > 0

\* The queue stays in order whoever leaves it, and from whichever place.
QueueIsLine == IsLine(waiting)

\* A callback that has begun prompting is either in the queue or has an
\* ActivePrompt, and nothing else is in either: whichever way a prompt ends
\* (Stop, a vanished caller, a failed Ready call, the user, unregistering)
\* prompt_stop_prompting removes it from all three tables.
EachBegunIsQueuedOrActive ==
    /\ callbacks = Queued \union Active
    /\ Queued \intersect Active = {}

\* GCR_SYSTEM_PROMPTER_SINGLE: only one prompt is on the screen at a time, and
\* with GCR_SYSTEM_PROMPTER_MULTIPLE nobody waits in the queue.
ModeRespected ==
    IF Mode = "single"
    THEN \A c, d \in Active : c = d
    ELSE Queued = {}

\* The table maps a callback to an allocated structure that is its own.
TableSound ==
    \A c \in Callback : active[c] # None =>
        /\ Allocated(active[c])
        /\ prompts[active[c]].callback = c

\* The assertions on active->ready at the head of on_prompt_ready_complete,
\* prompt_send_ready, on_prompt_password and on_prompt_confirm: a prompt that
\* is not ready waits for exactly one completion, and a ready one for none.
OnePendingCompletion ==
    \A p \in Prompt : Allocated(p) =>
        prompts[p].calls + prompts[p].ops = (IF prompts[p].ready THEN 0 ELSE 1)

\* Every holder of an ActivePrompt is counted, so that no completion finds it
\* freed and none is left allocated when the last one has run.
RefsCountHolders ==
    \A p \in Prompt :
        prompts[p].refs = prompts[p].calls + prompts[p].ops
                              + (IF InTable(p) THEN 1 ELSE 0)

\* An ActivePrompt that left the table while a completion was pending has been
\* cancelled and one in the table has not.  Its completion is then ignored:
\* it cannot stop a later prompt that was begun with the same callback.
LeftoversAreCancelled ==
    \A p \in Prompt : Allocated(p) =>
        /\ prompts[p].cancelled <=> ~InTable(p)
        /\ prompts[p].cancelled => prompts[p].ops = 0

\* Answers are sent with the secret exchange of the caller: prompt_send_ready
\* requires that there is no secret while nothing has been received.
SecretsAfterExchange ==
    \A p \in Prompt : prompts[p].ops > 0 => prompts[p].received

\* The assertions of gcr_system_prompter_unregister, and what
\* on_caller_vanished is for: no work is kept for somebody who is not there.
NothingForTheDeparted ==
    /\ ~registered => callbacks = {}
    /\ \A c \in callbacks : Owner[c] \notin gone

\* "If another prompt is shown then this method will block ... until the prompt can
\* be opened" (gcr_system_prompt_open_async): a caller is in the queue only while another
\* prompt is active.  The code breaks this: neither on_caller_vanished nor
\* on_prompt_close calls prompt_next_ready.
WaitOnlyBehindActive == Queued # {} => Active # {}

-----------------------------------------------------------------------------
(* The service implements the abstract queue.                              *)

Queue == INSTANCE PromptQueue WITH line <- waiting, showing <- Active

\* Whatever the handlers do with their three tables, callers see one line that
\* is served in order and one screen that is shared as the mode says.
ImplementsQueue == Queue!Spec

-----------------------------------------------------------------------------
(* Action properties.                                                      *)

\* Prompting ends with one Done, and in silence only for a caller that cannot hear of
\* it: its name has vanished, or the Ready call to it has just failed.  Nobody else is
\* told: a Stop that comes again, or a completion that comes late, is not an end.
EndsWithDone ==
    [][/\ \A c \in callbacks \ callbacks' :
             \/ Sends(c, Done)
             \/ Owner[c] \in gone'
             \/ /\ active[c] # None
                /\ prompts[active[c]].calls > 0
                /\ \A d \in callbacks : d # c => d \in callbacks'
       /\ \A c \in Callback : \A i \in 1 .. Len(out'[c]) :
             out'[c][i] = Done =>
                 /\ c \in callbacks \ callbacks'
                 /\ \A j \in 1 .. Len(out'[c]) : out'[c][j] = Done => j = i]_vars

-----------------------------------------------------------------------------
(* Liveness.                                                               *)
=============================================================================
