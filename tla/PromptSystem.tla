---------------------------- MODULE PromptSystem ----------------------------
(***************************************************************************)
(* The prompter service (SystemPrompter) and one of its callers in detail  *)
(* (SystemPrompt), connected by D-Bus.  The other callbacks of the service *)
(* belong to callers that do as they please.                               *)
(*                                                                         *)
(* D-Bus delivers what one connection sends to another in order, answers   *)
(* calls to an absent peer with an error, starts the prompter for          *)
(* BeginPrompting and tells who watches the prompter's name when it comes  *)
(* and goes.                                                               *)
(***************************************************************************)
EXTENDS SystemPrompter, SequencesExt, Lists

CONSTANTS
    me,         \* the callback of the caller
    MaxOp, Styles, MayCancel, HasTimeout,   \* of the caller: see SystemPrompt
    MaxStarts   \* how often the prompter process starts: a bound for TLC

ASSUME MeAssumption == me \in Callback
ASSUME MaxOpAssumption == MaxOp \in Nat
ASSUME StylesAssumption == Styles \subseteq {"sync", "async"}
ASSUME FlagsAssumption == MayCancel \in BOOLEAN /\ HasTimeout \in BOOLEAN

VARIABLES
    closed, begun, received, owner, context, response, pending, running, ops,
    sent,       \* the caller
    starts,     \* how often the prompter process was started
    up,         \* it runs and owns its name
    toPrompter, \* the messages from the caller to the prompter
    toClient,   \* the messages to the caller
    asked,      \* asked[p]: the operation that structure p serves
    answers     \* answers[o]: what the user answered to operation o, if anything

Client == INSTANCE SystemPrompt

clientVars == <<closed, begun, received, owner, context, response, pending,
                running, ops, sent>>
busVars == <<starts, up, toPrompter, toClient, asked, answers>>
systemVars == <<vars, clientVars, busVars>>

Op == Client!Op
Others == Callback \ {me}

ToPrompter(msg, op, prompt) == [msg |-> msg, op |-> op, prompt |-> prompt]
ToClient(msg, arg, op, prompt) ==
    [msg |-> msg, arg |-> arg, op |-> op, prompt |-> prompt]

-----------------------------------------------------------------------------
(* Steps of the service.                                                   *)

\* What the service sent to the caller in this step, in reply to a call of
\* operation o if it is a reply.  The reply to Stop changes nothing.
Tagged(m, o, p) ==
    IF m.msg = "Ready" THEN ToClient("Ready", m.arg, Client!NoOp, p)
                       ELSE ToClient(m.msg, m.arg, o, None)
FromService(o) ==
    LET wanted == Kept(out'[me], {m \in Message : m.arg # "Stop"})
    IN  [i \in 1 .. Len(wanted) |-> Tagged(wanted[i], o, active'[me])]

\* A structure that is allocated has not been used by a call still in transit.
FreshPrompts ==
    \A p \in Prompt : prompts[p].refs = 0 /\ prompts'[p].refs > 0 =>
        /\ \A i \in 1 .. Len(toPrompter) : toPrompter[i].prompt # p
        /\ \A i \in 1 .. Len(toClient) : toClient[i].prompt # p

ServiceStep(o) ==
    /\ toClient' = toClient \o FromService(o)
    /\ FreshPrompts
    /\ sent' = <<>>
    /\ UNCHANGED <<closed, begun, received, owner, context, response, pending,
                   running, ops, starts, up>>

\* A method call of the caller is dispatched.
ServiceCalled ==
    /\ up /\ toPrompter # <<>>
    /\ LET m == Head(toPrompter)
       IN  /\ m.msg \in {"Begin", "Perform", "Stop"}
           /\ \/ m.msg = "Begin" /\ BeginPrompting(me)
              \/ m.msg = "Perform" /\ PerformPrompt(me, "confirm", TRUE)
              \/ m.msg = "Stop" /\ StopMethod(me)
           /\ asked' = IF m.msg = "Perform" /\ active[me] # None
                          /\ prompts[active[me]].ready
                       THEN [asked EXCEPT ![active[me]] = m.op]
                       ELSE asked
           /\ ServiceStep(m.op)
    /\ toPrompter' = Tail(toPrompter)
    /\ UNCHANGED answers

\* The service is not exported any more, or the prompter is not there: the bus
\* answers with an error.  BeginPrompting may start the prompter first.
CallBounces ==
    /\ toPrompter # <<>>
    /\ ~registered
    /\ LET m == Head(toPrompter)
       IN  toClient' = IF m.msg \in {"Begin", "Perform"}
                       THEN Append(toClient, ToClient("Failed", m.msg, m.op, None))
                       ELSE toClient
    /\ toPrompter' = Tail(toPrompter)
    /\ UNCHANGED <<vars, clientVars, starts, up, asked, answers>>

\* The answer to a Ready call comes in; if the call was cancelled it may have
\* been handled already.
ReadyAnswered ==
    /\ registered /\ toPrompter # <<>>
    /\ LET m == Head(toPrompter)
       IN  /\ m.msg \in {"Answered", "NoObject"}
           /\ IF prompts[m.prompt].calls > 0
              THEN ReadyComplete(m.prompt, m.msg = "Answered") /\ ServiceStep(Client!NoOp)
              ELSE UNCHANGED <<vars, clientVars, starts, up, toClient>>
    /\ toPrompter' = Tail(toPrompter)
    /\ UNCHANGED <<asked, answers>>

InTransit(p) ==
    \/ \E i \in 1 .. Len(toPrompter) : toPrompter[i].prompt = p
    \/ \E i \in 1 .. Len(toClient) : toClient[i].prompt = p

\* A Ready call ends without an answer of the caller: it is cancelled, or times
\* out (the default timeout is longer than a message takes), or it is a call to
\* another caller.
ReadyEnds(p, ok) ==
    /\ \/ prompts[p].cancelled
       \/ prompts[p].callback # me
       \/ ~ok /\ ~InTransit(p)
    /\ ReadyComplete(p, ok)
    /\ ServiceStep(Client!NoOp)
    /\ UNCHANGED <<toPrompter, asked, answers>>

UserAnswersPrompt(p, answer) ==
    /\ UserAnswers(p, answer)
    /\ answers' = IF prompts[p].callback = me
                  THEN [answers EXCEPT ![asked[p]] = answer]
                  ELSE answers
    /\ ServiceStep(Client!NoOp)
    /\ UNCHANGED <<toPrompter, asked>>

UserClosesPrompt(p) ==
    /\ UserCloses(p)
    /\ ServiceStep(Client!NoOp)
    /\ UNCHANGED <<toPrompter, asked, answers>>

\* Another caller calls the service, or vanishes.
OtherCaller(d) ==
    /\ \/ BeginPrompting(d)
       \/ PerformPrompt(d, "confirm", TRUE)
       \/ StopMethod(d)
       \/ Owner[d] # Owner[me] /\ CallerVanished(Owner[d])
    /\ ServiceStep(Client!NoOp)
    /\ UNCHANGED <<toPrompter, asked, answers>>

\* The tool quits its main loop and unregisters, before it exits.
ServiceQuits ==
    /\ Unregister
    /\ ServiceStep(Client!NoOp)
    /\ UNCHANGED <<toPrompter, asked, answers>>

-----------------------------------------------------------------------------
(* The process of the service.                                             *)

\* What those who watch the name of the prompter are told, for each watch.
Told(watches, present) ==
    LET list == SetToSeq(watches)
    IN  [i \in 1 .. Len(list) |->
            ToClient("Name", IF present THEN "present" ELSE "absent", list[i], None)]
NameIs(present) == Told({o \in Op : Client!Alive(o) /\ ops[o].watch}, present)

ServiceStarts ==
    /\ ~up /\ starts < MaxStarts
    /\ Register
    /\ up' = TRUE
    /\ starts' = starts + 1
    /\ toClient' = toClient \o NameIs(TRUE)
    /\ UNCHANGED <<clientVars, toPrompter, asked, answers>>

\* The process ends, after unregistering or in a crash, and calls that it has
\* not answered fail.
ServiceExits ==
    /\ up
    /\ up' = FALSE
    /\ registered' = FALSE
    /\ callbacks' = {}
    /\ waiting' = EmptyQueue(Callback)
    /\ active' = [c \in Callback |-> None]
    /\ prompts' = [p \in Prompt |-> FreePrompt]
    /\ out' = Silence
    /\ LET lost == Kept(toPrompter, {m \in Range(toPrompter) : m.msg \in {"Begin", "Perform"}})
           errors == [i \in 1 .. Len(lost) |->
                         ToClient("Failed", lost[i].msg, lost[i].op, None)]
       IN  toClient' = toClient \o errors \o NameIs(FALSE)
    /\ toPrompter' = <<>>
    /\ UNCHANGED <<gone, clientVars, starts, asked, answers>>

-----------------------------------------------------------------------------
(* Steps of the caller.                                                    *)

Sending(prompt) ==
    toPrompter' = toPrompter \o
        [i \in 1 .. Len(sent') |-> ToPrompter(sent'[i].msg, sent'[i].op, prompt)]

\* A new watch is told at once whether the name has an owner.
Watching ==
    toClient' = toClient \o Told({o \in Op : ~ops[o].watch /\ ops'[o].watch}, up)

ClientStep ==
    /\ out' = Silence
    /\ UNCHANGED <<registered, callbacks, waiting, active, prompts, gone,
                   starts, up, asked, answers>>

\* The caller calls a function of the library.
ClientActs ==
    /\ \/ \E style \in Styles : Client!Open(style)
       \/ \E o \in Op, style \in Styles : Client!Perform(o, style)
       \/ \E o \in Op : Client!Cancel(o)
       \/ Client!Close
    /\ Sending(None)
    /\ Watching
    /\ ClientStep

\* Its main loop dispatches a source that no message of the prompter is behind.
ClientDispatches ==
    /\ \/ \E ok \in BOOLEAN : Client!BusConnected(ok)
       \/ Client!CallTimeout
       \/ ops[0].cancelled /\ Client!BeginReturns(FALSE)
       \/ \E o \in Op :
             \/ Client!CallCancelled(o)
             \/ Client!IdleCompletes(o)
             \/ ops[o].aborted /\ Client!PerformReturns(o, FALSE)
    /\ Sending(None)
    /\ Watching
    /\ ClientStep

\* The context in which a message is dispatched.
Lane(m) ==
    IF m.msg \in {"Ready", "Done"} THEN context
    ELSE IF ops[m.op].style = "async" THEN "main"
    ELSE IF running = m.op THEN "run" ELSE "dead"

\* Messages for different contexts overtake each other.
Deliverable(i) == \A j \in 1 .. i - 1 : Lane(toClient[j]) # Lane(toClient[i])

LaneRuns(lane) ==
    \/ lane = "main" /\ running = Client!NoOp
    \/ lane = "run" /\ running # Client!NoOp

\* A call of the prompter to the object, or the reply to one of its calls.
ClientReceives(i) ==
    LET m == toClient[i]
    IN  /\ Deliverable(i) /\ LaneRuns(Lane(m))
        /\ \/ m.msg = "Ready" /\ Client!ReadyCalled(m.arg)
           \/ m.msg = "Done" /\ Client!DoneCalled
           \/ /\ m.arg = "Begin" /\ ops[m.op].call = "Begin"
              /\ Client!BeginReturns(m.msg = "Return")
           \/ /\ m.arg = "Perform" /\ ops[m.op].call = "Perform"
              /\ Client!PerformReturns(m.op, m.msg = "Return")
           \/ /\ m.msg = "Name" /\ Client!Alive(m.op)
              /\ IF m.arg = "present" THEN Client!PrompterPresent
                                      ELSE Client!PrompterVanished(m.op)
        /\ toClient' = RemoveAt(toClient, i)
        /\ Sending(m.prompt)
        /\ ClientStep

\* A message that nobody is there for: a call to an object that is not exported
\* fails, one for a context that is not run any more gets no answer, and so
\* does a reply or a signal for an operation that does not wait for it.
ClientMisses(i) ==
    LET m == toClient[i]
        lane == Lane(m)
        late == \/ m.arg \in {"Begin", "Perform"} /\ ops[m.op].call # m.arg
                \/ m.msg = "Name" /\ ~Client!Alive(m.op)
    IN  /\ Deliverable(i)
        /\ lane \in {"none", "dead"} \/ late
        /\ toClient' = RemoveAt(toClient, i)
        /\ toPrompter' = IF lane = "none" /\ m.msg = "Ready"
                         THEN Append(toPrompter, ToPrompter("NoObject", Client!NoOp, m.prompt))
                         ELSE toPrompter
        /\ sent' = <<>>
        /\ ClientStep
        /\ UNCHANGED <<closed, begun, received, owner, context, response, pending,
                       running, ops>>

-----------------------------------------------------------------------------
SystemInit ==
    /\ Init
    /\ Client!PromptInit
    /\ starts = 0
    /\ up = FALSE
    /\ toPrompter = <<>>
    /\ toClient = <<>>
    /\ asked = [p \in Prompt |-> 0]
    /\ answers = [o \in Op |-> "none"]

SystemNext ==
    \/ ServiceCalled
    \/ CallBounces
    \/ ReadyAnswered
    \/ \E p \in Prompt :
          \/ \E ok \in BOOLEAN : ReadyEnds(p, ok)
          \/ \E answer \in {"yes", "no"} : UserAnswersPrompt(p, answer)
          \/ UserClosesPrompt(p)
    \/ \E d \in Others : OtherCaller(d)
    \/ ServiceQuits
    \/ ServiceStarts
    \/ ServiceExits
    \/ ClientActs
    \/ ClientDispatches
    \/ \E i \in 1 .. Len(toClient) : ClientReceives(i) \/ ClientMisses(i)

SystemSpec == SystemInit /\ [][SystemNext]_systemVars

\* The main loops of both processes run, the bus delivers, calls complete, and
\* the user answers a dialog in the end.
SystemFairness ==
    /\ WF_systemVars(ServiceCalled)
    /\ WF_systemVars(CallBounces)
    /\ WF_systemVars(ReadyAnswered)
    /\ \A p \in Prompt :
          /\ WF_systemVars(\E ok \in BOOLEAN : ReadyEnds(p, ok))
          /\ WF_systemVars(\E answer \in {"yes", "no"} : UserAnswersPrompt(p, answer))
    /\ WF_systemVars(ClientDispatches)
    /\ WF_systemVars(\E i \in 1 .. Len(toClient) : ClientReceives(i) \/ ClientMisses(i))

FairSystemSpec == SystemSpec /\ SystemFairness

-----------------------------------------------------------------------------
\* What an operation has heard.
Hears(o, answer) == \E i \in 1 .. Len(ops[o].results) : ops[o].results[i] = answer

\* The caller gave up an earlier question: the answer to that one may be on its way.
AbortedBefore(o) == \E p \in 1 .. o - 1 : ops[p].aborted
GivenUp(o) == ops[o].aborted \/ AbortedBefore(o)

\* As long as the caller gives up no question, it hears yes or no only if that was
\* the answer of the user to that very question; or if the question was dropped,
\* because the prompt was closed or the prompter was lost.  Then what an earlier
\* question has heard may be heard again, since last_response is what it was: see
\* AnswersAreToTheQuestion.
AnswersAreTheUsers ==
    \A o \in Op \ {0} : ~GivenUp(o) =>
        \A answer \in {"yes", "no"} : Hears(o, answer) =>
            \/ answer = answers[o]
            \/ ops[o].cancelled /\ \E p \in 1 .. o - 1 : Hears(p, answer)

\* GCR_PROMPT_REPLY_CONTINUE: "the user replied with 'ok'" (gcr/gcr-prompt.c).  The
\* code breaks this for a question that is dropped, which is told what an earlier
\* one was told.
AnswersAreToTheQuestion ==
    \A o \in Op \ {0} : ~GivenUp(o) /\ Hears(o, "yes") => answers[o] = "yes"

\* An operation that its caller still waits for is pending, or has a call in
\* flight, or is scheduled to complete: whatever is closed, lost or late, nobody is
\* forgotten.  After an aborted question somebody may be: when the reply to a later
\* call fails, on_perform_prompt_complete resets pending, whoever it is.
NobodyIsForgotten ==
    \A o \in Op : Client!Started(o) /\ ~Client!Finished(o) /\ ~AbortedBefore(o) =>
        pending = o \/ ops[o].call # "none" \/ ops[o].idle > 0

Quiet == toPrompter = <<>> /\ toClient = <<>>

\* When nothing is in transit the prompter keeps nothing for a caller that has closed
\* its prompt, unless the caller gave up before it heard anything, while the prompt was
\* being opened: no Stop is sent then, and its place in the queue remains until its
\* turn comes, and its structure until the Ready call to it has ended.
NoPromptForTheClosed ==
    Quiet /\ closed /\ me \in callbacks =>
        /\ ops[0].cancelled /\ ~received
        /\ active[me] # None => prompts[active[me]].calls > 0

\* Every operation comes to an end, whatever happens to the prompter.
OperationsFinish == \A o \in Op : Client!Started(o) ~> Client!Finished(o)
=============================================================================
