---------------------------- MODULE PromptPhases ----------------------------
(***************************************************************************)
(* What holds between the prompter service and one of its callers          *)
(* (PromptSystem), for the proofs.                                         *)
(*                                                                         *)
(* Between the two there is one thing at a time that makes the next one    *)
(* happen: a call on its way, its reply, a structure that is ready, a      *)
(* question on the screen, an answer on its way.  Phased says which, as    *)
(* long as the caller has not closed the prompt or given up a question.    *)
(***************************************************************************)
EXTENDS PromptSystem

NoOp == Client!NoOp
Opened == Client!Opened
Started(o) == Client!Started(o)
Finished(o) == Client!Finished(o)

-----------------------------------------------------------------------------
(* Types.                                                                  *)

ClientMessage ==
    [msg : {"Ready", "Done", "Return", "Failed", "Name"},
     arg : {"none", "yes", "no", "Begin", "Perform", "present", "absent"},
     op : Op \union {NoOp}, prompt : Prompt \union {None}]

\* A reply is for an operation that was started.
ClientMessageOK(m) ==
    /\ m.msg = "Ready" => /\ m.arg \in {"none", "yes", "no"} /\ m.prompt \in Prompt
                          /\ m.arg # "none" => Finished(0)
    /\ m.msg = "Done" => m.arg = "none"
    /\ m.msg \in {"Return", "Failed"} =>
          \/ m.arg = "Begin" /\ m.op = 0
          \/ m.arg = "Perform" /\ m.op \in Op \ {0} /\ Started(m.op)
    /\ m.msg = "Name" => m.arg \in {"present", "absent"} /\ m.op \in Op

PrompterMessage ==
    [msg : {"Begin", "Perform", "Stop", "Answered", "NoObject"},
     op : Op \union {NoOp}, prompt : Prompt \union {None}]

PrompterMessageOK(m) ==
    /\ m.msg = "Begin" => m.op = 0
    /\ m.msg = "Perform" => m.op \in Op \ {0} /\ Started(m.op)
    /\ m.msg \in {"Answered", "NoObject"} => m.prompt \in Prompt

BusOK ==
    /\ toClient \in Seq(ClientMessage) /\ toPrompter \in Seq(PrompterMessage)
    /\ \A i \in 1 .. Len(toClient) : ClientMessageOK(toClient[i])
    /\ \A i \in 1 .. Len(toPrompter) : PrompterMessageOK(toPrompter[i])
    /\ asked \in [Prompt -> Op]
    /\ answers \in [Op -> {"none", "yes", "no"}]

ClientOK ==
    /\ closed \in BOOLEAN
    /\ context \in {"none", "main", "run", "dead"}
    /\ response \in {"null", "none", "yes", "no"}
    /\ pending \in Op \union {NoOp}
    /\ running \in Op \union {NoOp}
    /\ ops \in [Op -> Client!OpRecord]

-----------------------------------------------------------------------------
(* The operations.                                                         *)

Clean(o) == ~AbortedBefore(o)
Unaborted == \A o \in Op \ {0} : ~ops[o].aborted

\* The prompt is opened, or will be, and may be used.
Live == Unaborted /\ ~closed /\ (Opened \/ ~Finished(0))

\* An operation by itself.
OpSound(o) ==
    /\ ~Started(o) => ops[o] = Client!UnusedOp
    /\ ops[o].idle > 0 => closed
    /\ ops[o].aborted => ops[o].cancelled
    /\ o > 0 =>
          /\ ops[o].call \in {"none", "Perform"}
          /\ Started(o) => Opened /\ \A p \in 0 .. o - 1 : Started(p)
          /\ ops[o].idle > 0 /\ ~ops[o].cancelled => response = "none"

\* What is pending waits for an answer and for nothing else, and operations come
\* one after the other.
PendingSound ==
    /\ pending # NoOp => /\ Started(pending) /\ ~Finished(pending)
                         /\ ops[pending].idle = 0
    /\ pending > 0 => ~closed /\ \A o \in Op : o > pending => ~Started(o)

\* The call that opens the prompt comes before everything else.
OpeningSound ==
    ops[0].call # "none" =>
        /\ ops[0].call \in {"bus", "Begin"} /\ pending = NoOp
        /\ ops[0].idle = 0 /\ ~Finished(0) /\ ~ops[0].timeout

OpsSound == (\A o \in Op : OpSound(o)) /\ PendingSound /\ OpeningSound

\* Calls to the object are dispatched where the replies of the operation are
\* that waits for them, so that nothing overtakes.
Waits(o) == pending = o \/ (o = 0 /\ ops[0].call = "Begin")
Tuned ==
    \A o \in Op : Waits(o) /\ ~closed =>
        IF ops[o].style = "sync" THEN running = o /\ context = "run"
                                 ELSE running = NoOp /\ context = "main"

\* NobodyIsForgotten, for an operation that is not given up: it need not have a
\* call in flight, and no other call can reset pending.
Cared ==
    \A o \in Op : Started(o) /\ ~Finished(o) /\ Clean(o) =>
        pending = o \/ ops[o].idle > 0 \/ (o = 0 /\ ops[0].call # "none")
OneCall ==
    pending > 0 /\ Clean(pending) =>
        \A q \in Op \ {0} : q # pending => ops[q].call = "none"

CallerSound == ClientOK /\ OpsSound /\ Tuned /\ Cared /\ OneCall

-----------------------------------------------------------------------------
(* What is on its way to the caller.                                       *)

NoReady(l) == \A i \in 1 .. Len(l) : l[i].msg # "Ready"
OneReady(l) ==
    \A i, j \in 1 .. Len(l) : l[i].msg = "Ready" /\ l[j].msg = "Ready" => i = j
HasReady(l, p) == \E i \in 1 .. Len(l) : l[i].msg = "Ready" /\ l[i].prompt = p
ReadySays(l, answer) ==
    \A i \in 1 .. Len(l) : l[i].msg = "Ready" => l[i].arg = answer
OnlyNames(l) == \A i \in 1 .. Len(l) : l[i].msg = "Name"
NoReply(l, q) == \A i \in 1 .. Len(l) : ~(l[i].arg = "Perform" /\ l[i].op = q)
NotFailed(l, q) ==
    \A i \in 1 .. Len(l) : l[i].arg = "Perform" /\ l[i].op = q => l[i].msg = "Return"
\* The call of operation q has returned, before anything is Ready.
ReturnFirst(l, method, q) ==
    \E j \in 1 .. Len(l) :
        /\ l[j].msg = "Return" /\ l[j].arg = method /\ l[j].op = q
        /\ \A i \in 1 .. Len(l) : l[i].msg = "Ready" => j < i

-----------------------------------------------------------------------------
(* The phases.                                                             *)

\* The structure of the caller, if it has one.
ServerOf(st) == IF st.active[me] = None THEN FreePrompt ELSE st.prompts[st.active[me]]
Server == ServerOf(Tables)

\* BeginPrompting is not sent, ...
Unasked ==
    /\ ~Started(0) \/ ops[0].call = "bus"
    /\ toPrompter = <<>> /\ OnlyNames(toClient) /\ me \notin callbacks

\* ... it is on its way, ...
BeginSent ==
    /\ ops[0].call = "Begin"
    /\ toPrompter = <<ToPrompter("Begin", 0, None)>>
    /\ OnlyNames(toClient) /\ me \notin callbacks

\* ... and the caller waits for its turn.
Opening ==
    /\ ops[0].call = "Begin" \/ pending = 0
    /\ toPrompter = <<>> /\ OneReady(toClient)
    /\ me \in callbacks =>
          IF active[me] = None THEN NoReady(toClient)
          ELSE Server.calls > 0 /\ HasReady(toClient, active[me])
    /\ ops[0].call = "Begin" =>
          \/ me \notin callbacks /\ NoReady(toClient)
          \/ ReturnFirst(toClient, "Begin", 0)

\* The structure is ready, or will be when the answer to its call comes in, and
\* after that the messages of rest are on their way to the service.
ReadyFor(rest) ==
    /\ NoReady(toClient)
    /\ \/ toPrompter = rest
       \/ toPrompter # <<>> /\ Head(toPrompter).msg = "Answered" /\ Tail(toPrompter) = rest
    /\ me \in callbacks =>
          /\ active[me] # None
          /\ \/ Server.ready
             \/ /\ Server.calls > 0
                /\ toPrompter # <<>> /\ Head(toPrompter).msg = "Answered"
                /\ Head(toPrompter).prompt = active[me]

\* Nothing is asked, ...
Resting ==
    /\ Opened /\ pending = NoOp
    /\ \A q \in Op \ {0} : ops[q].call = "none"
    /\ ReadyFor(<<>>)

\* ... a question is on its way, ...
PerformSent ==
    /\ Opened /\ pending > 0 /\ ops[pending].call = "Perform"
    /\ NoReply(toClient, pending)
    /\ ReadyFor(<<ToPrompter("Perform", pending, None)>>)

\* ... it is on the screen, or its answer on its way, or there is nobody to answer.
OnScreen ==
    Server.ops > 0 /\ asked[active[me]] = pending /\ NoReady(toClient)
Awaiting ==
    /\ Opened /\ pending > 0 /\ toPrompter = <<>>
    /\ \/ me \notin callbacks /\ NoReady(toClient)
       \/ /\ NotFailed(toClient, pending) /\ OneReady(toClient)
          /\ ops[pending].call = "Perform" => ReturnFirst(toClient, "Perform", pending)
          /\ ReadySays(toClient, answers[pending])
          /\ me \in callbacks =>
                /\ active[me] # None
                /\ OnScreen \/ (Server.calls > 0 /\ HasReady(toClient, active[me]))

Phase == Unasked \/ BeginSent \/ Opening \/ Resting \/ PerformSent \/ Awaiting
Phased == Live => Phase

\* The question that is on its way or on the screen is the one that is pending.
Valid(o) == o > 0 /\ ~ops[o].cancelled /\ Clean(o)
AskedIsPending ==
    /\ Server.ops > 0 /\ Valid(asked[active[me]]) => pending = asked[active[me]]
    /\ \A i \in 1 .. Len(toPrompter) :
          toPrompter[i].msg = "Perform" /\ Valid(toPrompter[i].op) =>
              pending = toPrompter[i].op

\* The question of operation o is on its way to the user, or on the screen.
NotSent(o) ==
    \A i \in 1 .. Len(toPrompter) : ~(toPrompter[i].msg = "Perform" /\ toPrompter[i].op = o)
Asking(o) ==
    \/ Server.ops > 0 /\ asked[active[me]] = o
    \/ \E i \in 1 .. Len(toPrompter) : toPrompter[i].msg = "Perform" /\ toPrompter[i].op = o

\* A question is asked once, and is not answered as long as it is.
OneAsk(l) ==
    \A i, j \in 1 .. Len(l) :
        l[i].msg = "Perform" /\ l[j].msg = "Perform" /\ l[i].op = l[j].op => i = j
AskedOnce ==
    /\ Server.ops > 0 => LET q == asked[active[me]]
                         IN  q > 0 /\ Started(q) /\ NotSent(q)
    /\ OneAsk(toPrompter)
    /\ \A o \in Op : Asking(o) \/ ~Started(o) => answers[o] = "none"

\* What an operation hears that is not cancelled.
OwnAnswers ==
    \A o \in Op \ {0} : ~ops[o].cancelled /\ Clean(o) =>
        \A i \in 1 .. Len(ops[o].results) :
            ops[o].results[i] \in {"yes", "no"} => ops[o].results[i] = answers[o]

-----------------------------------------------------------------------------
(* What a dropped question hears: the answer to an earlier one, or nothing *)
(* but an error.                                                           *)

Words == {"null", "none", "yes", "no", "cancelled", "progress", "failed"}
Remembers(q, word) == \E p \in 1 .. q - 1 : Hears(p, word)

\* An operation that may still be told something.
Owed(q) == Started(q) /\ ~GivenUp(q) /\ (~Finished(q) \/ ops[q].idle > 0)

\* The last response was told to a question, before any that may still be told it.
ResponseHeard ==
    response \in {"yes", "no"} =>
        /\ \E p \in Op \ {0} : Hears(p, response)
        /\ \A q \in Op \ {0} : Owed(q) => Remembers(q, response)
\* What is pending has not failed.
PendingWell == pending > 0 => ops[pending].error = "none"

HeardInv == ResponseHeard /\ PendingWell /\ AnswersAreTheUsers
=============================================================================
