------------------------------- MODULE GckCall -------------------------------
(***************************************************************************)
(* The calls of gck/gck-call.c.  A call runs a function that talks to a    *)
(* PKCS#11 module: in the thread of its caller, or in one of the threads   *)
(* of a pool, after which it waits in the queue of completed calls until   *)
(* the main loop, or whoever starts the next call, reports it.             *)
(*                                                                         *)
(* What the functions do is the business of the modules that extend this   *)
(* one; they may interleave at every step.  No caller in the tree passes a *)
(* function that asks for its call to be run again, so that is left out.   *)
(***************************************************************************)
EXTENDS Naturals, Sequences, FiniteSets

CONSTANTS
    Call,       \* identities of calls; each is made at most once
    PoolSize,   \* the number of threads in the pool
    Rv          \* what a function returns

ASSUME PoolAssumption == PoolSize \in Nat \ {0}
ASSUME RvAssumption == {"OK", "CANCELED"} \subseteq Rv

VARIABLES
    phase,      \* how far each call has come
    sync,       \* the calls that run in the thread of their caller
    cancelled,  \* the calls whose cancellable is cancelled
    rv,         \* what the function of a call returned, or was said to
    pool,       \* calls that wait for a thread
    completed   \* completed_queue

callVars == <<phase, sync, cancelled, rv, pool, completed>>

Phase == {"new", "pooled", "running", "completed", "done"}

CallTypeOK ==
    /\ phase \in [Call -> Phase]
    /\ sync \subseteq Call
    /\ cancelled \subseteq Call
    /\ rv \in [Call -> Rv]
    /\ pool \in Seq(Call)
    /\ completed \in Seq(Call)

CallInit ==
    /\ phase = [c \in Call |-> "new"]
    /\ sync = {}
    /\ cancelled = {}
    /\ rv = [c \in Call |-> "OK"]
    /\ pool = <<>>
    /\ completed = <<>>

-----------------------------------------------------------------------------
\* A call that holds its arguments and the object it was made on.
Pending(c) == phase[c] \in {"pooled", "running", "completed"}

Threads == {c \in Call : phase[c] = "running" /\ c \notin sync}

\* process_result: a call that was cancelled, even after its function had run,
\* is reported as cancelled.
Result(c) == IF c \in cancelled THEN "CANCELED" ELSE rv[c]

\* The call that process_completed reports.
Popped == IF completed = <<>> THEN {} ELSE {Head(completed)}

Reported(f, value) == [c \in Call |-> IF c \in Popped THEN value[c] ELSE f[c]]

\* process_completed, before phases and results change as f and r say.
ProcessCompleted(f) ==
    /\ phase' = Reported(f, [c \in Call |-> "done"])
    /\ rv' = Reported(rv, [c \in Call |-> Result(c)])
    /\ completed' = IF completed = <<>> THEN <<>> ELSE Tail(completed)

-----------------------------------------------------------------------------
\* _gck_call_async_go, which reports one completed call first.
Go(c) ==
    /\ phase[c] = "new"
    /\ ProcessCompleted([phase EXCEPT ![c] = "pooled"])
    /\ pool' = Append(pool, c)
    /\ UNCHANGED <<sync, cancelled>>

\* _gck_call_sync: the cancellable is looked at once, by perform_call.
GoSync(c) ==
    /\ phase[c] = "new"
    /\ sync' = sync \union {c}
    /\ IF c \in cancelled
       THEN /\ phase' = [phase EXCEPT ![c] = "done"]
            /\ rv' = [rv EXCEPT ![c] = "CANCELED"]
       ELSE /\ phase' = [phase EXCEPT ![c] = "running"]
            /\ UNCHANGED rv
    /\ UNCHANGED <<cancelled, pool, completed>>

\* A cancelled call is dropped by the thread that was to run it.
PoolRunsOrDrops(c) ==
    /\ pool # <<>> /\ c = Head(pool)
    /\ Cardinality(Threads) < PoolSize
    /\ pool' = Tail(pool)
    /\ phase' = [phase EXCEPT ![c] = IF c \in cancelled THEN "pooled" ELSE "running"]
    /\ UNCHANGED <<rv, sync, cancelled, completed>>
\* process_async_call up to the function of the call.
PoolRuns(c) ==
    /\ pool # <<>> /\ c = Head(pool)
    /\ Cardinality(Threads) < PoolSize
    /\ pool' = Tail(pool)
    /\ IF c \in cancelled
       THEN /\ phase' = [phase EXCEPT ![c] = "completed"]
            /\ rv' = [rv EXCEPT ![c] = "CANCELED"]
            /\ completed' = Append(completed, c)
       ELSE /\ phase' = [phase EXCEPT ![c] = "running"]
            /\ UNCHANGED <<rv, completed>>
    /\ UNCHANGED <<sync, cancelled>>

\* The function of c returns r: to its caller, or in the thread of the pool
\* (process_async_call).
Returns(c, r) ==
    /\ phase[c] = "running"
    /\ rv' = [rv EXCEPT ![c] = r]
    /\ IF c \in sync
       THEN /\ phase' = [phase EXCEPT ![c] = "done"]
            /\ UNCHANGED completed
       ELSE /\ phase' = [phase EXCEPT ![c] = "completed"]
            /\ completed' = Append(completed, c)
    /\ UNCHANGED <<sync, cancelled, pool>>

\* completed_dispatch
Dispatch ==
    /\ completed # <<>>
    /\ ProcessCompleted(phase)
    /\ UNCHANGED <<sync, cancelled, pool>>

\* The program cancels the cancellable that it passes to c.
Cancel(c) ==
    /\ phase[c] # "done" /\ c \notin cancelled
    /\ cancelled' = cancelled \union {c}
    /\ UNCHANGED <<phase, sync, rv, pool, completed>>
=============================================================================
