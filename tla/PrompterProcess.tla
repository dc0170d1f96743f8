--------------------------- MODULE PrompterProcess ---------------------------
(***************************************************************************)
(* The process of the system prompter, ui/gcr-prompter-tool.c: it owns the *)
(* prompter's two names on the session bus, runs the service of            *)
(* SystemPrompter in its main loop, and quits after it has been idle for   *)
(* QUIT_TIMEOUT seconds.                                                   *)
(***************************************************************************)
EXTENDS SystemPrompter

CONSTANTS
    Persist     \* GCR_PERSIST is set in the environment

ASSUME PersistAssumption == Persist \in BOOLEAN

Name == {"system", "private"}

VARIABLES
    timer,      \* "none": timeout_source is 0, "armed", or "spent": the source
                \* has fired and is gone but its number was kept
    loop,       \* what main does: "running" its loop, "quitting" it after
                \* gtk_main_quit, "left" the loop and "exited"
    acquired,   \* the names for which on_bus_acquired was called
    registeredPrompter  \* registered_prompter

processVars == <<vars, timer, loop, acquired, registeredPrompter>>

-----------------------------------------------------------------------------
\* A source that fired is forgotten only by stop_timeout.
StartTimeout == IF Persist \/ timer # "none" THEN timer ELSE "armed"
StopTimeout == "none"

\* It is stopped whatever changes.
NeverStarts == timer' = IF callbacks' = callbacks THEN timer ELSE StopTimeout
\* on_prompter_prompting.  The service notifies of its prompting property
\* whenever a callback begins or stops; the last of several counts.
Prompting ==
    timer' = IF callbacks' = callbacks THEN timer
             ELSE IF callbacks' # {} THEN StopTimeout
             ELSE StartTimeout

\* Sources are dispatched: by the loop, and in the rest of an iteration in
\* which gtk_main_quit was called.
Dispatching == loop \in {"running", "quitting"}

\* The service handles a call, a reply, a signal or the user.
ServiceRuns ==
    /\ Dispatching
    /\ \/ \E c \in Callback :
             \/ BeginPrompting(c)
             \/ \E type \in {"confirm", "password", "other"}, valid \in BOOLEAN :
                   PerformPrompt(c, type, valid)
             \/ StopMethod(c)
       \/ \E n \in Caller : CallerVanished(n)
       \/ \E p \in Prompt :
             \/ \E response \in {"yes", "no"} : UserAnswers(p, response)
             \/ UserCloses(p)
             \/ \E ok \in BOOLEAN : ReadyComplete(p, ok)
    /\ Prompting
    /\ UNCHANGED <<loop, acquired, registeredPrompter>>

\* on_bus_acquired, for each of the two names.
BusAcquired(name) ==
    /\ Dispatching /\ name \notin acquired
    /\ acquired' = acquired \union {name}
    /\ IF registeredPrompter THEN UNCHANGED vars ELSE Register
    /\ registeredPrompter' = TRUE
    /\ UNCHANGED <<timer, loop>>

\* on_name_lost when there is no connection, as the first news of a name.
BusUnavailable ==
    /\ Dispatching /\ acquired = {}
    /\ loop' = "quitting"
    /\ UNCHANGED <<vars, timer, acquired, registeredPrompter>>

\* on_timeout_quit
TimeoutQuit ==
    /\ Dispatching /\ timer = "armed"
    /\ timer' = "spent"
    /\ loop' = "quitting"
    /\ UNCHANGED <<vars, acquired, registeredPrompter>>

\* The service is left as it is.
LoopForgets ==
    /\ loop = "quitting"
    /\ loop' = "left"
    /\ UNCHANGED <<vars, timer, acquired, registeredPrompter>>
\* The end of main: the service is unregistered, and waits while it tells every
\* caller that its prompt is over.
LoopReturns ==
    /\ loop = "quitting"
    /\ loop' = "left"
    /\ IF registeredPrompter
       THEN Unregister /\ Prompting
       ELSE UNCHANGED <<vars, timer>>
    /\ UNCHANGED <<acquired, registeredPrompter>>

\* The names are given up and the process ends.
Exits ==
    /\ loop = "left"
    /\ loop' = "exited"
    /\ UNCHANGED <<vars, timer, acquired, registeredPrompter>>

-----------------------------------------------------------------------------
\* The timeout is started before the loop.
ProcessInit ==
    /\ Init
    /\ timer = IF Persist THEN "none" ELSE "armed"
    /\ loop = "running"
    /\ acquired = {}
    /\ registeredPrompter = FALSE

ProcessNext ==
    \/ ServiceRuns
    \/ \E name \in Name : BusAcquired(name)
    \/ BusUnavailable
    \/ TimeoutQuit
    \/ LoopReturns
    \/ Exits

ProcessSpec == ProcessInit /\ [][ProcessNext]_processVars

\* The main loop runs, so that a timeout fires, and returns once it is quit.
ProcessFairness ==
    /\ WF_processVars(TimeoutQuit)
    /\ WF_processVars(LoopReturns)
    /\ WF_processVars(Exits)

FairProcessSpec == ProcessSpec /\ ProcessFairness

-----------------------------------------------------------------------------

\* Whoever begins while the process is about to quit, in the iteration in which
\* the timeout fires, is told that it is over: no accepted caller is left
\* behind in a process that has left its loop.
NobodyLeftBehind ==
    loop \in {"left", "exited"} => callbacks = {} /\ ~registered

\* A process at which nobody prompts any more exits.
IdleProcessExits == <>[](callbacks = {}) => <>(loop = "exited")
=============================================================================
