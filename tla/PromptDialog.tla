---------------------------- MODULE PromptDialog ----------------------------
(***************************************************************************)
(* The dialog of ui/gcr-prompt-dialog.c: the GcrPrompt that the prompter   *)
(* service shows.  Its caller asks one question after another (a password, *)
(* or a confirmation), the user types and presses buttons, the window      *)
(* system maps, unmaps and changes the window, and the dialog holds a grab *)
(* of the keyboard while it is on screen.                                  *)
(*                                                                         *)
(* The callback of a question runs inside the handler that completes it,   *)
(* so that the next question may be asked before that handler returns.     *)
(***************************************************************************)
EXTENDS Integers, Sequences

CONSTANTS
    MaxOp,          \* how many questions the caller asks: a bound for TLC
    MaxEvents,      \* how many window events are left undispatched: a bound for TLC
    Text,           \* what the user may type
    Blank,          \* the empty text
    Paranoid,       \* GNOME_KEYRING_PARANOID is set
    ClosesAlone,    \* the caller closes the dialog without disposing of it
    AsksAfterClose, \* it asks with a dialog that was closed
    AsksInCallback  \* it asks the next question in the callback of the last

UsageAssumption ==
    /\ MaxOp \in Nat /\ MaxEvents \in Nat /\ Blank \in Text
    /\ {Paranoid, ClosesAlone, AsksAfterClose, AsksInCallback} \subseteq BOOLEAN

Op == 1 .. MaxOp
NoOp == 0

VARIABLES
    self,       \* the private data of the dialog, and its visible property
    asked,      \* the last question asked, NoOp if none was
    results,    \* results[o]: what the callback of question o was told, in order
    idle,       \* what complete_in_idle is to complete: questions and their kinds
    disposed,   \* the widget was destroyed
    aborted,    \* an assertion failed and the process is gone
    mapped,     \* the window is on screen
    special,    \* it is iconified, maximised or full screen
    events      \* the events of the window that are not dispatched yet

vars == <<self, asked, results, idle, disposed, aborted, mapped, special, events>>

\* What an entry holds, and during which question it was typed.
Entry == [text : Text, during : Op \union {NoOp}]
Cleared == [text |-> Blank, during |-> NoOp]

Dialog ==
    [mode : {"none", "confirming", "passwording"},
     asyncResult : Op \union {NoOp},
     lastReply : {"cancel", "continue"},
     password : Entry,
     confirm : Entry,
     passwordNew : BOOLEAN,
     warning : {"none", "mismatch", "blank"},
     wasClosed : BOOLEAN,
     visible : BOOLEAN,
     grabbed : BOOLEAN,
     grabDisabled : BOOLEAN]

Answer ==
    [reply : {"cancel", "continue"}, kind : {"confirming", "passwording"},
     entry : Entry, confirmed : BOOLEAN]

-----------------------------------------------------------------------------
(* The functions of the dialog map a state of it to another.               *)

State == [self |-> self, asked |-> asked, results |-> results, idle |-> idle]

Become(st) ==
    /\ self' = st.self
    /\ asked' = st.asked
    /\ results' = st.results
    /\ idle' = st.idle

\* The entries keep what was typed for the question before.
AskKeepingText(pv, o, kind) ==
    [pv EXCEPT !.mode = kind, !.asyncResult = o]
\* What password_async and confirm_async do first: only a password clears the
\* entries.
AskWith(pv, o, kind) ==
    LET asking == [pv EXCEPT !.mode = kind, !.asyncResult = o]
    IN  IF kind = "passwording"
        THEN [asking EXCEPT !.password = Cleared, !.confirm = Cleared]
        ELSE asking

\* gcr_prompt_dialog_password_async and _confirm_async.  A dialog that has a
\* result already warns and forgets the new question.
Asked(st, kind) ==
    LET o == st.asked + 1
        next == [st EXCEPT !.asked = o]
        pv == AskWith(st.self, o, kind)
    IN  IF st.self.asyncResult # NoOp
        THEN next
        ELSE IF st.self.wasClosed
        THEN [next EXCEPT !.self = [pv EXCEPT !.lastReply = "cancel"],
                          !.idle = Append(@, <<o, kind>>)]
        ELSE [next EXCEPT !.self = [pv EXCEPT !.visible = TRUE]]

\* The callback of question o is told what the finish functions return.
Told(st, o, kind) ==
    LET pv == st.self
        told == [reply |-> pv.lastReply, kind |-> kind, entry |-> pv.password,
                 confirmed |-> pv.passwordNew => pv.password.text = pv.confirm.text]
    IN  [st EXCEPT !.results[o] = Append(@, told)]

\* What may become of the dialog when the callback of question o runs.
CalledBack(st, o, kind) ==
    LET told == Told(st, o, kind)
    IN  {told} \union
        (IF AsksInCallback /\ st.asked < MaxOp /\ (AsksAfterClose \/ ~st.self.wasClosed)
         THEN {Asked(told, next) : next \in {"confirming", "passwording"}}
         ELSE {})

Refusal(pv) ==
    IF ~pv.passwordNew THEN "none"
    ELSE IF pv.password.text # pv.confirm.text THEN "mismatch"
    ELSE IF Paranoid THEN "blank"
    ELSE "none"

\* gcr_prompt_dialog_close
Closed(st) == [st EXCEPT !.self.wasClosed = TRUE, !.self.visible = FALSE]

\* The question is over before its callback runs.
Responded(st, reply) ==
    CalledBack([st EXCEPT !.self = [@ EXCEPT !.lastReply = reply, !.mode = "none",
                                             !.asyncResult = NoOp]],
               st.self.asyncResult, st.self.mode)

\* gcr_prompt_dialog_response: the states it may lead to.
Response(st, button) ==
    LET refusal == Refusal(st.self)
    IN  IF st.self.mode = "none"
        THEN {Closed(st)}
        ELSE IF button = "ok" /\ st.self.mode = "passwording" /\ refusal # "none"
        THEN {[st EXCEPT !.self.warning = refusal]}
        ELSE Responded(st, IF button = "ok" THEN "continue" ELSE "cancel")

\* ungrab_keyboard
Ungrabbed(pv) == [pv EXCEPT !.grabbed = FALSE]

\* grab_keyboard: only a window on screen can have the grab, and it may fail.
Grabbed(pv) ==
    {pv} \union (IF mapped THEN {[pv EXCEPT !.grabbed = TRUE]} ELSE {})

\* What the window system makes of a change of the visible property.
Window ==
    /\ mapped' = self'.visible
    /\ events' = IF disposed' THEN <<>>
                 ELSE IF self'.visible = self.visible THEN events
                 ELSE IF self'.visible THEN events \o <<"state", "map">>
                 ELSE events \o <<"state", "unmap">>
    /\ UNCHANGED special

\* gcr_prompt_dialog_dispose leaves the open question to its caller.
DisposeSilently(st) ==
    /\ Become([Closed(st) EXCEPT !.self = Ungrabbed(@)])
    /\ aborted' = FALSE
    /\ disposed' = TRUE
    /\ Window
\* gcr_prompt_dialog_dispose, with its assertion that no result is left.
Dispose(st) ==
    /\ \E answered \in Response(st, "delete") :
          /\ Become([Closed(answered) EXCEPT !.self = Ungrabbed(@)])
          /\ aborted' = (answered.self.asyncResult # NoOp)
    /\ disposed' = TRUE
    /\ Window

-----------------------------------------------------------------------------
Running == ~aborted /\ ~disposed
Answered(o) == results[o] # <<>>
Waiting(o) == o <= asked /\ ~Answered(o)

\* The caller asks the next question, once the last is answered.
Ask(kind) ==
    /\ ~aborted /\ asked < MaxOp /\ \A o \in Op : ~Waiting(o)
    /\ ~self.wasClosed \/ AsksAfterClose
    /\ Become(Asked(State, kind))
    /\ UNCHANGED <<disposed, aborted>>
    /\ Window

\* It sets the password-new property.
SetPasswordNew(new) ==
    /\ Running
    /\ self' = [self EXCEPT !.passwordNew = new]
    /\ UNCHANGED <<asked, results, idle, disposed, aborted, mapped, special, events>>

\* gcr_prompt_close
Close ==
    /\ ~aborted /\ ClosesAlone
    /\ Become(Closed(State))
    /\ UNCHANGED <<disposed, aborted>>
    /\ Window

\* It closes the dialog and disposes of it, as prompt_stop_prompting does, or
\* destroys the widget.
Release(closesFirst) ==
    /\ Running
    /\ Dispose(IF closesFirst THEN Closed(State) ELSE State)

\* The source of complete_in_idle.
IdleCompletes ==
    /\ ~aborted /\ idle # <<>>
    /\ \E st \in CalledBack([State EXCEPT !.idle = Tail(@)], Head(idle)[1], Head(idle)[2]) :
          Become(st)
    /\ UNCHANGED <<disposed, aborted>>
    /\ Window

\* The user types into the entries.
UserTypes(text, again) ==
    /\ Running /\ self.visible /\ self.mode = "passwording"
    /\ self' = [self EXCEPT !.password = [text |-> text, during |-> self.asyncResult],
                            !.confirm = IF self.passwordNew
                                        THEN [text |-> again, during |-> self.asyncResult]
                                        ELSE @]
    /\ UNCHANGED <<asked, results, idle, disposed, aborted, mapped, special, events>>

\* The user presses a button.  While no question is asked the continue button
\* is insensitive.
UserResponds(button) ==
    /\ Running /\ self.visible
    /\ button = "ok" => self.mode # "none"
    /\ \E st \in Response(State, button) : Become(st)
    /\ UNCHANGED <<disposed, aborted>>
    /\ Window

\* The user closes the window or presses Escape: GTK responds for the user and
\* destroys the dialog.
UserDeletes ==
    /\ Running /\ self.visible
    /\ \E st \in Response(State, "delete") : Dispose(st)

\* The window system iconifies, maximises or restores the window.
WindowChanges ==
    /\ Running /\ mapped /\ Len(events) < MaxEvents
    /\ special' = ~special
    /\ events' = Append(events, "state")
    /\ UNCHANGED <<self, asked, results, idle, disposed, aborted, mapped>>

\* window_state_changed reads the state the window has by now.
StateChanged(pv) ==
    IF special \/ ~mapped
    THEN {Ungrabbed([pv EXCEPT !.grabDisabled = TRUE])}
    ELSE IF pv.grabDisabled
    THEN Grabbed([pv EXCEPT !.grabDisabled = FALSE])
    ELSE {pv}

\* The handlers of the window's events: grab_keyboard, ungrab_keyboard and
\* window_state_changed.
Handled(pv, event) ==
    IF event = "map" THEN Grabbed(pv)
    ELSE IF event = "unmap" THEN {Ungrabbed(pv)}
    ELSE StateChanged(pv)

WindowEvent ==
    /\ Running /\ events # <<>>
    /\ \E pv \in Handled(self, Head(events)) : self' = pv
    /\ events' = Tail(events)
    /\ UNCHANGED <<asked, results, idle, disposed, aborted, mapped, special>>

\* on_grab_broken: another client takes the keyboard.
GrabBroken ==
    /\ Running /\ self.grabbed
    /\ self' = Ungrabbed(self)
    /\ UNCHANGED <<asked, results, idle, disposed, aborted, mapped, special, events>>

-----------------------------------------------------------------------------
Init ==
    /\ self = [mode |-> "none", asyncResult |-> NoOp, lastReply |-> "cancel",
               password |-> Cleared, confirm |-> Cleared, passwordNew |-> FALSE,
               warning |-> "none", wasClosed |-> FALSE, visible |-> FALSE,
               grabbed |-> FALSE, grabDisabled |-> FALSE]
    /\ asked = NoOp
    /\ results = [o \in Op |-> <<>>]
    /\ idle = <<>>
    /\ disposed = FALSE
    /\ aborted = FALSE
    /\ mapped = FALSE
    /\ special = FALSE
    /\ events = <<>>

Next ==
    \/ \E kind \in {"confirming", "passwording"} : Ask(kind)
    \/ \E new \in BOOLEAN : SetPasswordNew(new)
    \/ Close
    \/ \E closesFirst \in BOOLEAN : Release(closesFirst)
    \/ IdleCompletes
    \/ \E text, again \in Text : UserTypes(text, again)
    \/ \E button \in {"ok", "cancel"} : UserResponds(button)
    \/ UserDeletes
    \/ WindowChanges
    \/ WindowEvent
    \/ GrabBroken

Spec == Init /\ [][Next]_vars

\* The main loop runs, and a user who sees a dialog gets rid of it in the end.
Fairness ==
    /\ WF_vars(IdleCompletes)
    /\ WF_vars(WindowEvent)
    /\ WF_vars(UserResponds("cancel"))

FairSpec == Spec /\ Fairness

-----------------------------------------------------------------------------
\* The types of the variables of the dialog.
TypeOK ==
    /\ self \in Dialog
    /\ asked \in Op \union {NoOp}
    /\ results \in [Op -> Seq(Answer)]
    /\ idle \in Seq(Op \X {"confirming", "passwording"})
    /\ {disposed, aborted, mapped, special} \subseteq BOOLEAN
    /\ events \in Seq({"state", "map", "unmap"})

\* A password given as the answer to a question was typed for that question and
\* not for an earlier one, and a new password was typed twice.
PasswordsAreTyped ==
    \A o \in Op : \A i \in 1 .. Len(results[o]) :
        LET told == results[o][i]
        IN  told.kind = "passwording" /\ told.reply = "continue"
                => told.entry.during \in {o, NoOp} /\ told.confirmed

\* Every question that is asked is answered, though nobody but the disposal
\* answers one that is open when its caller closes the dialog: while the dialog
\* is kept, the caller of gcr_prompt_close waits.  (The program is aborted when a
\* question is asked in the callback that the disposal itself causes.)
QuestionsEnd ==
    \A o \in Op : Waiting(o) ~> Answered(o) \/ (self.wasClosed /\ ~disposed) \/ aborted
=============================================================================
