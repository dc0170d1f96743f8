----------------------------- MODULE GckSession -----------------------------
(***************************************************************************)
(* The sessions of gck/gck-session.c on one token: opening with or without *)
(* a login, logging in and out, finding objects, operations with a key     *)
(* that may have to be authenticated first, and the end of a session       *)
(* object, which closes its handle.                                        *)
(*                                                                         *)
(* Each PKCS#11 function is one step.  Calls run in several threads, so    *)
(* steps of several calls interleave, on the same session too.  The token  *)
(* is external; it behaves as PKCS#11 says: login is a state of the token, *)
(* lost when its last session is closed, a session has one search and one  *)
(* key operation at a time, and a PIN is locked when it was wrong too      *)
(* often.                                                                  *)
(***************************************************************************)
EXTENDS GckCall

CONSTANTS
    Session,    \* session objects; each is opened at most once
    Handle,     \* session handles of the token, none of which is used again
    Raw,        \* sessions that the program has made of handles of its own
    RawHandle,  \* the handles of these
    None,       \* the absence of a value
    Auth,       \* the kinds of token: "none" needs no login, "pin" takes a PIN
                \* and "pad" has a protected authentication path
    MaxTries,   \* wrong PINs that lock the PIN
    MaxFind     \* batches of objects that a search may return

ASSUME RawAssumption ==
    /\ Raw \subseteq Session
    /\ RawHandle \in [Raw -> Handle]
    /\ \A s, t \in Raw : RawHandle[s] = RawHandle[t] => s = t
ASSUME NoneAssumption == None \notin Session /\ None \notin Handle /\ None \notin Call
ASSUME AuthAssumption == Auth \subseteq {"none", "pin", "pad"}
ASSUME TriesAssumption == MaxTries \in Nat \ {0}
ASSUME FindAssumption == MaxFind \in Nat
ASSUME ResultAssumption ==
    {"FAILED", "NOT_LOGGED_IN", "ALREADY", "INCORRECT", "LOCKED", "ACTIVE"} \subseteq Rv

VARIABLES
    job,        \* what each call is to do, and where its function is
    sess,       \* the session objects
    token,      \* the token
    auth        \* the kind of token, which never changes

vars == <<callVars, job, sess, token, auth>>

-----------------------------------------------------------------------------
KeyOp == {"crypt", "verify"}
SessionOp == {"interactive", "login", "logout", "find"} \union KeyOp
Op == {"open"} \union SessionOp

\* Where the function of a call starts.
Start(op) ==
    CASE op = "interactive" -> "token_check"
      [] op \in KeyOp -> "key_init"
      [] OTHER -> op
At == {"none", "open", "login", "logout", "find", "find_more", "find_final",
       "token_check", "token_ask", "token_login",
       "key_init", "key_needs", "key_check", "key_ask", "key_login",
       "key_size", "key_result"}

Job ==
    [op : Op \union {"none"},
     session : Session \union {None},
     handle : Handle \union {None},     \* args->session or args->base.handle
     authenticate : BOOLEAN,    \* an opening logs in, a key needs a login
     at : At,
     pin : {"none", "right", "wrong"},  \* the value of the password object
     sent : BOOLEAN,            \* C_Login has been called since it was asked for
     lasts : BOOLEAN]           \* it logged in and nobody has logged out since

NoJob == [op |-> "none", session |-> None, handle |-> None, authenticate |-> FALSE,
          at |-> "none", pin |-> "none", sent |-> FALSE, lasts |-> FALSE]

\* held: the program has a reference to the object.
Unborn == [life |-> "unborn", handle |-> None, held |-> FALSE]
Opening == [life |-> "opening", handle |-> None, held |-> FALSE]
Gone == [life |-> "gone", handle |-> None, held |-> FALSE]
Live(h) == [life |-> "live", handle |-> h, held |-> TRUE]

SessionObject ==
    [life : {"unborn", "opening", "live", "gone"},
     handle : Handle \union {None},
     held : BOOLEAN]

Token ==
    [open : SUBSET Handle,
     issued : SUBSET Handle,                \* handles that were ever open
     user : BOOLEAN,                        \* the user is logged in
     tries : 0 .. MaxTries,                 \* what is left until the PIN is locked
     search : [Handle -> 0 .. MaxFind + 1], \* 0, or 1 + the batches left
     key : [Handle -> {"none", "locked", "ready"}]] \* the key operation

TypeOK ==
    /\ CallTypeOK
    /\ job \in [Call -> Job]
    /\ sess \in [Session -> SessionObject]
    /\ token \in Token
    /\ auth \in Auth

RawHandles == {RawHandle[s] : s \in Raw}

\* Raw sessions come from gck_session_from_handle.
Init ==
    /\ CallInit
    /\ job = [c \in Call |-> NoJob]
    /\ sess = [s \in Session |-> IF s \in Raw THEN Live(RawHandle[s]) ELSE Unborn]
    /\ token = [open |-> RawHandles, issued |-> RawHandles, user |-> FALSE,
                tries |-> MaxTries, search |-> [h \in Handle |-> 0], key |-> [h \in Handle |-> "none"]]
    /\ auth \in Auth

-----------------------------------------------------------------------------
(* The token.                                                              *)

\* C_OpenSession
Opened(t, h) == [t EXCEPT !.open = @ \union {h}, !.issued = @ \union {h}]

\* C_CloseSession
Close(t, H) ==
    [t EXCEPT !.open = @ \ H,
              !.user = @ /\ t.open \ H # {},
              !.search = [h \in Handle |-> IF h \in H THEN 0 ELSE @[h]],
              !.key = [h \in Handle |-> IF h \in H THEN "none" ELSE @[h]]]

\* C_Login as CKU_USER with a right or a wrong PIN: what it returns, and the
\* token after it.
UserLogin(t, right) ==
    CASE t.user -> <<"ALREADY", t>>
      [] ~t.user /\ t.tries = 0 -> <<"LOCKED", t>>
      [] ~t.user /\ t.tries > 0 /\ right ->
            <<"OK", [t EXCEPT !.user = TRUE, !.tries = MaxTries]>>
      [] OTHER -> <<"INCORRECT", [t EXCEPT !.tries = @ - 1]>>

\* C_Login as CKU_CONTEXT_SPECIFIC
ContextLogin(t, h, right) ==
    CASE t.key[h] # "locked" -> <<"FAILED", t>>
      [] t.key[h] = "locked" /\ t.tries = 0 -> <<"LOCKED", t>>
      [] t.key[h] = "locked" /\ t.tries > 0 /\ right ->
            <<"OK", [t EXCEPT !.key[h] = "ready", !.tries = MaxTries]>>
      [] OTHER -> <<"INCORRECT", [t EXCEPT !.tries = @ - 1]>>

-----------------------------------------------------------------------------
(* References to session objects and the end of a call.                    *)

\* Calls do not keep their session.
UsersNone(s, x) == {}
\* _gck_call_async_prep: a call keeps a reference to its session.
Users(s, x) == {c \in Call : c # x /\ Pending(c) /\ job[c].session = s}

\* The session object s has no reference once call x (if any) is over.
Unreferenced(s, x) == sess[s].life = "live" /\ ~sess[s].held /\ Users(s, x) = {}

\* gck_session_initable_init and its finish: the object gets the handle if the
\* call was a success, and is freed without one if it was not.
Finish(j, r) == IF r = "OK" THEN Live(j.handle) ELSE Gone

\* The session objects after an asynchronous call x was reported with result r.
Concluded(x, r) ==
    LET s == job[x].session
    IN  [sess EXCEPT ![s] =
            IF job[x].op = "open" THEN Finish(job[x], r)
            ELSE IF Unreferenced(s, x) THEN Gone
            ELSE @]

\* gck_session_dispose of those that lost their last reference.
Disposed(x) ==
    LET s == job[x].session
    IN  IF job[x].op # "open" /\ Unreferenced(s, x) THEN {sess[s].handle} ELSE {}

\* What the report of the call at the head of the queue does to sessions and to
\* the token.
SessReported ==
    IF completed = <<>> THEN sess ELSE Concluded(Head(completed), Result(Head(completed)))
TokenReported ==
    IF completed = <<>> THEN token ELSE Close(token, Disposed(Head(completed)))

-----------------------------------------------------------------------------
(* What the program does.                                                  *)

\* gck_session_open_async
OpenAsync(c, s, login) ==
    /\ sess[s].life = "unborn"
    /\ Go(c)
    /\ job' = [job EXCEPT ![c] = [NoJob EXCEPT !.op = "open", !.session = s,
                                     !.authenticate = login, !.at = "open"]]
    /\ sess' = [SessReported EXCEPT ![s] = Opening]
    /\ token' = TokenReported

\* gck_session_open
OpenSync(c, s, login) ==
    /\ sess[s].life = "unborn"
    /\ GoSync(c)
    /\ job' = [job EXCEPT ![c] = [NoJob EXCEPT !.op = "open", !.session = s,
                                     !.authenticate = login, !.at = "open"]]
    /\ sess' = [sess EXCEPT ![s] = IF c \in cancelled THEN Gone ELSE Opening]
    /\ UNCHANGED token

\* The job of an operation on session s, whose handle is read now.
JobOn(s, op, needs) ==
    [NoJob EXCEPT !.op = op, !.session = s, !.handle = sess[s].handle,
                  !.authenticate = needs, !.at = Start(op)]

\* The asynchronous functions on a session that the program has.
CallAsync(c, s, op, needs) ==
    /\ sess[s].held
    /\ Go(c)
    /\ job' = [job EXCEPT ![c] = JobOn(s, op, needs)]
    /\ sess' = SessReported
    /\ token' = TokenReported

\* The others; the program keeps the session while they run.
CallSync(c, s, op, needs) ==
    /\ sess[s].held
    /\ GoSync(c)
    /\ job' = [job EXCEPT ![c] = JobOn(s, op, needs)]
    /\ UNCHANGED <<sess, token>>

\* The program drops its reference.  The object is disposed of if no call has
\* another (gck_session_dispose, gck_session_real_discard_handle).
Release(s) ==
    /\ sess[s].held
    /\ \A c \in sync : ~(Pending(c) /\ job[c].session = s)
    /\ IF Users(s, None) = {}
       THEN /\ sess' = [sess EXCEPT ![s] = Gone]
            /\ token' = Close(token, {sess[s].handle})
       ELSE /\ sess' = [sess EXCEPT ![s].held = FALSE]
            /\ UNCHANGED token
    /\ UNCHANGED <<callVars, job>>

\* The main loop reports a call.
Reports ==
    /\ Dispatch
    /\ sess' = SessReported
    /\ token' = TokenReported
    /\ UNCHANGED job

Runs(c) == PoolRuns(c) /\ UNCHANGED <<job, sess, token>>
Cancels(c) == Cancel(c) /\ UNCHANGED <<job, sess, token>>

-----------------------------------------------------------------------------
(* The functions of the calls, one step for each PKCS#11 function.         *)

LoginOp(j) == j.op \in {"interactive", "login"} \/ (j.op = "open" /\ j.authenticate)

\* The function of c goes on with job j, the token being t.
Continue(c, j, t) ==
    /\ phase[c] = "running"
    /\ job' = [job EXCEPT ![c] = j]
    /\ token' = t
    /\ UNCHANGED <<callVars, sess>>

\* The function of c returns r.  An opening in the thread of its caller ends now.
Leave(c, j, r, t) ==
    /\ Returns(c, r)
    /\ job' = [job EXCEPT ![c] = [j EXCEPT !.at = "none", !.pin = "none", !.sent = FALSE,
                                         !.lasts = r = "OK" /\ LoginOp(j)]]
    /\ token' = t
    /\ sess' = IF c \in sync /\ j.op = "open"
               THEN [sess EXCEPT ![j.session] = Finish(j, r)]
               ELSE sess

\* perform_open_session
OpenSession(c) ==
    /\ job[c].at = "open"
    /\ \/ Leave(c, job[c], "FAILED", token)
       \/ \E h \in Handle \ token.issued :
             IF job[c].authenticate
             THEN Continue(c, [job[c] EXCEPT !.handle = h, !.at = "token_check"],
                           Opened(token, h))
             ELSE Leave(c, [job[c] EXCEPT !.handle = h], "OK", Opened(token, h))

\* The head of the loop of _gck_session_authenticate_token.  Opening a session
\* passes it no cancellable.
TokenCheck(c) ==
    /\ job[c].at = "token_check"
    /\ IF job[c].op = "interactive" /\ c \in cancelled
       THEN Leave(c, job[c], "CANCELED", token)
       ELSE \/ Leave(c, job[c], "FAILED", token)
            \/ /\ auth = "none" \/ token.user
               /\ Leave(c, job[c], "OK", token)
            \/ /\ auth # "none" /\ ~token.user
               /\ Continue(c, [job[c] EXCEPT !.at = IF auth = "pad" THEN "token_login"
                                                   ELSE "token_ask"], token)

\* Whoever has no PIN is said to have logged in.
GivesUpWell(c) == Leave(c, job[c], "OK", token)
\* The interaction fails, or there is none.
GivesUp(c) == Leave(c, job[c], "NOT_LOGGED_IN", token)

\* The interaction asks the user for a PIN.
Ask(c, at, next) ==
    /\ job[c].at = at
    /\ \/ \E pin \in {"right", "wrong"} :
             Continue(c, [job[c] EXCEPT !.at = next, !.pin = pin, !.sent = FALSE], token)
       \/ GivesUp(c)

\* A wrong PIN is tried once more, on any token.
AfterLoginAlways(c, outcome, again) ==
    IF outcome[1] = "INCORRECT"
    THEN Continue(c, [job[c] EXCEPT !.at = again, !.sent = TRUE], outcome[2])
    ELSE Leave(c, job[c], outcome[1], outcome[2])
\* After C_Login: the loop goes on after a wrong PIN, except on a token with a
\* protected authentication path.
AfterLogin(c, outcome, again) ==
    IF outcome[1] = "INCORRECT" /\ auth # "pad"
    THEN Continue(c, [job[c] EXCEPT !.at = again, !.sent = TRUE], outcome[2])
    ELSE Leave(c, job[c], outcome[1], outcome[2])

\* What the token gets: the PIN, or what the user enters on its pad.
MayBeRight(c, right) == auth = "pad" \/ (job[c].pin = "right") = right

TokenLogin(c) ==
    /\ job[c].at = "token_login"
    /\ \E right \in BOOLEAN :
          /\ MayBeRight(c, right)
          /\ AfterLogin(c, UserLogin(token, right), "token_check")

\* perform_login, with a PIN from the program
Login(c) ==
    /\ job[c].at = "login"
    /\ \E right \in BOOLEAN :
          LET outcome == UserLogin(token, right)
          IN  Leave(c, job[c], outcome[1], outcome[2])

\* perform_logout
Logout(c) ==
    /\ job[c].at = "logout"
    /\ IF token.user
       THEN /\ Returns(c, "OK")
            /\ job' = [x \in Call |-> [job[x] EXCEPT !.lasts = FALSE,
                                         !.at = IF x = c THEN "none" ELSE @]]
            /\ token' = [token EXCEPT !.user = FALSE]
            /\ UNCHANGED sess
       ELSE Leave(c, job[c], "NOT_LOGGED_IN", token)

\* perform_find_objects
FindInit(c) ==
    /\ job[c].at = "find"
    /\ LET h == job[c].handle
       IN  IF token.search[h] # 0
           THEN Leave(c, job[c], "ACTIVE", token)
           ELSE \/ Leave(c, job[c], "FAILED", token)
                \/ \E batches \in 0 .. MaxFind :
                      Continue(c, [job[c] EXCEPT !.at = "find_more"],
                               [token EXCEPT !.search[h] = batches + 1])

\* The search is not ended when the last batch was empty.
FindMoreOnly(c) ==
    /\ job[c].at = "find_more"
    /\ LET h == job[c].handle
       IN  IF token.search[h] = 1
           THEN Leave(c, job[c], "OK", token)
           ELSE Continue(c, job[c], [token EXCEPT !.search[h] = @ - 1])
\* The loop over C_FindObjects, which is left without C_FindObjectsFinal if one
\* of them fails.
FindMore(c) ==
    /\ job[c].at = "find_more"
    /\ LET h == job[c].handle
       IN  \/ Leave(c, job[c], "FAILED", token)
           \/ /\ token.search[h] > 1
              /\ Continue(c, job[c], [token EXCEPT !.search[h] = @ - 1])
           \/ /\ token.search[h] = 1
              /\ Continue(c, [job[c] EXCEPT !.at = "find_final"], token)

FindFinal(c) ==
    /\ job[c].at = "find_final"
    /\ \/ Leave(c, job[c], "OK", [token EXCEPT !.search[job[c].handle] = 0])
       \/ Leave(c, job[c], "FAILED", token)

-----------------------------------------------------------------------------
(* perform_crypt and perform_verify.                                       *)

\* The first function after the key has been authenticated: encrypting,
\* decrypting and signing ask for the size of the result before the result.
Authenticated(j) == IF j.op = "crypt" THEN "key_size" ELSE "key_result"

KeyInit(c) ==
    /\ job[c].at = "key_init"
    /\ LET h == job[c].handle
       IN  IF token.key[h] # "none"
           THEN Leave(c, job[c], "ACTIVE", token)
           ELSE \/ Leave(c, job[c], "FAILED", token)
                \/ Continue(c, [job[c] EXCEPT !.at = "key_needs"],
                            [token EXCEPT !.key[h] = IF job[c].authenticate THEN "locked"
                                                     ELSE "ready"])

\* C_GetAttributeValue tells whether the key needs authentication; if it fails
\* the key is assumed not to.
KeyNeeds(c) ==
    /\ job[c].at = "key_needs"
    /\ \/ Continue(c, [job[c] EXCEPT !.at = Authenticated(job[c])], token)
       \/ /\ job[c].authenticate
          /\ Continue(c, [job[c] EXCEPT !.at = "key_check"], token)

\* The head of the loop of _gck_session_authenticate_key, which gets no
\* cancellable.
KeyCheck(c) ==
    /\ job[c].at = "key_check"
    /\ \/ Leave(c, job[c], "FAILED", token)
       \/ Continue(c, [job[c] EXCEPT !.at = IF auth = "pad" THEN "key_login"
                                           ELSE "key_ask"], token)

KeyLogin(c) ==
    /\ job[c].at = "key_login"
    /\ \E right \in BOOLEAN :
          LET outcome == ContextLogin(token, job[c].handle, right)
          IN  /\ MayBeRight(c, right)
              /\ IF outcome[1] = "OK"
                 THEN Continue(c, [job[c] EXCEPT !.at = Authenticated(job[c])], outcome[2])
                 ELSE AfterLogin(c, outcome, "key_check")

\* The token ends the operation when it fails, or when it is not authenticated.
KeySize(c) ==
    /\ job[c].at = "key_size"
    /\ \/ Leave(c, job[c], "FAILED", [token EXCEPT !.key[job[c].handle] = "none"])
       \/ /\ token.key[job[c].handle] = "ready"
          /\ Continue(c, [job[c] EXCEPT !.at = "key_result"], token)

KeyResult(c) ==
    /\ job[c].at = "key_result"
    /\ \E r \in IF token.key[job[c].handle] = "ready" THEN {"OK", "FAILED"} ELSE {"FAILED"} :
          Leave(c, job[c], r, [token EXCEPT !.key[job[c].handle] = "none"])

Performs(c) ==
    \/ OpenSession(c)
    \/ TokenCheck(c)
    \/ Ask(c, "token_ask", "token_login")
    \/ TokenLogin(c)
    \/ Login(c)
    \/ Logout(c)
    \/ FindInit(c)
    \/ FindMore(c)
    \/ FindFinal(c)
    \/ KeyInit(c)
    \/ KeyNeeds(c)
    \/ KeyCheck(c)
    \/ Ask(c, "key_ask", "key_login")
    \/ KeyLogin(c)
    \/ KeySize(c)
    \/ KeyResult(c)

Step ==
    \/ \E c \in Call, s \in Session :
          \/ \E login \in BOOLEAN : OpenAsync(c, s, login) \/ OpenSync(c, s, login)
          \/ \E op \in SessionOp, needs \in BOOLEAN :
                /\ needs => op \in KeyOp
                /\ CallAsync(c, s, op, needs) \/ CallSync(c, s, op, needs)
    \/ \E s \in Session : Release(s)
    \/ \E c \in Call : Runs(c) \/ Performs(c) \/ Cancels(c)
    \/ Reports

Next == Step /\ UNCHANGED auth

Spec == Init /\ [][Next]_vars

\* The pool has its threads, PKCS#11 functions and users return, and the main
\* loop runs.
Fairness ==
    /\ \A c \in Call : WF_vars(Runs(c) /\ UNCHANGED auth)
    /\ \A c \in Call : WF_vars(Performs(c) /\ UNCHANGED auth)
    /\ WF_vars(Reports /\ UNCHANGED auth)

FairSpec == Spec /\ Fairness

-----------------------------------------------------------------------------
\* Every handle that is open on the token belongs to a session object that will
\* close it, or to an opening that has not been reported.  Only one whose report
\* was not a success, because the login failed or it was cancelled after the
\* session was opened, leaves a handle that nobody closes.
HandlesAreHeld ==
    \A h \in token.open :
        \/ \E s \in Session : sess[s].life = "live" /\ sess[s].handle = h
        \/ \E c \in Call :
              /\ job[c].op = "open" /\ job[c].handle = h
              /\ (Pending(c) \/ rv[c] # "OK")

\* The handle is read when a call is prepared and used by a thread of the pool
\* later: it is not closed before, although the program may drop the session in
\* between, and no two session objects close the same handle.
CallsUseOpenHandles ==
    /\ \A c \in Call :
          Pending(c) /\ job[c].handle # None => job[c].handle \in token.open
    /\ \A s \in Session : sess[s].life = "live" => sess[s].handle \in token.open
    /\ \A s, t \in Session :
          sess[s].life = "live" /\ sess[t].life = "live" /\ sess[s].handle = sess[t].handle
              => s = t

\* A login lasts: while a session that was opened or used for a login lives and
\* nobody logs out, the user is logged in, whatever other logins fail or were
\* found unnecessary and whatever other sessions close.
LoginLasts ==
    \A c \in Call :
        /\ job[c].lasts
        /\ job[c].session \in Session /\ sess[job[c].session].life = "live"
        /\ auth # "none"
        => token.user

\* A search or a key operation is under way on a session only while a call that
\* began it runs; only a call that reports a failure leaves one behind.
OperationsEnd ==
    \A h \in Handle :
        /\ token.search[h] # 0 =>
              \E c \in Call : /\ job[c].op = "find" /\ job[c].handle = h
                             /\ (phase[c] = "running" \/ rv[c] # "OK")
        /\ token.key[h] # "none" =>
              \E c \in Call : /\ job[c].op \in KeyOp /\ job[c].handle = h
                             /\ (phase[c] = "running" \/ rv[c] # "OK")

\* A PIN that was wrong is not sent again, and a pad is used once for a call: a
\* retry that did not ask the user first would lock the token.
EachPinSentOnce ==
    \A c \in Call : job[c].at \in {"token_login", "key_login"} => ~job[c].sent

\* A call that was made is reported, however many calls share the threads and
\* however often a PIN is wrong.
CallsFinish == \A c \in Call : Pending(c) ~> phase[c] = "done"
=============================================================================
