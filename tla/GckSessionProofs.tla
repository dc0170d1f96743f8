-------------------------- MODULE GckSessionProofs --------------------------
(***************************************************************************)
(* Proofs about calls and sessions, for any number of calls, sessions,     *)
(* handles, threads, tries and batches.                                    *)
(*                                                                         *)
(* The report of a completed call is part of several actions.  Therefore   *)
(* the invariant is stated of the values of the variables, and not of the  *)
(* variables; lemmas say how it survives the few things that can happen to *)
(* a call, and each action is one of these or two in a row.                *)
(***************************************************************************)
EXTENDS GckSession, TLAPS

-----------------------------------------------------------------------------
(* The inductive invariant.  ph, sy, r, jb and ss stand for the values of  *)
(* phase, sync, rv, job and sess; o and i for the open and the issued      *)
(* handles of the token.                                                   *)

\* The queues hold each call once, and only calls that belong there.
QueueOK(q, ph, where) ==
    /\ \A n \in 1 .. Len(q) : ph[q[n]] = where
    /\ \A m, n \in 1 .. Len(q) : q[m] = q[n] => m = n

Busy(ph, c) == ph[c] \in {"pooled", "running", "completed"}
Opener(ph, jb, c) == Busy(ph, c) /\ jb[c].op = "open"

\* What a call knows of its session.
JobOK(ph, sy, jb, ss, o) ==
    /\ \A c \in Call : ph[c] = "new" => jb[c].op = "none"
    /\ \A c \in Call : ph[c] # "new" => jb[c].op \in Op /\ jb[c].session \in Session
    /\ \A c \in Call : ph[c] = "done" => ss[jb[c].session].life \in {"live", "gone"}
    /\ \A c \in Call : Opener(ph, jb, c) =>
          /\ ss[jb[c].session].life = "opening"
          /\ jb[c].handle # None => jb[c].handle \in o
    /\ \A c \in Call : Busy(ph, c) /\ jb[c].op # "open" =>
          /\ ss[jb[c].session].life = "live"
          /\ jb[c].handle = ss[jb[c].session].handle
          /\ c \in sy => ss[jb[c].session].held

\* An opening has a handle from C_OpenSession on.
OpeningOK(ph, r, jb) ==
    /\ \A c \in Call : jb[c].at = "open" => jb[c].op = "open" /\ jb[c].handle = None
    /\ \A c \in Call : jb[c].op = "open" =>
          /\ ph[c] \in {"pooled", "running"} /\ jb[c].at # "open" => jb[c].handle # None
          /\ ph[c] = "completed" /\ r[c] = "OK" => jb[c].handle # None

\* No two openings have the same session, and no two openings and sessions the
\* same handle.
HandlesApart(ph, jb, ss) ==
    /\ \A c, d \in Call :
          Opener(ph, jb, c) /\ Opener(ph, jb, d) /\ c # d
          => /\ jb[c].session # jb[d].session
             /\ jb[c].handle # None => jb[c].handle # jb[d].handle
    /\ \A c \in Call, s \in Session :
          Opener(ph, jb, c) /\ ss[s].life = "live" => jb[c].handle # ss[s].handle
    /\ \A s, t \in Session :
          ss[s].life = "live" /\ ss[t].life = "live" /\ ss[s].handle = ss[t].handle => s = t

SessionOK(ss, o, i) ==
    /\ \A s \in Session : ss[s].life = "live" => ss[s].handle \in o
    /\ \A s \in Session : ss[s].held => ss[s].life = "live"
    /\ o \subseteq i /\ i \subseteq Handle

\* Whoever is responsible for an open handle.
Holders(ph, r, jb, ss, o) ==
    \A h \in o :
        \/ \E s \in Session : ss[s].life = "live" /\ ss[s].handle = h
        \/ \E c \in Call : jb[c].op = "open" /\ jb[c].handle = h /\ (Busy(ph, c) \/ r[c] # "OK")

Sound(ph, sy, r, jb, ss, o, i) ==
    /\ JobOK(ph, sy, jb, ss, o)
    /\ OpeningOK(ph, r, jb)
    /\ HandlesApart(ph, jb, ss)
    /\ SessionOK(ss, o, i)
    /\ Holders(ph, r, jb, ss, o)

\* Where a function can be.
FindAt == {"find", "find_more", "find_final"}
KeyAt == {"key_init", "key_needs", "key_check", "key_ask", "key_login", "key_size", "key_result"}
TokenAt == {"open", "login", "token_check", "token_ask", "token_login"}

AtOK(ph, jb) ==
    \A c \in Call :
        /\ jb[c].at \in FindAt => jb[c].op = "find"
        /\ jb[c].at \in KeyAt => jb[c].op \in KeyOp
        /\ jb[c].at \in TokenAt => jb[c].op \in {"open", "interactive", "login"}
        /\ jb[c].at = "logout" => jb[c].op = "logout"
        /\ ph[c] \in {"pooled", "running"} => jb[c].at # "none"

\* A PIN that was wrong is kept only where the user is asked for another one.
PinsOK(jb, au) ==
    \A c \in Call :
        /\ jb[c].at \in {"token_login", "key_login"} => ~jb[c].sent
        /\ au = "pad" => ~jb[c].sent

\* A call that began what is under way on handle h.
Owner(ph, r, jb, c, ops, h) ==
    jb[c].op \in ops /\ jb[c].handle = h /\ (ph[c] = "running" \/ r[c] # "OK")

OperationsOK(ph, r, jb, tk) ==
    \A h \in Handle :
        /\ tk.search[h] # 0 => \E c \in Call : Owner(ph, r, jb, c, {"find"}, h)
        /\ tk.key[h] # "none" => \E c \in Call : Owner(ph, r, jb, c, KeyOp, h)

\* A login lasts from the moment it succeeds, although its session may not have
\* been reported yet.
LoginsOK(ph, r, jb, ss, tk, au) ==
    \A c \in Call : jb[c].lasts =>
        /\ ph[c] = "done" \/ (ph[c] = "completed" /\ r[c] = "OK")
        /\ /\ Opener(ph, jb, c) \/ ss[jb[c].session].life = "live"
           /\ au # "none"
           => tk.user

Typed(ph, sy, r, jb, ss) ==
    /\ ph \in [Call -> Phase]
    /\ sy \in SUBSET Call
    /\ r \in [Call -> Rv]
    /\ jb \in [Call -> Job]
    /\ ss \in [Session -> SessionObject]

Good(ph, sy, r, jb, ss, tk, au) ==
    /\ Typed(ph, sy, r, jb, ss)
    /\ tk \in Token
    /\ Sound(ph, sy, r, jb, ss, tk.open, tk.issued)
    /\ AtOK(ph, jb)
    /\ PinsOK(jb, au)
    /\ OperationsOK(ph, r, jb, tk)
    /\ LoginsOK(ph, r, jb, ss, tk, au)

\* The invariant.
IInv ==
    /\ cancelled \in SUBSET Call
    /\ pool \in Seq(Call)
    /\ completed \in Seq(Call)
    /\ auth \in Auth
    /\ QueueOK(pool, phase, "pooled")
    /\ QueueOK(completed, phase, "completed")
    /\ Good(phase, sync, rv, job, sess, token, auth)

-----------------------------------------------------------------------------
(* What can happen to a call, and what becomes of its session.             *)

\* g is f but for its value v at x.
Update(f, g, S, x, v) ==
    /\ g[x] = v
    /\ \A y \in S : y # x => g[y] = f[y]

\* Both jobs have the same session and handle.
Same(jb, jb2, c) ==
    /\ jb2[c].op = jb[c].op
    /\ jb2[c].session = jb[c].session
    /\ jb2[c].handle = jb[c].handle

Others(ph, ph2, r, r2, jb, jb2, c) ==
    \A d \in Call : d # c =>
        /\ ph2[d] = ph[d]
        /\ r2[d] = r[d]
        /\ Same(jb, jb2, d)
        /\ jb2[d].at = jb[d].at

\* A call gets a thread, goes on, or completes.
LEMMA MoveSound ==
    ASSUME NEW ph, NEW ph2, NEW sy, NEW r, NEW r2, NEW jb, NEW jb2, NEW ss, NEW o, NEW i,
           NEW c \in Call,
           Typed(ph, sy, r, jb, ss), Typed(ph2, sy, r2, jb2, ss),
           Sound(ph, sy, r, jb, ss, o, i),
           ph[c] \in {"pooled", "running"}, ph2[c] \in {"running", "completed"},
           Others(ph, ph2, r, r2, jb, jb2, c), Same(jb, jb2, c),
           jb2[c].at = "open" => jb[c].at = "open",
           jb2[c].at # "open" /\ ph2[c] = "running" => jb[c].at # "open",
           ph2[c] = "completed" /\ r2[c] = "OK" /\ jb[c].op = "open" => jb[c].handle # None
    PROVE  Sound(ph2, sy, r2, jb2, ss, o, i)
  <1>1. \A d \in Call : Same(jb, jb2, d) /\ (Busy(ph2, d) <=> Busy(ph, d))
    BY DEF Others, Busy
  <1>2. \A d \in Call : Opener(ph2, jb2, d) <=> Opener(ph, jb, d)
    BY <1>1 DEF Opener, Same
  <1>3. \A d \in Call : ph2[d] = "new" => ph[d] = "new"
    BY DEF Others
  <1>4. \A d \in Call : /\ ph2[d] # "new" => ph[d] # "new"
                        /\ ph2[d] = "done" => ph[d] = "done"
    BY DEF Others
  <1>5. JobOK(ph2, sy, jb2, ss, o)
    BY <1>1, <1>2, <1>3, <1>4 DEF Sound, JobOK, Same
  <1>6. OpeningOK(ph2, r2, jb2)
    BY <1>1 DEF Sound, OpeningOK, Same, Others
  <1>7. HandlesApart(ph2, jb2, ss)
    BY <1>1, <1>2 DEF Sound, HandlesApart, Same
  <1>8. Holders(ph2, r2, jb2, ss, o)
    BY <1>1 DEF Sound, Holders, Same, Others, Busy
  <1>9. QED
    BY <1>5, <1>6, <1>7, <1>8 DEF Sound

\* An opening gets a handle.
LEMMA ReceiveSound ==
    ASSUME NEW ph, NEW sy, NEW r, NEW jb, NEW jb2, NEW ss, NEW o, NEW i,
           NEW c \in Call, NEW h \in Handle \ i,
           Typed(ph, sy, r, jb, ss), Typed(ph, sy, r, jb2, ss),
           Sound(ph, sy, r, jb, ss, o, i),
           ph[c] = "running", jb[c].at = "open",
           Others(ph, ph, r, r, jb, jb2, c),
           jb2[c].op = jb[c].op, jb2[c].session = jb[c].session,
           jb2[c].handle = h, jb2[c].at # "open"
    PROVE  Sound(ph, sy, r, jb2, ss, o \union {h}, i \union {h})
  <1>1. \A d \in Call : /\ jb2[d].op = jb[d].op /\ jb2[d].session = jb[d].session
                        /\ d # c => jb2[d].handle = jb[d].handle /\ jb2[d].at = jb[d].at
    BY DEF Others, Same
  <1>2. \A d \in Call : Opener(ph, jb2, d) <=> Opener(ph, jb, d)
    BY <1>1 DEF Opener
  <1>3. Opener(ph, jb, c) /\ jb[c].op = "open" /\ jb[c].handle = None /\ h # None
    BY NoneAssumption DEF Sound, OpeningOK, Opener, Busy
  <1>4. h \notin o
    BY DEF Sound, SessionOK
  <1>5. JobOK(ph, sy, jb2, ss, o \union {h})
    BY <1>1, <1>2, <1>3 DEF Sound, JobOK
  <1>6. OpeningOK(ph, r, jb2)
    BY <1>1, <1>3 DEF Sound, OpeningOK
  <1>7. HandlesApart(ph, jb2, ss)
    <2>1. \A d \in Call : Opener(ph, jb, d) => jb[d].handle # h
      BY <1>3, <1>4 DEF Sound, JobOK
    <2>2. \A s \in Session : ss[s].life = "live" => ss[s].handle # h
      BY <1>4 DEF Sound, SessionOK
    <2>3. QED
      BY <1>1, <1>2, <1>3, <2>1, <2>2 DEF Sound, HandlesApart
  <1>8. SessionOK(ss, o \union {h}, i \union {h})
    BY DEF Sound, SessionOK
  <1>9. Holders(ph, r, jb2, ss, o \union {h})
    <2>1. \A d \in Call : jb[d].op = "open" /\ jb[d].handle \in o => d # c
      BY <1>3, NoneAssumption DEF Sound, SessionOK
    <2>2. QED
      BY <1>1, <1>3, <2>1 DEF Sound, Holders, Opener
  <1>10. QED
    BY <1>5, <1>6, <1>7, <1>8, <1>9 DEF Sound

\* A call on a session ends; the session stays as it is.
LEMMA KeepSound ==
    ASSUME NEW ph, NEW ph2, NEW sy, NEW r, NEW r2, NEW jb, NEW jb2, NEW ss, NEW o, NEW i,
           NEW c \in Call,
           Typed(ph, sy, r, jb, ss), Typed(ph2, sy, r2, jb2, ss),
           Sound(ph, sy, r, jb, ss, o, i),
           ph[c] \in {"running", "completed"}, ph2[c] = "done", jb[c].op # "open",
           Others(ph, ph2, r, r2, jb, jb2, c), Same(jb, jb2, c),
           jb2[c].at = "open" => jb[c].at = "open"
    PROVE  Sound(ph2, sy, r2, jb2, ss, o, i)
  <1>1. /\ \A d \in Call : Same(jb, jb2, d)
        /\ \A d \in Call : d # c => (Busy(ph2, d) <=> Busy(ph, d)) /\ ph2[d] = ph[d]
        /\ Busy(ph, c) /\ ~Busy(ph2, c)
    BY DEF Others, Busy
  <1>2. \A d \in Call : Opener(ph2, jb2, d) <=> Opener(ph, jb, d)
    BY <1>1 DEF Opener, Same
  <1>3. JobOK(ph2, sy, jb2, ss, o)
    BY <1>1, <1>2 DEF Sound, JobOK, Same
  <1>4. OpeningOK(ph2, r2, jb2)
    BY <1>1 DEF Sound, OpeningOK, Same, Others
  <1>5. HandlesApart(ph2, jb2, ss)
    BY <1>1, <1>2 DEF Sound, HandlesApart, Same
  <1>6. Holders(ph2, r2, jb2, ss, o)
    <2>1. \A d \in Call : jb[d].op = "open" => d # c
      OBVIOUS
    <2>2. QED
      BY <1>1, <2>1 DEF Sound, Holders, Same, Others
  <1>7. QED
    BY <1>3, <1>4, <1>5, <1>6 DEF Sound

\* An opening ends.
LEMMA FinishSound ==
    ASSUME NEW ph, NEW ph2, NEW sy, NEW r, NEW r2, NEW jb, NEW jb2, NEW ss, NEW o, NEW i,
           NEW c \in Call,
           Typed(ph, sy, r, jb, ss), Typed(ph2, sy, r2, jb2, ss),
           Sound(ph, sy, r, jb, ss, o, i),
           ph[c] \in {"running", "completed"}, ph2[c] = "done", jb[c].op = "open",
           Others(ph, ph2, r, r2, jb, jb2, c), Same(jb, jb2, c),
           jb2[c].at = "open" => jb[c].at = "open",
           r2[c] = "OK" => jb[c].handle # None
    PROVE  Sound(ph2, sy, r2, jb2, [ss EXCEPT ![jb[c].session] = Finish(jb[c], r2[c])], o, i)
  <1> DEFINE s0 == jb[c].session
             ss2 == [ss EXCEPT ![s0] = Finish(jb[c], r2[c])]
  <1>1. /\ \A d \in Call : Same(jb, jb2, d)
        /\ \A d \in Call : d # c => (Busy(ph2, d) <=> Busy(ph, d)) /\ ph2[d] = ph[d]
        /\ Busy(ph, c) /\ ~Busy(ph2, c) /\ Opener(ph, jb, c)
    BY DEF Others, Busy, Opener
  <1>2. \A d \in Call : /\ Opener(ph2, jb2, d) => Opener(ph, jb, d) /\ d # c
                        /\ Opener(ph, jb, d) /\ d # c => Opener(ph2, jb2, d)
    BY <1>1 DEF Opener, Same
  <1>3. s0 \in Session /\ ss[s0].life = "opening"
    BY <1>1 DEF Sound, JobOK, Busy
  <1>4. \A s \in Session : s # s0 => ss2[s] = ss[s]
    OBVIOUS
  <1>5. /\ ss2[s0].life \in {"live", "gone"}
        /\ ss2[s0].life = "live" => /\ ss2[s0].handle = jb[c].handle /\ jb[c].handle # None
                                    /\ r2[c] = "OK"
        /\ ss2[s0].life # "live" => r2[c] # "OK" /\ ~ss2[s0].held
    BY <1>3 DEF Finish, Live, Gone, Typed
  <1> HIDE DEF ss2
  <1>6. \A d \in Call : Opener(ph2, jb2, d) => jb[d].session # s0
    BY <1>1, <1>2 DEF Sound, HandlesApart
  <1>7. \A d \in Call : d # c /\ Busy(ph, d) /\ jb[d].op # "open" => jb[d].session # s0
    BY <1>3 DEF Sound, JobOK
  <1>8. JobOK(ph2, sy, jb2, ss2, o)
    <2>1. \A d \in Call : ph2[d] = "done" => ss2[jb2[d].session].life \in {"live", "gone"}
      BY <1>1, <1>4, <1>5 DEF Sound, JobOK, Same
    <2>2. \A d \in Call : Opener(ph2, jb2, d) =>
              /\ ss2[jb2[d].session].life = "opening"
              /\ jb2[d].handle # None => jb2[d].handle \in o
      BY <1>1, <1>2, <1>4, <1>6 DEF Sound, JobOK, Same, Busy, Opener
    <2>3. \A d \in Call : Busy(ph2, d) /\ jb2[d].op # "open" =>
              /\ ss2[jb2[d].session].life = "live"
              /\ jb2[d].handle = ss2[jb2[d].session].handle
              /\ d \in sy => ss2[jb2[d].session].held
      BY <1>1, <1>4, <1>7 DEF Sound, JobOK, Same, Busy
    <2>4. QED
      BY <1>1, <2>1, <2>2, <2>3 DEF Sound, JobOK, Same
  <1>9. OpeningOK(ph2, r2, jb2)
    BY <1>1 DEF Sound, OpeningOK, Same, Others
  <1>10. HandlesApart(ph2, jb2, ss2)
    <2>1. \A d \in Call : Opener(ph2, jb2, d) /\ jb[c].handle # None =>
              jb[d].handle # jb[c].handle
      BY <1>1, <1>2 DEF Sound, HandlesApart
    <2>2. \A s \in Session : ss[s].life = "live" => ss[s].handle # jb[c].handle
      BY <1>1 DEF Sound, HandlesApart
    <2>3. QED
      BY <1>1, <1>2, <1>3, <1>4, <1>5, <2>1, <2>2 DEF Sound, HandlesApart, Same
  <1>11. SessionOK(ss2, o, i)
    <2>1. ss2[s0].life = "live" => ss2[s0].handle \in o
      BY <1>1, <1>5 DEF Sound, JobOK
    <2>2. QED
      BY <1>4, <1>5, <2>1 DEF Sound, SessionOK
  <1>12. Holders(ph2, r2, jb2, ss2, o)
    <2> SUFFICES ASSUME NEW h \in o
                 PROVE  \/ \E s \in Session : ss2[s].life = "live" /\ ss2[s].handle = h
                        \/ \E d \in Call : /\ jb2[d].op = "open" /\ jb2[d].handle = h
                                           /\ (Busy(ph2, d) \/ r2[d] # "OK")
      BY DEF Holders
    <2>1. CASE \E s \in Session : ss[s].life = "live" /\ ss[s].handle = h
      BY <1>3, <1>4, <2>1
    <2>2. CASE \E d \in Call : d # c /\ jb[d].op = "open" /\ jb[d].handle = h
                                     /\ (Busy(ph, d) \/ r[d] # "OK")
      BY <1>1, <2>2 DEF Same, Others
    <2>3. CASE jb[c].handle = h
      BY <1>1, <1>3, <1>5, <2>3 DEF Same
    <2>4. QED
      BY <2>1, <2>2, <2>3 DEF Sound, Holders
  <1>13. QED
    BY <1>8, <1>9, <1>10, <1>11, <1>12 DEF Sound, ss2

\* A session that no call uses is disposed of.
LEMMA DisposeSound ==
    ASSUME NEW ph, NEW sy, NEW r, NEW jb, NEW ss, NEW o, NEW i, NEW s0 \in Session,
           Typed(ph, sy, r, jb, ss),
           Sound(ph, sy, r, jb, ss, o, i),
           ss[s0].life = "live",
           \A c \in Call : ~(Busy(ph, c) /\ jb[c].session = s0)
    PROVE  Sound(ph, sy, r, jb, [ss EXCEPT ![s0] = Gone], o \ {ss[s0].handle}, i)
  <1> DEFINE ss2 == [ss EXCEPT ![s0] = Gone]
             h0 == ss[s0].handle
  <1>1. /\ \A s \in Session : s # s0 => ss2[s] = ss[s]
        /\ ss2[s0].life = "gone" /\ ~ss2[s0].held
    BY DEF Typed, Gone
  <1> HIDE DEF ss2
  <1>2. \A s \in Session : s # s0 /\ ss[s].life = "live" => ss[s].handle # h0
    BY DEF Sound, HandlesApart
  <1>3. \A c \in Call : Opener(ph, jb, c) => jb[c].handle # h0
    BY DEF Sound, HandlesApart
  <1>4. JobOK(ph, sy, jb, ss2, o \ {h0})
    BY <1>1, <1>3 DEF Sound, JobOK, Opener, Busy
  <1>5. HandlesApart(ph, jb, ss2)
    BY <1>1 DEF Sound, HandlesApart
  <1>6. SessionOK(ss2, o \ {h0}, i)
    BY <1>1, <1>2 DEF Sound, SessionOK
  <1>7. Holders(ph, r, jb, ss2, o \ {h0})
    BY <1>1 DEF Sound, Holders
  <1>8. QED
    BY <1>4, <1>5, <1>6, <1>7 DEF Sound, ss2

\* The program drops its reference to a session that calls use.
LEMMA DropSound ==
    ASSUME NEW ph, NEW sy, NEW r, NEW jb, NEW ss, NEW o, NEW i, NEW s0 \in Session,
           Typed(ph, sy, r, jb, ss),
           Sound(ph, sy, r, jb, ss, o, i),
           \A c \in sy : ~(Busy(ph, c) /\ jb[c].session = s0)
    PROVE  Sound(ph, sy, r, jb, [ss EXCEPT ![s0].held = FALSE], o, i)
  <1> DEFINE ss2 == [ss EXCEPT ![s0].held = FALSE]
  <1>1. \A s \in Session :
           /\ ss2[s].life = ss[s].life /\ ss2[s].handle = ss[s].handle
           /\ s # s0 => ss2[s] = ss[s]
           /\ ss2[s].held => ss[s].held
    BY DEF Typed, SessionObject
  <1> HIDE DEF ss2
  <1>2. JobOK(ph, sy, jb, ss2, o)
    BY <1>1 DEF Sound, JobOK, Opener, Busy
  <1>3. HandlesApart(ph, jb, ss2)
    BY <1>1 DEF Sound, HandlesApart
  <1>4. SessionOK(ss2, o, i)
    BY <1>1 DEF Sound, SessionOK
  <1>5. Holders(ph, r, jb, ss2, o)
    BY <1>1 DEF Sound, Holders
  <1>6. QED
    BY <1>2, <1>3, <1>4, <1>5 DEF Sound, ss2

\* Only call c can have joined those in the thread of their caller.
SyncKept(sy, sy2, c) == \A d \in sy2 : d # c => d \in sy

\* A call is made on a session that the program has.
LEMMA AddSound ==
    ASSUME NEW ph, NEW ph2, NEW sy, NEW sy2, NEW r, NEW r2, NEW jb, NEW jb2, NEW ss,
           NEW o, NEW i, NEW c \in Call,
           Typed(ph, sy, r, jb, ss), Typed(ph2, sy2, r2, jb2, ss),
           Sound(ph, sy, r, jb, ss, o, i),
           ph[c] = "new", ph2[c] # "new",
           Others(ph, ph2, r, r2, jb, jb2, c),
           SyncKept(sy, sy2, c),
           jb2[c].op \in SessionOp, jb2[c].session \in Session,
           ss[jb2[c].session].held,
           jb2[c].handle = ss[jb2[c].session].handle,
           jb2[c].at # "open"
    PROVE  Sound(ph2, sy2, r2, jb2, ss, o, i)
  <1>1. \A d \in Call : d # c => Same(jb, jb2, d) /\ ph2[d] = ph[d]
    BY DEF Others
  <1>2. jb[c].op = "none" /\ jb2[c].op \in Op /\ jb2[c].op # "open"
    BY DEF Sound, JobOK, Op, SessionOp, KeyOp
  <1>3. \A d \in Call : /\ Opener(ph2, jb2, d) => Opener(ph, jb, d) /\ d # c
                        /\ Opener(ph, jb, d) => Opener(ph2, jb2, d) /\ d # c
    BY <1>1, <1>2 DEF Opener, Same, Busy
  <1>4. ss[jb2[c].session].life = "live"
    BY DEF Sound, SessionOK
  <1>5. JobOK(ph2, sy2, jb2, ss, o)
    BY <1>1, <1>2, <1>3, <1>4 DEF Sound, JobOK, Same, Busy, SyncKept
  <1>6. OpeningOK(ph2, r2, jb2)
    BY <1>1, <1>2 DEF Sound, OpeningOK, Same, Others
  <1>7. HandlesApart(ph2, jb2, ss)
    BY <1>1, <1>3 DEF Sound, HandlesApart, Same
  <1>8. Holders(ph2, r2, jb2, ss, o)
    BY <1>1, <1>2 DEF Sound, Holders, Same, Others, Busy
  <1>9. QED
    BY <1>5, <1>6, <1>7, <1>8 DEF Sound

\* A session is to be opened.  A call that was cancelled before it began has
\* ended already.
LEMMA AddOpenSound ==
    ASSUME NEW ph, NEW ph2, NEW sy, NEW sy2, NEW r, NEW r2, NEW jb, NEW jb2, NEW ss, NEW ss2,
           NEW o, NEW i, NEW c \in Call,
           Typed(ph, sy, r, jb, ss), Typed(ph2, sy2, r2, jb2, ss2),
           Sound(ph, sy, r, jb, ss, o, i),
           ph[c] = "new", ph2[c] \in {"pooled", "running", "done"},
           Others(ph, ph2, r, r2, jb, jb2, c),
           SyncKept(sy, sy2, c),
           jb2[c].op = "open", jb2[c].session \in Session,
           jb2[c].handle = None, jb2[c].at = "open",
           ss[jb2[c].session].life = "unborn",
           Update(ss, ss2, Session, jb2[c].session, IF ph2[c] = "done" THEN Gone ELSE Opening)
    PROVE  Sound(ph2, sy2, r2, jb2, ss2, o, i)
  <1> DEFINE s0 == jb2[c].session
  <1>1. \A d \in Call : d # c => Same(jb, jb2, d) /\ ph2[d] = ph[d]
    BY DEF Others
  <1>2. jb[c].op = "none" /\ jb2[c].op \in Op
    BY DEF Sound, JobOK, Op
  <1>3. \A d \in Call : d # c => (Opener(ph2, jb2, d) <=> Opener(ph, jb, d))
    BY <1>1 DEF Opener, Same, Busy
  <1>4. /\ \A s \in Session : s # s0 => ss2[s] = ss[s]
        /\ ss2[s0].life \in {"opening", "gone"} /\ ~ss2[s0].held
        /\ Busy(ph2, c) => ss2[s0].life = "opening"
        /\ ~Busy(ph2, c) => ss2[s0].life = "gone"
    BY DEF Update, Gone, Opening, Busy
  <1>5. \A d \in Call : d # c /\ ph[d] # "new" => jb[d].session # s0
    BY DEF Sound, JobOK, Opener, Busy, Typed, Phase
  <1>6. JobOK(ph2, sy2, jb2, ss2, o)
    <2>1. \A d \in Call : d # c => /\ Busy(ph2, d) <=> Busy(ph, d)
                                   /\ ph2[d] # "new" => ss2[jb2[d].session] = ss[jb[d].session]
                                   /\ d \in sy2 => d \in sy
      BY <1>1, <1>4, <1>5 DEF Sound, JobOK, Same, Busy, SyncKept
    <2>2. Busy(ph2, c) \/ ph2[c] = "done"
      BY DEF Busy
    <2>3. \A d \in Call : Opener(ph2, jb2, d) =>
              /\ ss2[jb2[d].session].life = "opening"
              /\ jb2[d].handle # None => jb2[d].handle \in o
      BY <1>1, <1>3, <1>4, <2>1 DEF Sound, JobOK, Same, Opener, Busy
    <2>4. \A d \in Call : Busy(ph2, d) /\ jb2[d].op # "open" =>
              /\ d # c /\ Busy(ph, d) /\ jb[d].op # "open"
              /\ ss2[jb2[d].session] = ss[jb[d].session]
              /\ jb2[d].handle = jb[d].handle
              /\ d \in sy2 => d \in sy
      BY <1>1, <2>1 DEF Same, Busy
    <2>5. \A d \in Call : Busy(ph2, d) /\ jb2[d].op # "open" =>
              /\ ss2[jb2[d].session].life = "live"
              /\ jb2[d].handle = ss2[jb2[d].session].handle
              /\ d \in sy2 => ss2[jb2[d].session].held
      BY <2>4 DEF Sound, JobOK
    <2>6. \A d \in Call : ph2[d] = "done" => ss2[jb2[d].session].life \in {"live", "gone"}
      BY <1>1, <1>4, <2>1 DEF Sound, JobOK, Busy
    <2>7. \A d \in Call : /\ ph2[d] = "new" => jb2[d].op = "none"
                          /\ ph2[d] # "new" => jb2[d].op \in Op /\ jb2[d].session \in Session
      BY <1>1, <1>2 DEF Sound, JobOK, Same
    <2>8. QED
      BY <2>3, <2>5, <2>6, <2>7 DEF JobOK
  <1>7. OpeningOK(ph2, r2, jb2)
    BY <1>1 DEF Sound, OpeningOK, Same, Others
  <1>8. HandlesApart(ph2, jb2, ss2)
    <2>1. \A d \in Call : d # c /\ Opener(ph2, jb2, d) => jb2[d].session # s0
      BY <1>1, <1>3, <1>5 DEF Same, Opener, Busy
    <2>2. \A s \in Session : ss2[s].life = "live" => ss2[s].handle \in Handle /\ s # s0
      BY <1>4 DEF Sound, SessionOK
    <2>3. QED
      BY <1>1, <1>3, <1>4, <2>1, <2>2, NoneAssumption DEF Sound, HandlesApart, Same
  <1>9. SessionOK(ss2, o, i)
    BY <1>4 DEF Sound, SessionOK
  <1>10. Holders(ph2, r2, jb2, ss2, o)
    BY <1>1, <1>2, <1>4 DEF Sound, Holders, Same, Others, Busy
  <1>11. QED
    BY <1>6, <1>7, <1>8, <1>9, <1>10 DEF Sound

-----------------------------------------------------------------------------
(* The token and its handles.                                              *)

LEMMA CloseEffect ==
    ASSUME NEW t \in Token, NEW H
    PROVE  /\ Close(t, H) \in Token
           /\ Close(t, H).open = t.open \ H
           /\ Close(t, H).issued = t.issued
           /\ Close(t, H).user <=> t.user /\ t.open \ H # {}
           /\ \A h \in Handle : /\ Close(t, H).search[h] \in {0, t.search[h]}
                                /\ Close(t, H).key[h] \in {"none", t.key[h]}
  <1> DEFINE u == Close(t, H)
  <1>1. /\ t = [open |-> t.open, issued |-> t.issued, user |-> t.user, tries |-> t.tries,
                search |-> t.search, key |-> t.key]
        /\ t.open \in SUBSET Handle /\ t.issued \in SUBSET Handle /\ t.user \in BOOLEAN
        /\ t.tries \in 0 .. MaxTries
        /\ t.search \in [Handle -> 0 .. MaxFind + 1]
        /\ t.key \in [Handle -> {"none", "locked", "ready"}]
    BY DEF Token
  <1>2. /\ u.open = t.open \ H /\ u.issued = t.issued /\ u.tries = t.tries
        /\ u.search = [h \in Handle |-> IF h \in H THEN 0 ELSE t.search[h]]
        /\ u.key = [h \in Handle |-> IF h \in H THEN "none" ELSE t.key[h]]
    BY <1>1 DEF Close
  <1>3. u.user = (t.user /\ t.open \ H # {})
    BY <1>1 DEF Close
  <1>4. /\ u.search \in [Handle -> 0 .. MaxFind + 1]
        /\ u.key \in [Handle -> {"none", "locked", "ready"}]
    BY <1>1, <1>2, FindAssumption
  <1>5. u = [[[[t EXCEPT !.open = u.open] EXCEPT !.user = u.user]
                  EXCEPT !.search = u.search] EXCEPT !.key = u.key]
    BY <1>1, <1>2, <1>3 DEF Close
  <1> HIDE DEF u
  <1>6. u \in Token
    <2>1. [t EXCEPT !.open = u.open] \in Token
      BY <1>1, <1>2 DEF Token
    <2>2. [[t EXCEPT !.open = u.open] EXCEPT !.user = u.user] \in Token
      BY <2>1, <1>1, <1>3 DEF Token
    <2>3. [[[t EXCEPT !.open = u.open] EXCEPT !.user = u.user] EXCEPT !.search = u.search]
             \in Token
      BY <2>2, <1>4 DEF Token
    <2>4. QED
      BY <2>3, <1>4, <1>5 DEF Token
  <1>7. QED
    BY <1>2, <1>3, <1>6 DEF u

\* While an opening has a handle or a session lives, a session of the token is
\* open, and so the login is not lost.
LEMMA CloseGood ==
    ASSUME NEW ph, NEW sy, NEW r, NEW jb, NEW ss, NEW ss2, NEW tk, NEW au, NEW H,
           Good(ph, sy, r, jb, ss, tk, au),
           Typed(ph, sy, r, jb, ss2),
           Sound(ph, sy, r, jb, ss2, tk.open \ H, tk.issued),
           \A s \in Session : ss2[s].life = "live" => ss2[s] = ss[s]
    PROVE  Good(ph, sy, r, jb, ss2, Close(tk, H), au)
  <1> DEFINE u == Close(tk, H)
  <1> USE DEF Good
  <1>1. /\ u \in Token /\ u.open = tk.open \ H /\ u.issued = tk.issued
        /\ u.user <=> tk.user /\ u.open # {}
        /\ \A h \in Handle : /\ u.search[h] \in {0, tk.search[h]}
                             /\ u.key[h] \in {"none", tk.key[h]}
    BY CloseEffect
  <1> HIDE DEF u
  <1>2. Sound(ph, sy, r, jb, ss2, u.open, u.issued)
    BY <1>1
  <1>3. OperationsOK(ph, r, jb, u)
    BY <1>1 DEF OperationsOK
  <1>4. LoginsOK(ph, r, jb, ss2, u, au)
    <2> SUFFICES ASSUME NEW c \in Call, jb[c].lasts,
                        Opener(ph, jb, c) \/ ss2[jb[c].session].life = "live",
                        au # "none"
                 PROVE  u.user
      BY DEF LoginsOK
    <2>1. jb[c].session \in Session
      BY DEF LoginsOK, Sound, JobOK
    <2>2. tk.user
      BY <2>1 DEF LoginsOK
    <2>3. ph[c] = "done" \/ (ph[c] = "completed" /\ r[c] = "OK")
      BY DEF LoginsOK
    <2>4. Opener(ph, jb, c) => jb[c].handle \in u.open
      <3>1. Opener(ph, jb, c) => jb[c].handle # None
        BY <2>3 DEF Sound, OpeningOK, Opener, Busy
      <3>2. QED
        BY <1>2, <3>1 DEF Sound, JobOK
    <2>5. ss2[jb[c].session].life = "live" => ss2[jb[c].session].handle \in u.open
      BY <1>2, <2>1 DEF Sound, SessionOK
    <2>6. QED
      BY <1>1, <2>2, <2>4, <2>5
  <1>5. QED
    BY <1>1, <1>2, <1>3, <1>4 DEF u

LEMMA DisposeGood ==
    ASSUME NEW ph, NEW sy, NEW r, NEW jb, NEW ss, NEW tk, NEW au, NEW s0 \in Session,
           Good(ph, sy, r, jb, ss, tk, au),
           ss[s0].life = "live",
           \A c \in Call : ~(Busy(ph, c) /\ jb[c].session = s0)
    PROVE  Good(ph, sy, r, jb, [ss EXCEPT ![s0] = Gone], Close(tk, {ss[s0].handle}), au)
  <1> DEFINE ss2 == [ss EXCEPT ![s0] = Gone]
  <1>1. Typed(ph, sy, r, jb, ss) /\ Sound(ph, sy, r, jb, ss, tk.open, tk.issued)
    BY DEF Good
  <1>2. Typed(ph, sy, r, jb, ss2)
    BY <1>1, NoneAssumption DEF Typed, Gone, SessionObject
  <1>3. Sound(ph, sy, r, jb, ss2, tk.open \ {ss[s0].handle}, tk.issued)
    BY <1>1, DisposeSound
  <1>4. \A s \in Session : ss2[s].life = "live" => ss2[s] = ss[s]
    BY <1>1 DEF Typed, Gone
  <1> HIDE DEF ss2
  <1>5. Good(ph, sy, r, jb, ss2, Close(tk, {ss[s0].handle}), au)
    BY <1>2, <1>3, <1>4, CloseGood
  <1>6. QED
    BY <1>5 DEF ss2

LEMMA IdleGood ==
    ASSUME NEW ph, NEW sy, NEW r, NEW jb, NEW ss, NEW tk, NEW au, Good(ph, sy, r, jb, ss, tk, au)
    PROVE  Good(ph, sy, r, jb, ss, Close(tk, {}), au)
  <1>1. tk.open \ {} = tk.open
    OBVIOUS
  <1>2. Typed(ph, sy, r, jb, ss) /\ Sound(ph, sy, r, jb, ss, tk.open \ {}, tk.issued)
    BY <1>1 DEF Good
  <1>3. QED
    BY <1>2, CloseGood

-----------------------------------------------------------------------------
(* The report of a completed call.                                         *)

\* The call ends; its session is disposed of later, if at all.
LEMMA EndGood ==
    ASSUME NEW ph, NEW sy, NEW r, NEW jb, NEW ss, NEW tk, NEW au, NEW c \in Call, NEW x \in Rv,
           Good(ph, sy, r, jb, ss, tk, au),
           ph[c] = "completed", x \in {r[c], "CANCELED"}
    PROVE  Good([ph EXCEPT ![c] = "done"], sy, [r EXCEPT ![c] = x], jb,
                IF jb[c].op = "open" THEN [ss EXCEPT ![jb[c].session] = Finish(jb[c], x)]
                ELSE ss, tk, au)
  <1> DEFINE ph2 == [ph EXCEPT ![c] = "done"]
             r2 == [r EXCEPT ![c] = x]
             s0 == jb[c].session
             ss2 == IF jb[c].op = "open" THEN [ss EXCEPT ![s0] = Finish(jb[c], x)] ELSE ss
  <1> USE DEF Good
  <1>1. /\ ph2 \in [Call -> Phase] /\ r2 \in [Call -> Rv]
        /\ ph2[c] = "done" /\ r2[c] = x
        /\ \A d \in Call : d # c => ph2[d] = ph[d] /\ r2[d] = r[d]
        /\ Others(ph, ph2, r, r2, jb, jb, c) /\ Same(jb, jb, c)
    BY DEF Typed, Phase, Others, Same
  <1>2. s0 \in Session /\ Busy(ph, c)
    BY DEF Sound, JobOK, Busy
  <1>3. jb[c].op = "open" /\ x = "OK" => r[c] = "OK" /\ jb[c].handle # None
    BY DEF Sound, OpeningOK
  <1>4. Typed(ph, sy, r, jb, ss) /\ jb[c] \in Job
    BY DEF Typed
  <1>5. Finish(jb[c], x) \in SessionObject
    BY <1>4 DEF Finish, Live, Gone, SessionObject, Job
  <1>6. Typed(ph2, sy, r2, jb, ss)
    BY <1>1 DEF Typed
  <1>7. Typed(ph2, sy, r2, jb, ss2)
    BY <1>2, <1>5, <1>6 DEF Typed
  <1>8. Sound(ph2, sy, r2, jb, ss2, tk.open, tk.issued)
    <2>1. CASE jb[c].op = "open"
      <3>1. Sound(ph2, sy, r2, jb, [ss EXCEPT ![s0] = Finish(jb[c], r2[c])], tk.open, tk.issued)
        <4> HIDE DEF ph2, r2, s0
        <4>1. r2[c] = "OK" => jb[c].handle # None
          BY <1>1, <1>3, <2>1
        <4>2. ph[c] \in {"running", "completed"}
          OBVIOUS
        <4>3. QED
          BY <1>1, <1>4, <1>6, <2>1, <4>1, <4>2, FinishSound DEF s0
      <3>2. QED
        BY <1>1, <2>1, <3>1
    <2>2. CASE jb[c].op # "open"
      <3>1. ph[c] \in {"running", "completed"}
        OBVIOUS
      <3> HIDE DEF ph2, r2
      <3>2. Sound(ph2, sy, r2, jb, ss, tk.open, tk.issued)
        BY <1>1, <1>4, <1>6, <2>2, <3>1, KeepSound
      <3>3. QED
        BY <2>2, <3>2
    <2>3. QED
      BY <2>1, <2>2
  <1>9. AtOK(ph2, jb)
    BY <1>1 DEF AtOK
  <1>10. OperationsOK(ph2, r2, jb, tk)
    <2>1. \A d \in Call : \A ops, h : Owner(ph, r, jb, d, ops, h) => Owner(ph2, r2, jb, d, ops, h)
      BY <1>1 DEF Owner
    <2>2. QED
      BY <2>1 DEF OperationsOK
  <1>11. LoginsOK(ph2, r2, jb, ss2, tk, au)
    <2> SUFFICES ASSUME NEW d \in Call, jb[d].lasts
                 PROVE  /\ ph2[d] = "done" \/ (ph2[d] = "completed" /\ r2[d] = "OK")
                        /\ /\ Opener(ph2, jb, d) \/ ss2[jb[d].session].life = "live"
                           /\ au # "none"
                           => tk.user
      BY DEF LoginsOK
    <2>1. ph2[d] = "done" \/ (ph2[d] = "completed" /\ r2[d] = "OK")
      BY <1>1 DEF LoginsOK
    <2>2. ASSUME Opener(ph2, jb, d) \/ ss2[jb[d].session].life = "live", au # "none"
          PROVE  tk.user
      <3>1. Opener(ph2, jb, d) => Opener(ph, jb, d)
        BY <1>1 DEF Opener, Busy
      <3>2. CASE Opener(ph, jb, d) \/ ss[jb[d].session].life = "live"
        BY <2>2, <3>2 DEF LoginsOK
      <3>3. CASE ~Opener(ph, jb, d) /\ ss[jb[d].session].life # "live"
        <4>1. /\ jb[d].session \in Session /\ ss2[jb[d].session].life = "live"
              /\ ph[d] \in {"done", "completed"}
          BY <2>2, <3>1, <3>3 DEF LoginsOK, Sound, JobOK
        <4>2. jb[c].op = "open" /\ jb[d].session = s0
          BY <3>3, <4>1
        <4>3. Opener(ph, jb, c) /\ ss[s0].life = "opening"
          BY <1>2, <4>2 DEF Opener, Sound, JobOK
        <4>4. ph[d] # "done" /\ ~(Busy(ph, d) /\ jb[d].op # "open")
          BY <4>2, <4>3 DEF Sound, JobOK
        <4>5. QED
          BY <3>3, <4>1, <4>4 DEF Opener, Busy
      <3>4. QED
        BY <3>2, <3>3
    <2>3. QED
      BY <2>1, <2>2
  <1>12. QED
    BY <1>7, <1>8, <1>9, <1>10, <1>11

LEMMA TailOK ==
    ASSUME NEW q \in Seq(Call), q # <<>>, NEW ph, NEW where, QueueOK(q, ph, where)
    PROVE  /\ Tail(q) \in Seq(Call) /\ Head(q) \in Call /\ ph[Head(q)] = where
           /\ \A n \in 1 .. Len(Tail(q)) : Tail(q)[n] # Head(q) /\ ph[Tail(q)[n]] = where
           /\ \A m, n \in 1 .. Len(Tail(q)) : Tail(q)[m] = Tail(q)[n] => m = n
  <1>1. /\ Tail(q) \in Seq(Call) /\ Len(Tail(q)) = Len(q) - 1 /\ Len(q) \in Nat \ {0}
        /\ Head(q) = q[1] /\ Head(q) \in Call
        /\ \A n \in 1 .. Len(Tail(q)) : Tail(q)[n] = q[n + 1]
    OBVIOUS
  <1>2. QED
    BY <1>1 DEF QueueOK

LEMMA AppendOK ==
    ASSUME NEW q \in Seq(Call), NEW ph, NEW ph2, NEW where, QueueOK(q, ph, where),
           NEW c \in Call, ph[c] # where, ph2[c] = where,
           \A d \in Call : d # c => ph2[d] = ph[d]
    PROVE  Append(q, c) \in Seq(Call) /\ QueueOK(Append(q, c), ph2, where)
  <1>1. /\ Append(q, c) \in Seq(Call) /\ Len(Append(q, c)) = Len(q) + 1 /\ Len(q) \in Nat
        /\ Append(q, c)[Len(q) + 1] = c
        /\ \A n \in 1 .. Len(q) : Append(q, c)[n] = q[n] /\ q[n] \in Call
    OBVIOUS
  <1>2. \A n \in 1 .. Len(q) : q[n] # c
    BY DEF QueueOK
  <1>3. QED
    BY <1>1, <1>2 DEF QueueOK

PhaseReported == Reported(phase, [c \in Call |-> "done"])
RvReported == Reported(rv, [c \in Call |-> Result(c)])
CompletedReported == IF completed = <<>> THEN <<>> ELSE Tail(completed)

LEMMA ReportGood ==
    ASSUME IInv
    PROVE  /\ Good(PhaseReported, sync, RvReported, job, SessReported, TokenReported, auth)
           /\ CompletedReported \in Seq(Call)
           /\ QueueOK(CompletedReported, PhaseReported, "completed")
           /\ QueueOK(pool, PhaseReported, "pooled")
           /\ \A c \in Call :
                 /\ PhaseReported[c] # phase[c] =>
                       phase[c] = "completed" /\ PhaseReported[c] = "done"
                 /\ c \in Popped => phase[c] = "completed"
           /\ \A s \in Session : sess[s].life = "unborn" \/ sess[s].held =>
                 SessReported[s] = sess[s]
  <1> DEFINE x == Head(completed)
             ph1 == [phase EXCEPT ![x] = "done"]
             r1 == [rv EXCEPT ![x] = Result(x)]
             s0 == job[x].session
             mid == IF job[x].op = "open" THEN [sess EXCEPT ![s0] = Finish(job[x], r1[x])]
                    ELSE sess
  <1>1. Typed(phase, sync, rv, job, sess)
    BY DEF IInv, Good
  <1>2. CASE completed = <<>>
    <2>1. Popped = {} /\ PhaseReported = phase /\ RvReported = rv
      BY <1>1, <1>2 DEF Popped, PhaseReported, RvReported, Reported, Typed
    <2>2. CompletedReported = completed /\ SessReported = sess /\ TokenReported = token
      BY <1>2 DEF CompletedReported, SessReported, TokenReported
    <2>3. QED
      BY <2>1, <2>2 DEF IInv
  <1>3. CASE completed # <<>>
    <2>1. /\ x \in Call /\ phase[x] = "completed" /\ Tail(completed) \in Seq(Call)
          /\ \A n \in 1 .. Len(Tail(completed)) :
                Tail(completed)[n] # x /\ phase[Tail(completed)[n]] = "completed"
          /\ \A m, n \in 1 .. Len(Tail(completed)) :
                Tail(completed)[m] = Tail(completed)[n] => m = n
      BY <1>3, TailOK DEF IInv
    <2>2. Popped = {x} /\ CompletedReported = Tail(completed)
      BY <1>3 DEF Popped, CompletedReported
    <2>3. PhaseReported = ph1 /\ RvReported = r1
      BY <1>1, <2>1, <2>2 DEF PhaseReported, RvReported, Reported, Typed
    <2>4. SessReported = Concluded(x, Result(x)) /\ TokenReported = Close(token, Disposed(x))
      BY <1>3 DEF SessReported, TokenReported
    <2>5. /\ ph1[x] = "done" /\ r1[x] = Result(x)
          /\ \A c \in Call : c # x => ph1[c] = phase[c]
      BY <1>1, <2>1 DEF Typed
    <2>6. CompletedReported \in Seq(Call) /\ QueueOK(CompletedReported, PhaseReported, "completed")
      <3>1. \A n \in 1 .. Len(Tail(completed)) : Tail(completed)[n] \in Call
        BY <2>1
      <3>2. QED
        BY <2>1, <2>2, <2>3, <2>5, <3>1 DEF QueueOK
    <2>7. QueueOK(pool, PhaseReported, "pooled")
      <3>1. \A n \in 1 .. Len(pool) : pool[n] \in Call /\ phase[pool[n]] = "pooled"
        BY DEF IInv, QueueOK
      <3>2. \A n \in 1 .. Len(pool) : pool[n] # x
        BY <2>1, <3>1
      <3>3. QED
        BY <2>3, <2>5, <3>1, <3>2 DEF IInv, QueueOK
    <2>8. Result(x) \in Rv /\ Result(x) \in {rv[x], "CANCELED"}
      BY <1>1, <2>1, RvAssumption DEF Result, Typed
    <2>9. Good(ph1, sync, r1, job, mid, token, auth)
      <3>1. Good(phase, sync, rv, job, sess, token, auth)
        BY DEF IInv
      <3>2. Good(ph1, sync, r1, job,
                 IF job[x].op = "open" THEN [sess EXCEPT ![s0] = Finish(job[x], Result(x))]
                 ELSE sess, token, auth)
        BY <2>1, <2>8, <3>1, EndGood
      <3>3. QED
        BY <2>5, <3>2
    <2>10. s0 \in Session /\ Busy(phase, x)
      BY <2>1 DEF IInv, Good, Sound, JobOK, Busy
    <2>11. /\ Good(PhaseReported, sync, RvReported, job, SessReported, TokenReported, auth)
           /\ \A s \in Session : sess[s].life = "unborn" \/ sess[s].held =>
                 SessReported[s] = sess[s]
      <3>1. CASE job[x].op = "open"
        <4>1. Disposed(x) = {} /\ SessReported = mid
          BY <2>4, <2>5, <3>1 DEF Disposed, Concluded
        <4>2. Good(ph1, sync, r1, job, mid, TokenReported, auth)
          BY <2>4, <2>9, <4>1, IdleGood
        <4>3. sess[s0].life = "opening"
          BY <2>1, <2>10, <3>1 DEF IInv, Good, Sound, JobOK, Opener
        <4>4. ~sess[s0].held
          BY <2>10, <4>3 DEF IInv, Good, Sound, SessionOK
        <4>5. \A s \in Session : s # s0 => mid[s] = sess[s]
          OBVIOUS
        <4>6. QED
          BY <2>3, <4>1, <4>2, <4>3, <4>4, <4>5
      <3>2. CASE job[x].op # "open" /\ Unreferenced(s0, x)
        <4>1. /\ SessReported = [sess EXCEPT ![s0] = Gone] /\ mid = sess
              /\ TokenReported = Close(token, {sess[s0].handle})
          BY <2>4, <3>2 DEF Concluded, Disposed
        <4>2. sess[s0].life = "live" /\ ~sess[s0].held
          BY <3>2 DEF Unreferenced
        <4>3. \A c \in Call : ~(Busy(ph1, c) /\ job[c].session = s0)
          BY <2>5, <3>2 DEF Unreferenced, Users, Pending, Busy
        <4>4. Good(ph1, sync, r1, job, sess, token, auth)
          BY <2>9, <4>1
        <4> HIDE DEF ph1, r1
        <4>5. Good(ph1, sync, r1, job, [sess EXCEPT ![s0] = Gone],
                   Close(token, {sess[s0].handle}), auth)
          BY <2>10, <4>2, <4>3, <4>4, DisposeGood
        <4>6. \A s \in Session : s # s0 => [sess EXCEPT ![s0] = Gone][s] = sess[s]
          BY <1>1 DEF Typed
        <4>7. QED
          BY <2>3, <4>1, <4>2, <4>5, <4>6
      <3>3. CASE job[x].op # "open" /\ ~Unreferenced(s0, x)
        <4>1. Disposed(x) = {} /\ SessReported = sess /\ mid = sess
          BY <1>1, <2>4, <3>3 DEF Disposed, Concluded, Typed
        <4>2. Good(ph1, sync, r1, job, mid, TokenReported, auth)
          BY <2>4, <2>9, <4>1, IdleGood
        <4>3. QED
          BY <2>3, <4>1, <4>2
      <3>4. QED
        BY <3>1, <3>2, <3>3
    <2>12. QED
      BY <2>1, <2>2, <2>3, <2>5, <2>6, <2>7, <2>11
  <1>4. QED
    BY <1>2, <1>3

-----------------------------------------------------------------------------
(* The program makes a call.                                               *)

\* A job of a call that has not run, on a session that lives or that it opens.
FreshJob(j) ==
    /\ j \in Job /\ j.session \in Session
    /\ ~j.sent /\ ~j.lasts
    /\ j.op \in Op
    /\ j.op = "open" => j.at = "open" /\ j.handle = None
    /\ j.op # "open" => j.at = Start(j.op)

LEMMA StartAt ==
    ASSUME NEW op \in SessionOp
    PROVE  /\ Start(op) \in At \ {"none", "open"}
           /\ Start(op) \in FindAt => op = "find"
           /\ Start(op) \in KeyAt => op \in KeyOp
           /\ Start(op) \in TokenAt => op \in {"interactive", "login"}
           /\ Start(op) = "logout" => op = "logout"
           /\ Start(op) \notin {"token_login", "key_login"}
  BY DEF SessionOp, KeyOp, Start, At, FindAt, KeyAt, TokenAt

\* What the program makes: call c with job j, which has come as far as w.
Added(ph, ph2, jb, jb2, ss, ss2, c, j, w) ==
    /\ ph[c] = "new" /\ FreshJob(j)
    /\ Update(ph, ph2, Call, c, w) /\ Update(jb, jb2, Call, c, j)
    /\ j.op = "open" =>
          /\ ss[j.session].life = "unborn"
          /\ Update(ss, ss2, Session, j.session, IF w = "done" THEN Gone ELSE Opening)
    /\ j.op # "open" =>
          /\ ss[j.session].held /\ j.handle = ss[j.session].handle
          /\ ss2 = ss

ResultsKept(r, r2, c) == \A d \in Call : d # c => r2[d] = r[d]

LEMMA AddGood ==
    ASSUME NEW ph, NEW ph2, NEW sy, NEW sy2, NEW r, NEW r2, NEW jb, NEW jb2, NEW ss, NEW ss2,
           NEW tk, NEW au, NEW c, NEW j, NEW w,
           c \in Call, w \in {"pooled", "running", "done"},
           Good(ph, sy, r, jb, ss, tk, au), Typed(ph2, sy2, r2, jb2, ss2),
           SyncKept(sy, sy2, c), ResultsKept(r, r2, c),
           Added(ph, ph2, jb, jb2, ss, ss2, c, j, w)
    PROVE  Good(ph2, sy2, r2, jb2, ss2, tk, au)
  <1> DEFINE new == IF w = "done" THEN Gone ELSE Opening
  <1> USE DEF Good, Added, ResultsKept
  <1>1. /\ ph2[c] = w /\ jb2[c] = j
        /\ \A d \in Call : d # c => ph2[d] = ph[d] /\ jb2[d] = jb[d]
    BY DEF Update
  <1>2. new.life \in {"opening", "gone"} /\ j.session \in Session
    BY DEF Opening, Gone, FreshJob
  <1>3. Typed(ph, sy, r, jb, ss) /\ Typed(ph2, sy2, r2, jb2, ss2)
    OBVIOUS
  <1>4. Others(ph, ph2, r, r2, jb, jb2, c)
    BY <1>1 DEF Others, Same
  <1>5. \A s \in Session : ss2[s].life = "live" => ss2[s] = ss[s]
    BY <1>2 DEF Update
  <1>6. j.op # "open" => j.op \in SessionOp
    BY DEF FreshJob, Op
  <1>7. j.at # "none" /\ (j.at = "open" => j.op = "open")
    BY <1>6, StartAt DEF FreshJob
  <1>8. Sound(ph2, sy2, r2, jb2, ss2, tk.open, tk.issued)
    <2>1. CASE j.op = "open"
      <3>1. /\ jb2[c].handle = None /\ jb2[c].at = "open" /\ jb2[c].op = "open"
            /\ jb2[c].session \in Session /\ ss[jb2[c].session].life = "unborn"
            /\ ph2[c] \in {"pooled", "running", "done"}
        BY <1>1, <1>2, <2>1 DEF FreshJob
      <3>2. /\ Update(ss, ss2, Session, jb2[c].session,
                      IF ph2[c] = "done" THEN Gone ELSE Opening)
            /\ Sound(ph, sy, r, jb, ss, tk.open, tk.issued)
        BY <1>1, <2>1
      <3>3. QED
        BY <1>3, <1>4, <3>1, <3>2, AddOpenSound
    <2>2. CASE j.op # "open"
      <3>1. /\ jb2[c].op \in SessionOp /\ jb2[c].session \in Session
            /\ ss[jb2[c].session].held /\ jb2[c].handle = ss[jb2[c].session].handle
            /\ jb2[c].at # "open" /\ ph2[c] # "new"
        BY <1>1, <1>2, <1>6, <1>7, <2>2
      <3>2. Typed(ph2, sy2, r2, jb2, ss) /\ Sound(ph, sy, r, jb, ss, tk.open, tk.issued)
        BY <1>3, <2>2
      <3>3. Sound(ph2, sy2, r2, jb2, ss, tk.open, tk.issued)
        BY <1>3, <1>4, <3>1, <3>2, AddSound
      <3>4. QED
        BY <2>2, <3>3
    <2>3. QED
      BY <2>1, <2>2
  <1>9. AtOK(ph2, jb2)
    <2>1. /\ j.at \in FindAt => j.op = "find"
          /\ j.at \in KeyAt => j.op \in KeyOp
          /\ j.at \in TokenAt => j.op \in {"open", "interactive", "login"}
          /\ j.at = "logout" => j.op = "logout"
      BY <1>6, StartAt DEF FreshJob, FindAt, KeyAt
    <2>2. QED
      BY <1>1, <1>7, <2>1 DEF AtOK
  <1>10. PinsOK(jb2, au)
    <2>1. ~j.sent
      BY DEF FreshJob
    <2>2. QED
      BY <1>1, <2>1 DEF PinsOK
  <1>11. OperationsOK(ph2, r2, jb2, tk)
    <2>1. jb[c].op = "none"
      BY DEF Sound, JobOK
    <2>2. \A d \in Call : \A h :
          /\ Owner(ph, r, jb, d, {"find"}, h) => Owner(ph2, r2, jb2, d, {"find"}, h)
          /\ Owner(ph, r, jb, d, KeyOp, h) => Owner(ph2, r2, jb2, d, KeyOp, h)
      BY <1>1, <2>1 DEF Owner, KeyOp
    <2>3. QED
      BY <2>2 DEF OperationsOK
  <1>12. LoginsOK(ph2, r2, jb2, ss2, tk, au)
    <2> SUFFICES ASSUME NEW d \in Call, jb2[d].lasts
                 PROVE  /\ ph2[d] = "done" \/ (ph2[d] = "completed" /\ r2[d] = "OK")
                        /\ /\ Opener(ph2, jb2, d) \/ ss2[jb2[d].session].life = "live"
                           /\ au # "none"
                           => tk.user
      BY DEF LoginsOK
    <2>1. d # c /\ jb[d].lasts /\ jb2[d] = jb[d]
      BY <1>1 DEF FreshJob
    <2>2. ph2[d] = "done" \/ (ph2[d] = "completed" /\ r2[d] = "OK")
      BY <1>1, <2>1 DEF LoginsOK
    <2>3. jb[d].session \in Session
      BY <1>1, <2>1, <2>2 DEF Sound, JobOK
    <2>4. Opener(ph2, jb2, d) => Opener(ph, jb, d)
      BY <1>1, <2>1 DEF Opener, Busy
    <2>5. QED
      BY <1>5, <2>1, <2>2, <2>3, <2>4 DEF LoginsOK
  <1>13. QED
    BY <1>3, <1>8, <1>9, <1>10, <1>11, <1>12

LEMMA NoJobTyped == NoJob \in Job
  BY DEF NoJob, Job, At

\* The job of an operation, or of an opening.
LEMMA JobOnFresh ==
    ASSUME IInv, NEW s \in Session, NEW op \in SessionOp, NEW needs \in BOOLEAN
    PROVE  /\ FreshJob(JobOn(s, op, needs))
           /\ JobOn(s, op, needs).op # "open"
           /\ JobOn(s, op, needs).session = s
           /\ JobOn(s, op, needs).handle = sess[s].handle
  <1>1. sess[s].handle \in Handle \union {None}
    BY DEF IInv, Good, Typed, SessionObject
  <1>2. Start(op) \in At
    BY StartAt
  <1>3. NoJob \in Job
    BY NoJobTyped
  <1>4. op \in Op /\ op # "open"
    BY DEF Op, SessionOp, KeyOp
  <1> DEFINE j == JobOn(s, op, needs)
  <1>5. /\ j.op = op /\ j.session = s /\ j.handle = sess[s].handle /\ j.at = Start(op)
        /\ ~j.sent /\ ~j.lasts
    BY DEF JobOn, NoJob
  <1>6. j \in Job
    BY <1>1, <1>2, <1>3, <1>4 DEF JobOn, Job
  <1> HIDE DEF j
  <1>7. QED
    BY <1>4, <1>5, <1>6 DEF FreshJob, j

OpeningJob(s, login) ==
    [NoJob EXCEPT !.op = "open", !.session = s, !.authenticate = login, !.at = "open"]

LEMMA OpeningFresh ==
    ASSUME NEW s \in Session, NEW login \in BOOLEAN
    PROVE  /\ FreshJob(OpeningJob(s, login))
           /\ OpeningJob(s, login).op = "open"
           /\ OpeningJob(s, login).session = s
  <1> DEFINE j == OpeningJob(s, login)
  <1>1. /\ j.op = "open" /\ j.session = s /\ j.handle = None /\ j.at = "open"
        /\ ~j.sent /\ ~j.lasts
    BY DEF OpeningJob, NoJob
  <1>2. j \in Job
    BY NoJobTyped DEF OpeningJob, Job, Op, At
  <1> HIDE DEF j
  <1>3. QED
    BY <1>1, <1>2 DEF FreshJob, Op, j

\* A call that goes to the pool.
LEMMA GoStep ==
    ASSUME IInv, NEW c \in Call, NEW j, FreshJob(j), Go(c),
           job' = [job EXCEPT ![c] = j],
           j.op = "open" => sess[j.session].life = "unborn",
           j.op # "open" => sess[j.session].held /\ j.handle = sess[j.session].handle,
           sess' = IF j.op = "open" THEN [SessReported EXCEPT ![j.session] = Opening]
                   ELSE SessReported,
           token' = TokenReported, auth' = auth
    PROVE  IInv'
  <1>1. /\ Good(PhaseReported, sync, RvReported, job, SessReported, TokenReported, auth)
        /\ CompletedReported \in Seq(Call)
        /\ QueueOK(CompletedReported, PhaseReported, "completed")
        /\ QueueOK(pool, PhaseReported, "pooled")
        /\ \A d \in Call : /\ PhaseReported[d] # phase[d] =>
                                 phase[d] = "completed" /\ PhaseReported[d] = "done"
                           /\ d \in Popped => phase[d] = "completed"
        /\ \A s \in Session : sess[s].life = "unborn" \/ sess[s].held =>
              SessReported[s] = sess[s]
    BY ReportGood
  <1>2. phase[c] = "new" /\ PhaseReported[c] = "new" /\ c \notin Popped
    BY <1>1 DEF Go
  <1>3. /\ PhaseReported \in [Call -> Phase] /\ RvReported \in [Call -> Rv]
    BY <1>1 DEF Good, Typed
  <1>4. /\ phase' = [PhaseReported EXCEPT ![c] = "pooled"]
        /\ rv' = RvReported /\ completed' = CompletedReported
        /\ pool' = Append(pool, c) /\ sync' = sync /\ cancelled' = cancelled
    <2>1. phase' = Reported([phase EXCEPT ![c] = "pooled"], [d \in Call |-> "done"])
      BY DEF Go, ProcessCompleted
    <2>2. phase \in [Call -> Phase]
      BY DEF IInv, Good, Typed
    <2>3. phase' = [PhaseReported EXCEPT ![c] = "pooled"]
      BY <1>2, <2>1, <2>2 DEF Reported, PhaseReported
    <2>4. QED
      BY <2>3 DEF Go, ProcessCompleted, RvReported, CompletedReported
  <1>5. /\ phase'[c] = "pooled"
        /\ \A d \in Call : d # c => phase'[d] = PhaseReported[d]
    BY <1>3, <1>4
  <1>6. pool' \in Seq(Call) /\ QueueOK(pool', phase', "pooled")
    <2>1. pool \in Seq(Call) /\ PhaseReported[c] # "pooled"
      BY <1>2 DEF IInv
    <2> DEFINE where == "pooled"
    <2>2. QueueOK(pool, PhaseReported, where) /\ PhaseReported[c] # where /\ phase'[c] = where
      BY <1>1, <1>5, <2>1
    <2> HIDE DEF where
    <2>3. Append(pool, c) \in Seq(Call) /\ QueueOK(Append(pool, c), phase', where)
      BY <1>5, <2>1, <2>2, AppendOK
    <2>4. QED
      BY <1>4, <2>3 DEF where
  <1>7. completed' \in Seq(Call) /\ QueueOK(completed', phase', "completed")
    <2>1. \A n \in 1 .. Len(CompletedReported) :
             CompletedReported[n] \in Call /\ CompletedReported[n] # c
      BY <1>1, <1>2 DEF QueueOK
    <2>2. QED
      BY <1>1, <1>4, <1>5, <2>1 DEF QueueOK
  <1>8. Good(phase', sync', rv', job', sess', token', auth')
    <2>1. j.session \in Session
      BY DEF FreshJob
    <2>2. /\ j.op = "open" => SessReported[j.session].life = "unborn"
          /\ j.op # "open" => /\ SessReported[j.session].held
                              /\ j.handle = SessReported[j.session].handle
      BY <1>1, <2>1
    <2>3. SyncKept(sync, sync, c) /\ ResultsKept(RvReported, RvReported, c)
      BY DEF SyncKept, ResultsKept
    <2>4. Typed(PhaseReported, sync, RvReported, job, SessReported) /\ j \in Job
          /\ Opening \in SessionObject
      BY <1>1, NoneAssumption DEF Good, FreshJob, Opening, SessionObject
    <2>5. Update(job, job', Call, c, j)
      BY <2>4 DEF Update, Typed
    <2>6. j.op = "open" => Update(SessReported, sess', Session, j.session, Opening)
      BY <2>1, <2>4 DEF Update, Typed
    <2>7. j.op # "open" => sess' = SessReported
      OBVIOUS
    <2>8. Typed(phase', sync, RvReported, job', sess')
      BY <1>4, <2>1, <2>4 DEF Typed, Phase
    <2> DEFINE w == "pooled"
    <2>9. /\ w \in {"pooled", "running", "done"}
          /\ Update(PhaseReported, phase', Call, c, w)
          /\ j.op = "open" =>
                /\ SessReported[j.session].life = "unborn"
                /\ Update(SessReported, sess', Session, j.session,
                          IF w = "done" THEN Gone ELSE Opening)
      BY <1>5, <2>2, <2>6 DEF Update
    <2> HIDE DEF w
    <2>10. Good(phase', sync, RvReported, job', sess', TokenReported, auth)
      <3>1. Good(PhaseReported, sync, RvReported, job, SessReported, TokenReported, auth)
        BY <1>1, <1>2
      <3>2. Added(PhaseReported, phase', job, job', SessReported, sess', c, j, w)
        BY <1>1, <1>2, <2>2, <2>5, <2>7, <2>9 DEF Added
      <3>3. QED
        BY <2>3, <2>8, <2>9, <3>1, <3>2, AddGood
    <2>11. QED
      BY <1>4, <2>10
  <1>9. cancelled' \in SUBSET Call /\ auth' \in Auth
    BY <1>4 DEF IInv
  <1>10. QED
    BY <1>6, <1>7, <1>8, <1>9 DEF IInv

\* A call in the thread of its caller.
LEMMA GoSyncStep ==
    ASSUME IInv, NEW c \in Call, NEW j, FreshJob(j), GoSync(c),
           job' = [job EXCEPT ![c] = j],
           j.op = "open" =>
              /\ sess[j.session].life = "unborn"
              /\ sess' = [sess EXCEPT ![j.session] = IF c \in cancelled THEN Gone ELSE Opening],
           j.op # "open" =>
              /\ sess[j.session].held /\ j.handle = sess[j.session].handle
              /\ sess' = sess,
           token' = token, auth' = auth
    PROVE  IInv'
  <1> DEFINE w == IF c \in cancelled THEN "done" ELSE "running"
  <1>1. /\ Good(phase, sync, rv, job, sess, token, auth)
        /\ Typed(phase, sync, rv, job, sess) /\ phase[c] = "new"
        /\ j \in Job /\ j.session \in Session
    BY DEF IInv, Good, GoSync, FreshJob
  <1>2. /\ phase' = [phase EXCEPT ![c] = w]
        /\ rv' \in [Call -> Rv] /\ \A d \in Call : d # c => rv'[d] = rv[d]
        /\ sync' = sync \union {c}
        /\ cancelled' = cancelled /\ pool' = pool /\ completed' = completed
    BY <1>1, RvAssumption DEF GoSync, Typed
  <1>3. w \in {"pooled", "running", "done"} /\ (w = "done" <=> c \in cancelled)
    OBVIOUS
  <1> HIDE DEF w
  <1>4. Update(phase, phase', Call, c, w) /\ Update(job, job', Call, c, j)
    BY <1>1, <1>2 DEF Update, Typed
  <1>5. /\ j.op = "open" =>
              /\ sess[j.session].life = "unborn"
              /\ Update(sess, sess', Session, j.session, IF w = "done" THEN Gone ELSE Opening)
        /\ j.op # "open" =>
              /\ sess[j.session].held /\ j.handle = sess[j.session].handle
              /\ sess' = sess
    BY <1>1, <1>3 DEF Update, Typed
  <1>6. Typed(phase', sync', rv', job', sess')
    <2>1. Opening \in SessionObject /\ Gone \in SessionObject
      BY NoneAssumption DEF Opening, Gone, SessionObject
    <2>2. sess' \in [Session -> SessionObject]
      BY <1>1, <2>1 DEF Typed
    <2>3. QED
      BY <1>1, <1>2, <1>3, <2>2 DEF Typed, Phase
  <1>7. Good(phase', sync', rv', job', sess', token', auth')
    <2>1. Good(phase', sync', rv', job', sess', token, auth)
      <3>1. SyncKept(sync, sync', c) /\ ResultsKept(rv, rv', c)
        BY <1>2 DEF SyncKept, ResultsKept
      <3>2. Added(phase, phase', job, job', sess, sess', c, j, w)
        BY <1>1, <1>4, <1>5 DEF Added
      <3>3. QED
        BY <1>1, <1>3, <1>6, <3>1, <3>2, AddGood
    <2>2. QED
      BY <2>1
  <1>8. QueueOK(pool', phase', "pooled") /\ QueueOK(completed', phase', "completed")
    <2>1. /\ \A n \in 1 .. Len(pool) : pool[n] \in Call /\ phase[pool[n]] = "pooled"
          /\ \A n \in 1 .. Len(completed) :
                completed[n] \in Call /\ phase[completed[n]] = "completed"
      BY DEF IInv, QueueOK
    <2>2. /\ \A n \in 1 .. Len(pool) : phase'[pool[n]] = "pooled"
          /\ \A n \in 1 .. Len(completed) : phase'[completed[n]] = "completed"
      BY <1>1, <1>4, <2>1 DEF Update
    <2>3. QED
      BY <1>2, <2>2 DEF IInv, QueueOK
  <1>9. QED
    BY <1>2, <1>7, <1>8 DEF IInv

LEMMA OpenStep ==
    ASSUME IInv, NEW c \in Call, NEW s \in Session, NEW login \in BOOLEAN,
           OpenAsync(c, s, login) \/ OpenSync(c, s, login), auth' = auth
    PROVE  IInv'
  <1> DEFINE j == OpeningJob(s, login)
  <1>1. FreshJob(j) /\ j.op = "open" /\ j.session = s
    BY OpeningFresh
  <1>2. CASE OpenAsync(c, s, login)
    <2>1. /\ Go(c) /\ job' = [job EXCEPT ![c] = j] /\ sess[s].life = "unborn"
          /\ sess' = [SessReported EXCEPT ![s] = Opening] /\ token' = TokenReported
      BY <1>2 DEF OpenAsync, OpeningJob
    <2> HIDE DEF j
    <2>2. sess' = IF j.op = "open" THEN [SessReported EXCEPT ![j.session] = Opening]
                  ELSE SessReported
      BY <1>1, <2>1
    <2>3. QED
      BY <1>1, <2>1, <2>2, GoStep
  <1>3. CASE OpenSync(c, s, login)
    <2>1. /\ GoSync(c) /\ job' = [job EXCEPT ![c] = j] /\ sess[s].life = "unborn"
          /\ sess' = [sess EXCEPT ![s] = IF c \in cancelled THEN Gone ELSE Opening]
          /\ token' = token
      BY <1>3 DEF OpenSync, OpeningJob
    <2> HIDE DEF j
    <2>2. QED
      BY <1>1, <2>1, GoSyncStep
  <1>4. QED
    BY <1>2, <1>3

LEMMA CallStep ==
    ASSUME IInv, NEW c \in Call, NEW s \in Session, NEW op \in SessionOp, NEW needs \in BOOLEAN,
           CallAsync(c, s, op, needs) \/ CallSync(c, s, op, needs), auth' = auth
    PROVE  IInv'
  <1> DEFINE j == JobOn(s, op, needs)
  <1>1. FreshJob(j) /\ j.op # "open" /\ j.session = s /\ j.handle = sess[s].handle
    BY JobOnFresh
  <1>2. CASE CallAsync(c, s, op, needs)
    <2>1. /\ Go(c) /\ job' = [job EXCEPT ![c] = j] /\ sess[s].held
          /\ sess' = SessReported /\ token' = TokenReported
      BY <1>2 DEF CallAsync
    <2> HIDE DEF j
    <2>2. sess' = IF j.op = "open" THEN [SessReported EXCEPT ![j.session] = Opening]
                  ELSE SessReported
      BY <1>1, <2>1
    <2>3. QED
      BY <1>1, <2>1, <2>2, GoStep
  <1>3. CASE CallSync(c, s, op, needs)
    <2>1. GoSync(c) /\ job' = [job EXCEPT ![c] = j] /\ sess[s].held /\ sess' = sess
          /\ token' = token
      BY <1>3 DEF CallSync
    <2> HIDE DEF j
    <2>2. QED
      BY <1>1, <2>1, GoSyncStep
  <1>4. QED
    BY <1>2, <1>3

LEMMA ReportStep ==
    ASSUME IInv, Reports, auth' = auth
    PROVE  IInv'
  <1>1. /\ phase' = PhaseReported /\ rv' = RvReported /\ completed' = CompletedReported
        /\ sync' = sync /\ cancelled' = cancelled /\ pool' = pool
        /\ job' = job /\ sess' = SessReported /\ token' = TokenReported
    BY DEF Reports, Dispatch, ProcessCompleted, PhaseReported, RvReported, CompletedReported
  <1>2. /\ Good(PhaseReported, sync, RvReported, job, SessReported, TokenReported, auth)
        /\ CompletedReported \in Seq(Call)
        /\ QueueOK(CompletedReported, PhaseReported, "completed")
        /\ QueueOK(pool, PhaseReported, "pooled")
    BY ReportGood
  <1>3. QED
    BY <1>1, <1>2 DEF IInv

LEMMA ReleaseStep ==
    ASSUME IInv, NEW s \in Session, Release(s), auth' = auth
    PROVE  IInv'
  <1>1. /\ Good(phase, sync, rv, job, sess, token, auth)
        /\ sess[s].life = "live"
    BY DEF IInv, Good, Sound, SessionOK, Release
  <1>2. Good(phase, sync, rv, job, sess', token', auth)
    <2>1. CASE Users(s, None) = {}
      <3>1. \A c \in Call : ~(Busy(phase, c) /\ job[c].session = s)
        BY <2>1, NoneAssumption DEF Users, Pending, Busy
      <3>2. sess' = [sess EXCEPT ![s] = Gone] /\ token' = Close(token, {sess[s].handle})
        BY <2>1 DEF Release
      <3>3. Good(phase, sync, rv, job, [sess EXCEPT ![s] = Gone],
                 Close(token, {sess[s].handle}), auth)
        BY <1>1, <3>1, DisposeGood
      <3>4. QED
        BY <3>2, <3>3
    <2>2. CASE Users(s, None) # {}
      <3>1. sess' = [sess EXCEPT ![s].held = FALSE] /\ token' = token
        BY <2>2 DEF Release
      <3>2. \A c \in sync : ~(Busy(phase, c) /\ job[c].session = s)
        BY DEF Release, Pending, Busy
      <3>3. Typed(phase, sync, rv, job, sess)
            /\ Sound(phase, sync, rv, job, sess, token.open, token.issued)
        BY <1>1 DEF Good
      <3>4. Sound(phase, sync, rv, job, sess', token.open, token.issued)
        BY <3>1, <3>2, <3>3, DropSound
      <3>5. /\ sess' \in [Session -> SessionObject]
            /\ \A t \in Session : sess'[t].life = sess[t].life
        BY <3>1, <3>3 DEF Typed, SessionObject
      <3>6. LoginsOK(phase, rv, job, sess', token, auth)
        <4>1. \A c \in Call : job[c].lasts => job[c].session \in Session
          BY <1>1 DEF Good, LoginsOK, Sound, JobOK
        <4>2. QED
          BY <1>1, <3>5, <4>1 DEF Good, LoginsOK
      <3>7. QED
        BY <1>1, <3>1, <3>4, <3>5, <3>6 DEF Good, Typed
    <2>3. QED
      BY <2>1, <2>2
  <1>3. QED
    BY <1>2 DEF IInv, Release, callVars

LEMMA CancelStep ==
    ASSUME IInv, NEW c \in Call, Cancels(c), auth' = auth
    PROVE  IInv'
  <1>1. /\ phase' = phase /\ sync' = sync /\ rv' = rv /\ pool' = pool /\ completed' = completed
        /\ job' = job /\ sess' = sess /\ token' = token /\ cancelled' = cancelled \union {c}
    BY DEF Cancels, Cancel
  <1>2. QED
    BY <1>1 DEF IInv

-----------------------------------------------------------------------------
(* The functions of the calls.                                             *)

\* What one step of the function of c may do: its job becomes j and the token t,
\* and the function either goes on or returns r.
HandleEffect(c, j, t, leaves, r) ==
    \/ /\ job[c].at # "open" \/ (leaves /\ r # "OK")
       /\ j.handle = job[c].handle
       /\ t.open = token.open /\ t.issued = token.issued
    \/ /\ job[c].at = "open"
       /\ j.handle \in Handle \ token.issued
       /\ t.open = token.open \union {j.handle}
       /\ t.issued = token.issued \union {j.handle}

AtEffect(c, j) ==
    /\ j.at \notin {"none", "open"}
    /\ j.at \in FindAt => j.op = "find"
    /\ j.at \in KeyAt => j.op \in KeyOp
    /\ j.at \in TokenAt => j.op \in {"open", "interactive", "login"}
    /\ j.at = "logout" => j.op = "logout"
    /\ j.at \in {"token_login", "key_login"} => ~j.sent
    /\ auth = "pad" => ~j.sent
    /\ ~j.lasts

LoginEffect(j, t, leaves, r) ==
    /\ token.user => t.user
    /\ leaves /\ r = "OK" /\ LoginOp(j) /\ auth # "none" => t.user

OperationEffect(j, t, leaves, r) ==
    /\ \A h \in Handle :
          /\ (j.op = "find" /\ h = j.handle) \/ t.search[h] = token.search[h]
          /\ (j.op \in KeyOp /\ h = j.handle) \/ t.key[h] = token.key[h]
    /\ leaves /\ r = "OK" /\ j.op = "find" => t.search[j.handle] = 0
    /\ leaves /\ r = "OK" /\ j.op \in KeyOp => t.key[j.handle] = "none"

Effect(c, j, t, leaves, r) ==
    /\ j \in Job /\ t \in Token /\ r \in Rv
    /\ j.op = job[c].op /\ j.session = job[c].session
    /\ HandleEffect(c, j, t, leaves, r)
    /\ ~leaves => AtEffect(c, j)
    /\ LoginEffect(j, t, leaves, r)
    /\ OperationEffect(j, t, leaves, r)

Performed(c) ==
    \E j, t :
        \/ Continue(c, j, t) /\ Effect(c, j, t, FALSE, "OK")
        \/ \E r : Leave(c, j, r, t) /\ Effect(c, j, t, TRUE, r)

\* The token after a step that is about a search or a key operation.
LEMMA SearchEffect ==
    ASSUME NEW t \in Token, NEW h \in Handle, NEW n \in 0 .. MaxFind + 1, NEW u,
           u = [t EXCEPT !.search[h] = n]
    PROVE  /\ u \in Token
           /\ u.open = t.open /\ u.issued = t.issued /\ u.user = t.user /\ u.key = t.key
           /\ u.search[h] = n
           /\ \A g \in Handle : g # h => u.search[g] = t.search[g]
  BY DEF Token

LEMMA KeyEffect ==
    ASSUME NEW t \in Token, NEW h \in Handle, NEW k \in {"none", "locked", "ready"}, NEW u,
           u = [t EXCEPT !.key[h] = k]
    PROVE  /\ u \in Token
           /\ u.open = t.open /\ u.issued = t.issued /\ u.user = t.user /\ u.search = t.search
           /\ u.key[h] = k
           /\ \A g \in Handle : g # h => u.key[g] = t.key[g]
  BY DEF Token

LEMMA UserEffect ==
    ASSUME NEW t \in Token, NEW b \in BOOLEAN, NEW u, u = [t EXCEPT !.user = b]
    PROVE  /\ u \in Token
           /\ u.open = t.open /\ u.issued = t.issued /\ u.search = t.search /\ u.key = t.key
           /\ u.user = b
  BY DEF Token

LEMMA TriesEffect ==
    ASSUME NEW t \in Token, NEW n \in 0 .. MaxTries, NEW u, u = [t EXCEPT !.tries = n]
    PROVE  /\ u \in Token
           /\ u.open = t.open /\ u.issued = t.issued /\ u.search = t.search /\ u.key = t.key
           /\ u.user = t.user
  BY DEF Token

LEMMA LoginEffects ==
    ASSUME NEW t \in Token, NEW right \in BOOLEAN, NEW outcome, outcome = UserLogin(t, right)
    PROVE  /\ outcome[2] \in Token
           /\ outcome[2].open = t.open /\ outcome[2].issued = t.issued
           /\ outcome[2].search = t.search /\ outcome[2].key = t.key
           /\ t.user => outcome[2].user
           /\ outcome[1] = "OK" => outcome[2].user
           /\ outcome[1] \in {"OK", "ALREADY", "LOCKED", "INCORRECT"}
  <1>1. t.tries \in 0 .. MaxTries /\ MaxTries \in Nat \ {0} /\ t.user \in BOOLEAN
    BY TriesAssumption DEF Token
  <1>2. CASE t.user
    <2>1. outcome = <<"ALREADY", t>>
      BY <1>2 DEF UserLogin
    <2>2. QED
      BY <1>2, <2>1
  <1>3. CASE ~t.user /\ t.tries = 0
    <2>1. outcome = <<"LOCKED", t>>
      BY <1>3 DEF UserLogin
    <2>2. QED
      BY <1>3, <2>1
  <1>4. CASE ~t.user /\ t.tries # 0 /\ right
    <2>1. outcome = <<"OK", [t EXCEPT !.user = TRUE, !.tries = MaxTries]>>
      BY <1>1, <1>4 DEF UserLogin
    <2> DEFINE b == TRUE
               u == [t EXCEPT !.user = b]
               v == [u EXCEPT !.tries = MaxTries]
    <2>2. outcome[1] = "OK" /\ outcome[2] = v /\ b
      BY <2>1
    <2>3. b \in BOOLEAN /\ MaxTries \in 0 .. MaxTries
      BY <1>1
    <2> HIDE DEF b
    <2>4. /\ u \in Token
          /\ u.open = t.open /\ u.issued = t.issued /\ u.search = t.search /\ u.key = t.key
          /\ u.user = b
      BY <2>3, UserEffect
    <2> HIDE DEF u
    <2>5. /\ v \in Token
          /\ v.open = u.open /\ v.issued = u.issued /\ v.search = u.search /\ v.key = u.key
          /\ v.user = u.user
      BY <2>3, <2>4, TriesEffect
    <2> HIDE DEF v
    <2>6. QED
      BY <1>4, <2>2, <2>4, <2>5
  <1>5. CASE ~t.user /\ t.tries # 0 /\ ~right
    <2>1. outcome = <<"INCORRECT", [t EXCEPT !.tries = @ - 1]>>
      BY <1>1, <1>5 DEF UserLogin
    <2>2. t.tries - 1 \in 0 .. MaxTries
      BY <1>1, <1>5
    <2>3. QED
      BY <1>5, <2>1, <2>2 DEF Token
  <1>6. QED
    BY <1>2, <1>3, <1>4, <1>5

LEMMA ContextEffects ==
    ASSUME NEW t \in Token, NEW h \in Handle, NEW right \in BOOLEAN, NEW outcome,
           outcome = ContextLogin(t, h, right)
    PROVE  /\ outcome[2] \in Token
           /\ outcome[2].open = t.open /\ outcome[2].issued = t.issued
           /\ outcome[2].search = t.search /\ outcome[2].user = t.user
           /\ \A g \in Handle : g # h => outcome[2].key[g] = t.key[g]
           /\ outcome[1] \in {"OK", "FAILED", "LOCKED", "INCORRECT"}
  <1>1. t.tries \in 0 .. MaxTries /\ MaxTries \in Nat \ {0}
    BY TriesAssumption DEF Token
  <1>2. CASE t.key[h] # "locked"
    <2>1. outcome = <<"FAILED", t>>
      BY <1>2 DEF ContextLogin
    <2>2. QED
      BY <2>1
  <1>3. CASE t.key[h] = "locked" /\ t.tries = 0
    <2>1. outcome = <<"LOCKED", t>>
      BY <1>3 DEF ContextLogin
    <2>2. QED
      BY <2>1
  <1>4. CASE t.key[h] = "locked" /\ t.tries # 0 /\ right
    <2>1. outcome = <<"OK", [t EXCEPT !.key[h] = "ready", !.tries = MaxTries]>>
      BY <1>1, <1>4 DEF ContextLogin
    <2> DEFINE u == [t EXCEPT !.key[h] = "ready"]
    <2>2. /\ u \in Token /\ u.open = t.open /\ u.issued = t.issued
          /\ u.search = t.search /\ u.user = t.user
          /\ \A g \in Handle : g # h => u.key[g] = t.key[g]
      BY DEF Token
    <2>3. outcome[2] = [u EXCEPT !.tries = MaxTries] /\ outcome[1] = "OK"
      BY <2>1
    <2> HIDE DEF u
    <2>4. QED
      BY <1>1, <2>2, <2>3 DEF Token
  <1>5. CASE t.key[h] = "locked" /\ t.tries # 0 /\ ~right
    <2>1. outcome = <<"INCORRECT", [t EXCEPT !.tries = @ - 1]>>
      BY <1>1, <1>5 DEF ContextLogin
    <2>2. t.tries - 1 \in 0 .. MaxTries
      BY <1>1, <1>5
    <2>3. QED
      BY <2>1, <2>2 DEF Token
  <1>6. QED
    BY <1>2, <1>3, <1>4, <1>5

LEMMA RunningFacts ==
    ASSUME IInv, NEW c \in Call, phase[c] = "running"
    PROVE  /\ job[c] \in Job /\ token \in Token /\ auth \in Auth
           /\ job[c].op # "open" => job[c].handle \in Handle
           /\ ~job[c].lasts
           /\ auth = "pad" => ~job[c].sent
           /\ job[c].at \in {"token_login", "key_login"} => ~job[c].sent
           /\ job[c].at \in FindAt => job[c].op = "find"
           /\ job[c].at \in KeyAt => job[c].op \in KeyOp
           /\ job[c].at \in TokenAt => job[c].op \in {"open", "interactive", "login"}
           /\ job[c].at = "logout" => job[c].op = "logout"
           /\ job[c].at = "open" => job[c].op = "open"
           /\ job[c].op = "open" /\ job[c].at # "open" => job[c].handle # None
  <1>1. Good(phase, sync, rv, job, sess, token, auth) /\ auth \in Auth
    BY DEF IInv
  <1>2. job[c].op # "open" => job[c].handle \in Handle
    BY <1>1 DEF Good, Sound, JobOK, SessionOK, Busy
  <1>3. /\ job[c].at = "open" => job[c].op = "open"
        /\ job[c].op = "open" /\ job[c].at # "open" => job[c].handle # None
    BY <1>1 DEF Good, Sound, OpeningOK
  <1>4. ~job[c].lasts
    BY <1>1 DEF Good, LoginsOK
  <1>5. QED
    BY <1>1, <1>2, <1>3, <1>4 DEF Good, Typed, AtOK, PinsOK

LEMMA QuietLeave ==
    ASSUME IInv, NEW c \in Call, phase[c] = "running", NEW r \in Rv,
           r = "OK" => /\ job[c].at # "open" /\ job[c].op # "find" /\ job[c].op \notin KeyOp
                       /\ LoginOp(job[c]) => token.user \/ auth = "none"
    PROVE  Effect(c, job[c], token, TRUE, r)
  BY RunningFacts DEF Effect, HandleEffect, LoginEffect, OperationEffect

LEMMA QuietContinue ==
    ASSUME IInv, NEW c \in Call, phase[c] = "running", NEW j \in Job,
           j.op = job[c].op, j.session = job[c].session, j.handle = job[c].handle,
           job[c].at # "open", AtEffect(c, j)
    PROVE  Effect(c, j, token, FALSE, "OK")
  BY RunningFacts, RvAssumption DEF Effect, HandleEffect, LoginEffect, OperationEffect

LEMMA JobMoves ==
    ASSUME NEW k \in Job, NEW a \in At, NEW j, j = [k EXCEPT !.at = a]
    PROVE  /\ j \in Job /\ j.at = a
           /\ j.op = k.op /\ j.session = k.session /\ j.handle = k.handle
           /\ j.sent = k.sent /\ j.lasts = k.lasts
  BY DEF Job

LEMMA OpenSessionPerformed ==
    ASSUME IInv, NEW c \in Call, phase[c] = "running", OpenSession(c)
    PROVE  Performed(c)
  <1>1. /\ job[c] \in Job /\ token \in Token /\ job[c].op = "open" /\ job[c].at = "open"
        /\ ~job[c].lasts /\ (auth = "pad" => ~job[c].sent)
    BY RunningFacts DEF OpenSession
  <1>2. CASE Leave(c, job[c], "FAILED", token)
    <2>1. Effect(c, job[c], token, TRUE, "FAILED")
      BY QuietLeave, ResultAssumption
    <2>2. QED
      BY <1>2, <2>1 DEF Performed
  <1>3. ASSUME NEW h \in Handle \ token.issued,
               IF job[c].authenticate
               THEN Continue(c, [job[c] EXCEPT !.handle = h, !.at = "token_check"],
                             Opened(token, h))
               ELSE Leave(c, [job[c] EXCEPT !.handle = h], "OK", Opened(token, h))
        PROVE  Performed(c)
    <2> DEFINE t == Opened(token, h)
    <2>1. /\ t \in Token
          /\ t.open = token.open \union {h} /\ t.issued = token.issued \union {h}
          /\ t.user = token.user /\ t.search = token.search /\ t.key = token.key
      BY <1>1 DEF Opened, Token
    <2> HIDE DEF t
    <2>2. CASE job[c].authenticate
      <3> DEFINE j == [job[c] EXCEPT !.handle = h, !.at = "token_check"]
      <3>1. /\ j \in Job /\ j.op = job[c].op /\ j.session = job[c].session /\ j.handle = h
            /\ j.at = "token_check" /\ j.sent = job[c].sent /\ j.lasts = job[c].lasts
        BY <1>1 DEF Job, At
      <3>2. Continue(c, j, t)
        BY <1>3, <2>2 DEF t
      <3> HIDE DEF j
      <3>3. AtEffect(c, j)
        BY <1>1, <3>1 DEF AtEffect, FindAt, KeyAt
      <3>4. Effect(c, j, t, FALSE, "OK")
        BY <1>1, <2>1, <3>1, <3>3, RvAssumption
        DEF Effect, HandleEffect, LoginEffect, OperationEffect
      <3>5. QED
        BY <3>2, <3>4 DEF Performed
    <2>3. CASE ~job[c].authenticate
      <3> DEFINE j == [job[c] EXCEPT !.handle = h]
      <3>1. /\ j \in Job /\ j.op = "open" /\ j.session = job[c].session /\ j.handle = h
            /\ ~j.authenticate
        BY <1>1, <2>3 DEF Job
      <3>2. Leave(c, j, "OK", t)
        BY <1>3, <2>3 DEF t
      <3> HIDE DEF j
      <3>3. ~LoginOp(j) /\ j.op # "find" /\ j.op \notin KeyOp
        BY <3>1 DEF LoginOp, KeyOp
      <3>4. Effect(c, j, t, TRUE, "OK")
        BY <1>1, <2>1, <3>1, <3>3, RvAssumption
        DEF Effect, HandleEffect, LoginEffect, OperationEffect
      <3>5. QED
        BY <3>2, <3>4 DEF Performed
    <2>4. QED
      BY <2>2, <2>3
  <1>4. QED
    BY <1>2, <1>3 DEF OpenSession

\* The function goes on without the token.
LEMMA MovesOn ==
    ASSUME IInv, NEW c \in Call, phase[c] = "running", job[c].at # "open",
           NEW a \in At \ {"none", "open"},
           a \in FindAt => job[c].op = "find",
           a \in KeyAt => job[c].op \in KeyOp,
           a \in TokenAt => job[c].op \in {"open", "interactive", "login"},
           a = "logout" => job[c].op = "logout",
           a \in {"token_login", "key_login"} => auth = "pad",
           Continue(c, [job[c] EXCEPT !.at = a], token)
    PROVE  Performed(c)
  <1> DEFINE j == [job[c] EXCEPT !.at = a]
  <1>1. /\ job[c] \in Job /\ ~job[c].lasts /\ (auth = "pad" => ~job[c].sent)
    BY RunningFacts
  <1>2. /\ j \in Job /\ j.at = a
        /\ j.op = job[c].op /\ j.session = job[c].session /\ j.handle = job[c].handle
        /\ j.sent = job[c].sent /\ j.lasts = job[c].lasts
    BY <1>1, JobMoves
  <1>3. Continue(c, j, token)
    OBVIOUS
  <1> HIDE DEF j
  <1>4. AtEffect(c, j)
    BY <1>1, <1>2 DEF AtEffect
  <1>5. QED
    BY <1>2, <1>3, <1>4, QuietContinue DEF Performed

LEMMA Fails ==
    ASSUME IInv, NEW c \in Call, phase[c] = "running", NEW r \in Rv \ {"OK"},
           Leave(c, job[c], r, token)
    PROVE  Performed(c)
  BY QuietLeave DEF Performed

LEMMA TokenCheckPerformed ==
    ASSUME IInv, NEW c \in Call, phase[c] = "running", TokenCheck(c)
    PROVE  Performed(c)
  <1>1. /\ job[c].at = "token_check" /\ job[c].op \in {"open", "interactive", "login"}
        /\ {"CANCELED", "FAILED", "OK"} \subseteq Rv
    BY RunningFacts, RvAssumption, ResultAssumption DEF TokenCheck, TokenAt
  <1>2. CASE Leave(c, job[c], "CANCELED", token) \/ Leave(c, job[c], "FAILED", token)
    BY <1>1, <1>2, Fails
  <1>3. CASE (auth = "none" \/ token.user) /\ Leave(c, job[c], "OK", token)
    <2>1. job[c].op # "find" /\ job[c].op \notin KeyOp
      BY <1>1 DEF KeyOp
    <2>2. Effect(c, job[c], token, TRUE, "OK")
      BY <1>1, <1>3, <2>1, QuietLeave
    <2>3. QED
      BY <1>3, <2>2 DEF Performed
  <1>4. CASE Continue(c, [job[c] EXCEPT !.at = IF auth = "pad" THEN "token_login"
                                              ELSE "token_ask"], token)
    <2> DEFINE a == IF auth = "pad" THEN "token_login" ELSE "token_ask"
    <2>1. /\ a \in At \ {"none", "open"} /\ a \notin FindAt /\ a \notin KeyAt /\ a # "logout"
          /\ a \in {"token_login", "key_login"} => auth = "pad"
      BY DEF At, FindAt, KeyAt
    <2>2. Continue(c, [job[c] EXCEPT !.at = a], token)
      BY <1>4
    <2> HIDE DEF a
    <2>3. QED
      BY <1>1, <2>1, <2>2, MovesOn
  <1>5. QED
    BY <1>2, <1>3, <1>4 DEF TokenCheck

LEMMA AskPerformed ==
    ASSUME IInv, NEW c \in Call, phase[c] = "running", NEW at, NEW next,
           <<at, next>> \in {<<"token_ask", "token_login">>, <<"key_ask", "key_login">>},
           Ask(c, at, next)
    PROVE  Performed(c)
  <1>1. /\ job[c].at = at /\ job[c] \in Job /\ ~job[c].lasts
        /\ job[c].at \in KeyAt => job[c].op \in KeyOp
        /\ job[c].at \in TokenAt => job[c].op \in {"open", "interactive", "login"}
        /\ "NOT_LOGGED_IN" \in Rv \ {"OK"}
    BY RunningFacts, ResultAssumption DEF Ask
  <1>2. CASE GivesUp(c)
    BY <1>1, <1>2, Fails DEF GivesUp
  <1>3. ASSUME NEW pin \in {"right", "wrong"},
               Continue(c, [job[c] EXCEPT !.at = next, !.pin = pin, !.sent = FALSE], token)
        PROVE  Performed(c)
    <2> DEFINE j == [job[c] EXCEPT !.at = next, !.pin = pin, !.sent = FALSE]
    <2>1. /\ j.at = next /\ j.op = job[c].op /\ j.session = job[c].session
          /\ j.handle = job[c].handle /\ ~j.sent /\ j.lasts = job[c].lasts
      BY <1>1 DEF Job
    <2>2. j \in Job
      BY <1>1, <1>3 DEF Job, At
    <2>3. Continue(c, j, token)
      BY <1>3
    <2> HIDE DEF j
    <2>4. AtEffect(c, j) /\ job[c].at # "open"
      BY <1>1, <2>1 DEF AtEffect, FindAt, KeyAt, TokenAt
    <2>5. QED
      BY <2>1, <2>2, <2>3, <2>4, QuietContinue DEF Performed
  <1>4. QED
    BY <1>2, <1>3 DEF Ask

\* What becomes of a login, successful or not.
LEMMA AfterLoginPerformed ==
    ASSUME IInv, NEW c \in Call, phase[c] = "running", NEW outcome, NEW again,
           \/ job[c].at = "token_login" /\ again = "token_check"
           \/ job[c].at = "key_login" /\ again = "key_check",
           outcome[1] \in {"OK", "ALREADY", "LOCKED", "INCORRECT", "FAILED"},
           job[c].at = "key_login" => outcome[1] # "OK",
           Effect(c, job[c], outcome[2], TRUE, outcome[1]),
           AfterLogin(c, outcome, again)
    PROVE  Performed(c)
  <1>1. /\ job[c] \in Job /\ ~job[c].lasts
        /\ job[c].at \in KeyAt => job[c].op \in KeyOp
        /\ job[c].at \in TokenAt => job[c].op \in {"open", "interactive", "login"}
    BY RunningFacts
  <1>2. CASE ~(outcome[1] = "INCORRECT" /\ auth # "pad")
    BY <1>2 DEF AfterLogin, Performed
  <1>3. CASE outcome[1] = "INCORRECT" /\ auth # "pad"
    <2> DEFINE j == [job[c] EXCEPT !.at = again, !.sent = TRUE]
               t == outcome[2]
    <2>1. /\ j.at = again /\ j.op = job[c].op /\ j.session = job[c].session
          /\ j.handle = job[c].handle /\ j.lasts = job[c].lasts
      BY <1>1 DEF Job
    <2>2. again \in At /\ TRUE \in BOOLEAN
      BY DEF At
    <2>3. j \in Job
      BY <1>1, <2>2 DEF Job
    <2>4. Continue(c, j, t)
      BY <1>3 DEF AfterLogin
    <2> HIDE DEF j, t
    <2>5. AtEffect(c, j) /\ job[c].at # "open"
      BY <1>1, <1>3, <2>1 DEF AtEffect, FindAt, KeyAt, TokenAt
    <2>6. Effect(c, j, t, FALSE, "OK")
      BY <2>1, <2>3, <2>5, RvAssumption
      DEF Effect, HandleEffect, LoginEffect, OperationEffect, t
    <2>7. QED
      BY <2>4, <2>6 DEF Performed
  <1>4. QED
    BY <1>2, <1>3

LEMMA TokenLoginPerformed ==
    ASSUME IInv, NEW c \in Call, phase[c] = "running", TokenLogin(c) \/ Login(c)
    PROVE  Performed(c)
  <1>1. /\ job[c].at \in {"token_login", "login"} /\ job[c] \in Job /\ token \in Token
        /\ job[c].op \in {"open", "interactive", "login"}
        /\ {"OK", "ALREADY", "LOCKED", "INCORRECT"} \subseteq Rv
    BY RunningFacts, RvAssumption, ResultAssumption DEF TokenLogin, Login, TokenAt
  <1>2. ASSUME NEW right \in BOOLEAN, NEW outcome, outcome = UserLogin(token, right)
        PROVE  /\ Effect(c, job[c], outcome[2], TRUE, outcome[1])
               /\ outcome[1] \in {"OK", "ALREADY", "LOCKED", "INCORRECT"}
    <2>1. /\ outcome[2] \in Token
          /\ outcome[2].open = token.open /\ outcome[2].issued = token.issued
          /\ outcome[2].search = token.search /\ outcome[2].key = token.key
          /\ token.user => outcome[2].user
          /\ outcome[1] = "OK" => outcome[2].user
          /\ outcome[1] \in {"OK", "ALREADY", "LOCKED", "INCORRECT"}
      BY <1>1, <1>2, LoginEffects
    <2>2. job[c].op # "find" /\ job[c].op \notin KeyOp /\ job[c].at # "open"
      BY <1>1 DEF KeyOp
    <2>3. QED
      BY <1>1, <2>1, <2>2 DEF Effect, HandleEffect, LoginEffect, OperationEffect
  <1>3. CASE TokenLogin(c)
    <2>1. PICK right \in BOOLEAN : AfterLogin(c, UserLogin(token, right), "token_check")
      BY <1>3 DEF TokenLogin
    <2> DEFINE outcome == UserLogin(token, right)
    <2>2. /\ Effect(c, job[c], outcome[2], TRUE, outcome[1])
          /\ outcome[1] \in {"OK", "ALREADY", "LOCKED", "INCORRECT"}
      BY <1>2
    <2>3. job[c].at = "token_login" /\ AfterLogin(c, outcome, "token_check")
      BY <1>3, <2>1 DEF TokenLogin
    <2> HIDE DEF outcome
    <2> DEFINE again == "token_check"
    <2>4. /\ job[c].at = "token_login" /\ again = "token_check" /\ job[c].at # "key_login"
          /\ outcome[1] \in {"OK", "ALREADY", "LOCKED", "INCORRECT", "FAILED"}
          /\ AfterLogin(c, outcome, again)
      BY <2>2, <2>3
    <2> HIDE DEF again
    <2>5. QED
      BY <2>2, <2>3, <2>4, AfterLoginPerformed
  <1>4. CASE Login(c)
    <2>1. PICK right \in BOOLEAN :
             Leave(c, job[c], UserLogin(token, right)[1], UserLogin(token, right)[2])
      BY <1>4 DEF Login
    <2> DEFINE outcome == UserLogin(token, right)
    <2>2. Effect(c, job[c], outcome[2], TRUE, outcome[1])
      BY <1>2
    <2>3. Leave(c, job[c], outcome[1], outcome[2])
      BY <2>1
    <2> HIDE DEF outcome
    <2>4. QED
      BY <2>2, <2>3 DEF Performed
  <1>5. QED
    BY <1>3, <1>4

LEMMA FindPerformed ==
    ASSUME IInv, NEW c \in Call, phase[c] = "running", FindInit(c) \/ FindMore(c) \/ FindFinal(c)
    PROVE  Performed(c)
  <1> DEFINE h == job[c].handle
  <1>1. /\ job[c] \in Job /\ token \in Token /\ job[c].op = "find" /\ h \in Handle
        /\ job[c].at \in FindAt /\ job[c].at # "open"
        /\ token.search[h] \in 0 .. MaxFind + 1
        /\ {"OK", "FAILED", "ACTIVE"} \subseteq Rv
    BY RunningFacts, RvAssumption, ResultAssumption
    DEF FindInit, FindMore, FindFinal, FindAt, Token
  <1>2. job[c].op \notin KeyOp /\ {"find_more", "find_final"} \subseteq At \ {"none", "open"}
        /\ {"find_more", "find_final"} \subseteq FindAt \ (KeyAt \union TokenAt)
    BY <1>1 DEF KeyOp, At, FindAt, KeyAt, TokenAt
  <1>3. ASSUME NEW r \in {"FAILED", "ACTIVE"}, Leave(c, job[c], r, token)
        PROVE  Performed(c)
    BY <1>1, <1>3, Fails
  \* The function goes on at find_more after the token has changed.
  <1>4. ASSUME NEW n \in 0 .. MaxFind + 1, NEW j \in Job, NEW t,
               t = [token EXCEPT !.search[h] = n],
               j.op = job[c].op, j.session = job[c].session, j.handle = h,
               j.at = "find_more", j.sent = job[c].sent, j.lasts = job[c].lasts,
               Continue(c, j, t)
        PROVE  Performed(c)
    <2>1. /\ t \in Token
          /\ t.open = token.open /\ t.issued = token.issued /\ t.user = token.user
          /\ t.key = token.key
          /\ \A g \in Handle : g # h => t.search[g] = token.search[g]
      BY <1>1, <1>4, SearchEffect
    <2>2. AtEffect(c, j)
      BY <1>1, <1>2, <1>4, RunningFacts DEF AtEffect
    <2>3. Effect(c, j, t, FALSE, "OK")
      BY <1>1, <1>4, <2>1, <2>2 DEF Effect, HandleEffect, LoginEffect, OperationEffect
    <2>4. QED
      BY <1>4, <2>3 DEF Performed
  <1>5. CASE FindInit(c)
    <2>1. ASSUME NEW batches \in 0 .. MaxFind,
                 Continue(c, [job[c] EXCEPT !.at = "find_more"],
                          [token EXCEPT !.search[h] = batches + 1])
          PROVE  Performed(c)
      <3> DEFINE j == [job[c] EXCEPT !.at = "find_more"]
                 n == batches + 1
                 t == [token EXCEPT !.search[h] = n]
      <3>1. n \in 0 .. MaxFind + 1
        BY FindAssumption
      <3>2. /\ j \in Job /\ j.at = "find_more"
            /\ j.op = job[c].op /\ j.session = job[c].session /\ j.handle = h
            /\ j.sent = job[c].sent /\ j.lasts = job[c].lasts
        BY <1>1, <1>2, JobMoves
      <3>3. Continue(c, j, t)
        BY <2>1
      <3> HIDE DEF j, n
      <3>4. QED
        BY <1>4, <3>1, <3>2, <3>3
    <2>2. QED
      BY <1>3, <1>5, <2>1 DEF FindInit
  <1>6. CASE FindMore(c)
    <2>1. CASE token.search[h] > 1
               /\ Continue(c, job[c], [token EXCEPT !.search[h] = @ - 1])
      <3> DEFINE n == token.search[h] - 1
                 t == [token EXCEPT !.search[h] = n]
      <3>1. n \in 0 .. MaxFind + 1
        BY <1>1, <2>1, FindAssumption
      <3>2. Continue(c, job[c], t)
        BY <1>1, <2>1 DEF Token
      <3>3. job[c].at = "find_more"
        BY <1>6 DEF FindMore
      <3> HIDE DEF n
      <3>4. QED
        BY <1>1, <1>4, <3>1, <3>2, <3>3
    <2>2. CASE Continue(c, [job[c] EXCEPT !.at = "find_final"], token)
      BY <1>1, <1>2, <2>2, MovesOn
    <2>3. QED
      BY <1>3, <1>6, <2>1, <2>2 DEF FindMore
  <1>7. CASE FindFinal(c)
    <2> DEFINE t == [token EXCEPT !.search[h] = 0]
    <2>1. Leave(c, job[c], "OK", t) \/ Leave(c, job[c], "FAILED", token)
      BY <1>7 DEF FindFinal
    <2>2. /\ t \in Token
          /\ t.open = token.open /\ t.issued = token.issued /\ t.user = token.user
          /\ t.key = token.key /\ t.search[h] = 0
          /\ \A g \in Handle : g # h => t.search[g] = token.search[g]
      BY <1>1, FindAssumption DEF Token
    <2> HIDE DEF t
    <2>3. ~LoginOp(job[c])
      BY <1>1 DEF LoginOp
    <2>4. Effect(c, job[c], t, TRUE, "OK")
      BY <1>1, <1>2, <2>2, <2>3 DEF Effect, HandleEffect, LoginEffect, OperationEffect
    <2>5. QED
      BY <1>3, <2>1, <2>4 DEF Performed
  <1>8. QED
    BY <1>5, <1>6, <1>7

LEMMA KeyPerformed ==
    ASSUME IInv, NEW c \in Call, phase[c] = "running",
           KeyInit(c) \/ KeyNeeds(c) \/ KeyCheck(c) \/ KeySize(c) \/ KeyResult(c)
    PROVE  Performed(c)
  <1> DEFINE h == job[c].handle
  <1>1. /\ job[c].at \in KeyAt /\ job[c].at # "open" /\ job[c].op \in KeyOp
        /\ job[c] \in Job /\ token \in Token
        /\ {"OK", "FAILED", "ACTIVE"} \subseteq Rv
    BY RunningFacts, RvAssumption, ResultAssumption
    DEF KeyInit, KeyNeeds, KeyCheck, KeySize, KeyResult, KeyAt
  <1>2. job[c].op # "find" /\ job[c].op # "open" /\ ~LoginOp(job[c])
    BY <1>1 DEF KeyOp, LoginOp
  <1>3. h \in Handle
    BY <1>2, RunningFacts
  <1>4. ASSUME NEW r \in {"FAILED", "ACTIVE"}, Leave(c, job[c], r, token)
        PROVE  Performed(c)
    BY <1>1, <1>4, Fails
  <1>5. ASSUME NEW a \in {"key_size", "key_result", "key_check", "key_ask", "key_login"},
               a = "key_login" => auth = "pad",
               Continue(c, [job[c] EXCEPT !.at = a], token)
        PROVE  Performed(c)
    <2>1. a \in At \ {"none", "open"} /\ a \notin FindAt \union TokenAt /\ a # "logout"
      BY <1>5 DEF At, FindAt, TokenAt
    <2>2. QED
      BY <1>1, <1>5, <2>1, MovesOn
  <1>6. CASE KeyInit(c)
    <2>1. ASSUME NEW k \in {"locked", "ready"}, NEW j, NEW t,
                 j = [job[c] EXCEPT !.at = "key_needs"], t = [token EXCEPT !.key[h] = k],
                 Continue(c, j, t)
          PROVE  Performed(c)
      <3>1. "key_needs" \in At /\ "key_needs" \notin FindAt \union TokenAt
        BY DEF At, FindAt, TokenAt
      <3>2. /\ j \in Job /\ j.at = "key_needs"
            /\ j.op = job[c].op /\ j.session = job[c].session /\ j.handle = h
            /\ j.sent = job[c].sent /\ j.lasts = job[c].lasts
        BY <1>1, <2>1, <3>1, JobMoves
      <3>3. /\ t \in Token
            /\ t.open = token.open /\ t.issued = token.issued /\ t.user = token.user
            /\ t.search = token.search
            /\ \A g \in Handle : g # h => t.key[g] = token.key[g]
        BY <1>1, <1>3, <2>1, KeyEffect
      <3>4. AtEffect(c, j)
        BY <1>1, <3>1, <3>2, RunningFacts DEF AtEffect
      <3>5. Effect(c, j, t, FALSE, "OK")
        BY <1>1, <3>2, <3>3, <3>4 DEF Effect, HandleEffect, LoginEffect, OperationEffect
      <3>6. QED
        BY <2>1, <3>5 DEF Performed
    <2>2. CASE Continue(c, [job[c] EXCEPT !.at = "key_needs"],
                        [token EXCEPT !.key[h] = IF job[c].authenticate THEN "locked"
                                                ELSE "ready"])
      <3> DEFINE k == IF job[c].authenticate THEN "locked" ELSE "ready"
      <3>1. k \in {"locked", "ready"}
        OBVIOUS
      <3>2. Continue(c, [job[c] EXCEPT !.at = "key_needs"], [token EXCEPT !.key[h] = k])
        BY <2>2
      <3> HIDE DEF k
      <3>3. QED
        BY <2>1, <3>1, <3>2
    <2>3. QED
      BY <1>4, <1>6, <2>2 DEF KeyInit
  <1>7. CASE KeyNeeds(c)
    <2>1. Authenticated(job[c]) \in {"key_size", "key_result"}
      BY DEF Authenticated
    <2>2. Continue(c, [job[c] EXCEPT !.at = Authenticated(job[c])], token)
             \/ Continue(c, [job[c] EXCEPT !.at = "key_check"], token)
      BY <1>7 DEF KeyNeeds
    <2>3. QED
      BY <1>5, <2>1, <2>2
  <1>8. CASE KeyCheck(c)
    <2>1. Leave(c, job[c], "FAILED", token)
             \/ Continue(c, [job[c] EXCEPT !.at = IF auth = "pad" THEN "key_login"
                                                 ELSE "key_ask"], token)
      BY <1>8 DEF KeyCheck
    <2> DEFINE a == IF auth = "pad" THEN "key_login" ELSE "key_ask"
    <2>2. /\ a \in {"key_size", "key_result", "key_check", "key_ask", "key_login"}
          /\ a = "key_login" => auth = "pad"
          /\ Leave(c, job[c], "FAILED", token) \/ Continue(c, [job[c] EXCEPT !.at = a], token)
      BY <2>1
    <2> HIDE DEF a
    <2>3. QED
      BY <1>4, <1>5, <2>2
  \* The operation ends, whatever the result.
  <1>9. ASSUME NEW r \in {"OK", "FAILED"}, NEW t, t = [token EXCEPT !.key[h] = "none"],
               Leave(c, job[c], r, t)
        PROVE  Performed(c)
    <2>1. /\ t \in Token
          /\ t.open = token.open /\ t.issued = token.issued /\ t.user = token.user
          /\ t.search = token.search /\ t.key[h] = "none"
          /\ \A g \in Handle : g # h => t.key[g] = token.key[g]
      BY <1>1, <1>3, <1>9 DEF Token
    <2>2. Effect(c, job[c], t, TRUE, r)
      BY <1>1, <1>2, <2>1 DEF Effect, HandleEffect, LoginEffect, OperationEffect
    <2>3. QED
      BY <1>9, <2>2 DEF Performed
  <1>10. CASE KeySize(c)
    <2>1. Leave(c, job[c], "FAILED", [token EXCEPT !.key[h] = "none"])
             \/ Continue(c, [job[c] EXCEPT !.at = "key_result"], token)
      BY <1>10 DEF KeySize
    <2>2. QED
      BY <1>5, <1>9, <2>1
  <1>11. CASE KeyResult(c)
    <2>1. PICK r \in {"OK", "FAILED"} : Leave(c, job[c], r, [token EXCEPT !.key[h] = "none"])
      BY <1>11 DEF KeyResult
    <2>2. QED
      BY <1>9, <2>1
  <1>12. QED
    BY <1>6, <1>7, <1>8, <1>10, <1>11

LEMMA KeyLoginPerformed ==
    ASSUME IInv, NEW c \in Call, phase[c] = "running", KeyLogin(c)
    PROVE  Performed(c)
  <1> DEFINE h == job[c].handle
  <1>1. /\ job[c].at = "key_login" /\ job[c].op \in KeyOp
        /\ job[c] \in Job /\ token \in Token /\ ~job[c].lasts /\ ~job[c].sent
        /\ {"OK", "FAILED", "LOCKED", "INCORRECT"} \subseteq Rv
    BY RunningFacts, RvAssumption, ResultAssumption DEF KeyLogin, KeyAt
  <1>2. job[c].op # "find" /\ job[c].op # "open" /\ ~LoginOp(job[c])
    BY <1>1 DEF KeyOp, LoginOp
  <1>3. h \in Handle
    BY <1>2, RunningFacts
  <1>4. PICK right \in BOOLEAN :
           IF ContextLogin(token, h, right)[1] = "OK"
           THEN Continue(c, [job[c] EXCEPT !.at = Authenticated(job[c])],
                         ContextLogin(token, h, right)[2])
           ELSE AfterLogin(c, ContextLogin(token, h, right), "key_check")
    BY DEF KeyLogin
  <1> DEFINE outcome == ContextLogin(token, h, right)
             t == outcome[2]
  <1>5. /\ t \in Token
        /\ t.open = token.open /\ t.issued = token.issued
        /\ t.search = token.search /\ t.user = token.user
        /\ \A g \in Handle : g # h => t.key[g] = token.key[g]
        /\ outcome[1] \in {"OK", "FAILED", "LOCKED", "INCORRECT"}
    BY <1>1, <1>3, ContextEffects
  <1>6. CASE outcome[1] = "OK"
    <2> DEFINE a == Authenticated(job[c])
               j == [job[c] EXCEPT !.at = a]
    <2>1. a \in At \ {"none", "open"} /\ a \in KeyAt /\ a \notin FindAt \union TokenAt
          /\ a \notin {"logout", "token_login", "key_login"}
      BY DEF Authenticated, At, KeyAt, FindAt, TokenAt
    <2>2. Continue(c, j, t)
      BY <1>4, <1>6
    <2> HIDE DEF a, t, outcome
    <2>3. /\ j \in Job /\ j.at = a
          /\ j.op = job[c].op /\ j.session = job[c].session /\ j.handle = h
          /\ j.sent = job[c].sent /\ j.lasts = job[c].lasts
      BY <1>1, <2>1, JobMoves
    <2> HIDE DEF j
    <2>4. AtEffect(c, j)
      BY <1>1, <2>1, <2>3 DEF AtEffect
    <2>5. Effect(c, j, t, FALSE, "OK")
      BY <1>1, <1>5, <2>3, <2>4 DEF Effect, HandleEffect, LoginEffect, OperationEffect
    <2>6. QED
      BY <2>2, <2>5 DEF Performed
  <1>7. CASE outcome[1] # "OK"
    <2>1. AfterLogin(c, outcome, "key_check")
      BY <1>4, <1>7
    <2> DEFINE again == "key_check"
    <2>2. /\ job[c].at = "key_login" /\ again = "key_check"
          /\ outcome[1] \in {"OK", "ALREADY", "LOCKED", "INCORRECT", "FAILED"}
          /\ AfterLogin(c, outcome, again)
      BY <1>1, <1>5, <2>1
    <2> HIDE DEF outcome, again
    <2>3. Effect(c, job[c], outcome[2], TRUE, outcome[1])
      BY <1>1, <1>2, <1>5, <1>7 DEF Effect, HandleEffect, LoginEffect, OperationEffect
    <2>4. QED
      BY <1>7, <2>2, <2>3, AfterLoginPerformed
  <1>8. QED
    BY <1>6, <1>7

LEMMA LogoutFails ==
    ASSUME IInv, NEW c \in Call, phase[c] = "running", Logout(c), ~token.user
    PROVE  Performed(c)
  BY Fails, ResultAssumption DEF Logout

\* Everything but the handles after a step of the function of c.
LEMMA WorkGood ==
    ASSUME NEW ph, NEW ph2, NEW sy, NEW r, NEW r2, NEW jb, NEW jb2, NEW ss, NEW ss2,
           NEW tk, NEW tk2, NEW au, NEW c \in Call,
           Good(ph, sy, r, jb, ss, tk, au), Typed(ph2, sy, r2, jb2, ss2), tk2 \in Token,
           Sound(ph2, sy, r2, jb2, ss2, tk2.open, tk2.issued),
           ph[c] = "running", ph2[c] \in {"running", "completed", "done"},
           \A d \in Call : d # c => ph2[d] = ph[d] /\ r2[d] = r[d] /\ jb2[d] = jb[d],
           jb2[c].op = jb[c].op, jb2[c].session = jb[c].session,
           jb[c].op # "open" => jb2[c].handle = jb[c].handle,
           \A s \in Session : ss2[s] = ss[s] \/ (jb[c].op = "open" /\ s = jb[c].session),
           jb2[c].at \in FindAt => jb2[c].op = "find",
           jb2[c].at \in KeyAt => jb2[c].op \in KeyOp,
           jb2[c].at \in TokenAt => jb2[c].op \in {"open", "interactive", "login"},
           jb2[c].at = "logout" => jb2[c].op = "logout",
           ph2[c] = "running" => jb2[c].at # "none",
           jb2[c].at \in {"token_login", "key_login"} => ~jb2[c].sent,
           au = "pad" => ~jb2[c].sent,
           jb2[c].lasts => /\ ph2[c] = "done" \/ (ph2[c] = "completed" /\ r2[c] = "OK")
                           /\ au # "none" => tk2.user,
           tk.user => tk2.user,
           \A h \in Handle :
              /\ (jb2[c].op = "find" /\ h = jb2[c].handle) \/ tk2.search[h] = tk.search[h]
              /\ (jb2[c].op \in KeyOp /\ h = jb2[c].handle) \/ tk2.key[h] = tk.key[h],
           ph2[c] # "running" /\ r2[c] = "OK" /\ jb2[c].op = "find" =>
              tk2.search[jb2[c].handle] = 0,
           ph2[c] # "running" /\ r2[c] = "OK" /\ jb2[c].op \in KeyOp =>
              tk2.key[jb2[c].handle] = "none"
    PROVE  Good(ph2, sy, r2, jb2, ss2, tk2, au)
  <1>1. AtOK(ph2, jb2)
    BY DEF Good, AtOK
  <1>2. PinsOK(jb2, au)
    BY DEF Good, PinsOK
  <1>3. OperationsOK(ph2, r2, jb2, tk2)
    <2>1. ASSUME NEW h \in Handle, tk2.search[h] # 0
          PROVE  \E d \in Call : Owner(ph2, r2, jb2, d, {"find"}, h)
      <3>1. CASE jb2[c].op = "find" /\ h = jb2[c].handle
        BY <2>1, <3>1 DEF Owner
      <3>2. CASE ~(jb2[c].op = "find" /\ h = jb2[c].handle)
        <4>1. PICK d \in Call : Owner(ph, r, jb, d, {"find"}, h)
          BY <2>1, <3>2 DEF Good, OperationsOK
        <4>2. d # c
          BY <3>2, <4>1 DEF Owner
        <4>3. QED
          BY <4>1, <4>2 DEF Owner
      <3>3. QED
        BY <3>1, <3>2
    <2>2. ASSUME NEW h \in Handle, tk2.key[h] # "none"
          PROVE  \E d \in Call : Owner(ph2, r2, jb2, d, KeyOp, h)
      <3>1. CASE jb2[c].op \in KeyOp /\ h = jb2[c].handle
        BY <2>2, <3>1 DEF Owner
      <3>2. CASE ~(jb2[c].op \in KeyOp /\ h = jb2[c].handle)
        <4>1. PICK d \in Call : Owner(ph, r, jb, d, KeyOp, h)
          BY <2>2, <3>2 DEF Good, OperationsOK
        <4>2. d # c
          BY <3>2, <4>1 DEF Owner, KeyOp
        <4>3. QED
          BY <4>1, <4>2 DEF Owner
      <3>3. QED
        BY <3>1, <3>2
    <2>3. QED
      BY <2>1, <2>2 DEF OperationsOK
  <1>4. LoginsOK(ph2, r2, jb2, ss2, tk2, au)
    <2> SUFFICES ASSUME NEW d \in Call, jb2[d].lasts
                 PROVE  /\ ph2[d] = "done" \/ (ph2[d] = "completed" /\ r2[d] = "OK")
                        /\ /\ Opener(ph2, jb2, d) \/ ss2[jb2[d].session].life = "live"
                           /\ au # "none"
                           => tk2.user
      BY DEF LoginsOK
    <2>1. CASE d = c
      BY <2>1
    <2>2. CASE d # c
      <3>1. /\ jb2[d] = jb[d] /\ jb[d].lasts
            /\ ph2[d] = "done" \/ (ph2[d] = "completed" /\ r2[d] = "OK")
        BY <2>2 DEF Good, LoginsOK
      <3>2. jb[d].session \in Session
        BY <2>2, <3>1 DEF Good, Sound, JobOK
      <3>3. Opener(ph2, jb2, d) => Opener(ph, jb, d)
        BY <2>2, <3>1 DEF Opener, Busy
      <3>4. CASE Opener(ph, jb, d) \/ ss[jb[d].session].life = "live"
        BY <3>1, <3>4 DEF Good, LoginsOK
      <3>5. CASE ~Opener(ph, jb, d) /\ ss[jb[d].session].life # "live"
        <4>1. ss2[jb2[d].session].life # "live"
          <5>1. CASE jb[c].op = "open" /\ jb[d].session = jb[c].session
            <6>1. ss[jb[d].session].life = "opening"
              BY <5>1 DEF Good, Sound, JobOK, Opener, Busy
            <6>2. QED
              BY <2>2, <3>1, <3>5, <6>1 DEF Good, Sound, JobOK, Opener, Busy
          <5>2. CASE ~(jb[c].op = "open" /\ jb[d].session = jb[c].session)
            BY <3>1, <3>2, <3>5, <5>2
          <5>3. QED
            BY <5>1, <5>2
        <4>2. QED
          BY <3>1, <3>3, <3>5, <4>1
      <3>6. QED
        BY <3>4, <3>5
    <2>3. QED
      BY <2>1, <2>2
  <1>5. QED
    BY <1>1, <1>2, <1>3, <1>4 DEF Good

\* The job of a call whose function has returned r.
LeftJob(j, b) == [j EXCEPT !.at = "none", !.pin = "none", !.sent = FALSE, !.lasts = b]

LEMMA LeftJobFacts ==
    ASSUME NEW j \in Job, NEW b \in BOOLEAN
    PROVE  /\ LeftJob(j, b) \in Job
           /\ LeftJob(j, b).op = j.op /\ LeftJob(j, b).session = j.session
           /\ LeftJob(j, b).handle = j.handle
           /\ LeftJob(j, b).at = "none" /\ ~LeftJob(j, b).sent
           /\ LeftJob(j, b).lasts = b
  <1> DEFINE f == FALSE
             k == [j EXCEPT !.at = "none", !.pin = "none", !.sent = f, !.lasts = b]
  <1>1. LeftJob(j, b) = k /\ f \in BOOLEAN /\ ~f
    BY DEF LeftJob
  <1> HIDE DEF f
  <1>2. k \in Job /\ k.op = j.op /\ k.session = j.session /\ k.handle = j.handle
        /\ k.at = "none" /\ k.sent = f /\ k.lasts = b
    BY <1>1 DEF Job, At
  <1> HIDE DEF k
  <1>3. QED
    BY <1>1, <1>2

LEMMA LeaveSound ==
    ASSUME IInv, NEW c \in Call, phase[c] = "running", NEW j, NEW t, NEW r,
           Effect(c, j, t, TRUE, r), Leave(c, j, r, t)
    PROVE  /\ Typed(phase', sync', rv', job', sess')
           /\ Sound(phase', sync', rv', job', sess', t.open, t.issued)
           /\ sync' = sync /\ token' = t
           /\ Update(phase, phase', Call, c, IF c \in sync THEN "done" ELSE "completed")
           /\ Update(rv, rv', Call, c, r)
           /\ Update(job, job', Call, c, job'[c])
           /\ job'[c].op = j.op /\ job'[c].session = j.session /\ job'[c].handle = j.handle
           /\ job'[c].at = "none" /\ ~job'[c].sent
           /\ job'[c].lasts => r = "OK" /\ LoginOp(j)
           /\ \A s \in Session : sess'[s] = sess[s] \/ (job[c].op = "open" /\ s = job[c].session)
  <1> DEFINE w == IF c \in sync THEN "done" ELSE "completed"
             b == r = "OK" /\ LoginOp(j)
             k == LeftJob(j, b)
  <1>1. /\ Good(phase, sync, rv, job, sess, token, auth)
        /\ Typed(phase, sync, rv, job, sess)
        /\ Sound(phase, sync, rv, job, sess, token.open, token.issued)
        /\ j \in Job /\ t \in Token /\ r \in Rv /\ b \in BOOLEAN
        /\ j.op = job[c].op /\ j.session = job[c].session /\ j.session \in Session
    BY DEF IInv, Good, Effect, Sound, JobOK
  <1>2. /\ phase' = [phase EXCEPT ![c] = w] /\ rv' = [rv EXCEPT ![c] = r]
        /\ sync' = sync /\ token' = t /\ w \in {"done", "completed"}
    BY <1>1 DEF Leave, Returns, Typed
  <1>3. job' = [job EXCEPT ![c] = k]
    BY DEF Leave, LeftJob
  <1> HIDE DEF b, w
  <1>4. /\ k \in Job /\ k.op = j.op /\ k.session = j.session /\ k.handle = j.handle
        /\ k.at = "none" /\ ~k.sent /\ k.lasts = b
    BY <1>1, LeftJobFacts
  <1> HIDE DEF k
  <1>5. /\ Update(phase, phase', Call, c, w) /\ Update(rv, rv', Call, c, r)
        /\ Update(job, job', Call, c, k)
    BY <1>1, <1>2, <1>3 DEF Typed, Update
  <1>6. /\ phase' \in [Call -> Phase] /\ rv' \in [Call -> Rv] /\ job' \in [Call -> Job]
    BY <1>1, <1>2, <1>3, <1>4 DEF Typed, Phase
  <1>7. /\ c \notin sync \/ j.op # "open" => sess' = sess
        /\ c \in sync /\ j.op = "open" => sess' = [sess EXCEPT ![j.session] = Finish(j, r)]
    BY DEF Leave
  <1>8. Finish(j, r) \in SessionObject
    BY <1>1, NoneAssumption DEF Finish, Live, Gone, SessionObject, Job
  <1>9. sess' \in [Session -> SessionObject]
    BY <1>1, <1>7, <1>8 DEF Typed
  <1>10. Typed(phase', sync', rv', job', sess')
    BY <1>1, <1>2, <1>6, <1>9 DEF Typed
  \* First the handle, if the function has just got one.
  <1>11. r = "OK" /\ j.op = "open" => j.handle # None
    BY <1>1, RunningFacts, NoneAssumption DEF Effect, HandleEffect
  <1>12. ASSUME NEW jb, Typed(phase, sync, rv, jb, sess),
                Sound(phase, sync, rv, jb, sess, t.open, t.issued),
                Others(phase, phase', rv, rv', jb, job', c), Same(jb, job', c)
         PROVE  Sound(phase', sync', rv', job', sess', t.open, t.issued)
    <2>1. /\ Typed(phase', sync, rv', job', sess)
          /\ phase'[c] = w /\ rv'[c] = r /\ job'[c] = k
      BY <1>1, <1>2, <1>5, <1>6 DEF Typed, Update
    <2>2. jb[c].op = j.op /\ jb[c].handle = j.handle /\ jb[c].session = j.session
      BY <1>4, <1>12, <2>1 DEF Same
    <2>3. CASE c \notin sync
      <3>1. w = "completed" /\ sess' = sess
        BY <1>7, <2>3 DEF w
      <3>2. /\ phase[c] \in {"pooled", "running"} /\ phase'[c] \in {"running", "completed"}
            /\ job'[c].at = "open" => jb[c].at = "open"
            /\ job'[c].at # "open" /\ phase'[c] = "running" => jb[c].at # "open"
            /\ phase'[c] = "completed" /\ rv'[c] = "OK" /\ jb[c].op = "open" =>
                  jb[c].handle # None
        BY <1>4, <1>11, <2>1, <2>2, <3>1
      <3>3. Sound(phase', sync, rv', job', sess, t.open, t.issued)
        BY <1>12, <2>1, <3>2, MoveSound
      <3>4. QED
        BY <1>2, <3>1, <3>3
    <2>4. CASE c \in sync
      <3>1. /\ phase[c] \in {"running", "completed"} /\ phase'[c] = "done"
            /\ job'[c].at = "open" => jb[c].at = "open"
        BY <1>4, <2>1, <2>4 DEF w
      <3>2. CASE j.op = "open"
        <4>1. rv'[c] = "OK" => jb[c].handle # None
          BY <1>11, <2>1, <2>2, <3>2
        <4>2. jb[c].op = "open"
          BY <2>2, <3>2
        <4>3. Sound(phase', sync, rv', job',
                    [sess EXCEPT ![jb[c].session] = Finish(jb[c], rv'[c])], t.open, t.issued)
          BY <1>12, <2>1, <3>1, <4>1, <4>2, FinishSound
        <4>4. Finish(jb[c], rv'[c]) = Finish(j, r)
          BY <2>1, <2>2 DEF Finish
        <4>5. QED
          BY <1>2, <1>7, <2>2, <2>4, <3>2, <4>3, <4>4
      <3>3. CASE j.op # "open"
        <4>1. jb[c].op # "open" /\ sess' = sess
          BY <1>7, <2>2, <3>3
        <4>2. Sound(phase', sync, rv', job', sess, t.open, t.issued)
          BY <1>12, <2>1, <3>1, <4>1, KeepSound
        <4>3. QED
          BY <1>2, <4>1, <4>2
      <3>4. QED
        BY <3>2, <3>3
    <2>5. QED
      BY <2>3, <2>4
  <1>13. Sound(phase', sync', rv', job', sess', t.open, t.issued)
    <2>1. CASE j.handle = job[c].handle /\ t.open = token.open /\ t.issued = token.issued
      <3>1. Others(phase, phase', rv, rv', job, job', c) /\ Same(job, job', c)
        BY <1>1, <1>4, <1>5, <2>1 DEF Others, Same, Update
      <3>2. Sound(phase, sync, rv, job, sess, t.open, t.issued)
        BY <1>1, <2>1
      <3>3. QED
        BY <1>1, <1>12, <3>1, <3>2
    <2>2. CASE /\ job[c].at = "open"
               /\ j.handle \in Handle \ token.issued
               /\ t.open = token.open \union {j.handle}
               /\ t.issued = token.issued \union {j.handle}
      <3>1. /\ Typed(phase, sync, rv, job', sess)
            /\ Others(phase, phase, rv, rv, job, job', c)
            /\ job'[c].op = job[c].op /\ job'[c].session = job[c].session
            /\ job'[c].handle = j.handle /\ job'[c].at # "open"
        BY <1>1, <1>4, <1>5, <1>6 DEF Typed, Others, Same, Update
      <3>2. Sound(phase, sync, rv, job', sess, token.open \union {j.handle},
                  token.issued \union {j.handle})
        BY <1>1, <2>2, <3>1, ReceiveSound
      <3>3. Others(phase, phase', rv, rv', job', job', c) /\ Same(job', job', c)
        BY <1>5 DEF Others, Same, Update
      <3> DEFINE jb == job'
      <3>4. /\ Typed(phase, sync, rv, jb, sess)
            /\ Sound(phase, sync, rv, jb, sess, t.open, t.issued)
            /\ Others(phase, phase', rv, rv', jb, job', c) /\ Same(jb, job', c)
        BY <2>2, <3>1, <3>2, <3>3
      <3> HIDE DEF jb
      <3>5. QED
        BY <1>12, <3>4
    <2>3. QED
      BY <2>1, <2>2 DEF Effect, HandleEffect
  <1>14. \A s \in Session : sess'[s] = sess[s] \/ (job[c].op = "open" /\ s = job[c].session)
    BY <1>1, <1>7 DEF Typed
  <1>15. /\ job'[c] = k /\ Update(job, job', Call, c, job'[c])
         /\ job'[c].lasts => r = "OK" /\ LoginOp(j)
    BY <1>4, <1>5 DEF Update, b
  <1>16. QED
    BY <1>2, <1>4, <1>5, <1>10, <1>13, <1>14, <1>15 DEF w

\* The queues when the function of c goes on or returns.
LEMMA ReturnQueues ==
    ASSUME IInv, NEW c \in Call, phase[c] = "running", NEW r, Returns(c, r),
           phase' \in [Call -> Phase],
           Update(phase, phase', Call, c, IF c \in sync THEN "done" ELSE "completed")
    PROVE  /\ cancelled' \in SUBSET Call /\ pool' \in Seq(Call) /\ completed' \in Seq(Call)
           /\ QueueOK(pool', phase', "pooled") /\ QueueOK(completed', phase', "completed")
  <1>1. /\ cancelled' = cancelled /\ pool' = pool
        /\ c \in sync => completed' = completed
        /\ c \notin sync => completed' = Append(completed, c)
    BY DEF Returns
  <1>2. /\ pool \in Seq(Call) /\ completed \in Seq(Call) /\ cancelled \in SUBSET Call
        /\ QueueOK(pool, phase, "pooled") /\ QueueOK(completed, phase, "completed")
    BY DEF IInv
  <1>3. \A d \in Call : d # c => phase'[d] = phase[d]
    BY DEF Update
  <1>4. QueueOK(pool', phase', "pooled")
    <2>1. \A n \in 1 .. Len(pool) : pool[n] \in Call /\ pool[n] # c
      BY <1>2 DEF QueueOK
    <2>2. QED
      BY <1>1, <1>2, <1>3, <2>1 DEF QueueOK
  <1>5. completed' \in Seq(Call) /\ QueueOK(completed', phase', "completed")
    <2>1. CASE c \in sync
      <3>1. \A n \in 1 .. Len(completed) : completed[n] \in Call /\ completed[n] # c
        BY <1>2 DEF QueueOK
      <3>2. QED
        BY <1>1, <1>2, <1>3, <2>1, <3>1 DEF QueueOK
    <2>2. CASE c \notin sync
      <3> DEFINE where == "completed"
      <3>1. QueueOK(completed, phase, where) /\ phase[c] # where /\ phase'[c] = where
        BY <1>2, <2>2 DEF Update
      <3> HIDE DEF where
      <3>2. Append(completed, c) \in Seq(Call) /\ QueueOK(Append(completed, c), phase', where)
        BY <1>2, <1>3, <3>1, AppendOK
      <3>3. QED
        BY <1>1, <2>2, <3>2 DEF where
    <2>3. QED
      BY <2>1, <2>2
  <1>6. QED
    BY <1>1, <1>2, <1>4, <1>5

LEMMA LeaveStep ==
    ASSUME IInv, NEW c \in Call, phase[c] = "running", NEW j, NEW t, NEW r,
           Effect(c, j, t, TRUE, r), Leave(c, j, r, t), auth' = auth
    PROVE  IInv'
  <1>1. /\ Typed(phase', sync', rv', job', sess')
        /\ Sound(phase', sync', rv', job', sess', t.open, t.issued)
        /\ sync' = sync /\ token' = t
        /\ Update(phase, phase', Call, c, IF c \in sync THEN "done" ELSE "completed")
        /\ Update(rv, rv', Call, c, r)
        /\ Update(job, job', Call, c, job'[c])
        /\ job'[c].op = j.op /\ job'[c].session = j.session /\ job'[c].handle = j.handle
        /\ job'[c].at = "none" /\ ~job'[c].sent
        /\ job'[c].lasts => r = "OK" /\ LoginOp(j)
        /\ \A s \in Session : sess'[s] = sess[s] \/ (job[c].op = "open" /\ s = job[c].session)
    BY LeaveSound
  <1>2. Good(phase', sync', rv', job', sess', token', auth')
    <2>1. /\ Good(phase, sync, rv, job, sess, token, auth) /\ t \in Token
          /\ Typed(phase', sync, rv', job', sess')
          /\ Sound(phase', sync, rv', job', sess', t.open, t.issued)
      BY <1>1 DEF IInv, Effect
    <2>2. /\ phase'[c] \in {"completed", "done"} /\ rv'[c] = r
          /\ \A d \in Call : d # c => phase'[d] = phase[d] /\ rv'[d] = rv[d] /\ job'[d] = job[d]
      BY <1>1 DEF Update
    <2>3. /\ job'[c].op = job[c].op /\ job'[c].session = job[c].session
          /\ job[c].op # "open" => job'[c].handle = job[c].handle
      BY <1>1, RunningFacts DEF Effect, HandleEffect
    <2>4. /\ token.user => t.user
          /\ job'[c].lasts => /\ phase'[c] = "done" \/ (phase'[c] = "completed" /\ rv'[c] = "OK")
                              /\ auth # "none" => t.user
      BY <1>1, <2>2 DEF Effect, LoginEffect
    <2>5. /\ \A h \in Handle :
                /\ (job'[c].op = "find" /\ h = job'[c].handle) \/ t.search[h] = token.search[h]
                /\ (job'[c].op \in KeyOp /\ h = job'[c].handle) \/ t.key[h] = token.key[h]
          /\ rv'[c] = "OK" /\ job'[c].op = "find" => t.search[job'[c].handle] = 0
          /\ rv'[c] = "OK" /\ job'[c].op \in KeyOp => t.key[job'[c].handle] = "none"
      BY <1>1, <2>2 DEF Effect, OperationEffect
    <2>6. /\ job'[c].at \in FindAt => job'[c].op = "find"
          /\ job'[c].at \in KeyAt => job'[c].op \in KeyOp
          /\ job'[c].at \in TokenAt => job'[c].op \in {"open", "interactive", "login"}
          /\ job'[c].at = "logout" => job'[c].op = "logout"
          /\ job'[c].at \in {"token_login", "key_login"} => ~job'[c].sent
          /\ auth = "pad" => ~job'[c].sent
          /\ phase'[c] \in {"running", "completed", "done"}
          /\ phase'[c] = "running" => job'[c].at # "none"
          /\ \A s \in Session : sess'[s] = sess[s] \/ (job[c].op = "open" /\ s = job[c].session)
      BY <1>1, <2>2 DEF FindAt, KeyAt, TokenAt
    <2> DEFINE ph2 == phase'
               r2 == rv'
               jb2 == job'
               ss2 == sess'
    <2> HIDE DEF ph2, r2, jb2, ss2
    <2>7. Good(ph2, sync, r2, jb2, ss2, t, auth)
      <3>1. /\ Typed(ph2, sync, r2, jb2, ss2)
            /\ Sound(ph2, sync, r2, jb2, ss2, t.open, t.issued)
            /\ ph2[c] \in {"running", "completed", "done"}
            /\ \A d \in Call : d # c => ph2[d] = phase[d] /\ r2[d] = rv[d] /\ jb2[d] = job[d]
            /\ jb2[c].op = job[c].op /\ jb2[c].session = job[c].session
            /\ job[c].op # "open" => jb2[c].handle = job[c].handle
        BY <2>1, <2>2, <2>3, <2>6 DEF ph2, r2, jb2, ss2
      <3>2. /\ \A s \in Session : ss2[s] = sess[s] \/ (job[c].op = "open" /\ s = job[c].session)
            /\ jb2[c].at \in FindAt => jb2[c].op = "find"
            /\ jb2[c].at \in KeyAt => jb2[c].op \in KeyOp
            /\ jb2[c].at \in TokenAt => jb2[c].op \in {"open", "interactive", "login"}
            /\ jb2[c].at = "logout" => jb2[c].op = "logout"
            /\ ph2[c] = "running" => jb2[c].at # "none"
            /\ jb2[c].at \in {"token_login", "key_login"} => ~jb2[c].sent
            /\ auth = "pad" => ~jb2[c].sent
        BY <2>6 DEF ph2, r2, jb2, ss2
      <3>3. /\ jb2[c].lasts => /\ ph2[c] = "done" \/ (ph2[c] = "completed" /\ r2[c] = "OK")
                               /\ auth # "none" => t.user
            /\ \A h \in Handle :
                  /\ (jb2[c].op = "find" /\ h = jb2[c].handle) \/ t.search[h] = token.search[h]
                  /\ (jb2[c].op \in KeyOp /\ h = jb2[c].handle) \/ t.key[h] = token.key[h]
            /\ ph2[c] # "running" /\ r2[c] = "OK" /\ jb2[c].op = "find" =>
                  t.search[jb2[c].handle] = 0
            /\ ph2[c] # "running" /\ r2[c] = "OK" /\ jb2[c].op \in KeyOp =>
                  t.key[jb2[c].handle] = "none"
        BY <2>4, <2>5 DEF ph2, r2, jb2, ss2
      <3>4. QED
        BY SMTT(30), <2>1, <2>4, <3>1, <3>2, <3>3, WorkGood
    <2>8. QED
      BY <1>1, <2>7 DEF ph2, r2, jb2, ss2
  <1>3. /\ cancelled' \in SUBSET Call /\ pool' \in Seq(Call) /\ completed' \in Seq(Call)
        /\ QueueOK(pool', phase', "pooled") /\ QueueOK(completed', phase', "completed")
    BY <1>1, ReturnQueues DEF Leave, Typed
  <1>4. QED
    BY <1>2, <1>3 DEF IInv

LEMMA ContinueStep ==
    ASSUME IInv, NEW c \in Call, phase[c] = "running", NEW j, NEW t,
           Effect(c, j, t, FALSE, "OK"), Continue(c, j, t), auth' = auth
    PROVE  IInv'
  <1>1. /\ Good(phase, sync, rv, job, sess, token, auth)
        /\ Typed(phase, sync, rv, job, sess)
        /\ Sound(phase, sync, rv, job, sess, token.open, token.issued)
        /\ j \in Job /\ t \in Token
        /\ j.op = job[c].op /\ j.session = job[c].session
        /\ AtEffect(c, j)
    BY DEF IInv, Good, Effect
  <1>2. /\ phase' = phase /\ sync' = sync /\ rv' = rv /\ sess' = sess /\ token' = t
        /\ cancelled' = cancelled /\ pool' = pool /\ completed' = completed
        /\ job' = [job EXCEPT ![c] = j]
    BY DEF Continue, callVars
  <1>3. /\ job'[c] = j /\ \A d \in Call : d # c => job'[d] = job[d]
        /\ Typed(phase, sync, rv, job', sess)
    BY <1>1, <1>2 DEF Typed
  <1>4. Others(phase, phase, rv, rv, job, job', c)
    BY <1>3 DEF Others, Same
  <1>5. Sound(phase, sync, rv, job', sess, t.open, t.issued)
    <2>1. CASE /\ job[c].at # "open" /\ j.handle = job[c].handle
               /\ t.open = token.open /\ t.issued = token.issued
      <3>1. /\ Same(job, job', c)
            /\ phase[c] \in {"pooled", "running"} /\ phase[c] \in {"running", "completed"}
            /\ job'[c].at = "open" => job[c].at = "open"
            /\ job'[c].at # "open" /\ phase[c] = "running" => job[c].at # "open"
            /\ phase[c] = "completed" /\ rv[c] = "OK" /\ job[c].op = "open" =>
                  job[c].handle # None
        BY <1>1, <1>3, <2>1 DEF Same, AtEffect
      <3>2. Sound(phase, sync, rv, job', sess, token.open, token.issued)
        BY <1>1, <1>3, <1>4, <3>1, MoveSound
      <3>3. QED
        BY <2>1, <3>2
    <2>2. CASE /\ job[c].at = "open"
               /\ j.handle \in Handle \ token.issued
               /\ t.open = token.open \union {j.handle}
               /\ t.issued = token.issued \union {j.handle}
      <3>1. /\ job'[c].op = job[c].op /\ job'[c].session = job[c].session
            /\ job'[c].handle = j.handle /\ job'[c].at # "open"
        BY <1>1, <1>3 DEF AtEffect
      <3>2. Sound(phase, sync, rv, job', sess, token.open \union {j.handle},
                  token.issued \union {j.handle})
        BY <1>1, <1>3, <1>4, <2>2, <3>1, ReceiveSound
      <3>3. QED
        BY <2>2, <3>2
    <2>3. QED
      BY <2>1, <2>2 DEF Effect, HandleEffect
  <1>6. Good(phase, sync, rv, job', sess, t, auth)
    <2>1. job[c].op # "open" => job'[c].handle = job[c].handle
      BY <1>3, RunningFacts DEF Effect, HandleEffect
    <2>2. /\ token.user => t.user
          /\ ~job'[c].lasts
          /\ job'[c].op = job[c].op /\ job'[c].session = job[c].session
      BY <1>1, <1>3 DEF Effect, LoginEffect, AtEffect
    <2>3. \A h \in Handle :
             /\ (job'[c].op = "find" /\ h = job'[c].handle) \/ t.search[h] = token.search[h]
             /\ (job'[c].op \in KeyOp /\ h = job'[c].handle) \/ t.key[h] = token.key[h]
      BY <1>3 DEF Effect, OperationEffect
    <2>4. /\ job'[c].at \in FindAt => job'[c].op = "find"
          /\ job'[c].at \in KeyAt => job'[c].op \in KeyOp
          /\ job'[c].at \in TokenAt => job'[c].op \in {"open", "interactive", "login"}
          /\ job'[c].at = "logout" => job'[c].op = "logout"
          /\ job'[c].at # "none"
          /\ job'[c].at \in {"token_login", "key_login"} => ~job'[c].sent
          /\ auth = "pad" => ~job'[c].sent
      BY <1>1, <1>3 DEF AtEffect
    <2> DEFINE ph2 == phase
               r2 == rv
               ss2 == sess
    <2>5. /\ Typed(ph2, sync, r2, job', ss2)
          /\ Sound(ph2, sync, r2, job', ss2, t.open, t.issued)
          /\ ph2[c] \in {"running", "completed", "done"} /\ ph2[c] = "running"
          /\ \A d \in Call : d # c => ph2[d] = phase[d] /\ r2[d] = rv[d] /\ job'[d] = job[d]
          /\ \A s \in Session : ss2[s] = sess[s] \/ (job[c].op = "open" /\ s = job[c].session)
      BY <1>3, <1>5
    <2> HIDE DEF ph2, r2, ss2
    <2>6. Good(ph2, sync, r2, job', ss2, t, auth)
      BY <1>1, <2>1, <2>2, <2>3, <2>4, <2>5, WorkGood
    <2>7. QED
      BY <2>6 DEF ph2, r2, ss2
  <1>7. QED
    BY <1>2, <1>6 DEF IInv

\* Nobody stays logged in.
LEMMA LogoutStep ==
    ASSUME IInv, NEW c \in Call, phase[c] = "running", Logout(c), token.user, auth' = auth
    PROVE  IInv'
  <1>1. /\ Good(phase, sync, rv, job, sess, token, auth)
        /\ Typed(phase, sync, rv, job, sess)
        /\ Sound(phase, sync, rv, job, sess, token.open, token.issued)
        /\ token \in Token /\ job[c].op = "logout"
    BY RunningFacts DEF IInv, Good, Logout
  <1> DEFINE w == IF c \in sync THEN "done" ELSE "completed"
  <1>2. /\ phase' = [phase EXCEPT ![c] = w] /\ rv' = [rv EXCEPT ![c] = "OK"]
        /\ sync' = sync /\ sess' = sess /\ w \in {"done", "completed"}
        /\ token' = [token EXCEPT !.user = FALSE]
        /\ job' = [x \in Call |-> [job[x] EXCEPT !.lasts = FALSE,
                                     !.at = IF x = c THEN "none" ELSE @]]
        /\ Returns(c, "OK")
    BY <1>1 DEF Logout, Returns, Typed
  <1>3. \A x \in Call : /\ job'[x] \in Job /\ Same(job, job', x)
                        /\ job'[x].sent = job[x].sent /\ ~job'[x].lasts
                        /\ x # c => job'[x].at = job[x].at
                        /\ x = c => job'[x].at = "none"
    <2> TAKE x \in Call
    <2> DEFINE f == FALSE
               a == IF x = c THEN "none" ELSE job[x].at
               k == [job[x] EXCEPT !.lasts = f, !.at = a]
    <2>1. job'[x] = k /\ f \in BOOLEAN /\ ~f /\ job[x] \in Job
      BY <1>1, <1>2 DEF Typed
    <2>2. a \in At
      BY <2>1 DEF Job, At
    <2> HIDE DEF f, a
    <2>3. /\ k \in Job /\ k.op = job[x].op /\ k.session = job[x].session
          /\ k.handle = job[x].handle /\ k.sent = job[x].sent /\ k.lasts = f /\ k.at = a
      BY <2>1, <2>2 DEF Job
    <2> HIDE DEF k
    <2>4. QED
      BY <2>1, <2>3 DEF Same, a
  <1>4. /\ token' \in Token /\ token'.open = token.open /\ token'.issued = token.issued
        /\ token'.search = token.search /\ token'.key = token.key
    <2> DEFINE b == FALSE
    <2>1. b \in BOOLEAN /\ token' = [token EXCEPT !.user = b]
      BY <1>2
    <2> HIDE DEF b
    <2>2. QED
      BY <1>1, <2>1, UserEffect
  <1>5. /\ Update(phase, phase', Call, c, w) /\ Update(rv, rv', Call, c, "OK")
        /\ phase' \in [Call -> Phase] /\ rv' \in [Call -> Rv]
    BY <1>1, <1>2, RvAssumption DEF Update, Typed, Phase
  <1>6. Typed(phase', sync', rv', job', sess')
    <2>1. job' \in [Call -> Job]
      BY <1>2, <1>3
    <2>2. QED
      BY <1>1, <1>2, <1>5, <2>1 DEF Typed
  <1>7. Others(phase, phase', rv, rv', job, job', c) /\ Same(job, job', c)
    BY <1>3, <1>5 DEF Others, Update
  <1>8. Sound(phase', sync', rv', job', sess', token'.open, token'.issued)
    <2>1. Typed(phase', sync, rv', job', sess)
      BY <1>2, <1>6
    <2>2. CASE c \in sync
      <3>1. /\ phase[c] \in {"running", "completed"} /\ phase'[c] = "done"
            /\ job[c].op # "open" /\ (job'[c].at = "open" => job[c].at = "open")
        BY <1>1, <1>3, <1>5, <2>2 DEF Update
      <3>2. Sound(phase', sync, rv', job', sess, token.open, token.issued)
        BY <1>1, <1>7, <2>1, <3>1, KeepSound
      <3>3. QED
        BY <1>2, <1>4, <3>2
    <2>3. CASE c \notin sync
      <3>1. /\ phase[c] \in {"pooled", "running"} /\ phase'[c] \in {"running", "completed"}
            /\ job'[c].at = "open" => job[c].at = "open"
            /\ job'[c].at # "open" /\ phase'[c] = "running" => job[c].at # "open"
            /\ phase'[c] = "completed" /\ rv'[c] = "OK" /\ job[c].op = "open" =>
                  job[c].handle # None
        BY <1>1, <1>3, <1>5, <2>3 DEF Update
      <3>2. Sound(phase', sync, rv', job', sess, token.open, token.issued)
        BY <1>1, <1>7, <2>1, <3>1, MoveSound
      <3>3. QED
        BY <1>2, <1>4, <3>2
    <2>4. QED
      BY <2>2, <2>3
  <1>9. AtOK(phase', job')
    <2>1. \A x \in Call : phase'[x] \in {"pooled", "running"} => x # c /\ phase[x] = phase'[x]
      BY <1>2, <1>5 DEF Update
    <2>2. QED
      BY <1>1, <1>3, <2>1 DEF Good, AtOK, Same, FindAt, KeyAt, TokenAt
  <1>10. PinsOK(job', auth)
    BY <1>1, <1>3 DEF Good, PinsOK
  <1>11. OperationsOK(phase', rv', job', token')
    <2>1. \A d \in Call : \A h :
          /\ Owner(phase, rv, job, d, {"find"}, h) =>
                Owner(phase', rv', job', d, {"find"}, h)
          /\ Owner(phase, rv, job, d, KeyOp, h) =>
                Owner(phase', rv', job', d, KeyOp, h)
      BY <1>1, <1>3, <1>5 DEF Owner, KeyOp, Same, Update
    <2>2. QED
      BY <1>1, <1>4, <2>1 DEF Good, OperationsOK
  <1>12. LoginsOK(phase', rv', job', sess', token', auth)
    BY <1>3 DEF LoginsOK
  <1>13. /\ cancelled' \in SUBSET Call /\ pool' \in Seq(Call) /\ completed' \in Seq(Call)
         /\ QueueOK(pool', phase', "pooled") /\ QueueOK(completed', phase', "completed")
    BY <1>2, <1>5, ReturnQueues
  <1>14. QED
    BY <1>4, <1>6, <1>8, <1>9, <1>10, <1>11, <1>12, <1>13 DEF IInv, Good

\* A thread takes a call from the pool.
LEMMA RunStep ==
    ASSUME IInv, NEW c \in Call, Runs(c), auth' = auth
    PROVE  IInv'
  <1>1. /\ Good(phase, sync, rv, job, sess, token, auth)
        /\ Typed(phase, sync, rv, job, sess)
        /\ Sound(phase, sync, rv, job, sess, token.open, token.issued)
        /\ pool \in Seq(Call) /\ completed \in Seq(Call) /\ cancelled \in SUBSET Call
        /\ QueueOK(pool, phase, "pooled") /\ QueueOK(completed, phase, "completed")
    BY DEF IInv, Good
  <1>2. /\ pool # <<>> /\ c = Head(pool) /\ pool' = Tail(pool)
        /\ sync' = sync /\ cancelled' = cancelled
        /\ job' = job /\ sess' = sess /\ token' = token
    BY DEF Runs, PoolRuns
  <1>3. /\ Tail(pool) \in Seq(Call) /\ phase[c] = "pooled"
        /\ \A n \in 1 .. Len(Tail(pool)) : Tail(pool)[n] # c /\ phase[Tail(pool)[n]] = "pooled"
        /\ \A m, n \in 1 .. Len(Tail(pool)) : Tail(pool)[m] = Tail(pool)[n] => m = n
    BY <1>1, <1>2, TailOK
  <1> DEFINE w == IF c \in cancelled THEN "completed" ELSE "running"
             r == IF c \in cancelled THEN "CANCELED" ELSE rv[c]
  <1>4. /\ Update(phase, phase', Call, c, w) /\ Update(rv, rv', Call, c, r)
        /\ phase' \in [Call -> Phase] /\ rv' \in [Call -> Rv]
    BY <1>1, RvAssumption DEF Runs, PoolRuns, Update, Typed, Phase
  <1>5. Typed(phase', sync, rv', job, sess)
    BY <1>1, <1>4 DEF Typed
  <1>6. Others(phase, phase', rv, rv', job, job, c) /\ Same(job, job, c)
    BY <1>4 DEF Others, Update, Same
  <1>7. /\ phase'[c] \in {"running", "completed"} /\ rv'[c] \in {rv[c], "CANCELED"}
        /\ phase'[c] = "completed" => rv'[c] = "CANCELED"
        /\ \A d \in Call : d # c => phase'[d] = phase[d] /\ rv'[d] = rv[d]
    BY <1>4 DEF Update
  <1>8. Sound(phase', sync, rv', job, sess, token.open, token.issued)
    <2> DEFINE jb2 == job
    <2>1. /\ Typed(phase', sync, rv', jb2, sess)
          /\ Others(phase, phase', rv, rv', job, jb2, c) /\ Same(job, jb2, c)
          /\ phase[c] \in {"pooled", "running"}
          /\ jb2[c].at = "open" => job[c].at = "open"
      BY <1>3, <1>5, <1>6
    <2>2. /\ phase'[c] = "completed" /\ rv'[c] = "OK" /\ job[c].op = "open" =>
                job[c].handle # None
      BY <1>7
    <2>3. CASE jb2[c].at # "open" /\ phase'[c] = "running" => job[c].at # "open"
      <3> HIDE DEF jb2
      <3>1. Sound(phase', sync, rv', jb2, sess, token.open, token.issued)
        BY <1>1, <1>7, <2>1, <2>2, <2>3, MoveSound
      <3>2. QED
        BY <3>1 DEF jb2
    <2>4. QED
      BY <2>3
  <1>9. AtOK(phase', job)
    BY <1>1, <1>3, <1>7 DEF Good, AtOK
  <1>10. OperationsOK(phase', rv', job, token)
    <2>1. \A d \in Call : \A ops, h : Owner(phase, rv, job, d, ops, h) => Owner(phase', rv', job, d, ops, h)
      BY <1>3, <1>7 DEF Owner
    <2>2. QED
      BY <1>1, <2>1 DEF Good, OperationsOK
  <1>11. LoginsOK(phase', rv', job, sess, token, auth)
    <2>1. ~job[c].lasts
      BY <1>1, <1>3 DEF Good, LoginsOK
    <2>2. \A d \in Call : d # c => (Opener(phase', job, d) <=> Opener(phase, job, d))
      BY <1>7 DEF Opener, Busy
    <2>3. QED
      BY <1>1, <1>7, <2>1, <2>2 DEF Good, LoginsOK
  <1>12. QueueOK(pool', phase', "pooled") /\ pool' \in Seq(Call)
    BY <1>2, <1>3, <1>7 DEF QueueOK
  <1>13. QueueOK(completed', phase', "completed") /\ completed' \in Seq(Call)
    <2>1. CASE c \in cancelled
      <3> DEFINE where == "completed"
      <3>1. QueueOK(completed, phase, where) /\ phase[c] # where /\ phase'[c] = where
        BY <1>1, <1>3, <1>4, <2>1 DEF Update
      <3>2. completed' = Append(completed, c)
        BY <2>1 DEF Runs, PoolRuns
      <3> HIDE DEF where
      <3>3. Append(completed, c) \in Seq(Call) /\ QueueOK(Append(completed, c), phase', where)
        BY <1>1, <1>7, <3>1, AppendOK
      <3>4. QED
        BY <3>2, <3>3 DEF where
    <2>2. CASE c \notin cancelled
      <3>1. completed' = completed
        BY <2>2 DEF Runs, PoolRuns
      <3>2. \A n \in 1 .. Len(completed) : completed[n] \in Call /\ completed[n] # c
        BY <1>1, <1>3 DEF QueueOK
      <3>3. QED
        BY <1>1, <1>7, <3>1, <3>2 DEF QueueOK
    <2>3. QED
      BY <2>1, <2>2
  <1>14. QED
    BY <1>1, <1>2, <1>5, <1>8, <1>9, <1>10, <1>11, <1>12, <1>13 DEF IInv, Good

LEMMA PerformStep ==
    ASSUME IInv, NEW c \in Call, Performs(c), auth' = auth
    PROVE  IInv'
  <1>1. phase[c] = "running"
    BY DEF Performs, OpenSession, TokenCheck, Ask, GivesUp, TokenLogin, AfterLogin, Login, Logout,
           FindInit, FindMore, FindFinal, KeyInit, KeyNeeds, KeyCheck, KeyLogin, KeySize, KeyResult,
           Continue, Leave, Returns
  <1>2. CASE Performed(c)
    <2>1. PICK j, t : \/ Continue(c, j, t) /\ Effect(c, j, t, FALSE, "OK")
                      \/ \E r : Leave(c, j, r, t) /\ Effect(c, j, t, TRUE, r)
      BY <1>2 DEF Performed
    <2>2. QED
      BY <1>1, <2>1, ContinueStep, LeaveStep
  <1>3. CASE Logout(c)
    BY <1>1, <1>2, <1>3, LogoutFails, LogoutStep
  <1>4. CASE Ask(c, "token_ask", "token_login") \/ Ask(c, "key_ask", "key_login")
    <2> DEFINE at1 == "token_ask"
               next1 == "token_login"
               at2 == "key_ask"
               next2 == "key_login"
    <2>1. /\ <<at1, next1>> \in {<<"token_ask", "token_login">>, <<"key_ask", "key_login">>}
          /\ <<at2, next2>> \in {<<"token_ask", "token_login">>, <<"key_ask", "key_login">>}
          /\ Ask(c, at1, next1) \/ Ask(c, at2, next2)
      BY <1>4
    <2> HIDE DEF at1, next1, at2, next2
    <2>2. Performed(c)
      BY <1>1, <2>1, AskPerformed
    <2>3. QED
      BY <1>2, <2>2
  <1>5. CASE \/ OpenSession(c) \/ TokenCheck(c) \/ TokenLogin(c) \/ Login(c)
             \/ FindInit(c) \/ FindMore(c) \/ FindFinal(c)
             \/ KeyInit(c) \/ KeyNeeds(c) \/ KeyCheck(c) \/ KeyLogin(c) \/ KeySize(c) \/ KeyResult(c)
    BY <1>1, <1>2, <1>5, OpenSessionPerformed, TokenCheckPerformed, TokenLoginPerformed,
       FindPerformed, KeyPerformed, KeyLoginPerformed
  <1>6. QED
    BY SMTT(30), <1>3, <1>4, <1>5 DEF Performs

-----------------------------------------------------------------------------
(* The theorems.                                                           *)

LEMMA InitIInv ==
    ASSUME Init
    PROVE  IInv
  <1> USE DEF Init, CallInit
  <1>1. /\ phase \in [Call -> Phase] /\ rv \in [Call -> Rv] /\ job \in [Call -> Job]
        /\ \A c \in Call : phase[c] = "new" /\ job[c] = NoJob
    BY RvAssumption, NoJobTyped DEF Phase
  <1>2. RawHandles \subseteq Handle
    BY RawAssumption DEF RawHandles
  <1>3. /\ sess \in [Session -> SessionObject]
        /\ \A s \in Session : /\ s \in Raw => sess[s].life = "live" /\ sess[s].handle = RawHandle[s]
                                             /\ sess[s].handle \in RawHandles
                              /\ s \notin Raw => sess[s].life = "unborn" /\ ~sess[s].held
    <2>1. \A s \in Raw : RawHandle[s] \in Handle /\ RawHandle[s] \in RawHandles
      BY RawAssumption DEF RawHandles
    <2>2. Unborn \in SessionObject /\ \A h \in Handle : Live(h) \in SessionObject
      BY DEF Unborn, Live, SessionObject
    <2>3. QED
      BY <2>1, <2>2 DEF Unborn, Live
  <1>4. token \in Token
    <2> DEFINE f == FALSE
               q == [h \in Handle |-> 0]
               k == [h \in Handle |-> "none"]
    <2>1. /\ f \in BOOLEAN /\ MaxTries \in 0 .. MaxTries
          /\ q \in [Handle -> 0 .. MaxFind + 1]
          /\ k \in [Handle -> {"none", "locked", "ready"}]
      BY TriesAssumption, FindAssumption
    <2>2. token = [open |-> RawHandles, issued |-> RawHandles, user |-> f, tries |-> MaxTries,
                   search |-> q, key |-> k]
      OBVIOUS
    <2> HIDE DEF f, q, k
    <2>3. QED
      BY <1>2, <2>1, <2>2 DEF Token
  <1>5. /\ token.open = RawHandles /\ token.issued = RawHandles
        /\ \A h \in Handle : token.search[h] = 0 /\ token.key[h] = "none"
    OBVIOUS
  <1>6. Sound(phase, sync, rv, job, sess, token.open, token.issued)
    <2>1. \A c \in Call : job[c].op = "none" /\ job[c].at = "none" /\ ~Busy(phase, c)
      BY <1>1 DEF NoJob, Busy
    <2>2. JobOK(phase, sync, job, sess, token.open) /\ OpeningOK(phase, rv, job)
      BY <1>1, <2>1 DEF JobOK, OpeningOK, Opener
    <2>3. HandlesApart(phase, job, sess)
      BY <1>3, <2>1, RawAssumption DEF HandlesApart, Opener
    <2>4. SessionOK(sess, token.open, token.issued)
      BY <1>2, <1>3, <1>5 DEF SessionOK
    <2>5. Holders(phase, rv, job, sess, token.open)
      BY <1>3, <1>5, RawAssumption DEF Holders, RawHandles
    <2>6. QED
      BY <2>2, <2>3, <2>4, <2>5 DEF Sound
  <1>7. AtOK(phase, job) /\ PinsOK(job, auth) /\ LoginsOK(phase, rv, job, sess, token, auth)
    BY <1>1 DEF AtOK, PinsOK, LoginsOK, NoJob, FindAt, KeyAt, TokenAt
  <1>8. OperationsOK(phase, rv, job, token)
    BY <1>5 DEF OperationsOK
  <1>9. QueueOK(pool, phase, "pooled") /\ QueueOK(completed, phase, "completed")
        /\ pool \in Seq(Call) /\ completed \in Seq(Call)
    BY DEF QueueOK
  <1>10. QED
    BY <1>1, <1>3, <1>4, <1>6, <1>7, <1>8, <1>9 DEF IInv, Good, Typed

LEMMA NextIInv ==
    ASSUME IInv, [Next]_vars
    PROVE  IInv'
  <1>1. CASE UNCHANGED vars
    BY <1>1 DEF IInv, vars, callVars
  <1>2. CASE Next
    <2>1. auth' = auth
      BY <1>2 DEF Next
    <2>2. ASSUME NEW c \in Call, NEW s \in Session, NEW login \in BOOLEAN,
                 OpenAsync(c, s, login) \/ OpenSync(c, s, login)
          PROVE  IInv'
      BY <2>1, <2>2, OpenStep
    <2>3. ASSUME NEW c \in Call, NEW s \in Session, NEW op \in SessionOp, NEW needs \in BOOLEAN,
                 CallAsync(c, s, op, needs) \/ CallSync(c, s, op, needs)
          PROVE  IInv'
      BY <2>1, <2>3, CallStep
    <2>4. ASSUME NEW s \in Session, Release(s) PROVE IInv'
      BY <2>1, <2>4, ReleaseStep
    <2>5. ASSUME NEW c \in Call, Runs(c) PROVE IInv'
      BY <2>1, <2>5, RunStep
    <2>6. ASSUME NEW c \in Call, Performs(c) PROVE IInv'
      BY <2>1, <2>6, PerformStep
    <2>7. ASSUME NEW c \in Call, Cancels(c) PROVE IInv'
      BY <2>1, <2>7, CancelStep
    <2>8. CASE Reports
      BY <2>1, <2>8, ReportStep
    <2>9. QED
      BY <1>2, <2>2, <2>3, <2>4, <2>5, <2>6, <2>7, <2>8 DEF Next, Step
  <1>3. QED
    BY <1>1, <1>2

\* The invariant holds, for any number of calls, sessions, handles, threads,
\* tries and batches.
THEOREM Invariance == Spec => []IInv
  <1>1. Init => IInv
    BY InitIInv
  <1>2. IInv /\ [Next]_vars => IInv'
    BY NextIInv
  <1>3. QED
    BY <1>1, <1>2, PTL DEF Spec

\* The state of the calls, of the session objects and of the token has its type:
\* in particular the count of the tries of a PIN does not go below zero.
THEOREM TypeCorrect == Spec => []TypeOK
  <1>1. IInv => TypeOK
    BY DEF IInv, Good, Typed, TypeOK, CallTypeOK
  <1>2. QED
    BY <1>1, Invariance, PTL

\* A thread of the pool never passes a handle to the token that was closed, and
\* no two session objects close the same handle, although the program drops
\* session objects while calls that copied their handles run
\* (gck_session_dispose, _gck_call_async_object).
THEOREM OpenHandlesUsed == Spec => []CallsUseOpenHandles
  <1>1. IInv => CallsUseOpenHandles
    <2> SUFFICES ASSUME IInv PROVE CallsUseOpenHandles
      OBVIOUS
    <2>1. Sound(phase, sync, rv, job, sess, token.open, token.issued)
      BY DEF IInv, Good
    <2>2. ASSUME NEW c \in Call, Pending(c), job[c].handle # None
          PROVE  job[c].handle \in token.open
      <3>1. Busy(phase, c) /\ phase[c] # "new"
        BY <2>2 DEF Pending, Busy
      <3>2. CASE job[c].op = "open"
        BY <2>1, <2>2, <3>1, <3>2 DEF Sound, JobOK, Opener
      <3>3. CASE job[c].op # "open"
        BY <2>1, <3>1, <3>3 DEF Sound, JobOK, SessionOK
      <3>4. QED
        BY <3>2, <3>3
    <2>3. QED
      BY <2>1, <2>2 DEF CallsUseOpenHandles, Sound, SessionOK, HandlesApart
  <1>2. QED
    BY <1>1, Invariance, PTL

\* Every open handle belongs to a session object or to an opening, but for those
\* of openings that did not succeed (perform_open_session).
THEOREM HandlesHaveHolders == Spec => []HandlesAreHeld
  <1>1. IInv => HandlesAreHeld
    BY DEF IInv, Good, Sound, Holders, HandlesAreHeld, Pending, Busy
  <1>2. QED
    BY <1>1, Invariance, PTL

\* The user stays logged in while a session lives that was opened or used for a
\* login, until somebody logs out: the last session of the token is not closed
\* under it, and whoever finds the user logged in counts on it rightly
\* (_gck_session_authenticate_token).
THEOREM LoginsLast == Spec => []LoginLasts
  <1>1. IInv => LoginLasts
    BY DEF IInv, Good, LoginsOK, LoginLasts
  <1>2. QED
    BY <1>1, Invariance, PTL

\* A search or a key operation is left behind only by a call that reports a
\* failure (perform_find_objects, perform_crypt).
THEOREM OperationsAreEnded == Spec => []OperationsEnd
  <1>1. IInv => OperationsEnd
    BY DEF IInv, Good, OperationsOK, Owner, OperationsEnd
  <1>2. QED
    BY <1>1, Invariance, PTL

\* No PIN is sent twice for one call without asking the user in between, and a
\* token with a pad is not asked to log in again after a wrong PIN.
THEOREM PinsSentOnce == Spec => []EachPinSentOnce
  <1>1. IInv => EachPinSentOnce
    BY DEF IInv, Good, PinsOK, EachPinSentOnce
  <1>2. QED
    BY <1>1, Invariance, PTL
=============================================================================
