------------------------- MODULE PromptSystemProofs -------------------------
(***************************************************************************)
(* Proofs about the service and one caller together: nobody is forgotten,  *)
(* answers are the user's, and nothing is kept for a prompt that is        *)
(* closed.  They are for any number of other callers, structures,          *)
(* operations and restarts of the prompter, and for sync and async         *)
(* operations.                                                             *)
(*                                                                         *)
(* The first part is about a caller that has not closed the prompt or      *)
(* given up a question (PromptPhases), the second about what questions     *)
(* hear that are dropped, and the third about what remains of a prompt     *)
(* that is closed.                                                         *)
(***************************************************************************)
EXTENDS PromptPhases, SystemPrompterProofs, ListLemmas

\* The inductive invariant.
SystemInv ==
    /\ IInv
    /\ CallerSound
    /\ BusOK
    /\ Phased
    /\ AskedIsPending
    /\ AskedOnce
    /\ OwnAnswers

-----------------------------------------------------------------------------
(* What is known of the operations.                                        *)

LEMMA OpFacts ==
    /\ 0 \in Op /\ NoOp = -1 /\ NoOp \notin Op /\ Client!NoOp = NoOp
    /\ \A o \in Op : o \in Nat /\ \A p \in 0 .. o - 1 : p \in Op
    /\ Client!UnusedOp \in Client!OpRecord
    /\ Client!UnusedOp.style = "unused" /\ Client!UnusedOp.call = "none"
    /\ Client!UnusedOp.idle = 0 /\ ~Client!UnusedOp.aborted /\ ~Client!UnusedOp.cancelled
    /\ ~Client!UnusedOp.leaked /\ ~Client!UnusedOp.timeout /\ ~Client!UnusedOp.waiting
    /\ Client!UnusedOp.results = << >> /\ Client!UnusedOp.error = "none"
  <1>1. /\ 0 \in Op /\ NoOp = -1 /\ NoOp \notin Op /\ Client!NoOp = NoOp
        /\ \A o \in Op : o \in Nat /\ \A p \in 0 .. o - 1 : p \in Op
    BY MaxOpAssumption DEF Op, Client!Op, NoOp, Client!NoOp
  <1>2. QED
    BY <1>1 DEF Client!UnusedOp, Client!OpRecord

LEMMA CallerFacts ==
    ASSUME CallerSound
    PROVE  /\ \A o \in Op : ops[o] \in Client!OpRecord
           /\ \A o \in Op : Client!Alive(o) \/ Finished(o) => Started(o)
           /\ Opened => Finished(0)
           /\ pending > 0 => pending \in Op \ {0} /\ Opened
           /\ \A o \in Op : o > 0 /\ ~Opened =>
                 /\ ~Started(o) /\ ~Finished(o) /\ ops[o] = Client!UnusedOp
                 /\ ops[o].call = "none" /\ ops[o].idle = 0
           /\ pending = 0 => ~Finished(0) /\ ~Opened
           /\ ops[0].call # "none" => ~Finished(0) /\ ~Opened /\ pending = NoOp /\ Started(0)
  <1>1. /\ ClientOK /\ PendingSound /\ OpeningSound /\ \A o \in Op : OpSound(o)
    BY DEF CallerSound, OpsSound
  <1>2. \A o \in Op : ops[o] \in Client!OpRecord
    BY <1>1 DEF ClientOK
  <1>3. \A o \in Op : ~Started(o) => ops[o] = Client!UnusedOp
    BY <1>1 DEF OpSound
  <1>4. \A o \in Op : Client!Alive(o) \/ Finished(o) => Started(o)
    <2>1. SUFFICES ASSUME NEW o \in Op, Client!Alive(o) \/ Finished(o), ~Started(o)
                   PROVE  FALSE
      OBVIOUS
    <2>2. pending # o
      BY <1>1, <2>1, OpFacts DEF PendingSound
    <2>3. QED
      BY <1>3, <2>1, <2>2, OpFacts DEF Client!Alive, Finished, Client!Finished
  <1>5. Opened => Finished(0)
    BY DEF Opened, Finished, Client!Opened
  <1>6. pending > 0 => pending \in Op \ {0} /\ Opened
    <2>1. SUFFICES ASSUME pending > 0 PROVE pending \in Op \ {0} /\ Opened
      OBVIOUS
    <2>2. pending \in Op \ {0}
      BY <1>1, <2>1, OpFacts DEF ClientOK
    <2>3. Started(pending)
      BY <1>1, <2>1, <2>2, OpFacts DEF PendingSound
    <2>4. QED
      BY <1>1, <2>1, <2>2, <2>3 DEF OpSound
  <1>7. \A o \in Op : o > 0 /\ ~Opened =>
            /\ ~Started(o) /\ ~Finished(o) /\ ops[o] = Client!UnusedOp
            /\ ops[o].call = "none" /\ ops[o].idle = 0
    BY <1>1, <1>3, <1>4, OpFacts DEF OpSound
  <1>8. pending = 0 => ~Finished(0) /\ ~Opened
    BY <1>1, <1>5, OpFacts DEF PendingSound
  <1>9. ops[0].call # "none" => ~Finished(0) /\ ~Opened /\ pending = NoOp /\ Started(0)
    BY <1>1, <1>4, <1>5, OpFacts DEF OpeningSound, Client!Alive
  <1>10. QED
    BY <1>2, <1>4, <1>5, <1>6, <1>7, <1>8, <1>9

-----------------------------------------------------------------------------
(* Lists of messages.                                                      *)

\* What is said of a list with more at its end.
LEMMA ListsAdd ==
    ASSUME NEW l \in Seq(ClientMessage), NEW f \in Seq(ClientMessage), NEW g, g = l \o f
    PROVE  /\ g \in Seq(ClientMessage)
           /\ NoReady(g) <=> NoReady(l) /\ NoReady(f)
           /\ OnlyNames(g) <=> OnlyNames(l) /\ OnlyNames(f)
           /\ \A q : NoReply(g, q) <=> NoReply(l, q) /\ NoReply(f, q)
           /\ \A q : NotFailed(g, q) <=> NotFailed(l, q) /\ NotFailed(f, q)
           /\ \A a : ReadySays(g, a) <=> ReadySays(l, a) /\ ReadySays(f, a)
           /\ OneReady(l) /\ NoReady(f) => OneReady(g)
           /\ NoReady(l) /\ OneReady(f) => OneReady(g)
           /\ \A p : HasReady(g, p) <=> HasReady(l, p) \/ HasReady(f, p)
           /\ \A k, q : ReturnFirst(l, k, q) => ReturnFirst(g, k, q)
           /\ \A k, q : NoReady(l) /\ ReturnFirst(f, k, q) => ReturnFirst(g, k, q)
  <1> DEFINE n == Len(l)
             k == Len(f)
  <1>1. n \in Nat /\ k \in Nat /\ Len(g) = n + k /\ g \in Seq(ClientMessage)
    BY ConcatIs
  <1>2. \A i \in 1 .. n : i \in 1 .. Len(g) /\ g[i] = l[i]
    BY ConcatIs
  <1>3. \A i \in 1 .. k : n + i \in 1 .. Len(g) /\ g[n + i] = f[i]
    BY ConcatIs
  <1>4. \A i \in 1 .. Len(g) : (i \in 1 .. n /\ g[i] = l[i])
                               \/ (i - n \in 1 .. k /\ g[i] = f[i - n] /\ i > n)
    BY ConcatIs
  <1> HIDE DEF n, k
  <1>5. /\ NoReady(g) <=> NoReady(l) /\ NoReady(f)
        /\ OnlyNames(g) <=> OnlyNames(l) /\ OnlyNames(f)
    <2>1. NoReady(g) <=> NoReady(l) /\ NoReady(f)
      BY ZenonT(60), <1>2, <1>3, <1>4 DEF NoReady, n, k
    <2>2. OnlyNames(g) <=> OnlyNames(l) /\ OnlyNames(f)
      <3>1. OnlyNames(g) => OnlyNames(l)
        BY <1>2 DEF OnlyNames, n
      <3>2. OnlyNames(g) => OnlyNames(f)
        BY <1>3 DEF OnlyNames, k
      <3>3. OnlyNames(l) /\ OnlyNames(f) => OnlyNames(g)
        BY <1>4 DEF OnlyNames, n, k
      <3>4. QED
        BY <3>1, <3>2, <3>3
    <2>3. QED
      BY <2>1, <2>2
  <1>6. ASSUME NEW q
        PROVE  /\ NoReply(g, q) <=> NoReply(l, q) /\ NoReply(f, q)
               /\ NotFailed(g, q) <=> NotFailed(l, q) /\ NotFailed(f, q)
               /\ ReadySays(g, q) <=> ReadySays(l, q) /\ ReadySays(f, q)
               /\ HasReady(g, q) <=> HasReady(l, q) \/ HasReady(f, q)
    <2>1. NoReply(g, q) <=> NoReply(l, q) /\ NoReply(f, q)
      BY ZenonT(60), <1>2, <1>3, <1>4 DEF NoReply, n, k
    <2>2. NotFailed(g, q) <=> NotFailed(l, q) /\ NotFailed(f, q)
      <3>1. NotFailed(g, q) => NotFailed(l, q)
        BY <1>2 DEF NotFailed, n
      <3>2. NotFailed(g, q) => NotFailed(f, q)
        BY <1>3 DEF NotFailed, k
      <3>3. NotFailed(l, q) /\ NotFailed(f, q) => NotFailed(g, q)
        BY <1>4 DEF NotFailed, n, k
      <3>4. QED
        BY <3>1, <3>2, <3>3
    <2>3. ReadySays(g, q) <=> ReadySays(l, q) /\ ReadySays(f, q)
      <3>1. ReadySays(g, q) => ReadySays(l, q)
        BY <1>2 DEF ReadySays, n
      <3>2. ReadySays(g, q) => ReadySays(f, q)
        BY <1>3 DEF ReadySays, k
      <3>3. ReadySays(l, q) /\ ReadySays(f, q) => ReadySays(g, q)
        BY <1>4 DEF ReadySays, n, k
      <3>4. QED
        BY <3>1, <3>2, <3>3
    <2>4. HasReady(g, q) <=> HasReady(l, q) \/ HasReady(f, q)
      BY <1>2, <1>3, <1>4 DEF HasReady, n, k
    <2>5. QED
      BY <2>1, <2>2, <2>3, <2>4
  <1>7. /\ OneReady(l) /\ NoReady(f) => OneReady(g)
        /\ NoReady(l) /\ OneReady(f) => OneReady(g)
    <2>1. ASSUME OneReady(l), NoReady(f) PROVE OneReady(g)
      <3>1. \A i \in 1 .. Len(g) : g[i].msg = "Ready" => i \in 1 .. n /\ g[i] = l[i]
        BY <1>4, <2>1 DEF NoReady, k
      <3>2. QED
        BY <2>1, <3>1 DEF OneReady, n
    <2>2. ASSUME NoReady(l), OneReady(f) PROVE OneReady(g)
      <3>1. \A i \in 1 .. Len(g) : g[i].msg = "Ready" => i - n \in 1 .. k /\ g[i] = f[i - n]
        BY <1>4, <2>2 DEF NoReady, n
      <3>2. SUFFICES ASSUME NEW i \in 1 .. Len(g), NEW j \in 1 .. Len(g),
                            g[i].msg = "Ready", g[j].msg = "Ready"
                     PROVE  i = j
        BY DEF OneReady
      <3>3. i - n = j - n
        BY <2>2, <3>1, <3>2 DEF OneReady, k
      <3>4. QED
        BY <1>1, <3>3
    <2>3. QED
      BY <2>1, <2>2
  <1>8. ASSUME NEW method, NEW q, ReturnFirst(l, method, q)
        PROVE  ReturnFirst(g, method, q)
    <2>1. PICK j \in 1 .. n :
              /\ l[j].msg = "Return" /\ l[j].arg = method /\ l[j].op = q
              /\ \A i \in 1 .. n : l[i].msg = "Ready" => j < i
      BY <1>8 DEF ReturnFirst, n
    <2>2. \A i \in 1 .. Len(g) : g[i].msg = "Ready" => j < i
      BY <1>1, <1>4, <2>1
    <2>3. QED
      BY <1>2, <2>1, <2>2 DEF ReturnFirst
  <1>9. ASSUME NEW method, NEW q, NoReady(l), ReturnFirst(f, method, q)
        PROVE  ReturnFirst(g, method, q)
    <2>1. PICK j \in 1 .. k :
              /\ f[j].msg = "Return" /\ f[j].arg = method /\ f[j].op = q
              /\ \A i \in 1 .. k : f[i].msg = "Ready" => j < i
      BY <1>9 DEF ReturnFirst, k
    <2>2. \A i \in 1 .. Len(g) : g[i].msg = "Ready" => n + j < i
      BY <1>1, <1>4, <1>9, <2>1 DEF NoReady, n
    <2>3. QED
      BY <1>3, <2>1, <2>2 DEF ReturnFirst
  <1>10. QED
    BY <1>1, <1>5, <1>6, <1>7, <1>8, <1>9

\* What is said of a list without its i-th element.
LEMMA ListsRemove ==
    ASSUME NEW l \in Seq(ClientMessage), NEW i \in 1 .. Len(l), NEW g, g = RemoveAt(l, i)
    PROVE  /\ g \in Seq(ClientMessage)
           /\ \A j \in 1 .. Len(g) : \E k \in 1 .. Len(l) : g[j] = l[k]
           /\ NoReady(l) => NoReady(g)
           /\ OneReady(l) => OneReady(g)
           /\ OneReady(l) /\ l[i].msg = "Ready" => NoReady(g)
           /\ OnlyNames(l) => OnlyNames(g)
           /\ \A q : NoReply(l, q) => NoReply(g, q)
           /\ \A q : NotFailed(l, q) => NotFailed(g, q)
           /\ \A a : ReadySays(l, a) => ReadySays(g, a)
           /\ \A p : HasReady(l, p) /\ l[i].msg # "Ready" => HasReady(g, p)
           /\ \A k, q : /\ ReturnFirst(l, k, q)
                        /\ ~(l[i].msg = "Return" /\ l[i].arg = k /\ l[i].op = q)
                        => ReturnFirst(g, k, q)
  <1> DEFINE n == Len(l)
             at(j) == PlaceOf(i, j)
  <1>1. i \in 1 .. n
    OBVIOUS
  <1>7. /\ n \in Nat /\ g \in Seq(ClientMessage)
        /\ \A j \in 1 .. Len(g) :
              /\ j \in Nat /\ at(j) \in 1 .. n /\ at(j) # i /\ g[j] = l[at(j)]
              /\ \A k \in 1 .. Len(g) : at(j) = at(k) => j = k
              /\ \A k \in 1 .. Len(g) : at(j) < at(k) => j < k
        /\ \A k \in 1 .. n : k # i => \E j \in 1 .. Len(g) : at(j) = k
    BY RemoveAtPlaces
  <1> HIDE DEF at, n
  <1>8. \A j \in 1 .. Len(g) : \E k \in 1 .. n : k # i /\ g[j] = l[k]
    BY <1>7
  <1>9. /\ NoReady(l) => NoReady(g)
        /\ OneReady(l) /\ l[i].msg = "Ready" => NoReady(g)
        /\ OnlyNames(l) => OnlyNames(g)
    BY <1>1, <1>8 DEF NoReady, OneReady, OnlyNames, n
  <1>10. OneReady(l) => OneReady(g)
    BY <1>7 DEF OneReady, n
  <1>11. ASSUME NEW q
         PROVE  /\ NoReply(l, q) => NoReply(g, q)
                /\ NotFailed(l, q) => NotFailed(g, q)
                /\ ReadySays(l, q) => ReadySays(g, q)
    BY <1>8 DEF NoReply, NotFailed, ReadySays, n
  <1>12. ASSUME NEW p, HasReady(l, p), l[i].msg # "Ready" PROVE HasReady(g, p)
    <2>1. PICK k \in 1 .. n : l[k].msg = "Ready" /\ l[k].prompt = p
      BY <1>12 DEF HasReady, n
    <2>2. PICK j \in 1 .. Len(g) : at(j) = k
      BY <1>7, <1>12, <2>1
    <2>3. QED
      BY <1>7, <2>1, <2>2 DEF HasReady
  <1>13. ASSUME NEW method, NEW q, ReturnFirst(l, method, q),
                ~(l[i].msg = "Return" /\ l[i].arg = method /\ l[i].op = q)
         PROVE  ReturnFirst(g, method, q)
    <2>1. PICK k \in 1 .. n :
              /\ l[k].msg = "Return" /\ l[k].arg = method /\ l[k].op = q
              /\ \A j \in 1 .. n : l[j].msg = "Ready" => k < j
      BY <1>13 DEF ReturnFirst, n
    <2>2. PICK j \in 1 .. Len(g) : at(j) = k
      BY <1>7, <1>13, <2>1
    <2>3. \A m \in 1 .. Len(g) : g[m].msg = "Ready" => j < m
      BY <1>7, <2>1, <2>2
    <2>4. QED
      BY <1>7, <2>1, <2>2, <2>3 DEF ReturnFirst
  <1>14. \A j \in 1 .. Len(g) : \E k \in 1 .. Len(l) : g[j] = l[k]
    BY <1>7 DEF n
  <1>15. QED
    BY <1>7, <1>9, <1>10, <1>11, <1>12, <1>13, <1>14

-----------------------------------------------------------------------------
(* What the functions of the service do to the caller's place.             *)

\* Its place is left alone, ...
Alike(st, new) ==
    /\ me \in new.callbacks <=> me \in st.callbacks
    /\ new.active[me] = st.active[me]
    /\ ServerOf(new) = ServerOf(st)
    /\ new.out[me] = st.out[me]

\* ... or its turn has come.
Shown(st, new) ==
    /\ me \in st.callbacks /\ me \in new.callbacks
    /\ st.active[me] = None /\ new.active[me] \in Prompt
    /\ ServerOf(new) = SendReady(NewPrompt(me))
    /\ new.out[me] = Append(st.out[me], Ready("none"))

LEMMA ServerParts ==
    ASSUME NEW st, NEW h, Sound(st, h), st.active[me] # None,
           NEW p, p = st.active[me]
    PROVE  /\ p \in Prompt /\ me \in st.callbacks /\ IsIn(st, p)
           /\ ServerOf(st) = st.prompts[p] /\ st.prompts[p] \in PromptRecord
           /\ PromptOK(st.prompts[p], 1, One(p = h))
           /\ st.prompts[p].refs > 0 /\ ~st.prompts[p].cancelled
           /\ st.prompts[p].callback = me
  <1>1. p \in Prompt /\ IsIn(st, p) /\ me \in st.callbacks
    <2>1. st.active[me] \in Prompt \union {None}
      BY SoundParts, MeAssumption
    <2>2. me \in st.callbacks
      BY MeAssumption DEF Sound
    <2>3. QED
      BY <2>1, <2>2, MeAssumption DEF IsIn
  <1>2. st.prompts[p] \in PromptRecord /\ st.prompts[p].callback = me
    BY <1>1, SoundParts, MeAssumption
  <1>3. PromptOK(st.prompts[p], 1, One(p = h))
    BY <1>1, SoundParts DEF InTables, One
  <1>4. st.prompts[p].refs > 0 /\ ~st.prompts[p].cancelled
    BY <1>2, <1>3 DEF PromptOK, PromptRecord, One
  <1>5. QED
    BY <1>1, <1>2, <1>3, <1>4 DEF ServerOf

LEMMA NextReadyMe ==
    ASSUME NEW st, NEW h, Sound(st, h), NEW new \in NextReady(st)
    PROVE  Alike(st, new) \/ Shown(st, new)
  <1>1. CASE Busy(st) \/ Heads(st) = {}
    BY <1>1 DEF NextReady, Alike
  <1>2. CASE ~(Busy(st) \/ Heads(st) = {})
    <2>1. PICK c \in Heads(st), p \in Unused(st) : new = Activated(st, c, p)
      BY <1>2 DEF NextReady
    <2>2. /\ c \in Callback /\ IsHead(st.waiting, c)
          /\ p \in Prompt /\ st.prompts[p].refs = 0
      BY <2>1 DEF Heads, Unused
    <2>3. /\ st.active \in [Callback -> Prompt \union {None}]
          /\ st.prompts \in [Prompt -> PromptRecord]
          /\ st.out \in [Callback -> Seq(Message)]
          /\ st.waiting[c] # {}
      BY <2>2, SoundParts DEF IsHead
    <2> DEFINE pr == SendReady(NewPrompt(c))
    <2> HIDE DEF pr
    <2>4. /\ new.callbacks = st.callbacks
          /\ new.active = Put(st.active, c, p)
          /\ new.prompts = Put(st.prompts, p, pr)
          /\ new.out = Put(st.out, c, Append(st.out[c], Ready("none")))
      BY <2>1 DEF Activated, pr
    <2>5. CASE c = me
      <3>1. me \in st.callbacks /\ st.active[me] = None
        BY <2>3, <2>5, MeAssumption DEF Sound
      <3>2. /\ new.active[me] = p /\ p # None /\ new.prompts[p] = pr
            /\ new.out[me] = Append(st.out[me], Ready("none"))
        BY <2>2, <2>3, <2>4, <2>5, NoneAssumption, MeAssumption DEF Put
      <3>3. QED
        BY <2>2, <2>4, <2>5, <3>1, <3>2 DEF Shown, ServerOf, pr
    <2>6. CASE c # me
      <3>1. new.active[me] = st.active[me] /\ new.out[me] = st.out[me]
        BY <2>3, <2>4, <2>6, MeAssumption DEF Put
      <3>2. ASSUME st.active[me] # None PROVE st.active[me] # p
        <4>1. st.prompts[st.active[me]].refs > 0
          BY <3>2, ServerParts
        <4>2. QED
          BY <2>2, <4>1
      <3>3. ServerOf(new) = ServerOf(st)
        <4>1. st.active[me] # None => st.active[me] \in Prompt
          BY <2>3, MeAssumption
        <4>2. QED
          BY <2>3, <2>4, <3>1, <3>2, <4>1 DEF ServerOf, Put
      <3>4. QED
        BY <2>4, <3>1, <3>3 DEF Alike
    <2>7. QED
      BY <2>5, <2>6
  <1>3. QED
    BY <1>1, <1>2

LEMMA StopMe ==
    ASSUME NEW st, NEW h, Sound(st, h), NEW S, NEW notice, NEW new,
           new = StopPrompting(st, S, notice)
    PROVE  IF me \in S /\ me \in st.callbacks
           THEN /\ me \notin new.callbacks /\ new.active[me] = None
                /\ ServerOf(new) = FreePrompt
                /\ new.out[me] = st.out[me] \o notice
           ELSE Alike(st, new)
  <1> DEFINE stopped == Begun(st, S)
             hit(p) == \E c \in stopped : st.active[c] = p
  <1>1. /\ stopped \subseteq Callback
        /\ me \in stopped <=> me \in S /\ me \in st.callbacks
    BY SoundParts DEF Begun
  <1>2. /\ new.callbacks = st.callbacks \ stopped
        /\ new.active = [c \in Callback |->
                            IF c \in stopped THEN None ELSE st.active[c]]
        /\ new.prompts = [p \in Prompt |->
                            IF hit(p) THEN Closed(st.prompts[p]) ELSE st.prompts[p]]
        /\ new.out = [c \in Callback |->
                            IF c \in stopped THEN st.out[c] \o notice ELSE st.out[c]]
    BY DEF StopPrompting
  <1> HIDE DEF stopped
  <1>3. CASE me \in stopped
    BY <1>1, <1>2, <1>3, MeAssumption DEF ServerOf
  <1>4. CASE me \notin stopped
    <2>1. new.active[me] = st.active[me] /\ new.out[me] = st.out[me]
      BY <1>2, <1>4, MeAssumption
    <2>2. ASSUME st.active[me] # None
          PROVE  new.prompts[st.active[me]] = st.prompts[st.active[me]]
      <3>1. st.active[me] \in Prompt /\ st.prompts[st.active[me]].callback = me
        BY <2>2, ServerParts
      <3>2. ~hit(st.active[me])
        BY <1>1, <1>4, <2>2, <3>1, SoundParts
      <3>3. QED
        BY <1>2, <3>1, <3>2
    <2>3. QED
      BY <1>1, <1>2, <1>4, <2>1, <2>2 DEF Alike, ServerOf
  <1>5. QED
    BY <1>1, <1>3, <1>4

LEMMA PostMe ==
    ASSUME NEW st \in TableRecord, NEW c \in Callback, NEW m, NEW new, new = Post(st, c, m)
    PROVE  /\ me \in new.callbacks <=> me \in st.callbacks
           /\ new.active[me] = st.active[me]
           /\ ServerOf(new) = ServerOf(st)
           /\ new.out[me] = IF c = me THEN Append(st.out[me], m) ELSE st.out[me]
  <1>1. /\ new.callbacks = st.callbacks /\ new.active = st.active
        /\ new.prompts = st.prompts
        /\ new.out = Put(st.out, c, Append(st.out[c], m))
    BY DEF Post, TableRecord
  <1>2. st.out \in [Callback -> Seq(Message)]
    BY DEF TableRecord
  <1>3. QED
    BY <1>1, <1>2, MeAssumption DEF ServerOf, Put

LEMMA PostOwn ==
    ASSUME NEW st \in TableRecord, NEW m, NEW new, new = Post(st, me, m)
    PROVE  /\ me \in new.callbacks <=> me \in st.callbacks
           /\ new.active[me] = st.active[me]
           /\ ServerOf(new) = ServerOf(st)
           /\ new.out[me] = Append(st.out[me], m)
  <1> DEFINE Facts(c) == /\ me \in new.callbacks <=> me \in st.callbacks
                         /\ new.active[me] = st.active[me]
                         /\ ServerOf(new) = ServerOf(st)
                         /\ new.out[me] = IF c = me THEN Append(st.out[me], m) ELSE st.out[me]
  <1>1. me \in Callback
    BY MeAssumption
  <1>2. \A c \in Callback : new = Post(st, c, m) => Facts(c)
    BY PostMe
  <1> HIDE DEF Facts
  <1>3. Facts(me)
    BY <1>1, <1>2
  <1>4. QED
    BY <1>3 DEF Facts

LEMMA UpdateMe ==
    ASSUME NEW st \in TableRecord, NEW p \in Prompt, NEW pr, NEW new, new = Update(st, p, pr)
    PROVE  /\ me \in new.callbacks <=> me \in st.callbacks
           /\ new.active[me] = st.active[me]
           /\ new.out[me] = st.out[me]
           /\ ServerOf(new) = IF st.active[me] = p THEN pr ELSE ServerOf(st)
  <1>1. /\ new.callbacks = st.callbacks /\ new.active = st.active
        /\ new.out = st.out /\ new.prompts = Put(st.prompts, p, pr)
    BY DEF Update, TableRecord
  <1>2. /\ st.prompts \in [Prompt -> PromptRecord]
        /\ st.active[me] \in Prompt \union {None}
    BY MeAssumption DEF TableRecord
  <1>3. QED
    BY <1>1, <1>2, NoneAssumption DEF ServerOf, Put

LEMMA EnqueuedMe ==
    ASSUME NEW st \in TableRecord, NEW c, NEW new, new = Enqueued(st, c)
    PROVE  /\ me \in new.callbacks <=> me \in st.callbacks \/ c = me
           /\ new.active[me] = st.active[me]
           /\ ServerOf(new) = ServerOf(st)
           /\ new.out[me] = st.out[me]
  <1>1. /\ new.callbacks = st.callbacks \union {c} /\ new.active = st.active
        /\ new.out = st.out /\ new.prompts = st.prompts
    BY DEF Enqueued, TableRecord
  <1>2. QED
    BY <1>1 DEF ServerOf

-----------------------------------------------------------------------------
(* What a step of the service does to the caller's place, and what it tells *)
(* the caller.                                                             *)

Stays(said) ==
    /\ me \in callbacks' <=> me \in callbacks
    /\ active'[me] = active[me]
    /\ Server' = Server
    /\ out'[me] = said
Turns(said) ==
    /\ active[me] = None /\ (said = <<>> => me \in callbacks)
    /\ me \in callbacks' /\ active'[me] \in Prompt
    /\ Server' = SendReady(NewPrompt(me))
    /\ out'[me] = Append(said, Ready("none"))
Leaves(said) ==
    /\ me \notin callbacks' /\ active'[me] = None
    /\ Server' = FreePrompt
    /\ out'[me] = said

LEMMA TablesSound ==
    ASSUME IInv
    PROVE  /\ Sound(Tables, None) /\ Tables \in TableRecord
           /\ Tables.callbacks = callbacks /\ Tables.active = active
           /\ Tables.prompts = prompts /\ Tables.out[me] = <<>>
           /\ active[me] \in Prompt \union {None}
           /\ prompts \in [Prompt -> PromptRecord]
  <1>1. Sound(Tables, None) /\ Tables.active = active /\ Tables.prompts = prompts
    BY TablesParts DEF IInv
  <1>2. Tables.out = Silence /\ Tables.callbacks = callbacks
    BY DEF Tables
  <1>3. QED
    BY <1>1, <1>2, SoundParts, MeAssumption DEF Silence

LEMMA BecomeMe ==
    ASSUME NEW st, Become(st)
    PROVE  /\ callbacks' = st.callbacks /\ active'[me] = st.active[me]
           /\ Server' = ServerOf(st) /\ out'[me] = st.out[me]
  <1>1. /\ callbacks' = st.callbacks /\ active' = st.active
        /\ prompts' = st.prompts /\ out' = st.out
    BY DEF Become
  <1>2. Server' = IF active'[me] = None THEN FreePrompt ELSE prompts'[active'[me]]
    BY DEF Server, ServerOf, Tables
  <1>3. QED
    BY <1>1, <1>2 DEF ServerOf

LEMMA Unmoved ==
    ASSUME IInv, NEW st, Alike(Tables, st), Become(st)
    PROVE  Stays(<<>>)
  BY TablesSound, BecomeMe DEF Alike, Stays, Server

LEMMA Moved ==
    ASSUME IInv, NEW st, Shown(Tables, st), Become(st)
    PROVE  Turns(<<>>)
  BY TablesSound, BecomeMe DEF Shown, Turns, Server

\* From a state like the present one the queue may go on.
LEMMA NextReadyStep ==
    ASSUME IInv, NEW st, NEW h, Sound(st, h), Alike(Tables, st),
           NEW new \in NextReady(st)
    PROVE  Alike(Tables, new) \/ Shown(Tables, new)
  <1>1. Alike(st, new) \/ Shown(st, new)
    BY NextReadyMe
  <1>2. QED
    BY <1>1 DEF Alike, Shown

LEMMA OthersBegin ==
    ASSUME IInv, NEW d \in Others, BeginPrompting(d)
    PROVE  Stays(<<>>) \/ Turns(<<>>)
  <1>0. d \in Callback /\ d # me
    BY DEF Others
  <1>1. CASE d \in callbacks
    <2>1. Become(Post(Tables, d, Reply("Failed", "Begin")))
      BY <1>1 DEF BeginPrompting
    <2>2. Alike(Tables, Post(Tables, d, Reply("Failed", "Begin")))
      BY <1>0, TablesSound, PostMe DEF Alike
    <2>3. QED
      BY <2>1, <2>2, Unmoved
  <1>2. CASE d \notin callbacks
    <2> DEFINE queued == Enqueued(Tables, d)
               joined == Post(queued, d, Reply("Return", "Begin"))
    <2>1. Sound(queued, None)
      BY <1>0, <1>2, EnqueuedSound, TablesSound
    <2>2. Alike(Tables, queued)
      BY <1>0, EnqueuedMe, TablesSound DEF Alike
    <2> HIDE DEF queued
    <2>3. queued \in TableRecord
      BY <2>1, SoundParts
    <2>4. Sound(joined, None)
      BY <1>0, <2>1, PostSound, ReplyIsMessage
    <2>5. Alike(queued, joined)
      BY <1>0, <2>3, PostMe DEF Alike
    <2>6. \E st \in NextReady(joined) : Become(st)
      BY <1>2 DEF BeginPrompting, queued
    <2> HIDE DEF joined
    <2>7. PICK st \in NextReady(joined) : Become(st)
      BY <2>6
    <2>8. Alike(Tables, joined)
      BY <2>2, <2>5 DEF Alike
    <2>9. QED
      BY <2>4, <2>7, <2>8, NextReadyStep, Unmoved, Moved
  <1>3. QED
    BY <1>1, <1>2

LEMMA OthersPerform ==
    ASSUME IInv, NEW d \in Others, NEW type, NEW valid, PerformPrompt(d, type, valid)
    PROVE  Stays(<<>>)
  <1> DEFINE p == active[d]
  <1>0. d \in Callback /\ d # me
    BY DEF Others
  <1>1. ASSUME NEW r, Become(Post(Tables, d, r)) PROVE Stays(<<>>)
    <2>1. Alike(Tables, Post(Tables, d, r))
      BY <1>0, TablesSound, PostMe DEF Alike
    <2>2. QED
      BY <1>1, <2>1, Unmoved
  <1>2. ASSUME p # None, NEW pr \in PromptRecord, NEW r,
               Become(Post(Update(Tables, p, pr), d, r))
        PROVE  Stays(<<>>)
    <2>1. p \in Prompt /\ prompts[p].callback = d
      BY <1>0, <1>2, TablesSound, SoundParts
    <2>2. active[me] # p
      BY <1>0, <1>2, <2>1, TablesSound, ServerParts
    <2>3. Alike(Tables, Update(Tables, p, pr))
      BY <2>1, <2>2, TablesSound, UpdateMe DEF Alike
    <2>4. Update(Tables, p, pr) \in TableRecord
      <3>1. /\ Tables \in TableRecord
            /\ Put(Tables.prompts, p, pr) \in [Prompt -> PromptRecord]
        BY <1>2, TablesSound DEF Put
      <3> DEFINE changed == Put(Tables.prompts, p, pr)
      <3>2. Update(Tables, p, pr) = [Tables EXCEPT !.prompts = changed]
        BY DEF Update
      <3> HIDE DEF changed
      <3>3. changed \in [Prompt -> PromptRecord]
        BY <3>1 DEF changed
      <3>4. QED
        BY <3>1, <3>2, <3>3 DEF TableRecord
    <2> DEFINE st == Update(Tables, p, pr)
    <2> HIDE DEF st
    <2>5. Alike(st, Post(st, d, r))
      BY <1>0, <2>4, PostMe DEF Alike, st
    <2>6. Alike(Tables, Post(st, d, r))
      BY <2>3, <2>5 DEF Alike, st
    <2>7. QED
      BY <1>2, <2>6, Unmoved DEF st
  <1>3. CASE p = None \/ ~prompts[p].ready \/ ~valid
    BY <1>1, <1>3 DEF PerformPrompt
  <1>4. CASE ~(p = None \/ ~prompts[p].ready \/ ~valid)
    <2>1. /\ Performing(prompts[p]) \in PromptRecord
          /\ [prompts[p] EXCEPT !.received = TRUE] \in PromptRecord
      <3>1. /\ p \in Prompt /\ IsIn(Tables, p) /\ InTables(Tables, p) = 1
            /\ One(p = None) = 0 /\ prompts[p] \in PromptRecord
        BY <1>0, <1>4, SoundParts, TablesSound, NoneAssumption DEF InTables, IsIn, One
      <3>2. PromptOK(prompts[p], 1, 0)
        BY <3>1, SoundParts, TablesSound
      <3>3. prompts[p].refs > 0
        BY <3>1, <3>2 DEF PromptOK, PromptRecord
      <3>4. QED
        BY <1>4, <3>1, <3>2, <3>3, PerformingOK, ReceivedOK
    <2>2. QED
      BY <1>2, <1>4, <2>1 DEF PerformPrompt
  <1>5. QED
    BY <1>3, <1>4

LEMMA OthersStop ==
    ASSUME IInv, NEW d \in Others, StopMethod(d)
    PROVE  Stays(<<>>) \/ Turns(<<>>)
  <1> DEFINE stopped == StopPrompting(Tables, {d}, <<Done>>)
             replied == Post(stopped, d, Reply("Return", "Stop"))
  <1>0. d \in Callback /\ d # me
    BY DEF Others
  <1>1. Sound(stopped, None)
    BY TablesSound, StopSound, NoticeIsMessage
  <1>2. Alike(Tables, stopped)
    BY <1>0, TablesSound, StopMe
  <1>3. \E st \in NextReady(replied) : Become(st)
    BY DEF StopMethod
  <1> HIDE DEF stopped
  <1>4. Sound(replied, None)
    BY <1>0, <1>1, PostSound, ReplyIsMessage
  <1>5. Alike(stopped, replied)
    BY <1>0, <1>1, PostMe, SoundParts DEF Alike
  <1> HIDE DEF replied
  <1>6. Alike(Tables, replied)
    BY <1>2, <1>5 DEF Alike
  <1>7. PICK st \in NextReady(replied) : Become(st)
    BY <1>3
  <1>8. QED
    BY <1>4, <1>6, <1>7, NextReadyStep, Unmoved, Moved

LEMMA OthersVanish ==
    ASSUME IInv, NEW n, n # Owner[me], CallerVanished(n)
    PROVE  Stays(<<>>)
  <1> DEFINE st == StopPrompting(Tables, CallbacksOf(n), <<>>)
  <1>1. me \notin CallbacksOf(n)
    BY DEF CallbacksOf
  <1>2. Alike(Tables, st)
    BY <1>1, TablesSound, StopMe
  <1>3. QED
    BY <1>2, Unmoved DEF CallerVanished

LEMMA OwnBegin ==
    ASSUME IInv, BeginPrompting(me)
    PROVE  \/ me \in callbacks /\ Stays(<<Reply("Failed", "Begin")>>)
           \/ /\ me \notin callbacks /\ me \in callbacks'
              /\ active'[me] = None /\ out'[me] = <<Reply("Return", "Begin")>>
           \/ Turns(<<Reply("Return", "Begin")>>)
  <1> DEFINE no == Reply("Failed", "Begin")
             yes == Reply("Return", "Begin")
  <1>1. CASE me \in callbacks
    <2>1. Become(Post(Tables, me, no))
      BY <1>1 DEF BeginPrompting
    <2> DEFINE st == Post(Tables, me, no)
    <2>2. /\ me \in st.callbacks <=> me \in callbacks
          /\ st.active[me] = active[me] /\ ServerOf(st) = Server
          /\ st.out[me] = <<no>>
      BY TablesSound, PostOwn, Appended DEF Server
    <2> HIDE DEF st, no
    <2>3. QED
      BY <1>1, <2>1, <2>2, BecomeMe DEF Stays, st, no
  <1>2. CASE me \notin callbacks
    <2> DEFINE queued == Enqueued(Tables, me)
               joined == Post(queued, me, yes)
    <2>1. Sound(queued, None) /\ queued \in TableRecord
      BY <1>2, EnqueuedSound, TablesSound, MeAssumption, SoundParts
    <2>2. me \in queued.callbacks /\ queued.active[me] = active[me] /\ queued.out[me] = <<>>
      BY EnqueuedMe, TablesSound
    <2>3. \E st \in NextReady(joined) : Become(st)
      BY <1>2 DEF BeginPrompting
    <2> HIDE DEF queued
    <2>4. Sound(joined, None)
      BY <2>1, PostSound, ReplyIsMessage, MeAssumption
    <2>5. /\ me \in joined.callbacks /\ joined.active[me] = active[me]
          /\ joined.out[me] = <<yes>>
      BY <2>1, <2>2, PostOwn, Appended
    <2>6. active[me] = None
      BY <1>2, TablesSound, MeAssumption DEF Sound
    <2> HIDE DEF joined, yes
    <2>7. PICK st \in NextReady(joined) : Become(st)
      BY <2>3
    <2>8. Alike(joined, st) \/ Shown(joined, st)
      BY <2>4, <2>7, NextReadyMe
    <2>9. CASE Alike(joined, st)
      BY <1>2, <2>5, <2>6, <2>7, <2>9, BecomeMe DEF Alike, yes
    <2>10. CASE Shown(joined, st)
      BY <1>2, <2>5, <2>6, <2>7, <2>10, BecomeMe DEF Shown, Turns, yes
    <2>11. QED
      BY <2>8, <2>9, <2>10
  <1>3. QED
    BY <1>1, <1>2

LEMMA OwnPerform ==
    ASSUME IInv, PerformPrompt(me, "confirm", TRUE)
    PROVE  IF active[me] # None /\ Server.ready
           THEN /\ me \in callbacks' <=> me \in callbacks
                /\ active'[me] = active[me]
                /\ Server' = Performing(Server)
                /\ out'[me] = <<Reply("Return", "Perform")>>
           ELSE Stays(<<Reply("Failed", "Perform")>>)
  <1> DEFINE p == active[me]
  <1>1. CASE ~(p # None /\ Server.ready)
    <2> DEFINE no == Reply("Failed", "Perform")
               st == Post(Tables, me, no)
    <2>1. Become(st)
      <3>1. p # None => Server = prompts[p]
        BY TablesSound DEF Server, ServerOf
      <3>2. QED
        BY <1>1, <3>1 DEF PerformPrompt
    <2>2. /\ me \in st.callbacks <=> me \in callbacks
          /\ st.active[me] = active[me] /\ ServerOf(st) = Server
          /\ st.out[me] = <<no>>
      BY TablesSound, PostOwn, Appended DEF Server
    <2> HIDE DEF st, no
    <2>3. QED
      BY <1>1, <2>1, <2>2, BecomeMe DEF Stays, st, no
  <1>2. CASE p # None /\ Server.ready
    <2>1. /\ p \in Prompt /\ IsIn(Tables, p) /\ InTables(Tables, p) = 1
          /\ One(p = None) = 0
          /\ Server = prompts[p] /\ prompts[p] \in PromptRecord
          /\ PromptOK(prompts[p], 1, 0) /\ prompts[p].refs > 0
      BY <1>2, TablesSound, ServerParts, NoneAssumption DEF InTables, One, Server
    <2> DEFINE pr == Performing(prompts[p])
               updated == Update(Tables, p, pr)
               yes == Reply("Return", "Perform")
               st == Post(updated, me, yes)
    <2>2. Become(st)
      BY <1>2, <2>1 DEF PerformPrompt
    <2>3. pr \in PromptRecord /\ pr.callback = prompts[p].callback /\ PromptOK(pr, 1, 0)
      BY <1>2, <2>1, PerformingOK
    <2> HIDE DEF pr
    <2>4. Sound(updated, None)
      BY <2>1, <2>3, TablesSound, UpdateSound
    <2>5. /\ me \in updated.callbacks <=> me \in callbacks
          /\ updated.active[me] = active[me] /\ ServerOf(updated) = pr
          /\ updated.out[me] = <<>>
      BY <2>1, TablesSound, UpdateMe
    <2> HIDE DEF updated
    <2>6. /\ me \in st.callbacks <=> me \in callbacks
          /\ st.active[me] = active[me] /\ ServerOf(st) = pr
          /\ st.out[me] = <<yes>>
      <3>1. updated \in TableRecord
        BY <2>4, SoundParts
      <3>2. /\ me \in st.callbacks <=> me \in updated.callbacks
            /\ st.active[me] = updated.active[me] /\ ServerOf(st) = ServerOf(updated)
            /\ st.out[me] = Append(updated.out[me], yes)
        BY <3>1, PostOwn
      <3>3. QED
        BY <2>5, <3>2, Appended
    <2> HIDE DEF st, yes
    <2>7. QED
      BY <1>2, <2>1, <2>2, <2>6, BecomeMe DEF pr, yes
  <1>3. QED
    BY <1>1, <1>2

LEMMA OwnStop ==
    ASSUME IInv, StopMethod(me)
    PROVE  \/ Leaves(<<Done, Reply("Return", "Stop")>>)
           \/ Leaves(<<Reply("Return", "Stop")>>)
  <1> DEFINE stopped == StopPrompting(Tables, {me}, <<Done>>)
             reply == Reply("Return", "Stop")
             replied == Post(stopped, me, reply)
  <1>1. Sound(stopped, None)
    BY TablesSound, StopSound, NoticeIsMessage
  <1>2. /\ me \notin stopped.callbacks /\ stopped.active[me] = None
        /\ ServerOf(stopped) = FreePrompt
        /\ stopped.out[me] = <<Done>> \/ stopped.out[me] = <<>>
    <2>1. CASE me \in callbacks
      BY <2>1, TablesSound, StopMe
    <2>2. CASE me \notin callbacks
      <3>1. active[me] = None
        BY <2>2, TablesSound, MeAssumption DEF Sound
      <3>2. Alike(Tables, stopped)
        BY <2>2, TablesSound, StopMe
      <3>3. QED
        BY <2>2, <3>1, <3>2, TablesSound DEF Alike, ServerOf
    <2>3. QED
      BY <2>1, <2>2
  <1>3. \E st \in NextReady(replied) : Become(st)
    BY DEF StopMethod
  <1> HIDE DEF stopped
  <1>4. Sound(replied, None)
    BY <1>1, PostSound, ReplyIsMessage, MeAssumption
  <1> HIDE DEF reply
  <1>5. /\ me \notin replied.callbacks /\ replied.active[me] = None
        /\ ServerOf(replied) = FreePrompt
        /\ replied.out[me] = <<Done, reply>> \/ replied.out[me] = <<reply>>
    <2>1. stopped \in TableRecord
      BY <1>1, SoundParts
    <2>2. /\ me \in replied.callbacks <=> me \in stopped.callbacks
          /\ replied.active[me] = stopped.active[me]
          /\ ServerOf(replied) = ServerOf(stopped)
          /\ replied.out[me] = Append(stopped.out[me], reply)
      BY <2>1, PostOwn
    <2>3. QED
      BY <1>2, <2>2, Appended
  <1> HIDE DEF replied
  <1>6. PICK st \in NextReady(replied) : Become(st)
    BY <1>3
  <1>7. Alike(replied, st)
    BY <1>4, <1>5, <1>6, NextReadyMe DEF Shown
  <1>8. QED
    BY <1>5, <1>6, <1>7, BecomeMe DEF Alike, Leaves, reply

LEMMA AnswersMe ==
    ASSUME IInv, NEW p \in Prompt, NEW reply \in {"yes", "no"}, UserAnswers(p, reply)
    PROVE  /\ prompts[p].callback = me <=> active[me] = p
           /\ IF active[me] = p
              THEN /\ me \in callbacks' <=> me \in callbacks
                   /\ active'[me] = active[me] /\ Server.ops > 0
                   /\ Server' = OperationDone(Server)
                   /\ out'[me] = <<Ready(reply)>>
              ELSE Stays(<<>>)
  <1> DEFINE c == prompts[p].callback
             pr == OperationDone(prompts[p])
             answered == Update(Tables, p, pr)
             st == Post(answered, c, Ready(reply))
  <1>1. /\ prompts[p] \in PromptRecord /\ prompts[p].ops > 0
        /\ PromptOK(prompts[p], InTables(Tables, p), 0) /\ One(p = None) = 0
    <2>1. One(p = None) = 0
      BY NoneAssumption DEF One
    <2>2. QED
      BY <2>1, TablesSound, SoundParts DEF UserAnswers
  <1>2. InTables(Tables, p) = 1 /\ IsIn(Tables, p)
    <2>1. InTables(Tables, p) \in {0, 1} /\ (InTables(Tables, p) = 1 => IsIn(Tables, p))
      BY DEF InTables, One
    <2>2. prompts[p].calls + prompts[p].ops > 0
      BY <1>1 DEF PromptRecord
    <2>3. QED
      BY <1>1, <2>1, <2>2 DEF PromptOK, PromptRecord
  <1>3. c \in Callback /\ active[c] = p
    <2>1. PICK d \in Callback : active[d] = p
      BY <1>2, TablesSound DEF IsIn
    <2>2. QED
      BY <2>1, TablesSound, SoundParts, NoneAssumption
  <1>4. c = me <=> active[me] = p
    <2>1. active[me] = p => c = me
      BY TablesSound, ServerParts, NoneAssumption
    <2>2. QED
      BY <1>3, <2>1
  <1>5. pr \in PromptRecord /\ pr.callback = prompts[p].callback /\ PromptOK(pr, 1, 0)
    BY <1>1, <1>2, AnswerOK
  <1>6. Become(st)
    BY DEF UserAnswers
  <1> HIDE DEF pr
  <1>7. Sound(answered, None)
    BY <1>1, <1>2, <1>5, TablesSound, UpdateSound
  <1>8. /\ me \in answered.callbacks <=> me \in callbacks
        /\ answered.active[me] = active[me]
        /\ ServerOf(answered) = IF active[me] = p THEN pr ELSE Server
        /\ answered.out[me] = <<>>
    BY TablesSound, UpdateMe DEF Server
  <1> HIDE DEF answered, c
  <1>9. /\ me \in st.callbacks <=> me \in callbacks
        /\ st.active[me] = active[me]
        /\ ServerOf(st) = IF active[me] = p THEN pr ELSE Server
        /\ st.out[me] = IF active[me] = p THEN <<Ready(reply)>> ELSE <<>>
    <2>1. answered \in TableRecord
      BY <1>7, SoundParts
    <2>2. /\ me \in st.callbacks <=> me \in answered.callbacks
          /\ st.active[me] = answered.active[me]
          /\ ServerOf(st) = ServerOf(answered)
          /\ st.out[me] = IF c = me THEN Append(answered.out[me], Ready(reply))
                                    ELSE answered.out[me]
      BY <1>3, <2>1, PostMe
    <2>3. c = me <=> active[me] = p
      BY <1>4 DEF c
    <2>4. QED
      BY <1>8, <2>2, <2>3
  <1> HIDE DEF st
  <1>10. active[me] = p => Server = prompts[p]
    BY TablesSound, NoneAssumption DEF Server, ServerOf
  <1>11. QED
    BY <1>1, <1>4, <1>6, <1>9, <1>10, BecomeMe DEF Stays, pr, c

LEMMA ClosesMe ==
    ASSUME IInv, NEW p \in Prompt, UserCloses(p)
    PROVE  Stays(<<>>) \/ (me \in callbacks /\ Leaves(<<Done>>))
  <1> DEFINE st == StopPrompting(Tables, {prompts[p].callback}, <<Done>>)
  <1>1. Become(st)
    BY DEF UserCloses
  <1>2. \/ Alike(Tables, st)
        \/ /\ me \in callbacks /\ me \notin st.callbacks /\ st.active[me] = None
           /\ ServerOf(st) = FreePrompt /\ st.out[me] = <<Done>>
    BY TablesSound, StopMe
  <1> HIDE DEF st
  <1>3. QED
    BY <1>1, <1>2, Unmoved, BecomeMe DEF Leaves

LEMMA UnregisterMe ==
    ASSUME IInv, Unregister
    PROVE  Stays(<<>>) \/ (me \in callbacks /\ Leaves(<<Done>>))
  <1> DEFINE st == StopPrompting(Tables, callbacks, <<Done>>)
  <1>1. Become(st)
    BY DEF Unregister
  <1>2. \/ Alike(Tables, st)
        \/ /\ me \in callbacks /\ me \notin st.callbacks /\ st.active[me] = None
           /\ ServerOf(st) = FreePrompt /\ st.out[me] = <<Done>>
    BY TablesSound, StopMe
  <1> HIDE DEF st
  <1>3. QED
    BY <1>1, <1>2, Unmoved, BecomeMe DEF Leaves

\* The completion of another structure's call, of its own, and of its own that
\* has failed.
LEMMA CompletesMe ==
    ASSUME IInv, NEW p \in Prompt, NEW ok \in BOOLEAN, ReadyComplete(p, ok)
    PROVE  IF active[me] # p THEN Stays(<<>>) \/ Turns(<<>>)
           ELSE IF ok
           THEN /\ me \in callbacks' <=> me \in callbacks
                /\ active'[me] = active[me]
                /\ Server'.ready /\ Server'.ops = Server.ops
                /\ out'[me] = <<>>
           ELSE Leaves(<<>>)
  <1> DEFINE c == prompts[p].callback
             completed == Update(Tables, p, Completed(prompts[p]))
             stopped == StopPrompting(completed, {c}, <<>>)
             after == IF prompts[p].cancelled \/ ok THEN {completed}
                      ELSE NextReady(stopped)
  <1>1. /\ prompts[p] \in PromptRecord /\ prompts[p].calls > 0
        /\ InTables(Tables, p) \in {0, 1}
        /\ PromptOK(prompts[p], InTables(Tables, p), 0)
        /\ One(p = p) = 1
    <2>1. One(p = None) = 0 /\ One(p = p) = 1 /\ InTables(Tables, p) \in {0, 1}
      BY NoneAssumption DEF One, InTables
    <2>2. QED
      BY <2>1, SoundParts, TablesSound DEF ReadyComplete
  <1>2. /\ Completed(prompts[p]) \in PromptRecord
        /\ Completed(prompts[p]).callback = c
        /\ PromptOK(Completed(prompts[p]), InTables(Tables, p), 1)
    BY <1>1, CompletedOK
  <1>3. Sound(completed, p) /\ completed \in TableRecord
    <2>1. Sound(completed, p)
      BY <1>1, <1>2, UpdateSound, TablesSound
    <2>2. QED
      BY <2>1, SoundParts
  <1>4. /\ me \in completed.callbacks <=> me \in callbacks
        /\ completed.active[me] = active[me]
        /\ completed.out[me] = <<>>
        /\ ServerOf(completed) = IF active[me] = p THEN Completed(prompts[p]) ELSE Server
    BY TablesSound, UpdateMe DEF Server
  <1>5. active[me] = p => /\ ~prompts[p].cancelled /\ c = me /\ Server = prompts[p]
                          /\ me \in callbacks
    BY TablesSound, ServerParts, NoneAssumption DEF Server
  <1>6. c = me /\ active[me] # p => prompts[p].cancelled
    <2> HAVE c = me /\ active[me] # p
    <2>1. ~IsIn(Tables, p)
      BY TablesSound, SoundParts, NoneAssumption DEF IsIn
    <2>2. InTables(Tables, p) = 0
      BY <2>1 DEF InTables, One
    <2>3. QED
      BY <1>1, <2>2 DEF PromptOK, PromptRecord
  <1>7. \E st \in after : Become(Update(st, p, Unref(st.prompts[p])))
    BY DEF ReadyComplete
  <1> HIDE DEF completed, c
  <1>8. PICK st \in after : Become(Update(st, p, Unref(st.prompts[p])))
    BY <1>7
  <1>9. /\ Sound(stopped, p)
        /\ IF c = me /\ me \in callbacks
           THEN /\ me \notin stopped.callbacks /\ stopped.active[me] = None
                /\ ServerOf(stopped) = FreePrompt /\ stopped.out[me] = <<>>
           ELSE Alike(completed, stopped)
    <2>1. Sound(stopped, p)
      BY <1>3, StopSound, NoticeIsMessage
    <2>2. IF me \in {c} /\ me \in completed.callbacks
          THEN /\ me \notin stopped.callbacks /\ stopped.active[me] = None
               /\ ServerOf(stopped) = FreePrompt
               /\ stopped.out[me] = completed.out[me] \o <<>>
          ELSE Alike(completed, stopped)
      BY <1>3, StopMe
    <2>3. completed.out[me] \o <<>> = <<>>
      BY <1>4
    <2>4. QED
      BY <1>4, <2>1, <2>2, <2>3
  <1> HIDE DEF stopped
  <1> DEFINE new == Update(st, p, Unref(st.prompts[p]))
  <1>10. Sound(st, p) /\ st \in TableRecord
    <2>1. Sound(st, p)
      BY <1>3, <1>8, <1>9, NextReadySound
    <2>2. QED
      BY <2>1, SoundParts
  <1> HIDE DEF after
  <1>11. /\ me \in new.callbacks <=> me \in st.callbacks
         /\ new.active[me] = st.active[me] /\ new.out[me] = st.out[me]
         /\ ServerOf(new) = IF st.active[me] = p THEN Unref(st.prompts[p]) ELSE ServerOf(st)
    BY <1>10, UpdateMe
  <1>12. Become(new)
    BY <1>8
  <1> HIDE DEF new
  <1>13. CASE active[me] # p
    <2>1. Alike(Tables, completed)
      BY <1>4, <1>13, TablesSound DEF Alike, Server
    <2>2. CASE prompts[p].cancelled \/ ok
      <3>1. st = completed
        BY <1>8, <2>2 DEF after
      <3>2. Alike(Tables, new)
        BY <1>11, <1>13, <2>1, <3>1, TablesSound DEF Alike
      <3>3. QED
        BY <1>12, <1>13, <3>2, Unmoved
    <2>3. CASE ~(prompts[p].cancelled \/ ok)
      <3>1. st \in NextReady(stopped)
        BY <1>8, <2>3 DEF after
      <3>2. Alike(Tables, stopped)
        BY <1>6, <1>9, <1>13, <2>1, <2>3 DEF Alike
      <3>3. Alike(Tables, st) \/ Shown(Tables, st)
        BY <1>9, <3>1, <3>2, NextReadyStep
      <3>4. CASE Alike(Tables, st)
        <4>1. Alike(Tables, new)
          BY <1>11, <1>13, <3>4, TablesSound DEF Alike
        <4>2. QED
          BY <1>12, <1>13, <4>1, Unmoved
      <3>5. CASE Shown(Tables, st)
        <4>1. st.active[me] # p
          <5>1. Alike(stopped, st) \/ Shown(stopped, st)
            BY <1>9, <3>1, NextReadyMe
          <5>2. SUFFICES ASSUME st.active[me] = p PROVE FALSE
            OBVIOUS
          <5>3. p # None
            BY NoneAssumption
          <5>4. st.prompts[p].refs = 2 /\ st.prompts[p].calls = 1 /\ st.prompts[p].ops = 0
            <6>1. ServerOf(st) = st.prompts[p]
              BY <5>2, <5>3 DEF ServerOf
            <6>2. ServerOf(st) = SendReady(NewPrompt(me))
              BY <3>5 DEF Shown
            <6>3. NewPrompt(me) = [FreePrompt EXCEPT !.callback = me, !.refs = 1]
              BY DEF NewPrompt
            <6>4. NewPrompt(me).refs = 1 /\ NewPrompt(me).calls = 0 /\ NewPrompt(me).ops = 0
                  /\ NewPrompt(me) \in PromptRecord
              <7>1. FreePrompt \in PromptRecord /\ FreePrompt.calls = 0 /\ FreePrompt.ops = 0
                BY DEF FreePrompt, PromptRecord
              <7> DEFINE fresh == NewPrompt(me)
              <7>2. fresh = [FreePrompt EXCEPT !.callback = me, !.refs = 1]
                BY <6>3
              <7> HIDE DEF fresh
              <7>3. fresh.refs = 1 /\ fresh.calls = 0 /\ fresh.ops = 0 /\ fresh \in PromptRecord
                BY <7>1, <7>2, MeAssumption DEF PromptRecord
              <7>4. QED
                BY <7>3 DEF fresh
            <6>5. QED
              BY <6>1, <6>2, <6>4 DEF SendReady, PromptRecord
          <5>5. PromptOK(st.prompts[p], 1, 1)
            BY <1>1, <1>10, <5>2, <5>3, ServerParts
          <5>6. QED
            BY <5>4, <5>5 DEF PromptOK
        <4>2. Shown(Tables, new)
          BY <1>11, <3>5, <4>1 DEF Shown
        <4>3. QED
          BY <1>12, <1>13, <4>2, Moved
      <3>6. QED
        BY <3>3, <3>4, <3>5
    <2>4. QED
      BY <2>2, <2>3
  <1>14. CASE active[me] = p /\ ok
    <2>1. st = completed
      BY <1>8, <1>14 DEF after
    <2> DEFINE pr == Completed(prompts[p])
    <2>2. completed.prompts[p] = pr
      <3>1. completed.prompts = Put(prompts, p, pr)
        BY TablesSound DEF completed, Update, TableRecord
      <3>2. QED
        BY <3>1, TablesSound DEF Put
    <2>3. PromptOK(pr, 1, 1) /\ pr \in PromptRecord
      <3>1. InTables(Tables, p) = 1
        BY <1>14, TablesSound, MeAssumption DEF InTables, IsIn, One
      <3>2. QED
        BY <1>2, <3>1
    <2>4. pr.ready /\ pr.ops = prompts[p].ops
      BY <1>1 DEF Completed, PromptRecord
    <2> HIDE DEF pr
    <2>5. pr.refs > 1
      BY <2>3, <2>4 DEF PromptOK, PromptRecord, One
    <2>6. Unref(pr).ready /\ Unref(pr).ops = prompts[p].ops
      BY <2>3, <2>4, <2>5 DEF Unref, PromptRecord
    <2>7. ServerOf(new) = Unref(pr)
      BY <1>4, <1>11, <1>14, <2>1, <2>2
    <2>8. QED
      BY <1>4, <1>5, <1>11, <1>12, <1>14, <2>1, <2>6, <2>7, BecomeMe
  <1>15. CASE active[me] = p /\ ~ok
    <2>1. st \in NextReady(stopped)
      BY <1>5, <1>8, <1>15 DEF after
    <2>2. /\ me \notin stopped.callbacks /\ stopped.active[me] = None
          /\ ServerOf(stopped) = FreePrompt /\ stopped.out[me] = <<>>
      BY <1>5, <1>9, <1>15
    <2>3. Alike(stopped, st)
      BY <1>9, <2>1, <2>2, NextReadyMe DEF Shown
    <2>4. p # None
      BY NoneAssumption
    <2>5. QED
      BY <1>11, <1>12, <1>15, <2>2, <2>3, <2>4, BecomeMe DEF Alike, Leaves
  <1>16. QED
    BY <1>13, <1>14, <1>15

-----------------------------------------------------------------------------
(* What the caller is told.                                                *)

LEMMA TaggedShort ==
    ASSUME NEW m, NEW n, NEW o, NEW p
    PROVE  /\ LET x == << >> IN [i \in 1 .. Len(x) |-> Tagged(x[i], o, p)] = << >>
           /\ LET x == <<m>>
              IN  [i \in 1 .. Len(x) |-> Tagged(x[i], o, p)] = <<Tagged(m, o, p)>>
           /\ LET x == <<m, n>>
              IN  [i \in 1 .. Len(x) |-> Tagged(x[i], o, p)]
                      = <<Tagged(m, o, p), Tagged(n, o, p)>>
  <1> DEFINE a == Tagged(m, o, p)
             b == Tagged(n, o, p)
             S == {a, b}
             one == [i \in 1 .. 1 |-> Tagged(<<m>>[i], o, p)]
             two == [i \in 1 .. 2 |-> Tagged(<<m, n>>[i], o, p)]
  <1>1. a \in S /\ b \in S
    OBVIOUS
  <1>2. one[1] = a /\ two[1] = a /\ two[2] = b
    <2>1. <<m>>[1] = m /\ <<m, n>>[1] = m /\ <<m, n>>[2] = n
      OBVIOUS
    <2>2. 1 \in 1 .. 1 /\ 1 \in 1 .. 2 /\ 2 \in 1 .. 2
      OBVIOUS
    <2>3. QED
      BY <2>1, <2>2
  <1>3. DOMAIN one = 1 .. 1 /\ DOMAIN two = 1 .. 2
    OBVIOUS
  <1>4. one = [i \in 1 .. 1 |-> one[i]] /\ two = [i \in 1 .. 2 |-> two[i]]
    OBVIOUS
  <1> HIDE DEF S, one, two, a, b
  <1>5. one \in [1 .. 1 -> S]
    <2>1. \A i \in 1 .. 1 : one[i] \in S
      BY <1>1, <1>2
    <2>2. QED
      BY <1>4, <2>1
  <1>6. two \in [1 .. 2 -> S]
    <2>1. \A i \in 1 .. 2 : i = 1 \/ i = 2
      OBVIOUS
    <2>2. \A i \in 1 .. 2 : two[i] \in S
      BY <1>1, <1>2, <2>1
    <2>3. QED
      BY <1>4, <2>2
  <1>7. one = <<a>> /\ two = <<a, b>>
    BY <1>1, <1>2, <1>5, <1>6, ShortLists
  <1>9. Len(<< >>) = 0 /\ Len(<<m>>) = 1 /\ Len(<<m, n>>) = 2
    OBVIOUS
  <1>10. [i \in 1 .. 0 |-> Tagged(<< >>[i], o, p)] = << >>
    OBVIOUS
  <1>11. QED
    BY <1>7, <1>9, <1>10 DEF one, two, a, b

LEMMA FromServiceIs ==
    ASSUME NEW o
    PROVE  /\ out'[me] = << >> => FromService(o) = << >>
           /\ out'[me] = <<Reply("Return", "Stop")>> => FromService(o) = << >>
           /\ \A a \in {"none", "yes", "no"} :
                 out'[me] = <<Ready(a)>> =>
                     FromService(o) = <<ToClient("Ready", a, NoOp, active'[me])>>
           /\ out'[me] \in {<<Done>>, <<Done, Reply("Return", "Stop")>>} =>
                  FromService(o) = <<ToClient("Done", "none", o, None)>>
           /\ \A r \in {"Return", "Failed"}, k \in {"Begin", "Perform"} :
                 out'[me] = <<Reply(r, k)>> =>
                     FromService(o) = <<ToClient(r, k, o, None)>>
           /\ out'[me] = <<Reply("Return", "Begin"), Ready("none")>> =>
                  FromService(o) = <<ToClient("Return", "Begin", o, None),
                                     ToClient("Ready", "none", NoOp, active'[me])>>
  <1> DEFINE W == {m \in Message : m.arg # "Stop"}
             wanted == Kept(out'[me], W)
             said(x) == [i \in 1 .. Len(x) |-> Tagged(x[i], o, active'[me])]
             stop == Reply("Return", "Stop")
  <1>1. FromService(o) = said(wanted)
    BY DEF FromService
  <1>2. stop \in Message /\ stop \notin W
    BY ReplyIsMessage DEF Reply
  <1>3. Done \in W
    BY DEF Done, Message, Calls
  <1>4. \A a \in {"none", "yes", "no"} : Ready(a) \in W
    BY DEF Ready, Message, Calls
  <1>5. \A r \in {"Return", "Failed"}, k \in {"Begin", "Perform"} : Reply(r, k) \in W
    BY ReplyIsMessage DEF Reply
  <1>6. W \subseteq Message
    OBVIOUS
  <1> HIDE DEF W, stop
  <1>7. /\ said(<< >>) = << >>
        /\ \A m : said(<<m>>) = <<Tagged(m, o, active'[me])>>
        /\ \A m, n : said(<<m, n>>) = <<Tagged(m, o, active'[me]), Tagged(n, o, active'[me])>>
    BY TaggedShort
  <1> HIDE DEF said
  <1>8. /\ Kept(<< >>, W) = << >> /\ Kept(<<stop>>, W) = << >>
        /\ \A m \in W : Kept(<<m>>, W) = <<m>> /\ Kept(<<m, stop>>, W) = <<m>>
        /\ \A m, n \in W : Kept(<<m, n>>, W) = <<m, n>>
    <2>1. Kept(<< >>, W) = << >> /\ Kept(<<stop>>, W) = << >>
      BY <1>2, KeptShort
    <2>2. ASSUME NEW m \in W PROVE Kept(<<m>>, W) = <<m>> /\ Kept(<<m, stop>>, W) = <<m>>
      BY <1>2, <1>6, KeptShort
    <2>3. ASSUME NEW m \in W, NEW n \in W PROVE Kept(<<m, n>>, W) = <<m, n>>
      BY <1>6, KeptShort
    <2>4. QED
      BY <2>1, <2>2, <2>3
  <1>9. /\ Tagged(Done, o, active'[me]) = ToClient("Done", "none", o, None)
        /\ \A a : Tagged(Ready(a), o, active'[me]) = ToClient("Ready", a, NoOp, active'[me])
        /\ \A k : \A r \in {"Return", "Failed"} :
              Tagged(Reply(r, k), o, active'[me]) = ToClient(r, k, o, None)
    BY DEF Tagged, Done, Ready, Reply, NoOp
  <1>10. ASSUME out'[me] \in {<< >>, <<stop>>} PROVE FromService(o) = << >>
    BY <1>1, <1>7, <1>8, <1>10
  <1>11. ASSUME NEW m \in W, out'[me] \in {<<m>>, <<m, stop>>}
         PROVE  FromService(o) = <<Tagged(m, o, active'[me])>>
    BY <1>1, <1>7, <1>8, <1>11
  <1>12. ASSUME NEW m \in W, NEW n \in W, out'[me] = <<m, n>>
         PROVE  FromService(o) = <<Tagged(m, o, active'[me]), Tagged(n, o, active'[me])>>
    BY <1>1, <1>7, <1>8, <1>12
  <1>13. /\ out'[me] = << >> => FromService(o) = << >>
         /\ out'[me] = <<Reply("Return", "Stop")>> => FromService(o) = << >>
    BY <1>10 DEF stop
  <1>14. ASSUME NEW a \in {"none", "yes", "no"}, out'[me] = <<Ready(a)>>
         PROVE  FromService(o) = <<ToClient("Ready", a, NoOp, active'[me])>>
    <2>1. FromService(o) = <<Tagged(Ready(a), o, active'[me])>>
      BY <1>4, <1>11, <1>14
    <2>2. QED
      BY <1>9, <2>1
  <1>15. ASSUME out'[me] \in {<<Done>>, <<Done, Reply("Return", "Stop")>>}
         PROVE  FromService(o) = <<ToClient("Done", "none", o, None)>>
    <2>1. FromService(o) = <<Tagged(Done, o, active'[me])>>
      BY <1>3, <1>11, <1>15 DEF stop
    <2>2. QED
      BY <1>9, <2>1
  <1>16. ASSUME NEW r \in {"Return", "Failed"}, NEW k \in {"Begin", "Perform"},
                out'[me] = <<Reply(r, k)>>
         PROVE  FromService(o) = <<ToClient(r, k, o, None)>>
    <2>1. FromService(o) = <<Tagged(Reply(r, k), o, active'[me])>>
      BY <1>5, <1>11, <1>16
    <2>2. QED
      BY <1>9, <2>1
  <1>17. ASSUME out'[me] = <<Reply("Return", "Begin"), Ready("none")>>
         PROVE  FromService(o) = <<ToClient("Return", "Begin", o, None),
                                   ToClient("Ready", "none", NoOp, active'[me])>>
    <2>1. FromService(o) = <<Tagged(Reply("Return", "Begin"), o, active'[me]),
                             Tagged(Ready("none"), o, active'[me])>>
      BY <1>4, <1>5, <1>12, <1>17
    <2>2. QED
      BY <1>9, <2>1
  <1>18. QED
    BY <1>13, <1>14, <1>15, <1>16, <1>17

\* What is said of a list of one message, and of a list with one more.
LEMMA OneMessage ==
    ASSUME NEW x \in ClientMessage, NEW f, f = <<x>>
    PROVE  /\ f \in Seq(ClientMessage)
           /\ NoReady(f) <=> x.msg # "Ready"
           /\ OnlyNames(f) <=> x.msg = "Name"
           /\ OneReady(f)
           /\ \A q : NoReply(f, q) <=> ~(x.arg = "Perform" /\ x.op = q)
           /\ \A q : NotFailed(f, q) <=> (x.arg = "Perform" /\ x.op = q => x.msg = "Return")
           /\ \A a : ReadySays(f, a) <=> (x.msg = "Ready" => x.arg = a)
           /\ \A p : HasReady(f, p) <=> (x.msg = "Ready" /\ x.prompt = p)
           /\ \A k, q : x.msg = "Return" /\ x.arg = k /\ x.op = q => ReturnFirst(f, k, q)
  <1>1. f \in Seq(ClientMessage) /\ Len(f) = 1 /\ f[1] = x
    OBVIOUS
  <1>2. \A i \in 1 .. 1 : i = 1
    OBVIOUS
  <1>3. /\ NoReady(f) <=> x.msg # "Ready"
        /\ OnlyNames(f) <=> x.msg = "Name"
        /\ OneReady(f)
    BY <1>1, <1>2 DEF NoReady, OnlyNames, OneReady
  <1>4. /\ \A q : NoReply(f, q) <=> ~(x.arg = "Perform" /\ x.op = q)
        /\ \A q : NotFailed(f, q) <=> (x.arg = "Perform" /\ x.op = q => x.msg = "Return")
        /\ \A a : ReadySays(f, a) <=> (x.msg = "Ready" => x.arg = a)
    BY <1>1, <1>2 DEF NoReply, NotFailed, ReadySays
  <1>5. \A p : HasReady(f, p) <=> (x.msg = "Ready" /\ x.prompt = p)
    BY <1>1, <1>2 DEF HasReady
  <1>6. ASSUME NEW k, NEW q, x.msg = "Return", x.arg = k, x.op = q
        PROVE  ReturnFirst(f, k, q)
    <2>1. \A i \in 1 .. Len(f) : f[i].msg = "Ready" => 1 < i
      BY <1>1, <1>2, <1>6
    <2>2. 1 \in 1 .. Len(f)
      BY <1>1
    <2>3. QED
      BY <1>1, <1>6, <2>1, <2>2 DEF ReturnFirst
  <1>7. QED
    BY <1>1, <1>3, <1>4, <1>5, <1>6

LEMMA HearOne ==
    ASSUME NEW l \in Seq(ClientMessage), NEW x \in ClientMessage, NEW g, g = l \o <<x>>
    PROVE  /\ g \in Seq(ClientMessage)
           /\ \A i \in 1 .. Len(g) : (i \in 1 .. Len(l) /\ g[i] = l[i]) \/ g[i] = x
           /\ NoReady(g) <=> NoReady(l) /\ x.msg # "Ready"
           /\ OnlyNames(g) <=> OnlyNames(l) /\ x.msg = "Name"
           /\ OneReady(l) /\ x.msg # "Ready" => OneReady(g)
           /\ NoReady(l) => OneReady(g)
  <1> DEFINE f == <<x>>
  <1>1. \A i \in 1 .. Len(g) : (i \in 1 .. Len(l) /\ g[i] = l[i]) \/ g[i] = x
    OBVIOUS
  <1>2. f = <<x>> /\ g = l \o f
    OBVIOUS
  <1> HIDE DEF f
  <1>3. /\ f \in Seq(ClientMessage) /\ OneReady(f)
        /\ NoReady(f) <=> x.msg # "Ready"
        /\ OnlyNames(f) <=> x.msg = "Name"
    BY <1>2, OneMessage
  <1>4. /\ g \in Seq(ClientMessage)
        /\ NoReady(g) <=> NoReady(l) /\ NoReady(f)
        /\ OnlyNames(g) <=> OnlyNames(l) /\ OnlyNames(f)
        /\ OneReady(l) /\ NoReady(f) => OneReady(g)
        /\ NoReady(l) /\ OneReady(f) => OneReady(g)
    BY <1>2, <1>3, ListsAdd
  <1>5. QED
    BY <1>1, <1>3, <1>4

LEMMA HearReplies ==
    ASSUME NEW l \in Seq(ClientMessage), NEW x \in ClientMessage, NEW g, g = l \o <<x>>, NEW q
    PROVE  /\ NoReply(g, q) <=> NoReply(l, q) /\ ~(x.arg = "Perform" /\ x.op = q)
           /\ NotFailed(g, q) <=>
                  NotFailed(l, q) /\ (x.arg = "Perform" /\ x.op = q => x.msg = "Return")
  <1> DEFINE f == <<x>>
  <1>1. f = <<x>> /\ g = l \o f
    OBVIOUS
  <1> HIDE DEF f
  <1>2. /\ f \in Seq(ClientMessage)
        /\ NoReply(f, q) <=> ~(x.arg = "Perform" /\ x.op = q)
        /\ NotFailed(f, q) <=> (x.arg = "Perform" /\ x.op = q => x.msg = "Return")
    BY <1>1, OneMessage
  <1>3. /\ NoReply(g, q) <=> NoReply(l, q) /\ NoReply(f, q)
        /\ NotFailed(g, q) <=> NotFailed(l, q) /\ NotFailed(f, q)
    BY <1>1, <1>2, ListsAdd
  <1>4. QED
    BY <1>2, <1>3

LEMMA HearPrompts ==
    ASSUME NEW l \in Seq(ClientMessage), NEW x \in ClientMessage, NEW g, g = l \o <<x>>, NEW q
    PROVE  /\ ReadySays(g, q) <=> ReadySays(l, q) /\ (x.msg = "Ready" => x.arg = q)
           /\ HasReady(g, q) <=> HasReady(l, q) \/ (x.msg = "Ready" /\ x.prompt = q)
  <1> DEFINE f == <<x>>
  <1>1. f = <<x>> /\ g = l \o f
    OBVIOUS
  <1> HIDE DEF f
  <1>2. /\ f \in Seq(ClientMessage)
        /\ ReadySays(f, q) <=> (x.msg = "Ready" => x.arg = q)
        /\ HasReady(f, q) <=> (x.msg = "Ready" /\ x.prompt = q)
    BY <1>1, OneMessage
  <1>3. /\ ReadySays(g, q) <=> ReadySays(l, q) /\ ReadySays(f, q)
        /\ HasReady(g, q) <=> HasReady(l, q) \/ HasReady(f, q)
    BY <1>1, <1>2, ListsAdd
  <1>4. QED
    BY <1>2, <1>3

LEMMA HearFirst ==
    ASSUME NEW l \in Seq(ClientMessage), NEW x \in ClientMessage, NEW g, g = l \o <<x>>,
           NEW k, NEW q
    PROVE  /\ ReturnFirst(l, k, q) => ReturnFirst(g, k, q)
           /\ NoReady(l) /\ x.msg = "Return" /\ x.arg = k /\ x.op = q
                  => ReturnFirst(g, k, q)
  <1> DEFINE f == <<x>>
  <1>1. f = <<x>> /\ g = l \o f
    OBVIOUS
  <1> HIDE DEF f
  <1>2. /\ f \in Seq(ClientMessage)
        /\ x.msg = "Return" /\ x.arg = k /\ x.op = q => ReturnFirst(f, k, q)
    BY <1>1, OneMessage
  <1>3. /\ ReturnFirst(l, k, q) => ReturnFirst(g, k, q)
        /\ NoReady(l) /\ ReturnFirst(f, k, q) => ReturnFirst(g, k, q)
    BY <1>1, <1>2, ListsAdd
  <1>4. QED
    BY <1>2, <1>3

\* A reply that comes when nothing is ready, ...
LEMMA HearReply ==
    ASSUME NEW l \in Seq(ClientMessage), NoReady(l),
           NEW x \in ClientMessage, x.msg # "Ready"
    PROVE  LET g == l \o <<x>>
           IN  /\ g \in Seq(ClientMessage) /\ NoReady(g) /\ OneReady(g)
               /\ \A q : NotFailed(l, q) /\ x.msg = "Return" => NotFailed(g, q)
               /\ x.msg = "Return" => ReturnFirst(g, x.arg, x.op)
  <1> DEFINE g == l \o <<x>>
  <1>1. g = l \o <<x>>
    OBVIOUS
  <1> HIDE DEF g
  <1>2. g \in Seq(ClientMessage) /\ NoReady(g) /\ OneReady(g)
    BY <1>1, HearOne
  <1>3. \A q : NotFailed(l, q) /\ x.msg = "Return" => NotFailed(g, q)
    BY <1>1, HearReplies
  <1>4. x.msg = "Return" => ReturnFirst(g, x.arg, x.op)
    BY <1>1, HearFirst
  <1>5. QED
    BY <1>2, <1>3, <1>4 DEF g

\* ... and a call that says that something is.
LEMMA HearReady ==
    ASSUME NEW l \in Seq(ClientMessage), NoReady(l),
           NEW x \in ClientMessage, x.msg = "Ready"
    PROVE  LET g == l \o <<x>>
           IN  /\ g \in Seq(ClientMessage) /\ OneReady(g) /\ HasReady(g, x.prompt)
               /\ ReadySays(g, x.arg)
               /\ \A k, q : ReturnFirst(l, k, q) => ReturnFirst(g, k, q)
               /\ \A q : NotFailed(l, q) /\ x.arg # "Perform" => NotFailed(g, q)
  <1> DEFINE g == l \o <<x>>
  <1>1. g = l \o <<x>>
    OBVIOUS
  <1> HIDE DEF g
  <1>2. g \in Seq(ClientMessage) /\ OneReady(g)
    BY <1>1, HearOne
  <1>3. HasReady(g, x.prompt)
    BY <1>1, HearPrompts
  <1>4. ReadySays(l, x.arg)
    BY DEF NoReady, ReadySays
  <1>5. ReadySays(g, x.arg)
    BY <1>1, <1>4, HearPrompts
  <1>6. \A k, q : ReturnFirst(l, k, q) => ReturnFirst(g, k, q)
    BY <1>1, HearFirst
  <1>7. \A q : NotFailed(l, q) /\ x.arg # "Perform" => NotFailed(g, q)
    BY <1>1, HearReplies
  <1>8. QED
    BY <1>2, <1>3, <1>5, <1>6, <1>7 DEF g

\* The messages that the service sends are proper ones.
LEMMA ToClientOK ==
    /\ \A a \in {"none", "yes", "no"}, p \in Prompt : (a # "none" => Finished(0)) =>
          LET x == ToClient("Ready", a, NoOp, p)
          IN  x \in ClientMessage /\ ClientMessageOK(x)
    /\ \A o \in Op \union {NoOp} :
          LET x == ToClient("Done", "none", o, None)
          IN  x \in ClientMessage /\ ClientMessageOK(x)
    /\ \A r \in {"Return", "Failed"} :
          LET x == ToClient(r, "Begin", 0, None)
          IN  x \in ClientMessage /\ ClientMessageOK(x)
    /\ \A r \in {"Return", "Failed"}, o \in Op \ {0} : Started(o) =>
          LET x == ToClient(r, "Perform", o, None)
          IN  x \in ClientMessage /\ ClientMessageOK(x)
    /\ \A present \in {"present", "absent"}, o \in Op :
          LET x == ToClient("Name", present, o, None)
          IN  x \in ClientMessage /\ ClientMessageOK(x)
  <1>1. 0 \in Op
    BY MaxOpAssumption DEF Op, Client!Op
  <1>2. QED
    BY <1>1 DEF ToClient, ClientMessage, ClientMessageOK

\* The watchers of the name are told nothing else.
LEMMA ToldNames ==
    ASSUME NEW S \in SUBSET Op, NEW present \in BOOLEAN
    PROVE  /\ Told(S, present) \in Seq(ClientMessage) /\ OnlyNames(Told(S, present))
           /\ \A i \in 1 .. Len(Told(S, present)) :
                 /\ ClientMessageOK(Told(S, present)[i])
                 /\ Told(S, present)[i].op \in S
                 /\ Told(S, present)[i].arg = IF present THEN "present" ELSE "absent"
           /\ S # {} => 1 \in 1 .. Len(Told(S, present))
  <1> DEFINE list == SetToSeq(S)
             word == IF present THEN "present" ELSE "absent"
             told == [i \in 1 .. Len(list) |-> ToClient("Name", word, list[i], None)]
  <1>1. IsFiniteSet(S)
    <2>1. IsFiniteSet(Op)
      BY MaxOpAssumption, FS_Interval DEF Op, Client!Op
    <2>2. QED
      BY <2>1, FS_Subset
  <1>2. list \in Seq(S) /\ Range(list) = S
    BY <1>1, SetToSeqLists
  <1>0. S # {} => 1 \in 1 .. Len(list)
    <2> HIDE DEF list
    <2>1. Range(list) = {list[i] : i \in 1 .. Len(list)}
      BY <1>2, RangeOf
    <2>2. Len(list) \in Nat
      BY <1>2
    <2>3. QED
      BY <1>2, <2>1, <2>2
  <1>3. Told(S, present) = told
    BY DEF Told
  <1>4. word \in {"present", "absent"}
    OBVIOUS
  <1> HIDE DEF list, word
  <1>5. \A i \in 1 .. Len(list) : list[i] \in S /\ list[i] \in Op
    BY <1>2
  <1>6. Len(list) \in Nat
    BY <1>2
  <1>7. \A i \in 1 .. Len(list) :
            /\ ToClient("Name", word, list[i], None) \in ClientMessage
            /\ ClientMessageOK(ToClient("Name", word, list[i], None))
            /\ ToClient("Name", word, list[i], None).msg = "Name"
            /\ ToClient("Name", word, list[i], None).op \in S
            /\ ToClient("Name", word, list[i], None).arg = word
    BY <1>4, <1>5, ToClientOK DEF ToClient
  <1>8. told \in [1 .. Len(list) -> ClientMessage]
    BY <1>7
  <1>9. \A i \in 1 .. Len(list) : told[i] = ToClient("Name", word, list[i], None)
    OBVIOUS
  <1> HIDE DEF told
  <1>10. told \in Seq(ClientMessage) /\ Len(told) = Len(list)
    BY <1>6, <1>8, AsList
  <1>11. \A i \in 1 .. Len(told) :
             /\ told[i].msg = "Name" /\ ClientMessageOK(told[i])
             /\ told[i].op \in S /\ told[i].arg = word
    BY <1>7, <1>9, <1>10
  <1>12. QED
    BY <1>0, <1>3, <1>10, <1>11 DEF OnlyNames, word

\* Names say nothing about calls.
LEMMA NamesSay ==
    ASSUME NEW f \in Seq(ClientMessage), OnlyNames(f),
           \A i \in 1 .. Len(f) : ClientMessageOK(f[i])
    PROVE  /\ NoReady(f)
           /\ \A q : NoReply(f, q) /\ NotFailed(f, q)
           /\ \A a : ReadySays(f, a)
  BY DEF OnlyNames, ClientMessageOK, NoReady, NoReply, NotFailed, ReadySays

-----------------------------------------------------------------------------
(* Steps that the caller takes no part in.                                 *)

CallerKeeps ==
    UNCHANGED <<closed, begun, received, owner, context, response, pending, running, ops>>

LEMMA CallerStays ==
    ASSUME CallerKeeps
    PROVE  /\ CallerSound => CallerSound'
           /\ Live' <=> Live
           /\ Opened' <=> Opened
           /\ \A o : (Started(o)' <=> Started(o)) /\ (Valid(o)' <=> Valid(o))
           /\ \A m : ClientMessageOK(m)' <=> ClientMessageOK(m)
           /\ \A m : PrompterMessageOK(m)' <=> PrompterMessageOK(m)
           /\ \A o : (Clean(o)' <=> Clean(o))
  <1>1. /\ closed' = closed /\ context' = context /\ response' = response
        /\ pending' = pending /\ running' = running /\ ops' = ops
    BY DEF CallerKeeps
  <1>2. /\ Opened' <=> Opened
        /\ \A o : (Started(o)' <=> Started(o)) /\ (Finished(o)' <=> Finished(o))
        /\ \A o : Clean(o)' <=> Clean(o)
    BY <1>1 DEF Opened, Started, Finished, Client!Opened, Client!Started, Client!Finished,
                Clean, AbortedBefore
  <1>3. \A o : Valid(o)' <=> Valid(o)
    BY <1>1, <1>2 DEF Valid
  <1>4. Live' <=> Live
    BY <1>1, <1>2 DEF Live, Unaborted
  <1>5. /\ \A m : ClientMessageOK(m)' <=> ClientMessageOK(m)
        /\ \A m : PrompterMessageOK(m)' <=> PrompterMessageOK(m)
    BY <1>2 DEF ClientMessageOK, PrompterMessageOK
  <1>6. CallerSound => CallerSound'
    <2> SUFFICES ASSUME CallerSound PROVE CallerSound'
      OBVIOUS
    <2>1. ClientOK'
      BY <1>1 DEF CallerSound, ClientOK
    <2>2. OpsSound'
      <3>1. \A o \in Op : OpSound(o)'
        BY <1>1, <1>2 DEF CallerSound, OpsSound, OpSound
      <3>2. PendingSound'
        BY <1>1, <1>2 DEF CallerSound, OpsSound, PendingSound
      <3>3. OpeningSound'
        BY <1>1, <1>2 DEF CallerSound, OpsSound, OpeningSound
      <3>4. QED
        BY <3>1, <3>2, <3>3 DEF OpsSound
    <2>3. Tuned'
      BY <1>1 DEF CallerSound, Tuned, Waits
    <2>4. Cared'
      BY <1>1, <1>2 DEF CallerSound, Cared
    <2>5. OneCall'
      BY <1>1, <1>2 DEF CallerSound, OneCall
    <2>6. QED
      BY <2>1, <2>2, <2>3, <2>4, <2>5 DEF CallerSound
  <1>7. QED
    BY <1>2, <1>3, <1>4, <1>5, <1>6

\* The caller's place, if it changes, is lost.
Settled ==
    \/ /\ me \in callbacks /\ me \in callbacks'
       /\ active'[me] = active[me] /\ Server' = Server
    \/ me \notin callbacks' /\ active'[me] = None /\ Server' = FreePrompt

\* Nothing that matters is said.
Murmurs(f) ==
    /\ f \in Seq(ClientMessage) /\ toClient' = toClient \o f
    /\ NoReady(f) /\ \A q : NoReply(f, q)
    /\ me \notin callbacks => OnlyNames(f)

LEMMA StaysSettled ==
    ASSUME IInv, NEW said, Stays(said)
    PROVE  Settled
  <1>1. me \notin callbacks => active[me] = None /\ Server = FreePrompt
    BY TablesSound, MeAssumption DEF Sound, Server, ServerOf
  <1>2. QED
    BY <1>1 DEF Stays, Settled

LEMMA Murmured ==
    ASSUME BusOK, CallerKeeps, Settled, NEW f, Murmurs(f), Phase,
           toPrompter' = toPrompter, asked' = asked, answers' = answers
    PROVE  Phase'
  <1>0. toClient \in Seq(ClientMessage) /\ pending' = pending /\ ops' = ops
    BY DEF BusOK, CallerKeeps
  <1>1. /\ f \in Seq(ClientMessage) /\ toClient' = toClient \o f
        /\ NoReady(f) /\ \A q : NoReply(f, q) /\ NotFailed(f, q)
        /\ \A a : ReadySays(f, a)
    BY DEF Murmurs, NoReady, ReadySays, NoReply, NotFailed
  <1> DEFINE l == toClient
             g == toClient'
  <1>2. /\ NoReady(l) => NoReady(g)
        /\ OneReady(l) => OneReady(g)
        /\ me \notin callbacks /\ OnlyNames(l) => OnlyNames(g)
        /\ \A q : NoReply(l, q) => NoReply(g, q)
        /\ \A q : NotFailed(l, q) => NotFailed(g, q)
        /\ \A a : ReadySays(l, a) => ReadySays(g, a)
        /\ \A p : HasReady(l, p) => HasReady(g, p)
        /\ \A k, q : ReturnFirst(l, k, q) => ReturnFirst(g, k, q)
    BY <1>0, <1>1, ListsAdd DEF Murmurs
  <1>3. /\ (Opened' <=> Opened) /\ \A o : Started(o)' <=> Started(o)
    BY CallerStays
  <1>4. CASE Unasked
    <2>1. Unasked'
      BY <1>0, <1>2, <1>3, <1>4 DEF Unasked, Settled
    <2>2. QED
      BY <2>1 DEF Phase
  <1>5. CASE BeginSent
    <2>1. BeginSent'
      BY <1>0, <1>2, <1>5 DEF BeginSent, Settled
    <2>2. QED
      BY <2>1 DEF Phase
  <1>6. CASE Opening
    <2>1. Opening'
      BY <1>0, <1>2, <1>6 DEF Opening, Settled
    <2>2. QED
      BY <2>1 DEF Phase
  <1>7. ASSUME NEW rest, ReadyFor(rest) PROVE ReadyFor(rest)'
    BY <1>2, <1>7 DEF ReadyFor, Settled
  <1>8. CASE Resting
    <2>1. Resting'
      BY <1>0, <1>3, <1>7, <1>8 DEF Resting
    <2>2. QED
      BY <2>1 DEF Phase
  <1>9. CASE PerformSent
    <2>1. ReadyFor(<<ToPrompter("Perform", pending, None)>>)'
      BY <1>0, <1>7, <1>9 DEF PerformSent
    <2>2. PerformSent'
      BY <1>0, <1>2, <1>3, <1>9, <2>1 DEF PerformSent
    <2>3. QED
      BY <2>2 DEF Phase
  <1>10. CASE Awaiting
    <2>1. me \in callbacks' => me \in callbacks /\ active'[me] = active[me] /\ Server' = Server
      BY DEF Settled
    <2>2. OnScreen /\ me \in callbacks' => OnScreen'
      BY <1>0, <1>2, <2>1 DEF OnScreen
    <2>3. Awaiting'
      BY <1>0, <1>2, <1>3, <1>10, <2>1, <2>2 DEF Awaiting
    <2>4. QED
      BY <2>3 DEF Phase
  <1>11. QED
    BY <1>4, <1>5, <1>6, <1>8, <1>9, <1>10 DEF Phase

\* A structure that has just been made ready.
LEMMA NewServer ==
    LET pr == SendReady(NewPrompt(me))
    IN  pr.calls = 1 /\ pr.ops = 0 /\ ~pr.ready
  <1>1. /\ FreePrompt \in PromptRecord /\ FreePrompt.calls = 0 /\ FreePrompt.ops = 0
        /\ ~FreePrompt.ready
    BY DEF FreePrompt, PromptRecord
  <1> DEFINE fresh == NewPrompt(me)
  <1>2. fresh = [FreePrompt EXCEPT !.callback = me, !.refs = 1]
    BY DEF NewPrompt
  <1> HIDE DEF fresh
  <1>3. /\ fresh \in PromptRecord /\ fresh.calls = 0 /\ fresh.ops = 0 /\ ~fresh.ready
    BY <1>1, <1>2, MeAssumption DEF PromptRecord
  <1>4. /\ SendReady(fresh).calls = 1 /\ SendReady(fresh).ops = 0
        /\ ~SendReady(fresh).ready
    BY <1>3 DEF SendReady, PromptRecord
  <1>5. QED
    BY <1>4 DEF fresh

\* The turn of the caller comes.
LEMMA TurnComes ==
    ASSUME IInv, CallerSound, BusOK, CallerKeeps, Phase, Turns(<<>>),
           toClient' = toClient \o <<ToClient("Ready", "none", NoOp, active'[me])>>,
           toPrompter' = toPrompter
    PROVE  Phase'
  <1> DEFINE x == ToClient("Ready", "none", NoOp, active'[me])
             l == toClient
             g == toClient'
  <1>1. /\ me \in callbacks /\ active[me] = None /\ me \in callbacks'
        /\ active'[me] \in Prompt /\ Server' = SendReady(NewPrompt(me))
    BY DEF Turns
  <1>2. x \in ClientMessage /\ x.msg = "Ready" /\ x.prompt = active'[me]
    BY <1>1, ToClientOK DEF ToClient
  <1> HIDE DEF x
  <1>3. toClient \in Seq(ClientMessage) /\ g = l \o <<x>>
    BY DEF BusOK, x
  <1>4. /\ NoReady(l) => OneReady(g)
        /\ \A p : HasReady(g, p) <=> HasReady(l, p) \/ (x.msg = "Ready" /\ x.prompt = p)
        /\ \A k, q : ReturnFirst(l, k, q) => ReturnFirst(g, k, q)
    BY <1>2, <1>3, HearOne, HearPrompts, HearFirst
  <1>5. Opening /\ NoReady(l)
    BY <1>1 DEF Phase, Unasked, BeginSent, Opening, Resting, PerformSent, Awaiting, ReadyFor
  <1>6. Server'.calls > 0
    BY <1>1, NewServer
  <1>7. pending' = pending /\ ops' = ops /\ active'[me] # None
    BY <1>1, NoneAssumption DEF CallerKeeps
  <1>8. Opening'
    BY <1>1, <1>2, <1>4, <1>5, <1>6, <1>7 DEF Opening
  <1>9. QED
    BY <1>8 DEF Phase

\* A structure waits for at most one completion.
LEMMA OneCompletion ==
    ASSUME IInv
    PROVE  /\ Server.calls \in Nat /\ Server.ops \in Nat /\ Server.ready \in BOOLEAN
           /\ Server.calls > 0 => Server.ops = 0 /\ ~Server.ready
           /\ Server.ops > 0 => Server.ops = 1 /\ Server.calls = 0 /\ ~Server.ready
           /\ Server.ops > 0 \/ Server.ready => active[me] # None
  <1>1. CASE active[me] = None
    <2>1. Server = FreePrompt
      BY <1>1, TablesParts DEF Server, ServerOf
    <2>2. /\ FreePrompt.calls = 0 /\ FreePrompt.ops = 0 /\ FreePrompt.ready = FALSE
      BY DEF FreePrompt
    <2>3. Server.calls = 0 /\ Server.ops = 0 /\ ~Server.ready /\ Server.ready \in BOOLEAN
      BY <2>1, <2>2
    <2> HIDE DEF Server
    <2>4. QED
      BY <1>1, <2>3
  <1>2. CASE active[me] # None
    <2>1. Server \in PromptRecord /\ PromptOK(Server, 1, One(active[me] = None))
      BY <1>2, TablesSound, ServerParts DEF Server
    <2>2. One(active[me] = None) = 0
      BY <1>2 DEF One
    <2>3. Server.refs > 0
      BY <2>1, <2>2 DEF PromptOK, PromptRecord
    <2>4. QED
      BY <1>2, <2>1, <2>2, <2>3 DEF PromptOK, PromptRecord, One
  <1>3. QED
    BY <1>1, <1>2

LEMMA Singles ==
    \A x : <<x>> # << >> /\ Len(<<x>>) = 1 /\ Head(<<x>>) = x /\ Tail(<<x>>) = << >>
  OBVIOUS

\* What is on its way to the service, and what that means.
LEMMA PhaseHead ==
    ASSUME IInv, Phase, toPrompter # << >>
    PROVE  LET m == Head(toPrompter)
           IN  \/ /\ BeginSent
                  /\ m.msg = "Begin" /\ m.op = 0 /\ Tail(toPrompter) = << >>
               \/ /\ PerformSent
                  /\ m.msg = "Perform" /\ m.op = pending /\ Tail(toPrompter) = << >>
                  /\ me \in callbacks => active[me] # None /\ Server.ready
               \/ /\ Resting /\ ReadyFor(<< >>)
                  /\ m.msg = "Answered" /\ Tail(toPrompter) = << >>
               \/ /\ PerformSent /\ ReadyFor(<<ToPrompter("Perform", pending, None)>>)
                  /\ m.msg = "Answered"
                  /\ Tail(toPrompter) = <<ToPrompter("Perform", pending, None)>>
  <1> DEFINE begin == ToPrompter("Begin", 0, None)
             perform == ToPrompter("Perform", pending, None)
             m == Head(toPrompter)
  <1>1. /\ begin.msg = "Begin" /\ begin.op = 0
        /\ perform.msg = "Perform" /\ perform.op = pending
    BY DEF ToPrompter
  <1> HIDE DEF begin, perform
  <1>2. CASE BeginSent
    <2>1. toPrompter = <<begin>>
      BY <1>2 DEF BeginSent, begin
    <2>2. QED
      BY <1>1, <1>2, <2>1, Singles
  <1>3. CASE Resting
    <2>1. m.msg = "Answered" /\ Tail(toPrompter) = << >> /\ ReadyFor(<< >>)
      BY <1>3 DEF Resting, ReadyFor
    <2>2. QED
      BY <1>3, <2>1
  <1>4. CASE PerformSent
    <2>0. ReadyFor(<<perform>>)
      BY <1>4 DEF PerformSent, perform
    <2>1. CASE toPrompter = <<perform>>
      <3>1. m = perform /\ Tail(toPrompter) = << >>
        BY <2>1, Singles
      <3>2. me \in callbacks => active[me] # None /\ Server.ready
        BY <1>1, <2>0, <3>1 DEF ReadyFor
      <3>3. QED
        BY <1>1, <1>4, <3>1, <3>2
    <2>2. CASE toPrompter # <<perform>>
      <3>1. m.msg = "Answered" /\ Tail(toPrompter) = <<perform>>
        BY <2>0, <2>2 DEF ReadyFor
      <3>2. QED
        BY <1>4, <2>0, <3>1 DEF perform
    <2>3. QED
      BY <2>1, <2>2
  <1>5. CASE Unasked \/ Opening \/ Awaiting
    BY <1>5 DEF Unasked, Opening, Awaiting
  <1>6. QED
    BY <1>2, <1>3, <1>4, <1>5 DEF Phase

\* The answer to the last Ready call has come in.
LEMMA AnswerArrives ==
    ASSUME IInv, CallerSound, BusOK, CallerKeeps, Phase, toPrompter # << >>,
           Head(toPrompter).msg \in {"Answered", "NoObject"},
           toPrompter' = Tail(toPrompter), toClient' = toClient,
           me \in callbacks' => active'[me] # None /\ Server'.ready
    PROVE  Phase'
  <1>0. pending' = pending /\ ops' = ops /\ (Opened' <=> Opened)
    BY CallerStays DEF CallerKeeps
  <1>1. ASSUME NEW rest, ReadyFor(rest), Tail(toPrompter) = rest
        PROVE  ReadyFor(rest)'
    BY <1>1 DEF ReadyFor
  <1>2. \/ Resting /\ ReadyFor(<< >>) /\ Tail(toPrompter) = << >>
        \/ /\ PerformSent /\ ReadyFor(<<ToPrompter("Perform", pending, None)>>)
           /\ Tail(toPrompter) = <<ToPrompter("Perform", pending, None)>>
    BY PhaseHead
  <1>3. CASE Resting /\ ReadyFor(<< >>) /\ Tail(toPrompter) = << >>
    <2>1. Resting'
      BY <1>0, <1>1, <1>3 DEF Resting
    <2>2. QED
      BY <2>1 DEF Phase
  <1>4. CASE /\ PerformSent /\ ReadyFor(<<ToPrompter("Perform", pending, None)>>)
             /\ Tail(toPrompter) = <<ToPrompter("Perform", pending, None)>>
    <2>1. ReadyFor(<<ToPrompter("Perform", pending, None)>>)'
      BY <1>0, <1>1, <1>4
    <2>2. PerformSent'
      BY <1>0, <1>4, <2>1 DEF PerformSent
    <2>3. QED
      BY <2>2 DEF Phase
  <1>5. QED
    BY <1>2, <1>3, <1>4

\* BeginPrompting is called, ...
LEMMA BeginArrives ==
    ASSUME IInv, CallerSound, BusOK, CallerKeeps, Phase, toPrompter # << >>,
           Head(toPrompter).msg = "Begin", BeginPrompting(me),
           toPrompter' = Tail(toPrompter), toClient' = toClient \o FromService(0)
    PROVE  Phase'
  <1>0. pending' = pending /\ ops' = ops
    BY DEF CallerKeeps
  <1>1. BeginSent /\ Tail(toPrompter) = << >>
    BY PhaseHead
  <1>2. ops[0].call = "Begin" /\ OnlyNames(toClient) /\ me \notin callbacks
    BY <1>1 DEF BeginSent
  <1> DEFINE x == ToClient("Return", "Begin", 0, None)
             y == ToClient("Ready", "none", NoOp, active'[me])
             l == toClient
             g == l \o <<x>>
  <1>3. l \in Seq(ClientMessage) /\ NoReady(l)
    BY <1>2, NamesSay DEF BusOK
  <1>4. x \in ClientMessage /\ x.msg = "Return" /\ x.arg = "Begin" /\ x.op = 0
    BY ToClientOK DEF ToClient
  <1> HIDE DEF x, y
  <1>5. /\ g \in Seq(ClientMessage) /\ NoReady(g) /\ OneReady(g)
        /\ ReturnFirst(g, "Begin", 0)
    BY <1>3, <1>4, HearReply
  <1> DEFINE says == FromService(0)
  <1> HIDE DEF g
  <1>6. CASE /\ me \in callbacks' /\ active'[me] = None
             /\ out'[me] = <<Reply("Return", "Begin")>>
    <2>1. says = <<x>>
      BY <1>6, FromServiceIs DEF x
    <2>2. toClient' = g
      BY <2>1 DEF g
    <2>3. Opening'
      BY <1>0, <1>1, <1>2, <1>5, <1>6, <2>2 DEF Opening
    <2>4. QED
      BY <2>3 DEF Phase
  <1>7. CASE Turns(<<Reply("Return", "Begin")>>)
    <2>1. says = <<x, y>>
      BY <1>7, FromServiceIs, Appended DEF x, y, Turns
    <2>2. y \in ClientMessage /\ y.msg = "Ready" /\ y.prompt = active'[me]
      BY <1>7, ToClientOK DEF ToClient, Turns, y
    <2>3. toClient' = g \o <<y>>
      <3>1. <<x>> \o <<y>> = <<x, y>>
        <4>1. <<x>> \in Seq(ClientMessage)
          BY <1>4
        <4>2. <<x>> \o <<y>> = Append(<<x>>, y)
          BY <2>2, <4>1
        <4>3. QED
          BY <4>2, Appended
      <3>2. (l \o <<x>>) \o <<y>> = l \o (<<x>> \o <<y>>)
        BY <1>3, <1>4, <2>2
      <3>3. QED
        BY <2>1, <3>1, <3>2 DEF g
    <2>4. /\ OneReady(toClient') /\ HasReady(toClient', active'[me])
          /\ ReturnFirst(toClient', "Begin", 0)
      BY <1>5, <2>2, <2>3, HearReady
    <2>5. Server'.calls > 0 /\ active'[me] # None
      BY <1>7, NewServer, NoneAssumption DEF Turns
    <2>6. Opening'
      BY <1>0, <1>1, <1>2, <2>4, <2>5 DEF Opening
    <2>7. QED
      BY <2>6 DEF Phase
  <1>8. QED
    BY <1>2, <1>6, <1>7, OwnBegin

\* ... and PerformPrompt.
LEMMA PerformArrives ==
    ASSUME IInv, CallerSound, BusOK, CallerKeeps, Phase, toPrompter # << >>,
           NEW m, m = Head(toPrompter), m.msg = "Perform",
           PerformPrompt(me, "confirm", TRUE),
           toPrompter' = Tail(toPrompter), toClient' = toClient \o FromService(m.op),
           asked' = IF active[me] # None /\ prompts[active[me]].ready
                    THEN [asked EXCEPT ![active[me]] = m.op] ELSE asked
    PROVE  Phase'
  <1>0. pending' = pending /\ ops' = ops /\ (Opened' <=> Opened)
    BY CallerStays DEF CallerKeeps
  <1>1. /\ PerformSent /\ m.op = pending /\ Tail(toPrompter) = << >>
        /\ me \in callbacks => active[me] # None /\ Server.ready
    BY PhaseHead
  <1>2. /\ Opened /\ pending > 0 /\ ops[pending].call = "Perform"
        /\ NoReply(toClient, pending) /\ NoReady(toClient)
    BY <1>1 DEF PerformSent, ReadyFor
  <1>3. toClient \in Seq(ClientMessage)
    BY DEF BusOK
  <1>4. pending \in Op \ {0} /\ Started(pending)
    BY <1>2 DEF CallerSound, ClientOK, OpsSound, PendingSound, NoOp, Client!NoOp
  <1> DEFINE x(r) == ToClient(r, "Perform", pending, None)
             g == toClient'
             says == FromService(m.op)
  <1>5. \A r \in {"Return", "Failed"} :
            /\ x(r) \in ClientMessage /\ x(r).msg = r /\ x(r).arg = "Perform"
            /\ x(r).op = pending
    BY <1>4, ToClientOK DEF ToClient
  <1>6. CASE active[me] # None /\ Server.ready
    <2>1. /\ me \in callbacks' <=> me \in callbacks
          /\ active'[me] = active[me] /\ Server' = Performing(Server)
          /\ out'[me] = <<Reply("Return", "Perform")>>
      BY <1>6, OwnPerform
    <2>2. says = <<x("Return")>>
      BY <1>1, <2>1, FromServiceIs
    <2>3. /\ Server = prompts[active[me]] /\ active[me] \in Prompt /\ me \in callbacks
          /\ Server \in PromptRecord
      BY <1>6, TablesSound, ServerParts DEF Server
    <2>4. asked'[active[me]] = pending
      BY <1>1, <1>6, <2>3 DEF BusOK
    <2>5. Server'.ops > 0
      BY <2>1, <2>3 DEF Performing, PromptRecord
    <2> DEFINE z == x("Return")
    <2>6. /\ z \in ClientMessage /\ z.msg = "Return" /\ z.arg = "Perform"
          /\ z.op = pending /\ g = toClient \o <<z>>
      BY <1>5, <2>2
    <2> HIDE DEF x, z
    <2>7. NotFailed(toClient, pending)
      BY <1>2 DEF NoReply, NotFailed
    <2>8. /\ NoReady(g) /\ OneReady(g) /\ NotFailed(g, pending)
          /\ ReturnFirst(g, "Perform", pending)
      BY <1>2, <1>3, <2>6, <2>7, HearReply
    <2>9. ReadySays(g, answers'[pending])
      BY <2>8 DEF NoReady, ReadySays
    <2>10. OnScreen'
      BY <1>0, <2>1, <2>4, <2>5, <2>8 DEF OnScreen
    <2>11. Awaiting'
      BY <1>0, <1>1, <1>2, <1>6, <2>1, <2>8, <2>9, <2>10 DEF Awaiting
    <2>12. QED
      BY <2>11 DEF Phase
  <1>7. CASE ~(active[me] # None /\ Server.ready)
    <2>1. me \notin callbacks
      BY <1>1, <1>7
    <2>2. me \notin callbacks' /\ out'[me] = <<Reply("Failed", "Perform")>>
      BY <1>7, <2>1, OwnPerform DEF Stays
    <2>3. says = <<x("Failed")>>
      BY <1>1, <2>2, FromServiceIs
    <2> DEFINE z == x("Failed")
    <2>4. /\ z \in ClientMessage /\ z.msg # "Ready" /\ g = toClient \o <<z>>
      BY <1>5, <2>3
    <2> HIDE DEF x, z
    <2>5. NoReady(g)
      BY <1>2, <1>3, <2>4, HearReply
    <2>6. Awaiting'
      BY <1>0, <1>1, <1>2, <2>2, <2>5 DEF Awaiting
    <2>7. QED
      BY <2>6 DEF Phase
  <1>8. QED
    BY <1>6, <1>7

\* A call that nobody is there for fails.
LEMMA BounceArrives ==
    ASSUME IInv, CallerSound, BusOK, Phase, CallBounces
    PROVE  Phase'
  <1> DEFINE m == Head(toPrompter)
             x == ToClient("Failed", m.msg, m.op, None)
  <1>1. /\ toPrompter # << >> /\ ~registered /\ toPrompter' = Tail(toPrompter)
        /\ UNCHANGED vars /\ UNCHANGED clientVars /\ UNCHANGED <<asked, answers>>
    BY DEF CallBounces
  <1>2. CallerKeeps /\ pending' = pending /\ ops' = ops /\ (Opened' <=> Opened)
    <2>1. CallerKeeps
      BY <1>1 DEF CallerKeeps, clientVars
    <2>2. QED
      BY <2>1, CallerStays DEF CallerKeeps
  <1>3. me \notin callbacks /\ me \notin callbacks'
    BY <1>1 DEF IInv, NothingForTheDeparted, vars
  <1>4. toClient \in Seq(ClientMessage)
    BY DEF BusOK
  <1>5. CASE BeginSent /\ m.msg = "Begin" /\ m.op = 0 /\ Tail(toPrompter) = << >>
    <2>1. ops[0].call = "Begin" /\ NoReady(toClient)
      BY <1>5, NamesSay DEF BeginSent, BusOK
    <2>2. x \in ClientMessage /\ x.msg # "Ready"
      BY <1>5, ToClientOK DEF ToClient
    <2>3. toClient' = Append(toClient, x)
      BY <1>5 DEF CallBounces
    <2> HIDE DEF x
    <2>4. toClient' = toClient \o <<x>>
      BY <1>4, <2>2, <2>3
    <2>5. NoReady(toClient') /\ OneReady(toClient')
      BY <1>4, <2>1, <2>2, <2>4, HearReply
    <2>6. Opening'
      BY <1>1, <1>2, <1>3, <1>5, <2>1, <2>5 DEF Opening
    <2>7. QED
      BY <2>6 DEF Phase
  <1>6. CASE PerformSent /\ m.msg = "Perform" /\ m.op = pending /\ Tail(toPrompter) = << >>
    <2>1. Opened /\ pending > 0 /\ NoReady(toClient)
      BY <1>6 DEF PerformSent, ReadyFor
    <2>2. pending \in Op \ {0} /\ Started(pending)
      BY <2>1 DEF CallerSound, ClientOK, OpsSound, PendingSound, NoOp, Client!NoOp
    <2>3. x \in ClientMessage /\ x.msg # "Ready"
      BY <1>6, <2>2, ToClientOK DEF ToClient
    <2>4. toClient' = Append(toClient, x)
      BY <1>6 DEF CallBounces
    <2> HIDE DEF x
    <2>5. toClient' = toClient \o <<x>>
      BY <1>4, <2>3, <2>4
    <2>6. NoReady(toClient')
      BY <1>4, <2>1, <2>3, <2>5, HearReply
    <2>7. Awaiting'
      BY <1>1, <1>2, <1>3, <1>6, <2>1, <2>6 DEF Awaiting
    <2>8. QED
      BY <2>7 DEF Phase
  <1>7. CASE m.msg = "Answered"
    <2>1. toClient' = toClient
      BY <1>7 DEF CallBounces
    <2>2. QED
      BY <1>1, <1>2, <1>3, <1>7, <2>1, AnswerArrives
  <1>8. QED
    BY <1>1, <1>5, <1>6, <1>7, PhaseHead

\* The user answers the question of the caller.
LEMMA UserHeard ==
    ASSUME IInv, CallerSound, BusOK, CallerKeeps, Phase,
           NEW p \in Prompt, active[me] = p, NEW answer \in {"yes", "no"},
           UserAnswers(p, answer), toClient' = toClient \o FromService(NoOp),
           toPrompter' = toPrompter, asked' = asked,
           answers' = [answers EXCEPT ![asked[p]] = answer]
    PROVE  Phase'
  <1> DEFINE x == ToClient("Ready", answer, NoOp, p)
  <1>1. /\ me \in callbacks' <=> me \in callbacks
        /\ active'[me] = p /\ Server.ops > 0 /\ Server' = OperationDone(Server)
        /\ out'[me] = <<Ready(answer)>>
    BY AnswersMe
  <1>2. me \in callbacks /\ p # None /\ Server \in PromptRecord
    BY TablesSound, ServerParts, NoneAssumption DEF Server
  <1>3. Server.calls = 0 /\ ~Server.ready
    BY <1>1, OneCompletion
  <1>4. Awaiting /\ OnScreen
    BY <1>2, <1>3
       DEF Phase, Unasked, BeginSent, Opening, Resting, PerformSent, Awaiting, ReadyFor
  <1>5. asked[p] = pending /\ NoReady(toClient)
    BY <1>4 DEF OnScreen
  <1>6. /\ Opened /\ pending > 0 /\ toPrompter = << >> /\ NotFailed(toClient, pending)
        /\ ops[pending].call = "Perform" => ReturnFirst(toClient, "Perform", pending)
    BY <1>2, <1>4 DEF Awaiting
  <1>7. FromService(NoOp) = <<x>>
    BY <1>1, FromServiceIs
  <1>8. x \in ClientMessage /\ x.msg = "Ready" /\ x.arg = answer /\ x.prompt = p
    BY OpFacts DEF ToClient, ClientMessage
  <1> HIDE DEF x
  <1>9. toClient' = toClient \o <<x>> /\ toClient \in Seq(ClientMessage)
    BY <1>7 DEF BusOK
  <1>10. /\ OneReady(toClient') /\ HasReady(toClient', p) /\ ReadySays(toClient', answer)
         /\ NotFailed(toClient', pending)
         /\ ops[pending].call = "Perform" => ReturnFirst(toClient', "Perform", pending)
    BY <1>5, <1>6, <1>8, <1>9, HearReady
  <1>11. answers'[pending] = answer
    BY <1>5, <1>6 DEF BusOK, CallerSound, ClientOK, NoOp, Client!NoOp
  <1>12. Server'.calls > 0
    BY <1>1, <1>2, <1>3 DEF OperationDone, PromptRecord
  <1>13. pending' = pending /\ ops' = ops /\ (Opened' <=> Opened)
    BY CallerStays DEF CallerKeeps
  <1>14. Awaiting'
    BY <1>1, <1>2, <1>6, <1>10, <1>11, <1>12, <1>13 DEF Awaiting
  <1>15. QED
    BY <1>14 DEF Phase

\* The prompter exits: the calls that it has not answered fail, and those who
\* watch its name are told.
LEMMA ExitNotice ==
    ASSUME CallerSound, BusOK, ServiceExits
    PROVE  \E f \in Seq(ClientMessage) :
               /\ toClient' = toClient \o f /\ NoReady(f)
               /\ \A i \in 1 .. Len(f) :
                     /\ ClientMessageOK(f[i]) /\ f[i].msg \in {"Failed", "Name"}
                     /\ f[i].arg = "Begin" =>
                            \E j \in 1 .. Len(toPrompter) : toPrompter[j].msg = "Begin"
                     /\ f[i].msg = "Name" => Client!Alive(f[i].op)
               /\ toPrompter = << >> => OnlyNames(f)
  <1> DEFINE calls == {m \in Range(toPrompter) : m.msg \in {"Begin", "Perform"}}
             lost == Kept(toPrompter, calls)
             errors == [i \in 1 .. Len(lost) |-> ToClient("Failed", lost[i].msg, lost[i].op, None)]
             watches == {o \in Op : Client!Alive(o) /\ ops[o].watch}
             names == Told(watches, FALSE)
             f == errors \o names
  <1>1. /\ names \in Seq(ClientMessage) /\ OnlyNames(names)
        /\ \A i \in 1 .. Len(names) :
              /\ ClientMessageOK(names[i]) /\ names[i].msg = "Name"
              /\ names[i].arg = "absent" /\ Client!Alive(names[i].op)
    <2>1. watches \in SUBSET Op /\ \A o \in watches : Client!Alive(o)
      OBVIOUS
    <2> HIDE DEF watches
    <2>2. QED
      BY <2>1, ToldNames DEF OnlyNames
  <1>2. NoReady(names)
    BY <1>1, NamesSay
  <1>3. toPrompter \in Seq(PrompterMessage) /\ toClient \in Seq(ClientMessage)
    BY DEF BusOK
  <1>4. toClient' = (toClient \o errors) \o names
    BY DEF ServiceExits, NameIs
  <1>5. lost \in Seq(PrompterMessage) /\ Range(lost) = Range(toPrompter) \intersect calls
    <2> HIDE DEF calls
    <2>1. QED
      BY <1>3, KeptKeeps
  <1>6. Range(lost) = {lost[i] : i \in 1 .. Len(lost)}
        /\ Range(toPrompter) = {toPrompter[i] : i \in 1 .. Len(toPrompter)}
    BY <1>3, <1>5, RangeOf
  <1>7. toPrompter = << >> => lost = << >>
    <2> HIDE DEF calls
    <2>1. Kept(<< >>, calls) = << >>
      <3>1. 0 \in Nat
        OBVIOUS
      <3>2. QED
        BY <3>1, KeptShort
    <2>2. QED
      BY <2>1
  <1>8. \A i \in 1 .. Len(lost) :
            \E j \in 1 .. Len(toPrompter) :
                lost[i] = toPrompter[j] /\ lost[i].msg \in {"Begin", "Perform"}
    BY <1>5, <1>6
  <1> HIDE DEF lost, watches
  <1>9. ASSUME NEW i \in 1 .. Len(lost)
        PROVE  LET x == ToClient("Failed", lost[i].msg, lost[i].op, None)
               IN  /\ x \in ClientMessage /\ ClientMessageOK(x) /\ x.msg = "Failed"
                   /\ x.arg = "Begin" =>
                          \E j \in 1 .. Len(toPrompter) : toPrompter[j].msg = "Begin"
    <2>1. PICK j \in 1 .. Len(toPrompter) :
              lost[i] = toPrompter[j] /\ lost[i].msg \in {"Begin", "Perform"}
      BY <1>8
    <2>2. PrompterMessageOK(lost[i])
      BY <2>1 DEF BusOK
    <2> DEFINE x == ToClient("Failed", lost[i].msg, lost[i].op, None)
    <2>3. x.arg = lost[i].msg /\ x.msg = "Failed"
      BY DEF ToClient
    <2>4. x \in ClientMessage /\ ClientMessageOK(x)
      <3>1. CASE lost[i].msg = "Begin"
        BY <2>2, <3>1, ToClientOK DEF PrompterMessageOK
      <3>2. CASE lost[i].msg = "Perform"
        BY <2>2, <3>2, ToClientOK DEF PrompterMessageOK
      <3>3. QED
        BY <2>1, <3>1, <3>2
    <2> HIDE DEF x
    <2>5. QED
      BY <2>1, <2>3, <2>4 DEF x
  <1>10. errors \in [1 .. Len(lost) -> ClientMessage] /\ Len(lost) \in Nat
    BY <1>5, <1>9
  <1>11. \A i \in 1 .. Len(lost) :
             errors[i] = ToClient("Failed", lost[i].msg, lost[i].op, None)
    OBVIOUS
  <1> HIDE DEF errors, names
  <1>12. errors \in Seq(ClientMessage) /\ Len(errors) = Len(lost)
    BY <1>10, AsList
  <1>13. /\ NoReady(errors)
         /\ \A i \in 1 .. Len(errors) :
               /\ ClientMessageOK(errors[i]) /\ errors[i].msg = "Failed"
               /\ errors[i].arg = "Begin" =>
                      \E j \in 1 .. Len(toPrompter) : toPrompter[j].msg = "Begin"
    BY <1>9, <1>11, <1>12 DEF NoReady
  <1>14. f \in Seq(ClientMessage) /\ NoReady(f)
    BY <1>1, <1>2, <1>12, <1>13, ListsAdd
  <1>15. \A i \in 1 .. Len(f) :
             /\ ClientMessageOK(f[i]) /\ f[i].msg \in {"Failed", "Name"}
             /\ f[i].arg = "Begin" =>
                    \E j \in 1 .. Len(toPrompter) : toPrompter[j].msg = "Begin"
             /\ f[i].msg = "Name" => Client!Alive(f[i].op)
    <2>1. \A i \in 1 .. Len(f) :
              \/ i \in 1 .. Len(errors) /\ f[i] = errors[i]
              \/ i - Len(errors) \in 1 .. Len(names) /\ f[i] = names[i - Len(errors)]
      BY <1>1, <1>12
    <2> HIDE DEF f
    <2>2. QED
      BY <1>1, <1>13, <2>1
  <1>16. toPrompter = << >> => OnlyNames(f)
    <2>1. SUFFICES ASSUME toPrompter = << >> PROVE OnlyNames(f)
      OBVIOUS
    <2>2. Len(errors) = 0
      BY <1>7, <1>12, <2>1
    <2>3. OnlyNames(errors)
      BY <2>2 DEF OnlyNames
    <2>4. QED
      BY <1>1, <1>12, <2>3, ListsAdd
  <1>17. toClient' = toClient \o f
    BY <1>1, <1>3, <1>4, <1>12
  <1>18. QED
    BY <1>14, <1>15, <1>16, <1>17

LEMMA ExitTables ==
    ASSUME IInv, ServiceExits
    PROVE  IInv' /\ me \notin callbacks' /\ active'[me] = None /\ Server' = FreePrompt
  <1> DEFINE fresh == [callbacks |-> {}, waiting |-> EmptyQueue(Callback),
                       active |-> [c \in Callback |-> None],
                       prompts |-> [p \in Prompt |-> FreePrompt], out |-> Silence]
  <1>1. /\ registered' = FALSE /\ callbacks' = {} /\ gone' = gone
        /\ waiting' = EmptyQueue(Callback) /\ active' = [c \in Callback |-> None]
        /\ prompts' = [p \in Prompt |-> FreePrompt] /\ out' = Silence
    BY DEF ServiceExits
  <1>2. Become(fresh)
    BY <1>1 DEF Become
  <1>3. fresh \in TableRecord
    BY FreeOK DEF TableRecord, EmptyQueue, Silence
  <1>4. IsLine(fresh.waiting) /\ \A c \in Callback : fresh.waiting[c] = {}
    BY DEF IsLine, EmptyQueue, QueuedIn
  <1>5. /\ fresh.callbacks = {} /\ \A c \in Callback : fresh.active[c] = None
        /\ \A p \in Prompt : fresh.prompts[p] = FreePrompt
        /\ fresh.out[me] = << >>
    BY MeAssumption DEF Silence
  <1> HIDE DEF fresh
  <1>6. \A p \in Prompt : InTables(fresh, p) = 0 /\ One(p = None) = 0
    BY <1>5, NoneAssumption DEF InTables, IsIn, One
  <1>7. Sound(fresh, None) /\ NobodyWaits(fresh)
    BY <1>3, <1>4, <1>5, <1>6, FreeOK DEF Sound, NobodyWaits
  <1>8. IInv'
    <2>1. /\ Sound(Tables, None)' /\ NobodyWaits(Tables)'
          /\ out' \in [Callback -> Seq(Message)]
      BY <1>2, <1>7, BecomeSound
    <2>2. QED
      BY <1>1, <2>1 DEF IInv, NothingForTheDeparted
  <1>9. QED
    BY <1>1, <1>2, <1>5, <1>8, BecomeMe, MeAssumption DEF ServerOf

LEMMA ExitArrives ==
    ASSUME IInv, CallerSound, BusOK, Phase, ServiceExits
    PROVE  Phase'
  <1>0. CallerKeeps /\ pending' = pending /\ ops' = ops /\ (Opened' <=> Opened)
        /\ toPrompter' = << >> /\ asked' = asked /\ answers' = answers
    <2>1. CallerKeeps /\ toPrompter' = << >> /\ asked' = asked /\ answers' = answers
      BY DEF CallerKeeps, ServiceExits, clientVars
    <2>2. QED
      BY <2>1, CallerStays DEF CallerKeeps
  <1>1. me \notin callbacks' /\ active'[me] = None /\ Server' = FreePrompt
    BY ExitTables
  <1>2. PICK f \in Seq(ClientMessage) :
            /\ toClient' = toClient \o f /\ NoReady(f)
            /\ \A i \in 1 .. Len(f) : ClientMessageOK(f[i])
            /\ toPrompter = << >> => OnlyNames(f)
    BY ExitNotice
  <1>3. NoReady(toClient) => NoReady(toClient')
    BY <1>2, ListsAdd DEF BusOK
  <1>4. CASE toPrompter = << >>
    <2>1. Murmurs(f)
      BY <1>2, <1>4, NamesSay DEF Murmurs
    <2>2. Settled
      BY <1>1 DEF Settled
    <2>3. QED
      BY <1>0, <1>4, <2>1, <2>2, Murmured
  <1>5. CASE BeginSent
    <2>1. ops[0].call = "Begin" /\ NoReady(toClient')
      BY <1>3, <1>5, NamesSay DEF BeginSent, BusOK
    <2>2. OneReady(toClient')
      BY <2>1 DEF OneReady, NoReady
    <2>3. Opening'
      BY <1>0, <1>1, <2>1, <2>2 DEF Opening
    <2>4. QED
      BY <2>3 DEF Phase
  <1>6. CASE PerformSent
    <2>1. Awaiting'
      BY <1>0, <1>1, <1>3, <1>6 DEF PerformSent, ReadyFor, Awaiting
    <2>2. QED
      BY <2>1 DEF Phase
  <1>7. CASE Resting
    <2>1. ReadyFor(<< >>)'
      BY <1>0, <1>1, <1>3, <1>7 DEF Resting, ReadyFor
    <2>2. Resting'
      BY <1>0, <1>7, <2>1 DEF Resting
    <2>3. QED
      BY <2>2 DEF Phase
  <1>8. QED
    BY <1>4, <1>5, <1>6, <1>7 DEF Phase, Unasked, Opening, Awaiting

-----------------------------------------------------------------------------
(* The invariant holds in the steps of the service.                        *)

LEMMA BusStays ==
    ASSUME BusOK, CallerKeeps, NEW f \in Seq(ClientMessage), toClient' = toClient \o f,
           \A i \in 1 .. Len(f) : ClientMessageOK(f[i]),
           \/ toPrompter' = toPrompter
           \/ toPrompter # << >> /\ toPrompter' = Tail(toPrompter)
           \/ toPrompter' = << >>,
           asked' \in [Prompt -> Op], answers' \in [Op -> {"none", "yes", "no"}]
    PROVE  /\ BusOK'
           /\ \A i \in 1 .. Len(toPrompter') :
                 \E j \in 1 .. Len(toPrompter) : toPrompter'[i] = toPrompter[j]
           /\ OneAsk(toPrompter) => OneAsk(toPrompter')
  <1>1. /\ toClient \in Seq(ClientMessage) /\ toPrompter \in Seq(PrompterMessage)
        /\ \A i \in 1 .. Len(toClient) : ClientMessageOK(toClient[i])
        /\ \A i \in 1 .. Len(toPrompter) : PrompterMessageOK(toPrompter[i])
    BY DEF BusOK
  <1>2. toClient' \in Seq(ClientMessage)
    BY <1>1
  <1>3. \A i \in 1 .. Len(toClient') :
            \/ i \in 1 .. Len(toClient) /\ toClient'[i] = toClient[i]
            \/ i - Len(toClient) \in 1 .. Len(f) /\ toClient'[i] = f[i - Len(toClient)]
    BY <1>1
  <1>0. ops' = ops
    BY DEF CallerKeeps
  <1>4. (\A i \in 1 .. Len(toClient) : ClientMessageOK(toClient[i]))'
    BY <1>0, <1>1, <1>3, SMTT(30)
       DEF ClientMessageOK, Started, Client!Started, Finished, Client!Finished
  <1>5. /\ toPrompter' \in Seq(PrompterMessage)
        /\ \A i \in 1 .. Len(toPrompter') :
              \E j \in 1 .. Len(toPrompter) : toPrompter'[i] = toPrompter[j]
        /\ OneAsk(toPrompter) => OneAsk(toPrompter')
    <2>1. CASE toPrompter' = toPrompter
      BY <1>1, <2>1 DEF OneAsk
    <2>2. CASE toPrompter # << >> /\ toPrompter' = Tail(toPrompter)
      <3>1. /\ Len(toPrompter') = Len(toPrompter) - 1
            /\ \A i \in 1 .. Len(toPrompter') :
                  i + 1 \in 1 .. Len(toPrompter) /\ toPrompter'[i] = toPrompter[i + 1]
        BY <1>1, <2>2
      <3>2. toPrompter' \in Seq(PrompterMessage)
        BY <1>1, <2>2
      <3>3. OneAsk(toPrompter) => OneAsk(toPrompter')
        <4>1. SUFFICES ASSUME OneAsk(toPrompter), NEW i \in 1 .. Len(toPrompter'),
                              NEW j \in 1 .. Len(toPrompter'),
                              toPrompter'[i].msg = "Perform", toPrompter'[j].msg = "Perform",
                              toPrompter'[i].op = toPrompter'[j].op
                       PROVE  i = j
          BY DEF OneAsk
        <4>2. i + 1 = j + 1
          BY <3>1, <4>1 DEF OneAsk
        <4>3. QED
          BY <4>2
      <3>4. QED
        BY <3>1, <3>2, <3>3
    <2>3. CASE toPrompter' = << >>
      BY <1>1, <2>3 DEF OneAsk
    <2>4. QED
      BY <2>1, <2>2, <2>3
  <1>6. (\A i \in 1 .. Len(toPrompter) : PrompterMessageOK(toPrompter[i]))'
    BY <1>0, <1>1, <1>5 DEF PrompterMessageOK, Started, Client!Started
  <1>7. QED
    BY <1>2, <1>4, <1>5, <1>6 DEF BusOK

\* No question is asked by a step unless it is said to be.
LEMMA AskedStays ==
    ASSUME AskedIsPending, CallerKeeps,
           Server'.ops > 0 => Server.ops > 0 /\ asked'[active'[me]] = asked[active[me]],
           \A i \in 1 .. Len(toPrompter') :
               \E j \in 1 .. Len(toPrompter) : toPrompter'[i] = toPrompter[j]
    PROVE  AskedIsPending'
  <1>1. pending' = pending /\ ops' = ops
    BY DEF CallerKeeps
  <1>2. (Server.ops > 0 /\ Valid(asked[active[me]]) => pending = asked[active[me]])'
    BY <1>1 DEF AskedIsPending, Valid, Clean, AbortedBefore
  <1>3. (\A i \in 1 .. Len(toPrompter) :
            toPrompter[i].msg = "Perform" /\ Valid(toPrompter[i].op) =>
                pending = toPrompter[i].op)'
    BY <1>1 DEF AskedIsPending, Valid, Clean, AbortedBefore
  <1>4. QED
    BY <1>2, <1>3 DEF AskedIsPending

LEMMA AskedOnceStays ==
    ASSUME AskedOnce, CallerKeeps, answers' = answers,
           Server'.ops > 0 => Server.ops > 0 /\ asked'[active'[me]] = asked[active[me]],
           \A i \in 1 .. Len(toPrompter') :
               \E j \in 1 .. Len(toPrompter) : toPrompter'[i] = toPrompter[j],
           OneAsk(toPrompter')
    PROVE  AskedOnce'
  <1>1. ops' = ops
    BY DEF CallerKeeps
  <1>2. \A o : NotSent(o) => NotSent(o)'
    BY DEF NotSent
  <1>3. \A o : Asking(o)' => Asking(o)
    BY DEF Asking
  <1>4. \A o : Started(o)' <=> Started(o)
    BY <1>1 DEF Started, Client!Started
  <1>5. QED
    BY <1>2, <1>3, <1>4 DEF AskedOnce

LEMMA AnswersStay ==
    ASSUME OwnAnswers, CallerKeeps, answers' = answers
    PROVE  OwnAnswers'
  BY DEF OwnAnswers, CallerKeeps, Clean, AbortedBefore

\* A step in which the caller takes no part, and nobody answers or asks.
LEMMA ServiceKeeps ==
    ASSUME SystemInv, IInv', CallerKeeps, Phase => Phase',
           Server'.ops > 0 => Server.ops > 0 /\ active'[me] = active[me],
           NEW f \in Seq(ClientMessage), toClient' = toClient \o f,
           \A i \in 1 .. Len(f) : ClientMessageOK(f[i]),
           \/ toPrompter' = toPrompter
           \/ toPrompter # << >> /\ toPrompter' = Tail(toPrompter)
           \/ toPrompter' = << >>,
           asked' = asked, answers' = answers
    PROVE  SystemInv'
  <1>1. /\ CallerSound /\ BusOK /\ Phased /\ AskedIsPending /\ AskedOnce /\ OwnAnswers
    BY DEF SystemInv
  <1>2. /\ BusOK' /\ OneAsk(toPrompter')
        /\ \A i \in 1 .. Len(toPrompter') :
              \E j \in 1 .. Len(toPrompter) : toPrompter'[i] = toPrompter[j]
    <2>1. asked' \in [Prompt -> Op] /\ answers' \in [Op -> {"none", "yes", "no"}]
      BY <1>1 DEF BusOK
    <2>2. QED
      BY <1>1, <2>1, BusStays DEF AskedOnce
  <1>3. CallerSound' /\ Phased'
    BY <1>1, CallerStays DEF Phased
  <1>4. AskedIsPending' /\ AskedOnce'
    BY <1>1, <1>2, AskedStays, AskedOnceStays
  <1>5. OwnAnswers'
    BY <1>1, AnswersStay
  <1>6. QED
    BY <1>2, <1>3, <1>4, <1>5 DEF SystemInv

LEMMA ServiceKeepsPlace ==
    ASSUME SystemInv, IInv', NEW o \in Op \union {NoOp}, ServiceStep(o),
           \/ Stays(<< >>) \/ Turns(<< >>) \/ Leaves(<< >>)
           \/ me \in callbacks /\ Leaves(<<Done>>),
           toPrompter' = toPrompter, asked' = asked, answers' = answers
    PROVE  SystemInv'
  <1>1. IInv /\ CallerSound /\ BusOK
    BY DEF SystemInv
  <1>2. CallerKeeps /\ toClient' = toClient \o FromService(o)
    BY DEF ServiceStep, CallerKeeps
  <1>3. CASE Turns(<< >>)
    <2> DEFINE x == ToClient("Ready", "none", NoOp, active'[me])
    <2>1. FromService(o) = <<x>>
      BY <1>3, FromServiceIs, Appended DEF Turns
    <2>2. x \in ClientMessage /\ ClientMessageOK(x)
      BY <1>3, ToClientOK DEF Turns
    <2>3. toClient' = toClient \o <<x>>
      BY <1>2, <2>1
    <2>4. Phase => Phase'
      BY <1>1, <1>2, <1>3, <2>3, TurnComes
    <2>5. Server'.ops = 0
      BY <1>3, NewServer DEF Turns
    <2> HIDE DEF x
    <2>6. <<x>> \in Seq(ClientMessage) /\ \A i \in 1 .. Len(<<x>>) : ClientMessageOK(<<x>>[i])
      BY <2>2
    <2>7. Server'.ops > 0 => Server.ops > 0 /\ active'[me] = active[me]
      BY <2>5
    <2>8. QED
      BY <1>2, <2>3, <2>4, <2>6, <2>7, ServiceKeeps
  <1>4. ASSUME Settled, NEW f, Murmurs(f), \A i \in 1 .. Len(f) : ClientMessageOK(f[i])
        PROVE  SystemInv'
    <2>1. Phase => Phase'
      BY <1>1, <1>2, <1>4, Murmured
    <2>2. FreePrompt.ops = 0
      BY DEF FreePrompt
    <2>3. Server'.ops > 0 => Server.ops > 0 /\ active'[me] = active[me]
      BY <1>4, <2>2 DEF Settled
    <2>4. f \in Seq(ClientMessage) /\ toClient' = toClient \o f
      BY <1>4 DEF Murmurs
    <2>5. QED
      BY <1>2, <1>4, <2>1, <2>3, <2>4, ServiceKeeps
  <1>5. CASE Stays(<< >>) \/ Leaves(<< >>)
    <2>1. FromService(o) = << >>
      BY <1>5, FromServiceIs DEF Stays, Leaves
    <2>2. Murmurs(<< >>)
      BY <1>2, <2>1 DEF Murmurs, NoReady, NoReply, OnlyNames
    <2>3. Settled
      BY <1>1, <1>5, StaysSettled DEF Leaves, Settled
    <2>4. QED
      BY <1>4, <2>2, <2>3
  <1>6. CASE me \in callbacks /\ Leaves(<<Done>>)
    <2> DEFINE x == ToClient("Done", "none", o, None)
    <2>1. FromService(o) = <<x>>
      BY <1>6, FromServiceIs DEF Leaves
    <2>2. x \in ClientMessage /\ ClientMessageOK(x) /\ x.msg = "Done" /\ x.arg = "none"
      BY ToClientOK DEF ToClient
    <2>3. toClient' = toClient \o <<x>>
      BY <1>2, <2>1
    <2> HIDE DEF x
    <2>4. Murmurs(<<x>>)
      BY <1>6, <2>2, <2>3, OneMessage DEF Murmurs
    <2>5. Settled
      BY <1>6 DEF Leaves, Settled
    <2>6. \A i \in 1 .. Len(<<x>>) : ClientMessageOK(<<x>>[i])
      BY <2>2
    <2>7. QED
      BY <1>4, <2>4, <2>5, <2>6
  <1>7. QED
    BY <1>3, <1>5, <1>6

LEMMA Few ==
    ASSUME NEW x \in ClientMessage, NEW y \in ClientMessage,
           ClientMessageOK(x), ClientMessageOK(y)
    PROVE  \A f \in {<< >>, <<x>>, <<x, y>>} :
               f \in Seq(ClientMessage) /\ \A i \in 1 .. Len(f) : ClientMessageOK(f[i])
  <1>1. << >> \in Seq(ClientMessage) /\ Len(<< >>) = 0
    OBVIOUS
  <1>2. <<x>> \in Seq(ClientMessage) /\ Len(<<x>>) = 1 /\ <<x>>[1] = x
    OBVIOUS
  <1>3. <<x, y>> \in Seq(ClientMessage) /\ Len(<<x, y>>) = 2
        /\ <<x, y>>[1] = x /\ <<x, y>>[2] = y
    OBVIOUS
  <1>4. \A i \in 1 .. Len(<<x>>) : i = 1
    BY <1>2
  <1>5. \A i \in 1 .. Len(<<x, y>>) : i = 1 \/ i = 2
    BY <1>3
  <1>6. \A i \in 1 .. Len(<<x>>) : ClientMessageOK(<<x>>[i])
    BY <1>2, <1>4
  <1>7. \A i \in 1 .. Len(<<x, y>>) : ClientMessageOK(<<x, y>>[i])
    BY <1>3, <1>5
  <1>8. \A i \in 1 .. Len(<< >>) : ClientMessageOK(<< >>[i])
    OBVIOUS
  <1>9. TAKE f \in {<< >>, <<x>>, <<x, y>>}
  <1>10. CASE f = << >>
    BY <1>1, <1>8, <1>10
  <1>11. CASE f = <<x>>
    BY <1>2, <1>6, <1>11
  <1>12. CASE f = <<x, y>>
    BY <1>3, <1>7, <1>12
  <1>13. QED
    BY <1>10, <1>11, <1>12

LEMMA OtherCallerKeeps ==
    ASSUME SystemInv, NEW d \in Others, OtherCaller(d)
    PROVE  SystemInv'
  <1>1. IInv /\ d \in Callback /\ NoOp \in Op \union {NoOp}
    BY DEF SystemInv, Others
  <1>2. /\ ServiceStep(NoOp) /\ toPrompter' = toPrompter /\ asked' = asked
        /\ answers' = answers
    BY DEF OtherCaller, NoOp
  <1>3. Owner[d] \in Caller
    BY <1>1, OwnerAssumption
  <1>4. CASE BeginPrompting(d)
    <2>1. IInv'
      BY <1>1, <1>4, BeginPromptingIInv
    <2>2. Stays(<< >>) \/ Turns(<< >>)
      BY <1>1, <1>4, OthersBegin
    <2>3. QED
      BY <1>1, <1>2, <2>1, <2>2, ServiceKeepsPlace
  <1>5. CASE PerformPrompt(d, "confirm", TRUE)
    <2>1. IInv'
      BY <1>1, <1>5, PerformPromptIInv
    <2>2. Stays(<< >>)
      BY <1>1, <1>5, OthersPerform
    <2>3. QED
      BY <1>1, <1>2, <2>1, <2>2, ServiceKeepsPlace
  <1>6. CASE StopMethod(d)
    <2>1. IInv'
      BY <1>1, <1>6, StopMethodIInv
    <2>2. Stays(<< >>) \/ Turns(<< >>)
      BY <1>1, <1>6, OthersStop
    <2>3. QED
      BY <1>1, <1>2, <2>1, <2>2, ServiceKeepsPlace
  <1>7. CASE Owner[d] # Owner[me] /\ CallerVanished(Owner[d])
    <2>1. IInv'
      BY <1>1, <1>3, <1>7, CallerVanishedIInv
    <2>2. Stays(<< >>)
      BY <1>1, <1>7, OthersVanish
    <2>3. QED
      BY <1>1, <1>2, <2>1, <2>2, ServiceKeepsPlace
  <1>8. QED
    BY <1>4, <1>5, <1>6, <1>7 DEF OtherCaller

LEMMA ServiceQuitsKeeps ==
    ASSUME SystemInv, ServiceQuits
    PROVE  SystemInv'
  <1>1. IInv /\ NoOp \in Op \union {NoOp}
    BY DEF SystemInv
  <1>2. /\ ServiceStep(NoOp) /\ toPrompter' = toPrompter /\ asked' = asked
        /\ answers' = answers /\ Unregister
    BY DEF ServiceQuits, NoOp
  <1>3. IInv'
    BY <1>1, <1>2, UnregisterIInv
  <1>4. Stays(<< >>) \/ (me \in callbacks /\ Leaves(<<Done>>))
    BY <1>1, <1>2, UnregisterMe
  <1>5. QED
    BY <1>1, <1>2, <1>3, <1>4, ServiceKeepsPlace

LEMMA UserClosesKeeps ==
    ASSUME SystemInv, NEW p \in Prompt, UserClosesPrompt(p)
    PROVE  SystemInv'
  <1>1. IInv /\ NoOp \in Op \union {NoOp}
    BY DEF SystemInv
  <1>2. /\ ServiceStep(NoOp) /\ toPrompter' = toPrompter /\ asked' = asked
        /\ answers' = answers /\ UserCloses(p)
    BY DEF UserClosesPrompt, NoOp
  <1>3. IInv'
    BY <1>1, <1>2, UserClosesIInv
  <1>4. Stays(<< >>) \/ (me \in callbacks /\ Leaves(<<Done>>))
    BY <1>1, <1>2, ClosesMe
  <1>5. QED
    BY <1>1, <1>2, <1>3, <1>4, ServiceKeepsPlace

\* The structure of the caller, seen in the table.
LEMMA ServerIs ==
    ASSUME IInv, NEW p \in Prompt, active[me] = p
    PROVE  /\ Server = prompts[p] /\ me \in callbacks /\ p # None
           /\ ~prompts[p].cancelled /\ prompts[p].callback = me
  <1>1. p # None
    BY NoneAssumption
  <1>2. QED
    BY <1>1, TablesSound, ServerParts DEF Server

LEMMA ReadyEndsKeeps ==
    ASSUME SystemInv, NEW p \in Prompt, NEW ok \in BOOLEAN, ReadyEnds(p, ok)
    PROVE  SystemInv'
  <1>1. IInv /\ NoOp \in Op \union {NoOp}
    BY DEF SystemInv
  <1>2. /\ ServiceStep(NoOp) /\ toPrompter' = toPrompter /\ asked' = asked
        /\ answers' = answers /\ ReadyComplete(p, ok)
    BY DEF ReadyEnds, NoOp
  <1>3. IInv'
    BY <1>1, <1>2, ReadyCompleteIInv
  <1>4. active[me] = p => ~ok
    BY <1>1, ServerIs DEF ReadyEnds
  <1>5. Stays(<< >>) \/ Turns(<< >>) \/ Leaves(<< >>)
    BY <1>1, <1>2, <1>4, CompletesMe
  <1>6. QED
    BY <1>1, <1>2, <1>3, <1>5, ServiceKeepsPlace

LEMMA ServiceStartsKeeps ==
    ASSUME SystemInv, ServiceStarts
    PROVE  SystemInv'
  <1>1. IInv /\ BusOK /\ Register
    BY DEF SystemInv, ServiceStarts
  <1>2. IInv'
    BY <1>1, RegisterIInv
  <1>3. /\ callbacks' = callbacks /\ active' = active /\ prompts' = prompts
        /\ out' = Silence
    BY <1>1 DEF Register
  <1>4. Stays(<< >>)
    BY <1>3, MeAssumption DEF Stays, Server, ServerOf, Tables, Silence
  <1>5. Settled
    BY <1>1, <1>4, StaysSettled
  <1> DEFINE watches == {o \in Op : Client!Alive(o) /\ ops[o].watch}
             f == Told(watches, TRUE)
  <1>6. toClient' = toClient \o f
    BY DEF ServiceStarts, NameIs
  <1>7. watches \in SUBSET Op
    OBVIOUS
  <1> HIDE DEF watches
  <1>8. /\ f \in Seq(ClientMessage) /\ OnlyNames(f)
        /\ \A i \in 1 .. Len(f) : ClientMessageOK(f[i])
    BY <1>7, ToldNames
  <1> HIDE DEF f
  <1>9. Murmurs(f)
    BY <1>6, <1>8, NamesSay DEF Murmurs
  <1>10. CallerKeeps /\ toPrompter' = toPrompter /\ asked' = asked /\ answers' = answers
    BY DEF ServiceStarts, CallerKeeps, clientVars
  <1>11. Phase => Phase'
    BY <1>1, <1>5, <1>9, <1>10, Murmured
  <1>12. Server' = Server /\ active'[me] = active[me]
    BY <1>4 DEF Stays
  <1>13. QED
    BY <1>2, <1>6, <1>8, <1>10, <1>11, <1>12, ServiceKeeps

LEMMA ServiceExitsKeeps ==
    ASSUME SystemInv, ServiceExits
    PROVE  SystemInv'
  <1>1. IInv /\ CallerSound /\ BusOK
    BY DEF SystemInv
  <1>2. IInv' /\ Server' = FreePrompt
    BY <1>1, ExitTables
  <1>3. Phase => Phase'
    BY <1>1, ExitArrives
  <1>4. PICK f \in Seq(ClientMessage) :
            toClient' = toClient \o f /\ \A i \in 1 .. Len(f) : ClientMessageOK(f[i])
    BY <1>1, ExitNotice
  <1>5. /\ CallerKeeps /\ toPrompter' = << >> /\ asked' = asked /\ answers' = answers
    BY DEF ServiceExits, CallerKeeps, clientVars
  <1>6. FreePrompt.ops = 0
    BY DEF FreePrompt
  <1>7. Server'.ops > 0 => Server.ops > 0 /\ active'[me] = active[me]
    BY <1>2, <1>6
  <1>8. QED
    BY <1>2, <1>3, <1>4, <1>5, <1>7, ServiceKeeps

LEMMA UserAnswersKeeps ==
    ASSUME SystemInv, NEW p \in Prompt, NEW answer \in {"yes", "no"},
           UserAnswersPrompt(p, answer)
    PROVE  SystemInv'
  <1>1. IInv /\ CallerSound /\ BusOK /\ Phased /\ AskedIsPending /\ AskedOnce /\ OwnAnswers
        /\ NoOp \in Op \union {NoOp}
    BY DEF SystemInv
  <1>2. /\ ServiceStep(NoOp) /\ toPrompter' = toPrompter /\ asked' = asked
        /\ UserAnswers(p, answer)
        /\ answers' = IF prompts[p].callback = me
                      THEN [answers EXCEPT ![asked[p]] = answer] ELSE answers
    BY DEF UserAnswersPrompt, NoOp
  <1>3. IInv'
    BY <1>1, <1>2, UserAnswersIInv
  <1>4. prompts[p].callback = me <=> active[me] = p
    BY <1>1, <1>2, AnswersMe
  <1>5. CASE active[me] # p
    <2>1. Stays(<< >>)
      BY <1>1, <1>2, <1>5, AnswersMe
    <2>2. answers' = answers
      BY <1>2, <1>4, <1>5
    <2>3. QED
      BY <1>1, <1>2, <1>3, <2>1, <2>2, ServiceKeepsPlace
  <1>6. CASE active[me] = p
    <2>1. /\ active'[me] = p /\ Server.ops > 0 /\ Server' = OperationDone(Server)
          /\ out'[me] = <<Ready(answer)>>
      BY <1>1, <1>2, <1>6, AnswersMe
    <2>2. answers' = [answers EXCEPT ![asked[p]] = answer]
      BY <1>2, <1>4, <1>6
    <2>3. CallerKeeps /\ toClient' = toClient \o FromService(NoOp)
      BY <1>2 DEF ServiceStep, CallerKeeps
    <2> DEFINE x == ToClient("Ready", answer, NoOp, p)
    <2>4. FromService(NoOp) = <<x>>
      BY <2>1, FromServiceIs
    <2>0. asked[p] \in Op \ {0} /\ Started(asked[p]) /\ NotSent(asked[p]) /\ Finished(0)
      <3>1. asked[p] > 0 /\ Started(asked[p]) /\ NotSent(asked[p]) /\ asked[p] \in Op
        BY <1>1, <1>6, <2>1 DEF AskedOnce, BusOK
      <3>2. Opened
        BY <1>1, <3>1 DEF CallerSound, OpsSound, OpSound
      <3>3. QED
        BY <1>1, <3>1, <3>2, CallerFacts, OpFacts
    <2>5. x \in ClientMessage /\ ClientMessageOK(x)
      BY <2>0, ToClientOK
    <2> HIDE DEF x
    <2>6. <<x>> \in Seq(ClientMessage) /\ \A i \in 1 .. Len(<<x>>) : ClientMessageOK(<<x>>[i])
      BY <2>5, Few
    <2>7. toClient' = toClient \o <<x>>
      BY <2>3, <2>4
    <2>8. asked[p] \in Op /\ answers \in [Op -> {"none", "yes", "no"}]
      BY <1>1 DEF BusOK
    <2>9. answers' \in [Op -> {"none", "yes", "no"}]
      BY <2>2, <2>8
    <2>10. asked' \in [Prompt -> Op]
      BY <1>1, <1>2 DEF BusOK
    <2>11. BusOK' /\ \A i \in 1 .. Len(toPrompter') :
                        \E j \in 1 .. Len(toPrompter) : toPrompter'[i] = toPrompter[j]
      BY <1>1, <1>2, <2>3, <2>6, <2>7, <2>9, <2>10, BusStays
    <2>12. Phase => Phase'
      BY <1>1, <1>2, <1>6, <2>2, <2>3, UserHeard
    <2>13. CallerSound' /\ Phased'
      BY <1>1, <2>3, <2>12, CallerStays DEF Phased
    <2>14. Server'.ops = 0
      <3>1. Server.ops = 1 /\ Server \in PromptRecord
        BY <1>1, <1>6, <2>1, OneCompletion, ServerIs, TablesSound
      <3>2. QED
        BY <2>1, <3>1 DEF OperationDone, PromptRecord
    <2>15. AskedIsPending'
      <3>1. Server'.ops > 0 => Server.ops > 0 /\ asked'[active'[me]] = asked[active[me]]
        BY <2>14
      <3>2. QED
        BY <1>1, <2>3, <2>11, <3>1, AskedStays
    <2>16. OwnAnswers'
      <3>1. ops' = ops
        BY <2>3 DEF CallerKeeps
      <3>2. Valid(asked[p]) => ops[asked[p]].results = << >>
        <4>1. Valid(asked[p]) => pending = asked[p]
          BY <1>1, <1>6, <2>1 DEF AskedIsPending
        <4>2. pending # NoOp => ~Finished(pending)
          BY <1>1 DEF CallerSound, OpsSound, PendingSound
        <4>3. QED
          BY <2>8, <4>1, <4>2 DEF Finished, Client!Finished, NoOp, Client!NoOp, Valid
      <3>3. \A o \in Op : o # asked[p] => answers'[o] = answers[o]
        BY <2>2, <2>8
      <3>4. SUFFICES ASSUME NEW o \in Op \ {0}, ~ops[o].cancelled, Clean(o)
                     PROVE  \A i \in 1 .. Len(ops[o].results) :
                                ops[o].results[i] \in {"yes", "no"} =>
                                    ops[o].results[i] = answers'[o]
        BY <3>1 DEF OwnAnswers, Clean, AbortedBefore
      <3>5. CASE o = asked[p]
        <4>1. Valid(o)
          BY <3>4, MaxOpAssumption DEF Valid, Op, Client!Op
        <4>2. ops[o].results = << >>
          BY <3>2, <3>5, <4>1
        <4>3. QED
          BY <4>2
      <3>6. CASE o # asked[p]
        BY <1>1, <3>3, <3>4, <3>6 DEF OwnAnswers, Clean
      <3>7. QED
        BY <3>5, <3>6
    <2>17. AskedOnce'
      <3>1. \A o \in Op : o # asked[p] => answers'[o] = answers[o]
        BY <2>2, <2>8
      <3>2. \A o : Asking(o)' => Asking(o) /\ o # asked[p]
        BY <1>2, <2>0, <2>14 DEF Asking, NotSent
      <3>3. \A o \in Op : (Started(o)' <=> Started(o)) /\ (~Started(o) => o # asked[p])
        BY <2>0, <2>3 DEF CallerKeeps, Started, Client!Started
      <3>4. \A o \in Op : Asking(o)' \/ ~Started(o)' => answers'[o] = "none"
        BY <1>1, <3>1, <3>2, <3>3 DEF AskedOnce
      <3>5. QED
        BY <1>1, <1>2, <2>14, <3>4 DEF AskedOnce
    <2>18. QED
      BY <1>3, <2>11, <2>13, <2>15, <2>16, <2>17 DEF SystemInv
  <1>7. QED
    BY <1>5, <1>6

LEMMA CallBouncesKeeps ==
    ASSUME SystemInv, CallBounces
    PROVE  SystemInv'
  <1>1. IInv /\ CallerSound /\ BusOK
    BY DEF SystemInv
  <1>2. /\ UNCHANGED vars /\ asked' = asked /\ answers' = answers /\ toPrompter # << >>
        /\ toPrompter' = Tail(toPrompter)
    BY DEF CallBounces
  <1>3. CallerKeeps
    BY DEF CallBounces, CallerKeeps, clientVars
  <1>4. IInv'
    BY <1>1, <1>2, StutterIInv
  <1>5. Phase => Phase'
    BY <1>1, BounceArrives
  <1>6. Server' = Server /\ active' = active
    BY <1>2 DEF vars, Server, ServerOf, Tables
  <1> DEFINE m == Head(toPrompter)
             x == ToClient("Failed", m.msg, m.op, None)
  <1>7. CASE m.msg \in {"Begin", "Perform"}
    <2>1. toPrompter \in Seq(PrompterMessage) /\ PrompterMessageOK(m)
      BY <1>1, <1>2 DEF BusOK
    <2>2. x \in ClientMessage /\ ClientMessageOK(x)
      BY <1>7, <2>1, ToClientOK DEF PrompterMessageOK
    <2>3. toClient' = Append(toClient, x)
      BY <1>7 DEF CallBounces
    <2> HIDE DEF x
    <2>4. toClient' = toClient \o <<x>>
      BY <1>1, <2>2, <2>3 DEF BusOK
    <2>5. <<x>> \in Seq(ClientMessage) /\ \A i \in 1 .. Len(<<x>>) : ClientMessageOK(<<x>>[i])
      BY <2>2, Few
    <2>6. QED
      BY <1>2, <1>3, <1>4, <1>5, <1>6, <2>4, <2>5, ServiceKeeps
  <1>8. CASE m.msg \notin {"Begin", "Perform"}
    <2>1. toClient' = toClient \o << >>
      BY <1>1, <1>8 DEF CallBounces, BusOK
    <2>2. << >> \in Seq(ClientMessage) /\ \A i \in 1 .. Len(<< >>) : ClientMessageOK(<< >>[i])
      OBVIOUS
    <2>3. QED
      BY <1>2, <1>3, <1>4, <1>5, <1>6, <2>1, <2>2, ServiceKeeps
  <1>9. QED
    BY <1>7, <1>8

LEMMA ReadyAnsweredKeeps ==
    ASSUME SystemInv, ReadyAnswered
    PROVE  SystemInv'
  <1> DEFINE m == Head(toPrompter)
             p == m.prompt
             ok == m.msg = "Answered"
  <1>1. IInv /\ CallerSound /\ BusOK
    BY DEF SystemInv
  <1>2. /\ toPrompter # << >> /\ toPrompter' = Tail(toPrompter) /\ asked' = asked
        /\ answers' = answers /\ m.msg \in {"Answered", "NoObject"}
        /\ IF prompts[p].calls > 0
           THEN ReadyComplete(p, ok) /\ ServiceStep(NoOp)
           ELSE UNCHANGED <<vars, clientVars, starts, up, toClient>>
    BY DEF ReadyAnswered, NoOp
  <1>3. p \in Prompt /\ ok \in BOOLEAN
    <2>1. PrompterMessageOK(m)
      BY <1>1, <1>2 DEF BusOK
    <2>2. QED
      BY <1>2, <2>1 DEF PrompterMessageOK
  <1>4. Phase =>
            /\ m.msg = "Answered"
            /\ me \in callbacks =>
                  /\ active[me] # None
                  /\ Server.ready \/ (Server.calls > 0 /\ p = active[me])
    <2>1. Phase => \E rest : ReadyFor(rest) /\ m.msg = "Answered"
      BY <1>1, <1>2, PhaseHead
    <2>2. QED
      BY <2>1 DEF ReadyFor
  <1>5. << >> \in Seq(ClientMessage) /\ \A i \in 1 .. Len(<< >>) : ClientMessageOK(<< >>[i])
    OBVIOUS
  <1> HIDE DEF p, ok
  <1>6. ASSUME CallerKeeps, IInv', toClient' = toClient,
               Server'.ops > 0 => Server.ops > 0 /\ active'[me] = active[me],
               Phase => (me \in callbacks' => active'[me] # None /\ Server'.ready)
        PROVE  SystemInv'
    <2>1. Phase => Phase'
      BY <1>1, <1>2, <1>6, AnswerArrives
    <2>2. toClient' = toClient \o << >>
      BY <1>1, <1>6 DEF BusOK
    <2>3. QED
      BY <1>2, <1>5, <1>6, <2>1, <2>2, ServiceKeeps
  <1>7. CASE prompts[p].calls > 0
    <2>1. ReadyComplete(p, ok) /\ ServiceStep(NoOp)
      BY <1>2, <1>7
    <2>2. IInv'
      BY <1>1, <1>3, <2>1, ReadyCompleteIInv
    <2>3. CallerKeeps /\ toClient' = toClient \o FromService(NoOp)
      BY <2>1 DEF ServiceStep, CallerKeeps
    <2>4. out'[me] = << >> => toClient' = toClient
      <3>1. toClient \o << >> = toClient
        BY <1>1 DEF BusOK
      <3>2. QED
        BY <2>3, <3>1, FromServiceIs
    <2>5. CASE Stays(<< >>) /\ active[me] # p
      <3>1. Phase => (me \in callbacks' => active'[me] # None /\ Server'.ready)
        BY <1>4, <2>5 DEF Stays
      <3>2. QED
        BY <1>6, <2>2, <2>3, <2>4, <2>5, <3>1 DEF Stays
    <2>6. CASE Leaves(<< >>)
      <3>1. FreePrompt.ops = 0
        BY DEF FreePrompt
      <3>2. Server'.ops > 0 => Server.ops > 0 /\ active'[me] = active[me]
        BY <2>6, <3>1 DEF Leaves
      <3>3. QED
        BY <1>6, <2>2, <2>3, <2>4, <2>6, <3>2 DEF Leaves
    <2>7. CASE active[me] = p /\ ok
      <3>1. /\ active'[me] = active[me] /\ Server'.ready /\ Server'.ops = Server.ops
            /\ out'[me] = << >>
        BY <1>1, <1>3, <2>1, <2>7, CompletesMe
      <3>2. active'[me] # None
        BY <1>3, <2>7, <3>1, NoneAssumption
      <3>3. QED
        BY <1>6, <2>2, <2>3, <2>4, <3>1, <3>2
    <2>8. CASE Turns(<< >>) /\ active[me] # p
      <3> DEFINE x == ToClient("Ready", "none", NoOp, active'[me])
      <3>1. FromService(NoOp) = <<x>>
        BY <2>8, FromServiceIs, Appended DEF Turns
      <3>2. x \in ClientMessage /\ ClientMessageOK(x)
        BY <2>8, ToClientOK DEF Turns
      <3> HIDE DEF x
      <3>3. <<x>> \in Seq(ClientMessage)
            /\ \A i \in 1 .. Len(<<x>>) : ClientMessageOK(<<x>>[i])
        BY <3>2, Few
      <3>4. ~Phase
        BY <1>4, <2>8 DEF Turns
      <3>5. Server'.ops = 0
        BY <2>8, NewServer DEF Turns
      <3>6. Server'.ops > 0 => Server.ops > 0 /\ active'[me] = active[me]
        BY <3>5
      <3>7. toClient' = toClient \o <<x>>
        BY <2>3, <3>1
      <3>8. QED
        BY <1>2, <2>2, <2>3, <3>3, <3>4, <3>6, <3>7, ServiceKeeps
    <2>9. QED
      BY <1>1, <1>3, <2>1, <2>5, <2>6, <2>7, <2>8, CompletesMe
  <1>8. CASE ~(prompts[p].calls > 0)
    <2>1. UNCHANGED vars /\ UNCHANGED clientVars /\ toClient' = toClient
      BY <1>2, <1>8
    <2>2. CallerKeeps
      BY <2>1 DEF CallerKeeps, clientVars
    <2>3. IInv'
      BY <1>1, <2>1, StutterIInv
    <2>4. Server' = Server /\ active' = active /\ callbacks' = callbacks
      BY <2>1 DEF vars, Server, ServerOf, Tables
    <2>5. p = active[me] => Server = prompts[p]
      BY <1>1, <1>3, ServerIs
    <2>6. Phase => (me \in callbacks' => active'[me] # None /\ Server'.ready)
      BY <1>4, <1>8, <2>4, <2>5
    <2>7. QED
      BY <1>6, <2>1, <2>2, <2>3, <2>4, <2>6
  <1>9. QED
    BY <1>7, <1>8

LEMMA BeginKeeps ==
    ASSUME SystemInv, toPrompter # << >>, Head(toPrompter).msg = "Begin",
           BeginPrompting(me), ServiceStep(0), toPrompter' = Tail(toPrompter),
           asked' = asked, answers' = answers
    PROVE  SystemInv'
  <1>1. IInv /\ CallerSound /\ BusOK
    BY DEF SystemInv
  <1>2. CallerKeeps /\ toClient' = toClient \o FromService(0)
    BY DEF ServiceStep, CallerKeeps
  <1>3. IInv'
    BY <1>1, BeginPromptingIInv, MeAssumption
  <1>4. Phase => Phase'
    BY <1>1, <1>2, BeginArrives
  <1> DEFINE f == FromService(0)
  <1>5. ASSUME Server'.ops > 0 => Server.ops > 0 /\ active'[me] = active[me],
               f \in Seq(ClientMessage), \A i \in 1 .. Len(f) : ClientMessageOK(f[i])
        PROVE  SystemInv'
    <2> HIDE DEF f
    <2>1. toClient' = toClient \o f
      BY <1>2 DEF f
    <2>2. QED
      BY <1>2, <1>3, <1>4, <1>5, <2>1, ServiceKeeps
  <1> DEFINE x(r) == ToClient(r, "Begin", 0, None)
             y == ToClient("Ready", "none", NoOp, active'[me])
  <1>6. CASE Stays(<<Reply("Failed", "Begin")>>)
    <2>1. f = <<x("Failed")>>
      BY <1>6, FromServiceIs DEF Stays
    <2>2. f \in Seq(ClientMessage) /\ \A i \in 1 .. Len(f) : ClientMessageOK(f[i])
      <3>1. x("Failed") \in ClientMessage /\ ClientMessageOK(x("Failed"))
        BY ToClientOK
      <3> HIDE DEF x, f
      <3>2. QED
        BY <2>1, <3>1, Few
    <2>3. QED
      BY <1>5, <1>6, <2>2 DEF Stays
  <1>7. CASE /\ me \notin callbacks /\ me \in callbacks'
             /\ active'[me] = None /\ out'[me] = <<Reply("Return", "Begin")>>
    <2>1. f = <<x("Return")>>
      BY <1>7, FromServiceIs
    <2>2. f \in Seq(ClientMessage) /\ \A i \in 1 .. Len(f) : ClientMessageOK(f[i])
      <3>1. x("Return") \in ClientMessage /\ ClientMessageOK(x("Return"))
        BY ToClientOK
      <3> HIDE DEF x, f
      <3>2. QED
        BY <2>1, <3>1, Few
    <2>3. Server' = FreePrompt /\ FreePrompt.ops = 0
      BY <1>7 DEF Server, ServerOf, Tables, FreePrompt
    <2>4. Server'.ops > 0 => Server.ops > 0 /\ active'[me] = active[me]
      BY <2>3
    <2>5. QED
      BY <1>5, <2>2, <2>4
  <1>8. CASE Turns(<<Reply("Return", "Begin")>>)
    <2>1. f = <<x("Return"), y>>
      BY <1>8, FromServiceIs, Appended DEF Turns
    <2>2. f \in Seq(ClientMessage) /\ \A i \in 1 .. Len(f) : ClientMessageOK(f[i])
      <3>1. x("Return") \in ClientMessage /\ ClientMessageOK(x("Return"))
        BY ToClientOK
      <3>2. y \in ClientMessage /\ ClientMessageOK(y)
        BY <1>8, ToClientOK DEF Turns
      <3> HIDE DEF x, y, f
      <3>3. QED
        BY <2>1, <3>1, <3>2, Few
    <2>3. Server'.ops = 0
      BY <1>8, NewServer DEF Turns
    <2>4. Server'.ops > 0 => Server.ops > 0 /\ active'[me] = active[me]
      BY <2>3
    <2>5. QED
      BY <1>5, <2>2, <2>4
  <1>9. QED
    BY <1>1, <1>6, <1>7, <1>8, OwnBegin

LEMMA StopKeeps ==
    ASSUME SystemInv, toPrompter # << >>, Head(toPrompter).msg = "Stop",
           NEW o \in Op \union {NoOp}, StopMethod(me), ServiceStep(o),
           toPrompter' = Tail(toPrompter), asked' = asked, answers' = answers
    PROVE  SystemInv'
  <1>1. IInv /\ CallerSound /\ BusOK
    BY DEF SystemInv
  <1>2. CallerKeeps /\ toClient' = toClient \o FromService(o)
    BY DEF ServiceStep, CallerKeeps
  <1>3. IInv'
    BY <1>1, StopMethodIInv, MeAssumption
  <1>4. ~Phase
    BY <1>1, PhaseHead
  <1> DEFINE f == FromService(o)
             x == ToClient("Done", "none", o, None)
  <1>5. f \in {<< >>, <<x>>} /\ Server' = FreePrompt
    BY <1>1, OwnStop, FromServiceIs DEF Leaves
  <1>6. x \in ClientMessage /\ ClientMessageOK(x)
    BY ToClientOK
  <1> HIDE DEF f, x
  <1>7. f \in Seq(ClientMessage) /\ \A i \in 1 .. Len(f) : ClientMessageOK(f[i])
    BY <1>5, <1>6, Few
  <1>8. Server'.ops > 0 => Server.ops > 0 /\ active'[me] = active[me]
    <2>1. FreePrompt.ops = 0
      BY DEF FreePrompt
    <2>2. QED
      BY <1>5, <2>1
  <1>9. toClient' = toClient \o f
    BY <1>2 DEF f
  <1>10. QED
    BY <1>2, <1>3, <1>4, <1>7, <1>8, <1>9, ServiceKeeps

LEMMA PerformKeeps ==
    ASSUME SystemInv, toPrompter # << >>,
           NEW m, m = Head(toPrompter), m.msg = "Perform",
           PerformPrompt(me, "confirm", TRUE), ServiceStep(m.op),
           toPrompter' = Tail(toPrompter), answers' = answers,
           asked' = IF active[me] # None /\ prompts[active[me]].ready
                    THEN [asked EXCEPT ![active[me]] = m.op] ELSE asked
    PROVE  SystemInv'
  <1>1. /\ IInv /\ CallerSound /\ BusOK /\ Phased /\ AskedIsPending /\ AskedOnce /\ OwnAnswers
    BY DEF SystemInv
  <1>2. CallerKeeps /\ toClient' = toClient \o FromService(m.op)
    BY DEF ServiceStep, CallerKeeps
  <1>3. IInv'
    BY <1>1, PerformPromptIInv, MeAssumption
  <1>4. Phase => Phase'
    BY <1>1, <1>2, PerformArrives
  <1>5. m.op \in Op \ {0} /\ Started(m.op) /\ 1 \in 1 .. Len(toPrompter) /\ toPrompter[1] = m
    <2>1. 1 \in 1 .. Len(toPrompter) /\ toPrompter[1] = m
      BY <1>1 DEF BusOK
    <2>2. QED
      BY <1>1, <2>1 DEF BusOK, PrompterMessageOK
  <1>6. active[me] # None => active[me] \in Prompt /\ Server = prompts[active[me]]
    BY <1>1, TablesSound, ServerIs
  <1> DEFINE f == FromService(m.op)
             x(r) == ToClient(r, "Perform", m.op, None)
  <1>7. \A r \in {"Return", "Failed"} : x(r) \in ClientMessage /\ ClientMessageOK(x(r))
    BY <1>5, ToClientOK
  <1>8. CASE active[me] # None /\ Server.ready
    <2>1. /\ active'[me] = active[me] /\ Server' = Performing(Server)
          /\ out'[me] = <<Reply("Return", "Perform")>>
      BY <1>1, <1>8, OwnPerform
    <2>2. f = <<x("Return")>>
      BY <2>1, FromServiceIs
    <2>3. f \in Seq(ClientMessage) /\ \A i \in 1 .. Len(f) : ClientMessageOK(f[i])
      <3>1. x("Return") \in ClientMessage /\ ClientMessageOK(x("Return"))
        BY <1>7
      <3> HIDE DEF x, f
      <3>2. QED
        BY <2>2, <3>1, Few
    <2>4. asked' = [asked EXCEPT ![active[me]] = m.op]
      BY <1>6, <1>8
    <2>5. asked'[active[me]] = m.op /\ asked' \in [Prompt -> Op]
      BY <1>1, <1>5, <1>6, <1>8, <2>4 DEF BusOK
    <2>6. answers' \in [Op -> {"none", "yes", "no"}]
      BY <1>1 DEF BusOK
    <2> HIDE DEF f
    <2>7. toClient' = toClient \o f
      BY <1>2 DEF f
    <2>8. /\ BusOK' /\ OneAsk(toPrompter')
          /\ \A i \in 1 .. Len(toPrompter') :
                \E j \in 1 .. Len(toPrompter) : toPrompter'[i] = toPrompter[j]
      BY <1>1, <1>2, <2>3, <2>5, <2>6, <2>7, BusStays DEF AskedOnce
    <2>9. CallerSound' /\ Phased'
      BY <1>1, <1>2, <1>4, CallerStays DEF Phased
    <2>10. AskedIsPending'
      <3>1. pending' = pending /\ ops' = ops
        BY <1>2 DEF CallerKeeps
      <3>2. Valid(m.op) => pending = m.op
        BY <1>1, <1>5 DEF AskedIsPending
      <3>3. (Server.ops > 0 /\ Valid(asked[active[me]]) => pending = asked[active[me]])'
        BY <2>1, <2>5, <3>1, <3>2 DEF Valid, Clean, AbortedBefore
      <3>4. (\A i \in 1 .. Len(toPrompter) :
                toPrompter[i].msg = "Perform" /\ Valid(toPrompter[i].op) =>
                    pending = toPrompter[i].op)'
        BY <1>1, <2>8, <3>1 DEF AskedIsPending, Valid, Clean, AbortedBefore
      <3>5. QED
        BY <3>3, <3>4 DEF AskedIsPending
    <2>11. OwnAnswers'
      BY <1>1, <1>2, AnswersStay
    <2>12. AskedOnce'
      <3>1. \A o : Started(o)' <=> Started(o)
        BY <1>2 DEF CallerKeeps, Started, Client!Started
      <3>2. (NotSent(m.op))'
        <4>1. \A i \in 1 .. Len(toPrompter') :
                  i + 1 \in 1 .. Len(toPrompter) /\ toPrompter'[i] = toPrompter[i + 1]
          BY <1>1 DEF BusOK
        <4>2. \A i \in 1 .. Len(toPrompter') : i + 1 # 1
          OBVIOUS
        <4>3. QED
          BY <1>1, <1>5, <4>1, <4>2 DEF AskedOnce, OneAsk, NotSent
      <3>3. \A o : Asking(o)' => Asking(o)
        BY <1>5, <2>1, <2>5, <2>8 DEF Asking
      <3>4. OneAsk(toPrompter')
        BY <1>1, <2>8 DEF AskedOnce
      <3>5. \A o \in Op : Asking(o)' \/ ~Started(o)' => answers'[o] = "none"
        BY <1>1, <3>1, <3>3 DEF AskedOnce
      <3>6. m.op > 0
        BY <1>5, OpFacts
      <3>7. QED
        BY <1>5, <2>1, <2>5, <3>1, <3>2, <3>4, <3>5, <3>6 DEF AskedOnce
    <2>13. QED
      BY <1>3, <2>8, <2>9, <2>10, <2>11, <2>12 DEF SystemInv
  <1>9. CASE ~(active[me] # None /\ Server.ready)
    <2>1. Stays(<<Reply("Failed", "Perform")>>)
      BY <1>1, <1>9, OwnPerform
    <2>2. f = <<x("Failed")>>
      BY <2>1, FromServiceIs DEF Stays
    <2>3. f \in Seq(ClientMessage) /\ \A i \in 1 .. Len(f) : ClientMessageOK(f[i])
      <3>1. x("Failed") \in ClientMessage /\ ClientMessageOK(x("Failed"))
        BY <1>7
      <3> HIDE DEF x, f
      <3>2. QED
        BY <2>2, <3>1, Few
    <2>4. asked' = asked
      BY <1>6, <1>9
    <2>5. Server'.ops > 0 => Server.ops > 0 /\ active'[me] = active[me]
      BY <2>1 DEF Stays
    <2> HIDE DEF f
    <2>6. toClient' = toClient \o f
      BY <1>2 DEF f
    <2>7. QED
      BY <1>2, <1>3, <1>4, <2>3, <2>4, <2>5, <2>6, ServiceKeeps
  <1>10. QED
    BY <1>8, <1>9

LEMMA ServiceCalledKeeps ==
    ASSUME SystemInv, ServiceCalled
    PROVE  SystemInv'
  <1> DEFINE m == Head(toPrompter)
  <1>1. /\ toPrompter # << >> /\ toPrompter' = Tail(toPrompter) /\ answers' = answers
        /\ ServiceStep(m.op)
    BY DEF ServiceCalled
  <1>2. toPrompter \in Seq(PrompterMessage) /\ PrompterMessageOK(m)
    BY <1>1 DEF SystemInv, BusOK
  <1>3. m.op \in Op \union {NoOp}
    <2>1. m \in PrompterMessage
      BY <1>1, <1>2
    <2>2. QED
      BY <2>1 DEF PrompterMessage
  <1>4. CASE m.msg = "Begin"
    <2>1. m.op = 0 /\ BeginPrompting(me) /\ asked' = asked
      BY <1>2, <1>4 DEF PrompterMessageOK, ServiceCalled
    <2>2. QED
      BY <1>1, <1>4, <2>1, BeginKeeps
  <1>5. CASE m.msg = "Perform"
    <2>1. /\ PerformPrompt(me, "confirm", TRUE)
          /\ asked' = IF active[me] # None /\ prompts[active[me]].ready
                      THEN [asked EXCEPT ![active[me]] = m.op] ELSE asked
      BY <1>5 DEF ServiceCalled
    <2>2. QED
      BY <1>1, <1>5, <2>1, PerformKeeps
  <1>6. CASE m.msg = "Stop"
    <2>1. StopMethod(me) /\ asked' = asked
      BY <1>6 DEF ServiceCalled
    <2>2. QED
      BY <1>1, <1>3, <1>6, <2>1, StopKeeps
  <1>7. QED
    BY <1>4, <1>5, <1>6 DEF ServiceCalled

-----------------------------------------------------------------------------
(* What the caller's own steps do to its operations.                       *)

\* An operation that is left alone stays sound.
LEMMA OpStays ==
    ASSUME NEW q \in Op, OpSound(q), ops'[q] = ops[q], closed => closed',
           q > 0 /\ Started(q) => Opened', \A p \in Op : Started(p) => Started(p)',
           q > 0 /\ ops[q].idle > 0 => response' \in {response, "none"}
    PROVE  OpSound(q)'
  <1>1. Started(q)' <=> Started(q)
    BY DEF Started, Client!Started
  <1>2. \A p \in 0 .. q - 1 : p \in Op
    BY OpFacts
  <1>3. QED
    BY <1>1, <1>2 DEF OpSound

\* Operations are not taken back, and nothing is answered.
Onward ==
    \A q \in Op :
        /\ ops[q].style # "unused" => ops'[q].style # "unused"
        /\ ops[q].cancelled => ops'[q].cancelled
        /\ ops[q].aborted => ops'[q].aborted
        /\ ops[q].results # << >> => ops'[q].results # << >>
NothingSaid == \A q \in Op \ {0} : ops'[q].results = ops[q].results

LEMMA OpenSound ==
    ASSUME CallerSound, NEW style \in Styles, Client!Open(style)
    PROVE  /\ CallerSound' /\ Live /\ Onward /\ NothingSaid
           /\ ops'[0].call = "bus" /\ ~Started(0)
  <1> DEFINE new == [ops[0] EXCEPT !.style = style, !.call = "bus"]
  <1>1. /\ ClientOK /\ PendingSound /\ OpeningSound /\ \A o \in Op : OpSound(o)
    BY DEF CallerSound, OpsSound
  <1>2. /\ ~Started(0) /\ ~closed /\ running' \in {0, NoOp}
        /\ ops' = [ops EXCEPT ![0] = new]
        /\ UNCHANGED <<closed, context, response, pending>>
    BY OpFacts DEF Client!Open, Started
  <1>3. ops[0] = Client!UnusedOp /\ style \in {"sync", "async"}
    BY <1>1, <1>2, OpFacts, StylesAssumption DEF OpSound
  <1>4. /\ new \in Client!OpRecord /\ new.style # "unused" /\ new.call = "bus"
        /\ new.idle = 0 /\ ~new.aborted /\ new.results = << >> /\ ~new.timeout
    BY <1>3, OpFacts DEF Client!OpRecord
  <1> HIDE DEF new
  <1>5. /\ ops' \in [Op -> Client!OpRecord] /\ ops'[0] = new
        /\ \A q \in Op : q # 0 => ops'[q] = ops[q]
    BY <1>1, <1>2, <1>4, OpFacts DEF ClientOK
  <1>6. ~Finished(0) /\ ~Opened
    BY <1>3, OpFacts DEF Finished, Client!Finished, Opened, Client!Opened
  <1>7. \A q \in Op : q # 0 => ~Started(q) /\ ~Started(q)' /\ ~ops[q].aborted
    BY <1>5, <1>6, CallerFacts, OpFacts DEF Started, Client!Started
  <1>8. pending = NoOp
    BY <1>1, <1>2, <1>7, OpFacts DEF PendingSound, ClientOK
  <1>9. Started(0)' /\ ~Finished(0)'
    BY <1>4, <1>5 DEF Started, Client!Started, Finished, Client!Finished
  <1>10. OpsSound'
    <2>1. \A o \in Op : OpSound(o)'
      <3> TAKE q \in Op
      <3>1. CASE q = 0
        BY <1>4, <1>5, <1>9, <3>1 DEF OpSound
      <3>2. CASE q # 0
        <4>1. \A p \in Op : Started(p) => Started(p)'
          BY <1>2, <1>7
        <4>2. QED
          BY <1>1, <1>2, <1>5, <1>7, <3>2, <4>1, OpStays
      <3>3. QED
        BY <3>1, <3>2
    <2>2. PendingSound'
      BY <1>2, <1>8, OpFacts DEF PendingSound
    <2>3. OpeningSound'
      BY <1>2, <1>4, <1>5, <1>8, <1>9 DEF OpeningSound
    <2>4. QED
      BY <2>1, <2>2, <2>3 DEF OpsSound
  <1>11. ClientOK'
    BY <1>1, <1>2, <1>5, OpFacts DEF ClientOK
  <1>12. Tuned'
    BY <1>2, <1>4, <1>5, <1>8, OpFacts DEF Tuned, Waits
  <1>13. Cared' /\ OneCall'
    <2>1. Cared'
      BY <1>4, <1>5, <1>7 DEF Cared
    <2>2. OneCall'
      BY <1>2, <1>8, OpFacts DEF OneCall
    <2>3. QED
      BY <2>1, <2>2
  <1>14. Live
    BY <1>2, <1>6, <1>7, OpFacts DEF Live, Unaborted
  <1>15. Onward /\ NothingSaid
    <2>1. \A q \in Op : /\ ops[q].style # "unused" => ops'[q].style # "unused"
                        /\ ops[q].cancelled => ops'[q].cancelled
                        /\ ops[q].aborted => ops'[q].aborted
                        /\ ops[q].results # << >> => ops'[q].results # << >>
      BY <1>3, <1>5, OpFacts
    <2>2. QED
      BY <1>5, <2>1 DEF Onward, NothingSaid
  <1>16. QED
    BY <1>2, <1>4, <1>5, <1>10, <1>11, <1>12, <1>13, <1>14, <1>15 DEF CallerSound

\* Nothing is pending although the prompt is opened.
LEMMA RestingNow ==
    ASSUME CallerSound, Phased, Live, Opened, pending = NoOp
    PROVE  Resting
  <1>1. Phase
    BY DEF Phased
  <1>2. Started(0) /\ ops[0].call = "none"
    BY CallerFacts, OpFacts
  <1>3. QED
    BY <1>1, <1>2, OpFacts DEF Phase, Unasked, BeginSent, Opening, PerformSent, Awaiting

LEMMA PerformSound ==
    ASSUME CallerSound, Phased, NEW o \in Op, NEW style \in Styles, Client!Perform(o, style)
    PROVE  /\ CallerSound' /\ Onward /\ NothingSaid
           /\ Live' /\ ~closed => Live /\ Resting
           /\ ops'[o].style # "unused" /\ Opened'
           /\ ~closed => ops'[o].call = "Perform" /\ pending' = o
  <1>1. /\ ClientOK /\ PendingSound /\ OpeningSound /\ \A q \in Op : OpSound(q)
        /\ Cared
    BY DEF CallerSound, OpsSound
  <1>2. /\ Opened /\ running = NoOp /\ pending = NoOp /\ o > 0 /\ ~Started(o)
        /\ \A p \in 0 .. o - 1 : Started(p)
        /\ running' = IF style = "sync" THEN o ELSE NoOp
        /\ closed' = closed
    BY OpFacts DEF Client!Perform, Started, Opened
  <1>3. ops[o] = Client!UnusedOp /\ style \in {"sync", "async"}
    BY <1>1, <1>2, StylesAssumption DEF OpSound
  <1> DEFINE new == IF closed THEN [ops[o] EXCEPT !.style = style, !.idle = 1]
                    ELSE [ops[o] EXCEPT !.style = style, !.call = "Perform", !.watch = TRUE]
  <1>4. ops' = [ops EXCEPT ![o] = new]
    BY DEF Client!Perform
  <1>5. /\ new \in Client!OpRecord /\ new.style = style
        /\ new.call = IF closed THEN "none" ELSE "Perform"
        /\ new.idle = IF closed THEN 1 ELSE 0
        /\ ~new.aborted /\ new.results = << >>
    BY <1>3, OpFacts DEF Client!OpRecord
  <1> HIDE DEF new
  <1>6. /\ ops' \in [Op -> Client!OpRecord] /\ ops'[o] = new
        /\ \A q \in Op : q # o => ops'[q] = ops[q]
    BY <1>1, <1>4, <1>5 DEF ClientOK
  <1>7. \A q \in Op : q # o => /\ Started(q)' <=> Started(q)
                              /\ Finished(q)' <=> Finished(q)
    BY <1>6 DEF Started, Client!Started, Finished, Client!Finished
  <1>8. Started(o)' /\ ~Finished(o)'
    BY <1>3, <1>5, <1>6 DEF Started, Client!Started, Finished, Client!Finished
  <1>0. /\ \A q \in Op : Started(q) => Started(q)'
        /\ \A q \in Op : ops'[q].style # "unused" <=> q = o \/ ops[q].style # "unused"
        /\ \A q \in Op : ops'[q].results = ops[q].results
    BY <1>2, <1>3, <1>5, <1>6, OpFacts DEF Started, Client!Started
  <1>9. Opened'
    BY <1>2, <1>6, OpFacts DEF Opened, Client!Opened, Client!Finished
  <1>10. Finished(0) /\ Started(0) /\ ops[0].call = "none"
    BY <1>2, CallerFacts, OpFacts
  <1>11. \A q \in Op : q > o => ~Started(q)
    <2>1. SUFFICES ASSUME NEW q \in Op, q > o, Started(q) PROVE FALSE
      OBVIOUS
    <2>2. o \in 0 .. q - 1
      BY <2>1, <1>2, OpFacts
    <2>3. QED
      BY <1>1, <1>2, <2>1, <2>2, OpFacts DEF OpSound
  <1>12. \A q \in Op : ops'[q].aborted <=> ops[q].aborted
    BY <1>3, <1>5, <1>6, OpFacts
  <1>13. \A q \in Op : Clean(q)' <=> Clean(q)
    BY <1>12, OpFacts DEF Clean, AbortedBefore
  <1>14. IF closed THEN response' = "none" /\ context' = context /\ pending' = pending
                   ELSE /\ response' = response /\ pending' = o
                        /\ context' = IF style = "sync" THEN "run" ELSE "main"
    BY DEF Client!Perform
  <1>15. \A q \in Op : OpSound(q)'
    <2> TAKE q \in Op
    <2>1. CASE q = o
      <3>1. \A p \in 0 .. o - 1 : Started(p)'
        BY <1>0, <1>2, OpFacts
      <3>2. QED
        BY <1>2, <1>5, <1>6, <1>8, <1>9, <1>14, <2>1, <3>1 DEF OpSound
    <2>2. CASE q # o
      <3>1. QED
        BY <1>0, <1>1, <1>2, <1>6, <1>9, <1>14, <2>2, OpStays
    <2>3. QED
      BY <2>1, <2>2
  <1>16. PendingSound'
    BY <1>0, <1>2, <1>3, <1>5, <1>6, <1>11, <1>14, OpFacts
       DEF PendingSound, Started, Client!Started, Finished, Client!Finished
  <1>17. OpeningSound'
    BY <1>2, <1>6, <1>10, OpFacts DEF OpeningSound
  <1>18. ClientOK'
    BY <1>1, <1>2, <1>6, <1>14 DEF ClientOK
  <1>19. Tuned'
    BY <1>2, <1>5, <1>6, <1>10, <1>14, OpFacts DEF Tuned, Waits
  <1>20. Cared'
    <2> SUFFICES ASSUME NEW q \in Op, Started(q)', ~Finished(q)', Clean(q)'
                 PROVE  pending' = q \/ ops'[q].idle > 0 \/ (q = 0 /\ ops'[0].call # "none")
      BY DEF Cared
    <2>1. CASE q = o
      BY <1>5, <1>6, <1>14, <2>1
    <2>2. CASE q # o
      <3>1. pending = q \/ ops[q].idle > 0 \/ (q = 0 /\ ops[0].call # "none")
        <4>1. Started(q) /\ ~Finished(q) /\ Clean(q)
          BY <1>0, <1>13, <2>2 DEF Started, Client!Started, Finished, Client!Finished
        <4>2. QED
          BY <1>1, <4>1 DEF Cared
      <3>2. QED
        BY <1>2, <1>6, <2>2, <3>1, <1>10, OpFacts
    <2>3. QED
      BY <2>1, <2>2
  <1>21. ~closed /\ Clean(o) => Live
    <2>1. SUFFICES ASSUME ~closed, Clean(o), NEW q \in Op \ {0}, ops[q].aborted PROVE FALSE
      BY <1>2 DEF Live, Unaborted
    <2>2. q < o
      <3>1. q # o /\ Started(q)
        BY <1>1, <1>3, <2>1, OpFacts DEF OpSound
      <3>2. QED
        BY <1>11, <3>1, OpFacts
    <2>3. q \in 1 .. o - 1
      BY <2>1, <2>2, OpFacts
    <2>4. QED
      BY <2>1, <2>3 DEF Clean, AbortedBefore
  <1>22. ~closed /\ Clean(o) => Live /\ Resting
    BY <1>2, <1>21, RestingNow
  <1>23. OneCall'
    <2>1. SUFFICES ASSUME pending' > 0, Clean(pending)', NEW q \in Op \ {0}, q # pending'
                   PROVE  ops'[q].call = "none"
      BY DEF OneCall
    <2>2. ~closed /\ pending' = o
      BY <1>2, <1>14, <2>1, OpFacts
    <2>3. Clean(o)
      BY <1>12, <2>1, <2>2, OpFacts DEF Clean, AbortedBefore
    <2>4. QED
      BY <1>6, <1>22, <2>1, <2>2, <2>3 DEF Resting
  <1>24. Live' /\ ~closed => Clean(o)
    <2>1. SUFFICES ASSUME Live', NEW p \in 1 .. o - 1, ops[p].aborted PROVE FALSE
      BY DEF Clean, AbortedBefore
    <2>2. p \in Op \ {0}
      BY <2>1, OpFacts
    <2>3. QED
      BY <1>12, <2>1, <2>2 DEF Live, Unaborted
  <1>25. Onward /\ NothingSaid
    <2>1. \A q \in Op : ops[q].cancelled => ops'[q].cancelled
      BY <1>3, <1>6, OpFacts
    <2>2. QED
      BY <1>0, <1>12, <2>1 DEF Onward, NothingSaid
  <1>26. CallerSound'
    BY <1>15, <1>16, <1>17, <1>18, <1>19, <1>20, <1>23 DEF CallerSound, OpsSound
  <1>27. QED
    BY <1>0, <1>5, <1>6, <1>9, <1>14, <1>22, <1>24, <1>25, <1>26

LEMMA CancelSound ==
    ASSUME CallerSound, NEW o \in Op, Client!Cancel(o)
    PROVE  /\ CallerSound' /\ Onward /\ NothingSaid
           /\ \A q \in Op : ops'[q].call = ops[q].call
           /\ (Opened' <=> Opened) /\ (Started(0)' <=> Started(0))
           /\ Live' => Live
  <1> DEFINE new == [ops[o] EXCEPT !.cancelled = TRUE, !.aborted = TRUE]
  <1>1. /\ ClientOK /\ PendingSound /\ OpeningSound /\ Tuned /\ Cared /\ OneCall
        /\ \A q \in Op : OpSound(q)
    BY DEF CallerSound, OpsSound
  <1>2. /\ ops' = [ops EXCEPT ![o] = new] /\ Started(o)
        /\ UNCHANGED <<closed, context, response, pending, running>>
    BY DEF Client!Cancel, Started
  <1>3. /\ new \in Client!OpRecord /\ new.style = ops[o].style /\ new.call = ops[o].call
        /\ new.idle = ops[o].idle /\ new.results = ops[o].results
        /\ new.timeout = ops[o].timeout /\ new.cancelled /\ new.aborted
    BY CallerFacts DEF Client!OpRecord
  <1> HIDE DEF new
  <1>4. /\ ops' \in [Op -> Client!OpRecord] /\ ops'[o] = new
        /\ \A q \in Op : q # o => ops'[q] = ops[q]
    BY <1>1, <1>2, <1>3 DEF ClientOK
  <1>5. \A q \in Op : /\ ops'[q].style = ops[q].style /\ ops'[q].call = ops[q].call
                      /\ ops'[q].idle = ops[q].idle /\ ops'[q].results = ops[q].results
                      /\ ops'[q].timeout = ops[q].timeout
                      /\ ops[q].aborted => ops'[q].aborted
    BY <1>3, <1>4
  <1>6. /\ \A q \in Op : (Started(q)' <=> Started(q)) /\ (Finished(q)' <=> Finished(q))
        /\ Opened' <=> Opened
    BY <1>5, OpFacts DEF Started, Client!Started, Finished, Client!Finished, Opened,
                         Client!Opened
  <1>7. \A q \in Op : Clean(q)' => Clean(q)
    BY <1>5, OpFacts DEF Clean, AbortedBefore
  <1>8. \A q \in Op : OpSound(q)'
    <2> TAKE q \in Op
    <2>1. CASE q = o
      <3>1. \A p \in 0 .. o - 1 : Started(p)' <=> Started(p)
        BY <1>6, OpFacts
      <3>2. OpSound(o)
        BY <1>1
      <3>3. QED
        BY <1>2, <1>3, <1>4, <1>6, <2>1, <3>1, <3>2 DEF OpSound
    <2>2. CASE q # o
      <3>1. q > 0 /\ Started(q) => Opened'
        BY <1>1, <1>6 DEF OpSound
      <3>2. QED
        BY <1>1, <1>2, <1>4, <1>6, <2>2, <3>1, OpStays
    <2>3. QED
      BY <2>1, <2>2
  <1>9. PendingSound' /\ OpeningSound'
    <2>1. PendingSound'
      BY <1>1, <1>2, <1>5, <1>6 DEF PendingSound, ClientOK
    <2>2. OpeningSound'
      BY <1>1, <1>2, <1>5, <1>6, OpFacts DEF OpeningSound
    <2>3. QED
      BY <2>1, <2>2
  <1>10. ClientOK' /\ Tuned'
    <2>1. ClientOK'
      BY <1>1, <1>2, <1>4 DEF ClientOK
    <2>2. Tuned'
      BY <1>1, <1>2, <1>5, OpFacts DEF Tuned, Waits
    <2>3. QED
      BY <2>1, <2>2
  <1>11. Cared' /\ OneCall'
    <2>1. Cared'
      BY <1>1, <1>2, <1>5, <1>6, <1>7, OpFacts DEF Cared
    <2>2. OneCall'
      BY <1>1, <1>2, <1>5, <1>7, OpFacts DEF OneCall, ClientOK
    <2>3. QED
      BY <2>1, <2>2
  <1>12. Onward /\ NothingSaid
    <2>1. \A q \in Op : ops[q].cancelled => ops'[q].cancelled
      BY <1>3, <1>4
    <2>2. QED
      BY <1>5, <2>1 DEF Onward, NothingSaid
  <1>13. Live' => Live
    <2>1. Finished(0)' <=> Finished(0)
      BY <1>6, OpFacts
    <2>2. Unaborted' => Unaborted
      BY <1>5 DEF Unaborted
    <2>3. QED
      BY <1>2, <1>6, <2>1, <2>2 DEF Live
  <1>14. Started(0)' <=> Started(0)
    BY <1>6, OpFacts
  <1>15. CallerSound'
    BY <1>8, <1>9, <1>10, <1>11 DEF CallerSound, OpsSound
  <1>16. QED
    BY <1>5, <1>6, <1>12, <1>13, <1>14, <1>15

\* What is pending is dropped.
LEMMA DropPendingIs ==
    ASSUME ClientOK, NEW f, f = Client!DropPending(ops)
    PROVE  /\ f \in [Op -> Client!OpRecord]
           /\ \A q \in Op :
                 f[q] = IF q = pending
                        THEN [ops[q] EXCEPT !.cancelled = TRUE, !.idle = @ + 1]
                        ELSE ops[q]
  <1>1. ops \in [Op -> Client!OpRecord] /\ pending \in Op \union {NoOp}
    BY DEF ClientOK
  <1>2. CASE pending = NoOp
    <2>1. f = ops
      BY <1>2, OpFacts DEF Client!DropPending
    <2>2. QED
      BY <1>1, <1>2, <2>1, OpFacts
  <1>3. CASE pending \in Op
    <2> DEFINE new == [ops[pending] EXCEPT !.cancelled = TRUE, !.idle = @ + 1]
    <2>1. f = [ops EXCEPT ![pending] = new]
      BY <1>1, <1>3, OpFacts DEF Client!DropPending, Client!OpRecord
    <2>2. new \in Client!OpRecord
      <3>1. ops[pending] \in Client!OpRecord
        BY <1>1, <1>3
      <3>2. ops[pending].idle + 1 \in Nat
        BY <3>1 DEF Client!OpRecord
      <3>3. QED
        BY <3>1, <3>2 DEF Client!OpRecord
    <2> HIDE DEF new
    <2>3. f \in [Op -> Client!OpRecord] /\ f[pending] = new
          /\ \A q \in Op : q # pending => f[q] = ops[q]
      BY <1>1, <1>3, <2>1, <2>2
    <2>4. QED
      BY <2>3 DEF new
  <1>4. QED
    BY <1>1, <1>2, <1>3

\* An operation after perform_close: the one that was pending is cancelled and is to
\* complete, and only the opening may have completed at once.
ClosedOp(q, op, new) ==
    /\ new.style = op.style /\ new.call = op.call /\ new.aborted = op.aborted
    /\ new.idle = IF q = pending THEN op.idle + 1 ELSE op.idle
    /\ op.cancelled => new.cancelled
    /\ q = pending => new.cancelled
    /\ op.style = "unused" => new = op
    /\ new.timeout => op.timeout
    /\ q # 0 => new.results = op.results
    /\ op.call # "none" => new.results = op.results
    /\ op.results # << >> => new.results # << >> /\ new.results[1] = op.results[1]

LEMMA ClosingSound ==
    ASSUME CallerSound, closed' = TRUE, pending' = NoOp, context' = "none",
           response' = response, running' \in Op \union {NoOp},
           ops' \in [Op -> Client!OpRecord],
           \A q \in Op : ClosedOp(q, ops[q], ops'[q])
    PROVE  /\ CallerSound' /\ Onward /\ NothingSaid
           /\ \A q \in Op : pending = q => ops'[q].cancelled
  <1>1. /\ ClientOK /\ PendingSound /\ OpeningSound /\ Cared
        /\ \A q \in Op : OpSound(q)
    BY DEF CallerSound, OpsSound
  <1>2. \A q \in Op : /\ (Started(q)' <=> Started(q)) /\ (Finished(q) => Finished(q)')
    BY DEF ClosedOp, Started, Client!Started, Finished, Client!Finished
  <1>3. Opened => Opened'
    BY OpFacts DEF ClosedOp, Opened, Client!Opened, Client!Finished
  <1>4. \A q \in Op : Clean(q)' <=> Clean(q)
    BY OpFacts DEF ClosedOp, Clean, AbortedBefore
  <1>5. \A q \in Op : ops[q].idle \in Nat
    BY CallerFacts DEF Client!OpRecord
  <1>6. \A q \in Op : OpSound(q)'
    <2> TAKE q \in Op
    <2>1. OpSound(q) /\ ClosedOp(q, ops[q], ops'[q])
      BY <1>1
    <2>2. ~Started(q)' => ops'[q] = Client!UnusedOp
      BY <2>1 DEF OpSound, ClosedOp, Started, Client!Started
    <2>3. ops'[q].aborted => ops'[q].cancelled
      BY <2>1 DEF OpSound, ClosedOp
    <2>4. q > 0 /\ Started(q)' => Opened' /\ \A p \in 0 .. q - 1 : Started(p)'
      BY <1>2, <1>3, <2>1, OpFacts DEF OpSound
    <2>5. q > 0 /\ ops'[q].idle > 0 /\ ~ops'[q].cancelled => response' = "none"
      BY <2>1 DEF OpSound, ClosedOp
    <2>6. q > 0 => ops'[q].call \in {"none", "Perform"}
      BY <2>1 DEF OpSound, ClosedOp
    <2>7. QED
      BY <2>2, <2>3, <2>4, <2>5, <2>6 DEF OpSound
  <1>7. PendingSound'
    BY OpFacts DEF PendingSound
  <1>8. OpeningSound'
    <2>1. ClosedOp(0, ops[0], ops'[0])
      BY OpFacts
    <2>2. QED
      BY <1>1, <2>1, OpFacts DEF OpeningSound, ClosedOp, Finished, Client!Finished
  <1>9. ClientOK' /\ Tuned' /\ OneCall'
    <2>1. ClientOK'
      BY <1>1 DEF ClientOK
    <2>2. QED
      BY <2>1, OpFacts DEF Tuned, OneCall
  <1>10. Cared'
    <2> SUFFICES ASSUME NEW q \in Op, Started(q)', ~Finished(q)', Clean(q)'
                 PROVE  ops'[q].idle > 0 \/ (q = 0 /\ ops'[0].call # "none")
      BY DEF Cared
    <2>1. pending = q \/ ops[q].idle > 0 \/ (q = 0 /\ ops[0].call # "none")
      BY <1>1, <1>2, <1>4 DEF Cared
    <2>2. ClosedOp(q, ops[q], ops'[q])
      OBVIOUS
    <2>3. QED
      BY <1>5, <2>1, <2>2 DEF ClosedOp
  <1>11. Onward /\ NothingSaid /\ \A q \in Op : pending = q => ops'[q].cancelled
    BY DEF Onward, NothingSaid, ClosedOp
  <1>12. QED
    BY <1>6, <1>7, <1>8, <1>9, <1>10, <1>11 DEF CallerSound, OpsSound

\* The caller closes the prompt.
Closing ==
    /\ CallerSound' /\ Onward /\ NothingSaid
    /\ closed' = TRUE
    /\ \A q \in Op : pending = q => ops'[q].cancelled
    /\ pending' = NoOp /\ response' = response
    /\ \A q \in Op : ClosedOp(q, ops[q], ops'[q])
    /\ sent' \in {<< >>, <<Client!Call("Stop", NoOp)>>}

LEMMA CloseSound ==
    ASSUME CallerSound, Client!Close \/ Client!DoneCalled
    PROVE  Closing
  <1> DEFINE f == Client!DropPending(ops)
  <1>1. /\ closed' = TRUE /\ pending' = NoOp /\ context' = "none" /\ response' = response
        /\ running' = running /\ ops' = f
    BY OpFacts DEF Client!Close, Client!DoneCalled, Client!PerformClose, Client!ClosedContext
  <1>2. ClientOK
    BY DEF CallerSound
  <1> HIDE DEF f
  <1>3. ops' \in [Op -> Client!OpRecord]
        /\ \A q \in Op :
              ops'[q] = IF q = pending
                        THEN [ops[q] EXCEPT !.cancelled = TRUE, !.idle = @ + 1]
                        ELSE ops[q]
    BY <1>1, <1>2, DropPendingIs DEF f
  <1>4. ASSUME NEW q \in Op PROVE ClosedOp(q, ops[q], ops'[q])
    <2>1. ops[q] \in Client!OpRecord /\ (q = pending => Started(q))
      BY CallerFacts DEF Client!Alive
    <2>2. QED
      BY <1>3, <2>1, ZenonT(60) DEF ClosedOp, Client!OpRecord, Started, Client!Started
  <1>5. running' \in Op \union {NoOp}
    BY <1>1, <1>2 DEF ClientOK
  <1>6. sent' \in {<< >>, <<Client!Call("Stop", NoOp)>>}
    BY OpFacts DEF Client!Close, Client!DoneCalled, Client!PerformClose, Client!StopIfBegun
  <1>7. QED
    BY <1>1, <1>3, <1>4, <1>5, <1>6, ClosingSound DEF Closing

LEMMA CallCancelledSound ==
    ASSUME CallerSound, NEW o \in Op, Client!CallCancelled(o)
    PROVE  Closing
  <1> DEFINE f == Client!DropPending(ops)
             new == [f[o] EXCEPT !.waiting = FALSE, !.error = "cancelled"]
  <1>1. /\ closed' = TRUE /\ pending' = NoOp /\ context' = "none" /\ response' = response
        /\ running' = running
        /\ ops' = [f EXCEPT ![o].waiting = FALSE, ![o].error = "cancelled"]
        /\ Client!Alive(o)
    BY OpFacts DEF Client!CallCancelled, Client!PerformClose, Client!ClosedContext,
                   Client!CancelReady
  <1>2. ClientOK
    BY DEF CallerSound
  <1> HIDE DEF f
  <1>3. f \in [Op -> Client!OpRecord]
        /\ \A q \in Op :
              f[q] = IF q = pending
                     THEN [ops[q] EXCEPT !.cancelled = TRUE, !.idle = @ + 1] ELSE ops[q]
    BY <1>2, DropPendingIs DEF f
  <1>0. f[o] \in Client!OpRecord
    BY <1>3
  <1>4. /\ new \in Client!OpRecord /\ new.style = f[o].style /\ new.call = f[o].call
        /\ new.aborted = f[o].aborted /\ new.idle = f[o].idle
        /\ new.cancelled = f[o].cancelled /\ new.results = f[o].results
        /\ new.timeout = f[o].timeout
    BY <1>0 DEF Client!OpRecord
  <1>5. ops' = [f EXCEPT ![o] = new]
    BY <1>1, <1>3
  <1> HIDE DEF new
  <1>6. ops' \in [Op -> Client!OpRecord] /\ ops'[o] = new
        /\ \A q \in Op : q # o => ops'[q] = f[q]
    BY <1>3, <1>4, <1>5
  <1>7. ASSUME NEW q \in Op PROVE ClosedOp(q, ops[q], ops'[q])
    <2>1. /\ ops[q] \in Client!OpRecord /\ f[q] \in Client!OpRecord
          /\ q = pending \/ q = o => Started(q)
      BY <1>1, <1>3, CallerFacts DEF Client!Alive
    <2>2. ClosedOp(q, ops[q], f[q])
      BY <1>3, <2>1, ZenonT(60) DEF ClosedOp, Client!OpRecord, Started, Client!Started
    <2>3. CASE q = o
      BY <1>4, <1>6, <2>1, <2>2, <2>3 DEF ClosedOp, Started, Client!Started
    <2>4. CASE q # o
      BY <1>6, <2>2, <2>4
    <2>5. QED
      BY <2>3, <2>4
  <1>8. running' \in Op \union {NoOp}
    BY <1>1, <1>2 DEF ClientOK
  <1>9. sent' \in {<< >>, <<Client!Call("Stop", NoOp)>>}
    BY OpFacts DEF Client!CallCancelled, Client!PerformClose, Client!StopIfBegun
  <1>10. QED
    BY <1>1, <1>6, <1>7, <1>8, <1>9, ClosingSound DEF Closing

\* The answers that are kept with an operation.
LEMMA CompleteIs ==
    ASSUME NEW op \in Client!OpRecord,
           NEW answer \in {"null", "none", "yes", "no"}
    PROVE  LET new == Client!Complete(op, answer)
               said == IF op.error = "none" THEN answer ELSE op.error
           IN  /\ new \in Client!OpRecord
               /\ new = [op EXCEPT !.results = Append(op.results, said)]
               /\ new.results = Append(op.results, said) /\ new.results # << >>
               /\ op.results # << >> => new.results[1] = op.results[1]
               /\ op.results = << >> => new.results[1] = said
  <1> DEFINE said == IF op.error = "none" THEN answer ELSE op.error
             S == {"null", "none", "yes", "no", "cancelled", "progress", "failed"}
  <1>1. op.results \in Seq(S) /\ said \in S
    BY DEF Client!OpRecord
  <1>2. /\ Append(op.results, said) \in Seq(S) /\ Append(op.results, said) # << >>
        /\ op.results # << >> => Append(op.results, said)[1] = op.results[1]
        /\ op.results = << >> => Append(op.results, said)[1] = said
    BY <1>1
  <1>3. Client!Complete(op, answer) = [op EXCEPT !.results = Append(op.results, said)]
    BY DEF Client!Complete, Client!OpRecord
  <1> HIDE DEF said
  <1>4. [op EXCEPT !.results = Append(op.results, said)] \in Client!OpRecord
    BY <1>2 DEF Client!OpRecord
  <1>5. [op EXCEPT !.results = Append(op.results, said)].results = Append(op.results, said)
    BY DEF Client!OpRecord
  <1>6. QED
    BY <1>2, <1>3, <1>4, <1>5 DEF said

LEMMA CallTimeoutSound ==
    ASSUME CallerSound, Client!CallTimeout
    PROVE  Closing
  <1> DEFINE f == Client!DropPending(ops)
             op == [f[0] EXCEPT !.timeout = FALSE, !.error = "progress"]
             new == Client!Complete(op, response)
  <1>1. /\ closed' = TRUE /\ pending' = NoOp /\ context' = "none" /\ response' = response
        /\ running' = IF running = 0 THEN NoOp ELSE running
        /\ ops' = [f EXCEPT ![0] = Client!Complete([@ EXCEPT !.timeout = FALSE,
                                                             !.error = "progress"], response)]
        /\ Client!Alive(0) /\ ops[0].timeout
    BY OpFacts DEF Client!CallTimeout, Client!PerformClose, Client!ClosedContext
  <1>2. ClientOK /\ OpeningSound
    BY DEF CallerSound, OpsSound
  <1> HIDE DEF f
  <1>3. f \in [Op -> Client!OpRecord]
        /\ \A q \in Op :
              f[q] = IF q = pending
                     THEN [ops[q] EXCEPT !.cancelled = TRUE, !.idle = @ + 1] ELSE ops[q]
    BY <1>2, DropPendingIs DEF f
  <1>0. f[0] \in Client!OpRecord
    BY <1>3, OpFacts
  <1>4. f[0] \in Client!OpRecord /\ op \in Client!OpRecord
    BY <1>0 DEF Client!OpRecord
  <1>5. ops' = [f EXCEPT ![0] = new]
    BY <1>1, <1>3, OpFacts
  <1>6. /\ op.style = f[0].style /\ op.call = f[0].call /\ op.aborted = f[0].aborted
        /\ op.idle = f[0].idle /\ op.cancelled = f[0].cancelled
        /\ op.results = f[0].results /\ ~op.timeout
    BY <1>4 DEF Client!OpRecord
  <1> HIDE DEF op
  <1>7. /\ new \in Client!OpRecord /\ new.results # << >>
        /\ op.results # << >> => new.results[1] = op.results[1]
        /\ new = [op EXCEPT !.results = new.results]
    <2>1. response \in {"null", "none", "yes", "no"}
      BY <1>2 DEF ClientOK
    <2>2. LET said == IF op.error = "none" THEN response ELSE op.error
          IN  /\ new \in Client!OpRecord
              /\ new = [op EXCEPT !.results = Append(op.results, said)]
              /\ new.results = Append(op.results, said) /\ new.results # << >>
              /\ op.results # << >> => new.results[1] = op.results[1]
      BY <1>4, <2>1, CompleteIs
    <2> HIDE DEF new
    <2>3. QED
      BY <2>2
  <1> HIDE DEF new
  <1>8. /\ new.style = op.style /\ new.call = op.call /\ new.aborted = op.aborted
        /\ new.idle = op.idle /\ new.cancelled = op.cancelled /\ ~new.timeout
    BY <1>4, <1>6, <1>7 DEF Client!OpRecord
  <1>9. ops' \in [Op -> Client!OpRecord] /\ ops'[0] = new
        /\ \A q \in Op : q # 0 => ops'[q] = f[q]
    BY <1>3, <1>5, <1>7, OpFacts
  <1>10. ops[0].call = "none" /\ Started(0)
    BY <1>1, <1>2, CallerFacts, OpFacts DEF OpeningSound
  <1>11. ASSUME NEW q \in Op PROVE ClosedOp(q, ops[q], ops'[q])
    <2>1. /\ ops[q] \in Client!OpRecord /\ f[q] \in Client!OpRecord
          /\ q = pending => Started(q)
      BY <1>3, CallerFacts DEF Client!Alive
    <2>2. ClosedOp(q, ops[q], f[q])
      BY <1>3, <2>1 DEF ClosedOp, Client!OpRecord, Started, Client!Started
    <2>3. CASE q = 0
      BY <1>6, <1>7, <1>8, <1>9, <1>10, <2>2, <2>3 DEF ClosedOp, Started, Client!Started
    <2>4. CASE q # 0
      BY <1>9, <2>2, <2>4
    <2>5. QED
      BY <2>3, <2>4
  <1>12. running' \in Op \union {NoOp}
    BY <1>1, <1>2 DEF ClientOK
  <1>13. sent' \in {<< >>, <<Client!Call("Stop", NoOp)>>}
    BY OpFacts DEF Client!CallTimeout, Client!PerformClose, Client!StopIfBegun
  <1>14. QED
    BY <1>1, <1>9, <1>11, <1>12, <1>13, ClosingSound DEF Closing

\* An operation whose callback is called.
FinishedOp(op, new) ==
    /\ new.style = op.style /\ op.style # "unused" /\ new.aborted = op.aborted
    /\ new.cancelled = op.cancelled /\ new.timeout = op.timeout
    /\ new.call \in {op.call, "none"}
    /\ new.idle \in {op.idle, op.idle - 1}
    /\ new.results # << >>
    /\ op.results # << >> => new.results[1] = op.results[1]

LEMMA FinishSound ==
    ASSUME CallerSound, NEW o \in Op, ops' \in [Op -> Client!OpRecord],
           \A q \in Op : q # o => ops'[q] = ops[q], FinishedOp(ops[o], ops'[o]),
           o = 0 => ops'[0].call = "none", closed' = closed,
           pending' # o, pending' \in {pending, NoOp},
           pending \in {pending', o} \/ ~Clean(pending),
           context' \in {"none", "main", "run", "dead"}, running' \in Op \union {NoOp},
           response' \in {"null", "none", "yes", "no"},
           closed \/ (pending' = NoOp /\ ops'[0].call # "Begin"),
           \A q \in Op : q > 0 /\ ops[q].idle > 0 => response' \in {response, "none"}
    PROVE  CallerSound'
  <1>1. /\ ClientOK /\ PendingSound /\ OpeningSound /\ Cared /\ OneCall
        /\ \A q \in Op : OpSound(q)
    BY DEF CallerSound, OpsSound
  <1>2. \A q \in Op :
            /\ ops'[q].style = ops[q].style /\ ops'[q].aborted = ops[q].aborted
            /\ ops'[q].call \in {ops[q].call, "none"}
            /\ ops[q].results # << >> => ops'[q].results # << >>
                                         /\ ops'[q].results[1] = ops[q].results[1]
    BY DEF FinishedOp
  <1>3. /\ \A q \in Op : (Started(q)' <=> Started(q)) /\ (Finished(q) => Finished(q)')
        /\ \A q \in Op : Clean(q)' <=> Clean(q)
        /\ Opened => Opened'
    BY <1>2, OpFacts DEF Started, Client!Started, Finished, Client!Finished, Clean,
                         AbortedBefore, Opened, Client!Opened
  <1>4. \A q \in Op : ops[q].idle \in Nat /\ ops'[q].idle \in Nat
    BY CallerFacts DEF Client!OpRecord
  <1>5. \A q \in Op : OpSound(q)'
    <2> TAKE q \in Op
    <2>1. OpSound(q)
      BY <1>1
    <2>2. CASE q # o
      <3>1. q > 0 /\ Started(q) => Opened'
        BY <1>3, <2>1 DEF OpSound
      <3>2. QED
        BY <1>3, <2>1, <2>2, <3>1, OpStays
    <2>3. CASE q = o
      <3>1. ops'[q].style # "unused"
        BY <2>3 DEF FinishedOp
      <3>2. ops'[q].idle > 0 => ops[q].idle > 0
        BY <1>4, <2>3 DEF FinishedOp
      <3>3. q > 0 => Opened' /\ \A p \in 0 .. q - 1 : Started(p)'
        BY <1>3, <2>1, <3>1, <1>2, OpFacts DEF OpSound, Started, Client!Started
      <3>4. q > 0 => ops'[q].call \in {"none", "Perform"}
        BY <1>2, <2>1 DEF OpSound
      <3>5. q > 0 /\ ops'[q].idle > 0 /\ ~ops'[q].cancelled => response' = "none"
        BY <2>1, <2>3, <3>2 DEF OpSound, FinishedOp
      <3>6. ops'[q].aborted => ops'[q].cancelled
        BY <2>1, <2>3 DEF OpSound, FinishedOp
      <3>7. ops'[q].idle > 0 => closed'
        BY <2>1, <3>2 DEF OpSound
      <3>8. QED
        BY <3>1, <3>3, <3>4, <3>5, <3>6, <3>7 DEF OpSound, Started, Client!Started
    <2>4. QED
      BY <2>2, <2>3
  <1>6. PendingSound'
    <2>1. SUFFICES ASSUME pending' # NoOp PROVE PendingSound'
      BY OpFacts DEF PendingSound
    <2>2. pending' = pending /\ ops'[pending] = ops[pending] /\ pending \in Op
      BY <1>1, <2>1 DEF ClientOK
    <2>3. Started(pending) /\ ~Finished(pending) /\ ops[pending].idle = 0
      BY <1>1, <2>1, <2>2 DEF PendingSound
    <2>4. Started(pending)' /\ ~Finished(pending)' /\ ops'[pending'].idle = 0
      BY <2>2, <2>3 DEF Started, Client!Started, Finished, Client!Finished
    <2>5. pending' > 0 => ~closed' /\ \A q \in Op : q > pending' => ~Started(q)'
      BY <1>1, <1>3, <2>2 DEF PendingSound
    <2>6. QED
      BY <2>4, <2>5 DEF PendingSound
  <1>7. OpeningSound'
    <2>1. CASE o = 0
      BY <2>1 DEF OpeningSound
    <2>2. CASE o # 0
      <3>1. ops'[0] = ops[0]
        BY <2>2, OpFacts
      <3>2. QED
        BY <1>1, <3>1 DEF OpeningSound, Finished, Client!Finished
    <2>3. QED
      BY <2>1, <2>2
  <1>8. ClientOK' /\ Tuned'
    <2>1. ClientOK'
      BY <1>1 DEF ClientOK
    <2>2. Tuned'
      BY OpFacts DEF Tuned, Waits
    <2>3. QED
      BY <2>1, <2>2
  <1>9. Cared'
    <2> SUFFICES ASSUME NEW q \in Op, Started(q)', ~Finished(q)', Clean(q)'
                 PROVE  pending' = q \/ ops'[q].idle > 0 \/ (q = 0 /\ ops'[0].call # "none")
      BY DEF Cared
    <2>1. q # o
      BY <1>2 DEF FinishedOp, Finished, Client!Finished
    <2>2. pending = q \/ ops[q].idle > 0 \/ (q = 0 /\ ops[0].call # "none")
      BY <1>1, <1>3 DEF Cared
    <2>3. QED
      BY <1>3, <2>1, <2>2
  <1>10. OneCall'
    <2> SUFFICES ASSUME pending' > 0, Clean(pending)', NEW q \in Op \ {0}, q # pending'
                 PROVE  ops'[q].call = "none"
      BY DEF OneCall
    <2>1. pending' = pending /\ pending \in Op
      BY <1>1, OpFacts DEF ClientOK
    <2>2. Clean(pending)
      BY <1>2, <2>1, OpFacts DEF Clean, AbortedBefore
    <2>3. QED
      BY <1>1, <1>2, <2>1, <2>2 DEF OneCall
  <1>11. QED
    BY <1>5, <1>6, <1>7, <1>8, <1>9, <1>10 DEF CallerSound, OpsSound

LEMMA FinishedOnward ==
    ASSUME NEW o \in Op, \A q \in Op : q # o => ops'[q] = ops[q],
           FinishedOp(ops[o], ops'[o])
    PROVE  /\ Onward
           /\ \A q \in Op : /\ ops'[q].aborted = ops[q].aborted
                             /\ ops'[q].cancelled = ops[q].cancelled
                             /\ ops'[q].style = ops[q].style
  BY DEF FinishedOp, Onward

\* How the loop of an operation ends.
LEMMA ReturnIs ==
    ASSUME ClientOK, NEW o \in Op, Client!Return(o)
    PROVE  context' \in {"none", "main", "run", "dead"} /\ running' \in Op \union {NoOp}
  BY OpFacts DEF Client!Return, ClientOK

\* An operation whose call fails completes with its error.
LEMMA FailedOp ==
    ASSUME NEW op \in Client!OpRecord, op.style # "unused",
           NEW isAborted \in BOOLEAN, NEW answer \in {"null", "none", "yes", "no"},
           NEW new, new = Client!Complete(Client!Failure(op, isAborted), answer)
    PROVE  /\ new \in Client!OpRecord /\ FinishedOp(op, new) /\ new.call = "none"
           /\ new.cancelled = op.cancelled /\ new.idle = op.idle
           /\ \E said \in {"cancelled", "failed"} : new.results = Append(op.results, said)
           /\ op.results = << >> => new.results[1] \in {"cancelled", "failed"}
  <1> DEFINE fail == Client!Failure(op, isAborted)
             said == fail.error
  <1>1. /\ fail \in Client!OpRecord /\ fail.call = "none" /\ fail.style = op.style
        /\ fail.aborted = op.aborted /\ fail.cancelled = op.cancelled
        /\ fail.timeout = op.timeout /\ fail.idle = op.idle /\ fail.results = op.results
        /\ said \in {"cancelled", "failed"}
    BY DEF Client!Failure, Client!OpRecord
  <1> HIDE DEF fail
  <1>2. /\ new \in Client!OpRecord
        /\ new = [fail EXCEPT !.results = Append(fail.results, said)]
        /\ new.results = Append(fail.results, said) /\ new.results # << >>
        /\ fail.results # << >> => new.results[1] = fail.results[1]
        /\ fail.results = << >> => new.results[1] = said
    <2> DEFINE word == IF fail.error = "none" THEN answer ELSE fail.error
    <2>1. word = said
      BY <1>1
    <2> DEFINE done == Client!Complete(fail, answer)
    <2>2. /\ done \in Client!OpRecord
          /\ done = [fail EXCEPT !.results = Append(fail.results, word)]
          /\ done.results = Append(fail.results, word) /\ done.results # << >>
          /\ fail.results # << >> => done.results[1] = fail.results[1]
          /\ fail.results = << >> => done.results[1] = word
      BY <1>1, CompleteIs
    <2> HIDE DEF done
    <2>4. new = done
      BY DEF fail, done
    <2> HIDE DEF word, said
    <2>3. QED
      BY <2>1, <2>2, <2>4
  <1>3. /\ new.call = fail.call /\ new.style = fail.style
        /\ new.aborted = fail.aborted /\ new.cancelled = fail.cancelled
        /\ new.timeout = fail.timeout /\ new.idle = fail.idle
    BY <1>1, <1>2 DEF Client!OpRecord
  <1> HIDE DEF said
  <1>4. FinishedOp(op, new)
    BY <1>1, <1>2, <1>3 DEF FinishedOp
  <1>5. QED
    BY <1>1, <1>2, <1>3, <1>4

\* The opening fails.
LEMMA OpeningFails ==
    ASSUME CallerSound, ops[0].call # "none", NEW isAborted \in BOOLEAN,
           ops' = [ops EXCEPT ![0] = Client!Complete(Client!Failure(@, isAborted), response)],
           Client!Return(0), UNCHANGED <<closed, response, pending>>
    PROVE  /\ CallerSound' /\ ~Live' /\ Onward /\ NothingSaid
           /\ ~Opened' /\ ops'[0].call = "none"
  <1> DEFINE new == Client!Complete(Client!Failure(ops[0], isAborted), response)
  <1>1. /\ ClientOK /\ pending = NoOp /\ ~Finished(0) /\ Started(0) /\ ops[0] \in Client!OpRecord
        /\ \A q \in Op : q > 0 => ops[q].idle = 0
    BY CallerFacts, OpFacts DEF CallerSound
  <1>2. ops' = [ops EXCEPT ![0] = new]
    OBVIOUS
  <1>3. response \in {"null", "none", "yes", "no"}
    BY <1>1 DEF ClientOK
  <1>4. /\ new \in Client!OpRecord /\ FinishedOp(ops[0], new) /\ new.call = "none"
        /\ new.results[1] \in {"cancelled", "failed"}
    BY <1>1, <1>3, FailedOp DEF Started, Client!Started, Finished, Client!Finished
  <1> HIDE DEF new
  <1>5. /\ ops' \in [Op -> Client!OpRecord] /\ ops'[0] = new
        /\ \A q \in Op : q # 0 => ops'[q] = ops[q]
    BY <1>1, <1>2, <1>4, OpFacts DEF ClientOK
  <1>6. context' \in {"none", "main", "run", "dead"} /\ running' \in Op \union {NoOp}
    BY <1>1, ReturnIs, OpFacts
  <1>7. CallerSound'
    BY <1>1, <1>3, <1>4, <1>5, <1>6, OpFacts, FinishSound
  <1>8. ~Live' /\ ~Opened' /\ ops'[0].call = "none"
    BY <1>4, <1>5 DEF Live, Opened, Client!Opened, Client!Finished, Finished, FinishedOp
  <1>9. Onward /\ NothingSaid
    BY <1>4, <1>5, FinishedOnward, OpFacts DEF NothingSaid
  <1>10. QED
    BY <1>7, <1>8, <1>9

LEMMA BusConnectedSound ==
    ASSUME CallerSound, NEW ok \in BOOLEAN, Client!BusConnected(ok)
    PROVE  /\ CallerSound' /\ Onward /\ NothingSaid
           /\ pending = NoOp /\ sent' \in {<< >>, <<Client!Call("Begin", 0)>>}
           /\ Live' => /\ ops'[0].call = "Begin" /\ Live /\ ops[0].call = "bus"
                       /\ sent' = <<Client!Call("Begin", 0)>> /\ pending' = NoOp
  <1>1. /\ ClientOK /\ OpeningSound /\ PendingSound /\ \A q \in Op : OpSound(q)
    BY DEF CallerSound, OpsSound
  <1>2. /\ ops[0].call = "bus" /\ Client!Iterated(0)
        /\ UNCHANGED <<closed, response, pending>>
    BY DEF Client!BusConnected
  <1>3. /\ pending = NoOp /\ ~Finished(0) /\ ~Opened /\ Started(0)
        /\ ops[0] \in Client!OpRecord
        /\ \A q \in Op : q > 0 => ~Started(q)
    BY <1>2, CallerFacts, OpFacts
  <1>4. CASE ok /\ ~ops[0].cancelled
    <2> DEFINE new == [ops[0] EXCEPT !.call = "Begin", !.watch = TRUE]
    <2>1. /\ ops' = [ops EXCEPT ![0] = new] /\ running' = running
          /\ context' = IF ops[0].style = "sync" THEN "run" ELSE "main"
          /\ sent' = <<Client!Call("Begin", 0)>>
      BY <1>4 DEF Client!BusConnected
    <2>2. /\ new \in Client!OpRecord /\ new.style = ops[0].style /\ new.call = "Begin"
          /\ new.idle = ops[0].idle /\ new.results = ops[0].results
          /\ new.timeout = ops[0].timeout /\ new.aborted = ops[0].aborted
          /\ new.cancelled = ops[0].cancelled
      BY <1>3 DEF Client!OpRecord
    <2> HIDE DEF new
    <2>3. /\ ops' \in [Op -> Client!OpRecord] /\ ops'[0] = new
          /\ \A q \in Op : q # 0 => ops'[q] = ops[q]
      BY <1>1, <2>1, <2>2, OpFacts DEF ClientOK
    <2>4. /\ Started(0)' /\ ~Finished(0)' /\ ~Opened'
          /\ \A q \in Op : q # 0 => ~Started(q)'
      BY <1>3, <2>2, <2>3 DEF Started, Client!Started, Finished, Client!Finished, Opened,
                              Client!Opened
    <2>5. \A q \in Op : OpSound(q)'
      <3> TAKE q \in Op
      <3>1. CASE q = 0
        <4>1. OpSound(0)
          BY <1>1, OpFacts
        <4>2. QED
          BY <1>2, <2>2, <2>3, <2>4, <3>1, <4>1 DEF OpSound
      <3>2. CASE q # 0
        <4>1. \A p \in Op : Started(p) => Started(p)'
          BY <1>3, <2>2, <2>3 DEF Started, Client!Started
        <4>2. ~Started(q)
          BY <1>3, <3>2, OpFacts
        <4>3. response' \in {response, "none"}
          BY <1>2
        <4>4. QED
          BY <1>1, <1>2, <2>3, <3>2, <4>1, <4>2, <4>3, OpStays
      <3>3. QED
        BY <3>1, <3>2
    <2>6. PendingSound' /\ OpeningSound'
      BY <1>1, <1>2, <1>3, <2>2, <2>3, <2>4, OpFacts DEF PendingSound, OpeningSound
    <2>7. ClientOK'
      BY <1>1, <1>2, <2>1, <2>3 DEF ClientOK
    <2>8. Tuned'
      BY <1>2, <1>3, <2>1, <2>2, <2>3, OpFacts DEF Tuned, Waits, Client!Iterated
    <2>9. Cared' /\ OneCall'
      BY <1>2, <1>3, <2>2, <2>3, <2>4, OpFacts DEF Cared, OneCall
    <2>10. CallerSound'
      BY <2>5, <2>6, <2>7, <2>8, <2>9 DEF CallerSound, OpsSound
    <2>11. Live' => Live
      <3>1. \A q \in Op \ {0} : ops'[q].aborted <=> ops[q].aborted
        BY <2>3
      <3>2. QED
        BY <1>2, <1>3, <3>1 DEF Live, Unaborted
    <2>12. Onward /\ NothingSaid
      BY <2>2, <2>3 DEF Onward, NothingSaid
    <2>13. QED
      BY <1>2, <1>3, <2>1, <2>2, <2>3, <2>10, <2>11, <2>12
  <1>5. CASE ~(ok /\ ~ops[0].cancelled)
    <2>1. /\ ops' = [ops EXCEPT ![0] = Client!Complete(Client!Failure(@, @.cancelled), response)]
          /\ Client!Return(0)
      BY <1>5 DEF Client!BusConnected
    <2>2. ops[0].cancelled \in BOOLEAN
      BY <1>3 DEF Client!OpRecord
    <2>3. ops' = [ops EXCEPT ![0] = Client!Complete(Client!Failure(@, ops[0].cancelled),
                                                    response)]
      BY <2>1
    <2>4. CallerSound' /\ ~Live' /\ Onward /\ NothingSaid
      BY <1>2, <2>1, <2>2, <2>3, OpeningFails
    <2>5. sent' = << >>
      BY <1>5 DEF Client!BusConnected
    <2>6. QED
      BY <1>3, <2>4, <2>5
  <1>6. QED
    BY <1>4, <1>5

\* A call has returned, and the operation waits.
LEMMA AwaitIs ==
    ASSUME NEW op \in Client!OpRecord
    PROVE  LET new == Client!Await(op)
           IN  /\ new \in Client!OpRecord /\ new.style = op.style /\ new.call = "none"
               /\ new.idle = op.idle /\ new.results = op.results
               /\ new.aborted = op.aborted /\ new.cancelled = op.cancelled
               /\ new.timeout = op.timeout /\ new.error = op.error
  <1> DEFINE l == op.idle > 0
  <1>1. l \in BOOLEAN
    OBVIOUS
  <1>2. Client!Await(op) = [op EXCEPT !.call = "none", !.waiting = TRUE, !.late = l]
    BY DEF Client!Await
  <1> HIDE DEF l
  <1>3. QED
    BY <1>1, <1>2 DEF Client!OpRecord

LEMMA BeginReturnsSound ==
    ASSUME CallerSound, NEW ok \in BOOLEAN, Client!BeginReturns(ok)
    PROVE  /\ CallerSound' /\ Onward /\ NothingSaid /\ pending = NoOp
           /\ Live' => /\ pending' = 0 /\ Live /\ ops[0].call = "Begin"
                       /\ ops'[0].call = "none" /\ ok
  <1>1. /\ ClientOK /\ OpeningSound /\ PendingSound /\ Tuned /\ \A q \in Op : OpSound(q)
    BY DEF CallerSound, OpsSound
  <1>2. /\ ops[0].call = "Begin" /\ Client!Iterated(0)
        /\ UNCHANGED <<closed, response>>
    BY DEF Client!BeginReturns
  <1>3. /\ pending = NoOp /\ ~Finished(0) /\ ~Opened /\ Started(0)
        /\ ops[0] \in Client!OpRecord /\ ops[0].idle = 0
        /\ \A q \in Op : q > 0 => ~Started(q)
    BY <1>1, <1>2, CallerFacts, OpFacts DEF OpeningSound
  <1>4. CASE ok /\ ~ops[0].cancelled
    <2> DEFINE new == [Client!Await(ops[0]) EXCEPT !.timeout = HasTimeout]
    <2>1. /\ ops' = [ops EXCEPT ![0] = new] /\ running' = running /\ context' = context
          /\ pending' = 0
      BY <1>4 DEF Client!BeginReturns
    <2>2. /\ new \in Client!OpRecord /\ new.style = ops[0].style /\ new.call = "none"
          /\ new.idle = ops[0].idle /\ new.results = ops[0].results
          /\ new.aborted = ops[0].aborted /\ new.cancelled = ops[0].cancelled
      <3> DEFINE a == Client!Await(ops[0])
      <3>1. /\ a \in Client!OpRecord /\ a.style = ops[0].style /\ a.call = "none"
            /\ a.idle = ops[0].idle /\ a.results = ops[0].results
            /\ a.aborted = ops[0].aborted /\ a.cancelled = ops[0].cancelled
        BY <1>3, AwaitIs
      <3> HIDE DEF a
      <3>2. QED
        BY <3>1, FlagsAssumption DEF Client!OpRecord, a
    <2> HIDE DEF new
    <2>3. /\ ops' \in [Op -> Client!OpRecord] /\ ops'[0] = new
          /\ \A q \in Op : q # 0 => ops'[q] = ops[q]
      BY <1>1, <2>1, <2>2, OpFacts DEF ClientOK
    <2>4. /\ Started(0)' /\ ~Finished(0)' /\ ~Opened'
          /\ \A q \in Op : q # 0 => ~Started(q)'
      BY <1>3, <2>2, <2>3 DEF Started, Client!Started, Finished, Client!Finished, Opened,
                              Client!Opened
    <2>5. \A q \in Op : OpSound(q)'
      <3> TAKE q \in Op
      <3>1. CASE q = 0
        <4>1. OpSound(0)
          BY <1>1, OpFacts
        <4>2. QED
          BY <1>2, <2>2, <2>3, <2>4, <3>1, <4>1 DEF OpSound
      <3>2. CASE q # 0
        <4>1. \A p \in Op : Started(p) => Started(p)'
          BY <1>3, <2>2, <2>3 DEF Started, Client!Started
        <4>2. ~Started(q)
          BY <1>3, <3>2, OpFacts
        <4>3. response' \in {response, "none"}
          BY <1>2
        <4>4. QED
          BY <1>1, <1>2, <2>3, <3>2, <4>1, <4>2, <4>3, OpStays
      <3>3. QED
        BY <3>1, <3>2
    <2>6. PendingSound' /\ OpeningSound'
      <3>1. (Started(pending) /\ ~Finished(pending))'
        BY <2>1, <2>4 DEF Started, Client!Started, Finished, Client!Finished
      <3>2. PendingSound'
        BY <1>3, <2>1, <2>2, <2>3, <3>1, OpFacts DEF PendingSound
      <3>3. OpeningSound'
        BY <2>2, <2>3 DEF OpeningSound
      <3>4. QED
        BY <3>2, <3>3
    <2>7. ClientOK'
      BY <1>1, <1>2, <2>1, <2>3, OpFacts DEF ClientOK
    <2>8. Tuned'
      BY <1>1, <1>2, <2>1, <2>2, <2>3, OpFacts DEF Tuned, Waits
    <2>9. Cared' /\ OneCall'
      BY <1>2, <1>3, <2>1, <2>2, <2>3, <2>4, OpFacts DEF Cared, OneCall
    <2>10. CallerSound'
      BY <2>5, <2>6, <2>7, <2>8, <2>9 DEF CallerSound, OpsSound
    <2>11. Live' => Live
      <3>1. \A q \in Op \ {0} : ops'[q].aborted <=> ops[q].aborted
        BY <2>3
      <3>2. QED
        BY <1>2, <1>3, <3>1 DEF Live, Unaborted
    <2>12. Onward /\ NothingSaid
      BY <2>2, <2>3 DEF Onward, NothingSaid
    <2>13. QED
      BY <1>2, <1>3, <1>4, <2>1, <2>2, <2>3, <2>10, <2>11, <2>12
  <1>5. CASE ~(ok /\ ~ops[0].cancelled)
    <2>1. /\ ops' = [ops EXCEPT ![0] = Client!Complete(Client!Failure(@, @.cancelled), response)]
          /\ Client!Return(0) /\ pending' = pending
      BY <1>5 DEF Client!BeginReturns
    <2>2. ops[0].cancelled \in BOOLEAN
      BY <1>3 DEF Client!OpRecord
    <2>3. ops' = [ops EXCEPT ![0] = Client!Complete(Client!Failure(@, ops[0].cancelled),
                                                    response)]
      BY <2>1
    <2>4. CallerSound' /\ ~Live' /\ Onward /\ NothingSaid
      BY <1>2, <2>1, <2>2, <2>3, OpeningFails
    <2>5. QED
      BY <1>3, <2>4
  <1>6. QED
    BY <1>4, <1>5

LEMMA PerformReturnsSound ==
    ASSUME CallerSound, NEW o \in Op, NEW ok \in BOOLEAN, Client!PerformReturns(o, ok)
    PROVE  /\ CallerSound' /\ Onward
           /\ IF ok /\ ~ops[o].aborted
              THEN /\ ops' \in [Op -> Client!OpRecord] /\ pending' = pending
                   /\ \A q \in Op : /\ ops'[q].results = ops[q].results
                                    /\ ops'[q].aborted = ops[q].aborted
                                    /\ ops'[q].cancelled = ops[q].cancelled
                                    /\ ops'[q].style = ops[q].style
                   /\ \A q \in Op : q # o => ops'[q] = ops[q]
                   /\ ops'[o].call = "none"
              ELSE /\ ops' \in [Op -> Client!OpRecord] /\ pending' = NoOp
                   /\ \A q \in Op : q # o => ops'[q] = ops[q]
                   /\ FinishedOp(ops[o], ops'[o]) /\ ops'[o].call = "none"
                   /\ \E said \in {"cancelled", "failed"} :
                         ops'[o].results = Append(ops[o].results, said)
           /\ Started(o) /\ o > 0 /\ ops[o].call = "Perform"
           /\ closed' = closed /\ sent' = << >>
  <1>1. /\ ClientOK /\ PendingSound /\ OpeningSound /\ Tuned /\ Cared /\ OneCall
        /\ \A q \in Op : OpSound(q)
    BY DEF CallerSound, OpsSound
  <1>2. /\ o > 0 /\ ops[o].call = "Perform" /\ Client!Iterated(o) /\ sent' = << >>
        /\ UNCHANGED <<closed, response>>
    BY DEF Client!PerformReturns
  <1>3. Started(o) /\ ops[o] \in Client!OpRecord
    BY <1>2, CallerFacts DEF Client!Alive
  <1>4. /\ Opened /\ Finished(0) /\ ops[0].call = "none" /\ pending # 0
    BY <1>1, <1>2, <1>3, CallerFacts DEF OpSound
  <1>5. CASE ok /\ ~ops[o].aborted
    <2> DEFINE new == Client!Await(ops[o])
    <2>1. /\ ops' = [ops EXCEPT ![o] = new] /\ running' = running /\ context' = context
          /\ pending' = pending
      BY <1>5 DEF Client!PerformReturns
    <2>2. /\ new \in Client!OpRecord /\ new.style = ops[o].style /\ new.call = "none"
          /\ new.idle = ops[o].idle /\ new.results = ops[o].results
          /\ new.aborted = ops[o].aborted /\ new.cancelled = ops[o].cancelled
          /\ new.timeout = ops[o].timeout
      BY <1>3, AwaitIs
    <2> HIDE DEF new
    <2>3. /\ ops' \in [Op -> Client!OpRecord] /\ ops'[o] = new
          /\ \A q \in Op : q # o => ops'[q] = ops[q]
      BY <1>1, <2>1, <2>2 DEF ClientOK
    <2>4. \A q \in Op : /\ ops'[q].results = ops[q].results
                        /\ ops'[q].aborted = ops[q].aborted
                        /\ ops'[q].cancelled = ops[q].cancelled
                        /\ ops'[q].style = ops[q].style
                        /\ ops'[q].idle = ops[q].idle
                        /\ ops'[q].timeout = ops[q].timeout
                        /\ ops'[q].call \in {ops[q].call, "none"}
      BY <2>2, <2>3
    <2>5. /\ \A q \in Op : (Started(q)' <=> Started(q)) /\ (Finished(q)' <=> Finished(q))
          /\ \A q \in Op : Clean(q)' <=> Clean(q)
          /\ Opened' <=> Opened
      BY <2>4, OpFacts DEF Started, Client!Started, Finished, Client!Finished, Clean,
                           AbortedBefore, Opened, Client!Opened
    <2>6. \A q \in Op : OpSound(q)'
      <3> TAKE q \in Op
      <3>1. OpSound(q)
        BY <1>1
      <3>2. CASE q = o
        <4>1. q > 0 /\ Started(q)' => Opened' /\ \A p \in 0 .. q - 1 : Started(p)'
          BY <2>5, <3>1, OpFacts DEF OpSound
        <4>2. ops'[q].style # "unused" /\ ops'[q].call = "none"
          BY <1>3, <2>2, <2>3, <3>2 DEF Started, Client!Started
        <4>3. QED
          BY <1>2, <2>4, <3>1, <4>1, <4>2 DEF OpSound, Started, Client!Started
      <3>3. CASE q # o
        <4>1. \A p \in Op : Started(p) => Started(p)'
          BY <2>5
        <4>2. q > 0 /\ Started(q) => Opened'
          BY <2>5, <3>1 DEF OpSound
        <4>3. QED
          BY <1>2, <2>3, <3>1, <3>3, <4>1, <4>2, OpStays
      <3>4. QED
        BY <3>2, <3>3
    <2>7. PendingSound'
      BY <1>1, <1>2, <2>1, <2>4 DEF PendingSound, ClientOK, Started, Client!Started,
                                    Finished, Client!Finished
    <2>8. OpeningSound'
      BY <1>2, <1>4, <2>3, OpFacts DEF OpeningSound
    <2>9. ClientOK'
      BY <1>1, <1>2, <2>1, <2>3 DEF ClientOK
    <2>10. Tuned'
      BY <1>1, <1>2, <2>1, <2>4, OpFacts DEF Tuned, Waits
    <2>11. Cared' /\ OneCall'
      <3>1. Cared'
        <4> SUFFICES ASSUME NEW q \in Op, Started(q)', ~Finished(q)', Clean(q)'
                     PROVE  pending' = q \/ ops'[q].idle > 0
          BY DEF Cared
        <4>1. QED
          BY <1>1, <1>4, <2>1, <2>4, <2>5 DEF Cared
      <3>2. OneCall'
        BY <1>1, <2>1, <2>4, OpFacts DEF OneCall, ClientOK, Clean, AbortedBefore
      <3>3. QED
        BY <3>1, <3>2
    <2>12. CallerSound'
      BY <2>6, <2>7, <2>8, <2>9, <2>10, <2>11 DEF CallerSound, OpsSound
    <2>13. Onward
      BY <2>4 DEF Onward
    <2>14. QED
      BY <1>2, <1>3, <1>5, <2>1, <2>2, <2>3, <2>4, <2>12, <2>13
  <1>6. CASE ~(ok /\ ~ops[o].aborted)
    <2> DEFINE done == Client!Complete(Client!Failure(ops[o], ops[o].aborted), response)
               new == [done EXCEPT !.leaked = (pending = o)]
    <2>1. /\ ops' = [ops EXCEPT ![o] = new] /\ pending' = NoOp /\ Client!Return(o)
      BY <1>6, OpFacts DEF Client!PerformReturns
    <2>2. response \in {"null", "none", "yes", "no"} /\ ops[o].aborted \in BOOLEAN
      BY <1>1, <1>3 DEF ClientOK, Client!OpRecord
    <2>3. /\ done \in Client!OpRecord /\ FinishedOp(ops[o], done) /\ done.call = "none"
          /\ \E said \in {"cancelled", "failed"} :
                done.results = Append(ops[o].results, said)
      <3> DEFINE op == ops[o]
                 word == ops[o].aborted
      <3>1. op \in Client!OpRecord /\ op.style # "unused" /\ word \in BOOLEAN
        BY <1>3, <2>2 DEF Started, Client!Started
      <3>2. done = Client!Complete(Client!Failure(op, word), response)
        OBVIOUS
      <3> HIDE DEF op, word, done
      <3>3. done \in Client!OpRecord /\ FinishedOp(op, done) /\ done.call = "none"
        BY <2>2, <3>1, <3>2, FailedOp
      <3>4. \E said \in {"cancelled", "failed"} : done.results = Append(op.results, said)
        BY <2>2, <3>1, <3>2, FailedOp
      <3>5. QED
        BY <3>3, <3>4 DEF op
    <2> HIDE DEF done
    <2>4. /\ new \in Client!OpRecord /\ new.style = done.style /\ new.call = done.call
          /\ new.idle = done.idle /\ new.results = done.results
          /\ new.aborted = done.aborted /\ new.cancelled = done.cancelled
          /\ new.timeout = done.timeout
      BY <2>3 DEF Client!OpRecord
    <2> HIDE DEF new
    <2>5. FinishedOp(ops[o], new)
      BY <2>3, <2>4 DEF FinishedOp
    <2>6. /\ ops' \in [Op -> Client!OpRecord] /\ ops'[o] = new
          /\ \A q \in Op : q # o => ops'[q] = ops[q]
      BY <1>1, <2>1, <2>4 DEF ClientOK
    <2>7. context' \in {"none", "main", "run", "dead"} /\ running' \in Op \union {NoOp}
      BY <1>1, <2>1, ReturnIs
    <2>8. pending \in {pending', o} \/ ~Clean(pending)
      <3>1. SUFFICES ASSUME pending # NoOp, pending # o, Clean(pending) PROVE FALSE
        BY <2>1
      <3>2. pending > 0
        BY <1>1, <1>4, <3>1, OpFacts DEF ClientOK
      <3>3. QED
        BY <1>1, <1>2, <3>1, <3>2 DEF OneCall
    <2>9. ops'[0].call # "Begin" /\ o # 0 /\ pending' # o
      BY <1>2, <1>4, <2>1, <2>6, OpFacts
    <2>10. CallerSound'
      BY <1>2, <2>1, <2>2, <2>5, <2>6, <2>7, <2>8, <2>9, FinishSound
    <2>11. Onward
      BY <2>5, <2>6, FinishedOnward
    <2>12. QED
      BY <1>2, <1>3, <1>6, <2>1, <2>3, <2>4, <2>5, <2>6, <2>10, <2>11
  <1>7. QED
    BY <1>5, <1>6

\* prompt_method_ready, when something is pending.
LEMMA ReadyCalledSound ==
    ASSUME CallerSound, NEW answer \in {"none", "yes", "no"}, pending # NoOp,
           Client!ReadyCalled(answer)
    PROVE  /\ CallerSound' /\ Onward
           /\ ops' \in [Op -> Client!OpRecord] /\ pending' = NoOp /\ pending \in Op
           /\ \A q \in Op : q # pending => ops'[q] = ops[q]
           /\ FinishedOp(ops[pending], ops'[pending])
           /\ ops'[pending].call = ops[pending].call
           /\ \E said : /\ ops'[pending].results = Append(ops[pending].results, said)
                        /\ said \in {"yes", "no"} => said = answer
           /\ closed' = closed /\ sent' = <<Client!Answered>>
  <1> DEFINE op == ops[pending]
             new == Client!Complete(op, answer)
  <1>1. /\ ClientOK /\ PendingSound /\ OpeningSound /\ \A q \in Op : OpSound(q)
    BY DEF CallerSound, OpsSound
  <1>2. /\ ops' = [ops EXCEPT ![pending] = new] /\ pending' = NoOp /\ response' = answer
        /\ Client!Return(pending) /\ closed' = closed /\ sent' = <<Client!Answered>>
    BY OpFacts DEF Client!ReadyCalled, Client!ReadyAnswers
  <1>3. /\ pending \in Op /\ op \in Client!OpRecord /\ Started(pending) /\ op.idle = 0
    BY <1>1, CallerFacts, OpFacts DEF ClientOK, PendingSound
  <1>4. answer \in {"null", "none", "yes", "no"}
    OBVIOUS
  <1> DEFINE said == IF op.error = "none" THEN answer ELSE op.error
  <1>5. /\ new \in Client!OpRecord
        /\ new = [op EXCEPT !.results = Append(op.results, said)]
        /\ new.results = Append(op.results, said) /\ new.results # << >>
        /\ op.results # << >> => new.results[1] = op.results[1]
    BY <1>3, <1>4, CompleteIs
  <1>6. said \in {"yes", "no"} => said = answer
    BY <1>3 DEF Client!OpRecord
  <1> HIDE DEF new, said
  <1>7. /\ new.style = op.style /\ new.call = op.call /\ new.aborted = op.aborted
        /\ new.idle = op.idle /\ new.cancelled = op.cancelled /\ new.timeout = op.timeout
    BY <1>3, <1>5 DEF Client!OpRecord
  <1>8. FinishedOp(op, new)
    BY <1>3, <1>5, <1>7 DEF FinishedOp, Started, Client!Started
  <1>9. /\ ops' \in [Op -> Client!OpRecord] /\ ops'[pending] = new
        /\ \A q \in Op : q # pending => ops'[q] = ops[q]
    BY <1>1, <1>2, <1>3, <1>5 DEF ClientOK
  <1>10. context' \in {"none", "main", "run", "dead"} /\ running' \in Op \union {NoOp}
    BY <1>1, <1>2, <1>3, ReturnIs
  <1>11. ops[0].call = "none" /\ ops'[0].call = "none"
    <2>1. ops[0].call = "none"
      BY CallerFacts
    <2>2. QED
      BY <2>1, <1>7, <1>9, OpFacts
  <1>12. \A q \in Op : q > 0 => ops[q].idle = 0
    <2>1. CASE pending = 0
      BY <2>1, CallerFacts
    <2>2. CASE pending > 0
      <3>1. ~closed
        BY <1>1, <2>2 DEF PendingSound
      <3>2. \A q \in Op : ops[q].idle \in Nat
        BY CallerFacts DEF Client!OpRecord
      <3>3. QED
        BY <1>1, <3>1, <3>2 DEF OpSound
    <2>3. QED
      BY <1>3, <2>1, <2>2, OpFacts
  <1>13. \A q \in Op : q > 0 /\ ops[q].idle > 0 => response' \in {response, "none"}
    BY <1>12
  <1>14. CallerSound'
    <2>1. /\ pending' # pending /\ pending' \in {pending, NoOp}
          /\ pending \in {pending', pending} \/ ~Clean(pending)
          /\ response' \in {"null", "none", "yes", "no"}
          /\ closed \/ (pending' = NoOp /\ ops'[0].call # "Begin")
      BY <1>2, <1>4, <1>11
    <2>2. FinishedOp(ops[pending], ops'[pending])
      BY <1>8, <1>9
    <2>3. QED
      BY <1>2, <1>3, <1>9, <1>10, <1>11, <1>13, <2>1, <2>2, FinishSound
  <1>15. Onward
    BY <1>3, <1>8, <1>9, FinishedOnward
  <1>16. QED
    BY <1>2, <1>3, <1>5, <1>6, <1>7, <1>8, <1>9, <1>14, <1>15

\* An operation that was pending when the prompt was closed completes.
LEMMA IdleCompletesSound ==
    ASSUME CallerSound, NEW o \in Op, Client!IdleCompletes(o)
    PROVE  /\ CallerSound' /\ Onward /\ closed' = TRUE /\ pending' = pending /\ sent' = << >>
           /\ \A q \in Op : q # o => ops'[q] = ops[q]
           /\ \E said : /\ ops'[o].results = Append(ops[o].results, said)
                        /\ said \in {"yes", "no"} => o = 0 \/ ops[o].cancelled
  <1> DEFINE op == [ops[o] EXCEPT !.idle = @ - 1]
             new == Client!Complete(op, response)
             said == IF op.error = "none" THEN response ELSE op.error
  <1>1. /\ ClientOK /\ PendingSound /\ OpeningSound /\ \A q \in Op : OpSound(q)
    BY DEF CallerSound, OpsSound
  <1>2. /\ ops[o] \in Client!OpRecord /\ ops[o].idle > 0 /\ Client!Return(o) /\ sent' = << >>
        /\ UNCHANGED <<closed, response, pending>>
    BY CallerFacts DEF Client!IdleCompletes, Client!IdleReady
  <1>3. ops' = [ops EXCEPT ![o] = new]
    BY DEF Client!IdleCompletes
  <1>4. closed /\ Started(o) /\ pending # o
    BY <1>1, <1>2, CallerFacts, OpFacts DEF OpSound, PendingSound, Client!Alive
  <1>5. op \in Client!OpRecord
    <2>1. ops[o].idle - 1 \in Nat
      BY <1>2 DEF Client!OpRecord
    <2>2. QED
      BY <1>2, <2>1 DEF Client!OpRecord
  <1>6. /\ op.style = ops[o].style /\ op.call = ops[o].call /\ op.aborted = ops[o].aborted
        /\ op.idle = ops[o].idle - 1 /\ op.cancelled = ops[o].cancelled
        /\ op.results = ops[o].results /\ op.timeout = ops[o].timeout
        /\ op.error \in {"none", "cancelled", "progress", "failed"}
    BY <1>2 DEF Client!OpRecord
  <1>7. response \in {"null", "none", "yes", "no"}
    BY <1>1 DEF ClientOK
  <1> HIDE DEF op
  <1>8. /\ new \in Client!OpRecord
        /\ new = [op EXCEPT !.results = Append(op.results, said)]
        /\ new.results = Append(op.results, said) /\ new.results # << >>
        /\ op.results # << >> => new.results[1] = op.results[1]
    BY <1>5, <1>7, CompleteIs
  <1>9. said \in {"yes", "no"} => response = said
    BY <1>6
  <1> HIDE DEF new, said
  <1>10. /\ new.style = op.style /\ new.call = op.call /\ new.aborted = op.aborted
         /\ new.idle = op.idle /\ new.cancelled = op.cancelled /\ new.timeout = op.timeout
    BY <1>5, <1>8 DEF Client!OpRecord
  <1>11. FinishedOp(ops[o], new)
    BY <1>4, <1>6, <1>8, <1>10 DEF FinishedOp, Started, Client!Started
  <1>12. /\ ops' \in [Op -> Client!OpRecord] /\ ops'[o] = new
         /\ \A q \in Op : q # o => ops'[q] = ops[q]
    BY <1>1, <1>3, <1>8 DEF ClientOK
  <1>13. context' \in {"none", "main", "run", "dead"} /\ running' \in Op \union {NoOp}
    BY <1>1, <1>2, ReturnIs
  <1>14. o = 0 => ops'[0].call = "none"
    BY <1>1, <1>2, <1>6, <1>10, <1>12 DEF OpeningSound
  <1>15. CallerSound'
    BY <1>2, <1>4, <1>7, <1>11, <1>12, <1>13, <1>14, FinishSound
  <1>16. said \in {"yes", "no"} => o = 0 \/ ops[o].cancelled
    <2>1. o > 0 /\ ~ops[o].cancelled => response = "none"
      BY <1>1, <1>2 DEF OpSound
    <2>2. QED
      BY <1>9, <2>1, OpFacts
  <1>17. Onward
    BY <1>11, <1>12, FinishedOnward
  <1>18. closed' = TRUE
    BY <1>1, <1>2, <1>4 DEF ClientOK
  <1>19. QED
    BY <1>2, <1>6, <1>8, <1>12, <1>15, <1>16, <1>17, <1>18

\* The prompter is present, or has vanished.
LEMMA PresenceSound ==
    ASSUME CallerSound, NEW o \in Op, Client!Alive(o),
           Client!PrompterPresent \/ Client!PrompterVanished(o)
    PROVE  /\ CallerSound' /\ Onward /\ NothingSaid /\ sent' = << >> /\ pending' = pending
           /\ \A q \in Op : ops'[q].call = ops[q].call
           /\ (Opened' <=> Opened) /\ (Started(0)' <=> Started(0)) /\ (Live' <=> Live)
  <1> DEFINE new == [ops[o] EXCEPT !.cancelled = TRUE]
  <1>1. /\ ClientOK /\ PendingSound /\ OpeningSound /\ Tuned /\ Cared /\ OneCall
        /\ \A q \in Op : OpSound(q)
    BY DEF CallerSound, OpsSound
  <1>2. /\ ops' = ops \/ ops' = [ops EXCEPT ![o] = new]
        /\ Started(o) /\ sent' = << >>
        /\ UNCHANGED <<closed, context, response, pending, running>>
    BY <1>1, CallerFacts DEF Client!PrompterPresent, Client!PrompterVanished, ClientOK
  <1>3. /\ new \in Client!OpRecord /\ new.style = ops[o].style /\ new.call = ops[o].call
        /\ new.idle = ops[o].idle /\ new.results = ops[o].results
        /\ new.timeout = ops[o].timeout /\ new.cancelled /\ new.aborted = ops[o].aborted
    BY CallerFacts DEF Client!OpRecord
  <1> HIDE DEF new
  <1>4. /\ ops' \in [Op -> Client!OpRecord] /\ ops'[o] \in {ops[o], new}
        /\ \A q \in Op : q # o => ops'[q] = ops[q]
    BY <1>1, <1>2, <1>3 DEF ClientOK
  <1>5. \A q \in Op : /\ ops'[q].style = ops[q].style /\ ops'[q].call = ops[q].call
                      /\ ops'[q].idle = ops[q].idle /\ ops'[q].results = ops[q].results
                      /\ ops'[q].timeout = ops[q].timeout
                      /\ ops'[q].aborted = ops[q].aborted
                      /\ ops[q].cancelled => ops'[q].cancelled
    BY <1>3, <1>4
  <1>6. /\ \A q \in Op : (Started(q)' <=> Started(q)) /\ (Finished(q)' <=> Finished(q))
        /\ Opened' <=> Opened
    BY <1>5, OpFacts DEF Started, Client!Started, Finished, Client!Finished, Opened,
                         Client!Opened
  <1>7. \A q \in Op : Clean(q)' <=> Clean(q)
    BY <1>5, OpFacts DEF Clean, AbortedBefore
  <1>8. \A q \in Op : OpSound(q)'
    <2> TAKE q \in Op
    <2>1. CASE q = o
      <3>1. \A p \in 0 .. o - 1 : Started(p)' <=> Started(p)
        BY <1>6, OpFacts
      <3>2. OpSound(o)
        BY <1>1
      <3>3. ops'[o].style # "unused"
        BY <1>2, <1>5 DEF Started, Client!Started
      <3>4. o > 0 /\ ops'[o].idle > 0 /\ ~ops'[o].cancelled => response' = "none"
        BY <1>2, <1>5, <3>2 DEF OpSound
      <3>5. ops'[o].idle > 0 => closed'
        BY <1>2, <1>5, <3>2 DEF OpSound
      <3>6. ops'[o].aborted => ops'[o].cancelled
        BY <1>5, <3>2 DEF OpSound
      <3>7. o > 0 => ops'[o].call \in {"none", "Perform"} /\ Opened'
                     /\ \A p \in 0 .. o - 1 : Started(p)'
        BY <1>2, <1>5, <1>6, <3>1, <3>2 DEF OpSound
      <3>8. QED
        BY <2>1, <3>3, <3>4, <3>5, <3>6, <3>7 DEF OpSound, Started, Client!Started
    <2>2. CASE q # o
      <3>1. q > 0 /\ Started(q) => Opened'
        BY <1>1, <1>6 DEF OpSound
      <3>2. QED
        BY <1>1, <1>2, <1>4, <1>6, <2>2, <3>1, OpStays
    <2>3. QED
      BY <2>1, <2>2
  <1>9. PendingSound' /\ OpeningSound'
    <2>1. PendingSound'
      BY <1>1, <1>2, <1>5, <1>6 DEF PendingSound, ClientOK
    <2>2. OpeningSound'
      BY <1>1, <1>2, <1>5, <1>6, OpFacts DEF OpeningSound
    <2>3. QED
      BY <2>1, <2>2
  <1>10. ClientOK' /\ Tuned'
    <2>1. ClientOK'
      BY <1>1, <1>2, <1>4 DEF ClientOK
    <2>2. Tuned'
      BY <1>1, <1>2, <1>5, OpFacts DEF Tuned, Waits
    <2>3. QED
      BY <2>1, <2>2
  <1>11. Cared' /\ OneCall'
    <2>1. Cared'
      BY <1>1, <1>2, <1>5, <1>6, <1>7, OpFacts DEF Cared
    <2>2. OneCall'
      BY <1>1, <1>2, <1>5, OpFacts DEF OneCall, ClientOK, Clean, AbortedBefore
    <2>3. QED
      BY <2>1, <2>2
  <1>12. Onward /\ NothingSaid
    BY <1>5 DEF Onward, NothingSaid
  <1>13. Live' <=> Live
    <2>1. Finished(0)' <=> Finished(0)
      BY <1>6, OpFacts
    <2>2. Unaborted' <=> Unaborted
      BY <1>5 DEF Unaborted
    <2>3. QED
      BY <1>2, <1>6, <2>1, <2>2 DEF Live
  <1>14. Started(0)' <=> Started(0)
    BY <1>6, OpFacts
  <1>15. CallerSound'
    BY <1>8, <1>9, <1>10, <1>11 DEF CallerSound, OpsSound
  <1>16. QED
    BY <1>2, <1>5, <1>6, <1>12, <1>13, <1>14, <1>15

-----------------------------------------------------------------------------
(* What the caller's own steps do to everything else.                      *)

LEMMA StillServer ==
    ASSUME IInv, ClientStep
    PROVE  /\ IInv' /\ Server' = Server /\ active' = active /\ callbacks' = callbacks
           /\ asked' = asked /\ answers' = answers
  <1>1. /\ Tables' = Tables /\ Silence \in [Callback -> Seq(Message)]
        /\ registered' = registered /\ gone' = gone /\ callbacks' = callbacks
        /\ active' = active /\ asked' = asked /\ answers' = answers /\ out' = Silence
    BY DEF ClientStep, Tables, Silence
  <1>2. Sound(Tables, None)' /\ NobodyWaits(Tables)'
    BY <1>1 DEF IInv, Sound, NobodyWaits, InTables, IsIn
  <1>3. NothingForTheDeparted'
    BY <1>1 DEF IInv, NothingForTheDeparted
  <1>4. IInv'
    BY <1>1, <1>2, <1>3 DEF IInv
  <1>5. QED
    BY <1>1, <1>4 DEF Server, ServerOf

\* Messages leave, and names come.
Heard ==
    /\ toClient' \in Seq(ClientMessage)
    /\ \A i \in 1 .. Len(toClient') :
          \/ \E j \in 1 .. Len(toClient) : toClient'[i] = toClient[j]
          \/ toClient'[i].msg = "Name" /\ toClient'[i].arg \in {"present", "absent"}
             /\ toClient'[i].op \in Op

\* What is said of the messages to the caller stays true.
StillSaid ==
    LET l == toClient
        g == toClient'
    IN  /\ NoReady(l) => NoReady(g)
        /\ OneReady(l) => OneReady(g)
        /\ OnlyNames(l) => OnlyNames(g)
        /\ \A q : NoReply(l, q) => NoReply(g, q)
        /\ \A q : NotFailed(l, q) => NotFailed(g, q)
        /\ \A a : ReadySays(l, a) => ReadySays(g, a)
StillThere ==
    /\ \A p : HasReady(toClient, p) => HasReady(toClient', p)
    /\ \A q \in Op : Waits(q) /\ ReturnFirst(toClient, ops[q].call, q) =>
                         ReturnFirst(toClient', ops[q].call, q)

LEMMA Watched ==
    ASSUME BusOK, up \in BOOLEAN, Watching
    PROVE  Heard /\ StillSaid /\ StillThere
  <1> DEFINE W == {o \in Op : ~ops[o].watch /\ ops'[o].watch}
             f == Told(W, up)
  <1>1. W \in SUBSET Op
    OBVIOUS
  <1> HIDE DEF W
  <1>2. /\ f \in Seq(ClientMessage) /\ OnlyNames(f)
        /\ \A i \in 1 .. Len(f) : ClientMessageOK(f[i])
    BY <1>1, ToldNames
  <1>3. toClient' = toClient \o f
    BY DEF Watching, W
  <1>4. toClient \in Seq(ClientMessage)
    BY DEF BusOK
  <1> HIDE DEF f
  <1>5. /\ NoReady(f)
        /\ \A q : NoReply(f, q) /\ NotFailed(f, q)
        /\ \A a : ReadySays(f, a)
    BY <1>2, NamesSay
  <1>6. \A i \in 1 .. Len(toClient') :
            \/ i \in 1 .. Len(toClient) /\ toClient'[i] = toClient[i]
            \/ i - Len(toClient) \in 1 .. Len(f) /\ toClient'[i] = f[i - Len(toClient)]
    BY <1>2, <1>3, <1>4
  <1>7. Heard
    <2>1. toClient' \in Seq(ClientMessage)
      BY <1>2, <1>3, <1>4
    <2>2. \A i \in 1 .. Len(f) : f[i].msg = "Name" /\ f[i].arg \in {"present", "absent"}
                                 /\ f[i].op \in Op
      BY <1>2 DEF OnlyNames, ClientMessageOK
    <2>3. QED
      BY <1>6, <2>1, <2>2 DEF Heard
  <1>8. StillSaid
    BY <1>2, <1>3, <1>4, <1>5, ListsAdd DEF StillSaid
  <1>9. StillThere
    BY ZenonT(60), <1>2, <1>3, <1>4, ListsAdd DEF StillThere
  <1>10. QED
    BY <1>7, <1>8, <1>9

LEMMA Removed ==
    ASSUME BusOK, NEW i \in 1 .. Len(toClient), toClient' = RemoveAt(toClient, i)
    PROVE  /\ Heard /\ StillSaid
           /\ OneReady(toClient) /\ toClient[i].msg = "Ready" => NoReady(toClient')
           /\ \A p : HasReady(toClient, p) /\ toClient[i].msg # "Ready" =>
                         HasReady(toClient', p)
           /\ \/ toClient[i].msg = "Ready"
              \/ toClient[i].msg = "Return" /\ Waits(toClient[i].op)
                 /\ ops[toClient[i].op].call = toClient[i].arg
              \/ StillThere
  <1>1. toClient \in Seq(ClientMessage)
    BY DEF BusOK
  <1>2. /\ toClient' \in Seq(ClientMessage)
        /\ \A j \in 1 .. Len(toClient') : \E k \in 1 .. Len(toClient) : toClient'[j] = toClient[k]
        /\ NoReady(toClient) => NoReady(toClient')
        /\ OneReady(toClient) => OneReady(toClient')
        /\ OneReady(toClient) /\ toClient[i].msg = "Ready" => NoReady(toClient')
        /\ OnlyNames(toClient) => OnlyNames(toClient')
    BY <1>1, ListsRemove
  <1>3. /\ \A q : NoReply(toClient, q) => NoReply(toClient', q)
        /\ \A q : NotFailed(toClient, q) => NotFailed(toClient', q)
        /\ \A a : ReadySays(toClient, a) => ReadySays(toClient', a)
    BY <1>1, ListsRemove
  <1>4. /\ \A p : HasReady(toClient, p) /\ toClient[i].msg # "Ready" => HasReady(toClient', p)
        /\ \A k, q : /\ ReturnFirst(toClient, k, q)
                     /\ ~(toClient[i].msg = "Return" /\ toClient[i].arg = k /\ toClient[i].op = q)
                     => ReturnFirst(toClient', k, q)
    BY <1>1, ListsRemove
  <1>5. Heard /\ StillSaid
    BY <1>2, <1>3 DEF Heard, StillSaid
  <1>6. ASSUME toClient[i].msg # "Ready",
               ~(toClient[i].msg = "Return" /\ Waits(toClient[i].op)
                 /\ ops[toClient[i].op].call = toClient[i].arg)
        PROVE  StillThere
    BY <1>4, <1>6 DEF StillThere
  <1>7. QED
    BY <1>2, <1>4, <1>5, <1>6

\* What the caller sends.
LEMMA SendingIs ==
    ASSUME BusOK, NEW p, Sending(p)
    PROVE  /\ sent' = << >> => toPrompter' = toPrompter
           /\ \A c : sent' = <<c>> => toPrompter' = toPrompter \o <<ToPrompter(c.msg, c.op, p)>>
  <1> DEFINE f(s) == [i \in 1 .. Len(s) |-> ToPrompter(s[i].msg, s[i].op, p)]
  <1>1. toPrompter' = toPrompter \o f(sent')
    BY DEF Sending
  <1>2. f(<< >>) = << >>
    <2>1. Len(<< >>) = 0
      OBVIOUS
    <2>2. [i \in 1 .. 0 |-> ToPrompter(<< >>[i].msg, << >>[i].op, p)] = << >>
      OBVIOUS
    <2>3. QED
      BY <2>1, <2>2
  <1>3. ASSUME NEW c PROVE f(<<c>>) = <<ToPrompter(c.msg, c.op, p)>>
    <2> DEFINE a == ToPrompter(c.msg, c.op, p)
               one == [i \in 1 .. 1 |-> ToPrompter(<<c>>[i].msg, <<c>>[i].op, p)]
               y == <<a>>
               S == {a}
    <2>1. Len(<<c>>) = 1 /\ <<c>>[1] = c
      OBVIOUS
    <2>2. one[1] = a
      BY <2>1
    <2>3. one = [i \in 1 .. 1 |-> one[i]]
      OBVIOUS
    <2>4. a \in S
      OBVIOUS
    <2>5. y \in Seq(S) /\ Len(y) = 1 /\ y[1] = a
      BY <2>4
    <2> HIDE DEF one, S, y, a
    <2>6. one \in [1 .. 1 -> S]
      <3>1. \A i \in 1 .. 1 : one[i] \in S
        BY <2>2, <2>4
      <3>2. QED
        BY <2>3, <3>1
    <2>7. one \in Seq(S) /\ Len(one) = 1
      BY <2>6, AsList
    <2>8. \A i \in 1 .. Len(one) : one[i] = y[i]
      BY <2>2, <2>5, <2>7
    <2>9. one = y
      BY <2>5, <2>7, <2>8, SeqEqual
    <2>10. QED
      BY <2>1, <2>9 DEF one, y, a
  <1>4. toPrompter \o << >> = toPrompter
    BY DEF BusOK
  <1> HIDE DEF f
  <1>5. QED
    BY <1>1, <1>2, <1>3, <1>4

LEMMA AskedOp ==
    ASSUME IInv, BusOK, Server.ops > 0
    PROVE  asked[active[me]] \in Op
  <1>1. active[me] # None /\ active[me] \in Prompt \union {None}
    BY OneCompletion, TablesSound, MeAssumption DEF Sound, TableRecord
  <1>2. QED
    BY <1>1 DEF BusOK

\* A step of the caller, put together.
LEMMA CallerMoves ==
    ASSUME SystemInv, ClientStep, CallerSound', Onward, Heard,
           NEW x \in PrompterMessage, toPrompter' \in {toPrompter, toPrompter \o <<x>>},
           x.msg = "Begin" => x.op = 0,
           x.msg = "Perform" => /\ x.op \in Op \ {0} /\ ops'[x.op].style # "unused"
                                /\ x.op = pending' /\ ~Started(x.op),
           x.msg \in {"Answered", "NoObject"} => x.prompt \in Prompt,
           \A q \in Op : pending = q /\ Asking(q) /\ ~ops'[q].cancelled /\ Valid(q)
                             => pending' = q,
           \A q \in Op \ {0} :
               \/ ops'[q].results = ops[q].results
               \/ \E said : /\ ops'[q].results = Append(ops[q].results, said)
                            /\ said \in {"yes", "no"} /\ ~ops'[q].cancelled /\ Valid(q) =>
                                   said = answers[q],
           Live' => Phase'
    PROVE  SystemInv'
  <1>1. /\ IInv /\ CallerSound /\ BusOK /\ AskedIsPending /\ AskedOnce /\ OwnAnswers
    BY DEF SystemInv
  <1>2. /\ IInv' /\ Server' = Server /\ active' = active /\ asked' = asked
        /\ answers' = answers
    BY <1>1, StillServer
  <1>3. /\ toClient \in Seq(ClientMessage) /\ toPrompter \in Seq(PrompterMessage)
        /\ \A i \in 1 .. Len(toClient) : ClientMessageOK(toClient[i])
        /\ \A i \in 1 .. Len(toPrompter) : PrompterMessageOK(toPrompter[i])
    BY <1>1 DEF BusOK
  <1>4. /\ toPrompter' \in Seq(PrompterMessage)
        /\ \A i \in 1 .. Len(toPrompter') :
              toPrompter'[i] = x \/ \E j \in 1 .. Len(toPrompter) : toPrompter'[i] = toPrompter[j]
    <2>1. CASE toPrompter' = toPrompter
      BY <1>3, <2>1
    <2>2. CASE toPrompter' = toPrompter \o <<x>>
      <3>1. \A i \in 1 .. Len(toPrompter') :
                toPrompter'[i] = x \/ (i \in 1 .. Len(toPrompter) /\ toPrompter'[i] = toPrompter[i])
        BY <1>3, <2>2
      <3>2. QED
        BY <1>3, <2>2, <3>1
    <2>3. QED
      BY <2>1, <2>2
  <1>5. BusOK'
    <2>1. (\A i \in 1 .. Len(toClient) : ClientMessageOK(toClient[i]))'
      <3>1. ASSUME NEW i \in 1 .. Len(toClient') PROVE (ClientMessageOK(toClient[i]))'
        <4>1. CASE \E j \in 1 .. Len(toClient) : toClient'[i] = toClient[j]
          <5>1. PICK j \in 1 .. Len(toClient) : toClient'[i] = toClient[j]
            BY <4>1
          <5>2. ClientMessageOK(toClient[j])
            BY <1>3
          <5>3. QED
            BY <5>1, <5>2, OpFacts
               DEF ClientMessageOK, Started, Client!Started, Finished, Client!Finished, Onward
        <4>2. CASE ~\E j \in 1 .. Len(toClient) : toClient'[i] = toClient[j]
          BY <4>2 DEF Heard, ClientMessageOK
        <4>3. QED
          BY <4>1, <4>2
      <3>2. QED
        BY <3>1
    <2>2. (\A i \in 1 .. Len(toPrompter) : PrompterMessageOK(toPrompter[i]))'
      BY SMTT(30), <1>3, <1>4 DEF PrompterMessageOK, Started, Client!Started, Onward
    <2>3. toClient' \in Seq(ClientMessage)
      BY DEF Heard
    <2>4. asked' \in [Prompt -> Op] /\ answers' \in [Op -> {"none", "yes", "no"}]
      BY <1>1, <1>2 DEF BusOK
    <2>5. QED
      BY <1>4, <2>1, <2>2, <2>3, <2>4 DEF BusOK
  <1>6. \A q \in Op : q > 0 /\ ~ops'[q].cancelled /\ (\A p \in 1 .. q - 1 : ~ops'[p].aborted)
            => Valid(q) /\ ~ops'[q].cancelled
    <2>1. \A q \in Op : \A p \in 1 .. q - 1 : p \in Op
      BY OpFacts
    <2>2. QED
      BY <2>1 DEF Valid, Clean, AbortedBefore, Onward
  <1>7. \A q \in Op : Asking(q) /\ Valid(q) => pending = q
    BY <1>1 DEF AskedIsPending, Asking
  <1>8. AskedIsPending'
    <2>1. (Server.ops > 0 /\ Valid(asked[active[me]]) => pending = asked[active[me]])'
      <3>1. SUFFICES ASSUME Server.ops > 0, Valid(asked[active[me]])'
                     PROVE  pending' = asked[active[me]]
        BY <1>2
      <3> DEFINE q == asked[active[me]]
      <3>2. q \in Op /\ Asking(q)
        BY <1>1, <3>1, AskedOp DEF Asking
      <3>3. q > 0 /\ ~ops'[q].cancelled /\ \A p \in 1 .. q - 1 : ~ops'[p].aborted
        BY <1>2, <3>1 DEF Valid, Clean, AbortedBefore
      <3> HIDE DEF q
      <3>4. Valid(q) /\ pending = q
        BY <1>6, <1>7, <3>2, <3>3
      <3>5. QED
        BY <3>2, <3>3, <3>4 DEF q
    <2>2. ASSUME NEW i \in 1 .. Len(toPrompter'), toPrompter'[i].msg = "Perform",
                 toPrompter'[i].op > 0, ~ops'[toPrompter'[i].op].cancelled,
                 \A p \in 1 .. toPrompter'[i].op - 1 : ~ops'[p].aborted
          PROVE  pending' = toPrompter'[i].op
      <3>1. CASE toPrompter'[i] = x
        BY <2>2, <3>1
      <3>2. ASSUME NEW j \in 1 .. Len(toPrompter), toPrompter'[i] = toPrompter[j]
            PROVE  pending' = toPrompter'[i].op
        <4> DEFINE q == toPrompter[j].op
        <4>1. q \in Op /\ Asking(q)
          BY <1>3, <2>2, <3>2 DEF Asking, PrompterMessageOK
        <4>2. q > 0 /\ ~ops'[q].cancelled /\ \A p \in 1 .. q - 1 : ~ops'[p].aborted
          BY <2>2, <3>2
        <4> HIDE DEF q
        <4>3. Valid(q) /\ pending = q
          BY <1>6, <1>7, <4>1, <4>2
        <4>4. QED
          BY <3>2, <4>1, <4>2, <4>3 DEF q
      <3>3. QED
        BY <1>4, <3>1, <3>2
    <2>3. (\A i \in 1 .. Len(toPrompter) :
              toPrompter[i].msg = "Perform" /\ Valid(toPrompter[i].op) =>
                  pending = toPrompter[i].op)'
      BY <2>2 DEF Valid, Clean, AbortedBefore
    <2>4. QED
      BY <2>1, <2>3 DEF AskedIsPending
  <1>9. OwnAnswers'
    <2> SUFFICES ASSUME NEW q \in Op \ {0}, ~ops'[q].cancelled,
                        \A p \in 1 .. q - 1 : ~ops'[p].aborted,
                        NEW k \in 1 .. Len(ops'[q].results),
                        ops'[q].results[k] \in {"yes", "no"}
                 PROVE  ops'[q].results[k] = answers[q]
      BY <1>2 DEF OwnAnswers, Clean, AbortedBefore
    <2>1. Valid(q)
      BY <1>6, OpFacts
    <2>2. \A i \in 1 .. Len(ops[q].results) :
              ops[q].results[i] \in {"yes", "no"} => ops[q].results[i] = answers[q]
      BY <1>1, <2>1 DEF OwnAnswers, Valid
    <2>3. ops[q] \in Client!OpRecord
      BY <1>1, CallerFacts
    <2>4. CASE ops'[q].results = ops[q].results
      BY <2>2, <2>4
    <2>5. ASSUME NEW said, ops'[q].results = Append(ops[q].results, said),
                 said \in {"yes", "no"} => said = answers[q]
          PROVE  ops'[q].results[k] = answers[q]
      <3> DEFINE l == ops[q].results
                 S == {"null", "none", "yes", "no", "cancelled", "progress", "failed", said}
      <3>1. l \in Seq(S) /\ said \in S
        BY <2>3 DEF Client!OpRecord
      <3> HIDE DEF S
      <3>2. \A j \in 1 .. Len(Append(l, said)) :
                \/ j \in 1 .. Len(l) /\ Append(l, said)[j] = l[j]
                \/ Append(l, said)[j] = said
        BY SMTT(30), <3>1
      <3>3. QED
        BY <2>2, <2>5, <3>2
    <2>6. QED
      BY <2>1, <2>4, <2>5
  <1>10. AskedOnce'
    <2>1. \A o \in Op : Started(o) => Started(o)'
      BY DEF Onward, Started, Client!Started
    <2>2. \A i \in 1 .. Len(toPrompter) : toPrompter[i].msg = "Perform" =>
              toPrompter[i].op \in Op /\ Started(toPrompter[i].op)
      BY <1>3 DEF PrompterMessageOK
    <2>3. OneAsk(toPrompter')
      <3>1. CASE toPrompter' = toPrompter
        BY <1>1, <3>1 DEF AskedOnce
      <3>2. CASE toPrompter' = toPrompter \o <<x>>
        <4>1. \A i \in 1 .. Len(toPrompter') :
                  \/ i \in 1 .. Len(toPrompter) /\ toPrompter'[i] = toPrompter[i]
                  \/ i = Len(toPrompter') /\ toPrompter'[i] = x
          BY <1>3, <3>2
        <4>2. QED
          BY <1>1, <2>2, <4>1 DEF AskedOnce, OneAsk
      <3>3. QED
        BY <3>1, <3>2
    <2>4. \A o \in Op : Asking(o)' \/ ~Started(o)' => answers'[o] = "none"
      <3>1. \A o \in Op : Asking(o)' => Asking(o) \/ ~Started(o)
        BY <1>2, <1>4 DEF Asking
      <3>2. QED
        BY <1>1, <1>2, <2>1, <3>1 DEF AskedOnce
    <2>5. ASSUME Server.ops > 0
          PROVE  (LET q == asked[active[me]] IN q > 0 /\ Started(q) /\ NotSent(q))'
      <3>1. PICK q \in Op : q = asked[active[me]]
        BY <1>1, <2>5, AskedOp
      <3>2. q > 0 /\ Started(q) /\ NotSent(q)
        BY <1>1, <2>5, <3>1 DEF AskedOnce
      <3>3. NotSent(q)'
        BY <1>4, <3>2 DEF NotSent
      <3>4. QED
        BY <1>2, <2>1, <3>1, <3>2, <3>3
    <2>6. QED
      BY <1>2, <2>3, <2>4, <2>5 DEF AskedOnce
  <1>11. QED
    BY <1>2, <1>5, <1>8, <1>9, <1>10 DEF SystemInv, Phased

\* Nothing is sent.
LEMMA SilentMessage ==
    LET x == ToPrompter("Stop", NoOp, None)
    IN  x \in PrompterMessage /\ x.msg = "Stop"
  BY DEF ToPrompter, PrompterMessage

\* An operation that is pending, and may hear its answer, finds the prompt open.
LEMMA PendingIsLive ==
    ASSUME CallerSound, pending > 0, ~GivenUp(pending)
    PROVE  Live
  <1>1. pending \in Op \ {0} /\ Opened
    BY CallerFacts
  <1>2. PendingSound /\ \A q \in Op : OpSound(q)
    BY DEF CallerSound, OpsSound
  <1>3. ~ops[pending].aborted
    BY DEF GivenUp
  <1>4. ASSUME NEW q \in Op \ {0}, ops[q].aborted PROVE FALSE
    <2>1. CASE q < pending
      <3>1. q \in 1 .. pending - 1
        BY <1>1, <2>1, OpFacts
      <3>2. QED
        BY <1>4, <3>1 DEF GivenUp, AbortedBefore
    <2>2. CASE q > pending
      <3>1. ops[q] = Client!UnusedOp
        BY <1>2, <2>2 DEF PendingSound, OpSound
      <3>2. QED
        BY <1>4, <3>1, OpFacts
    <2>3. QED
      BY <1>1, <1>3, <1>4, <2>1, <2>2, OpFacts
  <1>5. QED
    BY <1>1, <1>2, <1>3, <1>4 DEF Live, Unaborted, PendingSound

LEMMA ValidIsLive ==
    ASSUME CallerSound, pending > 0, Valid(pending)
    PROVE  Live /\ Opened /\ pending \in Op \ {0} /\ ~ops[pending].aborted
  <1>1. pending \in Op \ {0} /\ Opened
    BY CallerFacts
  <1>2. ~ops[pending].aborted
    BY <1>1 DEF CallerSound, OpsSound, OpSound, Valid
  <1>3. QED
    BY <1>1, <1>2, PendingIsLive DEF Valid, Clean, GivenUp

\* A call is dispatched where the reply that an operation waits for is.
LEMMA SameLane ==
    ASSUME CallerSound, ~closed, NEW o \in Op, Waits(o), NEW m, m.op = o,
           m.msg \in {"Return", "Failed", "Name"}
    PROVE  Lane(m) = context /\ context \in {"main", "run"}
  <1>1. Started(o)
    BY CallerFacts DEF Waits, Client!Alive
  <1>2. /\ ops[o].style = "sync" => running = o /\ context = "run"
        /\ ops[o].style # "sync" => running = NoOp /\ context = "main"
    BY DEF CallerSound, Tuned
  <1>3. ops[o].style \in {"sync", "async"}
    BY <1>1, CallerFacts DEF Client!OpRecord, Started, Client!Started
  <1>4. QED
    BY <1>2, <1>3 DEF Lane

\* Nothing happens that matters to what is on its way.
LEMMA PhaseStays ==
    ASSUME CallerSound, Phase, StillSaid, StillThere, toPrompter' = toPrompter,
           Server' = Server, active' = active, callbacks' = callbacks, asked' = asked,
           answers' = answers, pending' = pending,
           Opened' <=> Opened, Started(0)' <=> Started(0),
           \A q \in Op : ops'[q].call = ops[q].call
    PROVE  Phase'
  <1> DEFINE l == toClient
             g == toClient'
  <1>1. /\ NoReady(l) => NoReady(g)
        /\ OneReady(l) => OneReady(g)
        /\ OnlyNames(l) => OnlyNames(g)
        /\ \A q : NoReply(l, q) => NoReply(g, q)
        /\ \A q : NotFailed(l, q) => NotFailed(g, q)
        /\ \A a : ReadySays(l, a) => ReadySays(g, a)
        /\ \A p : HasReady(l, p) => HasReady(g, p)
    BY DEF StillSaid, StillThere
  <1>2. 0 \in Op /\ ops'[0].call = ops[0].call /\ (pending > 0 => pending \in Op)
    BY CallerFacts, OpFacts
  <1>3. CASE Unasked
    <2>1. Unasked'
      BY <1>1, <1>2, <1>3 DEF Unasked
    <2>2. QED
      BY <2>1 DEF Phase
  <1>4. CASE BeginSent
    <2>1. BeginSent'
      BY <1>1, <1>2, <1>4 DEF BeginSent
    <2>2. QED
      BY <2>1 DEF Phase
  <1>5. CASE Opening
    <2>1. ops[0].call = "Begin" /\ ReturnFirst(l, "Begin", 0) => ReturnFirst(g, "Begin", 0)
      BY <1>2 DEF StillThere, Waits
    <2>2. Opening'
      BY <1>1, <1>2, <1>5, <2>1 DEF Opening
    <2>3. QED
      BY <2>2 DEF Phase
  <1>6. ASSUME NEW rest, ReadyFor(rest) PROVE ReadyFor(rest)'
    BY <1>1, <1>6 DEF ReadyFor
  <1>7. CASE Resting
    <2>1. Resting'
      BY <1>6, <1>7 DEF Resting
    <2>2. QED
      BY <2>1 DEF Phase
  <1>8. CASE PerformSent
    <2>1. ReadyFor(<<ToPrompter("Perform", pending, None)>>)'
      BY <1>6, <1>8 DEF PerformSent
    <2>2. PerformSent'
      BY <1>1, <1>2, <1>8, <2>1 DEF PerformSent
    <2>3. QED
      BY <2>2 DEF Phase
  <1>9. CASE Awaiting
    <2>1. ops[pending].call = "Perform" /\ ReturnFirst(l, "Perform", pending)
              => ReturnFirst(g, "Perform", pending)
      BY <1>2, <1>9 DEF StillThere, Waits, Awaiting
    <2>2. ops'[pending].call = ops[pending].call
      BY <1>2, <1>9 DEF Awaiting
    <2>3. OnScreen => OnScreen'
      BY <1>1 DEF OnScreen
    <2>4. Awaiting'
      BY <1>1, <1>9, <2>1, <2>2, <2>3 DEF Awaiting
    <2>5. QED
      BY <2>4 DEF Phase
  <1>10. QED
    BY <1>3, <1>4, <1>5, <1>7, <1>8, <1>9 DEF Phase

-----------------------------------------------------------------------------
(* The invariant holds in the steps of the caller.                         *)

\* A step that sends and answers nothing.
LEMMA QuietMoves ==
    ASSUME SystemInv, ClientStep, CallerSound', Onward, NothingSaid, Heard,
           toPrompter' = toPrompter,
           \A q \in Op : pending = q /\ Asking(q) /\ ~ops'[q].cancelled /\ Valid(q)
                             => pending' = q,
           Live' => Phase'
    PROVE  SystemInv'
  <1> DEFINE x == ToPrompter("Stop", NoOp, None)
  <1>1. x \in PrompterMessage /\ x.msg = "Stop"
    BY SilentMessage
  <1> HIDE DEF x
  <1>2. \A q \in Op \ {0} : ops'[q].results = ops[q].results
    BY DEF NothingSaid
  <1>3. QED
    BY <1>1, <1>2, CallerMoves

LEMMA OpenKeeps ==
    ASSUME SystemInv, ClientStep, Heard, StillSaid, Sending(None),
           NEW style \in Styles, Client!Open(style)
    PROVE  SystemInv'
  <1>1. IInv /\ CallerSound /\ BusOK /\ Phased
    BY DEF SystemInv
  <1>2. /\ CallerSound' /\ Live /\ Onward /\ NothingSaid
        /\ ops'[0].call = "bus" /\ ~Started(0)
    BY <1>1, OpenSound
  <1>3. pending' = pending /\ sent' = << >>
    BY DEF Client!Open
  <1>4. toPrompter' = toPrompter /\ callbacks' = callbacks
    BY <1>1, <1>3, SendingIs, StillServer
  <1>5. Unasked
    <2>1. ~Opened /\ ops[0].call = "none" /\ pending # 0
      BY <1>1, <1>2, CallerFacts, OpFacts DEF Client!Alive
    <2>2. QED
      BY <1>1, <1>2, <2>1
         DEF Phased, Phase, BeginSent, Opening, Resting, PerformSent, Awaiting
  <1>6. Unasked'
    BY <1>2, <1>4, <1>5 DEF Unasked, StillSaid
  <1>7. QED
    BY <1>2, <1>3, <1>4, <1>6, QuietMoves DEF Phase

LEMMA CancelKeeps ==
    ASSUME SystemInv, ClientStep, Heard, StillSaid, StillThere, Sending(None),
           NEW o \in Op, Client!Cancel(o)
    PROVE  SystemInv'
  <1>1. IInv /\ CallerSound /\ BusOK /\ Phased
    BY DEF SystemInv
  <1>2. /\ CallerSound' /\ Onward /\ NothingSaid
        /\ \A q \in Op : ops'[q].call = ops[q].call
        /\ (Opened' <=> Opened) /\ (Started(0)' <=> Started(0))
        /\ Live' => Live
    BY <1>1, CancelSound
  <1>3. pending' = pending /\ sent' = << >>
    BY DEF Client!Cancel
  <1>4. /\ toPrompter' = toPrompter /\ Server' = Server /\ active' = active
        /\ callbacks' = callbacks /\ asked' = asked /\ answers' = answers
    BY <1>1, <1>3, SendingIs, StillServer
  <1>5. Phase => Phase'
    BY <1>1, <1>2, <1>3, <1>4, PhaseStays
  <1>6. QED
    BY <1>1, <1>2, <1>3, <1>4, <1>5, QuietMoves DEF Phased

LEMMA ClosingKeeps ==
    ASSUME SystemInv, ClientStep, Heard, NEW p \in Prompt \union {None}, Sending(p), Closing
    PROVE  SystemInv'
  <1>1. BusOK
    BY DEF SystemInv
  <1> DEFINE c == Client!Call("Stop", NoOp)
             x == ToPrompter("Stop", NoOp, p)
  <1>2. x \in PrompterMessage /\ x.msg = "Stop"
    BY OpFacts DEF ToPrompter, PrompterMessage
  <1>3. c.msg = "Stop" /\ c.op = NoOp
    BY DEF Client!Call
  <1>4. sent' \in {<< >>, <<c>>}
    BY DEF Closing
  <1> HIDE DEF c
  <1>5. toPrompter' \in {toPrompter, toPrompter \o <<x>>}
    <2>1. CASE sent' = << >>
      BY <1>1, <2>1, SendingIs
    <2>2. CASE sent' = <<c>>
      BY <1>1, <1>3, <2>2, SendingIs
    <2>3. QED
      BY <1>4, <2>1, <2>2
  <1> HIDE DEF x
  <1>6. ~Live'
    BY DEF Closing, Live
  <1>7. \A q \in Op \ {0} : ops'[q].results = ops[q].results
    BY DEF Closing, NothingSaid
  <1>8. QED
    BY <1>2, <1>5, <1>6, <1>7, CallerMoves DEF Closing

LEMMA BusConnectedKeeps ==
    ASSUME SystemInv, ClientStep, Heard, StillSaid, Sending(None),
           NEW ok \in BOOLEAN, Client!BusConnected(ok)
    PROVE  SystemInv'
  <1>1. IInv /\ CallerSound /\ BusOK /\ Phased
    BY DEF SystemInv
  <1> DEFINE c == Client!Call("Begin", 0)
             x == ToPrompter("Begin", 0, None)
  <1>2. /\ CallerSound' /\ Onward /\ NothingSaid
        /\ pending = NoOp /\ sent' \in {<< >>, <<c>>}
        /\ Live' => /\ ops'[0].call = "Begin" /\ Live /\ ops[0].call = "bus"
                    /\ sent' = <<c>>
    BY <1>1, BusConnectedSound
  <1>3. x \in PrompterMessage /\ x.msg = "Begin" /\ x.op = 0
    BY OpFacts DEF ToPrompter, PrompterMessage
  <1>4. c.msg = "Begin" /\ c.op = 0
    BY DEF Client!Call
  <1> HIDE DEF c
  <1>5. /\ sent' = << >> => toPrompter' = toPrompter
        /\ sent' = <<c>> => toPrompter' = toPrompter \o <<x>>
    BY <1>1, <1>4, SendingIs
  <1>6. callbacks' = callbacks
    BY <1>1, StillServer
  <1>7. Live' => Phase'
    <2>1. SUFFICES ASSUME Live' PROVE Phase'
      OBVIOUS
    <2>2. ~Opened
      BY <1>1, <1>2, <2>1, CallerFacts
    <2>3. Unasked
      BY <1>1, <1>2, <2>1, <2>2, OpFacts
         DEF Phased, Phase, BeginSent, Opening, Resting, PerformSent, Awaiting
    <2>4. toPrompter = << >> /\ << >> \o <<x>> = <<x>>
      BY <2>3 DEF Unasked
    <2>5. toPrompter' = <<x>>
      BY <1>2, <1>5, <2>1, <2>4
    <2>6. BeginSent'
      BY <1>2, <1>6, <2>1, <2>3, <2>5 DEF BeginSent, Unasked, StillSaid
    <2>7. QED
      BY <2>6 DEF Phase
  <1> HIDE DEF x
  <1>8. \A q \in Op \ {0} : ops'[q].results = ops[q].results
    BY <1>2 DEF NothingSaid
  <1>9. \A q \in Op : pending # q
    BY <1>2, OpFacts
  <1>10. QED
    BY <1>2, <1>3, <1>5, <1>7, <1>8, <1>9, CallerMoves

LEMMA IdleCompletesKeeps ==
    ASSUME SystemInv, ClientStep, Heard, Sending(None),
           NEW o \in Op, Client!IdleCompletes(o)
    PROVE  SystemInv'
  <1>1. CallerSound /\ BusOK
    BY DEF SystemInv
  <1>2. /\ CallerSound' /\ Onward /\ closed' = TRUE /\ pending' = pending /\ sent' = << >>
        /\ \A q \in Op : q # o => ops'[q] = ops[q]
    BY <1>1, IdleCompletesSound
  <1>3. \E said : /\ ops'[o].results = Append(ops[o].results, said)
                  /\ said \in {"yes", "no"} => o = 0 \/ ops[o].cancelled
    BY <1>1, IdleCompletesSound
  <1>4. toPrompter' = toPrompter
    BY <1>1, <1>2, SendingIs
  <1> DEFINE x == ToPrompter("Stop", NoOp, None)
  <1>5. x \in PrompterMessage /\ x.msg = "Stop"
    BY SilentMessage
  <1> HIDE DEF x
  <1>6. \A q \in Op \ {0} :
            \/ ops'[q].results = ops[q].results
            \/ \E said : /\ ops'[q].results = Append(ops[q].results, said)
                         /\ said \in {"yes", "no"} /\ ~ops'[q].cancelled /\ Valid(q) =>
                                said = answers[q]
    <2> TAKE q \in Op \ {0}
    <2>1. CASE q # o
      BY <1>2, <2>1
    <2>2. CASE q = o
      BY <1>3, <2>2 DEF Valid
    <2>3. QED
      BY <2>1, <2>2
  <1>7. ~Live'
    BY <1>2 DEF Live
  <1>8. QED
    BY <1>2, <1>4, <1>5, <1>6, <1>7, CallerMoves

LEMMA PresenceKeeps ==
    ASSUME SystemInv, ClientStep, Heard, StillSaid, StillThere, NEW p, Sending(p),
           NEW o \in Op, Client!Alive(o),
           Client!PrompterPresent \/ Client!PrompterVanished(o)
    PROVE  SystemInv'
  <1>1. IInv /\ CallerSound /\ BusOK /\ Phased
    BY DEF SystemInv
  <1>2. /\ CallerSound' /\ Onward /\ NothingSaid /\ sent' = << >> /\ pending' = pending
        /\ \A q \in Op : ops'[q].call = ops[q].call
        /\ (Opened' <=> Opened) /\ (Started(0)' <=> Started(0)) /\ (Live' <=> Live)
    BY <1>1, PresenceSound
  <1>3. /\ toPrompter' = toPrompter /\ Server' = Server /\ active' = active
        /\ callbacks' = callbacks /\ asked' = asked /\ answers' = answers
    BY <1>1, <1>2, SendingIs, StillServer
  <1>4. Phase => Phase'
    BY <1>1, <1>2, <1>3, PhaseStays
  <1>5. QED
    BY <1>1, <1>2, <1>3, <1>4, QuietMoves DEF Phased

\* A question is asked when nothing stands in its way.
LEMMA AskKeeps ==
    ASSUME SystemInv, ClientStep, Heard, StillSaid, Sending(None),
           NEW o \in Op, NEW style \in Styles, Client!Perform(o, style)
    PROVE  SystemInv'
  <1>1. IInv /\ CallerSound /\ BusOK /\ Phased
    BY DEF SystemInv
  <1> DEFINE c == Client!Call("Perform", o)
             x == ToPrompter("Perform", o, None)
  <1>2. /\ CallerSound' /\ Onward /\ NothingSaid
        /\ Live' /\ ~closed => Live /\ Resting
        /\ ops'[o].style # "unused" /\ Opened'
        /\ ~closed => ops'[o].call = "Perform" /\ pending' = o
    BY <1>1, PerformSound
  <1>3. /\ o > 0 /\ ~Started(o) /\ pending = NoOp /\ closed' = closed
        /\ sent' = IF closed THEN << >> ELSE <<c>>
    BY OpFacts DEF Client!Perform, Started
  <1>4. x \in PrompterMessage /\ x.msg = "Perform" /\ x.op = o
    BY DEF ToPrompter, PrompterMessage
  <1>5. c.msg = "Perform" /\ c.op = o
    BY DEF Client!Call
  <1> HIDE DEF c
  <1>6. toPrompter' = IF closed THEN toPrompter ELSE toPrompter \o <<x>>
    BY <1>1, <1>3, <1>5, SendingIs
  <1>7. Server' = Server /\ active' = active /\ callbacks' = callbacks
    BY <1>1, StillServer
  <1>8. Live' => Phase'
    <2>1. SUFFICES ASSUME Live' PROVE Phase'
      OBVIOUS
    <2>2. ~closed
      BY <1>3, <2>1 DEF Live
    <2>3. Resting /\ ReadyFor(<< >>)
      BY <1>2, <2>1, <2>2 DEF Resting
    <2>4. NoReply(toClient, o)
      <3>1. ASSUME NEW i \in 1 .. Len(toClient), toClient[i].arg = "Perform",
                   toClient[i].op = o
            PROVE  FALSE
        <4>1. toClient[i] \in ClientMessage /\ ClientMessageOK(toClient[i])
          BY <1>1 DEF BusOK
        <4>2. toClient[i].msg \in {"Ready", "Done", "Return", "Failed", "Name"}
          BY <4>1 DEF ClientMessage
        <4>3. QED
          BY <1>3, <3>1, <4>1, <4>2 DEF ClientMessageOK
      <3>2. QED
        BY <3>1 DEF NoReply
    <2>5. NoReply(toClient', o) /\ NoReady(toClient')
      BY <2>3, <2>4 DEF StillSaid, ReadyFor
    <2>6. /\ toPrompter \in Seq(PrompterMessage) /\ toPrompter' = toPrompter \o <<x>>
          /\ x = ToPrompter("Perform", pending', None)
      BY <1>1, <1>2, <1>6, <2>2 DEF BusOK
    <2>7. ReadyFor(<<x>>)'
      <3>1. CASE toPrompter = << >>
        <4>1. toPrompter' = <<x>>
          BY <2>6, <3>1
        <4>2. me \in callbacks => active[me] # None /\ Server.ready
          BY <2>3, <3>1 DEF ReadyFor
        <4>3. QED
          BY <1>7, <2>5, <4>1, <4>2 DEF ReadyFor
      <3>2. CASE toPrompter # << >>
        <4> DEFINE a == Head(toPrompter)
        <4>1. toPrompter = <<a>> /\ a.msg = "Answered" /\ a \in PrompterMessage
          <5>1. Tail(toPrompter) = << >> /\ a.msg = "Answered"
            BY <2>3, <3>2 DEF ReadyFor
          <5>2. a \in PrompterMessage
            BY <2>6, <3>2
          <5>3. QED
            BY <2>6, <3>2, <5>1, <5>2, Pairs
        <4>2. me \in callbacks =>
                  active[me] # None
                  /\ (Server.ready \/ (Server.calls > 0 /\ a.prompt = active[me]))
          BY <2>3 DEF ReadyFor
        <4> HIDE DEF a
        <4>3. toPrompter' # << >> /\ Head(toPrompter') = a /\ Tail(toPrompter') = <<x>>
          <5>1. toPrompter' = <<a>> \o <<x>>
            BY <2>6, <4>1
          <5> HIDE DEF x
          <5>2. QED
            BY <1>4, <4>1, <5>1, Pairs
        <4>4. QED
          BY <1>7, <2>5, <4>1, <4>2, <4>3 DEF ReadyFor
      <3>3. QED
        BY <3>1, <3>2
    <2>8. (ReadyFor(<<ToPrompter("Perform", pending, None)>>))'
      BY <2>6, <2>7
    <2>9. PerformSent'
      BY <1>2, <1>3, <2>2, <2>5, <2>8 DEF PerformSent
    <2>10. QED
      BY <2>9 DEF Phase
  <1> HIDE DEF x
  <1>9. \A q \in Op : pending # q
    BY <1>3, OpFacts
  <1>10. CASE closed
    <2>1. toPrompter' = toPrompter
      BY <1>6, <1>10
    <2>2. QED
      BY <1>2, <1>8, <1>9, <2>1, QuietMoves
  <1>11. CASE ~closed
    <2>1. \A q \in Op \ {0} : ops'[q].results = ops[q].results
      BY <1>2 DEF NothingSaid
    <2>2. /\ toPrompter' \in {toPrompter, toPrompter \o <<x>>}
          /\ x.op \in Op \ {0} /\ ops'[x.op].style # "unused" /\ x.op = pending'
          /\ ~Started(x.op)
      BY <1>2, <1>3, <1>4, <1>6, <1>11
    <2>3. QED
      BY <1>2, <1>4, <1>8, <1>9, <2>1, <2>2, CallerMoves
  <1>12. QED
    BY <1>10, <1>11

\* The opening call returns.
LEMMA BeginReturnsKeeps ==
    ASSUME SystemInv, ClientStep, Heard, StillSaid, NEW p, Sending(p),
           NEW ok \in BOOLEAN, Client!BeginReturns(ok),
           ok => /\ \E i \in 1 .. Len(toClient) : toClient[i].msg = "Return"
                 /\ \A q : HasReady(toClient, q) => HasReady(toClient', q)
    PROVE  SystemInv'
  <1>1. IInv /\ CallerSound /\ BusOK /\ Phased
    BY DEF SystemInv
  <1>2. /\ CallerSound' /\ Onward /\ NothingSaid /\ pending = NoOp
        /\ Live' => /\ pending' = 0 /\ Live /\ ops[0].call = "Begin"
                    /\ ops'[0].call = "none" /\ ok
    BY <1>1, BeginReturnsSound
  <1>3. sent' = << >>
    BY DEF Client!BeginReturns
  <1>4. /\ toPrompter' = toPrompter /\ Server' = Server /\ active' = active
        /\ callbacks' = callbacks
    BY <1>1, <1>3, SendingIs, StillServer
  <1>5. Live' => Phase'
    <2>1. SUFFICES ASSUME Live' PROVE Phase'
      OBVIOUS
    <2>2. ~Opened /\ Started(0) /\ ~OnlyNames(toClient)
      <3>1. PICK i \in 1 .. Len(toClient) : toClient[i].msg = "Return"
        BY <1>2, <2>1
      <3>2. ~OnlyNames(toClient)
        BY <3>1 DEF OnlyNames
      <3>3. QED
        BY <1>1, <1>2, <2>1, <3>2, CallerFacts
    <2>3. Opening
      BY <1>1, <1>2, <2>1, <2>2
         DEF Phased, Phase, Unasked, BeginSent, Resting, PerformSent, Awaiting
    <2>4. \A q : HasReady(toClient, q) => HasReady(toClient', q)
      BY <1>2, <2>1
    <2>5. Opening'
      BY <1>2, <1>4, <2>1, <2>3, <2>4 DEF Opening, StillSaid
    <2>6. QED
      BY <2>5 DEF Phase
  <1>6. \A q \in Op : pending # q
    BY <1>2, OpFacts
  <1>7. QED
    BY <1>2, <1>4, <1>5, <1>6, QuietMoves

\* What it means that a call comes that says that the prompter is ready.
LEMMA ReadyMeans ==
    ASSUME IInv, CallerSound, BusOK, Phase, ~closed,
           NEW i \in 1 .. Len(toClient), toClient[i].msg = "Ready", Deliverable(i)
    PROVE  /\ OneReady(toClient) /\ toPrompter = << >>
           /\ me \in callbacks => /\ active[me] # None /\ Server.calls > 0
                                  /\ toClient[i].prompt = active[me]
           /\ \/ pending = 0
              \/ /\ Opened /\ pending > 0 /\ ops[pending].call # "Perform"
                 /\ toClient[i].arg = answers[pending]
  <1>1. ~NoReady(toClient) /\ ~OnlyNames(toClient)
    BY DEF NoReady, OnlyNames
  <1>2. Lane(toClient[i]) = context
    BY DEF Lane
  <1>3. ASSUME NEW o \in Op, Waits(o), NEW k, ReturnFirst(toClient, k, o) PROVE FALSE
    <2>1. PICK j \in 1 .. Len(toClient) :
              /\ toClient[j].msg = "Return" /\ toClient[j].op = o
              /\ \A n \in 1 .. Len(toClient) : toClient[n].msg = "Ready" => j < n
      BY <1>3 DEF ReturnFirst
    <2>2. Lane(toClient[j]) = context
      BY <1>3, <2>1, SameLane
    <2>3. j < i /\ j \in 1 .. i - 1
      BY <2>1
    <2>4. QED
      BY <1>2, <2>2, <2>3 DEF Deliverable
  <1>4. ASSUME OneReady(toClient), NEW p, HasReady(toClient, p)
        PROVE  toClient[i].prompt = p
    BY <1>4 DEF OneReady, HasReady
  <1>5. Opening \/ Awaiting
    BY <1>1 DEF Phase, Unasked, BeginSent, Resting, PerformSent, ReadyFor
  <1>6. CASE Opening
    <2>1. ops[0].call # "Begin"
      BY <1>1, <1>3, <1>6, OpFacts DEF Opening, Waits
    <2>2. me \in callbacks => active[me] # None /\ Server.calls > 0
                              /\ HasReady(toClient, active[me])
      BY <1>1, <1>6 DEF Opening
    <2>3. QED
      BY <1>4, <1>6, <2>1, <2>2 DEF Opening
  <1>7. CASE Awaiting
    <2>1. pending \in Op
      BY <1>7, CallerFacts DEF Awaiting
    <2>2. ops[pending].call # "Perform"
      BY <1>1, <1>3, <1>7, <2>1 DEF Awaiting, Waits
    <2>3. OneReady(toClient) /\ ReadySays(toClient, answers[pending])
      BY <1>1, <1>7 DEF Awaiting
    <2>4. toClient[i].arg = answers[pending]
      BY <2>3 DEF ReadySays
    <2>5. me \in callbacks => active[me] # None /\ Server.calls > 0
                              /\ HasReady(toClient, active[me])
      BY <1>1, <1>7 DEF Awaiting, OnScreen
    <2>6. QED
      BY <1>4, <1>7, <2>2, <2>3, <2>4, <2>5 DEF Awaiting
  <1>8. QED
    BY <1>5, <1>6, <1>7

\* The call of a question returns, or fails.
LEMMA PerformReturnsKeeps ==
    ASSUME SystemInv, ClientStep, Heard, StillSaid, NEW p, Sending(p),
           NEW o \in Op, NEW ok \in BOOLEAN, Client!PerformReturns(o, ok),
           ~ops[o].aborted =>
               /\ \E i \in 1 .. Len(toClient) :
                     /\ toClient[i].arg = "Perform" /\ toClient[i].op = o
                     /\ ~ok => toClient[i].msg # "Return"
               /\ \A q : HasReady(toClient, q) => HasReady(toClient', q)
    PROVE  SystemInv'
  <1>1. IInv /\ CallerSound /\ BusOK /\ Phased /\ OneCall
    BY DEF SystemInv, CallerSound
  <1>2. /\ CallerSound' /\ Onward /\ closed' = closed /\ sent' = << >>
        /\ o > 0 /\ ops[o].call = "Perform" /\ Opened /\ ops'[o].call = "none"
        /\ ops' \in [Op -> Client!OpRecord] /\ \A q \in Op : q # o => ops'[q] = ops[q]
    <2>1. ops'[o].call = "none" /\ Started(o) /\ o > 0
      BY <1>1, PerformReturnsSound
    <2>2. Opened
      BY <1>1, <2>1, CallerFacts
    <2>3. QED
      BY <1>1, <2>1, <2>2, PerformReturnsSound
  <1>3. /\ toPrompter' = toPrompter /\ Server' = Server /\ active' = active
        /\ callbacks' = callbacks /\ asked' = asked /\ answers' = answers
    BY <1>1, <1>2, SendingIs, StillServer
  <1>4. IF ok /\ ~ops[o].aborted
        THEN /\ pending' = pending
             /\ \A q \in Op : ops'[q].results = ops[q].results
             /\ ops'[o].aborted = ops[o].aborted
        ELSE /\ pending' = NoOp /\ ops'[o].aborted = ops[o].aborted
             /\ \E said \in {"cancelled", "failed"} :
                    ops'[o].results = Append(ops[o].results, said)
    BY <1>1, PerformReturnsSound DEF FinishedOp
  <1>5. Opened' /\ ops[0].call = "none" /\ pending # 0 /\ Started(0)
    <2>1. ops'[0] = ops[0]
      BY <1>2, OpFacts
    <2>2. QED
      BY <1>1, <1>2, <2>1, CallerFacts, OpFacts DEF Opened, Client!Opened, Client!Finished
  <1>6. ASSUME Live, ~ops[o].aborted
        PROVE  /\ Awaiting /\ o = pending
               /\ ~ok => me \notin callbacks /\ NoReady(toClient)
    <2>1. pending > 0 => o = pending
      <3>1. pending > 0 => Clean(pending)
        <4>1. pending > 0 => \A q \in 1 .. pending - 1 : q \in Op \ {0}
          BY <1>1, CallerFacts, OpFacts
        <4>2. QED
          BY <1>6, <4>1 DEF Live, Unaborted, Clean, AbortedBefore
      <3>2. QED
        BY <1>1, <1>2, <3>1 DEF OneCall
    <2>2. ~Unasked /\ ~BeginSent /\ ~Opening /\ ~Resting
      BY <1>2, <1>5 DEF Unasked, BeginSent, Opening, Resting
    <2>3. ~PerformSent
      BY <1>6, <2>1 DEF PerformSent, NoReply
    <2>4. Awaiting
      BY <1>1, <1>6, <2>2, <2>3 DEF Phased, Phase
    <2>5. o = pending
      BY <2>1, <2>4 DEF Awaiting
    <2>6. ASSUME ~ok PROVE me \notin callbacks /\ NoReady(toClient)
      <3>1. ~NotFailed(toClient, pending)
        BY <1>6, <2>5, <2>6 DEF NotFailed
      <3>2. QED
        BY <2>4, <3>1 DEF Awaiting
    <2>7. QED
      BY <2>4, <2>5, <2>6
  <1>7. Live' => Live /\ ~ops[o].aborted
    <2>1. SUFFICES ASSUME Live' PROVE Live /\ ~ops[o].aborted
      OBVIOUS
    <2>2. \A q \in Op \ {0} : ops'[q].aborted = ops[q].aborted
      BY <1>2, <1>4
    <2>3. QED
      BY <1>2, <2>1, <2>2 DEF Live, Unaborted
  <1>8. Live' => Phase'
    <2>1. SUFFICES ASSUME Live' PROVE Phase'
      OBVIOUS
    <2>2. Awaiting /\ o = pending /\ (~ok => me \notin callbacks /\ NoReady(toClient))
      BY <1>6, <1>7, <2>1
    <2>3. CASE ok
      <3>1. pending' = pending
        BY <1>4, <1>7, <2>1, <2>3
      <3>2. OnScreen => OnScreen'
        BY <1>3, <3>1 DEF OnScreen, StillSaid
      <3>3. \A q : HasReady(toClient, q) => HasReady(toClient', q)
        BY <1>7, <2>1
      <3>4. toPrompter' = << >> /\ pending' > 0 /\ ops'[pending'].call = "none"
        BY <1>2, <1>3, <2>2, <3>1 DEF Awaiting
      <3>5. \/ me \notin callbacks' /\ NoReady(toClient')
            \/ /\ NotFailed(toClient', pending') /\ OneReady(toClient')
               /\ ReadySays(toClient', answers'[pending'])
               /\ me \in callbacks' =>
                     /\ active'[me] # None
                     /\ OnScreen' \/ (Server'.calls > 0 /\ HasReady(toClient', active'[me]))
        BY <1>3, <2>2, <3>1, <3>2, <3>3 DEF Awaiting, StillSaid
      <3>6. Awaiting'
        BY <1>5, <3>4, <3>5 DEF Awaiting
      <3>7. QED
        BY <3>6 DEF Phase
    <2>4. CASE ~ok
      <3>1. pending' = NoOp /\ toPrompter' = << >> /\ me \notin callbacks'
            /\ NoReady(toClient')
        BY <1>3, <1>4, <2>2, <2>4 DEF Awaiting, StillSaid
      <3>2. Clean(pending)
        <4>1. \A q \in 1 .. pending - 1 : q \in Op \ {0}
          BY <2>2, OpFacts
        <4>2. QED
          BY <1>7, <2>1, <4>1 DEF Live, Unaborted, Clean, AbortedBefore
      <3>3. \A q \in Op \ {0} : ops'[q].call = "none"
        BY <1>1, <1>2, <2>2, <3>2 DEF OneCall, Awaiting
      <3>4. ReadyFor(<< >>)'
        BY <3>1 DEF ReadyFor
      <3>5. Resting'
        BY <1>5, <3>1, <3>3, <3>4 DEF Resting
      <3>6. QED
        BY <3>5 DEF Phase
    <2>5. QED
      BY <2>3, <2>4
  <1>9. \A q \in Op : pending = q /\ Asking(q) /\ ~ops'[q].cancelled /\ Valid(q)
                          => pending' = q
    <2> SUFFICES ASSUME NEW q \in Op, pending = q, Asking(q), Valid(q), pending' # q
                 PROVE  FALSE
      OBVIOUS
    <2>1. Live /\ ~ops[q].aborted /\ q > 0 /\ Clean(q)
      <3>1. pending > 0 /\ Valid(pending)
        BY DEF Valid
      <3>2. QED
        BY <1>1, <3>1, ValidIsLive DEF Valid
    <2>2. o = q
      BY <1>1, <1>2, <2>1 DEF OneCall
    <2>3. ~ok
      BY <1>4, <2>1, <2>2
    <2>4. Awaiting /\ me \notin callbacks
      BY <1>6, <2>1, <2>2, <2>3
    <2>5. ~(Server.ops > 0)
      BY <1>1, <2>4, OneCompletion, TablesSound, MeAssumption DEF Sound
    <2>6. Len(toPrompter) = 0
      BY <2>4 DEF Awaiting
    <2>7. QED
      BY <2>5, <2>6 DEF Asking
  <1> DEFINE x == ToPrompter("Stop", NoOp, None)
  <1>10. x \in PrompterMessage /\ x.msg = "Stop"
    BY SilentMessage
  <1> HIDE DEF x
  <1>11. \A q \in Op \ {0} :
            \/ ops'[q].results = ops[q].results
            \/ \E said : /\ ops'[q].results = Append(ops[q].results, said)
                         /\ said \in {"yes", "no"} /\ ~ops'[q].cancelled /\ Valid(q) =>
                                said = answers[q]
    <2> TAKE q \in Op \ {0}
    <2>1. CASE q # o \/ (ok /\ ~ops[o].aborted)
      BY <1>2, <1>4, <2>1
    <2>2. CASE q = o /\ ~(ok /\ ~ops[o].aborted)
      BY <1>4, <2>2
    <2>3. QED
      BY <2>1, <2>2
  <1>12. QED
    BY <1>2, <1>3, <1>8, <1>9, <1>10, <1>11, CallerMoves

\* The prompter is ready, perhaps with an answer.
LEMMA ReadyCalledKeeps ==
    ASSUME SystemInv, ClientStep, NEW i \in 1 .. Len(toClient), toClient[i].msg = "Ready",
           Deliverable(i), toClient' = RemoveAt(toClient, i), Sending(toClient[i].prompt),
           Client!ReadyCalled(toClient[i].arg)
    PROVE  SystemInv'
  <1> DEFINE p == toClient[i].prompt
             answer == toClient[i].arg
  <1>1. /\ IInv /\ CallerSound /\ BusOK /\ Phased /\ OneCall
        /\ \A q \in Op : OpSound(q)
    BY DEF SystemInv, CallerSound, OpsSound
  <1>2. p \in Prompt /\ answer \in {"none", "yes", "no"}
    BY <1>1 DEF BusOK, ClientMessageOK
  <1>3. /\ Server' = Server /\ active' = active /\ callbacks' = callbacks
        /\ asked' = asked /\ answers' = answers
    BY <1>1, StillServer
  <1>4. /\ Heard /\ StillSaid
        /\ OneReady(toClient) => NoReady(toClient')
    BY <1>1, Removed
  <1>5. ASSUME Live
        PROVE  /\ OneReady(toClient) /\ toPrompter = << >>
               /\ me \in callbacks => active[me] # None /\ Server.calls > 0 /\ p = active[me]
               /\ \/ pending = 0
                  \/ /\ Opened /\ pending > 0 /\ ops[pending].call # "Perform"
                     /\ answer = answers[pending]
    <2>1. Phase /\ ~closed
      BY <1>1, <1>5 DEF Phased, Live
    <2>2. QED
      BY <1>1, <2>1, ReadyMeans
  <1>6. CASE pending = NoOp
    <2>1. CallerKeeps /\ sent' = << >>
      BY <1>6, OpFacts DEF Client!ReadyCalled, CallerKeeps
    <2>2. CallerSound' /\ (Live' <=> Live) /\ ops' = ops
      BY <1>1, <2>1, CallerStays DEF CallerKeeps
    <2>3. toPrompter' = toPrompter
      BY <1>1, <2>1, SendingIs
    <2>4. ~Live'
      BY <1>5, <1>6, <2>2, OpFacts
    <2>5. Onward /\ NothingSaid
      BY <2>2 DEF Onward, NothingSaid
    <2>6. \A q \in Op : pending # q
      BY <1>6, OpFacts
    <2>7. QED
      BY <1>4, <2>2, <2>3, <2>4, <2>5, <2>6, QuietMoves
  <1>7. CASE pending # NoOp
    <2> DEFINE x == ToPrompter("Answered", NoOp, p)
               c == Client!Answered
    <2>1. /\ CallerSound' /\ Onward /\ pending' = NoOp /\ pending \in Op
          /\ \A q \in Op : q # pending => ops'[q] = ops[q]
          /\ FinishedOp(ops[pending], ops'[pending])
          /\ ops'[pending].call = ops[pending].call
          /\ closed' = closed /\ sent' = <<c>>
      BY <1>1, <1>2, <1>7, ReadyCalledSound
    <2>2. \E said : /\ ops'[pending].results = Append(ops[pending].results, said)
                    /\ said \in {"yes", "no"} => said = answer
      BY <1>1, <1>2, <1>7, ReadyCalledSound
    <2>3. c.msg = "Answered" /\ c.op = NoOp
      BY OpFacts DEF Client!Answered
    <2>4. x \in PrompterMessage /\ x.msg = "Answered" /\ x.prompt = p
      BY <1>2 DEF ToPrompter, PrompterMessage
    <2> HIDE DEF c
    <2>5. toPrompter' = toPrompter \o <<x>>
      BY <1>1, <2>1, <2>3, SendingIs
    <2>6. Live' => Live
      <3>1. SUFFICES ASSUME Live' PROVE Live
        OBVIOUS
      <3>2. \A q \in Op \ {0} : ops'[q].aborted = ops[q].aborted
        BY <2>1 DEF FinishedOp
      <3>3. Opened \/ ~Finished(0)
        BY <1>1, <2>1, CallerFacts, OpFacts
      <3>4. QED
        BY <2>1, <3>1, <3>2, <3>3 DEF Live, Unaborted
    <2> HIDE DEF p, answer
    <2>7. Live' => Phase'
      <3>1. SUFFICES ASSUME Live' PROVE Phase'
        OBVIOUS
      <3>2. Live
        BY <2>6, <3>1
      <3>3. Opened'
        <4>1. CASE pending = 0
          <5>1. ops'[0].results # << >>
            BY <2>1, <4>1 DEF FinishedOp
          <5>2. QED
            BY <3>1, <5>1 DEF Live, Finished, Client!Finished
        <4>2. CASE pending # 0
          <5>1. ops'[0] = ops[0] /\ Opened
            BY <1>5, <2>1, <3>2, <4>2, OpFacts
          <5>2. QED
            BY <5>1 DEF Opened, Client!Opened, Client!Finished
        <4>3. QED
          BY <4>1, <4>2
      <3>4. ASSUME NEW q \in Op \ {0} PROVE ops'[q].call = "none"
        <4>1. ops'[q].call = ops[q].call
          BY <2>1
        <4>2. CASE pending = 0
          BY <1>1, <4>1, <4>2, CallerFacts, OpFacts
        <4>3. CASE pending # 0
          <5>1. pending > 0 /\ ops[pending].call # "Perform" /\ pending \in Op
            BY <1>5, <2>1, <3>2, <4>3
          <5>2. \A n \in 1 .. pending - 1 : n \in Op \ {0}
            BY <5>1, OpFacts
          <5>3. Clean(pending)
            BY <3>2, <5>2 DEF Live, Unaborted, Clean, AbortedBefore
          <5>4. QED
            BY <1>1, <4>1, <5>1, <5>3 DEF OneCall, OpSound
        <4>4. QED
          BY <4>2, <4>3
      <3>5. toPrompter = << >> /\ << >> \o <<x>> = <<x>>
        BY <1>5, <3>2
      <3>6. toPrompter' = <<x>>
        BY <2>5, <3>5
      <3>7. me \in callbacks => active[me] # None /\ Server.calls > 0 /\ x.prompt = active[me]
        BY <1>5, <2>4, <3>2
      <3>8. NoReady(toClient')
        BY <1>4, <1>5, <3>2
      <3>9. x.msg = "Answered"
        BY <2>4
      <3> HIDE DEF x
      <3>10. toPrompter' # << >> /\ Head(toPrompter') = x /\ Tail(toPrompter') = << >>
        BY <3>6, Singles
      <3>11. ReadyFor(<< >>)'
        BY <1>3, <3>7, <3>8, <3>9, <3>10 DEF ReadyFor
      <3>12. Resting'
        BY <2>1, <3>3, <3>4, <3>11 DEF Resting
      <3>13. QED
        BY <3>12 DEF Phase
    <2>8. \A q \in Op : pending = q /\ Asking(q) /\ ~ops'[q].cancelled /\ Valid(q)
                            => pending' = q
      <3> SUFFICES ASSUME NEW q \in Op, pending = q, Asking(q), Valid(q) PROVE FALSE
        OBVIOUS
      <3>1. pending > 0 /\ Valid(pending)
        BY DEF Valid
      <3>2. Live
        BY <1>1, <3>1, ValidIsLive
      <3>3. toPrompter = << >> /\ (me \in callbacks => Server.calls > 0)
        BY <1>5, <3>2
      <3>4. ~(Server.ops > 0)
        BY <1>1, <3>3, OneCompletion, TablesSound, MeAssumption DEF Sound
      <3>5. Len(toPrompter) = 0
        BY <3>3
      <3>6. QED
        BY <3>4, <3>5 DEF Asking
    <2>9. \A q \in Op \ {0} :
              \/ ops'[q].results = ops[q].results
              \/ \E said : /\ ops'[q].results = Append(ops[q].results, said)
                           /\ said \in {"yes", "no"} /\ ~ops'[q].cancelled /\ Valid(q) =>
                                  said = answers[q]
      <3> TAKE q \in Op \ {0}
      <3>1. CASE q # pending
        BY <2>1, <3>1
      <3>2. CASE q = pending
        <4>1. Valid(pending) => answer = answers[pending]
          <5>1. Valid(pending) => pending > 0
            BY DEF Valid
          <5>2. Valid(pending) => Live
            BY <1>1, <5>1, ValidIsLive
          <5>3. QED
            BY <1>5, <5>1, <5>2
        <4>2. QED
          BY <2>2, <3>2, <4>1
      <3>3. QED
        BY <3>1, <3>2
    <2>10. x.prompt \in Prompt
      BY <1>2, <2>4
    <2> HIDE DEF x
    <2>11. QED
      BY <1>4, <2>1, <2>4, <2>5, <2>7, <2>8, <2>9, <2>10, CallerMoves
  <1>8. QED
    BY <1>6, <1>7

\* A message that nobody is there for.
LEMMA MissesKeeps ==
    ASSUME SystemInv, NEW i \in 1 .. Len(toClient), ClientMisses(i)
    PROVE  SystemInv'
  <1> DEFINE m == toClient[i]
             x == ToPrompter("NoObject", NoOp, m.prompt)
  <1>1. IInv /\ CallerSound /\ BusOK /\ Phased /\ Tuned
    BY DEF SystemInv, CallerSound
  <1>2. /\ ClientStep /\ CallerKeeps /\ toClient' = RemoveAt(toClient, i)
        /\ Deliverable(i)
        /\ \/ Lane(m) \in {"none", "dead"}
           \/ m.arg \in {"Begin", "Perform"} /\ ops[m.op].call # m.arg
           \/ m.msg = "Name" /\ ~Client!Alive(m.op)
    BY DEF ClientMisses, CallerKeeps
  <1>3. \/ toPrompter' = toPrompter
        \/ m.msg = "Ready" /\ toPrompter' = Append(toPrompter, x)
    BY OpFacts DEF ClientMisses
  <1>4. /\ Server' = Server /\ active' = active /\ callbacks' = callbacks
        /\ asked' = asked /\ answers' = answers
    BY <1>1, <1>2, StillServer
  <1>5. /\ CallerSound' /\ (Live' <=> Live) /\ ops' = ops /\ pending' = pending
        /\ (Opened' <=> Opened) /\ (Started(0)' <=> Started(0))
    BY <1>1, <1>2, CallerStays DEF CallerKeeps
  <1>6. Onward /\ NothingSaid
    BY <1>5 DEF Onward, NothingSaid
  <1>7. /\ Heard /\ StillSaid
        /\ \/ m.msg = "Ready"
           \/ m.msg = "Return" /\ Waits(m.op) /\ ops[m.op].call = m.arg
           \/ StillThere
    BY <1>1, <1>2, Removed
  <1>8. m \in ClientMessage /\ ClientMessageOK(m)
    BY <1>1 DEF BusOK
  <1>9. ASSUME Live, m.msg = "Ready" PROVE FALSE
    <2>1. Phase /\ ~closed
      BY <1>1, <1>9 DEF Phased, Live
    <2>2. pending = 0 \/ pending > 0
      BY <1>1, <1>2, <1>9, <2>1, ReadyMeans
    <2>3. pending \in Op
      BY <1>1, <2>2, CallerFacts, OpFacts
    <2>4. context \in {"main", "run"}
      BY <1>1, <2>1, <2>3 DEF Tuned, Waits
    <2>5. Lane(m) = context
      BY <1>9 DEF Lane
    <2>6. m.arg \in {"none", "yes", "no"}
      BY <1>8, <1>9 DEF ClientMessageOK
    <2>7. QED
      BY <1>2, <1>9, <2>4, <2>5, <2>6
  <1>10. ASSUME Live, m.msg = "Return", Waits(m.op), ops[m.op].call = m.arg PROVE FALSE
    <2>1. m.op \in Op /\ ~closed
      BY <1>8, <1>10, OpFacts DEF ClientMessageOK, Live
    <2>2. Lane(m) = context /\ context \in {"main", "run"}
      BY <1>1, <1>10, <2>1, SameLane
    <2>3. QED
      BY <1>2, <1>10, <2>2
  <1>11. Live' => Phase'
    <2>1. SUFFICES ASSUME Live PROVE Phase'
      BY <1>5
    <2>2. StillThere /\ toPrompter' = toPrompter /\ Phase
      BY <1>1, <1>3, <1>7, <1>9, <1>10, <2>1 DEF Phased
    <2>3. QED
      BY <1>1, <1>4, <1>5, <1>7, <2>2, PhaseStays
  <1>12. CASE toPrompter' = toPrompter
    BY <1>2, <1>5, <1>6, <1>7, <1>11, <1>12, QuietMoves
  <1>13. CASE m.msg = "Ready" /\ toPrompter' = Append(toPrompter, x)
    <2>1. m.prompt \in Prompt
      BY <1>8, <1>13 DEF ClientMessageOK
    <2>2. x \in PrompterMessage /\ x.msg = "NoObject" /\ x.prompt \in Prompt
      BY <2>1, OpFacts DEF ToPrompter, PrompterMessage
    <2> HIDE DEF x
    <2>3. toPrompter' = toPrompter \o <<x>>
      <3>1. toPrompter \in Seq(PrompterMessage)
        BY <1>1 DEF BusOK
      <3>2. QED
        BY SMTT(30), <1>13, <2>2, <3>1
    <2>4. \A q \in Op \ {0} : ops'[q].results = ops[q].results
      BY <1>5
    <2> HIDE DEF m
    <2>5. QED
      BY <1>2, <1>5, <1>6, <1>7, <1>11, <2>2, <2>3, <2>4, CallerMoves
  <1>14. QED
    BY <1>3, <1>12, <1>13

\* A function of the library is called.
LEMMA ClientActsKeeps ==
    ASSUME SystemInv, up \in BOOLEAN, ClientActs
    PROVE  SystemInv'
  <1>1. /\ ClientStep /\ Sending(None) /\ Heard /\ StillSaid /\ StillThere
        /\ CallerSound
    BY Watched DEF SystemInv, ClientActs
  <1>2. \/ \E style \in Styles : Client!Open(style)
        \/ \E o \in Op, style \in Styles : Client!Perform(o, style)
        \/ \E o \in Op : Client!Cancel(o)
        \/ Client!Close
    BY DEF ClientActs
  <1>3. CASE \E style \in Styles : Client!Open(style)
    BY <1>1, <1>3, OpenKeeps
  <1>4. CASE \E o \in Op, style \in Styles : Client!Perform(o, style)
    BY <1>1, <1>4, AskKeeps
  <1>5. CASE \E o \in Op : Client!Cancel(o)
    BY <1>1, <1>5, CancelKeeps
  <1>6. CASE Client!Close
    <2>1. Closing
      BY <1>1, <1>6, CloseSound
    <2>2. QED
      BY <1>1, <2>1, ClosingKeeps
  <1>7. QED
    BY <1>2, <1>3, <1>4, <1>5, <1>6

\* The main loop of the caller dispatches a source of its own.
LEMMA ClientDispatchesKeeps ==
    ASSUME SystemInv, up \in BOOLEAN, ClientDispatches
    PROVE  SystemInv'
  <1>1. /\ ClientStep /\ Sending(None) /\ Heard /\ StillSaid /\ StillThere
        /\ CallerSound
    BY Watched DEF SystemInv, ClientDispatches
  <1>2. \/ \E ok \in BOOLEAN : Client!BusConnected(ok)
        \/ Client!CallTimeout \/ \E o \in Op : Client!CallCancelled(o)
        \/ Client!BeginReturns(FALSE)
        \/ \E o \in Op : Client!IdleCompletes(o)
        \/ \E o \in Op : ops[o].aborted /\ Client!PerformReturns(o, FALSE)
    BY DEF ClientDispatches
  <1>3. CASE \E ok \in BOOLEAN : Client!BusConnected(ok)
    BY <1>1, <1>3, BusConnectedKeeps
  <1>4. CASE Client!CallTimeout \/ \E o \in Op : Client!CallCancelled(o)
    <2>1. Closing
      BY <1>1, <1>4, CallTimeoutSound, CallCancelledSound
    <2>2. QED
      BY <1>1, <2>1, ClosingKeeps
  <1>5. CASE Client!BeginReturns(FALSE)
    BY <1>1, <1>5, BeginReturnsKeeps
  <1>6. CASE \E o \in Op : Client!IdleCompletes(o)
    BY <1>1, <1>6, IdleCompletesKeeps
  <1>7. CASE \E o \in Op : ops[o].aborted /\ Client!PerformReturns(o, FALSE)
    BY <1>1, <1>7, PerformReturnsKeeps
  <1>8. QED
    BY <1>2, <1>3, <1>4, <1>5, <1>6, <1>7

\* A message of the prompter or of the bus is dispatched.
LEMMA ClientReceivesKeeps ==
    ASSUME SystemInv, NEW i \in 1 .. Len(toClient), ClientReceives(i)
    PROVE  SystemInv'
  <1> DEFINE m == toClient[i]
  <1>1. /\ ClientStep /\ Sending(m.prompt) /\ Deliverable(i)
        /\ toClient' = RemoveAt(toClient, i)
        /\ \/ m.msg = "Ready" /\ Client!ReadyCalled(m.arg)
           \/ m.msg = "Done" /\ Client!DoneCalled
           \/ /\ m.arg = "Begin" /\ Client!BeginReturns(m.msg = "Return")
           \/ /\ m.arg = "Perform" /\ Client!PerformReturns(m.op, m.msg = "Return")
           \/ /\ m.msg = "Name" /\ Client!Alive(m.op)
              /\ Client!PrompterPresent \/ Client!PrompterVanished(m.op)
    BY DEF ClientReceives
  <1>2. BusOK /\ CallerSound
    BY DEF SystemInv
  <1>3. m \in ClientMessage /\ ClientMessageOK(m)
    BY <1>2 DEF BusOK
  <1>4. m.prompt \in Prompt \union {None} /\ (m.msg = "Return") \in BOOLEAN
        /\ m.msg \in {"Ready", "Done", "Return", "Failed", "Name"}
    BY <1>3 DEF ClientMessage
  <1>5. /\ Heard /\ StillSaid
        /\ m.msg # "Ready" => \A q : HasReady(toClient, q) => HasReady(toClient', q)
    BY <1>1, <1>2, Removed
  <1>6. CASE m.msg = "Ready" /\ Client!ReadyCalled(m.arg)
    BY <1>1, <1>6, ReadyCalledKeeps
  <1>7. CASE m.msg = "Done" /\ Client!DoneCalled
    <2>1. Closing
      BY <1>2, <1>7, CloseSound
    <2>2. QED
      BY <1>1, <1>4, <1>5, <2>1, ClosingKeeps
  <1>8. CASE m.arg = "Begin" /\ Client!BeginReturns(m.msg = "Return")
    <2> DEFINE ok == m.msg = "Return"
    <2>1. m.msg # "Ready"
      BY <1>3, <1>8 DEF ClientMessageOK
    <2>2. ok => /\ \E j \in 1 .. Len(toClient) : toClient[j].msg = "Return"
                /\ \A q : HasReady(toClient, q) => HasReady(toClient', q)
      BY <1>5, <2>1
    <2>3. ok \in BOOLEAN /\ Client!BeginReturns(ok)
      BY <1>8
    <2> HIDE DEF ok, m
    <2>4. QED
      BY <1>1, <1>5, <2>2, <2>3, BeginReturnsKeeps
  <1>9. CASE m.arg = "Perform" /\ Client!PerformReturns(m.op, m.msg = "Return")
    <2> DEFINE ok == m.msg = "Return"
               o == m.op
    <2>1. m.msg # "Ready" /\ o \in Op
      BY <1>3, <1>4, <1>9 DEF ClientMessageOK
    <2>2. /\ \E j \in 1 .. Len(toClient) :
                /\ toClient[j].arg = "Perform" /\ toClient[j].op = o
                /\ ~ok => toClient[j].msg # "Return"
          /\ \A q : HasReady(toClient, q) => HasReady(toClient', q)
      BY <1>5, <1>9, <2>1
    <2>3. ok \in BOOLEAN /\ Client!PerformReturns(o, ok)
      BY <1>9
    <2> HIDE DEF ok, o, m
    <2>4. QED
      BY <1>1, <1>5, <2>1, <2>2, <2>3, PerformReturnsKeeps
  <1>10. CASE /\ m.msg = "Name" /\ Client!Alive(m.op)
              /\ Client!PrompterPresent \/ Client!PrompterVanished(m.op)
    <2>1. m.op \in Op
      BY <1>3, <1>10 DEF ClientMessageOK
    <2>2. StillThere
      BY <1>1, <1>2, <1>10, Removed
    <2>3. QED
      BY <1>1, <1>5, <1>10, <2>1, <2>2, PresenceKeeps
  <1>11. QED
    BY <1>1, <1>6, <1>7, <1>8, <1>9, <1>10

-----------------------------------------------------------------------------
(* The invariant holds.                                                    *)

LEMMA SystemStarts == SystemInit => SystemInv /\ up \in BOOLEAN
  <1> SUFFICES ASSUME SystemInit PROVE SystemInv /\ up \in BOOLEAN
    OBVIOUS
  <1>1. IInv /\ active = [c \in Callback |-> None] /\ callbacks = {}
    BY InitIInv DEF SystemInit, Init
  <1>2. /\ closed = FALSE /\ context = "none" /\ response = "null"
        /\ pending = NoOp /\ running = NoOp /\ ops = [o \in Op |-> Client!UnusedOp]
        /\ toPrompter = << >> /\ toClient = << >> /\ up = FALSE
        /\ asked = [p \in Prompt |-> 0] /\ answers = [o \in Op |-> "none"]
    BY OpFacts DEF SystemInit, Client!PromptInit, Op, Client!Op
  <1>3. \A o \in Op : ops[o] = Client!UnusedOp
    BY <1>2
  <1>4. \A o \in Op : ~Started(o) /\ ~Finished(o)
    BY <1>3, OpFacts DEF Started, Client!Started, Finished, Client!Finished
  <1>5. CallerSound
    <2>1. ClientOK
      BY <1>2, OpFacts DEF ClientOK
    <2>2. OpsSound
      <3>1. \A o \in Op : OpSound(o)
        BY <1>3, <1>4, OpFacts DEF OpSound
      <3>2. PendingSound
        BY <1>2, OpFacts DEF PendingSound
      <3>3. OpeningSound
        BY <1>3, OpFacts DEF OpeningSound
      <3>4. QED
        BY <3>1, <3>2, <3>3 DEF OpsSound
    <2>3. Tuned
      BY <1>2, <1>3, OpFacts DEF Tuned, Waits
    <2>4. Cared /\ OneCall
      BY <1>2, <1>4, OpFacts DEF Cared, OneCall
    <2>5. QED
      BY <2>1, <2>2, <2>3, <2>4 DEF CallerSound
  <1>6. Len(toClient) = 0 /\ Len(toPrompter) = 0
    BY <1>2
  <1>7. BusOK
    <2>1. toClient \in Seq(ClientMessage) /\ toPrompter \in Seq(PrompterMessage)
      BY <1>2
    <2>2. asked \in [Prompt -> Op] /\ answers \in [Op -> {"none", "yes", "no"}]
      BY <1>2, OpFacts
    <2>3. QED
      BY <1>6, <2>1, <2>2 DEF BusOK
  <1>8. Phased
    <2>1. Unasked
      BY <1>1, <1>2, <1>4, <1>6, OpFacts DEF Unasked, OnlyNames
    <2>2. QED
      BY <2>1 DEF Phased, Phase
  <1>9. AskedIsPending
    <2>1. active[me] = None
      BY <1>1, MeAssumption
    <2>2. ~(Server.ops > 0)
      BY <1>1, <2>1, OneCompletion
    <2>3. QED
      BY <1>6, <2>2 DEF AskedIsPending
  <1>10. OwnAnswers /\ AskedOnce
    <2>1. OwnAnswers
      BY <1>3, OpFacts DEF OwnAnswers
    <2>2. ~(Server.ops > 0)
      BY <1>1, MeAssumption, OneCompletion
    <2>3. \A o \in Op : answers[o] = "none"
      BY <1>2
    <2>4. QED
      BY <1>6, <2>1, <2>2, <2>3 DEF AskedOnce, OneAsk
  <1>11. QED
    BY <1>1, <1>2, <1>5, <1>7, <1>8, <1>9, <1>10 DEF SystemInv

LEMMA SystemStutters ==
    ASSUME SystemInv, UNCHANGED systemVars
    PROVE  SystemInv'
  <1>1. /\ UNCHANGED vars /\ CallerKeeps /\ toPrompter' = toPrompter
        /\ toClient' = toClient /\ asked' = asked /\ answers' = answers
        /\ pending' = pending /\ ops' = ops
    BY DEF systemVars, clientVars, busVars, CallerKeeps
  <1>2. /\ IInv /\ CallerSound /\ BusOK /\ Phased /\ AskedIsPending /\ AskedOnce /\ OwnAnswers
    BY DEF SystemInv
  <1>3. IInv' /\ callbacks' = callbacks /\ active' = active /\ Tables' = Tables
    BY <1>1, <1>2, StutterIInv DEF vars, Tables, Silence
  <1>4. Server' = Server
    BY <1>3 DEF Server, ServerOf
  <1>5. /\ CallerSound' /\ (Live' <=> Live) /\ (Opened' <=> Opened)
        /\ Started(0)' <=> Started(0)
    BY <1>1, <1>2, CallerStays
  <1>6. BusOK'
    BY <1>1, <1>2 DEF BusOK, ClientMessageOK, PrompterMessageOK, Started, Client!Started,
                      Finished, Client!Finished
  <1>7. StillSaid /\ StillThere
    BY <1>1 DEF StillSaid, StillThere
  <1>8. Phased'
    BY <1>1, <1>2, <1>3, <1>4, <1>5, <1>7, PhaseStays DEF Phased
  <1>9. AskedIsPending'
    BY <1>1, <1>2, <1>3, <1>4 DEF AskedIsPending, Valid, Clean, AbortedBefore
  <1>10. OwnAnswers' /\ AskedOnce'
    <2>1. OwnAnswers'
      BY <1>1, <1>2 DEF OwnAnswers, Clean, AbortedBefore
    <2>2. AskedOnce'
      BY <1>1, <1>2, <1>3, <1>4
         DEF AskedOnce, OneAsk, Asking, NotSent, Started, Client!Started
    <2>3. QED
      BY <2>1, <2>2
  <1>11. QED
    BY <1>3, <1>5, <1>6, <1>8, <1>9, <1>10 DEF SystemInv

\* The invariant of the service and its caller together.
LEMMA SystemKeeps == SystemInv /\ up \in BOOLEAN /\ [SystemNext]_systemVars => SystemInv'
  <1> SUFFICES ASSUME SystemInv, up \in BOOLEAN, [SystemNext]_systemVars PROVE SystemInv'
    OBVIOUS
  <1>1. CASE ServiceCalled
    BY <1>1, ServiceCalledKeeps
  <1>2. CASE CallBounces
    BY <1>2, CallBouncesKeeps
  <1>3. CASE ReadyAnswered
    BY <1>3, ReadyAnsweredKeeps
  <1>4. ASSUME NEW p \in Prompt, NEW ok \in BOOLEAN, ReadyEnds(p, ok) PROVE SystemInv'
    BY <1>4, ReadyEndsKeeps
  <1>5. ASSUME NEW p \in Prompt, NEW answer \in {"yes", "no"}, UserAnswersPrompt(p, answer)
        PROVE  SystemInv'
    BY <1>5, UserAnswersKeeps
  <1>6. ASSUME NEW p \in Prompt, UserClosesPrompt(p) PROVE SystemInv'
    BY <1>6, UserClosesKeeps
  <1>7. ASSUME NEW d \in Others, OtherCaller(d) PROVE SystemInv'
    BY <1>7, OtherCallerKeeps
  <1>8. CASE ServiceQuits
    BY <1>8, ServiceQuitsKeeps
  <1>9. CASE ServiceStarts
    BY <1>9, ServiceStartsKeeps
  <1>10. CASE ServiceExits
    BY <1>10, ServiceExitsKeeps
  <1>11. CASE ClientActs
    BY <1>11, ClientActsKeeps
  <1>12. CASE ClientDispatches
    BY <1>12, ClientDispatchesKeeps
  <1>13. ASSUME NEW i \in 1 .. Len(toClient), ClientReceives(i) PROVE SystemInv'
    BY <1>13, ClientReceivesKeeps
  <1>14. ASSUME NEW i \in 1 .. Len(toClient), ClientMisses(i) PROVE SystemInv'
    BY <1>14, MissesKeeps
  <1>15. CASE UNCHANGED systemVars
    BY <1>15, SystemStutters
  <1>16. QED
    BY <1>1, <1>2, <1>3, <1>4, <1>5, <1>6, <1>7, <1>8, <1>9, <1>10, <1>11, <1>12, <1>13,
       <1>14, <1>15 DEF SystemNext

\* Whether the prompter runs is only ever true or false.
LEMMA UpKeeps == up \in BOOLEAN /\ [SystemNext]_systemVars => up' \in BOOLEAN
  <1> SUFFICES ASSUME up \in BOOLEAN, [SystemNext]_systemVars PROVE up' \in BOOLEAN
    OBVIOUS
  <1>1. ASSUME NEW o, ServiceStep(o) PROVE up' \in BOOLEAN
    BY <1>1 DEF ServiceStep
  <1>2. CASE ServiceCalled \/ CallBounces \/ ReadyAnswered
    BY <1>1, <1>2 DEF ServiceCalled, CallBounces, ReadyAnswered
  <1>3. CASE \E p \in Prompt : \/ \E ok \in BOOLEAN : ReadyEnds(p, ok)
                             \/ \E answer \in {"yes", "no"} : UserAnswersPrompt(p, answer)
                             \/ UserClosesPrompt(p)
    BY <1>1, <1>3 DEF ReadyEnds, UserAnswersPrompt, UserClosesPrompt
  <1>4. CASE ServiceQuits \/ ServiceStarts \/ ServiceExits \/ \E d \in Others : OtherCaller(d)
    BY <1>1, <1>4 DEF ServiceQuits, ServiceStarts, ServiceExits, OtherCaller
  <1>5. CASE ClientActs \/ ClientDispatches
             \/ \E i \in 1 .. Len(toClient) : ClientReceives(i) \/ ClientMisses(i)
    <2>1. ClientStep
      BY <1>5 DEF ClientActs, ClientDispatches, ClientReceives, ClientMisses
    <2>2. QED
      BY <2>1 DEF ClientStep
  <1>6. CASE UNCHANGED systemVars
    BY <1>6 DEF systemVars, busVars
  <1>7. QED
    BY <1>2, <1>3, <1>4, <1>5, <1>6 DEF SystemNext

-----------------------------------------------------------------------------
(* The theorems.                                                           *)

Together == SystemInv /\ up \in BOOLEAN

\* The service and its caller fit together: in every state reached, what is on
\* its way between them is what the caller waits for, or the caller has closed
\* the prompt or given up a question (gcr-system-prompt.c, gcr-system-prompter.c).
THEOREM SystemInvariant == SystemSpec => []Together
  <1>1. SystemInit => Together
    BY SystemStarts DEF Together
  <1>2. Together /\ [SystemNext]_systemVars => Together'
    BY SystemKeeps, UpKeeps DEF Together
  <1>3. QED
    BY <1>1, <1>2, PTL DEF SystemSpec

\* Nobody is forgotten: an operation that is started and not finished is pending,
\* or has its call in flight, or is scheduled to complete, whatever is closed,
\* cancelled, lost or restarted, as long as no question before it is given up.
THEOREM NobodyForgotten == SystemSpec => []NobodyIsForgotten
  <1>1. ASSUME SystemInv PROVE NobodyIsForgotten
    <2>1. Cared
      BY <1>1 DEF SystemInv, CallerSound
    <2>2. QED
      BY <2>1 DEF Cared, Clean, NobodyIsForgotten, Started, Finished
  <1>2. Together => NobodyIsForgotten
    BY <1>1 DEF Together
  <1>3. QED
    BY <1>2, SystemInvariant, PTL

-----------------------------------------------------------------------------
(* What is heard.                                                          *)

\* A question that is told nothing, an error, or the last response that was
\* scheduled for it.
Mild(q) ==
    /\ ops[q].aborted => ops'[q].aborted
    /\ ops'[q].idle > 0 => ops[q].idle > 0 \/ pending = q \/ ~Started(q)
    /\ pending' = q => ops'[q].error = ops[q].error /\ (pending = q \/ ~Started(q))
    /\ \/ ops'[q].results = ops[q].results
       \/ \E said \in Words : /\ ops'[q].results = Append(ops[q].results, said)
                              /\ said \in {"yes", "no"} => said = response /\ ops[q].idle > 0
Gentle ==
    /\ answers' = answers /\ response' \in {response, "none"}
    /\ \A q \in Op \ {0} : Mild(q)

\* What was heard stays heard, and what is new is the last response.
LEMMA MildHears ==
    ASSUME CallerSound, NEW q \in Op \ {0}, Mild(q), NEW word
    PROVE  /\ Hears(q, word) => Hears(q, word)'
           /\ Finished(q) => Finished(q)'
           /\ Hears(q, word)' /\ ~Hears(q, word) /\ word \in {"yes", "no"} =>
                  word = response /\ ops[q].idle > 0
  <1>1. ops[q].results \in Seq(Words)
    BY CallerFacts DEF Client!OpRecord, Words
  <1>2. CASE ops'[q].results = ops[q].results
    BY <1>2 DEF Hears, Finished, Client!Finished
  <1>3. ASSUME NEW said \in Words, ops'[q].results = Append(ops[q].results, said),
               said \in {"yes", "no"} => said = response /\ ops[q].idle > 0
        PROVE  /\ Hears(q, word) => Hears(q, word)'
               /\ Finished(q)'
               /\ Hears(q, word)' /\ ~Hears(q, word) /\ word \in {"yes", "no"} =>
                      word = response /\ ops[q].idle > 0
    <2> DEFINE l == ops[q].results
    <2>0. l \in Seq(Words)
      BY <1>1
    <2> HIDE DEF l
    <2>1. Says(Append(l, said), word) <=> Says(l, word) \/ said = word
      BY <2>0, MoreSaid
    <2>2. ops'[q].results = Append(l, said) /\ Append(l, said) # << >>
      BY <1>3, <2>0 DEF l
    <2> USE DEF l
    <2>3. QED
      BY <1>3, <2>1, <2>2 DEF Says, Hears, Finished, Client!Finished
  <1>4. QED
    BY <1>2, <1>3 DEF Mild

LEMMA GentleHeard ==
    ASSUME CallerSound, OwnAnswers', ops' \in [Op -> Client!OpRecord],
           pending' \in Op \union {NoOp}, HeardInv, Gentle
    PROVE  HeardInv'
  <1>1. /\ \A q \in Op \ {0} : Mild(q) /\ OpSound(q)
        /\ answers' = answers /\ response' \in {response, "none"}
        /\ PendingSound
    BY DEF Gentle, CallerSound, OpsSound
  <1>2. \A q \in Op \ {0} : \A word : Hears(q, word) => Hears(q, word)'
    BY <1>1, MildHears
  <1>3. \A q \in Op \ {0} : \A p \in 1 .. q - 1 : p \in Op \ {0}
    BY OpFacts
  <1>4. \A q \in Op \ {0} : \A word : Remembers(q, word) => Remembers(q, word)'
    BY <1>2, <1>3 DEF Remembers
  <1>5. \A q \in Op \ {0} : GivenUp(q) => GivenUp(q)'
    BY <1>1, <1>3 DEF GivenUp, AbortedBefore, Mild
  <1>6. ASSUME NEW q \in Op \ {0}, Owed(q)' PROVE Owed(q) \/ ~Started(q)
    <2>1. SUFFICES ASSUME Started(q) PROVE ~Finished(q) \/ ops[q].idle > 0
      BY <1>5, <1>6 DEF Owed
    <2>2. Finished(q) => Finished(q)'
      BY <1>1, MildHears
    <2>3. QED
      BY <1>1, <1>6, <2>1, <2>2, OpFacts DEF Owed, Mild, PendingSound
  <1>7. ASSUME NEW q \in Op \ {0}, ~Started(q), NEW p \in Op \ {0}, NEW word, Hears(p, word)
        PROVE  Remembers(q, word)
    <2>1. Finished(p)
      <3>1. ops[p].results \in Seq(Words)
        BY CallerFacts DEF Client!OpRecord, Words
      <3>2. QED
        BY <1>7, <3>1 DEF Hears, Finished, Client!Finished
    <2>2. Started(p)
      BY <2>1, CallerFacts
    <2>3. ~(q \in 0 .. p - 1) /\ p # q
      <3>1. p > 0 /\ OpSound(p)
        BY <1>1, OpFacts
      <3>2. \A r \in 0 .. p - 1 : Started(r)
        BY <2>2, <3>1 DEF OpSound
      <3>3. QED
        BY <1>7, <2>2, <3>2
    <2>4. p \in 1 .. q - 1
      BY <2>3, OpFacts
    <2>5. QED
      BY <1>7, <2>4 DEF Remembers
  <1>8. ResponseHeard'
    <2>1. SUFFICES ASSUME response' \in {"yes", "no"}
                   PROVE  /\ \E p \in Op \ {0} : Hears(p, response)'
                          /\ \A q \in Op \ {0} : Owed(q)' => Remembers(q, response)'
      BY DEF ResponseHeard
    <2>2. response' = response
      BY <1>1, <2>1
    <2>3. PICK p \in Op \ {0} : Hears(p, response)
      BY <2>1, <2>2 DEF HeardInv, ResponseHeard
    <2>4. Hears(p, response)'
      BY <1>2, <2>2, <2>3 DEF Hears
    <2>5. ASSUME NEW q \in Op \ {0}, Owed(q)' PROVE Remembers(q, response)
      <3>1. CASE Owed(q)
        BY <2>1, <2>2, <3>1 DEF HeardInv, ResponseHeard
      <3>2. CASE ~Started(q)
        BY <1>7, <2>3, <3>2
      <3>3. QED
        BY <1>6, <2>5, <3>1, <3>2
    <2>6. \A q \in Op \ {0} : \A word : word = response /\ Remembers(q, word) => Remembers(q, word)'
      BY <1>4
    <2>7. QED
      BY <2>2, <2>4, <2>5, <2>6 DEF Remembers, Hears
  <1>9. PendingWell'
    <2>1. SUFFICES ASSUME pending' > 0 PROVE ops'[pending'].error = "none"
      BY DEF PendingWell
    <2>2. PICK q \in Op \ {0} : pending' = q
      BY <2>1, OpFacts
    <2>3. ops'[q].error = ops[q].error /\ (pending = q \/ ~Started(q))
      BY <1>1, <2>2 DEF Mild
    <2>4. ops[q].error = "none"
      BY <1>1, <2>1, <2>2, <2>3, OpFacts DEF OpSound, HeardInv, PendingWell
    <2>5. QED
      BY <2>2, <2>3, <2>4
  <1>10. AnswersAreTheUsers'
    <2>1. SUFFICES ASSUME NEW q \in Op \ {0}, ~GivenUp(q)', NEW word \in {"yes", "no"},
                          Hears(q, word)', word # answers'[q]
                   PROVE  ops'[q].cancelled /\ Remembers(q, word)'
      BY DEF AnswersAreTheUsers, Remembers, Hears
    <2>2. ops'[q].cancelled
      <3>1. Clean(q)'
        BY <2>1 DEF GivenUp, Clean
      <3>2. QED
        BY <2>1, <3>1 DEF OwnAnswers, Hears
    <2>3. Remembers(q, word)
      <3>1. CASE Hears(q, word)
        BY <1>1, <1>5, <2>1, <3>1 DEF HeardInv, AnswersAreTheUsers, Remembers
      <3>2. CASE ~Hears(q, word)
        <4>1. word = response /\ ops[q].idle > 0
          BY <1>1, <2>1, <3>2, MildHears
        <4>2. Owed(q)
          BY <1>5, <2>1, <4>1, CallerFacts DEF Owed, Client!Alive
        <4>3. QED
          BY <2>1, <4>1, <4>2 DEF HeardInv, ResponseHeard
      <3>3. QED
        BY <3>1, <3>2
    <2>4. QED
      BY <1>4, <2>2, <2>3
  <1>11. QED
    BY <1>8, <1>9, <1>10 DEF HeardInv

\* Steps of the service.  The user answers a question once.
LEMMA ServiceHeard ==
    ASSUME SystemInv, HeardInv, CallerKeeps,
           \A q \in Op : answers[q] = "none" \/ answers'[q] = answers[q]
    PROVE  HeardInv'
  <1>1. UNCHANGED <<response, pending, ops>>
    BY DEF CallerKeeps
  <1>2. ResponseHeard' /\ PendingWell'
    BY <1>1 DEF HeardInv, ResponseHeard, PendingWell, Owed, Started, Client!Started, Finished,
                Client!Finished, GivenUp, AbortedBefore, Remembers, Hears
  <1>3. AnswersAreTheUsers'
    BY <1>1 DEF HeardInv, AnswersAreTheUsers, GivenUp, AbortedBefore, Hears
  <1>4. QED
    BY <1>2, <1>3 DEF HeardInv

LEMMA UserHeardOnce ==
    ASSUME SystemInv, HeardInv, NEW p \in Prompt, NEW answer \in {"yes", "no"},
           UserAnswersPrompt(p, answer)
    PROVE  HeardInv'
  <1>1. IInv /\ BusOK /\ AskedOnce
    BY DEF SystemInv
  <1>2. /\ UserAnswers(p, answer) /\ CallerKeeps
        /\ answers' = IF prompts[p].callback = me
                      THEN [answers EXCEPT ![asked[p]] = answer] ELSE answers
    BY DEF UserAnswersPrompt, ServiceStep, CallerKeeps
  <1>3. prompts[p].callback = me => active[me] = p /\ Server.ops > 0
    BY <1>1, <1>2, AnswersMe
  <1>4. prompts[p].callback = me => asked[p] \in Op /\ answers[asked[p]] = "none"
    BY <1>1, <1>3 DEF AskedOnce, Asking, BusOK
  <1>5. \A q \in Op : answers[q] = "none" \/ answers'[q] = answers[q]
    BY <1>1, <1>2, <1>4 DEF BusOK
  <1>6. QED
    BY <1>2, <1>5, ServiceHeard

\* Steps of the caller.  Most leave all questions but one alone.
LEMMA OneMild ==
    ASSUME CallerSound, ClientStep, NEW o \in Op, NEW new, ops' = [ops EXCEPT ![o] = new],
           response' \in {response, "none"}, o > 0 => Mild(o),
           pending' \in {pending, 0, o, NoOp}
    PROVE  Gentle
  <1>1. answers' = answers /\ \A q \in Op : q # o => ops'[q] = ops[q]
    BY DEF ClientStep, CallerSound, ClientOK
  <1>2. ASSUME NEW q \in Op \ {0} PROVE Mild(q)
    <2>1. CASE q = o
      BY <2>1, OpFacts
    <2>2. CASE q # o
      <3>1. pending' = q => pending = q
        BY <2>2, OpFacts
      <3>2. QED
        BY <1>1, <2>2, <3>1 DEF Mild
    <2>3. QED
      BY <2>1, <2>2
  <1>3. QED
    BY <1>1, <1>2 DEF Gentle

LEMMA ClosingGentle ==
    ASSUME ClientStep, Closing
    PROVE  Gentle
  BY OpFacts DEF ClientStep, Closing, Gentle, Mild, ClosedOp

LEMMA ActsGentle ==
    ASSUME CallerSound, ClientStep, NEW o \in Op,
           \/ \E style \in Styles : Client!Open(style) \/ Client!Perform(o, style)
           \/ Client!Cancel(o) \/ Client!Close
    PROVE  Gentle
  <1>1. ops[o] \in Client!OpRecord /\ ops[o] \in Client!OpRecord /\ OpSound(o)
    BY CallerFacts DEF CallerSound, OpsSound
  <1>2. ASSUME NEW style \in Styles, Client!Open(style) PROVE Gentle
    <2>1. (\E new : ops' = [ops EXCEPT ![0] = new]) /\ UNCHANGED <<response, pending>>
      BY <1>2, OpFacts DEF Client!Open
    <2>2. ~(0 > 0) /\ 0 \in Op
      BY OpFacts
    <2>3. QED
      BY <2>1, <2>2, OneMild
  <1>3. ASSUME NEW style \in Styles, Client!Perform(o, style) PROVE Gentle
    <2> DEFINE new == IF closed THEN [ops[o] EXCEPT !.style = style, !.idle = 1]
                      ELSE [ops[o] EXCEPT !.style = style, !.call = "Perform", !.watch = TRUE]
    <2>1. /\ ops' = [ops EXCEPT ![o] = new] /\ o > 0 /\ ~Started(o)
          /\ response' \in {response, "none"} /\ pending' \in {pending, o}
      BY <1>3 DEF Client!Perform, Started
    <2>2. new.results = ops[o].results /\ new.error = ops[o].error /\ ~ops[o].aborted
      BY <1>1, <2>1, OpFacts DEF Client!OpRecord, OpSound
    <2> HIDE DEF new
    <2>3. ops'[o] = new
      BY <2>1 DEF CallerSound, ClientOK
    <2>4. Mild(o)
      BY <2>1, <2>2, <2>3 DEF Mild
    <2>5. QED
      BY <2>1, <2>4, OneMild
  <1>4. CASE Client!Cancel(o)
    <2> DEFINE new == [ops[o] EXCEPT !.cancelled = TRUE, !.aborted = TRUE]
    <2>1. ops' = [ops EXCEPT ![o] = new] /\ UNCHANGED <<response, pending>>
      BY <1>4 DEF Client!Cancel
    <2>2. /\ new.results = ops[o].results /\ new.error = ops[o].error /\ new.aborted
          /\ new.idle = ops[o].idle
      BY <1>1 DEF Client!OpRecord
    <2> HIDE DEF new
    <2>3. ops'[o] = new
      BY <2>1 DEF CallerSound, ClientOK
    <2>4. Mild(o)
      BY <2>1, <2>2, <2>3 DEF Mild
    <2>5. QED
      BY <2>1, <2>4, OneMild
  <1>5. CASE Client!Close
    BY <1>5, CloseSound, ClosingGentle
  <1>6. QED
    BY <1>2, <1>3, <1>4, <1>5

\* A call of the caller returns, or fails.
LEMMA ReturnsGentle ==
    ASSUME CallerSound, ClientStep, NEW o \in Op, NEW ok \in BOOLEAN,
           Client!BusConnected(ok) \/ Client!BeginReturns(ok) \/ Client!PerformReturns(o, ok)
    PROVE  Gentle
  <1>1. /\ ops[o] \in Client!OpRecord /\ response \in {"null", "none", "yes", "no"}
        /\ ops[o].aborted \in BOOLEAN
    BY CallerFacts DEF CallerSound, ClientOK, Client!OpRecord
  <1>2. CASE Client!BusConnected(ok) \/ Client!BeginReturns(ok)
    <2>1. (\E new : ops' = [ops EXCEPT ![0] = new]) /\ response' = response
          /\ pending' \in {pending, 0}
      BY <1>2 DEF Client!BusConnected, Client!BeginReturns
    <2>2. ~(0 > 0) /\ 0 \in Op
      BY OpFacts
    <2>3. QED
      BY <2>1, <2>2, OneMild
  <1>3. CASE Client!PerformReturns(o, ok)
    <2>1. o > 0 /\ ops[o].call = "Perform" /\ response' = response
          /\ pending' \in {pending, NoOp}
      BY <1>3, OpFacts DEF Client!PerformReturns
    <2>2. Started(o)
      BY <2>1, CallerFacts DEF Client!Alive
    <2>3. CASE ok /\ ~ops[o].aborted
      <3> DEFINE new == Client!Await(ops[o])
      <3>1. ops' = [ops EXCEPT ![o] = new] /\ pending' = pending
        BY <1>3, <2>3 DEF Client!PerformReturns
      <3>2. /\ new.results = ops[o].results /\ new.error = ops[o].error
            /\ new.idle = ops[o].idle /\ new.aborted = ops[o].aborted
        BY <1>1, AwaitIs
      <3> HIDE DEF new
      <3>3. ops'[o] = new
        BY <3>1 DEF CallerSound, ClientOK
      <3>4. Mild(o)
        BY <3>1, <3>2, <3>3 DEF Mild
      <3>5. QED
        BY <2>1, <3>1, <3>4, OneMild
    <2>4. CASE ~(ok /\ ~ops[o].aborted)
      <3> DEFINE a == ops[o].aborted
                 full == Client!Complete(Client!Failure(ops[o], a), response)
                 leak == (pending = o)
                 new == [full EXCEPT !.leaked = leak]
      <3>1. ops' = [ops EXCEPT ![o] = new] /\ pending' = NoOp
        BY <1>3, <2>4, OpFacts DEF Client!PerformReturns
      <3>2. /\ full \in Client!OpRecord /\ FinishedOp(ops[o], full) /\ full.idle = ops[o].idle
            /\ \E said \in {"cancelled", "failed"} : full.results = Append(ops[o].results, said)
        <4>1. a \in BOOLEAN /\ ops[o].style # "unused"
          BY <1>1, <2>2 DEF Started, Client!Started
        <4>2. PICK op : op = ops[o]
          OBVIOUS
        <4>3. op \in Client!OpRecord /\ op.style # "unused"
          BY <1>1, <4>1, <4>2
        <4> HIDE DEF a
        <4>4. PICK m : m = Client!Complete(Client!Failure(op, a), response)
          OBVIOUS
        <4>5. /\ m \in Client!OpRecord /\ FinishedOp(op, m) /\ m.idle = op.idle
              /\ \E said \in {"cancelled", "failed"} : m.results = Append(op.results, said)
          BY <1>1, <4>1, <4>3, <4>4, FailedOp
        <4>6. QED
          BY <4>2, <4>4, <4>5
      <3> HIDE DEF full, leak
      <3>3. /\ new.results = full.results /\ new.idle = full.idle
            /\ new.aborted = full.aborted
        BY <3>2 DEF Client!OpRecord
      <3> HIDE DEF new
      <3>4. ops'[o] = new
        BY <3>1 DEF CallerSound, ClientOK
      <3>5. \E said \in Words : /\ ops'[o].results = Append(ops[o].results, said)
                                /\ said \in {"yes", "no"} => said = response /\ ops[o].idle > 0
        BY <3>2, <3>3, <3>4 DEF Words
      <3>6. Mild(o)
        BY <3>1, <3>2, <3>3, <3>4, <3>5, OpFacts DEF Mild, FinishedOp
      <3>7. QED
        BY <2>1, <3>1, <3>6, OneMild
    <2>5. QED
      BY <2>3, <2>4
  <1>4. QED
    BY <1>2, <1>3

\* A completion that was scheduled is dispatched, or the prompter comes or goes.
LEMMA IdleGentle ==
    ASSUME CallerSound, ClientStep, NEW o \in Op, Client!IdleCompletes(o)
    PROVE  Gentle
  <1> DEFINE op == [ops[o] EXCEPT !.idle = @ - 1]
             new == Client!Complete(op, response)
             said == IF op.error = "none" THEN response ELSE op.error
  <1>1. /\ ops[o] \in Client!OpRecord /\ ops[o].idle > 0
        /\ response \in {"null", "none", "yes", "no"} /\ UNCHANGED <<response, pending>>
        /\ ops' = [ops EXCEPT ![o] = new]
    BY CallerFacts DEF Client!IdleCompletes, Client!IdleReady, CallerSound, ClientOK
  <1>2. /\ op \in Client!OpRecord /\ op.aborted = ops[o].aborted
        /\ op.idle = ops[o].idle - 1 /\ op.results = ops[o].results
        /\ op.error = ops[o].error
        /\ op.error \in {"none", "cancelled", "progress", "failed"}
    <2>1. ops[o].idle - 1 \in Nat
      BY <1>1 DEF Client!OpRecord
    <2>2. QED
      BY <1>1, <2>1 DEF Client!OpRecord
  <1> HIDE DEF op
  <1>3. /\ new \in Client!OpRecord
        /\ new = [op EXCEPT !.results = Append(op.results, said)]
        /\ new.results = Append(op.results, said)
    BY <1>1, <1>2, CompleteIs
  <1>4. said \in Words /\ (said \in {"yes", "no"} => said = response)
    BY <1>1, <1>2 DEF Words
  <1> HIDE DEF new, said
  <1>5. new.aborted = op.aborted /\ new.error = op.error /\ new.idle = op.idle
    BY <1>2, <1>3 DEF Client!OpRecord
  <1>6. ops'[o] = new
    BY <1>1 DEF CallerSound, ClientOK
  <1>7. \E word \in Words : /\ ops'[o].results = Append(ops[o].results, word)
                            /\ word \in {"yes", "no"} => word = response /\ ops[o].idle > 0
    <2>1. ops'[o].results = Append(ops[o].results, said)
      BY <1>2, <1>3, <1>6
    <2>2. QED
      BY <1>1, <1>4, <2>1
  <1>8. Mild(o)
    <2>1. ops'[o].error = ops[o].error /\ (ops[o].aborted => ops'[o].aborted)
      BY <1>2, <1>5, <1>6
    <2>2. QED
      BY <1>1, <1>7, <2>1 DEF Mild
  <1>9. QED
    BY <1>1, <1>8, OneMild

LEMMA PresenceGentle ==
    ASSUME CallerSound, ClientStep, NEW o \in Op,
           Client!PrompterPresent \/ Client!PrompterVanished(o)
    PROVE  Gentle
  <1>1. UNCHANGED <<response, pending>> /\ answers' = answers
    BY DEF Client!PrompterPresent, Client!PrompterVanished, ClientStep
  <1>2. CASE ops' = ops
    BY <1>1, <1>2 DEF Gentle, Mild
  <1>3. CASE ops' # ops
    <2> DEFINE new == [ops[o] EXCEPT !.cancelled = TRUE]
    <2>1. ops' = [ops EXCEPT ![o] = new]
      BY <1>3 DEF Client!PrompterPresent, Client!PrompterVanished
    <2>2. /\ new.results = ops[o].results /\ new.error = ops[o].error
          /\ new.idle = ops[o].idle /\ new.aborted = ops[o].aborted
      BY CallerFacts DEF Client!OpRecord
    <2> HIDE DEF new
    <2>3. ops'[o] = new
      BY <2>1 DEF CallerSound, ClientOK
    <2>4. Mild(o)
      BY <1>1, <2>2, <2>3 DEF Mild
    <2>5. QED
      BY <1>1, <2>1, <2>4, OneMild
  <1>4. QED
    BY <1>2, <1>3

\* An answer comes in.  A question that is still owed one is the one that is pending.
LEMMA ReadyHeard ==
    ASSUME SystemInv, SystemInv', HeardInv, ClientStep, NEW i \in 1 .. Len(toClient),
           toClient[i].msg = "Ready", Deliverable(i), Client!ReadyCalled(toClient[i].arg)
    PROVE  HeardInv'
  <1>1. /\ IInv /\ CallerSound /\ BusOK /\ Phased /\ Cared /\ PendingSound
        /\ \A q \in Op : OpSound(q) /\ ops[q] \in Client!OpRecord
        /\ pending \in Op \union {NoOp}
    BY CallerFacts DEF SystemInv, CallerSound, OpsSound, ClientOK
  <1>2. /\ CallerSound' /\ ops' \in [Op -> Client!OpRecord] /\ pending' \in Op \union {NoOp}
        /\ OwnAnswers'
    BY DEF SystemInv, CallerSound, ClientOK
  <1>3. PICK answer : answer = toClient[i].arg
    OBVIOUS
  <1>4. /\ answer \in {"none", "yes", "no"} /\ Client!ReadyCalled(answer)
        /\ answer # "none" => Finished(0)
    BY <1>1, <1>3 DEF BusOK, ClientMessageOK
  <1>5. CASE pending = NoOp
    <2>1. CallerKeeps /\ answers' = answers
      BY <1>4, <1>5, OpFacts DEF Client!ReadyCalled, CallerKeeps, ClientStep
    <2>2. QED
      BY <2>1, ServiceHeard
  <1>6. CASE pending # NoOp
    <2> DEFINE new == Client!Complete(ops[pending], answer)
    <2>1. /\ ops' = [ops EXCEPT ![pending] = new] /\ pending' = NoOp /\ response' = answer
          /\ answers' = answers /\ pending \in Op
      BY <1>1, <1>4, <1>6, OpFacts
         DEF Client!ReadyCalled, Client!ReadyAnswers, ClientStep
    <2>2. CASE pending = 0
      <3>1. response' \in {response, "none"} /\ ~(0 > 0)
        BY <1>1, <1>4, <2>1, <2>2, OpFacts DEF PendingSound
      <3> HIDE DEF new
      <3>2. Gentle
        BY <1>1, <2>1, <2>2, <3>1, OneMild
      <3>3. QED
        BY <1>1, <1>2, <3>2, GentleHeard
    <2>3. CASE pending > 0
      <3>1. /\ new \in Client!OpRecord /\ new.results = Append(ops[pending].results, answer)
            /\ new = [ops[pending] EXCEPT !.results = new.results]
        <4>1. PICK op : op = ops[pending]
          OBVIOUS
        <4>2. op \in Client!OpRecord /\ op.error = "none"
          BY <1>1, <2>1, <2>3, <4>1 DEF HeardInv, PendingWell
        <4>3. PICK m : m = Client!Complete(op, answer)
          OBVIOUS
        <4>4. LET said == IF op.error = "none" THEN answer ELSE op.error
              IN  /\ m \in Client!OpRecord /\ m.results = Append(op.results, said)
                  /\ m = [op EXCEPT !.results = Append(op.results, said)]
          BY <1>4, <4>2, <4>3, CompleteIs
        <4>5. /\ m \in Client!OpRecord /\ m.results = Append(op.results, answer)
              /\ m = [op EXCEPT !.results = m.results]
          BY <4>2, <4>4
        <4>6. QED
          BY <4>1, <4>3, <4>5
      <3> HIDE DEF new
      <3>0. PICK o \in Op \ {0} : o = pending
        BY <2>1, <2>3, OpFacts
      <3>2. /\ ops'[o] = new /\ \A q \in Op : q # o => ops'[q] = ops[q]
            /\ ~closed /\ ops[o].idle = 0
        BY <1>1, <2>1, <2>3, <3>0, OpFacts DEF CallerSound, ClientOK, PendingSound
      <3>3. new.aborted = ops[o].aborted /\ new.idle = 0
        BY <1>1, <3>0, <3>1, <3>2 DEF Client!OpRecord
      <3>4. ops[o].results = << >> /\ ~Finished(o) /\ new.results = <<answer>>
        <4>1. ops[o].results = << >> /\ ~Finished(o)
          BY <1>1, <2>1, <3>0, OpFacts DEF PendingSound, Finished, Client!Finished
        <4>2. new.results = Append(<< >>, answer)
          BY <3>0, <3>1, <4>1
        <4>3. QED
          BY <4>1, <4>2
      <3>5. \A word : ~Hears(o, word) /\ (Hears(o, word)' <=> word = answer)
        BY <3>2, <3>4 DEF Hears
      <3>6. ASSUME NEW q \in Op \ {0}
            PROVE  /\ GivenUp(q)' <=> GivenUp(q)
                   /\ \A word : Hears(q, word) => Hears(q, word)'
                   /\ \A word : Remembers(q, word) => Remembers(q, word)'
        <4>1. \A r \in Op : /\ ops'[r].aborted = ops[r].aborted
                            /\ \A word : Hears(r, word) => Hears(r, word)'
          BY <3>2, <3>3, <3>5 DEF Hears
        <4>2. \A r \in 1 .. q - 1 : r \in Op
          BY OpFacts
        <4>3. QED
          BY <4>1, <4>2 DEF GivenUp, AbortedBefore, Remembers
      <3>7. ASSUME NEW q \in Op \ {0}, Owed(q)' PROVE FALSE
        <4>1. q # o
          BY <3>2, <3>3, <3>4, <3>7 DEF Owed, Finished, Client!Finished
        <4>2. ops'[q] = ops[q] /\ Owed(q)
          BY <3>2, <3>6, <3>7, <4>1
             DEF Owed, Started, Client!Started, Finished, Client!Finished
        <4>3. ~(ops[q].idle > 0)
          BY <1>1, <3>2 DEF OpSound
        <4>4. QED
          BY <1>1, <3>0, <4>1, <4>2, <4>3 DEF Owed, Cared, Clean, GivenUp
      <3>8. ResponseHeard' /\ PendingWell'
        <4>1. Hears(o, response)'
          BY <2>1, <3>2, <3>4, SMTT(30) DEF Hears
        <4>2. QED
          BY <2>1, <3>0, <3>7, <4>1, OpFacts DEF ResponseHeard, PendingWell
      <3>9. ~GivenUp(o) => answer = answers[o]
        <4>1. SUFFICES ASSUME ~GivenUp(o) PROVE answer = answers[o]
          OBVIOUS
        <4>2. Phase
          BY <1>1, <2>3, <3>0, <4>1, PendingIsLive DEF Phased
        <4>3. QED
          BY <1>1, <1>3, <2>3, <3>0, <3>2, <4>2, ReadyMeans
      <3>10. AnswersAreTheUsers'
        <4>1. SUFFICES ASSUME NEW q \in Op \ {0}, ~GivenUp(q)', NEW word \in {"yes", "no"},
                              Hears(q, word)', word # answers'[q]
                       PROVE  ops'[q].cancelled /\ Remembers(q, word)'
          BY DEF AnswersAreTheUsers, Remembers, Hears
        <4>2. q # o
          BY <2>1, <3>5, <3>6, <3>9, <4>1
        <4>3. Hears(q, word) /\ ops'[q] = ops[q]
          BY <3>2, <4>1, <4>2 DEF Hears
        <4>4. ops[q].cancelled /\ Remembers(q, word)
          BY <2>1, <3>6, <4>1, <4>3 DEF HeardInv, AnswersAreTheUsers, Remembers
        <4>5. QED
          BY <3>6, <4>3, <4>4
      <3>11. QED
        BY <3>8, <3>10 DEF HeardInv
    <2>4. QED
      BY <1>6, <2>1, <2>2, <2>3, OpFacts
  <1>7. QED
    BY <1>5, <1>6

LEMMA HeardStarts == SystemInit => HeardInv
  <1> SUFFICES ASSUME SystemInit PROVE HeardInv
    OBVIOUS
  <1>1. response = "null" /\ pending = NoOp /\ \A q \in Op : ops[q].results = << >>
    BY OpFacts DEF SystemInit, Client!PromptInit, Op, Client!Op, Client!UnusedOp
  <1>2. QED
    BY <1>1, OpFacts DEF HeardInv, ResponseHeard, PendingWell, AnswersAreTheUsers, Hears

LEMMA HeardKeeps ==
    ASSUME SystemInv, SystemInv', HeardInv, [SystemNext]_systemVars
    PROVE  HeardInv'
  <1>1. CallerSound /\ BusOK
    BY DEF SystemInv
  <1>2. ASSUME Gentle PROVE HeardInv'
    <2>1. ops' \in [Op -> Client!OpRecord] /\ pending' \in Op \union {NoOp} /\ OwnAnswers'
      BY DEF SystemInv, CallerSound, ClientOK
    <2>2. QED
      BY <1>1, <1>2, <2>1, GentleHeard
  <1>3. ASSUME CallerKeeps, answers' = answers PROVE HeardInv'
    BY <1>3, ServiceHeard
  <1>4. ASSUME NEW o, ServiceStep(o), answers' = answers PROVE HeardInv'
    BY <1>3, <1>4 DEF ServiceStep, CallerKeeps
  <1>5. CASE ServiceCalled \/ ReadyAnswered \/ CallBounces \/ ServiceQuits
    BY <1>3, <1>4, <1>5 DEF ServiceCalled, ReadyAnswered, CallBounces, ServiceQuits, clientVars,
                            CallerKeeps
  <1>6. CASE ServiceStarts \/ ServiceExits \/ UNCHANGED systemVars
    BY <1>3, <1>6 DEF ServiceStarts, ServiceExits, systemVars, busVars, clientVars, CallerKeeps
  <1>7. ASSUME NEW p \in Prompt, NEW answer \in {"yes", "no"}, UserAnswersPrompt(p, answer)
        PROVE  HeardInv'
    BY <1>7, UserHeardOnce
  <1>8. ASSUME NEW p \in Prompt,
               UserClosesPrompt(p) \/ (\E ok \in BOOLEAN : ReadyEnds(p, ok))
        PROVE  HeardInv'
    BY <1>4, <1>8 DEF UserClosesPrompt, ReadyEnds
  <1>9. ASSUME NEW d \in Others, OtherCaller(d) PROVE HeardInv'
    BY <1>4, <1>9 DEF OtherCaller
  <1>10. CASE ClientActs
    <2>1. ClientStep
      BY <1>10 DEF ClientActs
    <2>2. PICK o \in Op : \/ \E style \in Styles : Client!Open(style) \/ Client!Perform(o, style)
                          \/ Client!Cancel(o) \/ Client!Close
      BY <1>10, OpFacts DEF ClientActs
    <2>3. QED
      BY <1>1, <1>2, <2>1, <2>2, ActsGentle
  <1>11. CASE ClientDispatches
    <2>1. ClientStep
      BY <1>11 DEF ClientDispatches
    <2>2. CASE Client!CallTimeout \/ \E o \in Op : Client!CallCancelled(o)
      BY <1>1, <1>2, <2>1, <2>2, CallTimeoutSound, CallCancelledSound, ClosingGentle
    <2>3. ASSUME NEW o \in Op, Client!IdleCompletes(o) PROVE HeardInv'
      BY <1>1, <1>2, <2>1, <2>3, IdleGentle
    <2>4. ASSUME NEW o \in Op, NEW ok \in BOOLEAN,
                 Client!BusConnected(ok) \/ Client!BeginReturns(ok)
                     \/ Client!PerformReturns(o, ok)
          PROVE  HeardInv'
      BY <1>1, <1>2, <2>1, <2>4, ReturnsGentle
    <2>5. QED
      BY <1>11, <2>2, <2>3, <2>4, OpFacts DEF ClientDispatches
  <1>12. ASSUME NEW i \in 1 .. Len(toClient), ClientReceives(i) PROVE HeardInv'
    <2>1. ClientStep /\ Deliverable(i) /\ ClientMessageOK(toClient[i])
      BY <1>1, <1>12 DEF ClientReceives, BusOK
    <2>2. CASE toClient[i].msg = "Ready" /\ Client!ReadyCalled(toClient[i].arg)
      BY <2>1, <2>2, ReadyHeard
    <2>3. CASE Client!DoneCalled
      BY <1>1, <1>2, <2>1, <2>3, CloseSound, ClosingGentle
    <2>4. ASSUME NEW o \in Op, NEW ok \in BOOLEAN,
                 Client!BeginReturns(ok) \/ Client!PerformReturns(o, ok)
          PROVE  HeardInv'
      BY <1>1, <1>2, <2>1, <2>4, ReturnsGentle
    <2>5. ASSUME NEW o \in Op, Client!PrompterPresent \/ Client!PrompterVanished(o)
          PROVE  HeardInv'
      BY <1>1, <1>2, <2>1, <2>5, PresenceGentle
    <2>6. PICK ok \in BOOLEAN : ok = (toClient[i].msg = "Return")
      OBVIOUS
    <2>7. toClient[i] \in ClientMessage
      BY <1>1 DEF BusOK
    <2>8. toClient[i].arg = "Perform" \/ toClient[i].msg = "Name" => toClient[i].op \in Op
      BY <2>1, <2>7 DEF ClientMessageOK, ClientMessage
    <2>9. \/ toClient[i].msg = "Ready" /\ Client!ReadyCalled(toClient[i].arg)
          \/ Client!DoneCalled
          \/ Client!BeginReturns(ok)
          \/ \E o \in Op : Client!PerformReturns(o, ok)
          \/ Client!PrompterPresent
          \/ \E o \in Op : Client!PrompterVanished(o)
      BY <1>12, <2>6, <2>8 DEF ClientReceives
    <2>10. QED
      BY <2>1, <2>2, <2>3, <2>4, <2>5, <2>9, OpFacts
  <1>13. ASSUME NEW i \in 1 .. Len(toClient), ClientMisses(i) PROVE HeardInv'
    BY <1>3, <1>13 DEF ClientMisses, ClientStep, CallerKeeps
  <1>14. QED
    BY <1>5, <1>6, <1>7, <1>8, <1>9, <1>10, <1>11, <1>12, <1>13 DEF SystemNext

TogetherHeard == Together /\ HeardInv

\* A caller that gives up no question hears yes or no only if that is what the user
\* answered to that very question; a question that was dropped, since the prompt was
\* closed or the prompter lost, may hear instead what an earlier one has heard
\* (prompt_method_ready takes no operation, and perform_close keeps last_response).
THEOREM AnswersStayTheUsers == SystemSpec => []AnswersAreTheUsers
  <1>1. SystemInit => TogetherHeard
    BY SystemStarts, HeardStarts DEF TogetherHeard, Together
  <1>2. TogetherHeard /\ [SystemNext]_systemVars => TogetherHeard'
    BY SystemKeeps, UpKeeps, HeardKeeps DEF TogetherHeard, Together
  <1>3. TogetherHeard => AnswersAreTheUsers
    BY DEF TogetherHeard, HeardInv
  <1>4. QED
    BY <1>1, <1>2, <1>3, PTL DEF SystemSpec

-----------------------------------------------------------------------------
(* A prompt that is closed.  The prompter has to be told, which the caller *)
(* does only if the prompt was begun and the prompter is known to be there.*)

\* What is said in a list of messages.
Asks(l, word) == \E i \in 1 .. Len(l) : l[i].msg = word
About(l, arg) == \E i \in 1 .. Len(l) : l[i].arg = arg
\* The call that opens the prompt has not failed.
NotRefused(l) == \A i \in 1 .. Len(l) : l[i].arg = "Begin" => l[i].msg = "Return"
OneBegin(l) == \A i, j \in 1 .. Len(l) : l[i].msg = "Begin" /\ l[j].msg = "Begin" => i = j
\* The caller hears that the prompter is there, after it hears that it is not, and
\* before the call that opens the prompt returns.
OwnerSoon(l) ==
    \E i \in 1 .. Len(l) :
        /\ l[i].arg = "present"
        /\ \A j \in 1 .. Len(l) :
              /\ l[j].arg = "absent" => j < i
              /\ l[j].arg = "Begin" => i < j

\* What is added is said as well.
LEMMA MailAdds ==
    ASSUME NEW S, NEW l \in Seq(S), NEW f \in Seq(S), NEW g, g = l \o f
    PROVE  /\ \A w : Asks(g, w) <=> Asks(l, w) \/ Asks(f, w)
           /\ \A a : About(g, a) <=> About(l, a) \/ About(f, a)
           /\ NotRefused(g) <=> NotRefused(l) /\ NotRefused(f)
           /\ OneBegin(l) /\ ~Asks(f, "Begin") => OneBegin(g)
           /\ OwnerSoon(l) /\ ~About(f, "absent") => OwnerSoon(g)
           /\ /\ About(f, "present") /\ ~About(f, "absent") /\ ~About(f, "Begin")
              /\ ~About(l, "Begin")
              => OwnerSoon(g)
  <1> DEFINE n == Len(l)
             k == Len(f)
  <1>1. n \in Nat /\ k \in Nat /\ Len(g) = n + k /\ g \in Seq(S)
    BY ConcatIs
  <1>2. \A i \in 1 .. n : i \in 1 .. Len(g) /\ g[i] = l[i]
    BY ConcatIs
  <1>3. \A i \in 1 .. k : n + i \in 1 .. Len(g) /\ g[n + i] = f[i]
    BY ConcatIs
  <1>4. \A i \in 1 .. Len(g) : (i \in 1 .. n /\ g[i] = l[i])
                               \/ (i - n \in 1 .. k /\ g[i] = f[i - n] /\ i > n)
    BY ConcatIs
  <1> HIDE DEF n, k
  <1>5. ASSUME NEW w PROVE Asks(g, w) <=> Asks(l, w) \/ Asks(f, w)
    <2>1. Asks(l, w) => Asks(g, w)
      BY <1>2 DEF Asks, n
    <2>2. Asks(f, w) => Asks(g, w)
      BY <1>3 DEF Asks, k
    <2>3. Asks(g, w) => Asks(l, w) \/ Asks(f, w)
      BY <1>4 DEF Asks, n, k
    <2>4. QED
      BY <2>1, <2>2, <2>3
  <1>6. ASSUME NEW a PROVE About(g, a) <=> About(l, a) \/ About(f, a)
    <2>1. About(l, a) => About(g, a)
      BY <1>2 DEF About, n
    <2>2. About(f, a) => About(g, a)
      BY <1>3 DEF About, k
    <2>3. About(g, a) => About(l, a) \/ About(f, a)
      BY <1>4 DEF About, n, k
    <2>4. QED
      BY <2>1, <2>2, <2>3
  <1>7. NotRefused(g) <=> NotRefused(l) /\ NotRefused(f)
    <2>1. NotRefused(g) => NotRefused(l)
      BY <1>2 DEF NotRefused, n
    <2>2. NotRefused(g) => NotRefused(f)
      BY <1>3 DEF NotRefused, k
    <2>3. NotRefused(l) /\ NotRefused(f) => NotRefused(g)
      BY <1>4 DEF NotRefused, n, k
    <2>4. QED
      BY <2>1, <2>2, <2>3
  <1>8. ASSUME OneBegin(l), ~Asks(f, "Begin") PROVE OneBegin(g)
    <2>1. \A i \in 1 .. Len(g) : g[i].msg = "Begin" => i \in 1 .. n /\ g[i] = l[i]
      BY <1>4, <1>8 DEF Asks, k
    <2>2. QED
      BY <1>8, <2>1 DEF OneBegin, n
  <1>9. ASSUME OwnerSoon(l), ~About(f, "absent") PROVE OwnerSoon(g)
    <2>1. PICK i \in 1 .. n :
              /\ l[i].arg = "present"
              /\ \A j \in 1 .. n : /\ l[j].arg = "absent" => j < i
                                   /\ l[j].arg = "Begin" => i < j
      BY <1>9 DEF OwnerSoon, n
    <2>2. \A j \in 1 .. Len(g) : /\ g[j].arg = "absent" => j < i
                                 /\ g[j].arg = "Begin" => i < j
      <3> TAKE j \in 1 .. Len(g)
      <3>1. CASE j \in 1 .. n /\ g[j] = l[j]
        BY <2>1, <3>1
      <3>2. CASE j - n \in 1 .. k /\ g[j] = f[j - n] /\ j > n
        <4>1. g[j].arg # "absent"
          BY <1>9, <3>2 DEF About, k
        <4>2. i < j
          BY <1>1, <3>2
        <4>3. QED
          BY <4>1, <4>2
      <3>3. QED
        BY <1>4, <3>1, <3>2
    <2>3. QED
      BY <1>2, <2>1, <2>2 DEF OwnerSoon
  <1>10. ASSUME About(f, "present"), ~About(f, "absent"), ~About(f, "Begin"), ~About(l, "Begin")
         PROVE  OwnerSoon(g)
    <2>1. PICK i \in 1 .. k : f[i].arg = "present"
      BY <1>10 DEF About, k
    <2>2. n + i \in 1 .. Len(g) /\ g[n + i].arg = "present"
      BY <1>3, <2>1
    <2>3. ~About(g, "Begin")
      BY <1>6, <1>10
    <2>4. \A j \in 1 .. Len(g) : /\ g[j].arg = "absent" => j < n + i
                                 /\ g[j].arg = "Begin" => n + i < j
      <3> TAKE j \in 1 .. Len(g)
      <3>1. g[j].arg # "Begin"
        BY <2>3 DEF About
      <3>2. CASE j \in 1 .. n
        BY <1>1, <3>1, <3>2
      <3>3. CASE j - n \in 1 .. k /\ g[j] = f[j - n]
        <4>1. g[j].arg # "absent"
          BY <1>10, <3>3 DEF About, k
        <4>2. QED
          BY <3>1, <4>1
      <3>4. QED
        BY <1>4, <3>2, <3>3
    <2>5. QED
      BY <2>2, <2>4 DEF OwnerSoon
  <1>11. QED
    BY <1>5, <1>6, <1>7, <1>8, <1>9, <1>10

\* What is left was there before.
LEMMA MailLeaves ==
    ASSUME NEW S, NEW l \in Seq(S), NEW i \in 1 .. Len(l), NEW g, g = RemoveAt(l, i)
    PROVE  /\ \A w : Asks(g, w) => Asks(l, w)
           /\ \A a : About(g, a) => About(l, a)
           /\ NotRefused(l) => NotRefused(g)
           /\ OwnerSoon(l) /\ l[i].arg # "present" => OwnerSoon(g)
           /\ OwnerSoon(l) /\ (\A j \in 1 .. i - 1 : l[j].arg # "absent")
                  => OwnerSoon(g) \/ ~About(g, "absent")
           /\ OwnerSoon(l) /\ l[i].arg = "Begin" => \E j \in 1 .. i - 1 : l[j].arg = "present"
  <1> DEFINE n == Len(l)
             at(j) == PlaceOf(i, j)
  <1>2. n \in Nat /\ i \in 1 .. n
    OBVIOUS
  <1>3. /\ \A j \in 1 .. Len(g) :
              /\ j \in Nat /\ at(j) \in 1 .. n /\ at(j) # i /\ g[j] = l[at(j)]
              /\ \A k \in 1 .. Len(g) : at(j) < at(k) => j < k
        /\ \A k \in 1 .. n : k # i => \E j \in 1 .. Len(g) : at(j) = k
    BY RemoveAtPlaces
  <1> HIDE DEF at
  <1>5. /\ \A w : Asks(g, w) => Asks(l, w)
        /\ \A a : About(g, a) => About(l, a)
        /\ NotRefused(l) => NotRefused(g)
    BY <1>3 DEF Asks, About, NotRefused, n
  <1> HIDE DEF n
  <1>6. ASSUME NEW k \in 1 .. n, k # i, l[k].arg = "present",
               \A j \in 1 .. n : /\ l[j].arg = "absent" => j < k
                                 /\ l[j].arg = "Begin" => k < j
        PROVE  OwnerSoon(g)
    <2>1. PICK j \in 1 .. Len(g) : at(j) = k
      BY <1>3, <1>6
    <2>2. g[j].arg = "present"
      BY <1>3, <1>6, <2>1
    <2>3. \A h \in 1 .. Len(g) : /\ g[h].arg = "absent" => h < j
                                 /\ g[h].arg = "Begin" => j < h
      BY <1>3, <1>6, <2>1
    <2>4. QED
      BY <2>2, <2>3 DEF OwnerSoon
  <1>7. ASSUME OwnerSoon(l)
        PROVE  /\ l[i].arg # "present" => OwnerSoon(g)
               /\ (\A j \in 1 .. i - 1 : l[j].arg # "absent")
                     => OwnerSoon(g) \/ ~About(g, "absent")
               /\ l[i].arg = "Begin" => \E j \in 1 .. i - 1 : l[j].arg = "present"
    <2>1. PICK k \in 1 .. n :
              /\ l[k].arg = "present"
              /\ \A j \in 1 .. n : /\ l[j].arg = "absent" => j < k
                                   /\ l[j].arg = "Begin" => k < j
      BY <1>7 DEF OwnerSoon, n
    <2>2. k # i => OwnerSoon(g)
      BY <1>6, <2>1
    <2>3. l[i].arg # "present" => OwnerSoon(g)
      BY <2>1, <2>2
    <2>4. ASSUME \A j \in 1 .. i - 1 : l[j].arg # "absent", k = i PROVE ~About(g, "absent")
      <3>1. SUFFICES ASSUME NEW j \in 1 .. Len(g), g[j].arg = "absent" PROVE FALSE
        BY DEF About
      <3>2. at(j) \in 1 .. n /\ l[at(j)].arg = "absent"
        BY <1>3, <3>1
      <3>3. at(j) \in 1 .. i - 1
        BY <1>2, <2>1, <2>4, <3>2
      <3>4. QED
        BY <2>4, <3>2, <3>3
    <2>5. l[i].arg = "Begin" => k \in 1 .. i - 1
      BY <1>2, <2>1
    <2>6. QED
      BY <2>1, <2>2, <2>3, <2>4, <2>5
  <1>8. QED
    BY <1>5, <1>7

\* The first of the messages is taken, or the last one added.
LEMMA PostMoves ==
    ASSUME NEW S, NEW l \in Seq(S)
    PROVE  /\ l # << >> =>
                 /\ \A w : Asks(Tail(l), w) => Asks(l, w)
                 /\ \A w : Asks(l, w) /\ Head(l).msg # w => Asks(Tail(l), w)
                 /\ \A w : Head(l).msg = w => Asks(l, w)
                 /\ OneBegin(l) => OneBegin(Tail(l))
                 /\ OneBegin(l) /\ Head(l).msg = "Begin" => ~Asks(Tail(l), "Begin")
           /\ \A x \in S : /\ \A w : Asks(l \o <<x>>, w) <=> Asks(l, w) \/ x.msg = w
                           /\ OneBegin(l) /\ x.msg # "Begin" => OneBegin(l \o <<x>>)
                           /\ ~Asks(l, "Begin") => OneBegin(l \o <<x>>)
           /\ \A w : ~Asks(<< >>, w)
           /\ OneBegin(<< >>)
  <1>1. ASSUME l # << >>
        PROVE  /\ \A w : Asks(Tail(l), w) => Asks(l, w)
               /\ \A w : Asks(l, w) /\ Head(l).msg # w => Asks(Tail(l), w)
               /\ \A w : Head(l).msg = w => Asks(l, w)
               /\ OneBegin(l) => OneBegin(Tail(l))
               /\ OneBegin(l) /\ Head(l).msg = "Begin" => ~Asks(Tail(l), "Begin")
    <2> DEFINE t == Tail(l)
               n == Len(l)
    <2>1. /\ n \in Nat /\ n > 0 /\ Len(t) = n - 1 /\ Head(l) = l[1]
          /\ \A i \in 1 .. n - 1 : t[i] = l[i + 1]
      BY <1>1
    <2>2. \A i \in 1 .. Len(t) : i + 1 \in 1 .. n /\ t[i] = l[i + 1] /\ i + 1 # 1
      BY <2>1
    <2>3. \A i \in 1 .. n : i = 1 \/ (i - 1 \in 1 .. Len(t) /\ t[i - 1] = l[i])
      BY <2>1
    <2>4. 1 \in 1 .. n
      BY <2>1
    <2> HIDE DEF t, n
    <2>5. \A w : Asks(t, w) => Asks(l, w)
      BY <2>2 DEF Asks, n
    <2>6. ASSUME NEW w, Asks(l, w), Head(l).msg # w PROVE Asks(t, w)
      BY <2>1, <2>3, <2>6 DEF Asks, n
    <2>7. \A w : Head(l).msg = w => Asks(l, w)
      BY <2>1, <2>4 DEF Asks, n
    <2>8. OneBegin(l) => OneBegin(t)
      <3>1. SUFFICES ASSUME OneBegin(l), NEW i \in 1 .. Len(t), NEW j \in 1 .. Len(t),
                            t[i].msg = "Begin", t[j].msg = "Begin"
                     PROVE  i = j
        BY DEF OneBegin
      <3>2. i + 1 = j + 1
        BY <2>2, <3>1 DEF OneBegin, n
      <3>3. QED
        BY <3>2
    <2>9. OneBegin(l) /\ Head(l).msg = "Begin" => ~Asks(t, "Begin")
      BY <2>1, <2>2, <2>4 DEF OneBegin, Asks, n
    <2>10. QED
      BY <2>5, <2>6, <2>7, <2>8, <2>9 DEF t
  <1>2. ASSUME NEW x \in S
        PROVE  /\ \A w : Asks(l \o <<x>>, w) <=> Asks(l, w) \/ x.msg = w
               /\ OneBegin(l) /\ x.msg # "Begin" => OneBegin(l \o <<x>>)
               /\ ~Asks(l, "Begin") => OneBegin(l \o <<x>>)
    <2> DEFINE f == <<x>>
               g == l \o f
               n == Len(l)
    <2>1. f \in Seq(S) /\ Len(f) = 1 /\ f[1] = x
      OBVIOUS
    <2>2. \A w : Asks(f, w) <=> x.msg = w
      <3>1. 1 \in 1 .. 1 /\ \A i \in 1 .. 1 : i = 1
        OBVIOUS
      <3> HIDE DEF f
      <3>2. QED
        BY <2>1, <3>1 DEF Asks
    <2>3. \A i \in 1 .. Len(g) : (i \in 1 .. n /\ g[i] = l[i]) \/ i = n + 1
      BY <2>1
    <2> HIDE DEF f
    <2>4. g = l \o f
      OBVIOUS
    <2> HIDE DEF g, n
    <2>5. /\ \A w : Asks(g, w) <=> Asks(l, w) \/ Asks(f, w)
          /\ OneBegin(l) /\ ~Asks(f, "Begin") => OneBegin(g)
      BY <2>1, <2>4, MailAdds
    <2>6. ~Asks(l, "Begin") => OneBegin(g)
      <3>1. SUFFICES ASSUME ~Asks(l, "Begin"), NEW i \in 1 .. Len(g), g[i].msg = "Begin"
                     PROVE  i = n + 1
        BY DEF OneBegin
      <3>2. QED
        BY <2>3, <3>1 DEF Asks, n
    <2>7. QED
      BY <2>2, <2>5, <2>6 DEF f, g
  <1>3. (\A w : ~Asks(<< >>, w)) /\ OneBegin(<< >>)
    BY DEF Asks, OneBegin
  <1>4. QED
    BY <1>1, <1>2, <1>3

\* BeginPrompting is still to be called, ...
BeginAhead == ~Started(0) \/ ops[0].call = "bus"
\* ... or on its way, or the service has the caller on its books.
Held == me \in callbacks \/ Asks(toPrompter, "Begin")

Ahead == BeginAhead => ~closed /\ ~Held
\* The service has not said anything.
Unknown ==
    BeginAhead \/ Asks(toPrompter, "Begin") =>
        /\ me \notin callbacks /\ ~begun /\ ~received
        /\ OneBegin(toPrompter) /\ ~Asks(toPrompter, "Stop") /\ ~About(toClient, "Begin")
\* Done is the last that the service says.
Over == Asks(toClient, "Done") => ~Held /\ ~BeginAhead
\* A caller that heard nothing has not answered.
Unheard ==
    ~received => /\ ~Asks(toPrompter, "Answered")
                 /\ active[me] # None => Server.calls = 1
Accepted == me \in callbacks => NotRefused(toClient)

NamesOK == \A i \in 1 .. Len(toClient) : toClient[i].msg = "Name" => Started(toClient[i].op)
\* The caller knows that there is a prompter when it has begun.
OwnerKnown == owner /\ ~About(toClient, "absent")
OwnerSeen ==
    /\ ops[0].call = "Begin" /\ Held /\ up => OwnerKnown \/ OwnerSoon(toClient)
    /\ begun /\ me \in callbacks => OwnerKnown

\* A prompt that is open has begun, or will, or the caller gives up.
Usable ==
    Held /\ ~closed =>
        /\ received \/ Opened \/ pending # NoOp => begun
        /\ begun \/ ops[0].call = "Begin" \/ ops[0].cancelled
        /\ begun => context # "none"
\* For one that is closed Stop is on its way, unless the caller gave up early.
Dropped ==
    Held /\ closed =>
        /\ ops[0].call # "Begin" /\ pending = NoOp
        /\ Asks(toPrompter, "Stop") \/ (~received /\ ops[0].cancelled)

OpeningOK ==
    /\ ops[0].call # "none" => ~ops[0].waiting
    /\ ops[0].call = "bus" => ~ops[0].watch
    /\ ops[0].call = "Begin" => ops[0].watch
FlagsOK ==
    /\ begun \in BOOLEAN /\ received \in BOOLEAN /\ owner \in BOOLEAN /\ up \in BOOLEAN
    /\ registered => up

ClosingInv ==
    /\ Ahead /\ Unknown /\ Over /\ Unheard /\ Accepted
    /\ NamesOK /\ OwnerSeen
    /\ Usable /\ Dropped
    /\ OpeningOK /\ FlagsOK

LEMMA ClosingSays ==
    ASSUME SystemInv, ClosingInv
    PROVE  NoPromptForTheClosed
  <1> SUFFICES ASSUME Quiet, closed, me \in callbacks
               PROVE  /\ ops[0].cancelled /\ ~received
                      /\ active[me] # None => prompts[active[me]].calls > 0
    BY DEF NoPromptForTheClosed
  <1>1. ~Asks(toPrompter, "Stop")
    BY PostMoves DEF Quiet, Asks
  <1>2. ops[0].cancelled /\ ~received
    BY <1>1 DEF ClosingInv, Dropped, Held
  <1>3. active[me] # None => Server.calls = 1
    BY <1>2 DEF ClosingInv, Unheard
  <1>4. active[me] # None => Server = prompts[active[me]]
    BY DEF Server, ServerOf, Tables
  <1>5. QED
    BY <1>2, <1>3, <1>4

-----------------------------------------------------------------------------
(* Steps of the service.                                                   *)

\* What a caller knows that takes no part in a step.
LEMMA CallerSame ==
    ASSUME CallerKeeps
    PROVE  /\ closed' = closed /\ begun' = begun /\ received' = received
           /\ owner' = owner /\ context' = context /\ pending' = pending /\ ops' = ops
           /\ (BeginAhead' <=> BeginAhead) /\ (Opened' <=> Opened)
           /\ \A o : Started(o)' <=> Started(o)
  BY DEF CallerKeeps, BeginAhead, Opened, Client!Opened, Client!Finished, Started,
         Client!Started

\* The names that are told are those of watches that were started.
LEMMA NamesStay ==
    ASSUME BusOK, NamesOK, NEW f \in Seq(ClientMessage), toClient' = toClient \o f,
           \A o : Started(o) => Started(o)',
           \A i \in 1 .. Len(f) : f[i].msg = "Name" => Started(f[i].op)'
    PROVE  NamesOK'
  <1>1. toClient \in Seq(ClientMessage)
    BY DEF BusOK
  <1>2. \A i \in 1 .. Len(toClient') :
            \/ i \in 1 .. Len(toClient) /\ toClient'[i] = toClient[i]
            \/ i - Len(toClient) \in 1 .. Len(f) /\ toClient'[i] = f[i - Len(toClient)]
    BY <1>1
  <1>3. QED
    BY <1>2 DEF NamesOK

\* What is said in f is heard, and calls leave the queue of the service.
LEMMA ServiceCloses ==
    ASSUME SystemInv, ClosingInv, CallerKeeps, NEW f \in Seq(ClientMessage),
           toClient' = toClient \o f,
           me \in callbacks' => me \in callbacks,
           NotRefused(f) \/ me \notin callbacks',
           About(f, "Begin") => Asks(toPrompter, "Begin") /\ ~Held',
           Asks(f, "Done") =>
               /\ me \in callbacks \/ Asks(toPrompter, "Stop")
               /\ me \notin callbacks',
           \A i \in 1 .. Len(f) : f[i].msg = "Name" => Started(f[i].op),
           \A w : Asks(toPrompter', w) => Asks(toPrompter, w),
           Asks(toPrompter, "Stop") /\ me \in callbacks' => Asks(toPrompter', "Stop"),
           OneBegin(toPrompter'),
           ~received /\ active'[me] # None => Server'.calls = 1,
           up' \in BOOLEAN, registered' => up', OwnerSeen'
    PROVE  ClosingInv'
  <1>1. /\ Ahead /\ Unknown /\ Over /\ Unheard /\ Accepted /\ NamesOK
        /\ Usable /\ Dropped /\ OpeningOK /\ FlagsOK
    BY DEF ClosingInv
  <1>2. /\ closed' = closed /\ begun' = begun /\ received' = received
        /\ owner' = owner /\ context' = context /\ pending' = pending /\ ops' = ops
        /\ (BeginAhead' <=> BeginAhead) /\ (Opened' <=> Opened)
        /\ \A o : Started(o)' <=> Started(o)
    BY CallerSame
  <1>3. /\ \A w : Asks(toClient', w) <=> Asks(toClient, w) \/ Asks(f, w)
        /\ \A a : About(toClient', a) <=> About(toClient, a) \/ About(f, a)
        /\ NotRefused(toClient') <=> NotRefused(toClient) /\ NotRefused(f)
    <2>1. toClient \in Seq(ClientMessage)
      BY DEF SystemInv, BusOK
    <2>2. QED
      BY <2>1, MailAdds
  <1>4. Held' => Held
    BY DEF Held
  <1>5. Asks(toPrompter', "Begin") => Asks(toPrompter, "Begin") /\ Held'
    BY DEF Held
  <1>6. Ahead'
    BY <1>1, <1>2, <1>4 DEF Ahead
  <1>7. Unknown'
    <2>1. SUFFICES ASSUME BeginAhead \/ Asks(toPrompter', "Begin")
                   PROVE  /\ me \notin callbacks' /\ ~begun /\ ~received
                          /\ OneBegin(toPrompter') /\ ~Asks(toPrompter', "Stop")
                          /\ ~About(toClient', "Begin")
      BY <1>2 DEF Unknown
    <2>2. /\ me \notin callbacks /\ ~begun /\ ~received
          /\ ~Asks(toPrompter, "Stop") /\ ~About(toClient, "Begin")
      BY <1>1, <2>1 DEF Unknown
    <2>3. ~About(f, "Begin")
      BY <1>1, <1>5, <2>1 DEF Ahead, Held
    <2>4. QED
      BY <1>3, <2>2, <2>3
  <1>8. Over'
    <2>1. Asks(f, "Done") => ~Held' /\ ~BeginAhead
      BY <1>1, <1>5 DEF Ahead, Unknown, Held
    <2>2. QED
      BY <1>1, <1>2, <1>3, <1>4, <2>1 DEF Over
  <1>9. Unheard' /\ Accepted'
    BY <1>1, <1>2, <1>3 DEF Unheard, Accepted
  <1>10. NamesOK'
    <2>1. BusOK /\ \A i \in 1 .. Len(f) : f[i].msg = "Name" => Started(f[i].op)'
      BY <1>2 DEF SystemInv
    <2>2. QED
      BY <1>1, <1>2, <2>1, NamesStay
  <1>11. Usable'
    BY <1>1, <1>2, <1>4 DEF Usable
  <1>12. Dropped'
    <2>1. SUFFICES ASSUME Held', closed
                   PROVE  /\ ops[0].call # "Begin" /\ pending = NoOp
                          /\ Asks(toPrompter', "Stop") \/ (~received /\ ops[0].cancelled)
      BY <1>2 DEF Dropped
    <2>2. /\ ops[0].call # "Begin" /\ pending = NoOp
          /\ Asks(toPrompter, "Stop") \/ (~received /\ ops[0].cancelled)
      BY <1>1, <1>4, <2>1 DEF Dropped
    <2>3. Asks(toPrompter, "Stop") => me \in callbacks'
      BY <1>1, <1>5, <2>1 DEF Unknown, Held
    <2>4. QED
      BY <2>2, <2>3
  <1>13. OpeningOK' /\ FlagsOK'
    BY <1>1, <1>2 DEF OpeningOK, FlagsOK
  <1>14. QED
    BY <1>6, <1>7, <1>8, <1>9, <1>10, <1>11, <1>12, <1>13 DEF ClosingInv

\* The prompter does not go.
LEMMA OwnerStays ==
    ASSUME SystemInv, ClosingInv, CallerKeeps, NEW f \in Seq(ClientMessage),
           toClient' = toClient \o f, up' = up, Held' => Held,
           me \in callbacks' => me \in callbacks, ~About(f, "absent") \/ ~Held'
    PROVE  OwnerSeen'
  <1>1. OwnerSeen
    BY DEF ClosingInv
  <1>2. owner' = owner /\ begun' = begun /\ ops' = ops
    BY CallerSame
  <1>3. /\ About(toClient', "absent") <=> About(toClient, "absent") \/ About(f, "absent")
        /\ OwnerSoon(toClient) /\ ~About(f, "absent") => OwnerSoon(toClient')
    <2>1. toClient \in Seq(ClientMessage)
      BY DEF SystemInv, BusOK
    <2>2. QED
      BY <2>1, MailAdds
  <1>4. me \in callbacks' => Held'
    BY DEF Held
  <1>5. QED
    BY <1>1, <1>2, <1>3, <1>4 DEF OwnerSeen, OwnerKnown

\* An empty list, a list of one message, and a list of two.
LEMMA FewSay ==
    ASSUME NEW x
    PROVE  /\ LET f == << >>
              IN  /\ \A w : ~Asks(f, w)
                  /\ \A a : ~About(f, a)
                  /\ NotRefused(f)
           /\ LET f == <<x>>
              IN  /\ \A w : Asks(f, w) <=> x.msg = w
                  /\ \A a : About(f, a) <=> x.arg = a
                  /\ NotRefused(f) <=> (x.arg = "Begin" => x.msg = "Return")
                  /\ \A i \in 1 .. Len(f) : f[i] = x
  <1>1. ASSUME NEW f, f = <<x>>
        PROVE  /\ \A w : Asks(f, w) <=> x.msg = w
               /\ \A a : About(f, a) <=> x.arg = a
               /\ NotRefused(f) <=> (x.arg = "Begin" => x.msg = "Return")
               /\ \A i \in 1 .. Len(f) : f[i] = x
    <2>1. Len(f) = 1 /\ f[1] = x
      BY <1>1
    <2>2. 1 \in 1 .. 1 /\ \A i \in 1 .. 1 : i = 1
      OBVIOUS
    <2>3. QED
      BY <2>1, <2>2 DEF Asks, About, NotRefused
  <1>2. QED
    BY <1>1 DEF Asks, About, NotRefused

LEMMA TwoSay ==
    ASSUME NEW S, NEW x \in S, NEW y \in S, NEW f, f = <<x, y>>
    PROVE  /\ f \in Seq(S)
           /\ \A w : Asks(f, w) <=> x.msg = w \/ y.msg = w
           /\ \A a : About(f, a) <=> x.arg = a \/ y.arg = a
           /\ NotRefused(f) <=> /\ x.arg = "Begin" => x.msg = "Return"
                                /\ y.arg = "Begin" => y.msg = "Return"
           /\ \A i \in 1 .. Len(f) : f[i] \in {x, y}
  <1>1. Len(f) = 2 /\ f[1] = x /\ f[2] = y /\ f \in Seq(S)
    OBVIOUS
  <1>2. 1 \in 1 .. 2 /\ 2 \in 1 .. 2 /\ \A i \in 1 .. 2 : i = 1 \/ i = 2
    OBVIOUS
  <1>3. \A w : Asks(f, w) <=> x.msg = w \/ y.msg = w
    BY <1>1, <1>2 DEF Asks
  <1>4. \A a : About(f, a) <=> x.arg = a \/ y.arg = a
    BY <1>1, <1>2 DEF About
  <1>5. QED
    BY <1>1, <1>2, <1>3, <1>4 DEF NotRefused

\* There is never more than one call that opens the prompt.
LEMMA BeginOnce ==
    ASSUME ClosingInv
    PROVE  OneBegin(toPrompter)
  BY DEF ClosingInv, Unknown, Asks, OneBegin

\* Nothing changes in the queue of the service, or its first message is handled.
Passes ==
    \/ toPrompter' = toPrompter
    \/ /\ toPrompter # << >> /\ toPrompter' = Tail(toPrompter)
       /\ Head(toPrompter).msg = "Stop" => me \notin callbacks'

\* Steps of the service that do not concern the call that opens the prompt.
LEMMA RestCloses ==
    ASSUME SystemInv, ClosingInv, CallerKeeps, up' = up, registered' => registered, Passes,
           NEW f \in Seq(ClientMessage), toClient' = toClient \o f,
           NotRefused(f), ~About(f, "Begin"), ~About(f, "absent"),
           Asks(f, "Done") =>
               /\ me \in callbacks \/ Asks(toPrompter, "Stop")
               /\ me \notin callbacks',
           \A i \in 1 .. Len(f) : f[i].msg # "Name",
           me \in callbacks' => me \in callbacks,
           ~received /\ active'[me] # None => Server'.calls = 1
    PROVE  ClosingInv'
  <1>1. FlagsOK /\ OneBegin(toPrompter)
    BY BeginOnce DEF ClosingInv
  <1>2. /\ \A w : Asks(toPrompter', w) => Asks(toPrompter, w)
        /\ Asks(toPrompter, "Stop") /\ me \in callbacks' => Asks(toPrompter', "Stop")
        /\ OneBegin(toPrompter')
    <2>1. toPrompter \in Seq(PrompterMessage)
      BY DEF SystemInv, BusOK
    <2>2. CASE toPrompter' = toPrompter
      BY <1>1, <2>2
    <2>3. CASE /\ toPrompter # << >> /\ toPrompter' = Tail(toPrompter)
               /\ Head(toPrompter).msg = "Stop" => me \notin callbacks'
      <3>1. /\ \A w : Asks(Tail(toPrompter), w) => Asks(toPrompter, w)
            /\ \A w : Asks(toPrompter, w) /\ Head(toPrompter).msg # w
                         => Asks(Tail(toPrompter), w)
            /\ OneBegin(toPrompter) => OneBegin(Tail(toPrompter))
        BY <2>1, <2>3, PostMoves
      <3>2. QED
        BY <1>1, <2>3, <3>1
    <2>4. QED
      BY <2>2, <2>3 DEF Passes
  <1>3. Held' => Held
    BY <1>2 DEF Held
  <1>4. up' \in BOOLEAN /\ (registered' => up')
    BY <1>1 DEF FlagsOK
  <1>5. OwnerSeen'
    BY <1>3, OwnerStays
  <1>6. QED
    BY <1>2, <1>4, <1>5, ServiceCloses

\* The caller keeps its place, or it is its turn, or it loses its place.
LEMMA PlaceCloses ==
    ASSUME SystemInv, ClosingInv, NEW o \in Op \union {NoOp}, ServiceStep(o),
           \/ Stays(<< >>) \/ Turns(<< >>) \/ Leaves(<< >>)
           \/ me \in callbacks /\ Leaves(<<Done>>),
           Passes, registered' => registered
    PROVE  ClosingInv'
  <1> DEFINE f == FromService(o)
  <1>1. CallerKeeps /\ toClient' = toClient \o f /\ up' = up
    BY DEF ServiceStep, CallerKeeps
  <1>2. Unheard
    BY DEF ClosingInv
  <1>3. /\ f \in Seq(ClientMessage)
        /\ NotRefused(f) /\ ~About(f, "Begin") /\ ~About(f, "absent")
        /\ Asks(f, "Done") => me \in callbacks /\ me \notin callbacks'
        /\ \A i \in 1 .. Len(f) : f[i].msg # "Name"
        /\ me \in callbacks' => me \in callbacks
        /\ ~received /\ active'[me] # None => Server'.calls = 1
    <2> DEFINE x == ToClient("Ready", "none", NoOp, active'[me])
               y == ToClient("Done", "none", o, None)
    <2>1. /\ x.msg = "Ready" /\ x.arg = "none" /\ y.msg = "Done" /\ y.arg = "none"
          /\ y \in ClientMessage /\ (active'[me] \in Prompt => x \in ClientMessage)
      BY ToClientOK DEF ToClient
    <2> HIDE DEF f, x, y
    <2>2. CASE Stays(<< >>) \/ Leaves(<< >>)
      <3>1. f = << >>
        BY <2>2, FromServiceIs DEF f, Stays, Leaves
      <3>2. \A i \in 1 .. Len(f) : f[i].msg # "Name"
        BY <3>1
      <3>3. f \in Seq(ClientMessage)
        BY <3>1
      <3>4. \A w : ~Asks(f, w)
        BY <3>1, FewSay
      <3>5. NotRefused(f) /\ \A w : ~About(f, w)
        BY <3>1, FewSay
      <3>6. QED
        BY <1>2, <2>2, <3>2, <3>3, <3>4, <3>5 DEF Unheard, Stays, Leaves
    <2>3. CASE Turns(<< >>)
      <3>1. out'[me] = <<Ready("none")>> /\ active'[me] \in Prompt
        BY <2>3, Appended DEF Turns
      <3>2. f = <<x>>
        BY <3>1, FromServiceIs DEF f, x
      <3>3. f \in Seq(ClientMessage)
        BY <2>1, <3>1, <3>2
      <3>4. /\ \A w : Asks(f, w) <=> x.msg = w
            /\ \A a : About(f, a) <=> x.arg = a
            /\ NotRefused(f) <=> (x.arg = "Begin" => x.msg = "Return")
            /\ \A i \in 1 .. Len(f) : f[i] = x
        BY <3>2, FewSay
      <3>5. Server'.calls = 1
        BY <2>3, NewServer DEF Turns
      <3>6. QED
        BY <2>1, <2>3, <3>3, <3>4, <3>5 DEF Turns
    <2>4. CASE me \in callbacks /\ Leaves(<<Done>>)
      <3>1. f = <<y>>
        BY <2>4, FromServiceIs DEF f, y, Leaves
      <3>2. f \in Seq(ClientMessage)
        BY <2>1, <3>1
      <3>3. /\ \A w : Asks(f, w) <=> y.msg = w
            /\ \A a : About(f, a) <=> y.arg = a
            /\ NotRefused(f) <=> (y.arg = "Begin" => y.msg = "Return")
            /\ \A i \in 1 .. Len(f) : f[i] = y
        BY <3>1, FewSay
      <3>4. QED
        BY <2>1, <2>4, <3>2, <3>3 DEF Leaves
    <2>5. QED
      BY <2>2, <2>3, <2>4
  <1> HIDE DEF f
  <1>4. QED
    BY <1>1, <1>3, RestCloses

LEMMA OtherCallerCloses ==
    ASSUME SystemInv, ClosingInv, NEW d \in Others, OtherCaller(d)
    PROVE  ClosingInv'
  <1>1. IInv /\ NoOp \in Op \union {NoOp}
    BY DEF SystemInv
  <1>2. ServiceStep(NoOp) /\ toPrompter' = toPrompter /\ registered' = registered
    BY DEF OtherCaller, NoOp, BeginPrompting, PerformPrompt, StopMethod, CallerVanished
  <1>3. Stays(<< >>) \/ Turns(<< >>)
    BY <1>1, OthersBegin, OthersPerform, OthersStop, OthersVanish DEF OtherCaller
  <1>4. QED
    BY <1>1, <1>2, <1>3, PlaceCloses DEF Passes

LEMMA ServiceQuitsCloses ==
    ASSUME SystemInv, ClosingInv, ServiceQuits
    PROVE  ClosingInv'
  <1>1. IInv /\ NoOp \in Op \union {NoOp}
    BY DEF SystemInv
  <1>2. ServiceStep(NoOp) /\ toPrompter' = toPrompter /\ registered' = FALSE /\ Unregister
    BY DEF ServiceQuits, NoOp, Unregister
  <1>3. Stays(<< >>) \/ (me \in callbacks /\ Leaves(<<Done>>))
    BY <1>1, <1>2, UnregisterMe
  <1>4. QED
    BY <1>1, <1>2, <1>3, PlaceCloses DEF Passes

LEMMA UserClosesCloses ==
    ASSUME SystemInv, ClosingInv, NEW p \in Prompt, UserClosesPrompt(p)
    PROVE  ClosingInv'
  <1>1. IInv /\ NoOp \in Op \union {NoOp}
    BY DEF SystemInv
  <1>2. /\ ServiceStep(NoOp) /\ toPrompter' = toPrompter /\ UserCloses(p)
        /\ registered' = registered
    BY DEF UserClosesPrompt, NoOp, UserCloses
  <1>3. Stays(<< >>) \/ (me \in callbacks /\ Leaves(<<Done>>))
    BY <1>1, <1>2, ClosesMe
  <1>4. QED
    BY <1>1, <1>2, <1>3, PlaceCloses DEF Passes

LEMMA ReadyEndsCloses ==
    ASSUME SystemInv, ClosingInv, NEW p \in Prompt, NEW ok \in BOOLEAN, ReadyEnds(p, ok)
    PROVE  ClosingInv'
  <1>1. IInv /\ NoOp \in Op \union {NoOp}
    BY DEF SystemInv
  <1>2. /\ ServiceStep(NoOp) /\ toPrompter' = toPrompter /\ ReadyComplete(p, ok)
        /\ registered' = registered
    BY DEF ReadyEnds, NoOp, ReadyComplete
  <1>3. active[me] = p => ~ok
    BY <1>1, ServerIs DEF ReadyEnds
  <1>4. Stays(<< >>) \/ Turns(<< >>) \/ Leaves(<< >>)
    BY <1>1, <1>2, <1>3, CompletesMe
  <1>5. QED
    BY <1>1, <1>2, <1>4, PlaceCloses DEF Passes

\* The user answers after the caller was heard of.
LEMMA UserAnswersCloses ==
    ASSUME SystemInv, ClosingInv, NEW p \in Prompt, NEW answer \in {"yes", "no"},
           UserAnswersPrompt(p, answer)
    PROVE  ClosingInv'
  <1>1. IInv /\ NoOp \in Op \union {NoOp} /\ Unheard
    BY DEF SystemInv, ClosingInv
  <1>2. /\ ServiceStep(NoOp) /\ toPrompter' = toPrompter /\ UserAnswers(p, answer)
        /\ registered' = registered
    BY DEF UserAnswersPrompt, NoOp, UserAnswers
  <1>3. CASE active[me] # p
    <2>1. Stays(<< >>)
      BY <1>1, <1>2, <1>3, AnswersMe
    <2>2. QED
      BY <1>1, <1>2, <2>1, PlaceCloses DEF Passes
  <1>4. CASE active[me] = p
    <2>1. /\ active'[me] = p /\ Server.ops > 0 /\ out'[me] = <<Ready(answer)>>
          /\ me \in callbacks' <=> me \in callbacks
      BY <1>1, <1>2, <1>4, AnswersMe
    <2>2. received
      <3>1. Server.calls = 0 /\ active[me] # None
        BY <1>1, <2>1, OneCompletion
      <3>2. QED
        BY <1>1, <3>1 DEF Unheard
    <2>3. CallerKeeps /\ toClient' = toClient \o FromService(NoOp) /\ up' = up
      BY <1>2 DEF ServiceStep, CallerKeeps
    <2> DEFINE x == ToClient("Ready", answer, NoOp, p)
               f == <<x>>
    <2>4. toClient' = toClient \o f
      BY <2>1, <2>3, FromServiceIs
    <2>5. x \in ClientMessage /\ x.msg = "Ready" /\ x.arg = answer
      BY OpFacts DEF ToClient, ClientMessage
    <2> HIDE DEF x
    <2>6. f \in Seq(ClientMessage)
      BY <2>5
    <2>7. /\ NotRefused(f) /\ ~About(f, "Begin") /\ ~About(f, "absent") /\ ~Asks(f, "Done")
          /\ \A i \in 1 .. Len(f) : f[i].msg # "Name"
      BY <2>5, FewSay
    <2> HIDE DEF f
    <2>8. QED
      BY <1>2, <2>1, <2>2, <2>3, <2>4, <2>6, <2>7, RestCloses DEF Passes
  <1>5. QED
    BY <1>3, <1>4

\* What a caller answers is that it has heard the prompter, or that there is nobody.
LEMMA ReadyAnsweredCloses ==
    ASSUME SystemInv, ClosingInv, ReadyAnswered
    PROVE  ClosingInv'
  <1> DEFINE m == Head(toPrompter)
             p == m.prompt
             ok == m.msg = "Answered"
             f == << >>
  <1>1. IInv /\ BusOK /\ NoOp \in Op \union {NoOp} /\ Unheard
    BY DEF SystemInv, ClosingInv
  <1>2. /\ toPrompter # << >> /\ toPrompter' = Tail(toPrompter)
        /\ m.msg \in {"Answered", "NoObject"}
        /\ IF prompts[p].calls > 0
           THEN ReadyComplete(p, ok) /\ ServiceStep(NoOp)
           ELSE UNCHANGED <<vars, clientVars, starts, up, toClient>>
    BY DEF ReadyAnswered, NoOp
  <1>3. p \in Prompt /\ ok \in BOOLEAN
    <2>1. PrompterMessageOK(m)
      BY <1>1, <1>2 DEF BusOK
    <2>2. QED
      BY <1>2, <2>1 DEF PrompterMessageOK
  <1>4. Passes
    BY <1>2 DEF Passes
  <1>5. ok => received
    <2>1. ok => Asks(toPrompter, "Answered")
      BY <1>1, <1>2, PostMoves DEF BusOK
    <2>2. QED
      BY <1>1, <2>1 DEF Unheard
  <1> HIDE DEF p, ok
  <1>6. f \in Seq(ClientMessage) /\ toClient \o f = toClient
    BY <1>1 DEF BusOK
  <1>7. /\ NotRefused(f) /\ ~About(f, "Begin") /\ ~About(f, "absent") /\ ~Asks(f, "Done")
        /\ \A i \in 1 .. Len(f) : f[i].msg # "Name"
    <2>1. \A i \in 1 .. Len(f) : f[i].msg # "Name"
      OBVIOUS
    <2>2. NotRefused(f) /\ (\A a : ~About(f, a)) /\ \A w : ~Asks(f, w)
      BY FewSay
    <2> HIDE DEF f
    <2>3. QED
      BY <2>1, <2>2
  <1>0. FromService(NoOp) = f <=> FromService(NoOp) = << >>
    OBVIOUS
  <1> HIDE DEF f
  <1>8. CASE prompts[p].calls > 0
    <2>1. ReadyComplete(p, ok) /\ ServiceStep(NoOp) /\ registered' = registered
      BY <1>2, <1>8 DEF ReadyComplete
    <2>2. CASE Stays(<< >>) \/ Turns(<< >>) \/ Leaves(<< >>)
      BY <1>1, <1>4, <2>1, <2>2, PlaceCloses
    <2>3. CASE active[me] = p /\ ok
      <3>1. out'[me] = << >> /\ (me \in callbacks' <=> me \in callbacks)
        BY <1>1, <1>3, <2>1, <2>3, CompletesMe
      <3>2. CallerKeeps /\ toClient' = toClient \o f /\ up' = up
        BY <1>0, <2>1, <3>1, FromServiceIs DEF ServiceStep, CallerKeeps
      <3>3. QED
        BY <1>4, <1>5, <1>6, <1>7, <2>1, <2>3, <3>1, <3>2, RestCloses
    <2>4. QED
      BY <1>1, <1>3, <2>1, <2>2, <2>3, CompletesMe
  <1>9. CASE ~(prompts[p].calls > 0)
    <2>1. UNCHANGED vars /\ UNCHANGED clientVars /\ toClient' = toClient /\ up' = up
      BY <1>2, <1>9
    <2>2. CallerKeeps /\ callbacks' = callbacks /\ active' = active /\ Server' = Server
          /\ registered' = registered
      BY <2>1 DEF CallerKeeps, clientVars, vars, Server, ServerOf, Tables
    <2>3. ~received /\ active'[me] # None => Server'.calls = 1
      BY <1>1, <2>2 DEF Unheard
    <2>4. QED
      BY <1>4, <1>6, <1>7, <2>1, <2>2, <2>3, RestCloses
  <1>10. QED
    BY <1>8, <1>9

LEMMA PerformCloses ==
    ASSUME SystemInv, ClosingInv, toPrompter # << >>, Head(toPrompter).msg = "Perform",
           NEW o \in Op \ {0}, Started(o), PerformPrompt(me, "confirm", TRUE), ServiceStep(o),
           toPrompter' = Tail(toPrompter)
    PROVE  ClosingInv'
  <1>1. IInv /\ Unheard
    BY DEF SystemInv, ClosingInv
  <1>2. CallerKeeps /\ toClient' = toClient \o FromService(o) /\ up' = up
    BY DEF ServiceStep, CallerKeeps
  <1>3. Passes /\ registered' = registered
    BY DEF Passes, PerformPrompt
  <1>4. /\ me \in callbacks' <=> me \in callbacks
        /\ ~received /\ active'[me] # None => Server'.calls = 1
        /\ \E r \in {"Return", "Failed"} : out'[me] = <<Reply(r, "Perform")>>
    <2>1. active[me] # None /\ Server.ready => received
      BY <1>1, OneCompletion DEF Unheard
    <2>2. QED
      BY <1>1, <2>1, OwnPerform DEF Stays, Unheard
  <1>5. PICK r \in {"Return", "Failed"} : out'[me] = <<Reply(r, "Perform")>>
    BY <1>4
  <1> DEFINE x == ToClient(r, "Perform", o, None)
             f == <<x>>
  <1>6. FromService(o) = f
    BY <1>5, FromServiceIs
  <1>7. x \in ClientMessage /\ x.msg = r /\ x.arg = "Perform"
    BY ToClientOK DEF ToClient
  <1> HIDE DEF x
  <1>8. f \in Seq(ClientMessage)
    BY <1>7
  <1>9. /\ NotRefused(f) /\ ~About(f, "Begin") /\ ~About(f, "absent") /\ ~Asks(f, "Done")
        /\ \A i \in 1 .. Len(f) : f[i].msg # "Name"
    BY <1>7, FewSay
  <1> HIDE DEF f
  <1>10. QED
    BY <1>2, <1>3, <1>4, <1>6, <1>8, <1>9, RestCloses

LEMMA StopCloses ==
    ASSUME SystemInv, ClosingInv, toPrompter # << >>, Head(toPrompter).msg = "Stop",
           NEW o \in Op \union {NoOp}, StopMethod(me), ServiceStep(o),
           toPrompter' = Tail(toPrompter)
    PROVE  ClosingInv'
  <1>1. IInv /\ BusOK
    BY DEF SystemInv
  <1>2. CallerKeeps /\ toClient' = toClient \o FromService(o) /\ up' = up
    BY DEF ServiceStep, CallerKeeps
  <1> DEFINE f == FromService(o)
             x == ToClient("Done", "none", o, None)
  <1>3. f \in {<< >>, <<x>>} /\ me \notin callbacks' /\ active'[me] = None
    BY <1>1, OwnStop, FromServiceIs DEF Leaves
  <1>4. x \in ClientMessage /\ x.msg = "Done" /\ x.arg = "none"
    BY ToClientOK DEF ToClient
  <1>5. Asks(toPrompter, "Stop")
    BY <1>1, PostMoves DEF BusOK
  <1>6. Passes /\ registered' = registered
    BY <1>3 DEF Passes, StopMethod
  <1> HIDE DEF f, x
  <1>7. f \in Seq(ClientMessage)
    <2>1. << >> \in Seq(ClientMessage) /\ <<x>> \in Seq(ClientMessage)
      BY <1>4
    <2>2. QED
      BY <1>3, <2>1
  <1>8. /\ NotRefused(f) /\ ~About(f, "Begin") /\ ~About(f, "absent")
        /\ \A i \in 1 .. Len(f) : f[i].msg # "Name"
    <2>1. CASE f = << >>
      <3>1. \A i \in 1 .. Len(f) : f[i].msg # "Name"
        BY <2>1
      <3>2. NotRefused(f) /\ \A a : ~About(f, a)
        BY <2>1, FewSay
      <3>3. QED
        BY <3>1, <3>2
    <2>2. CASE f = <<x>>
      <3>1. /\ \A a : About(f, a) <=> x.arg = a
            /\ NotRefused(f) <=> (x.arg = "Begin" => x.msg = "Return")
            /\ \A i \in 1 .. Len(f) : f[i] = x
        BY <2>2, FewSay
      <3>2. QED
        BY <1>4, <3>1
    <2>3. QED
      BY <1>3, <2>1, <2>2
  <1>9. toClient' = toClient \o f
    BY <1>2 DEF f
  <1>10. QED
    BY <1>2, <1>3, <1>5, <1>6, <1>7, <1>8, <1>9, RestCloses

\* The service puts the caller on its books, and says so.
LEMMA BeginCloses ==
    ASSUME SystemInv, ClosingInv, toPrompter # << >>, Head(toPrompter).msg = "Begin",
           BeginPrompting(me), ServiceStep(0), toPrompter' = Tail(toPrompter)
    PROVE  ClosingInv'
  <1>1. /\ IInv /\ BusOK /\ toPrompter \in Seq(PrompterMessage)
        /\ toClient \in Seq(ClientMessage)
        /\ Ahead /\ Unknown /\ Over /\ Unheard /\ Accepted /\ NamesOK /\ OwnerSeen
        /\ Usable /\ Dropped /\ OpeningOK /\ FlagsOK
    BY DEF SystemInv, BusOK, ClosingInv
  <1>2. CallerKeeps /\ toClient' = toClient \o FromService(0) /\ up' = up
    BY DEF ServiceStep, CallerKeeps
  <1>3. /\ closed' = closed /\ begun' = begun /\ received' = received
        /\ owner' = owner /\ context' = context /\ pending' = pending /\ ops' = ops
        /\ (BeginAhead' <=> BeginAhead) /\ (Opened' <=> Opened)
        /\ \A o : Started(o)' <=> Started(o)
    BY <1>2, CallerSame
  <1>4. /\ Asks(toPrompter, "Begin")
        /\ \A w : Asks(toPrompter', w) => Asks(toPrompter, w)
        /\ OneBegin(toPrompter) => ~Asks(toPrompter', "Begin")
    BY <1>1, PostMoves
  <1>5. /\ Held /\ ~BeginAhead /\ me \notin callbacks /\ ~begun /\ ~received
        /\ ~Asks(toPrompter, "Stop") /\ ~About(toClient, "Begin")
        /\ ~Asks(toPrompter', "Begin")
    BY <1>1, <1>4 DEF Held, Ahead, Unknown
  <1> DEFINE f == FromService(0)
             x == ToClient("Return", "Begin", 0, None)
             y == ToClient("Ready", "none", NoOp, active'[me])
  <1>6. /\ me \in callbacks' /\ (active'[me] # None => Server'.calls = 1)
        /\ f = <<x>> \/ (f = <<x, y>> /\ active'[me] \in Prompt)
    <2>1. \/ /\ me \notin callbacks /\ me \in callbacks'
             /\ active'[me] = None /\ out'[me] = <<Reply("Return", "Begin")>>
          \/ Turns(<<Reply("Return", "Begin")>>)
      BY <1>1, <1>5, OwnBegin DEF Stays
    <2>2. CASE Turns(<<Reply("Return", "Begin")>>)
      <3>1. f = <<x, y>>
        BY <2>2, FromServiceIs, Appended DEF Turns
      <3>2. QED
        BY <2>2, <3>1, NewServer DEF Turns
    <2>3. CASE active'[me] = None /\ out'[me] = <<Reply("Return", "Begin")>>
      <3>1. f = <<x>>
        BY <2>3, FromServiceIs
      <3>2. QED
        BY <2>1, <2>3, <3>1 DEF Turns
    <2>4. QED
      BY <2>1, <2>2, <2>3
  <1>7. /\ x \in ClientMessage /\ x.msg = "Return" /\ x.arg = "Begin"
        /\ active'[me] \in Prompt => y \in ClientMessage
        /\ y.msg = "Ready" /\ y.arg = "none"
    BY ToClientOK DEF ToClient
  <1> HIDE DEF f, x, y
  <1>8. /\ f \in Seq(ClientMessage) /\ NotRefused(f) /\ ~About(f, "absent")
        /\ ~Asks(f, "Done") /\ \A i \in 1 .. Len(f) : f[i].msg # "Name"
    <2>1. CASE f = <<x>>
      <3>1. /\ \A w : Asks(f, w) <=> x.msg = w
            /\ \A a : About(f, a) <=> x.arg = a
            /\ NotRefused(f) <=> (x.arg = "Begin" => x.msg = "Return")
            /\ \A i \in 1 .. Len(f) : f[i] = x
        BY <2>1, FewSay
      <3>2. f \in Seq(ClientMessage)
        BY <1>7, <2>1
      <3>3. QED
        BY <1>7, <3>1, <3>2
    <2>2. CASE f = <<x, y>> /\ active'[me] \in Prompt
      <3>1. /\ f \in Seq(ClientMessage)
            /\ \A w : Asks(f, w) <=> x.msg = w \/ y.msg = w
            /\ \A a : About(f, a) <=> x.arg = a \/ y.arg = a
            /\ NotRefused(f) <=> /\ x.arg = "Begin" => x.msg = "Return"
                                 /\ y.arg = "Begin" => y.msg = "Return"
            /\ \A i \in 1 .. Len(f) : f[i] \in {x, y}
        BY <1>7, <2>2, TwoSay
      <3>2. QED
        BY <1>7, <3>1
    <2>3. QED
      BY <1>6, <2>1, <2>2
  <1>9. toClient' = toClient \o f
    BY <1>2 DEF f
  <1>10. /\ \A w : Asks(toClient', w) <=> Asks(toClient, w) \/ Asks(f, w)
         /\ \A a : About(toClient', a) <=> About(toClient, a) \/ About(f, a)
         /\ NotRefused(toClient') <=> NotRefused(toClient) /\ NotRefused(f)
         /\ OwnerSoon(toClient) => OwnerSoon(toClient')
    BY <1>1, <1>8, <1>9, MailAdds
  <1>11. Ahead' /\ Unknown'
    BY <1>3, <1>5 DEF Ahead, Unknown
  <1>12. Over'
    BY <1>1, <1>5, <1>8, <1>10 DEF Over
  <1>13. Unheard'
    BY <1>1, <1>3, <1>4, <1>6 DEF Unheard
  <1>14. Accepted'
    BY <1>5, <1>8, <1>10 DEF Accepted, NotRefused, About
  <1>15. NamesOK'
    BY <1>1, <1>3, <1>8, <1>9, NamesStay
  <1>16. OwnerSeen'
    BY <1>1, <1>2, <1>3, <1>5, <1>8, <1>10 DEF OwnerSeen, OwnerKnown
  <1>17. Usable' /\ Dropped'
    BY <1>1, <1>3, <1>5 DEF Usable, Dropped
  <1>18. OpeningOK' /\ FlagsOK'
    <2>1. registered' = registered
      BY DEF BeginPrompting
    <2>2. QED
      BY <1>1, <1>2, <1>3, <2>1 DEF OpeningOK, FlagsOK
  <1>19. QED
    BY <1>11, <1>12, <1>13, <1>14, <1>15, <1>16, <1>17, <1>18 DEF ClosingInv

LEMMA ServiceCalledCloses ==
    ASSUME SystemInv, ClosingInv, ServiceCalled
    PROVE  ClosingInv'
  <1> DEFINE m == Head(toPrompter)
  <1>1. toPrompter # << >> /\ toPrompter' = Tail(toPrompter) /\ ServiceStep(m.op)
    BY DEF ServiceCalled
  <1>2. toPrompter \in Seq(PrompterMessage) /\ PrompterMessageOK(m)
    BY <1>1 DEF SystemInv, BusOK
  <1>3. m.op \in Op \union {NoOp}
    <2>1. m \in PrompterMessage
      BY <1>1, <1>2
    <2>2. QED
      BY <2>1 DEF PrompterMessage
  <1>4. CASE m.msg = "Begin"
    <2>1. m.op = 0 /\ BeginPrompting(me)
      BY <1>2, <1>4 DEF PrompterMessageOK, ServiceCalled
    <2>2. QED
      BY <1>1, <1>4, <2>1, BeginCloses
  <1>5. CASE m.msg = "Perform"
    <2>1. PerformPrompt(me, "confirm", TRUE) /\ m.op \in Op \ {0} /\ Started(m.op)
      BY <1>2, <1>5 DEF PrompterMessageOK, ServiceCalled
    <2>2. QED
      BY <1>1, <1>5, <2>1, PerformCloses
  <1>6. CASE m.msg = "Stop"
    <2>1. StopMethod(me)
      BY <1>6 DEF ServiceCalled
    <2>2. QED
      BY <1>1, <1>3, <1>6, <2>1, StopCloses
  <1>7. QED
    BY <1>4, <1>5, <1>6 DEF ServiceCalled

\* A call that the bus answers is not in the books: nobody is, then.
LEMMA CallBouncesCloses ==
    ASSUME SystemInv, ClosingInv, CallBounces
    PROVE  ClosingInv'
  <1>1. /\ IInv /\ BusOK /\ toPrompter \in Seq(PrompterMessage) /\ FlagsOK /\ Unheard
        /\ OneBegin(toPrompter)
    BY BeginOnce DEF SystemInv, BusOK, ClosingInv
  <1>2. /\ UNCHANGED vars /\ UNCHANGED clientVars /\ up' = up /\ toPrompter # << >>
        /\ toPrompter' = Tail(toPrompter) /\ ~registered
    BY DEF CallBounces
  <1>3. CallerKeeps /\ registered' = registered
    BY <1>2 DEF CallerKeeps, clientVars, vars
  <1>4. me \notin callbacks /\ callbacks' = callbacks /\ active' = active /\ Server' = Server
    BY <1>1, <1>2 DEF IInv, NothingForTheDeparted, vars, Server, ServerOf, Tables
  <1> DEFINE m == Head(toPrompter)
             x == ToClient("Failed", m.msg, m.op, None)
  <1>5. /\ \A w : Asks(toPrompter', w) => Asks(toPrompter, w)
        /\ m.msg = "Begin" => Asks(toPrompter, "Begin") /\ ~Asks(toPrompter', "Begin")
        /\ OneBegin(toPrompter')
    BY <1>1, <1>2, PostMoves
  <1>6. PICK f \in Seq(ClientMessage) :
            /\ toClient' = toClient \o f
            /\ About(f, "Begin") => m.msg = "Begin"
            /\ ~About(f, "absent") /\ ~Asks(f, "Done")
            /\ \A i \in 1 .. Len(f) : f[i].msg # "Name"
    <2>1. CASE m.msg \in {"Begin", "Perform"}
      <3>1. PrompterMessageOK(m)
        BY <1>1, <1>2 DEF BusOK
      <3>2. x \in ClientMessage
        BY <2>1, <3>1, ToClientOK DEF PrompterMessageOK
      <3>3. x.msg = "Failed" /\ x.arg = m.msg
        BY DEF ToClient
      <3>4. toClient' = Append(toClient, x)
        BY <2>1 DEF CallBounces
      <3> DEFINE f == <<x>>
      <3> HIDE DEF x
      <3>5. f \in Seq(ClientMessage) /\ toClient' = toClient \o f
        BY <1>1, <3>2, <3>4 DEF BusOK
      <3>6. /\ \A w : Asks(f, w) <=> x.msg = w
            /\ \A a : About(f, a) <=> x.arg = a
            /\ \A i \in 1 .. Len(f) : f[i] = x
        BY FewSay
      <3> HIDE DEF f, m
      <3>7. QED
        BY <2>1, <3>3, <3>5, <3>6
    <2>2. CASE m.msg \notin {"Begin", "Perform"}
      <3> DEFINE f == << >>
      <3>1. f \in Seq(ClientMessage) /\ toClient' = toClient \o f
        BY <1>1, <2>2 DEF CallBounces, BusOK
      <3>2. (\A w : ~Asks(f, w)) /\ \A a : ~About(f, a)
        BY FewSay
      <3>3. \A i \in 1 .. Len(f) : f[i].msg # "Name"
        OBVIOUS
      <3> HIDE DEF f
      <3>4. QED
        BY <3>1, <3>2, <3>3
    <2>3. QED
      BY <2>1, <2>2
  <1> HIDE DEF m, x
  <1>7. /\ About(f, "Begin") => Asks(toPrompter, "Begin") /\ ~Held'
        /\ Held' => Held
    BY <1>4, <1>5, <1>6 DEF Held
  <1>8. OwnerSeen'
    BY <1>2, <1>3, <1>4, <1>6, <1>7, OwnerStays
  <1>9. /\ ~received /\ active'[me] # None => Server'.calls = 1
        /\ up' \in BOOLEAN /\ (registered' => up')
    BY <1>1, <1>2, <1>3, <1>4 DEF Unheard, FlagsOK
  <1>10. QED
    BY <1>3, <1>4, <1>5, <1>6, <1>7, <1>8, <1>9, ServiceCloses

\* An operation that holds a watch was started.
LEMMA AliveStarted ==
    ASSUME CallerSound, NEW o \in Op, Client!Alive(o) \/ ops[o].watch
    PROVE  Started(o)
  <1>1. ~Started(o) => ~ops[o].watch
    BY DEF CallerSound, OpsSound, OpSound, Client!UnusedOp
  <1>2. QED
    BY <1>1, CallerFacts

LEMMA ServiceExitsCloses ==
    ASSUME SystemInv, ClosingInv, ServiceExits
    PROVE  ClosingInv'
  <1>1. IInv /\ CallerSound /\ BusOK
    BY DEF SystemInv
  <1>2. me \notin callbacks' /\ active'[me] = None
    BY <1>1, ExitTables
  <1>3. PICK f \in Seq(ClientMessage) :
            /\ toClient' = toClient \o f
            /\ \A i \in 1 .. Len(f) :
                  /\ ClientMessageOK(f[i]) /\ f[i].msg \in {"Failed", "Name"}
                  /\ f[i].arg = "Begin" =>
                         \E j \in 1 .. Len(toPrompter) : toPrompter[j].msg = "Begin"
                  /\ f[i].msg = "Name" => Client!Alive(f[i].op)
    BY <1>1, ExitNotice
  <1>4. /\ CallerKeeps /\ toPrompter' = << >> /\ up' = FALSE /\ registered' = FALSE
    BY DEF ServiceExits, CallerKeeps, clientVars
  <1>5. (\A w : ~Asks(toPrompter', w)) /\ OneBegin(toPrompter')
    BY <1>4 DEF Asks, OneBegin
  <1>6. ~Held'
    BY <1>2, <1>5 DEF Held
  <1>7. /\ ~Asks(f, "Done") /\ (About(f, "Begin") => Asks(toPrompter, "Begin"))
        /\ \A i \in 1 .. Len(f) : f[i].msg = "Name" => Started(f[i].op)
    <2>1. \A i \in 1 .. Len(f) : f[i].msg = "Name" => f[i].op \in Op
      BY <1>3 DEF ClientMessageOK
    <2>2. QED
      BY <1>1, <1>3, <2>1, AliveStarted DEF Asks, About
  <1>8. OwnerSeen'
    BY <1>2, <1>6 DEF OwnerSeen
  <1>9. QED
    BY <1>2, <1>3, <1>4, <1>5, <1>6, <1>7, <1>8, ServiceCloses

\* The prompter comes, and a caller that waits for it to begin is told.
LEMMA ServiceStartsCloses ==
    ASSUME SystemInv, ClosingInv, ServiceStarts
    PROVE  ClosingInv'
  <1>1. /\ IInv /\ CallerSound /\ BusOK /\ Unheard /\ Ahead /\ Unknown /\ OpeningOK
        /\ NothingForTheDeparted /\ OneBegin(toPrompter) /\ toClient \in Seq(ClientMessage)
    BY BeginOnce DEF SystemInv, ClosingInv, IInv, BusOK
  <1>2. /\ CallerKeeps /\ toPrompter' = toPrompter /\ up' = TRUE /\ ~registered
        /\ callbacks' = callbacks /\ active' = active /\ Server' = Server
    BY DEF ServiceStarts, CallerKeeps, clientVars, Register, Server, ServerOf, Tables
  <1>3. me \notin callbacks
    BY <1>1, <1>2 DEF NothingForTheDeparted
  <1> DEFINE watches == {o \in Op : Client!Alive(o) /\ ops[o].watch}
             f == Told(watches, TRUE)
  <1>4. toClient' = toClient \o f
    BY DEF ServiceStarts, NameIs
  <1>5. /\ watches \in SUBSET Op /\ \A o \in watches : Started(o)
        /\ ops[0].call = "Begin" => watches # {}
    <2>1. ops[0].call = "Begin" => 0 \in watches
      BY <1>1, OpFacts DEF OpeningOK, Client!Alive
    <2>2. QED
      BY <1>1, <2>1, AliveStarted
  <1> HIDE DEF watches
  <1>6. /\ f \in Seq(ClientMessage) /\ OnlyNames(f)
        /\ \A i \in 1 .. Len(f) : f[i].op \in watches /\ f[i].arg = "present"
        /\ watches # {} => 1 \in 1 .. Len(f)
    BY <1>5, ToldNames
  <1> HIDE DEF f
  <1>7. /\ ~Asks(f, "Done") /\ ~About(f, "Begin") /\ ~About(f, "absent") /\ NotRefused(f)
        /\ \A i \in 1 .. Len(f) : f[i].msg = "Name" => Started(f[i].op)
        /\ ops[0].call = "Begin" => About(f, "present")
    BY <1>5, <1>6 DEF Asks, About, OnlyNames, NotRefused
  <1>8. Held' <=> Asks(toPrompter, "Begin")
    BY <1>2, <1>3 DEF Held
  <1>9. OwnerSeen'
    <2>1. ops' = ops /\ begun' = begun
      BY <1>2, CallerSame
    <2>2. ASSUME ops[0].call = "Begin", Held' PROVE OwnerSoon(toClient')
      <3>1. ~About(toClient, "Begin")
        BY <1>1, <1>8, <2>2 DEF Unknown
      <3>2. QED
        BY <1>1, <1>4, <1>6, <1>7, <2>2, <3>1, MailAdds
    <2>3. QED
      BY <1>2, <1>3, <2>1, <2>2 DEF OwnerSeen
  <1>10. ~received /\ active'[me] # None => Server'.calls = 1
    BY <1>1, <1>2 DEF Unheard
  <1>11. QED
    BY <1>1, <1>2, <1>3, <1>4, <1>6, <1>7, <1>9, <1>10, ServiceCloses

-----------------------------------------------------------------------------
(* Steps of the caller.                                                    *)

\* What is said of the messages to the caller that concern the closing stays true.
Quieter ==
    /\ Asks(toClient', "Done") => Asks(toClient, "Done")
    /\ About(toClient', "Begin") => About(toClient, "Begin")
    /\ NotRefused(toClient) => NotRefused(toClient')
    /\ NamesOK'
    /\ up => (About(toClient', "absent") => About(toClient, "absent"))

\* The service takes no part.
LEMMA ServiceSame ==
    ASSUME SystemInv, ClosingInv, ClientStep
    PROVE  /\ callbacks' = callbacks /\ active' = active /\ Server' = Server
           /\ up' = up /\ registered' = registered /\ (me \in callbacks => up)
           /\ up \in BOOLEAN
  <1>1. IInv /\ FlagsOK
    BY DEF SystemInv, ClosingInv
  <1>2. me \in callbacks => registered
    BY <1>1 DEF IInv, NothingForTheDeparted
  <1>3. QED
    BY <1>1, <1>2, StillServer DEF ClientStep, FlagsOK

LEMMA WatchedSays ==
    ASSUME SystemInv, ClosingInv, Watching, Onward,
           \A q \in Op : ops'[q].watch => ops[q].watch \/ ops'[q].style # "unused"
    PROVE  /\ Quieter
           /\ up /\ OwnerSoon(toClient) => OwnerSoon(toClient')
           /\ /\ up /\ ~ops[0].watch /\ ops'[0].watch /\ ~About(toClient, "Begin")
              => OwnerSoon(toClient')
  <1> DEFINE W == {o \in Op : ~ops[o].watch /\ ops'[o].watch}
             f == Told(W, up)
  <1>1. BusOK /\ toClient \in Seq(ClientMessage) /\ NamesOK /\ up \in BOOLEAN
    BY DEF SystemInv, ClosingInv, BusOK, FlagsOK
  <1>2. /\ W \in SUBSET Op /\ \A o \in W : ops'[o].style # "unused"
        /\ ~ops[0].watch /\ ops'[0].watch => W # {}
    BY OpFacts
  <1>3. toClient' = toClient \o f
    BY DEF Watching
  <1> HIDE DEF W
  <1>4. /\ f \in Seq(ClientMessage) /\ OnlyNames(f)
        /\ \A i \in 1 .. Len(f) : f[i].op \in W /\ f[i].arg = IF up THEN "present" ELSE "absent"
        /\ W # {} => 1 \in 1 .. Len(f)
    BY <1>1, <1>2, ToldNames
  <1> HIDE DEF f
  <1>5. /\ ~Asks(f, "Done") /\ ~About(f, "Begin") /\ NotRefused(f)
        /\ up => ~About(f, "absent")
        /\ up /\ W # {} => About(f, "present")
    BY <1>4 DEF Asks, About, NotRefused, OnlyNames
  <1>6. /\ \A w : Asks(toClient', w) <=> Asks(toClient, w) \/ Asks(f, w)
        /\ \A a : About(toClient', a) <=> About(toClient, a) \/ About(f, a)
        /\ NotRefused(toClient') <=> NotRefused(toClient) /\ NotRefused(f)
        /\ OwnerSoon(toClient) /\ ~About(f, "absent") => OwnerSoon(toClient')
        /\ /\ About(f, "present") /\ ~About(f, "absent") /\ ~About(f, "Begin")
           /\ ~About(toClient, "Begin")
           => OwnerSoon(toClient')
    BY <1>1, <1>3, <1>4, MailAdds
  <1>7. NamesOK'
    <2>1. \A i \in 1 .. Len(f) : ops'[f[i].op].style # "unused"
      BY <1>2, <1>4
    <2>2. \A i \in 1 .. Len(toClient') :
              \/ i \in 1 .. Len(toClient) /\ toClient'[i] = toClient[i]
              \/ i - Len(toClient) \in 1 .. Len(f) /\ toClient'[i] = f[i - Len(toClient)]
      BY <1>1, <1>3, <1>4
    <2>3. \A i \in 1 .. Len(toClient) :
              toClient[i].msg = "Name" => ops'[toClient[i].op].style # "unused"
      BY <1>1 DEF NamesOK, BusOK, ClientMessageOK, Onward, Started, Client!Started
    <2>4. \A i \in 1 .. Len(toClient') :
              toClient'[i].msg = "Name" => ops'[toClient'[i].op].style # "unused"
      BY <2>1, <2>2, <2>3
    <2>5. QED
      BY <2>4 DEF NamesOK, Started, Client!Started
  <1>8. QED
    BY <1>2, <1>5, <1>6, <1>7 DEF Quieter

LEMMA RemovedSays ==
    ASSUME SystemInv, ClosingInv, NEW i \in 1 .. Len(toClient),
           toClient' = RemoveAt(toClient, i), Onward
    PROVE  /\ Quieter
           /\ OwnerSoon(toClient) /\ toClient[i].arg # "present" => OwnerSoon(toClient')
  <1>1. BusOK /\ toClient \in Seq(ClientMessage) /\ NamesOK
    BY DEF SystemInv, ClosingInv, BusOK
  <1>2. /\ \A w : Asks(toClient', w) => Asks(toClient, w)
        /\ \A a : About(toClient', a) => About(toClient, a)
        /\ NotRefused(toClient) => NotRefused(toClient')
        /\ OwnerSoon(toClient) /\ toClient[i].arg # "present" => OwnerSoon(toClient')
    BY <1>1, MailLeaves
  <1>3. \A j \in 1 .. Len(toClient') : \E k \in 1 .. Len(toClient) : toClient'[j] = toClient[k]
    BY SMTT(30), <1>1, ListsRemove
  <1>4. NamesOK'
    BY <1>1, <1>3 DEF NamesOK, BusOK, ClientMessageOK, Onward, Started, Client!Started
  <1>5. QED
    BY <1>2, <1>4 DEF Quieter

\* The call that opens the prompt is where it was.
LEMMA HeldSame ==
    ASSUME SystemInv, ClosingInv, ClientStep, NEW x \in PrompterMessage, x.msg # "Begin",
           toPrompter' \in {toPrompter, toPrompter \o <<x>>}
    PROVE  /\ Held' <=> Held
           /\ Asks(toPrompter', "Begin") <=> Asks(toPrompter, "Begin")
           /\ Asks(toPrompter, "Stop") => Asks(toPrompter', "Stop")
           /\ toPrompter' # toPrompter =>
                 \A w : Asks(toPrompter', w) <=> Asks(toPrompter, w) \/ x.msg = w
           /\ OneBegin(toPrompter')
  <1>1. toPrompter \in Seq(PrompterMessage) /\ OneBegin(toPrompter)
    BY BeginOnce DEF SystemInv, BusOK
  <1>2. /\ \A w : Asks(toPrompter \o <<x>>, w) <=> Asks(toPrompter, w) \/ x.msg = w
        /\ OneBegin(toPrompter) /\ x.msg # "Begin" => OneBegin(toPrompter \o <<x>>)
    BY <1>1, PostMoves
  <1>3. callbacks' = callbacks
    BY ServiceSame
  <1>4. CASE toPrompter' = toPrompter
    BY <1>1, <1>3, <1>4 DEF Held
  <1>5. CASE toPrompter' = toPrompter \o <<x>>
    BY <1>1, <1>2, <1>3, <1>5 DEF Held
  <1>6. QED
    BY <1>4, <1>5

\* The caller does not hear that the prompter has gone.
LEMMA SeenStays ==
    ASSUME SystemInv, ClosingInv, ClientStep, Quieter, owner' = owner, begun' => begun,
           Held' => Held, ops'[0].call = "Begin" => ops[0].call = "Begin",
           ops'[0].call = "Begin" /\ up /\ OwnerSoon(toClient) => OwnerSoon(toClient')
    PROVE  OwnerSeen'
  <1>1. OwnerSeen
    BY DEF ClosingInv
  <1>2. callbacks' = callbacks /\ up' = up /\ (me \in callbacks => up)
    BY ServiceSame
  <1>3. up /\ OwnerKnown => OwnerKnown'
    BY DEF OwnerKnown, Quieter
  <1>4. QED
    BY <1>1, <1>2, <1>3 DEF OwnerSeen

\* What is left to show of a step in which the caller does not open the prompt.
LEMMA CallerCloses ==
    ASSUME SystemInv, ClosingInv, ClientStep, Quieter,
           NEW x \in PrompterMessage, x.msg # "Begin",
           toPrompter' \in {toPrompter, toPrompter \o <<x>>},
           toPrompter' # toPrompter =>
               /\ x.msg = "Answered" => received'
               /\ x.msg = "Stop" => begun,
           BeginAhead' => BeginAhead /\ ~closed',
           BeginAhead' \/ Asks(toPrompter, "Begin") => ~begun' /\ ~received',
           received => received', begun' \in BOOLEAN, received' \in BOOLEAN,
           owner' \in BOOLEAN, OwnerSeen', OpeningOK', Held => Usable' /\ Dropped'
    PROVE  ClosingInv'
  <1>1. Ahead /\ Unknown /\ Over /\ Unheard /\ Accepted /\ FlagsOK
    BY DEF ClosingInv
  <1>2. /\ Held' <=> Held
        /\ Asks(toPrompter', "Begin") <=> Asks(toPrompter, "Begin")
        /\ toPrompter' # toPrompter =>
              \A w : Asks(toPrompter', w) <=> Asks(toPrompter, w) \/ x.msg = w
        /\ OneBegin(toPrompter')
    BY HeldSame
  <1>3. /\ callbacks' = callbacks /\ active' = active /\ Server' = Server
        /\ up' = up /\ registered' = registered
    BY ServiceSame
  <1>4. Ahead'
    BY <1>1, <1>2 DEF Ahead
  <1>5. Unknown'
    <2>1. BeginAhead' \/ Asks(toPrompter, "Begin") =>
              /\ me \notin callbacks /\ ~begun /\ ~received
              /\ ~Asks(toPrompter, "Stop") /\ ~About(toClient, "Begin")
      BY <1>1 DEF Unknown
    <2>2. BeginAhead' \/ Asks(toPrompter, "Begin") => ~Asks(toPrompter', "Stop")
      BY <1>2, <2>1
    <2>3. QED
      BY <1>2, <1>3, <2>1, <2>2 DEF Unknown, Quieter
  <1>6. Over' /\ Accepted'
    BY <1>1, <1>2, <1>3 DEF Over, Accepted, Quieter
  <1>7. Unheard'
    BY <1>1, <1>2, <1>3 DEF Unheard
  <1>8. FlagsOK'
    BY <1>1, <1>3 DEF FlagsOK
  <1>9. Usable' /\ Dropped'
    BY <1>2 DEF Usable, Dropped
  <1>10. QED
    BY <1>4, <1>5, <1>6, <1>7, <1>8, <1>9 DEF ClosingInv, Quieter


\* The caller still hears that the prompter is there.
SoonStays == up /\ OwnerSoon(toClient) => OwnerSoon(toClient')

\* A step that neither closes the prompt nor opens it.
LEMMA CalmCloses ==
    ASSUME SystemInv, ClosingInv, ClientStep, Quieter, Onward,
           closed' = closed, begun' = begun, received' = received,
           NEW x \in PrompterMessage, x.msg \notin {"Begin", "Answered"},
           toPrompter' \in {toPrompter, toPrompter \o <<x>>},
           toPrompter' # toPrompter => x.msg # "Stop",
           BeginAhead' => BeginAhead, owner' \in BOOLEAN, OwnerSeen', OpeningOK',
           Held /\ ~closed => ops'[0].call = ops[0].call \/ ops'[0].cancelled \/ begun,
           Held /\ ~closed /\ (Opened' \/ pending' # NoOp) =>
               begun \/ Opened \/ pending # NoOp,
           ops'[0].call = "Begin" => ops[0].call = "Begin",
           closed => pending' \in {pending, NoOp},
           context' = "none" => context = "none"
    PROVE  ClosingInv'
  <1>1. Ahead /\ Unknown /\ Usable /\ Dropped /\ FlagsOK
    BY DEF ClosingInv
  <1>2. ops[0].cancelled => ops'[0].cancelled
    BY OpFacts DEF Onward
  <1>3. /\ Held' <=> Held
        /\ Asks(toPrompter, "Stop") => Asks(toPrompter', "Stop")
    BY HeldSame
  <1>4. ASSUME Held PROVE Usable' /\ Dropped'
    <2>1. Usable'
      BY <1>1, <1>2, <1>3, <1>4 DEF Usable
    <2>2. Dropped'
      BY <1>1, <1>2, <1>3, <1>4 DEF Dropped
    <2>3. QED
      BY <2>1, <2>2
  <1>5. /\ BeginAhead' => BeginAhead /\ ~closed'
        /\ BeginAhead' \/ Asks(toPrompter, "Begin") => ~begun' /\ ~received'
        /\ begun' \in BOOLEAN /\ received' \in BOOLEAN
    BY <1>1 DEF Ahead, Unknown, FlagsOK
  <1>6. QED
    BY <1>4, <1>5, CallerCloses

\* ... in which it sends nothing and does not hear of the prompter.
LEMMA SilentCloses ==
    ASSUME SystemInv, ClosingInv, ClientStep, Quieter, Onward, SoonStays,
           closed' = closed, begun' = begun, received' = received, owner' = owner,
           NEW p, Sending(p), sent' = << >>,
           BeginAhead' => BeginAhead, OpeningOK',
           Held /\ ~closed => ops'[0].call = ops[0].call \/ ops'[0].cancelled \/ begun,
           Held /\ ~closed /\ (Opened' \/ pending' # NoOp) =>
               begun \/ Opened \/ pending # NoOp,
           ops'[0].call = "Begin" => ops[0].call = "Begin",
           closed => pending' \in {pending, NoOp},
           context' = "none" => context = "none"
    PROVE  ClosingInv'
  <1> DEFINE x == ToPrompter("Stop", NoOp, None)
  <1>1. x \in PrompterMessage /\ x.msg = "Stop"
    BY SilentMessage
  <1> HIDE DEF x
  <1>2. toPrompter' = toPrompter
    BY SendingIs DEF SystemInv
  <1>3. Held' => Held
    BY <1>1, <1>2, HeldSame
  <1>4. OwnerSeen'
    BY <1>3, SeenStays DEF SoonStays
  <1>5. owner' \in BOOLEAN
    BY DEF ClosingInv, FlagsOK
  <1>6. QED
    BY <1>1, <1>2, <1>4, <1>5, CalmCloses

LEMMA OpenCloses ==
    ASSUME SystemInv, ClosingInv, ClientStep, Quieter, Onward, SoonStays, Sending(None),
           NEW style \in Styles, Client!Open(style)
    PROVE  ClosingInv'
  <1>1. CallerSound /\ ClientOK /\ Ahead /\ OpSound(0)
    BY OpFacts DEF SystemInv, CallerSound, OpsSound, ClosingInv
  <1>2. /\ ~Started(0) /\ ops' = [ops EXCEPT ![0].style = style, ![0].call = "bus"]
        /\ sent' = << >>
        /\ UNCHANGED <<closed, begun, received, owner, context, pending>>
    BY DEF Client!Open, Started
  <1>3. ops[0] = Client!UnusedOp
    BY <1>1, <1>2 DEF OpSound
  <1>4. ops'[0].call = "bus" /\ ~ops'[0].waiting /\ ~ops'[0].watch
    BY <1>1, <1>2, <1>3, OpFacts DEF ClientOK, Client!UnusedOp
  <1>5. OpeningOK'
    BY <1>4 DEF OpeningOK
  <1>6. BeginAhead /\ ~Held
    BY <1>1, <1>2 DEF BeginAhead, Ahead
  <1>7. QED
    BY <1>2, <1>4, <1>5, <1>6, SilentCloses

\* What is said of the first operation alone stays true if it is left alone.
LEMMA FirstStays ==
    ASSUME ClosingInv, ops'[0] = ops[0]
    PROVE  OpeningOK' /\ (BeginAhead' <=> BeginAhead) /\ (Opened' <=> Opened)
  BY DEF ClosingInv, OpeningOK, BeginAhead, Started, Client!Started, Opened, Client!Opened,
         Client!Finished

LEMMA AskCloses ==
    ASSUME SystemInv, ClosingInv, ClientStep, Quieter, Onward, SoonStays, Sending(None),
           NEW o \in Op, NEW style \in Styles, Client!Perform(o, style)
    PROVE  ClosingInv'
  <1>1. CallerSound /\ ClientOK /\ BusOK /\ FlagsOK
    BY DEF SystemInv, CallerSound, ClosingInv
  <1>2. /\ o > 0 /\ Opened /\ pending = NoOp
        /\ UNCHANGED <<closed, begun, received, owner>>
    BY OpFacts DEF Client!Perform, Opened
  <1>3. ops'[0] = ops[0]
    BY <1>1, <1>2, OpFacts DEF Client!Perform, ClientOK
  <1>4. OpeningOK' /\ (BeginAhead' <=> BeginAhead) /\ (Opened' <=> Opened)
    BY <1>3, FirstStays
  <1>5. CASE closed
    <2>1. sent' = << >> /\ context' = context /\ pending' = pending
      BY <1>5 DEF Client!Perform
    <2>2. QED
      BY <1>2, <1>3, <1>4, <2>1, SilentCloses
  <1>6. CASE ~closed
    <2> DEFINE c == Client!Call("Perform", o)
               x == ToPrompter("Perform", o, None)
    <2>1. sent' = <<c>> /\ context' # "none"
      BY <1>6 DEF Client!Perform
    <2>2. x \in PrompterMessage /\ x.msg = "Perform"
      BY DEF ToPrompter, PrompterMessage
    <2>3. c.msg = "Perform" /\ c.op = o
      BY DEF Client!Call
    <2> HIDE DEF c
    <2>4. toPrompter' = toPrompter \o <<x>>
      BY <1>1, <2>1, <2>3, SendingIs
    <2> HIDE DEF x
    <2>5. Held' => Held
      BY <2>2, <2>4, HeldSame
    <2>6. OwnerSeen'
      BY <1>2, <1>3, <2>5, SeenStays DEF SoonStays
    <2>7. owner' \in BOOLEAN
      BY <1>1, <1>2 DEF FlagsOK
    <2>8. QED
      BY <1>2, <1>3, <1>4, <1>6, <2>1, <2>2, <2>4, <2>6, <2>7, CalmCloses
  <1>7. QED
    BY <1>5, <1>6

LEMMA CancelCloses ==
    ASSUME SystemInv, ClosingInv, ClientStep, Quieter, Onward, SoonStays, Sending(None),
           NEW o \in Op, Client!Cancel(o)
    PROVE  ClosingInv'
  <1>1. ClientOK /\ OpeningOK
    BY DEF SystemInv, CallerSound, ClosingInv
  <1>2. /\ ops' = [ops EXCEPT ![o].cancelled = TRUE, ![o].aborted = TRUE] /\ sent' = << >>
        /\ UNCHANGED <<closed, begun, received, owner, context, pending>>
    BY DEF Client!Cancel
  <1>3. /\ ops'[0].call = ops[0].call /\ ops'[0].waiting = ops[0].waiting
        /\ ops'[0].watch = ops[0].watch /\ ops'[0].style = ops[0].style
        /\ ops'[0].results = ops[0].results
    BY <1>1, <1>2, OpFacts DEF ClientOK, Client!OpRecord
  <1>4. /\ OpeningOK' /\ (BeginAhead' <=> BeginAhead) /\ (Opened' <=> Opened)
    BY <1>1, <1>3 DEF OpeningOK, BeginAhead, Started, Client!Started, Opened, Client!Opened,
                      Client!Finished
  <1>5. QED
    BY <1>2, <1>3, <1>4, SilentCloses

LEMMA IdleCloses ==
    ASSUME SystemInv, ClosingInv, ClientStep, Quieter, Onward, SoonStays, Sending(None),
           NEW o \in Op, Client!IdleCompletes(o)
    PROVE  ClosingInv'
  <1>1. CallerSound /\ ClientOK /\ OpeningSound /\ OpSound(o)
    BY DEF SystemInv, CallerSound, OpsSound
  <1>2. /\ ops[o].idle > 0 /\ Client!Return(o) /\ sent' = << >>
        /\ UNCHANGED <<closed, begun, received, owner, pending>>
        /\ ops' = [ops EXCEPT ![o] = Client!Complete([ops[o] EXCEPT !.idle = @ - 1], response)]
    BY DEF Client!IdleCompletes, Client!IdleReady
  <1>3. closed
    BY <1>1, <1>2 DEF OpSound
  <1>4. context' = "none" => context = "none"
    BY <1>2 DEF Client!Return
  <1>5. ops'[0].call = ops[0].call /\ OpeningOK' /\ (BeginAhead' => BeginAhead)
    <2>1. CASE o # 0
      <3>1. ops'[0] = ops[0]
        BY <1>1, <1>2, <2>1, OpFacts DEF ClientOK
      <3>2. QED
        BY <3>1, FirstStays
    <2>2. CASE o = 0
      <3>1. ops[0].call = "none"
        BY <1>1, <1>2, <2>2 DEF OpeningSound
      <3>2. ops'[0].call = ops[0].call /\ ops'[0].style = ops[0].style
        BY <1>1, <1>2, <2>2, OpFacts DEF ClientOK, Client!Complete, Client!OpRecord
      <3>3. QED
        BY <3>1, <3>2 DEF OpeningOK, BeginAhead, Started, Client!Started
    <2>3. QED
      BY <2>1, <2>2
  <1>6. QED
    BY <1>2, <1>3, <1>4, <1>5, SilentCloses

LEMMA PerformReturnsCloses ==
    ASSUME SystemInv, ClosingInv, ClientStep, Quieter, Onward, SoonStays, NEW p, Sending(p),
           NEW o \in Op, NEW ok \in BOOLEAN, Client!PerformReturns(o, ok)
    PROVE  ClosingInv'
  <1>1. CallerSound /\ ClientOK
    BY DEF SystemInv, CallerSound
  <1>2. /\ o > 0 /\ sent' = << >> /\ UNCHANGED <<closed, begun, received, owner>>
        /\ pending' \in {pending, NoOp}
        /\ context' = "none" => context = "none"
    BY OpFacts DEF Client!PerformReturns, Client!Return
  <1>3. ops'[0] = ops[0]
    BY <1>1, <1>2, OpFacts DEF Client!PerformReturns, ClientOK
  <1>4. OpeningOK' /\ (BeginAhead' <=> BeginAhead) /\ (Opened' <=> Opened)
    BY <1>3, FirstStays
  <1>5. QED
    BY <1>2, <1>3, <1>4, SilentCloses


\* The prompt is closed, and Stop is sent unless the caller gave up early.
LEMMA ClosesCloses ==
    ASSUME SystemInv, ClosingInv, ClientStep, Quieter, Onward, SoonStays, Sending(None),
           Client!PerformClose(begun), Started(0), ops[0].call = "none",
           ops'[0].call = "none"
    PROVE  ClosingInv'
  <1> DEFINE c == Client!Call("Stop", NoOp)
             x == ToPrompter("Stop", NoOp, None)
  <1>1. x \in PrompterMessage /\ x.msg = "Stop"
    BY SilentMessage
  <1>2. c.msg = "Stop" /\ c.op = NoOp
    BY DEF Client!Call
  <1>3. /\ closed' = TRUE /\ begun' = FALSE /\ pending' = NoOp
        /\ received' = received /\ owner' = owner
        /\ sent' = IF begun /\ context # "none" /\ owner THEN <<c>> ELSE << >>
    BY OpFacts DEF Client!PerformClose, Client!StopIfBegun
  <1> HIDE DEF c
  <1>4. toPrompter' = IF begun /\ context # "none" /\ owner
                      THEN toPrompter \o <<x>> ELSE toPrompter
    BY <1>2, <1>3, SendingIs DEF SystemInv
  <1> HIDE DEF x
  <1>5. Unknown /\ Usable /\ Dropped /\ OwnerSeen /\ FlagsOK
    BY DEF ClosingInv
  <1>6. Started(0)' /\ ops'[0].call # "bus"
    BY OpFacts DEF Onward, Started, Client!Started
  <1>7. ~BeginAhead' /\ OpeningOK'
    BY <1>6 DEF BeginAhead, OpeningOK
  <1>8. /\ Held' <=> Held
        /\ Asks(toPrompter, "Stop") => Asks(toPrompter', "Stop")
        /\ toPrompter' # toPrompter =>
              \A w : Asks(toPrompter', w) <=> Asks(toPrompter, w) \/ x.msg = w
    BY <1>1, <1>4, HeldSame
  <1>9. OwnerSeen'
    BY <1>3, <1>8, SeenStays
  <1>10. ASSUME Held PROVE Asks(toPrompter', "Stop") \/ (~received /\ ops'[0].cancelled)
    <2>1. ops[0].cancelled => ops'[0].cancelled
      BY OpFacts DEF Onward
    <2>2. CASE closed
      BY <1>5, <1>8, <1>10, <2>1, <2>2 DEF Dropped
    <2>3. CASE ~closed /\ ~begun
      BY <1>5, <1>10, <2>1, <2>3 DEF Usable
    <2>4. CASE ~closed /\ begun
      <3>1. context # "none"
        BY <1>5, <1>10, <2>4 DEF Usable
      <3>2. me \in callbacks
        BY <1>5, <1>10, <2>4 DEF Held, Unknown
      <3>3. owner
        BY <1>5, <2>4, <3>2 DEF OwnerSeen, OwnerKnown
      <3>4. toPrompter' = toPrompter \o <<x>>
        BY <1>4, <2>4, <3>1, <3>3
      <3>5. toPrompter' # toPrompter
        <4>1. toPrompter \in Seq(PrompterMessage)
          BY DEF SystemInv, BusOK
        <4>2. Len(toPrompter \o <<x>>) = Len(toPrompter) + 1 /\ Len(toPrompter) \in Nat
          BY <1>1, <4>1
        <4>3. QED
          BY <3>4, <4>2
      <3>6. QED
        BY <1>1, <1>8, <3>5
    <2>5. QED
      BY <2>2, <2>3, <2>4
  <1>11. Held => Usable' /\ Dropped'
    BY <1>3, <1>10 DEF Usable, Dropped
  <1>12. /\ toPrompter' # toPrompter => begun
         /\ Asks(toPrompter, "Begin") => ~begun' /\ ~received'
         /\ begun' \in BOOLEAN /\ received' \in BOOLEAN /\ owner' \in BOOLEAN
    BY <1>3, <1>4, <1>5 DEF Unknown, FlagsOK
  <1>13. QED
    BY <1>1, <1>3, <1>4, <1>7, <1>9, <1>11, <1>12, CallerCloses

\* What perform_close leaves of the operation that opens the prompt.
LEMMA DroppedFirst ==
    ASSUME ClientOK, NEW f, f = Client!DropPending(ops)
    PROVE  /\ f \in [Op -> Client!OpRecord] /\ f[0].call = ops[0].call
           /\ f[0].waiting = ops[0].waiting /\ f[0].watch = ops[0].watch
           /\ f[0].style = ops[0].style
  <1>1. /\ f \in [Op -> Client!OpRecord]
        /\ f[0] = IF 0 = pending THEN [ops[0] EXCEPT !.cancelled = TRUE, !.idle = @ + 1]
                                 ELSE ops[0]
    BY DropPendingIs, OpFacts
  <1>2. ops[0] \in Client!OpRecord
    BY OpFacts DEF ClientOK
  <1>3. QED
    BY <1>1, <1>2 DEF Client!OpRecord

LEMMA CloseCloses ==
    ASSUME SystemInv, ClosingInv, ClientStep, Quieter, Onward, SoonStays, Sending(None),
           Client!Close
    PROVE  ClosingInv'
  <1>1. CallerSound /\ ClientOK
    BY DEF SystemInv, CallerSound
  <1>2. /\ Client!PerformClose(begun) /\ Finished(0) /\ ops' = Client!DropPending(ops)
    BY DEF Client!Close, Finished
  <1>3. Started(0) /\ ops[0].call = "none"
    BY <1>1, <1>2, CallerFacts, OpFacts
  <1>4. ops'[0].call = "none"
    BY <1>1, <1>2, <1>3, DroppedFirst
  <1>5. QED
    BY <1>2, <1>3, <1>4, ClosesCloses

LEMMA CallCancelledCloses ==
    ASSUME SystemInv, ClosingInv, ClientStep, Quieter, Onward, SoonStays, Sending(None),
           NEW o \in Op, Client!CallCancelled(o)
    PROVE  ClosingInv'
  <1> DEFINE f == Client!DropPending(ops)
  <1>1. CallerSound /\ ClientOK /\ OpeningOK
    BY DEF SystemInv, CallerSound, ClosingInv
  <1>2. /\ Client!PerformClose(begun) /\ Client!Alive(o) /\ ops[o].waiting
        /\ ops' = [f EXCEPT ![o].waiting = FALSE, ![o].error = "cancelled"]
    BY DEF Client!CallCancelled, Client!CancelReady
  <1>3. Started(0) /\ ops[0].call = "none"
    <2>1. CASE o = 0
      BY <1>1, <1>2, <2>1, CallerFacts, OpFacts DEF OpeningOK
    <2>2. CASE o # 0
      <3>1. Started(o) /\ o > 0
        BY <1>1, <1>2, <2>2, CallerFacts, OpFacts
      <3>2. Finished(0)
        BY <1>1, <3>1, CallerFacts
      <3>3. QED
        BY <1>1, <3>2, CallerFacts, OpFacts
    <2>3. QED
      BY <2>1, <2>2
  <1>4. f \in [Op -> Client!OpRecord] /\ f[0].call = "none"
    BY <1>1, <1>3, DroppedFirst
  <1> HIDE DEF f
  <1>5. ops'[0].call = "none"
    BY <1>2, <1>4, OpFacts DEF Client!OpRecord
  <1>6. QED
    BY <1>2, <1>3, <1>5, ClosesCloses

LEMMA CallTimeoutCloses ==
    ASSUME SystemInv, ClosingInv, ClientStep, Quieter, Onward, SoonStays, Sending(None),
           Client!CallTimeout
    PROVE  ClosingInv'
  <1> DEFINE f == Client!DropPending(ops)
  <1>1. CallerSound /\ ClientOK /\ OpeningSound
    BY DEF SystemInv, CallerSound, OpsSound
  <1>2. /\ Client!PerformClose(begun) /\ Client!Alive(0) /\ ops[0].timeout
        /\ ops' = [f EXCEPT ![0] = Client!Complete([@ EXCEPT !.timeout = FALSE,
                                                             !.error = "progress"], response)]
    BY DEF Client!CallTimeout
  <1>3. Started(0) /\ ops[0].call = "none"
    BY <1>1, <1>2, CallerFacts, OpFacts DEF OpeningSound
  <1>4. f \in [Op -> Client!OpRecord] /\ f[0].call = "none"
    BY <1>1, <1>3, DroppedFirst
  <1> HIDE DEF f
  <1>5. ops'[0].call = "none"
    BY <1>2, <1>4, OpFacts DEF Client!Complete, Client!OpRecord
  <1>6. QED
    BY <1>2, <1>3, <1>5, ClosesCloses

\* prompt_method_done: the service has let go of the caller.
LEMMA DoneCloses ==
    ASSUME SystemInv, ClosingInv, ClientStep, Quieter, Onward, SoonStays, NEW p, Sending(p),
           Client!DoneCalled, Asks(toClient, "Done")
    PROVE  ClosingInv'
  <1> DEFINE x == ToPrompter("Stop", NoOp, None)
  <1>1. x \in PrompterMessage /\ x.msg = "Stop"
    BY SilentMessage
  <1> HIDE DEF x
  <1>2. ClientOK /\ OpeningOK /\ Over /\ Unknown /\ FlagsOK
    BY DEF SystemInv, CallerSound, ClosingInv
  <1>3. /\ closed' = TRUE /\ begun' = FALSE /\ received' = received /\ owner' = owner
        /\ sent' = << >> /\ ops' = Client!DropPending(ops)
    BY DEF Client!DoneCalled, Client!PerformClose, Client!StopIfBegun
  <1>4. ~Held /\ ~BeginAhead
    BY <1>2 DEF Over
  <1>5. toPrompter' = toPrompter
    BY <1>3, SendingIs DEF SystemInv
  <1>6. /\ ops'[0].call = ops[0].call /\ ops'[0].waiting = ops[0].waiting
        /\ ops'[0].watch = ops[0].watch /\ ops'[0].style = ops[0].style
    BY <1>2, <1>3, DroppedFirst
  <1>7. OpeningOK' /\ ~BeginAhead'
    BY <1>2, <1>4, <1>6 DEF OpeningOK, BeginAhead, Started, Client!Started
  <1>8. Held' <=> Held
    BY <1>1, <1>5, HeldSame
  <1>9. OwnerSeen'
    BY <1>3, <1>6, <1>8, SeenStays DEF SoonStays
  <1>10. /\ Asks(toPrompter, "Begin") => ~begun' /\ ~received'
         /\ begun' \in BOOLEAN /\ received' \in BOOLEAN /\ owner' \in BOOLEAN
    BY <1>2, <1>3 DEF Unknown, FlagsOK
  <1>11. QED
    BY <1>1, <1>3, <1>4, <1>5, <1>7, <1>9, <1>10, CallerCloses

\* prompt_method_ready: whoever is answered has begun.
LEMMA ReadyCloses ==
    ASSUME SystemInv, ClosingInv, ClientStep, Quieter, Onward, SoonStays,
           NEW p \in Prompt \union {None}, Sending(p),
           NEW answer \in {"none", "yes", "no"}, Client!ReadyCalled(answer)
    PROVE  ClosingInv'
  <1>1. /\ CallerSound /\ ClientOK /\ OpeningSound /\ PendingSound
        /\ Unknown /\ Usable /\ Dropped /\ FlagsOK /\ OpeningOK
    BY DEF SystemInv, CallerSound, OpsSound, ClosingInv
  <1>2. closed' = closed /\ begun' = begun /\ owner' = owner
    BY DEF Client!ReadyCalled
  <1>3. CASE pending = NoOp
    <2>1. /\ sent' = << >> /\ ops' = ops /\ context' = context /\ pending' = pending
          /\ received' = received
      BY <1>3, OpFacts DEF Client!ReadyCalled
    <2>2. ops'[0] = ops[0]
      BY <2>1
    <2>3. OpeningOK' /\ (BeginAhead' <=> BeginAhead) /\ (Opened' <=> Opened)
      BY <2>2, FirstStays
    <2>4. QED
      BY <1>2, <2>1, <2>2, <2>3, SilentCloses
  <1>4. CASE pending # NoOp
    <2> DEFINE c == Client!Answered
               x == ToPrompter("Answered", NoOp, p)
    <2>1. /\ sent' = <<c>> /\ received' = TRUE /\ pending' = NoOp
          /\ ops' = [ops EXCEPT ![pending] = Client!Complete(@, answer)]
          /\ context' = "none" => context = "none"
      BY <1>4, OpFacts DEF Client!ReadyCalled, Client!ReadyAnswers, Client!Return
    <2>2. c.msg = "Answered" /\ c.op = NoOp
      BY OpFacts DEF Client!Answered
    <2> HIDE DEF c
    <2>3. x \in PrompterMessage /\ x.msg = "Answered"
      BY OpFacts DEF ToPrompter, PrompterMessage
    <2>4. toPrompter' = toPrompter \o <<x>>
      BY <2>1, <2>2, SendingIs DEF SystemInv
    <2> HIDE DEF x
    <2>5. /\ pending \in Op /\ ops[pending] \in Client!OpRecord
          /\ Started(0) /\ ops[0].call = "none"
      <3>1. pending \in Op /\ ops[pending] \in Client!OpRecord
        BY <1>1, <1>4 DEF ClientOK
      <3>2. ops[0].call = "none"
        BY <1>1, <1>4 DEF OpeningSound
      <3>3. Started(0)
        BY <1>1, <1>4, <3>1, CallerFacts, OpFacts DEF Client!Alive
      <3>4. QED
        BY <3>1, <3>2, <3>3
    <2>6. ops'[0].call = "none" /\ ops'[0].style = ops[0].style
      BY <1>1, <2>1, <2>5, OpFacts DEF ClientOK, Client!Complete, Client!OpRecord
    <2>7. OpeningOK' /\ ~BeginAhead'
      BY <2>5, <2>6 DEF OpeningOK, BeginAhead, Started, Client!Started
    <2>8. Held => ~closed /\ begun /\ context # "none"
      BY <1>1, <1>4 DEF Dropped, Usable
    <2>9. ~Asks(toPrompter, "Begin")
      BY <1>1, <2>8 DEF Held, Unknown
    <2>10. Held' <=> Held
      BY <2>3, <2>4, HeldSame
    <2>11. OwnerSeen'
      BY <1>2, <2>6, <2>10, SeenStays DEF SoonStays
    <2>12. Held => Usable' /\ Dropped'
      BY <1>2, <2>1, <2>8 DEF Usable, Dropped
    <2>13. begun' \in BOOLEAN /\ received' \in BOOLEAN /\ owner' \in BOOLEAN
      BY <1>1, <1>2, <2>1 DEF FlagsOK
    <2>14. QED
      BY <2>1, <2>3, <2>4, <2>7, <2>9, <2>11, <2>12, <2>13, CallerCloses
  <1>5. QED
    BY <1>3, <1>4


\* on_bus_connected: the opening call leaves, and the caller is told who is there.
LEMMA BusConnectedCloses ==
    ASSUME SystemInv, ClosingInv, ClientStep, Quieter, Onward, SoonStays, Sending(None),
           NEW ok \in BOOLEAN, Client!BusConnected(ok),
           /\ up /\ ~ops[0].watch /\ ops'[0].watch /\ ~About(toClient, "Begin")
           => OwnerSoon(toClient')
    PROVE  ClosingInv'
  <1>1. /\ CallerSound /\ ClientOK /\ BusOK
        /\ Ahead /\ Unknown /\ Over /\ Unheard /\ OpeningOK /\ FlagsOK
    BY DEF SystemInv, CallerSound, ClosingInv
  <1>2. /\ ops[0].call = "bus" /\ UNCHANGED <<closed, begun, received, owner, response, pending>>
    BY DEF Client!BusConnected
  <1>3. /\ BeginAhead /\ ~closed /\ ~Held
        /\ me \notin callbacks /\ ~begun /\ ~received
        /\ ~Asks(toPrompter, "Stop") /\ ~About(toClient, "Begin")
        /\ ~Asks(toPrompter, "Begin") /\ ~Asks(toClient, "Done")
    BY <1>1, <1>2 DEF BeginAhead, Ahead, Unknown, Held, Over
  <1>4. ~Opened /\ pending = NoOp /\ Started(0) /\ ~Finished(0)
    BY <1>1, <1>2, CallerFacts
  <1>5. /\ callbacks' = callbacks /\ active' = active /\ Server' = Server
        /\ up' = up /\ registered' = registered
    BY ServiceSame
  <1>6. CASE ok /\ ~ops[0].cancelled
    <2> DEFINE c == Client!Call("Begin", 0)
               x == ToPrompter("Begin", 0, None)
    <2>1. /\ sent' = <<c>>
          /\ ops' = [ops EXCEPT ![0].call = "Begin", ![0].watch = TRUE]
      BY <1>6 DEF Client!BusConnected
    <2>2. c.msg = "Begin" /\ c.op = 0
      BY DEF Client!Call
    <2> HIDE DEF c
    <2>3. x \in PrompterMessage /\ x.msg = "Begin"
      BY OpFacts DEF ToPrompter, PrompterMessage
    <2>4. toPrompter' = toPrompter \o <<x>>
      BY <1>1, <2>1, <2>2, SendingIs
    <2> HIDE DEF x
    <2>5. /\ ops'[0].call = "Begin" /\ ops'[0].watch /\ ~ops'[0].waiting
          /\ ops'[0].style = ops[0].style /\ ops'[0].results = ops[0].results
          /\ ~ops[0].watch
      BY <1>1, <1>2, <2>1, OpFacts DEF ClientOK, Client!OpRecord, OpeningOK
    <2>6. /\ \A w : Asks(toPrompter', w) <=> Asks(toPrompter, w) \/ x.msg = w
          /\ OneBegin(toPrompter')
      BY <1>1, <1>3, <2>3, <2>4, PostMoves DEF BusOK
    <2>7. ~BeginAhead' /\ ~Opened' /\ OpeningOK'
      BY <1>4, <2>5 DEF BeginAhead, Started, Client!Started, Opened, Client!Opened,
                        Finished, Client!Finished, OpeningOK
    <2>8. Ahead' /\ Unknown'
      BY <1>2, <1>3, <1>5, <2>3, <2>6, <2>7 DEF Ahead, Unknown, Quieter
    <2>9. Over' /\ Accepted' /\ NamesOK'
      BY <1>3, <1>5 DEF Over, Accepted, Quieter
    <2>10. Unheard'
      BY <1>1, <1>2, <1>5, <2>3, <2>6 DEF Unheard
    <2>11. OwnerSeen'
      BY <1>2, <1>3, <1>5, <2>5 DEF OwnerSeen
    <2>12. Usable' /\ Dropped'
      BY <1>2, <1>3, <1>4, <2>5, <2>7 DEF Usable, Dropped
    <2>13. FlagsOK'
      BY <1>1, <1>2, <1>5 DEF FlagsOK
    <2>14. QED
      BY <2>7, <2>8, <2>9, <2>10, <2>11, <2>12, <2>13 DEF ClosingInv
  <1>7. CASE ~(ok /\ ~ops[0].cancelled)
    <2> DEFINE isAborted == ops[0].cancelled
    <2>1. /\ sent' = << >> /\ Client!Return(0)
          /\ ops' = [ops EXCEPT ![0] = Client!Complete(Client!Failure(@, isAborted), response)]
      BY <1>7 DEF Client!BusConnected
    <2>2. isAborted \in BOOLEAN
      BY <1>1, OpFacts DEF ClientOK, Client!OpRecord
    <2> HIDE DEF isAborted
    <2>3. ops'[0].call = "none"
      BY <1>1, <1>2, <2>1, <2>2, OpeningFails
    <2>4. OpeningOK'
      BY <2>3 DEF OpeningOK
    <2>5. context' = "none" => context = "none"
      BY <2>1 DEF Client!Return
    <2>6. QED
      BY <1>2, <1>3, <2>1, <2>3, <2>4, <2>5, SilentCloses
  <1>8. QED
    BY <1>6, <1>7

\* on_prompter_begin_prompting, when the call fails or the caller gave up.
LEMMA BeginFailsCloses ==
    ASSUME SystemInv, ClosingInv, ClientStep, Quieter, Onward, SoonStays, NEW p, Sending(p),
           NEW ok \in BOOLEAN, Client!BeginReturns(ok), ~ok \/ ops[0].cancelled,
           ~ops[0].cancelled => \E i \in 1 .. Len(toClient) :
                                    toClient[i].arg = "Begin" /\ toClient[i].msg # "Return"
    PROVE  ClosingInv'
  <1>1. CallerSound /\ ClientOK /\ Unknown /\ Accepted
    BY DEF SystemInv, CallerSound, ClosingInv
  <1> DEFINE isAborted == ops[0].cancelled
  <1>2. /\ sent' = << >> /\ Client!Return(0) /\ ops[0].call = "Begin"
        /\ ops' = [ops EXCEPT ![0] = Client!Complete(Client!Failure(@, isAborted), response)]
        /\ UNCHANGED <<closed, begun, received, owner, response, pending>>
    BY DEF Client!BeginReturns
  <1>3. isAborted \in BOOLEAN
    BY <1>1, OpFacts DEF ClientOK, Client!OpRecord
  <1>4. ops[0].cancelled => ops'[0].cancelled
    BY OpFacts DEF Onward
  <1>5. ~ops[0].cancelled => ~Held
    BY <1>1 DEF About, Held, Unknown, Accepted, NotRefused
  <1> HIDE DEF isAborted
  <1>6. ~Opened' /\ ops'[0].call = "none"
    BY <1>1, <1>2, <1>3, OpeningFails
  <1>7. Started(0) /\ ops'[0].style # "unused"
    BY <1>1, <1>2, CallerFacts, OpFacts DEF Onward, Started, Client!Started
  <1>8. OpeningOK' /\ ~BeginAhead'
    BY <1>6, <1>7 DEF OpeningOK, BeginAhead, Started, Client!Started
  <1>9. context' = "none" => context = "none"
    BY <1>2 DEF Client!Return
  <1>10. QED
    BY <1>2, <1>4, <1>5, <1>6, <1>8, <1>9, SilentCloses

\* A name, while the prompt is being opened, is for the operation that opens it, and
\* is heard where the reply to the opening call is.
LEMMA FirstNames ==
    ASSUME SystemInv, ClosingInv, Held, ops[0].call = "Begin"
    PROVE  /\ ~closed /\ context \in {"main", "run"} /\ Client!Alive(0)
           /\ \A i \in 1 .. Len(toClient) :
                 toClient[i].arg \in {"present", "absent", "Begin"} =>
                     Lane(toClient[i]) = context
           /\ \A i \in 1 .. Len(toClient) :
                 toClient[i].arg \in {"present", "absent"} =>
                     toClient[i].msg = "Name" /\ toClient[i].op = 0
  <1>1. /\ CallerSound /\ BusOK /\ NamesOK /\ Dropped
    BY DEF SystemInv, ClosingInv
  <1>2. ~closed /\ Waits(0) /\ Client!Alive(0)
    BY <1>1, OpFacts DEF Dropped, Waits, Client!Alive
  <1>3. ~Opened
    BY <1>1, CallerFacts
  <1>4. \A o \in Op : Started(o) => o = 0
    BY <1>1, <1>3, CallerFacts, OpFacts
  <1>5. ASSUME NEW i \in 1 .. Len(toClient)
        PROVE  /\ toClient[i].arg \in {"present", "absent"} =>
                     toClient[i].msg = "Name" /\ toClient[i].op = 0
               /\ toClient[i].arg = "Begin" =>
                     toClient[i].msg \in {"Return", "Failed"} /\ toClient[i].op = 0
    <2>1. toClient[i] \in ClientMessage /\ ClientMessageOK(toClient[i])
      BY <1>1 DEF BusOK
    <2>2. toClient[i].msg \in {"Ready", "Done", "Return", "Failed", "Name"}
      BY <2>1 DEF ClientMessage
    <2>3. QED
      BY <1>1, <1>4, <2>1, <2>2 DEF ClientMessageOK, NamesOK
  <1>6. ASSUME NEW i \in 1 .. Len(toClient), toClient[i].arg \in {"present", "absent", "Begin"}
        PROVE  Lane(toClient[i]) = context
    BY <1>1, <1>2, <1>5, <1>6, SameLane, OpFacts
  <1>7. context \in {"main", "run"}
    BY <1>1, <1>2, OpFacts DEF CallerSound, Tuned
  <1>8. QED
    BY <1>2, <1>5, <1>6, <1>7

\* When the opening call returns the caller knows that there is a prompter.
LEMMA BeginReturnsCloses ==
    ASSUME SystemInv, ClosingInv, ClientStep, Quieter, Onward,
           NEW i \in 1 .. Len(toClient), toClient[i].arg = "Begin", Deliverable(i),
           toClient' = RemoveAt(toClient, i),
           NEW p, Sending(p), Client!BeginReturns(TRUE), ~ops[0].cancelled
    PROVE  ClosingInv'
  <1>1. /\ CallerSound /\ ClientOK /\ BusOK /\ Unknown /\ Dropped /\ OwnerSeen /\ FlagsOK
    BY DEF SystemInv, CallerSound, ClosingInv
  <1> DEFINE new == [Client!Await(ops[0]) EXCEPT !.timeout = HasTimeout]
             x == ToPrompter("Stop", NoOp, None)
  <1>2. /\ ops[0].call = "Begin" /\ sent' = << >> /\ begun' = TRUE /\ context' = context
        /\ ops' = [ops EXCEPT ![0] = new]
        /\ UNCHANGED <<closed, received, owner, response>>
    BY DEF Client!BeginReturns
  <1>3. new.call = "none" /\ new.style = ops[0].style
    BY <1>1, OpFacts DEF ClientOK, Client!OpRecord, Client!Await
  <1> HIDE DEF new
  <1>4. ops'[0] = new
    BY <1>1, <1>2, OpFacts DEF ClientOK
  <1>5. Started(0)
    BY <1>1, <1>2, CallerFacts
  <1>6. OpeningOK' /\ ~BeginAhead'
    BY <1>3, <1>4, <1>5 DEF OpeningOK, BeginAhead, Started, Client!Started
  <1>7. x \in PrompterMessage /\ x.msg = "Stop"
    BY SilentMessage
  <1> HIDE DEF x
  <1>8. toPrompter' = toPrompter
    BY <1>1, <1>2, SendingIs
  <1>9. ~Asks(toPrompter, "Begin")
    BY <1>1 DEF Unknown, About
  <1>10. Held => Usable' /\ Dropped'
    <2>1. Held => ~closed /\ context # "none"
      BY <1>2, FirstNames
    <2>2. QED
      BY <1>2, <2>1 DEF Usable, Dropped
  <1>11. ASSUME Held PROVE OwnerKnown
    <2>1. me \in callbacks /\ up
      BY <1>9, <1>11, ServiceSame DEF Held
    <2>2. SUFFICES ASSUME OwnerSoon(toClient) PROVE FALSE
      BY <1>1, <1>2, <1>11, <2>1 DEF OwnerSeen
    <2>3. PICK j \in 1 .. i - 1 : toClient[j].arg = "present"
      BY <1>1, <2>2, MailLeaves DEF BusOK
    <2>4. j \in 1 .. Len(toClient)
      BY <1>1 DEF BusOK
    <2>5. Lane(toClient[j]) = Lane(toClient[i])
      BY <1>2, <1>11, <2>3, <2>4, FirstNames
    <2>6. QED
      BY <2>5 DEF Deliverable
  <1>12. OwnerSeen'
    <2>1. callbacks' = callbacks /\ (me \in callbacks => up)
      BY ServiceSame
    <2>2. me \in callbacks => OwnerKnown /\ up
      BY <1>11, <2>1 DEF Held
    <2>3. me \in callbacks => OwnerKnown'
      BY <1>2, <2>2 DEF OwnerKnown, Quieter
    <2>4. QED
      BY <1>3, <1>4, <2>1, <2>3 DEF OwnerSeen
  <1>13. begun' \in BOOLEAN /\ received' \in BOOLEAN /\ owner' \in BOOLEAN
    BY <1>1, <1>2 DEF FlagsOK
  <1>14. QED
    BY <1>2, <1>6, <1>7, <1>8, <1>9, <1>10, <1>12, <1>13, CallerCloses


\* The caller hears that the prompter has come.
LEMMA PresentCloses ==
    ASSUME SystemInv, ClosingInv, ClientStep, Quieter, Onward,
           NEW i \in 1 .. Len(toClient), toClient[i].arg = "present", Deliverable(i),
           toClient' = RemoveAt(toClient, i),
           NEW p, Sending(p), Client!PrompterPresent
    PROVE  ClosingInv'
  <1> DEFINE x == ToPrompter("Stop", NoOp, None)
  <1>1. x \in PrompterMessage /\ x.msg = "Stop"
    BY SilentMessage
  <1> HIDE DEF x
  <1>2. BusOK /\ OwnerSeen
    BY DEF SystemInv, ClosingInv
  <1>3. /\ owner' = TRUE /\ ops' = ops /\ sent' = << >>
        /\ UNCHANGED <<closed, begun, received, context, pending>>
    BY DEF Client!PrompterPresent
  <1>4. toPrompter' = toPrompter
    BY <1>2, <1>3, SendingIs
  <1>5. Held' <=> Held
    BY <1>1, <1>4, HeldSame
  <1>6. callbacks' = callbacks /\ up' = up /\ (me \in callbacks => up)
    BY ServiceSame
  <1>7. /\ About(toClient', "absent") => About(toClient, "absent")
        /\ OwnerSoon(toClient) /\ (\A j \in 1 .. i - 1 : toClient[j].arg # "absent")
               => OwnerSoon(toClient') \/ ~About(toClient', "absent")
    BY <1>2, MailLeaves DEF BusOK
  <1>8. ASSUME ops[0].call = "Begin", Held, NEW j \in 1 .. i - 1 PROVE toClient[j].arg # "absent"
    <2>1. SUFFICES ASSUME toClient[j].arg = "absent" PROVE FALSE
      OBVIOUS
    <2>2. j \in 1 .. Len(toClient)
      BY <1>2 DEF BusOK
    <2>3. Lane(toClient[j]) = Lane(toClient[i])
      BY <1>8, <2>1, <2>2, FirstNames
    <2>4. QED
      BY <2>3 DEF Deliverable
  <1>9. OwnerSeen'
    BY <1>2, <1>3, <1>5, <1>6, <1>7, <1>8 DEF OwnerSeen, OwnerKnown
  <1>10. ops'[0] = ops[0]
    BY <1>3
  <1>11. OpeningOK' /\ (BeginAhead' <=> BeginAhead) /\ (Opened' <=> Opened)
    BY <1>10, FirstStays
  <1>12. QED
    BY <1>1, <1>3, <1>4, <1>9, <1>11, CalmCloses

\* The caller hears that the prompter has gone.
LEMMA VanishedCloses ==
    ASSUME SystemInv, ClosingInv, ClientStep, Quieter, Onward, SoonStays,
           NEW i \in 1 .. Len(toClient), toClient[i].arg = "absent",
           NEW p, Sending(p), NEW o \in Op, Client!PrompterVanished(o)
    PROVE  ClosingInv'
  <1> DEFINE x == ToPrompter("Stop", NoOp, None)
  <1>1. x \in PrompterMessage /\ x.msg = "Stop"
    BY SilentMessage
  <1> HIDE DEF x
  <1>2. BusOK /\ ClientOK /\ OwnerSeen /\ OpeningOK
    BY DEF SystemInv, CallerSound, ClosingInv
  <1>3. /\ owner' = FALSE /\ sent' = << >>
        /\ UNCHANGED <<closed, begun, received, context, pending>>
        /\ ops' = ops \/ ops' = [ops EXCEPT ![o].cancelled = TRUE]
    BY DEF Client!PrompterVanished
  <1>4. toPrompter' = toPrompter
    BY <1>2, <1>3, SendingIs
  <1>5. Held' <=> Held
    BY <1>1, <1>4, HeldSame
  <1>6. callbacks' = callbacks /\ up' = up
    BY ServiceSame
  <1>7. ~OwnerKnown
    BY DEF OwnerKnown, About
  <1>8. /\ ops'[0].call = ops[0].call /\ ops'[0].waiting = ops[0].waiting
        /\ ops'[0].watch = ops[0].watch /\ ops'[0].style = ops[0].style
        /\ ops'[0].results = ops[0].results
    <2>1. CASE ops' = ops
      BY <2>1
    <2>2. CASE ops' = [ops EXCEPT ![o].cancelled = TRUE]
      BY <1>2, <2>2, OpFacts DEF ClientOK, Client!OpRecord
    <2>3. QED
      BY <1>3, <2>1, <2>2
  <1>9. OwnerSeen'
    BY <1>2, <1>3, <1>5, <1>6, <1>7, <1>8 DEF OwnerSeen, SoonStays
  <1>10. OpeningOK' /\ (BeginAhead' <=> BeginAhead) /\ (Opened' <=> Opened)
    BY <1>2, <1>8 DEF OpeningOK, BeginAhead, Started, Client!Started, Opened, Client!Opened,
                      Client!Finished
  <1>11. QED
    BY <1>1, <1>3, <1>4, <1>8, <1>9, <1>10, CalmCloses

\* What the caller misses is not what it has to know.
LEMMA MissesCloses ==
    ASSUME SystemInv, ClosingInv, NEW i \in 1 .. Len(toClient), ClientMisses(i)
    PROVE  ClosingInv'
  <1> DEFINE m == toClient[i]
             x == ToPrompter("NoObject", NoOp, m.prompt)
  <1>1. /\ ClientStep /\ CallerKeeps /\ toClient' = RemoveAt(toClient, i)
        /\ \/ Lane(m) \in {"none", "dead"}
           \/ m.arg \in {"Begin", "Perform"} /\ ops[m.op].call # m.arg
           \/ m.msg = "Name" /\ ~Client!Alive(m.op)
        /\ toPrompter' \in {toPrompter, Append(toPrompter, x)}
    BY OpFacts DEF ClientMisses, CallerKeeps
  <1>2. BusOK /\ FlagsOK
    BY DEF SystemInv, ClosingInv
  <1>3. m \in ClientMessage
    BY <1>2 DEF BusOK
  <1>4. x \in PrompterMessage /\ x.msg = "NoObject"
    BY <1>3, OpFacts DEF ClientMessage, ToPrompter, PrompterMessage
  <1> HIDE DEF x
  <1>5. toPrompter' \in {toPrompter, toPrompter \o <<x>>}
    BY <1>1, <1>2, <1>4 DEF BusOK
  <1>6. /\ closed' = closed /\ begun' = begun /\ received' = received
        /\ owner' = owner /\ context' = context /\ pending' = pending /\ ops' = ops
    BY <1>1, CallerSame
  <1>7. Onward /\ ops'[0] = ops[0]
    BY <1>6 DEF Onward
  <1>8. Quieter /\ (OwnerSoon(toClient) /\ m.arg # "present" => OwnerSoon(toClient'))
    BY <1>1, <1>7, RemovedSays
  <1>9. OpeningOK' /\ (BeginAhead' <=> BeginAhead) /\ (Opened' <=> Opened)
    BY <1>7, FirstStays
  <1>10. Held' <=> Held
    BY <1>1, <1>4, <1>5, HeldSame
  <1>11. ASSUME ops[0].call = "Begin", Held, m.arg = "present" PROVE FALSE
    <2>1. /\ context \in {"main", "run"} /\ Client!Alive(0) /\ Lane(m) = context
          /\ m.op = 0
      BY <1>11, FirstNames
    <2>2. QED
      BY <1>1, <1>11, <2>1
  <1>12. OwnerSeen'
    <2>1. OwnerSeen
      BY DEF ClosingInv
    <2>2. callbacks' = callbacks /\ up' = up /\ (me \in callbacks => up)
      BY <1>1, ServiceSame
    <2>3. OwnerKnown /\ up => OwnerKnown'
      BY <1>6, <1>8 DEF OwnerKnown, Quieter
    <2>4. QED
      BY <1>6, <1>8, <1>10, <1>11, <2>1, <2>2, <2>3 DEF OwnerSeen
  <1>13. owner' \in BOOLEAN
    BY <1>2, <1>6 DEF FlagsOK
  <1> HIDE DEF m
  <1>14. QED
    BY <1>1, <1>4, <1>5, <1>6, <1>7, <1>8, <1>9, <1>12, <1>13, CalmCloses

\* What is said of the messages when the caller acts by itself.
LEMMA ActingSays ==
    ASSUME SystemInv, ClosingInv, CallerSound', Watching, Onward
    PROVE  /\ Quieter /\ SoonStays
           /\ /\ up /\ ~ops[0].watch /\ ops'[0].watch /\ ~About(toClient, "Begin")
              => OwnerSoon(toClient')
  <1>1. ASSUME NEW q \in Op, ops'[q].watch PROVE ops'[q].style # "unused"
    <2>1. ops'[q].style = "unused" => ops'[q] = Client!UnusedOp
      BY DEF CallerSound, OpsSound, OpSound, Started, Client!Started
    <2>2. QED
      BY <1>1, <2>1 DEF Client!UnusedOp
  <1>2. \A q \in Op : ops'[q].watch => ops[q].watch \/ ops'[q].style # "unused"
    BY <1>1
  <1>3. QED
    BY <1>2, WatchedSays DEF SoonStays

LEMMA ClientActsCloses ==
    ASSUME SystemInv, ClosingInv, ClientActs
    PROVE  ClosingInv'
  <1>1. ClientStep /\ Sending(None) /\ Watching /\ CallerSound /\ Phased
    BY DEF SystemInv, ClientActs
  <1>2. \/ \E style \in Styles : Client!Open(style)
        \/ \E o \in Op, style \in Styles : Client!Perform(o, style)
        \/ \E o \in Op : Client!Cancel(o)
        \/ Client!Close
    BY DEF ClientActs
  <1>3. CASE \E style \in Styles : Client!Open(style)
    <2>1. CallerSound' /\ Onward
      BY <1>1, <1>3, OpenSound
    <2>2. QED
      BY <1>1, <1>3, <2>1, ActingSays, OpenCloses
  <1>4. CASE \E o \in Op, style \in Styles : Client!Perform(o, style)
    <2>1. CallerSound' /\ Onward
      BY <1>1, <1>4, PerformSound
    <2>2. QED
      BY <1>1, <1>4, <2>1, ActingSays, AskCloses
  <1>5. CASE \E o \in Op : Client!Cancel(o)
    <2>1. CallerSound' /\ Onward
      BY <1>1, <1>5, CancelSound
    <2>2. QED
      BY <1>1, <1>5, <2>1, ActingSays, CancelCloses
  <1>6. CASE Client!Close
    <2>1. CallerSound' /\ Onward
      BY <1>1, <1>6, CloseSound DEF Closing
    <2>2. QED
      BY <1>1, <1>6, <2>1, ActingSays, CloseCloses
  <1>7. QED
    BY <1>2, <1>3, <1>4, <1>5, <1>6

LEMMA ClientDispatchesCloses ==
    ASSUME SystemInv, ClosingInv, ClientDispatches
    PROVE  ClosingInv'
  <1>1. ClientStep /\ Sending(None) /\ Watching /\ CallerSound
    BY DEF SystemInv, ClientDispatches
  <1>2. \/ \E ok \in BOOLEAN : Client!BusConnected(ok)
        \/ Client!CallTimeout \/ \E o \in Op : Client!CallCancelled(o)
        \/ ops[0].cancelled /\ Client!BeginReturns(FALSE)
        \/ \E o \in Op : Client!IdleCompletes(o)
        \/ \E o \in Op : Client!PerformReturns(o, FALSE)
    BY DEF ClientDispatches
  <1>3. CASE \E ok \in BOOLEAN : Client!BusConnected(ok)
    <2>1. CallerSound' /\ Onward
      BY <1>1, <1>3, BusConnectedSound
    <2>2. QED
      BY <1>1, <1>3, <2>1, ActingSays, BusConnectedCloses
  <1>4. CASE Client!CallTimeout
    <2>1. CallerSound' /\ Onward
      BY <1>1, <1>4, CallTimeoutSound DEF Closing
    <2>2. QED
      BY <1>1, <1>4, <2>1, ActingSays, CallTimeoutCloses
  <1>5. CASE \E o \in Op : Client!CallCancelled(o)
    <2>1. CallerSound' /\ Onward
      BY <1>1, <1>5, CallCancelledSound DEF Closing
    <2>2. QED
      BY <1>1, <1>5, <2>1, ActingSays, CallCancelledCloses
  <1>6. CASE ops[0].cancelled /\ Client!BeginReturns(FALSE)
    <2>1. CallerSound' /\ Onward
      BY <1>1, <1>6, BeginReturnsSound
    <2>2. QED
      BY <1>1, <1>6, <2>1, ActingSays, BeginFailsCloses
  <1>7. CASE \E o \in Op : Client!IdleCompletes(o)
    <2>1. CallerSound' /\ Onward
      BY <1>1, <1>7, IdleCompletesSound
    <2>2. QED
      BY <1>1, <1>7, <2>1, ActingSays, IdleCloses
  <1>8. CASE \E o \in Op : Client!PerformReturns(o, FALSE)
    <2>1. CallerSound' /\ Onward
      BY <1>1, <1>8, PerformReturnsSound
    <2>2. QED
      BY <1>1, <1>8, <2>1, ActingSays, PerformReturnsCloses
  <1>9. QED
    BY <1>2, <1>3, <1>4, <1>5, <1>6, <1>7, <1>8


LEMMA ClientReceivesCloses ==
    ASSUME SystemInv, ClosingInv, NEW i \in 1 .. Len(toClient), ClientReceives(i)
    PROVE  ClosingInv'
  <1> DEFINE m == toClient[i]
  <1>1. /\ ClientStep /\ Sending(m.prompt) /\ Deliverable(i)
        /\ toClient' = RemoveAt(toClient, i)
        /\ \/ m.msg = "Ready" /\ Client!ReadyCalled(m.arg)
           \/ m.msg = "Done" /\ Client!DoneCalled
           \/ /\ m.arg = "Begin" /\ Client!BeginReturns(m.msg = "Return")
           \/ /\ m.arg = "Perform" /\ Client!PerformReturns(m.op, m.msg = "Return")
           \/ /\ m.msg = "Name" /\ Client!Alive(m.op)
              /\ IF m.arg = "present" THEN Client!PrompterPresent
                                      ELSE Client!PrompterVanished(m.op)
    BY DEF ClientReceives
  <1>2. BusOK /\ CallerSound
    BY DEF SystemInv
  <1>3. m \in ClientMessage /\ ClientMessageOK(m)
    BY <1>2 DEF BusOK
  <1>4. /\ m.prompt \in Prompt \union {None} /\ (m.msg = "Return") \in BOOLEAN
        /\ m.msg \in {"Ready", "Done", "Return", "Failed", "Name"}
    BY <1>3 DEF ClientMessage
  <1>5. ASSUME Onward
        PROVE  Quieter /\ (m.arg # "present" => SoonStays)
    BY <1>1, <1>5, RemovedSays DEF SoonStays
  <1>6. CASE m.msg = "Ready" /\ Client!ReadyCalled(m.arg)
    <2> DEFINE answer == m.arg
    <2>1. answer \in {"none", "yes", "no"} /\ Client!ReadyCalled(answer)
      BY <1>3, <1>6 DEF ClientMessageOK
    <2> HIDE DEF answer
    <2>2. Onward
      <3>1. CASE pending = NoOp
        BY <2>1, <3>1, OpFacts DEF Client!ReadyCalled, Onward
      <3>2. CASE pending # NoOp
        BY <1>2, <2>1, <3>2, ReadyCalledSound
      <3>3. QED
        BY <3>1, <3>2
    <2>3. m.arg # "present"
      BY <2>1 DEF answer
    <2> HIDE DEF m
    <2>4. QED
      BY <1>1, <1>4, <1>5, <2>1, <2>2, <2>3, ReadyCloses
  <1>7. CASE m.msg = "Done" /\ Client!DoneCalled
    <2>1. Onward /\ Asks(toClient, "Done")
      BY <1>2, <1>7, CloseSound DEF Closing, Asks
    <2>2. m.arg # "present"
      BY <1>3, <1>7 DEF ClientMessageOK
    <2> HIDE DEF m
    <2>3. QED
      BY <1>1, <1>5, <1>7, <2>1, <2>2, DoneCloses
  <1>8. CASE m.arg = "Begin" /\ Client!BeginReturns(m.msg = "Return")
    <2> DEFINE ok == m.msg = "Return"
    <2>1. ok \in BOOLEAN /\ Client!BeginReturns(ok)
      BY <1>8
    <2>2. Onward
      <3> HIDE DEF ok
      <3>1. QED
        BY <1>2, <2>1, BeginReturnsSound
    <2>3. CASE ok /\ ~ops[0].cancelled
      <3>1. Client!BeginReturns(TRUE)
        BY <2>1, <2>3
      <3>2. QED
        BY <1>1, <1>5, <1>8, <2>2, <2>3, <3>1, BeginReturnsCloses
    <2>4. CASE ~ok \/ ops[0].cancelled
      <3>1. ~ops[0].cancelled => \E j \in 1 .. Len(toClient) :
                                     toClient[j].arg = "Begin" /\ toClient[j].msg # "Return"
        BY <1>8, <2>4
      <3>2. SoonStays /\ Quieter
        BY <1>5, <1>8, <2>2
      <3> HIDE DEF ok, m
      <3>3. QED
        BY <1>1, <2>1, <2>2, <2>4, <3>1, <3>2, BeginFailsCloses
    <2>5. QED
      BY <2>3, <2>4
  <1>9. CASE m.arg = "Perform" /\ Client!PerformReturns(m.op, m.msg = "Return")
    <2> DEFINE ok == m.msg = "Return"
               o == m.op
    <2>1. o \in Op /\ ok \in BOOLEAN /\ Client!PerformReturns(o, ok)
      BY <1>3, <1>4, <1>9 DEF ClientMessageOK
    <2>2. m.arg # "present"
      BY <1>9
    <2> HIDE DEF ok, o, m
    <2>3. Onward
      BY <1>2, <2>1, PerformReturnsSound
    <2>4. QED
      BY <1>1, <1>5, <2>1, <2>2, <2>3, PerformReturnsCloses
  <1>10. CASE /\ m.msg = "Name" /\ Client!Alive(m.op)
              /\ IF m.arg = "present" THEN Client!PrompterPresent
                                      ELSE Client!PrompterVanished(m.op)
    <2>1. m.op \in Op /\ m.arg \in {"present", "absent"}
      BY <1>3, <1>10 DEF ClientMessageOK
    <2>2. Onward
      BY <1>2, <1>10, <2>1, PresenceSound
    <2>3. CASE m.arg = "present"
      BY <1>1, <1>5, <1>10, <2>2, <2>3, PresentCloses
    <2>4. CASE m.arg = "absent"
      BY <1>1, <1>5, <1>10, <2>1, <2>2, <2>4, VanishedCloses
    <2>5. QED
      BY <2>1, <2>3, <2>4
  <1>11. QED
    BY <1>1, <1>6, <1>7, <1>8, <1>9, <1>10

-----------------------------------------------------------------------------
LEMMA ClosingStarts == SystemInit => ClosingInv
  <1> SUFFICES ASSUME SystemInit PROVE ClosingInv
    OBVIOUS
  <1>1. IInv /\ active = [c \in Callback |-> None] /\ callbacks = {} /\ registered = FALSE
    BY InitIInv DEF SystemInit, Init
  <1>2. /\ closed = FALSE /\ begun = FALSE /\ received = FALSE /\ owner = FALSE
        /\ context = "none" /\ pending = NoOp /\ ops = [o \in Op |-> Client!UnusedOp]
        /\ toPrompter = << >> /\ toClient = << >> /\ up = FALSE
    BY OpFacts DEF SystemInit, Client!PromptInit, Op, Client!Op
  <1>3. ops[0] = Client!UnusedOp
    BY <1>2, OpFacts
  <1>4. /\ ~Started(0) /\ ~Opened
        /\ ops[0].call = "none" /\ ~ops[0].waiting /\ ~ops[0].watch
    BY <1>3 DEF Started, Client!Started, Opened, Client!Opened, Client!Finished,
                Client!UnusedOp
  <1>5. Len(toClient) = 0 /\ Len(toPrompter) = 0
    BY <1>2
  <1>6. /\ \A w : ~Asks(toPrompter, w) /\ ~Asks(toClient, w) /\ ~About(toClient, w)
        /\ NotRefused(toClient) /\ OneBegin(toPrompter)
    BY <1>5 DEF Asks, About, NotRefused, OneBegin
  <1>7. ~Held /\ active[me] = None
    BY <1>1, <1>6, MeAssumption DEF Held
  <1>8. Ahead /\ Unknown /\ Over /\ Unheard /\ Accepted
    BY <1>1, <1>2, <1>6, <1>7 DEF Ahead, Unknown, Over, Unheard, Accepted
  <1>9. NamesOK /\ OwnerSeen /\ Usable /\ Dropped
    BY <1>2, <1>5, <1>7 DEF NamesOK, OwnerSeen, Usable, Dropped
  <1>10. OpeningOK /\ FlagsOK
    BY <1>1, <1>2, <1>4 DEF OpeningOK, FlagsOK
  <1>11. QED
    BY <1>8, <1>9, <1>10 DEF ClosingInv

LEMMA ClosingStutters ==
    ASSUME ClosingInv, UNCHANGED systemVars
    PROVE  ClosingInv'
  <1>1. /\ callbacks' = callbacks /\ active' = active /\ prompts' = prompts
        /\ waiting' = waiting /\ registered' = registered
        /\ closed' = closed /\ begun' = begun /\ received' = received /\ owner' = owner
        /\ context' = context /\ pending' = pending /\ ops' = ops
        /\ toPrompter' = toPrompter /\ toClient' = toClient /\ up' = up
    BY DEF systemVars, vars, clientVars, busVars
  <1>2. Server' = Server
    BY <1>1 DEF Server, ServerOf, Tables
  <1>3. /\ (BeginAhead' <=> BeginAhead) /\ (Held' <=> Held) /\ (Opened' <=> Opened)
        /\ \A o : Started(o)' <=> Started(o)
    BY <1>1 DEF BeginAhead, Held, Opened, Client!Opened, Client!Finished, Started,
                Client!Started
  <1>4. Ahead' /\ Unknown' /\ Over' /\ Unheard' /\ Accepted'
    BY <1>1, <1>2, <1>3 DEF ClosingInv, Ahead, Unknown, Over, Unheard, Accepted
  <1>5. NamesOK' /\ OwnerSeen' /\ Usable' /\ Dropped'
    BY <1>1, <1>3 DEF ClosingInv, NamesOK, OwnerSeen, OwnerKnown, Usable, Dropped
  <1>6. OpeningOK' /\ FlagsOK'
    BY <1>1 DEF ClosingInv, OpeningOK, FlagsOK
  <1>7. QED
    BY <1>4, <1>5, <1>6 DEF ClosingInv

LEMMA ClosingHolds == SystemInv /\ ClosingInv /\ [SystemNext]_systemVars => ClosingInv'
  <1> SUFFICES ASSUME SystemInv, ClosingInv, [SystemNext]_systemVars PROVE ClosingInv'
    OBVIOUS
  <1>1. CASE ServiceCalled
    BY <1>1, ServiceCalledCloses
  <1>2. CASE CallBounces
    BY <1>2, CallBouncesCloses
  <1>3. CASE ReadyAnswered
    BY <1>3, ReadyAnsweredCloses
  <1>4. ASSUME NEW p \in Prompt, NEW ok \in BOOLEAN, ReadyEnds(p, ok) PROVE ClosingInv'
    BY <1>4, ReadyEndsCloses
  <1>5. ASSUME NEW p \in Prompt, NEW answer \in {"yes", "no"}, UserAnswersPrompt(p, answer)
        PROVE  ClosingInv'
    BY <1>5, UserAnswersCloses
  <1>6. ASSUME NEW p \in Prompt, UserClosesPrompt(p) PROVE ClosingInv'
    BY <1>6, UserClosesCloses
  <1>7. ASSUME NEW d \in Others, OtherCaller(d) PROVE ClosingInv'
    BY <1>7, OtherCallerCloses
  <1>8. CASE ServiceQuits
    BY <1>8, ServiceQuitsCloses
  <1>9. CASE ServiceStarts
    BY <1>9, ServiceStartsCloses
  <1>10. CASE ServiceExits
    BY <1>10, ServiceExitsCloses
  <1>11. CASE ClientActs
    BY <1>11, ClientActsCloses
  <1>12. CASE ClientDispatches
    BY <1>12, ClientDispatchesCloses
  <1>13. ASSUME NEW i \in 1 .. Len(toClient), ClientReceives(i) PROVE ClosingInv'
    BY <1>13, ClientReceivesCloses
  <1>14. ASSUME NEW i \in 1 .. Len(toClient), ClientMisses(i) PROVE ClosingInv'
    BY <1>14, MissesCloses
  <1>15. CASE UNCHANGED systemVars
    BY <1>15, ClosingStutters
  <1>16. QED
    BY <1>1, <1>2, <1>3, <1>4, <1>5, <1>6, <1>7, <1>8, <1>9, <1>10, <1>11, <1>12, <1>13,
       <1>14, <1>15 DEF SystemNext

\* Once the caller has closed its prompt and everything between it and the prompter has
\* arrived, the prompter has let go of it: no dialog stays open for a prompt that is
\* closed, unless the caller gave up before it heard anything, and then there is none
\* yet (perform_close sends Stop only if begun_prompting and prompt_owner are set).
THEOREM ClosedAreDropped == SystemSpec => []NoPromptForTheClosed
  <1> DEFINE I == Together /\ ClosingInv
  <1>1. SystemInit => I
    BY SystemStarts, ClosingStarts DEF Together
  <1>2. I /\ [SystemNext]_systemVars => I'
    BY SystemKeeps, UpKeeps, ClosingHolds DEF Together
  <1>3. I => NoPromptForTheClosed
    BY ClosingSays DEF Together
  <1>4. QED
    BY <1>1, <1>2, <1>3, PTL DEF SystemSpec
=============================================================================
