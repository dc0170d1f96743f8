------------------------ MODULE SystemPrompterProofs ------------------------
(***************************************************************************)
(* Proofs about the prompter service, for any number of callbacks, callers *)
(* and structures and for both modes.                                      *)
(*                                                                         *)
(* The handlers are compositions of functions on the tables, so the        *)
(* invariant is stated of a record of tables, Sound(st, h), and each       *)
(* function is shown to preserve it.  h is the structure a completion      *)
(* holds a reference to while it runs, or None between handlers.           *)
(*                                                                         *)
(* The second half is about the process of the service, and about the      *)
(* service as callers see it: it implements the abstract queue of          *)
(* PromptQueue, and it ends the prompting of nobody who could hear of it   *)
(* without telling him.                                                    *)
(***************************************************************************)
EXTENDS PrompterProcess, TLAPS

One(b) == IF b THEN 1 ELSE 0

\* What a structure looks like: inTable is 1 when it is in the active table
\* and held is 1 when a running completion holds it, else they are 0.
PromptOK(pr, inTable, held) ==
    /\ pr.refs = pr.calls + pr.ops + inTable + held
    /\ pr.refs > 0 => pr.calls + pr.ops = One(~pr.ready)
    /\ inTable = 1 => ~pr.cancelled
    /\ inTable = 0 /\ pr.calls + pr.ops > 0 => pr.cancelled
    /\ pr.cancelled => pr.ops = 0
    /\ pr.ops > 0 => pr.received

TableRecord ==
    [callbacks : SUBSET Callback,
     waiting : [Callback -> SUBSET Callback],
     active : [Callback -> Prompt \union {None}],
     prompts : [Prompt -> PromptRecord],
     out : [Callback -> Seq(Message)]]

IsIn(st, p) == \E c \in Callback : st.active[c] = p
InTables(st, p) == One(IsIn(st, p))

Sound(st, h) ==
    /\ st \in TableRecord
    /\ IsLine(st.waiting)
    /\ \A c \in Callback :
          /\ c \in st.callbacks <=> (st.waiting[c] # {} \/ st.active[c] # None)
          /\ st.waiting[c] = {} \/ st.active[c] = None
          /\ st.active[c] # None => st.prompts[st.active[c]].callback = c
    /\ Mode = "single" =>
          \A c, d \in Callback : st.active[c] # None /\ st.active[d] # None => c = d
    /\ \A p \in Prompt : PromptOK(st.prompts[p], InTables(st, p), One(p = h))

NobodyWaits(st) == Mode # "single" => \A c \in Callback : st.waiting[c] = {}

\* The inductive invariant.
IInv ==
    /\ registered \in BOOLEAN
    /\ gone \in SUBSET Caller
    /\ out \in [Callback -> Seq(Message)]
    /\ Sound(Tables, None)
    /\ NobodyWaits(Tables)
    /\ NothingForTheDeparted

-----------------------------------------------------------------------------
(* The queue.                                                              *)

LEMMA RemoveLine ==
    ASSUME NEW q \in [Callback -> SUBSET Callback], IsLine(q), NEW S
    PROVE  /\ Without(q, S) \in [Callback -> SUBSET Callback]
           /\ IsLine(Without(q, S))
           /\ \A c \in Callback :
                 Without(q, S)[c] # {} <=> q[c] # {} /\ c \notin S
  BY DEF IsLine, Without, QueuedIn

LEMMA PushLine ==
    ASSUME NEW q \in [Callback -> SUBSET Callback], IsLine(q),
           NEW c \in Callback, q[c] = {}
    PROVE  /\ PushTail(q, c) \in [Callback -> SUBSET Callback]
           /\ IsLine(PushTail(q, c))
           /\ \A d \in Callback : PushTail(q, c)[d] # {} <=> q[d] # {} \/ d = c
           /\ (\A d \in Callback : q[d] = {}) => IsHead(PushTail(q, c), c)
  <1>1. /\ PushTail(q, c) \in [Callback -> SUBSET Callback]
        /\ \A d \in Callback : PushTail(q, c)[d] # {} <=> q[d] # {} \/ d = c
        /\ QueuedIn(PushTail(q, c)) = QueuedIn(q) \union {c}
        /\ PushTail(q, c)[c] = QueuedIn(q) \union {c}
        /\ \A d \in Callback : d # c => PushTail(q, c)[d] = q[d]
    BY DEF PushTail, QueuedIn
  <1>2. IsLine(PushTail(q, c))
    BY <1>1 DEF IsLine, QueuedIn
  <1>3. QED
    BY <1>1, <1>2 DEF IsHead, QueuedIn

-----------------------------------------------------------------------------
(* ActivePrompt structures.                                                *)

LEMMA FreeOK == FreePrompt \in PromptRecord /\ PromptOK(FreePrompt, 0, 0)
  BY DEF FreePrompt, PromptRecord, PromptOK, One

LEMMA NewOK ==
    ASSUME NEW c \in Callback
    PROVE  LET pr == SendReady(NewPrompt(c))
           IN  pr \in PromptRecord /\ pr.callback = c /\ PromptOK(pr, 1, 0)
  <1> DEFINE new == SendReady(NewPrompt(c))
  <1>1. /\ NewPrompt(c) \in PromptRecord
        /\ NewPrompt(c) = [FreePrompt EXCEPT !.callback = c, !.refs = 1]
    BY DEF NewPrompt, FreePrompt, PromptRecord
  <1>2. new \in PromptRecord
    <2>1. ASSUME NEW pr \in PromptRecord
          PROVE  SendReady(pr) \in PromptRecord
      <3>1. pr.refs + 1 \in Nat /\ pr.calls + 1 \in Nat
        BY DEF PromptRecord
      <3>2. QED
        BY <3>1 DEF SendReady, PromptRecord
    <2>2. QED
      BY <1>1, <2>1
  <1>3. /\ new.callback = c /\ new.refs = 2 /\ new.calls = 1 /\ new.ops = 0
        /\ ~new.ready /\ ~new.cancelled
    BY <1>1 DEF SendReady, FreePrompt, PromptRecord
  <1> HIDE DEF new
  <1>4. PromptOK(new, 1, 0)
    BY <1>3 DEF PromptOK, One
  <1>5. QED
    BY <1>2, <1>3, <1>4 DEF new

LEMMA AnswerOK ==
    ASSUME NEW pr \in PromptRecord, PromptOK(pr, 1, 0), pr.ops > 0
    PROVE  LET new == OperationDone(pr)
           IN  /\ new \in PromptRecord /\ new.callback = pr.callback
               /\ PromptOK(new, 1, 0)
  <1> DEFINE new == OperationDone(pr)
  <1>1. pr.ops - 1 \in Nat /\ pr.calls + 1 \in Nat
    BY DEF PromptRecord
  <1>2. new \in PromptRecord
    BY <1>1 DEF OperationDone, PromptRecord
  <1>3. /\ new.callback = pr.callback /\ new.refs = pr.refs
        /\ new.calls = pr.calls + 1 /\ new.ops = pr.ops - 1
        /\ new.ready = pr.ready /\ new.cancelled = pr.cancelled
        /\ new.received = pr.received
    BY DEF OperationDone, PromptRecord
  <1> HIDE DEF new
  <1>4. PromptOK(new, 1, 0)
    BY <1>2, <1>3 DEF PromptOK, One, PromptRecord
  <1>5. QED
    BY <1>2, <1>3, <1>4 DEF new

LEMMA PerformingOK ==
    ASSUME NEW pr \in PromptRecord, PromptOK(pr, 1, 0), pr.ready, pr.refs > 0
    PROVE  LET new == Performing(pr)
           IN  /\ new \in PromptRecord /\ new.callback = pr.callback
               /\ PromptOK(new, 1, 0)
  <1> DEFINE new == Performing(pr)
  <1> DEFINE counted == [pr EXCEPT !.refs = @ + 1, !.ops = @ + 1]
             unready == [counted EXCEPT !.ready = FALSE, !.shown = TRUE]
  <1>0. /\ counted \in PromptRecord
        /\ unready \in PromptRecord
    <2>1. pr.refs + 1 \in Nat /\ pr.ops + 1 \in Nat
      BY DEF PromptRecord
    <2>2. counted \in PromptRecord
      BY <2>1 DEF PromptRecord
    <2> HIDE DEF counted
    <2>3. QED
      BY <2>2 DEF PromptRecord
  <1>1. new \in PromptRecord
    <2>1. new = [unready EXCEPT !.received = TRUE]
      BY DEF Performing
    <2> HIDE DEF unready
    <2>2. QED
      BY <1>0, <2>1 DEF PromptRecord
  <1>2. /\ new.callback = pr.callback /\ new.refs = pr.refs + 1
        /\ new.calls = pr.calls /\ new.ops = pr.ops + 1
        /\ ~new.ready /\ new.cancelled = pr.cancelled
        /\ new.received
    BY DEF Performing, PromptRecord
  <1> HIDE DEF new
  <1>3. pr.calls = 0 /\ pr.ops = 0 /\ pr.refs = 1
    BY DEF PromptOK, One, PromptRecord
  <1>4. new.refs = 2 /\ new.calls = 0 /\ new.ops = 1
    BY <1>2, <1>3
  <1>5. ~new.cancelled
    BY <1>2 DEF PromptOK
  <1>6. PromptOK(new, 1, 0)
    BY <1>2, <1>4, <1>5 DEF PromptOK, One
  <1>7. QED
    BY <1>1, <1>2, <1>6 DEF new

LEMMA ReceivedOK ==
    ASSUME NEW pr \in PromptRecord, PromptOK(pr, 1, 0)
    PROVE  LET new == [pr EXCEPT !.received = TRUE]
           IN  /\ new \in PromptRecord /\ new.callback = pr.callback
               /\ PromptOK(new, 1, 0)
  BY DEF PromptOK, One, PromptRecord

LEMMA CompletedOK ==
    ASSUME NEW pr \in PromptRecord, NEW t \in {0, 1}, PromptOK(pr, t, 0),
           pr.calls > 0
    PROVE  LET new == Completed(pr)
           IN  /\ new \in PromptRecord /\ new.callback = pr.callback
               /\ PromptOK(new, t, 1)
  <1> DEFINE new == Completed(pr)
  <1>1. pr.calls - 1 \in Nat
    BY DEF PromptRecord
  <1>2. new \in PromptRecord
    BY <1>1 DEF Completed, PromptRecord
  <1>3. /\ new.callback = pr.callback /\ new.refs = pr.refs
        /\ new.calls = pr.calls - 1 /\ new.ops = pr.ops
        /\ new.ready = TRUE /\ new.cancelled = pr.cancelled
        /\ new.received = pr.received
    BY DEF Completed, PromptRecord
  <1> HIDE DEF new
  <1>4. PromptOK(new, t, 1)
    BY <1>2, <1>3 DEF PromptOK, One, PromptRecord
  <1>5. QED
    BY <1>2, <1>3, <1>4 DEF new

LEMMA ReleaseOK ==
    ASSUME NEW pr \in PromptRecord, NEW t \in {0, 1}, PromptOK(pr, t, 1)
    PROVE  /\ Unref(pr) \in PromptRecord
           /\ PromptOK(Unref(pr), t, 0)
           /\ t = 1 => Unref(pr).callback = pr.callback
  <1>1. CASE pr.refs = 1
    <2>1. pr.calls = 0 /\ pr.ops = 0 /\ t = 0 /\ Unref(pr) = FreePrompt
      BY <1>1 DEF PromptOK, PromptRecord, Unref
    <2>2. QED
      BY <2>1, FreeOK
  <1>2. CASE pr.refs # 1
    <2> DEFINE new == Unref(pr)
    <2>1. new = [pr EXCEPT !.refs = @ - 1]
      BY <1>2 DEF Unref
    <2>2. pr.refs - 1 \in Nat
      BY DEF PromptOK, PromptRecord
    <2>3. new \in PromptRecord
      BY <2>1, <2>2 DEF PromptRecord
    <2>4. /\ new.refs = pr.refs - 1 /\ new.callback = pr.callback
          /\ new.calls = pr.calls /\ new.ops = pr.ops
          /\ new.ready = pr.ready /\ new.cancelled = pr.cancelled
          /\ new.received = pr.received
      BY <2>1 DEF PromptRecord
    <2> HIDE DEF new
    <2>5. PromptOK(new, t, 0)
      BY <2>4 DEF PromptOK, PromptRecord, One
    <2>6. QED
      BY <2>3, <2>4, <2>5 DEF new
  <1>3. QED
    BY <1>1, <1>2

LEMMA LeaveTableOK ==
    ASSUME NEW pr \in PromptRecord, NEW held \in {0, 1},
           pr.refs = pr.calls + pr.ops + 1 + held,
           pr.calls + pr.ops = One(~pr.ready),
           pr.calls + pr.ops > 0 => pr.cancelled,
           pr.cancelled => pr.ops = 0
    PROVE  /\ Unref(pr) \in PromptRecord
           /\ PromptOK(Unref(pr), 0, held)
  BY FreeOK DEF Unref, PromptRecord, PromptOK, One, FreePrompt

LEMMA ClosedOK ==
    ASSUME NEW pr \in PromptRecord, NEW held \in {0, 1}, PromptOK(pr, 1, held)
    PROVE  /\ Closed(pr) \in PromptRecord
           /\ PromptOK(Closed(pr), 0, held)
  <1> DEFINE dropped == IF pr.ops = 0 THEN Cancelled(pr) ELSE OperationDone(Cancelled(pr))
  <1>1. /\ Cancelled(pr) \in PromptRecord
        /\ Cancelled(pr).cancelled = ~pr.ready
        /\ Cancelled(pr).refs = pr.refs
        /\ Cancelled(pr).calls = pr.calls /\ Cancelled(pr).ops = pr.ops
        /\ Cancelled(pr).ready = pr.ready /\ Cancelled(pr).received = pr.received
    BY DEF Cancelled, PromptOK, PromptRecord
  <1>2. pr.ops \in {0, 1}
    BY DEF PromptOK, PromptRecord, One
  <1>3. dropped \in PromptRecord
    <2>1. ASSUME NEW x \in PromptRecord, x.ops > 0
          PROVE  OperationDone(x) \in PromptRecord
      <3>1. x.calls + 1 \in Nat /\ x.ops - 1 \in Nat
        BY <2>1 DEF PromptRecord
      <3>2. QED
        BY <3>1 DEF OperationDone, PromptRecord
    <2>2. QED
      BY <1>1, <1>2, <2>1
  <1>4. /\ dropped.cancelled = ~pr.ready /\ dropped.refs = pr.refs
        /\ dropped.calls = pr.calls + pr.ops /\ dropped.ops = 0
        /\ dropped.ready = pr.ready /\ dropped.received = pr.received
    BY <1>1, <1>2 DEF OperationDone, PromptRecord
  <1> HIDE DEF dropped
  <1>5. /\ dropped.refs = dropped.calls + dropped.ops + 1 + held
        /\ dropped.calls + dropped.ops = One(~dropped.ready)
        /\ dropped.calls + dropped.ops > 0 => dropped.cancelled
    BY <1>3, <1>4 DEF PromptOK, PromptRecord, One
  <1>6. QED
    BY <1>3, <1>4, <1>5, LeaveTableOK DEF Closed, dropped


-----------------------------------------------------------------------------
(* The functions the handlers are composed of.                             *)

LEMMA SoundParts ==
    ASSUME NEW st, NEW h, Sound(st, h)
    PROVE  /\ st \in TableRecord
           /\ st.callbacks \in SUBSET Callback
           /\ st.waiting \in [Callback -> SUBSET Callback]
           /\ st.active \in [Callback -> Prompt \union {None}]
           /\ st.prompts \in [Prompt -> PromptRecord]
           /\ st.out \in [Callback -> Seq(Message)]
           /\ \A p \in Prompt : PromptOK(st.prompts[p], InTables(st, p), One(p = h))
           /\ \A c \in Callback : st.active[c] # None => st.prompts[st.active[c]].callback = c
  BY DEF Sound, TableRecord

LEMMA PostSound ==
    ASSUME NEW st, NEW h, Sound(st, h), NEW c \in Callback, NEW m \in Message
    PROVE  LET new == Post(st, c, m)
           IN  /\ Sound(new, h)
               /\ new.callbacks = st.callbacks /\ new.waiting = st.waiting
               /\ new.active = st.active /\ new.prompts = st.prompts
  <1> DEFINE new == Post(st, c, m)
  <1>1. /\ new.callbacks = st.callbacks /\ new.waiting = st.waiting
        /\ new.active = st.active /\ new.prompts = st.prompts
    BY SoundParts DEF Post, TableRecord
  <1>2. Put(st.out, c, Append(st.out[c], m)) \in [Callback -> Seq(Message)]
    BY SoundParts DEF Put
  <1>3. new \in TableRecord
    <2> DEFINE said == Put(st.out, c, Append(st.out[c], m))
    <2>1. new = [st EXCEPT !.out = said]
      BY DEF Post
    <2> HIDE DEF new, said
    <2>2. said \in [Callback -> Seq(Message)]
      BY <1>2 DEF said
    <2>3. st \in TableRecord
      BY SoundParts
    <2>4. QED
      BY <2>1, <2>2, <2>3 DEF TableRecord
  <1> HIDE DEF new
  <1>4. \A p \in Prompt : InTables(new, p) = InTables(st, p)
    BY <1>1 DEF InTables, IsIn
  <1>5. Sound(new, h)
    BY <1>1, <1>3, <1>4 DEF Sound
  <1>6. QED
    BY <1>1, <1>5 DEF new

\* A structure may change as long as it fits its place.
LEMMA UpdateSound ==
    ASSUME NEW st, NEW h, NEW k, NEW p \in Prompt, NEW pr \in PromptRecord,
           Sound(st, h), h \in {None, p}, k \in {None, p},
           PromptOK(pr, InTables(st, p), One(p = k)),
           IsIn(st, p) => pr.callback = st.prompts[p].callback
    PROVE  LET new == Update(st, p, pr)
           IN  /\ Sound(new, k)
               /\ new.callbacks = st.callbacks /\ new.waiting = st.waiting
               /\ new.active = st.active
               /\ new.prompts[p] = pr
  <1> DEFINE new == Update(st, p, pr)
  <1>1. /\ new.callbacks = st.callbacks /\ new.waiting = st.waiting
        /\ new.active = st.active
        /\ new.prompts = Put(st.prompts, p, pr)
    BY SoundParts DEF Update, TableRecord
  <1>2. /\ new.prompts \in [Prompt -> PromptRecord]
        /\ new.prompts[p] = pr
        /\ \A q \in Prompt \ {p} : new.prompts[q] = st.prompts[q]
    BY <1>1, SoundParts DEF Put
  <1>3. new \in TableRecord
    <2> DEFINE changed == Put(st.prompts, p, pr)
    <2>1. new = [st EXCEPT !.prompts = changed]
      BY DEF Update
    <2>2. changed \in [Prompt -> PromptRecord]
      BY <1>1, <1>2
    <2> HIDE DEF new, changed
    <2>3. st \in TableRecord
      BY SoundParts
    <2>4. QED
      BY <2>1, <2>2, <2>3 DEF TableRecord
  <1> HIDE DEF new
  <1>4. \A q \in Prompt : InTables(new, q) = InTables(st, q)
    BY <1>1 DEF InTables, IsIn
  <1>5. \A q \in Prompt : PromptOK(new.prompts[q], InTables(new, q), One(q = k))
    <2> TAKE q \in Prompt
    <2>1. CASE q = p
      BY <2>1, <1>2, <1>4
    <2>2. CASE q # p
      <3>1. One(q = h) = One(q = k)
        BY <2>2, NoneAssumption DEF One
      <3>2. PromptOK(st.prompts[q], InTables(st, q), One(q = h))
        BY SoundParts
      <3>3. QED
        BY <2>2, <3>1, <3>2, <1>2, <1>4
    <2>3. QED
      BY <2>1, <2>2
  <1>6. \A c \in Callback : new.active[c] # None => new.prompts[new.active[c]].callback = c
    <2> TAKE c \in Callback
    <2>1. HAVE new.active[c] # None
    <2>2. st.active[c] \in Prompt /\ st.prompts[st.active[c]].callback = c
      BY <2>1, <1>1, SoundParts
    <2>3. QED
      BY <2>1, <2>2, <1>1, <1>2 DEF IsIn
  <1>7. Sound(new, k)
    BY <1>1, <1>3, <1>5, <1>6 DEF Sound
  <1>8. QED
    BY <1>1, <1>2, <1>7 DEF new

LEMMA NoticeIsMessage == <<Done>> \in Seq(Message) /\ <<>> \in Seq(Message)
  <1>1. Done \in Message
    BY DEF Message, Calls, Done
  <1>2. QED
    BY <1>1

LEMMA StopSound ==
    ASSUME NEW st, NEW h, Sound(st, h), NEW S, NEW notice \in Seq(Message)
    PROVE  LET new == StopPrompting(st, S, notice)
           IN  /\ Sound(new, h)
               /\ new.callbacks = st.callbacks \ S
               /\ NobodyWaits(st) => NobodyWaits(new)
  <1> DEFINE new == StopPrompting(st, S, notice)
             stopped == Begun(st, S)
             hit(p) == \E c \in stopped : st.active[c] = p
  <1>1. stopped \subseteq Callback
    BY SoundParts DEF Begun
  <1>2. /\ new.callbacks = st.callbacks \ stopped
        /\ new.waiting = Without(st.waiting, stopped)
        /\ new.active = [c \in Callback |->
                            IF c \in stopped THEN None ELSE st.active[c]]
        /\ new.prompts = [p \in Prompt |->
                            IF hit(p) THEN Closed(st.prompts[p]) ELSE st.prompts[p]]
        /\ new.out = [c \in Callback |->
                            IF c \in stopped
                            THEN st.out[c] \o notice ELSE st.out[c]]
    BY DEF StopPrompting
  <1>3. \A p \in Prompt : hit(p) =>
            /\ InTables(new, p) = 0
            /\ Closed(st.prompts[p]) \in PromptRecord
            /\ PromptOK(Closed(st.prompts[p]), 0, One(p = h))
    <2> TAKE p \in Prompt
    <2> HAVE hit(p)
    <2>1. InTables(st, p) = 1
      BY <1>1 DEF InTables, IsIn, One
    <2>2. InTables(new, p) = 0
      BY <1>1, <1>2, SoundParts, NoneAssumption, SMTT(60) DEF InTables, IsIn, One
    <2>3. st.prompts[p] \in PromptRecord /\ PromptOK(st.prompts[p], 1, One(p = h))
      BY <2>1, SoundParts
    <2>4. One(p = h) \in {0, 1}
      BY DEF One
    <2>5. QED
      BY <2>2, <2>3, <2>4, ClosedOK
  <1>4. \A p \in Prompt : ~hit(p) =>
            /\ InTables(new, p) = InTables(st, p)
            /\ PromptOK(st.prompts[p], InTables(st, p), One(p = h))
    <2> TAKE p \in Prompt
    <2> HAVE ~hit(p)
    <2>1. IsIn(new, p) <=> IsIn(st, p)
      BY <1>1, <1>2, NoneAssumption DEF IsIn
    <2>2. QED
      BY <2>1, SoundParts DEF InTables, One
  <1>5. new.prompts \in [Prompt -> PromptRecord]
    BY <1>2, <1>3, SoundParts
  <1>6. /\ Without(st.waiting, stopped) \in [Callback -> SUBSET Callback]
        /\ IsLine(Without(st.waiting, stopped))
        /\ \A c \in Callback :
              Without(st.waiting, stopped)[c] # {} <=> st.waiting[c] # {} /\ c \notin stopped
    <2>1. IsLine(st.waiting)
      BY DEF Sound
    <2> HIDE DEF stopped
    <2>2. QED
      BY <2>1, SoundParts, RemoveLine
  <1>7. new.out \in [Callback -> Seq(Message)]
    BY <1>2, SoundParts
  <1>8. new.active \in [Callback -> Prompt \union {None}]
    BY <1>2, SoundParts
  <1>9. new \in TableRecord
    BY <1>2, <1>5, <1>6, <1>7, <1>8, SoundParts DEF StopPrompting, TableRecord
  <1>10. new.callbacks = st.callbacks \ S
    BY <1>2 DEF Begun
  <1> HIDE DEF new
  <1>11. \A p \in Prompt : PromptOK(new.prompts[p], InTables(new, p), One(p = h))
    <2> TAKE p \in Prompt
    <2>1. CASE hit(p)
      BY <2>1, <1>2, <1>3
    <2>2. CASE ~hit(p)
      BY <2>2, <1>2, <1>4
    <2>3. QED
      BY <2>1, <2>2
  <1>12. \A c \in Callback :
          /\ c \in new.callbacks <=> (new.waiting[c] # {} \/ new.active[c] # None)
          /\ new.waiting[c] = {} \/ new.active[c] = None
          /\ new.active[c] # None => new.prompts[new.active[c]].callback = c
    <2> TAKE c \in Callback
    <2>1. CASE c \in stopped
      BY <2>1, <1>1, <1>2, <1>6
    <2>2. CASE c \notin stopped
      <3>1. /\ new.active[c] = st.active[c]
            /\ c \in new.callbacks <=> c \in st.callbacks
            /\ new.waiting[c] # {} <=> st.waiting[c] # {}
        BY <2>2, <1>1, <1>2, <1>6
      <3>2. /\ c \in st.callbacks <=> (st.waiting[c] # {} \/ st.active[c] # None)
            /\ st.waiting[c] = {} \/ st.active[c] = None
        BY DEF Sound
      <3>3. ASSUME st.active[c] # None
            PROVE  new.prompts[st.active[c]].callback = c
        <4>1. st.active[c] \in Prompt /\ st.prompts[st.active[c]].callback = c
          BY <3>3, SoundParts
        <4>2. ~hit(st.active[c])
          BY <2>2, <4>1, <1>1, SoundParts, NoneAssumption
        <4>3. QED
          BY <4>1, <4>2, <1>2
      <3>4. QED
        BY <3>1, <3>2, <3>3
    <2>3. QED
      BY <2>1, <2>2
  <1>13. Mode = "single" =>
          \A c, d \in Callback : new.active[c] # None /\ new.active[d] # None => c = d
    <2>1. Mode = "single" =>
            \A c, d \in Callback : st.active[c] # None /\ st.active[d] # None => c = d
      BY DEF Sound
    <2>2. QED
      BY <2>1, <1>2
  <1>14. IsLine(new.waiting)
    BY <1>2, <1>6
  <1>15. Sound(new, h)
    BY <1>9, <1>11, <1>12, <1>13, <1>14 DEF Sound
  <1>16. NobodyWaits(st) => NobodyWaits(new)
    BY <1>2, <1>6 DEF NobodyWaits
  <1>17. QED
    BY <1>10, <1>15, <1>16 DEF new

LEMMA EnqueuedSound ==
    ASSUME NEW st, NEW h, Sound(st, h), NEW c \in Callback, c \notin st.callbacks
    PROVE  LET new == Enqueued(st, c)
           IN  /\ Sound(new, h)
               /\ new.callbacks = st.callbacks \union {c}
               /\ NobodyWaits(st) /\ Mode # "single" =>
                     /\ IsHead(new.waiting, c)
                     /\ \A d \in Callback \ {c} : new.waiting[d] = {}
  <1> DEFINE new == Enqueued(st, c)
             line == PushTail(st.waiting, c)
  <1>1. /\ st.waiting[c] = {} /\ st.active[c] = None
        /\ IsLine(st.waiting)
    BY DEF Sound
  <1>2. /\ line \in [Callback -> SUBSET Callback]
        /\ IsLine(line)
        /\ \A d \in Callback : line[d] # {} <=> st.waiting[d] # {} \/ d = c
        /\ (\A d \in Callback : st.waiting[d] = {}) => IsHead(line, c)
    BY <1>1, SoundParts, PushLine
  <1>3. /\ new.callbacks = st.callbacks \union {c} /\ new.waiting = line
        /\ new.active = st.active /\ new.prompts = st.prompts
    BY SoundParts DEF Enqueued, TableRecord
  <1>4. new \in TableRecord
    <2>1. new = [st EXCEPT !.callbacks = st.callbacks \union {c}, !.waiting = line]
      BY DEF Enqueued
    <2> HIDE DEF new, line
    <2>2. st \in TableRecord /\ st.callbacks \union {c} \in SUBSET Callback
      BY SoundParts
    <2>3. QED
      BY <2>1, <2>2, <1>2 DEF TableRecord
  <1> HIDE DEF new, line
  <1>5. \A p \in Prompt : InTables(new, p) = InTables(st, p)
    BY <1>3 DEF InTables, IsIn
  <1>6. Sound(new, h)
    BY <1>1, <1>2, <1>3, <1>4, <1>5 DEF Sound
  <1>7. QED
    BY <1>2, <1>3, <1>6 DEF new, NobodyWaits

\* A callback that is at the head of the queue becomes active, with a structure
\* that nothing refers to.
LEMMA ActivatedSound ==
    ASSUME NEW st, NEW h, Sound(st, h), ~Busy(st),
           NEW c \in Callback, IsHead(st.waiting, c),
           NEW p \in Prompt, st.prompts[p].refs = 0,
           NEW new, new = Activated(st, c, p)
    PROVE  /\ Sound(new, h)
           /\ new.callbacks = st.callbacks
           /\ \A d \in Callback : new.waiting[d] # {} <=> st.waiting[d] # {} /\ d # c
  <1> DEFINE pr == SendReady(NewPrompt(c))
  <1>1. pr \in PromptRecord /\ pr.callback = c /\ PromptOK(pr, 1, 0)
    BY NewOK
  <1> HIDE DEF pr
  <1>2. /\ new.callbacks = st.callbacks
        /\ new.waiting = Without(st.waiting, {c})
        /\ new.active = Put(st.active, c, p)
        /\ new.prompts = Put(st.prompts, p, pr)
        /\ new.out = Put(st.out, c, Append(st.out[c], Ready("none")))
    BY DEF Activated, pr
  <1>3. /\ new.waiting \in [Callback -> SUBSET Callback]
        /\ IsLine(new.waiting)
        /\ \A d \in Callback : new.waiting[d] # {} <=> st.waiting[d] # {} /\ d # c
    <2>1. IsLine(st.waiting) /\ st.waiting \in [Callback -> SUBSET Callback]
      BY SoundParts DEF Sound
    <2>2. /\ Without(st.waiting, {c}) \in [Callback -> SUBSET Callback]
          /\ IsLine(Without(st.waiting, {c}))
          /\ \A d \in Callback : Without(st.waiting, {c})[d] # {}
                                   <=> st.waiting[d] # {} /\ d \notin {c}
      BY <2>1, RemoveLine
    <2>3. QED
      BY <1>2, <2>2
  <1>4. /\ new.active \in [Callback -> Prompt \union {None}]
        /\ new.active[c] = p
        /\ \A d \in Callback \ {c} : new.active[d] = st.active[d]
    BY <1>2, SoundParts DEF Put
  <1>5. /\ new.prompts \in [Prompt -> PromptRecord]
        /\ new.prompts[p] = pr
        /\ \A q \in Prompt \ {p} : new.prompts[q] = st.prompts[q]
    BY <1>1, <1>2, SoundParts DEF Put
  <1>6. new.out \in [Callback -> Seq(Message)]
    <2>1. Ready("none") \in Message
      BY DEF Ready, Message, Calls
    <2>2. QED
      BY <1>2, <2>1, SoundParts DEF Put
  <1>7. new \in TableRecord
    <2>1. /\ Without(st.waiting, {c}) \in [Callback -> SUBSET Callback]
          /\ Put(st.active, c, p) \in [Callback -> Prompt \union {None}]
          /\ Put(st.prompts, p, pr) \in [Prompt -> PromptRecord]
          /\ Put(st.out, c, Append(st.out[c], Ready("none"))) \in [Callback -> Seq(Message)]
      BY <1>2, <1>3, <1>4, <1>5, <1>6
    <2>2. st.callbacks \in SUBSET Callback
      BY SoundParts
    <2>3. QED
      BY <2>1, <2>2 DEF Activated, TableRecord, pr
  <1>8. st.waiting[c] # {} /\ st.active[c] = None
    BY DEF IsHead, Sound
  <1>9. InTables(st, p) = 0 /\ One(p = h) = 0
    <2>1. PromptOK(st.prompts[p], InTables(st, p), One(p = h))
      BY SoundParts
    <2>2. InTables(st, p) \in {0, 1} /\ One(p = h) \in {0, 1}
      BY DEF InTables, One
    <2>3. st.prompts[p] \in PromptRecord
      BY SoundParts
    <2>4. QED
      BY <2>1, <2>2, <2>3 DEF PromptOK, PromptRecord
  <1>10. \A d \in Callback : st.active[d] # p
    BY <1>9 DEF InTables, IsIn, One
  <1>11. \A q \in Prompt : PromptOK(new.prompts[q], InTables(new, q), One(q = h))
    <2> TAKE q \in Prompt
    <2>1. CASE q = p
      <3>1. InTables(new, q) = 1
        BY <2>1, <1>4 DEF InTables, IsIn, One
      <3>2. QED
        BY <2>1, <3>1, <1>1, <1>5, <1>9
    <2>2. CASE q # p
      <3>1. IsIn(new, q) <=> IsIn(st, q)
        BY <2>2, <1>4, <1>8, NoneAssumption DEF IsIn
      <3>2. InTables(new, q) = InTables(st, q)
        BY <3>1 DEF InTables, One
      <3>3. QED
        BY <2>2, <3>2, <1>5, SoundParts
    <2>3. QED
      BY <2>1, <2>2
  <1>12. \A d \in Callback :
        /\ d \in new.callbacks <=> (new.waiting[d] # {} \/ new.active[d] # None)
        /\ new.waiting[d] = {} \/ new.active[d] = None
        /\ new.active[d] # None => new.prompts[new.active[d]].callback = d
    <2> TAKE d \in Callback
    <2>1. /\ d \in st.callbacks <=> (st.waiting[d] # {} \/ st.active[d] # None)
          /\ st.waiting[d] = {} \/ st.active[d] = None
          /\ st.active[d] # None => st.prompts[st.active[d]].callback = d
      BY DEF Sound
    <2>2. CASE d = c
      <3>1. d \in new.callbacks /\ new.waiting[d] = {}
        BY <2>1, <2>2, <1>2, <1>3, <1>8
      <3>2. new.active[d] = p /\ p # None /\ new.prompts[p].callback = d
        BY <2>2, <1>1, <1>4, <1>5, NoneAssumption
      <3>3. QED
        BY <3>1, <3>2
    <2>3. CASE d # c
      <3>1. st.active[d] # None => st.active[d] \in Prompt \ {p}
        BY <1>10, SoundParts
      <3>2. QED
        BY <2>1, <2>3, <3>1, <1>2, <1>3, <1>4, <1>5
    <2>4. QED
      BY <2>2, <2>3
  <1>13. Mode = "single" =>
        \A d, e \in Callback : new.active[d] # None /\ new.active[e] # None => d = e
    BY <1>4 DEF Busy
  <1>14. Sound(new, h)
    BY <1>3, <1>7, <1>11, <1>12, <1>13 DEF Sound
  <1>15. QED
    BY <1>2, <1>3, <1>14

LEMMA NextReadySound ==
    ASSUME NEW st, NEW h, Sound(st, h), NEW new \in NextReady(st)
    PROVE  /\ Sound(new, h)
           /\ new.callbacks = st.callbacks
           /\ \/ NobodyWaits(st)
              \/ \E c \in Callback : /\ IsHead(st.waiting, c)
                                     /\ \A d \in Callback \ {c} : st.waiting[d] = {}
              => NobodyWaits(new)
  <1>1. CASE Busy(st) \/ Heads(st) = {}
    <2>1. new = st
      BY <1>1 DEF NextReady
    <2>2. Heads(st) = {} => ~\E c \in Callback : IsHead(st.waiting, c)
      BY DEF Heads
    <2>3. QED
      BY <2>1, <2>2, <1>1 DEF NobodyWaits, Busy
  <1>2. CASE ~(Busy(st) \/ Heads(st) = {})
    <2>1. PICK c \in Heads(st), p \in Unused(st) : new = Activated(st, c, p)
      BY <1>2 DEF NextReady
    <2>2. /\ c \in Callback /\ IsHead(st.waiting, c)
          /\ p \in Prompt /\ st.prompts[p].refs = 0
      BY <2>1 DEF Heads, Unused
    <2>3. /\ Sound(new, h)
          /\ new.callbacks = st.callbacks
          /\ \A d \in Callback : new.waiting[d] # {} <=> st.waiting[d] # {} /\ d # c
      BY <1>2, <2>1, <2>2, ActivatedSound
    <2>4. NobodyWaits(st) => NobodyWaits(new)
      BY <2>2 DEF NobodyWaits, IsHead
    <2>5. ASSUME NEW d \in Callback, \A e \in Callback \ {d} : st.waiting[e] = {}
          PROVE  NobodyWaits(new)
      BY <2>2, <2>3, <2>5 DEF NobodyWaits, IsHead
    <2>6. QED
      BY <2>3, <2>4, <2>5
  <1>3. QED
    BY <1>1, <1>2

-----------------------------------------------------------------------------
(* The handlers.                                                           *)

LEMMA TablesParts ==
    /\ Tables.callbacks = callbacks /\ Tables.waiting = waiting
    /\ Tables.active = active /\ Tables.prompts = prompts
  BY DEF Tables

\* The tables after a handler are sound when those it commits are.
LEMMA BecomeSound ==
    ASSUME NEW st, Sound(st, None), Become(st)
    PROVE  /\ out' \in [Callback -> Seq(Message)]
           /\ Sound(Tables, None)'
           /\ callbacks' = st.callbacks
           /\ NobodyWaits(st) => NobodyWaits(Tables)'
  <1> DEFINE new == [callbacks |-> callbacks', waiting |-> waiting',
                     active |-> active', prompts |-> prompts', out |-> Silence]
  <1>1. /\ callbacks' = st.callbacks /\ waiting' = st.waiting
        /\ active' = st.active /\ prompts' = st.prompts /\ out' = st.out
    BY DEF Become
  <1>2. Silence \in [Callback -> Seq(Message)]
    BY DEF Silence
  <1>3. new \in TableRecord
    BY <1>1, <1>2, SoundParts DEF TableRecord
  <1>4. /\ new.callbacks = st.callbacks /\ new.waiting = st.waiting
        /\ new.active = st.active /\ new.prompts = st.prompts
    BY <1>1
  <1>5. Tables' = new
    BY DEF Tables, Silence
  <1> HIDE DEF new
  <1>6. \A p \in Prompt : InTables(new, p) = InTables(st, p)
    BY <1>4 DEF InTables, IsIn
  <1>7. Sound(new, None)
    BY <1>3, <1>4, <1>6 DEF Sound
  <1>8. NobodyWaits(st) => NobodyWaits(new)
    BY <1>4 DEF NobodyWaits
  <1>9. Sound(Tables, None)' /\ (NobodyWaits(new) => NobodyWaits(Tables)')
    BY <1>5, <1>7 DEF Sound, NobodyWaits, InTables, IsIn
  <1>10. QED
    BY <1>1, <1>8, <1>9, SoundParts

LEMMA ReplyIsMessage ==
    \A r \in {"Return", "Failed", "InvalidArgs"}, m \in {"Begin", "Perform", "Stop"} :
        Reply(r, m) \in Message
  BY DEF Reply, Message, Replies

LEMMA InitIInv == Init => IInv
  <1> SUFFICES ASSUME Init PROVE IInv
    OBVIOUS
  <1>1. Silence \in [Callback -> Seq(Message)]
    BY DEF Silence
  <1>2. /\ Tables.callbacks = {}
        /\ Tables.waiting = [c \in Callback |-> {}]
        /\ Tables.active = [c \in Callback |-> None]
        /\ Tables.prompts = [p \in Prompt |-> FreePrompt]
    BY DEF Init, Tables, EmptyQueue
  <1>3. Tables \in TableRecord
    BY <1>1, FreeOK DEF Init, Tables, EmptyQueue, TableRecord
  <1>4. IsLine(Tables.waiting)
    BY <1>2 DEF IsLine, QueuedIn
  <1>5. \A p \in Prompt : PromptOK(Tables.prompts[p], InTables(Tables, p), One(p = None))
    <2> TAKE p \in Prompt
    <2>1. InTables(Tables, p) = 0 /\ One(p = None) = 0
      BY <1>2, NoneAssumption DEF InTables, IsIn, One
    <2>2. QED
      BY <1>2, <2>1, FreeOK
  <1>6. Sound(Tables, None)
    BY <1>2, <1>3, <1>4, <1>5 DEF Sound
  <1>7. NobodyWaits(Tables) /\ NothingForTheDeparted
    BY <1>2 DEF NobodyWaits, NothingForTheDeparted, Init
  <1>8. QED
    BY <1>1, <1>6, <1>7 DEF IInv, Init

\* Handlers that leave the other variables alone and begin for nobody new.
LEMMA CommitIInv ==
    ASSUME IInv, NEW st, Sound(st, None), NobodyWaits(st), Become(st),
           st.callbacks \subseteq callbacks, UNCHANGED <<registered, gone>>
    PROVE  IInv'
  BY BecomeSound DEF IInv, NothingForTheDeparted

LEMMA RegisterIInv == IInv /\ Register => IInv'
  <1> SUFFICES ASSUME IInv, Register PROVE IInv'
    OBVIOUS
  <1>1. Tables' = Tables /\ Silence \in [Callback -> Seq(Message)]
    BY DEF Register, Tables, Silence
  <1>2. Sound(Tables, None)' /\ NobodyWaits(Tables)'
    BY <1>1 DEF IInv, Sound, NobodyWaits, InTables, IsIn
  <1>3. NothingForTheDeparted'
    BY DEF IInv, NothingForTheDeparted, Register
  <1>4. QED
    BY <1>1, <1>2, <1>3 DEF IInv, Register

LEMMA UnregisterIInv == IInv /\ Unregister => IInv'
  <1> SUFFICES ASSUME IInv, Unregister PROVE IInv'
    OBVIOUS
  <1> DEFINE st == StopPrompting(Tables, callbacks, <<Done>>)
  <1>1. Sound(Tables, None) /\ NobodyWaits(Tables) /\ Tables.callbacks = callbacks
    BY TablesParts DEF IInv
  <1>2. /\ Sound(st, None) /\ NobodyWaits(st)
        /\ st.callbacks = callbacks \ callbacks
    BY <1>1, StopSound, NoticeIsMessage
  <1>3. Become(st) /\ registered' = FALSE /\ gone' = gone
    BY DEF Unregister
  <1> HIDE DEF st
  <1>4. QED
    BY <1>2, <1>3, BecomeSound DEF IInv, NothingForTheDeparted

LEMMA BeginPromptingIInv ==
    ASSUME IInv, NEW c \in Callback, BeginPrompting(c)
    PROVE  IInv'
  <1>1. CASE c \in callbacks
    <2> DEFINE st == Post(Tables, c, Reply("Failed", "Begin"))
    <2>1. /\ Sound(st, None) /\ st.callbacks = callbacks
          /\ st.waiting = Tables.waiting
      BY PostSound, ReplyIsMessage, TablesParts DEF IInv
    <2>2. Become(st) /\ UNCHANGED <<registered, gone>>
      BY <1>1 DEF BeginPrompting
    <2> HIDE DEF st
    <2>3. NobodyWaits(st)
      BY <2>1 DEF IInv, NobodyWaits
    <2>4. QED
      BY <2>1, <2>2, <2>3, CommitIInv
  <1>2. CASE c \notin callbacks
    <2> DEFINE queued == Enqueued(Tables, c)
               begun == Post(queued, c, Reply("Return", "Begin"))
    <2>1. /\ Sound(queued, None)
          /\ queued.callbacks = callbacks \union {c}
          /\ Mode # "single" => /\ IsHead(queued.waiting, c)
                                /\ \A d \in Callback \ {c} : queued.waiting[d] = {}
      BY <1>2, EnqueuedSound, TablesParts DEF IInv
    <2> HIDE DEF queued
    <2>2. /\ Sound(begun, None)
          /\ begun.callbacks = callbacks \union {c}
          /\ begun.waiting = queued.waiting
      BY <2>1, PostSound, ReplyIsMessage, ZenonT(60)
    <2>3. (\E st \in NextReady(begun) : Become(st)) /\ UNCHANGED <<registered, gone>>
      BY <1>2 DEF BeginPrompting, queued
    <2> HIDE DEF begun
    <2>4. PICK st \in NextReady(begun) : Become(st)
      BY <2>3
    <2>5. \/ NobodyWaits(begun)
          \/ \E d \in Callback : /\ IsHead(begun.waiting, d)
                                 /\ \A e \in Callback \ {d} : begun.waiting[e] = {}
      BY <2>1, <2>2 DEF NobodyWaits
    <2>6. /\ Sound(st, None) /\ NobodyWaits(st)
          /\ st.callbacks = callbacks \union {c}
      BY <2>2, <2>5, NextReadySound
    <2>7. registered /\ Owner[c] \notin gone
      BY DEF BeginPrompting, CanCall
    <2>8. QED
      BY <2>3, <2>4, <2>6, <2>7, BecomeSound DEF IInv, NothingForTheDeparted
  <1>3. QED
    BY <1>1, <1>2

LEMMA PerformPromptIInv ==
    ASSUME IInv, NEW c \in Callback, NEW type, NEW valid, PerformPrompt(c, type, valid)
    PROVE  IInv'
  <1> DEFINE p == active[c]
             received == [prompts[p] EXCEPT !.received = TRUE]
  <1>1. /\ Sound(Tables, None) /\ NobodyWaits(Tables)
        /\ Tables.callbacks = callbacks /\ Tables.waiting = waiting
    BY TablesParts DEF IInv
  <1>2. ASSUME NEW st, Sound(st, None), st.callbacks = callbacks, st.waiting = waiting,
               NEW r \in {"Return", "Failed", "InvalidArgs"},
               Become(Post(st, c, Reply(r, "Perform")))
        PROVE  IInv'
    <2> DEFINE new == Post(st, c, Reply(r, "Perform"))
    <2>1. Sound(new, None) /\ new.callbacks = callbacks /\ new.waiting = waiting
      BY <1>2, PostSound, ReplyIsMessage
    <2>2. Become(new) /\ UNCHANGED <<registered, gone>>
      BY <1>2 DEF PerformPrompt
    <2> HIDE DEF new
    <2>3. NobodyWaits(new)
      BY <1>1, <2>1 DEF NobodyWaits
    <2>4. QED
      BY <2>1, <2>2, <2>3, CommitIInv
  <1>3. CASE p = None \/ ~prompts[p].ready
    <2>1. Become(Post(Tables, c, Reply("Failed", "Perform")))
      BY <1>3 DEF PerformPrompt
    <2>2. QED
      BY <1>1, <1>2, <2>1
  <1>4. CASE ~(p = None \/ ~prompts[p].ready)
    <2>1. /\ p \in Prompt /\ IsIn(Tables, p) /\ InTables(Tables, p) = 1
          /\ One(p = None) = 0
          /\ prompts[p] \in PromptRecord
      BY <1>1, <1>4, SoundParts, TablesParts, NoneAssumption DEF InTables, IsIn, One
    <2>2. PromptOK(prompts[p], 1, 0)
      BY <1>1, <2>1, SoundParts, TablesParts
    <2>3. prompts[p].refs > 0
      BY <2>1, <2>2 DEF PromptOK, PromptRecord
    <2>4. ASSUME NEW pr \in PromptRecord, pr.callback = prompts[p].callback,
                 PromptOK(pr, 1, 0)
          PROVE  LET st == Update(Tables, p, pr)
                 IN  Sound(st, None) /\ st.callbacks = callbacks /\ st.waiting = waiting
      BY <1>1, <2>1, <2>4, UpdateSound, TablesParts
    <2>5. CASE ~valid
      <3>1. Become(Post(Tables, c, Reply("InvalidArgs", "Perform")))
        BY <1>4, <2>5 DEF PerformPrompt
      <3>2. QED
        BY <1>1, <1>2, <3>1
    <2>6. CASE valid /\ type = "other"
      <3>1. Become(Post(Update(Tables, p, received), c, Reply("InvalidArgs", "Perform")))
        BY <1>4, <2>6 DEF PerformPrompt
      <3>2. /\ received \in PromptRecord /\ received.callback = prompts[p].callback
            /\ PromptOK(received, 1, 0)
        BY <2>1, <2>2, ReceivedOK
      <3> HIDE DEF received
      <3>3. QED
        BY <1>2, <2>4, <3>1, <3>2
    <2>7. CASE valid /\ type # "other"
      <3> DEFINE performing == Performing(prompts[p])
      <3>1. Become(Post(Update(Tables, p, performing), c, Reply("Return", "Perform")))
        BY <1>4, <2>7 DEF PerformPrompt
      <3>2. /\ performing \in PromptRecord /\ performing.callback = prompts[p].callback
            /\ PromptOK(performing, 1, 0)
        BY <1>4, <2>1, <2>2, <2>3, PerformingOK
      <3> HIDE DEF performing
      <3>3. QED
        BY <1>2, <2>4, <3>1, <3>2
    <2>8. QED
      BY <2>5, <2>6, <2>7
  <1>5. QED
    BY <1>3, <1>4

LEMMA StopMethodIInv ==
    ASSUME IInv, NEW c \in Callback, StopMethod(c)
    PROVE  IInv'
  <1> DEFINE stopped == StopPrompting(Tables, {c}, <<Done>>)
             replied == Post(stopped, c, Reply("Return", "Stop"))
  <1>1. Sound(Tables, None) /\ NobodyWaits(Tables) /\ Tables.callbacks = callbacks
    BY TablesParts DEF IInv
  <1>2. /\ Sound(stopped, None) /\ NobodyWaits(stopped)
        /\ stopped.callbacks = callbacks \ {c}
    BY <1>1, StopSound, NoticeIsMessage
  <1> HIDE DEF stopped
  <1>3. /\ Sound(replied, None) /\ replied.callbacks \subseteq callbacks
        /\ replied.waiting = stopped.waiting
    BY <1>2, PostSound, ReplyIsMessage, ZenonT(60)
  <1>4. (\E st \in NextReady(replied) : Become(st)) /\ UNCHANGED <<registered, gone>>
    BY DEF StopMethod, stopped
  <1> HIDE DEF replied
  <1>5. PICK st \in NextReady(replied) : Become(st)
    BY <1>4
  <1>6. NobodyWaits(replied)
    BY <1>2, <1>3 DEF NobodyWaits
  <1>7. Sound(st, None) /\ NobodyWaits(st) /\ st.callbacks \subseteq callbacks
    BY <1>3, <1>6, NextReadySound
  <1>8. QED
    BY <1>4, <1>5, <1>7, CommitIInv

LEMMA CallerVanishedIInv ==
    ASSUME IInv, NEW n \in Caller, CallerVanished(n)
    PROVE  IInv'
  <1> DEFINE st == StopPrompting(Tables, CallbacksOf(n), <<>>)
  <1>1. Sound(Tables, None) /\ NobodyWaits(Tables) /\ Tables.callbacks = callbacks
    BY TablesParts DEF IInv
  <1>2. /\ Sound(st, None) /\ NobodyWaits(st)
        /\ st.callbacks = callbacks \ CallbacksOf(n)
    BY <1>1, StopSound, NoticeIsMessage
  <1>3. /\ Become(st) /\ registered' = registered
        /\ gone' = gone \union {n}
    BY DEF CallerVanished
  <1> HIDE DEF st
  <1>4. /\ Sound(Tables, None)' /\ NobodyWaits(Tables)'
        /\ out' \in [Callback -> Seq(Message)]
        /\ callbacks' = callbacks \ CallbacksOf(n)
    BY <1>2, <1>3, BecomeSound
  <1>5. NothingForTheDeparted'
    BY <1>3, <1>4 DEF IInv, NothingForTheDeparted, CallbacksOf
  <1>6. QED
    BY <1>3, <1>4, <1>5 DEF IInv

LEMMA UserAnswersIInv ==
    ASSUME IInv, NEW p \in Prompt, NEW response \in {"yes", "no"},
           UserAnswers(p, response)
    PROVE  IInv'
  <1> DEFINE answered == Update(Tables, p, OperationDone(prompts[p]))
             c == prompts[p].callback
             st == Post(answered, c, Ready(response))
  <1>1. /\ Sound(Tables, None) /\ NobodyWaits(Tables)
        /\ Tables.callbacks = callbacks /\ Tables.waiting = waiting
    BY TablesParts DEF IInv
  <1>2. /\ prompts[p] \in PromptRecord /\ prompts[p].ops > 0
        /\ PromptOK(prompts[p], InTables(Tables, p), One(p = None))
    BY <1>1, SoundParts, TablesParts DEF UserAnswers
  <1>3. One(p = None) = 0
    BY NoneAssumption DEF One
  <1>4. InTables(Tables, p) = 1
    <2>1. InTables(Tables, p) \in {0, 1}
      BY DEF InTables, One
    <2>2. prompts[p].calls + prompts[p].ops > 0
      BY <1>2 DEF PromptRecord
    <2>3. QED
      BY <1>2, <2>1, <2>2 DEF PromptOK, PromptRecord
  <1>5. c \in Callback
    <2>1. PICK d \in Callback : active[d] = p
      BY <1>4, TablesParts DEF InTables, IsIn, One
    <2>2. QED
      BY <1>1, <2>1, SoundParts, TablesParts, NoneAssumption
  <1>6. /\ OperationDone(prompts[p]) \in PromptRecord
        /\ OperationDone(prompts[p]).callback = c
        /\ PromptOK(OperationDone(prompts[p]), 1, 0)
    BY <1>2, <1>3, <1>4, AnswerOK
  <1>7. /\ Sound(answered, None)
        /\ answered.callbacks = callbacks /\ answered.waiting = waiting
    BY <1>1, <1>3, <1>4, <1>6, UpdateSound, TablesParts
  <1> HIDE DEF answered, c
  <1>8. Ready(response) \in Message
    BY DEF Ready, Message, Calls
  <1>9. Sound(st, None) /\ st.callbacks = callbacks /\ st.waiting = waiting
    BY <1>5, <1>7, <1>8, PostSound
  <1>10. Become(st) /\ UNCHANGED <<registered, gone>>
    BY DEF UserAnswers, answered, c
  <1> HIDE DEF st
  <1>11. NobodyWaits(st)
    BY <1>1, <1>9 DEF NobodyWaits
  <1>12. QED
    BY <1>9, <1>10, <1>11, CommitIInv

LEMMA UserClosesIInv ==
    ASSUME IInv, NEW p \in Prompt, UserCloses(p)
    PROVE  IInv'
  <1> DEFINE st == StopPrompting(Tables, {prompts[p].callback}, <<Done>>)
  <1>1. Sound(Tables, None) /\ NobodyWaits(Tables) /\ Tables.callbacks = callbacks
    BY TablesParts DEF IInv
  <1>2. /\ Sound(st, None) /\ NobodyWaits(st)
        /\ st.callbacks = callbacks \ {prompts[p].callback}
    BY <1>1, StopSound, NoticeIsMessage
  <1>3. Become(st) /\ UNCHANGED <<registered, gone>>
    BY DEF UserCloses
  <1> HIDE DEF st
  <1>4. QED
    BY <1>2, <1>3, CommitIInv

LEMMA ReadyCompleteIInv ==
    ASSUME IInv, NEW p \in Prompt, NEW ok, ReadyComplete(p, ok)
    PROVE  IInv'
  <1> DEFINE c == prompts[p].callback
             completed == Update(Tables, p, Completed(prompts[p]))
             stopped == StopPrompting(completed, {c}, <<>>)
             after == IF prompts[p].cancelled \/ ok THEN {completed}
                      ELSE NextReady(stopped)
  <1>1. /\ Sound(Tables, None) /\ NobodyWaits(Tables)
        /\ Tables.callbacks = callbacks /\ Tables.waiting = waiting
    BY TablesParts DEF IInv
  <1>2. /\ prompts[p] \in PromptRecord /\ prompts[p].calls > 0
        /\ InTables(Tables, p) \in {0, 1}
        /\ PromptOK(prompts[p], InTables(Tables, p), 0)
        /\ One(p = p) = 1
    <2>1. One(p = None) = 0 /\ One(p = p) = 1 /\ InTables(Tables, p) \in {0, 1}
      BY NoneAssumption DEF One, InTables
    <2>2. QED
      BY <1>1, <2>1, SoundParts, TablesParts DEF ReadyComplete
  <1>3. /\ Completed(prompts[p]) \in PromptRecord
        /\ Completed(prompts[p]).callback = c
        /\ PromptOK(Completed(prompts[p]), InTables(Tables, p), 1)
    BY <1>2, CompletedOK
  <1>4. /\ Sound(completed, p)
        /\ completed.callbacks = callbacks /\ completed.waiting = waiting
    BY <1>1, <1>2, <1>3, UpdateSound, TablesParts
  <1> HIDE DEF completed, c
  <1>5. NobodyWaits(completed)
    BY <1>1, <1>4 DEF NobodyWaits
  <1>6. /\ Sound(stopped, p) /\ NobodyWaits(stopped)
        /\ stopped.callbacks = callbacks \ {c}
    BY <1>4, <1>5, StopSound, NoticeIsMessage
  <1> HIDE DEF stopped
  <1>7. /\ \E st \in after : Become(Update(st, p, Unref(st.prompts[p])))
        /\ UNCHANGED <<registered, gone>>
    BY DEF ReadyComplete, completed, stopped, c
  <1>8. PICK st \in after : Become(Update(st, p, Unref(st.prompts[p])))
    BY <1>7
  <1>9. Sound(st, p) /\ NobodyWaits(st) /\ st.callbacks \subseteq callbacks
    <2>1. CASE prompts[p].cancelled \/ ok
      BY <2>1, <1>4, <1>5, <1>8
    <2>2. CASE ~(prompts[p].cancelled \/ ok)
      BY <2>2, <1>6, <1>8, NextReadySound
    <2>3. QED
      BY <2>1, <2>2
  <1> HIDE DEF after
  <1> DEFINE pr == Unref(st.prompts[p])
  <1>10. /\ pr \in PromptRecord
         /\ PromptOK(pr, InTables(st, p), 0)
         /\ InTables(st, p) = 1 => pr.callback = st.prompts[p].callback
    <2>1. st.prompts[p] \in PromptRecord /\ InTables(st, p) \in {0, 1}
      BY <1>9, SoundParts DEF InTables, One
    <2>2. PromptOK(st.prompts[p], InTables(st, p), 1)
      BY <1>2, <1>9, SoundParts
    <2>3. QED
      BY <2>1, <2>2, ReleaseOK
  <1> HIDE DEF pr
  <1> DEFINE new == Update(st, p, pr)
  <1>11. /\ Sound(new, None)
         /\ new.callbacks = st.callbacks /\ new.waiting = st.waiting
    <2>1. One(p = None) = 0
      BY NoneAssumption DEF One
    <2>2. IsIn(st, p) => InTables(st, p) = 1
      BY DEF InTables, One
    <2>3. QED
      BY <1>9, <1>10, <2>1, <2>2, UpdateSound
  <1>12. Become(new)
    BY <1>8 DEF pr
  <1> HIDE DEF new
  <1>13. NobodyWaits(new)
    BY <1>9, <1>11 DEF NobodyWaits
  <1>14. QED
    BY <1>7, <1>9, <1>11, <1>12, <1>13, CommitIInv

LEMMA StutterIInv == IInv /\ UNCHANGED vars => IInv'
  <1> SUFFICES ASSUME IInv, UNCHANGED vars PROVE IInv'
    OBVIOUS
  <1>1. Tables' = Tables
    BY DEF vars, Tables, Silence
  <1>2. QED
    BY <1>1 DEF IInv, vars, Sound, NobodyWaits, InTables, IsIn, NothingForTheDeparted

\* Every step keeps the inductive invariant.
LEMMA NextIInv == IInv /\ [Next]_vars => IInv'
  <1> SUFFICES ASSUME IInv, [Next]_vars PROVE IInv'
    OBVIOUS
  <1>1. CASE Register
    BY <1>1, RegisterIInv
  <1>2. CASE Unregister
    BY <1>2, UnregisterIInv
  <1>3. ASSUME NEW c \in Callback, BeginPrompting(c) PROVE IInv'
    BY <1>3, BeginPromptingIInv
  <1>4. ASSUME NEW c \in Callback, NEW type, NEW valid, PerformPrompt(c, type, valid)
        PROVE  IInv'
    BY <1>4, PerformPromptIInv
  <1>5. ASSUME NEW c \in Callback, StopMethod(c) PROVE IInv'
    BY <1>5, StopMethodIInv
  <1>6. ASSUME NEW n \in Caller, CallerVanished(n) PROVE IInv'
    BY <1>6, CallerVanishedIInv
  <1>7. ASSUME NEW p \in Prompt, NEW response \in {"yes", "no"}, UserAnswers(p, response)
        PROVE  IInv'
    BY <1>7, UserAnswersIInv
  <1>8. ASSUME NEW p \in Prompt, UserCloses(p) PROVE IInv'
    BY <1>8, UserClosesIInv
  <1>9. ASSUME NEW p \in Prompt, NEW ok, ReadyComplete(p, ok) PROVE IInv'
    BY <1>9, ReadyCompleteIInv
  <1>10. CASE UNCHANGED vars
    BY <1>10, StutterIInv
  <1>11. QED
    BY <1>1, <1>2, <1>3, <1>4, <1>5, <1>6, <1>7, <1>8, <1>9, <1>10 DEF Next

-----------------------------------------------------------------------------
(* The theorems.                                                           *)

\* What the inductive invariant says of the variables.
LEMMA StateParts ==
    ASSUME IInv
    PROVE  /\ callbacks \in SUBSET Callback
           /\ waiting \in [Callback -> SUBSET Callback]
           /\ active \in [Callback -> Prompt \union {None}]
           /\ prompts \in [Prompt -> PromptRecord]
           /\ IsLine(waiting)
           /\ \A c \in Callback :
                 /\ c \in callbacks <=> (waiting[c] # {} \/ active[c] # None)
                 /\ waiting[c] = {} \/ active[c] = None
                 /\ active[c] # None => prompts[active[c]].callback = c
           /\ Mode = "single" =>
                 \A c, d \in Callback : active[c] # None /\ active[d] # None => c = d
           /\ \A p \in Prompt : PromptOK(prompts[p], One(InTable(p)), 0)
  <1>1. Sound(Tables, None)
    BY DEF IInv
  <1>2. /\ Tables.callbacks = callbacks /\ Tables.waiting = waiting
        /\ Tables.active = active /\ Tables.prompts = prompts
    BY TablesParts
  <1>3. \A p \in Prompt : InTables(Tables, p) = One(InTable(p))
    BY <1>2 DEF InTables, IsIn, InTable
  <1>4. \A p \in Prompt : One(p = None) = 0
    BY NoneAssumption DEF One
  <1>5. /\ IsLine(waiting)
        /\ \A c \in Callback :
              /\ c \in callbacks <=> (waiting[c] # {} \/ active[c] # None)
              /\ waiting[c] = {} \/ active[c] = None
        /\ Mode = "single" =>
              \A c, d \in Callback : active[c] # None /\ active[d] # None => c = d
    BY <1>1, <1>2 DEF Sound
  <1>6. \A p \in Prompt : PromptOK(prompts[p], One(InTable(p)), 0)
    BY <1>1, <1>2, <1>3, <1>4, SoundParts
  <1>7. QED
    BY <1>1, <1>2, <1>5, <1>6, SoundParts

\* The inductive invariant holds in every reachable state of the service.
THEOREM Invariant == Spec => []IInv
  BY InitIInv, NextIInv, PTL DEF Spec

\* The tables, the queue, the structures and the messages of the service have
\* their types (_GcrSystemPrompterPrivate, ActivePrompt).
THEOREM TypeCorrect == Spec => []TypeOK
  <1>1. IInv => TypeOK
    BY StateParts DEF IInv, TypeOK
  <1>2. QED
    BY <1>1, Invariant, PTL

\* Whoever leaves the queue, and from whichever place, it stays a line.
THEOREM QueueStaysInLine == Spec => []QueueIsLine
  <1>1. IInv => QueueIsLine
    BY StateParts DEF QueueIsLine
  <1>2. QED
    BY <1>1, Invariant, PTL

\* The callbacks table, the queue and the active table agree after every
\* handler: prompt_stop_prompting and prompt_next_ready update all three.
THEOREM TablesAgree == Spec => []EachBegunIsQueuedOrActive
  <1>1. IInv => EachBegunIsQueuedOrActive
    BY StateParts DEF EachBegunIsQueuedOrActive, Queued, QueuedIn, Active
  <1>2. QED
    BY <1>1, Invariant, PTL

\* In single mode one prompt is on the screen at a time, and in multiple mode
\* nobody waits: prompt_next_ready is called wherever it is needed for that.
THEOREM ModeIsRespected == Spec => []ModeRespected
  <1>1. ASSUME IInv PROVE ModeRespected
    <2>1. NobodyWaits(Tables) /\ Tables.waiting = waiting
      BY <1>1, TablesParts DEF IInv
    <2>2. QED
      BY <1>1, <2>1, StateParts
         DEF ModeRespected, NobodyWaits, Queued, QueuedIn, Active
  <1>2. QED
    BY <1>1, Invariant, PTL

\* The active table holds only allocated structures, each under its own key.
THEOREM TableStaysSound == Spec => []TableSound
  <1>1. ASSUME IInv PROVE TableSound
    <2> SUFFICES ASSUME NEW c \in Callback, active[c] # None
                 PROVE  Allocated(active[c]) /\ prompts[active[c]].callback = c
      BY DEF TableSound
    <2> DEFINE p == active[c]
    <2>1. p \in Prompt /\ prompts[p].callback = c
      BY <1>1, StateParts
    <2>2. InTable(p)
      BY DEF InTable
    <2>3. prompts[p] \in PromptRecord /\ PromptOK(prompts[p], 1, 0)
      BY <1>1, <2>1, <2>2, StateParts DEF One
    <2>4. prompts[p].refs > 0
      BY <2>3 DEF PromptOK, PromptRecord
    <2>5. QED
      BY <2>1, <2>4 DEF Allocated
  <1>2. QED
    BY <1>1, Invariant, PTL

\* The assertions on active->ready never fail: a prompt that is not ready waits
\* for exactly one completion, and a ready one for none.
THEOREM CompletionsArePaired == Spec => []OnePendingCompletion
  <1>1. ASSUME IInv PROVE OnePendingCompletion
    <2>1. \A p \in Prompt : PromptOK(prompts[p], One(InTable(p)), 0)
      BY <1>1, StateParts
    <2>2. QED
      BY <2>1 DEF OnePendingCompletion, Allocated, PromptOK, One
  <1>2. QED
    BY <1>1, Invariant, PTL

\* The reference count of an ActivePrompt is the number of its holders, so no
\* completion finds the structure freed and none outlives its last holder.
THEOREM RefsAreCounted == Spec => []RefsCountHolders
  <1>1. ASSUME IInv PROVE RefsCountHolders
    <2> SUFFICES ASSUME NEW p \in Prompt
                 PROVE  prompts[p].refs = prompts[p].calls + prompts[p].ops
                                             + (IF InTable(p) THEN 1 ELSE 0)
      BY DEF RefsCountHolders
    <2>1. PromptOK(prompts[p], One(InTable(p)), 0) /\ prompts[p] \in PromptRecord
      BY <1>1, StateParts
    <2>2. QED
      BY <2>1 DEF PromptOK, One, PromptRecord
  <1>2. QED
    BY <1>1, Invariant, PTL

\* An ActivePrompt is cancelled exactly when it has left the table, so the
\* completion of its last call cannot disturb a later prompt of its callback.
THEOREM LeftoversStayCancelled == Spec => []LeftoversAreCancelled
  <1>1. ASSUME IInv PROVE LeftoversAreCancelled
    <2> SUFFICES ASSUME NEW p \in Prompt, Allocated(p)
                 PROVE  /\ prompts[p].cancelled <=> ~InTable(p)
                        /\ prompts[p].cancelled => prompts[p].ops = 0
      BY DEF LeftoversAreCancelled
    <2>1. PromptOK(prompts[p], One(InTable(p)), 0) /\ prompts[p] \in PromptRecord
      BY <1>1, StateParts
    <2>2. CASE InTable(p)
      BY <2>1, <2>2 DEF PromptOK, One
    <2>3. CASE ~InTable(p)
      <3>1. prompts[p].calls + prompts[p].ops > 0
        BY <2>1, <2>3 DEF PromptOK, One, Allocated, PromptRecord
      <3>2. QED
        BY <2>1, <2>3, <3>1 DEF PromptOK, One
    <2>4. QED
      BY <2>2, <2>3
  <1>2. QED
    BY <1>1, Invariant, PTL

\* The dialog is asked only once a secret exchange has come from the caller, so
\* its answer can be sent: the precondition of prompt_send_ready.
THEOREM AnswersFollowExchange == Spec => []SecretsAfterExchange
  <1>1. ASSUME IInv PROVE SecretsAfterExchange
    <2>1. \A p \in Prompt : PromptOK(prompts[p], One(InTable(p)), 0)
      BY <1>1, StateParts
    <2>2. QED
      BY <2>1 DEF SecretsAfterExchange, PromptOK
  <1>2. QED
    BY <1>1, Invariant, PTL

\* Nothing is kept for a caller whose name has vanished, nor while the service
\* is not registered: the assertions of gcr_system_prompter_unregister.
THEOREM NothingIsKept == Spec => []NothingForTheDeparted
  <1>1. IInv => NothingForTheDeparted
    BY DEF IInv
  <1>2. QED
    BY <1>1, Invariant, PTL

-----------------------------------------------------------------------------
(* The process.                                                            *)

\* The service is registered while the loop runs and a name was acquired, and not
\* any more once the loop was left.
PInv ==
    /\ IInv
    /\ loop \in {"running", "quitting", "left", "exited"}
    /\ registeredPrompter \in BOOLEAN
    /\ registered <=> registeredPrompter /\ loop \in {"running", "quitting"}

LEMMA ProcessInitPInv == ProcessInit => PInv
  <1> SUFFICES ASSUME ProcessInit PROVE PInv
    OBVIOUS
  <1>1. IInv
    BY InitIInv DEF ProcessInit
  <1>2. registered = FALSE
    BY DEF ProcessInit, Init
  <1>3. QED
    BY <1>1, <1>2 DEF ProcessInit, PInv

\* What the service does in the main loop is a step of SystemPrompter, and
\* registers nothing.
LEMMA ServiceSteps ==
    ASSUME ServiceRuns
    PROVE  /\ [Next]_vars
           /\ registered' = registered
           /\ Dispatching
           /\ UNCHANGED <<loop, acquired, registeredPrompter>>
  <1>1. /\ Dispatching
        /\ UNCHANGED <<loop, acquired, registeredPrompter>>
    BY DEF ServiceRuns
  <1>2. ASSUME NEW c \in Callback, BeginPrompting(c) PROVE Next /\ registered' = registered
    BY <1>2 DEF BeginPrompting, Next
  <1>3. ASSUME NEW c \in Callback, NEW type \in {"confirm", "password", "other"},
               NEW valid \in BOOLEAN, PerformPrompt(c, type, valid)
        PROVE  Next /\ registered' = registered
    <2>1. registered' = registered
      BY <1>3 DEF PerformPrompt
    <2>2. QED
      BY <1>3, <2>1 DEF Next
  <1>4. ASSUME NEW c \in Callback, StopMethod(c) PROVE Next /\ registered' = registered
    BY <1>4 DEF StopMethod, Next
  <1>5. ASSUME NEW n \in Caller, CallerVanished(n) PROVE Next /\ registered' = registered
    BY <1>5 DEF CallerVanished, Next
  <1>6. ASSUME NEW p \in Prompt, NEW response \in {"yes", "no"}, UserAnswers(p, response)
        PROVE  Next /\ registered' = registered
    BY <1>6 DEF UserAnswers, Next
  <1>7. ASSUME NEW p \in Prompt, UserCloses(p) PROVE Next /\ registered' = registered
    BY <1>7 DEF UserCloses, Next
  <1>8. ASSUME NEW p \in Prompt, NEW ok \in BOOLEAN, ReadyComplete(p, ok)
        PROVE  Next /\ registered' = registered
    <2>1. registered' = registered
      BY <1>8 DEF ReadyComplete
    <2>2. QED
      BY <1>8, <2>1 DEF Next
  <1>9. QED
    BY <1>1, <1>2, <1>3, <1>4, <1>5, <1>6, <1>7, <1>8 DEF ServiceRuns

\* Every step of the process is one of its service, or leaves it alone.
LEMMA ProcessSteps ==
    ASSUME [ProcessNext]_processVars
    PROVE  [Next]_vars
  <1>1. CASE ServiceRuns
    BY <1>1, ServiceSteps
  <1>2. ASSUME NEW name \in Name, BusAcquired(name) PROVE [Next]_vars
    BY <1>2 DEF BusAcquired, Next
  <1>3. CASE BusUnavailable \/ TimeoutQuit \/ Exits
    BY <1>3 DEF BusUnavailable, TimeoutQuit, Exits
  <1>4. CASE LoopReturns
    BY <1>4 DEF LoopReturns, Next
  <1>5. CASE UNCHANGED processVars
    BY <1>5 DEF processVars
  <1>6. QED
    BY <1>1, <1>2, <1>3, <1>4, <1>5 DEF ProcessNext

LEMMA ProcessNextPInv == PInv /\ [ProcessNext]_processVars => PInv'
  <1> SUFFICES ASSUME PInv, [ProcessNext]_processVars PROVE PInv'
    OBVIOUS
  <1>1. IInv'
    BY ProcessSteps, NextIInv DEF PInv
  <1> DEFINE Rest == /\ loop \in {"running", "quitting", "left", "exited"}
                     /\ registeredPrompter \in BOOLEAN
                     /\ registered <=> registeredPrompter /\ loop \in {"running", "quitting"}
  <1>2. CASE ServiceRuns
    <2>1. Rest'
      BY <1>2, ServiceSteps DEF PInv
    <2>2. QED
      BY <1>1, <2>1 DEF PInv
  <1>3. ASSUME NEW name \in Name, BusAcquired(name) PROVE Rest'
    <2>1. CASE registeredPrompter
      BY <1>3, <2>1 DEF PInv, BusAcquired, Dispatching, vars
    <2>2. CASE ~registeredPrompter
      BY <1>3, <2>2 DEF PInv, BusAcquired, Dispatching, Register
    <2>3. QED
      BY <2>1, <2>2
  <1>4. CASE BusUnavailable \/ TimeoutQuit
    BY <1>1, <1>4 DEF PInv, BusUnavailable, TimeoutQuit, Dispatching, vars
  <1>5. CASE LoopReturns
    <2>1. CASE registeredPrompter
      BY <1>1, <1>5, <2>1 DEF PInv, LoopReturns, Unregister
    <2>2. CASE ~registeredPrompter
      BY <1>1, <1>5, <2>2 DEF PInv, LoopReturns, vars
    <2>3. QED
      BY <2>1, <2>2 DEF PInv
  <1>6. CASE Exits
    BY <1>1, <1>6 DEF PInv, Exits, vars
  <1>7. CASE UNCHANGED processVars
    BY <1>1, <1>7 DEF PInv, processVars, vars
  <1>8. QED
    BY <1>1, <1>2, <1>3, <1>4, <1>5, <1>6, <1>7 DEF ProcessNext, PInv

\* The service is registered exactly while a main loop that has its name runs
\* (on_name_acquired, on_name_lost and the end of main in gcr-prompter-tool.c).
THEOREM ProcessInvariant == ProcessSpec => []PInv
  BY ProcessInitPInv, ProcessNextPInv, PTL DEF ProcessSpec

\* No accepted caller is left behind in a process that has left its main loop: whoever
\* begins in the iteration in which the timeout fires is told that it is over, by
\* gcr_system_prompter_unregister at the end of main.
THEOREM NobodyStaysBehind == ProcessSpec => []NobodyLeftBehind
  <1>1. PInv => NobodyLeftBehind
    BY DEF PInv, IInv, NothingForTheDeparted, NobodyLeftBehind
  <1>2. QED
    BY <1>1, ProcessInvariant, PTL

-----------------------------------------------------------------------------
(* The service implements the queue.                                       *)

WithScreen(st) == {c \in Callback : st.active[c] # None}

\* st is what becomes of the line l and the screen s when its head may be shown.
Served(l, s, st) ==
    \/ st.waiting = l /\ WithScreen(st) = s
    \/ \E c \in Callback :
          /\ Queue!Room(s)
          /\ IsHead(l, c)
          /\ st.waiting = Without(l, {c})
          /\ WithScreen(st) = s \union {c}

\* The queues of the abstract specification are those of the service.
LEMMA SameQueue ==
    /\ \A q, S : Queue!Without(q, S) = Without(q, S)
    /\ \A q, c : Queue!PushTail(q, c) = PushTail(q, c)
    /\ \A q, c : Queue!IsHead(q, c) <=> IsHead(q, c)
    /\ \A q : Queue!QueuedIn(q) = QueuedIn(q)
  BY DEF Queue!Without, Without, Queue!PushTail, PushTail, Queue!IsHead, IsHead,
         Queue!QueuedIn, QueuedIn

LEMMA BecomeServes ==
    ASSUME NEW st, Become(st), NEW l, NEW s, Served(l, s, st)
    PROVE  Queue!Serve(l, s)
  <1>1. waiting' = st.waiting /\ Active' = WithScreen(st)
    BY DEF Become, Active, WithScreen
  <1>2. QED
    BY <1>1, SameQueue DEF Served, Queue!Serve

\* A step that changes neither the queue nor the active table.
LEMMA BecomeStutters ==
    ASSUME NEW st, Become(st), st.waiting = waiting, st.active = active
    PROVE  UNCHANGED <<waiting, Active>>
  BY DEF Become, Active

\* prompt_next_ready shows the head of the line when there is room.
LEMMA NextReadyServes ==
    ASSUME NEW st, NEW h, Sound(st, h), NEW new \in NextReady(st)
    PROVE  Served(st.waiting, WithScreen(st), new)
  <1>1. CASE new = st
    BY <1>1 DEF Served
  <1>2. ASSUME NEW c \in Callback, NEW p \in Prompt, IsHead(st.waiting, c), ~Busy(st),
               new = Activated(st, c, p)
        PROVE  Served(st.waiting, WithScreen(st), new)
    <2>1. new.waiting = Without(st.waiting, {c}) /\ new.active = Put(st.active, c, p)
      BY <1>2 DEF Activated
    <2>2. p # None /\ st.active \in [Callback -> Prompt \union {None}]
      BY NoneAssumption, SoundParts
    <2>3. WithScreen(new) = WithScreen(st) \union {c}
      BY <2>1, <2>2 DEF WithScreen, Put
    <2>4. Queue!Room(WithScreen(st))
      BY <1>2, ModeAssumption DEF Busy, WithScreen, Queue!Room
    <2>5. QED
      BY <1>2, <2>1, <2>3, <2>4 DEF Served
  <1>3. QED
    BY <1>1, <1>2 DEF NextReady, Heads, Unused

\* prompt_stop_prompting takes the callbacks of S off the line and the screen.
LEMMA StopLeaves ==
    ASSUME NEW st, NEW S, NEW notice
    PROVE  LET new == StopPrompting(st, S, notice)
           IN  /\ new.waiting = Without(st.waiting, Begun(st, S))
               /\ WithScreen(new) = WithScreen(st) \ Begun(st, S)
  BY DEF StopPrompting, WithScreen

\* Everybody who has begun is in the line or on the screen.
LEMMA MembersBegun == IInv => Queue!Members = callbacks
  BY StateParts, SameQueue DEF Queue!Members, QueuedIn, Active

\* The callbacks of S leave, and the head of the line may be shown.
LEMMA StepLeaves ==
    ASSUME IInv, NEW S \in Queue!Company, NEW l, NEW s,
           l = Without(waiting, Begun(Tables, S)), s = Active \ Begun(Tables, S),
           Queue!Serve(l, s)
    PROVE  Queue!Next
  <1>1. Begun(Tables, S) = S \intersect Queue!Members
    BY MembersBegun DEF Begun, Tables
  <1>2. Queue!Leave(Begun(Tables, S))
    BY SameQueue DEF Queue!Leave
  <1>3. QED
    BY <1>1, <1>2 DEF Queue!Next

\* Those who leave together: one, those of a name, and all.
LEMMA Companies ==
    /\ \A c \in Callback : {c} \in Queue!Company
    /\ \A n \in Caller : {c \in Callback : Owner[c] = n} \in Queue!Company
    /\ Callback \in Queue!Company
  BY DEF Queue!Company

\* Only those who have begun leave.
LEMMA SameBegun ==
    ASSUME IInv
    PROVE  /\ Begun(Tables, callbacks) = Begun(Tables, Callback)
           /\ \A n : Begun(Tables, CallbacksOf(n)) = Begun(Tables, {c \in Callback : Owner[c] = n})
           /\ Tables.callbacks = callbacks /\ callbacks \subseteq Callback
  BY StateParts DEF Begun, Tables, CallbacksOf

LEMMA UnregisterLeaves == IInv /\ Unregister => Queue!Next
  <1> SUFFICES ASSUME IInv, Unregister PROVE Queue!Next
    OBVIOUS
  <1> DEFINE st == StopPrompting(Tables, callbacks, <<Done>>)
  <1>1. Become(st)
    BY DEF Unregister
  <1>2. /\ st.waiting = Without(waiting, Begun(Tables, callbacks))
        /\ WithScreen(st) = Active \ Begun(Tables, callbacks)
    BY StopLeaves, TablesParts DEF WithScreen, Active
  <1>3. QED
    BY <1>1, <1>2, SameBegun, Companies, BecomeServes, StepLeaves DEF Served

LEMMA BeginPromptingJoins ==
    ASSUME IInv, NEW c \in Callback, BeginPrompting(c)
    PROVE  Queue!Next \/ UNCHANGED <<waiting, Active>>
  <1>1. CASE c \in callbacks
    <2> DEFINE st == Post(Tables, c, Reply("Failed", "Begin"))
    <2>1. Become(st) /\ st.waiting = waiting /\ st.active = active
      BY <1>1 DEF BeginPrompting, Post, Tables
    <2>2. QED
      BY <2>1, BecomeStutters
  <1>2. CASE c \notin callbacks
    <2> DEFINE begun == Post(Enqueued(Tables, c), c, Reply("Return", "Begin"))
    <2>1. PICK st \in NextReady(begun) : Become(st)
      BY <1>2 DEF BeginPrompting
    <2>2. Sound(Enqueued(Tables, c), None) /\ Reply("Return", "Begin") \in Message
      BY <1>2, EnqueuedSound, TablesParts, ReplyIsMessage DEF IInv
    <2>3. Sound(begun, None)
      BY <2>2, PostSound
    <2>4. begun.waiting = PushTail(waiting, c) /\ WithScreen(begun) = Active
      BY DEF Post, Enqueued, Tables, WithScreen, Active
    <2>5. Served(PushTail(waiting, c), Active, st)
      BY <2>1, <2>3, <2>4, NextReadyServes
    <2>6. Queue!Join(c)
      BY <1>2, <2>1, <2>5, BecomeServes, MembersBegun, SameQueue DEF Queue!Join
    <2>7. QED
      BY <2>6 DEF Queue!Next
  <1>3. QED
    BY <1>1, <1>2

LEMMA PerformPromptStutters ==
    ASSUME NEW c \in Callback, NEW type, NEW valid, PerformPrompt(c, type, valid)
    PROVE  UNCHANGED <<waiting, Active>>
  <1>1. \A st, d, m : /\ Post(st, d, m).waiting = st.waiting
                      /\ Post(st, d, m).active = st.active
    BY DEF Post
  <1>2. \A st, p, pr : /\ Update(st, p, pr).waiting = st.waiting
                       /\ Update(st, p, pr).active = st.active
    BY DEF Update
  <1>3. \E st : Become(st) /\ st.waiting = waiting /\ st.active = active
    BY <1>1, <1>2, TablesParts DEF PerformPrompt
  <1>4. QED
    BY <1>3, BecomeStutters

LEMMA StopMethodLeaves ==
    ASSUME IInv, NEW c \in Callback, StopMethod(c)
    PROVE  Queue!Next
  <1> DEFINE left == StopPrompting(Tables, {c}, <<Done>>)
             stopped == Post(left, c, Reply("Return", "Stop"))
  <1>1. PICK st \in NextReady(stopped) : Become(st)
    BY DEF StopMethod
  <1>2. Sound(left, None) /\ Reply("Return", "Stop") \in Message
    BY StopSound, NoticeIsMessage, ReplyIsMessage DEF IInv
  <1>3. Sound(stopped, None)
    BY <1>2, PostSound
  <1>4. /\ left.waiting = Without(waiting, Begun(Tables, {c}))
        /\ WithScreen(left) = Active \ Begun(Tables, {c})
    BY StopLeaves, TablesParts DEF WithScreen, Active
  <1>5. stopped.waiting = left.waiting /\ WithScreen(stopped) = WithScreen(left)
    BY DEF Post, WithScreen
  <1> HIDE DEF left, stopped
  <1>6. Queue!Serve(stopped.waiting, WithScreen(stopped))
    BY <1>1, <1>3, NextReadyServes, BecomeServes
  <1>7. QED
    BY <1>4, <1>5, <1>6, Companies, StepLeaves

LEMMA CallerVanishedLeaves ==
    ASSUME IInv, NEW n \in Caller, CallerVanished(n)
    PROVE  Queue!Next
  <1> DEFINE st == StopPrompting(Tables, CallbacksOf(n), <<>>)
  <1>1. Become(st)
    BY DEF CallerVanished
  <1>2. /\ st.waiting = Without(waiting, Begun(Tables, CallbacksOf(n)))
        /\ WithScreen(st) = Active \ Begun(Tables, CallbacksOf(n))
    BY StopLeaves, TablesParts DEF WithScreen, Active
  <1>3. QED
    BY <1>1, <1>2, SameBegun, Companies, BecomeServes, StepLeaves DEF Served

LEMMA UserAnswersStutters ==
    ASSUME NEW p \in Prompt, NEW response, UserAnswers(p, response)
    PROVE  UNCHANGED <<waiting, Active>>
  <1> DEFINE answered == Update(Tables, p, OperationDone(prompts[p]))
             st == Post(answered, prompts[p].callback, Ready(response))
  <1>1. Become(st)
    BY DEF UserAnswers
  <1>2. st.waiting = answered.waiting /\ st.active = answered.active
    BY DEF Post
  <1>3. answered.waiting = waiting /\ answered.active = active
    BY TablesParts DEF Update
  <1>4. QED
    BY <1>1, <1>2, <1>3, BecomeStutters

LEMMA UserClosesLeaves ==
    ASSUME IInv, NEW p \in Prompt, UserCloses(p)
    PROVE  Queue!Next \/ UNCHANGED <<waiting, Active>>
  <1> DEFINE c == prompts[p].callback
             S == {c}
             st == StopPrompting(Tables, S, <<Done>>)
  <1>1. Become(st)
    BY DEF UserCloses
  <1>2. /\ st.waiting = Without(waiting, Begun(Tables, S))
        /\ WithScreen(st) = Active \ Begun(Tables, S)
    BY StopLeaves, TablesParts DEF WithScreen, Active
  <1> HIDE DEF st
  <1>3. CASE c \in Callback
    <2>1. S \in Queue!Company
      BY <1>3, Companies
    <2>2. QED
      BY <1>1, <1>2, <2>1, BecomeServes, StepLeaves DEF Served
  <1>4. CASE c \notin Callback
    <2>1. Begun(Tables, S) = {}
      BY <1>4, SameBegun DEF Begun
    <2>2. Without(waiting, {}) = waiting
      BY StateParts DEF Without
    <2>3. waiting' = st.waiting /\ Active' = WithScreen(st)
      BY <1>1 DEF Become, Active, WithScreen
    <2>4. QED
      BY <1>2, <2>1, <2>2, <2>3
  <1>5. QED
    BY <1>3, <1>4

\* What on_prompt_ready_complete does before it stops or carries on: the structure
\* holds no call any more but for the one reference of the handler.
LEMMA CompletedSound ==
    ASSUME IInv, NEW p \in Prompt, prompts[p].calls > 0
    PROVE  LET completed == Update(Tables, p, Completed(prompts[p]))
           IN  /\ Sound(completed, p)
               /\ completed.callbacks = callbacks
               /\ completed.waiting = waiting
               /\ completed.active = active
  <1>1. /\ Sound(Tables, None)
        /\ Tables.callbacks = callbacks /\ Tables.waiting = waiting
        /\ Tables.active = active /\ Tables.prompts = prompts
    BY TablesParts DEF IInv
  <1>2. One(p = None) = 0 /\ One(p = p) = 1 /\ InTables(Tables, p) \in {0, 1}
    BY NoneAssumption DEF One, InTables
  <1>3. prompts[p] \in PromptRecord /\ PromptOK(prompts[p], InTables(Tables, p), 0)
    BY <1>1, <1>2, SoundParts
  <1>4. /\ Completed(prompts[p]) \in PromptRecord
        /\ Completed(prompts[p]).callback = prompts[p].callback
        /\ PromptOK(Completed(prompts[p]), InTables(Tables, p), 1)
    BY <1>2, <1>3, CompletedOK
  <1>5. Sound(Update(Tables, p, Completed(prompts[p])), p)
    BY <1>1, <1>2, <1>4, UpdateSound
  <1>6. QED
    BY <1>1, <1>5 DEF Update

LEMMA ReadyCompleteLeaves ==
    ASSUME IInv, NEW p \in Prompt, NEW ok, ReadyComplete(p, ok)
    PROVE  Queue!Next \/ UNCHANGED <<waiting, Active>>
  <1> DEFINE c == prompts[p].callback
             completed == Update(Tables, p, Completed(prompts[p]))
             stopped == StopPrompting(completed, {c}, <<>>)
  <1>1. /\ Sound(completed, p)
        /\ completed.callbacks = callbacks
        /\ completed.waiting = waiting
        /\ completed.active = active
    BY CompletedSound DEF ReadyComplete
  <1>2. \A st, pr : /\ Update(st, p, pr).waiting = st.waiting
                    /\ Update(st, p, pr).active = st.active
    BY DEF Update
  <1>3. CASE prompts[p].cancelled \/ ok
    <2>1. Become(Update(completed, p, Unref(completed.prompts[p])))
      BY <1>3 DEF ReadyComplete
    <2>2. QED
      BY <1>1, <1>2, <2>1, BecomeStutters
  <1>4. CASE ~(prompts[p].cancelled \/ ok)
    <2>1. PICK st \in NextReady(stopped) : Become(Update(st, p, Unref(st.prompts[p])))
      BY <1>4 DEF ReadyComplete
    <2>2. Sound(stopped, p)
      BY <1>1, StopSound, NoticeIsMessage
    <2>3. Served(stopped.waiting, WithScreen(stopped), st)
      BY <2>1, <2>2, NextReadyServes
    <2>4. Served(stopped.waiting, WithScreen(stopped), Update(st, p, Unref(st.prompts[p])))
      BY ZenonT(60), <2>3, <1>2 DEF Served, WithScreen
    <2>5. Queue!Serve(stopped.waiting, WithScreen(stopped))
      BY <2>1, <2>4, BecomeServes
    <2>6. Begun(completed, {c}) = Begun(Tables, {c}) /\ WithScreen(completed) = Active
      BY <1>1, TablesParts DEF Begun, WithScreen, Active
    <2>7. /\ stopped.waiting = Without(waiting, Begun(Tables, {c}))
          /\ WithScreen(stopped) = Active \ Begun(Tables, {c})
      BY <1>1, <2>6, StopLeaves
    <2>8. c \in Callback
      <3>1. PromptOK(prompts[p], InTables(Tables, p), One(p = None)) /\ prompts[p].calls > 0
        BY SoundParts, TablesParts DEF IInv, ReadyComplete
      <3>2. prompts[p] \in PromptRecord
        BY SoundParts, TablesParts DEF IInv
      <3>3. InTables(Tables, p) # 0
        BY <1>4, <3>1, <3>2 DEF PromptOK, PromptRecord
      <3>4. IsIn(Tables, p)
        BY <3>3 DEF InTables, One
      <3>5. PICK d \in Callback : Tables.active[d] = p
        BY <3>4 DEF IsIn
      <3>6. Sound(Tables, None) /\ p # None
        BY NoneAssumption DEF IInv
      <3>7. Tables.prompts[Tables.active[d]].callback = d
        BY <3>5, <3>6, SoundParts
      <3>8. QED
        BY <3>5, <3>7, TablesParts
    <2>9. QED
      BY <2>5, <2>7, <2>8, Companies, StepLeaves
  <1>5. QED
    BY <1>3, <1>4

\* Every step of the service is one of the queue, or leaves it as it is.
LEMMA QueueSteps ==
    ASSUME IInv, [Next]_vars
    PROVE  [Queue!Next]_<<waiting, Active>>
  <1>1. CASE Register
    BY <1>1 DEF Register, Active
  <1>2. CASE Unregister
    BY <1>2, UnregisterLeaves
  <1>3. ASSUME NEW c \in Callback, BeginPrompting(c)
        PROVE  [Queue!Next]_<<waiting, Active>>
    BY <1>3, BeginPromptingJoins
  <1>4. ASSUME NEW c \in Callback, NEW type, NEW valid, PerformPrompt(c, type, valid)
        PROVE  [Queue!Next]_<<waiting, Active>>
    BY <1>4, PerformPromptStutters
  <1>5. ASSUME NEW c \in Callback, StopMethod(c) PROVE [Queue!Next]_<<waiting, Active>>
    BY <1>5, StopMethodLeaves
  <1>6. ASSUME NEW n \in Caller, CallerVanished(n) PROVE [Queue!Next]_<<waiting, Active>>
    BY <1>6, CallerVanishedLeaves
  <1>7. ASSUME NEW p \in Prompt, NEW response, UserAnswers(p, response)
        PROVE  [Queue!Next]_<<waiting, Active>>
    BY <1>7, UserAnswersStutters
  <1>8. ASSUME NEW p \in Prompt, UserCloses(p) PROVE [Queue!Next]_<<waiting, Active>>
    BY <1>8, UserClosesLeaves
  <1>9. ASSUME NEW p \in Prompt, NEW ok, ReadyComplete(p, ok)
        PROVE  [Queue!Next]_<<waiting, Active>>
    BY <1>9, ReadyCompleteLeaves
  <1>10. CASE UNCHANGED vars
    BY <1>10 DEF vars, Active
  <1>11. QED
    BY <1>1, <1>2, <1>3, <1>4, <1>5, <1>6, <1>7, <1>8, <1>9, <1>10 DEF Next

\* The process of the prompter implements the queue that PromptQueue promises: whatever
\* its handlers do with their three tables, and however the process comes to its end,
\* callers see one line that is served in order and a screen shared as the mode says.
THEOREM QueueIsImplemented == ProcessSpec => ImplementsQueue
  <1>1. ProcessInit => Queue!Init
    BY DEF ProcessInit, Init, Queue!Init, Active, EmptyQueue, Queue!EmptyQueue
  <1>2. PInv /\ [ProcessNext]_processVars => [Queue!Next]_<<waiting, Active>>
    BY ProcessSteps, QueueSteps DEF PInv
  <1>3. QED
    BY <1>1, <1>2, ProcessInvariant, PTL DEF ProcessSpec, ImplementsQueue, Queue!Spec

-----------------------------------------------------------------------------
(* Nobody's prompting ends in silence.                                     *)

\* What EndsWithDone asks for one callback.
Excused(c) ==
    \/ Sends(c, Done)
    \/ Owner[c] \in gone'
    \/ /\ active[c] # None
       /\ prompts[active[c]].calls > 0
       /\ \A d \in callbacks : d # c => d \in callbacks'

\* The message m is among those that st is about to send to c.
Telling(st, c, m) == \E i \in 1 .. Len(st.out[c]) : st.out[c][i] = m

LEMMA BecomeTells ==
    ASSUME NEW st, Become(st), NEW c, NEW m, Telling(st, c, m)
    PROVE  Sends(c, m)
  BY DEF Become, Telling, Sends

\* What is sent later comes after it, and takes nothing back.
LEMMA AppendTells ==
    ASSUME NEW s \in Seq(Message), NEW t \in Seq(Message), NEW m, NEW i \in 1 .. Len(s),
           s[i] = m
    PROVE  /\ i \in 1 .. Len(s \o t) /\ (s \o t)[i] = m
           /\ \A x \in Message : i \in 1 .. Len(Append(s, x)) /\ Append(s, x)[i] = m
  OBVIOUS

LEMMA PostTells ==
    ASSUME NEW st \in TableRecord, NEW c \in Callback, NEW d, NEW m, NEW x \in Message,
           Telling(st, c, m)
    PROVE  Telling(Post(st, d, x), c, m)
  <1>1. Post(st, d, x).out[c] = IF c = d THEN Append(st.out[d], x) ELSE st.out[c]
    BY DEF Post, Put, TableRecord
  <1>2. st.out[c] \in Seq(Message)
    BY DEF TableRecord
  <1>3. QED
    BY <1>1, <1>2 DEF Telling

LEMMA ReadyIsMessage == \A r \in {"none", "yes", "no"} : Ready(r) \in Message
  BY DEF Ready, Message, Calls

LEMMA NextReadyTells ==
    ASSUME NEW st \in TableRecord, NEW new \in NextReady(st), NEW c \in Callback, NEW m,
           Telling(st, c, m)
    PROVE  Telling(new, c, m)
  <1>1. CASE new = st
    BY <1>1
  <1>2. ASSUME NEW d \in Callback, NEW p \in Prompt, new = Activated(st, d, p)
        PROVE  Telling(new, c, m)
    <2>1. new.out[c] = IF c = d THEN Append(st.out[d], Ready("none")) ELSE st.out[c]
      BY <1>2 DEF Activated, Put, TableRecord
    <2>2. st.out[c] \in Seq(Message) /\ Ready("none") \in Message
      BY ReadyIsMessage DEF TableRecord
    <2>3. QED
      BY <2>1, <2>2 DEF Telling
  <1>3. QED
    BY <1>1, <1>2 DEF NextReady, Heads, Unused

LEMMA StopTells ==
    ASSUME NEW st \in TableRecord, NEW S, NEW c \in Begun(st, S)
    PROVE  Telling(StopPrompting(st, S, <<Done>>), c, Done)
  <1>1. c \in Callback /\ st.out[c] \in Seq(Message)
    BY DEF Begun, TableRecord
  <1>2. StopPrompting(st, S, <<Done>>).out[c] = st.out[c] \o <<Done>>
    BY <1>1 DEF StopPrompting
  <1>3. /\ Len(st.out[c]) + 1 \in 1 .. Len(st.out[c] \o <<Done>>)
        /\ (st.out[c] \o <<Done>>)[Len(st.out[c]) + 1] = Done
    BY <1>1, NoticeIsMessage
  <1>4. QED
    BY <1>2, <1>3 DEF Telling

\* Those who are stopped are the ones who do not prompt any more.
LEMMA StopsOnly ==
    ASSUME NEW st, NEW S, NEW notice
    PROVE  StopPrompting(st, S, notice).callbacks = st.callbacks \ Begun(st, S)
  BY DEF StopPrompting

LEMMA NextReadyKeeps ==
    ASSUME NEW st, NEW new \in NextReady(st)
    PROVE  new.callbacks = st.callbacks
  <1>1. \A c, p : Activated(st, c, p).callbacks = st.callbacks
    BY DEF Activated
  <1>2. new = st \/ \E c \in Callback, p \in Prompt : new = Activated(st, c, p)
    BY DEF NextReady, Heads, Unused
  <1>3. QED
    BY <1>1, <1>2

LEMMA TablesTyped == IInv => Tables \in TableRecord
  BY SoundParts DEF IInv

LEMMA UnregisterExcused ==
    ASSUME IInv, Unregister, NEW c \in callbacks
    PROVE  Excused(c)
  <1> DEFINE st == StopPrompting(Tables, callbacks, <<Done>>)
  <1>1. c \in Begun(Tables, callbacks)
    BY DEF Begun, Tables
  <1>2. Telling(st, c, Done) /\ Become(st)
    BY <1>1, StopTells, TablesTyped DEF Unregister
  <1>3. QED
    BY <1>2, BecomeTells DEF Excused

LEMMA StopMethodExcused ==
    ASSUME IInv, NEW d \in Callback, StopMethod(d), NEW c \in callbacks, c \notin callbacks'
    PROVE  Excused(c)
  <1> DEFINE left == StopPrompting(Tables, {d}, <<Done>>)
             stopped == Post(left, d, Reply("Return", "Stop"))
  <1>1. PICK st \in NextReady(stopped) : Become(st)
    BY DEF StopMethod
  <1>2. callbacks' = left.callbacks
    <2>1. stopped.callbacks = left.callbacks
      BY DEF Post
    <2> HIDE DEF left, stopped
    <2>2. st.callbacks = stopped.callbacks
      BY <1>1, NextReadyKeeps
    <2>3. QED
      BY <1>1, <2>1, <2>2 DEF Become
  <1>3. c \in Begun(Tables, {d}) /\ c \in Callback
    BY <1>2, StopsOnly, TablesParts, StateParts
  <1>4. Sound(left, None) /\ Reply("Return", "Stop") \in Message
    BY StopSound, NoticeIsMessage, ReplyIsMessage DEF IInv
  <1>5. Sound(stopped, None)
    BY <1>4, PostSound
  <1>6. left \in TableRecord /\ stopped \in TableRecord
    BY <1>4, <1>5, SoundParts
  <1>7. Telling(left, c, Done)
    BY <1>3, StopTells, TablesTyped
  <1> HIDE DEF left
  <1>8. Telling(stopped, c, Done)
    BY <1>3, <1>4, <1>6, <1>7, PostTells
  <1> HIDE DEF stopped
  <1>9. Telling(st, c, Done)
    BY <1>1, <1>3, <1>6, <1>8, NextReadyTells
  <1>10. QED
    BY <1>1, <1>9, BecomeTells DEF Excused

LEMMA CallerVanishedExcused ==
    ASSUME IInv, NEW n \in Caller, CallerVanished(n), NEW c \in callbacks, c \notin callbacks'
    PROVE  Excused(c)
  <1>1. callbacks' = callbacks \ Begun(Tables, CallbacksOf(n))
    BY StopsOnly, TablesParts DEF CallerVanished, Become
  <1>2. Owner[c] = n
    BY <1>1 DEF Begun, CallbacksOf
  <1>3. QED
    BY <1>2 DEF CallerVanished, Excused

LEMMA UserClosesExcused ==
    ASSUME IInv, NEW p \in Prompt, UserCloses(p), NEW c \in callbacks, c \notin callbacks'
    PROVE  Excused(c)
  <1> DEFINE st == StopPrompting(Tables, {prompts[p].callback}, <<Done>>)
  <1>1. Become(st)
    BY DEF UserCloses
  <1>2. callbacks' = callbacks \ Begun(Tables, {prompts[p].callback})
    BY <1>1, StopsOnly, TablesParts DEF Become
  <1>3. Telling(st, c, Done)
    BY <1>2, StopTells, TablesTyped
  <1>4. QED
    BY <1>1, <1>3, BecomeTells DEF Excused

\* The call that failed was that of the callback whose prompting ends.
LEMMA ReadyCompleteExcused ==
    ASSUME IInv, NEW p \in Prompt, NEW ok, ReadyComplete(p, ok),
           NEW c \in callbacks, c \notin callbacks'
    PROVE  Excused(c)
  <1> DEFINE d == prompts[p].callback
             completed == Update(Tables, p, Completed(prompts[p]))
             stopped == StopPrompting(completed, {d}, <<>>)
  <1>1. prompts[p].calls > 0 /\ completed.callbacks = callbacks
    BY TablesParts DEF ReadyComplete, Update
  <1>2. \A st, pr : Update(st, p, pr).callbacks = st.callbacks
    BY DEF Update
  <1>3. ~(prompts[p].cancelled \/ ok)
    BY <1>1, <1>2 DEF ReadyComplete, Become
  <1>4. PICK st \in NextReady(stopped) : Become(Update(st, p, Unref(st.prompts[p])))
    BY <1>3 DEF ReadyComplete
  <1>5. callbacks' = callbacks \ Begun(completed, {d})
    BY <1>1, <1>2, <1>4, NextReadyKeeps, StopsOnly DEF Become
  <1>6. c = d /\ \A e \in callbacks : e # c => e \in callbacks'
    BY <1>5 DEF Begun
  <1>7. PromptOK(prompts[p], One(InTable(p)), 0) /\ prompts[p] \in PromptRecord
    BY StateParts
  <1>8. InTable(p)
    BY <1>1, <1>3, <1>7 DEF PromptOK, One, PromptRecord
  <1>9. active[c] = p /\ p # None
    BY <1>6, <1>8, StateParts, NoneAssumption DEF InTable
  <1>10. QED
    BY <1>1, <1>6, <1>9 DEF Excused

LEMMA StepsExcused ==
    ASSUME IInv, [Next]_vars, NEW c \in callbacks \ callbacks'
    PROVE  Excused(c)
  <1>1. CASE Register
    BY <1>1 DEF Register
  <1>2. CASE Unregister
    BY <1>2, UnregisterExcused
  <1>3. ASSUME NEW d \in Callback, BeginPrompting(d) PROVE callbacks \subseteq callbacks'
    <2>1. \A st, m : Post(st, d, m).callbacks = st.callbacks
      BY DEF Post
    <2>2. CASE d \in callbacks
      BY <1>3, <2>1, <2>2, TablesParts DEF BeginPrompting, Become
    <2>3. CASE d \notin callbacks
      <3>1. PICK st \in NextReady(Post(Enqueued(Tables, d), d, Reply("Return", "Begin"))) :
                Become(st)
        BY <1>3, <2>3 DEF BeginPrompting
      <3>2. callbacks' = Enqueued(Tables, d).callbacks
        BY <2>1, <3>1, NextReadyKeeps DEF Become
      <3>3. QED
        BY <3>2, TablesParts DEF Enqueued
    <2>4. QED
      BY <2>2, <2>3
  <1>4. ASSUME NEW d \in Callback, NEW type, NEW valid, PerformPrompt(d, type, valid)
        PROVE  callbacks' = callbacks
    <2>1. \A st, m : Post(st, d, m).callbacks = st.callbacks
      BY DEF Post
    <2>2. \A p, pr : Update(Tables, p, pr).callbacks = callbacks
      BY TablesParts DEF Update
    <2>3. QED
      BY <1>4, <2>1, <2>2, TablesParts DEF PerformPrompt, Become
  <1>5. ASSUME NEW d \in Callback, StopMethod(d) PROVE Excused(c)
    BY <1>5, StopMethodExcused
  <1>6. ASSUME NEW n \in Caller, CallerVanished(n) PROVE Excused(c)
    BY <1>6, CallerVanishedExcused
  <1>7. ASSUME NEW p \in Prompt, NEW response, UserAnswers(p, response)
        PROVE  callbacks' = callbacks
    BY <1>7, TablesParts DEF UserAnswers, Become, Post, Update
  <1>8. ASSUME NEW p \in Prompt, UserCloses(p) PROVE Excused(c)
    BY <1>8, UserClosesExcused
  <1>9. ASSUME NEW p \in Prompt, NEW ok, ReadyComplete(p, ok) PROVE Excused(c)
    BY <1>9, ReadyCompleteExcused
  <1>10. CASE UNCHANGED vars
    BY <1>10 DEF vars
  <1>11. QED
    BY <1>1, <1>2, <1>3, <1>4, <1>5, <1>6, <1>7, <1>8, <1>9, <1>10 DEF Next

\* Done is the first that st is about to send, and only to those of S.
DonesTo(st, S) ==
    \A c \in Callback : \A i \in 1 .. Len(st.out[c]) :
        st.out[c][i] = Done => c \in S /\ i = 1

\* What EndsWithDone asks of those who are told.
DonesSent ==
    \A c \in Callback : \A i \in 1 .. Len(out'[c]) :
        out'[c][i] = Done =>
            /\ c \in callbacks \ callbacks'
            /\ \A j \in 1 .. Len(out'[c]) : out'[c][j] = Done => j = i

LEMMA PostDones ==
    ASSUME NEW st \in TableRecord, NEW S, DonesTo(st, S), NEW d, NEW x \in Message, x # Done
    PROVE  DonesTo(Post(st, d, x), S)
  <1> SUFFICES ASSUME NEW c \in Callback, NEW i \in 1 .. Len(Post(st, d, x).out[c]),
                      Post(st, d, x).out[c][i] = Done
               PROVE  c \in S /\ i = 1
    BY DEF DonesTo
  <1>1. Post(st, d, x).out[c] = IF c = d THEN Append(st.out[d], x) ELSE st.out[c]
    BY DEF Post, Put, TableRecord
  <1>2. st.out[c] \in Seq(Message)
    BY DEF TableRecord
  <1>3. i \in 1 .. Len(st.out[c]) /\ st.out[c][i] = Done
    BY <1>1, <1>2
  <1>4. QED
    BY <1>3 DEF DonesTo

LEMMA NotDone ==
    /\ \A r : Ready(r) # Done
    /\ \A r \in {"Return", "Failed", "InvalidArgs"} : \A m : Reply(r, m) # Done
  BY DEF Ready, Reply, Done

LEMMA NextReadyDones ==
    ASSUME NEW st \in TableRecord, NEW S, DonesTo(st, S), NEW new \in NextReady(st)
    PROVE  DonesTo(new, S)
  <1>1. CASE new = st
    BY <1>1
  <1>2. ASSUME NEW d \in Callback, NEW p \in Prompt, new = Activated(st, d, p)
        PROVE  DonesTo(new, S)
    <2> SUFFICES ASSUME NEW c \in Callback, NEW i \in 1 .. Len(new.out[c]), new.out[c][i] = Done
                 PROVE  c \in S /\ i = 1
      BY DEF DonesTo
    <2>1. new.out[c] = IF c = d THEN Append(st.out[d], Ready("none")) ELSE st.out[c]
      BY <1>2 DEF Activated, Put, TableRecord
    <2>2. st.out[c] \in Seq(Message) /\ Ready("none") \in Message /\ Ready("none") # Done
      BY ReadyIsMessage, NotDone DEF TableRecord
    <2>3. i \in 1 .. Len(st.out[c]) /\ st.out[c][i] = Done
      BY <2>1, <2>2
    <2>4. QED
      BY <2>3 DEF DonesTo
  <1>3. QED
    BY <1>1, <1>2 DEF NextReady, Heads, Unused

\* Who is stopped from tables that have sent nothing yet is told once.
LEMMA StopDones ==
    ASSUME NEW st, \A c \in Callback : st.out[c] = <<>>, NEW S
    PROVE  /\ DonesTo(StopPrompting(st, S, <<Done>>), Begun(st, S))
           /\ \A T : DonesTo(StopPrompting(st, S, <<>>), T)
  <1>1. \A notice : \A c \in Callback :
            StopPrompting(st, S, notice).out[c] = IF c \in Begun(st, S) THEN st.out[c] \o notice
                                                 ELSE st.out[c]
    BY DEF StopPrompting
  <1>2. <<>> \o <<Done>> = <<Done>> /\ <<>> \o <<>> = <<>>
    OBVIOUS
  <1>3. \A c \in Callback : StopPrompting(st, S, <<Done>>).out[c]
                                = IF c \in Begun(st, S) THEN <<Done>> ELSE <<>>
    BY <1>1, <1>2
  <1>4. \A c \in Callback : StopPrompting(st, S, <<>>).out[c] = <<>>
    BY <1>1, <1>2
  <1>5. QED
    BY <1>3, <1>4 DEF DonesTo

\* The handler has left st, and sent Done to those whose prompting it has ended.
LEMMA BecomeDones ==
    ASSUME NEW st, Become(st), DonesTo(st, callbacks \ callbacks')
    PROVE  DonesSent
  <1>1. out' = st.out
    BY DEF Become
  <1>2. QED
    BY <1>1 DEF DonesTo, DonesSent

LEMMA SilentTables ==
    /\ \A c \in Callback : Tables.out[c] = <<>>
    /\ \A S : DonesTo(Tables, S)
    /\ \A S, p, pr : DonesTo(Update(Tables, p, pr), S)
  <1>1. \A c \in Callback : Tables.out[c] = <<>>
    BY DEF Tables, Silence
  <1>2. \A p, pr : Update(Tables, p, pr).out = Tables.out
    BY DEF Update, Tables
  <1>3. QED
    BY <1>1, <1>2 DEF DonesTo

LEMMA UnregisterDones ==
    ASSUME IInv, Unregister
    PROVE  DonesSent
  <1> DEFINE st == StopPrompting(Tables, callbacks, <<Done>>)
  <1>1. Become(st)
    BY DEF Unregister
  <1>2. callbacks' = callbacks \ Begun(Tables, callbacks) /\ Begun(Tables, callbacks) \subseteq callbacks
    BY <1>1, StopsOnly, TablesParts DEF Become, Begun
  <1>3. DonesTo(st, Begun(Tables, callbacks))
    BY StopDones, SilentTables
  <1> HIDE DEF st
  <1>4. DonesTo(st, callbacks \ callbacks')
    BY <1>2, <1>3 DEF DonesTo
  <1>5. QED
    BY <1>1, <1>4, BecomeDones

LEMMA BeginDones ==
    ASSUME IInv, NEW d \in Callback, BeginPrompting(d)
    PROVE  DonesSent
  <1>1. \A r \in {"Return", "Failed", "InvalidArgs"} :
            Reply(r, "Begin") \in Message /\ Reply(r, "Begin") # Done
    BY ReplyIsMessage, NotDone
  <1>2. CASE d \in callbacks
    <2> DEFINE st == Post(Tables, d, Reply("Failed", "Begin"))
    <2>1. Become(st)
      BY <1>2 DEF BeginPrompting
    <2>2. DonesTo(st, callbacks \ callbacks')
      BY <1>1, TablesTyped, SilentTables, PostDones
    <2>3. QED
      BY <2>1, <2>2, BecomeDones
  <1>3. CASE d \notin callbacks
    <2> DEFINE queued == Enqueued(Tables, d)
               begun == Post(queued, d, Reply("Return", "Begin"))
    <2>1. PICK st \in NextReady(begun) : Become(st)
      BY <1>3 DEF BeginPrompting
    <2>2. Sound(queued, None)
      BY <1>3, EnqueuedSound, TablesParts DEF IInv
    <2>3. queued \in TableRecord /\ queued.out = Tables.out
      BY <2>2, SoundParts DEF Enqueued, Tables
    <2>4. DonesTo(queued, callbacks \ callbacks')
      BY <2>3, SilentTables DEF DonesTo
    <2> HIDE DEF queued
    <2>5. DonesTo(begun, callbacks \ callbacks') /\ begun \in TableRecord
      BY <1>1, <2>2, <2>3, <2>4, PostDones, PostSound, SoundParts
    <2> HIDE DEF begun
    <2>6. DonesTo(st, callbacks \ callbacks')
      BY <2>1, <2>5, NextReadyDones
    <2>7. QED
      BY <2>1, <2>6, BecomeDones
  <1>4. QED
    BY <1>2, <1>3

LEMMA PerformDones ==
    ASSUME IInv, NEW d \in Callback, NEW type, NEW valid, PerformPrompt(d, type, valid)
    PROVE  DonesSent
  <1>1. \A r \in {"Return", "Failed", "InvalidArgs"} :
            Reply(r, "Perform") \in Message /\ Reply(r, "Perform") # Done
    BY ReplyIsMessage, NotDone
  <1>2. ASSUME NEW st, st.out = Tables.out, "out" \in DOMAIN st,
               NEW r \in {"Return", "Failed", "InvalidArgs"}
        PROVE  DonesTo(Post(st, d, Reply(r, "Perform")), callbacks \ callbacks')
    <2> DEFINE x == Reply(r, "Perform")
               new == Post(st, d, x)
    <2>1. \A c \in Callback : st.out[c] = <<>>
      BY <1>2, SilentTables
    <2>2. x # Done
      BY <1>1
    <2> HIDE DEF x
    <2>3. DOMAIN st.out = Callback
      BY <1>2 DEF Tables, Silence
    <2>4. \A c \in Callback : new.out[c] = IF c = d THEN Append(<<>>, x) ELSE <<>>
      <3>1. new.out = Put(st.out, d, Append(st.out[d], x))
        BY <1>2 DEF Post
      <3>2. QED
        BY <2>1, <2>3, <3>1 DEF Put
    <2> HIDE DEF new
    <2>5. Append(<<>>, x) = <<x>>
      OBVIOUS
    <2>6. \A c \in Callback : \A i \in 1 .. Len(new.out[c]) : new.out[c][i] # Done
      BY <2>2, <2>4, <2>5
    <2>7. QED
      BY <2>6 DEF DonesTo, new, x
  <1>3. /\ \A p, pr : /\ Update(Tables, p, pr).out = Tables.out
                       /\ "out" \in DOMAIN Update(Tables, p, pr)
        /\ "out" \in DOMAIN Tables
    BY DEF Update, Tables
  <1> DEFINE Sent(st) == \E r \in {"Return", "Failed", "InvalidArgs"} :
                             Become(Post(st, d, Reply(r, "Perform")))
  <1>4. Sent(Tables) \/ \E q, pr : Sent(Update(Tables, q, pr))
    BY DEF PerformPrompt
  <1>5. ASSUME NEW st, st.out = Tables.out, "out" \in DOMAIN st, Sent(st)
        PROVE  DonesSent
    BY <1>2, <1>5, BecomeDones
  <1> HIDE DEF Sent
  <1>6. QED
    BY <1>3, <1>4, <1>5

LEMMA StopMethodDones ==
    ASSUME IInv, NEW d \in Callback, StopMethod(d)
    PROVE  DonesSent
  <1> DEFINE left == StopPrompting(Tables, {d}, <<Done>>)
             stopped == Post(left, d, Reply("Return", "Stop"))
  <1>1. PICK st \in NextReady(stopped) : Become(st)
    BY DEF StopMethod
  <1>2. Sound(left, None) /\ Reply("Return", "Stop") \in Message /\ Reply("Return", "Stop") # Done
    BY StopSound, NoticeIsMessage, ReplyIsMessage, NotDone DEF IInv
  <1>3. left.callbacks = callbacks \ Begun(Tables, {d}) /\ Begun(Tables, {d}) \subseteq callbacks
    BY StopsOnly, TablesParts DEF Begun
  <1>4. DonesTo(left, Begun(Tables, {d}))
    BY StopDones, SilentTables
  <1> HIDE DEF left
  <1>5. /\ DonesTo(stopped, Begun(Tables, {d})) /\ stopped \in TableRecord
        /\ stopped.callbacks = left.callbacks
    BY <1>2, <1>4, PostDones, PostSound, SoundParts
  <1> HIDE DEF stopped
  <1>6. DonesTo(st, Begun(Tables, {d})) /\ st.callbacks = stopped.callbacks
    BY <1>1, <1>5, NextReadyDones, NextReadyKeeps
  <1>7. Begun(Tables, {d}) = callbacks \ callbacks'
    BY <1>1, <1>3, <1>5, <1>6 DEF Become
  <1>8. QED
    BY <1>1, <1>6, <1>7, BecomeDones

LEMMA UserDones ==
    ASSUME IInv, NEW p \in Prompt
    PROVE  /\ UserCloses(p) => DonesSent
           /\ \A response \in {"yes", "no"} : UserAnswers(p, response) => DonesSent
  <1>1. ASSUME UserCloses(p) PROVE DonesSent
    <2> DEFINE S == {prompts[p].callback}
               st == StopPrompting(Tables, S, <<Done>>)
    <2>1. Become(st)
      BY <1>1 DEF UserCloses
    <2>2. callbacks' = callbacks \ Begun(Tables, S) /\ Begun(Tables, S) \subseteq callbacks
      BY <2>1, StopsOnly, TablesParts DEF Become, Begun
    <2>3. DonesTo(st, Begun(Tables, S))
      BY StopDones, SilentTables
    <2> HIDE DEF st
    <2>4. DonesTo(st, callbacks \ callbacks')
      BY <2>2, <2>3 DEF DonesTo
    <2>5. QED
      BY <2>1, <2>4, BecomeDones
  <1>2. ASSUME NEW response \in {"yes", "no"}, UserAnswers(p, response) PROVE DonesSent
    <2> DEFINE c == prompts[p].callback
               answered == Update(Tables, p, OperationDone(prompts[p]))
               st == Post(answered, c, Ready(response))
    <2>1. Become(st)
      BY <1>2 DEF UserAnswers
    <2>2. Ready(response) # Done
      BY NotDone
    <2>3. answered.out = Tables.out /\ "out" \in DOMAIN answered
      BY DEF Update, Tables
    <2>4. \A d \in Callback : st.out[d] = IF d = c THEN <<Ready(response)>> ELSE <<>>
      <3>1. DOMAIN Tables.out = Callback /\ \A d \in Callback : Tables.out[d] = <<>>
        BY DEF Tables, Silence
      <3>2. Append(<<>>, Ready(response)) = <<Ready(response)>>
        OBVIOUS
      <3> HIDE DEF answered, c
      <3>3. st.out = Put(answered.out, c, Append(answered.out[c], Ready(response)))
        BY <2>3 DEF Post
      <3>4. QED
        BY <2>3, <3>1, <3>2, <3>3 DEF Put
    <2> HIDE DEF st, answered, c
    <2>5. \A d \in Callback : \A i \in 1 .. Len(st.out[d]) : st.out[d][i] # Done
      BY <2>2, <2>4
    <2>6. QED
      BY <2>1, <2>5, BecomeDones DEF DonesTo
  <1>3. QED
    BY <1>1, <1>2

LEMMA ReadyCompleteDones ==
    ASSUME IInv, NEW p \in Prompt, NEW ok, ReadyComplete(p, ok)
    PROVE  DonesSent
  <1> DEFINE d == prompts[p].callback
             completed == Update(Tables, p, Completed(prompts[p]))
             stopped == StopPrompting(completed, {d}, <<>>)
             S == callbacks \ callbacks'
  <1>1. Sound(completed, p)
    BY CompletedSound DEF ReadyComplete
  <1>2. completed.out = Tables.out
    BY DEF Update, Tables
  <1>3. \A st, pr : Update(st, p, pr).out = st.out
    BY DEF Update
  <1>4. DonesTo(completed, S) /\ \A c \in Callback : completed.out[c] = <<>>
    BY <1>2, SilentTables DEF DonesTo
  <1>5. DonesTo(stopped, S)
    BY <1>4, StopDones
  <1>6. stopped \in TableRecord
    BY <1>1, StopSound, NoticeIsMessage, SoundParts
  <1>7. PICK st \in {completed} \union NextReady(stopped) :
            Become(Update(st, p, Unref(st.prompts[p])))
    BY DEF ReadyComplete
  <1> HIDE DEF completed, stopped, S
  <1>8. DonesTo(st, S)
    BY <1>4, <1>5, <1>6, <1>7, NextReadyDones
  <1>9. DonesTo(Update(st, p, Unref(st.prompts[p])), S)
    BY <1>3, <1>8 DEF DonesTo
  <1>10. QED
    BY <1>7, <1>9, BecomeDones DEF S

LEMMA StepsDones ==
    ASSUME IInv, Next
    PROVE  DonesSent
  <1>1. ASSUME NEW n \in Caller, CallerVanished(n) PROVE DonesSent
    <2> DEFINE st == StopPrompting(Tables, CallbacksOf(n), <<>>)
    <2>1. Become(st)
      BY <1>1 DEF CallerVanished
    <2>2. DonesTo(st, callbacks \ callbacks')
      BY StopDones, SilentTables
    <2>3. QED
      BY <2>1, <2>2, BecomeDones
  <1>2. CASE Register
    BY <1>2 DEF Register, Silence, DonesSent
  <1>3. QED
    BY <1>1, <1>2, UnregisterDones, BeginDones, PerformDones, StopMethodDones, UserDones,
       ReadyCompleteDones DEF Next

\* Prompting ends without a Done only for a caller that could not hear it: of the four
\* ways in which it ends, on_caller_vanished sends none as nobody is there, and the
\* failed Ready call of on_prompt_ready_complete says so itself and ends no other's.  And
\* a caller is told once, in the step that ends its prompting, and never else.
THEOREM EndsAreTold == ProcessSpec => EndsWithDone
  <1> DEFINE Told ==
                 /\ \A c \in callbacks \ callbacks' :
                       \/ Sends(c, Done)
                       \/ Owner[c] \in gone'
                       \/ /\ active[c] # None
                          /\ prompts[active[c]].calls > 0
                          /\ \A d \in callbacks : d # c => d \in callbacks'
                 /\ \A c \in Callback : \A i \in 1 .. Len(out'[c]) :
                       out'[c][i] = Done =>
                           /\ c \in callbacks \ callbacks'
                           /\ \A j \in 1 .. Len(out'[c]) : out'[c][j] = Done => j = i
  <1>1. ASSUME PInv, [ProcessNext]_processVars PROVE [Told]_vars
    <2>1. IInv /\ [Next]_vars
      BY <1>1, ProcessSteps DEF PInv
    <2>2. CASE UNCHANGED vars
      BY <2>2
    <2>3. CASE Next
      <3>1. \A c \in callbacks \ callbacks' : Excused(c)
        BY <2>1, StepsExcused
      <3>2. DonesSent
        BY <2>1, <2>3, StepsDones
      <3>3. QED
        BY <3>1, <3>2 DEF Excused, DonesSent
    <2>4. QED
      BY <2>1, <2>2, <2>3
  <1>2. QED
    BY <1>1, ProcessInvariant, PTL DEF ProcessSpec, EndsWithDone
=============================================================================
