---------------------------- MODULE SecretsProofs ----------------------------
(***************************************************************************)
(* Proofs about SecretExchange, for any secrets and any number of keys,    *)
(* about PromptDialog, for any texts, questions and events, and about      *)
(* SecureMemory, for any sizes of words, pages and pools, any lengths and  *)
(* any number of threads.                                                  *)
(*                                                                         *)
(* KeysAreThere is inductive once the types of the flags are known.  That  *)
(* a side reads what was sent holds only until somebody begins again: till *)
(* then each side generates one key pair, so that there is one transport   *)
(* key, TheKey, and every secret is under it.                              *)
(*                                                                         *)
(* A heap is Good when its cells share out the words of its blocks, each   *)
(* between guards that name it, and its rings, blocks and pools hold them. *)
(* Good(h, x, X) allows for what is halfway through: cell x is in no ring, *)
(* and the items X were taken and are not used yet.  Keeps(h, g, S) is     *)
(* what each step leaves of what the program has: all but the cells S.     *)
(* Each function of the allocator has a lemma that takes it from one Good  *)
(* heap to another and says which cells it does not keep.                  *)
(***************************************************************************)
EXTENDS MCSecrets, ListLemmas, Sequences, TLAPS

LEMMA PeerIsOther ==
    ASSUME NEW s \in Side
    PROVE  Peer(s) \in Side /\ Peer(s) # s
<1>1. \E t \in Side : t # s
    BY DEF Side
<1> QED BY <1>1 DEF Peer

-----------------------------------------------------------------------------
(* The private key and the transport key are there when they are needed.   *)

KeyTypes ==
    /\ generated \in [Side -> BOOLEAN]
    /\ derived \in [Side -> BOOLEAN]
    /\ publi \in [Side -> PublicKey \union {None}]
    /\ key \in [Side -> SUBSET PublicKey]
    /\ keys \in [Side -> Nat]
    /\ \A m \in strings : m.public \in PublicKey

KeyInv == KeyTypes /\ KeysAreThere

LEMMA NewKeyIsKey ==
    ASSUME KeyTypes, NEW s \in Side
    PROVE  NewKey(s) \in PublicKey /\ NewKey(s) # None
<1>1. NewKey(s) \in PublicKey
    BY DEF KeyTypes, NewKey, PublicKey
<1> QED BY <1>1, NoneAssumption

\* The side has a public key when it has generated one.
LEMMA GenerateKeepsKeys ==
    ASSUME KeyInv, NEW s \in Side, Generate(s)
    PROVE  /\ generated' \in [Side -> BOOLEAN]
           /\ publi' \in [Side -> PublicKey \union {None}]
           /\ keys' \in [Side -> Nat]
           /\ generated'[s] /\ publi'[s] \in PublicKey /\ publi'[s] # None
           /\ generated[s] => publi'[s] = publi[s]
           /\ \A t \in Side \ {s} : generated'[t] = generated[t] /\ publi'[t] = publi[t]
<1>1. CASE generated[s]
    BY <1>1 DEF KeyInv, KeyTypes, KeysAreThere, Generate
<1>2. CASE ~generated[s]
    <2>1. /\ generated' = [generated EXCEPT ![s] = TRUE]
          /\ publi' = [publi EXCEPT ![s] = NewKey(s)]
          /\ keys' = [keys EXCEPT ![s] = @ + 1]
        BY <1>2 DEF Generate
    <2>2. NewKey(s) \in PublicKey /\ NewKey(s) # None
        BY NewKeyIsKey DEF KeyInv
    <2>3. keys' \in [Side -> Nat]
        BY <2>1 DEF KeyInv, KeyTypes
    <2>4. publi' \in [Side -> PublicKey \union {None}] /\ publi'[s] = NewKey(s)
        BY <2>1, <2>2 DEF KeyInv, KeyTypes
    <2>5. generated' \in [Side -> BOOLEAN] /\ generated'[s]
        BY <2>1 DEF KeyInv, KeyTypes
    <2>6. \A t \in Side \ {s} : generated'[t] = generated[t] /\ publi'[t] = publi[t]
        BY <2>1 DEF KeyInv, KeyTypes
    <2> QED BY <1>2, <2>2, <2>3, <2>4, <2>5, <2>6
<1> QED BY <1>1, <1>2

LEMMA BeginKeepsKeys ==
    ASSUME KeyInv, NEW s \in Side, Begin(s)
    PROVE  KeyInv'
<1>1. NewKey(s) \in PublicKey /\ NewKey(s) # None
    BY NewKeyIsKey DEF KeyInv
<1>2. KeyTypes'
    <2>1. \A m \in strings' : m.public \in PublicKey
        BY <1>1 DEF KeyInv, KeyTypes, Begin, Makes, String
    <2> QED BY <1>1, <2>1 DEF KeyInv, KeyTypes, Begin, DerivedCleared
<1>3. KeysAreThere'
    BY <1>1 DEF KeyInv, KeyTypes, KeysAreThere, Begin, DerivedCleared
<1> QED BY <1>2, <1>3 DEF KeyInv

LEMMA ReceiveKeepsKeys ==
    ASSUME KeyInv, NEW s \in Side, NEW m \in strings, Receive(s, m)
    PROVE  KeyInv'
<1>1. m.public \in PublicKey
    BY DEF KeyInv, KeyTypes
<1>2. /\ generated' \in [Side -> BOOLEAN]
      /\ publi' \in [Side -> PublicKey \union {None}]
      /\ keys' \in [Side -> Nat]
      /\ generated'[s] /\ publi'[s] \in PublicKey /\ publi'[s] # None
      /\ generated[s] => publi'[s] = publi[s]
      /\ \A t \in Side \ {s} : generated'[t] = generated[t] /\ publi'[t] = publi[t]
    BY GenerateKeepsKeys DEF Receive
<1>3. DeriveKey(s, m) \in SUBSET PublicKey /\ publi'[s] \in DeriveKey(s, m)
    <2>1. CASE derived[s]
        <3>1. generated[s] /\ publi[s] \in key[s]
            BY <2>1 DEF KeyInv, KeysAreThere
        <3>2. key[s] \in SUBSET PublicKey
            BY <3>1 DEF KeyInv, KeyTypes
        <3> QED BY <1>2, <2>1, <3>1, <3>2 DEF DeriveKey
    <2>2. CASE ~derived[s]
        BY <1>1, <1>2, <2>2 DEF DeriveKey, TransportKey
    <2> QED BY <2>1, <2>2
<1> DEFINE dk == DeriveKey(s, m)
<1>5. derived' = [derived EXCEPT ![s] = TRUE] /\ key' = [key EXCEPT ![s] = dk]
      /\ strings' = strings
    BY DEF Receive
<1> HIDE DEF dk
<1>6. KeyTypes'
    BY <1>2, <1>3, <1>5 DEF KeyInv, KeyTypes, dk
<1>7. KeysAreThere'
    <2> SUFFICES ASSUME NEW t \in Side
                 PROVE  /\ generated'[t] => publi'[t] # None
                        /\ derived'[t] => generated'[t] /\ publi'[t] \in key'[t]
        BY DEF KeysAreThere
    <2>1. CASE t = s
        <3>1. key'[t] = dk
            BY <1>5, <2>1 DEF KeyInv, KeyTypes
        <3> QED BY <1>2, <1>3, <2>1, <3>1 DEF dk
    <2>2. CASE t # s
        BY <1>2, <1>5, <2>2 DEF KeyInv, KeyTypes, KeysAreThere
    <2> QED BY <2>1, <2>2
<1> QED BY <1>6, <1>7 DEF KeyInv

LEMMA KeyInvInit == Init => KeyInv
BY DEF Init, KeyInv, KeyTypes, KeysAreThere

LEMMA KeyInvStep ==
    ASSUME KeyInv, [Next]_vars
    PROVE  KeyInv'
<1>1. ASSUME NEW s \in Side, NEW value \in Secret \union {None}, Send(s, value)
      PROVE  KeyInv'
    <2>1. publi[s] \in PublicKey
        BY <1>1 DEF KeyInv, KeyTypes, KeysAreThere, Send
    <2>2. \A m \in strings' : m.public \in PublicKey
        BY <1>1, <2>1 DEF KeyInv, KeyTypes, Send, Makes, String
    <2> QED BY <1>1, <2>2 DEF KeyInv, KeyTypes, KeysAreThere, Send, Makes
<1>2. ASSUME NEW s \in Side, ReceiveWithoutKey(s) PROVE KeyInv'
    <2>1. /\ generated' \in [Side -> BOOLEAN]
          /\ publi' \in [Side -> PublicKey \union {None}]
          /\ keys' \in [Side -> Nat]
          /\ generated'[s] /\ publi'[s] \in PublicKey /\ publi'[s] # None
          /\ generated[s] => publi'[s] = publi[s]
          /\ \A t \in Side \ {s} : generated'[t] = generated[t] /\ publi'[t] = publi[t]
        BY <1>2, GenerateKeepsKeys DEF ReceiveWithoutKey
    <2> QED BY <1>2, <2>1 DEF KeyInv, KeyTypes, KeysAreThere, ReceiveWithoutKey
<1>3. CASE UNCHANGED vars
    BY <1>3 DEF vars, KeyInv, KeyTypes, KeysAreThere
<1> QED BY <1>1, <1>2, <1>3, BeginKeepsKeys, ReceiveKeepsKeys DEF Next

\* Whatever strings are received in whatever order, a side derives, encrypts
\* and decrypts only with keys that it has, and with its own pair.
THEOREM KeysFollowFlags == Spec => []KeysAreThere
<1>1. KeyInv => KeysAreThere
    BY DEF KeyInv
<1> QED BY <1>1, KeyInvInit, KeyInvStep, PTL DEF Spec

-----------------------------------------------------------------------------
(* Nobody has begun again.                                                 *)

TheKey == {<<"caller", 1>>, <<"callee", 1>>}

OnePair ==
    /\ generated \in [Side -> BOOLEAN]
    /\ derived \in [Side -> BOOLEAN]
    /\ keys \in [Side -> Nat]
    /\ DOMAIN publi = Side /\ DOMAIN key = Side
    /\ DOMAIN secret = Side /\ DOMAIN meant = Side
    /\ \A s \in Side :
          /\ ~generated[s] => keys[s] = 0
          /\ generated[s] => keys[s] >= 1 /\ publi[s] = <<s, 1>>
          /\ derived[s] => generated[s] /\ key[s] = TheKey

OneKey ==
    \A m \in strings :
        /\ m.public = <<m.from, 1>>
        /\ m.secret # None => m.under = TheKey

PairInv == OnePair /\ OneKey /\ AlwaysReadsWhatWasSent

LEMMA KeyOfPair ==
    ASSUME NEW s \in Side
    PROVE  TransportKey(<<s, 1>>, <<Peer(s), 1>>) = TheKey
<1>1. CASE s = "caller"
    BY <1>1, PeerIsOther DEF Side, TransportKey, TheKey
<1>2. CASE s = "callee"
    BY <1>2, PeerIsOther DEF Side, TransportKey, TheKey
<1> QED BY <1>1, <1>2 DEF Side

LEMMA GenerateKeepsPair ==
    ASSUME OnePair, NEW s \in Side, Generate(s)
    PROVE  /\ generated' \in [Side -> BOOLEAN]
           /\ keys' \in [Side -> Nat]
           /\ DOMAIN publi' = Side
           /\ generated'[s] /\ publi'[s] = <<s, 1>>
           /\ \A t \in Side : (generated[t] => generated'[t])
                  /\ (~generated'[t] => keys'[t] = 0)
                  /\ (generated'[t] => keys'[t] >= 1 /\ publi'[t] = <<t, 1>>)
<1>1. CASE generated[s]
    BY <1>1 DEF OnePair, Generate
<1>2. CASE ~generated[s]
    <2>1. NewKey(s) = <<s, 1>>
        BY <1>2 DEF OnePair, NewKey
    <2>2. /\ generated' = [generated EXCEPT ![s] = TRUE]
          /\ publi' = [publi EXCEPT ![s] = <<s, 1>>]
          /\ keys' = [keys EXCEPT ![s] = @ + 1]
        BY <1>2, <2>1 DEF Generate
    <2>3. keys' \in [Side -> Nat]
        BY <2>2 DEF OnePair
    <2>4. DOMAIN publi' = Side /\ publi'[s] = <<s, 1>> /\ keys'[s] >= 1
        BY <2>2 DEF OnePair
    <2>5. generated' \in [Side -> BOOLEAN] /\ generated'[s]
        BY <2>2 DEF OnePair
    <2>6. ASSUME NEW t \in Side, t # s
          PROVE  generated'[t] = generated[t] /\ publi'[t] = publi[t] /\ keys'[t] = keys[t]
        BY <2>2, <2>6 DEF OnePair
    <2>7. ASSUME NEW t \in Side
          PROVE  /\ generated[t] => generated'[t]
                 /\ ~generated'[t] => keys'[t] = 0
                 /\ generated'[t] => keys'[t] >= 1 /\ publi'[t] = <<t, 1>>
        BY <2>4, <2>5, <2>6 DEF OnePair
    <2> QED BY <2>3, <2>4, <2>5, <2>7
<1> QED BY <1>1, <1>2

LEMMA ReceiveReads ==
    ASSUME PairInv, NEW s \in Side, NEW m \in strings, Receive(s, m)
    PROVE  PairInv'
<1>1. /\ generated' \in [Side -> BOOLEAN]
      /\ keys' \in [Side -> Nat]
      /\ DOMAIN publi' = Side
      /\ generated'[s] /\ publi'[s] = <<s, 1>>
      /\ \A t \in Side : (generated[t] => generated'[t])
             /\ (~generated'[t] => keys'[t] = 0)
             /\ (generated'[t] => keys'[t] >= 1 /\ publi'[t] = <<t, 1>>)
    BY GenerateKeepsPair DEF PairInv, Receive
<1>2. DeriveKey(s, m) = TheKey
    <2>1. m.public = <<Peer(s), 1>>
        BY DEF PairInv, OneKey, Receive
    <2> QED BY <1>1, <2>1, KeyOfPair DEF PairInv, OnePair, DeriveKey
<1>3. derived' = [derived EXCEPT ![s] = TRUE] /\ key' = [key EXCEPT ![s] = TheKey]
      /\ strings' = strings /\ meant' = [meant EXCEPT ![s] = m.secret]
    BY <1>2 DEF Receive
<1>4. OnePair'
    <2>1. DOMAIN secret' = Side /\ DOMAIN meant' = Side
        BY <1>3 DEF PairInv, OnePair, Receive
    <2> HIDE DEF TheKey
    <2> QED BY <1>1, <1>3, <2>1 DEF PairInv, OnePair
<1>5. secret' = meant'
    <2>1. key'[s] = TheKey
        BY <1>3 DEF PairInv, OnePair
    <2>2. m.secret # None => m.under = TheKey
        BY DEF PairInv, OneKey
    <2>3. Decrypt(m, key'[s]) = {m.secret}
        BY <2>1, <2>2 DEF Decrypt
    <2>4. secret' = [secret EXCEPT ![s] = m.secret]
        BY <2>3 DEF Receive
    <2> QED BY <1>3, <2>4 DEF PairInv, AlwaysReadsWhatWasSent
<1> QED BY <1>3, <1>4, <1>5 DEF PairInv, OneKey, AlwaysReadsWhatWasSent

\* Key pairs are never taken back.
LEMMA KeysAreCounted ==
    ASSUME KeyInv, [Next]_vars
    PROVE  \A s \in Side : keys[s] \in Nat /\ keys'[s] >= keys[s]
<1> DEFINE Grow == \A s \in Side : keys[s] \in Nat /\ keys'[s] >= keys[s]
<1>1. keys \in [Side -> Nat]
    BY DEF KeyInv, KeyTypes
<1>2. ASSUME NEW s \in Side, keys' = [keys EXCEPT ![s] = @ + 1] PROVE Grow
    <2> SUFFICES ASSUME NEW t \in Side PROVE keys[t] \in Nat /\ keys'[t] >= keys[t]
        OBVIOUS
    <2>1. keys[t] \in Nat
        BY <1>1
    <2>2. CASE t = s
        BY <1>1, <1>2, <2>1, <2>2
    <2>3. CASE t # s
        BY <1>1, <1>2, <2>1, <2>3
    <2> QED BY <2>2, <2>3
<1>3. CASE keys' = keys
    BY <1>1, <1>3
<1>4. (\E s \in Side : keys' = [keys EXCEPT ![s] = @ + 1]) \/ keys' = keys
    BY DEF Next, Begin, Send, Receive, ReceiveWithoutKey, Generate, vars
<1> QED BY <1>2, <1>3, <1>4

\* The side that begins has not begun before.
LEMMA BeginReads ==
    ASSUME PairInv, BegunOnce', NEW s \in Side, Begin(s)
    PROVE  PairInv'
<1>1. keys[s] \in Nat /\ keys'[s] = keys[s] + 1
    BY DEF Begin, PairInv, OnePair
<1>2. ~generated[s] /\ NewKey(s) = <<s, 1>>
    BY <1>1 DEF BegunOnce, PairInv, OnePair, NewKey
<1>3. OnePair'
    BY <1>2 DEF Begin, PairInv, OnePair, DerivedCleared
<1>4. OneKey'
    BY <1>2 DEF Begin, Makes, String, PairInv, OneKey
<1>5. AlwaysReadsWhatWasSent'
    BY DEF Begin, PairInv, AlwaysReadsWhatWasSent
<1> QED BY <1>3, <1>4, <1>5 DEF PairInv

LEMMA PairStep ==
    ASSUME PairInv, BegunOnce', [Next]_vars
    PROVE  PairInv'
<1>1. ASSUME NEW s \in Side, NEW value \in Secret \union {None}, Send(s, value)
      PROVE  PairInv'
    <2>1. publi[s] = <<s, 1>> /\ key[s] = TheKey
        BY <1>1 DEF Send, PairInv, OnePair
    <2>2. OneKey'
        BY <1>1, <2>1 DEF Send, Makes, String, PairInv, OneKey
    <2> QED BY <1>1, <2>2 DEF Send, Makes, PairInv, OnePair, AlwaysReadsWhatWasSent
<1>2. ASSUME NEW s \in Side, ReceiveWithoutKey(s) PROVE PairInv'
    <2>1. /\ generated' \in [Side -> BOOLEAN]
          /\ keys' \in [Side -> Nat]
          /\ DOMAIN publi' = Side
          /\ generated'[s] /\ publi'[s] = <<s, 1>>
          /\ \A t \in Side : (generated[t] => generated'[t])
                 /\ (~generated'[t] => keys'[t] = 0)
                 /\ (generated'[t] => keys'[t] >= 1 /\ publi'[t] = <<t, 1>>)
        BY <1>2, GenerateKeepsPair DEF PairInv, ReceiveWithoutKey
    <2>2. AlwaysReadsWhatWasSent' /\ DOMAIN secret' = Side /\ DOMAIN meant' = Side
        BY <1>2 DEF PairInv, OnePair, AlwaysReadsWhatWasSent, ReceiveWithoutKey
    <2>3. OnePair'
        BY <1>2, <2>1, <2>2 DEF PairInv, OnePair, ReceiveWithoutKey
    <2> QED BY <1>2, <2>2, <2>3 DEF PairInv, OneKey, ReceiveWithoutKey
<1>3. CASE UNCHANGED vars
    BY <1>3 DEF vars, PairInv, OnePair, OneKey, AlwaysReadsWhatWasSent
<1> QED BY <1>1, <1>2, <1>3, BeginReads, ReceiveReads DEF Next

\* Until somebody begins again, a side reads the secret of the string that it
\* received last, and both sides have the same key, whoever began, and however
\* late, often or rarely the strings arrive.
THEOREM SecretsArrive == Spec => [](ReadsWhatWasSent /\ KeysAgree)
<1> DEFINE Inv == KeyInv /\ (BegunOnce => PairInv)
<1>1. Init => Inv
    BY KeyInvInit DEF Init, PairInv, OnePair, OneKey, AlwaysReadsWhatWasSent
<1>2. Inv /\ [Next]_vars => Inv'
    <2> SUFFICES ASSUME Inv, [Next]_vars PROVE Inv'
        OBVIOUS
    <2>1. KeyInv'
        BY KeyInvStep
    <2>2. ASSUME BegunOnce' PROVE PairInv'
        <3>1. \A s \in Side : keys[s] \in Nat /\ keys'[s] >= keys[s]
            BY KeysAreCounted
        <3>2. \A s \in Side : keys'[s] \in Nat
            BY <2>1 DEF KeyInv, KeyTypes
        <3>3. BegunOnce
            BY <2>2, <3>1, <3>2 DEF BegunOnce
        <3> QED BY <2>2, <3>3, PairStep
    <2> QED BY <2>1, <2>2
<1>3. Inv => ReadsWhatWasSent /\ KeysAgree
    BY DEF PairInv, OnePair, AlwaysReadsWhatWasSent, ReadsWhatWasSent, KeysAgree, Side
<1> QED BY <1>1, <1>2, <1>3, PTL DEF Spec

-----------------------------------------------------------------------------
(* The dialog.  A question that is open has its entries to itself, since a *)
(* password clears them; it is answered with "continue" only by a button,  *)
(* while the dialog is visible and so not closed, and what waits to be     *)
(* completed in idle is of a dialog that was closed.                       *)

Kind == {"confirming", "passwording"}

DialogState ==
    [self : Dialog!Dialog, asked : 0 .. MaxOp, results : [Dialog!Op -> Seq(Dialog!Answer)],
     idle : Seq(Dialog!Op \X Kind)]

\* What holds of the private data of the dialog.
SelfSound(pv) ==
    /\ pv.mode = "passwording" => pv.password.during \in {pv.asyncResult, Dialog!NoOp}
    /\ pv.visible => ~pv.wasClosed

IdleSound(st) == st.idle # << >> => st.self.wasClosed /\ st.self.lastReply = "cancel"

TypedAsAsked(all) ==
    \A o \in Dialog!Op : \A i \in 1 .. Len(all[o]) :
        all[o][i].kind = "passwording" /\ all[o][i].reply = "continue" =>
            all[o][i].entry.during \in {o, Dialog!NoOp} /\ all[o][i].confirmed

Sound(st) ==
    /\ st \in DialogState
    /\ SelfSound(st.self) /\ IdleSound(st) /\ TypedAsAsked(st.results)

\* The callback of a question is told no more than was typed for that question.
LEMMA ToldSound ==
    ASSUME NEW st, Sound(st), NEW o \in Dialog!Op \union {Dialog!NoOp}, NEW kind \in Kind,
           kind = "passwording" /\ st.self.lastReply = "continue" =>
               /\ st.self.password.during \in {o, Dialog!NoOp}
               /\ st.self.passwordNew => st.self.password.text = st.self.confirm.text
    PROVE  Sound(Dialog!Told(st, o, kind))
  <1> DEFINE pv == st.self
             told == [reply |-> pv.lastReply, kind |-> kind, entry |-> pv.password,
                      confirmed |-> pv.passwordNew => pv.password.text = pv.confirm.text]
             all == [st.results EXCEPT ![o] = Append(@, told)]
  <1>1. st \in DialogState /\ pv \in Dialog!Dialog
    BY DEF Sound, DialogState
  <1>2. told \in Dialog!Answer
    BY <1>1 DEF Dialog!Answer, Dialog!Dialog, Kind
  <1>3. told.kind = "passwording" /\ told.reply = "continue" =>
            told.entry.during \in {o, Dialog!NoOp} /\ told.confirmed
    OBVIOUS
  <1>4. st.results \in [Dialog!Op -> Seq(Dialog!Answer)] /\ TypedAsAsked(st.results)
    BY <1>1 DEF Sound, DialogState
  <1> HIDE DEF told
  <1>a. /\ all = [q \in Dialog!Op |-> all[q]]
        /\ \A q \in Dialog!Op : all[q] = IF q = o THEN Append(st.results[q], told) ELSE st.results[q]
    BY <1>4
  <1>5. all \in [Dialog!Op -> Seq(Dialog!Answer)]
    <2>1. \A q \in Dialog!Op : st.results[q] \in Seq(Dialog!Answer)
      BY <1>4
    <2>2. \A q \in Dialog!Op : all[q] \in Seq(Dialog!Answer)
      BY <1>2, <1>a, <2>1
    <2> HIDE DEF all
    <2>3. [q \in Dialog!Op |-> all[q]] \in [Dialog!Op -> Seq(Dialog!Answer)]
      BY <2>2
    <2>4. QED
      BY <1>a, <2>3
  <1>6. TypedAsAsked(all)
    <2> SUFFICES ASSUME NEW q \in Dialog!Op, NEW i \in 1 .. Len(all[q]),
                        all[q][i].kind = "passwording", all[q][i].reply = "continue"
                 PROVE  all[q][i].entry.during \in {q, Dialog!NoOp} /\ all[q][i].confirmed
      BY DEF TypedAsAsked
    <2>1. CASE q = o /\ i = Len(st.results[q]) + 1
      <3>1. all[q][i] = told
        BY <1>2, <1>4, <2>1
      <3>2. QED
        BY <1>3, <2>1, <3>1
    <2>2. CASE ~(q = o /\ i = Len(st.results[q]) + 1)
      <3>a. st.results[q] \in Seq(Dialog!Answer)
        BY <1>4
      <3>1. i \in 1 .. Len(st.results[q]) /\ all[q][i] = st.results[q][i]
        BY <1>2, <1>a, <2>2, <3>a
      <3>2. QED
        BY <1>4, <3>1 DEF TypedAsAsked
    <2>3. QED
      BY <2>1, <2>2
  <1>7. Dialog!Told(st, o, kind) = [st EXCEPT !.results = all]
    BY <1>1 DEF Dialog!Told, DialogState, told
  <1> HIDE DEF all
  <1>8. QED
    BY <1>1, <1>5, <1>6, <1>7 DEF Sound, DialogState, SelfSound, IdleSound

\* A question that is asked has cleared the entries, or is not for a password.
LEMMA AskedSound ==
    ASSUME NEW st, Sound(st), st.asked < MaxOp, MaxOp \in Nat, NEW kind \in Kind, Blank \in Text
    PROVE  Sound(Dialog!Asked(st, kind))
  <1> DEFINE o == st.asked + 1
             pv == Dialog!AskWith(st.self, o, kind)
             asking == [st EXCEPT !.asked = o]
  <1>1. st \in DialogState /\ st.self \in Dialog!Dialog /\ st.asked \in 0 .. MaxOp
    BY DEF Sound, DialogState
  <1>2. o \in Dialog!Op /\ o \in 0 .. MaxOp
    BY <1>1 DEF Dialog!Op
  <1>3. /\ pv \in Dialog!Dialog /\ pv.asyncResult = o /\ pv.mode = kind
        /\ kind = "passwording" => pv.password.during = Dialog!NoOp
        /\ pv.visible = st.self.visible /\ pv.wasClosed = st.self.wasClosed
    BY <1>1, <1>2 DEF Dialog!AskWith, Dialog!Dialog, Dialog!Cleared, Dialog!Entry, Kind
  <1> HIDE DEF pv, o
  <1>4. CASE st.self.asyncResult # Dialog!NoOp
    <2>1. Dialog!Asked(st, kind) = asking
      BY <1>4 DEF Dialog!Asked, o
    <2>2. QED
      BY <1>1, <1>2, <2>1 DEF Sound, DialogState, SelfSound, IdleSound
  <1>5. CASE st.self.asyncResult = Dialog!NoOp /\ st.self.wasClosed
    <2> DEFINE qv == [pv EXCEPT !.lastReply = "cancel"]
               queue == Append(st.idle, <<o, kind>>)
    <2>1. Dialog!Asked(st, kind) = [asking EXCEPT !.self = qv, !.idle = queue]
      BY <1>1, <1>5 DEF Dialog!Asked, o, pv, DialogState
    <2>2. /\ qv \in Dialog!Dialog /\ SelfSound(qv)
          /\ qv.wasClosed /\ qv.lastReply = "cancel"
      BY <1>1, <1>3, <1>5 DEF Sound, SelfSound, Dialog!Dialog
    <2>3. queue \in Seq(Dialog!Op \X Kind)
      BY <1>1, <1>2 DEF DialogState
    <2> HIDE DEF qv, queue
    <2>4. QED
      BY <1>1, <1>2, <2>1, <2>2, <2>3 DEF Sound, DialogState, IdleSound
  <1>6. CASE st.self.asyncResult = Dialog!NoOp /\ ~st.self.wasClosed
    <2> DEFINE qv == [pv EXCEPT !.visible = TRUE]
    <2>1. Dialog!Asked(st, kind) = [asking EXCEPT !.self = qv]
      BY <1>1, <1>6 DEF Dialog!Asked, o, pv, DialogState
    <2>2. /\ qv \in Dialog!Dialog /\ SelfSound(qv)
      BY <1>1, <1>3, <1>6 DEF Sound, SelfSound, Dialog!Dialog
    <2>3. st.idle = << >>
      BY <1>6 DEF Sound, IdleSound
    <2> HIDE DEF qv
    <2>4. QED
      BY <1>1, <1>2, <2>1, <2>2, <2>3 DEF Sound, DialogState, IdleSound
  <1>7. QED
    BY <1>4, <1>5, <1>6

LEMMA CalledBackSound ==
    ASSUME NEW st, Sound(st), NEW o \in Dialog!Op \union {Dialog!NoOp}, NEW kind \in Kind,
           kind = "passwording" /\ st.self.lastReply = "continue" =>
               /\ st.self.password.during \in {o, Dialog!NoOp}
               /\ st.self.passwordNew => st.self.password.text = st.self.confirm.text,
           NEW after \in Dialog!CalledBack(st, o, kind)
    PROVE  Sound(after)
  <1> DEFINE told == Dialog!Told(st, o, kind)
  <1>1. Sound(told)
    BY ToldSound
  <1>2. told.asked = st.asked
    BY DEF Sound, DialogState, Dialog!Told
  <1>3. MaxOp \in Nat /\ Blank \in Text
    BY DialogAssumption DEF Dialog!UsageAssumption
  <1> HIDE DEF told
  <1>4. ASSUME NEW next \in Kind, st.asked < MaxOp PROVE Sound(Dialog!Asked(told, next))
    BY <1>1, <1>2, <1>3, <1>4, AskedSound
  <1>5. \/ after = told
        \/ st.asked < MaxOp /\ \E next \in Kind : after = Dialog!Asked(told, next)
    BY DEF Dialog!CalledBack, told, Kind
  <1>6. QED
    BY <1>1, <1>4, <1>5

LEMMA ClosedSound ==
    ASSUME NEW st, Sound(st)
    PROVE  Sound(Dialog!Closed(st))
  <1> DEFINE pv == [st.self EXCEPT !.wasClosed = TRUE, !.visible = FALSE]
  <1>1. st \in DialogState /\ st.self \in Dialog!Dialog
    BY DEF Sound, DialogState
  <1>2. Dialog!Closed(st) = [st EXCEPT !.self = pv]
    BY <1>1 DEF Dialog!Closed, DialogState
  <1>3. /\ pv \in Dialog!Dialog /\ SelfSound(pv) /\ pv.wasClosed
        /\ pv.lastReply = st.self.lastReply
    BY <1>1 DEF Sound, SelfSound, Dialog!Dialog
  <1> HIDE DEF pv
  <1>4. QED
    BY <1>1, <1>2, <1>3 DEF Sound, DialogState, IdleSound

\* Only a button that can be seen continues.
LEMMA RespondedSound ==
    ASSUME NEW st, Sound(st), NEW reply \in {"cancel", "continue"}, st.self.mode # "none",
           reply = "continue" =>
               /\ st.self.visible
               /\ st.self.mode = "passwording" => Dialog!Refusal(st.self) = "none",
           NEW after \in Dialog!Responded(st, reply)
    PROVE  Sound(after)
  <1> DEFINE pv == [st.self EXCEPT !.lastReply = reply, !.mode = "none", !.asyncResult = Dialog!NoOp]
             over == [st EXCEPT !.self = pv]
             o == st.self.asyncResult
             kind == st.self.mode
  <1>1. st \in DialogState /\ st.self \in Dialog!Dialog
    BY DEF Sound, DialogState
  <1>2. /\ pv \in Dialog!Dialog /\ SelfSound(pv) /\ pv.lastReply = reply
        /\ pv.wasClosed = st.self.wasClosed /\ pv.password = st.self.password
        /\ pv.passwordNew = st.self.passwordNew /\ pv.confirm = st.self.confirm
    BY <1>1 DEF Sound, SelfSound, Dialog!Dialog
  <1>3. o \in Dialog!Op \union {Dialog!NoOp} /\ kind \in Kind
    BY <1>1 DEF Dialog!Dialog, Kind
  <1>4. over.self = pv /\ after \in Dialog!CalledBack(over, o, kind)
    BY <1>1 DEF Dialog!Responded, DialogState
  <1> HIDE DEF pv
  <1>5. Sound(over)
    <2>1. st.idle # << >> => pv.wasClosed /\ pv.lastReply = "cancel"
      BY <1>2 DEF Sound, SelfSound, IdleSound
    <2>2. QED
      BY <1>1, <1>2, <2>1 DEF Sound, DialogState, IdleSound
  <1>6. kind = "passwording" /\ pv.lastReply = "continue" =>
            /\ pv.password.during \in {o, Dialog!NoOp}
            /\ pv.passwordNew => pv.password.text = pv.confirm.text
    BY <1>2 DEF Sound, SelfSound, Dialog!Refusal
  <1> HIDE DEF over, o, kind
  <1>7. QED
    BY <1>3, <1>4, <1>5, <1>6, CalledBackSound

LEMMA ResponseSound ==
    ASSUME NEW st, Sound(st), NEW button \in {"ok", "cancel", "delete"},
           button = "ok" => st.self.visible,
           NEW after \in Dialog!Response(st, button)
    PROVE  Sound(after)
  <1> DEFINE refusal == Dialog!Refusal(st.self)
             reply == IF button = "ok" THEN "continue" ELSE "cancel"
  <1>1. st \in DialogState /\ st.self \in Dialog!Dialog
    BY DEF Sound, DialogState
  <1>2. CASE st.self.mode = "none"
    BY <1>2, ClosedSound DEF Dialog!Response
  <1>3. CASE st.self.mode # "none" /\ button = "ok" /\ st.self.mode = "passwording" /\ refusal # "none"
    <2> DEFINE pv == [st.self EXCEPT !.warning = refusal]
    <2>1. after = [st EXCEPT !.self = pv]
      BY <1>1, <1>3 DEF Dialog!Response, DialogState
    <2>2. refusal \in {"none", "mismatch", "blank"}
      BY DEF Dialog!Refusal
    <2> HIDE DEF refusal
    <2>3. /\ pv \in Dialog!Dialog /\ SelfSound(pv)
          /\ pv.wasClosed = st.self.wasClosed /\ pv.lastReply = st.self.lastReply
      BY <1>1, <2>2 DEF Sound, SelfSound, Dialog!Dialog
    <2> HIDE DEF pv
    <2>4. QED
      BY <1>1, <2>1, <2>3 DEF Sound, DialogState, IdleSound
  <1>4. CASE st.self.mode # "none" /\ ~(button = "ok" /\ st.self.mode = "passwording" /\ refusal # "none")
    <2>1. after \in Dialog!Responded(st, reply)
      BY <1>4 DEF Dialog!Response
    <2>2. reply = "continue" =>
              /\ st.self.visible
              /\ st.self.mode = "passwording" => refusal = "none"
      BY <1>4
    <2>3. reply \in {"cancel", "continue"}
      OBVIOUS
    <2> HIDE DEF reply
    <2>4. QED
      BY <1>4, <2>1, <2>2, <2>3, RespondedSound
  <1>5. QED
    BY <1>2, <1>3, <1>4

DialogInv == Sound(Dialog!State)

\* A record of the dialog's state is its four fields.
LEMMA StateIs ==
    ASSUME NEW st \in DialogState
    PROVE  st = [self |-> st.self, asked |-> st.asked, results |-> st.results, idle |-> st.idle]
  BY DEF DialogState

LEMMA Becomes ==
    ASSUME NEW st, Sound(st), Dialog!Become(st)
    PROVE  DialogInv'
  <1>1. st = [self |-> st.self, asked |-> st.asked, results |-> st.results, idle |-> st.idle]
    BY StateIs DEF Sound
  <1>2. Dialog!State' = st
    BY <1>1 DEF Dialog!State, Dialog!Become
  <1>3. Sound(st) <=> Sound(Dialog!State')
    BY <1>2
  <1>4. QED
    BY <1>3 DEF DialogInv, Sound, SelfSound, IdleSound, TypedAsAsked

LEMMA SelfChanges ==
    ASSUME DialogInv, self' \in Dialog!Dialog, SelfSound(self'),
           self'.wasClosed = self.wasClosed, self'.lastReply = self.lastReply,
           UNCHANGED <<asked, results, idle>>
    PROVE  DialogInv'
  <1> DEFINE st == [Dialog!State EXCEPT !.self = self']
  <1>1. /\ st.self = self' /\ st.asked = asked /\ st.results = results /\ st.idle = idle
        /\ st = [self |-> self', asked |-> asked, results |-> results, idle |-> idle]
    BY DEF Dialog!State
  <1>2. Sound(st)
    BY <1>1 DEF DialogInv, Sound, DialogState, IdleSound, Dialog!State
  <1> HIDE DEF st
  <1>3. Dialog!Become(st)
    BY <1>1 DEF Dialog!Become
  <1>4. QED
    BY <1>2, <1>3, Becomes

LEMMA DisposeSound ==
    ASSUME NEW st, Sound(st), Dialog!Dispose(st)
    PROVE  DialogInv'
  <1>1. PICK answered \in Dialog!Response(st, "delete") :
            Dialog!Become([Dialog!Closed(answered) EXCEPT !.self = Dialog!Ungrabbed(@)])
    BY DEF Dialog!Dispose
  <1> DEFINE closed == Dialog!Closed(answered)
             pv == [closed.self EXCEPT !.grabbed = FALSE]
             free == [closed EXCEPT !.self = pv]
  <1>2. Sound(closed)
    BY ResponseSound, ClosedSound
  <1> HIDE DEF closed
  <1>3. closed \in DialogState /\ closed.self \in Dialog!Dialog
    BY <1>2 DEF Sound, DialogState
  <1>4. free = [closed EXCEPT !.self = Dialog!Ungrabbed(@)]
    BY <1>3 DEF Dialog!Ungrabbed, DialogState
  <1>5. /\ pv \in Dialog!Dialog /\ SelfSound(pv)
        /\ pv.wasClosed = closed.self.wasClosed /\ pv.lastReply = closed.self.lastReply
    BY <1>2, <1>3 DEF Sound, SelfSound, Dialog!Dialog
  <1>6. free.self = pv /\ free.asked = closed.asked /\ free.results = closed.results
        /\ free.idle = closed.idle /\ free \in DialogState
    BY <1>3, <1>5 DEF DialogState
  <1> HIDE DEF pv, free
  <1>7. Sound(free)
    BY <1>2, <1>5, <1>6 DEF Sound, IdleSound
  <1>8. Dialog!Become(free)
    BY <1>1, <1>4 DEF closed
  <1>9. QED
    BY <1>7, <1>8, Becomes

LEMMA DialogStep ==
    ASSUME DialogInv, Dialog!Next
    PROVE  DialogInv'
  <1> DEFINE st == Dialog!State
  <1>1. /\ Sound(st) /\ st \in DialogState
        /\ st.self = self /\ st.asked = asked /\ st.results = results /\ st.idle = idle
    BY DEF DialogInv, Sound, Dialog!State
  <1>2. /\ self \in Dialog!Dialog /\ SelfSound(self) /\ IdleSound(st)
        /\ idle \in Seq(Dialog!Op \X Kind) /\ asked \in 0 .. MaxOp
    BY <1>1 DEF Sound, DialogState
  <1> HIDE DEF st
  <1>3. ASSUME NEW kind \in {"confirming", "passwording"}, Dialog!Ask(kind) PROVE DialogInv'
    <2>1. asked < MaxOp /\ Dialog!Become(Dialog!Asked(st, kind))
      BY <1>3 DEF Dialog!Ask, st
    <2>2. MaxOp \in Nat /\ Blank \in Text /\ kind \in Kind
      BY DialogAssumption DEF Dialog!UsageAssumption, Kind
    <2>3. Sound(Dialog!Asked(st, kind))
      BY <1>1, <2>1, <2>2, AskedSound
    <2>4. QED
      BY <2>1, <2>3, Becomes
  <1>4. ASSUME NEW new \in BOOLEAN, Dialog!SetPasswordNew(new) PROVE DialogInv'
    <2>1. /\ self' \in Dialog!Dialog /\ SelfSound(self')
          /\ self'.wasClosed = self.wasClosed /\ self'.lastReply = self.lastReply
      BY <1>2, <1>4 DEF Dialog!SetPasswordNew, SelfSound, Dialog!Dialog
    <2>2. QED
      BY <1>4, <2>1, SelfChanges DEF Dialog!SetPasswordNew
  <1>5. CASE Dialog!Close
    <2>1. Dialog!Become(Dialog!Closed(st))
      BY <1>5 DEF Dialog!Close, st
    <2>2. QED
      BY <1>1, <2>1, ClosedSound, Becomes
  <1>6. ASSUME NEW first \in BOOLEAN, Dialog!Release(first) PROVE DialogInv'
    <2>1. Dialog!Dispose(IF first THEN Dialog!Closed(st) ELSE st)
      BY <1>6 DEF Dialog!Release, st
    <2>2. Sound(IF first THEN Dialog!Closed(st) ELSE st)
      BY <1>1, ClosedSound
    <2>3. QED
      BY <2>1, <2>2, DisposeSound
  <1>7. CASE Dialog!IdleCompletes
    <2> DEFINE next == [st EXCEPT !.idle = Tail(@)]
               o == Head(idle)[1]
               kind == Head(idle)[2]
    <2>1. idle # << >> /\ \E after \in Dialog!CalledBack(next, o, kind) : Dialog!Become(after)
      BY <1>1, <1>7 DEF Dialog!IdleCompletes, st, Dialog!State
    <2>2. o \in Dialog!Op /\ kind \in Kind /\ Tail(idle) \in Seq(Dialog!Op \X Kind)
      BY <1>2, <2>1
    <2>3. self.wasClosed /\ self.lastReply = "cancel"
      BY <1>1, <1>2, <2>1 DEF IdleSound
    <2>4. next.self = self /\ Sound(next)
      BY <1>1, <2>2, <2>3 DEF Sound, DialogState, IdleSound
    <2>5. kind = "passwording" /\ next.self.lastReply = "continue" =>
              /\ next.self.password.during \in {o, Dialog!NoOp}
              /\ next.self.passwordNew => next.self.password.text = next.self.confirm.text
      BY <2>3, <2>4
    <2> HIDE DEF next, o, kind
    <2>6. \A after \in Dialog!CalledBack(next, o, kind) : Sound(after)
      BY <2>2, <2>4, <2>5, CalledBackSound
    <2>7. QED
      BY <2>1, <2>6, Becomes
  <1>8. ASSUME NEW text \in Text, NEW again \in Text, Dialog!UserTypes(text, again)
        PROVE  DialogInv'
    <2> DEFINE typed == [text |-> text, during |-> self.asyncResult]
               repeated == IF self.passwordNew THEN [text |-> again, during |-> self.asyncResult]
                           ELSE self.confirm
    <2>1. self' = [self EXCEPT !.password = typed, !.confirm = repeated]
      BY <1>2, <1>8 DEF Dialog!UserTypes, Dialog!Dialog
    <2>2. typed \in Dialog!Entry /\ repeated \in Dialog!Entry /\ typed.during = self.asyncResult
      BY <1>2 DEF Dialog!Dialog, Dialog!Entry
    <2> HIDE DEF typed, repeated
    <2>3. /\ self' \in Dialog!Dialog /\ SelfSound(self')
          /\ self'.wasClosed = self.wasClosed /\ self'.lastReply = self.lastReply
      BY <1>2, <2>1, <2>2 DEF SelfSound, Dialog!Dialog
    <2>4. QED
      BY <1>8, <2>3, SelfChanges DEF Dialog!UserTypes
  <1>9. ASSUME NEW button \in {"ok", "cancel"}, Dialog!UserResponds(button) PROVE DialogInv'
    <2>1. self.visible /\ \E after \in Dialog!Response(st, button) : Dialog!Become(after)
      BY <1>9 DEF Dialog!UserResponds, st
    <2>2. \A after \in Dialog!Response(st, button) : Sound(after)
      BY <1>1, <2>1, ResponseSound
    <2>3. QED
      BY <2>1, <2>2, Becomes
  <1>10. CASE Dialog!UserDeletes
    <2>1. PICK after \in Dialog!Response(st, "delete") : Dialog!Dispose(after)
      BY <1>10 DEF Dialog!UserDeletes, st
    <2>2. Sound(after)
      BY <1>1, ResponseSound
    <2>3. QED
      BY <2>1, <2>2, DisposeSound
  <1>11. CASE Dialog!WindowChanges
    BY <1>1, <1>2, <1>11, SelfChanges DEF Dialog!WindowChanges
  <1>12. CASE Dialog!WindowEvent \/ Dialog!GrabBroken
    <2> DEFINE Same(pv) == /\ pv \in Dialog!Dialog /\ SelfSound(pv)
                           /\ pv.wasClosed = self.wasClosed /\ pv.lastReply = self.lastReply
    <2>1. ASSUME NEW pv, Same(pv), NEW after \in Dialog!Grabbed(pv) \union {Dialog!Ungrabbed(pv)}
          PROVE  Same(after)
      BY <2>1 DEF Dialog!Grabbed, Dialog!Ungrabbed, SelfSound, Dialog!Dialog
    <2>2. Same(self')
      <3>1. CASE Dialog!GrabBroken
        BY <1>2, <2>1, <3>1 DEF Dialog!GrabBroken
      <3>2. CASE Dialog!WindowEvent
        <4>1. self' \in Dialog!Handled(self, Head(events))
          BY <3>2 DEF Dialog!WindowEvent
        <4>2. ASSUME NEW d \in BOOLEAN PROVE Same([self EXCEPT !.grabDisabled = d])
          BY <1>2 DEF SelfSound, Dialog!Dialog
        <4>3. Same(self)
          BY <1>2
        <4> HIDE DEF Same
        <4>4. self' \in Dialog!StateChanged(self) => Same(self')
          BY <2>1, <4>2, <4>3 DEF Dialog!StateChanged
        <4>5. QED
          BY <2>1, <4>1, <4>3, <4>4 DEF Dialog!Handled
      <3>3. QED
        BY <1>12, <3>1, <3>2
    <2>3. UNCHANGED <<asked, results, idle>>
      BY <1>12 DEF Dialog!WindowEvent, Dialog!GrabBroken
    <2>4. QED
      BY <2>2, <2>3, SelfChanges
  <1>13. QED
    BY <1>3, <1>4, <1>5, <1>6, <1>7, <1>8, <1>9, <1>10, <1>11, <1>12 DEF Dialog!Next

LEMMA DialogInit == Dialog!Init => DialogInv
  <1> SUFFICES ASSUME Dialog!Init PROVE DialogInv
    OBVIOUS
  <1>1. MaxOp \in Nat /\ Blank \in Text
    BY DialogAssumption DEF Dialog!UsageAssumption
  <1>2. self \in Dialog!Dialog /\ SelfSound(self)
    BY <1>1 DEF Dialog!Init, Dialog!Dialog, SelfSound, Dialog!Cleared, Dialog!Entry, Dialog!NoOp
  <1>3. /\ asked \in 0 .. MaxOp /\ results \in [Dialog!Op -> Seq(Dialog!Answer)]
        /\ idle \in Seq(Dialog!Op \X Kind) /\ idle = << >> /\ TypedAsAsked(results)
    BY <1>1 DEF Dialog!Init, TypedAsAsked, Dialog!NoOp
  <1>4. QED
    BY <1>2, <1>3 DEF DialogInv, Sound, DialogState, IdleSound, Dialog!State

\* In a behaviour of any of the parts, what answers a question for a password was typed
\* for that question, and a new password twice (gcr_prompt_dialog_response,
\* gcr_prompt_dialog_password_finish).
THEOREM AnswersAreTyped == SecretsSpec => []PasswordsAreTyped
  <1>1. SecretsInit => DialogInv
    BY DialogInit DEF SecretsInit
  <1>2. DialogInv /\ [SecretsNext]_allVars => DialogInv'
    <2> SUFFICES ASSUME DialogInv, [SecretsNext]_allVars PROVE DialogInv'
      OBVIOUS
    <2>1. CASE Dialog!Next
      BY <2>1, DialogStep
    <2>2. CASE UNCHANGED dialogVars
      BY <2>2 DEF DialogInv, dialogVars, Dialog!State, Sound, SelfSound, IdleSound, TypedAsAsked
    <2>3. QED
      BY <2>1, <2>2 DEF SecretsNext, allVars
  <1>3. DialogInv => PasswordsAreTyped
    BY DEF DialogInv, Sound, TypedAsAsked, Dialog!State, PasswordsAreTyped, Dialog!PasswordsAreTyped
  <1>4. QED
    BY <1>1, <1>2, <1>3, PTL DEF SecretsSpec

-----------------------------------------------------------------------------
(* Words and bytes.                                                        *)

LEMMA Sizes ==
    /\ WordSize \in Nat /\ WordSize >= 1 /\ PageWords \in Nat /\ PageWords >= 1
    /\ DefaultWords \in Nat /\ DefaultWords > 2 /\ Waste \in Nat /\ Waste >= 2
    /\ Slots \in Nat /\ SlotWords \in Nat /\ SlotWords >= DefaultWords
    /\ PoolItems \in Nat /\ PoolItems >= 1 /\ PoolCount \in Nat /\ PoolCount >= 1
    /\ Length \subseteq Nat \ {0}
BY MemoryAssumption DEF Memory!SizeAssumption

Bytes == 0 .. SlotWords * WordSize - 1
InWord(b, w) == w * WordSize <= b /\ b < (w + 1) * WordSize

LEMMA WordsOrdered ==
    ASSUME NEW v \in Int, NEW w \in Int, v <= w
    PROVE  v * WordSize <= w * WordSize /\ v * WordSize \in Int /\ w * WordSize \in Int
<1>1. WordSize \in Nat
    BY Sizes
<1>2. w - v \in Nat
    OBVIOUS
<1>3. (w - v) * WordSize >= 0
    BY <1>1, <1>2
<1>4. (w - v) * WordSize = w * WordSize - v * WordSize
    BY <1>1
<1> QED BY <1>1, <1>3, <1>4

LEMMA OneWord ==
    ASSUME NEW b \in Int, NEW v \in Int, NEW w \in Int, InWord(b, v), InWord(b, w)
    PROVE  v = w
<1>1. ~(v + 1 <= w)
    <2>1. SUFFICES ASSUME v + 1 <= w PROVE FALSE
        OBVIOUS
    <2>2. (v + 1) * WordSize <= w * WordSize /\ (v + 1) * WordSize \in Int /\ w * WordSize \in Int
        BY <2>1, WordsOrdered
    <2> QED BY <2>2 DEF InWord
<1>2. ~(w + 1 <= v)
    <2>1. SUFFICES ASSUME w + 1 <= v PROVE FALSE
        OBVIOUS
    <2>2. (w + 1) * WordSize <= v * WordSize /\ (w + 1) * WordSize \in Int /\ v * WordSize \in Int
        BY <2>1, WordsOrdered
    <2> QED BY <2>2 DEF InWord
<1> QED BY <1>1, <1>2

LEMMA WordStart ==
    ASSUME NEW w \in Int
    PROVE  InWord(w * WordSize, w) /\ w * WordSize \in Int /\ (w + 1) * WordSize \in Int
<1>1. (w + 1) * WordSize = w * WordSize + WordSize
    BY Sizes
<1> QED BY <1>1, Sizes DEF InWord

LEMMA WordInBytes ==
    ASSUME NEW w \in 0 .. SlotWords - 1, NEW b \in Int, InWord(b, w)
    PROVE  b \in Bytes
<1>1. 0 * WordSize <= w * WordSize /\ w * WordSize \in Int
    BY WordsOrdered, Sizes
<1>2. (w + 1) * WordSize <= SlotWords * WordSize /\ SlotWords * WordSize \in Int
      /\ (w + 1) * WordSize \in Int
    BY WordsOrdered, Sizes
<1> QED BY <1>1, <1>2, Sizes DEF InWord, Bytes

\* A word holds nothing but c when all of its bytes are c.
LEMMA WordBytes ==
    ASSUME NEW h, NEW k, NEW c, NEW w \in Int
    PROVE  (Memory!WordAt(h, k, w) = {c}) <=> \A b \in Int : InWord(b, w) => h.mem[k][b] = c
<1> DEFINE at(i) == h.mem[k][w * WordSize + i]
<1>1. Memory!WordAt(h, k, w) = {at(i) : i \in 0 .. WordSize - 1}
    BY DEF Memory!WordAt
<1>2. w * WordSize \in Int /\ (w + 1) * WordSize = w * WordSize + WordSize
    BY Sizes
<1>3. 0 \in 0 .. WordSize - 1
    BY Sizes
<1>4. ASSUME \A i \in 0 .. WordSize - 1 : at(i) = c, NEW b \in Int, InWord(b, w)
      PROVE  h.mem[k][b] = c
    <2>1. b - w * WordSize \in 0 .. WordSize - 1
        BY <1>2, <1>4, Sizes DEF InWord
    <2>2. w * WordSize + (b - w * WordSize) = b
        BY <1>2
    <2> QED BY <1>4, <2>1, <2>2
<1>5. ASSUME \A b \in Int : InWord(b, w) => h.mem[k][b] = c, NEW i \in 0 .. WordSize - 1
      PROVE  at(i) = c
    <2>1. w * WordSize + i \in Int /\ InWord(w * WordSize + i, w)
        BY <1>2, Sizes DEF InWord
    <2> QED BY <1>5, <2>1
<1> HIDE DEF at
<1>6. ({at(i) : i \in 0 .. WordSize - 1} = {c}) <=> \A i \in 0 .. WordSize - 1 : at(i) = c
    BY <1>3
<1> QED BY <1>1, <1>4, <1>5, <1>6 DEF at

-----------------------------------------------------------------------------
(* Rings.                                                                  *)

Ring(s, S) ==
    /\ s \in Seq(S)
    /\ \A x \in S : \E i \in 1 .. Len(s) : s[i] = x
    /\ \A i, j \in 1 .. Len(s) : s[i] = s[j] => i = j

LEMMA LeastIs ==
    ASSUME NEW T, T \subseteq Nat, T # {}
    PROVE  Memory!Least(T) \in T /\ \A y \in T : Memory!Least(T) <= y
BY LeastNumber DEF Memory!Least

LEMMA RingMembers ==
    ASSUME NEW S, NEW s, Ring(s, S)
    PROVE  Memory!Members(s) = S /\ Len(s) \in Nat
BY DEF Ring, Memory!Members

LEMMA RingOfMembers ==
    ASSUME NEW S, NEW s \in Seq(S), \A i, j \in 1 .. Len(s) : s[i] = s[j] => i = j
    PROVE  Ring(s, Memory!Members(s))
<1>1. Len(s) \in Nat /\ s = [i \in 1 .. Len(s) |-> s[i]]
    OBVIOUS
<1>2. \A i \in 1 .. Len(s) : s[i] \in Memory!Members(s)
    BY DEF Memory!Members
<1>3. s \in Seq(Memory!Members(s))
    BY <1>1, <1>2
<1>4. \A x \in Memory!Members(s) : \E i \in 1 .. Len(s) : s[i] = x
    BY DEF Memory!Members
<1> QED BY <1>3, <1>4 DEF Ring

LEMMA DropFromRing ==
    ASSUME NEW S, NEW s, Ring(s, S), NEW x
    PROVE  Ring(Memory!Drop(s, x), S \ {x})
<1> DEFINE n == Len(s)
           T == {i \in 1 .. n : s[i] = x}
           at == Memory!Least(T)
           d == [i \in 1 .. n - 1 |-> IF i < at THEN s[i] ELSE s[i + 1]]
<1>1. n \in Nat /\ \A i \in 1 .. n : s[i] \in S
    BY DEF Ring
<1>2. CASE x \notin S
    <2>1. Memory!Drop(s, x) = s
        BY <1>2, RingMembers DEF Memory!Drop
    <2>2. S \ {x} = S
        BY <1>2
    <2> QED BY <2>1, <2>2
<1>3. CASE x \in S
    <2>1. Memory!Drop(s, x) = d
        BY <1>3, RingMembers DEF Memory!Drop
    <2>2. T # {} /\ T \subseteq Nat
        <3>1. \E i \in 1 .. n : s[i] = x
            BY <1>3 DEF Ring
        <3>2. T # {}
            BY <3>1
        <3>3. T \subseteq Nat
            BY <1>1
        <3> QED BY <3>2, <3>3
    <2>3. at \in T
        <3> HIDE DEF T
        <3> QED BY <2>2, LeastIs
    <2> HIDE DEF at
    <2>4. at \in 1 .. n /\ s[at] = x
        BY <2>3
    <2>5. \A i \in 1 .. n : i # at => s[i] \in S \ {x}
        BY <1>1, <2>4 DEF Ring
    <2>6. n - 1 \in Nat
        BY <1>1, <2>4
    <2>7. \A i \in 1 .. n - 1 : d[i] \in S \ {x}
        BY <1>1, <2>4, <2>5
    <2>8. d \in Seq(S \ {x}) /\ Len(d) = n - 1
        BY <2>6, <2>7
    <2>9. ASSUME NEW y \in S \ {x} PROVE \E i \in 1 .. n - 1 : d[i] = y
        <3>1. PICK j \in 1 .. n : s[j] = y
            BY DEF Ring
        <3>2. CASE j < at
            BY <1>1, <2>4, <3>1, <3>2
        <3>3. CASE j > at
            <4>1. j - 1 \in 1 .. n - 1 /\ ~(j - 1 < at) /\ (j - 1) + 1 = j
                BY <1>1, <2>4, <3>3
            <4>2. d[j - 1] = y
                BY <3>1, <4>1
            <4> QED BY <4>1, <4>2
        <3> QED BY <1>1, <2>4, <3>1, <3>2, <3>3
    <2>10. ASSUME NEW i \in 1 .. n - 1, NEW j \in 1 .. n - 1, d[i] = d[j] PROVE i = j
        <3> DEFINE shift(m) == IF m < at THEN m ELSE m + 1
        <3>1. shift(i) \in 1 .. n /\ shift(j) \in 1 .. n
            BY <1>1, <2>4
        <3>2. s[shift(i)] = s[shift(j)]
            BY <2>10
        <3>3. shift(i) = shift(j)
            BY <3>1, <3>2 DEF Ring
        <3> QED BY <1>1, <2>4, <3>3
    <2> HIDE DEF d
    <2> QED BY <2>1, <2>8, <2>9, <2>10 DEF Ring
<1> QED BY <1>2, <1>3

LEMMA InsertIntoRing ==
    ASSUME NEW S, NEW s, Ring(s, S), NEW x, x \notin S
    PROVE  Ring(Memory!Insert(s, x), S \union {x})
<1> DEFINE n == Len(s)
           X == S \union {x}
           r == <<x>> \o Tail(s) \o <<Head(s)>>
<1>1. n \in Nat /\ s \in Seq(X) /\ \A i \in 1 .. n : s[i] \in S
    BY DEF Ring
<1>2. CASE s = << >>
    <2>1. Memory!Insert(s, x) = <<x>>
        BY <1>2 DEF Memory!Insert
    <2>2. S = {}
        BY <1>2 DEF Ring
    <2> QED BY <2>1, <2>2 DEF Ring
<1>3. CASE s # << >>
    <2>1. Memory!Insert(s, x) = r
        BY <1>3 DEF Memory!Insert
    <2>2. n >= 1 /\ Head(s) = s[1] /\ Tail(s) \in Seq(X) /\ Len(Tail(s)) = n - 1
          /\ \A i \in 1 .. n - 1 : Tail(s)[i] = s[i + 1]
        BY <1>1, <1>3, HeadTailProperties
    <2>3. <<x>> \in Seq(X) /\ Len(<<x>>) = 1 /\ <<Head(s)>> \in Seq(X) /\ Len(<<Head(s)>>) = 1
          /\ <<x>>[1] = x /\ <<Head(s)>>[1] = s[1]
        BY <1>1, <2>2
    <2> DEFINE a == <<x>> \o Tail(s)
    <2>4. a \in Seq(X) /\ Len(a) = n /\ a[1] = x /\ \A i \in 2 .. n : a[i] = s[i]
        <3>1. a \in Seq(X) /\ Len(a) = n
            BY <1>1, <2>2, <2>3
        <3>2. a[1] = x
            BY <1>1, <2>2, <2>3
        <3>3. ASSUME NEW i \in 2 .. n PROVE a[i] = s[i]
            <4>1. a[i] = Tail(s)[i - 1]
                BY <1>1, <2>2, <2>3
            <4>2. i - 1 \in 1 .. n - 1 /\ (i - 1) + 1 = i
                BY <1>1, <2>2
            <4> QED BY <2>2, <4>1, <4>2
        <3> QED BY <3>1, <3>2, <3>3
    <2> HIDE DEF a
    <2>5. r = a \o <<Head(s)>>
        BY DEF a
    <2>6. r \in Seq(X) /\ Len(r) = n + 1
        BY <1>1, <2>3, <2>4, <2>5
    <2>7. r[1] = x /\ r[n + 1] = s[1] /\ \A i \in 2 .. n : r[i] = s[i]
        <3>1. \A i \in 1 .. n : r[i] = a[i]
            BY <1>1, <2>3, <2>4, <2>5
        <3>2. r[n + 1] = s[1]
            <4>1. <<Head(s)>>[(n + 1) - n] = s[1]
                BY <1>1, <2>3
            <4> HIDE DEF r
            <4>2. n + 1 \in n + 1 .. n + 1
                BY <1>1
            <4> QED BY <1>1, <2>3, <2>4, <2>5, <4>1, <4>2
        <3> QED BY <1>1, <2>2, <2>4, <3>1, <3>2
    <2> HIDE DEF r
    <2>8. ASSUME NEW y \in X PROVE \E i \in 1 .. n + 1 : r[i] = y
        <3>1. CASE y = x
            BY <1>1, <2>7, <3>1
        <3>2. CASE y # x
            <4>1. PICK i \in 1 .. n : s[i] = y
                BY <3>2 DEF Ring
            <4>2. CASE i = 1
                BY <1>1, <2>2, <2>7, <4>1, <4>2
            <4>3. CASE i # 1
                BY <1>1, <2>2, <2>7, <4>1, <4>3
            <4> QED BY <4>2, <4>3
        <3> QED BY <3>1, <3>2
    <2>9. ASSUME NEW i \in 1 .. n + 1, NEW j \in 1 .. n + 1, r[i] = r[j] PROVE i = j
        <3> DEFINE from(m) == IF m = n + 1 THEN 1 ELSE m
        <3>1. CASE i = 1 \/ j = 1
            <4>1. \A m \in 2 .. n + 1 : r[m] \in S
                BY <1>1, <2>2, <2>7
            <4> QED BY <1>1, <2>7, <2>9, <3>1, <4>1
        <3>2. CASE i # 1 /\ j # 1
            <4>1. r[i] = s[from(i)] /\ r[j] = s[from(j)] /\ from(i) \in 1 .. n /\ from(j) \in 1 .. n
                BY <1>1, <2>2, <2>7, <3>2
            <4>2. from(i) = from(j)
                BY <2>9, <4>1 DEF Ring
            <4> QED BY <1>1, <2>2, <3>2, <4>2
        <3> QED BY <3>1, <3>2
    <2> QED BY <2>1, <2>6, <2>8, <2>9 DEF Ring
<1> QED BY <1>2, <1>3

LEMMA RingLength ==
    ASSUME NEW S, NEW s, Ring(s, S)
    PROVE  IsFiniteSet(S) /\ Cardinality(S) = Len(s)
<1> DEFINE n == Len(s)
           f == [i \in 1 .. n |-> s[i]]
<1>1. n \in Nat /\ \A i \in 1 .. n : s[i] \in S
    BY DEF Ring
<1>2. f \in Bijection(1 .. n, S)
    <2>1. f \in [1 .. n -> S]
        BY <1>1
    <2>2. \A i, j \in 1 .. n : f[i] = f[j] => i = j
        BY DEF Ring
    <2>3. \A x \in S : \E i \in 1 .. n : f[i] = x
        BY DEF Ring
    <2> HIDE DEF f
    <2>4. DOMAIN f = 1 .. n
        BY <2>1
    <2>5. f \in Injection(1 .. n, S)
        BY <2>1, <2>2, <2>4 DEF Injection, IsInjective
    <2>6. f \in Surjection(1 .. n, S)
        BY <2>1, <2>3 DEF Surjection
    <2> QED BY <2>5, <2>6 DEF Bijection
<1>3. IsFiniteSet(1 .. n) /\ Cardinality(1 .. n) = n
    BY <1>1, FS_Interval
<1> QED BY <1>2, <1>3, FS_Bijection DEF ExistsBijection

-----------------------------------------------------------------------------
(* The heap.                                                               *)

CellRec == [block : Nat, words : Int, n_words : Int, requested : Int]

HeapRec ==
    [blocks : Seq(Memory!Slot),
     n_words : [Memory!Slot -> Int],
     header : [Memory!Slot -> Nat],
     used : [Memory!Slot -> Seq(Memory!Item)],
     unused : [Memory!Slot -> Seq(Memory!Item)],
     cell : [Memory!Item -> CellRec],
     pools : Seq(Memory!Pool),
     taken : SUBSET Memory!Item,
     mem : [Memory!Slot -> [Bytes -> Int]]]

IsLive(h, c) == h.cell[c].block # 0
IsUsed(h, c) == IsLive(h, c) /\ h.cell[c].requested # 0
End(h, c) == h.cell[c].words + h.cell[c].n_words
InBlocks(h, k) == k \in Memory!Members(h.blocks)

\* A cell is in a block, and has room for what was asked for and two guards.
CellOK(h, c) ==
    /\ h.cell[c].block \in Memory!Slot /\ InBlocks(h, h.cell[c].block)
    /\ h.cell[c].words >= 0 /\ h.cell[c].n_words > 2
    /\ End(h, c) <= h.n_words[h.cell[c].block]
    /\ h.cell[c].requested \in Length \union {0}
    /\ h.cell[c].requested <= (h.cell[c].n_words - 2) * WordSize
    /\ c \in h.taken

CellsOK(h) == \A c \in Memory!Item : IsLive(h, c) => CellOK(h, c)

\* One cell ends where another begins, or before.
Apart(h) ==
    \A c, d \in Memory!Item :
        c # d /\ IsLive(h, c) /\ h.cell[c].block = h.cell[d].block =>
            End(h, c) <= h.cell[d].words \/ End(h, d) <= h.cell[c].words

\* Word w of block k is in cell c.
HasWord(h, c, k, w) == h.cell[c].block = k /\ h.cell[c].words <= w /\ w < End(h, c)

Covered(h) ==
    \A k \in Memory!Slot : InBlocks(h, k) =>
        \A w \in Int : 0 <= w /\ w < h.n_words[k] => \E c \in Memory!Item : HasWord(h, c, k, w)

IsGuard(h, c, b) == InWord(b, h.cell[c].words) \/ InWord(b, End(h, c) - 1)
HasGuards(h, c) == \A b \in Int : IsGuard(h, c, b) => h.mem[h.cell[c].block][b] = c
GuardsStand(h) == \A c \in Memory!Item : IsLive(h, c) => HasGuards(h, c)

BlocksOK(h) ==
    /\ \A i, j \in 1 .. Len(h.blocks) : h.blocks[i] = h.blocks[j] => i = j
    /\ \A k \in Memory!Slot : InBlocks(h, k) =>
          /\ h.n_words[k] <= SlotWords
          /\ h.header[k] \in h.taken /\ ~IsLive(h, h.header[k])
    /\ \A j, k \in Memory!Slot :
          InBlocks(h, j) /\ InBlocks(h, k) /\ h.header[j] = h.header[k] => j = k

\* The rings have the cells of the block, but for one that is being moved.
RingsBut(h, x) ==
    \A k \in Memory!Slot :
        /\ Ring(h.used[k], {c \in Memory!Item : h.cell[c].block = k /\ h.cell[c].requested # 0
                                                /\ c # x})
        /\ Ring(h.unused[k], {c \in Memory!Item : h.cell[c].block = k /\ h.cell[c].requested = 0
                                                  /\ c # x})

\* The items that were given out are cells or blocks, but for those in X.
TakenBut(h, X) ==
    /\ \A x \in h.taken : \/ IsLive(h, x) \/ x \in X
                          \/ \E k \in Memory!Slot : InBlocks(h, k) /\ h.header[k] = x
    /\ \A x \in X : /\ x \in h.taken /\ ~IsLive(h, x)
                    /\ \A k \in Memory!Slot : InBlocks(h, k) => h.header[k] # x

PoolsHold(h) ==
    \A x \in h.taken : \E p \in Memory!Members(h.pools) : x \in Memory!ItemsOf(p)

Layout(h) == CellsOK(h) /\ Apart(h) /\ Covered(h) /\ GuardsStand(h)

Good(h, x, X) ==
    /\ h \in HeapRec /\ Layout(h) /\ BlocksOK(h)
    /\ RingsBut(h, x) /\ TakenBut(h, X) /\ PoolsHold(h)

\* What the program has in cell c is the same in both heaps.
SameBytes(h, g, c) ==
    \A b \in Int : Memory!First(h, c) <= b /\ b < Memory!First(h, c) + h.cell[c].requested =>
        g.mem[h.cell[c].block][b] = h.mem[h.cell[c].block][b]

KeepsCell(h, g, c) ==
    /\ IsUsed(h, c) <=> IsUsed(g, c)
    /\ IsUsed(h, c) => /\ g.cell[c].block = h.cell[c].block /\ g.cell[c].words = h.cell[c].words
                       /\ g.cell[c].requested = h.cell[c].requested
                       /\ SameBytes(h, g, c)

\* But for the cells in S, the program sees the same in both.
Keeps(h, g, S) == \A c \in Memory!Item \ S : KeepsCell(h, g, c)

LEMMA KeepsItself ==
    ASSUME NEW h, NEW S
    PROVE  Keeps(h, h, S)
BY DEF Keeps, KeepsCell, SameBytes

LEMMA KeepsMore ==
    ASSUME NEW h, NEW g, NEW S, NEW T, S \subseteq T, Keeps(h, g, S)
    PROVE  Keeps(h, g, T)
BY DEF Keeps

LEMMA KeepsOnCell ==
    ASSUME NEW f, NEW g, NEW h, NEW c, KeepsCell(f, g, c), KeepsCell(g, h, c)
    PROVE  KeepsCell(f, h, c)
<1>1. CASE ~IsUsed(f, c)
    BY <1>1 DEF KeepsCell
<1>2. CASE IsUsed(f, c)
    <2>1. /\ IsUsed(g, c) /\ IsUsed(h, c)
          /\ g.cell[c].block = f.cell[c].block /\ g.cell[c].words = f.cell[c].words
          /\ g.cell[c].requested = f.cell[c].requested
          /\ h.cell[c].block = f.cell[c].block /\ h.cell[c].words = f.cell[c].words
          /\ h.cell[c].requested = f.cell[c].requested
        BY <1>2 DEF KeepsCell
    <2>2. SameBytes(f, g, c) /\ SameBytes(g, h, c)
        BY <1>2, <2>1 DEF KeepsCell
    <2>3. SameBytes(f, h, c)
        BY <2>1, <2>2 DEF SameBytes, Memory!First
    <2> QED BY <1>2, <2>1, <2>3 DEF KeepsCell
<1> QED BY <1>1, <1>2

LEMMA KeepsOn ==
    ASSUME NEW f, NEW g, NEW h, NEW S, Keeps(f, g, S), Keeps(g, h, S)
    PROVE  Keeps(f, h, S)
BY KeepsOnCell DEF Keeps

LEMMA CellType ==
    ASSUME NEW h \in HeapRec, NEW c \in Memory!Item
    PROVE  /\ h.cell[c] \in CellRec /\ h.cell[c].block \in Nat /\ h.cell[c].words \in Int
           /\ h.cell[c].n_words \in Int /\ h.cell[c].requested \in Int /\ End(h, c) \in Int
           /\ c \in Int /\ c # 0
<1>1. h.cell \in [Memory!Item -> CellRec]
    BY DEF HeapRec
<1>2. h.cell[c] \in CellRec
    BY <1>1
<1>3. h.cell[c].block \in Nat /\ h.cell[c].words \in Int
      /\ h.cell[c].n_words \in Int /\ h.cell[c].requested \in Int
    BY <1>2 DEF CellRec
<1>4. End(h, c) \in Int
    BY <1>3 DEF End
<1>5. c \in Int /\ c # 0
    <2>1. PoolItems * PoolCount \in Nat
        BY Sizes
    <2> QED BY <2>1 DEF Memory!Item
<1> QED BY <1>2, <1>3, <1>4, <1>5

LEMMA CellPlace ==
    ASSUME NEW h \in HeapRec, Layout(h), BlocksOK(h), NEW c \in Memory!Item, IsLive(h, c)
    PROVE  /\ CellOK(h, c) /\ HasGuards(h, c) /\ h.cell[c].block \in Memory!Slot
           /\ InBlocks(h, h.cell[c].block) /\ h.n_words[h.cell[c].block] \in Int
           /\ 0 <= h.cell[c].words /\ h.cell[c].words + 2 < End(h, c)
           /\ End(h, c) <= h.n_words[h.cell[c].block] /\ End(h, c) <= SlotWords
<1>1. CellOK(h, c) /\ HasGuards(h, c)
    BY DEF Layout, CellsOK, GuardsStand
<1>2. h.cell[c].block \in Memory!Slot /\ InBlocks(h, h.cell[c].block)
      /\ h.cell[c].words >= 0 /\ h.cell[c].n_words > 2
      /\ End(h, c) <= h.n_words[h.cell[c].block]
    BY <1>1 DEF CellOK
<1>3. h.n_words[h.cell[c].block] \in Int /\ h.n_words[h.cell[c].block] <= SlotWords
    BY <1>2 DEF HeapRec, BlocksOK
<1>4. h.cell[c].words + 2 < End(h, c) /\ End(h, c) \in Int
    BY <1>2, CellType DEF End
<1> QED BY <1>1, <1>2, <1>3, <1>4, Sizes

\* The meta data that a word at the border of cell c points to.
LEMMA CellAtGuard ==
    ASSUME NEW h \in HeapRec, Layout(h), BlocksOK(h), NEW c \in Memory!Item, IsLive(h, c),
           NEW w \in {h.cell[c].words, End(h, c) - 1}
    PROVE  Memory!CellAt(h, h.cell[c].block, w) = c
<1> DEFINE k == h.cell[c].block
<1>1. HasGuards(h, c) /\ h.n_words[k] \in Int
      /\ 0 <= h.cell[c].words /\ h.cell[c].words + 2 < End(h, c) /\ End(h, c) <= h.n_words[k]
    BY CellPlace
<1>2. h.cell[c].words \in Int /\ End(h, c) \in Int
    BY CellType
<1>3. w \in Int /\ ~(w < 0) /\ ~(w >= h.n_words[k])
    BY <1>1, <1>2
<1>4. Memory!CellAt(h, k, w) = h.mem[k][w * WordSize]
    BY <1>3 DEF Memory!CellAt
<1>5. InWord(w * WordSize, w) /\ w * WordSize \in Int
    BY <1>3, WordStart
<1>6. IsGuard(h, c, w * WordSize)
    BY <1>5 DEF IsGuard
<1> QED BY <1>1, <1>4, <1>5, <1>6 DEF HasGuards

\* sec_neighbor_after finds the cell that begins where c ends, if there is one.
LEMMA AfterIs ==
    ASSUME NEW h \in HeapRec, Layout(h), BlocksOK(h), NEW c \in Memory!Item, IsLive(h, c),
           Memory!After(h, c) # 0
    PROVE  LET o == Memory!After(h, c)
           IN  /\ o \in Memory!Item /\ IsLive(h, o) /\ o # c
               /\ h.cell[o].block = h.cell[c].block /\ h.cell[o].words = End(h, c)
<1> DEFINE k == h.cell[c].block
           w == End(h, c)
<1>1. Memory!After(h, c) = Memory!CellAt(h, k, w)
    BY DEF Memory!After, End
<1>2. w \in Int /\ h.n_words[k] \in Int /\ k \in Memory!Slot /\ InBlocks(h, k)
      /\ 0 <= h.cell[c].words /\ h.cell[c].words + 2 < w /\ h.cell[c].words \in Int /\ k # 0
    BY CellPlace, CellType DEF IsLive
<1>3. 0 <= w /\ w < h.n_words[k]
    BY <1>1, <1>2 DEF Memory!CellAt
<1>4. PICK d \in Memory!Item : HasWord(h, d, k, w)
    BY <1>2, <1>3 DEF Layout, Covered
<1>5. h.cell[d].block = k /\ h.cell[d].words <= w /\ w < End(h, d) /\ IsLive(h, d)
    BY <1>2, <1>4 DEF HasWord, IsLive
<1>6. d # c
    BY <1>2, <1>5
<1>7. w <= h.cell[d].words \/ End(h, d) <= h.cell[c].words
    BY <1>5, <1>6 DEF Layout, Apart
<1>8. h.cell[d].words \in Int /\ End(h, d) \in Int
    BY CellType
<1>9. h.cell[d].words = w
    BY <1>2, <1>5, <1>7, <1>8
<1>10. Memory!CellAt(h, k, w) = d
    BY <1>5, <1>9, CellAtGuard
<1> QED BY <1>1, <1>5, <1>6, <1>9, <1>10

LEMMA BeforeIs ==
    ASSUME NEW h \in HeapRec, Layout(h), BlocksOK(h), NEW c \in Memory!Item, IsLive(h, c),
           Memory!Before(h, c) # 0
    PROVE  LET o == Memory!Before(h, c)
           IN  /\ o \in Memory!Item /\ IsLive(h, o) /\ o # c
               /\ h.cell[o].block = h.cell[c].block /\ End(h, o) = h.cell[c].words
<1> DEFINE k == h.cell[c].block
           w == h.cell[c].words - 1
<1>1. Memory!Before(h, c) = Memory!CellAt(h, k, w)
    BY DEF Memory!Before
<1>2. w \in Int /\ h.n_words[k] \in Int /\ k \in Memory!Slot /\ InBlocks(h, k)
      /\ w + 1 = h.cell[c].words /\ w + 3 < End(h, c) /\ End(h, c) \in Int /\ k # 0
      /\ h.cell[c].words \in Int
    BY CellPlace, CellType DEF IsLive
<1>3. 0 <= w /\ w < h.n_words[k]
    BY <1>1, <1>2 DEF Memory!CellAt
<1>4. PICK d \in Memory!Item : HasWord(h, d, k, w)
    BY <1>2, <1>3 DEF Layout, Covered
<1>5. h.cell[d].block = k /\ h.cell[d].words <= w /\ w < End(h, d) /\ IsLive(h, d)
    BY <1>2, <1>4 DEF HasWord, IsLive
<1>6. d # c
    BY <1>2, <1>5
<1>7. End(h, c) <= h.cell[d].words \/ End(h, d) <= h.cell[c].words
    BY <1>5, <1>6 DEF Layout, Apart
<1>8. h.cell[d].words \in Int /\ End(h, d) \in Int
    BY CellType
<1>9. End(h, d) = w + 1 /\ w = End(h, d) - 1
    BY <1>2, <1>5, <1>7, <1>8
<1>10. Memory!CellAt(h, k, w) = d
    BY <1>5, <1>9, CellAtGuard
<1> QED BY <1>1, <1>2, <1>5, <1>6, <1>9, <1>10

\* The pointer that the program has of cell c.
PointerOf(h, c) == <<h.cell[c].block, h.cell[c].words + 1>>

LEMMA CellOfPointer ==
    ASSUME NEW h \in HeapRec, Layout(h), BlocksOK(h), NEW c \in Memory!Item, IsLive(h, c)
    PROVE  Memory!CellOf(h, PointerOf(h, c)) = c
<1>1. h.cell[c].words \in Int
    BY CellType
<1>2. PointerOf(h, c)[1] = h.cell[c].block /\ PointerOf(h, c)[2] - 1 = h.cell[c].words
    BY <1>1 DEF PointerOf
<1> QED BY <1>2, CellAtGuard DEF Memory!CellOf

LEMMA PointersAre ==
    ASSUME NEW h, Good(h, 0, {})
    PROVE  Memory!Pointers(h) = {PointerOf(h, c) : c \in {d \in Memory!Item : IsUsed(h, d)}}
<1>1. \A k \in Memory!Slot : Memory!Members(h.used[k]) =
          {c \in Memory!Item : h.cell[c].block = k /\ h.cell[c].requested # 0 /\ c # 0}
    BY RingMembers DEF Good, RingsBut
<1>2. Memory!Members(h.blocks) \subseteq Memory!Slot
    BY DEF Good, HeapRec, Memory!Members
<1>3. \A c \in Memory!Item : c # 0
    BY DEF Memory!Item
<1>4. \A c \in Memory!Item : IsUsed(h, c) =>
          h.cell[c].block \in Memory!Members(h.blocks)
    BY DEF Good, Layout, CellsOK, CellOK, IsUsed, InBlocks
<1>5. \A k \in Memory!Slot : k # 0
    BY DEF Memory!Slot
<1>6. ASSUME NEW p \in Memory!Pointers(h)
      PROVE  \E c \in Memory!Item : IsUsed(h, c) /\ p = PointerOf(h, c)
    <2>1. PICK k \in Memory!Members(h.blocks) :
              p \in {<<k, h.cell[c].words + 1>> : c \in Memory!Members(h.used[k])}
        BY DEF Memory!Pointers
    <2>2. PICK c \in Memory!Members(h.used[k]) : p = <<k, h.cell[c].words + 1>>
        BY <2>1
    <2> QED BY <1>1, <1>2, <1>5, <2>2 DEF IsUsed, IsLive, PointerOf
<1>7. ASSUME NEW c \in Memory!Item, IsUsed(h, c)
      PROVE  PointerOf(h, c) \in Memory!Pointers(h)
    <2> DEFINE k == h.cell[c].block
    <2>1. k \in Memory!Members(h.blocks) /\ c \in Memory!Members(h.used[k])
        BY <1>1, <1>2, <1>3, <1>4, <1>7 DEF IsUsed
    <2> QED BY <2>1 DEF Memory!Pointers, PointerOf
<1> QED BY <1>6, <1>7

LEMMA PointersDiffer ==
    ASSUME NEW h \in HeapRec, Layout(h), BlocksOK(h), NEW c \in Memory!Item, IsLive(h, c),
           NEW d \in Memory!Item, IsLive(h, d), PointerOf(h, c) = PointerOf(h, d)
    PROVE  c = d
BY CellOfPointer

-----------------------------------------------------------------------------
(* What is written to memory.                                              *)

SameShape(h, g) ==
    /\ g.blocks = h.blocks /\ g.n_words = h.n_words /\ g.header = h.header
    /\ g.used = h.used /\ g.unused = h.unused /\ g.cell = h.cell
    /\ g.pools = h.pools /\ g.taken = h.taken

Filled(h, g, k, from, to, v) ==
    /\ g \in HeapRec /\ SameShape(h, g)
    /\ \A j \in Memory!Slot : \A b \in Bytes :
          g.mem[j][b] = IF j = k /\ from <= b /\ b < to THEN v ELSE h.mem[j][b]

\* Only words W of block k are written to.
Touches(h, g, k, W) ==
    \A j \in Memory!Slot : \A b \in Bytes :
        g.mem[j][b] = h.mem[j][b] \/ (j = k /\ \E w \in W : InWord(b, w))

LEMMA FillFills ==
    ASSUME NEW h \in HeapRec, NEW k \in Memory!Slot, NEW from \in Int, NEW to \in Int, NEW v \in Int
    PROVE  Filled(h, Memory!Fill(h, k, from, to, v), k, from, to, v)
<1> DEFINE g == Memory!Fill(h, k, from, to, v)
           m == [b \in Bytes |-> IF from <= b /\ b < to THEN v ELSE h.mem[k][b]]
<1>1. h.mem \in [Memory!Slot -> [Bytes -> Int]] /\ DOMAIN h.mem[k] = Bytes
    BY DEF HeapRec
<1>2. m \in [Bytes -> Int]
    BY <1>1
<1>3. g = [h EXCEPT !.mem = [@ EXCEPT ![k] = m]]
    BY <1>1 DEF Memory!Fill
<1> DEFINE mm == [h.mem EXCEPT ![k] = m]
<1>4. mm \in [Memory!Slot -> [Bytes -> Int]] /\ mm[k] = m
      /\ \A j \in Memory!Slot \ {k} : mm[j] = h.mem[j]
    BY <1>1, <1>2
<1>5. g = [h EXCEPT !.mem = mm]
    BY <1>3
<1>6. \A b \in Bytes : m[b] = IF from <= b /\ b < to THEN v ELSE h.mem[k][b]
    OBVIOUS
<1> HIDE DEF m, mm, g
<1>7. g \in HeapRec /\ SameShape(h, g) /\ g.mem = mm
    BY <1>4, <1>5 DEF HeapRec, SameShape
<1>8. ASSUME NEW j \in Memory!Slot, NEW b \in Bytes
      PROVE  g.mem[j][b] = IF j = k /\ from <= b /\ b < to THEN v ELSE h.mem[j][b]
    <2>1. CASE j = k
        BY <1>4, <1>6, <1>7, <2>1
    <2>2. CASE j # k
        BY <1>4, <1>7, <2>2
    <2> QED BY <2>1, <2>2
<1> QED BY <1>7, <1>8 DEF Filled, g

Written(h, g, c) ==
    /\ g \in HeapRec /\ SameShape(h, g)
    /\ \A j \in Memory!Slot : \A b \in Bytes :
          g.mem[j][b] = IF j = h.cell[c].block /\ IsGuard(h, c, b) THEN c ELSE h.mem[j][b]

LEMMA WriteGuardsWrites ==
    ASSUME NEW h \in HeapRec, NEW c \in Memory!Item, h.cell[c].block \in Memory!Slot
    PROVE  Written(h, Memory!WriteGuards(h, c), c)
<1> DEFINE k == h.cell[c].block
           w == h.cell[c].words
           v == h.cell[c].words + h.cell[c].n_words - 1
           f == Memory!Fill(h, k, w * WordSize, (w + 1) * WordSize, c)
           g == Memory!Fill(f, k, v * WordSize, (v + 1) * WordSize, c)
<1>1. w \in Int /\ v \in Int /\ c \in Int /\ v = End(h, c) - 1
    BY CellType DEF End
<1>2. w * WordSize \in Int /\ (w + 1) * WordSize \in Int
      /\ v * WordSize \in Int /\ (v + 1) * WordSize \in Int
    BY <1>1, WordStart
<1>3. Memory!WriteGuards(h, c) = g
    BY DEF Memory!WriteGuards
<1>4. Filled(h, f, k, w * WordSize, (w + 1) * WordSize, c)
    BY <1>1, <1>2, FillFills
<1>5. f \in HeapRec
    BY <1>4 DEF Filled
<1>6. Filled(f, g, k, v * WordSize, (v + 1) * WordSize, c)
    BY <1>1, <1>2, <1>5, FillFills
<1> HIDE DEF f, g
<1>7. SameShape(h, f) /\ SameShape(f, g) /\ g \in HeapRec
    BY <1>4, <1>6 DEF Filled
<1>8. SameShape(h, g)
    BY <1>7 DEF SameShape
<1>9. ASSUME NEW j \in Memory!Slot, NEW b \in Bytes
      PROVE  g.mem[j][b] = IF j = k /\ IsGuard(h, c, b) THEN c ELSE h.mem[j][b]
    <2>1. f.mem[j][b] = IF j = k /\ InWord(b, w) THEN c ELSE h.mem[j][b]
        BY <1>4 DEF Filled, InWord
    <2>2. g.mem[j][b] = IF j = k /\ InWord(b, v) THEN c ELSE f.mem[j][b]
        BY <1>6 DEF Filled, InWord
    <2> QED BY <1>1, <2>1, <2>2 DEF IsGuard
<1> QED BY <1>3, <1>7, <1>8, <1>9 DEF Written

LEMMA WrittenTouches ==
    ASSUME NEW h, NEW g, NEW c, Written(h, g, c)
    PROVE  Touches(h, g, h.cell[c].block, {h.cell[c].words, End(h, c) - 1})
BY DEF Written, Touches, IsGuard

LEMMA TouchesOn ==
    ASSUME NEW f, NEW g, NEW h, NEW k, NEW V, NEW W, Touches(f, g, k, V), Touches(g, h, k, W)
    PROVE  Touches(f, h, k, V \union W)
BY DEF Touches

LEMMA GuardInBytes ==
    ASSUME NEW h \in HeapRec, Layout(h), BlocksOK(h), NEW c \in Memory!Item, IsLive(h, c),
           NEW b \in Int, IsGuard(h, c, b)
    PROVE  b \in Bytes
<1>1. 0 <= h.cell[c].words /\ h.cell[c].words + 2 < End(h, c) /\ End(h, c) <= SlotWords
      /\ h.cell[c].words \in Int /\ End(h, c) \in Int
    BY CellPlace, CellType
<1>2. h.cell[c].words \in 0 .. SlotWords - 1 /\ End(h, c) - 1 \in 0 .. SlotWords - 1
    BY <1>1, Sizes
<1> QED BY <1>2, WordInBytes DEF IsGuard

\* Byte b is one of those that cell c has between its guards.
IsInner(h, c, b) ==
    (h.cell[c].words + 1) * WordSize <= b /\ b < (End(h, c) - 1) * WordSize

LEMMA InnerByte ==
    ASSUME NEW h \in HeapRec, Layout(h), BlocksOK(h), NEW c \in Memory!Item, IsLive(h, c),
           NEW b \in Int, IsInner(h, c, b)
    PROVE  /\ b \in Bytes
           /\ \A w \in Int : InWord(b, w) => h.cell[c].words < w /\ w < End(h, c) - 1
<1> DEFINE v == h.cell[c].words
           e == End(h, c) - 1
<1>1. 0 <= v + 1 /\ e <= SlotWords /\ v \in Int /\ e \in Int /\ v + 1 \in Int
    BY CellPlace, CellType, Sizes
<1>2. 0 * WordSize <= (v + 1) * WordSize /\ e * WordSize <= SlotWords * WordSize
      /\ (v + 1) * WordSize \in Int /\ e * WordSize \in Int /\ SlotWords * WordSize \in Int
    BY <1>1, WordsOrdered, Sizes
<1>3. b \in Bytes
    BY <1>2, Sizes DEF IsInner, Bytes
<1>4. ASSUME NEW w \in Int, InWord(b, w) PROVE v < w /\ w < e
    <2>1. ASSUME w <= v PROVE FALSE
        <3>1. w + 1 <= v + 1 /\ w + 1 \in Int
            BY <1>1, <2>1
        <3>2. (w + 1) * WordSize <= (v + 1) * WordSize /\ (w + 1) * WordSize \in Int
            BY <1>1, <3>1, WordsOrdered
        <3> QED BY <1>2, <1>4, <3>2 DEF InWord, IsInner
    <2>2. ASSUME e <= w PROVE FALSE
        <3>1. e * WordSize <= w * WordSize /\ w * WordSize \in Int
            BY <1>1, <2>2, WordsOrdered
        <3> QED BY <1>2, <1>4, <3>1 DEF InWord, IsInner
    <2> QED BY <1>1, <2>1, <2>2
<1> QED BY <1>3, <1>4

LEMMA FirstIs ==
    ASSUME NEW h \in HeapRec, NEW c \in Memory!Item
    PROVE  /\ Memory!First(h, c) = (h.cell[c].words + 1) * WordSize /\ Memory!First(h, c) \in Int
           /\ (h.cell[c].words + 1) * WordSize + (h.cell[c].n_words - 2) * WordSize
                  = (End(h, c) - 1) * WordSize
<1>1. h.cell[c].words \in Int /\ h.cell[c].n_words \in Int
    BY CellType
<1>2. \A x, y \in Int : x * WordSize + y * WordSize = (x + y) * WordSize
    BY Sizes
<1>3. (h.cell[c].words + 1) + (h.cell[c].n_words - 2) = End(h, c) - 1
    BY <1>1 DEF End
<1>4. h.cell[c].words + 1 \in Int /\ h.cell[c].n_words - 2 \in Int
    BY <1>1
<1>5. (h.cell[c].words + 1) * WordSize \in Int
    BY <1>4, Sizes
<1> DEFINE x == h.cell[c].words + 1
           y == h.cell[c].n_words - 2
<1>6. x \in Int /\ y \in Int /\ x + y = End(h, c) - 1
    BY <1>3, <1>4
<1> HIDE DEF x, y
<1>7. x * WordSize + y * WordSize = (End(h, c) - 1) * WordSize
    BY <1>2, <1>6
<1> QED BY <1>5, <1>7 DEF Memory!First, x, y

\* What was asked for is between the guards.
LEMMA RequestedIsInner ==
    ASSUME NEW h \in HeapRec, Layout(h), BlocksOK(h), NEW c \in Memory!Item, IsLive(h, c),
           NEW b \in Int, Memory!First(h, c) <= b, b < Memory!First(h, c) + h.cell[c].requested
    PROVE  IsInner(h, c, b)
<1>1. h.cell[c].requested <= (h.cell[c].n_words - 2) * WordSize
    BY CellPlace DEF CellOK
<1>2. (h.cell[c].n_words - 2) * WordSize \in Int /\ h.cell[c].requested \in Int
    BY CellType, Sizes
<1> QED BY <1>1, <1>2, FirstIs DEF IsInner

\* A cell keeps its guards when other words are written to, ...
LEMMA GuardsKept ==
    ASSUME NEW h \in HeapRec, Layout(h), BlocksOK(h), NEW c \in Memory!Item, IsLive(h, c),
           NEW g, NEW k, NEW W, W \subseteq Int, Touches(h, g, k, W),
           g.cell[c].block = h.cell[c].block, g.cell[c].words = h.cell[c].words,
           End(g, c) = End(h, c),
           h.cell[c].block = k => h.cell[c].words \notin W /\ End(h, c) - 1 \notin W
    PROVE  HasGuards(g, c)
<1> SUFFICES ASSUME NEW b \in Int, IsGuard(g, c, b)
             PROVE  g.mem[g.cell[c].block][b] = c
    BY DEF HasGuards
<1>1. IsGuard(h, c, b)
    BY DEF IsGuard
<1>2. b \in Bytes /\ h.cell[c].block \in Memory!Slot
    BY <1>1, GuardInBytes, CellPlace
<1>3. h.mem[h.cell[c].block][b] = c
    BY <1>1, CellPlace DEF HasGuards
<1>4. ASSUME h.cell[c].block = k, NEW w \in W, InWord(b, w) PROVE FALSE
    <2>1. h.cell[c].words \in Int /\ End(h, c) - 1 \in Int
        BY CellType
    <2>2. w = h.cell[c].words \/ w = End(h, c) - 1
        BY <1>1, <1>4, <2>1, OneWord DEF IsGuard
    <2> QED BY <1>4, <2>2
<1> QED BY <1>2, <1>3, <1>4 DEF Touches

\* ... and what the program has there.
LEMMA BytesKept ==
    ASSUME NEW h \in HeapRec, Layout(h), BlocksOK(h), NEW c \in Memory!Item, IsLive(h, c),
           NEW g, NEW k, NEW W, W \subseteq Int, Touches(h, g, k, W),
           h.cell[c].block = k =>
               \A w \in W : ~(h.cell[c].words < w /\ w < End(h, c) - 1)
    PROVE  SameBytes(h, g, c)
<1> SUFFICES ASSUME NEW b \in Int, Memory!First(h, c) <= b,
                    b < Memory!First(h, c) + h.cell[c].requested
             PROVE  g.mem[h.cell[c].block][b] = h.mem[h.cell[c].block][b]
    BY DEF SameBytes
<1>1. IsInner(h, c, b)
    BY RequestedIsInner
<1>2. b \in Bytes /\ h.cell[c].block \in Memory!Slot
    BY <1>1, InnerByte, CellPlace
<1>3. \A w \in W : InWord(b, w) => h.cell[c].words < w /\ w < End(h, c) - 1
    BY <1>1, InnerByte
<1> QED BY <1>2, <1>3 DEF Touches

-----------------------------------------------------------------------------
(* Pools.                                                                  *)

LEMMA PoolsApart ==
    ASSUME NEW p \in Memory!Pool
    PROVE  /\ Memory!ItemsOf(p) \subseteq Memory!Item /\ Memory!ItemsOf(p) # {}
           /\ \A q \in Memory!Pool : \A x \in Memory!ItemsOf(p) : x \in Memory!ItemsOf(q) => p = q
<1> DEFINE I == PoolItems
<1>1. p \in Nat /\ p >= 1 /\ p <= PoolCount /\ I \in Nat /\ I >= 1 /\ PoolCount \in Nat
    BY Sizes DEF Memory!Pool
<1> HIDE DEF I
<1>2. \A a, b \in Nat : a <= b => a * I <= b * I /\ a * I \in Nat /\ b * I \in Nat
    <2> SUFFICES ASSUME NEW a \in Nat, NEW b \in Nat, a <= b
                 PROVE  a * I <= b * I /\ a * I \in Nat /\ b * I \in Nat
        OBVIOUS
    <2>1. b - a \in Nat
        OBVIOUS
    <2>2. (b - a) * I \in Nat /\ (b - a) * I = b * I - a * I
        BY <1>1, <2>1
    <2> QED BY <1>1, <2>2
<1>3. (p - 1) * I \in Nat /\ p * I = (p - 1) * I + I /\ p * I <= PoolCount * I
      /\ PoolCount * I \in Nat /\ p * I \in Nat
    <2>1. p - 1 \in Nat
        BY <1>1
    <2>2. p * I = (p - 1) * I + I
        BY <1>1
    <2> QED BY <1>1, <1>2, <2>1, <2>2
<1>4. Memory!ItemsOf(p) = (p - 1) * I + 1 .. p * I
    BY DEF Memory!ItemsOf, I
<1>5. PoolCount * I = PoolItems * PoolCount
    BY <1>1 DEF I
<1>6. Memory!Item = 1 .. PoolCount * I
    BY <1>5 DEF Memory!Item
<1>7. Memory!ItemsOf(p) \subseteq Memory!Item
    BY <1>3, <1>4, <1>6
<1>8. p * I \in Memory!ItemsOf(p)
    BY <1>1, <1>3, <1>4
<1>9. ASSUME NEW q \in Memory!Pool, NEW x \in Memory!ItemsOf(p), x \in Memory!ItemsOf(q)
      PROVE  p = q
    <2>1. q \in Nat /\ q >= 1
        BY DEF Memory!Pool
    <2>2. Memory!ItemsOf(q) = (q - 1) * I + 1 .. q * I
        BY DEF Memory!ItemsOf, I
    <2>3. q - 1 \in Nat /\ (q - 1) * I \in Nat /\ q * I \in Nat
        BY <1>2, <2>1
    <2>4. x \in Int /\ (p - 1) * I + 1 <= x /\ x <= p * I /\ (q - 1) * I + 1 <= x /\ x <= q * I
        BY <1>3, <1>4, <1>9, <2>2, <2>3
    <2>5. ASSUME p <= q - 1 PROVE FALSE
        BY <1>1, <1>2, <1>3, <2>3, <2>4, <2>5
    <2>6. ASSUME q <= p - 1 PROVE FALSE
        <3>1. p - 1 \in Nat
            BY <1>1
        <3>2. q * I <= (p - 1) * I
            BY <1>2, <2>1, <2>6, <3>1
        <3> QED BY <1>3, <2>3, <2>4, <3>2
    <2> QED BY <1>1, <2>1, <2>5, <2>6
<1> QED BY <1>7, <1>8, <1>9

LEMMA DropLeaves ==
    ASSUME NEW S, NEW s \in Seq(S), NEW x
    PROVE  /\ Memory!Drop(s, x) \in Seq(S)
           /\ \A y \in Memory!Members(s) : y # x => y \in Memory!Members(Memory!Drop(s, x))
<1> DEFINE n == Len(s)
           T == {i \in 1 .. n : s[i] = x}
           at == Memory!Least(T)
           d == [i \in 1 .. n - 1 |-> IF i < at THEN s[i] ELSE s[i + 1]]
<1>1. n \in Nat /\ \A i \in 1 .. n : s[i] \in S
    OBVIOUS
<1>2. CASE x \notin Memory!Members(s)
    BY <1>2 DEF Memory!Drop
<1>3. CASE x \in Memory!Members(s)
    <2>1. Memory!Drop(s, x) = d
        BY <1>3 DEF Memory!Drop
    <2>2. T # {} /\ T \subseteq Nat
        BY <1>1, <1>3 DEF Memory!Members
    <2>3. at \in T
        BY <2>2, LeastIs
    <2> HIDE DEF at
    <2>4. at \in 1 .. n /\ s[at] = x
        BY <2>3
    <2>5. n - 1 \in Nat /\ \A i \in 1 .. n - 1 : d[i] \in S
        BY <1>1, <2>4
    <2>6. d \in Seq(S) /\ Len(d) = n - 1
        BY <2>5
    <2>7. ASSUME NEW y \in Memory!Members(s), y # x PROVE \E i \in 1 .. n - 1 : d[i] = y
        <3>1. PICK j \in 1 .. n : s[j] = y
            BY DEF Memory!Members
        <3>2. CASE j < at
            BY <1>1, <2>4, <3>1, <3>2
        <3>3. CASE j > at
            <4>1. j - 1 \in 1 .. n - 1 /\ ~(j - 1 < at) /\ (j - 1) + 1 = j
                BY <1>1, <2>4, <3>3
            <4>2. d[j - 1] = y
                BY <3>1, <4>1
            <4> QED BY <4>1, <4>2
        <3>4. j # at
            BY <2>4, <2>7, <3>1
        <3> QED BY <1>1, <2>4, <3>2, <3>3, <3>4
    <2> HIDE DEF d
    <2> QED BY <2>1, <2>6, <2>7 DEF Memory!Members
<1> QED BY <1>2, <1>3

LEMMA ConsMembers ==
    ASSUME NEW S, NEW s \in Seq(S), NEW x \in S
    PROVE  /\ <<x>> \o s \in Seq(S) /\ Len(<<x>> \o s) = Len(s) + 1 /\ (<<x>> \o s)[1] = x
           /\ \A i \in 1 .. Len(s) : (<<x>> \o s)[i + 1] = s[i]
           /\ Memory!Members(<<x>> \o s) = Memory!Members(s) \union {x}
<1> DEFINE n == Len(s)
           r == <<x>> \o s
<1>1. n \in Nat /\ <<x>> \in Seq(S) /\ Len(<<x>>) = 1 /\ <<x>>[1] = x
    OBVIOUS
<1>2. r \in Seq(S) /\ Len(r) = n + 1
    BY <1>1
<1>3. r[1] = x
    BY <1>1
<1>4. ASSUME NEW i \in 1 .. n PROVE r[i + 1] = s[i]
    <2>1. i + 1 \in 2 .. n + 1 /\ (i + 1) - 1 = i
        BY <1>1
    <2> QED BY <1>1, <2>1
<1> HIDE DEF r
<1>5. ASSUME NEW y \in Memory!Members(r) PROVE y \in Memory!Members(s) \union {x}
    <2>1. PICK i \in 1 .. n + 1 : r[i] = y
        BY <1>2 DEF Memory!Members
    <2>2. CASE i = 1
        BY <1>3, <2>1, <2>2
    <2>3. CASE i # 1
        <3>1. i - 1 \in 1 .. n /\ (i - 1) + 1 = i
            BY <1>1, <2>3
        <3>2. s[i - 1] = y
            BY <1>4, <2>1, <3>1
        <3> QED BY <3>1, <3>2 DEF Memory!Members
    <2> QED BY <2>2, <2>3
<1>6. ASSUME NEW y \in Memory!Members(s) PROVE y \in Memory!Members(r)
    <2>1. PICK i \in 1 .. n : s[i] = y
        BY DEF Memory!Members
    <2>2. i + 1 \in 1 .. n + 1 /\ r[i + 1] = y
        BY <1>1, <1>4, <2>1
    <2> QED BY <1>2, <2>2 DEF Memory!Members
<1>7. x \in Memory!Members(r)
    <2>1. 1 \in 1 .. n + 1
        BY <1>1
    <2> QED BY <1>2, <1>3, <2>1 DEF Memory!Members
<1>8. Memory!Members(r) = Memory!Members(s) \union {x}
    BY <1>5, <1>6, <1>7
<1> QED BY <1>2, <1>3, <1>4, <1>8 DEF r

\* Nothing but cells, pools and what is taken may differ.
Alike(h, g) ==
    /\ g.blocks = h.blocks /\ g.n_words = h.n_words /\ g.header = h.header
    /\ g.used = h.used /\ g.unused = h.unused /\ g.mem = h.mem

PoolTook(h, g, x) ==
    /\ g \in HeapRec /\ Alike(h, g) /\ PoolsHold(g)
    /\ g.taken = h.taken \union {x} /\ x \in Memory!Item \ h.taken
    /\ g.cell[x].block = 0
    /\ \A c \in Memory!Item \ {x} : g.cell[c] = h.cell[c]

PoolGave(h, g, x) ==
    /\ g \in HeapRec /\ Alike(h, g) /\ PoolsHold(g)
    /\ g.taken = h.taken \ {x}
    /\ g.cell[x].block = 0
    /\ \A c \in Memory!Item \ {x} : g.cell[c] = h.cell[c]

LEMMA NoCellIs == Memory!NoCell \in CellRec /\ Memory!NoCell.block = 0
BY DEF Memory!NoCell, CellRec

\* pool_alloc gives out an item that nothing has, or nothing.
LEMMA PoolAllocTakes ==
    ASSUME NEW h \in HeapRec, PoolsHold(h)
    PROVE  LET r == Memory!PoolAlloc(h)
           IN  (r.item = 0 /\ r.h = h) \/ PoolTook(h, r.h, r.item)
<1> DEFINE with == {i \in 1 .. Len(h.pools) : Memory!ItemsOf(h.pools[i]) \ h.taken # {}}
           fresh == Memory!Pool \ Memory!Members(h.pools)
           item(p) == Memory!Least(Memory!ItemsOf(p) \ h.taken)
           take(g, p) == [h |-> [g EXCEPT !.taken = @ \union {item(p)},
                                          !.cell[item(p)] = Memory!NoCell],
                          item |-> item(p)]
           r == Memory!PoolAlloc(h)
<1>1. h.pools \in Seq(Memory!Pool) /\ h.taken \subseteq Memory!Item
    BY DEF HeapRec
<1>2. ASSUME NEW g \in HeapRec, Alike(h, g), g.taken = h.taken, g.cell = h.cell,
             NEW p \in Memory!Members(g.pools), Memory!ItemsOf(p) \ h.taken # {},
             Memory!Members(h.pools) \subseteq Memory!Members(g.pools),
             r = take(g, p)
      PROVE  PoolTook(h, r.h, r.item)
    <2>1. p \in Memory!Pool
        <3>1. g.pools \in Seq(Memory!Pool)
            BY <1>2 DEF HeapRec
        <3> QED BY <3>1 DEF Memory!Members
    <2>2. Memory!ItemsOf(p) \subseteq Memory!Item
        BY <2>1, PoolsApart
    <2> DEFINE x == item(p)
               f == [g EXCEPT !.taken = @ \union {x}, !.cell[x] = Memory!NoCell]
    <2>3. Memory!ItemsOf(p) \ h.taken \subseteq Nat
        <3>1. \A y \in Memory!Item : y \in Nat
            BY DEF Memory!Item
        <3> QED BY <2>2, <3>1
    <2>4. x \in Memory!ItemsOf(p) \ h.taken
        BY <1>2, <2>3, LeastIs
    <2>5. r.h = f /\ r.item = x
        BY <1>2
    <2> HIDE DEF x
    <2>6. x \in Memory!Item \ h.taken
        BY <2>2, <2>4
    <2>7. f = [[g EXCEPT !.taken = @ \union {x}] EXCEPT !.cell = [@ EXCEPT ![x] = Memory!NoCell]]
        OBVIOUS
    <2>8. /\ f \in HeapRec /\ f.taken = g.taken \union {x}
          /\ f.cell = [g.cell EXCEPT ![x] = Memory!NoCell] /\ f.pools = g.pools
          /\ Alike(g, f)
        BY <1>2, <2>6, <2>7, NoCellIs DEF HeapRec, Alike
    <2> HIDE DEF f
    <2>9. Alike(h, f) /\ f.taken = h.taken \union {x}
        BY <1>2, <2>8 DEF Alike
    <2>10. f.cell[x].block = 0 /\ \A c \in Memory!Item \ {x} : f.cell[c] = h.cell[c]
        BY <1>2, <2>6, <2>8, NoCellIs DEF HeapRec
    <2>11. PoolsHold(f)
        BY <1>2, <2>4, <2>8, <2>9 DEF PoolsHold
    <2> QED BY <2>5, <2>6, <2>8, <2>9, <2>10, <2>11 DEF PoolTook
<1>3. CASE with # {}
    <2> DEFINE i == Memory!Least(with)
               p == h.pools[i]
    <2>1. with \subseteq Nat
        BY <1>1
    <2>2. i \in with
        BY <1>3, <2>1, LeastIs
    <2>3. r = take(h, p)
        BY <1>3 DEF Memory!PoolAlloc
    <2> HIDE DEF i
    <2>4. p \in Memory!Members(h.pools) /\ Memory!ItemsOf(p) \ h.taken # {}
        BY <2>2 DEF Memory!Members
    <2>5. Alike(h, h)
        BY DEF Alike
    <2> HIDE DEF p, r, take
    <2>6. PoolTook(h, r.h, r.item)
        BY <1>2, <2>3, <2>4, <2>5
    <2> QED BY <2>6 DEF r
<1>4. CASE with = {} /\ fresh # {}
    <2> DEFINE p == Memory!Least(fresh)
               g == [h EXCEPT !.pools = <<p>> \o @]
    <2>1. fresh \subseteq Nat
        BY DEF Memory!Pool
    <2>2. p \in Memory!Pool \ Memory!Members(h.pools)
        BY <1>4, <2>1, LeastIs
    <2>3. r = take(g, p)
        BY <1>4 DEF Memory!PoolAlloc
    <2> HIDE DEF p
    <2>4. <<p>> \o h.pools \in Seq(Memory!Pool)
          /\ Memory!Members(<<p>> \o h.pools) = Memory!Members(h.pools) \union {p}
        BY <1>1, <2>2, ConsMembers
    <2>5. /\ g \in HeapRec /\ Alike(h, g) /\ g.taken = h.taken /\ g.cell = h.cell
          /\ g.pools = <<p>> \o h.pools
        BY <2>4 DEF HeapRec, Alike
    <2>6. Memory!ItemsOf(p) \ h.taken # {}
        <3>1. PICK x \in Memory!ItemsOf(p) : TRUE
            BY <2>2, PoolsApart
        <3>2. ASSUME x \in h.taken PROVE FALSE
            <4>1. PICK q \in Memory!Members(h.pools) : x \in Memory!ItemsOf(q)
                BY <3>2 DEF PoolsHold
            <4>2. q \in Memory!Pool
                BY <1>1 DEF Memory!Members
            <4>3. p = q
                BY <2>2, <4>1, <4>2, PoolsApart
            <4> QED BY <2>2, <4>3
        <3> QED BY <3>1, <3>2
    <2>7. p \in Memory!Members(g.pools) /\ Memory!Members(h.pools) \subseteq Memory!Members(g.pools)
        BY <2>4, <2>5
    <2> HIDE DEF g, r, take
    <2>8. PoolTook(h, r.h, r.item)
        BY <1>2, <2>3, <2>5, <2>6, <2>7
    <2> QED BY <2>8 DEF r
<1>5. CASE with = {} /\ fresh = {}
    <2>1. r = [h |-> h, item |-> 0]
        BY <1>5 DEF Memory!PoolAlloc
    <2> QED BY <2>1
<1> QED BY <1>3, <1>4, <1>5

\* pool_free keeps the pools of all other items.
LEMMA PoolFreeGives ==
    ASSUME NEW h \in HeapRec, PoolsHold(h), NEW x \in Memory!Item
    PROVE  PoolGave(h, Memory!PoolFree(h, x), x)
<1> DEFINE p == Memory!PoolOf(x)
           last == h.taken \intersect Memory!ItemsOf(p) = {x}
           pools == IF last THEN Memory!Drop(h.pools, p) ELSE h.pools
           g == [h EXCEPT !.taken = h.taken \ {x}, !.cell = [h.cell EXCEPT ![x] = Memory!NoCell],
                          !.pools = pools]
<1>1. Memory!PoolFree(h, x) = g
    BY DEF Memory!PoolFree
<1>2. h.pools \in Seq(Memory!Pool)
    BY DEF HeapRec
<1>3. pools \in Seq(Memory!Pool)
    BY <1>2, DropLeaves
<1>4. \A q \in Memory!Members(h.pools) : q \in Memory!Members(pools) \/ (last /\ q = p)
    BY <1>2, DropLeaves
<1> HIDE DEF p, pools
<1>5. /\ g \in HeapRec /\ Alike(h, g) /\ g.taken = h.taken \ {x} /\ g.pools = pools
      /\ g.cell = [h.cell EXCEPT ![x] = Memory!NoCell]
    BY <1>3, NoCellIs DEF HeapRec, Alike
<1> HIDE DEF g
<1>6. g.cell[x].block = 0 /\ \A c \in Memory!Item \ {x} : g.cell[c] = h.cell[c]
    BY <1>5, NoCellIs DEF HeapRec
<1>7. ASSUME NEW y \in g.taken PROVE \E q \in Memory!Members(g.pools) : y \in Memory!ItemsOf(q)
    <2>1. y \in h.taken /\ y # x
        BY <1>5
    <2>2. PICK q \in Memory!Members(h.pools) : y \in Memory!ItemsOf(q)
        BY <2>1 DEF PoolsHold
    <2>3. ~(last /\ q = p)
        BY <2>1, <2>2
    <2> QED BY <1>4, <1>5, <2>2, <2>3
<1> QED BY <1>1, <1>5, <1>6, <1>7 DEF PoolGave, PoolsHold

-----------------------------------------------------------------------------
(* Heaps that differ in what is no cell.                                   *)

\* The cells of both are the same, in the same rings and with the same in them.
SameCells(h, g) ==
    /\ g \in HeapRec /\ Alike(h, g)
    /\ \A c \in Memory!Item : \/ g.cell[c] = h.cell[c] /\ (IsLive(h, c) => c \in g.taken)
                              \/ ~IsLive(h, c) /\ ~IsLive(g, c)

LEMMA SameCellsLayout ==
    ASSUME NEW h \in HeapRec, Layout(h), NEW g, SameCells(h, g)
    PROVE  Layout(g) /\ Keeps(h, g, {}) /\ \A x : RingsBut(h, x) => RingsBut(g, x)
<1>1. \A c \in Memory!Item :
          /\ IsLive(g, c) <=> IsLive(h, c)
          /\ IsLive(h, c) => g.cell[c] = h.cell[c] /\ c \in g.taken
    BY DEF SameCells, IsLive
<1>2. g.blocks = h.blocks /\ g.n_words = h.n_words /\ g.mem = h.mem
      /\ g.used = h.used /\ g.unused = h.unused
    BY DEF SameCells, Alike
<1>3. CellsOK(g)
    BY <1>1, <1>2 DEF Layout, CellsOK, CellOK, InBlocks, End
<1>4. Apart(g)
    <2> SUFFICES ASSUME NEW c \in Memory!Item, NEW d \in Memory!Item, c # d, IsLive(g, c),
                        g.cell[c].block = g.cell[d].block
                 PROVE  End(g, c) <= g.cell[d].words \/ End(g, d) <= g.cell[c].words
        BY DEF Apart
    <2>1. IsLive(g, d)
        BY DEF IsLive
    <2>2. g.cell[c] = h.cell[c] /\ g.cell[d] = h.cell[d] /\ IsLive(h, c)
        BY <1>1, <2>1
    <2> QED BY <2>2 DEF Layout, Apart, End
<1>5. Covered(g)
    <2> SUFFICES ASSUME NEW k \in Memory!Slot, InBlocks(g, k), NEW w \in Int, 0 <= w, w < g.n_words[k]
                 PROVE  \E c \in Memory!Item : HasWord(g, c, k, w)
        BY DEF Covered
    <2>1. PICK c \in Memory!Item : HasWord(h, c, k, w)
        BY <1>2 DEF Layout, Covered, InBlocks
    <2>2. k # 0
        BY DEF Memory!Slot
    <2>3. g.cell[c] = h.cell[c]
        BY <1>1, <2>1, <2>2 DEF HasWord, IsLive
    <2> QED BY <2>1, <2>3 DEF HasWord, End
<1>6. GuardsStand(g)
    BY <1>1, <1>2 DEF Layout, GuardsStand, HasGuards, IsGuard, End
<1>7. Keeps(h, g, {})
    <2> SUFFICES ASSUME NEW c \in Memory!Item PROVE KeepsCell(h, g, c)
        BY DEF Keeps
    <2>1. CASE IsLive(h, c)
        BY <1>1, <1>2, <2>1 DEF KeepsCell, IsUsed, IsLive, SameBytes
    <2>2. CASE ~IsLive(h, c)
        BY <1>1, <2>2 DEF KeepsCell, IsUsed
    <2> QED BY <2>1, <2>2
<1>8. ASSUME NEW x, RingsBut(h, x) PROVE RingsBut(g, x)
    <2> SUFFICES ASSUME NEW k \in Memory!Slot
                 PROVE  /\ Ring(g.used[k], {c \in Memory!Item : g.cell[c].block = k
                                              /\ g.cell[c].requested # 0 /\ c # x})
                        /\ Ring(g.unused[k], {c \in Memory!Item : g.cell[c].block = k
                                                /\ g.cell[c].requested = 0 /\ c # x})
        BY DEF RingsBut
    <2>1. k # 0
        BY DEF Memory!Slot
    <2>2. \A c \in Memory!Item : /\ g.cell[c].block = k <=> h.cell[c].block = k
                                 /\ h.cell[c].block = k => g.cell[c] = h.cell[c]
        BY <1>1, <2>1 DEF IsLive
    <2>3. {c \in Memory!Item : g.cell[c].block = k /\ g.cell[c].requested # 0 /\ c # x} =
          {c \in Memory!Item : h.cell[c].block = k /\ h.cell[c].requested # 0 /\ c # x}
        BY <2>2
    <2>4. {c \in Memory!Item : g.cell[c].block = k /\ g.cell[c].requested = 0 /\ c # x} =
          {c \in Memory!Item : h.cell[c].block = k /\ h.cell[c].requested = 0 /\ c # x}
        BY <2>2
    <2> QED BY <1>2, <1>8, <2>3, <2>4 DEF RingsBut
<1> QED BY <1>3, <1>4, <1>5, <1>6, <1>7, <1>8 DEF Layout

LEMMA TookIsGood ==
    ASSUME NEW h, NEW x, NEW X, Good(h, x, X), NEW g, NEW i, PoolTook(h, g, i)
    PROVE  Good(g, x, X \union {i}) /\ Keeps(h, g, {})
<1>1. h \in HeapRec /\ Layout(h) /\ BlocksOK(h) /\ RingsBut(h, x) /\ TakenBut(h, X)
    BY DEF Good
<1>2. i \in Memory!Item /\ i \notin h.taken /\ g \in HeapRec /\ Alike(h, g) /\ PoolsHold(g)
      /\ g.taken = h.taken \union {i} /\ ~IsLive(g, i)
      /\ \A c \in Memory!Item \ {i} : g.cell[c] = h.cell[c]
    BY DEF PoolTook, IsLive
<1>3. ~IsLive(h, i)
    BY <1>1, <1>2 DEF Layout, CellsOK, CellOK
<1>4. \A c \in Memory!Item : IsLive(h, c) => c \in h.taken
    BY <1>1 DEF Layout, CellsOK, CellOK
<1>5. SameCells(h, g)
    BY <1>2, <1>3, <1>4 DEF SameCells
<1>6. Layout(g) /\ Keeps(h, g, {}) /\ RingsBut(g, x)
    BY <1>1, <1>5, SameCellsLayout
<1>7. g.blocks = h.blocks /\ g.n_words = h.n_words /\ g.header = h.header
    BY <1>2 DEF Alike
<1>8. \A c \in Memory!Item : IsLive(g, c) <=> IsLive(h, c)
    BY <1>2, <1>3 DEF IsLive
<1>9. h.taken \subseteq Memory!Item
    BY <1>1 DEF HeapRec
<1>10. BlocksOK(g)
    BY <1>1, <1>2, <1>7, <1>8, <1>9 DEF BlocksOK, InBlocks
<1>11. TakenBut(g, X \union {i})
    <2>1. ASSUME NEW y \in g.taken
          PROVE  \/ IsLive(g, y) \/ y \in X \union {i}
                 \/ \E k \in Memory!Slot : InBlocks(g, k) /\ g.header[k] = y
        <3>1. CASE y = i
            BY <3>1
        <3>2. CASE y # i
            BY <1>1, <1>2, <1>7, <1>8, <1>9, <2>1, <3>2 DEF TakenBut, InBlocks
        <3> QED BY <3>1, <3>2
    <2>2. ASSUME NEW y \in X \union {i}
          PROVE  /\ y \in g.taken /\ ~IsLive(g, y)
                 /\ \A k \in Memory!Slot : InBlocks(g, k) => g.header[k] # y
        <3>1. CASE y = i
            BY <1>1, <1>2, <1>7, <3>1 DEF BlocksOK, InBlocks
        <3>2. CASE y # i
            BY <1>1, <1>2, <1>7, <1>8, <1>9, <2>2, <3>2 DEF TakenBut, InBlocks
        <3> QED BY <3>1, <3>2
    <2> QED BY <2>1, <2>2 DEF TakenBut
<1> QED BY <1>2, <1>6, <1>10, <1>11 DEF Good

LEMMA GaveIsGood ==
    ASSUME NEW h, NEW x, NEW X, Good(h, x, X), NEW g, NEW i \in X, PoolGave(h, g, i)
    PROVE  Good(g, x, X \ {i}) /\ Keeps(h, g, {})
<1>1. h \in HeapRec /\ Layout(h) /\ BlocksOK(h) /\ RingsBut(h, x) /\ TakenBut(h, X)
    BY DEF Good
<1>2. g \in HeapRec /\ Alike(h, g) /\ PoolsHold(g)
      /\ g.taken = h.taken \ {i} /\ ~IsLive(g, i)
      /\ \A c \in Memory!Item \ {i} : g.cell[c] = h.cell[c]
    BY DEF PoolGave, IsLive
<1>3. ~IsLive(h, i) /\ i \in h.taken /\ \A k \in Memory!Slot : InBlocks(h, k) => h.header[k] # i
    BY <1>1 DEF TakenBut
<1>4. \A c \in Memory!Item : IsLive(h, c) => c \in g.taken
    BY <1>1, <1>2, <1>3 DEF Layout, CellsOK, CellOK
<1>5. SameCells(h, g)
    BY <1>2, <1>3, <1>4 DEF SameCells
<1>6. Layout(g) /\ Keeps(h, g, {}) /\ RingsBut(g, x)
    BY <1>1, <1>5, SameCellsLayout
<1>7. g.blocks = h.blocks /\ g.n_words = h.n_words /\ g.header = h.header
    BY <1>2 DEF Alike
<1>8. \A c \in Memory!Item : IsLive(g, c) <=> IsLive(h, c)
    BY <1>2, <1>3 DEF IsLive
<1>9. h.taken \subseteq Memory!Item
    BY <1>1 DEF HeapRec
<1>10. BlocksOK(g)
    BY <1>1, <1>2, <1>3, <1>7, <1>8, <1>9 DEF BlocksOK, InBlocks
<1>11. TakenBut(g, X \ {i})
    <2>1. ASSUME NEW y \in g.taken
          PROVE  \/ IsLive(g, y) \/ y \in X \ {i}
                 \/ \E k \in Memory!Slot : InBlocks(g, k) /\ g.header[k] = y
        BY <1>1, <1>2, <1>7, <1>8, <1>9, <2>1 DEF TakenBut, InBlocks
    <2>2. ASSUME NEW y \in X \ {i}
          PROVE  /\ y \in g.taken /\ ~IsLive(g, y)
                 /\ \A k \in Memory!Slot : InBlocks(g, k) => g.header[k] # y
        BY <1>1, <1>2, <1>7, <1>8, <1>9, <2>2 DEF TakenBut, InBlocks
    <2> QED BY <2>1, <2>2 DEF TakenBut
<1> QED BY <1>2, <1>6, <1>10, <1>11 DEF Good

-----------------------------------------------------------------------------
(* Cells that share the words of two neighbours out anew.                  *)

Within(h, c, k, lo, hi) == h.cell[c].block = k /\ lo <= h.cell[c].words /\ End(h, c) <= hi

\* The words from lo to hi of block k were those of a and b, and are theirs again.
Redivides(h, g, a, b, k, lo, hi, W) ==
    /\ h \in HeapRec /\ Layout(h) /\ BlocksOK(h) /\ g \in HeapRec
    /\ a \in Memory!Item /\ b \in Memory!Item /\ k \in Memory!Slot /\ lo \in Int /\ hi \in Int
    /\ g.blocks = h.blocks /\ g.n_words = h.n_words
    /\ \A c \in Memory!Item \ {a, b} :
          /\ g.cell[c] = h.cell[c] /\ (IsLive(h, c) => c \in g.taken)
          /\ h.cell[c].block = k => End(h, c) <= lo \/ hi <= h.cell[c].words
    /\ W \subseteq Int /\ Touches(h, g, k, W) /\ \A w \in W : lo <= w /\ w < hi
    /\ \A c \in {a, b} : IsLive(h, c) => Within(h, c, k, lo, hi)
    /\ \A c \in {a, b} : IsLive(g, c) => Within(g, c, k, lo, hi) /\ CellOK(g, c) /\ HasGuards(g, c)
    /\ \A w \in Int : lo <= w /\ w < hi => HasWord(g, a, k, w) \/ HasWord(g, b, k, w)
    /\ IsLive(g, a) /\ IsLive(g, b) =>
          End(g, a) <= g.cell[b].words \/ End(g, b) <= g.cell[a].words

LEMMA RedividedLayout ==
    ASSUME NEW h, NEW g, NEW a, NEW b, NEW k, NEW lo, NEW hi, NEW W,
           Redivides(h, g, a, b, k, lo, hi, W)
    PROVE  Layout(g) /\ Keeps(h, g, {a, b})
<1>1. h \in HeapRec /\ Layout(h) /\ BlocksOK(h) /\ g \in HeapRec /\ k \in Memory!Slot
      /\ a \in Memory!Item /\ b \in Memory!Item /\ lo \in Int /\ hi \in Int
      /\ g.blocks = h.blocks /\ g.n_words = h.n_words
    BY DEF Redivides
<1>2. W \subseteq Int /\ Touches(h, g, k, W) /\ \A w \in W : lo <= w /\ w < hi
    BY DEF Redivides
<1>3. ASSUME NEW c \in Memory!Item \ {a, b}
      PROVE  /\ g.cell[c] = h.cell[c] /\ (IsLive(h, c) => c \in g.taken)
             /\ h.cell[c].block = k => End(h, c) <= lo \/ hi <= h.cell[c].words
             /\ End(g, c) = End(h, c) /\ (IsLive(g, c) <=> IsLive(h, c))
    BY DEF Redivides, End, IsLive
<1>4. ASSUME NEW c \in {a, b}
      PROVE  /\ IsLive(h, c) => Within(h, c, k, lo, hi)
             /\ IsLive(g, c) => Within(g, c, k, lo, hi) /\ CellOK(g, c) /\ HasGuards(g, c)
    BY DEF Redivides
<1>5. ASSUME NEW c \in Memory!Item \ {a, b}, IsLive(h, c), h.cell[c].block = k, NEW w \in W
      PROVE  ~(h.cell[c].words <= w /\ w < End(h, c))
    <2>1. h.cell[c].words \in Int /\ End(h, c) \in Int /\ w \in Int
        BY <1>1, <1>2, CellType
    <2> QED BY <1>1, <1>2, <1>3, <1>5, <2>1
<1>6. ASSUME NEW c \in Memory!Item \ {a, b}, IsLive(h, c)
      PROVE  HasGuards(g, c) /\ SameBytes(h, g, c)
    <2>1. h.cell[c].words \in Int /\ End(h, c) \in Int /\ h.cell[c].words + 2 < End(h, c)
        BY <1>1, <1>6, CellType, CellPlace
    <2>2. h.cell[c].block = k => h.cell[c].words \notin W /\ End(h, c) - 1 \notin W
        BY <1>5, <1>6, <2>1
    <2>3. h.cell[c].block = k => \A w \in W : ~(h.cell[c].words < w /\ w < End(h, c) - 1)
        BY <1>2, <1>5, <1>6, <2>1
    <2>4. HasGuards(g, c)
        BY <1>1, <1>2, <1>3, <1>6, <2>2, GuardsKept
    <2>5. SameBytes(h, g, c)
        BY <1>1, <1>2, <1>6, <2>3, BytesKept
    <2> QED BY <2>4, <2>5
<1>7. CellsOK(g)
    <2> SUFFICES ASSUME NEW c \in Memory!Item, IsLive(g, c) PROVE CellOK(g, c)
        BY DEF CellsOK
    <2>1. CASE c \in {a, b}
        BY <1>4, <2>1
    <2>2. CASE c \notin {a, b}
        <3>1. IsLive(h, c) /\ CellOK(h, c)
            BY <1>1, <1>3, <2>2 DEF Layout, CellsOK
        <3> QED BY <1>1, <1>3, <2>2, <3>1 DEF CellOK, InBlocks
    <2> QED BY <2>1, <2>2
<1>8. GuardsStand(g)
    BY <1>3, <1>4, <1>6 DEF GuardsStand
<1>9. Apart(g)
    <2> SUFFICES ASSUME NEW c \in Memory!Item, NEW d \in Memory!Item, c # d, IsLive(g, c),
                        g.cell[c].block = g.cell[d].block
                 PROVE  End(g, c) <= g.cell[d].words \/ End(g, d) <= g.cell[c].words
        BY DEF Apart
    <2>1. IsLive(g, d)
        BY DEF IsLive
    <2>2. /\ g.cell[c].words \in Int /\ End(g, c) \in Int
          /\ g.cell[d].words \in Int /\ End(g, d) \in Int
        BY <1>1, CellType
    <2>3. CASE c \in {a, b} /\ d \in {a, b}
        BY <2>1, <2>3 DEF Redivides
    <2>4. CASE c \in {a, b} /\ d \notin {a, b}
        BY <1>1, <1>3, <1>4, <2>2, <2>4 DEF Within
    <2>5. CASE c \notin {a, b} /\ d \in {a, b}
        BY <1>1, <1>3, <1>4, <2>1, <2>2, <2>5 DEF Within
    <2>6. CASE c \notin {a, b} /\ d \notin {a, b}
        <3>1. g.cell[c] = h.cell[c] /\ g.cell[d] = h.cell[d] /\ IsLive(h, c)
              /\ End(g, c) = End(h, c) /\ End(g, d) = End(h, d)
            BY <1>3, <2>6
        <3> QED BY <1>1, <3>1 DEF Layout, Apart
    <2> QED BY <2>3, <2>4, <2>5, <2>6
<1>10. Covered(g)
    <2> SUFFICES ASSUME NEW j \in Memory!Slot, InBlocks(g, j), NEW w \in Int, 0 <= w, w < g.n_words[j]
                 PROVE  \E c \in Memory!Item : HasWord(g, c, j, w)
        BY DEF Covered
    <2>1. PICK c \in Memory!Item : HasWord(h, c, j, w)
        BY <1>1 DEF Layout, Covered, InBlocks
    <2>2. j # 0 /\ IsLive(h, c)
        BY <2>1 DEF Memory!Slot, HasWord, IsLive
    <2>3. CASE c \in {a, b}
        <3>1. j = k /\ lo <= w /\ w < hi
            <4>1. Within(h, c, k, lo, hi)
                BY <1>4, <2>2, <2>3
            <4>2. h.cell[c].words \in Int /\ End(h, c) \in Int
                BY <1>1, CellType
            <4> QED BY <1>1, <2>1, <4>1, <4>2 DEF HasWord, Within
        <3>2. HasWord(g, a, k, w) \/ HasWord(g, b, k, w)
            BY <3>1 DEF Redivides
        <3> QED BY <1>1, <3>1, <3>2
    <2>4. CASE c \notin {a, b}
        BY <1>3, <2>1, <2>4 DEF HasWord
    <2> QED BY <2>3, <2>4
<1>11. Keeps(h, g, {a, b})
    <2> SUFFICES ASSUME NEW c \in Memory!Item \ {a, b} PROVE KeepsCell(h, g, c)
        BY DEF Keeps
    <2>1. IsUsed(g, c) <=> IsUsed(h, c)
        BY <1>3 DEF IsUsed
    <2>2. IsUsed(h, c) => SameBytes(h, g, c)
        BY <1>6 DEF IsUsed
    <2> QED BY <1>3, <2>1, <2>2 DEF KeepsCell
<1> QED BY <1>7, <1>8, <1>9, <1>10, <1>11 DEF Layout

-----------------------------------------------------------------------------
(* Rings that change, requests that change, and bytes that are written.    *)

RingMoved(h, g) ==
    /\ g \in HeapRec /\ g.blocks = h.blocks /\ g.n_words = h.n_words /\ g.header = h.header
    /\ g.cell = h.cell /\ g.pools = h.pools /\ g.taken = h.taken /\ g.mem = h.mem

LEMMA MovedIsGood ==
    ASSUME NEW h, NEW x, NEW X, Good(h, x, X), NEW g, RingMoved(h, g), NEW y, RingsBut(g, y)
    PROVE  Good(g, y, X) /\ Keeps(h, g, {})
<1>1. /\ g \in HeapRec /\ g.blocks = h.blocks /\ g.n_words = h.n_words /\ g.header = h.header
      /\ g.cell = h.cell /\ g.pools = h.pools /\ g.taken = h.taken /\ g.mem = h.mem
    BY DEF RingMoved
<1>2. Layout(g)
    BY <1>1 DEF Good, Layout, CellsOK, CellOK, Apart, Covered, HasWord, GuardsStand, HasGuards,
                IsGuard, InBlocks, IsLive, End
<1>3. BlocksOK(g) /\ TakenBut(g, X) /\ PoolsHold(g)
    BY <1>1 DEF Good, BlocksOK, TakenBut, PoolsHold, InBlocks, IsLive
<1>4. Keeps(h, g, {})
    BY <1>1 DEF Keeps, KeepsCell, IsUsed, IsLive, SameBytes
<1> QED BY <1>1, <1>2, <1>3, <1>4 DEF Good

UsedSet(h, k, x) == {c \in Memory!Item : h.cell[c].block = k /\ h.cell[c].requested # 0 /\ c # x}
UnusedSet(h, k, x) == {c \in Memory!Item : h.cell[c].block = k /\ h.cell[c].requested = 0 /\ c # x}

LEMMA RingsAre ==
    ASSUME NEW h, NEW x
    PROVE  RingsBut(h, x) <=> \A k \in Memory!Slot : /\ Ring(h.used[k], UsedSet(h, k, x))
                                                    /\ Ring(h.unused[k], UnusedSet(h, k, x))
BY DEF RingsBut, UsedSet, UnusedSet

LEMMA RingType ==
    ASSUME NEW S, S \subseteq Memory!Item, NEW s, Ring(s, S)
    PROVE  s \in Seq(Memory!Item)
<1>1. s \in Seq(S)
    BY DEF Ring
<1> QED BY <1>1

\* A cell that is taken out of the ring of its block.
LEMMA DropUnused ==
    ASSUME NEW h, NEW x, NEW X, Good(h, x, X), NEW c \in Memory!Item, IsLive(h, c),
           x = c \/ (x = 0 /\ h.cell[c].requested = 0)
    PROVE  LET k == h.cell[c].block
               g == [h EXCEPT !.unused = [@ EXCEPT ![k] = Memory!Drop(h.unused[k], c)]]
           IN  /\ RingMoved(h, g) /\ g.used = h.used
               /\ g.unused = [h.unused EXCEPT ![k] = Memory!Drop(h.unused[k], c)]
               /\ Good(g, c, X) /\ Keeps(h, g, {})
<1> DEFINE k == h.cell[c].block
           r == Memory!Drop(h.unused[k], c)
           u == [h.unused EXCEPT ![k] = r]
           g == [h EXCEPT !.unused = u]
<1>1. h \in HeapRec /\ RingsBut(h, x) /\ k \in Memory!Slot
    BY CellPlace DEF Good
<1>2. Ring(h.unused[k], UnusedSet(h, k, x))
    BY <1>1, RingsAre
<1>3. Ring(r, UnusedSet(h, k, x) \ {c})
    BY <1>2, DropFromRing
<1>4. r \in Seq(Memory!Item)
    <2>1. UnusedSet(h, k, x) \ {c} \subseteq Memory!Item
        BY DEF UnusedSet
    <2> QED BY <1>3, <2>1, RingType
<1>5. h.unused \in [Memory!Slot -> Seq(Memory!Item)]
    BY <1>1 DEF HeapRec
<1> HIDE DEF r
<1>6. u \in [Memory!Slot -> Seq(Memory!Item)] /\ u[k] = r
      /\ \A j \in Memory!Slot \ {k} : u[j] = h.unused[j]
    BY <1>1, <1>4, <1>5
<1> HIDE DEF u
<1>7. RingMoved(h, g) /\ g.used = h.used /\ g.unused = u
    BY <1>1, <1>6 DEF HeapRec, RingMoved
<1> HIDE DEF g
<1>8. ASSUME NEW j \in Memory!Slot
      PROVE  Ring(g.used[j], UsedSet(g, j, c)) /\ Ring(g.unused[j], UnusedSet(g, j, c))
    <2>1. Ring(h.used[j], UsedSet(h, j, x)) /\ Ring(h.unused[j], UnusedSet(h, j, x))
        BY <1>1, RingsAre
    <2>2. g.cell = h.cell
        BY <1>7 DEF RingMoved
    <2>3. \A d \in Memory!Item : d # 0
        BY DEF Memory!Item
    <2>4. UsedSet(g, j, c) = UsedSet(h, j, x)
        BY <2>2, <2>3 DEF UsedSet
    <2>5. CASE j = k
        <3>1. UnusedSet(g, j, c) = UnusedSet(h, k, x) \ {c}
            BY <2>2, <2>3, <2>5 DEF UnusedSet
        <3> QED BY <1>3, <1>6, <1>7, <2>1, <2>4, <2>5, <3>1
    <2>6. CASE j # k
        <3>1. UnusedSet(g, j, c) = UnusedSet(h, j, x)
            BY <2>2, <2>3, <2>6 DEF UnusedSet
        <3> QED BY <1>6, <1>7, <2>1, <2>4, <2>6, <3>1
    <2> QED BY <2>5, <2>6
<1>9. RingsBut(g, c)
    BY <1>8, RingsAre
<1>10. Good(g, c, X) /\ Keeps(h, g, {})
    BY <1>7, <1>9, MovedIsGood
<1> QED BY <1>7, <1>10 DEF g, u, r

LEMMA DropUsed ==
    ASSUME NEW h, NEW X, Good(h, 0, X), NEW c \in Memory!Item, IsUsed(h, c)
    PROVE  LET k == h.cell[c].block
               g == [h EXCEPT !.used = [@ EXCEPT ![k] = Memory!Drop(h.used[k], c)]]
           IN  RingMoved(h, g) /\ Good(g, c, X) /\ Keeps(h, g, {})
<1> DEFINE k == h.cell[c].block
           r == Memory!Drop(h.used[k], c)
           u == [h.used EXCEPT ![k] = r]
           g == [h EXCEPT !.used = u]
<1>1. h \in HeapRec /\ RingsBut(h, 0) /\ k \in Memory!Slot
    BY CellPlace DEF Good, IsUsed
<1>2. Ring(h.used[k], UsedSet(h, k, 0))
    BY <1>1, RingsAre
<1>3. Ring(r, UsedSet(h, k, 0) \ {c})
    BY <1>2, DropFromRing
<1>4. r \in Seq(Memory!Item)
    <2>1. UsedSet(h, k, 0) \ {c} \subseteq Memory!Item
        BY DEF UsedSet
    <2> QED BY <1>3, <2>1, RingType
<1>5. h.used \in [Memory!Slot -> Seq(Memory!Item)]
    BY <1>1 DEF HeapRec
<1> HIDE DEF r
<1>6. u \in [Memory!Slot -> Seq(Memory!Item)] /\ u[k] = r
      /\ \A j \in Memory!Slot \ {k} : u[j] = h.used[j]
    BY <1>1, <1>4, <1>5
<1> HIDE DEF u
<1>7. RingMoved(h, g) /\ g.unused = h.unused /\ g.used = u
    BY <1>1, <1>6 DEF HeapRec, RingMoved
<1> HIDE DEF g
<1>8. ASSUME NEW j \in Memory!Slot
      PROVE  Ring(g.used[j], UsedSet(g, j, c)) /\ Ring(g.unused[j], UnusedSet(g, j, c))
    <2>1. Ring(h.used[j], UsedSet(h, j, 0)) /\ Ring(h.unused[j], UnusedSet(h, j, 0))
        BY <1>1, RingsAre
    <2>2. g.cell = h.cell
        BY <1>7 DEF RingMoved
    <2>3. \A d \in Memory!Item : d # 0
        BY DEF Memory!Item
    <2>4. UnusedSet(g, j, c) = UnusedSet(h, j, 0)
        BY <2>2, <2>3 DEF UnusedSet, IsUsed
    <2>5. CASE j = k
        <3>1. UsedSet(g, j, c) = UsedSet(h, k, 0) \ {c}
            BY <2>2, <2>3, <2>5 DEF UsedSet
        <3> QED BY <1>3, <1>6, <1>7, <2>1, <2>4, <2>5, <3>1
    <2>6. CASE j # k
        <3>1. UsedSet(g, j, c) = UsedSet(h, j, 0)
            BY <2>2, <2>3, <2>6 DEF UsedSet
        <3> QED BY <1>6, <1>7, <2>1, <2>4, <2>6, <3>1
    <2> QED BY <2>5, <2>6
<1>9. RingsBut(g, c)
    BY <1>8, RingsAre
<1>10. Good(g, c, X) /\ Keeps(h, g, {})
    BY <1>7, <1>9, MovedIsGood
<1> QED BY <1>7, <1>10 DEF g, u, r

\* Cell c has n bytes in use.
Requests(h, g, c, n) ==
    /\ g \in HeapRec /\ g.blocks = h.blocks /\ g.n_words = h.n_words /\ g.header = h.header
    /\ g.pools = h.pools /\ g.taken = h.taken /\ g.mem = h.mem
    /\ \A d \in Memory!Item \ {c} : g.cell[d] = h.cell[d]
    /\ g.cell[c].block = h.cell[c].block /\ g.cell[c].words = h.cell[c].words
    /\ g.cell[c].n_words = h.cell[c].n_words /\ g.cell[c].requested = n

LEMMA RequestsIsGood ==
    ASSUME NEW h, NEW x, NEW X, Good(h, x, X), NEW c \in Memory!Item, IsLive(h, c),
           NEW n \in Length \union {0}, n <= (h.cell[c].n_words - 2) * WordSize,
           NEW g, Requests(h, g, c, n), NEW y, RingsBut(g, y)
    PROVE  Good(g, y, X) /\ Keeps(h, g, {c})
<1>1. /\ g \in HeapRec /\ g.blocks = h.blocks /\ g.n_words = h.n_words /\ g.header = h.header
      /\ g.pools = h.pools /\ g.taken = h.taken /\ g.mem = h.mem
      /\ \A d \in Memory!Item \ {c} : g.cell[d] = h.cell[d]
    BY DEF Requests
<1>2. g.cell[c].block = h.cell[c].block /\ g.cell[c].words = h.cell[c].words
      /\ g.cell[c].n_words = h.cell[c].n_words /\ g.cell[c].requested = n
    BY DEF Requests
<1>3. \A d \in Memory!Item :
          /\ g.cell[d].block = h.cell[d].block /\ g.cell[d].words = h.cell[d].words
          /\ g.cell[d].n_words = h.cell[d].n_words /\ End(g, d) = End(h, d)
          /\ IsLive(g, d) <=> IsLive(h, d)
    BY <1>1, <1>2 DEF End, IsLive
<1>4. CellsOK(g)
    <2> SUFFICES ASSUME NEW d \in Memory!Item, IsLive(g, d) PROVE CellOK(g, d)
        BY DEF CellsOK
    <2>1. CellOK(h, d)
        BY <1>3 DEF Good, Layout, CellsOK
    <2>2. CASE d = c
        BY <1>1, <1>2, <1>3, <2>1, <2>2 DEF CellOK, InBlocks
    <2>3. CASE d # c
        BY <1>1, <1>3, <2>1, <2>3 DEF CellOK, InBlocks
    <2> QED BY <2>2, <2>3
<1>5. Apart(g) /\ Covered(g) /\ GuardsStand(g)
    <2>1. Apart(g)
        BY <1>3 DEF Good, Layout, Apart
    <2>2. Covered(g)
        BY <1>1, <1>3 DEF Good, Layout, Covered, HasWord, InBlocks
    <2>3. GuardsStand(g)
        BY <1>1, <1>3 DEF Good, Layout, GuardsStand, HasGuards, IsGuard
    <2> QED BY <2>1, <2>2, <2>3
<1>6. h.taken \subseteq Memory!Item
    BY DEF Good, HeapRec
<1>7. BlocksOK(g) /\ TakenBut(g, X) /\ PoolsHold(g)
    <2>1. BlocksOK(g)
        BY <1>1, <1>3, <1>6 DEF Good, BlocksOK, InBlocks
    <2>2. TakenBut(g, X)
        BY <1>1, <1>3, <1>6 DEF Good, TakenBut, InBlocks
    <2>3. PoolsHold(g)
        BY <1>1 DEF Good, PoolsHold
    <2> QED BY <2>1, <2>2, <2>3
<1>8. Keeps(h, g, {c})
    BY <1>1 DEF Keeps, KeepsCell, IsUsed, IsLive, SameBytes
<1> QED BY <1>1, <1>4, <1>5, <1>7, <1>8 DEF Good, Layout

\* Only what is between the guards of c is written to.
Inside(h, g, c) ==
    /\ g \in HeapRec /\ SameShape(h, g)
    /\ \A j \in Memory!Slot : \A b \in Bytes :
          g.mem[j][b] = h.mem[j][b] \/ (j = h.cell[c].block /\ IsInner(h, c, b))

LEMMA InsideIsGood ==
    ASSUME NEW h, NEW x, NEW X, Good(h, x, X), NEW c \in Memory!Item, IsLive(h, c),
           NEW g, Inside(h, g, c)
    PROVE  Good(g, x, X) /\ Keeps(h, g, {c})
<1> DEFINE k == h.cell[c].block
           W == {w \in Int : h.cell[c].words < w /\ w < End(h, c) - 1}
<1>1. /\ g \in HeapRec /\ g.blocks = h.blocks /\ g.n_words = h.n_words /\ g.header = h.header
      /\ g.used = h.used /\ g.unused = h.unused
      /\ g.cell = h.cell /\ g.pools = h.pools /\ g.taken = h.taken
    BY DEF Inside, SameShape
<1>2. h \in HeapRec /\ Layout(h) /\ BlocksOK(h)
    BY DEF Good
<1>3. Bytes \subseteq Int
    BY DEF Bytes
<1>4. ASSUME NEW d \in Memory!Item, d # c, IsLive(h, d), h.cell[d].block = k,
             NEW b \in Int, IsInner(h, c, b)
      PROVE  ~IsGuard(h, d, b) /\ ~IsInner(h, d, b)
    <2>1. /\ h.cell[c].words \in Int /\ End(h, c) \in Int
          /\ h.cell[d].words \in Int /\ End(h, d) \in Int
          /\ h.cell[d].words + 2 < End(h, d) /\ h.cell[c].words + 2 < End(h, c)
        BY <1>2, <1>4, CellType, CellPlace
    <2>2. End(h, c) <= h.cell[d].words \/ End(h, d) <= h.cell[c].words
        BY <1>2, <1>4 DEF Layout, Apart
    <2>3. \A w \in Int : InWord(b, w) => h.cell[c].words < w /\ w < End(h, c) - 1
        BY <1>2, <1>4, InnerByte
    <2>4. ~IsGuard(h, d, b)
        <3>1. ~InWord(b, h.cell[d].words)
            BY <2>1, <2>2, <2>3
        <3>2. ~InWord(b, End(h, d) - 1)
            BY <2>1, <2>2, <2>3
        <3> QED BY <3>1, <3>2 DEF IsGuard
    <2>5. ~IsInner(h, d, b)
        <3>1. CASE End(h, c) <= h.cell[d].words
            <4>1. (End(h, c) - 1) * WordSize <= (h.cell[d].words + 1) * WordSize
                  /\ (End(h, c) - 1) * WordSize \in Int /\ (h.cell[d].words + 1) * WordSize \in Int
                BY <2>1, <3>1, WordsOrdered
            <4> QED BY <1>4, <4>1 DEF IsInner
        <3>2. CASE End(h, d) <= h.cell[c].words
            <4>1. (End(h, d) - 1) * WordSize <= (h.cell[c].words + 1) * WordSize
                  /\ (End(h, d) - 1) * WordSize \in Int /\ (h.cell[c].words + 1) * WordSize \in Int
                BY <2>1, <3>2, WordsOrdered
            <4> QED BY <1>4, <4>1 DEF IsInner
        <3> QED BY <2>2, <3>1, <3>2
    <2> QED BY <2>4, <2>5
<1>5. ASSUME NEW b \in Int, IsInner(h, c, b) PROVE ~IsGuard(h, c, b)
    <2>1. h.cell[c].words \in Int /\ End(h, c) - 1 \in Int
        BY <1>2, CellType
    <2>2. \A w \in Int : InWord(b, w) => h.cell[c].words < w /\ w < End(h, c) - 1
        BY <1>2, <1>5, InnerByte
    <2> QED BY <2>1, <2>2 DEF IsGuard
<1>6. GuardsStand(g)
    <2> SUFFICES ASSUME NEW d \in Memory!Item, IsLive(g, d), NEW b \in Int, IsGuard(g, d, b)
                 PROVE  g.mem[g.cell[d].block][b] = d
        BY DEF GuardsStand, HasGuards
    <2>1. IsLive(h, d) /\ IsGuard(h, d, b) /\ g.cell[d].block = h.cell[d].block
        BY <1>1 DEF IsLive, IsGuard, End
    <2>2. b \in Bytes /\ h.cell[d].block \in Memory!Slot
        BY <1>2, <2>1, GuardInBytes, CellPlace
    <2>3. h.mem[h.cell[d].block][b] = d
        BY <1>2, <2>1, CellPlace DEF HasGuards
    <2>4. ~(h.cell[d].block = k /\ IsInner(h, c, b))
        BY <1>4, <1>5, <2>1
    <2> QED BY <2>1, <2>2, <2>3, <2>4 DEF Inside
<1>7. CellsOK(g) /\ Apart(g) /\ Covered(g)
    BY <1>1, <1>2 DEF Layout, CellsOK, CellOK, Apart, Covered, HasWord, InBlocks, IsLive, End
<1>8. BlocksOK(g) /\ TakenBut(g, X) /\ PoolsHold(g) /\ RingsBut(g, x)
    <2>1. BlocksOK(g)
        BY <1>1 DEF Good, BlocksOK, InBlocks, IsLive
    <2>2. TakenBut(g, X)
        BY <1>1 DEF Good, TakenBut, InBlocks, IsLive
    <2>3. PoolsHold(g)
        BY <1>1 DEF Good, PoolsHold
    <2>4. RingsBut(g, x)
        BY <1>1 DEF Good, RingsBut
    <2> QED BY <2>1, <2>2, <2>3, <2>4
<1>9. Keeps(h, g, {c})
    <2> SUFFICES ASSUME NEW d \in Memory!Item, d # c, IsUsed(h, d) PROVE SameBytes(h, g, d)
        BY <1>1 DEF Keeps, KeepsCell, IsUsed, IsLive
    <2> SUFFICES ASSUME NEW b \in Int, Memory!First(h, d) <= b,
                        b < Memory!First(h, d) + h.cell[d].requested
                 PROVE  g.mem[h.cell[d].block][b] = h.mem[h.cell[d].block][b]
        BY DEF SameBytes
    <2>1. IsLive(h, d)
        BY DEF IsUsed
    <2>2. IsInner(h, d, b) /\ h.cell[d].block \in Memory!Slot
        BY <1>2, <2>1, RequestedIsInner, CellPlace
    <2>3. b \in Bytes
        BY <1>2, <2>1, <2>2, InnerByte
    <2>4. ~(h.cell[d].block = k /\ IsInner(h, c, b))
        BY <1>4, <2>1, <2>2
    <2> QED BY <2>2, <2>3, <2>4 DEF Inside
<1> QED BY <1>1, <1>6, <1>7, <1>8, <1>9 DEF Good, Layout

-----------------------------------------------------------------------------
(* Neighbours that merge and cells that are divided.                       *)

\* Cell s is n words from w on.
Resized(h, f, s, w, n) ==
    /\ f \in HeapRec /\ f.blocks = h.blocks /\ f.n_words = h.n_words /\ f.header = h.header
    /\ f.used = h.used /\ f.unused = h.unused /\ f.pools = h.pools /\ f.taken = h.taken
    /\ f.mem = h.mem
    /\ \A c \in Memory!Item \ {s} : f.cell[c] = h.cell[c]
    /\ f.cell[s].block = h.cell[s].block /\ f.cell[s].requested = h.cell[s].requested
    /\ f.cell[s].words = w /\ f.cell[s].n_words = n

\* Cells s and d fill block k from word lo to hi, and only d may follow s if s is used.
Neighbours(h, s, d, k, lo, hi) ==
    /\ s \in Memory!Item /\ d \in Memory!Item /\ s # d /\ k # 0
    /\ h.cell[s].block = k /\ h.cell[d].block = k
    /\ \/ h.cell[s].words = lo /\ End(h, s) = h.cell[d].words /\ End(h, d) = hi
       \/ /\ h.cell[d].words = lo /\ End(h, d) = h.cell[s].words /\ End(h, s) = hi
          /\ h.cell[s].requested = 0

LEMMA NeighboursFill ==
    ASSUME NEW h \in HeapRec, Layout(h), BlocksOK(h), NEW s, NEW d, NEW k, NEW lo, NEW hi,
           Neighbours(h, s, d, k, lo, hi)
    PROVE  /\ IsLive(h, s) /\ IsLive(h, d) /\ k \in Memory!Slot /\ lo \in Int /\ hi \in Int
           /\ Within(h, s, k, lo, hi) /\ Within(h, d, k, lo, hi)
           /\ 0 <= lo /\ hi <= h.n_words[k] /\ lo + 4 < hi /\ hi <= SlotWords
           /\ h.cell[s].n_words <= hi - lo
           /\ \A c \in Memory!Item \ {s, d} : h.cell[c].block = k =>
                  End(h, c) <= lo \/ hi <= h.cell[c].words
<1>1. s \in Memory!Item /\ d \in Memory!Item /\ s # d /\ IsLive(h, s) /\ IsLive(h, d)
      /\ h.cell[s].block = k /\ h.cell[d].block = k
    BY DEF Neighbours, IsLive
<1>2. /\ h.cell[s].words \in Int /\ End(h, s) \in Int /\ h.cell[s].words + 2 < End(h, s)
      /\ 0 <= h.cell[s].words /\ End(h, s) <= h.n_words[k] /\ h.n_words[k] \in Int
      /\ End(h, s) <= SlotWords /\ k \in Memory!Slot
    BY <1>1, CellType, CellPlace
<1>3. /\ h.cell[d].words \in Int /\ End(h, d) \in Int /\ h.cell[d].words + 2 < End(h, d)
      /\ 0 <= h.cell[d].words /\ End(h, d) <= h.n_words[k] /\ End(h, d) <= SlotWords
    BY <1>1, CellType, CellPlace
<1>4. \/ h.cell[s].words = lo /\ End(h, s) = h.cell[d].words /\ End(h, d) = hi
      \/ h.cell[d].words = lo /\ End(h, d) = h.cell[s].words /\ End(h, s) = hi
    BY DEF Neighbours
<1>5. lo \in Int /\ hi \in Int /\ Within(h, s, k, lo, hi) /\ Within(h, d, k, lo, hi)
      /\ 0 <= lo /\ hi <= h.n_words[k] /\ lo + 4 < hi /\ hi <= SlotWords
    BY <1>1, <1>2, <1>3, <1>4 DEF Within
<1>6. h.cell[s].n_words <= hi - lo
    <2>1. h.cell[s].n_words \in Int
        BY <1>1, CellType
    <2> QED BY <1>2, <1>3, <1>4, <1>5, <2>1 DEF End
<1>7. ASSUME NEW c \in Memory!Item \ {s, d}, h.cell[c].block = k
      PROVE  End(h, c) <= lo \/ hi <= h.cell[c].words
    <2>1. IsLive(h, c)
        BY <1>7 DEF Neighbours, IsLive
    <2>2. h.cell[c].words \in Int /\ End(h, c) \in Int /\ h.cell[c].words + 2 < End(h, c)
        BY <2>1, CellType, CellPlace
    <2>3. End(h, c) <= h.cell[s].words \/ End(h, s) <= h.cell[c].words
        BY <1>1, <1>7, <2>1 DEF Layout, Apart
    <2>4. End(h, c) <= h.cell[d].words \/ End(h, d) <= h.cell[c].words
        BY <1>1, <1>7, <2>1 DEF Layout, Apart
    <2> QED BY <1>2, <1>3, <1>4, <2>2, <2>3, <2>4
<1> QED BY <1>1, <1>2, <1>5, <1>6, <1>7

\* The room of a cell grows with its words.
LEMMA RoomGrows ==
    ASSUME NEW m \in Int, NEW n \in Int, m <= n, NEW r \in Int, r <= (m - 2) * WordSize
    PROVE  r <= (n - 2) * WordSize
<1>1. (m - 2) * WordSize <= (n - 2) * WordSize
      /\ (m - 2) * WordSize \in Int /\ (n - 2) * WordSize \in Int
    BY WordsOrdered
<1> QED BY <1>1

\* One takes the other over.
LEMMA AbsorbIsGood ==
    ASSUME NEW h, NEW s, NEW d, Good(h, d, {}), NEW k, NEW lo, NEW hi,
           Neighbours(h, s, d, k, lo, hi), NEW f, Resized(h, f, s, lo, hi - lo)
    PROVE  LET g == Memory!PoolFree(Memory!WriteGuards(f, s), d)
           IN  /\ Good(g, 0, {}) /\ Keeps(h, g, {d}) /\ ~IsLive(g, d)
               /\ g.blocks = h.blocks /\ g.used = h.used /\ g.unused = h.unused
               /\ g.cell[s].block = k /\ g.cell[s].words = lo /\ g.cell[s].n_words = hi - lo
               /\ g.cell[s].requested = h.cell[s].requested
<1> DEFINE v == Memory!WriteGuards(f, s)
           g == Memory!PoolFree(v, d)
           W == {lo, hi - 1}
<1>1. h \in HeapRec /\ Layout(h) /\ BlocksOK(h) /\ RingsBut(h, d) /\ TakenBut(h, {}) /\ PoolsHold(h)
    BY DEF Good
<1>2. s \in Memory!Item /\ d \in Memory!Item /\ s # d /\ h.cell[s].block = k
      /\ h.cell[d].block = k /\ k # 0
    BY DEF Neighbours
<1>3. /\ IsLive(h, s) /\ IsLive(h, d) /\ k \in Memory!Slot /\ lo \in Int /\ hi \in Int
      /\ Within(h, s, k, lo, hi) /\ Within(h, d, k, lo, hi)
      /\ 0 <= lo /\ hi <= h.n_words[k] /\ lo + 4 < hi /\ hi <= SlotWords
      /\ h.cell[s].n_words <= hi - lo
    BY <1>1, NeighboursFill
<1>4. \A c \in Memory!Item \ {s, d} : h.cell[c].block = k => End(h, c) <= lo \/ hi <= h.cell[c].words
    BY <1>1, NeighboursFill
<1>5. /\ f \in HeapRec /\ f.blocks = h.blocks /\ f.n_words = h.n_words /\ f.header = h.header
      /\ f.used = h.used /\ f.unused = h.unused /\ f.pools = h.pools /\ f.taken = h.taken
      /\ f.mem = h.mem /\ \A c \in Memory!Item \ {s} : f.cell[c] = h.cell[c]
    BY DEF Resized
<1>6. f.cell[s].block = k /\ f.cell[s].requested = h.cell[s].requested
      /\ f.cell[s].words = lo /\ f.cell[s].n_words = hi - lo /\ End(f, s) = hi
    BY <1>2, <1>3 DEF Resized, End
<1>7. Written(f, v, s)
    BY <1>2, <1>3, <1>5, <1>6, WriteGuardsWrites
<1> HIDE DEF v
<1>8. v \in HeapRec /\ SameShape(f, v)
    BY <1>7 DEF Written
<1>9. PoolsHold(v)
    BY <1>1, <1>5, <1>8 DEF PoolsHold, SameShape
<1>10. PoolGave(v, g, d)
    BY <1>2, <1>8, <1>9, PoolFreeGives
<1> HIDE DEF g
<1>11. /\ g \in HeapRec /\ g.blocks = h.blocks /\ g.n_words = h.n_words /\ g.header = h.header
       /\ g.used = h.used /\ g.unused = h.unused /\ g.taken = h.taken \ {d} /\ PoolsHold(g)
       /\ g.mem = v.mem /\ g.cell[d].block = 0
    BY <1>5, <1>8, <1>10 DEF PoolGave, SameShape, Alike
<1>12. /\ g.cell[s].block = k /\ g.cell[s].requested = h.cell[s].requested
       /\ g.cell[s].words = lo /\ g.cell[s].n_words = hi - lo /\ End(g, s) = hi
    BY <1>2, <1>6, <1>8, <1>10 DEF PoolGave, SameShape, End
<1>13. \A c \in Memory!Item \ {s, d} : g.cell[c] = h.cell[c]
    BY <1>5, <1>8, <1>10 DEF PoolGave, SameShape
<1>14. W \subseteq Int /\ \A w \in W : lo <= w /\ w < hi
    BY <1>3
<1>15. Touches(h, g, k, W)
    BY <1>5, <1>6, <1>7, <1>11, WrittenTouches DEF Touches
<1>16. HasGuards(g, s)
    <2> SUFFICES ASSUME NEW b \in Int, IsGuard(g, s, b) PROVE g.mem[k][b] = s
        BY <1>12 DEF HasGuards
    <2>1. InWord(b, lo) \/ InWord(b, hi - 1)
        BY <1>12 DEF IsGuard
    <2>2. lo \in 0 .. SlotWords - 1 /\ hi - 1 \in 0 .. SlotWords - 1
        BY <1>3, Sizes
    <2>3. b \in Bytes
        BY <2>1, <2>2, WordInBytes
    <2>4. IsGuard(f, s, b)
        BY <1>6, <2>1 DEF IsGuard
    <2> QED BY <1>3, <1>6, <1>7, <1>11, <2>3, <2>4 DEF Written
<1>17. CellOK(g, s)
    <2>1. CellOK(h, s)
        BY <1>1, <1>2, <1>3 DEF Layout, CellsOK
    <2>2. h.cell[s].n_words \in Int /\ h.cell[s].requested \in Int
        BY <1>1, <1>2, CellType
    <2>3. h.cell[s].requested <= ((hi - lo) - 2) * WordSize
        <3> DEFINE m == h.cell[s].n_words
                   n == hi - lo
                   r == h.cell[s].requested
        <3>1. m \in Int /\ n \in Int /\ m <= n /\ r \in Int
            BY <1>3, <2>2
        <3>2. r <= (m - 2) * WordSize
            BY <2>1 DEF CellOK
        <3> HIDE DEF m, n, r
        <3>3. r <= (n - 2) * WordSize
            BY <3>1, <3>2, RoomGrows
        <3> QED BY <3>3 DEF n, r
    <2>4. s \in g.taken
        BY <1>2, <1>11, <2>1 DEF CellOK
    <2>5. InBlocks(g, k)
        BY <1>2, <1>11, <2>1 DEF CellOK, InBlocks
    <2>6. g.cell[s].n_words > 2
        BY <1>3, <1>12
    <2> QED BY <1>3, <1>11, <1>12, <2>1, <2>3, <2>4, <2>5, <2>6 DEF CellOK
<1>18. Redivides(h, g, s, d, k, lo, hi, W)
    <2>1. \A c \in Memory!Item \ {s, d} :
              /\ g.cell[c] = h.cell[c] /\ (IsLive(h, c) => c \in g.taken)
              /\ h.cell[c].block = k => End(h, c) <= lo \/ hi <= h.cell[c].words
        BY <1>1, <1>4, <1>11, <1>13 DEF Layout, CellsOK, CellOK
    <2>2. \A c \in {s, d} : IsLive(h, c) => Within(h, c, k, lo, hi)
        BY <1>3
    <2>3. Within(g, s, k, lo, hi) /\ ~IsLive(g, d)
        BY <1>3, <1>11, <1>12 DEF Within, IsLive
    <2>4. \A c \in {s, d} : IsLive(g, c) => Within(g, c, k, lo, hi) /\ CellOK(g, c) /\ HasGuards(g, c)
        BY <1>16, <1>17, <2>3
    <2>5. \A w \in Int : lo <= w /\ w < hi => HasWord(g, s, k, w) \/ HasWord(g, d, k, w)
        BY <1>12 DEF HasWord
    <2> HIDE DEF W
    <2> QED BY <1>1, <1>2, <1>3, <1>11, <1>14, <1>15, <2>1, <2>2, <2>3, <2>4, <2>5 DEF Redivides
<1>19. Layout(g) /\ Keeps(h, g, {s, d})
    BY <1>18, RedividedLayout
<1>20. KeepsCell(h, g, s)
    <2>1. IsUsed(h, s) <=> IsUsed(g, s)
        BY <1>2, <1>12 DEF IsUsed, IsLive
    <2>2. ASSUME IsUsed(h, s) PROVE h.cell[s].words = lo /\ SameBytes(h, g, s)
        <3>1. h.cell[s].words = lo /\ End(h, s) = h.cell[d].words /\ End(h, d) = hi
            BY <2>2 DEF Neighbours, IsUsed
        <3>2. h.cell[d].words + 2 < hi /\ End(h, s) \in Int /\ h.cell[d].words \in Int
            BY <1>1, <1>2, <1>3, <3>1, CellPlace, CellType
        <3>3. \A w \in W : ~(h.cell[s].words < w /\ w < End(h, s) - 1)
            BY <1>3, <3>1, <3>2
        <3> HIDE DEF W
        <3>4. SameBytes(h, g, s)
            BY <1>1, <1>2, <1>3, <1>14, <1>15, <3>3, BytesKept
        <3> QED BY <3>1, <3>4
    <2> QED BY <1>2, <1>12, <2>1, <2>2 DEF KeepsCell
<1>21. Keeps(h, g, {d})
    BY <1>19, <1>20 DEF Keeps
<1>22. \A c \in Memory!Item : IsLive(g, c) <=> IsLive(h, c) /\ c # d
    BY <1>2, <1>3, <1>11, <1>12, <1>13 DEF IsLive
<1>23. h.taken \subseteq Memory!Item
    BY <1>1 DEF HeapRec
<1>24. BlocksOK(g)
    BY <1>1, <1>3, <1>11, <1>22, <1>23 DEF BlocksOK, InBlocks
<1>25. TakenBut(g, {})
    BY <1>1, <1>11, <1>22, <1>23 DEF TakenBut, InBlocks
<1>26. RingsBut(g, 0)
    <2> SUFFICES ASSUME NEW j \in Memory!Slot
                 PROVE  Ring(g.used[j], UsedSet(g, j, 0)) /\ Ring(g.unused[j], UnusedSet(g, j, 0))
        BY RingsAre
    <2>1. Ring(h.used[j], UsedSet(h, j, d)) /\ Ring(h.unused[j], UnusedSet(h, j, d))
        BY <1>1, RingsAre
    <2>2. j # 0 /\ \A c \in Memory!Item : c # 0
        BY DEF Memory!Item, Memory!Slot
    <2>3. \A c \in Memory!Item : /\ c = d => g.cell[c].block # j
                                 /\ c # d => g.cell[c].block = h.cell[c].block
                                             /\ g.cell[c].requested = h.cell[c].requested
        BY <1>2, <1>11, <1>12, <1>13, <2>2
    <2>4. UsedSet(g, j, 0) = UsedSet(h, j, d)
        BY <2>2, <2>3 DEF UsedSet
    <2>5. UnusedSet(g, j, 0) = UnusedSet(h, j, d)
        BY <2>2, <2>3 DEF UnusedSet
    <2> QED BY <1>11, <2>1, <2>4, <2>5
<1>27. Good(g, 0, {})
    BY <1>11, <1>19, <1>24, <1>25, <1>26 DEF Good
<1>28. ~IsLive(g, d)
    BY <1>11 DEF IsLive
<1> QED BY <1>11, <1>12, <1>21, <1>27, <1>28 DEF g, v

\* The guards of a and then of b are written.
LEMMA TwoWritten ==
    ASSUME NEW f \in HeapRec, NEW a \in Memory!Item, NEW b \in Memory!Item,
           f.cell[a].block \in Memory!Slot, f.cell[b].block = f.cell[a].block
    PROVE  LET g == Memory!WriteGuards(Memory!WriteGuards(f, a), b)
           IN  /\ g \in HeapRec /\ SameShape(f, g)
               /\ \A j \in Memory!Slot : \A x \in Bytes :
                     g.mem[j][x] = IF j # f.cell[a].block THEN f.mem[j][x]
                                   ELSE IF IsGuard(f, b, x) THEN b
                                   ELSE IF IsGuard(f, a, x) THEN a ELSE f.mem[j][x]
<1> DEFINE v == Memory!WriteGuards(f, a)
           g == Memory!WriteGuards(v, b)
<1>1. Written(f, v, a)
    BY WriteGuardsWrites
<1> HIDE DEF v
<1>2. v \in HeapRec /\ v.cell = f.cell /\ SameShape(f, v)
    BY <1>1 DEF Written, SameShape
<1>3. Written(v, g, b)
    BY <1>2, WriteGuardsWrites
<1> HIDE DEF g
<1>4. g \in HeapRec /\ SameShape(f, g)
    BY <1>2, <1>3 DEF Written, SameShape
<1>5. \A x : IsGuard(v, b, x) <=> IsGuard(f, b, x)
    BY <1>2 DEF IsGuard, End
<1>6. ASSUME NEW j \in Memory!Slot, NEW x \in Bytes
      PROVE  g.mem[j][x] = IF j # f.cell[a].block THEN f.mem[j][x]
                           ELSE IF IsGuard(f, b, x) THEN b
                           ELSE IF IsGuard(f, a, x) THEN a ELSE f.mem[j][x]
    <2>1. v.mem[j][x] = IF j = f.cell[a].block /\ IsGuard(f, a, x) THEN a ELSE f.mem[j][x]
        BY <1>1 DEF Written
    <2>2. g.mem[j][x] = IF j = f.cell[a].block /\ IsGuard(f, b, x) THEN b ELSE v.mem[j][x]
        BY <1>2, <1>3, <1>5 DEF Written
    <2> QED BY <2>1, <2>2
<1> QED BY <1>4, <1>6 DEF g, v

\* Of two cells that meet, each has its own guards.
LEMMA TwoGuarded ==
    ASSUME NEW f \in HeapRec, NEW a \in Memory!Item, NEW b \in Memory!Item, a # b,
           f.cell[a].block \in Memory!Slot, f.cell[b].block = f.cell[a].block,
           NEW lo \in Int, NEW mid \in Int, NEW hi \in Int,
           0 <= lo, lo + 2 < mid, mid + 2 < hi, hi <= SlotWords,
           \/ f.cell[a].words = lo /\ End(f, a) = mid /\ f.cell[b].words = mid /\ End(f, b) = hi
           \/ f.cell[b].words = lo /\ End(f, b) = mid /\ f.cell[a].words = mid /\ End(f, a) = hi
    PROVE  LET g == Memory!WriteGuards(Memory!WriteGuards(f, a), b)
           IN  /\ HasGuards(g, a) /\ HasGuards(g, b)
               /\ Touches(f, g, f.cell[a].block, {lo, mid - 1, mid, hi - 1})
<1> DEFINE k == f.cell[a].block
           g == Memory!WriteGuards(Memory!WriteGuards(f, a), b)
<1>1. /\ g \in HeapRec /\ SameShape(f, g)
      /\ \A j \in Memory!Slot : \A x \in Bytes :
            g.mem[j][x] = IF j # k THEN f.mem[j][x]
                          ELSE IF IsGuard(f, b, x) THEN b
                          ELSE IF IsGuard(f, a, x) THEN a ELSE f.mem[j][x]
    BY TwoWritten
<1> HIDE DEF g
<1>2. g.cell = f.cell
    BY <1>1 DEF SameShape
<1>3. \A x : /\ IsGuard(g, a, x) <=> IsGuard(f, a, x)
             /\ IsGuard(g, b, x) <=> IsGuard(f, b, x)
    BY <1>2 DEF IsGuard, End
<1>4. \A x \in Int : IsGuard(f, a, x) \/ IsGuard(f, b, x) =>
          \E w \in {lo, mid - 1, mid, hi - 1} : InWord(x, w)
    BY DEF IsGuard
<1>5. {lo, mid - 1, mid, hi - 1} \subseteq 0 .. SlotWords - 1
    BY Sizes
<1>6. \A x \in Int : IsGuard(f, a, x) \/ IsGuard(f, b, x) => x \in Bytes
    BY <1>4, <1>5, WordInBytes
<1>7. ASSUME NEW x \in Int, IsGuard(f, a, x), IsGuard(f, b, x) PROVE FALSE
    <2>1. PICK v \in {f.cell[a].words, End(f, a) - 1} : InWord(x, v)
        BY <1>7 DEF IsGuard
    <2>2. PICK w \in {f.cell[b].words, End(f, b) - 1} : InWord(x, w)
        BY <1>7 DEF IsGuard
    <2>3. v \in Int /\ w \in Int /\ v # w
        OBVIOUS
    <2> QED BY <2>1, <2>2, <2>3, OneWord
<1>8. HasGuards(g, a)
    <2> SUFFICES ASSUME NEW x \in Int, IsGuard(f, a, x) PROVE g.mem[k][x] = a
        BY <1>2, <1>3 DEF HasGuards
    <2>1. x \in Bytes /\ ~IsGuard(f, b, x)
        BY <1>6, <1>7
    <2> QED BY <1>1, <2>1
<1>9. HasGuards(g, b)
    <2> SUFFICES ASSUME NEW x \in Int, IsGuard(f, b, x) PROVE g.mem[k][x] = b
        BY <1>2, <1>3 DEF HasGuards
    <2>1. x \in Bytes
        BY <1>6
    <2> QED BY <1>1, <2>1
<1>10. Touches(f, g, k, {lo, mid - 1, mid, hi - 1})
    <2> SUFFICES ASSUME NEW j \in Memory!Slot, NEW x \in Bytes, g.mem[j][x] # f.mem[j][x]
                 PROVE  j = k /\ \E w \in {lo, mid - 1, mid, hi - 1} : InWord(x, w)
        BY DEF Touches
    <2>1. j = k /\ (IsGuard(f, a, x) \/ IsGuard(f, b, x))
        BY <1>1
    <2>2. x \in Int
        BY DEF Bytes
    <2> QED BY <1>4, <2>1, <2>2
<1> QED BY <1>8, <1>9, <1>10 DEF g

\* A cell of n words is split off from an unused one.
LEMMA SplitIsGood ==
    ASSUME NEW h, NEW o, Good(h, 0, {o}), NEW c \in Memory!Item, IsLive(h, c),
           h.cell[c].requested = 0, NEW n \in Int, n > 2, h.cell[c].n_words - n > 2
    PROVE  LET g == Memory!SplitOff(h, c, o, n)
           IN  /\ Good(g, o, {}) /\ Keeps(h, g, {}) /\ g.blocks = h.blocks
               /\ o \in Memory!Item /\ ~IsUsed(h, o)
               /\ g.cell[o] = [block |-> h.cell[c].block, words |-> h.cell[c].words,
                               n_words |-> n, requested |-> 0]
<1> DEFINE k == h.cell[c].block
           lo == h.cell[c].words
           mid == lo + n
           hi == End(h, c)
           W == {lo, mid - 1, mid, hi - 1}
           new == [block |-> k, words |-> lo, n_words |-> n, requested |-> 0]
           old == [h.cell[c] EXCEPT !.words = @ + n, !.n_words = @ - n]
           f == [h EXCEPT !.cell = [[@ EXCEPT ![o] = new] EXCEPT ![c] = old]]
           g == Memory!WriteGuards(Memory!WriteGuards(f, o), c)
<1>1. h \in HeapRec /\ Layout(h) /\ BlocksOK(h) /\ RingsBut(h, 0) /\ TakenBut(h, {o}) /\ PoolsHold(h)
    BY DEF Good
<1>2. /\ o \in h.taken /\ ~IsLive(h, o) /\ o \in Memory!Item /\ o # c
      /\ \A j \in Memory!Slot : InBlocks(h, j) => h.header[j] # o
    BY <1>1 DEF TakenBut, HeapRec
<1>3. /\ lo \in Int /\ hi \in Int /\ mid \in Int /\ h.cell[c].n_words \in Int
      /\ k \in Memory!Slot /\ k \in Nat /\ InBlocks(h, k)
      /\ 0 <= lo /\ hi <= h.n_words[k] /\ hi <= SlotWords /\ h.n_words[k] \in Int
      /\ h.cell[c] \in CellRec
    BY <1>1, CellType, CellPlace
<1>4. lo + 2 < mid /\ mid + 2 < hi /\ hi = lo + h.cell[c].n_words
    BY <1>3 DEF End
<1>5. new \in CellRec /\ old \in CellRec
    <2>1. new \in CellRec
        BY <1>3 DEF CellRec
    <2>2. h.cell[c].words + n \in Int /\ h.cell[c].n_words - n \in Int
        BY <1>3
    <2>3. old \in CellRec
        BY <1>3, <2>2 DEF CellRec
    <2> QED BY <2>1, <2>3
<1>6. old.block = k /\ old.words = mid /\ old.n_words = hi - mid /\ old.requested = 0
    BY <1>3, <1>4 DEF CellRec
<1>7. Memory!SplitOff(h, c, o, n) = g
    <2>1. f = [h EXCEPT !.cell[o] = [block |-> h.cell[c].block, words |-> h.cell[c].words,
                                    n_words |-> n, requested |-> 0],
                       !.cell[c].words = @ + n,
                       !.cell[c].n_words = @ - n]
        BY <1>1, <1>2 DEF HeapRec
    <2> HIDE DEF f
    <2> QED BY <2>1 DEF Memory!SplitOff
<1> HIDE DEF old, new
<1>8. /\ f \in HeapRec /\ f.blocks = h.blocks /\ f.n_words = h.n_words /\ f.header = h.header
      /\ f.used = h.used /\ f.unused = h.unused /\ f.pools = h.pools /\ f.taken = h.taken
      /\ f.mem = h.mem /\ f.cell = [[h.cell EXCEPT ![o] = new] EXCEPT ![c] = old]
    BY <1>1, <1>2, <1>5 DEF HeapRec
<1> HIDE DEF f
<1>9. f.cell[o] = new /\ f.cell[c] = old /\ \A d \in Memory!Item \ {o, c} : f.cell[d] = h.cell[d]
    BY <1>1, <1>2, <1>8 DEF HeapRec
<1>10. /\ new.block = k /\ new.words = lo /\ new.n_words = n /\ new.requested = 0
    BY DEF new
<1>11. End(f, o) = mid /\ End(f, c) = hi
    BY <1>3, <1>6, <1>9, <1>10 DEF End
<1>12. g \in HeapRec /\ SameShape(f, g)
    BY <1>2, <1>3, <1>6, <1>8, <1>9, <1>10, TwoWritten
<1>13. HasGuards(g, o) /\ HasGuards(g, c) /\ Touches(f, g, k, W)
    <2>1. f.cell[o].block = k /\ f.cell[c].block = k /\ f.cell[o].words = lo /\ f.cell[c].words = mid
        BY <1>6, <1>9, <1>10
    <2>2. f.cell[o].block \in Memory!Slot /\ f.cell[c].block = f.cell[o].block
        BY <1>3, <2>1
    <2> HIDE DEF lo, mid, hi
    <2> QED BY <1>2, <1>3, <1>4, <1>8, <1>11, <2>1, <2>2, TwoGuarded
<1> HIDE DEF g
<1>14. /\ g.blocks = h.blocks /\ g.n_words = h.n_words /\ g.header = h.header
       /\ g.used = h.used /\ g.unused = h.unused /\ g.pools = h.pools /\ g.taken = h.taken
       /\ g.cell[o] = new /\ g.cell[c] = old
       /\ \A d \in Memory!Item \ {o, c} : g.cell[d] = h.cell[d]
    BY <1>8, <1>9, <1>12 DEF SameShape
<1>15. End(g, o) = mid /\ End(g, c) = hi
    BY <1>11, <1>12 DEF SameShape, End
<1>16. Touches(h, g, k, W)
    BY <1>8, <1>13 DEF Touches
<1>17. W \subseteq Int /\ \A w \in W : lo <= w /\ w < hi
    BY <1>3, <1>4
<1>18. \A d \in Memory!Item \ {o, c} : h.cell[d].block = k => End(h, d) <= lo \/ hi <= h.cell[d].words
    BY <1>1, <1>2 DEF Layout, Apart
<1>19. CellOK(g, o) /\ CellOK(g, c)
    <2>1. InBlocks(g, k) /\ c \in g.taken /\ o \in g.taken
        BY <1>1, <1>2, <1>3, <1>14 DEF InBlocks, Layout, CellsOK, CellOK
    <2>2. 0 <= (n - 2) * WordSize
        <3>1. n - 2 \in Nat
            OBVIOUS
        <3> QED BY <3>1, Sizes
    <2>3. 0 <= (old.n_words - 2) * WordSize /\ old.n_words > 2
        <3>1. old.n_words - 2 \in Nat /\ old.n_words > 2
            BY <1>3, <1>4, <1>6
        <3> QED BY <3>1, Sizes
    <2>4. CellOK(g, o)
        BY <1>3, <1>4, <1>10, <1>14, <1>15, <2>1, <2>2 DEF CellOK
    <2>5. CellOK(g, c)
        BY <1>3, <1>4, <1>6, <1>14, <1>15, <2>1, <2>3 DEF CellOK
    <2> QED BY <2>4, <2>5
<1>20. Redivides(h, g, o, c, k, lo, hi, W)
    <2>1. \A d \in Memory!Item \ {o, c} :
              /\ g.cell[d] = h.cell[d] /\ (IsLive(h, d) => d \in g.taken)
              /\ h.cell[d].block = k => End(h, d) <= lo \/ hi <= h.cell[d].words
        BY <1>1, <1>14, <1>18 DEF Layout, CellsOK, CellOK
    <2>2. \A d \in {o, c} : IsLive(h, d) => Within(h, d, k, lo, hi)
        BY <1>2, <1>3 DEF Within
    <2>3. Within(g, o, k, lo, hi) /\ Within(g, c, k, lo, hi)
        BY <1>3, <1>4, <1>6, <1>10, <1>14, <1>15 DEF Within
    <2>4. \A d \in {o, c} : IsLive(g, d) => Within(g, d, k, lo, hi) /\ CellOK(g, d) /\ HasGuards(g, d)
        BY <1>13, <1>19, <2>3
    <2>5. \A w \in Int : lo <= w /\ w < hi => HasWord(g, o, k, w) \/ HasWord(g, c, k, w)
        BY <1>3, <1>6, <1>10, <1>14, <1>15 DEF HasWord
    <2>6. End(g, o) <= g.cell[c].words
        BY <1>3, <1>6, <1>14, <1>15
    <2> HIDE DEF W
    <2> QED BY <1>1, <1>2, <1>3, <1>12, <1>14, <1>16, <1>17, <2>1, <2>2, <2>4, <2>5, <2>6 DEF Redivides
<1>21. Layout(g) /\ Keeps(h, g, {o, c})
    BY <1>20, RedividedLayout
<1>22. ~IsUsed(h, o) /\ ~IsUsed(g, o) /\ ~IsUsed(h, c) /\ ~IsUsed(g, c)
    BY <1>2, <1>6, <1>10, <1>14 DEF IsUsed
<1>23. Keeps(h, g, {})
    BY <1>21, <1>22 DEF Keeps, KeepsCell
<1>24. k # 0 /\ IsLive(g, o) /\ IsLive(g, c)
       /\ \A d \in Memory!Item : d # o => (IsLive(g, d) <=> IsLive(h, d))
    BY <1>3, <1>6, <1>10, <1>14 DEF IsLive, Memory!Slot
<1>25. h.taken \subseteq Memory!Item
    BY <1>1 DEF HeapRec
<1>26. BlocksOK(g)
    BY <1>1, <1>2, <1>14, <1>24, <1>25 DEF BlocksOK, InBlocks
<1>27. TakenBut(g, {})
    BY <1>1, <1>14, <1>24, <1>25 DEF TakenBut, InBlocks
<1>28. PoolsHold(g)
    BY <1>1, <1>14 DEF PoolsHold
<1>29. RingsBut(g, o)
    <2> SUFFICES ASSUME NEW j \in Memory!Slot
                 PROVE  Ring(g.used[j], UsedSet(g, j, o)) /\ Ring(g.unused[j], UnusedSet(g, j, o))
        BY RingsAre
    <2>1. Ring(h.used[j], UsedSet(h, j, 0)) /\ Ring(h.unused[j], UnusedSet(h, j, 0))
        BY <1>1, RingsAre
    <2>2. j # 0 /\ \A d \in Memory!Item : d # 0
        BY DEF Memory!Item, Memory!Slot
    <2>3. \A d \in Memory!Item : /\ d = o => h.cell[d].block # j
                                 /\ d # o => g.cell[d].block = h.cell[d].block
                                             /\ g.cell[d].requested = h.cell[d].requested
        BY <1>2, <1>6, <1>14, <2>2 DEF IsLive
    <2>4. UsedSet(g, j, o) = UsedSet(h, j, 0)
        BY <2>2, <2>3 DEF UsedSet
    <2>5. UnusedSet(g, j, o) = UnusedSet(h, j, 0)
        BY <2>2, <2>3 DEF UnusedSet
    <2> QED BY <1>14, <2>1, <2>4, <2>5
<1>30. Good(g, o, {})
    BY <1>12, <1>21, <1>26, <1>27, <1>28, <1>29 DEF Good
<1> QED BY <1>2, <1>7, <1>14, <1>22, <1>23, <1>30 DEF new

\* As many words more go from o to the cell before it.
Shifts(h, f, c, o, more, n) ==
    f = [h EXCEPT !.cell[o].words = @ + more, !.cell[o].n_words = @ - more, !.cell[c].n_words = n]

\* An unused neighbour gives some of its words to the cell before it.
LEMMA ShiftIsGood ==
    ASSUME NEW h, Good(h, 0, {}), NEW c \in Memory!Item, NEW o \in Memory!Item, c # o,
           IsLive(h, c), h.cell[o].block = h.cell[c].block, h.cell[o].words = End(h, c),
           h.cell[o].requested = 0,
           NEW more \in Int, more > 0, h.cell[o].n_words - more > 2,
           NEW n \in Int, n = h.cell[c].n_words + more,
           NEW parted, Shifts(h, parted, c, o, more, n)
    PROVE  LET g == Memory!WriteGuards(Memory!WriteGuards(parted, o), c)
           IN  Good(g, 0, {}) /\ Keeps(h, g, {}) /\ g.blocks = h.blocks
<1> DEFINE k == h.cell[c].block
           lo == h.cell[c].words
           mid == End(h, c) + more
           hi == End(h, o)
           W == {lo, mid - 1, mid, hi - 1}
           right == [h.cell[o] EXCEPT !.words = @ + more, !.n_words = @ - more]
           left == [h.cell[c] EXCEPT !.n_words = n]
           f == [h EXCEPT !.cell = [[@ EXCEPT ![o] = right] EXCEPT ![c] = left]]
           g == Memory!WriteGuards(Memory!WriteGuards(f, o), c)
<1>1. h \in HeapRec /\ Layout(h) /\ BlocksOK(h) /\ RingsBut(h, 0) /\ TakenBut(h, {}) /\ PoolsHold(h)
    BY DEF Good
<1>2. Neighbours(h, c, o, k, lo, hi)
    BY DEF Neighbours, IsLive
<1>3. IsLive(h, o)
    BY DEF IsLive
<1>4. /\ lo \in Int /\ hi \in Int /\ k \in Memory!Slot /\ k # 0
      /\ Within(h, c, k, lo, hi) /\ Within(h, o, k, lo, hi)
      /\ 0 <= lo /\ hi <= h.n_words[k] /\ hi <= SlotWords
      /\ \A d \in Memory!Item \ {c, o} : h.cell[d].block = k =>
             End(h, d) <= lo \/ hi <= h.cell[d].words
    BY <1>1, <1>2, NeighboursFill DEF IsLive
<1>5. /\ End(h, c) \in Int /\ mid \in Int /\ lo + 2 < End(h, c) /\ End(h, c) < mid
      /\ h.cell[c].n_words \in Int /\ h.cell[o].n_words \in Int
      /\ h.cell[o].words \in Int /\ h.cell[o].words + 2 < hi /\ InBlocks(h, k)
      /\ h.cell[c] \in CellRec /\ h.cell[o] \in CellRec
    BY <1>1, <1>3, CellType, CellPlace
<1>6. lo + 2 < mid /\ mid + 2 < hi /\ lo + n = mid /\ mid + (h.cell[o].n_words - more) = hi
    BY <1>4, <1>5 DEF End
<1>7. /\ right \in CellRec /\ right.block = k /\ right.words = mid /\ right.requested = 0
      /\ right.n_words = h.cell[o].n_words - more
    <2>1. h.cell[o].words + more \in Int /\ h.cell[o].n_words - more \in Int
        BY <1>5
    <2> QED BY <1>5, <2>1 DEF CellRec
<1>8. /\ left \in CellRec /\ left.block = k /\ left.words = lo /\ left.n_words = n
      /\ left.requested = h.cell[c].requested
    BY <1>5 DEF CellRec
<1>9. f = parted
    BY <1>1 DEF HeapRec, Shifts
<1> HIDE DEF left, right
<1>10. /\ f \in HeapRec /\ f.blocks = h.blocks /\ f.n_words = h.n_words /\ f.header = h.header
       /\ f.used = h.used /\ f.unused = h.unused /\ f.pools = h.pools /\ f.taken = h.taken
       /\ f.mem = h.mem /\ f.cell = [[h.cell EXCEPT ![o] = right] EXCEPT ![c] = left]
    BY <1>1, <1>7, <1>8 DEF HeapRec
<1> HIDE DEF f
<1>11. f.cell[o] = right /\ f.cell[c] = left
       /\ \A d \in Memory!Item \ {c, o} : f.cell[d] = h.cell[d]
    BY <1>1, <1>10 DEF HeapRec
<1>12. End(f, c) = mid /\ End(f, o) = hi
    BY <1>6, <1>7, <1>8, <1>11 DEF End
<1>13. g \in HeapRec /\ SameShape(f, g)
    <2>1. f \in HeapRec /\ f.cell[o].block \in Memory!Slot /\ f.cell[c].block = f.cell[o].block
        BY <1>4, <1>7, <1>8, <1>10, <1>11
    <2> QED BY <2>1, TwoWritten
<1>14. HasGuards(g, o) /\ HasGuards(g, c) /\ Touches(f, g, k, W)
    <2>1. f.cell[o].block = k /\ f.cell[c].block = k /\ f.cell[c].words = lo /\ f.cell[o].words = mid
        BY <1>7, <1>8, <1>11
    <2>2. f.cell[o].block \in Memory!Slot /\ f.cell[c].block = f.cell[o].block
        BY <1>4, <2>1
    <2> HIDE DEF lo, mid, hi
    <2> QED BY <1>4, <1>5, <1>6, <1>10, <1>12, <2>1, <2>2, TwoGuarded
<1> HIDE DEF g
<1>15. /\ g.blocks = h.blocks /\ g.n_words = h.n_words /\ g.header = h.header
       /\ g.used = h.used /\ g.unused = h.unused /\ g.pools = h.pools /\ g.taken = h.taken
       /\ g.cell[o] = right /\ g.cell[c] = left
       /\ \A d \in Memory!Item \ {c, o} : g.cell[d] = h.cell[d]
    BY <1>10, <1>11, <1>13 DEF SameShape
<1>16. End(g, c) = mid /\ End(g, o) = hi
    BY <1>12, <1>13 DEF SameShape, End
<1>17. Touches(h, g, k, W)
    BY <1>10, <1>14 DEF Touches
<1>18. W \subseteq Int /\ \A w \in W : lo <= w /\ w < hi
    BY <1>4, <1>5, <1>6
<1>19. CellOK(g, c)
    <2>1. CellOK(h, c)
        BY <1>1 DEF Layout, CellsOK
    <2>2. h.cell[c].requested \in Int
        BY <1>1, CellType
    <2>3. h.cell[c].requested <= (n - 2) * WordSize
        <3>1. h.cell[c].requested <= (h.cell[c].n_words - 2) * WordSize /\ h.cell[c].n_words <= n
            BY <1>5, <2>1 DEF CellOK
        <3> QED BY <1>5, <2>2, <3>1, RoomGrows
    <2>4. InBlocks(g, k) /\ c \in g.taken
        BY <1>5, <1>15, <2>1 DEF InBlocks, CellOK
    <2>5. n > 2
        BY <1>4, <1>5, <1>6
    <2>6. /\ g.cell[c].block = k /\ g.cell[c].words = lo /\ g.cell[c].n_words = n
          /\ g.cell[c].requested = h.cell[c].requested
        BY <1>8, <1>15
    <2>7. End(g, c) <= g.n_words[k]
        <3>1. h.n_words[k] \in Int
            BY <1>1, <1>4 DEF HeapRec
        <3> QED BY <1>4, <1>5, <1>6, <1>15, <1>16, <3>1
    <2>8. h.cell[c].requested \in Length \union {0}
        BY <2>1 DEF CellOK
    <2> HIDE DEF k, lo
    <2> QED BY <1>4, <2>3, <2>4, <2>5, <2>6, <2>7, <2>8 DEF CellOK
<1>20. CellOK(g, o)
    <2>1. InBlocks(g, k) /\ o \in g.taken
        BY <1>1, <1>3, <1>5, <1>15 DEF InBlocks, CellOK, Layout, CellsOK
    <2>2. 0 <= (right.n_words - 2) * WordSize
        <3>1. right.n_words - 2 \in Nat
            BY <1>5, <1>7
        <3> QED BY <3>1, Sizes
    <2>3. 0 <= mid
        BY <1>4, <1>5, <1>6
    <2> QED BY <1>4, <1>7, <1>15, <1>16, <2>1, <2>2, <2>3 DEF CellOK
<1>21. Redivides(h, g, c, o, k, lo, hi, W)
    <2>1. \A d \in Memory!Item \ {c, o} :
              /\ g.cell[d] = h.cell[d] /\ (IsLive(h, d) => d \in g.taken)
              /\ h.cell[d].block = k => End(h, d) <= lo \/ hi <= h.cell[d].words
        BY <1>1, <1>4, <1>15 DEF Layout, CellsOK, CellOK
    <2>2. \A d \in {c, o} : IsLive(h, d) => Within(h, d, k, lo, hi)
        BY <1>4
    <2>3. Within(g, o, k, lo, hi) /\ Within(g, c, k, lo, hi)
        BY <1>4, <1>5, <1>6, <1>7, <1>8, <1>15, <1>16 DEF Within
    <2>4. \A d \in {c, o} : IsLive(g, d) => Within(g, d, k, lo, hi) /\ CellOK(g, d) /\ HasGuards(g, d)
        BY <1>14, <1>19, <1>20, <2>3
    <2>5. \A w \in Int : lo <= w /\ w < hi => HasWord(g, c, k, w) \/ HasWord(g, o, k, w)
        BY <1>4, <1>5, <1>7, <1>8, <1>15, <1>16 DEF HasWord
    <2>6. End(g, c) <= g.cell[o].words
        BY <1>5, <1>7, <1>15, <1>16
    <2> HIDE DEF W
    <2> QED BY <1>1, <1>4, <1>13, <1>15, <1>17, <1>18, <2>1, <2>2, <2>4, <2>5, <2>6 DEF Redivides
<1>22. Layout(g) /\ Keeps(h, g, {c, o})
    BY <1>21, RedividedLayout
<1>23. KeepsCell(h, g, o)
    BY <1>7, <1>15 DEF KeepsCell, IsUsed
<1>24. KeepsCell(h, g, c)
    <2>1. \A w \in W : ~(h.cell[c].words < w /\ w < End(h, c) - 1)
        BY <1>4, <1>5, <1>6
    <2> HIDE DEF W
    <2>2. SameBytes(h, g, c)
        BY <1>1, <1>17, <1>18, <2>1, BytesKept
    <2> QED BY <1>8, <1>15, <2>2 DEF KeepsCell, IsUsed, IsLive
<1>25. Keeps(h, g, {})
    BY <1>22, <1>23, <1>24 DEF Keeps
<1>26. \A d \in Memory!Item : /\ IsLive(g, d) <=> IsLive(h, d)
                              /\ g.cell[d].block = h.cell[d].block
                              /\ g.cell[d].requested = h.cell[d].requested
    BY <1>7, <1>8, <1>15 DEF IsLive
<1>27. h.taken \subseteq Memory!Item
    BY <1>1 DEF HeapRec
<1>28. BlocksOK(g)
    BY <1>1, <1>15, <1>26, <1>27 DEF BlocksOK, InBlocks
<1>29. TakenBut(g, {})
    BY <1>1, <1>15, <1>26, <1>27 DEF TakenBut, InBlocks
<1>30. PoolsHold(g)
    BY <1>1, <1>15 DEF PoolsHold
<1>31. RingsBut(g, 0)
    <2>1. \A j \in Memory!Slot : UsedSet(g, j, 0) = UsedSet(h, j, 0)
                                 /\ UnusedSet(g, j, 0) = UnusedSet(h, j, 0)
        BY <1>26 DEF UsedSet, UnusedSet
    <2> QED BY <1>1, <1>15, <2>1, RingsAre
<1>32. Good(g, 0, {})
    BY <1>13, <1>22, <1>28, <1>29, <1>30, <1>31 DEF Good
<1> QED BY <1>9, <1>15, <1>25, <1>32 DEF g

\* What an operation does that concerns none of the program's memory.
Grows(h, g) == Good(g, 0, {}) /\ Keeps(h, g, {}) /\ g.blocks = h.blocks

LEMMA GrowsOn ==
    ASSUME NEW f, NEW g, NEW h, Grows(f, g), Grows(g, h)
    PROVE  Grows(f, h)
BY KeepsOn DEF Grows

LEMMA EatGrows ==
    ASSUME NEW h, Good(h, 0, {}), NEW c \in Memory!Item, IsUsed(h, c), NEW n \in Int
    PROVE  Grows(h, Memory!Eat(h, c, n))
<1> DEFINE o == Memory!After(h, c)
           k == h.cell[c].block
           more == n - h.cell[c].n_words
           whole == [h EXCEPT !.cell[c].n_words = @ + h.cell[o].n_words,
                              !.unused[k] = Memory!Drop(@, o)]
           parted == [h EXCEPT !.cell[o].words = @ + more, !.cell[o].n_words = @ - more,
                               !.cell[c].n_words = n]
<1>1. h \in HeapRec /\ Layout(h) /\ BlocksOK(h) /\ IsLive(h, c) /\ c \in Int /\ c # 0
    BY CellType DEF Good, IsUsed
<1>2. CASE more <= 0 \/ ~Memory!IsUnused(h, o)
    <2>1. Memory!Eat(h, c, n) = h
        BY <1>2 DEF Memory!Eat
    <2> QED BY <2>1, KeepsItself DEF Grows
<1>3. CASE ~(more <= 0 \/ ~Memory!IsUnused(h, o))
    <2>1. o # 0 /\ h.cell[o].requested = 0
        BY <1>3 DEF Memory!IsUnused
    <2>2. o \in Memory!Item /\ IsLive(h, o) /\ o # c /\ h.cell[o].block = k
          /\ h.cell[o].words = End(h, c)
        BY <1>1, <2>1, AfterIs
    <2> HIDE DEF o
    <2>3. /\ h.cell[c].n_words \in Int /\ h.cell[o].n_words \in Int /\ more \in Int /\ more > 0
          /\ h.cell[c] \in CellRec
        <3>1. h.cell[c].n_words \in Int /\ h.cell[o].n_words \in Int /\ h.cell[c] \in CellRec
            BY <1>1, <2>2, CellType
        <3> QED BY <1>3, <3>1
    <2>4. CASE more + Waste >= h.cell[o].n_words
        <3> DEFINE r == Memory!Drop(h.unused[k], o)
                   u == [h.unused EXCEPT ![k] = r]
                   h1 == [h EXCEPT !.unused = u]
                   lo == h.cell[c].words
                   hi == End(h, o)
                   big == [h.cell[c] EXCEPT !.n_words = @ + h.cell[o].n_words]
        <3>1. Memory!Eat(h, c, n) = Memory!PoolFree(Memory!WriteGuards(whole, c), o)
            BY <1>3, <2>4 DEF Memory!Eat, o
        <3>2. RingMoved(h, h1) /\ h1.used = h.used /\ h1.unused = u
              /\ Good(h1, o, {}) /\ Keeps(h, h1, {})
            BY <2>1, <2>2, DropUnused
        <3>3. /\ h1 \in HeapRec /\ h1.blocks = h.blocks /\ h1.n_words = h.n_words
              /\ h1.header = h.header /\ h1.cell = h.cell /\ h1.pools = h.pools
              /\ h1.taken = h.taken /\ h1.mem = h.mem
            BY SMTT(30), <3>2 DEF RingMoved
        <3>4. u \in [Memory!Slot -> Seq(Memory!Item)]
            BY <3>2, <3>3 DEF HeapRec
        <3>5. whole = [[h EXCEPT !.unused = u] EXCEPT !.cell = [@ EXCEPT ![c] = big]]
            BY <1>1 DEF HeapRec
        <3> HIDE DEF u, r
        <3>6. /\ big \in CellRec /\ big.block = k /\ big.words = lo
              /\ big.requested = h.cell[c].requested
              /\ big.n_words = h.cell[c].n_words + h.cell[o].n_words
            <4>1. h.cell[c].n_words + h.cell[o].n_words \in Int
                BY <2>3
            <4> QED BY <2>3, <4>1 DEF CellRec
        <3> HIDE DEF big
        <3>7. /\ whole \in HeapRec /\ whole.blocks = h.blocks /\ whole.n_words = h.n_words
              /\ whole.header = h.header /\ whole.used = h.used /\ whole.unused = u
              /\ whole.pools = h.pools /\ whole.taken = h.taken /\ whole.mem = h.mem
              /\ whole.cell = [h.cell EXCEPT ![c] = big]
            BY <1>1, <3>4, <3>5, <3>6 DEF HeapRec
        <3> HIDE DEF whole, h1
        <3>8. hi - lo = h.cell[c].n_words + h.cell[o].n_words
            <4>1. h.cell[c].words \in Int
                BY <1>1, CellType
            <4> QED BY <2>2, <2>3, <4>1 DEF End
        <3>9. whole.cell[c] = big /\ \A d \in Memory!Item \ {c} : whole.cell[d] = h.cell[d]
            BY <1>1, <3>7 DEF HeapRec
        <3>10. Resized(h1, whole, c, lo, hi - lo)
            BY <3>2, <3>3, <3>6, <3>7, <3>8, <3>9 DEF Resized
        <3>11. Neighbours(h1, c, o, k, lo, hi)
            BY <1>1, <2>2, <3>3 DEF Neighbours, IsLive, End
        <3> DEFINE g == Memory!PoolFree(Memory!WriteGuards(whole, c), o)
        <3>12. Good(g, 0, {}) /\ Keeps(h1, g, {o}) /\ ~IsLive(g, o) /\ g.blocks = h1.blocks
            <4> HIDE DEF lo, hi, k
            <4> QED BY <3>2, <3>10, <3>11, AbsorbIsGood
        <3> HIDE DEF g
        <3>13. ~IsUsed(h1, o) /\ ~IsUsed(g, o)
            BY <2>1, <3>3, <3>12 DEF IsUsed
        <3>14. Keeps(h1, g, {})
            BY <3>12, <3>13 DEF Keeps, KeepsCell
        <3>15. Keeps(h, g, {})
            BY <3>2, <3>14, KeepsOn
        <3> QED BY <3>1, <3>3, <3>12, <3>15 DEF Grows, g
    <2>5. CASE ~(more + Waste >= h.cell[o].n_words)
        <3>1. Memory!Eat(h, c, n) = Memory!WriteGuards(Memory!WriteGuards(parted, o), c)
            BY <1>3, <2>5 DEF Memory!Eat, o
        <3>2. h.cell[o].n_words - more > 2 /\ n = h.cell[c].n_words + more
            BY <2>3, <2>5, Sizes
        <3> HIDE DEF more
        <3> DEFINE g == Memory!WriteGuards(Memory!WriteGuards(parted, o), c)
        <3>3. Shifts(h, parted, c, o, more, n)
            BY DEF Shifts
        <3> HIDE DEF parted
        <3>4. Good(g, 0, {}) /\ Keeps(h, g, {}) /\ g.blocks = h.blocks
            BY <1>1, <2>1, <2>2, <2>3, <3>2, <3>3, ShiftIsGood
        <3> HIDE DEF g
        <3> QED BY <3>1, <3>4 DEF Grows, g
    <2> QED BY <2>4, <2>5
<1> QED BY <1>2, <1>3

\* The loop of sec_realloc, after any number of rounds.
LEMMA GrownGrows ==
    ASSUME NEW h, Good(h, 0, {}), NEW c \in Memory!Item, IsUsed(h, c), NEW n \in Int
    PROVE  Grows(h, Memory!Grown(h, c, n))
<1> DEFINE X == {g \in HeapRec : Grows(h, g)}
           step == [i \in 1 .. SlotWords |-> [g \in X |-> Memory!Eat(g, c, n)]]
           G == [i \in 0 .. SlotWords |-> X]
           Equation(f) == f = [i \in 0 .. SlotWords |->
                                  IF i = 0 THEN h ELSE Memory!Eat(f[i - 1], c, n)]
           rounds == CHOOSE f : Equation(f)
<1>1. SlotWords \in Nat
    BY Sizes
<1>2. h \in X
    BY KeepsItself DEF Grows, Good
<1>3. ASSUME NEW g \in X PROVE Memory!Eat(g, c, n) \in X
    <2>1. Grows(h, g) /\ Good(g, 0, {})
        BY DEF Grows
    <2>2. IsUsed(g, c)
        BY <2>1 DEF Grows, Keeps, KeepsCell
    <2>3. Grows(g, Memory!Eat(g, c, n))
        BY <2>1, <2>2, EatGrows
    <2>4. Grows(h, Memory!Eat(g, c, n))
        BY <2>1, <2>3, GrowsOn
    <2> QED BY <2>4 DEF Grows, Good
<1>4. \A i \in 1 .. SlotWords : \A g \in G[i - 1] : step[i][g] \in G[i]
    <2> SUFFICES ASSUME NEW i \in 1 .. SlotWords, NEW g \in G[i - 1] PROVE step[i][g] \in G[i]
        OBVIOUS
    <2>1. i - 1 \in 0 .. SlotWords /\ i \in 0 .. SlotWords
        BY <1>1
    <2> HIDE DEF X
    <2>2. g \in X
        BY <2>1
    <2>3. step[i][g] = Memory!Eat(g, c, n)
        BY <2>2
    <2> QED BY <1>3, <2>1, <2>2, <2>3
<1>5. PICK f : /\ f = [i \in 0 .. SlotWords |-> f[i]]
               /\ f[0] = h /\ \A i \in 1 .. SlotWords : f[i] = step[i][f[i - 1]]
               /\ \A i \in 0 .. SlotWords : f[i] \in G[i]
    <2>1. h \in G[0]
        BY <1>1, <1>2
    <2> HIDE DEF step, G, X
    <2>2. \E f : Guided(f, SlotWords, G, h, step)
        BY <1>1, <1>4, <2>1, GuidedRecursion
    <2> QED BY <2>2 DEF Guided
<1>6. \A i \in 1 .. SlotWords : f[i] = Memory!Eat(f[i - 1], c, n)
    <2> SUFFICES ASSUME NEW i \in 1 .. SlotWords PROVE f[i] = Memory!Eat(f[i - 1], c, n)
        OBVIOUS
    <2>1. i - 1 \in 0 .. SlotWords
        BY <1>1
    <2> HIDE DEF X
    <2>2. f[i - 1] \in X
        BY <1>5, <2>1
    <2>3. step[i][f[i - 1]] = Memory!Eat(f[i - 1], c, n)
        BY <2>2
    <2> QED BY <1>5, <2>3
<1>7. Equation(f)
    <2>1. \A i \in 0 .. SlotWords : i # 0 => i \in 1 .. SlotWords
        BY <1>1
    <2> HIDE DEF X, step
    <2>2. \A i \in 0 .. SlotWords : f[i] = IF i = 0 THEN h ELSE Memory!Eat(f[i - 1], c, n)
        BY <1>5, <1>6, <2>1
    <2> QED BY <1>5, <2>2
<1>8. Equation(rounds)
    <2> HIDE DEF Equation
    <2> QED BY <1>7
<1>9. rounds[0] = h /\ \A i \in 1 .. SlotWords : rounds[i] = Memory!Eat(rounds[i - 1], c, n)
    <2> HIDE DEF rounds
    <2>1. 0 \in 0 .. SlotWords /\ \A i \in 1 .. SlotWords : i \in 0 .. SlotWords /\ i # 0
        BY <1>1
    <2> QED BY <1>8, <2>1
<1>10. Memory!Grown(h, c, n) = rounds[SlotWords]
    BY DEF Memory!Grown
<1> HIDE DEF rounds, Equation
<1>11. \A i \in 0 .. SlotWords : rounds[i] \in X
    <2> DEFINE S == {i \in 0 .. SlotWords : rounds[i] \in X}
    <2>1. 0 \in S
        BY <1>1, <1>2, <1>9
    <2>2. ASSUME NEW i \in 1 .. SlotWords, i - 1 \in S PROVE i \in S
        <3>1. i \in 0 .. SlotWords
            BY <1>1
        <3>2. rounds[i - 1] \in X
            BY <2>2
        <3> HIDE DEF X
        <3> QED BY <1>3, <1>9, <3>1, <3>2
    <2> HIDE DEF S
    <2>3. \A i \in 0 .. SlotWords : i \in S
        BY <1>1, <2>1, <2>2, Induction
    <2> QED BY <2>3 DEF S
<1>12. rounds[SlotWords] \in X
    BY <1>1, <1>11
<1> QED BY <1>10, <1>12

-----------------------------------------------------------------------------
(* Cells that are used and freed.                                          *)

ZeroBytes(h, c, from) ==
    \A b \in Int : Memory!First(h, c) + from <= b /\ b < Memory!First(h, c) + h.cell[c].requested =>
        h.mem[h.cell[c].block][b] = Memory!Zero

\* From h to g the program got cell c, with so many bytes of zeros.
Obtains(h, g, c, length) ==
    /\ c \in Memory!Item /\ ~IsUsed(h, c) /\ Good(g, 0, {}) /\ Keeps(h, g, {c})
    /\ IsLive(g, c) /\ g.cell[c].requested = length /\ ZeroBytes(g, c, 0)

\* What sec_clear_noaccess fills is what the program has in cell c, or part of it.
LEMMA FillInside ==
    ASSUME NEW h, NEW x, NEW X, Good(h, x, X), NEW c \in Memory!Item, IsLive(h, c),
           NEW from \in Int, NEW to \in Int, Memory!First(h, c) <= from,
           to <= Memory!First(h, c) + (h.cell[c].n_words - 2) * WordSize, NEW v \in Int
    PROVE  LET g == Memory!Fill(h, h.cell[c].block, from, to, v)
           IN  /\ Inside(h, g, c) /\ Good(g, x, X) /\ Keeps(h, g, {c})
               /\ Filled(h, g, h.cell[c].block, from, to, v)
<1> DEFINE k == h.cell[c].block
           g == Memory!Fill(h, k, from, to, v)
<1>1. h \in HeapRec /\ k \in Memory!Slot
    BY CellPlace DEF Good
<1>2. Filled(h, g, k, from, to, v)
    BY <1>1, FillFills
<1> HIDE DEF g
<1>3. (h.cell[c].n_words - 2) * WordSize \in Int /\ Memory!First(h, c) \in Int
      /\ Memory!First(h, c) = (h.cell[c].words + 1) * WordSize
      /\ Memory!First(h, c) + (h.cell[c].n_words - 2) * WordSize = (End(h, c) - 1) * WordSize
    <2>1. h.cell[c].n_words \in Int
        BY <1>1, CellType
    <2>2. (h.cell[c].n_words - 2) * WordSize \in Int
        BY <2>1, Sizes
    <2> QED BY <1>1, <2>2, FirstIs
<1>4. (End(h, c) - 1) * WordSize \in Int
    BY <1>3
<1>5. ASSUME NEW b \in Bytes, from <= b, b < to PROVE IsInner(h, c, b)
    <2>1. b \in Int
        BY DEF Bytes
    <2> QED BY <1>3, <1>4, <1>5, <2>1 DEF IsInner
<1>6. Inside(h, g, c)
    BY <1>2, <1>5 DEF Inside, Filled
<1>7. Good(g, x, X) /\ Keeps(h, g, {c})
    BY <1>6, InsideIsGood
<1> QED BY <1>2, <1>6, <1>7 DEF g

LEMMA UseObtains ==
    ASSUME NEW h, NEW c, Good(h, c, {}), c \in Memory!Item, IsLive(h, c), h.cell[c].requested = 0,
           NEW length \in Length, length <= (h.cell[c].n_words - 2) * WordSize
    PROVE  LET g == Memory!Use(h, c, length)
           IN  /\ Obtains(h, g, c, length) /\ g.blocks = h.blocks
               /\ g.cell[c].block = h.cell[c].block /\ g.cell[c].words = h.cell[c].words
<1> DEFINE k == h.cell[c].block
           r == Memory!Insert(h.used[k], c)
           u == [h.used EXCEPT ![k] = r]
           new == [h.cell[c] EXCEPT !.requested = length]
           f == [[h EXCEPT !.used = u] EXCEPT !.cell = [@ EXCEPT ![c] = new]]
           from == Memory!First(f, c)
           g == Memory!Fill(f, k, from, from + length, Memory!Zero)
<1>1. h \in HeapRec /\ RingsBut(h, c) /\ k \in Memory!Slot
    BY CellPlace DEF Good
<1>2. length \in Int /\ length # 0 /\ length \in Length \union {0}
    BY Sizes
<1>3. Memory!Use(h, c, length) = g
    <2>1. f = [h EXCEPT !.used[k] = Memory!Insert(@, c), !.cell[c].requested = length]
        BY <1>1 DEF HeapRec
    <2> HIDE DEF f
    <2> QED BY <2>1 DEF Memory!Use
<1>4. Ring(r, UsedSet(h, k, c) \union {c})
    <2>1. Ring(h.used[k], UsedSet(h, k, c)) /\ c \notin UsedSet(h, k, c)
        BY <1>1, RingsAre DEF UsedSet
    <2> QED BY <2>1, InsertIntoRing
<1>5. r \in Seq(Memory!Item)
    <2>1. UsedSet(h, k, c) \union {c} \subseteq Memory!Item
        BY DEF UsedSet
    <2> QED BY <1>4, <2>1, RingType
<1> HIDE DEF r
<1>6. u \in [Memory!Slot -> Seq(Memory!Item)] /\ u[k] = r
      /\ \A j \in Memory!Slot \ {k} : u[j] = h.used[j]
    BY <1>1, <1>5 DEF HeapRec
<1> HIDE DEF u
<1>7. /\ new \in CellRec /\ new.block = k /\ new.words = h.cell[c].words
      /\ new.n_words = h.cell[c].n_words /\ new.requested = length
    <2>1. h.cell[c] \in CellRec
        BY <1>1, CellType
    <2> QED BY <1>2, <2>1 DEF CellRec
<1> HIDE DEF new
<1>8. /\ f \in HeapRec /\ f.blocks = h.blocks /\ f.n_words = h.n_words /\ f.header = h.header
      /\ f.used = u /\ f.unused = h.unused /\ f.pools = h.pools /\ f.taken = h.taken
      /\ f.mem = h.mem /\ f.cell = [h.cell EXCEPT ![c] = new]
    BY <1>1, <1>6, <1>7 DEF HeapRec
<1> HIDE DEF f
<1>9. f.cell[c] = new /\ \A d \in Memory!Item \ {c} : f.cell[d] = h.cell[d]
    BY <1>1, <1>8 DEF HeapRec
<1>10. Requests(h, f, c, length)
    BY <1>7, <1>8, <1>9 DEF Requests
<1>11. RingsBut(f, 0)
    <2> SUFFICES ASSUME NEW j \in Memory!Slot
                 PROVE  Ring(f.used[j], UsedSet(f, j, 0)) /\ Ring(f.unused[j], UnusedSet(f, j, 0))
        BY RingsAre
    <2>1. Ring(h.used[j], UsedSet(h, j, c)) /\ Ring(h.unused[j], UnusedSet(h, j, c))
        BY <1>1, RingsAre
    <2>2. \A d \in Memory!Item : d # 0
        BY DEF Memory!Item
    <2>3. UnusedSet(f, j, 0) = UnusedSet(h, j, c)
        BY <1>2, <1>7, <1>9, <2>2 DEF UnusedSet
    <2>4. CASE j = k
        <3>1. UsedSet(f, j, 0) = UsedSet(h, k, c) \union {c}
            BY <1>2, <1>7, <1>9, <2>2, <2>4 DEF UsedSet
        <3> QED BY <1>4, <1>6, <1>8, <2>1, <2>3, <2>4, <3>1
    <2>5. CASE j # k
        <3>1. UsedSet(f, j, 0) = UsedSet(h, j, c)
            BY <1>7, <1>9, <2>2, <2>5 DEF UsedSet
        <3> QED BY <1>6, <1>8, <2>1, <2>3, <2>5, <3>1
    <2> QED BY <2>4, <2>5
<1>12. Good(f, 0, {}) /\ Keeps(h, f, {c})
    BY <1>2, <1>10, <1>11, RequestsIsGood
<1>13. f.cell[c].block = k /\ f.cell[c].n_words = h.cell[c].n_words /\ IsLive(f, c)
       /\ f.cell[c].requested = length /\ f.cell[c].words = h.cell[c].words
    BY <1>7, <1>9 DEF IsLive
<1>14. from \in Int /\ (h.cell[c].n_words - 2) * WordSize \in Int
    <2>1. h.cell[c].n_words \in Int
        BY <1>1, CellType
    <2> QED BY <1>8, <2>1, FirstIs, Sizes
<1> HIDE DEF from
<1>15. /\ from + length \in Int /\ from = Memory!First(f, c)
       /\ from + length <= Memory!First(f, c) + (f.cell[c].n_words - 2) * WordSize
    BY <1>2, <1>13, <1>14 DEF from
<1>16. Memory!Zero \in Int
    BY DEF Memory!Zero
<1>17. Good(g, 0, {}) /\ Keeps(f, g, {c}) /\ Filled(f, g, k, from, from + length, Memory!Zero)
    <2> DEFINE to == from + length
               z == Memory!Zero
    <2>1. /\ to \in Int /\ z \in Int /\ Memory!First(f, c) <= from
          /\ to <= Memory!First(f, c) + (f.cell[c].n_words - 2) * WordSize
        BY <1>14, <1>15, <1>16
    <2>2. g = Memory!Fill(f, f.cell[c].block, from, to, z)
        BY <1>13
    <2> HIDE DEF to, z, g
    <2>3. /\ Good(g, 0, {}) /\ Keeps(f, g, {c})
          /\ Filled(f, g, f.cell[c].block, from, to, z)
        BY <1>12, <1>13, <1>14, <2>1, <2>2, FillInside
    <2> HIDE DEF k
    <2> QED BY <1>13, <2>3 DEF to, z
<1> HIDE DEF g
<1>18. Keeps(h, g, {c})
    BY <1>12, <1>17, KeepsOn
<1>19. g.cell = f.cell /\ g.blocks = h.blocks /\ IsLive(g, c)
    BY <1>8, <1>13, <1>17 DEF Filled, SameShape, IsLive
<1>20. ZeroBytes(g, c, 0)
    <2> SUFFICES ASSUME NEW b \in Int, Memory!First(g, c) + 0 <= b,
                        b < Memory!First(g, c) + g.cell[c].requested
                 PROVE  g.mem[g.cell[c].block][b] = Memory!Zero
        BY DEF ZeroBytes
    <2>1. Memory!First(g, c) = from
        BY <1>15, <1>19 DEF Memory!First
    <2>2. from <= b /\ b < from + length
        BY <1>13, <1>14, <1>19, <2>1
    <2>3. g \in HeapRec /\ Layout(g) /\ BlocksOK(g)
        BY <1>17 DEF Good
    <2>4. Memory!First(g, c) <= b
        BY <2>1, <2>2
    <2>5. IsInner(g, c, b)
        BY <1>19, <2>3, <2>4, RequestedIsInner
    <2>6. b \in Bytes
        BY <1>19, <2>3, <2>5, InnerByte
    <2> QED BY <1>1, <1>13, <1>17, <1>19, <2>2, <2>6 DEF Filled
<1>21. ~IsUsed(h, c)
    BY DEF IsUsed
<1>22. Obtains(h, g, c, length)
    BY <1>13, <1>17, <1>18, <1>19, <1>20, <1>21 DEF Obtains
<1> QED BY <1>3, <1>13, <1>19, <1>22

-----------------------------------------------------------------------------
(* sec_alloc.                                                              *)

LEMMA WordsHold ==
    ASSUME NEW length \in Length
    PROVE  /\ Memory!ToWords(length) \in Nat /\ Memory!ToWords(length) >= 1
           /\ length <= Memory!ToWords(length) * WordSize
           /\ (Memory!ToWords(length) - 1) * WordSize < length
<1> DEFINE q == length \div WordSize
           r == length % WordSize
<1>1. WordSize \in Nat /\ WordSize >= 1 /\ length \in Nat /\ length >= 1
    BY Sizes
<1>2. q \in Int /\ r \in Int /\ 0 <= r /\ r < WordSize /\ length = WordSize * q + r
    BY <1>1
<1>3. Memory!ToWords(length) = q + (IF r # 0 THEN 1 ELSE 0)
    BY DEF Memory!ToWords
<1> HIDE DEF q, r
<1>4. q >= 0
    <2>1. SUFFICES ASSUME q <= -1 PROVE FALSE
        BY <1>2
    <2>2. q * WordSize <= (-1) * WordSize /\ q * WordSize \in Int
        BY <1>2, <2>1, WordsOrdered
    <2>3. WordSize * q = q * WordSize /\ (-1) * WordSize = -WordSize
        BY <1>1, <1>2
    <2> QED BY <1>1, <1>2, <2>2, <2>3
<1>5. WordSize * q = q * WordSize /\ (q + 1) * WordSize = q * WordSize + WordSize
      /\ q * WordSize \in Int
    BY <1>1, <1>2
<1>6. CASE r = 0
    <2>1. q # 0
        <3>1. 0 * WordSize = 0
            BY <1>1
        <3> QED BY <1>1, <1>2, <1>5, <1>6, <3>1
    <2>2. Memory!ToWords(length) = q /\ (q - 1) * WordSize = q * WordSize - WordSize
        BY <1>1, <1>2, <1>3, <1>6
    <2> QED BY <1>1, <1>2, <1>4, <1>5, <1>6, <2>1, <2>2
<1>7. CASE r # 0
    <2>1. Memory!ToWords(length) = q + 1 /\ (q + 1) - 1 = q
        BY <1>2, <1>3, <1>7
    <2> QED BY <1>1, <1>2, <1>4, <1>5, <1>7, <2>1
<1> QED BY <1>6, <1>7

\* What allocation returns: nothing new, or the pointer to a cell that was not in use.
Gets(h, r, length) ==
    /\ r.h.blocks = h.blocks
    /\ \/ r.ptr = Memory!Null /\ Good(r.h, 0, {}) /\ Keeps(h, r.h, {})
       \/ \E c \in Memory!Item : Obtains(h, r.h, c, length) /\ r.ptr = PointerOf(r.h, c)

LEMMA FitGets ==
    ASSUME NEW h, Good(h, 0, {}), NEW c \in Memory!Item, IsLive(h, c), h.cell[c].requested = 0,
           NEW length \in Length, length <= (h.cell[c].n_words - 2) * WordSize
    PROVE  LET k == h.cell[c].block
               g == [h EXCEPT !.unused[k] = Memory!Drop(@, c)]
           IN  Gets(h, [h |-> Memory!Use(g, c, length), ptr |-> <<k, g.cell[c].words + 1>>], length)
<1> DEFINE k == h.cell[c].block
           f == [h EXCEPT !.unused = [@ EXCEPT ![k] = Memory!Drop(h.unused[k], c)]]
           g == [h EXCEPT !.unused[k] = Memory!Drop(@, c)]
           u == Memory!Use(g, c, length)
<1>1. h \in HeapRec
    BY DEF Good
<1>2. g = f
    BY <1>1 DEF HeapRec
<1>3. RingMoved(h, f) /\ Good(f, c, {}) /\ Keeps(h, f, {})
    BY DropUnused
<1> HIDE DEF f, g
<1>4. g.cell = h.cell /\ g.blocks = h.blocks /\ Good(g, c, {}) /\ Keeps(h, g, {})
    BY <1>2, <1>3 DEF RingMoved
<1>5. IsLive(g, c) /\ g.cell[c].requested = 0 /\ length <= (g.cell[c].n_words - 2) * WordSize
    BY <1>4 DEF IsLive
<1>6. /\ Obtains(g, u, c, length) /\ u.blocks = g.blocks
      /\ u.cell[c].block = g.cell[c].block /\ u.cell[c].words = g.cell[c].words
    BY <1>4, <1>5, UseObtains
<1> HIDE DEF u
<1>7. Keeps(h, u, {c})
    BY <1>4, <1>6, KeepsMore, KeepsOn DEF Obtains
<1>8. ~IsUsed(h, c)
    BY DEF IsUsed
<1>9. Obtains(h, u, c, length)
    BY <1>6, <1>7, <1>8 DEF Obtains
<1>10. <<k, g.cell[c].words + 1>> = PointerOf(u, c)
    BY <1>4, <1>6 DEF PointerOf
<1>11. Gets(h, [h |-> u, ptr |-> PointerOf(u, c)], length)
    BY <1>4, <1>6, <1>9 DEF Gets
<1> QED BY <1>10, <1>11 DEF g, u

LEMMA SplitGets ==
    ASSUME NEW h, Good(h, 0, {}), NEW f, NEW o, PoolTook(h, f, o),
           NEW c \in Memory!Item, IsLive(h, c), h.cell[c].requested = 0,
           NEW length \in Length, NEW n \in Int, n > 2, h.cell[c].n_words - n > 2,
           length <= (n - 2) * WordSize
    PROVE  LET g == Memory!SplitOff(f, c, o, n)
           IN  Gets(h, [h |-> Memory!Use(g, o, length),
                        ptr |-> <<h.cell[c].block, g.cell[o].words + 1>>], length)
<1> DEFINE g == Memory!SplitOff(f, c, o, n)
           u == Memory!Use(g, o, length)
<1>1. Good(f, 0, {o}) /\ Keeps(h, f, {})
    BY TookIsGood
<1>2. f.cell[c] = h.cell[c] /\ o # c /\ f.blocks = h.blocks
    <2>1. c \in h.taken /\ h \in HeapRec
        BY CellPlace DEF Good, CellOK
    <2> QED BY <2>1 DEF PoolTook, Alike
<1>3. IsLive(f, c) /\ f.cell[c].requested = 0 /\ f.cell[c].n_words - n > 2
    BY <1>2 DEF IsLive
<1>4. /\ Good(g, o, {}) /\ Keeps(f, g, {}) /\ g.blocks = f.blocks
      /\ o \in Memory!Item /\ ~IsUsed(f, o)
      /\ g.cell[o] = [block |-> f.cell[c].block, words |-> f.cell[c].words,
                      n_words |-> n, requested |-> 0]
    BY <1>1, <1>3, SplitIsGood
<1> HIDE DEF g
<1>5. /\ IsLive(g, o) /\ g.cell[o].requested = 0 /\ g.cell[o].block = h.cell[c].block
      /\ length <= (g.cell[o].n_words - 2) * WordSize
    BY <1>2, <1>4 DEF IsLive
<1>6. /\ Obtains(g, u, o, length) /\ u.blocks = g.blocks
      /\ u.cell[o].block = g.cell[o].block /\ u.cell[o].words = g.cell[o].words
    BY <1>4, <1>5, UseObtains
<1> HIDE DEF u
<1>7. Keeps(h, u, {o})
    <2>1. Keeps(h, g, {})
        BY <1>1, <1>4, KeepsOn
    <2> QED BY <1>6, <2>1, KeepsMore, KeepsOn DEF Obtains
<1>8. ~IsUsed(h, o)
    <2>1. o \notin h.taken
        BY DEF PoolTook
    <2>2. IsLive(h, o) => o \in h.taken
        BY <1>4 DEF Good, Layout, CellsOK, CellOK
    <2> QED BY <2>1, <2>2 DEF IsUsed
<1>9. Obtains(h, u, o, length)
    BY <1>4, <1>6, <1>7, <1>8 DEF Obtains
<1>10. <<h.cell[c].block, g.cell[o].words + 1>> = PointerOf(u, o)
    BY <1>5, <1>6 DEF PointerOf
<1>11. Gets(h, [h |-> u, ptr |-> PointerOf(u, o)], length)
    BY <1>2, <1>4, <1>6, <1>9 DEF Gets
<1> QED BY <1>10, <1>11 DEF g, u

LEMMA SecAllocGets ==
    ASSUME NEW h, Good(h, 0, {}), NEW k \in Memory!Slot, NEW length \in Length
    PROVE  Gets(h, Memory!SecAlloc(h, k, length), length)
<1> DEFINE m == Memory!ToWords(length)
           n == m + 2
           ring == h.unused[k]
           fits == {i \in 1 .. Len(ring) : h.cell[ring[i]].n_words >= n}
           at == Memory!Least(fits)
           c == ring[at]
           fresh == Memory!PoolAlloc(h)
           r == Memory!SecAlloc(h, k, length)
           dropped == [h EXCEPT !.unused[k] = Memory!Drop(@, c)]
           split == Memory!SplitOff(fresh.h, c, fresh.item, n)
<1>1. h \in HeapRec /\ PoolsHold(h)
    BY DEF Good
<1>2. m \in Nat /\ m >= 1 /\ length <= m * WordSize /\ length \in Int
    BY WordsHold, Sizes
<1>3. r = IF fits = {} THEN [h |-> h, ptr |-> Memory!Null]
          ELSE IF h.cell[c].n_words <= n + Waste
          THEN [h |-> Memory!Use(dropped, c, length), ptr |-> <<k, dropped.cell[c].words + 1>>]
          ELSE IF fresh.item = 0 THEN [h |-> fresh.h, ptr |-> Memory!Null]
          ELSE [h |-> Memory!Use(split, fresh.item, length),
                ptr |-> <<k, split.cell[fresh.item].words + 1>>]
    BY DEF Memory!SecAlloc
<1>4. Gets(h, [h |-> h, ptr |-> Memory!Null], length)
    BY KeepsItself DEF Gets
<1>5. ASSUME fits # {}
      PROVE  /\ c \in Memory!Item /\ h.cell[c].block = k /\ IsLive(h, c)
             /\ h.cell[c].requested = 0 /\ h.cell[c].n_words >= n
    <2>1. Ring(ring, UnusedSet(h, k, 0))
        BY RingsAre DEF Good
    <2>2. fits \subseteq Nat
        BY SMTT(30)
    <2>3. at \in fits
        BY <1>5, <2>2, LeastIs
    <2> HIDE DEF at
    <2>4. at \in 1 .. Len(ring) /\ h.cell[ring[at]].n_words >= n
        BY <2>3
    <2>5. ring[at] \in UnusedSet(h, k, 0)
        <3> HIDE DEF ring
        <3> QED BY <2>1, <2>4 DEF Ring
    <2>6. k # 0
        BY DEF Memory!Slot
    <2> QED BY <2>4, <2>5, <2>6 DEF UnusedSet, IsLive
<1> HIDE DEF fits, at, r
<1>6. CASE fits = {}
    BY <1>3, <1>4, <1>6 DEF r
<1>7. CASE fits # {} /\ h.cell[c].n_words <= n + Waste
    <2> HIDE DEF ring
    <2>1. length <= (h.cell[c].n_words - 2) * WordSize
        <3>1. h.cell[c].n_words \in Int
            BY <1>1, <1>5, <1>7, CellType
        <3>2. m * WordSize <= (h.cell[c].n_words - 2) * WordSize
              /\ m * WordSize \in Int /\ (h.cell[c].n_words - 2) * WordSize \in Int
            <4>1. m <= h.cell[c].n_words - 2 /\ h.cell[c].n_words - 2 \in Int
                BY <1>2, <1>5, <1>7, <3>1
            <4> QED BY <1>2, <4>1, WordsOrdered
        <3> QED BY <1>2, <3>2
    <2>2. Gets(h, [h |-> Memory!Use(dropped, c, length),
                   ptr |-> <<k, dropped.cell[c].words + 1>>], length)
        <3> HIDE DEF c
        <3> QED BY <1>5, <1>7, <2>1, FitGets
    <2> QED BY <1>3, <1>7, <2>2 DEF r
<1>8. CASE fits # {} /\ ~(h.cell[c].n_words <= n + Waste) /\ fresh.item = 0
    <2>1. fresh.h = h
        <3>1. ~PoolTook(h, fresh.h, 0)
            BY DEF PoolTook, Memory!Item
        <3> QED BY <1>1, <1>8, <3>1, PoolAllocTakes
    <2> QED BY <1>3, <1>4, <1>8, <2>1 DEF r
<1>9. CASE fits # {} /\ ~(h.cell[c].n_words <= n + Waste) /\ fresh.item # 0
    <2>1. PoolTook(h, fresh.h, fresh.item)
        BY <1>1, <1>9, PoolAllocTakes
    <2>2. n \in Int /\ n > 2 /\ h.cell[c].n_words - n > 2 /\ length <= (n - 2) * WordSize
        <3>1. h.cell[c].n_words \in Int
            BY <1>1, <1>5, <1>9, CellType
        <3>2. n - 2 = m
            BY <1>2
        <3> QED BY <1>2, <1>9, <3>1, <3>2, Sizes
    <2>3. Gets(h, [h |-> Memory!Use(split, fresh.item, length),
                   ptr |-> <<k, split.cell[fresh.item].words + 1>>], length)
        <3> HIDE DEF c, n, fresh
        <3> QED BY <1>5, <1>9, <2>1, <2>2, SplitGets
    <2> QED BY <1>3, <1>9, <2>3 DEF r
<1> QED BY <1>6, <1>7, <1>8, <1>9

-----------------------------------------------------------------------------
(* sec_free.                                                               *)

LEMMA KeepsUnused ==
    ASSUME NEW h, NEW g, NEW c, Keeps(h, g, {c}), ~IsUsed(h, c), ~IsUsed(g, c)
    PROVE  Keeps(h, g, {})
BY DEF Keeps, KeepsCell

\* Cell m of block k is free to be joined with others: in no ring, or in that of
\* the unused cells.
Loose(h, y, m, k) ==
    /\ Good(h, y, {}) /\ m \in Memory!Item /\ k \in Memory!Slot /\ h.cell[m].block = k
    /\ y = m \/ (y = 0 /\ h.cell[m].requested = 0)

\* The program had c, and m has its words now.
Sheds(h, g, c, m) ==
    /\ Keeps(h, g, {c}) /\ g.blocks = h.blocks
    /\ m = c => g = h
    /\ m # c => ~IsUsed(g, c) /\ ~IsUsed(g, m)

LEMMA ShedsTwice ==
    ASSUME NEW f, NEW g, NEW h, NEW a, NEW b, NEW c,
           a \in Memory!Item, b \in Memory!Item, Sheds(f, g, a, b), Sheds(g, h, b, c)
    PROVE  /\ Keeps(f, h, {a}) /\ h.blocks = f.blocks
           /\ c # a => ~IsUsed(h, a) /\ ~IsUsed(h, c)
<1>1. CASE b = a
    <2>1. g = f
        BY <1>1 DEF Sheds
    <2> QED BY <1>1, <2>1 DEF Sheds
<1>2. CASE b # a /\ c = b
    <2>1. h = g
        BY <1>2 DEF Sheds
    <2> QED BY <1>2, <2>1 DEF Sheds
<1>3. CASE b # a /\ c # b
    <2>1. ~IsUsed(g, b) /\ ~IsUsed(h, b) /\ ~IsUsed(h, c) /\ ~IsUsed(g, a)
        BY <1>3 DEF Sheds
    <2>2. Keeps(g, h, {})
        BY <2>1, KeepsUnused DEF Sheds
    <2>3. ~IsUsed(h, a)
        BY <2>1, <2>2 DEF Keeps, KeepsCell
    <2>4. Keeps(f, h, {a})
        BY <2>2, KeepsMore, KeepsOn DEF Sheds
    <2> QED BY <2>1, <2>3, <2>4 DEF Sheds
<1> QED BY <1>1, <1>2, <1>3

\* A join leaves cell m, or the neighbour that takes m over.
Joins(h, r, y, m, k) == Loose(r.h, 0, r.c, k) \/ (r.h = h /\ r.c = m /\ Loose(h, y, m, k))

LEMMA JoinBeforeSheds ==
    ASSUME NEW h, NEW c, NEW k, Loose(h, c, c, k)
    PROVE  LET r == Memory!JoinBefore(h, c)
           IN  Joins(h, r, c, c, k) /\ Sheds(h, r.h, c, r.c)
<1> DEFINE o == Memory!Before(h, c)
           f == [h EXCEPT !.cell[o].n_words = @ + h.cell[c].n_words]
           g == Memory!PoolFree(Memory!WriteGuards(f, o), c)
           r == Memory!JoinBefore(h, c)
<1>1. /\ Good(h, c, {}) /\ c \in Memory!Item /\ k \in Memory!Slot /\ h.cell[c].block = k
      /\ h \in HeapRec /\ IsLive(h, c) /\ k # 0
    BY DEF Loose, Good, IsLive, Memory!Slot
<1>2. r = IF Memory!IsUnused(h, o) THEN [h |-> g, c |-> o] ELSE [h |-> h, c |-> c]
    BY DEF Memory!JoinBefore
<1> HIDE DEF r
<1>3. CASE ~Memory!IsUnused(h, o)
    <2>1. r.h = h /\ r.c = c
        BY <1>2, <1>3
    <2> QED BY <2>1, KeepsItself DEF Joins, Sheds, r
<1>4. CASE Memory!IsUnused(h, o)
    <2>1. r.h = g /\ r.c = o
        BY <1>2, <1>4
    <2>2. o # 0 /\ h.cell[o].requested = 0
        BY <1>4 DEF Memory!IsUnused
    <2>3. /\ o \in Memory!Item /\ IsLive(h, o) /\ o # c
          /\ h.cell[o].block = h.cell[c].block /\ End(h, o) = h.cell[c].words
        BY <1>1, <2>2, BeforeIs DEF Good
    <2> HIDE DEF o
    <2> DEFINE lo == h.cell[o].words
               hi == End(h, c)
               big == [h.cell[o] EXCEPT !.n_words = @ + h.cell[c].n_words]
    <2>4. /\ h.cell[o] \in CellRec /\ h.cell[c].n_words \in Int /\ h.cell[o].n_words \in Int
          /\ lo \in Int /\ h.cell[c].words \in Int
        BY <1>1, <2>3, CellType
    <2>5. hi - lo = h.cell[o].n_words + h.cell[c].n_words
        BY <2>3, <2>4 DEF End
    <2>6. /\ big \in CellRec /\ big.block = k /\ big.words = lo
          /\ big.n_words = hi - lo /\ big.requested = h.cell[o].requested
        <3>1. h.cell[o].n_words + h.cell[c].n_words \in Int
            BY <2>4
        <3> HIDE DEF lo, hi
        <3>2. big.words = h.cell[o].words
            BY <2>4 DEF CellRec
        <3> QED BY <1>1, <2>3, <2>4, <2>5, <3>1, <3>2 DEF CellRec, lo
    <2>7. f = [h EXCEPT !.cell = [h.cell EXCEPT ![o] = big]]
        BY <1>1 DEF HeapRec
    <2> HIDE DEF big, f
    <2>8. /\ f \in HeapRec /\ f.blocks = h.blocks /\ f.n_words = h.n_words
          /\ f.header = h.header /\ f.used = h.used /\ f.unused = h.unused
          /\ f.pools = h.pools /\ f.taken = h.taken /\ f.mem = h.mem
          /\ f.cell = [h.cell EXCEPT ![o] = big]
        BY <1>1, <2>3, <2>6, <2>7 DEF HeapRec
    <2>9. f.cell[o] = big /\ \A d \in Memory!Item \ {o} : f.cell[d] = h.cell[d]
        BY <1>1, <2>3, <2>8 DEF HeapRec
    <2>10. Resized(h, f, o, lo, hi - lo)
        BY <1>1, <2>3, <2>6, <2>8, <2>9 DEF Resized
    <2>11. Neighbours(h, o, c, k, lo, hi)
        BY <1>1, <2>3 DEF Neighbours
    <2> HIDE DEF lo, hi
    <2>12. /\ Good(g, 0, {}) /\ Keeps(h, g, {c}) /\ ~IsLive(g, c)
           /\ g.blocks = h.blocks /\ g.cell[o].block = k /\ g.cell[o].requested = h.cell[o].requested
        BY <1>1, <2>10, <2>11, AbsorbIsGood
    <2> HIDE DEF g
    <2>13. Loose(r.h, 0, r.c, k)
        BY <1>1, <2>1, <2>2, <2>3, <2>12 DEF Loose
    <2>14. Sheds(h, r.h, c, r.c)
        BY <2>1, <2>2, <2>3, <2>12 DEF Sheds, IsUsed
    <2> QED BY <2>13, <2>14 DEF Joins, r
<1> QED BY <1>3, <1>4

LEMMA JoinAfterSheds ==
    ASSUME NEW h, NEW y, NEW c, NEW k, Loose(h, y, c, k)
    PROVE  LET r == Memory!JoinAfter(h, c)
           IN  Joins(h, r, y, c, k) /\ Sheds(h, r.h, c, r.c)
<1> DEFINE o == Memory!After(h, c)
           q == Memory!Drop(h.unused[k], c)
           u == [h.unused EXCEPT ![k] = q]
           d == [h EXCEPT !.unused = u]
           f == [h EXCEPT !.cell[o].n_words = @ + h.cell[c].n_words,
                          !.cell[o].words = h.cell[c].words,
                          !.unused[k] = Memory!Drop(@, c)]
           g == Memory!PoolFree(Memory!WriteGuards(f, o), c)
           r == Memory!JoinAfter(h, c)
<1>1. /\ Good(h, y, {}) /\ c \in Memory!Item /\ k \in Memory!Slot /\ h.cell[c].block = k
      /\ h \in HeapRec /\ IsLive(h, c) /\ k # 0
      /\ y = c \/ (y = 0 /\ h.cell[c].requested = 0)
    BY DEF Loose, Good, IsLive, Memory!Slot
<1>2. r = IF Memory!IsUnused(h, o) THEN [h |-> g, c |-> o] ELSE [h |-> h, c |-> c]
    BY <1>1 DEF Memory!JoinAfter
<1> HIDE DEF r
<1>3. CASE ~Memory!IsUnused(h, o)
    <2>1. r.h = h /\ r.c = c
        BY <1>2, <1>3
    <2> QED BY <2>1, KeepsItself DEF Joins, Sheds, r
<1>4. CASE Memory!IsUnused(h, o)
    <2>1. r.h = g /\ r.c = o
        BY <1>2, <1>4
    <2>2. o # 0 /\ h.cell[o].requested = 0
        BY <1>4 DEF Memory!IsUnused
    <2>3. /\ o \in Memory!Item /\ IsLive(h, o) /\ o # c
          /\ h.cell[o].block = h.cell[c].block /\ h.cell[o].words = End(h, c)
        BY <1>1, <2>2, AfterIs DEF Good
    <2> HIDE DEF o
    <2>4. RingMoved(h, d) /\ d.used = h.used /\ d.unused = u /\ Good(d, c, {}) /\ Keeps(h, d, {})
        BY <1>1, DropUnused
    <2>5. /\ d \in HeapRec /\ d.blocks = h.blocks /\ d.n_words = h.n_words
          /\ d.header = h.header /\ d.cell = h.cell /\ d.pools = h.pools
          /\ d.taken = h.taken /\ d.mem = h.mem
        BY <2>4 DEF RingMoved
    <2>6. u \in [Memory!Slot -> Seq(Memory!Item)]
        BY <2>4, <2>5 DEF HeapRec
    <2> DEFINE lo == h.cell[c].words
               hi == End(h, o)
               big == [[h.cell[o] EXCEPT !.n_words = @ + h.cell[c].n_words] EXCEPT !.words = lo]
    <2>7. /\ h.cell[o] \in CellRec /\ h.cell[c].n_words \in Int /\ h.cell[o].n_words \in Int
          /\ lo \in Int /\ h.cell[o].words \in Int
        BY <1>1, <2>3, CellType
    <2>8. hi - lo = h.cell[o].n_words + h.cell[c].n_words
        BY <2>3, <2>7 DEF End
    <2>9. f = [[h EXCEPT !.unused = u] EXCEPT !.cell = [h.cell EXCEPT ![o] = big]]
        BY <1>1, <2>3 DEF HeapRec
    <2>10. /\ big \in CellRec /\ big.block = k /\ big.words = lo
           /\ big.n_words = hi - lo /\ big.requested = h.cell[o].requested
        <3>1. h.cell[o].n_words + h.cell[c].n_words \in Int
            BY <2>7
        <3> HIDE DEF lo, hi
        <3> QED BY <1>1, <2>3, <2>7, <2>8, <3>1 DEF CellRec
    <2> HIDE DEF big, f, u, q
    <2>11. /\ f \in HeapRec /\ f.blocks = h.blocks /\ f.n_words = h.n_words
           /\ f.header = h.header /\ f.used = h.used /\ f.unused = u
           /\ f.pools = h.pools /\ f.taken = h.taken /\ f.mem = h.mem
           /\ f.cell = [h.cell EXCEPT ![o] = big]
        BY <1>1, <2>3, <2>6, <2>9, <2>10 DEF HeapRec
    <2> HIDE DEF d
    <2>12. f.cell[o] = big /\ \A x \in Memory!Item \ {o} : f.cell[x] = d.cell[x]
        BY <1>1, <2>3, <2>5, <2>11 DEF HeapRec
    <2>13. Resized(d, f, o, lo, hi - lo)
        BY <1>1, <2>3, <2>4, <2>5, <2>10, <2>11, <2>12 DEF Resized
    <2>14. Neighbours(d, o, c, k, lo, hi)
        BY <1>1, <2>2, <2>3, <2>5 DEF Neighbours, End
    <2> HIDE DEF lo, hi
    <2>15. /\ Good(g, 0, {}) /\ Keeps(d, g, {c}) /\ ~IsLive(g, c)
           /\ g.blocks = d.blocks /\ g.cell[o].block = k /\ g.cell[o].requested = d.cell[o].requested
        BY <2>4, <2>13, <2>14, AbsorbIsGood
    <2> HIDE DEF g
    <2>16. Loose(r.h, 0, r.c, k)
        BY <1>1, <2>1, <2>2, <2>3, <2>5, <2>15 DEF Loose
    <2>17. Keeps(h, g, {c})
        BY <2>4, <2>15, KeepsMore, KeepsOn
    <2>18. Sheds(h, r.h, c, r.c)
        BY <2>1, <2>2, <2>3, <2>5, <2>15, <2>17 DEF Sheds, IsUsed
    <2> QED BY <2>16, <2>18 DEF Joins, r
<1> QED BY <1>3, <1>4

\* The cell that is left is put into the ring of unused cells.
Finish(h, m, k) ==
    [h EXCEPT !.unused[k] = IF m \in Memory!Members(@) THEN @ ELSE Memory!Insert(@, m),
              !.cell[m].requested = 0]

LEMMA FinishFree ==
    ASSUME NEW h, NEW y, NEW m, NEW k, Loose(h, y, m, k)
    PROVE  LET g == Finish(h, m, k)
           IN  Good(g, 0, {}) /\ Keeps(h, g, {m}) /\ ~IsUsed(g, m) /\ g.blocks = h.blocks
<1> DEFINE q == IF m \in Memory!Members(h.unused[k]) THEN h.unused[k]
                ELSE Memory!Insert(h.unused[k], m)
           u == [h.unused EXCEPT ![k] = q]
           new == [h.cell[m] EXCEPT !.requested = 0]
           g == [[h EXCEPT !.unused = u] EXCEPT !.cell = [h.cell EXCEPT ![m] = new]]
<1>1. /\ Good(h, y, {}) /\ m \in Memory!Item /\ k \in Memory!Slot /\ h.cell[m].block = k
      /\ h \in HeapRec /\ IsLive(h, m) /\ k # 0 /\ RingsBut(h, y)
      /\ y = m \/ (y = 0 /\ h.cell[m].requested = 0)
    BY DEF Loose, Good, IsLive, Memory!Slot
<1>2. g = Finish(h, m, k)
    BY <1>1 DEF HeapRec, Finish
<1>3. Ring(h.unused[k], UnusedSet(h, k, y))
    BY <1>1, RingsAre
<1>4. Ring(q, UnusedSet(h, k, y) \union {m})
    <2>1. Memory!Members(h.unused[k]) = UnusedSet(h, k, y)
        BY <1>3, RingMembers
    <2>2. CASE m \in UnusedSet(h, k, y)
        <3>1. UnusedSet(h, k, y) \union {m} = UnusedSet(h, k, y)
            BY <2>2
        <3> QED BY <1>3, <2>1, <2>2, <3>1
    <2>3. CASE m \notin UnusedSet(h, k, y)
        BY <1>3, <2>1, <2>3, InsertIntoRing
    <2> QED BY <2>2, <2>3
<1>5. q \in Seq(Memory!Item)
    <2>1. UnusedSet(h, k, y) \union {m} \subseteq Memory!Item
        BY <1>1 DEF UnusedSet
    <2> HIDE DEF q
    <2> QED BY <1>4, <2>1, RingType
<1> HIDE DEF q
<1>6. u \in [Memory!Slot -> Seq(Memory!Item)] /\ u[k] = q
      /\ \A j \in Memory!Slot \ {k} : u[j] = h.unused[j]
    BY <1>1, <1>5 DEF HeapRec
<1> HIDE DEF u
<1>7. /\ new \in CellRec /\ new.block = k /\ new.words = h.cell[m].words
      /\ new.n_words = h.cell[m].n_words /\ new.requested = 0
    <2>1. h.cell[m] \in CellRec
        BY <1>1, CellType
    <2> QED BY <1>1, <2>1 DEF CellRec
<1> HIDE DEF new
<1>8. /\ g \in HeapRec /\ g.blocks = h.blocks /\ g.n_words = h.n_words /\ g.header = h.header
      /\ g.used = h.used /\ g.unused = u /\ g.pools = h.pools /\ g.taken = h.taken
      /\ g.mem = h.mem /\ g.cell = [h.cell EXCEPT ![m] = new]
    BY <1>1, <1>6, <1>7 DEF HeapRec
<1>9. g.cell[m] = new /\ \A d \in Memory!Item \ {m} : g.cell[d] = h.cell[d]
    BY <1>1, <1>8 DEF HeapRec
<1> HIDE DEF g
<1>10. Requests(h, g, m, 0)
    BY <1>1, <1>7, <1>8, <1>9 DEF Requests
<1>11. RingsBut(g, 0)
    <2> SUFFICES ASSUME NEW j \in Memory!Slot
                 PROVE  Ring(g.used[j], UsedSet(g, j, 0)) /\ Ring(g.unused[j], UnusedSet(g, j, 0))
        BY RingsAre
    <2>1. Ring(h.used[j], UsedSet(h, j, y)) /\ Ring(h.unused[j], UnusedSet(h, j, y))
        BY <1>1, RingsAre
    <2>2. \A d \in Memory!Item : d # 0
        BY DEF Memory!Item
    <2>3. \A d \in Memory!Item \ {m} : d # y
        BY <1>1, <2>2
    <2>4. UsedSet(g, j, 0) = UsedSet(h, j, y)
        <3>1. m \notin UsedSet(h, j, y)
            BY <1>1 DEF UsedSet
        <3>2. m \notin UsedSet(g, j, 0)
            BY <1>7, <1>9 DEF UsedSet
        <3>3. \A d \in Memory!Item \ {m} : d \in UsedSet(g, j, 0) <=> d \in UsedSet(h, j, y)
            BY <1>9, <2>2, <2>3 DEF UsedSet
        <3>4. UsedSet(g, j, 0) \subseteq Memory!Item /\ UsedSet(h, j, y) \subseteq Memory!Item
            BY DEF UsedSet
        <3> QED BY <3>1, <3>2, <3>3, <3>4
    <2>5. \A d \in Memory!Item \ {m} : d \in UnusedSet(g, j, 0) <=> d \in UnusedSet(h, j, y)
        BY <1>9, <2>2, <2>3 DEF UnusedSet
    <2>6. UnusedSet(g, j, 0) \subseteq Memory!Item /\ UnusedSet(h, j, y) \subseteq Memory!Item
        BY DEF UnusedSet
    <2>7. CASE j = k
        <3>1. m \in UnusedSet(g, j, 0)
            BY <1>1, <1>7, <1>9, <2>2, <2>7 DEF UnusedSet
        <3>2. UnusedSet(g, j, 0) = UnusedSet(h, k, y) \union {m}
            BY <1>1, <2>5, <2>6, <2>7, <3>1
        <3> QED BY <1>4, <1>6, <1>8, <2>1, <2>4, <2>7, <3>2
    <2>8. CASE j # k
        <3>1. m \notin UnusedSet(g, j, 0) /\ m \notin UnusedSet(h, j, y)
            BY <1>1, <1>7, <1>9, <2>8 DEF UnusedSet
        <3>2. UnusedSet(g, j, 0) = UnusedSet(h, j, y)
            BY <2>5, <2>6, <3>1
        <3> QED BY <1>6, <1>8, <2>1, <2>4, <2>8, <3>2
    <2> QED BY <2>7, <2>8
<1>12. 0 \in Length \union {0} /\ 0 <= (h.cell[m].n_words - 2) * WordSize
    <2>1. h.cell[m].n_words - 2 \in Int /\ 0 <= h.cell[m].n_words - 2
        <3>1. h.cell[m].n_words > 2 /\ h.cell[m].n_words \in Int
            BY <1>1, CellPlace, CellType DEF Good, CellOK
        <3> QED BY <3>1
    <2>2. 0 * WordSize <= (h.cell[m].n_words - 2) * WordSize
        BY <2>1, WordsOrdered
    <2>3. 0 * WordSize = 0
        BY Sizes
    <2> QED BY <2>2, <2>3
<1>13. Good(g, 0, {}) /\ Keeps(h, g, {m})
    BY <1>1, <1>10, <1>11, <1>12, RequestsIsGood
<1>14. ~IsUsed(g, m)
    BY <1>7, <1>9 DEF IsUsed
<1> QED BY <1>2, <1>8, <1>13, <1>14

LEMMA SecFreeSheds ==
    ASSUME NEW h, Good(h, 0, {}), NEW c \in Memory!Item, IsUsed(h, c)
    PROVE  LET g == Memory!SecFree(h, PointerOf(h, c))
           IN  Good(g, 0, {}) /\ Keeps(h, g, {c}) /\ ~IsUsed(g, c) /\ g.blocks = h.blocks
<1> DEFINE p == PointerOf(h, c)
           k == h.cell[c].block
           from == Memory!First(h, c)
           to == from + h.cell[c].requested
           z == Memory!Zero
           e == Memory!Fill(h, k, from, to, z)
           d == [e EXCEPT !.used[k] = Memory!Drop(@, c)]
           dd == [e EXCEPT !.used = [@ EXCEPT ![k] = Memory!Drop(e.used[k], c)]]
           b == Memory!JoinBefore(d, c)
           m == Memory!JoinAfter(b.h, b.c)
           g == [m.h EXCEPT !.unused[k] = IF m.c \in Memory!Members(@) THEN @
                                          ELSE Memory!Insert(@, m.c),
                            !.cell[m.c].requested = 0]
<1>1. h \in HeapRec /\ Layout(h) /\ BlocksOK(h) /\ IsLive(h, c) /\ k \in Memory!Slot /\ CellOK(h, c)
    BY CellPlace DEF Good, IsUsed
<1>2. Memory!SecFree(h, p) = g
    <2>1. Memory!CellOf(h, p) = c /\ p[1] = k
        BY <1>1, CellOfPointer DEF PointerOf
    <2> HIDE DEF p
    <2> QED BY <2>1 DEF Memory!SecFree
<1>3. /\ from \in Int /\ to \in Int /\ z \in Int /\ Memory!First(h, c) <= from
      /\ to <= Memory!First(h, c) + (h.cell[c].n_words - 2) * WordSize
    <2>1. /\ from \in Int /\ h.cell[c].requested \in Int /\ h.cell[c].n_words - 2 \in Int
        BY <1>1, CellType, FirstIs
    <2>2. (h.cell[c].n_words - 2) * WordSize \in Int
        BY <2>1, WordsOrdered
    <2>3. h.cell[c].requested <= (h.cell[c].n_words - 2) * WordSize
        BY <1>1 DEF CellOK
    <2> HIDE DEF from
    <2> QED BY <2>1, <2>2, <2>3 DEF from, Memory!Zero
<1>4. Good(e, 0, {}) /\ Keeps(h, e, {c}) /\ SameShape(h, e)
    <2> HIDE DEF from, to, z
    <2> QED BY <1>1, <1>3, FillInside DEF Inside
<1> HIDE DEF e
<1>5. e.cell = h.cell /\ e.blocks = h.blocks /\ e \in HeapRec
    BY <1>4 DEF SameShape, Good
<1>6. d = dd
    BY <1>5 DEF HeapRec
<1>7. RingMoved(e, dd) /\ Good(dd, c, {}) /\ Keeps(e, dd, {})
    <2>1. IsUsed(e, c) /\ e.cell[c].block = k
        BY <1>5 DEF IsUsed, IsLive
    <2> HIDE DEF k, dd
    <2>2. dd = [e EXCEPT !.used = [@ EXCEPT ![e.cell[c].block] = Memory!Drop(e.used[e.cell[c].block], c)]]
        BY <2>1 DEF dd
    <2> QED BY <1>4, <2>1, <2>2, DropUsed
<1> HIDE DEF d, dd
<1>8. Good(d, c, {}) /\ Keeps(e, d, {}) /\ d.cell = h.cell /\ d.blocks = h.blocks
    BY <1>5, <1>6, <1>7 DEF RingMoved
<1>9. Loose(d, c, c, k)
    BY <1>1, <1>8 DEF Loose
<1> HIDE DEF k
<1>10. Joins(d, b, c, c, k) /\ Sheds(d, b.h, c, b.c)
    BY <1>9, JoinBeforeSheds
<1> HIDE DEF b
<1>11. PICK y : Loose(b.h, y, b.c, k)
    BY <1>10 DEF Joins
<1>12. Joins(b.h, m, y, b.c, k) /\ Sheds(b.h, m.h, b.c, m.c)
    BY <1>11, JoinAfterSheds
<1> HIDE DEF m
<1>13. PICK z2 : Loose(m.h, z2, m.c, k)
    BY <1>11, <1>12 DEF Joins
<1>14. Good(g, 0, {}) /\ Keeps(m.h, g, {m.c}) /\ ~IsUsed(g, m.c) /\ g.blocks = m.h.blocks
    <2>1. g = Finish(m.h, m.c, k)
        BY DEF Finish
    <2> HIDE DEF g
    <2> QED BY <1>13, <2>1, FinishFree
<1> HIDE DEF g
<1>15. /\ Keeps(d, m.h, {c}) /\ m.h.blocks = d.blocks
       /\ m.c # c => ~IsUsed(m.h, c) /\ ~IsUsed(m.h, m.c)
    <2>1. b.c \in Memory!Item
        BY <1>11 DEF Loose
    <2> QED BY <1>10, <1>12, <2>1, ShedsTwice
<1>16. Keeps(m.h, g, {c}) /\ ~IsUsed(g, c)
    <2>1. CASE m.c = c
        BY <1>14, <2>1
    <2>2. CASE m.c # c
        <3>1. Keeps(m.h, g, {})
            BY <1>14, <1>15, <2>2, KeepsUnused
        <3>2. ~IsUsed(g, c)
            BY <1>15, <2>2, <3>1 DEF Keeps, KeepsCell
        <3> QED BY <3>1, <3>2, KeepsMore
    <2> QED BY <2>1, <2>2
<1>17. Keeps(h, g, {c})
    <2>1. Keeps(e, d, {c})
        BY <1>8, KeepsMore
    <2>2. Keeps(h, d, {c})
        BY <1>4, <2>1, KeepsOn
    <2>3. Keeps(h, m.h, {c})
        BY <1>15, <2>2, KeepsOn
    <2> QED BY <1>16, <2>3, KeepsOn
<1> QED BY <1>2, <1>8, <1>14, <1>15, <1>16, <1>17

-----------------------------------------------------------------------------
(* sec_realloc.                                                            *)

\* As many bytes as both have are in d what they were in c.
SameStart(h, g, c, d) ==
    \A i \in Int : 0 <= i /\ i < h.cell[c].requested /\ i < g.cell[d].requested =>
        g.mem[g.cell[d].block][Memory!First(g, d) + i] = h.mem[h.cell[c].block][Memory!First(h, c) + i]

\* From h to g cell c is made larger or smaller, or its bytes move to d.
Resizes(h, g, c, d, length) ==
    /\ d \in Memory!Item /\ Good(g, 0, {}) /\ Keeps(h, g, {c, d}) /\ g.blocks = h.blocks
    /\ d = c => g.cell[c].block = h.cell[c].block /\ g.cell[c].words = h.cell[c].words
    /\ d # c => ~IsUsed(h, d) /\ ~IsUsed(g, c)
    /\ IsUsed(g, d) /\ g.cell[d].requested = length /\ SameStart(h, g, c, d)

\* From h to g cell d gets a copy of c, and zeros after it.
Copies(h, g, c, d, length) ==
    /\ d \in Memory!Item /\ Good(g, 0, {}) /\ Keeps(h, g, {d}) /\ ~IsUsed(h, d)
    /\ IsUsed(g, d) /\ g.cell[d].requested = length
    /\ SameStart(h, g, c, d) /\ ZeroBytes(g, d, h.cell[c].requested)

\* Another length is noted for a cell in use.
LEMMA NotesLength ==
    ASSUME NEW h, Good(h, 0, {}), NEW c \in Memory!Item, IsUsed(h, c), NEW length \in Length,
           length <= (h.cell[c].n_words - 2) * WordSize
    PROVE  LET g == [h EXCEPT !.cell[c].requested = length]
           IN  /\ Good(g, 0, {}) /\ Keeps(h, g, {c}) /\ g.blocks = h.blocks /\ g.mem = h.mem
               /\ g.cell[c].block = h.cell[c].block /\ g.cell[c].words = h.cell[c].words
               /\ g.cell[c].n_words = h.cell[c].n_words /\ g.cell[c].requested = length
               /\ IsUsed(g, c)
<1> DEFINE new == [h.cell[c] EXCEPT !.requested = length]
           g == [h EXCEPT !.cell = [h.cell EXCEPT ![c] = new]]
<1>1. h \in HeapRec /\ RingsBut(h, 0) /\ IsLive(h, c) /\ h.cell[c].requested # 0
    BY DEF Good, IsUsed
<1>2. g = [h EXCEPT !.cell[c].requested = length]
    BY <1>1 DEF HeapRec
<1>3. length \in Int /\ length # 0 /\ length \in Length \union {0}
    BY Sizes
<1>4. /\ new \in CellRec /\ new.block = h.cell[c].block /\ new.words = h.cell[c].words
      /\ new.n_words = h.cell[c].n_words /\ new.requested = length
    <2>1. h.cell[c] \in CellRec
        BY <1>1, CellType
    <2> QED BY <1>3, <2>1 DEF CellRec
<1> HIDE DEF new
<1>5. /\ g \in HeapRec /\ g.blocks = h.blocks /\ g.n_words = h.n_words /\ g.header = h.header
      /\ g.used = h.used /\ g.unused = h.unused /\ g.pools = h.pools /\ g.taken = h.taken
      /\ g.mem = h.mem /\ g.cell = [h.cell EXCEPT ![c] = new]
    BY <1>1, <1>4 DEF HeapRec
<1>6. g.cell[c] = new /\ \A d \in Memory!Item \ {c} : g.cell[d] = h.cell[d]
    BY <1>1, <1>5 DEF HeapRec
<1> HIDE DEF g
<1>7. Requests(h, g, c, length)
    BY <1>4, <1>5, <1>6 DEF Requests
<1>8. RingsBut(g, 0)
    <2> SUFFICES ASSUME NEW j \in Memory!Slot
                 PROVE  Ring(g.used[j], UsedSet(g, j, 0)) /\ Ring(g.unused[j], UnusedSet(g, j, 0))
        BY RingsAre
    <2>1. Ring(h.used[j], UsedSet(h, j, 0)) /\ Ring(h.unused[j], UnusedSet(h, j, 0))
        BY <1>1, RingsAre
    <2>2. UsedSet(g, j, 0) = UsedSet(h, j, 0)
        BY <1>1, <1>3, <1>4, <1>6 DEF UsedSet
    <2>3. UnusedSet(g, j, 0) = UnusedSet(h, j, 0)
        BY <1>1, <1>3, <1>4, <1>6 DEF UnusedSet
    <2> QED BY <1>5, <2>1, <2>2, <2>3
<1>9. Good(g, 0, {}) /\ Keeps(h, g, {c})
    BY <1>1, <1>3, <1>7, <1>8, RequestsIsGood
<1>10. IsUsed(g, c)
    BY <1>1, <1>3, <1>4, <1>6 DEF IsUsed, IsLive
<1> QED BY <1>2, <1>4, <1>5, <1>6, <1>9, <1>10

\* The bytes that a program has are bytes of the block.
LEMMA ItsBytes ==
    ASSUME NEW h, Good(h, 0, {}), NEW c \in Memory!Item, IsLive(h, c),
           NEW i \in Int, 0 <= i, i < h.cell[c].requested
    PROVE  Memory!First(h, c) + i \in Bytes
<1>1. h \in HeapRec /\ Layout(h) /\ BlocksOK(h)
    BY DEF Good
<1>2. Memory!First(h, c) \in Int /\ h.cell[c].requested \in Int
    BY <1>1, CellType, FirstIs
<1> DEFINE b == Memory!First(h, c) + i
<1>3. b \in Int /\ Memory!First(h, c) <= b /\ b < Memory!First(h, c) + h.cell[c].requested
    BY <1>2
<1> HIDE DEF b
<1>4. IsInner(h, c, b)
    BY <1>1, <1>3, RequestedIsInner
<1>5. b \in Bytes
    BY <1>1, <1>3, <1>4, InnerByte
<1> QED BY <1>5 DEF b

\* From h to g the bytes from word v of block j are copied to word w of block k.
Transfers(h, g, j, v, k, w, n) ==
    /\ g \in HeapRec /\ SameShape(h, g)
    /\ \A l \in Memory!Slot : \A b \in Bytes :
          g.mem[l][b] = IF l = k /\ w * WordSize <= b /\ b < w * WordSize + n
                        THEN h.mem[j][b - w * WordSize + v * WordSize] ELSE h.mem[l][b]

\* So many bytes from word v of a block are bytes of it.
Spans(v, n) == \A i \in Int : 0 <= i /\ i < n => v * WordSize + i \in Bytes

LEMMA CopiedTransfers ==
    ASSUME NEW h \in HeapRec, NEW j \in Memory!Slot, NEW k \in Memory!Slot,
           NEW v \in Int, NEW w \in Int, NEW n \in Int, Spans(v, n)
    PROVE  Transfers(h, Memory!Copied(h, <<j, v>>, <<k, w>>, n), j, v, k, w, n)
<1> DEFINE from == v * WordSize
           to == w * WordSize
           row == [b \in Bytes |-> IF to <= b /\ b < to + n
                                   THEN h.mem[j][b - to + from] ELSE h.mem[k][b]]
           mem == [h.mem EXCEPT ![k] = row]
           g == [h EXCEPT !.mem = mem]
<1>1. from \in Int /\ to \in Int
    BY WordsOrdered
<1>2. h.mem[j] \in [Bytes -> Int] /\ h.mem[k] \in [Bytes -> Int]
      /\ h.mem \in [Memory!Slot -> [Bytes -> Int]]
    BY DEF HeapRec
<1>3. Memory!Copied(h, <<j, v>>, <<k, w>>, n) = g
    <2>1. Memory!Copied(h, <<j, v>>, <<k, w>>, n) =
              [h EXCEPT !.mem[k] = [b \in DOMAIN @ |-> IF to <= b /\ b < to + n
                                    THEN h.mem[j][b - to + from] ELSE @[b]]]
        BY DEF Memory!Copied
    <2>2. DOMAIN h.mem[k] = Bytes
        BY <1>2
    <2> HIDE DEF from, to
    <2> QED BY <1>2, <2>1, <2>2 DEF HeapRec
<1>4. row \in [Bytes -> Int]
    <2> SUFFICES ASSUME NEW b \in Bytes, to <= b, b < to + n PROVE h.mem[j][b - to + from] \in Int
        BY <1>2
    <2>1. b \in Int
        BY DEF Bytes
    <2>2. b - to \in Int /\ 0 <= b - to /\ b - to < n
        <3> HIDE DEF to
        <3> QED BY <1>1, <2>1
    <2>3. from + (b - to) \in Bytes
        <3> HIDE DEF to
        <3> QED BY <2>2 DEF Spans
    <2>4. from + (b - to) = b - to + from
        <3> HIDE DEF to, from
        <3> QED BY <1>1, <2>1
    <2> QED BY <1>2, <2>3, <2>4
<1> HIDE DEF from, to
<1>5. \A b \in Bytes : row[b] = IF to <= b /\ b < to + n
                                THEN h.mem[j][b - to + from] ELSE h.mem[k][b]
    OBVIOUS
<1> HIDE DEF row
<1>6. /\ mem \in [Memory!Slot -> [Bytes -> Int]] /\ mem[k] = row
      /\ \A l \in Memory!Slot \ {k} : mem[l] = h.mem[l]
    BY <1>2, <1>4
<1> HIDE DEF mem
<1>7. g \in HeapRec /\ SameShape(h, g) /\ g.mem = mem
    BY <1>6 DEF HeapRec, SameShape
<1> HIDE DEF g
<1>8. ASSUME NEW l \in Memory!Slot, NEW b \in Bytes
      PROVE  g.mem[l][b] = IF l = k /\ to <= b /\ b < to + n
                           THEN h.mem[j][b - to + from] ELSE h.mem[l][b]
    BY <1>5, <1>6, <1>7
<1> QED BY <1>3, <1>7, <1>8 DEF from, to, Transfers

\* New memory, and a copy of c in it.
LEMMA CopyIsCopy ==
    ASSUME NEW h, Good(h, 0, {}), NEW c \in Memory!Item, IsUsed(h, c),
           NEW length \in Length, h.cell[c].requested <= length,
           NEW a, NEW d, Obtains(h, a, d, length)
    PROVE  LET g == Memory!Copied(a, PointerOf(h, c), PointerOf(a, d), h.cell[c].requested)
           IN  /\ Copies(h, g, c, d, length) /\ g.blocks = a.blocks
               /\ PointerOf(g, d) = PointerOf(a, d)
<1> DEFINE j == h.cell[c].block
           k == a.cell[d].block
           v == h.cell[c].words + 1
           w == a.cell[d].words + 1
           n == h.cell[c].requested
           g == Memory!Copied(a, <<j, v>>, <<k, w>>, n)
<1>1. /\ h \in HeapRec /\ Layout(h) /\ BlocksOK(h) /\ IsLive(h, c)
      /\ Good(a, 0, {}) /\ a \in HeapRec /\ Layout(a) /\ BlocksOK(a) /\ d \in Memory!Item
      /\ IsLive(a, d) /\ ~IsUsed(h, d) /\ Keeps(h, a, {d}) /\ a.cell[d].requested = length
      /\ length \in Int /\ length # 0 /\ ZeroBytes(a, d, 0)
    BY Sizes DEF Good, IsUsed, Obtains
<1>2. /\ j \in Memory!Slot /\ k \in Memory!Slot /\ v \in Int /\ w \in Int /\ n \in Int
      /\ Memory!First(h, c) = v * WordSize /\ Memory!First(a, d) = w * WordSize
      /\ v * WordSize \in Int /\ w * WordSize \in Int
    BY <1>1, CellPlace, CellType, FirstIs
<1>3. c # d /\ KeepsCell(h, a, c)
    BY <1>1 DEF Keeps
<1>4. /\ IsUsed(a, c) /\ a.cell[c].block = j /\ a.cell[c].words = h.cell[c].words
      /\ a.cell[c].requested = n /\ SameBytes(h, a, c)
    BY <1>3 DEF KeepsCell
<1>5. PointerOf(h, c) = <<j, v>> /\ PointerOf(a, d) = <<k, w>>
    BY DEF PointerOf
<1> HIDE DEF j, k, v, w, n
<1>6. Spans(v, n)
    BY <1>1, <1>2, ItsBytes DEF n, Spans
<1>7. /\ g \in HeapRec /\ SameShape(a, g)
      /\ \A l \in Memory!Slot : \A b \in Bytes :
            g.mem[l][b] = IF l = k /\ w * WordSize <= b /\ b < w * WordSize + n
                          THEN a.mem[j][b - w * WordSize + v * WordSize] ELSE a.mem[l][b]
    <2> HIDE DEF g
    <2>1. Transfers(a, g, j, v, k, w, n)
        BY <1>1, <1>2, <1>6, CopiedTransfers DEF g
    <2> QED BY <2>1 DEF Transfers
<1> HIDE DEF g
<1>8. ASSUME NEW b \in Bytes, w * WordSize <= b, b < w * WordSize + n
      PROVE  IsInner(a, d, b)
    <2>1. b \in Int
        BY DEF Bytes
    <2>2. Memory!First(a, d) <= b /\ b < Memory!First(a, d) + a.cell[d].requested
        BY <1>1, <1>2, <1>8, <2>1 DEF n
    <2> QED BY <1>1, <2>1, <2>2, RequestedIsInner
<1>9. Inside(a, g, d)
    BY <1>7, <1>8 DEF Inside, k
<1>10. Good(g, 0, {}) /\ Keeps(a, g, {d})
    BY <1>1, <1>9, InsideIsGood
<1>11. g.cell = a.cell /\ g.blocks = a.blocks
    BY <1>7 DEF SameShape
<1>12. IsUsed(g, d) /\ g.cell[d].requested = length /\ IsLive(g, d) /\ g.cell[d].block = k
       /\ Memory!First(g, d) = w * WordSize /\ PointerOf(g, d) = PointerOf(a, d)
    BY <1>1, <1>2, <1>11 DEF IsUsed, IsLive, Memory!First, PointerOf, k
<1>13. SameStart(h, g, c, d)
    <2> SUFFICES ASSUME NEW i \in Int, 0 <= i, i < n, i < length
                 PROVE  g.mem[k][w * WordSize + i] = h.mem[j][v * WordSize + i]
        BY <1>2, <1>12 DEF SameStart, j, n
    <2> DEFINE b == w * WordSize + i
               f == v * WordSize + i
    <2>1. b \in Bytes
        BY <1>1, <1>10, <1>12, ItsBytes
    <2>2. w * WordSize <= b /\ b < w * WordSize + n /\ b - w * WordSize + v * WordSize = f
        BY <1>2
    <2>3. g.mem[k][b] = a.mem[j][f]
        <3> HIDE DEF b, f
        <3> QED BY <1>2, <1>7, <2>1, <2>2
    <2>4. f \in Int /\ Memory!First(h, c) <= f /\ f < Memory!First(h, c) + h.cell[c].requested
        BY <1>2 DEF n
    <2>5. a.mem[j][f] = h.mem[j][f]
        <3> HIDE DEF f
        <3> QED BY <1>4, <2>4 DEF SameBytes, j
    <2> QED BY <2>3, <2>5
<1>14. ZeroBytes(g, d, n)
    <2> SUFFICES ASSUME NEW b \in Int, w * WordSize + n <= b, b < w * WordSize + length
                 PROVE  g.mem[k][b] = Memory!Zero
        BY <1>12 DEF ZeroBytes
    <2>1. w * WordSize <= b /\ ~(b < w * WordSize + n) /\ n >= 0
        <3>1. n >= 0
            <4>1. n \in Length \union {0}
                BY <1>1, CellPlace DEF CellOK, n
            <4> QED BY <4>1, Sizes
        <3> QED BY <1>2, <3>1
    <2>2. b \in Bytes
        <3> DEFINE i == b - w * WordSize
        <3>1. i \in Int /\ 0 <= i /\ i < length /\ w * WordSize + i = b
            BY <1>1, <1>2, <2>1
        <3> HIDE DEF i
        <3>2. Memory!First(g, d) + i \in Bytes
            BY <1>1, <1>10, <1>12, <3>1, ItsBytes
        <3> QED BY <1>12, <3>1, <3>2
    <2>3. g.mem[k][b] = a.mem[k][b]
        BY <1>2, <1>7, <2>1, <2>2
    <2>4. Memory!First(a, d) + 0 <= b /\ b < Memory!First(a, d) + a.cell[d].requested
        BY <1>1, <1>2, <2>1
    <2>5. a.mem[k][b] = Memory!Zero
        BY <1>1, <2>4 DEF ZeroBytes, k
    <2> QED BY <2>3, <2>5
<1>15. Keeps(h, g, {d})
    BY <1>1, <1>10, KeepsOn
<1>16. Copies(h, g, c, d, length)
    BY <1>1, <1>10, <1>12, <1>13, <1>14, <1>15 DEF Copies, n
<1> QED BY <1>5, <1>11, <1>12, <1>16 DEF n, g

\* A cell that may have grown is resized where it is, and bytes after those that are
\* kept are cleared.
LEMMA InPlaceResizes ==
    ASSUME NEW h, NEW g, Grows(h, g), NEW c \in Memory!Item, IsUsed(h, c),
           NEW length \in Length, length <= (g.cell[c].n_words - 2) * WordSize,
           NEW x \in Int, NEW y \in Int, 0 <= x, x >= h.cell[c].requested \/ x >= length,
           y <= (g.cell[c].n_words - 2) * WordSize
    PROVE  LET e == [g EXCEPT !.cell[c].requested = length]
               f == Memory!Fill(e, h.cell[c].block, Memory!First(g, c) + x,
                                Memory!First(g, c) + y, Memory!Zero)
           IN  Resizes(h, f, c, c, length) /\ PointerOf(f, c) = PointerOf(h, c)
<1> DEFINE k == h.cell[c].block
           e == [g EXCEPT !.cell[c].requested = length]
           from == Memory!First(g, c) + x
           to == Memory!First(g, c) + y
           z == Memory!Zero
           f == Memory!Fill(e, k, from, to, z)
<1>1. Good(g, 0, {}) /\ Keeps(h, g, {}) /\ g.blocks = h.blocks /\ g \in HeapRec
    BY DEF Grows, Good
<1>2. KeepsCell(h, g, c)
    BY <1>1 DEF Keeps
<1>3. /\ IsUsed(g, c) /\ g.cell[c].block = k /\ g.cell[c].words = h.cell[c].words
      /\ g.cell[c].requested = h.cell[c].requested /\ SameBytes(h, g, c) /\ IsLive(g, c)
    BY <1>2 DEF KeepsCell, IsUsed
<1>4. /\ Good(e, 0, {}) /\ Keeps(g, e, {c}) /\ e.blocks = g.blocks /\ e.mem = g.mem
      /\ e.cell[c].block = k /\ e.cell[c].words = g.cell[c].words
      /\ e.cell[c].n_words = g.cell[c].n_words /\ e.cell[c].requested = length
      /\ IsUsed(e, c)
    <2> HIDE DEF from, to, z, f
    <2>1. Good(g, 0, {}) /\ IsUsed(g, c)
        BY <1>1, <1>3
    <2>2. /\ Good(e, 0, {}) /\ Keeps(g, e, {c}) /\ e.blocks = g.blocks /\ e.mem = g.mem
          /\ e.cell[c].block = g.cell[c].block /\ e.cell[c].words = g.cell[c].words
          /\ e.cell[c].n_words = g.cell[c].n_words /\ e.cell[c].requested = length
          /\ IsUsed(e, c)
        BY <2>1, NotesLength
    <2> HIDE DEF e
    <2> QED BY <1>3, <2>2
<1> HIDE DEF e
<1>5. k \in Memory!Slot /\ Memory!First(g, c) \in Int /\ (g.cell[c].n_words - 2) * WordSize \in Int
    <2>1. g.cell[c].n_words - 2 \in Int
        BY <1>1, CellType
    <2>2. (g.cell[c].n_words - 2) * WordSize \in Int
        BY <2>1, WordsOrdered
    <2> QED BY <1>1, <1>3, <2>2, CellPlace, FirstIs DEF Good
<1>6. Memory!First(e, c) = Memory!First(g, c) /\ Memory!First(h, c) = Memory!First(g, c)
    BY <1>3, <1>4 DEF Memory!First
<1>7. /\ from \in Int /\ to \in Int /\ z \in Int /\ Memory!First(e, c) <= from
      /\ to <= Memory!First(e, c) + (e.cell[c].n_words - 2) * WordSize
    BY <1>4, <1>5, <1>6 DEF Memory!Zero
<1> HIDE DEF from, to, z
<1>8. Inside(e, f, c) /\ Good(f, 0, {}) /\ Keeps(e, f, {c}) /\ Filled(e, f, k, from, to, z)
    <2>1. IsLive(e, c)
        BY <1>4 DEF IsUsed
    <2> HIDE DEF k
    <2> QED BY <1>4, <1>7, <2>1, FillInside
<1> HIDE DEF f
<1>9. f.cell = e.cell /\ f.blocks = e.blocks
    BY <1>8 DEF Filled, SameShape
<1>10. IsUsed(f, c) /\ f.cell[c].requested = length /\ f.cell[c].block = k
       /\ f.cell[c].words = h.cell[c].words /\ Memory!First(f, c) = Memory!First(g, c)
    BY <1>3, <1>4, <1>6, <1>9 DEF IsUsed, IsLive, Memory!First
<1>11. Keeps(h, f, {c})
    <2>1. Keeps(h, g, {c})
        BY <1>1, KeepsMore
    <2>2. Keeps(h, e, {c})
        BY <1>4, <2>1, KeepsOn
    <2> QED BY <1>8, <2>2, KeepsOn
<1>12. SameStart(h, f, c, c)
    <2> SUFFICES ASSUME NEW i \in Int, 0 <= i, i < h.cell[c].requested, i < length
                 PROVE  f.mem[k][Memory!First(g, c) + i] = h.mem[k][Memory!First(g, c) + i]
        BY <1>6, <1>10 DEF SameStart
    <2> DEFINE b == Memory!First(g, c) + i
    <2>1. b \in Bytes
        BY <1>1, <1>3, ItsBytes
    <2>2. b \in Int /\ Memory!First(g, c) <= b
          /\ b < Memory!First(g, c) + h.cell[c].requested /\ ~(from <= b)
        <3>1. i < x /\ h.cell[c].requested \in Int /\ length \in Int
            <4>1. h.cell[c].requested \in Int /\ length \in Int
                BY <1>1, <1>3, CellType, Sizes
            <4> QED BY <4>1
        <3> QED BY <1>5, <3>1 DEF from
    <2> HIDE DEF b
    <2>3. f.mem[k][b] = e.mem[k][b]
        BY <1>5, <1>8, <2>1, <2>2 DEF Filled
    <2>4. g.mem[k][b] = h.mem[k][b]
        BY <1>3, <1>6, <2>2 DEF SameBytes
    <2> QED BY <1>4, <2>3, <2>4 DEF b
<1>13. Resizes(h, f, c, c, length)
    <2>1. Keeps(h, f, {c, c})
        BY <1>11, KeepsMore
    <2> QED BY <1>1, <1>4, <1>8, <1>9, <1>10, <1>12, <2>1 DEF Resizes
<1>14. PointerOf(f, c) = PointerOf(h, c)
    BY <1>10 DEF PointerOf
<1> QED BY <1>13, <1>14 DEF e, f, from, to, z

LEMMA MoveResizes ==
    ASSUME NEW h, NEW g, Grows(h, g), NEW c \in Memory!Item, IsUsed(h, c),
           NEW length \in Length, h.cell[c].requested <= length,
           NEW a, NEW d, Obtains(g, a, d, length), a.blocks = g.blocks
    PROVE  LET p == PointerOf(h, c)
               q == PointerOf(a, d)
               f == Memory!SecFree(Memory!Copied(a, p, q, h.cell[c].requested), p)
           IN  Resizes(h, f, c, d, length) /\ PointerOf(f, d) = q
<1> DEFINE n == h.cell[c].requested
           e == Memory!Copied(a, PointerOf(h, c), PointerOf(a, d), n)
           f == Memory!SecFree(e, PointerOf(h, c))
<1>1. Good(g, 0, {}) /\ Keeps(h, g, {}) /\ g.blocks = h.blocks
    BY DEF Grows
<1>2. KeepsCell(h, g, c)
    BY <1>1 DEF Keeps
<1>3. /\ IsUsed(g, c) /\ g.cell[c].block = h.cell[c].block /\ g.cell[c].words = h.cell[c].words
      /\ g.cell[c].requested = n /\ SameBytes(h, g, c) /\ PointerOf(g, c) = PointerOf(h, c)
    BY <1>2 DEF KeepsCell, PointerOf
<1>4. Copies(g, e, c, d, length) /\ e.blocks = a.blocks /\ PointerOf(e, d) = PointerOf(a, d)
    <2>1. e = Memory!Copied(a, PointerOf(g, c), PointerOf(a, d), g.cell[c].requested)
        BY <1>3
    <2> HIDE DEF e
    <2> QED BY <1>1, <1>3, <2>1, CopyIsCopy
<1> HIDE DEF e
<1>5. /\ d \in Memory!Item /\ Good(e, 0, {}) /\ Keeps(g, e, {d}) /\ ~IsUsed(g, d)
      /\ IsUsed(e, d) /\ e.cell[d].requested = length /\ SameStart(g, e, c, d)
    BY <1>4 DEF Copies
<1>6. c # d /\ KeepsCell(g, e, c)
    BY <1>3, <1>5 DEF Keeps
<1>7. IsUsed(e, c) /\ PointerOf(e, c) = PointerOf(h, c)
    BY <1>3, <1>6 DEF KeepsCell, PointerOf
<1>8. Good(f, 0, {}) /\ Keeps(e, f, {c}) /\ ~IsUsed(f, c) /\ f.blocks = e.blocks
    BY <1>5, <1>7, SecFreeSheds
<1> HIDE DEF f
<1>9. KeepsCell(e, f, d)
    BY <1>5, <1>6, <1>8 DEF Keeps
<1>10. /\ IsUsed(f, d) /\ f.cell[d].requested = length /\ f.cell[d].block = e.cell[d].block
       /\ f.cell[d].words = e.cell[d].words /\ SameBytes(e, f, d)
    BY <1>5, <1>9 DEF KeepsCell
<1>11. Memory!First(f, d) = Memory!First(e, d) /\ Memory!First(g, c) = Memory!First(h, c)
       /\ PointerOf(f, d) = PointerOf(a, d)
    BY <1>3, <1>4, <1>10 DEF Memory!First, PointerOf
<1>12. SameStart(h, f, c, d)
    <2> SUFFICES ASSUME NEW i \in Int, 0 <= i, i < n, i < length
                 PROVE  f.mem[f.cell[d].block][Memory!First(f, d) + i]
                            = h.mem[h.cell[c].block][Memory!First(h, c) + i]
        BY <1>10 DEF SameStart
    <2>1. Memory!First(e, d) \in Int /\ Memory!First(h, c) \in Int /\ length \in Int /\ n \in Int
        <3>1. e \in HeapRec /\ g \in HeapRec
            BY <1>1, <1>5 DEF Good
        <3> QED BY <1>3, <1>5, <1>11, <3>1, FirstIs, CellType, Sizes
    <2>2. f.mem[f.cell[d].block][Memory!First(f, d) + i] = e.mem[e.cell[d].block][Memory!First(e, d) + i]
        <3> DEFINE b == Memory!First(e, d) + i
        <3>1. b \in Int /\ Memory!First(e, d) <= b /\ b < Memory!First(e, d) + e.cell[d].requested
            BY <1>5, <2>1
        <3> HIDE DEF b
        <3>2. f.mem[e.cell[d].block][b] = e.mem[e.cell[d].block][b]
            BY <1>10, <3>1 DEF SameBytes
        <3> QED BY <1>10, <1>11, <3>2 DEF b
    <2>3. e.mem[e.cell[d].block][Memory!First(e, d) + i] = g.mem[g.cell[c].block][Memory!First(g, c) + i]
        BY <1>3, <1>5 DEF SameStart
    <2>4. g.mem[g.cell[c].block][Memory!First(g, c) + i] = h.mem[h.cell[c].block][Memory!First(h, c) + i]
        <3> DEFINE b == Memory!First(h, c) + i
        <3>1. b \in Int /\ Memory!First(h, c) <= b /\ b < Memory!First(h, c) + h.cell[c].requested
            BY <2>1
        <3> HIDE DEF b
        <3>2. g.mem[h.cell[c].block][b] = h.mem[h.cell[c].block][b]
            BY <1>3, <3>1 DEF SameBytes
        <3> QED BY <1>3, <1>11, <3>2 DEF b
    <2> QED BY <2>2, <2>3, <2>4
<1>13. Keeps(h, f, {c, d})
    <2>1. Keeps(h, g, {c, d}) /\ Keeps(g, e, {c, d}) /\ Keeps(e, f, {c, d})
        BY <1>1, <1>5, <1>8, KeepsMore
    <2>2. Keeps(h, e, {c, d})
        BY <2>1, KeepsOn
    <2> QED BY <2>1, <2>2, KeepsOn
<1>14. ~IsUsed(h, d)
    BY <1>1, <1>5 DEF Keeps, KeepsCell
<1>15. Resizes(h, f, c, d, length)
    BY <1>1, <1>4, <1>5, <1>6, <1>8, <1>10, <1>12, <1>13, <1>14 DEF Resizes
<1> QED BY <1>11, <1>15 DEF e, f

\* What reallocation returns: nothing, when there was less, or where the bytes are.
Regets(h, r, c, length) ==
    \/ /\ r.ptr = Memory!Null /\ Good(r.h, 0, {}) /\ Keeps(h, r.h, {})
       /\ r.h.blocks = h.blocks /\ h.cell[c].requested < length
    \/ \E d \in Memory!Item : Resizes(h, r.h, c, d, length) /\ r.ptr = PointerOf(r.h, d)

LEMMA SecReallocRegets ==
    ASSUME NEW h, Good(h, 0, {}), NEW c \in Memory!Item, IsUsed(h, c), NEW length \in Length
    PROVE  Regets(h, Memory!SecRealloc(h, PointerOf(h, c), length), c, length)
<1> DEFINE p == PointerOf(h, c)
           k == h.cell[c].block
           valid == h.cell[c].requested
           m == Memory!ToWords(length)
           n == m + 2
           g == Memory!Grown(h, c, n)
           other == Memory!SecAlloc(g, k, length)
           short == [h EXCEPT !.cell[c].requested = length]
           shrunk == Memory!Fill(short, k, Memory!First(h, c) + length,
                                 Memory!First(h, c) + valid, Memory!Zero)
           long == [g EXCEPT !.cell[c].requested = length]
           large == Memory!Fill(long, k, Memory!First(g, c) + valid,
                                Memory!First(g, c) + length, Memory!Zero)
           moved == Memory!SecFree(Memory!Copied(other.h, p, other.ptr, valid), p)
           r == Memory!SecRealloc(h, p, length)
<1>1. /\ h \in HeapRec /\ Layout(h) /\ BlocksOK(h) /\ IsLive(h, c) /\ k \in Memory!Slot
      /\ h.cell[c].n_words \in Int /\ valid \in Int /\ valid >= 0 /\ CellOK(h, c)
    <2>1. /\ h \in HeapRec /\ Layout(h) /\ BlocksOK(h) /\ IsLive(h, c)
        BY DEF Good, IsUsed
    <2>2. CellOK(h, c) /\ k \in Memory!Slot /\ h.cell[c].n_words \in Int /\ valid \in Int
        BY <2>1, CellPlace, CellType
    <2>3. valid \in Length \union {0}
        BY <2>2 DEF CellOK
    <2> QED BY <2>1, <2>2, <2>3, Sizes
<1>2. /\ m \in Nat /\ m >= 1 /\ length <= m * WordSize /\ (m - 1) * WordSize < length
      /\ length \in Int /\ length >= 0 /\ m * WordSize \in Int /\ (m - 1) * WordSize \in Int
    <2>1. m \in Nat /\ m >= 1 /\ length <= m * WordSize /\ (m - 1) * WordSize < length
        BY WordsHold
    <2>2. m - 1 \in Int /\ m \in Int
        BY <2>1
    <2> HIDE DEF m
    <2> QED BY <2>1, <2>2, Sizes, WordsOrdered
<1>3. Memory!CellOf(h, p) = c /\ p[1] = k
    BY <1>1, CellOfPointer DEF PointerOf
<1>4. r = IF n <= h.cell[c].n_words THEN [h |-> shrunk, ptr |-> p]
          ELSE IF g.cell[c].n_words >= n THEN [h |-> large, ptr |-> p]
          ELSE IF other.ptr = Memory!Null THEN other
          ELSE [h |-> moved, ptr |-> other.ptr]
    <2> HIDE DEF p
    <2> QED BY <1>3 DEF Memory!SecRealloc, Memory!Shrink
<1> HIDE DEF r, m
<1>5. n \in Int /\ Grows(h, g)
    <2>1. n \in Int
        BY <1>2
    <2> QED BY <2>1, GrownGrows
<1> HIDE DEF g
<1>6. CASE n <= h.cell[c].n_words
    <2>1. length <= (h.cell[c].n_words - 2) * WordSize
        <3>1. m <= h.cell[c].n_words - 2 /\ h.cell[c].n_words - 2 \in Int /\ m \in Int
            BY <1>1, <1>2, <1>6
        <3>2. m * WordSize <= (h.cell[c].n_words - 2) * WordSize
              /\ (h.cell[c].n_words - 2) * WordSize \in Int
            BY <3>1, WordsOrdered
        <3> QED BY <1>2, <3>2
    <2>2. valid <= (h.cell[c].n_words - 2) * WordSize
        BY <1>1 DEF CellOK
    <2>3. Grows(h, h)
        BY KeepsItself DEF Grows
    <2>4. length >= h.cell[c].requested \/ length >= length
        BY <1>2
    <2>5. Resizes(h, shrunk, c, c, length) /\ PointerOf(shrunk, c) = p
        BY <1>1, <1>2, <2>1, <2>2, <2>3, <2>4, InPlaceResizes
    <2> HIDE DEF shrunk, p
    <2>6. r.h = shrunk /\ r.ptr = p
        BY <1>4, <1>6
    <2> QED BY <2>5, <2>6 DEF Regets, r, p
<1>7. CASE ~(n <= h.cell[c].n_words)
    <2>1. valid < length
        <3>1. h.cell[c].n_words - 2 <= m - 1 /\ h.cell[c].n_words - 2 \in Int /\ m - 1 \in Int
            BY <1>1, <1>2, <1>7
        <3>2. (h.cell[c].n_words - 2) * WordSize <= (m - 1) * WordSize
              /\ (h.cell[c].n_words - 2) * WordSize \in Int
            BY <3>1, WordsOrdered
        <3>3. valid <= (h.cell[c].n_words - 2) * WordSize
            BY <1>1 DEF CellOK
        <3> QED BY <1>1, <1>2, <3>2, <3>3
    <2>2. CASE g.cell[c].n_words >= n
        <3>1. length <= (g.cell[c].n_words - 2) * WordSize
            <4>1. g.cell[c].n_words \in Int
                BY <1>5, CellType DEF Grows, Good
            <4>2. m <= g.cell[c].n_words - 2 /\ g.cell[c].n_words - 2 \in Int /\ m \in Int
                BY <1>2, <2>2, <4>1
            <4>3. m * WordSize <= (g.cell[c].n_words - 2) * WordSize
                  /\ (g.cell[c].n_words - 2) * WordSize \in Int
                BY <4>2, WordsOrdered
            <4> QED BY <1>2, <4>3
        <3> DEFINE x == valid
                   y == length
                   big == Memory!Fill(long, k, Memory!First(g, c) + x,
                                      Memory!First(g, c) + y, Memory!Zero)
        <3>2. /\ x \in Int /\ 0 <= x /\ (x >= h.cell[c].requested \/ x >= length)
              /\ y \in Int /\ y <= (g.cell[c].n_words - 2) * WordSize
            BY <1>1, <1>2, <3>1
        <3>3. Resizes(h, large, c, c, length) /\ PointerOf(large, c) = p
            <4>1. large = big
                OBVIOUS
            <4> HIDE DEF x, y, large
            <4>2. Resizes(h, big, c, c, length) /\ PointerOf(big, c) = p
                BY <1>5, <3>1, <3>2, InPlaceResizes
            <4> HIDE DEF big, p
            <4> QED BY <4>1, <4>2
        <3> HIDE DEF large, p
        <3>4. r.h = large /\ r.ptr = p
            BY <1>4, <1>7, <2>2
        <3> QED BY <3>3, <3>4 DEF Regets, r, p
    <2>3. CASE ~(g.cell[c].n_words >= n)
        <3>1. Gets(g, other, length)
            BY <1>1, <1>5, SecAllocGets DEF Grows
        <3> HIDE DEF other
        <3>2. CASE other.ptr = Memory!Null
            <4>1. r = other
                BY <1>4, <1>7, <2>3, <3>2
            <4>2. Good(other.h, 0, {}) /\ Keeps(g, other.h, {}) /\ other.h.blocks = g.blocks
                <5>1. ASSUME NEW d \in Memory!Item, Obtains(g, other.h, d, length),
                             other.ptr = PointerOf(other.h, d)
                      PROVE  FALSE
                    <6>1. other.h.cell[d].block = 0
                        BY <3>2, <5>1 DEF Memory!Null, PointerOf
                    <6> QED BY <5>1, <6>1 DEF Obtains, IsLive
                <5> QED BY <3>1, <5>1 DEF Gets
            <4>3. Keeps(h, other.h, {})
                BY <1>5, <4>2, KeepsOn DEF Grows
            <4>4. other.h.blocks = h.blocks
                BY <1>5, <4>2 DEF Grows
            <4> QED BY <2>1, <3>2, <4>1, <4>2, <4>3, <4>4 DEF Regets, r
        <3>3. CASE other.ptr # Memory!Null
            <4>1. PICK d \in Memory!Item : /\ Obtains(g, other.h, d, length)
                                           /\ other.ptr = PointerOf(other.h, d)
                BY <3>1, <3>3 DEF Gets
            <4>2. other.h.blocks = g.blocks
                BY <3>1 DEF Gets
            <4> DEFINE a == other.h
                       q == PointerOf(a, d)
            <4>3. valid <= length
                BY <1>1, <1>2, <2>1
            <4>4. moved = Memory!SecFree(Memory!Copied(a, p, q, valid), p)
                BY <4>1
            <4> HIDE DEF moved
            <4>5. Resizes(h, moved, c, d, length) /\ PointerOf(moved, d) = q
                <5>1. Obtains(g, a, d, length) /\ a.blocks = g.blocks
                    BY <4>1, <4>2
                <5> HIDE DEF a
                <5> QED BY <1>5, <4>3, <4>4, <5>1, MoveResizes
            <4>6. r.h = moved /\ r.ptr = PointerOf(moved, d)
                BY <1>4, <1>7, <2>3, <3>3, <4>1, <4>5
            <4> QED BY <4>5, <4>6 DEF Regets, r
        <3> QED BY <3>2, <3>3
    <2> QED BY <2>2, <2>3
<1> QED BY <1>6, <1>7

-----------------------------------------------------------------------------
(* Blocks.                                                                 *)

LEMMA PagesHold ==
    ASSUME NEW n \in Nat
    PROVE  Memory!Pages(n) \in Int /\ Memory!Pages(n) >= n
<1> DEFINE q == (n + PageWords - 1) \div PageWords
           r == (n + PageWords - 1) % PageWords
<1>1. PageWords \in Nat /\ PageWords >= 1
    BY Sizes
<1>2. n + PageWords - 1 \in Nat
    BY <1>1
<1>3. q \in Int /\ r \in Int /\ r < PageWords /\ n + PageWords - 1 = PageWords * q + r
    BY <1>1, <1>2
<1> HIDE DEF q, r
<1>4. q * PageWords = PageWords * q /\ q * PageWords \in Int
    BY <1>1, <1>3
<1> QED BY <1>1, <1>3, <1>4 DEF Memory!Pages, q

\* From f to g block k was added, with the one cell c and the header b.
Opens(f, g, k, b, c, size) ==
    /\ g \in HeapRec /\ g.blocks = <<k>> \o f.blocks
    /\ g.n_words[k] = size /\ g.header[k] = b /\ g.unused[k] = <<c>>
    /\ \A j \in Memory!Slot \ {k} : /\ g.n_words[j] = f.n_words[j] /\ g.header[j] = f.header[j]
                                    /\ g.unused[j] = f.unused[j]
    /\ g.used = f.used /\ g.pools = f.pools /\ g.taken = f.taken /\ g.mem = f.mem
    /\ g.cell[c] = [block |-> k, words |-> 0, n_words |-> size, requested |-> 0]
    /\ \A d \in Memory!Item \ {c} : g.cell[d] = f.cell[d]

LEMMA OpenedIsGood ==
    ASSUME NEW f, NEW b, NEW c, b # c, Good(f, 0, {b, c}), NEW k \in Memory!Slot, ~InBlocks(f, k),
           NEW size \in Int, size > 2, size <= SlotWords, NEW g, Opens(f, g, k, b, c, size)
    PROVE  LET w == Memory!WriteGuards(g, c)
           IN  Good(w, 0, {}) /\ Keeps(f, w, {}) /\ InBlocks(w, k)
<1> DEFINE w == Memory!WriteGuards(g, c)
<1>1. /\ f \in HeapRec /\ Layout(f) /\ BlocksOK(f) /\ RingsBut(f, 0) /\ TakenBut(f, {b, c})
      /\ PoolsHold(f) /\ CellsOK(f) /\ Apart(f) /\ Covered(f) /\ GuardsStand(f)
    BY DEF Good, Layout
<1>2. /\ b \in f.taken /\ c \in f.taken /\ ~IsLive(f, b) /\ ~IsLive(f, c)
      /\ b \in Memory!Item /\ c \in Memory!Item
      /\ \A j \in Memory!Slot : InBlocks(f, j) => f.header[j] # b /\ f.header[j] # c
    <2>1. /\ b \in f.taken /\ c \in f.taken /\ ~IsLive(f, b) /\ ~IsLive(f, c)
          /\ \A j \in Memory!Slot : InBlocks(f, j) => f.header[j] # b /\ f.header[j] # c
        BY <1>1 DEF TakenBut
    <2>2. f.taken \subseteq Memory!Item
        BY <1>1 DEF HeapRec
    <2> QED BY <2>1, <2>2
<1>3. /\ g \in HeapRec /\ g.cell[c].block = k /\ g.cell[c].words = 0 /\ g.cell[c].n_words = size
      /\ g.cell[c].requested = 0 /\ End(g, c) = size
    BY DEF Opens, End
<1>4. Written(g, w, c)
    BY <1>2, <1>3, WriteGuardsWrites
<1> HIDE DEF w
<1>5. /\ w \in HeapRec /\ w.blocks = g.blocks /\ w.n_words = g.n_words /\ w.header = g.header
      /\ w.used = g.used /\ w.unused = g.unused /\ w.cell = g.cell /\ w.pools = g.pools
      /\ w.taken = g.taken
    BY <1>4 DEF Written, SameShape
<1>6. Memory!Members(w.blocks) = Memory!Members(f.blocks) \union {k}
    <2>1. f.blocks \in Seq(Memory!Slot)
        BY <1>1 DEF HeapRec
    <2> QED BY <1>5, <2>1, ConsMembers DEF Opens
<1>7. \A j \in Memory!Slot : InBlocks(w, j) <=> InBlocks(f, j) \/ j = k
    BY <1>6 DEF InBlocks
<1>8. k # 0
    BY DEF Memory!Slot
<1>9. \A d \in Memory!Item \ {c} : IsLive(w, d) =>
          /\ IsLive(f, d) /\ w.cell[d] = f.cell[d] /\ f.cell[d].block \in Memory!Slot \ {k}
          /\ CellOK(f, d)
    <2> SUFFICES ASSUME NEW d \in Memory!Item \ {c}, IsLive(w, d)
                 PROVE  /\ IsLive(f, d) /\ w.cell[d] = f.cell[d]
                        /\ f.cell[d].block \in Memory!Slot \ {k} /\ CellOK(f, d)
        OBVIOUS
    <2>1. w.cell[d] = f.cell[d]
        BY <1>5 DEF Opens
    <2>2. IsLive(f, d)
        BY <2>1 DEF IsLive
    <2>3. CellOK(f, d)
        BY <1>1, <2>2 DEF CellsOK
    <2> QED BY <2>1, <2>2, <2>3 DEF CellOK
<1>10. CellsOK(w)
    <2> SUFFICES ASSUME NEW d \in Memory!Item, IsLive(w, d) PROVE CellOK(w, d)
        BY DEF CellsOK
    <2>1. CASE d = c
        <3>1. 0 <= (size - 2) * WordSize
            <4>1. 0 * WordSize <= (size - 2) * WordSize
                BY WordsOrdered
            <4>2. 0 * WordSize = 0
                BY Sizes
            <4> QED BY <4>1, <4>2
        <3>2. InBlocks(w, k) /\ w.n_words[k] = size /\ w.cell[c] = g.cell[c] /\ c \in w.taken
            BY <1>2, <1>5, <1>7 DEF Opens
        <3> QED BY <1>3, <2>1, <3>1, <3>2 DEF CellOK, End
    <2>2. CASE d # c
        <3>1. w.cell[d] = f.cell[d] /\ f.cell[d].block \in Memory!Slot \ {k} /\ CellOK(f, d)
            BY <1>9, <2>2
        <3>2. w.n_words[f.cell[d].block] = f.n_words[f.cell[d].block] /\ w.taken = f.taken
              /\ InBlocks(w, f.cell[d].block)
            BY <1>5, <1>7, <3>1 DEF Opens, CellOK
        <3> QED BY <3>1, <3>2 DEF CellOK, End
    <2> QED BY <2>1, <2>2
<1>11. Apart(w)
    <2> SUFFICES ASSUME NEW d \in Memory!Item, NEW e \in Memory!Item, d # e, IsLive(w, d),
                        w.cell[d].block = w.cell[e].block
                 PROVE  End(w, d) <= w.cell[e].words \/ End(w, e) <= w.cell[d].words
        BY DEF Apart
    <2>1. IsLive(w, e)
        BY DEF IsLive
    <2>2. w.cell[c].block = k
        BY <1>3, <1>5
    <2>3. d # c /\ e # c
        BY <1>9, <2>1, <2>2
    <2>4. w.cell[d] = f.cell[d] /\ w.cell[e] = f.cell[e] /\ IsLive(f, d)
        BY <1>9, <2>1, <2>3
    <2> QED BY <1>1, <2>4 DEF Apart, End
<1>12. Covered(w)
    <2> SUFFICES ASSUME NEW j \in Memory!Slot, InBlocks(w, j), NEW v \in Int,
                        0 <= v, v < w.n_words[j]
                 PROVE  \E d \in Memory!Item : HasWord(w, d, j, v)
        BY DEF Covered
    <2>1. CASE j = k
        <3>1. HasWord(w, c, k, v)
            BY <1>3, <1>5, <2>1 DEF Opens, HasWord, End
        <3> QED BY <1>2, <2>1, <3>1
    <2>2. CASE j # k
        <3>1. InBlocks(f, j) /\ w.n_words[j] = f.n_words[j]
            BY <1>5, <1>7, <2>2 DEF Opens
        <3>2. PICK d \in Memory!Item : HasWord(f, d, j, v)
            BY <1>1, <3>1 DEF Covered
        <3>3. d # c
            BY <1>2, <3>2 DEF HasWord, IsLive, Memory!Slot
        <3>4. w.cell[d] = f.cell[d]
            BY <1>5, <3>3 DEF Opens
        <3> QED BY <3>2, <3>4 DEF HasWord, End
    <2> QED BY <2>1, <2>2
<1>13. ASSUME NEW j \in Memory!Slot \ {k}, NEW x \in Bytes PROVE w.mem[j][x] = f.mem[j][x]
    <2>1. w.mem[j][x] = g.mem[j][x]
        BY <1>3, <1>4 DEF Written
    <2> QED BY <2>1 DEF Opens
<1>14. GuardsStand(w)
    <2> SUFFICES ASSUME NEW d \in Memory!Item, IsLive(w, d), NEW x \in Int, IsGuard(w, d, x)
                 PROVE  w.mem[w.cell[d].block][x] = d
        BY DEF GuardsStand, HasGuards
    <2>1. CASE d = c
        <3>1. x \in Bytes
            <4>1. 0 \in 0 .. SlotWords - 1 /\ size - 1 \in 0 .. SlotWords - 1
                BY Sizes
            <4>2. InWord(x, 0) \/ InWord(x, size - 1)
                BY <1>3, <1>5, <2>1 DEF IsGuard, End
            <4> QED BY <4>1, <4>2, WordInBytes
        <3>2. IsGuard(g, c, x)
            BY <1>5, <2>1 DEF IsGuard, End
        <3> QED BY <1>3, <1>4, <1>5, <2>1, <3>1, <3>2 DEF Written
    <2>2. CASE d # c
        <3>1. IsLive(f, d) /\ w.cell[d] = f.cell[d] /\ f.cell[d].block \in Memory!Slot \ {k}
            BY <1>9, <2>2
        <3>2. IsGuard(f, d, x)
            BY <3>1 DEF IsGuard, End
        <3>3. x \in Bytes
            BY <1>1, <3>1, <3>2, GuardInBytes
        <3>4. f.mem[f.cell[d].block][x] = d
            BY <1>1, <3>1, <3>2 DEF GuardsStand, HasGuards
        <3> QED BY <1>13, <3>1, <3>3, <3>4
    <2> QED BY <2>1, <2>2
<1>15. BlocksOK(w)
    <2>1. \A i, j \in 1 .. Len(w.blocks) : w.blocks[i] = w.blocks[j] => i = j
        <3> DEFINE s == f.blocks
        <3>1. s \in Seq(Memory!Slot)
            BY <1>1 DEF HeapRec
        <3>2. w.blocks = <<k>> \o s
            BY <1>5 DEF Opens
        <3>3. /\ Len(w.blocks) = Len(s) + 1 /\ w.blocks[1] = k
              /\ \A i \in 1 .. Len(s) : w.blocks[i + 1] = s[i]
            BY <3>1, <3>2, ConsMembers
        <3>4. \A i \in 1 .. Len(s) : s[i] # k
            BY DEF InBlocks, Memory!Members
        <3>5. \A i, j \in 1 .. Len(s) : s[i] = s[j] => i = j
            BY <1>1 DEF BlocksOK
        <3> HIDE DEF s
        <3>6. Len(s) \in Nat
            BY <3>1
        <3> SUFFICES ASSUME NEW i \in 1 .. Len(w.blocks), NEW j \in 1 .. Len(w.blocks),
                            w.blocks[i] = w.blocks[j]
                     PROVE  i = j
            OBVIOUS
        <3>7. \A m \in 2 .. Len(s) + 1 : m - 1 \in 1 .. Len(s) /\ w.blocks[m] = s[m - 1]
            <4> SUFFICES ASSUME NEW m \in 2 .. Len(s) + 1
                         PROVE  m - 1 \in 1 .. Len(s) /\ w.blocks[m] = s[m - 1]
                OBVIOUS
            <4>1. m - 1 \in 1 .. Len(s) /\ (m - 1) + 1 = m
                BY <3>6
            <4> QED BY <3>3, <4>1
        <3>8. CASE i = 1 \/ j = 1
            BY <3>3, <3>4, <3>6, <3>7, <3>8
        <3>9. CASE i # 1 /\ j # 1
            <4>1. i \in 2 .. Len(s) + 1 /\ j \in 2 .. Len(s) + 1
                BY <3>3, <3>6, <3>9
            <4>2. i - 1 = j - 1
                BY <3>5, <3>7, <4>1
            <4> QED BY <3>6, <4>1, <4>2
        <3> QED BY <3>8, <3>9
    <2>2. ASSUME NEW j \in Memory!Slot, InBlocks(w, j)
          PROVE  /\ w.n_words[j] <= SlotWords
                 /\ w.header[j] \in w.taken /\ ~IsLive(w, w.header[j])
                 /\ j # k => w.header[j] = f.header[j] /\ InBlocks(f, j)
        <3>1. CASE j = k
            <4>1. w.header[k] = b /\ w.n_words[k] = size /\ w.taken = f.taken
                BY <1>5 DEF Opens
            <4>2. ~IsLive(w, b)
                BY <1>2, <1>9
            <4> QED BY <1>2, <3>1, <4>1, <4>2
        <3>2. CASE j # k
            <4>1. w.header[j] = f.header[j] /\ w.n_words[j] = f.n_words[j] /\ w.taken = f.taken
                  /\ InBlocks(f, j)
                BY <1>5, <1>7, <2>2, <3>2 DEF Opens
            <4>2. f.n_words[j] <= SlotWords /\ f.header[j] \in f.taken /\ ~IsLive(f, f.header[j])
                  /\ f.header[j] # c
                BY <1>1, <1>2, <4>1 DEF BlocksOK
            <4>3. f.header[j] \in Memory!Item
                BY <1>1, <4>2 DEF HeapRec
            <4>4. ~IsLive(w, f.header[j])
                BY <1>9, <4>2, <4>3
            <4> QED BY <4>1, <4>2, <4>4
        <3> QED BY <3>1, <3>2
    <2>3. ASSUME NEW i \in Memory!Slot, NEW j \in Memory!Slot, InBlocks(w, i), InBlocks(w, j),
                 w.header[i] = w.header[j]
          PROVE  i = j
        <3>1. w.header[k] = b
            BY <1>5 DEF Opens
        <3>2. CASE i = k \/ j = k
            BY <1>2, <2>2, <2>3, <3>1, <3>2
        <3>3. CASE i # k /\ j # k
            <4>1. f.header[i] = f.header[j] /\ InBlocks(f, i) /\ InBlocks(f, j)
                BY <2>2, <2>3, <3>3
            <4> QED BY <1>1, <4>1 DEF BlocksOK
        <3> QED BY <3>2, <3>3
    <2> QED BY <2>1, <2>2, <2>3 DEF BlocksOK
<1>16. RingsBut(w, 0)
    <2> SUFFICES ASSUME NEW j \in Memory!Slot
                 PROVE  Ring(w.used[j], UsedSet(w, j, 0)) /\ Ring(w.unused[j], UnusedSet(w, j, 0))
        BY RingsAre
    <2>1. Ring(f.used[j], UsedSet(f, j, 0)) /\ Ring(f.unused[j], UnusedSet(f, j, 0))
        BY <1>1, RingsAre
    <2>2. \A d \in Memory!Item \ {c} : w.cell[d] = f.cell[d]
        BY <1>5 DEF Opens
    <2>3. w.used[j] = f.used[j]
        BY <1>5 DEF Opens
    <2>4. UsedSet(w, j, 0) = UsedSet(f, j, 0)
        <3>1. c \notin UsedSet(w, j, 0)
            BY <1>3, <1>5 DEF UsedSet
        <3>2. c \notin UsedSet(f, j, 0)
            BY <1>2 DEF UsedSet, IsLive, Memory!Slot
        <3> QED BY <2>2, <3>1, <3>2 DEF UsedSet
    <2>5. CASE j = k
        <3>1. w.unused[j] = <<c>>
            BY <1>5, <2>5 DEF Opens
        <3>2. UnusedSet(w, j, 0) = {c}
            <4>1. c \in UnusedSet(w, j, 0)
                BY <1>2, <1>3, <1>5, <2>5 DEF UnusedSet, Memory!Item
            <4>2. \A d \in Memory!Item : d \in UnusedSet(w, j, 0) => d = c
                BY <1>8, <1>9, <2>5 DEF UnusedSet, IsLive
            <4> QED BY <4>1, <4>2 DEF UnusedSet
        <3>3. Ring(<<c>>, {c})
            BY DEF Ring
        <3> QED BY <2>1, <2>3, <2>4, <3>1, <3>2, <3>3
    <2>6. CASE j # k
        <3>1. w.unused[j] = f.unused[j]
            BY <1>5, <2>6 DEF Opens
        <3>2. UnusedSet(w, j, 0) = UnusedSet(f, j, 0)
            <4>1. c \notin UnusedSet(w, j, 0)
                BY <1>3, <1>5, <2>6 DEF UnusedSet
            <4>2. c \notin UnusedSet(f, j, 0)
                BY <1>2 DEF UnusedSet, IsLive, Memory!Slot
            <4> QED BY <2>2, <4>1, <4>2 DEF UnusedSet
        <3> QED BY <2>1, <2>3, <2>4, <3>1, <3>2
    <2> QED BY <2>5, <2>6
<1>17. TakenBut(w, {})
    <2> SUFFICES ASSUME NEW x \in w.taken
                 PROVE  IsLive(w, x) \/ \E j \in Memory!Slot : InBlocks(w, j) /\ w.header[j] = x
        BY DEF TakenBut
    <2>1. x \in f.taken /\ x \in Memory!Item
        BY <1>5 DEF Opens, HeapRec
    <2>2. CASE x = c
        <3>1. w.cell[c].block = k
            BY <1>3, <1>5
        <3> QED BY <1>8, <2>2, <3>1 DEF IsLive
    <2>3. CASE x = b
        <3>1. w.header[k] = b /\ InBlocks(w, k)
            BY <1>5, <1>7 DEF Opens
        <3> QED BY <2>3, <3>1
    <2>4. CASE x # c /\ x # b
        <3>1. w.cell[x] = f.cell[x]
            BY <1>5, <2>1, <2>4 DEF Opens
        <3>2. CASE IsLive(f, x)
            BY <3>1, <3>2 DEF IsLive
        <3>3. CASE ~IsLive(f, x)
            <4>1. PICK j \in Memory!Slot : InBlocks(f, j) /\ f.header[j] = x
                BY <1>1, <2>1, <2>4, <3>3 DEF TakenBut
            <4>2. InBlocks(w, j) /\ w.header[j] = x
                BY <1>5, <1>7, <4>1 DEF Opens
            <4> QED BY <4>2
        <3> QED BY <3>2, <3>3
    <2> QED BY <2>2, <2>3, <2>4
<1>18. PoolsHold(w)
    <2>1. w.taken = f.taken /\ w.pools = f.pools
        BY <1>5 DEF Opens
    <2> QED BY <1>1, <2>1 DEF PoolsHold
<1>19. Good(w, 0, {})
    BY <1>5, <1>10, <1>11, <1>12, <1>14, <1>15, <1>16, <1>17, <1>18 DEF Good, Layout
<1>20. Keeps(f, w, {})
    <2> SUFFICES ASSUME NEW d \in Memory!Item PROVE KeepsCell(f, w, d)
        BY DEF Keeps
    <2>1. CASE d = c
        <3>1. ~IsUsed(f, c) /\ ~IsUsed(w, c)
            BY <1>2, <1>3, <1>5 DEF IsUsed
        <3> QED BY <2>1, <3>1 DEF KeepsCell
    <2>2. CASE d # c
        <3>1. w.cell[d] = f.cell[d]
            BY <1>5, <2>2 DEF Opens
        <3>2. IsUsed(f, d) <=> IsUsed(w, d)
            BY <3>1 DEF IsUsed, IsLive
        <3>3. ASSUME IsUsed(f, d), NEW x \in Int, Memory!First(f, d) <= x,
                     x < Memory!First(f, d) + f.cell[d].requested
              PROVE  w.mem[f.cell[d].block][x] = f.mem[f.cell[d].block][x]
            <4>1. IsLive(f, d) /\ IsLive(w, d)
                BY <3>2, <3>3 DEF IsUsed
            <4>2. f.cell[d].block \in Memory!Slot \ {k}
                BY <1>9, <2>2, <4>1
            <4>3. x \in Bytes
                BY <1>1, <3>3, <4>1, RequestedIsInner, InnerByte
            <4> QED BY <1>13, <4>2, <4>3
        <3> QED BY <3>1, <3>2, <3>3 DEF KeepsCell, SameBytes
    <2> QED BY <2>1, <2>2
<1>21. InBlocks(w, k)
    BY <1>7
<1> QED BY <1>19, <1>20, <1>21 DEF w

LEMMA BlockCreateKeeps ==
    ASSUME NEW h, Good(h, 0, {}), NEW length \in Length
    PROVE  LET r == Memory!BlockCreate(h, length)
           IN  /\ Good(r.h, 0, {}) /\ Keeps(h, r.h, {})
               /\ r.block # 0 => r.block \in Memory!Slot
<1> DEFINE one == Memory!PoolAlloc(h)
           b == one.item
           f == one.h
           two == Memory!PoolAlloc(f)
           c == two.item
           e == two.h
           least == Memory!ToWords(length)
           size == Memory!Pages(IF least < DefaultWords THEN DefaultWords ELSE least)
           free == Memory!Slot \ Memory!Members(h.blocks)
           k == Memory!Least(free)
           g == [e EXCEPT !.n_words[k] = size, !.header[k] = b, !.unused[k] = <<c>>,
                          !.cell[c] = [block |-> k, words |-> 0, n_words |-> size,
                                       requested |-> 0],
                          !.blocks = <<k>> \o @]
           r == Memory!BlockCreate(h, length)
<1>1. r = IF b = 0 THEN [h |-> f, block |-> 0]
          ELSE IF c = 0 THEN [h |-> Memory!PoolFree(e, b), block |-> 0]
          ELSE IF free # {} /\ size <= SlotWords
          THEN [h |-> Memory!WriteGuards(g, c), block |-> k]
          ELSE [h |-> Memory!PoolFree(Memory!PoolFree(e, b), c), block |-> 0]
    BY DEF Memory!BlockCreate
<1>2. size \in Int /\ size > 2
    <2>1. least \in Nat
        BY WordsHold
    <2> HIDE DEF least
    <2> DEFINE n == IF least < DefaultWords THEN DefaultWords ELSE least
    <2>2. n \in Nat /\ n >= DefaultWords
        BY <2>1, Sizes
    <2> HIDE DEF n
    <2>3. Memory!Pages(n) \in Int /\ Memory!Pages(n) >= n
        BY <2>2, PagesHold
    <2>4. size = Memory!Pages(n)
        BY DEF n
    <2> QED BY <2>2, <2>3, <2>4, Sizes
<1>3. h \in HeapRec /\ PoolsHold(h)
    BY DEF Good
<1>4. (b = 0 /\ f = h) \/ PoolTook(h, f, b)
    BY <1>3, PoolAllocTakes
<1>5. \A x, y : ~PoolTook(x, y, 0)
    BY DEF PoolTook, Memory!Item
<1> HIDE DEF r, size, one
<1>6. CASE b = 0
    <2>1. f = h
        BY <1>4, <1>5, <1>6
    <2>2. r.h = h /\ r.block = 0
        BY <1>1, <1>6, <2>1
    <2> QED BY <2>2, KeepsItself DEF r
<1>7. CASE b # 0
    <2>1. PoolTook(h, f, b)
        BY <1>4, <1>7
    <2> HIDE DEF f, b
    <2>2. Good(f, 0, {} \union {b}) /\ Keeps(h, f, {})
        BY <2>1, TookIsGood
    <2>3. Good(f, 0, {b}) /\ f \in HeapRec /\ PoolsHold(f)
        <3>1. {} \union {b} = {b}
            OBVIOUS
        <3>2. Good(f, 0, {b})
            BY <2>2, <3>1
        <3> QED BY <3>2 DEF Good
    <2>4. (c = 0 /\ e = f) \/ PoolTook(f, e, c)
        BY <2>3, PoolAllocTakes
    <2>5. b \in f.taken /\ f.blocks = h.blocks /\ b \in Memory!Item
        BY <2>1 DEF PoolTook, Alike
    <2> HIDE DEF two
    <2>6. CASE c = 0
        <3>1. e = f
            BY <1>5, <2>4, <2>6
        <3>2. PoolGave(f, Memory!PoolFree(f, b), b)
            BY <2>3, <2>5, PoolFreeGives
        <3>3. Good(Memory!PoolFree(f, b), 0, {b} \ {b}) /\ Keeps(f, Memory!PoolFree(f, b), {})
            BY <2>3, <3>2, GaveIsGood
        <3>4. r.h = Memory!PoolFree(f, b) /\ r.block = 0
            BY <1>1, <1>7, <2>6, <3>1
        <3>5. {b} \ {b} = {}
            OBVIOUS
        <3>6. Good(r.h, 0, {}) /\ Keeps(h, r.h, {})
            BY <2>2, <3>3, <3>4, <3>5, KeepsOn
        <3> QED BY <3>4, <3>6 DEF r
    <2>7. CASE c # 0
        <3>1. PoolTook(f, e, c)
            BY <2>4, <2>7
        <3> HIDE DEF c, e
        <3>2. Good(e, 0, {b} \union {c}) /\ Keeps(f, e, {})
            BY <2>3, <3>1, TookIsGood
        <3>3. Good(e, 0, {b, c}) /\ e \in HeapRec /\ PoolsHold(e) /\ Keeps(h, e, {})
            <4>1. {b} \union {c} = {b, c}
                OBVIOUS
            <4>2. Good(e, 0, {b, c})
                BY <3>2, <4>1
            <4> QED BY <2>2, <3>2, <4>2, KeepsOn DEF Good
        <3>4. c # b /\ c \in Memory!Item /\ e.blocks = h.blocks
            BY <2>5, <3>1 DEF PoolTook, Alike
        <3>5. CASE free # {} /\ size <= SlotWords
            <4>1. k \in free
                <5>1. free \subseteq Nat
                    BY DEF Memory!Slot
                <5> HIDE DEF free
                <5> QED BY <3>5, <5>1, LeastIs
            <4> HIDE DEF k
            <4>2. k \in Memory!Slot /\ ~InBlocks(e, k)
                BY <3>4, <4>1 DEF InBlocks
            <4> DEFINE rec == [block |-> k, words |-> 0, n_words |-> size, requested |-> 0]
            <4>3. rec \in CellRec
                BY <1>2, <4>2 DEF CellRec, Memory!Slot
            <4>4. <<c>> \in Seq(Memory!Item) /\ b \in Nat
                BY <2>5, <3>4 DEF Memory!Item
            <4>5. <<k>> \o e.blocks \in Seq(Memory!Slot)
                <5>1. e.blocks \in Seq(Memory!Slot)
                    BY <3>3 DEF HeapRec
                <5> QED BY <4>2, <5>1, ConsMembers
            <4> DEFINE ns == [e.n_words EXCEPT ![k] = size]
                       hs == [e.header EXCEPT ![k] = b]
                       us == [e.unused EXCEPT ![k] = <<c>>]
                       cs == [e.cell EXCEPT ![c] = rec]
                       bs == <<k>> \o e.blocks
            <4>6. g = [e EXCEPT !.n_words = ns, !.header = hs, !.unused = us, !.cell = cs,
                                !.blocks = bs]
                BY <3>3 DEF HeapRec
            <4> HIDE DEF rec
            <4>7. /\ ns \in [Memory!Slot -> Int] /\ ns[k] = size
                  /\ \A j \in Memory!Slot \ {k} : ns[j] = e.n_words[j]
                BY <1>2, <3>3, <4>2 DEF HeapRec
            <4>8. /\ hs \in [Memory!Slot -> Nat] /\ hs[k] = b
                  /\ \A j \in Memory!Slot \ {k} : hs[j] = e.header[j]
                BY <3>3, <4>2, <4>4 DEF HeapRec
            <4>9. /\ us \in [Memory!Slot -> Seq(Memory!Item)] /\ us[k] = <<c>>
                  /\ \A j \in Memory!Slot \ {k} : us[j] = e.unused[j]
                BY <3>3, <4>2, <4>4 DEF HeapRec
            <4>10. /\ cs \in [Memory!Item -> CellRec] /\ cs[c] = rec
                   /\ \A d \in Memory!Item \ {c} : cs[d] = e.cell[d]
                BY <3>3, <3>4, <4>3 DEF HeapRec
            <4> HIDE DEF ns, hs, us, cs, bs, g
            <4>11. /\ g \in HeapRec /\ g.blocks = bs /\ g.n_words = ns /\ g.header = hs
                   /\ g.unused = us /\ g.cell = cs /\ g.used = e.used /\ g.pools = e.pools
                   /\ g.taken = e.taken /\ g.mem = e.mem
                <5>1. bs \in Seq(Memory!Slot)
                    BY <4>5 DEF bs
                <5> QED BY <3>3, <4>6, <4>7, <4>8, <4>9, <4>10, <5>1 DEF HeapRec
            <4>12. Opens(e, g, k, b, c, size)
                BY <4>7, <4>8, <4>9, <4>10, <4>11 DEF Opens, bs, rec
            <4> DEFINE w == Memory!WriteGuards(g, c)
            <4>13. Good(w, 0, {}) /\ Keeps(e, w, {})
                BY <1>2, <3>3, <3>4, <3>5, <4>2, <4>12, OpenedIsGood
            <4>14. r.h = w /\ r.block = k
                BY <1>1, <1>7, <2>7, <3>5
            <4> HIDE DEF w
            <4> QED BY <3>3, <4>2, <4>13, <4>14, KeepsOn DEF r
        <3>6. CASE ~(free # {} /\ size <= SlotWords)
            <4> DEFINE g1 == Memory!PoolFree(e, b)
                       g2 == Memory!PoolFree(g1, c)
            <4>1. r.h = g2 /\ r.block = 0
                BY <1>1, <1>7, <2>7, <3>6
            <4>2. PoolGave(e, g1, b)
                BY <2>5, <3>3, PoolFreeGives
            <4> HIDE DEF g1
            <4>3. Good(g1, 0, {b, c} \ {b}) /\ Keeps(e, g1, {})
                BY <3>3, <4>2, GaveIsGood
            <4>4. {b, c} \ {b} = {c} /\ {c} \ {c} = {}
                BY <3>4
            <4>5. Good(g1, 0, {c}) /\ g1 \in HeapRec /\ PoolsHold(g1)
                <5>1. Good(g1, 0, {c})
                    BY <4>3, <4>4
                <5> QED BY <5>1 DEF Good
            <4>6. PoolGave(g1, g2, c)
                BY <3>4, <4>5, PoolFreeGives
            <4> HIDE DEF g2
            <4>7. Good(g2, 0, {c} \ {c}) /\ Keeps(g1, g2, {})
                BY <4>5, <4>6, GaveIsGood
            <4>8. Good(g2, 0, {}) /\ Keeps(h, g2, {})
                BY <3>3, <4>3, <4>4, <4>7, KeepsOn
            <4> QED BY <4>1, <4>8 DEF r
        <3> QED BY <3>5, <3>6
    <2> QED BY <2>6, <2>7
<1> QED BY <1>6, <1>7

-----------------------------------------------------------------------------
(* sec_block_destroy.                                                      *)

\* From h to g the items of S were given back, though not taken off the rings.
Freed(h, g, S) ==
    /\ g \in HeapRec /\ Alike(h, g) /\ PoolsHold(g) /\ g.taken = h.taken \ S
    /\ \A c \in Memory!Item : IF c \in S THEN g.cell[c].block = 0 ELSE g.cell[c] = h.cell[c]

LEMMA FreedOne ==
    ASSUME NEW h, NEW g, NEW S, Freed(h, g, S), NEW x \in Memory!Item
    PROVE  Freed(h, Memory!PoolFree(g, x), S \union {x})
<1> DEFINE f == Memory!PoolFree(g, x)
<1>1. PoolGave(g, f, x)
    BY PoolFreeGives DEF Freed
<1> HIDE DEF f
<1>2. f \in HeapRec /\ PoolsHold(f) /\ Alike(h, f)
    BY <1>1 DEF PoolGave, Freed, Alike
<1>3. f.taken = h.taken \ (S \union {x})
    BY <1>1 DEF PoolGave, Freed
<1>4. ASSUME NEW c \in Memory!Item
      PROVE  IF c \in S \union {x} THEN f.cell[c].block = 0 ELSE f.cell[c] = h.cell[c]
    <2>1. CASE c = x
        BY <1>1, <2>1 DEF PoolGave
    <2>2. CASE c # x
        <3>1. f.cell[c] = g.cell[c]
            BY <1>1, <2>2 DEF PoolGave
        <3> QED BY <2>2, <3>1 DEF Freed
    <2> QED BY <2>1, <2>2
<1>5. Freed(h, f, S \union {x})
    BY <1>2, <1>3, <1>4 DEF Freed
<1> QED BY <1>5 DEF f

\* From g to f block k was taken away.
Closes(g, f, k) ==
    /\ f \in HeapRec /\ f.blocks = Memory!Drop(g.blocks, k) /\ f.unused[k] = << >>
    /\ \A j \in Memory!Slot \ {k} : /\ f.n_words[j] = g.n_words[j] /\ f.header[j] = g.header[j]
                                    /\ f.unused[j] = g.unused[j] /\ f.mem[j] = g.mem[j]
    /\ f.used = g.used /\ f.cell = g.cell /\ f.pools = g.pools /\ f.taken = g.taken

LEMMA ClosedIsGood ==
    ASSUME NEW h, Good(h, 0, {}), NEW k \in Memory!Slot, InBlocks(h, k), h.used[k] = << >>,
           NEW g, NEW S, Freed(h, g, S), NEW f, Closes(g, f, k),
           S = UnusedSet(h, k, 0) \union {h.header[k]}
    PROVE  Good(f, 0, {}) /\ Keeps(h, f, {})
<1>1. /\ h \in HeapRec /\ Layout(h) /\ BlocksOK(h) /\ RingsBut(h, 0) /\ TakenBut(h, {})
      /\ PoolsHold(h) /\ CellsOK(h) /\ Apart(h) /\ Covered(h) /\ GuardsStand(h)
    BY DEF Good, Layout
<1>2. k # 0
    BY DEF Memory!Slot
<1>3. \A d \in Memory!Item : h.cell[d].block = k => h.cell[d].requested = 0
    <2>1. Ring(h.used[k], UsedSet(h, k, 0))
        BY <1>1, RingsAre
    <2>2. UsedSet(h, k, 0) = {}
        BY <2>1 DEF Ring
    <2> QED BY <2>2 DEF UsedSet, Memory!Item
<1>4. \A d \in Memory!Item : h.cell[d].block = k => d \in S
    BY <1>3 DEF UnusedSet, Memory!Item
<1>5. /\ f \in HeapRec /\ f.taken = h.taken \ S /\ f.used = h.used /\ f.pools = g.pools
      /\ f.blocks = Memory!Drop(h.blocks, k)
      /\ \A c \in Memory!Item : IF c \in S THEN f.cell[c].block = 0 ELSE f.cell[c] = h.cell[c]
      /\ \A j \in Memory!Slot \ {k} : /\ f.n_words[j] = h.n_words[j] /\ f.header[j] = h.header[j]
                                      /\ f.unused[j] = h.unused[j] /\ f.mem[j] = h.mem[j]
    BY DEF Closes, Freed, Alike
<1>6. /\ Ring(f.blocks, Memory!Members(h.blocks) \ {k})
      /\ Memory!Members(f.blocks) = Memory!Members(h.blocks) \ {k}
    <2>1. h.blocks \in Seq(Memory!Slot)
        BY <1>1 DEF HeapRec
    <2>2. Ring(h.blocks, Memory!Members(h.blocks))
        BY <1>1, <2>1, RingOfMembers DEF BlocksOK
    <2>3. Ring(f.blocks, Memory!Members(h.blocks) \ {k})
        BY <1>5, <2>2, DropFromRing
    <2> QED BY <2>3, RingMembers
<1>7. \A j \in Memory!Slot : InBlocks(f, j) <=> InBlocks(h, j) /\ j # k
    BY <1>6 DEF InBlocks
<1>8. h.header[k] \in h.taken /\ ~IsLive(h, h.header[k]) /\ h.header[k] \in Memory!Item
    <2>1. h.header[k] \in h.taken /\ ~IsLive(h, h.header[k])
        BY <1>1 DEF BlocksOK
    <2> QED BY <1>1, <2>1 DEF HeapRec
<1>9. \A d \in Memory!Item : IsLive(f, d) =>
          d \notin S /\ f.cell[d] = h.cell[d] /\ IsLive(h, d) /\ CellOK(h, d)
          /\ h.cell[d].block \in Memory!Slot \ {k}
    <2> SUFFICES ASSUME NEW d \in Memory!Item, IsLive(f, d)
                 PROVE  d \notin S /\ f.cell[d] = h.cell[d] /\ IsLive(h, d) /\ CellOK(h, d)
                        /\ h.cell[d].block \in Memory!Slot \ {k}
        OBVIOUS
    <2>1. d \notin S
        BY <1>5 DEF IsLive
    <2>2. f.cell[d] = h.cell[d]
        BY <1>5, <2>1
    <2>3. IsLive(h, d)
        BY <2>2 DEF IsLive
    <2>4. CellOK(h, d)
        BY <1>1, <2>3 DEF CellsOK
    <2> QED BY <1>4, <2>1, <2>2, <2>3, <2>4 DEF CellOK
<1>10. \A d \in Memory!Item : IsLive(h, d) /\ h.cell[d].block # k =>
           d \notin S /\ f.cell[d] = h.cell[d]
    BY <1>5, <1>8 DEF UnusedSet
<1>11. CellsOK(f)
    <2> SUFFICES ASSUME NEW d \in Memory!Item, IsLive(f, d) PROVE CellOK(f, d)
        BY DEF CellsOK
    <2>1. d \notin S /\ f.cell[d] = h.cell[d] /\ CellOK(h, d) /\ h.cell[d].block \in Memory!Slot \ {k}
        BY <1>9
    <2>2. f.n_words[h.cell[d].block] = h.n_words[h.cell[d].block]
        BY <1>5, <2>1
    <2>3. InBlocks(f, h.cell[d].block)
        BY <1>7, <2>1 DEF CellOK
    <2> QED BY <1>5, <2>1, <2>2, <2>3 DEF CellOK, End
<1>12. Apart(f)
    <2> SUFFICES ASSUME NEW d \in Memory!Item, NEW e \in Memory!Item, d # e, IsLive(f, d),
                        f.cell[d].block = f.cell[e].block
                 PROVE  End(f, d) <= f.cell[e].words \/ End(f, e) <= f.cell[d].words
        BY DEF Apart
    <2>1. IsLive(f, e)
        BY DEF IsLive
    <2>2. f.cell[d] = h.cell[d] /\ f.cell[e] = h.cell[e] /\ IsLive(h, d)
        BY <1>9, <2>1
    <2> QED BY <1>1, <2>2 DEF Apart, End
<1>13. Covered(f)
    <2> SUFFICES ASSUME NEW j \in Memory!Slot, InBlocks(f, j), NEW v \in Int,
                        0 <= v, v < f.n_words[j]
                 PROVE  \E d \in Memory!Item : HasWord(f, d, j, v)
        BY DEF Covered
    <2>1. InBlocks(h, j) /\ f.n_words[j] = h.n_words[j] /\ j # k
        BY <1>5, <1>7
    <2>2. PICK d \in Memory!Item : HasWord(h, d, j, v)
        BY <1>1, <2>1 DEF Covered
    <2>3. f.cell[d] = h.cell[d]
        BY <1>10, <2>1, <2>2 DEF HasWord, IsLive, Memory!Slot
    <2> QED BY <2>2, <2>3 DEF HasWord, End
<1>14. GuardsStand(f)
    <2> SUFFICES ASSUME NEW d \in Memory!Item, IsLive(f, d), NEW x \in Int, IsGuard(f, d, x)
                 PROVE  f.mem[f.cell[d].block][x] = d
        BY DEF GuardsStand, HasGuards
    <2>1. f.cell[d] = h.cell[d] /\ IsLive(h, d) /\ h.cell[d].block \in Memory!Slot \ {k}
        BY <1>9
    <2>2. IsGuard(h, d, x)
        BY <2>1 DEF IsGuard, End
    <2>3. h.mem[h.cell[d].block][x] = d
        BY <1>1, <2>1, <2>2 DEF GuardsStand, HasGuards
    <2> QED BY <1>5, <2>1, <2>3
<1>15. BlocksOK(f)
    <2>1. \A i, j \in 1 .. Len(f.blocks) : f.blocks[i] = f.blocks[j] => i = j
        BY <1>6 DEF Ring
    <2>2. ASSUME NEW j \in Memory!Slot, InBlocks(f, j)
          PROVE  f.n_words[j] <= SlotWords /\ f.header[j] \in f.taken /\ ~IsLive(f, f.header[j])
        <3>1. /\ InBlocks(h, j) /\ j # k /\ f.n_words[j] = h.n_words[j]
              /\ f.header[j] = h.header[j]
            BY <1>5, <1>7, <2>2
        <3>2. /\ h.n_words[j] <= SlotWords /\ h.header[j] \in h.taken
              /\ ~IsLive(h, h.header[j]) /\ h.header[j] # h.header[k]
            BY <1>1, <3>1 DEF BlocksOK
        <3>3. h.header[j] \notin S
            BY <1>2, <3>2 DEF UnusedSet, IsLive
        <3>4. h.header[j] \in Memory!Item
            BY <1>1, <3>2 DEF HeapRec
        <3>5. ~IsLive(f, h.header[j])
            BY <1>9, <3>2, <3>4
        <3> QED BY <1>5, <3>1, <3>2, <3>3, <3>5
    <2>3. ASSUME NEW i \in Memory!Slot, NEW j \in Memory!Slot, InBlocks(f, i), InBlocks(f, j),
                 f.header[i] = f.header[j]
          PROVE  i = j
        <3>1. InBlocks(h, i) /\ InBlocks(h, j) /\ h.header[i] = h.header[j]
            BY <1>5, <1>7, <2>3
        <3> QED BY <1>1, <3>1 DEF BlocksOK
    <2> QED BY <2>1, <2>2, <2>3 DEF BlocksOK
<1>16. RingsBut(f, 0)
    <2> SUFFICES ASSUME NEW j \in Memory!Slot
                 PROVE  Ring(f.used[j], UsedSet(f, j, 0)) /\ Ring(f.unused[j], UnusedSet(f, j, 0))
        BY RingsAre
    <2>1. Ring(h.used[j], UsedSet(h, j, 0)) /\ Ring(h.unused[j], UnusedSet(h, j, 0))
        BY <1>1, RingsAre
    <2>2. j # 0
        BY DEF Memory!Slot
    <2>3. CASE j = k
        <3>1. UsedSet(f, j, 0) = {} /\ UnusedSet(f, j, 0) = {}
            <4>1. \A d \in Memory!Item : f.cell[d].block # k
                BY <1>2, <1>9 DEF IsLive
            <4> QED BY <2>3, <4>1 DEF UsedSet, UnusedSet
        <3>2. f.used[j] = << >> /\ f.unused[j] = << >>
            BY <1>5, <2>3 DEF Closes
        <3> QED BY <3>1, <3>2 DEF Ring
    <2>4. CASE j # k
        <3>1. \A d \in Memory!Item : f.cell[d].block = j => f.cell[d] = h.cell[d]
            BY <1>9, <2>2 DEF IsLive
        <3>2. \A d \in Memory!Item : h.cell[d].block = j => f.cell[d] = h.cell[d]
            BY <1>10, <2>2, <2>4 DEF IsLive
        <3>3. UsedSet(f, j, 0) = UsedSet(h, j, 0)
            BY <3>1, <3>2 DEF UsedSet
        <3>4. UnusedSet(f, j, 0) = UnusedSet(h, j, 0)
            BY <3>1, <3>2 DEF UnusedSet
        <3>5. f.unused[j] = h.unused[j] /\ f.used[j] = h.used[j]
            BY <1>5, <2>4
        <3> QED BY <2>1, <3>3, <3>4, <3>5
    <2> QED BY <2>3, <2>4
<1>17. TakenBut(f, {})
    <2> SUFFICES ASSUME NEW x \in f.taken
                 PROVE  IsLive(f, x) \/ \E j \in Memory!Slot : InBlocks(f, j) /\ f.header[j] = x
        BY DEF TakenBut
    <2>1. x \in h.taken /\ x \notin S /\ x \in Memory!Item
        BY <1>1, <1>5 DEF HeapRec
    <2>2. f.cell[x] = h.cell[x]
        BY <1>5, <2>1
    <2>3. CASE IsLive(h, x)
        BY <2>2, <2>3 DEF IsLive
    <2>4. CASE ~IsLive(h, x)
        <3>1. PICK j \in Memory!Slot : InBlocks(h, j) /\ h.header[j] = x
            BY <1>1, <2>1, <2>4 DEF TakenBut
        <3>2. j # k
            BY <2>1, <3>1
        <3> QED BY <1>5, <1>7, <3>1, <3>2
    <2> QED BY <2>3, <2>4
<1>18. PoolsHold(f)
    <2>1. f.taken = g.taken /\ f.pools = g.pools /\ PoolsHold(g)
        BY DEF Closes, Freed
    <2> QED BY <2>1 DEF PoolsHold
<1>19. Keeps(h, f, {})
    <2> SUFFICES ASSUME NEW d \in Memory!Item PROVE KeepsCell(h, f, d)
        BY DEF Keeps
    <2>1. CASE IsUsed(h, d)
        <3>1. h.cell[d].block # k /\ IsLive(h, d) /\ h.cell[d].block \in Memory!Slot
            BY <1>1, <1>3, <2>1 DEF IsUsed, CellsOK, CellOK
        <3>2. f.cell[d] = h.cell[d]
            BY <1>10, <3>1
        <3>3. f.mem[h.cell[d].block] = h.mem[h.cell[d].block]
            BY <1>5, <3>1
        <3> QED BY <2>1, <3>2, <3>3 DEF KeepsCell, IsUsed, IsLive, SameBytes
    <2>2. CASE ~IsUsed(h, d)
        <3>1. ~IsUsed(f, d)
            <4>1. IsLive(f, d) => f.cell[d] = h.cell[d] /\ IsLive(h, d)
                BY <1>9
            <4> QED BY <2>2, <4>1 DEF IsUsed
        <3> QED BY <2>2, <3>1 DEF KeepsCell
    <2> QED BY <2>1, <2>2
<1> QED BY <1>5, <1>11, <1>12, <1>13, <1>14, <1>15, <1>16, <1>17, <1>18, <1>19 DEF Good, Layout

LEMMA CellsFreed ==
    ASSUME NEW h, Good(h, 0, {}), NEW s \in Seq(Memory!Item)
    PROVE  LET freed[i \in 0 .. Len(s)] ==
                   IF i = 0 THEN h ELSE Memory!PoolFree(freed[i - 1], s[i])
           IN  Freed(h, freed[Len(s)], Memory!Members(s))
<1> DEFINE n == Len(s)
           upto(i) == {s[j] : j \in 1 .. i}
           X(i) == {g \in HeapRec : Freed(h, g, upto(i))}
           G == [i \in 0 .. n |-> X(i)]
           step == [i \in 1 .. n |-> [g \in X(i - 1) |-> Memory!PoolFree(g, s[i])]]
           Equation(f) == f = [i \in 0 .. n |->
                                  IF i = 0 THEN h ELSE Memory!PoolFree(f[i - 1], s[i])]
           freed == CHOOSE f : Equation(f)
<1>1. n \in Nat /\ \A i \in 1 .. n : s[i] \in Memory!Item
    OBVIOUS
<1>2. h \in X(0)
    <2>1. h \in HeapRec /\ PoolsHold(h)
        BY DEF Good
    <2>2. upto(0) = {}
        OBVIOUS
    <2>3. Freed(h, h, {})
        BY <2>1 DEF Freed, Alike
    <2> QED BY <2>1, <2>2, <2>3
<1>3. ASSUME NEW i \in 1 .. n, NEW g \in X(i - 1) PROVE Memory!PoolFree(g, s[i]) \in X(i)
    <2>1. Freed(h, g, upto(i - 1))
        OBVIOUS
    <2>2. upto(i) = upto(i - 1) \union {s[i]}
        BY <1>1
    <2> HIDE DEF upto
    <2>3. Freed(h, Memory!PoolFree(g, s[i]), upto(i))
        BY <1>1, <2>1, <2>2, FreedOne
    <2> QED BY <2>3 DEF Freed
<1> HIDE DEF X
<1>4. \A i \in 1 .. n : \A g \in G[i - 1] : step[i][g] \in G[i]
    <2> SUFFICES ASSUME NEW i \in 1 .. n, NEW g \in G[i - 1] PROVE step[i][g] \in G[i]
        OBVIOUS
    <2>1. i - 1 \in 0 .. n /\ i \in 0 .. n
        BY <1>1
    <2>2. g \in X(i - 1)
        BY <2>1
    <2>3. step[i][g] = Memory!PoolFree(g, s[i])
        BY <2>2
    <2> QED BY <1>3, <2>1, <2>2, <2>3
<1>5. PICK f : /\ f = [i \in 0 .. n |-> f[i]]
               /\ f[0] = h /\ \A i \in 1 .. n : f[i] = step[i][f[i - 1]]
               /\ \A i \in 0 .. n : f[i] \in G[i]
    <2>1. h \in G[0]
        BY <1>1, <1>2
    <2> HIDE DEF step, G, n
    <2>2. \E f : Guided(f, n, G, h, step)
        BY <1>1, <1>4, <2>1, GuidedRecursion
    <2> QED BY <2>2 DEF Guided
<1>6. \A i \in 1 .. n : f[i] = Memory!PoolFree(f[i - 1], s[i])
    <2> SUFFICES ASSUME NEW i \in 1 .. n PROVE f[i] = Memory!PoolFree(f[i - 1], s[i])
        OBVIOUS
    <2>1. i - 1 \in 0 .. n
        BY <1>1
    <2>2. f[i - 1] \in X(i - 1)
        BY <1>5, <2>1
    <2>3. step[i][f[i - 1]] = Memory!PoolFree(f[i - 1], s[i])
        BY <2>2
    <2> QED BY <1>5, <2>3
<1>7. Equation(f)
    <2>1. \A i \in 0 .. n : i # 0 => i \in 1 .. n
        BY <1>1
    <2> HIDE DEF step, n
    <2>2. \A i \in 0 .. n : f[i] = IF i = 0 THEN h ELSE Memory!PoolFree(f[i - 1], s[i])
        BY <1>5, <1>6, <2>1
    <2> QED BY <1>5, <2>2
<1>8. Equation(freed)
    <2> HIDE DEF Equation
    <2> QED BY <1>7
<1>9. freed[0] = h /\ \A i \in 1 .. n : freed[i] = Memory!PoolFree(freed[i - 1], s[i])
    <2> HIDE DEF freed, n
    <2>1. 0 \in 0 .. n /\ \A i \in 1 .. n : i \in 0 .. n /\ i # 0
        BY <1>1
    <2> QED BY <1>8, <2>1
<1> HIDE DEF freed, Equation
<1>10. \A i \in 0 .. n : freed[i] \in X(i)
    <2> DEFINE S == {i \in 0 .. n : freed[i] \in X(i)}
    <2>1. 0 \in S
        BY <1>1, <1>2, <1>9
    <2>2. ASSUME NEW i \in 1 .. n, i - 1 \in S PROVE i \in S
        <3>1. i \in 0 .. n
            BY <1>1
        <3>2. freed[i - 1] \in X(i - 1)
            BY <2>2
        <3> QED BY <1>3, <1>9, <3>1, <3>2
    <2> HIDE DEF S, n
    <2>3. \A i \in 0 .. n : i \in S
        BY <1>1, <2>1, <2>2, Induction
    <2> QED BY <2>3 DEF S
<1>11. Freed(h, freed[n], Memory!Members(s))
    <2>1. freed[n] \in X(n)
        BY <1>1, <1>10
    <2>2. upto(n) = Memory!Members(s)
        BY DEF Memory!Members
    <2> QED BY <2>1, <2>2 DEF X
<1> QED BY <1>11 DEF freed, Equation

LEMMA BlockDestroyKeeps ==
    ASSUME NEW h, Good(h, 0, {}), NEW k \in Memory!Slot, InBlocks(h, k), h.used[k] = << >>
    PROVE  LET f == Memory!BlockDestroy(h, k)
           IN  Good(f, 0, {}) /\ Keeps(h, f, {})
<1> DEFINE s == h.unused[k]
           freed[i \in 0 .. Len(s)] == IF i = 0 THEN h ELSE Memory!PoolFree(freed[i - 1], s[i])
           e == freed[Len(s)]
           g == Memory!PoolFree(e, h.header[k])
           ns == [g.n_words EXCEPT ![k] = 0]
           hs == [g.header EXCEPT ![k] = 0]
           us == [g.unused EXCEPT ![k] = << >>]
           ms == [g.mem EXCEPT ![k] = [b \in DOMAIN @ |-> Memory!Zero]]
           bs == Memory!Drop(g.blocks, k)
           f == [g EXCEPT !.blocks = bs, !.n_words = ns, !.header = hs, !.unused = us, !.mem = ms]
<1>1. h \in HeapRec /\ RingsBut(h, 0) /\ BlocksOK(h)
    BY DEF Good
<1>2. s \in Seq(Memory!Item) /\ Ring(s, UnusedSet(h, k, 0))
    BY <1>1, RingsAre DEF HeapRec
<1>3. Freed(h, e, Memory!Members(s))
    <2> HIDE DEF s
    <2> QED BY <1>2, CellsFreed
<1>4. Memory!BlockDestroy(h, k) = [g EXCEPT !.blocks = Memory!Drop(@, k), !.n_words[k] = 0,
                                            !.header[k] = 0, !.unused[k] = << >>,
                                            !.mem[k] = [b \in DOMAIN @ |-> Memory!Zero]]
    BY DEF Memory!BlockDestroy
<1> HIDE DEF e, freed
<1>5. Freed(h, g, UnusedSet(h, k, 0) \union {h.header[k]})
    <2>1. Memory!Members(s) = UnusedSet(h, k, 0)
        BY <1>2, RingMembers
    <2>2. h.header[k] \in Memory!Item
        <3>1. h.header[k] \in h.taken
            BY <1>1 DEF BlocksOK
        <3> QED BY <1>1, <3>1 DEF HeapRec
    <2> HIDE DEF s
    <2> QED BY <1>3, <2>1, <2>2, FreedOne
<1> HIDE DEF g
<1>6. g \in HeapRec
    BY <1>5 DEF Freed
<1>7. Memory!BlockDestroy(h, k) = f
    BY <1>4, <1>6 DEF HeapRec
<1>8. /\ ns \in [Memory!Slot -> Int] /\ \A j \in Memory!Slot \ {k} : ns[j] = g.n_words[j]
      /\ hs \in [Memory!Slot -> Nat] /\ \A j \in Memory!Slot \ {k} : hs[j] = g.header[j]
    BY <1>6 DEF HeapRec
<1>9. /\ us \in [Memory!Slot -> Seq(Memory!Item)] /\ us[k] = << >>
      /\ \A j \in Memory!Slot \ {k} : us[j] = g.unused[j]
    <2>1. << >> \in Seq(Memory!Item)
        OBVIOUS
    <2> QED BY <1>6, <2>1 DEF HeapRec
<1>10. /\ ms \in [Memory!Slot -> [Bytes -> Int]]
       /\ \A j \in Memory!Slot \ {k} : ms[j] = g.mem[j]
    <2>1. g.mem \in [Memory!Slot -> [Bytes -> Int]]
        BY <1>6 DEF HeapRec
    <2>2. DOMAIN g.mem[k] = Bytes
        BY <2>1
    <2>3. [b \in DOMAIN g.mem[k] |-> Memory!Zero] \in [Bytes -> Int]
        BY <2>2 DEF Memory!Zero
    <2> QED BY <2>1, <2>3
<1>11. bs \in Seq(Memory!Slot)
    <2>1. g.blocks \in Seq(Memory!Slot)
        BY <1>6 DEF HeapRec
    <2> QED BY <2>1, DropLeaves
<1>12. bs = Memory!Drop(g.blocks, k)
    OBVIOUS
<1> HIDE DEF ns, hs, us, ms, bs
<1>13. /\ f \in HeapRec /\ f.blocks = bs /\ f.n_words = ns /\ f.header = hs /\ f.unused = us
       /\ f.mem = ms /\ f.used = g.used /\ f.cell = g.cell /\ f.pools = g.pools
       /\ f.taken = g.taken
    BY <1>6, <1>8, <1>9, <1>10, <1>11 DEF HeapRec
<1> HIDE DEF f
<1>14. Closes(g, f, k)
    BY <1>8, <1>9, <1>10, <1>12, <1>13 DEF Closes
<1>15. Good(f, 0, {}) /\ Keeps(h, f, {})
    BY <1>5, <1>14, ClosedIsGood
<1> QED BY <1>7, <1>15

LEMMA DestroyKeeps ==
    ASSUME NEW h, Good(h, 0, {}), NEW k \in Memory!Slot, InBlocks(h, k)
    PROVE  LET f == Memory!DestroyIfUnused(h, k)
           IN  Good(f, 0, {}) /\ Keeps(h, f, {})
<1>1. CASE h.used[k] = << >>
    <2>1. Memory!DestroyIfUnused(h, k) = Memory!BlockDestroy(h, k)
        BY <1>1 DEF Memory!DestroyIfUnused
    <2> QED BY <1>1, <2>1, BlockDestroyKeeps
<1>2. CASE h.used[k] # << >>
    <2>1. Memory!DestroyIfUnused(h, k) = h
        BY <1>2 DEF Memory!DestroyIfUnused
    <2> QED BY <2>1, KeepsItself
<1> QED BY <1>1, <1>2

-----------------------------------------------------------------------------
(* egg_secure_alloc_full.                                                  *)

Provides(h, r, length) ==
    \/ r.ptr = Memory!Null /\ Good(r.h, 0, {}) /\ Keeps(h, r.h, {})
    \/ \E c \in Memory!Item : Obtains(h, r.h, c, length) /\ r.ptr = PointerOf(r.h, c)

LEMMA NullIsNoCell ==
    ASSUME NEW g, NEW c, IsLive(g, c)
    PROVE  PointerOf(g, c) # Memory!Null
<1>1. Memory!Null[1] = 0 /\ PointerOf(g, c)[1] = g.cell[c].block
    BY DEF Memory!Null, PointerOf
<1> QED BY <1>1 DEF IsLive

LEMMA ProvidesOn ==
    ASSUME NEW f, NEW h, Keeps(f, h, {}), NEW r, NEW length, Provides(h, r, length)
    PROVE  Provides(f, r, length)
<1>1. CASE r.ptr = Memory!Null /\ Good(r.h, 0, {}) /\ Keeps(h, r.h, {})
    BY <1>1, KeepsOn DEF Provides
<1>2. ASSUME NEW c \in Memory!Item, Obtains(h, r.h, c, length), r.ptr = PointerOf(r.h, c)
      PROVE  Provides(f, r, length)
    <2>1. Keeps(f, r.h, {c})
        BY <1>2, KeepsMore, KeepsOn DEF Obtains
    <2>2. ~IsUsed(f, c)
        BY <1>2 DEF Obtains, Keeps, KeepsCell
    <2>3. Obtains(f, r.h, c, length)
        BY <1>2, <2>1, <2>2 DEF Obtains
    <2> QED BY <1>2, <2>3 DEF Provides
<1> QED BY <1>1, <1>2 DEF Provides

LEMMA SecAllocRecord ==
    ASSUME NEW h, NEW k, NEW length
    PROVE  LET r == Memory!SecAlloc(h, k, length) IN r = [h |-> r.h, ptr |-> r.ptr]
<1> DEFINE n == Memory!ToWords(length) + 2
           ring == h.unused[k]
           fits == {i \in 1 .. Len(ring) : h.cell[ring[i]].n_words >= n}
           c == ring[Memory!Least(fits)]
           fresh == Memory!PoolAlloc(h)
           result(g, x) == [h |-> Memory!Use(g, x, length), ptr |-> <<k, g.cell[x].words + 1>>]
           one == result([h EXCEPT !.unused[k] = Memory!Drop(@, c)], c)
           two == result(Memory!SplitOff(fresh.h, c, fresh.item, n), fresh.item)
           r == Memory!SecAlloc(h, k, length)
<1>1. r = IF fits = {} THEN [h |-> h, ptr |-> Memory!Null]
          ELSE IF h.cell[c].n_words <= n + Waste THEN one
          ELSE IF fresh.item = 0 THEN [h |-> fresh.h, ptr |-> Memory!Null]
          ELSE two
    BY DEF Memory!SecAlloc
<1>2. \A g, x : result(g, x) = [h |-> result(g, x).h, ptr |-> result(g, x).ptr]
    BY SMTT(30)
<1>3. one = [h |-> one.h, ptr |-> one.ptr] /\ two = [h |-> two.h, ptr |-> two.ptr]
    <2> HIDE DEF result
    <2> QED BY <1>2
<1> HIDE DEF r, one, two, fits, fresh, c
<1> QED BY <1>1, <1>3 DEF r

\* A block is tried when none before it had room.
LEMMA TryGets ==
    ASSUME NEW h, NEW t, NEW length \in Length, Gets(h, t, length), t.ptr = Memory!Null,
           NEW k \in Memory!Slot
    PROVE  Gets(h, Memory!SecAlloc(t.h, k, length), length)
<1> DEFINE r == Memory!SecAlloc(t.h, k, length)
<1>1. Good(t.h, 0, {}) /\ Keeps(h, t.h, {}) /\ t.h.blocks = h.blocks
    BY NullIsNoCell DEF Gets, Obtains
<1>2. Gets(t.h, r, length)
    BY <1>1, SecAllocGets
<1> HIDE DEF r
<1>3. Provides(t.h, r, length) /\ r.h.blocks = h.blocks
    BY <1>1, <1>2 DEF Gets, Provides
<1>4. Provides(h, r, length)
    BY <1>1, <1>3, ProvidesOn
<1>5. Gets(h, r, length)
    BY <1>3, <1>4 DEF Gets, Provides
<1> QED BY <1>5 DEF r

LEMMA GetsType ==
    ASSUME NEW h, NEW t, NEW length, t = [h |-> t.h, ptr |-> t.ptr], Gets(h, t, length)
    PROVE  t \in [h : HeapRec, ptr : Nat \X Int]
<1>1. t.h \in HeapRec
    BY DEF Gets, Good, Obtains
<1>2. t.ptr \in Nat \X Int
    <2>1. Memory!Null \in Nat \X Int
        BY DEF Memory!Null
    <2>2. \A c \in Memory!Item : PointerOf(t.h, c) \in Nat \X Int
        <3> SUFFICES ASSUME NEW c \in Memory!Item PROVE PointerOf(t.h, c) \in Nat \X Int
            OBVIOUS
        <3>1. t.h.cell[c].block \in Nat /\ t.h.cell[c].words \in Int
            BY <1>1 DEF HeapRec, CellRec
        <3>2. t.h.cell[c].words + 1 \in Int
            BY <3>1
        <3> QED BY <3>1, <3>2 DEF PointerOf
    <2> QED BY <2>1, <2>2 DEF Gets
<1> QED BY <1>1, <1>2

LEMMA BlocksTried ==
    ASSUME NEW h, Good(h, 0, {}), NEW length \in Length
    PROVE  LET tries[i \in 0 .. Len(h.blocks)] ==
                   IF i = 0 THEN [h |-> h, ptr |-> Memory!Null]
                   ELSE IF tries[i - 1].ptr # Memory!Null THEN tries[i - 1]
                   ELSE Memory!SecAlloc(tries[i - 1].h, h.blocks[i], length)
           IN  Gets(h, tries[Len(h.blocks)], length)
<1> DEFINE s == h.blocks
           n == Len(s)
           base == [h |-> h, ptr |-> Memory!Null]
           next(t, i) == IF t.ptr # Memory!Null THEN t ELSE Memory!SecAlloc(t.h, s[i], length)
           X == {t \in [h : HeapRec, ptr : Nat \X Int] : Gets(h, t, length)}
           G == [i \in 0 .. n |-> X]
           step == [i \in 1 .. n |-> [t \in X |-> next(t, i)]]
           Equation(f) == f = [i \in 0 .. n |-> IF i = 0 THEN base ELSE next(f[i - 1], i)]
           tries == CHOOSE f : Equation(f)
<1>1. n \in Nat /\ \A i \in 1 .. n : s[i] \in Memory!Slot
    <2>1. s \in Seq(Memory!Slot)
        BY DEF Good, HeapRec
    <2> HIDE DEF s
    <2> QED BY <2>1
<1>2. base \in X
    <2>1. Gets(h, base, length)
        BY KeepsItself DEF Gets
    <2>2. base = [h |-> base.h, ptr |-> base.ptr]
        OBVIOUS
    <2> HIDE DEF base
    <2> QED BY <2>1, <2>2, GetsType
<1> HIDE DEF s, base
<1>3. ASSUME NEW i \in 1 .. n, NEW t \in X PROVE next(t, i) \in X
    <2>1. Gets(h, t, length)
        OBVIOUS
    <2>2. CASE t.ptr # Memory!Null
        BY <2>2
    <2>3. CASE t.ptr = Memory!Null
        <3> DEFINE r == Memory!SecAlloc(t.h, s[i], length)
        <3>1. next(t, i) = r
            BY <2>3
        <3>2. Gets(h, r, length)
            BY <1>1, <2>1, <2>3, TryGets
        <3>3. r = [h |-> r.h, ptr |-> r.ptr]
            BY SecAllocRecord
        <3> HIDE DEF r
        <3>4. r \in [h : HeapRec, ptr : Nat \X Int]
            BY <3>2, <3>3, GetsType
        <3> HIDE DEF next
        <3> QED BY <3>1, <3>2, <3>4
    <2> QED BY <2>2, <2>3
<1> HIDE DEF X, next
<1>4. \A i \in 1 .. n : \A t \in G[i - 1] : step[i][t] \in G[i]
    <2> SUFFICES ASSUME NEW i \in 1 .. n, NEW t \in G[i - 1] PROVE step[i][t] \in G[i]
        OBVIOUS
    <2>1. i - 1 \in 0 .. n /\ i \in 0 .. n
        BY <1>1
    <2>2. t \in X
        BY <2>1
    <2>3. step[i][t] = next(t, i)
        BY <2>2
    <2> QED BY <1>3, <2>1, <2>2, <2>3
<1>5. PICK f : /\ f = [i \in 0 .. n |-> f[i]]
               /\ f[0] = base /\ \A i \in 1 .. n : f[i] = step[i][f[i - 1]]
               /\ \A i \in 0 .. n : f[i] \in G[i]
    <2>1. base \in G[0]
        BY <1>1, <1>2
    <2> HIDE DEF step, G, n
    <2>2. \E f : Guided(f, n, G, base, step)
        BY <1>1, <1>4, <2>1, GuidedRecursion
    <2> QED BY <2>2 DEF Guided
<1>6. \A i \in 1 .. n : f[i] = next(f[i - 1], i)
    <2> SUFFICES ASSUME NEW i \in 1 .. n PROVE f[i] = next(f[i - 1], i)
        OBVIOUS
    <2>1. i - 1 \in 0 .. n
        BY <1>1
    <2>2. f[i - 1] \in X
        BY <1>5, <2>1
    <2>3. step[i][f[i - 1]] = next(f[i - 1], i)
        BY <2>2
    <2> QED BY <1>5, <2>3
<1>7. Equation(f)
    <2>1. \A i \in 0 .. n : i # 0 => i \in 1 .. n
        BY <1>1
    <2> HIDE DEF step, n
    <2>2. \A i \in 0 .. n : f[i] = IF i = 0 THEN base ELSE next(f[i - 1], i)
        BY <1>5, <1>6, <2>1
    <2> QED BY <1>5, <2>2
<1>8. Equation(tries)
    <2> HIDE DEF Equation
    <2> QED BY <1>7
<1>9. tries[0] = base /\ \A i \in 1 .. n : tries[i] = next(tries[i - 1], i)
    <2> HIDE DEF tries, n
    <2>1. 0 \in 0 .. n /\ \A i \in 1 .. n : i \in 0 .. n /\ i # 0
        BY <1>1
    <2> QED BY <1>8, <2>1
<1> HIDE DEF tries, Equation
<1>10. \A i \in 0 .. n : tries[i] \in X
    <2> DEFINE S == {i \in 0 .. n : tries[i] \in X}
    <2>1. 0 \in S
        BY <1>1, <1>2, <1>9
    <2>2. ASSUME NEW i \in 1 .. n, i - 1 \in S PROVE i \in S
        <3>1. i \in 0 .. n
            BY <1>1
        <3>2. tries[i - 1] \in X
            BY <2>2
        <3> QED BY <1>3, <1>9, <3>1, <3>2
    <2> HIDE DEF S, n
    <2>3. \A i \in 0 .. n : i \in S
        BY <1>1, <2>1, <2>2, Induction
    <2> QED BY <2>3 DEF S
<1>11. Gets(h, tries[n], length)
    <2>1. tries[n] \in X
        BY <1>1, <1>10
    <2> QED BY <2>1 DEF X
<1> QED BY <1>11 DEF tries, Equation, next, base, s

LEMMA AllocFullProvides ==
    ASSUME NEW h, Good(h, 0, {}), NEW length \in Length
    PROVE  Provides(h, Memory!AllocFull(h, length), length)
<1> DEFINE tries[i \in 0 .. Len(h.blocks)] ==
               IF i = 0 THEN [h |-> h, ptr |-> Memory!Null]
               ELSE IF tries[i - 1].ptr # Memory!Null THEN tries[i - 1]
               ELSE Memory!SecAlloc(tries[i - 1].h, h.blocks[i], length)
           old == tries[Len(h.blocks)]
           new == Memory!BlockCreate(old.h, length)
           r == Memory!AllocFull(h, length)
<1>1. Gets(h, old, length)
    BY BlocksTried
<1>2. r = IF old.ptr # Memory!Null THEN old
          ELSE IF new.block = 0 THEN [h |-> new.h, ptr |-> Memory!Null]
          ELSE Memory!SecAlloc(new.h, new.block, length)
    BY DEF Memory!AllocFull
<1> HIDE DEF old, tries, r
<1>3. Provides(h, old, length)
    BY <1>1 DEF Gets, Provides
<1>4. CASE old.ptr # Memory!Null
    BY <1>2, <1>3, <1>4 DEF r
<1>5. CASE old.ptr = Memory!Null
    <2>1. Good(old.h, 0, {}) /\ Keeps(h, old.h, {})
        BY <1>1, <1>5, NullIsNoCell DEF Gets, Obtains
    <2>2. /\ Good(new.h, 0, {}) /\ Keeps(old.h, new.h, {})
          /\ new.block # 0 => new.block \in Memory!Slot
        BY <2>1, BlockCreateKeeps
    <2> HIDE DEF new
    <2>3. Keeps(h, new.h, {})
        BY <2>1, <2>2, KeepsOn
    <2>4. CASE new.block = 0
        <3>1. r.h = new.h /\ r.ptr = Memory!Null
            BY <1>2, <1>5, <2>4
        <3> QED BY <2>2, <2>3, <3>1 DEF Provides, r
    <2>5. CASE new.block # 0
        <3>1. Gets(new.h, Memory!SecAlloc(new.h, new.block, length), length)
            BY <2>2, <2>5, SecAllocGets
        <3>2. r = Memory!SecAlloc(new.h, new.block, length)
            BY <1>2, <1>5, <2>5
        <3>3. Provides(new.h, r, length)
            BY <3>1, <3>2 DEF Gets, Provides
        <3>4. Provides(h, r, length)
            BY <2>3, <3>3, ProvidesOn
        <3> QED BY <3>4 DEF r
    <2> QED BY <2>4, <2>5
<1> QED BY <1>4, <1>5

-----------------------------------------------------------------------------
(* The program.                                                            *)

\* What is being moved is still the program's, and less than the length wanted until
\* it is known where it goes.
StillThere(h, p, move) ==
    \E c \in Memory!Item : /\ IsUsed(h, c) /\ PointerOf(h, c) = p
                           /\ move.to = Memory!Null => h.cell[c].requested < move.length

Moves == [length : Length, to : Nat \X Int]

MovingOK(h, m) == \A p \in DOMAIN m : m[p] \in Moves /\ StillThere(h, p, m[p])

MemoryInv == Good(heap, 0, {}) /\ MovingOK(heap, moving)

\* Pointer p is to none of the cells in S.
NotTo(h, p, S) == \A c \in S : IsUsed(h, c) => PointerOf(h, c) # p

LEMMA StaysThere ==
    ASSUME NEW h, NEW g, NEW S, Keeps(h, g, S), NEW p, NotTo(h, p, S), NEW move,
           StillThere(h, p, move)
    PROVE  StillThere(g, p, move)
<1>1. PICK c \in Memory!Item : /\ IsUsed(h, c) /\ PointerOf(h, c) = p
                               /\ move.to = Memory!Null => h.cell[c].requested < move.length
    BY DEF StillThere
<1>2. KeepsCell(h, g, c)
    BY <1>1 DEF Keeps, NotTo
<1>3. IsUsed(g, c) /\ PointerOf(g, c) = p /\ g.cell[c].requested = h.cell[c].requested
    BY <1>1, <1>2 DEF KeepsCell, PointerOf
<1> QED BY <1>1, <1>3 DEF StillThere

LEMMA MovingStays ==
    ASSUME NEW h, NEW g, NEW S, Keeps(h, g, S), NEW m, MovingOK(h, m),
           \A p \in DOMAIN m : NotTo(h, p, S)
    PROVE  MovingOK(g, m)
BY StaysThere DEF MovingOK

\* A pointer of the program and its cell.
LEMMA PointerHas ==
    ASSUME NEW h, Good(h, 0, {}), NEW p \in Memory!Pointers(h)
    PROVE  \E c \in Memory!Item :
               /\ IsUsed(h, c) /\ p = PointerOf(h, c) /\ IsLive(h, c)
               /\ p[1] = h.cell[c].block /\ p[2] = h.cell[c].words + 1
               /\ p[1] \in Memory!Slot /\ InBlocks(h, p[1]) /\ p \in Nat \X Int
               /\ Memory!CellOf(h, p) = c /\ p[2] * WordSize = Memory!First(h, c)
               /\ \A d \in Memory!Item : IsUsed(h, d) /\ PointerOf(h, d) = p => d = c
<1>1. h \in HeapRec /\ Layout(h) /\ BlocksOK(h)
    BY DEF Good
<1>2. PICK c \in Memory!Item : IsUsed(h, c) /\ p = PointerOf(h, c)
    BY PointersAre
<1>3. IsLive(h, c) /\ p[1] = h.cell[c].block /\ p[2] = h.cell[c].words + 1
    BY <1>2 DEF IsUsed, PointerOf
<1>4. p[1] \in Memory!Slot /\ InBlocks(h, p[1])
    BY <1>1, <1>3, CellPlace
<1>5. p \in Nat \X Int
    <2>1. h.cell[c].words + 1 \in Int
        BY <1>1, <1>3, CellType
    <2>2. h.cell[c].block \in Nat
        BY <1>3, <1>4 DEF Memory!Slot
    <2> QED BY <1>2, <2>1, <2>2 DEF PointerOf
<1>6. Memory!CellOf(h, p) = c
    BY <1>1, <1>2, <1>3, CellOfPointer
<1>7. \A d \in Memory!Item : IsUsed(h, d) /\ PointerOf(h, d) = p => d = c
    BY <1>1, <1>2, PointersDiffer DEF IsUsed
<1>8. p[2] * WordSize = Memory!First(h, c)
    BY <1>3 DEF Memory!First
<1> QED BY <1>2, <1>3, <1>4, <1>5, <1>6, <1>7, <1>8

\* The pointers that nobody moves are not to what is moved.
LEMMA SettledApart ==
    ASSUME NEW p, Memory!Settled(p)
    PROVE  \A q \in DOMAIN moving : q # p
BY DEF Memory!Settled

LEMMA MemoryStarts ==
    ASSUME Memory!Init
    PROVE  MemoryInv
<1> DEFINE zeros == [b \in 0 .. SlotWords * WordSize - 1 |-> Memory!Zero]
           none == [k \in Memory!Slot |-> 0]
           empty == [k \in Memory!Slot |-> << >>]
           cells == [i \in Memory!Item |-> Memory!NoCell]
           mem == [k \in Memory!Slot |-> zeros]
<1>1. heap = [blocks |-> << >>, n_words |-> none, header |-> none, used |-> empty,
              unused |-> empty, cell |-> cells, pools |-> << >>, taken |-> {}, mem |-> mem]
    BY DEF Memory!Init
<1>2. none \in [Memory!Slot -> Int] /\ none \in [Memory!Slot -> Nat]
    OBVIOUS
<1>3. empty \in [Memory!Slot -> Seq(Memory!Item)]
    OBVIOUS
<1>4. cells \in [Memory!Item -> CellRec] /\ \A c \in Memory!Item : cells[c].block = 0
    BY NoCellIs
<1>5. mem \in [Memory!Slot -> [Bytes -> Int]]
    BY DEF Bytes, Memory!Zero
<1>6. /\ \A k \in Memory!Slot : empty[k] = << >>
      /\ << >> \in Seq(Memory!Slot) /\ << >> \in Seq(Memory!Pool)
    OBVIOUS
<1> HIDE DEF zeros, none, empty, cells, mem
<1>7. heap \in HeapRec
    BY <1>1, <1>2, <1>3, <1>4, <1>5, <1>6 DEF HeapRec
<1>8. \A c \in Memory!Item : ~IsLive(heap, c)
    BY <1>1, <1>4 DEF IsLive
<1>9. \A k : ~InBlocks(heap, k)
    BY <1>1 DEF InBlocks, Memory!Members
<1>10. Layout(heap)
    BY <1>8, <1>9 DEF Layout, CellsOK, Apart, Covered, GuardsStand
<1>11. BlocksOK(heap)
    BY <1>1, <1>9 DEF BlocksOK
<1>12. RingsBut(heap, 0)
    <2> SUFFICES ASSUME NEW k \in Memory!Slot
                 PROVE  Ring(heap.used[k], UsedSet(heap, k, 0))
                        /\ Ring(heap.unused[k], UnusedSet(heap, k, 0))
        BY RingsAre
    <2>1. UsedSet(heap, k, 0) = {} /\ UnusedSet(heap, k, 0) = {}
        BY <1>8 DEF UsedSet, UnusedSet, IsLive, Memory!Slot
    <2>2. heap.used[k] = << >> /\ heap.unused[k] = << >>
        BY <1>1, <1>6
    <2> QED BY <2>1, <2>2 DEF Ring
<1>13. TakenBut(heap, {}) /\ PoolsHold(heap)
    BY <1>1 DEF TakenBut, PoolsHold
<1>14. MovingOK(heap, moving)
    BY DEF Memory!Init, MovingOK
<1> QED BY <1>7, <1>10, <1>11, <1>12, <1>13, <1>14 DEF MemoryInv, Good

\* What an action on one cell and the rest leave behind.
LEMMA AllocKeeps ==
    ASSUME MemoryInv, NEW length \in Length, Memory!Alloc(length)
    PROVE  MemoryInv'
<1> DEFINE r == Memory!AllocFull(heap, length)
<1>1. Good(heap, 0, {}) /\ MovingOK(heap, moving) /\ heap' = r.h /\ moving' = moving
    BY DEF MemoryInv, Memory!Alloc
<1>2. Provides(heap, r, length)
    BY <1>1, AllocFullProvides
<1> HIDE DEF r
<1>3. \E S : Good(r.h, 0, {}) /\ Keeps(heap, r.h, S) /\ \A c \in S : ~IsUsed(heap, c)
    <2>1. CASE Good(r.h, 0, {}) /\ Keeps(heap, r.h, {})
        BY <2>1
    <2>2. ASSUME NEW c \in Memory!Item, Obtains(heap, r.h, c, length)
          PROVE  \E S : Good(r.h, 0, {}) /\ Keeps(heap, r.h, S) /\ \A d \in S : ~IsUsed(heap, d)
        <3>1. Good(r.h, 0, {}) /\ Keeps(heap, r.h, {c}) /\ \A d \in {c} : ~IsUsed(heap, d)
            BY <2>2 DEF Obtains
        <3> QED BY <3>1
    <2> QED BY <1>2, <2>1, <2>2 DEF Provides
<1>4. PICK S : Good(r.h, 0, {}) /\ Keeps(heap, r.h, S) /\ \A c \in S : ~IsUsed(heap, c)
    BY <1>3
<1>5. \A p \in DOMAIN moving : NotTo(heap, p, S)
    BY <1>4 DEF NotTo
<1>6. MovingOK(r.h, moving)
    BY <1>1, <1>4, <1>5, MovingStays
<1> QED BY <1>1, <1>4, <1>6 DEF MemoryInv

LEMMA FreeFull ==
    ASSUME NEW h, Good(h, 0, {}), NEW c \in Memory!Item, IsUsed(h, c)
    PROVE  LET p == PointerOf(h, c)
               g == Memory!DestroyIfUnused(Memory!SecFree(h, p), p[1])
           IN  Good(g, 0, {}) /\ Keeps(h, g, {c}) /\ ~IsUsed(g, c)
<1> DEFINE p == PointerOf(h, c)
           f == Memory!SecFree(h, p)
           g == Memory!DestroyIfUnused(f, p[1])
<1>1. p[1] \in Memory!Slot /\ InBlocks(h, p[1])
    <2>1. p[1] = h.cell[c].block
        BY DEF PointerOf
    <2> QED BY <2>1, CellPlace DEF Good, IsUsed
<1>2. Good(f, 0, {}) /\ Keeps(h, f, {c}) /\ ~IsUsed(f, c) /\ f.blocks = h.blocks
    BY SecFreeSheds
<1> HIDE DEF f, p
<1>3. InBlocks(f, p[1])
    BY <1>1, <1>2 DEF InBlocks
<1>4. Good(g, 0, {}) /\ Keeps(f, g, {})
    BY <1>1, <1>2, <1>3, DestroyKeeps
<1> HIDE DEF g
<1>5. Keeps(h, g, {c})
    <2>1. Keeps(f, g, {c})
        BY <1>4, KeepsMore
    <2> QED BY <1>2, <2>1, KeepsOn
<1>6. ~IsUsed(g, c)
    BY <1>2, <1>4 DEF Keeps, KeepsCell
<1> QED BY <1>4, <1>5, <1>6 DEF f, g, p

LEMMA FreeKeeps ==
    ASSUME MemoryInv, NEW p \in Memory!Pointers(heap), Memory!Free(p)
    PROVE  MemoryInv'
<1>1. Good(heap, 0, {}) /\ MovingOK(heap, moving) /\ moving' = moving /\ Memory!Settled(p)
      /\ heap' = Memory!DestroyIfUnused(Memory!SecFree(heap, p), p[1])
    BY DEF MemoryInv, Memory!Free
<1>2. PICK c \in Memory!Item : IsUsed(heap, c) /\ p = PointerOf(heap, c)
    BY <1>1, PointerHas
<1>3. Good(heap', 0, {}) /\ Keeps(heap, heap', {c})
    BY <1>1, <1>2, FreeFull
<1>4. \A q \in DOMAIN moving : NotTo(heap, q, {c})
    BY <1>1, <1>2, SettledApart DEF NotTo
<1>5. MovingOK(heap', moving)
    BY <1>1, <1>3, <1>4, MovingStays
<1> QED BY <1>1, <1>3, <1>5 DEF MemoryInv

LEMMA MoveFreeKeeps ==
    ASSUME MemoryInv, NEW p \in Memory!Pointers(heap), Memory!MoveFree(p)
    PROVE  MemoryInv'
<1>1. Good(heap, 0, {}) /\ MovingOK(heap, moving) /\ p \in DOMAIN moving
      /\ heap' = Memory!DestroyIfUnused(Memory!SecFree(heap, p), p[1])
      /\ moving' = [q \in DOMAIN moving \ {p} |-> moving[q]]
    BY DEF MemoryInv, Memory!MoveFree
<1>2. PICK c \in Memory!Item : IsUsed(heap, c) /\ p = PointerOf(heap, c)
    BY <1>1, PointerHas
<1>3. Good(heap', 0, {}) /\ Keeps(heap, heap', {c})
    BY <1>1, <1>2, FreeFull
<1>4. MovingOK(heap, moving')
    BY <1>1 DEF MovingOK
<1>5. \A q \in DOMAIN moving' : NotTo(heap, q, {c})
    BY <1>1, <1>2 DEF NotTo
<1>6. MovingOK(heap', moving')
    BY <1>3, <1>4, <1>5, MovingStays
<1> QED BY <1>3, <1>6 DEF MemoryInv

\* The lock is let go of after the first part of a reallocation.
LEMMA ReallocFull ==
    ASSUME NEW h, Good(h, 0, {}), NEW c \in Memory!Item, IsUsed(h, c), NEW length \in Length
    PROVE  LET p == PointerOf(h, c)
               r == Memory!SecRealloc(h, p, length)
               g == Memory!DestroyIfUnused(r.h, p[1])
           IN  /\ Good(g, 0, {})
               /\ \/ r.ptr = Memory!Null /\ Keeps(h, g, {}) /\ h.cell[c].requested < length
                  \/ r.ptr # Memory!Null /\ \E d \in Memory!Item :
                        /\ Keeps(h, g, {c, d}) /\ (d # c => ~IsUsed(h, d) /\ ~IsUsed(g, c))
                        /\ d = c => PointerOf(g, c) = PointerOf(h, c)
                        /\ IsUsed(g, d) /\ g.cell[d].requested = length /\ SameStart(h, g, c, d)
<1> DEFINE p == PointerOf(h, c)
           r == Memory!SecRealloc(h, p, length)
           g == Memory!DestroyIfUnused(r.h, p[1])
<1>1. p[1] \in Memory!Slot /\ InBlocks(h, p[1])
    <2>1. p[1] = h.cell[c].block
        BY DEF PointerOf
    <2> QED BY <2>1, CellPlace DEF Good, IsUsed
<1>2. Regets(h, r, c, length)
    BY SecReallocRegets
<1> HIDE DEF r
<1>3. Good(r.h, 0, {}) /\ r.h.blocks = h.blocks
    BY <1>2 DEF Regets, Resizes
<1> HIDE DEF p
<1>4. Good(g, 0, {}) /\ Keeps(r.h, g, {})
    <2>1. InBlocks(r.h, p[1])
        BY <1>1, <1>3 DEF InBlocks
    <2> QED BY <1>1, <1>3, <2>1, DestroyKeeps
<1> HIDE DEF g
<1>5. CASE r.ptr = Memory!Null
    <2>1. Keeps(h, r.h, {}) /\ h.cell[c].requested < length
        BY <1>2, <1>5, NullIsNoCell DEF Regets, Resizes, IsUsed
    <2>2. Keeps(h, g, {})
        BY <1>4, <2>1, KeepsOn
    <2> QED BY <1>4, <1>5, <2>1, <2>2 DEF g, r, p
<1>6. CASE r.ptr # Memory!Null
    <2>1. PICK d \in Memory!Item : Resizes(h, r.h, c, d, length)
        BY <1>2, <1>6 DEF Regets
    <2>2. KeepsCell(r.h, g, d) /\ KeepsCell(r.h, g, c)
        BY <1>4 DEF Keeps
    <2>3. /\ IsUsed(r.h, d) /\ r.h.cell[d].requested = length /\ SameStart(h, r.h, c, d)
          /\ d # c => ~IsUsed(h, d) /\ ~IsUsed(r.h, c)
          /\ d = c => PointerOf(r.h, c) = PointerOf(h, c)
        BY <2>1 DEF Resizes, PointerOf
    <2>4. /\ IsUsed(g, d) /\ g.cell[d].requested = length /\ PointerOf(g, d) = PointerOf(r.h, d)
          /\ Memory!First(g, d) = Memory!First(r.h, d) /\ SameBytes(r.h, g, d)
          /\ g.cell[d].block = r.h.cell[d].block
        BY <2>2, <2>3 DEF KeepsCell, PointerOf, Memory!First
    <2>5. d # c => ~IsUsed(g, c)
        BY <2>2, <2>3 DEF KeepsCell
    <2>6. SameStart(h, g, c, d)
        <3> SUFFICES ASSUME NEW i \in Int, 0 <= i, i < h.cell[c].requested, i < length
                     PROVE  g.mem[g.cell[d].block][Memory!First(g, d) + i]
                                = h.mem[h.cell[c].block][Memory!First(h, c) + i]
            BY <2>4 DEF SameStart
        <3> DEFINE b == Memory!First(r.h, d) + i
        <3>1. b \in Int /\ Memory!First(r.h, d) <= b /\ b < Memory!First(r.h, d) + r.h.cell[d].requested
            <4>1. Memory!First(r.h, d) \in Int /\ length \in Int
                BY <1>3, FirstIs, Sizes DEF Good
            <4> QED BY <2>3, <4>1
        <3>2. r.h.mem[r.h.cell[d].block][b] = h.mem[h.cell[c].block][Memory!First(h, c) + i]
            BY <2>3 DEF SameStart
        <3> HIDE DEF b
        <3>3. g.mem[r.h.cell[d].block][b] = r.h.mem[r.h.cell[d].block][b]
            BY <2>4, <3>1 DEF SameBytes
        <3> QED BY <2>4, <3>2, <3>3 DEF b
    <2>7. Keeps(h, g, {c, d})
        <3>1. Keeps(r.h, g, {c, d})
            BY <1>4, KeepsMore
        <3> QED BY <2>1, <3>1, KeepsOn DEF Resizes
    <2>8. d = c => PointerOf(g, c) = PointerOf(h, c)
        BY <2>3, <2>4
    <2> QED BY <1>4, <1>6, <2>3, <2>4, <2>5, <2>6, <2>7, <2>8 DEF g, r, p
<1> QED BY <1>5, <1>6

LEMMA ReallocKeeps ==
    ASSUME MemoryInv, NEW p \in Memory!Pointers(heap), NEW length \in Length,
           Memory!Realloc(p, length)
    PROVE  MemoryInv'
<1> DEFINE r == Memory!SecRealloc(heap, p, length)
<1>1. /\ Good(heap, 0, {}) /\ MovingOK(heap, moving) /\ Memory!Settled(p)
      /\ heap' = Memory!DestroyIfUnused(r.h, p[1])
      /\ moving' = IF r.ptr = Memory!Null
                   THEN [q \in DOMAIN moving \union {p} |->
                            IF q = p THEN [length |-> length, to |-> Memory!Null] ELSE moving[q]]
                   ELSE moving
    BY DEF MemoryInv, Memory!Realloc
<1>2. PICK c \in Memory!Item : IsUsed(heap, c) /\ p = PointerOf(heap, c)
    BY <1>1, PointerHas
<1>3. /\ Good(heap', 0, {})
      /\ \/ r.ptr = Memory!Null /\ Keeps(heap, heap', {}) /\ heap.cell[c].requested < length
         \/ r.ptr # Memory!Null /\ \E d \in Memory!Item :
               Keeps(heap, heap', {c, d}) /\ (d # c => ~IsUsed(heap, d))
    BY <1>1, <1>2, ReallocFull
<1> HIDE DEF r
<1>4. CASE r.ptr = Memory!Null
    <2>1. Keeps(heap, heap', {}) /\ heap.cell[c].requested < length
        BY <1>3, <1>4
    <2>2. \A q : NotTo(heap, q, {})
        BY DEF NotTo
    <2>3. MovingOK(heap', moving)
        BY <1>1, <2>1, <2>2, MovingStays
    <2> DEFINE move == [length |-> length, to |-> Memory!Null]
    <2>4. move \in Moves
        BY DEF Moves, Memory!Null
    <2>5. StillThere(heap, p, move)
        BY <1>2, <2>1 DEF StillThere
    <2>6. StillThere(heap', p, move)
        <3> HIDE DEF move
        <3> QED BY <2>1, <2>2, <2>5, StaysThere
    <2>7. DOMAIN moving' = DOMAIN moving \union {p}
          /\ \A q \in DOMAIN moving' : moving'[q] = IF q = p THEN move ELSE moving[q]
        BY <1>1, <1>4
    <2> HIDE DEF move
    <2>8. MovingOK(heap', moving')
        BY <2>3, <2>4, <2>6, <2>7 DEF MovingOK
    <2> QED BY <1>3, <2>8 DEF MemoryInv
<1>5. CASE r.ptr # Memory!Null
    <2>1. moving' = moving
        BY <1>1, <1>5
    <2>2. PICK d \in Memory!Item : Keeps(heap, heap', {c, d}) /\ (d # c => ~IsUsed(heap, d))
        BY <1>3, <1>5
    <2>3. \A q \in DOMAIN moving : NotTo(heap, q, {c, d})
        BY <1>1, <1>2, <2>2, SettledApart DEF NotTo
    <2>4. MovingOK(heap', moving)
        BY <1>1, <2>2, <2>3, MovingStays
    <2> QED BY <1>3, <2>1, <2>4 DEF MemoryInv
<1> QED BY <1>4, <1>5

\* The other memory that is allocated when a reallocation moves.
MoveTaken(h, r, g, c, length) ==
    \/ r.ptr = Memory!Null /\ g = r.h /\ Good(g, 0, {}) /\ Keeps(h, g, {})
    \/ /\ r.ptr # Memory!Null /\ r.ptr \in Nat \X Int
       /\ \E d \in Memory!Item : Copies(h, g, c, d, length)

LEMMA MoveAllocFull ==
    ASSUME NEW h, Good(h, 0, {}), NEW c \in Memory!Item, IsUsed(h, c), NEW length \in Length,
           h.cell[c].requested <= length
    PROVE  LET p == PointerOf(h, c)
               r == Memory!AllocFull(h, length)
               g == Memory!Copied(r.h, p, r.ptr, Memory!Requested(h, p))
           IN  MoveTaken(h, r, IF r.ptr # Memory!Null THEN g ELSE r.h, c, length)
<1> DEFINE p == PointerOf(h, c)
           r == Memory!AllocFull(h, length)
           a == r.h
           g == Memory!Copied(a, p, r.ptr, Memory!Requested(h, p))
<1>1. Provides(h, r, length)
    BY AllocFullProvides
<1>2. Memory!Requested(h, p) = h.cell[c].requested
    BY CellOfPointer DEF Memory!Requested, Good, IsUsed
<1> HIDE DEF r, g
<1>3. CASE r.ptr = Memory!Null
    <2>1. Good(a, 0, {}) /\ Keeps(h, a, {})
        BY <1>1, <1>3, NullIsNoCell DEF Provides, Obtains
    <2> QED BY <1>3, <2>1 DEF MoveTaken, r
<1>4. CASE r.ptr # Memory!Null
    <2>1. PICK d \in Memory!Item : Obtains(h, a, d, length) /\ r.ptr = PointerOf(a, d)
        BY <1>1, <1>4 DEF Provides
    <2>2. Copies(h, g, c, d, length)
        <3>1. g = Memory!Copied(a, PointerOf(h, c), PointerOf(a, d), h.cell[c].requested)
            BY <1>2, <2>1 DEF g
        <3> HIDE DEF a
        <3> QED BY <2>1, <3>1, CopyIsCopy
    <2>3. r.ptr \in Nat \X Int
        <3>1. a.cell[d] \in CellRec
            BY <2>1 DEF Obtains, Good, HeapRec
        <3>2. a.cell[d].block \in Nat /\ a.cell[d].words + 1 \in Int
            BY <3>1 DEF CellRec
        <3> QED BY <2>1, <3>2 DEF PointerOf
    <2>4. MoveTaken(h, r, g, c, length)
        BY <1>4, <2>2, <2>3 DEF MoveTaken
    <2> QED BY <1>4, <2>4 DEF r, g
<1> QED BY <1>3, <1>4

LEMMA MoveAllocKeeps ==
    ASSUME MemoryInv, NEW p \in Memory!Pointers(heap), Memory!MoveAlloc(p)
    PROVE  MemoryInv'
<1> DEFINE r == Memory!AllocFull(heap, moving[p].length)
           g == Memory!Copied(r.h, p, r.ptr, Memory!Requested(heap, p))
<1>1. /\ Good(heap, 0, {}) /\ MovingOK(heap, moving) /\ p \in DOMAIN moving
      /\ moving[p].to = Memory!Null
      /\ \/ r.ptr # Memory!Null /\ heap' = g /\ moving' = [moving EXCEPT ![p].to = r.ptr]
         \/ /\ r.ptr = Memory!Null /\ heap' = r.h
            /\ \/ moving' = [q \in DOMAIN moving \ {p} |-> moving[q]]
               \/ moving' = [moving EXCEPT ![p].to = p]
    BY DEF MemoryInv, Memory!MoveAlloc
<1>2. PICK c \in Memory!Item : /\ IsUsed(heap, c) /\ p = PointerOf(heap, c) /\ p \in Nat \X Int
                               /\ \A d \in Memory!Item : IsUsed(heap, d) /\ PointerOf(heap, d) = p => d = c
    BY <1>1, PointerHas
<1>3. moving[p] \in Moves /\ heap.cell[c].requested < moving[p].length
    BY <1>1, <1>2 DEF MovingOK, StillThere
<1>4. moving[p].length \in Length /\ heap.cell[c].requested <= moving[p].length
    <2>1. moving[p].length \in Length
        BY <1>3 DEF Moves
    <2>2. heap.cell[c].requested \in Int /\ moving[p].length \in Int
        BY <1>1, <2>1, CellType, Sizes DEF Good
    <2> QED BY <1>3, <2>1, <2>2
<1> HIDE DEF g
<1>5. MoveTaken(heap, r, heap', c, moving[p].length)
    <2>1. heap' = IF r.ptr # Memory!Null THEN g ELSE r.h
        BY <1>1
    <2> QED BY <1>1, <1>2, <1>4, <2>1, MoveAllocFull DEF g
<1> HIDE DEF r
<1>6. Good(heap', 0, {}) /\ \E S : Keeps(heap, heap', S) /\ \A d \in S : ~IsUsed(heap, d)
    <2>1. CASE r.ptr = Memory!Null
        <3>1. Good(heap', 0, {}) /\ Keeps(heap, heap', {})
            BY <1>5, <2>1 DEF MoveTaken
        <3> QED BY <3>1
    <2>2. CASE r.ptr # Memory!Null
        <3>1. PICK d \in Memory!Item : Copies(heap, heap', c, d, moving[p].length)
            BY <1>5, <2>2 DEF MoveTaken
        <3>2. Good(heap', 0, {}) /\ Keeps(heap, heap', {d}) /\ \A e \in {d} : ~IsUsed(heap, e)
            BY <3>1 DEF Copies
        <3> QED BY <3>2
    <2> QED BY <2>1, <2>2
<1>7. PICK S : Keeps(heap, heap', S) /\ \A d \in S : ~IsUsed(heap, d)
    BY <1>6
<1>8. \A q : NotTo(heap, q, S)
    BY <1>7 DEF NotTo
<1>9. MovingOK(heap', moving)
    BY <1>1, <1>7, <1>8, MovingStays
<1>10. ASSUME NEW to \in Nat \X Int, to # Memory!Null, moving' = [moving EXCEPT ![p].to = to]
       PROVE  MovingOK(heap', moving')
    <2>1. [moving[p] EXCEPT !.to = to] \in Moves /\ [moving[p] EXCEPT !.to = to].to = to
        BY <1>3 DEF Moves
    <2>2. DOMAIN moving' = DOMAIN moving /\ moving'[p] = [moving[p] EXCEPT !.to = to]
          /\ \A q \in DOMAIN moving \ {p} : moving'[q] = moving[q]
        BY <1>1, <1>10
    <2>3. StillThere(heap', p, moving'[p])
        <3>1. StillThere(heap', p, moving[p])
            BY <1>1, <1>9 DEF MovingOK
        <3> QED BY <1>10, <2>1, <2>2, <3>1 DEF StillThere
    <2> QED BY <1>9, <2>1, <2>2, <2>3 DEF MovingOK
<1>11. MovingOK(heap', moving')
    <2>1. CASE r.ptr # Memory!Null
        <3>1. r.ptr \in Nat \X Int
            BY <1>5, <2>1 DEF MoveTaken
        <3> QED BY <1>1, <1>10, <2>1, <3>1
    <2>2. CASE moving' = [q \in DOMAIN moving \ {p} |-> moving[q]]
        BY <1>9, <2>2 DEF MovingOK
    <2>3. CASE moving' = [moving EXCEPT ![p].to = p]
        <3>1. p # Memory!Null
            BY <1>2, NullIsNoCell DEF IsUsed
        <3> QED BY <1>2, <1>10, <2>3, <3>1
    <2> QED BY <1>1, <2>1, <2>2, <2>3
<1> QED BY <1>6, <1>11 DEF MemoryInv

\* The program writes to what it has in cell c.
LEMMA WriteFull ==
    ASSUME NEW h, Good(h, 0, {}), NEW c \in Memory!Item, IsUsed(h, c)
    PROVE  LET k == h.cell[c].block
               from == Memory!First(h, c)
               to == from + h.cell[c].requested
               g == Memory!Fill(h, k, from, to, Memory!Data)
           IN  /\ Good(g, 0, {}) /\ Keeps(h, g, {c}) /\ Filled(h, g, k, from, to, Memory!Data)
               /\ g.cell = h.cell
<1> DEFINE k == h.cell[c].block
           from == Memory!First(h, c)
           to == from + h.cell[c].requested
           v == Memory!Data
           g == Memory!Fill(h, k, from, to, v)
<1>1. h \in HeapRec /\ Layout(h) /\ BlocksOK(h) /\ IsLive(h, c) /\ CellOK(h, c)
    BY CellPlace DEF Good, IsUsed
<1>2. /\ from \in Int /\ to \in Int /\ v \in Int /\ Memory!First(h, c) <= from
      /\ to <= Memory!First(h, c) + (h.cell[c].n_words - 2) * WordSize
    <2>1. /\ from \in Int /\ h.cell[c].requested \in Int /\ h.cell[c].n_words - 2 \in Int
        BY <1>1, CellType, FirstIs
    <2>2. (h.cell[c].n_words - 2) * WordSize \in Int
        BY <2>1, WordsOrdered
    <2>3. h.cell[c].requested <= (h.cell[c].n_words - 2) * WordSize
        BY <1>1 DEF CellOK
    <2> HIDE DEF from
    <2> QED BY <2>1, <2>2, <2>3 DEF from, Memory!Data
<1> HIDE DEF from, to, v
<1>3. Good(g, 0, {}) /\ Keeps(h, g, {c}) /\ Filled(h, g, k, from, to, v)
    BY <1>1, <1>2, FillInside
<1> HIDE DEF g
<1>4. g.cell = h.cell
    BY <1>3 DEF Filled, SameShape
<1> QED BY <1>3, <1>4 DEF from, to, v, g

LEMMA WriteKeeps ==
    ASSUME MemoryInv, NEW p \in Memory!Pointers(heap), Memory!WriteMemory(p)
    PROVE  MemoryInv'
<1>1. /\ Good(heap, 0, {}) /\ MovingOK(heap, moving) /\ Memory!Settled(p) /\ moving' = moving
      /\ heap' = Memory!Fill(heap, p[1], p[2] * WordSize,
                             p[2] * WordSize + Memory!Requested(heap, p), Memory!Data)
    BY DEF MemoryInv, Memory!WriteMemory
<1>2. PICK c \in Memory!Item :
          /\ IsUsed(heap, c) /\ p = PointerOf(heap, c) /\ p[1] = heap.cell[c].block
          /\ Memory!CellOf(heap, p) = c /\ p[2] * WordSize = Memory!First(heap, c)
    BY <1>1, PointerHas
<1>3. Memory!Requested(heap, p) = heap.cell[c].requested
    BY <1>2 DEF Memory!Requested
<1>4. Good(heap', 0, {}) /\ Keeps(heap, heap', {c})
    BY <1>1, <1>2, <1>3, WriteFull
<1>5. \A q \in DOMAIN moving : NotTo(heap, q, {c})
    BY <1>1, <1>2, SettledApart DEF NotTo
<1>6. MovingOK(heap', moving)
    BY <1>1, <1>4, <1>5, MovingStays
<1> QED BY <1>1, <1>4, <1>6 DEF MemoryInv

LEMMA MemoryStays ==
    ASSUME MemoryInv, Memory!Next
    PROVE  MemoryInv'
<1>1. CASE \E length \in Length : Memory!Alloc(length)
    BY <1>1, AllocKeeps
<1>2. ASSUME NEW p \in Memory!Pointers(heap),
             \/ Memory!Free(p)
             \/ \E length \in Length : Memory!Realloc(p, length)
             \/ Memory!MoveAlloc(p)
             \/ Memory!MoveFree(p)
             \/ Memory!WriteMemory(p)
      PROVE  MemoryInv'
    BY <1>2, FreeKeeps, ReallocKeeps, MoveAllocKeeps, MoveFreeKeeps, WriteKeeps
<1> QED BY <1>1, <1>2 DEF Memory!Next

-----------------------------------------------------------------------------
(* The cells tile their blocks.                                            *)

CellsOfIs(k) == UsedSet(heap, k, 0) \union UnusedSet(heap, k, 0)

LEMMA TheCells ==
    ASSUME Good(heap, 0, {}), NEW k \in Memory!Slot
    PROVE  /\ Memory!CellsOf(k) = CellsOfIs(k)
           /\ \A c : c \in Memory!CellsOf(k) <=> c \in Memory!Item /\ heap.cell[c].block = k
           /\ \A c \in Memory!Item : heap.cell[c].block = k =>
                 (c \in Memory!Members(heap.used[k]) <=> heap.cell[c].requested # 0)
           /\ Cardinality(Memory!CellsOf(k)) = Len(heap.used[k]) + Len(heap.unused[k])
<1>1. Ring(heap.used[k], UsedSet(heap, k, 0)) /\ Ring(heap.unused[k], UnusedSet(heap, k, 0))
    BY RingsAre DEF Good
<1>2. /\ Memory!Members(heap.used[k]) = UsedSet(heap, k, 0)
      /\ Memory!Members(heap.unused[k]) = UnusedSet(heap, k, 0)
    BY <1>1, RingMembers
<1>3. Memory!CellsOf(k) = CellsOfIs(k)
    BY <1>2 DEF Memory!CellsOf, CellsOfIs
<1>4. \A c \in Memory!Item : c # 0
    BY DEF Memory!Item
<1>5. \A c : c \in CellsOfIs(k) <=> c \in Memory!Item /\ heap.cell[c].block = k
    BY <1>4 DEF CellsOfIs, UsedSet, UnusedSet
<1>6. \A c \in Memory!Item : heap.cell[c].block = k =>
          (c \in Memory!Members(heap.used[k]) <=> heap.cell[c].requested # 0)
    BY <1>2, <1>4 DEF UsedSet
<1>7. Cardinality(CellsOfIs(k)) = Len(heap.used[k]) + Len(heap.unused[k])
    <2> DEFINE U == UsedSet(heap, k, 0)
               V == UnusedSet(heap, k, 0)
    <2>1. U \intersect V = {}
        BY DEF UsedSet, UnusedSet
    <2> HIDE DEF U, V
    <2>2. /\ IsFiniteSet(U) /\ Cardinality(U) = Len(heap.used[k])
          /\ IsFiniteSet(V) /\ Cardinality(V) = Len(heap.unused[k])
        BY <1>1, RingLength DEF U, V
    <2>3. Cardinality(U) \in Nat /\ Cardinality(V) \in Nat
        BY <2>2, FS_CardinalityType
    <2>4. Cardinality(U \intersect V) = 0
        BY <2>1, FS_EmptySet
    <2>5. Cardinality(U \union V) = Cardinality(U) + Cardinality(V) - Cardinality(U \intersect V)
        BY <2>2, FS_Union
    <2>6. Cardinality(U \union V) = Cardinality(U) + Cardinality(V)
        BY <2>3, <2>4, <2>5
    <2> QED BY <2>2, <2>6 DEF CellsOfIs, U, V
<1> QED BY <1>3, <1>5, <1>6, <1>7

LEMMA SameCardinality == \A S : Memory!Cardinality(S) = Cardinality(S)
BY DEF Memory!Cardinality, Cardinality

LEMMA GoodTiles ==
    ASSUME Good(heap, 0, {})
    PROVE  Memory!CellsTile
<1>1. /\ heap \in HeapRec /\ Layout(heap) /\ BlocksOK(heap) /\ CellsOK(heap) /\ Apart(heap)
      /\ Covered(heap) /\ TakenBut(heap, {})
    BY DEF Good, Layout
<1>2. ASSUME NEW k \in Memory!Members(heap.blocks) PROVE k \in Memory!Slot /\ InBlocks(heap, k)
    <2>1. heap.blocks \in Seq(Memory!Slot)
        BY <1>1 DEF HeapRec
    <2> QED BY <2>1 DEF Memory!Members, InBlocks
<1>3. ASSUME NEW k \in Memory!Slot, NEW c \in Memory!CellsOf(k)
      PROVE  /\ c \in Memory!Item /\ heap.cell[c].block = k /\ IsLive(heap, c) /\ CellOK(heap, c)
             /\ heap.cell[c].words \in Int /\ heap.cell[c].n_words \in Int
             /\ \A w : w \in Memory!Words(c) <=> w \in Int /\ HasWord(heap, c, k, w)
    <2>1. c \in Memory!Item /\ heap.cell[c].block = k
        BY <1>3, TheCells
    <2>2. IsLive(heap, c)
        BY <2>1 DEF IsLive, Memory!Slot
    <2>3. CellOK(heap, c)
        BY <1>1, <2>1, <2>2 DEF CellsOK
    <2>4. heap.cell[c].words \in Int /\ heap.cell[c].n_words \in Int
        BY <1>1, <2>1, CellType
    <2>5. \A w : w \in Memory!Words(c) <=> w \in Int /\ HasWord(heap, c, k, w)
        BY <2>1, <2>4 DEF Memory!Words, HasWord, End
    <2> QED BY <2>1, <2>2, <2>3, <2>4, <2>5
<1>4. ASSUME NEW k \in Memory!Members(heap.blocks)
      PROVE  UNION {Memory!Words(c) : c \in Memory!CellsOf(k)} = 0 .. heap.n_words[k] - 1
    <2>1. k \in Memory!Slot /\ InBlocks(heap, k) /\ heap.n_words[k] \in Int
        BY <1>1, <1>2 DEF HeapRec
    <2>2. ASSUME NEW c \in Memory!CellsOf(k), NEW w \in Memory!Words(c)
          PROVE  w \in 0 .. heap.n_words[k] - 1
        <3>1. w \in Int /\ HasWord(heap, c, k, w) /\ CellOK(heap, c) /\ heap.cell[c].block = k
              /\ heap.cell[c].words \in Int /\ heap.cell[c].n_words \in Int
            BY <1>3, <2>1
        <3> QED BY <2>1, <3>1 DEF HasWord, CellOK, End
    <2>3. ASSUME NEW w \in 0 .. heap.n_words[k] - 1
          PROVE  \E c \in Memory!CellsOf(k) : w \in Memory!Words(c)
        <3>1. w \in Int /\ 0 <= w /\ w < heap.n_words[k]
            BY <2>1
        <3>2. PICK c \in Memory!Item : HasWord(heap, c, k, w)
            BY <1>1, <2>1, <3>1 DEF Covered
        <3>3. c \in Memory!CellsOf(k)
            BY <2>1, <3>2, TheCells DEF HasWord
        <3> QED BY <1>3, <2>1, <3>1, <3>2, <3>3
    <2> QED BY <2>2, <2>3
<1>5. ASSUME NEW k \in Memory!Members(heap.blocks), NEW c \in Memory!CellsOf(k),
             NEW d \in Memory!CellsOf(k), c # d
      PROVE  Memory!Words(c) \intersect Memory!Words(d) = {}
    <2>1. k \in Memory!Slot
        BY <1>2
    <2>2. SUFFICES ASSUME NEW w \in Memory!Words(c), w \in Memory!Words(d) PROVE FALSE
        OBVIOUS
    <2>3. w \in Int /\ HasWord(heap, c, k, w) /\ HasWord(heap, d, k, w)
          /\ c \in Memory!Item /\ d \in Memory!Item /\ IsLive(heap, c)
          /\ heap.cell[c].words \in Int /\ heap.cell[c].n_words \in Int
          /\ heap.cell[d].words \in Int /\ heap.cell[d].n_words \in Int
        BY <1>3, <2>1, <2>2
    <2>4. End(heap, c) <= heap.cell[d].words \/ End(heap, d) <= heap.cell[c].words
        BY <1>1, <1>5, <2>3 DEF Apart, HasWord
    <2> QED BY <2>3, <2>4 DEF HasWord, End
<1>6. ASSUME NEW k \in Memory!Members(heap.blocks), NEW c \in Memory!CellsOf(k)
      PROVE  /\ heap.cell[c].block = k /\ heap.cell[c].n_words > 2 /\ Memory!Guarded(heap, c)
             /\ heap.cell[c].requested <= (heap.cell[c].n_words - 2) * WordSize
             /\ heap.cell[c].requested > 0 <=> c \in Memory!Members(heap.used[k])
    <2>1. k \in Memory!Slot
        BY <1>2
    <2>2. c \in Memory!Item /\ heap.cell[c].block = k /\ IsLive(heap, c) /\ CellOK(heap, c)
        BY <1>3, <2>1
    <2>3. Memory!Guarded(heap, c)
        <3> DEFINE k2 == heap.cell[c].block
                   first == heap.cell[c].words
                   last == heap.cell[c].words + heap.cell[c].n_words - 1
        <3>1. first \in Int /\ last \in Int /\ End(heap, c) - 1 = last
            BY <1>3, <2>1 DEF End
        <3>2. HasGuards(heap, c)
            BY <1>1, <2>2 DEF Layout, GuardsStand
        <3>3. \A b \in Int : InWord(b, first) \/ InWord(b, End(heap, c) - 1) => heap.mem[k2][b] = c
            BY <3>2, Zenon DEF HasGuards, IsGuard
        <3>4. Memory!Guarded(heap, c) <=>
                  /\ Memory!WordAt(heap, k2, first) = {c}
                  /\ Memory!WordAt(heap, k2, last) = {c}
            BY DEF Memory!Guarded
        <3> HIDE DEF k2, first, last
        <3>5. Memory!WordAt(heap, k2, first) = {c}
            <4>1. \A b \in Int : InWord(b, first) => heap.mem[k2][b] = c
                BY <3>3
            <4> QED BY <3>1, <4>1, WordBytes
        <3>6. Memory!WordAt(heap, k2, last) = {c}
            <4>1. last \in Int /\ \A b \in Int : InWord(b, last) => heap.mem[k2][b] = c
                BY <3>1, <3>3
            <4> QED BY <4>1, WordBytes
        <3> QED BY <3>4, <3>5, <3>6
    <2>4. heap.cell[c].requested \in Length \union {0}
        BY <2>2 DEF CellOK
    <2>5. heap.cell[c].requested > 0 <=> heap.cell[c].requested # 0
        <3> DEFINE r == heap.cell[c].requested
        <3>1. r \in Length \union {0}
            BY <2>4
        <3> HIDE DEF r
        <3>2. r \in Nat
            BY <3>1, Sizes
        <3>3. r > 0 <=> r # 0
            BY <3>2
        <3> QED BY <3>3 DEF r
    <2>6. c \in Memory!Members(heap.used[k]) <=> heap.cell[c].requested # 0
        BY <2>1, <2>2, TheCells
    <2>7. heap.cell[c].n_words > 2 /\ heap.cell[c].requested <= (heap.cell[c].n_words - 2) * WordSize
        BY <2>2 DEF CellOK
    <2> QED BY <2>2, <2>3, <2>5, <2>6, <2>7
<1>7. heap.taken = UNION {Memory!CellsOf(k) \union {heap.header[k]} : k \in Memory!Members(heap.blocks)}
    <2>1. ASSUME NEW x \in heap.taken
          PROVE  \E k \in Memory!Members(heap.blocks) : x \in Memory!CellsOf(k) \union {heap.header[k]}
        <3>1. x \in Memory!Item
            BY <1>1 DEF HeapRec
        <3>2. CASE IsLive(heap, x)
            <4>1. heap.cell[x].block \in Memory!Slot /\ InBlocks(heap, heap.cell[x].block)
                BY <1>1, <3>1, <3>2 DEF CellsOK, CellOK
            <4>2. x \in Memory!CellsOf(heap.cell[x].block)
                BY <3>1, <4>1, TheCells
            <4> QED BY <4>1, <4>2 DEF InBlocks
        <3>3. CASE ~IsLive(heap, x)
            <4>1. PICK k \in Memory!Slot : InBlocks(heap, k) /\ heap.header[k] = x
                BY <1>1, <3>3 DEF TakenBut
            <4> QED BY <4>1 DEF InBlocks
        <3> QED BY <3>2, <3>3
    <2>2. ASSUME NEW k \in Memory!Members(heap.blocks),
                 NEW x \in Memory!CellsOf(k) \union {heap.header[k]}
          PROVE  x \in heap.taken
        <3>1. k \in Memory!Slot /\ InBlocks(heap, k)
            BY <1>2
        <3>2. heap.header[k] \in heap.taken
            BY <1>1, <3>1 DEF BlocksOK
        <3>3. x \in Memory!CellsOf(k) => x \in heap.taken
            BY <1>3, <3>1 DEF CellOK
        <3> QED BY <3>2, <3>3
    <2> QED BY <2>1, <2>2
<1>8. \A k \in Memory!Members(heap.blocks) :
          Cardinality(Memory!CellsOf(k)) = Len(heap.used[k]) + Len(heap.unused[k])
    BY <1>2, TheCells
<1>9. ASSUME NEW k \in Memory!Members(heap.blocks)
      PROVE  \A c, d \in Memory!CellsOf(k) : c # d => Memory!Words(c) \intersect Memory!Words(d) = {}
    BY <1>5, Zenon
<1>10. ASSUME NEW k \in Memory!Members(heap.blocks)
       PROVE  \A c \in Memory!CellsOf(k) :
                /\ heap.cell[c].block = k /\ heap.cell[c].n_words > 2 /\ Memory!Guarded(heap, c)
                /\ heap.cell[c].requested <= (heap.cell[c].n_words - 2) * WordSize
                /\ heap.cell[c].requested > 0 <=> c \in Memory!Members(heap.used[k])
    BY <1>6, Zenon
<1>11. \A k \in Memory!Members(heap.blocks) :
          /\ UNION {Memory!Words(c) : c \in Memory!CellsOf(k)} = 0 .. heap.n_words[k] - 1
          /\ \A c, d \in Memory!CellsOf(k) : c # d => Memory!Words(c) \intersect Memory!Words(d) = {}
          /\ Cardinality(Memory!CellsOf(k)) = Len(heap.used[k]) + Len(heap.unused[k])
          /\ \A c \in Memory!CellsOf(k) :
                /\ heap.cell[c].block = k /\ heap.cell[c].n_words > 2 /\ Memory!Guarded(heap, c)
                /\ heap.cell[c].requested <= (heap.cell[c].n_words - 2) * WordSize
                /\ heap.cell[c].requested > 0 <=> c \in Memory!Members(heap.used[k])
    <2> TAKE k \in Memory!Members(heap.blocks)
    <2>1. UNION {Memory!Words(c) : c \in Memory!CellsOf(k)} = 0 .. heap.n_words[k] - 1
        BY <1>4
    <2>2. \A c, d \in Memory!CellsOf(k) : c # d => Memory!Words(c) \intersect Memory!Words(d) = {}
        BY <1>9
    <2>3. Cardinality(Memory!CellsOf(k)) = Len(heap.used[k]) + Len(heap.unused[k])
        BY <1>8
    <2>4. \A c \in Memory!CellsOf(k) :
                /\ heap.cell[c].block = k /\ heap.cell[c].n_words > 2 /\ Memory!Guarded(heap, c)
                /\ heap.cell[c].requested <= (heap.cell[c].n_words - 2) * WordSize
                /\ heap.cell[c].requested > 0 <=> c \in Memory!Members(heap.used[k])
        BY <1>10
    <2> QED BY <2>1, <2>2, <2>3, <2>4
<1> QED BY <1>7, <1>11, SameCardinality DEF Memory!CellsTile

-----------------------------------------------------------------------------
(* What the program sees.                                                  *)

\* What is in cell c, and what all pointers point to.
Seen(h, c) == [i \in 1 .. h.cell[c].requested |-> h.mem[h.cell[c].block][Memory!First(h, c) + i - 1]]
View(h) == [p \in Memory!Pointers(h) |-> Memory!Contents(h, p)]

LEMMA Shown ==
    ASSUME NEW h, Good(h, 0, {}), NEW c \in Memory!Item, IsUsed(h, c)
    PROVE  PointerOf(h, c) \in DOMAIN View(h) /\ View(h)[PointerOf(h, c)] = Seen(h, c)
<1> DEFINE p == PointerOf(h, c)
<1>1. p \in Memory!Pointers(h)
    BY PointersAre
<1>2. Memory!CellOf(h, p) = c
    BY CellOfPointer DEF Good, IsUsed
<1>3. p[1] = h.cell[c].block /\ p[2] * WordSize = Memory!First(h, c)
    BY DEF PointerOf, Memory!First
<1> HIDE DEF p
<1>4. Memory!Contents(h, p) = Seen(h, c)
    BY <1>2, <1>3 DEF Memory!Contents, Memory!Requested, Seen
<1>5. p \in DOMAIN View(h) /\ View(h)[p] = Memory!Contents(h, p)
    BY <1>1 DEF View
<1> QED BY <1>4, <1>5 DEF p

LEMMA ShownOnly ==
    ASSUME NEW h, Good(h, 0, {}), NEW p \in DOMAIN View(h)
    PROVE  \E c \in Memory!Item : IsUsed(h, c) /\ p = PointerOf(h, c)
<1>1. DOMAIN View(h) = Memory!Pointers(h)
    BY DEF View
<1> QED BY <1>1, PointersAre

\* What is seen has the length that was asked for.
LEMMA SeenIs ==
    ASSUME NEW h, Good(h, 0, {}), NEW c \in Memory!Item, IsUsed(h, c)
    PROVE  /\ h.cell[c].requested \in Length /\ h.cell[c].requested \in Nat
           /\ Len(Seen(h, c)) = h.cell[c].requested
           /\ DOMAIN Seen(h, c) = 1 .. h.cell[c].requested
           /\ \A i \in 1 .. h.cell[c].requested :
                  Seen(h, c)[i] = h.mem[h.cell[c].block][Memory!First(h, c) + i - 1]
<1>1. CellOK(h, c)
    BY CellPlace DEF Good, IsUsed
<1>2. h.cell[c].requested \in Length
    BY <1>1 DEF CellOK, IsUsed
<1>3. h.cell[c].requested \in Nat
    BY <1>2, Sizes
<1> DEFINE n == h.cell[c].requested
           at(i) == h.mem[h.cell[c].block][Memory!First(h, c) + i - 1]
<1>4. Seen(h, c) = [i \in 1 .. n |-> at(i)]
    BY DEF Seen
<1> HIDE DEF n, at
<1>5. DOMAIN Seen(h, c) = 1 .. n /\ Len(Seen(h, c)) = n /\ \A i \in 1 .. n : Seen(h, c)[i] = at(i)
    BY <1>3, <1>4 DEF n
<1> QED BY <1>2, <1>3, <1>5 DEF n, at

LEMMA SeenAgain ==
    ASSUME NEW h, Good(h, 0, {}), NEW g, NEW c \in Memory!Item, IsUsed(h, c), KeepsCell(h, g, c)
    PROVE  IsUsed(g, c) /\ PointerOf(g, c) = PointerOf(h, c) /\ Seen(g, c) = Seen(h, c)
<1>1. /\ IsUsed(g, c) /\ g.cell[c].block = h.cell[c].block /\ g.cell[c].words = h.cell[c].words
      /\ g.cell[c].requested = h.cell[c].requested /\ SameBytes(h, g, c)
    BY DEF KeepsCell
<1>2. PointerOf(g, c) = PointerOf(h, c) /\ Memory!First(g, c) = Memory!First(h, c)
    BY <1>1 DEF PointerOf, Memory!First
<1>3. ASSUME NEW i \in 1 .. h.cell[c].requested
      PROVE  g.mem[h.cell[c].block][Memory!First(h, c) + i - 1]
                 = h.mem[h.cell[c].block][Memory!First(h, c) + i - 1]
    <2>1. Memory!First(h, c) \in Int /\ h.cell[c].requested \in Nat
        BY FirstIs, SeenIs DEF Good
    <2> DEFINE b == Memory!First(h, c) + i - 1
    <2>2. b \in Int /\ Memory!First(h, c) <= b /\ b < Memory!First(h, c) + h.cell[c].requested
        BY <2>1
    <2> HIDE DEF b
    <2>3. g.mem[h.cell[c].block][b] = h.mem[h.cell[c].block][b]
        BY <1>1, <2>2 DEF SameBytes
    <2> QED BY <2>3 DEF b
<1>4. Seen(g, c) = Seen(h, c)
    BY <1>1, <1>2, <1>3 DEF Seen
<1> QED BY <1>1, <1>2, <1>4

\* What the program has in cells S is at pointers P.
At(h, S, P) == \A c \in S : IsUsed(h, c) => PointerOf(h, c) \in P

LEMMA OthersStay ==
    ASSUME NEW h, Good(h, 0, {}), NEW g, Good(g, 0, {}), NEW S, Keeps(h, g, S),
           NEW P, At(h, S, P), At(g, S, P)
    PROVE  Memory!Promise!Others(View(h), View(g), P)
<1>1. ASSUME NEW p \in DOMAIN View(h), p \notin P
      PROVE  p \in DOMAIN View(g) /\ View(g)[p] = View(h)[p]
    <2>1. PICK c \in Memory!Item : IsUsed(h, c) /\ p = PointerOf(h, c)
        BY <1>1, ShownOnly
    <2>2. KeepsCell(h, g, c)
        BY <1>1, <2>1 DEF At, Keeps
    <2>3. IsUsed(g, c) /\ PointerOf(g, c) = p /\ Seen(g, c) = Seen(h, c)
        BY <2>1, <2>2, SeenAgain
    <2> QED BY <2>1, <2>3, Shown
<1>2. ASSUME NEW p \in DOMAIN View(g), p \notin P
      PROVE  p \in DOMAIN View(h)
    <2>1. PICK c \in Memory!Item : IsUsed(g, c) /\ p = PointerOf(g, c)
        BY <1>2, ShownOnly
    <2>2. KeepsCell(h, g, c)
        BY <1>2, <2>1 DEF At, Keeps
    <2>3. IsUsed(h, c)
        BY <2>1, <2>2 DEF KeepsCell
    <2>4. PointerOf(g, c) = PointerOf(h, c)
        BY <2>2, <2>3, SeenAgain
    <2> QED BY <2>1, <2>3, <2>4, Shown
<1> QED BY <1>1, <1>2 DEF Memory!Promise!Others

LEMMA AllStays ==
    ASSUME NEW h, Good(h, 0, {}), NEW g, Good(g, 0, {}), Keeps(h, g, {})
    PROVE  View(g) = View(h)
<1>1. Memory!Promise!Others(View(h), View(g), {})
    BY OthersStay DEF At
<1>2. DOMAIN View(g) = DOMAIN View(h) /\ \A p \in DOMAIN View(h) : View(g)[p] = View(h)[p]
    BY <1>1 DEF Memory!Promise!Others
<1>3. /\ View(g) = [p \in DOMAIN View(g) |-> View(g)[p]]
      /\ View(h) = [p \in DOMAIN View(h) |-> View(h)[p]]
    BY DEF View
<1> QED BY <1>2, <1>3

\* A pointer that is there after and was there before is still to its cell, or was
\* to one of those that changed.
LEMMA SameOwner ==
    ASSUME NEW h, Good(h, 0, {}), NEW g, Good(g, 0, {}), NEW S, Keeps(h, g, S),
           NEW c \in Memory!Item, IsUsed(h, c), NEW d \in Memory!Item, IsUsed(g, d),
           PointerOf(h, c) = PointerOf(g, d)
    PROVE  c = d \/ (c \in S /\ d \in S)
<1>1. CASE c \notin S
    <2>1. IsUsed(g, c) /\ PointerOf(g, c) = PointerOf(g, d)
        BY <1>1, SeenAgain DEF Keeps
    <2> QED BY <2>1, PointersDiffer DEF Good, IsUsed
<1>2. CASE d \notin S
    <2>1. KeepsCell(h, g, d)
        BY <1>2 DEF Keeps
    <2>2. IsUsed(h, d)
        BY <2>1 DEF KeepsCell
    <2>3. PointerOf(g, d) = PointerOf(h, d)
        BY <2>1, <2>2, SeenAgain
    <2>4. PointerOf(h, c) = PointerOf(h, d)
        BY <2>3
    <2> QED BY <2>2, <2>4, PointersDiffer DEF Good, IsUsed
<1> QED BY <1>1, <1>2

\* The program gets another pointer, to cell c.
LEMMA NewPointer ==
    ASSUME NEW h, Good(h, 0, {}), NEW g, Good(g, 0, {}), NEW c \in Memory!Item, Keeps(h, g, {c}),
           ~IsUsed(h, c), IsUsed(g, c)
    PROVE  LET q == PointerOf(g, c)
           IN  /\ q \in DOMAIN View(g) \ DOMAIN View(h)
               /\ Memory!Promise!Others(View(h), View(g), {q})
<1> DEFINE q == PointerOf(g, c)
<1>1. q \in DOMAIN View(g)
    BY Shown
<1>2. q \notin DOMAIN View(h)
    <2> SUFFICES ASSUME q \in DOMAIN View(h) PROVE FALSE
        OBVIOUS
    <2>1. PICK d \in Memory!Item : IsUsed(h, d) /\ q = PointerOf(h, d)
        BY ShownOnly
    <2>2. d = c
        BY <2>1, SameOwner
    <2> QED BY <2>1, <2>2
<1>3. At(h, {c}, {q}) /\ At(g, {c}, {q})
    BY DEF At
<1> HIDE DEF q
<1>4. Memory!Promise!Others(View(h), View(g), {q})
    BY <1>3, OthersStay
<1> QED BY <1>1, <1>2, <1>4 DEF q

\* The program has cell c no longer.
LEMMA GonePointer ==
    ASSUME NEW h, Good(h, 0, {}), NEW g, Good(g, 0, {}), NEW c \in Memory!Item, Keeps(h, g, {c}),
           IsUsed(h, c), ~IsUsed(g, c)
    PROVE  LET p == PointerOf(h, c)
           IN  /\ p \in DOMAIN View(h) \ DOMAIN View(g)
               /\ Memory!Promise!Others(View(h), View(g), {p})
<1> DEFINE p == PointerOf(h, c)
<1>1. p \in DOMAIN View(h)
    BY Shown
<1>2. p \notin DOMAIN View(g)
    <2> SUFFICES ASSUME p \in DOMAIN View(g) PROVE FALSE
        OBVIOUS
    <2>1. PICK d \in Memory!Item : IsUsed(g, d) /\ p = PointerOf(g, d)
        BY ShownOnly
    <2>2. d = c
        BY <2>1, SameOwner
    <2> QED BY <2>1, <2>2
<1>3. At(h, {c}, {p}) /\ At(g, {c}, {p})
    BY DEF At
<1> HIDE DEF p
<1>4. Memory!Promise!Others(View(h), View(g), {p})
    BY <1>3, OthersStay
<1> QED BY <1>1, <1>2, <1>4 DEF p

LEMMA SeesZeros ==
    ASSUME NEW g, Good(g, 0, {}), NEW c \in Memory!Item, IsUsed(g, c), NEW n \in Nat,
           ZeroBytes(g, c, n)
    PROVE  Memory!Promise!Zeros(Seen(g, c), n + 1)
<1>1. /\ g.cell[c].requested \in Length /\ g.cell[c].requested \in Nat
      /\ Len(Seen(g, c)) = g.cell[c].requested
      /\ \A i \in 1 .. g.cell[c].requested :
             Seen(g, c)[i] = g.mem[g.cell[c].block][Memory!First(g, c) + i - 1]
    BY SeenIs
<1>2. Memory!First(g, c) \in Int
    BY FirstIs DEF Good
<1>3. ASSUME NEW i \in n + 1 .. Len(Seen(g, c))
      PROVE  Seen(g, c)[i] = Memory!Zero
    <2> DEFINE b == Memory!First(g, c) + i - 1
    <2>1. i \in 1 .. g.cell[c].requested
        BY <1>1, <1>3
    <2>2. b \in Int /\ Memory!First(g, c) + n <= b
          /\ b < Memory!First(g, c) + g.cell[c].requested
        BY <1>1, <1>2
    <2>3. Seen(g, c)[i] = g.mem[g.cell[c].block][b]
        BY <1>1, <2>1
    <2> HIDE DEF b
    <2>4. g.mem[g.cell[c].block][b] = Memory!Zero
        BY <2>2 DEF ZeroBytes
    <2> QED BY <2>3, <2>4
<1> QED BY <1>1, <1>3 DEF Memory!Promise!Zeros

LEMMA SeesStart ==
    ASSUME NEW h, Good(h, 0, {}), NEW g, Good(g, 0, {}), NEW c \in Memory!Item, IsUsed(h, c),
           NEW d \in Memory!Item, IsUsed(g, d), SameStart(h, g, c, d)
    PROVE  Memory!Promise!Extends(Seen(h, c), Seen(g, d))
<1>1. /\ h.cell[c].requested \in Nat /\ DOMAIN Seen(h, c) = 1 .. h.cell[c].requested
      /\ \A i \in 1 .. h.cell[c].requested :
             Seen(h, c)[i] = h.mem[h.cell[c].block][Memory!First(h, c) + i - 1]
    BY SeenIs
<1>2. /\ g.cell[d].requested \in Nat /\ DOMAIN Seen(g, d) = 1 .. g.cell[d].requested
      /\ \A i \in 1 .. g.cell[d].requested :
             Seen(g, d)[i] = g.mem[g.cell[d].block][Memory!First(g, d) + i - 1]
    BY SeenIs
<1>3. Memory!First(h, c) \in Int /\ Memory!First(g, d) \in Int
    BY FirstIs DEF Good
<1>4. ASSUME NEW i \in DOMAIN Seen(h, c) \intersect DOMAIN Seen(g, d)
      PROVE  Seen(h, c)[i] = Seen(g, d)[i]
    <2>1. i \in 1 .. h.cell[c].requested /\ i \in 1 .. g.cell[d].requested
        BY <1>1, <1>2
    <2> DEFINE j == i - 1
    <2>2. j \in Int /\ 0 <= j /\ j < h.cell[c].requested /\ j < g.cell[d].requested
        BY <1>1, <1>2, <2>1
    <2>3. Memory!First(h, c) + i - 1 = Memory!First(h, c) + j
          /\ Memory!First(g, d) + i - 1 = Memory!First(g, d) + j
        BY <1>1, <1>3, <2>1
    <2> HIDE DEF j
    <2>4. g.mem[g.cell[d].block][Memory!First(g, d) + j] = h.mem[h.cell[c].block][Memory!First(h, c) + j]
        BY <2>2 DEF SameStart
    <2> QED BY <1>1, <1>2, <2>1, <2>3, <2>4
<1> QED BY <1>4 DEF Memory!Promise!Extends

-----------------------------------------------------------------------------
(* Each step of the allocator is one of what it promises.                  *)

LEMMA AllocPromised ==
    ASSUME MemoryInv, NEW length \in Length, Memory!Alloc(length), MemoryInv'
    PROVE  Memory!Promise!Alloc(View(heap), View(heap')) \/ View(heap') = View(heap)
<1> DEFINE r == Memory!AllocFull(heap, length)
<1>1. Good(heap, 0, {}) /\ heap' = r.h /\ Good(heap', 0, {})
    BY DEF MemoryInv, Memory!Alloc
<1>2. Provides(heap, r, length)
    BY <1>1, AllocFullProvides
<1> HIDE DEF r
<1>3. CASE Keeps(heap, heap', {})
    BY <1>1, <1>3, AllStays
<1>4. ASSUME NEW c \in Memory!Item, Obtains(heap, heap', c, length)
      PROVE  Memory!Promise!Alloc(View(heap), View(heap'))
    <2>1. ~IsUsed(heap, c) /\ Keeps(heap, heap', {c}) /\ ZeroBytes(heap', c, 0)
          /\ IsLive(heap', c) /\ heap'.cell[c].requested = length
        BY <1>4 DEF Obtains
    <2>2. IsUsed(heap', c)
        BY <2>1, Sizes DEF IsUsed
    <2> DEFINE q == PointerOf(heap', c)
    <2>3. q \in DOMAIN View(heap') \ DOMAIN View(heap)
          /\ Memory!Promise!Others(View(heap), View(heap'), {q})
        BY <1>1, <2>1, <2>2, NewPointer
    <2>4. View(heap')[q] = Seen(heap', c)
        BY <1>1, <2>2, Shown
    <2>5. Memory!Promise!Zeros(Seen(heap', c), 1)
        BY <1>1, <2>1, <2>2, SeesZeros
    <2> HIDE DEF q
    <2> QED BY <2>3, <2>4, <2>5 DEF Memory!Promise!Alloc
<1> QED BY <1>1, <1>2, <1>3, <1>4 DEF Provides

LEMMA FreePromised ==
    ASSUME MemoryInv, MemoryInv', NEW p \in Memory!Pointers(heap),
           heap' = Memory!DestroyIfUnused(Memory!SecFree(heap, p), p[1])
    PROVE  Memory!Promise!Free(View(heap), View(heap'))
<1>1. Good(heap, 0, {}) /\ Good(heap', 0, {})
    BY DEF MemoryInv
<1>2. PICK c \in Memory!Item : IsUsed(heap, c) /\ p = PointerOf(heap, c)
    BY <1>1, PointerHas
<1>3. Keeps(heap, heap', {c}) /\ ~IsUsed(heap', c)
    BY <1>1, <1>2, FreeFull
<1>4. p \in DOMAIN View(heap) \ DOMAIN View(heap')
      /\ Memory!Promise!Others(View(heap), View(heap'), {p})
    BY <1>1, <1>2, <1>3, GonePointer
<1> QED BY <1>4 DEF Memory!Promise!Free

\* Cell c is made larger or smaller, or moves to d.
LEMMA ResizePromised ==
    ASSUME NEW h, Good(h, 0, {}), NEW g, Good(g, 0, {}), NEW c \in Memory!Item, IsUsed(h, c),
           NEW d \in Memory!Item, IsUsed(g, d), Keeps(h, g, {c, d}), SameStart(h, g, c, d),
           d # c => ~IsUsed(h, d) /\ ~IsUsed(g, c), d = c => PointerOf(g, c) = PointerOf(h, c)
    PROVE  Memory!Promise!Resize(View(h), View(g))
<1> DEFINE p == PointerOf(h, c)
           q == PointerOf(g, d)
<1>1. p \in DOMAIN View(h) /\ View(h)[p] = Seen(h, c)
      /\ q \in DOMAIN View(g) /\ View(g)[q] = Seen(g, d)
    BY Shown
<1>2. q \notin DOMAIN View(h) \/ q = p
    <2> SUFFICES ASSUME q \in DOMAIN View(h) PROVE q = p
        OBVIOUS
    <2>1. PICK e \in Memory!Item : IsUsed(h, e) /\ q = PointerOf(h, e)
        BY ShownOnly
    <2>2. e = d \/ e \in {c, d}
        BY <2>1, SameOwner
    <2>3. e = c
        BY <2>1, <2>2
    <2> QED BY <2>1, <2>3
<1>3. p \notin DOMAIN View(g) \/ p = q
    <2> SUFFICES ASSUME p \in DOMAIN View(g) PROVE p = q
        OBVIOUS
    <2>1. PICK e \in Memory!Item : IsUsed(g, e) /\ p = PointerOf(g, e)
        BY ShownOnly
    <2>2. c = e \/ e \in {c, d}
        BY <2>1, SameOwner
    <2>3. e = d
        BY <2>1, <2>2
    <2> QED BY <2>1, <2>3
<1>4. At(h, {c, d}, {p, q}) /\ At(g, {c, d}, {p, q})
    <2>1. At(h, {c, d}, {p, q})
        BY DEF At
    <2>2. At(g, {c, d}, {p, q})
        BY DEF At
    <2> QED BY <2>1, <2>2
<1>5. Memory!Promise!Extends(Seen(h, c), Seen(g, d)) /\ Len(Seen(g, d)) \in Length
    BY SeesStart, SeenIs
<1> HIDE DEF p, q
<1>6. Memory!Promise!Others(View(h), View(g), {p, q})
    BY <1>4, OthersStay
<1>7. q \in (DOMAIN View(g) \ DOMAIN View(h)) \union {p} /\ DOMAIN View(g) \intersect {p, q} = {q}
    BY <1>1, <1>2, <1>3
<1> QED BY <1>1, <1>5, <1>6, <1>7 DEF Memory!Promise!Resize

LEMMA ReallocPromised ==
    ASSUME MemoryInv, MemoryInv', NEW p \in Memory!Pointers(heap), NEW length \in Length,
           Memory!Realloc(p, length)
    PROVE  Memory!Promise!Resize(View(heap), View(heap')) \/ View(heap') = View(heap)
<1> DEFINE r == Memory!SecRealloc(heap, p, length)
<1>1. /\ Good(heap, 0, {}) /\ Good(heap', 0, {})
      /\ heap' = Memory!DestroyIfUnused(r.h, p[1])
    BY DEF MemoryInv, Memory!Realloc
<1>2. PICK c \in Memory!Item : IsUsed(heap, c) /\ p = PointerOf(heap, c)
    BY <1>1, PointerHas
<1>3. \/ Keeps(heap, heap', {})
      \/ \E d \in Memory!Item :
            /\ Keeps(heap, heap', {c, d}) /\ (d # c => ~IsUsed(heap, d) /\ ~IsUsed(heap', c))
            /\ d = c => PointerOf(heap', c) = PointerOf(heap, c)
            /\ IsUsed(heap', d) /\ SameStart(heap, heap', c, d)
    BY <1>1, <1>2, ReallocFull
<1>4. CASE Keeps(heap, heap', {})
    BY <1>1, <1>4, AllStays
<1>5. ASSUME NEW d \in Memory!Item,
             /\ Keeps(heap, heap', {c, d}) /\ (d # c => ~IsUsed(heap, d) /\ ~IsUsed(heap', c))
             /\ d = c => PointerOf(heap', c) = PointerOf(heap, c)
             /\ IsUsed(heap', d) /\ SameStart(heap, heap', c, d)
      PROVE  Memory!Promise!Resize(View(heap), View(heap'))
    BY <1>1, <1>2, <1>5, ResizePromised
<1> QED BY <1>3, <1>4, <1>5

LEMMA CopyPromised ==
    ASSUME NEW h, Good(h, 0, {}), NEW g, NEW c \in Memory!Item, IsUsed(h, c),
           NEW d \in Memory!Item, NEW length \in Length, h.cell[c].requested < length,
           Copies(h, g, c, d, length)
    PROVE  Memory!Promise!Copy(View(h), View(g))
<1> DEFINE p == PointerOf(h, c)
           q == PointerOf(g, d)
<1>1. /\ Good(g, 0, {}) /\ Keeps(h, g, {d}) /\ ~IsUsed(h, d) /\ IsUsed(g, d)
      /\ g.cell[d].requested = length /\ SameStart(h, g, c, d)
      /\ ZeroBytes(g, d, h.cell[c].requested)
    BY DEF Copies
<1>2. p \in DOMAIN View(h) /\ View(h)[p] = Seen(h, c) /\ View(g)[q] = Seen(g, d)
    BY <1>1, Shown
<1>3. q \in DOMAIN View(g) \ DOMAIN View(h) /\ Memory!Promise!Others(View(h), View(g), {q})
    BY <1>1, NewPointer
<1>4. Memory!Promise!Extends(Seen(h, c), Seen(g, d))
    BY <1>1, SeesStart
<1>5. Len(Seen(h, c)) = h.cell[c].requested /\ h.cell[c].requested \in Nat
      /\ Len(Seen(g, d)) = length
    BY <1>1, SeenIs
<1>6. Memory!Promise!Zeros(Seen(g, d), Len(Seen(h, c)) + 1)
    BY <1>1, <1>5, SeesZeros
<1>7. Len(Seen(g, d)) > Len(Seen(h, c))
    <2>1. length \in Nat
        BY Sizes
    <2> QED BY <1>5, <2>1
<1> HIDE DEF p, q
<1> QED BY <1>2, <1>3, <1>4, <1>6, <1>7 DEF Memory!Promise!Copy

LEMMA MoveAllocPromised ==
    ASSUME MemoryInv, MemoryInv', NEW p \in Memory!Pointers(heap), Memory!MoveAlloc(p)
    PROVE  Memory!Promise!Copy(View(heap), View(heap')) \/ View(heap') = View(heap)
<1> DEFINE r == Memory!AllocFull(heap, moving[p].length)
           g == Memory!Copied(r.h, p, r.ptr, Memory!Requested(heap, p))
<1>1. /\ Good(heap, 0, {}) /\ Good(heap', 0, {}) /\ MovingOK(heap, moving) /\ p \in DOMAIN moving
      /\ moving[p].to = Memory!Null
      /\ heap' = IF r.ptr # Memory!Null THEN g ELSE r.h
    BY DEF MemoryInv, Memory!MoveAlloc
<1>2. PICK c \in Memory!Item : /\ IsUsed(heap, c) /\ p = PointerOf(heap, c)
                               /\ \A d \in Memory!Item : IsUsed(heap, d) /\ PointerOf(heap, d) = p => d = c
    BY <1>1, PointerHas
<1>3. moving[p] \in Moves /\ heap.cell[c].requested < moving[p].length
    BY <1>1, <1>2 DEF MovingOK, StillThere
<1>4. moving[p].length \in Length /\ heap.cell[c].requested <= moving[p].length
    <2>1. moving[p].length \in Length
        BY <1>3 DEF Moves
    <2>2. heap.cell[c].requested \in Nat
        BY <1>1, <1>2, SeenIs
    <2>3. moving[p].length \in Nat
        BY <2>1, Sizes
    <2> QED BY <1>3, <2>1, <2>2, <2>3
<1> HIDE DEF g
<1>5. MoveTaken(heap, r, heap', c, moving[p].length)
    BY <1>1, <1>2, <1>4, MoveAllocFull DEF g
<1> HIDE DEF r
<1>6. CASE Keeps(heap, heap', {})
    BY <1>1, <1>6, AllStays
<1>7. ASSUME NEW d \in Memory!Item, Copies(heap, heap', c, d, moving[p].length)
      PROVE  Memory!Promise!Copy(View(heap), View(heap'))
    BY <1>1, <1>2, <1>3, <1>4, <1>7, CopyPromised
<1> QED BY <1>5, <1>6, <1>7 DEF MoveTaken

LEMMA WritePromised ==
    ASSUME MemoryInv, MemoryInv', NEW p \in Memory!Pointers(heap), Memory!WriteMemory(p)
    PROVE  Memory!Promise!Write(View(heap), View(heap'))
<1>1. /\ Good(heap, 0, {}) /\ Good(heap', 0, {})
      /\ heap' = Memory!Fill(heap, p[1], p[2] * WordSize,
                             p[2] * WordSize + Memory!Requested(heap, p), Memory!Data)
    BY DEF MemoryInv, Memory!WriteMemory
<1>2. PICK c \in Memory!Item :
          /\ IsUsed(heap, c) /\ p = PointerOf(heap, c) /\ p[1] = heap.cell[c].block
          /\ p[1] \in Memory!Slot /\ Memory!CellOf(heap, p) = c
          /\ p[2] * WordSize = Memory!First(heap, c)
    BY <1>1, PointerHas
<1> DEFINE k == heap.cell[c].block
           n == heap.cell[c].requested
           from == Memory!First(heap, c)
           to == from + n
<1>3. heap' = Memory!Fill(heap, k, from, to, Memory!Data)
    BY <1>1, <1>2 DEF Memory!Requested
<1>4. /\ Keeps(heap, heap', {c}) /\ Filled(heap, heap', k, from, to, Memory!Data)
      /\ heap'.cell = heap.cell
    BY <1>1, <1>2, <1>3, WriteFull
<1>5. IsUsed(heap', c) /\ PointerOf(heap', c) = p /\ Memory!First(heap', c) = from
      /\ heap'.cell[c].requested = n /\ heap'.cell[c].block = k
    BY <1>2, <1>4 DEF IsUsed, IsLive, PointerOf, Memory!First
<1>6. p \in DOMAIN View(heap) /\ View(heap)[p] = Seen(heap, c)
      /\ p \in DOMAIN View(heap') /\ View(heap')[p] = Seen(heap', c)
    BY <1>1, <1>2, <1>5, Shown
<1>7. Memory!Promise!Others(View(heap), View(heap'), {p})
    <2>1. At(heap, {c}, {p}) /\ At(heap', {c}, {p})
        BY <1>2, <1>5 DEF At
    <2> QED BY <1>1, <1>4, <2>1, OthersStay
<1>8. Seen(heap', c) = [i \in 1 .. n |-> Memory!Data]
    <2>1. Seen(heap', c) = [i \in 1 .. n |-> heap'.mem[k][from + i - 1]]
        BY <1>5 DEF Seen
    <2>2. ASSUME NEW i \in 1 .. n
          PROVE  heap'.mem[k][from + i - 1] = Memory!Data
        <3>1. from \in Int /\ n \in Nat
            BY <1>1, <1>2, FirstIs, SeenIs DEF Good
        <3> DEFINE b == from + i - 1
        <3>2. from <= b /\ b < to
            BY <3>1
        <3>3. b \in Bytes
            <4> DEFINE j == i - 1
            <4>1. j \in Int /\ 0 <= j /\ j < n
                BY <3>1
            <4>2. from + j = b
                BY <3>1
            <4> HIDE DEF j
            <4>3. from + j \in Bytes
                BY <1>1, <1>2, <4>1, ItsBytes DEF IsUsed
            <4> QED BY <4>2, <4>3
        <3> HIDE DEF b, from, to, k, n
        <3>4. heap'.mem[k][b] = Memory!Data
            BY <1>2, <1>4, <3>2, <3>3 DEF Filled, k
        <3> QED BY <3>4 DEF b
    <2> QED BY <2>1, <2>2
<1>9. DOMAIN Seen(heap, c) = 1 .. n
    BY <1>1, <1>2, SeenIs
<1> HIDE DEF k, n, from, to
<1> QED BY <1>6, <1>7, <1>8, <1>9 DEF Memory!Promise!Write

LEMMA StartPromised ==
    ASSUME Memory!Init
    PROVE  Memory!Promise!Init
<1>1. heap.blocks = << >>
    BY DEF Memory!Init
<1>2. Memory!Pointers(heap) = {}
    BY <1>1 DEF Memory!Pointers, Memory!Members
<1>3. [p \in Memory!Pointers(heap) |-> Memory!Contents(heap, p)] = << >>
    BY <1>2
<1> QED BY <1>3 DEF Memory!Promise!Init

LEMMA StepPromised ==
    ASSUME MemoryInv, Memory!Next
    PROVE  \/ Memory!Promise!Next
           \/ UNCHANGED [p \in Memory!Pointers(heap) |-> Memory!Contents(heap, p)]
<1>1. MemoryInv'
    BY MemoryStays
<1> DEFINE o == View(heap)
           n == View(heap')
           Promised == \/ Memory!Promise!Alloc(o, n) \/ Memory!Promise!Free(o, n)
                       \/ Memory!Promise!Resize(o, n) \/ Memory!Promise!Copy(o, n)
                       \/ Memory!Promise!Write(o, n) \/ n = o
<1> HIDE DEF o, n
<1>2. ASSUME NEW length \in Length, Memory!Alloc(length)
      PROVE  Promised
    BY <1>1, <1>2, AllocPromised DEF o, n
<1>3. ASSUME NEW p \in Memory!Pointers(heap),
             \/ Memory!Free(p)
             \/ \E length \in Length : Memory!Realloc(p, length)
             \/ Memory!MoveAlloc(p)
             \/ Memory!MoveFree(p)
             \/ Memory!WriteMemory(p)
      PROVE  Promised
    <2>1. CASE Memory!Free(p) \/ Memory!MoveFree(p)
        <3>1. heap' = Memory!DestroyIfUnused(Memory!SecFree(heap, p), p[1])
            BY <2>1 DEF Memory!Free, Memory!MoveFree
        <3> QED BY <1>1, <3>1, FreePromised DEF o, n
    <2>2. CASE \E length \in Length : Memory!Realloc(p, length)
        BY <1>1, <2>2, ReallocPromised DEF o, n
    <2>3. CASE Memory!MoveAlloc(p)
        BY <1>1, <2>3, MoveAllocPromised DEF o, n
    <2>4. CASE Memory!WriteMemory(p)
        BY <1>1, <2>4, WritePromised DEF o, n
    <2> QED BY <1>3, <2>1, <2>2, <2>3, <2>4
<1>4. Promised
    BY <1>2, <1>3 DEF Memory!Next
<1>5. /\ o = [p \in Memory!Pointers(heap) |-> Memory!Contents(heap, p)]
      /\ n = [p \in Memory!Pointers(heap) |-> Memory!Contents(heap, p)]'
    BY DEF o, n, View
<1> QED BY <1>4, <1>5 DEF Memory!Promise!Next

-----------------------------------------------------------------------------
(* The memory among the parts.                                             *)

LEMMA MemoryInvAlways ==
    /\ SecretsInit => MemoryInv
    /\ MemoryInv /\ [SecretsNext]_allVars => MemoryInv'
    /\ MemoryInv /\ [SecretsNext]_allVars =>
           \/ Memory!Promise!Next
           \/ UNCHANGED [p \in Memory!Pointers(heap) |-> Memory!Contents(heap, p)]
<1>1. SecretsInit => MemoryInv
    BY MemoryStarts DEF SecretsInit
<1>2. [SecretsNext]_allVars => Memory!Next \/ UNCHANGED memoryVars
    BY DEF SecretsNext, allVars
<1>3. ASSUME MemoryInv, UNCHANGED memoryVars
      PROVE  /\ MemoryInv'
             /\ UNCHANGED [p \in Memory!Pointers(heap) |-> Memory!Contents(heap, p)]
    <2>1. heap' = heap /\ moving' = moving
        BY <1>3 DEF memoryVars
    <2>2. MemoryInv'
        BY <1>3, <2>1 DEF MemoryInv
    <2>3. UNCHANGED [p \in Memory!Pointers(heap) |-> Memory!Contents(heap, p)]
        BY <2>1
    <2> QED BY <2>2, <2>3
<1> QED BY <1>1, <1>2, <1>3, MemoryStays, StepPromised

\* Whatever is allocated, resized and freed, and by however many threads, the cells of a
\* block share out its words, each between its guards, and cells and blocks have meta data
\* of their own: what egg_secure_validate and egg_secure_records assert holds in between
\* the functions of egg/egg-secure-memory.c, and the neighbours that sec_free merges and
\* sec_realloc eats up are those that the guards name.
THEOREM CellsAlwaysTile == SecretsSpec => []CellsTile
<1>1. SecretsInit => MemoryInv
    BY MemoryInvAlways
<1>2. MemoryInv /\ [SecretsNext]_allVars => MemoryInv'
    BY MemoryInvAlways
<1>3. MemoryInv => CellsTile
    BY GoodTiles DEF MemoryInv, CellsTile
<1> QED BY <1>1, <1>2, <1>3, PTL DEF SecretsSpec

\* egg/egg-secure-memory.c keeps the promise of its header, SecureHeap: what is allocated
\* is nobody else's and zero, what is resized or moved keeps its bytes, and what any
\* function does to one object, merging and splitting cells, changes no other.
THEOREM HeapImplemented == SecretsSpec => ImplementsHeap
<1> DEFINE objects == [p \in Memory!Pointers(heap) |-> Memory!Contents(heap, p)]
<1>1. SecretsInit => MemoryInv /\ Memory!Promise!Init
    BY MemoryInvAlways, StartPromised DEF SecretsInit
<1>2. MemoryInv /\ [SecretsNext]_allVars => MemoryInv'
    BY MemoryInvAlways
<1>3. MemoryInv /\ [SecretsNext]_allVars => [Memory!Promise!Next]_objects
    BY MemoryInvAlways
<1> QED BY <1>1, <1>2, <1>3, PTL DEF SecretsSpec, ImplementsHeap, Memory!ImplementsHeap, Memory!Promise!Spec
=============================================================================
