---------------------------- MODULE GcrImporting ----------------------------
(***************************************************************************)
(* Importing what was parsed: the button of ui/gcr-import-button.c, the    *)
(* choice of importers in gcr/gcr-importer.c, and the importer into a      *)
(* PKCS#11 token of gcr/gcr-pkcs11-importer.c with its states open,        *)
(* supplement and create.  What the importer into GnuPG sends is in        *)
(* GcrGnupg, here it is one of the importers to choose from.               *)
(*                                                                         *)
(* Labels are left out: the dialogs of ui/gcr-pkcs11-import-interaction.c  *)
(* may be cancelled, what else is typed into them has no part here.        *)
(***************************************************************************)
EXTENDS Lists, FiniteSets, SequencesExt

CONSTANTS
    Item,       \* parsed items
    Class,      \* Item -> certificate, key, records or other (CKA_CLASS)
    Pair,       \* Item -> fingerprint of the public key, "none" where there is none
    TokenSlots, \* the slots of all modules with a token, a sequence
    Flags,      \* slot -> the flags of its token, as a set
    Refused,    \* slots where the token refuses to create a private key
    GnuPG,      \* the importer into GnuPG
    MaxItems,   \* items that are given to the button
    MaxFaults   \* calls of a token that fail, and dialogs that are cancelled

Slots == Range(TokenSlots)

ASSUME ImportingAssumption ==
    /\ TokenSlots \in Seq(Slots) /\ IsInjective(TokenSlots)
    /\ "none" \notin Slots /\ GnuPG \notin Slots
    /\ \A i \in Item : /\ Class[i] \in {"certificate", "key", "records", "other"}
                      /\ Pair[i] \notin Item

VARIABLES
    added,      \* items given to the button
    ready,      \* pv->ready: the modules are initialized
    pending,    \* pv->queued: items that came before, the last one first
    created,    \* pv->created
    importers,  \* pv->importers
    queue,      \* per slot: the attributes that wait in its importer
    objects,    \* per slot: what its importer created on the token
    failed,     \* per slot: what it could not create
    op,         \* the import in progress, with the attributes that it creates
    result,     \* per slot: how its last import ended
    pass,       \* number of imports that came to supplementing
    cancelled,  \* pv->cancellable, once the button is disposed of
    faults

importingVars == <<added, ready, pending, created, importers, queue, objects,
                   failed, op, result, pass, cancelled, faults>>

NoImport == [on |-> "none", phase |-> "none", attrs |-> <<>>]
Running == op.phase # "none"

\* Attributes have an id (CKA_ID) and are for the token (CKA_TOKEN) once they
\* are supplemented.
NoId == <<>>
Bare(i) == [item |-> i, id |-> NoId, token |-> FALSE]

Items(attrs) == {attrs[n].item : n \in DOMAIN attrs}

ImportingInit ==
    /\ added = {}
    /\ ready = FALSE /\ created = FALSE
    /\ pending = <<>> /\ importers = <<>>
    /\ queue = [s \in Slots |-> <<>>]
    /\ objects = [s \in Slots |-> <<>>]
    /\ failed = [s \in Slots |-> {}]
    /\ op = NoImport
    /\ result = [s \in Slots |-> "none"]
    /\ pass = 0
    /\ cancelled = FALSE
    /\ faults = 0

-----------------------------------------------------------------------------
(* The importers for an item                                               *)

\* is_slot_importable; the black list is a list of URIs of tokens.
Importable(s) ==
    /\ Flags[s] \cap {"write protected", "black list"} = {}
    /\ "initialized" \in Flags[s]
    /\ "login required" \in Flags[s] => "pin initialized" \in Flags[s]

\* The attributes the types of importers registered with.
Compatible(i, importer) ==
    IF importer = GnuPG THEN Class[i] = "records" ELSE Class[i] \in {"certificate", "key"}

\* What becomes of the importers and their queues: a set of items is given to
\* the button one after another, the state s is of both.  Each importer into a
\* token is there once.
QueuedAll(s, i) ==
    LET q == s.queue
    IN  [s EXCEPT !.queue = [m \in Slots |->
             IF m \in Range(s.importers) THEN Append(q[m], Bare(i)) ELSE q[m]]]

\* gcr_importer_create_for_parsed
CreateFor(s, i) ==
    LET found == IF Compatible(i, GnuPG) THEN <<GnuPG>>
                 ELSE Kept(TokenSlots, {m \in Slots : Importable(m) /\ Compatible(i, m)})
    IN  QueuedAll([s EXCEPT !.importers = found, !.created = TRUE], i)

\* gcr_importer_queue_and_filter_for_parsed: an importer into a token takes
\* every item, the one into GnuPG only what GnuPG reads.
QueueAndFilter(s, i) ==
    LET takes == Slots \cup (IF Compatible(i, GnuPG) THEN {GnuPG} ELSE {})
    IN  QueuedAll([s EXCEPT !.importers = Kept(@, takes)], i)

\* gcr_import_button_add_parsed on a button that is ready.
AddParsed(s, i) == IF s.created THEN QueueAndFilter(s, i) ELSE CreateFor(s, i)

\* One item after the other.
AddAll(s, list) ==
    LET given[n \in 0 .. Len(list)] ==
            IF n = 0 THEN s ELSE AddParsed(given[n - 1], list[n])
    IN  given[Len(list)]

Importers == [importers |-> importers, queue |-> queue, created |-> created]
ImportersBecome(s) == importers' = s.importers /\ queue' = s.queue /\ created' = s.created

-----------------------------------------------------------------------------
(* The button                                                              *)

\* A button that runs into the endless recursion of next_state takes the
\* program with it.
Alive == Running => op.phase # "circling"

ButtonAdd(i) ==
    /\ Alive /\ ~cancelled /\ i \notin added /\ Cardinality(added) < MaxItems
    /\ added' = added \cup {i}
    /\ IF ready THEN ImportersBecome(AddParsed(Importers, i)) /\ UNCHANGED pending
       ELSE pending' = <<i>> \o pending /\ UNCHANGED <<importers, queue, created>>
    /\ UNCHANGED <<ready, objects, failed, op, result, pass, cancelled, faults>>

\* on_library_pkcs11_ready takes what came before, the last item first.
LibraryReady ==
    /\ Alive /\ ~ready
    /\ ready' = TRUE
    /\ ImportersBecome(AddAll(Importers, pending))
    /\ pending' = <<>>
    /\ UNCHANGED <<added, objects, failed, op, result, pass, cancelled, faults>>

\* next_state: when the import is cancelled, state_cancelled goes to the next
\* state, which is itself.
NextState(state) == IF cancelled THEN [op EXCEPT !.phase = "circling"] ELSE state

\* on_import_complete: after a success the importers are let go of.
Complete(ok) ==
    /\ result' = IF op.on = GnuPG THEN result
                 ELSE [result EXCEPT ![op.on] = IF ok THEN "success" ELSE "error"]
    /\ op' = NoImport
    /\ importers' = IF ok THEN <<>> ELSE importers

\* gcr_import_button_clicked, or the menu where there are several importers;
\* and import_async of the importer.
BeginImport(importer) ==
    /\ ~Running /\ ~cancelled
    /\ importer \in Range(importers)
    /\ op' = [on |-> importer, phase |-> "opening", attrs |-> <<>>]
    /\ UNCHANGED <<added, ready, pending, created, importers, queue, objects,
                   failed, result, pass, cancelled, faults>>

\* gcr_import_button_dispose
Dispose ==
    /\ Alive /\ ~cancelled
    /\ cancelled' = TRUE
    /\ importers' = <<>> /\ pending' = <<>>
    /\ UNCHANGED <<added, ready, created, queue, objects, failed, op, result,
                   pass, faults>>

-----------------------------------------------------------------------------
(* Ids                                                                     *)

\* The certificate and the key of a pair are the first of their class with
\* its fingerprint.
OfClass(q, fp, class) ==
    Kept(q, {a \in Range(q) : Pair[a.item] = fp /\ Class[a.item] = class})
First(q, fp, class) == Head(OfClass(q, fp, class))

IsPair(q, fp) ==
    fp # "none" /\ OfClass(q, fp, "certificate") # <<>> /\ OfClass(q, fp, "key") # <<>>

Couple(q, fp) == {First(q, fp, "certificate"), First(q, fp, "key")}

\* An id is made of a nonce, new with each pass, and what it is the id of.
\* One that is there already is kept.
WithId(a, of) ==
    [a EXCEPT !.token = TRUE, !.id = IF @ = NoId THEN <<pass + 1, of>> ELSE @]

\* The key of a pair is given an id of its own.
SupplementEach(q, order) ==
    [n \in DOMAIN q |-> WithId(q[n], q[n].item)]
\* What is in a pair is not marked as paired.
SupplementTwice(q, order) ==
    SupplementEach(Kept(q, {a \in Range(q) : IsPair(q, Pair[a.item])}), order)
        \o SupplementEach(q, order)
\* supplement_attributes: the pairs come first, the key before its
\* certificate, and in any order among themselves (that of a hash table).
Supplement(q, order) ==
    LET fps == Kept(order, {fp \in Range(order) : IsPair(q, fp)})
        both == [n \in 1 .. 2 * Len(fps) |->
                    LET fp == fps[(n + 1) \div 2]
                        class == IF n % 2 = 1 THEN "key" ELSE "certificate"
                    IN  WithId(First(q, fp, class), fp)]
        paired == UNION {Couple(q, fp) : fp \in Range(fps)}
        rest == Kept(q, Range(q) \ paired)
    IN  both \o [n \in DOMAIN rest |-> WithId(rest[n], rest[n].item)]

Fingerprints(q) == {Pair[q[n].item] : n \in DOMAIN q} \ {"none"}

-----------------------------------------------------------------------------
(* The states of an import                                                 *)

\* state_create_object with this queue: the next item, or the end.
CreateNext(q) ==
    IF cancelled
      THEN /\ op' = [op EXCEPT !.phase = "circling", !.attrs = <<>>]
           /\ queue' = [queue EXCEPT ![op.on] = q]
           /\ UNCHANGED <<result, importers>>
    ELSE IF q = <<>>
      THEN Complete(TRUE) /\ queue' = [queue EXCEPT ![op.on] = q]
    ELSE /\ op' = [op EXCEPT !.phase = "creating", !.attrs = <<Head(q)>>]
         /\ queue' = [queue EXCEPT ![op.on] = Tail(q)]
         /\ UNCHANGED <<result, importers>>

\* The error is kept, and nobody is told.
FailsSilently == op' = [op EXCEPT !.phase = "failed"] /\ UNCHANGED <<result, importers>>
\* An error completes the import.
Fails ==
    IF cancelled THEN op' = [op EXCEPT !.phase = "circling", !.attrs = <<>>]
                      /\ UNCHANGED <<result, importers>>
                 ELSE Complete(FALSE)

Fault == faults < MaxFaults \/ cancelled
CountFault == faults' = IF cancelled THEN faults ELSE faults + 1

\* complete_open_session, and state_supplement which shows the dialog.
Opened(ok) ==
    /\ op.on # GnuPG /\ op.phase = "opening"
    /\ IF ok
         THEN /\ op' = NextState([op EXCEPT !.phase = "supplementing"])
              /\ UNCHANGED <<result, importers, faults>>
         ELSE Fault /\ CountFault /\ Fails
    /\ UNCHANGED <<added, ready, pending, created, queue, objects, failed, pass,
                   cancelled>>

\* complete_supplement: the user goes on, or cancels.
Supplemented(ok) ==
    /\ op.phase = "supplementing"
    /\ IF ok
         THEN /\ pass' = pass + 1
              /\ \E order \in SetToSeqs(Fingerprints(queue[op.on])) :
                    CreateNext(Supplement(queue[op.on], order))
              /\ UNCHANGED faults
         ELSE Fault /\ CountFault /\ Fails /\ UNCHANGED <<pass, queue>>
    /\ UNCHANGED <<added, ready, pending, created, objects, failed, cancelled>>

\* A token creates certificates and keys, some tokens no private keys.
TokenAccepts(s, i) == Compatible(i, s) /\ ~(s \in Refused /\ Class[i] = "key")

\* complete_create_object: an item that fails is gone from the queue.
ObjectCreated(ok) ==
    /\ op.phase = "creating"
    /\ LET a == Head(op.attrs)
       IN  IF ok
             THEN /\ TokenAccepts(op.on, a.item)
                  /\ objects' = [objects EXCEPT ![op.on] = Append(@, a)]
                  /\ CreateNext(queue[op.on])
                  /\ UNCHANGED <<failed, faults>>
             ELSE /\ IF TokenAccepts(op.on, a.item) THEN Fault /\ CountFault
                     ELSE UNCHANGED faults
                  /\ failed' = [failed EXCEPT ![op.on] = @ \cup {a.item}]
                  /\ Fails
                  /\ UNCHANGED <<objects, queue>>
    /\ UNCHANGED <<added, ready, pending, created, pass, cancelled>>

\* gpg is done with the packets it was sent (see GcrGnupg).
GnupgImported(ok) ==
    /\ Running /\ op.on = GnuPG
    /\ IF ok THEN UNCHANGED faults ELSE Fault /\ CountFault
    /\ Complete(ok)
    /\ UNCHANGED <<added, ready, pending, created, queue, objects, failed, pass,
                   cancelled>>

Returns(ok) == \/ Opened(ok)
               \/ Supplemented(ok)
               \/ ObjectCreated(ok)
               \/ GnupgImported(ok)

ImportingNext ==
    \/ \E i \in Item : ButtonAdd(i)
    \/ LibraryReady
    \/ \E importer \in Slots \cup {GnuPG} : BeginImport(importer)
    \/ \E ok \in BOOLEAN : Returns(ok)
    \/ Dispose

\* What was asked of a token, of the user or of gpg is answered.
ImportingFairness == WF_importingVars(\E ok \in BOOLEAN : Returns(ok))

-----------------------------------------------------------------------------
\* A certificate and its key, unless one of them is not the first of its class.
Mates(a, b) ==
    /\ Pair[a.item] # "none" /\ Pair[a.item] = Pair[b.item]
    /\ {Class[a.item], Class[b.item]} = {"certificate", "key"}
Rivalled(a, b) ==
    \E c \in added \ {a.item, b.item} :
        Pair[c] = Pair[a.item] /\ Class[c] \in {Class[a.item], Class[b.item]}

IdsAgree(attrs) ==
    \A a, b \in attrs : a # b /\ a.id # NoId /\ b.id # NoId =>
        /\ a.id = b.id => Mates(a, b)
        /\ Mates(a, b) /\ a.id[1] = b.id[1] => a.id = b.id \/ Rivalled(a, b)

\* Two objects on a token have the same id only if they are a certificate and
\* its key, and the first of each that one pass supplemented do have the same:
\* it is how PKCS#11 applications find the key of a certificate.  A key that
\* came after its certificate was supplemented has another (see the README).
PairsShareId == \A s \in Slots : IdsAgree(Range(objects[s]))

Held(s) == Items(objects[s]) \cup Items(queue[s]) \cup failed[s]
               \cup (IF op.on = s THEN Items(op.attrs) ELSE {})

\* An import that succeeds has created, once, everything that its importer was
\* ever given, also what was queued while it ran and what earlier attempts left,
\* but for what an earlier attempt reported it could not create.
SuccessMeansAll ==
    [][\A s \in Slots :
          /\ Held(s) \subseteq Held(s)'
          /\ result[s] # "success" /\ result'[s] = "success" =>
                /\ Items(objects'[s]) = Held(s)' \ failed'[s]
                /\ Len(objects'[s]) = Cardinality(Items(objects'[s]))]_importingVars

\* Every import ends, with success or an error, while the button is there.
ImportsEnd == Running ~> ~Running \/ cancelled

\* gcr_importer_import_async "completes asynchronously": so does an import that
\* is cancelled.  The code breaks this.
ImportsComplete == Running ~> ~Running
=============================================================================
