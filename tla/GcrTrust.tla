------------------------------ MODULE GcrTrust ------------------------------
(***************************************************************************)
(* gcr/gcr-trust.c: trust assertions, which are objects on the tokens of   *)
(* the trust lookup slots: a certificate is pinned for a peer, or is an    *)
(* anchor.  Assertions are looked up, added to the token of the trust      *)
(* store slot, and removed, by calls in threads that work side by side.    *)
(***************************************************************************)
EXTENDS GcrLibrary

CONSTANTS
    Cert, Peer

ASSUME TrustAssumption == None \notin Peer

VARIABLES
    asserts,    \* the assertions on the tokens; an anchor has no peer
    born        \* the number of assertions that have been there

trustVars == <<libraryVars, asserts, born>>

Assertion(n, c, p, s) == [id |-> n, cert |-> c, peer |-> p, slot |-> s]

\* The assertions of a certificate for a peer, or as an anchor.
Of(c, p) == {o \in asserts : o.cert = c /\ o.peer = p}
\* What a search for them in some slots finds there.
FoundIn(c, p, slots) == {o \in Of(c, p) : o.slot \in slots}

\* A call that begins by initialising the library.
TrustJob(op, goal, sync, c, p) ==
    [NoJob EXCEPT !.pc = "init", !.op = op, !.goal = goal, !.sync = sync, !.cert = c, !.peer = p]

\* gcr_trust_add_pinned_certificate and gcr_trust_remove_pinned_certificate, and _async
AddPinned(k, sync, c, p) ==
    Started(k, TrustJob("add", "add", sync, c, p))
    /\ UNCHANGED <<moduleVars, uriVars, adding, asserts, born>>
RemovePinned(k, sync, c, p) ==
    Started(k, TrustJob("remove", "remove", sync, c, p))
    /\ UNCHANGED <<moduleVars, uriVars, adding, asserts, born>>

TrustGoal == {"add", "remove", "pinned", "anchored"}

\* gck_enumerator_next wants one object, and gck_enumerator_next_n all of them.
WantsAll(j) == j.goal = "remove"

\* The first slot is all that is searched.
SearchedOnce(j, slots, list) ==
    [j EXCEPT !.slots = slots, !.list = list, !.pc = IF slots = << >> \/ j.pc = "search" THEN "found" ELSE "search"]
\* What a search has left to do, and what it has found; it goes on if more is wanted.
Searched(j, slots, list) ==
    [j EXCEPT !.slots = slots, !.list = list,
              !.pc = IF slots = << >> \/ (list # << >> /\ ~WantsAll(j)) THEN "found" ELSE "search"]

\* gcr_pkcs11_get_trust_lookup_slots: the search is of these slots, one after the other.
AskSlots(k) ==
    /\ job[k].pc = "ready" /\ job[k].goal \in TrustGoal
    /\ InitializeUris
    /\ \E slots \in {TrustLookupSlots(lookupUris')} :
          LET j == job[k]
          IN  job' = [job EXCEPT ![k] = [Searched(j, slots, << >>) EXCEPT
                                            !.before = FoundIn(j.cert, j.peer, Range(slots))]]
    /\ UNCHANGED <<moduleVars, adding, budget, asserts, born>>

\* The slot that comes next is searched.  One where no session can
\* be opened, or where the search fails, gives what it has found and no error.
Search(k) ==
    /\ job[k].pc = "search"
    /\ LET j == job[k]
           slot == Head(j.slots)
           found == FoundIn(j.cert, j.peer, {slot})
           rest == Tail(j.slots)
       IN  \/ /\ job' = [job EXCEPT ![k] = Searched(j, rest, j.list \o SetToSeq(found))]
              /\ UNCHANGED budget
           \/ /\ budget.troubles > 0
              /\ \E part \in SUBSET found :
                    job' = [job EXCEPT ![k] = [Searched(j, rest, j.list \o SetToSeq(part)) EXCEPT
                                                  !.skipped = @ \union {slot}]]
              /\ budget' = [budget EXCEPT !.troubles = @ - 1]
           \/ Failed(k)
    /\ UNCHANGED <<moduleVars, uriVars, adding, asserts, born>>

\* perform_add_pinned_certificate: what exists is not added again ...
AddExisting(k) ==
    /\ job[k].pc = "found" /\ job[k].goal = "add" /\ job[k].list # << >>
    /\ job' = [job EXCEPT ![k].pc = "done", ![k].ok = TRUE]
    /\ UNCHANGED <<moduleVars, uriVars, adding, budget, asserts, born>>

\* ... and what does not is created in the trust store slot, if there is one.
AddMissing(k) ==
    /\ job[k].pc = "found" /\ job[k].goal = "add" /\ job[k].list = << >>
    /\ InitializeUris
    /\ LET slot == TokenForUri(storeUri', modules)
       IN  \/ /\ slot # None
              /\ asserts' = asserts \union {Assertion(born + 1, job[k].cert, job[k].peer, slot)}
              /\ born' = born + 1
              /\ job' = [job EXCEPT ![k].pc = "done", ![k].ok = TRUE]
              /\ UNCHANGED budget
           \/ /\ slot = None
              /\ job' = [job EXCEPT ![k].pc = "done", ![k].ok = FALSE]
              /\ UNCHANGED <<asserts, born, budget>>
           \/ /\ slot # None
              /\ Failed(k)
              /\ UNCHANGED <<asserts, born>>
    /\ UNCHANGED <<moduleVars, adding>>

\* perform_remove_pinned_certificate: an object that is gone already is passed over, and
\* does not end the call.
DestroyAnswer(o) == IF o \in asserts THEN "ok" ELSE "handle-invalid"
EndsAtInvalid(answer) == answer = "ok"
GoesOn(answer) == TRUE

Destroy(k) ==
    /\ job[k].pc = "found" /\ job[k].goal = "remove" /\ job[k].list # << >>
    /\ LET o == Head(job[k].list)
       IN  \/ /\ asserts' = asserts \ {o}
              /\ job' = [job EXCEPT ![k].list =
                            IF GoesOn(DestroyAnswer(o)) THEN Tail(@) ELSE << >>]
              /\ UNCHANGED budget
           \/ Failed(k) /\ UNCHANGED asserts
    /\ UNCHANGED <<moduleVars, uriVars, adding, born>>

Removed(k) ==
    /\ job[k].pc = "found" /\ job[k].goal = "remove" /\ job[k].list = << >>
    /\ job' = [job EXCEPT ![k].pc = "done", ![k].ok = TRUE]
    /\ UNCHANGED <<moduleVars, uriVars, adding, budget, asserts, born>>

TrustStep(k) ==
    \/ LibraryStep(k) /\ UNCHANGED <<asserts, born>>
    \/ AskSlots(k) \/ Search(k)
    \/ AddExisting(k) \/ AddMissing(k)
    \/ Destroy(k) \/ Removed(k)

-----------------------------------------------------------------------------
\* The assertions that a call was to find, in the slots that it could search.
Sought(j) == {o \in j.before : o.slot \notin j.skipped}

\* When a removal has ended well, no assertion is left of those that it was to remove,
\* that were there when it began to search and where it could search, whoever removes
\* others at the same time (perform_remove_pinned_certificate).
RemovedIsGone ==
    \A k \in Job :
        job[k].pc = "done" /\ job[k].op = "remove" /\ job[k].ok => Sought(job[k]) \cap asserts = {}

\* An assertion is added only if none like it was in the lookup slots when the call began
\* to search and still is, as far as they could be searched: two alike come only of calls
\* that overlap, or of a store slot that is not among the lookup slots
\* (gcr_trust_add_pinned_certificate: "does not add another").
AddsWhatIsMissing ==
    [][\A k \in Job : job[k].goal = "add" /\ asserts \subseteq asserts' /\ asserts # asserts'
                      /\ job'[k] # job[k]
                         => Sought(job[k]) \cap asserts = {}]_trustVars
=============================================================================
