-------------------------- MODULE GcrCertificateChain --------------------------
(***************************************************************************)
(* gcr/gcr-certificate-chain.c: a chain of certificates, put in order and  *)
(* completed with issuers from the tokens until a pinned, anchored or self *)
(* signed certificate ends it.  A build works on a copy of the chain, in a *)
(* thread or with the main loop blocked, and its end puts the copy in the  *)
(* place of what the chain is by then.                                     *)
(***************************************************************************)
EXTENDS GcrTrust

CONSTANTS
    Subject, Issuer,    \* the name of each certificate, and of its issuer
    Offered, Pinnable,  \* the certificates that the program adds, and those that it pins
    Blocking,           \* the calls that may block the main loop, one at a time
    MaxChain            \* bound: a chain is not followed beyond this length

ASSUME ChainAssumption ==
    /\ DOMAIN Subject = Cert /\ DOMAIN Issuer = Cert
    /\ Offered \subseteq Cert /\ Pinnable \subseteq Cert

VARIABLES
    chain,      \* certificates and status
    stored      \* the certificates on the tokens

chainVars == <<trustVars, chain, stored>>

\* gcr_certificate_is_issuer
IsIssuer(c, d) == Issuer[c] = Subject[d]

\* g_ptr_array_remove_index_fast: the last takes the place of the one removed.
RemoveIndexFast(s, i) ==
    IF i = Len(s) THEN SubSeq(s, 1, Len(s) - 1)
    ELSE SubSeq([s EXCEPT ![i] = s[Len(s)]], 1, Len(s) - 1)

\* The certificates are taken in the order they are in.
PlaceOfNext(input, c) == IF input = << >> THEN 0 ELSE 1
\* pop_certificate: the place of the first that can be the issuer, or 0
PlaceOfIssuer(input, c) == SelectInSeq(input, LAMBDA d : IsIssuer(c, d))

\* gcr_certificate_chain_add, after which nothing is known of the chain
Add(c) ==
    /\ MainFree /\ adding = NotAdding /\ budget.troubles > 0
    /\ chain' = [certs |-> Append(chain.certs, c), status |-> "UNKNOWN"]
    /\ budget' = [budget EXCEPT !.troubles = @ - 1]
    /\ UNCHANGED <<moduleVars, uriVars, adding, job, asserts, born, stored>>

-----------------------------------------------------------------------------
\* What a build goes on to with a certificate that is the last by now
NextOf(j) == [j EXCEPT !.pc = "build", !.cert = None, !.goal = None,
                       !.slots = << >>, !.list = << >>, !.before = {}, !.skipped = {}]
LooksUp(j, goal, c, p) == [j EXCEPT !.pc = "init", !.goal = goal, !.cert = c, !.peer = p]
Built(j, status) == [NextOf(j) EXCEPT !.pc = "done", !.ok = TRUE, !.status = status]
Extended(j, c) ==
    IF j.lookups THEN LooksUp([j EXCEPT !.certs = Append(@, c)], "anchored", c, None)
    ELSE [j EXCEPT !.certs = Append(@, c), !.pc = "build"]

\* gcr_certificate_chain_build and _async: the copy, and its first certificate, which
\* may be pinned for the peer.
Build(k, sync, lookups, p) ==
    /\ LET given == chain.certs
           j == [NoJob EXCEPT !.op = "build", !.sync = sync, !.lookups = lookups, !.given = given]
           first == [j EXCEPT !.certs = <<Head(given)>>, !.input = RemoveIndexFast(given, 1)]
       IN  Started(k, IF given = << >> THEN Built(j, "UNKNOWN")
                      ELSE IF lookups /\ p # None THEN LooksUp(first, "pinned", Head(given), p)
                      ELSE NextOf(first))
    /\ UNCHANGED <<moduleVars, uriVars, adding, asserts, born, chain, stored>>

\* gcr_trust_is_certificate_pinned has ended.
PinnedKnown(k) ==
    /\ job[k].pc = "found" /\ job[k].goal = "pinned"
    /\ job' = [job EXCEPT ![k] = IF @.list # << >> THEN Built(@, "PINNED") ELSE NextOf(@)]
    /\ UNCHANGED <<moduleVars, uriVars, adding, budget, asserts, born, chain, stored>>

\* gcr_trust_is_certificate_anchored has ended.
AnchoredKnown(k) ==
    /\ job[k].pc = "found" /\ job[k].goal = "anchored"
    /\ job' = [job EXCEPT ![k] = IF @.list # << >> THEN Built(@, "ANCHORED") ELSE NextOf(@)]
    /\ UNCHANGED <<moduleVars, uriVars, adding, budget, asserts, born, chain, stored>>

\* One round of the loop of perform_build_chain, up to what it must look up
BuildNext(k) ==
    /\ job[k].pc = "build" /\ Len(job[k].certs) < MaxChain
    /\ LET j == job[k]
           issued == Last(j.certs)
           i == PlaceOfIssuer(j.input, issued)
       IN  job' = [job EXCEPT ![k] =
                      IF IsIssuer(issued, issued) THEN Built(j, "SELFSIGNED")
                      ELSE IF i # 0
                      THEN Extended([j EXCEPT !.input = RemoveIndexFast(@, i)], j.input[i])
                      ELSE IF j.lookups THEN LooksUp(j, "issuer", issued, None)
                      ELSE Built(j, "INCOMPLETE")]
    /\ UNCHANGED <<moduleVars, uriVars, adding, budget, asserts, born, chain, stored>>

\* gcr_pkcs11_certificate_lookup_issuer: any object with the right subject, of any token
\* of the modules; or none, also when a token could not be searched; or an error, also
\* when the object cannot be read.
LookupIssuer(k) ==
    /\ job[k].pc = "ready" /\ job[k].goal = "issuer"
    /\ LET j == job[k]
           found == IF Tokens(modules) = << >> THEN {}
                    ELSE {c \in stored : IsIssuer(j.cert, c)}
       IN  \/ /\ \E c \in found : job' = [job EXCEPT ![k] = Extended(j, c)]
              /\ UNCHANGED budget
           \/ /\ found = {}
              /\ job' = [job EXCEPT ![k] = Built(j, "INCOMPLETE")]
              /\ UNCHANGED budget
           \/ /\ found # {} /\ budget.troubles > 0
              /\ job' = [job EXCEPT ![k] = Built(j, "INCOMPLETE")]
              /\ budget' = [budget EXCEPT !.troubles = @ - 1]
           \/ Failed(k)
    /\ UNCHANGED <<moduleVars, uriVars, adding, asserts, born, chain, stored>>

BuildStep(k) == PinnedKnown(k) \/ AnchoredKnown(k) \/ BuildNext(k) \/ LookupIssuer(k)

\* A call ends: it returns, or its callback is called in the main loop.  What a build has
\* made replaces the chain, unless it failed.
Finish(k) ==
    /\ job[k].pc = "done" /\ adding = NotAdding
    /\ job[k].sync \/ MainFree
    /\ IF job[k].op = "build" /\ job[k].ok
       THEN chain' = [certs |-> job[k].certs, status |-> job[k].status]
       ELSE UNCHANGED chain
    /\ job' = [job EXCEPT ![k] = NoJob]
    /\ UNCHANGED <<moduleVars, uriVars, adding, budget, asserts, born, stored>>

\* gcr_pkcs11_initialize and gcr_pkcs11_initialize_async
StartInitialize(k, sync) ==
    /\ Started(k, [NoJob EXCEPT !.pc = "init", !.op = "initialize", !.goal = "initialize",
                                !.sync = sync])
    /\ UNCHANGED <<moduleVars, uriVars, adding, asserts, born, chain, stored>>

-----------------------------------------------------------------------------
\* What may be on the tokens, with an assertion's number to tell it from others.
AssertionType ==
    [id : Nat \ {0}, cert : Cert, peer : Peer \union {None}, slot : Slot]

\* The program starts with whatever is on the tokens, and has made a chain.
Init ==
    /\ asserts \subseteq AssertionType /\ IsFiniteSet(asserts)
    /\ born \in Nat /\ \A o \in asserts : o.id <= born
    /\ stored \subseteq Cert
    /\ chain.certs \in Seq(Cert) /\ chain.status = "UNKNOWN"
    /\ LibraryInit

Step(k) ==
    \/ TrustStep(k) /\ UNCHANGED <<chain, stored>>
    \/ BuildStep(k)

Next ==
    \/ \E k \in Job : \E sync \in {FALSE} \union {k \in Blocking} :
          \/ StartInitialize(k, sync)
          \/ \E c \in Pinnable, p \in Peer :
                (AddPinned(k, sync, c, p) \/ RemovePinned(k, sync, c, p))
                /\ UNCHANGED <<chain, stored>>
          \/ \E p \in Peer \union {None} : Build(k, sync, TRUE, p)
          \/ Build(k, sync, FALSE, None)
    \/ \E k \in Job : Step(k) \/ Finish(k)
    \/ ProgramSetsUp /\ UNCHANGED <<asserts, born, chain, stored>>
    \/ \E c \in Offered : Add(c)

Spec == Init /\ [][Next]_chainVars

\* The threads run, and the main loop comes to the callbacks.
Fairness ==
    /\ \A k \in Job : WF_chainVars(Step(k)) /\ WF_chainVars(Finish(k))
    /\ WF_chainVars(ModuleAdded /\ UNCHANGED <<asserts, born, chain, stored>>)

-----------------------------------------------------------------------------
OnPath(certs) == \A i \in 1 .. Len(certs) - 1 : IsIssuer(certs[i], certs[i + 1])

\* What a status says of the certificates, for a chain that was built of given ones
Justified(certs, status) ==
    /\ OnPath(certs)
    /\ status = "SELFSIGNED" => IsIssuer(Last(certs), Last(certs))
    /\ status = "PINNED" => Len(certs) = 1
    /\ status = "ANCHORED" => Len(certs) > 1 /\ \E o \in asserts : o.cert = Last(certs) /\ o.peer = None

\* Whatever was added in whatever order, and built before, in parallel or again: a chain
\* whose status is known goes from each certificate to an issuer of it, and ends with one
\* that the status is about; no issuer that was given is left out of an incomplete one,
\* and the end entity stays the first (perform_build_chain, gcr_certificate_chain_add).
BuiltInOrder ==
    /\ chain.status # "UNKNOWN" => Justified(chain.certs, chain.status)
    /\ \A k \in Job :
        LET j == job[k]
        IN  j.op = "build" /\ j.pc = "done" /\ j.ok /\ j.given # << >> =>
              /\ j.status # "UNKNOWN" /\ Justified(j.certs, j.status)
              /\ Head(j.certs) = Head(j.given)
              /\ j.status = "INCOMPLETE" =>
                    \A c \in Range(j.given) : IsIssuer(Last(j.certs), c) => c \in Range(j.certs)

\* The issuers that a build finds on the tokens lead round in a circle: it goes on for
\* ever, as nothing compares them with what it has (perform_build_chain, the loop).
Circles(j) ==
    /\ j.lookups /\ Len(j.certs) = MaxChain
    /\ \E i \in DOMAIN j.certs : j.certs[i] \in stored /\ \E l \in DOMAIN j.certs : l # i /\ j.certs[l] = j.certs[i]

\* Every call ends, whatever the others do, but for a build that goes round in a circle.
EndsOrCircles ==
    \A k \in Job : (job[k].pc # "idle") ~>
        \/ job[k].pc = "idle"
        \/ \E d \in Job : Circles(job[d]) /\ (d = k \/ job[d].sync)
=============================================================================
