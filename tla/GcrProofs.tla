------------------------------ MODULE GcrProofs ------------------------------
(***************************************************************************)
(* Proofs about gcr: the library, trust assertions and certificate chains, *)
(* collections, and imports.                                               *)
(*                                                                         *)
(* Every registered module is listed once, a removal leaves no assertion   *)
(* that it was to remove, an assertion is added only if it is missing, and *)
(* a chain that was built is in order and as its status says.  They rest   *)
(* on one invariant, whose parts say what every call knows where it is.    *)
(*                                                                         *)
(* A union of collections counts, and a filter selects, exactly what they  *)
(* should.  That is an invariant itself; what takes an induction is what   *)
(* they make of a list of signals.                                         *)
(*                                                                         *)
(* An import that succeeds has created what its importer was given, and    *)
(* only a certificate and its key get the same id.  That rests on what is  *)
(* known of each token: no item is in two places, and the ids are those of *)
(* passes that took place, each with the fingerprint of what it is for.    *)
(***************************************************************************)
EXTENDS GcrCertificateChain, GcrCollections, GcrImporting, ListLemmas

Pc == {"idle", "init", "load", "loaded", "concat", "ready", "search", "found", "build", "done"}
Status == {"UNKNOWN", "PINNED", "ANCHORED", "SELFSIGNED", "INCOMPLETE"}
Goal == {"initialize", "add", "remove", "pinned", "anchored", "issuer", None}

\* The fields of a call, but for the list.
JobType ==
    [pc : Pc, op : {"initialize", "add", "remove", "build", None}, sync : BOOLEAN,
     goal : Goal, ok : BOOLEAN, cert : Cert \union {None}, peer : Peer \union {None},
     slots : Seq(Slot), list : Seq(Module \union AssertionType), before : SUBSET AssertionType,
     skipped : SUBSET Slot, given : Seq(Cert), certs : Seq(Cert), input : Seq(Cert),
     status : Status, lookups : BOOLEAN]

-----------------------------------------------------------------------------
(* The invariant.  What a call knows depends on it, on the assertions that *)
(* are there, and on how many there were.                                  *)

Once(list) ==
    \A i, j \in DOMAIN list : list[i] = list[j] /\ list[i] \in Range(Registered) => i = j
NoneOf(list) == Range(list) \cap Range(Registered) = {}

\* The list has a registered module once, and none before they are loaded; so has the
\* list that the main loop appends to.
ModulesKnown ==
    /\ modules \in Seq(Module) /\ Once(modules)
    /\ adding = NotAdding \/ adding \in [module : Extra, list : Seq(Module)]
    /\ Once(adding.list)
    /\ initializedModules \in BOOLEAN
    /\ ~initializedModules => NoneOf(modules) /\ NoneOf(adding.list)

UrisKnown == lookupUris \in Seq(Uri) /\ storeUri \in Uri \union {None}

\* The list that a call has read with the lock has no registered module.
ListKnown(j) == j.pc = "concat" => j.list \in Seq(Module) /\ NoneOf(j.list)

\* What a search has found, is to find, and cannot find.
SearchKnows(j, there) ==
    /\ j.list \in Seq(AssertionType)
    /\ j.pc = "search" => j.slots # << >>
    /\ j.pc = "found" /\ (j.list = << >> \/ j.goal = "remove") => j.slots = << >>
    /\ \A o \in Range(j.list) :
          o.cert = j.cert /\ o.peer = j.peer /\ (o.peer = None => o \in there)
    /\ \A o \in Sought(j) : o \in there => o \in Range(j.list) \/ o.slot \in Range(j.slots)
    /\ \A o \in j.before : o.cert = j.cert /\ o.peer = j.peer

TrustKnows(j, there, n) ==
    /\ j.goal \in {"add", "remove"} =>
          j.op = j.goal /\ j.cert \in Cert /\ j.peer \in Peer
    /\ j.op = "remove" => j.goal = "remove"
    /\ j.pc \in {"search", "found"} => SearchKnows(j, there) /\ j.goal \in TrustGoal
    /\ j.pc = "done" /\ j.op = "remove" /\ j.ok => Sought(j) \cap there = {}
    /\ \A o \in j.before : o.id <= n

\* Justified, of the assertions that are there.
Fits(certs, status, there) ==
    /\ OnPath(certs)
    /\ status = "SELFSIGNED" => IsIssuer(Last(certs), Last(certs))
    /\ status = "PINNED" => Len(certs) = 1
    /\ status = "ANCHORED" =>
          Len(certs) > 1 /\ \E o \in there : o.cert = Last(certs) /\ o.peer = None

NoIssuerIn(input, c) == \A d \in Range(input) : ~IsIssuer(c, d)

\* What a build has made so far, of certificates that are all in the chain or left.
PathKnown(j) ==
    /\ j.certs # << >> /\ OnPath(j.certs) /\ Head(j.certs) = Head(j.given)
    /\ Range(j.given) \subseteq Range(j.certs) \union Range(j.input)

\* A certificate that is looked up is the last of the chain.
LookupKnows(j) ==
    /\ j.goal = "pinned" => Len(j.certs) = 1
    /\ j.goal = "anchored" => Len(j.certs) > 1 /\ j.cert = Last(j.certs) /\ j.peer = None
    /\ j.goal = "issuer" =>
          j.lookups /\ j.cert = Last(j.certs) /\ NoIssuerIn(j.input, Last(j.certs))

ResultKnows(j, there) ==
    j.pc = "done" /\ j.ok /\ j.given # << >> =>
        /\ j.status # "UNKNOWN" /\ Fits(j.certs, j.status, there)
        /\ j.status = "INCOMPLETE" => NoIssuerIn(j.input, Last(j.certs))

BuildKnows(j, there) ==
    /\ j.op = "build" =>
          /\ j.goal \in {"pinned", "anchored", "issuer", None}
          /\ j.given = << >> => j.pc = "done" /\ j.status = "UNKNOWN"
          /\ j.given # << >> => PathKnown(j)
          /\ LookupKnows(j) /\ ResultKnows(j, there)
          /\ j.pc = "build" => j.given # << >> /\ j.goal = None
    /\ j.goal \in {"pinned", "anchored", "issuer"} \/ j.pc = "build" => j.op = "build"

JobKnows(j, there, n) ==
    ListKnown(j) /\ TrustKnows(j, there, n) /\ BuildKnows(j, there)

JobsKnown == job \in [Job -> JobType] /\ \A k \in Job : JobKnows(job[k], asserts, born)

AssertsKnown ==
    /\ asserts \subseteq AssertionType /\ IsFiniteSet(asserts)
    /\ born \in Nat /\ \A o \in asserts : o.id <= born

ChainKnown ==
    /\ chain.certs \in Seq(Cert)
    /\ chain.status # "UNKNOWN" => Fits(chain.certs, chain.status, asserts)
    /\ stored \subseteq Cert

IInv ==
    /\ ModulesKnown
    /\ UrisKnown
    /\ AssertsKnown
    /\ JobsKnown
    /\ ChainKnown

-----------------------------------------------------------------------------
(* The calls, as records.                                                  *)

LEMMA NoJobType == NoJob \in JobType
  BY DEF NoJob, JobType, Pc, Goal, Status

\* What a call is after a step that says only where it goes on.
LEMMA PcType ==
    ASSUME NEW j \in JobType, NEW pc \in Pc
    PROVE  [j EXCEPT !.pc = pc] \in JobType
  BY DEF JobType

LEMMA SearchedFields ==
    ASSUME NEW j \in JobType, NEW slots \in Seq(Slot), NEW list \in Seq(AssertionType)
    PROVE  LET s == Searched(j, slots, list)
           IN  /\ s \in JobType
               /\ s.slots = slots /\ s.list = list
               /\ s.pc = IF slots = << >> \/ (list # << >> /\ j.goal # "remove")
                         THEN "found" ELSE "search"
               /\ s.op = j.op /\ s.goal = j.goal /\ s.cert = j.cert /\ s.peer = j.peer
               /\ s.before = j.before /\ s.skipped = j.skipped /\ s.given = j.given
               /\ s.certs = j.certs /\ s.input = j.input /\ s.status = j.status
               /\ s.ok = j.ok
  <1>1. list \in Seq(Module \union AssertionType)
    OBVIOUS
  <1>2. QED
    BY <1>1 DEF Searched, WantsAll, JobType, Pc

\* The fields that a build keeps when it goes on.
Kin(i, j) ==
    /\ i.op = j.op /\ i.given = j.given /\ i.sync = j.sync /\ i.lookups = j.lookups

LEMMA NextOfFields ==
    ASSUME NEW j \in JobType
    PROVE  LET i == NextOf(j)
           IN  /\ i \in JobType /\ Kin(i, j) /\ i.pc = "build" /\ i.goal = None
               /\ i.before = {} /\ i.list = << >>
               /\ i.certs = j.certs /\ i.input = j.input /\ i.status = j.status
               /\ i.cert = None /\ i.ok = j.ok
  <1> DEFINE i == NextOf(j)
  <1>1. /\ << >> \in Seq(Slot) /\ << >> \in Seq(Module \union AssertionType)
        /\ {} \in SUBSET AssertionType /\ {} \in SUBSET Slot
        /\ None \in Cert \union {None} /\ None \in Goal /\ "build" \in Pc
    BY DEF Goal, Pc
  <1>2. i \in JobType
    BY <1>1 DEF NextOf, JobType
  <1>3. /\ i.op = j.op /\ i.given = j.given /\ i.sync = j.sync /\ i.lookups = j.lookups
        /\ i.pc = "build" /\ i.goal = None /\ i.before = {} /\ i.list = << >>
        /\ i.certs = j.certs /\ i.input = j.input /\ i.status = j.status
        /\ i.cert = None /\ i.ok = j.ok
    BY DEF NextOf, JobType
  <1>4. QED
    BY <1>2, <1>3 DEF Kin

LEMMA LooksUpFields ==
    ASSUME NEW j \in JobType, NEW goal \in Goal, NEW c \in Cert, NEW p \in Peer \union {None}
    PROVE  LET i == LooksUp(j, goal, c, p)
           IN  /\ i \in JobType /\ Kin(i, j) /\ i.pc = "init" /\ i.goal = goal
               /\ i.cert = c /\ i.peer = p
               /\ i.certs = j.certs /\ i.input = j.input /\ i.status = j.status
               /\ i.before = j.before /\ i.list = j.list
  BY DEF LooksUp, JobType, Pc, Goal, Kin

LEMMA BuiltFields ==
    ASSUME NEW j \in JobType, NEW status \in Status
    PROVE  LET i == Built(j, status)
           IN  /\ i \in JobType /\ Kin(i, j) /\ i.pc = "done" /\ i.goal = None /\ i.ok
               /\ i.status = status /\ i.certs = j.certs /\ i.input = j.input /\ i.before = {}
  <1> DEFINE n == NextOf(j)
  <1>1. /\ n \in JobType /\ Kin(n, j) /\ n.goal = None /\ n.before = {}
        /\ n.certs = j.certs /\ n.input = j.input
    BY NextOfFields
  <1>2. Built(j, status) = [n EXCEPT !.pc = "done", !.ok = TRUE, !.status = status]
    BY DEF Built
  <1> HIDE DEF n
  <1> DEFINE i == [n EXCEPT !.pc = "done", !.ok = TRUE, !.status = status]
  <1>3. /\ i \in JobType
        /\ i.op = n.op /\ i.given = n.given /\ i.sync = n.sync /\ i.lookups = n.lookups
        /\ i.pc = "done" /\ i.goal = n.goal /\ i.ok = TRUE /\ i.status = status
        /\ i.certs = n.certs /\ i.input = n.input /\ i.before = n.before
    BY <1>1 DEF JobType, Pc
  <1> HIDE DEF i
  <1>4. QED
    BY <1>1, <1>2, <1>3 DEF Kin, i

LEMMA ExtendedFields ==
    ASSUME NEW j \in JobType, NEW c \in Cert
    PROVE  LET i == Extended(j, c)
           IN  /\ i \in JobType /\ Kin(i, j)
               /\ i.certs = Append(j.certs, c) /\ i.input = j.input /\ i.status = j.status
               /\ i.before = j.before /\ i.list = j.list
               /\ j.lookups => i.pc = "init" /\ i.goal = "anchored" /\ i.cert = c /\ i.peer = None
               /\ ~j.lookups => i.pc = "build" /\ i.goal = j.goal
  <1> DEFINE n == [j EXCEPT !.certs = Append(@, c)]
  <1>0. Append(j.certs, c) \in Seq(Cert) /\ "build" \in Pc
    BY DEF JobType, Pc
  <1>1. /\ n \in JobType /\ n.certs = Append(j.certs, c) /\ n.op = j.op /\ n.given = j.given
        /\ n.sync = j.sync /\ n.lookups = j.lookups /\ n.input = j.input
        /\ n.status = j.status /\ n.before = j.before /\ n.list = j.list /\ n.goal = j.goal
    BY <1>0 DEF JobType
  <1>2. CASE j.lookups
    <2>1. Extended(j, c) = LooksUp(n, "anchored", c, None)
      BY <1>2 DEF Extended
    <2> HIDE DEF n
    <2>2. "anchored" \in Goal /\ None \in Peer \union {None}
      BY DEF Goal
    <2> DEFINE i == LooksUp(n, "anchored", c, None)
    <2>3. /\ i \in JobType /\ Kin(i, n) /\ i.pc = "init" /\ i.goal = "anchored"
          /\ i.cert = c /\ i.peer = None
          /\ i.certs = n.certs /\ i.input = n.input /\ i.status = n.status
          /\ i.before = n.before /\ i.list = n.list
      BY <1>1, <2>2, LooksUpFields
    <2> HIDE DEF i
    <2>4. QED
      BY <1>1, <1>2, <2>1, <2>3 DEF Kin, i
  <1>3. CASE ~j.lookups
    <2> DEFINE i == [j EXCEPT !.certs = Append(@, c), !.pc = "build"]
    <2>1. Extended(j, c) = i
      BY <1>3 DEF Extended
    <2>2. /\ i \in JobType /\ i.op = j.op /\ i.given = j.given /\ i.sync = j.sync
          /\ i.lookups = j.lookups /\ i.certs = Append(j.certs, c) /\ i.input = j.input
          /\ i.status = j.status /\ i.before = j.before /\ i.list = j.list
          /\ i.pc = "build" /\ i.goal = j.goal
      BY <1>0 DEF JobType
    <2> HIDE DEF i
    <2>3. QED
      BY <1>3, <2>1, <2>2 DEF Kin
  <1>4. j.lookups \in BOOLEAN
    BY DEF JobType
  <1>5. QED
    BY <1>2, <1>3, <1>4

-----------------------------------------------------------------------------
(* What one call knows stays true of what the others do.                   *)

LEMMA IdleKnows == ASSUME NEW there, NEW n PROVE JobKnows(NoJob, there, n)
  BY LibraryAssumption DEF JobKnows, ListKnown, TrustKnows, BuildKnows, NoJob

\* Anchors stay, and what comes is new.
LEMMA KnowsStays ==
    ASSUME NEW j \in JobType, NEW there, NEW later, NEW n \in Nat, NEW m \in Nat, n <= m,
           \A o \in later : o \in there \/ ~(o.id <= n),
           \A o \in there : o.peer = None => o \in later,
           JobKnows(j, there, n)
    PROVE  JobKnows(j, later, m)
  <1>1. j.before \subseteq AssertionType /\ Sought(j) \subseteq j.before
    BY DEF JobType, Sought
  <1>2. \A o \in j.before : o.id \in Nat /\ o.id <= n
    BY <1>1 DEF AssertionType, JobKnows, TrustKnows
  <1>3. \A o \in Sought(j) : o \in later => o \in there
    BY <1>1, <1>2
  <1>4. ASSUME SearchKnows(j, there) PROVE SearchKnows(j, later)
    BY <1>3, <1>4 DEF SearchKnows
  <1>5. \A o \in j.before : o.id <= m
    BY <1>2
  <1>6. Sought(j) \cap there = {} => Sought(j) \cap later = {}
    BY <1>3
  <1>7. TrustKnows(j, later, m)
    BY <1>4, <1>5, <1>6 DEF JobKnows, TrustKnows
  <1>8. \A certs, status : Fits(certs, status, there) => Fits(certs, status, later)
    BY DEF Fits
  <1>9. ResultKnows(j, there) => ResultKnows(j, later)
    BY <1>8 DEF ResultKnows
  <1>10. BuildKnows(j, later)
    BY <1>9 DEF JobKnows, BuildKnows
  <1>11. QED
    BY <1>7, <1>10 DEF JobKnows

\* One call goes on, as j, and the assertions stay as they are.
LEMMA JobMoves ==
    ASSUME JobsKnown, NEW k \in Job, NEW j \in JobType, JobKnows(j, asserts, born),
           job' = [job EXCEPT ![k] = j], UNCHANGED <<asserts, born>>
    PROVE  JobsKnown'
  <1>1. job' \in [Job -> JobType] /\ job'[k] = j /\ \A d \in Job : d # k => job'[d] = job[d]
    BY DEF JobsKnown
  <1>2. \A d \in Job : JobKnows(job'[d], asserts, born)
    BY <1>1 DEF JobsKnown
  <1>3. \A d \in Job : JobKnows(job'[d], asserts', born')
    BY <1>2
  <1>4. QED
    BY <1>1, <1>3 DEF JobsKnown

\* A call goes on and nothing else happens.
LEMMA Quiet ==
    ASSUME IInv, JobsKnown', UNCHANGED <<moduleVars, uriVars, adding, asserts, born, chain, stored>>
    PROVE  IInv'
  <1>1. ModulesKnown' /\ UrisKnown'
    BY DEF IInv, ModulesKnown, UrisKnown, moduleVars, uriVars
  <1>2. AssertsKnown'
    BY DEF IInv, AssertsKnown
  <1>3. ChainKnown'
    BY DEF IInv, ChainKnown
  <1>4. QED
    BY <1>1, <1>2, <1>3 DEF IInv

\* A call that goes on as j does.
LEMMA QuietMove ==
    ASSUME IInv, NEW k \in Job, NEW j \in JobType, JobKnows(j, asserts, born),
           job' = [job EXCEPT ![k] = j],
           UNCHANGED <<moduleVars, uriVars, adding, asserts, born, chain, stored>>
    PROVE  IInv'
  <1>1. JobsKnown'
    BY JobMoves DEF IInv
  <1>2. QED
    BY <1>1, Quiet

LEMMA TypeOfJob ==
    ASSUME IInv, NEW k \in Job
    PROVE  /\ job[k] \in JobType /\ JobKnows(job[k], asserts, born)
           /\ asserts \subseteq AssertionType /\ IsFiniteSet(asserts) /\ born \in Nat
  BY DEF IInv, JobsKnown, AssertsKnown

\* A call that fails is over.
LEMMA FailedKnows ==
    ASSUME NEW j \in JobType, NEW there, NEW n, JobKnows(j, there, n), j.pc \in Pc \ {"idle", "done"}
    PROVE  LET i == [j EXCEPT !.pc = "done", !.ok = FALSE]
           IN  i \in JobType /\ JobKnows(i, there, n)
  <1> DEFINE i == [j EXCEPT !.pc = "done", !.ok = FALSE]
  <1>1. /\ i \in JobType /\ i.pc = "done" /\ i.ok = FALSE /\ i.op = j.op /\ i.goal = j.goal
        /\ i.cert = j.cert /\ i.peer = j.peer /\ i.list = j.list /\ i.before = j.before
        /\ i.given = j.given /\ i.certs = j.certs /\ i.input = j.input /\ i.status = j.status
        /\ i.lookups = j.lookups
    BY DEF JobType, Pc
  <1> HIDE DEF i
  <1>2. TrustKnows(i, there, n)
    BY <1>1 DEF JobKnows, TrustKnows
  <1>3. LookupKnows(i) = LookupKnows(j) /\ PathKnown(i) = PathKnown(j)
    BY <1>1 DEF LookupKnows, PathKnown
  <1>4. ResultKnows(i, there)
    BY <1>1 DEF ResultKnows
  <1>5. BuildKnows(i, there)
    BY <1>1, <1>3, <1>4 DEF JobKnows, BuildKnows, Pc
  <1>6. ListKnown(i)
    BY <1>1 DEF ListKnown
  <1>7. QED
    BY <1>1, <1>2, <1>5, <1>6 DEF JobKnows, i

\* What a call knows before it begins to search does not change when it goes on to init.
LEMMA GoesKnows ==
    ASSUME NEW j \in JobType, NEW there, NEW n, JobKnows(j, there, n),
           NEW pc \in {"load", "loaded", "ready"}, j.pc \in {"init", "load", "loaded"}
    PROVE  LET i == [j EXCEPT !.pc = pc]
           IN  i \in JobType /\ JobKnows(i, there, n)
  <1> DEFINE i == [j EXCEPT !.pc = pc]
  <1>1. /\ i \in JobType /\ i.pc = pc /\ i.ok = j.ok /\ i.op = j.op /\ i.goal = j.goal
        /\ i.cert = j.cert /\ i.peer = j.peer /\ i.list = j.list /\ i.before = j.before
        /\ i.given = j.given /\ i.certs = j.certs /\ i.input = j.input /\ i.status = j.status
        /\ i.lookups = j.lookups
    BY DEF JobType, Pc
  <1> HIDE DEF i
  <1>2. TrustKnows(i, there, n)
    BY <1>1 DEF JobKnows, TrustKnows
  <1>3. LookupKnows(i) = LookupKnows(j) /\ PathKnown(i) = PathKnown(j)
    BY <1>1 DEF LookupKnows, PathKnown
  <1>4. ResultKnows(i, there)
    BY <1>1 DEF ResultKnows
  <1>5. BuildKnows(i, there)
    BY <1>1, <1>3, <1>4 DEF JobKnows, BuildKnows
  <1>6. ListKnown(i)
    BY <1>1 DEF ListKnown
  <1>7. QED
    BY <1>1, <1>2, <1>5, <1>6 DEF JobKnows, i

-----------------------------------------------------------------------------
(* Calls that begin.                                                       *)

LEMMA StartTrust ==
    ASSUME IInv, NEW k \in Job, NEW sync \in BOOLEAN, NEW c \in Cert, NEW p \in Peer,
           NEW kind \in {"add", "remove"},
           Started(k, TrustJob(kind, kind, sync, c, p)),
           UNCHANGED <<moduleVars, uriVars, adding, asserts, born, chain, stored>>
    PROVE  IInv'
  <1> DEFINE j == TrustJob(kind, kind, sync, c, p)
  <1>1. /\ j \in JobType /\ j.pc = "init" /\ j.op = kind /\ j.goal = kind /\ j.cert = c /\ j.peer = p
        /\ j.before = {}
    BY NoJobType DEF TrustJob, NoJob, JobType, Pc, Goal
  <1>2. job' = [job EXCEPT ![k] = j]
    BY DEF Started
  <1> HIDE DEF j
  <1>3. JobKnows(j, asserts, born)
    BY <1>1, LibraryAssumption DEF JobKnows, ListKnown, TrustKnows, BuildKnows
  <1>4. QED
    BY <1>1, <1>2, <1>3, QuietMove

LEMMA StartInit ==
    ASSUME IInv, NEW k \in Job, NEW sync \in BOOLEAN, StartInitialize(k, sync)
    PROVE  IInv'
  <1> DEFINE j == [NoJob EXCEPT !.pc = "init", !.op = "initialize", !.goal = "initialize",
                                !.sync = sync]
  <1>1. /\ j \in JobType /\ j.pc = "init" /\ j.op = "initialize" /\ j.goal = "initialize"
        /\ j.before = {}
    BY NoJobType DEF NoJob, JobType, Pc, Goal
  <1>2. job' = [job EXCEPT ![k] = j]
        /\ UNCHANGED <<moduleVars, uriVars, adding, asserts, born, chain, stored>>
    BY DEF StartInitialize, Started
  <1> HIDE DEF j
  <1>3. JobKnows(j, asserts, born)
    BY <1>1 DEF JobKnows, ListKnown, TrustKnows, BuildKnows
  <1>4. QED
    BY <1>1, <1>2, <1>3, QuietMove

-----------------------------------------------------------------------------
(* Steps of the library.                                                   *)

LEMMA InitializeStep ==
    ASSUME IInv, NEW k \in Job, Initialize(k), UNCHANGED <<asserts, born, chain, stored>>
    PROVE  IInv'
  <1> DEFINE pc == IF initializedModules THEN "ready" ELSE "load"
             j == [job[k] EXCEPT !.pc = pc]
  <1>1. pc \in {"load", "loaded", "ready"} /\ job[k].pc = "init"
    BY DEF Initialize
  <1>2. job' = [job EXCEPT ![k] = j]
    BY DEF Initialize, Goes
  <1>3. UNCHANGED <<moduleVars, uriVars, adding, asserts, born, chain, stored>>
    BY DEF Initialize
  <1> HIDE DEF pc
  <1>4. j \in JobType /\ JobKnows(j, asserts, born)
    BY <1>1, TypeOfJob, GoesKnows
  <1>5. QED
    BY <1>2, <1>3, <1>4, QuietMove

LEMMA FailedStep ==
    ASSUME IInv, NEW k \in Job, Failed(k), job[k].pc \in Pc \ {"idle", "done"},
           UNCHANGED <<moduleVars, uriVars, adding, asserts, born, chain, stored>>
    PROVE  IInv'
  <1> DEFINE j == [job[k] EXCEPT !.pc = "done", !.ok = FALSE]
  <1>1. job' = [job EXCEPT ![k] = j]
    BY DEF Failed
  <1>2. j \in JobType /\ JobKnows(j, asserts, born)
    BY TypeOfJob, FailedKnows
  <1>3. QED
    BY <1>1, <1>2, QuietMove

LEMMA LoadStep ==
    ASSUME IInv, NEW k \in Job, Load(k), UNCHANGED <<asserts, born, chain, stored>>
    PROVE  IInv'
  <1>1. job[k].pc = "load" /\ "load" \in Pc \ {"idle", "done"}
        /\ UNCHANGED <<moduleVars, uriVars, adding, asserts, born, chain, stored>>
    BY DEF Load, Pc
  <1>2. CASE Goes(k, "loaded")
    <2> DEFINE j == [job[k] EXCEPT !.pc = "loaded"]
    <2>1. job' = [job EXCEPT ![k] = j]
      BY <1>2 DEF Goes
    <2>2. j \in JobType /\ JobKnows(j, asserts, born)
      BY <1>1, TypeOfJob, GoesKnows
    <2>3. QED
      BY <1>1, <2>1, <2>2, QuietMove
  <1>3. CASE Failed(k)
    BY <1>1, <1>3, FailedStep
  <1>4. QED
    BY <1>2, <1>3 DEF Load

\* What the lock is taken for is a list with no registered module.
LEMMA LockStep ==
    ASSUME IInv, NEW k \in Job, Lock(k), UNCHANGED <<asserts, born, chain, stored>>
    PROVE  IInv'
  <1>1. job[k].pc = "loaded" /\ job[k] \in JobType /\ JobKnows(job[k], asserts, born)
    BY TypeOfJob DEF Lock
  <1>2. JobsKnown'
    <2>1. CASE IfStillMissing(initializedModules)
      <3> DEFINE i == [job[k] EXCEPT !.pc = "concat", !.list = modules]
      <3>1. modules \in Seq(Module) /\ NoneOf(modules)
        BY <2>1 DEF IInv, ModulesKnown, IfStillMissing
      <3>2. modules \in Seq(Module \union AssertionType) /\ "concat" \in Pc
        BY <3>1 DEF Pc
      <3>3. /\ i \in JobType /\ i.pc = "concat" /\ i.list = modules /\ i.op = job[k].op
            /\ i.goal = job[k].goal /\ i.cert = job[k].cert /\ i.peer = job[k].peer
            /\ i.before = job[k].before /\ i.given = job[k].given /\ i.certs = job[k].certs
            /\ i.input = job[k].input /\ i.status = job[k].status
            /\ i.lookups = job[k].lookups
        BY <1>1, <3>2 DEF JobType
      <3>4. job' = [job EXCEPT ![k] = i]
        BY <2>1 DEF Lock
      <3> HIDE DEF i
      <3>5. TrustKnows(i, asserts, born) /\ ListKnown(i)
        BY <1>1, <3>1, <3>3 DEF JobKnows, TrustKnows, ListKnown
      <3>6. LookupKnows(i) = LookupKnows(job[k]) /\ PathKnown(i) = PathKnown(job[k])
        BY <3>3 DEF LookupKnows, PathKnown
      <3>7. ResultKnows(i, asserts)
        BY <3>3 DEF ResultKnows
      <3>8. BuildKnows(i, asserts)
        BY <1>1, <3>3, <3>6, <3>7 DEF JobKnows, BuildKnows
      <3>9. UNCHANGED <<asserts, born>>
        OBVIOUS
      <3>10. QED
        BY <3>3, <3>4, <3>5, <3>8, <3>9, JobMoves DEF IInv, JobKnows
    <2>2. CASE ~IfStillMissing(initializedModules)
      <3> DEFINE j == [job[k] EXCEPT !.pc = "ready"]
      <3>1. job' = [job EXCEPT ![k] = j]
        BY <2>2 DEF Lock, Goes
      <3>2. j \in JobType /\ JobKnows(j, asserts, born)
        BY <1>1, GoesKnows
      <3>3. QED
        BY <3>1, <3>2, JobMoves DEF IInv
    <2>3. QED
      BY <2>1, <2>2
  <1>3. ModulesKnown' /\ UrisKnown' /\ AssertsKnown' /\ ChainKnown'
    <2>1. UNCHANGED <<modules, initializedModules, storeUri, lookupUris, adding>>
      BY DEF Lock, uriVars
    <2>2. QED
      BY <2>1 DEF IInv, ModulesKnown, UrisKnown, AssertsKnown, ChainKnown
  <1>4. QED
    BY <1>2, <1>3 DEF IInv

\* A list without registered modules and the registered ones behind it
LEMMA RegisteredBehind ==
    ASSUME NEW list \in Seq(Module), NoneOf(list)
    PROVE  list \o Registered \in Seq(Module) /\ Once(list \o Registered)
  <1> DEFINE all == list \o Registered
  <1>1. Registered \in Seq(Module) /\ IsInjective(Registered)
    BY LibraryAssumption
  <1>2. /\ all \in Seq(Module) /\ Len(all) = Len(list) + Len(Registered)
        /\ Len(list) \in Nat /\ Len(Registered) \in Nat /\ DOMAIN all = 1 .. Len(all)
    BY <1>1
  <1>3. \A i \in 1 .. Len(all) :
            all[i] = IF i <= Len(list) THEN list[i] ELSE Registered[i - Len(list)]
    BY <1>1, <1>2
  <1> HIDE DEF all
  <1>4. \A i \in 1 .. Len(list) : list[i] \notin Range(Registered)
    BY RangeOf DEF NoneOf
  <1>5. ASSUME NEW i \in DOMAIN all, NEW l \in DOMAIN all, all[i] = all[l],
               all[i] \in Range(Registered)
        PROVE  i = l
    <2>1. i \in 1 .. Len(all) /\ l \in 1 .. Len(all)
      BY <1>2
    <2>2. ~(i <= Len(list)) /\ ~(l <= Len(list))
      BY <1>2, <1>3, <1>4, <1>5, <2>1
    <2>3. Registered[i - Len(list)] = Registered[l - Len(list)]
      BY <1>3, <1>5, <2>1, <2>2
    <2>4. i - Len(list) \in DOMAIN Registered /\ l - Len(list) \in DOMAIN Registered
      BY <1>1, <1>2, <2>1, <2>2
    <2>5. i - Len(list) = l - Len(list)
      BY <1>1, <2>3, <2>4 DEF IsInjective
    <2>6. QED
      BY <1>2, <2>1, <2>5
  <1>6. QED
    BY <1>2, <1>5 DEF Once, all

LEMMA ConcatStep ==
    ASSUME IInv, NEW k \in Job, Concat(k), UNCHANGED <<asserts, born, chain, stored>>
    PROVE  IInv'
  <1>1. job[k].pc = "concat" /\ job[k] \in JobType /\ JobKnows(job[k], asserts, born)
    BY TypeOfJob DEF Concat
  <1>2. job[k].list \in Seq(Module) /\ NoneOf(job[k].list)
    BY <1>1 DEF JobKnows, ListKnown
  <1>3. ModulesKnown'
    <2>1. modules' \in Seq(Module) /\ Once(modules')
      BY <1>2, RegisteredBehind DEF Concat
    <2>2. initializedModules' = TRUE /\ adding' = adding
      BY DEF Concat
    <2>3. QED
      BY <2>1, <2>2 DEF IInv, ModulesKnown
  <1>4. UrisKnown' /\ AssertsKnown' /\ ChainKnown'
    BY DEF IInv, UrisKnown, AssertsKnown, ChainKnown, Concat, uriVars
  <1>5. JobsKnown'
    <2> DEFINE i == [job[k] EXCEPT !.pc = "ready", !.list = << >>]
    <2>1. << >> \in Seq(Module \union AssertionType) /\ "ready" \in Pc
      BY DEF Pc
    <2>2. /\ i \in JobType /\ i.pc = "ready" /\ i.op = job[k].op
          /\ i.goal = job[k].goal /\ i.cert = job[k].cert /\ i.peer = job[k].peer
          /\ i.before = job[k].before /\ i.given = job[k].given /\ i.certs = job[k].certs
          /\ i.input = job[k].input /\ i.status = job[k].status
          /\ i.lookups = job[k].lookups
      BY <1>1, <2>1 DEF JobType
    <2>3. job' = [job EXCEPT ![k] = i]
      BY DEF Concat
    <2> HIDE DEF i
    <2>4. TrustKnows(i, asserts, born) /\ ListKnown(i)
      BY <1>1, <2>2 DEF JobKnows, TrustKnows, ListKnown
    <2>5. LookupKnows(i) = LookupKnows(job[k]) /\ PathKnown(i) = PathKnown(job[k])
      BY <2>2 DEF LookupKnows, PathKnown
    <2>6. ResultKnows(i, asserts)
      BY <2>2 DEF ResultKnows
    <2>7. BuildKnows(i, asserts)
      BY <1>1, <2>2, <2>5, <2>6 DEF JobKnows, BuildKnows
    <2>8. QED
      BY <2>2, <2>3, <2>4, <2>7, JobMoves DEF IInv, JobKnows
  <1>6. QED
    BY <1>3, <1>4, <1>5 DEF IInv

\* A call that ends well without an assertion or a chain.
LEMMA EndsKnows ==
    ASSUME NEW j \in JobType, NEW there, NEW n, JobKnows(j, there, n),
           j.op = "remove" => Sought(j) \cap there = {}, j.op # "build"
    PROVE  LET i == [j EXCEPT !.pc = "done", !.ok = TRUE]
           IN  i \in JobType /\ JobKnows(i, there, n)
  <1> DEFINE i == [j EXCEPT !.pc = "done", !.ok = TRUE]
  <1>1. /\ i \in JobType /\ i.pc = "done" /\ i.ok = TRUE /\ i.op = j.op /\ i.goal = j.goal
        /\ i.cert = j.cert /\ i.peer = j.peer /\ i.list = j.list /\ i.before = j.before
        /\ i.skipped = j.skipped
    BY DEF JobType, Pc
  <1> HIDE DEF i
  <1>2. Sought(i) = Sought(j)
    BY <1>1 DEF Sought
  <1>3. TrustKnows(i, there, n)
    BY <1>1, <1>2 DEF JobKnows, TrustKnows
  <1>4. BuildKnows(i, there)
    BY <1>1 DEF JobKnows, BuildKnows
  <1>5. ListKnown(i)
    BY <1>1 DEF ListKnown
  <1>6. QED
    BY <1>1, <1>3, <1>4, <1>5 DEF JobKnows, i

LEMMA InitializedStep ==
    ASSUME IInv, NEW k \in Job, Initialized(k), UNCHANGED <<asserts, born, chain, stored>>
    PROVE  IInv'
  <1> DEFINE j == [job[k] EXCEPT !.pc = "done", !.ok = TRUE]
  <1>1. job[k] \in JobType /\ JobKnows(job[k], asserts, born) /\ job[k].goal = "initialize"
    BY TypeOfJob DEF Initialized
  <1>2. job[k].op # "remove" /\ job[k].op # "build"
    BY <1>1, LibraryAssumption DEF JobKnows, TrustKnows, BuildKnows
  <1>3. j \in JobType /\ JobKnows(j, asserts, born)
    BY <1>1, <1>2, EndsKnows
  <1>4. job' = [job EXCEPT ![k] = j]
        /\ UNCHANGED <<moduleVars, uriVars, adding, asserts, born, chain, stored>>
    BY DEF Initialized
  <1>5. QED
    BY <1>3, <1>4, QuietMove

-----------------------------------------------------------------------------
(* What the program does in the main loop.                                 *)

LEMMA OnceAppend ==
    ASSUME NEW list \in Seq(Module), NEW m \in Extra, Once(list)
    PROVE  /\ Append(list, m) \in Seq(Module) /\ Once(Append(list, m))
           /\ NoneOf(list) => NoneOf(Append(list, m))
  <1> DEFINE all == Append(list, m)
  <1>1. m \in Module /\ m \notin Range(Registered)
    BY LibraryAssumption
  <1>2. /\ all \in Seq(Module) /\ Len(all) = Len(list) + 1 /\ Len(list) \in Nat
        /\ DOMAIN all = 1 .. Len(all) /\ DOMAIN list = 1 .. Len(list)
    BY <1>1
  <1>3. \A i \in 1 .. Len(all) : IF i <= Len(list) THEN all[i] = list[i] ELSE all[i] = m
    BY <1>1, <1>2
  <1>4. NoneOf(list) => NoneOf(all)
    BY <1>1, RangeAppend DEF NoneOf
  <1> HIDE DEF all
  <1>5. Once(all)
    BY <1>1, <1>2, <1>3 DEF Once
  <1>6. QED
    BY <1>2, <1>4, <1>5 DEF all

LEMMA OnceSingle ==
    ASSUME NEW m \in Extra
    PROVE  <<m>> \in Seq(Module) /\ Once(<<m>>)
  <1>1. m \in Module
    BY LibraryAssumption
  <1>2. QED
    BY <1>1 DEF Once

LEMMA ProgramStep ==
    ASSUME IInv, ProgramSetsUp, UNCHANGED <<asserts, born, chain, stored>>
    PROVE  IInv'
  <1>1. job' = job
    BY DEF ProgramSetsUp, AddModule, SetModules, ModuleAdded, SetTrustStoreUri,
           SetTrustLookupUris
  <1>2. JobsKnown' /\ AssertsKnown' /\ ChainKnown'
    BY <1>1 DEF IInv, JobsKnown, AssertsKnown, ChainKnown
  <1>3. Extra \subseteq Module /\ OtherUri \subseteq Uri
    BY LibraryAssumption
  <1>4. ASSUME NEW m \in Extra, AddModule(m) PROVE ModulesKnown' /\ UrisKnown'
    <2>1. /\ adding' = [module |-> m, list |-> modules]
          /\ UNCHANGED <<modules, initializedModules, storeUri, lookupUris>>
      BY <1>4 DEF AddModule, moduleVars, uriVars
    <2>2. adding' \in [module : Extra, list : Seq(Module)] /\ adding'.list = modules
      BY <2>1 DEF IInv, ModulesKnown
    <2>3. QED
      BY <2>1, <2>2 DEF IInv, ModulesKnown, UrisKnown
  <1>5. ASSUME NEW m \in Extra, SetModules(<<m>>) PROVE ModulesKnown' /\ UrisKnown'
    BY <1>5, OnceSingle DEF SetModules, IInv, ModulesKnown, UrisKnown, uriVars
  <1>6. CASE ModuleAdded
    <2>1. adding \in [module : Extra, list : Seq(Module)]
      BY <1>6 DEF ModuleAdded, IInv, ModulesKnown
    <2>2. adding.list \in Seq(Module) /\ adding.module \in Extra
      BY <2>1
    <2>3. Once(adding.list) /\ (~initializedModules => NoneOf(adding.list))
      BY DEF IInv, ModulesKnown
    <2>4. /\ modules' \in Seq(Module) /\ Once(modules')
          /\ ~initializedModules => NoneOf(modules')
      BY <1>6, <2>2, <2>3, OnceAppend DEF ModuleAdded
    <2>5. /\ adding' = NotAdding /\ adding'.list = << >>
          /\ UNCHANGED <<initializedModules, storeUri, lookupUris>>
      BY <1>6 DEF ModuleAdded, NotAdding, uriVars
    <2>6. Once(<< >>) /\ NoneOf(<< >>)
      BY DEF Once, NoneOf, Range
    <2>7. ModulesKnown' /\ UrisKnown'
      BY <2>4, <2>5, <2>6 DEF IInv, ModulesKnown, UrisKnown
    <2>8. QED
      BY <1>2, <2>7 DEF IInv
  <1>7. ASSUME NEW uri \in OtherUri, SetTrustStoreUri(uri) \/ SetTrustLookupUris(<<uri>>)
        PROVE  ModulesKnown' /\ UrisKnown'
    <2>1. ModulesKnown'
      BY <1>7 DEF SetTrustStoreUri, SetTrustLookupUris, IInv, ModulesKnown, moduleVars
    <2>2. uri \in Uri /\ <<uri>> \in Seq(Uri)
      BY <1>3
    <2>3. UrisKnown'
      BY <1>7, <2>2 DEF SetTrustStoreUri, SetTrustLookupUris, IInv, UrisKnown
    <2>4. QED
      BY <2>1, <2>3
  <1>8. QED
    BY <1>2, <1>4, <1>5, <1>6, <1>7 DEF ProgramSetsUp, IInv

-----------------------------------------------------------------------------
(* The slots that are searched.                                            *)

LEMMA OptionsType ==
    ASSUME NEW option \in {StoreOption, LookupOption}, NEW list \in Seq(Module)
    PROVE  Options(option, list) \in Seq(Uri)
  <1> DEFINE all == [i \in DOMAIN list |-> option[list[i]]]
             X == Uri \union {None}
  <1>1. option \in [Module -> X]
    BY LibraryAssumption
  <1>2. all \in Seq(X)
    BY <1>1
  <1>3. Kept(all, Configured) \in Seq(X) /\ Range(Kept(all, Configured)) \subseteq Configured
    <2> HIDE DEF all, X
    <2>1. QED
      BY <1>2, KeptKeeps
  <1>4. Configured \subseteq Uri
    BY LibraryAssumption DEF Configured, Range
  <1> HIDE DEF all
  <1>5. \A i \in 1 .. Len(Kept(all, Configured)) : Kept(all, Configured)[i] \in Uri
    BY <1>3, <1>4, RangeOf
  <1>6. Kept(all, Configured) \in Seq(Uri)
    BY <1>3, <1>5
  <1>7. QED
    BY <1>6 DEF Options, all

LEMMA MatchingType ==
    ASSUME NEW uri \in Uri, NEW list \in Seq(Module)
    PROVE  Matching(uri, list) \in Seq(Slot)
  <1> DEFINE parts == [i \in DOMAIN list |-> SlotsMatching[list[i]][uri]]
  <1>1. \A m \in Module : SlotsMatching[m][uri] \in Seq(Slot)
    <2>1. \A m \in Module : SlotsOf[m] \in Seq(Slot)
      BY LibraryAssumption
    <2>2. \A m \in Module : Kept(SlotsOf[m], uri) \in Seq(Slot)
      BY <2>1, KeptKeeps
    <2>3. \A m \in Module : SlotsMatching[m][uri] = Kept(SlotsOf[m], uri)
      BY DEF SlotsMatching
    <2>4. QED
      BY <2>2, <2>3
  <1>2. parts \in Seq(Seq(Slot))
    <2>1. \A i \in DOMAIN list : SlotsMatching[list[i]][uri] \in Seq(Slot)
      BY <1>1
    <2>2. QED
      BY <2>1
  <1>3. QED
    BY <1>2, FlattenSeqType DEF Matching

LEMMA LookupSlotsType ==
    ASSUME NEW uris \in Seq(Uri), modules \in Seq(Module)
    PROVE  TrustLookupSlots(uris) \in Seq(Slot)
  <1> DEFINE parts == [i \in DOMAIN uris |-> TokensForUri(uris[i], modules)]
  <1>1. \A uri \in Uri : TokensForUri(uri, modules) \in Seq(Slot)
    BY MatchingType, RangeReverse DEF TokensForUri
  <1>2. parts \in Seq(Seq(Slot))
    <2>1. \A i \in DOMAIN uris : TokensForUri(uris[i], modules) \in Seq(Slot)
      BY <1>1
    <2>2. QED
      BY SMTT(30), <2>1
  <1>3. QED
    BY <1>2, FlattenSeqType DEF TrustLookupSlots

LEMMA UrisInitialized ==
    ASSUME IInv, InitializeUris
    PROVE  UrisKnown'
  <1>1. CASE initializedUris
    BY <1>1 DEF InitializeUris, IInv, UrisKnown, uriVars
  <1>2. CASE ~initializedUris
    <2>1. modules \in Seq(Module)
      BY DEF IInv, ModulesKnown
    <2>2. Options(StoreOption, modules) \in Seq(Uri) /\ Options(LookupOption, modules) \in Seq(Uri)
      BY <2>1, OptionsType
    <2>3. storeUri' \in Uri \union {None} /\ lookupUris' \in Seq(Uri)
      BY <1>2, <2>2 DEF InitializeUris
    <2>4. QED
      BY <2>3 DEF UrisKnown
  <1>3. QED
    BY <1>1, <1>2

-----------------------------------------------------------------------------
(* Steps of a call on trust assertions.                                    *)

\* What a search knows when it goes on with what it has found.
LEMMA SearchingKnows ==
    ASSUME NEW j \in JobType, NEW s \in JobType, NEW there, NEW n,
           JobKnows(j, there, n), j.goal \in TrustGoal, j.pc \in {"ready", "search"},
           s.pc \in {"search", "found"}, s.goal = j.goal, s.op = j.op,
           s.cert = j.cert, s.peer = j.peer, s.given = j.given, s.certs = j.certs,
           s.input = j.input, s.status = j.status,
           \A o \in s.before : o.id <= n, SearchKnows(s, there)
    PROVE  JobKnows(s, there, n)
  <1>1. TrustKnows(s, there, n)
    BY DEF JobKnows, TrustKnows
  <1>2. LookupKnows(s) = LookupKnows(j) /\ PathKnown(s) = PathKnown(j)
    BY DEF LookupKnows, PathKnown, TrustGoal
  <1>3. ResultKnows(s, there)
    BY DEF ResultKnows
  <1>4. j.goal # None
    BY LibraryAssumption DEF TrustGoal
  <1>5. j.op = "build" => j.given # << >>
    BY DEF JobKnows, BuildKnows
  <1>6. BuildKnows(s, there)
    BY <1>2, <1>3, <1>4, <1>5 DEF JobKnows, BuildKnows
  <1>7. QED
    BY <1>1, <1>6 DEF JobKnows, ListKnown

\* The assertions of a certificate for a peer in a set of slots are listed.
LEMMA FoundLists ==
    ASSUME asserts \subseteq AssertionType, IsFiniteSet(asserts), NEW c, NEW p, NEW slots
    PROVE  /\ FoundIn(c, p, slots) \subseteq asserts /\ IsFiniteSet(FoundIn(c, p, slots))
           /\ \A part \in SUBSET FoundIn(c, p, slots) :
                 /\ SetToSeq(part) \in Seq(AssertionType)
                 /\ Range(SetToSeq(part)) = part
  <1>1. FoundIn(c, p, slots) \subseteq asserts
    BY DEF FoundIn, Of
  <1>2. \A part \in SUBSET FoundIn(c, p, slots) : IsFiniteSet(part)
    BY <1>1, FS_Subset
  <1>3. ASSUME NEW part \in SUBSET FoundIn(c, p, slots)
        PROVE  SetToSeq(part) \in Seq(AssertionType) /\ Range(SetToSeq(part)) = part
    <2>1. SetToSeq(part) \in Seq(part) /\ Range(SetToSeq(part)) = part
      BY <1>2, SetToSeqLists
    <2>2. part \subseteq AssertionType
      BY <1>1
    <2>3. QED
      BY <2>1, <2>2, SeqMonotonic
  <1>4. QED
    BY <1>1, <1>2, <1>3

LEMMA AskSlotsStep ==
    ASSUME IInv, NEW k \in Job, AskSlots(k), UNCHANGED <<chain, stored>>
    PROVE  IInv'
  <1> DEFINE j == job[k]
  <1>1. /\ j \in JobType /\ JobKnows(j, asserts, born) /\ asserts \subseteq AssertionType
        /\ IsFiniteSet(asserts) /\ born \in Nat
    BY TypeOfJob
  <1>2. j.pc = "ready" /\ j.goal \in TrustGoal
    BY DEF AskSlots
  <1>3. UrisKnown'
    BY UrisInitialized DEF AskSlots
  <1>4. PICK slots \in {TrustLookupSlots(lookupUris')} :
            job' = [job EXCEPT ![k] = [Searched(j, slots, << >>) EXCEPT
                                          !.before = FoundIn(j.cert, j.peer, Range(slots))]]
    BY DEF AskSlots
  <1>5. slots \in Seq(Slot)
    BY <1>3, LookupSlotsType DEF IInv, ModulesKnown, UrisKnown
  <1> DEFINE s == Searched(j, slots, << >>)
             f == FoundIn(j.cert, j.peer, Range(slots))
             i == [s EXCEPT !.before = f]
  <1>6. << >> \in Seq(AssertionType) /\ Range(<< >>) = {}
    BY RangeEmpty
  <1>7. /\ s \in JobType /\ s.slots = slots /\ s.list = << >>
        /\ s.pc = IF slots = << >> THEN "found" ELSE "search"
        /\ s.op = j.op /\ s.goal = j.goal /\ s.cert = j.cert /\ s.peer = j.peer
        /\ s.given = j.given /\ s.certs = j.certs /\ s.input = j.input /\ s.status = j.status
    <2> HIDE DEF j
    <2> DEFINE none == << >>
    <2>1. none \in Seq(AssertionType)
      BY <1>6
    <2> HIDE DEF none
    <2> DEFINE t == Searched(j, slots, none)
    <2>2. /\ t \in JobType /\ t.slots = slots /\ t.list = none
          /\ t.pc = IF slots = << >> \/ (none # << >> /\ j.goal # "remove")
                    THEN "found" ELSE "search"
          /\ t.op = j.op /\ t.goal = j.goal /\ t.cert = j.cert /\ t.peer = j.peer
          /\ t.given = j.given /\ t.certs = j.certs /\ t.input = j.input
          /\ t.status = j.status
      BY <1>1, <1>5, <2>1, SearchedFields
    <2>3. t = s
      BY DEF none
    <2> HIDE DEF t, s
    <2>4. QED
      BY <2>2, <2>3 DEF none
  <1>8. f \subseteq asserts
    BY <1>1, FoundLists
  <1>9. \A o \in f : o.cert = j.cert /\ o.peer = j.peer /\ o.slot \in Range(slots) /\ o.id <= born
    BY <1>8 DEF FoundIn, Of, IInv, AssertsKnown
  <1> HIDE DEF s, f
  <1>10. /\ i \in JobType /\ i.slots = slots /\ i.list = << >> /\ i.before = f
         /\ i.pc = s.pc /\ i.op = j.op /\ i.goal = j.goal /\ i.cert = j.cert /\ i.peer = j.peer
         /\ i.given = j.given /\ i.certs = j.certs /\ i.input = j.input /\ i.status = j.status
    BY <1>1, <1>7, <1>8 DEF JobType
  <1>11. job' = [job EXCEPT ![k] = i]
    BY <1>4 DEF s, f
  <1> HIDE DEF i
  <1>12. SearchKnows(i, asserts)
    <2>1. Sought(i) \subseteq f
      BY <1>10 DEF Sought
    <2>2. QED
      BY <1>6, <1>7, <1>9, <1>10, <2>1 DEF SearchKnows
  <1>13. JobKnows(i, asserts, born)
    <2>1. i.pc \in {"search", "found"} /\ \A o \in i.before : o.id <= born
      BY <1>7, <1>9, <1>10
    <2> HIDE DEF j
    <2>2. QED
      BY <1>1, <1>2, <1>10, <1>12, <2>1, SearchingKnows
  <1>14. JobsKnown'
    BY <1>10, <1>11, <1>13, JobMoves DEF IInv, AskSlots
  <1>15. ModulesKnown' /\ AssertsKnown' /\ ChainKnown'
    BY DEF IInv, ModulesKnown, AssertsKnown, ChainKnown, AskSlots, moduleVars
  <1>16. QED
    BY <1>3, <1>14, <1>15 DEF IInv

\* What a search has found in the next slot is behind what it had; it may leave some out
\* if it says so.
LEMMA SearchOn ==
    ASSUME IInv, NEW k \in Job, job[k].pc = "search",
           NEW part \in SUBSET FoundIn(job[k].cert, job[k].peer, {Head(job[k].slots)}),
           NEW skipped \in {job[k].skipped, job[k].skipped \union {Head(job[k].slots)}},
           part = FoundIn(job[k].cert, job[k].peer, {Head(job[k].slots)})
              \/ skipped = job[k].skipped \union {Head(job[k].slots)},
           NEW i \in JobType,
           i.slots = Tail(job[k].slots), i.list = job[k].list \o SetToSeq(part),
           i.skipped = skipped, i.before = job[k].before,
           i.pc = (IF i.slots = << >> \/ (i.list # << >> /\ job[k].goal # "remove")
                   THEN "found" ELSE "search"),
           i.op = job[k].op, i.goal = job[k].goal, i.cert = job[k].cert, i.peer = job[k].peer,
           i.given = job[k].given, i.certs = job[k].certs, i.input = job[k].input,
           i.status = job[k].status
    PROVE  JobKnows(i, asserts, born)
  <1> DEFINE j == job[k]
             found == FoundIn(j.cert, j.peer, {Head(j.slots)})
  <1>1. /\ j \in JobType /\ JobKnows(j, asserts, born) /\ asserts \subseteq AssertionType
        /\ IsFiniteSet(asserts) /\ born \in Nat
    BY TypeOfJob
  <1>2. SearchKnows(j, asserts) /\ j.goal \in TrustGoal /\ \A o \in j.before : o.id <= born
    BY <1>1 DEF JobKnows, TrustKnows
  <1>3. j.list \in Seq(AssertionType) /\ j.slots # << >> /\ j.slots \in Seq(Slot)
    BY <1>1, <1>2 DEF SearchKnows, JobType
  <1>4. Range(j.slots) = {Head(j.slots)} \union Range(i.slots)
    BY <1>3, RangeHeadTail
  <1>5. SetToSeq(part) \in Seq(AssertionType) /\ Range(SetToSeq(part)) = part
    BY <1>1, FoundLists
  <1>6. i.list \in Seq(AssertionType) /\ Range(i.list) = Range(j.list) \union part
    BY <1>3, <1>5, RangeConcatenation
  <1>7. /\ part \subseteq found /\ found \subseteq asserts
        /\ \A o \in found : o.cert = j.cert /\ o.peer = j.peer
        /\ \A o \in asserts : o.cert = j.cert /\ o.peer = j.peer /\ o.slot = Head(j.slots)
              => o \in found
    BY DEF FoundIn, Of
  <1>8. Sought(i) \subseteq Sought(j) /\ \A o \in Sought(i) : o.slot \notin i.skipped
    BY DEF Sought
  <1> HIDE DEF j, found
  <1>9. \A o \in Range(i.list) :
            o.cert = i.cert /\ o.peer = i.peer /\ (o.peer = None => o \in asserts)
    BY <1>2, <1>6, <1>7 DEF SearchKnows, j
  <1>10. \A o \in Sought(i) : o \in asserts => o \in Range(i.list) \/ o.slot \in Range(i.slots)
    <2> SUFFICES ASSUME NEW o \in Sought(i), o \in asserts, o \notin Range(i.list)
                 PROVE  o.slot \in Range(i.slots)
      OBVIOUS
    <2>1. o.slot \in Range(j.slots)
      BY <1>2, <1>6, <1>8 DEF SearchKnows
    <2>2. CASE o.slot = Head(j.slots)
      <3>1. o.slot \notin i.skipped
        BY <1>8
      <3>2. part = found
        BY <2>2, <3>1 DEF found, j
      <3>3. o.cert = j.cert /\ o.peer = j.peer
        BY <1>2, <1>8 DEF SearchKnows, Sought
      <3>4. QED
        BY <1>6, <1>7, <2>2, <3>2, <3>3
    <2>3. QED
      BY <1>4, <2>1, <2>2
  <1>11. SearchKnows(i, asserts)
    BY <1>2, <1>6, <1>9, <1>10 DEF SearchKnows, j
  <1>12. QED
    BY <1>1, <1>2, <1>11, SearchingKnows DEF j

LEMMA SearchStep ==
    ASSUME IInv, NEW k \in Job, Search(k), UNCHANGED <<chain, stored>>
    PROVE  IInv'
  <1> DEFINE j == job[k]
             slot == Head(j.slots)
             found == FoundIn(j.cert, j.peer, {slot})
             rest == Tail(j.slots)
             Next_(part) == Searched(j, rest, j.list \o SetToSeq(part))
  <1>1. /\ j \in JobType /\ JobKnows(j, asserts, born) /\ asserts \subseteq AssertionType
        /\ IsFiniteSet(asserts) /\ born \in Nat
    BY TypeOfJob
  <1>2. j.pc = "search" /\ UNCHANGED <<moduleVars, uriVars, adding, asserts, born, chain, stored>>
    BY DEF Search
  <1>3. SearchKnows(j, asserts)
    BY <1>1, <1>2 DEF JobKnows, TrustKnows
  <1>4. rest \in Seq(Slot) /\ slot \in Slot /\ j.list \in Seq(AssertionType)
        /\ j.skipped \subseteq Slot
    <2>1. j.slots \in Seq(Slot) /\ j.slots # << >> /\ j.list \in Seq(AssertionType)
          /\ j.skipped \subseteq Slot
      BY <1>1, <1>2, <1>3 DEF SearchKnows, JobType
    <2>2. QED
      BY <2>1, HeadTailProperties
  <1>5. ASSUME NEW part \in SUBSET found
        PROVE  LET s == Next_(part)
               IN  /\ s \in JobType
                   /\ s.slots = rest /\ s.list = j.list \o SetToSeq(part)
                   /\ s.pc = IF rest = << >> \/ (s.list # << >> /\ j.goal # "remove")
                             THEN "found" ELSE "search"
                   /\ s.op = j.op /\ s.goal = j.goal /\ s.cert = j.cert /\ s.peer = j.peer
                   /\ s.before = j.before /\ s.skipped = j.skipped /\ s.given = j.given
                   /\ s.certs = j.certs /\ s.input = j.input /\ s.status = j.status
    <2> DEFINE list == j.list \o SetToSeq(part)
    <2>1. SetToSeq(part) \in Seq(AssertionType)
      BY <1>1, FoundLists
    <2>2. list \in Seq(AssertionType)
      BY <1>4, <2>1
    <2> HIDE DEF j, rest, list
    <2> DEFINE s == Searched(j, rest, list)
    <2>3. /\ s \in JobType /\ s.slots = rest /\ s.list = list
          /\ s.pc = IF rest = << >> \/ (list # << >> /\ j.goal # "remove")
                    THEN "found" ELSE "search"
          /\ s.op = j.op /\ s.goal = j.goal /\ s.cert = j.cert /\ s.peer = j.peer
          /\ s.before = j.before /\ s.skipped = j.skipped /\ s.given = j.given
          /\ s.certs = j.certs /\ s.input = j.input /\ s.status = j.status
      BY <1>1, <1>4, <2>2, SearchedFields
    <2>4. s = Next_(part)
      BY DEF list
    <2> HIDE DEF s
    <2>5. QED
      BY <2>3, <2>4 DEF list
  <1>6. CASE job' = [job EXCEPT ![k] = Next_(found)]
    <2> DEFINE i == Next_(found)
    <2>1. /\ i \in JobType
          /\ i.slots = rest /\ i.list = j.list \o SetToSeq(found)
          /\ i.pc = IF i.slots = << >> \/ (i.list # << >> /\ j.goal # "remove")
                    THEN "found" ELSE "search"
          /\ i.op = j.op /\ i.goal = j.goal /\ i.cert = j.cert /\ i.peer = j.peer
          /\ i.before = j.before /\ i.skipped = j.skipped /\ i.given = j.given
          /\ i.certs = j.certs /\ i.input = j.input /\ i.status = j.status
      BY <1>5
    <2> HIDE DEF i
    <2>2. JobKnows(i, asserts, born)
      BY <1>2, <2>1, SearchOn
    <2>3. job' = [job EXCEPT ![k] = i]
      BY <1>6 DEF i
    <2>4. QED
      BY <1>2, <2>1, <2>2, <2>3, QuietMove
  <1>7. ASSUME NEW part \in SUBSET found,
               job' = [job EXCEPT ![k] = [Next_(part) EXCEPT !.skipped = @ \union {slot}]]
        PROVE  IInv'
    <2> DEFINE s == Next_(part)
               i == [s EXCEPT !.skipped = @ \union {slot}]
    <2>1. /\ s \in JobType
          /\ s.slots = rest /\ s.list = j.list \o SetToSeq(part)
          /\ s.pc = IF s.slots = << >> \/ (s.list # << >> /\ j.goal # "remove")
                    THEN "found" ELSE "search"
          /\ s.op = j.op /\ s.goal = j.goal /\ s.cert = j.cert /\ s.peer = j.peer
          /\ s.before = j.before /\ s.skipped = j.skipped /\ s.given = j.given
          /\ s.certs = j.certs /\ s.input = j.input /\ s.status = j.status
      BY <1>5
    <2> HIDE DEF s
    <2>2. s.skipped \union {slot} \in SUBSET Slot
      BY <1>4, <2>1
    <2>3. /\ i \in JobType /\ i.skipped = s.skipped \union {slot}
          /\ i.slots = s.slots /\ i.list = s.list /\ i.pc = s.pc
          /\ i.op = s.op /\ i.goal = s.goal /\ i.cert = s.cert /\ i.peer = s.peer
          /\ i.before = s.before /\ i.given = s.given
          /\ i.certs = s.certs /\ i.input = s.input /\ i.status = s.status
      BY <2>1, <2>2 DEF JobType
    <2>4. job' = [job EXCEPT ![k] = i]
      BY <1>7 DEF s
    <2> HIDE DEF i
    <2>5. JobKnows(i, asserts, born)
      BY <1>2, <2>1, <2>3, SearchOn
    <2>6. QED
      BY <1>2, <2>3, <2>4, <2>5, QuietMove
  <1>8. CASE Failed(k)
    <2>1. j.pc \in Pc \ {"idle", "done"}
      BY <1>2 DEF Pc
    <2>2. QED
      BY <1>2, <1>8, <2>1, FailedStep
  <1>9. QED
    BY <1>6, <1>7, <1>8 DEF Search

LEMMA AddExistingStep ==
    ASSUME IInv, NEW k \in Job, AddExisting(k), UNCHANGED <<chain, stored>>
    PROVE  IInv'
  <1> DEFINE j == [job[k] EXCEPT !.pc = "done", !.ok = TRUE]
  <1>1. job[k] \in JobType /\ JobKnows(job[k], asserts, born) /\ job[k].goal = "add"
    BY TypeOfJob DEF AddExisting
  <1>2. job[k].op # "remove" /\ job[k].op # "build"
    BY <1>1 DEF JobKnows, TrustKnows
  <1>3. j \in JobType /\ JobKnows(j, asserts, born)
    BY <1>1, <1>2, EndsKnows
  <1>4. job' = [job EXCEPT ![k] = j]
        /\ UNCHANGED <<moduleVars, uriVars, adding, asserts, born, chain, stored>>
    BY DEF AddExisting
  <1>5. QED
    BY <1>3, <1>4, QuietMove

LEMMA RemovedStep ==
    ASSUME IInv, NEW k \in Job, Removed(k), UNCHANGED <<chain, stored>>
    PROVE  IInv'
  <1> DEFINE j == [job[k] EXCEPT !.pc = "done", !.ok = TRUE]
  <1>1. /\ job[k] \in JobType /\ JobKnows(job[k], asserts, born)
        /\ job[k].goal = "remove" /\ job[k].pc = "found" /\ job[k].list = << >>
    BY TypeOfJob DEF Removed
  <1>2. SearchKnows(job[k], asserts) /\ job[k].op # "build"
    BY <1>1 DEF JobKnows, TrustKnows
  <1>3. Range(job[k].list) = {} /\ Range(job[k].slots) = {}
    BY <1>1, <1>2, RangeEmpty DEF SearchKnows
  <1>4. Sought(job[k]) \cap asserts = {}
    BY <1>2, <1>3 DEF SearchKnows
  <1>5. j \in JobType /\ JobKnows(j, asserts, born)
    BY <1>1, <1>2, <1>4, EndsKnows
  <1>6. job' = [job EXCEPT ![k] = j]
        /\ UNCHANGED <<moduleVars, uriVars, adding, asserts, born, chain, stored>>
    BY DEF Removed
  <1>7. QED
    BY <1>5, <1>6, QuietMove

\* A call goes on as j, and assertions come or go; anchors stay, and what comes is new.
LEMMA AssertsChange ==
    ASSUME IInv, NEW k \in Job, NEW j \in JobType, JobKnows(j, asserts', born'),
           job' = [job EXCEPT ![k] = j], ModulesKnown', UrisKnown', AssertsKnown',
           born <= born',
           \A o \in asserts' : o \in asserts \/ ~(o.id <= born),
           \A o \in asserts : o.peer = None => o \in asserts',
           UNCHANGED <<chain, stored>>
    PROVE  IInv'
  <1>1. job' \in [Job -> JobType] /\ job'[k] = j /\ \A d \in Job : d # k => job'[d] = job[d]
    BY DEF IInv, JobsKnown
  <1>2. born \in Nat /\ born' \in Nat
    BY DEF IInv, AssertsKnown
  <1>3. \A d \in Job : job[d] \in JobType /\ JobKnows(job[d], asserts, born)
    BY TypeOfJob
  <1>4. \A d \in Job : JobKnows(job[d], asserts', born')
    BY <1>2, <1>3, KnowsStays
  <1>5. \A d \in Job : JobKnows(job'[d], asserts', born')
    BY <1>1, <1>4
  <1>6. JobsKnown'
    BY <1>1, <1>5 DEF JobsKnown
  <1>7. Fits(chain.certs, chain.status, asserts) => Fits(chain.certs, chain.status, asserts')
    BY DEF Fits
  <1>8. ChainKnown'
    BY <1>7 DEF IInv, ChainKnown
  <1>9. QED
    BY <1>6, <1>8 DEF IInv

LEMMA StoreSlotType ==
    ASSUME NEW uri \in Uri \union {None}, NEW list \in Seq(Module)
    PROVE  TokenForUri(uri, list) \in Slot \union {None}
  <1>1. CASE uri = None
    BY <1>1 DEF TokenForUri
  <1>2. CASE uri # None
    <2>1. Matching(uri, list) \in Seq(Slot)
      BY <1>2, MatchingType
    <2>2. Matching(uri, list) # << >> => Head(Matching(uri, list)) \in Slot
      BY <2>1, HeadTailProperties
    <2>3. QED
      BY <1>2, <2>2 DEF TokenForUri
  <1>3. QED
    BY <1>1, <1>2

LEMMA AddMissingStep ==
    ASSUME IInv, NEW k \in Job, AddMissing(k), UNCHANGED <<chain, stored>>
    PROVE  IInv'
  <1> DEFINE slot == TokenForUri(storeUri', modules)
             new == Assertion(born + 1, job[k].cert, job[k].peer, slot)
  <1>1. /\ job[k] \in JobType /\ JobKnows(job[k], asserts, born)
        /\ asserts \subseteq AssertionType /\ IsFiniteSet(asserts) /\ born \in Nat
        /\ \A o \in asserts : o.id <= born
    BY TypeOfJob DEF IInv, AssertsKnown
  <1>2. job[k].goal = "add" /\ job[k].pc = "found" /\ InitializeUris
        /\ UNCHANGED <<moduleVars, adding>>
    BY DEF AddMissing
  <1>3. job[k].op = "add" /\ job[k].cert \in Cert /\ job[k].peer \in Peer
    BY <1>1, <1>2 DEF JobKnows, TrustKnows
  <1>4. UrisKnown'
    BY <1>2, UrisInitialized
  <1>5. ModulesKnown'
    BY <1>2 DEF IInv, ModulesKnown, moduleVars
  <1>6. slot \in Slot \union {None}
    BY <1>4, StoreSlotType DEF UrisKnown, IInv, ModulesKnown
  <1> HIDE DEF slot
  <1>7. ASSUME slot # None, asserts' = asserts \union {new}, born' = born + 1,
               job' = [job EXCEPT ![k].pc = "done", ![k].ok = TRUE]
        PROVE  IInv'
    <2>1. new.id = born + 1 /\ new \in AssertionType
      BY <1>1, <1>3, <1>6, <1>7 DEF Assertion, AssertionType
    <2> HIDE DEF new
    <2>2. \A o \in asserts : o.id \in Nat
      BY <1>1 DEF AssertionType
    <2>3. AssertsKnown'
      <3>1. IsFiniteSet(asserts')
        BY <1>1, <1>7, FS_AddElement
      <3>2. \A o \in asserts' : o.id <= born + 1
        BY <1>1, <1>7, <2>1, <2>2
      <3>3. QED
        BY <1>1, <1>7, <2>1, <3>1, <3>2 DEF AssertsKnown
    <2>4. /\ \A o \in asserts' : o \in asserts \/ ~(o.id <= born)
          /\ \A o \in asserts : o \in asserts'
          /\ born <= born' /\ born' \in Nat
      BY <1>1, <1>7, <2>1
    <2>5. JobKnows(job[k], asserts', born')
      BY <1>1, <2>4, KnowsStays
    <2> DEFINE j == [job[k] EXCEPT !.pc = "done", !.ok = TRUE]
    <2>6. j \in JobType /\ JobKnows(j, asserts', born')
      BY <1>1, <1>3, <2>5, EndsKnows
    <2>7. job' = [job EXCEPT ![k] = j]
      BY <1>7
    <2> HIDE DEF j
    <2>8. QED
      BY <1>4, <1>5, <2>3, <2>4, <2>6, <2>7, AssertsChange
  <1>8. ASSUME job' = [job EXCEPT ![k].pc = "done", ![k].ok = FALSE], UNCHANGED <<asserts, born>>
        PROVE  IInv'
    <2> DEFINE j == [job[k] EXCEPT !.pc = "done", !.ok = FALSE]
    <2>1. job[k].pc \in Pc \ {"idle", "done"}
      BY <1>2 DEF Pc
    <2>2. j \in JobType /\ JobKnows(j, asserts, born)
      BY <1>1, <2>1, FailedKnows
    <2>3. job' = [job EXCEPT ![k] = j]
      BY <1>8
    <2>4. JobsKnown'
      BY <1>8, <2>2, <2>3, JobMoves DEF IInv
    <2>5. AssertsKnown' /\ ChainKnown'
      BY <1>8 DEF IInv, AssertsKnown, ChainKnown
    <2>6. QED
      BY <1>4, <1>5, <2>4, <2>5 DEF IInv
  <1>9. QED
    BY <1>7, <1>8 DEF AddMissing, Failed, slot

LEMMA DestroyStep ==
    ASSUME IInv, NEW k \in Job, Destroy(k), UNCHANGED <<chain, stored>>
    PROVE  IInv'
  <1> DEFINE j == job[k]
             o == Head(j.list)
             i == [j EXCEPT !.list = Tail(@)]
  <1>1. /\ j \in JobType /\ JobKnows(j, asserts, born)
        /\ asserts \subseteq AssertionType /\ IsFiniteSet(asserts) /\ born \in Nat
    BY TypeOfJob
  <1>2. /\ j.pc = "found" /\ j.goal = "remove" /\ j.list # << >>
        /\ UNCHANGED <<moduleVars, uriVars, adding, born>>
    BY DEF Destroy
  <1>3. SearchKnows(j, asserts) /\ j.peer \in Peer /\ j.list \in Seq(AssertionType)
    BY <1>1, <1>2 DEF JobKnows, TrustKnows, SearchKnows
  <1>4. Tail(j.list) \in Seq(AssertionType) /\ Range(j.list) = {o} \union Range(Tail(j.list))
    BY <1>2, <1>3, RangeHeadTail
  <1>5. CASE asserts' = asserts \ {o} /\ job' = [job EXCEPT ![k].list = Tail(@)]
    <2>1. Tail(j.list) \in Seq(Module \union AssertionType)
      BY <1>4
    <2>2. /\ i \in JobType /\ i.list = Tail(j.list) /\ i.pc = j.pc /\ i.op = j.op
          /\ i.goal = j.goal /\ i.cert = j.cert /\ i.peer = j.peer /\ i.before = j.before
          /\ i.skipped = j.skipped /\ i.slots = j.slots /\ i.ok = j.ok
      BY <1>1, <2>1 DEF JobType
    <2>3. job' = [job EXCEPT ![k] = i]
      BY <1>5
    <2> HIDE DEF i
    <2>4. o.peer # None
      BY <1>3, <1>4, TrustAssumption DEF SearchKnows
    <2> HIDE DEF o
    <2>5. SearchKnows(i, asserts')
      <3>1. Sought(i) = Sought(j)
        BY <2>2 DEF Sought
      <3>2. j.slots = << >>
        BY <1>2, <1>3 DEF SearchKnows
      <3>3. QED
        BY <1>2, <1>3, <1>4, <1>5, <2>2, <2>4, <3>1, <3>2 DEF SearchKnows
    <2>6. JobKnows(i, asserts', born')
      <3>1. TrustKnows(i, asserts', born')
        BY <1>1, <1>2, <2>2, <2>5 DEF JobKnows, TrustKnows
      <3>2. BuildKnows(i, asserts') /\ ListKnown(i)
        BY <1>1, <1>2, <2>2, LibraryAssumption DEF JobKnows, TrustKnows, BuildKnows, ListKnown
      <3>3. QED
        BY <3>1, <3>2 DEF JobKnows
    <2>7. ModulesKnown' /\ UrisKnown'
      BY <1>2 DEF IInv, ModulesKnown, UrisKnown, moduleVars, uriVars
    <2>8. AssertsKnown'
      <3>1. IsFiniteSet(asserts')
        BY <1>1, <1>5, FS_Subset
      <3>2. QED
        BY <1>2, <1>5, <3>1 DEF IInv, AssertsKnown
    <2>9. /\ born <= born'
          /\ \A a \in asserts' : a \in asserts
          /\ \A a \in asserts : a.peer = None => a \in asserts'
      BY <1>1, <1>2, <1>5, <2>4
    <2>10. QED
      BY <2>2, <2>3, <2>6, <2>7, <2>8, <2>9, AssertsChange
  <1>6. CASE Failed(k) /\ UNCHANGED asserts
    <2>1. j.pc \in Pc \ {"idle", "done"}
      BY <1>2 DEF Pc
    <2>2. QED
      BY <1>2, <1>6, <2>1, FailedStep
  <1>7. QED
    BY <1>5, <1>6 DEF Destroy, GoesOn

-----------------------------------------------------------------------------
(* Steps of a build.                                                       *)

\* What is left when one is removed: all but that one.
LEMMA RemovedLeaves ==
    ASSUME NEW X, NEW s \in Seq(X), NEW i \in 1 .. Len(s)
    PROVE  /\ RemoveIndexFast(s, i) \in Seq(X)
           /\ Range(RemoveIndexFast(s, i)) \subseteq Range(s)
           /\ Range(s) \subseteq {s[i]} \union Range(RemoveIndexFast(s, i))
  <1> DEFINE n == Len(s)
             rest == RemoveIndexFast(s, i)
  <1>1. n \in Nat \ {0}
    OBVIOUS
  <1>2. /\ rest \in Seq(X) /\ Len(rest) = n - 1
        /\ \A l \in 1 .. n - 1 : rest[l] = IF l = i THEN s[n] ELSE s[l]
    <2>1. CASE i = n
      BY <1>1, <2>1 DEF RemoveIndexFast
    <2>2. CASE i # n
      <3> DEFINE t == [s EXCEPT ![i] = s[Len(s)]]
      <3>1. /\ t \in Seq(X) /\ Len(t) = n
            /\ \A l \in 1 .. n : t[l] = IF l = i THEN s[n] ELSE s[l]
        BY <1>1
      <3> HIDE DEF t
      <3> DEFINE u == SubSeq(t, 1, n - 1)
      <3>2. u \in Seq(X) /\ Len(u) = n - 1 /\ \A l \in 1 .. n - 1 : u[l] = t[l]
        BY <1>1, <3>1
      <3>3. rest = u
        BY <2>2 DEF RemoveIndexFast, t
      <3> HIDE DEF u, rest
      <3>4. \A l \in 1 .. n - 1 : l \in 1 .. n
        BY <1>1
      <3>5. QED
        BY <3>1, <3>2, <3>3, <3>4
    <2>3. QED
      BY <2>1, <2>2
  <1> HIDE DEF rest
  <1>3. Range(rest) = {rest[l] : l \in 1 .. n - 1} /\ Range(s) = {s[l] : l \in 1 .. n}
    BY <1>2, RangeOf
  <1>4. /\ n \in 1 .. n /\ \A l \in 1 .. n - 1 : l \in 1 .. n
        /\ i # n => i \in 1 .. n - 1
        /\ \A l \in 1 .. n : l = n \/ l \in 1 .. n - 1
    BY <1>1
  <1>5. Range(rest) \subseteq Range(s)
    BY <1>2, <1>3, <1>4
  <1>6. ASSUME NEW l \in 1 .. n PROVE s[l] = s[i] \/ s[l] \in Range(rest)
    <2>1. CASE l = i
      BY <2>1
    <2>2. CASE l # i /\ l # n
      BY <1>2, <1>3, <1>4, <2>2
    <2>3. CASE l # i /\ l = n
      <3>1. rest[i] = s[n] /\ i \in 1 .. n - 1
        BY <1>2, <1>4, <2>3
      <3>2. QED
        BY <1>3, <2>3, <3>1
    <2>4. QED
      BY <2>1, <2>2, <2>3
  <1>7. QED
    BY <1>2, <1>3, <1>5, <1>6 DEF rest

\* The issuer that is taken from what is left, if there is one.
LEMMA IssuerIsThere ==
    ASSUME NEW input \in Seq(Cert), NEW c
    PROVE  LET i == PlaceOfIssuer(input, c)
           IN  /\ i = 0 \/ (i \in 1 .. Len(input) /\ IsIssuer(c, input[i]))
               /\ i = 0 => NoIssuerIn(input, c)
  <1> DEFINE I == {i \in 1 .. Len(input) : IsIssuer(c, input[i])}
  <1>1. PlaceOfIssuer(input, c) = IF I # {} THEN Min(I) ELSE 0
    BY DEF PlaceOfIssuer, SelectInSeq
  <1>2. CASE I # {}
    <2>1. I \subseteq Nat
      OBVIOUS
    <2>2. \E x \in I : \A y \in I : x <= y
      BY <1>2, <2>1, LeastNumber
    <2> HIDE DEF I
    <2>3. Min(I) \in I
      BY <2>2 DEF Min
    <2>4. PlaceOfIssuer(input, c) \in I
      BY <1>1, <1>2, <2>3
    <2>5. PlaceOfIssuer(input, c) # 0
      BY <2>4 DEF I
    <2>6. QED
      BY <2>4, <2>5 DEF I
  <1>3. CASE I = {}
    <2>1. PlaceOfIssuer(input, c) = 0
      BY <1>1, <1>3
    <2>2. NoIssuerIn(input, c)
      BY <1>3, RangeOf DEF NoIssuerIn
    <2>3. QED
      BY <2>1, <2>2
  <1>4. QED
    BY <1>2, <1>3

\* The chain is as long again, and in order, with an issuer of the last behind it.
LEMMA OnPathAppend ==
    ASSUME NEW certs \in Seq(Cert), certs # << >>, NEW c \in Cert, OnPath(certs),
           IsIssuer(Last(certs), c)
    PROVE  LET more == Append(certs, c)
           IN  /\ more \in Seq(Cert) /\ more # << >> /\ Len(more) = Len(certs) + 1
               /\ Last(more) = c /\ Head(more) = Head(certs)
               /\ Range(more) = Range(certs) \union {c} /\ OnPath(more)
  <1> DEFINE more == Append(certs, c)
  <1>1. /\ more \in Seq(Cert) /\ Len(more) = Len(certs) + 1 /\ Len(certs) \in Nat \ {0}
        /\ more[Len(certs) + 1] = c
        /\ \A i \in 1 .. Len(certs) : more[i] = certs[i]
    OBVIOUS
  <1>2. Range(more) = Range(certs) \union {c}
    BY RangeAppend
  <1> HIDE DEF more
  <1>3. more # << >> /\ Last(more) = c /\ Head(more) = more[1] /\ Head(certs) = certs[1]
    BY <1>1 DEF Last
  <1>4. Head(more) = Head(certs)
    BY <1>1, <1>3
  <1>5. ASSUME NEW i \in 1 .. Len(more) - 1 PROVE IsIssuer(more[i], more[i + 1])
    <2>1. i \in 1 .. Len(certs) /\ i \in Nat
      BY <1>1
    <2>2. CASE i = Len(certs)
      BY <1>1, <2>1, <2>2 DEF Last
    <2>3. CASE i # Len(certs)
      <3>1. i \in 1 .. Len(certs) - 1 /\ i + 1 \in 1 .. Len(certs)
        BY <1>1, <2>1, <2>3
      <3>2. QED
        BY <1>1, <2>1, <3>1 DEF OnPath
    <2>4. QED
      BY <2>2, <2>3
  <1>6. OnPath(more)
    BY <1>5 DEF OnPath
  <1>7. QED
    BY <1>1, <1>2, <1>3, <1>4, <1>6 DEF more

\* A build that ends well.
LEMMA BuiltKnows ==
    ASSUME NEW j \in JobType, NEW there, NEW n, j.op = "build", j.given # << >>, PathKnown(j),
           NEW status \in Status \ {"UNKNOWN"}, Fits(j.certs, status, there),
           status = "INCOMPLETE" => NoIssuerIn(j.input, Last(j.certs))
    PROVE  Built(j, status) \in JobType /\ JobKnows(Built(j, status), there, n)
  <1> DEFINE i == Built(j, status)
  <1>1. /\ i \in JobType /\ i.op = j.op /\ i.given = j.given /\ i.pc = "done" /\ i.goal = None
        /\ i.status = status /\ i.certs = j.certs /\ i.input = j.input /\ i.before = {}
    BY BuiltFields DEF Kin
  <1> HIDE DEF i
  <1>2. PathKnown(i)
    BY <1>1 DEF PathKnown
  <1>3. LookupKnows(i) /\ ResultKnows(i, there)
    BY <1>1, LibraryAssumption DEF LookupKnows, ResultKnows
  <1>4. BuildKnows(i, there) /\ TrustKnows(i, there, n) /\ ListKnown(i)
    BY <1>1, <1>2, <1>3, LibraryAssumption DEF BuildKnows, TrustKnows, ListKnown
  <1>5. QED
    BY <1>1, <1>4 DEF JobKnows, i

\* A build that goes on with the last certificate.
LEMMA NextKnows ==
    ASSUME NEW j \in JobType, NEW there, NEW n, j.op = "build", j.given # << >>, PathKnown(j)
    PROVE  NextOf(j) \in JobType /\ JobKnows(NextOf(j), there, n)
  <1> DEFINE i == NextOf(j)
  <1>1. /\ i \in JobType /\ i.op = j.op /\ i.given = j.given /\ i.pc = "build" /\ i.goal = None
        /\ i.certs = j.certs /\ i.input = j.input /\ i.before = {}
    BY NextOfFields DEF Kin
  <1> HIDE DEF i
  <1>2. PathKnown(i)
    BY <1>1 DEF PathKnown
  <1>3. LookupKnows(i) /\ ResultKnows(i, there)
    BY <1>1, LibraryAssumption DEF LookupKnows, ResultKnows
  <1>4. BuildKnows(i, there) /\ TrustKnows(i, there, n) /\ ListKnown(i)
    BY <1>1, <1>2, <1>3, LibraryAssumption DEF BuildKnows, TrustKnows, ListKnown
  <1>5. QED
    BY <1>1, <1>4 DEF JobKnows, i

\* A build that looks something up.
LEMMA LooksUpKnows ==
    ASSUME NEW j \in JobType, NEW there, NEW n, j.op = "build", j.given # << >>, PathKnown(j),
           \A o \in j.before : o.id <= n,
           NEW goal \in {"pinned", "anchored", "issuer"}, NEW c \in Cert,
           NEW p \in Peer \union {None},
           goal = "pinned" => Len(j.certs) = 1,
           goal = "anchored" => Len(j.certs) > 1 /\ c = Last(j.certs) /\ p = None,
           goal = "issuer" => j.lookups /\ c = Last(j.certs) /\ NoIssuerIn(j.input, Last(j.certs))
    PROVE  LooksUp(j, goal, c, p) \in JobType /\ JobKnows(LooksUp(j, goal, c, p), there, n)
  <1> DEFINE i == LooksUp(j, goal, c, p)
  <1>1. goal \in Goal
    BY DEF Goal
  <1>2. /\ i \in JobType /\ i.op = j.op /\ i.given = j.given /\ i.pc = "init" /\ i.goal = goal
        /\ i.cert = c /\ i.peer = p /\ i.lookups = j.lookups
        /\ i.certs = j.certs /\ i.input = j.input /\ i.before = j.before
    BY <1>1, LooksUpFields DEF Kin
  <1> HIDE DEF i
  <1>3. PathKnown(i)
    BY <1>2 DEF PathKnown
  <1>4. LookupKnows(i) /\ ResultKnows(i, there)
    BY <1>2 DEF LookupKnows, ResultKnows
  <1>5. BuildKnows(i, there) /\ TrustKnows(i, there, n) /\ ListKnown(i)
    BY <1>2, <1>3, <1>4 DEF BuildKnows, TrustKnows, ListKnown
  <1>6. QED
    BY <1>2, <1>5 DEF JobKnows, i

\* A build that has found an issuer of the last certificate, which may have been given.
LEMMA ExtendedKnows ==
    ASSUME NEW j \in JobType, NEW there, NEW n, j.op = "build", j.given # << >>,
           j.certs # << >>, OnPath(j.certs), Head(j.certs) = Head(j.given),
           \A o \in j.before : o.id <= n, ~j.lookups => j.goal = None,
           NEW c \in Cert, IsIssuer(Last(j.certs), c),
           Range(j.given) \subseteq Range(j.certs) \union {c} \union Range(j.input)
    PROVE  Extended(j, c) \in JobType /\ JobKnows(Extended(j, c), there, n)
  <1> DEFINE i == Extended(j, c)
             more == Append(j.certs, c)
  <1>1. /\ i \in JobType /\ i.op = j.op /\ i.given = j.given /\ i.lookups = j.lookups
        /\ i.certs = more /\ i.input = j.input /\ i.before = j.before
        /\ j.lookups => i.pc = "init" /\ i.goal = "anchored" /\ i.cert = c /\ i.peer = None
        /\ ~j.lookups => i.pc = "build" /\ i.goal = None
    BY ExtendedFields DEF Kin
  <1>2. j.certs \in Seq(Cert) /\ j.lookups \in BOOLEAN
    BY DEF JobType
  <1>3. /\ more # << >> /\ Len(more) = Len(j.certs) + 1 /\ Last(more) = c
        /\ Head(more) = Head(j.certs) /\ Range(more) = Range(j.certs) \union {c} /\ OnPath(more)
    BY <1>2, OnPathAppend
  <1>4. Len(more) > 1
    <2>1. Len(j.certs) \in Nat \ {0}
      BY <1>2
    <2>2. QED
      BY <1>3, <2>1
  <1> HIDE DEF i, more
  <1>5. PathKnown(i)
    BY <1>1, <1>3 DEF PathKnown
  <1>6. LookupKnows(i) /\ ResultKnows(i, there)
    BY <1>1, <1>2, <1>3, <1>4, LibraryAssumption DEF LookupKnows, ResultKnows
  <1>7. BuildKnows(i, there) /\ TrustKnows(i, there, n) /\ ListKnown(i)
    BY <1>1, <1>2, <1>5, <1>6, LibraryAssumption DEF BuildKnows, TrustKnows, ListKnown
  <1>8. QED
    BY <1>1, <1>7 DEF JobKnows, i

LEMMA OneCertificate ==
    ASSUME NEW c \in Cert
    PROVE  LET one == <<c>>
           IN  /\ one \in Seq(Cert) /\ Len(one) = 1 /\ one # << >> /\ Head(one) = c
               /\ Last(one) = c /\ Range(one) = {c} /\ OnPath(one)
  <1> DEFINE one == <<c>>
  <1>1. one \in Seq(Cert) /\ Len(one) = 1 /\ one[1] = c /\ one # << >>
    OBVIOUS
  <1> HIDE DEF one
  <1>2. 1 .. Len(one) = {1} /\ 1 .. Len(one) - 1 = {}
    BY <1>1
  <1>3. Range(one) = {c}
    BY <1>1, <1>2, RangeOf
  <1>4. Last(one) = c
    BY <1>1 DEF Last
  <1>6. Head(one) = c
    BY <1>1, HeadTailProperties DEF one
  <1>5. OnPath(one)
    BY <1>2 DEF OnPath
  <1>7. QED
    BY <1>1, <1>3, <1>4, <1>5, <1>6 DEF one

LEMMA BuildStart ==
    ASSUME IInv, NEW k \in Job, NEW sync \in BOOLEAN, NEW lookups \in BOOLEAN,
           NEW p \in Peer \union {None}, Build(k, sync, lookups, p)
    PROVE  IInv'
  <1> DEFINE given == chain.certs
             j == [NoJob EXCEPT !.op = "build", !.sync = sync, !.lookups = lookups,
                                !.given = given]
             first == [j EXCEPT !.certs = <<Head(given)>>, !.input = RemoveIndexFast(given, 1)]
             i == IF given = << >> THEN Built(j, "UNKNOWN")
                  ELSE IF lookups /\ p # None THEN LooksUp(first, "pinned", Head(given), p)
                  ELSE NextOf(first)
  <1>1. given \in Seq(Cert)
    BY DEF IInv, ChainKnown
  <1>2. /\ j \in JobType /\ j.op = "build" /\ j.given = given /\ j.lookups = lookups
        /\ j.before = {}
    BY <1>1, NoJobType DEF NoJob, JobType
  <1>3. job' = [job EXCEPT ![k] = i]
        /\ UNCHANGED <<moduleVars, uriVars, adding, asserts, born, chain, stored>>
    BY DEF Build, Started
  <1> HIDE DEF j
  <1>4. i \in JobType /\ JobKnows(i, asserts, born)
    <2>1. CASE given = << >>
      <3> DEFINE q == Built(j, "UNKNOWN")
      <3>1. "UNKNOWN" \in Status
        BY DEF Status
      <3>2. /\ q \in JobType /\ q.op = j.op /\ q.given = j.given /\ q.pc = "done" /\ q.goal = None
            /\ q.status = "UNKNOWN" /\ q.before = {}
        BY <1>2, <3>1, BuiltFields DEF Kin
      <3> HIDE DEF q
      <3>3. LookupKnows(q) /\ ResultKnows(q, asserts)
        BY <1>2, <2>1, <3>2, LibraryAssumption DEF LookupKnows, ResultKnows
      <3>4. JobKnows(q, asserts, born)
        BY <1>2, <2>1, <3>2, <3>3, LibraryAssumption
           DEF JobKnows, BuildKnows, TrustKnows, ListKnown
      <3>5. QED
        BY <2>1, <3>2, <3>4 DEF q
    <2>2. CASE given # << >>
      <3> DEFINE one == <<Head(given)>>
                 rest == RemoveIndexFast(given, 1)
      <3>1. Len(given) \in Nat \ {0} /\ given[1] = Head(given) /\ Head(given) \in Cert
        BY <1>1, <2>2
      <3>2. 1 \in 1 .. Len(given)
        BY <3>1
      <3>3. rest \in Seq(Cert) /\ Range(given) \subseteq {Head(given)} \union Range(rest)
        BY <1>1, <3>1, <3>2, RemovedLeaves
      <3>4. /\ one \in Seq(Cert) /\ Len(one) = 1 /\ one # << >> /\ Head(one) = Head(given)
            /\ Last(one) = Head(given) /\ Range(one) = {Head(given)} /\ OnPath(one)
        BY <3>1, OneCertificate
      <3> HIDE DEF one, rest
      <3>5. /\ first \in JobType /\ first.op = "build" /\ first.given = given
            /\ first.lookups = lookups /\ first.before = {}
            /\ first.certs = one /\ first.input = rest
        BY <1>2, <3>3, <3>4 DEF JobType, one, rest
      <3> HIDE DEF first
      <3>6. PathKnown(first)
        BY <3>3, <3>4, <3>5 DEF PathKnown
      <3>7. CASE lookups /\ p # None
        <4>1. /\ LooksUp(first, "pinned", Head(given), p) \in JobType
              /\ JobKnows(LooksUp(first, "pinned", Head(given), p), asserts, born)
          BY <2>2, <3>1, <3>4, <3>5, <3>6, LooksUpKnows
        <4>2. QED
          BY <2>2, <3>7, <4>1
      <3>8. CASE ~(lookups /\ p # None)
        <4>1. NextOf(first) \in JobType /\ JobKnows(NextOf(first), asserts, born)
          BY <2>2, <3>5, <3>6, NextKnows
        <4>2. QED
          BY <2>2, <3>8, <4>1
      <3>9. QED
        BY <3>7, <3>8
    <2>3. QED
      BY <2>1, <2>2
  <1> HIDE DEF i
  <1>5. QED
    BY <1>3, <1>4, QuietMove

\* A build that looked something up is not without a chain.
LEMMA LookedUp ==
    ASSUME IInv, NEW k \in Job, job[k].pc \in {"ready", "found", "build"},
           job[k].goal \in {"pinned", "anchored", "issuer"} \/ job[k].pc = "build"
    PROVE  /\ job[k].op = "build" /\ job[k].given # << >> /\ PathKnown(job[k])
           /\ LookupKnows(job[k]) /\ \A o \in job[k].before : o.id <= born
           /\ job[k].certs \in Seq(Cert) /\ job[k].input \in Seq(Cert)
  <1>1. job[k] \in JobType /\ JobKnows(job[k], asserts, born)
    BY TypeOfJob
  <1>2. job[k].op = "build" /\ BuildKnows(job[k], asserts)
    BY <1>1 DEF JobKnows, BuildKnows
  <1>3. job[k].given # << >> /\ PathKnown(job[k]) /\ LookupKnows(job[k])
    BY <1>2 DEF BuildKnows
  <1>4. \A o \in job[k].before : o.id <= born
    BY <1>1 DEF JobKnows, TrustKnows
  <1>5. QED
    BY <1>1, <1>2, <1>3, <1>4 DEF JobType

LEMMA PinnedStep ==
    ASSUME IInv, NEW k \in Job, PinnedKnown(k)
    PROVE  IInv'
  <1> DEFINE j == job[k]
             i == IF j.list # << >> THEN Built(j, "PINNED") ELSE NextOf(j)
  <1>1. j.pc = "found" /\ j.goal = "pinned" /\ job' = [job EXCEPT ![k] = i]
        /\ UNCHANGED <<moduleVars, uriVars, adding, asserts, born, chain, stored>>
    BY DEF PinnedKnown
  <1>2. /\ j \in JobType /\ j.op = "build" /\ j.given # << >> /\ PathKnown(j) /\ LookupKnows(j)
    BY <1>1, TypeOfJob, LookedUp
  <1>3. Fits(j.certs, "PINNED", asserts)
    BY <1>1, <1>2 DEF LookupKnows, PathKnown, Fits
  <1>4. "PINNED" \in Status \ {"UNKNOWN"}
    BY DEF Status
  <1> HIDE DEF j
  <1>5. Built(j, "PINNED") \in JobType /\ JobKnows(Built(j, "PINNED"), asserts, born)
    BY <1>2, <1>3, <1>4, BuiltKnows
  <1>6. NextOf(j) \in JobType /\ JobKnows(NextOf(j), asserts, born)
    BY <1>2, NextKnows
  <1>7. i \in JobType /\ JobKnows(i, asserts, born)
    BY <1>5, <1>6
  <1> HIDE DEF i
  <1>8. QED
    BY <1>1, <1>7, QuietMove

\* What has been found is an anchor still.
LEMMA AnchoredStep ==
    ASSUME IInv, NEW k \in Job, AnchoredKnown(k)
    PROVE  IInv'
  <1> DEFINE j == job[k]
             i == IF j.list # << >> THEN Built(j, "ANCHORED") ELSE NextOf(j)
  <1>1. j.pc = "found" /\ j.goal = "anchored" /\ job' = [job EXCEPT ![k] = i]
        /\ UNCHANGED <<moduleVars, uriVars, adding, asserts, born, chain, stored>>
    BY DEF AnchoredKnown
  <1>2. /\ j \in JobType /\ j.op = "build" /\ j.given # << >> /\ PathKnown(j) /\ LookupKnows(j)
        /\ JobKnows(j, asserts, born)
    BY <1>1, TypeOfJob, LookedUp
  <1>3. SearchKnows(j, asserts)
    BY <1>1, <1>2 DEF JobKnows, TrustKnows
  <1>4. "ANCHORED" \in Status \ {"UNKNOWN"}
    BY DEF Status
  <1> HIDE DEF j
  <1>5. ASSUME j.list # << >>
        PROVE  Built(j, "ANCHORED") \in JobType /\ JobKnows(Built(j, "ANCHORED"), asserts, born)
    <2>1. Head(j.list) \in Range(j.list)
      BY <1>3, <1>5, RangeHeadTail DEF SearchKnows
    <2>2. Len(j.certs) > 1 /\ j.cert = Last(j.certs) /\ j.peer = None
      BY <1>1, <1>2 DEF LookupKnows
    <2>3. \E o \in asserts : o.cert = Last(j.certs) /\ o.peer = None
      BY <1>3, <2>1, <2>2 DEF SearchKnows
    <2>4. Fits(j.certs, "ANCHORED", asserts)
      BY <1>2, <2>2, <2>3 DEF Fits, PathKnown
    <2>5. QED
      BY <1>2, <1>4, <2>4, BuiltKnows
  <1>6. NextOf(j) \in JobType /\ JobKnows(NextOf(j), asserts, born)
    BY <1>2, NextKnows
  <1>7. i \in JobType /\ JobKnows(i, asserts, born)
    BY <1>5, <1>6
  <1> HIDE DEF i
  <1>8. QED
    BY <1>1, <1>7, QuietMove

LEMMA BuildNextStep ==
    ASSUME IInv, NEW k \in Job, BuildNext(k)
    PROVE  IInv'
  <1> DEFINE j == job[k]
             issued == Last(j.certs)
             p == PlaceOfIssuer(j.input, issued)
             less == [j EXCEPT !.input = RemoveIndexFast(j.input, p)]
             i == IF IsIssuer(issued, issued) THEN Built(j, "SELFSIGNED")
                  ELSE IF p # 0 THEN Extended(less, j.input[p])
                  ELSE IF j.lookups THEN LooksUp(j, "issuer", issued, None)
                  ELSE Built(j, "INCOMPLETE")
  <1>1. j.pc = "build" /\ job' = [job EXCEPT ![k] = i]
        /\ UNCHANGED <<moduleVars, uriVars, adding, asserts, born, chain, stored>>
    BY DEF BuildNext
  <1>2. /\ j \in JobType /\ j.op = "build" /\ j.given # << >> /\ PathKnown(j)
        /\ j.certs \in Seq(Cert) /\ j.input \in Seq(Cert) /\ j.lookups \in BOOLEAN
        /\ \A o \in j.before : o.id <= born
    BY <1>1, TypeOfJob, LookedUp DEF JobType
  <1>3. j.goal = None
    BY <1>1, TypeOfJob DEF JobKnows, BuildKnows
  <1>4. "SELFSIGNED" \in Status \ {"UNKNOWN"} /\ "INCOMPLETE" \in Status \ {"UNKNOWN"}
    BY DEF Status
  <1> HIDE DEF j
  <1>5. issued \in Cert
    BY <1>2 DEF PathKnown, Last
  <1>6. /\ p = 0 \/ (p \in 1 .. Len(j.input) /\ IsIssuer(issued, j.input[p]))
        /\ p = 0 => NoIssuerIn(j.input, issued)
    BY <1>2, IssuerIsThere
  <1> HIDE DEF p
  <1>7. ASSUME IsIssuer(issued, issued)
        PROVE  Built(j, "SELFSIGNED") \in JobType /\ JobKnows(Built(j, "SELFSIGNED"), asserts, born)
    <2>1. Fits(j.certs, "SELFSIGNED", asserts)
      BY <1>2, <1>7 DEF Fits, PathKnown
    <2>2. QED
      BY <1>2, <1>4, <2>1, BuiltKnows
  <1>8. ASSUME p # 0
        PROVE  /\ Extended(less, j.input[p]) \in JobType
               /\ JobKnows(Extended(less, j.input[p]), asserts, born)
    <2> DEFINE rest == RemoveIndexFast(j.input, p)
               c == j.input[p]
    <2>1. p \in 1 .. Len(j.input) /\ IsIssuer(issued, c) /\ c \in Cert
      BY <1>2, <1>6, <1>8
    <2>2. rest \in Seq(Cert) /\ Range(j.input) \subseteq {c} \union Range(rest)
      BY <1>2, <2>1, RemovedLeaves
    <2> HIDE DEF rest, c
    <2>3. /\ less \in JobType /\ less.op = "build" /\ less.given = j.given
          /\ less.certs = j.certs /\ less.input = rest /\ less.before = j.before
          /\ less.lookups = j.lookups /\ less.goal = None
      BY <1>2, <1>3, <2>2 DEF JobType, rest
    <2> HIDE DEF less
    <2>4. Range(less.given) \subseteq Range(less.certs) \union {c} \union Range(less.input)
      BY <1>2, <2>2, <2>3 DEF PathKnown
    <2>5. /\ less.certs # << >> /\ OnPath(less.certs) /\ Head(less.certs) = Head(less.given)
          /\ less.given # << >> /\ IsIssuer(Last(less.certs), c)
          /\ \A o \in less.before : o.id <= born
      BY <1>2, <2>1, <2>3 DEF PathKnown
    <2>6. Extended(less, c) \in JobType /\ JobKnows(Extended(less, c), asserts, born)
      BY <2>1, <2>3, <2>4, <2>5, ExtendedKnows
    <2>7. QED
      BY <2>6 DEF c
  <1>9. ASSUME p = 0, j.lookups
        PROVE  /\ LooksUp(j, "issuer", issued, None) \in JobType
               /\ JobKnows(LooksUp(j, "issuer", issued, None), asserts, born)
    <2>1. NoIssuerIn(j.input, issued) /\ None \in Peer \union {None}
      BY <1>6, <1>9
    <2>2. QED
      BY <1>2, <1>5, <1>9, <2>1, LooksUpKnows
  <1>10. ASSUME p = 0
         PROVE  Built(j, "INCOMPLETE") \in JobType /\ JobKnows(Built(j, "INCOMPLETE"), asserts, born)
    <2>1. Fits(j.certs, "INCOMPLETE", asserts)
      BY <1>2 DEF Fits, PathKnown
    <2>2. QED
      BY <1>2, <1>4, <1>6, <1>10, <2>1, BuiltKnows
  <1> HIDE DEF issued, less
  <1>11. i \in JobType /\ JobKnows(i, asserts, born)
    BY <1>2, <1>7, <1>8, <1>9, <1>10
  <1> HIDE DEF i
  <1>12. QED
    BY <1>1, <1>11, QuietMove

LEMMA LookupIssuerStep ==
    ASSUME IInv, NEW k \in Job, LookupIssuer(k)
    PROVE  IInv'
  <1> DEFINE j == job[k]
  <1>1. j.pc = "ready" /\ j.goal = "issuer"
        /\ UNCHANGED <<moduleVars, uriVars, adding, asserts, born, chain, stored>>
    BY DEF LookupIssuer
  <1>2. /\ j \in JobType /\ j.op = "build" /\ j.given # << >> /\ PathKnown(j)
        /\ LookupKnows(j) /\ \A o \in j.before : o.id <= born
    BY <1>1, TypeOfJob, LookedUp
  <1>3. j.lookups /\ j.cert = Last(j.certs) /\ NoIssuerIn(j.input, Last(j.certs))
    BY <1>1, <1>2 DEF LookupKnows
  <1>4. "INCOMPLETE" \in Status \ {"UNKNOWN"}
    BY DEF Status
  <1>5. ASSUME NEW c \in stored, IsIssuer(j.cert, c), job' = [job EXCEPT ![k] = Extended(j, c)]
        PROVE  IInv'
    <2>1. c \in Cert
      BY DEF IInv, ChainKnown
    <2> DEFINE i == Extended(j, c)
    <2> HIDE DEF j
    <2>2. IsIssuer(Last(j.certs), c)
      BY <1>3, <1>5
    <2>3. Range(j.given) \subseteq Range(j.certs) \union {c} \union Range(j.input)
      BY <1>2 DEF PathKnown
    <2>4. j.certs # << >> /\ OnPath(j.certs) /\ Head(j.certs) = Head(j.given)
      BY <1>2 DEF PathKnown
    <2>5. i \in JobType /\ JobKnows(i, asserts, born)
      BY <1>2, <1>3, <2>1, <2>2, <2>3, <2>4, ExtendedKnows
    <2>6. job' = [job EXCEPT ![k] = i]
      BY <1>5
    <2> HIDE DEF i
    <2>7. QED
      BY <1>1, <2>5, <2>6, QuietMove
  <1>6. CASE job' = [job EXCEPT ![k] = Built(j, "INCOMPLETE")]
    <2> DEFINE i == Built(j, "INCOMPLETE")
    <2> HIDE DEF j
    <2>1. Fits(j.certs, "INCOMPLETE", asserts)
      BY <1>2 DEF Fits, PathKnown
    <2>2. i \in JobType /\ JobKnows(i, asserts, born)
      BY <1>2, <1>3, <1>4, <2>1, BuiltKnows
    <2>3. job' = [job EXCEPT ![k] = i]
      BY <1>6
    <2> HIDE DEF i
    <2>4. QED
      BY <1>1, <2>2, <2>3, QuietMove
  <1>7. CASE Failed(k)
    <2>1. j.pc \in Pc \ {"idle", "done"}
      BY <1>1 DEF Pc
    <2>2. QED
      BY <1>1, <1>7, <2>1, FailedStep
  <1>8. QED
    BY <1>5, <1>6, <1>7 DEF LookupIssuer

\* The copy that takes the place of the chain fits, whatever the chain is by now.
LEMMA FinishStep ==
    ASSUME IInv, NEW k \in Job, Finish(k)
    PROVE  IInv'
  <1> DEFINE j == job[k]
  <1>1. /\ j.pc = "done" /\ job' = [job EXCEPT ![k] = NoJob]
        /\ UNCHANGED <<moduleVars, uriVars, adding, asserts, born, stored>>
    BY DEF Finish
  <1>2. j \in JobType /\ JobKnows(j, asserts, born)
    BY TypeOfJob
  <1>3. JobsKnown'
    BY <1>1, NoJobType, IdleKnows, JobMoves DEF IInv
  <1>4. ModulesKnown' /\ UrisKnown' /\ AssertsKnown'
    BY <1>1 DEF IInv, ModulesKnown, UrisKnown, AssertsKnown, moduleVars, uriVars
  <1>5. ChainKnown'
    <2>1. CASE j.op = "build" /\ j.ok
      <3>1. chain'.certs = j.certs /\ chain'.status = j.status
        BY <2>1 DEF Finish
      <3>2. j.status # "UNKNOWN" => Fits(j.certs, j.status, asserts)
        BY <1>1, <1>2, <2>1 DEF JobKnows, BuildKnows, ResultKnows
      <3>3. QED
        BY <1>1, <1>2, <3>1, <3>2 DEF IInv, ChainKnown, JobType
    <2>2. CASE ~(j.op = "build" /\ j.ok)
      BY <1>1, <2>2 DEF IInv, ChainKnown, Finish
    <2>3. QED
      BY <2>1, <2>2
  <1>6. QED
    BY <1>3, <1>4, <1>5 DEF IInv

LEMMA AddStep ==
    ASSUME IInv, NEW c \in Offered, Add(c)
    PROVE  IInv'
  <1>1. c \in Cert /\ chain.certs \in Seq(Cert)
    BY ChainAssumption DEF IInv, ChainKnown
  <1>2. chain'.certs \in Seq(Cert) /\ chain'.status = "UNKNOWN"
    BY <1>1 DEF Add
  <1>3. UNCHANGED <<moduleVars, uriVars, adding, job, asserts, born, stored>>
    BY DEF Add
  <1>4. QED
    BY <1>2, <1>3 DEF IInv, ModulesKnown, UrisKnown, AssertsKnown, JobsKnown, ChainKnown,
                      moduleVars, uriVars

-----------------------------------------------------------------------------
(* The invariant holds.                                                    *)

LEMMA InitKnown == Init => IInv
  <1> SUFFICES ASSUME Init PROVE IInv
    OBVIOUS
  <1>1. ModulesKnown
    <2>1. modules = << >> /\ adding = NotAdding /\ adding.list = << >> /\ ~initializedModules
          /\ initializedModules \in BOOLEAN
      BY DEF Init, LibraryInit, NotAdding
    <2>2. << >> \in Seq(Module) /\ Once(<< >>) /\ NoneOf(<< >>)
      BY RangeEmpty DEF Once, NoneOf
    <2>3. QED
      BY <2>1, <2>2 DEF ModulesKnown
  <1>2. UrisKnown /\ AssertsKnown
    BY DEF Init, LibraryInit, UrisKnown, AssertsKnown
  <1>3. JobsKnown
    BY NoJobType, IdleKnows DEF Init, LibraryInit, JobsKnown
  <1>4. ChainKnown
    BY DEF Init, ChainKnown
  <1>5. QED
    BY <1>1, <1>2, <1>3, <1>4 DEF IInv

LEMMA StepKeeps ==
    ASSUME IInv, NEW k \in Job, Step(k)
    PROVE  IInv'
  <1>1. CASE TrustStep(k) /\ UNCHANGED <<chain, stored>>
    <2>1. CASE LibraryStep(k) /\ UNCHANGED <<asserts, born>>
      BY <1>1, <2>1, InitializeStep, LoadStep, LockStep, ConcatStep, InitializedStep
         DEF LibraryStep
    <2>2. CASE AskSlots(k) \/ Search(k)
      BY <1>1, <2>2, AskSlotsStep, SearchStep
    <2>3. CASE AddExisting(k) \/ AddMissing(k)
      BY <1>1, <2>3, AddExistingStep, AddMissingStep
    <2>4. CASE Destroy(k) \/ Removed(k)
      BY <1>1, <2>4, DestroyStep, RemovedStep
    <2>5. QED
      BY <1>1, <2>1, <2>2, <2>3, <2>4 DEF TrustStep
  <1>2. CASE BuildStep(k)
    BY <1>2, PinnedStep, AnchoredStep, BuildNextStep, LookupIssuerStep DEF BuildStep
  <1>3. QED
    BY <1>1, <1>2 DEF Step

\* A call begins, of any kind.
LEMMA StartKeeps ==
    ASSUME IInv, NEW k \in Job, NEW sync \in BOOLEAN,
           \/ StartInitialize(k, sync)
           \/ \E c \in Pinnable, p \in Peer :
                 (AddPinned(k, sync, c, p) \/ RemovePinned(k, sync, c, p))
                 /\ UNCHANGED <<chain, stored>>
           \/ \E p \in Peer \union {None} : Build(k, sync, TRUE, p)
           \/ Build(k, sync, FALSE, None)
    PROVE  IInv'
  <1>1. CASE StartInitialize(k, sync)
    BY <1>1, StartInit
  <1>2. ASSUME NEW c \in Pinnable, NEW p \in Peer, UNCHANGED <<chain, stored>>,
               AddPinned(k, sync, c, p) \/ RemovePinned(k, sync, c, p)
        PROVE  IInv'
    <2>1. c \in Cert
      BY ChainAssumption
    <2>2. CASE AddPinned(k, sync, c, p)
      BY <1>2, <2>1, <2>2, StartTrust DEF AddPinned
    <2>3. CASE RemovePinned(k, sync, c, p)
      BY <1>2, <2>1, <2>3, StartTrust DEF RemovePinned
    <2>4. QED
      BY <1>2, <2>2, <2>3
  <1>3. ASSUME NEW p \in Peer \union {None}, Build(k, sync, TRUE, p) PROVE IInv'
    BY <1>3, BuildStart
  <1>4. CASE Build(k, sync, FALSE, None)
    BY <1>4, BuildStart
  <1>5. QED
    BY <1>1, <1>2, <1>3, <1>4

LEMMA NextKeeps == IInv /\ [Next]_chainVars => IInv'
  <1> SUFFICES ASSUME IInv, [Next]_chainVars PROVE IInv'
    OBVIOUS
  <1>1. ASSUME NEW k \in Job, NEW sync \in {FALSE} \union {k \in Blocking},
               \/ StartInitialize(k, sync)
               \/ \E c \in Pinnable, p \in Peer :
                     (AddPinned(k, sync, c, p) \/ RemovePinned(k, sync, c, p))
                     /\ UNCHANGED <<chain, stored>>
               \/ \E p \in Peer \union {None} : Build(k, sync, TRUE, p)
               \/ Build(k, sync, FALSE, None)
        PROVE  IInv'
    <2>1. sync \in BOOLEAN
      OBVIOUS
    <2>2. QED
      BY <1>1, <2>1, StartKeeps
  <1>2. ASSUME NEW k \in Job, Step(k) \/ Finish(k) PROVE IInv'
    BY <1>2, StepKeeps, FinishStep
  <1>3. CASE ProgramSetsUp /\ UNCHANGED <<asserts, born, chain, stored>>
    BY <1>3, ProgramStep
  <1>4. ASSUME NEW c \in Offered, Add(c) PROVE IInv'
    BY <1>4, AddStep
  <1>5. CASE UNCHANGED chainVars
    BY <1>5 DEF chainVars, trustVars, libraryVars, IInv, ModulesKnown, UrisKnown, AssertsKnown,
                JobsKnown, ChainKnown
  <1>6. QED
    BY <1>1, <1>2, <1>3, <1>4, <1>5 DEF Next

\* Every call knows, in every reachable state, what IInv says it does.
THEOREM Invariance == Spec => []IInv
  <1>1. QED
    BY InitKnown, NextKeeps, PTL DEF Spec

-----------------------------------------------------------------------------
(* What follows from it.                                                   *)

\* However many calls find the modules missing at the same time, each registered module
\* is listed once (gcr_pkcs11_initialize).
THEOREM ModulesAreOnce == Spec => []ModulesOnce
  <1>1. ASSUME IInv PROVE ModulesOnce
    <2> SUFFICES ASSUME NEW m \in Range(Registered)
                 PROVE  Cardinality({i \in DOMAIN modules : modules[i] = m}) <= 1
      BY DEF ModulesOnce
    <2> DEFINE I == {i \in DOMAIN modules : modules[i] = m}
    <2>1. \A i, l \in I : i = l
      BY <1>1 DEF IInv, ModulesKnown, Once
    <2>2. CASE I = {}
      BY <2>2, FS_EmptySet
    <2>3. CASE I # {}
      <3>1. PICK i \in I : TRUE
        BY <2>3
      <3>2. I = {i}
        BY <2>1, <3>1
      <3> HIDE DEF I
      <3>3. Cardinality(I) = 1
        BY <3>2, FS_Singleton
      <3>4. QED
        BY <3>3 DEF I
    <2>4. QED
      BY <2>2, <2>3
  <1>2. QED
    BY <1>1, Invariance, PTL

\* A removal that has ended well has left none of the assertions that it was to remove,
\* where it could search, whoever removed others at the same time
\* (perform_remove_pinned_certificate).
THEOREM RemovalsAreComplete == Spec => []RemovedIsGone
  <1>1. ASSUME IInv PROVE RemovedIsGone
    BY <1>1, TypeOfJob DEF RemovedIsGone, JobKnows, TrustKnows
  <1>2. QED
    BY <1>1, Invariance, PTL

\* A chain whose status is known is in order and as its status says, and so is what a
\* build is about to put in its place, which leaves out no issuer that was given
\* (perform_build_chain).
THEOREM ChainsAreInOrder == Spec => []BuiltInOrder
  <1>1. ASSUME IInv PROVE BuiltInOrder
    <2>1. \A certs, status : Fits(certs, status, asserts) => Justified(certs, status)
      BY DEF Fits, Justified
    <2>2. chain.status # "UNKNOWN" => Justified(chain.certs, chain.status)
      BY <1>1, <2>1 DEF IInv, ChainKnown
    <2>3. ASSUME NEW k \in Job, job[k].op = "build", job[k].pc = "done", job[k].ok,
                 job[k].given # << >>
          PROVE  LET j == job[k]
                 IN  /\ j.status # "UNKNOWN" /\ Justified(j.certs, j.status)
                     /\ Head(j.certs) = Head(j.given)
                     /\ j.status = "INCOMPLETE" =>
                          \A c \in Range(j.given) : IsIssuer(Last(j.certs), c) => c \in Range(j.certs)
      <3> DEFINE j == job[k]
      <3>1. JobKnows(j, asserts, born)
        BY <1>1, TypeOfJob
      <3>2. PathKnown(j) /\ ResultKnows(j, asserts)
        BY <2>3, <3>1 DEF JobKnows, BuildKnows
      <3>3. /\ j.status # "UNKNOWN" /\ Fits(j.certs, j.status, asserts)
            /\ j.status = "INCOMPLETE" => NoIssuerIn(j.input, Last(j.certs))
        BY <2>3, <3>2 DEF ResultKnows
      <3>4. QED
        BY <2>1, <3>2, <3>3 DEF PathKnown, NoIssuerIn
    <2>4. QED
      BY <2>2, <2>3 DEF BuiltInOrder
  <1>2. QED
    BY <1>1, Invariance, PTL

\* Only a call that is to add an assertion adds one, in the step that its search led to.
LEMMA OnlyMissing ==
    ASSUME IInv, [Next]_chainVars, NEW k \in Job, job[k].goal = "add",
           asserts \subseteq asserts', asserts # asserts', job'[k] # job[k]
    PROVE  Sought(job[k]) \cap asserts = {}
  <1>1. ASSUME NEW d \in Job, AddMissing(d) PROVE Sought(job[k]) \cap asserts = {}
    <2>1. d = k
      <3>1. job[k] \in JobType /\ job \in [Job -> JobType]
        BY TypeOfJob DEF IInv, JobsKnown
      <3>2. CASE d # k
        <4>1. job'[k] = job[k]
          BY <1>1, <3>1, <3>2 DEF AddMissing, Failed
        <4>2. QED
          BY <4>1
      <3>3. QED
        BY <3>2
    <2>2. job[k].pc = "found" /\ job[k].list = << >>
      BY <1>1, <2>1 DEF AddMissing
    <2>3. SearchKnows(job[k], asserts)
      BY <2>2, TypeOfJob DEF JobKnows, TrustKnows
    <2>4. Range(job[k].list) = {} /\ Range(job[k].slots) = {}
      BY <2>2, <2>3, RangeEmpty DEF SearchKnows
    <2>5. QED
      BY <2>3, <2>4 DEF SearchKnows
  <1>2. \A d \in Job : ~(Destroy(d) /\ asserts # asserts' /\ asserts \subseteq asserts')
    BY DEF Destroy
  <1>3. ASSUME NEW d \in Job, Step(d), ~AddMissing(d) PROVE FALSE
    BY <1>2, <1>3 DEF Step, TrustStep, BuildStep, LibraryStep, AskSlots, Search, AddExisting,
                      Removed, PinnedKnown, AnchoredKnown, BuildNext, LookupIssuer
  <1>4. ASSUME NEW d \in Job, Finish(d) PROVE FALSE
    BY <1>4 DEF Finish
  <1>5. ASSUME NEW d \in Job, NEW sync,
               \/ StartInitialize(d, sync)
               \/ \E c \in Pinnable, p \in Peer : AddPinned(d, sync, c, p) \/ RemovePinned(d, sync, c, p)
               \/ \E p \in Peer \union {None} : Build(d, sync, TRUE, p)
               \/ Build(d, sync, FALSE, None)
        PROVE  FALSE
    BY <1>5 DEF StartInitialize, AddPinned, RemovePinned, Build
  <1>6. ~(\E c \in Offered : Add(c)) /\ ~(UNCHANGED chainVars)
    BY DEF Add, chainVars, trustVars
  <1>7. QED
    BY <1>1, <1>3, <1>4, <1>5, <1>6 DEF Next

\* An assertion is added only if none like it was in the lookup slots when the call began
\* to search and still is, as far as they could be searched
\* (gcr_trust_add_pinned_certificate).
THEOREM OnlyWhatIsMissing == Spec => AddsWhatIsMissing
  <1> DEFINE A == \A k \in Job : job[k].goal = "add" /\ asserts \subseteq asserts' /\ asserts # asserts'
                                 /\ job'[k] # job[k]
                                    => Sought(job[k]) \cap asserts = {}
  <1>1. IInv /\ [Next]_chainVars => [A]_trustVars
    BY OnlyMissing
  <1>2. QED
    BY <1>1, Invariance, PTL DEF Spec, AddsWhatIsMissing

-----------------------------------------------------------------------------
(* Collections.  What a listener makes of signals depends on the objects   *)
(* that they tell of, if each is told of once.                             *)

Signals == [signal : {"added", "removed"}, object : Object]
Told(s, i) == {s[j] : j \in 1 .. i}
News(S) == {o \in Object : AddedSignal(o) \in S}
Gone(S) == {o \in Object : RemovedSignal(o) \in S}

\* No object is told of twice.
ToldOnce(s) == \A i, j \in DOMAIN s : s[i].object = s[j].object => i = j

LEMMA SignalNews ==
    ASSUME NEW S, NEW x \in Signals
    PROVE  /\ x.object \in Object
           /\ x.signal = "added" =>
                 /\ News(S \union {x}) = News(S) \union {x.object}
                 /\ Gone(S \union {x}) = Gone(S)
           /\ x.signal = "removed" =>
                 /\ News(S \union {x}) = News(S)
                 /\ Gone(S \union {x}) = Gone(S) \union {x.object}
           /\ x.signal # "added" => x.signal = "removed"
  <1>1. /\ x.object \in Object /\ x = [signal |-> x.signal, object |-> x.object]
        /\ x.signal \in {"added", "removed"}
    BY DEF Signals
  <1>4. ASSUME NEW o, NEW p PROVE /\ AddedSignal(o) = AddedSignal(p) <=> o = p
                                  /\ RemovedSignal(o) = RemovedSignal(p) <=> o = p
                                  /\ AddedSignal(o) # RemovedSignal(p)
    <2>1. /\ AddedSignal(o).object = o /\ AddedSignal(p).object = p
          /\ RemovedSignal(o).object = o /\ RemovedSignal(p).object = p
          /\ AddedSignal(o).signal = "added" /\ RemovedSignal(p).signal = "removed"
      BY DEF AddedSignal, RemovedSignal
    <2>2. QED
      BY <2>1
  <1>2. CASE x.signal = "added"
    <2>1. x = AddedSignal(x.object)
      BY <1>1, <1>2 DEF AddedSignal
    <2>2. \A o \in Object : (AddedSignal(o) = x <=> o = x.object) /\ RemovedSignal(o) # x
      BY <2>1, <1>4
    <2>3. News(S \union {x}) = News(S) \union {x.object}
      BY <1>1, <2>1, <2>2 DEF News
    <2>4. Gone(S \union {x}) = Gone(S)
      BY <2>2 DEF Gone
    <2>5. QED
      BY <1>1, <1>2, <2>3, <2>4
  <1>3. CASE x.signal = "removed"
    <2>1. x = RemovedSignal(x.object)
      BY <1>1, <1>3 DEF RemovedSignal
    <2>2. \A o \in Object : (RemovedSignal(o) = x <=> o = x.object) /\ AddedSignal(o) # x
      BY <2>1, <1>4
    <2>3. Gone(S \union {x}) = Gone(S) \union {x.object}
      BY <1>1, <2>1, <2>2 DEF Gone
    <2>4. News(S \union {x}) = News(S)
      BY <2>2 DEF News
    <2>5. QED
      BY <1>1, <1>3, <2>3, <2>4
  <1>5. QED
    BY <1>1, <1>2, <1>3

LEMMA ToldGrows ==
    ASSUME NEW s \in Seq(Signals)
    PROVE  /\ Told(s, 0) = {} /\ Told(s, Len(s)) = Range(s)
           /\ \A i \in 1 .. Len(s) : Told(s, i) = Told(s, i - 1) \union {s[i]}
  <1>1. Len(s) \in Nat /\ DOMAIN s = 1 .. Len(s)
    OBVIOUS
  <1>2. Told(s, 0) = {}
    BY DEF Told
  <1>3. Told(s, Len(s)) = Range(s)
    BY <1>1 DEF Told, Range
  <1>4. ASSUME NEW i \in 1 .. Len(s) PROVE Told(s, i) = Told(s, i - 1) \union {s[i]}
    <2>1. 1 .. i = (1 .. (i - 1)) \union {i}
      BY <1>1
    <2>2. QED
      BY <2>1 DEF Told
  <1>5. QED
    BY <1>2, <1>3, <1>4

\* The objects that the first signals tell of are not told of again.
LEMMA ToldApart ==
    ASSUME NEW s \in Seq(Signals), ToldOnce(s), NEW i \in 1 .. Len(s)
    PROVE  s[i].object \notin News(Told(s, i - 1)) \union Gone(Told(s, i - 1))
  <1>1. Len(s) \in Nat /\ DOMAIN s = 1 .. Len(s) /\ i \in Nat
    OBVIOUS
  <1>2. ASSUME NEW j \in 1 .. (i - 1) PROVE s[j].object # s[i].object
    <2>1. j \in DOMAIN s /\ i \in DOMAIN s /\ i # j
      BY <1>1
    <2>2. QED
      BY <2>1 DEF ToldOnce
  <1>3. \A x \in Told(s, i - 1) : x.object # s[i].object
    BY <1>2 DEF Told
  <1>4. \A o \in Object : AddedSignal(o).object = o /\ RemovedSignal(o).object = o
    BY DEF AddedSignal, RemovedSignal
  <1>5. QED
    BY <1>3, <1>4 DEF News, Gone

\* Nor is an object told of as added and as removed.
LEMMA ToldOneWay ==
    ASSUME NEW s \in Seq(Signals), ToldOnce(s)
    PROVE  News(Range(s)) \intersect Gone(Range(s)) = {}
  <1> SUFFICES ASSUME NEW o \in Object, AddedSignal(o) \in Range(s), RemovedSignal(o) \in Range(s)
               PROVE  FALSE
    BY DEF News, Gone
  <1>1. PICK i \in DOMAIN s : s[i] = AddedSignal(o)
    BY DEF Range
  <1>2. PICK j \in DOMAIN s : s[j] = RemovedSignal(o)
    BY DEF Range
  <1>3. s[i].object = o /\ s[j].object = o /\ s[i].signal = "added" /\ s[j].signal = "removed"
    BY <1>1, <1>2 DEF AddedSignal, RemovedSignal
  <1>4. i = j
    BY <1>3 DEF ToldOnce
  <1>5. QED
    BY <1>3, <1>4

-----------------------------------------------------------------------------
(* What the union and the filter make of them.                             *)

UnionStates == [st : [Object -> Nat], emits : Seq(Signals)]
FilterStates == [st : SUBSET Object, emits : Seq(Signals)]

\* One signal.
UnionStep(was, s) ==
    LET now == Counted(was.st, s)
    IN  [st |-> now, emits |-> IF (now[s.object] = 0) = (was.st[s.object] = 0)
                               THEN was.emits ELSE Append(was.emits, s)]
FilterStep(was, s) ==
    LET o == s.object
    IN  IF s.signal = "added" /\ Accepts(filter, o)
        THEN [st |-> was.st \union {o}, emits |-> Append(was.emits, s)]
        ELSE IF s.signal = "removed" /\ o \in was.st
        THEN [st |-> was.st \ {o}, emits |-> Append(was.emits, s)]
        ELSE was

LEMMA UnionStepType ==
    ASSUME NEW r \in UnionStates, NEW x \in Signals
    PROVE  UnionStep(r, x) \in UnionStates
  <1>1. x.object \in Object /\ r.st \in [Object -> Nat] /\ r.emits \in Seq(Signals)
    BY DEF Signals, UnionStates
  <1>2. Counted(r.st, x) \in [Object -> Nat]
    BY <1>1 DEF Counted
  <1>3. Append(r.emits, x) \in Seq(Signals)
    BY <1>1
  <1>4. QED
    BY <1>1, <1>2, <1>3 DEF UnionStep, UnionStates

LEMMA UnionSteps ==
    ASSUME NEW u \in [Object -> Nat], NEW s \in Seq(Signals)
    PROVE  \E heard : /\ heard[0] = [st |-> u, emits |-> << >>]
                      /\ UnionHears(u, s) = heard[Len(s)]
                      /\ \A i \in 1 .. Len(s) : heard[i] = UnionStep(heard[i - 1], s[i])
                      /\ \A i \in 0 .. Len(s) : heard[i] \in UnionStates
  <1> DEFINE n == Len(s)
             base == [st |-> u, emits |-> << >>]
             step == [i \in 1 .. n |-> [r \in UnionStates |-> UnionStep(r, s[i])]]
             G == [i \in 0 .. n |-> UnionStates]
             Equation(f) == f = [i \in 0 .. Len(s) |->
                IF i = 0 THEN [st |-> u, emits |-> << >>]
                ELSE LET was == f[i - 1]
                         x == s[i]
                         now == Counted(was.st, x)
                     IN  [st |-> now,
                          emits |-> IF (now[x.object] = 0) = (was.st[x.object] = 0)
                                    THEN was.emits ELSE Append(was.emits, x)]]
             heard == CHOOSE f : Equation(f)
  <1>1. n \in Nat /\ \A i \in 1 .. n : s[i] \in Signals
    OBVIOUS
  <1>2. base \in UnionStates
    <2>1. << >> \in Seq(Signals)
      OBVIOUS
    <2>2. QED
      BY <2>1 DEF UnionStates
  <1>4. \A i \in 1 .. n : \A r \in G[i - 1] : step[i][r] \in G[i]
    <2> SUFFICES ASSUME NEW i \in 1 .. n, NEW r \in G[i - 1] PROVE step[i][r] \in G[i]
      OBVIOUS
    <2>1. i - 1 \in 0 .. n /\ i \in 0 .. n
      BY <1>1
    <2>2. r \in UnionStates
      BY <2>1
    <2>3. step[i][r] = UnionStep(r, s[i])
      BY <2>2
    <2>4. QED
      BY <1>1, <2>1, <2>2, <2>3, UnionStepType
  <1>5. PICK g : /\ g = [i \in 0 .. n |-> g[i]]
                 /\ g[0] = base /\ \A i \in 1 .. n : g[i] = step[i][g[i - 1]]
                 /\ \A i \in 0 .. n : g[i] \in G[i]
    <2>1. base \in G[0]
      BY <1>1, <1>2
    <2> HIDE DEF n, step, G, base
    <2>2. \E g : Guided(g, n, G, base, step)
      BY <1>1, <1>4, <2>1, GuidedRecursion
    <2>3. QED
      BY <2>2 DEF Guided
  <1>6. \A i \in 1 .. n : g[i - 1] \in UnionStates /\ g[i] = UnionStep(g[i - 1], s[i])
    <2> SUFFICES ASSUME NEW i \in 1 .. n
                 PROVE  g[i - 1] \in UnionStates /\ g[i] = UnionStep(g[i - 1], s[i])
      OBVIOUS
    <2>1. i - 1 \in 0 .. n
      BY <1>1
    <2>2. g[i - 1] \in UnionStates
      BY <1>5, <2>1
    <2>3. step[i][g[i - 1]] = UnionStep(g[i - 1], s[i])
      BY <2>2
    <2>4. QED
      BY <1>5, <2>2, <2>3
  <1>7. Equation(g)
    <2>1. \A i \in 0 .. n : i # 0 => i \in 1 .. n
      BY <1>1
    <2> HIDE DEF step, G
    <2>2. \A i \in 0 .. n : g[i] = IF i = 0 THEN base ELSE UnionStep(g[i - 1], s[i])
      BY <1>5, <1>6, <2>1
    <2>3. QED
      BY <1>5, <2>2 DEF UnionStep
  <1>8. Equation(heard)
    <2> HIDE DEF Equation
    <2>1. QED
      BY <1>7
  <1>9. heard[0] = base /\ \A i \in 1 .. n : heard[i] = UnionStep(heard[i - 1], s[i])
    <2> HIDE DEF heard
    <2>1. 0 \in 0 .. n /\ \A i \in 1 .. n : i \in 0 .. n /\ i # 0
      BY <1>1
    <2>2. QED
      BY <1>8, <2>1 DEF UnionStep
  <1>10. UnionHears(u, s) = heard[n]
    BY DEF UnionHears
  <1> HIDE DEF heard, Equation, base
  <1>11. \A i \in 0 .. n : heard[i] \in UnionStates
    <2> DEFINE S == {i \in 0 .. n : heard[i] \in UnionStates}
    <2>1. 0 \in S
      BY <1>1, <1>2, <1>9
    <2>2. ASSUME NEW i \in 1 .. n, i - 1 \in S PROVE i \in S
      <3>1. i \in 0 .. n /\ heard[i - 1] \in UnionStates /\ s[i] \in Signals
        BY <1>1, <2>2
      <3>2. heard[i] = UnionStep(heard[i - 1], s[i])
        BY <1>9
      <3>3. heard[i] \in UnionStates
        BY <3>1, <3>2, UnionStepType
      <3>4. QED
        BY <3>1, <3>3
    <2> HIDE DEF S
    <2>3. \A i \in 0 .. n : i \in S
      BY <1>1, <2>1, <2>2, Induction
    <2>4. QED
      BY <2>3 DEF S
  <1>12. QED
    BY <1>9, <1>10, <1>11 DEF base

\* What the signals T make of the counts, and of the items of the filter.
CountsAfter(u, T) ==
    [o \in Object |-> IF o \in News(T) THEN u[o] + 1
                      ELSE IF o \in Gone(T) /\ u[o] > 0 THEN u[o] - 1 ELSE u[o]]
NewTo(u, T) == {o \in News(T) : u[o] = 0}
GoneFrom(u, T) == {o \in Gone(T) : u[o] = 1}
UnionAfter(u, T, r) ==
    /\ r.st = CountsAfter(u, T)
    /\ News(Range(r.emits)) = NewTo(u, T) /\ Gone(Range(r.emits)) = GoneFrom(u, T)
FilterAfter(f, T) == (f \ Gone(T)) \union {o \in News(T) : Accepts(filter, o)}

LEMMA UnionStepAfter ==
    ASSUME NEW u \in [Object -> Nat], NEW T, NEW r \in UnionStates, UnionAfter(u, T, r),
           NEW x \in Signals, x.object \notin News(T) \union Gone(T)
    PROVE  UnionAfter(u, T \union {x}, UnionStep(r, x))
  <1> DEFINE o == x.object
             now == Counted(r.st, x)
             q == UnionStep(r, x)
  <1>1. o \in Object /\ r.st \in [Object -> Nat] /\ r.emits \in Seq(Signals) /\ u[o] \in Nat
    BY SignalNews DEF UnionStates
  <1>2. r.st = CountsAfter(u, T) /\ r.st[o] = u[o]
    BY <1>1 DEF UnionAfter, CountsAfter
  <1>3. Range(Append(r.emits, x)) = Range(r.emits) \union {x}
    BY <1>1, RangeAppend
  <1>4. q.st = now /\ q.emits = IF (now[o] = 0) = (r.st[o] = 0)
                                THEN r.emits ELSE Append(r.emits, x)
    BY DEF UnionStep
  <1> SUFFICES UnionAfter(u, T \union {x}, q)
    OBVIOUS
  <1> HIDE DEF q
  <1>5. CASE x.signal = "added"
    <2>1. News(T \union {x}) = News(T) \union {o} /\ Gone(T \union {x}) = Gone(T)
      BY <1>5, SignalNews
    <2>2. now = [r.st EXCEPT ![o] = @ + 1]
      BY <1>5 DEF Counted
    <2>3. now = CountsAfter(u, T \union {x})
      BY <1>1, <1>2, <2>1, <2>2 DEF CountsAfter
    <2>4. now[o] = u[o] + 1 /\ now[o] # 0
      BY <1>1, <1>2, <2>2
    <2>5. NewTo(u, T \union {x}) = NewTo(u, T) \union (IF u[o] = 0 THEN {o} ELSE {})
      BY <2>1 DEF NewTo
    <2>6. GoneFrom(u, T \union {x}) = GoneFrom(u, T)
      BY <2>1 DEF GoneFrom
    <2>7. CASE u[o] = 0
      <3>1. q.emits = Append(r.emits, x)
        BY <1>2, <1>4, <2>4, <2>7
      <3>0. Range(q.emits) = Range(r.emits) \union {x}
        BY <1>3, <3>1
      <3>2. News(Range(q.emits)) = News(Range(r.emits)) \union {o}
        BY <1>5, <3>0, SignalNews
      <3>3. Gone(Range(q.emits)) = Gone(Range(r.emits))
        BY <1>5, <3>0, SignalNews
      <3>4. QED
        BY <1>4, <2>3, <2>5, <2>6, <2>7, <3>2, <3>3 DEF UnionAfter
    <2>8. CASE u[o] # 0
      <3>1. q.emits = r.emits
        BY <1>2, <1>4, <2>4, <2>8
      <3>2. QED
        BY <1>4, <2>3, <2>5, <2>6, <2>8, <3>1 DEF UnionAfter
    <2>9. QED
      BY <2>7, <2>8
  <1>6. CASE x.signal = "removed"
    <2>1. News(T \union {x}) = News(T) /\ Gone(T \union {x}) = Gone(T) \union {o}
      BY <1>6, SignalNews
    <2>2. now = [r.st EXCEPT ![o] = IF @ > 0 THEN @ - 1 ELSE @]
      BY <1>6 DEF Counted
    <2>3. now = CountsAfter(u, T \union {x})
      BY <1>1, <1>2, <2>1, <2>2 DEF CountsAfter
    <2>4. now[o] = IF u[o] > 0 THEN u[o] - 1 ELSE u[o]
      BY <1>1, <1>2, <2>2
    <2>5. NewTo(u, T \union {x}) = NewTo(u, T)
      BY <2>1 DEF NewTo
    <2>6. GoneFrom(u, T \union {x}) = GoneFrom(u, T) \union (IF u[o] = 1 THEN {o} ELSE {})
      BY <2>1 DEF GoneFrom
    <2>7. CASE u[o] = 1
      <3>1. q.emits = Append(r.emits, x)
        BY <1>2, <1>4, <2>4, <2>7
      <3>0. Range(q.emits) = Range(r.emits) \union {x}
        BY <1>3, <3>1
      <3>2. News(Range(q.emits)) = News(Range(r.emits))
        BY <1>6, <3>0, SignalNews
      <3>3. Gone(Range(q.emits)) = Gone(Range(r.emits)) \union {o}
        BY <1>6, <3>0, SignalNews
      <3>4. QED
        BY <1>4, <2>3, <2>5, <2>6, <2>7, <3>2, <3>3 DEF UnionAfter
    <2>8. CASE u[o] # 1
      <3>1. (now[o] = 0) = (r.st[o] = 0)
        BY <1>1, <1>2, <2>4, <2>8
      <3>2. q.emits = r.emits
        BY <1>4, <3>1
      <3>3. QED
        BY <1>4, <2>3, <2>5, <2>6, <2>8, <3>2 DEF UnionAfter
    <2>9. QED
      BY <2>7, <2>8
  <1>7. QED
    BY <1>5, <1>6, SignalNews

LEMMA UnionHearsAll ==
    ASSUME NEW u \in [Object -> Nat], NEW s \in Seq(Signals), ToldOnce(s)
    PROVE  UnionHears(u, s) \in UnionStates /\ UnionAfter(u, Range(s), UnionHears(u, s))
  <1>1. PICK heard : /\ heard[0] = [st |-> u, emits |-> << >>]
                     /\ UnionHears(u, s) = heard[Len(s)]
                     /\ \A i \in 1 .. Len(s) : heard[i] = UnionStep(heard[i - 1], s[i])
                     /\ \A i \in 0 .. Len(s) : heard[i] \in UnionStates
    BY UnionSteps
  <1> DEFINE S == {i \in 0 .. Len(s) : UnionAfter(u, Told(s, i), heard[i])}
  <1>2. Len(s) \in Nat /\ \A i \in 1 .. Len(s) : s[i] \in Signals
    OBVIOUS
  <1>3. 0 \in S
    <2>1. News({}) = {} /\ Gone({}) = {} /\ Range(<< >>) = {}
      BY RangeEmpty DEF News, Gone
    <2>2. CountsAfter(u, {}) = u
      BY <2>1 DEF CountsAfter
    <2>3. NewTo(u, {}) = {} /\ GoneFrom(u, {}) = {}
      BY <2>1 DEF NewTo, GoneFrom
    <2>4. heard[0].st = u /\ heard[0].emits = << >>
      BY <1>1
    <2>5. UnionAfter(u, {}, heard[0])
      BY <2>1, <2>2, <2>3, <2>4 DEF UnionAfter
    <2>6. Told(s, 0) = {} /\ 0 \in 0 .. Len(s)
      BY <1>2, ToldGrows
    <2>7. QED
      BY <2>5, <2>6
  <1>4. ASSUME NEW i \in 1 .. Len(s), i - 1 \in S PROVE i \in S
    <2>1. i \in 0 .. Len(s) /\ i - 1 \in 0 .. Len(s) /\ UnionAfter(u, Told(s, i - 1), heard[i - 1])
      BY <1>2, <1>4
    <2>2. s[i].object \notin News(Told(s, i - 1)) \union Gone(Told(s, i - 1))
      BY ToldApart
    <2>3. heard[i - 1] \in UnionStates /\ s[i] \in Signals
      BY <1>1, <1>2, <2>1
    <2>4. UnionAfter(u, Told(s, i - 1) \union {s[i]}, UnionStep(heard[i - 1], s[i]))
      BY <2>1, <2>2, <2>3, UnionStepAfter
    <2>5. UnionAfter(u, Told(s, i), heard[i])
      BY <1>1, <2>4, ToldGrows
    <2>6. QED
      BY <2>1, <2>5
  <1> HIDE DEF S
  <1>5. \A i \in 0 .. Len(s) : i \in S
    BY <1>2, <1>3, <1>4, Induction
  <1>6. Len(s) \in 0 .. Len(s)
    BY <1>2
  <1>7. UnionAfter(u, Told(s, Len(s)), heard[Len(s)])
    BY <1>5, <1>6 DEF S
  <1>8. QED
    BY <1>1, <1>6, <1>7, ToldGrows

LEMMA FilterStepType ==
    ASSUME NEW r \in FilterStates, NEW x \in Signals
    PROVE  FilterStep(r, x) \in FilterStates
  <1>1. x.object \in Object /\ r.st \subseteq Object /\ r.emits \in Seq(Signals)
    BY DEF Signals, FilterStates
  <1>2. Append(r.emits, x) \in Seq(Signals)
    BY <1>1
  <1>3. QED
    BY <1>1, <1>2 DEF FilterStep, FilterStates

LEMMA FilterSteps ==
    ASSUME NEW f \in SUBSET Object, NEW s \in Seq(Signals)
    PROVE  \E heard : /\ heard[0] = [st |-> f, emits |-> << >>]
                      /\ FilterHears(f, s) = heard[Len(s)]
                      /\ \A i \in 1 .. Len(s) : heard[i] = FilterStep(heard[i - 1], s[i])
                      /\ \A i \in 0 .. Len(s) : heard[i] \in FilterStates
  <1> DEFINE n == Len(s)
             base == [st |-> f, emits |-> << >>]
             step == [i \in 1 .. n |-> [r \in FilterStates |-> FilterStep(r, s[i])]]
             G == [i \in 0 .. n |-> FilterStates]
             Equation(h) == h = [i \in 0 .. Len(s) |->
                IF i = 0 THEN [st |-> f, emits |-> << >>]
                ELSE LET was == h[i - 1]
                         x == s[i]
                         o == x.object
                     IN  IF x.signal = "added" /\ Accepts(filter, o)
                         THEN [st |-> was.st \union {o}, emits |-> Append(was.emits, x)]
                         ELSE IF x.signal = "removed" /\ o \in was.st
                         THEN [st |-> was.st \ {o}, emits |-> Append(was.emits, x)]
                         ELSE was]
             heard == CHOOSE h : Equation(h)
  <1>1. n \in Nat /\ \A i \in 1 .. n : s[i] \in Signals
    OBVIOUS
  <1>2. base \in FilterStates
    <2>1. << >> \in Seq(Signals)
      OBVIOUS
    <2>2. QED
      BY <2>1 DEF FilterStates
  <1>4. \A i \in 1 .. n : \A r \in G[i - 1] : step[i][r] \in G[i]
    <2> SUFFICES ASSUME NEW i \in 1 .. n, NEW r \in G[i - 1] PROVE step[i][r] \in G[i]
      OBVIOUS
    <2>1. i - 1 \in 0 .. n /\ i \in 0 .. n
      BY <1>1
    <2>2. r \in FilterStates
      BY <2>1
    <2>3. step[i][r] = FilterStep(r, s[i])
      BY <2>2
    <2>4. QED
      BY <1>1, <2>1, <2>2, <2>3, FilterStepType
  <1>5. PICK g : /\ g = [i \in 0 .. n |-> g[i]]
                 /\ g[0] = base /\ \A i \in 1 .. n : g[i] = step[i][g[i - 1]]
                 /\ \A i \in 0 .. n : g[i] \in G[i]
    <2>1. base \in G[0]
      BY <1>1, <1>2
    <2> HIDE DEF n, step, G, base
    <2>2. \E g : Guided(g, n, G, base, step)
      BY <1>1, <1>4, <2>1, GuidedRecursion
    <2>3. QED
      BY <2>2 DEF Guided
  <1>6. \A i \in 1 .. n : g[i - 1] \in FilterStates /\ g[i] = FilterStep(g[i - 1], s[i])
    <2> SUFFICES ASSUME NEW i \in 1 .. n
                 PROVE  g[i - 1] \in FilterStates /\ g[i] = FilterStep(g[i - 1], s[i])
      OBVIOUS
    <2>1. i - 1 \in 0 .. n
      BY <1>1
    <2>2. g[i - 1] \in FilterStates
      BY <1>5, <2>1
    <2>3. step[i][g[i - 1]] = FilterStep(g[i - 1], s[i])
      BY <2>2
    <2>4. QED
      BY <1>5, <2>2, <2>3
  <1>7. Equation(g)
    <2>1. \A i \in 0 .. n : i # 0 => i \in 1 .. n
      BY <1>1
    <2> HIDE DEF step, G
    <2>2. \A i \in 0 .. n : g[i] = IF i = 0 THEN base ELSE FilterStep(g[i - 1], s[i])
      BY <1>5, <1>6, <2>1
    <2>3. QED
      BY <1>5, <2>2 DEF FilterStep
  <1>8. Equation(heard)
    <2> HIDE DEF Equation
    <2>1. QED
      BY SMTT(30), <1>7
  <1>9. heard[0] = base /\ \A i \in 1 .. n : heard[i] = FilterStep(heard[i - 1], s[i])
    <2> HIDE DEF heard
    <2>1. 0 \in 0 .. n /\ \A i \in 1 .. n : i \in 0 .. n /\ i # 0
      BY <1>1
    <2>2. QED
      BY <1>8, <2>1 DEF FilterStep
  <1>10. FilterHears(f, s) = heard[n]
    BY DEF FilterHears
  <1> HIDE DEF heard, Equation, base
  <1>11. \A i \in 0 .. n : heard[i] \in FilterStates
    <2> DEFINE S == {i \in 0 .. n : heard[i] \in FilterStates}
    <2>1. 0 \in S
      BY <1>1, <1>2, <1>9
    <2>2. ASSUME NEW i \in 1 .. n, i - 1 \in S PROVE i \in S
      <3>1. i \in 0 .. n /\ heard[i - 1] \in FilterStates /\ s[i] \in Signals
        BY <1>1, <2>2
      <3>2. heard[i] = FilterStep(heard[i - 1], s[i])
        BY <1>9
      <3>3. heard[i] \in FilterStates
        BY <3>1, <3>2, FilterStepType
      <3>4. QED
        BY <3>1, <3>3
    <2> HIDE DEF S
    <2>3. \A i \in 0 .. n : i \in S
      BY <1>1, <2>1, <2>2, Induction
    <2>4. QED
      BY <2>3 DEF S
  <1>12. QED
    BY <1>9, <1>10, <1>11 DEF base
LEMMA FilterHearsAll ==
    ASSUME NEW f \in SUBSET Object, NEW s \in Seq(Signals),
           News(Range(s)) \intersect Gone(Range(s)) = {}
    PROVE  FilterHears(f, s).st = FilterAfter(f, Range(s))
  <1>1. PICK heard : /\ heard[0] = [st |-> f, emits |-> << >>]
                     /\ FilterHears(f, s) = heard[Len(s)]
                     /\ \A i \in 1 .. Len(s) : heard[i] = FilterStep(heard[i - 1], s[i])
                     /\ \A i \in 0 .. Len(s) : heard[i] \in FilterStates
    BY FilterSteps
  <1> DEFINE S == {i \in 0 .. Len(s) : heard[i].st = FilterAfter(f, Told(s, i))}
  <1>2. Len(s) \in Nat /\ \A i \in 1 .. Len(s) : s[i] \in Signals
    OBVIOUS
  <1>3. 0 \in S
    <2>1. News({}) = {} /\ Gone({}) = {}
      BY DEF News, Gone
    <2>2. FilterAfter(f, {}) = f
      BY <2>1 DEF FilterAfter
    <2>3. heard[0].st = f
      BY <1>1
    <2>4. Told(s, 0) = {} /\ 0 \in 0 .. Len(s)
      BY <1>2, ToldGrows
    <2>5. QED
      BY <2>2, <2>3, <2>4
  <1>4. ASSUME NEW i \in 1 .. Len(s), i - 1 \in S PROVE i \in S
    <2> DEFINE T == Told(s, i - 1)
               x == s[i]
               o == x.object
               was == heard[i - 1]
    <2>1. i \in 0 .. Len(s) /\ was.st = FilterAfter(f, T)
      BY <1>2, <1>4
    <2>2. heard[i] = FilterStep(was, x) /\ Told(s, i) = T \union {x} /\ x \in Signals
      BY <1>1, <1>2, ToldGrows
    <2>3. o \in Object /\ x \in Range(s) /\ T \subseteq Range(s)
      <3>1. DOMAIN s = 1 .. Len(s) /\ 1 .. (i - 1) \subseteq 1 .. Len(s)
        BY <1>2
      <3>2. QED
        BY <2>2, <3>1, SignalNews DEF Range, Told
    <2> HIDE DEF T, x, was
    <2>4. CASE x.signal = "added"
      <3>1. News(T \union {x}) = News(T) \union {o} /\ Gone(T \union {x}) = Gone(T)
        BY <2>2, <2>4, SignalNews
      <3>2. o \in News(Range(s)) /\ Gone(T) \subseteq Gone(Range(s))
        <4>1. Range(s) \union {x} = Range(s)
          BY <2>3
        <4>2. News(Range(s) \union {x}) = News(Range(s)) \union {o}
          BY <2>2, <2>4, SignalNews
        <4>3. QED
          BY <2>3, <4>1, <4>2 DEF Gone
      <3>3. heard[i].st = IF Accepts(filter, o) THEN was.st \union {o} ELSE was.st
        BY <2>2, <2>4 DEF FilterStep
      <3>4. heard[i].st = FilterAfter(f, T \union {x})
        BY <2>1, <3>1, <3>2, <3>3 DEF FilterAfter
      <3>5. QED
        BY <2>1, <2>2, <3>4
    <2>5. CASE x.signal = "removed"
      <3>1. News(T \union {x}) = News(T) /\ Gone(T \union {x}) = Gone(T) \union {o}
        BY <2>2, <2>5, SignalNews
      <3>2. o \in Gone(Range(s)) /\ News(T) \subseteq News(Range(s))
        <4>1. Range(s) \union {x} = Range(s)
          BY <2>3
        <4>2. Gone(Range(s) \union {x}) = Gone(Range(s)) \union {o}
          BY <2>2, <2>5, SignalNews
        <4>3. QED
          BY <2>3, <4>1, <4>2 DEF News
      <3>3. heard[i].st = was.st \ {o}
        BY <2>2, <2>5 DEF FilterStep
      <3>4. o \notin News(T)
        BY <3>2
      <3>5. heard[i].st = FilterAfter(f, T \union {x})
        BY <2>1, <3>1, <3>3, <3>4 DEF FilterAfter
      <3>6. QED
        BY <2>1, <2>2, <3>5
    <2>6. QED
      BY <2>2, <2>4, <2>5, SignalNews
  <1> HIDE DEF S
  <1>5. \A i \in 0 .. Len(s) : i \in S
    BY <1>2, <1>3, <1>4, Induction
  <1>6. Len(s) \in 0 .. Len(s)
    BY <1>2
  <1>7. heard[Len(s)].st = FilterAfter(f, Told(s, Len(s)))
    BY <1>5, <1>6 DEF S
  <1>8. QED
    BY <1>1, <1>7, ToldGrows

-----------------------------------------------------------------------------
(* The signals of the operations.                                          *)

LEMMA AddedAllTells ==
    ASSUME NEW S \in SUBSET Object, IsFiniteSet(S)
    PROVE  /\ AddedAll(S) \in Seq(Signals) /\ ToldOnce(AddedAll(S))
           /\ Range(AddedAll(S)) = {AddedSignal(o) : o \in S}
           /\ News(Range(AddedAll(S))) = S /\ Gone(Range(AddedAll(S))) = {}
  <1> DEFINE q == SetToSeq(S)
  <1>1. q \in Seq(S) /\ Range(q) = S /\ Len(q) \in Nat /\ DOMAIN q = 1 .. Len(q)
    BY SetToSeqLists
  <1>2. \A i, j \in DOMAIN q : q[i] = q[j] => i = j
    BY SetToSeqOnce
  <1>3. \A i \in DOMAIN q : q[i] \in S
    BY <1>1
  <1>4. AddedAll(S) = [i \in DOMAIN q |-> AddedSignal(q[i])]
    BY DEF AddedAll
  <1>5. \A o \in Object : AddedSignal(o) \in Signals /\ AddedSignal(o).object = o
    BY DEF AddedSignal, Signals
  <1> HIDE DEF q
  <1>6. AddedAll(S) \in Seq(Signals)
    BY <1>1, <1>3, <1>4, <1>5
  <1>7. ToldOnce(AddedAll(S))
    BY <1>2, <1>3, <1>4, <1>5 DEF ToldOnce
  <1>8. Range(AddedAll(S)) = {AddedSignal(o) : o \in S}
    BY <1>1, <1>4 DEF Range
  <1>9. News({AddedSignal(o) : o \in S}) = S /\ Gone({AddedSignal(o) : o \in S}) = {}
    <2>1. \A o, p \in Object : (AddedSignal(o) = AddedSignal(p) => o = p)
                               /\ AddedSignal(o) # RemovedSignal(p)
      <3>1. \A o, p \in Object : AddedSignal(o).signal = "added" /\ RemovedSignal(p).signal = "removed"
        BY DEF AddedSignal, RemovedSignal
      <3>2. QED
        BY <1>5, <3>1
    <2>2. QED
      BY <2>1 DEF News, Gone
  <1>10. QED
    BY <1>6, <1>7, <1>8, <1>9

LEMMA RemovedAllTells ==
    ASSUME NEW S \in SUBSET Object, IsFiniteSet(S)
    PROVE  /\ RemovedAll(S) \in Seq(Signals) /\ ToldOnce(RemovedAll(S))
           /\ Range(RemovedAll(S)) = {RemovedSignal(o) : o \in S}
           /\ News(Range(RemovedAll(S))) = {} /\ Gone(Range(RemovedAll(S))) = S
  <1> DEFINE q == SetToSeq(S)
  <1>1. q \in Seq(S) /\ Range(q) = S /\ Len(q) \in Nat /\ DOMAIN q = 1 .. Len(q)
    BY SetToSeqLists
  <1>2. \A i, j \in DOMAIN q : q[i] = q[j] => i = j
    BY SetToSeqOnce
  <1>3. \A i \in DOMAIN q : q[i] \in S
    BY <1>1
  <1>4. RemovedAll(S) = [i \in DOMAIN q |-> RemovedSignal(q[i])]
    BY DEF RemovedAll
  <1>5. \A o \in Object : RemovedSignal(o) \in Signals /\ RemovedSignal(o).object = o
    BY DEF RemovedSignal, Signals
  <1> HIDE DEF q
  <1>6. RemovedAll(S) \in Seq(Signals)
    BY <1>1, <1>3, <1>4, <1>5
  <1>7. ToldOnce(RemovedAll(S))
    BY <1>2, <1>3, <1>4, <1>5 DEF ToldOnce
  <1>8. Range(RemovedAll(S)) = {RemovedSignal(o) : o \in S}
    BY <1>1, <1>4 DEF Range
  <1>9. News({RemovedSignal(o) : o \in S}) = {} /\ Gone({RemovedSignal(o) : o \in S}) = S
    <2>1. \A o, p \in Object : (RemovedSignal(o) = RemovedSignal(p) => o = p)
                               /\ AddedSignal(o) # RemovedSignal(p)
      <3>1. \A o, p \in Object : AddedSignal(o).signal = "added" /\ RemovedSignal(p).signal = "removed"
        BY DEF AddedSignal, RemovedSignal
      <3>2. QED
        BY <1>5, <3>1
    <2>2. QED
      BY <2>1 DEF News, Gone
  <1>10. QED
    BY <1>6, <1>7, <1>8, <1>9

\* The object of a single collection goes before the new one comes.
LEMMA BothTell ==
    ASSUME NEW R \in SUBSET Object, NEW A \in SUBSET Object, IsFiniteSet(R), IsFiniteSet(A),
           R \intersect A = {}
    PROVE  LET s == RemovedAll(R) \o AddedAll(A)
           IN  /\ s \in Seq(Signals) /\ ToldOnce(s)
               /\ News(Range(s)) = A /\ Gone(Range(s)) = R
  <1> DEFINE a == RemovedAll(R)
             b == AddedAll(A)
             s == a \o b
  <1>1. /\ a \in Seq(Signals) /\ ToldOnce(a) /\ Range(a) = {RemovedSignal(o) : o \in R}
        /\ News(Range(a)) = {} /\ Gone(Range(a)) = R
    BY RemovedAllTells
  <1>2. /\ b \in Seq(Signals) /\ ToldOnce(b) /\ Range(b) = {AddedSignal(o) : o \in A}
        /\ News(Range(b)) = A /\ Gone(Range(b)) = {}
    BY AddedAllTells
  <1> HIDE DEF a, b
  <1>3. s \in Seq(Signals)
    BY <1>1, <1>2
  <1>4. Range(s) = Range(a) \union Range(b)
    BY <1>1, <1>2, RangeConcatenation
  <1>5. News(Range(s)) = A /\ Gone(Range(s)) = R
    BY <1>1, <1>2, <1>4 DEF News, Gone
  <1>6. \A i \in DOMAIN a, j \in DOMAIN b : a[i].object # b[j].object
    <2> SUFFICES ASSUME NEW i \in DOMAIN a, NEW j \in DOMAIN b PROVE a[i].object # b[j].object
      OBVIOUS
    <2>1. a[i] \in Range(a) /\ b[j] \in Range(b)
      BY DEF Range
    <2>2. PICK o \in R : a[i] = RemovedSignal(o)
      BY <1>1, <2>1
    <2>3. PICK p \in A : b[j] = AddedSignal(p)
      BY <1>2, <2>1
    <2>4. a[i].object = o /\ b[j].object = p
      BY <2>2, <2>3 DEF AddedSignal, RemovedSignal
    <2>5. QED
      BY <2>4
  <1>7. ToldOnce(s)
    <2> SUFFICES ASSUME NEW i \in DOMAIN s, NEW j \in DOMAIN s, s[i].object = s[j].object
                 PROVE  i = j
      BY DEF ToldOnce
    <2>1. /\ Len(a) \in Nat /\ Len(b) \in Nat /\ DOMAIN a = 1 .. Len(a) /\ DOMAIN b = 1 .. Len(b)
          /\ DOMAIN s = 1 .. (Len(a) + Len(b))
      BY <1>1, <1>2
    <2>2. ASSUME NEW k \in DOMAIN s
          PROVE  /\ k <= Len(a) => k \in DOMAIN a /\ s[k] = a[k]
                 /\ k > Len(a) => k - Len(a) \in DOMAIN b /\ s[k] = b[k - Len(a)]
      BY <1>1, <1>2, <2>1
    <2> HIDE DEF s
    <2>3. CASE i <= Len(a) /\ j <= Len(a)
      BY <1>1, <2>2, <2>3 DEF ToldOnce
    <2>4. CASE i > Len(a) /\ j > Len(a)
      <3>1. i - Len(a) = j - Len(a)
        BY <1>2, <2>2, <2>4 DEF ToldOnce
      <3>2. QED
        BY <2>1, <3>1
    <2>5. CASE i <= Len(a) /\ j > Len(a)
      BY <1>6, <2>2, <2>5
    <2>6. CASE i > Len(a) /\ j <= Len(a)
      BY <1>6, <2>2, <2>6
    <2>7. QED
      BY <2>1, <2>3, <2>4, <2>5, <2>6
  <1>8. QED
    BY <1>3, <1>5, <1>7 DEF a, b

LEMMA OneTells ==
    ASSUME NEW o \in Object
    PROVE  /\ << >> \in Seq(Signals) /\ ToldOnce(<< >>)
           /\ News(Range(<< >>)) = {} /\ Gone(Range(<< >>)) = {}
           /\ <<AddedSignal(o)>> \in Seq(Signals) /\ ToldOnce(<<AddedSignal(o)>>)
           /\ News(Range(<<AddedSignal(o)>>)) = {o} /\ Gone(Range(<<AddedSignal(o)>>)) = {}
           /\ <<RemovedSignal(o)>> \in Seq(Signals) /\ ToldOnce(<<RemovedSignal(o)>>)
           /\ News(Range(<<RemovedSignal(o)>>)) = {} /\ Gone(Range(<<RemovedSignal(o)>>)) = {o}
  <1>1. ASSUME NEW x \in Signals
        PROVE  <<x>> \in Seq(Signals) /\ ToldOnce(<<x>>) /\ Range(<<x>>) = {} \union {x}
    <2>1. <<x>> \in Seq(Signals) /\ DOMAIN <<x>> = {1} /\ <<x>>[1] = x
      OBVIOUS
    <2>2. QED
      BY <2>1 DEF ToldOnce, Range
  <1>2. News({}) = {} /\ Gone({}) = {} /\ Range(<< >>) = {}
    BY RangeEmpty DEF News, Gone
  <1>3. << >> \in Seq(Signals) /\ ToldOnce(<< >>)
    BY DEF ToldOnce
  <1>4. /\ AddedSignal(o) \in Signals /\ RemovedSignal(o) \in Signals
        /\ AddedSignal(o).object = o /\ RemovedSignal(o).object = o
        /\ AddedSignal(o).signal = "added" /\ RemovedSignal(o).signal = "removed"
    BY DEF AddedSignal, RemovedSignal, Signals
  <1>5. News({} \union {AddedSignal(o)}) = {o} /\ Gone({} \union {AddedSignal(o)}) = {}
    <2> DEFINE x == AddedSignal(o)
    <2>1. x \in Signals /\ x.object = o /\ x.signal = "added"
      BY <1>4
    <2> HIDE DEF x
    <2>2. News({} \union {x}) = News({}) \union {o} /\ Gone({} \union {x}) = Gone({}) \union {}
      BY <2>1, SignalNews
    <2>3. News({} \union {x}) = {o} /\ Gone({} \union {x}) = {}
      BY <1>2, <2>2
    <2>4. QED
      BY <2>3 DEF x
  <1>6. News({} \union {RemovedSignal(o)}) = {} /\ Gone({} \union {RemovedSignal(o)}) = {o}
    <2> DEFINE x == RemovedSignal(o)
    <2>1. x \in Signals /\ x.object = o /\ x.signal = "removed"
      BY <1>4
    <2> HIDE DEF x
    <2>2. News({} \union {x}) = News({}) \union {} /\ Gone({} \union {x}) = Gone({}) \union {o}
      BY <2>1, SignalNews
    <2>3. News({} \union {x}) = {} /\ Gone({} \union {x}) = {o}
      BY <1>2, <2>2
    <2>4. QED
      BY <2>3 DEF x
  <1>7. QED
    BY <1>1, <1>2, <1>3, <1>4, <1>5, <1>6

-----------------------------------------------------------------------------
(* The invariant.                                                          *)

CollectionsType ==
    /\ items \in [Base -> SUBSET Object] /\ members \in SUBSET Members
    /\ counts \in [Object -> Nat]
    /\ filtered \in SUBSET Object /\ unseen \in SUBSET Object

CollectionsInv == CollectionsType /\ CollectionsAreExact

LEMMA SpreadTells ==
    ASSUME CollectionsType, NEW s \in Seq(Signals), ToldOnce(s), Spread(s)
    PROVE  LET new == NewTo(counts, Range(s))
               gone == GoneFrom(counts, Range(s))
           IN  /\ counts' = CountsAfter(counts, Range(s))
               /\ filtered' = (filtered \ gone) \union {o \in new : Accepts(filter, o)}
               /\ unseen' \subseteq unseen /\ unseen \subseteq unseen' \union new \union gone
  <1> DEFINE u == UnionHears(counts, s)
             new == NewTo(counts, Range(s))
             gone == GoneFrom(counts, Range(s))
  <1>1. counts \in [Object -> Nat] /\ filtered \in SUBSET Object
    BY DEF CollectionsType
  <1>2. u \in UnionStates /\ UnionAfter(counts, Range(s), u)
    BY <1>1, UnionHearsAll
  <1>3. /\ counts' = u.st /\ filtered' = FilterHears(filtered, u.emits).st
        /\ unseen' = unseen \ {x.object : x \in Range(u.emits)}
    BY DEF Spread
  <1> HIDE DEF u
  <1>4. /\ u.emits \in Seq(Signals) /\ counts' = CountsAfter(counts, Range(s))
        /\ News(Range(u.emits)) = new /\ Gone(Range(u.emits)) = gone
    BY <1>2, <1>3 DEF UnionAfter, UnionStates
  <1>5. new \intersect gone = {}
    BY DEF NewTo, GoneFrom
  <1>6. filtered' = FilterAfter(filtered, Range(u.emits))
    BY <1>1, <1>3, <1>4, <1>5, FilterHearsAll
  <1>7. ASSUME NEW x \in Range(u.emits) PROVE x.object \in new \union gone
    <2>1. x \in Signals /\ Range(u.emits) \union {x} = Range(u.emits)
      BY <1>4 DEF Range
    <2> HIDE DEF new, gone
    <2>2. CASE x.signal = "added"
      BY <1>4, <2>1, <2>2, SignalNews
    <2>3. CASE x.signal = "removed"
      BY <1>4, <2>1, <2>3, SignalNews
    <2>4. QED
      BY <2>1, <2>2, <2>3, SignalNews
  <1> HIDE DEF new, gone
  <1>8. unseen' \subseteq unseen /\ unseen \subseteq unseen' \union new \union gone
    BY <1>3, <1>7
  <1>9. filtered' = (filtered \ gone) \union {o \in new : Accepts(filter, o)}
    BY <1>4, <1>6 DEF FilterAfter
  <1>10. QED
    BY <1>4, <1>8, <1>9 DEF new, gone

\* The filter still has what it accepts of the union.
LEMMA SpreadSelects ==
    ASSUME CollectionsType, FilterIsExact, NEW s \in Seq(Signals), ToldOnce(s), Spread(s),
           UNCHANGED <<filter, label>>
    PROVE  /\ counts' \in [Object -> Nat] /\ filtered' \in SUBSET Object
           /\ unseen' \in SUBSET Object /\ FilterIsExact'
  <1> DEFINE new == NewTo(counts, Range(s))
             gone == GoneFrom(counts, Range(s))
  <1>1. /\ counts' = CountsAfter(counts, Range(s))
        /\ filtered' = (filtered \ gone) \union {o \in new : Accepts(filter, o)}
        /\ unseen' \subseteq unseen /\ unseen \subseteq unseen' \union new \union gone
    BY SpreadTells
  <1>2. counts \in [Object -> Nat] /\ filtered \in SUBSET Object /\ unseen \in SUBSET Object
    BY DEF CollectionsType
  <1>3. new \subseteq Object /\ \A o \in new : counts[o] = 0
    BY DEF NewTo, News
  <1>4. News(Range(s)) \intersect Gone(Range(s)) = {}
    BY ToldOneWay
  <1>5. \A o \in Object : o \in gone <=> o \in Gone(Range(s)) /\ counts[o] = 1
    BY DEF GoneFrom
  <1>6. \A o \in Object : o \in new <=> o \in News(Range(s)) /\ counts[o] = 0
    BY DEF NewTo
  <1>7. counts' \in [Object -> Nat]
    BY <1>1, <1>2 DEF CountsAfter
  <1>8. ASSUME NEW o \in Object
        PROVE  counts'[o] > 0 <=> (counts[o] > 0 /\ o \notin gone) \/ o \in new
    <2>1. counts'[o] = IF o \in News(Range(s)) THEN counts[o] + 1
                       ELSE IF o \in Gone(Range(s)) /\ counts[o] > 0 THEN counts[o] - 1
                       ELSE counts[o]
      BY <1>1 DEF CountsAfter
    <2>2. counts[o] \in Nat
      BY <1>2
    <2> HIDE DEF new, gone
    <2>3. CASE o \in News(Range(s))
      BY <1>4, <1>5, <1>6, <2>1, <2>2, <2>3
    <2>4. CASE o \notin News(Range(s))
      BY <1>5, <1>6, <2>1, <2>2, <2>4
    <2>5. QED
      BY <2>3, <2>4
  <1>9. \A fn, o : Accepts(fn, o)' = Accepts(fn, o)
    BY DEF Accepts
  <1> HIDE DEF new, gone
  <1>10. \A o \in Object : o \in UnionItems' <=> (o \in UnionItems /\ o \notin gone) \/ o \in new
    BY <1>8 DEF UnionItems
  <1>11. UnionItems \subseteq Object /\ UnionItems' \subseteq Object /\ new \intersect UnionItems = {}
    BY <1>2, <1>3 DEF UnionItems
  <1>12. /\ filtered \subseteq UnionItems
         /\ \A o \in UnionItems \ unseen : o \in filtered <=> Accepts(filter, o)
    BY DEF FilterIsExact
  <1>13. filtered' \subseteq UnionItems'
    BY <1>1, <1>2, <1>3, <1>10, <1>12
  <1>14. ASSUME NEW o \in UnionItems' \ unseen' PROVE o \in filtered' <=> Accepts(filter, o)
    <2>1. o \in Object /\ ((o \in UnionItems /\ o \notin gone) \/ o \in new)
      BY <1>10, <1>11
    <2>2. CASE o \in new
      <3>1. o \notin filtered
        BY <1>11, <1>12, <2>2
      <3>2. QED
        BY <1>1, <2>2, <3>1
    <2>3. CASE o \in UnionItems /\ o \notin gone /\ o \notin new
      <3>1. o \notin unseen
        BY <1>1, <2>3
      <3>2. o \in filtered' <=> o \in filtered
        BY <1>1, <2>3
      <3>3. QED
        BY <1>12, <2>3, <3>1, <3>2
    <2>4. QED
      BY <2>1, <2>2, <2>3
  <1>15. FilterIsExact'
    BY <1>9, <1>13, <1>14 DEF FilterIsExact
  <1>16. QED
    BY <1>1, <1>2, <1>3, <1>7, <1>15

\* The union still counts right, when c is what holds the objects, or no longer does.
LEMMA CountsFollow ==
    ASSUME CollectionsType, UnionIsExact, CollectionsAssumption, NEW c \in Members, NEW T,
           counts' = CountsAfter(counts, T), News(T) \intersect Gone(T) = {},
           members' \in SUBSET Members,
           \A d \in Members \ {c} : \A o \in Object :
              (d \in members' /\ o \in items'[d]) <=> (d \in members /\ o \in items[d]),
           \A o \in Object : o \in News(T) =>
              (c \in members' /\ o \in items'[c]) /\ ~(c \in members /\ o \in items[c]),
           \A o \in Object : o \in Gone(T) =>
              ~(c \in members' /\ o \in items'[c]) /\ (c \in members /\ o \in items[c]),
           \A o \in Object : o \notin News(T) \union Gone(T) =>
              ((c \in members' /\ o \in items'[c]) <=> (c \in members /\ o \in items[c]))
    PROVE  UnionIsExact'
  <1> SUFFICES ASSUME NEW o \in Object
               PROVE  counts'[o] = Cardinality({d \in members' : o \in items'[d]})
    BY DEF UnionIsExact
  <1> DEFINE H == {d \in members : o \in items[d]}
             K == {d \in members' : o \in items'[d]}
  <1>1. members \subseteq Members /\ counts[o] = Cardinality(H) /\ counts[o] \in Nat
    BY DEF CollectionsType, UnionIsExact
  <1>2. IsFiniteSet(H)
    <2>1. H \subseteq Members /\ IsFiniteSet(Members)
      BY <1>1 DEF CollectionsAssumption
    <2> HIDE DEF H
    <2>2. QED
      BY <2>1, FS_Subset
  <1>3. counts'[o] = IF o \in News(T) THEN counts[o] + 1
                     ELSE IF o \in Gone(T) /\ counts[o] > 0 THEN counts[o] - 1 ELSE counts[o]
    BY DEF CountsAfter
  <1>4. CASE o \in News(T)
    <2>1. K = H \union {c} /\ c \notin H
      BY <1>1, <1>4
    <2> HIDE DEF H, K
    <2>2. Cardinality(K) = Cardinality(H) + 1
      BY <1>2, <2>1, FS_AddElement
    <2>3. QED
      BY <1>1, <1>3, <1>4, <2>2 DEF H, K
  <1>5. CASE o \in Gone(T)
    <2>1. K = H \ {c} /\ c \in H
      BY <1>1, <1>5
    <2> HIDE DEF H, K
    <2>2. Cardinality(K) = Cardinality(H) - 1 /\ Cardinality(H) # 0
      BY <1>2, <2>1, FS_RemoveElement, FS_EmptySet
    <2>3. counts[o] > 0 /\ o \notin News(T)
      BY <1>1, <1>5, <2>2
    <2>4. counts'[o] = Cardinality(K)
      BY <1>1, <1>3, <1>5, <2>2, <2>3
    <2>5. QED
      BY <2>4 DEF K
  <1>6. CASE o \notin News(T) \union Gone(T)
    <2>1. K = H
      BY <1>1, <1>6
    <2> HIDE DEF H, K
    <2>2. counts'[o] = Cardinality(K)
      BY <1>1, <1>3, <1>6, <2>1
    <2>3. QED
      BY <2>2 DEF K
  <1>7. QED
    BY <1>4, <1>5, <1>6

LEMMA TakeKeeps ==
    ASSUME CollectionsAssumption, CollectionsInv, NEW c \in Members, Take(c)
    PROVE  CollectionsInv'
  <1>1. /\ CollectionsType /\ UnionIsExact /\ FilterIsExact
        /\ c \in Members \ members /\ members' = members \union {c} /\ items' = items
        /\ Spread(AddedAll(items[c])) /\ UNCHANGED <<filter, label>>
    BY DEF CollectionsInv, CollectionsAreExact, Take
  <1>2. items[c] \in SUBSET Object /\ IsFiniteSet(items[c])
    <2>1. c \in Base
      BY DEF CollectionsAssumption, Base
    <2>2. items[c] \in SUBSET Object
      BY <1>1, <2>1 DEF CollectionsType
    <2>3. QED
      BY <2>2, FS_Subset DEF CollectionsAssumption
  <1> DEFINE s == AddedAll(items[c])
  <1>3. s \in Seq(Signals) /\ ToldOnce(s) /\ News(Range(s)) = items[c] /\ Gone(Range(s)) = {}
    BY <1>2, AddedAllTells
  <1> HIDE DEF s
  <1>4. Spread(s)
    BY <1>1 DEF s
  <1>5. /\ counts' \in [Object -> Nat] /\ filtered' \in SUBSET Object
        /\ unseen' \in SUBSET Object /\ FilterIsExact'
    BY <1>1, <1>3, <1>4, SpreadSelects
  <1>6. counts' = CountsAfter(counts, Range(s))
    BY <1>1, <1>3, <1>4, SpreadTells
  <1>7. members' \in SUBSET Members
    BY <1>1 DEF CollectionsType
  <1>8. UnionIsExact'
    <2>1. \A d \in Members \ {c} : \A o \in Object :
             (d \in members' /\ o \in items'[d]) <=> (d \in members /\ o \in items[d])
      BY <1>1
    <2>2. \A o \in Object : o \in News(Range(s)) =>
             (c \in members' /\ o \in items'[c]) /\ ~(c \in members /\ o \in items[c])
      BY <1>1, <1>3
    <2>3. \A o \in Object : o \in Gone(Range(s)) =>
             ~(c \in members' /\ o \in items'[c]) /\ (c \in members /\ o \in items[c])
      BY <1>3
    <2>4. \A o \in Object : o \notin News(Range(s)) \union Gone(Range(s)) =>
             ((c \in members' /\ o \in items'[c]) <=> (c \in members /\ o \in items[c]))
      BY <1>1, <1>3
    <2>5. News(Range(s)) \intersect Gone(Range(s)) = {}
      BY <1>3
    <2>6. QED
      BY <1>1, <1>6, <1>7, <2>1, <2>2, <2>3, <2>4, <2>5, CountsFollow
  <1>9. CollectionsType'
    BY <1>1, <1>5, <1>7 DEF CollectionsType
  <1>10. QED
    BY <1>5, <1>8, <1>9 DEF CollectionsInv, CollectionsAreExact

LEMMA DropKeeps ==
    ASSUME CollectionsAssumption, CollectionsInv, NEW c \in Members, Drop(c)
    PROVE  CollectionsInv'
  <1>1. /\ CollectionsType /\ UnionIsExact /\ FilterIsExact
        /\ c \in members /\ members' = members \ {c} /\ items' = items
        /\ Spread(RemovedAll(items[c])) /\ UNCHANGED <<filter, label>>
    BY DEF CollectionsInv, CollectionsAreExact, Drop
  <1>2. items[c] \in SUBSET Object /\ IsFiniteSet(items[c])
    <2>1. c \in Base
      BY DEF CollectionsAssumption, Base
    <2>2. items[c] \in SUBSET Object
      BY <1>1, <2>1 DEF CollectionsType
    <2>3. QED
      BY <2>2, FS_Subset DEF CollectionsAssumption
  <1> DEFINE s == RemovedAll(items[c])
  <1>3. s \in Seq(Signals) /\ ToldOnce(s) /\ News(Range(s)) = {} /\ Gone(Range(s)) = items[c]
    BY <1>2, RemovedAllTells
  <1> HIDE DEF s
  <1>4. Spread(s)
    BY <1>1 DEF s
  <1>5. /\ counts' \in [Object -> Nat] /\ filtered' \in SUBSET Object
        /\ unseen' \in SUBSET Object /\ FilterIsExact'
    BY <1>1, <1>3, <1>4, SpreadSelects
  <1>6. counts' = CountsAfter(counts, Range(s))
    BY <1>1, <1>3, <1>4, SpreadTells
  <1>7. members' \in SUBSET Members
    BY <1>1 DEF CollectionsType
  <1>8. UnionIsExact'
    <2>1. \A d \in Members \ {c} : \A o \in Object :
             (d \in members' /\ o \in items'[d]) <=> (d \in members /\ o \in items[d])
      BY <1>1
    <2>2. \A o \in Object : o \in News(Range(s)) =>
             (c \in members' /\ o \in items'[c]) /\ ~(c \in members /\ o \in items[c])
      BY <1>3
    <2>3. \A o \in Object : o \in Gone(Range(s)) =>
             ~(c \in members' /\ o \in items'[c]) /\ (c \in members /\ o \in items[c])
      BY <1>1, <1>3
    <2>4. \A o \in Object : o \notin News(Range(s)) \union Gone(Range(s)) =>
             ((c \in members' /\ o \in items'[c]) <=> (c \in members /\ o \in items[c]))
      BY <1>1, <1>3
    <2>5. News(Range(s)) \intersect Gone(Range(s)) = {}
      BY <1>3
    <2>6. QED
      BY <1>1, <1>6, <1>7, <2>1, <2>2, <2>3, <2>4, <2>5, CountsFollow
  <1>9. CollectionsType'
    BY <1>1, <1>5, <1>7 DEF CollectionsType
  <1>10. QED
    BY <1>5, <1>8, <1>9 DEF CollectionsInv, CollectionsAreExact

\* The signals tell of what was not there, and of what was.
Plausible(c, s) ==
    /\ s \in Seq(Signals) /\ ToldOnce(s)
    /\ News(Range(s)) \intersect items[c] = {} /\ Gone(Range(s)) \subseteq items[c]

LEMMA EmittedKeeps ==
    ASSUME CollectionsAssumption, CollectionsInv, NEW c \in Base, NEW s, Plausible(c, s),
           Emitted(c, s)
    PROVE  CollectionsInv'
  <1>1. /\ CollectionsType /\ UnionIsExact /\ FilterIsExact
        /\ items' = [items EXCEPT ![c] = {o \in Object : \/ o \in @ /\ RemovedSignal(o) \notin Range(s)
                                                        \/ AddedSignal(o) \in Range(s)}]
        /\ members' = members /\ Spread(Heard(c, s)) /\ UNCHANGED <<filter, label>>
    BY DEF CollectionsInv, CollectionsAreExact, Emitted
  <1>2. /\ items \in [Base -> SUBSET Object] /\ members \in SUBSET Members /\ Members \subseteq Base
    BY <1>1 DEF CollectionsType, CollectionsAssumption, Base
  <1>3. /\ s \in Seq(Signals) /\ ToldOnce(s)
        /\ News(Range(s)) \intersect items[c] = {} /\ Gone(Range(s)) \subseteq items[c]
    BY DEF Plausible
  <1>4. /\ items' \in [Base -> SUBSET Object] /\ \A d \in Base \ {c} : items'[d] = items[d]
        /\ \A o \in Object : o \in items'[c] <=>
              (o \in items[c] /\ o \notin Gone(Range(s))) \/ o \in News(Range(s))
    BY <1>1, <1>2 DEF News, Gone
  <1>5. members' \in SUBSET Members
    BY <1>1, <1>2
  <1>6. Heard(c, s) \in Seq(Signals) /\ ToldOnce(Heard(c, s))
    BY <1>3, OneTells DEF Heard, ToldOnce
  <1>7. /\ counts' \in [Object -> Nat] /\ filtered' \in SUBSET Object
        /\ unseen' \in SUBSET Object /\ FilterIsExact'
    BY <1>1, <1>6, SpreadSelects
  <1>8. counts' = CountsAfter(counts, Range(Heard(c, s)))
    BY <1>1, <1>6, SpreadTells
  <1>9. UnionIsExact'
    <2>1. CASE c \in members
      <3>1. counts' = CountsAfter(counts, Range(s)) /\ c \in Members
        BY <1>2, <1>8, <2>1 DEF Heard
      <3>2. \A d \in Members \ {c} : \A o \in Object :
               (d \in members' /\ o \in items'[d]) <=> (d \in members /\ o \in items[d])
        BY <1>1, <1>2, <1>4
      <3>3. \A o \in Object : o \in News(Range(s)) =>
               (c \in members' /\ o \in items'[c]) /\ ~(c \in members /\ o \in items[c])
        BY <1>1, <1>3, <1>4, <2>1
      <3>4. News(Range(s)) \intersect Gone(Range(s)) = {}
        BY <1>3
      <3>5. \A o \in Object : o \in Gone(Range(s)) =>
               ~(c \in members' /\ o \in items'[c]) /\ (c \in members /\ o \in items[c])
        BY <1>3, <1>4, <2>1, <3>4
      <3>6. \A o \in Object : o \notin News(Range(s)) \union Gone(Range(s)) =>
               ((c \in members' /\ o \in items'[c]) <=> (c \in members /\ o \in items[c]))
        BY <1>1, <1>4
      <3>7. QED
        BY <1>1, <1>5, <3>1, <3>2, <3>3, <3>4, <3>5, <3>6, CountsFollow
    <2>2. CASE c \notin members
      <3>1. News({}) = {} /\ Gone({}) = {} /\ Range(<< >>) = {}
        BY RangeEmpty DEF News, Gone
      <3>2. counts' = counts
        BY <1>1, <1>8, <2>2, <3>1 DEF Heard, CountsAfter, CollectionsType
      <3>3. ASSUME NEW o \in Object
            PROVE  {d \in members' : o \in items'[d]} = {d \in members : o \in items[d]}
        BY <1>1, <1>2, <1>4, <2>2
      <3>4. QED
        BY <1>1, <3>2, <3>3 DEF UnionIsExact
    <2>3. QED
      BY <2>1, <2>2
  <1>10. CollectionsType'
    BY <1>4, <1>5, <1>7 DEF CollectionsType
  <1>11. QED
    BY <1>7, <1>9, <1>10 DEF CollectionsInv, CollectionsAreExact

LEMMA ChangesArePlausible ==
    ASSUME CollectionsAssumption, CollectionsType, NEW c \in Base
    PROVE  /\ \A o \in Object : Plausible(c, SimpleChange(c, o))
           /\ \A new \in SUBSET Object : Plausible(c, SingleChange(c, new))
  <1>1. items[c] \in SUBSET Object
    BY DEF CollectionsType
  <1>2. ASSUME NEW o \in Object PROVE Plausible(c, SimpleChange(c, o))
    <2>1. CASE o \in items[c]
      <3>1. SimpleChange(c, o) = <<RemovedSignal(o)>>
        BY <2>1 DEF SimpleChange
      <3>2. /\ <<RemovedSignal(o)>> \in Seq(Signals) /\ ToldOnce(<<RemovedSignal(o)>>)
            /\ News(Range(<<RemovedSignal(o)>>)) = {} /\ Gone(Range(<<RemovedSignal(o)>>)) = {o}
        BY OneTells
      <3>3. Plausible(c, <<RemovedSignal(o)>>)
        BY <2>1, <3>2 DEF Plausible
      <3>4. QED
        BY <3>1, <3>3
    <2>2. CASE o \notin items[c]
      <3>1. SimpleChange(c, o) = <<AddedSignal(o)>>
        BY <2>2 DEF SimpleChange
      <3>2. /\ <<AddedSignal(o)>> \in Seq(Signals) /\ ToldOnce(<<AddedSignal(o)>>)
            /\ News(Range(<<AddedSignal(o)>>)) = {o} /\ Gone(Range(<<AddedSignal(o)>>)) = {}
        BY OneTells
      <3>3. Plausible(c, <<AddedSignal(o)>>)
        BY <2>2, <3>2 DEF Plausible
      <3>4. QED
        BY <3>1, <3>3
    <2>3. QED
      BY <2>1, <2>2
  <1>3. ASSUME NEW new \in SUBSET Object PROVE Plausible(c, SingleChange(c, new))
    <2> DEFINE R == items[c] \ new
               A == new \ items[c]
    <2>1. R \in SUBSET Object /\ A \in SUBSET Object /\ R \intersect A = {}
      BY <1>1
    <2>2. IsFiniteSet(R) /\ IsFiniteSet(A)
      BY <2>1, FS_Subset DEF CollectionsAssumption
    <2>3. SingleChange(c, new) = RemovedAll(R) \o AddedAll(A)
      BY DEF SingleChange
    <2>4. R \subseteq items[c] /\ A \intersect items[c] = {}
      OBVIOUS
    <2> HIDE DEF R, A
    <2>5. QED
      BY <2>1, <2>2, <2>3, <2>4, BothTell DEF Plausible
  <1>4. QED
    BY <1>2, <1>3

LEMMA SetCallbackKeeps ==
    ASSUME CollectionsAssumption, CollectionsInv, NEW fn, SetCallback(fn)
    PROVE  CollectionsInv'
  <1>1. /\ CollectionsType /\ UnionIsExact /\ FilterIsExact
        /\ filter' = fn /\ filtered' = SymDiff(filtered, Range(Refiltered(fn)))
        /\ unseen' = {} /\ UNCHANGED <<items, members, counts, label>>
    BY DEF CollectionsInv, CollectionsAreExact, SetCallback
  <1> DEFINE changed == {o \in UnionItems : Accepts(fn, o) # (o \in filtered)}
             left == filtered \ UnionItems
  <1>2. changed \in SUBSET Object /\ left \in SUBSET Object /\ filtered \subseteq UnionItems
        /\ UnionItems \subseteq Object
    BY <1>1 DEF UnionItems, CollectionsType, FilterIsExact
  <1>3. IsFiniteSet(changed) /\ IsFiniteSet(left)
    BY <1>2, FS_Subset DEF CollectionsAssumption
  <1>4. Refiltered(fn) = SetToSeq(changed) \o SetToSeq(left)
    BY DEF Refiltered
  <1>5. left = {} /\ \A o \in UnionItems : o \in changed <=> (Accepts(fn, o) # (o \in filtered))
    BY <1>2
  <1> HIDE DEF changed, left
  <1>6. /\ SetToSeq(changed) \in Seq(changed) /\ Range(SetToSeq(changed)) = changed
        /\ SetToSeq(left) \in Seq(left) /\ Range(SetToSeq(left)) = left
    BY <1>3, SetToSeqLists
  <1>7. SetToSeq(changed) \in Seq(Object) /\ SetToSeq(left) \in Seq(Object)
    BY <1>2, <1>6
  <1>8. Range(Refiltered(fn)) = changed
    <2>1. Range(Refiltered(fn)) = Range(SetToSeq(changed)) \union Range(SetToSeq(left))
      BY <1>4, <1>7, RangeConcatenation
    <2>2. QED
      BY <1>5, <1>6, <2>1
  <1>9. changed \subseteq UnionItems
    BY DEF changed
  <1>10. \A o \in UnionItems : Accepts(fn, o) \in BOOLEAN
    BY DEF Accepts
  <1>11. filtered' = {o \in UnionItems : Accepts(fn, o)}
    BY <1>1, <1>2, <1>5, <1>8, <1>9, <1>10 DEF SymDiff
  <1>12. UnionItems' = UnionItems /\ \A o : Accepts(filter, o)' <=> Accepts(fn, o)
    BY <1>1 DEF UnionItems, Accepts
  <1>13. FilterIsExact'
    BY <1>11, <1>12 DEF FilterIsExact
  <1>14. UnionIsExact'
    BY <1>1 DEF UnionIsExact
  <1>15. CollectionsType'
    BY <1>1, <1>2, <1>11 DEF CollectionsType
  <1>16. QED
    BY <1>13, <1>14, <1>15 DEF CollectionsInv, CollectionsAreExact

LEMMA SetLabelKeeps ==
    ASSUME CollectionsInv, NEW o \in Object, NEW v, SetLabel(o, v)
    PROVE  CollectionsInv'
  <1>1. /\ CollectionsType /\ UnionIsExact /\ FilterIsExact
        /\ label' = [label EXCEPT ![o] = v] /\ unseen' = unseen \union {o}
        /\ UNCHANGED <<items, members, counts, filtered, filter>>
    BY DEF CollectionsInv, CollectionsAreExact, SetLabel
  <1>2. CollectionsType' /\ UnionIsExact' /\ UnionItems' = UnionItems
    BY <1>1 DEF CollectionsType, UnionIsExact, UnionItems
  <1>3. \A p : p # o => (Accepts(filter, p)' <=> Accepts(filter, p))
    BY <1>1 DEF Accepts
  <1>4. FilterIsExact'
    BY <1>1, <1>2, <1>3 DEF FilterIsExact
  <1>5. QED
    BY <1>2, <1>4 DEF CollectionsInv, CollectionsAreExact

LEMMA CollectionsInitInv ==
    ASSUME CollectionsAssumption, CollectionsInit
    PROVE  CollectionsInv
  <1>1. CollectionsType
    BY DEF CollectionsInit, CollectionsType
  <1>2. UnionIsExact
    BY FS_EmptySet DEF CollectionsInit, UnionIsExact
  <1>3. FilterIsExact
    BY DEF CollectionsInit, FilterIsExact, UnionItems
  <1>4. QED
    BY <1>1, <1>2, <1>3 DEF CollectionsInv, CollectionsAreExact

LEMMA CollectionsStepInv ==
    ASSUME CollectionsAssumption, CollectionsInv, [CollectionsNext]_collectionVars
    PROVE  CollectionsInv'
  <1>1. Simple \subseteq Base /\ Single \subseteq Base
    BY DEF Base
  <1>2. CollectionsType
    BY DEF CollectionsInv
  <1>3. ASSUME NEW c \in Simple, NEW o \in Object, Emitted(c, SimpleChange(c, o))
        PROVE  CollectionsInv'
    <2>1. c \in Base /\ Plausible(c, SimpleChange(c, o))
      BY <1>1, <1>2, ChangesArePlausible
    <2>2. QED
      BY <1>3, <2>1, EmittedKeeps
  <1>4. ASSUME NEW c \in Single, NEW new \in {{}} \union {{o} : o \in Object},
               Emitted(c, SingleChange(c, new))
        PROVE  CollectionsInv'
    <2>1. c \in Base /\ new \in SUBSET Object
      BY <1>1
    <2>2. Plausible(c, SingleChange(c, new))
      BY <1>2, <2>1, ChangesArePlausible
    <2>3. QED
      BY <1>4, <2>1, <2>2, EmittedKeeps
  <1>5. ASSUME NEW c \in Members, Take(c) \/ Drop(c) PROVE CollectionsInv'
    BY <1>5, TakeKeeps, DropKeeps
  <1>6. ASSUME NEW fn \in {"all", "low"}, SetCallback(fn) PROVE CollectionsInv'
    BY <1>6, SetCallbackKeeps
  <1>7. ASSUME NEW o \in Object, NEW v \in Label, SetLabel(o, v) PROVE CollectionsInv'
    BY <1>7, SetLabelKeeps
  <1>8. CASE UNCHANGED collectionVars
    BY <1>8 DEF collectionVars, CollectionsInv, CollectionsType, CollectionsAreExact,
                UnionIsExact, FilterIsExact, UnionItems, Accepts
  <1>9. QED
    BY <1>3, <1>4, <1>5, <1>6, <1>7, <1>8 DEF CollectionsNext

\* The union of collections counts every object once for each member that has it, and
\* the filter has exactly what its callback accepts of the union, whatever is added,
\* removed, taken, dropped or set (gcr-union-collection.c, gcr-filter-collection.c).
THEOREM CollectionsStayExact == CollectionsSpec => []CollectionsAreExact
  <1>1. CollectionsInit => CollectionsInv
    BY CollectionsAssumption, CollectionsInitInv
  <1>2. CollectionsInv /\ [CollectionsNext]_collectionVars => CollectionsInv'
    BY CollectionsAssumption, CollectionsStepInv
  <1>3. CollectionsInv => CollectionsAreExact
    BY DEF CollectionsInv
  <1>4. QED
    BY <1>1, <1>2, <1>3, PTL DEF CollectionsSpec

-----------------------------------------------------------------------------
(* Imports.  Lists of attributes.                                          *)

Ids == {NoId} \union (Nat \X (Item \union {Pair[i] : i \in Item}))
Attr == [item : Item, id : Ids, token : BOOLEAN]

ItemsOnce(q) == \A m, n \in DOMAIN q : q[m].item = q[n].item => m = n

LEMMA ItemsAre ==
    ASSUME NEW q \in Seq(Attr)
    PROVE  Items(q) = {a.item : a \in Range(q)} /\ Range(q) \subseteq Attr /\ Items(q) \subseteq Item
  <1>1. \A n \in DOMAIN q : q[n] \in Attr
    OBVIOUS
  <1>2. \A a \in Attr : a.item \in Item
    BY DEF Attr
  <1>3. QED
    BY <1>1, <1>2 DEF Items, Range

LEMMA ItemsEmpty ==
    /\ << >> \in Seq(Attr) /\ Items(<< >>) = {} /\ Range(<< >>) = {} /\ ItemsOnce(<< >>)
  BY RangeEmpty DEF Items, ItemsOnce

LEMMA ItemsAppend ==
    ASSUME NEW q \in Seq(Attr), NEW a \in Attr
    PROVE  /\ Append(q, a) \in Seq(Attr)
           /\ Range(Append(q, a)) = Range(q) \union {a}
           /\ Items(Append(q, a)) = Items(q) \union {a.item}
           /\ ItemsOnce(q) /\ a.item \notin Items(q) => ItemsOnce(Append(q, a))
  <1> DEFINE r == Append(q, a)
  <1>1. /\ r \in Seq(Attr) /\ Len(r) = Len(q) + 1 /\ Len(q) \in Nat
        /\ DOMAIN r = 1 .. Len(q) + 1 /\ DOMAIN q = 1 .. Len(q)
        /\ r[Len(q) + 1] = a
    OBVIOUS
  <1>2. \A n \in DOMAIN q : r[n] = q[n]
    OBVIOUS
  <1> HIDE DEF r
  <1>3. Range(r) = Range(q) \union {a}
    BY RangeAppend DEF r
  <1>4. Items(r) = Items(q) \union {a.item}
    BY <1>1, <1>3, ItemsAre
  <1>5. ASSUME ItemsOnce(q), a.item \notin Items(q) PROVE ItemsOnce(r)
    <2> SUFFICES ASSUME NEW m \in DOMAIN r, NEW n \in DOMAIN r, r[m].item = r[n].item
                 PROVE  m = n
      BY DEF ItemsOnce
    <2>1. \A k \in DOMAIN q : r[k].item # a.item
      BY <1>2, <1>5 DEF Items
    <2>2. \A k \in DOMAIN r : k \in DOMAIN q \/ k = Len(q) + 1
      BY <1>1
    <2>3. CASE m \in DOMAIN q /\ n \in DOMAIN q
      BY <1>2, <1>5, <2>3 DEF ItemsOnce
    <2>4. CASE m = Len(q) + 1 /\ n \in DOMAIN q
      BY <1>1, <2>1, <2>4
    <2>5. CASE m \in DOMAIN q /\ n = Len(q) + 1
      BY <1>1, <2>1, <2>5
    <2>6. QED
      BY <2>2, <2>3, <2>4, <2>5
  <1>6. QED
    BY <1>1, <1>3, <1>4, <1>5 DEF r

LEMMA ItemsHeadTail ==
    ASSUME NEW q \in Seq(Attr), q # << >>
    PROVE  /\ Head(q) \in Attr /\ Tail(q) \in Seq(Attr) /\ <<Head(q)>> \in Seq(Attr)
           /\ Range(q) = {Head(q)} \union Range(Tail(q)) /\ Range(<<Head(q)>>) = {Head(q)}
           /\ Items(q) = {Head(q).item} \union Items(Tail(q))
           /\ Items(<<Head(q)>>) = {Head(q).item}
           /\ ItemsOnce(q) => ItemsOnce(Tail(q)) /\ Head(q).item \notin Items(Tail(q))
  <1> DEFINE h == Head(q)
             t == Tail(q)
  <1>1. /\ h \in Attr /\ t \in Seq(Attr) /\ Len(q) \in Nat \ {0} /\ h = q[1]
        /\ Len(t) = Len(q) - 1 /\ DOMAIN t = 1 .. Len(q) - 1 /\ DOMAIN q = 1 .. Len(q)
    OBVIOUS
  <1>2. \A n \in DOMAIN t : n + 1 \in DOMAIN q /\ n + 1 # 1 /\ t[n] = q[n + 1]
    OBVIOUS
  <1>3. Range(q) = {h} \union Range(t)
    BY RangeHeadTail
  <1>4. <<h>> \in Seq(Attr) /\ Range(<<h>>) = {h}
    <2>1. h \in Attr
      BY <1>1
    <2> HIDE DEF h
    <2>2. <<h>> \in Seq(Attr) /\ DOMAIN <<h>> = {1} /\ <<h>>[1] = h
      BY <2>1
    <2>3. QED
      BY <2>2 DEF Range
  <1> HIDE DEF h, t
  <1>5. Items(q) = {h.item} \union Items(t) /\ Items(<<h>>) = {h.item}
    BY <1>1, <1>3, <1>4, ItemsAre
  <1>6. ASSUME ItemsOnce(q) PROVE ItemsOnce(t) /\ h.item \notin Items(t)
    <2>1. ItemsOnce(t)
      <3> SUFFICES ASSUME NEW m \in DOMAIN t, NEW n \in DOMAIN t, t[m].item = t[n].item
                   PROVE  m = n
        BY DEF ItemsOnce
      <3>1. m + 1 = n + 1
        BY <1>2, <1>6 DEF ItemsOnce
      <3>2. QED
        BY <1>1, <3>1
    <2>2. ASSUME NEW n \in DOMAIN t PROVE t[n].item # h.item
      <3>1. n + 1 \in DOMAIN q /\ 1 \in DOMAIN q /\ n + 1 # 1 /\ t[n] = q[n + 1] /\ h = q[1]
        BY <1>1, <1>2
      <3>2. q[n + 1].item # q[1].item
        BY <1>6, <3>1 DEF ItemsOnce
      <3>3. QED
        BY <3>1, <3>2
    <2>3. QED
      BY <2>1, <2>2 DEF Items
  <1>7. QED
    BY <1>1, <1>3, <1>4, <1>5, <1>6 DEF h, t

\* A list with each item once is as long as it has items.
LEMMA ItemsCounted ==
    ASSUME NEW q \in Seq(Attr), ItemsOnce(q)
    PROVE  Len(q) = Cardinality(Items(q))
  <1> DEFINE n == Len(q)
             f == [i \in 1 .. n |-> q[i].item]
  <1>1. n \in Nat /\ DOMAIN q = 1 .. n
    OBVIOUS
  <1>2. IsFiniteSet(1 .. n) /\ Cardinality(1 .. n) = n
    BY <1>1, FS_Interval
  <1>3. f \in Surjection(1 .. n, Items(q))
    BY <1>1 DEF Surjection, Items
  <1>4. f \in Injection(1 .. n, Items(q))
    BY <1>1, <1>3 DEF Surjection, Injection, IsInjective, ItemsOnce
  <1>5. Cardinality(Items(q)) = Cardinality(1 .. n)
    BY <1>2, <1>3, <1>4, FS_Surjection
  <1>6. QED
    BY <1>2, <1>5

\* What is kept of a list whose elements have different keys has different keys.
LEMMA KeptDiffers ==
    ASSUME NEW X, NEW s \in Seq(X), NEW S, NEW K,
           \A i, j \in DOMAIN s : K[s[i]] = K[s[j]] => i = j
    PROVE  \A i, j \in DOMAIN Kept(s, S) : K[Kept(s, S)[i]] = K[Kept(s, S)[j]] => i = j
  <1> DEFINE n == Len(s)
             Differs(l) == \A i, j \in DOMAIN l : K[l[i]] = K[l[j]] => i = j
             Upto(i) == {s[j] : j \in 1 .. i}
  <1>1. n \in Nat /\ DOMAIN s = 1 .. n /\ << >> \in Seq(X) /\ \A i \in 1 .. n : s[i] \in X
    OBVIOUS
  <1>2. PICK kept : /\ kept[0] = << >> /\ Kept(s, S) = kept[n]
                    /\ \A i \in 1 .. n :
                          kept[i] = IF s[i] \in S THEN Append(kept[i - 1], s[i])
                                                  ELSE kept[i - 1]
    BY KeptSteps
  <1> DEFINE Good == {i \in 0 .. n : /\ kept[i] \in Seq(X) /\ Range(kept[i]) \subseteq Upto(i)
                                     /\ Differs(kept[i])}
  <1>3. 0 \in Good
    <2>1. Differs(<< >>)
      OBVIOUS
    <2> HIDE DEF Upto, Differs
    <2>2. kept[0] \in Seq(X) /\ Range(kept[0]) \subseteq Upto(0) /\ Differs(kept[0])
      BY <1>1, <1>2, <2>1, RangeEmpty
    <2>3. QED
      BY <1>1, <2>2
  <1>4. ASSUME NEW i \in 1 .. n, i - 1 \in Good PROVE i \in Good
    <2> DEFINE l == kept[i - 1]
               x == s[i]
    <2>1. i \in 0 .. n /\ x \in X /\ i \in 1 .. i
      BY <1>1
    <2>2. l \in Seq(X) /\ Range(l) \subseteq Upto(i - 1) /\ Differs(l)
      BY <1>4
    <2>3. \A j \in 1 .. i - 1 : j \in 1 .. i /\ j \in 1 .. n /\ j # i
      BY <1>1
    <2>4. Upto(i - 1) \subseteq Upto(i) /\ x \in Upto(i)
      BY <2>1, <2>3
    <2>5. \A y \in Upto(i - 1) : K[y] # K[x]
      BY <1>1, <2>3
    <2>6. kept[i] = IF x \in S THEN Append(l, x) ELSE l
      BY <1>2
    <2> HIDE DEF l, x, Upto
    <2>7. CASE x \in S
      <3> DEFINE m == Append(l, x)
      <3>1. m \in Seq(X) /\ Range(m) = Range(l) \union {x}
        BY <2>1, <2>2, RangeAppend
      <3>2. /\ Len(l) \in Nat /\ DOMAIN l = 1 .. Len(l) /\ DOMAIN m = 1 .. Len(l) + 1
            /\ m[Len(l) + 1] = x /\ \A j \in DOMAIN l : m[j] = l[j]
        BY <2>1, <2>2
      <3>3. \A j \in DOMAIN l : l[j] \in Upto(i - 1)
        BY <2>2 DEF Range
      <3> HIDE DEF m
      <3>4. \A j \in DOMAIN l : K[m[j]] # K[m[Len(l) + 1]]
        BY <2>5, <3>2, <3>3
      <3>5. \A j \in DOMAIN m : j \in DOMAIN l \/ j = Len(l) + 1
        BY <3>2
      <3>6. \A j, k \in DOMAIN l : K[m[j]] = K[m[k]] => j = k
        BY <2>2, <3>2
      <3>7. Differs(m)
        BY <3>4, <3>5, <3>6
      <3> HIDE DEF Differs
      <3>8. kept[i] = m
        BY <2>6, <2>7 DEF m
      <3>9. Range(m) \subseteq Upto(i)
        BY <2>2, <2>4, <3>1
      <3>10. QED
        BY <2>1, <3>1, <3>7, <3>8, <3>9
    <2>8. CASE x \notin S
      <3> HIDE DEF Differs
      <3>1. kept[i] = l /\ Range(l) \subseteq Upto(i)
        BY <2>2, <2>4, <2>6, <2>8
      <3>2. QED
        BY <2>1, <2>2, <3>1
    <2>9. QED
      BY <2>7, <2>8
  <1>5. n \in Good
    <2> HIDE DEF Good
    <2>1. \A i \in 0 .. n : i \in Good
      BY <1>1, <1>3, <1>4, Induction
    <2>2. QED
      BY <1>1, <2>1
  <1>6. QED
    BY <1>2, <1>5

LEMMA ItemsKept ==
    ASSUME NEW q \in Seq(Attr), NEW S
    PROVE  /\ Kept(q, S) \in Seq(Attr) /\ Range(Kept(q, S)) = Range(q) \intersect S
           /\ ItemsOnce(q) => ItemsOnce(Kept(q, S))
  <1>1. Kept(q, S) \in Seq(Attr) /\ Range(Kept(q, S)) = Range(q) \intersect S
    BY KeptKeeps
  <1>2. ASSUME ItemsOnce(q) PROVE ItemsOnce(Kept(q, S))
    <2> DEFINE K == [a \in Attr |-> a.item]
               r == Kept(q, S)
    <2>1. \A i \in DOMAIN q : q[i] \in Attr
      OBVIOUS
    <2>2. \A i, j \in DOMAIN q : K[q[i]] = K[q[j]] => i = j
      BY <1>2, <2>1 DEF ItemsOnce
    <2>3. \A i \in DOMAIN r : r[i] \in Attr /\ K[r[i]] = r[i].item
      BY <1>1
    <2> HIDE DEF K
    <2>4. \A i, j \in DOMAIN Kept(q, S) : K[Kept(q, S)[i]] = K[Kept(q, S)[j]] => i = j
      BY <2>2, KeptDiffers
    <2>5. QED
      BY <2>3, <2>4 DEF ItemsOnce
  <1>3. QED
    BY <1>1, <1>2

\* The attributes in a list with each item once are told apart by their items.
LEMMA ItemsTell ==
    ASSUME NEW q \in Seq(Attr), ItemsOnce(q), NEW a \in Range(q), NEW b \in Range(q),
           a.item = b.item
    PROVE  a = b
  BY DEF ItemsOnce, Range

LEMMA ItemsConcat ==
    ASSUME NEW q \in Seq(Attr), NEW r \in Seq(Attr), ItemsOnce(q), ItemsOnce(r),
           Items(q) \intersect Items(r) = {}
    PROVE  /\ q \o r \in Seq(Attr) /\ ItemsOnce(q \o r)
           /\ Range(q \o r) = Range(q) \union Range(r)
  <1> DEFINE l == q \o r
  <1>1. /\ l \in Seq(Attr) /\ Len(q) \in Nat /\ Len(r) \in Nat /\ Len(l) = Len(q) + Len(r)
        /\ DOMAIN l = 1 .. Len(l) /\ DOMAIN q = 1 .. Len(q) /\ DOMAIN r = 1 .. Len(r)
    OBVIOUS
  <1>2. /\ \A i \in DOMAIN q : l[i] = q[i]
        /\ \A i \in DOMAIN l : i \notin DOMAIN q =>
              i - Len(q) \in DOMAIN r /\ l[i] = r[i - Len(q)]
    OBVIOUS
  <1>3. Range(l) = Range(q) \union Range(r)
    BY RangeConcatenation
  <1> HIDE DEF l
  <1>4. ItemsOnce(l)
    <2> SUFFICES ASSUME NEW i \in DOMAIN l, NEW j \in DOMAIN l, l[i].item = l[j].item
                 PROVE  i = j
      BY DEF ItemsOnce
    <2>1. CASE i \in DOMAIN q /\ j \in DOMAIN q
      BY <1>2, <2>1 DEF ItemsOnce
    <2>2. CASE i \notin DOMAIN q /\ j \notin DOMAIN q
      <3>1. i - Len(q) = j - Len(q)
        BY <1>2, <2>2 DEF ItemsOnce
      <3>2. QED
        BY <1>1, <3>1
    <2>3. CASE i \in DOMAIN q /\ j \notin DOMAIN q
      <3>1. l[i].item \in Items(q)
        BY <1>2, <2>3 DEF Items
      <3>2. l[j].item \in Items(r)
        BY <1>2, <2>3 DEF Items
      <3>3. QED
        BY <3>1, <3>2
    <2>4. CASE i \notin DOMAIN q /\ j \in DOMAIN q
      <3>1. l[i].item \in Items(r)
        BY <1>2, <2>4 DEF Items
      <3>2. l[j].item \in Items(q)
        BY <1>2, <2>4 DEF Items
      <3>3. QED
        BY <3>1, <3>2
    <2>5. QED
      BY <2>1, <2>2, <2>3, <2>4
  <1>5. QED
    BY <1>1, <1>3, <1>4 DEF l

-----------------------------------------------------------------------------
(* Imports.  The ids.                                                      *)

Named == Item \union {Pair[i] : i \in Item}

LEMMA WithIdIs ==
    ASSUME pass \in Nat, NEW a \in Attr, NEW of \in Named
    PROVE  /\ WithId(a, of) \in Attr /\ WithId(a, of).item = a.item
           /\ WithId(a, of).id = IF a.id = NoId THEN <<pass + 1, of>> ELSE a.id
           /\ <<pass + 1, of>> # NoId
  <1>1. <<pass + 1, of>> \in Ids /\ <<pass + 1, of>> # NoId
    BY DEF Ids, NoId, Named
  <1>2. QED
    BY <1>1 DEF WithId, Attr

LEMMA FirstIs ==
    ASSUME NEW q \in Seq(Attr), NEW fp, NEW class, OfClass(q, fp, class) # << >>
    PROVE  /\ First(q, fp, class) \in Range(q) /\ First(q, fp, class) \in Attr
           /\ Pair[First(q, fp, class).item] = fp /\ Class[First(q, fp, class).item] = class
  <1> DEFINE S == {a \in Range(q) : Pair[a.item] = fp /\ Class[a.item] = class}
             l == OfClass(q, fp, class)
  <1>1. l \in Seq(Attr) /\ Range(l) = Range(q) \intersect S
    BY ItemsKept DEF OfClass
  <1> HIDE DEF l
  <1>2. Head(l) \in Range(l)
    BY <1>1, RangeHeadTail DEF l
  <1>3. First(q, fp, class) \in S
    BY <1>1, <1>2 DEF First, l
  <1>4. QED
    BY <1>3, ItemsAre

LEMMA OfThere ==
    ASSUME NEW q \in Seq(Attr), NEW a \in Range(q)
    PROVE  OfClass(q, Pair[a.item], Class[a.item]) # << >>
  <1> DEFINE l == OfClass(q, Pair[a.item], Class[a.item])
  <1>1. a \in Range(l)
    BY ItemsKept DEF OfClass
  <1>2. QED
    BY <1>1, RangeEmpty

\* What the id of an attribute in a list is the id of.
Owner(q, a) ==
    IF IsPair(q, Pair[a.item]) /\ a \in Couple(q, Pair[a.item]) THEN Pair[a.item] ELSE a.item

LEMMA CoupleIs ==
    ASSUME NEW q \in Seq(Attr), NEW fp, IsPair(q, fp), NEW a \in Couple(q, fp)
    PROVE  /\ a \in Range(q) /\ Pair[a.item] = fp /\ fp \in Fingerprints(q)
           /\ Class[a.item] \in {"certificate", "key"}
  <1>1. a \in Range(q) /\ Pair[a.item] = fp /\ Class[a.item] \in {"certificate", "key"}
    BY FirstIs DEF Couple, IsPair
  <1>2. fp \in Fingerprints(q)
    BY <1>1 DEF Range, IsPair, Fingerprints
  <1>3. QED
    BY <1>1, <1>2

\* The order of the pairs names each fingerprint once.
LEMMA OrderIs ==
    ASSUME NEW q \in Seq(Attr), NEW order \in SetToSeqs(Fingerprints(q)), NEW S
    PROVE  /\ Range(order) = Fingerprints(q)
           /\ Kept(order, S) \in Seq(Fingerprints(q))
           /\ Range(Kept(order, S)) = Fingerprints(q) \intersect S
           /\ \A i, j \in DOMAIN Kept(order, S) : Kept(order, S)[i] = Kept(order, S)[j] => i = j
  <1> DEFINE F == Fingerprints(q)
             n == Cardinality(F)
             K == [fp \in F |-> fp]
             l == Kept(order, S)
  <1>1. IsFiniteSet(F)
    <2>1. IsFiniteSet(DOMAIN q)
      BY FS_Interval
    <2>2. IsFiniteSet({Pair[q[i].item] : i \in DOMAIN q})
      <3> DEFINE T == {Pair[q[i].item] : i \in DOMAIN q}
                 f == [i \in DOMAIN q |-> Pair[q[i].item]]
      <3>1. f \in Surjection(DOMAIN q, T)
        BY DEF Surjection
      <3> HIDE DEF T, f
      <3>2. IsFiniteSet(T)
        BY <2>1, <3>1, FS_Surjection
      <3>3. QED
        BY <3>2 DEF T
    <2>3. QED
      BY <2>2, FS_Difference DEF Fingerprints
  <1> HIDE DEF F
  <1>2. n \in Nat /\ IsFiniteSet(1 .. n) /\ Cardinality(1 .. n) = n
    BY <1>1, FS_CardinalityType, FS_Interval
  <1>3. order \in [1 .. n -> F] /\ IsInjective(order)
    BY DEF SetToSeqs, IsInjective, F
  <1>4. order \in Seq(F) /\ DOMAIN order = 1 .. n
    BY <1>2, <1>3
  <1>5. order \in Injection(1 .. n, F)
    BY <1>3 DEF Injection
  <1>6. order \in Surjection(1 .. n, F)
    BY <1>1, <1>2, <1>5, FS_Injection
  <1>7. Range(order) = F
    BY <1>3, <1>6 DEF Surjection, Range
  <1>8. l \in Seq(F) /\ Range(l) = F \intersect S
    BY <1>4, <1>7, KeptKeeps
  <1>9. \A i, j \in DOMAIN order : K[order[i]] = K[order[j]] => i = j
    BY <1>3, <1>4 DEF IsInjective
  <1>10. \A i \in DOMAIN l : l[i] \in F /\ K[l[i]] = l[i]
    BY <1>8
  <1> HIDE DEF K
  <1>11. \A i, j \in DOMAIN Kept(order, S) : K[Kept(order, S)[i]] = K[Kept(order, S)[j]] => i = j
    BY <1>4, <1>9, KeptDiffers
  <1>12. QED
    BY <1>7, <1>8, <1>10, <1>11 DEF F

LEMMA Halves ==
    ASSUME NEW m \in Nat
    PROVE  /\ \A n \in 1 .. 2 * m : (n + 1) \div 2 \in 1 .. m
           /\ \A k, n \in 1 .. 2 * m :
                 (k + 1) \div 2 = (n + 1) \div 2 /\ (k % 2 = 1 <=> n % 2 = 1) => k = n
           /\ \A k \in 1 .. m : /\ 2 * k \in 1 .. 2 * m /\ (2 * k + 1) \div 2 = k
                               /\ (2 * k) % 2 # 1
                               /\ 2 * k - 1 \in 1 .. 2 * m /\ ((2 * k - 1) + 1) \div 2 = k
                               /\ (2 * k - 1) % 2 = 1
  OBVIOUS

\* The lists both and b, of length N, are of the same items.
Numbers(both, b, N, paired) ==
    /\ DOMAIN both = 1 .. N
    /\ \A n \in 1 .. N : /\ both[n] = WithId(b[n], Pair[b[n].item])
                         /\ both[n].item = b[n].item /\ b[n] \in paired
    /\ \A a \in paired : \E n \in 1 .. N : a = b[n]
    /\ \A k, n \in 1 .. N : b[k].item = b[n].item => k = n

LEMMA PairsOnce ==
    ASSUME NEW N \in Nat, NEW b, NEW paired, NEW both \in Seq(Attr),
           Numbers(both, b, N, paired)
    PROVE  /\ both \in Seq(Attr) /\ ItemsOnce(both)
           /\ Range(both) = {WithId(a, Pair[a.item]) : a \in paired}
           /\ Items(both) = {a.item : a \in paired}
  <1>1. ItemsOnce(both)
    BY DEF ItemsOnce, Numbers
  <1>2. Range(both) = {WithId(a, Pair[a.item]) : a \in paired}
    <2> DEFINE T == {WithId(a, Pair[a.item]) : a \in paired}
    <2>1. Range(both) = {both[n] : n \in 1 .. N}
      BY DEF Range, Numbers
    <2>2. \A n \in 1 .. N : both[n] \in T
      BY DEF Numbers
    <2>3. \A a \in paired : WithId(a, Pair[a.item]) \in {both[n] : n \in 1 .. N}
      BY DEF Numbers
    <2>4. T \subseteq {both[n] : n \in 1 .. N}
      BY <2>3
    <2> HIDE DEF T
    <2>5. Range(both) = T
      BY <2>1, <2>2, <2>4
    <2>6. QED
      BY <2>5 DEF T
  <1>3. Items(both) = {a.item : a \in paired}
    <2>1. Items(both) = {both[n].item : n \in 1 .. N}
      BY DEF Items, Numbers
    <2>2. \A n \in 1 .. N : both[n].item \in {a.item : a \in paired}
      BY DEF Numbers
    <2>3. \A a \in paired : a.item \in {both[n].item : n \in 1 .. N}
      BY DEF Numbers
    <2>4. QED
      BY <2>1, <2>2, <2>3
  <1>4. QED
    BY <1>1, <1>2, <1>3

\* The attributes of the pairs, with their ids.
LEMMA PairsFirst ==
    ASSUME pass \in Nat, NEW q \in Seq(Attr), ItemsOnce(q), NEW fps \in Seq(Fingerprints(q)),
           \A i, j \in DOMAIN fps : fps[i] = fps[j] => i = j,
           \A fp \in Range(fps) : IsPair(q, fp),
           NEW paired, paired = UNION {Couple(q, fp) : fp \in Range(fps)}
    PROVE  \A both :
              both = [n \in 1 .. 2 * Len(fps) |->
                         LET fp == fps[(n + 1) \div 2]
                             class == IF n % 2 = 1 THEN "key" ELSE "certificate"
                         IN  WithId(First(q, fp, class), fp)]
              => /\ both \in Seq(Attr) /\ ItemsOnce(both)
                 /\ Range(both) = {WithId(a, Pair[a.item]) : a \in paired}
                 /\ Items(both) = {a.item : a \in paired}
  <1> DEFINE m == Len(fps)
             Half(n) == fps[(n + 1) \div 2]
             Kind(n) == IF n % 2 = 1 THEN "key" ELSE "certificate"
             B(n) == First(q, Half(n), Kind(n))
  <1>0. SUFFICES ASSUME NEW both, both = [n \in 1 .. 2 * m |-> WithId(B(n), Half(n))]
               PROVE  /\ both \in Seq(Attr) /\ ItemsOnce(both)
                      /\ Range(both) = {WithId(a, Pair[a.item]) : a \in paired}
                      /\ Items(both) = {a.item : a \in paired}
    OBVIOUS
  <1>1. /\ m \in Nat /\ DOMAIN fps = 1 .. m
        /\ \A k \in 1 .. m : fps[k] \in Fingerprints(q) /\ IsPair(q, fps[k])
    BY DEF Range
  <1>2. \A n \in 1 .. 2 * m : (n + 1) \div 2 \in 1 .. m
    BY <1>1, Halves
  <1>3. ASSUME NEW n \in 1 .. 2 * m
        PROVE  /\ B(n) \in Range(q) /\ B(n) \in Attr /\ Pair[B(n).item] = Half(n)
               /\ Class[B(n).item] = Kind(n) /\ Half(n) \in Named /\ B(n) \in paired
    <2> DEFINE fp == Half(n)
               class == Kind(n)
    <2>1. IsPair(q, fp) /\ fp \in Fingerprints(q) /\ fp \in Range(fps)
      BY <1>1, <1>2 DEF Range
    <2>2. fp \in Named
      <3>1. Items(q) \subseteq Item
        BY ItemsAre
      <3>2. QED
        BY <2>1, <3>1 DEF Fingerprints, Named, Items
    <2>3. class \in {"certificate", "key"}
      OBVIOUS
    <2> HIDE DEF fp, class
    <2>4. OfClass(q, fp, class) # << >>
      BY <2>1, <2>3 DEF IsPair
    <2>5. First(q, fp, class) \in Couple(q, fp)
      BY <2>3 DEF Couple
    <2>6. First(q, fp, class) \in paired
      BY <2>1, <2>5
    <2>7. QED
      BY <2>2, <2>4, <2>6, FirstIs DEF fp, class
  <1>4. \A a \in paired : \E n \in 1 .. 2 * m : a = B(n)
    <2> SUFFICES ASSUME NEW k \in 1 .. m, NEW a \in Couple(q, fps[k])
                 PROVE  \E n \in 1 .. 2 * m : a = B(n)
      BY <1>1 DEF Range
    <2>1. CASE a = First(q, fps[k], "certificate")
      <3>1. 2 * k \in 1 .. 2 * m /\ Half(2 * k) = fps[k] /\ Kind(2 * k) = "certificate"
        BY <1>1, Halves
      <3>2. QED
        BY <2>1, <3>1
    <2>2. CASE a = First(q, fps[k], "key")
      <3>1. 2 * k - 1 \in 1 .. 2 * m /\ Half(2 * k - 1) = fps[k] /\ Kind(2 * k - 1) = "key"
        BY <1>1, Halves
      <3>2. QED
        BY <2>2, <3>1
    <2>3. QED
      BY <2>1, <2>2 DEF Couple
  <1>5. \A k, n \in 1 .. 2 * m : B(k).item = B(n).item => k = n
    <2> SUFFICES ASSUME NEW k \in 1 .. 2 * m, NEW n \in 1 .. 2 * m, B(k).item = B(n).item
                 PROVE  k = n
      OBVIOUS
    <2>1. Half(k) = Half(n) /\ Kind(k) = Kind(n)
      BY <1>3
    <2>2. (k + 1) \div 2 = (n + 1) \div 2
      BY <1>1, <1>2, <2>1
    <2>3. k % 2 = 1 <=> n % 2 = 1
      BY <2>1
    <2>4. QED
      BY <1>1, <2>2, <2>3, Halves
  <1>6. both = [n \in 1 .. 2 * m |-> WithId(B(n), Half(n))]
    BY <1>0
  <1> HIDE DEF B, Half, Kind
  <1>7. \A n \in 1 .. 2 * m :
           /\ both[n] = WithId(B(n), Pair[B(n).item])
           /\ both[n] \in Attr /\ both[n].item = B(n).item
    <2> SUFFICES ASSUME NEW n \in 1 .. 2 * m
                 PROVE  /\ both[n] = WithId(B(n), Pair[B(n).item])
                        /\ both[n] \in Attr /\ both[n].item = B(n).item
      OBVIOUS
    <2> DEFINE b == B(n)
               fp == Half(n)
    <2>1. both[n] = WithId(b, fp)
      BY <1>6
    <2>2. b \in Attr /\ fp \in Named /\ Pair[b.item] = fp
      BY <1>3
    <2> HIDE DEF b, fp
    <2>3. WithId(b, fp) \in Attr /\ WithId(b, fp).item = b.item
      BY <2>2, WithIdIs
    <2>4. both[n] = WithId(b, Pair[b.item]) /\ both[n] \in Attr /\ both[n].item = b.item
      BY <2>1, <2>2, <2>3
    <2>5. QED
      BY <2>4 DEF b
  <1>8. both \in Seq(Attr) /\ DOMAIN both = 1 .. 2 * m
    BY <1>1, <1>6, <1>7
  <1> DEFINE b == [n \in 1 .. 2 * m |-> B(n)]
  <1>13. \A n \in 1 .. 2 * m :
           /\ both[n] = WithId(b[n], Pair[b[n].item])
           /\ both[n].item = b[n].item /\ b[n] \in paired
    BY <1>3, <1>7
  <1>14. \A a \in paired : \E n \in 1 .. 2 * m : a = b[n]
    BY <1>4
  <1>15. \A k, n \in 1 .. 2 * m : b[k].item = b[n].item => k = n
    BY <1>5
  <1> HIDE DEF b
  <1> DEFINE N == 2 * m
  <1>9. N \in Nat /\ DOMAIN both = 1 .. N
    BY <1>1, <1>8
  <1> HIDE DEF m, N
  <1>10. Numbers(both, b, N, paired)
    <2>1. /\ \A n \in 1 .. N : /\ both[n] = WithId(b[n], Pair[b[n].item])
                               /\ both[n].item = b[n].item /\ b[n] \in paired
          /\ \A a \in paired : \E n \in 1 .. N : a = b[n]
          /\ \A k, n \in 1 .. N : b[k].item = b[n].item => k = n
      BY <1>13, <1>14, <1>15 DEF N
    <2>2. QED
      BY <1>9, <2>1 DEF Numbers
  <1>11. QED
    BY <1>8, <1>9, <1>10, PairsOnce

\* The attributes of the others, with their ids.
LEMMA OthersThen ==
    ASSUME pass \in Nat, NEW rest \in Seq(Attr), ItemsOnce(rest),
           NEW last, last = [n \in DOMAIN rest |-> WithId(rest[n], rest[n].item)]
    PROVE  /\ last \in Seq(Attr) /\ ItemsOnce(last) /\ Items(last) = Items(rest)
           /\ Range(last) = {WithId(a, a.item) : a \in Range(rest)}
  <1>1. \A n \in DOMAIN rest : rest[n] \in Attr /\ rest[n].item \in Named
    <2>1. \A n \in DOMAIN rest : rest[n] \in Attr
      OBVIOUS
    <2>2. \A a \in Attr : a.item \in Named
      BY DEF Attr, Named
    <2>3. QED
      BY <2>1, <2>2
  <1>2. \A n \in DOMAIN rest :
           last[n] = WithId(rest[n], rest[n].item) /\ last[n] \in Attr
           /\ last[n].item = rest[n].item
    BY <1>1, WithIdIs
  <1>3. DOMAIN last = DOMAIN rest /\ last \in Seq(Attr)
    <2>1. DOMAIN rest = 1 .. Len(rest) /\ Len(rest) \in Nat
      OBVIOUS
    <2>2. QED
      BY <1>2, <2>1
  <1>4. ItemsOnce(last) /\ Items(last) = Items(rest)
    BY <1>2, <1>3 DEF ItemsOnce, Items
  <1>5. Range(last) = {WithId(a, a.item) : a \in Range(rest)}
    BY <1>2, <1>3 DEF Range
  <1>6. QED
    BY <1>3, <1>4, <1>5

\* Supplementing gives each attribute its id, and loses none.
LEMMA SupplementIs ==
    ASSUME pass \in Nat, NEW q \in Seq(Attr), ItemsOnce(q),
           NEW order \in SetToSeqs(Fingerprints(q))
    PROVE  /\ Supplement(q, order) \in Seq(Attr) /\ ItemsOnce(Supplement(q, order))
           /\ Range(Supplement(q, order)) = {WithId(a, Owner(q, a)) : a \in Range(q)}
  <1> DEFINE fps == Kept(order, {fp \in Range(order) : IsPair(q, fp)})
             both == [n \in 1 .. 2 * Len(fps) |->
                         LET fp == fps[(n + 1) \div 2]
                             class == IF n % 2 = 1 THEN "key" ELSE "certificate"
                         IN  WithId(First(q, fp, class), fp)]
             paired == UNION {Couple(q, fp) : fp \in Range(fps)}
             rest == Kept(q, Range(q) \ paired)
             last == [n \in DOMAIN rest |-> WithId(rest[n], rest[n].item)]
  <1>1. Supplement(q, order) = both \o last
    BY DEF Supplement
  <1>2. /\ fps \in Seq(Fingerprints(q))
        /\ Range(fps) = {fp \in Fingerprints(q) : IsPair(q, fp)}
        /\ \A i, j \in DOMAIN fps : fps[i] = fps[j] => i = j
    <2> DEFINE S == {fp \in Range(order) : IsPair(q, fp)}
    <2>1. /\ Range(order) = Fingerprints(q)
          /\ Kept(order, S) \in Seq(Fingerprints(q))
          /\ Range(Kept(order, S)) = Fingerprints(q) \intersect S
          /\ \A i, j \in DOMAIN Kept(order, S) : Kept(order, S)[i] = Kept(order, S)[j] => i = j
      <3> HIDE DEF S
      <3>1. QED
        BY OrderIs
    <2>2. QED
      BY <2>1
  <1> HIDE DEF fps
  <1>3. \A fp \in Range(fps) : IsPair(q, fp)
    BY <1>2
  <1>4. /\ both \in Seq(Attr) /\ ItemsOnce(both)
        /\ Range(both) = {WithId(a, Pair[a.item]) : a \in paired}
        /\ Items(both) = {a.item : a \in paired}
    BY <1>2, <1>3, PairsFirst
  <1>5. \A a \in Range(q) : a \in paired <=> IsPair(q, Pair[a.item]) /\ a \in Couple(q, Pair[a.item])
    <2>1. ASSUME NEW fp \in Range(fps), NEW a \in Couple(q, fp)
          PROVE  IsPair(q, Pair[a.item]) /\ a \in Couple(q, Pair[a.item])
      BY <1>3, CoupleIs
    <2>2. ASSUME NEW a \in Range(q), IsPair(q, Pair[a.item]), a \in Couple(q, Pair[a.item])
          PROVE  a \in paired
      <3>1. Pair[a.item] \in Range(fps)
        BY <1>2, <2>2, CoupleIs
      <3>2. QED
        BY <2>2, <3>1
    <2>3. QED
      BY <2>1, <2>2
  <1>6. paired \subseteq Range(q)
    BY <1>3, CoupleIs
  <1> HIDE DEF both, paired
  <1>7. rest \in Seq(Attr) /\ ItemsOnce(rest) /\ Range(rest) = Range(q) \ paired
    BY ItemsKept
  <1> HIDE DEF rest
  <1>8. /\ last \in Seq(Attr) /\ ItemsOnce(last) /\ Items(last) = Items(rest)
        /\ Range(last) = {WithId(a, a.item) : a \in Range(rest)}
    BY <1>7, OthersThen
  <1> HIDE DEF last
  <1>9. Items(last) = {a.item : a \in Range(q) \ paired}
    BY <1>7, <1>8, ItemsAre
  <1>10. Items(both) \intersect Items(last) = {}
    <2>1. \A a, b \in Range(q) : a.item = b.item => a = b
      BY ItemsTell
    <2>2. QED
      BY <1>4, <1>6, <1>9, <2>1
  <1>11. /\ both \o last \in Seq(Attr) /\ ItemsOnce(both \o last)
         /\ Range(both \o last) = Range(both) \union Range(last)
    BY <1>4, <1>8, <1>10, ItemsConcat
  <1>12. Range(both) \union Range(last) = {WithId(a, Owner(q, a)) : a \in Range(q)}
    <2>1. \A a \in paired : Owner(q, a) = Pair[a.item]
      BY <1>5, <1>6 DEF Owner
    <2>2. \A a \in Range(q) \ paired : Owner(q, a) = a.item
      BY <1>5 DEF Owner
    <2>3. Range(both) = {WithId(a, Owner(q, a)) : a \in paired}
      BY <1>4, <2>1
    <2>4. Range(last) = {WithId(a, Owner(q, a)) : a \in Range(q) \ paired}
      BY <1>7, <1>8, <2>2
    <2>5. QED
      BY <1>6, <2>3, <2>4
  <1>13. QED
    BY <1>1, <1>11, <1>12

-----------------------------------------------------------------------------
(* Imports.  What is known of one token: what is on it, what waits, what   *)
(* is being created and what could not be.                                 *)

AgreeIn(given, attrs) ==
    \A a, b \in attrs : a # b /\ a.id # NoId /\ b.id # NoId =>
        /\ a.id = b.id => Mates(a, b)
        /\ Mates(a, b) /\ a.id[1] = b.id[1] =>
              \/ a.id = b.id
              \/ \E c \in given \ {a.item, b.item} :
                    Pair[c] = Pair[a.item] /\ Class[c] \in {Class[a.item], Class[b.item]}

HeldBy(o, q, c, bad) == Items(o) \union Items(q) \union Items(c) \union bad
AttrsOf(o, q, c) == Range(o) \union Range(q) \union Range(c)

\* Each item is in one place, once, was given to the button and does not wait for it
\* to be ready.
Placed(o, q, c, bad, given, waiting) ==
    /\ ItemsOnce(o) /\ ItemsOnce(q)
    /\ Items(o) \intersect Items(q) = {} /\ Items(o) \intersect Items(c) = {}
    /\ Items(q) \intersect Items(c) = {}
    /\ bad \intersect (Items(o) \union Items(q) \union Items(c)) = {}
    /\ HeldBy(o, q, c, bad) \subseteq given /\ HeldBy(o, q, c, bad) \intersect waiting = {}

\* The ids come from passes that were, and agree.
Identified(attrs, given, last) ==
    /\ \A a \in attrs : a.id # NoId => a.id[1] <= last
    /\ AgreeIn(given, attrs)

Sound(o, q, c, bad, given, waiting, last) ==
    /\ Placed(o, q, c, bad, given, waiting)
    /\ Identified(AttrsOf(o, q, c), given, last)

LEMMA IdentifiedMore ==
    ASSUME NEW attrs \in SUBSET Attr, NEW given, NEW last \in Nat, Identified(attrs, given, last),
           NEW less \in SUBSET attrs, NEW more, given \subseteq more,
           NEW later \in Nat, last <= later
    PROVE  Identified(less, more, later)
  <1>1. \A a \in attrs : a.id # NoId => a.id[1] \in Nat
    BY DEF Attr, Ids
  <1>2. ASSUME NEW a \in less, a.id # NoId PROVE a.id[1] <= later
    <2>1. a.id[1] <= last /\ a.id[1] \in Nat
      BY <1>1, <1>2 DEF Identified
    <2>2. QED
      BY <2>1
  <1>3. AgreeIn(more, less)
    BY DEF Identified, AgreeIn
  <1>4. QED
    BY <1>2, <1>3 DEF Identified

\* Items are added to the queue, none of which has an id.
Grown(q, r, new) ==
    /\ r \in Seq(Attr)
    /\ Range(q) \subseteq Range(r) /\ \A a \in Range(r) \ Range(q) : a.id = NoId
    /\ Items(q) \subseteq Items(r) /\ Items(r) \subseteq Items(q) \union new
    /\ ItemsOnce(q) /\ Items(q) \intersect new = {} => ItemsOnce(r)

LEMMA GrownStays ==
    ASSUME NEW q \in Seq(Attr), NEW new
    PROVE  Grown(q, q, new)
  BY DEF Grown

LEMMA GrownAppend ==
    ASSUME NEW q \in Seq(Attr), NEW i \in Item, NEW new, i \in new
    PROVE  Grown(q, Append(q, Bare(i)), new) /\ Append(q, Bare(i)) \in Seq(Attr)
  <1> DEFINE a == Bare(i)
             r == Append(q, a)
  <1>1. a \in Attr /\ a.item = i /\ a.id = NoId
    BY DEF Bare, Attr, Ids
  <1> HIDE DEF a
  <1>2. /\ r \in Seq(Attr) /\ Range(r) = Range(q) \union {a}
        /\ Items(r) = Items(q) \union {a.item}
        /\ ItemsOnce(q) /\ a.item \notin Items(q) => ItemsOnce(r)
    BY <1>1, ItemsAppend
  <1> HIDE DEF r
  <1>3. Grown(q, r, new)
    BY <1>1, <1>2 DEF Grown
  <1>4. QED
    BY <1>2, <1>3 DEF r, a

LEMMA GrownTwice ==
    ASSUME NEW q \in Seq(Attr), NEW r \in Seq(Attr), NEW t, NEW new, NEW other, NEW all,
           Grown(q, r, new), Grown(r, t, other), new \intersect other = {},
           all = new \union other
    PROVE  Grown(q, t, all)
  BY DEF Grown

\* New items are in no place yet.
HasRoom(new, held, given, more, left) ==
    /\ new \intersect held = {} /\ given \subseteq more /\ new \subseteq more
    /\ left \intersect held = {} /\ left \intersect new = {}

LEMMA SoundGrown ==
    ASSUME NEW o \in Seq(Attr), NEW q \in Seq(Attr), NEW c \in Seq(Attr), NEW bad,
           NEW given, NEW waiting, NEW last \in Nat, Sound(o, q, c, bad, given, waiting, last),
           NEW r, NEW new, Grown(q, r, new), NEW more, NEW left,
           HasRoom(new, HeldBy(o, q, c, bad), given, more, left)
    PROVE  /\ Sound(o, r, c, bad, more, left, last)
           /\ HeldBy(o, q, c, bad) \subseteq HeldBy(o, r, c, bad)
  <1>0. /\ new \intersect HeldBy(o, q, c, bad) = {} /\ given \subseteq more
        /\ new \subseteq more
        /\ left \intersect HeldBy(o, q, c, bad) = {} /\ left \intersect new = {}
    BY DEF HasRoom
  <1>1. Placed(o, r, c, bad, more, left)
    <2>1. /\ ItemsOnce(o) /\ ItemsOnce(q)
          /\ Items(o) \intersect Items(q) = {} /\ Items(o) \intersect Items(c) = {}
          /\ Items(q) \intersect Items(c) = {}
          /\ bad \intersect (Items(o) \union Items(q) \union Items(c)) = {}
          /\ HeldBy(o, q, c, bad) \subseteq given
      BY DEF Sound, Placed
    <2>2. Items(q) \intersect new = {} /\ Items(r) \subseteq Items(q) \union new
          /\ ItemsOnce(r)
      BY <1>0, <2>1 DEF Grown, HeldBy
    <2>3. HeldBy(o, r, c, bad) \subseteq HeldBy(o, q, c, bad) \union new
      BY <2>2 DEF HeldBy
    <2>4. Items(o) \intersect Items(r) = {} /\ Items(r) \intersect Items(c) = {}
          /\ bad \intersect Items(r) = {}
      BY <1>0, <2>1, <2>2 DEF HeldBy
    <2>5. HeldBy(o, r, c, bad) \subseteq more /\ HeldBy(o, r, c, bad) \intersect left = {}
      BY <1>0, <2>1, <2>3
    <2>6. QED
      BY <2>1, <2>2, <2>4, <2>5 DEF Placed
  <1>2. Identified(AttrsOf(o, r, c), more, last)
    <2> DEFINE X == AttrsOf(o, q, c)
               Y == AttrsOf(o, r, c)
    <2>1. Identified(X, given, last)
      BY DEF Sound
    <2>2. \A a \in Y : a \in X \/ a.id = NoId
      BY DEF AttrsOf, Grown
    <2> HIDE DEF X, Y
    <2>3. \A a \in Y : a.id # NoId => a.id[1] <= last
      BY <2>1, <2>2 DEF Identified
    <2>4. AgreeIn(more, Y)
      BY <1>0, <2>1, <2>2 DEF Identified, AgreeIn
    <2>5. QED
      BY <2>3, <2>4 DEF Identified, Y
  <1>3. HeldBy(o, q, c, bad) \subseteq HeldBy(o, r, c, bad)
    BY DEF HeldBy, Grown
  <1>4. QED
    BY <1>1, <1>2, <1>3 DEF Sound

LEMMA SoundLater ==
    ASSUME NEW o \in Seq(Attr), NEW q \in Seq(Attr), NEW c \in Seq(Attr), NEW bad,
           NEW given, NEW waiting, NEW last \in Nat, Sound(o, q, c, bad, given, waiting, last),
           NEW later \in Nat, last <= later
    PROVE  Sound(o, q, c, bad, given, waiting, later)
  <1> DEFINE X == AttrsOf(o, q, c)
  <1>1. X \subseteq Attr /\ Identified(X, given, last)
    BY ItemsAre DEF Sound, AttrsOf
  <1> HIDE DEF X
  <1>2. Identified(X, given, later)
    BY <1>1, IdentifiedMore
  <1>3. QED
    BY <1>2 DEF Sound, X

\* The next item of the queue is taken.
LEMMA SoundNext ==
    ASSUME NEW o \in Seq(Attr), NEW q \in Seq(Attr), NEW bad, NEW given, NEW waiting,
           NEW last \in Nat, Sound(o, q, << >>, bad, given, waiting, last), q # << >>
    PROVE  /\ Sound(o, Tail(q), <<Head(q)>>, bad, given, waiting, last)
           /\ HeldBy(o, Tail(q), <<Head(q)>>, bad) = HeldBy(o, q, << >>, bad)
           /\ Head(q) \in Attr /\ Tail(q) \in Seq(Attr) /\ <<Head(q)>> \in Seq(Attr)
  <1> DEFINE h == <<Head(q)>>
             t == Tail(q)
             x == Head(q)
             e == << >>
  <1>1. /\ x \in Attr /\ t \in Seq(Attr) /\ h \in Seq(Attr)
        /\ Range(q) = {x} \union Range(t) /\ Range(h) = {x}
        /\ Items(q) = {x.item} \union Items(t)
        /\ Items(h) = {x.item}
        /\ ItemsOnce(q) => ItemsOnce(t) /\ x.item \notin Items(t)
    BY ItemsHeadTail
  <1>2. Items(e) = {} /\ Range(e) = {}
    BY ItemsEmpty
  <1>3. Sound(o, q, e, bad, given, waiting, last)
    OBVIOUS
  <1> HIDE DEF h, t, x, e
  <1>4. HeldBy(o, t, h, bad) = HeldBy(o, q, e, bad)
    BY <1>1, <1>2 DEF HeldBy
  <1>5. AttrsOf(o, t, h) = AttrsOf(o, q, e)
    BY <1>1, <1>2 DEF AttrsOf
  <1>6. Placed(o, t, h, bad, given, waiting)
    <2>1. Placed(o, q, e, bad, given, waiting)
      BY <1>3 DEF Sound
    <2>2. ItemsOnce(t) /\ x.item \notin Items(t)
      BY <1>1, <2>1 DEF Placed
    <2>3. QED
      BY <1>1, <1>4, <2>1, <2>2 DEF Placed
  <1>7. Sound(o, t, h, bad, given, waiting, last)
    BY <1>3, <1>5, <1>6 DEF Sound
  <1>8. QED
    BY <1>1, <1>4, <1>7 DEF h, t, x, e

LEMMA OneIs ==
    ASSUME NEW a \in Attr
    PROVE  <<a>> \in Seq(Attr) /\ Items(<<a>>) = {a.item} /\ Range(<<a>>) = {a}
           /\ Head(<<a>>) = a
  <1> DEFINE l == <<a>>
  <1>1. l \in Seq(Attr) /\ DOMAIN l = {1} /\ l[1] = a /\ Head(l) = a
    OBVIOUS
  <1> HIDE DEF l
  <1>2. Range(l) = {a} /\ Items(l) = {a.item}
    BY <1>1 DEF Range, Items
  <1>3. QED
    BY <1>1, <1>2 DEF l

\* What was being created is on the token.
LEMMA SoundCreated ==
    ASSUME NEW o \in Seq(Attr), NEW q \in Seq(Attr), NEW a \in Attr, NEW bad, NEW given,
           NEW waiting, NEW last \in Nat, Sound(o, q, <<a>>, bad, given, waiting, last)
    PROVE  /\ Sound(Append(o, a), q, << >>, bad, given, waiting, last)
           /\ HeldBy(Append(o, a), q, << >>, bad) = HeldBy(o, q, <<a>>, bad)
           /\ Append(o, a) \in Seq(Attr)
  <1> DEFINE h == <<a>>
             p == Append(o, a)
             e == << >>
  <1>1. /\ p \in Seq(Attr) /\ Range(p) = Range(o) \union {a}
        /\ Items(p) = Items(o) \union {a.item}
        /\ ItemsOnce(o) /\ a.item \notin Items(o) => ItemsOnce(p)
    BY ItemsAppend
  <1>2. Items(e) = {} /\ Range(e) = {} /\ Items(h) = {a.item} /\ Range(h) = {a}
    BY ItemsEmpty, OneIs
  <1>3. Sound(o, q, h, bad, given, waiting, last)
    OBVIOUS
  <1> HIDE DEF h, p, e
  <1>4. HeldBy(p, q, e, bad) = HeldBy(o, q, h, bad)
    BY <1>1, <1>2 DEF HeldBy
  <1>5. AttrsOf(p, q, e) = AttrsOf(o, q, h)
    BY <1>1, <1>2 DEF AttrsOf
  <1>6. Placed(p, q, e, bad, given, waiting)
    <2>1. Placed(o, q, h, bad, given, waiting)
      BY <1>3 DEF Sound
    <2>2. ItemsOnce(p)
      BY <1>1, <1>2, <2>1 DEF Placed
    <2>3. QED
      BY <1>1, <1>2, <1>4, <2>1, <2>2 DEF Placed
  <1>7. Sound(p, q, e, bad, given, waiting, last)
    BY <1>3, <1>5, <1>6 DEF Sound
  <1>8. QED
    BY <1>1, <1>4, <1>7 DEF h, p, e

\* What was being created could not be.
LEMMA SoundFailed ==
    ASSUME NEW o \in Seq(Attr), NEW q \in Seq(Attr), NEW a \in Attr, NEW bad, NEW given,
           NEW waiting, NEW last \in Nat, Sound(o, q, <<a>>, bad, given, waiting, last)
    PROVE  /\ Sound(o, q, << >>, bad \union {a.item}, given, waiting, last)
           /\ HeldBy(o, q, << >>, bad \union {a.item}) = HeldBy(o, q, <<a>>, bad)
  <1> DEFINE h == <<a>>
             e == << >>
             worse == bad \union {a.item}
  <1>1. Items(e) = {} /\ Range(e) = {} /\ Items(h) = {a.item} /\ Range(h) = {a}
    BY ItemsEmpty, OneIs
  <1>2. Sound(o, q, h, bad, given, waiting, last) /\ h \in Seq(Attr)
    BY OneIs
  <1> HIDE DEF h, e
  <1>3. HeldBy(o, q, e, worse) = HeldBy(o, q, h, bad)
    BY <1>1 DEF HeldBy
  <1>4. AttrsOf(o, q, e) \subseteq AttrsOf(o, q, h) /\ AttrsOf(o, q, h) \subseteq Attr
    BY <1>1, <1>2, ItemsAre DEF AttrsOf
  <1>5. Placed(o, q, e, worse, given, waiting)
    BY <1>1, <1>2, <1>3 DEF Sound, Placed
  <1>6. Identified(AttrsOf(o, q, e), given, last)
    BY <1>2, <1>4, IdentifiedMore DEF Sound
  <1>7. QED
    BY <1>3, <1>5, <1>6 DEF Sound, h, e

-----------------------------------------------------------------------------
(* Imports.  One pass of supplementing.                                    *)

Paired(q, a) == IsPair(q, Pair[a.item]) /\ a \in Couple(q, Pair[a.item])

Rival(given, a, b) ==
    \E c \in given \ {a.item, b.item} :
        Pair[c] = Pair[a.item] /\ Class[c] \in {Class[a.item], Class[b.item]}

\* A certificate and a key without rivals are a pair.
LEMMA NoRivalsPaired ==
    ASSUME NEW q \in Seq(Attr), ItemsOnce(q), NEW given, Items(q) \subseteq given,
           NEW a \in Range(q), NEW b \in Range(q), Pair[a.item] # "none",
           Pair[a.item] = Pair[b.item],
           Class[a.item] = "certificate", Class[b.item] = "key", ~Rival(given, a, b)
    PROVE  Paired(q, a) /\ Paired(q, b)
  <1> DEFINE fp == Pair[a.item]
             x == First(q, fp, "certificate")
             y == First(q, fp, "key")
  <1>1. OfClass(q, fp, "certificate") # << >> /\ OfClass(q, fp, "key") # << >>
    BY OfThere
  <1>2. x \in Range(q) /\ Pair[x.item] = fp /\ Class[x.item] = "certificate"
    BY <1>1, FirstIs
  <1>3. y \in Range(q) /\ Pair[y.item] = fp /\ Class[y.item] = "key"
    BY <1>1, FirstIs
  <1>4. Couple(q, fp) = {x, y} /\ IsPair(q, fp)
    BY <1>1 DEF Couple, IsPair
  <1> HIDE DEF x, y
  <1>5. x.item \in given /\ y.item \in given
    BY <1>2, <1>3, ItemsAre
  <1>6. x.item \in {a.item, b.item}
    BY <1>2, <1>5 DEF Rival
  <1>7. y.item \in {a.item, b.item}
    BY <1>3, <1>5 DEF Rival
  <1>8. x.item = a.item /\ y.item = b.item
    BY <1>2, <1>3, <1>6, <1>7
  <1>9. x = a /\ y = b
    BY <1>2, <1>3, <1>8, ItemsTell
  <1>10. QED
    BY <1>4, <1>9 DEF Paired

LEMMA OwnersAgree ==
    ASSUME NEW q \in Seq(Attr), ItemsOnce(q), NEW given, Items(q) \subseteq given,
           NEW a \in Range(q), NEW b \in Range(q), a # b
    PROVE  /\ Owner(q, a) = Owner(q, b) => Mates(a, b)
           /\ Mates(a, b) => Owner(q, a) = Owner(q, b) \/ Rival(given, a, b)
  <1>0. a \in Attr /\ b \in Attr /\ a.item \in Item /\ b.item \in Item
    <2>1. a \in Attr /\ b \in Attr
      BY ItemsAre
    <2>2. QED
      BY <2>1 DEF Attr
  <1>1. a.item # b.item
    BY ItemsTell
  <1>2. /\ Owner(q, a) = IF Paired(q, a) THEN Pair[a.item] ELSE a.item
        /\ Owner(q, b) = IF Paired(q, b) THEN Pair[b.item] ELSE b.item
    BY DEF Owner, Paired
  <1>3. Pair[a.item] \notin Item /\ Pair[b.item] \notin Item
    BY <1>0, ImportingAssumption
  <1>4. ASSUME Owner(q, a) = Owner(q, b) PROVE Mates(a, b)
    <2>1. Paired(q, a) /\ Paired(q, b) /\ Pair[a.item] = Pair[b.item]
      BY <1>0, <1>1, <1>2, <1>3, <1>4
    <2> DEFINE fp == Pair[a.item]
               x == First(q, fp, "certificate")
               y == First(q, fp, "key")
    <2>2. IsPair(q, fp) /\ a \in {x, y} /\ b \in {x, y} /\ fp # "none"
      BY <2>1 DEF Paired, Couple, IsPair
    <2>3. Class[x.item] = "certificate" /\ Class[y.item] = "key"
      BY <2>2, FirstIs DEF IsPair
    <2> HIDE DEF x, y
    <2>4. (a = x /\ b = y) \/ (a = y /\ b = x)
      BY <2>2
    <2>5. {Class[a.item], Class[b.item]} = {"certificate", "key"}
      BY <2>3, <2>4
    <2>6. QED
      BY <2>1, <2>2, <2>5 DEF Mates
  <1>5. ASSUME Mates(a, b), ~Rival(given, a, b) PROVE Owner(q, a) = Owner(q, b)
    <2>1. /\ Pair[a.item] # "none" /\ Pair[a.item] = Pair[b.item]
          /\ {Class[a.item], Class[b.item]} = {"certificate", "key"}
      BY <1>5 DEF Mates
    <2>2. \/ Class[a.item] = "certificate" /\ Class[b.item] = "key"
          \/ Class[b.item] = "certificate" /\ Class[a.item] = "key"
      BY <2>1
    <2>3. ~Rival(given, b, a)
      BY <1>5, <2>1 DEF Rival
    <2>4. Paired(q, a) /\ Paired(q, b)
      <3>1. CASE Class[a.item] = "certificate" /\ Class[b.item] = "key"
        BY <1>5, <2>1, <3>1, NoRivalsPaired
      <3>2. CASE Class[b.item] = "certificate" /\ Class[a.item] = "key"
        BY <2>1, <2>3, <3>2, NoRivalsPaired
      <3>3. QED
        BY <2>2, <3>1, <3>2
    <2>5. QED
      BY <1>2, <2>1, <2>4
  <1>6. QED
    BY <1>4, <1>5

LEMMA SoundSupplement ==
    ASSUME pass \in Nat, NEW o \in Seq(Attr), NEW q \in Seq(Attr), NEW bad, NEW given,
           NEW waiting, Sound(o, q, << >>, bad, given, waiting, pass),
           NEW order \in SetToSeqs(Fingerprints(q))
    PROVE  /\ Supplement(q, order) \in Seq(Attr)
           /\ Sound(o, Supplement(q, order), << >>, bad, given, waiting, pass + 1)
           /\ HeldBy(o, Supplement(q, order), << >>, bad) = HeldBy(o, q, << >>, bad)
  <1> DEFINE r == Supplement(q, order)
             e == << >>
  <1>0. Sound(o, q, e, bad, given, waiting, pass) /\ Range(e) = {} /\ Items(e) = {}
    BY ItemsEmpty
  <1>1. ItemsOnce(q) /\ Items(q) \subseteq given
    BY <1>0 DEF Sound, Placed, HeldBy
  <1>2. r \in Seq(Attr) /\ ItemsOnce(r) /\ Range(r) = {WithId(a, Owner(q, a)) : a \in Range(q)}
    BY <1>1, SupplementIs
  <1> HIDE DEF r, e
  <1>3. \A a \in Range(q) : a \in Attr /\ Owner(q, a) \in Named
    <2> SUFFICES ASSUME NEW a \in Range(q) PROVE a \in Attr /\ Owner(q, a) \in Named
      OBVIOUS
    <2>1. a \in Attr
      BY ItemsAre
    <2>2. a.item \in Item
      BY <2>1 DEF Attr
    <2>3. QED
      BY <2>1, <2>2 DEF Owner, Named
  <1>4. \A a \in Range(q) :
            /\ WithId(a, Owner(q, a)).item = a.item
            /\ WithId(a, Owner(q, a)).id =
                  IF a.id = NoId THEN <<pass + 1, Owner(q, a)>> ELSE a.id
    BY <1>3, WithIdIs
  <1>5. Items(r) = Items(q)
    <2>1. Items(r) = {x.item : x \in Range(r)} /\ Items(q) = {a.item : a \in Range(q)}
      BY <1>2, ItemsAre
    <2>2. \A x \in Range(r) : \E a \in Range(q) : x.item = a.item
      BY <1>2, <1>4
    <2>3. \A a \in Range(q) : \E x \in Range(r) : x.item = a.item
      BY <1>2, <1>4
    <2>4. QED
      BY <2>1, <2>2, <2>3
  <1>6. HeldBy(o, r, e, bad) = HeldBy(o, q, e, bad)
    BY <1>5 DEF HeldBy
  <1>7. Placed(o, r, e, bad, given, waiting)
    BY <1>0, <1>2, <1>5, <1>6 DEF Sound, Placed
  <1> DEFINE X == AttrsOf(o, q, e)
             Y == AttrsOf(o, r, e)
             New(x, a) == a \in Range(q) /\ a.id = NoId /\ x.id = <<pass + 1, Owner(q, a)>>
             From(x, a) == x.item = a.item /\ (x.id = a.id \/ New(x, a))
  <1>8. Identified(X, given, pass) /\ X \subseteq Attr
    BY <1>0, ItemsAre DEF Sound, AttrsOf
  <1>9. \A a, b \in X : a.item = b.item => a = b
    <2>1. ItemsOnce(o) /\ Items(o) \intersect Items(q) = {}
      BY <1>0 DEF Sound, Placed
    <2>2. X = Range(o) \union Range(q)
      BY <1>0 DEF AttrsOf
    <2>3. \A a, b \in Range(o) : a.item = b.item => a = b
      BY <2>1, ItemsTell
    <2>4. \A a, b \in Range(q) : a.item = b.item => a = b
      BY <1>1, ItemsTell
    <2>5. \A a \in Range(o), b \in Range(q) : a.item # b.item
      BY <2>1, ItemsAre
    <2>6. QED
      BY <2>2, <2>3, <2>4, <2>5
  <1>10. \A x, y \in Y : x.item = y.item => x = y
    <2>1. ItemsOnce(o) /\ Items(o) \intersect Items(r) = {}
      BY <1>7 DEF Placed
    <2>2. Y = Range(o) \union Range(r)
      BY <1>0 DEF AttrsOf
    <2>3. \A a, b \in Range(o) : a.item = b.item => a = b
      BY <2>1, ItemsTell
    <2>4. \A a, b \in Range(r) : a.item = b.item => a = b
      BY <1>2, ItemsTell
    <2>5. \A a \in Range(o), b \in Range(r) : a.item # b.item
      <3>1. r \in Seq(Attr)
        BY <1>2
      <3>2. QED
        BY <2>1, <3>1, ItemsAre
    <2>6. QED
      BY <2>2, <2>3, <2>4, <2>5
  <1>11. \A x \in Y : \E a \in X : From(x, a)
    <2>1. X = Range(o) \union Range(q) /\ Y = Range(o) \union Range(r)
      BY <1>0 DEF AttrsOf
    <2>2. \A x \in Range(r) : \E a \in Range(q) : From(x, a)
      BY <1>2, <1>4
    <2>3. QED
      BY <2>1, <2>2
  <1> HIDE DEF X, Y
  <1>12. \A a \in X : a.id # NoId => a.id[1] \in Nat /\ a.id[1] <= pass
    <2>1. \A a \in Attr : a.id # NoId => a.id[1] \in Nat
      BY DEF Attr, Ids
    <2>2. QED
      BY <1>8, <2>1 DEF Identified
  <1>13. \A x \in Y, a \in X : New(x, a) => x.id[1] = pass + 1
    OBVIOUS
  <1>14. ASSUME NEW x \in Y, x.id # NoId PROVE x.id[1] <= pass + 1
    <2>1. PICK a \in X : From(x, a)
      BY <1>11
    <2>2. CASE x.id = a.id
      BY <1>12, <1>14, <2>2
    <2>3. CASE New(x, a)
      BY <1>13, <2>3
    <2>4. QED
      BY <2>1, <2>2, <2>3
  <1>15. ASSUME NEW x \in Y, NEW y \in Y, x # y, x.id # NoId, y.id # NoId
         PROVE  /\ x.id = y.id => Mates(x, y)
                /\ Mates(x, y) /\ x.id[1] = y.id[1] => x.id = y.id \/ Rival(given, x, y)
    <2>1. PICK a \in X : From(x, a)
      BY <1>11
    <2>2. PICK b \in X : From(y, b)
      BY <1>11
    <2>3. a # b /\ x.item = a.item /\ y.item = b.item
      BY <1>10, <1>15, <2>1, <2>2
    <2>4. /\ Mates(x, y) <=> Mates(a, b)
          /\ Rival(given, x, y) <=> Rival(given, a, b)
      BY <2>3 DEF Mates, Rival
    <2>5. CASE x.id = a.id /\ y.id = b.id
      <3>1. /\ a.id = b.id => Mates(a, b)
            /\ Mates(a, b) /\ a.id[1] = b.id[1] => a.id = b.id \/ Rival(given, a, b)
        BY <1>8, <1>15, <2>3, <2>5 DEF Identified, AgreeIn, Rival
      <3>2. QED
        BY <2>4, <2>5, <3>1
    <2>6. CASE x.id = a.id /\ New(y, b)
      <3>1. x.id[1] \in Nat /\ x.id[1] <= pass /\ y.id[1] = pass + 1
        BY <1>12, <1>13, <1>15, <2>6
      <3>2. x.id[1] # y.id[1]
        BY <3>1
      <3>3. QED
        BY <3>2
    <2>7. CASE New(x, a) /\ y.id = b.id
      <3>1. y.id[1] \in Nat /\ y.id[1] <= pass /\ x.id[1] = pass + 1
        BY <1>12, <1>13, <1>15, <2>7
      <3>2. x.id[1] # y.id[1]
        BY <3>1
      <3>3. QED
        BY <3>2
    <2>8. CASE New(x, a) /\ New(y, b)
      <3>1. /\ Owner(q, a) = Owner(q, b) => Mates(a, b)
            /\ Mates(a, b) => Owner(q, a) = Owner(q, b) \/ Rival(given, a, b)
        BY <1>1, <2>3, <2>8, OwnersAgree
      <3>2. x.id = y.id <=> Owner(q, a) = Owner(q, b)
        BY <2>8
      <3>3. QED
        BY <2>4, <3>1, <3>2
    <2>9. QED
      BY <2>1, <2>2, <2>5, <2>6, <2>7, <2>8
  <1>16. Identified(Y, given, pass + 1)
    <2>1. AgreeIn(given, Y)
      BY <1>15 DEF AgreeIn, Rival
    <2>2. QED
      BY <1>14, <2>1 DEF Identified
  <1>17. Sound(o, r, e, bad, given, waiting, pass + 1)
    BY <1>7, <1>16 DEF Sound, Y
  <1>18. QED
    BY <1>2, <1>6, <1>17 DEF r, e

-----------------------------------------------------------------------------
(* Imports.  What is given to the importers.                               *)

Importer == Slots \union {GnuPG}
States == [importers : Seq(Importer), queue : [Slots -> Seq(Attr)], created : BOOLEAN]

Grows(s, t, new) ==
    t \in States /\ \A m \in Slots : Grown(s.queue[m], t.queue[m], new)

LEMMA QueuedAllGrows ==
    ASSUME NEW s \in States, NEW i \in Item
    PROVE  Grows(s, QueuedAll(s, i), {i})
  <1> DEFINE q == s.queue
             add == [m \in Slots |->
                        IF m \in Range(s.importers) THEN Append(q[m], Bare(i)) ELSE q[m]]
  <1>1. q \in [Slots -> Seq(Attr)]
    BY DEF States
  <1>2. ASSUME NEW m \in Slots PROVE add[m] \in Seq(Attr) /\ Grown(q[m], add[m], {i})
    <2>1. q[m] \in Seq(Attr) /\ i \in {i}
      BY <1>1
    <2> HIDE DEF q
    <2>2. CASE m \in Range(s.importers)
      <3>1. add[m] = Append(q[m], Bare(i))
        BY <2>2
      <3>2. QED
        BY <2>1, <3>1, GrownAppend
    <2>3. CASE m \notin Range(s.importers)
      <3>1. add[m] = q[m]
        BY <2>3
      <3>2. QED
        BY <2>1, <3>1, GrownStays
    <2>4. QED
      BY <2>2, <2>3
  <1>3. add \in [Slots -> Seq(Attr)]
    <2>1. \A m \in Slots : add[m] \in Seq(Attr)
      BY <1>2
    <2>2. add = [m \in Slots |-> add[m]]
      OBVIOUS
    <2> HIDE DEF add
    <2>3. QED
      BY <2>1, <2>2
  <1>4. QueuedAll(s, i) = [s EXCEPT !.queue = add]
    BY DEF QueuedAll
  <1> HIDE DEF add
  <1>5. QueuedAll(s, i) \in States /\ QueuedAll(s, i).queue = add
    BY <1>3, <1>4 DEF States
  <1>6. QED
    BY <1>2, <1>5 DEF Grows, q

LEMMA SlotsKept ==
    ASSUME NEW list \in Seq(Importer), NEW S
    PROVE  Kept(list, S) \in Seq(Importer)
  BY KeptKeeps

LEMMA AddParsedGrows ==
    ASSUME NEW s \in States, NEW i \in Item
    PROVE  Grows(s, AddParsed(s, i), {i})
  <1> USE DEF Importer
  <1>1. TokenSlots \in Seq(Importer) /\ <<GnuPG>> \in Seq(Importer)
    <2>1. TokenSlots \in Seq(Slots)
      BY ImportingAssumption
    <2>2. TokenSlots \in Seq(Importer)
      BY <2>1
    <2>3. QED
      BY <2>2
  <1>2. \A list \in Seq(Importer), made \in BOOLEAN :
           LET t == [s EXCEPT !.importers = list, !.created = made]
           IN  t \in States /\ t.queue = s.queue
    BY DEF States
  <1>3. Grows(s, CreateFor(s, i), {i})
    <2> DEFINE found == IF Compatible(i, GnuPG) THEN <<GnuPG>>
                        ELSE Kept(TokenSlots, {m \in Slots : Importable(m) /\ Compatible(i, m)})
               t == [s EXCEPT !.importers = found, !.created = TRUE]
    <2>1. found \in Seq(Importer)
      BY <1>1, SlotsKept
    <2> HIDE DEF found
    <2>2. t \in States /\ t.queue = s.queue
      BY <1>2, <2>1
    <2> HIDE DEF t
    <2>3. Grows(t, QueuedAll(t, i), {i})
      BY <2>2, QueuedAllGrows
    <2>4. CreateFor(s, i) = QueuedAll(t, i)
      BY DEF CreateFor, t, found
    <2>5. QED
      BY <2>2, <2>3, <2>4 DEF Grows
  <1>4. Grows(s, QueueAndFilter(s, i), {i})
    <2> DEFINE takes == Slots \cup (IF Compatible(i, GnuPG) THEN {GnuPG} ELSE {})
               t == [s EXCEPT !.importers = Kept(@, takes)]
    <2> HIDE DEF takes
    <2>1. Kept(s.importers, takes) \in Seq(Importer)
      <3>1. s.importers \in Seq(Importer)
        BY DEF States
      <3>2. QED
        BY <3>1, SlotsKept
    <2>2. t \in States /\ t.queue = s.queue
      BY <2>1 DEF States
    <2> HIDE DEF t
    <2>3. Grows(t, QueuedAll(t, i), {i})
      BY <2>2, QueuedAllGrows
    <2>4. QueueAndFilter(s, i) = QueuedAll(t, i)
      BY DEF QueueAndFilter, t, takes
    <2>5. QED
      BY <2>2, <2>3, <2>4 DEF Grows
  <1>5. QED
    BY <1>3, <1>4 DEF AddParsed

LEMMA AddAllSteps ==
    ASSUME NEW s \in States, NEW list \in Seq(Item)
    PROVE  \E given : /\ given[0] = s /\ AddAll(s, list) = given[Len(list)]
                      /\ \A n \in 1 .. Len(list) :
                            given[n] = AddParsed(given[n - 1], list[n])
  <1> DEFINE N == Len(list)
             step == [n \in 1 .. N |-> [t \in States |-> AddParsed(t, list[n])]]
             Equation(f) == f = [n \in 0 .. Len(list) |->
                IF n = 0 THEN s ELSE AddParsed(f[n - 1], list[n])]
             given == CHOOSE f : Equation(f)
  <1>1. N \in Nat /\ \A n \in 1 .. N : list[n] \in Item
    OBVIOUS
  <1>2. \A t \in States, i \in Item : AddParsed(t, i) \in States
    BY AddParsedGrows DEF Grows
  <1>3. PICK g \in [0 .. N -> States] : g[0] = s /\ \A n \in 1 .. N : g[n] = step[n][g[n - 1]]
    <2>1. step \in Steps(N, States)
      BY <1>1, <1>2 DEF Steps
    <2> HIDE DEF N, step
    <2>2. \E f : Solves(f, N, States, s, step)
      BY <1>1, <2>1, Recursion
    <2>3. QED
      BY <2>2 DEF Solves
  <1>4. Equation(g)
    <2>1. \A n \in 1 .. N : n - 1 \in 0 .. N /\ g[n - 1] \in States
      <3> SUFFICES ASSUME NEW n \in 1 .. N PROVE n - 1 \in 0 .. N /\ g[n - 1] \in States
        OBVIOUS
      <3>1. n - 1 \in 0 .. N
        BY <1>1
      <3>2. QED
        BY <3>1
    <2>2. \A n \in 0 .. N : n # 0 => n \in 1 .. N
      BY <1>1
    <2>3. \A n \in 0 .. N : g[n] = IF n = 0 THEN s ELSE AddParsed(g[n - 1], list[n])
      BY <1>3, <2>1, <2>2
    <2>4. QED
      BY <2>3
  <1>5. Equation(given)
    <2> HIDE DEF Equation
    <2>1. QED
      BY <1>4
  <1>6. given[0] = s /\ \A n \in 1 .. N : given[n] = AddParsed(given[n - 1], list[n])
    <2> HIDE DEF given
    <2>1. 0 \in 0 .. N /\ \A n \in 1 .. N : n \in 0 .. N /\ n # 0
      BY <1>1
    <2>2. QED
      BY <1>5, <2>1
  <1>7. AddAll(s, list) = given[N]
    BY DEF AddAll
  <1> HIDE DEF given, Equation
  <1>8. QED
    BY <1>6, <1>7

LEMMA AddAllGrows ==
    ASSUME NEW s \in States, NEW list \in Seq(Item),
           \A i, j \in DOMAIN list : list[i] = list[j] => i = j
    PROVE  Grows(s, AddAll(s, list), Range(list))
  <1> DEFINE N == Len(list)
             Upto(n) == {list[j] : j \in 1 .. n}
  <1>1. N \in Nat /\ DOMAIN list = 1 .. N /\ \A n \in 1 .. N : list[n] \in Item
    OBVIOUS
  <1>2. PICK given : /\ given[0] = s /\ AddAll(s, list) = given[N]
                     /\ \A n \in 1 .. N : given[n] = AddParsed(given[n - 1], list[n])
    BY AddAllSteps
  <1> DEFINE Good == {n \in 0 .. N : Grows(s, given[n], Upto(n))}
  <1>3. 0 \in Good
    <2>1. \A m \in Slots : s.queue[m] \in Seq(Attr)
      BY DEF States
    <2>2. \A m \in Slots : Grown(s.queue[m], s.queue[m], Upto(0))
      BY <2>1, GrownStays
    <2> HIDE DEF Upto
    <2>3. Grows(s, given[0], Upto(0))
      BY <1>2, <2>2 DEF Grows
    <2>4. QED
      BY <1>1, <2>3
  <1>4. ASSUME NEW n \in 1 .. N, n - 1 \in Good PROVE n \in Good
    <2> DEFINE t == given[n - 1]
               i == list[n]
               r == given[n]
               A == Upto(n - 1)
               B == Upto(n)
    <2>1. Grows(s, t, A) /\ i \in Item /\ n \in 0 .. N
      BY <1>1, <1>4
    <2>2. \A j \in 1 .. n - 1 : j \in 1 .. n /\ j \in 1 .. N /\ j # n
      BY <1>1
    <2>3. A \intersect {i} = {}
      BY <1>1, <2>2
    <2>4. B = A \union {i}
      <3>1. \A j \in 1 .. n : j \in 1 .. n - 1 \/ j = n
        BY <1>1
      <3>2. n \in 1 .. n
        BY <1>1
      <3>3. QED
        BY <2>2, <3>1, <3>2
    <2>5. r = AddParsed(t, i)
      BY <1>2
    <2> HIDE DEF t, i, r, A, B
    <2>6. Grows(t, r, {i})
      BY <2>1, <2>5, AddParsedGrows DEF Grows
    <2>7. ASSUME NEW m \in Slots PROVE Grown(s.queue[m], r.queue[m], B)
      <3> DEFINE x == s.queue[m]
                 y == t.queue[m]
                 z == r.queue[m]
      <3>1. x \in Seq(Attr) /\ y \in Seq(Attr)
        BY <2>1 DEF Grows, States
      <3>2. Grown(x, y, A) /\ Grown(y, z, {i})
        BY <2>1, <2>6 DEF Grows
      <3> HIDE DEF x, y, z
      <3>3. Grown(x, z, B)
        BY <2>3, <2>4, <3>1, <3>2, GrownTwice
      <3>4. QED
        BY <3>3 DEF x, z
    <2>8. Grows(s, r, B)
      BY <2>6, <2>7 DEF Grows
    <2>9. QED
      BY <2>1, <2>8 DEF r, B
  <1>5. N \in Good
    <2> HIDE DEF Good
    <2>1. \A n \in 0 .. N : n \in Good
      BY <1>1, <1>3, <1>4, Induction
    <2>2. QED
      BY <1>1, <2>1
  <1>6. Upto(N) = Range(list)
    BY <1>1 DEF Range
  <1> HIDE DEF Upto
  <1>7. QED
    BY <1>2, <1>5, <1>6

-----------------------------------------------------------------------------
(* Imports.  The invariant.                                                *)

Results == {"none", "success", "error"}

GivenType ==
    /\ added \in SUBSET Item /\ ready \in BOOLEAN
    /\ pending \in Seq(Item) /\ Range(pending) \subseteq added
    /\ \A i, j \in DOMAIN pending : pending[i] = pending[j] => i = j

ImportType ==
    /\ GivenType /\ Importers \in States
    /\ objects \in [Slots -> Seq(Attr)] /\ failed \in [Slots -> SUBSET Item]
    /\ result \in [Slots -> Results] /\ pass \in Nat

\* The import in progress; the one into GnuPG has one phase.
OpKnown ==
    \/ op = NoImport
    \/ /\ op \in [on : Importer, attrs : Seq(Attr),
                  phase : {"opening", "supplementing", "creating", "circling"}]
       /\ op.on = GnuPG => op.phase = "opening"
       /\ op.phase = "creating" => \E a \in Attr : op.attrs = <<a>>
       /\ op.phase # "creating" => op.attrs = << >>

Current(s) == IF op.on = s THEN op.attrs ELSE << >>
Mine(s) == HeldBy(objects[s], queue[s], Current(s), failed[s])
SlotKnown(s) ==
    Sound(objects[s], queue[s], Current(s), failed[s], added, Range(pending), pass)

ImportInv == ImportType /\ OpKnown /\ \A s \in Slots : SlotKnown(s)

\* What a step does to the items of a token, and when its import succeeds.
Keeps(s) ==
    /\ Mine(s) \subseteq Mine(s)'
    /\ result[s] # "success" /\ result'[s] = "success" => queue'[s] = << >> /\ op' = NoImport

LEMMA NoImportIs ==
    /\ NoImport.phase = "none" /\ NoImport.attrs = << >> /\ NoImport.on = "none"
    /\ "none" \notin Slots /\ GnuPG \notin Slots
  BY ImportingAssumption DEF NoImport

LEMMA MineIs ==
    \A s \in Slots : Held(s) = Mine(s)
  BY ItemsEmpty DEF Held, Mine, HeldBy, Current

LEMMA CurrentType ==
    ASSUME OpKnown, NEW s \in Slots
    PROVE  Current(s) \in Seq(Attr)
  <1>1. CASE op = NoImport
    BY <1>1, NoImportIs, ItemsEmpty DEF Current
  <1>2. CASE op # NoImport
    <2>1. op.attrs \in Seq(Attr)
      BY <1>2 DEF OpKnown
    <2>2. QED
      BY <2>1, ItemsEmpty DEF Current
  <1>3. QED
    BY <1>1, <1>2

LEMMA CurrentType2 ==
    ASSUME OpKnown', NEW s \in Slots
    PROVE  Current(s)' \in Seq(Attr)
  <1>1. CASE op' = NoImport
    BY <1>1, NoImportIs, ItemsEmpty DEF Current
  <1>2. CASE op' # NoImport
    <2>1. op'.attrs \in Seq(Attr)
      BY <1>2 DEF OpKnown
    <2>2. QED
      BY <2>1, ItemsEmpty DEF Current
  <1>3. QED
    BY <1>1, <1>2

LEMMA SlotTypes ==
    ASSUME ImportInv, NEW s \in Slots
    PROVE  /\ objects[s] \in Seq(Attr) /\ queue[s] \in Seq(Attr) /\ Current(s) \in Seq(Attr)
           /\ pass \in Nat /\ failed[s] \subseteq Item
           /\ Sound(objects[s], queue[s], Current(s), failed[s], added, Range(pending), pass)
           /\ Mine(s) \subseteq added /\ Mine(s) \intersect Range(pending) = {}
  <1>1. objects[s] \in Seq(Attr) /\ queue[s] \in Seq(Attr) /\ failed[s] \subseteq Item
    BY DEF ImportInv, ImportType, Importers, States
  <1>2. Sound(objects[s], queue[s], Current(s), failed[s], added, Range(pending), pass)
    BY DEF ImportInv, SlotKnown
  <1>3. Mine(s) \subseteq added /\ Mine(s) \intersect Range(pending) = {}
    BY <1>2 DEF Sound, Placed, Mine
  <1>4. QED
    BY <1>1, <1>2, <1>3, CurrentType DEF ImportInv, ImportType

LEMMA ImportStart == ImportingInit => ImportInv
  <1> SUFFICES ASSUME ImportingInit PROVE ImportInv
    OBVIOUS
  <1>1. ImportType
    <2>1. queue \in [Slots -> Seq(Attr)] /\ objects \in [Slots -> Seq(Attr)]
      BY ItemsEmpty DEF ImportingInit
    <2>2. << >> \in Seq(Importer) /\ << >> \in Seq(Item) /\ Range(<< >>) = {}
      BY RangeEmpty
    <2>3. Importers \in States
      BY <2>1, <2>2 DEF ImportingInit, Importers, States
    <2>4. /\ pending \in Seq(Item) /\ Range(pending) \subseteq added
          /\ \A i, j \in DOMAIN pending : pending[i] = pending[j] => i = j
      BY <2>2 DEF ImportingInit
    <2>5. /\ added \in SUBSET Item /\ ready \in BOOLEAN /\ pass \in Nat
          /\ failed \in [Slots -> SUBSET Item] /\ result \in [Slots -> Results]
      BY DEF ImportingInit, Results
    <2>6. QED
      BY <2>1, <2>3, <2>4, <2>5 DEF ImportType, GivenType
  <1>2. OpKnown
    BY DEF ImportingInit, OpKnown
  <1>3. ASSUME NEW s \in Slots PROVE SlotKnown(s)
    <2> DEFINE e == << >>
    <2>1. objects[s] = e /\ queue[s] = e /\ failed[s] = {} /\ Current(s) = e
      BY NoImportIs DEF ImportingInit, Current
    <2>2. added = {} /\ pending = e /\ pass = 0
      BY DEF ImportingInit
    <2>3. e \in Seq(Attr) /\ Items(e) = {} /\ Range(e) = {} /\ ItemsOnce(e)
      BY ItemsEmpty
    <2> HIDE DEF e
    <2>4. Placed(e, e, e, {}, {}, {})
      BY <2>3 DEF Placed, HeldBy
    <2>5. Identified(AttrsOf(e, e, e), {}, 0)
      BY <2>3 DEF Identified, AttrsOf, AgreeIn
    <2>6. Sound(e, e, e, {}, {}, {}, 0)
      BY <2>4, <2>5 DEF Sound
    <2>7. QED
      BY <2>1, <2>2, <2>3, <2>6 DEF SlotKnown
  <1>4. QED
    BY <1>1, <1>2, <1>3 DEF ImportInv

-----------------------------------------------------------------------------
(* Imports.  What is given to the button.                                  *)

\* What a token holds stays, and its queue takes new items.
LEMMA SlotGrows ==
    ASSUME ImportInv, NEW s \in Slots, NEW new,
           Grown(queue[s], queue'[s], new),
           HasRoom(new, Mine(s), added, added', Range(pending')),
           Current(s)' = Current(s), UNCHANGED <<objects, failed, pass>>
    PROVE  SlotKnown(s)' /\ Mine(s) \subseteq Mine(s)'
  <1> DEFINE o == objects[s]
             q == queue[s]
             r == queue'[s]
             c == Current(s)
             b == failed[s]
             more == added'
             left == Range(pending')
             waiting == Range(pending)
  <1>1. /\ o \in Seq(Attr) /\ q \in Seq(Attr) /\ c \in Seq(Attr) /\ pass \in Nat
        /\ Sound(o, q, c, b, added, waiting, pass)
    BY SlotTypes
  <1>2. Mine(s) = HeldBy(o, q, c, b)
    BY DEF Mine
  <1>3. Grown(q, r, new) /\ HasRoom(new, HeldBy(o, q, c, b), added, more, left)
    BY <1>2
  <1>4. /\ SlotKnown(s)' <=> Sound(o, r, c, b, more, left, pass)
        /\ Mine(s)' = HeldBy(o, r, c, b)
    BY DEF SlotKnown, Mine
  <1> HIDE DEF o, q, r, c, b, more, left, waiting
  <1>5. /\ Sound(o, r, c, b, more, left, pass)
        /\ HeldBy(o, q, c, b) \subseteq HeldBy(o, r, c, b)
    BY <1>1, <1>3, SoundGrown
  <1>6. QED
    BY <1>2, <1>4, <1>5

\* A step that adds new items to queues, or none, and goes on with the same import.
LEMMA StepGrows ==
    ASSUME ImportInv, NEW new, Grows(Importers, Importers', new), GivenType', OpKnown',
           \A s \in Slots : HasRoom(new, Mine(s), added, added', Range(pending')),
           \A s \in Slots : Current(s)' = Current(s),
           UNCHANGED <<objects, failed, pass>>, result' \in [Slots -> Results],
           \A s \in Slots : result'[s] = "success" => result[s] = "success"
    PROVE  ImportInv' /\ \A s \in Slots : Keeps(s)
  <1>1. ASSUME NEW s \in Slots PROVE SlotKnown(s)' /\ Mine(s) \subseteq Mine(s)'
    <2>1. Grown(queue[s], queue'[s], new)
      BY DEF Grows, Importers
    <2>2. HasRoom(new, Mine(s), added, added', Range(pending')) /\ Current(s)' = Current(s)
      OBVIOUS
    <2>3. QED
      BY <2>1, <2>2, SlotGrows
  <1>2. ImportType'
    <2>1. Importers' \in States
      BY DEF Grows
    <2>2. objects \in [Slots -> Seq(Attr)] /\ failed \in [Slots -> SUBSET Item] /\ pass \in Nat
      BY DEF ImportInv, ImportType
    <2>3. QED
      BY <2>1, <2>2 DEF ImportType
  <1>3. ImportInv'
    BY <1>1, <1>2 DEF ImportInv
  <1>4. \A s \in Slots : Keeps(s)
    BY <1>1 DEF Keeps
  <1>5. QED
    BY <1>3, <1>4

LEMMA NothingNew ==
    ASSUME ImportInv, UNCHANGED <<queue, created>>, importers' \in Seq(Importer)
    PROVE  Grows(Importers, Importers', {})
  <1>1. queue \in [Slots -> Seq(Attr)] /\ created \in BOOLEAN
    BY DEF ImportInv, ImportType, Importers, States
  <1>2. Importers' \in States
    BY <1>1 DEF Importers, States
  <1>3. \A m \in Slots : Grown(queue[m], queue[m], {})
    BY <1>1, GrownStays
  <1>4. QED
    BY <1>2, <1>3 DEF Grows, Importers

LEMMA NothingFits ==
    ASSUME ImportInv, NEW s \in Slots, added \subseteq added', Range(pending') \intersect Mine(s) = {}
    PROVE  HasRoom({}, Mine(s), added, added', Range(pending'))
  BY DEF HasRoom

LEMMA PrependIs ==
    ASSUME NEW list \in Seq(Item), NEW i \in Item, i \notin Range(list),
           \A m, n \in DOMAIN list : list[m] = list[n] => m = n
    PROVE  /\ <<i>> \o list \in Seq(Item) /\ Range(<<i>> \o list) = {i} \union Range(list)
           /\ \A m, n \in DOMAIN (<<i>> \o list) : (<<i>> \o list)[m] = (<<i>> \o list)[n] => m = n
  <1> DEFINE h == <<i>>
             l == h \o list
  <1>0. h \in Seq(Item) /\ Len(h) = 1 /\ h[1] = i /\ DOMAIN h = {1}
    OBVIOUS
  <1>6. Range(h) = {i}
    <2> HIDE DEF h
    <2>1. QED
      BY <1>0 DEF Range
  <1>1. /\ l \in Seq(Item) /\ Len(list) \in Nat /\ DOMAIN l = 1 .. Len(list) + 1
        /\ DOMAIN list = 1 .. Len(list) /\ l[1] = i
        /\ \A n \in DOMAIN l : n # 1 => n - 1 \in DOMAIN list /\ l[n] = list[n - 1]
    BY <1>0
  <1> HIDE DEF h
  <1>2. Range(l) = {i} \union Range(list)
    <2>1. Range(l) = Range(h) \union Range(list)
      BY <1>0, RangeConcatenation
    <2>2. QED
      BY <2>1, <1>6
  <1> HIDE DEF l
  <1>3. \A n \in DOMAIN list : list[n] # i
    BY DEF Range
  <1>4. ASSUME NEW m \in DOMAIN l, NEW n \in DOMAIN l, l[m] = l[n] PROVE m = n
    <2>1. CASE m # 1 /\ n # 1
      <3>1. m - 1 = n - 1
        BY <1>1, <1>4, <2>1
      <3>2. m \in Nat /\ n \in Nat
        BY <1>1
      <3>3. QED
        BY <3>1, <3>2
    <2>2. CASE m = 1 \/ n = 1
      BY <1>1, <1>3, <1>4, <2>2
    <2>3. QED
      BY <2>1, <2>2
  <1>5. QED
    BY <1>1, <1>2, <1>4 DEF l, h

LEMMA ImportAdd ==
    ASSUME ImportInv, NEW i \in Item, ButtonAdd(i)
    PROVE  ImportInv' /\ \A s \in Slots : Keeps(s)
  <1>1. GivenType /\ OpKnown /\ Importers \in States /\ result \in [Slots -> Results]
    BY DEF ImportInv, ImportType
  <1>2. /\ i \notin added /\ added' = added \cup {i} /\ ready' = ready
        /\ UNCHANGED <<objects, failed, op, result, pass>>
    BY DEF ButtonAdd
  <1>3. i \notin Range(pending)
    BY <1>1, <1>2 DEF GivenType
  <1>4. \A s \in Slots : i \notin Mine(s) /\ Range(pending) \intersect Mine(s) = {}
    BY <1>2, SlotTypes
  <1>5. OpKnown' /\ \A s \in Slots : Current(s)' = Current(s)
    BY <1>1, <1>2 DEF OpKnown, Current
  <1>6. CASE ready
    <2>1. ImportersBecome(AddParsed(Importers, i)) /\ pending' = pending
      BY <1>6 DEF ButtonAdd
    <2>2. Grows(Importers, Importers', {i})
      <3> DEFINE t == AddParsed(Importers, i)
      <3>1. Grows(Importers, t, {i})
        BY <1>1, AddParsedGrows
      <3> HIDE DEF t
      <3>2. importers' = t.importers /\ queue' = t.queue /\ created' = t.created
        BY <2>1 DEF ImportersBecome, t
      <3>3. Importers' = t
        BY <3>1, <3>2 DEF Grows, States, Importers
      <3>4. QED
        BY <3>1, <3>3
    <2>3. GivenType'
      BY <1>1, <1>2, <2>1 DEF GivenType
    <2>4. \A s \in Slots : HasRoom({i}, Mine(s), added, added', Range(pending'))
      BY <1>2, <1>3, <1>4, <2>1 DEF HasRoom
    <2>5. QED
      BY <1>1, <1>2, <1>5, <2>2, <2>3, <2>4, StepGrows
  <1>7. CASE ~ready
    <2>1. pending' = <<i>> \o pending /\ UNCHANGED <<importers, queue, created>>
      BY <1>7 DEF ButtonAdd
    <2>2. /\ pending' \in Seq(Item) /\ Range(pending') = {i} \union Range(pending)
          /\ \A m, n \in DOMAIN pending' : pending'[m] = pending'[n] => m = n
      <3>1. pending \in Seq(Item) /\ \A m, n \in DOMAIN pending : pending[m] = pending[n] => m = n
        BY <1>1 DEF GivenType
      <3>2. QED
        BY <1>3, <2>1, <3>1, PrependIs
    <2>3. GivenType'
      BY <1>1, <1>2, <2>2 DEF GivenType
    <2>4. Grows(Importers, Importers', {})
      <3>1. importers' \in Seq(Importer)
        BY <1>1, <2>1 DEF Importers, States
      <3>2. QED
        BY <2>1, <3>1, NothingNew
    <2>5. \A s \in Slots : HasRoom({}, Mine(s), added, added', Range(pending'))
      BY <1>2, <1>4, <2>2 DEF HasRoom
    <2>6. QED
      BY <1>1, <1>2, <1>5, <2>3, <2>4, <2>5, StepGrows
  <1>8. QED
    BY <1>6, <1>7

LEMMA ImportReady ==
    ASSUME ImportInv, LibraryReady
    PROVE  ImportInv' /\ \A s \in Slots : Keeps(s)
  <1>1. GivenType /\ OpKnown /\ Importers \in States /\ result \in [Slots -> Results]
    BY DEF ImportInv, ImportType
  <1>2. /\ added' = added /\ ready' = TRUE /\ pending' = << >>
        /\ UNCHANGED <<objects, failed, op, result, pass>>
        /\ ImportersBecome(AddAll(Importers, pending))
    BY DEF LibraryReady
  <1>3. OpKnown' /\ \A s \in Slots : Current(s)' = Current(s)
    BY <1>1, <1>2 DEF OpKnown, Current
  <1>4. Range(pending') = {} /\ pending' \in Seq(Item)
    BY <1>2, RangeEmpty
  <1>5. GivenType'
    BY <1>1, <1>2, <1>4 DEF GivenType
  <1>6. Grows(Importers, Importers', Range(pending))
    <2> DEFINE t == AddAll(Importers, pending)
    <2>1. pending \in Seq(Item) /\ \A m, n \in DOMAIN pending : pending[m] = pending[n] => m = n
      BY <1>1 DEF GivenType
    <2>2. Grows(Importers, t, Range(pending))
      BY <1>1, <2>1, AddAllGrows
    <2> HIDE DEF t
    <2>3. importers' = t.importers /\ queue' = t.queue /\ created' = t.created
      BY <1>2 DEF ImportersBecome, t
    <2>4. Importers' = t
      BY <2>2, <2>3 DEF Grows, States, Importers
    <2>5. QED
      BY <2>2, <2>4
  <1>7. \A s \in Slots : HasRoom(Range(pending), Mine(s), added, added', Range(pending'))
    <2>1. \A s \in Slots : Range(pending) \intersect Mine(s) = {}
      BY SlotTypes
    <2>2. Range(pending) \subseteq added
      BY <1>1 DEF GivenType
    <2>3. QED
      BY <1>2, <1>4, <2>1, <2>2 DEF HasRoom
  <1>8. QED
    BY <1>1, <1>2, <1>3, <1>5, <1>6, <1>7, StepGrows

-----------------------------------------------------------------------------
(* Imports.  The steps that leave the queues alone.                        *)

\* What is given stays as it is.
LEMMA GivenStays ==
    ASSUME ImportInv, UNCHANGED <<added, ready>>, pending' = pending \/ pending' = << >>
    PROVE  GivenType' /\ \A s \in Slots : HasRoom({}, Mine(s), added, added', Range(pending'))
  <1>1. GivenType
    BY DEF ImportInv, ImportType
  <1>2. Range(<< >>) = {} /\ << >> \in Seq(Item)
    BY RangeEmpty
  <1>3. GivenType'
    <2>1. CASE pending' = pending
      BY <1>1, <2>1 DEF GivenType
    <2>2. CASE pending' = << >>
      BY <1>1, <1>2, <2>2 DEF GivenType
    <2>3. QED
      BY <2>1, <2>2
  <1>4. \A s \in Slots : Range(pending') \intersect Mine(s) = {}
    BY <1>2, SlotTypes
  <1>5. QED
    BY <1>3, <1>4, NothingFits

LEMMA StepElsewhere ==
    ASSUME ImportInv, UNCHANGED <<added, ready, queue, created, objects, failed, pass>>,
           pending' = pending \/ pending' = << >>, importers' \in Seq(Importer), OpKnown',
           \A s \in Slots : Current(s)' = Current(s), result' \in [Slots -> Results],
           \A s \in Slots : result'[s] = "success" => result[s] = "success"
    PROVE  ImportInv' /\ \A s \in Slots : Keeps(s)
  <1>1. GivenType' /\ \A s \in Slots : HasRoom({}, Mine(s), added, added', Range(pending'))
    BY GivenStays
  <1>2. Grows(Importers, Importers', {})
    BY NothingNew
  <1>3. QED
    BY <1>1, <1>2, StepGrows

LEMMA ImportersType ==
    ImportInv => /\ importers \in Seq(Importer) /\ << >> \in Seq(Importer) /\ OpKnown
                 /\ result \in [Slots -> Results] /\ pass \in Nat
                 /\ queue \in [Slots -> Seq(Attr)] /\ objects \in [Slots -> Seq(Attr)]
                 /\ failed \in [Slots -> SUBSET Item]
  BY DEF ImportInv, ImportType, Importers, States

LEMMA ImportStutters ==
    ASSUME ImportInv, UNCHANGED importingVars
    PROVE  ImportInv' /\ \A s \in Slots : Keeps(s)
  <1>1. UNCHANGED <<added, ready, pending, created, importers, queue, objects, failed, op,
                    result, pass>>
    BY DEF importingVars
  <1>2. OpKnown' /\ \A s \in Slots : Current(s)' = Current(s)
    BY <1>1, ImportersType DEF OpKnown, Current
  <1>3. QED
    BY <1>1, <1>2, ImportersType, StepElsewhere

LEMMA ImportDisposes ==
    ASSUME ImportInv, Dispose
    PROVE  ImportInv' /\ \A s \in Slots : Keeps(s)
  <1>1. /\ UNCHANGED <<added, ready, created, queue, objects, failed, op, result, pass>>
        /\ importers' = << >> /\ pending' = << >>
    BY DEF Dispose
  <1>2. OpKnown' /\ \A s \in Slots : Current(s)' = Current(s)
    BY <1>1, ImportersType DEF OpKnown, Current
  <1>3. QED
    BY <1>1, <1>2, ImportersType, StepElsewhere

LEMMA ImportBegins ==
    ASSUME ImportInv, NEW importer \in Slots \cup {GnuPG}, BeginImport(importer)
    PROVE  ImportInv' /\ \A s \in Slots : Keeps(s)
  <1>1. /\ UNCHANGED <<added, ready, pending, created, importers, queue, objects, failed,
                       result, pass>>
        /\ op' = [on |-> importer, phase |-> "opening", attrs |-> <<>>]
        /\ op.phase = "none"
    BY DEF BeginImport, Running
  <1>2. op = NoImport
    BY <1>1, ImportersType DEF OpKnown
  <1>3. OpKnown'
    <2>1. op' \in [on : Importer, attrs : Seq(Attr),
                   phase : {"opening", "supplementing", "creating", "circling"}]
      BY <1>1, ItemsEmpty DEF Importer
    <2>2. QED
      BY <1>1, <2>1 DEF OpKnown
  <1>4. \A s \in Slots : Current(s)' = Current(s)
    BY <1>1, <1>2, NoImportIs DEF Current
  <1>5. QED
    BY <1>1, <1>3, <1>4, ImportersType, StepElsewhere

-----------------------------------------------------------------------------
(* Imports.  The steps of an import into a token.                          *)

\* The import goes on, or is over.
Moves ==
    /\ OpKnown' /\ (op' = NoImport \/ op'.on = op.on)
    /\ importers' \in Seq(Importer) /\ result' \in [Slots -> Results]

LEMMA RunningIs ==
    ASSUME OpKnown, op.phase # "none"
    PROVE  /\ op \in [on : Importer, attrs : Seq(Attr),
                      phase : {"opening", "supplementing", "creating", "circling"}]
           /\ op.on = GnuPG => op.phase = "opening"
           /\ op.phase = "creating" => \E a \in Attr : op.attrs = <<a>>
           /\ op.phase # "creating" => op.attrs = << >>
           /\ op.on # GnuPG => op.on \in Slots
  BY NoImportIs DEF OpKnown, Importer

LEMMA CompleteDoes ==
    ASSUME ImportInv, op.phase # "none", NEW ok \in BOOLEAN, Complete(ok)
    PROVE  /\ Moves /\ op' = NoImport /\ \A s \in Slots : Current(s)' = << >>
           /\ \A s \in Slots : result'[s] = "success" =>
                  result[s] = "success" \/ (ok /\ s = op.on)
  <1>1. /\ importers \in Seq(Importer) /\ << >> \in Seq(Importer)
        /\ result \in [Slots -> Results] /\ OpKnown
    BY ImportersType
  <1>2. /\ op' = NoImport /\ importers' \in Seq(Importer)
        /\ result' = IF op.on = GnuPG THEN result
                     ELSE [result EXCEPT ![op.on] = IF ok THEN "success" ELSE "error"]
    BY <1>1 DEF Complete
  <1>3. OpKnown'
    BY <1>2 DEF OpKnown
  <1>4. \A s \in Slots : Current(s)' = << >>
    BY <1>2, NoImportIs DEF Current
  <1>5. result' \in [Slots -> Results]
    BY <1>1, <1>2 DEF Results
  <1>6. \A s \in Slots : result'[s] = "success" => result[s] = "success" \/ (ok /\ s = op.on)
    BY <1>1, <1>2
  <1>7. QED
    BY <1>2, <1>3, <1>4, <1>5, <1>6 DEF Moves

\* An import that goes round in circles creates nothing.
LEMMA CirclesDoes ==
    ASSUME OpKnown, op.phase # "none", op.on # GnuPG,
           op' = [op EXCEPT !.phase = "circling", !.attrs = <<>>]
    PROVE  OpKnown' /\ op'.on = op.on /\ \A s \in Slots : Current(s)' = << >>
  <1>1. op \in [on : Importer, attrs : Seq(Attr),
                phase : {"opening", "supplementing", "creating", "circling"}]
    BY RunningIs
  <1>2. /\ op' \in [on : Importer, attrs : Seq(Attr),
                    phase : {"opening", "supplementing", "creating", "circling"}]
        /\ op'.on = op.on /\ op'.attrs = << >> /\ op'.phase = "circling"
    BY <1>1, ItemsEmpty
  <1>3. OpKnown'
    BY <1>2 DEF OpKnown
  <1>4. QED
    BY <1>2, <1>3 DEF Current

LEMMA FailsDoes ==
    ASSUME ImportInv, op.phase # "none", op.on # GnuPG, Fails
    PROVE  /\ Moves /\ \A s \in Slots : Current(s)' = << >>
           /\ \A s \in Slots : result'[s] = "success" => result[s] = "success"
  <1>1. CASE cancelled
    <2>1. op' = [op EXCEPT !.phase = "circling", !.attrs = <<>>]
          /\ result' = result /\ importers' = importers
      BY <1>1 DEF Fails
    <2>2. OpKnown' /\ op'.on = op.on /\ \A s \in Slots : Current(s)' = << >>
      BY <2>1, CirclesDoes, ImportersType
    <2>3. QED
      BY <2>1, <2>2, ImportersType DEF Moves
  <1>2. CASE ~cancelled
    <2>1. Complete(FALSE)
      BY <1>2 DEF Fails
    <2>2. QED
      BY <2>1, CompleteDoes
  <1>3. QED
    BY <1>1, <1>2

LEMMA ImportOpens ==
    ASSUME ImportInv, NEW ok \in BOOLEAN, Opened(ok)
    PROVE  ImportInv' /\ \A s \in Slots : Keeps(s)
  <1>1. /\ op.phase = "opening" /\ op.on # GnuPG
        /\ UNCHANGED <<added, ready, pending, created, queue, objects, failed, pass>>
    BY DEF Opened
  <1>2. /\ op \in [on : Importer, attrs : Seq(Attr),
                   phase : {"opening", "supplementing", "creating", "circling"}]
        /\ op.attrs = << >>
    BY <1>1, RunningIs, ImportersType
  <1>3. \A s \in Slots : Current(s) = << >>
    BY <1>2 DEF Current
  <1>4. CASE ok
    <2>1. /\ op' = NextState([op EXCEPT !.phase = "supplementing"])
          /\ UNCHANGED <<result, importers>>
      BY <1>4 DEF Opened
    <2>2. op' \in {[op EXCEPT !.phase = "supplementing"], [op EXCEPT !.phase = "circling"]}
      BY <2>1 DEF NextState
    <2>3. /\ op' \in [on : Importer, attrs : Seq(Attr),
                      phase : {"opening", "supplementing", "creating", "circling"}]
          /\ op'.on = op.on /\ op'.attrs = << >> /\ op'.phase \in {"supplementing", "circling"}
      BY <1>2, <2>2
    <2>4. OpKnown' /\ \A s \in Slots : Current(s)' = Current(s)
      BY <1>1, <1>3, <2>3 DEF OpKnown, Current
    <2>5. QED
      BY <1>1, <2>1, <2>4, ImportersType, StepElsewhere
  <1>5. CASE ~ok
    <2>1. Fails
      BY <1>5 DEF Opened
    <2>2. /\ Moves /\ \A s \in Slots : Current(s)' = << >>
          /\ \A s \in Slots : result'[s] = "success" => result[s] = "success"
      BY <1>1, <2>1, FailsDoes
    <2>3. QED
      BY <1>1, <1>3, <2>2, StepElsewhere DEF Moves
  <1>6. QED
    BY <1>4, <1>5

LEMMA ImportIntoGnupg ==
    ASSUME ImportInv, NEW ok \in BOOLEAN, GnupgImported(ok)
    PROVE  ImportInv' /\ \A s \in Slots : Keeps(s)
  <1>1. /\ op.phase # "none" /\ op.on = GnuPG /\ Complete(ok)
        /\ UNCHANGED <<added, ready, pending, created, queue, objects, failed, pass>>
    BY DEF GnupgImported, Running
  <1>2. \A s \in Slots : Current(s) = << >>
    BY <1>1, NoImportIs DEF Current
  <1>3. /\ Moves /\ \A s \in Slots : Current(s)' = << >>
        /\ \A s \in Slots : result'[s] = "success" => result[s] = "success"
    <2>1. \A s \in Slots : s # op.on
      BY <1>1, NoImportIs
    <2>2. QED
      BY <1>1, <2>1, CompleteDoes
  <1>4. QED
    BY <1>1, <1>2, <1>3, StepElsewhere DEF Moves

\* The other tokens keep what they have.
LEMMA OthersStay ==
    ASSUME ImportInv, NEW o \in Slots, op.on = o, op' = NoImport \/ op'.on = o,
           NEW s \in Slots, s # o, objects'[s] = objects[s], queue'[s] = queue[s],
           failed'[s] = failed[s], UNCHANGED <<added, pending>>, pass' \in Nat, pass <= pass'
    PROVE  SlotKnown(s)' /\ Mine(s)' = Mine(s)
  <1> DEFINE x == objects[s]
             q == queue[s]
             b == failed[s]
             c == Current(s)
             w == Range(pending)
             later == pass'
  <1>1. Current(s)' = Current(s)
    BY NoImportIs DEF Current
  <1>2. /\ x \in Seq(Attr) /\ q \in Seq(Attr) /\ c \in Seq(Attr) /\ pass \in Nat
        /\ Sound(x, q, c, b, added, w, pass)
    BY SlotTypes
  <1>3. later \in Nat /\ pass <= later
    OBVIOUS
  <1>4. /\ SlotKnown(s)' <=> Sound(x, q, c, b, added, w, later)
        /\ Mine(s)' = Mine(s)
    BY <1>1 DEF SlotKnown, Mine
  <1> HIDE DEF x, q, b, c, w, later
  <1>5. Sound(x, q, c, b, added, w, later)
    BY <1>2, <1>3, SoundLater
  <1>6. QED
    BY <1>4, <1>5

\* A step of an import into token o.
LEMMA StepOfToken ==
    ASSUME ImportInv, NEW o \in Slots, op.on = o, Moves,
           UNCHANGED <<added, ready, pending, created>>,
           queue' \in [Slots -> Seq(Attr)], objects' \in [Slots -> Seq(Attr)],
           failed' \in [Slots -> SUBSET Item], pass' \in Nat, pass <= pass',
           \A s \in Slots \ {o} : /\ queue'[s] = queue[s] /\ objects'[s] = objects[s]
                                  /\ failed'[s] = failed[s],
           SlotKnown(o)', Mine(o) \subseteq Mine(o)',
           \A s \in Slots : result[s] # "success" /\ result'[s] = "success" =>
               queue'[s] = << >> /\ op' = NoImport
    PROVE  ImportInv' /\ \A s \in Slots : Keeps(s)
  <1>1. ASSUME NEW s \in Slots, s # o PROVE SlotKnown(s)' /\ Mine(s)' = Mine(s)
    <2>1. queue'[s] = queue[s] /\ objects'[s] = objects[s] /\ failed'[s] = failed[s]
      BY <1>1
    <2>2. op' = NoImport \/ op'.on = o
      BY DEF Moves
    <2>3. QED
      BY <1>1, <2>1, <2>2, OthersStay
  <1>2. \A s \in Slots : SlotKnown(s)' /\ Mine(s) \subseteq Mine(s)'
    BY <1>1
  <1>3. ImportType'
    <2>1. GivenType'
      BY GivenStays
    <2>2. Importers' \in States
      <3>1. created' \in BOOLEAN
        BY DEF ImportInv, ImportType, Importers, States
      <3>2. importers' \in Seq(Importer)
        BY DEF Moves
      <3>3. QED
        BY <3>1, <3>2 DEF Importers, States
    <2>3. result' \in [Slots -> Results]
      BY DEF Moves
    <2>4. QED
      BY <2>1, <2>2, <2>3 DEF ImportType
  <1>4. ImportInv'
    BY <1>2, <1>3 DEF ImportInv, Moves
  <1>5. \A s \in Slots : Keeps(s)
    BY <1>2 DEF Keeps
  <1>6. QED
    BY <1>4, <1>5

\* The import goes on with a queue: with its first item, or it is over.
LEMMA CreateNextDoes ==
    ASSUME ImportInv, op.phase # "none", NEW o \in Slots, op.on = o, NEW q \in Seq(Attr),
           CreateNext(q)
    PROVE  /\ Moves /\ queue' \in [Slots -> Seq(Attr)]
           /\ \A s \in Slots \ {o} : queue'[s] = queue[s]
           /\ \/ queue'[o] = q /\ Current(o)' = << >>
              \/ q # << >> /\ queue'[o] = Tail(q) /\ Current(o)' = <<Head(q)>>
           /\ \A s \in Slots : result[s] # "success" /\ result'[s] = "success" =>
                  queue'[s] = << >> /\ op' = NoImport
  <1>0. op.on # GnuPG /\ OpKnown
    BY NoImportIs, ImportersType
  <1>1. CASE cancelled
    <2>1. /\ op' = [op EXCEPT !.phase = "circling", !.attrs = <<>>]
          /\ queue' = [queue EXCEPT ![o] = q] /\ UNCHANGED <<result, importers>>
      BY <1>1 DEF CreateNext
    <2>2. OpKnown' /\ op'.on = op.on /\ \A s \in Slots : Current(s)' = << >>
      BY <1>0, <2>1, CirclesDoes
    <2>3. /\ queue' \in [Slots -> Seq(Attr)] /\ queue'[o] = q
          /\ \A s \in Slots \ {o} : queue'[s] = queue[s]
      BY <2>1, ImportersType
    <2>4. QED
      BY <2>1, <2>2, <2>3, ImportersType DEF Moves
  <1>2. CASE ~cancelled /\ q = << >>
    <2>1. Complete(TRUE) /\ queue' = [queue EXCEPT ![o] = q]
      BY <1>2 DEF CreateNext
    <2>2. /\ Moves /\ op' = NoImport /\ \A s \in Slots : Current(s)' = << >>
          /\ \A s \in Slots : result'[s] = "success" => result[s] = "success" \/ s = op.on
      BY <2>1, CompleteDoes
    <2>3. /\ queue' \in [Slots -> Seq(Attr)] /\ queue'[o] = q
          /\ \A s \in Slots \ {o} : queue'[s] = queue[s]
      BY <2>1, ImportersType
    <2>4. QED
      BY <1>2, <2>2, <2>3
  <1>3. CASE ~cancelled /\ q # << >>
    <2> DEFINE h == <<Head(q)>>
               t == Tail(q)
    <2>1. /\ op' = [op EXCEPT !.phase = "creating", !.attrs = h]
          /\ queue' = [queue EXCEPT ![o] = t] /\ UNCHANGED <<result, importers>>
      BY <1>3 DEF CreateNext
    <2>2. h \in Seq(Attr) /\ t \in Seq(Attr) /\ \E a \in Attr : h = <<a>>
      BY <1>3, ItemsHeadTail
    <2>3. op \in [on : Importer, attrs : Seq(Attr),
                  phase : {"opening", "supplementing", "creating", "circling"}]
      BY <1>0, RunningIs
    <2> HIDE DEF h, t
    <2>4. /\ op' \in [on : Importer, attrs : Seq(Attr),
                      phase : {"opening", "supplementing", "creating", "circling"}]
          /\ op'.on = o /\ op'.attrs = h /\ op'.phase = "creating"
      BY <2>1, <2>2, <2>3
    <2>5. OpKnown' /\ Current(o)' = h
      BY <1>0, <2>2, <2>4 DEF OpKnown, Current
    <2>6. /\ queue' \in [Slots -> Seq(Attr)] /\ queue'[o] = t
          /\ \A s \in Slots \ {o} : queue'[s] = queue[s]
      BY <2>1, <2>2, ImportersType
    <2>7. Moves
      BY <2>1, <2>4, <2>5, ImportersType DEF Moves
    <2>8. QED
      BY <1>3, <2>1, <2>5, <2>6, <2>7 DEF h, t
  <1>4. QED
    BY <1>1, <1>2, <1>3

LEMMA CreateNextSound ==
    ASSUME NEW x \in Seq(Attr), NEW q \in Seq(Attr), NEW b, NEW given, NEW waiting,
           NEW last \in Nat, Sound(x, q, << >>, b, given, waiting, last),
           NEW r, NEW c,
           \/ r = q /\ c = << >>
           \/ q # << >> /\ r = Tail(q) /\ c = <<Head(q)>>
    PROVE  /\ Sound(x, r, c, b, given, waiting, last)
           /\ HeldBy(x, r, c, b) = HeldBy(x, q, << >>, b)
  <1>1. CASE r = q /\ c = << >>
    BY <1>1
  <1>2. CASE q # << >> /\ r = Tail(q) /\ c = <<Head(q)>>
    BY <1>2, SoundNext
  <1>3. QED
    BY <1>1, <1>2

LEMMA ImportSupplements ==
    ASSUME ImportInv, NEW ok \in BOOLEAN, Supplemented(ok)
    PROVE  ImportInv' /\ \A s \in Slots : Keeps(s)
  <1>1. op.phase = "supplementing" /\ op.phase # "none"
        /\ UNCHANGED <<added, ready, pending, created, objects, failed>>
    BY DEF Supplemented
  <1>2. op.on # GnuPG /\ op.on \in Slots /\ op.attrs = << >>
    BY <1>1, RunningIs, ImportersType
  <1>20. PICK o \in Slots : op.on = o
    BY <1>2
  <1>3. \A s \in Slots : Current(s) = << >>
    BY <1>2 DEF Current
  <1>4. CASE ok
    <2> DEFINE x == objects[o]
               q == queue[o]
               b == failed[o]
               w == Range(pending)
               last == pass + 1
               c == Current(o)'
               r == queue'[o]
               e == << >>
    <2>1. pass' = last /\ pass \in Nat /\ last \in Nat /\ pass <= last
      BY <1>4, ImportersType DEF Supplemented
    <2>2. PICK order \in SetToSeqs(Fingerprints(q)) : CreateNext(Supplement(q, order))
      BY <1>4, <1>20 DEF Supplemented
    <2> DEFINE p == Supplement(q, order)
    <2>3. x \in Seq(Attr) /\ q \in Seq(Attr) /\ Sound(x, q, << >>, b, added, w, pass)
      BY <1>2, <1>3, SlotTypes
    <2>4. /\ p \in Seq(Attr) /\ Sound(x, p, << >>, b, added, w, last)
          /\ HeldBy(x, p, << >>, b) = HeldBy(x, q, << >>, b)
      <3> HIDE DEF x, q, b, w, p, last
      <3>1. /\ Supplement(q, order) \in Seq(Attr)
            /\ Sound(x, Supplement(q, order), << >>, b, added, w, pass + 1)
            /\ HeldBy(x, Supplement(q, order), << >>, b) = HeldBy(x, q, << >>, b)
        BY <2>1, <2>3, SoundSupplement
      <3>2. QED
        BY <3>1 DEF p, last
    <2>5. /\ o \in Slots /\ op.on = o /\ CreateNext(p)
          /\ \A s \in Slots \ {o} : objects'[s] = objects[s] /\ failed'[s] = failed[s]
          /\ objects' \in [Slots -> Seq(Attr)] /\ failed' \in [Slots -> SUBSET Item]
      BY <1>1, <1>2, <1>20, <2>2, ImportersType
    <2>6. Mine(o) = HeldBy(x, q, << >>, b)
      BY <1>2, <1>3 DEF Mine
    <2>7. /\ SlotKnown(o)' <=> Sound(x, r, c, b, added, w, last)
          /\ Mine(o)' = HeldBy(x, r, c, b)
      BY <1>1, <2>1 DEF SlotKnown, Mine
    <2> HIDE DEF x, q, b, w, last, c, r, e, p
    <2>8. /\ Moves /\ queue' \in [Slots -> Seq(Attr)]
          /\ \A s \in Slots \ {o} : queue'[s] = queue[s]
          /\ \/ queue'[o] = p /\ Current(o)' = << >>
             \/ p # << >> /\ queue'[o] = Tail(p) /\ Current(o)' = <<Head(p)>>
          /\ \A s \in Slots : result[s] # "success" /\ result'[s] = "success" =>
                 queue'[s] = << >> /\ op' = NoImport
      BY <1>1, <2>4, <2>5, CreateNextDoes
    <2>9. \/ r = p /\ c = << >>
          \/ p # << >> /\ r = Tail(p) /\ c = <<Head(p)>>
      BY <2>8 DEF r, c
    <2>10. /\ Sound(x, r, c, b, added, w, last)
           /\ HeldBy(x, r, c, b) = HeldBy(x, p, << >>, b)
      BY <2>1, <2>3, <2>4, <2>9, CreateNextSound
    <2>11. SlotKnown(o)' /\ Mine(o) \subseteq Mine(o)'
      BY <2>4, <2>6, <2>7, <2>10
    <2>12. QED
      BY <1>1, <2>1, <2>5, <2>8, <2>11, StepOfToken
  <1>5. CASE ~ok
    <2>1. Fails /\ UNCHANGED <<pass, queue>>
      BY <1>5 DEF Supplemented
    <2>2. /\ Moves /\ \A s \in Slots : Current(s)' = << >>
          /\ \A s \in Slots : result'[s] = "success" => result[s] = "success"
      BY <1>1, <1>2, <2>1, FailsDoes
    <2>3. QED
      BY <1>1, <1>3, <2>1, <2>2, StepElsewhere DEF Moves
  <1>6. QED
    BY <1>4, <1>5

LEMMA ImportCreates ==
    ASSUME ImportInv, NEW ok \in BOOLEAN, ObjectCreated(ok)
    PROVE  ImportInv' /\ \A s \in Slots : Keeps(s)
  <1>1. op.phase = "creating" /\ op.phase # "none"
        /\ UNCHANGED <<added, ready, pending, created, pass>>
    BY DEF ObjectCreated
  <1>2. op.on # GnuPG /\ op.on \in Slots /\ \E a \in Attr : op.attrs = <<a>>
    BY <1>1, RunningIs, ImportersType
  <1>3. PICK a \in Attr : op.attrs = <<a>>
    BY <1>2
  <1>4. Head(op.attrs) = a
    BY <1>3, OneIs
  <1>20. PICK o \in Slots : op.on = o
    BY <1>2
  <1> DEFINE x == objects[o]
             q == queue[o]
             b == failed[o]
             w == Range(pending)
             c == Current(o)'
             r == queue'[o]
  <1>5. Current(o) = <<a>>
    BY <1>3, <1>20 DEF Current
  <1>6. /\ x \in Seq(Attr) /\ q \in Seq(Attr) /\ Sound(x, q, <<a>>, b, added, w, pass)
        /\ pass \in Nat
    BY <1>2, <1>5, SlotTypes
  <1>7. Mine(o) = HeldBy(x, q, <<a>>, b)
    BY <1>5 DEF Mine
  <1>8. pass' = pass /\ pass' \in Nat /\ pass <= pass'
    BY <1>1, <1>6
  <1>9. CASE ok
    <2> DEFINE y == Append(x, a)
    <2>1. /\ objects' = [objects EXCEPT ![o] = Append(@, a)]
          /\ CreateNext(queue[o]) /\ failed' = failed
      BY <1>4, <1>9, <1>20 DEF ObjectCreated
    <2>2. /\ y \in Seq(Attr) /\ Sound(y, q, << >>, b, added, w, pass)
          /\ HeldBy(y, q, << >>, b) = HeldBy(x, q, <<a>>, b)
      <3> HIDE DEF x, q, b, w
      <3>1. QED
        BY <1>6, SoundCreated
    <2>3. /\ o \in Slots /\ op.on = o /\ CreateNext(q)
          /\ objects'[o] = y /\ failed'[o] = b
          /\ \A s \in Slots \ {o} : objects'[s] = objects[s] /\ failed'[s] = failed[s]
          /\ objects' \in [Slots -> Seq(Attr)] /\ failed' \in [Slots -> SUBSET Item]
      BY <1>2, <1>20, <2>1, <2>2, ImportersType
    <2>4. /\ SlotKnown(o)' <=> Sound(y, r, c, b, added, w, pass)
          /\ Mine(o)' = HeldBy(y, r, c, b)
      BY <1>1, <2>3 DEF SlotKnown, Mine
    <2> HIDE DEF x, y, q, b, w, c, r
    <2>5. /\ Moves /\ queue' \in [Slots -> Seq(Attr)]
          /\ \A s \in Slots \ {o} : queue'[s] = queue[s]
          /\ \/ queue'[o] = q /\ Current(o)' = << >>
             \/ q # << >> /\ queue'[o] = Tail(q) /\ Current(o)' = <<Head(q)>>
          /\ \A s \in Slots : result[s] # "success" /\ result'[s] = "success" =>
                 queue'[s] = << >> /\ op' = NoImport
      BY <1>1, <1>6, <2>3, CreateNextDoes
    <2>6. \/ r = q /\ c = << >>
          \/ q # << >> /\ r = Tail(q) /\ c = <<Head(q)>>
      BY <2>5 DEF r, c
    <2>7. /\ Sound(y, r, c, b, added, w, pass)
          /\ HeldBy(y, r, c, b) = HeldBy(y, q, << >>, b)
      BY <1>6, <2>2, <2>6, CreateNextSound
    <2>8. SlotKnown(o)' /\ Mine(o) \subseteq Mine(o)'
      BY <1>7, <2>2, <2>4, <2>7
    <2>9. QED
      BY <1>1, <1>8, <2>3, <2>5, <2>8, StepOfToken
  <1>10. CASE ~ok
    <2> DEFINE worse == b \union {a.item}
    <2>1. /\ Fails /\ UNCHANGED <<objects, queue>>
          /\ failed' = [failed EXCEPT ![o] = @ \cup {a.item}]
      BY <1>4, <1>10, <1>20 DEF ObjectCreated
    <2>2. /\ Moves /\ \A s \in Slots : Current(s)' = << >>
          /\ \A s \in Slots : result'[s] = "success" => result[s] = "success"
      BY <1>1, <1>2, <2>1, FailsDoes
    <2>3. /\ Sound(x, q, << >>, worse, added, w, pass)
          /\ HeldBy(x, q, << >>, worse) = HeldBy(x, q, <<a>>, b)
      <3> HIDE DEF x, q, b, w
      <3>1. QED
        BY <1>6, SoundFailed
    <2>4. a.item \in Item
      BY DEF Attr
    <2>5. /\ o \in Slots /\ op.on = o /\ failed'[o] = worse
          /\ \A s \in Slots \ {o} : /\ queue'[s] = queue[s] /\ objects'[s] = objects[s]
                                    /\ failed'[s] = failed[s]
          /\ queue' \in [Slots -> Seq(Attr)] /\ objects' \in [Slots -> Seq(Attr)]
          /\ failed' \in [Slots -> SUBSET Item]
      BY <1>2, <1>20, <2>1, <2>4, ImportersType
    <2>6. SlotKnown(o)' /\ Mine(o)' = HeldBy(x, q, << >>, worse)
      <3>1. Current(o)' = << >>
        BY <2>2
      <3>2. SlotKnown(o)' <=> Sound(x, q, << >>, worse, added, w, pass)
        BY <1>1, <2>1, <2>5, <3>1 DEF SlotKnown
      <3>3. Mine(o)' = HeldBy(x, q, << >>, worse)
        BY <2>1, <2>5, <3>1 DEF Mine
      <3>4. QED
        BY <2>3, <3>2, <3>3
    <2>7. Mine(o) \subseteq Mine(o)'
      BY <1>7, <2>3, <2>6
    <2> HIDE DEF x, q, b, w, c, r, worse
    <2>8. QED
      BY <1>1, <1>8, <2>2, <2>5, <2>6, <2>7, StepOfToken
  <1>11. QED
    BY <1>9, <1>10

LEMMA ImportStep ==
    ASSUME ImportInv, [ImportingNext]_importingVars
    PROVE  ImportInv' /\ \A s \in Slots : Keeps(s)
  <1>1. CASE \E i \in Item : ButtonAdd(i)
    BY <1>1, ImportAdd
  <1>2. CASE LibraryReady
    BY <1>2, ImportReady
  <1>3. CASE \E importer \in Slots \cup {GnuPG} : BeginImport(importer)
    BY <1>3, ImportBegins
  <1>4. CASE \E ok \in BOOLEAN : Returns(ok)
    <2>1. PICK ok \in BOOLEAN : Returns(ok)
      BY <1>4
    <2>2. QED
      BY <2>1, ImportOpens, ImportSupplements, ImportCreates, ImportIntoGnupg DEF Returns
  <1>5. CASE Dispose
    BY <1>5, ImportDisposes
  <1>6. CASE UNCHANGED importingVars
    BY <1>6, ImportStutters
  <1>7. QED
    BY <1>1, <1>2, <1>3, <1>4, <1>5, <1>6 DEF ImportingNext

-----------------------------------------------------------------------------
\* Two objects on a token have the same id only if they are a certificate and its key,
\* and the first of each that one pass supplemented do have the same
\* (supplement_attributes of gcr-pkcs11-importer.c).
THEOREM IdsArePaired == ImportingInit /\ [][ImportingNext]_importingVars => []PairsShareId
  <1>1. ImportInv => PairsShareId
    <2> SUFFICES ASSUME ImportInv, NEW s \in Slots PROVE IdsAgree(Range(objects[s]))
      BY DEF PairsShareId
    <2> DEFINE o == objects[s]
               X == AttrsOf(o, queue[s], Current(s))
    <2>1. AgreeIn(added, X)
      BY SlotTypes DEF Sound, Identified
    <2>2. Range(o) \subseteq X
      BY DEF AttrsOf
    <2> HIDE DEF o, X
    <2>3. IdsAgree(Range(o))
      BY <2>1, <2>2 DEF AgreeIn, IdsAgree, Rivalled
    <2>4. QED
      BY <2>3 DEF o
  <1>2. ImportInv /\ [ImportingNext]_importingVars => ImportInv'
    BY ImportStep
  <1>3. QED
    BY <1>1, <1>2, ImportStart, PTL

\* The items that are left when an import succeeds are on the token, or could not be
\* created.
LEMMA SuccessLeavesNone ==
    ASSUME ImportInv', NEW s \in Slots, queue'[s] = << >>, op' = NoImport
    PROVE  /\ Items(objects'[s]) = Held(s)' \ failed'[s]
           /\ Len(objects'[s]) = Cardinality(Items(objects'[s]))
  <1> DEFINE o == objects'[s]
             q == queue'[s]
             c == Current(s)'
             b == failed'[s]
             e == << >>
  <1>1. c = e /\ q = e /\ Items(e) = {}
    BY NoImportIs, ItemsEmpty DEF Current
  <1>2. o \in Seq(Attr)
    BY DEF ImportInv, ImportType
  <1>3. Sound(o, q, c, b, added', Range(pending'), pass')
    BY DEF ImportInv, SlotKnown
  <1>4. ItemsOnce(o) /\ b \intersect Items(o) = {}
    BY <1>3 DEF Sound, Placed
  <1>5. Held(s)' = Items(o) \union Items(q) \union b
    BY NoImportIs DEF Held
  <1> HIDE DEF o, q, c, b, e
  <1>6. Items(o) = Held(s)' \ b
    BY <1>1, <1>4, <1>5
  <1>7. Len(o) = Cardinality(Items(o))
    BY <1>2, <1>4, ItemsCounted
  <1>8. QED
    BY <1>6, <1>7 DEF o, b

\* An import that succeeds has created, once, everything that its importer was ever
\* given but what an earlier attempt reported it could not create (state_create_object
\* and next_state of gcr-pkcs11-importer.c).
THEOREM SuccessIsComplete == ImportingInit /\ [][ImportingNext]_importingVars => SuccessMeansAll
  <1>1. ImportInv /\ [ImportingNext]_importingVars => ImportInv'
    BY ImportStep
  <1>2. ImportInv /\ [ImportingNext]_importingVars =>
           [\A s \in Slots :
              /\ Held(s) \subseteq Held(s)'
              /\ result[s] # "success" /\ result'[s] = "success" =>
                    /\ Items(objects'[s]) = Held(s)' \ failed'[s]
                    /\ Len(objects'[s]) = Cardinality(Items(objects'[s]))]_importingVars
    <2> SUFFICES ASSUME ImportInv, [ImportingNext]_importingVars, NEW s \in Slots
                 PROVE  /\ Held(s) \subseteq Held(s)'
                        /\ result[s] # "success" /\ result'[s] = "success" =>
                              /\ Items(objects'[s]) = Held(s)' \ failed'[s]
                              /\ Len(objects'[s]) = Cardinality(Items(objects'[s]))
      OBVIOUS
    <2>1. ImportInv' /\ Keeps(s)
      BY ImportStep
    <2>2. Held(s) = Mine(s) /\ Held(s)' = Mine(s)'
      <3>1. Held(s) = Mine(s)
        BY MineIs
      <3>2. Held(s)' = Mine(s)'
        BY ItemsEmpty DEF Held, Mine, HeldBy, Current
      <3>3. QED
        BY <3>1, <3>2
    <2>3. Held(s) \subseteq Held(s)'
      BY <2>1, <2>2 DEF Keeps
    <2>4. ASSUME result[s] # "success", result'[s] = "success"
          PROVE  /\ Items(objects'[s]) = Held(s)' \ failed'[s]
                 /\ Len(objects'[s]) = Cardinality(Items(objects'[s]))
      <3>1. queue'[s] = << >> /\ op' = NoImport
        BY <2>1, <2>4 DEF Keeps
      <3>2. QED
        BY <2>1, <3>1, SuccessLeavesNone
    <2>5. QED
      BY <2>3, <2>4
  <1>3. QED
    BY <1>1, <1>2, ImportStart, PTL DEF SuccessMeansAll
=============================================================================
