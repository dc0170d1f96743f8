----------------------------- MODULE GcrLibrary -----------------------------
(***************************************************************************)
(* gcr/gcr-library.c: the list of PKCS#11 modules of the process, and the  *)
(* URIs of the tokens where trust assertions are looked up and stored.     *)
(* Both are set up by the first call that needs them, in whatever thread   *)
(* that works, while the main loop may change them without a lock.  A URI  *)
(* is the set of slots that it matches.                                    *)
(***************************************************************************)
EXTENDS Integers, Sequences, FiniteSets, SequencesExt, Lists

CONSTANTS
    Slot, SlotsOf,              \* the slots with a token, those of each module
    Registered, Extra,          \* the modules that p11-kit configures, and others
    StoreOption, LookupOption,  \* x-trust-store and x-trust-lookup of a module, or None
    OtherUri,                   \* those that the program sets
    Job,                        \* the calls that may be under way
    MaxCalls, MaxTroubles,      \* bounds: calls; and failures and changes by the program
    None

Module == DOMAIN SlotsOf
Uri == SUBSET Slot

\* p11-kit lists a module once, and the program adds only modules that p11-kit does not
\* list.
ASSUME LibraryAssumption ==
    /\ SlotsOf \in [Module -> Seq(Slot)]
    /\ Registered \in Seq(Module) /\ IsInjective(Registered)
    /\ Extra \subseteq Module \ Range(Registered)
    /\ {StoreOption, LookupOption} \subseteq [Module -> Uri \union {None}]
    /\ OtherUri \subseteq Uri
    /\ None \notin Slot \union Extra
    /\ None \notin {"initialize", "add", "remove", "build", "pinned", "anchored", "issuer"}

VARIABLES
    modules, initializedModules,            \* all_modules, initialized_modules
    lock,                                   \* who holds G_LOCK (modules)
    storeUri, lookupUris, initializedUris,  \* trust_store_uri, trust_lookup_uris
    adding,                                 \* a module the main loop is appending, and
                                            \* the list as it found it
    job,                                    \* what each call is doing
    budget                                  \* calls, and failures and changes, still possible

libraryVars == <<modules, initializedModules, lock, storeUri, lookupUris, initializedUris,
                 adding, job, budget>>
uriVars == <<storeUri, lookupUris, initializedUris>>
moduleVars == <<modules, initializedModules, lock>>

NotAdding == [module |-> None, list |-> << >>]

\* A call; its goal says what it goes on to once the library is initialised.
NoJob == [pc |-> "idle", op |-> None, sync |-> FALSE, goal |-> None, ok |-> FALSE,
          cert |-> None, peer |-> None, slots |-> << >>, list |-> << >>,
          before |-> {}, skipped |-> {},
          given |-> << >>, certs |-> << >>, input |-> << >>, status |-> "UNKNOWN",
          lookups |-> FALSE]

LibraryInit ==
    /\ modules = << >> /\ initializedModules = FALSE /\ lock = None
    /\ storeUri = None /\ lookupUris = << >> /\ initializedUris = FALSE
    /\ adding = NotAdding
    /\ job = [k \in Job |-> NoJob]
    /\ budget = [calls |-> MaxCalls, troubles |-> MaxTroubles]

-----------------------------------------------------------------------------
\* The main loop is free: no call that blocks it is under way.
MainFree == \A k \in Job : ~(job[k].sync /\ job[k].pc # "idle")

Started(k, j) ==
    /\ job[k].pc = "idle" /\ MainFree /\ adding = NotAdding /\ budget.calls > 0
    /\ job' = [job EXCEPT ![k] = j]
    /\ budget' = [budget EXCEPT !.calls = @ - 1]

Goes(k, pc) == job' = [job EXCEPT ![k].pc = pc]

\* A call fails, of an error of the token or since it was cancelled.
Failed(k) ==
    /\ budget.troubles > 0
    /\ budget' = [budget EXCEPT !.troubles = @ - 1]
    /\ job' = [job EXCEPT ![k].pc = "done", ![k].ok = FALSE]

-----------------------------------------------------------------------------
\* gcr_pkcs11_initialize and _async, up to the modules of p11-kit
Initialize(k) ==
    /\ job[k].pc = "init"
    /\ Goes(k, IF initializedModules THEN "ready" ELSE "load")
    /\ UNCHANGED <<moduleVars, uriVars, adding, budget>>

\* gck_modules_initialize_registered
Load(k) ==
    /\ job[k].pc = "load"
    /\ \/ Goes(k, "loaded") /\ UNCHANGED budget
       \/ Failed(k)
    /\ UNCHANGED <<moduleVars, uriVars, adding>>

\* The check before the lock is all there is.
IfMissingBefore(there) == TRUE
\* Somebody may have initialised them meanwhile.
IfStillMissing(there) == ~there

\* With the lock held, the list is read ...
Lock(k) ==
    /\ job[k].pc = "loaded" /\ lock = None
    /\ IF IfStillMissing(initializedModules)
       THEN /\ lock' = k
            /\ job' = [job EXCEPT ![k].pc = "concat", ![k].list = modules]
       ELSE Goes(k, "ready") /\ UNCHANGED lock
    /\ UNCHANGED <<modules, initializedModules, uriVars, adding, budget>>

\* The lock is not given back.
ConcatLocked(k) ==
    /\ job[k].pc = "concat"
    /\ modules' = job[k].list \o Registered
    /\ initializedModules' = TRUE
    /\ job' = [job EXCEPT ![k].pc = "ready", ![k].list = << >>]
    /\ UNCHANGED <<lock, uriVars, adding, budget>>
\* ... and written with what was loaded at its end: a module that is appended in
\* between, without the lock, is lost.
Concat(k) ==
    /\ job[k].pc = "concat"
    /\ modules' = job[k].list \o Registered
    /\ initializedModules' = TRUE
    /\ lock' = None
    /\ job' = [job EXCEPT ![k].pc = "ready", ![k].list = << >>]
    /\ UNCHANGED <<uriVars, adding, budget>>

\* The end of gcr_pkcs11_initialize_async
Initialized(k) ==
    /\ job[k].pc = "ready" /\ job[k].goal = "initialize"
    /\ job' = [job EXCEPT ![k].pc = "done", ![k].ok = TRUE]
    /\ UNCHANGED <<moduleVars, uriVars, adding, budget>>

\* gcr_pkcs11_add_module reads the list and writes it, without the lock.
AddModule(m) ==
    /\ MainFree /\ adding = NotAdding /\ budget.troubles > 0
    /\ adding' = [module |-> m, list |-> modules]
    /\ budget' = [budget EXCEPT !.troubles = @ - 1]
    /\ UNCHANGED <<moduleVars, uriVars, job>>

ModuleAdded ==
    /\ adding # NotAdding
    /\ modules' = Append(adding.list, adding.module)
    /\ adding' = NotAdding
    /\ UNCHANGED <<initializedModules, lock, uriVars, job, budget>>

SetModules(list) ==
    /\ MainFree /\ adding = NotAdding /\ budget.troubles > 0
    /\ modules' = list /\ initializedModules' = TRUE
    /\ budget' = [budget EXCEPT !.troubles = @ - 1]
    /\ UNCHANGED <<lock, uriVars, adding, job>>

-----------------------------------------------------------------------------
(* The URIs.                                                               *)

\* The options of the modules, those that have one.
Configured == (Range(StoreOption) \union Range(LookupOption)) \ {None}
Options(option, list) == Kept([i \in DOMAIN list |-> option[list[i]]], Configured)

\* initialize_uris
InitializeUris ==
    IF initializedUris THEN UNCHANGED uriVars
    ELSE LET stores == Options(StoreOption, modules)
         IN  /\ storeUri' = IF stores = << >> THEN None ELSE Head(stores)
             /\ lookupUris' = Options(LookupOption, modules)
             /\ initializedUris' = TRUE

\* The tokens of a list of modules, and those that match a URI
Tokens(list) == FlattenSeq([i \in DOMAIN list |-> SlotsOf[list[i]]])
SlotsMatching == [m \in Module |-> [uri \in Uri |-> Kept(SlotsOf[m], uri)]]
Matching(uri, list) == FlattenSeq([i \in DOMAIN list |-> SlotsMatching[list[i]][uri]])

\* tokens_for_uri, which turns the order round
TokensForUri(uri, list) == Reverse(Matching(uri, list))
TokenForUri(uri, list) ==
    LET matched == IF uri = None THEN << >>
                   ELSE Matching(uri, list)
    IN  IF matched = << >> THEN None ELSE Head(matched)

\* gcr_pkcs11_get_trust_lookup_slots, once the URIs are initialised, and
\* gcr_pkcs11_get_trust_store_slot
TrustLookupSlots(uris) == FlattenSeq([i \in DOMAIN uris |-> TokensForUri(uris[i], modules)])
TrustStoreSlot == TokenForUri(storeUri, modules)

\* gcr_pkcs11_set_trust_store_uri and gcr_pkcs11_set_trust_lookup_uris; either alone
\* keeps the other from being taken from the configuration.
SetTrustStoreUri(uri) ==
    /\ MainFree /\ adding = NotAdding /\ budget.troubles > 0
    /\ storeUri' = uri /\ initializedUris' = TRUE
    /\ budget' = [budget EXCEPT !.troubles = @ - 1]
    /\ UNCHANGED <<lookupUris, moduleVars, adding, job>>

SetTrustLookupUris(uris) ==
    /\ MainFree /\ adding = NotAdding /\ budget.troubles > 0
    /\ lookupUris' = uris /\ initializedUris' = TRUE
    /\ budget' = [budget EXCEPT !.troubles = @ - 1]
    /\ UNCHANGED <<storeUri, moduleVars, adding, job>>

-----------------------------------------------------------------------------
LibraryStep(k) == Initialize(k) \/ Load(k) \/ Lock(k) \/ Concat(k) \/ Initialized(k)

ProgramSetsUp ==
    \/ \E m \in Extra : AddModule(m) \/ SetModules(<<m>>)
    \/ ModuleAdded
    \/ \E uri \in OtherUri : SetTrustStoreUri(uri) \/ SetTrustLookupUris(<<uri>>)

-----------------------------------------------------------------------------
\* However many calls find the modules missing at the same time, and load them, each
\* registered module gets into the list once (gcr_pkcs11_initialize).
ModulesOnce ==
    \A m \in Range(Registered) : Cardinality({i \in DOMAIN modules : modules[i] = m}) <= 1
=============================================================================
