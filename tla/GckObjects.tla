----------------------------- MODULE GckObjects -----------------------------
(***************************************************************************)
(* gck/gck-object.c and gck/gck-object-cache.c: what a program does with   *)
(* the objects that an enumerator has given it.  Objects come with a cache *)
(* of the attributes that the enumerator has read, which updates fill from *)
(* the token while the program, and others, change the objects.            *)
(***************************************************************************)
EXTENDS GckEnumerator

CONSTANTS
    Type, DefaultType,  \* attribute types, and those every object is read with
    ObjectCall

ASSUME ObjectAssumption == DefaultType \subseteq Type

VARIABLES
    cache,  \* the attributes property: for each type the change it is of
    ocall   \* what each call on an object is doing

objectVars == <<enumVars, cache, ocall>>

Missing == -1
IdleObjectCall == [pc |-> "idle", object |-> None, types |-> {}, since |-> 0, read |-> Missing]

\* The objects that the program was given.
Known == UNION {Range(Handles(delivered[e])) : e \in Enumerator}

-----------------------------------------------------------------------------
\* extract_result makes an object with the attributes that were read.
CacheMade ==
    [o \in Object |->
        LET new == {r \in UNION {Range(delivered'[e]) : e \in Enumerator} :
                       r.object = o /\ o \notin Known}
        IN  IF new = {} THEN cache[o]
            ELSE [t \in Type |-> IF t \in DefaultType
                                 THEN (CHOOSE r \in new : TRUE).attrs ELSE Missing]]

Enumerates ==
    /\ \E k \in Call : Enumerate(k)
    /\ cache' = CacheMade
    /\ UNCHANGED ocall

\* Somebody else changes the token.
Others == Event /\ UNCHANGED <<cache, ocall>>

\* check_have_attributes
Have(o, types) == \A t \in types : cache[o][t] # Missing

Begin(k, o, types, pc) ==
    /\ ocall[k].pc = "idle" /\ o \in Known /\ budget.calls > 0
    /\ ocall' = [ocall EXCEPT ![k] = [pc |-> pc, object |-> o, types |-> types,
                                      since |-> value[o], read |-> Missing]]
    /\ budget' = [budget EXCEPT !.calls = @ - 1]
    /\ UNCHANGED <<objects, value, tokens, state, out, call, delivered, cache>>

\* gck_object_cache_update and gck_object_cache_update_async
Update(k, o, types) == Begin(k, o, types, "reading")

\* gck_object_cache_lookup and gck_object_cache_lookup_async
Lookup(k, o, types) == Begin(k, o, types, IF Have(o, types) THEN "have" ELSE "reading")

\* perform_get_attributes, in the thread of the call
Read(k) ==
    /\ ocall[k].pc = "reading"
    /\ LET o == ocall[k].object
       IN  ocall' = [ocall EXCEPT ![k] =
                        IF Readable(o) THEN [@ EXCEPT !.pc = "read", !.read = value[o]]
                        ELSE [@ EXCEPT !.pc = "failed"]]
    /\ UNCHANGED <<enumVars, cache>>

\* The cache takes what it has not yet.
FilledIn(o, types, version) ==
    [cache EXCEPT ![o] = [t \in Type |-> IF t \in types /\ @[t] = Missing
                                         THEN version ELSE @[t]]]
\* gck_object_cache_fill: the attributes that were read replace those in the cache
Filled(o, types, version) ==
    [cache EXCEPT ![o] = [t \in Type |-> IF t \in types THEN version ELSE @[t]]]

\* on_cache_object_get, unless the call failed or was cancelled; and the end of a
\* lookup of what the cache has
FinishObject(k, cancelled) ==
    /\ ocall[k].pc \in {"read", "failed", "have"}
    /\ IF ocall[k].pc = "read" /\ ~cancelled
       THEN cache' = Filled(ocall[k].object, ocall[k].types, ocall[k].read)
       ELSE UNCHANGED cache
    /\ ocall' = [ocall EXCEPT ![k] = IdleObjectCall]
    /\ UNCHANGED enumVars

\* gck_object_set and gck_object_destroy; the cache hears of neither.
SetObject(o) ==
    /\ o \in Known /\ Readable(o) /\ budget.events > 0
    /\ value' = [value EXCEPT ![o] = @ + 1]
    /\ budget' = [budget EXCEPT !.events = @ - 1]
    /\ UNCHANGED <<objects, tokens, state, out, call, delivered, cache, ocall>>

DestroyObject(o) ==
    /\ o \in Known /\ Readable(o) /\ budget.events > 0
    /\ objects' = objects \ {o}
    /\ budget' = [budget EXCEPT !.events = @ - 1]
    /\ UNCHANGED <<value, tokens, state, out, call, delivered, cache, ocall>>

-----------------------------------------------------------------------------
Init ==
    /\ EnumInit
    /\ cache = [o \in Object |-> [t \in Type |-> Missing]]
    /\ ocall = [k \in ObjectCall |-> IdleObjectCall]

Next ==
    \/ Enumerates
    \/ Others
    \/ \E k \in ObjectCall :
          \/ \E o \in Object, types \in SUBSET Type \ {{}} :
                Update(k, o, types) \/ Lookup(k, o, types)
          \/ Read(k)
          \/ \E cancelled \in BOOLEAN : FinishObject(k, cancelled)
    \/ \E o \in Object : SetObject(o) \/ DestroyObject(o)

Spec == Init /\ [][Next]_objectVars

\* The threads of the calls run, and the main loop calls back.
Fairness ==
    /\ \A k \in Call : WF_objectVars(Perform(k) /\ UNCHANGED <<cache, ocall>>)
    /\ \A k \in Call : WF_objectVars(Finish(k, FALSE) /\ cache' = CacheMade /\ UNCHANGED ocall)

FairSpec == Spec /\ Fairness

-----------------------------------------------------------------------------
\* A call on the cache that succeeds leaves all the types it was for in the cache,
\* and an update leaves them as they are on the token now or were at some time
\* since it began, whatever other updates are under way.
UpdatesAreFresh ==
    [][\A k \in ObjectCall :
          LET c == ocall[k]
          IN  /\ c.pc = "read" /\ ocall'[k].pc = "idle" /\ cache' # cache =>
                    \A t \in c.types : cache'[c.object][t] >= c.since
              /\ c.pc = "have" => Have(c.object, c.types)]_objectVars
=============================================================================
