---------------------------- MODULE GckEnumerator ----------------------------
(***************************************************************************)
(* gck/gck-enumerator.c: an enumerator walks the modules, their slots, a   *)
(* session on each token and the objects found there, and goes on to the   *)
(* enumerator it is chained to.  Its state is taken out of it for the time *)
(* of a call, which works in a thread of its own while objects and tokens  *)
(* come and go.                                                            *)
(***************************************************************************)
EXTENDS Integers, Sequences, FiniteSets, SequencesExt, Lists

CONSTANTS
    Object, Slot, At,       \* the objects, the slots, and where an object is
    Modules, SlotsOf,       \* the list of modules, and the slots of each
    Enumerator, Chained,    \* the enumerators, and what each is chained to
    OfSession,              \* those that enumerate one session: its slot
    Call,
    Here,                   \* the objects that are there at first
    Want,                   \* how many objects a call may ask for
    MaxCalls, MaxEvents,    \* bounds: calls, and objects that change
    None, Lost

\* Bound: an enumerator that another is chained to is not chained further.
ASSUME EnumeratorAssumption ==
    /\ IsFiniteSet(Object) /\ At \in [Object -> Slot] /\ Here \subseteq Object
    /\ SlotsOf \in [DOMAIN SlotsOf -> Seq(Slot)] /\ Modules \in Seq(DOMAIN SlotsOf)
    /\ Chained \in [Enumerator -> Enumerator \union {None}] /\ None \notin Enumerator
    /\ \A e \in Enumerator : Chained[e] # None => Chained[Chained[e]] = None
    /\ OfSession \in [Enumerator -> Slot \union {None}] /\ None \notin Slot
    /\ Want \subseteq Nat

VARIABLES
    objects,    \* the objects that are on their token
    value,      \* the number of changes of an object's attributes
    tokens,     \* the slots that have a token
    state,      \* GckEnumeratorState, for every enumerator
    out,        \* the call that has taken out the_state, None, or Lost when
                \* nobody has it any more
    call,       \* what each call is doing
    delivered,  \* what was extracted of each state, and handed out
    budget      \* calls and events still possible

enumVars == <<objects, value, tokens, state, out, call, delivered, budget>>

-----------------------------------------------------------------------------
(* The token: what C_ functions answer.                                    *)

Matches(s) == IF s \in tokens THEN {o \in objects : At[o] = s} ELSE {}
Readable(o) == o \in objects /\ At[o] \in tokens

-----------------------------------------------------------------------------
(* The functions of the state.  Each returns the next state.  ok: the C_   *)
(* functions it calls succeed.  One that fails is passed over, whatever    *)
(* the reason, and the walk goes on; .passed notes the objects that are    *)
(* not found or not read because of it.                                    *)

Passing(st, there) == [st EXCEPT !.passed = @ \union there]

\* rewind_state, to the slots: the session and the slot are given up.
Rewound(st) == [st EXCEPT !.handler = "slots", !.slot = None, !.session = FALSE]

\* gck_module_get_slots of the next module, with tokens: C_GetSlotList
StateModules(st, ok) ==
    LET m == Head(st.modules)
        next == [st EXCEPT !.modules = Tail(@), !.handler = "slots"]
    IN  IF ok THEN [next EXCEPT !.slots = Kept(SlotsOf[m], tokens)]
        ELSE Passing(next, UNION {Matches(s) : s \in Range(SlotsOf[m])})

\* C_GetTokenInfo.  A slot whose token is gone by now is left out.
StateSlots(st, ok) ==
    IF st.slots = << >> THEN [st EXCEPT !.handler = "modules"]
    ELSE LET s == Head(st.slots)
             rest == [st EXCEPT !.slots = Tail(@)]
         IN  IF ok /\ s \in tokens THEN [rest EXCEPT !.slot = s, !.handler = "slot"]
             ELSE Passing(rest, Matches(s))

Opened(st) == [st EXCEPT !.session = TRUE, !.handler = "session"]

\* The state goes to the next slot only, and leaves those that remain.
SlotForgetsRest(st, ok) ==
    IF ok /\ st.slot \in tokens THEN Opened(st)
    ELSE [Rewound(Passing(st, Matches(st.slot))) EXCEPT !.slots = << >>]
\* C_OpenSession
StateSlot(st, ok) ==
    IF ok /\ st.slot \in tokens THEN Opened(st)
    ELSE Rewound(Passing(st, Matches(st.slot)))

\* Authentication may fail, and then finds what there is without.
StateSession(st) == [st EXCEPT !.handler = "find"]

\* C_FindObjectsInit, C_FindObjects until there is nothing more or it fails,
\* C_FindObjectsFinal: what is found is all there is, or what was found before a failure.
StateFind(st, found) ==
    [Passing(st, Matches(st.slot) \ found) EXCEPT !.found = @ \o SetToSeq(found),
                                                   !.handler = "results"]

\* One round of the loop of state_results, the i-th of those wanted: the object is
\* read if it is still there, and counts in any case.
ResultTaken(st, ok) ==
    LET o == Head(st.found)
        rest == [st EXCEPT !.found = Tail(@)]
    IN  IF ok /\ Readable(o)
        THEN [rest EXCEPT !.results = Append(@, [object |-> o, attrs |-> value[o]])]
        ELSE Passing(rest, {o})

-----------------------------------------------------------------------------
IdleCall == [pc |-> "idle", chain |-> << >>, at |-> 0, want |-> 0, count |-> 0,
             i |-> 0, got |-> 0, asked |-> 0]

\* check_out_enumerator_state: the enumerators whose states a call takes, the
\* first's being there.  One that is out already is left out with its chain.
CheckedOut(e) ==
    IF Chained[e] # None /\ out[Chained[e]] = None THEN <<e, Chained[e]>> ELSE <<e>>

Least(m, n) == IF m < n THEN m ELSE n

Results(e) == Len(state[e].results)

\* How many results of each state are extracted, of n that are wanted, as extract_result
\* takes them: the first of the chain gives what it has, and the next what is left.
Taken(chain, n) ==
    LET first == Least(Results(chain[1]), n)
    IN  [e \in Enumerator |-> IF e = chain[1] THEN first
                             ELSE IF Contains(chain, e) THEN Least(Results(e), n - first)
                             ELSE 0]

\* What is extracted of n wanted objects is handed out.
HandOut(chain, n) ==
    LET taken == Taken(chain, n)
    IN  /\ state' = [e \in Enumerator |->
              [state[e] EXCEPT !.results = SubSeq(@, taken[e] + 1, Len(@))]]
        /\ delivered' = [e \in Enumerator |->
              delivered[e] \o SubSeq(state[e].results, 1, taken[e])]

Extracted(chain, n) ==
    LET taken == Taken(chain, n)
    IN  taken[chain[1]] + (IF Len(chain) = 1 THEN 0 ELSE taken[chain[2]])

\* The call k begins to work on the first state of its chain.
Performing(chain, want, got, asked) ==
    [pc |-> "perform", chain |-> chain, at |-> 1, want |-> want, count |-> 0, i |-> 0,
     got |-> got, asked |-> asked]

\* gck_enumerator_next and gck_enumerator_next_n.  What is left of an earlier call
\* comes first, and is all that is done if it is enough.
NextSync(k, e, n) ==
    /\ call[k].pc = "idle" /\ out[e] = None /\ budget.calls > 0
    /\ LET chain == CheckedOut(e)
           got == Extracted(chain, n)
       IN  /\ HandOut(chain, n)
           /\ IF got = n
              THEN UNCHANGED <<call, out>>
              ELSE /\ call' = [call EXCEPT ![k] = Performing(chain, n - got, got, n)]
                   /\ out' = [d \in Enumerator |-> IF Contains(chain, d) THEN k ELSE out[d]]
    /\ budget' = [budget EXCEPT !.calls = @ - 1]
    /\ UNCHANGED <<objects, value, tokens>>

\* gck_enumerator_next_async
NextAsync(k, e, n) ==
    /\ call[k].pc = "idle" /\ out[e] = None /\ budget.calls > 0
    /\ LET chain == CheckedOut(e)
       IN  /\ call' = [call EXCEPT ![k] = Performing(chain, n, 0, n)]
           /\ out' = [d \in Enumerator |-> IF Contains(chain, d) THEN k ELSE out[d]]
    /\ budget' = [budget EXCEPT !.calls = @ - 1]
    /\ UNCHANGED <<objects, value, tokens, state, delivered>>

\* A call on an enumerator that is busy is refused.  What it is chained to has been
\* checked out before that is seen, and is not put back.
NextRefused(e) ==
    /\ out[e] # None /\ Chained[e] # None /\ out[Chained[e]] = None
    /\ budget.calls > 0
    /\ out' = [out EXCEPT ![Chained[e]] = Lost]
    /\ budget' = [budget EXCEPT !.calls = @ - 1]
    /\ UNCHANGED <<objects, value, tokens, state, call, delivered>>

-----------------------------------------------------------------------------
(* perform_enumerate_next, one call of a handler at a time.                *)

Working(k) == call[k].chain[call[k].at]

StateDone(k) ==
    LET c == call[k]
        count == c.count + Len(state[Working(k)].results)
    IN  IF count >= c.want \/ c.at = Len(c.chain)
        THEN [c EXCEPT !.pc = "ready"]
        ELSE [c EXCEPT !.at = @ + 1, !.count = count, !.i = 0]

\* The handler of the state ends the walk: there are no more modules, or what was
\* wanted of this state is found.
Ends(k) ==
    LET st == state[Working(k)]  c == call[k]
    IN  \/ st.handler = "modules" /\ st.modules = << >>
        \/ st.handler = "results" /\ c.i >= c.want - c.count

\* The states that the handler may leave.
Handled(st) ==
    CASE st.handler = "modules" -> {StateModules(st, ok) : ok \in BOOLEAN}
      [] st.handler = "slots" -> {StateSlots(st, ok) : ok \in BOOLEAN}
      [] st.handler = "slot" -> {StateSlot(st, ok) : ok \in BOOLEAN}
      [] st.handler = "session" -> {StateSession(st)}
      [] st.handler = "find" -> {StateFind(st, found) : found \in SUBSET Matches(st.slot)}
      [] st.handler = "results" /\ st.found = << >> -> {Rewound(st)}
      [] st.handler = "results" /\ st.found # << >> -> {ResultTaken(st, ok) : ok \in BOOLEAN}

Perform(k) ==
    /\ call[k].pc = "perform"
    /\ LET e == Working(k)
           counted == state[e].handler = "results" /\ state[e].found # << >>
       IN  IF Ends(k)
           THEN call' = [call EXCEPT ![k] = StateDone(k)] /\ UNCHANGED state
           ELSE /\ \E next \in Handled(state[e]) : state' = [state EXCEPT ![e] = next]
                /\ call' = [call EXCEPT ![k].i = IF counted THEN @ + 1 ELSE 0]
    /\ UNCHANGED <<objects, value, tokens, out, delivered, budget>>

\* check_in_enumerator_state
CheckedIn(k) == [d \in Enumerator |-> IF out[d] = k THEN None ELSE out[d]]

\* gck_enumerator_next_finish, or the end of a sync call: what is wanted is
\* extracted, unless the call was cancelled.
Finish(k, cancelled) ==
    /\ call[k].pc = "ready"
    /\ IF cancelled THEN UNCHANGED <<state, delivered>>
       ELSE HandOut(call[k].chain, call[k].want)
    /\ out' = CheckedIn(k)
    /\ call' = [call EXCEPT ![k] = IdleCall]
    /\ UNCHANGED <<objects, value, tokens, budget>>

-----------------------------------------------------------------------------
(* Others create, change and destroy objects, and pull tokens out.         *)

Event ==
    /\ budget.events > 0
    /\ budget' = [budget EXCEPT !.events = @ - 1]
    /\ \/ \E o \in Object \ Here : value[o] = 0 /\ objects' = objects \union {o}
                                  /\ value' = [value EXCEPT ![o] = 1] /\ UNCHANGED tokens
       \/ \E o \in objects : objects' = objects \ {o} /\ UNCHANGED <<value, tokens>>
       \/ \E s \in tokens : tokens' = tokens \ {s} /\ UNCHANGED <<value, objects>>
    /\ UNCHANGED <<state, out, call, delivered>>

EnumInit ==
    /\ objects = Here /\ tokens = Slot
    /\ value = [o \in Object |-> 0]
    /\ state = [e \in Enumerator |->
          [handler |-> IF OfSession[e] = None THEN "modules" ELSE "session",
           modules |-> IF OfSession[e] = None THEN Modules ELSE << >>,
           slots |-> << >>, slot |-> OfSession[e], session |-> OfSession[e] # None,
           found |-> << >>, results |-> << >>, passed |-> {}]]
    /\ out = [e \in Enumerator |-> None]
    /\ call = [k \in Call |-> IdleCall]
    /\ delivered = [e \in Enumerator |-> << >>]
    /\ budget = [calls |-> MaxCalls, events |-> MaxEvents]

Enumerate(k) ==
    \/ \E e \in Enumerator, n \in Want : NextSync(k, e, n) \/ NextAsync(k, e, n)
    \/ \E e \in Enumerator : NextRefused(e)
    \/ Perform(k)
    \/ \E cancelled \in BOOLEAN : Finish(k, cancelled)

-----------------------------------------------------------------------------
Handles(q) == [i \in DOMAIN q |-> q[i].object]

Exhausted(e) ==
    /\ out[e] = None
    /\ state[e].handler = "modules" /\ state[e].modules = << >>
    /\ state[e].results = << >>

Covers(e) == IF OfSession[e] = None THEN UNION {Range(SlotsOf[m]) : m \in Range(Modules)}
             ELSE {OfSession[e]}

\* When an enumerator has come to its end, it has handed out every object that was
\* there all the time, but for those that it could not find or read because a C_
\* function of its module failed: none is lost in a call that was cancelled, between
\* the slots, or behind a slot that failed or an object that vanished.
EndMeansAll ==
    \A e \in Enumerator : Exhausted(e) =>
        \A o \in (Here \intersect objects) \ state[e].passed :
            At[o] \in Covers(e) \intersect tokens => Contains(Handles(delivered[e]), o)
=============================================================================
