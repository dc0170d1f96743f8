-------------------------- MODULE GckObjectsProofs --------------------------
(***************************************************************************)
(* Proofs about enumerators and the caches of the objects they give out:   *)
(* an enumerator that has come to its end has missed no object that was    *)
(* there all the time and could be read, and an update of a cache brings   *)
(* nothing older than itself.  The first rests on an invariant that says,  *)
(* for every such object, where on its way to the program it is.           *)
(***************************************************************************)
EXTENDS GckObjects, ListLemmas

Module == DOMAIN SlotsOf
Handler == {"modules", "slots", "slot", "session", "find", "results"}
Result == [object : Object, attrs : Nat]
Chain == {<<e>> : e \in Enumerator} \union {<<e, d>> : e, d \in Enumerator}
StateType ==
    [handler : Handler, modules : Seq(Module), slots : Seq(Slot), slot : Slot \union {None},
     session : BOOLEAN, found : Seq(Object), results : Seq(Result),
     passed : SUBSET Object]

-----------------------------------------------------------------------------
(* The invariant.                                                          *)

\* What a state still holds fits its handler.
Shaped(st) ==
    /\ st.handler = "modules" => st.slots = << >>
    /\ st.handler # "results" => st.found = << >>

\* An object has been handed out, or it is found, or the walk is yet to come to it: to its
\* slot, or to a module of its slot; or else it was passed over because a call failed.
OnItsWay(st, given, o) ==
    \/ \E r \in Range(given) : r.object = o
    \/ \E r \in Range(st.results) : r.object = o
    \/ o \in Range(st.found)
    \/ o \in st.passed
    \/ st.slot = At[o] /\ st.handler \in {"slot", "session", "find"}
    \/ At[o] \in Range(st.slots)
    \/ \E m \in Range(st.modules) : At[o] \in Range(SlotsOf[m])

\* A call has taken out an enumerator, and perhaps the one that it is chained to.
CallKnown(c) ==
    c.pc # "idle" =>
        /\ c.chain \in Chain
        /\ c.at \in 1 .. Len(c.chain) /\ c.want \in Nat

TokenKnown ==
    /\ objects \subseteq Object /\ tokens \subseteq Slot
    /\ value \in [Object -> Nat]

StatesKnown ==
    /\ state \in [Enumerator -> StateType]
    /\ delivered \in [Enumerator -> Seq(Result)]
    /\ \A e \in Enumerator : Shaped(state[e])

CallsKnown == \A k \in Call : CallKnown(call[k])

NothingMissed ==
    \A e \in Enumerator : \A o \in Here \intersect objects :
        At[o] \in Covers(e) \intersect tokens => OnItsWay(state[e], delivered[e], o)

IInv == TokenKnown /\ StatesKnown /\ CallsKnown /\ NothingMissed

-----------------------------------------------------------------------------
(* The functions of the state.                                             *)

\* Every function of the state leaves objects that are there on their way.
Follows(new, st) ==
    /\ new \in StateType /\ Shaped(new)
    /\ \A given : \A o \in objects :
          At[o] \in tokens /\ OnItsWay(st, given, o) => OnItsWay(new, given, o)

\* Objects that are on their token are found there.
LEMMA MatchesThere ==
    ASSUME TokenKnown
    PROVE  /\ \A s : Matches(s) \subseteq Object
           /\ \A o \in objects : At[o] \in tokens => o \in Matches(At[o])
  BY DEF Matches, TokenKnown

LEMMA PassingState ==
    ASSUME NEW st \in StateType, NEW there \in SUBSET Object
    PROVE  LET new == Passing(st, there)
           IN  /\ new \in StateType /\ new.passed = st.passed \union there
               /\ new.handler = st.handler /\ new.modules = st.modules /\ new.slots = st.slots
               /\ new.slot = st.slot /\ new.found = st.found /\ new.results = st.results
  BY DEF Passing, StateType

\* The walk goes back to the slots when what is there has been found or passed over.
LEMMA RewoundFollows ==
    ASSUME NEW st \in StateType, Shaped(st), st.found = << >>,
           NEW there \in SUBSET Object,
           st.handler \in {"slot", "session", "find"} =>
               \A o \in objects : At[o] \in tokens /\ At[o] = st.slot => o \in there
    PROVE  Follows(Rewound(Passing(st, there)), st)
  <1> DEFINE by == Passing(st, there)
             new == Rewound(by)
  <1>1. /\ by \in StateType /\ by.passed = st.passed \union there /\ by.modules = st.modules
        /\ by.slots = st.slots /\ by.found = st.found /\ by.results = st.results
    BY PassingState
  <1> HIDE DEF by
  <1>2. /\ new \in StateType /\ new.handler = "slots" /\ new.slots = by.slots
        /\ new.modules = by.modules /\ new.found = by.found /\ new.results = by.results
        /\ new.passed = by.passed
    BY <1>1 DEF Rewound, StateType, Handler
  <1> HIDE DEF new
  <1>3. Shaped(new)
    BY <1>1, <1>2 DEF Shaped
  <1>4. ASSUME NEW given, NEW o \in objects, At[o] \in tokens, OnItsWay(st, given, o)
        PROVE  OnItsWay(new, given, o)
    BY <1>1, <1>2, <1>4 DEF OnItsWay
  <1>5. QED
    BY <1>2, <1>3, <1>4 DEF Follows, new, by

\* At the end of what was found, nothing is passed over.
LEMMA ResultsEnd ==
    ASSUME NEW st \in StateType, Shaped(st), st.handler = "results", st.found = << >>
    PROVE  Follows(Rewound(st), st)
  <1> DEFINE new == Rewound(st)
  <1>1. /\ new \in StateType /\ new.handler = "slots" /\ new.slots = st.slots
        /\ new.modules = st.modules /\ new.found = st.found /\ new.results = st.results
        /\ new.passed = st.passed
    BY DEF Rewound, StateType, Handler
  <1> HIDE DEF new
  <1>2. Shaped(new)
    BY <1>1 DEF Shaped
  <1>3. ASSUME NEW given, NEW o \in objects, At[o] \in tokens, OnItsWay(st, given, o)
        PROVE  OnItsWay(new, given, o)
    BY <1>1, <1>3 DEF OnItsWay
  <1>4. QED
    BY <1>1, <1>2, <1>3 DEF Follows, new

LEMMA ModulesFollow ==
    ASSUME TokenKnown, NEW st \in StateType, Shaped(st), st.handler = "modules",
           st.modules # << >>, NEW ok \in BOOLEAN
    PROVE  Follows(StateModules(st, ok), st)
  <1> DEFINE new == StateModules(st, ok)
             m == Head(st.modules)
             rest == Tail(st.modules)
             slots == Kept(SlotsOf[m], tokens)
             there == UNION {Matches(s) : s \in Range(SlotsOf[m])}
             next == [st EXCEPT !.modules = Tail(@), !.handler = "slots"]
  <1>1. st.modules \in Seq(Module) /\ st.slots = << >> /\ st.found = << >>
    BY DEF StateType, Shaped
  <1>2. m \in Module /\ rest \in Seq(Module) /\ Range(st.modules) = {m} \union Range(rest)
    BY <1>1, RangeHeadTail
  <1>3. SlotsOf[m] \in Seq(Slot)
    BY <1>2, EnumeratorAssumption DEF Module
  <1>4. slots \in Seq(Slot) /\ Range(slots) = Range(SlotsOf[m]) \intersect tokens
    BY <1>3, KeptKeeps
  <1>5. /\ there \in SUBSET Object
        /\ \A o \in objects : At[o] \in tokens /\ At[o] \in Range(SlotsOf[m]) => o \in there
    BY MatchesThere
  <1>6. new = IF ok THEN [next EXCEPT !.slots = slots] ELSE Passing(next, there)
    BY DEF StateModules
  <1> HIDE DEF new, m, slots, there
  <1>7. /\ next \in StateType /\ next.handler = "slots" /\ next.slots = << >>
        /\ next.modules = rest /\ next.found = st.found /\ next.results = st.results
        /\ next.passed = st.passed
    BY <1>1, <1>2 DEF StateType, Handler
  <1> HIDE DEF rest, next
  <1>8. CASE ok
    <2>1. /\ new \in StateType /\ new.handler = "slots" /\ new.slots = slots
          /\ new.modules = rest /\ new.found = st.found /\ new.results = st.results
          /\ new.passed = st.passed
      BY <1>4, <1>6, <1>7, <1>8 DEF StateType
    <2>2. Shaped(new)
      BY <1>1, <2>1 DEF Shaped
    <2>3. ASSUME NEW given, NEW o \in objects, At[o] \in tokens, OnItsWay(st, given, o)
          PROVE  OnItsWay(new, given, o)
      <3>1. At[o] \notin Range(st.slots)
        BY <1>1, RangeEmpty
      <3>2. CASE \E d \in Range(st.modules) : At[o] \in Range(SlotsOf[d])
        BY <1>2, <1>4, <2>1, <2>3, <3>2 DEF OnItsWay
      <3>3. CASE ~\E d \in Range(st.modules) : At[o] \in Range(SlotsOf[d])
        BY <2>1, <2>3, <3>1, <3>3 DEF OnItsWay
      <3>4. QED
        BY <3>2, <3>3
    <2>4. QED
      BY <2>1, <2>2, <2>3 DEF Follows, new
  <1>9. CASE ~ok
    <2>1. /\ new \in StateType /\ new.handler = "slots" /\ new.slots = << >>
          /\ new.modules = rest /\ new.found = st.found /\ new.results = st.results
          /\ new.passed = st.passed \union there
      BY <1>5, <1>6, <1>7, <1>9, PassingState
    <2>2. Shaped(new)
      BY <1>1, <2>1 DEF Shaped
    <2>3. ASSUME NEW given, NEW o \in objects, At[o] \in tokens, OnItsWay(st, given, o)
          PROVE  OnItsWay(new, given, o)
      <3>1. At[o] \notin Range(st.slots)
        BY <1>1, RangeEmpty
      <3>2. CASE At[o] \in Range(SlotsOf[m])
        BY <1>5, <2>1, <2>3, <3>2 DEF OnItsWay
      <3>3. CASE At[o] \notin Range(SlotsOf[m])
        BY <1>2, <2>1, <2>3, <3>1, <3>3 DEF OnItsWay
      <3>4. QED
        BY <3>2, <3>3
    <2>4. QED
      BY <2>1, <2>2, <2>3 DEF Follows, new
  <1>10. QED
    BY <1>8, <1>9 DEF new

LEMMA SlotsFollow ==
    ASSUME TokenKnown, NEW st \in StateType, Shaped(st), st.handler = "slots",
           NEW ok \in BOOLEAN
    PROVE  Follows(StateSlots(st, ok), st)
  <1> DEFINE new == StateSlots(st, ok)
  <1>1. st.slots \in Seq(Slot) /\ st.found = << >>
    BY DEF StateType, Shaped
  <1>2. CASE st.slots = << >>
    <2>1. /\ new \in StateType /\ new.handler = "modules" /\ new.slots = st.slots
          /\ new.modules = st.modules /\ new.found = st.found /\ new.results = st.results
          /\ new.passed = st.passed
      BY <1>2 DEF StateSlots, StateType, Handler
    <2> HIDE DEF new
    <2>2. Shaped(new)
      BY <1>1, <1>2, <2>1 DEF Shaped
    <2>3. ASSUME NEW given, NEW o \in objects, At[o] \in tokens, OnItsWay(st, given, o)
          PROVE  OnItsWay(new, given, o)
      BY <2>1, <2>3 DEF OnItsWay
    <2>4. QED
      BY <2>1, <2>2, <2>3 DEF Follows, new
  <1>3. CASE st.slots # << >>
    <2> DEFINE s == Head(st.slots)
               left == Tail(st.slots)
               rest == [st EXCEPT !.slots = Tail(@)]
    <2>1. s \in Slot /\ left \in Seq(Slot) /\ Range(st.slots) = {s} \union Range(left)
      BY <1>1, <1>3, RangeHeadTail
    <2>2. new = IF ok /\ s \in tokens THEN [rest EXCEPT !.slot = s, !.handler = "slot"]
                ELSE Passing(rest, Matches(s))
      BY <1>3 DEF StateSlots
    <2> HIDE DEF new, s
    <2>3. /\ rest \in StateType /\ rest.handler = "slots" /\ rest.slots = left
          /\ rest.modules = st.modules /\ rest.found = st.found /\ rest.results = st.results
          /\ rest.passed = st.passed
      BY <2>1 DEF StateType, Handler
    <2> HIDE DEF left, rest
    <2>4. CASE ok /\ s \in tokens
      <3>1. /\ new \in StateType /\ new.handler = "slot" /\ new.slot = s /\ new.slots = left
            /\ new.modules = st.modules /\ new.found = st.found /\ new.results = st.results
            /\ new.passed = st.passed
        BY <2>1, <2>2, <2>3, <2>4 DEF StateType, Handler
      <3>2. Shaped(new)
        BY <1>1, <3>1 DEF Shaped
      <3>3. ASSUME NEW given, NEW o \in objects, At[o] \in tokens, OnItsWay(st, given, o)
            PROVE  OnItsWay(new, given, o)
        BY <2>1, <3>1, <3>3 DEF OnItsWay
      <3>4. QED
        BY <3>1, <3>2, <3>3 DEF Follows, new
    <2>5. CASE ~(ok /\ s \in tokens)
      <3>1. Matches(s) \in SUBSET Object
        BY MatchesThere
      <3>2. new = Passing(rest, Matches(s))
        BY <2>2, <2>5
      <3>3. /\ new \in StateType /\ new.handler = "slots" /\ new.slots = left
            /\ new.modules = st.modules /\ new.found = st.found /\ new.results = st.results
            /\ new.passed = st.passed \union Matches(s)
        BY <2>3, <3>1, <3>2, PassingState
      <3>4. Shaped(new)
        BY <1>1, <3>3 DEF Shaped
      <3>5. ASSUME NEW given, NEW o \in objects, At[o] \in tokens, OnItsWay(st, given, o)
            PROVE  OnItsWay(new, given, o)
        <4>1. At[o] = s => o \in Matches(s)
          BY <3>5, MatchesThere
        <4>2. QED
          BY <2>1, <3>3, <3>5, <4>1 DEF OnItsWay
      <3>6. QED
        BY <3>3, <3>4, <3>5 DEF Follows, new
    <2>6. QED
      BY <2>4, <2>5 DEF new
  <1>4. QED
    BY <1>2, <1>3

\* A state that goes on in the slot that it is in.
LEMMA SlotFollows ==
    ASSUME TokenKnown, NEW st \in StateType, Shaped(st), st.handler = "slot",
           NEW ok \in BOOLEAN
    PROVE  Follows(StateSlot(st, ok), st)
  <1>1. st.found = << >>
    BY DEF Shaped
  <1>2. CASE ok /\ st.slot \in tokens
    <2> DEFINE new == Opened(st)
    <2>1. /\ new \in StateType /\ new.handler = "session" /\ new.slot = st.slot
          /\ new.slots = st.slots /\ new.modules = st.modules /\ new.found = st.found
          /\ new.results = st.results /\ new.passed = st.passed
      BY DEF Opened, StateType, Handler
    <2> HIDE DEF new
    <2>2. Shaped(new)
      BY <1>1, <2>1 DEF Shaped
    <2>3. ASSUME NEW given, NEW o \in objects, At[o] \in tokens, OnItsWay(st, given, o)
          PROVE  OnItsWay(new, given, o)
      BY <2>1, <2>3 DEF OnItsWay
    <2>4. QED
      BY <1>2, <2>1, <2>2, <2>3 DEF Follows, new, StateSlot
  <1>3. CASE ~(ok /\ st.slot \in tokens)
    <2> DEFINE there == Matches(st.slot)
    <2>1. there \in SUBSET Object
      BY MatchesThere
    <2>2. \A o \in objects : At[o] \in tokens /\ At[o] = st.slot => o \in there
      BY MatchesThere
    <2> HIDE DEF there
    <2>3. Follows(Rewound(Passing(st, there)), st)
      BY <1>1, <2>1, <2>2, RewoundFollows
    <2>4. QED
      BY <1>3, <2>3 DEF StateSlot, there
  <1>4. QED
    BY <1>2, <1>3

LEMMA SessionFollows ==
    ASSUME NEW st \in StateType, Shaped(st), st.handler = "session"
    PROVE  Follows(StateSession(st), st)
  <1> DEFINE new == StateSession(st)
  <1>1. /\ new \in StateType /\ new.handler = "find" /\ new.slot = st.slot
        /\ new.slots = st.slots /\ new.modules = st.modules /\ new.found = st.found
        /\ new.results = st.results /\ new.passed = st.passed
    BY DEF StateSession, StateType, Handler
  <1> HIDE DEF new
  <1>2. Shaped(new)
    BY <1>1 DEF Shaped
  <1>3. ASSUME NEW given, NEW o \in objects, At[o] \in tokens, OnItsWay(st, given, o)
        PROVE  OnItsWay(new, given, o)
    BY <1>1, <1>3 DEF OnItsWay
  <1>4. QED
    BY <1>1, <1>2, <1>3 DEF Follows, new

\* The objects of the slot are found, or passed over.
LEMMA FindFollows ==
    ASSUME TokenKnown, NEW st \in StateType, Shaped(st), st.handler = "find",
           NEW found \in SUBSET Matches(st.slot)
    PROVE  Follows(StateFind(st, found), st)
  <1> DEFINE new == StateFind(st, found)
             there == SetToSeq(found)
             all == st.found \o there
             missed == Matches(st.slot) \ found
             by == Passing(st, missed)
  <1>1. missed \in SUBSET Object /\ found \subseteq Object
    BY MatchesThere
  <1>2. IsFiniteSet(found)
    BY <1>1, EnumeratorAssumption, FS_Subset
  <1>3. there \in Seq(found) /\ Range(there) = found
    BY <1>2, SetToSeqLists
  <1>4. there \in Seq(Object) /\ st.found \in Seq(Object)
    BY <1>1, <1>3, SeqMonotonic DEF StateType
  <1>5. \A o \in objects : At[o] \in tokens /\ At[o] = st.slot => o \in found \union missed
    BY MatchesThere
  <1>6. new = [by EXCEPT !.found = @ \o there, !.handler = "results"]
    BY DEF StateFind
  <1> HIDE DEF there, missed, new
  <1>7. all \in Seq(Object) /\ Range(all) = Range(st.found) \union found
    BY <1>3, <1>4, RangeConcatenation
  <1>8. /\ by \in StateType /\ by.passed = st.passed \union missed /\ by.modules = st.modules
        /\ by.slots = st.slots /\ by.found = st.found /\ by.results = st.results
    BY <1>1, PassingState
  <1>9. by.found \o there = all
    BY <1>8
  <1> HIDE DEF all, by
  <1>10. /\ new \in StateType /\ new.handler = "results" /\ new.found = all
         /\ new.slots = st.slots /\ new.modules = st.modules /\ new.results = st.results
         /\ new.passed = st.passed \union missed
    BY <1>6, <1>7, <1>8, <1>9 DEF StateType, Handler
  <1>11. Shaped(new)
    BY <1>10 DEF Shaped
  <1>12. ASSUME NEW given, NEW o \in objects, At[o] \in tokens, OnItsWay(st, given, o)
         PROVE  OnItsWay(new, given, o)
    BY <1>5, <1>7, <1>10, <1>12 DEF OnItsWay
  <1>13. QED
    BY <1>10, <1>11, <1>12 DEF Follows, new

\* An object that is there is read, and is a result; or it is passed over.
LEMMA ResultFollows ==
    ASSUME TokenKnown, NEW st \in StateType, Shaped(st), st.handler = "results",
           st.found # << >>, NEW ok \in BOOLEAN
    PROVE  Follows(ResultTaken(st, ok), st)
  <1> DEFINE new == ResultTaken(st, ok)
             o == Head(st.found)
             left == Tail(st.found)
             rest == [st EXCEPT !.found = Tail(@)]
             r == [object |-> o, attrs |-> value[o]]
             more == Append(st.results, r)
  <1>1. st.found \in Seq(Object) /\ st.results \in Seq(Result)
    BY DEF StateType
  <1>2. o \in Object /\ left \in Seq(Object) /\ Range(st.found) = {o} \union Range(left)
    BY <1>1, RangeHeadTail
  <1>3. r \in Result /\ r.object = o
    BY <1>2 DEF Result, TokenKnown
  <1>4. new = IF ok /\ Readable(o) THEN [rest EXCEPT !.results = Append(@, r)]
              ELSE Passing(rest, {o})
    BY DEF ResultTaken
  <1> HIDE DEF new, r, o
  <1>5. more \in Seq(Result) /\ Range(st.results) \subseteq Range(more) /\ r \in Range(more)
    BY <1>1, <1>3, RangeAppend
  <1>6. /\ rest \in StateType /\ rest.handler = "results" /\ rest.found = left
        /\ rest.slots = st.slots /\ rest.modules = st.modules /\ rest.results = st.results
        /\ rest.slot = st.slot /\ rest.passed = st.passed
    BY <1>2 DEF StateType
  <1>7. Append(rest.results, r) = more
    BY <1>6
  <1> HIDE DEF left, rest, more
  <1>8. CASE ok /\ Readable(o)
    <2>1. new = [rest EXCEPT !.results = more]
      BY <1>4, <1>7, <1>8
    <2>2. /\ new \in StateType /\ new.handler = "results" /\ new.found = left
          /\ new.slots = st.slots /\ new.modules = st.modules /\ new.results = more
          /\ new.slot = st.slot /\ new.passed = st.passed
      BY <1>5, <1>6, <2>1 DEF StateType
    <2>3. Shaped(new)
      BY <2>2 DEF Shaped
    <2>4. ASSUME NEW given, NEW x \in objects, At[x] \in tokens, OnItsWay(st, given, x)
          PROVE  OnItsWay(new, given, x)
      BY <1>2, <1>3, <1>5, <2>2, <2>4 DEF OnItsWay
    <2>5. QED
      BY <2>2, <2>3, <2>4 DEF Follows, new
  <1>9. CASE ~(ok /\ Readable(o))
    <2>1. new = Passing(rest, {o}) /\ {o} \in SUBSET Object
      BY <1>2, <1>4, <1>9
    <2>2. /\ new \in StateType /\ new.handler = "results" /\ new.found = left
          /\ new.slots = st.slots /\ new.modules = st.modules /\ new.results = st.results
          /\ new.slot = st.slot /\ new.passed = st.passed \union {o}
      BY <1>6, <2>1, PassingState
    <2>3. Shaped(new)
      BY <2>2 DEF Shaped
    <2>4. ASSUME NEW given, NEW x \in objects, At[x] \in tokens, OnItsWay(st, given, x)
          PROVE  OnItsWay(new, given, x)
      BY <1>2, <2>2, <2>4 DEF OnItsWay
    <2>5. QED
      BY <2>2, <2>3, <2>4 DEF Follows, new
  <1>10. QED
    BY <1>8, <1>9 DEF new

LEMMA HandledFollows ==
    ASSUME TokenKnown, NEW st \in StateType, Shaped(st),
           ~(st.handler = "modules" /\ st.modules = << >>), NEW new \in Handled(st)
    PROVE  Follows(new, st)
  <1>1. CASE st.handler = "modules"
    <2>1. PICK ok \in BOOLEAN : new = StateModules(st, ok)
      BY <1>1 DEF Handled
    <2>2. QED
      BY <1>1, <2>1, ModulesFollow
  <1>2. CASE st.handler = "slots"
    <2>1. PICK ok \in BOOLEAN : new = StateSlots(st, ok)
      BY <1>2 DEF Handled
    <2>2. QED
      BY <1>2, <2>1, SlotsFollow
  <1>3. CASE st.handler = "slot"
    <2>1. PICK ok \in BOOLEAN : new = StateSlot(st, ok)
      BY <1>3 DEF Handled
    <2>2. QED
      BY <1>3, <2>1, SlotFollows
  <1>4. CASE st.handler = "session"
    BY <1>4, SessionFollows DEF Handled
  <1>5. CASE st.handler = "find"
    <2>1. PICK found \in SUBSET Matches(st.slot) : new = StateFind(st, found)
      BY <1>5 DEF Handled
    <2>2. QED
      BY <1>5, <2>1, FindFollows
  <1>6. CASE st.handler = "results" /\ st.found = << >>
    BY <1>6, ResultsEnd DEF Handled
  <1>7. CASE st.handler = "results" /\ st.found # << >>
    <2>1. PICK ok \in BOOLEAN : new = ResultTaken(st, ok)
      BY <1>7 DEF Handled
    <2>2. QED
      BY <1>7, <2>1, ResultFollows
  <1>8. QED
    BY <1>1, <1>2, <1>3, <1>4, <1>5, <1>6, <1>7 DEF StateType, Handler

-----------------------------------------------------------------------------
(* Steps of a call on an enumerator.                                       *)

\* A call takes out one enumerator, or it and the one behind it.
LEMMA ChainKnown ==
    ASSUME NEW e \in Enumerator
    PROVE  /\ CheckedOut(e) \in Chain
           /\ Len(CheckedOut(e)) \in {1, 2}
  BY EnumeratorAssumption DEF CheckedOut, Chain

LEMMA TakenType ==
    ASSUME StatesKnown, NEW n \in Nat,
           NEW chain \in Chain
    PROVE  /\ Taken(chain, n) \in [Enumerator -> Nat]
           /\ \A e \in Enumerator : Taken(chain, n)[e] <= Results(e)
  <1>1. \A e \in Enumerator : Results(e) \in Nat
    BY DEF StatesKnown, StateType, Results
  <1> DEFINE first == Least(Results(chain[1]), n)
  <1>2. chain[1] \in Enumerator
    BY DEF Chain
  <1>3. first \in Nat /\ first <= n /\ first <= Results(chain[1])
    BY <1>1, <1>2 DEF Least
  <1> HIDE DEF first
  <1>4. \A e \in Enumerator :
            /\ Least(Results(e), n - first) \in Nat
            /\ Least(Results(e), n - first) <= Results(e)
    BY <1>1, <1>3 DEF Least
  <1> DEFINE T == [e \in Enumerator |-> IF e = chain[1] THEN first
                                       ELSE IF Contains(chain, e) THEN Least(Results(e), n - first)
                                       ELSE 0]
  <1>5. Taken(chain, n) = T
    BY DEF Taken, first
  <1>6. \A e \in Enumerator : T[e] \in Nat /\ T[e] <= Results(e)
    BY <1>1, <1>3, <1>4
  <1>7. T \in [Enumerator -> Nat]
    BY <1>6
  <1>8. QED
    BY <1>5, <1>6, <1>7

\* What is taken from the front of a list, and what is left of it
LEMMA RangeSplit ==
    ASSUME NEW X, NEW s \in Seq(X), NEW n \in 0 .. Len(s)
    PROVE  LET front == SubSeq(s, 1, n)
               rest == SubSeq(s, n + 1, Len(s))
           IN  /\ front \in Seq(X) /\ rest \in Seq(X)
               /\ Range(s) = Range(front) \union Range(rest)
  <1> DEFINE l == Len(s)
             front == SubSeq(s, 1, n)
             rest == SubSeq(s, n + 1, l)
  <1>1. l \in Nat /\ n \in Nat /\ n <= l
    OBVIOUS
  <1>2. /\ front \in Seq(X) /\ Len(front) = n /\ \A i \in 1 .. n : front[i] = s[i]
    BY <1>1
  <1>3. /\ rest \in Seq(X) /\ Len(rest) = l - n
        /\ \A i \in 1 .. l - n : rest[i] = s[n + i]
    BY <1>1
  <1> HIDE DEF front, rest
  <1>4. /\ Range(front) = {front[i] : i \in 1 .. n}
        /\ Range(rest) = {rest[i] : i \in 1 .. l - n}
        /\ Range(s) = {s[i] : i \in 1 .. l}
    BY <1>2, <1>3, RangeOf
  <1>5. /\ \A i \in 1 .. n : i \in 1 .. l
        /\ \A i \in 1 .. l - n : n + i \in 1 .. l
        /\ \A i \in 1 .. l : i \in 1 .. n \/ (i - n \in 1 .. l - n /\ n + (i - n) = i)
    BY <1>1
  <1>6. Range(front) \subseteq Range(s)
    BY <1>2, <1>4, <1>5
  <1>7. Range(rest) \subseteq Range(s)
    BY <1>3, <1>4, <1>5
  <1>8. ASSUME NEW i \in 1 .. l PROVE s[i] \in Range(front) \/ s[i] \in Range(rest)
    <2>1. CASE i \in 1 .. n
      BY <1>2, <1>4, <2>1
    <2>2. CASE i \notin 1 .. n
      <3>1. i - n \in 1 .. l - n /\ n + (i - n) = i
        BY <1>5, <2>2
      <3>2. rest[i - n] = s[i]
        BY <1>3, <3>1
      <3>3. QED
        BY <1>4, <3>1, <3>2
    <2>3. QED
      BY <2>1, <2>2
  <1>9. QED
    BY SMTT(30), <1>2, <1>3, <1>4, <1>6, <1>7, <1>8 DEF front, rest

\* What is on its way still is when others change the token, and more is when it is
\* handed out: nothing that was is left out.
LEMMA StaysOnItsWay ==
    ASSUME NothingMissed, objects' \intersect Here \subseteq objects, tokens' \subseteq tokens,
           \A e \in Enumerator : \A o \in objects :
               OnItsWay(state[e], delivered[e], o) /\ At[o] \in tokens
                   => OnItsWay(state'[e], delivered'[e], o)
    PROVE  NothingMissed'
  <1> SUFFICES ASSUME NEW e \in Enumerator, NEW o \in Here \intersect objects',
                      At[o] \in Covers(e) \intersect tokens'
               PROVE  OnItsWay(state'[e], delivered'[e], o)
    BY DEF NothingMissed, Covers
  <1>1. o \in Here \intersect objects /\ At[o] \in Covers(e) \intersect tokens
    OBVIOUS
  <1>2. OnItsWay(state[e], delivered[e], o)
    BY <1>1 DEF NothingMissed
  <1>3. QED
    BY <1>1, <1>2

\* What was handed out stays handed out.
Grown == \A e \in Enumerator : Range(delivered[e]) \subseteq Range(delivered'[e])

\* What an enumerator is after results were taken from it
LEMMA LeftFollows ==
    ASSUME NEW st \in StateType, Shaped(st), NEW given \in Seq(Result),
           NEW n \in 0 .. Len(st.results)
    PROVE  LET new == [st EXCEPT !.results = SubSeq(@, n + 1, Len(@))]
               more == given \o SubSeq(st.results, 1, n)
           IN  /\ new \in StateType /\ Shaped(new) /\ more \in Seq(Result)
               /\ Range(given) \subseteq Range(more)
               /\ \A o : OnItsWay(st, given, o) => OnItsWay(new, more, o)
  <1> DEFINE left == SubSeq(st.results, n + 1, Len(st.results))
             gone == SubSeq(st.results, 1, n)
             new == [st EXCEPT !.results = left]
             more == given \o gone
  <1>1. st.results \in Seq(Result)
    BY DEF StateType
  <1>2. /\ gone \in Seq(Result) /\ left \in Seq(Result)
        /\ Range(st.results) = Range(gone) \union Range(left)
    BY <1>1, RangeSplit
  <1>3. new = [st EXCEPT !.results = SubSeq(@, n + 1, Len(@))]
    OBVIOUS
  <1> HIDE DEF gone, left
  <1>4. more \in Seq(Result) /\ Range(more) = Range(given) \union Range(gone)
    BY <1>2, RangeConcatenation
  <1>5. /\ new \in StateType /\ new.results = left /\ new.handler = st.handler
        /\ new.passed = st.passed
        /\ new.found = st.found /\ new.slots = st.slots /\ new.modules = st.modules
        /\ new.slot = st.slot
    BY <1>2 DEF StateType
  <1> HIDE DEF new, more
  <1>6. Shaped(new)
    BY <1>5 DEF Shaped
  <1>7. ASSUME NEW o, OnItsWay(st, given, o) PROVE OnItsWay(new, more, o)
    BY <1>2, <1>4, <1>5, <1>7 DEF OnItsWay
  <1>8. QED
    BY <1>3, <1>4, <1>5, <1>6, <1>7 DEF more, gone

LEMMA HandOutFollows ==
    ASSUME StatesKnown, NothingMissed, NEW n \in Nat,
           NEW chain \in Chain,
           HandOut(chain, n), UNCHANGED <<objects, tokens>>
    PROVE  StatesKnown' /\ NothingMissed' /\ Grown
  <1> DEFINE taken == Taken(chain, n)
             New(e) == [state[e] EXCEPT !.results = SubSeq(@, taken[e] + 1, Len(@))]
             More(e) == delivered[e] \o SubSeq(state[e].results, 1, taken[e])
  <1>1. /\ state' = [e \in Enumerator |-> New(e)]
        /\ delivered' = [e \in Enumerator |-> More(e)]
    BY DEF HandOut
  <1>2. taken \in [Enumerator -> Nat] /\ \A e \in Enumerator : taken[e] <= Results(e)
    BY TakenType
  <1> HIDE DEF taken
  <1>3. ASSUME NEW e \in Enumerator
        PROVE  /\ New(e) \in StateType /\ More(e) \in Seq(Result) /\ Shaped(New(e))
               /\ Range(delivered[e]) \subseteq Range(More(e))
               /\ \A o : OnItsWay(state[e], delivered[e], o) => OnItsWay(New(e), More(e), o)
    <2> DEFINE st == state[e]
               given == delivered[e]
               m == taken[e]
    <2>1. st \in StateType /\ Shaped(st) /\ given \in Seq(Result) /\ st.results \in Seq(Result)
      BY DEF StatesKnown, StateType
    <2>2. m \in 0 .. Len(st.results)
      BY <1>2, <2>1 DEF Results
    <2> HIDE DEF st, given, m
    <2> DEFINE new == [st EXCEPT !.results = SubSeq(@, m + 1, Len(@))]
               more == given \o SubSeq(st.results, 1, m)
    <2>3. /\ new \in StateType /\ Shaped(new) /\ more \in Seq(Result)
          /\ Range(given) \subseteq Range(more)
          /\ \A o : OnItsWay(st, given, o) => OnItsWay(new, more, o)
      BY <2>1, <2>2, LeftFollows
    <2>4. new = New(e) /\ more = More(e)
      BY DEF st, given, m
    <2> HIDE DEF new, more, New, More
    <2>5. QED
      BY <2>3, <2>4 DEF st, given
  <1> HIDE DEF New, More
  <1>4. \A e \in Enumerator : state'[e] = New(e) /\ delivered'[e] = More(e)
    BY <1>1
  <1>5. StatesKnown'
    BY <1>1, <1>3, <1>4 DEF StatesKnown
  <1>6. NothingMissed'
    BY <1>3, <1>4, StaysOnItsWay
  <1>7. Grown
    BY <1>3, <1>4 DEF Grown
  <1>8. QED
    BY <1>5, <1>6, <1>7

\* One call goes on as c does.
LEMMA CallsMove ==
    ASSUME CallsKnown, NEW k \in Call, NEW c, CallKnown(c),
           call' = [call EXCEPT ![k] = c]
    PROVE  CallsKnown'
  BY DEF CallsKnown

LEMMA NextSyncStep ==
    ASSUME IInv, NEW k \in Call, NEW e \in Enumerator, NEW n \in Want, NextSync(k, e, n)
    PROVE  IInv' /\ Grown /\ value' = value
  <1> DEFINE chain == CheckedOut(e)
             got == Extracted(chain, n)
             c == Performing(chain, n - got, got, n)
  <1>1. n \in Nat
    BY EnumeratorAssumption
  <1>2. /\ HandOut(chain, n) /\ UNCHANGED <<objects, value, tokens>>
        /\ got # n => call' = [call EXCEPT ![k] = c]
        /\ got = n => call' = call
    BY DEF NextSync
  <1>3. chain \in Chain
        /\ Len(chain) \in {1, 2}
    BY ChainKnown
  <1>4. StatesKnown' /\ NothingMissed' /\ Grown
    BY <1>1, <1>2, <1>3, HandOutFollows DEF IInv
  <1>5. TokenKnown'
    BY <1>2 DEF IInv, TokenKnown
  <1>6. n - got \in Nat
    <2> DEFINE taken == Taken(chain, n)
    <2> HIDE DEF taken, chain
    <2>1. chain[1] \in Enumerator
      BY <1>3 DEF Chain
    <2>2. \A d \in Enumerator : Results(d) \in Nat
      BY DEF IInv, StatesKnown, StateType, Results
    <2>3. taken[chain[1]] = Least(Results(chain[1]), n)
      BY <2>1 DEF taken, Taken
    <2>4. taken[chain[1]] \in Nat /\ taken[chain[1]] <= n
      BY <1>1, <2>1, <2>2, <2>3 DEF Least
    <2>5. got = taken[chain[1]] + (IF Len(chain) = 1 THEN 0 ELSE taken[chain[2]])
      BY DEF Extracted, taken, chain
    <2>6. CASE Len(chain) = 1
      BY <1>1, <2>4, <2>5, <2>6
    <2>7. CASE Len(chain) = 2 /\ chain[2] # chain[1]
      <3>1. chain[2] \in Enumerator /\ Contains(chain, chain[2])
        BY <1>3, <2>7 DEF Contains, Chain
      <3>2. taken[chain[2]] = Least(Results(chain[2]), n - Least(Results(chain[1]), n))
        BY <2>7, <3>1 DEF taken, Taken
      <3>3. taken[chain[2]] \in Nat /\ taken[chain[2]] <= n - taken[chain[1]]
        BY <1>1, <2>2, <2>3, <2>4, <3>1, <3>2 DEF Least
      <3>4. QED
        BY <1>1, <2>4, <2>5, <2>7, <3>3
    <2>8. ~(Len(chain) = 2 /\ chain[2] = chain[1])
      BY <1>3, EnumeratorAssumption DEF chain, CheckedOut
    <2>9. QED
      BY <1>3, <2>6, <2>7, <2>8 DEF chain
  <1> HIDE DEF got
  <1>7. CallKnown(c)
    <2>1. c.chain = chain /\ c.at = 1 /\ c.want = n - got
      BY DEF Performing
    <2>2. 1 \in 1 .. Len(chain)
      BY <1>3
    <2> HIDE DEF c, chain
    <2>3. QED
      BY <1>3, <1>6, <2>1, <2>2 DEF CallKnown, chain
  <1> HIDE DEF c
  <1>8. CallsKnown'
    <2>1. CASE got # n
      BY <1>2, <1>7, <2>1, CallsMove DEF IInv
    <2>2. CASE got = n
      BY <1>2, <2>2 DEF IInv, CallsKnown
    <2>3. QED
      BY <2>1, <2>2
  <1>9. QED
    BY <1>2, <1>4, <1>5, <1>8 DEF IInv

LEMMA NextAsyncStep ==
    ASSUME IInv, NEW k \in Call, NEW e \in Enumerator, NEW n \in Want, NextAsync(k, e, n)
    PROVE  IInv' /\ Grown /\ value' = value
  <1> DEFINE chain == CheckedOut(e)
             c == Performing(chain, n, 0, n)
  <1>1. n \in Nat
    BY EnumeratorAssumption
  <1>2. /\ call' = [call EXCEPT ![k] = c]
        /\ UNCHANGED <<objects, value, tokens, state, delivered>>
    BY DEF NextAsync
  <1>3. chain \in Chain
        /\ Len(chain) \in {1, 2}
    BY ChainKnown
  <1>4. CallKnown(c)
    <2>1. c.chain = chain /\ c.at = 1 /\ c.want = n
      BY DEF Performing
    <2>2. 1 \in 1 .. Len(chain)
      BY <1>3
    <2> HIDE DEF c, chain
    <2>3. QED
      BY <1>1, <1>3, <2>1, <2>2 DEF CallKnown, chain
  <1> HIDE DEF c
  <1>5. CallsKnown'
    BY <1>2, <1>4, CallsMove DEF IInv
  <1>6. NothingMissed' /\ StatesKnown' /\ TokenKnown'
    BY <1>2, StaysOnItsWay DEF IInv, StatesKnown, TokenKnown
  <1>7. QED
    BY <1>2, <1>5, <1>6 DEF IInv, Grown

LEMMA CallGoesOn ==
    ASSUME NEW c, CallKnown(c), c.pc # "idle",
           NEW d, d.chain = c.chain, d.want = c.want, d.at \in 1 .. Len(c.chain)
    PROVE  CallKnown(d)
  BY DEF CallKnown

LEMMA PerformStep ==
    ASSUME IInv, NEW k \in Call, Perform(k)
    PROVE  IInv' /\ Grown /\ value' = value
  <1> DEFINE c == call[k]
             e == Working(k)
  <1>1. /\ c.pc = "perform" /\ CallKnown(c)
        /\ UNCHANGED <<objects, value, tokens, delivered>>
    BY DEF Perform, IInv, CallsKnown
  <1>2. /\ c.chain \in Chain
        /\ c.at \in 1 .. Len(c.chain) /\ c.want \in Nat
    BY <1>1 DEF CallKnown
  <1>3. e \in Enumerator /\ Len(c.chain) \in Nat
    BY <1>2 DEF Working, Chain
  <1>4. TokenKnown'
    BY <1>1 DEF IInv, TokenKnown
  <1>5. CASE Ends(k)
    <2>1. call' = [call EXCEPT ![k] = StateDone(k)] /\ UNCHANGED state
      BY <1>5 DEF Perform
    <2> DEFINE d == StateDone(k)
    <2>2. CallKnown(d)
      <3>1. /\ d.chain = c.chain /\ d.want = c.want
            /\ d.at = c.at \/ (d.at = c.at + 1 /\ c.at # Len(c.chain))
        BY DEF StateDone
      <3> HIDE DEF d
      <3>2. Len(c.chain) \in Nat
        BY <1>3
      <3>3. c.at \in Nat /\ 1 <= c.at /\ c.at <= Len(c.chain)
        BY <1>2
      <3>4. d.at \in 1 .. Len(c.chain)
        BY <3>1, <3>2, <3>3
      <3>5. c.pc # "idle"
        BY <1>1
      <3>6. QED
        BY <1>1, <3>1, <3>4, <3>5, CallGoesOn
    <2> HIDE DEF d
    <2>3. CallsKnown'
      BY <2>1, <2>2, CallsMove DEF IInv, d
    <2>4. NothingMissed' /\ StatesKnown'
      BY <1>1, <2>1, StaysOnItsWay DEF IInv, StatesKnown
    <2>5. QED
      BY <1>1, <1>4, <2>3, <2>4 DEF IInv, Grown
  <1>6. CASE ~Ends(k)
    <2> DEFINE st == state[e]
               d == [c EXCEPT !.i = IF state[e].handler = "results" /\ state[e].found # << >>
                                    THEN @ + 1 ELSE 0]
    <2>1. /\ \E new \in Handled(st) : state' = [state EXCEPT ![e] = new]
          /\ call' = [call EXCEPT ![k] = d]
      BY <1>6 DEF Perform
    <2>2. st \in StateType /\ Shaped(st) /\ state \in [Enumerator -> StateType]
      BY <1>3 DEF IInv, StatesKnown
    <2>3. ~(st.handler = "modules" /\ st.modules = << >>)
      BY <1>6 DEF Ends
    <2> HIDE DEF st
    <2> PICK new \in Handled(st) : state' = [state EXCEPT ![e] = new]
      BY <2>1
    <2>4. Follows(new, st)
      BY <2>2, <2>3, HandledFollows DEF IInv
    <2>5. /\ state'[e] = new /\ state' \in [Enumerator -> StateType]
          /\ \A b \in Enumerator : b # e => state'[b] = state[b]
      BY <1>3, <2>2, <2>4 DEF Follows
    <2>6. StatesKnown'
      BY <1>1, <2>4, <2>5 DEF Follows, IInv, StatesKnown
    <2>7. NothingMissed'
      <3>1. ASSUME NEW b \in Enumerator, NEW o \in objects,
                   OnItsWay(state[b], delivered[b], o), At[o] \in tokens
            PROVE  OnItsWay(state'[b], delivered'[b], o)
        BY <1>1, <2>4, <2>5, <3>1 DEF Follows, st
      <3>2. QED
        BY <1>1, <3>1, StaysOnItsWay DEF IInv
    <2>8. CallKnown(d)
      <3>1. d.chain = c.chain /\ d.want = c.want /\ d.at = c.at
        OBVIOUS
      <3> HIDE DEF d
      <3>2. QED
        BY <1>2, <3>1 DEF CallKnown
    <2> HIDE DEF d
    <2>9. CallsKnown'
      BY <2>1, <2>8, CallsMove DEF IInv
    <2>10. QED
      BY <1>1, <1>4, <2>6, <2>7, <2>9 DEF IInv, Grown
  <1>7. QED
    BY <1>5, <1>6

LEMMA FinishStep ==
    ASSUME IInv, NEW k \in Call, NEW cancelled \in BOOLEAN, Finish(k, cancelled)
    PROVE  IInv' /\ Grown /\ value' = value
  <1>1. /\ call[k].pc = "ready" /\ CallKnown(call[k]) /\ UNCHANGED <<objects, value, tokens>>
        /\ call' = [call EXCEPT ![k] = IdleCall]
    BY DEF Finish, IInv, CallsKnown
  <1>2. CallsKnown'
    <2>1. CallKnown(IdleCall)
      BY DEF CallKnown, IdleCall
    <2>2. QED
      BY <1>1, <2>1, CallsMove DEF IInv
  <1>3. TokenKnown'
    BY <1>1 DEF IInv, TokenKnown
  <1>4. StatesKnown' /\ NothingMissed' /\ Grown
    <2>1. CASE cancelled
      <3>1. UNCHANGED <<state, delivered>>
        BY <2>1 DEF Finish
      <3>2. QED
        BY <1>1, <3>1, StaysOnItsWay DEF IInv, StatesKnown, Grown
    <2>2. CASE ~cancelled
      <3>1. HandOut(call[k].chain, call[k].want)
        BY <2>2 DEF Finish
      <3>2. QED
        BY <1>1, <3>1, HandOutFollows DEF IInv, CallKnown
    <2>3. QED
      BY <2>1, <2>2
  <1>5. QED
    BY <1>1, <1>2, <1>3, <1>4 DEF IInv

LEMMA EnumerateStep ==
    ASSUME IInv, NEW k \in Call, Enumerate(k)
    PROVE  IInv' /\ Grown /\ value' = value
  <1>1. ASSUME NEW e \in Enumerator, NextRefused(e) PROVE IInv' /\ Grown /\ value' = value
    <2>1. UNCHANGED <<objects, value, tokens, state, call, delivered>>
      BY <1>1 DEF NextRefused
    <2>2. NothingMissed' /\ StatesKnown' /\ TokenKnown' /\ CallsKnown'
      BY <2>1, StaysOnItsWay DEF IInv, StatesKnown, TokenKnown, CallsKnown
    <2>3. QED
      BY <2>1, <2>2 DEF IInv, Grown
  <1>2. QED
    BY <1>1, NextSyncStep, NextAsyncStep, PerformStep, FinishStep DEF Enumerate

\* The token changes: what was there at first does not come again.
LEMMA TokenChanges ==
    ASSUME IInv, TokenKnown', objects' \intersect Here \subseteq objects, tokens' \subseteq tokens,
           UNCHANGED <<state, call, delivered>>
    PROVE  IInv' /\ Grown
  <1>1. NothingMissed'
    BY StaysOnItsWay DEF IInv
  <1>2. StatesKnown' /\ CallsKnown' /\ Grown
    BY DEF IInv, StatesKnown, CallsKnown, Grown
  <1>3. QED
    BY <1>1, <1>2 DEF IInv

\* No object has fewer changes than it had.
Later == \A o \in Object : value[o] <= value'[o]

LEMMA EventStep ==
    ASSUME IInv, Event
    PROVE  IInv' /\ Grown /\ Later
  <1>1. UNCHANGED <<state, call, delivered>>
    BY DEF Event
  <1>2. TokenKnown' /\ objects' \intersect Here \subseteq objects /\ tokens' \subseteq tokens /\ Later
    BY DEF Event, IInv, TokenKnown, Later
  <1>3. QED
    BY <1>1, <1>2, TokenChanges

LEMMA InitKnown == Init => IInv
  <1> SUFFICES ASSUME Init PROVE IInv
    OBVIOUS
  <1>1. TokenKnown
    BY EnumeratorAssumption DEF Init, EnumInit, TokenKnown
  <1> DEFINE none == << >>
             st(e) == [handler |-> IF OfSession[e] = None THEN "modules" ELSE "session",
                       modules |-> IF OfSession[e] = None THEN Modules ELSE none,
                       slots |-> none, slot |-> OfSession[e],
                       session |-> OfSession[e] # None, found |-> none, results |-> none,
                       passed |-> {}]
  <1>2. none \in Seq(Module) /\ none \in Seq(Slot) /\ none \in Seq(Object)
        /\ none \in Seq(Result) /\ Range(none) = {} /\ none = << >>
    BY RangeEmpty
  <1>3. state = [e \in Enumerator |-> st(e)] /\ delivered = [e \in Enumerator |-> none]
    BY DEF Init, EnumInit
  <1> HIDE DEF none
  <1>4. ASSUME NEW e \in Enumerator PROVE st(e) \in StateType /\ Shaped(st(e))
    <2>1. OfSession[e] \in Slot \union {None} /\ Modules \in Seq(Module)
      BY EnumeratorAssumption DEF Module
    <2>2. QED
      BY <1>2, <2>1 DEF StateType, Handler, Shaped
  <1>5. StatesKnown
    BY <1>2, <1>3, <1>4 DEF StatesKnown
  <1>6. CallsKnown
    BY DEF Init, EnumInit, CallsKnown, CallKnown, IdleCall
  <1>7. NothingMissed
    <2> SUFFICES ASSUME NEW e \in Enumerator, NEW o \in Here \intersect objects, At[o] \in Covers(e)
                 PROVE  OnItsWay(st(e), delivered[e], o)
      BY <1>3 DEF NothingMissed
    <2>1. CASE OfSession[e] = None
      BY <2>1 DEF Covers, OnItsWay
    <2>2. CASE OfSession[e] # None
      BY <2>2 DEF Covers, OnItsWay
    <2>3. QED
      BY <2>1, <2>2
  <1>8. QED
    BY <1>1, <1>5, <1>6, <1>7 DEF IInv

-----------------------------------------------------------------------------
(* The caches.                                                             *)

\* What a call on an object knows of the objects that were handed out, of their changes
\* and of their caches.
ObjectCallKnown(c, known, val, kept) ==
    /\ c.pc \in {"idle", "reading", "read", "failed", "have"}
    /\ c.pc # "idle" => c.object \in known /\ c.types \subseteq Type /\ c.since \in Nat
    /\ c.pc = "reading" => c.since <= val[c.object]
    /\ c.pc = "read" => c.read \in Nat /\ c.since <= c.read
    /\ c.pc = "have" => \A t \in c.types : kept[c.object][t] # Missing

CachesKnown ==
    /\ cache \in [Object -> [Type -> Int]]
    /\ \A k \in ObjectCall : ObjectCallKnown(ocall[k], Known, value, cache)
    /\ DOMAIN ocall = ObjectCall

LEMMA HandlesRange ==
    ASSUME NEW q \in Seq(Result)
    PROVE  /\ Range(Handles(q)) = {r.object : r \in Range(q)} /\ Range(Handles(q)) \subseteq Object
  <1> DEFINE h == Handles(q)
  <1>1. DOMAIN h = DOMAIN q /\ \A i \in DOMAIN q : h[i] = q[i].object
    BY DEF Handles
  <1>2. \A i \in DOMAIN q : q[i] \in Result
    OBVIOUS
  <1> HIDE DEF h
  <1>3. Range(h) = {h[i] : i \in DOMAIN q} /\ Range(q) = {q[i] : i \in DOMAIN q}
    BY <1>1 DEF Range
  <1>4. Range(h) = {r.object : r \in Range(q)}
    BY <1>1, <1>3
  <1>5. Range(h) \subseteq Object
    BY <1>1, <1>2, <1>3 DEF Result
  <1>6. QED
    BY <1>4, <1>5 DEF h

LEMMA KnownObjects ==
    ASSUME StatesKnown
    PROVE  Known \subseteq Object
  <1>1. \A e \in Enumerator : delivered[e] \in Seq(Result)
    BY DEF StatesKnown
  <1>2. QED
    BY <1>1, HandlesRange DEF Known

LEMMA KnownGrows ==
    ASSUME StatesKnown, StatesKnown', Grown
    PROVE  Known \subseteq Known'
  <1>1. ASSUME NEW e \in Enumerator
        PROVE  Range(Handles(delivered[e])) \subseteq Range(Handles(delivered'[e]))
    <2>1. delivered[e] \in Seq(Result) /\ delivered'[e] \in Seq(Result)
      BY DEF StatesKnown
    <2>2. Range(delivered[e]) \subseteq Range(delivered'[e])
      BY DEF Grown
    <2>3. /\ Range(Handles(delivered[e])) = {r.object : r \in Range(delivered[e])}
          /\ Range(Handles(delivered'[e])) = {r.object : r \in Range(delivered'[e])}
      BY <2>1, HandlesRange
    <2>4. QED
      BY <2>2, <2>3
  <1>2. QED
    BY <1>1 DEF Known

\* Objects change, caches fill, and more objects are handed out: what a call knows stays.
LEMMA ObjectCallStays ==
    ASSUME NEW c, NEW known \in SUBSET Object, NEW more, known \subseteq more,
           NEW val \in [Object -> Nat], NEW later \in [Object -> Nat],
           \A o \in Object : val[o] <= later[o],
           NEW kept, NEW filled,
           \A o \in known : \A t \in Type : kept[o][t] # Missing => filled[o][t] # Missing,
           ObjectCallKnown(c, known, val, kept)
    PROVE  ObjectCallKnown(c, more, later, filled)
  BY DEF ObjectCallKnown

\* Every call stays as it is.
LEMMA CachesStay ==
    ASSUME IInv, IInv', CachesKnown, Grown, Later, ocall' = ocall,
           cache' \in [Object -> [Type -> Int]],
           \A o \in Known : cache'[o] = cache[o]
    PROVE  CachesKnown'
  <1>1. Known \subseteq Known' /\ Known \subseteq Object
    BY KnownGrows, KnownObjects DEF IInv
  <1>2. value \in [Object -> Nat] /\ value' \in [Object -> Nat]
    BY DEF IInv, TokenKnown
  <1>3. ASSUME NEW k \in ObjectCall PROVE ObjectCallKnown(ocall[k], Known', value', cache')
    <2>1. ObjectCallKnown(ocall[k], Known, value, cache)
      BY DEF CachesKnown
    <2>2. QED
      BY <1>1, <1>2, <2>1, ObjectCallStays DEF Later
  <1>4. QED
    BY <1>3 DEF CachesKnown

LEMMA EnumeratesStep ==
    ASSUME IInv, CachesKnown, Enumerates
    PROVE  IInv' /\ CachesKnown'
  <1>1. cache' = CacheMade /\ ocall' = ocall /\ \E k \in Call : Enumerate(k)
    BY DEF Enumerates
  <1>2. IInv' /\ Grown /\ value' = value
    BY <1>1, EnumerateStep
  <1>3. Later
    BY <1>2 DEF Later, IInv, TokenKnown
  <1> DEFINE New(o) == {r \in UNION {Range(delivered'[e]) : e \in Enumerator} :
                          r.object = o /\ o \notin Known}
             Read_(o) == [t \in Type |-> IF t \in DefaultType
                                        THEN (CHOOSE r \in New(o) : TRUE).attrs ELSE Missing]
  <1>4. cache' = [o \in Object |-> IF New(o) = {} THEN cache[o] ELSE Read_(o)]
    BY <1>1 DEF CacheMade
  <1>5. \A o \in Known : New(o) = {}
    OBVIOUS
  <1>6. \A o \in Object : \A r \in New(o) : r \in Result
    <2>1. \A e \in Enumerator : delivered'[e] \in Seq(Result)
      BY <1>2 DEF IInv, StatesKnown
    <2>2. \A e \in Enumerator : Range(delivered'[e]) \subseteq Result
      BY <2>1, RangeOf
    <2>3. QED
      BY <2>2
  <1>7. \A o \in Object : New(o) # {} => Read_(o) \in [Type -> Int]
    <2> SUFFICES ASSUME NEW o \in Object, New(o) # {}
                 PROVE  (CHOOSE r \in New(o) : TRUE).attrs \in Int /\ Missing \in Int
      OBVIOUS
    <2>1. (CHOOSE r \in New(o) : TRUE) \in Result
      BY <1>6
    <2>2. QED
      BY <2>1 DEF Result, Missing
  <1> HIDE DEF New, Read_
  <1>8. cache' \in [Object -> [Type -> Int]]
    BY <1>4, <1>7 DEF CachesKnown
  <1>9. Known \subseteq Object
    BY KnownObjects DEF IInv
  <1>10. \A o \in Known : cache'[o] = cache[o]
    BY <1>4, <1>5, <1>9
  <1>11. QED
    BY <1>1, <1>2, <1>3, <1>8, <1>10, CachesStay

\* A call on an object goes on as c, and nothing else changes.
LEMMA ObjectCallMoves ==
    ASSUME IInv, CachesKnown, NEW k \in ObjectCall, NEW c, ocall' = [ocall EXCEPT ![k] = c],
           ObjectCallKnown(c, Known, value, cache),
           UNCHANGED <<objects, value, tokens, state, call, delivered, cache>>
    PROVE  IInv' /\ CachesKnown'
  <1>1. TokenKnown'
    BY DEF IInv, TokenKnown
  <1>2. IInv'
    BY <1>1, TokenChanges
  <1>3. Known' = Known
    BY DEF Known
  <1>4. CachesKnown'
    BY <1>3 DEF CachesKnown
  <1>5. QED
    BY <1>2, <1>4

LEMMA BeginStep ==
    ASSUME IInv, CachesKnown, NEW k \in ObjectCall, NEW o \in Object, NEW types \in SUBSET Type,
           NEW pc \in {"reading", "have"}, Begin(k, o, types, pc),
           pc = "have" => Have(o, types)
    PROVE  IInv' /\ CachesKnown'
  <1> DEFINE c == [pc |-> pc, object |-> o, types |-> types, since |-> value[o], read |-> Missing]
  <1>1. /\ ocall' = [ocall EXCEPT ![k] = c] /\ o \in Known
        /\ UNCHANGED <<objects, value, tokens, state, call, delivered, cache>>
    BY DEF Begin
  <1>2. value[o] \in Nat
    BY DEF IInv, TokenKnown
  <1>3. ObjectCallKnown(c, Known, value, cache)
    BY <1>1, <1>2 DEF ObjectCallKnown, Have
  <1> HIDE DEF c
  <1>4. QED
    BY <1>1, <1>3, ObjectCallMoves

LEMMA ReadStep ==
    ASSUME IInv, CachesKnown, NEW k \in ObjectCall, Read(k)
    PROVE  IInv' /\ CachesKnown'
  <1> DEFINE c == ocall[k]
             o == c.object
             d == IF Readable(o) THEN [c EXCEPT !.pc = "read", !.read = value[o]]
                  ELSE [c EXCEPT !.pc = "failed"]
  <1>1. /\ c.pc = "reading" /\ ocall' = [ocall EXCEPT ![k] = d]
        /\ UNCHANGED <<objects, value, tokens, state, call, delivered, cache>>
    BY DEF Read, enumVars
  <1>2. ObjectCallKnown(c, Known, value, cache)
    BY DEF CachesKnown
  <1>3. o \in Object /\ value[o] \in Nat
    BY <1>1, <1>2, KnownObjects DEF ObjectCallKnown, IInv, TokenKnown
  <1>4. ObjectCallKnown(d, Known, value, cache)
    BY <1>1, <1>2, <1>3 DEF ObjectCallKnown
  <1> HIDE DEF d
  <1>5. QED
    BY <1>1, <1>4, ObjectCallMoves

\* What a call on an object has read goes into the cache, and no type leaves it.
LEMMA FinishObjectStep ==
    ASSUME IInv, CachesKnown, NEW k \in ObjectCall, NEW cancelled \in BOOLEAN,
           FinishObject(k, cancelled)
    PROVE  IInv' /\ CachesKnown'
  <1> DEFINE c == ocall[k]
  <1>1. /\ c.pc \in {"read", "failed", "have"} /\ ocall' = [ocall EXCEPT ![k] = IdleObjectCall]
        /\ UNCHANGED <<objects, value, tokens, state, call, delivered>>
    BY DEF FinishObject, enumVars
  <1>2. ObjectCallKnown(c, Known, value, cache)
    BY DEF CachesKnown
  <1>3. ObjectCallKnown(IdleObjectCall, Known, value, cache')
    BY DEF ObjectCallKnown, IdleObjectCall
  <1>4. IInv'
    <2>1. TokenKnown'
      BY <1>1 DEF IInv, TokenKnown
    <2>2. QED
      BY <1>1, <2>1, TokenChanges
  <1>5. Known' = Known /\ Known \subseteq Object
    BY <1>1, KnownObjects DEF Known, IInv
  <1>6. /\ cache' \in [Object -> [Type -> Int]]
        /\ \A o \in Object : \A t \in Type : cache[o][t] # Missing => cache'[o][t] # Missing
    <2>1. CASE c.pc = "read" /\ ~cancelled
      <3> DEFINE o == c.object
                 new == [t \in Type |-> IF t \in c.types THEN c.read ELSE cache[o][t]]
      <3>1. cache' = [cache EXCEPT ![o] = new]
        BY <2>1 DEF FinishObject, Filled
      <3>2. o \in Object /\ c.read \in Nat /\ cache \in [Object -> [Type -> Int]]
        BY <1>2, <1>5, <2>1 DEF ObjectCallKnown, CachesKnown
      <3>3. /\ new \in [Type -> Int]
            /\ \A t \in Type : cache[o][t] # Missing => new[t] # Missing
        BY <3>2 DEF Missing
      <3> HIDE DEF o, new
      <3>4. QED
        BY <3>1, <3>2, <3>3
    <2>2. CASE ~(c.pc = "read" /\ ~cancelled)
      BY <2>2 DEF FinishObject, CachesKnown
    <2>3. QED
      BY <2>1, <2>2
  <1>7. \A i \in ObjectCall : ObjectCallKnown(ocall[i], Known, value, cache')
    <2>1. value \in [Object -> Nat] /\ \A o \in Object : value[o] <= value[o]
      BY DEF IInv, TokenKnown
    <2>2. \A i \in ObjectCall : ObjectCallKnown(ocall[i], Known, value, cache)
      BY DEF CachesKnown
    <2>3. QED
      BY <1>5, <1>6, <2>1, <2>2, ObjectCallStays
  <1>8. CachesKnown'
    BY <1>1, <1>3, <1>5, <1>6, <1>7 DEF CachesKnown
  <1>9. QED
    BY <1>4, <1>8

\* The token changes, whoever changes it.
LEMMA CachesOutlive ==
    ASSUME IInv, CachesKnown, IInv', Grown, Later, UNCHANGED <<cache, ocall>>
    PROVE  CachesKnown'
  <1>1. cache' \in [Object -> [Type -> Int]] /\ \A o \in Known : cache'[o] = cache[o]
    BY DEF CachesKnown
  <1>2. QED
    BY <1>1, CachesStay

LEMMA ChangeStep ==
    ASSUME IInv, CachesKnown, NEW o \in Object, SetObject(o) \/ DestroyObject(o)
    PROVE  IInv' /\ CachesKnown'
  <1>1. UNCHANGED <<tokens, state, call, delivered, cache, ocall>>
    BY DEF SetObject, DestroyObject
  <1>2. TokenKnown' /\ Later /\ objects' \subseteq objects
    BY DEF SetObject, DestroyObject, IInv, TokenKnown, Later
  <1>3. IInv' /\ Grown
    BY <1>1, <1>2, TokenChanges
  <1>4. QED
    BY <1>1, <1>2, <1>3, CachesOutlive

LEMMA InitCaches == Init => CachesKnown
  <1> SUFFICES ASSUME Init PROVE CachesKnown
    OBVIOUS
  <1>1. cache \in [Object -> [Type -> Int]]
    BY DEF Init, Missing
  <1>2. \A k \in ObjectCall : ObjectCallKnown(ocall[k], Known, value, cache)
    BY DEF Init, ObjectCallKnown, IdleObjectCall
  <1>3. QED
    BY <1>1, <1>2 DEF Init, CachesKnown

LEMMA NextKeeps == IInv /\ CachesKnown /\ [Next]_objectVars => IInv' /\ CachesKnown'
  <1> SUFFICES ASSUME IInv, CachesKnown, [Next]_objectVars PROVE IInv' /\ CachesKnown'
    OBVIOUS
  <1>1. CASE Enumerates
    BY <1>1, EnumeratesStep
  <1>2. CASE Others
    <2>1. IInv' /\ Grown /\ Later
      BY <1>2, EventStep DEF Others
    <2>2. QED
      BY <1>2, <2>1, CachesOutlive DEF Others
  <1>3. ASSUME NEW k \in ObjectCall, NEW o \in Object, NEW types \in SUBSET Type \ {{}},
               Update(k, o, types) \/ Lookup(k, o, types)
        PROVE  IInv' /\ CachesKnown'
    <2>1. CASE Update(k, o, types)
      BY <2>1, BeginStep DEF Update
    <2>2. CASE Lookup(k, o, types)
      <3>1. CASE Have(o, types)
        BY <2>2, <3>1, BeginStep DEF Lookup
      <3>2. CASE ~Have(o, types)
        BY <2>2, <3>2, BeginStep DEF Lookup
      <3>3. QED
        BY <3>1, <3>2
    <2>3. QED
      BY <1>3, <2>1, <2>2
  <1>4. ASSUME NEW k \in ObjectCall, Read(k) PROVE IInv' /\ CachesKnown'
    BY <1>4, ReadStep
  <1>5. ASSUME NEW k \in ObjectCall, NEW cancelled \in BOOLEAN, FinishObject(k, cancelled)
        PROVE  IInv' /\ CachesKnown'
    BY <1>5, FinishObjectStep
  <1>6. ASSUME NEW o \in Object, SetObject(o) \/ DestroyObject(o) PROVE IInv' /\ CachesKnown'
    BY <1>6, ChangeStep
  <1>7. CASE UNCHANGED objectVars
    <2>1. UNCHANGED <<objects, value, tokens, state, call, delivered, cache, ocall>>
      BY <1>7 DEF objectVars, enumVars
    <2>2. TokenKnown' /\ Later
      BY <2>1 DEF IInv, TokenKnown, Later
    <2>3. IInv' /\ Grown
      BY <2>1, <2>2, TokenChanges
    <2>4. QED
      BY <2>1, <2>2, <2>3, CachesOutlive
  <1>8. QED
    BY <1>1, <1>2, <1>3, <1>4, <1>5, <1>6, <1>7 DEF Next

\* Where every object is on its way, and what every call knows, in every reachable state.
THEOREM Invariance == Spec => [](IInv /\ CachesKnown)
  <1>1. QED
    BY InitKnown, InitCaches, NextKeeps, PTL DEF Spec

-----------------------------------------------------------------------------
(* What follows from it.                                                   *)

\* An enumerator that has come to its end has handed out every object that was there all
\* the time, but for those that a failed C_ function kept from it, whatever calls were
\* cancelled and whatever came and went around it (gck_enumerator_next,
\* perform_enumerate_next).
THEOREM NoObjectIsMissed == Spec => []EndMeansAll
  <1>1. ASSUME IInv PROVE EndMeansAll
    <2> SUFFICES ASSUME NEW e \in Enumerator, Exhausted(e),
                        NEW o \in (Here \intersect objects) \ state[e].passed,
                        At[o] \in Covers(e) \intersect tokens
                 PROVE  Contains(Handles(delivered[e]), o)
      BY DEF EndMeansAll
    <2>1. OnItsWay(state[e], delivered[e], o)
      BY <1>1 DEF IInv, NothingMissed
    <2>2. state[e].slots = << >> /\ state[e].found = << >> /\ state[e].modules = << >>
          /\ state[e].results = << >> /\ state[e].handler = "modules"
      BY <1>1 DEF Exhausted, IInv, StatesKnown, Shaped
    <2>3. \E r \in Range(delivered[e]) : r.object = o
      BY <2>1, <2>2, RangeEmpty DEF OnItsWay
    <2>4. delivered[e] \in Seq(Result)
      BY <1>1 DEF IInv, StatesKnown
    <2> DEFINE q == delivered[e]
    <2> HIDE DEF q
    <2>5. PICK i \in 1 .. Len(q) : q[i].object = o
      BY <2>3, <2>4, RangeOf DEF q
    <2>6. Len(Handles(q)) = Len(q) /\ Handles(q)[i] = o
      BY <2>4, <2>5 DEF Handles, q
    <2>7. QED
      BY <2>5, <2>6 DEF Contains, q
  <1>2. QED
    BY <1>1, Invariance, PTL

LEMMA FreshStep ==
    ASSUME CachesKnown, IInv, [Next]_objectVars, NEW k \in ObjectCall
    PROVE  LET c == ocall[k]
           IN  /\ c.pc = "read" /\ ocall'[k].pc = "idle" /\ cache' # cache =>
                     \A t \in c.types : cache'[c.object][t] >= c.since
               /\ c.pc = "have" => Have(c.object, c.types)
  <1> DEFINE c == ocall[k]
  <1>1. ObjectCallKnown(c, Known, value, cache)
    BY DEF CachesKnown
  <1>2. c.pc = "have" => Have(c.object, c.types)
    BY <1>1 DEF ObjectCallKnown, Have
  <1>3. ASSUME c.pc = "read", ocall'[k].pc = "idle", cache' # cache, NEW t \in c.types
        PROVE  cache'[c.object][t] >= c.since
    <2>1. ASSUME NEW i \in ObjectCall, NEW cancelled \in BOOLEAN, FinishObject(i, cancelled)
          PROVE  cache'[c.object][t] >= c.since
      <3>1. i = k
        BY <1>3, <2>1 DEF FinishObject, CachesKnown
      <3>2. cache' = Filled(c.object, c.types, c.read)
        BY <1>3, <2>1, <3>1 DEF FinishObject
      <3>3. c.object \in Object /\ t \in Type /\ cache \in [Object -> [Type -> Int]]
        BY <1>1, <1>3, KnownObjects DEF ObjectCallKnown, IInv, CachesKnown
      <3>4. cache'[c.object][t] = c.read
        BY <1>3, <3>2, <3>3 DEF Filled
      <3>5. c.read \in Nat /\ c.since \in Nat /\ c.since <= c.read
        BY <1>1, <1>3 DEF ObjectCallKnown
      <3>6. QED
        BY <3>4, <3>5
    <2>2. ~Enumerates /\ ~Others /\ ~(UNCHANGED objectVars)
      BY <1>3 DEF Enumerates, Others, objectVars
    <2>3. \A i \in ObjectCall : ~Read(i)
      BY <1>3 DEF Read
    <2>4. \A i \in ObjectCall, o \in Object, types \in SUBSET Type \ {{}} :
              ~Update(i, o, types) /\ ~Lookup(i, o, types)
      BY <1>3 DEF Update, Lookup, Begin
    <2>5. \A o \in Object : ~SetObject(o) /\ ~DestroyObject(o)
      BY <1>3 DEF SetObject, DestroyObject
    <2>6. QED
      BY <2>1, <2>2, <2>3, <2>4, <2>5 DEF Next
  <1>4. QED
    BY <1>2, <1>3

\* The end of an update brings attributes as they were when it began or later, and a
\* lookup that found the cache filled finds it filled when it ends, whatever other calls
\* do to the cache meanwhile (on_cache_object_get, gck_object_cache_lookup_finish).
THEOREM UpdatesBringNews == Spec => UpdatesAreFresh
  <1> DEFINE A == \A k \in ObjectCall :
                      LET c == ocall[k]
                      IN  /\ c.pc = "read" /\ ocall'[k].pc = "idle" /\ cache' # cache =>
                                \A t \in c.types : cache'[c.object][t] >= c.since
                          /\ c.pc = "have" => Have(c.object, c.types)
  <1>1. IInv /\ CachesKnown /\ [Next]_objectVars => [A]_objectVars
    BY FreshStep
  <1>2. QED
    BY <1>1, Invariance, PTL DEF Spec, UpdatesAreFresh
=============================================================================
