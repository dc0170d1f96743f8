----------------------------- MODULE ListLemmas -----------------------------
(***************************************************************************)
(* What the operators on lists that the models are built from return, for  *)
(* all lists: Kept of Lists, and Range, Reverse, FlattenSeq and SetToSeq   *)
(* of the community modules.  The recursive ones need an induction.  The   *)
(* theorems of the library that are about operators are of no use to the   *)
(* provers, so that this one is about sets of numbers: the set of those    *)
(* that have a property is that of all.                                    *)
(***************************************************************************)
EXTENDS Lists, FiniteSets, SequencesExt, FiniteSetTheorems, SequenceTheorems, TLAPS

-----------------------------------------------------------------------------
(* Induction.                                                              *)

LessThan == {pair \in Nat \X Nat : pair[1] < pair[2]}

\* A set of numbers that is not empty has a least one.
LEMMA LeastNumber ==
    ASSUME NEW T, T \subseteq Nat, T # {}
    PROVE  \E x \in T : \A y \in T : x <= y
  <1>1. IsWellFoundedOn(LessThan, Nat)
    BY NatLessThanWellFounded DEF LessThan, OpToRel
  <1>2. PICK x \in T : \A y \in T : ~(<<y, x>> \in LessThan)
    BY <1>1, WFMin
  <1>3. \A y \in T : ~(y < x)
    BY <1>2 DEF LessThan
  <1>4. QED
    BY <1>3

\* A set that has 0, and the successor of each number that it has, has all.
LEMMA SetInduction ==
    ASSUME NEW S \in SUBSET Nat, 0 \in S, \A n \in S : n + 1 \in S
    PROVE  \A n \in Nat : n \in S
  <1> SUFFICES ASSUME Nat \ S # {} PROVE FALSE
    OBVIOUS
  <1>1. PICK m \in Nat \ S : \A y \in Nat \ S : m <= y
    BY LeastNumber
  <1>2. m # 0 /\ m - 1 \in Nat /\ ~(m <= m - 1)
    BY <1>1
  <1>3. m - 1 \in S
    BY <1>1, <1>2
  <1>4. QED
    BY <1>1, <1>2, <1>3

\* The functions that map the value for i - 1 to that for i, and the function over
\* 0 .. n that they define.
Steps(n, X) == [1 .. n -> [X -> X]]
Solves(f, n, X, base, step) ==
    /\ f \in [0 .. n -> X]
    /\ f[0] = base /\ \A i \in 1 .. n : f[i] = step[i][f[i - 1]]

\* A function that is defined by recursion over 1 .. n exists.
LEMMA Recursion ==
    ASSUME NEW n \in Nat, NEW X, NEW base \in X, NEW step \in Steps(n, X)
    PROVE  \E f : Solves(f, n, X, base, step)
  <1> DEFINE Upto(k, f) == f[0] = base /\ \A i \in 1 .. k : f[i] = step[i][f[i - 1]]
             S == {k \in Nat : k <= n => \E f \in [0 .. k -> X] : Upto(k, f)}
  <1>1. 0 \in S
    <2>1. Upto(0, [i \in 0 .. 0 |-> base]) /\ [i \in 0 .. 0 |-> base] \in [0 .. 0 -> X]
      OBVIOUS
    <2>2. QED
      BY <2>1
  <1>2. ASSUME NEW k \in S PROVE k + 1 \in S
    <2>0. k \in Nat /\ k + 1 \in Nat
      BY <1>2
    <2> SUFFICES ASSUME k + 1 <= n PROVE \E f \in [0 .. k + 1 -> X] : Upto(k + 1, f)
      <3> HIDE DEF Upto
      <3>1. QED
        BY <2>0
    <2>1. PICK f \in [0 .. k -> X] : Upto(k, f)
      BY <1>2
    <2> DEFINE g == [i \in 0 .. k + 1 |-> IF i = k + 1 THEN step[k + 1][f[k]] ELSE f[i]]
    <2>2. step[k + 1][f[k]] \in X
      BY <2>0 DEF Steps
    <2>3. g \in [0 .. k + 1 -> X]
      BY <2>2, <1>2
    <2>4. ASSUME NEW i \in 1 .. k + 1 PROVE g[i] = step[i][g[i - 1]]
      <3>1. CASE i = k + 1
        BY <3>1, <1>2
      <3>2. CASE i # k + 1
        <4>1. i \in 1 .. k /\ i - 1 \in 0 .. k /\ i - 1 # k + 1
          BY <3>2, <1>2
        <4>2. g[i] = f[i] /\ g[i - 1] = f[i - 1]
          BY <3>2, <4>1, <1>2
        <4>3. QED
          BY <4>1, <4>2, <2>1
      <3>3. QED
        BY <3>1, <3>2
    <2>5. g[0] = base
      BY <2>1, <1>2
    <2>6. QED
      BY <2>3, <2>4, <2>5
  <1> HIDE DEF S
  <1>3. S \in SUBSET Nat
    BY DEF S
  <1>4. n \in S
    BY <1>1, <1>2, <1>3, SetInduction
  <1>5. QED
    BY <1>4 DEF S, Solves

\* The same, when each step takes a value from a set of its own to the next set: the
\* loop has an invariant.
Guided(f, n, G, base, step) ==
    /\ f = [i \in 0 .. n |-> f[i]]
    /\ f[0] = base /\ \A i \in 1 .. n : f[i] = step[i][f[i - 1]]
    /\ \A i \in 0 .. n : f[i] \in G[i]

LEMMA GuidedRecursion ==
    ASSUME NEW n \in Nat, NEW G, NEW base \in G[0], NEW step,
           \A i \in 1 .. n : \A x \in G[i - 1] : step[i][x] \in G[i]
    PROVE  \E f : Guided(f, n, G, base, step)
  <1> DEFINE Upto(k, f) == /\ f = [i \in 0 .. k |-> f[i]]
                           /\ f[0] = base /\ \A i \in 1 .. k : f[i] = step[i][f[i - 1]]
                           /\ \A i \in 0 .. k : f[i] \in G[i]
             S == {k \in Nat : k <= n => \E f : Upto(k, f)}
  <1>1. 0 \in S
    <2>1. Upto(0, [i \in 0 .. 0 |-> base])
      OBVIOUS
    <2>2. QED
      BY <2>1
  <1>2. ASSUME NEW k \in S PROVE k + 1 \in S
    <2>0. k \in Nat /\ k + 1 \in Nat
      BY <1>2
    <2> SUFFICES ASSUME k + 1 <= n PROVE \E f : Upto(k + 1, f)
      <3> HIDE DEF Upto
      <3>1. QED
        BY <2>0
    <2>1. PICK f : Upto(k, f)
      BY <1>2
    <2> DEFINE g == [i \in 0 .. k + 1 |-> IF i = k + 1 THEN step[k + 1][f[k]] ELSE f[i]]
    <2>2. step[k + 1][f[k]] \in G[k + 1]
      <3>1. k + 1 \in 1 .. n /\ (k + 1) - 1 = k /\ f[k] \in G[k]
        BY <2>0, <2>1
      <3>2. QED
        BY <3>1
    <2>3. g = [i \in 0 .. k + 1 |-> g[i]]
      OBVIOUS
    <2>4. ASSUME NEW i \in 1 .. k + 1 PROVE g[i] = step[i][g[i - 1]]
      <3>1. CASE i = k + 1
        BY <3>1, <1>2
      <3>2. CASE i # k + 1
        <4>1. i \in 1 .. k /\ i - 1 \in 0 .. k /\ i - 1 # k + 1
          BY <3>2, <1>2
        <4>2. g[i] = f[i] /\ g[i - 1] = f[i - 1]
          BY <3>2, <4>1, <1>2
        <4>3. QED
          BY <4>1, <4>2, <2>1
      <3>3. QED
        BY <3>1, <3>2
    <2>5. g[0] = base
      BY <2>1, <1>2
    <2>6. \A i \in 0 .. k + 1 : g[i] \in G[i]
      <3>1. \A i \in 0 .. k + 1 : i = k + 1 \/ i \in 0 .. k
        BY <2>0
      <3>2. QED
        BY <2>1, <2>2, <3>1
    <2> HIDE DEF g
    <2>7. Upto(k + 1, g)
      BY <2>3, <2>4, <2>5, <2>6
    <2>8. QED
      BY <2>7
  <1> HIDE DEF S
  <1>3. S \in SUBSET Nat
    BY DEF S
  <1>4. n \in S
    BY <1>1, <1>2, <1>3, SetInduction
  <1>5. \E f : Upto(n, f)
    BY <1>4 DEF S
  <1>6. QED
    BY <1>5 DEF Guided

\* What holds of 0, and of i when it holds of i - 1, holds of all numbers up to n.
LEMMA Induction ==
    ASSUME NEW n \in Nat, NEW S, 0 \in S, \A i \in 1 .. n : i - 1 \in S => i \in S
    PROVE  \A i \in 0 .. n : i \in S
  <1> DEFINE T == {i \in Nat : i <= n => i \in S}
  <1>1. 0 \in T
    OBVIOUS
  <1>2. ASSUME NEW i \in T PROVE i + 1 \in T
    <2>1. i \in Nat
      OBVIOUS
    <2>2. CASE i + 1 <= n
      <3>1. i \in S /\ i + 1 \in 1 .. n /\ (i + 1) - 1 = i
        BY <2>1, <2>2
      <3>2. QED
        BY <3>1, <2>1
    <2>3. CASE ~(i + 1 <= n)
      BY <2>1, <2>3
    <2>4. QED
      BY <2>2, <2>3
  <1> HIDE DEF T
  <1>3. T \in SUBSET Nat
    BY DEF T
  <1>4. \A i \in Nat : i \in T
    BY <1>1, <1>2, <1>3, SetInduction
  <1>5. QED
    BY <1>4 DEF T

-----------------------------------------------------------------------------
(* Ranges.                                                                 *)

LEMMA RangeOf ==
    ASSUME NEW X, NEW s \in Seq(X)
    PROVE  Range(s) = {s[i] : i \in 1 .. Len(s)} /\ Range(s) \subseteq X
  BY DEF Range

LEMMA Appended == \A a, b : Append(<<>>, a) = <<a>> /\ Append(<<a>>, b) = <<a, b>>
  <1> TAKE a, b
  <1> DEFINE S == {a, b}
  <1>1. a \in S /\ b \in S
    OBVIOUS
  <1> HIDE DEF S
  <1>2. <<>> \in Seq(S) /\ <<a>> \in Seq(S) /\ <<a, b>> \in Seq(S)
    BY <1>1
  <1>3. Append(<<>>, a) = <<a>>
    BY <1>1, <1>2
  <1>4. Append(<<a>>, b) = <<a, b>>
    <2> DEFINE x == Append(<<a>>, b)
               y == <<a, b>>
    <2>1. Len(<<a>>) = 1 /\ <<a>>[1] = a
      OBVIOUS
    <2>2. x \in Seq(S) /\ Len(x) = 2 /\ x[1] = a /\ x[2] = b
      BY <1>1, <1>2, <2>1, AppendProperties
    <2>3. y \in Seq(S) /\ Len(y) = 2 /\ y[1] = a /\ y[2] = b
      BY <1>2
    <2> HIDE DEF x, y
    <2>4. \A i \in 1 .. Len(x) : x[i] = y[i]
      <3>1. \A i \in 1 .. 2 : i = 1 \/ i = 2
        OBVIOUS
      <3>2. QED
        BY <2>2, <2>3, <3>1
    <2>5. x = y
      BY <2>2, <2>3, <2>4, SeqEqual
    <2>6. QED
      BY <2>5 DEF x, y
  <1>5. QED
    BY <1>3, <1>4

LEMMA RangeAppend ==
    ASSUME NEW X, NEW s \in Seq(X), NEW x \in X
    PROVE  Range(Append(s, x)) = Range(s) \union {x}
  <1>1. Append(s, x) \in Seq(X) /\ Len(Append(s, x)) = Len(s) + 1 /\ Len(s) \in Nat
    OBVIOUS
  <1>2. \A i \in 1 .. Len(s) : Append(s, x)[i] = s[i]
    OBVIOUS
  <1>3. Append(s, x)[Len(s) + 1] = x
    OBVIOUS
  <1>4. \A i \in 1 .. Len(s) + 1 : i \in 1 .. Len(s) \/ i = Len(s) + 1
    BY <1>1
  <1>5. 1 .. Len(s) \subseteq 1 .. Len(s) + 1 /\ Len(s) + 1 \in 1 .. Len(s) + 1
    BY <1>1
  <1>6. Range(Append(s, x)) = {Append(s, x)[i] : i \in 1 .. Len(s) + 1}
    BY <1>1, RangeOf
  <1>7. Range(s) = {s[i] : i \in 1 .. Len(s)}
    BY RangeOf
  <1>8. Range(Append(s, x)) \subseteq Range(s) \union {x}
    BY <1>2, <1>3, <1>4, <1>6, <1>7
  <1>9. Range(s) \union {x} \subseteq Range(Append(s, x))
    BY <1>2, <1>3, <1>5, <1>6, <1>7
  <1>10. QED
    BY <1>8, <1>9

LEMMA RangeHeadTail ==
    ASSUME NEW X, NEW s \in Seq(X), s # << >>
    PROVE  /\ Head(s) \in X /\ Tail(s) \in Seq(X)
           /\ Range(s) = {Head(s)} \union Range(Tail(s))
  <1>1. Head(s) \in X /\ Tail(s) \in Seq(X) /\ Len(s) \in Nat \ {0}
    OBVIOUS
  <1>2. Len(Tail(s)) = Len(s) - 1 /\ s[1] = Head(s)
    BY HeadTailProperties
  <1>3. \A i \in 1 .. Len(s) - 1 : Tail(s)[i] = s[i + 1]
    BY <1>2, HeadTailProperties
  <1>4. \A i \in 1 .. Len(s) - 1 : i + 1 \in 1 .. Len(s)
    BY <1>1
  <1>5. \A i \in 1 .. Len(s) : i = 1 \/ (i - 1 \in 1 .. Len(s) - 1 /\ (i - 1) + 1 = i)
    BY <1>1
  <1>6. 1 \in 1 .. Len(s)
    BY <1>1
  <1>7. Range(Tail(s)) = {Tail(s)[i] : i \in 1 .. Len(s) - 1}
    BY <1>1, <1>2, RangeOf
  <1>8. Range(s) = {s[i] : i \in 1 .. Len(s)}
    BY RangeOf
  <1>9. Range(Tail(s)) \subseteq Range(s) /\ Head(s) \in Range(s)
    BY <1>2, <1>3, <1>4, <1>6, <1>7, <1>8
  <1>10. Range(s) \subseteq {Head(s)} \union Range(Tail(s))
    <2> SUFFICES ASSUME NEW i \in 1 .. Len(s), i # 1 PROVE s[i] \in Range(Tail(s))
      BY <1>2, <1>8
    <2>1. i - 1 \in 1 .. Len(s) - 1 /\ Tail(s)[i - 1] = s[i]
      BY <1>3, <1>5
    <2>2. QED
      BY <2>1, <1>7
  <1>11. QED
    BY <1>1, <1>9, <1>10

LEMMA RangeEmpty == Range(<< >>) = {}
  BY DEF Range

\* SetToSeq lists the elements of a finite set.
LEMMA SetToSeqLists ==
    ASSUME NEW S, IsFiniteSet(S)
    PROVE  /\ SetToSeq(S) \in Seq(S) /\ Range(SetToSeq(S)) = S
           /\ Len(SetToSeq(S)) = Cardinality(S)
  <1> DEFINE n == Cardinality(S)
             l == SetToSeq(S)
  <1>1. n \in Nat /\ ExistsBijection(1 .. n, S)
    BY FS_CardinalityType
  <1>2. PICK b \in Bijection(1 .. n, S) : TRUE
    BY <1>1 DEF ExistsBijection
  <1>3. b \in [1 .. n -> S] /\ IsInjective(b)
    BY <1>2 DEF Bijection, Injection
  <1>4. l \in [1 .. n -> S] /\ IsInjective(l)
    BY <1>3 DEF SetToSeq
  <1>5. l \in Seq(S)
    BY <1>1, <1>4
  <1>6. IsFiniteSet(1 .. n) /\ Cardinality(1 .. n) = n
    BY <1>1, FS_Interval
  <1>7. l \in Injection(1 .. n, S)
    BY <1>4 DEF Injection
  <1>8. l \in Surjection(1 .. n, S)
    BY <1>6, <1>7, FS_Injection
  <1>9. Range(l) = S
    BY <1>4, <1>8 DEF Surjection, Range
  <1>10. Len(l) = n
    BY <1>1, <1>4
  <1>11. QED
    BY <1>5, <1>9, <1>10

\* It lists each of them once.
LEMMA SetToSeqOnce ==
    ASSUME NEW S, IsFiniteSet(S)
    PROVE  \A i, j \in DOMAIN SetToSeq(S) : SetToSeq(S)[i] = SetToSeq(S)[j] => i = j
  <1>1. PICK b \in Bijection(1 .. Cardinality(S), S) : TRUE
    BY FS_CardinalityType DEF ExistsBijection
  <1>2. b \in [1 .. Cardinality(S) -> S] /\ IsInjective(b)
    BY <1>1 DEF Bijection, Injection
  <1>3. IsInjective(SetToSeq(S))
    BY <1>2 DEF SetToSeq
  <1>4. QED
    BY <1>3 DEF IsInjective

LEMMA RangeReverse ==
    ASSUME NEW X, NEW s \in Seq(X)
    PROVE  Reverse(s) \in Seq(X)
  <1>1. \A i \in 1 .. Len(s) : (Len(s) - i) + 1 \in 1 .. Len(s)
    OBVIOUS
  <1>2. QED
    BY <1>1 DEF Reverse

-----------------------------------------------------------------------------
(* The recursive operators.                                                *)

\* Kept goes through the list.
LEMMA KeptSteps ==
    ASSUME NEW X, NEW s \in Seq(X), NEW S
    PROVE  \E kept : /\ kept[0] = << >> /\ Kept(s, S) = kept[Len(s)]
                    /\ \A i \in 1 .. Len(s) :
                          kept[i] = IF s[i] \in S THEN Append(kept[i - 1], s[i])
                                                  ELSE kept[i - 1]
  <1> DEFINE n == Len(s)
             step == [i \in 1 .. n |-> [q \in Seq(X) |->
                          IF s[i] \in S THEN Append(q, s[i]) ELSE q]]
             Equation(f) == f = [i \in 0 .. Len(s) |->
                IF i = 0 THEN << >>
                ELSE IF s[i] \in S THEN Append(f[i - 1], s[i]) ELSE f[i - 1]]
             kept == CHOOSE f : Equation(f)
  <1>1. n \in Nat /\ << >> \in Seq(X) /\ \A i \in 1 .. n : s[i] \in X
    OBVIOUS
  <1>2. step \in [1 .. n -> [Seq(X) -> Seq(X)]]
    BY <1>1
  <1>3. PICK g \in [0 .. n -> Seq(X)] :
            g[0] = << >> /\ \A i \in 1 .. n : g[i] = step[i][g[i - 1]]
    <2>1. << >> \in Seq(X) /\ step \in Steps(n, Seq(X))
      BY <1>2 DEF Steps
    <2> HIDE DEF n, step
    <2>2. \E f : Solves(f, n, Seq(X), << >>, step)
      BY <1>1, <2>1, Recursion
    <2>3. QED
      BY <2>2 DEF Solves
  <1>4. Equation(g)
    <2>1. \A i \in 1 .. n : i - 1 \in 0 .. n /\ g[i - 1] \in Seq(X)
      <3> SUFFICES ASSUME NEW i \in 1 .. n PROVE i - 1 \in 0 .. n /\ g[i - 1] \in Seq(X)
        OBVIOUS
      <3>1. i - 1 \in 0 .. n
        BY <1>1
      <3>2. QED
        BY <3>1
    <2>2. \A i \in 0 .. n : i # 0 => i \in 1 .. n
      BY <1>1
    <2>3. \A i \in 0 .. n : g[i] = IF i = 0 THEN << >>
                ELSE IF s[i] \in S THEN Append(g[i - 1], s[i]) ELSE g[i - 1]
      BY <1>3, <2>1, <2>2
    <2>4. QED
      BY <2>3
  <1>5. Equation(kept)
    <2> HIDE DEF Equation
    <2>1. QED
      BY <1>4
  <1>6. kept[0] = << >> /\ \A i \in 1 .. n :
            kept[i] = IF s[i] \in S THEN Append(kept[i - 1], s[i]) ELSE kept[i - 1]
    <2> HIDE DEF kept
    <2>1. 0 \in 0 .. n /\ \A i \in 1 .. n : i \in 0 .. n /\ i # 0
      BY <1>1
    <2>2. QED
      BY <1>5, <2>1
  <1>7. Kept(s, S) = kept[n]
    BY DEF Kept
  <1> HIDE DEF kept, Equation
  <1>8. QED
    BY <1>6, <1>7

\* Kept keeps what is in the set.
LEMMA KeptKeeps ==
    ASSUME NEW X, NEW s \in Seq(X), NEW S
    PROVE  Kept(s, S) \in Seq(X) /\ Range(Kept(s, S)) = Range(s) \intersect S
  <1> DEFINE n == Len(s)
             Upto(i) == {s[j] : j \in 1 .. i} \intersect S
  <1>1. n \in Nat /\ << >> \in Seq(X) /\ \A i \in 1 .. n : s[i] \in X
    OBVIOUS
  <1>2. PICK kept : /\ kept[0] = << >> /\ Kept(s, S) = kept[n]
                    /\ \A i \in 1 .. n :
                          kept[i] = IF s[i] \in S THEN Append(kept[i - 1], s[i])
                                                  ELSE kept[i - 1]
    BY KeptSteps
  <1> DEFINE Good == {i \in 0 .. n : kept[i] \in Seq(X) /\ Range(kept[i]) = Upto(i)}
  <1>3. 0 \in Good
    <2>1. Upto(0) = {}
      OBVIOUS
    <2> HIDE DEF Upto
    <2>2. kept[0] \in Seq(X) /\ Range(kept[0]) = Upto(0)
      BY <1>1, <1>2, <2>1, RangeEmpty
    <2>3. QED
      BY <1>1, <2>2
  <1>4. ASSUME NEW i \in 1 .. n, i - 1 \in Good PROVE i \in Good
    <2>1. i \in 0 .. n /\ s[i] \in X /\ i \in 1 .. i
      BY <1>1
    <2>2. kept[i - 1] \in Seq(X) /\ Range(kept[i - 1]) = Upto(i - 1)
      BY <1>4
    <2>3. \A j \in 1 .. i : j \in 1 .. i - 1 \/ j = i
      BY <1>1
    <2>4. \A j \in 1 .. i - 1 : j \in 1 .. i
      BY <1>1
    <2>5. Upto(i) = Upto(i - 1) \union ({s[i]} \intersect S)
      BY <2>1, <2>3, <2>4
    <2> HIDE DEF Upto
    <2>6. CASE s[i] \in S
      <3>1. kept[i] = Append(kept[i - 1], s[i])
        BY <1>2, <2>6
      <3>2. kept[i] \in Seq(X) /\ Range(kept[i]) = Range(kept[i - 1]) \union {s[i]}
        BY <2>1, <2>2, <3>1, RangeAppend
      <3>3. QED
        BY <2>1, <2>2, <2>5, <2>6, <3>2
    <2>7. CASE s[i] \notin S
      <3>1. kept[i] = kept[i - 1]
        BY <1>2, <2>7
      <3>2. QED
        BY <2>1, <2>2, <2>5, <2>7, <3>1
    <2>8. QED
      BY <2>6, <2>7
  <1>5. n \in Good
    <2> HIDE DEF Good
    <2>1. \A i \in 0 .. n : i \in Good
      BY <1>1, <1>3, <1>4, Induction
    <2>2. QED
      BY <1>1, <2>1
  <1>6. Range(s) = {s[j] : j \in 1 .. n}
    BY RangeOf
  <1>7. QED
    BY <1>2, <1>5, <1>6

\* Kept of one element and of two.
LEMMA KeptShort ==
    ASSUME NEW X, NEW a \in X, NEW b \in X, NEW S
    PROVE  /\ Kept(<< >>, S) = << >>
           /\ Kept(<<a>>, S) = IF a \in S THEN <<a>> ELSE << >>
           /\ Kept(<<a, b>>, S) =
                  IF a \in S THEN IF b \in S THEN <<a, b>> ELSE <<a>>
                  ELSE IF b \in S THEN <<b>> ELSE << >>
  <1> DEFINE two == <<a, b>>
             one == <<a>>
             zero == << >>
  <1>1. zero \in Seq(X) /\ Len(zero) = 0
    OBVIOUS
  <1>2. one \in Seq(X) /\ Len(one) = 1 /\ one[1] = a
    OBVIOUS
  <1>3. two \in Seq(X) /\ Len(two) = 2 /\ two[1] = a /\ two[2] = b
    OBVIOUS
  <1>4. Append(<< >>, a) = <<a>> /\ Append(<< >>, b) = <<b>> /\ Append(<<a>>, b) = <<a, b>>
    BY Appended
  <1> HIDE DEF two, one, zero
  <1>5. Kept(zero, S) = << >>
    <2>1. ASSUME NEW s \in Seq(X)
          PROVE  \E kept : kept[0] = << >> /\ Kept(s, S) = kept[Len(s)]
      BY KeptSteps
    <2>2. QED
      BY <1>1, <2>1
  <1>6. Kept(one, S) = IF a \in S THEN <<a>> ELSE << >>
    <2>1. PICK kept :
              /\ kept[0] = << >> /\ Kept(one, S) = kept[Len(one)]
              /\ \A i \in 1 .. Len(one) :
                    kept[i] = IF one[i] \in S THEN Append(kept[i - 1], one[i])
                                              ELSE kept[i - 1]
      BY <1>2, KeptSteps
    <2>2. kept[1] = IF a \in S THEN Append(kept[0], a) ELSE kept[0]
      <3>1. 1 \in 1 .. Len(one) /\ 1 - 1 = 0
        BY <1>2
      <3>2. QED
        BY <1>2, <2>1, <3>1
    <2>3. QED
      BY <1>2, <1>4, <2>1, <2>2
  <1>7. Kept(two, S) =
            IF a \in S THEN IF b \in S THEN <<a, b>> ELSE <<a>>
            ELSE IF b \in S THEN <<b>> ELSE << >>
    <2>1. PICK kept :
              /\ kept[0] = << >> /\ Kept(two, S) = kept[Len(two)]
              /\ \A i \in 1 .. Len(two) :
                    kept[i] = IF two[i] \in S THEN Append(kept[i - 1], two[i])
                                              ELSE kept[i - 1]
      BY <1>3, KeptSteps
    <2>2. 1 \in 1 .. Len(two) /\ 1 - 1 = 0 /\ 2 \in 1 .. Len(two) /\ 2 - 1 = 1
      BY <1>3
    <2>3. kept[1] = IF a \in S THEN Append(kept[0], a) ELSE kept[0]
      BY <1>3, <2>1, <2>2
    <2>4. kept[2] = IF b \in S THEN Append(kept[1], b) ELSE kept[1]
      BY <1>3, <2>1, <2>2
    <2>5. Kept(two, S) = kept[2] /\ kept[0] = << >>
      BY <1>3, <2>1
    <2>6. CASE a \in S
      BY <1>4, <2>3, <2>4, <2>5, <2>6
    <2>7. CASE a \notin S
      BY <1>4, <2>3, <2>4, <2>5, <2>7
    <2>8. QED
      BY <2>6, <2>7
  <1>8. QED
    BY <1>5, <1>6, <1>7 DEF zero, one, two

\* FlattenSeq makes one list of lists.
LEMMA FlattenSeqType ==
    ASSUME NEW X, NEW s \in Seq(Seq(X))
    PROVE  FlattenSeq(s) \in Seq(X)
  <1> DEFINE n == Len(s)
             step == [i \in 1 .. n |-> [q \in Seq(X) |-> IF i = 1 THEN s[i] ELSE q \o s[i]]]
             Equation(f) == f = [i \in 1 .. Len(s) |->
                                    IF i = 1 THEN s[i] ELSE f[i - 1] \o s[i]]
             flatten == CHOOSE f : Equation(f)
  <1>1. n \in Nat /\ << >> \in Seq(X) /\ \A i \in 1 .. n : s[i] \in Seq(X)
    OBVIOUS
  <1>2. PICK g : Solves(g, n, Seq(X), << >>, step)
    <2>1. step \in Steps(n, Seq(X))
      BY <1>1 DEF Steps
    <2> HIDE DEF n, step
    <2>2. QED
      BY <1>1, <2>1, Recursion
  <1>3. Equation([i \in 1 .. n |-> g[i]])
    <2> DEFINE h == [i \in 1 .. n |-> g[i]]
    <2>1. \A i \in 1 .. n : g[i] = (IF i = 1 THEN s[i] ELSE g[i - 1] \o s[i])
      <3>1. \A i \in 1 .. n : g[i] = step[i][g[i - 1]]
        <4> HIDE DEF n, step
        <4>1. QED
          BY <1>2 DEF Solves
      <3>2. \A i \in 1 .. n : g[i - 1] \in Seq(X)
        <4> HIDE DEF step
        <4>1. QED
          BY <1>1, <1>2 DEF Solves
      <3>3. QED
        BY <3>1, <3>2
    <2>2. \A i \in 1 .. n : h[i] = g[i] /\ (i # 1 => h[i - 1] = g[i - 1])
      BY <1>1
    <2>3. \A i \in 1 .. n : h[i] = IF i = 1 THEN s[i] ELSE h[i - 1] \o s[i]
      <3> HIDE DEF h
      <3>1. QED
        BY <2>1, <2>2
    <2>4. QED
      BY <2>3
  <1>4. Equation(flatten)
    <2> HIDE DEF Equation
    <2>1. QED
      BY <1>3
  <1>5. \A i \in 1 .. n : flatten[i] = IF i = 1 THEN s[i] ELSE flatten[i - 1] \o s[i]
    <2> HIDE DEF flatten
    <2>1. QED
      BY <1>4
  <1> HIDE DEF flatten, Equation
  <1> DEFINE Good == {i \in 0 .. n : i # 0 => flatten[i] \in Seq(X)}
  <1>6. 0 \in Good
    BY <1>1
  <1>7. ASSUME NEW i \in 1 .. n, i - 1 \in Good PROVE i \in Good
    <2>1. i \in 0 .. n /\ s[i] \in Seq(X) /\ (i # 1 => i - 1 # 0)
      BY <1>1
    <2>2. flatten[i] = IF i = 1 THEN s[i] ELSE flatten[i - 1] \o s[i]
      BY <1>5
    <2>3. i # 1 => flatten[i - 1] \in Seq(X)
      BY <1>7, <2>1
    <2>4. flatten[i] \in Seq(X)
      BY <2>1, <2>2, <2>3
    <2>5. QED
      BY <2>1, <2>4
  <1>8. n \in Good
    <2> HIDE DEF Good
    <2>1. \A i \in 0 .. n : i \in Good
      BY <1>1, <1>6, <1>7, Induction
    <2>2. QED
      BY <1>1, <2>1
  <1>9. CASE n = 0
    <2>1. FlattenSeq(s) = << >>
      BY <1>9 DEF FlattenSeq
    <2>2. QED
      BY <2>1
  <1>10. CASE n # 0
    <2>1. FlattenSeq(s) = flatten[n]
      BY <1>10 DEF FlattenSeq, flatten, Equation
    <2>2. QED
      BY <1>8, <1>10, <2>1
  <1>11. QED
    BY <1>9, <1>10

\* A list without its i-th element, and the place in the list of what is left.
LEMMA RemoveAtIs ==
    ASSUME NEW S, NEW l \in Seq(S), NEW i \in 1 .. Len(l), NEW g, g = RemoveAt(l, i)
    PROVE  /\ g \in Seq(S) /\ Len(g) = Len(l) - 1
           /\ \A j \in 1 .. Len(g) : g[j] = IF j < i THEN l[j] ELSE l[j + 1]
  <1> DEFINE n == Len(l)
             head == SubSeq(l, 1, i - 1)
             tail == SubSeq(l, i + 1, n)
  <1>1. n \in Nat /\ i \in 1 .. n
    OBVIOUS
  <1>2. /\ head \in Seq(S) /\ Len(head) = i - 1
        /\ \A j \in 1 .. i - 1 : head[j] = l[j]
    OBVIOUS
  <1>3. /\ tail \in Seq(S) /\ Len(tail) = n - i
        /\ \A j \in 1 .. n - i : tail[j] = l[(i + 1) + j - 1]
    OBVIOUS
  <1>4. g = head \o tail
    BY SMTT(30) DEF RemoveAt
  <1> HIDE DEF head, tail
  <1>5. g \in Seq(S) /\ Len(g) = n - 1
    <2>1. ASSUME NEW x \in Seq(S), NEW y \in Seq(S)
          PROVE  Len(x \o y) = Len(x) + Len(y) /\ x \o y \in Seq(S)
      OBVIOUS
    <2>2. Len(g) = Len(head) + Len(tail) /\ g \in Seq(S)
      BY <1>2, <1>3, <1>4, <2>1
    <2>3. Len(g) = (i - 1) + (n - i)
      BY <1>2, <1>3, <2>2
    <2>4. (i - 1) + (n - i) = n - 1
      BY <1>1
    <2>5. QED
      BY <2>2, <2>3, <2>4
  <1>6. ASSUME NEW j \in 1 .. n - 1 PROVE g[j] = IF j < i THEN l[j] ELSE l[j + 1]
    <2>1. CASE j < i
      <3>1. j \in 1 .. i - 1 /\ j \in 1 .. Len(head)
        BY <1>1, <1>2, <2>1
      <3>2. g[j] = head[j]
        BY <1>2, <1>3, <1>4, <3>1
      <3>3. QED
        BY <1>2, <2>1, <3>1, <3>2
    <2>2. CASE ~(j < i)
      <3>1. /\ j - (i - 1) \in 1 .. n - i /\ ~(j <= Len(head))
            /\ j \in 1 .. Len(head) + Len(tail)
            /\ (i + 1) + (j - (i - 1)) - 1 = j + 1
        BY <1>1, <1>2, <1>3, <2>2
      <3>2. g[j] = tail[j - (i - 1)]
        BY <1>2, <1>3, <1>4, <3>1
      <3>3. QED
        BY <1>3, <2>2, <3>1, <3>2
    <2>3. QED
      BY <2>1, <2>2
  <1>7. QED
    BY <1>5, <1>6

PlaceOf(i, j) == IF j < i THEN j ELSE j + 1

LEMMA RemoveAtPlaces ==
    ASSUME NEW S, NEW l \in Seq(S), NEW i \in 1 .. Len(l), NEW g, g = RemoveAt(l, i)
    PROVE  /\ g \in Seq(S) /\ Len(l) \in Nat
           /\ \A j \in 1 .. Len(g) :
                 /\ j \in Nat /\ PlaceOf(i, j) \in 1 .. Len(l) /\ PlaceOf(i, j) # i
                 /\ g[j] = l[PlaceOf(i, j)]
                 /\ \A k \in 1 .. Len(g) : PlaceOf(i, j) = PlaceOf(i, k) => j = k
                 /\ \A k \in 1 .. Len(g) : PlaceOf(i, j) < PlaceOf(i, k) => j < k
           /\ \A k \in 1 .. Len(l) : k # i => \E j \in 1 .. Len(g) : PlaceOf(i, j) = k
  <1>1. /\ g \in Seq(S) /\ Len(g) = Len(l) - 1
        /\ \A j \in 1 .. Len(g) : g[j] = IF j < i THEN l[j] ELSE l[j + 1]
    BY RemoveAtIs
  <1>2. Len(l) \in Nat /\ i \in 1 .. Len(l)
    OBVIOUS
  <1>3. \A j \in 1 .. Len(g) :
            /\ j \in Nat /\ PlaceOf(i, j) \in 1 .. Len(l) /\ PlaceOf(i, j) # i
            /\ g[j] = l[PlaceOf(i, j)]
            /\ \A k \in 1 .. Len(g) : PlaceOf(i, j) = PlaceOf(i, k) => j = k
            /\ \A k \in 1 .. Len(g) : PlaceOf(i, j) < PlaceOf(i, k) => j < k
    BY <1>1, <1>2 DEF PlaceOf
  <1>4. \A k \in 1 .. Len(l) : k # i => \E j \in 1 .. Len(g) : PlaceOf(i, j) = k
    <2> TAKE k \in 1 .. Len(l)
    <2> HAVE k # i
    <2>1. CASE k < i
      <3>1. k \in 1 .. Len(g) /\ PlaceOf(i, k) = k
        BY <1>1, <1>2, <2>1 DEF PlaceOf
      <3>2. QED
        BY <3>1
    <2>2. CASE k > i
      <3>1. k - 1 \in 1 .. Len(g) /\ PlaceOf(i, k - 1) = k
        BY <1>1, <1>2, <2>2 DEF PlaceOf
      <3>2. QED
        BY <3>1
    <2>3. QED
      BY <1>2, <2>1, <2>2
  <1>5. QED
    BY <1>1, <1>2, <1>3, <1>4

\* Lists of one and of two.
LEMMA Pairs ==
    ASSUME NEW S, NEW a \in S, NEW x \in S
    PROVE  /\ \A s \in Seq(S) : s # << >> /\ Tail(s) = << >> => s = <<Head(s)>>
           /\ <<a>> \o <<x>> # << >> /\ Head(<<a>> \o <<x>>) = a
           /\ Tail(<<a>> \o <<x>>) = <<x>>
  <1>1. ASSUME NEW s \in Seq(S), s # << >>, Tail(s) = << >>
        PROVE  s = <<Head(s)>>
    <2> DEFINE y == <<Head(s)>>
    <2>1. Len(Tail(s)) = Len(s) - 1 /\ s[1] = Head(s) /\ Head(s) \in S /\ Len(s) \in Nat
      BY <1>1, HeadTailProperties
    <2>2. Len(s) = 1
      <3> DEFINE t == Tail(s)
      <3>1. t = << >>
        BY <1>1
      <3>2. Len(t) = Len(s) - 1
        BY <2>1
      <3> HIDE DEF t
      <3>3. Len(t) = 0
        BY <3>1
      <3>4. QED
        BY <2>1, <3>2, <3>3
    <2>3. y \in Seq(S) /\ Len(y) = 1 /\ y[1] = Head(s)
      BY <2>1
    <2> HIDE DEF y
    <2>4. \A i \in 1 .. Len(s) : s[i] = y[i]
      BY <2>1, <2>2, <2>3
    <2>5. s = y
      BY <2>2, <2>3, <2>4, SeqEqual
    <2>6. QED
      BY <2>5 DEF y
  <1> DEFINE f == <<a>>
             g == <<x>>
             h == f \o g
  <1>2. f \in Seq(S) /\ Len(f) = 1 /\ f[1] = a /\ g \in Seq(S) /\ Len(g) = 1 /\ g[1] = x
    OBVIOUS
  <1> HIDE DEF f, g
  <1>3. h \in Seq(S) /\ Len(h) = 2 /\ h[1] = a /\ h[2] = x
    <2>1. h \in Seq(S) /\ Len(h) = Len(f) + Len(g)
      BY <1>2, ConcatProperties
    <2>2. \A i \in 1 .. Len(f) + Len(g) : h[i] = IF i <= Len(f) THEN f[i] ELSE g[i - Len(f)]
      BY <1>2, ConcatProperties
    <2>3. 1 \in 1 .. Len(f) + Len(g) /\ 2 \in 1 .. Len(f) + Len(g) /\ 2 - Len(f) = 1
          /\ 1 <= Len(f) /\ ~(2 <= Len(f))
      BY <1>2
    <2>4. QED
      BY <1>2, <2>1, <2>2, <2>3
  <1> HIDE DEF h
  <1>4. h # << >> /\ Head(h) = a /\ Tail(h) \in Seq(S) /\ Len(Tail(h)) = 1 /\ Tail(h)[1] = x
    BY SMTT(30), <1>3
  <1>5. Tail(h) = g
    <2>1. \A i \in 1 .. 1 : i = 1
      OBVIOUS
    <2>2. QED
      BY <1>2, <1>4, <2>1, SeqEqual
  <1>6. QED
    BY <1>1, <1>4, <1>5 DEF f, g, h

LEMMA AsList ==
    ASSUME NEW S, NEW n \in Nat, NEW f \in [1 .. n -> S]
    PROVE  f \in Seq(S) /\ Len(f) = n
  OBVIOUS

LEMMA ShortLists ==
    ASSUME NEW S, NEW f
    PROVE  /\ f \in [1 .. 1 -> S] => f = <<f[1]>>
           /\ f \in [1 .. 2 -> S] => f = <<f[1], f[2]>>
  <1>1. ASSUME f \in [1 .. 1 -> S] PROVE f = <<f[1]>>
    <2> DEFINE y == <<f[1]>>
    <2>0. f[1] \in S
      BY <1>1
    <2>1. f \in Seq(S) /\ Len(f) = 1
      BY <1>1, AsList
    <2>5. y \in Seq(S) /\ Len(y) = 1 /\ y[1] = f[1]
      BY <2>0
    <2> HIDE DEF y
    <2>2. \A i \in 1 .. 1 : f[i] = y[i]
      BY <2>5
    <2>3. f = y
      BY <2>1, <2>2, <2>5, SeqEqual
    <2>4. QED
      BY <2>3 DEF y
  <1>2. ASSUME f \in [1 .. 2 -> S] PROVE f = <<f[1], f[2]>>
    <2> DEFINE y == <<f[1], f[2]>>
    <2>0. f[1] \in S /\ f[2] \in S
      BY <1>2
    <2>1. f \in Seq(S) /\ Len(f) = 2
      BY <1>2, AsList
    <2>5. y \in Seq(S) /\ Len(y) = 2 /\ y[1] = f[1] /\ y[2] = f[2]
      BY <2>0
    <2> HIDE DEF y
    <2>2. \A i \in 1 .. 2 : f[i] = y[i]
      <3>1. \A i \in 1 .. 2 : i = 1 \/ i = 2
        OBVIOUS
      <3>2. QED
        BY <2>5, <3>1
    <2>3. f = y
      BY <2>1, <2>2, <2>5, SeqEqual
    <2>4. QED
      BY <2>3 DEF y
  <1>3. QED
    BY <1>1, <1>2

\* Two lists, one after the other.
LEMMA ConcatIs ==
    ASSUME NEW S, NEW l \in Seq(S), NEW f \in Seq(S), NEW g, g = l \o f
    PROVE  /\ Len(l) \in Nat /\ Len(f) \in Nat /\ Len(g) = Len(l) + Len(f) /\ g \in Seq(S)
           /\ \A i \in 1 .. Len(l) : i \in 1 .. Len(g) /\ g[i] = l[i]
           /\ \A i \in 1 .. Len(f) : Len(l) + i \in 1 .. Len(g) /\ g[Len(l) + i] = f[i]
           /\ \A i \in 1 .. Len(g) :
                 \/ i \in 1 .. Len(l) /\ g[i] = l[i]
                 \/ i - Len(l) \in 1 .. Len(f) /\ g[i] = f[i - Len(l)] /\ i > Len(l)
  <1>1. Len(l) \in Nat /\ Len(f) \in Nat /\ Len(g) = Len(l) + Len(f) /\ g \in Seq(S)
    OBVIOUS
  <1>2. \A i \in 1 .. Len(l) : i \in 1 .. Len(g) /\ g[i] = l[i]
    OBVIOUS
  <1>3. \A i \in 1 .. Len(f) : Len(l) + i \in 1 .. Len(g) /\ g[Len(l) + i] = f[i]
    OBVIOUS
  <1>4. \A i \in 1 .. Len(g) :
            \/ i \in 1 .. Len(l) /\ g[i] = l[i]
            \/ i - Len(l) \in 1 .. Len(f) /\ g[i] = f[i - Len(l)] /\ i > Len(l)
    OBVIOUS
  <1>5. QED
    BY <1>1, <1>2, <1>3, <1>4

\* What is in a list, and in one with more at its end.
Says(l, word) == \E i \in 1 .. Len(l) : l[i] = word

LEMMA MoreSaid ==
    ASSUME NEW S, NEW l \in Seq(S), NEW said \in S, NEW m, m = Append(l, said), NEW word
    PROVE  Says(m, word) <=> Says(l, word) \/ said = word
  <1>1. /\ Len(m) = Len(l) + 1 /\ Len(l) \in Nat /\ m[Len(l) + 1] = said
        /\ \A i \in 1 .. Len(l) : m[i] = l[i]
    OBVIOUS
  <1>2. ASSUME Says(l, word) PROVE Says(m, word)
    <2>1. PICK i \in 1 .. Len(l) : l[i] = word
      BY <1>2 DEF Says
    <2>2. i \in 1 .. Len(m) /\ m[i] = word
      BY <1>1, <2>1
    <2>3. QED
      BY <2>2 DEF Says
  <1>3. ASSUME Says(m, word), said # word PROVE Says(l, word)
    <2>1. PICK i \in 1 .. Len(m) : m[i] = word
      BY <1>3 DEF Says
    <2>2. i \in 1 .. Len(l)
      BY <1>1, <1>3, <2>1
    <2>3. QED
      BY <1>1, <2>1, <2>2 DEF Says
  <1>4. ASSUME said = word PROVE Says(m, word)
    BY <1>1, <1>4 DEF Says
  <1>5. QED
    BY <1>2, <1>3, <1>4
=============================================================================
