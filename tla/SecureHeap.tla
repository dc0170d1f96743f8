----------------------------- MODULE SecureHeap -----------------------------
(***************************************************************************)
(* What egg/egg-secure-memory.h promises: memory that is nobody else's     *)
(* until it is freed, zeroed when it is allocated, and kept when it is     *)
(* made larger or smaller.  An action relates what all the pointers that   *)
(* were returned point to before it, o, and after it, n.                   *)
(***************************************************************************)
EXTENDS Integers, Sequences

CONSTANTS Length, Zero, Data

VARIABLE objects

Zeros(s, from) == Len(s) \in Length /\ \A i \in from .. Len(s) : s[i] = Zero
Extends(s, t) == \A i \in DOMAIN s \intersect DOMAIN t : s[i] = t[i]

\* All pointers but those in P point to the same before and after.
Others(o, n, P) ==
    /\ DOMAIN o \ P = DOMAIN n \ P
    /\ \A p \in DOMAIN o \ P : n[p] = o[p]

Init == objects = << >>

Alloc(o, n) == \E p \in DOMAIN n \ DOMAIN o : Others(o, n, {p}) /\ Zeros(n[p], 1)

Free(o, n) == \E p \in DOMAIN o \ DOMAIN n : Others(o, n, {p})

\* The object is made larger or smaller, and may move.  The bytes that it had are
\* kept; what is new need not be zero.
Resize(o, n) ==
    \E p \in DOMAIN o : \E q \in (DOMAIN n \ DOMAIN o) \union {p} :
        /\ Others(o, n, {p, q}) /\ DOMAIN n \intersect {p, q} = {q}
        /\ Len(n[q]) \in Length /\ Extends(o[p], n[q])

\* A larger copy of p.
Copy(o, n) ==
    \E p \in DOMAIN o, q \in DOMAIN n \ DOMAIN o :
        /\ Others(o, n, {q})
        /\ Len(n[q]) > Len(o[p]) /\ Extends(o[p], n[q]) /\ Zeros(n[q], Len(o[p]) + 1)

Write(o, n) ==
    \E p \in DOMAIN o :
        /\ Others(o, n, {p})
        /\ p \in DOMAIN n /\ n[p] = [i \in DOMAIN o[p] |-> Data]

Next ==
    LET o == objects
        n == objects'
    IN  Alloc(o, n) \/ Free(o, n) \/ Resize(o, n) \/ Copy(o, n) \/ Write(o, n)

Spec == Init /\ [][Next]_objects
=============================================================================
