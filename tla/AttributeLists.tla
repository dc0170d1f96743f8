--------------------------- MODULE AttributeLists ---------------------------
(***************************************************************************)
(* What gck/gck-attributes.c promises: builders are lists of attributes    *)
(* that are being put together, and bundles are lists that never change    *)
(* until they are gone.  The lists hold their values themselves: there is  *)
(* no memory here to be shared.  An action relates the lists before it, o, *)
(* and after it, n.                                                        *)
(***************************************************************************)
EXTENDS Integers, Sequences, SequencesExt, Lists

CONSTANTS Builder, Bundle, Type, Content

VARIABLES
    lists,  \* the list of every builder, and of every bundle that exists
    busy    \* the builders that are being filled in from a token

Attribute == [type : Type, value : Content]

Others(o, n, P) ==
    /\ DOMAIN o \ P = DOMAIN n \ P
    /\ \A p \in DOMAIN o \ P : n[p] = o[p]

\* The attributes of l whose type is in T, in their order.
Part(l, T) == Kept(l, {a \in ToSet(l) : a.type \in T})

\* l with the first attribute of the type of a replaced, or with one more.
Set(l, a) ==
    LET Same == {i \in DOMAIN l : l[i].type = a.type}
    IN  IF Same = {} THEN Append(l, a)
        ELSE [l EXCEPT ![CHOOSE i \in Same : \A j \in Same : i <= j] = a]

Init == lists = [b \in Builder |-> << >>] /\ busy = {}

\* An attribute is added to a builder, or set in it; or those of a bundle are.
Put(o, n) ==
    \E b \in Builder :
        /\ Others(o, n, {b})
        /\ \/ \E a \in Attribute : n[b] \in {Append(o[b], a), Set(o[b], a)}
           \/ \E from \in DOMAIN o \ Builder :
                 \/ \E T \in SUBSET Type : n[b] = o[b] \o Part(o[from], T)
                 \/ n[b] = LET all[i \in 0 .. Len(o[from])] ==
                                  IF i = 0 THEN o[b] ELSE Set(all[i - 1], o[from][i])
                           IN  all[Len(o[from])]

\* A builder is emptied, or made a copy of another.
Reset(o, n) ==
    \E b \in Builder :
        /\ Others(o, n, {b})
        /\ n[b] = << >> \/ \E c \in Builder : n[b] = o[c]

\* The values of a builder are being read.
Read(o, n) ==
    \E b \in busy' :
        /\ Others(o, n, {b})
        /\ DOMAIN n[b] = DOMAIN o[b]
        /\ \A i \in DOMAIN n[b] : n[b][i].type = o[b][i].type

\* A bundle of one attribute, new or that of another list.
Make(o, n) ==
    \E s \in Bundle \ DOMAIN o :
        Others(o, n, {s}) /\ s \in DOMAIN n /\ Len(n[s]) = 1

\* A bundle takes the list of a builder.
End(o, n) ==
    \E b \in Builder, s \in Bundle \ DOMAIN o :
        /\ Others(o, n, {b, s}) /\ s \in DOMAIN n
        /\ n[s] = o[b] /\ n[b] = << >>

Release(o, n) == \E s \in Bundle : s \notin DOMAIN n /\ Others(o, n, {s})

Next ==
    LET o == lists
        n == lists'
    IN  \/ Put(o, n) \/ Reset(o, n) \/ Read(o, n)
        \/ Make(o, n) \/ End(o, n) \/ Release(o, n)

Spec == Init /\ [][Next]_<<lists, busy>>
=============================================================================
