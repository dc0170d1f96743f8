------------------------------- MODULE Lists -------------------------------
(***************************************************************************)
(* The selection from a list that the code makes in loops of its own.  It  *)
(* is SelectSeq with a set for the test, and is defined by a function over *)
(* the indices so that ListLemmas can say what it does.                    *)
(***************************************************************************)
EXTENDS Integers, Sequences

\* Those elements of a list that are in a set, in the order of the list.
Kept(list, set) ==
    LET kept[i \in 0 .. Len(list)] ==
            IF i = 0 THEN << >>
            ELSE IF list[i] \in set THEN Append(kept[i - 1], list[i]) ELSE kept[i - 1]
    IN  kept[Len(list)]
=============================================================================
