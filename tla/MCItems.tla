------------------------------- MODULE MCItems -------------------------------
(***************************************************************************)
(* The items and the slots of the instances of GcrImporting.               *)
(***************************************************************************)
EXTENDS TLC

CONSTANTS c1, c2, k1, k2, rq, pg, fpr, s1, s2, s3

Classes == c1 :> "certificate" @@ c2 :> "certificate" @@ k1 :> "key" @@ k2 :> "key"
           @@ rq :> "other" @@ pg :> "records"
\* Two certificates of one key.
Pairs == [i \in {c1, c2, k1} |-> fpr] @@ [i \in {k2, rq, pg} |-> "none"]

Slots == <<s1, s2, s3>>
FlagsOf == s1 :> {"initialized"}
           @@ s2 :> {"initialized", "login required", "pin initialized"}
           @@ s3 :> {"initialized", "login required"}
=============================================================================
