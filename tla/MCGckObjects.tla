---------------------------- MODULE MCGckObjects ----------------------------
(***************************************************************************)
(* Instances of GckObjects for TLC: an enumerator over two slots, chained  *)
(* to that of a session on a third.                                        *)
(***************************************************************************)
EXTENDS GckObjects, TLC

CONSTANTS o1, o2, o3, s1, s2, s3, m1, e1, e2

MCAt == (o1 :> s1) @@ (o2 :> s2) @@ (o3 :> s3)
MCModules == <<m1>>
MCSlotsOf == m1 :> <<s1, s2>>
MCChained == (e1 :> e2) @@ (e2 :> None)
MCOfSession == (e1 :> None) @@ (e2 :> s3)
=============================================================================
