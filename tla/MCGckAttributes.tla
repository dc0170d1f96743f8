-------------------------- MODULE MCGckAttributes --------------------------
(***************************************************************************)
(* Instances of GckAttributes for TLC.                                     *)
(***************************************************************************)
EXTENDS GckAttributes

\* Something short, something longer, and a secret.
MCBytes == {<<1>>, <<1, 2>>, <<7>>}

Same == Permutations(Thread) \union Permutations(Bundle)
=============================================================================
