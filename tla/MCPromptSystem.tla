--------------------------- MODULE MCPromptSystem ---------------------------
(***************************************************************************)
(* Instances of PromptSystem for TLC: the caller of c1, and c2 as another. *)
(***************************************************************************)
EXTENDS PromptSystem

CONSTANTS c1, c2, n1, n2

MCCallback == {c1, c2}
MCOwner == (c1 :> n1) @@ (c2 :> n2)

\* The caller has the prompter for itself.
MCAlone == {c1}
MCAloneOwner == c1 :> n1

PromptSymmetry == Permutations(Prompt)
=============================================================================
