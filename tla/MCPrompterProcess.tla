------------------------- MODULE MCPrompterProcess -------------------------
(***************************************************************************)
(* Instances of PrompterProcess for TLC: two callbacks of one caller, who  *)
(* can vanish with both, and one of another.                               *)
(***************************************************************************)
EXTENDS PrompterProcess, TLC

CONSTANTS c1, c2, c3, n1, n2

MCOwner == (c1 :> n1) @@ (c2 :> n1) @@ (c3 :> n2)

PromptSymmetry == Permutations(Prompt)
=============================================================================
