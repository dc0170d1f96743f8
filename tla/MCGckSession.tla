---------------------------- MODULE MCGckSession ----------------------------
(***************************************************************************)
(* Instances of GckSession for TLC.                                        *)
(***************************************************************************)
EXTENDS GckSession, TLC

CONSTANTS s1, h1

MCRawHandle == s1 :> h1

\* What C_ functions, or gck in their place, return.
MCRv == {"OK", "CANCELED", "FAILED", "NOT_LOGGED_IN", "ALREADY", "INCORRECT", "LOCKED",
         "ACTIVE"}
=============================================================================
