------------------------- MODULE MCGcrCertificateChain -------------------------
(***************************************************************************)
(* An instance of GcrCertificateChain for TLC: an end entity, the issuer   *)
(* of its issuer twice, once self signed and once signed by the other, and *)
(* two tokens of one registered module.                                    *)
(***************************************************************************)
EXTENDS GcrCertificateChain, TLC

CONSTANTS a, b, r, x, s1, s2, m1, m2, p1

MCSubject == (a :> "A") @@ (b :> "B") @@ (r :> "R") @@ (x :> "R")
MCIssuer == (a :> "B") @@ (b :> "R") @@ (r :> "R") @@ (x :> "B")
MCSlotsOf == (m1 :> <<s1, s2>>) @@ (m2 :> << >>)
MCRegistered == <<m1>>
MCStoreOption == (m1 :> {s2}) @@ (m2 :> None)
MCOtherUri == {{s1}}
MCLookupOption == (m1 :> {s1, s2}) @@ (m2 :> None)

Pin(n, s) == Assertion(n, a, p1, s)
Anchor(n, c, s) == Assertion(n, c, None, s)

MCInit ==
    /\ \E scene \in {[there |-> {Pin(1, s1), Pin(2, s2)}, stored |-> {b, x}, given |-> <<a>>],
                     [there |-> {}, stored |-> {b, x}, given |-> <<a, r, b>>],
                     [there |-> {Anchor(1, r, s1)}, stored |-> {r}, given |-> <<a, x, b>>],
                     [there |-> {}, stored |-> {}, given |-> <<a, x, b>>]} :
          /\ asserts = scene.there /\ born = Cardinality(scene.there)
          /\ stored = scene.stored
          /\ chain = [certs |-> scene.given, status |-> "UNKNOWN"]
    /\ Init

FairSpec == MCInit /\ [][Next]_chainVars /\ Fairness
=============================================================================
