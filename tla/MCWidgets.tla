----------------------------- MODULE MCWidgets -----------------------------
(***************************************************************************)
(* Three widgets, instantiated for TLC: the tree model over collections,   *)
(* the viewer of files and the import button; and the collection of GnuPG  *)
(* keys with the importer into GnuPG, that they work on.  They share       *)
(* nothing here, so that each behaviour is of one of them, and the others  *)
(* stay as they are at first.                                              *)
(***************************************************************************)
EXTENDS GcrCollectionModel, GcrImporting, TLC

CONSTANTS
    x, y, c,                                        \* objects of collections
    f1, f2, File, Sound, Damaged, Formats, Password, MaxClicks,
    c1, c2, k1, k2, rq, pg, fpr, s1, s2, s3,         \* items, slots
    p1, p2, Key, Packet, Photo, Keyrings, Jobs, ReadBlock, PipeSize, MaxRuns,
    Troubles

VARIABLES
    part,       \* what is at work
    content, formats, state, passwords, display_name, explicit, renderers, clicks,
    proc, at, revents, pipe, child, stopped, failures, job, keyring, keys, load,
    packets, imported, due, queued, listed, outcome, budget

Viewer == INSTANCE GcrViewer
Parser == INSTANCE GcrParser
Given == INSTANCE MCItems
Gnupg == INSTANCE GcrGnupg WITH
            items <- keys, faults <- failures, result <- outcome, Block <- ReadBlock

ASSUME GnupgAssumption == Gnupg!PipesAssumption

viewerVars == <<content, formats, state, passwords, display_name, explicit,
                renderers, clicks>>
gnupgVars == <<proc, at, revents, pipe, child, stopped, failures, job, keyring, keys,
               load, packets, imported, due, queued, listed, outcome, budget>>
widgetVars == <<part, modelVars, viewerVars, importingVars, gnupgVars>>

-----------------------------------------------------------------------------
(* Two collections in a union, one of which holds a single object, and an  *)
(* object that is a collection.                                            *)

MCRank == (x :> 1) @@ (y :> 2) @@ (c :> 3)
MCSorts ==
    {[column |-> "none", reverse |-> FALSE], [column |-> "none", reverse |-> TRUE],
     [column |-> "label", reverse |-> TRUE], [column |-> "default", reverse |-> FALSE]}
MCLabel == (x :> 2) @@ (y :> 2) @@ (c :> 1)

-----------------------------------------------------------------------------
(* Files with contents of every kind the parser knows.                     *)

Junk == Parser!Junk
Rsa(id) == [k |-> "rsa", state |-> "good", id |-> id]
Cert(id, name) == [k |-> "cert", name |-> name, id |-> id]
Pkcs8(key) == [k |-> "pkcs8", alg |-> "rsa", params |-> FALSE, inner |-> key]
Encrypted8(key, password) ==
    [k |-> "enc8", scheme |-> TRUE, password |-> password, inner |-> Pkcs8(key)]
Bag(type, name, value) == [type |-> type, label |-> name, value |-> value]
Bags(bags) == [k |-> "bags", bags |-> bags]
Plain(bags) == [type |-> "data", password |-> None, inner |-> Bags(bags)]
Hidden(bags, password) ==
    [type |-> "encrypted", password |-> password, inner |-> Bags(bags)]
Pkcs12(mac, safe) == [k |-> "pkcs12", mac |-> mac, safe |-> safe]
Block(type, inner) ==
    [type |-> type, password |-> None, dek |-> "missing", inner |-> inner]
HiddenBlock(type, password, inner) ==
    [type |-> type, password |-> password, dek |-> "known", inner |-> inner]
Pem(blocks) == [k |-> "pem", blocks |-> blocks]

KeyBag(password) == Bag("shrouded", "friend", Encrypted8(Rsa("key"), password))
CertBag == Bag("cert", None, Cert("leaf", "name"))

Several ==
    { Pem(<<Block("certificate", Cert("c1", "one")),
            HiddenBlock("rsa", "a", Rsa("k1")),
            Block("encrypted", Encrypted8(Rsa("k2"), "b")),
            Block("certificate", Cert("c2", None))>>),
      Pkcs12("a", <<Hidden(<<CertBag, Bag("crl", None, Junk)>>, "a"), Plain(<<KeyBag("a")>>)>>),
      Pkcs12("a", <<Plain(<<CertBag>>), Hidden(<<KeyBag("b")>>, "a")>>),
      Pkcs12(None, <<Plain(<<KeyBag("b"), CertBag>>)>>),
      Pkcs12("", <<Plain(<<Bag("key", "friend", Pkcs8(Rsa("key")))>>),
                   Hidden(<<CertBag>>, "")>>),
      [k |-> "pkcs8", alg |-> "dsa", params |-> TRUE,
       inner |-> [k |-> "dsapart", state |-> "good", id |-> "k3"]],
      [k |-> "pkcs7", signed |-> TRUE, certs |-> <<Cert("c3", None), Cert("c4", "four")>>],
      [k |-> "spki", alg |-> "rsa", state |-> "good", id |-> "p1"],
      [k |-> "openpgp", keys |-> <<[k |-> "packets", id |-> "g1"], [k |-> "packets", id |-> "g2"]>>],
      [k |-> "ssh", lines |-> <<[k |-> "line", name |-> None, id |-> "s1"],
                                [k |-> "line", name |-> "user", id |-> "s2"]>>],
      [k |-> "base64", inner |-> [k |-> "spkac", id |-> "r1"]],
      [k |-> "pkcs10", name |-> "request", id |-> "r2"],
      [k |-> "dsa", state |-> "good", id |-> "k4"] }

\* What the second file holds.
Few == {Encrypted8(Rsa("k8"), "a")}

MCSound == Several \cup Few

MCDamaged ==
    { Junk,
      Pem(<<Block("unknown", Cert("c0", "zero"))>>),
      Pem(<<Block("rsa", [k |-> "rsa", state |-> "bad", id |-> "x"]),
            Block("certificate", Cert("c5", None))>>),
      Pem(<<Block("pkcs7", [k |-> "pkcs7", signed |-> TRUE,
                            certs |-> <<Cert("c6", None), Junk, Cert("c7", None)>>]),
            [HiddenBlock("dsa", "a", Junk) EXCEPT !.dek = "unknown"]>>),
      [k |-> "pkcs7", signed |-> FALSE, certs |-> <<>>],
      [Encrypted8(Rsa("x"), "a") EXCEPT !.inner.alg = "other"],
      [Encrypted8(Rsa("x"), "a") EXCEPT !.scheme = FALSE],
      Pkcs12(None, <<[type |-> "signed", password |-> None, inner |-> Junk],
                     Plain(<<Bag("cert", None, Junk)>>)>>) }

AllFormats ==
    Parser!EnableFormats(<<>>, Range(Parser!ParserFormats))
\* With every format enabled the armor of OpenPGP comes before PEM, and the
\* first locked block of a PEM text ends the parse (see the README).
MCFormats == {None, Parser!DisableFormats(AllFormats, {"openpgparmor"})}

-----------------------------------------------------------------------------
MCClass == Given!Classes
MCPair == Given!Pairs
MCSlot == Given!Slots
MCFlags == Given!FlagsOf

-----------------------------------------------------------------------------
(* Two keys of GnuPG, both with a photo: the photos fit into the pipe in   *)
(* part, and one after the other.  One key may get a secret part or go,    *)
(* and one may be new.  A load meets a failure, or a change of the keyring. *)
MCPhoto == p1 :> 1 @@ p2 :> 2
MCKeyrings == {p1 :> "public" @@ p2 :> "absent"}
MCTroubles == {[faults |-> 1, changes |-> 0], [faults |-> 0, changes |-> 1]}

-----------------------------------------------------------------------------
\* What the files of the viewer hold does not matter to the others.
AnyContent == [f \in File |-> Junk]

WidgetsInit ==
    /\ part \in {"model", "viewer", "importing", "gnupg"}
    /\ Init /\ Viewer!Init /\ ImportingInit /\ Gnupg!Init
    /\ part # "gnupg" => job = "import"
    /\ IF part = "viewer"
         THEN /\ content[f1] \notin Few /\ content[f2] \in Few
              /\ formats = None \/ content[f1].k \in {"pem", "pkcs8", "junk"}
         ELSE content = AnyContent /\ formats = None

WidgetsNext ==
    /\ UNCHANGED part
    /\ \/ part = "model" /\ Next /\ UNCHANGED <<viewerVars, importingVars, gnupgVars>>
       \/ part = "viewer" /\ Viewer!Next /\ UNCHANGED <<modelVars, importingVars, gnupgVars>>
       \/ part = "importing" /\ ImportingNext /\ UNCHANGED <<modelVars, viewerVars, gnupgVars>>
       \/ part = "gnupg" /\ Gnupg!Next /\ UNCHANGED <<modelVars, viewerVars, importingVars>>

WidgetsSpec ==
    /\ WidgetsInit /\ [][WidgetsNext]_widgetVars
    /\ WF_importingVars(part = "importing" /\ \E ok \in BOOLEAN : Returns(ok))
    /\ WF_gnupgVars(part = "gnupg" /\ Gnupg!Looping)
    /\ WF_gnupgVars(part = "gnupg" /\ Gnupg!Child)

-----------------------------------------------------------------------------
\* Every object of a file is shown once it is open, or kept to be unlocked
\* (GcrViewer).
EachObjectOnce == Viewer!EachObjectOnce
\* The right password opens a block, a wrong one changes nothing (GcrViewer).
UnlockOpens == Viewer!UnlockOpens
\* After a load the collection has the keys that gpg listed (GcrGnupg).
ItemsMirrorListing == Gnupg!ItemsMirrorListing
\* Photos are put together for the keys they are of (GcrGnupg).
PhotosAreTheirs == Gnupg!PhotosAreTheirs
\* An import that went well has imported what its stream held (GcrGnupg).
ImportsAll == Gnupg!ImportsAll
\* A run of gpg ends, or is stuck in one of two ways (GcrGnupg).
EndsOrStuck == Gnupg!EndsOrStuck
=============================================================================
