----------------------------- MODULE GcrParser -----------------------------
(***************************************************************************)
(* The parser of gcr/gcr-parser.c.  A parse is one synchronous call: it is *)
(* modelled by operators on the parser's state p, one operator per parsing *)
(* function, each returning the state the function leaves with its result  *)
(* in p.ret.                                                               *)
(*                                                                         *)
(*   p.stack      the blocks being parsed (pv->parsed, innermost first)    *)
(*   p.passwords  the passwords tried on every locked block, in order      *)
(*   p.auth       the handler of the signal "authenticate": "none", "keep" *)
(*                (puts the block aside for later) or "give" (hands over   *)
(*                p.auth.password the first time it is asked for a block)  *)
(*   p.told       the signals emitted, in order: "parsed" with the object, *)
(*                "authenticate" with the block it asks to unlock          *)
(*                                                                         *)
(* Data is abstract: a record with a kind k, and what that kind encloses.  *)
(* Bytes decrypted with a wrong password are Junk, no format decodes Junk. *)
(* A text in base64 after "SPKAC=" is longer than that prefix.             *)
(***************************************************************************)
LOCAL INSTANCE Integers
LOCAL INSTANCE Sequences
LOCAL INSTANCE SequencesExt

CONSTANT None

FAILURE      == -1
SUCCESS      == 0
UNRECOGNIZED == 1
CANCELLED    == 2
LOCKED       == 3

\* The results that end the walk through the parts of a PKCS#12 file.
Stops == {FAILURE, CANCELLED, LOCKED}

Junk == [k |-> "junk"]

\* A new parser knows two passwords: none at all, and the empty one.
NewParser == [stack |-> <<>>, passwords |-> <<None, "">>,
              auth |-> [kind |-> "none"], told |-> <<>>, ret |-> UNRECOGNIZED]

Return(p, ret) == [p EXCEPT !.ret = ret]

\* The one member of a set.  The({F(q) : q \in {p}}) is F(p) with p evaluated once:
\* a parse is a long chain of states, which TLC would compute again at each use.
The(S) == CHOOSE x \in S : TRUE

-----------------------------------------------------------------------------
(* The stack of blocks                                                     *)

Push(p, block, label) ==
    [p EXCEPT !.stack = <<[block |-> block, label |-> label]>> \o @]

Pop(p) == [p EXCEPT !.stack = Tail(@)]

\* The first of the values, from the innermost block outwards, that is set.
Nearest(values) ==
    LET set == SelectSeq(values, LAMBDA v : v # None)
    IN  IF set = <<>> THEN None ELSE Head(set)

ParsedLabel(p) == Nearest([i \in DOMAIN p.stack |-> p.stack[i].label])
ParsedBlock(p) == Nearest([i \in DOMAIN p.stack |-> p.stack[i].block])

\* parsed_fire: the object in data is announced under its own label, or
\* under the nearest one.
Fire(p, class, data, label) ==
    Return([p EXCEPT !.told =
                Append(@, [signal |-> "parsed", class |-> class, data |-> data,
                           label |-> IF label = None THEN ParsedLabel(p) ELSE label])],
           SUCCESS)

\* The common name of a certificate counts only where nothing else names it.
FireNamed(p, class, data) ==
    Fire(p, class, data, IF ParsedLabel(p) = None THEN data.name ELSE None)

\* A walk t through the passwords has seen some of them, and is over when there
\* are no more.
Walk(p) == [p |-> p, seen |-> 0, count |-> 0, over |-> FALSE]
Tried(t) == t.p.passwords[t.seen]

\* enum_next_password: the walk t goes on to one of the known passwords, or to
\* one that the handler adds, or ends.  Once in a walk the handler may "give" one.
Asked(p) ==
    [p EXCEPT !.told = Append(@, [signal |-> "authenticate", class |-> None,
                                  data |-> ParsedBlock(p), label |-> ParsedLabel(p)])]

NextPassword(t) ==
    IF t.seen < Len(t.p.passwords) THEN [t EXCEPT !.seen = @ + 1]
    ELSE IF t.p.auth.kind = "give" /\ t.count = 0
      THEN [t EXCEPT !.p = [Asked(t.p) EXCEPT !.passwords = Append(@, t.p.auth.password)],
                     !.seen = @ + 1, !.count = @ + 1]
    ELSE [t EXCEPT !.p = Return(Asked(t.p), IF t.p.auth.kind = "none" THEN CANCELLED
                                                                      ELSE LOCKED),
                   !.over = TRUE]

Decrypt(d, password) == IF password = d.password THEN d.inner ELSE Junk

-----------------------------------------------------------------------------
(* Keys                                                                    *)

ParseRsa(p, d) ==
    IF d.k # "rsa" \/ d.state = "version" THEN Return(p, UNRECOGNIZED)
    ELSE IF d.state = "bad" THEN Return(p, FAILURE)
    ELSE Fire(p, "private", d, None)

ParseDsa(p, d) ==
    IF d.k # "dsa" THEN Return(p, UNRECOGNIZED)
    ELSE IF d.state = "bad" THEN Return(p, FAILURE)
    ELSE Fire(p, "private", d, None)

\* A DSA key in PKCS#8 may leave its parameters to the enclosing block.
ParseDsaParts(p, d, params) ==
    IF d.k # "dsapart" \/ ~params THEN Return(p, UNRECOGNIZED)
    ELSE IF d.state = "bad" THEN Return(p, FAILURE)
    ELSE Fire(p, "private", d, None)

ParsePrivateKey(p, d) ==
    The({IF q.ret = UNRECOGNIZED THEN ParseDsa(q, d) ELSE q : q \in {ParseRsa(p, d)}})

ParseSubjectPublicKey(p, d) ==
    IF d.k # "spki" \/ d.alg = "other" THEN Return(p, UNRECOGNIZED)
    ELSE IF d.state = "bad" THEN Return(p, FAILURE)
    ELSE Fire(p, "public", d, None)

\* The key inside; what follows ParseRsa or ParseDsa is for q, the state they leave.
ParsePkcs8Key(q, d) ==
    IF d.alg = "dsa" /\ q.ret = UNRECOGNIZED THEN ParseDsaParts(q, d.inner, d.params) ELSE q

ParsePkcs8Plain(p, d) ==
    IF d.k # "pkcs8" \/ d.alg = "other" THEN Return(p, UNRECOGNIZED)
    ELSE Pop(The({ParsePkcs8Key(q, d) :
                     q \in {IF d.alg = "rsa" THEN ParseRsa(Push(p, d, None), d.inner)
                                             ELSE ParseDsa(Push(p, d, None), d.inner)}}))

\* The passwords are tried in turn.
RECURSIVE DecryptPkcs8(_, _)
DecryptPkcs8(t, d) ==
    The({IF n.over THEN n.p
         ELSE The({IF q.ret = UNRECOGNIZED THEN DecryptPkcs8([n EXCEPT !.p = q], d) ELSE q :
                      q \in {IF d.scheme THEN ParsePkcs8Plain(n.p, Decrypt(d, Tried(n)))
                                         ELSE Return(n.p, FAILURE)}}) :
            n \in {NextPassword(t)}})

ParsePkcs8Encrypted(p, d) ==
    IF d.k # "enc8" THEN Return(p, UNRECOGNIZED)
    ELSE Pop(DecryptPkcs8(Walk(Push(p, d, None)), d))

ParsePkcs8(p, d) ==
    The({IF q.ret = UNRECOGNIZED THEN ParsePkcs8Encrypted(q, d) ELSE q :
            q \in {ParsePkcs8Plain(p, d)}})

-----------------------------------------------------------------------------
(* Certificates, certificate requests and public keys in text              *)

ParseCertificate(p, d) ==
    IF d.k # "cert" THEN Return(p, UNRECOGNIZED)
    ELSE FireNamed(p, "certificate", d)

ParsePkcs10(p, d) ==
    IF d.k # "pkcs10" THEN Return(p, UNRECOGNIZED)
    ELSE FireNamed(p, "request", d)

ParseSpkac(p, d) ==
    IF d.k # "spkac" THEN Return(p, UNRECOGNIZED)
    ELSE Fire(p, "request", d, None)

ParseBase64Spkac(p, d) ==
    IF d.k # "base64" THEN Return(p, UNRECOGNIZED)
    ELSE Pop(ParseSpkac(Push(p, d, None), d.inner))

\* Every key, and every line, is an object of its own.
ParseOpenpgp(p, d) ==
    IF d.k # "openpgp" THEN Return(p, UNRECOGNIZED)
    ELSE FoldLeft(LAMBDA q, key : Fire(q, "records", key, None), p, d.keys)

ParseOpensshPublic(p, d) ==
    IF d.k # "ssh" THEN Return(p, UNRECOGNIZED)
    ELSE FoldLeft(LAMBDA q, line : Fire(q, "public", line, line.name), p, d.lines)

\* The certificates of a signature, up to the first that is none.
RECURSIVE ParseCertificates(_, _)
ParseCertificates(p, certs) ==
    IF certs = <<>> \/ p.ret # SUCCESS THEN p
    ELSE The({ParseCertificates(q, Tail(certs)) : q \in {ParseCertificate(p, Head(certs))}})

ParsePkcs7(p, d) ==
    IF d.k # "pkcs7" THEN Return(p, UNRECOGNIZED)
    ELSE IF ~d.signed THEN Return(p, FAILURE)
    ELSE Pop(ParseCertificates(Return(Push(p, d, None), SUCCESS), d.certs))

-----------------------------------------------------------------------------
(* PKCS#12                                                                 *)

\* One bag, under its friendly name.  A kind of bag, or a content, that is
\* not recognized is passed over.
ParseBagValue(p, bag) ==
    CASE bag.type = "key"      -> ParsePkcs8Plain(p, bag.value)
      [] bag.type = "shrouded" -> ParsePkcs8Encrypted(p, bag.value)
      [] bag.type = "cert"     -> ParseCertificate(p, bag.value)
      [] OTHER                 -> Return(p, UNRECOGNIZED)

ParseBag(p, bag) == Pop(The({ParseBagValue(q, bag) : q \in {Push(p, None, bag.label)}}))

Passed(p) == The({IF q.ret \in Stops THEN q ELSE Return(q, SUCCESS) : q \in {p}})

RECURSIVE ParseBags(_, _)
ParseBags(p, bags) ==
    IF bags = <<>> \/ p.ret \in Stops THEN p
    ELSE The({ParseBags(q, Tail(bags)) : q \in {ParseBag(p, Head(bags))}})

HandleBags(p, d) ==
    IF d.k # "bags" THEN Return(p, UNRECOGNIZED)
    ELSE Passed(ParseBags(Return(p, SUCCESS), d.bags))

RECURSIVE DecryptBags(_, _)
DecryptBags(t, content) ==
    The({IF n.over THEN n.p
         ELSE The({IF q.ret = UNRECOGNIZED THEN DecryptBags([n EXCEPT !.p = q], content)
                   ELSE q : q \in {HandleBags(n.p, Decrypt(content, Tried(n)))}}) :
            n \in {NextPassword(t)}})

HandleEncryptedBag(p, content) == DecryptBags(Walk(p), content)

HandleContent(p, content) ==
    CASE content.type = "data"      -> HandleBags(p, content.inner)
      [] content.type = "encrypted" -> HandleEncryptedBag(p, content)
      [] OTHER                      -> Return(p, UNRECOGNIZED)

RECURSIVE HandleContents(_, _)
HandleContents(p, contents) ==
    IF contents = <<>> \/ p.ret \in Stops THEN p
    ELSE The({HandleContents(q, Tail(contents)) : q \in {HandleContent(p, Head(contents))}})

HandleSafe(p, contents) == Passed(HandleContents(Return(p, SUCCESS), contents))

\* The MAC, where there is one, is checked before anything inside is read.
RECURSIVE VerifyMac(_, _)
VerifyMac(t, mac) ==
    The({IF n.over THEN n.p
         ELSE IF Tried(n) = mac THEN Return(n.p, SUCCESS)
         ELSE VerifyMac([n EXCEPT !.p = Return(@, LOCKED)], mac) : n \in {NextPassword(t)}})

VerifySafe(p, d) ==
    IF d.mac = None THEN Return(p, SUCCESS) ELSE VerifyMac(Walk(p), d.mac)

ParsePkcs12(p, d) ==
    IF d.k # "pkcs12" THEN Return(p, UNRECOGNIZED)
    ELSE Pop(The({IF q.ret = SUCCESS THEN HandleSafe(q, d.safe) ELSE q :
                     q \in {VerifySafe(Push(p, d, None), d)}}))

-----------------------------------------------------------------------------
(* PEM and the table of formats                                            *)

\* The formats a parser is asked for one by one, in the order of their ids.
ParserFormats ==
    << "private", "rsa", "dsa", "spki", "x509", "pkcs7", "pkcs8", "pkcs8plain",
       "pkcs8encrypted", "pkcs10", "spkac", "base64spkac", "pkcs12", "openssh",
       "openpgp", "openpgparmor", "pem", "pemrsa", "pemdsa", "pemx509",
       "pempkcs7", "pempkcs8plain", "pempkcs8encrypted", "pempkcs12",
       "pempkcs10" >>

\* The formats tried where none was asked for, the likeliest first.
ParserNormal ==
    << "pem", "base64spkac", "rsa", "dsa", "spki", "x509", "pkcs7",
       "pkcs8plain", "pkcs8encrypted", "pkcs12", "openssh", "openpgp",
       "openpgparmor", "pkcs10", "spkac" >>

\* What the type of an armored block says its contents are.
InnerFormat ==
    [rsa |-> "rsa", dsa |-> "dsa", any |-> "private", private |-> "pkcs8plain",
     encrypted |-> "pkcs8encrypted", certificate |-> "x509", pkcs7 |-> "pkcs7",
     request |-> "pkcs10", pkcs12 |-> "pkcs12", pgp |-> "openpgp"]

ParseInner(p, f, d) ==
    CASE f = "private"        -> ParsePrivateKey(p, d)
      [] f = "rsa"            -> ParseRsa(p, d)
      [] f = "dsa"            -> ParseDsa(p, d)
      [] f = "spki"           -> ParseSubjectPublicKey(p, d)
      [] f = "x509"           -> ParseCertificate(p, d)
      [] f = "pkcs7"          -> ParsePkcs7(p, d)
      [] f = "pkcs8"          -> ParsePkcs8(p, d)
      [] f = "pkcs8plain"     -> ParsePkcs8Plain(p, d)
      [] f = "pkcs8encrypted" -> ParsePkcs8Encrypted(p, d)
      [] f = "pkcs10"         -> ParsePkcs10(p, d)
      [] f = "spkac"          -> ParseSpkac(p, d)
      [] f = "base64spkac"    -> ParseBase64Spkac(p, d)
      [] f = "pkcs12"         -> ParsePkcs12(p, d)
      [] f = "openssh"        -> ParseOpensshPublic(p, d)
      [] f = "openpgp"        -> ParseOpenpgp(p, d)

HandlePlainPem(p, f, want, d) ==
    IF want # None /\ want # f THEN Return(p, UNRECOGNIZED)
    ELSE ParseInner(p, f, d)

RECURSIVE DecryptPem(_, _, _, _)
DecryptPem(t, f, want, block) ==
    The({IF n.over THEN n.p
         ELSE The({IF q.ret = UNRECOGNIZED THEN DecryptPem([n EXCEPT !.p = q], f, want, block)
                   ELSE q : q \in {IF block.dek = "known"
                                     THEN HandlePlainPem(n.p, f, want,
                                                         Decrypt(block, Tried(n)))
                                     ELSE Return(n.p, FAILURE)}}) :
            n \in {NextPassword(t)}})

HandleEncryptedPem(p, f, want, block) ==
    IF block.dek = "missing" THEN Return(p, FAILURE)
    ELSE DecryptPem(Walk(p), f, want, block)

HandlePemBlock(p, f, want, block) ==
    IF block.password # None THEN HandleEncryptedPem(p, f, want, block)
    ELSE HandlePlainPem(p, f, want, block.inner)

\* What the blocks so far come to: q, or the result of those before.
PemResult(q, result) ==
    IF q.ret # UNRECOGNIZED /\ (result = UNRECOGNIZED \/ q.ret > result) THEN q
    ELSE Return(q, result)

\* A locked block ends the walk as a failure does.
HandlePemDataStops(p, want, block) ==
    IF p.ret \in {FAILURE, LOCKED} \/ block.type \notin DOMAIN InnerFormat THEN p
    ELSE The({PemResult(Pop(q), p.ret) :
                 q \in {HandlePemBlock(Push(p, [k |-> "pem", blocks |-> <<block>>], None),
                                       InnerFormat[block.type], want, block)}})
\* One armored block; p.ret is what the blocks before it came to.  After a
\* first failure no block is looked at, a later one changes nothing.
HandlePemData(p, want, block) ==
    IF p.ret = FAILURE \/ block.type \notin DOMAIN InnerFormat THEN p
    ELSE The({PemResult(Pop(q), p.ret) :
                 q \in {HandlePemBlock(Push(p, [k |-> "pem", blocks |-> <<block>>], None),
                                       InnerFormat[block.type], want, block)}})

RECURSIVE HandleBlocks(_, _, _)
HandleBlocks(p, want, blocks) ==
    IF blocks = <<>> THEN p
    ELSE The({HandleBlocks(q, want, Tail(blocks)) :
                 q \in {HandlePemData(p, want, Head(blocks))}})

HandlePemFormat(p, want, d) ==
    IF d.k # "pem" THEN Return(p, UNRECOGNIZED)
    ELSE HandleBlocks(Return(p, UNRECOGNIZED), want, d.blocks)

\* The formats that are armor, with what they want to find in it (None: anything).
ArmorFormat ==
    [pem |-> None, pemrsa |-> "rsa", pemdsa |-> "dsa", pemx509 |-> "x509",
     pempkcs7 |-> "pkcs7", pempkcs8plain |-> "pkcs8plain",
     pempkcs8encrypted |-> "pkcs8encrypted", pempkcs12 |-> "pkcs12",
     pempkcs10 |-> "pkcs10", openpgparmor |-> "openpgp"]

ParseFormat(p, f, d) ==
    IF f \in DOMAIN ArmorFormat THEN HandlePemFormat(p, ArmorFormat[f], d)
    ELSE ParseInner(p, f, d)

\* A parser's formats: those enabled, or the usual ones (None), or none.
EnableFormats(formats, more) ==
    SelectSeq(ParserFormats,
              LAMBDA f : f \in more \/ (formats # None /\ f \in ToSet(formats)))

\* Disabling them all, GCR_FORMAT_ALL, disables the usual ones too.
DisableFormats(formats, less) ==
    IF less = ToSet(ParserFormats) THEN <<>>
    ELSE IF formats = None THEN None ELSE SelectSeq(formats, LAMBDA f : f \notin less)

RECURSIVE TryFormats(_, _, _)
TryFormats(p, formats, d) ==
    IF formats = <<>> \/ p.ret # UNRECOGNIZED THEN p
    ELSE The({TryFormats(q, Tail(formats), d) : q \in {ParseFormat(p, Head(formats), d)}})

ParseData(p, formats, d) ==
    TryFormats(Return([p EXCEPT !.told = <<>>], UNRECOGNIZED),
               IF formats = None THEN ParserNormal ELSE formats, d)

=============================================================================
