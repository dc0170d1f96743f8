--------------------------- MODULE SecretExchange ---------------------------
(***************************************************************************)
(* gcr/gcr-secret-exchange.c: two GcrSecretExchange objects that agree on  *)
(* a transport key and send each other secrets under it.  The strings they *)
(* make travel outside of the module (in the arguments of the prompter's   *)
(* methods): any string made may be received later, again, or not at all,  *)
(* unless only the newest string of a side is received.                    *)
(*                                                                         *)
(* Cryptography is ideal: a key is known by the two public keys it was     *)
(* derived from, and data under another key decrypts to something whose    *)
(* padding is invalid, or, rarely, by chance is not.                       *)
(***************************************************************************)
EXTENDS Naturals

CONSTANTS
    Secret,     \* the secrets that are sent
    None,       \* the absence of a value
    Noise,      \* what a wrong key makes of a secret when the padding fits
    Reorders,   \* strings are received late and again
    MaxKeys     \* how many keys each side generates: a bound for TLC

ASSUME BoundAssumption == Reorders \in BOOLEAN /\ MaxKeys \in Nat

Side == {"caller", "callee"}
Peer(s) == CHOOSE t \in Side : t # s

\* A public key: whose it is, and the how manyth.
PublicKey == Side \X Nat

ASSUME NoneAssumption ==
    /\ None \notin Secret /\ None \notin PublicKey
    /\ Noise \notin Secret /\ Noise # None

VARIABLES
    generated,  \* generated[s]: a key pair has been generated
    derived,    \* derived[s]: a transport key has been derived
    publi,      \* publi[s]: the public key of the pair, or None
    key,        \* key[s]: the transport key, {} if there is none
    secret,     \* secret[s]: what gcr_secret_exchange_get_secret returns
    keys,       \* keys[s]: how many key pairs were generated
    strings,    \* the exchange strings made so far
    newest,     \* newest[s]: the string that side s made last, or None
    meant       \* meant[s]: the secret in the string last received with success

vars == <<generated, derived, publi, key, secret, keys, strings, newest, meant>>

\* The key derived from the private half of one public key and the other.
TransportKey(own, other) == {own, other}

\* An exchange string.  The secret in it is encrypted under a key.
String(s, public, value, under) ==
    [from |-> s, public |-> public, secret |-> value, under |-> under]

Strings ==
    [from : Side, public : PublicKey, secret : Secret \union {None},
     under : SUBSET PublicKey]

-----------------------------------------------------------------------------
\* gcr_secret_exchange_default_generate_exchange_key: the pair that side s
\* generates next.
NewKey(s) == <<s, keys[s] + 1>>

\* clear_secret_exchange, as far as the derived flag is concerned.
DerivedCleared(s) == [derived EXCEPT ![s] = FALSE]

Makes(s, m) ==
    /\ strings' = strings \union {m}
    /\ newest' = [newest EXCEPT ![s] = m]

\* gcr_secret_exchange_begin
Begin(s) ==
    /\ keys[s] < MaxKeys
    /\ derived' = DerivedCleared(s)
    /\ generated' = [generated EXCEPT ![s] = TRUE]
    /\ publi' = [publi EXCEPT ![s] = NewKey(s)]
    /\ key' = [key EXCEPT ![s] = {}]
    /\ secret' = [secret EXCEPT ![s] = None]
    /\ meant' = [meant EXCEPT ![s] = None]
    /\ keys' = [keys EXCEPT ![s] = @ + 1]
    /\ Makes(s, String(s, NewKey(s), None, {}))

\* gcr_secret_exchange_send, with a secret or without.
Send(s, value) ==
    /\ derived[s]
    /\ Makes(s, String(s, publi[s], value, IF value = None THEN {} ELSE key[s]))
    /\ UNCHANGED <<generated, derived, publi, key, secret, keys, meant>>

\* The first part of gcr_secret_exchange_receive: the key pair of a side that
\* has none yet is generated, whatever becomes of the string.
Generate(s) ==
    IF generated[s]
    THEN UNCHANGED <<generated, publi, keys>>
    ELSE /\ keys[s] < MaxKeys
         /\ generated' = [generated EXCEPT ![s] = TRUE]
         /\ publi' = [publi EXCEPT ![s] = NewKey(s)]
         /\ keys' = [keys EXCEPT ![s] = @ + 1]

\* The key with which side s reads string m: derive_key is called for the first
\* string only.
DeriveKey(s, m) == IF derived[s] THEN key[s] ELSE TransportKey(publi'[s], m.public)

\* A secret is read whether there is one or not.
DecryptLast(m, under) == {IF m.secret = None THEN Noise ELSE m.secret}
\* perform_decrypt: what may come out.  Padding that is invalid is no error.
Decrypt(m, under) ==
    IF m.secret = None THEN {None}
    ELSE IF under = m.under THEN {m.secret}
    ELSE {None, Noise}

\* gcr_secret_exchange_receive
Receive(s, m) ==
    /\ m.from = Peer(s)
    /\ Reorders \/ m = newest[Peer(s)]
    /\ Generate(s)
    /\ derived' = [derived EXCEPT ![s] = TRUE]
    /\ key' = [key EXCEPT ![s] = DeriveKey(s, m)]
    /\ \E value \in Decrypt(m, key'[s]) : secret' = [secret EXCEPT ![s] = value]
    /\ meant' = [meant EXCEPT ![s] = m.secret]
    /\ UNCHANGED <<strings, newest>>

\* gcr_secret_exchange_receive of a string without a valid public key: it is
\* needed only to derive a key, and a key pair has been generated by then.
ReceiveWithoutKey(s) ==
    /\ Generate(s)
    /\ secret' = IF derived[s] THEN [secret EXCEPT ![s] = None] ELSE secret
    /\ meant' = IF derived[s] THEN [meant EXCEPT ![s] = None] ELSE meant
    /\ UNCHANGED <<derived, key, strings, newest>>

-----------------------------------------------------------------------------
Init ==
    /\ generated = [s \in Side |-> FALSE]
    /\ derived = [s \in Side |-> FALSE]
    /\ publi = [s \in Side |-> None]
    /\ key = [s \in Side |-> {}]
    /\ secret = [s \in Side |-> None]
    /\ keys = [s \in Side |-> 0]
    /\ strings = {}
    /\ newest = [s \in Side |-> None]
    /\ meant = [s \in Side |-> None]

Next ==
    \E s \in Side :
        \/ Begin(s)
        \/ \E value \in Secret \union {None} : Send(s, value)
        \/ \E m \in strings : Receive(s, m)
        \/ ReceiveWithoutKey(s)

Spec == Init /\ [][Next]_vars

-----------------------------------------------------------------------------
\* The types of the variables of the two sides.
TypeOK ==
    /\ generated \in [Side -> BOOLEAN]
    /\ derived \in [Side -> BOOLEAN]
    /\ publi \in [Side -> PublicKey \union {None}]
    /\ key \in [Side -> SUBSET PublicKey]
    /\ secret \in [Side -> Secret \union {None, Noise}]
    /\ keys \in [Side -> Nat]
    /\ strings \subseteq Strings
    /\ newest \in [Side -> Strings \union {None}]
    /\ meant \in [Side -> Secret \union {None}]

\* What the functions of the default exchange check at their head: there is a
\* private key to derive with once the flag generated is set, and a transport
\* key to encrypt and decrypt with once derived is set; and that key was made
\* with the side's own pair.
KeysAreThere ==
    \A s \in Side :
        /\ generated[s] => publi[s] # None
        /\ derived[s] => generated[s] /\ publi[s] \in key[s]

\* No side has begun again after it had made a key.
BegunOnce == \A s \in Side : keys[s] <= 1

\* "After this call completes successfully the value returned from
\* gcr_secret_exchange_get_secret() will have changed" (gcr_secret_exchange_receive):
\* what a side reads is the secret in the string it received last.  It holds
\* until somebody begins again.
ReadsWhatWasSent == BegunOnce => secret = meant

\* Until somebody begins again, two sides that have derived a key have the same
\* one: whoever began, and in whichever order their strings crossed.
KeysAgree ==
    BegunOnce /\ derived["caller"] /\ derived["callee"] => key["caller"] = key["callee"]

\* The same documentation, whoever begins.  The code breaks it: a side derives
\* a key only once, so that it cannot read what is sent under a newer key, and
\* reports success.
AlwaysReadsWhatWasSent == secret = meant
=============================================================================
