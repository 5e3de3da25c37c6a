------------------------------- MODULE EcKeys -------------------------------
(***************************************************************************)
(* One party holds a secret key, another the public key, and both change   *)
(* theirs by the same operations, each at a pace of its own, as a wallet   *)
(* and its watcher do.  A third keeps a key pair that it tweaks by its x   *)
(* coordinate.  A fourth receives public keys as bytes.                    *)
(***************************************************************************)
EXTENDS SchnorrSig, Sequences

CONSTANTS
  SecretBytes,   \* what the bytes of a secret key may be
  Tweaks,        \* and those of a tweak
  SomeX, SomeY,  \* coordinates of keys that are received whole
  MaxTweaks      \* bound: operations on a key

ASSUME KeysAssumption == SecretBytes \cup Tweaks \cup SomeX \cup SomeY \subseteq 0..MaxBytes

VARIABLES
  sec,       \* the bytes of the secret key
  pub,       \* the public key
  todo,      \* operations done on the secret key and not yet on the public one
  done,      \* the number of operations on the secret key
  pair,      \* the key pair
  internal,  \* the x-only key and the tweak that made it, or {}
  got        \* the bytes last received and the key that they were parsed to

keyVars == <<sec, pub, todo, done, pair, internal, got>>

NotReceived == [in |-> <<>>, key |-> NoKey]

KeysInit ==
  /\ sec \in SecretBytes /\ pub = ec_pubkey_create(sec)
  /\ todo = <<>> /\ done = 0
  /\ pair = NoPair /\ internal = {}
  /\ got = NotReceived

Operations == {<<"negate", 0>>} \cup ({"tweak_add", "tweak_mul"} \X Tweaks)

OnSecret(op) ==
  /\ got = NotReceived /\ pair = NoPair /\ done < MaxTweaks
  /\ sec' = CASE op[1] = "negate" -> ec_seckey_negate(sec)
              [] op[1] = "tweak_add" -> ec_seckey_tweak_add(sec, op[2])
              [] OTHER -> ec_seckey_tweak_mul(sec, op[2])
  /\ todo' = Append(todo, op) /\ done' = done + 1
  /\ UNCHANGED <<pub, pair, internal, got>>

OnPublic ==
  /\ todo # <<>>
  /\ LET op == Head(todo)
     IN  pub' = CASE op[1] = "negate" -> ec_pubkey_negate(pub)
                  [] op[1] = "tweak_add" -> ec_pubkey_tweak_add(pub, op[2])
                  [] OTHER -> ec_pubkey_tweak_mul(pub, op[2])
  /\ todo' = Tail(todo)
  /\ UNCHANGED <<sec, done, pair, internal, got>>

CreatePair(sk) ==
  /\ got = NotReceived /\ pair = NoPair /\ todo = <<>>
  /\ pair' = keypair_create(sk) /\ internal' = {}
  /\ UNCHANGED <<sec, pub, todo, done, got>>

TweakPair(tweak) ==
  /\ pair # NoPair /\ done < MaxTweaks
  /\ pair' = keypair_xonly_tweak_add(pair, tweak)
  /\ internal' = {<<xonly_pubkey_from_pubkey(pair.pk).pk, tweak>>}
  /\ done' = done + 1
  /\ UNCHANGED <<sec, pub, todo, got>>

Receive(bytes) ==
  /\ got = NotReceived /\ done = 0 /\ pair = NoPair
  /\ got' = [in |-> bytes, key |-> eckey_pubkey_parse(bytes)]
  /\ UNCHANGED <<sec, pub, todo, done, pair, internal>>

KeyTags == {TagOf[t] : t \in DOMAIN TagOf} \cup {5}

KeysNext ==
  \/ \E op \in Operations : OnSecret(op)
  \/ OnPublic
  \/ \E sk \in SecretBytes : CreatePair(sk)
  \/ \E tweak \in Tweaks : TweakPair(tweak)
  \/ \E x \in 0..MaxBytes, t \in KeyTags : Receive([size |-> 33, tag |-> t, x |-> x, y |-> 0])
  \/ \E x \in SomeX, y \in SomeY, t \in KeyTags : Receive([size |-> 65, tag |-> t, x |-> x, y |-> y])

KeysSpec == KeysInit /\ [][KeysNext]_keyVars

-----------------------------------------------------------------------------
\* Whatever the operations are, the public key that has caught up is that of
\* the secret key, and one of them is destroyed when the other is: a tweak
\* that is out of range, or that leads to 0 or infinity, fails on both sides,
\* and a key that was destroyed stays so (secp256k1.c:622-759).
SidesInStep ==
  todo = <<>> => pub = ec_pubkey_create(sec)

\* The two halves of a key pair belong together, also after tweaks that
\* negated the secret key for its even y, and one that failed leaves no half
\* of it (extrakeys/main_impl.h:197-285); a signature made with the pair is
\* valid for its public key.
PairBelongsTogether ==
  /\ pair = keypair_create(pair.sk)
  /\ pair # NoPair =>
       \A msg \in Messages, nonce \in 0..MaxBytes :
         LET made == schnorrsig_sign(pair.sk, msg, nonce, TRUE)
         IN  made.ret => schnorrsig_verify(made.sig, msg, pair.pk[1])

\* The check that a key is a tweaked one is true of the key that the tweak
\* made of the x-only key, with its parity, and of no other
\* (extrakeys/main_impl.h:117-155).
OnlyTheTweakedKey ==
  \A i \in internal :
    \A x \in 0..MaxBytes, parity \in 0..1 :
      xonly_pubkey_tweak_add_check(x, parity, i[1], i[2]) <=>
        /\ pair # NoPair
        /\ x = pair.pk[1] /\ parity = xonly_pubkey_from_pubkey(pair.pk).parity

\* Two parties agree on a secret, and the sum of their keys is the key of the
\* sum of their secrets (ecdh/main_impl.h:29-69, secp256k1.c:769-791).
PartiesAgree ==
  (todo = <<>> /\ pub # NoKey /\ pair # NoPair) =>
    /\ ecdh(pub, pair.sk) = ecdh(pair.pk, sec) /\ ecdh(pub, pair.sk).ret
    /\ ec_pubkey_combine(pub, pair.pk) = PublicKey(scalar_add(sec, pair.sk))

\* Bytes are parsed to the one point that they are the bytes of or refused,
\* a point is parsed from both its serializations, and the order of keys
\* tells all of them apart (eckey_impl.h:17-53, secp256k1.c:325-349).
BytesAreOneKey ==
  /\ got.key # NoKey =>
       LET again == ec_pubkey_serialize(got.key, got.in.size = 33)
       IN  /\ got.key \in Affine
           /\ [again EXCEPT !.tag = 0] = [got.in EXCEPT !.tag = 0]
           /\ got.in.tag \in {TagOf.hybrid_even, TagOf.hybrid_odd} \/ again = got.in
           /\ got.in.tag # TagOf.uncompressed => HasOddY(got.key) = (got.in.tag % 2 = 1)
  /\ \A c \in BOOLEAN : pub # NoKey => eckey_pubkey_parse(ec_pubkey_serialize(pub, c)) = pub
  /\ ec_pubkey_cmp(pub, got.key) = -ec_pubkey_cmp(got.key, pub)
  /\ ec_pubkey_cmp(pub, got.key) = 0 <=> pub = got.key

\* Secret keys, public keys, key pairs and their bytes (secp256k1.c,
\* extrakeys/main_impl.h, ecdh/main_impl.h, eckey_impl.h) stay together through
\* every sequence of tweaks, the failing ones among them.
KeysBelongTogether == SidesInStep /\ PairBelongsTogether /\ OnlyTheTweakedKey /\ PartiesAgree /\ BytesAreOneKey

=============================================================================
