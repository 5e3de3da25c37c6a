------------------------------- MODULE EcKey -------------------------------
(***************************************************************************)
(* Keys (eckey_impl.h, the ec_ functions of secp256k1.c, and the x-only    *)
(* keys and key pairs of modules/extrakeys/main_impl.h).  A secret key is  *)
(* the number that its 32 bytes are, a public key a point; the bytes of    *)
(* either are zeros after a failure, and zeros are no key.  Points are     *)
(* points of the curve: the algorithms that multiply them are modelled in  *)
(* Ecmult.                                                                 *)
(***************************************************************************)
EXTENDS Curve

CONSTANTS
  MaxBytes   \* the largest number that 32 bytes hold

\* Coordinates and scalars fit into 32 bytes.
ASSUME BytesAssumption == MaxBytes \in Nat /\ P - 1 <= MaxBytes /\ Order - 1 <= MaxBytes

\* The zeros that a failed function leaves.
NoSecret == 0
NoKey == Infinity

\* The public key of a secret key: a point.
PublicKey(sk) == Times(sk, Generator)

HasOddY(p) == p[2] % 2 = 1

\* The point with this x and an even y, or Infinity if there is none or the
\* bytes are no field element.
Lifted ==
  [x \in 0..MaxBytes |->
     IF \E p \in Affine : p[1] = x /\ ~HasOddY(p) THEN CHOOSE p \in Affine : p[1] = x /\ ~HasOddY(p)
     ELSE Infinity]

LiftX(x) == Lifted[x]

-----------------------------------------------------------------------------
(* Serialized public keys: [size, tag, x, y], where 33 bytes have no y. *)

TagOf == [even |-> 2, odd |-> 3, uncompressed |-> 4, hybrid_even |-> 6, hybrid_odd |-> 7]

\* A mutant: a hybrid key is taken whatever its tag says of y.
eckey_pubkey_parse_AnyHybrid(pub) ==
  LET lift == LiftX(pub.x)
  IN  CASE pub.size = 33 /\ pub.tag = TagOf.even -> lift
        [] pub.size = 33 /\ pub.tag = TagOf.odd -> Negative(lift)
        [] pub.size = 65 /\ pub.tag \in {4, 6, 7} /\ <<pub.x, pub.y>> \in Affine -> <<pub.x, pub.y>>
        [] OTHER -> NoKey

eckey_pubkey_parse(pub) ==
  LET lift == LiftX(pub.x)
      whole == <<pub.x, pub.y>>
      hybrid == pub.tag \in {TagOf.hybrid_even, TagOf.hybrid_odd}
  IN  IF pub.size = 33
      THEN IF pub.tag \notin {TagOf.even, TagOf.odd} THEN NoKey
           ELSE IF pub.tag = TagOf.odd THEN Negative(lift) ELSE lift
      ELSE IF /\ pub.size = 65
              /\ hybrid \/ pub.tag = TagOf.uncompressed
              /\ pub.x < P /\ pub.y < P
              /\ hybrid => HasOddY(whole) = (pub.tag = TagOf.hybrid_odd)
              /\ whole \in Affine
           THEN whole ELSE NoKey

\* Of an invalid key nothing but zeros.
ec_pubkey_serialize(p, compressed) ==
  CASE p = NoKey -> [size |-> 0, tag |-> 0, x |-> 0, y |-> 0]
    [] p # NoKey /\ compressed ->
         [size |-> 33, tag |-> IF HasOddY(p) THEN TagOf.odd ELSE TagOf.even, x |-> p[1], y |-> 0]
    [] OTHER -> [size |-> 65, tag |-> TagOf.uncompressed, x |-> p[1], y |-> p[2]]

\* The sign of memcmp: an invalid key is below all others.
ec_pubkey_cmp(p, q) ==
  LET a == ec_pubkey_serialize(p, TRUE)
      b == ec_pubkey_serialize(q, TRUE)
  IN  CASE a.tag < b.tag \/ (a.tag = b.tag /\ a.x < b.x) -> -1
        [] a.tag = b.tag /\ a.x = b.x -> 0
        [] OTHER -> 1

-----------------------------------------------------------------------------
(* Secret keys. *)

ec_pubkey_create(sk) ==
  IF scalar_set_b32_seckey(sk).ok THEN PublicKey(sk) ELSE NoKey

ec_seckey_negate(sk) ==
  LET sec == scalar_set_b32_seckey(sk) IN scalar_negate(IF sec.ok THEN sec.r ELSE 0)

\* A tweak is a number of 32 bytes; the helpers work on a scalar and a point.
seckey_tweak_add_helper(sec, tweak) ==
  LET term == scalar_set_b32(tweak)
      sum == scalar_add(sec, term.r)
  IN  [ret |-> ~term.overflow /\ sum # 0, sec |-> sum]

\* A mutant: a tweak out of range is reduced.
ec_seckey_tweak_add_Reduces(sk, tweak) ==
  LET sec == scalar_set_b32_seckey(sk)
  IN  IF sec.ok THEN scalar_add(sec.r, scalar_set_b32(tweak).r) ELSE NoSecret

ec_seckey_tweak_add(sk, tweak) ==
  LET sec == scalar_set_b32_seckey(sk)
      t == seckey_tweak_add_helper(sec.r, tweak)
  IN  IF sec.ok /\ t.ret THEN t.sec ELSE NoSecret

ec_seckey_tweak_mul(sk, tweak) ==
  LET sec == scalar_set_b32_seckey(sk)
      factor == scalar_set_b32(tweak)
  IN  IF sec.ok /\ ~factor.overflow /\ factor.r # 0 THEN scalar_mul(sec.r, factor.r) ELSE NoSecret

-----------------------------------------------------------------------------
(* Public keys. *)

ec_pubkey_negate(p) == IF p = NoKey THEN NoKey ELSE Negative(p)

pubkey_tweak_add_helper(p, tweak) ==
  LET term == scalar_set_b32(tweak)
  IN  IF term.overflow THEN NoKey ELSE Sum_of(p, Times(term.r, Generator))

ec_pubkey_tweak_add(p, tweak) == IF p = NoKey THEN NoKey ELSE pubkey_tweak_add_helper(p, tweak)

ec_pubkey_tweak_mul(p, tweak) ==
  LET factor == scalar_set_b32(tweak)
  IN  IF p = NoKey \/ factor.overflow \/ factor.r = 0 THEN NoKey ELSE Times(factor.r, p)

\* Of valid keys; the sum may be no key.
ec_pubkey_combine(p, q) == Sum_of(p, q)

\* A mutant: a high secret is replaced by its negative.
ecdh_LowSecret(p, sk) ==
  LET s == scalar_set_b32(sk)
      bad == s.overflow \/ s.r = 0
  IN  [ret |-> ~bad, pt |-> Times(IF scalar_is_high(s.r) THEN scalar_negate(s.r) ELSE s.r, p)]

\* The point whose hash two parties share; 1 stands for a secret that is none.
ecdh(p, sk) ==
  LET s == scalar_set_b32(sk)
      bad == s.overflow \/ s.r = 0
  IN  [ret |-> ~bad, pt |-> Times(IF bad THEN 1 ELSE s.r, p)]

-----------------------------------------------------------------------------
(* x-only keys, which are points with an even y, and pairs [sk, pk]. *)

extrakeys_ge_even_y(p) == IF HasOddY(p) THEN [pk |-> Negative(p), parity |-> 1] ELSE [pk |-> p, parity |-> 0]

xonly_pubkey_from_pubkey(p) == IF p = NoKey THEN [pk |-> NoKey, parity |-> 0] ELSE extrakeys_ge_even_y(p)

xonly_pubkey_tweak_add(xonly, tweak) == ec_pubkey_tweak_add(xonly, tweak)

\* A mutant: the parity is not looked at.
xonly_pubkey_tweak_add_check_AnyParity(x, parity, xonly, tweak) ==
  LET expected == xonly_pubkey_tweak_add(xonly, tweak) IN expected # NoKey /\ expected[1] = x

xonly_pubkey_tweak_add_check(x, parity, xonly, tweak) ==
  LET expected == xonly_pubkey_tweak_add(xonly, tweak)
  IN  /\ expected # NoKey
      /\ expected[1] = x /\ HasOddY(expected) = (parity = 1)

NoPair == [sk |-> NoSecret, pk |-> NoKey]

keypair_create(sk) ==
  IF scalar_set_b32_seckey(sk).ok THEN [sk |-> sk, pk |-> PublicKey(sk)] ELSE NoPair

\* A mutant: the secret key is not negated with its point.
keypair_xonly_tweak_add_KeepsSecret(pair, tweak) ==
  LET sec == seckey_tweak_add_helper(pair.sk, tweak)
      pk == pubkey_tweak_add_helper(extrakeys_ge_even_y(pair.pk).pk, tweak)
  IN  IF pair # NoPair /\ sec.ret /\ pk # NoKey THEN [sk |-> sec.sec, pk |-> pk] ELSE NoPair

\* The pair of a failed function goes on as that of 1, and fails at the end.
keypair_xonly_tweak_add(pair, tweak) ==
  LET loaded == pair.pk # NoKey /\ scalar_set_b32_seckey(pair.sk).ok
      used == IF loaded THEN pair ELSE [sk |-> 1, pk |-> Generator]
      even == extrakeys_ge_even_y(used.pk)
      sk == IF even.parity = 1 THEN scalar_negate(used.sk) ELSE used.sk
      sec == seckey_tweak_add_helper(sk, tweak)
      pk == pubkey_tweak_add_helper(even.pk, tweak)
  IN  IF loaded /\ sec.ret /\ pk # NoKey THEN [sk |-> sec.sec, pk |-> pk] ELSE NoPair

=============================================================================
