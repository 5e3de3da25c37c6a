----------------------------- MODULE SchnorrSig -----------------------------
(***************************************************************************)
(* Schnorr signatures (modules/schnorrsig/main_impl.h).  A signature is    *)
(* [r, s], two strings of bytes as numbers; r is the x coordinate of a     *)
(* point with an even y.  The tagged hash and the nonce function are       *)
(* parameters.                                                             *)
(***************************************************************************)
EXTENDS EcKey

CONSTANTS
  Messages,           \* what is signed
  Challenge(_, _, _)  \* the tagged hash of r, the x of a public key, and a message

\* A hash is a number.
ASSUME ChallengeAssumption == \A r, x \in 0..MaxBytes, m \in Messages : Challenge(r, x, m) \in Nat

schnorrsig_challenge(r, msg, pkx) == scalar_set_b32(Challenge(r, pkx, msg)).r

\* With a nonce from the nonce function, which may fail.  Both the key and the
\* nonce are negated if their points have an odd y.  A failure leaves zeros.
schnorrsig_sign(key, msg, nonce, nonce_ok) ==
  LET pk == PublicKey(key)
      sk == IF HasOddY(pk) THEN scalar_negate(key) ELSE key
      k0 == scalar_set_b32(nonce).r
      ret == nonce_ok /\ k0 # 0
      k == IF ret THEN k0 ELSE 1
      r == Times(k, Generator)
      k_even == IF HasOddY(r) THEN scalar_negate(k) ELSE k
      e == schnorrsig_challenge(r[1], msg, pk[1])
  IN  [ret |-> ret,
       sig |-> IF ret THEN [r |-> r[1], s |-> scalar_add(scalar_mul(e, sk), k_even)]
               ELSE [r |-> 0, s |-> 0]]

\* pkx is the x coordinate of a public key: an x-only key has an even y.
schnorrsig_verify(sig, msg, pkx) ==
  LET e == schnorrsig_challenge(sig.r, msg, pkx)
      r == Sum_of(Times(sig.s, Generator), Times(scalar_negate(e), LiftX(pkx)))
  IN  /\ sig.r < P
      /\ ~scalar_set_b32(sig.s).overflow
      /\ LiftX(pkx) # Infinity
      /\ r # Infinity /\ ~HasOddY(r) /\ r[1] = sig.r

\* The randomizers that follow one call of the generator of random scalars:
\* the first scalar is replaced by a half of the second.
NextRandomizers(pairs) ==
  LET h == scalar_split_128_randomizer(scalar_chacha20(pairs)[2]) IN [i \in 0..1 |-> h[i+1]]

\* A mutant: the challenge is multiplied with the randomizer of its index.
CallbackTerm_IndexParity(sigs, idx, cache) ==
  LET t == sigs[idx \div 2 + 1]
      e == schnorrsig_challenge(t.sig.r, t.msg, t.pk)
  IN  IF idx % 2 = 0
      THEN [ok |-> LiftX(t.sig.r) # Infinity, sc |-> cache[(idx \div 2) % 2], pt |-> LiftX(t.sig.r)]
      ELSE [ok |-> TRUE, sc |-> scalar_mul(e, cache[idx % 2]), pt |-> LiftX(t.pk)]

\* The scalar and the point that the callbacks of the batch verification make
\* of a signature: R for an even index, e * P for an odd one.
CallbackTerm(sigs, idx, cache) ==
  LET t == sigs[idx \div 2 + 1]
      a == cache[(idx \div 2) % 2]
      e == schnorrsig_challenge(t.sig.r, t.msg, t.pk)
  IN  IF idx % 2 = 0 THEN [ok |-> LiftX(t.sig.r) # Infinity, sc |-> a, pt |-> LiftX(t.sig.r)]
      ELSE [ok |-> TRUE, sc |-> scalar_mul(e, a), pt |-> LiftX(t.pk)]

=============================================================================
