------------------------------- MODULE Ecdsa -------------------------------
(***************************************************************************)
(* ECDSA signatures (ecdsa_impl.h, secp256k1.c, and the recovery of public *)
(* keys of modules/recovery/main_impl.h).  A signature is [r, s, recid],   *)
(* where r is the x coordinate of a point less a multiple of the order:    *)
(* the field is larger than the order, so that x may be r or r + Order.    *)
(* A signer asks for nonces until one gives a signature; the signature     *)
(* goes to parties that normalize it, verify it, and recover the key from  *)
(* it, and others give them numbers that nobody signed.                    *)
(***************************************************************************)
EXTENDS EcKey

CONSTANTS
  SignKeys,     \* bytes of the secret keys of signers
  NonceBytes,   \* what a nonce function may return
  Hashes,       \* hashes of messages
  SigBytes,     \* numbers of 32 bytes in a compact signature
  MaxNonces     \* bound: nonces of a signature

\* A coordinate is less than twice the order.
ASSUME EcdsaAssumption ==
  /\ SignKeys \cup NonceBytes \cup Hashes \cup SigBytes \subseteq Nat
  /\ P < 2 * Order

VARIABLES
  step,   \* "start", "nonce", "done", or "parsed"
  key,    \* the bytes of the secret key
  msg,    \* the hash of the message
  count,  \* nonces asked for
  sig,    \* the signature
  ok      \* what the function returned

ecdsaVars == <<step, key, msg, count, sig, ok>>

ZeroSig == [r |-> 0, s |-> 0, recid |-> 0]

P_minus_order == P - Order

\* A mutant: recid stays that of the nonce when s is negated.
ecdsa_sig_sign_KeepsRecid(seckey, message, nonce) ==
  LET q == Times(nonce, Generator)
      r == scalar_set_b32(q[1])
      s == scalar_mul(scalar_inverse(nonce), scalar_add(scalar_mul(r.r, seckey), message))
  IN  [ret |-> r.r # 0 /\ s # 0,
       sig |-> [r |-> r.r, s |-> scalar_cond_negate(s, scalar_is_high(s)),
                recid |-> (IF r.overflow THEN 2 ELSE 0) + (IF HasOddY(q) THEN 1 ELSE 0)]]

\* recid: 1 if y is odd, 2 if x is not less than the order.  The s that is not
\* high is the one of the negative nonce, whose y is the other one.
ecdsa_sig_sign(seckey, message, nonce) ==
  LET q == Times(nonce, Generator)
      r == scalar_set_b32(q[1])
      odd == IF HasOddY(q) THEN 1 ELSE 0
      s == scalar_mul(scalar_inverse(nonce), scalar_add(scalar_mul(r.r, seckey), message))
      high == scalar_is_high(s)
  IN  [ret |-> r.r # 0 /\ s # 0,
       sig |-> [r |-> r.r, s |-> scalar_cond_negate(s, high),
                recid |-> (IF r.overflow THEN 2 ELSE 0) + (IF high THEN 1 - odd ELSE odd)]]

\* A mutant: an x not less than the order is not thought of.
ecdsa_sig_verify_OneX(g, pubkey, message) ==
  LET sn == scalar_inverse(g.s)
      pr == Sum_of(Times(scalar_mul(sn, g.r), pubkey), Times(scalar_mul(sn, message), Generator))
  IN  g.r # 0 /\ g.s # 0 /\ pr # Infinity /\ pr[1] = g.r

\* The second candidate for x is tried only if it is a field element.
ecdsa_sig_verify(g, pubkey, message) ==
  LET sn == scalar_inverse(g.s)
      pr == Sum_of(Times(scalar_mul(sn, g.r), pubkey), Times(scalar_mul(sn, message), Generator))
  IN  /\ g.r # 0 /\ g.s # 0
      /\ pr # Infinity
      /\ pr[1] = g.r \/ (g.r < P_minus_order /\ pr[1] = g.r + Order)

\* A mutant: a high s is taken.
ecdsa_verify_HighToo(g, message, pubkey) ==
  pubkey # NoKey /\ ecdsa_sig_verify(g, pubkey, scalar_set_b32(message).r)

ecdsa_verify(g, message, pubkey) ==
  ~scalar_is_high(g.s) /\ pubkey # NoKey /\ ecdsa_sig_verify(g, pubkey, scalar_set_b32(message).r)

ecdsa_signature_normalize(g) ==
  [g EXCEPT !.s = IF scalar_is_high(@) THEN scalar_negate(@) ELSE @]

ecdsa_sig_recover(g, message) ==
  LET x == IF g.recid >= 2 THEN g.r + Order ELSE g.r
      even == LiftX(x)
      point == IF g.recid % 2 = 1 THEN Negative(even) ELSE even
      rn == scalar_inverse(g.r)
  IN  IF \/ g.r = 0 \/ g.s = 0
         \/ (g.recid >= 2 /\ g.r >= P_minus_order)
         \/ even = Infinity
      THEN NoKey
      ELSE Sum_of(Times(scalar_mul(rn, g.s), point),
                  Times(scalar_negate(scalar_mul(rn, message)), Generator))

ecdsa_recover(g, message) == ecdsa_sig_recover(g, scalar_set_b32(message).r)

-----------------------------------------------------------------------------
EcdsaInit ==
  /\ step = "start" /\ key = 0 /\ msg \in Hashes
  /\ count = 0 /\ sig = ZeroSig /\ ok = FALSE

\* An invalid secret key goes on as 1, and fails at the end.
SignInner(k) ==
  /\ step = "start"
  /\ step' = "nonce" /\ key' = k
  /\ UNCHANGED <<msg, count, sig, ok>>

SecValid == scalar_set_b32_seckey(key).ok
Sec == IF SecValid THEN key ELSE 1

\* One turn of the loop of ecdsa_sign_inner.  A nonce that is no scalar, or that
\* gives no signature, asks for the next one.
Nonce(n) ==
  /\ step = "nonce" /\ count < MaxNonces
  /\ count' = count + 1
  /\ LET non == scalar_set_b32_seckey(n)
         made == ecdsa_sig_sign(Sec, scalar_set_b32(msg).r, non.r)
         ret == SecValid
     IN  CASE ~non.ok -> UNCHANGED <<step, sig, ok>>
           [] non.ok /\ ~made.ret -> sig' = made.sig /\ UNCHANGED <<step, ok>>
           [] OTHER -> /\ step' = "done" /\ ok' = ret
                       /\ sig' = IF ret THEN made.sig ELSE ZeroSig
  /\ UNCHANGED <<key, msg>>

\* The nonce function has no other nonce.
NonceFails ==
  /\ step = "nonce"
  /\ step' = "done" /\ ok' = FALSE /\ sig' = ZeroSig
  /\ UNCHANGED <<key, msg, count>>

\* Somebody's numbers, by recoverable_signature_parse_compact.
ParseCompact(r, s, recid) ==
  /\ step = "start"
  /\ LET rr == scalar_set_b32(r)
         ss == scalar_set_b32(s)
         ret == ~rr.overflow /\ ~ss.overflow
     IN  /\ ok' = ret
         /\ sig' = IF ret THEN [r |-> rr.r, s |-> ss.r, recid |-> recid] ELSE ZeroSig
  /\ step' = "parsed"
  /\ UNCHANGED <<key, msg, count>>

EcdsaNext ==
  \/ \E k \in SignKeys : SignInner(k)
  \/ \E n \in NonceBytes : Nonce(n)
  \/ NonceFails
  \/ \E r, s \in SigBytes, recid \in 0..3 : ParseCompact(r, s, recid)

EcdsaSpec == EcdsaInit /\ [][EcdsaNext]_ecdsaVars

-----------------------------------------------------------------------------
\* What a valid key signs is verified with its public key, which is also the
\* one recovered from it, for nonces whose point has an x above the order too;
\* a signature is never high.  Without success there is no trace of a nonce
\* that was tried (secp256k1.c:511-565, ecdsa_impl.h:275-310).
SignedIsVerified ==
  step = "done" =>
    IF ok
    THEN /\ ecdsa_verify(sig, msg, PublicKey(key))
         /\ ecdsa_recover(sig, msg) = PublicKey(key)
    ELSE sig = ZeroSig

\* A key is recovered from a signature for some recid if and only if the
\* signature is valid for that key, and no two recids give one key
\* (recovery/main_impl.h:87-122, ecdsa_impl.h:207-273).
RecoveredAreVerified ==
  LET g(recid) == [sig EXCEPT !.recid = recid]
      m == scalar_set_b32(msg).r
      found == {ecdsa_sig_recover(g(recid), m) : recid \in 0..3} \ {NoKey}
  IN  step = "parsed" =>
        /\ found = {q \in Affine : ecdsa_sig_verify(sig, q, m)}
        /\ \A a, b \in 0..3 : a # b =>
             ecdsa_sig_recover(g(a), m) = NoKey \/ ecdsa_sig_recover(g(a), m) # ecdsa_sig_recover(g(b), m)

\* Of the two signatures with s and -s, ecdsa_verify takes the one that
\* normalize makes of both, and no other (secp256k1.c:437-471).
OneOfTwo ==
  LET other == [sig EXCEPT !.s = scalar_negate(@)]
      low == ecdsa_signature_normalize(sig)
      m == scalar_set_b32(msg).r
  IN  step = "parsed" /\ sig.s # 0 =>
        /\ low = ecdsa_signature_normalize(other) /\ ~scalar_is_high(low.s)
        /\ \A q \in Affine :
             /\ ecdsa_verify(sig, msg, q) <=> ecdsa_sig_verify(sig, q, m) /\ low = sig
             /\ ecdsa_sig_verify(sig, q, m) = ecdsa_verify(low, msg, q)

\* Signing, normalization, verification and recovery (secp256k1.c:437-565,
\* ecdsa_impl.h:207-310, recovery/main_impl.h) agree on every signature, also
\* where x is above the order.
SignaturesCorrect == SignedIsVerified /\ RecoveredAreVerified /\ OneOfTwo

=============================================================================
