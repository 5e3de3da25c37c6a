---------------------------- MODULE SchnorrBatch ----------------------------
(***************************************************************************)
(* Batches of Schnorr signatures: verify_batch, and the aggregation of     *)
(* signatures of one message (aggrate_sign and aggrate_verify), of         *)
(* modules/schnorrsig/main_impl.h.  A batch is two loops that draw the     *)
(* same randomizers from one seed at their own pace: verify_batch_sum_s,   *)
(* one signature at a time, and the callback of ecmult_multi_var, which    *)
(* gets the indices 0, 1, 2, ... whatever the batches are                  *)
(* (EcmultMulti!CalledInOrder) and keeps the randomizers in a cache.       *)
(***************************************************************************)
EXTENDS SchnorrSig, Sequences

CONSTANTS
  Keys, Nonces,             \* secret keys, what the nonce function returns
  ForgedSigs,               \* signatures that nobody made
  Streams,                  \* what the generator of random scalars may make of a seed: for
                            \* each index a sequence of pairs of numbers
  MaxSigs                   \* bound: signatures of a batch

Signature == [r : 0..MaxBytes, s : 0..MaxBytes]

\* A stream has randomizers for every pair of signatures after the first one.
ASSUME BatchAssumption ==
  /\ Keys \subseteq 1..(Order-1) /\ Nonces \subseteq Nat /\ ForgedSigs \subseteq Signature
  /\ MaxSigs \in Nat
  /\ \A t \in Streams : \A k \in 1..(MaxSigs \div 2) : NextRandomizers(t[k]) \in [0..1 -> Scalars]

VARIABLES
  sigs,     \* the signatures of the batch: [sig, msg, pk]
  job,      \* what is done with them: "collect", "verify_batch", "aggrate_sign",
            \* "aggrate_verify", or "done"
  agg,      \* the sum that aggrate_sign made, or -1
  stream,   \* what the generator makes of the seed of the batch
  cache,    \* the randomizers of the loop that runs
  i,        \* its index
  s,        \* the sum of the s parts
  rj,       \* the sum of the points so far
  verdict   \* the answers so far: "none", "yes" or "no" of each job

batchVars == <<sigs, job, agg, stream, cache, i, s, rj, verdict>>

NoVerdict == [verify_batch |-> "none", aggrate_sign |-> "none", aggrate_verify |-> "none"]
FirstCache == [k \in 0..1 |-> IF k = 0 THEN 1 ELSE 0]

BatchInit ==
  /\ sigs = <<>> /\ job = "collect" /\ agg = -1
  /\ stream \in Streams
  /\ cache = FirstCache /\ i = 0 /\ s = 0 /\ rj = Infinity
  /\ verdict = NoVerdict

Include(t) ==
  /\ job = "collect" /\ Len(sigs) < MaxSigs
  /\ sigs' = Append(sigs, t)
  /\ UNCHANGED <<job, agg, stream, cache, i, s, rj, verdict>>

Signed(key, nonce, msg) ==
  LET made == schnorrsig_sign(key, msg, nonce, TRUE)
  IN  made.ret /\ Include([sig |-> made.sig, msg |-> msg, pk |-> PublicKey(key)[1]])

Forged(key, sig, msg) == Include([sig |-> sig, msg |-> msg, pk |-> PublicKey(key)[1]])

Answer(what, yes) ==
  /\ job' = "done"
  /\ verdict' = [verdict EXCEPT ![what] = IF yes THEN "yes" ELSE "no"]

\* Only aggrate_verify starts with the sum given, which has to be a scalar.
Start(what) ==
  /\ job = "collect" \/ (job = "done" /\ verdict[what] = "none")
  /\ what = "aggrate_verify" => agg # -1
  /\ what # "verify_batch" => \A t \in {sigs[k] : k \in 1..Len(sigs)} : t.msg = sigs[1].msg
  /\ cache' = FirstCache /\ i' = 0 /\ rj' = Infinity
  /\ IF what = "aggrate_verify"
     THEN LET given == scalar_set_b32(agg)
          IN  /\ s' = scalar_negate(given.r)
              /\ IF given.overflow THEN Answer(what, FALSE) ELSE job' = what /\ UNCHANGED verdict
     ELSE s' = 0 /\ job' = what /\ UNCHANGED verdict
  /\ UNCHANGED <<sigs, agg, stream>>

\* A mutant: a signature whose s is no scalar is left out.
SumS_SkipsOverflow ==
  /\ job \in {"verify_batch", "aggrate_sign"} /\ i < Len(sigs)
  /\ LET c == IF i % 2 = 1 THEN NextRandomizers(stream[i \div 2 + 1]) ELSE cache
         term == scalar_set_b32(sigs[i+1].sig.s)
     IN  /\ cache' = c
         /\ s' = scalar_add(s, scalar_mul(term.r, c[i % 2]))
         /\ i' = i + 1
  /\ UNCHANGED <<job, verdict, sigs, agg, stream, rj>>

\* One turn of schnorrsig_verify_batch_sum_s; rj = <<>> until it ends.
SumS ==
  /\ job \in {"verify_batch", "aggrate_sign"} /\ i < Len(sigs)
  /\ LET c == IF i % 2 = 1 THEN NextRandomizers(stream[i \div 2 + 1]) ELSE cache
         term == scalar_set_b32(sigs[i+1].sig.s)
     IN  IF term.overflow
         THEN Answer(job, FALSE) /\ UNCHANGED <<cache, s, i>>
         ELSE /\ cache' = c
              /\ s' = scalar_add(s, scalar_mul(term.r, c[i % 2]))
              /\ i' = i + 1
              /\ UNCHANGED <<job, verdict>>
  /\ UNCHANGED <<sigs, agg, stream, rj>>

\* verify_batch goes on to the sum of the points with a fresh cache.
SumPoints ==
  /\ job = "verify_batch" /\ i = Len(sigs)
  /\ job' = "points" /\ s' = scalar_negate(s)
  /\ cache' = FirstCache /\ i' = 0
  /\ UNCHANGED <<sigs, agg, stream, rj, verdict>>

\* A mutant: the aggregate is negated twice.
AggregateDone_Negated ==
  /\ job = "aggrate_sign" /\ i = Len(sigs)
  /\ agg' = scalar_negate(s)
  /\ Answer("aggrate_sign", TRUE)
  /\ UNCHANGED <<sigs, stream, cache, i, s, rj>>

AggregateDone ==
  /\ job = "aggrate_sign" /\ i = Len(sigs)
  /\ agg' = s
  /\ Answer("aggrate_sign", TRUE)
  /\ UNCHANGED <<sigs, stream, cache, i, s, rj>>

Asked == IF job = "points" THEN "verify_batch" ELSE "aggrate_verify"

\* One call of the callback; a callback that returns 0 ends the sum.
EcmultCallback ==
  /\ job \in {"points", "aggrate_verify"} /\ i < 2 * Len(sigs)
  /\ LET c == IF i % 4 = 2 THEN NextRandomizers(stream[i \div 4 + 1]) ELSE cache
         term == CallbackTerm(sigs, i, c)
     IN  /\ cache' = c
         /\ IF term.ok THEN /\ rj' = Sum_of(rj, Times(term.sc, term.pt))
                            /\ i' = i + 1
                            /\ UNCHANGED <<job, verdict>>
            ELSE Answer(Asked, FALSE) /\ UNCHANGED <<rj, i>>
  /\ UNCHANGED <<sigs, agg, stream, s>>

\* The multiple of the generator is in the first batch of the sum.
MultiDone ==
  /\ job \in {"points", "aggrate_verify"} /\ i = 2 * Len(sigs)
  /\ Answer(Asked, Sum_of(rj, Times(s, Generator)) = Infinity)
  /\ UNCHANGED <<sigs, agg, stream, cache, i, s, rj>>

BatchNext ==
  \/ \E key \in Keys, nonce \in Nonces, msg \in Messages : Signed(key, nonce, msg)
  \/ \E key \in Keys, sig \in ForgedSigs, msg \in Messages : Forged(key, sig, msg)
  \/ \E what \in {"verify_batch", "aggrate_sign", "aggrate_verify"} : Start(what)
  \/ SumS \/ SumPoints \/ AggregateDone \/ EcmultCallback \/ MultiDone

BatchSpec == BatchInit /\ [][BatchNext]_batchVars

-----------------------------------------------------------------------------
Valid(t) == schnorrsig_verify(t.sig, t.msg, t.pk)

\* The randomizer of a signature, from its place in the batch alone.
RandomizerOf(k) ==
  IF k = 1 THEN 1 ELSE NextRandomizers(stream[k \div 2])[(k - 1) % 2]

Invalid == {k \in 1..Len(sigs) : ~Valid(sigs[k])}

\* A batch of valid signatures is accepted for every seed, by verify_batch
\* and, if they sign one message, by aggrate_verify after aggrate_sign: the two
\* loops use the same randomizer for the same signature.
ValidBatchAccepted ==
  Invalid = {} => \A what \in DOMAIN verdict : verdict[what] # "no"

\* One invalid signature among valid ones is refused, wherever it is in the
\* batch, unless its own randomizer is 0; the first one's never is.  A batch
\* of one signature is therefore verified as schnorrsig_verify does.
OneInvalidRefused ==
  \A k \in 1..Len(sigs) :
    Invalid = {k} /\ RandomizerOf(k) # 0 =>
      verdict["verify_batch"] # "yes" /\ verdict["aggrate_verify"] # "yes"

\* An aggregate says what the batch says of the signatures it is made of.
AggregateIsBatch ==
  (verdict["aggrate_verify"] # "none" /\ verdict["verify_batch"] # "none") =>
    verdict["aggrate_verify"] = verdict["verify_batch"]

\* verify_batch, aggrate_sign and aggrate_verify
\* (modules/schnorrsig/main_impl.h:474-596) against schnorrsig_verify of each
\* signature.
BatchSaysWhatItsSignaturesSay == ValidBatchAccepted /\ OneInvalidRefused /\ AggregateIsBatch

=============================================================================
