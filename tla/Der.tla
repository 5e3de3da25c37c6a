-------------------------------- MODULE Der --------------------------------
(***************************************************************************)
(* Signatures and secret keys as DER: the strict parser and the serializer *)
(* of ecdsa_impl.h, the lax parser of contrib/lax_der_parsing.c, and the   *)
(* import of keys of contrib/lax_der_privatekey_parsing.c.  A string of    *)
(* bytes starts as one that the library wrote, or as one with integers     *)
(* that are too long, and is edited byte by byte.  A position is the index *)
(* of the next byte; no parser reads a byte that is not there.             *)
(***************************************************************************)
EXTENDS Integers, Sequences

LOCAL INSTANCE SequencesExt   \* InsertAt, RemoveAt

CONSTANTS
  ByteBase,       \* the number of values of a byte, a power of 2
  SBytes,         \* the bytes of a scalar
  SizeBytes,      \* sizeof(size_t)
  SigOrder,       \* the order of the group
  SEQ, INT, OCT,  \* the tags 0x30, 0x02, 0x04
  SigValues,      \* pairs of scalars that are serialized
  LongWires,      \* other strings to start from
  KeyTails,       \* what an exported key has after the secret
  EditBytes,      \* bytes written by an edit
  MaxEdits        \* bound: edits of a string of each kind

VARIABLES
  kind,   \* "sig", "long" or "key"
  wire,   \* the string
  edits   \* edits so far

derVars == <<kind, wire, edits>>

HighBit == ByteBase \div 2

ASSUME DerAssumption ==
  /\ SigOrder < ByteBase^SBytes /\ SBytes >= 1
  /\ 6 + 2 * SBytes < HighBit   \* the length of a signature has the short form
  /\ SizeBytes >= 2

Big_endian(bytes) ==
  LET val[k \in 0..Len(bytes)] == IF k = 0 THEN 0 ELSE val[k-1] * ByteBase + bytes[k]
  IN  val[Len(bytes)]

\* scalar_get_b32, and scalar_set_b32 whose overflow makes it fail.
ToBytes(v) == [k \in 1..SBytes |-> (v \div ByteBase^(SBytes - k)) % ByteBase]

\* The length at pos and the position after it.
der_read_len(w, pos) ==
  LET b1 == w[pos]
      n == b1 - HighBit
      len == Big_endian(SubSeq(w, pos + 1, pos + n))
  IN  CASE pos > Len(w) -> [ok |-> FALSE]
        [] pos <= Len(w) /\ b1 < HighBit -> [ok |-> TRUE, len |-> b1, pos |-> pos + 1]
        [] OTHER ->
             IF /\ b1 # ByteBase - 1 /\ n # 0
                /\ n <= Len(w) - pos
                /\ w[pos + 1] # 0
                /\ n <= SizeBytes
                /\ len <= Len(w) - pos - n
                /\ len >= HighBit
             THEN [ok |-> TRUE, len |-> len, pos |-> pos + 1 + n]
             ELSE [ok |-> FALSE]

\* A mutant: needless zeros in front are taken.
der_parse_integer_AnyPadding(w, pos) ==
  LET l == der_read_len(w, pos + 1)
      first == w[l.pos]
      digits == SubSeq(w, IF first = 0 THEN l.pos + 1 ELSE l.pos, l.pos + l.len - 1)
      overflow == first >= HighBit \/ Len(digits) > SBytes \/ Big_endian(digits) >= SigOrder
  IN  IF pos <= Len(w) /\ w[pos] = INT /\ l.ok /\ l.len # 0 /\ l.pos + l.len - 1 <= Len(w)
      THEN [ok |-> TRUE, v |-> IF overflow THEN 0 ELSE Big_endian(digits), pos |-> l.pos + l.len]
      ELSE [ok |-> FALSE]

\* A number that is negative or too large is 0.
der_parse_integer(w, pos) ==
  LET l == der_read_len(w, pos + 1)
      first == w[l.pos]
      padded == l.len > 1 /\ \/ first = 0 /\ w[l.pos + 1] < HighBit
                             \/ first = ByteBase - 1 /\ w[l.pos + 1] >= HighBit
      digits == SubSeq(w, IF first = 0 THEN l.pos + 1 ELSE l.pos, l.pos + l.len - 1)
      overflow == first >= HighBit \/ Len(digits) > SBytes \/ Big_endian(digits) >= SigOrder
  IN  IF /\ pos <= Len(w) /\ w[pos] = INT
         /\ l.ok
         /\ l.len # 0 /\ l.pos + l.len - 1 <= Len(w)
         /\ ~padded
      THEN [ok |-> TRUE, v |-> IF overflow THEN 0 ELSE Big_endian(digits), pos |-> l.pos + l.len]
      ELSE [ok |-> FALSE]

Refused == [ret |-> FALSE, r |-> 0, s |-> 0]

ecdsa_sig_parse(w) ==
  LET l == der_read_len(w, 2)
      ends(r, s) ==
        IF s.ok /\ s.pos = Len(w) + 1 THEN [ret |-> TRUE, r |-> r.v, s |-> s.v] ELSE Refused
      second(r) == IF r.ok THEN ends(r, der_parse_integer(w, r.pos)) ELSE Refused
  IN  IF w # <<>> /\ w[1] = SEQ /\ l.ok /\ l.len = Len(w) - l.pos + 1
      THEN second(der_parse_integer(w, l.pos)) ELSE Refused

\* A zero byte in front, and all that is not needed taken off.
IntegerBytes(v) ==
  LET b == <<0>> \o ToBytes(v)
      needless(k) == \A j \in 1..k : b[j] = 0 /\ b[j+1] < HighBit
      first == CHOOSE k \in 0..SBytes : needless(k) /\ (k = SBytes \/ ~needless(k + 1))
  IN  SubSeq(b, first + 1, SBytes + 1)

\* In a buffer of size bytes; the size that it takes is told in any case.
ecdsa_sig_serialize(size, r, s) ==
  LET rb == IntegerBytes(r)
      sb == IntegerBytes(s)
      needed == 6 + Len(rb) + Len(sb)
  IN  [ret |-> size >= needed, size |-> needed,
       sig |-> IF size < needed THEN <<>>
               ELSE <<SEQ, 4 + Len(rb) + Len(sb), INT, Len(rb)>> \o rb \o <<INT, Len(sb)>> \o sb]

-----------------------------------------------------------------------------
(* The lax parser: any length of the sequence, and any padding. *)

ZerosFrom(w, pos, n) ==
  LET zeros(k) == \A j \in 1..k : w[pos + j - 1] = 0
  IN  CHOOSE k \in 0..n : zeros(k) /\ (k = n \/ ~zeros(k + 1))

\* A mutant: zeros in front of a number count as its bytes.
lax_integer_ZerosCount(w, pos) ==
  LET lenbyte == w[pos + 1]
      n == lenbyte - HighBit
      zeros == ZerosFrom(w, pos + 2, n)
      long == lenbyte >= HighBit
      at == IF long THEN pos + 2 + n ELSE pos + 2
      len == IF long THEN Big_endian(SubSeq(w, pos + 2 + zeros, pos + 1 + n)) ELSE lenbyte
  IN  IF /\ pos < Len(w) /\ w[pos] = INT
         /\ long => n <= Len(w) - pos - 1 /\ n - zeros < SizeBytes
         /\ len <= Len(w) - at + 1
      THEN [ok |-> TRUE, pos |-> at + len, overflow |-> len > SBytes,
            v |-> IF len > SBytes THEN 0 ELSE Big_endian(SubSeq(w, at, at + len - 1))]
      ELSE [ok |-> FALSE]

lax_integer(w, pos) ==
  LET lenbyte == w[pos + 1]
      n == lenbyte - HighBit
      zeros == ZerosFrom(w, pos + 2, n)
      long == lenbyte >= HighBit
      at == IF long THEN pos + 2 + n ELSE pos + 2
      len == IF long THEN Big_endian(SubSeq(w, pos + 2 + zeros, pos + 1 + n)) ELSE lenbyte
      skip == ZerosFrom(w, at, len)
      digits == SubSeq(w, at + skip, at + len - 1)
  IN  IF /\ pos < Len(w) /\ w[pos] = INT
         /\ long => n <= Len(w) - pos - 1 /\ n - zeros < SizeBytes
         /\ len <= Len(w) - at + 1
      THEN [ok |-> TRUE, pos |-> at + len, overflow |-> Len(digits) > SBytes,
            v |-> IF Len(digits) > SBytes THEN 0 ELSE Big_endian(digits)]
      ELSE [ok |-> FALSE]

\* Both numbers are 0 if one of them does not fit.
ecdsa_signature_parse_der_lax(w) ==
  LET n == w[2] - HighBit
      start == IF w[2] >= HighBit THEN 3 + n ELSE 3
      r == lax_integer(w, start)
      s == lax_integer(w, r.pos)
      overflow == \E i \in {r, s} : i.overflow \/ i.v >= SigOrder
  IN  IF /\ Len(w) >= 2 /\ w[1] = SEQ
         /\ n <= Len(w) - 2
         /\ r.ok /\ s.ok
      THEN [ret |-> TRUE, r |-> IF overflow THEN 0 ELSE r.v, s |-> IF overflow THEN 0 ELSE s.v]
      ELSE Refused

-----------------------------------------------------------------------------
(* Secret keys. *)

\* A key is written with its parameters and its public key as the tail.
ec_privkey_export_der(key, tail) ==
  LET len == 5 + SBytes + Len(tail)
      length == IF len < ByteBase THEN <<HighBit + 1, len>>
                ELSE <<HighBit + 2, len \div ByteBase, len % ByteBase>>
  IN  <<SEQ>> \o length \o <<INT, 1, 1, OCT, SBytes>> \o ToBytes(key) \o tail

\* A mutant: the secret is not verified.
ec_privkey_import_der_AnySecret(w) ==
  LET lenb == w[2] - HighBit
      at == 3 + lenb
  IN  IF /\ Len(w) >= 2 /\ w[1] = SEQ
         /\ lenb \in 1..2 /\ 2 + lenb <= Len(w)
         /\ at - 1 + Big_endian(SubSeq(w, 3, 2 + lenb)) <= Len(w)
         /\ at + 2 <= Len(w) /\ SubSeq(w, at, at + 2) = <<INT, 1, 1>>
         /\ at + 4 <= Len(w) /\ w[at+3] = OCT /\ w[at+4] <= SBytes /\ at + 4 + w[at+4] <= Len(w)
      THEN [ret |-> TRUE, key |-> Big_endian(SubSeq(w, at + 5, at + 4 + w[at+4]))]
      ELSE [ret |-> FALSE, key |-> 0]

\* The tail is not read; a secret may be short.
ec_privkey_import_der(w) ==
  LET lenb == w[2] - HighBit
      len == Big_endian(SubSeq(w, 3, 2 + lenb))
      at == 3 + lenb
      key == Big_endian(SubSeq(w, at + 5, at + 4 + w[at+4]))
  IN  IF /\ Len(w) >= 2 /\ w[1] = SEQ
         /\ lenb \in 1..2 /\ 2 + lenb <= Len(w)
         /\ at - 1 + len <= Len(w)
         /\ at + 2 <= Len(w) /\ SubSeq(w, at, at + 2) = <<INT, 1, 1>>
         /\ at + 4 <= Len(w) /\ w[at+3] = OCT /\ w[at+4] <= SBytes /\ at + 4 + w[at+4] <= Len(w)
         /\ key \in 1..(SigOrder-1)
      THEN [ret |-> TRUE, key |-> key] ELSE [ret |-> FALSE, key |-> 0]

-----------------------------------------------------------------------------
DerInit ==
  /\ \/ kind = "sig" /\ wire \in {ecdsa_sig_serialize(ByteBase, v[1], v[2]).sig : v \in SigValues}
     \/ kind = "long" /\ wire \in LongWires
     \/ kind = "key" /\ wire \in {ec_privkey_export_der(k, t) : k \in {v[1] : v \in SigValues}, t \in KeyTails}
  /\ edits = 0

Edit(w) ==
  /\ edits < MaxEdits[kind] /\ edits' = edits + 1
  /\ wire' = w
  /\ UNCHANGED kind

Replace(p, b) == Edit([wire EXCEPT ![p] = b])
Insert(p, b) == Edit(InsertAt(wire, p, b))
Delete(p) == Edit(RemoveAt(wire, p))

DerNext ==
  \/ \E p \in 1..Len(wire) : Delete(p) \/ \E b \in EditBytes : Replace(p, b)
  \/ \E p \in 1..(Len(wire) + 1), b \in EditBytes : Insert(p, b)

DerSpec == DerInit /\ [][DerNext]_derVars

-----------------------------------------------------------------------------
\* A signature has one encoding: two numbers that are not 0 are only parsed
\* from what they are serialized to, and a buffer that is too small is told
\* the size that is enough (ecdsa_impl.h:49-205; tests.c:5677-5698 tries this
\* on random damage).
OneEncoding ==
  LET fits(g) ==
        LET whole == ecdsa_sig_serialize(Len(wire), g.r, g.s)
            small == ecdsa_sig_serialize(Len(wire) - 1, g.r, g.s)
        IN  whole.ret /\ whole.sig = wire /\ ~small.ret /\ small.size = Len(wire)
      one(g) ==
        /\ g.ret /\ g.r # 0 /\ g.s # 0 => fits(g)
        /\ kind = "sig" /\ edits = 0 => g.ret /\ <<g.r, g.s>> \in SigValues
  IN  one(ecdsa_sig_parse(wire))

\* What the strict parser takes, the lax one takes for the same numbers; what
\* only the lax one takes has the numbers of some encoding
\* (contrib/lax_der_parsing.c:11-147).
LaxAgrees ==
  LET agree(g, lax) ==
        /\ g.ret => lax.ret
        /\ g.ret /\ g.r # 0 /\ g.s # 0 => lax = g
        /\ lax.r # 0 /\ lax.s # 0 =>
             ecdsa_sig_parse(ecdsa_sig_serialize(ByteBase, lax.r, lax.s).sig) = lax
  IN  agree(ecdsa_sig_parse(wire), ecdsa_signature_parse_der_lax(wire))

\* An import gives a valid key or zeros, whatever the bytes are, and the key
\* of an export (contrib/lax_der_privatekey_parsing.c:11-112).
ImportedIsKey ==
  LET k == ec_privkey_import_der(wire)
  IN  /\ IF k.ret THEN k.key \in 1..(SigOrder-1) ELSE k.key = 0
      /\ kind = "key" /\ edits = 0 =>
           k.ret /\ \E t \in KeyTails : wire = ec_privkey_export_der(k.key, t)

\* The parsers and serializers of signatures and secret keys (ecdsa_impl.h:49-205
\* and contrib/lax_der_*.c) agree on what bytes stand for.
EncodingsCorrect == OneEncoding /\ LaxAgrees /\ ImportedIsKey

=============================================================================
