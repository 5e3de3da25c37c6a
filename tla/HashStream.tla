----------------------------- MODULE HashStream -----------------------------
(***************************************************************************)
(* The stream of a hash (secp256k1_sha256_write and _finalize,             *)
(* hash_impl.h): bytes come in pieces of any length, whole blocks of them  *)
(* are transformed, the rest waits in the buffer.  The transformation is   *)
(* the sequence of the blocks it was given, and a byte is the place that   *)
(* it has in the data, so that a byte lost, kept or doubled is seen.       *)
(***************************************************************************)
EXTENDS Integers, Sequences

CONSTANTS
  HashBlock,     \* 64: bytes of a block
  CountBytes,    \* 8: bytes of the count of bits that ends the data
  CountWord,     \* 2^32: values of each of the two words of the count
  MaxPiece,      \* bound: bytes of a piece
  MaxData        \* bound: bytes of the data

VARIABLES
  hash,     \* [s, buf, bytes]: the blocks transformed, the buffer, the count
  given,    \* how many bytes of data were written
  final     \* the blocks that the output is made of, or <<>> before finalize

hashVars == <<hash, given, final>>

ASSUME HashAssumption ==
  /\ HashBlock \in Nat /\ CountBytes \in 1..(HashBlock-1)
  /\ CountWord \in Nat \ {0} /\ CountWord % 8 = 0
  /\ MaxPiece \in Nat /\ MaxData \in Nat /\ MaxData * 8 < CountWord * CountWord

\* What finalize appends: a 1 bit, zeros, and the count of the bits.
Byte(n) == <<"data", n>>
Marker == <<"0x80">>
ZeroByte == <<"0x00">>
Count(high, low, k) == <<"count", high, low, k>>

Blank == [k \in 1..HashBlock |-> ZeroByte]

\* A buffer with data from offset on.
Filled(buf, offset, data) ==
  [k \in 1..HashBlock |-> IF k \in (offset + 1)..(offset + Len(data)) THEN data[k - offset] ELSE buf[k]]

sha256_initialize == [s |-> <<>>, buf |-> Blank, bytes |-> 0]

\* Bug: one block is transformed where the code loops (hash_impl.h:136).
sha256_write_OneBlock(h, data) ==
  LET bufsize == h.bytes % HashBlock
      room == HashBlock - bufsize
      fills == Len(data) >= room
      buf == Filled(h.buf, bufsize, SubSeq(data, 1, room))
  IN  IF fills
      THEN [s |-> Append(h.s, buf), bytes |-> h.bytes + Len(data),
            buf |-> Filled(buf, bufsize, SubSeq(data, room + 1, Len(data)))]
      ELSE [s |-> h.s, bytes |-> h.bytes + Len(data), buf |-> Filled(h.buf, bufsize, data)]

\* Blocks as long as the data fill the buffer; then what remains.
sha256_write(h, data) ==
  LET bufsize == h.bytes % HashBlock
      room == HashBlock - bufsize
      turns == IF Len(data) < room THEN 0 ELSE 1 + (Len(data) - room) \div HashBlock
      used(k) == IF k = 0 THEN 0 ELSE room + (k - 1) * HashBlock
      turn[k \in 0..turns] ==
        IF k = 0 THEN [s |-> h.s, buf |-> h.buf]
        ELSE LET buf == Filled(turn[k-1].buf, IF k = 1 THEN bufsize ELSE 0,
                               SubSeq(data, used(k - 1) + 1, used(k)))
             IN  [s |-> Append(turn[k-1].s, buf), buf |-> buf]
      last == turn[turns]
  IN  [s |-> last.s, bytes |-> h.bytes + Len(data),
       buf |-> Filled(last.buf, IF turns = 0 THEN bufsize ELSE 0,
                      SubSeq(data, used(turns) + 1, Len(data)))]

\* The count is taken before the padding is written: its high word has what a
\* shift by 3 pushes out of the low one.
sha256_finalize(h) ==
  LET high == h.bytes \div (CountWord \div 8)
      low == (h.bytes * 8) % CountWord
      zeros == (2 * HashBlock - CountBytes - 1 - (h.bytes % HashBlock)) % HashBlock
      padded == sha256_write(h, <<Marker>> \o [k \in 1..zeros |-> ZeroByte])
  IN  sha256_write(padded, [k \in 1..CountBytes |-> Count(high, low, k)])

\* A tagged hash of schnorrsig starts after one whole block.
sha256_tagged == sha256_write(sha256_initialize, [k \in 1..HashBlock |-> Byte(k)])

HashInit ==
  /\ hash \in {sha256_initialize, sha256_tagged}
  /\ given = hash.bytes
  /\ final = <<>>

Write(len) ==
  /\ final = <<>> /\ given + len <= MaxData
  /\ hash' = sha256_write(hash, [k \in 1..len |-> Byte(given + k)])
  /\ given' = given + len
  /\ UNCHANGED final

Finalize ==
  LET done == sha256_finalize(hash)
  IN  /\ final = <<>>
      /\ final' = done.s
      /\ hash' = [done EXCEPT !.s = <<>>]
      /\ UNCHANGED given

HashNext == Finalize \/ \E len \in 0..MaxPiece : Write(len)

HashSpec == HashInit /\ [][HashNext]_hashVars

-----------------------------------------------------------------------------
\* However the data were cut, the blocks are the data in order, and then a 1
\* bit, the fewest zeros, and the count of the bits at the end of a block:
\* nothing that an earlier block left in the buffer is hashed again
\* (hash_impl.h:132-165; the boundary is at 55 bytes of a block).
SplitDoesNotMatter ==
  LET whole == given \div HashBlock
      at(blocks, n) == blocks[((n - 1) \div HashBlock) + 1][((n - 1) % HashBlock) + 1]
      end == Len(final) * HashBlock
      bits == at(final, end)
  IN  IF final = <<>>
      THEN /\ Len(hash.s) = whole
           /\ \A n \in 1..(whole * HashBlock) : at(hash.s, n) = Byte(n)
           /\ \A n \in 1..(given % HashBlock) : hash.buf[n] = Byte(whole * HashBlock + n)
      ELSE /\ \A n \in 1..given : at(final, n) = Byte(n)
           /\ at(final, given + 1) = Marker
           /\ end - CountBytes - given - 1 \in 0..(HashBlock - 1)
           /\ \A n \in (given + 2)..(end - CountBytes) : at(final, n) = ZeroByte
           /\ \A k \in 1..CountBytes : at(final, end - CountBytes + k) = Count(bits[2], bits[3], k)
           /\ bits[2] * CountWord + bits[3] = given * 8

=============================================================================
