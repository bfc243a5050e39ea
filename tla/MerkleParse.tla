----------------------------- MODULE MerkleParse -----------------------------
(***************************************************************************)
(* MerkleProof::parse of crates/bitcoin/src/merkle.rs over byte buffers,   *)
(* followed by verify_proof on what it returns.  A buffer is a sequence of *)
(* bytes (0..255).  A hash occupies its 32 bytes; the model writes the     *)
(* hash's identity into its first byte and zeros after it, so              *)
(* H256Le::from_bytes_le is the inverse of that encoding.  The block       *)
(* header is 80 zero bytes: its decoding is outside the properties.        *)
(*                                                                         *)
(* The inputs are the gettxoutproof serializations of small proofs, every  *)
(* prefix of them (truncation), the same bytes with the hash count or the  *)
(* flag-byte count off by one (inconsistent counts), or with a byte        *)
(* appended; and the serialization of the honest proof for every position *)
(* of every block in BlockSizes.  A free-form count of 256 or more puts a *)
(* nonzero byte after the first in the count field.                        *)
(***************************************************************************)
EXTENDS MerkleProof, SequencesExt, Bitwise

CONSTANTS
    BlockSizes,      \* transactions in the blocks of the honest proofs
    FreeCounts,      \* transactions_count of free-form proofs
    HashIds,         \* hash identities in free-form proofs
    FlagByteValues,  \* flag byte values in free-form proofs
    MaxHashes,       \* most hashes in a free-form proof
    MaxFlagBytes     \* most flag bytes in a free-form proof

ASSUME /\ BlockSizes \subseteq 1..MAX_TRANSACTIONS_IN_PROOF
       /\ FreeCounts \subseteq 1..MAX_TRANSACTIONS_IN_PROOF
       /\ HashIds \subseteq 0..255 /\ FlagByteValues \subseteq 0..255
       /\ MaxHashes \in Nat /\ MaxFlagBytes \in Nat

\* Little-endian unsigned integer of a byte sequence (u32::from_le_bytes).
RECURSIVE from_le_bytes(_)
from_le_bytes(b) == IF b = <<>> THEN 0 ELSE Head(b) + 256 * from_le_bytes(Tail(b))

(***************************************************************************)
(* parser::parse_varint (bitcoin crate, outside the sources): Bitcoin's    *)
(* CompactSize.  A first byte below 0xfd is the value; 0xfd, 0xfe and 0xff *)
(* announce 2, 4 and 8 little-endian bytes.  The bytes are read by index,  *)
(* so a slice shorter than the form panics.                                *)
(***************************************************************************)
varint_width(b) == CASE b < 253 -> 1 [] b = 253 -> 3 [] b = 254 -> 5 [] OTHER -> 9

parse_varint(s) ==
    IF Len(s) = 0 \/ Len(s) < varint_width(s[1])
    THEN [err |-> "Panic"]
    ELSE [err |-> "None", consumed |-> varint_width(s[1]),
          value |-> IF s[1] < 253 THEN s[1] ELSE from_le_bytes(SubSeq(s, 2, varint_width(s[1])))]

\* H256Le::from_bytes_le of a 32-byte slice: the identity in its first byte.
from_bytes_le(raw) == raw[1]

\* One flag byte, bit i tested with mask 1 << i for i in 0..8.
expand_flag_byte_seven(byte) == [i \in 1..7 |-> (byte & Pow2(i - 1)) # 0]
expand_flag_byte_msb(byte) == [i \in 1..8 |-> (byte & Pow2(8 - i)) # 0]
expand_flag_byte(byte) == [i \in 1..8 |-> (byte & Pow2(i - 1)) # 0]

\* The i-th 32-byte hash slice read by the loop, current_index advancing.
hash_slice_unadvanced(buf, start, k) == SubSeq(buf, start + 1, start + 32)
hash_slice(buf, start, k) == SubSeq(buf, start + 32 * (k - 1) + 1, start + 32 * k)

(***************************************************************************)
(* parse(merkle_proof): [err, proof].  Every slice and index panics when   *)
(* out of range, in the order the code makes them:                         *)
(*  [0..80], [80..84] and [84..87] need 87 bytes;                          *)
(*  parse_varint of the hash count;                                        *)
(*  the hash slices [current_index..current_index + 32];                   *)
(*  [current_index..last_byte] (empty when the hashes end the buffer) and  *)
(*  parse_varint of the flag-byte count;                                   *)
(*  merkle_proof[current_index + i] for each flag byte.                    *)
(* Bytes after the last flag byte are not read.                            *)
(***************************************************************************)
parse(buf) ==
    LET n == Len(buf)
        hc == parse_varint(SubSeq(buf, 85, 87))
        hashes_start == 84 + hc.consumed
        hashes_end == hashes_start + 32 * hc.value
        last_byte == IF hashes_end + 3 <= n THEN hashes_end + 3 ELSE n
        fc == parse_varint(SubSeq(buf, hashes_end + 1, last_byte))
        flags_start == hashes_end + fc.consumed
    IN  CASE n < 87 -> [err |-> "Panic"]
          [] hc.err = "Panic" -> [err |-> "Panic"]
          [] hashes_end > n -> [err |-> "Panic"]
          [] fc.err = "Panic" -> [err |-> "Panic"]
          [] flags_start + fc.value > n -> [err |-> "Panic"]
          [] OTHER ->
               [err |-> "None",
                proof |-> [transactions_count |-> from_le_bytes(SubSeq(buf, 81, 84)),
                           hashes |-> [k \in 1..hc.value |->
                                          from_bytes_le(hash_slice(buf, hashes_start, k))],
                           flag_bits |-> FlattenSeq([k \in 1..fc.value |->
                                          expand_flag_byte(buf[flags_start + k])])]]
-----------------------------------------------------------------------------
(***************************************************************************)
(* Reference serialization, the gettxoutproof layout of spec 4.3 written  *)
(* independently of parse: header, count as 4 little-endian bytes,         *)
(* CompactSize hash count, hashes, CompactSize flag-byte count, flag      *)
(* bytes packed least-significant bit first (CPartialMerkleTree:           *)
(* vBytes[p / 8] |= vBits[p] << (p % 8)).                                  *)
(***************************************************************************)
Header == [i \in 1..80 |-> 0]
LeBytes(v, w) == [i \in 1..w |-> (v \div Pow2(8 * (i - 1))) % 256]
CompactSize(v) == IF v < 253 THEN <<v>> ELSE <<253>> \o LeBytes(v, 2)
HashBytes(h) == <<h>> \o [i \in 1..31 |-> 0]

RECURSIVE BitsValue(_)
BitsValue(bits) == IF bits = <<>> THEN 0
                   ELSE (IF Head(bits) THEN 1 ELSE 0) + 2 * BitsValue(Tail(bits))
PackBits(bits) == [j \in 1..(Len(bits) \div 8) |-> BitsValue(SubSeq(bits, 8 * j - 7, 8 * j))]

\* Bitcoin's vBits[p] = (vBytes[p / 8] & (1 << (p % 8))) != 0.
UnpackBytes(bytes) ==
    [p \in 1..(8 * Len(bytes)) |-> (bytes[(p - 1) \div 8 + 1] \div Pow2((p - 1) % 8)) % 2 = 1]

Serialize(count, hashes, flag_bytes) ==
    Header \o LeBytes(count, 4) \o CompactSize(Len(hashes))
        \o FlattenSeq([k \in 1..Len(hashes) |-> HashBytes(hashes[k])])
        \o CompactSize(Len(flag_bytes)) \o flag_bytes

\* The buffer with the byte at index i (1-based) off by d, as a byte.
Tamper(buf, i, d) == [buf EXCEPT ![i] = (@ + d) % 256]

\* What a submitter can send for one proof: the exact bytes, every prefix,
\* either count off by one, or a byte appended.
Variants(count, hashes, flag_bytes) ==
    LET exact == Serialize(count, hashes, flag_bytes)
        fcount_at == 85 + 32 * Len(hashes) + 1
    IN  {[bytes |-> exact, intact |-> TRUE], [bytes |-> exact \o <<1>>, intact |-> TRUE]}
        \cup {[bytes |-> b, intact |-> FALSE] :
                b \in (Prefixes(exact) \ {exact})
                      \cup {Tamper(exact, i, d) : i \in {85, fcount_at}, d \in {1, 255}}}

FreeProofs ==
    [transactions_count : FreeCounts,
     hashes : BoundedSeq(HashIds, MaxHashes),
     flag_bytes : BoundedSeq(FlagByteValues, MaxFlagBytes)]

None_position == -1

VARIABLES
    input,     \* the bytes passed to parse
    intact,    \* input is a whole serialization, possibly with trailing bytes
    expected,  \* the proof serialized into input
    position,  \* the honest proof's position, or None_position
    parsed,    \* parse's result
    verified   \* verify_proof's result on the parsed proof

vars == <<input, intact, expected, position, parsed, verified>>

Pending == [err |-> "Pending"]

Init ==
    /\ \/ \E p \in FreeProofs : \E v \in Variants(p.transactions_count, p.hashes, p.flag_bytes) :
            /\ input = v.bytes /\ intact = v.intact /\ position = None_position
            /\ expected = [transactions_count |-> p.transactions_count, hashes |-> p.hashes,
                           flag_bits |-> UnpackBytes(p.flag_bytes)]
       \/ \E n \in BlockSizes, pos \in 0..(MAX_TRANSACTIONS_IN_PROOF - 1) :
            /\ pos < n
            /\ expected = HonestProof(n, pos)
            /\ input = Serialize(n, expected.hashes, PackBits(expected.flag_bits))
            /\ intact = TRUE /\ position = pos
    /\ parsed = Pending
    /\ verified = Pending

\* MerkleProof::parse, run to completion (a panic is its result).
Parse ==
    /\ parsed = Pending
    /\ parsed' = parse(input)
    /\ UNCHANGED <<input, intact, expected, position, verified>>

\* verify_proof on the parsed proof, as verify_transaction_inclusion will.
VerifyParsed ==
    /\ parsed.err = "None" /\ verified = Pending
    /\ verified' = verify_proof(parsed.proof)
    /\ UNCHANGED <<input, intact, expected, position, parsed>>

Next == Parse \/ VerifyParsed

Spec == Init /\ [][Next]_vars
-----------------------------------------------------------------------------
TypeOK ==
    /\ parsed.err \in {"Pending", "None", "Panic"}
    /\ verified.err \in {"Pending", "None", "MalformedProof", "InvalidProof", "Panic"}
    /\ parsed.err = "None" =>
          /\ parsed.proof.transactions_count \in Nat
          /\ parsed.proof.flag_bits \in Seq(BOOLEAN)
          /\ Len(parsed.proof.flag_bits) % 8 = 0

(***************************************************************************)
(* Round trip: the whole gettxoutproof serialization of a proof, with or  *)
(* without trailing bytes, parses to that proof: the count read little-   *)
(* endian, every hash from its own 32 bytes, and every flag byte expanded *)
(* least-significant bit first.  A partial merkle tree has at least one   *)
(* hash, so proofs without hashes are outside the wire format.  It is     *)
(* about the cursor arithmetic of parse (current_index, bytes_consumed,   *)
(* last_byte) and the mask order of the flag loop.                        *)
(***************************************************************************)
ParseRoundTrip ==
    (parsed # Pending /\ intact /\ Len(expected.hashes) > 0) =>
        /\ parsed.err = "None"
        /\ parsed.proof = expected

(***************************************************************************)
(* The bytes a full node sends for the transaction at any position parse  *)
(* and then verify to the block's merkle root and that position: the      *)
(* parser's bit order and the verifier's depth-first consumption of bits  *)
(* and hashes agree.                                                       *)
(***************************************************************************)
ParsedHonestProofVerifies ==
    (position # None_position /\ verified # Pending) =>
        /\ verified.ok
        /\ verified.extracted_root = MerkleRoot(expected.transactions_count)
        /\ verified.transaction_position = position

(***************************************************************************)
(* Malformed input, truncated or with inconsistent counts, fails          *)
(* explicitly and never panics (spec 4.3).  parse indexes and slices      *)
(* merkle_proof with no length check.                                      *)
(***************************************************************************)
ParseNeverPanics == parsed.err # "Panic"
=============================================================================
