---------------------------- MODULE MerkleVerifier ----------------------------
(***************************************************************************)
(* One call of verify_proof on a proof submitted for a block of            *)
(* block_count transactions.  The relayer controls every field of the      *)
(* proof: transactions_count (block_count plus a skew from CountSkew),     *)
(* the hashes (up to MaxHashes, drawn from the node hashes of the block's  *)
(* tree, the only values that can reproduce its root under an injective   *)
(* hash, or from {Leaf(0)} alone when ForgeValues is FALSE) and the flag   *)
(* bytes (FlagBytes of them, every bit pattern).  The honest proof of     *)
(* every position is also submitted, even when it needs more hashes.     *)
(***************************************************************************)
EXTENDS MerkleProof, FiniteSets

CONSTANTS
    BlockSizes,   \* transactions in the block the proof is checked against
    CountSkew,    \* transactions_count - block_count in a submitted proof
    MaxHashes,    \* most hashes in a proof
    FlagBytes,    \* flag bytes in a proof
    ForgeValues   \* hashes range over every tree node (TRUE) or one leaf

ASSUME /\ BlockSizes \subseteq 1..MAX_TRANSACTIONS_IN_PROOF
       /\ CountSkew \subseteq Int /\ MaxHashes \in Nat /\ FlagBytes \in Nat
       /\ ForgeValues \in BOOLEAN

VARIABLES block_count, proof, result

vars == <<block_count, proof, result>>

HashValues(n) == IF ForgeValues THEN TreeNodes(n) ELSE {Leaf(0)}

SeqsUpTo(S, k) == UNION {[1..m -> S] : m \in 0..k}

Proofs(n) ==
    [transactions_count : {n + d : d \in CountSkew} \cap Nat,
     hashes : SeqsUpTo(HashValues(n), MaxHashes),
     flag_bits : [1..8 * FlagBytes -> BOOLEAN]]

\* The proofs a full node sends for the block, whatever the bounds above.
HonestProofs(n) == {HonestProof(n, p) : p \in 0..n - 1}

Init ==
    /\ block_count \in BlockSizes
    /\ proof \in Proofs(block_count) \cup HonestProofs(block_count)
    /\ result = [ok |-> FALSE, err |-> "Pending"]

\* MerkleProof::verify_proof, run to completion (a panic is its result).
VerifyProof ==
    /\ result.err = "Pending"
    /\ result' = verify_proof(proof)
    /\ UNCHANGED <<block_count, proof>>

Next == VerifyProof

Spec == Init /\ [][Next]_vars
-----------------------------------------------------------------------------
Done == result.err # "Pending"

TypeOK ==
    /\ block_count \in BlockSizes
    /\ result.err \in {"Pending", "None", "MalformedProof", "InvalidProof", "Panic"}
    /\ result.ok => /\ result.transaction_position \in 0..proof.transactions_count - 1
                    /\ result.transaction_hash \in HashValues(block_count)

(***************************************************************************)
(* Completeness: the proof a full node builds for the transaction at any  *)
(* position verifies, yielding the block's merkle root, that position and *)
(* that transaction's hash.  It is about the flag/hash consumption order  *)
(* of traverse_and_extract, the duplicated right child at odd widths and  *)
(* the used-bits check rounded to whole bytes.                            *)
(***************************************************************************)
HonestProofVerifies ==
    \A p \in 0..block_count - 1 :
        (Done /\ proof = HonestProof(block_count, p)) =>
            /\ result.ok
            /\ result.extracted_root = MerkleRoot(block_count)
            /\ result.transaction_position = p
            /\ result.transaction_hash = Leaf(p)

(***************************************************************************)
(* Soundness: a proof that verifies to the block's merkle root names a     *)
(* transaction of that block at the position it reports.  The relay      *)
(* compares only extracted_root with the stored header's merkle root, so  *)
(* this is all that stops a forged inclusion.  It is about the positions  *)
(* traverse_and_extract records (merkle_position, hash_position) and the  *)
(* tree shape it derives from transactions_count.                         *)
(***************************************************************************)
AcceptedProofIsSound ==
    (Done /\ result.ok /\ result.extracted_root = MerkleRoot(block_count)) =>
        /\ result.transaction_position < block_count
        /\ result.transaction_hash = Leaf(result.transaction_position)

(***************************************************************************)
(* A malformed proof is rejected with an error, never a panic (spec 4.3).  *)
(* traverse_and_extract reads flag_bits[bits_used] with no bounds check;   *)
(* the only guard is flag_bits.len() >= hashes.len().                     *)
(***************************************************************************)
NeverPanics == result.err # "Panic"

(***************************************************************************)
(* A proof verifies only when its traversal identifies a unique proven     *)
(* leaf; otherwise it is an invalid proof (spec 4.3 and 8).                *)
(* traverse_and_extract overwrites merkle_position and hash_position at    *)
(* every flagged leaf, so the partial tree a full node builds for two      *)
(* matched transactions verifies and reports the last.                     *)
(***************************************************************************)
UniqueLeafProven ==
    \A P \in SUBSET (0..block_count - 1) :
        (Cardinality(P) = 2 /\ Done /\ proof = HonestMultiProof(block_count, P)) => ~result.ok

=============================================================================
