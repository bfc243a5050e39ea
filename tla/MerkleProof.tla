----------------------------- MODULE MerkleProof -----------------------------
(***************************************************************************)
(* MerkleProof::verify_proof of crates/bitcoin/src/merkle.rs: the depth-   *)
(* first replay of a partial merkle tree.  A leaf (transaction) hash is    *)
(* the record [tx |-> i] for the transaction at position i, and           *)
(* hash256_merkle_step(l, r) is [left |-> l, right |-> r]: an injective   *)
(* hash that never equals a leaf hash, so                                  *)
(* two nodes have equal hashes only when they are the same subtree.  A     *)
(* proof is [transactions_count, hashes, flag_bits], the MerkleProof       *)
(* struct after parse (flag bits already expanded from bytes, so their     *)
(* number is a multiple of 8).                                             *)
(***************************************************************************)
EXTENDS Integers, Sequences

None == -1

\* hash256_merkle_step, abstracted to an injective constructor.
hash256_merkle_step(l, r) == [left |-> l, right |-> r]

\* MAX_BLOCK_WEIGHT / MIN_TRANSACTION_WEIGHT
MAX_TRANSACTIONS_IN_PROOF == 4000000 \div (4 * 60)

Pow2(n) == 2^n

compute_tree_width_unrounded(proof, height) ==
    (proof.transactions_count + Pow2(height)) \div Pow2(height)
compute_tree_width(proof, height) ==
    (proof.transactions_count + Pow2(height) - 1) \div Pow2(height)

\* The smallest height whose width is at most 1 (the while loop).
compute_tree_height(proof) ==
    CHOOSE h \in 0..proof.transactions_count :
        /\ compute_tree_width(proof, h) <= 1
        /\ \A k \in 0..h-1 : compute_tree_width(proof, k) > 1

\* The position of the right child of node pos one level down.
right_child_as_left(pos) == pos * 2
right_child(pos) == pos * 2 + 1

InitTraversal == [bits_used |-> 0, hashes_used |-> 0,
                  merkle_position |-> None, hash_position |-> None]

(***************************************************************************)
(* traverse_and_extract(height, pos, traversal): [val, tr, err].           *)
(* flag_bits[bits_used] is indexed without a bounds check, so running out  *)
(* of flag bits panics ("Panic"); running out of hashes is MalformedProof. *)
(* A right child past the level's width is the left child duplicated.     *)
(***************************************************************************)
RECURSIVE traverse_and_extract(_, _, _, _)
traverse_and_extract(proof, height, pos, tr) ==
    IF tr.bits_used >= Len(proof.flag_bits)
    THEN [val |-> 0, tr |-> tr, err |-> "Panic"]
    ELSE
    LET parent_of_hash == proof.flag_bits[tr.bits_used + 1]
        t1 == [tr EXCEPT !.bits_used = @ + 1]
    IN
    IF height = 0 \/ ~parent_of_hash
    THEN IF t1.hashes_used >= Len(proof.hashes)
         THEN [val |-> 0, tr |-> t1, err |-> "MalformedProof"]
         ELSE LET t2 == IF height = 0 /\ parent_of_hash
                        THEN [t1 EXCEPT !.merkle_position = pos,
                                        !.hash_position = t1.hashes_used]
                        ELSE t1
              IN  [val |-> proof.hashes[t1.hashes_used + 1],
                   tr |-> [t2 EXCEPT !.hashes_used = @ + 1], err |-> "None"]
    ELSE
    LET left == traverse_and_extract(proof, height - 1, pos * 2, t1)
        right == IF pos * 2 + 1 < compute_tree_width(proof, height - 1)
                 THEN traverse_and_extract(proof, height - 1, right_child(pos), left.tr)
                 ELSE left
    IN  CASE left.err # "None" -> left
          [] right.err # "None" -> right
          [] OTHER -> [val |-> hash256_merkle_step(left.val, right.val), tr |-> right.tr, err |-> "None"]

\* Flag bits rounded up to the whole bytes they occupy.
bytes_for_bits_truncated(n) == n \div 8
bytes_for_bits(n) == (n + 7) \div 8

Fail(e) == [ok |-> FALSE, err |-> e]

\* verify_proof: the checks before and after the traversal, in code order.
verify_proof(proof) ==
    LET r == traverse_and_extract(proof, compute_tree_height(proof), 0, InitTraversal)
    IN  CASE proof.transactions_count = 0 -> Fail("MalformedProof")
          [] proof.transactions_count > MAX_TRANSACTIONS_IN_PROOF -> Fail("MalformedProof")
          [] Len(proof.flag_bits) < Len(proof.hashes) -> Fail("MalformedProof")
          [] r.err # "None" -> Fail(r.err)
          [] r.tr.merkle_position = None -> Fail("InvalidProof")
          [] r.tr.hash_position = None -> Fail("InvalidProof")
          [] r.tr.hashes_used # Len(proof.hashes) -> Fail("MalformedProof")
          [] bytes_for_bits(r.tr.bits_used) # bytes_for_bits(Len(proof.flag_bits)) ->
                Fail("MalformedProof")
          [] OTHER -> [ok |-> TRUE, err |-> "None",
                       extracted_root |-> r.val,
                       transaction_hash |-> proof.hashes[r.tr.hash_position + 1],
                       transaction_position |-> r.tr.merkle_position]

-----------------------------------------------------------------------------
(***************************************************************************)
(* Reference definitions, independent of the code's arithmetic: Bitcoin's *)
(* merkle root computed level by level (an odd level duplicates its last   *)
(* entry), and the partial merkle tree a full node builds for the         *)
(* transactions at the positions in P                                      *)
(* (CPartialMerkleTree::TraverseAndBuild), the flag bits padded with       *)
(* zeros to a whole byte.                                                  *)
(***************************************************************************)
Leaf(i) == [tx |-> i]
NextLevel(lv) ==
    [i \in 1..((Len(lv) + 1) \div 2) |->
        hash256_merkle_step(lv[2 * i - 1], IF 2 * i <= Len(lv) THEN lv[2 * i] ELSE lv[2 * i - 1])]

RECURSIVE Levels(_)
Levels(lv) == IF Len(lv) <= 1 THEN <<lv>> ELSE <<lv>> \o Levels(NextLevel(lv))

TreeLevels(n) == Levels([i \in 1..n |-> Leaf(i - 1)])
MerkleRoot(n) == LET lv == TreeLevels(n) IN lv[Len(lv)][1]
\* Every node hash of the tree of n transactions.
TreeNodes(n) == UNION {{TreeLevels(n)[k][i] : i \in DOMAIN TreeLevels(n)[k]} :
                       k \in DOMAIN TreeLevels(n)}

\* The partial tree over the levels lv, from node pos at height h down.
RECURSIVE Build(_, _, _, _)
Build(lv, P, h, pos) ==
    LET ancestor == \E p \in P : p \div Pow2(h) = pos
    IN  IF h = 0 \/ ~ancestor
        THEN [bits |-> <<ancestor>>, hashes |-> <<lv[h + 1][pos + 1]>>]
        ELSE LET l == Build(lv, P, h - 1, 2 * pos)
                 r == IF 2 * pos + 1 < Len(lv[h]) THEN Build(lv, P, h - 1, 2 * pos + 1)
                      ELSE [bits |-> <<>>, hashes |-> <<>>]
             IN  [bits |-> <<TRUE>> \o l.bits \o r.bits, hashes |-> l.hashes \o r.hashes]

\* The partial tree matching the transactions at the positions in P.
HonestMultiProof(n, P) ==
    LET lv == TreeLevels(n)
        b == Build(lv, P, Len(lv) - 1, 0)
        padded == 8 * ((Len(b.bits) + 7) \div 8)
    IN  [transactions_count |-> n, hashes |-> b.hashes,
         flag_bits |-> b.bits \o [i \in 1..(padded - Len(b.bits)) |-> FALSE]]

HonestProof(n, p) == HonestMultiProof(n, {p})
=============================================================================
