--------------------------- MODULE MCMerkleVerifier ---------------------------
EXTENDS MerkleVerifier

\* Claimed transaction counts from block_count - 3 to block_count + 1.
MCCountSkew == -3..1
=============================================================================
