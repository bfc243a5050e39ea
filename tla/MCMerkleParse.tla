---------------------------- MODULE MCMerkleParse ----------------------------
EXTENDS MerkleParse
=============================================================================
