--------------------------- MODULE MCForkChoiceUnit ---------------------------
(***************************************************************************)
(* Main chains up to height 3, up to two forks: with two forks, the fork   *)
(* at key 1 is enumerated second and can reach the main chain; with one,   *)
(* the fork is enumerated first.  Hashes are <<chain, height>> pairs.      *)
(***************************************************************************)
EXTENDS ForkChoiceUnit

MCHashes == (0..MaxForks + 1) \X (0..MaxMainTip + 1)
=============================================================================
