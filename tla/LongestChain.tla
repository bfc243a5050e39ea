----------------------------- MODULE LongestChain -----------------------------
(***************************************************************************)
(* What fork choice promises of the canonical (main) chain: it is a map   *)
(* from heights 0..tip to block hashes, and it changes only by adopting a  *)
(* strictly longer chain that keeps every block below some fork height.    *)
(* The genesis block (height 0) is never replaced, and the canonical       *)
(* chain never gets shorter.                                               *)
(***************************************************************************)
EXTENDS Naturals

CONSTANTS
    Hashes,     \* block hashes
    MaxHeight   \* the largest block height

VARIABLE canonical

Tip(c) == CHOOSE t \in DOMAIN c : \A x \in DOMAIN c : x <= t

\* A chain from height 0 up to some tip.
IsChain(c) == \E t \in 0..MaxHeight : c \in [0..t -> Hashes]

Init == IsChain(canonical)

\* Adopt a longer chain that agrees with the canonical one below height k.
Adopt(k) ==
    /\ IsChain(canonical')
    /\ Tip(canonical') > Tip(canonical)
    /\ \A i \in 0..(k - 1) : canonical'[i] = canonical[i]

Next == \E k \in 1..(Tip(canonical) + 1) : Adopt(k)

Spec == Init /\ [][Next]_canonical
=============================================================================
