------------------------------ MODULE HeaderTree ------------------------------
(***************************************************************************)
(* What the header store of the relay promises, whatever its chain         *)
(* bookkeeping does: one trusted header is stored first, and afterwards a  *)
(* header is only ever added once its parent is stored, one block above   *)
(* it, and never below MaxHeight + 1.  A stored header is never removed   *)
(* and its height never changes.                                          *)
(***************************************************************************)
EXTENDS Naturals

CONSTANTS
    Hashes,     \* headers that can be submitted
    Parent,     \* hash -> hash_prev_block
    MaxHeight   \* the largest storable block height

VARIABLES stored, height

vars == <<stored, height>>

Init ==
    /\ stored = {}
    /\ height = [h \in {} |-> 0]

\* The trusted starting header, at any height.
Genesis(h, ht) ==
    /\ stored = {}
    /\ stored' = {h}
    /\ height' = [x \in {h} |-> ht]

\* A header whose parent is stored, one block above it.
Append(h) ==
    /\ Parent[h] \in stored
    /\ h \notin stored
    /\ height[Parent[h]] < MaxHeight
    /\ stored' = stored \cup {h}
    /\ height' = [x \in stored' |-> IF x = h THEN height[Parent[h]] + 1 ELSE height[x]]

Next ==
    \/ \E h \in Hashes, ht \in 0..MaxHeight : Genesis(h, ht)
    \/ \E h \in Hashes : Append(h)

Spec == Init /\ [][Next]_vars
=============================================================================
