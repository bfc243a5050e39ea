------------------------------ MODULE MCBTCRelay ------------------------------
(***************************************************************************)
(* Headers g <- a <- b <- c, a fork a <- d <- e and a second child g <- f *)
(* of the first block.  With MaxU32 = 3 and the initial heights 0 and 1,   *)
(* a chain initialized at g with height 1 reaches u32::MAX at b and at d,  *)
(* so c and e overflow.                                                    *)
(***************************************************************************)
EXTENDS BTCRelay

CONSTANTS g, a, b, c, d, e, f

MCParent == (g :> NoHash) @@ (a :> g) @@ (b :> a) @@ (c :> b) @@ (d :> a) @@ (e :> d) @@ (f :> g)
=============================================================================
