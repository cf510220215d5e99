--------------------------- MODULE MCRateLimiter ---------------------------
(* Instances of RateLimiter for TLC. *)
EXTENDS RateLimiter, TLC

CONSTANTS near, far, third, daily, short, long

ThreeShortOneLong == (near :> short @@ far :> short @@ third :> short @@ daily :> long)
TwoAndOne == (short :> 2 @@ long :> 1)

EveryShort == Permutations({near, far, third})
=============================================================================
