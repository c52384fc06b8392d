----------------------------- MODULE MCLimiter -----------------------------
(* A small instance of RateLimiter. *)
EXTENDS RateLimiter, TLC

CONSTANTS k1, k2, r1, r2

TwoKeys == {k1, k2}
TwoRequests == {r1, r2}

OnceAndTwice == k1 :> 1 @@ k2 :> 2
Interchangeable == Permutations(Request)
=============================================================================
