---------------------------- MODULE MCRateLimiter ----------------------------
(* Small instances of RateLimiter for TLC.                                 *)
EXTENDS RateLimiter, TLC

\* Threads are interchangeable.
mcSymmetry == Permutations(Threads)
=============================================================================
