---------------------------- MODULE MCRateLimiter ----------------------------
(***************************************************************************)
(* An instance of RateLimiter for TLC; its requests are interchangeable.   *)
(***************************************************************************)
EXTENDS RateLimiter, TLC

Interchangeable == Permutations(Request)
=============================================================================
