----------------------------- MODULE MCRateLimit -----------------------------
(* A small instance of RateLimit for TLC.  Requests are interchangeable.   *)
EXTENDS RateLimit, TLC

Symmetry == Permutations(Requests)
=============================================================================
