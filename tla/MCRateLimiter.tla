---------------------------- MODULE MCRateLimiter ----------------------------
(* Small instances of RateLimiter for TLC.                                     *)
EXTENDS RateLimiter, TLC

(* Clients are interchangeable as long as none of them has the key "".         *)
ClientSymmetry == Permutations(Keys)
=============================================================================
