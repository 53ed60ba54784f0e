--------------------------- MODULE MCResponseCache ---------------------------
(* Small instances of ResponseCache for TLC.                                   *)
EXTENDS ResponseCache, TLC

(* Requests are interchangeable, and so are sizes and gradients.               *)
RequestSymmetry == Permutations(Reqs) \cup Permutations(Variants)
=============================================================================
