------------------------------ MODULE MCStreams ------------------------------
(* A small instance of Streams for TLC: up to two ranges of four bytes, and    *)
(* counts and a delay that are turned down.                                    *)
EXTENDS Streams

MCRanges == {<<a, b>> : a, b \in 0 .. 3} \ {<<a, b>> \in (0 .. 3) \X (0 .. 3) : a > b}
MCCounts == {-1, 0, 1, 3, 4, 5}
MCInitDelays == {-1, 0, 1}
MCRangeHeaders == UNION {[1 .. n -> MCRanges] : n \in 0 .. 2}
=============================================================================
