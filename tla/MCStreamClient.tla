---------------------------- MODULE MCStreamClient ----------------------------
(* Instances of StreamClient for TLC. *)
EXTENDS StreamClient

CONSTANTS t1, t2, k1, k2

\* Goroutines of a kind are alike.
Alike == Permutations(Senders) \union Permutations(Closers)
=============================================================================
