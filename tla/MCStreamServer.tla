---------------------------- MODULE MCStreamServer ----------------------------
(* Instances of StreamServer for TLC. *)
EXTENDS StreamServer, TLC

CONSTANTS s1, s2

\* Streams are alike when all of them send, or none.
Alike == Permutations(Streams)
=============================================================================
