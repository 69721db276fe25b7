------------------------------ MODULE MCConnPool ------------------------------
(* Instances of ConnPool for TLC. *)
EXTENDS ConnPool, TLC

CONSTANTS x, y, l1, l2, l3, l4, c1, c2, c3, c4, k1, k2

\* Three calls of Get for one address and one for another.
MCAsks == l1 :> x @@ l2 :> x @@ l3 :> x @@ l4 :> y

\* Three connections for the first address, one for the second.
MCHome == c1 :> x @@ c2 :> x @@ c3 :> x @@ c4 :> y

\* Calls for one address are alike, and so are its connections and the closers.
Alike == Permutations({l1, l2, l3}) \union Permutations({c1, c2, c3}) \union Permutations(Closers)
=============================================================================
