------------------------------ MODULE MCUnaryRpc ------------------------------
(* Instances of UnaryRpc for TLC. *)
EXTENDS UnaryRpc, TLC

CONSTANTS cl1, cl2, a, b

\* Two calls of one client.
OneClient == a :> cl1 @@ b :> cl1

\* One call on each of two clients.
TwoClients == a :> cl1 @@ b :> cl2

\* A single call.
OneCall == a :> cl1

\* Swapping two calls of one client changes nothing.
SwapCalls == Permutations({a, b})
=============================================================================
