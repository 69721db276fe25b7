------------------------------- MODULE Lending -------------------------------
(***************************************************************************)
(* What the connection pool of go-zrpc (internal/pool.go) promises, with   *)
(* no word about buckets, locks or lists: a connection is lent to one      *)
(* lease at a time, and there are never more than Size of an address.      *)
(***************************************************************************)
EXTENDS Naturals, FiniteSets

CONSTANTS Leases,  \* what NewPoolConn wraps: one successful Get each
          Conns,   \* the connections the factory can make
          Home,    \* the address each of them is made for
          Size     \* the most connections of an address

VARIABLES held,  \* what each lease holds: nothing or one connection
          idle,  \* the connections that wait to be lent
          made   \* the connections that exist

lendVars == <<held, idle, made>>

LendInit ==
  /\ held = [l \in Leases |-> {}]
  /\ idle = {}
  /\ made = {}

LendIdle(l, c) ==
  /\ held[l] = {} /\ c \in idle
  /\ held' = [held EXCEPT ![l] = {c}]
  /\ idle' = idle \ {c}
  /\ UNCHANGED made

LendNew(l, c) ==
  /\ held[l] = {} /\ c \notin made
  /\ Cardinality({d \in made : Home[d] = Home[c]}) < Size
  /\ held' = [held EXCEPT ![l] = {c}]
  /\ made' = made \union {c}
  /\ UNCHANGED idle

\* The connection may be lent again.
TakeBack(l) ==
  /\ held[l] # {}
  /\ idle' = idle \union held[l]
  /\ held' = [held EXCEPT ![l] = {}]
  /\ UNCHANGED made

\* The connection is never lent again, and its place is not given to another.
Retire(l) ==
  /\ held[l] # {}
  /\ held' = [held EXCEPT ![l] = {}]
  /\ UNCHANGED <<idle, made>>

LendNext ==
  \E l \in Leases :
    \/ TakeBack(l) \/ Retire(l)
    \/ \E c \in Conns : LendIdle(l, c) \/ LendNew(l, c)

LendSpec == LendInit /\ [][LendNext]_lendVars
=============================================================================
