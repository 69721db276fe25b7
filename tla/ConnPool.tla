------------------------------ MODULE ConnPool ------------------------------
(***************************************************************************)
(* The connection pool of go-zrpc (internal/pool.go): Get, Put, Close and  *)
(* Stats of Pool, Close and Release of the PoolConn around a connection.   *)
(*                                                                         *)
(* A lease is one call of Get together with the PoolConn that wraps its    *)
(* result.  Any number of goroutines may share it, so that any number of   *)
(* calls of its Close and Release compete; those that find its closed flag *)
(* set change nothing and are stutters.                                    *)
(*                                                                         *)
(* Pool.mu guards closed and the map of buckets, bucket.mu the two lists   *)
(* of a bucket.  No operation that changes state holds both, so that the   *)
(* steps are cut in between.                                               *)
(***************************************************************************)
EXTENDS Naturals, Sequences, FiniteSets, SequencesExt

CONSTANTS Addresses,
          Leases,   \* bound: calls of Get
          Conns,    \* bound: connections the factory can make
          Closers,  \* goroutines that call Pool.Close
          Asks,     \* the address each lease asks for
          Home,     \* the address each connection is made for
          Size      \* Pool.size

ASSUME ConnsAssumption == IsFiniteSet(Conns)
ASSUME AddressAssumption ==
  Asks \in [Leases -> Addresses] /\ Home \in [Conns -> Addresses]
ASSUME SizeAssumption == Size \in Nat

VARIABLES
  closed,   \* Pool.closed
  buckets,  \* the addresses that have a bucket
  free,     \* poolBucket.connections
  inUse,    \* poolBucket.inUse
  stage,    \* how far each lease is
  conn,     \* the connection in it
  made,     \* the connections the factory has made
  opened,   \* those that are open
  late,     \* history: those made after closed was set
  begun,    \* the goroutines whose Close has set closed
  rest      \* the buckets each of them has yet to close

lists == <<free, inUse>>
conns == <<conn, made, opened, late>>
closing == <<closed, begun, rest>>
vars == <<closing, buckets, lists, stage, conns>>

Init ==
  /\ closed = FALSE
  /\ buckets = {}
  /\ free = [a \in Addresses |-> <<>>]
  /\ inUse = [a \in Addresses |-> {}]
  /\ stage = [l \in Leases |-> "new"]
  /\ conn = [l \in Leases |-> {}]
  /\ made = {}
  /\ opened = {}
  /\ late = {}
  /\ begun = {}
  /\ rest = [k \in Closers |-> {}]

Moves(l, from, to) == stage[l] = from /\ stage' = [stage EXCEPT ![l] = to]
-----------------------------------------------------------------------------
(* Pool.Get.                                                                 *)
(* Definitions marked "Wrong on purpose" are not part of the model: each is  *)
(* the mistake that the definition after it is shown to be free of.          *)

\* The test of closed, under mu.
GetTest(l) ==
  /\ Moves(l, "new", IF closed THEN "failed" ELSE "tested")
  /\ UNCHANGED <<closing, buckets, lists, conns>>

\* The bucket is looked up or made, under mu again; closed is not looked at.
GetBucket(l) ==
  /\ Moves(l, "tested", "found")
  /\ buckets' = buckets \union {Asks[l]}
  /\ UNCHANGED <<closing, lists, conns>>

\* Under bucket.mu: the first free connection.
GetFree(l) ==
  LET a == Asks[l] IN
  /\ Moves(l, "found", "live")
  /\ free[a] # <<>>
  /\ conn' = [conn EXCEPT ![l] = {Head(free[a])}]
  /\ free' = [free EXCEPT ![a] = Tail(@)]
  /\ inUse' = [inUse EXCEPT ![a] = @ \union {Head(free[a])}]
  /\ UNCHANGED <<closing, buckets, made, opened, late>>

\* Wrong on purpose: one too many.
OneMore(a) == Cardinality(inUse[a]) <= Size

\* Whether the bucket may have another connection.
Room(a) == Cardinality(inUse[a]) < Size

\* Under bucket.mu: a new connection.
GetNew(l) ==
  LET a == Asks[l] IN
  /\ Moves(l, "found", "live")
  /\ free[a] = <<>> /\ Room(a)
  /\ \E c \in Conns \ made :
       /\ Home[c] = a
       /\ conn' = [conn EXCEPT ![l] = {c}]
       /\ inUse' = [inUse EXCEPT ![a] = @ \union {c}]
       /\ made' = made \union {c}
       /\ opened' = opened \union {c}
       /\ late' = IF closed THEN late \union {c} ELSE late
  /\ UNCHANGED <<closing, buckets, free>>

\* The factory fails, or the bucket is exhausted.
GetFails(l) ==
  /\ Moves(l, "found", "failed")
  /\ free[Asks[l]] = <<>>
  /\ UNCHANGED <<closing, buckets, lists, conns>>

Get(l) == GetTest(l) \/ GetBucket(l) \/ GetFree(l) \/ GetNew(l) \/ GetFails(l)
-----------------------------------------------------------------------------
(* PoolConn.Close, PoolConn.Release and Pool.Put. *)

\* Wrong on purpose: the flag is not looked at, and a second Close returns the
\* connection again.
Again(l) == {"live", "over"}

\* When a Close or Release goes on: the flag of PoolConn is not set.
Unspent(l) == {"live"}

\* The flag is tested and set, under the mutex of the PoolConn.
Spend(l) ==
  /\ stage[l] \in Unspent(l)
  /\ \E to \in {"closing", "releasing"} : stage' = [stage EXCEPT ![l] = to]
  /\ UNCHANGED <<closing, buckets, lists, conns>>

\* Put up to the unlock of mu: a closed pool drops the connection as it is.
PutTest(l) ==
  /\ Moves(l, "closing", IF closed \/ Asks[l] \notin buckets THEN "over" ELSE "returning")
  /\ UNCHANGED <<closing, buckets, lists, conns>>

\* Put under bucket.mu.
PutBack(l) ==
  LET a == Asks[l] IN
  /\ Moves(l, "returning", "over")
  /\ inUse' = [inUse EXCEPT ![a] = @ \ conn[l]]
  /\ IF Len(free[a]) < Size
     THEN \E c \in conn[l] : free' = [free EXCEPT ![a] = Append(@, c)]
     ELSE UNCHANGED free
  /\ UNCHANGED <<closing, buckets, conns>>

\* Wrong on purpose: the place of the connection is freed by returning it.
ReturnsClosed(l) ==
  [free EXCEPT ![Asks[l]] = @ \o SetToSeq(conn[l])]

\* The free connections after a Release, which leaves the bucket alone.
AfterRelease(l) == free

\* Release closes the connection; it stays in inUse.
ReleaseConn(l) ==
  /\ Moves(l, "releasing", "over")
  /\ opened' = opened \ conn[l]
  /\ free' = AfterRelease(l)
  /\ UNCHANGED <<closing, buckets, inUse, conn, made, late>>

Return(l) == Spend(l) \/ PutTest(l) \/ PutBack(l) \/ ReleaseConn(l)
-----------------------------------------------------------------------------
(* Pool.Close and Pool.Stats. *)

\* closed is set and the buckets are listed, under mu.
CloseStart(k) ==
  /\ k \notin begun
  /\ closed' = TRUE
  /\ begun' = begun \union {k}
  /\ rest' = [rest EXCEPT ![k] = buckets]
  /\ UNCHANGED <<buckets, lists, stage, conns>>

\* Wrong on purpose: the connections in use are left to their users.
IdleOnly(a) == ToSet(free[a])

\* The connections of a bucket that Close closes.
Known(a) == inUse[a] \union ToSet(free[a])

\* Under bucket.mu: the connections of one bucket are closed, and stay listed.
CloseBucket(k) ==
  /\ \E a \in rest[k] :
       /\ opened' = opened \ Known(a)
       /\ rest' = [rest EXCEPT ![k] = @ \ {a}]
  /\ UNCHANGED <<closed, begun, buckets, lists, stage, conn, made, late>>

\* What Stats reports of a bucket, under bucket.mu.
Stats(a) == [Available |-> Len(free[a]), InUse |-> Cardinality(inUse[a])]
-----------------------------------------------------------------------------
Next ==
  \/ \E l \in Leases : Get(l) \/ Return(l)
  \/ \E k \in Closers : CloseStart(k) \/ CloseBucket(k)

Spec == Init /\ [][Next]_vars
-----------------------------------------------------------------------------
(* Safety. *)

TypeOK ==
  /\ closed \in BOOLEAN
  /\ buckets \subseteq Addresses
  /\ free \in [Addresses -> Seq(Conns)]
  /\ inUse \in [Addresses -> SUBSET Conns]
  /\ stage \in [Leases -> {"new", "tested", "found", "failed", "live",
                           "closing", "releasing", "returning", "over"}]
  /\ conn \in [Leases -> SUBSET Conns]
  /\ made \subseteq Conns /\ opened \subseteq made /\ late \subseteq made
  /\ begun \subseteq Closers
  /\ rest \in [Closers -> SUBSET Addresses]

\* A lease holds its connection from Get to the end of its Close or Release.
Holding == {"live", "closing", "releasing", "returning"}

\* The connections of an address are those its bucket lists, each once and in
\* one of the two lists: Put and Get lose none and repeat none.
Listed ==
  \A a \in Addresses :
    /\ Known(a) = {c \in made : Home[c] = a}
    /\ inUse[a] \intersect ToSet(free[a]) = {}
    /\ \A i, j \in DOMAIN free[a] : free[a][i] = free[a][j] => i = j

\* What a lease holds is in use, in the bucket it came from, by no other lease.
Lent ==
  /\ \A l \in Leases :
       stage[l] \in Holding =>
         \E c \in inUse[Asks[l]] : conn[l] = {c}
  /\ \A l, m \in Leases :
       stage[l] \in Holding /\ stage[m] \in Holding /\ l # m =>
         conn[l] \intersect conn[m] = {}

\* No address has more connections than the pool's size, whatever Stats sees.
SizeKept == \A a \in Addresses : Stats(a).Available + Stats(a).InUse <= Size

\* The invariant the proofs rest on.
PInv == TypeOK /\ Listed /\ Lent /\ SizeKept

\* Every open connection that takes up a slot of its bucket is in somebody's
\* hands: slots are lost to Release alone.
NoneStray ==
  \A a \in Addresses : \A c \in inUse[a] \intersect opened :
    \E l \in Leases : stage[l] \in Holding /\ conn[l] = {c}

\* Until the pool is closed Get hands out open connections only, as what Release
\* has closed is never free again; and no open connection is forgotten in inUse,
\* where neither a Get nor a Put would ever reach it.
OpenUntilClosed ==
  \/ closed
  \/ NoneStray /\ \A a \in Addresses : ToSet(free[a]) \subseteq opened

\* When a Close has walked its buckets, an open connection is one that a Get
\* made which had passed the test of closed before (Get does not test it again,
\* so that Close may leave such connections open for ever).
CloseLeavesOnlyRacers ==
  \A k \in begun : rest[k] = {} => opened \subseteq late
-----------------------------------------------------------------------------
(* Refinement. *)

Abstract ==
  INSTANCE Lending WITH
    held <- [l \in Leases |-> IF stage[l] \in Holding THEN conn[l] ELSE {}],
    idle <- {c \in Conns : c \in ToSet(free[Home[c]])}

\* The pool lends as Lending says.
KeepsLending == Abstract!LendSpec
=============================================================================
