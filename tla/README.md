# A verification of go-zrpc

TLA+ models of go-zrpc (an RPC library over ZeroMQ, the Go sources under
`src/`), model-checked with TLC and, for the properties that matter most, proved
with TLAPS for every number of clients, calls, streams, workers and connections.

* [1. The system](#1-the-system)
* [2. Modules](#2-modules)
* [3. What the runs check](#3-what-the-runs-check)
* [4. What is proved](#4-what-is-proved)
* [5. What the models leave out](#5-what-the-models-leave-out)
* [6. Findings](#6-findings)
* [7. Plan](#7-plan)

## 1. The system

### Components

| component | source | state | operations |
|---|---|---|---|
| Client, unary calls | `client.go` | `pending` (message id to `callFuture`), `closed`, `ctx`, `wg`, the proxy's retry counter | the proxy function, `Call`, `receive`, `handleResponse`, `Close` |
| Client, streams | `client.go`, `stream.go` | `streams` (message id to `recvChan`), the stream objects' `closed` and `seq` | the stream proxies, `Send`, `Recv`, `Close`, `handleStreamData`, `handleStreamEnd` |
| Client, heartbeat | `client.go` | a ticker | `NewClient`, `heartbeat`, `Close` |
| Server, dispatch and lifecycle | `server.go` | `running`, `ctx`, `wg`, `transport`, the `ants` worker pool | `Run`, `serve`, `handlePacket`, `handleRequest`, `Close` |
| Server, unary requests | `server.go` | the tasks in the pool | `handleReqRep`, `buildParams`, `invoke`, `sendError` |
| Server, streams | `server.go`, `stream.go` | `streams` (message id to session), each session's `recvChan` (10 packets), `bidiStream.closed` | `handleBidiStream`, `handleStreamData`, `handleStreamEnd`, the stream's `Send`, `Recv`, `Close` |
| Transport | `transport.go` | a DEALER or ROUTER socket, `closed` | `Send` (under a mutex), `Recv` (polls 100 ms, mutex only for `closed`), `Close` |
| Signatures | `reflection.go`, `client.go` | services and methods | `Register`, `parseMethod`, `detectMode`, `Decorator` and its mode rules |
| Middleware | `middleware/` | metrics counters | a chain of wrappers around the handler of a unary request |
| Connection pool | `internal/pool.go` | buckets of idle and used connections | `Get`, `Put`, `Close`, `Stats`, and `Close` and `Release` of the `PoolConn` around a connection |
| Discovery | `registry/` | instances by service name | `Register`, `Deregister`, `GetService`, `Watch` |

### How they interact

A program calls a proxy function on its own goroutine.  `createProxyFunc`
runs `Call` up to `retry + 1` times; each `Call` draws a fresh id, puts a future
into `pending`, sends one packet and waits for the future or for its ctx.  One
`receive` goroutine per client polls the socket and completes futures.  On the
server one `serve` goroutine polls the socket and submits *every packet as a
task of its own* to a worker pool; the task runs `handlePacket`.  A unary
request is answered by its task.  A stream request stores a session, then
submits a second task, which runs the user's method; the stream's data and end
packets are tasks that look the session up and use its channel.  `Close` on
either side cancels a ctx, waits for the polling goroutine and closes the
socket; it waits for neither calls nor tasks.

What kind of call a method is, each end decides for itself: the server from the
parameters of the method it has registered, the client from the parameters and
results of its proxy.  A unary request runs through the chain of middlewares, a
stream's does not.  The connection pool and the registries are used by no other
part.

### What is hard

* **Late answers.** The mutex covers only the lookup in `pending`; the future is
  written and its channel closed after the unlock.  Calls expire, are retried
  under fresh ids, and the answer to an earlier attempt may arrive at any time.
* **Repetition.** A retry does not stop the attempt it replaces.
* **Reordering.** The packets of one stream are sent in order and handled by
  concurrent tasks.
* **A stream shared by goroutines.** `Send` locks, `Close` does not; both read and
  write `closed`, `seq` and the transport, and `Recv` and the receive goroutine share
  a channel with them.
* **A pool that waits for itself.** A stream's task submits to the pool it runs
  on, and handlers hold workers while they wait for packets that need workers.
* **Shutdown under load.** `Close` closes the socket while tasks and calls still
  use it.
* **Starting while stopping.** `Run` and `Close` hold `mu` for their test of
  `running` only; a `Close` may come between any two steps of a `Run`, and a `Run`
  after a `Close` finds a cancelled ctx and a released pool.
* **Two readings of one signature.** Interfaces overlap (what implements `Stream`
  implements `BidiStream`), the two ends look at different parts of a signature, and
  what they do not agree on is found at the first call.
* **Wrappers around panics.** Counters that are adjusted on the way in and out, with
  a `Recovery` further in or further out.
* **Two levels of locks.** The pool tests `closed` under one mutex and uses a bucket
  under another.
* **Missing answers.** Lost packets, panics without the Recovery middleware,
  replies whose `Send` fails.

### What makes it correct

Unary calls: an answer belongs to the attempt it is returned for; one method run
per packet id; a future is completed at most once; nothing is left in `pending`;
calls with a deadline return, and calls without one when nothing is lost and
panics are recovered; `Close` returns and never pulls the socket from under the
goroutine that polls it.  Streams, at the server: a method receives only what was
sent to it, once; `io.EOF` is last; sessions and handlers match; a channel stays
within its capacity; a worker is left to packets; ends and shutdown reach the
handlers.  Streams, at the client: the receive goroutine survives whatever the
program does with its stream, as long as the peer sends nothing behind its end; `Recv` keeps the order; one end is sent; sequence
numbers order the packets; `Close` and the peer's end wake a `Recv`.  Lifecycle: a
polling goroutine has its own open socket; `Close` returns and leaves no socket
but those of Runs it has overtaken.  Signatures: documented methods get from the
other end what they wait for.  Middleware: with Recovery every call is answered;
gauges come back, counts lose nothing they should not.  Connection pool: a
connection is lent to one user at a time, open, and there are never more than the
pool's size.

## 2. Modules

| module | what it is |
|---|---|
| `RpcContract` | what a proxy function promises its caller, with no sockets, packets or goroutines |
| `UnaryRpc` | the unary path on both sides, and `Close` of both sides; refines `RpcContract` |
| `UnaryRpcProofs` | its theorems |
| `StreamContract` | what one direction of a stream promises the side that receives, with no sessions, channels or tasks |
| `StreamServer` | the streams of a server: serve, the pool, the session map, the handlers, `Close`; refines `StreamContract` |
| `StreamServerProofs` | its theorems |
| `StreamClient` | one stream at the client: the proxy that opens it, `bidiStream` used by several goroutines, the receive goroutine; refines `StreamContract` |
| `StreamClientProofs` | its theorems |
| `Signatures` | what server and client make of a method's signature: operators, no state |
| `SignaturesProofs` | lemmas about those operators, for signatures of any length |
| `Dispatch` | calls of one proxy through `handleRequest`, `buildParams`, the chain of middlewares and `invoke`; extends `Signatures` |
| `DispatchProofs` | its theorems |
| `Lifecycle` | `Run` and `Close` of a server, `NewClient` and `Close` of a client, their loops, their sockets and the heartbeat |
| `LifecycleProofs` | its theorems |
| `Lending` | what the connection pool promises: a connection is lent to one at a time, and there are never too many |
| `ConnPool` | the connection pool; refines `Lending` |
| `ConnPoolProofs` | its theorems |
| `ContractProofs` | what the three abstract specifications mean for their users |
| `MCUnaryRpc`, `MCStreamServer`, `MCStreamClient`, `MCDispatch`, `MCLifecycle`, `MCConnPool` | instances for TLC |

### UnaryRpc

| variables | in the code |
|---|---|
| `pc`, `attempt`, `outcome`, `ctxDone` | the calling goroutine: its place in `Call` and in the retry loop, what the last `Call` returned, whether its ctx is done |
| `pending` | the keys of `Client.pending` of all clients (ids are unique) |
| `completed` | what was written into futures whose `done` is closed |
| `receiver`, `held` | the `receive` goroutine and the reply it has looked up but not yet written |
| `client`, `server` | `open`, `closing` (ctx cancelled), `closed` (socket closed) |
| `toServer`, `toClient` | packets in the network and the sockets' queues; sets, so that they overtake each other |
| `serve`, `hand` | the serve goroutine and the request it is submitting |
| `running`, `replying` | pool tasks before the handler's end, and before their `Send` |
| `runs`, `verdict` | history: how often a method ran for an id and how the handler ended |

An id is the pair of a call and its attempt, because `Call` draws a new uuid each
time.  Actions follow the code's critical sections.  `Begin` is `Call` up to the
registration; `Send`, `Await`, `Leave` follow; `Leave` is the deferred delete
together with the decision of the retry loop, which no other goroutine can tell
apart.  `Take` (with the lookup under the mutex) and `Deliver` (after the unlock)
are separate, which is where late replies matter.  `Begin` takes the test of
`closed` and the registration as one step: between them only `Close` could
interfere, and a `Begin` before that `Close` has the same effect.  Errors that
come from data (an argument that does not marshal, a result that does not decode)
are choices.  `SendReply` loses a reply when the server's socket is closed or the
client is gone, as the ROUTER does; `Lose` loses any packet.

### StreamServer

| variables | in the code |
|---|---|
| `phase`, `sent` | what of each stream has been received by `serve`: the client sends its request, then data in order and at most one end, which data may follow that raced `Close`, over one ordered connection |
| `serve`, `hand` | the serve goroutine and the packet it is submitting |
| `opener` | the task of a stream's request: before and after the session is stored, waiting in the nested `Submit`, through, refused |
| `lookups`, `found` | the tasks of data and end packets before the lookup of the session, and between lookup and use of its channel |
| `sessions`, `chan`, `closed` | `Server.streams`, the contents of each `recvChan`, whether it is closed |
| `handler`, `eof`, `quit`, `got`, `emitted` | the task of the user's method; `bidiStream.closed`, apart by who has set it, `Recv`'s io.EOF or the method's own `Close`; what it received and that it sent |
| `inbox` | what reached the client |

The handler is any method: it may receive, send, close its stream, return or panic at
any time, on one goroutine.  The deferred `Close` sends an end only if `closed` is not
set yet, that is, neither after io.EOF nor after a `Close` of the method's own.
Liveness is stated for methods that return once `Recv` fails, as the README of
the library writes them.  `Routed` models what the ROUTER socket does with a
message that names no target: its only frame is taken for an identity, and a
message without any other frame is ignored.  The refinement mapping takes the end
for come when `serve` has it, and the stream for left when the method has closed it or
has returned.

### StreamClient

| variables | in the code |
|---|---|
| `opening`, `session` | how far the proxy function is, and whether `Client.streams` has the stream |
| `closed`, `seq`, `mu`, `ctxDone` | the fields of `bidiStream` |
| `sender`, `calls`, `closer`, `seqRead`, `reader` | where the program's goroutines stand in `Send`, `Close` and `Recv` |
| `wire` | history: what was handed to the transport |
| `peer`, `ended`, `behind` | what of the peer has been received: how much data, its end, and how much data behind that |
| `receiver`, `hand` | the receive goroutine and the packet whose session it has looked up |
| `chan`, `shut`, `got` | `recvChan`, whether it is closed, and what `Recv` has taken from it |

Steps are cut where another goroutine can tell: `Send` at the test of `closed`, at
the lock and at the transport; `Close` at its swap, at the read and at the write of
`seq` (an increment without `mu`), at the second read for its packet, at the transport
and at `cancel`; the receive goroutine between lookup and use of the channel.  An error
of marshalling or of the transport is a choice.  The peer is a `bidiStream` too: it sends
data in order and one end at most, and may send data behind its end (a `Send` that has
passed its test of `closed` when `Close` comes).  Such data is sent on a closed `recvChan`
and ends the process: `receiver` is `crashed`, and nothing is `Running` any more.  The
server of this repository sends nothing that arrives (section 6), so that the peer is a
model of what the client's handlers are written for.  The
refinement mapping takes the stream for left when a `Close` has won, and for over
when `closed` is set and no `Recv` waits: one that waits when `Close` comes may still
take a message, as its `select` may find both its channels ready.

The stream of a server's method is the same `bidiStream`; `StreamServer` lets one
goroutine use it, `StreamClient` many.

### Signatures and Dispatch

A type is the set of those interfaces it implements that the code asks about, so
that `Implements` is inclusion; plain data is the empty set.  A signature is a
record of parameter and result types.  `ServerMode` is `detectMode`,
`Supplied` is `buildParams` position by position, `Callable` says whether
`Func.Call` panics; `InMode`, `OutMode` and `ProxyMode` are the client's rules,
`Sends`, `WaitsFor` and `Returned` what the proxies do.  The code's loops over a
signature appear in `Signatures` as what they find (`Detected`), which can be
reasoned about for any length; `MCDispatch` has the loops as they are written
(`DetectStep`) and compares the two on all signatures of its instance (`LoopsAgree`).

| variables | in the code |
|---|---|
| `scenario` | the registered method, the proxy, the chain, and whether the argument decodes as the method's parameter: fixed before the calls |
| `pc`, `depth`, `outcome` | where a request is, how many middlewares it has entered and not left, and what the inner ones have returned, a panic on its way included |
| `ran`, `replies` | history: the requests whose method ran, and the packets handed to the transport for them |
| `eof` | the requests whose method has received io.EOF, which sets `closed` of their stream |
| `total`, `read` | `totalRequests` of `middleware.Metrics` and the value each task has read to increment it |
| `active`, `recorded`, `met` | `ActiveRequests` and `TotalRequests` of the collector; history: whom it has met |

`Recovery` stands for the three functions of that name with the default handler
(a handler of one's own that returns no error turns a panic into an answer without
a value, which is an answer too).  Logging, tracing and `Timeout` let a call through
as it is.  `TurnAway` is the only way through the authentication of `auth.go`: it
wants metadata that no ctx of the server has.  The function of `chain.go`'s `Auth` is the
user's: it agrees, refuses or panics.  Where that panic goes depends on the order of the
chain, and so `Answered` and `NoneLost` ask for a Recovery that no `Auth` stands before
(`Guarded`).  `EndStream` hands an end to the transport unless the method has received
io.EOF, after which the deferred `Close` does nothing; `Understood` is about what the
server sends, not about whether it arrives: the end names no target (section 6).  A documented method (`Documented`)
is what the library's README describes: at most one request, at most one stream.

### Lifecycle

| variables | in the code |
|---|---|
| `running`, `cancelled`, `released`, `transport` | the fields of `Server` |
| `open` | the sockets that are bound; a socket has the name of its `Run` |
| `run`, `loop`, `close` | where each call of `Run`, the serve goroutine it has started, and each call of `Close` are |
| `late` | history: the serve goroutines that started when ctx was cancelled already |
| `client`, `quit`, `quitting`, `ended`, `connected`, `receiver`, `beater` | `NewClient`, calls of `Client.Close`, `closed`, `ctx`, the socket, the two loops |
| `beat` | the heartbeat on its way, one at a time |

The steps of `Run` and `Close` outside `mu` are actions of their own: binding,
the write of `transport`, the start of the loop; `cancel`, `wg.Wait`, `Release` and the
transport's `Close`.  Calls in progress are left to `UnaryRpc` and `StreamServer`.
`BindFails` is possible at any time, as the address may be taken by another program.

### ConnPool

A lease is a call of `Get` and the `PoolConn` that wraps its result, with any number
of goroutines that close or release it.

| variables | in the code |
|---|---|
| `closed`, `buckets` | the fields of `Pool`, under `mu` |
| `free`, `inUse` | the lists of each bucket, under the bucket's mutex |
| `stage`, `conn` | where each lease is and what it holds |
| `made`, `opened`, `late` | history: the connections made, those open, those made after `closed` was set |
| `begun`, `rest` | the calls of `Pool.Close` and the buckets each has yet to walk |

The steps are cut between the two mutexes.  The refinement mapping takes for lent what
a lease holds from `Get` to the end of its `Close` or `Release`, and for idle what
is in the free list of its own address.

Definitions marked "Wrong on purpose" are not part of the models.  Each is a
plausible mistake in the definition that follows it; exchanging the two makes TLC
report the property named in `PROJECT.json`.

## 3. What the runs check

| run | instance | question |
|---|---|---|
| `unary_retry` | 1 client, 2 calls, 1 retry, 1 worker, lossy network | types, answers, repetition and `pending`, with late replies of earlier attempts. Two calls make wrong matching possible, one retry makes late answers possible. The calls are symmetric. |
| `unary_contract` | 1 call, 1 retry, lossy, both sides closing, a deadline | the inductive invariant, with double completion; sockets are quiet when closed; refinement of `RpcContract`; calls and `Close` return |
| `unary_answered` | 2 clients with a call each, without deadlines, Recovery installed, nothing lost | every call is answered: while it waits its request or reply is under way, and it returns |
| `stream_safety` | 2 streams, 2 data packets each, channel of 1, 3 workers, closing, methods that do not send | the safety properties of streams, which do not mention what is sent. The streams are symmetric. Two packets make reordering possible and overflow a channel of one; three workers are the fewest with which `WorkerLeft` must hold for two streams |
| `stream_live` | 1 stream, 2 data packets, channel of 2, 2 workers, closing | nobody waits for a worker for ever; ends and `Close` stop handlers; refinement of `StreamContract` |
| `stream_client` | 2 senders with 2 calls each, 2 closers, 3 data packets of the peer, before or behind its end, channel of 2 | safety of a shared stream, what crashes the receive goroutine, nothing of the peer's is missed, refinement of `StreamContract` in order. Two senders make their increments interleave, two closers compete for the swap, a channel of two has an order and three packets overflow it. Goroutines of a kind are symmetric. |
| `stream_client_live` | 1 sender, 1 closer, 2 data packets | a waiting `Recv` returns after `Close` or the peer's end, unless the process ends |
| `conn_pool` | 2 addresses, 4 leases (3 of them for one address), 4 connections, size 2, 2 calls of `Pool.Close` | the inductive invariant, what `Close` leaves open, that nothing closed is lent and nothing open lost, refinement of `Lending`. Three leases of an address exceed its size, two closers overlap. Leases of an address are symmetric. |
| `dispatch` | 2 calls; every method with up to 2 parameters after its ctx and one result, among 5 types, with its own signature or its counterpart for a proxy; 4 signatures that are refused; 6 chains of up to 4 middlewares | the inductive invariant with gauge, division and panics; recorded calls; answers; the two ends' understanding; which methods run at all. Two calls make increments overlap, and the chains have Recovery inside and outside of Metrics, the collector and Auth, and not at all. The calls are symmetric. |
| `lifecycle` | 2 calls of `Run`, 2 of `Server.Close`, 1 of `Client.Close`, one heartbeat at a time | the inductive invariant, what `Close` leaves bound, when the client's socket is closed, and that every `Close` returns. Two Runs and two Closes make a Run overtake and be overtaken. |
| `stream_sends_arrive` | 1 stream | a finding, see section 6 |
| `stream_end_lost` | 1 stream | a finding, see section 6 |

`CHECK_DEADLOCK FALSE` is set where `Close` may be called, as a closed system stops,
for `StreamClient` and `ConnPool`, whose program may have made all its calls, and for
`Dispatch`, where all requests may be done.

Bounds: the attempts by `Retry`, data packets per stream by `MaxData` (those of a
client's peer by `MaxPeer`), calls of `Send` by `MaxSend`, workers by
`PoolSize`, channel capacity by `RecvCap`, calls of `Run`, `Close` and `Get` by the
sets `Runs`, `Closes`, `Quits` and `Leases`, calls of a proxy by `Requests`.  Workers and capacity are parameters
of the code (10000 and 10); small values make their limits happen.

Fairness.  `Fairness` of `UnaryRpc` is weak fairness of each goroutine: the Go
scheduler runs what can run, sockets hand over what they have queued, and methods
return.  `DeadlineSpec` adds that deadlines pass.  Nothing is assumed of the
network.  `Fairness` of `StreamServer` adds strong fairness of the two `Submit`s,
because `ants` wakes its waiters in order, and that a method returns when `Recv`
gives it no message.  Nothing is assumed of clients: they need not send data or an
end.  `Fairness` of `StreamClient` is weak fairness of goroutines that can step, and
strong fairness of taking `mu`, since Go's mutex does not starve a waiter.  Nothing
is assumed of the peer, nor that the program ever calls `Send`, `Recv` or `Close`.
`Fairness` of `Lifecycle` is weak fairness of the goroutines that are under way
(`Recv` and `Send` come back, both have timeouts) and strong fairness of the
heartbeat's exit: Go's `select` chooses at random among its ready branches, so that
one that is ready whenever it looks is taken in the end.  Nobody need call `Run` or
`Close`.

## 4. What is proved

All for arbitrary constants under the assumptions the modules name: `Owner` maps
calls to clients, `Retry` is a natural number, the pool has at least one worker,
the switches are Booleans (`UnaryRpc`); there are finitely many streams, the
bounds are numbers and neither capacity is zero (`StreamServer`); there are
finitely many goroutines, and recvChan's capacity is not zero (`StreamClient`); there
are finitely many requests, signatures are over the interfaces the code asks about,
and a chain holds one collector at most (`Dispatch`);
there are finitely many connections, each for one address, and the size is a number
(`ConnPool`).  `Lifecycle` needs no assumption.

**UnaryRpc.** The properties say something about answers, but an answer is right
only because of where its request and its reply have been.  `IInv` says that: a
request is in exactly one of network, serve's hands and pool until a task has
judged it; afterwards its reply is in exactly one of pool, network, receiver and
future; both carry the id, the origin and the verdict of their call.  It is
inductive together with the types (`SinglePlace`), and gives
`AnswersMatch` (the outcome is that of the current attempt), `ReceiversSurvive`
(no second close), `RunsOnce` and, with a further invariant for the calls' places,
`PendingExact`.  `SocketsQuiet` needs only the life cycle of the two polling
goroutines.  `WaitIsAnswered` is about the absence of silent drops: `UnderWayStep`
goes through every place a request or reply can leave, and shows that with Recovery
and without loss it enters the next; `HandsBusy` says that `serve` and the receivers
hold a packet only between their `Recv` and its use, so that none ends with one in
hand.  `ContractKept` proves the refinement: under the mapping of `UnaryRpc`
every step is a step of `RpcContract` or leaves its variables alone.

**StreamServer.** `SInv` (theorem `StreamInvariant`) has three parts.
`RequestsFirst`: a request is submitted before its stream has done anything.
`Handover`: the session is there from the request's task until the handler's
deferred delete.  `EndsInOrder`: closed channels and end packets imply the
client's end, and `io.EOF` an empty closed channel.  From it follow
`EofComesLast`, `SessionsMatch` and `PoolNeverWedged`: no stream holds two waiting
workers, hence a pool with more workers than streams never has all of them
waiting, and (`SubmitHasHope`) a `Submit` that finds the pool full always finds a task
in it that waits for nobody.  `OnlySentReceived` needs another invariant, `DInv`: a data packet is in one
place, and its number is neither in the channel nor with the handler until it is
enqueued.  `StreamKept` proves the refinement of `StreamContract` from both: what
`HandlerRecv` takes from the channel is new to the handler (`HeadIsFresh`), and io.EOF
needs the client's end.

**StreamClient.** Five small invariants, each inductive with the types.
`Receiving`: only the packet in hand closes the channel, it is the peer's last, and
`Close` leaves the channel alone, so that only data behind the end finds it closed; hence
`LateDataOnly`.  `Arrived`: data in
hand is newer than all data given out; hence `DataInOrder`.  `Closing`: one closer
at most has won, and an end on the wire is its own, sent; hence `OneEndOnly`.
`Numbered`: until a `Close` writes `seq` no number on the wire exceeds it, and none
reaches it while a sender holds `mu`; hence `SendsNumbered`.  `Behind`: behind an end
there is room for the packets of senders that are still busy, and no sender becomes
busy once `closed` is set; with `Closing` this gives `FewFollowTheEnd`.

`PeerIsHeard` needs a sixth, `Complete`: the request goes out after the session is
stored, so that the receive goroutine never misses it, and as long as the peer's
messages fit into recvChan what has been given out and what waits there are exactly
the first ones.  `StreamKept` is the refinement of `StreamContract`, in order; its
invariant `ClosedForCause` says why `closed` may be set: a `Close` has won or the peer
has ended the stream, and never by the latter under a `Recv` that waits.

**ConnPool.** `PInv` is inductive with the types.  `Listed`: the connections of an
address are those its bucket lists, each in one list and once; `Lent`: what a lease
holds is in use in its own bucket, and no other lease holds it; `SizeKept` follows from
`Room` and from the two lists being disjoint.  `OpenWhenLent` and `OnlyRacersStay` are
inductive with it; the former rests on `StrayStep` too: an open connection in use is
in the hands of a lease, since before `Close` only `Release` ends a lease without `Put`,
and only `Put` on a closed pool drops a connection.  `LendingKept` proves the refinement step by step: `GetFree` is
`LendIdle`, `GetNew` is `LendNew`, `PutBack` is `TakeBack`, `ReleaseConn` and a `Put` that
finds the pool closed are `Retire`, everything else is a stutter.

**Dispatch.** `DInv`: where a request is fixes how deep it is in the chain (`Places`);
the gauge counts those inside the collector (`ActiveExact`); whoever is inside
`Metrics` has written a positive count (`NoZeroDivision`); a panic on its way out has
its Recovery still in front of it (`PanicsCaught`); the collector meets a request
once, and what it has recorded is what it is done with (`MetOnce`).
`CollectorLosesNone` is a count over the last; `RecoveryAnswers` follows from
`PanicsCaught`: when the chain is `Guarded` from its outermost middleware on, no panic
is left at depth 0.

The two ends' understanding is a matter of the signature first.  `CallableExactly`
says which methods `Func.Call` runs, for any number of parameters: those `buildParams`
can fill (`Reachable`), given a packet with data; `DocumentedReachable` that the
documented ones are among them; `EndsAgree` what the client's rules find in the
counterpart of a documented method.  `RunInv` carries that through the chain: a method
has run only if it could, and where nothing is in its way it has run once its
request is through.  `UnreachableNeverRun` and `EndsUnderstand` combine the two.

**Contracts.** A refinement is worth what its abstract specification says.
`CallsTellTheTruth`, `StreamsHandOutTheirOwn` and `LoansAreExclusive` show what
`RpcContract`, `StreamContract` and `Lending` give their users: success only after a
good run of the attempt it answers, and an error only after the last attempt;
messages of this stream, each once and in order where that is promised, nothing
after the end; one lease for a connection and no more connections than the size.

**Lifecycle.** `LInv`: a serve loop in `Recv` polls the socket of its own Run, open, with
the pool not released and no `Close` past `wg.Wait` (`LoopOwnsSocket`).  This rests on
`CloseStages` (whoever is past `wg.Wait` has cancelled ctx, so that a loop which
starts later ends at its first test) and `NotOvertaken` (a Run that no `Close` has
overtaken keeps `transport` and its socket, since an address is bound once).
`OnlyOvertakenStay` and `ClientSocketLast` are inductive with it.

Only model-checked: the liveness properties (`CallsReturn`, `ClosesReturn`,
`SubmitReturns`, `CloseStopsAll`, `EndStopsHandler`, `RecvReturns`), which rest on
fairness and ENABLED; that the loops over a signature find what `Signatures` says
(`LoopsAgree`: what a fold computes for every length needs an induction over it); and
the two findings.  `AnswerUnderWay`, `SubmitHasHope` and `NothingMissed` are the safety
halves of three of the liveness properties: what is waited for is there.

## 5. What the models leave out

**Discovery.** `simpleRegistry` is declared to be for tests and has no lock, and
`Deregister` shifts the instances within the slice its readers were given; the etcd,
Consul and ZooKeeper registries are declared placeholders, a map under one lock.
Neither end uses any of them, so that there is no promise to check them against.

**Utilities.** `internal/utils.go` holds helpers nothing calls.

**Examples**, loggers and options: programs that use the library, output, and values
set before anything runs.

**What no signature reaches.** `handleStreamReqRep` and `handleReqStreamRep` of the
server, `clientStream`, `serverStream`, `clientRecvStream` and `streamReader`:
`zrpc.Stream` has all methods of `zrpc.BidiStream`, so that the code takes every stream
parameter for a bidirectional one (`AnyStream` of `Signatures`).
`clientStreamReader` is made for methods that return an `io.Reader`; `Signatures`
says what their proxies ask for and wait for.  Its buffer is not modelled: the server
takes such a method for a unary one and never sends it a stream.

**Details.** Packets that do not unmarshal are dropped by both receivers and change
nothing.  The pause between attempts is a delay and not a state.  `resp`, which all
attempts of a call share, is only read after success.  Data races inside the ZeroMQ
library (`Recv` polls without the mutex) are not modelled: the source says nothing of
their outcome.  `Client.streams` only grows, one session for each stream opened; the
model follows one of them.  `Client.Close` under an open stream is not modelled.
`Retry` is a natural number: the code takes any int, and with a negative one the loop at
`src/client.go:460` runs no attempt at all (section 6).  `AddressFree` takes an address
for one that can be bound once; an endpoint with a wildcard port gives each `Run` a socket
of its own, which no run covers.  Several goroutines that share one stream are
`StreamClient`'s matter; a method of the server uses its stream from one.
Service names are taken to be without a slash: `Register` accepts one that has it, and
`GetMethod` never finds its methods.  The ttl of the connection pool is stored and
never read.

## 6. Findings

* **Server-side stream sends vanish** (`stream_sends_arrive`).
  `bidiStream.Send` and `Close` call `transport.Send("", ...)` on the server's
  ROUTER socket (`src/stream.go:269`, `303`), which ignores a message of one frame
  without an error.  The library's README promises bidirectional streams.
* **An end can be lost** (`stream_end_lost`).  The task of an end packet can run
  before the task of the request has stored the session; the end is dropped
  (`src/server.go:427`) and a method that receives until `io.EOF` never returns.

Met while modelling, and worth knowing:

* **Data behind the peer's end ends the client's process.**  `handleStreamData` sends on
  `recvChan` whether or not `handleStreamEnd` has closed it (`src/client.go:190`, `206`),
  in the receive goroutine, which recovers nothing; and a `bidiStream` can send behind its
  end, since `Send` tests `closed` before it takes `mu` (`src/stream.go:250`, `292`).
  `LateDataCrashes` says that this is when it happens, and the only time.  With the
  server of this repository it stays hidden, as nothing it sends on a stream arrives.  On
  the server the same panic is in a pool task, whose closure recovers it.
* A method that receives until `io.EOF`, as the README's `Chat`, sends no end: the io.EOF
  has set `closed` (`src/stream.go:283`), so that the deferred `Close` returns at its swap
  (`src/stream.go:292`).  A proxy that closes its sending side has closed its `Recv`
  too, and so does not wait for it (`Understood`).
* With a negative retry count the loop at `src/client.go:460` makes no attempt: the
  proxy returns a zero value and no error.
* Without the Recovery middleware a panicking method is never answered
  (`CallsReturn` of `unary_answered` fails then, `Answered` says when it is, for any chain),
  nor is a request whose `Auth` function panics outside of it.
* Data of a stream may be reordered or dropped (`KeepsStream` says what remains
  true); a pool with no more workers than open streams can wedge (`WorkerLeft` needs a
  larger pool); packets may follow the end of their stream, and share a sequence
  number with it, when `Send` races `Close` (`FewBehindEnd`, `NumbersIncrease`).
* A method with no parameter but ctx and its stream, such as `Chat` of the library's
  README, is never run: its request has no data, `buildParams` leaves the stream's
  value zero (`src/server.go:442`) and `Func.Call` panics.  `Understood` makes the
  exception explicit.  Nor does a method ever run that has two parameters to decode,
  or one that takes an `io.Reader` (`OnlyReachable`), though registration accepts both.
* The comment of `Decorator` (`src/client.go:298`) has the same signature on both
  ends.  The server looks at parameters only: for a method that returns a stream the
  proxy waits for the end of a stream, and the server sends one answer
  (`WaitsFor`, `ServerMode`).  A proxy for a method that takes an `io.Reader` always
  returns an error.
* The parameters of a unary method are built before the chain runs, with the
  server's ctx (`src/server.go:240`): a ctx that `Timeout`, tracing or an
  authentication derives never reaches the method, and metadata never reaches
  `auth.go`, which turns every request away.
* `srv.Use(middleware.Recovery())` of the library's README does not compile:
  `zrpc.Middleware` and `middleware.Middleware` are types over two different `Handler`s.
  `Dispatch` is about the chain a program builds with an adapter around each of them.
* A `Run` that fails leaves `running` set, and ctx and pool of a closed server are
  gone for good: a `Run` after `Close` binds a socket that no loop polls and no
  `Close` need close (`CloseLeavesOvertaken` says which sockets can stay).  The first
  call of `Client.Close` returns when the socket is closed, a second one at once.
* `PoolConn.Release` keeps its slot in `inUse`: a bucket is exhausted after as many
  Releases as it has connections.  `Pool.Close` does not close connections that a
  racing `Get` makes after it (`CloseLeavesOnlyRacers`).

## 7. Plan

Done: `RpcContract`, `UnaryRpc`, `StreamContract`, `StreamServer`, `StreamClient`,
`Signatures`, `Dispatch`, `Lifecycle`, `Lending`, `ConnPool`, and the proofs of all of
them: every safety property and every refinement the runs check is a theorem.
What could follow:

1. Proofs: safety halves of the remaining liveness properties, as `AnswerUnderWay` is of
   `CallsReturn`: that a `Close` under way always finds a polling goroutine that can
   still notice it (`UnaryRpc`, `Lifecycle`), and that a closed channel is seen by the
   handler it belongs to (`StreamServer`).
2. `StreamClient` and `StreamServer` composed over `StreamContract`, as soon as the
   server's sends arrive.
3. The buffer of `clientStreamReader` as a refinement of a byte stream, as soon as a
   server can fill it.
4. `Client.Close` under open streams: `Lifecycle` composed with `StreamClient`.
