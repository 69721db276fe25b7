------------------------------- MODULE UnaryRpc -------------------------------
(***************************************************************************)
(* The unary (ReqRep) path of go-zrpc, from the proxy function a program   *)
(* calls to the method that answers it and back:                           *)
(*                                                                         *)
(*   caller goroutines   createProxyFunc's retry loop over Client.Call,    *)
(*   receiver            one Client.receive goroutine per client,          *)
(*   serve               Server.serve, which hands packets to the pool,    *)
(*   pool tasks          handleRequest / handleReqRep, one per request,    *)
(*   Client.Close and Server.Close.                                        *)
(*                                                                         *)
(* A message id is the pair of a call and its attempt: Call draws a new    *)
(* uuid on every attempt, and uuids do not collide.  A request's payload   *)
(* is named by the id it was sent under, a result by the id of the request *)
(* whose parameters the method ran with, so that an answer that went to    *)
(* the wrong call can be told from the right one.                          *)
(*                                                                         *)
(* Heartbeats and streams are left out: they meet unary calls only in the  *)
(* worker pool and in the two Close functions.                             *)
(***************************************************************************)
EXTENDS Naturals, FiniteSets

CONSTANTS Clients,   \* the Client values of the program
          Calls,     \* the invocations of their proxy functions
          Owner,     \* the client each call is made on
          Retry,     \* the retry count given to ProxyWithRetry
          PoolSize,  \* the capacity of the server's worker pool
          Recovery,  \* whether the Recovery middleware is installed
          Lossy,     \* whether the network loses packets and sends time out
          Shutdown   \* whether the program calls Close while calls run

ASSUME OwnerAssumption == Owner \in [Calls -> Clients]
ASSUME RetryAssumption == Retry \in Nat
ASSUME PoolSizeAssumption == PoolSize \in Nat \ {0}
ASSUME SwitchAssumption == {Recovery, Lossy, Shutdown} \subseteq BOOLEAN

MsgId == Calls \X (0..Retry)
Request == [id : MsgId, from : Clients]
Reply == [id : MsgId, to : Clients, kind : {"ok", "error"}, body : MsgId]

VARIABLES
  pc,        \* where the goroutine of each call stands
  attempt,   \* createProxyFunc's loop counter
  ctxDone,   \* whether the ctx of the call has expired or was cancelled
  outcome,   \* what the last Client.Call of the call returned
  pending,   \* the keys of the clients' pending maps
  completed, \* the replies written to a callFuture whose done is closed
  receiver,  \* where each receive goroutine stands
  held,      \* the reply it has looked up but not yet written
  client,    \* open, closing (cancelled) or closed, for each client
  toServer,  \* requests in the network or in the ROUTER's queue
  toClient,  \* replies in the network or in a DEALER's queue
  serve,     \* where the serve goroutine stands
  hand,      \* the request it is submitting to the pool
  running,   \* pool tasks that have not yet run their handler
  replying,  \* the replies pool tasks are about to send
  server,    \* open, closing (cancelled) or closed
  runs,      \* history: how often the method ran for each id
  verdict    \* history: how the handler ended for each id

callVars == <<pc, attempt, ctxDone, outcome>>
clientVars == <<pending, completed, receiver, held, client>>
netVars == <<toServer, toClient>>
serverVars == <<serve, hand, running, replying, server, runs, verdict>>
vars == <<callVars, clientVars, netVars, serverVars>>

Init ==
  /\ pc = [c \in Calls |-> "begin"]
  /\ attempt = [c \in Calls |-> 0]
  /\ ctxDone = [c \in Calls |-> FALSE]
  /\ outcome = [c \in Calls |-> [kind |-> "none", body |-> <<c, 0>>]]
  /\ pending = {}
  /\ completed = {}
  /\ receiver = [cl \in Clients |-> "loop"]
  /\ held = [cl \in Clients |-> {}]
  /\ client = [cl \in Clients |-> "open"]
  /\ toServer = {}
  /\ toClient = {}
  /\ serve = "loop"
  /\ hand = {}
  /\ running = {}
  /\ replying = {}
  /\ server = "open"
  /\ runs = [m \in MsgId |-> 0]
  /\ verdict = [m \in MsgId |-> "none"]
-----------------------------------------------------------------------------
(* The calling goroutine.                                                    *)
(* Definitions marked "Wrong on purpose" are not part of the model: each is  *)
(* the mistake that the definition after it is shown to be free of.          *)

\* Wrong on purpose: one id for all attempts of a call.
FirstId(c) == <<c, 0>>

\* The uuid Call draws for the current attempt.
Id(c) == <<c, attempt[c]>>

\* Call returns res; the deferred delete and the retry loop come next.
Return(c, kind, body) ==
  /\ outcome' = [outcome EXCEPT ![c] = [kind |-> kind, body |-> body]]
  /\ pc' = [pc EXCEPT ![c] = "leave"]

\* Call's registration of the future.
Registered(c) == pending \union {Id(c)}

\* Call up to the registration of the future.  It gives up early when the
\* client is closed or the argument does not marshal.  The registration is
\* under mu and no reply to a fresh id can exist yet, so that it is one step
\* with the test of closed.
Begin(c) ==
  /\ pc[c] = "begin"
  /\ \/ /\ client[Owner[c]] = "open"
        /\ pending' = Registered(c)
        /\ pc' = [pc EXCEPT ![c] = "send"]
        /\ UNCHANGED outcome
     \/ /\ client[Owner[c]] # "open"
        /\ Return(c, "closed", Id(c))
        /\ UNCHANGED pending
     \/ /\ client[Owner[c]] = "open"
        /\ Return(c, "marshal", Id(c))
        /\ UNCHANGED pending
  /\ UNCHANGED <<attempt, ctxDone, completed, receiver, held, client, netVars, serverVars>>

\* transport.Send: refused once the socket is closed, and it may run into
\* SNDTIMEO.
Send(c) ==
  /\ pc[c] = "send"
  /\ \/ /\ client[Owner[c]] # "closed"
        /\ toServer' = toServer \union {[id |-> Id(c), from |-> Owner[c]]}
        /\ pc' = [pc EXCEPT ![c] = "wait"]
        /\ UNCHANGED outcome
     \/ /\ client[Owner[c]] = "closed" \/ Lossy
        /\ Return(c, "send", Id(c))
        /\ UNCHANGED toServer
  /\ UNCHANGED <<attempt, ctxDone, clientVars, toClient, serverVars>>

\* Wrong on purpose: the select has no case for the ctx.
IgnoresCtx(c) == FALSE

\* ctx.Done() is ready.
CtxReady(c) == ctxDone[c]

\* The select of Call: when both channels are ready either may be taken.  A
\* response that does not decode into resp is an error like any other.
Await(c) ==
  /\ pc[c] = "wait"
  /\ \/ /\ CtxReady(c)
        /\ Return(c, "ctx", Id(c))
     \/ \E p \in completed :
          /\ p.id = Id(c)
          /\ \/ p.kind = "error" /\ Return(c, "remote", p.body)
             \/ p.kind = "ok" /\ Return(c, "ok", p.body)
             \/ p.kind = "ok" /\ Return(c, "decode", p.body)
  /\ UNCHANGED <<attempt, ctxDone, clientVars, netVars, serverVars>>

\* Wrong on purpose: the loop bound off by one.
OneMoreTry(c) == attempt[c] <= Retry

\* The condition of createProxyFunc's loop for another attempt.
TriesLeft(c) == attempt[c] < Retry

\* Wrong on purpose: the deferred delete forgotten.
KeepPending(c) == pending

\* The deferred delete of Call.
Unregistered(c) == pending \ {Id(c)}

\* Call's deferred delete, then the retry loop: any error is tried again,
\* whatever its kind and whether or not the ctx is done.  The pause before
\* the next attempt is a delay of its Begin.
Leave(c) ==
  /\ pc[c] = "leave"
  /\ pending' = Unregistered(c)
  /\ \/ /\ outcome[c].kind # "ok"
        /\ TriesLeft(c)
        /\ attempt' = [attempt EXCEPT ![c] = @ + 1]
        /\ pc' = [pc EXCEPT ![c] = "begin"]
     \/ /\ outcome[c].kind = "ok" \/ ~TriesLeft(c)
        /\ pc' = [pc EXCEPT ![c] = "done"]
        /\ UNCHANGED attempt
  /\ UNCHANGED <<ctxDone, outcome, completed, receiver, held, client, netVars, serverVars>>

\* The deadline of the call's ctx passes, or its owner cancels it.
Expire(c) ==
  /\ pc[c] # "done"
  /\ ~ctxDone[c]
  /\ ctxDone' = [ctxDone EXCEPT ![c] = TRUE]
  /\ UNCHANGED <<pc, attempt, outcome, clientVars, netVars, serverVars>>
-----------------------------------------------------------------------------
(* The receive goroutine of a client. *)

ToReceiver(cl, where) == receiver' = [receiver EXCEPT ![cl] = where]

\* Wrong on purpose: the head of the loop does not look at ctx.
NeverStops(cl) == "recv"

\* The test of ctx at the head of the loop.
LoopHead(cl) == IF client[cl] = "open" THEN "recv" ELSE "exited"

CheckCancelled(cl) ==
  /\ receiver[cl] = "loop"
  /\ ToReceiver(cl, LoopHead(cl))
  /\ UNCHANGED <<callVars, pending, completed, held, client, netVars, serverVars>>

\* Recv returns a reply and handleResponse looks its future up under mu.  A
\* reply whose call has left is dropped here.
Take(cl) ==
  /\ receiver[cl] = "recv"
  /\ \E p \in toClient :
       /\ p.to = cl
       /\ toClient' = toClient \ {p}
       /\ \/ /\ p.id \in pending
             /\ held' = [held EXCEPT ![cl] = {p}]
             /\ ToReceiver(cl, "deliver")
          \/ /\ p.id \notin pending
             /\ ToReceiver(cl, "loop")
             /\ UNCHANGED held
  /\ UNCHANGED <<callVars, pending, completed, client, toServer, serverVars>>

\* The poll of Recv times out.
PollTimeout(cl) ==
  /\ receiver[cl] = "recv"
  /\ \A p \in toClient : p.to # cl
  /\ ToReceiver(cl, "loop")
  /\ UNCHANGED <<callVars, pending, completed, held, client, netVars, serverVars>>

\* handleResponse after the unlock: write the future, close its channel.  The
\* call may have left in between; closing a closed channel would panic and,
\* with nothing to recover it, end the process.
Deliver(cl) ==
  /\ receiver[cl] = "deliver"
  /\ \E p \in held[cl] :
       IF \E q \in completed : q.id = p.id
       THEN ToReceiver(cl, "crashed") /\ UNCHANGED <<completed, held>>
       ELSE /\ completed' = completed \union {p}
            /\ held' = [held EXCEPT ![cl] = {}]
            /\ ToReceiver(cl, "loop")
  /\ UNCHANGED <<callVars, pending, client, netVars, serverVars>>

Receive(cl) == CheckCancelled(cl) \/ Take(cl) \/ PollTimeout(cl) \/ Deliver(cl)

\* Client.Close up to cancel.
CloseClient(cl) ==
  /\ Shutdown
  /\ client[cl] = "open"
  /\ client' = [client EXCEPT ![cl] = "closing"]
  /\ UNCHANGED <<callVars, pending, completed, receiver, held, netVars, serverVars>>

\* Wrong on purpose: Close does not wait for the receive goroutine.
NoWait(cl) == TRUE

\* wg.Wait of Client.Close.
ReceiverGone(cl) == receiver[cl] = "exited"

\* The rest of Client.Close.  Pending calls are not told.
FinishCloseClient(cl) ==
  /\ client[cl] = "closing"
  /\ ReceiverGone(cl)
  /\ client' = [client EXCEPT ![cl] = "closed"]
  /\ UNCHANGED <<callVars, pending, completed, receiver, held, netVars, serverVars>>
-----------------------------------------------------------------------------
(* The server. *)

ServeCheckCancelled ==
  /\ serve = "loop"
  /\ serve' = IF server = "open" THEN "recv" ELSE "exited"
  /\ UNCHANGED <<callVars, clientVars, netVars, hand, running, replying, server, runs, verdict>>

ServeRecv ==
  /\ serve = "recv"
  /\ \E r \in toServer :
       /\ toServer' = toServer \ {r}
       /\ hand' = {r}
  /\ serve' = "submit"
  /\ UNCHANGED <<callVars, clientVars, toClient, running, replying, server, runs, verdict>>

ServePollTimeout ==
  /\ serve = "recv"
  /\ toServer = {}
  /\ serve' = "loop"
  /\ UNCHANGED <<callVars, clientVars, netVars, hand, running, replying, server, runs, verdict>>

\* workerPool.Submit blocks while every worker is busy.
WorkerFree == Cardinality(running) + Cardinality(replying) < PoolSize

ServeSubmit ==
  /\ serve = "submit"
  /\ WorkerFree
  /\ running' = running \union hand
  /\ hand' = {}
  /\ serve' = "loop"
  /\ UNCHANGED <<callVars, clientVars, netVars, replying, server, runs, verdict>>

Serve == ServeCheckCancelled \/ ServeRecv \/ ServePollTimeout \/ ServeSubmit

\* Wrong on purpose: the task reads serve's variables instead of its own copy.
ReplyToShared(r, v) ==
  LET s == IF hand = {} THEN r ELSE CHOOSE h \in hand : TRUE
  IN  [id |-> r.id, to |-> r.from,
       kind |-> IF v = "ok" THEN "ok" ELSE "error", body |-> s.id]

\* The packet handleReqRep sends: it echoes the id of the task's own packet.
ReplyTo(r, v) ==
  [id |-> r.id, to |-> r.from,
   kind |-> IF v = "ok" THEN "ok" ELSE "error", body |-> r.id]

\* Wrong on purpose: handleReqRep goes on after sendError.
NoReturnAfterError(r, v) ==
  {ReplyTo(r, v)} \union
  (IF v = "fail" THEN {[ReplyTo(r, v) EXCEPT !.kind = "ok"]} ELSE {})

\* Wrong on purpose: an error path that returns without sendError.
SilentFailure(r, v) ==
  IF v \in {"panic", "fail"} THEN {} ELSE {ReplyTo(r, v)}

\* Every way out of handleReqRep sends one packet, except a panic that no
\* Recovery middleware turns into an error: serve's closure logs it.
Replies(r, v) ==
  IF v = "panic" /\ ~Recovery THEN {} ELSE {ReplyTo(r, v)}

\* handleRequest and handleReqRep without the method: no such method, the
\* parameters do not decode, or a middleware refuses.
Reject(r) ==
  /\ running' = running \ {r}
  /\ replying' = replying \union Replies(r, "reject")
  /\ verdict' = [verdict EXCEPT ![r.id] = "reject"]
  /\ UNCHANGED <<callVars, clientVars, netVars, serve, hand, server, runs>>

\* handleReqRep with the method: it succeeds, fails (or its result does not
\* marshal), or panics.
Execute(r) ==
  /\ running' = running \ {r}
  /\ runs' = [runs EXCEPT ![r.id] = @ + 1]
  /\ \E v \in {"ok", "fail", "panic"} :
       /\ verdict' = [verdict EXCEPT ![r.id] = v]
       /\ replying' = replying \union Replies(r, v)
  /\ UNCHANGED <<callVars, clientVars, netVars, serve, hand, server>>

\* transport.Send of the reply, its result ignored: it is lost when the
\* server's socket is closed or the client is gone (ROUTER_MANDATORY).
SendReply(p) ==
  /\ replying' = replying \ {p}
  /\ \/ /\ server # "closed" /\ client[p.to] # "closed"
        /\ toClient' = toClient \union {p}
     \/ /\ server = "closed" \/ client[p.to] = "closed"
        /\ UNCHANGED toClient
  /\ UNCHANGED <<callVars, clientVars, toServer, serve, hand, running, server, runs, verdict>>

Task ==
  \/ \E r \in running : Reject(r) \/ Execute(r)
  \/ \E p \in replying : SendReply(p)

\* Server.Close up to cancel.
CloseServer ==
  /\ Shutdown
  /\ server = "open"
  /\ server' = "closing"
  /\ UNCHANGED <<callVars, clientVars, netVars, serve, hand, running, replying, runs, verdict>>

\* wg.Wait of Server.Close.
ServeGone == serve = "exited"

\* The rest of Server.Close: Release lets the tasks of the pool run on, and
\* the socket is closed under them.
FinishCloseServer ==
  /\ server = "closing"
  /\ ServeGone
  /\ server' = "closed"
  /\ UNCHANGED <<callVars, clientVars, netVars, serve, hand, running, replying, runs, verdict>>

\* The network loses a packet, with a connection or by a full queue.
Lose ==
  /\ Lossy
  /\ \/ \E r \in toServer : toServer' = toServer \ {r} /\ UNCHANGED toClient
     \/ \E p \in toClient : toClient' = toClient \ {p} /\ UNCHANGED toServer
  /\ UNCHANGED <<callVars, clientVars, serverVars>>
-----------------------------------------------------------------------------
CallStep(c) == Begin(c) \/ Send(c) \/ Await(c) \/ Leave(c)

Next ==
  \/ \E c \in Calls : CallStep(c) \/ Expire(c)
  \/ \E cl \in Clients : Receive(cl) \/ CloseClient(cl) \/ FinishCloseClient(cl)
  \/ Serve \/ Task \/ CloseServer \/ FinishCloseServer
  \/ Lose

Spec == Init /\ [][Next]_vars
-----------------------------------------------------------------------------
(* Safety. *)

Outcomes == {"none", "ok", "remote", "ctx", "closed", "marshal", "send", "decode"}
Verdicts == {"none", "reject", "ok", "fail", "panic"}
LifeStages == {"open", "closing", "closed"}

\* Every variable keeps to the values the code can give it; the attempt
\* counter of createProxyFunc stays within 0..Retry.
TypeOK ==
  /\ pc \in [Calls -> {"begin", "send", "wait", "leave", "done"}]
  /\ attempt \in [Calls -> 0..Retry]
  /\ ctxDone \in [Calls -> BOOLEAN]
  /\ outcome \in [Calls -> [kind : Outcomes, body : MsgId]]
  /\ pending \subseteq MsgId
  /\ completed \subseteq Reply
  /\ receiver \in [Clients -> {"loop", "recv", "deliver", "exited", "crashed"}]
  /\ held \in [Clients -> SUBSET Reply]
  /\ client \in [Clients -> LifeStages]
  /\ toServer \subseteq Request
  /\ toClient \subseteq Reply
  /\ serve \in {"loop", "recv", "submit", "exited"}
  /\ hand \subseteq Request
  /\ running \subseteq Request
  /\ replying \subseteq Reply
  /\ server \in LifeStages
  /\ runs \in [MsgId -> Nat]
  /\ verdict \in [MsgId -> Verdicts]

\* What Call returns is about this call and this attempt: a success carries
\* the result of a run of the method with the call's own argument that did
\* succeed, a remote error was decided by the server for the same attempt, a
\* context error comes from the call's own ctx (client.go Call, the pending
\* map and the echoed packet id).
AnswerMatchesCall ==
  \A c \in Calls :
    /\ outcome[c].kind = "ok" =>
         outcome[c].body = <<c, attempt[c]>> /\ verdict[outcome[c].body] = "ok"
    /\ outcome[c].kind = "remote" =>
         /\ outcome[c].body[1] = c
         /\ verdict[outcome[c].body] \in {"reject", "fail", "panic"}
    /\ outcome[c].kind = "ctx" => ctxDone[c]

\* No future is completed twice: handleResponse closes future.done without
\* holding mu, and a second close would crash the client process.
NoReceiverCrash == \A cl \in Clients : receiver[cl] # "crashed"

\* The server runs the method at most once for each packet id, however its
\* packets travel: all repetition is by createProxyFunc, under a fresh id.
AtMostOnce == \A m \in MsgId : runs[m] <= 1

\* The pending maps hold the calls between registration and their deferred
\* delete: nothing leaks on any way out of Call, and while a call sends or
\* waits handleResponse can find it.
PendingMatchesCalls ==
  /\ pending \subseteq {Id(c) : c \in {d \in Calls : pc[d] \in {"send", "wait", "leave"}}}
  /\ {Id(c) : c \in {d \in Calls : pc[d] \in {"send", "wait"}}} \subseteq pending

\* Close of either side closes the socket only when the goroutine that polls
\* it has ended (wg.Wait before transport.Close).
SocketQuietWhenClosed ==
  /\ \A cl \in Clients : client[cl] = "closed" => receiver[cl] \notin {"recv", "deliver"}
  /\ server = "closed" => serve \notin {"recv", "submit"}

(* What makes those inductive: a request is in one place at a time until a   *)
(* task has judged it, and so is the reply to it afterwards.                 *)

\* The id has been used: its request may have been handed to the socket.
Used(m) ==
  \/ m[2] < attempt[m[1]]
  \/ m[2] = attempt[m[1]] /\ pc[m[1]] \in {"wait", "leave", "done"}

Requests == toServer \union hand \union running
RepliesLeft == replying \union toClient \union completed \union UNION {held[cl] : cl \in Clients}

RequestsSound ==
  \A r \in Requests :
    r.from = Owner[r.id[1]] /\ Used(r.id) /\ verdict[r.id] = "none"

RequestsOnce ==
  /\ toServer \intersect hand = {}
  /\ toServer \intersect running = {}
  /\ hand \intersect running = {}

RepliesSound ==
  \A p \in RepliesLeft :
    /\ p.to = Owner[p.id[1]]
    /\ p.body = p.id
    /\ verdict[p.id] # "none"
    /\ p.kind = "ok" <=> verdict[p.id] = "ok"

RepliesOnce ==
  /\ replying \intersect toClient = {}
  /\ replying \intersect completed = {}
  /\ toClient \intersect completed = {}
  /\ \A cl \in Clients :
       /\ held[cl] \intersect (replying \union toClient \union completed) = {}
       /\ \A p \in held[cl] : p.to = cl

RunsSound ==
  \A m \in MsgId :
    /\ runs[m] <= 1
    /\ verdict[m] = "none" => runs[m] = 0
    /\ verdict[m] # "none" => Used(m)

\* A request is in one place at a time, on its way to the pool or in it, until
\* a task has judged it; from then on its reply is in one place at a time, up
\* to the future it completes.  Both always belong to the call whose id they
\* carry.  This is what the pending maps and closures of the code rely on.
IInv ==
  /\ RequestsSound /\ RequestsOnce
  /\ RepliesSound /\ RepliesOnce
  /\ RunsSound
  /\ AnswerMatchesCall /\ NoReceiverCrash

\* Something on either side still stands for the message id: the request on
\* its way, the task that runs it, its reply on the way or in the future.
UnderWay(m) == \E x \in Requests \union RepliesLeft : x.id = m

\* A call that waits without a deadline waits for something: with the Recovery
\* middleware, and as long as the network loses nothing and neither socket is
\* closed, its request is queued or running or its reply is on the way to it.
\* No path of handleReqRep, serve, receive or handleResponse drops it.
AnswerUnderWay ==
  Recovery /\ ~Lossy =>
    \A c \in Calls :
      pc[c] = "wait" /\ client[Owner[c]] # "closed" /\ server # "closed" => UnderWay(Id(c))
-----------------------------------------------------------------------------
(* Refinement: the proxy call keeps the contract of RpcContract. *)

phaseBar ==
  [c \in Calls |-> IF pc[c] = "done" THEN "returned"
                   ELSE IF pc[c] = "begin" /\ attempt[c] = 0 THEN "idle"
                   ELSE "trying"]
ranBar == {m \in MsgId : runs[m] # 0}
goodBar == {m \in MsgId : verdict[m] = "ok"}
answerBar ==
  [c \in Calls |-> IF pc[c] # "done" THEN "none"
                   ELSE IF outcome[c].kind = "ok" THEN "ok" ELSE "error"]

Contract ==
  INSTANCE RpcContract WITH phase <- phaseBar, tries <- attempt,
                            ran <- ranBar, good <- goodBar, answer <- answerBar

\* The caller of a proxy function sees at most Retry + 1 attempts, at most one
\* run of the method for each, success only from the run of the attempt it
\* was returned for, and an error only when no attempt is left.
KeepsContract == Contract!ContractSpec
-----------------------------------------------------------------------------
(* Liveness.  Goroutines that can step do (the Go scheduler), the socket     *)
(* hands over what it has queued, methods return, deadlines pass.            *)

Fairness ==
  /\ \A c \in Calls : WF_vars(CallStep(c))
  /\ \A cl \in Clients : WF_vars(Receive(cl)) /\ WF_vars(FinishCloseClient(cl))
  /\ WF_vars(Serve) /\ WF_vars(Task) /\ WF_vars(FinishCloseServer)

FairSpec == Spec /\ Fairness

\* A program whose calls all carry a deadline.
DeadlineSpec == FairSpec /\ \A c \in Calls : WF_vars(Expire(c))

\* A call with a deadline returns, whatever the network loses and whoever
\* closes: its wait is the only unbounded one.
CallsReturn == \A c \in Calls : <>(pc[c] = "done")

\* Close returns on either side while calls are in progress: the receive and
\* serve goroutines notice the cancelled ctx, and unary tasks free the pool.
ClosesReturn ==
  /\ \A cl \in Clients : client[cl] = "closing" ~> client[cl] = "closed"
  /\ server = "closing" ~> server = "closed"
=============================================================================
