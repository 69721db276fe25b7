----------------------------- MODULE StreamServer -----------------------------
(***************************************************************************)
(* The streams of a go-zrpc server: Server.serve hands every packet of a   *)
(* stream (its request, its data, its end) to the worker pool as a task of *)
(* its own; handleBidiStream registers a session and submits the user's    *)
(* handler to the same pool; handleStreamData and handleStreamEnd look the *)
(* session up and use its channel.  (handleStreamReqRep and                *)
(* handleReqStreamRep are never reached: detectMode has no such answer.)   *)
(*                                                                         *)
(* A client sends the request of a stream first, then its data in order    *)
(* and at most one end, which data may follow that a Send had ready when   *)
(* Close came (see StreamClient), over one ordered connection.  The tasks  *)
(* of these packets run concurrently, however.                             *)
(*                                                                         *)
(* The handler is the user's method: it receives, sends, may close its     *)
(* stream itself, returns after io.EOF or an error of Recv, and may also   *)
(* return or panic at any time.  (Several goroutines on one bidiStream are *)
(* StreamClient's matter: both ends use the same code.)                    *)
(***************************************************************************)
EXTENDS Naturals, Sequences, FiniteSets, SequencesExt

CONSTANTS Streams,   \* the streams clients open
          MaxData,   \* bound: data packets per stream
          RecvCap,   \* the capacity of a session's recvChan, 10 in the code
          PoolSize,  \* the capacity of the worker pool
          Senders,   \* the streams whose method sends
          Shutdown   \* whether Server.Close is called

ASSUME StreamsAssumption == IsFiniteSet(Streams)
ASSUME BoundsAssumption == MaxData \in Nat /\ RecvCap \in Nat \ {0} /\ PoolSize \in Nat \ {0}

Packet == [s : Streams, kind : {"request", "data", "end"}, n : 0..MaxData]

VARIABLES
  sent,     \* how many data packets of the stream have arrived
  phase,    \* what of the stream has arrived: nothing, its request, its end
  serve,    \* where the serve goroutine stands
  hand,     \* the packet it is submitting
  opener,   \* where the task of the stream's request stands
  lookups,  \* the tasks of data and end packets that have not looked up yet
  found,    \* those that hold the session and have not used its channel yet
  sessions, \* the keys of Server.streams
  chan,     \* the contents of recvChan
  closed,   \* whether recvChan is closed
  handler,  \* where the task of the user's method stands
  eof,      \* Recv has returned io.EOF, which sets bidiStream.closed
  quit,     \* the streams whose method has called Close, which sets it too
  got,      \* history: the data the handler received
  emitted,  \* history: the streams on which a Send of the handler succeeded
  inbox,    \* the packets that reached the client
  server    \* open, closing (cancelled) or closed

wireVars == <<sent, phase>>
serveVars == <<serve, hand>>
taskVars == <<opener, lookups, found>>
sessionVars == <<sessions, chan, closed>>
handlerVars == <<handler, eof, quit, got, emitted, inbox>>
vars == <<wireVars, serveVars, taskVars, sessionVars, handlerVars, server>>

Init ==
  /\ sent = [s \in Streams |-> 0]
  /\ phase = [s \in Streams |-> "new"]
  /\ serve = "loop"
  /\ hand = {}
  /\ opener = [s \in Streams |-> "none"]
  /\ lookups = {}
  /\ found = {}
  /\ sessions = {}
  /\ chan = [s \in Streams |-> <<>>]
  /\ closed = [s \in Streams |-> FALSE]
  /\ handler = [s \in Streams |-> "none"]
  /\ eof = [s \in Streams |-> FALSE]
  /\ quit = {}
  /\ got = [s \in Streams |-> <<>>]
  /\ emitted = {}
  /\ inbox = {}
  /\ server = "open"
-----------------------------------------------------------------------------
(* The socket. *)

\* Transport.Send.  A closed transport refuses.  On the ROUTER socket a message
\* with a target is routed; without one its only frame is taken for an
\* identity, and a message without another one is ignored without an error.
Routed(to, p) == IF server = "closed" \/ to = "" THEN {} ELSE {p}

\* The client a request came from.
From == "client"
-----------------------------------------------------------------------------
(* The worker pool.  Submit blocks while every worker is busy. *)

Openers == {s \in Streams : opener[s] \in {"start", "registered", "submitting"}}
Handlers == {s \in Streams : handler[s] = "running"}

Busy == Cardinality(Openers) + Cardinality(Handlers) + Cardinality(lookups) + Cardinality(found)
WorkerFree == Busy < PoolSize
-----------------------------------------------------------------------------
(* The serve goroutine.                                                      *)
(* Definitions marked "Wrong on purpose" are not part of the model: each is  *)
(* the mistake that the definition after it is shown to be free of.          *)

\* The test of ctx at the head of the loop.
LoopHead == IF server = "open" THEN "recv" ELSE "exited"

ServeCheckCancelled ==
  /\ serve = "loop"
  /\ serve' = LoopHead
  /\ UNCHANGED <<wireVars, hand, taskVars, sessionVars, handlerVars, server>>

ServePollTimeout ==
  /\ serve = "recv"
  /\ serve' = "loop"
  /\ UNCHANGED <<wireVars, hand, taskVars, sessionVars, handlerVars, server>>

Received(p) ==
  /\ serve = "recv"
  /\ serve' = "submit"
  /\ hand' = {p}
  /\ UNCHANGED <<taskVars, sessionVars, handlerVars, server>>

RecvRequest(s) ==
  /\ phase[s] = "new"
  /\ phase' = [phase EXCEPT ![s] = "open"]
  /\ UNCHANGED sent
  /\ Received([s |-> s, kind |-> "request", n |-> 0])

RecvData(s) ==
  /\ phase[s] # "new"
  /\ sent[s] < MaxData
  /\ sent' = [sent EXCEPT ![s] = @ + 1]
  /\ UNCHANGED phase
  /\ Received([s |-> s, kind |-> "data", n |-> sent[s] + 1])

RecvEnd(s) ==
  /\ phase[s] = "open"
  /\ phase' = [phase EXCEPT ![s] = "ended"]
  /\ UNCHANGED sent
  /\ Received([s |-> s, kind |-> "end", n |-> 0])

\* workerPool.Submit of the packet's task.
ServeSubmit ==
  /\ serve = "submit"
  /\ WorkerFree
  /\ serve' = "loop"
  /\ hand' = {}
  /\ \E p \in hand :
       \/ /\ p.kind = "request"
          /\ opener' = [opener EXCEPT ![p.s] = "start"]
          /\ UNCHANGED lookups
       \/ /\ p.kind # "request"
          /\ lookups' = lookups \union {p}
          /\ UNCHANGED opener
  /\ UNCHANGED <<wireVars, found, sessionVars, handlerVars, server>>

Serve ==
  \/ ServeCheckCancelled \/ ServePollTimeout \/ ServeSubmit
  \/ \E s \in Streams : RecvRequest(s) \/ RecvData(s) \/ RecvEnd(s)
-----------------------------------------------------------------------------
(* The task of a request: handleRequest and handleBidiStream. *)

\* The registry does not know the method.
Unknown(s) ==
  /\ opener[s] = "start"
  /\ opener' = [opener EXCEPT ![s] = "refused"]
  /\ inbox' = inbox \union Routed(From, [s |-> s, kind |-> "error"])
  /\ UNCHANGED <<wireVars, serveVars, lookups, found, sessionVars, handler, eof, quit, got, emitted, server>>

\* The session is stored before anything can fail.
Register(s) ==
  /\ opener[s] = "start"
  /\ opener' = [opener EXCEPT ![s] = "registered"]
  /\ sessions' = sessions \union {s}
  /\ UNCHANGED <<wireVars, serveVars, lookups, found, chan, closed, handlerVars, server>>

\* buildParams; when the argument does not decode the task returns and leaves
\* the session behind.
Build(s) ==
  /\ opener[s] = "registered"
  /\ \/ /\ opener' = [opener EXCEPT ![s] = "submitting"]
        /\ UNCHANGED inbox
     \/ /\ opener' = [opener EXCEPT ![s] = "refused"]
        /\ inbox' = inbox \union Routed(From, [s |-> s, kind |-> "error"])
  /\ UNCHANGED <<wireVars, serveVars, lookups, found, sessionVars, handler, eof, quit, got, emitted, server>>

\* Wrong on purpose: the task keeps its worker until the handler is through.
KeepsWorker(s) == "submitting"

\* What becomes of the task once its Submit has returned.
AfterSubmit(s) == "done"

\* The nested Submit.  The task holds its own worker while it waits for
\* another one.  Once the pool is released it fails, and nobody looks.
SubmitHandler(s) ==
  /\ opener[s] = "submitting"
  /\ \/ /\ server # "closed"
        /\ WorkerFree
        /\ opener' = [opener EXCEPT ![s] = AfterSubmit(s)]
        /\ handler' = [handler EXCEPT ![s] = "running"]
     \/ /\ server = "closed"
        /\ opener' = [opener EXCEPT ![s] = "refused"]
        /\ UNCHANGED handler
  /\ UNCHANGED <<wireVars, serveVars, lookups, found, sessionVars, eof, quit, got, emitted, inbox, server>>

OpenerStep == \E s \in Streams : Unknown(s) \/ Register(s) \/ Build(s) \/ SubmitHandler(s)
-----------------------------------------------------------------------------
(* The tasks of data and end packets: handleStreamData and handleStreamEnd. *)

\* The lookup under mu; without a session the packet is dropped.
Lookup(p) ==
  /\ lookups' = lookups \ {p}
  /\ found' = IF p.s \in sessions THEN found \union {p} ELSE found
  /\ UNCHANGED <<wireVars, serveVars, opener, sessionVars, handlerVars, server>>

\* Wrong on purpose: the capacity is not looked at.
Unbounded(s) == ~closed[s]

\* The select of handleStreamData finds room.
Room(s) == ~closed[s] /\ Len(chan[s]) < RecvCap

\* Wrong on purpose: the task is run again.
NotSpent(p) == found

\* The task is over whatever became of its packet.
Spent(p) == found \ {p}

\* The use of recvChan after the unlock.  Data is dropped when the channel is
\* full; a send on a closed channel, or a second close, panics and serve's
\* closure recovers it.  Either way the packet is gone.
Use(p) ==
  /\ found' = Spent(p)
  /\ \/ /\ p.kind = "data" /\ Room(p.s)
        /\ chan' = [chan EXCEPT ![p.s] = Append(@, p.n)]
        /\ UNCHANGED closed
     \/ /\ p.kind = "data" /\ ~Room(p.s)
        /\ UNCHANGED <<chan, closed>>
     \/ /\ p.kind = "end"
        /\ closed' = [closed EXCEPT ![p.s] = TRUE]
        /\ UNCHANGED chan
  /\ UNCHANGED <<wireVars, serveVars, opener, lookups, sessions, handlerVars, server>>

PacketStep == (\E p \in lookups : Lookup(p)) \/ (\E p \in found : Use(p))
-----------------------------------------------------------------------------
(* The task of the user's method. *)

\* Wrong on purpose: Recv takes a closed channel for an empty one.
EndsEarly(s) == closed[s]

\* Wrong on purpose: Recv does not notice that the channel is closed.
NeverDrained(s) == FALSE

\* A closed channel still gives out what it holds.
Drained(s) == closed[s] /\ chan[s] = <<>>

\* The method runs and bidiStream.closed is not set.
InUse(s) == handler[s] = "running" /\ ~eof[s] /\ s \notin quit

\* bidiStream.Recv, but for its select taking ctx.Done, which is an error, and
\* for the io.EOF of a stream that is closed already.
HandlerRecv(s) ==
  /\ InUse(s)
  /\ \/ /\ chan[s] # <<>>
        /\ got' = [got EXCEPT ![s] = Append(@, Head(chan[s]))]
        /\ chan' = [chan EXCEPT ![s] = Tail(@)]
        /\ UNCHANGED eof
     \/ /\ Drained(s)
        /\ eof' = [eof EXCEPT ![s] = TRUE]
        /\ UNCHANGED <<got, chan>>
  /\ UNCHANGED <<wireVars, serveVars, taskVars, sessions, closed, handler, quit, emitted, inbox, server>>

\* bidiStream.Send: refused once closed is set.  The target is "".
HandlerSend(s) ==
  /\ s \in Senders /\ InUse(s)
  /\ server # "closed"
  /\ emitted' = emitted \union {s}
  /\ inbox' = inbox \union Routed("", [s |-> s, kind |-> "data"])
  /\ UNCHANGED <<wireVars, serveVars, taskVars, sessionVars, handler, eof, quit, got, server>>

\* bidiStream.Close, called by the method: the end is sent, to the target "",
\* and from now on Recv and Send give up at once.
HandlerClose(s) ==
  /\ InUse(s)
  /\ quit' = quit \union {s}
  /\ inbox' = inbox \union Routed("", [s |-> s, kind |-> "end"])
  /\ UNCHANGED <<wireVars, serveVars, taskVars, sessionVars, handler, eof, got, emitted, server>>

\* Wrong on purpose: the deferred delete forgotten.
KeepSession(s) == sessions

\* The deferred delete of the handler's task.
Forgotten(s) == sessions \ {s}

\* The method returns or panics: an error is reported to the client, then the
\* deferred function forgets the session and closes the stream (which sends
\* an end unless closed is set) and the contexts.
HandlerReturn(s) ==
  /\ handler[s] = "running"
  /\ handler' = [handler EXCEPT ![s] = "done"]
  /\ sessions' = Forgotten(s)
  /\ \E told \in {{}, Routed(From, [s |-> s, kind |-> "error"])} :
       inbox' = inbox \union told
                \union (IF InUse(s) THEN Routed("", [s |-> s, kind |-> "end"]) ELSE {})
  /\ UNCHANGED <<wireVars, serveVars, taskVars, chan, closed, eof, quit, got, emitted, server>>

\* Wrong on purpose: the handler's ctx is not derived from the server's.
DetachedCtx(s) == FALSE

\* bidiStream.ctx descends from Server.ctx.
Cancelled(s) == server # "open"

\* A method written like the README's Chat returns when Recv does not give it
\* a message: after io.EOF, or with the error of a cancelled ctx.
HandlerLeaves(s) == (eof[s] \/ s \in quit \/ Cancelled(s)) /\ HandlerReturn(s)
-----------------------------------------------------------------------------
(* Server.Close. *)

CloseServer ==
  /\ Shutdown
  /\ server = "open"
  /\ server' = "closing"
  /\ UNCHANGED <<wireVars, serveVars, taskVars, sessionVars, handlerVars>>

\* wg.Wait, Release and the end of the socket.
FinishCloseServer ==
  /\ server = "closing"
  /\ serve = "exited"
  /\ server' = "closed"
  /\ UNCHANGED <<wireVars, serveVars, taskVars, sessionVars, handlerVars>>
-----------------------------------------------------------------------------
Next ==
  \/ Serve \/ OpenerStep \/ PacketStep
  \/ \E s \in Streams : HandlerRecv(s) \/ HandlerSend(s) \/ HandlerClose(s) \/ HandlerReturn(s)
  \/ CloseServer \/ FinishCloseServer

Spec == Init /\ [][Next]_vars

\* Goroutines that can step do, a Submit that waits is served in turn (ants
\* wakes its waiters in order), and methods are written like the README's.
Fairness ==
  /\ WF_vars(Serve) /\ SF_vars(ServeSubmit) /\ WF_vars(PacketStep) /\ WF_vars(FinishCloseServer)
  /\ \A s \in Streams :
       /\ WF_vars(Unknown(s) \/ Register(s) \/ Build(s)) /\ SF_vars(SubmitHandler(s))
       /\ WF_vars(HandlerRecv(s)) /\ WF_vars(HandlerLeaves(s))

FairSpec == Spec /\ Fairness
-----------------------------------------------------------------------------
(* Safety. *)

\* Every variable keeps its type, and recvChan its capacity: handleStreamData
\* drops a packet rather than block a worker.
TypeOK ==
  /\ sent \in [Streams -> 0..MaxData]
  /\ phase \in [Streams -> {"new", "open", "ended"}]
  /\ serve \in {"loop", "recv", "submit", "exited"}
  /\ hand \subseteq Packet
  /\ opener \in [Streams -> {"none", "start", "registered", "submitting", "done", "refused"}]
  /\ lookups \subseteq Packet
  /\ found \subseteq Packet
  /\ sessions \subseteq Streams
  /\ chan \in [Streams -> Seq(0..MaxData)]
  /\ \A s \in Streams : Len(chan[s]) <= RecvCap
  /\ closed \in [Streams -> BOOLEAN]
  /\ handler \in [Streams -> {"none", "running", "done"}]
  /\ eof \in [Streams -> BOOLEAN] /\ quit \subseteq Streams
  /\ got \in [Streams -> Seq(0..MaxData)]
  /\ emitted \subseteq Streams
  /\ inbox \subseteq [s : Streams, kind : {"data", "end", "error"}]
  /\ server \in {"open", "closing", "closed"}

\* What the handler receives is what the client sent on this stream, each
\* packet at most once, though not necessarily in the order it was sent.
OnlyWhatWasSent ==
  \A s \in Streams :
    /\ IsInjective(got[s] \o chan[s])
    /\ ToSet(got[s] \o chan[s]) \subseteq 1..sent[s]

\* io.EOF is the last thing a handler receives, and it means that the client
\* has ended the stream: what was enqueued before the close is handed out
\* first, and nothing is enqueued after it.
EofIsLast ==
  \A s \in Streams : eof[s] => phase[s] = "ended" /\ closed[s] /\ chan[s] = <<>>

\* While a handler runs its session can be found, so that its data and its end
\* reach it; and a session outlives its handler only when the handler was
\* never started (the error paths of handleBidiStream that keep the entry).
SessionsMatchHandlers ==
  \A s \in Streams :
    /\ handler[s] = "running" => s \in sessions
    /\ s \in sessions => opener[s] # "none" /\ handler[s] # "done"

\* The pool has more workers than there are streams.
RoomyPool == PoolSize > Cardinality(Streams)

\* The workers that may wait for a packet only another worker can bring: those
\* of handlers, and those that hold a request whose nested Submit has not
\* returned.
Stalled == {s \in Streams : opener[s] = "submitting"}

\* In a roomy pool some worker is always left to packets: the tasks that can
\* wait, handlers in Recv and requests in their nested Submit, never take all
\* of them.  With no more workers than open streams they can,
\* and then neither data, nor ends, nor unary requests are served any more.
WorkerLeft == Cardinality(Stalled) + Cardinality(Handlers) < PoolSize
-----------------------------------------------------------------------------
(* Refinement: each stream keeps the contract of StreamContract. *)

endedBar == [s \in Streams |-> phase[s] = "ended"]
leftBar == [s \in Streams |-> s \in quit \/ handler[s] = "done"]
overBar == [s \in Streams |-> eof[s] \/ s \in quit \/ handler[s] = "done"]

Stream ==
  INSTANCE StreamContract WITH Ordered <- FALSE, ended <- endedBar, left <- leftBar, over <- overBar

\* A method receives the messages of its own stream, none twice, in whatever
\* order the pool ran their tasks; io.EOF comes only when the client has ended
\* the stream, and no message comes after it.
KeepsStream == Stream!StreamSpec
-----------------------------------------------------------------------------
(* Liveness. *)

\* serve is never held up for ever by the pool.
SubmitReturns == serve = "submit" ~> serve # "submit"

\* Once the end of a stream has closed its channel, the handler finds out and
\* its worker is given back.
EndStopsHandler ==
  \A s \in Streams : handler[s] = "running" /\ closed[s] ~> handler[s] = "done"

\* Server.Close returns although handlers are still in Recv, and its cancelled
\* ctx stops every one of them.
CloseStopsAll ==
  /\ server = "closing" ~> server = "closed"
  /\ \A s \in Streams : handler[s] = "running" /\ server # "open" ~> handler[s] = "done"

\* README.md, "原生支持双向流式通信" and its StreamData example: what a method
\* sends on its stream arrives at the client.
StreamSendsArrive ==
  \A s \in Streams : s \in emitted ~> [s |-> s, kind |-> "data"] \in inbox

\* README.md, the Chat example (if err == io.EOF, return nil): a method that
\* receives until io.EOF returns when its client has ended the stream.
EndReachesHandler ==
  \A s \in Streams : handler[s] = "running" /\ phase[s] = "ended" ~> handler[s] = "done"
=============================================================================
