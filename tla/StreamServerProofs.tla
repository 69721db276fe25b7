-------------------------- MODULE StreamServerProofs --------------------------
(***************************************************************************)
(* What holds of StreamServer for every number of streams, packets and     *)
(* workers and every capacity of recvChan: its types, when io.EOF comes,   *)
(* which sessions exist, and the worker that a roomy pool always has left. *)
(***************************************************************************)
EXTENDS StreamServer, FiniteSetTheorems, SequenceTheorems, TLAPS

ConstantFacts ==
  /\ IsFiniteSet(Streams)
  /\ MaxData \in Nat /\ RecvCap \in Nat \ {0} /\ PoolSize \in Nat \ {0}

LEMMA Constants == ConstantFacts
BY StreamsAssumption, BoundsAssumption DEF ConstantFacts

Notice == [s : Streams, kind : {"data", "end", "error"}]

\* Whatever the target, what is routed is what was given.
LEMMA RoutedType ==
  ASSUME NEW s \in Streams, NEW k \in {"data", "end", "error"}, NEW to
  PROVE  Routed(to, [s |-> s, kind |-> k]) \subseteq Notice
<1>1. [s |-> s, kind |-> k] \in Notice
  BY DEF Notice
<1> QED
  BY <1>1 DEF Routed

\* Every step keeps every variable within its type, and recvChan within its
\* capacity.
LEMMA TypeStep == TypeOK /\ [Next]_vars => TypeOK'
<1> SUFFICES ASSUME TypeOK, [Next]_vars PROVE TypeOK'
  OBVIOUS
<1> USE Constants DEF ConstantFacts
<1>1. CASE ServeCheckCancelled \/ ServePollTimeout
  BY <1>1 DEF ServeCheckCancelled, ServePollTimeout, LoopHead, TypeOK, wireVars, taskVars,
              sessionVars, handlerVars
<1>2. ASSUME NEW s \in Streams, RecvRequest(s) \/ RecvData(s) \/ RecvEnd(s) PROVE TypeOK'
  <2>1. \A k \in {"request", "data", "end"}, n \in 0..MaxData : [s |-> s, kind |-> k, n |-> n] \in Packet
    BY DEF Packet
  <2>2. sent[s] \in 0..MaxData /\ (sent[s] < MaxData => sent[s] + 1 \in 0..MaxData) /\ 0 \in 0..MaxData
    BY DEF TypeOK
  <2>3. hand' \subseteq Packet /\ serve' = "submit"
    BY <1>2, <2>1, <2>2 DEF RecvRequest, RecvData, RecvEnd, Received
  <2>4. sent' \in [Streams -> 0..MaxData] /\ phase' \in [Streams -> {"new", "open", "ended"}]
    BY <1>2, <2>2 DEF RecvRequest, RecvData, RecvEnd, TypeOK
  <2>5. UNCHANGED <<opener, lookups, found, sessions, chan, closed, handler, eof, quit, got, emitted, inbox, server>>
    BY <1>2 DEF RecvRequest, RecvData, RecvEnd, Received, taskVars, sessionVars, handlerVars
  <2> QED
    BY <2>3, <2>4, <2>5 DEF TypeOK
<1>3. CASE ServeSubmit
  <2>1. PICK p \in hand :
             \/ (opener' = [opener EXCEPT ![p.s] = "start"] /\ UNCHANGED lookups)
             \/ (lookups' = lookups \union {p} /\ UNCHANGED opener)
    BY <1>3 DEF ServeSubmit
  <2>2. p \in Packet /\ p.s \in Streams
    BY DEF TypeOK, Packet
  <2>3. /\ opener' \in [Streams -> {"none", "start", "registered", "submitting", "done", "refused"}]
        /\ lookups' \subseteq Packet /\ hand' \subseteq Packet
        /\ serve' \in {"loop", "recv", "submit", "exited"}
    BY <1>3, <2>1, <2>2 DEF ServeSubmit, TypeOK
  <2>4. UNCHANGED <<sent, phase, found, sessions, chan, closed, handler, eof, quit, got, emitted, inbox, server>>
    BY <1>3 DEF ServeSubmit, wireVars, sessionVars, handlerVars
  <2> QED
    BY <2>3, <2>4 DEF TypeOK
<1>4. ASSUME NEW s \in Streams, Unknown(s) \/ Register(s) \/ Build(s) \/ SubmitHandler(s)
      PROVE  TypeOK'
  <2>1. Routed(From, [s |-> s, kind |-> "error"]) \subseteq [s : Streams, kind : {"data", "end", "error"}]
    BY RoutedType DEF Notice
  <2>2. CASE Unknown(s)
    BY <2>1, <2>2 DEF Unknown, TypeOK, wireVars, serveVars, sessionVars
  <2>3. CASE Register(s)
    BY <2>3 DEF Register, TypeOK, wireVars, serveVars, handlerVars
  <2>4. CASE Build(s)
    BY <2>1, <2>4 DEF Build, TypeOK, wireVars, serveVars, sessionVars
  <2>5. CASE SubmitHandler(s)
    BY <2>5 DEF SubmitHandler, AfterSubmit, TypeOK, wireVars, serveVars, sessionVars
  <2> QED
    BY <1>4, <2>2, <2>3, <2>4, <2>5
<1>5. ASSUME NEW p \in lookups, Lookup(p) PROVE TypeOK'
  BY <1>5 DEF Lookup, TypeOK, wireVars, serveVars, sessionVars, handlerVars
<1>6. ASSUME NEW p \in found, Use(p) PROVE TypeOK'
  <2>1. p.s \in Streams /\ p.n \in 0..MaxData
    BY DEF TypeOK, Packet
  <2>2. CASE Room(p.s) /\ chan' = [chan EXCEPT ![p.s] = Append(@, p.n)] /\ UNCHANGED closed
    <3>1. chan[p.s] \in Seq(0..MaxData) /\ Len(chan[p.s]) < RecvCap
      BY <2>1, <2>2 DEF TypeOK, Room
    <3>2. /\ Append(chan[p.s], p.n) \in Seq(0..MaxData)
          /\ Len(Append(chan[p.s], p.n)) <= RecvCap
      BY <2>1, <3>1
    <3>3. /\ chan' \in [Streams -> Seq(0..MaxData)]
          /\ \A t \in Streams : Len(chan'[t]) <= RecvCap
      BY <2>1, <2>2, <3>2 DEF TypeOK
    <3>4. /\ UNCHANGED <<sent, phase, serve, hand, opener, lookups, sessions, closed>>
          /\ UNCHANGED <<handler, eof, quit, got, emitted, inbox, server>>
          /\ found' \subseteq found
      BY <1>6, <2>2 DEF Use, Spent, wireVars, serveVars, handlerVars
    <3> QED
      BY <3>3, <3>4 DEF TypeOK
  <2>3. CASE UNCHANGED <<chan, closed>>
    BY <1>6, <2>3 DEF Use, Spent, TypeOK, wireVars, serveVars, handlerVars
  <2>4. CASE closed' = [closed EXCEPT ![p.s] = TRUE] /\ UNCHANGED chan
    BY <1>6, <2>1, <2>4 DEF Use, Spent, TypeOK, wireVars, serveVars, handlerVars
  <2> QED
    BY <1>6, <2>2, <2>3, <2>4 DEF Use
<1>7. ASSUME NEW s \in Streams, HandlerRecv(s) PROVE TypeOK'
  <2>1. CASE /\ chan[s] # <<>>
             /\ got' = [got EXCEPT ![s] = Append(@, Head(chan[s]))]
             /\ chan' = [chan EXCEPT ![s] = Tail(@)]
             /\ UNCHANGED eof
    <3>1. chan[s] \in Seq(0..MaxData) /\ got[s] \in Seq(0..MaxData) /\ Len(chan[s]) <= RecvCap
      BY DEF TypeOK
    <3>2. /\ Head(chan[s]) \in 0..MaxData
          /\ Tail(chan[s]) \in Seq(0..MaxData) /\ Len(Tail(chan[s])) <= RecvCap
      <4> DEFINE q == chan[s]
      <4>1. q \in Seq(0..MaxData) /\ Len(q) <= RecvCap /\ q # <<>>
        BY <2>1, <3>1
      <4> HIDE DEF q
      <4>2. Head(q) \in 0..MaxData /\ Tail(q) \in Seq(0..MaxData) /\ Len(Tail(q)) = Len(q) - 1
        BY <4>1, HeadTailProperties
      <4>3. Len(q) \in Nat
        BY <4>1
      <4>4. Len(Tail(q)) <= RecvCap
        BY <4>1, <4>2, <4>3
      <4> QED
        BY <4>2, <4>4 DEF q
    <3>3. Append(got[s], Head(chan[s])) \in Seq(0..MaxData)
      BY <3>1, <3>2
    <3>4. /\ got' \in [Streams -> Seq(0..MaxData)] /\ chan' \in [Streams -> Seq(0..MaxData)]
          /\ \A t \in Streams : Len(chan'[t]) <= RecvCap
      BY <2>1, <3>2, <3>3 DEF TypeOK
    <3>5. /\ UNCHANGED <<sent, phase, serve, hand, opener, lookups, found, sessions, closed>>
          /\ UNCHANGED <<handler, eof, quit, emitted, inbox, server>>
      BY <1>7, <2>1 DEF HandlerRecv, wireVars, serveVars, taskVars
    <3> QED
      BY <3>4, <3>5 DEF TypeOK
  <2>2. CASE eof' = [eof EXCEPT ![s] = TRUE] /\ UNCHANGED <<got, chan>>
    BY <1>7, <2>2 DEF HandlerRecv, TypeOK, wireVars, serveVars, taskVars
  <2> QED
    BY <1>7, <2>1, <2>2 DEF HandlerRecv
<1>8. ASSUME NEW s \in Streams, HandlerSend(s) PROVE TypeOK'
  BY <1>8 DEF HandlerSend, Routed, TypeOK, wireVars, serveVars, taskVars, sessionVars
<1>9. ASSUME NEW s \in Streams, HandlerClose(s) PROVE TypeOK'
  <2>1. Routed("", [s |-> s, kind |-> "end"]) \subseteq [s : Streams, kind : {"data", "end", "error"}]
    BY RoutedType DEF Notice
  <2> QED
    BY <1>9, <2>1 DEF HandlerClose, TypeOK, wireVars, serveVars, taskVars, sessionVars
<1>10. ASSUME NEW s \in Streams, HandlerReturn(s) PROVE TypeOK'
  <2>1. inbox' \subseteq [s : Streams, kind : {"data", "end", "error"}]
    <3>1. PICK told \in {{}, Routed(From, [s |-> s, kind |-> "error"])} :
            inbox' = inbox \union told
                      \union (IF InUse(s) THEN Routed("", [s |-> s, kind |-> "end"]) ELSE {})
      BY <1>10 DEF HandlerReturn
    <3>2. told \subseteq Notice /\ Routed("", [s |-> s, kind |-> "end"]) \subseteq Notice
      BY RoutedType
    <3> QED
      BY <3>1, <3>2 DEF TypeOK, Notice
  <2> QED
    BY <1>10, <2>1 DEF HandlerReturn, Forgotten, TypeOK, wireVars, serveVars, taskVars
<1>11. CASE CloseServer \/ FinishCloseServer
  BY <1>11 DEF CloseServer, FinishCloseServer, TypeOK, wireVars, serveVars, taskVars, sessionVars,
               handlerVars
<1>12. CASE UNCHANGED vars
  BY <1>12 DEF TypeOK, vars, wireVars, serveVars, taskVars, sessionVars, handlerVars
<1> QED
  BY <1>1, <1>2, <1>3, <1>4, <1>5, <1>6, <1>7, <1>8, <1>9, <1>10, <1>11, <1>12
     DEF Next, Serve, OpenerStep, PacketStep

\* The program starts in a state of these types.
LEMMA TypeInit == Init => TypeOK
<1> SUFFICES ASSUME Init PROVE TypeOK
  OBVIOUS
<1>1. <<>> \in Seq(0..MaxData) /\ Len(<<>>) = 0 /\ 0 \in 0..MaxData /\ 0 <= RecvCap
  BY Constants DEF ConstantFacts
<1> QED
  BY <1>1 DEF Init, TypeOK

\* The types of the stream side hold in every execution, and with them the
\* bound of recvChan, whatever the workers' interleaving.
THEOREM TypeCorrect == Spec => []TypeOK
BY TypeInit, TypeStep, PTL DEF Spec
-----------------------------------------------------------------------------
\* The data and end packets whose tasks are not over.
InProgress == lookups \union found

\* A request is submitted once, before anything else of its stream.
RequestsFirst ==
  /\ \A p \in hand : p.kind = "request" => opener[p.s] = "none" /\ phase[p.s] # "new"
  /\ \A s \in Streams : phase[s] = "new" => opener[s] = "none"

\* The request's task hands its session over to the handler, which deletes it.
Handover ==
  \A s \in Streams :
    /\ handler[s] # "none" => opener[s] = "done"
    /\ opener[s] \in {"registered", "submitting"} \/ handler[s] = "running" => s \in sessions
    /\ s \in sessions => opener[s] \notin {"none", "start"} /\ handler[s] # "done"

\* A channel is closed by an end packet, and io.EOF seen after the close.
EndsInOrder ==
  /\ \A p \in hand \union InProgress : p.kind = "end" => phase[p.s] = "ended"
  /\ \A s \in Streams :
       /\ closed[s] => phase[s] = "ended"
       /\ eof[s] => closed[s] /\ chan[s] = <<>>

\* The inductive invariant behind the theorems that follow.
SInv == TypeOK /\ RequestsFirst /\ Handover /\ EndsInOrder

\* Requests stay first: a stream's request is read while the stream is new.
LEMMA RequestsStep == SInv /\ [Next]_vars => RequestsFirst'
<1> SUFFICES ASSUME SInv, [Next]_vars PROVE RequestsFirst'
  OBVIOUS
<1> USE DEF SInv, RequestsFirst
<1>1. ASSUME NEW s \in Streams, RecvRequest(s) \/ RecvData(s) \/ RecvEnd(s) PROVE RequestsFirst'
  BY <1>1 DEF RecvRequest, RecvData, RecvEnd, Received, taskVars, TypeOK
<1>2. CASE ServeSubmit
  BY <1>2 DEF ServeSubmit, wireVars, TypeOK
<1>3. ASSUME NEW s \in Streams, Unknown(s) \/ Register(s) \/ Build(s) \/ SubmitHandler(s)
      PROVE  RequestsFirst'
  <2>1. UNCHANGED <<hand, phase>> /\ opener[s] # "none"
    BY <1>3 DEF Unknown, Register, Build, SubmitHandler, wireVars, serveVars
  <2>2. \A t \in Streams : t # s => opener'[t] = opener[t]
    BY <1>3 DEF Unknown, Register, Build, SubmitHandler, TypeOK
  <2>3. \A p \in hand : p.s \in Streams
    BY DEF TypeOK, Packet
  <2> QED
    BY <2>1, <2>2, <2>3
<1>4. CASE UNCHANGED <<hand, opener, phase>>
  BY <1>4
<1> QED
  BY <1>1, <1>2, <1>3, <1>4 DEF Next, Serve, OpenerStep, PacketStep, ServeCheckCancelled,
     ServePollTimeout, Lookup, Use, HandlerRecv, HandlerSend, HandlerClose, HandlerReturn,
     CloseServer, FinishCloseServer, vars, wireVars, serveVars, taskVars

\* The session stays with the request's task or its handler, whichever runs.
LEMMA HandoverStep == SInv /\ [Next]_vars => Handover'
<1> SUFFICES ASSUME SInv, [Next]_vars PROVE Handover'
  OBVIOUS
<1> USE DEF SInv, Handover
<1>1. CASE ServeSubmit
  BY <1>1 DEF ServeSubmit, RequestsFirst, sessionVars, handlerVars, TypeOK
<1>2. ASSUME NEW s \in Streams, Unknown(s) PROVE Handover'
  BY <1>2 DEF Unknown, sessionVars, TypeOK
<1>3. ASSUME NEW s \in Streams, Register(s) PROVE Handover'
  BY <1>3 DEF Register, handlerVars, TypeOK
<1>4. ASSUME NEW s \in Streams, Build(s) PROVE Handover'
  BY <1>4 DEF Build, sessionVars, TypeOK
<1>5. ASSUME NEW s \in Streams, SubmitHandler(s) PROVE Handover'
  BY <1>5 DEF SubmitHandler, AfterSubmit, sessionVars, TypeOK
<1>6. ASSUME NEW s \in Streams, HandlerReturn(s) PROVE Handover'
  BY <1>6 DEF HandlerReturn, Forgotten, taskVars, TypeOK
<1>7. CASE UNCHANGED <<opener, sessions, handler>>
  BY <1>7
<1> QED
  BY <1>1, <1>2, <1>3, <1>4, <1>5, <1>6, <1>7 DEF Next, Serve, OpenerStep, PacketStep,
     ServeCheckCancelled, ServePollTimeout, RecvRequest, RecvData, RecvEnd, Received, Lookup, Use,
     HandlerRecv, HandlerSend, HandlerClose, CloseServer, FinishCloseServer, vars, taskVars, sessionVars,
     handlerVars

\* Nothing is enqueued after a close, and only an end packet closes.
LEMMA EndsStep == SInv /\ [Next]_vars => EndsInOrder'
<1> SUFFICES ASSUME SInv, [Next]_vars PROVE EndsInOrder'
  OBVIOUS
<1> USE DEF SInv, EndsInOrder, InProgress
<1>1. ASSUME NEW s \in Streams, RecvRequest(s) \/ RecvData(s) \/ RecvEnd(s) PROVE EndsInOrder'
  <2>1. UNCHANGED <<lookups, found, closed, eof, chan>>
    BY <1>1 DEF RecvRequest, RecvData, RecvEnd, Received, taskVars, sessionVars, handlerVars
  <2>2. \A t \in Streams : phase[t] = "ended" => phase'[t] = "ended"
    BY <1>1 DEF RecvRequest, RecvData, RecvEnd, TypeOK
  <2>3. \A p \in hand' : p.kind = "end" => phase'[p.s] = "ended"
    BY <1>1 DEF RecvRequest, RecvData, RecvEnd, Received, TypeOK
  <2>4. \A p \in InProgress : p.s \in Streams
    BY DEF TypeOK, Packet
  <2> QED
    BY <2>1, <2>2, <2>3, <2>4
<1>2. CASE ServeSubmit
  BY <1>2 DEF ServeSubmit, wireVars, sessionVars, handlerVars, TypeOK
<1>3. ASSUME NEW p \in lookups, Lookup(p) PROVE EndsInOrder'
  BY <1>3 DEF Lookup, wireVars, serveVars, sessionVars, handlerVars, TypeOK
<1>4. ASSUME NEW p \in found, Use(p) PROVE EndsInOrder'
  <2>1. UNCHANGED <<phase, hand, lookups, eof>> /\ found' \subseteq found
    BY <1>4 DEF Use, Spent, wireVars, serveVars, handlerVars
  <2>2. p.s \in Streams
    BY DEF TypeOK, Packet
  <2>3. CASE p.kind = "data" /\ Room(p.s) /\ UNCHANGED closed
               /\ chan' = [chan EXCEPT ![p.s] = Append(@, p.n)]
    <3>1. ~closed[p.s] /\ \A t \in Streams : t # p.s => chan'[t] = chan[t]
      BY <2>3 DEF Room, TypeOK
    <3> QED
      BY <2>1, <2>3, <3>1
  <2>4. CASE UNCHANGED <<chan, closed>>
    BY <2>1, <2>4
  <2>5. CASE p.kind = "end" /\ closed' = [closed EXCEPT ![p.s] = TRUE] /\ UNCHANGED chan
    <3>1. \A t \in Streams : t # p.s => closed'[t] = closed[t]
      BY <2>5 DEF TypeOK
    <3>2. phase[p.s] = "ended" /\ \A t \in Streams : closed[t] => closed'[t]
      BY <2>2, <2>5 DEF TypeOK
    <3> QED
      BY <2>1, <2>2, <2>5, <3>1, <3>2
  <2> QED
    BY <1>4, <2>3, <2>4, <2>5 DEF Use
<1>5. ASSUME NEW s \in Streams, HandlerRecv(s) PROVE EndsInOrder'
  <2>1. UNCHANGED <<phase, hand, lookups, found, closed>>
    BY <1>5 DEF HandlerRecv, wireVars, serveVars, taskVars
  <2>2. \A t \in Streams : t # s => chan'[t] = chan[t] /\ eof'[t] = eof[t]
    BY <1>5 DEF HandlerRecv, TypeOK
  <2>3. ~eof[s] /\ (eof'[s] => closed[s] /\ chan'[s] = <<>>)
    BY <1>5 DEF HandlerRecv, InUse, Drained, TypeOK
  <2> QED
    BY <2>1, <2>2, <2>3
<1>6. CASE UNCHANGED <<phase, hand, lookups, found, closed, eof, chan>>
  BY <1>6
<1> QED
  BY <1>1, <1>2, <1>3, <1>4, <1>5, <1>6 DEF Next, Serve, OpenerStep, PacketStep,
     ServeCheckCancelled, ServePollTimeout, Unknown, Register, Build, SubmitHandler, HandlerSend,
     HandlerClose, HandlerReturn, CloseServer, FinishCloseServer, vars, wireVars, serveVars, taskVars,
     sessionVars, handlerVars
\* SInv holds in every execution.
THEOREM StreamInvariant == Spec => []SInv
<1>1. Init => SInv
  BY TypeInit DEF Init, SInv, RequestsFirst, Handover, EndsInOrder, InProgress
<1>2. SInv /\ [Next]_vars => SInv'
  BY TypeStep, RequestsStep, HandoverStep, EndsStep DEF SInv
<1> QED
  BY <1>1, <1>2, PTL DEF Spec

\* A handler sees io.EOF only after its client's end, and nothing after it.
THEOREM EofComesLast == Spec => []EofIsLast
<1>1. SInv => EofIsLast
  BY DEF SInv, EndsInOrder, EofIsLast
<1> QED
  BY <1>1, StreamInvariant, PTL

\* Server.streams holds the session of every running handler and none of a
\* handler that is through.
THEOREM SessionsMatch == Spec => []SessionsMatchHandlers
<1>1. SInv => SessionsMatchHandlers
  BY DEF SInv, Handover, SessionsMatchHandlers
<1> QED
  BY <1>1, StreamInvariant, PTL

\* No stream holds two workers that wait, so that a pool with more workers
\* than there are streams never has all of them waiting.
LEMMA StreamsLeaveAWorker == RoomyPool /\ SInv => WorkerLeft
<1> SUFFICES ASSUME RoomyPool, SInv PROVE WorkerLeft
  OBVIOUS
<1>1. Stalled \subseteq Streams /\ Handlers \subseteq Streams /\ Stalled \union Handlers \subseteq Streams
  BY DEF Stalled, Handlers
<1>2. Stalled \intersect Handlers = {}
  BY DEF Stalled, Handlers, SInv, Handover
<1>3. IsFiniteSet(Streams)
  BY Constants DEF ConstantFacts
<1>4. IsFiniteSet(Stalled) /\ IsFiniteSet(Handlers)
  BY <1>1, <1>3, FS_Subset
<1>5. Cardinality(Stalled \union Handlers) <= Cardinality(Streams)
  BY <1>1, <1>3, FS_Subset
<1>6. Cardinality(Stalled \union Handlers)
        = Cardinality(Stalled) + Cardinality(Handlers) - Cardinality(Stalled \intersect Handlers)
  BY <1>4, FS_Union
<1>7. Cardinality(Stalled \intersect Handlers) = 0
  BY <1>2, FS_EmptySet
<1>8. /\ Cardinality(Stalled) \in Nat /\ Cardinality(Handlers) \in Nat
      /\ Cardinality(Streams) \in Nat /\ PoolSize \in Nat
  BY <1>3, <1>4, FS_CardinalityType, Constants DEF ConstantFacts
<1> QED
  BY <1>5, <1>6, <1>7, <1>8 DEF WorkerLeft, RoomyPool

\* In a roomy pool a packet always finds a worker that does not wait.
THEOREM PoolNeverWedged == RoomyPool => (Spec => []WorkerLeft)
<1>1. RoomyPool => (SInv => WorkerLeft)
  BY StreamsLeaveAWorker
<1>2. CASE RoomyPool
  <2>1. SInv => WorkerLeft
    BY <1>1, <1>2
  <2> QED
    BY <2>1, StreamInvariant, PTL
<1>3. CASE ~RoomyPool
  BY <1>3
<1> QED
  BY <1>2, <1>3

\* When every worker is busy, one of them at least has a task that cannot wait:
\* a packet's, or a request's before its nested Submit.
FullPoolMoves ==
  ~WorkerFree => \/ lookups \union found # {}
                 \/ \E s \in Streams : opener[s] \in {"start", "registered"}

\* A Submit that finds a roomy pool full never waits for handlers alone: there
\* is no state in which serve, the requests and the handlers all wait for each
\* other.
THEOREM SubmitHasHope == RoomyPool => (Spec => []FullPoolMoves)
<1>1. ASSUME RoomyPool, SInv PROVE FullPoolMoves
  <2> SUFFICES ASSUME lookups = {}, found = {},
                      \A s \in Streams : opener[s] \notin {"start", "registered"}
               PROVE  WorkerFree
    BY DEF FullPoolMoves
  <2>1. Openers = Stalled
    BY DEF Openers, Stalled
  <2>2. Cardinality(lookups) = 0 /\ Cardinality(found) = 0
    BY FS_EmptySet
  <2>3. Cardinality(Stalled) \in Nat /\ Cardinality(Handlers) \in Nat
    <3>1. IsFiniteSet(Streams) /\ Stalled \subseteq Streams /\ Handlers \subseteq Streams
      BY Constants DEF ConstantFacts, Stalled, Handlers
    <3> QED
      BY <3>1, FS_Subset, FS_CardinalityType
  <2>4. Cardinality(Stalled) + Cardinality(Handlers) < PoolSize
    BY <1>1, StreamsLeaveAWorker DEF WorkerLeft
  <2> QED
    BY <2>1, <2>2, <2>3, <2>4 DEF WorkerFree, Busy
<1>2. CASE RoomyPool
  <2>1. SInv => FullPoolMoves
    BY <1>1, <1>2
  <2> QED
    BY <2>1, StreamInvariant, PTL
<1>3. CASE ~RoomyPool
  BY <1>3
<1> QED
  BY <1>2, <1>3
-----------------------------------------------------------------------------
\* A number that is new to a sequence can be appended without repetition.
LEMMA AppendNew ==
  ASSUME NEW S, NEW q \in Seq(S), NEW x \in S, IsInjective(q), x \notin ToSet(q)
  PROVE  IsInjective(Append(q, x)) /\ ToSet(Append(q, x)) = ToSet(q) \union {x}
<1> DEFINE r == Append(q, x)
<1>1. /\ r \in Seq(S) /\ Len(r) = Len(q) + 1 /\ Len(q) \in Nat
      /\ r[Len(q) + 1] = x /\ \A i \in 1..Len(q) : r[i] = q[i]
  OBVIOUS
<1>2. DOMAIN q = 1..Len(q) /\ DOMAIN r = 1..(Len(q) + 1)
  BY <1>1
<1>3. \A i \in DOMAIN r : i \in DOMAIN q \/ i = Len(q) + 1
  BY <1>1, <1>2
<1>4. \A i \in DOMAIN q : q[i] # x
  BY DEF ToSet
<1>5. ToSet(r) = ToSet(q) \union {x}
  BY <1>1, <1>2, <1>3 DEF ToSet
<1>6. IsInjective(r)
  BY <1>1, <1>2, <1>3, <1>4 DEF IsInjective
<1> QED
  BY <1>5, <1>6

\* Appending to the second of two sequences appends to the two together.
LEMMA ConcatAppend ==
  ASSUME NEW S, NEW g \in Seq(S), NEW c \in Seq(S), NEW x \in S
  PROVE  g \o Append(c, x) = Append(g \o c, x)
OBVIOUS

\* Moving the head of the second to the end of the first changes nothing.
LEMMA ConcatMove ==
  ASSUME NEW S, NEW g \in Seq(S), NEW c \in Seq(S), c # <<>>
  PROVE  Append(g, Head(c)) \o Tail(c) = g \o c
OBVIOUS
\* What the handler has received or will receive from its channel.
Given(s) == got[s] \o chan[s]

\* A data packet is in one place, and its number has not been given out.
DataOnce ==
  /\ \A p \in hand : p.kind = "data" => p \notin InProgress
  /\ \A p \in lookups : p.kind = "data" => p \notin found
  /\ \A p \in hand \union InProgress :
       p.kind = "data" => p.n \in 1..sent[p.s] /\ p.n \notin ToSet(Given(p.s))

\* The inductive invariant behind OnlyWhatWasSent.
DInv == TypeOK /\ DataOnce /\ OnlyWhatWasSent

\* Packets are read with fresh numbers and pass from place to place.
LEMMA DataMoves ==
  ASSUME DInv, UNCHANGED <<got, chan>>,
         \/ \E s \in Streams : RecvRequest(s) \/ RecvData(s) \/ RecvEnd(s)
         \/ ServeSubmit
         \/ \E p \in lookups : Lookup(p)
         \/ \E p \in found : found' = found \ {p} /\ UNCHANGED <<hand, lookups, sent>>
         \/ UNCHANGED <<hand, lookups, found, sent>>
  PROVE  DataOnce' /\ OnlyWhatWasSent'
<1> USE DEF DInv, DataOnce, OnlyWhatWasSent, Given, InProgress
<1>1. \A p \in hand \union InProgress : p \in Packet /\ p.s \in Streams
  BY DEF TypeOK, Packet
<1>2. sent \in [Streams -> Nat]
  BY Constants DEF TypeOK, ConstantFacts
<1>3. ASSUME NEW s \in Streams, RecvRequest(s) \/ RecvEnd(s)
      PROVE  DataOnce' /\ OnlyWhatWasSent'
  BY <1>1, <1>3 DEF RecvRequest, RecvEnd, Received, taskVars
<1>4. ASSUME NEW s \in Streams, RecvData(s)
      PROVE  DataOnce' /\ OnlyWhatWasSent'
  <2> DEFINE d == [s |-> s, kind |-> "data", n |-> sent[s] + 1]
  <2>1. hand' = {d} /\ UNCHANGED <<lookups, found>> /\ sent' = [sent EXCEPT ![s] = sent[s] + 1]
    BY <1>4 DEF RecvData, Received, taskVars
  <2>2. \A t \in Streams : 1..sent[t] \subseteq 1..sent'[t]
    BY <1>2, <2>1
  <2>3. sent'[s] = sent[s] + 1 /\ sent[s] \in Nat
    BY <1>2, <2>1
  <2>4. d.s = s /\ d.kind = "data" /\ d.n = sent[s] + 1
    OBVIOUS
  <2>5. d \notin InProgress
    BY <1>1, <2>3, <2>4
  <2>6. d.n \in 1..sent'[s] /\ d.n \notin ToSet(Given(s))
    BY <2>3, <2>4
  <2> HIDE DEF d
  <2> QED
    BY <1>1, <2>1, <2>2, <2>4, <2>5, <2>6
<1>5. CASE ServeSubmit
  BY <1>1, <1>5 DEF ServeSubmit, wireVars
<1>6. ASSUME NEW p \in lookups, Lookup(p) PROVE DataOnce' /\ OnlyWhatWasSent'
  BY <1>1, <1>6 DEF Lookup, wireVars, serveVars
<1>7. ASSUME NEW p \in found, found' = found \ {p}, UNCHANGED <<hand, lookups, sent>>
      PROVE  DataOnce' /\ OnlyWhatWasSent'
  BY <1>7
<1>8. CASE UNCHANGED <<hand, lookups, found, sent>>
  BY <1>8
<1> QED
  BY <1>3, <1>4, <1>5, <1>6, <1>7, <1>8

\* A number passes from a packet to the channel, once.
LEMMA DataGiven ==
  ASSUME DInv, NEW p \in found, Use(p), p.kind = "data", Room(p.s)
  PROVE  DataOnce' /\ OnlyWhatWasSent'
<1>1. /\ p \in Packet /\ p.s \in Streams /\ p.n \in 0..MaxData
      /\ \A q \in hand \union InProgress : q \in Packet /\ q.s \in Streams
  BY DEF DInv, TypeOK, Packet, InProgress
<1>2. /\ UNCHANGED <<sent, hand, lookups, got>> /\ found' = found \ {p}
      /\ chan' = [chan EXCEPT ![p.s] = Append(@, p.n)]
  BY DEF Use, Spent, wireVars, serveVars, handlerVars
<1>3. /\ got[p.s] \in Seq(0..MaxData) /\ chan[p.s] \in Seq(0..MaxData)
      /\ Given(p.s) \in Seq(0..MaxData)
  BY <1>1 DEF DInv, TypeOK, Given
<1>4. /\ Given(p.s)' = Append(Given(p.s), p.n)
      /\ \A t \in Streams : t # p.s => Given(t)' = Given(t)
  <2>1. /\ chan'[p.s] = Append(chan[p.s], p.n)
        /\ \A t \in Streams : t # p.s => chan'[t] = chan[t]
    BY <1>1, <1>2 DEF DInv, TypeOK
  <2>2. got[p.s] \o Append(chan[p.s], p.n) = Append(got[p.s] \o chan[p.s], p.n)
    <3>1. \A g, c \in Seq(0..MaxData) : \A x \in 0..MaxData :
            g \o Append(c, x) = Append(g \o c, x)
      BY ConcatAppend
    <3> QED
      BY <1>1, <1>3, <3>1
  <2> QED
    BY <1>2, <2>1, <2>2 DEF Given
<1>5. /\ IsInjective(Given(p.s)) /\ ToSet(Given(p.s)) \subseteq 1..sent[p.s]
      /\ p.n \in 1..sent[p.s] /\ p.n \notin ToSet(Given(p.s))
  BY <1>1 DEF DInv, DataOnce, OnlyWhatWasSent, Given, InProgress
<1>6. /\ IsInjective(Append(Given(p.s), p.n))
      /\ ToSet(Append(Given(p.s), p.n)) = ToSet(Given(p.s)) \union {p.n}
  <2> DEFINE q == Given(p.s)
             x == p.n
             S == 0..MaxData
  <2>1. q \in Seq(S) /\ x \in S /\ IsInjective(q) /\ x \notin ToSet(q)
    BY <1>1, <1>3, <1>5
  <2> HIDE DEF q, x, S
  <2>2. IsInjective(Append(q, x)) /\ ToSet(Append(q, x)) = ToSet(q) \union {x}
    BY ONLY <2>1, AppendNew
  <2> QED
    BY <2>2 DEF q, x
<1>7. OnlyWhatWasSent'
  BY <1>2, <1>4, <1>5, <1>6 DEF DInv, OnlyWhatWasSent, Given
<1>8. \A q \in hand \union InProgress' : q.kind = "data" => q \in hand \union InProgress /\ q # p
  BY <1>2 DEF DInv, DataOnce, InProgress
<1>9. \A q \in hand \union InProgress' : q.kind = "data" /\ q.s = p.s => q.n # p.n
  BY <1>1, <1>8 DEF Packet
<1>10. DataOnce'
  BY <1>1, <1>2, <1>4, <1>6, <1>8, <1>9 DEF DInv, DataOnce, InProgress
<1> QED
  BY <1>7, <1>10

\* Recv moves a number from the channel to the handler.
LEMMA DataReceived ==
  ASSUME DInv, NEW s \in Streams, HandlerRecv(s)
  PROVE  DataOnce' /\ OnlyWhatWasSent'
<1>1. UNCHANGED <<sent, hand, lookups, found>>
  BY DEF HandlerRecv, wireVars, serveVars, taskVars
<1>2. \A t \in Streams : Given(t)' = Given(t)
  <2>1. CASE UNCHANGED <<got, chan>>
    BY <2>1 DEF Given
  <2>2. CASE /\ chan[s] # <<>>
             /\ got' = [got EXCEPT ![s] = Append(@, Head(chan[s]))]
             /\ chan' = [chan EXCEPT ![s] = Tail(@)]
    <3>1. got[s] \in Seq(0..MaxData) /\ chan[s] \in Seq(0..MaxData)
      BY DEF DInv, TypeOK
    <3>2. got'[s] \o chan'[s] = got[s] \o chan[s]
      <4>1. got'[s] = Append(got[s], Head(chan[s])) /\ chan'[s] = Tail(chan[s])
        BY <2>2 DEF DInv, TypeOK
      <4> QED
        BY <2>2, <3>1, <4>1, ConcatMove
    <3>3. \A t \in Streams : t # s => got'[t] = got[t] /\ chan'[t] = chan[t]
      BY <2>2 DEF DInv, TypeOK
    <3> QED
      BY <3>2, <3>3 DEF Given
  <2> QED
    BY <2>1, <2>2 DEF HandlerRecv
<1>3. \A p \in hand \union InProgress : p.s \in Streams
  BY DEF DInv, TypeOK, Packet, InProgress
<1> QED
  BY <1>1, <1>2, <1>3 DEF DInv, DataOnce, OnlyWhatWasSent, Given, InProgress

\* Numbers pass from the wire to the handler, each once, in every execution.
LEMMA DataInvariant == Spec => []DInv
<1>1. Init => DInv
  <2> SUFFICES ASSUME Init PROVE DInv
    OBVIOUS
  <2>1. <<>> \o <<>> = <<>> /\ IsInjective(<<>>) /\ ToSet(<<>>) = {}
    BY DEF IsInjective, ToSet
  <2> QED
    BY <2>1, TypeInit DEF Init, DInv, DataOnce, OnlyWhatWasSent, InProgress
<1>2. DInv /\ [Next]_vars => DInv'
  <2> SUFFICES ASSUME DInv, [Next]_vars PROVE DInv'
    OBVIOUS
  <2>1. TypeOK'
    BY TypeStep DEF DInv
  <2>2. ASSUME NEW p \in found, Use(p) PROVE DataOnce' /\ OnlyWhatWasSent'
    <3>1. CASE p.kind = "data" /\ Room(p.s)
      BY <2>2, <3>1, DataGiven
    <3>2. CASE UNCHANGED chan
      <4>1. /\ UNCHANGED <<got, chan>> /\ found' = found \ {p}
            /\ UNCHANGED <<hand, lookups, sent>>
        BY <2>2, <3>2 DEF Use, Spent, wireVars, serveVars, handlerVars
      <4> QED
        BY <4>1, DataMoves
    <3> QED
      BY <2>2, <3>1, <3>2 DEF Use
  <2>3. ASSUME NEW s \in Streams, RecvRequest(s) \/ RecvData(s) \/ RecvEnd(s)
        PROVE  DataOnce' /\ OnlyWhatWasSent'
    <3>1. UNCHANGED <<got, chan>>
      BY <2>3 DEF RecvRequest, RecvData, RecvEnd, Received, sessionVars, handlerVars
    <3> QED
      BY <2>3, <3>1, DataMoves
  <2>4. ASSUME ServeSubmit PROVE DataOnce' /\ OnlyWhatWasSent'
    <3>1. UNCHANGED <<got, chan>>
      BY <2>4 DEF ServeSubmit, sessionVars, handlerVars
    <3> QED
      BY <2>4, <3>1, DataMoves
  <2>5. ASSUME NEW p \in lookups, Lookup(p) PROVE DataOnce' /\ OnlyWhatWasSent'
    <3>1. UNCHANGED <<got, chan>>
      BY <2>5 DEF Lookup, sessionVars, handlerVars
    <3> QED
      BY <2>5, <3>1, DataMoves
  <2>6. ASSUME UNCHANGED <<got, chan, hand, lookups, found, sent>>
        PROVE  DataOnce' /\ OnlyWhatWasSent'
    BY <2>6, DataMoves
  <2>7. DataOnce' /\ OnlyWhatWasSent'
    BY <2>2, <2>3, <2>4, <2>5, <2>6, DataReceived DEF Next, Serve, OpenerStep, PacketStep,
       ServeCheckCancelled, ServePollTimeout, Unknown, Register, Build, SubmitHandler,
       HandlerSend, HandlerClose, HandlerReturn, CloseServer, FinishCloseServer, vars, wireVars,
       serveVars, taskVars, sessionVars, handlerVars
  <2> QED
    BY <2>1, <2>7 DEF DInv
<1> QED
  BY <1>1, <1>2, PTL DEF Spec

\* What a method receives is what its client sent on this stream, no packet
\* twice, however the packets' tasks overtake each other.
THEOREM OnlySentReceived == Spec => []OnlyWhatWasSent
<1>1. DInv => OnlyWhatWasSent
  BY DEF DInv
<1> QED
  BY <1>1, DataInvariant, PTL
-----------------------------------------------------------------------------
\* The steps by what they mean to the contract of the streams.
LEMMA ContractCases ==
  ASSUME [Next]_vars
  PROVE  \/ \E s \in Streams : RecvRequest(s) \/ RecvData(s) \/ RecvEnd(s)
         \/ \E s \in Streams : SubmitHandler(s) \/ HandlerRecv(s) \/ HandlerClose(s) \/ HandlerReturn(s)
         \/ UNCHANGED <<sent, phase, handler, got, eof, quit>>
BY DEF Next, Serve, OpenerStep, PacketStep, ServeCheckCancelled, ServePollTimeout, ServeSubmit,
       Unknown, Register, Build, Lookup, Use, HandlerSend, CloseServer, FinishCloseServer, vars,
       wireVars, handlerVars

\* What Recv hands out has come in and has not been handed out before.
LEMMA HeadIsFresh ==
  ASSUME NEW S, NEW g \in Seq(S), NEW c \in Seq(S), c # <<>>, IsInjective(g \o c)
  PROVE  Head(c) \in ToSet(g \o c) /\ Head(c) \notin ToSet(g)
<1>1. /\ Len(g) \in Nat /\ Len(c) \in Nat \ {0} /\ Head(c) = c[1]
      /\ DOMAIN g = 1..Len(g) /\ DOMAIN (g \o c) = 1..(Len(g) + Len(c))
      /\ \A i \in 1..Len(g) : (g \o c)[i] = g[i]
      /\ (g \o c)[Len(g) + 1] = c[1]
  OBVIOUS
<1>2. Len(g) + 1 \in DOMAIN (g \o c) /\ \A i \in DOMAIN g : i \in DOMAIN (g \o c) /\ i # Len(g) + 1
  BY <1>1
<1> DEFINE q == g \o c
<1>3. IsInjective(q) /\ q[Len(g) + 1] = Head(c)
  BY <1>1
<1> HIDE DEF q
<1>4. \A i \in DOMAIN g : q[i] # q[Len(g) + 1]
  BY <1>2, <1>3 DEF IsInjective, q
<1> QED
  BY <1>1, <1>2, <1>4 DEF ToSet, q

\* Every step is a step of the contract of one stream, or of none.
LEMMA StreamStep ==
  ASSUME SInv, DInv, [Next]_vars PROVE [Stream!StreamNext]_(Stream!streamVars)
<1> USE DEF Stream!streamVars, endedBar, leftBar, overBar
<1>0. TypeOK
  BY DEF SInv
<1>1. ASSUME NEW s \in Streams, RecvRequest(s) \/ RecvData(s) \/ RecvEnd(s)
      PROVE  [Stream!StreamNext]_(Stream!streamVars)
  <2>1. UNCHANGED <<handler, got, eof, quit>> /\ UNCHANGED <<leftBar, overBar>>
    BY <1>1 DEF RecvRequest, RecvData, RecvEnd, Received, handlerVars
  <2>2. CASE RecvRequest(s)
    <3>1. UNCHANGED sent /\ \A t \in Streams : phase'[t] = "ended" <=> phase[t] = "ended"
      BY <1>0, <2>2 DEF RecvRequest, TypeOK
    <3> QED
      BY <2>1, <3>1
  <2>3. CASE RecvData(s)
    <3>1. Stream!Arrive(s)
      BY <2>1, <2>3 DEF RecvData, Stream!Arrive
    <3> QED
      BY <3>1 DEF Stream!StreamNext
  <2>4. CASE RecvEnd(s)
    <3>1. endedBar' = [endedBar EXCEPT ![s] = TRUE]
      BY <1>0, <2>4 DEF RecvEnd, TypeOK
    <3>2. Stream!End(s)
      BY <2>1, <2>4, <3>1 DEF RecvEnd, Stream!End
    <3> QED
      BY <3>2 DEF Stream!StreamNext
  <2> QED
    BY <1>1, <2>2, <2>3, <2>4
<1>2. ASSUME NEW s \in Streams, HandlerRecv(s) PROVE [Stream!StreamNext]_(Stream!streamVars)
  <2>1. /\ UNCHANGED <<sent, phase, handler, quit>> /\ UNCHANGED <<endedBar, leftBar>>
        /\ handler[s] = "running" /\ ~eof[s] /\ ~overBar[s]
    BY <1>2 DEF HandlerRecv, InUse, wireVars
  <2>2. CASE /\ chan[s] # <<>> /\ UNCHANGED eof
             /\ got' = [got EXCEPT ![s] = Append(@, Head(chan[s]))]
    <3>1. got[s] \in Seq(0..MaxData) /\ chan[s] \in Seq(0..MaxData) /\ IsInjective(got[s] \o chan[s])
      BY <1>0 DEF TypeOK, DInv, OnlyWhatWasSent
    <3>2. Head(chan[s]) \in ToSet(got[s] \o chan[s]) /\ Head(chan[s]) \notin ToSet(got[s])
      BY <2>2, <3>1, HeadIsFresh
    <3>3. PICK n \in 1..sent[s] : n = Head(chan[s]) /\ n \notin ToSet(got[s])
      BY <3>2 DEF DInv, OnlyWhatWasSent
    <3>4. Stream!Take(s, n)
      BY <2>1, <2>2, <3>3 DEF Stream!Take, ToSet
    <3> QED
      BY <3>4 DEF Stream!StreamNext
  <2>3. CASE Drained(s) /\ UNCHANGED got /\ eof' = [eof EXCEPT ![s] = TRUE]
    <3>1. overBar' = [overBar EXCEPT ![s] = TRUE]
      BY <1>0, <2>1, <2>3 DEF TypeOK
    <3>2. endedBar[s]
      BY <2>3 DEF SInv, EndsInOrder, Drained
    <3>3. Stream!Finish(s)
      BY <2>1, <2>3, <3>1, <3>2 DEF Stream!Finish
    <3> QED
      BY <3>3 DEF Stream!StreamNext
  <2> QED
    BY <1>2, <2>2, <2>3 DEF HandlerRecv
<1>3. ASSUME NEW s \in Streams, HandlerReturn(s) PROVE [Stream!StreamNext]_(Stream!streamVars)
  <2>1. UNCHANGED <<sent, phase, got, eof, quit>> /\ handler' = [handler EXCEPT ![s] = "done"]
    BY <1>3 DEF HandlerReturn, wireVars
  <2>2. /\ leftBar' = [leftBar EXCEPT ![s] = TRUE]
        /\ overBar' = [overBar EXCEPT ![s] = TRUE]
    BY <1>0, <2>1 DEF TypeOK
  <2>3. Stream!Leave(s)
    BY <2>1, <2>2 DEF Stream!Leave
  <2> QED
    BY <2>3 DEF Stream!StreamNext
<1>4. ASSUME NEW s \in Streams, SubmitHandler(s) PROVE [Stream!StreamNext]_(Stream!streamVars)
  <2>1. /\ UNCHANGED <<sent, phase, got, eof, quit>>
        /\ \A t \in Streams : handler'[t] = "done" <=> handler[t] = "done"
    BY <1>0, <1>4 DEF SubmitHandler, wireVars, TypeOK, SInv, Handover
  <2> QED
    BY <2>1
<1>5. ASSUME NEW s \in Streams, HandlerClose(s) PROVE [Stream!StreamNext]_(Stream!streamVars)
  <2>1. UNCHANGED <<sent, phase, got, eof, handler>> /\ quit' = quit \union {s}
    BY <1>5 DEF HandlerClose, wireVars
  <2>2. /\ leftBar' = [leftBar EXCEPT ![s] = TRUE]
        /\ overBar' = [overBar EXCEPT ![s] = TRUE]
    BY <1>0, <2>1 DEF TypeOK
  <2>3. Stream!Leave(s)
    BY <2>1, <2>2 DEF Stream!Leave
  <2> QED
    BY <2>3 DEF Stream!StreamNext
<1>6. CASE UNCHANGED <<sent, phase, handler, got, eof, quit>>
  BY <1>6
<1> QED
  BY <1>1, <1>2, <1>3, <1>4, <1>5, <1>6, ContractCases

\* Every stream of a server keeps the contract: its method receives its own
\* messages, each once, and io.EOF last and only when it is due.
THEOREM StreamKept == Spec => KeepsStream
<1>1. Init => Stream!StreamInit
  BY DEF Init, Stream!StreamInit, endedBar, leftBar, overBar
<1>2. SInv /\ DInv /\ [Next]_vars => [Stream!StreamNext]_(Stream!streamVars)
  BY StreamStep
<1> QED
  BY <1>1, <1>2, StreamInvariant, DataInvariant, PTL DEF Spec, KeepsStream, Stream!StreamSpec
=============================================================================
