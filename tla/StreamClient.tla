----------------------------- MODULE StreamClient -----------------------------
(***************************************************************************)
(* One bidirectional stream on the client side of go-zrpc: the proxy that  *)
(* opens it (createBidiStreamProxyFunc), the bidiStream the program holds, *)
(* and the receive goroutine that feeds it.                                *)
(*                                                                         *)
(* The program may use the stream from several goroutines: some that send, *)
(* one that receives, some that close.  They share closed (an atomic), seq *)
(* (guarded by mu in Send and by nothing in Close) and the transport.      *)
(*                                                                         *)
(* The peer answers the request with data in order and at most one end,    *)
(* which data may follow: its stream is a bidiStream too, and a Send that  *)
(* has passed its test of closed when Close comes sends behind the end     *)
(* (FewBehindEnd, below, is about this).  Such a packet meets a closed     *)
(* recvChan in a goroutine that nothing recovers: the process ends.  Any   *)
(* packet may be lost, as long as the peer is a server whose sends name no *)
(* target (see StreamServer).                                              *)
(***************************************************************************)
EXTENDS Naturals, Sequences, FiniteSets, SequencesExt

CONSTANTS Senders,  \* goroutines that call Send
          Closers,  \* goroutines that call Close
          MaxSend,  \* bound: calls of Send by each of them
          MaxPeer,  \* bound: data packets of the peer
          RecvCap   \* the capacity of recvChan, 10 in the code

ASSUME GoroutinesAssumption == IsFiniteSet(Senders) /\ IsFiniteSet(Closers)
ASSUME BoundsAssumption == MaxSend \in Nat /\ MaxPeer \in Nat /\ RecvCap \in Nat \ {0}

VARIABLES
  opening,  \* how far the proxy function has come
  session,  \* whether Client.streams has the stream
  closed,   \* bidiStream.closed
  seq,      \* bidiStream.seq
  mu,       \* the sender that holds bidiStream.mu
  sender,   \* where each sender stands
  calls,    \* how often it has called Send
  closer,   \* where each closer stands
  seqRead,  \* the value of seq a closer is incrementing
  ctxDone,  \* whether bidiStream.ctx is done
  wire,     \* history: the packets handed to the transport, in order
  peer,     \* how many data packets of the peer have been received
  ended,    \* whether its end has been received
  behind,   \* history: how many of the data packets came after it
  receiver, \* where the receive goroutine stands
  hand,     \* the packet whose session it has looked up
  chan,     \* the contents of recvChan
  shut,     \* whether recvChan is closed
  reader,   \* where the receiving goroutine of the program stands
  got       \* history: the data Recv has returned

openVars == <<opening, session>>
sendVars == <<seq, mu, sender, calls>>
closeVars == <<closer, seqRead, ctxDone>>
netVars == <<peer, ended, behind, receiver, hand, shut>>
vars == <<openVars, closed, sendVars, closeVars, wire, netVars, chan, reader, got>>

Init ==
  /\ opening = "new"
  /\ session = FALSE
  /\ closed = FALSE
  /\ seq = 0
  /\ mu = {}
  /\ sender = [t \in Senders |-> "idle"]
  /\ calls = [t \in Senders |-> 0]
  /\ closer = [k \in Closers |-> "idle"]
  /\ seqRead = [k \in Closers |-> 0]
  /\ ctxDone = FALSE
  /\ wire = <<>>
  /\ peer = 0
  /\ ended = FALSE
  /\ behind = 0
  /\ receiver = "loop"
  /\ hand = {}
  /\ chan = <<>>
  /\ shut = FALSE
  /\ reader = "idle"
  /\ got = <<>>
-----------------------------------------------------------------------------
(* The proxy function.                                                       *)
(* Definitions marked "Wrong on purpose" are not part of the model: each is  *)
(* the mistake that the definition after it is shown to be free of.          *)

\* The session is stored in Client.streams, under mu.  Nothing ever deletes it.
Register ==
  /\ ~session
  /\ session' = TRUE
  /\ UNCHANGED <<opening, closed, sendVars, closeVars, wire, netVars, chan, reader, got>>

\* Wrong on purpose: the request is sent before the session is stored, as
\* createStreamReqRepProxyFunc does with its future.
AnyOrder == TRUE

\* What must be there when the request is sent.
ReadyToAsk == session

\* The proxy function sends the request and returns the stream, or an error
\* when the argument does not marshal or the transport refuses.
Request ==
  /\ opening = "new"
  /\ ReadyToAsk
  /\ opening' \in {"asked", "failed"}
  /\ UNCHANGED <<session, closed, sendVars, closeVars, wire, netVars, chan, reader, got>>

\* The program has the stream.
InUse == opening = "asked" /\ session
-----------------------------------------------------------------------------
(* bidiStream.Send. *)

\* Wrong on purpose: closed is not looked at.
NotChecked == TRUE

\* The test of closed.
MaySend == ~closed

\* Send up to the lock: refused when the stream is closed, or when the message
\* does not marshal.
SendCheck(t) ==
  /\ InUse
  /\ sender[t] = "idle" /\ calls[t] < MaxSend
  /\ calls' = [calls EXCEPT ![t] = @ + 1]
  /\ \/ /\ MaySend
        /\ sender' = [sender EXCEPT ![t] = "checked"]
     \/ UNCHANGED sender
  /\ UNCHANGED <<openVars, closed, seq, mu, closeVars, wire, netVars, chan, reader, got>>

\* Wrong on purpose: Send does not lock.
NoLock == TRUE

\* mu can be taken.
Unlocked == mu = {}

\* The lock and seq++.  Against Close, which does not lock, this is one step:
\* an increment that is lost shows in seq only through Close's own write.
SendLock(t) ==
  /\ sender[t] = "checked"
  /\ Unlocked
  /\ mu' = {t}
  /\ seq' = seq + 1
  /\ sender' = [sender EXCEPT ![t] = "locked"]
  /\ UNCHANGED <<openVars, closed, calls, closeVars, wire, netVars, chan, reader, got>>

\* The packet takes seq and goes to the transport, which may refuse it; the
\* deferred unlock.
SendPut(t) ==
  /\ sender[t] = "locked"
  /\ mu' = {}
  /\ sender' = [sender EXCEPT ![t] = "idle"]
  /\ wire' \in {wire, Append(wire, [kind |-> "data", seq |-> seq])}
  /\ UNCHANGED <<openVars, closed, seq, calls, closeVars, netVars, chan, reader, got>>

SendStep(t) == SendLock(t) \/ SendPut(t)
-----------------------------------------------------------------------------
(* bidiStream.Close. *)

\* Wrong on purpose: what the swap found is not looked at.
AlwaysWins == TRUE

\* What CompareAndSwap returns.
Wins == ~closed

\* CompareAndSwap: the first Close wins, and none does after io.EOF.
CloseSwap(k) ==
  /\ InUse
  /\ closer[k] = "idle"
  /\ closed' = TRUE
  /\ closer' = [closer EXCEPT ![k] = IF Wins THEN "won" ELSE "refused"]
  /\ UNCHANGED <<openVars, sendVars, seqRead, ctxDone, wire, netVars, chan, reader, got>>

\* The read of seq++, without mu.
CloseRead(k) ==
  /\ closer[k] = "won"
  /\ seqRead' = [seqRead EXCEPT ![k] = seq]
  /\ closer' = [closer EXCEPT ![k] = "read"]
  /\ UNCHANGED <<openVars, closed, sendVars, ctxDone, wire, netVars, chan, reader, got>>

\* The write of seq++.
CloseWrite(k) ==
  /\ closer[k] = "read"
  /\ seq' = seqRead[k] + 1
  /\ closer' = [closer EXCEPT ![k] = "counted"]
  /\ UNCHANGED <<openVars, closed, mu, sender, calls, seqRead, ctxDone, wire, netVars, chan, reader, got>>

\* The second read, for the packet of the end.
CloseNumber(k) ==
  /\ closer[k] = "counted"
  /\ seqRead' = [seqRead EXCEPT ![k] = seq]
  /\ closer' = [closer EXCEPT ![k] = "numbered"]
  /\ UNCHANGED <<openVars, closed, sendVars, ctxDone, wire, netVars, chan, reader, got>>

\* The end goes to the transport, which may refuse it.
CloseSend(k) ==
  /\ closer[k] = "numbered"
  /\ wire' \in {wire, Append(wire, [kind |-> "end", seq |-> seqRead[k]])}
  /\ closer' = [closer EXCEPT ![k] = "sent"]
  /\ UNCHANGED <<openVars, closed, sendVars, seqRead, ctxDone, netVars, chan, reader, got>>

\* Wrong on purpose: Close does not cancel.
KeepsCtx == ctxDone

\* s.cancel.
Cancelled == TRUE

\* Wrong on purpose: Close also closes recvChan.
ClosesChan == TRUE

\* recvChan is left to the receive goroutine.
LeavesChan == shut

CloseCancel(k) ==
  /\ closer[k] = "sent"
  /\ ctxDone' = Cancelled
  /\ shut' = LeavesChan
  /\ closer' = [closer EXCEPT ![k] = "through"]
  /\ UNCHANGED <<openVars, closed, sendVars, seqRead, wire, peer, ended, behind, receiver, hand, chan, reader, got>>

CloseStep(k) ==
  CloseRead(k) \/ CloseWrite(k) \/ CloseNumber(k) \/ CloseSend(k) \/ CloseCancel(k)

\* The ctx the program opened the stream with expires.
Expire ==
  /\ ~ctxDone
  /\ ctxDone' = TRUE
  /\ UNCHANGED <<openVars, closed, sendVars, closer, seqRead, wire, netVars, chan, reader, got>>
-----------------------------------------------------------------------------
(* The receive goroutine: handleStreamData and handleStreamEnd. *)

\* A packet of the peer is received and its session looked up; without one it
\* is dropped.
Lookup(p) ==
  /\ opening = "asked"
  /\ receiver = "loop"
  /\ IF session
     THEN receiver' = "found" /\ hand' = {p}
     ELSE UNCHANGED <<receiver, hand>>
  /\ UNCHANGED <<openVars, closed, sendVars, closeVars, wire, shut, chan, reader, got>>

\* Data of the peer, before or behind its end.
ReceiveData ==
  /\ peer < MaxPeer
  /\ peer' = peer + 1
  /\ behind' = IF ended THEN behind + 1 ELSE behind
  /\ UNCHANGED ended
  /\ Lookup([kind |-> "data", n |-> peer + 1])

\* The one end of the peer's stream (OneEnd, below).
ReceiveEnd ==
  /\ ~ended
  /\ ended' = TRUE
  /\ UNCHANGED <<peer, behind>>
  /\ Lookup([kind |-> "end", n |-> 0])

\* Wrong on purpose: the packet overtakes those that wait.
Overtaking(n) == <<n>> \o chan

\* recvChan after a send.
Enqueued(n) == Append(chan, n)

\* Wrong on purpose: whatever comes is put into recvChan.
Unbounded == TRUE

\* The capacity recvChan has left, which the select with its default looks at.
Room == Len(chan) < RecvCap

\* The use of recvChan after the unlock.  Data that finds it full is dropped.
\* A send or a close on a closed channel panics.
Deliver(p) ==
  /\ receiver = "found"
  /\ hand' = {}
  /\ receiver' = IF shut THEN "crashed" ELSE "loop"
  /\ \/ /\ p.kind = "data" /\ ~shut /\ Room
        /\ chan' = Enqueued(p.n)
        /\ UNCHANGED shut
     \/ /\ p.kind = "data" /\ (shut \/ ~Room)
        /\ UNCHANGED <<chan, shut>>
     \/ /\ p.kind = "end"
        /\ shut' = TRUE
        /\ UNCHANGED chan
  /\ UNCHANGED <<openVars, closed, sendVars, closeVars, wire, peer, ended, behind, reader, got>>

Receive == ReceiveData \/ ReceiveEnd \/ (\E p \in hand : Deliver(p))
-----------------------------------------------------------------------------
(* bidiStream.Recv. *)

\* Recv up to its select; a closed stream gives io.EOF at once.
RecvCall ==
  /\ InUse
  /\ reader = "idle"
  /\ ~closed
  /\ reader' = "waiting"
  /\ UNCHANGED <<openVars, closed, sendVars, closeVars, wire, netVars, chan, got>>

\* The select: ctx, a packet, or the closed and empty channel.
RecvReturn ==
  /\ reader = "waiting"
  /\ reader' = "idle"
  /\ \/ /\ ctxDone
        /\ UNCHANGED <<closed, chan, got>>
     \/ /\ chan # <<>>
        /\ got' = Append(got, Head(chan))
        /\ chan' = Tail(chan)
        /\ UNCHANGED closed
     \/ /\ chan = <<>> /\ shut
        /\ closed' = TRUE
        /\ UNCHANGED <<chan, got>>
  /\ UNCHANGED <<openVars, sendVars, closeVars, wire, netVars>>
-----------------------------------------------------------------------------
\* Nothing recovers a panic of the receive goroutine: it ends the process.
Running == receiver # "crashed"

Next ==
  /\ Running
  /\ \/ Register \/ Request
     \/ \E t \in Senders : SendCheck(t) \/ SendStep(t)
     \/ \E k \in Closers : CloseSwap(k) \/ CloseStep(k)
     \/ Receive \/ RecvCall \/ RecvReturn \/ Expire

Spec == Init /\ [][Next]_vars

\* Goroutines that can step do, while the process runs.  Nothing is assumed of
\* the peer, nor that the program calls Send, Close or Recv.
Fairness ==
  /\ WF_vars(Running /\ \E p \in hand : Deliver(p)) /\ WF_vars(Running /\ RecvReturn)
  /\ WF_vars(Running /\ Register) /\ WF_vars(Running /\ Request)
  /\ \A t \in Senders : SF_vars(Running /\ SendLock(t)) /\ WF_vars(Running /\ SendPut(t))
  /\ \A k \in Closers : WF_vars(Running /\ CloseStep(k))

FairSpec == Spec /\ Fairness
-----------------------------------------------------------------------------
(* Safety. *)

\* The types of the stream's state, and the capacity of recvChan, which
\* handleStreamData never exceeds.
TypeOK ==
  /\ opening \in {"new", "asked", "failed"}
  /\ session \in BOOLEAN /\ closed \in BOOLEAN
  /\ seq \in Nat
  /\ mu \subseteq Senders
  /\ sender \in [Senders -> {"idle", "checked", "locked"}]
  /\ calls \in [Senders -> 0..MaxSend]
  /\ closer \in [Closers -> {"idle", "won", "refused", "read", "counted", "numbered",
                          "sent", "through"}]
  /\ seqRead \in [Closers -> Nat]
  /\ ctxDone \in BOOLEAN
  /\ wire \in Seq([kind : {"data", "end"}, seq : Nat])
  /\ peer \in 0..MaxPeer /\ ended \in BOOLEAN /\ behind \in 0..peer
  /\ receiver \in {"loop", "found", "crashed"}
  /\ hand \subseteq [kind : {"data", "end"}, n : 0..MaxPeer]
  /\ chan \in Seq(0..MaxPeer) /\ Len(chan) <= RecvCap
  /\ shut \in BOOLEAN
  /\ reader \in {"idle", "waiting"}
  /\ got \in Seq(0..MaxPeer)

Increasing(s) == \A i, j \in DOMAIN s : i < j => s[i] < s[j]

\* The receive goroutine, which nothing recovers, panics on recvChan just when
\* data of the peer comes behind the peer's end: only that end closes recvChan,
\* whatever the program does with its stream meanwhile, and there is no test in
\* the way of the packet that comes too late (handleStreamData,
\* handleStreamEnd, bidiStream.Close).
LateDataCrashes == receiver = "crashed" <=> behind > 0 /\ hand = {}

\* Recv returns the peer's data in the order it was sent, none twice; what is
\* missing was dropped by a full channel.
InOrder == Increasing(got \o chan) /\ ToSet(got \o chan) \subseteq 1..peer

\* How many of the peer's messages have come in time, before its end.
InTime == peer - behind

\* Nothing the peer sends before its end is missed, because the session is
\* stored before the request goes out: the end closes recvChan, and as long as
\* the messages before it fit into recvChan every one of them is there for
\* Recv, whether or not the program is in Recv at all.
NothingMissed ==
  /\ ended => shut \/ hand # {}
  /\ InTime <= RecvCap /\ hand = {} => got \o chan = [i \in 1..InTime |-> i]

\* However many goroutines call Close, one end at most is sent.
OneEnd == Cardinality({i \in DOMAIN wire : wire[i].kind = "end"}) <= 1

\* Until a Close has written seq, concurrent Sends give their packets
\* increasing numbers in the order they reach the transport.  (After it they
\* may not: Close increments without mu, and may undo increments of Send.)
Undisturbed == \A k \in Closers : closer[k] \in {"idle", "refused", "won", "read"}
NumbersIncrease ==
  Undisturbed => \A i, j \in DOMAIN wire : i < j => wire[i].seq < wire[j].seq

\* Each sender may put one packet behind the end, a Send that had passed its
\* test of closed when Close came, and no more.
FewBehindEnd ==
  \A i \in DOMAIN wire :
    wire[i].kind = "end" => Len(wire) - i <= Cardinality(Senders)
-----------------------------------------------------------------------------
(* Refinement: the program's end of the stream keeps StreamContract, in order. *)

\* Some Close has won: the program has left the stream.
Left == \E k \in Closers : closer[k] \notin {"idle", "refused"}

\* The one stream of this module.
TheStream == {"stream"}

sentBar == [s \in TheStream |-> peer]
endedBar == [s \in TheStream |-> ended]
leftBar == [s \in TheStream |-> Left]
gotBar == [s \in TheStream |-> got]
overBar == [s \in TheStream |-> closed /\ reader = "idle"]

Stream ==
  INSTANCE StreamContract WITH Streams <- TheStream, Ordered <- TRUE, sent <- sentBar,
                               ended <- endedBar, left <- leftBar, got <- gotBar, over <- overBar

\* Recv returns the peer's messages in the order they were sent, none twice;
\* it is over when the peer has ended the stream or the program has closed it,
\* and not while a Recv that was waiting then may still return a message.
KeepsStream == Stream!StreamSpec
-----------------------------------------------------------------------------
(* Liveness. *)

\* A Recv that waits returns when a Close wins, which cancels the ctx, and when
\* the peer's end has come, which closes recvChan, unless late data of the peer
\* ends the process first.
RecvReturns ==
  /\ (\E k \in Closers : closer[k] = "won") ~> reader = "idle" \/ ~Running
  /\ ended /\ reader = "waiting" ~> reader = "idle" \/ ~Running
=============================================================================
