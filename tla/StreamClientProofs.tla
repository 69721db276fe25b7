-------------------------- MODULE StreamClientProofs --------------------------
(***************************************************************************)
(* What holds of StreamClient for any number of goroutines, packets and    *)
(* any capacity of recvChan.                                               *)
(***************************************************************************)
EXTENDS StreamClient, FiniteSetTheorems, SequenceTheorems, TLAPS

ConstantFacts ==
  /\ IsFiniteSet(Senders) /\ IsFiniteSet(Closers)
  /\ MaxSend \in Nat /\ MaxPeer \in Nat /\ RecvCap \in Nat \ {0}

\* The assumptions, in one fact.
LEMMA Constants == ConstantFacts
BY GoroutinesAssumption, BoundsAssumption DEF ConstantFacts

\* The steps by their names.
LEMMA StepCases ==
  ASSUME [Next]_vars
  PROVE  \/ Register \/ Request \/ Receive \/ RecvCall \/ RecvReturn \/ Expire
         \/ \E t \in Senders : SendCheck(t) \/ SendLock(t) \/ SendPut(t)
         \/ \E k \in Closers :
              \/ CloseSwap(k) \/ CloseRead(k) \/ CloseWrite(k) \/ CloseNumber(k)
              \/ CloseSend(k) \/ CloseCancel(k)
         \/ UNCHANGED vars
BY DEF Next, SendStep, CloseStep

OutPacket == [kind : {"data", "end"}, seq : Nat]

\* The wire only grows by packets.
LEMMA WireType ==
  ASSUME TypeOK, NEW k \in {"data", "end"}, NEW n \in Nat
  PROVE  Append(wire, [kind |-> k, seq |-> n]) \in Seq(OutPacket)
<1>1. [kind |-> k, seq |-> n] \in OutPacket
  BY DEF OutPacket
<1>2. wire \in Seq(OutPacket)
  BY DEF TypeOK, OutPacket
<1> QED
  BY <1>1, <1>2

\* A channel that gives out its head.
LEMMA ChanTail ==
  ASSUME NEW S, NEW q \in Seq(S), q # <<>>
  PROVE  Head(q) \in S /\ Tail(q) \in Seq(S) /\ Len(Tail(q)) < Len(q)
<1>1. Head(q) \in S /\ Tail(q) \in Seq(S) /\ Len(Tail(q)) = Len(q) - 1
  BY HeadTailProperties
<1>2. Len(q) \in Nat
  OBVIOUS
<1> QED
  BY <1>1, <1>2

\* Every step keeps every variable within its type, and recvChan within its
\* capacity.
LEMMA TypeStep == TypeOK /\ [Next]_vars => TypeOK'
<1> SUFFICES ASSUME TypeOK, [Next]_vars PROVE TypeOK'
  OBVIOUS
<1> USE Constants DEF ConstantFacts
<1>1. CASE Register \/ Request
  BY <1>1 DEF Register, Request, TypeOK, openVars, sendVars, closeVars, netVars
<1>2. ASSUME NEW t \in Senders, SendCheck(t) PROVE TypeOK'
  <2>1. calls' \in [Senders -> 0..MaxSend]
    BY <1>2 DEF SendCheck, TypeOK
  <2>2. sender' \in [Senders -> {"idle", "checked", "locked"}]
    BY <1>2 DEF SendCheck, TypeOK
  <2> QED
    BY <1>2, <2>1, <2>2 DEF SendCheck, TypeOK, openVars, closeVars, netVars
<1>3. ASSUME NEW t \in Senders, SendLock(t) PROVE TypeOK'
  BY <1>3 DEF SendLock, TypeOK, openVars, closeVars, netVars
<1>4. ASSUME NEW t \in Senders, SendPut(t) PROVE TypeOK'
  <2>1. wire' \in Seq([kind : {"data", "end"}, seq : Nat])
    BY <1>4, WireType DEF SendPut, TypeOK, OutPacket
  <2> QED
    BY <1>4, <2>1 DEF SendPut, TypeOK, openVars, closeVars, netVars
<1>5. ASSUME NEW k \in Closers, CloseSwap(k) \/ CloseRead(k) \/ CloseWrite(k) \/ CloseNumber(k)
      PROVE  TypeOK'
  <2>1. CASE CloseSwap(k)
    BY <2>1 DEF CloseSwap, TypeOK, openVars, sendVars, netVars
  <2>2. CASE CloseRead(k)
    BY <2>2 DEF CloseRead, TypeOK, openVars, sendVars, netVars
  <2>3. CASE CloseWrite(k)
    BY <2>3 DEF CloseWrite, TypeOK, openVars, netVars
  <2>4. CASE CloseNumber(k)
    BY <2>4 DEF CloseNumber, TypeOK, openVars, sendVars, netVars
  <2> QED
    BY <1>5, <2>1, <2>2, <2>3, <2>4
<1>6. ASSUME NEW k \in Closers, CloseSend(k) PROVE TypeOK'
  <2>1. wire' \in Seq([kind : {"data", "end"}, seq : Nat])
    BY <1>6, WireType DEF CloseSend, TypeOK, OutPacket
  <2> QED
    BY <1>6, <2>1 DEF CloseSend, TypeOK, openVars, sendVars, netVars
<1>7. ASSUME NEW k \in Closers, CloseCancel(k) PROVE TypeOK'
  BY <1>7 DEF CloseCancel, Cancelled, LeavesChan, TypeOK, openVars, sendVars
<1>8. CASE Expire
  BY <1>8 DEF Expire, TypeOK, openVars, sendVars, netVars
<1>9. CASE ReceiveData
  <2>1. peer + 1 \in 0..MaxPeer /\ behind' \in 0..(peer + 1)
    BY <1>9 DEF ReceiveData, TypeOK
  <2>2. [kind |-> "data", n |-> peer + 1] \in [kind : {"data", "end"}, n : 0..MaxPeer]
    BY <2>1
  <2> DEFINE p == [kind |-> "data", n |-> peer + 1]
  <2> HIDE DEF p
  <2>3. Lookup(p)
    BY <1>9 DEF ReceiveData, p
  <2>4. hand' \subseteq [kind : {"data", "end"}, n : 0..MaxPeer] /\ receiver' \in {"loop", "found", "crashed"}
    BY <2>2, <2>3 DEF Lookup, TypeOK, p
  <2> QED
    BY <1>9, <2>1, <2>3, <2>4 DEF ReceiveData, Lookup, TypeOK, openVars, sendVars, closeVars
<1>14. CASE ReceiveEnd
  <2>1. [kind |-> "end", n |-> 0] \in [kind : {"data", "end"}, n : 0..MaxPeer]
    OBVIOUS
  <2> DEFINE p == [kind |-> "end", n |-> 0]
  <2> HIDE DEF p
  <2>2. Lookup(p)
    BY <1>14 DEF ReceiveEnd, p
  <2>3. hand' \subseteq [kind : {"data", "end"}, n : 0..MaxPeer] /\ receiver' \in {"loop", "found", "crashed"}
    BY <2>1, <2>2 DEF Lookup, TypeOK, p
  <2> QED
    BY <1>14, <2>2, <2>3 DEF ReceiveEnd, Lookup, TypeOK, openVars, sendVars, closeVars
<1>10. ASSUME NEW p \in hand, Deliver(p) PROVE TypeOK'
  <2>1. CASE ~shut /\ Len(chan) < RecvCap /\ chan' = Enqueued(p.n) /\ UNCHANGED shut
    <3>1. p.n \in 0..MaxPeer /\ chan \in Seq(0..MaxPeer)
      BY DEF TypeOK
    <3>2. chan' \in Seq(0..MaxPeer) /\ Len(chan') <= RecvCap
      BY <2>1, <3>1 DEF Enqueued, Room
    <3> QED
      BY <1>10, <2>1, <3>2 DEF Deliver, TypeOK, openVars, sendVars, closeVars
  <2>2. CASE UNCHANGED chan /\ shut' \in BOOLEAN
    BY <1>10, <2>2 DEF Deliver, TypeOK, openVars, sendVars, closeVars
  <2> QED
    BY <1>10, <2>1, <2>2 DEF Deliver, Room, TypeOK
<1>11. CASE RecvCall
  BY <1>11 DEF RecvCall, TypeOK, openVars, sendVars, closeVars, netVars
<1>12. CASE RecvReturn
  <2>1. CASE chan # <<>> /\ got' = Append(got, Head(chan)) /\ chan' = Tail(chan)
    <3>1. chan \in Seq(0..MaxPeer) /\ got \in Seq(0..MaxPeer) /\ Len(chan) <= RecvCap
      BY DEF TypeOK
    <3>2. Head(chan) \in 0..MaxPeer /\ Tail(chan) \in Seq(0..MaxPeer) /\ Len(Tail(chan)) < Len(chan)
      BY <2>1, <3>1, ChanTail
    <3>3. chan' \in Seq(0..MaxPeer) /\ Len(chan') <= RecvCap /\ got' \in Seq(0..MaxPeer)
      BY <2>1, <3>1, <3>2
    <3> QED
      BY <1>12, <3>3 DEF RecvReturn, TypeOK, openVars, sendVars, closeVars, netVars
  <2>2. CASE UNCHANGED <<chan, got>>
    BY <1>12, <2>2 DEF RecvReturn, TypeOK, openVars, sendVars, closeVars, netVars
  <2> QED
    BY <1>12, <2>1, <2>2 DEF RecvReturn
<1>13. CASE UNCHANGED vars
  BY <1>13 DEF TypeOK, vars, openVars, sendVars, closeVars, netVars
<1> QED
  BY <1>1, <1>2, <1>3, <1>4, <1>5, <1>6, <1>7, <1>8, <1>9, <1>14, <1>10, <1>11, <1>12, <1>13, StepCases
     DEF Receive

\* A stream that is being opened has these types.
LEMMA TypeInit == Init => TypeOK
<1> SUFFICES ASSUME Init PROVE TypeOK
  OBVIOUS
<1>1. <<>> \in Seq(0..MaxPeer) /\ Len(<<>>) = 0 /\ 0 \in 0..MaxPeer /\ 0 <= RecvCap
  BY Constants DEF ConstantFacts
<1>2. <<>> \in Seq([kind : {"data", "end"}, seq : Nat])
  OBVIOUS
<1>3. 0 \in 0..MaxSend
  BY Constants DEF ConstantFacts
<1>4. behind \in 0..peer
  BY DEF Init
<1> QED
  BY <1>1, <1>2, <1>3, <1>4 DEF Init, TypeOK

\* The types of the stream's client side, and the bound of recvChan.
THEOREM TypeCorrect == Spec => []TypeOK
BY TypeInit, TypeStep, PTL DEF Spec
-----------------------------------------------------------------------------
\* The peer's end closes recvChan, and only it; data in hand is late just if
\* recvChan is closed, and ends the process once it is used.
Receiving ==
  /\ opening = "asked" => session
  /\ receiver # "found" => hand = {}
  /\ \A p, q \in hand : p = q
  /\ receiver = "crashed" <=> behind > 0 /\ hand = {}
  /\ shut => ended
  /\ ended => shut \/ \E p \in hand : p.kind = "end"
  /\ \A p \in hand :
       IF p.kind = "end" THEN ended /\ ~shut /\ behind = 0 ELSE behind > 0 <=> shut

\* A packet is looked up where its session is, and the hand is empty before
\* the next one comes.
LEMMA ReceivingStep == TypeOK /\ Receiving /\ [Next]_vars => Receiving'
<1> SUFFICES ASSUME TypeOK, Receiving, [Next]_vars PROVE Receiving'
  OBVIOUS
<1>0. behind \in Nat
  BY Constants DEF TypeOK, ConstantFacts
<1> USE DEF Receiving
<1>1. CASE ReceiveData
  <2> DEFINE d == [kind |-> "data", n |-> peer + 1]
  <2>1. /\ session /\ hand = {} /\ behind = 0 /\ receiver' = "found" /\ hand' = {d}
        /\ d.kind # "end" /\ behind' = IF ended THEN behind + 1 ELSE behind
        /\ UNCHANGED <<opening, session, shut, ended>>
    BY <1>0, <1>1 DEF ReceiveData, Lookup, openVars
  <2> HIDE DEF d
  <2>2. behind' > 0 <=> shut
    BY <2>1
  <2> QED
    BY <2>1, <2>2
<1>2. CASE ReceiveEnd
  <2> DEFINE e == [kind |-> "end", n |-> 0]
  <2>1. /\ session /\ hand = {} /\ behind = 0 /\ ~shut /\ ended' /\ receiver' = "found" /\ hand' = {e}
        /\ e.kind = "end" /\ UNCHANGED <<opening, session, shut, behind>>
    BY <1>0, <1>2 DEF ReceiveEnd, Lookup, openVars
  <2> HIDE DEF e
  <2> QED
    BY <2>1
<1>3. ASSUME NEW p \in hand, Deliver(p) PROVE Receiving'
  <2>1. /\ hand' = {} /\ receiver' = IF shut THEN "crashed" ELSE "loop"
        /\ UNCHANGED <<opening, session, ended, behind>>
    BY <1>3 DEF Deliver, openVars
  <2>2. CASE p.kind = "end"
    <3>1. shut' /\ ended /\ ~shut /\ behind = 0
      BY <1>3, <2>2 DEF Deliver
    <3> QED
      BY <2>1, <3>1
  <2>3. CASE p.kind # "end"
    <3>1. shut' = shut /\ (behind > 0 <=> shut) /\ (ended => shut)
      BY <1>3, <2>3 DEF Deliver
    <3> QED
      BY <2>1, <3>1
  <2> QED
    BY <2>2, <2>3
<1>4. ASSUME NEW k \in Closers, CloseCancel(k) PROVE Receiving'
  BY <1>4 DEF CloseCancel, LeavesChan, openVars
<1>5. CASE Register \/ Request
  BY <1>5 DEF Register, Request, ReadyToAsk, netVars
<1>6. CASE UNCHANGED <<opening, session, receiver, hand, shut, ended, behind>>
  BY <1>6
<1> QED
  BY <1>1, <1>2, <1>3, <1>4, <1>5, <1>6, StepCases
     DEF Receive, RecvCall, RecvReturn, Expire, SendCheck, SendLock, SendPut,
         CloseSwap, CloseRead, CloseWrite, CloseNumber, CloseSend, openVars, netVars, vars

\* The receive goroutine panics on recvChan just when data of the peer comes
\* behind the peer's end, whatever the program does with its stream meanwhile.
THEOREM LateDataOnly == Spec => []LateDataCrashes
<1>1. Init => TypeOK /\ Receiving
  BY TypeInit DEF Init, Receiving
<1>2. TypeOK /\ Receiving /\ [Next]_vars => TypeOK' /\ Receiving'
  BY TypeStep, ReceivingStep
<1>3. Receiving => LateDataCrashes
  BY DEF Receiving, LateDataCrashes
<1> QED
  BY <1>1, <1>2, <1>3, PTL DEF Spec
-----------------------------------------------------------------------------
Given == got \o chan

\* Data in hand is the peer's newest, and newer than all that was given out.
Arrived ==
  /\ receiver = "loop" => hand = {}
  /\ \A p \in hand : p.kind = "data" => p.n = peer /\ p.n > 0 /\ ToSet(Given) \subseteq 1..(peer - 1)
  /\ ToSet(Given) \subseteq 1..peer
  /\ Increasing(Given)

\* A number above all of an increasing sequence can be appended to it.
LEMMA AppendAbove ==
  ASSUME NEW q \in Seq(Nat), NEW x \in Nat \ {0}, Increasing(q), ToSet(q) \subseteq 1..(x - 1)
  PROVE  Increasing(Append(q, x)) /\ ToSet(Append(q, x)) \subseteq 1..x
<1> DEFINE r == Append(q, x)
<1>1. /\ r \in Seq(Nat) /\ Len(q) \in Nat /\ r[Len(q) + 1] = x
      /\ \A i \in 1..Len(q) : r[i] = q[i]
      /\ DOMAIN q = 1..Len(q) /\ DOMAIN r = 1..(Len(q) + 1)
  OBVIOUS
<1>2. \A i \in DOMAIN q : q[i] \in 1..(x - 1)
  BY DEF ToSet
<1>3. \A i \in DOMAIN r : i \in DOMAIN q \/ i = Len(q) + 1
  BY <1>1
<1>4. Increasing(r)
  <2> SUFFICES ASSUME NEW i \in DOMAIN r, NEW j \in DOMAIN r, i < j PROVE r[i] < r[j]
    BY DEF Increasing
  <2>1. i \in DOMAIN q
    BY <1>1
  <2>2. CASE j \in DOMAIN q
    BY <1>1, <2>1, <2>2 DEF Increasing
  <2>3. CASE j = Len(q) + 1
    BY <1>1, <1>2, <2>1, <2>3
  <2> QED
    BY <1>3, <2>2, <2>3
<1>5. ToSet(r) \subseteq 1..x
  BY <1>1, <1>2, <1>3 DEF ToSet
<1> QED
  BY <1>4, <1>5

\* Appending to the second of two sequences appends to the two together.
LEMMA ConcatAppend ==
  ASSUME NEW S, NEW g \in Seq(S), NEW c \in Seq(S), NEW x \in S
  PROVE  g \o Append(c, x) = Append(g \o c, x)
OBVIOUS

\* Moving the head of the second to the end of the first changes nothing.
LEMMA ConcatMove ==
  ASSUME NEW S, NEW g \in Seq(S), NEW c \in Seq(S), c # <<>>
  PROVE  Append(g, Head(c)) \o Tail(c) = g \o c
OBVIOUS

\* What has been received consists of numbers.
LEMMA GivenType == TypeOK => got \in Seq(Nat) /\ chan \in Seq(Nat) /\ Given \in Seq(Nat)
<1> SUFFICES ASSUME TypeOK PROVE got \in Seq(Nat) /\ chan \in Seq(Nat)
  BY DEF Given
<1>1. \A S, T : S \subseteq T => Seq(S) \subseteq Seq(T)
  OBVIOUS
<1>2. 0..MaxPeer \subseteq Nat
  BY Constants DEF ConstantFacts
<1> QED
  BY <1>1, <1>2 DEF TypeOK

\* Packets pass from the hand to the channel to the reader in the order they came in.
LEMMA ArrivedStep == TypeOK /\ Arrived /\ [Next]_vars => Arrived'
<1> SUFFICES ASSUME TypeOK, Arrived, [Next]_vars PROVE Arrived'
  OBVIOUS
<1>0. got \in Seq(Nat) /\ chan \in Seq(Nat) /\ Given \in Seq(Nat) /\ peer \in Nat
  BY GivenType, Constants DEF TypeOK, ConstantFacts
<1>1. CASE ReceiveData
  <2>1. UNCHANGED <<got, chan>> /\ peer' = peer + 1
    BY <1>1 DEF ReceiveData, Lookup
  <2>2. Given' = Given
    BY <2>1 DEF Given
  <2>3. \A p \in hand' : p.n = peer'
    BY <1>1 DEF ReceiveData, Lookup, Arrived
  <2>4. receiver' = "loop" => hand' = {}
    BY <1>1 DEF ReceiveData, Lookup, Arrived
  <2>5. ToSet(Given)' \subseteq 1..(peer' - 1) /\ ToSet(Given)' \subseteq 1..peer'
    BY <1>0, <2>1, <2>2 DEF Arrived
  <2> QED
    BY <1>0, <2>1, <2>2, <2>3, <2>4, <2>5 DEF Arrived
<1>2. CASE ReceiveEnd
  BY <1>2 DEF ReceiveEnd, Lookup, Arrived, Given
<1>3. ASSUME NEW p \in hand, Deliver(p) PROVE Arrived'
  <2>1. CASE p.kind = "data" /\ chan' = Enqueued(p.n)
    <3>1. p.n = peer /\ peer \in Nat \ {0} /\ ToSet(Given) \subseteq 1..(peer - 1) /\ Increasing(Given)
      BY <1>0, <2>1 DEF Arrived
    <3>2. Given' = Append(Given, peer)
      BY <1>0, <1>3, <2>1, <3>1, ConcatAppend DEF Deliver, Enqueued, Given
    <3>3. Increasing(Append(Given, peer)) /\ ToSet(Append(Given, peer)) \subseteq 1..peer
      BY <1>0, <3>1, AppendAbove
    <3>4. UNCHANGED peer /\ hand' = {}
      BY <1>3 DEF Deliver
    <3> QED
      BY <3>2, <3>3, <3>4 DEF Arrived
  <2>2. CASE UNCHANGED chan
    BY <1>3, <2>2 DEF Deliver, Arrived, Given
  <2> QED
    BY <1>3, <2>1, <2>2 DEF Deliver
<1>4. CASE RecvReturn
  <2>1. Given' = Given
    BY <1>0, <1>4, ConcatMove DEF RecvReturn, Given
  <2>2. UNCHANGED <<peer, hand, receiver>>
    BY <1>4 DEF RecvReturn, netVars
  <2> QED
    BY <2>1, <2>2 DEF Arrived
<1>5. CASE UNCHANGED <<receiver, hand, peer, got, chan>>
  BY <1>5 DEF Arrived, Given
<1> QED
  BY <1>1, <1>2, <1>3, <1>4, <1>5, StepCases
     DEF Receive, Register, Request, RecvCall, Expire, SendCheck, SendLock, SendPut, CloseSwap,
         CloseRead, CloseWrite, CloseNumber, CloseSend, CloseCancel, netVars, vars

\* Recv returns the peer's data in order, none of it twice.
THEOREM DataInOrder == Spec => []InOrder
<1>1. ASSUME Init PROVE Arrived
  <2>1. Given = <<>>
    BY <1>1 DEF Init, Given
  <2> QED
    BY <1>1, <2>1 DEF Init, Arrived, Increasing, ToSet
<1>2. Arrived => InOrder
  BY DEF Arrived, InOrder, Given
<1> QED
  BY <1>1, <1>2, TypeInit, TypeStep, ArrivedStep, PTL DEF Spec
-----------------------------------------------------------------------------
\* The closers whose CompareAndSwap returned true.
Winners == {k \in Closers : closer[k] \notin {"idle", "refused"}}

Ends == {i \in DOMAIN wire : wire[i].kind = "end"}

\* One Close at most has won, and an end on the wire is its own.
Closing ==
  /\ Winners # {} => closed
  /\ \A k, j \in Winners : k = j
  /\ Ends # {} => \E k \in Closers : closer[k] \in {"sent", "through"}
  /\ \A i, j \in Ends : i = j

\* What a packet adds to the wire.
LEMMA WireGrows ==
  ASSUME TypeOK, NEW k \in {"data", "end"}, NEW n \in Nat,
         wire' = Append(wire, [kind |-> k, seq |-> n])
  PROVE  /\ Len(wire) \in Nat
         /\ DOMAIN wire = 1..Len(wire) /\ DOMAIN wire' = 1..(Len(wire) + 1)
         /\ Len(wire') = Len(wire) + 1
         /\ \A i \in DOMAIN wire : wire'[i] = wire[i]
         /\ wire'[Len(wire) + 1].kind = k /\ wire'[Len(wire) + 1].seq = n
         /\ \A i \in DOMAIN wire' : i \in DOMAIN wire \/ i = Len(wire) + 1
<1>1. wire \in Seq(OutPacket) /\ [kind |-> k, seq |-> n] \in OutPacket
  BY DEF TypeOK, OutPacket
<1> DEFINE p == [kind |-> k, seq |-> n]
<1>2. p.kind = k /\ p.seq = n
  OBVIOUS
<1> HIDE DEF p
<1>3. wire' = Append(wire, p)
  BY DEF p
<1>4. p \in OutPacket
  BY <1>1 DEF p
<1> QED
  BY <1>1, <1>2, <1>3, <1>4

\* Only the closer that won sends an end, and it sends it once.
LEMMA ClosingStep == TypeOK /\ Closing /\ [Next]_vars => Closing'
<1> SUFFICES ASSUME TypeOK, Closing, [Next]_vars PROVE Closing'
  OBVIOUS
<1> USE DEF Closing
<1>1. ASSUME NEW k \in Closers, CloseSwap(k) PROVE Closing'
  <2>1. UNCHANGED wire
    BY <1>1 DEF CloseSwap
  <2>2. Ends' = Ends
    BY <2>1 DEF Ends
  <2>3. \A j \in Closers : j # k => closer'[j] = closer[j]
    BY <1>1 DEF CloseSwap, TypeOK
  <2>4. closer[k] = "idle" /\ closer'[k] = IF closed THEN "refused" ELSE "won"
    BY <1>1 DEF CloseSwap, Wins, TypeOK
  <2>5. closed'
    BY <1>1 DEF CloseSwap
  <2>6. \A i, j \in Winners' : i = j
    BY <2>3, <2>4 DEF Winners
  <2>7. \A j \in Closers : closer[j] \in {"sent", "through"} => closer'[j] \in {"sent", "through"}
    BY <2>3, <2>4
  <2> QED
    BY <2>2, <2>5, <2>6, <2>7
<1>2. ASSUME NEW k \in Closers, CloseRead(k) \/ CloseWrite(k) \/ CloseNumber(k) \/ CloseCancel(k)
      PROVE  Closing'
  <2>1. UNCHANGED <<wire, closed>>
    BY <1>2 DEF CloseRead, CloseWrite, CloseNumber, CloseCancel
  <2>2. Ends' = Ends
    BY <2>1 DEF Ends
  <2>3. /\ \A j \in Closers : j # k => closer'[j] = closer[j]
        /\ closer[k] \notin {"idle", "refused"} /\ closer'[k] \notin {"idle", "refused"}
        /\ closer[k] \in {"sent", "through"} => closer'[k] \in {"sent", "through"}
    BY <1>2 DEF CloseRead, CloseWrite, CloseNumber, CloseCancel, TypeOK
  <2>4. Winners' = Winners
    BY <2>3 DEF Winners
  <2>5. \A j \in Closers : closer[j] \in {"sent", "through"} => closer'[j] \in {"sent", "through"}
    BY <2>3
  <2> QED
    BY <2>1, <2>2, <2>4, <2>5
<1>3. ASSUME NEW k \in Closers, CloseSend(k) PROVE Closing'
  <2>1. /\ UNCHANGED closed
        /\ \A j \in Closers : j # k => closer'[j] = closer[j]
        /\ closer[k] = "numbered" /\ closer'[k] = "sent" /\ seqRead[k] \in Nat
    BY <1>3 DEF CloseSend, TypeOK
  <2>2. Winners' = Winners /\ k \in Winners
    BY <2>1 DEF Winners
  <2>3. Ends = {}
    <3>1. \A j \in Closers : closer[j] \in {"sent", "through"} => j \in Winners /\ j # k
      BY <2>1 DEF Winners
    <3> QED
      BY <2>2, <3>1
  <2>4. \A i, j \in Ends' : i = j
    <3>1. CASE UNCHANGED wire
      BY <2>3, <3>1 DEF Ends
    <3>2. CASE wire' = Append(wire, [kind |-> "end", seq |-> seqRead[k]])
      <4>1. \A i \in DOMAIN wire' : i \in DOMAIN wire \/ i = Len(wire) + 1
        BY <2>1, <3>2, WireGrows
      <4>2. \A i \in DOMAIN wire : wire'[i] = wire[i]
        BY <2>1, <3>2, WireGrows
      <4>3. Ends' \subseteq {Len(wire) + 1}
        BY <2>3, <4>1, <4>2 DEF Ends
      <4> QED
        BY <4>3
    <3> QED
      BY <1>3, <3>1, <3>2 DEF CloseSend
  <2> QED
    BY <2>1, <2>2, <2>4
<1>4. ASSUME NEW t \in Senders, SendPut(t) PROVE Closing'
  <2>1. UNCHANGED <<closed, closer>>
    BY <1>4 DEF SendPut, closeVars
  <2>2. Ends' = Ends
    <3>1. CASE UNCHANGED wire
      BY <3>1 DEF Ends
    <3>2. CASE wire' = Append(wire, [kind |-> "data", seq |-> seq])
      <4>1. \A i \in DOMAIN wire' : i \in DOMAIN wire \/ i = Len(wire) + 1
        BY <3>2, WireGrows
      <4>2. \A i \in DOMAIN wire : wire'[i] = wire[i] /\ i \in DOMAIN wire'
        BY <3>2, WireGrows
      <4>3. wire'[Len(wire) + 1].kind = "data"
        BY <3>2, WireGrows
      <4> QED
        BY <4>1, <4>2, <4>3 DEF Ends
    <3> QED
      BY <1>4, <3>1, <3>2 DEF SendPut
  <2> QED
    BY <2>1, <2>2 DEF Winners
<1>5. CASE RecvReturn
  BY <1>5 DEF RecvReturn, closeVars, Winners, Ends
<1>6. CASE UNCHANGED <<closed, closer, wire>>
  BY <1>6 DEF Winners, Ends
<1> QED
  BY <1>1, <1>2, <1>3, <1>4, <1>5, <1>6, StepCases
     DEF Receive, ReceiveData, ReceiveEnd, Lookup, Deliver, Register, Request, RecvCall, Expire,
         SendCheck, SendLock, closeVars, vars

\* At first nobody has closed anything.
LEMMA ClosingInit == Init => Closing
<1> SUFFICES ASSUME Init PROVE Closing
  OBVIOUS
<1>1. Winners = {} /\ Ends = {}
  BY DEF Init, Winners, Ends
<1> QED
  BY <1>1 DEF Closing

\* However many goroutines close the stream, it sends one end at most.
THEOREM OneEndOnly == Spec => []OneEnd
<1>1. ASSUME Closing PROVE OneEnd
  <2>1. CASE Ends = {}
    <3>1. Cardinality(Ends) = 0
      BY <2>1, FS_EmptySet
    <3> QED
      BY <3>1 DEF OneEnd, Ends
  <2>2. CASE Ends # {}
    <3>1. PICK i \in Ends : TRUE
      BY <2>2
    <3>2. Ends = {i}
      BY <1>1, <3>1 DEF Closing
    <3>3. Cardinality(Ends) = 1
      BY <3>2, FS_Singleton
    <3> QED
      BY <3>3 DEF OneEnd, Ends
  <2> QED
    BY <2>1, <2>2
<1> QED
  BY <1>1, TypeInit, TypeStep, ClosingInit, ClosingStep, PTL DEF Spec
-----------------------------------------------------------------------------
\* Until a Close writes seq, all numbers used are at most seq, and below it
\* while a sender has taken the next.
Numbered ==
  /\ \A t \in Senders : sender[t] = "locked" => mu = {t}
  /\ Undisturbed =>
       /\ \A i, j \in DOMAIN wire : i < j => wire[i].seq < wire[j].seq
       /\ \A i \in DOMAIN wire : wire[i].seq <= seq /\ (mu # {} => wire[i].seq < seq)

\* A number is used by the sender that holds mu before another can be taken.
LEMMA NumberedStep == TypeOK /\ Numbered /\ [Next]_vars => Numbered'
<1> SUFFICES ASSUME TypeOK, Numbered, [Next]_vars PROVE Numbered'
  OBVIOUS
<1>0. seq \in Nat /\ \A i \in DOMAIN wire : wire[i].seq \in Nat
  <2>1. seq \in Nat /\ wire \in Seq(OutPacket)
    BY DEF TypeOK, OutPacket
  <2>2. \A i \in DOMAIN wire : wire[i] \in OutPacket
    BY <2>1
  <2> QED
    BY <2>1, <2>2 DEF OutPacket
<1>1. ASSUME NEW t \in Senders, SendLock(t) PROVE Numbered'
  <2>1. /\ UNCHANGED <<wire, closer>> /\ seq' = seq + 1 /\ mu = {} /\ mu' = {t}
        /\ \A u \in Senders : u # t => sender'[u] = sender[u]
    BY <1>1 DEF SendLock, Unlocked, closeVars, TypeOK
  <2>2. \A u \in Senders : sender'[u] = "locked" => mu' = {u}
    BY <2>1 DEF Numbered
  <2>3. Undisturbed' => Undisturbed
    BY <2>1 DEF Undisturbed
  <2> QED
    BY <1>0, <2>1, <2>2, <2>3 DEF Numbered
<1>2. ASSUME NEW t \in Senders, SendPut(t) PROVE Numbered'
  <2>1. /\ UNCHANGED <<seq, closer>> /\ mu = {t} /\ mu' = {} /\ sender'[t] = "idle"
        /\ \A u \in Senders : u # t => sender'[u] = sender[u]
    BY <1>2 DEF SendPut, closeVars, TypeOK, Numbered
  <2>2. \A u \in Senders : sender'[u] # "locked"
    BY <2>1 DEF Numbered
  <2>3. Undisturbed' => Undisturbed
    BY <2>1 DEF Undisturbed
  <2>4. CASE UNCHANGED wire
    BY <2>1, <2>2, <2>3, <2>4 DEF Numbered
  <2>5. CASE wire' = Append(wire, [kind |-> "data", seq |-> seq])
    <3>1. /\ Len(wire) \in Nat /\ DOMAIN wire = 1..Len(wire)
          /\ \A i \in DOMAIN wire : wire'[i] = wire[i]
          /\ wire'[Len(wire) + 1].seq = seq
          /\ \A i \in DOMAIN wire' : i \in DOMAIN wire \/ i = Len(wire) + 1
      BY <2>5, WireGrows
    <3>2. ASSUME Undisturbed, NEW i \in DOMAIN wire', NEW j \in DOMAIN wire', i < j
          PROVE  wire'[i].seq < wire'[j].seq
      <4>1. i \in DOMAIN wire
        BY <3>1, <3>2
      <4>2. CASE j \in DOMAIN wire
        BY <3>1, <3>2, <4>1, <4>2 DEF Numbered
      <4>3. CASE j = Len(wire) + 1
        BY <2>1, <3>1, <3>2, <4>1, <4>3 DEF Numbered
      <4> QED
        BY <3>1, <4>2, <4>3
    <3>3. ASSUME Undisturbed, NEW i \in DOMAIN wire' PROVE wire'[i].seq <= seq
      BY <1>0, <3>1, <3>3 DEF Numbered
    <3> QED
      BY <2>1, <2>2, <2>3, <3>2, <3>3 DEF Numbered
  <2> QED
    BY <1>2, <2>4, <2>5 DEF SendPut
<1>3. ASSUME NEW k \in Closers, CloseWrite(k) \/ CloseNumber(k) \/ CloseSend(k) \/ CloseCancel(k)
      PROVE  Numbered'
  <2>1. ~Undisturbed'
    BY <1>3 DEF CloseWrite, CloseNumber, CloseSend, CloseCancel, Undisturbed, TypeOK
  <2>2. UNCHANGED <<mu, sender>>
    BY <1>3 DEF CloseWrite, CloseNumber, CloseSend, CloseCancel, sendVars
  <2> QED
    BY <2>1, <2>2 DEF Numbered
<1>4. ASSUME NEW k \in Closers, CloseSwap(k) \/ CloseRead(k) PROVE Numbered'
  <2>1. Undisturbed' => Undisturbed
    BY <1>4 DEF CloseSwap, CloseRead, Undisturbed, TypeOK
  <2>2. UNCHANGED <<mu, sender, seq, wire>>
    BY <1>4 DEF CloseSwap, CloseRead, sendVars
  <2> QED
    BY <2>1, <2>2 DEF Numbered
<1>5. ASSUME NEW t \in Senders, SendCheck(t) PROVE Numbered'
  <2>1. \A u \in Senders : sender'[u] = "locked" => sender[u] = "locked"
    BY <1>5 DEF SendCheck, TypeOK
  <2>2. UNCHANGED <<mu, closer, seq, wire>>
    BY <1>5 DEF SendCheck, closeVars
  <2> QED
    BY <2>1, <2>2 DEF Numbered, Undisturbed
<1>6. CASE UNCHANGED <<mu, sender, closer, seq, wire>>
  BY <1>6 DEF Numbered, Undisturbed
<1> QED
  BY <1>1, <1>2, <1>3, <1>4, <1>5, <1>6, StepCases
     DEF Receive, ReceiveData, ReceiveEnd, Lookup, Deliver, Register, Request, RecvCall, RecvReturn,
         Expire, sendVars, closeVars, vars

\* Concurrent Sends number their packets in the order they are sent in, as
\* long as no Close has incremented seq.
THEOREM SendsNumbered == Spec => []NumbersIncrease
<1>1. Init => Numbered
  BY DEF Init, Numbered
<1>2. Numbered => NumbersIncrease
  BY DEF Numbered, NumbersIncrease
<1> QED
  BY <1>1, <1>2, TypeInit, TypeStep, NumberedStep, PTL DEF Spec
-----------------------------------------------------------------------------
\* The senders between the test of closed and the transport.
Busy == {t \in Senders : sender[t] # "idle"}

\* Behind an end there is room for those that are still busy.
Behind ==
  \A i \in Ends : closed /\ Len(wire) - i + Cardinality(Busy) <= Cardinality(Senders)

\* There are no more busy senders than senders.
LEMMA BusyFinite ==
  TypeOK => /\ IsFiniteSet(Busy) /\ Cardinality(Busy) \in Nat /\ Cardinality(Senders) \in Nat
            /\ Cardinality(Busy) <= Cardinality(Senders)
<1>1. IsFiniteSet(Senders) /\ Busy \subseteq Senders
  BY Constants DEF ConstantFacts, Busy
<1> QED
  BY <1>1, FS_Subset, FS_CardinalityType

\* Once closed is set a sender that is done does not become busy again.
LEMMA BehindStep == TypeOK /\ Closing /\ Behind /\ [Next]_vars => Behind'
<1> SUFFICES ASSUME TypeOK, Closing, Behind, [Next]_vars PROVE Behind'
  OBVIOUS
<1>0. Len(wire) \in Nat /\ Ends \subseteq 1..Len(wire)
  BY DEF TypeOK, Ends
<1>1. ASSUME NEW t \in Senders, SendPut(t) PROVE Behind'
  <2>1. Busy' = Busy \ {t} /\ t \in Busy /\ UNCHANGED closed
    BY <1>1 DEF SendPut, Busy, TypeOK
  <2>2. Cardinality(Busy') = Cardinality(Busy) - 1
    BY <2>1, BusyFinite, FS_RemoveElement
  <2>3. Ends' \subseteq Ends /\ Len(wire') \in {Len(wire), Len(wire) + 1}
    <3>1. CASE UNCHANGED wire
      BY <3>1 DEF Ends
    <3>2. CASE wire' = Append(wire, [kind |-> "data", seq |-> seq])
      <4>1. /\ \A i \in DOMAIN wire' : i \in DOMAIN wire \/ i = Len(wire) + 1
            /\ \A i \in DOMAIN wire : wire'[i] = wire[i]
            /\ wire'[Len(wire) + 1].kind = "data" /\ Len(wire') = Len(wire) + 1
        BY <3>2, WireGrows
      <4> QED
        BY <4>1 DEF Ends
    <3> QED
      BY <1>1, <3>1, <3>2 DEF SendPut
  <2> QED
    BY <1>0, <2>1, <2>2, <2>3, BusyFinite DEF Behind
<1>2. ASSUME NEW k \in Closers, CloseSend(k) PROVE Behind'
  <2>1. Busy' = Busy /\ UNCHANGED closed
    BY <1>2 DEF CloseSend, Busy, sendVars
  <2>2. closed /\ Ends = {}
    <3>1. k \in Winners /\ \A j \in Closers : closer[j] \in {"sent", "through"} => j \in Winners /\ j # k
      BY <1>2 DEF CloseSend, Winners
    <3> QED
      BY <3>1 DEF Closing
  <2>3. CASE UNCHANGED wire
    BY <2>2, <2>3 DEF Behind, Ends
  <2>4. CASE wire' = Append(wire, [kind |-> "end", seq |-> seqRead[k]])
    <3>0. seqRead[k] \in Nat
      BY DEF TypeOK
    <3>1. /\ \A i \in DOMAIN wire' : i \in DOMAIN wire \/ i = Len(wire) + 1
          /\ \A i \in DOMAIN wire : wire'[i] = wire[i]
          /\ Len(wire') = Len(wire) + 1
      BY <2>4, <3>0, WireGrows
    <3>2. Ends' \subseteq {Len(wire')}
      BY <2>2, <3>1 DEF Ends
    <3> QED
      BY <1>0, <2>1, <2>2, <3>1, <3>2, BusyFinite DEF Behind
  <2> QED
    BY <1>2, <2>3, <2>4 DEF CloseSend
<1>3. ASSUME NEW t \in Senders, SendCheck(t) PROVE Behind'
  <2>1. UNCHANGED <<wire, closed>>
    BY <1>3 DEF SendCheck
  <2>2. Ends' = Ends
    BY <2>1 DEF Ends
  <2>3. closed => Busy' = Busy
    BY <1>3 DEF SendCheck, MaySend, Busy
  <2> QED
    BY <2>1, <2>2, <2>3 DEF Behind
<1>4. ASSUME NEW t \in Senders, SendLock(t) PROVE Behind'
  <2>1. UNCHANGED <<wire, closed>>
    BY <1>4 DEF SendLock
  <2>2. Busy' = Busy
    BY <1>4 DEF SendLock, Busy, TypeOK
  <2> QED
    BY <2>1, <2>2 DEF Behind, Ends
<1>5. CASE UNCHANGED <<wire, sender>> /\ (closed => closed')
  BY <1>5 DEF Behind, Busy, Ends
<1>6. ASSUME Receive \/ Register \/ Request \/ RecvCall \/ RecvReturn \/ Expire
      PROVE  UNCHANGED <<wire, sender>> /\ (closed => closed')
  BY <1>6 DEF Receive, ReceiveData, ReceiveEnd, Lookup, Deliver, Register, Request, RecvCall,
              RecvReturn, Expire, sendVars
<1>7. ASSUME NEW k \in Closers, CloseSwap(k) \/ CloseRead(k) \/ CloseWrite(k) \/ CloseNumber(k) \/ CloseCancel(k)
      PROVE  UNCHANGED <<wire, sender>> /\ (closed => closed')
  BY <1>7 DEF CloseSwap, CloseRead, CloseWrite, CloseNumber, CloseCancel, sendVars
<1>8. CASE UNCHANGED vars
  BY <1>5, <1>8 DEF vars, sendVars
<1> QED
  BY <1>1, <1>2, <1>3, <1>4, <1>5, <1>6, <1>7, <1>8, StepCases

\* No more packets can follow the end than there are senders.
THEOREM FewFollowTheEnd == Spec => []FewBehindEnd
<1>1. Init => Closing /\ Behind
  BY ClosingInit DEF Init, Behind, Ends
<1>2. ASSUME TypeOK, Behind PROVE FewBehindEnd
  <2> SUFFICES ASSUME NEW i \in Ends PROVE Len(wire) - i <= Cardinality(Senders)
    BY DEF FewBehindEnd, Ends
  <2>1. Len(wire) \in Nat /\ i \in 1..Len(wire)
    BY DEF TypeOK, Ends
  <2> QED
    BY <1>2, <2>1, BusyFinite DEF Behind
<1> QED
  BY <1>1, <1>2, TypeInit, TypeStep, ClosingStep, BehindStep, PTL DEF Spec
-----------------------------------------------------------------------------
\* The first n messages of the peer.
FirstMessages(n) == [i \in 1..n |-> i]

\* How many of the messages that came in time the receive goroutine has used.
Handled == IF behind = 0 /\ \E p \in hand : p.kind = "data" THEN InTime - 1 ELSE InTime

\* None of the first RecvCap messages meets a full channel.
Complete == InTime <= RecvCap => Given = FirstMessages(Handled)

\* The next message completes the next prefix.
LEMMA NextMessage ==
  ASSUME NEW n \in Nat
  PROVE  /\ FirstMessages(n) \in Seq(Nat) /\ Len(FirstMessages(n)) = n
         /\ Append(FirstMessages(n), n + 1) = FirstMessages(n + 1)
BY DEF FirstMessages

\* Messages in time are used one by one, and late ones not at all.
LEMMA CompleteStep ==
  TypeOK /\ Receiving /\ Arrived /\ Complete /\ [Next]_vars => Complete'
<1> SUFFICES ASSUME TypeOK, Receiving, Arrived, Complete, [Next]_vars PROVE Complete'
  OBVIOUS
<1>0. /\ got \in Seq(Nat) /\ chan \in Seq(Nat) /\ Given \in Seq(Nat)
      /\ peer \in Nat /\ RecvCap \in Nat /\ behind \in 0..peer /\ InTime \in Nat
  BY GivenType, Constants DEF TypeOK, ConstantFacts, InTime
<1>1. CASE ReceiveData
  <2> DEFINE d == [kind |-> "data", n |-> peer + 1]
  <2>1. /\ hand = {} /\ behind = 0 /\ peer' = peer + 1 /\ hand' = {d} /\ d.kind = "data"
        /\ behind' = IF ended THEN 1 ELSE 0
        /\ UNCHANGED <<got, chan>>
    BY <1>0, <1>1 DEF ReceiveData, Lookup, Receiving
  <2> HIDE DEF d
  <2>2. Handled = peer /\ Handled' = peer /\ Given' = Given
    BY <1>0, <2>1 DEF Handled, InTime, Given
  <2>3. InTime' <= RecvCap => InTime <= RecvCap
    BY <1>0, <2>1 DEF InTime
  <2> QED
    BY <2>2, <2>3 DEF Complete
<1>2. CASE ReceiveEnd
  <2> DEFINE e == [kind |-> "end", n |-> 0]
  <2>1. hand = {} /\ hand' = {e} /\ e.kind # "data" /\ UNCHANGED <<peer, behind, got, chan>>
    BY <1>2 DEF ReceiveEnd, Lookup, Receiving
  <2> HIDE DEF e
  <2>2. InTime' = InTime /\ Handled = InTime /\ Handled' = InTime /\ Given' = Given
    BY <2>1 DEF Handled, InTime, Given
  <2> QED
    BY <2>2 DEF Complete
<1>3. ASSUME NEW p \in hand, Deliver(p) PROVE Complete'
  <2>1. hand' = {} /\ UNCHANGED <<peer, behind, got>> /\ InTime' = InTime /\ Handled' = InTime
    BY <1>3 DEF Deliver, Handled, InTime
  <2>2. p.kind \in {"data", "end"} /\ \A q \in hand : q = p
    BY DEF TypeOK, Receiving
  <2>3. CASE p.kind = "end" \/ behind > 0
    <3>1. UNCHANGED chan
      BY <1>3, <2>2, <2>3 DEF Deliver, Receiving
    <3>2. Handled = InTime
      BY <2>2, <2>3 DEF Handled
    <3> QED
      BY <2>1, <3>1, <3>2 DEF Complete, Given
  <2>4. CASE p.kind = "data" /\ behind = 0
    <3>1. p.n = peer /\ peer > 0 /\ InTime = peer /\ Handled = peer - 1 /\ ~shut
      BY <1>0, <2>4 DEF Arrived, Handled, InTime, Receiving
    <3>2. ASSUME peer <= RecvCap PROVE Given' = FirstMessages(peer)
      <4>1. PICK n \in Nat : n = peer - 1
        BY <1>0, <3>1
      <4>2. Given = FirstMessages(n) /\ Len(Given) = n
        BY <3>1, <3>2, <4>1, NextMessage DEF Complete
      <4>3. Len(Given) = Len(got) + Len(chan) /\ Len(got) \in Nat /\ Len(chan) \in Nat
        BY <1>0 DEF Given
      <4>4. Room
        BY <1>0, <3>2, <4>1, <4>2, <4>3 DEF Room
      <4>5. chan' = Append(chan, peer)
        BY <1>3, <2>4, <3>1, <4>4 DEF Deliver, Enqueued
      <4>6. Given' = Append(Given, peer)
        BY <1>0, <2>1, <4>5, ConcatAppend DEF Given
      <4>7. peer = n + 1
        BY <1>0, <4>1
      <4> QED
        BY <4>2, <4>6, <4>7, NextMessage
    <3> QED
      BY <2>1, <3>1, <3>2 DEF Complete
  <2> QED
    BY <1>0, <2>2, <2>3, <2>4
<1>4. CASE RecvReturn
  <2>1. Given' = Given
    BY <1>0, <1>4, ConcatMove DEF RecvReturn, Given
  <2>2. UNCHANGED <<peer, behind, hand>>
    BY <1>4 DEF RecvReturn, netVars
  <2> QED
    BY <2>1, <2>2 DEF Complete, Handled, InTime
<1>5. CASE UNCHANGED <<peer, behind, hand, got, chan>>
  BY <1>5 DEF Complete, Handled, InTime, Given
<1> QED
  BY <1>1, <1>2, <1>3, <1>4, <1>5, StepCases
     DEF Receive, Register, Request, RecvCall, Expire, SendCheck, SendLock, SendPut, CloseSwap, CloseRead, CloseWrite,
         CloseNumber, CloseSend, CloseCancel, netVars, vars

\* What holds of the receive goroutine, taken together.
LEMMA ReceiverInvariant == Spec => [](TypeOK /\ Receiving /\ Arrived /\ Complete)
<1>1. ASSUME Init PROVE Receiving /\ Arrived /\ Complete
  <2>1. Given = <<>> /\ FirstMessages(0) = <<>>
    BY <1>1 DEF Init, Given, FirstMessages
  <2> QED
    BY <1>1, <2>1 DEF Init, Receiving, Arrived, Complete, Handled, InTime, Increasing, ToSet
<1> QED
  BY <1>1, TypeInit, TypeStep, ReceivingStep, ArrivedStep, CompleteStep, PTL DEF Spec

\* The peer's end is never lost on the client, nor any message before it that
\* fits into recvChan together with those before it.
THEOREM PeerIsHeard == Spec => []NothingMissed
<1>1. Receiving /\ Complete => NothingMissed
  BY DEF Receiving, Complete, NothingMissed, Given, FirstMessages, Handled
<1> QED
  BY <1>1, ReceiverInvariant, PTL
-----------------------------------------------------------------------------
\* Why the stream is closed: a Close has won, or Recv, which then has returned,
\* has found the peer's end.
ClosedForCause ==
  /\ Left => closed
  /\ closed => Left \/ ended
  /\ closed /\ reader = "waiting" => Left

\* The steps that leave the contract's view of the stream alone.
Unseen == UNCHANGED <<peer, ended, got, closed, reader, Left>>

\* Sends, and what a Close does after its swap, are unseen.
LEMMA SendsUnseen ==
  ASSUME TypeOK,
         \/ Register \/ Request \/ Expire
         \/ \E p \in hand : Deliver(p)
         \/ \E t \in Senders : SendCheck(t) \/ SendLock(t) \/ SendPut(t)
         \/ \E k \in Closers : CloseRead(k) \/ CloseWrite(k) \/ CloseNumber(k) \/ CloseSend(k) \/ CloseCancel(k)
         \/ UNCHANGED vars
  PROVE  Unseen
<1>1. ASSUME NEW k \in Closers,
             CloseRead(k) \/ CloseWrite(k) \/ CloseNumber(k) \/ CloseSend(k) \/ CloseCancel(k)
      PROVE  Unseen
  <2>1. \A j \in Closers : closer'[j] \in {"idle", "refused"} <=> closer[j] \in {"idle", "refused"}
    BY <1>1 DEF CloseRead, CloseWrite, CloseNumber, CloseSend, CloseCancel, TypeOK
  <2>2. Left' = Left
    BY <2>1 DEF Left
  <2> QED
    BY <1>1, <2>2 DEF CloseRead, CloseWrite, CloseNumber, CloseSend, CloseCancel, netVars, Unseen
<1>2. CASE \/ Register \/ Request \/ Expire
           \/ \E p \in hand : Deliver(p)
           \/ \E t \in Senders : SendCheck(t) \/ SendLock(t) \/ SendPut(t)
           \/ UNCHANGED vars
  <2>1. UNCHANGED closer
    BY <1>2 DEF Register, Request, Expire, Deliver, SendCheck, SendLock, SendPut, closeVars, vars
  <2>2. Left' = Left
    BY <2>1 DEF Left
  <2> QED
    BY <1>2, <2>2 DEF Register, Request, Expire, Deliver, SendCheck, SendLock, SendPut, netVars, vars,
                      Unseen
<1> QED
  BY <1>1, <1>2

\* What a CompareAndSwap of Close does to the contract.
LEMMA SwapLeaves ==
  ASSUME TypeOK, ClosedForCause, NEW k \in Closers, CloseSwap(k)
  PROVE  /\ UNCHANGED <<peer, ended, got, reader>> /\ closed' = TRUE
         /\ IF closed THEN Left' = Left ELSE Left' = TRUE
<1>1. /\ closer[k] = "idle" /\ closer'[k] = IF closed THEN "refused" ELSE "won"
      /\ \A j \in Closers \ {k} : closer'[j] = closer[j]
  BY DEF CloseSwap, Wins, TypeOK
<1>2. closed => Left' = Left
  BY <1>1 DEF Left
<1>3. ~closed => Left' = TRUE
  BY <1>1 DEF Left
<1> QED
  BY <1>2, <1>3 DEF CloseSwap, netVars

\* Only a Close and io.EOF close the stream.
LEMMA ClosedStep == TypeOK /\ Receiving /\ ClosedForCause /\ [Next]_vars => ClosedForCause'
<1> SUFFICES ASSUME TypeOK, Receiving, ClosedForCause, [Next]_vars PROVE ClosedForCause'
  OBVIOUS
<1>1. ASSUME NEW k \in Closers, CloseSwap(k) PROVE ClosedForCause'
  BY <1>1, SwapLeaves DEF ClosedForCause
<1>2. CASE RecvCall \/ RecvReturn \/ ReceiveData \/ ReceiveEnd
  <2>1. Left' = Left
    BY <1>2 DEF RecvCall, RecvReturn, ReceiveData, ReceiveEnd, Lookup, closeVars, Left
  <2> QED
    BY <1>2, <2>1 DEF RecvCall, RecvReturn, ReceiveData, ReceiveEnd, Lookup, netVars, Receiving,
                      ClosedForCause
<1>3. CASE Unseen
  BY <1>3 DEF Unseen, ClosedForCause
<1> QED
  BY <1>1, <1>2, <1>3, SendsUnseen, StepCases DEF Receive

\* The head of the channel is the peer's, and newer than all that was returned.
LEMMA HeadIsNewest ==
  ASSUME NEW g \in Seq(Nat), NEW c \in Seq(Nat), c # <<>>, Increasing(g \o c)
  PROVE  Head(c) \in ToSet(g \o c) /\ \A i \in DOMAIN g : g[i] < Head(c)
<1> DEFINE q == g \o c
<1>1. /\ Len(g) \in Nat /\ DOMAIN g = 1..Len(g) /\ Len(g) + 1 \in DOMAIN q
      /\ q[Len(g) + 1] = Head(c)
      /\ \A i \in 1..Len(g) : i \in DOMAIN q /\ q[i] = g[i]
  OBVIOUS
<1>2. Increasing(q)
  OBVIOUS
<1> HIDE DEF q
<1>3. \A i \in DOMAIN g : i < Len(g) + 1
  BY <1>1
<1>4. Head(c) \in ToSet(q) /\ \A i \in DOMAIN g : g[i] < Head(c)
  BY <1>1, <1>2, <1>3 DEF Increasing, ToSet
<1> QED
  BY <1>4 DEF q

\* Every step is a step of the stream's contract, or unseen.
LEMMA StreamStep ==
  ASSUME TypeOK, Receiving, Arrived, ClosedForCause, [Next]_vars
  PROVE  [Stream!StreamNext]_(Stream!streamVars)
<1> DEFINE s == "stream"
<1> USE DEF Stream!streamVars, TheStream, sentBar, endedBar, leftBar, gotBar, overBar
<1>0. s \in TheStream
  OBVIOUS
<1>1. CASE ReceiveData
  <2>1. /\ peer' = peer + 1 /\ Left' = Left
        /\ UNCHANGED <<ended, got, closed, reader>>
    BY <1>1 DEF ReceiveData, Lookup, closeVars, Left
  <2>2. Stream!Arrive(s)
    BY <2>1 DEF Stream!Arrive
  <2> QED
    BY <2>2 DEF Stream!StreamNext
<1>2. CASE ReceiveEnd
  <2>1. /\ ended' = TRUE /\ Left' = Left
        /\ UNCHANGED <<peer, got, closed, reader>>
    BY <1>2 DEF ReceiveEnd, Lookup, closeVars, Left
  <2>2. Stream!End(s)
    BY <2>1 DEF Stream!End
  <2> QED
    BY <2>2 DEF Stream!StreamNext
<1>3. ASSUME NEW k \in Closers, CloseSwap(k) PROVE [Stream!StreamNext]_(Stream!streamVars)
  <2>1. CASE closed
    BY <1>3, <2>1, SwapLeaves DEF TypeOK
  <2>2. CASE ~closed
    <3>1. /\ UNCHANGED <<peer, ended, got, reader>> /\ closed' = TRUE /\ Left' = TRUE
      BY <1>3, <2>2, SwapLeaves
    <3>2. Stream!Leave(s)
      BY <2>2, <3>1 DEF Stream!Leave
    <3> QED
      BY <3>2 DEF Stream!StreamNext
  <2> QED
    BY <2>1, <2>2
<1>4. CASE RecvCall
  <2>1. ~closed /\ UNCHANGED <<peer, ended, got, closed>> /\ Left' = Left
    BY <1>4 DEF RecvCall, netVars, closeVars, Left
  <2> QED
    BY <2>1
<1>5. CASE RecvReturn
  <2>1. /\ reader = "waiting" /\ reader' = "idle" /\ UNCHANGED <<peer, ended>> /\ Left' = Left
    BY <1>5 DEF RecvReturn, netVars, closeVars, Left
  <2>2. CASE UNCHANGED <<closed, got>>
    <3>1. CASE closed
      <4>1. Left
        BY <2>1, <3>1 DEF ClosedForCause
      <4>2. Stream!Finish(s)
        BY <2>1, <2>2, <3>1, <4>1 DEF Stream!Finish
      <4> QED
        BY <4>2 DEF Stream!StreamNext
    <3>2. CASE ~closed
      BY <2>1, <2>2, <3>2
    <3> QED
      BY <3>1, <3>2
  <2>3. CASE chan # <<>> /\ got' = Append(got, Head(chan)) /\ UNCHANGED closed
    <3>1. got \in Seq(Nat) /\ chan \in Seq(Nat) /\ Increasing(got \o chan)
      BY GivenType DEF Arrived, Given
    <3>2. Head(chan) \in ToSet(got \o chan) /\ \A i \in DOMAIN got : got[i] < Head(chan)
      BY <2>3, <3>1, HeadIsNewest
    <3>3. PICK n \in 1..peer : n = Head(chan)
      BY <3>2 DEF Arrived, Given
    <3>4. closed => Left
      BY <2>1 DEF ClosedForCause
    <3>5. Stream!Take(s, n)
      BY <2>1, <2>3, <3>2, <3>3, <3>4 DEF Stream!Take, TypeOK
    <3> QED
      BY <3>5 DEF Stream!StreamNext
  <2>4. CASE closed' = TRUE /\ UNCHANGED got /\ shut
    <3>1. ended
      BY <2>4 DEF Receiving
    <3>2. Stream!Finish(s)
      BY <2>1, <2>4, <3>1 DEF Stream!Finish
    <3> QED
      BY <3>2 DEF Stream!StreamNext
  <2> QED
    BY <1>5, <2>2, <2>3, <2>4 DEF RecvReturn
<1>6. CASE Unseen
  BY <1>6 DEF Unseen
<1> QED
  BY <1>1, <1>2, <1>3, <1>4, <1>5, <1>6, SendsUnseen, StepCases DEF Receive

\* The program's end of a stream keeps the contract, with the messages in
\* order.
THEOREM StreamKept == Spec => KeepsStream
<1>1. Init => ClosedForCause /\ Stream!StreamInit
  BY DEF Init, ClosedForCause, Left, Stream!StreamInit, TheStream, sentBar, endedBar, leftBar, gotBar,
         overBar
<1> QED
  BY <1>1, ReceiverInvariant, ClosedStep, StreamStep, PTL
     DEF Spec, KeepsStream, Stream!StreamSpec
=============================================================================
