---------------------------- MODULE UnaryRpcProofs ----------------------------
(***************************************************************************)
(* What holds of UnaryRpc for every number of clients, calls, retries and  *)
(* workers: its types, the single place of every request and reply, and    *)
(* from it the answers, the receivers that never crash, the at-most-once   *)
(* execution and the contract of the proxy call.                           *)
(***************************************************************************)
EXTENDS UnaryRpc, TLAPS

ConstantFacts ==
  /\ Owner \in [Calls -> Clients]
  /\ Retry \in Nat
  /\ PoolSize \in Nat \ {0}

LEMMA Constants == ConstantFacts
BY OwnerAssumption, RetryAssumption, PoolSizeAssumption DEF ConstantFacts

\* The ids of a call's attempts are message ids.
LEMMA IdType == ASSUME TypeOK, NEW c \in Calls PROVE Id(c) \in MsgId
BY DEF TypeOK, Id, MsgId

\* A reply built for a request is a reply.
LEMMA ReplyType ==
  ASSUME NEW r \in Request, NEW v
  PROVE  /\ ReplyTo(r, v) \in Reply
         /\ Replies(r, v) \subseteq Reply
BY DEF Request, Reply, ReplyTo, Replies

\* Every step keeps every variable within its type.
LEMMA TypeStep == TypeOK /\ [Next]_vars => TypeOK'
<1> SUFFICES ASSUME TypeOK, [Next]_vars PROVE TypeOK'
  OBVIOUS
<1> USE Constants DEF ConstantFacts
<1>1. ASSUME NEW c \in Calls, Begin(c) PROVE TypeOK'
  <2>1. Id(c) \in MsgId
    BY IdType
  <2>2. CASE client[Owner[c]] = "open" /\ pc' = [pc EXCEPT ![c] = "send"] /\ UNCHANGED outcome
    BY <1>1, <2>1, <2>2 DEF Begin, Registered, Return, TypeOK, netVars, serverVars
  <2>3. CASE UNCHANGED pending /\ \E k \in {"closed", "marshal"} : Return(c, k, Id(c))
    BY <1>1, <2>1, <2>3 DEF Begin, Return, TypeOK, Outcomes, netVars, serverVars
  <2> QED
    BY <1>1, <2>1, <2>2, <2>3 DEF Begin
<1>2. ASSUME NEW c \in Calls, Send(c) PROVE TypeOK'
  <2>1. [id |-> Id(c), from |-> Owner[c]] \in Request
    BY IdType DEF Request
  <2> QED
    BY <1>2, <2>1, IdType DEF Send, Return, TypeOK, Outcomes, clientVars, serverVars
<1>3. ASSUME NEW c \in Calls, Await(c) PROVE TypeOK'
  <2>1. \A p \in completed : p.body \in MsgId
    BY DEF TypeOK, Reply
  <2>2. Id(c) \in MsgId
    BY IdType
  <2>3. PICK k \in Outcomes, m \in MsgId : Return(c, k, m)
    BY <1>3, <2>1, <2>2 DEF Await, Outcomes
  <2>4. UNCHANGED <<attempt, ctxDone, clientVars, netVars, serverVars>>
    BY <1>3 DEF Await
  <2> QED
    BY <2>3, <2>4 DEF Return, TypeOK, clientVars, netVars, serverVars
<1>4. ASSUME NEW c \in Calls, Leave(c) PROVE TypeOK'
  <2>1. attempt' \in [Calls -> 0..Retry]
    BY <1>4 DEF Leave, TriesLeft, TypeOK
  <2>2. pc' \in [Calls -> {"begin", "send", "wait", "leave", "done"}]
    BY <1>4 DEF Leave, TypeOK
  <2> QED
    BY <1>4, <2>1, <2>2 DEF Leave, Unregistered, TypeOK, netVars, serverVars
<1>5. ASSUME NEW c \in Calls, Expire(c) PROVE TypeOK'
  BY <1>5 DEF Expire, TypeOK, clientVars, netVars, serverVars
<1>6. ASSUME NEW cl \in Clients, Receive(cl) PROVE TypeOK'
  <2>1. CASE CheckCancelled(cl)
    BY <2>1 DEF CheckCancelled, LoopHead, ToReceiver, TypeOK, callVars, netVars, serverVars
  <2>2. CASE Take(cl)
    BY <2>2 DEF Take, ToReceiver, TypeOK, callVars, serverVars
  <2>3. CASE PollTimeout(cl)
    BY <2>3 DEF PollTimeout, ToReceiver, TypeOK, callVars, netVars, serverVars
  <2>4. CASE Deliver(cl)
    BY <2>4 DEF Deliver, ToReceiver, TypeOK, callVars, netVars, serverVars
  <2> QED
    BY <1>6, <2>1, <2>2, <2>3, <2>4 DEF Receive
<1>7. ASSUME NEW cl \in Clients, CloseClient(cl) \/ FinishCloseClient(cl) PROVE TypeOK'
  BY <1>7 DEF CloseClient, FinishCloseClient, LifeStages, TypeOK, callVars, netVars, serverVars
<1>8. CASE Serve
  BY <1>8 DEF Serve, ServeCheckCancelled, ServeRecv, ServePollTimeout, ServeSubmit,
              TypeOK, callVars, clientVars, netVars
<1>9. ASSUME NEW r \in running, Reject(r) \/ Execute(r) PROVE TypeOK'
  <2>1. r \in Request /\ r.id \in MsgId
    BY DEF TypeOK, Request
  <2>2. \A v \in Verdicts : Replies(r, v) \subseteq Reply
    BY <2>1, ReplyType
  <2>3. CASE Reject(r)
    BY <2>1, <2>2, <2>3 DEF Reject, Verdicts, TypeOK, callVars, clientVars, netVars
  <2>4. CASE Execute(r)
    <3>1. PICK v \in Verdicts : /\ verdict' = [verdict EXCEPT ![r.id] = v]
                               /\ replying' = replying \union Replies(r, v)
      BY <2>4 DEF Execute, Verdicts
    <3>2. runs' \in [MsgId -> Nat]
      BY <2>1, <2>4 DEF Execute, TypeOK
    <3>3. verdict' \in [MsgId -> Verdicts] /\ replying' \subseteq Reply
      BY <2>1, <2>2, <3>1 DEF TypeOK
    <3> QED
      BY <2>4, <3>2, <3>3 DEF Execute, TypeOK, callVars, clientVars, netVars
  <2> QED
    BY <1>9, <2>3, <2>4
<1>10. ASSUME NEW p \in replying, SendReply(p) PROVE TypeOK'
  BY <1>10 DEF SendReply, TypeOK, callVars, clientVars
<1>11. CASE CloseServer \/ FinishCloseServer
  BY <1>11 DEF CloseServer, FinishCloseServer, LifeStages, TypeOK, callVars, clientVars, netVars
<1>12. CASE Lose
  BY <1>12 DEF Lose, TypeOK, callVars, clientVars, serverVars
<1>13. CASE UNCHANGED vars
  BY <1>13 DEF TypeOK, vars, callVars, clientVars, netVars, serverVars
<1> QED
  BY <1>1, <1>2, <1>3, <1>4, <1>5, <1>6, <1>7, <1>8, <1>9, <1>10, <1>11, <1>12, <1>13
     DEF Next, CallStep, Task

\* Every variable of the unary path keeps its type, and the attempt counter
\* of createProxyFunc its bound, in every execution.
THEOREM TypeCorrect == Spec => []TypeOK
<1>1. Init => TypeOK
  BY Constants DEF ConstantFacts, Init, TypeOK, MsgId, Outcomes, Verdicts, LifeStages
<1> QED
  BY <1>1, TypeStep, PTL DEF Spec
-----------------------------------------------------------------------------
\* The steps that leave pc and attempt alone.
OtherStep ==
  \/ \E c \in Calls : Expire(c)
  \/ \E cl \in Clients : Receive(cl) \/ CloseClient(cl) \/ FinishCloseClient(cl)
  \/ Serve \/ Task \/ CloseServer \/ FinishCloseServer \/ Lose
  \/ UNCHANGED vars

LEMMA StepCases ==
  ASSUME [Next]_vars
  PROVE  OtherStep \/ \E c \in Calls : Begin(c) \/ Send(c) \/ Await(c) \/ Leave(c)
BY DEF Next, CallStep, OtherStep

LEMMA OtherStepKeepsCalls ==
  ASSUME OtherStep PROVE UNCHANGED <<pc, attempt, outcome>>
BY DEF OtherStep, Expire, Receive, CheckCancelled, Take, PollTimeout, Deliver, CloseClient,
       FinishCloseClient, Serve, ServeCheckCancelled, ServeRecv, ServePollTimeout, ServeSubmit,
       Task, Reject, Execute, SendReply, CloseServer, FinishCloseServer, Lose, vars, callVars

\* An id that has been used stays used.
LEMMA UsedStays ==
  ASSUME TypeOK, [Next]_vars, NEW m \in MsgId, Used(m) PROVE Used(m)'
<1>1. m[1] \in Calls /\ m[2] \in Nat /\ \A c \in Calls : attempt[c] \in Nat
  BY Constants DEF TypeOK, MsgId, ConstantFacts
<1>2. CASE OtherStep
  BY <1>2, OtherStepKeepsCalls DEF Used
<1>3. ASSUME NEW c \in Calls, Begin(c) \/ Send(c) \/ Await(c) PROVE Used(m)'
  BY <1>1, <1>3 DEF Begin, Send, Await, Return, Used, TypeOK
<1>4. ASSUME NEW c \in Calls, Leave(c) PROVE Used(m)'
  BY <1>1, <1>4 DEF Leave, Used, TypeOK
<1> QED
  BY <1>2, <1>3, <1>4, StepCases
-----------------------------------------------------------------------------
\* The steps that leave the requests and the verdicts alone.
KeepsRequests == UNCHANGED <<toServer, hand, running, verdict>>

\* Two requests with one id are one request.
LEMMA RequestById ==
  ASSUME TypeOK, RequestsSound, NEW r \in Requests, NEW q \in Requests, r.id = q.id
  PROVE  r = q
<1>1. r \in Request /\ q \in Request
  BY DEF TypeOK, Requests
<1>2. r.from = q.from
  BY DEF RequestsSound
<1> QED
  BY <1>1, <1>2 DEF Request

LEMMA RequestCases ==
  ASSUME [Next]_vars
  PROVE  \/ KeepsRequests
         \/ \E c \in Calls : Send(c)
         \/ ServeRecv \/ ServeSubmit \/ Lose
         \/ \E r \in running : Reject(r) \/ Execute(r)
BY DEF Next, CallStep, Receive, Serve, Task, KeepsRequests, Begin, Await, Leave, Expire,
       CheckCancelled, Take, PollTimeout, Deliver, CloseClient, FinishCloseClient,
       ServeCheckCancelled, ServePollTimeout, SendReply, CloseServer, FinishCloseServer,
       vars, netVars, serverVars

\* Requests stay with the call they belong to, in one place, unjudged.
LEMMA RequestsStep ==
  ASSUME TypeOK, IInv, [Next]_vars PROVE RequestsSound' /\ RequestsOnce'
<1> USE DEF IInv
<1>1. \A r \in Requests : r \in Request /\ r.id \in MsgId /\ Used(r.id)'
  <2>1. \A r \in Requests : r \in Request /\ r.id \in MsgId
    BY DEF TypeOK, Requests, Request
  <2> QED
    BY <2>1, UsedStays DEF RequestsSound
<1>2. CASE KeepsRequests
  BY <1>1, <1>2 DEF KeepsRequests, RequestsSound, RequestsOnce, Requests
<1>3. ASSUME NEW c \in Calls, Send(c) PROVE RequestsSound' /\ RequestsOnce'
  <2>1. PICK m \in MsgId : m = Id(c) /\ m[1] = c /\ m[2] = attempt[c]
    BY IdType DEF Id
  <2> DEFINE new == [id |-> m, from |-> Owner[c]]
  <2>2. CASE UNCHANGED toServer
    BY <1>1, <1>3, <2>2 DEF Send, RequestsSound, RequestsOnce, Requests, serverVars
  <2>3. CASE toServer' = toServer \union {new} /\ pc' = [pc EXCEPT ![c] = "wait"]
    <3>1. attempt[c] \in Nat /\ pc[c] = "send" /\ attempt' = attempt /\ pc'[c] = "wait"
      BY <1>3, <2>3, Constants DEF Send, TypeOK, ConstantFacts
    <3>2. ~Used(m) /\ Used(m)' /\ verdict[m] = "none"
      BY <2>1, <3>1 DEF Used, RunsSound
    <3>3. new.id = m /\ new.from = Owner[m[1]] /\ new \notin Requests
      BY <2>1, <3>2 DEF RequestsSound
    <3>4. hand' = hand /\ running' = running /\ verdict' = verdict
      BY <1>3 DEF Send, serverVars
    <3>5. RequestsSound'
      <4>1. \A r \in Requests' : r \in Requests \/ r = new
        BY <2>3, <3>4 DEF Requests
      <4> HIDE DEF new
      <4> QED
        BY <1>1, <3>2, <3>3, <3>4, <4>1 DEF RequestsSound
    <3> QED
      BY <2>3, <3>3, <3>4, <3>5 DEF RequestsOnce, Requests
  <2> QED
    BY <1>3, <2>1, <2>2, <2>3 DEF Send
<1>4. CASE ServeRecv \/ ServeSubmit \/ Lose
  <2>1. Requests' \subseteq Requests /\ verdict' = verdict
    BY <1>4 DEF ServeRecv, ServeSubmit, Lose, Requests, netVars, serverVars
  <2>2. RequestsSound'
    BY <1>1, <2>1 DEF RequestsSound
  <2>3. RequestsOnce'
    BY <1>4 DEF ServeRecv, ServeSubmit, Lose, RequestsOnce, netVars, serverVars
  <2> QED
    BY <2>2, <2>3
<1>5. ASSUME NEW r \in running, Reject(r) \/ Execute(r) PROVE RequestsSound' /\ RequestsOnce'
  <2>1. /\ running' = running \ {r}
        /\ toServer' = toServer /\ hand' = hand
        /\ \E v \in Verdicts : verdict' = [verdict EXCEPT ![r.id] = v]
    BY <1>5 DEF Reject, Execute, Verdicts, netVars
  <2>2. r \notin Requests'
    BY <2>1 DEF Requests, RequestsOnce
  <2>3. \A q \in Requests' : q \in Requests /\ q.id # r.id
    BY <2>1, <2>2, RequestById DEF Requests
  <2> QED
    BY <1>1, <2>1, <2>3 DEF RequestsSound, RequestsOnce, Requests, TypeOK
<1> QED
  BY <1>2, <1>3, <1>4, <1>5, RequestCases
-----------------------------------------------------------------------------
\* The steps that leave the replies and the verdicts alone.
KeepsReplies == UNCHANGED <<replying, toClient, completed, held, verdict>>

LEMMA ReplyIsTyped ==
  ASSUME TypeOK PROVE \A p \in RepliesLeft : p \in Reply /\ p.id \in MsgId
BY DEF TypeOK, RepliesLeft, Reply

\* Two replies with one id are one reply: its kind follows from the verdict.
LEMMA ReplyById ==
  ASSUME TypeOK, RepliesSound, NEW p \in RepliesLeft, NEW q \in RepliesLeft, p.id = q.id
  PROVE  p = q
<1>1. p \in Reply /\ q \in Reply
  BY ReplyIsTyped
<1>2. p.to = q.to /\ p.body = q.body /\ (p.kind = "ok" <=> q.kind = "ok")
  BY DEF RepliesSound
<1>3. p.kind = q.kind
  BY <1>1, <1>2 DEF Reply
<1> QED
  BY <1>1, <1>2, <1>3 DEF Reply

LEMMA ReplyCases ==
  ASSUME [Next]_vars
  PROVE  \/ KeepsReplies
         \/ \E cl \in Clients : Take(cl) \/ Deliver(cl)
         \/ Lose
         \/ \E p \in replying : SendReply(p)
         \/ \E r \in running : Reject(r) \/ Execute(r)
BY DEF Next, CallStep, Receive, Serve, Task, KeepsReplies, Begin, Send, Await, Leave, Expire,
       CheckCancelled, PollTimeout, CloseClient, FinishCloseClient, ServeCheckCancelled,
       ServeRecv, ServePollTimeout, ServeSubmit, CloseServer, FinishCloseServer,
       vars, clientVars, netVars, serverVars

\* Replies stay with the call they answer, in one place, as judged.
LEMMA RepliesStep ==
  ASSUME TypeOK, IInv, [Next]_vars PROVE RepliesSound' /\ RepliesOnce'
<1> USE DEF IInv
<1>1. CASE KeepsReplies
  BY <1>1 DEF KeepsReplies, RepliesSound, RepliesOnce, RepliesLeft
<1>2. ASSUME NEW cl \in Clients, Take(cl) PROVE RepliesSound' /\ RepliesOnce'
  <2>1. PICK p \in toClient : p.to = cl /\ toClient' = toClient \ {p}
    BY <1>2 DEF Take
  <2>2. replying' = replying /\ completed' = completed /\ verdict' = verdict
    BY <1>2 DEF Take, serverVars
  <2>3. CASE held' = held
    BY <2>1, <2>2, <2>3 DEF RepliesSound, RepliesOnce, RepliesLeft
  <2>4. CASE held' = [held EXCEPT ![cl] = {p}]
    <3>1. held' \in [Clients -> SUBSET Reply] /\ \A k \in Clients : (held'[k] = {p} /\ k = cl) \/ held'[k] = held[k]
      BY <2>1, <2>4 DEF TypeOK
    <3>2. RepliesLeft' \subseteq RepliesLeft
      BY <2>1, <2>2, <3>1 DEF RepliesLeft
    <3>3. RepliesSound'
      BY <2>2, <3>2 DEF RepliesSound
    <3>4. \A k \in Clients :
            /\ held'[k] \intersect (replying' \union toClient' \union completed') = {}
            /\ \A q \in held'[k] : q.to = k
      <4> TAKE k \in Clients
      <4>1. CASE held'[k] = {p} /\ k = cl
        BY <2>1, <2>2, <4>1 DEF RepliesOnce
      <4>2. CASE held'[k] = held[k]
        BY <2>1, <2>2, <4>2 DEF RepliesOnce
      <4> QED
        BY <3>1, <4>1, <4>2
    <3> QED
      BY <2>1, <2>2, <3>3, <3>4 DEF RepliesOnce
  <2> QED
    BY <1>2, <2>1, <2>3, <2>4, ReplyIsTyped DEF Take
<1>3. ASSUME NEW cl \in Clients, Deliver(cl) PROVE RepliesSound' /\ RepliesOnce'
  <2>1. PICK p \in held[cl] : \/ UNCHANGED <<completed, held>>
                             \/ /\ completed' = completed \union {p}
                                /\ held' = [held EXCEPT ![cl] = {}]
    BY <1>3 DEF Deliver
  <2>2. replying' = replying /\ toClient' = toClient /\ verdict' = verdict
    BY <1>3 DEF Deliver, netVars, serverVars
  <2>3. CASE UNCHANGED <<completed, held>>
    BY <2>2, <2>3 DEF RepliesSound, RepliesOnce, RepliesLeft
  <2>4. CASE completed' = completed \union {p} /\ held' = [held EXCEPT ![cl] = {}]
    <3>1. \A k \in Clients : (held'[k] = {} /\ k = cl) \/ (held'[k] = held[k] /\ k # cl)
      BY <2>4 DEF TypeOK
    <3>2. RepliesLeft' \subseteq RepliesLeft
      BY <2>2, <2>4, <3>1 DEF RepliesLeft
    <3>3. RepliesSound'
      BY <2>2, <3>2 DEF RepliesSound
    <3>4. \A k \in Clients : k # cl => p \notin held[k]
      BY DEF RepliesOnce
    <3> QED
      BY <2>2, <2>4, <3>1, <3>3, <3>4 DEF RepliesOnce
  <2> QED
    BY <2>1, <2>3, <2>4
<1>4. CASE Lose
  BY <1>4 DEF Lose, RepliesSound, RepliesOnce, RepliesLeft, clientVars, serverVars
<1>5. ASSUME NEW p \in replying, SendReply(p) PROVE RepliesSound' /\ RepliesOnce'
  <2>1. /\ replying' = replying \ {p}
        /\ toClient' = toClient \union {p} \/ toClient' = toClient
        /\ completed' = completed /\ held' = held /\ verdict' = verdict
    BY <1>5 DEF SendReply, clientVars
  <2>2. RepliesLeft' \subseteq RepliesLeft
    BY <2>1 DEF RepliesLeft
  <2> QED
    BY <2>1, <2>2 DEF RepliesSound, RepliesOnce
<1>6. ASSUME NEW r \in running, Reject(r) \/ Execute(r) PROVE RepliesSound' /\ RepliesOnce'
  <2>1. PICK v \in Verdicts \ {"none"} : /\ verdict' = [verdict EXCEPT ![r.id] = v]
                                        /\ replying' = replying \union Replies(r, v)
    BY <1>6 DEF Reject, Execute, Verdicts
  <2>2. /\ toClient' = toClient /\ completed' = completed /\ held' = held
    BY <1>6 DEF Reject, Execute, netVars, clientVars
  <2>3. r \in Requests /\ r \in Request /\ verdict[r.id] = "none" /\ r.from = Owner[r.id[1]]
    BY DEF Requests, RequestsSound, TypeOK
  <2>4. \A q \in RepliesLeft : q.id # r.id
    BY <2>3 DEF RepliesSound
  <2>5. \A q \in Replies(r, v) :
          /\ q.id = r.id /\ q.to = r.from /\ q.body = r.id
          /\ q.kind = "ok" <=> v = "ok"
    BY DEF Replies, ReplyTo
  <2>6. RepliesLeft' = RepliesLeft \union Replies(r, v)
    BY <2>1, <2>2 DEF RepliesLeft
  <2>7. verdict'[r.id] = v /\ \A q \in RepliesLeft : verdict'[q.id] = verdict[q.id]
    BY <2>1, <2>3, <2>4, ReplyIsTyped DEF TypeOK, Request
  <2>8. RepliesSound'
    BY <2>3, <2>5, <2>6, <2>7 DEF RepliesSound
  <2>9. Replies(r, v) \intersect RepliesLeft = {}
    BY <2>4, <2>5
  <2> QED
    BY <2>1, <2>2, <2>8, <2>9 DEF RepliesOnce, RepliesLeft
<1> QED
  BY <1>1, <1>2, <1>3, <1>4, <1>5, <1>6, ReplyCases
-----------------------------------------------------------------------------
\* A handler runs for an id at most once, and only for an id in use.
LEMMA RunsStep == ASSUME TypeOK, IInv, [Next]_vars PROVE RunsSound'
<1> USE DEF IInv
<1>1. CASE \E r \in running : Reject(r) \/ Execute(r)
  <2>1. PICK r \in running, v \in Verdicts \ {"none"} :
          /\ verdict' = [verdict EXCEPT ![r.id] = v]
          /\ runs' = runs \/ runs' = [runs EXCEPT ![r.id] = @ + 1]
    BY <1>1 DEF Reject, Execute, Verdicts
  <2>2. r.id \in MsgId /\ verdict[r.id] = "none" /\ Used(r.id)
    BY DEF Requests, RequestsSound, TypeOK, Request
  <2>3. ASSUME NEW m \in MsgId, m # r.id PROVE runs'[m] = runs[m] /\ verdict'[m] = verdict[m]
    BY <2>1, <2>3 DEF TypeOK
  <2>4. verdict'[r.id] = v /\ runs'[r.id] <= 1
    BY <2>1, <2>2 DEF TypeOK, RunsSound
  <2> QED
    BY <2>2, <2>3, <2>4, UsedStays DEF RunsSound
<1>2. CASE UNCHANGED <<runs, verdict>>
  BY <1>2, UsedStays DEF RunsSound
<1>3. UNCHANGED <<runs, verdict>> \/ \E r \in running : Reject(r) \/ Execute(r)
  BY DEF Next, CallStep, Receive, Serve, Task, Begin, Send, Await, Leave, Expire, CheckCancelled,
         Take, PollTimeout, Deliver, CloseClient, FinishCloseClient, ServeCheckCancelled, ServeRecv,
         ServePollTimeout, ServeSubmit, SendReply, CloseServer, FinishCloseServer, Lose,
         vars, serverVars
<1> QED
  BY <1>1, <1>2, <1>3

\* A verdict, once given, stands.
LEMMA VerdictStays ==
  ASSUME TypeOK, IInv, [Next]_vars, NEW m \in MsgId, verdict[m] # "none"
  PROVE  verdict'[m] = verdict[m]
<1>1. CASE \E r \in running : Reject(r) \/ Execute(r)
  <2>1. PICK r \in running, v \in Verdicts : verdict' = [verdict EXCEPT ![r.id] = v]
    BY <1>1 DEF Reject, Execute, Verdicts
  <2>2. verdict[r.id] = "none"
    BY DEF IInv, Requests, RequestsSound
  <2> QED
    BY <2>1, <2>2 DEF TypeOK
<1>2. CASE KeepsRequests
  BY <1>2 DEF KeepsRequests
<1>3. CASE (\E c \in Calls : Send(c)) \/ ServeRecv \/ ServeSubmit \/ Lose
  BY <1>3 DEF Send, ServeRecv, ServeSubmit, Lose, serverVars
<1> QED
  BY <1>1, <1>2, <1>3, RequestCases

\* What a call is told is about the attempt it made.
LEMMA AnswerStep == ASSUME TypeOK, IInv, [Next]_vars PROVE AnswerMatchesCall'
<1> USE DEF IInv
<1>1. ctxDone \in [Calls -> BOOLEAN] /\ \A c \in Calls : ctxDone[c] => ctxDone'[c]
  BY DEF TypeOK, Next, CallStep, Receive, Serve, Task, Begin, Send, Await, Leave, Expire,
         CheckCancelled, Take, PollTimeout, Deliver, CloseClient, FinishCloseClient,
         ServeCheckCancelled, ServeRecv, ServePollTimeout, ServeSubmit, Reject, Execute, SendReply,
         CloseServer, FinishCloseServer, Lose, vars, callVars
<1>2. \A c \in Calls : outcome[c].body \in MsgId
  BY DEF TypeOK
<1>3. ASSUME NEW c \in Calls, UNCHANGED <<outcome, attempt>> PROVE AnswerMatchesCall'
  BY <1>1, <1>2, <1>3, VerdictStays DEF AnswerMatchesCall
<1>4. CASE OtherStep
  <2>1. UNCHANGED <<outcome, attempt>>
    BY <1>4, OtherStepKeepsCalls
  <2> QED
    BY <1>1, <1>2, <2>1, VerdictStays DEF AnswerMatchesCall
<1>5. ASSUME NEW c \in Calls, NEW k \in Outcomes \ {"ok", "remote"}, NEW m \in MsgId,
             Return(c, k, m), k = "ctx" => ctxDone[c], attempt' = attempt
      PROVE  AnswerMatchesCall'
  <2>1. \A d \in Calls : d # c => outcome'[d] = outcome[d]
    BY <1>5 DEF Return, TypeOK
  <2>2. outcome'[c] = [kind |-> k, body |-> m]
    BY <1>5 DEF Return, TypeOK
  <2> QED
    BY <1>1, <1>2, <1>5, <2>1, <2>2, VerdictStays DEF AnswerMatchesCall
<1>6. ASSUME NEW c \in Calls, Begin(c) \/ Send(c) PROVE AnswerMatchesCall'
  <2>1. Id(c) \in MsgId
    BY IdType
  <2>2. CASE UNCHANGED outcome
    BY <1>3, <1>6, <2>2 DEF Begin, Send
  <2>3. CASE \E k \in {"closed", "marshal", "send"} : Return(c, k, Id(c))
    BY <1>5, <1>6, <2>1, <2>3 DEF Begin, Send, Outcomes
  <2> QED
    BY <1>6, <2>2, <2>3 DEF Begin, Send
<1>7. ASSUME NEW c \in Calls, Await(c) PROVE AnswerMatchesCall'
  <2>0. attempt' = attempt /\ Id(c) \in MsgId
    BY <1>7, IdType DEF Await
  <2>1. CASE ctxDone[c] /\ Return(c, "ctx", Id(c))
    BY <1>5, <2>0, <2>1 DEF Outcomes
  <2>2. ASSUME NEW p \in completed, p.id = Id(c), NEW k \in {"ok", "remote", "decode"},
               Return(c, k, p.body), (p.kind = "ok") <=> (k # "remote")
        PROVE  AnswerMatchesCall'
    <3>1. p.body = p.id /\ p.body \in MsgId /\ verdict[p.id] # "none" /\ (p.kind = "ok" <=> verdict[p.id] = "ok")
      BY ReplyIsTyped DEF RepliesLeft, RepliesSound
    <3>2. p.body = <<c, attempt[c]>>
      BY <2>2, <3>1 DEF Id
    <3>3. verdict'[p.body] = verdict[p.body] /\ verdict[p.body] \in Verdicts
      BY <3>1, VerdictStays DEF TypeOK
    <3>4. outcome'[c] = [kind |-> k, body |-> p.body] /\ \A d \in Calls : d # c => outcome'[d] = outcome[d]
      BY <2>2 DEF Return, TypeOK
    <3> QED
      BY <1>1, <1>2, <2>0, <2>2, <3>1, <3>2, <3>3, <3>4, VerdictStays DEF AnswerMatchesCall, Verdicts
  <2> QED
    BY <1>7, <2>1, <2>2 DEF Await, CtxReady
<1>8. ASSUME NEW c \in Calls, Leave(c) PROVE AnswerMatchesCall'
  <2>1. outcome' = outcome /\ \A d \in Calls : attempt'[d] = attempt[d] \/ outcome[d].kind # "ok"
    BY <1>8 DEF Leave, TypeOK
  <2> QED
    BY <1>1, <1>2, <2>1, VerdictStays DEF AnswerMatchesCall
<1> QED
  BY <1>4, <1>6, <1>7, <1>8, StepCases

\* No future is completed twice.
LEMMA ReceiverStep == ASSUME TypeOK, IInv, [Next]_vars PROVE NoReceiverCrash'
<1> USE DEF IInv
<1>1. ASSUME NEW cl \in Clients, Deliver(cl) PROVE NoReceiverCrash'
  <2>1. PICK p \in held[cl] : IF \E q \in completed : q.id = p.id
                             THEN ToReceiver(cl, "crashed")
                             ELSE ToReceiver(cl, "loop")
    BY <1>1 DEF Deliver
  <2>2. p \notin completed /\ p \in RepliesLeft
    BY DEF RepliesOnce, RepliesLeft
  <2>3. \A q \in completed : q.id # p.id
    BY <2>2, ReplyById DEF RepliesLeft
  <2> QED
    BY <2>1, <2>3 DEF ToReceiver, NoReceiverCrash, TypeOK
<1>2. ASSUME NEW cl \in Clients, CheckCancelled(cl) \/ Take(cl) \/ PollTimeout(cl)
      PROVE  NoReceiverCrash'
  BY <1>2 DEF CheckCancelled, LoopHead, Take, PollTimeout, ToReceiver, NoReceiverCrash, TypeOK
<1>3. CASE UNCHANGED receiver
  BY <1>3 DEF NoReceiverCrash
<1>4. UNCHANGED receiver \/ \E cl \in Clients : Receive(cl)
  BY DEF Next, CallStep, Serve, Task, Begin, Send, Await, Leave, Expire, CloseClient,
         FinishCloseClient, ServeCheckCancelled, ServeRecv, ServePollTimeout, ServeSubmit, Reject,
         Execute, SendReply, CloseServer, FinishCloseServer, Lose, vars, clientVars
<1> QED
  BY <1>1, <1>2, <1>3, <1>4 DEF Receive
-----------------------------------------------------------------------------
\* Requests and replies are in one place at a time and belong to the call whose
\* id they carry, in every execution.  IInv is what is inductive: without the
\* single place of each reply, a step of Deliver could not be shown to find its
\* future open.
THEOREM SinglePlace == Spec => []IInv
<1>1. Init => IInv
  BY DEF Init, IInv, RequestsSound, RequestsOnce, RepliesSound, RepliesOnce, RunsSound,
         Requests, RepliesLeft, AnswerMatchesCall, NoReceiverCrash
<1>2. TypeOK /\ IInv /\ [Next]_vars => IInv'
  BY RequestsStep, RepliesStep, RunsStep, AnswerStep, ReceiverStep DEF IInv
<1> QED
  BY <1>1, <1>2, TypeCorrect, PTL DEF Spec

\* Client.Call never mistakes another call's or an earlier attempt's reply for
\* its own, for any number of concurrent calls, clients and retries.
THEOREM AnswersMatch == Spec => []AnswerMatchesCall
<1>1. IInv => AnswerMatchesCall
  BY DEF IInv
<1> QED
  BY <1>1, SinglePlace, PTL

\* handleResponse never closes a future's channel twice, so that no receive
\* goroutine ends the client process.
THEOREM ReceiversSurvive == Spec => []NoReceiverCrash
<1>1. IInv => NoReceiverCrash
  BY DEF IInv
<1> QED
  BY <1>1, SinglePlace, PTL

\* The server runs the method at most once for each packet id.
THEOREM RunsOnce == Spec => []AtMostOnce
<1>1. IInv => AtMostOnce
  BY DEF IInv, RunsSound, AtMostOnce
<1> QED
  BY <1>1, SinglePlace, PTL
-----------------------------------------------------------------------------
\* The steps of the contract that the calling goroutine takes.
LEMMA CallKeepsContract ==
  ASSUME TypeOK, IInv, NEW c \in Calls, CallStep(c)
  PROVE  [Contract!ContractNext]_(Contract!contractVars)
<1> USE DEF Contract!contractVars
<1>1. UNCHANGED <<ranBar, goodBar>>
  BY DEF CallStep, Begin, Send, Await, Leave, ranBar, goodBar, serverVars
<1>2. attempt[c] \in Nat /\ Retry \in Nat /\ attempt[c] <= Retry
  BY Constants DEF TypeOK, ConstantFacts
<1>3. CASE Begin(c)
  <2>1. attempt' = attempt /\ answerBar' = answerBar
    BY <1>3 DEF Begin, Return, answerBar, TypeOK
  <2>2. phaseBar' = [phaseBar EXCEPT ![c] = "trying"]
    BY <1>3, <2>1 DEF Begin, Return, phaseBar, TypeOK
  <2>3. CASE attempt[c] = 0
    <3>1. phaseBar[c] = "idle"
      BY <1>3, <2>3 DEF Begin, phaseBar
    <3> QED
      BY <1>1, <2>1, <2>2, <3>1 DEF Contract!ContractNext, Contract!Enter
  <2>4. CASE attempt[c] # 0
    <3>1. phaseBar' = phaseBar
      BY <1>3, <2>1, <2>4 DEF Begin, Return, phaseBar, TypeOK
    <3> QED
      BY <1>1, <2>1, <3>1
  <2> QED
    BY <2>3, <2>4
<1>4. CASE Send(c) \/ Await(c)
  <2>1. /\ attempt' = attempt
        /\ \A d \in Calls : pc'[d] = pc[d] \/ {pc[d], pc'[d]} \subseteq {"send", "wait", "leave"}
        /\ \A d \in Calls : outcome'[d] = outcome[d] \/ pc'[d] # "done"
    BY <1>4 DEF Send, Await, Return, TypeOK
  <2>2. phaseBar' = phaseBar
    BY <2>1 DEF phaseBar
  <2>3. answerBar' = answerBar
    BY <2>1 DEF answerBar
  <2> QED
    BY <1>1, <2>1, <2>2, <2>3
<1>5. CASE Leave(c)
  <2>1. pc[c] = "leave" /\ outcome' = outcome /\ phaseBar[c] = "trying"
    BY <1>5 DEF Leave, phaseBar
  <2>2. CASE attempt[c] < Retry /\ attempt' = [attempt EXCEPT ![c] = @ + 1]
                                /\ pc' = [pc EXCEPT ![c] = "begin"]
    <3>1. phaseBar' = phaseBar
      BY <1>2, <2>1, <2>2 DEF phaseBar, TypeOK
    <3>2. answerBar' = answerBar
      BY <2>1, <2>2 DEF answerBar, TypeOK
    <3> QED
      BY <1>1, <2>1, <2>2, <3>1, <3>2 DEF Contract!ContractNext, Contract!TryAgain
  <2>3. CASE /\ outcome[c].kind = "ok" \/ attempt[c] = Retry
             /\ pc' = [pc EXCEPT ![c] = "done"] /\ attempt' = attempt
    <3>1. phaseBar' = [phaseBar EXCEPT ![c] = "returned"]
      BY <2>3 DEF phaseBar, TypeOK
    <3>2. CASE outcome[c].kind = "ok"
      <4>1. answerBar' = [answerBar EXCEPT ![c] = "ok"]
        BY <2>1, <2>3, <3>2 DEF answerBar, TypeOK
      <4>2. <<c, attempt[c]>> \in goodBar
        BY <1>2, <3>2 DEF IInv, AnswerMatchesCall, goodBar, MsgId, TypeOK
      <4> QED
        BY <1>1, <2>1, <2>3, <3>1, <4>1, <4>2 DEF Contract!ContractNext, Contract!ReturnOk
    <3>3. CASE outcome[c].kind # "ok"
      <4>1. answerBar' = [answerBar EXCEPT ![c] = "error"]
        BY <2>1, <2>3, <3>3 DEF answerBar, TypeOK
      <4> QED
        BY <1>1, <2>1, <2>3, <3>1, <3>3, <4>1 DEF Contract!ContractNext, Contract!ReturnError
    <3> QED
      BY <3>2, <3>3
  <2> QED
    BY <1>2, <1>5, <2>2, <2>3 DEF Leave, TriesLeft
<1> QED
  BY <1>3, <1>4, <1>5 DEF CallStep

\* A pool task either runs the method, which the contract allows once for each
\* attempt, or leaves the contract's state alone; so does every other step.
LEMMA OtherKeepsContract ==
  ASSUME TypeOK, IInv, OtherStep
  PROVE  [Contract!ContractNext]_(Contract!contractVars)
<1> USE DEF Contract!contractVars
<1>1. attempt' = attempt /\ phaseBar' = phaseBar /\ answerBar' = answerBar
  BY OtherStepKeepsCalls DEF phaseBar, answerBar
<1>2. CASE \E r \in running : Execute(r)
  <2>1. PICK r \in running, v \in Verdicts \ {"none"} :
          /\ verdict' = [verdict EXCEPT ![r.id] = v]
          /\ runs' = [runs EXCEPT ![r.id] = @ + 1]
    BY <1>2 DEF Execute, Verdicts
  <2>2. r.id \in MsgId /\ verdict[r.id] = "none" /\ runs[r.id] = 0 /\ Used(r.id)
    BY DEF IInv, Requests, RequestsSound, RunsSound, TypeOK, Request
  <2>3. PICK c \in Calls, i \in 0..Retry : r.id = <<c, i>>
    BY <2>2 DEF MsgId
  <2>4. i <= attempt[c] /\ phaseBar[c] # "idle"
    BY <2>2, <2>3, Constants DEF Used, phaseBar, TypeOK, ConstantFacts
  <2>5. \A m \in MsgId : /\ runs'[m] = IF m = r.id THEN 1 ELSE runs[m]
                         /\ verdict'[m] = IF m = r.id THEN v ELSE verdict[m]
    BY <2>1, <2>2 DEF TypeOK
  <2>6. r.id \notin ranBar /\ ranBar' = ranBar \union {r.id}
    BY <2>2, <2>5 DEF ranBar
  <2>7. goodBar' \in {goodBar, goodBar \union {r.id}}
    <3>1. CASE v = "ok"
      BY <2>2, <2>5, <3>1 DEF goodBar
    <3>2. CASE v # "ok"
      BY <2>2, <2>5, <3>2 DEF goodBar
    <3> QED
      BY <3>1, <3>2
  <2> QED
    BY <1>1, <2>3, <2>4, <2>6, <2>7 DEF Contract!ContractNext, Contract!Run
<1>3. CASE \E r \in running : Reject(r)
  <2>1. PICK r \in running : verdict' = [verdict EXCEPT ![r.id] = "reject"] /\ runs' = runs
    BY <1>3 DEF Reject
  <2>2. r.id \in MsgId /\ verdict[r.id] = "none"
    BY DEF IInv, Requests, RequestsSound, TypeOK, Request
  <2>3. ranBar' = ranBar /\ goodBar' = goodBar
    BY <2>1, <2>2 DEF ranBar, goodBar, TypeOK
  <2> QED
    BY <1>1, <2>3
<1>4. CASE UNCHANGED <<runs, verdict>>
  BY <1>1, <1>4 DEF ranBar, goodBar
<1>5. UNCHANGED <<runs, verdict>> \/ \E r \in running : Reject(r) \/ Execute(r)
  BY DEF OtherStep, Receive, Serve, Task, Expire, CheckCancelled, Take, PollTimeout, Deliver,
         CloseClient, FinishCloseClient, ServeCheckCancelled, ServeRecv, ServePollTimeout,
         ServeSubmit, SendReply, CloseServer, FinishCloseServer, Lose, vars, serverVars
<1> QED
  BY <1>2, <1>3, <1>4, <1>5

\* The unary path implements RpcContract: whatever the network, the closes and
\* the interleaving of the goroutines, a proxy call makes at most Retry + 1
\* attempts, each of them run at most once, and reports success only for the
\* run of the attempt it returns from.
THEOREM ContractKept == Spec => KeepsContract
<1>1. Init => Contract!ContractInit
  BY DEF Init, Contract!ContractInit, phaseBar, ranBar, goodBar, answerBar, MsgId
<1>2. TypeOK /\ IInv /\ [Next]_vars => [Contract!ContractNext]_(Contract!contractVars)
  BY StepCases, CallKeepsContract, OtherKeepsContract DEF CallStep
<1> QED
  BY <1>1, <1>2, TypeCorrect, SinglePlace, PTL DEF Spec, KeepsContract, Contract!ContractSpec
-----------------------------------------------------------------------------
\* The goroutine that polls a socket has ended before the socket is closed.
Quiet ==
  /\ \A cl \in Clients : client[cl] = "closed" => receiver[cl] = "exited"
  /\ server = "closed" => serve = "exited"

LEMMA QuietStep == ASSUME TypeOK, Quiet, [Next]_vars PROVE Quiet'
<1>1. ASSUME NEW cl \in Clients, Receive(cl) PROVE Quiet'
  <2>1. /\ receiver[cl] # "exited" /\ UNCHANGED <<client, serve, server>>
        /\ \A k \in Clients : k # cl => receiver'[k] = receiver[k]
    BY <1>1 DEF Receive, CheckCancelled, Take, PollTimeout, Deliver, ToReceiver, serverVars, TypeOK
  <2> QED
    BY <2>1 DEF Quiet
<1>2. ASSUME NEW cl \in Clients, CloseClient(cl) \/ FinishCloseClient(cl) PROVE Quiet'
  BY <1>2 DEF CloseClient, FinishCloseClient, ReceiverGone, Quiet, TypeOK, serverVars
<1>3. CASE Serve \/ CloseServer \/ FinishCloseServer
  BY <1>3 DEF Serve, ServeCheckCancelled, ServeRecv, ServePollTimeout, ServeSubmit, CloseServer,
              FinishCloseServer, ServeGone, Quiet, clientVars
<1>4. CASE UNCHANGED <<client, receiver, serve, server>>
  BY <1>4 DEF Quiet
<1>5. \/ UNCHANGED <<client, receiver, serve, server>>
      \/ Serve \/ CloseServer \/ FinishCloseServer
      \/ \E cl \in Clients : Receive(cl) \/ CloseClient(cl) \/ FinishCloseClient(cl)
  BY DEF Next, CallStep, Task, Begin, Send, Await, Leave, Expire, Reject, Execute, SendReply, Lose,
         vars, clientVars, serverVars
<1> QED
  BY <1>1, <1>2, <1>3, <1>4, <1>5

\* Close never closes a socket under the goroutine that receives from it, on
\* either side.
THEOREM SocketsQuiet == Spec => []SocketQuietWhenClosed
<1>1. Init => Quiet
  BY DEF Init, Quiet
<1>2. Quiet => SocketQuietWhenClosed
  BY DEF Quiet, SocketQuietWhenClosed
<1> QED
  BY <1>1, <1>2, QuietStep, TypeCorrect, PTL DEF Spec
-----------------------------------------------------------------------------
\* The pending maps, told call by call.
PendingByCall ==
  /\ \A m \in pending : m[1] \in Calls /\ m = Id(m[1]) /\ pc[m[1]] \in {"send", "wait", "leave"}
  /\ \A c \in Calls : pc[c] \in {"send", "wait"} => Id(c) \in pending

LEMMA PendingStep == ASSUME TypeOK, PendingByCall, [Next]_vars PROVE PendingByCall'
<1> USE DEF PendingByCall, Id
<1>1. ASSUME NEW c \in Calls, Begin(c) PROVE PendingByCall'
  <2>1. attempt' = attempt /\ pc[c] = "begin"
    BY <1>1 DEF Begin
  <2>2. CASE pending' = pending \union {Id(c)} /\ pc' = [pc EXCEPT ![c] = "send"]
    BY <2>1, <2>2 DEF TypeOK
  <2>3. CASE pending' = pending /\ pc' = [pc EXCEPT ![c] = "leave"]
    BY <2>1, <2>3 DEF TypeOK
  <2> QED
    BY <1>1, <2>2, <2>3 DEF Begin, Registered, Return
<1>2. ASSUME NEW c \in Calls, Send(c) \/ Await(c) PROVE PendingByCall'
  <2>1. /\ attempt' = attempt /\ pending' = pending
        /\ \/ pc[c] = "send" /\ pc' = [pc EXCEPT ![c] = "wait"]
           \/ pc[c] \in {"send", "wait"} /\ pc' = [pc EXCEPT ![c] = "leave"]
    BY <1>2 DEF Send, Await, Return, clientVars
  <2> QED
    BY <2>1 DEF TypeOK
<1>3. ASSUME NEW c \in Calls, Leave(c) PROVE PendingByCall'
  <2>1. /\ pending' = pending \ {<<c, attempt[c]>>} /\ pc[c] = "leave"
        /\ \A d \in Calls \ {c} : pc'[d] = pc[d] /\ attempt'[d] = attempt[d]
        /\ pc'[c] \in {"begin", "done"}
    BY <1>3 DEF Leave, Unregistered, TypeOK
  <2>2. \A m \in pending' : m[1] \in Calls \ {c}
    BY <2>1
  <2> QED
    BY <2>1, <2>2
<1>4. CASE OtherStep
  <2>1. UNCHANGED <<pc, attempt>> /\ pending' = pending
    BY <1>4, OtherStepKeepsCalls
    DEF OtherStep, Expire, Receive, CheckCancelled, Take, PollTimeout, Deliver, CloseClient,
        FinishCloseClient, Serve, ServeCheckCancelled, ServeRecv, ServePollTimeout, ServeSubmit,
        Task, Reject, Execute, SendReply, CloseServer, FinishCloseServer, Lose, vars, clientVars
  <2> QED
    BY <2>1
<1> QED
  BY <1>1, <1>2, <1>3, <1>4, StepCases

\* No entry of a pending map outlives its call, on any way out of Client.Call,
\* and a call that sends or waits has its entry.
THEOREM PendingExact == Spec => []PendingMatchesCalls
<1>1. Init => PendingByCall
  BY DEF Init, PendingByCall
<1>2. PendingByCall => PendingMatchesCalls
  BY DEF PendingByCall, PendingMatchesCalls
<1> QED
  BY <1>1, <1>2, PendingStep, TypeCorrect, PTL DEF Spec
-----------------------------------------------------------------------------
\* serve and the receivers hold a packet only where the code says they do, and
\* a receiver holds one.
HandsBusy ==
  /\ hand # {} => serve = "submit"
  /\ \A cl \in Clients :
       held[cl] # {} => receiver[cl] \in {"deliver", "crashed"} /\ \E p \in Reply : held[cl] = {p}

LEMMA HandsBusyStep == ASSUME TypeOK, HandsBusy, [Next]_vars PROVE HandsBusy'
<1>1. ASSUME NEW cl \in Clients, Receive(cl) PROVE HandsBusy'
  <2>1. /\ hand' = hand /\ serve' = serve
        /\ \A k \in Clients \ {cl} : held'[k] = held[k] /\ receiver'[k] = receiver[k]
    BY <1>1 DEF Receive, CheckCancelled, Take, PollTimeout, Deliver, ToReceiver, serverVars, TypeOK
  <2>2. held'[cl] # {} => receiver'[cl] \in {"deliver", "crashed"} /\ \E p \in Reply : held'[cl] = {p}
    <3>1. CASE CheckCancelled(cl) \/ PollTimeout(cl)
      BY <3>1 DEF CheckCancelled, PollTimeout, ToReceiver, HandsBusy, TypeOK
    <3>2. CASE Take(cl)
      BY <3>2 DEF Take, ToReceiver, HandsBusy, TypeOK
    <3>3. CASE Deliver(cl)
      BY <3>3 DEF Deliver, ToReceiver, HandsBusy, TypeOK
    <3> QED
      BY <1>1, <3>1, <3>2, <3>3 DEF Receive
  <2> QED
    BY <2>1, <2>2 DEF HandsBusy
<1>2. CASE Serve
  BY <1>2 DEF Serve, ServeCheckCancelled, ServeRecv, ServePollTimeout, ServeSubmit, HandsBusy, clientVars
<1>3. CASE UNCHANGED <<hand, serve, held, receiver>>
  BY <1>3 DEF HandsBusy
<1>4. UNCHANGED <<hand, serve, held, receiver>> \/ Serve \/ \E cl \in Clients : Receive(cl)
  BY DEF Next, CallStep, Task, Begin, Send, Await, Leave, Expire, Reject, Execute, SendReply, Lose,
         CloseClient, FinishCloseClient, CloseServer, FinishCloseServer, vars, clientVars, serverVars
<1> QED
  BY <1>1, <1>2, <1>3, <1>4

\* The server's steps hand a request on, and a task answers it.
LEMMA RequestMoves ==
  ASSUME TypeOK, HandsBusy, Recovery, ~Lossy, [Next]_vars, NEW r \in Requests
  PROVE  UnderWay(r.id)'
<1>1. CASE r \in Requests'
  BY <1>1 DEF UnderWay
<1>2. CASE r \notin Requests'
  <2>1. PICK t \in running : Reject(t) \/ Execute(t)
    <3>1. CASE ServeRecv
      BY <1>2, <3>1 DEF ServeRecv, HandsBusy, Requests
    <3>2. CASE ServeSubmit
      BY <1>2, <3>2 DEF ServeSubmit, Requests, netVars
    <3>3. CASE KeepsRequests \/ \E c \in Calls : Send(c)
      BY <1>2, <3>3 DEF KeepsRequests, Send, Requests, serverVars
    <3> QED
      BY <3>1, <3>2, <3>3, RequestCases DEF Lose
  <2>2. t = r
    BY <1>2, <2>1 DEF Reject, Execute, Requests, netVars
  <2>3. PICK v : ReplyTo(r, v) \in replying'
    BY <2>1, <2>2 DEF Reject, Execute, Replies
  <2>4. ReplyTo(r, v).id = r.id
    BY DEF ReplyTo
  <2> QED
    BY <2>3, <2>4 DEF UnderWay, RepliesLeft
<1> QED
  BY <1>1, <1>2

\* A reply is carried on as long as its call is registered and the sockets it
\* needs are open.
LEMMA ReplyMoves ==
  ASSUME TypeOK, HandsBusy, ~Lossy, [Next]_vars, NEW p \in RepliesLeft,
         p.id \in pending, client[p.to] # "closed", server # "closed"
  PROVE  UnderWay(p.id)'
<1>1. CASE KeepsReplies
  BY <1>1 DEF KeepsReplies, UnderWay, RepliesLeft
<1>2. ASSUME NEW cl \in Clients, Take(cl) PROVE p \in RepliesLeft'
  <2>1. held' \in [Clients -> SUBSET Reply]
    BY <1>2 DEF Take, TypeOK
  <2>2. held[cl] = {}
    BY <1>2 DEF Take, HandsBusy
  <2>3. \A k \in Clients : held[k] \subseteq held'[k]
    BY <1>2, <2>2 DEF Take, TypeOK
  <2>4. p \in toClient => p \in toClient' \/ p \in held'[cl]
    BY <1>2 DEF Take, TypeOK
  <2> QED
    BY <1>2, <2>3, <2>4 DEF Take, RepliesLeft, serverVars
<1>3. ASSUME NEW cl \in Clients, Deliver(cl) PROVE p \in RepliesLeft'
  <2>1. PICK q \in held[cl] :
          \/ UNCHANGED <<completed, held>>
          \/ completed' = completed \union {q} /\ held' = [held EXCEPT ![cl] = {}]
    BY <1>3 DEF Deliver
  <2>2. \A k \in Clients : held[k] \subseteq held'[k] \/ held[k] = {q}
    BY <2>1 DEF HandsBusy, TypeOK
  <2>3. \A k \in Clients : held[k] \subseteq held'[k] \/ q \in completed'
    BY <2>1 DEF TypeOK
  <2>4. replying' = replying /\ toClient' = toClient /\ completed \subseteq completed'
    BY <1>3, <2>1 DEF Deliver, netVars, serverVars
  <2> QED
    BY <2>2, <2>3, <2>4 DEF RepliesLeft
<1>4. ASSUME NEW q \in replying, SendReply(q) PROVE p \in RepliesLeft'
  BY <1>4 DEF SendReply, RepliesLeft, clientVars
<1>5. ASSUME NEW r \in running, Reject(r) \/ Execute(r) PROVE p \in RepliesLeft'
  BY <1>5 DEF Reject, Execute, RepliesLeft, clientVars, netVars
<1> QED
  BY <1>1, <1>2, <1>3, <1>4, <1>5, ReplyCases DEF Lose, UnderWay

LEMMA UnderWayStep ==
  ASSUME TypeOK, IInv, PendingByCall, HandsBusy, AnswerUnderWay, [Next]_vars
  PROVE  AnswerUnderWay'
<1> SUFFICES ASSUME Recovery, ~Lossy, NEW c \in Calls, (pc[c] = "wait")',
                    (client[Owner[c]] # "closed")', (server # "closed")'
             PROVE  UnderWay(Id(c))'
  BY DEF AnswerUnderWay
<1>1. client[Owner[c]] # "closed" /\ server # "closed"
  <2>1. Owner[c] \in Clients
    BY Constants DEF ConstantFacts
  <2>2. client'[Owner[c]] = client[Owner[c]] \/ client[Owner[c]] \in {"open", "closing"}
    BY <2>1 DEF Next, CallStep, Receive, CheckCancelled, Take, PollTimeout, Deliver, Serve,
           ServeCheckCancelled, ServeRecv, ServePollTimeout, ServeSubmit, Task, Begin, Send, Await,
           Leave, Expire, Reject, Execute, SendReply, Lose, CloseClient, FinishCloseClient,
           CloseServer, FinishCloseServer, vars, clientVars, TypeOK
  <2>3. server' = server \/ server \in {"open", "closing"}
    BY DEF Next, CallStep, Receive, CheckCancelled, Take, PollTimeout, Deliver, Serve,
           ServeCheckCancelled, ServeRecv, ServePollTimeout, ServeSubmit, Task, Begin, Send, Await,
           Leave, Expire, Reject, Execute, SendReply, Lose, CloseClient, FinishCloseClient,
           CloseServer, FinishCloseServer, vars, serverVars
  <2> QED
    BY <2>2, <2>3
<1>2. CASE pc[c] = "wait" /\ Id(c)' = Id(c)
  <2>1. PICK x \in Requests \union RepliesLeft : x.id = Id(c)
    BY <1>1, <1>2 DEF AnswerUnderWay, UnderWay
  <2>2. CASE x \in Requests
    BY <1>2, <2>1, <2>2, RequestMoves
  <2>3. CASE x \in RepliesLeft
    <3>1. x.id \in pending
      BY <1>2, <2>1 DEF PendingByCall
    <3>2. x.to = Owner[c]
      BY <2>1, <2>3 DEF IInv, RepliesSound, Id
    <3> QED
      BY <1>1, <1>2, <2>1, <2>3, <3>1, <3>2, ReplyMoves
  <2> QED
    BY <2>1, <2>2, <2>3
<1>3. CASE ~(pc[c] = "wait" /\ Id(c)' = Id(c))
  <2>1. Send(c)
    <3>1. ~OtherStep
      BY <1>3, OtherStepKeepsCalls DEF Id
    <3>2. ASSUME NEW d \in Calls, Begin(d) \/ Await(d) \/ Leave(d) PROVE FALSE
      BY <1>3, <3>2 DEF Begin, Await, Leave, Return, Id, TypeOK
    <3>3. ASSUME NEW d \in Calls \ {c}, Send(d) PROVE FALSE
      BY <1>3, <3>3 DEF Send, Return, Id, TypeOK
    <3> QED
      BY <3>1, <3>2, <3>3, StepCases
  <2>2. [id |-> Id(c), from |-> Owner[c]] \in toServer' /\ Id(c)' = Id(c)
    BY <2>1 DEF Send, Return, Id, TypeOK
  <2> QED
    BY <2>2 DEF UnderWay, Requests
<1> QED
  BY <1>2, <1>3

\* While the network is sound and the sockets are open, a call that waits has
\* its request or its reply somewhere under way: the code drops neither.
THEOREM WaitIsAnswered == Spec => []AnswerUnderWay
<1>1. Init => PendingByCall /\ HandsBusy /\ AnswerUnderWay
  BY DEF Init, PendingByCall, HandsBusy, AnswerUnderWay
<1> QED
  BY <1>1, PendingStep, HandsBusyStep, UnderWayStep, TypeCorrect, SinglePlace, PTL DEF Spec
=============================================================================
