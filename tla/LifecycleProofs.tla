-------------------------- MODULE LifecycleProofs --------------------------
(***************************************************************************)
(* What holds of Lifecycle for any number of calls of Run and Close: whose *)
(* socket a serve loop polls, what Close leaves behind, and when the       *)
(* client's socket is closed.                                              *)
(***************************************************************************)
EXTENDS Lifecycle, TLAPS

\* What holds of the initial state's variables, type by type.
LEMMA TypeInit == Init => TypeOK
<1> SUFFICES ASSUME Init PROVE TypeOK
  OBVIOUS
<1>1. {running, cancelled, released, quitting, ended, connected} \subseteq BOOLEAN
  BY DEF Init
<1>2. transport \subseteq Runs /\ open \subseteq Runs /\ late \subseteq Runs
  BY DEF Init
<1>3. /\ run \in [Runs -> {"new", "refused", "binding", "bound", "failed", "set", "ran"}]
      /\ loop \in [Runs -> {"none", "head", "recv", "gone"}]
  BY DEF Init
<1>4. /\ close \in [Closes -> {"new", "refused", "cancelling", "waiting", "releasing", "closing", "done"}]
      /\ quit \in [Quits -> {"new", "refused", "cancelling", "waiting", "closing", "done"}]
  BY DEF Init
<1>5. /\ client \in {"new", "open", "failed"} /\ receiver \in {"none", "head", "recv", "gone"}
      /\ beater \in {"none", "select", "send", "gone"} /\ beat \in {"none", "asked", "task", "answered"}
  BY DEF Init
<1> QED
  BY <1>1, <1>2, <1>3, <1>4, <1>5 DEF TypeOK

\* What the steps of the client and the heartbeat's task leave alone.
LEMMA ClientLeavesServer ==
  ASSUME ClientStep \/ AnswerBeat
  PROVE  UNCHANGED serverVars
BY DEF ClientStep, AnswerBeat, Dial, DialFails, Receive, ReceiveCheck, ReceiveRecv, BeatTick,
       BeatSend, BeatExit, QuitSwap, QuitStep, QuitCancel, QuitWait, QuitClose

LEMMA ServerTypeStep ==
  ASSUME TypeOK, NEW g \in Runs, RunTest(g) \/ RunStep(g) \/ ServeStep(g)
  PROVE  TypeOK'
<1>1. CASE RunTest(g)
  BY <1>1 DEF TypeOK, RunTest, RunGoes, sockets, clientVars
<1>2. CASE Bind(g) \/ BindFails(g) \/ SetTransport(g)
  BY <1>2 DEF TypeOK, Bind, BindFails, SetTransport, RunGoes, flags, sockets, clientVars
<1>3. CASE StartServe(g)
  BY <1>3 DEF TypeOK, StartServe, RunGoes, flags, sockets, clientVars
<1>4. CASE ServeCheck(g) \/ ServeRecv(g)
  BY <1>4 DEF TypeOK, ServeCheck, ServeRecv, LoopGoes, flags, sockets, clientVars
<1> QED
  BY <1>1, <1>2, <1>3, <1>4 DEF RunStep, ServeStep

LEMMA CloseTypeStep ==
  ASSUME TypeOK, NEW k \in Closes, CloseTest(k) \/ CloseStep(k)
  PROVE  TypeOK'
<1>1. CASE CloseTest(k) \/ CloseCancel(k) \/ CloseWait(k) \/ CloseRelease(k)
  BY <1>1 DEF TypeOK, CloseTest, CloseCancel, CloseWait, CloseRelease, CloseGoes, flags, sockets,
              serves, clientVars
<1>2. CASE CloseTransport(k)
  BY <1>2 DEF TypeOK, CloseTransport, ClosesTransport, CloseGoes, flags, serves, clientVars
<1> QED
  BY <1>1, <1>2 DEF CloseStep

LEMMA ClientTypeStep ==
  ASSUME TypeOK, ClientStep \/ AnswerBeat
  PROVE  TypeOK'
<1>1. UNCHANGED <<running, cancelled, released, transport, open, run, loop, late, close>>
  BY ClientLeavesServer DEF serverVars, flags, sockets, serves
<1>2. CASE AnswerBeat
  BY <1>1, <1>2 DEF TypeOK, AnswerBeat, clientVars
<1>3. CASE Dial \/ DialFails \/ Receive \/ BeatTick \/ BeatSend \/ BeatExit
  BY <1>1, <1>3 DEF TypeOK, Dial, DialFails, Receive, ReceiveCheck, ReceiveRecv, BeatTick, BeatSend,
                    BeatExit
<1>4. ASSUME NEW q \in Quits, QuitSwap(q) \/ QuitStep(q) PROVE TypeOK'
  BY <1>1, <1>4 DEF TypeOK, QuitSwap, QuitStep, QuitCancel, QuitWait, QuitClose, QuitGoes
<1> QED
  BY <1>2, <1>3, <1>4 DEF ClientStep

LEMMA InvInit == Init => LInv
<1> SUFFICES ASSUME Init PROVE LInv
  OBVIOUS
<1>1. Waited = {}
  BY DEF Init, Waited
<1> QED
  BY <1>1, TypeInit DEF Init, LInv, LoopOwnsSocket, OneSocket, CloseStages, NotOvertaken

\* LInv beyond the types: what the steps of the server have to keep.
SInv == LoopOwnsSocket /\ OneSocket /\ CloseStages /\ NotOvertaken

\* What reads the server's variables only is kept where they are.
LEMMA SInvKept ==
  ASSUME SInv, UNCHANGED serverVars
  PROVE  SInv'
BY DEF SInv, LoopOwnsSocket, OneSocket, CloseStages, NotOvertaken, Waited, serverVars, flags,
       sockets, serves

LEMMA RunInv ==
  ASSUME TypeOK, SInv, NEW g \in Runs, RunTest(g) \/ RunStep(g)
  PROVE  SInv'
<1>1. Waited' = Waited /\ released' = released /\ cancelled' = cancelled /\ close' = close
  BY DEF Waited, RunTest, RunStep, Bind, BindFails, SetTransport, StartServe, flags
<1>2. \A h \in Runs \ {g} : run'[h] = run[h] /\ loop'[h] = loop[h]
  BY DEF TypeOK, RunTest, RunStep, Bind, BindFails, SetTransport, StartServe, RunGoes
<1>9. open \subseteq Runs /\ transport \subseteq Runs /\ late \subseteq Runs
  BY DEF TypeOK
<1>3. CASE RunTest(g) \/ BindFails(g)
  <2>1. UNCHANGED <<loop, late, open, transport>> /\ run[g] \in {"new", "binding"}
        /\ run'[g] \in {"binding", "refused", "failed"}
    BY <1>3 DEF RunTest, BindFails, RunGoes, sockets, TypeOK
  <2>5. LoopOwnsSocket'
    BY <1>1, <1>2, <1>9, <2>1 DEF SInv, LoopOwnsSocket
  <2>6. OneSocket'
    BY <1>1, <1>2, <1>9, <2>1 DEF SInv, OneSocket
  <2>7. CloseStages'
    BY <1>1, <1>2, <1>9, <2>1 DEF SInv, CloseStages
  <2>8. NotOvertaken'
    BY <1>1, <1>2, <1>9, <2>1 DEF SInv, NotOvertaken
  <2> QED
    BY <2>5, <2>6, <2>7, <2>8 DEF SInv
<1>4. CASE Bind(g)
  <2>1. /\ UNCHANGED <<loop, late, transport>> /\ run[g] = "binding" /\ run'[g] = "bound"
        /\ open = {} /\ open' = {g}
    BY <1>4 DEF Bind, AddressFree, RunGoes, TypeOK
  <2>5. LoopOwnsSocket'
    BY <1>1, <1>2, <1>9, <2>1 DEF SInv, LoopOwnsSocket
  <2>6. OneSocket'
    BY <1>1, <1>2, <1>9, <2>1 DEF SInv, OneSocket
  <2>7. CloseStages'
    BY <1>1, <1>2, <1>9, <2>1 DEF SInv, CloseStages
  <2>8. NotOvertaken'
    BY <1>1, <1>2, <1>9, <2>1 DEF SInv, NotOvertaken
  <2> QED
    BY <2>5, <2>6, <2>7, <2>8 DEF SInv
<1>5. CASE SetTransport(g)
  <2>1. /\ UNCHANGED <<loop, late, open>> /\ run[g] = "bound" /\ run'[g] = "set"
        /\ transport' = {g}
    BY <1>5 DEF SetTransport, RunGoes, TypeOK
  <2>2. g \in open /\ \A h \in open : h = g
    BY <2>1 DEF SInv, OneSocket
  <2>5. LoopOwnsSocket'
    BY <1>1, <1>2, <1>9, <2>1, <2>2 DEF SInv, LoopOwnsSocket
  <2>6. OneSocket'
    BY <1>1, <1>2, <1>9, <2>1, <2>2 DEF SInv, OneSocket
  <2>7. CloseStages'
    BY <1>1, <1>2, <1>9, <2>1, <2>2 DEF SInv, CloseStages
  <2>8. NotOvertaken'
    BY <1>1, <1>2, <1>9, <2>1, <2>2 DEF SInv, NotOvertaken
  <2> QED
    BY <2>5, <2>6, <2>7, <2>8 DEF SInv
<1>6. CASE StartServe(g)
  <2>1. /\ UNCHANGED <<open, transport>> /\ run[g] = "set" /\ run'[g] = "ran" /\ loop'[g] = "head"
        /\ late' = IF cancelled THEN late \union {g} ELSE late
    BY <1>6 DEF StartServe, RunGoes, sockets, TypeOK
  <2>2. ~cancelled => transport = {g} /\ g \in open /\ Waited = {}
    BY <2>1 DEF SInv, NotOvertaken, CloseStages
  <2>3. loop[g] = "none"
    BY <2>1 DEF SInv, CloseStages
  <2>4. LoopOwnsSocket' /\ OneSocket'
    BY <1>1, <1>2, <1>9, <2>1 DEF SInv, LoopOwnsSocket, OneSocket
  <2>5. CloseStages'
    BY <1>1, <1>2, <2>1, <2>3 DEF SInv, CloseStages, TypeOK
  <2>6. NotOvertaken'
    BY <1>1, <1>2, <2>1, <2>2 DEF SInv, NotOvertaken
  <2> QED
    BY <2>4, <2>5, <2>6 DEF SInv
<1> QED
  BY <1>3, <1>4, <1>5, <1>6 DEF RunStep

LEMMA ServeInv ==
  ASSUME TypeOK, SInv, NEW g \in Runs, ServeStep(g)
  PROVE  SInv'
<1>1. UNCHANGED <<Waited, released, cancelled, close, run, late, open, transport>>
  BY DEF Waited, ServeStep, ServeCheck, ServeRecv, flags, sockets
<1>2. \A h \in Runs \ {g} : loop'[h] = loop[h]
  BY DEF TypeOK, ServeStep, ServeCheck, ServeRecv, LoopGoes
<1>9. open \subseteq Runs /\ transport \subseteq Runs /\ late \subseteq Runs
  BY DEF TypeOK
<1>3. CASE ServeCheck(g)
  <2>1. loop[g] = "head" /\ loop'[g] = IF cancelled THEN "gone" ELSE "recv"
    BY <1>3 DEF ServeCheck, LoopGoes, TypeOK
  <2>2. ~cancelled => g \notin late /\ run[g] = "ran" /\ ~released /\ Waited = {}
    BY <2>1 DEF SInv, CloseStages
  <2>3. ~cancelled => transport = {g} /\ g \in open
    BY <2>1, <2>2 DEF SInv, NotOvertaken
  <2>5. LoopOwnsSocket'
    BY <1>1, <1>2, <1>9, <2>1, <2>2, <2>3 DEF SInv, LoopOwnsSocket
  <2>6. OneSocket'
    BY <1>1, <1>2, <1>9, <2>1, <2>2, <2>3 DEF SInv, OneSocket
  <2>7. CloseStages'
    BY <1>1, <1>2, <1>9, <2>1, <2>2, <2>3 DEF SInv, CloseStages
  <2>8. NotOvertaken'
    BY <1>1, <1>2, <1>9, <2>1, <2>2, <2>3 DEF SInv, NotOvertaken
  <2> QED
    BY <2>5, <2>6, <2>7, <2>8 DEF SInv
<1>4. CASE ServeRecv(g)
  <2>1. loop[g] = "recv" /\ loop'[g] = "head"
    BY <1>4 DEF ServeRecv, LoopGoes, TypeOK
  <2>5. LoopOwnsSocket'
    BY <1>1, <1>2, <1>9, <2>1 DEF SInv, LoopOwnsSocket
  <2>6. OneSocket'
    BY <1>1, <1>2, <1>9, <2>1 DEF SInv, OneSocket
  <2>7. CloseStages'
    BY <1>1, <1>2, <1>9, <2>1 DEF SInv, CloseStages
  <2>8. NotOvertaken'
    BY <1>1, <1>2, <1>9, <2>1 DEF SInv, NotOvertaken
  <2> QED
    BY <2>5, <2>6, <2>7, <2>8 DEF SInv
<1> QED
  BY <1>3, <1>4 DEF ServeStep

LEMMA CloseInv ==
  ASSUME TypeOK, SInv, NEW k \in Closes, CloseTest(k) \/ CloseStep(k)
  PROVE  SInv'
<1>1. UNCHANGED <<run, loop, late, transport>>
  BY DEF CloseTest, CloseStep, CloseCancel, CloseWait, CloseRelease, CloseTransport, sockets, serves
<1>2. \A j \in Closes \ {k} : close'[j] = close[j]
  BY DEF TypeOK, CloseTest, CloseStep, CloseCancel, CloseWait, CloseRelease, CloseTransport, CloseGoes
<1>3. CASE CloseTest(k) \/ CloseCancel(k)
  <2>1. /\ UNCHANGED <<released, open>> /\ close[k] \in {"new", "cancelling"}
        /\ close'[k] \in {"cancelling", "refused", "waiting"} /\ (cancelled => cancelled')
        /\ (close'[k] = "waiting" => cancelled')
    BY <1>3 DEF CloseTest, CloseCancel, CloseGoes, sockets, TypeOK
  <2>2. Waited' = Waited
    BY <1>2, <2>1 DEF Waited
  <2>3. CloseStages'
    BY <1>1, <1>2, <2>1, <2>2 DEF SInv, CloseStages
  <2> QED
    BY <1>1, <2>1, <2>2, <2>3 DEF SInv, LoopOwnsSocket, OneSocket, NotOvertaken
<1>4. CASE CloseWait(k)
  <2>1. /\ UNCHANGED <<released, open, cancelled>> /\ NoLoops
        /\ close[k] = "waiting" /\ close'[k] = "releasing"
    BY <1>4 DEF CloseWait, CloseGoes, flags, sockets, TypeOK
  <2>2. k \in Waited' /\ cancelled
    BY <2>1 DEF SInv, CloseStages, Waited
  <2>3. CloseStages'
    BY <1>1, <1>2, <2>1, <2>2 DEF SInv, CloseStages
  <2> QED
    BY <1>1, <2>1, <2>2, <2>3 DEF SInv, LoopOwnsSocket, OneSocket, NotOvertaken, NoLoops
<1>5. CASE CloseRelease(k) \/ CloseTransport(k)
  <2>1. /\ open' \subseteq open /\ cancelled' = cancelled /\ Waited' = Waited /\ k \in Waited
        /\ close[k] # "waiting" /\ close'[k] # "waiting"
        /\ \A g \in open \ open' : g \in transport
    BY <1>2, <1>5 DEF CloseRelease, CloseTransport, ClosesTransport, CloseGoes, flags, sockets, TypeOK, Waited
  <2>2. cancelled
    BY <2>1 DEF SInv, CloseStages
  <2>3. CloseStages'
    BY <1>1, <1>2, <2>1, <2>2 DEF SInv, CloseStages
  <2>4. \A g \in Runs : run[g] = "bound" => g \in open'
    BY <2>1 DEF SInv, OneSocket
  <2>5. OneSocket'
    BY <1>1, <2>1, <2>4 DEF SInv, OneSocket
  <2>6. LoopOwnsSocket' /\ NotOvertaken'
    BY <1>1, <2>1, <2>2 DEF SInv, LoopOwnsSocket, NotOvertaken
  <2> QED
    BY <2>3, <2>5, <2>6 DEF SInv
<1> QED
  BY <1>3, <1>4, <1>5 DEF CloseStep

LEMMA InvStep == LInv /\ [Next]_vars => LInv'
<1> SUFFICES ASSUME TypeOK, SInv, [Next]_vars PROVE TypeOK' /\ SInv'
  BY DEF LInv, SInv
<1>1. CASE UNCHANGED vars
  <2>1. TypeOK'
    BY <1>1 DEF TypeOK, vars, serverVars, flags, sockets, serves, clientVars
  <2> QED
    BY <1>1, <2>1, SInvKept DEF vars
<1>2. CASE ClientStep \/ AnswerBeat
  BY <1>2, ClientTypeStep, ClientLeavesServer, SInvKept
<1>3. ASSUME NEW g \in Runs, RunTest(g) \/ RunStep(g) \/ ServeStep(g) PROVE TypeOK' /\ SInv'
  BY <1>3, ServerTypeStep, RunInv, ServeInv
<1>4. ASSUME NEW k \in Closes, CloseTest(k) \/ CloseStep(k) PROVE TypeOK' /\ SInv'
  BY <1>4, CloseTypeStep, CloseInv
<1> QED
  BY <1>1, <1>2, <1>3, <1>4 DEF Next, ServerStep

\* The invariant, and in it that a serve loop in Recv polls its own open socket,
\* however the calls of Run and Close are timed.
THEOREM LifecycleInvariant == Spec => []LInv
<1>1. Init => LInv
  BY InvInit
<1>2. LInv /\ [Next]_vars => LInv'
  BY InvStep
<1> QED
  BY <1>1, <1>2, PTL DEF Spec
\* Once a Close has gone past wg.Wait, ctx stays cancelled, so whatever serve
\* loop still starts is one that Close has overtaken.
LEMMA OvertakenStep ==
  ASSUME TypeOK, SInv, CloseLeavesOvertaken, Next
  PROVE  CloseLeavesOvertaken'
<1>1. open \subseteq Runs /\ late \subseteq Runs
  BY DEF TypeOK
<1>2. CASE ClientStep \/ AnswerBeat
  BY <1>2, ClientLeavesServer DEF CloseLeavesOvertaken, serverVars, sockets, serves
<1>3. ASSUME NEW g \in Runs, RunTest(g) \/ RunStep(g) \/ ServeStep(g) PROVE CloseLeavesOvertaken'
  <2>1. close' = close /\ \A h \in Runs \ {g} : run'[h] = run[h]
    BY <1>3 DEF TypeOK, RunTest, RunStep, ServeStep, Bind, BindFails, SetTransport, StartServe,
                ServeCheck, ServeRecv, RunGoes
  <2>2. CASE RunTest(g) \/ BindFails(g)
    <3>1. UNCHANGED <<open, late>> /\ run[g] \in {"new", "binding"}
      BY <2>2 DEF RunTest, BindFails, RunGoes, sockets
    <3>2. g \notin open
      BY <3>1 DEF SInv, OneSocket
    <3> QED
      BY <1>1, <2>1, <3>1, <3>2 DEF CloseLeavesOvertaken
  <2>3. CASE Bind(g) \/ SetTransport(g)
    <3>1. late' = late /\ open' \subseteq open \union {g} /\ run'[g] \in {"bound", "set"}
      BY <2>3 DEF Bind, SetTransport, RunGoes, TypeOK
    <3> QED
      BY <1>1, <2>1, <3>1 DEF CloseLeavesOvertaken
  <2>4. CASE StartServe(g)
    <3>1. open' = open /\ late \subseteq late' /\ (cancelled => g \in late')
      BY <2>4 DEF StartServe, sockets
    <3>2. (\E k \in Closes : close[k] = "done") => cancelled
      BY DEF SInv, CloseStages, Waited
    <3> QED
      BY <1>1, <2>1, <3>1, <3>2 DEF CloseLeavesOvertaken
  <2>5. CASE ServeStep(g)
    <3>1. UNCHANGED <<open, late, run>>
      BY <2>5 DEF ServeStep, ServeCheck, ServeRecv, sockets
    <3> QED
      BY <2>1, <3>1 DEF CloseLeavesOvertaken
  <2> QED
    BY <1>3, <2>2, <2>3, <2>4, <2>5 DEF RunStep
<1>4. ASSUME NEW k \in Closes, CloseTest(k) \/ CloseStep(k) PROVE CloseLeavesOvertaken'
  <2>1. UNCHANGED <<run, late, loop>> /\ open' \subseteq open
    BY <1>4 DEF CloseTest, CloseStep, CloseCancel, CloseWait, CloseRelease, CloseTransport,
                ClosesTransport, sockets, serves
  <2>2. CASE CloseTransport(k)
    <3>1. open' = open \ transport
      BY <2>2 DEF CloseTransport, ClosesTransport
    <3>2. \A g \in open : run[g] = "ran" => g \in late \/ transport = {g}
      BY <1>1 DEF SInv, NotOvertaken
    <3>3. \A g \in open : run[g] \in {"bound", "set", "ran"}
      BY DEF SInv, OneSocket
    <3> QED
      BY <2>1, <3>1, <3>2, <3>3 DEF CloseLeavesOvertaken
  <2>3. CASE CloseTest(k) \/ CloseCancel(k) \/ CloseWait(k) \/ CloseRelease(k)
    <3>1. \A j \in Closes : close'[j] = "done" => close[j] = "done"
      BY <2>3 DEF CloseTest, CloseCancel, CloseWait, CloseRelease, CloseGoes, TypeOK
    <3> QED
      BY <2>1, <3>1 DEF CloseLeavesOvertaken
  <2> QED
    BY <1>4, <2>2, <2>3 DEF CloseStep
<1> QED
  BY <1>2, <1>3, <1>4 DEF Next, ServerStep

\* When a Server.Close has returned, only the sockets of overtaken Runs are bound.
THEOREM OnlyOvertakenStay == Spec => []CloseLeavesOvertaken
<1>1. Init => CloseLeavesOvertaken
  BY DEF Init, CloseLeavesOvertaken
<1>2. LInv /\ CloseLeavesOvertaken /\ [Next]_vars => CloseLeavesOvertaken'
  <2> SUFFICES ASSUME LInv, CloseLeavesOvertaken, [Next]_vars PROVE CloseLeavesOvertaken'
    OBVIOUS
  <2>1. TypeOK /\ SInv
    BY DEF LInv, SInv
  <2>2. CASE UNCHANGED vars
    BY <2>2 DEF CloseLeavesOvertaken, vars, serverVars, sockets, serves
  <2> QED
    BY <2>1, <2>2, OvertakenStep
<1> QED
  BY <1>1, <1>2, LifecycleInvariant, PTL DEF Spec

\* The client's socket outlives both its loops, and a Client.Close that has won
\* the swap returns when it is closed.
THEOREM ClientSocketLast == Spec => []ClientQuiet
<1>1. Init => ClientQuiet
  BY DEF Init, ClientQuiet
<1>2. TypeOK /\ ClientQuiet /\ [Next]_vars => ClientQuiet'
  <2> SUFFICES ASSUME TypeOK, ClientQuiet, [Next]_vars PROVE ClientQuiet'
    OBVIOUS
  <2>1. CASE UNCHANGED clientVars
    BY <2>1 DEF ClientQuiet, clientVars
  <2>2. CASE Dial \/ DialFails
    <3>1. client = "new" /\ quit' = quit /\ (client' = "open" => connected')
      BY <2>2 DEF Dial, DialFails
    <3> QED
      BY <3>1 DEF ClientQuiet
  <2>3. CASE Receive \/ BeatTick \/ BeatSend \/ BeatExit
    <3>1. /\ UNCHANGED <<client, quit, connected>>
          /\ (receiver = "gone" => receiver' = "gone") /\ (beater = "gone" => beater' = "gone")
      BY <2>3 DEF Receive, ReceiveCheck, ReceiveRecv, BeatTick, BeatSend, BeatExit
    <3> QED
      BY <3>1 DEF ClientQuiet
  <2>4. ASSUME NEW q \in Quits, QuitSwap(q) \/ QuitCancel(q) \/ QuitWait(q) \/ QuitClose(q)
        PROVE  ClientQuiet'
    <3>1. UNCHANGED <<client, receiver, beater>> /\ \A p \in Quits \ {q} : quit'[p] = quit[p]
      BY <2>4 DEF QuitSwap, QuitCancel, QuitWait, QuitClose, QuitGoes, TypeOK
    <3>2. CASE QuitSwap(q) \/ QuitCancel(q)
      <4>1. client = "open" /\ connected' = connected /\ quit'[q] \in {"refused", "cancelling", "waiting"}
        BY <3>2 DEF QuitSwap, QuitCancel, QuitGoes, TypeOK, ClientQuiet
      <4> QED
        BY <3>1, <4>1 DEF ClientQuiet
    <3>3. CASE QuitWait(q)
      <4>1. client = "open" /\ connected' = connected /\ quit'[q] = "closing"
        BY <3>3 DEF QuitWait, QuitGoes, TypeOK, ClientQuiet
      <4>2. receiver = "gone" /\ beater = "gone"
        BY <3>3 DEF QuitWait, LoopsEnded
      <4> QED
        BY <3>1, <4>1, <4>2 DEF ClientQuiet
    <3>4. CASE QuitClose(q)
      <4>1. /\ client = "open" /\ ~connected' /\ quit'[q] = "done"
            /\ receiver = "gone" /\ beater = "gone"
        BY <3>4 DEF QuitClose, QuitGoes, TypeOK, ClientQuiet
      <4> QED
        BY <3>1, <4>1 DEF ClientQuiet
    <3> QED
      BY <2>4, <3>2, <3>3, <3>4
  <2>5. ASSUME ServerStep PROVE UNCHANGED clientVars
    BY <2>5 DEF ServerStep, RunTest, RunStep, Bind, BindFails, SetTransport, StartServe, ServeStep,
       ServeCheck, ServeRecv, AnswerBeat, CloseTest, CloseStep, CloseCancel, CloseWait, CloseRelease,
       CloseTransport
  <2> QED
    BY <2>1, <2>2, <2>3, <2>4, <2>5 DEF Next, ClientStep, QuitStep, vars
<1>3. Spec => []TypeOK
  BY LifecycleInvariant, PTL DEF LInv
<1> QED
  BY <1>1, <1>2, <1>3, PTL DEF Spec
=============================================================================
