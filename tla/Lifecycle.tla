----------------------------- MODULE Lifecycle -----------------------------
(***************************************************************************)
(* Starting and stopping go-zrpc: Run and Close of a Server, called by any *)
(* number of goroutines, NewClient and Close of a Client, the sockets they *)
(* open and close, the goroutines they start and wait for, and the         *)
(* heartbeat between the two.                                              *)
(*                                                                         *)
(* The Server has one address.  A socket is named by the call of Run that  *)
(* bound it.  Server.wg counts the serve loops, Client.wg the receive loop *)
(* and the heartbeat loop.  Calls in progress are left to the other        *)
(* modules: what serve receives here is a heartbeat or nothing.            *)
(***************************************************************************)
EXTENDS FiniteSets

CONSTANTS Runs,    \* bound: calls of Server.Run
          Closes,  \* bound: calls of Server.Close
          Quits    \* bound: calls of Client.Close

VARIABLES
  running,    \* Server.running
  cancelled,  \* whether Server.ctx is cancelled
  released,   \* whether the worker pool is released
  transport,  \* Server.transport: no socket or one
  open,       \* the sockets that are bound
  run,        \* where each call of Run is
  loop,       \* where the serve goroutine it started is
  late,       \* history: those started when ctx was cancelled already
  close,      \* where each call of Close is
  client,     \* what NewClient has returned, if it has
  quit,       \* where each call of Client.Close is
  quitting,   \* Client.closed
  ended,      \* whether Client.ctx is cancelled
  connected,  \* whether the client's socket is open
  receiver,   \* where Client.receive is
  beater,     \* where Client.heartbeat is
  beat        \* where the last heartbeat is; bound: one at a time

flags == <<running, cancelled, released>>
sockets == <<transport, open>>
serves == <<run, loop, late>>
serverVars == <<flags, sockets, serves, close>>
clientVars == <<client, quit, quitting, ended, connected, receiver, beater>>
vars == <<serverVars, clientVars, beat>>

Init ==
  /\ running = FALSE /\ cancelled = FALSE /\ released = FALSE
  /\ transport = {} /\ open = {}
  /\ run = [g \in Runs |-> "new"]
  /\ loop = [g \in Runs |-> "none"]
  /\ late = {}
  /\ close = [k \in Closes |-> "new"]
  /\ client = "new"
  /\ quit = [q \in Quits |-> "new"]
  /\ quitting = FALSE /\ ended = FALSE /\ connected = FALSE
  /\ receiver = "none" /\ beater = "none"
  /\ beat = "none"
-----------------------------------------------------------------------------
(* Server.Run.                                                               *)
(* Definitions marked "Wrong on purpose" are not part of the model: each is  *)
(* the mistake that the definition after it is shown to be free of.          *)

RunGoes(g, from, to) == run[g] = from /\ run' = [run EXCEPT ![g] = to]

\* running is tested and set, under mu.
RunTest(g) ==
  /\ RunGoes(g, "new", IF running THEN "refused" ELSE "binding")
  /\ running' = TRUE
  /\ UNCHANGED <<cancelled, released, sockets, loop, late, close, clientVars, beat>>

\* Wrong on purpose: a second socket may be bound to the address.
Shared == TRUE

\* An address is bound once.
AddressFree == open = {}

\* NewZMQTransport of a server.
Bind(g) ==
  /\ RunGoes(g, "binding", "bound")
  /\ AddressFree
  /\ open' = open \union {g}
  /\ UNCHANGED <<flags, transport, loop, late, close, clientVars, beat>>

\* The address is taken, here or by another program, or it is none.  Run
\* returns the error and leaves running as it is.
BindFails(g) ==
  /\ RunGoes(g, "binding", "failed")
  /\ UNCHANGED <<flags, sockets, loop, late, close, clientVars, beat>>

\* s.transport is written, without mu.
SetTransport(g) ==
  /\ RunGoes(g, "bound", "set")
  /\ transport' = {g}
  /\ UNCHANGED <<flags, open, loop, late, close, clientVars, beat>>

StartServe(g) ==
  /\ RunGoes(g, "set", "ran")
  /\ loop' = [loop EXCEPT ![g] = "head"]
  /\ late' = IF cancelled THEN late \union {g} ELSE late
  /\ UNCHANGED <<flags, sockets, close, clientVars, beat>>

RunStep(g) == Bind(g) \/ BindFails(g) \/ SetTransport(g) \/ StartServe(g)
-----------------------------------------------------------------------------
(* Server.serve, and the heartbeat's task in the pool. *)

LoopGoes(g, from, to) == loop[g] = from /\ loop' = [loop EXCEPT ![g] = to]

ServeCheck(g) ==
  /\ LoopGoes(g, "head", IF cancelled THEN "gone" ELSE "recv")
  /\ UNCHANGED <<flags, sockets, run, late, close, clientVars, beat>>

\* Recv returns, after a second if there is nothing.  A released pool refuses
\* the packet's task.
ServeRecv(g) ==
  /\ LoopGoes(g, "recv", "head")
  /\ \/ UNCHANGED beat
     \/ beat = "asked" /\ beat' = IF released THEN "none" ELSE "task"
  /\ UNCHANGED <<flags, sockets, run, late, close, clientVars>>

ServeStep(g) == ServeCheck(g) \/ ServeRecv(g)

\* handlePacket answers by the transport the server has by now, if it is open.
AnswerBeat ==
  /\ beat = "task"
  /\ beat' = IF transport \intersect open = {} THEN "none" ELSE "answered"
  /\ UNCHANGED <<serverVars, clientVars>>
-----------------------------------------------------------------------------
(* Server.Close. *)

CloseGoes(k, from, to) == close[k] = from /\ close' = [close EXCEPT ![k] = to]

\* running is tested and reset, under mu.
CloseTest(k) ==
  /\ CloseGoes(k, "new", IF running THEN "cancelling" ELSE "refused")
  /\ running' = FALSE
  /\ UNCHANGED <<cancelled, released, sockets, serves, clientVars, beat>>

CloseCancel(k) ==
  /\ CloseGoes(k, "cancelling", "waiting")
  /\ cancelled' = TRUE
  /\ UNCHANGED <<running, released, sockets, serves, clientVars, beat>>

\* Wrong on purpose: wg.Add stands before NewZMQTransport, which may fail.
AddedEarly == \A g \in Runs : loop[g] \notin {"head", "recv"} /\ run[g] # "failed"

\* wg.Wait returns: no serve loop is left.
NoLoops == \A g \in Runs : loop[g] \notin {"head", "recv"}

CloseWait(k) ==
  /\ CloseGoes(k, "waiting", "releasing")
  /\ NoLoops
  /\ UNCHANGED <<flags, sockets, serves, clientVars, beat>>

CloseRelease(k) ==
  /\ CloseGoes(k, "releasing", "closing")
  /\ released' = TRUE
  /\ UNCHANGED <<running, cancelled, sockets, serves, clientVars, beat>>

\* Wrong on purpose: the socket stays open.
KeepsOpen == open

\* The transport the server has by now, if any, is closed.
ClosesTransport == open \ transport

CloseTransport(k) ==
  /\ CloseGoes(k, "closing", "done")
  /\ open' = ClosesTransport
  /\ UNCHANGED <<flags, transport, serves, clientVars, beat>>

CloseStep(k) == CloseCancel(k) \/ CloseWait(k) \/ CloseRelease(k) \/ CloseTransport(k)
-----------------------------------------------------------------------------
(* The client: NewClient, its two loops and its Close. *)

\* The socket connects, which needs no server, and the loops start.
Dial ==
  /\ client = "new"
  /\ client' = "open" /\ connected' = TRUE
  /\ receiver' = "head" /\ beater' = "select"
  /\ UNCHANGED <<serverVars, quit, quitting, ended, beat>>

DialFails ==
  /\ client = "new"
  /\ client' = "failed"
  /\ UNCHANGED <<serverVars, quit, quitting, ended, connected, receiver, beater, beat>>

ReceiveCheck ==
  /\ receiver = "head"
  /\ receiver' = IF ended THEN "gone" ELSE "recv"
  /\ UNCHANGED <<serverVars, client, quit, quitting, ended, connected, beater, beat>>

\* Recv returns: an answered heartbeat is dropped, and an error ends the loop if
\* closed is set.
ReceiveRecv ==
  /\ receiver = "recv"
  /\ \/ receiver' = "head" /\ beat' \in {beat} \union (IF beat = "answered" THEN {"none"} ELSE {})
     \/ quitting /\ receiver' = "gone" /\ UNCHANGED beat
  /\ UNCHANGED <<serverVars, client, quit, quitting, ended, connected, beater>>

\* The ticker's branch of the select, which may be taken though ctx is done.
BeatTick ==
  /\ beater = "select"
  /\ beater' = "send"
  /\ UNCHANGED <<serverVars, client, quit, quitting, ended, connected, receiver, beat>>

\* Send returns: the heartbeat is on its way, or lost, or Send has timed out.
BeatSend ==
  /\ beater = "send"
  /\ beater' = "select"
  /\ beat' \in {beat} \union (IF connected /\ beat = "none" THEN {"asked"} ELSE {})
  /\ UNCHANGED <<serverVars, client, quit, quitting, ended, connected, receiver>>

BeatExit ==
  /\ beater = "select" /\ ended
  /\ beater' = "gone"
  /\ UNCHANGED <<serverVars, client, quit, quitting, ended, connected, receiver, beat>>

QuitGoes(q, from, to) == quit[q] = from /\ quit' = [quit EXCEPT ![q] = to]

\* The compare-and-swap of closed: a second Close returns at once.
QuitSwap(q) ==
  /\ client = "open"
  /\ QuitGoes(q, "new", IF quitting THEN "refused" ELSE "cancelling")
  /\ quitting' = TRUE
  /\ UNCHANGED <<serverVars, client, ended, connected, receiver, beater, beat>>

QuitCancel(q) ==
  /\ QuitGoes(q, "cancelling", "waiting")
  /\ ended' = TRUE
  /\ UNCHANGED <<serverVars, client, quitting, connected, receiver, beater, beat>>

\* Wrong on purpose: the heartbeat is not waited for.
ReceiverGone == receiver = "gone"

\* wg.Wait returns: both loops have ended.
LoopsEnded == receiver = "gone" /\ beater = "gone"

QuitWait(q) ==
  /\ QuitGoes(q, "waiting", "closing")
  /\ LoopsEnded
  /\ UNCHANGED <<serverVars, client, quitting, ended, connected, receiver, beater, beat>>

QuitClose(q) ==
  /\ QuitGoes(q, "closing", "done")
  /\ connected' = FALSE
  /\ UNCHANGED <<serverVars, client, quitting, ended, receiver, beater, beat>>

QuitStep(q) == QuitCancel(q) \/ QuitWait(q) \/ QuitClose(q)

Receive == ReceiveCheck \/ ReceiveRecv
ClientStep ==
  \/ Dial \/ DialFails \/ Receive \/ BeatTick \/ BeatSend \/ BeatExit
  \/ \E q \in Quits : QuitSwap(q) \/ QuitStep(q)
-----------------------------------------------------------------------------
ServerStep ==
  \/ \E g \in Runs : RunTest(g) \/ RunStep(g) \/ ServeStep(g)
  \/ \E k \in Closes : CloseTest(k) \/ CloseStep(k)
  \/ AnswerBeat

Next == ServerStep \/ ClientStep

Spec == Init /\ [][Next]_vars

\* The goroutines run; Recv and Send come back, as both have timeouts; and a
\* select that finds ctx done again and again takes that branch in the end.
Fairness ==
  /\ \A g \in Runs : WF_vars(RunStep(g)) /\ WF_vars(ServeStep(g))
  /\ \A k \in Closes : WF_vars(CloseStep(k))
  /\ \A q \in Quits : WF_vars(QuitStep(q))
  /\ WF_vars(Receive) /\ WF_vars(BeatSend) /\ SF_vars(BeatExit)

LiveSpec == Spec /\ Fairness
-----------------------------------------------------------------------------
(* Safety. *)

TypeOK ==
  /\ {running, cancelled, released, quitting, ended, connected} \subseteq BOOLEAN
  /\ transport \subseteq Runs /\ open \subseteq Runs /\ late \subseteq Runs
  /\ run \in [Runs -> {"new", "refused", "binding", "bound", "failed", "set", "ran"}]
  /\ loop \in [Runs -> {"none", "head", "recv", "gone"}]
  /\ close \in [Closes -> {"new", "refused", "cancelling", "waiting", "releasing", "closing", "done"}]
  /\ client \in {"new", "open", "failed"}
  /\ quit \in [Quits -> {"new", "refused", "cancelling", "waiting", "closing", "done"}]
  /\ receiver \in {"none", "head", "recv", "gone"}
  /\ beater \in {"none", "select", "send", "gone"}
  /\ beat \in {"none", "asked", "task", "answered"}

\* A Close that has gone past wg.Wait.
Waited == {k \in Closes : close[k] \in {"releasing", "closing", "done"}}

\* A serve loop in Recv polls the socket its own Run has bound, that socket is
\* open and the pool takes its tasks: no Close and no other Run comes in between.
LoopOwnsSocket ==
  \A g \in Runs :
    loop[g] = "recv" => transport = {g} /\ g \in open /\ ~released /\ Waited = {}

\* The sockets: one at a time is bound, and only a Run that has bound one has it.
OneSocket ==
  /\ \A g, h \in open : g = h
  /\ \A g, h \in transport : g = h
  /\ \A g \in open : run[g] \in {"bound", "set", "ran"}
  /\ \A g \in transport : run[g] \in {"set", "ran"}
  /\ \A g \in Runs : run[g] = "bound" => g \in open

\* How far Close is, and what that means for the serve loops.
CloseStages ==
  /\ \A k \in Closes : close[k] = "waiting" => cancelled
  /\ Waited # {} => cancelled
  /\ released => Waited # {}
  /\ \A g \in Runs : loop[g] # "none" <=> run[g] = "ran"
  /\ \A g \in late : cancelled /\ loop[g] \in {"head", "gone"}

\* A Run that no Close has overtaken keeps its socket as long as its loop runs.
NotOvertaken ==
  \A g \in Runs :
    /\ run[g] = "set" /\ ~cancelled => transport = {g} /\ g \in open
    /\ run[g] = "ran" /\ g \notin late =>
         /\ g \in open => transport = {g}
         /\ loop[g] \in {"head", "recv"} => g \in open /\ Waited = {}

\* The invariant the proofs rest on.
LInv == TypeOK /\ LoopOwnsSocket /\ OneSocket /\ CloseStages /\ NotOvertaken

\* When a Close has returned, the only sockets still bound are those of Runs it
\* has overtaken: their serve loop starts when ctx is cancelled already, and
\* nothing closes them.
CloseLeavesOvertaken ==
  (\E k \in Closes : close[k] = "done") =>
    \A g \in open : g \in late \/ run[g] \in {"bound", "set"}

\* The client's socket is closed after both its loops have ended, and a Close
\* that has won the swap returns after that.
ClientQuiet ==
  /\ client = "open" /\ ~connected => receiver = "gone" /\ beater = "gone"
  /\ \A q \in Quits :
       /\ quit[q] \in {"closing", "done"} => receiver = "gone" /\ beater = "gone"
       /\ quit[q] = "done" => ~connected
       /\ quit[q] # "new" => client = "open"
-----------------------------------------------------------------------------
(* Liveness. *)

\* Every Close returns, the server's and the client's, whatever else is called.
ClosesReturn ==
  /\ \A k \in Closes : close[k] # "new" ~> close[k] \in {"done", "refused"}
  /\ \A q \in Quits : quit[q] # "new" ~> quit[q] \in {"done", "refused"}
=============================================================================
