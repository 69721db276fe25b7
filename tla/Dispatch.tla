------------------------------ MODULE Dispatch ------------------------------
(***************************************************************************)
(* From a proxy function to the method it stands for and back, for any     *)
(* pair of signatures and any chain of middleware: Decorator's proxy,      *)
(* handleRequest, buildParams, the middleware chain and invoke.            *)
(*                                                                         *)
(* The requests are calls of one proxy, each a task of the server's worker *)
(* pool.  Packets are neither lost nor late here (UnaryRpc, StreamServer   *)
(* and StreamClient are about that), so that a request is at one end at a  *)
(* time.  A chain is a sequence of names of middlewares, outermost first.  *)
(***************************************************************************)
EXTENDS Signatures, FiniteSets, Integers

CONSTANTS Requests,  \* bound: calls of the proxy
          Scenarios  \* the methods, proxies and chains to look at

Middlewares == {
  "Recovery",   \* recovery.go, and Recovery of chain.go
  "Auth",       \* Auth of chain.go: fn decides
  "TokenAuth",  \* auth.go: wants metadata, which the server's ctx never has
  "Metrics",    \* Metrics of chain.go, whose counters have no lock
  "Collector",  \* metrics.go
  "Through"}    \* logging, tracing and Timeout: the call goes through as it is

ASSUME RequestsAssumption == IsFiniteSet(Requests)
ASSUME ScenariosAssumption ==
  \A s \in Scenarios :
    /\ s.method \in Signature /\ s.proxy \in Signature /\ s.typed \in BOOLEAN
    /\ s.chain \in Seq(Middlewares)
    /\ \A i, j \in DOMAIN s.chain : s.chain[i] = "Collector" /\ s.chain[j] = "Collector" => i = j

VARIABLES
  scenario,  \* the method and the proxy with their signatures, and the chain
  pc,        \* where each request is
  depth,     \* how many middlewares it has entered and not left
  outcome,   \* how the part of the chain inside its depth has ended
  ran,       \* the requests the method was run for
  eof,       \* bidiStream.closed of those whose method has received io.EOF
  replies,   \* the packets handed to the transport for each request
  total,     \* totalRequests of Metrics
  read,      \* the value of it each request has read to add one to
  active,    \* ActiveRequests of the collector
  recorded,  \* TotalRequests of the collector
  met        \* history: the requests the collector has counted in

metrics == <<total, read, active, recorded, met>>
calls == <<ran, eof>>
vars == <<scenario, pc, depth, outcome, calls, replies, metrics>>

chain == scenario.chain
method == scenario.method
proxy == scenario.proxy

Init ==
  /\ scenario \in Scenarios
  /\ pc = [r \in Requests |-> "new"]
  /\ depth = [r \in Requests |-> 0]
  /\ outcome = [r \in Requests |-> "none"]
  /\ ran = {}
  /\ eof = {}
  /\ replies = [r \in Requests |-> {}]
  /\ total = 0
  /\ read = [r \in Requests |-> 0]
  /\ active = 0
  /\ recorded = 0
  /\ met = {}

Goes(r, from, to) == pc[r] = from /\ pc' = [pc EXCEPT ![r] = to]

Ends(r, result) == outcome' = [outcome EXCEPT ![r] = result]
-----------------------------------------------------------------------------
(* The request. *)

\* The proxy is called.
Ask(r) ==
  /\ Goes(r, "new", IF Sends(proxy) = "nothing" THEN "refused" ELSE "sent")
  /\ UNCHANGED <<scenario, depth, outcome, calls, replies, metrics>>

Mode == ServerMode(method)

\* The method is not registered, or the data is not of its parameter's type.
Reject(r) ==
  /\ Goes(r, "sent", "done")
  /\ \/ ~Parsed(method)
     \/ /\ ~scenario.typed /\ Sends(proxy) = "data"
        /\ \E i \in 2..Len(method.params) : Decoded(method, i)
  /\ replies' = [replies EXCEPT ![r] = {"answer"}]
  /\ UNCHANGED <<scenario, depth, outcome, calls, metrics>>

\* The parameters are built, and the call is made through the chain or, for a
\* stream, without it.
Accept(r) ==
  /\ Parsed(method)
  /\ Goes(r, "sent", IF Mode = "ReqRep" THEN "down" ELSE "call")
  /\ UNCHANGED <<scenario, depth, outcome, calls, replies, metrics>>
-----------------------------------------------------------------------------
(* Into the chain. *)

\* The request stands before one of the middlewares mws.
Before(r, mws) == depth[r] < Len(chain) /\ chain[depth[r] + 1] \in mws

Deeper(r) == depth' = [depth EXCEPT ![r] = @ + 1]

\* Nothing but the call of next happens; Auth's function has agreed.
PassIn(r) ==
  /\ Goes(r, "down", "down") /\ Before(r, {"Recovery", "Through", "Auth"})
  /\ Deeper(r)
  /\ UNCHANGED <<scenario, outcome, calls, replies, metrics>>

\* next is not called.  Auth's function is the user's, and may panic.
TurnAway(r) ==
  /\ Goes(r, "down", "up")
  /\ \/ Before(r, {"Auth", "TokenAuth"}) /\ Ends(r, "error")
     \/ Before(r, {"Auth"}) /\ Ends(r, "panic")
  /\ UNCHANGED <<scenario, depth, calls, replies, metrics>>

\* totalRequests++ is a read and a write, with other requests in between.
CountRead(r) ==
  /\ Goes(r, "down", "counting") /\ Before(r, {"Metrics"})
  /\ read' = [read EXCEPT ![r] = total]
  /\ UNCHANGED <<scenario, depth, outcome, calls, replies, total, active, recorded, met>>

CountWrite(r) ==
  /\ Goes(r, "counting", "down")
  /\ total' = read[r] + 1
  /\ Deeper(r)
  /\ UNCHANGED <<scenario, outcome, calls, replies, read, active, recorded, met>>

\* RecordActiveRequests(service, 1), under the lock of the collector.
CollectIn(r) ==
  /\ Goes(r, "down", "down") /\ Before(r, {"Collector"})
  /\ active' = active + 1
  /\ met' = met \union {r}
  /\ Deeper(r)
  /\ UNCHANGED <<scenario, outcome, calls, replies, total, read, recorded>>

Enter(r) == PassIn(r) \/ TurnAway(r) \/ CountRead(r) \/ CountWrite(r) \/ CollectIn(r)

\* invoke: the method runs and ends in one of three ways, or Func.Call panics.
\* The method of a stream may have received io.EOF before it ends.
Invoke(r) ==
  /\ \/ Goes(r, "down", "up") /\ depth[r] = Len(chain)
     \/ Goes(r, "call", "over")
  /\ IF Callable(method, Sends(proxy) = "data")
     THEN /\ ran' = ran \union {r}
          /\ eof' \in IF Mode = "ReqRep" THEN {eof} ELSE {eof, eof \union {r}}
          /\ \E result \in {"ok", "error", "panic"} : Ends(r, result)
     ELSE Ends(r, "panic") /\ UNCHANGED calls
  /\ UNCHANGED <<scenario, depth, replies, metrics>>
-----------------------------------------------------------------------------
(* Out of the chain.                                                         *)
(* Definitions marked "Wrong on purpose" are not part of the model: each is  *)
(* the mistake that the definition after it is shown to be free of.          *)

\* The request comes back to one of the middlewares mws.
Within(r, mws) == depth[r] > 0 /\ chain[depth[r]] \in mws

Shallower(r) == depth' = [depth EXCEPT ![r] = @ - 1]

PassOut(r) ==
  /\ Goes(r, "up", "up") /\ Within(r, {"Through", "Auth"})
  /\ Shallower(r)
  /\ UNCHANGED <<scenario, outcome, calls, replies, metrics>>

\* Wrong on purpose: recover is not called by the deferred function itself.
RecoversNothing(r) == outcome[r]

\* What Recovery makes of a panic.
Recovered(r) == IF outcome[r] = "panic" THEN "error" ELSE outcome[r]

Recover(r) ==
  /\ Goes(r, "up", "up") /\ Within(r, {"Recovery"})
  /\ Ends(r, Recovered(r))
  /\ Shallower(r)
  /\ UNCHANGED <<scenario, calls, replies, metrics>>

\* Metrics does not defer: a panic goes by.  It divides by totalRequests.
CountOut(r) ==
  /\ Goes(r, "up", "up") /\ Within(r, {"Metrics"})
  /\ Ends(r, IF total = 0 THEN "panic" ELSE outcome[r])
  /\ Shallower(r)
  /\ UNCHANGED <<scenario, calls, replies, metrics>>

\* Wrong on purpose: the calls that failed are not recorded.
RecordsSuccess(r) == outcome[r] = "ok"

\* The requests RecordRequest is called for: those that have not panicked.
Records(r) == outcome[r] # "panic"

\* RecordRequest, under the lock of the collector.
Record(r) ==
  /\ Goes(r, "up", "recorded") /\ Within(r, {"Collector"})
  /\ Records(r)
  /\ recorded' = recorded + 1
  /\ UNCHANGED <<scenario, depth, outcome, calls, replies, total, read, active, met>>

\* Wrong on purpose: the call that counts back is not deferred.
NotDeferred(r) == IF Records(r) THEN active - 1 ELSE active

\* The deferred RecordActiveRequests(service, -1).
Deferred(r) == active - 1

CollectOut(r) ==
  /\ \/ Goes(r, "recorded", "up")
     \/ Goes(r, "up", "up") /\ Within(r, {"Collector"}) /\ ~Records(r)
  /\ active' = Deferred(r)
  /\ Shallower(r)
  /\ UNCHANGED <<scenario, outcome, calls, replies, total, read, recorded, met>>

Leave(r) == PassOut(r) \/ Recover(r) \/ CountOut(r) \/ Record(r) \/ CollectOut(r)

\* handleReqRep answers; a panic that nobody recovered ends the task instead.
Answer(r) ==
  /\ Goes(r, "up", "done") /\ depth[r] = 0
  /\ replies' = [replies EXCEPT ![r] = IF outcome[r] = "panic" THEN {} ELSE {"answer"}]
  /\ UNCHANGED <<scenario, depth, outcome, calls, metrics>>

\* The task of a stream sends the error.  Its deferred Close sends the end,
\* which a Close of the method's own may have done already; after io.EOF, which
\* has set closed, neither does.
EndStream(r) ==
  /\ Goes(r, "over", "done")
  /\ replies' = [replies EXCEPT ![r] = (IF r \in eof THEN {} ELSE {"end"})
                                       \union IF outcome[r] = "error" THEN {"answer"} ELSE {}]
  /\ UNCHANGED <<scenario, depth, outcome, calls, metrics>>
-----------------------------------------------------------------------------
Next ==
  \E r \in Requests :
    \/ Ask(r) \/ Reject(r) \/ Accept(r)
    \/ Enter(r) \/ Invoke(r) \/ Leave(r)
    \/ Answer(r) \/ EndStream(r)

Spec == Init /\ [][Next]_vars
-----------------------------------------------------------------------------
(* Safety. *)

Outcomes == {"ok", "error", "panic"}

TypeOK ==
  /\ scenario \in Scenarios
  /\ pc \in [Requests -> {"new", "refused", "sent", "down", "counting", "call",
                          "up", "recorded", "over", "done"}]
  /\ depth \in [Requests -> 0..Len(chain)]
  /\ outcome \in [Requests -> Outcomes \union {"none"}]
  /\ ran \subseteq Requests /\ eof \subseteq ran
  /\ replies \in [Requests -> SUBSET {"answer", "end"}]
  /\ total \in Nat /\ read \in [Requests -> Nat]
  /\ active \in Int /\ recorded \in Nat /\ met \subseteq Requests

\* The requests that have entered the middleware mw and not left it.
Inside(mw) == {r \in Requests : \E i \in 1..depth[r] : chain[i] = mw}

\* Where a request is in the chain when it is somewhere else or within a step.
Places ==
  \A r \in Requests :
    /\ pc[r] \notin {"down", "counting", "up", "recorded"} => depth[r] = 0
    /\ pc[r] = "counting" => Before(r, {"Metrics"})
    /\ pc[r] = "recorded" => Within(r, {"Collector"}) /\ Records(r)
    /\ pc[r] \in {"down", "counting", "up", "recorded"} => Parsed(method) /\ Mode = "ReqRep"
    /\ pc[r] \in {"call", "over"} => Parsed(method) /\ Mode # "ReqRep"

\* The collector's gauge is the number of requests inside, panics or not.
ActiveExact == active = Cardinality(Inside("Collector"))

\* Metrics never divides by zero, though its unguarded count may miss requests.
NoZeroDivision == Inside("Metrics") # {} => total > 0

\* Behind the first d middlewares comes a Recovery with no Auth before it: what
\* stands between only passes the call on or counts, and does not panic itself.
Guarded(d) ==
  \E j \in DOMAIN chain :
    d < j /\ chain[j] = "Recovery" /\ \A k \in (d + 1)..(j - 1) : chain[k] # "Auth"

\* No panic of a unary call gets past such a Recovery.
PanicsCaught ==
  \A r \in Requests :
    outcome[r] = "panic" /\ pc[r] \in {"up", "recorded"} => ~Guarded(depth[r])

\* Recovery is installed further in than the collector, with no Auth between.
RecoveryInside == \E i \in DOMAIN chain : chain[i] = "Collector" /\ Guarded(i)

\* The requests the collector has met and counts no more as unfinished.
Counted == {r \in met : r \notin Inside("Collector") \/ pc[r] = "recorded"}

\* The collector meets a request once, and records those that panic does not
\* carry past it.
MetOnce ==
  /\ Inside("Collector") \subseteq met
  /\ \A r \in met : pc[r] \in {"new", "sent", "down", "counting"} => r \in Inside("Collector")
  /\ RecoveryInside => recorded = Cardinality(Counted)

\* The invariant the proofs rest on.
DInv ==
  TypeOK /\ Places /\ ActiveExact /\ NoZeroDivision /\ PanicsCaught /\ MetOnce

\* The collector loses no request that has met it if Recovery is further in,
\* and Auth, whose function may panic, not between the two:
\* each is recorded or still inside.
NoneLost ==
  RecoveryInside =>
    Cardinality(met) =
      recorded + Cardinality({r \in Inside("Collector") : pc[r] # "recorded"})

\* With Recovery outside of Auth, whose function may panic, a unary request is
\* answered, whatever becomes of it.
Answered ==
  \A r \in Requests :
    pc[r] = "done" /\ (Parsed(method) => Mode = "ReqRep") /\ Guarded(0) =>
      replies[r] = {"answer"}

\* A method runs only if it is reachable: whatever proxy and argument, a method
\* that asks for an io.Reader, for an io.WriteCloser or for two requests never does,
\* though Register accepts it.
OnlyReachable == ran # {} => Parsed(method) /\ Reachable(method)

\* The two ends understand a documented method and its proxy alike: what the
\* proxy waits for, in a value of the type it returns, is what the server sends,
\* a stream's end only if its method has not received io.EOF, that is, if the
\* program has not closed the stream (whose Recv then waits for nothing).  Whether
\* the end arrives is StreamServer's matter.  A stream's method runs just if it
\* has a request too: without one the packet has no data.
Understood ==
  Documented(method) /\ proxy = Counterpart(method) /\ scenario.typed =>
    /\ WaitsFor(proxy) = IF Mode = "ReqRep" THEN "answer" ELSE "end"
    /\ ReturnsFit(proxy)
    /\ \A r \in Requests :
         /\ pc[r] # "refused"
         /\ pc[r] \in {"over", "done"} /\ ToSet(chain) \intersect {"Auth", "TokenAuth"} = {} =>
              (r \in ran <=> Mode = "ReqRep" \/ HasRequest(method))
         /\ pc[r] = "done" /\ Guarded(0) => WaitsFor(proxy) \in replies[r] \/ r \in eof
=============================================================================
