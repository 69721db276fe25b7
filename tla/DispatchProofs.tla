--------------------------- MODULE DispatchProofs ---------------------------
(***************************************************************************)
(* What holds of Dispatch for every method and proxy, every number of      *)
(* requests and every chain with one collector at most: the counts of the  *)
(* middlewares, and the answer that Recovery makes sure of.                *)
(***************************************************************************)
EXTENDS Dispatch, SignaturesProofs, FiniteSetTheorems, TLAPS

\* Of the chain: a sequence with one collector at most.
ChainFacts ==
  /\ chain \in Seq(Middlewares) /\ Len(chain) \in Nat
  /\ DOMAIN chain = 1..Len(chain)
  /\ \A i, j \in 1..Len(chain) : chain[i] = "Collector" /\ chain[j] = "Collector" => i = j

LEMMA Chain == TypeOK => ChainFacts
<1> SUFFICES ASSUME TypeOK PROVE ChainFacts
  OBVIOUS
<1>1. scenario \in Scenarios
  BY DEF TypeOK
<1>2. chain \in Seq(Middlewares)
  BY <1>1, ScenariosAssumption DEF chain
<1>3. Len(chain) \in Nat /\ DOMAIN chain = 1..Len(chain)
  BY <1>2
<1>4. \A i, j \in DOMAIN chain : chain[i] = "Collector" /\ chain[j] = "Collector" => i = j
  BY <1>1, ScenariosAssumption DEF chain
<1> QED
  BY <1>2, <1>3, <1>4 DEF ChainFacts

\* No step changes the scenario.
LEMMA SameScenario ==
  ASSUME NEW r \in Requests,
         \/ Ask(r) \/ Reject(r) \/ Accept(r) \/ Enter(r)
         \/ Invoke(r) \/ Leave(r) \/ Answer(r) \/ EndStream(r)
  PROVE  scenario' = scenario
BY DEF Ask, Reject, Accept, Enter, PassIn, TurnAway, CountRead, CountWrite, CollectIn,
       Invoke, Leave, PassOut, Recover, CountOut, Record, CollectOut, Answer, EndStream

LEMMA ChainFinite ==
  ASSUME NEW S, S \subseteq Requests
  PROVE  IsFiniteSet(S) /\ Cardinality(S) \in Nat
BY RequestsAssumption, FS_Subset, FS_CardinalityType
(* Depth: a step of a request leaves it where it is, or takes it one           *)
(* middleware further in or out.                                               *)

StepsIn(r, mw) ==
  /\ depth[r] < Len(chain) /\ chain[depth[r] + 1] = mw
  /\ depth' = [depth EXCEPT ![r] = depth[r] + 1] /\ chain' = chain

StepsOut(r, mw) ==
  /\ depth[r] > 0 /\ chain[depth[r]] = mw
  /\ depth' = [depth EXCEPT ![r] = depth[r] - 1] /\ chain' = chain

LEMMA StaysInside ==
  ASSUME depth' = depth, chain' = chain, NEW mw
  PROVE  Inside(mw)' = Inside(mw)
BY DEF Inside

LEMMA EntersInside ==
  ASSUME TypeOK, NEW r \in Requests, NEW k, StepsIn(r, k), NEW mw
  PROVE  Inside(mw)' = IF mw = k THEN Inside(mw) \union {r} ELSE Inside(mw)
<1>1. depth[r] \in Nat /\ Len(chain) \in Nat /\ depth[r] + 1 \in Nat
  BY Chain DEF TypeOK, ChainFacts
<1>2. depth'[r] = depth[r] + 1 /\ \A q \in Requests \ {r} : depth'[q] = depth[q]
  BY DEF StepsIn, TypeOK
<1>3. \A q \in Requests \ {r} : q \in Inside(mw)' <=> q \in Inside(mw)
  BY <1>2 DEF Inside, StepsIn
<1>4. \A i \in 1..(depth[r] + 1) : i = depth[r] + 1 \/ i \in 1..depth[r]
  BY <1>1
<1>5. depth[r] + 1 \in 1..(depth[r] + 1) /\ \A i \in 1..depth[r] : i \in 1..(depth[r] + 1)
  BY <1>1
<1>6. r \in Inside(mw)' <=> mw = k \/ r \in Inside(mw)
  <2>1. r \in Inside(mw)' <=> \E i \in 1..(depth[r] + 1) : chain[i] = mw
    BY <1>2 DEF Inside, StepsIn
  <2>2. r \in Inside(mw) <=> \E i \in 1..depth[r] : chain[i] = mw
    BY DEF Inside
  <2>3. chain[depth[r] + 1] = k
    BY DEF StepsIn
  <2> QED
    BY <1>4, <1>5, <2>1, <2>2, <2>3
<1>7. Inside(mw) \subseteq Requests /\ Inside(mw)' \subseteq Requests
  BY DEF Inside
<1> QED
  BY <1>3, <1>6, <1>7

LEMMA LeavesInside ==
  ASSUME TypeOK, NEW r \in Requests, NEW k, StepsOut(r, k), NEW mw
  PROVE  /\ mw # k => Inside(mw)' = Inside(mw)
         /\ Inside(mw)' \subseteq Inside(mw)
         /\ r \in Inside(k)
         /\ mw = k /\ k = "Collector" => Inside(mw)' = Inside(mw) \ {r}
<1>1. depth[r] \in Nat \ {0} /\ depth[r] - 1 \in Nat /\ Len(chain) \in Nat /\ depth[r] \in 1..Len(chain)
  BY Chain DEF TypeOK, ChainFacts, StepsOut
<1>2. depth'[r] = depth[r] - 1 /\ \A q \in Requests \ {r} : depth'[q] = depth[q]
  BY DEF StepsOut, TypeOK
<1>3. \A q \in Requests \ {r} : q \in Inside(mw)' <=> q \in Inside(mw)
  BY <1>2 DEF Inside, StepsOut
<1>4. \A i \in 1..depth[r] : i = depth[r] \/ i \in 1..(depth[r] - 1)
  BY <1>1
<1>5. depth[r] \in 1..depth[r] /\ \A i \in 1..(depth[r] - 1) : i \in 1..depth[r] /\ i # depth[r]
  BY <1>1
<1>6. r \in Inside(mw)' <=> \E i \in 1..(depth[r] - 1) : chain[i] = mw
  BY <1>2 DEF Inside, StepsOut
<1>7. r \in Inside(mw) <=> \E i \in 1..depth[r] : chain[i] = mw
  BY DEF Inside
<1>8. chain[depth[r]] = k
  BY DEF StepsOut
<1>9. r \in Inside(k)
  BY <1>5, <1>8 DEF Inside
<1>10. Inside(mw) \subseteq Requests /\ Inside(mw)' \subseteq Requests
  BY DEF Inside
<1>11. mw = k /\ k = "Collector" => r \notin Inside(mw)'
  <2>1. \A i \in 1..(depth[r] - 1) : i \in 1..Len(chain)
    BY <1>1
  <2> QED
    BY <1>1, <1>5, <1>6, <1>8, <2>1, Chain DEF ChainFacts
<1>12. r \in Inside(mw)' => r \in Inside(mw)
  BY <1>5, <1>6, <1>7
<1>13. mw # k => (r \in Inside(mw)' <=> r \in Inside(mw))
  BY <1>4, <1>5, <1>6, <1>7, <1>8
<1> QED
  BY <1>3, <1>9, <1>10, <1>11, <1>12, <1>13
(* Types and places. *)

LEMMA SameChain ==
  ASSUME scenario' = scenario
  PROVE  chain' = chain /\ method' = method /\ proxy' = proxy /\ Mode' = Mode
BY DEF chain, method, proxy, Mode

LEMMA TypeStep ==
  ASSUME TypeOK, Places, NEW r \in Requests,
         \/ Ask(r) \/ Reject(r) \/ Accept(r) \/ Enter(r)
         \/ Invoke(r) \/ Leave(r) \/ Answer(r) \/ EndStream(r)
  PROVE  TypeOK'
<1> DEFINE D == 0..Len(chain)
<1>1. scenario' = scenario /\ chain' = chain
  BY SameScenario, SameChain
<1>2. Len(chain) \in Nat /\ depth[r] \in D /\ depth \in [Requests -> D]
  BY Chain DEF ChainFacts, TypeOK
<1>3. depth' \in [Requests -> D]
  <2>1. CASE UNCHANGED depth
    BY <1>2, <2>1
  <2>2. CASE PassIn(r) \/ CountWrite(r) \/ CollectIn(r)
    <3>1. depth[r] < Len(chain) /\ depth' = [depth EXCEPT ![r] = depth[r] + 1]
      BY <2>2 DEF PassIn, CountWrite, CollectIn, Deeper, Goes, Before, Places
    <3>2. depth[r] + 1 \in D
      BY <1>2, <3>1
    <3> QED
      BY <1>2, <3>1, <3>2
  <2>3. CASE PassOut(r) \/ Recover(r) \/ CountOut(r) \/ CollectOut(r)
    <3>1. depth[r] > 0 /\ depth' = [depth EXCEPT ![r] = depth[r] - 1]
      BY <2>3 DEF PassOut, Recover, CountOut, CollectOut, Shallower, Goes, Within, Places
    <3>2. depth[r] - 1 \in D
      BY <1>2, <3>1
    <3> QED
      BY <1>2, <3>1, <3>2
  <2> QED
    BY <2>1, <2>2, <2>3 DEF Ask, Reject, Accept, Enter, TurnAway, CountRead, Invoke, Leave,
                            Record, Answer, EndStream
<1>4. pc' \in [Requests -> {"new", "refused", "sent", "down", "counting", "call",
                            "up", "recorded", "over", "done"}]
  BY DEF TypeOK, Goes, Ask, Reject, Accept, Enter, PassIn, TurnAway, CountRead, CountWrite,
         CollectIn, Invoke, Leave, PassOut, Recover, CountOut, Record, CollectOut, Answer, EndStream
<1>10. ran' \subseteq Requests /\ eof' \subseteq ran'
  <2>1. CASE Invoke(r)
    BY <2>1 DEF TypeOK, Invoke, calls
  <2>2. CASE ~Invoke(r)
    BY <2>2 DEF TypeOK, calls, Ask, Reject, Accept, Enter, PassIn, TurnAway, CountRead, CountWrite,
         CollectIn, Leave, PassOut, Recover, CountOut, Record, CollectOut, Answer, EndStream
  <2> QED
    BY <2>1, <2>2
<1>5. outcome' \in [Requests -> Outcomes \union {"none"}]
  <2>1. CASE UNCHANGED outcome
    BY <2>1 DEF TypeOK, Ask, Reject, Accept, Enter, PassIn, TurnAway, CountRead, CountWrite,
         CollectIn, Invoke, Leave, PassOut, Recover, CountOut, Record, CollectOut, Answer, EndStream
  <2>2. CASE TurnAway(r) \/ Invoke(r)
    BY <2>2 DEF TypeOK, TurnAway, Invoke, Ends, Outcomes
  <2>3. CASE Recover(r) \/ CountOut(r)
    BY <2>3 DEF TypeOK, Recover, CountOut, Recovered, Ends, Outcomes
  <2> QED
    BY <2>1, <2>2, <2>3 DEF Ask, Reject, Accept, Enter, PassIn, CountRead, CountWrite,
         CollectIn, Leave, PassOut, Record, CollectOut, Answer, EndStream
<1>6. replies' \in [Requests -> SUBSET {"answer", "end"}]
  <2>1. CASE \E p \in SUBSET {"answer", "end"} : replies' = [replies EXCEPT ![r] = p]
    BY <2>1 DEF TypeOK
  <2>2. CASE UNCHANGED replies
    BY <2>2 DEF TypeOK
  <2>3. CASE EndStream(r)
    BY <2>1, <2>3 DEF EndStream
  <2>4. CASE Reject(r) \/ Answer(r)
    BY <2>1, <2>4 DEF Reject, Answer
  <2> QED
    BY <2>2, <2>3, <2>4 DEF Ask, Accept, Enter, PassIn, TurnAway, CountRead, CountWrite,
         CollectIn, Invoke, Leave, PassOut, Recover, CountOut, Record, CollectOut
<1>7. total' \in Nat /\ read' \in [Requests -> Nat] /\ recorded' \in Nat
  <2>1. CASE CountRead(r) \/ CountWrite(r) \/ Record(r)
    BY <2>1 DEF TypeOK, CountRead, CountWrite, Record
  <2>2. CASE UNCHANGED <<total, read, recorded>>
    BY <2>2 DEF TypeOK
  <2> QED
    BY <2>1, <2>2 DEF Ask, Reject, Accept, Enter, PassIn, TurnAway, metrics,
         CollectIn, Invoke, Leave, PassOut, Recover, CountOut, CollectOut, Answer, EndStream
<1>8. active' \in Int /\ met' \subseteq Requests
  BY DEF TypeOK, Ask, Reject, Accept, Enter, PassIn, TurnAway, CountRead, CountWrite, metrics,
         CollectIn, Invoke, Leave, PassOut, Recover, CountOut, Record, CollectOut, Deferred, Answer, EndStream
<1>9. scenario' \in Scenarios
  BY <1>1 DEF TypeOK
<1> QED
  BY <1>1, <1>3, <1>4, <1>5, <1>6, <1>7, <1>8, <1>9, <1>10 DEF TypeOK

\* The requests that do not step stay where they are.
LEMMA Others ==
  ASSUME TypeOK, NEW r \in Requests, NEW q \in Requests \ {r},
         \/ Ask(r) \/ Reject(r) \/ Accept(r) \/ Enter(r)
         \/ Invoke(r) \/ Leave(r) \/ Answer(r) \/ EndStream(r)
  PROVE  UNCHANGED <<pc[q], depth[q], outcome[q]>>
<1>1. UNCHANGED pc[q]
  BY DEF TypeOK, Goes, Ask, Reject, Accept, Enter, PassIn, TurnAway, CountRead, CountWrite,
         CollectIn, Invoke, Leave, PassOut, Recover, CountOut, Record, CollectOut, Answer, EndStream
<1>2. UNCHANGED depth[q]
  BY DEF TypeOK, Deeper, Shallower, Ask, Reject, Accept, Enter, PassIn, TurnAway, CountRead, CountWrite,
         CollectIn, Invoke, Leave, PassOut, Recover, CountOut, Record, CollectOut, Answer, EndStream
<1>3. UNCHANGED outcome[q]
  BY DEF TypeOK, Ends, Ask, Reject, Accept, Enter, PassIn, TurnAway, CountRead, CountWrite,
         CollectIn, Invoke, Leave, PassOut, Recover, CountOut, Record, CollectOut, Answer, EndStream
<1> QED
  BY <1>1, <1>2, <1>3

LEMMA PlacesStep ==
  ASSUME TypeOK, Places, NEW r \in Requests,
         \/ Ask(r) \/ Reject(r) \/ Accept(r) \/ Enter(r)
         \/ Invoke(r) \/ Leave(r) \/ Answer(r) \/ EndStream(r)
  PROVE  Places'
<1>1. scenario' = scenario /\ UNCHANGED <<chain, method, proxy, Mode>>
  BY SameScenario, SameChain
<1> DEFINE Place(q) ==
             /\ pc[q] \notin {"down", "counting", "up", "recorded"} => depth[q] = 0
             /\ pc[q] = "counting" => Before(q, {"Metrics"})
             /\ pc[q] = "recorded" => Within(q, {"Collector"}) /\ Records(q)
             /\ pc[q] \in {"down", "counting", "up", "recorded"} => Parsed(method) /\ Mode = "ReqRep"
             /\ pc[q] \in {"call", "over"} => Parsed(method) /\ Mode # "ReqRep"
<1>2. \A q \in Requests \ {r} : Place(q)'
  <2> SUFFICES ASSUME NEW q \in Requests \ {r} PROVE Place(q)'
    OBVIOUS
  <2>1. UNCHANGED <<pc[q], depth[q], outcome[q]>>
    BY Others
  <2> QED
    BY <1>1, <2>1 DEF Places, Before, Within, Records
<1>3. Place(r)'
  <2>1. pc'[r] \in {"down", "up"} /\ pc[r] \in {"down", "counting", "up", "recorded"} => Place(r)'
    BY <1>1 DEF Places
  <2>2. CASE Enter(r) /\ ~CountRead(r)
    BY <2>1, <2>2 DEF TypeOK, Enter, PassIn, TurnAway, CountWrite, CollectIn, Goes
  <2>3. CASE Leave(r) /\ ~Record(r)
    BY <2>1, <2>3 DEF TypeOK, Leave, PassOut, Recover, CountOut, CollectOut, Goes
  <2>4. CASE CountRead(r)
    BY <1>1, <2>4 DEF TypeOK, Places, CountRead, Goes, Before
  <2>5. CASE Record(r)
    BY <1>1, <2>5 DEF TypeOK, Places, Record, Goes, Within, Records
  <2>6. CASE Ask(r) \/ Reject(r) \/ EndStream(r) \/ Answer(r)
    BY <1>1, <2>6 DEF TypeOK, Places, Ask, Reject, EndStream, Answer, Goes
  <2>7. CASE Accept(r)
    BY <1>1, <2>7 DEF TypeOK, Places, Accept, Goes
  <2>8. CASE Invoke(r)
    BY <1>1, <2>8 DEF TypeOK, Places, Invoke, Goes
  <2> QED
    BY <2>2, <2>3, <2>4, <2>5, <2>6, <2>7, <2>8
<1> QED
  BY <1>2, <1>3 DEF Places
(* Counts. *)

NoCount == UNCHANGED <<total, active, recorded, met>>

\* What a step does to the depth of its request and to the counts.
Effect(r) ==
  \/ depth' = depth /\ chain' = chain /\ NoCount
  \/ NoCount /\ \E mw \in {"Recovery", "Through", "Auth"} : StepsIn(r, mw)
  \/ StepsIn(r, "Metrics") /\ total' = read[r] + 1 /\ UNCHANGED <<active, recorded, met>>
  \/ StepsIn(r, "Collector") /\ active' = active + 1 /\ met' = met \union {r} /\ UNCHANGED <<total, recorded>>
  \/ NoCount /\ \E mw \in {"Recovery", "Through", "Auth", "Metrics"} : StepsOut(r, mw)
  \/ depth' = depth /\ chain' = chain /\ recorded' = recorded + 1 /\ UNCHANGED <<total, active, met>>
  \/ StepsOut(r, "Collector") /\ active' = active - 1 /\ UNCHANGED <<total, recorded, met>>

LEMMA Effects ==
  ASSUME TypeOK, Places, NEW r \in Requests,
         \/ Ask(r) \/ Reject(r) \/ Accept(r) \/ Enter(r)
         \/ Invoke(r) \/ Leave(r) \/ Answer(r) \/ EndStream(r)
  PROVE  Effect(r)
<1>1. chain' = chain
  BY SameScenario, SameChain
<1>2. CASE Ask(r) \/ Reject(r) \/ Accept(r) \/ TurnAway(r) \/ CountRead(r) \/ Invoke(r)
           \/ Answer(r) \/ EndStream(r)
  BY <1>1, <1>2 DEF Effect, NoCount, metrics, Ask, Reject, Accept, TurnAway, CountRead, Invoke,
                    Answer, EndStream
<1>3. CASE PassIn(r)
  BY <1>1, <1>3 DEF Effect, NoCount, metrics, PassIn, Before, Deeper, StepsIn
<1>4. CASE CountWrite(r)
  BY <1>1, <1>4 DEF Effect, CountWrite, Goes, Places, Before, Deeper, StepsIn
<1>5. CASE CollectIn(r)
  BY <1>1, <1>5 DEF Effect, CollectIn, Before, Deeper, StepsIn
<1>6. CASE PassOut(r) \/ Recover(r) \/ CountOut(r)
  BY <1>1, <1>6 DEF Effect, NoCount, metrics, PassOut, Recover, CountOut, Within, Shallower, StepsOut
<1>7. CASE Record(r)
  BY <1>1, <1>7 DEF Effect, Record
<1>8. CASE CollectOut(r)
  <2>1. Within(r, {"Collector"})
    BY <1>8 DEF CollectOut, Goes, Places
  <2> QED
    BY <1>1, <1>8, <2>1 DEF Effect, CollectOut, Within, Shallower, Deferred, StepsOut
<1> QED
  BY <1>2, <1>3, <1>4, <1>5, <1>6, <1>7, <1>8 DEF Enter, Leave

\* A request about to enter the collector is not in it, as there is one only.
LEMMA NotYetInside ==
  ASSUME TypeOK, NEW r \in Requests, StepsIn(r, "Collector")
  PROVE  r \notin Inside("Collector")
<1>1. depth[r] \in Nat /\ depth[r] < Len(chain) /\ Len(chain) \in Nat
  BY Chain DEF TypeOK, ChainFacts, StepsIn
<1>2. depth[r] + 1 \in 1..Len(chain)
  BY <1>1
<1>3. \A i \in 1..depth[r] : i \in 1..Len(chain) /\ i # depth[r] + 1
  BY <1>1
<1> QED
  BY <1>2, <1>3, Chain DEF ChainFacts, Inside, StepsIn

LEMMA ActiveStep ==
  ASSUME TypeOK, ActiveExact, NEW r \in Requests, Effect(r)
  PROVE  ActiveExact'
<1> DEFINE I == Inside("Collector")
<1>1. IsFiniteSet(I) /\ Cardinality(I) \in Nat
  BY ChainFinite DEF Inside
<1>2. CASE active' = active /\ I' = I
  BY <1>2 DEF ActiveExact
<1>3. CASE StepsIn(r, "Collector") /\ active' = active + 1
  <2>1. I' = I \union {r} /\ r \notin I
    BY <1>3, EntersInside, NotYetInside
  <2> QED
    BY <1>1, <1>3, <2>1, FS_AddElement DEF ActiveExact
<1>4. CASE StepsOut(r, "Collector") /\ active' = active - 1
  <2>1. I' = I \ {r} /\ r \in I
    BY <1>4, LeavesInside
  <2> QED
    BY <1>1, <1>4, <2>1, FS_RemoveElement DEF ActiveExact
<1>5. (depth' = depth /\ chain' = chain) => I' = I
  BY StaysInside
<1>6. \A k : k # "Collector" /\ (StepsIn(r, k) \/ StepsOut(r, k)) => I' = I
  BY EntersInside, LeavesInside
<1> QED
  BY <1>2, <1>3, <1>4, <1>5, <1>6 DEF Effect, NoCount

LEMMA ZeroStep ==
  ASSUME TypeOK, NoZeroDivision, NEW r \in Requests, Effect(r)
  PROVE  NoZeroDivision'
<1>1. read[r] + 1 > 0 /\ total \in Nat
  BY DEF TypeOK
<1>2. (depth' = depth /\ chain' = chain) => Inside("Metrics")' = Inside("Metrics")
  BY StaysInside
<1>3. \A k : k # "Metrics" /\ StepsIn(r, k) => Inside("Metrics")' = Inside("Metrics")
  BY EntersInside
<1>4. \A k : StepsOut(r, k) => Inside("Metrics")' \subseteq Inside("Metrics")
  BY LeavesInside
<1>5. CASE StepsIn(r, "Metrics") /\ total' = read[r] + 1
  BY <1>1, <1>5 DEF NoZeroDivision
<1>6. CASE total' = total /\ Inside("Metrics")' \subseteq Inside("Metrics")
  BY <1>6 DEF NoZeroDivision
<1> QED
  BY <1>2, <1>3, <1>4, <1>5, <1>6 DEF Effect, NoCount
(* Panics. *)

\* Whoever is guarded outside a middleware that is not Recovery is inside it too.
LEMMA GuardedInside ==
  ASSUME ChainFacts, NEW d \in 1..Len(chain), chain[d] # "Recovery", Guarded(d - 1)
  PROVE  Guarded(d)
<1>1. PICK j \in DOMAIN chain :
        d - 1 < j /\ chain[j] = "Recovery" /\ \A k \in ((d - 1) + 1)..(j - 1) : chain[k] # "Auth"
  BY DEF Guarded
<1>2. j \in 1..Len(chain) /\ Len(chain) \in Nat
  BY DEF ChainFacts
<1>3. d < j
  BY <1>1, <1>2
<1>4. \A k \in (d + 1)..(j - 1) : k \in ((d - 1) + 1)..(j - 1)
  BY <1>2
<1> QED
  BY <1>1, <1>3, <1>4 DEF Guarded

\* Auth itself is not guarded: its function panics outside of what it wraps.
LEMMA AuthUnguarded ==
  ASSUME ChainFacts, NEW d \in 0..Len(chain), d < Len(chain), chain[d + 1] = "Auth"
  PROVE  ~Guarded(d)
<1> SUFFICES ASSUME NEW j \in DOMAIN chain, d < j, chain[j] = "Recovery",
                    \A k \in (d + 1)..(j - 1) : chain[k] # "Auth"
             PROVE  FALSE
  BY DEF Guarded
<1>1. j \in 1..Len(chain) /\ Len(chain) \in Nat
  BY DEF ChainFacts
<1>2. j # d + 1
  OBVIOUS
<1>3. d + 1 \in (d + 1)..(j - 1)
  BY <1>1, <1>2
<1> QED
  BY <1>3

\* What is guarded depends on the chain alone.
LEMMA SameGuard == ASSUME chain' = chain, NEW d PROVE Guarded(d)' = Guarded(d)
BY DEF Guarded

LEMMA PanicStep ==
  ASSUME TypeOK, Places, NoZeroDivision, PanicsCaught, NEW r \in Requests,
         \/ Ask(r) \/ Reject(r) \/ Accept(r) \/ Enter(r)
         \/ Invoke(r) \/ Leave(r) \/ Answer(r) \/ EndStream(r)
  PROVE  PanicsCaught'
<1>1. chain' = chain
  BY SameScenario, SameChain
<1>2. ChainFacts /\ depth[r] \in 0..Len(chain)
  BY Chain DEF TypeOK
<1> SUFFICES ASSUME NEW q \in Requests, outcome'[q] = "panic", pc'[q] \in {"up", "recorded"}
             PROVE  ~Guarded(depth'[q])
  BY <1>1 DEF PanicsCaught, Guarded
<1>3. CASE q # r
  <2>1. UNCHANGED <<pc[q], depth[q], outcome[q]>>
    BY <1>3, Others
  <2> QED
    BY <2>1 DEF PanicsCaught
<1>4. CASE q = r /\ Invoke(r)
  <2>1. depth[r] = Len(chain) /\ depth' = depth
    BY <1>4 DEF Invoke, Goes, TypeOK
  <2>2. \A j \in DOMAIN chain : ~(Len(chain) < j)
    BY <1>2 DEF ChainFacts
  <2> QED
    BY <1>4, <2>1, <2>2 DEF Guarded
<1>5. CASE q = r /\ (PassOut(r) \/ CountOut(r) \/ CollectOut(r))
  <2>1. /\ depth[r] > 0 /\ chain[depth[r]] \in {"Through", "Auth", "Metrics", "Collector"}
        /\ depth'[r] = depth[r] - 1
    BY <1>5 DEF PassOut, CountOut, CollectOut, Goes, Places, Within, Shallower, TypeOK
  <2>2. outcome[r] = "panic" /\ pc[r] \in {"up", "recorded"}
    <3>1. CASE PassOut(r) \/ CollectOut(r)
      BY <1>5, <3>1 DEF PassOut, CollectOut, Goes
    <3>2. CASE CountOut(r)
      <4>1. depth[r] \in 1..depth[r]
        BY <1>2, <2>1 DEF ChainFacts
      <4>2. r \in Inside("Metrics")
        BY <3>2, <4>1 DEF CountOut, Within, Inside
      <4>3. total # 0
        BY <4>2 DEF NoZeroDivision, TypeOK
      <4> QED
        BY <1>5, <3>2, <4>3 DEF CountOut, Ends, Goes, TypeOK
    <3> QED
      BY <1>5, <3>1, <3>2
  <2>3. ~Guarded(depth[r])
    BY <2>2 DEF PanicsCaught
  <2>4. depth[r] \in 1..Len(chain) /\ chain[depth[r]] # "Recovery"
    BY <1>2, <2>1 DEF ChainFacts
  <2> QED
    BY <1>2, <1>5, <2>1, <2>3, <2>4, GuardedInside
<1>6. CASE q = r /\ TurnAway(r)
  <2>1. depth[r] < Len(chain) /\ chain[depth[r] + 1] = "Auth" /\ depth' = depth
    BY <1>6 DEF TurnAway, Before, Ends, TypeOK
  <2> QED
    BY <1>2, <1>6, <2>1, AuthUnguarded
<1>9. CASE q = r /\ Recover(r)
  BY <1>9 DEF Recover, Recovered, Ends, TypeOK
<1>7. CASE q = r /\ Record(r)
  BY <1>7 DEF Record, Records
<1>8. CASE q = r /\ (Ask(r) \/ Reject(r) \/ Accept(r) \/ PassIn(r) \/ CountRead(r) \/ CountWrite(r)
                     \/ CollectIn(r) \/ Answer(r) \/ EndStream(r))
  BY <1>8 DEF Ask, Reject, Accept, PassIn, CountRead, CountWrite, CollectIn, Answer, EndStream,
              Goes, TypeOK
<1> QED
  BY <1>3, <1>4, <1>5, <1>6, <1>7, <1>8, <1>9 DEF Enter, Leave

(* The requests the collector has met. *)

LEMMA MetStep ==
  ASSUME TypeOK, Places, PanicsCaught, MetOnce, NEW r \in Requests,
         \/ Ask(r) \/ Reject(r) \/ Accept(r) \/ Enter(r)
         \/ Invoke(r) \/ Leave(r) \/ Answer(r) \/ EndStream(r)
  PROVE  MetOnce'
<1> DEFINE I == Inside("Collector")
           early == {"new", "sent", "down", "counting"}
<1>1. chain' = chain /\ (RecoveryInside' <=> RecoveryInside)
  BY SameScenario, SameChain DEF RecoveryInside, Guarded
<1>2. \A q \in Requests \ {r} : pc'[q] = pc[q]
  BY Others
<1>3. I \subseteq met /\ met \subseteq Requests /\ \A q \in met : pc[q] \in early => q \in I
  BY DEF MetOnce, TypeOK
<1> HIDE DEF I
<1>4. CASE CollectIn(r)
  <2>1. StepsIn(r, "Collector") /\ met' = met \union {r} /\ recorded' = recorded
        /\ pc[r] = "down" /\ pc'[r] = "down"
    BY <1>1, <1>4 DEF CollectIn, Before, Deeper, StepsIn, Goes, TypeOK
  <2>2. I' = I \union {r} /\ r \notin I
    BY <2>1, EntersInside, NotYetInside DEF I
  <2>3. r \notin met
    BY <1>3, <2>1, <2>2
  <2>4. Counted' = Counted
    BY <1>2, <1>3, <2>1, <2>2, <2>3 DEF Counted, I
  <2> QED
    BY <1>1, <1>2, <1>3, <2>1, <2>2, <2>4 DEF MetOnce, I
<1>5. CASE Record(r)
  <2>1. depth' = depth /\ met' = met /\ recorded' = recorded + 1 /\ Within(r, {"Collector"})
        /\ pc[r] = "up" /\ pc'[r] = "recorded"
    BY <1>5 DEF Record, Goes, TypeOK
  <2>2. I' = I
    BY <1>1, <2>1, StaysInside DEF I
  <2>3. r \in I
    <3>1. depth[r] \in 1..depth[r]
      BY <2>1, Chain DEF TypeOK, ChainFacts, Within
    <3> QED
      BY <2>1, <3>1 DEF I, Inside, Within
  <2>4. Counted' = Counted \union {r} /\ r \notin Counted /\ Counted \subseteq Requests
    BY <1>2, <1>3, <2>1, <2>2, <2>3 DEF Counted, I
  <2>5. RecoveryInside => recorded' = Cardinality(Counted')
    BY <2>1, <2>4, ChainFinite, FS_AddElement DEF MetOnce
  <2> QED
    BY <1>1, <1>2, <1>3, <2>1, <2>2, <2>5 DEF MetOnce, I
<1>6. CASE CollectOut(r)
  <2>1. Within(r, {"Collector"}) /\ met' = met /\ recorded' = recorded
        /\ pc[r] \in {"up", "recorded"} /\ pc'[r] = "up"
    BY <1>6 DEF CollectOut, Goes, Places, TypeOK
  <2>2. StepsOut(r, "Collector")
    BY <1>1, <1>6, <2>1 DEF CollectOut, Within, Shallower, StepsOut
  <2>3. I' = I \ {r} /\ r \in I
    BY <2>2, LeavesInside DEF I
  <2>4. RecoveryInside => pc[r] = "recorded"
    <3>1. SUFFICES ASSUME NEW i \in DOMAIN chain, chain[i] = "Collector", Guarded(i), pc[r] = "up"
                   PROVE  FALSE
      BY <2>1 DEF RecoveryInside
    <3>2. ~Guarded(depth[r])
      BY <1>6, <3>1 DEF CollectOut, Goes, Records, PanicsCaught
    <3>3. depth[r] \in 1..Len(chain) /\ chain[depth[r]] = "Collector" /\ i \in 1..Len(chain)
      BY <2>2, Chain DEF StepsOut, TypeOK, ChainFacts
    <3>4. depth[r] = i
      BY <3>1, <3>3, Chain DEF ChainFacts
    <3> QED
      BY <3>1, <3>2, <3>4
  <2>5. RecoveryInside => Counted' = Counted
    BY <1>2, <1>3, <2>1, <2>3, <2>4 DEF Counted, I
  <2> QED
    BY <1>1, <1>2, <1>3, <2>1, <2>3, <2>5 DEF MetOnce, I
<1>7. CASE ~CollectIn(r) /\ ~Record(r) /\ ~CollectOut(r)
  <2>1. met' = met /\ recorded' = recorded
    BY <1>7 DEF Ask, Reject, Accept, Enter, PassIn, TurnAway, CountRead, CountWrite, metrics,
         Invoke, Leave, PassOut, Recover, CountOut, Answer, EndStream
  <2>2. I' = I
    <3>1. CASE depth' = depth
      BY <1>1, <3>1, StaysInside DEF I
    <3>2. CASE PassIn(r) \/ CountWrite(r)
      <4>1. \E k \in {"Recovery", "Through", "Auth", "Metrics"} : StepsIn(r, k)
        BY <1>1, <3>2 DEF PassIn, CountWrite, Goes, Places, Before, Deeper, StepsIn
      <4> QED
        BY <4>1, EntersInside DEF I
    <3>3. CASE PassOut(r) \/ Recover(r) \/ CountOut(r)
      <4>1. \E k \in {"Recovery", "Through", "Auth", "Metrics"} : StepsOut(r, k)
        BY <1>1, <3>3 DEF PassOut, Recover, CountOut, Within, Shallower, StepsOut
      <4> QED
        BY <4>1, LeavesInside DEF I
    <3> QED
      BY <1>7, <3>1, <3>2, <3>3 DEF Ask, Reject, Accept, Enter, TurnAway, CountRead, Invoke, Leave,
                                    Answer, EndStream
  <2>3. (pc'[r] = "recorded" <=> pc[r] = "recorded") /\ (pc'[r] \in early => pc[r] \in early)
    BY <1>7 DEF TypeOK, Goes, Ask, Reject, Accept, Enter, PassIn, TurnAway, CountRead, CountWrite,
         Invoke, Leave, PassOut, Recover, CountOut, Answer, EndStream
  <2>4. Counted' = Counted
    BY <1>2, <1>3, <2>1, <2>2, <2>3 DEF Counted, I
  <2> QED
    BY <1>1, <1>2, <1>3, <2>1, <2>2, <2>3, <2>4 DEF MetOnce, I
<1> QED
  BY <1>4, <1>5, <1>6, <1>7

(* The theorems. *)

LEMMA InvInit == Init => DInv
<1> SUFFICES ASSUME Init PROVE DInv
  OBVIOUS
<1>1. Len(chain) \in Nat
  BY ScenariosAssumption DEF Init, chain
<1>2. TypeOK
  BY <1>1 DEF Init, TypeOK, Outcomes
<1>3. Places
  BY DEF Init, Places
<1>4. Inside("Collector") = {} /\ Inside("Metrics") = {} /\ Counted = {}
  BY DEF Init, Inside, Counted
<1>5. ActiveExact /\ NoZeroDivision /\ MetOnce
  BY <1>4, FS_EmptySet DEF Init, ActiveExact, NoZeroDivision, MetOnce
<1>6. PanicsCaught
  BY DEF Init, PanicsCaught
<1> QED
  BY <1>2, <1>3, <1>5, <1>6 DEF DInv

LEMMA InvStep == DInv /\ [Next]_vars => DInv'
<1> SUFFICES ASSUME DInv, [Next]_vars PROVE DInv'
  OBVIOUS
<1>1. CASE UNCHANGED vars
  BY <1>1 DEF vars, calls, metrics, DInv, TypeOK, Places, ActiveExact, NoZeroDivision, PanicsCaught, MetOnce,
              RecoveryInside, Guarded, Counted, Inside, Before, Within, Records, Mode, method, chain
<1>2. ASSUME NEW r \in Requests,
             \/ Ask(r) \/ Reject(r) \/ Accept(r) \/ Enter(r)
             \/ Invoke(r) \/ Leave(r) \/ Answer(r) \/ EndStream(r)
      PROVE  DInv'
  <2>1. TypeOK /\ Places /\ ActiveExact /\ NoZeroDivision /\ PanicsCaught /\ MetOnce
    BY DEF DInv
  <2>2. TypeOK' /\ Places' /\ Effect(r)
    BY <1>2, <2>1, TypeStep, PlacesStep, Effects
  <2>3. ActiveExact' /\ NoZeroDivision'
    BY <2>1, <2>2, ActiveStep, ZeroStep
  <2>4. PanicsCaught' /\ MetOnce'
    BY <1>2, <2>1, PanicStep, MetStep
  <2> QED
    BY <2>2, <2>3, <2>4 DEF DInv
<1> QED
  BY <1>1, <1>2 DEF Next

\* The invariant: the collector's gauge is exact, Metrics does not divide by zero
\* and no panic gets past Recovery, whatever the chain, the signatures and the
\* order of the requests' steps (handleReqRep and the middlewares).
THEOREM DispatchInvariant == Spec => []DInv
<1>1. Init => DInv
  BY InvInit
<1>2. DInv /\ [Next]_vars => DInv'
  BY InvStep
<1> QED
  BY <1>1, <1>2, PTL DEF Spec

\* With Recovery further in, the collector accounts for every request it has met.
THEOREM CollectorLosesNone == Spec => []NoneLost
<1>1. DInv => NoneLost
  <2> SUFFICES ASSUME DInv, RecoveryInside
               PROVE  Cardinality(met) =
                        recorded + Cardinality({r \in Inside("Collector") : pc[r] # "recorded"})
    BY DEF NoneLost
  <2> DEFINE U == {r \in Inside("Collector") : pc[r] # "recorded"}
  <2>1. met = Counted \union U /\ Counted \intersect U = {} /\ Counted \subseteq Requests /\ U \subseteq Requests
    BY DEF DInv, MetOnce, Counted, TypeOK, Inside
  <2>2. IsFiniteSet(Counted) /\ IsFiniteSet(U) /\ Cardinality(Counted) \in Nat /\ Cardinality(U) \in Nat
    BY <2>1, ChainFinite
  <2> HIDE DEF U
  <2>3. Cardinality(Counted \union U)
          = Cardinality(Counted) + Cardinality(U) - Cardinality(Counted \intersect U)
    BY <2>2, FS_Union
  <2>4. Cardinality(Counted \intersect U) = 0
    BY <2>1, FS_EmptySet
  <2>5. recorded = Cardinality(Counted)
    BY DEF DInv, MetOnce
  <2>6. Cardinality(met) = recorded + Cardinality(U)
    BY <2>1, <2>2, <2>3, <2>4, <2>5
  <2> QED
    BY <2>6 DEF U
<1> QED
  BY <1>1, DispatchInvariant, PTL
(* The answer. *)

LEMMA AnswerInit == Init => Answered
BY DEF Init, Answered

LEMMA AnswerStep == DInv /\ Answered /\ [Next]_vars => Answered'
<1> SUFFICES ASSUME DInv, Answered, [Next]_vars PROVE Answered'
  OBVIOUS
<1>1. CASE UNCHANGED vars
  BY <1>1 DEF vars, Answered, Guarded, Mode, method, chain
<1>2. ASSUME NEW r \in Requests,
             \/ Ask(r) \/ Reject(r) \/ Accept(r) \/ Enter(r)
             \/ Invoke(r) \/ Leave(r) \/ Answer(r) \/ EndStream(r)
      PROVE  Answered'
  <2>1. chain' = chain /\ method' = method /\ Mode' = Mode /\ TypeOK /\ Places
    BY <1>2, SameScenario, SameChain DEF DInv
  <2> SUFFICES ASSUME NEW q \in Requests, pc'[q] = "done", Parsed(method) => Mode = "ReqRep",
                      Guarded(0)
               PROVE  replies'[q] = {"answer"}
    BY <2>1 DEF Answered, Guarded
  <2>2. CASE q # r
    <3>1. pc'[q] = pc[q]
      BY <1>2, <2>1, <2>2, Others
    <3>2. replies'[q] = replies[q]
      BY <1>2, <2>1, <2>2 DEF TypeOK, Ask, Reject, Accept, Enter, PassIn, TurnAway, CountRead,
         CountWrite, CollectIn, Invoke, Leave, PassOut, Recover, CountOut, Record, CollectOut,
         Answer, EndStream
    <3> QED
      BY <3>1, <3>2 DEF Answered
  <2>3. CASE q = r /\ Reject(r)
    BY <2>1, <2>3 DEF Reject, TypeOK
  <2>4. CASE q = r /\ Answer(r)
    <3>1. pc[r] = "up" /\ depth[r] = 0
      BY <2>4 DEF Answer, Goes
    <3>4. outcome[r] # "panic"
      BY <3>1 DEF DInv, PanicsCaught
    <3> QED
      BY <2>1, <2>4, <3>4 DEF Answer, TypeOK
  <2>5. CASE q = r /\ EndStream(r)
    <3>1. FALSE
      BY <2>1, <2>5 DEF EndStream, Goes, Places
    <3> QED
      BY <3>1
  <2>6. CASE q = r /\ ~Reject(r) /\ ~Answer(r) /\ ~EndStream(r)
    <3>1. pc'[r] # "done"
      BY <1>2, <2>1, <2>6 DEF TypeOK, Goes, Ask, Accept, Enter, PassIn, TurnAway, CountRead,
         CountWrite, CollectIn, Invoke, Leave, PassOut, Recover, CountOut, Record, CollectOut
    <3> QED
      BY <2>6, <3>1
  <2> QED
    BY <2>2, <2>3, <2>4, <2>5, <2>6
<1> QED
  BY <1>1, <1>2 DEF Next

\* A unary request is answered exactly once it is done, if the chain has a Recovery
\* outside of Auth: the method may panic, and so may the reflective call and Auth's
\* function.
THEOREM RecoveryAnswers == Spec => []Answered
<1>1. Init => DInv /\ Answered
  BY InvInit, AnswerInit
<1>2. DInv /\ Answered /\ [Next]_vars => DInv' /\ Answered'
  BY InvStep, AnswerStep
<1> QED
  BY <1>1, <1>2, PTL DEF Spec
(* What runs, and what the two ends make of it. *)

\* The request can be turned into a call of the method.
CanRun == Parsed(method) /\ Callable(method, Sends(proxy) = "data")

\* Nothing on the way turns a request away.
NoObstacle ==
  Parsed(method) /\ scenario.typed /\ ToSet(chain) \intersect {"Auth", "TokenAuth"} = {}

\* A request runs the method if it can and nothing stops it, and never else; a
\* stream that is served is sent its end unless the method has received io.EOF; a
\* proxy that sends is not refused.
RunInv ==
  /\ ran # {} => CanRun
  /\ NoObstacle /\ CanRun =>
       \A r \in Requests : pc[r] \in {"up", "recorded", "over", "done"} => r \in ran
  /\ Parsed(method) /\ scenario.typed /\ Mode # "ReqRep" =>
       \A r \in Requests : pc[r] = "done" => "end" \in replies[r] \/ r \in eof
  /\ \A r \in Requests : pc[r] = "refused" => Sends(proxy) = "nothing"

LEMMA RunInit == Init => RunInv
BY DEF Init, RunInv

LEMMA RunStep == DInv /\ RunInv /\ [Next]_vars => RunInv'
<1> SUFFICES ASSUME DInv, RunInv, [Next]_vars PROVE RunInv'
  OBVIOUS
<1>1. CASE UNCHANGED vars
  BY <1>1 DEF vars, calls, RunInv, CanRun, NoObstacle, Mode, method, proxy, chain
<1>2. ASSUME NEW r \in Requests,
             \/ Ask(r) \/ Reject(r) \/ Accept(r) \/ Enter(r)
             \/ Invoke(r) \/ Leave(r) \/ Answer(r) \/ EndStream(r)
      PROVE  RunInv'
  <2>1. /\ scenario' = scenario /\ chain' = chain /\ method' = method /\ proxy' = proxy /\ Mode' = Mode
        /\ TypeOK /\ Places /\ ChainFacts
    BY <1>2, SameScenario, SameChain, Chain DEF DInv
  <2>2. (CanRun' <=> CanRun) /\ (NoObstacle' <=> NoObstacle)
    BY <2>1 DEF CanRun, NoObstacle
  <2>3. \A q \in Requests \ {r} : pc'[q] = pc[q]
    BY <1>2, <2>1, Others
  <2>4. \A q \in Requests \ {r} : replies'[q] = replies[q]
    BY <1>2, <2>1 DEF TypeOK, Ask, Reject, Accept, Enter, PassIn, TurnAway, CountRead,
       CountWrite, CollectIn, Invoke, Leave, PassOut, Recover, CountOut, Record, CollectOut,
       Answer, EndStream
  <2>5. CASE Invoke(r)
    <3>1. Parsed(method)
      BY <2>1, <2>5 DEF Invoke, Goes, Places
    <3>2. CASE CanRun
      <4>1. ran' = ran \union {r} /\ replies' = replies /\ eof \subseteq eof' /\ pc'[r] \in {"up", "over"}
        BY <2>1, <2>5, <3>2 DEF Invoke, Goes, CanRun, TypeOK, calls
      <4> QED
        BY <2>1, <2>2, <2>3, <3>2, <4>1 DEF RunInv
    <3>3. CASE ~CanRun
      <4>1. ran' = ran /\ replies' = replies /\ eof' = eof /\ pc'[r] \in {"up", "over"}
        BY <2>1, <2>5, <3>1, <3>3 DEF Invoke, Goes, CanRun, TypeOK, calls
      <4> QED
        BY <2>1, <2>2, <2>3, <3>3, <4>1 DEF RunInv
    <3> QED
      BY <3>2, <3>3
  <2>6. CASE Reject(r)
    <3>1. ~Parsed(method) \/ ~scenario.typed
      BY <2>6 DEF Reject
    <3>2. ran' = ran /\ eof' = eof /\ pc'[r] = "done"
      BY <2>1, <2>6 DEF Reject, Goes, TypeOK, calls
    <3> QED
      BY <2>1, <2>2, <2>3, <3>1, <3>2 DEF RunInv, NoObstacle
  <2>7. CASE TurnAway(r)
    <3>1. depth[r] \in 0..Len(chain) /\ Before(r, {"Auth", "TokenAuth"})
      BY <2>1, <2>7 DEF TurnAway, Before, TypeOK
    <3>2. depth[r] + 1 \in DOMAIN chain
      BY <2>1, <3>1 DEF Before, ChainFacts
    <3>3. ~NoObstacle
      BY <3>1, <3>2 DEF NoObstacle, Before, ToSet
    <3>4. ran' = ran /\ eof' = eof /\ replies' = replies /\ pc'[r] = "up"
      BY <2>1, <2>7 DEF TurnAway, Goes, TypeOK, calls
    <3> QED
      BY <2>1, <2>2, <2>3, <3>3, <3>4 DEF RunInv
  <2>8. CASE Ask(r)
    <3>1. ran' = ran /\ eof' = eof /\ replies' = replies /\ pc'[r] = IF Sends(proxy) = "nothing" THEN "refused" ELSE "sent"
      BY <2>1, <2>8 DEF Ask, Goes, TypeOK, calls
    <3> QED
      BY <2>1, <2>2, <2>3, <3>1 DEF RunInv
  <2>9. CASE Answer(r)
    <3>1. ran' = ran /\ eof' = eof /\ pc[r] = "up" /\ pc'[r] = "done" /\ Mode = "ReqRep"
      BY <2>1, <2>9 DEF Answer, Goes, TypeOK, Places, calls
    <3> QED
      BY <2>1, <2>2, <2>3, <3>1 DEF RunInv
  <2>10. CASE EndStream(r)
    <3>1. ran' = ran /\ eof' = eof /\ pc[r] = "over" /\ pc'[r] = "done" /\ ("end" \in replies'[r] \/ r \in eof)
      BY <2>1, <2>10 DEF EndStream, Goes, TypeOK, calls
    <3> QED
      BY <2>1, <2>2, <2>3, <2>4, <3>1 DEF RunInv
  <2>11. CASE Accept(r) \/ PassIn(r) \/ CountRead(r) \/ CountWrite(r) \/ CollectIn(r)
    <3>1. ran' = ran /\ eof' = eof /\ replies' = replies /\ pc'[r] \in {"down", "counting", "call"}
      BY <2>1, <2>11 DEF Accept, PassIn, CountRead, CountWrite, CollectIn, Goes, TypeOK, calls
    <3> QED
      BY <2>1, <2>2, <2>3, <3>1 DEF RunInv
  <2>12. CASE Leave(r)
    <3>1. ran' = ran /\ eof' = eof /\ replies' = replies /\ pc[r] \in {"up", "recorded"} /\ pc'[r] \in {"up", "recorded"}
      BY <2>1, <2>12 DEF Leave, PassOut, Recover, CountOut, Record, CollectOut, Goes, TypeOK, calls
    <3> QED
      BY <2>1, <2>2, <2>3, <3>1 DEF RunInv
  <2> QED
    BY <1>2, <2>5, <2>6, <2>7, <2>8, <2>9, <2>10, <2>11, <2>12 DEF Enter
<1> QED
  BY <1>1, <1>2 DEF Next

LEMMA RunKept == Spec => [](DInv /\ RunInv)
<1>1. Init => DInv /\ RunInv
  BY InvInit, RunInit
<1>2. DInv /\ RunInv /\ [Next]_vars => DInv' /\ RunInv'
  BY InvStep, RunStep
<1> QED
  BY <1>1, <1>2, PTL DEF Spec

LEMMA Signed == TypeOK => method \in Signature /\ proxy \in Signature
BY ScenariosAssumption DEF TypeOK, method, proxy

\* Only reachable methods run, for any signature, proxy, argument and chain: what
\* buildParams cannot fill makes Func.Call panic (buildParams and invoke).
THEOREM UnreachableNeverRun == Spec => []OnlyReachable
<1>1. DInv /\ RunInv => OnlyReachable
  <2> SUFFICES ASSUME DInv, RunInv, ran # {} PROVE Parsed(method) /\ Reachable(method)
    BY DEF OnlyReachable
  <2>1. Parsed(method) /\ Callable(method, Sends(proxy) = "data")
    BY DEF RunInv, CanRun
  <2>2. method \in Signature /\ Len(method.params) >= 1
    BY <2>1, Signed DEF DInv, Parsed
  <2>3. (Sends(proxy) = "data") \in BOOLEAN
    OBVIOUS
  <2> QED
    BY <2>1, <2>2, <2>3, CallableExactly
<1> QED
  BY <1>1, RunKept, PTL

\* For any documented method the server sends what its proxy waits for, in a value
\* of the proxy's type, a stream's end unless the method has received io.EOF; and the
\* method runs unless it is a stream without a request, in any number of requests and
\* behind any chain (Decorator, detectMode, buildParams, handleBidiStream).
THEOREM EndsUnderstand == Spec => []Understood
<1>1. DInv /\ RunInv /\ Answered => Understood
  <2> SUFFICES ASSUME DInv, RunInv, Answered, Documented(method), proxy = Counterpart(method),
                      scenario.typed
               PROVE  /\ WaitsFor(proxy) = IF Mode = "ReqRep" THEN "answer" ELSE "end"
                      /\ ReturnsFit(proxy)
                      /\ \A r \in Requests :
                           /\ pc[r] # "refused"
                           /\ pc[r] \in {"over", "done"} /\ ToSet(chain) \intersect {"Auth", "TokenAuth"} = {} =>
                                (r \in ran <=> Mode = "ReqRep" \/ HasRequest(method))
                           /\ pc[r] = "done" /\ Guarded(0) => WaitsFor(proxy) \in replies[r] \/ r \in eof
    BY DEF Understood
  <2>1. method \in Signature /\ Parsed(method) /\ Mode = ServerMode(method)
    BY Signed DEF DInv, Documented, Mode
  <2>2. /\ Mode = "ReqRep" => WaitsFor(proxy) = "answer" /\ Sends(proxy) = "data"
        /\ Mode # "ReqRep" => WaitsFor(proxy) = "end" /\ Sends(proxy) \in {"data", "no data"}
        /\ ReturnsFit(proxy)
    BY <2>1, EndsAgree
  <2>3. CanRun <=> Mode = "ReqRep" \/ HasRequest(method)
    BY <2>1, DocumentedCallable DEF CanRun
  <2>4. ASSUME NEW r \in Requests PROVE pc[r] # "refused"
    BY <2>2 DEF RunInv
  <2>5. ASSUME NEW r \in Requests, pc[r] \in {"over", "done"},
               ToSet(chain) \intersect {"Auth", "TokenAuth"} = {}
        PROVE  r \in ran <=> Mode = "ReqRep" \/ HasRequest(method)
    BY <2>1, <2>3, <2>5 DEF RunInv, NoObstacle
  <2>6. ASSUME NEW r \in Requests, pc[r] = "done", Guarded(0)
        PROVE  WaitsFor(proxy) \in replies[r] \/ r \in eof
    <3>1. CASE Mode = "ReqRep"
      BY <2>2, <2>6, <3>1 DEF Answered
    <3>2. CASE Mode # "ReqRep"
      BY <2>1, <2>2, <2>6, <3>2 DEF RunInv
    <3> QED
      BY <3>1, <3>2
  <2> QED
    BY <2>2, <2>4, <2>5, <2>6
<1> QED
  BY <1>1, RunKept, RecoveryAnswers, PTL
=============================================================================
