---------------------------- MODULE ContractProofs ----------------------------
(***************************************************************************)
(* What the abstract specifications say, spelt out as invariants and step  *)
(* properties, for every instance of them: the contract of a proxy call,   *)
(* of a stream, and of the connection pool.  Whatever implements one of    *)
(* them (UnaryRpc, StreamServer, StreamClient, ConnPool) gives its users   *)
(* these guarantees.                                                       *)
(***************************************************************************)
EXTENDS RpcContract, StreamContract, Lending, FiniteSetTheorems, TLAPS

\* The caller of a proxy function is told of a success only if the method has
\* run for the attempt it was told at, of a failure only after the last attempt;
\* and the method has run for attempts that were made, for no others.
CallPromise ==
  /\ good \subseteq ran
  /\ \A c \in Calls :
       /\ answer[c] = "ok" => <<c, tries[c]>> \in good
       /\ answer[c] = "error" => tries[c] = Retry
       /\ \A i \in 0..Retry : <<c, i>> \in ran => phase[c] # "idle" /\ i <= tries[c]

\* With it, an answer is given when the call returns and not before.
CallInv ==
  /\ tries \in [Calls -> Nat]
  /\ phase \in [Calls -> {"idle", "trying", "returned"}]
  /\ answer \in [Calls -> {"none", "ok", "error"}]
  /\ \A c \in Calls : answer[c] = "none" <=> phase[c] # "returned"
  /\ CallPromise

LEMMA CallStep == CallInv /\ [ContractNext]_contractVars => CallInv'
<1> SUFFICES ASSUME CallInv, [ContractNext]_contractVars PROVE CallInv'
  OBVIOUS
<1> USE DEF CallInv, CallPromise
<1>1. ASSUME NEW c \in Calls, Enter(c) PROVE CallInv'
  BY <1>1 DEF Enter
<1>2. ASSUME NEW c \in Calls, NEW i \in 0..Retry, Run(c, i) PROVE CallInv'
  <2>1. /\ UNCHANGED <<phase, tries, answer>> /\ ran' = ran \union {<<c, i>>}
        /\ good \subseteq good' /\ good' \subseteq good \union {<<c, i>>}
        /\ phase[c] # "idle" /\ i <= tries[c]
    BY <1>2 DEF Run
  <2> QED
    BY <2>1
<1>3. ASSUME NEW c \in Calls, TryAgain(c) PROVE CallInv'
  <2>1. /\ UNCHANGED <<phase, ran, good, answer>> /\ phase[c] = "trying"
        /\ tries' = [tries EXCEPT ![c] = tries[c] + 1] /\ tries[c] \in Nat
    BY <1>3 DEF TryAgain
  <2>2. answer[c] = "none"
    BY <2>1
  <2>3. tries' \in [Calls -> Nat] /\ tries'[c] = tries[c] + 1 /\ \A d \in Calls \ {c} : tries'[d] = tries[d]
    BY <2>1
  <2>4. \A i \in 0..Retry : i <= tries[c] => i <= tries'[c]
    BY <2>1, <2>3
  <2> QED
    BY <2>1, <2>2, <2>3, <2>4
<1>4. ASSUME NEW c \in Calls, ReturnOk(c) \/ ReturnError(c) PROVE CallInv'
  <2>1. /\ UNCHANGED <<tries, ran, good>>
        /\ phase[c] = "trying" /\ phase' = [phase EXCEPT ![c] = "returned"]
        /\ \/ answer' = [answer EXCEPT ![c] = "ok"] /\ <<c, tries[c]>> \in good
           \/ answer' = [answer EXCEPT ![c] = "error"] /\ tries[c] = Retry
    BY <1>4 DEF ReturnOk, ReturnError
  <2>2. answer' \in [Calls -> {"none", "ok", "error"}]
    BY <2>1
  <2>3. phase'[c] = "returned" /\ \A d \in Calls \ {c} : phase'[d] = phase[d] /\ answer'[d] = answer[d]
    BY <2>1
  <2>4. \/ answer'[c] = "ok" /\ <<c, tries[c]>> \in good
        \/ answer'[c] = "error" /\ tries[c] = Retry
    BY <2>1
  <2>5. phase' \in [Calls -> {"idle", "trying", "returned"}]
    BY <2>1
  <2> QED
    BY <2>1, <2>2, <2>3, <2>4, <2>5
<1>5. CASE UNCHANGED contractVars
  BY <1>5 DEF contractVars
<1> QED
  BY <1>1, <1>2, <1>3, <1>4, <1>5 DEF ContractNext

\* A proxy call that keeps its contract tells its caller the truth.
THEOREM CallsTellTheTruth == ContractSpec => []CallPromise
<1>1. ContractInit => CallInv
  BY DEF ContractInit, CallInv, CallPromise
<1>2. CallInv => CallPromise
  BY DEF CallInv
<1> QED
  BY <1>1, <1>2, CallStep, PTL DEF ContractSpec
-----------------------------------------------------------------------------
\* What Recv has returned are messages of the stream, in ascending order if the
\* stream is an ordered one and each once in any case; and Recv has stopped
\* returning messages only with a cause.
StreamPromise ==
  \A s \in Streams :
    /\ \A i \in DOMAIN got[s] : got[s][i] \in 1..sent[s]
    /\ \A i, j \in DOMAIN got[s] :
         i < j => IF Ordered THEN got[s][i] < got[s][j] ELSE got[s][i] # got[s][j]
    /\ over[s] => ended[s] \/ left[s]

\* After io.EOF or a Close that Recv has noticed it returns no more messages,
\* and it never takes back one that it has returned.
StreamStays ==
  \A s \in Streams :
    /\ over[s] => over'[s] /\ got'[s] = got[s]
    /\ \A i \in DOMAIN got[s] : i \in DOMAIN got'[s] /\ got'[s][i] = got[s][i]

StreamInv ==
  /\ sent \in [Streams -> Nat]
  /\ ended \in [Streams -> BOOLEAN] /\ left \in [Streams -> BOOLEAN] /\ over \in [Streams -> BOOLEAN]
  /\ got \in [Streams -> Seq(Nat)]
  /\ StreamPromise

\* What a message adds to a sequence.
LEMMA Appended ==
  ASSUME NEW q \in Seq(Nat), NEW n \in Nat
  PROVE  /\ Append(q, n) \in Seq(Nat)
         /\ Len(q) \in Nat /\ DOMAIN q = 1..Len(q) /\ DOMAIN Append(q, n) = 1..(Len(q) + 1)
         /\ Append(q, n)[Len(q) + 1] = n
         /\ \A i \in DOMAIN q : Append(q, n)[i] = q[i]
OBVIOUS

LEMMA StreamStep ==
  StreamInv /\ [StreamNext]_streamVars => StreamInv' /\ StreamStays
<1> SUFFICES ASSUME StreamInv, [StreamNext]_streamVars PROVE StreamInv' /\ StreamStays
  OBVIOUS
<1> USE DEF StreamInv
<1>1. ASSUME NEW s \in Streams, Arrive(s) PROVE StreamInv' /\ StreamStays
  <2>1. \A t \in Streams : sent'[t] \in Nat /\ 1..sent[t] \subseteq 1..sent'[t]
    BY <1>1 DEF Arrive
  <2> QED
    BY <1>1, <2>1 DEF Arrive, StreamPromise, StreamStays
<1>2. ASSUME NEW s \in Streams, End(s) \/ Leave(s) \/ Finish(s) PROVE StreamInv' /\ StreamStays
  <2>1. UNCHANGED <<sent, got>> /\ \A t \in Streams : got[t] \in Seq(Nat)
    BY <1>2 DEF End, Leave, Finish
  <2>2. /\ ended' \in [Streams -> BOOLEAN] /\ left' \in [Streams -> BOOLEAN] /\ over' \in [Streams -> BOOLEAN]
        /\ \A t \in Streams : over[t] => over'[t]
        /\ \A t \in Streams : over'[t] => ended'[t] \/ left'[t]
    BY <1>2 DEF End, Leave, Finish, StreamPromise
  <2> QED
    BY <2>1, <2>2 DEF StreamPromise, StreamStays
<1>3. ASSUME NEW s \in Streams, NEW n \in 1..sent[s], Take(s, n) PROVE StreamInv' /\ StreamStays
  <2> DEFINE q == Append(got[s], n)
  <2>1. /\ n \in Nat /\ got[s] \in Seq(Nat) /\ UNCHANGED <<sent, ended, left>> /\ ~over[s]
        /\ got'[s] = q /\ \A t \in Streams \ {s} : got'[t] = got[t]
        /\ \A i \in DOMAIN got[s] : IF Ordered THEN got[s][i] < n ELSE got[s][i] # n
    BY <1>3 DEF Take
  <2>2. /\ q \in Seq(Nat) /\ Len(got[s]) \in Nat
        /\ DOMAIN got[s] = 1..Len(got[s]) /\ DOMAIN q = 1..(Len(got[s]) + 1)
        /\ q[Len(got[s]) + 1] = n /\ \A i \in DOMAIN got[s] : q[i] = got[s][i]
    BY <2>1, Appended
  <2> HIDE DEF q
  <2>3. \A i \in DOMAIN q : i \in DOMAIN got[s] \/ i = Len(got[s]) + 1
    BY <2>2
  <2>4. \A i \in DOMAIN q : q[i] \in 1..sent[s]
    BY <2>2, <2>3 DEF StreamPromise
  <2>5. ASSUME NEW i \in DOMAIN q, NEW j \in DOMAIN q, i < j
        PROVE  IF Ordered THEN q[i] < q[j] ELSE q[i] # q[j]
    <3>1. i \in DOMAIN got[s]
      BY <2>2, <2>5
    <3>2. CASE j \in DOMAIN got[s]
      BY <2>2, <2>5, <3>1, <3>2 DEF StreamPromise
    <3>3. CASE j = Len(got[s]) + 1
      BY <2>1, <2>2, <3>1, <3>3
    <3> QED
      BY <2>3, <3>2, <3>3
  <2>6. /\ over' \in [Streams -> BOOLEAN]
        /\ \A t \in Streams : over[t] => over'[t]
        /\ \A t \in Streams : over'[t] => over[t] \/ left[t]
    BY <1>3 DEF Take
  <2>7. got' \in [Streams -> Seq(Nat)]
    BY <1>3, <2>1, <2>2 DEF Take
  <2>8. StreamPromise'
    <3> SUFFICES ASSUME NEW t \in Streams
                 PROVE  /\ \A i \in DOMAIN got'[t] : got'[t][i] \in 1..sent[t]
                        /\ \A i, j \in DOMAIN got'[t] :
                             i < j => IF Ordered THEN got'[t][i] < got'[t][j] ELSE got'[t][i] # got'[t][j]
                        /\ over'[t] => ended[t] \/ left[t]
      BY <2>1 DEF StreamPromise
    <3>1. CASE t = s
      BY <2>1, <2>4, <2>5, <2>6, <3>1 DEF StreamPromise
    <3>2. CASE t # s
      <4>1. got'[t] = got[t]
        BY <2>1, <3>2
      <4> QED
        BY <2>6, <4>1 DEF StreamPromise
    <3> QED
      BY <3>1, <3>2
  <2>9. StreamStays
    <3> SUFFICES ASSUME NEW t \in Streams
                 PROVE  /\ over[t] => over'[t] /\ got'[t] = got[t]
                        /\ \A i \in DOMAIN got[t] : i \in DOMAIN got'[t] /\ got'[t][i] = got[t][i]
      BY DEF StreamStays
    <3>1. CASE t = s
      BY <2>1, <2>2, <3>1
    <3>2. CASE t # s
      <4>1. got'[t] = got[t]
        BY <2>1, <3>2
      <4> QED
        BY <2>6, <4>1
    <3> QED
      BY <3>1, <3>2
  <2> QED
    BY <2>1, <2>6, <2>7, <2>8, <2>9
<1>4. CASE UNCHANGED streamVars
  BY <1>4 DEF streamVars, StreamPromise, StreamStays
<1> QED
  BY <1>1, <1>2, <1>3, <1>4 DEF StreamNext

\* A stream that keeps its contract hands out its own messages, each once.
THEOREM StreamsHandOutTheirOwn == StreamSpec => []StreamPromise /\ [][StreamStays]_streamVars
<1>1. StreamInit => StreamInv
  BY DEF StreamInit, StreamInv, StreamPromise
<1>2. StreamInv => StreamPromise
  BY DEF StreamInv
<1> QED
  BY <1>1, <1>2, StreamStep, PTL DEF StreamSpec
-----------------------------------------------------------------------------
\* A connection is with one lease at most, and not with the idle ones as well;
\* and no address has more than Size.
LendPromise ==
  /\ \A l, k \in Leases : l # k => held[l] \intersect held[k] = {}
  /\ \A l \in Leases : held[l] \intersect idle = {}
  /\ \A c \in Conns : Cardinality({d \in made : Home[d] = Home[c]}) <= Size

LendInv ==
  /\ held \in [Leases -> SUBSET made] /\ idle \subseteq made
  /\ made \subseteq Conns /\ IsFiniteSet(made)
  /\ LendPromise

\* A new connection counts for its own address only.
LEMMA LendNewCounts ==
  ASSUME Size \in Nat, LendInv, NEW l \in Leases, NEW c \in Conns, LendNew(l, c)
  PROVE  LendInv'
<1>1. /\ held' = [held EXCEPT ![l] = {c}] /\ idle' = idle /\ made' = made \union {c}
      /\ c \notin made /\ Cardinality({d \in made : Home[d] = Home[c]}) < Size
  BY DEF LendNew
<1>2. IsFiniteSet(made')
  BY <1>1, FS_AddElement DEF LendInv
<1>3. ASSUME NEW b \in Conns PROVE Cardinality({d \in made' : Home[d] = Home[b]}) <= Size
  <2> DEFINE same == {d \in made : Home[d] = Home[b]}
             then == {d \in made' : Home[d] = Home[b]}
  <2>1. IsFiniteSet(same) /\ c \notin same
    BY <1>1, FS_Subset DEF LendInv
  <2>2. CASE Home[c] = Home[b]
    <3>1. then = same \union {c} /\ Cardinality(same) < Size
      BY <1>1, <2>2
    <3> HIDE DEF same, then
    <3>2. Cardinality(then) = Cardinality(same) + 1 /\ Cardinality(same) \in Nat
      BY <2>1, <3>1, FS_AddElement, FS_CardinalityType
    <3>3. Cardinality(then) <= Size
      BY <3>1, <3>2
    <3> QED
      BY <3>3 DEF then
  <2>3. CASE Home[c] # Home[b]
    <3>1. then = same
      BY <1>1, <2>3
    <3> QED
      BY <3>1 DEF LendInv, LendPromise
  <2> QED
    BY <2>2, <2>3
<1>4. held' \in [Leases -> SUBSET made'] /\ idle' \subseteq made' /\ made' \subseteq Conns
  BY <1>1 DEF LendInv
<1>5. /\ \A m, k \in Leases : m # k => held'[m] \intersect held'[k] = {}
      /\ \A m \in Leases : held'[m] \intersect idle' = {}
  BY <1>1 DEF LendInv, LendPromise
<1> QED
  BY <1>2, <1>3, <1>4, <1>5 DEF LendInv, LendPromise

LEMMA LendStep == Size \in Nat => (LendInv /\ [LendNext]_lendVars => LendInv')
<1> SUFFICES ASSUME Size \in Nat, LendInv, [LendNext]_lendVars PROVE LendInv'
  OBVIOUS
<1>1. ASSUME NEW l \in Leases, TakeBack(l) \/ Retire(l) PROVE LendInv'
  BY <1>1 DEF TakeBack, Retire, LendInv, LendPromise
<1>2. ASSUME NEW l \in Leases, NEW c \in Conns, LendIdle(l, c) PROVE LendInv'
  BY <1>2 DEF LendIdle, LendInv, LendPromise
<1>3. CASE UNCHANGED lendVars
  BY <1>3 DEF lendVars, LendInv, LendPromise
<1> QED
  BY <1>1, <1>2, <1>3, LendNewCounts DEF LendNext

\* A pool that keeps its contract lends a connection to one lease at a time,
\* and makes no more than Size of them for an address.
THEOREM LoansAreExclusive == Size \in Nat => (LendSpec => []LendPromise)
<1>1. Size \in Nat => (LendInit => LendInv)
  <2> SUFFICES ASSUME Size \in Nat, LendInit PROVE LendInv
    OBVIOUS
  <2>1. \A c \in Conns : {d \in made : Home[d] = Home[c]} = {}
    BY DEF LendInit
  <2>2. IsFiniteSet({}) /\ Cardinality({}) = 0
    BY FS_EmptySet
  <2> QED
    BY <2>1, <2>2 DEF LendInit, LendInv, LendPromise
<1>2. LendInv => LendPromise
  BY DEF LendInv
<1>3. CASE Size \in Nat
  <2>1. (LendInit => LendInv) /\ (LendInv /\ [LendNext]_lendVars => LendInv')
    BY <1>1, <1>3, LendStep
  <2> QED
    BY <1>2, <2>1, PTL DEF LendSpec
<1>4. CASE Size \notin Nat
  BY <1>4
<1> QED
  BY <1>3, <1>4
=============================================================================
