-------------------------- MODULE SignaturesProofs --------------------------
(***************************************************************************)
(* What follows from the rules of Signatures for signatures of any length: *)
(* which methods a call can reach at all, and what the two ends make of a  *)
(* documented method and its proxy.                                        *)
(***************************************************************************)
EXTENDS Signatures, TLAPS

LEMMA StreamTypes ==
  /\ ~TakesStream(Plain) /\ TakesStream(Stream) /\ TakesStream(Bidi)
  /\ ~AnyStream(Plain) /\ AnyStream(Stream) /\ AnyStream(Bidi)
  /\ ~AnyStream(Context) /\ ~AnyStream(Error)
  /\ \A t \in {Plain, Stream, Bidi, Context, Error} :
       ~(Reader \subseteq t) /\ ~(WriteCloser \subseteq t)
  /\ Plain # Stream /\ Plain # Bidi
BY DEF TakesStream, AnyStream, Plain, Stream, Bidi, Context, Error, Reader, WriteCloser

\* What buildParams gives a parameter after the context, when there is data.
LEMMA SuppliedWithData ==
  ASSUME NEW f, NEW i \in Nat, i > 1
  PROVE  Supplied(f, TRUE, i) =
           IF TakesStream(f.params[i])
           THEN IF ServerMode(f) = "BidiStream" THEN {Stream} ELSE {}
           ELSE IF Decoded(f, i) THEN {f.params[i]} ELSE {}
BY DEF Supplied, Decoded

LEMMA SuppliedFirst ==
  ASSUME NEW f, NEW data
  PROVE  Supplied(f, data, 1) = {Context}
BY DEF Supplied

LEMMA SuppliedNothing ==
  ASSUME NEW f, NEW i \in Nat, i > 1
  PROVE  Supplied(f, FALSE, i) = {}
BY DEF Supplied

\* A packet with data reaches the methods Reachable describes and no others, and a
\* packet without data those of them that have no parameter but the context.
LEMMA CallableExactly ==
  ASSUME NEW f \in Signature, Len(f.params) >= 1
  PROVE  /\ Callable(f, TRUE) <=> Reachable(f)
         /\ Callable(f, FALSE) <=> Reachable(f) /\ Len(f.params) = 1
<1> DEFINE n == Len(f.params)
           Fits(data, i) == \E v \in Supplied(f, data, i) : Assignable(v, f.params[i])
<1>1. f.params \in Seq(Type) /\ n \in Nat \ {0} /\ DOMAIN f.params = 1..n
  BY DEF Signature
<1>2. \A data : Callable(f, data) <=> \A i \in 1..n : Fits(data, i)
  BY <1>1 DEF Callable
<1>3. \A data : Fits(data, 1) <=> f.params[1] \subseteq Context
  BY SuppliedFirst DEF Assignable
<1>4. ASSUME NEW i \in 2..n
      PROVE  Fits(TRUE, i) <=> \/ Decoded(f, i)
                               \/ AnyStream(f.params[i]) /\ f.params[i] \subseteq Stream
  <2>1. i \in Nat /\ i > 1
    BY <1>1
  <2>2. CASE ~TakesStream(f.params[i])
    BY <2>1, <2>2, SuppliedWithData DEF Assignable, TakesStream
  <2>3. CASE TakesStream(f.params[i])
    <3>1. ~Decoded(f, i)
      BY <2>3 DEF Decoded
    <3>2. Fits(TRUE, i) <=> ServerMode(f) = "BidiStream" /\ f.params[i] \subseteq Stream
      BY <2>1, <2>3, SuppliedWithData DEF Assignable
    <3>3. f.params[i] \subseteq Stream => AnyStream(f.params[i])
      BY <2>3 DEF TakesStream, Stream, Reader, WriteCloser
    <3>4. AnyStream(f.params[i]) => ServerMode(f) = "BidiStream"
      BY DEF ServerMode
    <3> QED
      BY <3>1, <3>2, <3>3, <3>4
  <2> QED
    BY <2>2, <2>3
<1>5. ASSUME NEW i \in 2..n PROVE ~Fits(FALSE, i)
  <2>1. i \in Nat /\ i > 1
    BY <1>1
  <2> QED
    BY <2>1, SuppliedNothing
<1>6. \A i \in 1..n : i = 1 \/ i \in 2..n
  BY <1>1
<1>7. 1 \in 1..n /\ \A i \in 2..n : i \in 1..n
  BY <1>1
<1> HIDE DEF Fits, n
<1>8. Callable(f, TRUE) <=> Reachable(f)
  BY <1>2, <1>3, <1>4, <1>6, <1>7 DEF Reachable, n
<1>9. Callable(f, FALSE) <=> Reachable(f) /\ n = 1
  <2>1. n # 1 => 2 \in 2..n
    BY <1>1
  <2>2. n = 1 => 2..n = {}
    OBVIOUS
  <2>3. Callable(f, FALSE) => n = 1
    BY <1>2, <1>5, <1>7, <2>1
  <2>4. n = 1 => (Callable(f, FALSE) <=> f.params[1] \subseteq Context)
    BY <1>2, <1>3, <1>6, <1>7, <2>2
  <2>5. n = 1 => (Reachable(f) <=> f.params[1] \subseteq Context)
    BY <2>2 DEF Reachable, n
  <2> QED
    BY <2>3, <2>4, <2>5
<1> QED
  BY <1>8, <1>9 DEF n
-----------------------------------------------------------------------------
(* Documented methods. *)

\* Every parameter of a documented method can be filled.
LEMMA DocumentedReachable ==
  ASSUME NEW f \in Signature, Documented(f)
  PROVE  Reachable(f)
<1>1. f.params[1] \subseteq Context
  BY DEF Documented
<1>2. ASSUME NEW i \in 2..Len(f.params)
      PROVE  \/ Decoded(f, i)
             \/ AnyStream(f.params[i]) /\ f.params[i] \subseteq Stream
  <2>1. CASE f.params[i] = Plain
    <3>1. ASSUME NEW j \in 2..(i-1) PROVE TakesStream(f.params[j])
      <4>1. Len(f.params) \in Nat
        BY DEF Signature
      <4>2. j \in 2..Len(f.params) /\ j # i
        BY <4>1
      <4>3. f.params[j] \in {Stream, Bidi}
        BY <2>1, <4>2, StreamTypes DEF Documented
      <4> QED
        BY <4>3, StreamTypes
    <3> QED
      BY <2>1, <3>1, StreamTypes DEF Decoded
  <2>2. CASE f.params[i] \in {Stream, Bidi}
    BY <2>2, StreamTypes DEF Stream, Bidi
  <2> QED
    BY <2>1, <2>2 DEF Documented
<1> QED
  BY <1>1, <1>2 DEF Reachable

\* A documented method without a stream has its request only.
LEMMA DocumentedUnary ==
  ASSUME NEW f \in Signature, Documented(f), ServerMode(f) = "ReqRep"
  PROVE  /\ {i \in 2..Len(f.params) : AnyStream(f.params[i])} = {}
         /\ \A i \in 2..Len(f.params) : f.params[i] = Plain
BY StreamTypes DEF ServerMode, Documented

\* The rules find nothing in plain data, and a stream where there is one.
LEMMA DetectedNothing ==
  ASSUME NEW ts \in Seq(Type), NEW reading, NEW writing,
         \A i \in DOMAIN ts : ts[i] = Plain
  PROVE  Detected(ts, reading, writing) = "ReqRep"
BY StreamTypes DEF Detected

LEMMA DetectedStream ==
  ASSUME NEW ts \in Seq(Type), NEW reading, NEW writing,
         NEW i \in DOMAIN ts, AnyStream(ts[i])
  PROVE  Detected(ts, reading, writing) = "BidiStream"
BY DEF Detected

\* Front leaves the last element out.
LEMMA FrontOf ==
  ASSUME NEW s \in Seq(Type), s # <<>>
  PROVE  /\ Front(s) \in Seq(Type)
         /\ DOMAIN Front(s) = 1..(Len(s) - 1) /\ Len(Front(s)) = Len(s) - 1
         /\ \A i \in 1..(Len(s) - 1) : Front(s)[i] = s[i]
BY DEF Front

\* The arguments of the proxy of a documented method.
LEMMA ProxyParams ==
  ASSUME NEW f \in Signature, Documented(f)
  PROVE  LET p == Counterpart(f) IN
         /\ p.params = IF HasRequest(f) THEN <<Context, Plain>> ELSE <<Context>>
         /\ Tail(p.params) = IF HasRequest(f) THEN <<Plain>> ELSE <<>>
         /\ InMode(p) = "ReqRep"
         /\ StreamIdx(Tail(p.params)) = 0
<1> DEFINE p == Counterpart(f)
           ts == Tail(p.params)
<1>1. p.params = IF HasRequest(f) THEN <<Context, Plain>> ELSE <<Context>>
  BY DEF Counterpart
<1>2. ts = IF HasRequest(f) THEN <<Plain>> ELSE <<>>
  BY <1>1
<1>3. ts \in Seq(Type) /\ \A i \in DOMAIN ts : ts[i] = Plain
  <2> HIDE DEF ts
  <2>1. Plain \in Type
    BY DEF Plain, Type
  <2>2. CASE ts = <<Plain>>
    BY <2>1, <2>2
  <2>3. CASE ts = <<>>
    BY <2>3
  <2> QED
    BY <1>2, <2>2, <2>3
<1>4. InMode(p) = "ReqRep"
  BY <1>3, DetectedNothing DEF InMode
<1>5. StreamIdx(ts) = 0
  <2>1. {i \in DOMAIN ts : AnyStream(ts[i]) \/ Reader \subseteq ts[i]} = {}
    BY <1>3, StreamTypes
  <2> QED
    BY <2>1 DEF StreamIdx, SelectInSeq
<1> QED
  BY <1>1, <1>2, <1>4, <1>5

LEMMA Joined ==
  ASSUME NEW a \in Type, NEW s \in Seq(Type)
  PROVE  <<a>> \o s \in Seq(Type) /\ Len(<<a>> \o s) = 1 + Len(s) /\ (<<a>> \o s)[1] = a
<1>1. <<a>> \in Seq(Type) /\ Len(<<a>>) = 1 /\ <<a>>[1] = a
  OBVIOUS
<1> QED
  BY <1>1

\* The results of the proxy of a documented method: its stream comes first.
LEMMA ProxyReturns ==
  ASSUME NEW f \in Signature, Documented(f)
  PROVE  LET p == Counterpart(f) IN
         /\ ServerMode(f) = "ReqRep" => OutMode(p) = "ReqRep"
         /\ ServerMode(f) # "ReqRep" =>
              /\ OutMode(p) = "BidiStream"
              /\ StreamIdx(Front(p.returns)) = 1
              /\ p.returns[1] \subseteq Stream
<1> DEFINE p == Counterpart(f)
           Streams == {i \in 2..Len(f.params) : AnyStream(f.params[i])}
<1>1. f.returns \in Seq(Type) /\ f.returns \in {<<Error>>, <<Plain, Error>>}
  BY DEF Documented, Signature
<1>2. CASE ServerMode(f) = "ReqRep"
  <2>1. p.returns = f.returns
    BY <1>2, DocumentedUnary DEF Counterpart
  <2>2. f.returns # <<>> /\ \A i \in 1..(Len(f.returns) - 1) : f.returns[i] = Plain
    <3>1. CASE f.returns = <<Error>>
      BY <3>1
    <3>2. CASE f.returns = <<Plain, Error>>
      BY <3>2
    <3> QED
      BY <1>1, <3>1, <3>2
  <2>3. /\ Front(f.returns) \in Seq(Type)
        /\ \A i \in DOMAIN Front(f.returns) : Front(f.returns)[i] = Plain
    BY <1>1, <2>2, FrontOf
  <2> QED
    BY <1>2, <2>1, <2>3, DetectedNothing DEF OutMode
<1>3. CASE ServerMode(f) # "ReqRep"
  <2>1. Streams # {}
    BY <1>3 DEF ServerMode
  <2>2. PICK k \in Streams : p.returns = <<f.params[k]>> \o f.returns
    <3>1. (CHOOSE i \in Streams : TRUE) \in Streams
      BY <2>1
    <3> QED
      BY <2>1, <3>1 DEF Counterpart
  <2>3. AnyStream(f.params[k]) /\ f.params[k] \subseteq Stream /\ f.params[k] \in Type
    <3>1. f.params[k] \in {Stream, Bidi}
      BY StreamTypes DEF Documented
    <3> QED
      BY <3>1, StreamTypes DEF Stream, Bidi, Type
  <2>4. /\ p.returns \in Seq(Type) /\ p.returns # <<>> /\ Len(p.returns) \in {2, 3}
        /\ p.returns[1] = f.params[k]
    <3>1. Len(f.returns) \in {1, 2}
      <4>1. Len(<<Error>>) = 1 /\ Len(<<Plain, Error>>) = 2
        OBVIOUS
      <4> QED
        BY <1>1, <4>1
    <3> DEFINE r == p.returns
    <3>2. r \in Seq(Type) /\ Len(r) = 1 + Len(f.returns) /\ r[1] = f.params[k]
      BY <1>1, <2>2, <2>3, Joined
    <3> HIDE DEF r
    <3>3. Len(r) \in {2, 3}
      <4>1. \A n \in {1, 2} : 1 + n \in {2, 3}
        OBVIOUS
      <4> QED
        BY <3>1, <3>2, <4>1
    <3>4. r # <<>>
      <4>1. Len(<<>>) = 0
        OBVIOUS
      <4> QED
        BY <3>3, <4>1
    <3> QED
      BY <3>2, <3>3, <3>4 DEF r
  <2> HIDE DEF p
  <2> DEFINE out == Front(p.returns)
  <2>5. out \in Seq(Type) /\ DOMAIN out = 1..(Len(p.returns) - 1) /\ 1 \in DOMAIN out /\ out[1] = f.params[k]
    <3>1. /\ out \in Seq(Type) /\ DOMAIN out = 1..(Len(p.returns) - 1)
          /\ \A i \in 1..(Len(p.returns) - 1) : out[i] = p.returns[i]
      BY <2>4, FrontOf
    <3>2. 1 \in 1..(Len(p.returns) - 1)
      <4>1. ASSUME NEW n \in {2, 3} PROVE 1 \in 1..(n - 1)
        OBVIOUS
      <4> QED
        BY <2>4, <4>1
    <3> QED
      BY <2>4, <3>1, <3>2
  <2>6. OutMode(p) = "BidiStream"
    BY <2>3, <2>5, DetectedStream DEF OutMode
  <2> HIDE DEF out
  <2>7. StreamIdx(out) = 1
    <3> DEFINE I == {i \in 1..Len(out) : AnyStream(out[i]) \/ Reader \subseteq out[i]}
    <3>1. 1 \in I /\ \A i \in I : i \in Nat /\ 1 <= i
      BY <2>3, <2>4, <2>5
    <3>2. Min(I) = 1
      BY <3>1 DEF Min
    <3> QED
      BY <3>1, <3>2 DEF StreamIdx, SelectInSeq
  <2> QED
    BY <1>3, <2>3, <2>4, <2>6, <2>7 DEF p, out
<1> QED
  BY <1>2, <1>3

\* What a documented method's proxy sends and waits for, by the mode that the
\* server has for the method.
LEMMA EndsAgree ==
  ASSUME NEW f \in Signature, Documented(f)
  PROVE  LET p == Counterpart(f) IN
         /\ ServerMode(f) = "ReqRep" => WaitsFor(p) = "answer" /\ Sends(p) = "data"
         /\ ServerMode(f) # "ReqRep" =>
              /\ WaitsFor(p) = "end"
              /\ Sends(p) = IF HasRequest(f) THEN "data" ELSE "no data"
         /\ ReturnsFit(p)
<1> DEFINE p == Counterpart(f)
<1>1. /\ p.params = IF HasRequest(f) THEN <<Context, Plain>> ELSE <<Context>>
      /\ InMode(p) = "ReqRep"
      /\ StreamIdx(Tail(p.params)) = 0
  BY ProxyParams
<1>2. /\ ServerMode(f) = "ReqRep" => OutMode(p) = "ReqRep"
      /\ ServerMode(f) # "ReqRep" =>
           /\ OutMode(p) = "BidiStream"
           /\ StreamIdx(Front(p.returns)) = 1
           /\ p.returns[1] \subseteq Stream
  BY ProxyReturns
<1> HIDE DEF p
<1>3. CASE ServerMode(f) = "ReqRep"
  <2>1. ProxyMode(p) = "ReqRep"
    BY <1>1, <1>2, <1>3 DEF ProxyMode
  <2> QED
    BY <1>3, <2>1 DEF WaitsFor, Sends, ReturnsFit, p
<1>4. CASE ServerMode(f) # "ReqRep"
  <2>1. ProxyMode(p) = "BidiStream"
    BY <1>1, <1>2, <1>4 DEF ProxyMode
  <2>2. Arguments(p) = IF HasRequest(f) THEN {2} ELSE {}
    <3>1. Arguments(p) = (2..Len(p.params)) \ {1}
      BY <1>1, <2>1 DEF Arguments
    <3>2. Len(<<Context, Plain>>) = 2 /\ Len(<<Context>>) = 1
      OBVIOUS
    <3>3. 2..2 = {2} /\ 2..1 = {}
      OBVIOUS
    <3> QED
      BY <1>1, <3>1, <3>2, <3>3
  <2>3. Sends(p) = IF HasRequest(f) THEN "data" ELSE "no data"
    BY <2>1, <2>2 DEF Sends
  <2>4. WaitsFor(p) = "end" /\ ReturnsFit(p)
    BY <1>2, <1>4, <2>1 DEF WaitsFor, ReturnsFit, Returned, Assignable
  <2> QED
    BY <1>4, <2>3, <2>4 DEF p
<1> QED
  BY <1>3, <1>4

\* Whether the packet of the proxy can be turned into a call of the method: unless
\* the method has a stream and no request.
LEMMA DocumentedCallable ==
  ASSUME NEW f \in Signature, Documented(f)
  PROVE  Callable(f, Sends(Counterpart(f)) = "data")
           <=> ServerMode(f) = "ReqRep" \/ HasRequest(f)
<1>1. Len(f.params) \in Nat /\ Len(f.params) >= 1
  BY DEF Documented, Parsed, Signature
<1>2. Callable(f, TRUE)
  BY <1>1, DocumentedReachable, CallableExactly
<1>3. CASE ServerMode(f) = "ReqRep" \/ HasRequest(f)
  BY <1>2, <1>3, EndsAgree
<1>4. CASE ServerMode(f) # "ReqRep" /\ ~HasRequest(f)
  <2>1. (Sends(Counterpart(f)) = "data") = FALSE
    BY <1>4, EndsAgree
  <2>2. Len(f.params) # 1
    <3>1. 2..Len(f.params) # {}
      BY <1>4 DEF ServerMode
    <3>2. 2..1 = {}
      OBVIOUS
    <3> QED
      BY <3>1, <3>2
  <2>3. ~Callable(f, FALSE)
    BY <1>1, <2>2, CallableExactly
  <2> QED
    BY <1>4, <2>1, <2>3
<1> QED
  BY <1>3, <1>4
=============================================================================
