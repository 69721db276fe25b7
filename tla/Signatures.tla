----------------------------- MODULE Signatures -----------------------------
(***************************************************************************)
(* How the two ends of go-zrpc read the Go signature of a method: the      *)
(* server when the method is registered and called (reflection.go,         *)
(* server.go), the client when Decorator makes its proxy (client.go).      *)
(*                                                                         *)
(* A type is the set of those interfaces it implements that the code asks  *)
(* about, {} for plain data; a signature is a record of the types of its   *)
(* parameters, without the receiver, and of its results.                   *)
(*                                                                         *)
(* The code's loops over a signature appear as what they find, so that it  *)
(* can be reasoned about; MCDispatch has the loops, and compares.          *)
(***************************************************************************)
EXTENDS Naturals, Sequences, SequencesExt

Context == {"context"}
Error == {"error"}
Plain == {}
Bidi == {"BidiStream"}              \* zrpc.BidiStream: Send, Recv
Stream == {"Stream", "BidiStream"}  \* zrpc.Stream: Send, Recv, Close
Reader == {"Reader"}
WriteCloser == {"WriteCloser"}
ReadWriteCloser == Reader \union WriteCloser

Type == SUBSET {"context", "error", "BidiStream", "Stream", "Reader", "WriteCloser"}
Signature == [params : Seq(Type), returns : Seq(Type)]

\* Whether a value of type v can be given where the interface t is asked for.
Assignable(v, t) == t \subseteq v

\* Who implements Stream implements BidiStream, so that the code's branches for
\* a Stream that is no BidiStream are never taken.
AnyStream(t) == Bidi \subseteq t
-----------------------------------------------------------------------------
(* The server. *)

\* parseMethod, which refuses the whole service when it refuses a method.
Parsed(f) ==
  /\ Len(f.params) >= 1 /\ Context \subseteq f.params[1]
  /\ Len(f.returns) >= 1 /\ Error \subseteq Last(f.returns)

\* detectMode: one stream among the parameters after the context decides.  The
\* results do not matter.
ServerMode(f) ==
  IF \E i \in 2..Len(f.params) : AnyStream(f.params[i]) THEN "BidiStream" ELSE "ReqRep"

\* The types buildParams gives the stream to, whatever they ask for.
TakesStream(t) == AnyStream(t) \/ Reader \subseteq t \/ WriteCloser \subseteq t

\* The parameters buildParams decodes from the packet: the first plain one.
Decoded(f, i) ==
  /\ ~TakesStream(f.params[i])
  /\ \A j \in 2..(i-1) : TakesStream(f.params[j])

\* What buildParams puts at position i for a packet with or without data: the
\* type of a value, or nothing, which is the zero reflect.Value.  In a ReqRep
\* call the stream is nil, and nil again is the zero Value.
Supplied(f, data, i) ==
  CASE i = 1 -> {Context}
    [] i > 1 /\ data /\ TakesStream(f.params[i]) ->
         IF ServerMode(f) = "BidiStream" THEN {Stream} ELSE {}
    [] i > 1 /\ data /\ Decoded(f, i) -> {f.params[i]}
    [] OTHER -> {}

\* Wrong on purpose, and not part of the model: a value of any type will do.
CallableUntyped(f, data) == \A i \in DOMAIN f.params : Supplied(f, data, i) # {}

\* Whether Func.Call in invoke runs the method: it panics on a zero Value and
\* on a value of another type.
Callable(f, data) ==
  \A i \in DOMAIN f.params : \E v \in Supplied(f, data, i) : Assignable(v, f.params[i])
-----------------------------------------------------------------------------
(* The client. *)

\* What the loops of detectStreamModeInParams and detectStreamModeInReturns find,
\* which name the modes of a reader and of a writer the other way round: a stream
\* decides, so does a writer that is a reader too or comes after one, and a reader
\* after a writer makes the code forget the writer.
Detected(ts, reading, writing) ==
  IF \/ \E i \in DOMAIN ts : AnyStream(ts[i])
     \/ \E i, j \in DOMAIN ts :
          i <= j /\ Reader \subseteq ts[i] /\ WriteCloser \subseteq ts[j]
  THEN "BidiStream"
  ELSE IF \E i \in DOMAIN ts : Reader \subseteq ts[i] THEN reading
  ELSE IF \E i \in DOMAIN ts : WriteCloser \subseteq ts[i] THEN writing
  ELSE "ReqRep"

InMode(f) == Detected(Tail(f.params), "StreamReqRep", "ReqStreamRep")

OutMode(f) == Detected(Front(f.returns), "ReqStreamRep", "StreamReqRep")

\* Wrong on purpose, and not part of the model: only the parameters are looked at, as the server does.
ParamsOnly(f) == InMode(f)

\* Decorator: the mode of a proxy.
ProxyMode(f) ==
  LET in == InMode(f)
      out == OutMode(f)
  IN  CASE in # "ReqRep" /\ out # "ReqRep" -> "BidiStream"
        [] "BidiStream" \in {in, out}      -> "BidiStream"
        [] in = "StreamReqRep" /\ out = "ReqRep" -> "StreamReqRep"
        [] in = "ReqRep" /\ out = "ReqStreamRep" -> "ReqStreamRep"
        [] OTHER -> "ReqRep"

\* The first stream of a list of types, 0 when there is none.
StreamIdx(ts) == SelectInSeq(ts, LAMBDA t : AnyStream(t) \/ Reader \subseteq t)

\* The parameters whose argument may be sent: all but the context and the stream
\* of a proxy that makes one.
Arguments(f) ==
  (2..Len(f.params)) \
    (IF ProxyMode(f) = "BidiStream" THEN {1 + StreamIdx(Tail(f.params))} ELSE {})

\* What a proxy sends: a request with data, one without, or nothing because it
\* returns an error.  The proxy of a StreamReqRep method finds a pure reader.
Sends(f) ==
  CASE ProxyMode(f) = "ReqRep" -> "data"
    [] ProxyMode(f) = "StreamReqRep" -> "nothing"
    [] OTHER -> IF Arguments(f) = {} THEN "no data" ELSE "data"

\* What it then waits for: the one answer of a call, or the end of a stream.
WaitsFor(f) ==
  IF ProxyMode(f) \in {"ReqStreamRep", "BidiStream"} THEN "end" ELSE "answer"

\* What it returns as its stream; reflect.MakeFunc panics when that is not what
\* the signature says.
Returned(f) ==
  IF ProxyMode(f) = "ReqStreamRep" THEN Reader ELSE Stream

ReturnsFit(f) ==
  LET out == StreamIdx(Front(f.returns))
  IN  WaitsFor(f) = "end" /\ out # 0 => Assignable(Returned(f), f.returns[out])
-----------------------------------------------------------------------------
(* What the documentation promises. *)

\* The methods the README describes: a request at most, and a stream at most.
Documented(f) ==
  /\ Parsed(f) /\ f.params[1] = Context
  /\ \A i \in 2..Len(f.params) : f.params[i] \in {Plain, Stream, Bidi}
  /\ \A i, j \in 2..Len(f.params) :
       i # j => (f.params[i] = Plain /\ f.params[j] # Plain)
                \/ (f.params[i] # Plain /\ f.params[j] = Plain)
  /\ f.returns \in {<<Error>>, <<Plain, Error>>}

\* The method has a request for its packet's data.
HasRequest(f) == \E i \in 2..Len(f.params) : f.params[i] = Plain

\* The proxy that the examples and the README give such a method: its stream
\* moves from the parameters to the results.
Counterpart(f) ==
  LET Streams == {i \in 2..Len(f.params) : AnyStream(f.params[i])}
  IN  [params  |-> IF HasRequest(f) THEN <<Context, Plain>> ELSE <<Context>>,
       returns |-> IF Streams = {} THEN f.returns
                   ELSE <<f.params[CHOOSE i \in Streams : TRUE]>> \o f.returns]

\* The methods a call can reach: buildParams can fill every parameter.  The ctx
\* is no more than a context, one parameter is the request, and what takes the
\* stream asks for nothing that bidiStream does not have.
Reachable(f) ==
  /\ f.params[1] \subseteq Context
  /\ \A i \in 2..Len(f.params) :
       \/ Decoded(f, i)
       \/ AnyStream(f.params[i]) /\ f.params[i] \subseteq Stream
=============================================================================
