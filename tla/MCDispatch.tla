----------------------------- MODULE MCDispatch -----------------------------
(* Small instances of Dispatch. *)
EXTENDS Dispatch, TLC

Types == {Plain, Stream, Bidi, Reader, WriteCloser}

\* Methods with two parameters at most and one result at most.
Methods ==
  [params : {<<Context>> \o ps : ps \in BoundedSeq(Types, 2)},
   returns : {<<Error>>, <<Plain, Error>>, <<Stream, Error>>,
              <<Reader, Error>>, <<ReadWriteCloser, Error>>}]

\* What parseMethod refuses.
Refused == {[params |-> <<>>, returns |-> <<Error>>],
            [params |-> <<Plain>>, returns |-> <<Error>>],
            [params |-> <<Context>>, returns |-> <<>>],
            [params |-> <<Context>>, returns |-> <<Plain>>]}

Unary == [params |-> <<Context, Plain>>, returns |-> <<Plain, Error>>]

\* One round of the loops that Detected stands for; BidiStream is an early return.
DetectStep(mode, t, reading, writing) ==
  IF mode = "BidiStream" \/ AnyStream(t) \/ ReadWriteCloser \subseteq t THEN "BidiStream"
  ELSE IF Reader \subseteq t THEN reading
  ELSE IF ~(WriteCloser \subseteq t) THEN mode
  ELSE IF mode = reading THEN "BidiStream" ELSE writing

\* The streams of a method move from the parameters to the results.
Moved(f) ==
  [params  |-> SelectSeq(f.params, LAMBDA t : ~AnyStream(t)),
   returns |-> SelectSeq(f.params, AnyStream) \o f.returns]

\* What the loops find is what Signatures says.
ASSUME LoopsAgree ==
  /\ \A ts \in BoundedSeq(Types \union {ReadWriteCloser}, 4) :
       Detected(ts, "r", "w") =
         FoldLeft(LAMBDA mode, t : DetectStep(mode, t, "r", "w"), "ReqRep", ts)
  /\ \A m \in Methods :
       /\ ServerMode(m) = FoldLeft(LAMBDA mode, t : IF AnyStream(t) THEN "BidiStream" ELSE mode,
                                   "ReqRep", Tail(m.params))
       /\ Documented(m) => Counterpart(m) = Moved(m)

Scenario(m, p, c, t) == [method |-> m, proxy |-> p, chain |-> c, typed |-> t]

Chains == {<<"Recovery", "Metrics", "Collector">>,
           <<"Collector", "Metrics", "Recovery", "Through">>,
           <<"Metrics", "Collector", "Auth">>,
           <<"Through", "Collector", "TokenAuth", "Metrics">>,
           <<"Recovery", "Metrics", "Auth", "Collector">>,
           <<"Collector", "Auth", "Recovery">>}

\* Every signature with each of the proxies it may have, and every chain with a
\* method that may panic.
TheScenarios ==
  {Scenario(m, m, <<"Recovery">>, TRUE) : m \in Methods}
    \union {Scenario(m, Moved(m), <<"Recovery">>, t) : m \in Methods, t \in BOOLEAN}
    \union {Scenario(m, Unary, <<>>, FALSE) : m \in Refused}
    \union {Scenario(Unary, Unary, c, TRUE) : c \in Chains}

Alike == Permutations(Requests)
=============================================================================
