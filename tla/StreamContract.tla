---------------------------- MODULE StreamContract ----------------------------
(***************************************************************************)
(* What one direction of a go-zrpc stream promises the side that receives  *)
(* (bidiStream.Recv, stream.go), with no word about sockets, sessions or   *)
(* channels: it hands out messages of this stream, none twice, though some *)
(* may be missing; it reports io.EOF only when the sender has ended the    *)
(* stream or the receiver has left it; and it hands out nothing afterwards.*)
(* On the client it also keeps the order of the messages; the worker pool  *)
(* of the server does not.                                                 *)
(***************************************************************************)
EXTENDS Naturals, Sequences

CONSTANTS Streams,  \* the streams, each received by one goroutine
          Ordered   \* whether messages are handed out in the order sent

VARIABLES sent,   \* how many messages of each stream have come from the sender
          ended,  \* whether its end has
          left,   \* whether the receiver has closed the stream or returned
          got,    \* the messages Recv has returned, by number
          over    \* Recv returns no message any more

streamVars == <<sent, ended, left, got, over>>

StreamInit ==
  /\ sent = [s \in Streams |-> 0]
  /\ ended = [s \in Streams |-> FALSE]
  /\ left = [s \in Streams |-> FALSE]
  /\ got = [s \in Streams |-> <<>>]
  /\ over = [s \in Streams |-> FALSE]

Arrive(s) ==
  /\ sent' = [sent EXCEPT ![s] = @ + 1]
  /\ UNCHANGED <<ended, left, got, over>>

End(s) ==
  /\ ended' = [ended EXCEPT ![s] = TRUE]
  /\ UNCHANGED <<sent, left, got, over>>

\* Recv returns message n.  It may be the last: a Recv that waits when the
\* receiver leaves may still return what has come.
Take(s, n) ==
  /\ ~over[s]
  /\ \A i \in DOMAIN got[s] : IF Ordered THEN got[s][i] < n ELSE got[s][i] # n
  /\ got' = [got EXCEPT ![s] = Append(@, n)]
  /\ over' \in {over, [over EXCEPT ![s] = left[s]]}
  /\ UNCHANGED <<sent, ended, left>>

\* The receiver closes the stream, or its method returns.
Leave(s) ==
  /\ left' = [left EXCEPT ![s] = TRUE]
  /\ over' \in {over, [over EXCEPT ![s] = TRUE]}
  /\ UNCHANGED <<sent, ended, got>>

\* Recv reports io.EOF, or that the stream is closed.
Finish(s) ==
  /\ ended[s] \/ left[s]
  /\ over' = [over EXCEPT ![s] = TRUE]
  /\ UNCHANGED <<sent, ended, left, got>>

StreamNext ==
  \E s \in Streams :
    \/ Arrive(s) \/ End(s) \/ Leave(s) \/ Finish(s)
    \/ \E n \in 1..sent[s] : Take(s, n)

StreamSpec == StreamInit /\ [][StreamNext]_streamVars
=============================================================================
