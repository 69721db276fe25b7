----------------------------- MODULE RpcContract -----------------------------
(***************************************************************************)
(* What a proxy function of go-zrpc promises its caller for a unary method *)
(* (client.go createProxyFunc over Client.Call), with no word about        *)
(* sockets, goroutines or packets.                                         *)
(*                                                                         *)
(* A call makes at most Retry + 1 attempts.  The server runs the method at *)
(* most once for each attempt, possibly after the caller has moved on.     *)
(* Success is reported only if the run of the current attempt succeeded;   *)
(* an error only after the last attempt.                                   *)
(***************************************************************************)
EXTENDS Naturals

CONSTANTS Calls,  \* the invocations of proxy functions
          Retry   \* how often a failed attempt is repeated

VARIABLES phase,    \* what the caller sees: not called, in the call, returned
          tries,    \* the number of the call's current attempt
          ran,      \* the attempts for which the method has run
          good,     \* those of them whose run succeeded
          answer    \* what the proxy function returned

contractVars == <<phase, tries, ran, good, answer>>

ContractInit ==
  /\ phase = [c \in Calls |-> "idle"]
  /\ tries = [c \in Calls |-> 0]
  /\ ran = {}
  /\ good = {}
  /\ answer = [c \in Calls |-> "none"]

Enter(c) ==
  /\ phase[c] = "idle"
  /\ phase' = [phase EXCEPT ![c] = "trying"]
  /\ UNCHANGED <<tries, ran, good, answer>>

\* The server runs the method for attempt i, at most once.  The caller may
\* have given up on that attempt already, or even have returned.
Run(c, i) ==
  /\ phase[c] # "idle"
  /\ i <= tries[c]
  /\ <<c, i>> \notin ran
  /\ ran' = ran \union {<<c, i>>}
  /\ good' \in {good, good \union {<<c, i>>}}
  /\ UNCHANGED <<phase, tries, answer>>

TryAgain(c) ==
  /\ phase[c] = "trying"
  /\ tries[c] < Retry
  /\ tries' = [tries EXCEPT ![c] = @ + 1]
  /\ UNCHANGED <<phase, ran, good, answer>>

ReturnOk(c) ==
  /\ phase[c] = "trying"
  /\ <<c, tries[c]>> \in good
  /\ phase' = [phase EXCEPT ![c] = "returned"]
  /\ answer' = [answer EXCEPT ![c] = "ok"]
  /\ UNCHANGED <<tries, ran, good>>

ReturnError(c) ==
  /\ phase[c] = "trying"
  /\ tries[c] = Retry
  /\ phase' = [phase EXCEPT ![c] = "returned"]
  /\ answer' = [answer EXCEPT ![c] = "error"]
  /\ UNCHANGED <<tries, ran, good>>

ContractNext ==
  \E c \in Calls :
    \/ Enter(c)
    \/ \E i \in 0..Retry : Run(c, i)
    \/ TryAgain(c)
    \/ ReturnOk(c)
    \/ ReturnError(c)

ContractSpec == ContractInit /\ [][ContractNext]_contractVars
=============================================================================
