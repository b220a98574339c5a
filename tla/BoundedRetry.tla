---------------------------- MODULE BoundedRetry ----------------------------
(***************************************************************************)
(* What a caller of ChatClient.complete may rely on, with no clock, no     *)
(* throttle and no backoff: every call ends, a call never sends more than  *)
(* Budget requests, and the way it ends tells how many it sent.            *)
(***************************************************************************)
EXTENDS Naturals

CONSTANTS Calls,    \* concurrent calls
          Budget    \* requests one call may send

VARIABLES phase,    \* "idle", "open" or "closed"
          tries,    \* requests sent by the current call
          result    \* the HTTP status the last call ended with, 0 while it is open

vars == <<phase, tries, result>>

Results == {200, 400, 500, 502}

\* The number of requests that each kind of ending implies: 502 (transient
\* failures) spends the budget, 200 and 400 are answers of the provider.
Earned(r, n) ==
  /\ n \in 0..Budget
  /\ r = 502 => n = Budget
  /\ r \in {200, 400} => n > 0

Init ==
  /\ phase = [c \in Calls |-> "idle"]
  /\ tries = [c \in Calls |-> 0]
  /\ result = [c \in Calls |-> 0]

\* A call arrives; its first request may leave in the same step.
Begin(c) ==
  /\ phase[c] # "open"
  /\ phase' = [phase EXCEPT ![c] = "open"]
  /\ \E n \in 0..1 : tries' = [tries EXCEPT ![c] = n]
  /\ result' = [result EXCEPT ![c] = 0]

\* A call that cannot be served at all is refused on arrival.
Refuse(c) ==
  /\ phase[c] # "open"
  /\ phase' = [phase EXCEPT ![c] = "closed"]
  /\ tries' = [tries EXCEPT ![c] = 0]
  /\ result' = [result EXCEPT ![c] = 500]

Try(c) ==
  /\ phase[c] = "open"
  /\ tries[c] < Budget
  /\ tries' = [tries EXCEPT ![c] = tries[c] + 1]
  /\ UNCHANGED <<phase, result>>

Close(c) ==
  /\ phase[c] = "open"
  /\ \E r \in Results :
       /\ Earned(r, tries[c])
       /\ result' = [result EXCEPT ![c] = r]
  /\ phase' = [phase EXCEPT ![c] = "closed"]
  /\ UNCHANGED tries

Next == \E c \in Calls : Begin(c) \/ Refuse(c) \/ Try(c) \/ Close(c)

Spec ==
  /\ Init
  /\ [][Next]_vars
  /\ \A c \in Calls : WF_vars(Try(c) \/ Close(c))
=============================================================================
