--------------------------- MODULE LlmClientProofs ---------------------------
(***************************************************************************)
(* Proofs about LlmClient for every set of calls and providers, every      *)
(* attempt budget and every set of delays.                                 *)
(***************************************************************************)
EXTENDS LlmClient, TLAPS

(***************************************************************************)
(* What the pieces of a step do to the call they are about, and that they  *)
(* leave the other calls alone.                                            *)
(***************************************************************************)

TripResult(p) ==
  /\ cool' \in [Names -> Nat]
  /\ cool'[p] >= LeastDelay /\ cool'[p] <= MostDelay
  /\ \A q \in Names : q # p => cool'[q] = cool[q]

RetryResult(c) ==
  /\ pc' \in [Calls -> Phases] /\ timer' \in [Calls -> Nat] /\ status' \in [Calls -> Statuses]
  /\ \A d \in Calls : d # c => /\ pc'[d] = pc[d] /\ timer'[d] = timer[d]
                               /\ status'[d] = status[d]
  /\ \/ pc'[c] = "backoff" /\ attempts[c] < MaxAttempts /\ status'[c] = status[c]
     \/ pc'[c] = "done" /\ attempts[c] >= MaxAttempts /\ status'[c] = 502

SendResult(c, n) ==
  /\ pc' \in [Calls -> Phases] /\ status' \in [Calls -> Statuses]
  /\ attempts' \in [Calls -> 0..MaxAttempts]
  /\ \A d \in Calls : d # c => /\ pc'[d] = pc[d] /\ status'[d] = status[d]
                               /\ attempts'[d] = attempts[d]
  /\ \/ pc'[c] = "flight" /\ attempts'[c] = n + 1 /\ status'[c] = 0
     \/ pc'[c] = "done" /\ attempts'[c] = n /\ status'[c] = 500

GateResult(c, p, n) ==
  /\ pc' \in [Calls -> Phases] /\ timer' \in [Calls -> Nat] /\ status' \in [Calls -> Statuses]
  /\ attempts' \in [Calls -> 0..MaxAttempts] /\ stale' \in [Calls -> BOOLEAN]
  /\ \A d \in Calls : d # c => /\ pc'[d] = pc[d] /\ timer'[d] = timer[d]
                               /\ status'[d] = status[d] /\ stale'[d] = stale[d]
                               /\ attempts'[d] = attempts[d]
  /\ \/ /\ pc'[c] = "queued" /\ cool[p] > 0 /\ timer'[c] = cool[p] /\ ~stale'[c]
        /\ attempts'[c] = n /\ status'[c] = 0
     \/ /\ pc'[c] = "flight" /\ cool[p] = 0
        /\ attempts'[c] = n + 1 /\ status'[c] = 0
     \/ /\ pc'[c] = "done" /\ attempts'[c] = n /\ status'[c] = 500

\* The cooldown a trip sets lies between the two bounds.
LEMMA TripBounds ==
  ASSUME NEW p \in Names, NEW ra \in RetryAfters \cup {None}, TypeOK, Trip(p, ra)
  PROVE  TripResult(p)
BY DelaysAssumption DEF TripResult, Trip, Delays, None, TypeOK

\* The retry decision backs off with budget left, or ends with a 502 once the
\* budget is spent.
LEMMA RetryOutcome ==
  ASSUME NEW c \in Calls, TypeOK, RetryOrGiveUp(c)
  PROVE  RetryResult(c)
BY MaxBackoffAssumption
DEF RetryResult, RetryOrGiveUp, Reply, Backoffs, TypeOK, Phases, Statuses

\* Sending puts one request more in flight, or refuses the call.
LEMMA SendOutcome ==
  ASSUME NEW c \in Calls, NEW p \in Names, NEW n \in Nat, n < MaxAttempts, TypeOK, Send(c, p, n)
  PROVE  SendResult(c, n)
BY MaxAttemptsAssumption DEF SendResult, Send, Reply, TypeOK, Phases, Statuses

\* At the gate a call queues for the cooldown it read, sends with no cooldown
\* in force, or is refused.
LEMMA GateOutcome ==
  ASSUME NEW c \in Calls, NEW p \in Names, NEW n \in Nat, n < MaxAttempts,
         TypeOK, PassGate(c, p, n)
  PROVE  GateResult(c, p, n)
<1>1. stale' \in [Calls -> BOOLEAN] /\ ~stale'[c] /\ \A d \in Calls : d # c => stale'[d] = stale[d]
  BY DEF PassGate, TypeOK
<1>2. CASE cool[p] > 0
  BY <1>1, <1>2, MaxAttemptsAssumption DEF GateResult, PassGate, TypeOK, Phases, Statuses
<1>3. CASE cool[p] = 0
  BY <1>1, <1>3, MaxAttemptsAssumption DEF GateResult, PassGate, Send, Reply, TypeOK, Phases, Statuses
<1> QED BY <1>2, <1>3 DEF TypeOK

\* The spread of the delays is a natural number.
LEMMA Spread == LeastDelay \in Nat /\ MostDelay \in Nat /\ LeastDelay <= MostDelay
BY DelaysAssumption DEF Delays

(***************************************************************************)
(* The invariant.                                                          *)
(***************************************************************************)

\* The first state satisfies the invariant.
LEMMA InitInv == Init => IInv
BY MaxAttemptsAssumption, Spread
DEF Init, IInv, TypeOK, BudgetLeft, OwedIsCovered, FreshGateCovers, Phases, Statuses

\* A reply that ends a call in flight keeps the invariant.
LEMMA EndInv ==
  ASSUME NEW c \in Calls, NEW code \in Statuses \ {0}, IInv, Reply(c, code),
         UNCHANGED <<prov, attempts, timer, cool, owed, stale>>
  PROVE  IInv'
BY DEF IInv, TypeOK, BudgetLeft, OwedIsCovered, FreshGateCovers, Reply, Phases, Statuses

\* A request that arrives owes nothing and reads the gate afresh.
LEMMA ArriveInv ==
  ASSUME NEW c \in Calls, NEW p \in Names, IInv, Arrive(c, p)
  PROVE  IInv'
<1>1. CASE p \in Registered
  <2>1. PassGate(c, p, 0) /\ UNCHANGED cool /\ prov' = [prov EXCEPT ![c] = p]
        /\ owed' = [owed EXCEPT ![c] = 0]
    BY <1>1 DEF Arrive
  <2>2. TypeOK /\ 0 \in Nat /\ 0 < MaxAttempts BY MaxAttemptsAssumption DEF IInv
  <2>3. GateResult(c, p, 0) BY <2>1, <2>2, GateOutcome
  <2>4. TypeOK' BY <2>1, <2>3 DEF GateResult, IInv, TypeOK
  <2>5. BudgetLeft'
    BY <2>1, <2>3, MaxAttemptsAssumption DEF GateResult, IInv, TypeOK, BudgetLeft
  <2>6. OwedIsCovered'
    BY <2>1, <2>3, <2>4, Spread DEF GateResult, IInv, TypeOK, OwedIsCovered
  <2>7. FreshGateCovers' BY <2>1, <2>3 DEF GateResult, IInv, TypeOK, FreshGateCovers
  <2> QED BY <2>4, <2>5, <2>6, <2>7 DEF IInv
<1>2. CASE p \notin Registered
  BY <1>2, MaxAttemptsAssumption, Spread
  DEF Arrive, Reply, IInv, TypeOK, BudgetLeft, OwedIsCovered, FreshGateCovers, Phases, Statuses
<1> QED BY <1>1, <1>2

\* A call whose sleep at the gate is over owes at most the spread.
LEMMA WakeInv == ASSUME NEW c \in Calls, IInv, Wake(c) PROVE IInv'
<1>1. attempts[c] \in Nat /\ attempts[c] < MaxAttempts /\ prov[c] \in Names /\ TypeOK
  BY MaxAttemptsAssumption DEF IInv, TypeOK, BudgetLeft, Wake
<1>2. SendResult(c, attempts[c]) BY <1>1, SendOutcome DEF Wake
<1>3. TypeOK' BY <1>2 DEF Wake, SendResult, IInv, TypeOK
<1>4. BudgetLeft' BY <1>1, <1>2 DEF Wake, SendResult, IInv, TypeOK, BudgetLeft
<1>5. OwedIsCovered' BY <1>2, Spread DEF Wake, SendResult, IInv, TypeOK, OwedIsCovered
<1>6. FreshGateCovers' BY <1>2 DEF Wake, SendResult, IInv, TypeOK, FreshGateCovers
<1> QED BY <1>3, <1>4, <1>5, <1>6 DEF IInv

\* The next attempt reads a cooldown that covers what the call owes.
LEMMA NextAttemptInv == ASSUME NEW c \in Calls, IInv, NextAttempt(c) PROVE IInv'
<1>1. attempts[c] \in Nat /\ attempts[c] < MaxAttempts /\ prov[c] \in Names /\ TypeOK
  BY MaxAttemptsAssumption DEF IInv, TypeOK, BudgetLeft, NextAttempt
<1>2. GateResult(c, prov[c], attempts[c]) BY <1>1, GateOutcome DEF NextAttempt
<1>3. TypeOK' BY <1>2 DEF NextAttempt, GateResult, IInv, TypeOK
<1>4. BudgetLeft' BY <1>1, <1>2 DEF NextAttempt, GateResult, IInv, TypeOK, BudgetLeft
<1>5. OwedIsCovered'
  BY <1>2, Spread DEF NextAttempt, GateResult, IInv, TypeOK, OwedIsCovered
<1>6. FreshGateCovers' BY <1>2 DEF NextAttempt, GateResult, IInv, TypeOK, FreshGateCovers
<1> QED BY <1>3, <1>4, <1>5, <1>6 DEF IInv

\* A transient error changes neither the cooldowns nor what is owed.
LEMMA TransientErrorInv == ASSUME NEW c \in Calls, IInv, TransientError(c) PROVE IInv'
<1>1. RetryResult(c) BY RetryOutcome DEF TransientError, IInv
<1>2. TypeOK' BY <1>1 DEF TransientError, RetryResult, IInv, TypeOK
<1>3. BudgetLeft' BY <1>1 DEF TransientError, RetryResult, IInv, TypeOK, BudgetLeft
<1>4. OwedIsCovered'
  BY <1>1, Spread DEF TransientError, RetryResult, IInv, TypeOK, OwedIsCovered
<1>5. FreshGateCovers' BY <1>1 DEF TransientError, RetryResult, IInv, TypeOK, FreshGateCovers
<1> QED BY <1>2, <1>3, <1>4, <1>5 DEF IInv

\* A 429 sets its cooldown to what its call then owes; for the calls that back
\* off the new cooldown is at least LeastDelay, and they owe at most MostDelay.
LEMMA RateLimitedInv ==
  ASSUME NEW c \in Calls, NEW ra \in RetryAfters \cup {None}, IInv, RateLimited(c, ra)
  PROVE  IInv'
<1>1. prov[c] \in Names /\ TypeOK BY DEF IInv, TypeOK
<1>2. TripResult(prov[c]) BY <1>1, TripBounds DEF RateLimited
<1>3. RetryResult(c) BY <1>1, RetryOutcome DEF RateLimited
<1>4. /\ owed' = [owed EXCEPT ![c] = cool'[prov[c]]] /\ UNCHANGED <<prov, attempts>>
      /\ stale' = [d \in Calls |-> stale[d] \/ (pc[d] = "queued" /\ prov[d] = prov[c])]
      /\ pc[c] = "flight"
  BY DEF RateLimited
<1>5. TypeOK'
  <2>1. stale' \in [Calls -> BOOLEAN] BY <1>4 DEF IInv, TypeOK
  <2>2. owed' \in [Calls -> Nat] BY <1>1, <1>2, <1>4 DEF TripResult, TypeOK
  <2> QED BY <1>2, <1>3, <1>4, <2>1, <2>2 DEF TripResult, RetryResult, IInv, TypeOK
<1>6. BudgetLeft' BY <1>3, <1>4 DEF RetryResult, IInv, TypeOK, BudgetLeft
<1>7. OwedIsCovered'
  <2> SUFFICES ASSUME NEW d \in Calls PROVE OwedIsCovered!(d)' BY DEF OwedIsCovered
  <2>1. prov[d] \in Names /\ prov'[d] = prov[d] BY <1>4 DEF IInv, TypeOK
  <2>2. CASE d = c
    BY <1>1, <1>2, <1>3, <1>4, <2>2, Spread DEF TripResult, RetryResult, TypeOK
  <2>3. CASE d # c
    <3>1. pc'[d] = pc[d] /\ timer'[d] = timer[d] /\ owed'[d] = owed[d]
      BY <1>1, <1>3, <1>4, <2>3 DEF RetryResult, TypeOK
    <3>2. /\ owed[d] \in Nat /\ timer[d] \in Nat /\ cool[prov[d]] \in Nat
          /\ cool'[prov[d]] \in Nat
          /\ cool'[prov[d]] = cool[prov[d]] \/ cool'[prov[d]] >= LeastDelay
      BY <1>1, <1>2, <2>1 DEF TripResult, TypeOK
    <3>3. OwedIsCovered!(d) BY DEF IInv, OwedIsCovered
    <3> QED BY <2>1, <3>1, <3>2, <3>3, Spread
  <2> QED BY <2>2, <2>3
<1>8. FreshGateCovers'
  <2> SUFFICES ASSUME NEW d \in Calls, pc'[d] = "queued", ~stale'[d]
               PROVE  cool'[prov'[d]] <= timer'[d]
    BY DEF FreshGateCovers
  <2>1. d # c /\ pc[d] = "queued" /\ timer'[d] = timer[d] BY <1>3, <1>4 DEF RetryResult
  <2>2. ~stale[d] /\ prov[d] # prov[c] BY <1>4, <2>1
  <2>3. cool'[prov'[d]] = cool[prov[d]] BY <1>1, <1>2, <1>4, <2>2 DEF TripResult, TypeOK
  <2> QED BY <2>1, <2>2, <2>3 DEF IInv, FreshGateCovers
<1> QED BY <1>5, <1>6, <1>7, <1>8 DEF IInv

\* Time runs at the same pace for the cooldowns, the timers and what is owed.
LEMMA TickInv == ASSUME IInv, Tick PROVE IInv'
<1>1. TypeOK' BY DEF IInv, TypeOK, Tick, Less
<1>2. BudgetLeft' BY DEF IInv, BudgetLeft, Tick
<1>3. ASSUME NEW d \in Calls
      PROVE  /\ pc'[d] = pc[d] /\ prov'[d] = prov[d] /\ stale'[d] = stale[d]
             /\ owed[d] \in Nat /\ timer[d] \in Nat /\ cool[prov[d]] \in Nat
             /\ owed'[d] = Less(owed[d]) /\ timer'[d] = Less(timer[d])
             /\ cool'[prov'[d]] = Less(cool[prov[d]])
  BY DEF IInv, TypeOK, Tick
<1>4. OwedIsCovered' BY <1>3, Spread DEF IInv, OwedIsCovered, Less
<1>5. FreshGateCovers' BY <1>3 DEF IInv, FreshGateCovers, Less
<1> QED BY <1>1, <1>2, <1>4, <1>5 DEF IInv

\* Every step keeps the invariant.
LEMMA StepInv == IInv /\ [Next]_vars => IInv'
<1> SUFFICES ASSUME IInv, [Next]_vars PROVE IInv' OBVIOUS
<1>1. ASSUME NEW c \in Calls, Respond(c) PROVE IInv'
  <2>1. CASE Success(c) BY <2>1, EndInv DEF Success, Statuses
  <2>2. CASE ClientError(c) BY <2>2, EndInv DEF ClientError, Statuses
  <2>3. CASE MalformedBody(c) BY <2>3, EndInv DEF MalformedBody, Statuses
  <2>4. CASE TransientError(c) BY <2>4, TransientErrorInv
  <2>5. CASE \E ra \in RetryAfters \cup {None} : RateLimited(c, ra) BY <2>5, RateLimitedInv
  <2> QED BY <1>1, <2>1, <2>2, <2>3, <2>4, <2>5 DEF Respond
<1>2. CASE UNCHANGED vars
  BY <1>2 DEF vars, IInv, TypeOK, BudgetLeft, OwedIsCovered, FreshGateCovers
<1> QED BY <1>1, <1>2, ArriveInv, WakeInv, NextAttemptInv, TickInv DEF Next

\* The inductive invariant holds at every state of every behaviour, for any
\* number of calls and providers (llm/client.py, llm/throttle.py).
THEOREM Invariance == Spec => []IInv
BY InitInv, StepInv, PTL DEF Spec

\* Every variable keeps its type; in particular no call ever sends more than
\* MaxAttempts requests (stop_after_attempt in llm/retry.py).
THEOREM TypeCorrect == Spec => []TypeOK
<1>1. IInv => TypeOK BY DEF IInv
<1>2. QED BY <1>1, Invariance, PTL

(***************************************************************************)
(* What follows about steps.                                               *)
(***************************************************************************)

\* A call's own 429 is honoured up to the spread of the delays, and in full
\* when every 429 asks for the same delay (client.py:39-49, throttle.py:39-42).
THEOREM OwnDelayHonoured == Spec => HonoursOwnDelay
<1>1. IInv' => \A c \in Calls : Sends(c) => owed'[c] <= MostDelay - LeastDelay
  BY DEF IInv, OwedIsCovered, Sends
<1>2. QED BY <1>1, Invariance, PTL DEF HonoursOwnDelay

\* A call that passes the gate sends only when it reads no cooldown.
LEMMA GateSends ==
  ASSUME IInv, NEW c \in Calls, NEW p \in Names, NEW n \in Nat, n < MaxAttempts,
         PassGate(c, p, n), NEW d \in Calls, Sends(d)
  PROVE  d = c /\ cool[p] = 0
<1>1. GateResult(c, p, n) BY GateOutcome DEF IInv
<1>2. QED BY <1>1 DEF GateResult, Sends

\* The steps in which a request leaves, and the cooldown it leaves under.
LEMMA SendingSteps ==
  ASSUME IInv, [Next]_vars, NEW d \in Calls, Sends(d), cool[prov'[d]] > 0
  PROVE  pc[d] = "queued" /\ stale[d]
<1>1. ASSUME NEW c \in Calls, NEW p \in Names, Arrive(c, p)
      PROVE  pc[d] = "queued" /\ stale[d]
  <2>1. CASE p \in Registered
    <3>1. PassGate(c, p, 0) /\ prov' = [prov EXCEPT ![c] = p] BY <1>1, <2>1 DEF Arrive
    <3>2. d = c /\ cool[p] = 0 BY <3>1, GateSends, MaxAttemptsAssumption
    <3> QED BY <3>1, <3>2 DEF IInv, TypeOK
  <2>2. CASE p \notin Registered
    BY <1>1, <2>2 DEF Arrive, Reply, Sends, IInv, TypeOK
  <2> QED BY <2>1, <2>2
<1>2. ASSUME NEW c \in Calls, Wake(c) PROVE pc[d] = "queued" /\ stale[d]
  <2>1. attempts[c] \in Nat /\ attempts[c] < MaxAttempts /\ prov[c] \in Names /\ TypeOK
    BY <1>2, MaxAttemptsAssumption DEF IInv, TypeOK, BudgetLeft, Wake
  <2>2. SendResult(c, attempts[c]) BY <1>2, <2>1, SendOutcome DEF Wake
  <2>3. d = c BY <2>2 DEF SendResult, Sends
  <2>4. cool[prov[c]] > timer[c] BY <1>2, <2>3 DEF Wake
  <2> QED BY <1>2, <2>1, <2>3, <2>4 DEF Wake, IInv, FreshGateCovers, TypeOK
<1>3. ASSUME NEW c \in Calls, NextAttempt(c) PROVE pc[d] = "queued" /\ stale[d]
  <2>1. attempts[c] \in Nat /\ attempts[c] < MaxAttempts /\ prov[c] \in Names
    BY <1>3, MaxAttemptsAssumption DEF IInv, TypeOK, BudgetLeft, NextAttempt
  <2>2. d = c /\ cool[prov[c]] = 0 BY <1>3, <2>1, GateSends DEF NextAttempt
  <2> QED BY <1>3, <2>2 DEF NextAttempt
<1>4. ASSUME NEW c \in Calls, Respond(c) PROVE pc[d] = "queued" /\ stale[d]
  <2>1. ~ \E code \in Statuses : Reply(c, code) BY DEF Reply, Sends, IInv, TypeOK
  <2>2. ~ RetryOrGiveUp(c) BY RetryOutcome DEF RetryResult, Sends, IInv
  <2> QED BY <1>4, <2>1, <2>2
      DEF Respond, Success, ClientError, MalformedBody, TransientError, RateLimited, Statuses
<1>5. ~Tick /\ ~UNCHANGED vars BY DEF Tick, vars, Sends
<1> QED BY <1>1, <1>2, <1>3, <1>4, <1>5 DEF Next

\* A request leaves during a cooldown only when the 429 that set it came while
\* the call was already asleep at the gate (client.py:47-52).
THEOREM OnlyStaleGatesSend == Spec => OnlyAStaleGateSends
<1>1. IInv /\ [Next]_vars =>
        [\A c \in Calls : (Sends(c) /\ cool[prov'[c]] > 0) => (pc[c] = "queued" /\ stale[c])]_vars
  BY SendingSteps
<1>2. QED BY <1>1, Invariance, PTL DEF OnlyAStaleGateSends, Spec

(***************************************************************************)
(* The steps of the client are steps of BoundedRetry.                      *)
(***************************************************************************)

\* A step that touches one call touches one call under the mapping.
LEMMA MappedStep ==
  ASSUME NEW c \in Calls, IInv, IInv',
         \A d \in Calls \ {c} : /\ pc'[d] = pc[d] /\ attempts'[d] = attempts[d]
                                /\ status'[d] = status[d]
  PROVE  /\ phaseBar' = [phaseBar EXCEPT ![c] = phaseBar'[c]]
         /\ attempts' = [attempts EXCEPT ![c] = attempts'[c]]
         /\ status' = [status EXCEPT ![c] = status'[c]]
BY DEF phaseBar, Running, IInv, TypeOK

\* Passing the gate on arrival begins or refuses a call.
LEMMA ArriveMaps ==
  ASSUME IInv, IInv', NEW c \in Calls, NEW p \in Names, Arrive(c, p)
  PROVE  Promise!Begin(c) \/ Promise!Refuse(c)
<1>1. CASE p \in Registered
  <2>1. PassGate(c, p, 0) BY <1>1 DEF Arrive
  <2>2. GateResult(c, p, 0) BY <2>1, GateOutcome, MaxAttemptsAssumption DEF IInv
  <2>3. /\ phaseBar' = [phaseBar EXCEPT ![c] = phaseBar'[c]]
        /\ attempts' = [attempts EXCEPT ![c] = attempts'[c]]
        /\ status' = [status EXCEPT ![c] = status'[c]]
    BY <2>2, MappedStep DEF GateResult
  <2>4. phaseBar[c] # "open" BY DEF Arrive, phaseBar
  <2>5. CASE pc'[c] \in {"queued", "flight"}
    <3>1. attempts'[c] \in 0..1 /\ status'[c] = 0 BY <2>2, <2>5 DEF GateResult
    <3>2. phaseBar'[c] = "open" BY <2>5 DEF phaseBar, Running
    <3> QED BY <2>3, <2>4, <3>1, <3>2 DEF Promise!Begin
  <2>6. CASE pc'[c] = "done"
    <3>1. attempts'[c] = 0 /\ status'[c] = 500 BY <2>2, <2>6 DEF GateResult
    <3>2. phaseBar'[c] = "closed" BY <2>6 DEF phaseBar, Running
    <3> QED BY <2>3, <2>4, <3>1, <3>2 DEF Promise!Refuse
  <2> QED BY <2>2, <2>5, <2>6 DEF GateResult
<1>2. CASE p \notin Registered
  <2>1. /\ pc' = [pc EXCEPT ![c] = "done"] /\ status' = [status EXCEPT ![c] = 500]
        /\ attempts' = [attempts EXCEPT ![c] = 0]
    BY <1>2 DEF Arrive, Reply
  <2>2. phaseBar' = [phaseBar EXCEPT ![c] = "closed"]
    BY <2>1 DEF phaseBar, Running, IInv, TypeOK
  <2>3. phaseBar[c] # "open" BY DEF Arrive, phaseBar
  <2> QED BY <2>1, <2>2, <2>3 DEF Promise!Refuse
<1> QED BY <1>1, <1>2

\* A running call that ends with a status its requests have earned closes.
LEMMA CloseMaps ==
  ASSUME IInv, NEW c \in Calls, Running(c), NEW code, code \in Promise!Results,
         Promise!Earned(code, attempts[c]), Reply(c, code), UNCHANGED attempts
  PROVE  Promise!Close(c)
<1>1. phaseBar' = [phaseBar EXCEPT ![c] = "closed"]
  BY DEF Reply, phaseBar, Running, IInv, TypeOK
<1>2. phaseBar[c] = "open" BY DEF phaseBar, Running
<1>3. QED BY <1>1, <1>2 DEF Promise!Close, Reply

\* A running call that sends again tries once more; one found without a key
\* closes with a 500.
LEMMA ResumeMaps ==
  ASSUME IInv, IInv', NEW c \in Calls, pc[c] \in {"queued", "backoff"},
         \A d \in Calls \ {c} : /\ pc'[d] = pc[d] /\ attempts'[d] = attempts[d]
                                /\ status'[d] = status[d],
         \/ pc'[c] = "flight" /\ attempts'[c] = attempts[c] + 1
         \/ pc'[c] = "queued" /\ attempts'[c] = attempts[c]
         \/ pc'[c] = "done" /\ attempts'[c] = attempts[c] /\ status'[c] = 500
  PROVE  Promise!Try(c) \/ Promise!Close(c) \/ UNCHANGED Promise!vars
<1>1. /\ phaseBar' = [phaseBar EXCEPT ![c] = phaseBar'[c]]
      /\ attempts' = [attempts EXCEPT ![c] = attempts'[c]]
      /\ status' = [status EXCEPT ![c] = status'[c]]
  BY MappedStep
<1>2. /\ phaseBar \in [Calls -> {"idle", "open", "closed"}] /\ phaseBar[c] = "open"
      /\ status \in [Calls -> Statuses] /\ attempts \in [Calls -> 0..MaxAttempts]
      /\ attempts[c] < MaxAttempts /\ status[c] = 0
  BY DEF phaseBar, Running, IInv, TypeOK, BudgetLeft
<1>3. CASE pc'[c] = "flight" /\ attempts'[c] = attempts[c] + 1
  <2>1. phaseBar'[c] = "open" /\ status'[c] = 0
    BY <1>3 DEF phaseBar, Running, IInv, BudgetLeft
  <2>2. phaseBar' = phaseBar BY <1>3 DEF phaseBar, Running
  <2>5. status' = status BY <1>2, <2>1 DEF IInv, TypeOK
  <2>3. attempts' = [attempts EXCEPT ![c] = attempts[c] + 1] BY <1>1, <1>3
  <2>4. Promise!Try(c) BY <1>2, <2>2, <2>3, <2>5 DEF Promise!Try
  <2> QED BY <2>4
<1>4. CASE pc'[c] = "queued" /\ attempts'[c] = attempts[c]
  <2>1. phaseBar'[c] = "open" /\ status'[c] = 0
    BY <1>4 DEF phaseBar, Running, IInv, BudgetLeft
  <2>2. phaseBar' = phaseBar BY <1>4 DEF phaseBar, Running
  <2>3. status' = status /\ attempts' = attempts BY <1>2, <1>4, <2>1 DEF IInv, TypeOK
  <2> QED BY <2>2, <2>3 DEF Promise!vars
<1>5. CASE pc'[c] = "done" /\ attempts'[c] = attempts[c] /\ status'[c] = 500
  <2>1. Promise!Earned(500, attempts[c]) /\ 500 \in Promise!Results
    BY <1>2 DEF Promise!Earned, Promise!Results
  <2>2. Reply(c, 500) /\ attempts' = attempts BY <1>1, <1>2, <1>5 DEF Reply, IInv, TypeOK
  <2>3. Running(c) BY DEF Running
  <2> QED BY <2>1, <2>2, <2>3, CloseMaps
<1> QED BY <1>3, <1>4, <1>5

\* A response closes the call with a status its requests have earned, or
\* leaves it open to back off.
LEMMA RespondMaps ==
  ASSUME IInv, IInv', NEW c \in Calls, Respond(c)
  PROVE  Promise!Close(c) \/ UNCHANGED Promise!vars
<1>1. /\ phaseBar \in [Calls -> {"idle", "open", "closed"}] /\ phaseBar[c] = "open"
      /\ status \in [Calls -> Statuses] /\ attempts \in [Calls -> 0..MaxAttempts]
      /\ attempts[c] > 0 /\ status[c] = 0 /\ pc[c] = "flight" /\ UNCHANGED attempts
  BY DEF Respond, Success, ClientError, MalformedBody, TransientError, RateLimited,
         phaseBar, Running, IInv, TypeOK, BudgetLeft
<1>2. ASSUME NEW code \in {200, 400, 500}, Reply(c, code) PROVE Promise!Close(c)
  <2>1. Promise!Earned(code, attempts[c]) /\ code \in Promise!Results
    BY <1>1, MaxAttemptsAssumption DEF Promise!Earned, Promise!Results
  <2>2. Running(c) BY <1>1 DEF Running
  <2> QED BY <1>1, <1>2, <2>1, <2>2, CloseMaps
<1>3. ASSUME RetryOrGiveUp(c) PROVE Promise!Close(c) \/ UNCHANGED Promise!vars
  <2>1. CASE attempts[c] >= MaxAttempts
    <3>1. Reply(c, 502) /\ attempts[c] = MaxAttempts
      BY <1>1, <1>3, <2>1, MaxAttemptsAssumption DEF RetryOrGiveUp
    <3>2. Promise!Earned(502, attempts[c]) /\ 502 \in Promise!Results
      BY <1>1, <3>1, MaxAttemptsAssumption DEF Promise!Earned, Promise!Results
    <3>3. Running(c) BY <1>1 DEF Running
    <3> QED BY <1>1, <3>1, <3>2, <3>3, CloseMaps
  <2>2. CASE attempts[c] < MaxAttempts
    <3>1. pc' = [pc EXCEPT ![c] = "backoff"] /\ UNCHANGED status
      BY <1>1, <1>3, <2>2, MaxAttemptsAssumption DEF RetryOrGiveUp
    <3>2. UNCHANGED phaseBar BY <1>1, <3>1 DEF phaseBar, Running, IInv, TypeOK
    <3> QED BY <1>1, <3>1, <3>2 DEF Promise!vars
  <2> QED BY <1>1, <2>1, <2>2, MaxAttemptsAssumption
<1> QED BY <1>2, <1>3
    DEF Respond, Success, ClientError, MalformedBody, TransientError, RateLimited

\* The retry loop, the gate and the router implement BoundedRetry step by
\* step: a 502 means exactly MaxAttempts requests were sent, an answer or a
\* client error ends the call at once (llm/retry.py, llm/client.py, demo.py).
THEOREM Refinement == Spec => StepsOfBoundedRetry
<1>1. Init => Promise!Init
  BY DEF Init, Promise!Init, phaseBar, Running
<1>2. IInv /\ IInv' /\ [Next]_vars => [Promise!Next]_(Promise!vars)
  <2> SUFFICES ASSUME IInv, IInv', [Next]_vars PROVE [Promise!Next]_(Promise!vars) OBVIOUS
  <2>1. ASSUME NEW c \in Calls, NEW p \in Names, Arrive(c, p) PROVE Promise!Next
    BY <2>1, ArriveMaps DEF Promise!Next
  <2>2. ASSUME NEW c \in Calls, Wake(c) PROVE [Promise!Next]_(Promise!vars)
    <3>1. attempts[c] \in Nat /\ attempts[c] < MaxAttempts /\ prov[c] \in Names /\ TypeOK
      BY <2>2, MaxAttemptsAssumption DEF IInv, TypeOK, BudgetLeft, Wake
    <3>2. SendResult(c, attempts[c]) BY <2>2, <3>1, SendOutcome DEF Wake
    <3> QED BY <2>2, <3>2, ResumeMaps DEF Wake, SendResult, Promise!Next
  <2>3. ASSUME NEW c \in Calls, NextAttempt(c) PROVE [Promise!Next]_(Promise!vars)
    <3>1. attempts[c] \in Nat /\ attempts[c] < MaxAttempts /\ prov[c] \in Names /\ TypeOK
      BY <2>3, MaxAttemptsAssumption DEF IInv, TypeOK, BudgetLeft, NextAttempt
    <3>2. GateResult(c, prov[c], attempts[c]) BY <2>3, <3>1, GateOutcome DEF NextAttempt
    <3> QED BY <2>3, <3>2, ResumeMaps DEF NextAttempt, GateResult, Promise!Next
  <2>4. ASSUME NEW c \in Calls, Respond(c) PROVE [Promise!Next]_(Promise!vars)
    BY <2>4, RespondMaps DEF Promise!Next
  <2>5. CASE Tick BY <2>5 DEF Tick, Promise!vars, phaseBar, Running
  <2>6. CASE UNCHANGED vars BY <2>6 DEF vars, Promise!vars, phaseBar, Running
  <2> QED BY <2>1, <2>2, <2>3, <2>4, <2>5, <2>6 DEF Next
<1>3. QED BY <1>1, <1>2, Invariance, PTL DEF Spec, StepsOfBoundedRetry
=============================================================================
