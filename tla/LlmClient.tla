------------------------------ MODULE LlmClient ------------------------------
(***************************************************************************)
(* ChatClient.complete (llm/client.py): the retry loop of llm/retry.py     *)
(* around the throttle gate of llm/throttle.py and the provider call of    *)
(* llm/providers/base.py, run by the concurrent requests of the demo       *)
(* router, which share one client and so one table of cooldowns.           *)
(*                                                                         *)
(* A step runs a coroutine from one suspension to the next: the suspension *)
(* points are asyncio.sleep and the HTTP post.  The bodies under           *)
(* InMemoryThrottle's lock await nothing, so taking it never suspends.     *)
(* Time is a countdown: cool, timer and owed hold what is left of a        *)
(* delay, and Tick lets one unit pass.                                     *)
(***************************************************************************)
EXTENDS Integers

CONSTANTS
  Calls,            \* request slots of the server
  Names,            \* provider names a request may carry
  Registered,       \* names quotas.yaml defines
  Keyed,            \* registered providers whose API key is set
  MaxAttempts,      \* llm_max_retry_attempts
  RetryAfters,      \* delays a 429 may ask for
  DefaultCooldown,  \* InMemoryThrottle(default_cooldown)
  MaxBackoff,       \* max_wait of retry_with_backoff
  LeastDelay, MostDelay   \* bounds of the cooldowns a trip may set

None == -1          \* retry_after is None: no delay could be parsed

Delays == RetryAfters \cup {DefaultCooldown}

ASSUME ProvidersAssumption == Keyed \subseteq Registered /\ Registered \subseteq Names
ASSUME MaxAttemptsAssumption == MaxAttempts \in Nat \ {0}
ASSUME DelaysAssumption ==
  /\ Delays \subseteq Nat
  /\ LeastDelay \in Nat /\ MostDelay \in Nat
  /\ \A d \in Delays : LeastDelay <= d /\ d <= MostDelay
ASSUME MaxBackoffAssumption == MaxBackoff \in Nat

VARIABLES
  pc,        \* where a call is suspended
  prov,      \* the provider it asked for
  attempts,  \* requests it has sent
  timer,     \* time left of its current asyncio.sleep
  status,    \* HTTP status of its reply, 0 while it runs
  cool,      \* cooldown_until - now, per provider, floored at 0
  owed,      \* history: time left of the delay its own last 429 asked for
  stale      \* history: its provider was tripped after it read the gate

vars == <<pc, prov, attempts, timer, status, cool, owed, stale>>

Statuses == {0, 200, 400, 500, 502}
Phases == {"idle", "queued", "flight", "backoff", "done"}
Running(c) == pc[c] \in {"queued", "flight", "backoff"}

Init ==
  /\ pc = [c \in Calls |-> "idle"]
  /\ prov \in [Calls -> Names]
  /\ attempts = [c \in Calls |-> 0]
  /\ timer = [c \in Calls |-> 0]
  /\ status = [c \in Calls |-> 0]
  /\ cool = [p \in Names |-> 0]
  /\ owed = [c \in Calls |-> 0]
  /\ stale = [c \in Calls |-> FALSE]

(***************************************************************************)
(* The pieces of a step.                                                   *)
(***************************************************************************)

\* complete returns or raises out of the retry loop, and demo.chat replies.
Reply(c, code) ==
  /\ pc' = [pc EXCEPT ![c] = "done"]
  /\ status' = [status EXCEPT ![c] = code]

\* Mutation of Send: every attempt is counted as the first.
SendUncounted(c, p, n) ==
  \/ /\ p \in Keyed
     /\ pc' = [pc EXCEPT ![c] = "flight"]
     /\ attempts' = [attempts EXCEPT ![c] = 1]
     /\ status' = [status EXCEPT ![c] = 0]
  \/ p \notin Keyed /\ Reply(c, 500) /\ attempts' = [attempts EXCEPT ![c] = n]

\* provider_impl.chat_completion up to the HTTP post: a missing key raises
\* ProviderConfigError before anything is sent, and is not retried.
\* n is the number of requests the call had sent before.
Send(c, p, n) ==
  \/ /\ p \in Keyed
     /\ pc' = [pc EXCEPT ![c] = "flight"]
     /\ attempts' = [attempts EXCEPT ![c] = n + 1]
     /\ status' = [status EXCEPT ![c] = 0]
  \/ /\ p \notin Keyed
     /\ Reply(c, 500)
     /\ attempts' = [attempts EXCEPT ![c] = n]

\* Mutation of PassGate: sleeps the default cooldown, not what is left of it.
PassGateByDefault(c, p, n) ==
  /\ stale' = [stale EXCEPT ![c] = FALSE]
  /\ \/ /\ cool[p] > 0
        /\ pc' = [pc EXCEPT ![c] = "queued"]
        /\ timer' = [timer EXCEPT ![c] = DefaultCooldown]
        /\ attempts' = [attempts EXCEPT ![c] = n]
        /\ status' = [status EXCEPT ![c] = 0]
     \/ cool[p] = 0 /\ Send(c, p, n) /\ timer' = [timer EXCEPT ![c] = 0]

\* The top of _attempt: read the gate, then sleep or send.
PassGate(c, p, n) ==
  /\ stale' = [stale EXCEPT ![c] = FALSE]
  /\ \/ /\ cool[p] > 0
        /\ pc' = [pc EXCEPT ![c] = "queued"]
        /\ timer' = [timer EXCEPT ![c] = cool[p]]
        /\ attempts' = [attempts EXCEPT ![c] = n]
        /\ status' = [status EXCEPT ![c] = 0]
     \/ /\ cool[p] = 0
        /\ Send(c, p, n)
        /\ timer' = [timer EXCEPT ![c] = 0]

\* InMemoryThrottle.trip: the cooldown is set, whatever was left of the last.
Trip(p, retryAfter) ==
  LET delay == IF retryAfter # None THEN retryAfter ELSE DefaultCooldown
  IN  cool' = [cool EXCEPT ![p] = delay]

\* What tenacity does with a ProviderError: wait and try again, or reraise.
\* The wait is drawn from 0 up to an exponential ceiling.
Backoffs(n) == {w \in 0..MaxBackoff : w <= 2 ^ (n - 1)}

\* Mutations of RetryOrGiveUp: one attempt too many, one too few.
RetryOnceMore(c) ==
  \/ /\ attempts[c] <= MaxAttempts
     /\ pc' = [pc EXCEPT ![c] = "backoff"]
     /\ \E w \in Backoffs(attempts[c]) : timer' = [timer EXCEPT ![c] = w]
     /\ UNCHANGED status
  \/ attempts[c] > MaxAttempts /\ Reply(c, 502) /\ UNCHANGED timer
RetryOnceLess(c) ==
  \/ /\ attempts[c] < MaxAttempts - 1
     /\ pc' = [pc EXCEPT ![c] = "backoff"]
     /\ \E w \in Backoffs(attempts[c]) : timer' = [timer EXCEPT ![c] = w]
     /\ UNCHANGED status
  \/ attempts[c] >= MaxAttempts - 1 /\ Reply(c, 502) /\ UNCHANGED timer

RetryOrGiveUp(c) ==
  \/ /\ attempts[c] < MaxAttempts
     /\ pc' = [pc EXCEPT ![c] = "backoff"]
     /\ \E w \in Backoffs(attempts[c]) : timer' = [timer EXCEPT ![c] = w]
     /\ UNCHANGED status
  \/ /\ attempts[c] >= MaxAttempts
     /\ Reply(c, 502)
     /\ UNCHANGED timer

(***************************************************************************)
(* The steps.                                                              *)
(***************************************************************************)

\* A request for provider p arrives; an unknown name is a ProviderConfigError.
Arrive(c, p) ==
  /\ ~Running(c)
  /\ prov' = [prov EXCEPT ![c] = p]
  /\ owed' = [owed EXCEPT ![c] = 0]
  /\ \/ /\ p \in Registered
        /\ PassGate(c, p, 0)
     \/ /\ p \notin Registered
        /\ Reply(c, 500)
        /\ attempts' = [attempts EXCEPT ![c] = 0]
        /\ timer' = [timer EXCEPT ![c] = 0]
        /\ UNCHANGED stale
  /\ UNCHANGED cool

\* The sleep at the gate is over: the call sends without reading it again.
Wake(c) ==
  /\ pc[c] = "queued" /\ timer[c] = 0
  /\ Send(c, prov[c], attempts[c])
  /\ UNCHANGED <<prov, timer, cool, owed, stale>>

\* Mutation of NextAttempt: the gate is read once, before the retry loop.
NextAttemptPastGate(c) ==
  /\ pc[c] = "backoff" /\ timer[c] = 0
  /\ Send(c, prov[c], attempts[c])
  /\ stale' = [stale EXCEPT ![c] = FALSE]
  /\ UNCHANGED <<prov, timer, cool, owed>>

\* The backoff is over: the next attempt starts at the gate.
NextAttempt(c) ==
  /\ pc[c] = "backoff" /\ timer[c] = 0
  /\ PassGate(c, prov[c], attempts[c])
  /\ UNCHANGED <<prov, cool, owed>>

Success(c) ==
  /\ pc[c] = "flight"
  /\ Reply(c, 200)
  /\ UNCHANGED <<prov, attempts, timer, cool, owed, stale>>

\* 4xx other than 429, ProviderClientError, is not retried.
ClientError(c) ==
  /\ pc[c] = "flight"
  /\ Reply(c, 400)
  /\ UNCHANGED <<prov, attempts, timer, cool, owed, stale>>

\* A 200 whose body has no choices raises KeyError, which nothing handles.
MalformedBody(c) ==
  /\ pc[c] = "flight"
  /\ Reply(c, 500)
  /\ UNCHANGED <<prov, attempts, timer, cool, owed, stale>>

\* 5xx, or a network error or timeout: ProviderError.
TransientError(c) ==
  /\ pc[c] = "flight"
  /\ RetryOrGiveUp(c)
  /\ UNCHANGED <<prov, attempts, cool, owed, stale>>

\* 429: trip the throttle, then the retry decision, with no suspension between.
RateLimited(c, retryAfter) ==
  /\ pc[c] = "flight"
  /\ Trip(prov[c], retryAfter)
  /\ owed' = [owed EXCEPT ![c] = cool'[prov[c]]]
  /\ stale' = [d \in Calls |-> stale[d] \/ (pc[d] = "queued" /\ prov[d] = prov[c])]
  /\ RetryOrGiveUp(c)
  /\ UNCHANGED <<prov, attempts>>

Less(n) == IF n > 0 THEN n - 1 ELSE 0

\* One unit of time passes.
Tick ==
  /\ \/ \E p \in Names : cool[p] > 0
     \/ \E c \in Calls : timer[c] > 0 \/ owed[c] > 0
  /\ cool' = [p \in Names |-> Less(cool[p])]
  /\ timer' = [c \in Calls |-> Less(timer[c])]
  /\ owed' = [c \in Calls |-> Less(owed[c])]
  /\ UNCHANGED <<pc, prov, attempts, status, stale>>

Respond(c) ==
  \/ Success(c) \/ ClientError(c) \/ MalformedBody(c) \/ TransientError(c)
  \/ \E ra \in RetryAfters \cup {None} : RateLimited(c, ra)

Next ==
  \/ \E c \in Calls :
       \/ \E p \in Names : Arrive(c, p)
       \/ Wake(c) \/ NextAttempt(c) \/ Respond(c)
  \/ Tick

\* Timers fire and time passes; httpx bounds every request by DEFAULT_TIMEOUT,
\* so a request in flight comes back.  Nothing obliges a client to send one.
Fairness ==
  /\ WF_vars(Tick)
  /\ \A c \in Calls : WF_vars(Wake(c)) /\ WF_vars(NextAttempt(c)) /\ WF_vars(Respond(c))

Spec == Init /\ [][Next]_vars /\ Fairness

(***************************************************************************)
(* Properties.                                                             *)
(***************************************************************************)

TypeOK ==
  /\ pc \in [Calls -> Phases]
  /\ prov \in [Calls -> Names]
  /\ attempts \in [Calls -> 0..MaxAttempts]
  /\ timer \in [Calls -> Nat]
  /\ status \in [Calls -> Statuses]
  /\ cool \in [Names -> Nat]
  /\ owed \in [Calls -> Nat]
  /\ stale \in [Calls -> BOOLEAN]

Sends(c) == pc[c] # "flight" /\ pc'[c] = "flight"

\* A call whose own 429 asked for a delay does not send again before that delay
\* has passed, up to the spread between the delays providers ask for: a later,
\* shorter 429 of another call overwrites the cooldown (throttle.trip), so the
\* full delay is certain only when all are equal.  This is what the gate inside
\* the retry loop is for (client.py:39-46).
HonoursOwnDelay ==
  [][\A c \in Calls : Sends(c) => owed'[c] <= MostDelay - LeastDelay]_vars

\* A request leaves during a cooldown of its provider only if the 429 that set
\* this cooldown came after the call had read the gate: the gate never lets a
\* call through on a cooldown it could have seen.
OnlyAStaleGateSends ==
  [][\A c \in Calls :
       (Sends(c) /\ cool[prov'[c]] > 0) => (pc[c] = "queued" /\ stale[c])]_vars

\* Every request gets its reply, however many 429s the others attract.
EveryCallEnds == \A c \in Calls : Running(c) ~> pc[c] = "done"

(***************************************************************************)
(* The client implements BoundedRetry.                                     *)
(***************************************************************************)
phaseBar == [c \in Calls |-> IF Running(c) THEN "open"
                             ELSE IF pc[c] = "done" THEN "closed" ELSE "idle"]
Promise == INSTANCE BoundedRetry
             WITH Budget <- MaxAttempts, phase <- phaseBar,
                  tries <- attempts, result <- status

\* A 502 is reported only after exactly MaxAttempts requests, a 4xx ends the
\* call at once, no call sends more than MaxAttempts, and every call ends.
ImplementsBoundedRetry == Promise!Spec

\* The part of it that speaks of steps alone.
StepsOfBoundedRetry == Promise!Init /\ [][Promise!Next]_(Promise!vars)

(***************************************************************************)
(* The inductive invariant behind them.                                    *)
(***************************************************************************)

\* A call that may still send has budget left; one in flight has sent.
BudgetLeft ==
  \A c \in Calls :
    /\ pc[c] \in {"queued", "backoff"} => attempts[c] < MaxAttempts
    /\ pc[c] = "flight" => attempts[c] > 0
    /\ pc[c] \in {"idle", "queued", "flight", "backoff"} => status[c] = 0
    /\ pc[c] = "done" => status[c] # 0

\* What a call owes is covered, up to the spread, by what it is about to
\* wait: the cooldown while it backs off, its own timer once at the gate.
OwedIsCovered ==
  \A c \in Calls :
    /\ owed[c] <= MostDelay
    /\ pc[c] = "backoff" => owed[c] <= cool[prov[c]] + (MostDelay - LeastDelay)
    /\ pc[c] = "queued" => owed[c] <= timer[c] + (MostDelay - LeastDelay)
    /\ pc[c] = "flight" => owed[c] <= MostDelay - LeastDelay

\* The timer of a call that read the gate last covers the cooldown it read.
FreshGateCovers ==
  \A c \in Calls : (pc[c] = "queued" /\ ~stale[c]) => cool[prov[c]] <= timer[c]

IInv == TypeOK /\ BudgetLeft /\ OwedIsCovered /\ FreshGateCovers
=============================================================================
