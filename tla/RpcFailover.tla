---------------------------- MODULE RpcFailover ----------------------------
(***************************************************************************)
(* FailoverRpcClient: concurrent send() calls walk a list of providers     *)
(* under one deadline, each provider behind a CircuitBreaker that closes,  *)
(* opens and lets a single probe through when its cooldown is over.        *)
(*                                                                         *)
(* Time is discrete and only its differences are kept: how long a breaker  *)
(* has been open, how old its failures are, how long a send has run.       *)
(***************************************************************************)
EXTENDS Integers, Sequences, FiniteSets, Functions

CONSTANTS
    Order,             \* the configured providers, by priority
    Sends,             \* the callers that may have a send in flight
    Deadline,          \* defaultDeadlineMs, of a whole send
    Cooldown, Window,  \* cooldownMs and windowMs
    FailureThreshold,
    MaxTransparent     \* bound: caller-scoped errors in a behaviour

Providers == {Order[k] : k \in DOMAIN Order}
NoProvider == "none"

ASSUME FailoverAssumption ==
    /\ Order \in Seq(Providers) /\ Order # <<>> /\ NoProvider \notin Providers
    /\ \A j, k \in DOMAIN Order : Order[j] = Order[k] => j = k
    /\ Deadline \in Nat \ {0} /\ Cooldown \in Nat \ {0} /\ Window \in Nat \ {0}
    /\ FailureThreshold \in Nat \ {0} /\ MaxTransparent \in Nat

VARIABLES
    breaker,        \* each provider's CircuitBreaker
    usable,         \* providers whose eth_chainId was verified at start
    deprioritized,  \* providers the last health check saw lagging
    at,             \* the provider each send awaits, or NoProvider
    todo,           \* the places of its candidates after that one
    elapsed,        \* how long it has run
    stopped,
    transparent     \* caller-scoped errors so far

sendVars == <<at, todo, elapsed>>
failoverVars == <<breaker, usable, deprioritized, sendVars, stopped, transparent>>

Ages == 0..(Window - 1)

Closed == [state |-> "closed", openFor |-> 0, failures |-> [age \in Ages |-> 0],
           probe |-> FALSE]

\* The places a provider may have among the candidates of a send.
Places == 1..(2 * Len(Order))
ProviderAt(place) == Order[IF place <= Len(Order) THEN place ELSE place - Len(Order)]

Breaker ==
    [state : {"closed", "open", "half-open"},
     openFor : 0..Cooldown,              \* now - openedAt, while it is open
     failures : [Ages -> Nat],           \* how many of each age; older ones are pruned
     probe : BOOLEAN]                    \* inFlightProbe

FailoverTypeOK ==
    /\ breaker \in [Providers -> Breaker]
    /\ usable \subseteq Providers /\ deprioritized \subseteq Providers
    /\ at \in [Sends -> Providers \cup {NoProvider}]
    /\ todo \in [Sends -> SUBSET Places]
    /\ elapsed \in [Sends -> 0..Deadline]
    /\ stopped \in BOOLEAN /\ transparent \in 0..MaxTransparent

\* HealthChecker.start: at least one provider is verified, or it throws.
FailoverInit ==
    /\ breaker = [p \in Providers |-> Closed]
    /\ usable \in SUBSET Providers \ {{}}
    /\ deprioritized = {}
    /\ at = [s \in Sends |-> NoProvider]
    /\ todo = [s \in Sends |-> {}]
    /\ elapsed = [s \in Sends |-> 0]
    /\ stopped = FALSE /\ transparent = 0

-----------------------------------------------------------------------------
(* CircuitBreaker. *)

CooledDown(b) == b.state = "open" /\ b.openFor >= Cooldown

\* Mutant: half-open grants whoever asks.
GrantsHalfOpen(b) == b.state \in {"closed", "half-open"} \/ CooledDown(b)

\* tryAcquire: what it answers, and the breaker it leaves.
Grants(b) ==
    \/ b.state = "closed"
    \/ (b.state = "half-open" \/ CooledDown(b)) /\ ~b.probe

Tried(b) ==
    IF CooledDown(b) THEN [b EXCEPT !.state = "half-open"] ELSE b

Acquired(b) ==
    IF b.state = "closed" THEN b ELSE [Tried(b) EXCEPT !.probe = TRUE]

RecordSuccess(b) == Closed

Open(b) == [b EXCEPT !.state = "open", !.openFor = 0]

Failures(b) == FoldFunction(+, 0, b.failures)

\* Mutant: a failed probe reopens the breaker and keeps the slot.
RecordFailureKeepsProbe(b) ==
    LET failed == [b EXCEPT !.failures[0] = @ + 1]
    IN IF \/ b.state = "half-open"
          \/ b.state = "closed" /\ Failures(failed) >= FailureThreshold
       THEN Open(failed)
       ELSE failed

RecordFailure(b) ==
    LET failed == [b EXCEPT !.failures[0] = @ + 1]
    IN IF b.state = "half-open" THEN [Open(failed) EXCEPT !.probe = FALSE]
       ELSE IF b.state = "closed" /\ Failures(failed) >= FailureThreshold
            THEN Open(failed)
       ELSE failed

RecordAbandoned(b) ==
    IF b.state = "half-open" THEN [b EXCEPT !.probe = FALSE] ELSE b

-----------------------------------------------------------------------------
(* FailoverRpcClient.send. *)

\* Non-deprioritized candidates first, then the others; fixed when it starts.
Candidates ==
    {place \in Places :
        /\ ProviderAt(place) \in usable
        /\ place <= Len(Order) <=> ProviderAt(place) \notin deprioritized}

Finish(s) ==
    /\ at' = [at EXCEPT ![s] = NoProvider]
    /\ todo' = [todo EXCEPT ![s] = {}]
    /\ elapsed' = [elapsed EXCEPT ![s] = 0]

Least(places) == CHOOSE k \in places : \A j \in places : k <= j

\* The candidates whose breakers tryAcquire is called on without success.
Refusing(candidates, breakers) ==
    {ProviderAt(k) : k \in {k \in candidates :
        \A j \in candidates : j <= k => ~Grants(breakers[ProviderAt(j)])}}

\* From one await to the next: the send goes on to the first of its candidates
\* whose breaker grants it, or it throws AllProvidersFailedError.
Route(s, candidates, breakers, spent) ==
    LET granting == {k \in candidates : Grants(breakers[ProviderAt(k)])}
        next == Least(granting)
        tried == [p \in Providers |->
                    IF p \in Refusing(candidates, breakers) THEN Tried(breakers[p])
                    ELSE breakers[p]]
    IN IF spent >= Deadline
       THEN breaker' = breakers /\ Finish(s)
       ELSE IF granting = {}
       THEN breaker' = tried /\ Finish(s)
       ELSE /\ breaker' = [tried EXCEPT ![ProviderAt(next)] = Acquired(breakers[ProviderAt(next)])]
            /\ at' = [at EXCEPT ![s] = ProviderAt(next)]
            /\ todo' = [todo EXCEPT ![s] = {k \in candidates : k > next}]
            /\ elapsed' = [elapsed EXCEPT ![s] = spent]

NotSending(s) == at[s] = NoProvider

Send(s) ==
    /\ ~stopped /\ NotSending(s)
    /\ Route(s, Candidates, breaker, 0)
    /\ UNCHANGED <<usable, deprioritized, stopped, transparent>>

Succeed(s) ==
    /\ ~NotSending(s)
    /\ breaker' = [breaker EXCEPT ![at[s]] = RecordSuccess(@)]
    /\ Finish(s)
    /\ UNCHANGED <<usable, deprioritized, stopped, transparent>>

\* A provider fault: counted, and the next candidate is tried.
ProviderFails(s) ==
    /\ ~NotSending(s) /\ ~stopped
    /\ Route(s, todo[s], [breaker EXCEPT ![at[s]] = RecordFailure(@)], elapsed[s])
    /\ UNCHANGED <<usable, deprioritized, stopped, transparent>>

\* The provider answers with an error of the call itself: rethrown as it is.
CallerFails(s) ==
    /\ ~NotSending(s) /\ ~stopped
    /\ transparent < MaxTransparent /\ transparent' = transparent + 1
    /\ Finish(s)
    /\ UNCHANGED <<breaker, usable, deprioritized, stopped>>

\* The deadline wins the race; both passes are over.
DeadlineExpires(s) ==
    /\ ~NotSending(s) /\ ~stopped /\ elapsed[s] = Deadline
    /\ breaker' = [breaker EXCEPT ![at[s]] = RecordAbandoned(@)]
    /\ Finish(s)
    /\ UNCHANGED <<usable, deprioritized, stopped, transparent>>

\* After stop() whatever goes wrong is a ClientStoppedError, and not recorded.
FailsStopped(s) ==
    /\ ~NotSending(s) /\ stopped
    /\ Finish(s)
    /\ UNCHANGED <<breaker, usable, deprioritized, stopped, transparent>>

Stop ==
    /\ ~stopped
    /\ stopped' = TRUE
    /\ UNCHANGED <<breaker, usable, deprioritized, sendVars, transparent>>

\* pollBlockNumbers: whoever leads, or nobody when none answers, is not behind.
HealthCheck ==
    /\ ~stopped
    /\ \E lagging \in SUBSET usable :
        /\ lagging # usable
        /\ deprioritized' = lagging
    /\ UNCHANGED <<breaker, usable, sendVars, stopped, transparent>>

\* Time passes; no send outlives its deadline.
Older(b) ==
    [b EXCEPT !.openFor = IF b.state = "open" /\ @ < Cooldown THEN @ + 1 ELSE @,
              !.failures = [age \in Ages |-> IF age = 0 THEN 0 ELSE @[age - 1]]]

Tick ==
    /\ \A s \in Sends : NotSending(s) \/ elapsed[s] < Deadline
    /\ breaker' = [p \in Providers |-> Older(breaker[p])]
    /\ elapsed' = [s \in Sends |-> IF NotSending(s) THEN 0 ELSE elapsed[s] + 1]
    /\ UNCHANGED <<usable, deprioritized, at, todo, stopped, transparent>>

Answer(s) ==
    \/ Succeed(s) \/ ProviderFails(s) \/ CallerFails(s) \/ DeadlineExpires(s)
    \/ FailsStopped(s)

FailoverNext ==
    \/ \E s \in Sends : Send(s) \/ Answer(s)
    \/ Stop \/ HealthCheck \/ Tick

FailoverSpec == FailoverInit /\ [][FailoverNext]_failoverVars

\* The pollers call send on their timers, sends end at their deadline at the
\* latest, and time passes.
FailoverFairSpec ==
    /\ FailoverSpec
    /\ WF_failoverVars(Tick)
    /\ \A s \in Sends : WF_failoverVars(Send(s)) /\ WF_failoverVars(Answer(s))

-----------------------------------------------------------------------------
(* Properties. *)

InFlight(p) == {s \in Sends : at[s] = p}

\* A provider that is being probed has one request in flight: no send from
\* before it opened is left, and no second one is let through (circuit-breaker
\* tryAcquire); it takes a deadline shorter than the cooldown.  And the probe
\* slot is taken only while a send that can release it is in flight, as long as
\* no call was answered with an error of its own (send rethrows those without a
\* word to the breaker).
OneProbe ==
    \A p \in Providers :
        /\ breaker[p].state = "half-open" => Cardinality(InFlight(p)) <= 1
        /\ breaker[p].probe => (InFlight(p) # {} \/ stopped \/ transparent > 0)

\* docs/SPEC.md 3.11: a failing provider is skipped "temporarily", "retrying
\* [it] periodically": the preferred provider is tried again, whatever deadlines
\* expired and however probes failed, until some call is answered with an error
\* of its own: that one keeps the probe slot.
RetriedUntilRethrow ==
    \A p \in Providers :
        (breaker[p].state # "closed")
        ~> (InFlight(p) # {} \/ stopped \/ ProviderAt(Least(Candidates)) # p \/ transparent > 0)
=============================================================================
