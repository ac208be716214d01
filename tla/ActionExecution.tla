---------------------------- MODULE ActionExecution ----------------------------
(* A batch of actions run by ActionExecutor (core/action_executor.py), one by *)
(* one or on a thread pool, whose commands are wrapped in a time budget, a    *)
(* rate limiter, a circuit breaker and a retry (core/quota.py, rate_limit.py, *)
(* circuit_breaker.py, retry.py), in this order from the outside.             *)
EXTENDS Integers, Sequences, FiniteSets

CONSTANTS
    Batches,      \* batches: [mode, validate, actions], an action being "call", "unknown" or "malformed"
    MaxWorkers,   \* threads of the pool
    FailureThreshold,
    MaxTries,  \* of retry_on_transient
    Capacity,     \* tokens of the limiter; one is added per tick
    MaxTicks      \* a bound on the ticks

Modes == {"serial", "parallel", "dry"}

ASSUME ExecutionAssumption ==
    /\ Batches \subseteq [mode : Modes, validate : BOOLEAN, actions : Seq({"call", "unknown", "malformed"})]
    /\ FailureThreshold \in Nat \ {0} /\ MaxTries \in Nat \ {0} /\ Capacity \in Nat

VARIABLES
    batch,
    phase,        \* "new", "running", "rejected" or "done"
    at,           \* at[i]: how far action i has got
    attempt,      \* attempt[i] of retry_on_transient
    results,      \* results[i]: "none", "value", "error" or "dry"
    failures,     \* _failures of the executor
    metrics,      \* actions_total by status
    state, count, recovered,  \* the breaker: _state, _failures, whether recovery_timeout has passed
    tokens,       \* the limiter: _tokens
    time,
    granted,      \* history: tokens taken
    trials        \* history: the calls let through since the circuit was last found half open

execVars == <<batch, phase, at, attempt, results, failures, metrics, state, count, recovered, tokens, time, granted,
              trials>>

breaker == <<state, count, recovered>>

Items == DOMAIN batch.actions

ExecInit ==
    /\ batch \in Batches
    /\ phase = "new"
    /\ at = [i \in Items |-> "queued"]
    /\ attempt = [i \in Items |-> 0]
    /\ results = [i \in Items |-> "none"]
    /\ failures = 0
    /\ metrics = [ok |-> 0, error |-> 0]
    /\ state = "closed" /\ count = 0 /\ recovered = FALSE
    /\ tokens = Capacity
    /\ time = 0
    /\ granted = 0
    /\ trials = {}

-----------------------------------------------------------------------------
(* The executor *)

\* validate: the shape of every action, and whether its name is registered
Validate(actions) == \A i \in DOMAIN actions : actions[i] = "call"

\* execute_action and execute_action_parallel, up to the first action; an empty list is refused.
Execute ==
    /\ phase = "new"
    /\ phase' = IF batch.actions = <<>> \/ (batch.validate /\ ~Validate(batch.actions)) THEN "rejected" ELSE "running"
    /\ UNCHANGED <<batch, at, attempt, results, failures, metrics, breaker, tokens, time, granted, trials>>

\* The next of the list, on the caller's thread or on one of the pool
Next1(i) ==
    /\ \A j \in 1..(i - 1) : at[j] # "queued"
    /\ batch.mode # "parallel" => \A j \in 1..(i - 1) : at[j] = "done"
    /\ Cardinality({j \in Items : at[j] \notin {"queued", "done"}}) < MaxWorkers

\* _run_dry: the name is resolved, nothing is called or counted.
RunDry(i) ==
    /\ phase = "running" /\ batch.mode = "dry" /\ at[i] = "queued" /\ Next1(i)
    /\ at' = [at EXCEPT ![i] = "done"]
    /\ results' = [results EXCEPT ![i] = IF batch.actions[i] = "call" THEN "dry" ELSE "error"]
    /\ UNCHANGED <<batch, phase, attempt, failures, metrics, breaker, tokens, time, granted, trials>>

\* _run_one: an action that cannot be resolved fails at once.
RunOne(i) ==
    /\ phase = "running" /\ batch.mode # "dry" /\ at[i] = "queued" /\ Next1(i)
    /\ at' = [at EXCEPT ![i] = IF batch.actions[i] = "call" THEN "limiter" ELSE "failed"]
    /\ UNCHANGED <<batch, phase, attempt, results, failures, metrics, breaker, tokens, time, granted, trials>>

IsFailure(i) == at[i] = "failed"

\* The finally of _run_one
Record(i) ==
    /\ at[i] \in {"returned", "failed"}
    /\ at' = [at EXCEPT ![i] = "done"]
    /\ results' = [results EXCEPT ![i] = IF at[i] = "failed" THEN "error" ELSE "value"]
    /\ metrics' = IF IsFailure(i) THEN [metrics EXCEPT !.error = @ + 1] ELSE [metrics EXCEPT !.ok = @ + 1]
    /\ failures' = IF IsFailure(i) THEN failures + 1 ELSE failures
    /\ UNCHANGED <<batch, phase, attempt, breaker, tokens, time, granted, trials>>

\* The call returns when every future has a result.
Return ==
    /\ phase = "running" /\ \A i \in Items : at[i] = "done"
    /\ phase' = "done"
    /\ UNCHANGED <<batch, at, attempt, results, failures, metrics, breaker, tokens, time, granted, trials>>

-----------------------------------------------------------------------------
(* The rate limiter *)

Min2(a, b) == IF a < b THEN a ELSE b

\* _refill_locked, for one tick
Refilled(n) == Min2(Capacity, n + 1)

Granted(i) ==
    /\ tokens' = tokens - 1
    /\ granted' = granted + 1
    /\ at' = [at EXCEPT ![i] = "breaker"]

\* acquire, once there is a token; a waiter looks again when one should have come.
Acquire(i) ==
    /\ at[i] = "limiter" /\ tokens >= 1
    /\ Granted(i)
    /\ UNCHANGED <<batch, phase, attempt, results, failures, metrics, breaker, time, trials>>

\* acquire with a timeout: RateLimitExceededException
AcquireTimesOut(i) ==
    /\ at[i] = "limiter" /\ tokens < 1
    /\ at' = [at EXCEPT ![i] = "failed"]
    /\ UNCHANGED <<batch, phase, attempt, results, failures, metrics, breaker, tokens, time, granted, trials>>

\* Time passes for the limiter and for the breaker.
TimePasses ==
    /\ time < MaxTicks
    /\ time' = time + 1
    /\ tokens' = Refilled(tokens)
    /\ recovered' = (recovered \/ state = "open")
    /\ UNCHANGED <<batch, phase, at, attempt, results, failures, metrics, state, count, granted, trials>>

-----------------------------------------------------------------------------
(* The circuit breaker around the retry *)

\* _maybe_transition_locked
StateNow == IF state = "open" /\ recovered THEN "half_open" ELSE state

\* Bug: one failure too many
OpensLate == state = "half_open" \/ count >= FailureThreshold

\* Calls that were let through closed and come back late count like the trial.
Opens == state = "half_open" \/ count + 1 >= FailureThreshold

\* call, up to the function: an open circuit that has recovered lets this call through for a trial,
\* and any other that comes before the first outcome.
Enter(i) ==
    /\ at[i] = "breaker" /\ StateNow # "open"
    /\ state' = StateNow
    /\ at' = [at EXCEPT ![i] = "calling"]
    /\ attempt' = [attempt EXCEPT ![i] = 1]
    /\ trials' = IF StateNow # "half_open" THEN trials ELSE IF state = "open" THEN {i} ELSE trials \union {i}
    /\ UNCHANGED <<batch, phase, results, failures, metrics, count, recovered, tokens, time, granted>>

\* CircuitOpenException
ShortCircuit(i) ==
    /\ at[i] = "breaker" /\ StateNow = "open"
    /\ state' = StateNow
    /\ at' = [at EXCEPT ![i] = "failed"]
    /\ UNCHANGED <<batch, phase, attempt, results, failures, metrics, count, recovered, tokens, time, granted, trials>>

\* retry_on_transient: a transient error before the last attempt
Retry(i) ==
    /\ at[i] = "calling" /\ attempt[i] < MaxTries
    /\ attempt' = [attempt EXCEPT ![i] = @ + 1]
    /\ UNCHANGED <<batch, phase, at, results, failures, metrics, breaker, tokens, time, granted, trials>>

\* time_budget: a command that took too long fails all the same.
EndOf(late) == IF late THEN "failed" ELSE "returned"

\* _on_success_locked
OnSuccess(i) ==
    /\ at[i] = "calling"
    /\ state' = "closed" /\ count' = 0
    /\ \E late \in BOOLEAN : at' = [at EXCEPT ![i] = EndOf(late)]
    /\ UNCHANGED <<batch, phase, attempt, results, failures, metrics, recovered, tokens, time, granted, trials>>

\* _on_failure_locked, for RetryExhaustedException or an error that is not transient
OnFailure(i) ==
    /\ at[i] = "calling"
    /\ count' = count + 1
    /\ state' = IF Opens THEN "open" ELSE state
    /\ recovered' = (recovered /\ ~Opens)
    /\ at' = [at EXCEPT ![i] = "failed"]
    /\ UNCHANGED <<batch, phase, attempt, results, failures, metrics, tokens, time, granted, trials>>

\* An exception that the breaker does not count
Surface(i) ==
    /\ at[i] = "calling"
    /\ at' = [at EXCEPT ![i] = "failed"]
    /\ trials' = trials \ {i}
    /\ UNCHANGED <<batch, phase, attempt, results, failures, metrics, breaker, tokens, time, granted>>

Reset ==
    /\ state # "closed"
    /\ state' = "closed" /\ count' = 0 /\ recovered' = FALSE
    /\ UNCHANGED <<batch, phase, at, attempt, results, failures, metrics, tokens, time, granted, trials>>

-----------------------------------------------------------------------------
Step(i) ==
    \/ RunDry(i) \/ RunOne(i) \/ Record(i) \/ Acquire(i) \/ AcquireTimesOut(i)
    \/ Enter(i) \/ ShortCircuit(i) \/ Retry(i) \/ OnSuccess(i) \/ OnFailure(i) \/ Surface(i)

ExecNext == Execute \/ Return \/ TimePasses \/ Reset \/ \E i \in Items : Step(i)

-----------------------------------------------------------------------------
\* Under every interleaving of calls that passed the circuit in different states, a closed circuit
\* has seen fewer failures than the threshold since the last success, any other at least one; the
\* first outcome after the recovery time decides, so a half-open circuit has all its trials still
\* under way; no more tokens were taken than the burst and the time allow; a call was tried at most
\* MaxTries times.  The "one" trial call of circuit_breaker.py:3-5 holds for calls that come one after
\* the other; with threads every call that comes before the first outcome is let through (lines
\* 85-88), and the outcome of a call let through before the circuit opened counts as a trial's.
GuardsHold ==
    /\ IF state = "closed" THEN count < FailureThreshold ELSE count > 0
    /\ state = "half_open" => \A i \in trials : at[i] = "calling"
    /\ (state = "half_open" /\ batch.mode # "parallel") => \A i, j \in trials : i = j
    /\ tokens \in 0..Capacity /\ granted <= Capacity + time
    /\ \A i \in Items : attempt[i] <= MaxTries

Recorded(status) == {i \in Items : at[i] = "done" /\ results[i] = status}

\* failure_count and the metrics agree with the results at every moment, also for commands that did
\* their work and failed at the quota; a batch that returned has a result for every action; and what
\* was only validated or rehearsed has called nothing.
AccountsAgree ==
    /\ failures = metrics.error
    /\ batch.mode # "dry" => failures = Cardinality(Recorded("error")) /\ metrics.ok = Cardinality(Recorded("value"))
    /\ phase = "done" => \A i \in Items : results[i] # "none"
    /\ (phase = "rejected" \/ batch.mode = "dry") => granted = 0 /\ failures = 0

\* What guards a command and what is told of it: both hold whatever the threads, the time and the
\* outcomes of the calls do.
ExecutorSound == GuardsHold /\ AccountsAgree
=============================================================================
