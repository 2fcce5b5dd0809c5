----------------------------- MODULE RetryPolicy -----------------------------
(***************************************************************************)
(* The automatic retries of one job, in milliseconds since it was created: *)
(* each failed attempt is settled by decideJobRetry, and an operator may   *)
(* give a job that needs attention one more attempt.  Module JobExecution  *)
(* has the leases and the transactions around the decision.                *)
(***************************************************************************)
EXTENDS InstagramRules, GeminiRules

CONSTANTS
  RetryBudget,       \* maxAttempts the job was enqueued with
  JitterPercents,    \* outcomes of random(), as a percentage
  RetryAfterSeconds, \* Retry-After headers, Null for one that is no number
  HandlerDurations,  \* how long an attempt takes, in ms
  MaxManualRetries

ASSUME RetryAssumption ==
  /\ RetryBudget \in Nat \ {0} /\ MaxManualRetries \in Nat
  /\ JitterPercents \subseteq 0..100 /\ RetryAfterSeconds \subseteq Int \cup {Null}
  /\ HandlerDurations \subseteq Nat

VARIABLES
  chain,        \* [state, attempt, max, due, manual] of the job
  lastDelay,    \* ghost: [asked, given] of the last decision to retry
  elapsed       \* time since the job was created

retryVars == <<chain, lastDelay, elapsed>>

retryHorizonMs == 86400000

maximumAttemptsByClass == [
  CREDENTIAL |-> 2, DATABASE |-> 3, INVALID_INPUT |-> 1, RATE_LIMIT |-> 8,
  SEMANTIC_OUTPUT |-> 2, TRANSIENT |-> 5, UNKNOWN |-> 1]

retryCaps == [
  CREDENTIAL |-> <<1000>>, DATABASE |-> <<1000, 5000>>, INVALID_INPUT |-> <<>>,
  RATE_LIMIT |-> <<30000, 120000, 600000, 1800000, 7200000, 21600000, 43200000>>,
  SEMANTIC_OUTPUT |-> <<1000>>,
  TRANSIENT |-> <<30000, 120000, 600000, 1800000, 7200000>>, UNKNOWN |-> <<>>]

jobFailureClasses == DOMAIN retryCaps

\* "none" where a retry is not ruled out by the failure itself.
terminalNextAction(failure) ==
  CASE failure.class = "CREDENTIAL" ->
         IF failure.recoverable THEN "none" ELSE "RECONNECT_ACCOUNT"
    [] failure.class = "INVALID_INPUT" -> "REPLACE_INPUT"
    [] failure.class = "UNKNOWN" -> "CONTACT_SUPPORT"
    [] OTHER -> "none"

fallbackTerminalAction(class) ==
  CASE class = "CREDENTIAL" -> "RECONNECT_ACCOUNT"
    [] class = "INVALID_INPUT" -> "REPLACE_INPUT"
    [] class = "SEMANTIC_OUTPUT" -> "REVIEW_OUTPUT"
    [] OTHER -> "CONTACT_SUPPORT"

\* providerRetryAfterMs, of either provider; 0 for none.
ProviderDelays ==
  {IF ms = Null THEN 0 ELSE ms
     : ms \in UNION {{ParseRetryAfterMs(s), parseGeminiRetryAfterMs(s)} : s \in RetryAfterSeconds}}

Larger(a, b) == IF a < b THEN b ELSE a

\* A mutant of WithinHorizon: each delay has a day of its own.
WithinDayOfFailure(now, delay) == delay <= retryHorizonMs

WithinHorizon(now, delay) == delay <= retryHorizonMs /\ now + delay <= retryHorizonMs

\* 0 for FAILED_ATTENTION, else the delay of the retry.
decideJobRetry(attempt, max, failure, now, jitter) ==
  LET allowed == maximumAttemptsByClass[failure.class]
      caps == retryCaps[failure.class]
      delay == Larger(Larger(1000, (caps[attempt] \div 100) * jitter), failure.retryAfter)
  IN IF \/ terminalNextAction(failure) # "none"
        \/ attempt >= max \/ attempt >= allowed
        \/ attempt \notin DOMAIN caps
     THEN 0
     ELSE IF WithinHorizon(now, delay) THEN delay ELSE 0

NextAction(failure) ==
  IF terminalNextAction(failure) # "none" THEN terminalNextAction(failure)
  ELSE fallbackTerminalAction(failure.class)

RetryInit ==
  /\ chain = [state |-> "QUEUED", attempt |-> 0, max |-> RetryBudget, due |-> 0, manual |-> 0,
              nextAction |-> "none"]
  /\ lastDelay = [asked |-> 0, given |-> 0] /\ elapsed = 0

\* The job is claimed when it is due and its handler fails.
AttemptFails(failure, jitter, duration) ==
  LET now == Larger(elapsed, chain.due) + duration
      attempt == chain.attempt + 1
      delay == decideJobRetry(attempt, chain.max, failure, now, jitter)
  IN /\ chain.state = "QUEUED" /\ chain.attempt < chain.max
     /\ elapsed' = now
     /\ lastDelay' = [asked |-> failure.retryAfter, given |-> delay]
     /\ chain' = [chain EXCEPT
          !.attempt = attempt, !.due = now + delay,
          !.state = IF delay > 0 THEN "QUEUED" ELSE "FAILED_ATTENTION",
          !.nextAction = IF delay > 0 THEN "RETRY_AUTOMATIC" ELSE NextAction(failure)]

\* retryBackgroundJob: one more attempt at least, at once.
ManualRetry(later) ==
  /\ chain.state = "FAILED_ATTENTION" /\ chain.manual < MaxManualRetries
  /\ elapsed' = elapsed + later /\ lastDelay' = [asked |-> 0, given |-> 0]
  /\ chain' = [chain EXCEPT !.state = "QUEUED", !.due = elapsed + later, !.manual = @ + 1,
                            !.max = Larger(@, chain.attempt + 1), !.nextAction = "none"]

Failures == [class : jobFailureClasses, recoverable : BOOLEAN, retryAfter : ProviderDelays]

RetryNext ==
  \/ \E failure \in Failures, jitter \in JitterPercents, duration \in HandlerDurations :
       AttemptFails(failure, jitter, duration)
  \/ \E later \in HandlerDurations : ManualRetry(later)

RetrySpec == RetryInit /\ [][RetryNext]_retryVars

\* "A provider hint can lengthen a delay but cannot extend the job beyond its
\* configured attempt cap or the 24-hour retry horizon": along any chain of
\* failures an automatic retry waits for at least what the provider asked, is
\* due within a day of the job's creation, and is within the job's budget.
AutomaticRetriesStayInBounds ==
  chain.nextAction = "RETRY_AUTOMATIC" =>
    /\ lastDelay.given >= lastDelay.asked /\ lastDelay.given >= 1000
    /\ chain.due <= retryHorizonMs
    /\ chain.attempt < RetryBudget + chain.manual
=============================================================================
