---------------------------- MODULE JobContract ----------------------------
(***************************************************************************)
(* What the pipeline promises of one background job to those who enqueue,  *)
(* watch and operate it: the documented state machine                      *)
(* (docs/technical/background-jobs.md, job-lifecycle.ts) with a bounded    *)
(* number of attempts, one committed result, and cancellations that hold.  *)
(* Leases, deliveries and outbox rows are not part of the promise.         *)
(***************************************************************************)
EXTENDS Naturals

CONSTANTS Jobs, LegacyJobs, SideResultJobs, DefaultMaxAttempts, AttemptLimit

VARIABLES status, used, granted, asked, committed

contractVars == <<status, used, granted, asked, committed>>

ContractInit ==
  /\ status = [j \in Jobs |-> IF j \in LegacyJobs THEN "QUEUED" ELSE "ABSENT"]
  /\ used = [j \in Jobs |-> 0]
  /\ granted = [j \in Jobs |-> DefaultMaxAttempts]
  /\ asked = [j \in Jobs |-> FALSE]
  /\ committed = [j \in Jobs |-> FALSE]

Submit(j) ==
  /\ status[j] = "ABSENT"
  /\ status' = [status EXCEPT ![j] = "QUEUED"]
  /\ UNCHANGED <<used, granted, asked, committed>>

\* An attempt starts only within the budget.
Begin(j) ==
  /\ status[j] = "QUEUED"
  /\ used[j] < granted[j]
  /\ status' = [status EXCEPT ![j] = "PROCESSING"]
  /\ used' = [used EXCEPT ![j] = @ + 1]
  /\ UNCHANGED <<granted, asked, committed>>

\* The attempt's outcome is the job's, unless its cancellation was accepted.
\* Only where others can produce the result is success not the attempt's own.
Succeed(j) ==
  /\ status[j] = "PROCESSING" /\ ~asked[j] /\ ~committed[j]
  /\ status' = [status EXCEPT ![j] = "SUCCEEDED"]
  /\ committed' = [committed EXCEPT ![j] = j \notin SideResultJobs]
  /\ UNCHANGED <<used, granted, asked>>

\* Waiting for another attempt, now or later, needs one left in the budget.
Again(j) ==
  /\ status[j] = "PROCESSING" /\ ~asked[j] /\ used[j] < granted[j]
  /\ \E s \in {"RETRY_SCHEDULED", "QUEUED"} : status' = [status EXCEPT ![j] = s]
  /\ UNCHANGED <<used, granted, asked, committed>>

Release(j) ==
  /\ status[j] = "RETRY_SCHEDULED"
  /\ status' = [status EXCEPT ![j] = "QUEUED"]
  /\ UNCHANGED <<used, granted, asked, committed>>

Fail(j) ==
  /\ status[j] = "PROCESSING" /\ ~asked[j]
  /\ status' = [status EXCEPT ![j] = "FAILED_ATTENTION"]
  /\ UNCHANGED <<used, granted, asked, committed>>

Ask(j) ==
  /\ status[j] = "PROCESSING"
  /\ asked' = [asked EXCEPT ![j] = TRUE]
  /\ UNCHANGED <<status, used, granted, committed>>

Cancel(j) ==
  /\ \/ status[j] \in {"QUEUED", "RETRY_SCHEDULED"}
     \/ status[j] = "PROCESSING" /\ asked[j]
  /\ status' = [status EXCEPT ![j] = "CANCELLED"]
  /\ asked' = [asked EXCEPT ![j] = TRUE]
  /\ UNCHANGED <<used, granted, committed>>

\* A manual retry leaves at least one attempt and stays under the ceiling.
Grant(j) ==
  /\ status[j] = "FAILED_ATTENTION" /\ ~committed[j]
  /\ \E g \in granted[j]..AttemptLimit :
       used[j] < g /\ granted' = [granted EXCEPT ![j] = g]
  /\ status' = [status EXCEPT ![j] = "QUEUED"]
  /\ UNCHANGED <<used, asked, committed>>

ContractNext ==
  \E j \in Jobs :
    \/ Submit(j) \/ Begin(j) \/ Succeed(j) \/ Again(j) \/ Release(j)
    \/ Fail(j) \/ Ask(j) \/ Cancel(j) \/ Grant(j)

Spec == ContractInit /\ [][ContractNext]_contractVars
=============================================================================
