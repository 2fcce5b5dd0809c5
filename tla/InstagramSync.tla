---------------------------- MODULE InstagramSync ----------------------------
(***************************************************************************)
(* The import of an account's media: the daily sweep, the operator's       *)
(* request and the bootstrap enqueue instagram.sync.account jobs; each     *)
(* attempt of a job pages through the media edge and commits every page    *)
(* together with the cursor that follows it, in a sync_runs row.           *)
(*                                                                         *)
(* One account.  Time is a day number, and a medium is named by the day    *)
(* it was published, so the edge, newest first, is a descending walk over  *)
(* the published days and a cursor is the last medium of a page.           *)
(***************************************************************************)
EXTENDS HandlerJobs, InstagramRules, FiniteSetsExt

CONSTANTS
  KeySets,      \* bound: the jobs of a behaviour lie within one of these sets
  Slots,        \* handler slots of the queue, over all worker processes
  FirstDay, MaxDay, \* the days of a behaviour: connected on the first
  FirstMedia,   \* media published before the account was connected
  MediaItems,   \* [days -> the item the provider sends for the medium]
  BootstrapDays, OverlapDays,  \* the two horizons, 180 and 14 in the code
  PageSize,     \* media per page
  MaximumPages, \* instagramMaximumSyncPages
  SyncFaults    \* lost leases, crashes, provider errors, disconnections

ASSUME SyncAssumption ==
  /\ FirstDay \in Nat \ {0} /\ MaxDay \in Nat /\ SyncFaults \in Nat
  /\ BootstrapDays \in Nat /\ OverlapDays \in Nat
  /\ PageSize \in Nat \ {0} /\ MaximumPages \in Nat \ {0}
  /\ FirstMedia \subseteq 1..(FirstDay - 1)

VARIABLES
  day,
  published,   \* media the provider has
  posts,       \* instagram_posts rows
  lastSync,    \* lastSuccessfulSyncAt, 0 for null
  connected,   \* connectionStatus = ACTIVE
  syncJob,     \* [SyncKeys -> background_job row]
  syncRun,     \* [SyncKeys -> sync_runs row]
  slot,        \* [Slots -> progress of importAccountMedia]
  syncFaults

syncVars == <<day, published, posts, lastSync, connected, syncJob, syncRun,
              slot, syncFaults>>

\* The three idempotency keys; instagramSyncTriggerFromKey reads the first part.
\* A manual key has minute resolution: here one request a day has its own key.
SyncKeys == {<<"BOOTSTRAP", 0>>} \cup ({"SCHEDULED", "MANUAL"} \X (FirstDay..MaxDay))
Trigger(k) == k[1]

\* Items the page reader counts as rejected and does not store.
Malformed == {m \in 1..MaxDay : NormaliseMediaItem(MediaItems[m]) # "OK"}

NoRun == [state |-> "NONE", cursor |-> 0, horizon |-> 0, known |-> {}]
IdleSlot == [pc |-> "idle", key |-> <<"BOOTSTRAP", 0>>, attempt |-> 0,
             saw |-> "NONE", horizon |-> 0, after |-> 0, page |-> {},
             visited |-> 0, class |-> "NONE"]

SyncInit ==
  /\ day = FirstDay
  /\ published = FirstMedia
  /\ posts = {}
  /\ lastSync = 0
  /\ connected = TRUE
  /\ \E bootstrap \in BOOLEAN :  \* enqueued with the connection, or one predating it
       syncJob = [k \in SyncKeys |-> IF bootstrap /\ Trigger(k) = "BOOTSTRAP"
                                       THEN Enqueue(AbsentJob) ELSE AbsentJob]
  /\ syncRun = [k \in SyncKeys |-> NoRun]
  /\ slot = [s \in Slots |-> IdleSlot]
  /\ syncFaults = SyncFaults

SyncFault == syncFaults > 0 /\ syncFaults' = syncFaults - 1

\* An attempt on its way out remembers only why.
Stopped(local, pc, class) ==
  [IdleSlot EXCEPT !.pc = pc, !.key = local.key, !.attempt = local.attempt, !.class = class]

-----------------------------------------------------------------------------
(* Who asks for a sync.                                                    *)

\* listInstagramAccountsDueForSync: connected, and never synced or a day ago.
DueForSync == connected /\ (lastSync = 0 \/ lastSync < day)

WithinBound(k) ==
  \E keys \in KeySets : {o \in SyncKeys : syncJob[o].state # "ABSENT"} \cup {k} \subseteq keys

\* One turn of the sweep.
EnqueueDueSyncs ==
  LET k == <<"SCHEDULED", day>> IN
    /\ DueForSync /\ WithinBound(k)
    /\ syncJob[k].state = "ABSENT"
    /\ syncJob' = [syncJob EXCEPT ![k] = Enqueue(@)]
    /\ UNCHANGED <<day, published, posts, lastSync, connected, syncRun, slot, syncFaults>>

\* instagramSyncRunActive.
SyncRunActive(trigger) ==
  \E k \in SyncKeys : Trigger(k) = trigger /\ syncRun[k].state = "RUNNING"

\* requestInstagramSync, past the administrator check and the rate limit.
RequestInstagramSync ==
  LET k == <<"MANUAL", day>> IN
    /\ connected /\ WithinBound(k)
    /\ ~SyncRunActive("MANUAL")
    /\ syncJob[k].state = "ABSENT"
    /\ syncJob' = [syncJob EXCEPT ![k] = Enqueue(@)]
    /\ UNCHANGED <<day, published, posts, lastSync, connected, syncRun, slot, syncFaults>>

-----------------------------------------------------------------------------
(* An attempt: importAccountMedia and pageAccountMedia.                    *)

Row(s) == syncJob[slot[s].key]
Run(s) == syncRun[slot[s].key]

\* resultExists is asked before the claim.
ClaimSync(s, k) ==
  /\ slot[s].pc = "idle"
  /\ Claimable(syncJob[k]) /\ syncRun[k].state # "SUCCEEDED"
  /\ syncJob' = [syncJob EXCEPT ![k] = Claim(@)]
  /\ slot' = [slot EXCEPT ![s] = [IdleSlot EXCEPT !.pc = "load", !.key = k,
                                                  !.attempt = syncJob[k].attempt + 1]]
  /\ UNCHANGED <<day, published, posts, lastSync, connected, syncRun, syncFaults>>

\* throwIfBackgroundJobCancellationRequested finds a request of this attempt:
\* the job is cancelled and the run is left as it is.
StopsForCancellation(s) ==
  /\ slot[s].pc \in {"load", "fetch", "persist"}
  /\ HoldsLease(Row(s), slot[s].attempt) /\ Row(s).cancel
  /\ syncJob' = [syncJob EXCEPT ![slot[s].key] = CancelJob(@)]
  /\ slot' = [slot EXCEPT ![s] = IdleSlot]
  /\ UNCHANGED <<day, published, posts, lastSync, connected, syncRun, syncFaults>>

\* The stage or heartbeat finds the lease gone.  Inside the try of
\* importAccountMedia that error fails the run like any other.
StopsForLease(s) ==
  /\ slot[s].pc \in {"load", "fetch", "persist"}
  /\ ~HoldsLease(Row(s), slot[s].attempt)
  /\ slot' = [slot EXCEPT ![s] =
                Stopped(@, IF @.pc = "load" THEN "settle" ELSE "failRun", "UNKNOWN")]
  /\ UNCHANGED <<day, published, posts, lastSync, connected, syncJob, syncRun, syncFaults>>

\* The account, its horizon and the run that may exist are read; the run's row
\* is only written in the next step.
LoadAccount(s) ==
  /\ slot[s].pc = "load" /\ MayContinue(Row(s), slot[s].attempt)
  /\ slot' = IF connected
       THEN [slot EXCEPT ![s] =
              [@ EXCEPT !.pc = "open", !.saw = Run(s).state,
                        !.horizon = LET back == IF lastSync = 0 THEN BootstrapDays
                                                                ELSE OverlapDays
                                    IN IF day > back THEN day - back ELSE 0]]
       ELSE [slot EXCEPT ![s] = Stopped(@, "settle", "CREDENTIAL")]
  /\ UNCHANGED <<day, published, posts, lastSync, connected, syncJob, syncRun, syncFaults>>

\* readAccessToken: no active credential or one that cannot be opened is a
\* CREDENTIAL failure, a missing deployment key is not the user's to fix.
ReadAccessTokenFails(s) ==
  /\ slot[s].pc = "load" /\ MayContinue(Row(s), slot[s].attempt) /\ connected
  /\ SyncFault
  /\ \E class \in {"CREDENTIAL", "UNKNOWN"} :
       slot' = [slot EXCEPT ![s] = Stopped(@, "settle", class)]
  /\ UNCHANGED <<day, published, posts, lastSync, connected, syncJob, syncRun>>

\* sync_runs_one_running_per_account_trigger.
IndexAllows(k) == ~SyncRunActive(Trigger(k))

\* startInstagramSyncRun.  A run read as RUNNING or SUCCEEDED is used as it is;
\* a failed one is reopened with its cursor; otherwise one is created.
OpenRun(s) ==
  LET k == slot[s].key
      refused == [slot EXCEPT ![s] = Stopped(@, "settle", "UNKNOWN")]
      opened == [slot EXCEPT ![s].pc = "resume", ![s].saw = "NONE", ![s].horizon = 0]
      writable == slot[s].saw = Run(s).state /\ IndexAllows(k)
  IN /\ slot[s].pc = "open"
     /\ \/ /\ slot[s].saw \in {"RUNNING", "SUCCEEDED"}
           /\ slot' = opened /\ UNCHANGED syncRun
        \/ /\ slot[s].saw \in {"FAILED", "NONE"} /\ ~writable
           /\ slot' = refused /\ UNCHANGED syncRun
        \/ /\ slot[s].saw = "FAILED" /\ writable
           /\ syncRun' = [syncRun EXCEPT ![k].state = "RUNNING"]
           /\ slot' = opened
        \/ /\ slot[s].saw = "NONE" /\ writable
           /\ syncRun' = [syncRun EXCEPT ![k] =
                [state |-> "RUNNING", cursor |-> 0, horizon |-> slot[s].horizon,
                 known |-> published]]
           /\ slot' = opened
     /\ UNCHANGED <<day, published, posts, lastSync, connected, syncJob, syncFaults>>

\* pageAccountMedia takes its cursor, and the horizon, from the row.
ReadCursor(s) ==
  /\ slot[s].pc = "resume"
  /\ slot' = [slot EXCEPT ![s] = [@ EXCEPT !.pc = "fetch", !.after = Run(s).cursor,
                                           !.horizon = Run(s).horizon]]
  /\ UNCHANGED <<day, published, posts, lastSync, connected, syncJob, syncRun, syncFaults>>

Beyond(after) == {m \in published : after = 0 \/ m < after}
MediaPage(after) ==
  {m \in Beyond(after) : Cardinality({o \in Beyond(after) : o > m}) < PageSize}

\* fetchInstagramMediaPage answers.
FetchPage(s) ==
  /\ slot[s].pc = "fetch" /\ MayContinue(Row(s), slot[s].attempt)
  /\ slot' = [slot EXCEPT ![s] = [@ EXCEPT !.pc = "persist",
                                           !.page = MediaPage(slot[s].after)]]
  /\ UNCHANGED <<day, published, posts, lastSync, connected, syncJob, syncRun, syncFaults>>

\* It refuses: toJobFailure gives the class.
FetchFails(s) ==
  /\ slot[s].pc = "fetch" /\ MayContinue(Row(s), slot[s].attempt)
  /\ SyncFault
  /\ \E class \in MediaPageRefusals :
       slot' = [slot EXCEPT ![s] = Stopped(@, "failRun", ToJobFailure(class))]
  /\ UNCHANGED <<day, published, posts, lastSync, connected, syncJob, syncRun>>

\* The cursor that follows a page: a page without one keeps the last.
CursorAfter(s) == IF slot[s].page = {} THEN slot[s].after ELSE Min(slot[s].page)

\* A page ends the walk when no page follows it or it reached the horizon.
EndsWalk(s) ==
  \/ Beyond(CursorAfter(s)) = {} \/ slot[s].page = {}
  \/ \E m \in slot[s].page \ Malformed : m < slot[s].horizon

\* A mutant of CommitPage: the rows of a page that reaches the horizon are
\* dropped with the ones outside it.
CommitPageOrSkip(s) ==
  /\ posts' = IF EndsWalk(s) THEN posts ELSE posts \cup (slot[s].page \ Malformed)
  /\ syncRun' = [syncRun EXCEPT ![slot[s].key].cursor = CursorAfter(s)]

\* commitInstagramMediaPage: the rows and the cursor in one transaction.
CommitPage(s) ==
  /\ posts' = posts \cup {m \in slot[s].page \ Malformed : m >= slot[s].horizon}
  /\ syncRun' = [syncRun EXCEPT ![slot[s].key].cursor = CursorAfter(s)]

PersistPage(s) ==
  /\ slot[s].pc = "persist" /\ MayContinue(Row(s), slot[s].attempt)
  /\ IF Run(s).state = "RUNNING"
       THEN /\ CommitPage(s)
            /\ slot' = [slot EXCEPT ![s] =
                 IF EndsWalk(s) THEN Stopped(@, "commit", "NONE")
                 ELSE IF @.visited + 1 = MaximumPages
                   THEN Stopped(@, "failRun", "TRANSIENT")
                   ELSE [@ EXCEPT !.pc = "fetch", !.after = CursorAfter(s), !.page = {},
                                  !.visited = slot[s].visited + 1]]
       ELSE /\ slot' = [slot EXCEPT ![s] = Stopped(@, "failRun", "UNKNOWN")]
            /\ UNCHANGED <<posts, syncRun>>
  /\ UNCHANGED <<day, published, lastSync, connected, syncJob, syncFaults>>

\* A mutant of FailRun: a rejected token leaves the run open.
FailRunForGood(s) ==
  /\ slot[s].pc = "failRun"
  /\ syncRun' = IF Run(s).state = "RUNNING" /\ slot[s].class # "CREDENTIAL"
                  THEN [syncRun EXCEPT ![slot[s].key].state = "FAILED"]
                  ELSE syncRun
  /\ slot' = [slot EXCEPT ![s].pc = "settle"]
  /\ UNCHANGED <<day, published, posts, lastSync, connected, syncJob, syncFaults>>

\* failInstagramSyncRun: the state of the run decides, not the lease.
FailRun(s) ==
  /\ slot[s].pc = "failRun"
  /\ syncRun' = IF Run(s).state = "RUNNING"
                  THEN [syncRun EXCEPT ![slot[s].key].state = "FAILED"]
                  ELSE syncRun
  /\ slot' = [slot EXCEPT ![s].pc = "settle"]
  /\ UNCHANGED <<day, published, posts, lastSync, connected, syncJob, syncFaults>>

SettleSync(s) ==
  /\ slot[s].pc = "settle"
  /\ syncJob' = [syncJob EXCEPT ![slot[s].key] =
                   SettleFailure(@, slot[s].attempt, slot[s].class)]
  /\ slot' = [slot EXCEPT ![s] = IdleSlot]
  /\ UNCHANGED <<day, published, posts, lastSync, connected, syncRun, syncFaults>>

\* commitJobSuccess with completeInstagramSyncRun in its transaction: without
\* the lease, or with a run that is no longer RUNNING, nothing is committed.
CompleteRun(s) ==
  LET k == slot[s].key
      commits == MayContinue(Row(s), slot[s].attempt) /\ Run(s).state = "RUNNING"
  IN /\ slot[s].pc = "commit"
     /\ syncJob' = IF commits THEN [syncJob EXCEPT ![k] = Complete(@)] ELSE syncJob
     /\ syncRun' = IF commits THEN [syncRun EXCEPT ![k].state = "SUCCEEDED"] ELSE syncRun
     /\ lastSync' = IF commits THEN day ELSE lastSync
     /\ slot' = [slot EXCEPT ![s] = IdleSlot]
     /\ UNCHANGED <<day, published, posts, connected, syncFaults>>

-----------------------------------------------------------------------------
(* The clock, the provider, the operators, and what goes wrong.            *)

NextDay ==
  /\ day < MaxDay /\ day' = day + 1
  /\ UNCHANGED <<published, posts, lastSync, connected, syncJob, syncRun, slot, syncFaults>>

Publish ==
  /\ day \notin published /\ published' = published \cup {day}
  /\ UNCHANGED <<day, posts, lastSync, connected, syncJob, syncRun, slot, syncFaults>>

\* Disconnection and reconnection (module InstagramConnection).
ConnectionChanges ==
  /\ IF connected THEN SyncFault ELSE UNCHANGED syncFaults
  /\ connected' = ~connected
  /\ UNCHANGED <<day, published, posts, lastSync, syncJob, syncRun, slot>>

CrashSlot(s) ==
  /\ slot[s].pc # "idle" /\ SyncFault
  /\ slot' = [slot EXCEPT ![s] = IdleSlot]
  /\ UNCHANGED <<day, published, posts, lastSync, connected, syncJob, syncRun>>

\* The lease of an attempt that is gone, or of one that is only slow, expires
\* and reconciliation hands the job on.
RecoverSync(k) ==
  /\ syncJob[k].state = "PROCESSING"
  /\ IF \E s \in Slots : /\ slot[s].pc # "idle" /\ slot[s].key = k
                         /\ slot[s].attempt = syncJob[k].attempt
       THEN SyncFault ELSE UNCHANGED syncFaults
  /\ syncJob' = [syncJob EXCEPT ![k] = RecoverLease(@)]
  /\ UNCHANGED <<day, published, posts, lastSync, connected, syncRun, slot>>

\* cancelBackgroundJob: at once while queued; while the attempt has not
\* recorded a stage yet it is a request the attempt honours.
CancelSync(k) ==
  /\ \/ /\ syncJob[k].state = "QUEUED"
        /\ syncJob' = [syncJob EXCEPT ![k] = CancelJob(@)]
     \/ /\ syncJob[k].state = "PROCESSING"
        /\ \E s \in Slots : /\ slot[s].pc = "load" /\ slot[s].key = k
                            /\ slot[s].attempt = syncJob[k].attempt
        /\ syncJob' = [syncJob EXCEPT ![k] = RequestCancel(@)]
  /\ SyncFault
  /\ UNCHANGED <<day, published, posts, lastSync, connected, syncRun, slot>>

\* retryBackgroundJob under syncPolicy; MaxAttempts more retries than attempts
\* is the bound of this model.
RetrySync(k) ==
  /\ syncJob[k].state = "FAILED_ATTENTION" /\ syncRun[k].state # "SUCCEEDED"
  /\ syncJob[k].attempt < 2 * MaxAttempts
  /\ SyncFault
  /\ syncJob' = [syncJob EXCEPT ![k] = RetryByOperator(@)]
  /\ UNCHANGED <<day, published, posts, lastSync, connected, syncRun, slot>>

ImportStep(s) ==
  \/ StopsForCancellation(s) \/ StopsForLease(s) \/ LoadAccount(s)
  \/ ReadAccessTokenFails(s) \/ OpenRun(s)
  \/ ReadCursor(s) \/ FetchPage(s) \/ FetchFails(s) \/ PersistPage(s)
  \/ FailRun(s) \/ SettleSync(s) \/ CompleteRun(s)

SyncNext ==
  \/ EnqueueDueSyncs \/ RequestInstagramSync
  \/ \E s \in Slots : ImportStep(s) \/ CrashSlot(s) \/ \E k \in SyncKeys : ClaimSync(s, k)
  \/ NextDay \/ Publish \/ ConnectionChanges
  \/ \E k \in SyncKeys : RecoverSync(k) \/ CancelSync(k) \/ RetrySync(k)

SyncSpec == SyncInit /\ [][SyncNext]_syncVars

-----------------------------------------------------------------------------
(* Properties.                                                             *)

\* What a run promised to import: the media the account had when the run was
\* created, inside the run's window, and readable.
Promised(k) == {m \in syncRun[k].known \ Malformed : m >= syncRun[k].horizon}

\* The resume guarantee ("can never advance past records it did not store"):
\* whatever attempts, crashes and late attempts moved a run's cursor, every
\* promised medium the cursor has passed is a post, and a run that succeeded
\* imported all it promised.
NoMediaSkipped ==
  \A k \in SyncKeys :
    \A m \in Promised(k) :
      \/ m \in posts
      \/ syncRun[k].state # "SUCCEEDED" /\ m < syncRun[k].cursor
      \/ syncRun[k].cursor = 0 /\ syncRun[k].state # "SUCCEEDED"

\* A run left RUNNING by a job that is over refuses every later run of its
\* trigger (and holds the operator's button at "already running").  That takes
\* an attempt whose lease expired: whatever else ends an attempt, the run has
\* been closed before the job is.
RunsEndWithTheirJobs ==
  \A k \in SyncKeys :
    syncRun[k].state = "RUNNING" /\ Terminal(syncJob[k]) => syncJob[k].expired
=============================================================================
