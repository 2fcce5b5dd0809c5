---------------------------- MODULE PostSnapshots ----------------------------
(***************************************************************************)
(* The insight snapshots of one imported post as it ages, one job per age  *)
(* bucket (instagram.snapshot.post).  The post's age is one of AgePoints,  *)
(* real seconds chosen around the edges of the buckets and the windows.    *)
(***************************************************************************)
EXTENDS HandlerJobs, InstagramRules

CONSTANTS
  AgePoints,       \* sequence of ages in seconds, ascending
  PostItem,        \* the media item the post was imported from
  Observers,       \* handler slots
  ObservationFaults

ASSUME ObservationAssumption ==
  /\ AgePoints \in Seq(Nat) /\ AgePoints # <<>>
  /\ ObservationFaults \in Nat

VARIABLES
  ageAt,         \* index of the current age
  metrics,       \* the provider's current values, by a version number
  snapshotJob,   \* [buckets -> row]: the key carries no timestamp
  snapshots,     \* instagram_metric_snapshots rows of the post
  analyticsDirty,
  observer,      \* [Observers -> progress of captureSnapshot]
  postFaults

observationVars == <<ageAt, metrics, snapshotJob, snapshots, analyticsDirty, observer,
                     postFaults>>

MediaKind == ClassifyMedia(PostItem)
Buckets == Range(snapshotBuckets)
Age == AgePoints[ageAt]
IdleObserver == [pc |-> "idle", bucket |-> "import", attempt |-> 0, age |-> 0,
                 seen |-> <<>>]

ObservationInit ==
  /\ ageAt = 1 /\ metrics = 0
  /\ snapshotJob = [b \in Buckets |-> AbsentJob]
  /\ snapshots = {} /\ analyticsDirty = FALSE
  /\ observer = [o \in Observers |-> IdleObserver]
  /\ postFaults = ObservationFaults

PostFault == postFaults > 0 /\ postFaults' = postFaults - 1

-----------------------------------------------------------------------------
(* Snapshots.                                                              *)

Captured == {row.bucket : row \in snapshots}

\* listInstagramPostsDueForSnapshot: up to 40 days whatever the kind; beyond,
\* a kind with insights that has no MATURE snapshot.
DueForSnapshot ==
  IF Age <= 3456000 \/ (InsightGroups(MediaKind) # <<>> /\ "mature" \notin Captured)
    THEN SnapshotDueFor(Captured, Age) ELSE Null

EnqueueDueSnapshots ==
  /\ DueForSnapshot # Null
  /\ snapshotJob[DueForSnapshot].state = "ABSENT"
  /\ snapshotJob' = [snapshotJob EXCEPT ![DueForSnapshot] = Enqueue(@)]
  /\ UNCHANGED <<ageAt, metrics, snapshots, analyticsDirty, observer, postFaults>>

ClaimSnapshot(o, b) ==
  /\ observer[o].pc = "idle" /\ Claimable(snapshotJob[b])
  /\ snapshotJob' = [snapshotJob EXCEPT ![b] = Claim(@)]
  /\ observer' = [observer EXCEPT ![o] =
       [IdleObserver EXCEPT !.pc = "fetch", !.bucket = b, !.attempt = snapshotJob[b].attempt + 1]]
  /\ UNCHANGED <<ageAt, metrics, snapshots, analyticsDirty, postFaults>>

\* The groups are read one after another.  A group that is refused becomes
\* observations without a value, and the age is taken when all are read.
CaptureSnapshot(o) ==
  /\ observer[o].pc = "fetch" /\ HoldsLease(snapshotJob[observer[o].bucket], observer[o].attempt)
  /\ \E refused \in {"none"} \cup {GroupFailureAvailability(c) : c \in InsightRefusals \ Retryable} :
       observer' = [observer EXCEPT ![o] =
         [@ EXCEPT !.pc = "commit", !.age = Age,
                   !.seen = IF InsightGroups(MediaKind) = <<>> THEN <<>>
                                                               ELSE <<metrics, refused>>]]
  /\ UNCHANGED <<ageAt, metrics, snapshotJob, snapshots, analyticsDirty, postFaults>>

\* A rate limit or a transient fault of one group fails the whole capture.
CaptureFails(o) ==
  /\ observer[o].pc = "fetch" /\ PostFault
  /\ \E class \in InsightRefusals \cap Retryable :
       snapshotJob' = [snapshotJob EXCEPT ![observer[o].bucket] =
         SettleFailure(@, observer[o].attempt, ToJobFailure(class))]
  /\ observer' = [observer EXCEPT ![o] = IdleObserver]
  /\ UNCHANGED <<ageAt, metrics, snapshots, analyticsDirty>>

\* A mutant of RecordSnapshot: filed under the bucket the job was enqueued for.
RecordSnapshotForJob(o) == [bucket |-> observer[o].bucket, age |-> observer[o].age,
                            seen |-> observer[o].seen]

\* recordInstagramMetricSnapshot files an observation under the bucket of the
\* age it was captured at.
RecordSnapshot(o) == [bucket |-> SnapshotBucketFor(observer[o].age), age |-> observer[o].age,
                      seen |-> observer[o].seen]

\* One row per bucket and payload, inside the job's success transaction; only a
\* new row makes the account's analytics dirty.  A kind without insights
\* commits nothing.
CommitSnapshot(o) ==
  LET b == observer[o].bucket
      row == RecordSnapshot(o)
      commits == MayContinue(snapshotJob[b], observer[o].attempt)
      isNew == /\ commits /\ row.seen # <<>>
               /\ \A r \in snapshots : ~(r.bucket = row.bucket /\ r.seen = row.seen)
  IN /\ observer[o].pc = "commit"
     /\ snapshotJob' = IF commits THEN [snapshotJob EXCEPT ![b] = Complete(@)] ELSE snapshotJob
     /\ snapshots' = IF isNew THEN snapshots \cup {row} ELSE snapshots
     /\ analyticsDirty' = (analyticsDirty \/ isNew)
     /\ observer' = [observer EXCEPT ![o] = IdleObserver]
     /\ UNCHANGED <<ageAt, metrics, postFaults>>

\* An attempt that died, or is only late, loses its lease.
RecoverSnapshot(b) ==
  /\ snapshotJob[b].state = "PROCESSING"
  /\ PostFault
  /\ \E gone \in SUBSET {o \in Observers : observer[o].bucket = b} :
       observer' = [o \in Observers |-> IF o \in gone THEN IdleObserver ELSE observer[o]]
  /\ snapshotJob' = [snapshotJob EXCEPT ![b] = RecoverLease(@)]
  /\ UNCHANGED <<ageAt, metrics, snapshots, analyticsDirty>>

LoseCapture(o) ==
  /\ observer[o].pc = "fetch" /\ ~HoldsLease(snapshotJob[observer[o].bucket], observer[o].attempt)
  /\ observer' = [observer EXCEPT ![o] = IdleObserver]
  /\ UNCHANGED <<ageAt, metrics, snapshotJob, snapshots, analyticsDirty, postFaults>>

-----------------------------------------------------------------------------
(* The post lives on.                                                      *)

GrowOlder ==
  /\ ageAt < Len(AgePoints) /\ ageAt' = ageAt + 1
  /\ UNCHANGED <<metrics, postFaults, snapshotJob, snapshots, analyticsDirty, observer>>

MetricsChange ==
  /\ metrics = 0 /\ metrics' = 1
  /\ UNCHANGED <<ageAt, postFaults, snapshotJob, snapshots, analyticsDirty, observer>>

ObservationNext ==
  \/ EnqueueDueSnapshots
  \/ \E o \in Observers : \/ CaptureSnapshot(o) \/ CaptureFails(o) \/ CommitSnapshot(o)
                          \/ LoseCapture(o)
                          \/ \E b \in Buckets : ClaimSnapshot(o, b)
  \/ \E b \in Buckets : RecoverSnapshot(b)
  \/ GrowOlder \/ MetricsChange

ObservationSpec == ObservationInit /\ [][ObservationNext]_observationVars

-----------------------------------------------------------------------------
(* Properties.                                                             *)

\* "It must never record a late observation against an earlier target": however
\* long a capture waited, was retried, or raced the attempt that replaced it,
\* its row lies in a bucket that contains its age, and no two rows of a bucket
\* repeat the same observation.
CapturesFiledByAge ==
  \A row \in snapshots :
    /\ row.bucket = SnapshotBucketFor(row.age)
    /\ \A other \in snapshots \ {row} : <<other.bucket, other.seen>> # <<row.bucket, row.seen>>
=============================================================================
