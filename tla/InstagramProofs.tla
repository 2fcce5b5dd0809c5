--------------------------- MODULE InstagramProofs ---------------------------
(***************************************************************************)
(* What holds of the Instagram components for every value of their         *)
(* constants: any number of handler slots, pages, comments, accounts,      *)
(* callbacks and faults.  Each section is about one component.             *)
(***************************************************************************)
EXTENDS InstagramSync, PostSnapshots, PostComments, InstagramConnection, MediaImport,
        ProviderAnswers, FiniteSetTheorems, TLAPS

-----------------------------------------------------------------------------
(* The jobs as handlers see them.                                          *)

HandlerRows ==
  [state : {"ABSENT", "QUEUED", "PROCESSING", "SUCCEEDED", "FAILED_ATTENTION", "CANCELLED"},
   attempt : Nat, cancel : BOOLEAN, expired : BOOLEAN]

\* Whatever the pipeline makes of a job of a handler is a row again.
LEMMA JobStepsKeepRows ==
  ASSUME NEW row \in HandlerRows
  PROVE  /\ AbsentJob \in HandlerRows
         /\ Enqueue(row) \in HandlerRows
         /\ Claim(row) \in HandlerRows
         /\ Complete(row) \in HandlerRows
         /\ CancelJob(row) \in HandlerRows
         /\ RequestCancel(row) \in HandlerRows
         /\ RecoverLease(row) \in HandlerRows
         /\ RetryByOperator(row) \in HandlerRows
         /\ \A n, class : SettleFailure(row, n, class) \in HandlerRows
<1>1. AbsentJob \in HandlerRows
  BY DEF AbsentJob, HandlerRows
<1>2. Enqueue(row) \in HandlerRows
  BY DEF Enqueue, HandlerRows
<1>3. Claim(row) \in HandlerRows
  <2>1. \A n \in Nat : [row EXCEPT !.state = "PROCESSING", !.attempt = n] \in HandlerRows
    BY DEF HandlerRows
  <2>2. row.attempt + 1 \in Nat
    BY DEF HandlerRows
  <2>3. QED
    BY <2>1, <2>2, Zenon DEF Claim
<1>4. /\ Complete(row) \in HandlerRows /\ CancelJob(row) \in HandlerRows
      /\ RequestCancel(row) \in HandlerRows
  BY DEF Complete, CancelJob, RequestCancel, HandlerRows
<1>5. RecoverLease(row) \in HandlerRows
  BY DEF RecoverLease, HandlerRows
<1>6. RetryByOperator(row) \in HandlerRows
  BY DEF RetryByOperator, HandlerRows
<1>7. \A n, class : SettleFailure(row, n, class) \in HandlerRows
  BY DEF SettleFailure, RetryLater, GiveUp, HandlerRows
<1>8. QED
  BY <1>1, <1>2, <1>3, <1>4, <1>5, <1>6, <1>7

\* Writing one row of a table of rows leaves a table of rows.
LEMMA OneRowWritten ==
  ASSUME NEW K, NEW Rows, NEW table \in [K -> Rows], NEW k, NEW row, k \in K => row \in Rows
  PROVE  /\ [table EXCEPT ![k] = row] \in [K -> Rows]
         /\ \A o \in K : o # k => [table EXCEPT ![k] = row][o] = table[o]
         /\ k \in K => [table EXCEPT ![k] = row][k] = row
  OBVIOUS

-----------------------------------------------------------------------------
(* PostComments.  Between two steps of an import the cursor stands after a *)
(* whole number of pages, and what it has passed is stored: the comments   *)
(* that the post had at the start are not moved by those written since.    *)

CommentsTyped ==
  /\ written \in Nat
  /\ commentJob \in [1..CommentDays -> HandlerRows]
  /\ importer \in [pc : {"idle", "fetch", "persist", "commit"}, day : Nat, attempt : Nat,
                   after : Nat, visited : Nat, known : Nat, page : SUBSET Nat]

ImportFollowsPages ==
  /\ importer.known <= written
  /\ importer.after = importer.visited * CommentPageSize
  /\ importer.pc \in {"fetch", "persist"} =>
       /\ importer.visited < MaximumCommentPages
       /\ \A c \in 1..importer.known : c <= importer.after => c \in commentRows
  /\ importer.pc = "persist" =>
       \A c \in 1..importer.known :
         importer.after < c /\ c <= importer.after + CommentPageSize => c \in importer.page

CommentsSound == CommentsTyped /\ ImportFollowsPages /\ CommentsImported

LEMMA PagesAddUp ==
  ASSUME NEW v \in Nat, NEW s \in Nat
  PROVE  v * s \in Nat /\ (v + 1) * s = v * s + s /\ 0 * s = 0
  OBVIOUS

\* A step that writes no comment row and leaves the importer alone, or idle.
LEMMA ImporterUntouched ==
  ASSUME CommentsSound, importer' \in {importer, IdleImporter}, UNCHANGED commentRows,
         written' \in Nat, written' >= written
  PROVE  /\ importer' \in [pc : {"idle", "fetch", "persist", "commit"}, day : Nat,
                           attempt : Nat, after : Nat, visited : Nat, known : Nat,
                           page : SUBSET Nat]
         /\ ImportFollowsPages' /\ CommentsImported'
<1>1. CASE importer' = importer
  BY <1>1 DEF CommentsSound, CommentsTyped, ImportFollowsPages, CommentsImported
<1>2. CASE importer' = IdleImporter
  <2>1. 0 = 0 * CommentPageSize
    BY CommentAssumption
  <2>2. IdleImporter \in [pc : {"idle", "fetch", "persist", "commit"}, day : Nat,
                          attempt : Nat, after : Nat, visited : Nat, known : Nat,
                          page : SUBSET Nat]
    BY DEF IdleImporter
  <2>3. QED
    BY <1>2, <2>1, <2>2
       DEF CommentsSound, CommentsTyped, ImportFollowsPages, CommentsImported, IdleImporter
<1>3. QED
  BY <1>1, <1>2

LEMMA CommentJobWritten ==
  ASSUME CommentsSound, NEW d, NEW row, d \in 1..CommentDays => row \in HandlerRows
  PROVE  [commentJob EXCEPT ![d] = row] \in [1..CommentDays -> HandlerRows]
<1>1. commentJob \in [1..CommentDays -> HandlerRows]
  BY DEF CommentsSound, CommentsTyped
<1>2. QED
  BY <1>1, OneRowWritten

LEMMA CommentRow ==
  ASSUME CommentsSound, NEW d \in 1..CommentDays
  PROVE  commentJob[d] \in HandlerRows
  BY DEF CommentsSound, CommentsTyped


LEMMA ClaimKeepsComments ==
  ASSUME CommentsSound, NEW d \in 1..CommentDays, ClaimComments(d)
  PROVE  CommentsSound'
<1>1. commentJob[d] \in HandlerRows
  BY CommentRow
<1>2. commentJob' \in [1..CommentDays -> HandlerRows]
  BY <1>1, CommentJobWritten, JobStepsKeepRows DEF ClaimComments
<1>3. commentJob[d].attempt + 1 \in Nat /\ d \in Nat
  BY <1>1 DEF HandlerRows
<1>4. importer' = [pc |-> "fetch", day |-> d, attempt |-> commentJob[d].attempt + 1,
                   after |-> 0, visited |-> 0, known |-> written, page |-> {}]
  BY DEF ClaimComments, IdleImporter
<1>5. UNCHANGED <<written, commentRows>>
  BY DEF ClaimComments
<1>6. CommentsTyped'
  BY <1>2, <1>3, <1>4, <1>5 DEF CommentsSound, CommentsTyped
<1>7. ImportFollowsPages'
  <2>1. 0 = 0 * CommentPageSize /\ 0 < MaximumCommentPages
    BY CommentAssumption
  <2>2. QED
    BY <1>4, <1>5, <2>1 DEF CommentsSound, CommentsTyped, ImportFollowsPages
<1>8. QED
  BY <1>4, <1>6, <1>7 DEF CommentsSound, CommentsImported

\* A page fetched now has every comment of its range that was known at the start.
LEMMA FetchKeepsComments ==
  ASSUME CommentsSound, FetchComments
  PROVE  CommentsSound'
<1>1. importer' = [importer EXCEPT !.pc = "persist", !.page = CommentsPage(importer.after)]
  BY DEF FetchComments
<1>2. UNCHANGED <<written, commentJob, commentRows>> /\ importer.pc = "fetch"
  BY DEF FetchComments
<1>3. CommentsPage(importer.after) \in SUBSET Nat
  BY DEF CommentsPage, CommentsSound, CommentsTyped
<1>4. CommentsTyped'
  BY <1>1, <1>2, <1>3 DEF CommentsSound, CommentsTyped
<1>5. \A c \in 1..importer.known :
        importer.after < c /\ c <= importer.after + CommentPageSize
          => c \in CommentsPage(importer.after)
  BY CommentAssumption DEF CommentsSound, CommentsTyped, ImportFollowsPages, CommentsPage
<1>6. ImportFollowsPages'
  BY <1>1, <1>2, <1>5 DEF CommentsSound, CommentsTyped, ImportFollowsPages
<1>7. QED
  BY <1>1, <1>4, <1>6 DEF CommentsSound, CommentsTyped, CommentsImported

\* What an import knows of the page it commits: up to its end everything is stored.
LEMMA CommitReachesPageEnd ==
  ASSUME CommentsSound, CommitComments
  PROVE  \A c \in 1..importer.known :
           c <= importer.after + CommentPageSize => c \in commentRows'
<1>1. commentRows' = commentRows \cup importer.page /\ importer.pc = "persist"
  BY DEF CommitComments
<1>2. QED
  BY <1>1, CommentAssumption DEF CommentsSound, CommentsTyped, ImportFollowsPages

LEMMA CommitKeepsComments ==
  ASSUME CommentsSound, CommitComments
  PROVE  CommentsSound'
<1>1. importer.pc = "persist" /\ UNCHANGED <<written, commentJob>>
  BY DEF CommitComments
<1>2. /\ importer.after \in Nat /\ importer.visited \in Nat /\ importer.known \in Nat
      /\ importer.known <= written /\ written \in Nat /\ CommentPageSize \in Nat
      /\ MaximumCommentPages \in Nat /\ importer.visited < MaximumCommentPages
      /\ importer.after = importer.visited * CommentPageSize
  BY <1>1, CommentAssumption DEF CommentsSound, CommentsTyped, ImportFollowsPages
<1>3. (importer.visited + 1) * CommentPageSize = importer.after + CommentPageSize
  BY <1>2, PagesAddUp
<1>4. CASE MoreComments /\ importer.visited + 1 < MaximumCommentPages
  <2>1. importer' = [importer EXCEPT !.pc = "fetch", !.after = importer.after + CommentPageSize,
                                     !.visited = importer.visited + 1, !.page = {}]
    BY <1>4 DEF CommitComments, NextPage
  <2>2. importer.after + CommentPageSize \in Nat /\ importer.visited + 1 \in Nat
    BY <1>2
  <2>3. importer' = [pc |-> "fetch", day |-> importer.day, attempt |-> importer.attempt,
                     after |-> importer.after + CommentPageSize,
                     visited |-> importer.visited + 1, known |-> importer.known, page |-> {}]
    BY <2>1 DEF CommentsSound, CommentsTyped
  <2>4. CommentsTyped'
    BY <1>1, <2>2, <2>3 DEF CommentsSound, CommentsTyped
  <2>5. ImportFollowsPages'
    BY <1>1, <1>2, <1>3, <1>4, <2>3, CommitReachesPageEnd DEF ImportFollowsPages
  <2>6. QED
    BY <2>3, <2>4, <2>5 DEF CommentsSound, CommentsImported
<1>5. CASE ~(MoreComments /\ importer.visited + 1 < MaximumCommentPages)
  <2>1. importer' = [importer EXCEPT !.pc = "commit", !.page = {}]
    BY <1>5 DEF CommitComments
  <2>2. CommentsTyped' /\ ImportFollowsPages'
    BY <1>1, <2>1 DEF CommentsSound, CommentsTyped, ImportFollowsPages
  <2>3. \A c \in 1..importer.known :
          c <= MaximumCommentPages * CommentPageSize => c <= importer.after + CommentPageSize
    <3>1. CASE importer.page = {}
      <4>1. ~(importer.after + 1 \in 1..importer.known)
        <5>1. importer.after < importer.after + 1
              /\ importer.after + 1 <= importer.after + CommentPageSize
          BY <1>2, CommentAssumption
        <5>2. QED
          BY <1>1, <3>1, <5>1 DEF CommentsSound, ImportFollowsPages
      <4>2. QED
        BY <1>2, <4>1
    <3>2. CASE importer.page # {} /\ ~ MoreComments
      BY <1>2, <3>2 DEF MoreComments
    <3>3. CASE ~(importer.visited + 1 < MaximumCommentPages)
      <4>1. MaximumCommentPages = importer.visited + 1
        BY <1>2, <3>3
      <4>2. QED
        BY <1>2, <1>3, <4>1
    <3>4. QED
      BY <1>5, <3>1, <3>2, <3>3
  <2>4. CommentsImported'
    BY <2>1, <2>3, CommitReachesPageEnd DEF CommentsImported, CommentsSound, CommentsTyped
  <2>5. QED
    BY <2>2, <2>4 DEF CommentsSound
<1>6. QED
  BY <1>4, <1>5


LEMMA CompleteKeepsComments ==
  ASSUME CommentsSound, CompleteComments
  PROVE  CommentsSound'
<1>1. commentJob' \in [1..CommentDays -> HandlerRows]
  <2>1. commentJob[importer.day] \in HandlerRows => Complete(commentJob[importer.day]) \in HandlerRows
    BY JobStepsKeepRows
  <2>2. [commentJob EXCEPT ![importer.day] = Complete(commentJob[importer.day])]
          \in [1..CommentDays -> HandlerRows]
    BY <2>1, CommentRow, CommentJobWritten
  <2>3. QED
    BY <2>2 DEF CompleteComments, CommentsSound, CommentsTyped
<1>2. importer' = IdleImporter /\ UNCHANGED <<written, commentRows>>
  BY DEF CompleteComments
<1>3. QED
  BY <1>1, <1>2, ImporterUntouched DEF CommentsSound, CommentsTyped

LEMMA FailureKeepsComments ==
  ASSUME CommentsSound, CommentsFail
  PROVE  CommentsSound'
<1>1. commentJob' \in [1..CommentDays -> HandlerRows]
  <2>1. ASSUME NEW class
        PROVE  [commentJob EXCEPT ![importer.day] =
                  SettleFailure(commentJob[importer.day], importer.attempt, ToJobFailure(class))]
                 \in [1..CommentDays -> HandlerRows]
    BY JobStepsKeepRows, CommentRow, CommentJobWritten
  <2>2. [commentJob EXCEPT ![importer.day] = RecoverLease(commentJob[importer.day])]
          \in [1..CommentDays -> HandlerRows]
    BY JobStepsKeepRows, CommentRow, CommentJobWritten
  <2>3. QED
    BY <2>1, <2>2 DEF CommentsFail
<1>2. importer' = IdleImporter /\ UNCHANGED <<written, commentRows>>
  BY DEF CommentsFail
<1>3. QED
  BY <1>1, <1>2, ImporterUntouched DEF CommentsSound, CommentsTyped

\* The sweep, the clock and the audience leave the import alone.
LEMMA OthersKeepComments ==
  ASSUME CommentsSound, EnqueueDueComments \/ CommentIsWritten \/ NextCommentDay
  PROVE  CommentsSound'
<1>1. commentJob' \in [1..CommentDays -> HandlerRows]
  <2>1. [commentJob EXCEPT ![commentDay] = Enqueue(commentJob[commentDay])]
          \in [1..CommentDays -> HandlerRows]
    BY JobStepsKeepRows, CommentRow, CommentJobWritten
  <2>2. QED
    BY <2>1 DEF EnqueueDueComments, CommentIsWritten, NextCommentDay, CommentsSound, CommentsTyped
<1>2. importer' = importer /\ UNCHANGED commentRows
  BY DEF EnqueueDueComments, CommentIsWritten, NextCommentDay
<1>3. written' \in Nat /\ written' >= written
  BY DEF EnqueueDueComments, CommentIsWritten, NextCommentDay, CommentsSound, CommentsTyped
<1>4. QED
  BY <1>1, <1>2, <1>3, ImporterUntouched DEF CommentsSound, CommentsTyped

LEMMA CommentsSoundAtFirst == CommentInit => CommentsSound
<1>1. SUFFICES ASSUME CommentInit PROVE CommentsSound
  OBVIOUS
<1>2. AbsentJob \in HandlerRows
  BY DEF AbsentJob, HandlerRows
<1>3. 0 = 0 * CommentPageSize
  BY CommentAssumption
<1>4. CommentsTyped
  BY <1>1, <1>2 DEF CommentInit, CommentsTyped, IdleImporter
<1>5. ImportFollowsPages /\ CommentsImported
  BY <1>1, <1>3 DEF CommentInit, ImportFollowsPages, CommentsImported, IdleImporter
<1>6. QED
  BY <1>4, <1>5 DEF CommentsSound

LEMMA CommentsSoundInductive == CommentsSound /\ [CommentNext]_commentVars => CommentsSound'
<1>1. SUFFICES ASSUME CommentsSound, [CommentNext]_commentVars PROVE CommentsSound'
  OBVIOUS
<1>2. ASSUME NEW d \in 1..CommentDays, ClaimComments(d) PROVE CommentsSound'
  BY <1>1, <1>2, ClaimKeepsComments
<1>3. CASE FetchComments
  BY <1>1, <1>3, FetchKeepsComments
<1>4. CASE CommitComments
  BY <1>1, <1>4, CommitKeepsComments
<1>5. CASE CompleteComments
  BY <1>1, <1>5, CompleteKeepsComments
<1>6. CASE CommentsFail
  BY <1>1, <1>6, FailureKeepsComments
<1>7. CASE EnqueueDueComments \/ CommentIsWritten \/ NextCommentDay
  BY <1>1, <1>7, OthersKeepComments
<1>8. CASE UNCHANGED commentVars
  <2>1. importer' \in {importer, IdleImporter} /\ written' = written
        /\ UNCHANGED commentRows /\ commentJob' = commentJob
    BY <1>8 DEF commentVars
  <2>2. QED
    BY <1>1, <2>1, ImporterUntouched DEF CommentsSound, CommentsTyped
<1>9. QED
  BY <1>1, <1>2, <1>3, <1>4, <1>5, <1>6, <1>7, <1>8 DEF CommentNext

\* importComments and commitInstagramComments: an import that is about to
\* succeed has stored every comment that the post had when it began, up to the
\* page bound, whatever was written, failed or was retried meanwhile.
THEOREM ImportsAreComplete == CommentSpec => []CommentsImported
<1>1. CommentsSound => CommentsImported
  BY DEF CommentsSound
<1>2. QED
  BY CommentsSoundAtFirst, CommentsSoundInductive, <1>1, PTL DEF CommentSpec


-----------------------------------------------------------------------------
(* PostSnapshots.  The age of a capture is read when its groups have been  *)
(* read, and the commit files it by that age, not by its job's bucket.     *)

LEMMA CommitFilesByAge ==
  ASSUME CapturesFiledByAge, NEW o \in Observers, CommitSnapshot(o)
  PROVE  CapturesFiledByAge'
<1> DEFINE row == RecordSnapshot(o)
<1>1. row.bucket = SnapshotBucketFor(row.age)
  BY DEF RecordSnapshot
<1>2. \/ snapshots' = snapshots
      \/ /\ snapshots' = snapshots \cup {row}
         /\ \A r \in snapshots : ~(r.bucket = row.bucket /\ r.seen = row.seen)
  BY DEF CommitSnapshot
<1> HIDE DEF row
<1>3. CASE snapshots' = snapshots
  BY <1>3 DEF CapturesFiledByAge
<1>4. CASE /\ snapshots' = snapshots \cup {row}
           /\ \A r \in snapshots : ~(r.bucket = row.bucket /\ r.seen = row.seen)
  BY <1>1, <1>4 DEF CapturesFiledByAge
<1>5. QED
  BY <1>2, <1>3, <1>4

\* recordInstagramMetricSnapshot: however long a capture waited, was retried or
\* raced the attempt that replaced it, its row lies in the bucket of the age it
\* was captured at, and no two rows of a bucket repeat one observation.
THEOREM CapturesAreFiledByAge == ObservationSpec => []CapturesFiledByAge
<1>1. ObservationInit => CapturesFiledByAge
  BY DEF ObservationInit, CapturesFiledByAge
<1>2. CapturesFiledByAge /\ [ObservationNext]_observationVars => CapturesFiledByAge'
  <2>1. SUFFICES ASSUME CapturesFiledByAge, [ObservationNext]_observationVars
                 PROVE  CapturesFiledByAge'
    OBVIOUS
  <2>2. ASSUME NEW o \in Observers, CommitSnapshot(o) PROVE CapturesFiledByAge'
    BY <2>1, <2>2, CommitFilesByAge
  <2>3. CASE UNCHANGED snapshots
    BY <2>1, <2>3 DEF CapturesFiledByAge
  <2>4. QED
    BY <2>1, <2>2, <2>3
       DEF ObservationNext, observationVars, EnqueueDueSnapshots, CaptureSnapshot, CaptureFails,
           LoseCapture, ClaimSnapshot, RecoverSnapshot, GrowOlder, MetricsChange
<1>3. QED
  BY <1>1, <1>2, PTL DEF ObservationSpec


-----------------------------------------------------------------------------
(* MediaImport.  The key of the object comes from the job, so attempts that *)
(* overlap write over each other; and the asset comes with the end of its   *)
(* job, so that no attempt commits another or stores after a purge unseen.  *)

ImportTyped ==
  /\ importJob \in HandlerRows
  /\ importRow \in [Importers -> [pc : {"idle", "read", "transfer", "commit"}, attempt : Nat]]
  /\ importAsset \in [state : {"ABSENT", "PENDING_VALIDATION", "READY", "REJECTED"},
                      key : {Null, 1}]

ImportPlaced ==
  /\ mediaObjects \subseteq {1}
  /\ importAsset.state # "ABSENT" => importJob.state = "SUCCEEDED" /\ importAsset.key = 1
  /\ importAsset.state \in {"PENDING_VALIDATION", "READY"} => 1 \in mediaObjects
  /\ \A i \in Importers :
       /\ importRow[i].pc # "idle" => importRow[i].attempt > 0
       /\ importRow[i].pc = "commit" /\ importAsset.state = "ABSENT" => 1 \in mediaObjects

ImportSound == ImportTyped /\ ImportPlaced

LEMMA ImportSoundAtFirst == ImportInit => ImportSound
  BY DEF ImportInit, ImportSound, ImportTyped, ImportPlaced, IdleImport, NoAsset, AbsentJob,
         HandlerRows

\* A step of one importer that changes its progress only.
LEMMA ImporterMoves ==
  ASSUME ImportSound, NEW i \in Importers,
         NEW progress \in [pc : {"idle", "read", "transfer", "commit"}, attempt : Nat],
         importRow' = [importRow EXCEPT ![i] = progress],
         progress.pc # "idle" => progress.attempt > 0,
         progress.pc = "commit" => 1 \in mediaObjects',
         mediaObjects' \in {mediaObjects, mediaObjects \cup {1}},
         importJob' \in HandlerRows, importAsset.state # "ABSENT" => importJob' = importJob,
         UNCHANGED importAsset
  PROVE  ImportSound'
<1>1. /\ importRow' \in [Importers -> [pc : {"idle", "read", "transfer", "commit"},
                                       attempt : Nat]]
      /\ importRow'[i] = progress
      /\ \A k \in Importers : k # i => importRow'[k] = importRow[k]
  BY DEF ImportSound, ImportTyped
<1>2. ImportTyped'
  BY <1>1 DEF ImportSound, ImportTyped
<1>3. ImportPlaced'
  BY <1>1 DEF ImportSound, ImportPlaced
<1>4. QED
  BY <1>2, <1>3 DEF ImportSound


LEMMA ImportAttemptsKeepSound ==
  ASSUME ImportSound, NEW i \in Importers,
         ClaimImport(i) \/ ReadMediaItem(i) \/ TransferMedia(i) \/ ImportFails(i) \/ LoseImport(i)
  PROVE  ImportSound'
<1>1. /\ importJob \in HandlerRows /\ importRow[i].attempt \in Nat
      /\ importRow[i] \in [pc : {"idle", "read", "transfer", "commit"}, attempt : Nat]
  BY DEF ImportSound, ImportTyped
<1>2. IdleImport \in [pc : {"idle", "read", "transfer", "commit"}, attempt : Nat]
      /\ IdleImport.pc = "idle"
  BY DEF IdleImport
<1>3. importAsset.state # "ABSENT" => importJob.state = "SUCCEEDED"
  BY DEF ImportSound, ImportPlaced
<1>4. importRow[i].pc # "idle" => importRow[i].attempt > 0
  BY DEF ImportSound, ImportPlaced
<1>5. CASE ClaimImport(i)
  <2>1. importAsset.state = "ABSENT"
    BY <1>3, <1>5 DEF ClaimImport, Claimable
  <2>2. importJob.attempt + 1 \in Nat /\ importJob.attempt + 1 > 0
    BY <1>1 DEF HandlerRows
  <2>3. [pc |-> "read", attempt |-> importJob.attempt + 1]
          \in [pc : {"idle", "read", "transfer", "commit"}, attempt : Nat]
    BY <2>2
  <2>4. importJob' \in HandlerRows
    BY <1>1, <1>5, <2>1, JobStepsKeepRows DEF ClaimImport
  <2>5. QED
    BY <1>5, <2>1, <2>2, <2>3, <2>4, ImporterMoves DEF ClaimImport
<1>6. CASE ReadMediaItem(i) \/ TransferMedia(i)
  <2>1. \E pc \in {"transfer", "commit"} :
          importRow' = [importRow EXCEPT ![i] = [importRow[i] EXCEPT !.pc = pc]]
          /\ (pc = "commit" => TransferMedia(i))
    BY <1>6 DEF ReadMediaItem, TransferMedia, ImportSound, ImportTyped
  <2>2. PICK pc \in {"transfer", "commit"} :
          importRow' = [importRow EXCEPT ![i] = [importRow[i] EXCEPT !.pc = pc]]
          /\ (pc = "commit" => TransferMedia(i))
    BY <2>1
  <2>3. /\ [importRow[i] EXCEPT !.pc = pc]
             \in [pc : {"idle", "read", "transfer", "commit"}, attempt : Nat]
        /\ [importRow[i] EXCEPT !.pc = pc].pc = pc
        /\ [importRow[i] EXCEPT !.pc = pc].attempt > 0
    BY <1>1, <1>4, <1>6, <2>2 DEF ReadMediaItem, TransferMedia
  <2>4. mediaObjects' \in {mediaObjects, mediaObjects \cup {1}}
        /\ (pc = "commit" => 1 \in mediaObjects')
    BY <1>4, <1>6, <2>2 DEF ReadMediaItem, TransferMedia, ImportObjectKey
  <2>5. UNCHANGED <<importJob, importAsset>>
    BY <1>6 DEF ReadMediaItem, TransferMedia
  <2>6. QED
    BY <1>1, <2>2, <2>3, <2>4, <2>5, ImporterMoves
<1>7. CASE ImportFails(i) \/ LoseImport(i)
  <2>1. importRow' = [importRow EXCEPT ![i] = IdleImport]
        /\ UNCHANGED <<mediaObjects, importAsset>>
    BY <1>7 DEF ImportFails, LoseImport
  <2>2. \/ importJob' = importJob
        \/ \E class : importJob' = SettleFailure(importJob, importRow[i].attempt, class)
    BY <1>7 DEF ImportFails, LoseImport
  <2>3. importJob' \in HandlerRows
    <3>1. \A class : SettleFailure(importJob, importRow[i].attempt, class) \in HandlerRows
      BY <1>1, JobStepsKeepRows, Zenon
    <3>2. QED
      BY <1>1, <2>2, <3>1
  <2>4. importAsset.state # "ABSENT" => importJob' = importJob
    BY <1>3, <2>2 DEF SettleFailure, MayContinue, HoldsLease
  <2>5. QED
    BY <1>2, <2>1, <2>3, <2>4, ImporterMoves
<1>8. QED
  BY <1>5, <1>6, <1>7

\* The asset is created over a stored object, by the one attempt that may end the job.
LEMMA ImportCommitKeepsSound ==
  ASSUME ImportSound, NEW i \in Importers, CommitImport(i)
  PROVE  ImportSound'
<1>1. IdleImport \in [pc : {"idle", "read", "transfer", "commit"}, attempt : Nat]
      /\ IdleImport.pc = "idle"
  BY DEF IdleImport
<1>2. importRow' = [importRow EXCEPT ![i] = IdleImport] /\ UNCHANGED mediaObjects
  BY DEF CommitImport
<1>3. CASE MayContinue(importJob, importRow[i].attempt)
  <2>1. importAsset.state = "ABSENT"
    BY <1>3 DEF MayContinue, HoldsLease, ImportSound, ImportPlaced
  <2>2. importRow[i].attempt > 0 /\ 1 \in mediaObjects
    BY <2>1 DEF CommitImport, ImportSound, ImportPlaced
  <2>3. importAsset' = [state |-> "PENDING_VALIDATION", key |-> 1]
        /\ importJob' = Complete(importJob)
    BY <1>3, <2>2 DEF CommitImport, ImportObjectKey
  <2>4. importJob' \in HandlerRows /\ importJob'.state = "SUCCEEDED"
    BY <2>3, JobStepsKeepRows DEF Complete, ImportSound, ImportTyped, HandlerRows
  <2>5. ImportTyped'
    BY <1>1, <1>2, <2>3, <2>4 DEF ImportSound, ImportTyped
  <2>6. ImportPlaced'
    BY <1>1, <1>2, <2>2, <2>3, <2>4 DEF ImportSound, ImportTyped, ImportPlaced
  <2>7. QED
    BY <2>5, <2>6 DEF ImportSound
<1>4. CASE ~MayContinue(importJob, importRow[i].attempt)
  <2>1. UNCHANGED <<importJob, importAsset>>
    BY <1>4 DEF CommitImport
  <2>2. importJob \in HandlerRows
    BY DEF ImportSound, ImportTyped
  <2>3. QED
    BY <1>1, <1>2, <2>1, <2>2, ImporterMoves
<1>5. QED
  BY <1>3, <1>4

LEMMA ImportRecoveryKeepsSound ==
  ASSUME ImportSound, RecoverImport
  PROVE  ImportSound'
<1>1. importAsset.state = "ABSENT"
  BY DEF RecoverImport, ImportSound, ImportPlaced
<1>2. importJob' \in HandlerRows
  BY JobStepsKeepRows DEF RecoverImport, ImportSound, ImportTyped
<1>3. UNCHANGED <<mediaObjects, importAsset>>
  BY DEF RecoverImport
<1>4. /\ importRow' \in [Importers -> [pc : {"idle", "read", "transfer", "commit"},
                                       attempt : Nat]]
      /\ \A i \in Importers : importRow'[i] \in {importRow[i], IdleImport}
  <2>1. PICK gone \in SUBSET Importers :
          importRow' = [i \in Importers |-> IF i \in gone THEN IdleImport ELSE importRow[i]]
    BY DEF RecoverImport
  <2>2. QED
    BY <2>1 DEF ImportSound, ImportTyped, IdleImport
<1>5. ImportTyped'
  BY <1>2, <1>3, <1>4 DEF ImportSound, ImportTyped
<1>6. ImportPlaced'
  BY <1>1, <1>3, <1>4 DEF ImportSound, ImportPlaced, IdleImport
<1>7. QED
  BY <1>5, <1>6 DEF ImportSound

\* Requests, the operator, the validator, the purge and the upload route.
LEMMA OthersKeepImportSound ==
  ASSUME ImportSound,
         RequestMediaImport \/ RetryImport \/ ValidateImport \/ PurgeRejectedImport \/ AttachUpload
  PROVE  ImportSound'
<1>1. importJob \in HandlerRows
  BY DEF ImportSound, ImportTyped
<1>2. CASE RequestMediaImport \/ RetryImport
  <2>1. importAsset.state = "ABSENT" /\ UNCHANGED <<importRow, mediaObjects, importAsset>>
    BY <1>2 DEF RequestMediaImport, RetryImport, ImportSound, ImportPlaced
  <2>2. importJob' \in HandlerRows
    BY <1>1, <1>2, JobStepsKeepRows DEF RequestMediaImport, RetryImport
  <2>3. QED
    BY <2>1, <2>2 DEF ImportSound, ImportTyped, ImportPlaced
<1>3. CASE ValidateImport
  <2>1. /\ importAsset'.state \in {"READY", "REJECTED"} /\ importAsset'.key = importAsset.key
        /\ importAsset' \in [state : {"ABSENT", "PENDING_VALIDATION", "READY", "REJECTED"},
                             key : {Null, 1}]
    BY <1>3 DEF ValidateImport, ImportSound, ImportTyped
  <2>2. UNCHANGED <<importJob, importRow, mediaObjects>>
        /\ importAsset.state = "PENDING_VALIDATION"
    BY <1>3 DEF ValidateImport
  <2>3. QED
    BY <2>1, <2>2 DEF ImportSound, ImportTyped, ImportPlaced
<1>4. CASE PurgeRejectedImport \/ AttachUpload
  BY <1>4 DEF PurgeRejectedImport, AttachUpload, ImportSound, ImportTyped, ImportPlaced
<1>5. QED
  BY <1>2, <1>3, <1>4

\* importObjectKey and createImportedVideoAsset: however many attempts streamed,
\* and however late, an import has stored one object, and an asset under
\* judgement or in use is that object.
THEOREM ImportsStoreOneObject == ImportSpec => []OneImportedObject
<1>1. ImportSound => OneImportedObject
  <2>1. SUFFICES ASSUME ImportSound PROVE OneImportedObject
    OBVIOUS
  <2>2. mediaObjects \subseteq {1}
    BY <2>1 DEF ImportSound, ImportPlaced
  <2>3. IsFiniteSet({1}) /\ Cardinality({1}) = 1
    BY FS_Singleton
  <2>4. Cardinality(mediaObjects) <= 1
    BY <2>2, <2>3, FS_Subset
  <2>5. QED
    BY <2>1, <2>4 DEF OneImportedObject, ImportSound, ImportPlaced
<1>2. ImportSound /\ [ImportNext]_importVars => ImportSound'
  <2>1. SUFFICES ASSUME ImportSound, [ImportNext]_importVars PROVE ImportSound'
    OBVIOUS
  <2>2. ASSUME NEW i \in Importers,
               ClaimImport(i) \/ ReadMediaItem(i) \/ TransferMedia(i) \/ ImportFails(i)
                 \/ LoseImport(i)
        PROVE  ImportSound'
    BY <2>1, <2>2, ImportAttemptsKeepSound
  <2>3. ASSUME NEW i \in Importers, CommitImport(i) PROVE ImportSound'
    BY <2>1, <2>3, ImportCommitKeepsSound
  <2>4. CASE RecoverImport
    BY <2>1, <2>4, ImportRecoveryKeepsSound
  <2>5. CASE RequestMediaImport \/ RetryImport \/ ValidateImport \/ PurgeRejectedImport
               \/ AttachUpload
    BY <2>1, <2>5, OthersKeepImportSound
  <2>6. CASE UNCHANGED importVars
    BY <2>1, <2>6 DEF importVars, ImportSound, ImportTyped, ImportPlaced
  <2>7. QED
    BY <2>1, <2>2, <2>3, <2>4, <2>5, <2>6 DEF ImportNext
<1>3. QED
  BY ImportSoundAtFirst, <1>1, <1>2, PTL DEF ImportSpec


-----------------------------------------------------------------------------
(* InstagramConnection.  The rows of an account change in one transaction  *)
(* each, but what a maintainer writes at the end was read long before.  So *)
(* the invariant relates what it read to what the row has become: the same *)
(* version and still ACTIVE mean the same token, and any other token that  *)
(* may be stored over it was issued later.                                 *)

CredentialRows ==
  [account : ProviderAccounts, status : {"ACTIVE", "REVOKED", "REAUTHORISATION_REQUIRED"},
   token : Nat, issuedAt : Nat, expiresAt : Int \cup {Null}, version : Nat]

Cookies ==
  {Null} \cup [signed : BOOLEAN, parsed : BOOLEAN, user : Admins, state : Nat,
               expected : ProviderAccounts \cup {Null}, at : Nat]

CallbackRows ==
  [pc : {"idle", "exchange", "commit", "enqueue"}, state : Nat,
   expected : ProviderAccounts \cup {Null}, account : ProviderAccounts \cup {Null}, token : Nat]

MaintainerRows ==
  [pc : {"idle", "validate", "refresh", "commit"}, job : Nat \X Nat, attempt : Nat,
   credential : Nat, version : Nat, token : Nat,
   result : {Null, "reauthorise", "rotate", "validated"}]

ConnectionTyped ==
  /\ timeAt \in DOMAIN TimePoints
  /\ account \in [ProviderAccounts ->
                    {"NONE", "ACTIVE", "DISCONNECTED", "REAUTHORISATION_REQUIRED"}]
  /\ credentials \in Seq(CredentialRows)
  /\ cookie \in Cookies /\ states \in Nat /\ tokens \in Nat
  /\ callback \in [Callbacks -> CallbackRows]
  /\ maintenance \in [(1..MaxTokens) \X DOMAIN TimePoints -> HandlerRows]
  /\ maintainer \in [Maintainers -> MaintainerRows]

\* A callback about to commit has a token of its own to store.
CallbackPlaced(c) ==
  /\ callback[c].pc \in {"commit", "enqueue"} => callback[c].account \in ProviderAccounts
  /\ callback[c].pc = "commit" => callback[c].token \in 1..tokens

CredentialSound(c) ==
  /\ credentials[c].token # 0 <=> credentials[c].status = "ACTIVE"
  /\ credentials[c].token <= tokens

OneActiveEach ==
  \A c, d \in DOMAIN credentials :
    /\ credentials[c].status = "ACTIVE" /\ credentials[d].status = "ACTIVE"
    /\ credentials[c].account = credentials[d].account
    => c = d

ConnectedHaveOne == \A p \in ProviderAccounts : account[p] = "ACTIVE" => HasActive(p)

CredentialsSound ==
  (\A c \in DOMAIN credentials : CredentialSound(c)) /\ OneActiveEach /\ ConnectedHaveOne

MaintainerPlaced(w) ==
  LET me == maintainer[w]
      row == credentials[me.credential]
  IN /\ me.pc # "idle" => me.credential \in DOMAIN credentials /\ me.version <= row.version
     /\ me.pc = "commit" /\ me.result = "rotate" =>
          /\ me.token \in 1..tokens
          /\ row.status = "ACTIVE" /\ me.version = row.version => me.token >= row.token

ConnectionSound ==
  /\ ConnectionTyped
  /\ \A c \in Callbacks : CallbackPlaced(c)
  /\ CredentialsSound
  /\ \A w \in Maintainers : MaintainerPlaced(w)


LEMMA NowIsADay == ConnectionTyped => Now \in Nat
  BY ConnectionAssumption DEF ConnectionTyped, Now

LEMMA RowsRewritten ==
  ASSUME NEW S, NEW s \in Seq(S), NEW t, t = [c \in DOMAIN s |-> t[c]],
         \A c \in DOMAIN s : t[c] \in S
  PROVE  t \in Seq(S) /\ DOMAIN t = DOMAIN s
  OBVIOUS

\* What a step may make of a credential row: leave it, store a later token under
\* a later version, or empty it and see that its account is not connected.
RowAdvances(c) ==
  \/ credentials'[c] = credentials[c]
  \/ /\ credentials[c].status = "ACTIVE" /\ credentials'[c].status = "ACTIVE"
     /\ credentials'[c].token \in 1..tokens /\ credentials'[c].token >= credentials[c].token
     /\ credentials'[c].version > credentials[c].version
  \/ /\ credentials'[c].status # "ACTIVE" /\ credentials'[c].token = 0
     /\ credentials'[c].version = credentials[c].version
     /\ account'[credentials[c].account] # "ACTIVE"

RowsAdvance ==
  /\ credentials' \in Seq(CredentialRows) /\ DOMAIN credentials' = DOMAIN credentials
  /\ \A c \in DOMAIN credentials :
       credentials'[c].account = credentials[c].account /\ RowAdvances(c)
  /\ \A p \in ProviderAccounts : account'[p] = "ACTIVE" => account[p] = "ACTIVE"
  /\ tokens' \in Nat /\ tokens <= tokens'

LEMMA RowsStayTyped ==
  ASSUME ConnectionTyped, NEW c \in DOMAIN credentials
  PROVE  /\ credentials[c] \in CredentialRows
         /\ credentials[c].account \in ProviderAccounts /\ credentials[c].token \in Nat
         /\ credentials[c].version \in Nat
<1>1. credentials[c] \in CredentialRows
  BY DEF ConnectionTyped
<1>2. QED
  BY <1>1 DEF CredentialRows

LEMMA AdvancingRowsAreSound ==
  ASSUME ConnectionTyped, CredentialsSound, RowsAdvance
  PROVE  CredentialsSound'
<1>1. \A c \in DOMAIN credentials :
        /\ credentials[c] \in CredentialRows /\ credentials'[c] \in CredentialRows
        /\ credentials[c].token \in Nat /\ credentials'[c].token \in Nat
        /\ credentials[c].account \in ProviderAccounts
        /\ CredentialSound(c)
        /\ credentials'[c].account = credentials[c].account /\ RowAdvances(c)
  <2>1. TAKE c \in DOMAIN credentials
  <2>2. credentials'[c] \in CredentialRows
    BY DEF RowsAdvance
  <2>3. credentials'[c].token \in Nat
    BY <2>2 DEF CredentialRows
  <2>4. QED
    BY <2>2, <2>3, RowsStayTyped DEF CredentialsSound, RowsAdvance
<1>2. \A c \in DOMAIN credentials' : CredentialSound(c)'
  BY <1>1 DEF ConnectionTyped, CredentialSound, RowAdvances, RowsAdvance
<1>3. OneActiveEach'
  BY <1>1 DEF CredentialsSound, OneActiveEach, RowsAdvance, RowAdvances
<1>4. ConnectedHaveOne'
  <2>1. SUFFICES ASSUME NEW p \in ProviderAccounts, account'[p] = "ACTIVE"
                 PROVE  HasActive(p)'
    BY DEF ConnectedHaveOne
  <2>2. PICK c \in DOMAIN credentials :
          credentials[c].account = p /\ credentials[c].status = "ACTIVE"
    BY <2>1 DEF CredentialsSound, ConnectedHaveOne, HasActive, ActiveCredentials, RowsAdvance
  <2>3. credentials'[c].account = p /\ credentials'[c].status = "ACTIVE"
    BY <1>1, <2>1, <2>2 DEF RowAdvances
  <2>4. QED
    BY <2>2, <2>3 DEF HasActive, ActiveCredentials, RowsAdvance
<1>5. QED
  BY <1>2, <1>3, <1>4 DEF CredentialsSound

\* A maintainer that does not move stays placed while the rows advance.
LEMMA WaitingMaintainerStaysPlaced ==
  ASSUME ConnectionTyped, NEW w \in Maintainers, MaintainerPlaced(w),
         maintainer'[w] = maintainer[w],
         credentials' \in Seq(CredentialRows), DOMAIN credentials \subseteq DOMAIN credentials',
         \A c \in DOMAIN credentials : RowAdvances(c),
         tokens' \in Nat, tokens <= tokens'
  PROVE  MaintainerPlaced(w)'
<1> DEFINE c == maintainer[w].credential
<1>1. maintainer[w] \in MaintainerRows
  BY DEF ConnectionTyped
<1>2. maintainer[w].version \in Nat /\ maintainer[w].token \in Nat
  BY <1>1 DEF MaintainerRows
<1>3. CASE maintainer[w].pc = "idle"
  BY <1>3 DEF MaintainerPlaced
<1>4. CASE maintainer[w].pc # "idle"
  <2>1. c \in DOMAIN credentials /\ c \in DOMAIN credentials'
    BY <1>4 DEF MaintainerPlaced
  <2>2. /\ credentials[c].version \in Nat /\ credentials[c].token \in Nat
        /\ credentials'[c].version \in Nat
    <3>1. credentials'[c] \in CredentialRows
      BY <2>1
    <3>2. QED
      BY <2>1, <3>1, RowsStayTyped DEF CredentialRows
  <2>3. RowAdvances(c)
    BY <2>1
  <2>4. QED
    <3>1. credentials'[c].version >= credentials[c].version
      BY <2>2, <2>3 DEF RowAdvances
    <3>2. maintainer[w].version <= credentials'[c].version
      BY <1>2, <1>4, <2>2, <3>1 DEF MaintainerPlaced
    <3>3. ASSUME maintainer[w].pc = "commit", maintainer[w].result = "rotate"
          PROVE  /\ maintainer[w].token \in 1..tokens'
                 /\ credentials'[c].status = "ACTIVE" /\ maintainer[w].version = credentials'[c].version
                      => maintainer[w].token >= credentials'[c].token
      <4>1. maintainer[w].token \in 1..tokens
        BY <3>3 DEF MaintainerPlaced
      <4>2. maintainer[w].token \in 1..tokens'
        BY <4>1 DEF ConnectionTyped
      <4>3. CASE credentials'[c] = credentials[c]
        BY <3>3, <4>2, <4>3 DEF MaintainerPlaced
      <4>4. CASE credentials'[c] # credentials[c]
        BY <1>2, <1>4, <2>2, <2>3, <3>3, <4>2, <4>4 DEF MaintainerPlaced, RowAdvances
      <4>5. QED
        BY <4>3, <4>4
    <3>4. QED
      BY <1>4, <2>1, <3>2, <3>3 DEF MaintainerPlaced
<1>5. QED
  BY <1>3, <1>4


LEMMA RowsStand ==
  ASSUME ConnectionSound, UNCHANGED <<credentials, account>>, tokens' \in Nat, tokens <= tokens'
  PROVE  RowsAdvance /\ CredentialsSound'
<1>1. RowsAdvance
  BY DEF ConnectionSound, ConnectionTyped, RowsAdvance, RowAdvances
<1>2. QED
  BY <1>1, AdvancingRowsAreSound DEF ConnectionSound

LEMMA CallbackMoves ==
  ASSUME ConnectionSound, NEW c \in Callbacks, NEW row \in CallbackRows,
         callback' = [callback EXCEPT ![c] = row],
         row.pc \in {"commit", "enqueue"} => row.account \in ProviderAccounts,
         row.pc = "commit" => row.token \in 1..tokens',
         tokens' \in Nat, tokens <= tokens'
  PROVE  callback' \in [Callbacks -> CallbackRows] /\ \A k \in Callbacks : CallbackPlaced(k)'
<1>1. /\ callback' \in [Callbacks -> CallbackRows] /\ callback'[c] = row
      /\ \A k \in Callbacks : k # c => callback'[k] = callback[k]
  BY DEF ConnectionSound, ConnectionTyped
<1>2. QED
  BY <1>1 DEF ConnectionSound, ConnectionTyped, CallbackPlaced

LEMMA CallbacksStand ==
  ASSUME ConnectionSound, UNCHANGED callback, tokens' \in Nat, tokens <= tokens'
  PROVE  callback' \in [Callbacks -> CallbackRows] /\ \A k \in Callbacks : CallbackPlaced(k)'
  BY DEF ConnectionSound, ConnectionTyped, CallbackPlaced

LEMMA CallbackEnds ==
  ASSUME ConnectionSound, NEW c \in Callbacks, callback' = [callback EXCEPT ![c] = IdleCallback],
         tokens' \in Nat, tokens <= tokens'
  PROVE  callback' \in [Callbacks -> CallbackRows] /\ \A k \in Callbacks : CallbackPlaced(k)'
<1>1. IdleCallback \in CallbackRows /\ IdleCallback.pc = "idle"
  BY DEF IdleCallback, CallbackRows
<1>2. QED
  BY <1>1, CallbackMoves

LEMMA MaintainersStand ==
  ASSUME ConnectionSound, RowsAdvance, UNCHANGED maintainer
  PROVE  maintainer' \in [Maintainers -> MaintainerRows]
         /\ \A w \in Maintainers : MaintainerPlaced(w)'
<1>1. \A w \in Maintainers : MaintainerPlaced(w)'
  BY WaitingMaintainerStaysPlaced DEF ConnectionSound, RowsAdvance
<1>2. QED
  BY <1>1 DEF ConnectionSound, ConnectionTyped

LEMMA MaintainerMoves ==
  ASSUME ConnectionSound, RowsAdvance, NEW w \in Maintainers, NEW row \in MaintainerRows,
         maintainer' = [maintainer EXCEPT ![w] = row], row.pc = "idle" \/ MaintainerPlaced(w)'
  PROVE  maintainer' \in [Maintainers -> MaintainerRows]
         /\ \A v \in Maintainers : MaintainerPlaced(v)'
<1>1. /\ maintainer' \in [Maintainers -> MaintainerRows] /\ maintainer'[w] = row
      /\ \A v \in Maintainers : v # w => maintainer'[v] = maintainer[v]
  BY DEF ConnectionSound, ConnectionTyped
<1>2. MaintainerPlaced(w)'
  BY <1>1 DEF MaintainerPlaced
<1>3. \A v \in Maintainers : v # w => MaintainerPlaced(v)'
  BY <1>1, WaitingMaintainerStaysPlaced DEF ConnectionSound, RowsAdvance
<1>4. QED
  BY <1>1, <1>2, <1>3

LEMMA MaintainerEnds ==
  ASSUME ConnectionSound, RowsAdvance, NEW w \in Maintainers,
         maintainer' = [maintainer EXCEPT ![w] = IdleMaintainer]
  PROVE  maintainer' \in [Maintainers -> MaintainerRows]
         /\ \A v \in Maintainers : MaintainerPlaced(v)'
<1>1. IdleMaintainer \in MaintainerRows /\ IdleMaintainer.pc = "idle"
  BY DEF IdleMaintainer, MaintainerRows
<1>2. QED
  BY <1>1, MaintainerMoves

LEMMA MaintenanceJobWritten ==
  ASSUME ConnectionTyped, NEW k, NEW row,
         k \in (1..MaxTokens) \X DOMAIN TimePoints => row \in HandlerRows
  PROVE  [maintenance EXCEPT ![k] = row] \in [(1..MaxTokens) \X DOMAIN TimePoints -> HandlerRows]
<1> DEFINE K == (1..MaxTokens) \X DOMAIN TimePoints
<1>1. maintenance \in [K -> HandlerRows] /\ (k \in K => row \in HandlerRows)
  BY DEF ConnectionTyped
<1> HIDE DEF K
<1>2. [maintenance EXCEPT ![k] = row] \in [K -> HandlerRows]
  BY <1>1, OneRowWritten
<1>3. QED
  BY <1>2 DEF K

LEMMA MaintenanceRow ==
  ASSUME ConnectionTyped, NEW k \in (1..MaxTokens) \X DOMAIN TimePoints
  PROVE  maintenance[k] \in HandlerRows
  BY DEF ConnectionTyped

-----------------------------------------------------------------------------
(* Steps of the browser.                                                   *)

LEMMA StartConnectionKeepsSound ==
  ASSUME ConnectionSound, NEW u \in Admins, NEW p \in ProviderAccounts \cup {Null},
         StartConnection(u, p)
  PROVE  ConnectionSound'
<1>1. UNCHANGED <<timeAt, account, credentials, callback, tokens, maintenance, maintainer>>
  BY DEF StartConnection
<1>2. tokens' \in Nat /\ tokens <= tokens' /\ states' \in Nat
  BY <1>1 DEF StartConnection, ConnectionSound, ConnectionTyped
<1>3. cookie' \in Cookies
  <2>1. Now \in Nat /\ states + 1 \in Nat
    BY NowIsADay DEF ConnectionSound, ConnectionTyped
  <2>2. QED
    BY <2>1 DEF StartConnection, Cookies
<1>4. RowsAdvance /\ CredentialsSound'
  BY <1>1, <1>2, RowsStand
<1>5. \A k \in Callbacks : CallbackPlaced(k)'
  BY <1>1, <1>2, CallbacksStand
<1>6. \A w \in Maintainers : MaintainerPlaced(w)'
  BY <1>1, <1>4, MaintainersStand
<1>7. QED
  BY <1>1, <1>2, <1>3, <1>4, <1>5, <1>6 DEF ConnectionSound, ConnectionTyped

LEMMA BeginCallbackKeepsSound ==
  ASSUME ConnectionSound, NEW c \in Callbacks, NEW u \in Admins, NEW s \in 1..states,
         BeginCallback(c, u, s)
  PROVE  ConnectionSound'
<1>1. UNCHANGED <<timeAt, account, credentials, states, tokens, maintenance, maintainer>>
  BY DEF BeginCallback
<1>2. tokens' \in Nat /\ tokens <= tokens' /\ s \in Nat
  BY <1>1 DEF ConnectionSound, ConnectionTyped
<1>3. cookie' \in Cookies
  BY DEF BeginCallback, ConnectionSound, ConnectionTyped, Cookies
<1>4. callback' \in [Callbacks -> CallbackRows] /\ \A k \in Callbacks : CallbackPlaced(k)'
  <2>1. CASE callback' = callback
    BY <1>2, <2>1, CallbacksStand
  <2>2. CASE callback' # callback
    <3> DEFINE row == [pc |-> "exchange", state |-> s, expected |-> cookie.expected,
                       account |-> Null, token |-> 0]
    <3>1. OpenInstagramState(cookie) = cookie /\ cookie # Null
          /\ callback' = [callback EXCEPT ![c] = row]
      BY <2>2 DEF BeginCallback, EvaluateCallback, OpenInstagramState, IdleCallback
    <3>2. row \in CallbackRows
      BY <1>2, <3>1 DEF ConnectionSound, ConnectionTyped, Cookies, CallbackRows
    <3>3. row.pc = "exchange"
      OBVIOUS
    <3> HIDE DEF row
    <3>4. QED
      BY <1>2, <3>1, <3>2, <3>3, CallbackMoves
  <2>3. QED
    BY <2>1, <2>2
<1>5. RowsAdvance /\ CredentialsSound'
  BY <1>1, <1>2, RowsStand
<1>6. \A w \in Maintainers : MaintainerPlaced(w)'
  BY <1>1, <1>5, MaintainersStand
<1>7. QED
  BY <1>1, <1>3, <1>4, <1>5, <1>6 DEF ConnectionSound, ConnectionTyped


LEMMA ExchangeKeepsSound ==
  ASSUME ConnectionSound, NEW c \in Callbacks, NEW p \in ProviderAccounts, NEW reported,
         NEW listed, ExchangeCode(c, p, reported, listed)
  PROVE  ConnectionSound'
<1>1. UNCHANGED <<timeAt, account, credentials, states, maintenance, maintainer>>
  BY DEF ExchangeCode
<1>2. tokens \in Nat /\ tokens' \in Nat /\ tokens <= tokens'
  BY DEF ExchangeCode, ConnectionSound, ConnectionTyped
<1>3. cookie' \in Cookies
  BY DEF ExchangeCode, ConnectionSound, ConnectionTyped, Cookies
<1>4. callback' \in [Callbacks -> CallbackRows] /\ \A k \in Callbacks : CallbackPlaced(k)'
  <2>1. CASE callback' = [callback EXCEPT ![c] = IdleCallback]
    BY <1>2, <2>1, CallbackEnds
  <2>2. CASE /\ tokens' = tokens + 1
             /\ callback' = [callback EXCEPT ![c] =
                  [callback[c] EXCEPT !.pc = "commit", !.account = p, !.token = tokens + 1]]
    <3> DEFINE row(n) == [callback[c] EXCEPT !.pc = "commit", !.account = p, !.token = n]
    <3>1. callback[c] \in CallbackRows
      BY DEF ConnectionSound, ConnectionTyped
    <3>2. \A n \in Nat : /\ row(n) \in CallbackRows /\ row(n).pc = "commit"
                          /\ row(n).account = p /\ row(n).token = n
      BY <3>1 DEF CallbackRows
    <3>3. tokens + 1 \in Nat /\ tokens + 1 \in 1..tokens'
      BY <1>2, <2>2
    <3>4. callback' = [callback EXCEPT ![c] = row(tokens + 1)]
      BY <2>2
    <3> HIDE DEF row
    <3>5. QED
      BY <1>2, <3>2, <3>3, <3>4, CallbackMoves
  <2>3. QED
    BY <2>1, <2>2 DEF ExchangeCode
<1>5. RowsAdvance /\ CredentialsSound'
  BY <1>1, <1>2, RowsStand
<1>6. \A w \in Maintainers : MaintainerPlaced(w)'
  BY <1>1, <1>5, MaintainersStand
<1>7. QED
  BY <1>1, <1>2, <1>3, <1>4, <1>5, <1>6 DEF ConnectionSound, ConnectionTyped

LEMMA CallbackEndKeepsSound ==
  ASSUME ConnectionSound, NEW c \in Callbacks,
         ExchangeRefused(c) \/ EnqueueBootstrap(c) \/ CallbackFails(c)
  PROVE  ConnectionSound'
<1>1. UNCHANGED <<timeAt, account, credentials, states, tokens, maintenance, maintainer>>
  BY DEF ExchangeRefused, EnqueueBootstrap, CallbackFails
<1>2. tokens' \in Nat /\ tokens <= tokens'
  BY <1>1 DEF ConnectionSound, ConnectionTyped
<1>3. cookie' \in Cookies
  BY DEF ExchangeRefused, EnqueueBootstrap, CallbackFails, ConnectionSound, ConnectionTyped, Cookies
<1>4. callback' = [callback EXCEPT ![c] = IdleCallback]
  BY DEF ExchangeRefused, EnqueueBootstrap, CallbackFails
<1>5. callback' \in [Callbacks -> CallbackRows] /\ \A k \in Callbacks : CallbackPlaced(k)'
  BY <1>2, <1>4, CallbackEnds
<1>6. RowsAdvance /\ CredentialsSound'
  BY <1>1, <1>2, RowsStand
<1>7. \A w \in Maintainers : MaintainerPlaced(w)'
  BY <1>1, <1>6, MaintainersStand
<1>8. QED
  BY <1>1, <1>3, <1>5, <1>6, <1>7 DEF ConnectionSound, ConnectionTyped

\* What activating a credential leaves of the rows that were there.
RevokedOrKept(p) ==
  [c \in DOMAIN credentials |->
     IF credentials[c].account = p /\ credentials[c].status = "ACTIVE"
       THEN Purge(credentials[c], "REVOKED") ELSE credentials[c]]

LEMMA RevokedRows ==
  ASSUME ConnectionTyped, CredentialsSound, NEW p
  PROVE  /\ RevokedOrKept(p) \in Seq(CredentialRows)
         /\ DOMAIN RevokedOrKept(p) = DOMAIN credentials
         /\ \A c \in DOMAIN credentials :
              /\ RevokedOrKept(p)[c].account = credentials[c].account
              /\ \/ /\ RevokedOrKept(p)[c] = credentials[c]
                    /\ ~(credentials[c].account = p /\ credentials[c].status = "ACTIVE")
                 \/ /\ RevokedOrKept(p)[c].status = "REVOKED" /\ RevokedOrKept(p)[c].token = 0
                    /\ RevokedOrKept(p)[c].version = credentials[c].version
                    /\ credentials[c].account = p
<1> DEFINE rows == RevokedOrKept(p)
<1>1. ASSUME NEW c \in DOMAIN credentials
      PROVE  /\ rows[c] \in CredentialRows
             /\ rows[c].account = credentials[c].account
             /\ \/ /\ rows[c] = credentials[c]
                   /\ ~(credentials[c].account = p /\ credentials[c].status = "ACTIVE")
                \/ /\ rows[c].status = "REVOKED" /\ rows[c].token = 0
                   /\ rows[c].version = credentials[c].version
                   /\ credentials[c].account = p
  <2>1. credentials[c] \in CredentialRows
    BY RowsStayTyped
  <2>2. /\ Purge(credentials[c], "REVOKED") \in CredentialRows
        /\ Purge(credentials[c], "REVOKED").account = credentials[c].account
        /\ Purge(credentials[c], "REVOKED").status = "REVOKED"
        /\ Purge(credentials[c], "REVOKED").token = 0
        /\ Purge(credentials[c], "REVOKED").version = credentials[c].version
    BY <2>1 DEF Purge, CredentialRows
  <2>3. rows[c] = IF credentials[c].account = p /\ credentials[c].status = "ACTIVE"
                    THEN Purge(credentials[c], "REVOKED") ELSE credentials[c]
    BY DEF RevokedOrKept
  <2>4. QED
    BY <2>1, <2>2, <2>3
<1>2. rows = [c \in DOMAIN credentials |-> rows[c]]
  BY DEF RevokedOrKept
<1>3. credentials \in Seq(CredentialRows)
  BY DEF ConnectionTyped
<1>4. rows \in Seq(CredentialRows) /\ DOMAIN rows = DOMAIN credentials
  <2> HIDE DEF rows
  <2>1. QED
    BY <1>1, <1>2, <1>3, RowsRewritten
<1>5. QED
  BY <1>1, <1>4


\* credentials.activate: one ACTIVE row, the new one, is left of the account.
LEMMA ActivateKeepsCredentials ==
  ASSUME ConnectionTyped, CredentialsSound, NEW p \in ProviderAccounts, NEW row \in CredentialRows,
         row.account = p, row.status = "ACTIVE", row.token \in 1..tokens,
         credentials' = Append(RevokedOrKept(p), row),
         account' = [account EXCEPT ![p] = "ACTIVE"], UNCHANGED tokens
  PROVE  CredentialsSound' /\ credentials' \in Seq(CredentialRows)
<1> DEFINE rows == RevokedOrKept(p)
<1>1. /\ rows \in Seq(CredentialRows) /\ DOMAIN rows = DOMAIN credentials
      /\ \A c \in DOMAIN credentials :
           /\ rows[c].account = credentials[c].account
           /\ \/ /\ rows[c] = credentials[c]
                 /\ ~(credentials[c].account = p /\ credentials[c].status = "ACTIVE")
              \/ /\ rows[c].status = "REVOKED" /\ rows[c].token = 0
                 /\ rows[c].version = credentials[c].version
                 /\ credentials[c].account = p
  BY RevokedRows
<1>2. credentials' = Append(rows, row)
  OBVIOUS
<1> HIDE DEF rows
<1>3. \E new : /\ credentials' \in Seq(CredentialRows)
                /\ DOMAIN credentials' = DOMAIN credentials \cup {new}
                /\ new \notin DOMAIN credentials
                /\ credentials'[new] = row
                /\ \A c \in DOMAIN credentials : credentials'[c] = rows[c]
  <2> WITNESS Len(rows) + 1
  <2>1. QED
    BY <1>1, <1>2
<1>4. PICK new : /\ credentials' \in Seq(CredentialRows)
                 /\ DOMAIN credentials' = DOMAIN credentials \cup {new}
                 /\ new \notin DOMAIN credentials
                 /\ credentials'[new] = row
                 /\ \A c \in DOMAIN credentials : credentials'[c] = rows[c]
  BY <1>3
<1>5. tokens \in Nat
  BY DEF ConnectionTyped
<1>6. \A c \in DOMAIN credentials' : CredentialSound(c)'
  <2>1. CredentialSound(new)'
    BY <1>4, <1>5 DEF CredentialSound
  <2>2. ASSUME NEW c \in DOMAIN credentials PROVE CredentialSound(c)'
    BY <1>1, <1>4, <1>5 DEF CredentialSound, CredentialsSound
  <2>3. QED
    BY <1>4, <2>1, <2>2
<1>7. OneActiveEach'
  <2>1. \A c \in DOMAIN credentials :
          credentials'[c].status = "ACTIVE" =>
            credentials'[c] = credentials[c] /\ credentials[c].account # p
    BY <1>1, <1>4
  <2>2. credentials'[new].account = p
    BY <1>4
  <2>3. SUFFICES ASSUME NEW c \in DOMAIN credentials', NEW d \in DOMAIN credentials',
                        credentials'[c].status = "ACTIVE", credentials'[d].status = "ACTIVE",
                        credentials'[c].account = credentials'[d].account
                 PROVE  c = d
    BY DEF OneActiveEach
  <2>4. CASE c = new \/ d = new
    BY <1>4, <2>1, <2>2, <2>3, <2>4
  <2>5. CASE c \in DOMAIN credentials /\ d \in DOMAIN credentials
    BY <2>1, <2>3, <2>5 DEF OneActiveEach, CredentialsSound
  <2>6. QED
    BY <1>4, <2>4, <2>5
<1>8. ConnectedHaveOne'
  <2>1. SUFFICES ASSUME NEW q \in ProviderAccounts, account'[q] = "ACTIVE"
                 PROVE  \E c \in DOMAIN credentials' :
                          credentials'[c].account = q /\ credentials'[c].status = "ACTIVE"
    BY DEF ConnectedHaveOne, HasActive, ActiveCredentials
  <2>2. CASE q = p
    BY <1>4, <2>2
  <2>3. CASE q # p
    <3>1. account[q] = "ACTIVE"
      BY <2>1, <2>3 DEF ConnectionTyped
    <3>2. PICK c \in DOMAIN credentials :
            credentials[c].account = q /\ credentials[c].status = "ACTIVE"
      BY <3>1 DEF CredentialsSound, ConnectedHaveOne, HasActive, ActiveCredentials
    <3>3. credentials'[c] = credentials[c]
      BY <1>1, <1>4, <2>3, <3>2
    <3>4. QED
      BY <1>4, <3>2, <3>3
  <2>4. QED
    BY <2>2, <2>3
<1>9. QED
  BY <1>4, <1>6, <1>7, <1>8 DEF CredentialsSound

LEMMA ExpiryTyped ==
  ASSUME ConnectionTyped, NEW duration \in GrantDays
  PROVE  ResolveTokenExpiry(duration, Now) \in Int \cup {Null}
<1>1. Now \in Nat
  BY NowIsADay
<1>2. duration = Null \/ duration \in Int
  BY ConnectionAssumption
<1>3. QED
  BY <1>1, <1>2 DEF ResolveTokenExpiry

LEMMA CommitConnectionKeepsSound ==
  ASSUME ConnectionSound, NEW c \in Callbacks, CommitConnection(c)
  PROVE  ConnectionSound'
<1> DEFINE p == callback[c].account
<1>1. UNCHANGED <<timeAt, cookie, states, tokens, maintenance, maintainer>>
  BY DEF CommitConnection
<1>2. p \in ProviderAccounts /\ callback[c].token \in 1..tokens /\ callback[c] \in CallbackRows
  BY DEF CommitConnection, ConnectionSound, ConnectionTyped, CallbackPlaced
<1>3. PICK duration \in GrantDays :
        credentials' = Activate(credentials, p, callback[c].token,
                                ResolveTokenExpiry(duration, Now))
  BY DEF CommitConnection
<1> DEFINE row == NewCredential(p, callback[c].token, ResolveTokenExpiry(duration, Now))
<1>4. row \in CredentialRows /\ row.account = p /\ row.status = "ACTIVE"
      /\ row.token = callback[c].token
  <2>1. Now \in Nat /\ ResolveTokenExpiry(duration, Now) \in Int \cup {Null}
    BY ExpiryTyped, NowIsADay DEF ConnectionSound
  <2>2. callback[c].token \in Nat
    BY <1>2 DEF CallbackRows
  <2>3. QED
    BY <1>2, <2>1, <2>2 DEF NewCredential, CredentialRows
<1>5. credentials' = Append(RevokedOrKept(p), row)
  BY <1>3 DEF Activate, RevokedOrKept
<1>6. account' = [account EXCEPT ![p] = "ACTIVE"]
  BY DEF CommitConnection
<1> HIDE DEF row
<1>7. CredentialsSound' /\ credentials' \in Seq(CredentialRows)
  BY <1>1, <1>2, <1>4, <1>5, <1>6, ActivateKeepsCredentials DEF ConnectionSound
<1>8. callback' \in [Callbacks -> CallbackRows] /\ \A k \in Callbacks : CallbackPlaced(k)'
  <2> DEFINE next == [callback[c] EXCEPT !.pc = "enqueue", !.token = 0]
  <2>1. next \in CallbackRows /\ next.pc = "enqueue" /\ next.account = p
    BY <1>2 DEF CallbackRows
  <2>2. callback' = [callback EXCEPT ![c] = next]
    BY DEF CommitConnection
  <2>3. tokens' \in Nat /\ tokens <= tokens'
    BY <1>1 DEF ConnectionSound, ConnectionTyped
  <2> HIDE DEF next
  <2>4. QED
    BY <1>2, <2>1, <2>2, <2>3, CallbackMoves
<1>9. \A w \in Maintainers : MaintainerPlaced(w)'
  <2>1. \A k \in DOMAIN credentials :
          /\ k \in DOMAIN credentials'
          /\ \/ credentials'[k] = credentials[k]
             \/ /\ credentials'[k].status = "REVOKED"
                /\ credentials'[k].version = credentials[k].version
    BY <1>4, <1>5, RevokedRows DEF ConnectionSound
  <2>2. ASSUME NEW w \in Maintainers PROVE MaintainerPlaced(w)'
    BY <1>1, <2>1 DEF ConnectionSound, MaintainerPlaced
  <2>3. QED
    BY <2>2
<1>10. account' \in [ProviderAccounts ->
                      {"NONE", "ACTIVE", "DISCONNECTED", "REAUTHORISATION_REQUIRED"}]
  BY <1>6 DEF ConnectionSound, ConnectionTyped
<1>11. QED
  BY <1>1, <1>7, <1>8, <1>9, <1>10 DEF ConnectionSound, ConnectionTyped


LEMMA DisconnectAdvancesRows ==
  ASSUME ConnectionSound, CommitDisconnect
  PROVE  RowsAdvance
<1> DEFINE p == disconnect.account
<1>1. account' = [account EXCEPT ![p] = "DISCONNECTED"] /\ tokens' = tokens
  BY DEF CommitDisconnect
<1>2. credentials' \in {credentials, RevokedOrKept(p)}
  BY DEF CommitDisconnect, PurgeActive, RevokedOrKept
<1>3. \A q \in ProviderAccounts : account'[q] = "ACTIVE" => account[q] = "ACTIVE"
  BY <1>1 DEF ConnectionSound, ConnectionTyped
<1>4. \A c \in DOMAIN credentials :
        credentials[c].account = p => account'[credentials[c].account] # "ACTIVE"
  BY <1>1, RowsStayTyped DEF ConnectionSound, ConnectionTyped
<1>5. credentials \in Seq(CredentialRows) /\ tokens \in Nat
  BY DEF ConnectionSound, ConnectionTyped
<1> HIDE DEF p
<1>6. CASE credentials' = credentials
  BY <1>1, <1>3, <1>5, <1>6 DEF RowsAdvance, RowAdvances
<1>7. CASE credentials' = RevokedOrKept(p)
  BY <1>1, <1>3, <1>4, <1>5, <1>7, RevokedRows DEF ConnectionSound, RowsAdvance, RowAdvances
<1>8. QED
  BY <1>2, <1>6, <1>7

LEMMA DisconnectKeepsSound ==
  ASSUME ConnectionSound, CommitDisconnect
  PROVE  ConnectionSound'
<1>1. UNCHANGED <<timeAt, cookie, states, tokens, callback, maintenance, maintainer>>
  BY DEF CommitDisconnect
<1>2. RowsAdvance
  BY DisconnectAdvancesRows
<1>3. CredentialsSound'
  BY <1>2, AdvancingRowsAreSound DEF ConnectionSound
<1>4. \A k \in Callbacks : CallbackPlaced(k)'
  BY <1>1, <1>2, CallbacksStand DEF RowsAdvance
<1>5. \A w \in Maintainers : MaintainerPlaced(w)'
  BY <1>1, <1>2, MaintainersStand
<1>6. account' \in [ProviderAccounts ->
                      {"NONE", "ACTIVE", "DISCONNECTED", "REAUTHORISATION_REQUIRED"}]
  BY DEF CommitDisconnect, ConnectionSound, ConnectionTyped
<1>7. QED
  BY <1>1, <1>2, <1>3, <1>4, <1>5, <1>6 DEF ConnectionSound, ConnectionTyped, RowsAdvance

\* Revocation at the provider, the withdrawal of a permission, and the clock.
LEMMA WorldKeepsConnectionSound ==
  ASSUME ConnectionSound,
         (\E p \in ProviderAccounts : Revoke(p) \/ WithdrawPermission(p))
           \/ PurgeNothing \/ TimePasses \/ UNCHANGED connectionVars
  PROVE  ConnectionSound'
<1>1. UNCHANGED <<account, credentials, cookie, states, tokens, callback, maintenance, maintainer>>
  BY DEF Revoke, WithdrawPermission, PurgeNothing, TimePasses, connectionVars
<1>2. timeAt' \in DOMAIN TimePoints
  BY ConnectionAssumption DEF Revoke, WithdrawPermission, PurgeNothing, TimePasses,
     connectionVars, ConnectionSound, ConnectionTyped
<1>3. RowsAdvance /\ CredentialsSound'
  BY <1>1, RowsStand DEF ConnectionSound, ConnectionTyped
<1>4. \A k \in Callbacks : CallbackPlaced(k)'
  BY <1>1, <1>3, CallbacksStand DEF RowsAdvance
<1>5. \A w \in Maintainers : MaintainerPlaced(w)'
  BY <1>1, <1>3, MaintainersStand
<1>6. QED
  BY <1>1, <1>2, <1>3, <1>4, <1>5 DEF ConnectionSound, ConnectionTyped

-----------------------------------------------------------------------------
(* Steps of the worker.                                                    *)

\* A step that writes a maintenance job and leaves the maintainers alone.
LEMMA MaintenanceWriteKeepsSound ==
  ASSUME ConnectionSound, NEW k, NEW row,
         k \in (1..MaxTokens) \X DOMAIN TimePoints => row \in HandlerRows,
         maintenance' = [maintenance EXCEPT ![k] = row],
         maintainer' \in [Maintainers -> MaintainerRows],
         \A w \in Maintainers : maintainer'[w].pc = "idle" \/ maintainer'[w] = maintainer[w],
         UNCHANGED <<timeAt, account, credentials, cookie, states, callback, tokens>>
  PROVE  ConnectionSound'
<1>1. maintenance' \in [(1..MaxTokens) \X DOMAIN TimePoints -> HandlerRows]
  BY MaintenanceJobWritten DEF ConnectionSound
<1>2. RowsAdvance /\ CredentialsSound'
  BY RowsStand DEF ConnectionSound, ConnectionTyped
<1>3. \A c \in Callbacks : CallbackPlaced(c)'
  BY <1>2, CallbacksStand DEF RowsAdvance
<1>4. \A w \in Maintainers : MaintainerPlaced(w)'
  <2>1. ASSUME NEW w \in Maintainers PROVE MaintainerPlaced(w)'
    <3>1. CASE maintainer'[w].pc = "idle"
      BY <3>1 DEF MaintainerPlaced
    <3>2. CASE maintainer'[w] = maintainer[w]
      BY <1>2, <3>2, WaitingMaintainerStaysPlaced DEF ConnectionSound, RowsAdvance
    <3>3. QED
      BY <3>1, <3>2
  <2>2. QED
    BY <2>1
<1>5. QED
  BY <1>1, <1>2, <1>3, <1>4 DEF ConnectionSound, ConnectionTyped

LEMMA MaintenanceJobsKeepSound ==
  ASSUME ConnectionSound,
         \/ \E c \in DOMAIN credentials : ScheduleMaintenance(c)
         \/ \E w \in Maintainers, k \in DOMAIN maintenance : AdoptValidation(w, k)
  PROVE  ConnectionSound'
<1>1. UNCHANGED <<timeAt, account, credentials, cookie, states, callback, tokens, maintainer>>
  BY DEF ScheduleMaintenance, AdoptValidation
<1>2. maintainer' \in [Maintainers -> MaintainerRows]
  BY <1>1 DEF ConnectionSound, ConnectionTyped
<1>3. \A w \in Maintainers : maintainer'[w] = maintainer[w]
  BY <1>1
<1>4. \/ \E k : maintenance' = [maintenance EXCEPT ![k] = Enqueue(maintenance[k])]
      \/ \E k : maintenance' = [maintenance EXCEPT ![k] = Complete(Claim(maintenance[k]))]
  BY DEF ScheduleMaintenance, AdoptValidation
<1>5. \A k \in (1..MaxTokens) \X DOMAIN TimePoints :
        Enqueue(maintenance[k]) \in HandlerRows /\ Complete(Claim(maintenance[k])) \in HandlerRows
  BY MaintenanceRow, JobStepsKeepRows DEF ConnectionSound
<1>6. CASE \E k : maintenance' = [maintenance EXCEPT ![k] = Enqueue(maintenance[k])]
  BY <1>1, <1>2, <1>3, <1>5, <1>6, MaintenanceWriteKeepsSound
<1>7. CASE \E k : maintenance' = [maintenance EXCEPT ![k] = Complete(Claim(maintenance[k]))]
  BY <1>1, <1>2, <1>3, <1>5, <1>7, MaintenanceWriteKeepsSound
<1>8. QED
  BY <1>4, <1>6, <1>7

LEMMA MaintainerLeavesKeepSound ==
  ASSUME ConnectionSound, NEW w \in Maintainers, ProbeFails(w) \/ LoseMaintenance(w)
  PROVE  ConnectionSound'
<1>1. UNCHANGED <<timeAt, account, credentials, cookie, states, callback, tokens>>
      /\ maintainer' = [maintainer EXCEPT ![w] = IdleMaintainer]
  BY DEF ProbeFails, LoseMaintenance
<1>2. IdleMaintainer \in MaintainerRows /\ IdleMaintainer.pc = "idle"
  BY DEF IdleMaintainer, MaintainerRows
<1>3. /\ maintainer' \in [Maintainers -> MaintainerRows]
      /\ \A v \in Maintainers : maintainer'[v].pc = "idle" \/ maintainer'[v] = maintainer[v]
  BY <1>1, <1>2 DEF ConnectionSound, ConnectionTyped
<1> DEFINE k == maintainer[w].job
<1>4. CASE ProbeFails(w)
  <2>1. PICK class :
          maintenance' = [maintenance EXCEPT ![k] =
                            SettleFailure(maintenance[k], maintainer[w].attempt, class)]
    BY <1>4 DEF ProbeFails
  <2>2. k \in (1..MaxTokens) \X DOMAIN TimePoints =>
          SettleFailure(maintenance[k], maintainer[w].attempt, class) \in HandlerRows
    BY MaintenanceRow, JobStepsKeepRows DEF ConnectionSound
  <2> HIDE DEF k
  <2>3. QED
    BY <1>1, <1>3, <2>1, <2>2, MaintenanceWriteKeepsSound
<1>5. CASE LoseMaintenance(w)
  <2>1. maintenance' = [maintenance EXCEPT ![k] = maintenance[k]]
    BY <1>5 DEF LoseMaintenance, ConnectionSound, ConnectionTyped
  <2>2. k \in (1..MaxTokens) \X DOMAIN TimePoints => maintenance[k] \in HandlerRows
    BY MaintenanceRow DEF ConnectionSound
  <2> HIDE DEF k
  <2>3. QED
    BY <1>1, <1>3, <2>1, <2>2, MaintenanceWriteKeepsSound
<1>6. QED
  BY <1>4, <1>5

LEMMA RecoverMaintenanceKeepsSound ==
  ASSUME ConnectionSound, NEW k \in DOMAIN maintenance, RecoverMaintenance(k)
  PROVE  ConnectionSound'
<1>1. UNCHANGED <<timeAt, account, credentials, cookie, states, callback, tokens>>
      /\ maintenance' = [maintenance EXCEPT ![k] = RecoverLease(maintenance[k])]
  BY DEF RecoverMaintenance
<1>2. PICK gone \in SUBSET Maintainers :
        maintainer' = [w \in Maintainers |-> IF w \in gone THEN IdleMaintainer ELSE maintainer[w]]
  BY DEF RecoverMaintenance
<1>3. IdleMaintainer \in MaintainerRows /\ IdleMaintainer.pc = "idle"
  BY DEF IdleMaintainer, MaintainerRows
<1>4. /\ maintainer' \in [Maintainers -> MaintainerRows]
      /\ \A v \in Maintainers : maintainer'[v].pc = "idle" \/ maintainer'[v] = maintainer[v]
  BY <1>2, <1>3 DEF ConnectionSound, ConnectionTyped
<1>5. k \in (1..MaxTokens) \X DOMAIN TimePoints => RecoverLease(maintenance[k]) \in HandlerRows
  BY MaintenanceRow, JobStepsKeepRows DEF ConnectionSound
<1>6. QED
  BY <1>1, <1>4, <1>5, MaintenanceWriteKeepsSound


\* What a maintainer has just read is what the row holds.
LEMMA LoadKeepsSound ==
  ASSUME ConnectionSound, NEW w \in Maintainers, NEW k \in DOMAIN maintenance,
         LoadCredential(w, k)
  PROVE  ConnectionSound'
<1> DEFINE p == credentials[k[1]].account
           c == ActiveCredential(p)
<1>1. UNCHANGED <<timeAt, account, credentials, cookie, states, callback, tokens>>
  BY DEF LoadCredential
<1>2. k \in (1..MaxTokens) \X DOMAIN TimePoints
  BY DEF ConnectionSound, ConnectionTyped
<1>3. maintenance[k] \in HandlerRows
  BY <1>2, MaintenanceRow DEF ConnectionSound
<1>4. CASE HasActive(p)
  <2> DEFINE health == TokenHealth(credentials[c].status, credentials[c].expiresAt, Now)
             row == [pc |-> IF Blocked(health) THEN "commit"
                            ELSE IF ShouldRefresh(health, credentials[c].issuedAt, Now)
                              THEN "refresh" ELSE "validate",
                     job |-> k, attempt |-> maintenance[k].attempt + 1, credential |-> c,
                     version |-> credentials[c].version, token |-> credentials[c].token,
                     result |-> IF Blocked(health) THEN "reauthorise" ELSE Null]
  <2>1. c \in DOMAIN credentials
    BY <1>4 DEF HasActive, ActiveCredential, ActiveCredentials
  <2>2. maintainer' = [maintainer EXCEPT ![w] = row]
        /\ maintenance' = [maintenance EXCEPT ![k] = Claim(maintenance[k])]
    BY <1>4 DEF LoadCredential
  <2>3. /\ row.pc \in {"commit", "refresh", "validate"} /\ row.credential = c
        /\ row.version = credentials[c].version
        /\ row.pc = "commit" => row.result = "reauthorise"
    OBVIOUS
  <2>4. row \in MaintainerRows
    <3>1. k \in Nat \X Nat
      BY <1>2, ConnectionAssumption
    <3>2. maintenance[k].attempt + 1 \in Nat
      BY <1>3 DEF HandlerRows
    <3>3. c \in Nat /\ credentials[c].version \in Nat /\ credentials[c].token \in Nat
      BY <2>1, RowsStayTyped DEF ConnectionSound, ConnectionTyped
    <3> HIDE DEF c, health
    <3>4. QED
      BY <3>1, <3>2, <3>3 DEF MaintainerRows
  <2>5. RowsAdvance /\ CredentialsSound'
    BY <1>1, RowsStand DEF ConnectionSound, ConnectionTyped
  <2>6. maintainer'[w] = row
    BY <2>2 DEF ConnectionSound, ConnectionTyped
  <2> HIDE DEF row
  <2>7. credentials[c].version \in Nat
    BY <2>1, RowsStayTyped DEF ConnectionSound
  <2> HIDE DEF c
  <2>8. MaintainerPlaced(w)'
    BY <1>1, <2>1, <2>3, <2>6, <2>7 DEF MaintainerPlaced
  <2>9. maintainer' \in [Maintainers -> MaintainerRows]
        /\ \A v \in Maintainers : MaintainerPlaced(v)'
    BY <2>2, <2>4, <2>5, <2>8, MaintainerMoves
  <2>10. maintenance' \in [(1..MaxTokens) \X DOMAIN TimePoints -> HandlerRows]
    BY <1>3, <2>2, MaintenanceJobWritten, JobStepsKeepRows DEF ConnectionSound
  <2>11. \A d \in Callbacks : CallbackPlaced(d)'
    BY <1>1, <2>5, CallbacksStand DEF RowsAdvance
  <2>12. QED
    BY <1>1, <2>5, <2>9, <2>10, <2>11 DEF ConnectionSound, ConnectionTyped
<1>5. CASE ~HasActive(p)
  <2> DEFINE row == SettleFailure(Claim(maintenance[k]), maintenance[k].attempt + 1,
                                  "INVALID_INPUT")
  <2>1. maintenance' = [maintenance EXCEPT ![k] = row] /\ UNCHANGED maintainer
    BY <1>5 DEF LoadCredential
  <2>2. row \in HandlerRows
    BY <1>3, JobStepsKeepRows
  <2>3. maintainer' \in [Maintainers -> MaintainerRows]
        /\ \A v \in Maintainers : maintainer'[v] = maintainer[v]
    BY <2>1 DEF ConnectionSound, ConnectionTyped
  <2> HIDE DEF row
  <2>4. QED
    BY <1>1, <2>1, <2>2, <2>3, MaintenanceWriteKeepsSound
<1>6. QED
  BY <1>4, <1>5

\* A token that a refresh has just issued is newer than any that is stored.
LEMMA ProbeKeepsSound ==
  ASSUME ConnectionSound, NEW w \in Maintainers, ProbeProvider(w)
  PROVE  ConnectionSound'
<1> DEFINE me == maintainer[w]
           row(n, result) == [me EXCEPT !.pc = "commit", !.token = n, !.result = result]
<1>1. UNCHANGED <<timeAt, account, credentials, cookie, states, callback, maintenance>>
  BY DEF ProbeProvider
<1>2. me \in MaintainerRows /\ me.pc # "idle" /\ MaintainerPlaced(w) /\ tokens \in Nat
  BY DEF ProbeProvider, ConnectionSound, ConnectionTyped
<1>3. tokens' \in Nat /\ tokens <= tokens'
  BY <1>2 DEF ProbeProvider
<1>4. RowsAdvance /\ CredentialsSound'
  BY <1>1, <1>3, RowsStand
<1>5. \A n \in Nat, result \in {"reauthorise", "rotate", "validated"} :
        /\ row(n, result) \in MaintainerRows
        /\ row(n, result).pc = "commit" /\ row(n, result).token = n
        /\ row(n, result).result = result
        /\ row(n, result).credential = me.credential /\ row(n, result).version = me.version
  BY <1>2 DEF MaintainerRows
<1>6. \E n \in Nat, result \in {"reauthorise", "rotate", "validated"} :
        /\ maintainer' = [maintainer EXCEPT ![w] = row(n, result)]
        /\ result = "rotate" => n = tokens + 1 /\ tokens' = tokens + 1
  <2>1. me.token \in Nat /\ tokens + 1 \in Nat
    BY <1>2 DEF MaintainerRows
  <2>2. CASE me.pc = "refresh" /\ me.token \in working
    <3>1. maintainer' = [maintainer EXCEPT ![w] = row(tokens + 1, "rotate")]
          /\ tokens' = tokens + 1
      BY <2>2 DEF ProbeProvider
    <3>2. QED
      BY <2>1, <3>1
  <2>3. CASE me.pc # "refresh" /\ me.token \in working
    <3>1. maintainer' = [maintainer EXCEPT ![w] = row(me.token, "validated")]
      BY <2>3 DEF ProbeProvider
    <3>2. QED
      BY <2>1, <3>1
  <2>4. CASE me.token \notin working
    <3>1. maintainer' = [maintainer EXCEPT ![w] = row(me.token, "reauthorise")]
      BY <2>4 DEF ProbeProvider
    <3>2. QED
      BY <2>1, <3>1
  <2>5. QED
    BY <2>2, <2>3, <2>4
<1>7. PICK n \in Nat, result \in {"reauthorise", "rotate", "validated"} :
        /\ maintainer' = [maintainer EXCEPT ![w] = row(n, result)]
        /\ result = "rotate" => n = tokens + 1 /\ tokens' = tokens + 1
  BY <1>6
<1>8. \E next \in MaintainerRows :
        /\ maintainer' = [maintainer EXCEPT ![w] = next] /\ maintainer'[w] = next
        /\ next.pc = "commit" /\ next.token = n /\ next.result = result
        /\ next.credential = me.credential /\ next.version = me.version
  <2> HIDE DEF row
  <2>1. maintainer'[w] = row(n, result)
    BY <1>7 DEF ConnectionSound, ConnectionTyped
  <2>2. /\ row(n, result) \in MaintainerRows
        /\ row(n, result).pc = "commit" /\ row(n, result).token = n
        /\ row(n, result).result = result
        /\ row(n, result).credential = me.credential /\ row(n, result).version = me.version
    BY <1>5
  <2>3. QED
    BY <1>7, <2>1, <2>2, Zenon
<1>9. MaintainerPlaced(w)'
  <2>1. me.credential \in DOMAIN credentials
    BY <1>2 DEF MaintainerPlaced
  <2>2. CredentialSound(me.credential) /\ credentials[me.credential].token \in Nat
    BY <2>1, RowsStayTyped DEF ConnectionSound, CredentialsSound
  <2>3. me.version <= credentials[me.credential].version
    BY <1>2 DEF MaintainerPlaced
  <2>4. /\ maintainer'[w].credential = me.credential /\ maintainer'[w].version = me.version
        /\ maintainer'[w].token = n /\ maintainer'[w].result = result
    BY <1>8
  <2> HIDE DEF me
  <2>5. QED
    BY <1>1, <1>2, <1>3, <1>7, <2>1, <2>2, <2>3, <2>4 DEF MaintainerPlaced, CredentialSound
<1>10. maintainer' \in [Maintainers -> MaintainerRows]
       /\ \A v \in Maintainers : MaintainerPlaced(v)'
  BY <1>4, <1>8, <1>9, MaintainerMoves
<1>11. \A d \in Callbacks : CallbackPlaced(d)'
  BY <1>1, <1>3, CallbacksStand
<1>12. QED
  BY <1>1, <1>3, <1>4, <1>10, <1>11 DEF ConnectionSound, ConnectionTyped


LEMMA RotatedRow ==
  ASSUME ConnectionTyped, NEW row \in CredentialRows, NEW n \in Nat
  PROVE  /\ Rotated(row, n) \in CredentialRows /\ Rotated(row, n).token = n
         /\ Rotated(row, n).account = row.account /\ Rotated(row, n).status = row.status
         /\ Rotated(row, n).version > row.version
<1>1. Now + 60 \in Int /\ row.version + 1 \in Nat /\ row.version + 1 > row.version
  BY NowIsADay DEF CredentialRows
<1>2. PICK e \in Int, v \in Nat : e = Now + 60 /\ v = row.version + 1 /\ v > row.version
  BY <1>1
<1>3. Rotated(row, n) = [row EXCEPT !.token = n, !.expiresAt = e, !.version = v]
  BY <1>2 DEF Rotated
<1>4. QED
  BY <1>2, <1>3 DEF CredentialRows

\* rotateInstagramCredential and requireInstagramReauthorisation: what is stored
\* is later than what was there, or nothing is.
LEMMA MaintenanceAdvancesRows ==
  ASSUME ConnectionSound, NEW w \in Maintainers, CommitMaintenance(w)
  PROVE  /\ RowsAdvance
         /\ account' \in [ProviderAccounts ->
                            {"NONE", "ACTIVE", "DISCONNECTED", "REAUTHORISATION_REQUIRED"}]
<1> DEFINE me == maintainer[w]
           c == me.credential
<1>1. /\ tokens' = tokens /\ tokens \in Nat /\ credentials \in Seq(CredentialRows)
      /\ me \in MaintainerRows /\ me.pc = "commit"
      /\ account \in [ProviderAccounts ->
                        {"NONE", "ACTIVE", "DISCONNECTED", "REAUTHORISATION_REQUIRED"}]
  BY DEF CommitMaintenance, ConnectionSound, ConnectionTyped
<1>2. c \in DOMAIN credentials /\ MaintainerPlaced(w)
  BY <1>1 DEF ConnectionSound, MaintainerPlaced
<1>3. credentials[c] \in CredentialRows /\ credentials[c].account \in ProviderAccounts
      /\ credentials[c].version \in Nat /\ credentials[c].token \in Nat
  BY <1>2, RowsStayTyped DEF ConnectionSound
<1>4. CASE UNCHANGED <<credentials, account>>
  BY <1>1, <1>4, RowsStand DEF ConnectionSound
<1>5. CASE /\ credentials' = Rotate(credentials, c, me.version, me.token)
           /\ me.result = "rotate" /\ account' = account
  <2> DEFINE row(n) == Rotated(credentials[c], n)
  <2>1. me.token \in 1..tokens /\ me.token \in Nat
    BY <1>1, <1>2, <1>5 DEF MaintainerPlaced
  <2>2. CASE credentials[c].status = "ACTIVE" /\ credentials[c].version = me.version
    <3>1. \A n \in Nat :
            /\ row(n) \in CredentialRows /\ row(n).token = n
            /\ row(n).account = credentials[c].account /\ row(n).status = credentials[c].status
            /\ row(n).version > credentials[c].version
      BY <1>3, RotatedRow DEF ConnectionSound
    <3>2. credentials' = [credentials EXCEPT ![c] = row(me.token)]
      BY <1>5, <2>2 DEF Rotate
    <3>3. me.token >= credentials[c].token
      BY <1>1, <1>2, <1>5, <2>2 DEF MaintainerPlaced
    <3> HIDE DEF row, me, c
    <3>4. credentials' \in Seq(CredentialRows) /\ DOMAIN credentials' = DOMAIN credentials
          /\ credentials'[c] = row(me.token)
          /\ \A d \in DOMAIN credentials : d # c => credentials'[d] = credentials[d]
      BY <1>1, <1>2, <2>1, <3>1, <3>2
    <3>5. RowAdvances(c)
      BY <2>1, <2>2, <3>1, <3>3, <3>4 DEF RowAdvances
    <3>6. QED
      BY <1>1, <1>5, <2>1, <3>1, <3>4, <3>5 DEF RowsAdvance, RowAdvances
  <2>3. CASE ~(credentials[c].status = "ACTIVE" /\ credentials[c].version = me.version)
    <3>1. credentials' = credentials
      BY <1>1, <1>5, <2>3 DEF Rotate
    <3>2. QED
      BY <1>1, <1>5, <3>1, RowsStand DEF ConnectionSound
  <2>4. QED
    BY <2>2, <2>3
<1>6. CASE /\ credentials' = RequireReauthorisation(credentials, c)
           /\ account' = [account EXCEPT ![credentials[c].account] = "REAUTHORISATION_REQUIRED"]
  <2>1. /\ account'[credentials[c].account] # "ACTIVE"
        /\ \A p \in ProviderAccounts : account'[p] = "ACTIVE" => account[p] = "ACTIVE"
        /\ account' \in [ProviderAccounts ->
                           {"NONE", "ACTIVE", "DISCONNECTED", "REAUTHORISATION_REQUIRED"}]
    BY <1>1, <1>3, <1>6
  <2>2. CASE credentials[c].status = "ACTIVE"
    <3> DEFINE row == Purge(credentials[c], "REAUTHORISATION_REQUIRED")
    <3>1. row \in CredentialRows /\ row.account = credentials[c].account
          /\ row.status = "REAUTHORISATION_REQUIRED" /\ row.token = 0
          /\ row.version = credentials[c].version
      BY <1>3 DEF Purge, CredentialRows
    <3>2. credentials' = [credentials EXCEPT ![c] = row]
      BY <1>6, <2>2 DEF RequireReauthorisation
    <3> HIDE DEF row, c
    <3>3. credentials' \in Seq(CredentialRows) /\ DOMAIN credentials' = DOMAIN credentials
          /\ credentials'[c] = row
          /\ \A d \in DOMAIN credentials : d # c => credentials'[d] = credentials[d]
      BY <1>1, <1>2, <3>1, <3>2
    <3>4. QED
      BY <1>1, <2>1, <3>1, <3>3 DEF RowsAdvance, RowAdvances
  <2>3. CASE credentials[c].status # "ACTIVE"
    <3>1. credentials' = credentials
      BY <1>1, <1>6, <2>3 DEF RequireReauthorisation
    <3>2. QED
      BY <1>1, <2>1, <3>1 DEF RowsAdvance, RowAdvances
  <2>4. QED
    BY <2>2, <2>3
<1>7. QED
  BY <1>1, <1>4, <1>5, <1>6 DEF CommitMaintenance


LEMMA CommitMaintenanceKeepsSound ==
  ASSUME ConnectionSound, NEW w \in Maintainers, CommitMaintenance(w)
  PROVE  ConnectionSound'
<1>1. UNCHANGED <<timeAt, cookie, states, tokens, callback>>
      /\ maintainer' = [maintainer EXCEPT ![w] = IdleMaintainer]
  BY DEF CommitMaintenance
<1>2. RowsAdvance /\ account' \in [ProviderAccounts ->
                       {"NONE", "ACTIVE", "DISCONNECTED", "REAUTHORISATION_REQUIRED"}]
  BY MaintenanceAdvancesRows
<1>3. CredentialsSound'
  BY <1>2, AdvancingRowsAreSound DEF ConnectionSound
<1>4. \A k \in Callbacks : CallbackPlaced(k)'
  BY <1>1, <1>2, CallbacksStand DEF RowsAdvance
<1>5. maintainer' \in [Maintainers -> MaintainerRows] /\ \A v \in Maintainers : MaintainerPlaced(v)'
  BY <1>1, <1>2, MaintainerEnds
<1>6. maintenance' \in [(1..MaxTokens) \X DOMAIN TimePoints -> HandlerRows]
  <2> DEFINE k == maintainer[w].job
  <2>1. [maintenance EXCEPT ![k] = Complete(maintenance[k])]
          \in [(1..MaxTokens) \X DOMAIN TimePoints -> HandlerRows]
    <3>1. k \in (1..MaxTokens) \X DOMAIN TimePoints => Complete(maintenance[k]) \in HandlerRows
      BY MaintenanceRow, JobStepsKeepRows DEF ConnectionSound
    <3> HIDE DEF k
    <3>2. QED
      BY <3>1, MaintenanceJobWritten DEF ConnectionSound
  <2>2. QED
    BY <2>1 DEF CommitMaintenance, ConnectionSound, ConnectionTyped
<1>7. QED
  BY <1>1, <1>2, <1>3, <1>4, <1>5, <1>6 DEF ConnectionSound, ConnectionTyped, RowsAdvance

-----------------------------------------------------------------------------
(* The theorems of the connection.                                         *)

LEMMA ConnectionSoundAtFirst == ConnectionInit => ConnectionSound
<1>1. SUFFICES ASSUME ConnectionInit PROVE ConnectionSound
  OBVIOUS
<1>2. /\ AbsentJob \in HandlerRows /\ IdleCallback \in CallbackRows
      /\ IdleMaintainer \in MaintainerRows
  BY DEF AbsentJob, HandlerRows, IdleCallback, CallbackRows, IdleMaintainer, MaintainerRows
<1>3. 1 \in DOMAIN TimePoints
  BY ConnectionAssumption
<1>4. credentials \in Seq(CredentialRows) /\ DOMAIN credentials = {}
  BY <1>1 DEF ConnectionInit
<1>5. ConnectionTyped
  BY <1>1, <1>2, <1>3, <1>4 DEF ConnectionInit, ConnectionTyped, Cookies
<1>6. CredentialsSound
  BY <1>1, <1>4 DEF ConnectionInit, CredentialsSound, OneActiveEach, ConnectedHaveOne
<1>7. \A c \in Callbacks : CallbackPlaced(c)
  BY <1>1 DEF ConnectionInit, CallbackPlaced, IdleCallback
<1>8. \A w \in Maintainers : MaintainerPlaced(w)
  BY <1>1 DEF ConnectionInit, MaintainerPlaced, IdleMaintainer
<1>9. QED
  BY <1>5, <1>6, <1>7, <1>8 DEF ConnectionSound

LEMMA ConnectionSoundInductive ==
  ConnectionSound /\ [ConnectionNext]_connectionVars => ConnectionSound'
<1>1. SUFFICES ASSUME ConnectionSound, [ConnectionNext]_connectionVars PROVE ConnectionSound'
  OBVIOUS
<1>2. ASSUME NEW u \in Admins, NEW p \in ProviderAccounts \cup {Null}, StartConnection(u, p)
      PROVE  ConnectionSound'
  BY <1>1, <1>2, StartConnectionKeepsSound
<1>3. ASSUME NEW c \in Callbacks, CommitConnection(c) PROVE ConnectionSound'
  BY <1>1, <1>3, CommitConnectionKeepsSound
<1>4. ASSUME NEW c \in Callbacks, ExchangeRefused(c) \/ EnqueueBootstrap(c) \/ CallbackFails(c)
      PROVE  ConnectionSound'
  BY <1>1, <1>4, CallbackEndKeepsSound
<1>5. ASSUME NEW c \in Callbacks, NEW u \in Admins, NEW s \in 1..states, BeginCallback(c, u, s)
      PROVE  ConnectionSound'
  BY <1>1, <1>5, BeginCallbackKeepsSound
<1>6. ASSUME NEW c \in Callbacks, NEW p \in ProviderAccounts, NEW reported, NEW listed,
             ExchangeCode(c, p, reported, listed)
      PROVE  ConnectionSound'
  BY <1>1, <1>6, ExchangeKeepsSound
<1>7. CASE (\E p \in ProviderAccounts : Revoke(p) \/ WithdrawPermission(p))
             \/ PurgeNothing \/ TimePasses \/ UNCHANGED connectionVars
  BY <1>1, <1>7, WorldKeepsConnectionSound
<1>8. CASE CommitDisconnect
  BY <1>1, <1>8, DisconnectKeepsSound
<1>9. CASE \/ \E c \in DOMAIN credentials : ScheduleMaintenance(c)
           \/ \E w \in Maintainers, k \in DOMAIN maintenance : AdoptValidation(w, k)
  BY <1>1, <1>9, MaintenanceJobsKeepSound
<1>10. ASSUME NEW w \in Maintainers, ProbeFails(w) \/ LoseMaintenance(w) PROVE ConnectionSound'
  BY <1>1, <1>10, MaintainerLeavesKeepSound
<1>11. ASSUME NEW w \in Maintainers, ProbeProvider(w) PROVE ConnectionSound'
  BY <1>1, <1>11, ProbeKeepsSound
<1>12. ASSUME NEW w \in Maintainers, CommitMaintenance(w) PROVE ConnectionSound'
  BY <1>1, <1>12, CommitMaintenanceKeepsSound
<1>13. ASSUME NEW w \in Maintainers, NEW k \in DOMAIN maintenance, LoadCredential(w, k)
       PROVE  ConnectionSound'
  BY <1>1, <1>13, LoadKeepsSound
<1>14. ASSUME NEW k \in DOMAIN maintenance, RecoverMaintenance(k) PROVE ConnectionSound'
  BY <1>1, <1>14, RecoverMaintenanceKeepsSound
<1>15. QED
  BY <1>1, <1>2, <1>3, <1>4, <1>5, <1>6, <1>7, <1>8, <1>9, <1>10, <1>11, <1>12, <1>13, <1>14
     DEF ConnectionNext

LEMMA ConnectionSoundAlways == ConnectionSpec => []ConnectionSound
  BY ConnectionSoundAtFirst, ConnectionSoundInductive, PTL DEF ConnectionSpec

\* "A reconnect never leaves two usable tokens": whatever connections,
\* disconnections and maintenance commits overlapped, an account has at most one
\* active credential, one that is connected has it, and exactly the active
\* credentials still hold a token.
THEOREM AccountsHaveOneToken == ConnectionSpec => []OneUsableToken
<1>1. ConnectionSound => OneUsableToken
  <2>1. SUFFICES ASSUME ConnectionSound, NEW p \in ProviderAccounts
                 PROVE  /\ Cardinality(ActiveCredentials(p)) <= 1
                        /\ account[p] = "ACTIVE" => HasActive(p)
                        /\ \A c \in DOMAIN credentials :
                             (credentials[c].token # 0) <=> credentials[c].status = "ACTIVE"
    BY DEF OneUsableToken
  <2>2. \A c, d \in ActiveCredentials(p) : c = d
    BY <2>1 DEF ActiveCredentials, ConnectionSound, CredentialsSound, OneActiveEach
  <2>3. Cardinality(ActiveCredentials(p)) <= 1
    <3>1. CASE ActiveCredentials(p) = {}
      BY <3>1, FS_EmptySet
    <3>2. CASE ActiveCredentials(p) # {}
      <4>1. PICK c : ActiveCredentials(p) = {c}
        BY <2>2, <3>2
      <4>2. QED
        BY <4>1, FS_Singleton
    <3>3. QED
      BY <3>1, <3>2
  <2>4. QED
    BY <2>1, <2>3 DEF ConnectionSound, CredentialsSound, CredentialSound, ConnectedHaveOne
<1>2. QED
  BY <1>1, ConnectionSoundAlways, PTL


\* Of two refreshes that overlap, the stored token is never replaced by the one
\* the provider issued first: only a connection, a disconnection and the commit
\* of a maintenance write credential rows, and each keeps, empties or advances
\* what it overwrites.
THEOREM TokensNeverGoBack == ConnectionSpec => TokensAdvance
<1> DEFINE Advances == \A c \in DOMAIN credentials :
              credentials'[c].token # 0 => credentials'[c].token >= credentials[c].token
<1>1. ConnectionSound /\ [ConnectionNext]_connectionVars => [Advances]_connectionVars
  <2>1. SUFFICES ASSUME ConnectionSound, ConnectionNext PROVE Advances
    OBVIOUS
  <2>2. \A c \in DOMAIN credentials : credentials[c].token \in Nat
    BY <2>1, RowsStayTyped DEF ConnectionSound
  <2>3. CASE UNCHANGED credentials
    BY <2>2, <2>3
  <2>4. CASE RowsAdvance
    BY <2>2, <2>4 DEF RowsAdvance, RowAdvances
  <2>5. ASSUME NEW k \in Callbacks, CommitConnection(k) PROVE Advances
    <3> DEFINE p == callback[k].account
    <3>1. PICK row : credentials' = Append(RevokedOrKept(p), row)
      BY <2>5 DEF CommitConnection, Activate, RevokedOrKept
    <3>2. /\ RevokedOrKept(p) \in Seq(CredentialRows)
          /\ DOMAIN RevokedOrKept(p) = DOMAIN credentials
          /\ \A c \in DOMAIN credentials :
               RevokedOrKept(p)[c] = credentials[c] \/ RevokedOrKept(p)[c].token = 0
      BY <2>1, RevokedRows DEF ConnectionSound
    <3> HIDE DEF p
    <3>3. \A c \in DOMAIN credentials : credentials'[c] = RevokedOrKept(p)[c]
      BY <3>1, <3>2
    <3>4. QED
      BY <2>2, <3>2, <3>3
  <2>6. CASE CommitDisconnect
    BY <2>1, <2>4, <2>6, DisconnectAdvancesRows
  <2>7. ASSUME NEW w \in Maintainers, CommitMaintenance(w) PROVE Advances
    BY <2>1, <2>4, <2>7, MaintenanceAdvancesRows
  <2> HIDE DEF Advances
  <2>8. QED
    BY <2>1, <2>3, <2>5, <2>6, <2>7
       DEF ConnectionNext, StartConnection, BeginCallback, ExchangeCode, ExchangeRefused,
           EnqueueBootstrap, CallbackFails, Revoke, WithdrawPermission, PurgeNothing,
           ScheduleMaintenance, ProbeProvider, ProbeFails, LoseMaintenance, LoadCredential,
           AdoptValidation, RecoverMaintenance, TimePasses
<1>2. QED
  BY <1>1, ConnectionSoundAlways, PTL DEF ConnectionSpec, TokensAdvance


-----------------------------------------------------------------------------
(* InstagramSync.  An attempt pages with a cursor that other attempts of   *)
(* its run may move, and writes pages it read before.  So the invariant    *)
(* says of a run, and of every attempt for itself, that what its cursor    *)
(* has passed is stored; and of a page between its fetch and its commit,   *)
(* that it misses nothing the run promised.                                *)

SyncRunRows ==
  [state : {"NONE", "RUNNING", "FAILED", "SUCCEEDED"}, cursor : Nat, horizon : Nat,
   known : SUBSET Nat]

FailureClasses ==
  {"NONE", "UNKNOWN", "CREDENTIAL", "TRANSIENT"}
  \cup {ToJobFailure(class) : class \in MediaPageRefusals}

SlotRows ==
  [pc : {"idle", "load", "open", "resume", "fetch", "persist", "failRun", "settle", "commit"},
   key : SyncKeys, attempt : Nat, saw : {"NONE", "RUNNING", "FAILED", "SUCCEEDED"},
   horizon : Nat, after : Nat, page : SUBSET Nat, visited : Nat,
   class : FailureClasses]

SyncTyped ==
  /\ day \in Nat \ {0} /\ published \subseteq 1..day
  /\ syncJob \in [SyncKeys -> HandlerRows]
  /\ syncRun \in [SyncKeys -> SyncRunRows]
  /\ slot \in [Slots -> SlotRows]

RunSound(k) ==
  /\ syncRun[k].state = "NONE" => syncRun[k].known = {}
  /\ syncRun[k].known \subseteq published
  /\ \A m \in Promised(k) :
       /\ syncRun[k].state = "SUCCEEDED" => m \in posts
       /\ syncRun[k].cursor # 0 /\ m >= syncRun[k].cursor => m \in posts

\* An attempt that pages through a run has a run, its horizon, and a page that
\* holds what follows its cursor, down to the oldest medium of the page.
SlotSound(s) ==
  LET me == slot[s]
      run == syncRun[me.key]
  IN /\ \/ me.pc \in {"resume", "fetch", "persist", "commit"}
        \/ me.pc = "open" /\ me.saw \in {"RUNNING", "SUCCEEDED"}
        => run.state # "NONE"
     /\ me.pc \in {"fetch", "persist"} =>
          /\ me.horizon = run.horizon
          /\ \A m \in Promised(me.key) : me.after # 0 /\ m >= me.after => m \in posts
     /\ me.pc = "persist" =>
          /\ me.page \subseteq published
          /\ \A m \in run.known :
               (me.after = 0 \/ m < me.after) =>
                 m \in me.page \/ (me.page # {} /\ \A o \in me.page : m < o)
     /\ me.pc = "commit" => Promised(me.key) \subseteq posts

RunsFollowTheEdge ==
  /\ SyncTyped
  /\ \A k \in SyncKeys : RunSound(k)
  /\ \A s \in Slots : SlotSound(s)

\* The attempts of a job none of whose leases expired: at most one, which holds
\* the lease, and which has opened the run of the job if that is running.  Once
\* the job is cancelled, an attempt may be left that has not opened a run.
Importing(s, k) == slot[s].pc # "idle" /\ slot[s].key = k

LeaseNeverLost(k) ==
  /\ ~syncJob[k].expired /\ syncJob[k].state # "CANCELLED" =>
       /\ \A s \in Slots : Importing(s, k) => HoldsLease(syncJob[k], slot[s].attempt)
       /\ \A s, t \in Slots : Importing(s, k) /\ Importing(t, k) => s = t
       /\ syncRun[k].state = "RUNNING" =>
            /\ syncJob[k].state = "PROCESSING" /\ ~syncJob[k].cancel
            /\ \A s \in Slots : Importing(s, k) => slot[s].pc \notin {"load", "open", "settle"}
       /\ syncJob[k].state = "PROCESSING" /\ syncJob[k].cancel =>
            \A s \in Slots : Importing(s, k) => slot[s].pc = "load"
  /\ ~syncJob[k].expired /\ syncJob[k].state = "CANCELLED" =>
       /\ \A s \in Slots : Importing(s, k) => slot[s].pc \in {"load", "settle"}
       /\ syncRun[k].state # "RUNNING"

LeasesSound == SyncTyped /\ \A k \in SyncKeys : LeaseNeverLost(k)


LEMMA LeastExists ==
  ASSUME NEW S, S \subseteq Nat, S # {}
  PROVE  \E x \in S : \A y \in S : x <= y
<1>1. PICK x \in S : \A y \in S : ~(<<y, x>> \in OpToRel(<, Nat))
  BY NatLessThanWellFounded, WFMin
<1>2. \A y \in S : ~(y < x)
  BY <1>1 DEF OpToRel
<1>3. QED
  BY <1>2

LEMMA GreatestExists ==
  ASSUME NEW n \in Nat, NEW S, S \subseteq 0..n, S # {}
  PROVE  \E x \in S : \A y \in S : y <= x
<1> DEFINE T == {k \in 0..n : n - k \in S}
<1>1. T \subseteq Nat /\ T # {}
  <2>1. PICK y \in S : TRUE
    OBVIOUS
  <2>2. n - y \in T
    BY <2>1
  <2>3. T \subseteq Nat
    OBVIOUS
  <2> HIDE DEF T
  <2>4. QED
    BY <2>2, <2>3
<1>2. PICK x \in T : \A y \in T : x <= y
  BY <1>1, LeastExists
<1>3. \A y \in S : n - y \in T
  OBVIOUS
<1>4. QED
  BY <1>2, <1>3

LEMMA OldestOfPage ==
  ASSUME NEW page \in SUBSET Nat, page # {}
  PROVE  Min(page) \in page /\ \A o \in page : Min(page) <= o
  BY LeastExists DEF Min

\* A page holds the newest of what is beyond its cursor: what it leaves out is
\* older than all of it.
LEMMA PageHoldsTheNewest ==
  ASSUME SyncTyped, NEW after, NEW m \in Beyond(after), m \notin MediaPage(after)
  PROVE  MediaPage(after) # {} /\ \A o \in MediaPage(after) : m < o
<1> DEFINE Newer(o) == {n \in Beyond(after) : n > o}
<1>1. Beyond(after) \subseteq 1..day /\ day \in Nat
  BY DEF SyncTyped, Beyond
<1>2. IsFiniteSet(Beyond(after))
  BY <1>1, FS_Interval, FS_Subset
<1>3. \A o : IsFiniteSet(Newer(o)) /\ Cardinality(Newer(o)) \in Nat
  BY <1>2, FS_Subset, FS_CardinalityType
<1>4. \A o \in Beyond(after) : o \in MediaPage(after) <=> Cardinality(Newer(o)) < PageSize
  BY DEF MediaPage
<1>5. MediaPage(after) \subseteq Beyond(after)
  BY DEF MediaPage
<1>6. ASSUME NEW o \in MediaPage(after), o <= m PROVE FALSE
  <2>1. Newer(m) \subseteq Newer(o)
    BY <1>1, <1>5, <1>6
  <2>2. Cardinality(Newer(m)) <= Cardinality(Newer(o))
    BY <1>3, <2>1, FS_Subset
  <2> HIDE DEF Newer
  <2>3. QED
    BY <1>3, <1>4, <1>5, <1>6, <2>2, SyncAssumption
<1>7. MediaPage(after) # {}
  <2>1. PICK o \in Beyond(after) : \A n \in Beyond(after) : n <= o
    BY <1>1, GreatestExists
  <2>2. Newer(o) = {}
    BY <1>1, <2>1
  <2>3. Cardinality(Newer(o)) = 0
    BY <2>2, FS_EmptySet
  <2> HIDE DEF Newer
  <2>4. QED
    BY <1>4, <2>3, SyncAssumption
<1>8. QED
  BY <1>1, <1>5, <1>6, <1>7

LEMMA StoppedRow ==
  ASSUME NEW me \in SlotRows, NEW pc \in {"settle", "failRun", "commit"},
         NEW class \in FailureClasses
  PROVE  /\ Stopped(me, pc, class) \in SlotRows /\ Stopped(me, pc, class).pc = pc
         /\ Stopped(me, pc, class).key = me.key /\ Stopped(me, pc, class).attempt = me.attempt
  BY DEF SlotRows, Stopped, IdleSlot, SyncKeys, FailureClasses

LEMMA IdleSlotRow == IdleSlot \in SlotRows /\ IdleSlot.pc = "idle"
  BY DEF IdleSlot, SlotRows, SyncKeys, FailureClasses


\* What an attempt may do to its slot in one step: leave, or go on in order.
GoesOn(s, me) ==
  /\ slot[s].pc # "idle"
  /\ me.pc # "idle" =>
       /\ me.key = slot[s].key /\ me.attempt = slot[s].attempt
       /\ me.pc # "load"
       /\ me.pc = "open" => slot[s].pc = "load"
       /\ slot[s].pc = "load" => me.pc \in {"open", "settle"}
       /\ slot[s].pc = "open" => me.pc \in {"resume", "settle"}
       /\ me.pc = "settle" => slot[s].pc \in {"load", "open", "failRun"}

LEMMA StoppingGoesOn ==
  ASSUME SyncTyped, NEW s \in Slots, NEW pc \in {"settle", "failRun", "commit"},
         NEW class \in FailureClasses, slot' = [slot EXCEPT ![s] = Stopped(slot[s], pc, class)],
         slot[s].pc # "idle", slot[s].pc \in {"load", "open"} => pc = "settle",
         pc = "settle" => slot[s].pc \in {"load", "open", "failRun"}
  PROVE  \E me \in SlotRows : slot' = [slot EXCEPT ![s] = me] /\ GoesOn(s, me)
<1> DEFINE me == Stopped(slot[s], pc, class)
<1>1. slot[s] \in SlotRows
  BY DEF SyncTyped
<1>2. me \in SlotRows /\ me.pc = pc /\ me.key = slot[s].key /\ me.attempt = slot[s].attempt
  BY <1>1, StoppedRow
<1>3. slot' = [slot EXCEPT ![s] = me]
  OBVIOUS
<1> HIDE DEF me
<1>4. QED
  BY <1>2, <1>3 DEF GoesOn

LEMMA AttemptsGoOn ==
  ASSUME SyncTyped, NEW s \in Slots, ImportStep(s) \/ CrashSlot(s)
  PROVE  /\ \E me \in SlotRows : slot' = [slot EXCEPT ![s] = me] /\ GoesOn(s, me)
         /\ UNCHANGED <<day, published, connected>>
<1>1. /\ slot[s] \in SlotRows /\ slot[s].key \in SyncKeys /\ slot[s].attempt \in Nat
      /\ slot[s].visited \in Nat /\ slot[s].after \in Nat /\ day \in Nat
      /\ published \subseteq Nat /\ syncRun[slot[s].key] \in SyncRunRows
  BY DEF SyncTyped, SlotRows
<1>2. CASE StopsForCancellation(s) \/ SettleSync(s) \/ CompleteRun(s) \/ CrashSlot(s)
  <2>1. slot' = [slot EXCEPT ![s] = IdleSlot] /\ slot[s].pc # "idle"
    BY <1>2 DEF StopsForCancellation, SettleSync, CompleteRun, CrashSlot
  <2>2. UNCHANGED <<day, published, connected>>
    BY <1>2 DEF StopsForCancellation, SettleSync, CompleteRun, CrashSlot
  <2>3. QED
    BY <2>1, <2>2, IdleSlotRow DEF GoesOn
<1>3. CASE StopsForLease(s)
  <2>1. PICK pc \in {"settle", "failRun"} :
          /\ slot' = [slot EXCEPT ![s] = Stopped(slot[s], pc, "UNKNOWN")]
          /\ slot[s].pc = "load" <=> pc = "settle"
          /\ slot[s].pc \in {"load", "fetch", "persist"}
    BY <1>3 DEF StopsForLease
  <2>2. "UNKNOWN" \in FailureClasses
    BY DEF FailureClasses
  <2>3. QED
    BY <1>3, <2>1, <2>2, StoppingGoesOn DEF StopsForLease
<1>4. CASE LoadAccount(s)
  <2>1. CASE ~connected
    <3>1. slot' = [slot EXCEPT ![s] = Stopped(slot[s], "settle", "CREDENTIAL")]
          /\ slot[s].pc = "load"
      BY <1>4, <2>1 DEF LoadAccount
    <3>2. "CREDENTIAL" \in FailureClasses
      BY DEF FailureClasses
    <3>3. QED
      BY <1>4, <3>1, <3>2, StoppingGoesOn DEF LoadAccount
  <2>2. CASE connected
    <3>1. PICK horizon \in Nat :
            slot' = [slot EXCEPT ![s] = [slot[s] EXCEPT !.pc = "open", !.saw = Run(s).state,
                                                        !.horizon = horizon]]
      <4> DEFINE back == IF lastSync = 0 THEN BootstrapDays ELSE OverlapDays
      <4>1. (IF day > back THEN day - back ELSE 0) \in Nat
        BY <1>1, SyncAssumption
      <4>2. QED
        BY <1>4, <2>2, <4>1 DEF LoadAccount
    <3>2. Run(s).state \in {"NONE", "RUNNING", "FAILED", "SUCCEEDED"}
      BY <1>1 DEF Run, SyncRunRows
    <3> DEFINE me == [slot[s] EXCEPT !.pc = "open", !.saw = Run(s).state, !.horizon = horizon]
    <3>3. me \in SlotRows /\ me.pc = "open" /\ me.key = slot[s].key
          /\ me.attempt = slot[s].attempt
      BY <1>1, <3>2 DEF SlotRows
    <3>4. slot[s].pc = "load" /\ UNCHANGED <<day, published, connected>>
      BY <1>4 DEF LoadAccount
    <3>5. slot' = [slot EXCEPT ![s] = me]
      BY <3>1
    <3> HIDE DEF me
    <3>6. QED
      BY <3>3, <3>4, <3>5 DEF GoesOn
  <2>3. QED
    BY <2>1, <2>2
<1>5. CASE ReadAccessTokenFails(s)
  <2>1. PICK class \in {"CREDENTIAL", "UNKNOWN"} :
          slot' = [slot EXCEPT ![s] = Stopped(slot[s], "settle", class)]
    BY <1>5 DEF ReadAccessTokenFails
  <2>2. class \in FailureClasses
    BY DEF FailureClasses
  <2>3. slot[s].pc = "load" /\ UNCHANGED <<day, published, connected>>
    BY <1>5 DEF ReadAccessTokenFails
  <2>4. QED
    BY <2>1, <2>2, <2>3, StoppingGoesOn
<1>6. CASE OpenRun(s)
  <2>1. slot[s].pc = "open" /\ UNCHANGED <<day, published, connected>>
    BY <1>6 DEF OpenRun
  <2>2. CASE slot' = [slot EXCEPT ![s] = Stopped(slot[s], "settle", "UNKNOWN")]
    <3>1. "UNKNOWN" \in FailureClasses
      BY DEF FailureClasses
    <3>2. QED
      BY <2>1, <2>2, <3>1, StoppingGoesOn
  <2>3. CASE slot' = [slot EXCEPT ![s].pc = "resume", ![s].saw = "NONE", ![s].horizon = 0]
    <3> DEFINE me == [slot[s] EXCEPT !.pc = "resume", !.saw = "NONE", !.horizon = 0]
    <3>1. me \in SlotRows /\ me.pc = "resume" /\ me.key = slot[s].key
          /\ me.attempt = slot[s].attempt
      BY <1>1 DEF SlotRows
    <3>2. slot' = [slot EXCEPT ![s] = me]
      BY <2>3 DEF SyncTyped
    <3> HIDE DEF me
    <3>3. QED
      BY <2>1, <3>1, <3>2 DEF GoesOn
  <2>4. QED
    BY <1>6, <2>2, <2>3 DEF OpenRun
<1>7. CASE ReadCursor(s)
  <2> DEFINE me == [slot[s] EXCEPT !.pc = "fetch", !.after = Run(s).cursor,
                                   !.horizon = Run(s).horizon]
  <2>1. Run(s).cursor \in Nat /\ Run(s).horizon \in Nat
    BY <1>1 DEF Run, SyncRunRows
  <2>2. me \in SlotRows /\ me.pc = "fetch" /\ me.key = slot[s].key /\ me.attempt = slot[s].attempt
    BY <1>1, <2>1 DEF SlotRows
  <2>3. slot' = [slot EXCEPT ![s] = me] /\ slot[s].pc = "resume"
        /\ UNCHANGED <<day, published, connected>>
    BY <1>7 DEF ReadCursor
  <2> HIDE DEF me
  <2>4. QED
    BY <2>2, <2>3 DEF GoesOn
<1>8. CASE FetchPage(s)
  <2> DEFINE me == [slot[s] EXCEPT !.pc = "persist", !.page = MediaPage(slot[s].after)]
  <2>1. MediaPage(slot[s].after) \in SUBSET Nat
    BY <1>1 DEF MediaPage, Beyond
  <2>2. me \in SlotRows /\ me.pc = "persist" /\ me.key = slot[s].key
        /\ me.attempt = slot[s].attempt
    BY <1>1, <2>1 DEF SlotRows
  <2>3. slot' = [slot EXCEPT ![s] = me] /\ slot[s].pc = "fetch"
        /\ UNCHANGED <<day, published, connected>>
    BY <1>8 DEF FetchPage
  <2> HIDE DEF me
  <2>4. QED
    BY <2>2, <2>3 DEF GoesOn
<1>9. CASE FetchFails(s)
  <2>1. PICK class \in FailureClasses :
          slot' = [slot EXCEPT ![s] = Stopped(slot[s], "failRun", class)]
    BY <1>9, Zenon DEF FetchFails, FailureClasses
  <2>2. slot[s].pc = "fetch" /\ UNCHANGED <<day, published, connected>>
    BY <1>9 DEF FetchFails
  <2>3. QED
    BY <2>1, <2>2, StoppingGoesOn
<1>10. CASE PersistPage(s)
  <2>1. slot[s].pc = "persist" /\ UNCHANGED <<day, published, connected>>
    BY <1>10 DEF PersistPage
  <2>2. ASSUME NEW pc \in {"commit", "failRun"}, NEW class \in {"NONE", "TRANSIENT", "UNKNOWN"},
               slot' = [slot EXCEPT ![s] = Stopped(slot[s], pc, class)]
        PROVE  \E me \in SlotRows : slot' = [slot EXCEPT ![s] = me] /\ GoesOn(s, me)
    <3>1. class \in FailureClasses
      BY DEF FailureClasses
    <3>2. QED
      BY <2>1, <2>2, <3>1, StoppingGoesOn
  <2>3. CASE slot' = [slot EXCEPT ![s] =
                        [slot[s] EXCEPT !.pc = "fetch", !.after = CursorAfter(s), !.page = {},
                                        !.visited = slot[s].visited + 1]]
    <3>1. CursorAfter(s) \in Nat /\ slot[s].visited + 1 \in Nat
      <4>1. slot[s].page \in SUBSET Nat
        BY <1>1 DEF SlotRows
      <4>2. QED
        BY <1>1, <4>1, OldestOfPage DEF CursorAfter
    <3>2. PICK after \in Nat, v \in Nat : after = CursorAfter(s) /\ v = slot[s].visited + 1
      BY <3>1
    <3> DEFINE me == [slot[s] EXCEPT !.pc = "fetch", !.after = after, !.page = {}, !.visited = v]
    <3>3. me \in SlotRows /\ me.pc = "fetch" /\ me.key = slot[s].key
          /\ me.attempt = slot[s].attempt
      BY <1>1 DEF SlotRows
    <3>4. slot' = [slot EXCEPT ![s] = me]
      BY <2>3, <3>2
    <3> HIDE DEF me
    <3>5. QED
      BY <2>1, <3>3, <3>4 DEF GoesOn
  <2>4. QED
    BY <1>10, <2>1, <2>2, <2>3 DEF PersistPage
<1>11. CASE FailRun(s)
  <2> DEFINE me == [slot[s] EXCEPT !.pc = "settle"]
  <2>1. me \in SlotRows /\ me.pc = "settle" /\ me.key = slot[s].key /\ me.attempt = slot[s].attempt
    BY <1>1 DEF SlotRows
  <2>2. slot' = [slot EXCEPT ![s] = me] /\ slot[s].pc = "failRun"
        /\ UNCHANGED <<day, published, connected>>
    BY <1>11 DEF FailRun
  <2> HIDE DEF me
  <2>3. QED
    BY <2>1, <2>2 DEF GoesOn
<1>12. QED
  BY <1>2, <1>3, <1>4, <1>5, <1>6, <1>7, <1>8, <1>9, <1>10, <1>11 DEF ImportStep


\* Who asks, the clock, the operators and the expiry of leases write one job.
LEMMA SyncJobWritten ==
  ASSUME SyncTyped, NEW k, NEW row, k \in SyncKeys => row \in HandlerRows
  PROVE  [syncJob EXCEPT ![k] = row] \in [SyncKeys -> HandlerRows]
  BY OneRowWritten DEF SyncTyped

LEMMA SyncRunWritten ==
  ASSUME SyncTyped, NEW k \in SyncKeys, NEW row \in SyncRunRows
  PROVE  [syncRun EXCEPT ![k] = row] \in [SyncKeys -> SyncRunRows]
  BY OneRowWritten DEF SyncTyped

LEMMA ImportStepsKeepRows ==
  ASSUME SyncTyped, NEW s \in Slots, ImportStep(s) \/ CrashSlot(s)
  PROVE  syncJob' \in [SyncKeys -> HandlerRows] /\ syncRun' \in [SyncKeys -> SyncRunRows]
<1> DEFINE k == slot[s].key
<1>1. /\ slot[s] \in SlotRows /\ k \in SyncKeys /\ syncJob[k] \in HandlerRows
      /\ syncRun[k] \in SyncRunRows /\ published \in SUBSET Nat /\ slot[s].horizon \in Nat
      /\ slot[s].after \in Nat /\ slot[s].page \in SUBSET Nat
  BY DEF SyncTyped, SlotRows
<1>2. syncJob' \in [SyncKeys -> HandlerRows]
  <2>1. \A row \in HandlerRows : [syncJob EXCEPT ![k] = row] \in [SyncKeys -> HandlerRows]
    BY SyncJobWritten
  <2>2. /\ CancelJob(syncJob[k]) \in HandlerRows /\ Complete(syncJob[k]) \in HandlerRows
        /\ \A n, class : SettleFailure(syncJob[k], n, class) \in HandlerRows
    BY <1>1, JobStepsKeepRows
  <2>3. syncJob \in [SyncKeys -> HandlerRows]
    BY DEF SyncTyped
  <2>4. CASE StopsForCancellation(s) \/ SettleSync(s) \/ CompleteRun(s)
    <3>1. syncJob' \in {syncJob, [syncJob EXCEPT ![k] = CancelJob(syncJob[k])],
                        [syncJob EXCEPT ![k] = Complete(syncJob[k])]}
          \/ syncJob' = [syncJob EXCEPT ![k] =
                           SettleFailure(syncJob[k], slot[s].attempt, slot[s].class)]
      BY <2>4 DEF StopsForCancellation, SettleSync, CompleteRun
    <3> HIDE DEF k
    <3>2. QED
      BY <2>1, <2>2, <2>3, <3>1
  <2>5. QED
    BY <2>3, <2>4
       DEF ImportStep, CrashSlot, StopsForLease, LoadAccount, ReadAccessTokenFails, OpenRun,
           ReadCursor, FetchPage, FetchFails, PersistPage, FailRun
<1>3. syncRun' \in [SyncKeys -> SyncRunRows]
  <2>1. \A row \in SyncRunRows : [syncRun EXCEPT ![k] = row] \in [SyncKeys -> SyncRunRows]
    BY <1>1, SyncRunWritten
  <2>2. syncRun \in [SyncKeys -> SyncRunRows]
    BY DEF SyncTyped
  <2>3. \A v \in {"NONE", "RUNNING", "FAILED", "SUCCEEDED"} :
          [syncRun[k] EXCEPT !.state = v] \in SyncRunRows
    BY <1>1 DEF SyncRunRows
  <2>4. \A n \in Nat : [syncRun[k] EXCEPT !.cursor = n] \in SyncRunRows
    BY <1>1 DEF SyncRunRows
  <2>5. CursorAfter(s) \in Nat
    BY <1>1, OldestOfPage DEF CursorAfter
  <2>6. [state |-> "RUNNING", cursor |-> 0, horizon |-> slot[s].horizon, known |-> published]
          \in SyncRunRows
    BY <1>1 DEF SyncRunRows
  <2>7. CASE OpenRun(s)
    <3>1. syncRun' \in {syncRun, [syncRun EXCEPT ![k] = [syncRun[k] EXCEPT !.state = "RUNNING"]],
                        [syncRun EXCEPT ![k] =
                           [state |-> "RUNNING", cursor |-> 0, horizon |-> slot[s].horizon,
                            known |-> published]]}
      BY <1>1, <2>2, <2>7 DEF OpenRun
    <3> HIDE DEF k
    <3>2. QED
      BY <2>1, <2>2, <2>3, <2>6, <3>1
  <2>8. CASE PersistPage(s)
    <3>1. syncRun' \in {syncRun,
                        [syncRun EXCEPT ![k] = [syncRun[k] EXCEPT !.cursor = CursorAfter(s)]]}
      BY <1>1, <2>2, <2>8 DEF PersistPage, CommitPage
    <3> HIDE DEF k
    <3>2. QED
      BY <2>1, <2>2, <2>4, <2>5, <3>1
  <2>9. CASE FailRun(s) \/ CompleteRun(s)
    <3>1. syncRun' \in {syncRun, [syncRun EXCEPT ![k] = [syncRun[k] EXCEPT !.state = "FAILED"]],
                        [syncRun EXCEPT ![k] = [syncRun[k] EXCEPT !.state = "SUCCEEDED"]]}
      BY <1>1, <2>2, <2>9 DEF FailRun, CompleteRun
    <3> HIDE DEF k
    <3>2. QED
      BY <2>1, <2>2, <2>3, <3>1
  <2>10. QED
    BY <2>2, <2>7, <2>8, <2>9
       DEF ImportStep, CrashSlot, StopsForCancellation, StopsForLease, LoadAccount,
           ReadAccessTokenFails, ReadCursor, FetchPage, FetchFails, SettleSync
<1>4. QED
  BY <1>2, <1>3

LEMMA ClaimMoves ==
  ASSUME SyncTyped, NEW s \in Slots, NEW k \in SyncKeys, ClaimSync(s, k)
  PROVE  \E me \in SlotRows :
           /\ slot' = [slot EXCEPT ![s] = me]
           /\ me.pc = "load" /\ me.key = k /\ me.attempt = syncJob[k].attempt + 1
<1>1. syncJob[k].attempt + 1 \in Nat
  BY DEF SyncTyped, HandlerRows
<1>2. PICK n \in Nat : n = syncJob[k].attempt + 1
  BY <1>1
<1> DEFINE me == [IdleSlot EXCEPT !.pc = "load", !.key = k, !.attempt = n]
<1>3. me \in SlotRows /\ me.pc = "load" /\ me.key = k /\ me.attempt = n
  BY DEF SlotRows, IdleSlot, FailureClasses
<1>4. slot' = [slot EXCEPT ![s] = me]
  BY <1>2 DEF ClaimSync
<1> HIDE DEF me
<1>5. QED
  BY <1>2, <1>3, <1>4

LEMMA OutsideStepsKeepJobs ==
  ASSUME SyncTyped, NEW k \in SyncKeys,
         \/ RecoverSync(k) \/ CancelSync(k) \/ RetrySync(k)
         \/ \E s \in Slots : ClaimSync(s, k)
  PROVE  syncJob' \in [SyncKeys -> HandlerRows]
<1>1. syncJob[k] \in HandlerRows
  BY DEF SyncTyped
<1>2. \A row \in HandlerRows : [syncJob EXCEPT ![k] = row] \in [SyncKeys -> HandlerRows]
  BY SyncJobWritten
<1>3. /\ Claim(syncJob[k]) \in HandlerRows /\ CancelJob(syncJob[k]) \in HandlerRows
      /\ RecoverLease(syncJob[k]) \in HandlerRows /\ RetryByOperator(syncJob[k]) \in HandlerRows
      /\ RequestCancel(syncJob[k]) \in HandlerRows
  BY <1>1, JobStepsKeepRows
<1>4. syncJob' \in {[syncJob EXCEPT ![k] = Claim(syncJob[k])],
                    [syncJob EXCEPT ![k] = CancelJob(syncJob[k])],
                    [syncJob EXCEPT ![k] = RecoverLease(syncJob[k])],
                    [syncJob EXCEPT ![k] = RetryByOperator(syncJob[k])],
                    [syncJob EXCEPT ![k] = RequestCancel(syncJob[k])]}
  BY DEF RecoverSync, CancelSync, RetrySync, ClaimSync, SyncTyped
<1>5. QED
  BY <1>2, <1>3, <1>4

LEMMA EnqueuingKeepsJobs ==
  ASSUME SyncTyped, EnqueueDueSyncs \/ RequestInstagramSync
  PROVE  syncJob' \in [SyncKeys -> HandlerRows]
<1>1. PICK k \in {<<"SCHEDULED", day>>, <<"MANUAL", day>>} :
        syncJob' = [syncJob EXCEPT ![k] = Enqueue(syncJob[k])]
  BY DEF EnqueueDueSyncs, RequestInstagramSync
<1>2. k \in SyncKeys => Enqueue(syncJob[k]) \in HandlerRows
  BY JobStepsKeepRows DEF SyncTyped
<1>3. QED
  BY <1>1, <1>2, SyncJobWritten

LEMMA SyncStaysTyped == SyncTyped /\ [SyncNext]_syncVars => SyncTyped'
<1>1. SUFFICES ASSUME SyncTyped, [SyncNext]_syncVars PROVE SyncTyped'
  OBVIOUS
<1>2. ASSUME NEW s \in Slots, ImportStep(s) \/ CrashSlot(s) PROVE SyncTyped'
  <2>1. PICK me \in SlotRows : slot' = [slot EXCEPT ![s] = me]
    BY <1>1, <1>2, AttemptsGoOn
  <2>2. slot' \in [Slots -> SlotRows]
    BY <1>1, <2>1 DEF SyncTyped
  <2>3. QED
    BY <1>1, <1>2, <2>2, AttemptsGoOn, ImportStepsKeepRows DEF SyncTyped
<1>3. ASSUME NEW s \in Slots, NEW k \in SyncKeys, ClaimSync(s, k) PROVE SyncTyped'
  <2>1. PICK me \in SlotRows : slot' = [slot EXCEPT ![s] = me]
    BY <1>1, <1>3, ClaimMoves
  <2>2. slot' \in [Slots -> SlotRows]
    BY <1>1, <2>1 DEF SyncTyped
  <2>3. syncJob' \in [SyncKeys -> HandlerRows]
    BY <1>1, <1>3, OutsideStepsKeepJobs
  <2>4. UNCHANGED <<day, published, syncRun>>
    BY <1>3 DEF ClaimSync
  <2>5. QED
    BY <1>1, <2>2, <2>3, <2>4 DEF SyncTyped
<1>4. ASSUME NEW k \in SyncKeys, RecoverSync(k) \/ CancelSync(k) \/ RetrySync(k) PROVE SyncTyped'
  <2>1. syncJob' \in [SyncKeys -> HandlerRows]
    BY <1>1, <1>4, OutsideStepsKeepJobs
  <2>2. UNCHANGED <<day, published, syncRun, slot>>
    BY <1>4 DEF RecoverSync, CancelSync, RetrySync
  <2>3. QED
    BY <1>1, <2>1, <2>2 DEF SyncTyped
<1>5. CASE EnqueueDueSyncs \/ RequestInstagramSync
  <2>1. UNCHANGED <<day, published, syncRun, slot>>
    BY <1>5 DEF EnqueueDueSyncs, RequestInstagramSync
  <2>2. QED
    BY <1>1, <1>5, <2>1, EnqueuingKeepsJobs DEF SyncTyped
<1>6. CASE NextDay \/ Publish \/ ConnectionChanges \/ UNCHANGED syncVars
  <2>1. day' \in Nat \ {0} /\ published' \subseteq 1..day'
    <3>1. CASE Publish
      <4>1. day \in 1..day
        BY <1>1 DEF SyncTyped
      <4>2. QED
        BY <1>1, <3>1, <4>1 DEF SyncTyped, Publish
    <3>2. CASE NextDay
      BY <1>1, <3>2 DEF SyncTyped, NextDay
    <3>3. QED
      BY <1>1, <1>6, <3>1, <3>2 DEF SyncTyped, ConnectionChanges, syncVars
  <2>2. QED
    BY <1>1, <1>6, <2>1 DEF SyncTyped, NextDay, Publish, ConnectionChanges, syncVars
<1>7. QED
  BY <1>1, <1>2, <1>3, <1>4, <1>5, <1>6 DEF SyncNext


\* The other jobs and their attempts are where they were.
LEMMA OtherLeasesStand ==
  ASSUME LeasesSound, NEW k \in SyncKeys,
         syncJob'[k] = syncJob[k], syncRun'[k].state = syncRun[k].state,
         \A t \in Slots :
           (slot'[t].pc # "idle" /\ slot'[t].key = k) => slot'[t] = slot[t]
  PROVE  LeaseNeverLost(k)'
<1>1. LeaseNeverLost(k)
  BY DEF LeasesSound
<1>2. \A t \in Slots : Importing(t, k)' => Importing(t, k) /\ slot'[t] = slot[t]
  BY DEF Importing
<1>3. QED
  BY <1>1, <1>2 DEF LeaseNeverLost

\* At most one attempt is left, and it is where the lease and the run allow.
LEMMA OneAttemptKeepsLease ==
  ASSUME NEW k \in SyncKeys, NEW s \in Slots,
         \A t \in Slots : Importing(t, k)' => t = s,
         Importing(s, k)' => /\ HoldsLease(syncJob'[k], slot'[s].attempt)
                             /\ slot'[s].pc = "load" \/ ~syncJob'[k].cancel,
         syncRun'[k].state = "RUNNING" =>
           /\ syncJob'[k].state = "PROCESSING" /\ ~syncJob'[k].cancel
           /\ Importing(s, k)' => slot'[s].pc \notin {"load", "open", "settle"}
  PROVE  LeaseNeverLost(k)'
  BY DEF LeaseNeverLost, HoldsLease

\* An attempt of a cancelled job that has not opened a run only stops.
LEMMA CancelledAttemptsStop ==
  ASSUME LeasesSound, NEW s \in Slots, ImportStep(s) \/ CrashSlot(s),
         NEW k \in SyncKeys, k = slot[s].key,
         ~syncJob[k].expired, syncJob[k].state = "CANCELLED"
  PROVE  LeaseNeverLost(k)'
<1>1. PICK me \in SlotRows : slot' = [slot EXCEPT ![s] = me] /\ GoesOn(s, me)
  BY AttemptsGoOn DEF LeasesSound
<1>2. /\ slot'[s] = me /\ \A t \in Slots : t # s => slot'[t] = slot[t]
      /\ syncJob \in [SyncKeys -> HandlerRows]
  BY <1>1 DEF LeasesSound, SyncTyped
<1>3. /\ \A t \in Slots : Importing(t, k) => slot[t].pc \in {"load", "settle"}
      /\ syncRun[k].state # "RUNNING" /\ slot[s].pc \in {"load", "settle"}
  BY <1>1, <1>2 DEF LeasesSound, LeaseNeverLost, Importing, GoesOn
<1>4. ~HoldsLease(syncJob[k], slot[s].attempt) /\ ~MayContinue(syncJob[k], slot[s].attempt)
  BY DEF HoldsLease, MayContinue
<1>5. StopsForLease(s) \/ SettleSync(s) \/ CrashSlot(s)
  BY <1>3, <1>4
     DEF ImportStep, StopsForCancellation, LoadAccount, ReadAccessTokenFails, OpenRun,
         ReadCursor, FetchPage, FetchFails, PersistPage, FailRun, CompleteRun, Row
<1>6. UNCHANGED <<syncRun, syncJob>>
  BY <1>2, <1>4, <1>5 DEF StopsForLease, SettleSync, CrashSlot, SettleFailure
<1>7. me.pc \in {"idle", "settle"}
  <2>1. Stopped(slot[s], "settle", "UNKNOWN").pc = "settle" /\ IdleSlot.pc = "idle"
    BY DEF Stopped, IdleSlot
  <2>2. \/ slot' = [slot EXCEPT ![s] = Stopped(slot[s], "settle", "UNKNOWN")]
        \/ slot' = [slot EXCEPT ![s] = IdleSlot]
    BY <1>3, <1>5 DEF StopsForLease, SettleSync, CrashSlot
  <2>3. slot \in [Slots -> SlotRows]
    BY DEF LeasesSound, SyncTyped
  <2>4. QED
    BY <1>2, <2>1, <2>2, <2>3
<1>8. \A t \in Slots : Importing(t, k)' => slot'[t].pc \in {"load", "settle"}
  BY <1>2, <1>3, <1>7 DEF Importing
<1>9. QED
  BY <1>3, <1>6, <1>8 DEF LeaseNeverLost

LEMMA ImportStepsKeepLease ==
  ASSUME LeasesSound, NEW s \in Slots, ImportStep(s) \/ CrashSlot(s), NEW k \in SyncKeys
  PROVE  LeaseNeverLost(k)'
<1>1. PICK me \in SlotRows : slot' = [slot EXCEPT ![s] = me] /\ GoesOn(s, me)
  BY AttemptsGoOn DEF LeasesSound
<1>2. /\ slot'[s] = me /\ \A t \in Slots : t # s => slot'[t] = slot[t]
      /\ slot[s].key \in SyncKeys /\ syncJob[slot[s].key] \in HandlerRows
      /\ syncRun[slot[s].key] \in SyncRunRows
  BY <1>1 DEF LeasesSound, SyncTyped, SlotRows
<1>3. me.pc # "idle" => me.key = slot[s].key /\ me.attempt = slot[s].attempt
  BY <1>1 DEF GoesOn
<1>4. CASE k # slot[s].key
  <2>1. syncJob'[k] = syncJob[k] /\ syncRun'[k] = syncRun[k]
    BY <1>4
       DEF LeasesSound, SyncTyped, ImportStep, CrashSlot, StopsForCancellation, StopsForLease,
           LoadAccount, ReadAccessTokenFails, OpenRun, ReadCursor, FetchPage, FetchFails,
           PersistPage, CommitPage, FailRun, SettleSync, CompleteRun
  <2>2. QED
    BY <1>2, <1>3, <1>4, <2>1, OtherLeasesStand
<1>5. ASSUME k = slot[s].key, ~syncJob[k].expired, syncJob[k].state # "CANCELLED"
      PROVE  LeaseNeverLost(k)'
  <2>1. Importing(s, k) /\ LeaseNeverLost(k)
    BY <1>1, <1>5 DEF GoesOn, Importing, LeasesSound
  <2>2. /\ HoldsLease(syncJob[k], slot[s].attempt) /\ \A t \in Slots : Importing(t, k) => t = s
        /\ syncRun[k].state = "RUNNING" =>
             ~syncJob[k].cancel /\ slot[s].pc \notin {"load", "open", "settle"}
        /\ slot[s].pc = "load" \/ ~syncJob[k].cancel
    BY <1>5, <2>1 DEF LeaseNeverLost, HoldsLease
  <2>3. \A t \in Slots : Importing(t, k)' => t = s
    BY <1>2, <2>2 DEF Importing
  <2>4. CASE StopsForCancellation(s)
    <3>1. slot' = [slot EXCEPT ![s] = IdleSlot] /\ UNCHANGED syncRun /\ slot[s].pc = "load"
      BY <1>5, <2>2, <2>4 DEF StopsForCancellation, Row
    <3>2. ~Importing(s, k)'
      BY <3>1, IdleSlotRow DEF Importing, LeasesSound, SyncTyped
    <3>3. QED
      BY <2>2, <2>3, <3>1, <3>2, OneAttemptKeepsLease
  <2>5. CASE SettleSync(s)
    <3>1. slot' = [slot EXCEPT ![s] = IdleSlot] /\ UNCHANGED syncRun /\ slot[s].pc = "settle"
      BY <2>5 DEF SettleSync
    <3>2. ~Importing(s, k)'
      BY <3>1, IdleSlotRow DEF Importing, LeasesSound, SyncTyped
    <3>3. QED
      BY <2>2, <2>3, <3>1, <3>2, OneAttemptKeepsLease
  <2>6. CASE CompleteRun(s)
    <3>1. slot' = [slot EXCEPT ![s] = IdleSlot]
      BY <2>6 DEF CompleteRun
    <3>2. ~Importing(s, k)'
      BY <3>1, IdleSlotRow DEF Importing, LeasesSound, SyncTyped
    <3>3. syncRun'[k].state = "RUNNING" =>
            syncJob'[k].state = "PROCESSING" /\ ~syncJob'[k].cancel
      BY <1>2, <1>5, <2>2, <2>6
         DEF CompleteRun, LeasesSound, SyncTyped, SyncRunRows, HoldsLease
    <3>4. QED
      BY <2>3, <3>2, <3>3, OneAttemptKeepsLease
  <2>7. CASE CrashSlot(s)
    <3>1. slot' = [slot EXCEPT ![s] = IdleSlot] /\ UNCHANGED <<syncRun, syncJob>>
      BY <2>7 DEF CrashSlot
    <3>2. ~Importing(s, k)'
      BY <3>1, IdleSlotRow DEF Importing, LeasesSound, SyncTyped
    <3>3. QED
      BY <2>2, <2>3, <3>1, <3>2, OneAttemptKeepsLease DEF HoldsLease
  <2>8. CASE \/ LoadAccount(s) \/ ReadAccessTokenFails(s) \/ OpenRun(s) \/ ReadCursor(s)
             \/ FetchPage(s) \/ FetchFails(s) \/ PersistPage(s) \/ FailRun(s)
    <3>1. UNCHANGED syncJob
      BY <2>8 DEF LoadAccount, ReadAccessTokenFails, OpenRun, ReadCursor, FetchPage, FetchFails,
                  PersistPage, FailRun
    <3>2. ~syncJob[k].cancel
      BY <1>5, <2>2, <2>8
         DEF LoadAccount, ReadAccessTokenFails, OpenRun, ReadCursor, FetchPage, FetchFails,
             PersistPage, FailRun, MayContinue, Row
    <3>3. syncRun'[k].state = "RUNNING" => slot'[s].pc \notin {"load", "open", "settle"}
      <4>1. CASE OpenRun(s)
        <5>1. me.pc \in {"resume", "settle"}
          <6>1. Stopped(slot[s], "settle", "UNKNOWN").pc = "settle"
            BY DEF Stopped, IdleSlot
          <6>2. \/ slot' = [slot EXCEPT ![s] = Stopped(slot[s], "settle", "UNKNOWN")]
                \/ slot' = [slot EXCEPT ![s].pc = "resume", ![s].saw = "NONE", ![s].horizon = 0]
            BY <4>1 DEF OpenRun
          <6>3. slot \in [Slots -> SlotRows]
            BY DEF LeasesSound, SyncTyped
          <6>4. QED
            BY <1>2, <6>1, <6>2, <6>3 DEF SlotRows
        <5>2. me.pc = "settle" => UNCHANGED syncRun /\ slot[s].pc = "open"
          BY <1>2, <4>1 DEF OpenRun, LeasesSound, SyncTyped, SlotRows
        <5>3. QED
          BY <1>2, <2>2, <5>1, <5>2
      <4>2. CASE FailRun(s)
        BY <1>2, <1>5, <4>2 DEF FailRun, LeasesSound, SyncTyped, SyncRunRows, Run
      <4>3. CASE PersistPage(s)
        <5>1. syncRun'[k].state = syncRun[k].state
          BY <1>2, <1>5, <4>3 DEF PersistPage, CommitPage, LeasesSound, SyncTyped, SyncRunRows
        <5>2. slot[s].pc = "persist"
          BY <4>3 DEF PersistPage
        <5>3. QED
          BY <1>1, <1>2, <2>2, <5>1, <5>2 DEF GoesOn
      <4>4. CASE \/ LoadAccount(s) \/ ReadAccessTokenFails(s) \/ ReadCursor(s)
                 \/ FetchPage(s) \/ FetchFails(s)
        <5>1. UNCHANGED syncRun /\ slot[s].pc \in {"load", "resume", "fetch"}
          BY <4>4 DEF LoadAccount, ReadAccessTokenFails, ReadCursor, FetchPage, FetchFails
        <5>2. QED
          BY <1>1, <1>2, <2>2, <5>1 DEF GoesOn
      <4>5. QED
        BY <2>8, <4>1, <4>2, <4>3, <4>4
    <3>4. Importing(s, k)' => slot'[s].attempt = slot[s].attempt
      BY <1>2, <1>3 DEF Importing
    <3>5. QED
      BY <2>2, <2>3, <3>1, <3>2, <3>3, <3>4, OneAttemptKeepsLease DEF HoldsLease
  <2>9. ~StopsForLease(s)
    BY <1>5, <2>2 DEF StopsForLease, Row
  <2>10. QED
    BY <2>4, <2>5, <2>6, <2>7, <2>8, <2>9 DEF ImportStep
<1>6. ASSUME k = slot[s].key, syncJob[k].expired PROVE LeaseNeverLost(k)'
  <2>1. syncJob'[k].expired = syncJob[k].expired
    <3>1. /\ CancelJob(syncJob[k]).expired = syncJob[k].expired
          /\ Complete(syncJob[k]).expired = syncJob[k].expired
          /\ \A n, class : SettleFailure(syncJob[k], n, class).expired = syncJob[k].expired
      BY <1>2, <1>6 DEF CancelJob, Complete, SettleFailure, RetryLater, GiveUp, HandlerRows
    <3>2. \/ syncJob' = syncJob \/ syncJob' = [syncJob EXCEPT ![k] = CancelJob(syncJob[k])]
          \/ syncJob' = [syncJob EXCEPT ![k] = Complete(syncJob[k])]
          \/ syncJob' = [syncJob EXCEPT ![k] =
                           SettleFailure(syncJob[k], slot[s].attempt, slot[s].class)]
      BY <1>6
         DEF ImportStep, CrashSlot, StopsForCancellation, StopsForLease, LoadAccount,
             ReadAccessTokenFails, OpenRun, ReadCursor, FetchPage, FetchFails, PersistPage,
             FailRun, SettleSync, CompleteRun
    <3>3. \A row : [syncJob EXCEPT ![k] = row][k] = row
      BY <1>2, <1>6 DEF LeasesSound, SyncTyped
    <3>4. QED
      BY <3>1, <3>2, <3>3
  <2>2. QED
    BY <1>6, <2>1 DEF LeaseNeverLost
<1>7. QED
  BY <1>4, <1>5, <1>6, CancelledAttemptsStop


\* Who asks, the operators, and the expiry of a lease.
LEMMA OutsideStepsKeepLease ==
  ASSUME LeasesSound, NEW j, NEW k \in SyncKeys,
         \/ j \in SyncKeys /\ (RecoverSync(j) \/ CancelSync(j) \/ RetrySync(j))
         \/ /\ syncJob[j].state = "ABSENT" /\ syncJob' = [syncJob EXCEPT ![j] = Enqueue(@)]
            /\ UNCHANGED <<syncRun, slot>>
  PROVE  LeaseNeverLost(k)'
<1>1. UNCHANGED <<syncRun, slot>>
  BY DEF RecoverSync, CancelSync, RetrySync
<1>2. syncJob \in [SyncKeys -> HandlerRows] /\ syncJob[k] \in HandlerRows
  BY DEF LeasesSound, SyncTyped
<1>3. CASE k # j
  <2>1. syncJob'[k] = syncJob[k]
    BY <1>2, <1>3 DEF RecoverSync, CancelSync, RetrySync
  <2>2. QED
    BY <1>1, <2>1, OtherLeasesStand
<1>4. CASE k = j
  <2>1. CASE RecoverSync(k)
    <3>1. /\ syncJob[k].state = "PROCESSING"
          /\ syncJob'[k].expired = (syncJob[k].expired \/ ~syncJob[k].cancel)
          /\ syncJob[k].cancel => syncJob'[k].state = "CANCELLED"
      BY <1>2, <2>1 DEF RecoverSync, RecoverLease, HandlerRows
    <3>2. CASE syncJob'[k].expired
      BY <3>2 DEF LeaseNeverLost
    <3>3. CASE ~syncJob'[k].expired
      <4>1. /\ \A t \in Slots : Importing(t, k) => slot[t].pc = "load"
            /\ syncRun[k].state # "RUNNING"
        BY <3>1, <3>3 DEF LeasesSound, LeaseNeverLost
      <4>2. QED
        BY <1>1, <3>1, <3>3, <4>1 DEF LeaseNeverLost, Importing
    <3>4. QED
      BY <3>2, <3>3
  <2>2. CASE syncJob[k].state \in {"ABSENT", "QUEUED", "FAILED_ATTENTION"}
             /\ syncJob'[k].expired = syncJob[k].expired
    <3>1. SUFFICES ASSUME ~syncJob[k].expired PROVE LeaseNeverLost(k)'
      BY <2>2 DEF LeaseNeverLost
    <3>2. /\ \A t \in Slots : ~Importing(t, k)
          /\ syncRun[k].state # "RUNNING"
      BY <2>2, <3>1 DEF LeasesSound, LeaseNeverLost, HoldsLease
    <3>3. \A t \in Slots : ~Importing(t, k)'
      BY <1>1, <3>2 DEF Importing
    <3>4. QED
      BY <1>1, <3>2, <3>3 DEF LeaseNeverLost
  <2>3. CASE \/ syncJob[k].state = "ABSENT" /\ syncJob' = [syncJob EXCEPT ![k] = Enqueue(@)]
             \/ RetrySync(k)
             \/ CancelSync(k) /\ syncJob[k].state = "QUEUED"
    <3>1. /\ Enqueue(syncJob[k]).expired = syncJob[k].expired
          /\ RetryByOperator(syncJob[k]).expired = syncJob[k].expired
          /\ CancelJob(syncJob[k]).expired = syncJob[k].expired
      BY <1>2 DEF Enqueue, RetryByOperator, CancelJob, HandlerRows
    <3>2. \A row : [syncJob EXCEPT ![k] = row][k] = row
      BY <1>2
    <3>3. \/ syncJob' = [syncJob EXCEPT ![k] = Enqueue(syncJob[k])]
          \/ syncJob' = [syncJob EXCEPT ![k] = RetryByOperator(syncJob[k])]
          \/ syncJob' = [syncJob EXCEPT ![k] = CancelJob(syncJob[k])]
      BY <2>3 DEF RetrySync, CancelSync
    <3>4. syncJob[k].state \in {"ABSENT", "QUEUED", "FAILED_ATTENTION"}
      BY <2>3 DEF RetrySync, CancelSync
    <3>5. QED
      BY <2>2, <3>1, <3>2, <3>3, <3>4
  <2>4. CASE CancelSync(k) /\ syncJob[k].state # "QUEUED"
    <3>1. /\ syncJob[k].state = "PROCESSING"
          /\ syncJob' = [syncJob EXCEPT ![k] = [syncJob[k] EXCEPT !.cancel = TRUE]]
      BY <1>2, <2>4 DEF CancelSync, RequestCancel
    <3>2. PICK s \in Slots : slot[s].pc = "load" /\ slot[s].key = k
      BY <2>4 DEF CancelSync
    <3>3. /\ syncJob'[k].state = "PROCESSING" /\ syncJob'[k].expired = syncJob[k].expired
          /\ syncJob'[k].attempt = syncJob[k].attempt
      BY <1>2, <3>1 DEF HandlerRows
    <3>4. SUFFICES ASSUME ~syncJob[k].expired PROVE LeaseNeverLost(k)'
      BY <3>3 DEF LeaseNeverLost
    <3>5. Importing(s, k) /\ LeaseNeverLost(k)
      BY <3>2 DEF Importing, LeasesSound
    <3>6. /\ HoldsLease(syncJob[k], slot[s].attempt)
          /\ \A t \in Slots : Importing(t, k) => t = s
          /\ syncRun[k].state # "RUNNING"
      BY <3>1, <3>2, <3>4, <3>5 DEF LeaseNeverLost
    <3>7. \A t \in Slots : Importing(t, k)' => t = s
      BY <1>1, <3>6 DEF Importing
    <3>8. QED
      BY <1>1, <3>2, <3>3, <3>6, <3>7, OneAttemptKeepsLease DEF HoldsLease
  <2>5. QED
    BY <1>4, <2>1, <2>3, <2>4
<1>5. QED
  BY <1>3, <1>4

LEMMA ClaimKeepsLease ==
  ASSUME LeasesSound, NEW s \in Slots, NEW j \in SyncKeys, ClaimSync(s, j), NEW k \in SyncKeys
  PROVE  LeaseNeverLost(k)'
<1>1. PICK me \in SlotRows :
        /\ slot' = [slot EXCEPT ![s] = me]
        /\ me.pc = "load" /\ me.key = j /\ me.attempt = syncJob[j].attempt + 1
  BY ClaimMoves DEF LeasesSound
<1>2. slot'[s] = me /\ \A t \in Slots : t # s => slot'[t] = slot[t]
  BY <1>1 DEF LeasesSound, SyncTyped
<1>3. /\ syncJob' = [syncJob EXCEPT ![j] = Claim(syncJob[j])] /\ UNCHANGED syncRun
      /\ syncJob[j].state = "QUEUED" /\ syncJob[j] \in HandlerRows
      /\ syncJob \in [SyncKeys -> HandlerRows]
  BY DEF ClaimSync, Claimable, LeasesSound, SyncTyped
<1>4. CASE k # j
  <2>1. syncJob'[k] = syncJob[k]
    BY <1>3, <1>4
  <2>2. QED
    BY <1>1, <1>2, <1>3, <1>4, <2>1, OtherLeasesStand
<1>5. CASE k = j
  <2>1. /\ syncJob'[k].state = "PROCESSING" /\ syncJob'[k].expired = syncJob[k].expired
        /\ syncJob'[k].attempt = syncJob[k].attempt + 1
    <3>1. \A n \in Nat :
            LET row == [syncJob[j] EXCEPT !.state = "PROCESSING", !.attempt = n]
            IN row.state = "PROCESSING" /\ row.expired = syncJob[j].expired /\ row.attempt = n
      BY <1>3 DEF HandlerRows
    <3>2. PICK n \in Nat : n = syncJob[j].attempt + 1
      BY <1>3 DEF HandlerRows
    <3>3. syncJob'[k] = [syncJob[j] EXCEPT !.state = "PROCESSING", !.attempt = n]
      BY <1>3, <1>5, <3>2 DEF Claim
    <3>4. QED
      BY <1>5, <3>1, <3>2, <3>3
  <2>2. SUFFICES ASSUME ~syncJob[k].expired PROVE LeaseNeverLost(k)'
    BY <2>1 DEF LeaseNeverLost
  <2>3. /\ \A t \in Slots : ~Importing(t, k)
        /\ syncRun[k].state # "RUNNING"
    BY <1>3, <1>5, <2>2 DEF LeasesSound, LeaseNeverLost, HoldsLease
  <2>4. \A t \in Slots : Importing(t, k)' => t = s
    BY <1>2, <2>3 DEF Importing
  <2>5. QED
    BY <1>1, <1>2, <1>3, <1>5, <2>1, <2>3, <2>4, OneAttemptKeepsLease DEF HoldsLease
<1>6. QED
  BY <1>4, <1>5


LEMMA SyncSoundAtFirst == SyncInit => LeasesSound /\ RunsFollowTheEdge
<1>1. SUFFICES ASSUME SyncInit PROVE LeasesSound /\ RunsFollowTheEdge
  OBVIOUS
<1>2. SyncTyped
  <2>1. published \subseteq 1..day /\ day \in Nat \ {0}
    BY <1>1, SyncAssumption DEF SyncInit
  <2>2. AbsentJob \in HandlerRows /\ Enqueue(AbsentJob) \in HandlerRows
    BY DEF AbsentJob, Enqueue, HandlerRows
  <2>3. NoRun \in SyncRunRows
    BY DEF NoRun, SyncRunRows
  <2>4. QED
    BY <1>1, <2>1, <2>2, <2>3, IdleSlotRow DEF SyncInit, SyncTyped
<1>3. \A s \in Slots : slot[s].pc = "idle"
  BY <1>1, IdleSlotRow DEF SyncInit
<1>4. \A k \in SyncKeys : syncRun[k].state = "NONE" /\ syncRun[k].known = {}
  BY <1>1 DEF SyncInit, NoRun
<1>5. \A k \in SyncKeys : syncJob[k].state # "PROCESSING"
  BY <1>1 DEF SyncInit, AbsentJob, Enqueue
<1>6. \A k \in SyncKeys : LeaseNeverLost(k)
  BY <1>3, <1>4, <1>5 DEF LeaseNeverLost, Importing
<1>7. \A k \in SyncKeys : RunSound(k)
  BY <1>4 DEF RunSound, Promised
<1>8. \A s \in Slots : SlotSound(s)
  BY <1>3 DEF SlotSound
<1>9. QED
  BY <1>2, <1>6, <1>7, <1>8 DEF LeasesSound, RunsFollowTheEdge

LEMMA LeasesSoundInductive == LeasesSound /\ [SyncNext]_syncVars => LeasesSound'
<1>1. SUFFICES ASSUME LeasesSound, [SyncNext]_syncVars, NEW k \in SyncKeys
               PROVE  LeaseNeverLost(k)'
  BY SyncStaysTyped DEF LeasesSound
<1>2. ASSUME NEW s \in Slots, ImportStep(s) \/ CrashSlot(s) PROVE LeaseNeverLost(k)'
  BY <1>1, <1>2, ImportStepsKeepLease
<1>3. ASSUME NEW s \in Slots, NEW j \in SyncKeys, ClaimSync(s, j) PROVE LeaseNeverLost(k)'
  BY <1>1, <1>3, ClaimKeepsLease
<1>4. ASSUME NEW j \in SyncKeys, RecoverSync(j) \/ CancelSync(j) \/ RetrySync(j)
      PROVE  LeaseNeverLost(k)'
  BY <1>1, <1>4, OutsideStepsKeepLease
<1>5. CASE EnqueueDueSyncs \/ RequestInstagramSync
  <2>1. PICK j : /\ syncJob[j].state = "ABSENT" /\ syncJob' = [syncJob EXCEPT ![j] = Enqueue(@)]
                 /\ UNCHANGED <<syncRun, slot>>
    BY <1>5 DEF EnqueueDueSyncs, RequestInstagramSync
  <2>2. QED
    BY <1>1, <2>1, OutsideStepsKeepLease
<1>6. CASE NextDay \/ Publish \/ ConnectionChanges \/ UNCHANGED syncVars
  <2>1. UNCHANGED <<syncJob, syncRun, slot>>
    BY <1>6 DEF NextDay, Publish, ConnectionChanges, syncVars
  <2>2. QED
    BY <1>1, <2>1, OtherLeasesStand
<1>7. QED
  BY <1>1, <1>2, <1>3, <1>4, <1>5, <1>6 DEF SyncNext

\* A run is closed before its job is, however an attempt of it ends: only an
\* attempt whose lease expired can leave a run RUNNING behind a finished job.
THEOREM RunsAreClosedWithTheirJobs == SyncSpec => []RunsEndWithTheirJobs
<1>1. LeasesSound => RunsEndWithTheirJobs
  BY DEF LeasesSound, LeaseNeverLost, RunsEndWithTheirJobs, Terminal
<1>2. QED
  BY <1>1, SyncSoundAtFirst, LeasesSoundInductive, PTL DEF SyncSpec

-----------------------------------------------------------------------------
(* Paging.                                                                 *)

\* What a run promised stays what it promised, and what is stored stays stored.
RunKept(k) ==
  /\ syncRun'[k].known = syncRun[k].known /\ syncRun'[k].horizon = syncRun[k].horizon
  /\ syncRun'[k].state # "NONE"

LEMMA PromisesStand ==
  ASSUME NEW k, syncRun'[k].known = syncRun[k].known,
         syncRun'[k].horizon = syncRun[k].horizon
  PROVE  Promised(k)' = Promised(k)
  BY DEF Promised, Malformed

\* A slot that did not move still follows its run.
LEMMA SlotStands ==
  ASSUME NEW s \in Slots, SlotSound(s), slot'[s] = slot[s],
         published \subseteq published', posts \subseteq posts',
         syncRun[slot[s].key].state # "NONE" => RunKept(slot[s].key)
  PROVE  SlotSound(s)'
<1>1. CASE syncRun[slot[s].key].state = "NONE"
  BY <1>1 DEF SlotSound
<1>2. CASE syncRun[slot[s].key].state # "NONE"
  <2>1. PICK k : k = slot[s].key
    OBVIOUS
  <2>2. RunKept(k) /\ Promised(k)' = Promised(k)
    BY <1>2, <2>1, PromisesStand DEF RunKept
  <2>3. QED
    BY <2>1, <2>2 DEF SlotSound, RunKept
<1>3. QED
  BY <1>1, <1>2

\* A slot that does not page follows nothing.
LEMMA SlotNotPaging ==
  ASSUME NEW s \in Slots, slot'[s].pc \in {"idle", "load", "failRun", "settle"}
  PROVE  SlotSound(s)'
  BY DEF SlotSound

\* A run whose cursor did not move: it may only have been closed.
LEMMA RunStands ==
  ASSUME NEW k \in SyncKeys, RunSound(k), published \subseteq published', posts \subseteq posts',
         syncRun'[k].known = syncRun[k].known, syncRun'[k].horizon = syncRun[k].horizon,
         syncRun'[k].cursor = syncRun[k].cursor,
         syncRun'[k].state = "NONE" => syncRun[k].state = "NONE",
         syncRun'[k].state = "SUCCEEDED" =>
           syncRun[k].state = "SUCCEEDED" \/ Promised(k) \subseteq posts
  PROVE  RunSound(k)'
<1>1. Promised(k)' = Promised(k)
  BY PromisesStand
<1>2. QED
  BY <1>1 DEF RunSound


\* One slot moves; what the other slots follow has not changed.
LEMMA OneSlotFollows ==
  ASSUME RunsFollowTheEdge, SyncTyped', NEW s \in Slots, NEW me, slot' = [slot EXCEPT ![s] = me],
         published \subseteq published', posts \subseteq posts',
         \A k \in SyncKeys : syncRun[k].state # "NONE" => RunKept(k),
         \A k \in SyncKeys : RunSound(k)', SlotSound(s)'
  PROVE  RunsFollowTheEdge'
<1>1. \A t \in Slots : t # s => slot'[t] = slot[t]
  BY DEF RunsFollowTheEdge, SyncTyped
<1>2. \A t \in Slots : slot[t].key \in SyncKeys
  BY DEF RunsFollowTheEdge, SyncTyped, SlotRows
<1>3. ASSUME NEW t \in Slots, t # s PROVE SlotSound(t)'
  BY <1>1, <1>2, <1>3, SlotStands DEF RunsFollowTheEdge
<1>4. QED
  BY <1>3 DEF RunsFollowTheEdge

\* The same with every run as it was, or closed: an attempt that completes its
\* run has imported what the run promised.
LEMMA RunsFollowUnmoved ==
  ASSUME RunsFollowTheEdge, SyncTyped', NEW s \in Slots, NEW me, slot' = [slot EXCEPT ![s] = me],
         published \subseteq published', posts \subseteq posts',
         \A k \in SyncKeys :
           /\ syncRun'[k].known = syncRun[k].known /\ syncRun'[k].horizon = syncRun[k].horizon
           /\ syncRun'[k].cursor = syncRun[k].cursor
           /\ syncRun'[k].state = "NONE" <=> syncRun[k].state = "NONE"
           /\ syncRun'[k].state = "SUCCEEDED" =>
                syncRun[k].state = "SUCCEEDED" \/ Promised(k) \subseteq posts,
         SlotSound(s)'
  PROVE  RunsFollowTheEdge'
<1>1. \A k \in SyncKeys : syncRun[k].state # "NONE" => RunKept(k)
  BY DEF RunKept
<1>2. ASSUME NEW k \in SyncKeys PROVE RunSound(k)'
  BY RunStands DEF RunsFollowTheEdge
<1>3. QED
  BY <1>1, <1>2, OneSlotFollows

LEMMA AttemptsThatStopFollow ==
  ASSUME RunsFollowTheEdge, SyncTyped', NEW s \in Slots,
         \/ StopsForCancellation(s) \/ StopsForLease(s) \/ SettleSync(s) \/ CrashSlot(s)
         \/ ReadAccessTokenFails(s) \/ FetchFails(s) \/ FailRun(s) \/ CompleteRun(s)
  PROVE  RunsFollowTheEdge'
<1>1. ImportStep(s) \/ CrashSlot(s)
  BY DEF ImportStep
<1>2. PICK me \in SlotRows : slot' = [slot EXCEPT ![s] = me]
  BY <1>1, AttemptsGoOn DEF RunsFollowTheEdge
<1>3. UNCHANGED <<published, posts>>
  BY DEF StopsForCancellation, StopsForLease, SettleSync, CrashSlot, ReadAccessTokenFails,
         FetchFails, FailRun, CompleteRun
<1>4. slot'[s].pc \in {"idle", "failRun", "settle"}
  <2>1. \A class, pc : Stopped(slot[s], pc, class).pc = pc
    BY DEF Stopped, IdleSlot
  <2>2. slot \in [Slots -> SlotRows] /\ slot[s] \in SlotRows
    BY DEF RunsFollowTheEdge, SyncTyped
  <2>3. CASE StopsForLease(s) \/ ReadAccessTokenFails(s) \/ FetchFails(s)
    <3>1. \E pc \in {"settle", "failRun"} : \E class :
            slot' = [slot EXCEPT ![s] = Stopped(slot[s], pc, class)]
      BY <2>3 DEF StopsForLease, ReadAccessTokenFails, FetchFails
    <3>2. QED
      BY <2>1, <2>2, <3>1
  <2>4. CASE FailRun(s)
    BY <2>2, <2>4 DEF FailRun, SlotRows
  <2>5. CASE StopsForCancellation(s) \/ SettleSync(s) \/ CrashSlot(s) \/ CompleteRun(s)
    BY <2>2, <2>5, IdleSlotRow DEF StopsForCancellation, SettleSync, CrashSlot, CompleteRun
  <2>6. QED
    BY <2>3, <2>4, <2>5
<1>5. SlotSound(s)'
  BY <1>4, SlotNotPaging
<1>6. ASSUME NEW k \in SyncKeys
      PROVE  /\ syncRun'[k].known = syncRun[k].known /\ syncRun'[k].horizon = syncRun[k].horizon
             /\ syncRun'[k].cursor = syncRun[k].cursor
             /\ syncRun'[k].state = "NONE" <=> syncRun[k].state = "NONE"
             /\ syncRun'[k].state = "SUCCEEDED" =>
                  syncRun[k].state = "SUCCEEDED" \/ Promised(k) \subseteq posts
  <2>1. syncRun \in [SyncKeys -> SyncRunRows] /\ syncRun[k] \in SyncRunRows
    BY DEF RunsFollowTheEdge, SyncTyped
  <2>2. CASE UNCHANGED syncRun
    BY <2>2
  <2>3. CASE FailRun(s) /\ syncRun' # syncRun
    BY <2>1, <2>3 DEF FailRun, Run, SyncRunRows
  <2>4. CASE CompleteRun(s) /\ syncRun' # syncRun
    <3>1. slot[s].pc = "commit" /\ Run(s).state = "RUNNING"
          /\ syncRun' = [syncRun EXCEPT ![slot[s].key].state = "SUCCEEDED"]
      BY <2>4 DEF CompleteRun
    <3>2. Promised(slot[s].key) \subseteq posts
      BY <3>1 DEF RunsFollowTheEdge, SlotSound
    <3>3. QED
      BY <2>1, <3>1, <3>2 DEF Run, SyncRunRows
  <2>5. QED
    BY <2>2, <2>3, <2>4
       DEF StopsForCancellation, StopsForLease, SettleSync, CrashSlot, ReadAccessTokenFails,
           FetchFails
<1>7. QED
  BY <1>2, <1>3, <1>5, <1>6, RunsFollowUnmoved

LEMMA LoadFollows ==
  ASSUME RunsFollowTheEdge, SyncTyped', NEW s \in Slots, LoadAccount(s)
  PROVE  RunsFollowTheEdge'
<1>1. slot[s] \in SlotRows /\ slot \in [Slots -> SlotRows]
  BY DEF RunsFollowTheEdge, SyncTyped
<1>2. PICK me \in SlotRows : slot' = [slot EXCEPT ![s] = me]
  BY AttemptsGoOn DEF RunsFollowTheEdge, ImportStep
<1>3. UNCHANGED <<published, posts, syncRun>>
  BY DEF LoadAccount
<1>4. SlotSound(s)'
  <2>1. CASE connected
    <3>1. slot'[s].pc = "open" /\ slot'[s].key = slot[s].key /\ slot'[s].saw = Run(s).state
      BY <1>1, <2>1 DEF LoadAccount, SlotRows
    <3>2. QED
      BY <1>3, <3>1 DEF SlotSound, Run
  <2>2. CASE ~connected
    <3>1. Stopped(slot[s], "settle", "CREDENTIAL").pc = "settle"
      BY DEF Stopped, IdleSlot
    <3>2. slot'[s].pc = "settle"
      BY <1>1, <2>2, <3>1 DEF LoadAccount
    <3>3. QED
      BY <3>2, SlotNotPaging
  <2>3. QED
    BY <2>1, <2>2
<1>5. \A k \in SyncKeys : syncRun'[k] = syncRun[k]
  BY <1>3
<1>6. QED
  BY <1>2, <1>3, <1>4, <1>5, RunsFollowUnmoved


\* startInstagramSyncRun: a run that is created promises what the account has
\* now and has passed nothing.
LEMMA OpenFollows ==
  ASSUME RunsFollowTheEdge, SyncTyped', NEW s \in Slots, OpenRun(s)
  PROVE  RunsFollowTheEdge'
<1> DEFINE k == slot[s].key
<1>1. /\ slot[s] \in SlotRows /\ slot \in [Slots -> SlotRows] /\ k \in SyncKeys
      /\ syncRun \in [SyncKeys -> SyncRunRows] /\ syncRun[k] \in SyncRunRows
      /\ slot[s].pc = "open" /\ SlotSound(s)
  BY DEF RunsFollowTheEdge, SyncTyped, SlotRows, OpenRun
<1>2. PICK me \in SlotRows : slot' = [slot EXCEPT ![s] = me]
  BY AttemptsGoOn DEF RunsFollowTheEdge, ImportStep
<1>3. UNCHANGED <<published, posts>>
  BY DEF OpenRun
<1> DEFINE Refused == slot' = [slot EXCEPT ![s] = Stopped(@, "settle", "UNKNOWN")]
           Opened  == slot' = [slot EXCEPT ![s].pc = "resume", ![s].saw = "NONE",
                                           ![s].horizon = 0]
           NewRun  == [state |-> "RUNNING", cursor |-> 0, horizon |-> slot[s].horizon,
                       known |-> published]
<1>4. \/ Opened /\ UNCHANGED syncRun /\ slot[s].saw \in {"RUNNING", "SUCCEEDED"}
      \/ Refused /\ UNCHANGED syncRun
      \/ /\ Opened /\ syncRun[k].state = "FAILED"
         /\ syncRun' = [syncRun EXCEPT ![k].state = "RUNNING"]
      \/ /\ Opened /\ syncRun[k].state = "NONE"
         /\ syncRun' = [syncRun EXCEPT ![k] = NewRun]
  BY DEF OpenRun, Run
<1>5. Refused => slot'[s].pc = "settle"
  <2>1. Stopped(slot[s], "settle", "UNKNOWN").pc = "settle"
    BY DEF Stopped, IdleSlot
  <2>2. QED
    BY <1>1, <2>1
<1>6. Opened => slot'[s].pc = "resume" /\ slot'[s].key = k
  BY <1>1 DEF SlotRows
<1>7. Opened /\ syncRun'[k].state # "NONE" => SlotSound(s)'
  BY <1>6 DEF SlotSound
<1>8. Refused => SlotSound(s)'
  BY <1>5, SlotNotPaging
<1>9. CASE UNCHANGED syncRun
  <2>1. SlotSound(s)'
    <3>1. slot[s].saw \in {"RUNNING", "SUCCEEDED"} => syncRun[k].state # "NONE"
      BY <1>1 DEF SlotSound
    <3> HIDE DEF Refused, Opened
    <3>2. QED
      BY <1>1, <1>4, <1>7, <1>8, <1>9, <3>1 DEF SyncRunRows
  <2>2. \A j \in SyncKeys : syncRun'[j] = syncRun[j]
    BY <1>9
  <2>3. QED
    BY <1>2, <1>3, <2>1, <2>2, RunsFollowUnmoved
<1>10. CASE Opened /\ syncRun[k].state = "FAILED"
             /\ syncRun' = [syncRun EXCEPT ![k].state = "RUNNING"]
  <2>1. \A j \in SyncKeys :
          /\ syncRun'[j].known = syncRun[j].known /\ syncRun'[j].horizon = syncRun[j].horizon
          /\ syncRun'[j].cursor = syncRun[j].cursor
          /\ syncRun'[j].state = "NONE" <=> syncRun[j].state = "NONE"
          /\ syncRun'[j].state = "SUCCEEDED" => syncRun[j].state = "SUCCEEDED"
    BY <1>1, <1>10 DEF SyncRunRows
  <2>2. SlotSound(s)'
    <3>1. syncRun'[k].state # "NONE"
      BY <1>1, <1>10 DEF SyncRunRows
    <3>2. QED
      BY <1>7, <1>10, <3>1
  <2>3. QED
    BY <1>2, <1>3, <2>1, <2>2, RunsFollowUnmoved
<1>11. CASE Opened /\ syncRun[k].state = "NONE" /\ syncRun' = [syncRun EXCEPT ![k] = NewRun]
  <2>1. syncRun'[k] = NewRun /\ \A j \in SyncKeys : j # k => syncRun'[j] = syncRun[j]
    BY <1>1, <1>11
  <2>2. \A j \in SyncKeys : syncRun[j].state # "NONE" => RunKept(j)
    BY <1>11, <2>1 DEF RunKept
  <2>3. ASSUME NEW j \in SyncKeys PROVE RunSound(j)'
    <3>1. CASE j = k
      <4>1. /\ syncRun'[j].state = "RUNNING" /\ syncRun'[j].cursor = 0
            /\ syncRun'[j].known = published
        BY <2>1, <3>1
      <4>2. QED
        BY <1>3, <4>1 DEF RunSound
    <3>2. CASE j # k
      BY <1>3, <2>1, <3>2, RunStands DEF RunsFollowTheEdge
    <3>3. QED
      BY <3>1, <3>2
  <2>4. SlotSound(s)'
    BY <1>7, <1>11, <2>1
  <2>5. QED
    BY <1>2, <1>3, <2>2, <2>3, <2>4, OneSlotFollows
<1>12. QED
  BY <1>4, <1>9, <1>10, <1>11

\* pageAccountMedia: where an attempt resumes, and what it is answered.
LEMMA FetchFollows ==
  ASSUME RunsFollowTheEdge, SyncTyped', NEW s \in Slots, ReadCursor(s) \/ FetchPage(s)
  PROVE  RunsFollowTheEdge'
<1> DEFINE k == slot[s].key
<1>1. /\ slot[s] \in SlotRows /\ slot \in [Slots -> SlotRows] /\ k \in SyncKeys
      /\ SlotSound(s) /\ RunSound(k)
  BY DEF RunsFollowTheEdge, SyncTyped, SlotRows
<1>2. PICK me \in SlotRows : slot' = [slot EXCEPT ![s] = me]
  BY AttemptsGoOn DEF RunsFollowTheEdge, ImportStep
<1>3. UNCHANGED <<published, posts, syncRun>>
  BY DEF ReadCursor, FetchPage
<1>4. \A j \in SyncKeys : syncRun'[j] = syncRun[j] /\ Promised(j)' = Promised(j)
  BY <1>3, PromisesStand
<1>5. CASE ReadCursor(s)
  <2>1. /\ slot[s].pc = "resume" /\ slot'[s].pc = "fetch" /\ slot'[s].key = k
        /\ slot'[s].after = syncRun[k].cursor /\ slot'[s].horizon = syncRun[k].horizon
    BY <1>1, <1>5 DEF ReadCursor, Run, SlotRows
  <2>2. syncRun[k].state # "NONE"
    BY <1>1, <2>1 DEF SlotSound
  <2>3. \A m \in Promised(k) : slot'[s].after # 0 /\ m >= slot'[s].after => m \in posts
    BY <1>1, <2>1 DEF RunSound
  <2>4. SlotSound(s)'
    BY <1>1, <1>3, <1>4, <2>1, <2>2, <2>3 DEF SlotSound
  <2>5. QED
    BY <1>2, <1>3, <1>4, <2>4, RunsFollowUnmoved
<1>6. CASE FetchPage(s)
  <2> DEFINE after == slot[s].after
  <2>1. /\ slot[s].pc = "fetch" /\ slot'[s].pc = "persist" /\ slot'[s].key = k
        /\ slot'[s].after = after /\ slot'[s].horizon = slot[s].horizon
        /\ slot'[s].page = MediaPage(after)
    BY <1>1, <1>6 DEF FetchPage, SlotRows
  <2>2. MediaPage(after) \subseteq published
    BY DEF MediaPage, Beyond
  <2>3. ASSUME NEW m \in syncRun[k].known, after = 0 \/ m < after
        PROVE  m \in MediaPage(after)
                 \/ (MediaPage(after) # {} /\ \A o \in MediaPage(after) : m < o)
    <3>1. m \in Beyond(after)
      BY <1>1, <2>3 DEF RunSound, Beyond
    <3>2. QED
      BY <3>1, PageHoldsTheNewest DEF RunsFollowTheEdge
  <2> HIDE DEF after
  <2>4. SlotSound(s)'
    <3>1. /\ syncRun[k].state # "NONE" /\ slot[s].horizon = syncRun[k].horizon
          /\ \A m \in Promised(k) : after # 0 /\ m >= after => m \in posts
      BY <1>1, <2>1 DEF SlotSound, after
    <3>2. QED
      BY <1>1, <1>3, <1>4, <2>1, <2>2, <2>3, <3>1 DEF SlotSound
  <2>5. QED
    BY <1>2, <1>3, <1>4, <2>4, RunsFollowUnmoved
<1>7. QED
  BY <1>5, <1>6

\* What a page and its cursor add up to when the page is stored.
LEMMA StoredPageCovers ==
  ASSUME RunsFollowTheEdge, NEW s \in Slots, slot[s].pc = "persist",
         NEW m \in Promised(slot[s].key),
         m \notin posts \cup {o \in slot[s].page \ Malformed : o >= slot[s].horizon}
  PROVE  ~EndsWalk(s) /\ (CursorAfter(s) # 0 => m < CursorAfter(s))
<1> DEFINE k == slot[s].key
           page == slot[s].page
           after == slot[s].after
<1>1. /\ k \in SyncKeys /\ after \in Nat /\ page \in SUBSET Nat /\ slot[s].horizon \in Nat
      /\ SlotSound(s) /\ RunSound(k) /\ published \subseteq Nat
  BY DEF RunsFollowTheEdge, SyncTyped, SlotRows
<1>2. /\ m \in syncRun[k].known /\ m \notin Malformed /\ m >= syncRun[k].horizon
      /\ m \in published /\ m \in Nat
  <2>1. m \in syncRun[k].known /\ m \notin Malformed /\ m >= syncRun[k].horizon
    BY DEF Promised
  <2>2. m \in published
    BY <1>1, <2>1 DEF RunSound
  <2>3. QED
    BY <1>1, <2>1, <2>2
<1>3. slot[s].horizon = syncRun[k].horizon /\ page \subseteq published
  BY <1>1 DEF SlotSound
<1>4. after # 0 /\ m >= after => m \in posts
  BY <1>1 DEF SlotSound
<1>5. (after = 0 \/ m < after) => m \in page \/ (page # {} /\ \A o \in page : m < o)
  BY <1>1, <1>2 DEF SlotSound
<1>6. page # {} /\ \A o \in page : m < o
  BY <1>1, <1>2, <1>3, <1>4, <1>5
<1>7. CursorAfter(s) \in page /\ \A o \in page : CursorAfter(s) <= o
  <2>1. CursorAfter(s) = Min(page)
    BY <1>6 DEF CursorAfter
  <2>2. QED
    BY <1>1, <1>6, <2>1, OldestOfPage
<1>8. m < CursorAfter(s)
  BY <1>6, <1>7
<1>9. m \in Beyond(CursorAfter(s))
  BY <1>2, <1>8 DEF Beyond
<1>10. \A o \in page : ~(o < slot[s].horizon)
  BY <1>1, <1>2, <1>3, <1>6
<1>11. QED
  BY <1>6, <1>8, <1>9, <1>10 DEF EndsWalk


\* commitInstagramMediaPage: the rows and the cursor move together.
LEMMA PersistFollows ==
  ASSUME RunsFollowTheEdge, SyncTyped', NEW s \in Slots, PersistPage(s)
  PROVE  RunsFollowTheEdge'
<1> DEFINE stored == posts \cup {o \in slot[s].page \ Malformed : o >= slot[s].horizon}
<1>1. PICK k \in SyncKeys : k = slot[s].key
  BY DEF RunsFollowTheEdge, SyncTyped, SlotRows
<1>2. /\ slot[s] \in SlotRows /\ slot \in [Slots -> SlotRows] /\ k = slot[s].key
      /\ SlotSound(s) /\ RunSound(k) /\ slot[s].pc = "persist"
      /\ syncRun \in [SyncKeys -> SyncRunRows] /\ syncRun[k] \in SyncRunRows
  BY <1>1 DEF RunsFollowTheEdge, SyncTyped, SlotRows, PersistPage
<1>3. PICK me \in SlotRows : slot' = [slot EXCEPT ![s] = me]
  BY AttemptsGoOn DEF RunsFollowTheEdge, ImportStep
<1>4. UNCHANGED published
  BY DEF PersistPage
<1>5. \A pc, class : Stopped(slot[s], pc, class).pc = pc /\ Stopped(slot[s], pc, class).key = k
  BY <1>2 DEF Stopped, IdleSlot
<1>6. CASE Run(s).state # "RUNNING"
  <2>1. slot' = [slot EXCEPT ![s] = Stopped(slot[s], "failRun", "UNKNOWN")]
        /\ UNCHANGED <<posts, syncRun>>
    BY <1>6 DEF PersistPage
  <2>2. slot'[s].pc = "failRun"
    BY <1>2, <1>5, <2>1
  <2>3. SlotSound(s)'
    BY <2>2, SlotNotPaging
  <2>4. \A j \in SyncKeys : syncRun'[j] = syncRun[j]
    BY <2>1
  <2>5. QED
    BY <1>3, <1>4, <2>1, <2>3, <2>4, RunsFollowUnmoved
<1>7. CASE Run(s).state = "RUNNING"
  <2>1. posts' = stored /\ syncRun' = [syncRun EXCEPT ![k].cursor = CursorAfter(s)]
    BY <1>2, <1>7 DEF PersistPage, CommitPage
  <2>2. PICK c : c = CursorAfter(s)
    OBVIOUS
  <2>3. /\ syncRun'[k].cursor = c /\ syncRun'[k].known = syncRun[k].known
        /\ syncRun'[k].horizon = syncRun[k].horizon /\ syncRun'[k].state = "RUNNING"
        /\ \A j \in SyncKeys : j # k => syncRun'[j] = syncRun[j]
    BY <1>2, <1>7, <2>1, <2>2 DEF Run, SyncRunRows
  <2>4. Promised(k)' = Promised(k)
    BY <2>3, PromisesStand
  <2>5. \A m \in Promised(k) :
          /\ EndsWalk(s) => m \in posts'
          /\ c # 0 /\ ~(m < c) => m \in posts'
    BY <1>2, <2>1, <2>2, StoredPageCovers
  <2>6. /\ c \in Nat /\ \A m \in Promised(k) : m \in Nat
    <3>1. c \in Nat
      <4>1. syncRun'[k] \in SyncRunRows
        BY <1>2 DEF SyncTyped
      <4>2. QED
        BY <2>3, <4>1 DEF SyncRunRows
    <3>2. syncRun[k].known \subseteq Nat
      BY <1>2 DEF SyncRunRows
    <3>3. QED
      BY <3>1, <3>2 DEF Promised
  <2>7. posts \subseteq posts'
    BY <2>1
  <2>8. ASSUME NEW j \in SyncKeys PROVE RunSound(j)'
    <3>1. CASE j # k
      BY <1>4, <2>3, <2>7, <3>1, RunStands DEF RunsFollowTheEdge
    <3>2. CASE j = k
      <4>1. RunSound(k)
        BY <1>2
      <4>2. \A m \in Promised(k) : c # 0 /\ m >= c => m \in posts'
        BY <2>5, <2>6
      <4>3. syncRun'[j].known \subseteq published'
        BY <1>4, <2>3, <3>2, <4>1 DEF RunSound
      <4>4. \A m \in Promised(j)' : syncRun'[j].cursor # 0 /\ m >= syncRun'[j].cursor => m \in posts'
        BY <2>3, <2>4, <3>2, <4>2
      <4>5. syncRun'[j].state = "RUNNING"
        BY <2>3, <3>2
      <4>6. QED
        BY <4>3, <4>4, <4>5 DEF RunSound
    <3>3. QED
      BY <3>1, <3>2
  <2>9. \A j \in SyncKeys : syncRun[j].state # "NONE" => RunKept(j)
    BY <2>3 DEF RunKept
  <2>10. SlotSound(s)'
    <3>1. CASE EndsWalk(s)
      <4>1. slot' = [slot EXCEPT ![s] = Stopped(slot[s], "commit", "NONE")]
        BY <1>7, <3>1 DEF PersistPage
      <4>2. slot'[s].pc = "commit" /\ slot'[s].key = k
        BY <1>2, <1>5, <4>1
      <4>3. Promised(k) \subseteq posts'
        BY <2>5, <3>1
      <4>4. QED
        BY <2>3, <2>4, <4>2, <4>3 DEF SlotSound
    <3>2. CASE ~EndsWalk(s) /\ slot[s].visited + 1 = MaximumPages
      <4>1. slot' = [slot EXCEPT ![s] = Stopped(slot[s], "failRun", "TRANSIENT")]
        BY <1>7, <3>2 DEF PersistPage
      <4>2. slot'[s].pc = "failRun"
        BY <1>2, <1>5, <4>1
      <4>3. QED
        BY <4>2, SlotNotPaging
    <3>3. CASE ~EndsWalk(s) /\ slot[s].visited + 1 # MaximumPages
      <4>1. slot' = [slot EXCEPT ![s] =
                       [slot[s] EXCEPT !.pc = "fetch", !.after = CursorAfter(s), !.page = {},
                                       !.visited = slot[s].visited + 1]]
        BY <1>7, <3>3 DEF PersistPage
      <4>2. /\ slot'[s].pc = "fetch" /\ slot'[s].key = k /\ slot'[s].after = c
            /\ slot'[s].horizon = slot[s].horizon
        <5>1. PICK v : v = slot[s].visited + 1
          OBVIOUS
        <5>2. slot' = [slot EXCEPT ![s] = [slot[s] EXCEPT !.pc = "fetch", !.after = c, !.page = {},
                                                          !.visited = v]]
          BY <2>2, <4>1, <5>1
        <5>3. QED
          BY <1>2, <5>2 DEF SlotRows
      <4>3. slot[s].horizon = syncRun[k].horizon
        BY <1>2 DEF SlotSound
      <4>4. \A m \in Promised(k) : c # 0 /\ m >= c => m \in posts'
        BY <2>5, <2>6
      <4>5. QED
        BY <2>3, <2>4, <4>2, <4>3, <4>4 DEF SlotSound
    <3>4. QED
      BY <3>1, <3>2, <3>3
  <2>11. QED
    BY <1>3, <1>4, <2>7, <2>8, <2>9, <2>10, OneSlotFollows
<1>8. QED
  BY <1>6, <1>7

LEMMA EdgeInductive == RunsFollowTheEdge /\ [SyncNext]_syncVars => RunsFollowTheEdge'
<1>1. SUFFICES ASSUME RunsFollowTheEdge, [SyncNext]_syncVars PROVE RunsFollowTheEdge'
  OBVIOUS
<1>2. SyncTyped' /\ SyncTyped
  BY <1>1, SyncStaysTyped DEF RunsFollowTheEdge
<1>3. ASSUME NEW s \in Slots, ImportStep(s) \/ CrashSlot(s) PROVE RunsFollowTheEdge'
  <2>1. CASE LoadAccount(s)
    BY <1>1, <1>2, <2>1, LoadFollows
  <2>2. CASE OpenRun(s)
    BY <1>1, <1>2, <2>2, OpenFollows
  <2>3. CASE ReadCursor(s) \/ FetchPage(s)
    BY <1>1, <1>2, <2>3, FetchFollows
  <2>4. CASE PersistPage(s)
    BY <1>1, <1>2, <2>4, PersistFollows
  <2>5. QED
    BY <1>1, <1>2, <1>3, <2>1, <2>2, <2>3, <2>4, AttemptsThatStopFollow DEF ImportStep
<1>4. ASSUME NEW s \in Slots, NEW k \in SyncKeys, ClaimSync(s, k) PROVE RunsFollowTheEdge'
  <2>1. PICK me \in SlotRows : slot' = [slot EXCEPT ![s] = me] /\ me.pc = "load"
    BY <1>2, <1>4, ClaimMoves
  <2>2. SlotSound(s)'
    <3>1. slot'[s].pc = "load"
      BY <1>2, <2>1 DEF SyncTyped
    <3>2. QED
      BY <3>1, SlotNotPaging
  <2>3. UNCHANGED <<published, posts>> /\ \A j \in SyncKeys : syncRun'[j] = syncRun[j]
    BY <1>4 DEF ClaimSync
  <2>4. QED
    BY <1>1, <1>2, <2>1, <2>2, <2>3, RunsFollowUnmoved
<1>5. CASE \/ EnqueueDueSyncs \/ RequestInstagramSync \/ NextDay \/ Publish \/ ConnectionChanges
           \/ \E k \in SyncKeys : RecoverSync(k) \/ CancelSync(k) \/ RetrySync(k)
           \/ UNCHANGED syncVars
  <2>1. UNCHANGED <<posts, syncRun, slot>> /\ published \subseteq published'
    BY <1>5 DEF EnqueueDueSyncs, RequestInstagramSync, NextDay, Publish, ConnectionChanges,
                RecoverSync, CancelSync, RetrySync, syncVars
  <2>2. ASSUME NEW k \in SyncKeys PROVE RunSound(k)'
    BY <1>1, <2>1, RunStands DEF RunsFollowTheEdge
  <2>3. ASSUME NEW s \in Slots PROVE SlotSound(s)'
    <3>1. SlotSound(s) /\ slot'[s] = slot[s]
      BY <1>1, <2>1 DEF RunsFollowTheEdge
    <3>2. syncRun[slot[s].key].state # "NONE" => RunKept(slot[s].key)
      BY <2>1 DEF RunKept
    <3>3. QED
      BY <2>1, <3>1, <3>2, SlotStands
  <2>4. QED
    BY <1>2, <2>2, <2>3 DEF RunsFollowTheEdge
<1>6. QED
  BY <1>1, <1>3, <1>4, <1>5 DEF SyncNext

\* "Can never advance past records it did not store": whatever attempts, crashes
\* and late attempts moved a run's cursor, what it has passed of what the run
\* promised is stored, and a run that succeeded has stored all of it.
THEOREM RunsImportWhatTheyPromised == SyncSpec => []NoMediaSkipped
<1>1. RunsFollowTheEdge => NoMediaSkipped
  <2>1. SUFFICES ASSUME RunsFollowTheEdge, NEW k \in SyncKeys, NEW m \in Promised(k), m \notin posts
                 PROVE  /\ syncRun[k].state # "SUCCEEDED"
                        /\ syncRun[k].cursor = 0 \/ m < syncRun[k].cursor
    BY DEF NoMediaSkipped
  <2>2. RunSound(k) /\ syncRun[k].cursor \in Nat /\ syncRun[k].known \subseteq Nat
    BY <2>1 DEF RunsFollowTheEdge, SyncTyped, SyncRunRows
  <2>3. m \in Nat
    BY <2>1, <2>2 DEF Promised
  <2>4. QED
    BY <2>1, <2>2, <2>3 DEF RunSound
<1>2. QED
  BY <1>1, SyncSoundAtFirst, EdgeInductive, PTL DEF SyncSpec

-----------------------------------------------------------------------------
(* ProviderAnswers.  What the rules make of any answer.                    *)

LEMMA LastFound ==
  ASSUME NEW n \in Nat, NEW I, I \subseteq 1..n, I # {}
  PROVE  Max(I) \in I /\ \A i \in I : i <= Max(I)
<1>1. \E m \in I : \A i \in I : i <= m
  BY GreatestExists, I \subseteq 0..n
<1>2. \E m \in I : \A i \in I : m >= i
  BY <1>1
<1>3. QED
  BY <1>2 DEF Max

\* The last accepted item of a metric decides it: a value is one that was sent
\* and is not negative.
LEMMA GroupsAreRead ==
  ASSUME NEW items \in Seq(InsightItem), NEW group, group \subseteq canonicalMetrics,
         NEW o \in ReadInsightGroup(items, group)
  PROVE  /\ o = InsightObservation(o.metric, o.availability, o.value) /\ o.metric \in group
         /\ o.availability = "available" <=> o.value # Null
         /\ o.value # Null => /\ [metric |-> o.metric, value |-> o.value] \in Range(items)
                              /\ o.value >= 0
<1> DEFINE Heeded(m) == {i \in 1..Len(items) :
                             /\ items[i].metric = m
                             /\ NormaliseInsightItem(items[i], group) \in {"available", "unavailable"}}
           last(m) == IF Heeded(m) # {} THEN Max(Heeded(m)) ELSE 0
           Read(m) == IF last(m) = 0 \/ items[last(m)].value = Null
                      THEN InsightObservation(m, "unavailable", Null)
                      ELSE InsightObservation(m, "available", items[last(m)].value)
<1>1. PICK m \in group : o = Read(m)
  BY DEF ReadInsightGroup, SelectLastInSeq
<1>2. CASE last(m) = 0 \/ items[last(m)].value = Null
  BY <1>1, <1>2 DEF InsightObservation
<1>3. CASE last(m) # 0 /\ items[last(m)].value # Null
  <2>1. Heeded(m) # {} /\ Heeded(m) \subseteq 1..Len(items) /\ Len(items) \in Nat
    BY <1>3
  <2>2. last(m) \in Heeded(m)
    <3> HIDE DEF Heeded
    <3>1. QED
      BY <2>1, LastFound
  <2> DEFINE item == items[last(m)]
  <2>3. item \in InsightItem /\ item \in Range(items) /\ item.metric = m
    <3>1. last(m) \in 1..Len(items) /\ items[last(m)].metric = m
      BY <2>2
    <3> HIDE DEF last
    <3>2. QED
      BY <3>1 DEF Range
  <2>4. item = [metric |-> m, value |-> item.value] /\ item.value \in Int
    BY <2>3, <1>3 DEF InsightItem
  <2>5. item.value >= 0
    <3>1. NormaliseInsightItem(item, group) \in {"available", "unavailable"}
      BY <2>2
    <3>2. item.value # Null
      BY <1>3
    <3> HIDE DEF item
    <3>3. QED
      BY <3>1, <3>2, <2>4 DEF NormaliseInsightItem
  <2>6. o = InsightObservation(m, "available", item.value)
    BY <1>1, <1>3
  <2> HIDE DEF item
  <2>7. QED
    BY <2>3, <2>4, <2>5, <2>6, NullAssumption DEF InsightObservation
<1>4. QED
  BY <1>2, <1>3

Gathered(f, S) == UNION {f[i] : i \in S}

LEMMA InGathered ==
  ASSUME NEW S, NEW f
  PROVE  \A x : x \in Gathered(f, S) <=> \E i \in S : x \in f[i]
  BY DEF Gathered

\* An observation that may be stored, with its value among the given items.
Tells(o, items) ==
  /\ o = InsightObservation(o.metric, o.availability, o.value)
  /\ o.availability = "available" <=> o.value # Null
  /\ o.value # Null => /\ [metric |-> o.metric, value |-> o.value] \in Range(items)
                       /\ o.value >= 0

\* One observation of each metric of a group.
OneEach(observations, group) ==
  /\ {o.metric : o \in observations} = group
  /\ \A o, p \in observations : o.metric = p.metric => o = p

LEMMA RefusalsTellNothing ==
  ASSUME NEW group, NEW availability, availability # "available", NEW items
  PROVE  /\ OneEach(FailedGroupObservations(group, availability), group)
         /\ \A o \in FailedGroupObservations(group, availability) : Tells(o, items)
<1> DEFINE Told(m) == InsightObservation(m, availability, Null)
           told == {Told(m) : m \in group}
<1>1. \A m \in group : Told(m).metric = m /\ Tells(Told(m), items)
  BY DEF InsightObservation, Tells
<1> HIDE DEF Told
<1>2. OneEach(told, group)
  BY <1>1 DEF OneEach
<1>3. \A o \in told : Tells(o, items)
  BY <1>1
<1>4. QED
  BY <1>2, <1>3 DEF Told, FailedGroupObservations

LEMMA GroupsTellOnce ==
  ASSUME NEW answer \in GroupAnswer, NEW group, group \subseteq canonicalMetrics
  PROVE  /\ OneEach(ReadGroup(answer, group), group)
         /\ \A o \in ReadGroup(answer, group) : Tells(o, answer.items)
<1>1. CASE answer.class = "group"
  <2>1. ReadGroup(answer, group) = ReadInsightGroup(answer.items, group)
    BY <1>1 DEF ReadGroup
  <2>2. answer.items \in Seq(InsightItem)
    BY DEF GroupAnswer
  <2>3. \A o \in ReadGroup(answer, group) : Tells(o, answer.items) /\ o.metric \in group
    <3> SUFFICES ASSUME NEW o \in ReadInsightGroup(answer.items, group)
                 PROVE  Tells(o, answer.items) /\ o.metric \in group
      BY <2>1
    <3>1. /\ o = InsightObservation(o.metric, o.availability, o.value) /\ o.metric \in group
          /\ o.availability = "available" <=> o.value # Null
          /\ o.value # Null => /\ [metric |-> o.metric, value |-> o.value] \in Range(answer.items)
                               /\ o.value >= 0
      BY <2>2, GroupsAreRead
    <3>2. QED
      BY <3>1 DEF Tells
  <2>4. PICK F : /\ ReadInsightGroup(answer.items, group) = {F[m] : m \in group}
                 /\ \A m \in group : F[m].metric = m
    <3> DEFINE last(m) == SelectLastInSeq(answer.items, LAMBDA i :
                  /\ i.metric = m
                  /\ NormaliseInsightItem(i, group) \in {"available", "unavailable"})
               Read(m) == IF last(m) = 0 \/ answer.items[last(m)].value = Null
                          THEN InsightObservation(m, "unavailable", Null)
                          ELSE InsightObservation(m, "available", answer.items[last(m)].value)
    <3>1. ReadInsightGroup(answer.items, group) = {Read(m) : m \in group}
      BY DEF ReadInsightGroup
    <3> HIDE DEF last
    <3>2. \A m \in group : Read(m).metric = m
      BY DEF InsightObservation
    <3> HIDE DEF Read
    <3>3. WITNESS [m \in group |-> Read(m)]
    <3>4. QED
      BY <3>1, <3>2
  <2>5. QED
    BY <2>1, <2>3, <2>4 DEF OneEach
<1>2. CASE answer.class # "group"
  <2>1. ReadGroup(answer, group)
          = FailedGroupObservations(group, GroupFailureAvailability(answer.class))
    BY <1>2 DEF ReadGroup
  <2>2. GroupFailureAvailability(answer.class) # "available"
    <3>1. GroupFailureAvailability(answer.class)
            \in {"permission_missing", "not_applicable", "provider_error"}
      BY Zenon DEF GroupFailureAvailability
    <3>2. QED
      BY <3>1
  <2>3. QED
    BY <2>1, <2>2, RefusalsTellNothing
<1>3. QED
  BY <1>1, <1>2

\* The metrics of a Reel are split between its groups and what is not requested.
Unrequested == canonicalMetrics \ RequestedMetrics("REEL")

LEMMA MetricsAreSplit ==
  /\ DOMAIN reelGroups = 1..4
  /\ \A g \in 1..4 : reelGroups[g] \subseteq canonicalMetrics
  /\ \A g, h \in 1..4 : g # h => reelGroups[g] \cap reelGroups[h] = {}
  /\ \A g \in 1..4 : reelGroups[g] \cap Unrequested = {}
  /\ canonicalMetrics = Gathered(reelGroups, 1..4) \cup Unrequested
<1>1. DOMAIN reelGroups = 1..4
  BY DEF reelGroups
<1>2. /\ reelGroups[1] \subseteq canonicalMetrics /\ reelGroups[2] \subseteq canonicalMetrics
      /\ reelGroups[3] \subseteq canonicalMetrics /\ reelGroups[4] \subseteq canonicalMetrics
  BY DEF reelGroups, canonicalMetrics
<1>3. \A g \in 1..4 : g = 1 \/ g = 2 \/ g = 3 \/ g = 4
  OBVIOUS
<1>4. \A g, h \in 1..4 : g # h => reelGroups[g] \cap reelGroups[h] = {}
  BY <1>3 DEF reelGroups
<1>5. RequestedMetrics("REEL") = Gathered(reelGroups, 1..4)
  BY <1>1 DEF RequestedMetrics, InsightGroups, Range, Gathered
<1>6. \A g \in 1..4 : reelGroups[g] \subseteq canonicalMetrics
  BY <1>2, <1>3
<1>7. \A g \in 1..4 : reelGroups[g] \cap Unrequested = {}
  <2>1. \A g \in 1..4 : \A m \in reelGroups[g] : m \in RequestedMetrics("REEL")
    BY <1>5, InGathered
  <2>2. QED
    BY <2>1 DEF Unrequested
<1>8. canonicalMetrics = Gathered(reelGroups, 1..4) \cup Unrequested
  <2>1. \A m \in Gathered(reelGroups, 1..4) : m \in canonicalMetrics
    BY <1>6, InGathered
  <2>2. QED
    BY <1>5, <2>1 DEF Unrequested
<1>9. QED
  BY <1>1, <1>4, <1>6, <1>7, <1>8

LEMMA CapturesTellOnce ==
  ASSUME NEW answers \in [1..4 -> GroupAnswer]
  PROVE  /\ OneEach(CapturedObservations(answers), canonicalMetrics)
         /\ \A o \in CapturedObservations(answers) : \E g \in 1..4 : Tells(o, answers[g].items)
<1> DEFINE R == [g \in 1..4 |-> ReadGroup(answers[g], reelGroups[g])]
           U == UnrequestedObservations("REEL")
           seen == CapturedObservations(answers)
<1>1. \A o : o \in seen <=> (\E g \in 1..4 : o \in R[g]) \/ o \in U
  <2> DEFINE read == UNION {ReadGroup(answers[g], reelGroups[g]) : g \in DOMAIN reelGroups}
  <2>1. \A o : o \in read => \E g \in 1..4 : o \in R[g]
    BY MetricsAreSplit
  <2>2. \A g \in 1..4 : \A o \in R[g] : o \in read
    BY MetricsAreSplit
  <2>3. CapturedObservations(answers) = UnrequestedObservations("REEL") \cup read
    BY DEF CapturedObservations
  <2> HIDE DEF R, read
  <2>4. QED
    BY <2>1, <2>2, <2>3 DEF seen, U
<1>2. \A g \in 1..4 : OneEach(R[g], reelGroups[g]) /\ \A o \in R[g] : Tells(o, answers[g].items)
  BY MetricsAreSplit, GroupsTellOnce
<1>3. OneEach(U, Unrequested) /\ \A o \in U : Tells(o, answers[1].items)
  <2>1. U = FailedGroupObservations(Unrequested, "not_requested")
    BY DEF UnrequestedObservations, FailedGroupObservations, Unrequested
  <2> HIDE DEF U
  <2>2. "not_requested" # "available"
    OBVIOUS
  <2>3. /\ OneEach(FailedGroupObservations(Unrequested, "not_requested"), Unrequested)
        /\ \A o \in FailedGroupObservations(Unrequested, "not_requested") :
             Tells(o, answers[1].items)
    BY <2>2, RefusalsTellNothing
  <2>4. QED
    BY <2>1, <2>3
<1> HIDE DEF R, U, seen
<1>0. \A m : m \in canonicalMetrics <=> (\E g \in 1..4 : m \in reelGroups[g]) \/ m \in Unrequested
  BY MetricsAreSplit, InGathered
<1>4. \A o \in seen : \E g \in 1..4 : Tells(o, answers[g].items)
  BY <1>1, <1>2, <1>3
<1>5. {o.metric : o \in seen} = canonicalMetrics
  <2>1. \A g \in 1..4 : {o.metric : o \in R[g]} = reelGroups[g]
    BY <1>2 DEF OneEach
  <2>2. {o.metric : o \in U} = Unrequested
    BY <1>3 DEF OneEach
  <2>3. \A o \in seen : o.metric \in canonicalMetrics
    BY <1>1, <1>0, <2>1, <2>2
  <2>4. \A m \in canonicalMetrics : \E o \in seen : o.metric = m
    BY <1>1, <1>0, <2>1, <2>2
  <2>5. QED
    BY <2>3, <2>4
<1>6. ASSUME NEW o \in seen, NEW p \in seen, o.metric = p.metric PROVE o = p
  <2>1. \A g \in 1..4 : \A q \in R[g] : q.metric \in reelGroups[g]
    BY <1>2 DEF OneEach
  <2>2. \A q \in U : q.metric \in Unrequested
    BY <1>3 DEF OneEach
  <2>3. CASE o \in U
    <3>1. \A g \in 1..4 : p \notin R[g]
      BY <1>6, <2>1, <2>2, <2>3, MetricsAreSplit
    <3>2. p \in U
      BY <1>1, <3>1
    <3>3. QED
      BY <1>3, <1>6, <2>3, <3>2 DEF OneEach
  <2>4. CASE o \notin U
    <3>1. PICK g \in 1..4 : o \in R[g]
      BY <1>1, <2>4
    <3>2. p \in R[g]
      <4>1. p \notin U
        BY <1>6, <2>1, <2>2, <3>1, MetricsAreSplit
      <4>2. PICK h \in 1..4 : p \in R[h]
        BY <1>1, <4>1
      <4>3. h = g
        BY <1>6, <2>1, <3>1, <4>2, MetricsAreSplit
      <4>4. QED
        BY <4>2, <4>3
    <3>3. QED
      BY <1>2, <1>6, <3>1, <3>2 DEF OneEach
  <2>5. QED
    BY <2>3, <2>4
<1>7. QED
  BY <1>4, <1>5, <1>6 DEF OneEach, seen

\* What is stored reads back as it was.
LEMMA ColumnsReadBack ==
  ASSUME NEW seen, NEW named, OneEach(seen, named),
         \A o \in seen : \E items : Tells(o, items)
  PROVE  ReadObservations(ToColumns(seen)) = seen
<1> DEFINE row == ToColumns(seen)
           Read(m) == InsightObservation(m, row[m].availability,
                        IF row[m].availability = "available" THEN row[m].column ELSE Null)
<1>1. DOMAIN row = named
  BY DEF ToColumns, OneEach
<1>2. ASSUME NEW o \in seen PROVE o.metric \in named /\ Read(o.metric) = o
  <2>1. o.metric \in named
    BY DEF OneEach
  <2>2. (CHOOSE p \in seen : p.metric = o.metric) = o
    BY DEF OneEach
  <2>3. row[o.metric] = [availability |-> o.availability,
                         column |-> IF o.availability = "available" THEN o.value ELSE Null]
    BY <2>1, <2>2 DEF ToColumns, OneEach
  <2>4. /\ o = InsightObservation(o.metric, o.availability, o.value)
        /\ o.availability = "available" <=> o.value # Null
    BY DEF Tells
  <2> HIDE DEF row
  <2>5. QED
    BY <2>1, <2>3, <2>4
<1>3. ReadObservations(row) = {Read(m) : m \in named}
  BY <1>1 DEF ReadObservations
<1>4. \A m \in named : \E o \in seen : o.metric = m
  BY DEF OneEach
<1> HIDE DEF row, Read
<1>5. {Read(m) : m \in named} = seen
  BY <1>2, <1>4
<1>6. QED
  BY <1>3, <1>5 DEF row

\* A search stops at the first place that passes, or at 0.
FirstPlace(I) == IF I # {} THEN Min(I) ELSE 0

LEMMA FirstPlaceFound ==
  ASSUME NEW I, I \subseteq Nat
  PROVE  FirstPlace(I) # 0 => FirstPlace(I) \in I /\ \A i \in I : FirstPlace(I) <= i
  BY LeastExists DEF FirstPlace, Min

LEMMA BodyOfHop ==
  ASSUME NEW hop,
         (CASE ~AllowedMediaUrl(hop.url) -> <<"not_allowed", FALSE>>
            [] AllowedMediaUrl(hop.url) /\ ~hop.reached -> <<"failed", TRUE>>
            [] OTHER ->
               IF hop.status \in 300..399 THEN <<"failed", FALSE>>
               ELSE IF hop.status # 200
                 THEN <<"failed", hop.status \in {403, 404} \/ hop.status >= 500>>
               ELSE IF hop.body THEN <<"body", TRUE>> ELSE <<"failed", TRUE>>)[1] = "body"
  PROVE  AllowedMediaUrl(hop.url) /\ hop.reached /\ hop.status = 200
<1>1. CASE ~AllowedMediaUrl(hop.url)
  BY <1>1
<1>2. CASE AllowedMediaUrl(hop.url) /\ ~hop.reached
  BY <1>2
<1>3. CASE AllowedMediaUrl(hop.url) /\ hop.reached
  BY <1>3
<1>4. QED
  BY <1>1, <1>2, <1>3

LEMMA BodiesComeFromAllowedPlaces ==
  ASSUME NEW hops, Len(hops) \in Nat, DOMAIN hops = 1..Len(hops), OpenDownload(hops)[1] = "body"
  PROVE  \E n \in 1..4 :
           /\ n <= Len(hops) /\ hops[n].status = 200 /\ hops[n].reached
           /\ \A i \in 1..n : AllowedMediaUrl(hops[i].url)
           /\ \A i \in 1..(n - 1) : hops[i].status \in 300..399
<1> DEFINE stops(i) == ~AllowedMediaUrl(hops[i].url) \/ ~hops[i].reached
                       \/ hops[i].status \notin 300..399 \/ ~hops[i].location
           marks == [i \in DOMAIN hops |-> stops(i)]
           Stops == {i \in 1..Len(hops) : stops(i)}
           last == SelectInSeq(marks, LAMBDA s : s)
<1>1. last # 0 /\ ~(last > 4)
  BY DEF OpenDownload
<1>2. AllowedMediaUrl(hops[last].url) /\ hops[last].reached /\ hops[last].status = 200
  <2> DEFINE Verdict(hop) ==
               CASE ~AllowedMediaUrl(hop.url) -> <<"not_allowed", FALSE>>
                 [] AllowedMediaUrl(hop.url) /\ ~hop.reached -> <<"failed", TRUE>>
                 [] OTHER ->
                    IF hop.status \in 300..399 THEN <<"failed", FALSE>>
                    ELSE IF hop.status # 200
                      THEN <<"failed", hop.status \in {403, 404} \/ hop.status >= 500>>
                    ELSE IF hop.body THEN <<"body", TRUE>> ELSE <<"failed", TRUE>>
  <2>1. OpenDownload(hops)
          = IF last = 0 \/ last > 4 THEN <<"failed", FALSE>> ELSE Verdict(hops[last])
    BY DEF OpenDownload
  <2>2. \A hop : Verdict(hop)[1] = "body" =>
                   AllowedMediaUrl(hop.url) /\ hop.reached /\ hop.status = 200
    BY BodyOfHop
  <2> HIDE DEF Verdict, last
  <2>3. QED
    BY <1>1, <2>1, <2>2
<1>3. last = FirstPlace(Stops)
  <2>1. Len(marks) = Len(hops) /\ \A i \in 1..Len(hops) : marks[i] = stops(i)
    OBVIOUS
  <2>2. {i \in 1..Len(marks) : marks[i]} = Stops
    BY <2>1
  <2>3. last = FirstPlace({i \in 1..Len(marks) : marks[i]})
    BY DEF SelectInSeq, FirstPlace
  <2>4. QED
    BY <2>2, <2>3
<1> HIDE DEF last
<1>4. last \in Stops /\ \A i \in Stops : last <= i
  <2>1. Stops \subseteq Nat
    OBVIOUS
  <2> HIDE DEF Stops
  <2>2. QED
    BY <1>1, <1>3, <2>1, FirstPlaceFound
<1>5. last \in 1..4 /\ last <= Len(hops)
  BY <1>1, <1>4
<1>6. \A i \in 1..(last - 1) : ~stops(i)
  <2>1. \A i \in 1..(last - 1) : i \in 1..Len(hops) /\ ~(last <= i)
    BY <1>5
  <2>2. QED
    BY <1>4, <2>1
<1>7. \A i \in 1..last : AllowedMediaUrl(hops[i].url)
  <2>1. \A i \in 1..last : i = last \/ i \in 1..(last - 1)
    BY <1>5
  <2>2. QED
    BY <1>2, <1>6, <2>1
<1>8. QED
  BY <1>2, <1>5, <1>6, <1>7

LEMMA Inductive ==
  ASSUME NEW T, 0 \in T, \A n \in Nat : n \in T => n + 1 \in T
  PROVE  Nat \subseteq T
<1> DEFINE U == Nat \ T
<1> SUFFICES ASSUME U # {} PROVE FALSE
  OBVIOUS
<1>1. PICK n \in U : \A m \in U : n <= m
  BY LeastExists, U \subseteq Nat
<1>2. n \in Nat /\ n # 0 /\ n \notin T
  BY <1>1
<1>3. n - 1 \in Nat /\ n = (n - 1) + 1
  BY <1>2
<1>4. n - 1 \notin U
  <2>1. ~(n <= n - 1)
    BY <1>3
  <2> HIDE DEF U
  <2>2. QED
    BY <1>1, <2>1
<1>5. QED
  BY <1>2, <1>3, <1>4

\* The running sums of a stream: every chunk adds its bytes.
Sums(f, chunks) == f = [n \in 0..Len(chunks) |-> IF n = 0 THEN 0 ELSE f[n - 1] + chunks[n]]

SumsTo(f, chunks, n) ==
  f \in [0..n -> Nat] /\ \A m \in 0..n : f[m] = IF m = 0 THEN 0 ELSE f[m - 1] + chunks[m]

LEMMA SumsExist ==
  ASSUME NEW chunks \in Seq(Nat)
  PROVE  \E f : SumsTo(f, chunks, Len(chunks))
<1> DEFINE T == {n \in Nat : n <= Len(chunks) => \E f : SumsTo(f, chunks, n)}
<1>1. 0 \in T
  <2>1. SumsTo([m \in 0..0 |-> 0], chunks, 0)
    BY DEF SumsTo
  <2>2. QED
    BY <2>1
<1>2. ASSUME NEW n \in Nat, n \in T PROVE n + 1 \in T
  <2> SUFFICES ASSUME n + 1 <= Len(chunks) PROVE \E f : SumsTo(f, chunks, n + 1)
    BY <1>2
  <2>1. PICK f : SumsTo(f, chunks, n)
    BY <1>2
  <2>2. chunks[n + 1] \in Nat /\ f[n] \in Nat
    BY <2>1 DEF SumsTo
  <2> DEFINE g == [m \in 0..(n + 1) |-> IF m = n + 1 THEN f[n] + chunks[n + 1] ELSE f[m]]
  <2>3. g \in [0..(n + 1) -> Nat]
    BY <2>1, <2>2 DEF SumsTo
  <2>4. ASSUME NEW m \in 0..(n + 1)
        PROVE  g[m] = IF m = 0 THEN 0 ELSE g[m - 1] + chunks[m]
    <3>1. CASE m = n + 1
      <4>1. g[m] = f[n] + chunks[n + 1] /\ g[n] = f[n] /\ m - 1 = n /\ m # 0
        BY <3>1
      <4>2. QED
        BY <3>1, <4>1
    <3>2. CASE m \in 0..n
      <4>1. g[m] = f[m] /\ (m # 0 => m - 1 \in 0..n /\ g[m - 1] = f[m - 1])
        BY <3>2
      <4> HIDE DEF g
      <4>2. QED
        BY <2>1, <3>2, <4>1 DEF SumsTo
    <3>3. QED
      BY <3>1, <3>2
  <2>5. SumsTo(g, chunks, n + 1)
    BY <2>3, <2>4 DEF SumsTo
  <2>6. QED
    BY <2>5
<1>3. Nat \subseteq T
  <2> HIDE DEF T
  <2>1. QED
    BY <1>1, <1>2, Inductive
<1>4. Len(chunks) \in T
  <2>1. Len(chunks) \in Nat
    OBVIOUS
  <2> HIDE DEF T
  <2>2. QED
    BY <1>3, <2>1
<1>5. QED
  BY <1>4

LEMMA StreamsHaveALength ==
  ASSUME NEW chunks \in Seq(Nat)
  PROVE  Streamed(chunks) \in Nat
<1> DEFINE upTo == CHOOSE f : Sums(f, chunks)
<1>1. Streamed(chunks) = upTo[Len(chunks)]
  BY DEF Streamed, Sums
<1>2. PICK f : SumsTo(f, chunks, Len(chunks))
  BY SumsExist
<1>3. Sums(f, chunks)
  BY <1>2 DEF SumsTo, Sums
<1>4. Sums(upTo, chunks)
  BY <1>3
<1> HIDE DEF upTo
<1> DEFINE T == {n \in Nat : n <= Len(chunks) => upTo[n] \in Nat}
<1>5. \A n \in 0..Len(chunks) : upTo[n] = IF n = 0 THEN 0 ELSE upTo[n - 1] + chunks[n]
  BY <1>4 DEF Sums
<1>6. 0 \in T
  BY <1>5
<1>7. ASSUME NEW n \in Nat, n \in T PROVE n + 1 \in T
  <2> SUFFICES ASSUME n + 1 <= Len(chunks) PROVE upTo[n + 1] \in Nat
    OBVIOUS
  <2>1. upTo[n] \in Nat /\ chunks[n + 1] \in Nat
    BY <1>7
  <2>2. upTo[n + 1] = upTo[n] + chunks[n + 1]
    BY <1>5
  <2>3. QED
    BY <2>1, <2>2
<1>8. Nat \subseteq T
  <2> HIDE DEF T
  <2>1. QED
    BY <1>6, <1>7, Inductive
<1>9. QED
  <2>1. Len(chunks) \in T
    <3>1. Len(chunks) \in Nat
      OBVIOUS
    <3> HIDE DEF T
    <3>2. QED
      BY <1>8, <3>1
  <2>2. QED
    BY <1>1, <2>1

LEMMA AcceptedFilesFit ==
  ASSUME NEW f \in JudgedFile, {ProbeLimits.smallest, ProbeLimits.largest} \subseteq Nat,
         EvaluateProbedMedia([f.evidence EXCEPT !.header = DetectContainerFamily(f.header)],
                             ProbeLimits) = "accepted"
  PROVE  /\ DeclaredFamily(f.evidence.declared) = DetectContainerFamily(f.header)
         /\ ProbedFamily(f.evidence.formats) = DetectContainerFamily(f.header)
         /\ f.evidence.seconds \in ProbeLimits.seconds
         /\ {f.evidence.width, f.evidence.height} \subseteq ProbeLimits.smallest..ProbeLimits.largest
<1> DEFINE e == f.evidence
           judged == [f.evidence EXCEPT !.header = DetectContainerFamily(f.header)]
<1>1. e \in Evidence
  BY DEF JudgedFile
<1>2. /\ judged.header = DetectContainerFamily(f.header)
      /\ judged.declared = e.declared /\ judged.formats = e.formats
      /\ judged.seconds = e.seconds /\ judged.width = e.width /\ judged.height = e.height
      /\ judged.video = e.video /\ judged.audio = e.audio
  BY <1>1 DEF Evidence
<1>3. EvaluateProbedMedia(judged, ProbeLimits) = "accepted"
  OBVIOUS
<1>4. e.width \in Int /\ e.height \in Int
  BY <1>1 DEF Evidence
<1> HIDE DEF e, judged
<1>5. /\ DeclaredFamily(judged.declared) = judged.header
      /\ ProbedFamily(judged.formats) = judged.header
      /\ judged.seconds \in ProbeLimits.seconds
      /\ ~(Least(judged.width, judged.height) < ProbeLimits.smallest)
      /\ ~(Greatest(judged.width, judged.height) > ProbeLimits.largest)
  BY <1>3 DEF EvaluateProbedMedia
<1>6. {e.width, e.height} \subseteq ProbeLimits.smallest..ProbeLimits.largest
  BY <1>2, <1>4, <1>5 DEF Least, Greatest
<1>7. QED
  BY <1>2, <1>5, <1>6 DEF e

LEMMA VerdictsFollowFiles ==
  ASSUME NEW f \in JudgedFile,
         {ProbeLimits.smallest, ProbeLimits.largest, ProbeLimits.bytes} \subseteq Nat
  PROVE  LET e == f.evidence
             fits == 1..ProbeLimits.bytes
             verdict == decideVerdict(f, ProbeLimits)
         IN /\ verdict = "accepted" =>
                 /\ DeclaredFamily(e.declared) = DetectContainerFamily(f.header)
                 /\ ProbedFamily(e.formats) = DetectContainerFamily(f.header)
                 /\ e.seconds \in ProbeLimits.seconds
                 /\ {e.width, e.height} \subseteq ProbeLimits.smallest..ProbeLimits.largest
                 /\ f.present /\ f.checksum /\ Streamed(f.chunks) \in fits
            /\ verdict \notin {"accepted", "fails"} /\ f.recorded \in fits =>
                 f.present /\ (Streamed(f.chunks) \in fits /\ f.checksum => f.exit \in {"ok", "error"})
<1> DEFINE verdict == decideVerdict(f, ProbeLimits)
           final == EvaluateProbedMedia(
                      [f.evidence EXCEPT !.header = DetectContainerFamily(f.header)], ProbeLimits)
           probed == ProbeOutcome(f.exit, f.report)
<1>1. Streamed(f.chunks) \in Nat /\ f.recorded \in Nat /\ ProbeLimits.bytes \in Nat
  BY StreamsHaveALength DEF JudgedFile
<1>2. f.exit \in {"missing", "killed", "overflow"} => probed \in {"throws", "TIMED_OUT"}
  BY DEF ProbeOutcome
<1>3. f.exit \in {"ok", "missing", "killed", "overflow", "error"}
  BY DEF JudgedFile
<1>4. verdict = IF f.recorded <= 0 THEN "EMPTY_OBJECT"
                ELSE IF f.recorded > ProbeLimits.bytes THEN "BYTES_EXCEEDED"
                ELSE IF ~f.present THEN "fails"
                ELSE IF ~(Streamed(f.chunks) <= ProbeLimits.bytes) THEN "BYTES_EXCEEDED"
                ELSE IF Streamed(f.chunks) = 0 THEN "EMPTY_OBJECT"
                ELSE IF ~f.checksum THEN "CHECKSUM_MISMATCH"
                ELSE IF probed \in {"throws", "TIMED_OUT"} THEN "fails"
                ELSE IF probed # "ok" THEN probed
                ELSE final
  BY DEF decideVerdict, StreamWithin
<1>5. f.exit = "ok" \/ f.exit = "error" => probed # "accepted"
  BY DEF ProbeOutcome, InterpretProbeOutput
<1> HIDE DEF verdict, final, probed
<1>6. ASSUME verdict = "accepted"
      PROVE  /\ final = "accepted"
             /\ f.present /\ f.checksum /\ Streamed(f.chunks) \in 1..ProbeLimits.bytes
  BY <1>1, <1>2, <1>3, <1>4, <1>5, <1>6
<1>7. ASSUME verdict \notin {"accepted", "fails"}, f.recorded \in 1..ProbeLimits.bytes
      PROVE  f.present /\ (Streamed(f.chunks) \in 1..ProbeLimits.bytes /\ f.checksum
                             => f.exit \in {"ok", "error"})
  BY <1>1, <1>2, <1>3, <1>4, <1>7
<1>8. QED
  BY <1>6, <1>7, AcceptedFilesFit DEF verdict, final

\* A credential opens where it was sealed.
LEMMA SealsOpenAtHome ==
  ASSUME NEW s \in Seal, s.version > 0 => Arrived(s) # Null, Null # "token"
  PROVE  LET keys == [v \in s.ring |-> <<v, FALSE>>]
             opened == DecryptCredential(Context("w", "INSTAGRAM", s.openedFor), keys, Arrived(s))
         IN /\ opened = "token" <=> /\ s.version \in s.ring /\ s.sealedFor = s.openedFor
                                    /\ s.intact /\ ~s.replaced
            /\ opened = "KEY_VERSION_UNAVAILABLE" <=> s.version > 0 /\ s.version \notin s.ring
<1> DEFINE keys == [v \in s.ring |-> <<v, FALSE>>]
           box == Arrived(s)
           home == Context("w", "INSTAGRAM", s.openedFor)
           opened == DecryptCredential(home, keys, box)
<1>1. /\ s.version \in Nat /\ s.ring \subseteq Nat \ {0}
      /\ s.intact \in BOOLEAN /\ s.replaced \in BOOLEAN
  BY DEF Seal
<1>2. CASE s.version = 0
  <2>1. box = Null
    BY <1>2 DEF Arrived, Sealed, EncryptCredential
  <2>2. opened = "ENVELOPE_MALFORMED"
    BY <2>1 DEF DecryptCredential
  <2>3. QED
    BY <1>1, <1>2, <2>2
<1>3. CASE s.version # 0
  <2> DEFINE sealed(intact) ==
               [format |-> 1, keyVersion |-> s.version, key |-> <<s.version, s.replaced>>,
                context |-> Context("w", "INSTAGRAM", s.sealedFor), plaintext |-> "token",
                intact |-> intact]
  <2>1. Sealed(s) = sealed(TRUE)
    BY <1>1, <1>3 DEF Sealed, EncryptCredential
  <2>2. box = sealed(s.intact)
    BY <2>1, <1>3 DEF Arrived
  <2>3. box # Null
    BY <1>1, <1>3
  <2> HIDE DEF box
  <2>4. opened = IF s.version \notin s.ring THEN "KEY_VERSION_UNAVAILABLE"
                 ELSE IF \/ ~s.intact \/ s.sealedFor # s.openedFor \/ s.replaced
                   THEN "AUTHENTICATION_FAILED" ELSE "token"
    <3>1. DOMAIN keys = s.ring /\ \A v \in s.ring : keys[v] = <<v, FALSE>>
      OBVIOUS
    <3>2. <<s.version, s.replaced>> = <<s.version, FALSE>> <=> ~s.replaced
      BY <1>1
    <3>3. Context("w", "INSTAGRAM", s.sealedFor) = home <=> s.sealedFor = s.openedFor
      BY DEF Context
    <3> HIDE DEF keys, home
    <3>4. QED
      BY <2>2, <2>3, <3>1, <3>2, <3>3 DEF DecryptCredential
  <2>5. s.version > 0
    BY <1>1, <1>3
  <2> HIDE DEF opened
  <2>6. /\ opened = "token" <=> /\ s.version \in s.ring /\ s.sealedFor = s.openedFor
                               /\ s.intact /\ ~s.replaced
        /\ opened = "KEY_VERSION_UNAVAILABLE" <=> s.version > 0 /\ s.version \notin s.ring
    BY <2>4, <2>5
  <2>7. QED
    BY <2>6 DEF opened, box
<1>4. QED
  BY <1>2, <1>3

LEMMA OutagesAreNoRefusals ==
  ASSUME NEW a \in TokenAnswer, NEW refresh
  PROVE  LET outcome == IF refresh THEN RefreshOutcome(a) ELSE ValidateOutcome(a)
         IN (IF outcome = "OK" THEN "none" ELSE MaintenanceFailure(outcome)) = "reauthorise" =>
              /\ a.reached
              /\ a.status \in {401, 403} \/ a.code \in {10, 102, 190} \/ a.code \in 200..299
  BY DEF RefreshOutcome, ValidateOutcome, MaintenanceFailure, ClassifyTokenResponse,
         ClassifyInstagramResponse, TokenAnswer

LEMMA ThreadsAddUp ==
  ASSUME NEW top, NEW replies, Len(replies) \in Nat, DOMAIN replies = 1..Len(replies)
  PROVE  LET result == NormaliseComment(top, replies)
         IN result.comments > 0 => result.comments + result.rejected = 1 + Len(replies)
<1> DEFINE readable == {i \in DOMAIN replies : NormaliseOneComment(replies[i]) = "OK"}
           result == NormaliseComment(top, replies)
<1>1. CASE NormaliseOneComment(top) # "OK"
  BY <1>1 DEF NormaliseComment
<1>2. CASE NormaliseOneComment(top) = "OK"
  <2>1. result = [comments |-> 1 + Cardinality(readable),
                  rejected |-> Cardinality(DOMAIN replies \ readable)]
    BY <1>2 DEF NormaliseComment
  <2>2. IsFiniteSet(DOMAIN replies) /\ Cardinality(DOMAIN replies) = Len(replies)
    <3>1. /\ IsFiniteSet(1..Len(replies))
          /\ Cardinality(1..Len(replies)) = IF 1 > Len(replies) THEN 0 ELSE Len(replies) - 1 + 1
      BY FS_Interval
    <3>2. QED
      BY <3>1
  <2>3. readable \subseteq DOMAIN replies
    OBVIOUS
  <2> HIDE DEF readable, result
  <2>4. /\ IsFiniteSet(readable) /\ IsFiniteSet(DOMAIN replies \ readable)
        /\ Cardinality(readable) \in Nat
        /\ Cardinality(DOMAIN replies \ readable) = Len(replies) - Cardinality(readable)
    <3>1. DOMAIN replies \cap readable = readable
      BY <2>3
    <3>2. IsFiniteSet(readable) /\ Cardinality(readable) \in Nat
      BY <2>2, <2>3, FS_Subset, FS_CardinalityType
    <3>3. /\ IsFiniteSet(DOMAIN replies \ readable)
          /\ Cardinality(DOMAIN replies \ readable)
               = Cardinality(DOMAIN replies) - Cardinality(DOMAIN replies \cap readable)
      BY <2>2, FS_Difference
    <3>4. QED
      BY <2>2, <3>1, <3>2, <3>3
  <2>5. QED
    BY <2>1, <2>4 DEF result
<1>3. QED
  BY <1>1, <1>2

\* What was heard is an answer that may come.
HeardIsGiven ==
  /\ heard.rule = "insights" => heard.answers \in InsightCalls
  /\ heard.rule = "download" => heard.hops \in Downloads
  /\ heard.rule = "file" => heard.file \in JudgedFiles
  /\ heard.rule = "credential" => heard.seal \in Seals
  /\ heard.rule = "token" => heard.answer \in TokenCalls
  /\ heard.rule = "thread" => heard.thread \in Threads

LEMMA GivenAnswersAreRead == HeardIsGiven => AnswersAreReadAsGiven
<1> SUFFICES ASSUME HeardIsGiven PROVE AnswersAreReadAsGiven
  OBVIOUS
<1>1. InsightsAreNotInvented
  <2> SUFFICES ASSUME heard.rule = "insights" PROVE InsightsAreNotInvented
    BY DEF InsightsAreNotInvented
  <2> DEFINE answers == heard.answers
             seen == CapturedObservations(answers)
             Sent == UNION {Range(heard.answers[g].items) : g \in DOMAIN heard.answers}
  <2>1. answers \in [1..4 -> GroupAnswer]
    BY AnswersAssumption DEF HeardIsGiven
  <2> HIDE DEF answers
  <2>2. /\ OneEach(seen, canonicalMetrics)
        /\ \A o \in seen : \E g \in 1..4 : Tells(o, answers[g].items)
    BY <2>1, CapturesTellOnce
  <2>3. \A g \in 1..4 : \A v \in Range(answers[g].items) : v \in Sent
    BY <2>1 DEF answers
  <2> HIDE DEF seen, Sent
  <2>4. \A o \in seen : \E items : Tells(o, items)
    BY <2>2
  <2>5. ReadObservations(ToColumns(seen)) = seen
    BY <2>2, <2>4, ColumnsReadBack
  <2>6. ASSUME NEW o \in seen
        PROVE  /\ o.availability = "available" <=> o.value # Null
               /\ o.value # Null => [metric |-> o.metric, value |-> o.value] \in Sent /\ o.value >= 0
    <3>1. PICK g \in 1..4 : Tells(o, answers[g].items)
      BY <2>2
    <3>2. QED
      BY <2>3, <3>1 DEF Tells
  <2>7. {o.metric : o \in seen} = canonicalMetrics /\ \A o, p \in seen : o.metric = p.metric => o = p
    BY <2>2 DEF OneEach
  <2>8. QED
    BY <2>5, <2>6, <2>7 DEF InsightsAreNotInvented, seen, Sent, answers
<1>2. DownloadsStayAllowed
  <2> SUFFICES ASSUME heard.rule = "download" PROVE DownloadsStayAllowed
    BY DEF DownloadsStayAllowed
  <2>1. Len(heard.hops) \in Nat /\ DOMAIN heard.hops = 1..Len(heard.hops)
    BY AnswersAssumption DEF HeardIsGiven
  <2>2. QED
    BY <2>1, BodiesComeFromAllowedPlaces DEF DownloadsStayAllowed
<1>3. FilesAreJudgedByThemselves
  <2>1. /\ heard.rule = "file" => heard.file \in JudgedFile
        /\ {ProbeLimits.smallest, ProbeLimits.largest, ProbeLimits.bytes} \subseteq Nat
    BY AnswersAssumption DEF HeardIsGiven
  <2>2. QED
    BY <2>1, VerdictsFollowFiles DEF FilesAreJudgedByThemselves
<1>4. CredentialsOpenAtHome
  <2>1. heard.rule = "credential" =>
          /\ heard.seal \in Seal /\ Null # "token"
          /\ heard.seal.version > 0 => Arrived(heard.seal) # Null
    BY AnswersAssumption DEF HeardIsGiven
  <2>2. QED
    BY <2>1, SealsOpenAtHome DEF CredentialsOpenAtHome
<1>5. OutagesDisconnectNobody
  <2>1. heard.rule = "token" => heard.answer \in TokenAnswer
    BY AnswersAssumption DEF HeardIsGiven
  <2>2. QED
    BY <2>1, OutagesAreNoRefusals DEF OutagesDisconnectNobody
<1>6. ThreadsAreCounted
  <2>1. heard.rule = "thread" =>
          /\ Len(heard.thread.replies) \in Nat
          /\ DOMAIN heard.thread.replies = 1..Len(heard.thread.replies)
    BY AnswersAssumption DEF HeardIsGiven
  <2>2. QED
    BY <2>1, ThreadsAddUp DEF ThreadsAreCounted
<1>7. QED
  BY <1>1, <1>2, <1>3, <1>4, <1>5, <1>6 DEF AnswersAreReadAsGiven

\* Whatever Instagram answers and whatever a file holds, what is stored or
\* decided is what was said of it: no metric is invented, no body is fetched from
\* elsewhere, no file or account is refused for somebody else's fault.
THEOREM AnswersStayAsGiven == AnswersSpec => []AnswersAreReadAsGiven
<1>1. AnswersInit => HeardIsGiven
  BY DEF AnswersInit, HeardIsGiven
<1>2. HeardIsGiven /\ [AnswersNext]_heard => HeardIsGiven'
  <2> SUFFICES ASSUME HeardIsGiven, [AnswersNext]_heard PROVE HeardIsGiven'
    OBVIOUS
  <2>1. CASE CaptureInsights
    BY <2>1 DEF CaptureInsights, HeardIsGiven
  <2>2. CASE DownloadMedia
    BY <2>2 DEF DownloadMedia, HeardIsGiven
  <2>3. CASE ValidateAsset
    BY <2>3 DEF ValidateAsset, HeardIsGiven
  <2>4. CASE OpenCredential
    BY <2>4 DEF OpenCredential, HeardIsGiven
  <2>5. CASE MaintainToken
    BY <2>5 DEF MaintainToken, HeardIsGiven
  <2>6. CASE ReadThread
    BY <2>6 DEF ReadThread, HeardIsGiven
  <2>7. CASE UNCHANGED heard
    BY <2>7 DEF HeardIsGiven
  <2>8. QED
    BY <2>1, <2>2, <2>3, <2>4, <2>5, <2>6, <2>7 DEF AnswersNext
<1>3. QED
  BY <1>1, <1>2, GivenAnswersAreRead, PTL DEF AnswersSpec
=============================================================================
