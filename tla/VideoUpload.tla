---------------------------- MODULE VideoUpload ----------------------------
(***************************************************************************)
(* A source video from the browser's upload to a validated asset: the web  *)
(* commands (apps/web/src/lib/server/video-upload.ts), the rows they       *)
(* change (packages/db/src/video-upload.ts), the asset.validate and        *)
(* asset.cleanup handlers with their scheduler (apps/worker/src/uploads),  *)
(* and the object store behind them.                                       *)
(*                                                                         *)
(* No transaction spans the store and the database, and the commands use   *)
(* one statement at a time: every provider call and every statement is a   *)
(* step of its own, and the process may die between any two.  A background *)
(* job is reduced to what module JobPipeline shows of it: once queued,     *)
(* attempts of it run, one commit at a time, until one commits or the      *)
(* last permitted one fails.  Requests that are refused before they change *)
(* anything (a malformed identifier, a part number out of range) are left  *)
(* out, and so is signing a part, which changes nothing.                   *)
(***************************************************************************)
EXTENDS Naturals

CONSTANTS
  Intents,      \* upload intents; each reserves its own object key
  Posts,
  Requests,     \* web requests being served
  Cleaners,     \* workers running attempts of asset.cleanup
  Validators,   \* workers running attempts of asset.validate
  None,
  FaultBudget   \* process deaths and provider failures in a behaviour

ASSUME UploadAssumption ==
  /\ FaultBudget \in Nat
  /\ None \notin Intents \cup Posts

VARIABLES
  intent,       \* [Intents -> video_upload_intent row]
  upload,       \* [Intents -> the provider's multipart upload]
  object,       \* [Intents -> the object stored under the intent's key]
  asset,        \* [Intents -> video_asset row of the intent]
  validateJob,  \* [Intents -> asset.validate job of the asset]
  cleanupJob,   \* [Intents -> asset.cleanup job of the intent]
  purgeJob,     \* [Intents -> asset.cleanup job of the asset]
  request, cleaner, validator,
  faults

rows == <<intent, upload, object, asset, validateJob, cleanupJob, purgeJob>>
vars == <<rows, request, cleaner, validator, faults>>

intentStates == {"PENDING", "COMPLETED", "ABORTED", "EXPIRED"}
assetStates == {"PENDING_VALIDATION", "READY", "REJECTED"}

\* Bytes stored, compared with the bytes declared at the reservation.
sizes == {"declared", "other"}

IntentRows == [state: intentStates \cup {"ABSENT"}, post: Posts \cup {None},
               expired: BOOLEAN]
AssetRows == [state: assetStates \cup {"ABSENT"}, purgeDue: BOOLEAN, purged: BOOLEAN]

IdleRequest == [pc |-> "idle", intent |-> None, post |-> None, answer |-> "none"]
RequestStates ==
  [pc: {"idle", "insert", "store", "stored", "mismatch", "lookup", "create",
        "enqueue", "abort", "close"},
   intent: Intents \cup {None}, post: Posts \cup {None},
   answer: {"none", "completed", "INTENT_NOT_PENDING", "refused", "aborted"}]

IdleCleaner == [pc |-> "idle", intent |-> None]
CleanerStates == [pc: {"idle", "abort", "close", "delete", "mark"},
                  intent: Intents \cup {None}]

IdleValidator == [pc |-> "idle", intent |-> None, verdict |-> "none"]
ValidatorStates == [pc: {"idle", "decide", "record"}, intent: Intents \cup {None},
                    verdict: {"none", "READY", "REJECTED"}]

Init ==
  /\ intent = [i \in Intents |-> [state |-> "ABSENT", post |-> None, expired |-> FALSE]]
  /\ upload = [i \in Intents |-> "none"]
  /\ object = [i \in Intents |-> "none"]
  /\ asset = [i \in Intents |->
                [state |-> "ABSENT", purgeDue |-> FALSE, purged |-> FALSE]]
  /\ validateJob = [i \in Intents |-> "none"]
  /\ cleanupJob = [i \in Intents |-> "none"]
  /\ purgeJob = [i \in Intents |-> "none"]
  /\ request = [q \in Requests |-> IdleRequest]
  /\ cleaner = [c \in Cleaners |-> IdleCleaner]
  /\ validator = [v \in Validators |-> IdleValidator]
  /\ faults = FaultBudget

Fault == faults > 0 /\ faults' = faults - 1

\* One step of a request; answering frees it for the next one.
Goto(q, pc) == request' = [request EXCEPT ![q].pc = pc]
Answer(q, answer) ==
  request' = [request EXCEPT ![q] = [@ EXCEPT !.pc = "idle", !.answer = answer]]
Begin(q, pc, i, p) ==
  request' = [request EXCEPT ![q] =
                [pc |-> pc, intent |-> i, post |-> p, answer |-> "none"]]

-----------------------------------------------------------------------------
(* initiateVideoUpload: the provider's reservation, then the row.          *)

\* createMultipartUpload.  Its failure leaves nothing behind.
ReserveUpload(q, i, p) ==
  /\ request[q].pc = "idle"
  /\ upload[i] = "none"
  /\ upload' = [upload EXCEPT ![i] = "open"]
  /\ Begin(q, "insert", i, p)
  /\ UNCHANGED <<intent, object, asset, validateJob, cleanupJob, purgeJob,
                 cleaner, validator, faults>>

\* A mutant of PostIsFree: no unique index, only a check of the same intent.
PostIsFreeUnchecked(p) == TRUE

\* The unique index on pendingForPostId.
PostIsFree(p) ==
  \A k \in Intents : intent[k].state = "PENDING" => intent[k].post # p

InsertIntent(q) ==
  /\ request[q].pc = "insert"
  /\ PostIsFree(request[q].post)
  /\ intent' = [intent EXCEPT ![request[q].intent] =
                  [state |-> "PENDING", post |-> request[q].post, expired |-> FALSE]]
  /\ Answer(q, "completed")
  /\ UNCHANGED <<upload, object, asset, validateJob, cleanupJob, purgeJob,
                 cleaner, validator, faults>>

\* UPLOAD_ALREADY_PENDING, whatever the insert failed of: the reservation is
\* released, if the provider answers.
ReleaseReservation(q) ==
  /\ request[q].pc = "insert"
  /\ LET released == [upload EXCEPT ![request[q].intent] = "aborted"] IN
       \/ ~PostIsFree(request[q].post) /\ upload' = released /\ UNCHANGED faults
       \/ Fault /\ upload' \in {upload, released}
  /\ Answer(q, "refused")
  /\ UNCHANGED <<intent, object, asset, validateJob, cleanupJob, purgeJob,
                 cleaner, validator>>

-----------------------------------------------------------------------------
(* completeVideoUpload.                                                    *)

\* It does not look at expiresAt; signVideoUploadPart does.
CompleteVideoUpload(q, i) ==
  /\ request[q].pc = "idle"
  /\ intent[i].state = "PENDING"
  /\ Begin(q, "store", i, None)
  /\ UNCHANGED <<rows, cleaner, validator, faults>>

\* A completion of an intent that is closed already.
RepeatCompletion(q, i) ==
  /\ request[q].pc = "idle"
  /\ intent[i].state \in intentStates \ {"PENDING"}
  /\ Begin(q, "lookup", i, None)
  /\ UNCHANGED <<rows, cleaner, validator, faults>>

\* A mutant of StoreObject: the browser's claim is taken for the stored size.
StoreObjectUnmeasured(q, size) ==
  /\ request[q].pc = "store"
  /\ LET i == request[q].intent IN
       /\ upload[i] = "open"
       /\ upload' = [upload EXCEPT ![i] = "completed"]
       /\ object' = [object EXCEPT ![i] = size]
  /\ Goto(q, "stored")
  /\ UNCHANGED <<intent, asset, validateJob, cleanupJob, purgeJob, cleaner,
                 validator, faults>>

\* completeMultipartUpload and the headObject that follows it.
StoreObject(q, size) ==
  /\ request[q].pc = "store"
  /\ LET i == request[q].intent IN
       /\ upload[i] = "open"
       /\ upload' = [upload EXCEPT ![i] = "completed"]
       /\ object' = [object EXCEPT ![i] = size]
  /\ Goto(q, IF size = "declared" THEN "stored" ELSE "mismatch")
  /\ UNCHANGED <<intent, asset, validateJob, cleanupJob, purgeJob, cleaner,
                 validator, faults>>

\* STORAGE_UNAVAILABLE: the upload is gone, the call failed, or it succeeded and
\* reading the object back failed.
StorageUnavailable(q) ==
  /\ request[q].pc = "store"
  /\ LET i == request[q].intent IN
       \/ upload[i] # "open" /\ UNCHANGED <<upload, object, faults>>
       \/ upload[i] = "open" /\ Fault /\ UNCHANGED <<upload, object>>
       \/ /\ upload[i] = "open"
          /\ Fault
          /\ upload' = [upload EXCEPT ![i] = "completed"]
          /\ \E size \in sizes : object' = [object EXCEPT ![i] = size]
  /\ Answer(q, "refused")
  /\ UNCHANGED <<intent, asset, validateJob, cleanupJob, purgeJob, cleaner, validator>>

\* A mutant of CloseVideoUploadIntent: the update forgets where state = PENDING.
CloseVideoUploadIntentAlways(i, state) ==
  intent' = [intent EXCEPT ![i].state = state]

\* closeVideoUploadIntent: where state = PENDING.
CloseVideoUploadIntent(i, state) ==
  intent' = IF intent[i].state = "PENDING"
              THEN [intent EXCEPT ![i].state = state] ELSE intent

\* The size is not the declared one: abortMultipartUpload of an upload that has
\* been completed finds nothing to abort and reports success, then the intent is
\* closed.  The object stays.
SizeMismatch(q) ==
  /\ request[q].pc = "mismatch"
  /\ CloseVideoUploadIntent(request[q].intent, "ABORTED")
  /\ Answer(q, "refused")
  /\ UNCHANGED <<upload, object, asset, validateJob, cleanupJob, purgeJob,
                 cleaner, validator, faults>>

CloseCompleted(q) ==
  /\ request[q].pc = "stored"
  /\ CloseVideoUploadIntent(request[q].intent, "COMPLETED")
  /\ Goto(q, IF intent[request[q].intent].state = "PENDING" THEN "create" ELSE "lookup")
  /\ UNCHANGED <<upload, object, asset, validateJob, cleanupJob, purgeJob,
                 cleaner, validator, faults>>

\* findVideoAssetForIntent, for a completion that came second.
LookupAsset(q) ==
  /\ request[q].pc = "lookup"
  /\ Answer(q, IF asset[request[q].intent].state = "ABSENT" THEN "INTENT_NOT_PENDING"
                                                            ELSE "completed")
  /\ UNCHANGED <<rows, cleaner, validator, faults>>

CreateVideoAsset(q) ==
  /\ request[q].pc = "create"
  /\ asset' = [asset EXCEPT ![request[q].intent].state = "PENDING_VALIDATION"]
  /\ Goto(q, "enqueue")
  /\ UNCHANGED <<intent, upload, object, validateJob, cleanupJob, purgeJob,
                 cleaner, validator, faults>>

EnqueueValidation(q) ==
  /\ request[q].pc = "enqueue"
  /\ validateJob' = [validateJob EXCEPT ![request[q].intent] =
                       IF @ = "none" THEN "queued" ELSE @]
  /\ Answer(q, "completed")
  /\ UNCHANGED <<intent, upload, object, asset, cleanupJob, purgeJob, cleaner,
                 validator, faults>>

-----------------------------------------------------------------------------
(* abortVideoUpload.                                                       *)

AbortVideoUpload(q, i) ==
  /\ request[q].pc = "idle"
  /\ intent[i].state = "PENDING"
  /\ Begin(q, "abort", i, None)
  /\ UNCHANGED <<rows, cleaner, validator, faults>>

\* abortMultipartUpload: an upload that is gone counts as aborted.
AbortMultipartUpload(i) ==
  upload' = [upload EXCEPT ![i] = IF @ = "open" THEN "aborted" ELSE @]

\* The command swallows the provider's failure.
ReleaseUpload(q) ==
  /\ request[q].pc = "abort"
  /\ \/ AbortMultipartUpload(request[q].intent) /\ UNCHANGED faults
     \/ Fault /\ UNCHANGED upload
  /\ Goto(q, "close")
  /\ UNCHANGED <<intent, object, asset, validateJob, cleanupJob, purgeJob,
                 cleaner, validator>>

CloseAborted(q) ==
  /\ request[q].pc = "close"
  /\ CloseVideoUploadIntent(request[q].intent, "ABORTED")
  /\ Answer(q, "aborted")
  /\ UNCHANGED <<upload, object, asset, validateJob, cleanupJob, purgeJob,
                 cleaner, validator, faults>>

\* The web process dies, or a statement fails and the request with it.
RequestDies(q) ==
  /\ request[q].pc # "idle"
  /\ Fault
  /\ request' = [request EXCEPT ![q] = IdleRequest]
  /\ UNCHANGED <<rows, cleaner, validator>>

-----------------------------------------------------------------------------
(* asset.cleanup for an abandoned intent, and its sweep.                   *)

UploadExpires(i) ==
  /\ intent[i].state = "PENDING" /\ ~intent[i].expired
  /\ intent' = [intent EXCEPT ![i].expired = TRUE]
  /\ UNCHANGED <<upload, object, asset, validateJob, cleanupJob, purgeJob,
                 request, cleaner, validator, faults>>

\* The key carries the day: the next day's sweep asks again.
SweepExpiredIntent(i) ==
  /\ intent[i].state = "PENDING" /\ intent[i].expired
  /\ cleanupJob[i] = "none"
  /\ cleanupJob' = [cleanupJob EXCEPT ![i] = "queued"]
  /\ UNCHANGED <<intent, upload, object, asset, validateJob, purgeJob, request,
                 cleaner, validator, faults>>

LoadIntent(c, i) ==
  /\ cleaner[c].pc = "idle"
  /\ cleanupJob[i] = "queued"
  /\ intent[i].state = "PENDING"
  /\ cleaner' = [cleaner EXCEPT ![c] = [pc |-> "abort", intent |-> i]]
  /\ UNCHANGED <<rows, request, validator, faults>>

\* The intent was closed before the sweep's job ran.
SkipClosedIntent(i) ==
  /\ cleanupJob[i] = "queued"
  /\ intent[i].state # "PENDING"
  /\ cleanupJob' = [cleanupJob EXCEPT ![i] = "done"]
  /\ UNCHANGED <<intent, upload, object, asset, validateJob, purgeJob, request,
                 cleaner, validator, faults>>

ReleaseAbandoned(c) ==
  /\ cleaner[c].pc = "abort"
  /\ AbortMultipartUpload(cleaner[c].intent)
  /\ cleaner' = [cleaner EXCEPT ![c].pc = "close"]
  /\ UNCHANGED <<intent, object, asset, validateJob, cleanupJob, purgeJob,
                 request, validator, faults>>

ExpireIntent(c) ==
  /\ cleaner[c].pc = "close"
  /\ CloseVideoUploadIntent(cleaner[c].intent, "EXPIRED")
  /\ cleanupJob' = [cleanupJob EXCEPT ![cleaner[c].intent] = "done"]
  /\ cleaner' = [cleaner EXCEPT ![c] = IdleCleaner]
  /\ UNCHANGED <<upload, object, asset, validateJob, purgeJob, request,
                 validator, faults>>

-----------------------------------------------------------------------------
(* asset.validate.                                                         *)

LoadAsset(v, i) ==
  /\ validator[v].pc = "idle"
  /\ validateJob[i] = "queued"
  /\ asset[i].state = "PENDING_VALIDATION"
  /\ validator' = [validator EXCEPT ![v] =
                     [pc |-> "decide", intent |-> i, verdict |-> "none"]]
  /\ UNCHANGED <<rows, request, cleaner, faults>>

\* decideVerdict: the bytes are judged; an object that cannot be read is a
\* failure to retry, never a verdict.
DecideVerdict(v, verdict) ==
  /\ validator[v].pc = "decide"
  /\ object[validator[v].intent] # "none"
  /\ validator' = [validator EXCEPT ![v] = [@ EXCEPT !.pc = "record", !.verdict = verdict]]
  /\ UNCHANGED <<rows, request, cleaner, faults>>

\* recordVideoAssetValidation's where clause.
Undecided(i) == asset[i].state = "PENDING_VALIDATION"

\* The commit: a second attempt of the same job finds the verdict in place.
RecordVideoAssetValidation(v) ==
  /\ validator[v].pc = "record"
  /\ LET i == validator[v].intent IN
       /\ asset' = IF Undecided(i)
                     THEN [asset EXCEPT ![i] = [@ EXCEPT !.state = validator[v].verdict,
                                                         !.purgeDue = FALSE]]
                     ELSE asset
       /\ validateJob' = [validateJob EXCEPT ![i] = "done"]
  /\ validator' = [validator EXCEPT ![v] = IdleValidator]
  /\ UNCHANGED <<intent, upload, object, cleanupJob, purgeJob, request, cleaner, faults>>

\* The attempt fails, or its worker dies: the pipeline runs another, unless it
\* was the last one.  The job's key is the asset's: there is no second job.
ValidatorDies(v) ==
  /\ validator[v].pc # "idle"
  /\ Fault
  /\ \E status \in {"queued", "failed"} :
       validateJob' = [validateJob EXCEPT ![validator[v].intent] = status]
  /\ validator' = [validator EXCEPT ![v] = IdleValidator]
  /\ UNCHANGED <<intent, upload, object, asset, cleanupJob, purgeJob, request, cleaner>>

\* A mutant of FailedCleanup: a key without the day.
FailedCleanupUndated == "failed"

\* A cleanup's key carries the day: once its job has failed for good the next
\* day's sweep finds no job under its own key.
FailedCleanup == "none"

CleanerDies(c) ==
  /\ cleaner[c].pc # "idle"
  /\ Fault
  /\ LET Fail(jobs) == [jobs EXCEPT ![cleaner[c].intent] = FailedCleanup] IN
       IF cleaner[c].pc \in {"abort", "close"}
         THEN cleanupJob' \in {cleanupJob, Fail(cleanupJob)} /\ UNCHANGED purgeJob
         ELSE purgeJob' \in {purgeJob, Fail(purgeJob)} /\ UNCHANGED cleanupJob
  /\ cleaner' = [cleaner EXCEPT ![c] = IdleCleaner]
  /\ UNCHANGED <<intent, upload, object, asset, validateJob, request, validator>>

-----------------------------------------------------------------------------
(* asset.cleanup for a rejected asset, and its sweep.                      *)

PurgeBecomesDue(i) ==
  /\ asset[i].state = "REJECTED" /\ ~asset[i].purgeDue
  /\ asset' = [asset EXCEPT ![i].purgeDue = TRUE]
  /\ UNCHANGED <<intent, upload, object, validateJob, cleanupJob, purgeJob,
                 request, cleaner, validator, faults>>

SweepPurgeableAsset(i) ==
  /\ asset[i].state = "REJECTED" /\ asset[i].purgeDue /\ ~asset[i].purged
  /\ purgeJob[i] = "none"
  /\ purgeJob' = [purgeJob EXCEPT ![i] = "queued"]
  /\ UNCHANGED <<intent, upload, object, asset, validateJob, cleanupJob,
                 request, cleaner, validator, faults>>

Purgeable(i) == asset[i].state = "REJECTED" /\ ~asset[i].purged

LoadRejectedAsset(c, i) ==
  /\ cleaner[c].pc = "idle"
  /\ purgeJob[i] = "queued"
  /\ Purgeable(i)
  /\ cleaner' = [cleaner EXCEPT ![c] = [pc |-> "delete", intent |-> i]]
  /\ UNCHANGED <<rows, request, validator, faults>>

\* A mutant of DeleteObject: the provider's failure is swallowed.
DeleteObjectOrNot(c) ==
  /\ cleaner[c].pc = "delete"
  /\ object' \in {object, [object EXCEPT ![cleaner[c].intent] = "none"]}
  /\ cleaner' = [cleaner EXCEPT ![c].pc = "mark"]
  /\ UNCHANGED <<intent, upload, asset, validateJob, cleanupJob, purgeJob,
                 request, validator, faults>>

\* The provider is told first.
DeleteObject(c) ==
  /\ cleaner[c].pc = "delete"
  /\ object' = [object EXCEPT ![cleaner[c].intent] = "none"]
  /\ cleaner' = [cleaner EXCEPT ![c].pc = "mark"]
  /\ UNCHANGED <<intent, upload, asset, validateJob, cleanupJob, purgeJob,
                 request, validator, faults>>

MarkVideoAssetPurged(c) ==
  /\ cleaner[c].pc = "mark"
  /\ LET i == cleaner[c].intent IN
       /\ asset' = IF Purgeable(i) THEN [asset EXCEPT ![i].purged = TRUE] ELSE asset
       /\ purgeJob' = [purgeJob EXCEPT ![i] = "done"]
  /\ cleaner' = [cleaner EXCEPT ![c] = IdleCleaner]
  /\ UNCHANGED <<intent, upload, object, validateJob, cleanupJob, request,
                 validator, faults>>

-----------------------------------------------------------------------------
Serve(q) ==
  \/ \E i \in Intents :
       \/ \E p \in Posts : ReserveUpload(q, i, p)
       \/ CompleteVideoUpload(q, i) \/ RepeatCompletion(q, i) \/ AbortVideoUpload(q, i)
  \/ InsertIntent(q) \/ ReleaseReservation(q)
  \/ \E size \in sizes : StoreObject(q, size)
  \/ StorageUnavailable(q) \/ SizeMismatch(q)
  \/ CloseCompleted(q) \/ LookupAsset(q) \/ CreateVideoAsset(q) \/ EnqueueValidation(q)
  \/ ReleaseUpload(q) \/ CloseAborted(q)
  \/ RequestDies(q)

Clean(c) ==
  \/ \E i \in Intents : LoadIntent(c, i) \/ LoadRejectedAsset(c, i)
  \/ ReleaseAbandoned(c) \/ ExpireIntent(c)
  \/ DeleteObject(c) \/ MarkVideoAssetPurged(c)
  \/ CleanerDies(c)

Validate(v) ==
  \/ \E i \in Intents : LoadAsset(v, i)
  \/ \E verdict \in {"READY", "REJECTED"} : DecideVerdict(v, verdict)
  \/ RecordVideoAssetValidation(v)
  \/ ValidatorDies(v)

Sweep(i) == SweepExpiredIntent(i) \/ SweepPurgeableAsset(i) \/ SkipClosedIntent(i)

Next ==
  \/ \E q \in Requests : Serve(q)
  \/ \E c \in Cleaners : Clean(c)
  \/ \E v \in Validators : Validate(v)
  \/ \E i \in Intents : Sweep(i) \/ UploadExpires(i) \/ PurgeBecomesDue(i)

Spec == Init /\ [][Next]_vars

-----------------------------------------------------------------------------
\* The rows, the provider's state and the processes stay within their types.
TypeOK ==
  /\ intent \in [Intents -> IntentRows]
  /\ upload \in [Intents -> {"none", "open", "completed", "aborted"}]
  /\ object \in [Intents -> sizes \cup {"none"}]
  /\ asset \in [Intents -> AssetRows]
  /\ validateJob \in [Intents -> {"none", "queued", "done", "failed"}]
  /\ cleanupJob \in [Intents -> {"none", "queued", "done"}]
  /\ purgeJob \in [Intents -> {"none", "queued", "done"}]
  /\ request \in [Requests -> RequestStates]
  /\ cleaner \in [Cleaners -> CleanerStates]
  /\ validator \in [Validators -> ValidatorStates]
  /\ faults \in 0..FaultBudget

\* An asset that is ready, or still may become so, has its bytes, of the size
\* that was admitted, under an intent recorded as completed: no abort, expiry,
\* mismatch or purge that races a completion takes them away.
AssetsAreStored ==
  \A i \in Intents :
    asset[i].state # "ABSENT" =>
      /\ intent[i].state = "COMPLETED"
      /\ object[i] = "declared" \/ (asset[i].state = "REJECTED" /\ object[i] = "none")

\* At most one upload is pending for a post, however requests interleave.
OnePendingUploadPerPost ==
  \A i, k \in Intents :
    intent[i].state = "PENDING" /\ intent[k].state = "PENDING"
      /\ intent[i].post = intent[k].post => i = k

\* The row says purged only once the bytes are gone, and the verdict stays.
PurgedMeansReleased ==
  \A i \in Intents : asset[i].purged => asset[i].state = "REJECTED" /\ object[i] = "none"

\* Rows and storage agree, whatever completions, aborts, expiries, validations
\* and purges interleave: the three above, and the types.
UploadsConsistent ==
  TypeOK /\ AssetsAreStored /\ OnePendingUploadPerPost /\ PurgedMeansReleased

\* A verdict, once recorded, is never replaced by a later attempt's; a closed
\* intent keeps the state it was closed with, whoever else closes it.
DecisionsStand ==
  [][\A i \in Intents :
       /\ asset[i].state \in {"READY", "REJECTED"} => asset'[i].state = asset[i].state
       /\ intent[i].state \in intentStates \ {"PENDING"}
            => intent'[i].state = intent[i].state]_vars

-----------------------------------------------------------------------------
(* Liveness: requests are served, sweeps and jobs keep running, faults end.*)

ServeProgress(q) ==
  \/ InsertIntent(q) \/ ReleaseReservation(q)
  \/ \E size \in sizes : StoreObject(q, size)
  \/ StorageUnavailable(q) \/ SizeMismatch(q)
  \/ CloseCompleted(q) \/ LookupAsset(q) \/ CreateVideoAsset(q) \/ EnqueueValidation(q)
  \/ ReleaseUpload(q) \/ CloseAborted(q)

Fairness ==
  /\ \A q \in Requests : WF_vars(ServeProgress(q))
  /\ \A i \in Intents : /\ WF_vars(UploadExpires(i))
                        /\ WF_vars(PurgeBecomesDue(i))
                        /\ WF_vars(SweepExpiredIntent(i))
                        /\ WF_vars(SweepPurgeableAsset(i))
                        /\ WF_vars(SkipClosedIntent(i))
                        /\ SF_vars(\E c \in Cleaners : LoadIntent(c, i))
                        /\ SF_vars(\E c \in Cleaners : LoadRejectedAsset(c, i))
                        /\ SF_vars(\E v \in Validators : LoadAsset(v, i))
  /\ \A c \in Cleaners : WF_vars(ReleaseAbandoned(c) \/ ExpireIntent(c)
                                 \/ DeleteObject(c) \/ MarkVideoAssetPurged(c))
  /\ \A v \in Validators :
       WF_vars((\E verdict \in {"READY", "REJECTED"} : DecideVerdict(v, verdict))
               \/ RecordVideoAssetValidation(v))

LiveSpec == Spec /\ Fairness

\* Whatever the browser and the provider do, a reserved upload is closed in the
\* end, which frees the post for another, and a rejected video does not keep its
\* bytes.
UploadsSettle ==
  \A i \in Intents : /\ intent[i].state = "PENDING" ~> intent[i].state # "PENDING"
                     /\ asset[i].state = "REJECTED" ~> asset[i].purged

=============================================================================
