----------------------------- MODULE MediaImport -----------------------------
(***************************************************************************)
(* Importing the video of one Instagram post as its source: the request,   *)
(* the instagram.media.import job (one for ever, its key is the post), the *)
(* object it stores, and the asset that validation then judges.  Another   *)
(* route to a source, the browser's upload, is the module VideoUpload; it  *)
(* is here the step AttachUpload.                                          *)
(***************************************************************************)
EXTENDS HandlerJobs, InstagramRules, MediaRules

CONSTANTS Importers, ImportFaults

ASSUME ImportAssumption == ImportFaults \in Nat

VARIABLES
  importJob,
  importRow,     \* progress of each importer
  mediaObjects,  \* object keys stored for the import
  importAsset,   \* the asset of the import job: state and key
  uploaded,      \* state of an asset from the upload route
  importFaults

importVars == <<importJob, importRow, mediaObjects, importAsset, uploaded, importFaults>>

IdleImport == [pc |-> "idle", attempt |-> 0]
NoAsset == [state |-> "ABSENT", key |-> Null]

ImportInit ==
  /\ importJob = AbsentJob
  /\ importRow = [i \in Importers |-> IdleImport]
  /\ mediaObjects = {} /\ importAsset = NoAsset /\ uploaded = "ABSENT"
  /\ importFaults = ImportFaults

ImportFault == importFaults > 0 /\ importFaults' = importFaults - 1

\* The newest asset of the post blocks a request unless it was rejected.
HasSource == {importAsset.state, uploaded} \cap {"PENDING_VALIDATION", "READY"} # {}

\* requestInstagramMediaImport: it answers "queued" whether or not the key
\* already had a job.
RequestMediaImport ==
  /\ ~HasSource /\ importJob.state = "ABSENT"
  /\ importJob' = Enqueue(importJob)
  /\ UNCHANGED <<importRow, mediaObjects, importAsset, uploaded, importFaults>>

\* A redelivery that finds the asset of this job adopts it.
ClaimImport(i) ==
  /\ importRow[i].pc = "idle" /\ Claimable(importJob)
  /\ IF importAsset.state # "ABSENT"
       THEN importJob' = Complete(Claim(importJob)) /\ UNCHANGED importRow
       ELSE /\ importJob' = Claim(importJob)
            /\ importRow' = [importRow EXCEPT ![i] =
                 [pc |-> "read", attempt |-> importJob.attempt + 1]]
  /\ UNCHANGED <<mediaObjects, importAsset, uploaded, importFaults>>

\* reading_media_url: the credential, then the item with its address.
ReadMediaItem(i) ==
  /\ importRow[i].pc = "read" /\ MayContinue(importJob, importRow[i].attempt)
  /\ importRow' = [importRow EXCEPT ![i].pc = "transfer"]
  /\ UNCHANGED <<importJob, mediaObjects, importAsset, uploaded, importFaults>>

\* A mutant of ImportObjectKey: a key of its own for every attempt.
KeyPerAttempt(n) == n

\* importObjectKey: derived from the job, so a retry writes over its own bytes.
ImportObjectKey(n) == IF n > 0 THEN 1 ELSE 0

\* transfer streams the body into the bucket.  Nothing stops an attempt that
\* lost its lease while it streams.
TransferMedia(i) ==
  /\ importRow[i].pc = "transfer"
  /\ mediaObjects' = mediaObjects \cup {ImportObjectKey(importRow[i].attempt)}
  /\ importRow' = [importRow EXCEPT ![i].pc = "commit"]
  /\ UNCHANGED <<importJob, importAsset, uploaded, importFaults>>

\* createImportedVideoAsset and the validation job, in the success transaction.
CommitImport(i) ==
  /\ importRow[i].pc = "commit"
  /\ IF MayContinue(importJob, importRow[i].attempt)
       THEN /\ importJob' = Complete(importJob)
            /\ importAsset' = [state |-> "PENDING_VALIDATION",
                               key |-> ImportObjectKey(importRow[i].attempt)]
       ELSE UNCHANGED <<importJob, importAsset>>
  /\ importRow' = [importRow EXCEPT ![i] = IdleImport]
  /\ UNCHANGED <<mediaObjects, uploaded, importFaults>>

\* readAccessToken and readMediaItem: a rate limit is a TRANSIENT here, unlike in
\* the other Instagram handlers.
ReadFailures ==
  {"CREDENTIAL", "UNKNOWN"}
  \cup {CASE class = "authorisation" -> "CREDENTIAL"
          [] class \in {"transient", "rate_limit"} -> "TRANSIENT"
          [] OTHER -> "INVALID_INPUT" : class \in MediaItemRefusals}

\* toDownloadFailure, of the opened download, of a body too large, and of storage.
TransferFailures ==
  {IF OpenDownload(hops)[2] THEN "TRANSIENT" ELSE "INVALID_INPUT"
     : hops \in {h \in HopChains : OpenDownload(h)[1] # "body"}}
  \cup {"INVALID_INPUT" : declared \in {d \in {Null, 1, 9} : TransferOutcome(d, <<2, 3>>, 4) # "stored"}}
  \cup {"TRANSIENT"}

ImportFails(i) ==
  /\ importRow[i].pc \in {"read", "transfer"} /\ ImportFault
  /\ \E class \in IF importRow[i].pc = "read" THEN ReadFailures ELSE TransferFailures :
       importJob' = SettleFailure(importJob, importRow[i].attempt, class)
  /\ importRow' = [importRow EXCEPT ![i] = IdleImport]
  /\ UNCHANGED <<mediaObjects, importAsset, uploaded>>

LoseImport(i) ==
  /\ importRow[i].pc = "read" /\ ~MayContinue(importJob, importRow[i].attempt)
  /\ importRow' = [importRow EXCEPT ![i] = IdleImport]
  /\ UNCHANGED <<importJob, mediaObjects, importAsset, uploaded, importFaults>>

RecoverImport ==
  /\ importJob.state = "PROCESSING" /\ ImportFault
  /\ importJob' = RecoverLease(importJob)
  /\ \E gone \in SUBSET Importers :
       importRow' = [i \in Importers |-> IF i \in gone THEN IdleImport ELSE importRow[i]]
  /\ UNCHANGED <<mediaObjects, importAsset, uploaded>>

RetryImport ==
  /\ importJob.state = "FAILED_ATTENTION" /\ ImportFault
  /\ importJob' = RetryByOperator(importJob)
  /\ UNCHANGED <<importRow, mediaObjects, importAsset, uploaded>>

\* asset.validate on the imported asset, and the purge of a rejected one.
ValidateImport ==
  /\ importAsset.state = "PENDING_VALIDATION" /\ importAsset.key \in mediaObjects
  /\ \E verdict \in {"READY", "REJECTED"} :
       importAsset' = [importAsset EXCEPT !.state = verdict]
  /\ UNCHANGED <<importJob, importRow, mediaObjects, uploaded, importFaults>>

PurgeRejectedImport ==
  /\ importAsset.state = "REJECTED" /\ importAsset.key \in mediaObjects
  /\ mediaObjects' = mediaObjects \ {importAsset.key}
  /\ UNCHANGED <<importJob, importRow, importAsset, uploaded, importFaults>>

\* The upload route attaches a source without asking about an import under way.
AttachUpload ==
  /\ uploaded = "ABSENT" /\ importAsset.state \in {"ABSENT", "REJECTED"}
  /\ uploaded' = "READY"
  /\ UNCHANGED <<importJob, importRow, mediaObjects, importAsset, importFaults>>

ImportNext ==
  \/ RequestMediaImport \/ RecoverImport \/ RetryImport
  \/ ValidateImport \/ PurgeRejectedImport \/ AttachUpload
  \/ \E i \in Importers : \/ ClaimImport(i) \/ ReadMediaItem(i) \/ TransferMedia(i)
                          \/ CommitImport(i) \/ ImportFails(i) \/ LoseImport(i)

ImportSpec == ImportInit /\ [][ImportNext]_importVars

-----------------------------------------------------------------------------
\* However many attempts streamed, and however late, an import stores one
\* object, and the asset under judgement or in use is that object.
OneImportedObject ==
  /\ Cardinality(mediaObjects) <= 1
  /\ importAsset.state \in {"PENDING_VALIDATION", "READY"} => importAsset.key \in mediaObjects
=============================================================================
