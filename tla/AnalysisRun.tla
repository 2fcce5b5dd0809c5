----------------------------- MODULE AnalysisRun -----------------------------
(***************************************************************************)
(* Analysing the source video of one post (analysis.run).  A request is    *)
(* frozen to the asset that is current when it is made and is its own job. *)
(* An attempt uploads the video to Gemini, waits for the file, asks the    *)
(* model, repairs once, deletes the file whatever happened, and publishes. *)
(***************************************************************************)
EXTENDS HandlerJobs, GeminiRules, FiniteSets

CONSTANTS
  Analysers,       \* analysis slots of the worker
  MaxAsset,        \* source videos the post has over time
  MaxFiles,        \* files uploaded to the provider
  AnalysisFaults

ASSUME AnalysisAssumption ==
  MaxAsset \in Nat \ {0} /\ MaxFiles \in Nat /\ AnalysisFaults \in Nat

VARIABLES
  asset,          \* the newest asset of the post, READY
  analysisJob,    \* [assets -> background job row]
  analysisRow,    \* [assets -> analysis_jobs row: stage, file, repair]
  providerFiles,  \* files the provider holds
  filesMade,
  analyses,       \* requests with a post_analyses row
  current,        \* currentAnalysisId of the post, as its request; 0 for none
  dirty,          \* the account's analytics are dirty
  analyser,       \* [Analysers -> progress of the handler]
  leaked,         \* some attempt died, or its deletion of the file failed
  analysisFaults

analysisVars == <<asset, analysisJob, analysisRow, providerFiles, filesMade, analyses, current,
                  dirty, analyser, leaked, analysisFaults>>

Assets == 1..MaxAsset
\* file 0 is a null providerFileName; then is what follows the finally block.
IdleAnalyser == [pc |-> "idle", asset |-> 1, attempt |-> 0, file |-> 0, repaired |-> FALSE,
                 then |-> "none"]

AnalysisInit ==
  /\ asset = 1
  /\ analysisJob = [a \in Assets |-> AbsentJob]
  /\ analysisRow = [a \in Assets |-> [stage |-> "QUEUED", file |-> 0, repair |-> FALSE]]
  /\ providerFiles = {} /\ filesMade = 0 /\ analyses = {} /\ current = 0 /\ dirty = FALSE
  /\ analyser = [w \in Analysers |-> IdleAnalyser]
  /\ leaked = FALSE /\ analysisFaults = AnalysisFaults

AnalysisFault == analysisFaults > 0 /\ analysisFaults' = analysisFaults - 1
Holds(w) == MayContinue(analysisJob[analyser[w].asset], analyser[w].attempt)
Go(w, pc) == analyser' = [analyser EXCEPT ![w].pc = pc]
\* Every way out of the try block runs the finally block first.
Leave(w, then) == analyser' = [analyser EXCEPT ![w] = [@ EXCEPT !.pc = "finally", !.then = then]]
Stage(a, stage) == analysisRow' = [analysisRow EXCEPT ![a].stage = stage]

-----------------------------------------------------------------------------
\* requestPostAnalysis: the same inputs are the same job.
RequestPostAnalysis ==
  /\ analysisJob[asset].state = "ABSENT"
  /\ analysisJob' = [analysisJob EXCEPT ![asset] = Enqueue(@)]
  /\ UNCHANGED <<asset, analysisRow, providerFiles, filesMade, analyses, current, dirty,
                 analyser, leaked, analysisFaults>>

ReplaceAsset ==
  /\ asset < MaxAsset /\ asset' = asset + 1
  /\ UNCHANGED <<analysisJob, analysisRow, providerFiles, filesMade, analyses, current, dirty,
                 analyser, leaked, analysisFaults>>

\* loading_inputs.  The row tells an attempt which file and which repair an
\* earlier one left; a published analysis is adopted.
ClaimAnalysis(w, a) ==
  /\ analyser[w].pc = "idle" /\ Claimable(analysisJob[a])
  /\ IF a \in analyses
       THEN analysisJob' = [analysisJob EXCEPT ![a] = Complete(Claim(@))] /\ UNCHANGED analyser
       ELSE /\ analysisJob' = [analysisJob EXCEPT ![a] = Claim(@)]
            /\ analyser' = [analyser EXCEPT ![w] =
                 [IdleAnalyser EXCEPT !.pc = IF analysisRow[a].file = 0 THEN "upload" ELSE "await",
                                      !.asset = a, !.attempt = analysisJob[a].attempt + 1,
                                      !.file = analysisRow[a].file,
                                      !.repaired = analysisRow[a].repair]]
  /\ UNCHANGED <<asset, analysisRow, providerFiles, filesMade, analyses, current, dirty, leaked,
                 analysisFaults>>

UploadSource(w) ==
  /\ analyser[w].pc = "upload" /\ Holds(w) /\ filesMade < MaxFiles
  /\ filesMade' = filesMade + 1
  /\ providerFiles' = providerFiles \cup {filesMade + 1}
  /\ analyser' = [analyser EXCEPT ![w] = [@ EXCEPT !.pc = "record", !.file = filesMade + 1]]
  /\ Stage(analyser[w].asset, "UPLOADING")
  /\ UNCHANGED <<asset, analysisJob, analyses, current, dirty, leaked, analysisFaults>>

\* recordAnalysisProviderFile asks for no lease.
RecordProviderFile(w) ==
  /\ analyser[w].pc = "record"
  /\ analysisRow' = [analysisRow EXCEPT ![analyser[w].asset].file = analyser[w].file]
  /\ Go(w, "await")
  /\ UNCHANGED <<asset, analysisJob, providerFiles, filesMade, analyses, current, dirty, leaked,
                 analysisFaults>>

\* waitForActiveFile: a file that is gone is a TRANSIENT failure.
AwaitFile(w) ==
  /\ analyser[w].pc = "await" /\ Holds(w)
  /\ Stage(analyser[w].asset, "AWAITING_FILE")
  /\ IF analyser[w].file \in providerFiles THEN Go(w, "request")
     ELSE Leave(w, GeminiJobFailure("file_failed"))
  /\ UNCHANGED <<asset, analysisJob, providerFiles, filesMade, analyses, current, dirty, leaked,
                 analysisFaults>>

\* The model is asked about the file; a file deleted meanwhile is refused.
RequestAnalysis(w, valid) ==
  /\ analyser[w].pc = "request" /\ Holds(w)
  /\ Stage(analyser[w].asset, "REQUESTING")
  /\ IF analyser[w].file \notin providerFiles THEN Leave(w, "INVALID_INPUT")
     ELSE IF valid THEN Go(w, "publish")
     ELSE IF analyser[w].repaired THEN Go(w, "refuse") ELSE Go(w, "repair")
  /\ UNCHANGED <<asset, analysisJob, providerFiles, filesMade, analyses, current, dirty, leaked,
                 analysisFaults>>

\* The one repair of the request is spent before it is made.
RepairAnalysis(w, valid) ==
  /\ analyser[w].pc = "repair" /\ Holds(w)
  /\ analysisRow' = [analysisRow EXCEPT ![analyser[w].asset] =
                       [@ EXCEPT !.stage = "REPAIRING", !.repair = TRUE]]
  /\ IF analyser[w].file \notin providerFiles THEN Leave(w, "INVALID_INPUT")
     ELSE Go(w, IF valid THEN "publish" ELSE "refuse")
  /\ UNCHANGED <<asset, analysisJob, providerFiles, filesMade, analyses, current, dirty, leaked,
                 analysisFaults>>

\* The stage of a refusal is written without a lease.
RefuseAnalysis(w) ==
  /\ analyser[w].pc = "refuse"
  /\ Stage(analyser[w].asset, "REQUESTING")
  /\ Leave(w, "SEMANTIC_OUTPUT")
  /\ UNCHANGED <<asset, analysisJob, providerFiles, filesMade, analyses, current, dirty, leaked,
                 analysisFaults>>

ReadyToPublish(w) ==
  /\ analyser[w].pc = "publish" /\ Holds(w)
  /\ Leave(w, "publish")
  /\ UNCHANGED <<asset, analysisJob, analysisRow, providerFiles, filesMade, analyses, current,
                 dirty, leaked, analysisFaults>>

\* What the three calls may be refused with, as classes of a job failure.
UploadRefusals ==
  {GeminiJobFailure(c) : c \in {uploadVideo(started, finished)
                                 : started, finished \in ProviderAnswers} \ {"ok"}}
AwaitRefusals ==
  {GeminiJobFailure(c) : c \in {waitForActiveFile(<<first, second>>)
                                 : first, second \in ProviderAnswers} \ {"active"}}
ModelRefusals ==
  {GeminiJobFailure(c) : c \in {generateStructuredText(answer)
                                 : answer \in ProviderAnswers} \ {"ok"}}

ProviderFails(w) ==
  /\ analyser[w].pc \in {"upload", "await", "request", "repair"} /\ AnalysisFault
  /\ \E class \in CASE analyser[w].pc = "upload" -> UploadRefusals
                      [] analyser[w].pc = "await" -> AwaitRefusals
                      [] OTHER -> ModelRefusals :
       Leave(w, class)
  /\ UNCHANGED <<asset, analysisJob, analysisRow, providerFiles, filesMade, analyses, current,
                 dirty, leaked>>

\* A stage or a heartbeat without the lease throws.
LoseAnalysis(w) ==
  /\ analyser[w].pc \in {"upload", "await", "request", "repair", "publish"} /\ ~Holds(w)
  /\ Leave(w, "lost")
  /\ UNCHANGED <<asset, analysisJob, analysisRow, providerFiles, filesMade, analyses, current,
                 dirty, leaked, analysisFaults>>

\* A mutant of ReleaseFile: only a failure releases the file.
ReleaseFailedFile(w) ==
  IF analyser[w].then = "publish" THEN providerFiles ELSE providerFiles \ {analyser[w].file}

\* deleteFile: a file that is already gone is deleted.
ReleaseFile(w) == providerFiles \ {analyser[w].file}

\* The finally block: the file is deleted and its name cleared, lease or not.
FinallyRelease(w) ==
  /\ analyser[w].pc = "finally"
  /\ providerFiles' = ReleaseFile(w)
  /\ analysisRow' = IF analyser[w].file = 0 THEN analysisRow
                    ELSE [analysisRow EXCEPT ![analyser[w].asset].file = 0]
  /\ Go(w, "settle")
  /\ UNCHANGED <<asset, analysisJob, filesMade, analyses, current, dirty, leaked, analysisFaults>>

\* Either call of the block fails, and its failure is swallowed: the file stays
\* until the provider expires it, or its name stays on the row.
ReleaseFails(w) ==
  /\ analyser[w].pc = "finally" /\ analyser[w].file # 0 /\ AnalysisFault
  /\ \/ /\ \E answer \in ProviderAnswers : deleteFile(answer) # "ok"
        /\ leaked' = TRUE /\ UNCHANGED providerFiles
        /\ analysisRow' = [analysisRow EXCEPT ![analyser[w].asset].file = 0]
     \/ providerFiles' = ReleaseFile(w) /\ UNCHANGED <<analysisRow, leaked>>
  /\ Go(w, "settle")
  /\ UNCHANGED <<asset, analysisJob, filesMade, analyses, current, dirty>>

\* A mutant of Publishes: the attempt that lost its lease publishes too.
PublishesAnyway(w) == analyser[w].then = "publish"

\* The commit runs in the success transaction, which checks the lease.
Publishes(w) == analyser[w].then = "publish" /\ Holds(w)

\* publishPostAnalysis, or the settlement of the failure.
SettleAnalysis(w) ==
  LET a == analyser[w].asset
      isNew == Publishes(w) /\ a \notin analyses
  IN /\ analyser[w].pc = "settle"
     /\ analysisJob' = [analysisJob EXCEPT ![a] =
          CASE analyser[w].then = "publish" -> IF Holds(w) THEN Complete(@) ELSE @
            [] analyser[w].then = "lost" -> @
            [] OTHER -> SettleFailure(@, analyser[w].attempt, analyser[w].then)]
     /\ analyses' = IF isNew THEN analyses \cup {a} ELSE analyses
     /\ current' = IF isNew THEN a ELSE current
     /\ analysisRow' = IF isNew
          THEN [analysisRow EXCEPT ![a] = [@ EXCEPT !.stage = "PUBLISHED", !.file = 0]]
          ELSE analysisRow
     /\ dirty' = (dirty \/ isNew)
     /\ analyser' = [analyser EXCEPT ![w] = IdleAnalyser]
     /\ UNCHANGED <<asset, providerFiles, filesMade, leaked, analysisFaults>>

\* The worker process ends; its lease is found expired later.
AnalyserDies(w) ==
  /\ analyser[w].pc # "idle" /\ AnalysisFault
  /\ analyser' = [analyser EXCEPT ![w] = IdleAnalyser] /\ leaked' = TRUE
  /\ UNCHANGED <<asset, analysisJob, analysisRow, providerFiles, filesMade, analyses, current,
                 dirty>>

\* A lease expires under an attempt that died or is only slow.
RecoverAnalysis(a) ==
  /\ analysisJob[a].state = "PROCESSING" /\ AnalysisFault
  /\ analysisJob' = [analysisJob EXCEPT ![a] = RecoverLease(@)]
  /\ UNCHANGED <<asset, analysisRow, providerFiles, filesMade, analyses, current, dirty,
                 analyser, leaked>>

AnalysisNext ==
  \/ RequestPostAnalysis \/ ReplaceAsset
  \/ \E a \in Assets : RecoverAnalysis(a) \/ \E w \in Analysers : ClaimAnalysis(w, a)
  \/ \E w \in Analysers :
       \/ UploadSource(w) \/ RecordProviderFile(w) \/ AwaitFile(w) \/ RefuseAnalysis(w)
       \/ ReadyToPublish(w) \/ LoseAnalysis(w) \/ FinallyRelease(w) \/ SettleAnalysis(w)
       \/ AnalyserDies(w) \/ ProviderFails(w) \/ ReleaseFails(w)
       \/ \E valid \in BOOLEAN : RequestAnalysis(w, valid) \/ RepairAnalysis(w, valid)

AnalysisSpec == AnalysisInit /\ [][AnalysisNext]_analysisVars

-----------------------------------------------------------------------------
(* Properties.                                                             *)

\* A request has its analysis exactly when its job succeeded, whichever of its
\* attempts overlapped, and the post's current analysis is one of them.
AnalysedOnce ==
  /\ \A a \in Assets : a \in analyses <=> analysisJob[a].state = "SUCCEEDED"
  /\ current = 0 <=> analyses = {}
  /\ current # 0 => current \in analyses

\* "Paid bytes are released on every path": unless an attempt died or was refused
\* the deletion, nothing is left at the provider when no attempt is running,
\* late ones included.
FilesReleased ==
  (~leaked /\ \A w \in Analysers : analyser[w].pc = "idle") => providerFiles = {}
=============================================================================
