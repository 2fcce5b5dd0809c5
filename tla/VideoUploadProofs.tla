-------------------------- MODULE VideoUploadProofs --------------------------
(***************************************************************************)
(* UploadsConsistent and DecisionsStand, proved for any number of intents, *)
(* posts, requests, cleaners and validators, and any number of faults.     *)
(*                                                                         *)
(* Nothing in the database ties a request to the upload it completes: what *)
(* keeps two of them apart is that the provider completes a multipart      *)
(* upload once.  So the inductive invariant follows an intent through the  *)
(* requests that serve it: one request may insert it, one, that found the  *)
(* upload open, may record it as completed and create its asset, and       *)
(* whatever a cleaner deletes belongs to an asset that was rejected.       *)
(***************************************************************************)
EXTENDS VideoUpload, TLAPS

\* What a request that has come to a statement can rely on.
RequestPlaced(q) ==
  LET i == request[q].intent pc == request[q].pc IN
  pc # "idle" =>
    /\ i \in Intents
    /\ pc = "insert" => /\ request[q].post \in Posts
                        /\ intent[i].state = "ABSENT"
                        /\ upload[i] # "none"
    /\ pc # "insert" => intent[i].state # "ABSENT"
    /\ pc \in {"stored", "create"} => object[i] = "declared" /\ asset[i].state = "ABSENT"
    /\ pc = "stored" => intent[i].state # "COMPLETED"
    /\ pc = "create" => intent[i].state = "COMPLETED"

\* Two requests are never about to insert, or about to settle, one intent.
Apart(q, r) ==
  /\ request[q].pc = "insert" /\ request[r].pc = "insert"
       => request[q].intent # request[r].intent
  /\ request[q].pc \in {"stored", "create"} /\ request[r].pc \in {"stored", "create"}
       => request[q].intent # request[r].intent

RequestsPlaced ==
  /\ \A q \in Requests : RequestPlaced(q)
  /\ \A q, r \in Requests : q # r => Apart(q, r)

\* The provider's upload and its object, by the intent's row.
IntentPlaced(i) ==
  /\ intent[i].state # "ABSENT" => upload[i] # "none"
  /\ intent[i].state = "ABSENT" => object[i] = "none" /\ asset[i].state = "ABSENT"
  /\ intent[i].state = "COMPLETED" => upload[i] = "completed"
  /\ intent[i].state = "PENDING" => intent[i].post \in Posts
  /\ object[i] # "none" => upload[i] = "completed"

\* A cleaner deletes what belongs to a rejected asset; a validator that has
\* decided has a verdict.
CleanerPlaced(c) ==
  cleaner[c].pc # "idle" =>
    /\ cleaner[c].intent \in Intents
    /\ cleaner[c].pc \in {"delete", "mark"} => asset[cleaner[c].intent].state = "REJECTED"
    /\ cleaner[c].pc = "mark" => object[cleaner[c].intent] = "none"

ValidatorPlaced(v) ==
  validator[v].pc # "idle" =>
    /\ validator[v].intent \in Intents
    /\ validator[v].pc = "record" => validator[v].verdict \in {"READY", "REJECTED"}

Placed ==
  /\ RequestsPlaced
  /\ \A i \in Intents : IntentPlaced(i)
  /\ \A c \in Cleaners : CleanerPlaced(c)
  /\ \A v \in Validators : ValidatorPlaced(v)

\* What the checked invariant says of one intent.
AssetSound(i) ==
  /\ asset[i].state # "ABSENT" =>
       /\ intent[i].state = "COMPLETED"
       /\ object[i] = "declared" \/ (asset[i].state = "REJECTED" /\ object[i] = "none")
  /\ asset[i].purged => asset[i].state = "REJECTED" /\ object[i] = "none"

Consistent ==
  /\ TypeOK
  /\ Placed
  /\ \A i \in Intents : AssetSound(i)
  /\ OnePendingUploadPerPost

LEMMA ConsistentImplies == Consistent => UploadsConsistent
  BY DEF Consistent, UploadsConsistent, AssetSound, AssetsAreStored, PurgedMeansReleased

-----------------------------------------------------------------------------
(* How a step types the rows and the processes it writes.                  *)

requestSteps == {"idle", "insert", "store", "stored", "mismatch", "lookup", "create",
                 "enqueue", "abort", "close"}

LEMMA GotoTyped ==
  ASSUME TypeOK, NEW q \in Requests, NEW pc \in requestSteps, Goto(q, pc)
  PROVE  request' \in [Requests -> RequestStates]
  BY DEF TypeOK, Goto, RequestStates, requestSteps

LEMMA AnswerTyped ==
  ASSUME TypeOK, NEW q \in Requests,
         NEW answer \in {"none", "completed", "INTENT_NOT_PENDING", "refused", "aborted"},
         Answer(q, answer)
  PROVE  request' \in [Requests -> RequestStates]
<1> DEFINE answered == [request[q] EXCEPT !.pc = "idle", !.answer = answer]
<1>1. request[q] \in RequestStates
    BY DEF TypeOK
<1>2. answered \in RequestStates
    BY <1>1 DEF RequestStates
<1>3. request' = [request EXCEPT ![q] = answered]
    BY DEF Answer
<1> HIDE DEF answered
<1> QED
    BY <1>2, <1>3 DEF TypeOK

LEMMA BeginTyped ==
  ASSUME TypeOK, NEW q \in Requests, NEW pc \in requestSteps, NEW i \in Intents,
         NEW p \in Posts \cup {None}, Begin(q, pc, i, p)
  PROVE  request' \in [Requests -> RequestStates]
  BY DEF TypeOK, Begin, RequestStates, requestSteps

LEMMA CloseTyped ==
  ASSUME TypeOK, NEW i \in Intents, NEW state \in intentStates,
         CloseVideoUploadIntent(i, state)
  PROVE  intent' \in [Intents -> IntentRows]
<1>1. [intent[i] EXCEPT !.state = state] \in IntentRows
  <2>1. intent[i] \in IntentRows
      BY DEF TypeOK
  <2> QED
      BY <2>1 DEF IntentRows
<1>2. [intent EXCEPT ![i].state = state] \in [Intents -> IntentRows]
    BY <1>1 DEF TypeOK
<1> QED
    BY <1>2 DEF TypeOK, CloseVideoUploadIntent


\* What a step that leaves their variables alone cannot disturb.
LEMMA Frame ==
  ASSUME Consistent
  PROVE  /\ UNCHANGED <<request, intent, upload, object, asset>> => RequestsPlaced'
         /\ UNCHANGED <<intent, upload, object, asset>>
              => \A i \in Intents : IntentPlaced(i)'
         /\ UNCHANGED <<cleaner, object, asset>> => \A c \in Cleaners : CleanerPlaced(c)'
         /\ UNCHANGED validator => \A v \in Validators : ValidatorPlaced(v)'
         /\ UNCHANGED <<intent, object, asset>> => \A i \in Intents : AssetSound(i)'
         /\ UNCHANGED intent => OnePendingUploadPerPost'
  BY DEF Consistent, Placed, RequestsPlaced, RequestPlaced, Apart, IntentPlaced,
         CleanerPlaced, ValidatorPlaced, AssetSound, OnePendingUploadPerPost

LEMMA ReserveUploadConsistent ==
  ASSUME Consistent, NEW q \in Requests, NEW i \in Intents, NEW p \in Posts,
         ReserveUpload(q, i, p)
  PROVE  Consistent'
<1>1. TypeOK'
  <2>1. upload' \in [Intents -> {"none", "open", "completed", "aborted"}]
      BY DEF ReserveUpload, Consistent, TypeOK
  <2>2. request' \in [Requests -> RequestStates]
      BY BeginTyped DEF ReserveUpload, Consistent, requestSteps
  <2> QED
      BY <2>1, <2>2 DEF ReserveUpload, Consistent, TypeOK
<1>2. RequestsPlaced'
    BY DEF Consistent, Placed, ReserveUpload, Begin, RequestsPlaced, RequestPlaced, Apart,
           IntentPlaced, TypeOK
<1>3. \A k \in Intents : IntentPlaced(k)'
    BY DEF Consistent, Placed, ReserveUpload, Begin, IntentPlaced
<1>4. \A d \in Cleaners : CleanerPlaced(d)'
    BY Frame DEF ReserveUpload
<1>5. \A w \in Validators : ValidatorPlaced(w)'
    BY Frame DEF ReserveUpload
<1>6. \A k \in Intents : AssetSound(k)'
    BY Frame DEF ReserveUpload
<1>7. OnePendingUploadPerPost'
    BY Frame DEF ReserveUpload
<1> QED
    BY <1>1, <1>2, <1>3, <1>4, <1>5, <1>6, <1>7 DEF Consistent, Placed

LEMMA InsertIntentConsistent ==
  ASSUME Consistent, NEW q \in Requests, InsertIntent(q)
  PROVE  Consistent'
<1>1. TypeOK'
  <2>1. intent' \in [Intents -> IntentRows]
      BY DEF InsertIntent, Consistent, TypeOK, IntentRows, intentStates, Placed,
             RequestsPlaced, RequestPlaced
  <2>2. request' \in [Requests -> RequestStates]
      BY AnswerTyped DEF InsertIntent, Consistent
  <2> QED
      BY <2>1, <2>2 DEF InsertIntent, Consistent, TypeOK
<1>2. RequestsPlaced'
    BY DEF Consistent, Placed, InsertIntent, Answer, PostIsFree, RequestsPlaced,
           RequestPlaced, Apart, TypeOK
<1>3. \A k \in Intents : IntentPlaced(k)'
    BY DEF Consistent, Placed, InsertIntent, Answer, PostIsFree, RequestsPlaced,
           RequestPlaced, IntentPlaced
<1>4. \A d \in Cleaners : CleanerPlaced(d)'
    BY Frame DEF InsertIntent
<1>5. \A w \in Validators : ValidatorPlaced(w)'
    BY Frame DEF InsertIntent
<1>6. \A k \in Intents : AssetSound(k)'
    BY DEF Consistent, Placed, InsertIntent, Answer, PostIsFree, RequestsPlaced,
           RequestPlaced, AssetSound
<1>7. OnePendingUploadPerPost'
    BY DEF Consistent, Placed, InsertIntent, Answer, PostIsFree, OnePendingUploadPerPost
<1> QED
    BY <1>1, <1>2, <1>3, <1>4, <1>5, <1>6, <1>7 DEF Consistent, Placed

LEMMA ReleaseReservationConsistent ==
  ASSUME Consistent, NEW q \in Requests, ReleaseReservation(q)
  PROVE  Consistent'
<1>1. TypeOK'
  <2>1. upload' \in [Intents -> {"none", "open", "completed", "aborted"}]
      BY DEF ReleaseReservation, Consistent, TypeOK, Placed
  <2>2. request' \in [Requests -> RequestStates]
      BY AnswerTyped DEF ReleaseReservation, Consistent
  <2>3. faults' \in 0..FaultBudget
      BY UploadAssumption DEF ReleaseReservation, Fault, Consistent, TypeOK
  <2> QED
      BY <2>1, <2>2, <2>3 DEF ReleaseReservation, Consistent, TypeOK
<1>2. RequestsPlaced'
    BY DEF Consistent, Placed, ReleaseReservation, Answer, Fault, PostIsFree,
           RequestsPlaced, RequestPlaced, Apart, TypeOK
<1>3. \A k \in Intents : IntentPlaced(k)'
    BY DEF Consistent, Placed, ReleaseReservation, Answer, Fault, PostIsFree,
           RequestsPlaced, RequestPlaced, IntentPlaced, TypeOK
<1>4. \A d \in Cleaners : CleanerPlaced(d)'
    BY Frame DEF ReleaseReservation
<1>5. \A w \in Validators : ValidatorPlaced(w)'
    BY Frame DEF ReleaseReservation
<1>6. \A k \in Intents : AssetSound(k)'
    BY Frame DEF ReleaseReservation
<1>7. OnePendingUploadPerPost'
    BY Frame DEF ReleaseReservation
<1> QED
    BY <1>1, <1>2, <1>3, <1>4, <1>5, <1>6, <1>7 DEF Consistent, Placed

LEMMA CompleteVideoUploadConsistent ==
  ASSUME Consistent, NEW q \in Requests, NEW i \in Intents, CompleteVideoUpload(q, i)
  PROVE  Consistent'
<1>1. TypeOK'
  <2>1. request' \in [Requests -> RequestStates]
      BY BeginTyped DEF CompleteVideoUpload, rows, Consistent, requestSteps
  <2> QED
      BY <2>1 DEF CompleteVideoUpload, rows, Consistent, TypeOK
<1>2. RequestsPlaced'
    BY DEF Consistent, Placed, CompleteVideoUpload, Begin, rows, RequestsPlaced,
           RequestPlaced, Apart
<1>3. \A k \in Intents : IntentPlaced(k)'
    BY Frame DEF CompleteVideoUpload, rows
<1>4. \A d \in Cleaners : CleanerPlaced(d)'
    BY Frame DEF CompleteVideoUpload, rows
<1>5. \A w \in Validators : ValidatorPlaced(w)'
    BY Frame DEF CompleteVideoUpload, rows
<1>6. \A k \in Intents : AssetSound(k)'
    BY Frame DEF CompleteVideoUpload, rows
<1>7. OnePendingUploadPerPost'
    BY Frame DEF CompleteVideoUpload, rows
<1> QED
    BY <1>1, <1>2, <1>3, <1>4, <1>5, <1>6, <1>7 DEF Consistent, Placed

LEMMA RepeatCompletionConsistent ==
  ASSUME Consistent, NEW q \in Requests, NEW i \in Intents, RepeatCompletion(q, i)
  PROVE  Consistent'
<1>1. TypeOK'
  <2>1. request' \in [Requests -> RequestStates]
      BY BeginTyped DEF RepeatCompletion, rows, Consistent, requestSteps
  <2> QED
      BY <2>1 DEF RepeatCompletion, rows, Consistent, TypeOK
<1>2. RequestsPlaced'
    BY DEF Consistent, Placed, RepeatCompletion, Begin, rows, RequestsPlaced,
           RequestPlaced, Apart, intentStates
<1>3. \A k \in Intents : IntentPlaced(k)'
    BY Frame DEF RepeatCompletion, rows
<1>4. \A d \in Cleaners : CleanerPlaced(d)'
    BY Frame DEF RepeatCompletion, rows
<1>5. \A w \in Validators : ValidatorPlaced(w)'
    BY Frame DEF RepeatCompletion, rows
<1>6. \A k \in Intents : AssetSound(k)'
    BY Frame DEF RepeatCompletion, rows
<1>7. OnePendingUploadPerPost'
    BY Frame DEF RepeatCompletion, rows
<1> QED
    BY <1>1, <1>2, <1>3, <1>4, <1>5, <1>6, <1>7 DEF Consistent, Placed

LEMMA StoreObjectConsistent ==
  ASSUME Consistent, NEW q \in Requests, NEW size \in sizes, StoreObject(q, size)
  PROVE  Consistent'
<1>1. TypeOK'
  <2>1. upload' \in [Intents -> {"none", "open", "completed", "aborted"}]
      BY DEF StoreObject, Consistent, TypeOK, Placed
  <2>2. object' \in [Intents -> sizes \cup {"none"}]
      BY DEF StoreObject, Consistent, TypeOK, Placed
  <2>3. request' \in [Requests -> RequestStates]
      BY GotoTyped DEF StoreObject, Consistent, requestSteps
  <2> QED
      BY <2>1, <2>2, <2>3 DEF StoreObject, Consistent, TypeOK
<1>2. RequestsPlaced'
  <2>1. CASE size = "declared"
      BY <2>1
      DEF Consistent, Placed, AssetSound, StoreObject, Goto, RequestsPlaced,
          RequestPlaced, Apart, IntentPlaced, TypeOK
  <2>2. CASE size # "declared"
      BY <2>2
      DEF Consistent, Placed, StoreObject, Goto, RequestsPlaced, RequestPlaced, Apart,
          IntentPlaced
  <2> QED
      BY <2>1, <2>2
<1>3. \A k \in Intents : IntentPlaced(k)'
    BY DEF Consistent, Placed, StoreObject, Goto, RequestsPlaced, RequestPlaced,
           IntentPlaced, TypeOK, RequestStates
<1>4. \A d \in Cleaners : CleanerPlaced(d)'
    BY DEF Consistent, Placed, StoreObject, Goto, CleanerPlaced, IntentPlaced, AssetSound
<1>5. \A w \in Validators : ValidatorPlaced(w)'
    BY Frame DEF StoreObject
<1>6. \A k \in Intents : AssetSound(k)'
    BY DEF Consistent, Placed, StoreObject, Goto, IntentPlaced, AssetSound
<1>7. OnePendingUploadPerPost'
    BY Frame DEF StoreObject
<1> QED
    BY <1>1, <1>2, <1>3, <1>4, <1>5, <1>6, <1>7 DEF Consistent, Placed

LEMMA StorageUnavailableConsistent ==
  ASSUME Consistent, NEW q \in Requests, StorageUnavailable(q)
  PROVE  Consistent'
<1>1. TypeOK'
  <2>1. upload' \in [Intents -> {"none", "open", "completed", "aborted"}]
      BY DEF StorageUnavailable, Consistent, TypeOK, Placed
  <2>2. object' \in [Intents -> sizes \cup {"none"}]
      BY DEF StorageUnavailable, Consistent, TypeOK, Placed
  <2>3. request' \in [Requests -> RequestStates]
      BY AnswerTyped DEF StorageUnavailable, Consistent
  <2>4. faults' \in 0..FaultBudget
      BY UploadAssumption DEF StorageUnavailable, Fault, Consistent, TypeOK
  <2> QED
      BY <2>1, <2>2, <2>3, <2>4 DEF StorageUnavailable, Consistent, TypeOK
<1>2. RequestsPlaced'
    BY DEF Consistent, Placed, StorageUnavailable, Answer, Fault, RequestsPlaced,
           RequestPlaced, Apart, IntentPlaced, TypeOK
<1>3. \A k \in Intents : IntentPlaced(k)'
    BY DEF Consistent, Placed, StorageUnavailable, Answer, Fault, RequestsPlaced,
           RequestPlaced, IntentPlaced, TypeOK
<1>4. \A d \in Cleaners : CleanerPlaced(d)'
    BY DEF Consistent, Placed, StorageUnavailable, Answer, Fault, CleanerPlaced,
           IntentPlaced, AssetSound, TypeOK
<1>5. \A w \in Validators : ValidatorPlaced(w)'
    BY Frame DEF StorageUnavailable
<1>6. \A k \in Intents : AssetSound(k)'
    BY DEF Consistent, Placed, StorageUnavailable, Answer, Fault, IntentPlaced,
           AssetSound, TypeOK
<1>7. OnePendingUploadPerPost'
    BY Frame DEF StorageUnavailable
<1> QED
    BY <1>1, <1>2, <1>3, <1>4, <1>5, <1>6, <1>7 DEF Consistent, Placed

LEMMA SizeMismatchConsistent ==
  ASSUME Consistent, NEW q \in Requests, SizeMismatch(q)
  PROVE  Consistent'
<1>1. TypeOK'
  <2>1. intent' \in [Intents -> IntentRows]
      BY CloseTyped
      DEF SizeMismatch, Consistent, intentStates, Placed, RequestsPlaced, RequestPlaced
  <2>2. request' \in [Requests -> RequestStates]
      BY AnswerTyped DEF SizeMismatch, Consistent
  <2> QED
      BY <2>1, <2>2 DEF SizeMismatch, Consistent, TypeOK
<1>2. RequestsPlaced'
    BY DEF Consistent, Placed, SizeMismatch, Answer, CloseVideoUploadIntent,
           RequestsPlaced, RequestPlaced, Apart
<1>3. \A k \in Intents : IntentPlaced(k)'
    BY DEF Consistent, Placed, SizeMismatch, Answer, CloseVideoUploadIntent, IntentPlaced
<1>4. \A d \in Cleaners : CleanerPlaced(d)'
    BY Frame DEF SizeMismatch
<1>5. \A w \in Validators : ValidatorPlaced(w)'
    BY Frame DEF SizeMismatch
<1>6. \A k \in Intents : AssetSound(k)'
    BY DEF Consistent, Placed, SizeMismatch, Answer, CloseVideoUploadIntent, AssetSound
<1>7. OnePendingUploadPerPost'
    BY DEF Consistent, Placed, SizeMismatch, Answer, CloseVideoUploadIntent,
           OnePendingUploadPerPost
<1> QED
    BY <1>1, <1>2, <1>3, <1>4, <1>5, <1>6, <1>7 DEF Consistent, Placed

LEMMA CloseCompletedConsistent ==
  ASSUME Consistent, NEW q \in Requests, CloseCompleted(q)
  PROVE  Consistent'
<1>1. TypeOK'
  <2>1. intent' \in [Intents -> IntentRows]
      BY CloseTyped
      DEF CloseCompleted, Consistent, intentStates, Placed, RequestsPlaced, RequestPlaced
  <2>2. request' \in [Requests -> RequestStates]
      BY GotoTyped DEF CloseCompleted, Consistent, requestSteps
  <2> QED
      BY <2>1, <2>2 DEF CloseCompleted, Consistent, TypeOK
<1>2. RequestsPlaced'
    BY DEF Consistent, Placed, CloseCompleted, Goto, CloseVideoUploadIntent,
           RequestsPlaced, RequestPlaced, Apart, TypeOK
<1>3. \A k \in Intents : IntentPlaced(k)'
    BY DEF Consistent, Placed, CloseCompleted, Goto, CloseVideoUploadIntent,
           RequestsPlaced, RequestPlaced, IntentPlaced
<1>4. \A d \in Cleaners : CleanerPlaced(d)'
    BY Frame DEF CloseCompleted
<1>5. \A w \in Validators : ValidatorPlaced(w)'
    BY Frame DEF CloseCompleted
<1>6. \A k \in Intents : AssetSound(k)'
    BY DEF Consistent, Placed, CloseCompleted, Goto, CloseVideoUploadIntent, AssetSound
<1>7. OnePendingUploadPerPost'
    BY DEF Consistent, Placed, CloseCompleted, Goto, CloseVideoUploadIntent,
           OnePendingUploadPerPost
<1> QED
    BY <1>1, <1>2, <1>3, <1>4, <1>5, <1>6, <1>7 DEF Consistent, Placed

LEMMA LookupAssetConsistent ==
  ASSUME Consistent, NEW q \in Requests, LookupAsset(q)
  PROVE  Consistent'
<1>1. TypeOK'
  <2>1. request' \in [Requests -> RequestStates]
      BY AnswerTyped DEF LookupAsset, rows, Consistent
  <2> QED
      BY <2>1 DEF LookupAsset, rows, Consistent, TypeOK
<1>2. RequestsPlaced'
    BY DEF Consistent, Placed, LookupAsset, Answer, rows, RequestsPlaced, RequestPlaced,
           Apart
<1>3. \A k \in Intents : IntentPlaced(k)'
    BY Frame DEF LookupAsset, rows
<1>4. \A d \in Cleaners : CleanerPlaced(d)'
    BY Frame DEF LookupAsset, rows
<1>5. \A w \in Validators : ValidatorPlaced(w)'
    BY Frame DEF LookupAsset, rows
<1>6. \A k \in Intents : AssetSound(k)'
    BY Frame DEF LookupAsset, rows
<1>7. OnePendingUploadPerPost'
    BY Frame DEF LookupAsset, rows
<1> QED
    BY <1>1, <1>2, <1>3, <1>4, <1>5, <1>6, <1>7 DEF Consistent, Placed

LEMMA CreateVideoAssetConsistent ==
  ASSUME Consistent, NEW q \in Requests, CreateVideoAsset(q)
  PROVE  Consistent'
<1>1. TypeOK'
  <2>1. asset' \in [Intents -> AssetRows]
      BY DEF CreateVideoAsset, Consistent, TypeOK, AssetRows, assetStates, Placed,
             RequestsPlaced, RequestPlaced
  <2>2. request' \in [Requests -> RequestStates]
      BY GotoTyped DEF CreateVideoAsset, Consistent, requestSteps
  <2> QED
      BY <2>1, <2>2 DEF CreateVideoAsset, Consistent, TypeOK
<1>2. RequestsPlaced'
    BY DEF Consistent, Placed, CreateVideoAsset, Goto, RequestsPlaced, RequestPlaced,
           Apart, TypeOK
<1>3. \A k \in Intents : IntentPlaced(k)'
    BY DEF Consistent, Placed, CreateVideoAsset, Goto, RequestsPlaced, RequestPlaced,
           IntentPlaced
<1>4. \A d \in Cleaners : CleanerPlaced(d)'
    BY DEF Consistent, Placed, CreateVideoAsset, Goto, RequestsPlaced, RequestPlaced,
           CleanerPlaced
<1>5. \A w \in Validators : ValidatorPlaced(w)'
    BY Frame DEF CreateVideoAsset
<1>6. \A k \in Intents : AssetSound(k)'
    BY DEF Consistent, Placed, CreateVideoAsset, Goto, RequestsPlaced, RequestPlaced,
           AssetSound
<1>7. OnePendingUploadPerPost'
    BY Frame DEF CreateVideoAsset
<1> QED
    BY <1>1, <1>2, <1>3, <1>4, <1>5, <1>6, <1>7 DEF Consistent, Placed

LEMMA EnqueueValidationConsistent ==
  ASSUME Consistent, NEW q \in Requests, EnqueueValidation(q)
  PROVE  Consistent'
<1>1. TypeOK'
  <2>1. validateJob' \in [Intents -> {"none", "queued", "done", "failed"}]
      BY DEF EnqueueValidation, Consistent, TypeOK
  <2>2. request' \in [Requests -> RequestStates]
      BY AnswerTyped DEF EnqueueValidation, Consistent
  <2> QED
      BY <2>1, <2>2 DEF EnqueueValidation, Consistent, TypeOK
<1>2. RequestsPlaced'
    BY DEF Consistent, Placed, EnqueueValidation, Answer, RequestsPlaced, RequestPlaced,
           Apart
<1>3. \A k \in Intents : IntentPlaced(k)'
    BY Frame DEF EnqueueValidation
<1>4. \A d \in Cleaners : CleanerPlaced(d)'
    BY Frame DEF EnqueueValidation
<1>5. \A w \in Validators : ValidatorPlaced(w)'
    BY Frame DEF EnqueueValidation
<1>6. \A k \in Intents : AssetSound(k)'
    BY Frame DEF EnqueueValidation
<1>7. OnePendingUploadPerPost'
    BY Frame DEF EnqueueValidation
<1> QED
    BY <1>1, <1>2, <1>3, <1>4, <1>5, <1>6, <1>7 DEF Consistent, Placed

LEMMA AbortVideoUploadConsistent ==
  ASSUME Consistent, NEW q \in Requests, NEW i \in Intents, AbortVideoUpload(q, i)
  PROVE  Consistent'
<1>1. TypeOK'
  <2>1. request' \in [Requests -> RequestStates]
      BY BeginTyped DEF AbortVideoUpload, rows, Consistent, requestSteps
  <2> QED
      BY <2>1 DEF AbortVideoUpload, rows, Consistent, TypeOK
<1>2. RequestsPlaced'
    BY DEF Consistent, Placed, AbortVideoUpload, Begin, rows, RequestsPlaced,
           RequestPlaced, Apart
<1>3. \A k \in Intents : IntentPlaced(k)'
    BY Frame DEF AbortVideoUpload, rows
<1>4. \A d \in Cleaners : CleanerPlaced(d)'
    BY Frame DEF AbortVideoUpload, rows
<1>5. \A w \in Validators : ValidatorPlaced(w)'
    BY Frame DEF AbortVideoUpload, rows
<1>6. \A k \in Intents : AssetSound(k)'
    BY Frame DEF AbortVideoUpload, rows
<1>7. OnePendingUploadPerPost'
    BY Frame DEF AbortVideoUpload, rows
<1> QED
    BY <1>1, <1>2, <1>3, <1>4, <1>5, <1>6, <1>7 DEF Consistent, Placed

LEMMA ReleaseUploadConsistent ==
  ASSUME Consistent, NEW q \in Requests, ReleaseUpload(q)
  PROVE  Consistent'
<1>1. TypeOK'
  <2>1. upload' \in [Intents -> {"none", "open", "completed", "aborted"}]
      BY DEF ReleaseUpload, Consistent, TypeOK, AbortMultipartUpload, Placed
  <2>2. request' \in [Requests -> RequestStates]
      BY GotoTyped DEF ReleaseUpload, Consistent, requestSteps
  <2>3. faults' \in 0..FaultBudget
      BY UploadAssumption DEF ReleaseUpload, Fault, Consistent, TypeOK
  <2> QED
      BY <2>1, <2>2, <2>3 DEF ReleaseUpload, Consistent, TypeOK
<1>2. RequestsPlaced'
    BY DEF Consistent, Placed, ReleaseUpload, Goto, Fault, AbortMultipartUpload,
           RequestsPlaced, RequestPlaced, Apart, TypeOK
<1>3. \A k \in Intents : IntentPlaced(k)'
    BY DEF Consistent, Placed, ReleaseUpload, Goto, Fault, AbortMultipartUpload,
           IntentPlaced, TypeOK
<1>4. \A d \in Cleaners : CleanerPlaced(d)'
    BY Frame DEF ReleaseUpload
<1>5. \A w \in Validators : ValidatorPlaced(w)'
    BY Frame DEF ReleaseUpload
<1>6. \A k \in Intents : AssetSound(k)'
    BY Frame DEF ReleaseUpload
<1>7. OnePendingUploadPerPost'
    BY Frame DEF ReleaseUpload
<1> QED
    BY <1>1, <1>2, <1>3, <1>4, <1>5, <1>6, <1>7 DEF Consistent, Placed

LEMMA CloseAbortedConsistent ==
  ASSUME Consistent, NEW q \in Requests, CloseAborted(q)
  PROVE  Consistent'
<1>1. TypeOK'
  <2>1. intent' \in [Intents -> IntentRows]
      BY CloseTyped
      DEF CloseAborted, Consistent, intentStates, Placed, RequestsPlaced, RequestPlaced
  <2>2. request' \in [Requests -> RequestStates]
      BY AnswerTyped DEF CloseAborted, Consistent
  <2> QED
      BY <2>1, <2>2 DEF CloseAborted, Consistent, TypeOK
<1>2. RequestsPlaced'
    BY DEF Consistent, Placed, CloseAborted, Answer, CloseVideoUploadIntent,
           RequestsPlaced, RequestPlaced, Apart
<1>3. \A k \in Intents : IntentPlaced(k)'
    BY DEF Consistent, Placed, CloseAborted, Answer, CloseVideoUploadIntent, IntentPlaced
<1>4. \A d \in Cleaners : CleanerPlaced(d)'
    BY Frame DEF CloseAborted
<1>5. \A w \in Validators : ValidatorPlaced(w)'
    BY Frame DEF CloseAborted
<1>6. \A k \in Intents : AssetSound(k)'
    BY DEF Consistent, Placed, CloseAborted, Answer, CloseVideoUploadIntent, AssetSound
<1>7. OnePendingUploadPerPost'
    BY DEF Consistent, Placed, CloseAborted, Answer, CloseVideoUploadIntent,
           OnePendingUploadPerPost
<1> QED
    BY <1>1, <1>2, <1>3, <1>4, <1>5, <1>6, <1>7 DEF Consistent, Placed

LEMMA RequestDiesConsistent ==
  ASSUME Consistent, NEW q \in Requests, RequestDies(q)
  PROVE  Consistent'
<1>1. TypeOK'
  <2>1. request' \in [Requests -> RequestStates]
      BY DEF RequestDies, rows, Consistent, TypeOK, IdleRequest, RequestStates
  <2>2. faults' \in 0..FaultBudget
      BY UploadAssumption DEF RequestDies, rows, Fault, Consistent, TypeOK
  <2> QED
      BY <2>1, <2>2 DEF RequestDies, rows, Consistent, TypeOK
<1>2. RequestsPlaced'
    BY DEF Consistent, Placed, RequestDies, Fault, IdleRequest, rows, RequestsPlaced,
           RequestPlaced, Apart
<1>3. \A k \in Intents : IntentPlaced(k)'
    BY Frame DEF RequestDies, rows
<1>4. \A d \in Cleaners : CleanerPlaced(d)'
    BY Frame DEF RequestDies, rows
<1>5. \A w \in Validators : ValidatorPlaced(w)'
    BY Frame DEF RequestDies, rows
<1>6. \A k \in Intents : AssetSound(k)'
    BY Frame DEF RequestDies, rows
<1>7. OnePendingUploadPerPost'
    BY Frame DEF RequestDies, rows
<1> QED
    BY <1>1, <1>2, <1>3, <1>4, <1>5, <1>6, <1>7 DEF Consistent, Placed

LEMMA UploadExpiresConsistent ==
  ASSUME Consistent, NEW i \in Intents, UploadExpires(i)
  PROVE  Consistent'
<1>1. TypeOK'
  <2>1. intent' \in [Intents -> IntentRows]
    <3>1. intent \in [Intents -> IntentRows] /\ intent[i] \in IntentRows
        BY DEF Consistent, TypeOK
    <3>2. [intent[i] EXCEPT !.expired = TRUE] \in IntentRows
        BY <3>1 DEF IntentRows
    <3> QED
        BY <3>1, <3>2 DEF UploadExpires
  <2> QED
      BY <2>1 DEF UploadExpires, Consistent, TypeOK
<1>2. RequestsPlaced'
    BY DEF Consistent, Placed, UploadExpires, RequestsPlaced, RequestPlaced, Apart
<1>3. \A k \in Intents : IntentPlaced(k)'
    BY DEF Consistent, Placed, UploadExpires, IntentPlaced
<1>4. \A d \in Cleaners : CleanerPlaced(d)'
    BY Frame DEF UploadExpires
<1>5. \A w \in Validators : ValidatorPlaced(w)'
    BY Frame DEF UploadExpires
<1>6. \A k \in Intents : AssetSound(k)'
    BY DEF Consistent, Placed, UploadExpires, AssetSound
<1>7. OnePendingUploadPerPost'
    BY DEF Consistent, Placed, UploadExpires, OnePendingUploadPerPost
<1> QED
    BY <1>1, <1>2, <1>3, <1>4, <1>5, <1>6, <1>7 DEF Consistent, Placed

LEMMA SweepExpiredIntentConsistent ==
  ASSUME Consistent, NEW i \in Intents, SweepExpiredIntent(i)
  PROVE  Consistent'
<1>1. TypeOK'
  <2>1. cleanupJob' \in [Intents -> {"none", "queued", "done"}]
      BY DEF SweepExpiredIntent, Consistent, TypeOK
  <2> QED
      BY <2>1 DEF SweepExpiredIntent, Consistent, TypeOK
<1>2. RequestsPlaced'
    BY Frame DEF SweepExpiredIntent
<1>3. \A k \in Intents : IntentPlaced(k)'
    BY Frame DEF SweepExpiredIntent
<1>4. \A d \in Cleaners : CleanerPlaced(d)'
    BY Frame DEF SweepExpiredIntent
<1>5. \A w \in Validators : ValidatorPlaced(w)'
    BY Frame DEF SweepExpiredIntent
<1>6. \A k \in Intents : AssetSound(k)'
    BY Frame DEF SweepExpiredIntent
<1>7. OnePendingUploadPerPost'
    BY Frame DEF SweepExpiredIntent
<1> QED
    BY <1>1, <1>2, <1>3, <1>4, <1>5, <1>6, <1>7 DEF Consistent, Placed

LEMMA LoadIntentConsistent ==
  ASSUME Consistent, NEW c \in Cleaners, NEW i \in Intents, LoadIntent(c, i)
  PROVE  Consistent'
<1>1. TypeOK'
  <2>1. cleaner' \in [Cleaners -> CleanerStates]
      BY DEF LoadIntent, rows, Consistent, TypeOK, CleanerStates
  <2> QED
      BY <2>1 DEF LoadIntent, rows, Consistent, TypeOK
<1>2. RequestsPlaced'
    BY Frame DEF LoadIntent, rows
<1>3. \A k \in Intents : IntentPlaced(k)'
    BY Frame DEF LoadIntent, rows
<1>4. \A d \in Cleaners : CleanerPlaced(d)'
    BY DEF Consistent, Placed, LoadIntent, rows, CleanerPlaced
<1>5. \A w \in Validators : ValidatorPlaced(w)'
    BY Frame DEF LoadIntent, rows
<1>6. \A k \in Intents : AssetSound(k)'
    BY Frame DEF LoadIntent, rows
<1>7. OnePendingUploadPerPost'
    BY Frame DEF LoadIntent, rows
<1> QED
    BY <1>1, <1>2, <1>3, <1>4, <1>5, <1>6, <1>7 DEF Consistent, Placed

LEMMA SkipClosedIntentConsistent ==
  ASSUME Consistent, NEW i \in Intents, SkipClosedIntent(i)
  PROVE  Consistent'
<1>1. TypeOK'
  <2>1. cleanupJob' \in [Intents -> {"none", "queued", "done"}]
      BY DEF SkipClosedIntent, Consistent, TypeOK
  <2> QED
      BY <2>1 DEF SkipClosedIntent, Consistent, TypeOK
<1>2. RequestsPlaced'
    BY Frame DEF SkipClosedIntent
<1>3. \A k \in Intents : IntentPlaced(k)'
    BY Frame DEF SkipClosedIntent
<1>4. \A d \in Cleaners : CleanerPlaced(d)'
    BY Frame DEF SkipClosedIntent
<1>5. \A w \in Validators : ValidatorPlaced(w)'
    BY Frame DEF SkipClosedIntent
<1>6. \A k \in Intents : AssetSound(k)'
    BY Frame DEF SkipClosedIntent
<1>7. OnePendingUploadPerPost'
    BY Frame DEF SkipClosedIntent
<1> QED
    BY <1>1, <1>2, <1>3, <1>4, <1>5, <1>6, <1>7 DEF Consistent, Placed

LEMMA ReleaseAbandonedConsistent ==
  ASSUME Consistent, NEW c \in Cleaners, ReleaseAbandoned(c)
  PROVE  Consistent'
<1>1. TypeOK'
  <2>1. upload' \in [Intents -> {"none", "open", "completed", "aborted"}]
      BY DEF ReleaseAbandoned, Consistent, TypeOK, AbortMultipartUpload, Placed
  <2>2. cleaner' \in [Cleaners -> CleanerStates]
      BY DEF ReleaseAbandoned, Consistent, TypeOK, CleanerStates
  <2> QED
      BY <2>1, <2>2 DEF ReleaseAbandoned, Consistent, TypeOK
<1>2. RequestsPlaced'
    BY DEF Consistent, Placed, ReleaseAbandoned, AbortMultipartUpload, RequestsPlaced,
           RequestPlaced, Apart
<1>3. \A k \in Intents : IntentPlaced(k)'
    BY DEF Consistent, Placed, ReleaseAbandoned, AbortMultipartUpload, IntentPlaced
<1>4. \A d \in Cleaners : CleanerPlaced(d)'
    BY DEF Consistent, Placed, ReleaseAbandoned, AbortMultipartUpload, CleanerPlaced
<1>5. \A w \in Validators : ValidatorPlaced(w)'
    BY Frame DEF ReleaseAbandoned
<1>6. \A k \in Intents : AssetSound(k)'
    BY Frame DEF ReleaseAbandoned
<1>7. OnePendingUploadPerPost'
    BY Frame DEF ReleaseAbandoned
<1> QED
    BY <1>1, <1>2, <1>3, <1>4, <1>5, <1>6, <1>7 DEF Consistent, Placed

LEMMA ExpireIntentConsistent ==
  ASSUME Consistent, NEW c \in Cleaners, ExpireIntent(c)
  PROVE  Consistent'
<1>1. TypeOK'
  <2>1. intent' \in [Intents -> IntentRows]
      BY CloseTyped DEF ExpireIntent, Consistent, intentStates, Placed, CleanerPlaced
  <2>2. cleanupJob' \in [Intents -> {"none", "queued", "done"}]
      BY DEF ExpireIntent, Consistent, TypeOK
  <2>3. cleaner' \in [Cleaners -> CleanerStates]
      BY DEF ExpireIntent, Consistent, TypeOK, IdleCleaner, CleanerStates
  <2> QED
      BY <2>1, <2>2, <2>3 DEF ExpireIntent, Consistent, TypeOK
<1>2. RequestsPlaced'
    BY DEF Consistent, Placed, ExpireIntent, CloseVideoUploadIntent, IdleCleaner,
           RequestsPlaced, RequestPlaced, Apart
<1>3. \A k \in Intents : IntentPlaced(k)'
    BY DEF Consistent, Placed, ExpireIntent, CloseVideoUploadIntent, IdleCleaner,
           IntentPlaced
<1>4. \A d \in Cleaners : CleanerPlaced(d)'
    BY DEF Consistent, Placed, ExpireIntent, CloseVideoUploadIntent, IdleCleaner,
           CleanerPlaced
<1>5. \A w \in Validators : ValidatorPlaced(w)'
    BY Frame DEF ExpireIntent
<1>6. \A k \in Intents : AssetSound(k)'
    BY DEF Consistent, Placed, ExpireIntent, CloseVideoUploadIntent, IdleCleaner,
           AssetSound
<1>7. OnePendingUploadPerPost'
    BY DEF Consistent, Placed, ExpireIntent, CloseVideoUploadIntent, IdleCleaner,
           OnePendingUploadPerPost
<1> QED
    BY <1>1, <1>2, <1>3, <1>4, <1>5, <1>6, <1>7 DEF Consistent, Placed

LEMMA LoadAssetConsistent ==
  ASSUME Consistent, NEW v \in Validators, NEW i \in Intents, LoadAsset(v, i)
  PROVE  Consistent'
<1>1. TypeOK'
  <2>1. validator' \in [Validators -> ValidatorStates]
      BY DEF LoadAsset, rows, Consistent, TypeOK, ValidatorStates, Placed
  <2> QED
      BY <2>1 DEF LoadAsset, rows, Consistent, TypeOK
<1>2. RequestsPlaced'
    BY Frame DEF LoadAsset, rows
<1>3. \A k \in Intents : IntentPlaced(k)'
    BY Frame DEF LoadAsset, rows
<1>4. \A d \in Cleaners : CleanerPlaced(d)'
    BY Frame DEF LoadAsset, rows
<1>5. \A w \in Validators : ValidatorPlaced(w)'
    BY DEF Consistent, Placed, LoadAsset, rows, ValidatorPlaced
<1>6. \A k \in Intents : AssetSound(k)'
    BY Frame DEF LoadAsset, rows
<1>7. OnePendingUploadPerPost'
    BY Frame DEF LoadAsset, rows
<1> QED
    BY <1>1, <1>2, <1>3, <1>4, <1>5, <1>6, <1>7 DEF Consistent, Placed

LEMMA DecideVerdictConsistent ==
  ASSUME Consistent, NEW v \in Validators, NEW verdict \in {"READY", "REJECTED"},
         DecideVerdict(v, verdict)
  PROVE  Consistent'
<1>1. TypeOK'
  <2>1. validator' \in [Validators -> ValidatorStates]
    <3>1. /\ validator \in [Validators -> ValidatorStates]
          /\ validator[v] \in ValidatorStates
        BY DEF Consistent, TypeOK
    <3>2. [validator[v] EXCEPT !.pc = "record", !.verdict = verdict] \in ValidatorStates
        BY <3>1 DEF ValidatorStates
    <3> QED
        BY <3>1, <3>2 DEF DecideVerdict
  <2> QED
      BY <2>1 DEF DecideVerdict, rows, Consistent, TypeOK
<1>2. RequestsPlaced'
    BY Frame DEF DecideVerdict, rows
<1>3. \A k \in Intents : IntentPlaced(k)'
    BY Frame DEF DecideVerdict, rows
<1>4. \A d \in Cleaners : CleanerPlaced(d)'
    BY Frame DEF DecideVerdict, rows
<1>5. \A w \in Validators : ValidatorPlaced(w)'
    BY DEF Consistent, Placed, DecideVerdict, rows, ValidatorPlaced
<1>6. \A k \in Intents : AssetSound(k)'
    BY Frame DEF DecideVerdict, rows
<1>7. OnePendingUploadPerPost'
    BY Frame DEF DecideVerdict, rows
<1> QED
    BY <1>1, <1>2, <1>3, <1>4, <1>5, <1>6, <1>7 DEF Consistent, Placed

LEMMA RecordVideoAssetValidationConsistent ==
  ASSUME Consistent, NEW v \in Validators, RecordVideoAssetValidation(v)
  PROVE  Consistent'
<1>1. TypeOK'
  <2>1. asset' \in [Intents -> AssetRows]
      <3> DEFINE i == validator[v].intent
      <3>1. asset[i] \in AssetRows /\ validator[v].verdict \in assetStates
          BY DEF RecordVideoAssetValidation, Consistent, TypeOK, Placed, ValidatorPlaced,
                 assetStates
      <3>2. [asset[i] EXCEPT !.state = validator[v].verdict, !.purgeDue = FALSE] \in AssetRows
          BY <3>1 DEF AssetRows
      <3>3. CASE Undecided(i)
          BY <3>2, <3>3 DEF RecordVideoAssetValidation, Consistent, TypeOK
      <3>4. CASE ~Undecided(i)
          BY <3>4 DEF RecordVideoAssetValidation, Consistent, TypeOK
      <3> QED
          BY <3>3, <3>4
  <2>2. validateJob' \in [Intents -> {"none", "queued", "done", "failed"}]
      BY DEF RecordVideoAssetValidation, Consistent, TypeOK
  <2>3. validator' \in [Validators -> ValidatorStates]
      BY DEF RecordVideoAssetValidation, Consistent, TypeOK, IdleValidator,
             ValidatorStates, Placed
  <2> QED
      BY <2>1, <2>2, <2>3 DEF RecordVideoAssetValidation, Consistent, TypeOK
<1>2. RequestsPlaced'
    BY DEF Consistent, Placed, RecordVideoAssetValidation, IdleValidator, Undecided,
           RequestsPlaced, RequestPlaced, Apart
<1>3. \A k \in Intents : IntentPlaced(k)'
    BY DEF Consistent, Placed, RecordVideoAssetValidation, IdleValidator, Undecided,
           IntentPlaced
<1>4. \A d \in Cleaners : CleanerPlaced(d)'
    BY DEF Consistent, Placed, RecordVideoAssetValidation, IdleValidator, Undecided,
           CleanerPlaced
<1>5. \A w \in Validators : ValidatorPlaced(w)'
    BY DEF Consistent, Placed, RecordVideoAssetValidation, IdleValidator, Undecided,
           ValidatorPlaced
<1>6. \A k \in Intents : AssetSound(k)'
    BY DEF Consistent, Placed, RecordVideoAssetValidation, IdleValidator, Undecided,
           AssetSound
<1>7. OnePendingUploadPerPost'
    BY Frame DEF RecordVideoAssetValidation
<1> QED
    BY <1>1, <1>2, <1>3, <1>4, <1>5, <1>6, <1>7 DEF Consistent, Placed

LEMMA ValidatorDiesConsistent ==
  ASSUME Consistent, NEW v \in Validators, ValidatorDies(v)
  PROVE  Consistent'
<1>1. TypeOK'
  <2>1. validateJob' \in [Intents -> {"none", "queued", "done", "failed"}]
      BY DEF ValidatorDies, Consistent, TypeOK
  <2>2. validator' \in [Validators -> ValidatorStates]
      BY DEF ValidatorDies, Consistent, TypeOK, IdleValidator, ValidatorStates, Placed
  <2>3. faults' \in 0..FaultBudget
      BY UploadAssumption DEF ValidatorDies, Fault, Consistent, TypeOK
  <2> QED
      BY <2>1, <2>2, <2>3 DEF ValidatorDies, Consistent, TypeOK
<1>2. RequestsPlaced'
    BY Frame DEF ValidatorDies
<1>3. \A k \in Intents : IntentPlaced(k)'
    BY Frame DEF ValidatorDies
<1>4. \A d \in Cleaners : CleanerPlaced(d)'
    BY Frame DEF ValidatorDies
<1>5. \A w \in Validators : ValidatorPlaced(w)'
    BY DEF Consistent, Placed, ValidatorDies, Fault, IdleValidator, ValidatorPlaced
<1>6. \A k \in Intents : AssetSound(k)'
    BY Frame DEF ValidatorDies
<1>7. OnePendingUploadPerPost'
    BY Frame DEF ValidatorDies
<1> QED
    BY <1>1, <1>2, <1>3, <1>4, <1>5, <1>6, <1>7 DEF Consistent, Placed

LEMMA CleanerDiesConsistent ==
  ASSUME Consistent, NEW c \in Cleaners, CleanerDies(c)
  PROVE  Consistent'
<1>1. TypeOK'
  <2>1. cleanupJob' \in [Intents -> {"none", "queued", "done"}]
      BY DEF CleanerDies, Consistent, TypeOK, FailedCleanup
  <2>2. purgeJob' \in [Intents -> {"none", "queued", "done"}]
      BY DEF CleanerDies, Consistent, TypeOK, FailedCleanup
  <2>3. cleaner' \in [Cleaners -> CleanerStates]
      BY DEF CleanerDies, Consistent, TypeOK, IdleCleaner, CleanerStates
  <2>4. faults' \in 0..FaultBudget
      BY UploadAssumption DEF CleanerDies, Fault, Consistent, TypeOK
  <2> QED
      BY <2>1, <2>2, <2>3, <2>4 DEF CleanerDies, Consistent, TypeOK
<1>2. RequestsPlaced'
    BY Frame DEF CleanerDies
<1>3. \A k \in Intents : IntentPlaced(k)'
    BY Frame DEF CleanerDies
<1>4. \A d \in Cleaners : CleanerPlaced(d)'
    BY DEF Consistent, Placed, CleanerDies, Fault, IdleCleaner, FailedCleanup,
           CleanerPlaced
<1>5. \A w \in Validators : ValidatorPlaced(w)'
    BY Frame DEF CleanerDies
<1>6. \A k \in Intents : AssetSound(k)'
    BY Frame DEF CleanerDies
<1>7. OnePendingUploadPerPost'
    BY Frame DEF CleanerDies
<1> QED
    BY <1>1, <1>2, <1>3, <1>4, <1>5, <1>6, <1>7 DEF Consistent, Placed

LEMMA PurgeBecomesDueConsistent ==
  ASSUME Consistent, NEW i \in Intents, PurgeBecomesDue(i)
  PROVE  Consistent'
<1>1. TypeOK'
  <2>1. asset' \in [Intents -> AssetRows]
    <3>1. asset \in [Intents -> AssetRows] /\ asset[i] \in AssetRows
        BY DEF Consistent, TypeOK
    <3>2. [asset[i] EXCEPT !.purgeDue = TRUE] \in AssetRows
        BY <3>1 DEF AssetRows
    <3> QED
        BY <3>1, <3>2 DEF PurgeBecomesDue
  <2> QED
      BY <2>1 DEF PurgeBecomesDue, Consistent, TypeOK
<1>2. RequestsPlaced'
    BY DEF Consistent, Placed, PurgeBecomesDue, RequestsPlaced, RequestPlaced, Apart
<1>3. \A k \in Intents : IntentPlaced(k)'
    BY DEF Consistent, Placed, PurgeBecomesDue, IntentPlaced
<1>4. \A d \in Cleaners : CleanerPlaced(d)'
    BY DEF Consistent, Placed, PurgeBecomesDue, CleanerPlaced
<1>5. \A w \in Validators : ValidatorPlaced(w)'
    BY Frame DEF PurgeBecomesDue
<1>6. \A k \in Intents : AssetSound(k)'
    BY DEF Consistent, Placed, PurgeBecomesDue, AssetSound
<1>7. OnePendingUploadPerPost'
    BY Frame DEF PurgeBecomesDue
<1> QED
    BY <1>1, <1>2, <1>3, <1>4, <1>5, <1>6, <1>7 DEF Consistent, Placed

LEMMA SweepPurgeableAssetConsistent ==
  ASSUME Consistent, NEW i \in Intents, SweepPurgeableAsset(i)
  PROVE  Consistent'
<1>1. TypeOK'
  <2>1. purgeJob' \in [Intents -> {"none", "queued", "done"}]
      BY DEF SweepPurgeableAsset, Consistent, TypeOK
  <2> QED
      BY <2>1 DEF SweepPurgeableAsset, Consistent, TypeOK
<1>2. RequestsPlaced'
    BY Frame DEF SweepPurgeableAsset
<1>3. \A k \in Intents : IntentPlaced(k)'
    BY Frame DEF SweepPurgeableAsset
<1>4. \A d \in Cleaners : CleanerPlaced(d)'
    BY Frame DEF SweepPurgeableAsset
<1>5. \A w \in Validators : ValidatorPlaced(w)'
    BY Frame DEF SweepPurgeableAsset
<1>6. \A k \in Intents : AssetSound(k)'
    BY Frame DEF SweepPurgeableAsset
<1>7. OnePendingUploadPerPost'
    BY Frame DEF SweepPurgeableAsset
<1> QED
    BY <1>1, <1>2, <1>3, <1>4, <1>5, <1>6, <1>7 DEF Consistent, Placed

LEMMA LoadRejectedAssetConsistent ==
  ASSUME Consistent, NEW c \in Cleaners, NEW i \in Intents, LoadRejectedAsset(c, i)
  PROVE  Consistent'
<1>1. TypeOK'
  <2>1. cleaner' \in [Cleaners -> CleanerStates]
      BY DEF LoadRejectedAsset, rows, Consistent, TypeOK, CleanerStates
  <2> QED
      BY <2>1 DEF LoadRejectedAsset, rows, Consistent, TypeOK
<1>2. RequestsPlaced'
    BY Frame DEF LoadRejectedAsset, rows
<1>3. \A k \in Intents : IntentPlaced(k)'
    BY Frame DEF LoadRejectedAsset, rows
<1>4. \A d \in Cleaners : CleanerPlaced(d)'
    BY DEF Consistent, Placed, LoadRejectedAsset, Purgeable, rows, CleanerPlaced
<1>5. \A w \in Validators : ValidatorPlaced(w)'
    BY Frame DEF LoadRejectedAsset, rows
<1>6. \A k \in Intents : AssetSound(k)'
    BY Frame DEF LoadRejectedAsset, rows
<1>7. OnePendingUploadPerPost'
    BY Frame DEF LoadRejectedAsset, rows
<1> QED
    BY <1>1, <1>2, <1>3, <1>4, <1>5, <1>6, <1>7 DEF Consistent, Placed

LEMMA DeleteObjectConsistent ==
  ASSUME Consistent, NEW c \in Cleaners, DeleteObject(c)
  PROVE  Consistent'
<1>1. TypeOK'
  <2>1. object' \in [Intents -> sizes \cup {"none"}]
      BY DEF DeleteObject, Consistent, TypeOK, Placed
  <2>2. cleaner' \in [Cleaners -> CleanerStates]
      BY DEF DeleteObject, Consistent, TypeOK, CleanerStates
  <2> QED
      BY <2>1, <2>2 DEF DeleteObject, Consistent, TypeOK
<1>2. RequestsPlaced'
    BY DEF Consistent, Placed, DeleteObject, RequestsPlaced, RequestPlaced, Apart,
           CleanerPlaced
<1>3. \A k \in Intents : IntentPlaced(k)'
    BY DEF Consistent, Placed, DeleteObject, IntentPlaced
<1>4. \A d \in Cleaners : CleanerPlaced(d)'
    BY DEF Consistent, Placed, DeleteObject, CleanerPlaced, TypeOK
<1>5. \A w \in Validators : ValidatorPlaced(w)'
    BY Frame DEF DeleteObject
<1>6. \A k \in Intents : AssetSound(k)'
    BY DEF Consistent, Placed, DeleteObject, CleanerPlaced, AssetSound
<1>7. OnePendingUploadPerPost'
    BY Frame DEF DeleteObject
<1> QED
    BY <1>1, <1>2, <1>3, <1>4, <1>5, <1>6, <1>7 DEF Consistent, Placed

LEMMA MarkVideoAssetPurgedConsistent ==
  ASSUME Consistent, NEW c \in Cleaners, MarkVideoAssetPurged(c)
  PROVE  Consistent'
<1>1. TypeOK'
  <2>1. asset' \in [Intents -> AssetRows]
      <3>1. CASE Purgeable(cleaner[c].intent)
        <4> DEFINE i == cleaner[c].intent
        <4>1. asset \in [Intents -> AssetRows]
            BY DEF Consistent, TypeOK
        <4>2. \A k \in Intents : [asset[k] EXCEPT !.purged = TRUE] \in AssetRows
          <5>1. \A row \in AssetRows : [row EXCEPT !.purged = TRUE] \in AssetRows
              BY DEF AssetRows
          <5> QED
              BY <4>1, <5>1
        <4>3. asset' = [asset EXCEPT ![i].purged = TRUE]
            BY <3>1 DEF MarkVideoAssetPurged
        <4> QED
            BY <4>1, <4>2, <4>3
      <3>2. CASE ~Purgeable(cleaner[c].intent)
          BY <3>2 DEF MarkVideoAssetPurged, Consistent, TypeOK
      <3> QED
          BY <3>1, <3>2
  <2>2. purgeJob' \in [Intents -> {"none", "queued", "done"}]
      BY DEF MarkVideoAssetPurged, Consistent, TypeOK
  <2>3. cleaner' \in [Cleaners -> CleanerStates]
      BY DEF MarkVideoAssetPurged, Consistent, TypeOK, IdleCleaner, CleanerStates
  <2> QED
      BY <2>1, <2>2, <2>3 DEF MarkVideoAssetPurged, Consistent, TypeOK
<1>2. RequestsPlaced'
    BY DEF Consistent, Placed, MarkVideoAssetPurged, IdleCleaner, Purgeable,
           RequestsPlaced, RequestPlaced, Apart
<1>3. \A k \in Intents : IntentPlaced(k)'
    BY DEF Consistent, Placed, MarkVideoAssetPurged, IdleCleaner, Purgeable, IntentPlaced
<1>4. \A d \in Cleaners : CleanerPlaced(d)'
    BY DEF Consistent, Placed, MarkVideoAssetPurged, IdleCleaner, Purgeable, CleanerPlaced
<1>5. \A w \in Validators : ValidatorPlaced(w)'
    BY Frame DEF MarkVideoAssetPurged
<1>6. \A k \in Intents : AssetSound(k)'
    BY DEF Consistent, Placed, MarkVideoAssetPurged, IdleCleaner, Purgeable,
           CleanerPlaced, AssetSound
<1>7. OnePendingUploadPerPost'
    BY Frame DEF MarkVideoAssetPurged
<1> QED
    BY <1>1, <1>2, <1>3, <1>4, <1>5, <1>6, <1>7 DEF Consistent, Placed

-----------------------------------------------------------------------------
LEMMA InitConsistent == Init => Consistent
<1> SUFFICES ASSUME Init PROVE Consistent
    OBVIOUS
<1>1. TypeOK
    BY UploadAssumption
    DEF Init, TypeOK, IntentRows, AssetRows, RequestStates, CleanerStates,
        ValidatorStates, IdleRequest, IdleCleaner, IdleValidator
<1>2. Placed
    BY DEF Init, Placed, RequestsPlaced, RequestPlaced, Apart, IntentPlaced,
           CleanerPlaced, ValidatorPlaced, IdleRequest, IdleCleaner, IdleValidator
<1>3. (\A i \in Intents : AssetSound(i)) /\ OnePendingUploadPerPost
    BY DEF Init, AssetSound, OnePendingUploadPerPost
<1> QED
    BY <1>1, <1>2, <1>3 DEF Consistent

LEMMA ServeConsistent ==
  ASSUME Consistent, NEW q \in Requests, Serve(q)
  PROVE  Consistent'
<1>1. CASE \E i \in Intents, p \in Posts : ReserveUpload(q, i, p)
    BY <1>1, ReserveUploadConsistent
<1>2. CASE \E i \in Intents : CompleteVideoUpload(q, i) \/ RepeatCompletion(q, i)
                                \/ AbortVideoUpload(q, i)
    BY <1>2, CompleteVideoUploadConsistent, RepeatCompletionConsistent,
       AbortVideoUploadConsistent
<1>3. CASE InsertIntent(q) \/ ReleaseReservation(q)
    BY <1>3, InsertIntentConsistent, ReleaseReservationConsistent
<1>4. CASE \E size \in sizes : StoreObject(q, size)
    BY <1>4, StoreObjectConsistent
<1>5. CASE StorageUnavailable(q) \/ SizeMismatch(q)
    BY <1>5, StorageUnavailableConsistent, SizeMismatchConsistent
<1>6. CASE \/ CloseCompleted(q) \/ LookupAsset(q)
           \/ CreateVideoAsset(q) \/ EnqueueValidation(q)
    BY <1>6, CloseCompletedConsistent, LookupAssetConsistent, CreateVideoAssetConsistent,
       EnqueueValidationConsistent
<1>7. CASE ReleaseUpload(q) \/ CloseAborted(q) \/ RequestDies(q)
    BY <1>7, ReleaseUploadConsistent, CloseAbortedConsistent, RequestDiesConsistent
<1> QED
    BY <1>1, <1>2, <1>3, <1>4, <1>5, <1>6, <1>7 DEF Serve

LEMMA CleanConsistent ==
  ASSUME Consistent, NEW c \in Cleaners, Clean(c)
  PROVE  Consistent'
  BY LoadIntentConsistent, LoadRejectedAssetConsistent, ReleaseAbandonedConsistent,
     ExpireIntentConsistent, DeleteObjectConsistent, MarkVideoAssetPurgedConsistent,
     CleanerDiesConsistent
  DEF Clean

LEMMA ValidateConsistent ==
  ASSUME Consistent, NEW v \in Validators, Validate(v)
  PROVE  Consistent'
  BY LoadAssetConsistent, DecideVerdictConsistent, RecordVideoAssetValidationConsistent,
     ValidatorDiesConsistent
  DEF Validate

LEMMA NextConsistent == Consistent /\ [Next]_vars => Consistent'
<1> SUFFICES ASSUME Consistent, [Next]_vars PROVE Consistent'
    OBVIOUS
<1>1. CASE \E q \in Requests : Serve(q)
    BY <1>1, ServeConsistent
<1>2. CASE \E c \in Cleaners : Clean(c)
    BY <1>2, CleanConsistent
<1>3. CASE \E v \in Validators : Validate(v)
    BY <1>3, ValidateConsistent
<1>4. CASE \E i \in Intents : Sweep(i) \/ UploadExpires(i) \/ PurgeBecomesDue(i)
    BY <1>4, SweepExpiredIntentConsistent, SweepPurgeableAssetConsistent,
       SkipClosedIntentConsistent, UploadExpiresConsistent, PurgeBecomesDueConsistent
    DEF Sweep
<1>5. CASE UNCHANGED vars
    <2>1. TypeOK'
        BY <1>5 DEF Consistent, TypeOK, vars, rows
    <2> QED
        BY <1>5, <2>1, Frame DEF Consistent, Placed, vars, rows
<1> QED
    BY <1>1, <1>2, <1>3, <1>4, <1>5 DEF Next

LEMMA AlwaysConsistent == Spec => []Consistent
<1> QED
    BY InitConsistent, NextConsistent, PTL DEF Spec

\* Rows and storage agree in every reachable state: an asset that is ready, or may
\* become so, has its bytes; a post has one pending upload; what is recorded as
\* purged is gone.
THEOREM UploadsStayConsistent == Spec => []UploadsConsistent
<1> QED
    BY AlwaysConsistent, ConsistentImplies, PTL

-----------------------------------------------------------------------------
(* DecisionsStand.                                                         *)

Decisions ==
  \A i \in Intents :
    /\ asset[i].state \in {"READY", "REJECTED"} => asset'[i].state = asset[i].state
    /\ intent[i].state \in intentStates \ {"PENDING"} => intent'[i].state = intent[i].state

LEMMA ServeDecides ==
  ASSUME Consistent, NEW q \in Requests, Serve(q)
  PROVE  Decisions
<1> DEFINE i == request[q].intent
<1>1. CASE UNCHANGED <<intent, asset>>
    BY <1>1 DEF Decisions
<1>2. CASE InsertIntent(q)
    BY <1>2
    DEF InsertIntent, Decisions, Consistent, Placed, RequestsPlaced, RequestPlaced,
        intentStates
<1>3. CASE SizeMismatch(q) \/ CloseCompleted(q) \/ CloseAborted(q)
    BY <1>3
    DEF SizeMismatch, CloseCompleted, CloseAborted, CloseVideoUploadIntent, Decisions,
        Consistent, TypeOK
<1>4. CASE CreateVideoAsset(q)
    BY <1>4
    DEF CreateVideoAsset, Decisions, Consistent, Placed, RequestsPlaced, RequestPlaced
<1> QED
    BY <1>1, <1>2, <1>3, <1>4
    DEF Serve, ReserveUpload, ReleaseReservation, CompleteVideoUpload, RepeatCompletion,
        StoreObject, StorageUnavailable, LookupAsset, EnqueueValidation, AbortVideoUpload,
        ReleaseUpload, RequestDies, rows

LEMMA CleanDecides ==
  ASSUME Consistent, NEW c \in Cleaners, Clean(c)
  PROVE  Decisions
<1>1. CASE UNCHANGED <<intent, asset>>
    BY <1>1 DEF Decisions
<1>2. CASE ExpireIntent(c)
    BY <1>2 DEF ExpireIntent, CloseVideoUploadIntent, Decisions, Consistent
<1>3. CASE MarkVideoAssetPurged(c)
    BY <1>3 DEF MarkVideoAssetPurged, Purgeable, Decisions, Consistent
<1> QED
    BY <1>1, <1>2, <1>3
    DEF Clean, LoadIntent, LoadRejectedAsset, ReleaseAbandoned, DeleteObject, CleanerDies,
        rows

LEMMA ValidateDecides ==
  ASSUME Consistent, NEW v \in Validators, Validate(v)
  PROVE  Decisions
<1>1. CASE UNCHANGED <<intent, asset>>
    BY <1>1 DEF Decisions
<1>2. CASE RecordVideoAssetValidation(v)
    BY <1>2 DEF RecordVideoAssetValidation, Undecided, Decisions, Consistent
<1> QED
    BY <1>1, <1>2 DEF Validate, LoadAsset, DecideVerdict, ValidatorDies, rows

\* No step replaces a recorded verdict or reopens, or closes again, a closed intent.
THEOREM DecisionsAreFinal == Spec => DecisionsStand
<1>1. ASSUME Consistent, Next PROVE Decisions
    <2>1. CASE \E i \in Intents : Sweep(i)
        BY <2>1
        DEF Sweep, SweepExpiredIntent, SweepPurgeableAsset, SkipClosedIntent, Decisions
    <2>2. CASE \E i \in Intents : UploadExpires(i) \/ PurgeBecomesDue(i)
      <3>1. PICK i \in Intents : UploadExpires(i) \/ PurgeBecomesDue(i)
          BY <2>2
      <3>2. CASE UploadExpires(i)
          BY <3>2 DEF UploadExpires, Decisions, Consistent
      <3>3. CASE PurgeBecomesDue(i)
          BY <3>3 DEF PurgeBecomesDue, Decisions, Consistent
      <3> QED
          BY <3>1, <3>2, <3>3
    <2> QED
        BY <1>1, <2>1, <2>2, ServeDecides, CleanDecides, ValidateDecides DEF Next
<1>2. Consistent /\ [Next]_vars => [Decisions]_vars
    BY <1>1
<1> QED
    BY <1>2, AlwaysConsistent, PTL DEF Spec, DecisionsStand, Decisions

=============================================================================
