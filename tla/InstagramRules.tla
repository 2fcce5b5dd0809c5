---------------------------- MODULE InstagramRules ----------------------------
(***************************************************************************)
(* What packages/domain makes of Instagram's answers: the class of a       *)
(* failed response, the verdict on one media or comment item, the metrics  *)
(* of an insight group, and the age buckets and windows of a snapshot.     *)
(*                                                                         *)
(* A provider body is abstracted to the record of tests the code makes of  *)
(* it.  Null stands for null and for a field of the wrong shape.           *)
(***************************************************************************)
EXTENDS NullValue, Integers, Sequences, FiniteSets, SequencesExt

responseClasses ==
  {"authorisation", "invalid_request", "rate_limit", "transient", "unsupported"}

\* response: [status, code, subcode], the last two from body.error.
ClassifyInstagramResponse(response) ==
  CASE response.status = 429 -> "rate_limit"
    [] response.status \in {401, 403} -> "authorisation"
    [] response.status >= 500 -> "transient"
    [] OTHER ->
       IF response.code = 190 THEN "authorisation"
       ELSE IF response.code \in {4, 17, 32, 613} THEN "rate_limit"
       ELSE IF response.status = 400 /\ (response.code = 100 \/ response.subcode = 2108006)
         THEN "unsupported"
         ELSE "invalid_request"

\* fetchInstagramMediaPage, and the insight and comment clients: what a call
\* comes to.  answer: [reached, status, code, subcode, json, next, cursor].
FetchMediaPage(answer) ==
  CASE ~answer.reached -> "transient"
    [] answer.reached /\ answer.status # 200 -> ClassifyInstagramResponse(answer)
    [] answer.reached /\ answer.status = 200 ->
       IF ~answer.json \/ (answer.next /\ ~answer.cursor) THEN "transient" ELSE "page"

FetchMediaItem(answer) ==
  CASE ~answer.reached -> "transient"
    [] answer.reached /\ answer.status # 200 -> ClassifyInstagramResponse(answer)
    [] answer.reached /\ answer.status = 200 -> IF answer.json THEN "item" ELSE "transient"

FetchInsightGroup(answer) ==
  CASE ~answer.reached -> "transient"
    [] answer.reached /\ answer.status # 200 -> ClassifyInstagramResponse(answer)
    [] answer.reached /\ answer.status = 200 -> IF answer.json THEN "group" ELSE "transient"

FetchCommentsPage(answer) ==
  CASE ~answer.reached -> "transient"
    [] answer.reached /\ answer.status # 200 -> ClassifyInstagramResponse(answer)
    [] answer.reached /\ answer.status = 200 ->
       IF ~answer.json \/ (answer.next /\ ~answer.cursor) THEN "transient" ELSE "page"

\* toJobFailure of the three handlers.
ToJobFailure(class) ==
  CASE class = "authorisation" -> "CREDENTIAL"
    [] class = "rate_limit"    -> "RATE_LIMIT"
    [] class = "transient"     -> "TRANSIENT"
    [] class \in {"invalid_request", "unsupported"} -> "INVALID_INPUT"

\* Answers that reach every branch of the four clients, and the classes a call
\* may be refused with.
InstagramAnswers ==
  [reached : BOOLEAN, status : {200, 400, 401, 429, 500}, code : {0, 4, 100, 190},
   subcode : {0, 2108006}, json : BOOLEAN, next : BOOLEAN, cursor : BOOLEAN]

MediaPageRefusals == {FetchMediaPage(a) : a \in InstagramAnswers} \ {"page"}
MediaItemRefusals == {FetchMediaItem(a) : a \in InstagramAnswers} \ {"item"}
InsightRefusals == {FetchInsightGroup(a) : a \in InstagramAnswers} \ {"group"}
CommentRefusals == {FetchCommentsPage(a) : a \in InstagramAnswers} \ {"page"}

\* parseInstagramRetryAfterMs, on whole seconds or Null for what is no number.
ParseRetryAfterMs(seconds) ==
  IF seconds = Null THEN Null
  ELSE IF seconds <= 0 THEN Null
  ELSE 1000 * (IF seconds > 86400 THEN 86400 ELSE seconds)

-----------------------------------------------------------------------------
(* Media and comments.                                                     *)

\* The first test an item fails names its rejection.
FirstFailure(tests) ==
  LET first == SelectInSeq(tests, LAMBDA t : ~t[1]) IN
    IF first = 0 THEN "OK" ELSE tests[first][2]

\* item: [object, serialisable, bytes, idValid, type, product, time, reply].
NormaliseMediaItem(item) ==
  FirstFailure(<< <<item.object, "ITEM_NOT_OBJECT">>,
                  <<item.serialisable, "ITEM_NOT_SERIALISABLE">>,
                  <<item.bytes <= 65536, "ITEM_TOO_LARGE">>,
                  <<item.idValid, "MEDIA_ID_INVALID">>,
                  <<item.type # Null, "MEDIA_TYPE_INVALID">>,
                  <<item.time # Null, "TIMESTAMP_INVALID">> >>)

\* parseInstagramTimestamp: a plausible year, or null.
ParseTimestamp(year) == IF year # Null /\ year \in 2010..2099 THEN year ELSE Null

\* A published Reel has media_type VIDEO: the product type decides first.
ClassifyMedia(item) ==
  CASE item.product = "REELS" -> "REEL"
    [] item.product # "REELS" /\ item.type \in {"CAROUSEL_ALBUM", "IMAGE", "VIDEO"} -> item.type
    [] OTHER -> "UNSUPPORTED"

NormaliseOneComment(item) ==
  FirstFailure(<< <<item.object, "COMMENT_NOT_OBJECT">>,
                  <<item.serialisable, "COMMENT_NOT_SERIALISABLE">>,
                  <<item.bytes <= 65536, "COMMENT_TOO_LARGE">>,
                  <<item.idValid, "COMMENT_ID_INVALID">>,
                  <<item.time # Null, "TIMESTAMP_INVALID">> >>)

\* A thread is its comment and its readable replies, or nothing at all: a reply
\* to a rejected comment is dropped with it.
NormaliseComment(top, replies) ==
  IF NormaliseOneComment(top) # "OK" THEN [comments |-> 0, rejected |-> 1]
  ELSE LET readable == {i \in DOMAIN replies : NormaliseOneComment(replies[i]) = "OK"} IN
    [comments |-> 1 + Cardinality(readable), rejected |-> Cardinality(DOMAIN replies \ readable)]

-----------------------------------------------------------------------------
(* Insights.                                                               *)

canonicalMetrics ==
  {"views", "plays", "reach", "likes", "comments", "shares", "saves",
   "total_interactions", "total_watch_time_ms", "average_watch_time_ms",
   "skip_rate", "follows", "profile_visits", "profile_activity"}

reelGroups ==
  << {"views", "reach"},
     {"likes", "comments", "shares", "saves", "total_interactions"},
     {"total_watch_time_ms", "average_watch_time_ms"},
     {"skip_rate"} >>

\* instagramInsightGroups of the pinned version: only Reels are measured.
InsightGroups(kind) == IF kind = "REEL" THEN reelGroups ELSE <<>>
RequestedMetrics(kind) == UNION Range(InsightGroups(kind))

\* maximumRatio, maximumMilliseconds (here in seconds) and maximumCount, which
\* is past TLC's integers and stands at 2^30.
MetricCeiling(metric) ==
  CASE metric = "skip_rate" -> 1
    [] metric \in {"total_watch_time_ms", "average_watch_time_ms"} -> 315360000
    [] OTHER -> 1073741824

InsightObservation(metric, availability, value) ==
  [metric |-> metric, availability |-> availability, value |-> value]

\* normaliseInstagramInsightItem: item is [metric, value], value Null when the
\* item carries no number.
NormaliseInsightItem(item, group) ==
  CASE item.metric \notin group -> "METRIC_UNKNOWN"
    [] item.metric \in group /\ item.value = Null -> "unavailable"
    [] item.metric \in group /\ item.value # Null ->
       IF item.value < 0 THEN "VALUE_NEGATIVE"
       ELSE IF item.value > MetricCeiling(item.metric) THEN "VALUE_OUT_OF_RANGE"
       ELSE "available"

\* A mutant of ReadInsightGroup: a metric that was not sent is nothing.
ReadMissingAsZero(items, group) ==
  { LET last == SelectLastInSeq(items, LAMBDA i : i.metric = metric)
    IN InsightObservation(metric, "available", IF last = 0 THEN 0 ELSE items[last].value)
    : metric \in group }

\* readInstagramInsightGroup: the last accepted item of a metric counts, and a
\* metric without one is unavailable.
ReadInsightGroup(items, group) ==
  { LET last == SelectLastInSeq(items, LAMBDA i :
                  /\ i.metric = metric
                  /\ NormaliseInsightItem(i, group) \in {"available", "unavailable"})
    IN IF last = 0 \/ items[last].value = Null
         THEN InsightObservation(metric, "unavailable", Null)
         ELSE InsightObservation(metric, "available", items[last].value)
    : metric \in group }

\* A group refused for one of these fails the attempt instead.
Retryable == {"rate_limit", "transient"}

GroupFailureAvailability(class) ==
  CASE class = "authorisation" -> "permission_missing"
    [] class = "unsupported"   -> "not_applicable"
    [] OTHER                   -> "provider_error"

FailedGroupObservations(group, availability) ==
  {InsightObservation(metric, availability, Null) : metric \in group}

UnrequestedObservations(kind) ==
  {InsightObservation(metric, "not_requested", Null)
     : metric \in canonicalMetrics \ RequestedMetrics(kind)}

\* toColumns and readInstagramSnapshotObservations: a column is written for an
\* available value, and read back only where the map says available.
ToColumns(observations) ==
  [metric \in {o.metric : o \in observations} |->
     LET o == CHOOSE o \in observations : o.metric = metric IN
       [availability |-> o.availability,
        column |-> IF o.availability = "available" THEN o.value ELSE Null]]

ReadObservations(row) ==
  {InsightObservation(metric, row[metric].availability,
                      IF row[metric].availability = "available" THEN row[metric].column ELSE Null)
     : metric \in DOMAIN row}

-----------------------------------------------------------------------------
(* Ages, in seconds.                                                       *)

snapshotBuckets == <<"import", "hour_1", "day_1", "day_3", "day_7", "day_30", "mature">>
bucketMaximum == <<1800, 7200, 129600, 345600, 777600, 3456000>>
windowMinimum == <<0, 1800, 64800, 216000, 518400, 2160000, 3456000>>

BucketIndex(age) ==
  LET fits == {i \in 1..6 : age <= bucketMaximum[i]} IN
    IF fits = {} THEN 7 ELSE CHOOSE i \in fits : \A o \in fits : i <= o

SnapshotBucketFor(age) == snapshotBuckets[BucketIndex(age)]

\* instagramSnapshotDueFor.
SnapshotDueFor(captured, age) ==
  IF SnapshotBucketFor(age) \in captured \/ age < windowMinimum[BucketIndex(age)]
    THEN Null ELSE SnapshotBucketFor(age)
=============================================================================
