------------------------------ MODULE MediaRules ------------------------------
(***************************************************************************)
(* How a video file is fetched and judged: which address may be fetched,   *)
(* what a chain of redirects comes to, what the probe's report means, and  *)
(* the verdict on a probed file.                                           *)
(***************************************************************************)
EXTENDS NullValue, Integers, Sequences, SequencesExt

\* url: [parses, https, userinfo, host], host "cdn" under an allowed suffix.
AllowedMediaUrl(url) == url.parses /\ url.https /\ ~url.userinfo /\ url.host = "cdn"

\* A mutant of OpenDownload: only the first address is held to the rule.
OpenWhereverRedirected(hops) ==
  LET last == SelectInSeq(hops, LAMBDA h : h.status \notin 300..399)
  IN IF ~AllowedMediaUrl(hops[1].url) \/ last = 0 \/ last > 4 THEN <<"not_allowed", FALSE>>
     ELSE IF hops[last].reached /\ hops[last].status = 200 /\ hops[last].body
       THEN <<"body", TRUE>> ELSE <<"failed", TRUE>>

\* openInstagramMediaDownload on a sequence of hops, each [url, reached, status,
\* location, body]; at most maximumRedirects = 3 of them are followed.  The
\* verdict is "body", or a failure with whether it may be retried.
OpenDownload(hops) ==
  LET stops(i) == ~AllowedMediaUrl(hops[i].url) \/ ~hops[i].reached
                  \/ hops[i].status \notin 300..399 \/ ~hops[i].location
      last == SelectInSeq([i \in DOMAIN hops |-> stops(i)], LAMBDA s : s)
  IN IF last = 0 \/ last > 4 THEN <<"failed", FALSE>>
     ELSE LET hop == hops[last] IN
       CASE ~AllowedMediaUrl(hop.url) -> <<"not_allowed", FALSE>>
         [] AllowedMediaUrl(hop.url) /\ ~hop.reached -> <<"failed", TRUE>>
         [] OTHER ->
            IF hop.status \in 300..399 THEN <<"failed", FALSE>>
            ELSE IF hop.status # 200 THEN <<"failed", hop.status \in {403, 404} \/ hop.status >= 500>>
            ELSE IF hop.body THEN <<"body", TRUE>> ELSE <<"failed", TRUE>>

\* Chains of hops to the redirect limit and past it: one hop, repeated, and its end.
MediaUrls == {[parses |-> TRUE, https |-> h, userinfo |-> FALSE, host |-> host]
                : h \in BOOLEAN, host \in {"cdn", "elsewhere"}}
Hops == [url : MediaUrls, reached : {TRUE}, status : {200, 302}, location : {TRUE}, body : {TRUE}]
        \cup [url : MediaUrls, reached : BOOLEAN, status : {404}, location : {FALSE}, body : {FALSE}]
HopChains == {[i \in 1..(n + 1) |-> IF i <= n THEN hop ELSE end]
                : n \in 0..5, hop \in {h \in Hops : h.status = 302}, end \in Hops}

\* limitStream and stageObjectForProbe: chunks are passed on while their sum
\* stays within the bound, whatever length was declared.
Streamed(chunks) ==
  LET upTo[n \in 0..Len(chunks)] == IF n = 0 THEN 0 ELSE upTo[n - 1] + chunks[n]
  IN upTo[Len(chunks)]
StreamWithin(chunks, maxBytes) == Streamed(chunks) <= maxBytes

\* transfer: the declared length is only an early refusal.
TransferOutcome(declared, chunks, maxBytes) ==
  IF declared # Null /\ declared > maxBytes THEN "MEDIA_IMPORT_TOO_LARGE"
  ELSE IF ~StreamWithin(chunks, maxBytes) THEN "MEDIA_TOO_LARGE" ELSE "stored"

-----------------------------------------------------------------------------
\* detectContainerFamily, on the first bytes: [length, magic, brand].
DetectContainerFamily(header) ==
  IF header.length >= 4 /\ header.magic THEN "MATROSKA"
  ELSE IF header.length >= 8 /\ header.brand THEN "ISO_BMFF" ELSE Null

DeclaredFamily(type) ==
  CASE type \in {"video/mp4", "video/quicktime"} -> "ISO_BMFF"
    [] type = "video/webm" -> "MATROSKA"
    [] OTHER -> Null

FormatFamily(format) ==
  CASE format \in {"mov", "mp4"} -> "ISO_BMFF"
    [] format \in {"matroska", "webm"} -> "MATROSKA"
    [] OTHER -> Null

\* resolveProbedFamily: the first format that names a family.
ProbedFamily(formats) ==
  LET first == SelectInSeq(formats, LAMBDA f : FormatFamily(f) # Null) IN
    IF first = 0 THEN Null ELSE FormatFamily(formats[first])

\* interpretProbeOutput: report is [json, video, codec, width, height,
\* formatDuration, streamDuration].
InterpretProbeOutput(report) ==
  IF ~report.json THEN "UNDECODABLE"
  ELSE IF ~report.video THEN "NO_VIDEO_STREAM"
  ELSE IF Null \in {report.codec, report.width, report.height} THEN "UNDECODABLE"
  ELSE IF report.formatDuration = Null /\ report.streamDuration = Null THEN "UNDECODABLE"
  ELSE "ok"

\* createFfprobeMediaProbe: exit is "ok", "missing", "killed", "overflow" or
\* "error".  A probe that could not finish says nothing of the file.
ProbeOutcome(exit, report) ==
  CASE exit = "ok" -> InterpretProbeOutput(report)
    [] exit = "missing" -> "throws"
    [] exit \in {"killed", "overflow"} -> "TIMED_OUT"
    [] exit = "error" -> "UNDECODABLE"

Least(a, b) == IF a < b THEN a ELSE b
Greatest(a, b) == IF a > b THEN a ELSE b

\* evaluateProbedMedia: evidence is [declared, header, formats, video, audio,
\* seconds, width, height], limits the bounds of the configuration.
EvaluateProbedMedia(evidence, limits) ==
  LET declared == DeclaredFamily(evidence.declared)
      probed == ProbedFamily(evidence.formats)
  IN IF declared = Null \/ evidence.header = Null THEN "CONTAINER_UNSUPPORTED"
     ELSE IF evidence.header # declared THEN "CONTAINER_MISMATCH"
     ELSE IF probed = Null THEN "CONTAINER_UNSUPPORTED"
     ELSE IF probed # declared THEN "CONTAINER_MISMATCH"
     ELSE IF evidence.video \notin limits.video THEN "VIDEO_CODEC_UNSUPPORTED"
     ELSE IF evidence.audio # Null /\ evidence.audio \notin limits.audio
       THEN "AUDIO_CODEC_UNSUPPORTED"
     ELSE IF evidence.seconds \notin limits.seconds THEN "DURATION_OUT_OF_RANGE"
     ELSE IF \/ Least(evidence.width, evidence.height) < limits.smallest
             \/ Greatest(evidence.width, evidence.height) > limits.largest
       THEN "DIMENSIONS_OUT_OF_RANGE"
     ELSE "accepted"

\* decideVerdict of asset.validate: file is [recorded, present, chunks, checksum,
\* header, exit, report, evidence].  "fails" is the attempt's failure, and says
\* nothing of the file.
decideVerdict(file, limits) ==
  LET probed == ProbeOutcome(file.exit, file.report) IN
    IF file.recorded <= 0 THEN "EMPTY_OBJECT"
    ELSE IF file.recorded > limits.bytes THEN "BYTES_EXCEEDED"
    ELSE IF ~file.present THEN "fails"
    ELSE IF ~StreamWithin(file.chunks, limits.bytes) THEN "BYTES_EXCEEDED"
    ELSE IF Streamed(file.chunks) = 0 THEN "EMPTY_OBJECT"
    ELSE IF ~file.checksum THEN "CHECKSUM_MISMATCH"
    ELSE IF probed \in {"throws", "TIMED_OUT"} THEN "fails"
    ELSE IF probed # "ok" THEN probed
    ELSE EvaluateProbedMedia([file.evidence EXCEPT !.header = DetectContainerFamily(file.header)],
                             limits)
=============================================================================
