--------------------------- MODULE ProviderAnswers ---------------------------
(***************************************************************************)
(* The rules on what Instagram answers and on what a media file holds, as  *)
(* the components call them: each call is a step, and what it was called   *)
(* with stays in the state.  The constants are the answers that may come.  *)
(***************************************************************************)
EXTENDS MediaRules, CredentialRules

CONSTANTS
  InsightCalls,    \* what the four groups of a Reel answer
  Downloads,       \* chains of hops
  JudgedFiles,     \* stored files with what is found in them
  ProbeLimits,     \* the bounds a file is held to
  Seals,           \* a credential sealed for one account, opened for another
  TokenCalls,      \* answers to a refresh or a validation
  Threads          \* a comment and its replies

VARIABLE heard     \* the last call: [rule, ...]

-----------------------------------------------------------------------------
(* What may come.                                                          *)

InsightItem == [metric : STRING, value : Int \cup {Null}]
GroupAnswer == [class : {"group"} \cup responseClasses, items : Seq(InsightItem)]

Evidence ==
  [declared : STRING, header : {Null}, formats : Seq(STRING), video : STRING,
   audio : STRING \cup {Null}, seconds : Int, width : Int, height : Int]

ProbeReport ==
  [json : BOOLEAN, video : BOOLEAN, codec : STRING \cup {Null}, width : Int \cup {Null},
   height : Int \cup {Null}, formatDuration : Int \cup {Null}, streamDuration : Int \cup {Null}]

JudgedFile ==
  [recorded : Nat, present : BOOLEAN, chunks : Seq(Nat), checksum : BOOLEAN,
   header : [length : Nat, magic : BOOLEAN, brand : BOOLEAN],
   exit : {"ok", "missing", "killed", "overflow", "error"}, report : ProbeReport,
   evidence : Evidence]

Seal == [sealedFor : STRING, openedFor : STRING, version : Nat, ring : SUBSET (Nat \ {0}),
         replaced : BOOLEAN, intact : BOOLEAN]

TokenAnswer == [reached : BOOLEAN, status : Nat, code : Nat, subcode : Nat, json : BOOLEAN,
                token : BOOLEAN]

\* What a credential is sealed into: its key is the version's own, or another's.
Sealed(s) ==
  EncryptCredential(Context("w", "INSTAGRAM", s.sealedFor), s.version, <<s.version, s.replaced>>,
                    "token")

\* And what is opened: a version below one seals nothing.
Arrived(s) ==
  IF s.version = 0 THEN Sealed(s) ELSE [Sealed(s) EXCEPT !.intact = s.intact]

ASSUME AnswersAssumption ==
  /\ InsightCalls \subseteq [1..4 -> GroupAnswer]
  /\ \A hops \in Downloads : Len(hops) \in Nat /\ DOMAIN hops = 1..Len(hops)
  /\ JudgedFiles \subseteq JudgedFile
  /\ {ProbeLimits.smallest, ProbeLimits.largest, ProbeLimits.bytes} \subseteq Nat
  /\ Seals \subseteq Seal /\ TokenCalls \subseteq TokenAnswer
  /\ \A thread \in Threads :
       Len(thread.replies) \in Nat /\ DOMAIN thread.replies = 1..Len(thread.replies)
  /\ Null # "token"
  /\ \A s \in Seals : s.version > 0 => Arrived(s) # Null

-----------------------------------------------------------------------------
(* Calls.                                                                  *)

AnswersInit == heard = [rule |-> "none"]

\* captureSnapshot: a group that is refused for good is recorded as such.
ReadGroup(answer, group) ==
  IF answer.class = "group" THEN ReadInsightGroup(answer.items, group)
  ELSE FailedGroupObservations(group, GroupFailureAvailability(answer.class))

CapturedObservations(answers) ==
  UnrequestedObservations("REEL")
  \cup UNION {ReadGroup(answers[g], reelGroups[g]) : g \in DOMAIN reelGroups}

CaptureInsights ==
  \E answers \in InsightCalls :
    /\ \A g \in DOMAIN answers : answers[g].class \notin Retryable
    /\ heard' = [rule |-> "insights", answers |-> answers]

DownloadMedia == \E hops \in Downloads : heard' = [rule |-> "download", hops |-> hops]

ValidateAsset == \E file \in JudgedFiles : heard' = [rule |-> "file", file |-> file]

OpenCredential == \E seal \in Seals : heard' = [rule |-> "credential", seal |-> seal]

MaintainToken ==
  \E answer \in TokenCalls, refresh \in BOOLEAN :
    heard' = [rule |-> "token", answer |-> answer, refresh |-> refresh]

ReadThread == \E thread \in Threads : heard' = [rule |-> "thread", thread |-> thread]

AnswersNext ==
  /\ heard.rule = "none"
  /\ \/ CaptureInsights \/ DownloadMedia \/ ValidateAsset \/ OpenCredential
     \/ MaintainToken \/ ReadThread

AnswersSpec == AnswersInit /\ [][AnswersNext]_heard

-----------------------------------------------------------------------------
(* Properties.                                                             *)

\* Whatever a group answered, a snapshot says something of every metric and
\* once; a value is one the provider sent for that metric; and what is stored
\* reads back as it was, so that nothing missing returns as a number.
InsightsAreNotInvented ==
  heard.rule = "insights" =>
    LET seen == CapturedObservations(heard.answers)
        Sent == UNION {Range(heard.answers[g].items) : g \in DOMAIN heard.answers}
    IN /\ {o.metric : o \in seen} = canonicalMetrics
       /\ \A o, p \in seen : o.metric = p.metric => o = p
       /\ \A o \in seen :
            /\ o.availability = "available" <=> o.value # Null
            /\ o.value # Null => [metric |-> o.metric, value |-> o.value] \in Sent /\ o.value >= 0
       /\ ReadObservations(ToColumns(seen)) = seen

\* A body is read only from an allowed address, reached over allowed addresses
\* and at most three redirects.
DownloadsStayAllowed ==
  heard.rule = "download" =>
    LET hops == heard.hops IN
      OpenDownload(hops)[1] = "body" =>
        \E n \in 1..4 :
          /\ n <= Len(hops) /\ hops[n].status = 200 /\ hops[n].reached
          /\ \A i \in 1..n : AllowedMediaUrl(hops[i].url)
          /\ \A i \in 1..(n - 1) : hops[i].status \in 300..399

\* A file is accepted only if what it was declared as, its first bytes and the
\* probe name one container and its bytes fit; and nothing but the file decides: a
\* store or a probe that could not answer leaves the file unjudged.
FilesAreJudgedByThemselves ==
  heard.rule = "file" =>
    LET f == heard.file
        e == f.evidence
        fits == 1..ProbeLimits.bytes
        verdict == decideVerdict(f, ProbeLimits)
    IN /\ verdict = "accepted" =>
            /\ DeclaredFamily(e.declared) = DetectContainerFamily(f.header)
            /\ ProbedFamily(e.formats) = DetectContainerFamily(f.header)
            /\ e.seconds \in ProbeLimits.seconds
            /\ {e.width, e.height} \subseteq ProbeLimits.smallest..ProbeLimits.largest
            /\ f.present /\ f.checksum /\ Streamed(f.chunks) \in fits
       /\ verdict \notin {"accepted", "fails"} /\ f.recorded \in fits =>
            f.present /\ (Streamed(f.chunks) \in fits /\ f.checksum => f.exit \in {"ok", "error"})

\* What is sealed opens for its own account under any key still in the ring, and
\* for nothing else; a key that is gone is told apart from a box that is not ours.
CredentialsOpenAtHome ==
  heard.rule = "credential" =>
    LET s == heard.seal
        keys == [v \in s.ring |-> <<v, FALSE>>]
        opened == DecryptCredential(Context("w", "INSTAGRAM", s.openedFor), keys, Arrived(s))
    IN /\ opened = "token" <=> /\ s.version \in s.ring /\ s.sealedFor = s.openedFor
                              /\ s.intact /\ ~s.replaced
       /\ opened = "KEY_VERSION_UNAVAILABLE" <=> s.version > 0 /\ s.version \notin s.ring

\* An account is asked to reconnect only on the provider's word about its token
\* or its permissions, never because the provider was busy or away.
OutagesDisconnectNobody ==
  heard.rule = "token" =>
    LET a == heard.answer
        outcome == IF heard.refresh THEN RefreshOutcome(a) ELSE ValidateOutcome(a)
    IN (IF outcome = "OK" THEN "none" ELSE MaintenanceFailure(outcome)) = "reauthorise" =>
         /\ a.reached
         /\ a.status \in {401, 403} \/ a.code \in {10, 102, 190} \/ a.code \in 200..299

\* Every comment of a thread is stored or counted as rejected, except the
\* replies of a comment that is rejected itself.
ThreadsAreCounted ==
  heard.rule = "thread" =>
    LET t == heard.thread
        result == NormaliseComment(t.top, t.replies)
    IN result.comments > 0 => result.comments + result.rejected = 1 + Len(t.replies)

\* What is stored of a provider's answer is what the answer said.
AnswersAreReadAsGiven ==
  /\ InsightsAreNotInvented
  /\ DownloadsStayAllowed
  /\ FilesAreJudgedByThemselves
  /\ CredentialsOpenAtHome
  /\ OutagesDisconnectNobody
  /\ ThreadsAreCounted
=============================================================================
