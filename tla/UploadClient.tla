---------------------------- MODULE UploadClient ----------------------------
(***************************************************************************)
(* The browser's side of a source-video upload: one session of             *)
(* createUploadSession, driven by the buttons of the VideoUpload           *)
(* component.  A loop reserves an intent, uploads its parts one at a time  *)
(* and completes it; every fetch is an await, and the buttons act between  *)
(* any two.  Choosing another file starts another session, which is not    *)
(* followed here.                                                          *)
(***************************************************************************)
EXTENDS NullValue, Naturals, FiniteSets, FiniteSetsExt

CONSTANTS
  PartCount,       \* parts the server cuts the file into
  RetriesPerPart,  \* 3 in the code
  Loops,           \* runs of start or resume that may overlap
  MaxIntents,      \* reservations in a behaviour
  MaxAborts        \* abort requests outstanding at once

ASSUME UploadClientAssumption ==
  {PartCount, RetriesPerPart, MaxIntents, MaxAborts} \subseteq Nat \ {0}

VARIABLES
  session,   \* the closure's variables
  loop,      \* [Loops -> the await a run stands at]
  aborts,    \* abort requests not yet answered
  reserved,  \* intents reserved so far
  sent       \* completions sent: the intent and the parts listed

uploadClientVars == <<session, loop, aborts, reserved, sent>>

IdleLoop == [pc |-> "idle", part |-> 0, attempt |-> 0, intent |-> Null]

UploadClientInit ==
  /\ session = [phase |-> "selecting", resumable |-> FALSE, intent |-> Null, total |-> 0,
                parts |-> {}, pauseRequested |-> FALSE, cancelled |-> FALSE, chosen |-> FALSE]
  /\ loop = [l \in Loops |-> IdleLoop]
  /\ aborts = 0 /\ reserved = 0 /\ sent = {}

\* Each change of phase settles anew whether Resume is offered.
transitionKeepingResume(s, next, canResume) ==
  [s EXCEPT !.phase = next, !.resumable = @ \/ canResume]
transition(s, next, canResume) == [s EXCEPT !.phase = next, !.resumable = canResume]

ResumeOffered == session.phase = "paused" \/ session.resumable

\* The loop stands where its next fetch is outstanding.
Await(l, s, pc, part, attempt) ==
  /\ session' = s
  /\ loop' = [loop EXCEPT ![l] = [pc |-> pc, part |-> part, attempt |-> attempt,
                                  intent |-> s.intent]]

EndLoop(l, s) == session' = s /\ loop' = [loop EXCEPT ![l] = IdleLoop]

\* run, when uploadPart has returned false.
PartFailed(l, s) ==
  EndLoop(l, IF s.pauseRequested THEN transition(s, "paused", FALSE) ELSE s)

\* complete: what is in the map goes out, for whatever intent the session has.
complete(l, s) ==
  /\ Await(l, transition(s, "completing", FALSE), "complete", 0, 0)
  /\ sent' = sent \cup {[intent |-> s.intent, parts |-> s.parts]}

\* run, from the top of its loop at a part: the flags are looked at before
\* each part, and not after the last.
Proceed(l, s, from) ==
  LET left == (from..s.total) \ s.parts
  IN IF from <= s.total /\ (s.cancelled \/ s.pauseRequested)
     THEN /\ EndLoop(l, IF s.cancelled THEN s ELSE transition(s, "paused", FALSE))
          /\ UNCHANGED sent
     ELSE IF left = {} THEN complete(l, s)
     ELSE Await(l, s, "sign", Min(left), 1) /\ UNCHANGED sent

run(l, s) == Proceed(l, transition(s, "uploading", FALSE), 1)

\* uploadPart, after an attempt that is worth another.
NextAttempt(l) ==
  /\ IF loop[l].attempt = RetriesPerPart
     THEN PartFailed(l, transition(session, "error", TRUE))
     ELSE IF session.pauseRequested \/ session.cancelled THEN PartFailed(l, session)
     ELSE Await(l, session, "sign", loop[l].part, loop[l].attempt + 1)
  /\ UNCHANGED sent

start(l, s) ==
  Await(l, transition([s EXCEPT !.cancelled = FALSE, !.pauseRequested = FALSE], "reserving", FALSE),
        "reserve", 0, 0)

-----------------------------------------------------------------------------
(* What the fetches answer.                                                *)

\* reserve; a fetch that throws ends the loop and leaves the phase as it is.
ReserveAnswered(l) ==
  /\ loop[l].pc = "reserve"
  /\ \/ /\ reserved < MaxIntents
        /\ reserved' = reserved + 1
        /\ run(l, [session EXCEPT !.intent = reserved + 1, !.total = PartCount])
     \/ /\ \/ EndLoop(l, transition(session, "error", FALSE))
           \/ EndLoop(l, session)
        /\ UNCHANGED <<reserved, sent>>
  /\ UNCHANGED aborts

\* The signature: no intent is never signed, and a refusal is not retried.
SignAnswered(l) ==
  /\ loop[l].pc = "sign"
  /\ \/ /\ loop[l].intent # Null
        /\ loop' = [loop EXCEPT ![l].pc = "put"]
        /\ UNCHANGED <<session, sent>>
     \/ PartFailed(l, transition(session, "error", FALSE)) /\ UNCHANGED sent
     \/ NextAttempt(l)
  /\ UNCHANGED <<aborts, reserved>>

\* The part: stored, refused for good, or failed in a way isRetryableStorageStatus
\* lets it try again.
PutAnswered(l) ==
  /\ loop[l].pc = "put"
  /\ \/ LET s == [session EXCEPT !.parts = @ \cup {loop[l].part}]
        IN Proceed(l, s, loop[l].part + 1)
     \/ PartFailed(l, transition(session, "error", FALSE)) /\ UNCHANGED sent
     \/ NextAttempt(l)
  /\ UNCHANGED <<aborts, reserved>>

CompleteAnswered(l) ==
  /\ loop[l].pc = "complete"
  /\ \/ /\ loop[l].intent # Null
        /\ EndLoop(l, transition(session, "completed", FALSE))
     \/ EndLoop(l, transition(session, "error", FALSE))
     \/ EndLoop(l, session)
  /\ UNCHANGED <<aborts, reserved, sent>>

\* cancel, after its abort was answered or lost.
Cleared(s) == transition([s EXCEPT !.intent = Null, !.parts = {}], "selecting", FALSE)

AbortAnswered ==
  /\ aborts > 0
  /\ aborts' = aborts - 1 /\ session' = Cleared(session)
  /\ UNCHANGED <<loop, reserved, sent>>

-----------------------------------------------------------------------------
(* The component's controls.                                               *)

startUpload(l) ==
  /\ ~session.chosen
  /\ start(l, [session EXCEPT !.chosen = TRUE])
  /\ UNCHANGED <<aborts, reserved, sent>>

pause ==
  /\ session.phase = "uploading"
  /\ session' = [session EXCEPT !.pauseRequested = TRUE]
  /\ UNCHANGED <<loop, aborts, reserved, sent>>

resume(l) ==
  /\ ResumeOffered /\ loop[l] = IdleLoop
  /\ LET s == [session EXCEPT !.pauseRequested = FALSE]
     IN IF s.intent = Null THEN start(l, s) /\ UNCHANGED sent ELSE run(l, s)
  /\ UNCHANGED <<aborts, reserved>>

cancel ==
  /\ session.phase \notin {"selecting", "completed"}
  /\ LET s == [session EXCEPT !.cancelled = TRUE]
     IN IF s.intent = Null THEN session' = Cleared(s) /\ UNCHANGED aborts
        ELSE /\ aborts < MaxAborts
             /\ session' = s /\ aborts' = aborts + 1
  /\ UNCHANGED <<loop, reserved, sent>>

UploadClientNext ==
  \/ pause \/ cancel \/ AbortAnswered
  \/ \E l \in Loops : \/ startUpload(l) \/ resume(l)
                      \/ ReserveAnswered(l) \/ SignAnswered(l) \/ PutAnswered(l)
                      \/ CompleteAnswered(l)

UploadClientSpec == UploadClientInit /\ [][UploadClientNext]_uploadClientVars

\* However pauses, resumes and cancellations fall between the answers, one
\* loop works on the session at a time, and no completion of a reserved intent
\* leaves out a part: run skips only parts it finds in the map, and a cancel
\* that empties the map takes the intent with it.
UploadsAreWhole ==
  /\ \A l, k \in Loops : loop[l] # IdleLoop /\ loop[k] # IdleLoop => l = k
  /\ \A c \in sent : c.intent # Null => c.parts = 1..PartCount
=============================================================================
