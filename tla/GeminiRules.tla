----------------------------- MODULE GeminiRules -----------------------------
(***************************************************************************)
(* What the Gemini client makes of the provider's answers.  An answer is   *)
(* [reached, timedOut, status, error, uploadUrl, file, state,           *)
(* candidate, blocked, finish, text]: whether the call came back, its       *)
(* status, the status in body.error, and the tests made of the rest of it. *)
(***************************************************************************)
EXTENDS NullValue, Integers, Sequences, SequencesExt

\* The HTTP status decides where it can, then the status in the body.
classifyGeminiResponse(answer) ==
  CASE answer.status = 429        -> "rate_limit"
    [] answer.status \in {401, 403} -> "authorisation"
    [] answer.status \in {408, 504} -> "timeout"
    [] answer.status >= 500 /\ answer.status # 504 -> "transient"
    [] OTHER ->
       CASE answer.error = "RESOURCE_EXHAUSTED" -> "rate_limit"
         [] answer.error \in {"PERMISSION_DENIED", "UNAUTHENTICATED"} -> "authorisation"
         [] answer.error \in {"UNAVAILABLE", "INTERNAL"} -> "transient"
         [] answer.error = "DEADLINE_EXCEEDED" -> "timeout"
         [] OTHER -> IF answer.status >= 400 \/ answer.error = Null THEN "invalid_request"
                     ELSE "transient"

\* A state that is not known is one to wait for.
classifyGeminiFileState(state) ==
  IF state = "ACTIVE" THEN "active" ELSE IF state = "FAILED" THEN "failed" ELSE "pending"

classifyGeminiCandidate(answer) ==
  IF ~answer.candidate THEN IF answer.blocked THEN "safety_blocked" ELSE "no_candidate"
  ELSE IF answer.finish \in {"SAFETY", "PROHIBITED_CONTENT"} THEN "safety_blocked"
  ELSE IF answer.finish = "MAX_TOKENS" THEN "truncated"
  ELSE IF answer.text THEN "ok" ELSE "no_candidate"

\* In seconds; Null for a header that is absent or no plain number.
parseGeminiRetryAfterMs(seconds) ==
  IF seconds = Null THEN Null ELSE 1000 * (IF seconds > 86400 THEN 86400 ELSE seconds)

\* send and rejectFailure: "ok", or the class of the GeminiError.
Sent(answer) ==
  IF ~answer.reached THEN IF answer.timedOut THEN "timeout" ELSE "transient"
  ELSE IF answer.status # 200 THEN classifyGeminiResponse(answer) ELSE "ok"

\* readFile: a body without a file name of the provider's form is refused.
readFile(answer) == IF answer.file THEN "ok" ELSE "invalid_request"

\* A file that is gone has been deleted.
deleteFile(answer) == IF answer.reached /\ answer.status = 404 THEN "ok" ELSE Sent(answer)

\* "gone", "ok", or the class of the failure.
describeFile(answer) ==
  IF answer.reached /\ answer.status = 404 THEN "gone"
  ELSE IF Sent(answer) # "ok" THEN Sent(answer) ELSE readFile(answer)

generateStructuredText(answer) ==
  IF Sent(answer) # "ok" THEN Sent(answer) ELSE classifyGeminiCandidate(answer)

\* The start of a resumable upload, which must name where to send the bytes,
\* and the upload itself.
uploadVideo(started, finished) ==
  IF Sent(started) # "ok" THEN Sent(started)
  ELSE IF ~started.uploadUrl THEN classifyGeminiResponse(started)
  ELSE IF Sent(finished) # "ok" THEN Sent(finished) ELSE readFile(finished)

\* polls: the answers in turn, one for each attempt the configuration allows.
\* The first that is not a pending file settles the wait.
waitForActiveFile(polls) ==
  LET Outcome(answer) ==
        CASE describeFile(answer) = "gone" -> "file_failed"
          [] describeFile(answer) = "ok" ->
             LET state == classifyGeminiFileState(answer.state) IN
               IF state = "failed" THEN "file_failed" ELSE state
          [] OTHER -> describeFile(answer)
      settled == SelectSeq([i \in DOMAIN polls |-> Outcome(polls[i])], LAMBDA o : o # "pending")
  IN IF settled = <<>> THEN "timeout" ELSE settled[1]

\* toJobFailure, for the analysis and the strategy.
GeminiJobFailure(class) ==
  CASE class = "rate_limit" -> "RATE_LIMIT"
    [] class \in {"timeout", "transient", "file_failed"} -> "TRANSIENT"
    [] class \in {"safety_blocked", "no_candidate", "truncated"} -> "SEMANTIC_OUTPUT"
    [] class = "authorisation" -> "UNKNOWN"
    [] class = "invalid_request" -> "INVALID_INPUT"

\* Answers that reach every branch above.
GeminiAnswer(status, error) ==
  [reached |-> TRUE, timedOut |-> FALSE, status |-> status, error |-> error,
   uploadUrl |-> TRUE, file |-> TRUE, state |-> "ACTIVE", candidate |-> TRUE,
   blocked |-> FALSE, finish |-> "STOP", text |-> TRUE]

ProviderAnswers ==
  LET fine == GeminiAnswer(200, Null) IN
    {GeminiAnswer(status, error) : status \in {200, 400, 401, 404, 408, 429, 500},
                             error \in {Null, "RESOURCE_EXHAUSTED", "UNAUTHENTICATED",
                                        "UNAVAILABLE", "DEADLINE_EXCEEDED", "OTHER"}}
    \cup {[fine EXCEPT !.reached = FALSE, !.timedOut = t] : t \in BOOLEAN}
    \cup {[fine EXCEPT !.candidate = c, !.blocked = b, !.finish = f, !.text = x]
            : c \in BOOLEAN, b \in BOOLEAN, f \in {"STOP", "SAFETY", "MAX_TOKENS"}, x \in BOOLEAN}
    \cup {[fine EXCEPT !.uploadUrl = u, !.file = v, !.state = s]
            : u \in BOOLEAN, v \in BOOLEAN, s \in {"PROCESSING", "FAILED"}}
=============================================================================
