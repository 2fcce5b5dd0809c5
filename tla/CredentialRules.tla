--------------------------- MODULE CredentialRules ---------------------------
(***************************************************************************)
(* The decisions about an Instagram grant and its token: the callback of   *)
(* an authorisation, the health of a stored token, the verdict on a        *)
(* refresh, and what a sealed credential opens to.                         *)
(***************************************************************************)
EXTENDS InstagramRules

-----------------------------------------------------------------------------
(* The authorisation.                                                      *)

\* A cookie as it arrives: [signed, parsed, user, state, expected, at], where
\* expected is "malformed" when the binding is present and not a name.
OpenInstagramState(cookie) ==
  IF cookie = Null THEN Null
  ELSE IF ~cookie.signed \/ ~cookie.parsed \/ cookie.expected = "malformed" THEN Null
  ELSE cookie

\* evaluateInstagramCallback: the state is judged before anything the provider
\* sent is trusted.
EvaluateCallback(stored, received, now, lifetime, error, code) ==
  IF stored = Null \/ received = Null THEN "STATE_MISSING"
  ELSE IF stored.state # received THEN "STATE_MISMATCH"
  ELSE IF stored.at + lifetime <= now THEN "STATE_EXPIRED"
  ELSE IF error = "access_denied" THEN "CONSENT_CANCELLED"
  ELSE IF error # Null THEN "PROVIDER_ERROR"
  ELSE IF code = Null THEN "CODE_MISSING"
  ELSE "ALLOWED"

AccountTypeFor(reported) ==
  CASE reported = "BUSINESS" -> "BUSINESS"
    [] reported \in {"CREATOR", "MEDIA_CREATOR"} -> "CREATOR"
    [] OTHER -> Null

requiredScopes == {"basic", "manage_insights", "manage_comments"}

\* A grant that lists no permissions is taken to hold the required ones.
ScopesSatisfied(granted) == requiredScopes \subseteq granted
GrantedScopes(listed) == IF listed = {} THEN requiredScopes ELSE listed

\* instagramReconnectSatisfied: an unbound attempt accepts any account.
ReconnectSatisfied(expected, returned) == expected = Null \/ expected = returned

\* resolveTokenExpiry, in days.
ResolveTokenExpiry(duration, now) ==
  IF duration = Null THEN Null ELSE IF duration <= 0 THEN Null ELSE now + duration

\* The three calls of a connection.  answer: [reached, status, json, complete].
ExchangeOutcome(answer) ==
  CASE ~answer.reached -> "PROVIDER_ERROR"
    [] answer.reached /\ answer.status \in {401, 403} -> "CONSENT_CANCELLED"
    [] answer.reached /\ answer.status \notin {200, 401, 403} -> "PROVIDER_ERROR"
    [] answer.reached /\ answer.status = 200 ->
       IF answer.json /\ answer.complete THEN "OK" ELSE "PROVIDER_ERROR"

ConnectionAnswers ==
  [reached : BOOLEAN, status : {200, 401, 500}, json : BOOLEAN, complete : BOOLEAN]

\* What the identity and the grant come to, after the binding was compared.
GrantOutcome(reported, listed) ==
  IF AccountTypeFor(reported) = Null THEN "ACCOUNT_TYPE_INELIGIBLE"
  ELSE IF ~ScopesSatisfied(GrantedScopes(listed)) THEN "SCOPE_DOWNGRADED" ELSE "OK"

-----------------------------------------------------------------------------
(* The token.                                                              *)

Blocked(health) == health \in {"EXPIRED", "REAUTHORISATION_REQUIRED", "REVOKED"}

\* evaluateInstagramTokenHealth, in days: 15 days of runway, a warning at 5.
TokenHealth(status, expiresAt, now) ==
  IF status \in {"REVOKED", "REAUTHORISATION_REQUIRED"} THEN status
  ELSE IF expiresAt = Null THEN "EXPIRY_UNKNOWN"
  ELSE IF expiresAt - now <= 0 THEN "EXPIRED"
  ELSE IF expiresAt - now <= 5 THEN "EXPIRING"
  ELSE IF expiresAt - now <= 15 THEN "REFRESH_DUE"
  ELSE "HEALTHY"

\* refreshDue and refreshEligible: Meta refuses a token younger than a day.
ShouldRefresh(health, issuedAt, now) ==
  health \in {"EXPIRY_UNKNOWN", "EXPIRING", "REFRESH_DUE"} /\ now - issuedAt >= 1

\* classifyInstagramTokenResponse.
ClassifyTokenResponse(response) ==
  IF response.code = 10 \/ response.code \in 200..299 THEN "PERMISSION_REVOKED"
  ELSE IF response.code \in {190, 102} THEN "REAUTHORISATION_REQUIRED"
  ELSE LET class == ClassifyInstagramResponse(response) IN
    CASE class = "authorisation" -> "REAUTHORISATION_REQUIRED"
      [] class \in {"rate_limit", "transient"} -> "TRANSIENT"
      [] OTHER -> "UNSUPPORTED"

\* refreshInstagramToken.  answer: [reached, status, code, subcode, json, token].
RefreshOutcome(answer) ==
  CASE ~answer.reached -> "TRANSIENT"
    [] answer.reached /\ answer.status # 200 -> ClassifyTokenResponse(answer)
    [] answer.reached /\ answer.status = 200 ->
       IF ~answer.json THEN "TRANSIENT" ELSE IF ~answer.token THEN "UNSUPPORTED" ELSE "OK"

\* validateInstagramToken reads no body of an answer that is ok.
ValidateOutcome(answer) ==
  CASE ~answer.reached -> "TRANSIENT"
    [] answer.reached /\ answer.status # 200 -> ClassifyTokenResponse(answer)
    [] answer.reached /\ answer.status = 200 -> "OK"

TokenAnswers ==
  [reached : BOOLEAN, status : {200, 400, 401, 429, 500}, code : {0, 4, 10, 100, 190, 250},
   subcode : {0, 2108006}, json : BOOLEAN, token : BOOLEAN]
TokenOutcomes == {RefreshOutcome(a) : a \in TokenAnswers} \cup {ValidateOutcome(a) : a \in TokenAnswers}

\* What maintainCredential makes of a failure: a settled reconnection, or the
\* class of the failed attempt.
MaintenanceFailure(outcome) ==
  CASE outcome \in {"PERMISSION_REVOKED", "REAUTHORISATION_REQUIRED"} -> "reauthorise"
    [] outcome = "TRANSIENT"   -> "TRANSIENT"
    [] outcome = "UNSUPPORTED" -> "UNKNOWN"

-----------------------------------------------------------------------------
(* The envelope of a credential.  keys maps versions to master keys of 32  *)
(* bytes; the cipher is ideal: a box opens under its own key and context,  *)
(* unchanged, and not otherwise.                                           *)

Context(workspace, type, account) == <<workspace, type, account>>

EncryptCredential(context, keyVersion, masterKey, plaintext) ==
  IF keyVersion < 1 \/ plaintext = Null THEN Null
  ELSE [format |-> 1, keyVersion |-> keyVersion, key |-> masterKey, context |-> context,
        plaintext |-> plaintext, intact |-> TRUE]

DecryptCredential(context, keys, sealed) ==
  CASE sealed = Null -> "ENVELOPE_MALFORMED"
    [] sealed # Null ->
       IF sealed.format # 1 THEN "ENVELOPE_VERSION_UNSUPPORTED"
       ELSE IF sealed.keyVersion \notin DOMAIN keys THEN "KEY_VERSION_UNAVAILABLE"
       ELSE IF \/ ~sealed.intact \/ sealed.context # context
               \/ sealed.key # keys[sealed.keyVersion] THEN "AUTHENTICATION_FAILED"
       ELSE sealed.plaintext
=============================================================================
