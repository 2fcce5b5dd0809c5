------------------------- MODULE InstagramConnection -------------------------
(***************************************************************************)
(* Connecting, disconnecting and maintaining Instagram accounts: the       *)
(* browser's authorisation, the account and credential rows, the daily     *)
(* instagram.token.maintain job of a credential, and the provider's view   *)
(* of which tokens still work.  Time passes along TimePoints, in days.     *)
(***************************************************************************)
EXTENDS HandlerJobs, CredentialRules

CONSTANTS
  ProviderAccounts,
  Admins,
  Callbacks,     \* callback requests in flight
  Maintainers,   \* maintenance slots of the worker
  TimePoints,    \* ascending days
  GrantDays,     \* durations a grant may come with, or Null
  MaxTokens,     \* tokens the provider issues
  ConnectionAttemptLimit,   \* 5 in 300 seconds; here per time point
  MaxConnections,           \* attempts in all
  ConnectionFaults

ASSUME ConnectionAssumption ==
  /\ TimePoints \in Seq(Nat) /\ TimePoints # <<>>
  /\ GrantDays \subseteq Int \cup {Null}
  /\ MaxTokens \in Nat /\ ConnectionAttemptLimit \in Nat /\ MaxConnections \in Nat
  /\ ConnectionFaults \in Nat

VARIABLES
  timeAt,
  account,      \* [ProviderAccounts -> connectionStatus, or "NONE" without a row]
  credentials,  \* sequence of integration_credentials rows
  cookie,       \* the sealed state in the browser
  states,       \* states issued so far
  codes,        \* states whose authorisation code is not yet exchanged
  attempts,     \* connection_initiated audit rows of this time point
  callback,     \* [Callbacks -> progress of completeInstagramConnection]
  bootstrap,    \* [ProviderAccounts -> BOOLEAN]: the bootstrap job exists
  tokens,       \* tokens issued
  working,      \* tokens the provider still accepts
  maintenance,  \* [<<credential, time>> -> row] of enqueued jobs
  answered,     \* jobs queued no later than a lastValidatedAt of their account
  maintainer,   \* [Maintainers -> progress of maintainCredential]
  disconnect,   \* progress of disconnectInstagramAccount
  connectionFaults

connectionVars == <<timeAt, account, credentials, cookie, states, codes, attempts, callback,
                    bootstrap, tokens, working, maintenance, answered, maintainer,
                    disconnect, connectionFaults>>

Now == TimePoints[timeAt]
IdleCallback == [pc |-> "idle", state |-> 0, expected |-> Null, account |-> Null, token |-> 0]
IdleMaintainer == [pc |-> "idle", job |-> <<1, 1>>, attempt |-> 0, credential |-> 0,
                   version |-> 0, token |-> 0, result |-> Null]
IdleDisconnect == [pc |-> "idle", account |-> Null]

ConnectionInit ==
  /\ timeAt = 1
  /\ account = [p \in ProviderAccounts |-> "NONE"]
  /\ credentials = <<>>
  /\ cookie = Null /\ states = 0 /\ codes = {} /\ attempts = 0
  /\ callback = [c \in Callbacks |-> IdleCallback]
  /\ bootstrap = [p \in ProviderAccounts |-> FALSE]
  /\ tokens = 0 /\ working = {}
  /\ maintenance = [k \in (1..MaxTokens) \X DOMAIN TimePoints |-> AbsentJob]
  /\ answered = {}
  /\ maintainer = [w \in Maintainers |-> IdleMaintainer]
  /\ disconnect = IdleDisconnect
  /\ connectionFaults = ConnectionFaults

ConnectionFault == connectionFaults > 0 /\ connectionFaults' = connectionFaults - 1

ActiveCredentials(p) ==
  {c \in DOMAIN credentials : credentials[c].account = p /\ credentials[c].status = "ACTIVE"}
HasActive(p) == ActiveCredentials(p) # {}
ActiveCredential(p) == CHOOSE c \in ActiveCredentials(p) : TRUE

-----------------------------------------------------------------------------
(* Connecting.                                                             *)

\* startInstagramConnection: reconnect is an account row, or Null for an
\* additional account.  The cookie of an earlier attempt is replaced.
StartConnection(u, reconnect) ==
  /\ attempts < ConnectionAttemptLimit /\ states < MaxConnections
  /\ reconnect # Null => account[reconnect] # "NONE"
  /\ states' = states + 1 /\ codes' = codes \cup {states + 1}
  /\ attempts' = attempts + 1
  /\ cookie' = [signed |-> TRUE, parsed |-> TRUE, user |-> u, state |-> states + 1,
                expected |-> reconnect, at |-> Now]
  /\ UNCHANGED <<answered, timeAt, account, credentials, callback, bootstrap, tokens,
                 working, maintenance, maintainer, disconnect, connectionFaults>>

\* The callback of one of the consent screens, by whoever is signed in.  A
\* refusal clears the cookie with its answer.
BeginCallback(c, u, received) ==
  LET opened == OpenInstagramState(cookie)
      decision == IF opened # Null /\ opened.user # u THEN "STATE_MISMATCH"
                  ELSE EvaluateCallback(opened, received, Now, 1, Null, received)
  IN /\ callback[c].pc = "idle" /\ received \in 1..states
     /\ IF decision = "ALLOWED"
          THEN /\ callback' = [callback EXCEPT ![c] =
                    [IdleCallback EXCEPT !.pc = "exchange", !.state = received,
                                         !.expected = opened.expected]]
               /\ UNCHANGED cookie
          ELSE /\ cookie # Null /\ cookie' = Null /\ UNCHANGED callback
     /\ UNCHANGED <<answered, timeAt, account, credentials, states, codes, attempts,
                    bootstrap, tokens, working, maintenance, maintainer, disconnect,
                    connectionFaults>>

\* The checks on the identity and the grant that came back.
Accepted(expected, p) == ReconnectSatisfied(expected, p)

\* The provider calls, and the account the operator chose, with its type and the
\* permissions listed with the grant.  A code is good once.
ExchangeCode(c, p, reported, listed) ==
  /\ callback[c].pc = "exchange"
  /\ IF callback[c].state \in codes /\ tokens < MaxTokens
       THEN /\ codes' = codes \ {callback[c].state}
            /\ tokens' = tokens + 1 /\ working' = working \cup {tokens + 1}
            /\ IF Accepted(callback[c].expected, p) /\ GrantOutcome(reported, listed) = "OK"
                 THEN /\ callback' = [callback EXCEPT ![c] =
                           [@ EXCEPT !.pc = "commit", !.account = p, !.token = tokens + 1]]
                      /\ UNCHANGED cookie
                 ELSE callback' = [callback EXCEPT ![c] = IdleCallback] /\ cookie' = Null
       ELSE /\ callback' = [callback EXCEPT ![c] = IdleCallback] /\ cookie' = Null
            /\ UNCHANGED <<codes, tokens, working>>
  /\ UNCHANGED <<answered, timeAt, account, credentials, states, attempts, bootstrap,
                 maintenance, maintainer, disconnect, connectionFaults>>

\* A call of the exchange is refused, before or after the code was spent.
ExchangeRefused(c) ==
  /\ callback[c].pc = "exchange" /\ ConnectionFault
  /\ \E answer \in ConnectionAnswers : ExchangeOutcome(answer) # "OK"
  /\ \/ codes' = codes \ {callback[c].state} \/ codes' = codes
  /\ callback' = [callback EXCEPT ![c] = IdleCallback] /\ cookie' = Null
  /\ UNCHANGED <<answered, timeAt, account, credentials, states, attempts, bootstrap, tokens,
                 working, maintenance, maintainer, disconnect>>

Purge(row, status) == [row EXCEPT !.status = status, !.token = 0]

NewCredential(p, token, expiresAt) ==
  [account |-> p, status |-> "ACTIVE", token |-> token, issuedAt |-> Now,
   expiresAt |-> expiresAt, version |-> 0]

\* A mutant of Activate: the superseded credential is left as it was.
ActivateBeside(rows, p, token, expiresAt) == Append(rows, NewCredential(p, token, expiresAt))

\* credentials.activate: the active row is revoked and emptied first.
Activate(rows, p, token, expiresAt) ==
  Append([c \in DOMAIN rows |->
            IF rows[c].account = p /\ rows[c].status = "ACTIVE"
              THEN Purge(rows[c], "REVOKED") ELSE rows[c]],
         NewCredential(p, token, expiresAt))

\* The account and its credential change in one transaction, under the lock of
\* the account's row.  A grant may come without an expiry.
CommitConnection(c) ==
  /\ callback[c].pc = "commit"
  /\ \E duration \in GrantDays :
       credentials' = Activate(credentials, callback[c].account, callback[c].token,
                               ResolveTokenExpiry(duration, Now))
  /\ account' = [account EXCEPT ![callback[c].account] = "ACTIVE"]
  /\ callback' = [callback EXCEPT ![c] = [@ EXCEPT !.pc = "enqueue", !.token = 0]]
  /\ UNCHANGED <<answered, timeAt, cookie, states, codes, attempts, bootstrap, tokens,
                 working, maintenance, maintainer, disconnect, connectionFaults>>

\* A second transaction, under a key that never changes for the account.
EnqueueBootstrap(c) ==
  /\ callback[c].pc = "enqueue"
  /\ bootstrap' = [bootstrap EXCEPT ![callback[c].account] = TRUE]
  /\ callback' = [callback EXCEPT ![c] = IdleCallback] /\ cookie' = Null
  /\ UNCHANGED <<answered, timeAt, account, credentials, states, codes, attempts, tokens,
                 working, maintenance, maintainer, disconnect, connectionFaults>>

\* The request dies, or a call of it throws, after the state was accepted.
CallbackFails(c) ==
  /\ callback[c].pc # "idle" /\ ConnectionFault
  /\ callback' = [callback EXCEPT ![c] = IdleCallback]
  /\ UNCHANGED <<answered, timeAt, account, credentials, cookie, states, codes, attempts,
                 bootstrap, tokens, working, maintenance, maintainer, disconnect>>

-----------------------------------------------------------------------------
(* Disconnecting.                                                          *)

TokensOf(p) == {credentials[c].token : c \in ActiveCredentials(p)} \ {0}

\* attemptRevocation, with the token that is active now.  Disconnecting again
\* what is disconnected changes nothing and is left out.
Revoke(p) ==
  /\ disconnect.pc = "idle" /\ account[p] \notin {"NONE", "DISCONNECTED"}
  /\ \E revoked \in BOOLEAN : working' = IF revoked THEN working \ TokensOf(p) ELSE working
  /\ disconnect' = [pc |-> "purge", account |-> p]
  /\ UNCHANGED <<answered, timeAt, account, credentials, cookie, states, codes, attempts,
                 callback, bootstrap, tokens, maintenance, maintainer, connectionFaults>>

\* What a lastValidatedAt of the account now is no earlier than.
JobsOf(p) ==
  {k \in DOMAIN maintenance :
     maintenance[k].state # "ABSENT" /\ credentials[k[1]].account = p}

PurgeActive(rows, p) ==
  [c \in DOMAIN rows |-> IF rows[c].account = p /\ rows[c].status = "ACTIVE"
                           THEN Purge(rows[c], "REVOKED") ELSE rows[c]]

\* commitInstagramDisconnect.  With an active credential the transaction holds
\* its row, and a connection of the account waits or is aborted: one step.
\* Without one its first statement locks nothing, and its second comes later.
CommitDisconnect ==
  LET p == disconnect.account IN
  /\ \/ disconnect.pc = "purge" /\ HasActive(p)
     \/ disconnect.pc = "mark"
  /\ credentials' = IF disconnect.pc = "purge" THEN PurgeActive(credentials, p) ELSE credentials
  /\ account' = [account EXCEPT ![p] = "DISCONNECTED"]
  /\ answered' = IF disconnect.pc = "purge" THEN answered \cup JobsOf(p) ELSE answered
  /\ disconnect' = IdleDisconnect
  /\ UNCHANGED <<timeAt, cookie, states, codes, attempts, callback, bootstrap, tokens,
                 working, maintenance, maintainer, connectionFaults>>

PurgeNothing ==
  /\ disconnect.pc = "purge" /\ ~HasActive(disconnect.account)
  /\ disconnect' = [disconnect EXCEPT !.pc = "mark"]
  /\ UNCHANGED <<answered, timeAt, account, credentials, cookie, states, codes, attempts,
                 callback, bootstrap, tokens, working, maintenance, maintainer,
                 connectionFaults>>

-----------------------------------------------------------------------------
(* Maintaining.                                                            *)

\* listInstagramCredentialsDueForMaintenance, on a connected account.
DueForMaintenance(c) ==
  /\ credentials[c].status = "ACTIVE" /\ account[credentials[c].account] = "ACTIVE"
  /\ credentials[c].expiresAt # Null => credentials[c].expiresAt <= Now + 15

ScheduleMaintenance(c) ==
  /\ DueForMaintenance(c) /\ maintenance[<<c, timeAt>>].state = "ABSENT"
  /\ maintenance' = [maintenance EXCEPT ![<<c, timeAt>>] = Enqueue(@)]
  /\ UNCHANGED <<answered, timeAt, account, credentials, cookie, states, codes, attempts,
                 callback, bootstrap, tokens, working, maintainer, disconnect,
                 connectionFaults>>

\* The job names the account; the credential is whichever is active now.  Ages
\* and expiry decide between giving up, probing and refreshing.
LoadCredential(w, k) ==
  LET p == credentials[k[1]].account
      c == ActiveCredential(p)
      row == credentials[c]
      health == TokenHealth(row.status, row.expiresAt, Now)
  IN /\ maintainer[w].pc = "idle" /\ Claimable(maintenance[k]) /\ k \notin answered
     /\ IF HasActive(p)
          THEN /\ maintenance' = [maintenance EXCEPT ![k] = Claim(@)]
               /\ maintainer' = [maintainer EXCEPT ![w] =
                    [pc |-> IF Blocked(health) THEN "commit"
                            ELSE IF ShouldRefresh(health, row.issuedAt, Now) THEN "refresh"
                            ELSE "validate",
                     job |-> k, attempt |-> maintenance[k].attempt + 1, credential |-> c,
                     version |-> row.version, token |-> row.token,
                     result |-> IF Blocked(health) THEN "reauthorise" ELSE Null]]
          \* TOKEN_CREDENTIAL_MISSING.
          ELSE /\ maintenance' = [maintenance EXCEPT ![k] =
                    SettleFailure(Claim(@), @.attempt + 1, "INVALID_INPUT")]
               /\ UNCHANGED maintainer
     /\ UNCHANGED <<answered, timeAt, account, credentials, cookie, states, codes, attempts,
                    callback, bootstrap, tokens, working, disconnect, connectionFaults>>

\* resultExists: a validation since the job was queued, of any credential of
\* the account, stands for its result.
AdoptValidation(w, k) ==
  /\ maintainer[w].pc = "idle" /\ Claimable(maintenance[k]) /\ k \in answered
  /\ maintenance' = [maintenance EXCEPT ![k] = Complete(Claim(@))]
  /\ UNCHANGED <<answered, timeAt, account, credentials, cookie, states, codes, attempts,
                 callback, bootstrap, tokens, working, maintainer, disconnect,
                 connectionFaults>>

\* The provider's answer to a probe or to a refresh; a refresh issues a token.
ProbeProvider(w) ==
  LET refreshes == maintainer[w].pc = "refresh"
      accepted == maintainer[w].token \in working
  IN /\ maintainer[w].pc \in {"validate", "refresh"}
     /\ MayContinue(maintenance[maintainer[w].job], maintainer[w].attempt)
     /\ accepted /\ refreshes => tokens < MaxTokens
     /\ tokens' = IF accepted /\ refreshes THEN tokens + 1 ELSE tokens
     /\ working' = IF accepted /\ refreshes THEN working \cup {tokens + 1} ELSE working
     /\ maintainer' = [maintainer EXCEPT ![w] =
          [@ EXCEPT !.pc = "commit",
                    !.token = IF accepted /\ refreshes THEN tokens + 1 ELSE maintainer[w].token,
                    !.result = IF ~accepted THEN "reauthorise"
                               ELSE IF refreshes THEN "rotate" ELSE "validated"]]
     /\ UNCHANGED <<answered, timeAt, account, credentials, cookie, states, codes, attempts,
                    callback, bootstrap, maintenance, disconnect, connectionFaults>>

\* An unreachable provider, or a refusal that is no verdict on the token.
ProbeFails(w) ==
  /\ maintainer[w].pc \in {"validate", "refresh"} /\ ConnectionFault
  /\ \E outcome \in {o \in TokenOutcomes \ {"OK"} : MaintenanceFailure(o) # "reauthorise"} :
       maintenance' = [maintenance EXCEPT ![maintainer[w].job] =
         SettleFailure(@, maintainer[w].attempt, MaintenanceFailure(outcome))]
  /\ maintainer' = [maintainer EXCEPT ![w] = IdleMaintainer]
  /\ UNCHANGED <<answered, timeAt, account, credentials, cookie, states, codes, attempts,
                 callback, bootstrap, tokens, working, disconnect>>

Rotated(row, token) ==
  [row EXCEPT !.token = token, !.expiresAt = Now + 60, !.version = @ + 1]

\* A mutant of Rotate: whoever rotated in between is overwritten.
RotateUnconditionally(rows, c, version, token) ==
  [rows EXCEPT ![c] = IF @.status = "ACTIVE" THEN Rotated(@, token) ELSE @]

\* rotateInstagramCredential: a compare-and-swap on the row as it was read.
Rotate(rows, c, version, token) ==
  [rows EXCEPT ![c] =
     IF @.status = "ACTIVE" /\ @.version = version THEN Rotated(@, token) ELSE @]

\* requireInstagramReauthorisation: the credential only while it is active, the
\* account whatever it has become.
RequireReauthorisation(rows, c) ==
  [rows EXCEPT ![c] =
     IF @.status = "ACTIVE" THEN Purge(@, "REAUTHORISATION_REQUIRED") ELSE @]

\* The commit of the result, inside the job's success transaction.
CommitMaintenance(w) ==
  LET me == maintainer[w] IN
  /\ me.pc = "commit"
  /\ IF MayContinue(maintenance[me.job], me.attempt)
       THEN /\ maintenance' = [maintenance EXCEPT ![me.job] = Complete(@)]
            /\ credentials' =
                 CASE me.result = "rotate" ->
                        Rotate(credentials, me.credential, me.version, me.token)
                   [] me.result = "reauthorise" ->
                        RequireReauthorisation(credentials, me.credential)
                   [] OTHER -> credentials
            /\ account' = IF me.result = "reauthorise"
                 THEN [account EXCEPT ![credentials[me.credential].account] =
                         "REAUTHORISATION_REQUIRED"]
                 ELSE account
            /\ answered' = IF credentials[me.credential].status = "ACTIVE"
                 THEN answered \cup JobsOf(credentials[me.credential].account) ELSE answered
       ELSE UNCHANGED <<maintenance, credentials, account, answered>>
  /\ maintainer' = [maintainer EXCEPT ![w] = IdleMaintainer]
  /\ UNCHANGED <<timeAt, cookie, states, codes, attempts, callback, bootstrap, tokens,
                 working, disconnect, connectionFaults>>

\* A maintainer that died, or is only late, loses its lease.
RecoverMaintenance(k) ==
  /\ maintenance[k].state = "PROCESSING" /\ ConnectionFault
  /\ maintenance' = [maintenance EXCEPT ![k] = RecoverLease(@)]
  /\ \E gone \in SUBSET {w \in Maintainers : maintainer[w].job = k} :
       maintainer' = [w \in Maintainers |->
                        IF w \in gone THEN IdleMaintainer ELSE maintainer[w]]
  /\ UNCHANGED <<answered, timeAt, account, credentials, cookie, states, codes, attempts,
                 callback, bootstrap, tokens, working, disconnect>>

\* A stage recorded without the lease ends the attempt.
LoseMaintenance(w) ==
  /\ maintainer[w].pc \in {"validate", "refresh"}
  /\ ~MayContinue(maintenance[maintainer[w].job], maintainer[w].attempt)
  /\ maintainer' = [maintainer EXCEPT ![w] = IdleMaintainer]
  /\ UNCHANGED <<answered, timeAt, account, credentials, cookie, states, codes, attempts,
                 callback, bootstrap, tokens, working, maintenance, disconnect,
                 connectionFaults>>

-----------------------------------------------------------------------------
(* The world.                                                              *)

\* The operator withdraws the permission at Instagram.
WithdrawPermission(p) ==
  /\ TokensOf(p) \cap working # {} /\ ConnectionFault
  /\ working' = working \ TokensOf(p)
  /\ UNCHANGED <<answered, timeAt, account, credentials, cookie, states, codes, attempts,
                 callback, bootstrap, tokens, maintenance, maintainer, disconnect>>

TimePasses ==
  /\ timeAt < Len(TimePoints) /\ timeAt' = timeAt + 1 /\ attempts' = 0
  /\ UNCHANGED <<answered, account, credentials, cookie, states, codes, callback, bootstrap,
                 tokens, working, maintenance, maintainer, disconnect, connectionFaults>>

ConnectionNext ==
  \/ \E u \in Admins, p \in ProviderAccounts \cup {Null} : StartConnection(u, p)
  \/ \E c \in Callbacks :
       \/ CommitConnection(c) \/ EnqueueBootstrap(c) \/ CallbackFails(c) \/ ExchangeRefused(c)
       \/ \E u \in Admins, s \in 1..states : BeginCallback(c, u, s)
       \/ \E p \in ProviderAccounts, reported \in {"MEDIA_CREATOR", "PERSONAL"},
             listed \in {{}, {"basic"}} : ExchangeCode(c, p, reported, listed)
  \/ \E p \in ProviderAccounts : Revoke(p) \/ WithdrawPermission(p)
  \/ CommitDisconnect \/ PurgeNothing
  \/ \E c \in DOMAIN credentials : ScheduleMaintenance(c)
  \/ \E w \in Maintainers :
       \/ ProbeProvider(w) \/ ProbeFails(w) \/ CommitMaintenance(w) \/ LoseMaintenance(w)
       \/ \E k \in DOMAIN maintenance : LoadCredential(w, k) \/ AdoptValidation(w, k)
  \/ \E k \in DOMAIN maintenance : RecoverMaintenance(k)
  \/ TimePasses

ConnectionSpec == ConnectionInit /\ [][ConnectionNext]_connectionVars

-----------------------------------------------------------------------------
(* Properties.                                                             *)

\* "A reconnect never leaves two usable tokens", and an account the scheduler
\* takes for connected has one: whatever connections, disconnections and
\* maintenance commits overlapped.
OneUsableToken ==
  \A p \in ProviderAccounts :
    /\ Cardinality(ActiveCredentials(p)) <= 1
    /\ account[p] = "ACTIVE" => HasActive(p)
    /\ \A c \in DOMAIN credentials : (credentials[c].token # 0) <=> credentials[c].status = "ACTIVE"

\* Of two refreshes that overlap, the stored token is never replaced by the one
\* the provider issued first.
TokensAdvance ==
  [][\A c \in DOMAIN credentials :
       credentials'[c].token # 0 => credentials'[c].token >= credentials[c].token]_connectionVars
=============================================================================
