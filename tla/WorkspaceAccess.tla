---------------------------- MODULE WorkspaceAccess ----------------------------
(***************************************************************************)
(* Who may act in the one workspace: grants by an operator, Google         *)
(* sign-ins, the JSON web token a browser carries, and the two reads of    *)
(* the database behind every authenticated request.  Status changes and    *)
(* the passing of time fall between any two of those steps.                *)
(***************************************************************************)
EXTENDS Integers, FiniteSets

CONSTANTS
  Nobody,           \* no subject, no user
  Emails, Subjects,
  ApprovedEmails,   \* the addresses of the approved Workspace domain
  Browsers,
  SessionMaxAge,    \* AUTH_SESSION_MAX_AGE_SECONDS, in units of the clock
  MaxTime, MaxStatusChanges

ASSUME AccessAssumption ==
  /\ ApprovedEmails \subseteq Emails
  /\ SessionMaxAge \in Nat /\ MaxTime \in Nat /\ MaxStatusChanges \in Nat

VARIABLES
  users,      \* [Emails -> internal_users row], one row an address
  browser,    \* [Browsers -> sign-in in progress, cookie and request]
  changes,    \* ghost: status changes of each user so far
  clock

accessVars == <<users, browser, changes, clock>>

NoUser == [status |-> "ABSENT", role |-> "MEMBER", subject |-> Nobody, version |-> 1]

\* A principal is the user and the session version; subject is the Google
\* account that presented itself.  Ghosts: since is when the token was first
\* issued, seen the status changes the sign-in came after.
FreshBrowser == [pc |-> "signed_out", user |-> Nobody, version |-> 0, subject |-> Nobody,
                 started |-> 0, since |-> 0, seen |-> 0]

AccessInit ==
  /\ users = [e \in Emails |-> NoUser]
  /\ browser = [b \in Browsers |-> FreshBrowser]
  /\ changes = [e \in Emails |-> 0]
  /\ clock = 0

Listed(e) == users[e].status # "ABSENT"

-----------------------------------------------------------------------------
(* Membership.                                                             *)

isApprovedWorkspaceEmail(e) == e \in ApprovedEmails

\* Granting again answers already_member and changes nothing.
grantWorkspaceMember(e, role) ==
  /\ isApprovedWorkspaceEmail(e) /\ ~Listed(e)
  /\ users' = [users EXCEPT ![e] = [NoUser EXCEPT !.status = "ACTIVE", !.role = role]]
  /\ UNCHANGED <<browser, changes, clock>>

\* A mutant of StatusChanged: the sessions of the user outlive the change.
StatusChangedOnly(row, status) == [row EXCEPT !.status = status]

\* The row after a change of status, also when the status is what it was.
StatusChanged(row, status) == [row EXCEPT !.status = status, !.version = @ + 1]

\* Any active member is an actor; the actor may be the target.
setInternalUserStatus(actor, target, status) ==
  /\ users[actor].status = "ACTIVE" /\ Listed(target)
  /\ changes[target] < MaxStatusChanges
  /\ users' = [users EXCEPT ![target] = StatusChanged(@, status)]
  /\ changes' = [changes EXCEPT ![target] = @ + 1]
  /\ UNCHANGED <<browser, clock>>

-----------------------------------------------------------------------------
(* Signing in.                                                             *)

\* The claims of a Google profile, each judged once, in the code's order.
ProfileVerdict(claims) ==
  IF ~claims.wellFormed THEN "MALFORMED_CLAIMS"
  ELSE IF ~isApprovedWorkspaceEmail(claims.email) THEN "WRONG_DOMAIN"
  ELSE IF ~claims.verified THEN "UNVERIFIED_EMAIL"
  ELSE IF ~claims.hosted THEN "WRONG_DOMAIN"
  ELSE "allowed"

Claims == [email : Emails, wellFormed : BOOLEAN, verified : BOOLEAN, hosted : BOOLEAN]

\* One row at most has the address, so the ambiguous case cannot happen.
Authorised(e, subject) ==
  users[e].status = "ACTIVE" /\ users[e].subject \in {Nobody, subject}

\* The read of authoriseOidcIdentity.  A denial leaves the browser signed out.
ReadCandidate(b, claims, subject) ==
  /\ browser[b].pc = "signed_out"
  /\ ProfileVerdict(claims) = "allowed" /\ Authorised(claims.email, subject)
  /\ browser' = [browser EXCEPT ![b] =
       [FreshBrowser EXCEPT !.pc = "candidate", !.user = claims.email, !.subject = subject]]
  /\ UNCHANGED <<users, changes, clock>>

\* Its update: the subject presented, which is the one the read found if it
\* found one; the principal has the version of the row now.  A subject bound
\* to another row fails the transaction.
BindSubject(b) ==
  LET e == browser[b].user
      s == browser[b].subject
      taken == \E o \in Emails \ {e} : users[o].subject = s
  IN /\ browser[b].pc = "candidate"
     /\ users' = IF taken THEN users ELSE [users EXCEPT ![e].subject = s]
     /\ browser' = [browser EXCEPT ![b] =
          IF taken THEN FreshBrowser
          ELSE [@ EXCEPT !.pc = "principal", !.version = users[e].version,
                         !.seen = changes[e]]]
     /\ UNCHANGED <<changes, clock>>

-----------------------------------------------------------------------------
(* The token and the request.                                              *)

findActiveSessionPrincipal(w) ==
  users[w.user].status = "ACTIVE" /\ users[w.user].version = w.version

findActiveAdminPrincipal(w) ==
  findActiveSessionPrincipal(w) /\ users[w.user].role = "ADMIN"

\* A mutant of StartedAt: every request starts the session again.
StartedNow(w) == clock

\* The start a token carries on: the sign-in's, through every reissue.
StartedAt(w) == IF w.pc = "principal" THEN clock ELSE w.started

\* The jwt callback, run at the sign-in and at every read of the session.
TokenLives(w) ==
  /\ w.pc = "principal" \/ clock < w.started + SessionMaxAge
  /\ findActiveSessionPrincipal(w)

\* A token that does not live is removed.
jwt(b) ==
  LET w == browser[b]
  IN /\ w.pc \in {"principal", "cookie"}
     /\ browser' = [browser EXCEPT ![b] =
          IF ~TokenLives(w) THEN FreshBrowser
          ELSE [w EXCEPT !.started = StartedAt(w),
                         !.since = IF w.pc = "principal" THEN clock ELSE @,
                         !.pc = IF w.pc = "principal" THEN "cookie" ELSE "session"]]
     /\ UNCHANGED <<users, changes, clock>>

\* requireAuthenticatedActor and requireAdminActor read the row once more.
RequireActor(b, pc, passes) ==
  /\ browser[b].pc = "session"
  /\ browser' = [browser EXCEPT ![b].pc = IF passes THEN pc ELSE "cookie"]
  /\ UNCHANGED <<users, changes, clock>>

requireAuthenticatedActor(b) ==
  RequireActor(b, "actor", findActiveSessionPrincipal(browser[b]))

requireAdminActor(b) == RequireActor(b, "admin", findActiveAdminPrincipal(browser[b]))

RequestEnds(b) ==
  /\ browser[b].pc \in {"actor", "admin"}
  /\ browser' = [browser EXCEPT ![b].pc = "cookie"]
  /\ UNCHANGED <<users, changes, clock>>

signOut(b) ==
  /\ browser[b].pc = "cookie"
  /\ browser' = [browser EXCEPT ![b] = FreshBrowser]
  /\ UNCHANGED <<users, changes, clock>>

TimePasses == clock < MaxTime /\ clock' = clock + 1 /\ UNCHANGED <<users, browser, changes>>

AccessNext ==
  \/ \E e \in Emails, role \in {"ADMIN", "MEMBER"} : grantWorkspaceMember(e, role)
  \/ \E actor, target \in Emails, status \in {"ACTIVE", "DISABLED"} :
       setInternalUserStatus(actor, target, status)
  \/ \E b \in Browsers, claims \in Claims, s \in Subjects : ReadCandidate(b, claims, s)
  \/ \E b \in Browsers :
       \/ BindSubject(b) \/ jwt(b)
       \/ requireAuthenticatedActor(b) \/ requireAdminActor(b)
       \/ RequestEnds(b) \/ signOut(b)
  \/ TimePasses

\* A request is admitted for a person who is active, whose status has not
\* changed since the sign-in behind the token (a disabled member who is
\* enabled again signs in again), and its session was read within
\* AUTH_SESSION_MAX_AGE_SECONDS of that sign-in however often it was reissued.
AdmittedSessionsAreCurrent ==
  [][\A b \in Browsers :
       LET w == browser[b]
       IN /\ w.pc = "session" /\ browser'[b].pc \in {"actor", "admin"} =>
               users[w.user].status = "ACTIVE" /\ w.seen = changes[w.user]
          /\ w.pc = "cookie" /\ browser'[b].pc = "session" =>
               clock < w.since + SessionMaxAge]_accessVars

AccessSpec == AccessInit /\ [][AccessNext]_accessVars
=============================================================================
