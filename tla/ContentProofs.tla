---------------------------- MODULE ContentProofs ----------------------------
(***************************************************************************)
(* What holds of the content and workspace components for every value of   *)
(* their constants: any number of browsers, users, loops, turns, slots,    *)
(* assets and faults.  Each section is about one component.                *)
(***************************************************************************)
EXTENDS AnalysisContract, AnalysisRun, FeatureStatistics, StrategyGeneration, ChatTurn,
        WorkspaceAccess, UploadClient, WorkerLifecycle, RetryPolicy, FiniteSetTheorems,
        FunctionTheorems, SequenceTheorems, WellFoundedInduction, TLAPS

-----------------------------------------------------------------------------
(* Induction on the naturals as a fact about sets of them, which needs no   *)
(* operator as a parameter.                                                 *)

LEMMA LeastNatural ==
  ASSUME NEW T, T \subseteq Nat, T # {}
  PROVE  \E n \in T : \A m \in T : n <= m
<1>1. IsWellFoundedOn({p \in Nat \X Nat : p[1] < p[2]}, Nat)
  BY NatLessThanWellFounded DEF OpToRel
<1>2. PICK n \in T : \A m \in T : <<m, n>> \notin {p \in Nat \X Nat : p[1] < p[2]}
  BY <1>1, WFMin
<1>3. ASSUME NEW m \in T PROVE n <= m
  <2>1. <<m, n>>[1] = m /\ <<m, n>>[2] = n
    OBVIOUS
  <2>2. ~(m < n)
    BY <1>2, <2>1
  <2>3. QED
    BY <2>2
<1>4. QED
  BY <1>3

LEMMA GreatestNatural ==
  ASSUME NEW n \in Nat, NEW S, S \subseteq 0..n, S # {}
  PROVE  \E k \in S : \A m \in S : k >= m
<1> DEFINE T == {d \in Nat : \E k \in S : k + d = n}
<1>1. \A k \in S : k \in Int /\ n - k \in T
  OBVIOUS
<1>2. T \subseteq Nat /\ T # {}
  BY <1>1
<1>3. PICK d \in T : \A e \in T : d <= e
  BY <1>2, LeastNatural
<1>4. PICK k \in S : k + d = n
  BY <1>3
<1>5. \A m \in S : d <= n - m
  BY <1>1, <1>3
<1>6. QED
  BY <1>1, <1>4, <1>5

LEMMA InductiveSet ==
  ASSUME NEW T, 0 \in T, \A n \in Nat : n \in T => n + 1 \in T
  PROVE  Nat \subseteq T
<1> DEFINE U == Nat \ T
<1> SUFFICES ASSUME U # {} PROVE FALSE
  OBVIOUS
<1>1. PICK n \in U : \A m \in U : n <= m
  BY LeastNatural
<1>2. n \in Nat /\ n # 0 /\ n \notin T
  BY <1>1
<1>3. PICK m \in Nat : n = m + 1
  <2>1. n - 1 \in Nat /\ n = (n - 1) + 1
    BY <1>2
  <2>2. QED
    BY <2>1
<1>4. m \in T
  <2>1. ~(n <= m)
    BY <1>3
  <2>2. QED
    BY <1>1, <2>1
<1>5. QED
  BY <1>2, <1>3, <1>4

-----------------------------------------------------------------------------
(* WorkspaceAccess.  A session version counts the status changes of its    *)
(* user, so a token that carries the current version is one that no status *)
(* change came after.                                                      *)

UserRows ==
  [status : {"ABSENT", "ACTIVE", "DISABLED"}, role : {"ADMIN", "MEMBER"},
   subject : Subjects \cup {Nobody}, version : Nat]

BrowserRows ==
  [pc : {"signed_out", "candidate", "principal", "cookie", "session", "actor", "admin"},
   user : Emails \cup {Nobody}, version : Nat, subject : Subjects \cup {Nobody},
   started : Nat, since : Nat, seen : Nat]

AccessTyped ==
  /\ users \in [Emails -> UserRows] /\ changes \in [Emails -> Nat] /\ clock \in Nat
  /\ browser \in [Browsers -> BrowserRows]

VersionsCountChanges ==
  \A e \in Emails : /\ users[e].version = changes[e] + 1
                    /\ users[e].status = "ABSENT" => changes[e] = 0

\* What the ghosts of a browser say of its token.
TokenSound(w) ==
  /\ w.pc # "signed_out" => w.user \in Emails
  /\ w.pc \in {"principal", "cookie", "session", "actor", "admin"} => w.version = w.seen + 1
  /\ w.pc \in {"cookie", "session", "actor", "admin"} => w.since = w.started

TokensSound == \A b \in Browsers : TokenSound(browser[b])

AccessSound == AccessTyped /\ VersionsCountChanges /\ TokensSound

LEMMA AccessSoundStarts == AccessInit => AccessSound
<1> SUFFICES ASSUME AccessInit PROVE AccessSound
  OBVIOUS
<1>1. NoUser \in UserRows /\ FreshBrowser \in BrowserRows /\ TokenSound(FreshBrowser)
  BY DEF NoUser, FreshBrowser, UserRows, BrowserRows, TokenSound
<1>2. AccessTyped
  BY <1>1 DEF AccessInit, AccessTyped
<1>3. VersionsCountChanges
  BY DEF AccessInit, VersionsCountChanges, NoUser
<1>4. TokensSound
  BY <1>1 DEF AccessInit, TokensSound
<1>5. QED
  BY <1>2, <1>3, <1>4 DEF AccessSound

\* A row written for one browser leaves the invariant when it keeps to it.
LEMMA OneBrowserMoves ==
  ASSUME AccessSound, NEW b \in Browsers, NEW row \in BrowserRows, TokenSound(row),
         browser' = [browser EXCEPT ![b] = row]
  PROVE  browser' \in [Browsers -> BrowserRows] /\ TokensSound'
<1>1. browser \in [Browsers -> BrowserRows] /\ TokensSound
  BY DEF AccessSound, AccessTyped
<1>2. browser' \in [Browsers -> BrowserRows]
  BY <1>1
<1>3. \A o \in Browsers : browser'[o] = browser[o] \/ browser'[o] = row
  BY <1>1
<1>4. \A o \in Browsers : TokenSound(browser'[o])
  BY <1>1, <1>3 DEF TokensSound
<1>5. QED
  BY <1>2, <1>4 DEF TokensSound

LEMMA MembershipKeepsSound ==
  ASSUME AccessSound,
         \/ \E e \in Emails, role \in {"ADMIN", "MEMBER"} : grantWorkspaceMember(e, role)
         \/ \E actor, target \in Emails, status \in {"ACTIVE", "DISABLED"} :
              setInternalUserStatus(actor, target, status)
  PROVE  AccessSound'
<1>1. PICK e \in Emails, row \in UserRows, n \in Nat :
        /\ users' = [users EXCEPT ![e] = row] /\ changes' = [changes EXCEPT ![e] = n]
        /\ row.version = n + 1 /\ row.status # "ABSENT"
        /\ UNCHANGED <<browser, clock>>
  <2>1. ASSUME NEW e \in Emails, NEW role \in {"ADMIN", "MEMBER"}, grantWorkspaceMember(e, role)
        PROVE  \E row \in UserRows, n \in Nat :
                 /\ users' = [users EXCEPT ![e] = row] /\ changes' = [changes EXCEPT ![e] = n]
                 /\ row.version = n + 1 /\ row.status # "ABSENT"
                 /\ UNCHANGED <<browser, clock>>
    <3> DEFINE row == [NoUser EXCEPT !.status = "ACTIVE", !.role = role]
    <3>1. row \in UserRows /\ row.version = 0 + 1 /\ row.status # "ABSENT"
      <4>1. \A r \in UserRows : LET new == [r EXCEPT !.status = "ACTIVE", !.role = role]
                               IN /\ new \in UserRows /\ new.version = r.version
                                  /\ new.status = "ACTIVE"
        BY DEF UserRows
      <4>2. NoUser \in UserRows /\ NoUser.version = 0 + 1
        BY DEF NoUser, UserRows
      <4>3. QED
        BY <4>1, <4>2
    <3>2. users' = [users EXCEPT ![e] = row] /\ UNCHANGED <<browser, changes, clock>>
      BY <2>1 DEF grantWorkspaceMember
    <3>3. changes' = [changes EXCEPT ![e] = 0]
      BY <2>1, <3>2 DEF grantWorkspaceMember, Listed, AccessSound, VersionsCountChanges, AccessTyped
    <3>4. QED
      BY <3>1, <3>2, <3>3
  <2>2. ASSUME NEW actor \in Emails, NEW e \in Emails, NEW status \in {"ACTIVE", "DISABLED"},
               setInternalUserStatus(actor, e, status)
        PROVE  \E row \in UserRows, n \in Nat :
                 /\ users' = [users EXCEPT ![e] = row] /\ changes' = [changes EXCEPT ![e] = n]
                 /\ row.version = n + 1 /\ row.status # "ABSENT"
                 /\ UNCHANGED <<browser, clock>>
    <3> DEFINE row == StatusChanged(users[e], status)
    <3>1. users[e] \in UserRows /\ changes[e] \in Nat /\ users[e].version = changes[e] + 1
      BY DEF AccessSound, AccessTyped, VersionsCountChanges
    <3>2. row \in UserRows /\ row.version = (changes[e] + 1) + 1 /\ row.status # "ABSENT"
      <4>1. \A n \in Nat : LET new == [users[e] EXCEPT !.status = status, !.version = n]
                          IN new \in UserRows /\ new.version = n /\ new.status = status
        BY <3>1 DEF UserRows
      <4>2. PICK n : n = users[e].version + 1
        OBVIOUS
      <4>3. n \in Nat /\ n = (changes[e] + 1) + 1
        BY <3>1, <4>2
      <4>4. row = [users[e] EXCEPT !.status = status, !.version = n]
        BY <4>2, Zenon DEF StatusChanged
      <4>5. QED
        BY <4>1, <4>3, <4>4, Zenon
    <3>3. /\ users' = [users EXCEPT ![e] = row] /\ changes' = [changes EXCEPT ![e] = changes[e] + 1]
          /\ UNCHANGED <<browser, clock>>
      BY <2>2 DEF setInternalUserStatus
    <3>4. changes[e] + 1 \in Nat
      BY <3>1
    <3> HIDE DEF row
    <3>5. QED
      BY <3>2, <3>3, <3>4
  <2>3. QED
    BY <2>1, <2>2
<1>2. AccessTyped'
  BY <1>1 DEF AccessSound, AccessTyped
<1>3. VersionsCountChanges'
  BY <1>1 DEF AccessSound, AccessTyped, VersionsCountChanges
<1>4. TokensSound'
  BY <1>1 DEF AccessSound, TokensSound
<1>5. QED
  BY <1>2, <1>3, <1>4 DEF AccessSound

\* What becomes of the browser of a sign-in or a request.
LEMMA SessionsKeepSound ==
  ASSUME AccessSound, NEW b \in Browsers,
         \/ \E claims \in Claims, s \in Subjects : ReadCandidate(b, claims, s)
         \/ jwt(b) \/ requireAuthenticatedActor(b) \/ requireAdminActor(b)
         \/ RequestEnds(b) \/ signOut(b)
  PROVE  AccessSound'
<1> DEFINE w == browser[b]
<1>0. w \in BrowserRows /\ TokenSound(w) /\ clock \in Nat
  BY DEF AccessSound, AccessTyped, TokensSound
<1>1. FreshBrowser \in BrowserRows /\ TokenSound(FreshBrowser)
  BY DEF FreshBrowser, BrowserRows, TokenSound
<1>2. UNCHANGED <<users, changes, clock>>
  BY DEF ReadCandidate, jwt, requireAuthenticatedActor, requireAdminActor, RequireActor,
         RequestEnds, signOut
<1>3. PICK row \in BrowserRows : TokenSound(row) /\ browser' = [browser EXCEPT ![b] = row]
  <2>1. ASSUME NEW claims \in Claims, NEW s \in Subjects, ReadCandidate(b, claims, s)
        PROVE  \E row \in BrowserRows : TokenSound(row) /\ browser' = [browser EXCEPT ![b] = row]
    <3> DEFINE row == [FreshBrowser EXCEPT !.pc = "candidate", !.user = claims.email, !.subject = s]
    <3>1. row \in BrowserRows /\ TokenSound(row)
      BY DEF FreshBrowser, BrowserRows, TokenSound, Claims
    <3>2. QED
      BY <2>1, <3>1 DEF ReadCandidate
  <2>2. CASE jwt(b)
    <3>1. CASE ~TokenLives(w)
      BY <1>1, <2>2, <3>1 DEF jwt
    <3>2. CASE TokenLives(w) /\ w.pc = "principal"
      <4> DEFINE row == [w EXCEPT !.started = clock, !.since = clock, !.pc = "cookie"]
      <4>1. row \in BrowserRows /\ TokenSound(row)
        BY <1>0, <3>2 DEF BrowserRows, TokenSound
      <4>2. browser' = [browser EXCEPT ![b] = row]
        BY <2>2, <3>2 DEF jwt, StartedAt
      <4>3. QED
        BY <4>1, <4>2
    <3>3. CASE TokenLives(w) /\ w.pc = "cookie"
      <4> DEFINE row == [w EXCEPT !.started = w.started, !.since = w.since, !.pc = "session"]
      <4>1. row \in BrowserRows /\ TokenSound(row)
        BY <1>0, <3>3 DEF BrowserRows, TokenSound
      <4>2. browser' = [browser EXCEPT ![b] = row]
        BY <2>2, <3>3 DEF jwt, StartedAt
      <4>3. QED
        BY <4>1, <4>2
    <3>4. QED
      BY <2>2, <3>1, <3>2, <3>3 DEF jwt
  <2>3. ASSUME NEW pc \in {"actor", "admin", "cookie"}, w.pc \in {"session", "actor", "admin"},
               browser' = [browser EXCEPT ![b].pc = pc]
        PROVE  \E row \in BrowserRows : TokenSound(row) /\ browser' = [browser EXCEPT ![b] = row]
    <3> DEFINE row == [w EXCEPT !.pc = pc]
    <3>1. row \in BrowserRows /\ TokenSound(row)
      BY <1>0, <2>3 DEF BrowserRows, TokenSound
    <3>2. browser' = [browser EXCEPT ![b] = row]
      BY <2>3
    <3>3. QED
      BY <3>1, <3>2
  <2>4. CASE signOut(b)
    BY <1>1, <2>4 DEF signOut
  <2>5. QED
    BY <2>1, <2>2, <2>3, <2>4 DEF requireAuthenticatedActor, requireAdminActor, RequireActor,
                                  RequestEnds
<1> HIDE DEF w
<1>4. QED
  BY <1>2, <1>3, OneBrowserMoves DEF AccessSound, AccessTyped, VersionsCountChanges

LEMMA BindSubjectKeepsSound ==
  ASSUME AccessSound, NEW b \in Browsers, BindSubject(b)
  PROVE  AccessSound'
<1>1. PICK e : e = browser[b].user
  OBVIOUS
<1>2. PICK s : s = browser[b].subject
  OBVIOUS
<1>3. /\ browser[b] \in BrowserRows /\ e \in Emails /\ users[e] \in UserRows
      /\ s \in Subjects \cup {Nobody} /\ changes[e] \in Nat /\ users[e].version = changes[e] + 1
  BY <1>1, <1>2 DEF BindSubject, AccessSound, AccessTyped, TokensSound, TokenSound, BrowserRows,
                    VersionsCountChanges
<1>4. UNCHANGED <<changes, clock>>
  BY DEF BindSubject
<1>5. CASE UNCHANGED users /\ browser' = [browser EXCEPT ![b] = FreshBrowser]
  <2>1. FreshBrowser \in BrowserRows /\ TokenSound(FreshBrowser)
    BY DEF FreshBrowser, BrowserRows, TokenSound
  <2>2. QED
    BY <1>4, <1>5, <2>1, OneBrowserMoves DEF AccessSound, AccessTyped, VersionsCountChanges
<1>6. CASE /\ users' = [users EXCEPT ![e].subject = s]
           /\ browser' = [browser EXCEPT ![b] = [@ EXCEPT !.pc = "principal",
                            !.version = users[e].version, !.seen = changes[e]]]
  <2> DEFINE row == [browser[b] EXCEPT !.pc = "principal", !.version = users[e].version,
                                       !.seen = changes[e]]
             user == [users[e] EXCEPT !.subject = s]
  <2>1. row \in BrowserRows /\ TokenSound(row) /\ browser' = [browser EXCEPT ![b] = row]
    <3>1. users[e].version \in Nat
      BY <1>3
    <3>2. \A n, m \in Nat : [browser[b] EXCEPT !.pc = "principal", !.version = n, !.seen = m]
                              \in BrowserRows
      BY <1>3 DEF BrowserRows
    <3>3. row \in BrowserRows
      BY <1>3, <3>1, <3>2
    <3>4. TokenSound(row)
      BY <1>1, <1>3 DEF TokenSound, BrowserRows
    <3>5. QED
      BY <1>6, <3>3, <3>4
  <2>2. /\ user \in UserRows /\ users' = [users EXCEPT ![e] = user]
        /\ user.version = users[e].version /\ user.status = users[e].status
    BY <1>3, <1>6 DEF UserRows
  <2>3. AccessTyped' /\ TokensSound'
    BY <1>4, <2>1, <2>2, OneBrowserMoves DEF AccessSound, AccessTyped
  <2>4. VersionsCountChanges'
    BY <1>3, <1>4, <2>2 DEF AccessSound, AccessTyped, VersionsCountChanges
  <2>5. QED
    BY <2>3, <2>4 DEF AccessSound
<1>7. QED
  BY <1>1, <1>2, <1>5, <1>6 DEF BindSubject

LEMMA AccessSoundStays == AccessSound /\ [AccessNext]_accessVars => AccessSound'
<1> SUFFICES ASSUME AccessSound, [AccessNext]_accessVars PROVE AccessSound'
  OBVIOUS
<1>1. CASE UNCHANGED accessVars
  BY <1>1 DEF accessVars, AccessSound, AccessTyped, VersionsCountChanges, TokensSound
<1>2. CASE TimePasses
  BY <1>2 DEF TimePasses, AccessSound, AccessTyped, VersionsCountChanges, TokensSound
<1>3. QED
  BY <1>1, <1>2, MembershipKeepsSound, SessionsKeepSound, BindSubjectKeepsSound DEF AccessNext

\* A request is admitted only for somebody who is active and whose status has
\* not changed since the sign-in behind the token, within the age of a session
\* however often the token was reissued (findActiveSessionPrincipal, the jwt
\* callback).
THEOREM AdmissionsFollowTheMembers == AccessSpec => AdmittedSessionsAreCurrent
<1>1. AccessSound /\ [AccessNext]_accessVars =>
        [\A b \in Browsers :
           LET w == browser[b]
           IN /\ w.pc = "session" /\ browser'[b].pc \in {"actor", "admin"} =>
                   users[w.user].status = "ACTIVE" /\ w.seen = changes[w.user]
              /\ w.pc = "cookie" /\ browser'[b].pc = "session" =>
                   clock < w.since + SessionMaxAge]_accessVars
  <2> SUFFICES ASSUME AccessSound, AccessNext, NEW b \in Browsers
               PROVE  /\ browser[b].pc = "session" /\ browser'[b].pc \in {"actor", "admin"} =>
                           /\ users[browser[b].user].status = "ACTIVE"
                           /\ browser[b].seen = changes[browser[b].user]
                      /\ browser[b].pc = "cookie" /\ browser'[b].pc = "session" =>
                           clock < browser[b].since + SessionMaxAge
    OBVIOUS
  <2>1. /\ browser \in [Browsers -> BrowserRows] /\ TokenSound(browser[b])
        /\ browser[b] \in BrowserRows /\ changes \in [Emails -> Nat]
    BY DEF AccessSound, AccessTyped, TokensSound
  <2>2. ASSUME NEW o \in Browsers, o # b, NEW row, browser' = [browser EXCEPT ![o] = row]
        PROVE  browser'[b] = browser[b]
    BY <2>1, <2>2
  <2>3. ASSUME browser'[b] = browser[b]
        PROVE  browser'[b].pc = browser[b].pc
    BY <2>3
  <2>4. ASSUME NEW o \in Browsers, jwt(o) \/ requireAuthenticatedActor(o) \/ requireAdminActor(o)
        PROVE  o = b \/ browser'[b] = browser[b]
    BY <2>1, <2>4 DEF jwt, requireAuthenticatedActor, requireAdminActor, RequireActor
  <2>5. ASSUME browser[b].pc = "session", browser'[b].pc \in {"actor", "admin"}
        PROVE  users[browser[b].user].status = "ACTIVE" /\ browser[b].seen = changes[browser[b].user]
    <3>1. findActiveSessionPrincipal(browser[b])
      <4>1. CASE requireAuthenticatedActor(b) \/ requireAdminActor(b)
        BY <2>1, <2>5, <4>1 DEF requireAuthenticatedActor, requireAdminActor, RequireActor,
                                findActiveAdminPrincipal, BrowserRows
      <4>2. ~jwt(b) /\ ~signOut(b) /\ ~BindSubject(b) /\ ~RequestEnds(b)
        BY <2>5 DEF jwt, signOut, BindSubject, RequestEnds
      <4>3. \A claims, s : ~ReadCandidate(b, claims, s)
        BY <2>5 DEF ReadCandidate
      <4>4. browser'[b] # browser[b]
        BY <2>5
      <4>5. ASSUME NEW o \in Browsers, o # b,
                   \/ jwt(o) \/ signOut(o) \/ BindSubject(o) \/ RequestEnds(o)
                   \/ requireAuthenticatedActor(o) \/ requireAdminActor(o)
                   \/ \E claims \in Claims, s \in Subjects : ReadCandidate(o, claims, s)
            PROVE  FALSE
        BY <2>1, <4>4, <4>5 DEF jwt, signOut, BindSubject, RequestEnds, requireAuthenticatedActor,
                                requireAdminActor, RequireActor, ReadCandidate
      <4>6. ASSUME UNCHANGED browser PROVE FALSE
        BY <4>4, <4>6
      <4>7. QED
        BY <4>1, <4>2, <4>3, <4>5, <4>6
           DEF AccessNext, grantWorkspaceMember, setInternalUserStatus, TimePasses
    <3>2. /\ browser[b].version = browser[b].seen + 1 /\ browser[b].user \in Emails
          /\ users[browser[b].user].version = changes[browser[b].user] + 1
      BY <2>1, <2>5 DEF TokenSound, AccessSound, VersionsCountChanges
    <3>3. QED
      BY <2>1, <3>1, <3>2 DEF findActiveSessionPrincipal, BrowserRows
  <2>6. ASSUME browser[b].pc = "cookie", browser'[b].pc = "session"
        PROVE  clock < browser[b].since + SessionMaxAge
    <3>1. browser'[b] # browser[b]
      BY <2>6
    <3>2. \/ jwt(b) \/ signOut(b) \/ BindSubject(b) \/ RequestEnds(b)
          \/ requireAuthenticatedActor(b) \/ requireAdminActor(b)
          \/ \E claims \in Claims, s \in Subjects : ReadCandidate(b, claims, s)
      <4>1. ASSUME NEW o \in Browsers, o # b,
                   \/ jwt(o) \/ signOut(o) \/ BindSubject(o) \/ RequestEnds(o)
                   \/ requireAuthenticatedActor(o) \/ requireAdminActor(o)
                   \/ \E claims \in Claims, s \in Subjects : ReadCandidate(o, claims, s)
            PROVE  FALSE
        BY <2>1, <3>1, <4>1 DEF jwt, signOut, BindSubject, RequestEnds, requireAuthenticatedActor,
                                requireAdminActor, RequireActor, ReadCandidate
      <4>2. ASSUME UNCHANGED browser PROVE FALSE
        BY <3>1, <4>2
      <4>3. QED
        BY <4>1, <4>2 DEF AccessNext, grantWorkspaceMember, setInternalUserStatus, TimePasses
    <3>3. jwt(b) /\ TokenLives(browser[b])
      BY <2>1, <2>6, <3>2 DEF jwt, signOut, BindSubject, RequestEnds, requireAuthenticatedActor,
                              requireAdminActor, RequireActor, ReadCandidate, FreshBrowser
    <3>4. QED
      BY <2>1, <2>6, <3>3 DEF TokenLives, TokenSound
  <2>7. QED
    BY <2>5, <2>6
<1>2. QED
  BY <1>1, AccessSoundStarts, AccessSoundStays, PTL DEF AccessSpec, AdmittedSessionsAreCurrent

-----------------------------------------------------------------------------
(* UploadClient.  While a loop is at work Resume is not offered, so no     *)
(* second one starts; and as long as the session has an intent, the parts  *)
(* before the one a loop stands at are in the map.                         *)

Phases == {"selecting", "reserving", "uploading", "paused", "completing", "completed", "error"}

SessionRows ==
  [phase : Phases, resumable : BOOLEAN, intent : Nat \cup {Null}, total : {0, PartCount},
   parts : SUBSET (1..PartCount), pauseRequested : BOOLEAN, cancelled : BOOLEAN,
   chosen : BOOLEAN]

LoopRows ==
  [pc : {"idle", "reserve", "sign", "put", "complete"}, part : Nat, attempt : Nat,
   intent : Nat \cup {Null}]

SessionSound(s) ==
  /\ s \in SessionRows
  /\ s.intent # Null => s.total = PartCount
  /\ s.phase = "paused" \/ s.resumable => s.chosen

\* The run of a loop, beside the session it works on.
LoopSound(row, s) ==
  /\ row \in LoopRows
  /\ row.pc = "idle" => row = IdleLoop
  /\ row.pc # "idle" => s.chosen /\ s.phase # "paused" /\ ~s.resumable
  /\ row.pc \in {"sign", "put"} =>
       /\ row.part \in 1..PartCount
       /\ s.intent # Null => 1..(row.part - 1) \subseteq s.parts

LoopsTyped == loop \in [Loops -> LoopRows] /\ reserved \in Nat

ClientSound ==
  /\ LoopsTyped /\ SessionSound(session)
  /\ \A l \in Loops : LoopSound(loop[l], session)
  /\ UploadsAreWhole

LEMMA IdleLoopSound == \A s : LoopSound(IdleLoop, s)
  BY DEF LoopSound, IdleLoop, LoopRows

LEMMA MinOfNaturals ==
  ASSUME NEW S \in SUBSET Nat, S # {}
  PROVE  Min(S) \in S /\ \A y \in S : Min(S) <= y
<1>1. PICK x \in S : \A y \in S : x <= y
  BY LeastNatural
<1>2. QED
  BY <1>1 DEF Min

\* A change of phase leaves the rest of the session as it is.
LEMMA TransitionsKeepSession ==
  ASSUME NEW s, SessionSound(s), NEW next \in Phases, NEW can \in BOOLEAN,
         next = "paused" \/ can => s.chosen
  PROVE  LET t == transition(s, next, can)
         IN /\ SessionSound(t) /\ t.phase = next /\ t.resumable = can
            /\ t.intent = s.intent /\ t.total = s.total
            /\ t.parts = s.parts /\ t.chosen = s.chosen
  BY DEF SessionSound, transition, SessionRows

\* A loop moves, alone, to another await or to its end.
LEMMA OneLoopMoves ==
  ASSUME ClientSound, NEW l \in Loops, \A k \in Loops \ {l} : loop[k] = IdleLoop,
         NEW s, SessionSound(s), NEW row, LoopSound(row, s),
         session' = s, loop' = [loop EXCEPT ![l] = row], reserved' \in Nat,
         \A c \in sent' : c.intent # Null => c.parts = 1..PartCount
  PROVE  ClientSound'
<1>1. loop \in [Loops -> LoopRows] /\ row \in LoopRows
  BY DEF ClientSound, LoopsTyped, LoopSound
<1>2. LoopsTyped'
  BY <1>1 DEF LoopsTyped
<1>3. \A k \in Loops : k # l => loop'[k] = IdleLoop
  BY <1>1
<1>4. loop'[l] = row
  BY <1>1
<1>5. \A k \in Loops : LoopSound(loop'[k], s)
  BY <1>3, <1>4, IdleLoopSound
<1>6. \A k, o \in Loops : loop'[k] # IdleLoop /\ loop'[o] # IdleLoop => k = o
  BY <1>3
<1>7. QED
  BY <1>2, <1>5, <1>6 DEF ClientSound, UploadsAreWhole

\* What run does from the top of its loop at a part.
LEMMA ProceedKeepsSound ==
  ASSUME ClientSound, NEW l \in Loops, \A k \in Loops \ {l} : loop[k] = IdleLoop,
         NEW s, SessionSound(s), s.chosen, s.phase # "paused", ~s.resumable,
         NEW from \in Nat \ {0}, s.intent # Null => 1..(from - 1) \subseteq s.parts,
         Proceed(l, s, from), reserved' \in Nat
  PROVE  ClientSound'
<1> DEFINE left == (from..s.total) \ s.parts
<1>1. s \in SessionRows /\ PartCount \in Nat /\ PartCount # 0 /\ RetriesPerPart \in Nat
  BY UploadClientAssumption DEF SessionSound
<1>2. \A c \in sent : c.intent # Null => c.parts = 1..PartCount
  BY DEF ClientSound, UploadsAreWhole
<1>3. CASE from <= s.total /\ (s.cancelled \/ s.pauseRequested)
  <2>1. SessionSound(transition(s, "paused", FALSE))
    BY TransitionsKeepSession DEF Phases
  <2>2. PICK t : SessionSound(t) /\ EndLoop(l, t)
    BY <1>3, <2>1 DEF Proceed
  <2>3. UNCHANGED sent
    BY <1>3 DEF Proceed
  <2>4. QED
    BY <1>2, <2>2, <2>3, IdleLoopSound, OneLoopMoves DEF EndLoop
<1>4. CASE ~(from <= s.total /\ (s.cancelled \/ s.pauseRequested)) /\ left = {}
  <2> DEFINE t == transition(s, "completing", FALSE)
             row == [pc |-> "complete", part |-> 0, attempt |-> 0, intent |-> t.intent]
  <2>1. complete(l, s)
    BY <1>4 DEF Proceed
  <2>2. /\ SessionSound(t) /\ t.intent = s.intent /\ t.total = s.total /\ t.parts = s.parts
        /\ t.chosen = s.chosen /\ t.phase = "completing" /\ t.resumable = FALSE
    <3>1. "completing" \in Phases /\ FALSE \in BOOLEAN
      BY DEF Phases
    <3>2. SessionSound(s) /\ s.chosen
      OBVIOUS
    <3>3. LET made == transition(s, "completing", FALSE)
          IN /\ SessionSound(made) /\ made.phase = "completing" /\ made.resumable = FALSE
             /\ made.intent = s.intent /\ made.total = s.total
             /\ made.parts = s.parts /\ made.chosen = s.chosen
      <4> HIDE DEF t
      <4>1. QED
        BY <3>1, <3>2, TransitionsKeepSession
    <3>4. QED
      BY <3>2, <3>3
  <2>3. SessionSound(t) /\ LoopSound(row, t)
    BY <2>2 DEF SessionSound, LoopSound, LoopRows, SessionRows
  <2>4. s.intent # Null => s.parts = 1..PartCount
    <3> SUFFICES ASSUME s.intent # Null PROVE s.parts = 1..PartCount
      OBVIOUS
    <3>1. s.total = PartCount /\ 1..(from - 1) \subseteq s.parts
      BY DEF SessionSound
    <3>2. s.parts \in SUBSET (1..PartCount)
      BY <1>1 DEF SessionRows
    <3>3. \A p \in 1..PartCount : p \in s.parts
      BY <1>1, <1>4, <3>1
    <3>4. QED
      BY <3>2, <3>3
  <2>5. \A c \in sent' : c.intent # Null => c.parts = 1..PartCount
    BY <1>2, <2>1, <2>4 DEF complete
  <2>6. session' = t /\ loop' = [loop EXCEPT ![l] = row]
    BY <2>1 DEF complete, Await
  <2> HIDE DEF t, row
  <2>7. QED
    BY <2>3, <2>5, <2>6, OneLoopMoves
<1>5. CASE ~(from <= s.total /\ (s.cancelled \/ s.pauseRequested)) /\ left # {}
  <2> DEFINE row == [pc |-> "sign", part |-> Min(left), attempt |-> 1, intent |-> s.intent]
  <2>1. session' = s /\ loop' = [loop EXCEPT ![l] = row] /\ UNCHANGED sent
    BY <1>5 DEF Proceed, Await
  <2>2. s.total = PartCount /\ left \in SUBSET Nat
    <3>1. s.total \in {0, PartCount}
      BY <1>1 DEF SessionRows
    <3>2. QED
      BY <1>1, <1>5, <3>1
  <2>3. Min(left) \in left /\ \A p \in left : Min(left) <= p
    BY <1>5, <2>2, MinOfNaturals
  <2>4. PICK p \in Nat : p = Min(left)
    BY <2>2, <2>3
  <2>5. p \in 1..PartCount
    BY <1>1, <2>2, <2>3, <2>4
  <2>6. s.intent # Null => 1..(p - 1) \subseteq s.parts
    <3> SUFFICES ASSUME s.intent # Null, NEW q \in 1..(p - 1) PROVE q \in s.parts
      OBVIOUS
    <3>1. q < p /\ q \in Nat /\ q <= PartCount
      BY <1>1, <2>4, <2>5
    <3>2. CASE q < from
      BY <3>1, <3>2
    <3>3. CASE from <= q
      BY <1>1, <2>2, <2>3, <2>4, <3>1, <3>3
    <3>4. QED
      BY <3>1, <3>2, <3>3
  <2>7. s.intent \in Nat \cup {Null}
    BY <1>1 DEF SessionRows
  <2>8. LoopSound(row, s)
    BY <2>4, <2>5, <2>6, <2>7 DEF LoopSound, LoopRows
  <2> HIDE DEF row
  <2>9. QED
    BY <1>2, <2>1, <2>8, OneLoopMoves
<1>6. QED
  BY <1>3, <1>4, <1>5

\* A loop at work is the only one.
LEMMA LoopIsAlone ==
  ASSUME ClientSound, NEW l \in Loops, loop[l].pc # "idle"
  PROVE  /\ \A k \in Loops \ {l} : loop[k] = IdleLoop
         /\ session.chosen /\ session.phase # "paused" /\ ~session.resumable
         /\ loop[l] \in LoopRows
  BY DEF ClientSound, UploadsAreWhole, LoopSound, IdleLoop

\* Where Resume is offered, or nothing was chosen yet, no loop is at work.
LEMMA NoLoopWhenOffered ==
  ASSUME ClientSound, ResumeOffered \/ ~session.chosen
  PROVE  \A k \in Loops : loop[k] = IdleLoop
  BY DEF ClientSound, LoopSound, ResumeOffered

\* The end of a loop, in whatever phase.
LEMMA EndKeepsSound ==
  ASSUME ClientSound, NEW l \in Loops, loop[l].pc # "idle", NEW s, SessionSound(s),
         EndLoop(l, s), UNCHANGED <<reserved, sent>>
  PROVE  ClientSound'
<1>1. \A k \in Loops \ {l} : loop[k] = IdleLoop
  BY LoopIsAlone
<1>2. reserved' \in Nat /\ \A c \in sent' : c.intent # Null => c.parts = 1..PartCount
  BY DEF ClientSound, LoopsTyped, UploadsAreWhole
<1>3. QED
  BY <1>1, <1>2, IdleLoopSound, OneLoopMoves DEF EndLoop

LEMMA PartFailedKeepsSound ==
  ASSUME ClientSound, NEW l \in Loops, loop[l].pc # "idle", NEW s, SessionSound(s), s.chosen,
         PartFailed(l, s), UNCHANGED <<reserved, sent>>
  PROVE  ClientSound'
<1>1. SessionSound(transition(s, "paused", FALSE))
  BY TransitionsKeepSession DEF Phases
<1>2. QED
  BY <1>1, EndKeepsSound DEF PartFailed

LEMMA NextAttemptKeepsSound ==
  ASSUME ClientSound, NEW l \in Loops, loop[l].pc \in {"sign", "put"}, NextAttempt(l),
         UNCHANGED reserved
  PROVE  ClientSound'
<1>1. SessionSound(session) /\ LoopSound(loop[l], session)
  BY DEF ClientSound
<1>2. CASE PartFailed(l, transition(session, "error", TRUE)) \/ PartFailed(l, session)
  <2>0. session.chosen
    BY LoopIsAlone
  <2>1. /\ SessionSound(transition(session, "error", TRUE)) /\ UNCHANGED sent
        /\ transition(session, "error", TRUE).chosen
    <3>1. /\ SessionSound(transition(session, "error", TRUE))
          /\ transition(session, "error", TRUE).chosen
      <4>1. "error" \in Phases /\ TRUE \in BOOLEAN /\ SessionSound(session)
        BY <1>1 DEF Phases
      <4>2. QED
        BY <2>0, <4>1, TransitionsKeepSession
    <3>2. QED
      BY <3>1 DEF NextAttempt
  <2>2. QED
    BY <1>1, <1>2, <2>0, <2>1, PartFailedKeepsSound
<1>3. CASE Await(l, session, "sign", loop[l].part, loop[l].attempt + 1)
  <2> DEFINE row == [pc |-> "sign", part |-> loop[l].part, attempt |-> loop[l].attempt + 1,
                     intent |-> session.intent]
  <2>1. LoopSound(row, session)
    <3>1. loop[l].attempt + 1 \in Nat /\ session.intent \in Nat \cup {Null}
      BY <1>1 DEF LoopSound, LoopRows, SessionSound, SessionRows
    <3>2. QED
      BY <1>1, <3>1 DEF LoopSound, LoopRows
  <2>2. session' = session /\ loop' = [loop EXCEPT ![l] = row] /\ UNCHANGED sent
    BY <1>3 DEF Await, NextAttempt
  <2>3. \A k \in Loops \ {l} : loop[k] = IdleLoop
    BY LoopIsAlone
  <2>4. reserved' \in Nat /\ \A c \in sent' : c.intent # Null => c.parts = 1..PartCount
    BY <2>2 DEF ClientSound, LoopsTyped, UploadsAreWhole
  <2> HIDE DEF row
  <2>5. QED
    BY <1>1, <2>1, <2>2, <2>3, <2>4, OneLoopMoves
<1>4. QED
  BY <1>2, <1>3 DEF NextAttempt

\* The button of a file, and Resume without an intent.
LEMMA StartKeepsSound ==
  ASSUME ClientSound, NEW l \in Loops, \A k \in Loops : loop[k] = IdleLoop,
         NEW s, SessionSound(s), s.chosen, start(l, s), UNCHANGED <<reserved, sent>>
  PROVE  ClientSound'
<1> DEFINE t == transition([s EXCEPT !.cancelled = FALSE, !.pauseRequested = FALSE],
                           "reserving", FALSE)
           row == [pc |-> "reserve", part |-> 0, attempt |-> 0, intent |-> t.intent]
<1>1. SessionSound([s EXCEPT !.cancelled = FALSE, !.pauseRequested = FALSE])
  BY DEF SessionSound, SessionRows
<1>2. SessionSound(t)
  BY <1>1, TransitionsKeepSession DEF Phases
<1>3. t.chosen /\ t.phase = "reserving" /\ ~t.resumable /\ t.intent \in Nat \cup {Null}
  BY DEF transition, SessionSound, SessionRows
<1>4. LoopSound(row, t)
  BY <1>3 DEF LoopSound, LoopRows
<1>5. session' = t /\ loop' = [loop EXCEPT ![l] = row]
  BY DEF start, Await
<1>6. reserved' \in Nat /\ \A c \in sent' : c.intent # Null => c.parts = 1..PartCount
  BY DEF ClientSound, LoopsTyped, UploadsAreWhole
<1> HIDE DEF t, row
<1>7. QED
  BY <1>2, <1>4, <1>5, <1>6, OneLoopMoves

\* Whatever loop is at work goes on beside a session that keeps the intent and
\* the parts, or loses the intent.
LEMMA ControlsKeepSound ==
  ASSUME ClientSound, NEW s, SessionSound(s), session' = s, UNCHANGED <<loop, reserved, sent>>,
         s.chosen = session.chosen,
         session.phase # "paused" /\ ~session.resumable => s.phase # "paused" /\ ~s.resumable,
         s.intent = Null \/ (s.intent = session.intent /\ s.parts = session.parts)
  PROVE  ClientSound'
<1>1. \A l \in Loops : LoopSound(loop[l], session)
  BY DEF ClientSound
<1>2. \A l \in Loops : LoopSound(loop[l], s)
  BY <1>1 DEF LoopSound
<1>3. QED
  BY <1>2 DEF ClientSound, LoopsTyped, UploadsAreWhole

LEMMA ClearedSession ==
  ASSUME NEW s, SessionSound(s)
  PROVE  /\ SessionSound(Cleared(s)) /\ Cleared(s).intent = Null
         /\ Cleared(s).chosen = s.chosen
         /\ Cleared(s).phase = "selecting" /\ ~Cleared(s).resumable
<1>1. SessionSound([s EXCEPT !.intent = Null, !.parts = {}])
  BY DEF SessionSound, SessionRows
<1>2. LET t == [s EXCEPT !.intent = Null, !.parts = {}]
      IN t.intent = Null /\ t.chosen = s.chosen
  BY DEF SessionSound, SessionRows
<1>3. "selecting" \in Phases /\ FALSE \in BOOLEAN
  BY DEF Phases
<1>4. LET t == [s EXCEPT !.intent = Null, !.parts = {}]
          c == transition(t, "selecting", FALSE)
      IN /\ SessionSound(c) /\ c.phase = "selecting" /\ c.resumable = FALSE
         /\ c.intent = t.intent /\ c.chosen = t.chosen
  BY <1>1, <1>3, TransitionsKeepSession, Zenon
<1>5. QED
  BY <1>2, <1>4 DEF Cleared

LEMMA ClearKeepsSound ==
  ASSUME ClientSound, NEW s, SessionSound(s), s.chosen = session.chosen,
         session' = Cleared(s), UNCHANGED <<loop, reserved, sent>>
  PROVE  ClientSound'
<1>1. PICK c : c = Cleared(s)
  OBVIOUS
<1>2. /\ SessionSound(c) /\ c.intent = Null /\ c.chosen = session.chosen
      /\ c.phase = "selecting" /\ ~c.resumable
  BY <1>1, ClearedSession
<1>3. session' = c
  BY <1>1
<1>4. c.phase # "paused"
  BY <1>2
<1>5. QED
  BY <1>2, <1>3, <1>4, ControlsKeepSound

LEMMA AnswersKeepSound ==
  ASSUME ClientSound, NEW l \in Loops,
         ReserveAnswered(l) \/ SignAnswered(l) \/ PutAnswered(l) \/ CompleteAnswered(l)
  PROVE  ClientSound'
<1>1. /\ loop[l].pc # "idle" /\ loop[l] \in LoopRows
      /\ \A k \in Loops \ {l} : loop[k] = IdleLoop
      /\ session.chosen /\ session.phase # "paused" /\ ~session.resumable
  BY LoopIsAlone DEF ReserveAnswered, SignAnswered, PutAnswered, CompleteAnswered
<1>2. SessionSound(session) /\ LoopSound(loop[l], session) /\ reserved \in Nat
  BY DEF ClientSound, LoopsTyped
<1>3. /\ SessionSound(transition(session, "error", FALSE))
      /\ SessionSound(transition(session, "completed", FALSE))
      /\ transition(session, "error", FALSE).chosen
  BY <1>1, <1>2, TransitionsKeepSession DEF Phases
<1>4. CASE ReserveAnswered(l)
  <2>1. CASE /\ reserved' = reserved + 1
             /\ run(l, [session EXCEPT !.intent = reserved + 1, !.total = PartCount])
    <3> DEFINE t == [session EXCEPT !.intent = reserved + 1, !.total = PartCount]
               s == transition(t, "uploading", FALSE)
    <3>1. SessionSound(t) /\ t.chosen
      <4>1. \A n \in Nat : LET u == [session EXCEPT !.intent = n, !.total = PartCount]
                           IN SessionSound(u) /\ u.chosen
        BY <1>1, <1>2 DEF SessionSound, SessionRows
      <4>2. reserved + 1 \in Nat
        BY <1>2
      <4>3. QED
        BY <4>1, <4>2
    <3>2. SessionSound(s) /\ s.chosen /\ s.phase = "uploading" /\ ~s.resumable
      <4>1. "uploading" \in Phases
        BY DEF Phases
      <4>2. QED
        BY <3>1, <4>1, TransitionsKeepSession
    <3>3. Proceed(l, s, 1) /\ reserved' \in Nat
      <4>1. Proceed(l, s, 1)
        BY <2>1, Zenon DEF run
      <4>2. reserved' \in Nat
        BY <1>2, <2>1
      <4>3. QED
        BY <4>1, <4>2
    <3> HIDE DEF s
    <3>4. s.intent # Null => 1..(1 - 1) \subseteq s.parts
      OBVIOUS
    <3>5. QED
      BY <1>1, <3>2, <3>3, <3>4, ProceedKeepsSound
  <2>2. CASE /\ \/ EndLoop(l, transition(session, "error", FALSE))
                \/ EndLoop(l, session)
             /\ UNCHANGED <<reserved, sent>>
    BY <1>1, <1>2, <1>3, <2>2, EndKeepsSound
  <2>3. QED
    BY <1>4, <2>1, <2>2 DEF ReserveAnswered
<1>5. CASE SignAnswered(l)
  <2>1. CASE loop' = [loop EXCEPT ![l].pc = "put"] /\ UNCHANGED <<session, sent>>
    <3> DEFINE row == [loop[l] EXCEPT !.pc = "put"]
    <3>1. LoopSound(row, session)
      BY <1>1, <1>2, <1>5 DEF LoopSound, LoopRows, SignAnswered
    <3>2. loop' = [loop EXCEPT ![l] = row]
      BY <2>1
    <3>3. reserved' \in Nat /\ \A c \in sent' : c.intent # Null => c.parts = 1..PartCount
      BY <1>5, <2>1 DEF SignAnswered, ClientSound, LoopsTyped, UploadsAreWhole
    <3> HIDE DEF row
    <3>4. QED
      BY <1>1, <1>2, <2>1, <3>1, <3>2, <3>3, OneLoopMoves
  <2>2. CASE PartFailed(l, transition(session, "error", FALSE)) /\ UNCHANGED sent
    BY <1>1, <1>3, <1>5, <2>2, PartFailedKeepsSound DEF SignAnswered
  <2>3. CASE NextAttempt(l)
    BY <1>5, <2>3, NextAttemptKeepsSound DEF SignAnswered
  <2>4. QED
    BY <1>5, <2>1, <2>2, <2>3 DEF SignAnswered
<1>6. CASE PutAnswered(l)
  <2>1. CASE LET s == [session EXCEPT !.parts = @ \cup {loop[l].part}]
             IN Proceed(l, s, loop[l].part + 1)
    <3> DEFINE s == [session EXCEPT !.parts = @ \cup {loop[l].part}]
    <3>1. PICK p \in 1..PartCount : p = loop[l].part
      BY <1>2, <1>6 DEF LoopSound, PutAnswered
    <3>2. /\ SessionSound(s) /\ s.intent = session.intent
          /\ s.chosen /\ s.phase # "paused" /\ ~s.resumable
          /\ s.parts = session.parts \cup {p}
      BY <1>1, <1>2, <3>1 DEF SessionSound, SessionRows
    <3>3. s.intent # Null => 1..((p + 1) - 1) \subseteq s.parts
      BY <1>2, <1>6, <3>1, <3>2 DEF LoopSound, PutAnswered
    <3>4. Proceed(l, s, p + 1) /\ reserved' \in Nat
      BY <1>2, <1>6, <2>1, <3>1 DEF PutAnswered
    <3> HIDE DEF s
    <3>5. p + 1 \in Nat \ {0}
      BY <3>1, UploadClientAssumption
    <3>6. QED
      BY <1>1, <3>2, <3>3, <3>4, <3>5, ProceedKeepsSound
  <2>2. CASE PartFailed(l, transition(session, "error", FALSE)) /\ UNCHANGED sent
    BY <1>1, <1>3, <1>6, <2>2, PartFailedKeepsSound DEF PutAnswered
  <2>3. CASE NextAttempt(l)
    BY <1>6, <2>3, NextAttemptKeepsSound DEF PutAnswered
  <2>4. QED
    BY <1>6, <2>1, <2>2, <2>3 DEF PutAnswered
<1>7. CASE CompleteAnswered(l)
  BY <1>1, <1>2, <1>3, <1>7, EndKeepsSound DEF CompleteAnswered
<1>8. QED
  BY <1>4, <1>5, <1>6, <1>7

LEMMA ButtonsKeepSound ==
  ASSUME ClientSound,
         pause \/ cancel \/ AbortAnswered \/ \E l \in Loops : startUpload(l) \/ resume(l)
  PROVE  ClientSound'
<1>1. SessionSound(session)
  BY DEF ClientSound
<1>2. CASE pause
  <2> DEFINE s == [session EXCEPT !.pauseRequested = TRUE]
  <2>1. /\ SessionSound(s) /\ s.chosen = session.chosen /\ s.phase = session.phase
        /\ s.resumable = session.resumable /\ s.intent = session.intent
        /\ s.parts = session.parts
    BY <1>1 DEF SessionSound, SessionRows
  <2>2. session' = s /\ UNCHANGED <<loop, reserved, sent>>
    BY <1>2 DEF pause
  <2> HIDE DEF s
  <2>3. QED
    BY <2>1, <2>2, ControlsKeepSound
<1>3. CASE AbortAnswered
  <2>1. session' = Cleared(session) /\ UNCHANGED <<loop, reserved, sent>>
    BY <1>3 DEF AbortAnswered
  <2>2. QED
    BY <1>1, <2>1, ClearKeepsSound
<1>4. CASE cancel
  <2> DEFINE s == [session EXCEPT !.cancelled = TRUE]
  <2>1. /\ SessionSound(s) /\ s.chosen = session.chosen /\ s.phase = session.phase
        /\ s.resumable = session.resumable /\ s.intent = session.intent
        /\ s.parts = session.parts
    BY <1>1 DEF SessionSound, SessionRows
  <2>2. session' = s \/ session' = Cleared(s)
    BY <1>4 DEF cancel
  <2>3. UNCHANGED <<loop, reserved, sent>>
    BY <1>4 DEF cancel
  <2> HIDE DEF s
  <2>4. CASE session' = s
    BY <2>1, <2>3, <2>4, ControlsKeepSound
  <2>5. CASE session' = Cleared(s)
    BY <2>1, <2>3, <2>5, ClearKeepsSound
  <2>6. QED
    BY <2>2, <2>4, <2>5
<1>5. ASSUME NEW l \in Loops, startUpload(l)
      PROVE  ClientSound'
  <2> DEFINE s == [session EXCEPT !.chosen = TRUE]
  <2>1. SessionSound(s) /\ s.chosen
    BY <1>1 DEF SessionSound, SessionRows
  <2>2. start(l, s) /\ UNCHANGED <<reserved, sent>> /\ ~session.chosen
    BY <1>5 DEF startUpload
  <2> HIDE DEF s
  <2>3. QED
    BY <2>1, <2>2, NoLoopWhenOffered, StartKeepsSound
<1>6. ASSUME NEW l \in Loops, resume(l)
      PROVE  ClientSound'
  <2> DEFINE s == [session EXCEPT !.pauseRequested = FALSE]
  <2>1. SessionSound(s) /\ s.chosen = session.chosen
    BY <1>1 DEF SessionSound, SessionRows
  <2>2. ResumeOffered /\ \A k \in Loops : loop[k] = IdleLoop
    BY <1>6, NoLoopWhenOffered DEF resume
  <2>3. session.chosen
    BY <1>1, <2>2 DEF SessionSound, ResumeOffered
  <2>4. CASE start(l, s) /\ UNCHANGED <<reserved, sent>>
    BY <2>1, <2>2, <2>3, <2>4, StartKeepsSound
  <2>5. CASE run(l, s) /\ UNCHANGED reserved
    <3> DEFINE t == transition(s, "uploading", FALSE)
    <3>1. "uploading" \in Phases
      BY DEF Phases
    <3>2. SessionSound(t) /\ t.chosen /\ t.phase = "uploading" /\ ~t.resumable
      BY <2>1, <2>3, <3>1, TransitionsKeepSession
    <3>3. Proceed(l, t, 1) /\ reserved' \in Nat
      BY <2>5 DEF run, ClientSound, LoopsTyped
    <3> HIDE DEF t
    <3>4. t.intent # Null => 1..(1 - 1) \subseteq t.parts
      OBVIOUS
    <3>5. QED
      BY <2>2, <3>2, <3>3, <3>4, ProceedKeepsSound
  <2>6. QED
    BY <1>6, <2>4, <2>5 DEF resume
<1>7. QED
  BY <1>2, <1>3, <1>4, <1>5, <1>6

\* However pauses, resumes and cancellations fall between the answers of the
\* server (upload-client.ts run, uploadPart, complete), one loop works on the
\* session at a time and no completion of a reserved intent leaves out a part.
THEOREM CompletionsListEveryPart == UploadClientSpec => []UploadsAreWhole
<1>1. UploadClientInit => ClientSound
  <2> SUFFICES ASSUME UploadClientInit PROVE ClientSound
    OBVIOUS
  <2>1. SessionSound(session)
    BY DEF UploadClientInit, SessionSound, SessionRows, Phases
  <2>2. \A l \in Loops : loop[l] = IdleLoop
    BY DEF UploadClientInit
  <2>3. LoopsTyped
    BY DEF UploadClientInit, LoopsTyped, IdleLoop, LoopRows
  <2>4. UploadsAreWhole
    BY <2>2 DEF UploadClientInit, UploadsAreWhole
  <2>5. QED
    BY <2>1, <2>2, <2>3, <2>4, IdleLoopSound DEF ClientSound
<1>2. ClientSound /\ [UploadClientNext]_uploadClientVars => ClientSound'
  <2> SUFFICES ASSUME ClientSound, [UploadClientNext]_uploadClientVars PROVE ClientSound'
    OBVIOUS
  <2>1. CASE UNCHANGED uploadClientVars
    BY <2>1 DEF uploadClientVars, ClientSound, LoopsTyped, UploadsAreWhole
  <2>2. QED
    BY <2>1, AnswersKeepSound, ButtonsKeepSound DEF UploadClientNext
<1>3. ClientSound => UploadsAreWhole
  BY DEF ClientSound
<1>4. QED
  BY <1>1, <1>2, <1>3, PTL DEF UploadClientSpec

-----------------------------------------------------------------------------
(* AnalysisRun.  A job is completed by the transaction that publishes, and *)
(* every file at the provider is in the hands of some attempt, unless one  *)
(* died or its deletion was refused.                                       *)

Outcomes ==
  {"none", "publish", "lost", "INVALID_INPUT", "SEMANTIC_OUTPUT", GeminiJobFailure("file_failed")}
    \cup UploadRefusals \cup AwaitRefusals \cup ModelRefusals

AnalyserRows ==
  [pc : {"idle", "upload", "record", "await", "request", "repair", "refuse", "publish", "finally",
         "settle"},
   asset : Assets, attempt : Nat, file : Nat, repaired : BOOLEAN, then : Outcomes]

AnalysisRows ==
  [stage : {"QUEUED", "UPLOADING", "AWAITING_FILE", "REQUESTING", "REPAIRING", "PUBLISHED"},
   file : Nat, repair : BOOLEAN]

JobRecords ==
  [state : {"ABSENT", "QUEUED", "PROCESSING", "SUCCEEDED", "FAILED_ATTENTION", "CANCELLED"},
   attempt : Nat, cancel : BOOLEAN, expired : BOOLEAN]

AnalysisTyped ==
  /\ asset \in Assets /\ filesMade \in Nat
  /\ analysisJob \in [Assets -> JobRecords] /\ analysisRow \in [Assets -> AnalysisRows]
  /\ analyser \in [Analysers -> AnalyserRows]
  /\ analyses \subseteq Assets

\* From the upload to the finally block an attempt answers for its file.
Responsible(v) ==
  v.pc \in {"record", "await", "request", "repair", "refuse", "publish", "finally"}

FilesHeld ==
  leaked \/ \A f \in providerFiles : \E w \in Analysers :
                                       Responsible(analyser[w]) /\ analyser[w].file = f

AnalysisSound == AnalysisTyped /\ AnalysedOnce /\ FilesHeld

LEMMA AnalysisSoundStarts == AnalysisInit => AnalysisSound
<1> SUFFICES ASSUME AnalysisInit PROVE AnalysisSound
  OBVIOUS
<1>1. 1 \in Assets /\ 0 \notin Assets
  BY AnalysisAssumption DEF Assets
<1>2. AbsentJob \in JobRecords /\ AbsentJob.state # "SUCCEEDED"
  BY DEF AbsentJob, JobRecords
<1>3. [stage |-> "QUEUED", file |-> 0, repair |-> FALSE] \in AnalysisRows
  BY DEF AnalysisRows
<1>4. IdleAnalyser \in AnalyserRows
  BY <1>1 DEF IdleAnalyser, AnalyserRows, Outcomes
<1>5. AnalysisTyped
  BY <1>1, <1>2, <1>3, <1>4 DEF AnalysisInit, AnalysisTyped
<1>6. AnalysedOnce
  BY <1>2 DEF AnalysisInit, AnalysedOnce
<1>7. FilesHeld
  BY DEF AnalysisInit, FilesHeld
<1>8. QED
  BY <1>5, <1>6, <1>7 DEF AnalysisSound

\* An attempt that moves keeps its file in sight while it answers for it.
LEMMA OneAnalyserMoves ==
  ASSUME AnalysisSound, NEW w \in Analysers, NEW row \in AnalyserRows,
         analyser' = [analyser EXCEPT ![w] = row],
         \/ leaked'
         \/ /\ leaked' = leaked /\ providerFiles' \subseteq providerFiles
            /\ \/ ~Responsible(analyser[w])
               \/ Responsible(row) /\ row.file = analyser[w].file
               \/ analyser[w].file \notin providerFiles'
  PROVE  analyser' \in [Analysers -> AnalyserRows] /\ FilesHeld'
<1>1. analyser \in [Analysers -> AnalyserRows]
  BY DEF AnalysisSound, AnalysisTyped
<1>2. analyser' \in [Analysers -> AnalyserRows] /\ analyser'[w] = row
      /\ \A v \in Analysers : v # w => analyser'[v] = analyser[v]
  BY <1>1
<1>3. FilesHeld'
  <2> SUFFICES ASSUME ~leaked', NEW f \in providerFiles'
               PROVE  \E v \in Analysers : Responsible(analyser'[v]) /\ analyser'[v].file = f
    BY DEF FilesHeld, Responsible
  <2>1. f \in providerFiles /\ ~leaked
    OBVIOUS
  <2>2. PICK v \in Analysers : Responsible(analyser[v]) /\ analyser[v].file = f
    BY <2>1 DEF AnalysisSound, FilesHeld
  <2>3. CASE v # w
    BY <1>2, <2>2, <2>3
  <2>4. CASE v = w
    BY <1>2, <2>2, <2>4
  <2>5. QED
    BY <2>3, <2>4
<1>4. QED
  BY <1>2, <1>3

\* The steps that only move an attempt, or write its stage.
LEMMA AnAttemptStepKeepsSound ==
  ASSUME AnalysisSound, NEW w \in Analysers, NEW row \in AnalyserRows,
         analyser' = [analyser EXCEPT ![w] = row],
         analysisRow' \in [Assets -> AnalysisRows],
         UNCHANGED <<asset, analysisJob, filesMade, analyses, current>>,
         \/ leaked'
         \/ /\ leaked' = leaked /\ providerFiles' \subseteq providerFiles
            /\ \/ ~Responsible(analyser[w])
               \/ Responsible(row) /\ row.file = analyser[w].file
               \/ analyser[w].file \notin providerFiles'
  PROVE  AnalysisSound'
<1>1. analyser' \in [Analysers -> AnalyserRows] /\ FilesHeld'
  BY OneAnalyserMoves
<1>2. AnalysisTyped'
  BY <1>1 DEF AnalysisSound, AnalysisTyped
<1>3. AnalysedOnce'
  BY DEF AnalysisSound, AnalysedOnce
<1>4. QED
  BY <1>1, <1>2, <1>3 DEF AnalysisSound

LEMMA LeavingRow ==
  ASSUME NEW r \in AnalyserRows, NEW then \in Outcomes
  PROVE  LET row == [r EXCEPT !.pc = "finally", !.then = then]
         IN row \in AnalyserRows /\ row.file = r.file /\ Responsible(row)
  BY DEF AnalyserRows, Responsible

LEMMA UploadedRow ==
  ASSUME NEW r \in AnalyserRows, NEW n \in Nat
  PROVE  LET row == [r EXCEPT !.pc = "record", !.file = n]
         IN row \in AnalyserRows /\ row.file = n /\ Responsible(row)
  BY DEF AnalyserRows, Responsible

LEMMA StageIsWritten ==
  ASSUME AnalysisSound, NEW w \in Analysers,
         NEW stage \in {"UPLOADING", "AWAITING_FILE", "REQUESTING"},
         Stage(analyser[w].asset, stage)
  PROVE  analysisRow' \in [Assets -> AnalysisRows]
<1>1. PICK a \in Assets : a = analyser[w].asset
  BY DEF AnalysisSound, AnalysisTyped, AnalyserRows
<1>2. analysisRow \in [Assets -> AnalysisRows]
  BY DEF AnalysisSound, AnalysisTyped
<1>3. [analysisRow[a] EXCEPT !.stage = stage] \in AnalysisRows
  BY <1>2 DEF AnalysisRows
<1>4. analysisRow' = [analysisRow EXCEPT ![a] = [analysisRow[a] EXCEPT !.stage = stage]]
  BY <1>1 DEF Stage
<1>5. QED
  BY <1>2, <1>3, <1>4

\* Go and Leave from a place where the attempt answers for its file, or for none.
LEMMA MovesKeepSound ==
  ASSUME AnalysisSound, NEW w \in Analysers,
         NEW pc \in {"await", "request", "repair", "refuse", "publish"}, NEW then \in Outcomes,
         Go(w, pc) \/ Leave(w, then),
         analysisRow' \in [Assets -> AnalysisRows],
         UNCHANGED <<asset, analysisJob, filesMade, analyses, current, leaked, providerFiles>>
  PROVE  AnalysisSound'
<1>1. PICK r \in AnalyserRows : r = analyser[w]
  BY DEF AnalysisSound, AnalysisTyped
<1>2. CASE Go(w, pc)
  <2>1. analyser' = [analyser EXCEPT ![w] = [r EXCEPT !.pc = pc]]
    BY <1>1, <1>2 DEF Go
  <2>2. /\ [r EXCEPT !.pc = pc] \in AnalyserRows
        /\ [r EXCEPT !.pc = pc].file = r.file /\ Responsible([r EXCEPT !.pc = pc])
    <3> DEFINE row == [r EXCEPT !.pc = pc]
    <3>1. row \in AnalyserRows /\ row.file = r.file /\ row.pc = pc
      BY DEF AnalyserRows
    <3>2. Responsible(row)
      <4> HIDE DEF row
      <4>1. QED
        BY <3>1 DEF Responsible
    <3>3. QED
      BY <3>1, <3>2
  <2>3. QED
    BY <1>1, <2>1, <2>2, AnAttemptStepKeepsSound
<1>3. CASE Leave(w, then)
  <2> DEFINE row == [r EXCEPT !.pc = "finally", !.then = then]
  <2>1. analyser' = [analyser EXCEPT ![w] = row]
    BY <1>1, <1>3 DEF Leave
  <2>2. row \in AnalyserRows /\ row.file = r.file /\ Responsible(row)
    BY LeavingRow
  <2>3. QED
    BY <1>1, <2>1, <2>2, AnAttemptStepKeepsSound
<1>4. QED
  BY <1>2, <1>3

LEMMA JobsKept ==
  ASSUME NEW row \in JobRecords, NEW n \in Nat, NEW class
  PROVE  /\ Enqueue(row) \in JobRecords /\ Claim(row) \in JobRecords
         /\ Complete(row) \in JobRecords /\ RecoverLease(row) \in JobRecords
         /\ SettleFailure(row, n, class) \in JobRecords
<1>1. Enqueue(row) \in JobRecords
  BY DEF JobRecords, Enqueue
<1>2. Claim(row) \in JobRecords
  <2>1. PICK k \in Nat : k = row.attempt + 1
    BY DEF JobRecords
  <2>2. [row EXCEPT !.state = "PROCESSING", !.attempt = k] \in JobRecords
    BY DEF JobRecords
  <2>3. QED
    BY <2>1, <2>2 DEF Claim
<1>3. Complete(row) \in JobRecords
  BY DEF JobRecords, Complete
<1>4. RecoverLease(row) \in JobRecords
  BY DEF JobRecords, RecoverLease
<1>5. SettleFailure(row, n, class) \in JobRecords
  BY DEF JobRecords, SettleFailure, RetryLater, GiveUp
<1>6. QED
  BY <1>1, <1>2, <1>3, <1>4, <1>5

\* No step but the one that publishes takes a job into SUCCEEDED or out of it.
LEMMA SettledAsBefore ==
  ASSUME NEW row \in JobRecords, NEW n \in Nat, NEW class
  PROVE  /\ row.state = "ABSENT" => Enqueue(row).state # "SUCCEEDED"
         /\ Claim(row).state # "SUCCEEDED" /\ Complete(row).state = "SUCCEEDED"
         /\ RecoverLease(row).state # "SUCCEEDED"
         /\ SettleFailure(row, n, class).state = "SUCCEEDED" <=> row.state = "SUCCEEDED"
  BY MaxAttemptsAssumption
  DEF JobRecords, Enqueue, Claim, Complete, RecoverLease, SettleFailure, RetryLater, GiveUp,
      MayContinue, HoldsLease

\* The steps on one job that publish nothing.
LEMMA AJobStepKeepsSound ==
  ASSUME AnalysisSound, NEW a \in Assets, NEW row \in JobRecords,
         analysisJob' = [analysisJob EXCEPT ![a] = row],
         row.state = "SUCCEEDED" <=> analysisJob[a].state = "SUCCEEDED",
         UNCHANGED <<asset, analysisRow, providerFiles, filesMade, analyses, current, leaked>>,
         UNCHANGED analyser
  PROVE  AnalysisSound'
<1>1. analysisJob' \in [Assets -> JobRecords]
  BY DEF AnalysisSound, AnalysisTyped
<1>2. \A b \in Assets : analysisJob'[b].state = "SUCCEEDED" <=> analysisJob[b].state = "SUCCEEDED"
  BY DEF AnalysisSound, AnalysisTyped
<1>3. AnalysisTyped'
  BY <1>1 DEF AnalysisSound, AnalysisTyped
<1>4. AnalysedOnce'
  BY <1>2 DEF AnalysisSound, AnalysedOnce
<1>5. FilesHeld'
  BY DEF AnalysisSound, FilesHeld, Responsible
<1>6. QED
  BY <1>3, <1>4, <1>5 DEF AnalysisSound

LEMMA RequestsKeepSound ==
  ASSUME AnalysisSound,
         RequestPostAnalysis \/ ReplaceAsset \/ \E a \in Assets : RecoverAnalysis(a)
  PROVE  AnalysisSound'
<1>1. CASE RequestPostAnalysis
  <2>1. PICK a \in Assets : a = asset
    BY DEF AnalysisSound, AnalysisTyped
  <2>2. analysisJob[a] \in JobRecords
    BY DEF AnalysisSound, AnalysisTyped
  <2>3. PICK row \in JobRecords : row = Enqueue(analysisJob[a])
    BY <2>2, JobsKept
  <2>4. analysisJob[a].state = "ABSENT" /\ analysisJob' = [analysisJob EXCEPT ![a] = row]
    BY <1>1, <2>1, <2>3 DEF RequestPostAnalysis
  <2>5. row.state # "SUCCEEDED" /\ analysisJob[a].state # "SUCCEEDED"
    BY <2>2, <2>3, <2>4, SettledAsBefore
  <2>6. QED
    BY <1>1, <2>4, <2>5, AJobStepKeepsSound DEF RequestPostAnalysis
<1>2. CASE ReplaceAsset
  <2>1. asset' \in Assets
    BY <1>2, AnalysisAssumption DEF ReplaceAsset, AnalysisSound, AnalysisTyped, Assets
  <2>2. QED
    BY <1>2, <2>1
    DEF ReplaceAsset, AnalysisSound, AnalysisTyped, AnalysedOnce, FilesHeld, Responsible
<1>3. ASSUME NEW a \in Assets, RecoverAnalysis(a) PROVE AnalysisSound'
  <2>1. analysisJob[a] \in JobRecords
    BY DEF AnalysisSound, AnalysisTyped
  <2>2. PICK row \in JobRecords : row = RecoverLease(analysisJob[a])
    BY <2>1, JobsKept
  <2>3. analysisJob[a].state = "PROCESSING" /\ analysisJob' = [analysisJob EXCEPT ![a] = row]
    BY <1>3, <2>2 DEF RecoverAnalysis
  <2>4. row.state # "SUCCEEDED" /\ analysisJob[a].state # "SUCCEEDED"
    BY <2>1, <2>2, <2>3, SettledAsBefore
  <2>5. QED
    BY <1>3, <2>3, <2>4, AJobStepKeepsSound DEF RecoverAnalysis
<1>4. QED
  BY <1>1, <1>2, <1>3

\* A claimed job had no analysis, so there is nothing to adopt.
LEMMA ClaimKeepsSound ==
  ASSUME AnalysisSound, NEW w \in Analysers, NEW a \in Assets, ClaimAnalysis(w, a)
  PROVE  AnalysisSound'
<1>1. analysisJob[a] \in JobRecords /\ analysisRow[a] \in AnalysisRows
  BY DEF AnalysisSound, AnalysisTyped
<1>2. analysisJob[a].state = "QUEUED" /\ a \notin analyses /\ analyser[w].pc = "idle"
  BY DEF ClaimAnalysis, Claimable, AnalysisSound, AnalysedOnce
<1>3. PICK job \in JobRecords : job = Claim(analysisJob[a])
  BY <1>1, JobsKept
<1>4. job.state # "SUCCEEDED" /\ analysisJob' = [analysisJob EXCEPT ![a] = job]
  BY <1>1, <1>2, <1>3, SettledAsBefore DEF ClaimAnalysis
<1>5. PICK n \in Nat : n = analysisJob[a].attempt + 1
  BY <1>1 DEF JobRecords
<1>6. PICK row \in AnalyserRows :
        row = [IdleAnalyser EXCEPT !.pc = IF analysisRow[a].file = 0 THEN "upload" ELSE "await",
                                   !.asset = a, !.attempt = n, !.file = analysisRow[a].file,
                                   !.repaired = analysisRow[a].repair]
  <2>1. PICK pc \in {"upload", "await"} : pc = IF analysisRow[a].file = 0 THEN "upload" ELSE "await"
    OBVIOUS
  <2>2. analysisRow[a].file \in Nat /\ analysisRow[a].repair \in BOOLEAN
    BY <1>1 DEF AnalysisRows
  <2>3. \A r \in AnalyserRows, file \in Nat, repair \in BOOLEAN :
          [r EXCEPT !.pc = pc, !.asset = a, !.attempt = n, !.file = file, !.repaired = repair]
            \in AnalyserRows
    BY DEF AnalyserRows
  <2>4. IdleAnalyser \in AnalyserRows
    BY AnalysisAssumption DEF IdleAnalyser, AnalyserRows, Outcomes, Assets
  <2>5. QED
    BY <2>1, <2>2, <2>3, <2>4
<1>7. analyser' = [analyser EXCEPT ![w] = row]
  BY <1>2, <1>5, <1>6 DEF ClaimAnalysis
<1>8. UNCHANGED <<asset, analysisRow, providerFiles, filesMade, analyses, current, leaked>>
  BY DEF ClaimAnalysis
<1>9. analyser' \in [Analysers -> AnalyserRows] /\ FilesHeld'
  BY <1>2, <1>7, <1>8, OneAnalyserMoves DEF Responsible
<1>10. /\ analysisJob' \in [Assets -> JobRecords]
       /\ \A b \in Assets :
            analysisJob'[b].state = "SUCCEEDED" <=> analysisJob[b].state = "SUCCEEDED"
  BY <1>2, <1>4 DEF AnalysisSound, AnalysisTyped
<1>11. AnalysisTyped'
  BY <1>8, <1>9, <1>10 DEF AnalysisSound, AnalysisTyped
<1>12. AnalysedOnce'
  BY <1>8, <1>10 DEF AnalysisSound, AnalysedOnce
<1>13. QED
  BY <1>9, <1>11, <1>12 DEF AnalysisSound

LEMMA UploadKeepsSound ==
  ASSUME AnalysisSound, NEW w \in Analysers, UploadSource(w)
  PROVE  AnalysisSound'
<1>1. PICK n \in Nat : n = filesMade + 1
  BY DEF AnalysisSound, AnalysisTyped
<1>2. PICK r \in AnalyserRows : r = analyser[w]
  BY DEF AnalysisSound, AnalysisTyped
<1>3. PICK row \in AnalyserRows :
        row = [r EXCEPT !.pc = "record", !.file = n] /\ row.file = n /\ Responsible(row)
  BY UploadedRow
<1>4. /\ analyser' = [analyser EXCEPT ![w] = row] /\ filesMade' = n
      /\ providerFiles' = providerFiles \cup {n}
      /\ UNCHANGED <<asset, analysisJob, analyses, current, leaked>> /\ analyser[w].pc = "upload"
  BY <1>1, <1>2, <1>3 DEF UploadSource
<1>5. analysisRow' \in [Assets -> AnalysisRows]
  BY StageIsWritten DEF UploadSource
<1>6. /\ analyser' \in [Analysers -> AnalyserRows] /\ analyser'[w] = row
      /\ \A v \in Analysers : v # w => analyser'[v] = analyser[v]
  BY <1>4 DEF AnalysisSound, AnalysisTyped
<1>7. AnalysisTyped'
  BY <1>4, <1>5, <1>6 DEF AnalysisSound, AnalysisTyped
<1>8. AnalysedOnce'
  BY <1>4 DEF AnalysisSound, AnalysedOnce
<1>9. FilesHeld'
  <2> SUFFICES ASSUME ~leaked', NEW f \in providerFiles'
               PROVE  \E v \in Analysers : Responsible(analyser'[v]) /\ analyser'[v].file = f
    BY DEF FilesHeld, Responsible
  <2>1. CASE f = n
    BY <1>3, <1>6, <2>1
  <2>2. CASE f \in providerFiles
    <3>1. PICK v \in Analysers : Responsible(analyser[v]) /\ analyser[v].file = f
      BY <1>4, <2>2 DEF AnalysisSound, FilesHeld
    <3>2. v # w
      BY <1>4, <3>1 DEF Responsible
    <3>3. QED
      BY <1>6, <3>1, <3>2
  <2>3. QED
    BY <1>4, <2>1, <2>2
<1>10. QED
  BY <1>7, <1>8, <1>9 DEF AnalysisSound

LEMMA OtherStagesAreWritten ==
  ASSUME AnalysisSound, NEW w \in Analysers
  PROVE  /\ [analysisRow EXCEPT ![analyser[w].asset].file = 0] \in [Assets -> AnalysisRows]
         /\ [analysisRow EXCEPT ![analyser[w].asset].file = analyser[w].file]
              \in [Assets -> AnalysisRows]
         /\ [analysisRow EXCEPT ![analyser[w].asset] =
               [@ EXCEPT !.stage = "REPAIRING", !.repair = TRUE]] \in [Assets -> AnalysisRows]
<1>1. PICK a \in Assets : a = analyser[w].asset
  BY DEF AnalysisSound, AnalysisTyped, AnalyserRows
<1>2. PICK n \in Nat : n = analyser[w].file
  BY DEF AnalysisSound, AnalysisTyped, AnalyserRows
<1>3. analysisRow \in [Assets -> AnalysisRows] /\ analysisRow[a] \in AnalysisRows
  BY DEF AnalysisSound, AnalysisTyped
<1>4. \A k \in Nat : [analysisRow[a] EXCEPT !.file = k] \in AnalysisRows
  BY <1>3 DEF AnalysisRows
<1>5. [analysisRow[a] EXCEPT !.stage = "REPAIRING", !.repair = TRUE] \in AnalysisRows
  BY <1>3 DEF AnalysisRows
<1>6. \A row \in AnalysisRows : [analysisRow EXCEPT ![a] = row] \in [Assets -> AnalysisRows]
  BY <1>3
<1>7. 0 \in Nat
  OBVIOUS
<1>8. QED
  BY <1>1, <1>2, <1>4, <1>5, <1>6, <1>7

LEMMA AttemptsKeepSound ==
  ASSUME AnalysisSound, NEW w \in Analysers,
         \/ RecordProviderFile(w) \/ AwaitFile(w) \/ RefuseAnalysis(w) \/ ReadyToPublish(w)
         \/ LoseAnalysis(w) \/ ProviderFails(w)
         \/ \E valid \in BOOLEAN : RequestAnalysis(w, valid) \/ RepairAnalysis(w, valid)
  PROVE  AnalysisSound'
<1>1. UNCHANGED <<asset, analysisJob, filesMade, analyses, current, leaked, providerFiles>>
  BY DEF RecordProviderFile, AwaitFile, RefuseAnalysis, ReadyToPublish, LoseAnalysis,
     ProviderFails, RequestAnalysis, RepairAnalysis
<1>2. analysisRow \in [Assets -> AnalysisRows]
  BY DEF AnalysisSound, AnalysisTyped
<1>3. analysisRow' \in [Assets -> AnalysisRows]
  <2>1. CASE RecordProviderFile(w)
    BY <2>1, OtherStagesAreWritten DEF RecordProviderFile
  <2>2. CASE AwaitFile(w) \/ RefuseAnalysis(w) \/ \E valid \in BOOLEAN : RequestAnalysis(w, valid)
    <3>1. \E stage \in {"UPLOADING", "AWAITING_FILE", "REQUESTING"} :
            Stage(analyser[w].asset, stage)
      BY <2>2 DEF AwaitFile, RefuseAnalysis, RequestAnalysis
    <3>2. QED
      BY <3>1, StageIsWritten
  <2>3. CASE ReadyToPublish(w) \/ LoseAnalysis(w) \/ ProviderFails(w)
    BY <1>2, <2>3 DEF ReadyToPublish, LoseAnalysis, ProviderFails
  <2>4. CASE \E valid \in BOOLEAN : RepairAnalysis(w, valid)
    BY <2>4, OtherStagesAreWritten DEF RepairAnalysis
  <2>5. QED
    BY <2>1, <2>2, <2>3, <2>4
<1>4. \/ \E pc \in {"await", "request", "repair", "refuse", "publish"} : Go(w, pc)
      \/ \E then \in Outcomes : Leave(w, then)
  <2>1. CASE RecordProviderFile(w)
    BY <2>1 DEF RecordProviderFile
  <2>2. CASE AwaitFile(w)
    BY <2>2 DEF AwaitFile, Outcomes
  <2>3. CASE RefuseAnalysis(w) \/ ReadyToPublish(w) \/ LoseAnalysis(w)
    BY <2>3 DEF RefuseAnalysis, ReadyToPublish, LoseAnalysis, Outcomes
  <2>4. CASE ProviderFails(w)
    <3>1. PICK class \in UploadRefusals \cup AwaitRefusals \cup ModelRefusals : Leave(w, class)
      BY <2>4 DEF ProviderFails
    <3>2. QED
      BY <3>1 DEF Outcomes
  <2>5. CASE \E valid \in BOOLEAN : RequestAnalysis(w, valid)
    BY <2>5 DEF RequestAnalysis, Outcomes
  <2>6. CASE \E valid \in BOOLEAN : RepairAnalysis(w, valid)
    <3>1. PICK valid \in BOOLEAN : RepairAnalysis(w, valid)
      BY <2>6
    <3>2. CASE analyser[w].file \notin providerFiles
      BY <3>1, <3>2 DEF RepairAnalysis, Outcomes
    <3>3. CASE analyser[w].file \in providerFiles
      <4>1. (IF valid THEN "publish" ELSE "refuse") \in {"publish", "refuse"}
        OBVIOUS
      <4>2. QED
        BY <3>1, <3>3, <4>1 DEF RepairAnalysis
    <3>4. QED
      BY <3>2, <3>3
  <2>7. QED
    BY <2>1, <2>2, <2>3, <2>4, <2>5, <2>6
<1>5. CASE \E pc \in {"await", "request", "repair", "refuse", "publish"} : Go(w, pc)
  <2>1. "none" \in Outcomes
    BY DEF Outcomes
  <2>2. QED
    BY <1>1, <1>3, <1>5, <2>1, MovesKeepSound
<1>6. CASE \E then \in Outcomes : Leave(w, then)
  <2>1. "await" \in {"await", "request", "repair", "refuse", "publish"}
    OBVIOUS
  <2>2. QED
    BY <1>1, <1>3, <1>6, <2>1, MovesKeepSound
<1>7. QED
  BY <1>4, <1>5, <1>6

\* The finally block lets go of the file; a failure of it is a leak, or leaves
\* only the name behind.
LEMMA ReleaseKeepsSound ==
  ASSUME AnalysisSound, NEW w \in Analysers, FinallyRelease(w) \/ ReleaseFails(w)
  PROVE  AnalysisSound'
<1>1. PICK r \in AnalyserRows : r = analyser[w]
  BY DEF AnalysisSound, AnalysisTyped
<1>2. PICK row \in AnalyserRows : row = [r EXCEPT !.pc = "settle"]
  BY DEF AnalyserRows
<1>3. analyser' = [analyser EXCEPT ![w] = row]
  BY <1>1, <1>2 DEF FinallyRelease, ReleaseFails, Go
<1>4. UNCHANGED <<asset, analysisJob, filesMade, analyses, current>>
  BY DEF FinallyRelease, ReleaseFails
<1>5. analysisRow' \in [Assets -> AnalysisRows]
  <2>1. analysisRow \in [Assets -> AnalysisRows]
    BY DEF AnalysisSound, AnalysisTyped
  <2>2. QED
    BY <2>1, OtherStagesAreWritten DEF FinallyRelease, ReleaseFails
<1>6. \/ leaked'
      \/ /\ leaked' = leaked /\ providerFiles' \subseteq providerFiles
         /\ analyser[w].file \notin providerFiles'
  BY DEF FinallyRelease, ReleaseFails, ReleaseFile
<1>7. QED
  BY <1>3, <1>4, <1>5, <1>6, AnAttemptStepKeepsSound

LEMMA DeathKeepsSound ==
  ASSUME AnalysisSound, NEW w \in Analysers, AnalyserDies(w)
  PROVE  AnalysisSound'
<1>1. IdleAnalyser \in AnalyserRows
  BY AnalysisAssumption DEF IdleAnalyser, AnalyserRows, Outcomes, Assets
<1>2. analyser' = [analyser EXCEPT ![w] = IdleAnalyser] /\ leaked'
      /\ UNCHANGED <<asset, analysisJob, analysisRow, filesMade, analyses, current>>
  BY DEF AnalyserDies
<1>3. analysisRow' \in [Assets -> AnalysisRows]
  BY <1>2 DEF AnalysisSound, AnalysisTyped
<1>4. QED
  BY <1>1, <1>2, <1>3, AnAttemptStepKeepsSound

\* The job and the analysis change in one transaction, or neither does.
LEMMA SettlementKeepsSound ==
  ASSUME AnalysisSound, NEW w \in Analysers, SettleAnalysis(w)
  PROVE  AnalysisSound'
<1>1. PICK a \in Assets : a = analyser[w].asset
  BY DEF AnalysisSound, AnalysisTyped, AnalyserRows
<1>2. PICK n \in Nat : n = analyser[w].attempt
  BY DEF AnalysisSound, AnalysisTyped, AnalyserRows
<1>3. analysisJob \in [Assets -> JobRecords] /\ analysisJob[a] \in JobRecords
  BY DEF AnalysisSound, AnalysisTyped
<1>4. IdleAnalyser \in AnalyserRows
  BY AnalysisAssumption DEF IdleAnalyser, AnalyserRows, Outcomes, Assets
<1>5. analyser' \in [Analysers -> AnalyserRows] /\ FilesHeld'
  <2>1. analyser' = [analyser EXCEPT ![w] = IdleAnalyser] /\ UNCHANGED <<providerFiles, leaked>>
        /\ ~Responsible(analyser[w])
    BY DEF SettleAnalysis, Responsible
  <2>2. QED
    BY <1>4, <2>1, OneAnalyserMoves
<1>6. /\ 0 \notin Assets
      /\ a \in analyses <=> analysisJob[a].state = "SUCCEEDED"
      /\ current = 0 <=> analyses = {}
      /\ current # 0 => current \in analyses
  BY DEF AnalysisSound, AnalysedOnce, Assets
<1>7. CASE Publishes(w)
  <2>1. PICK job \in JobRecords : job = Complete(analysisJob[a])
    BY <1>3, JobsKept
  <2>2. analysisJob' = [analysisJob EXCEPT ![a] = job] /\ job.state = "SUCCEEDED"
    BY <1>1, <1>3, <1>7, <2>1, SettledAsBefore DEF SettleAnalysis, Publishes
  <2>3. analysisJob[a].state # "SUCCEEDED" /\ a \notin analyses
    BY <1>1, <1>6, <1>7 DEF Publishes, Holds, MayContinue, HoldsLease
  <2>4. /\ analyses' = analyses \cup {a} /\ current' = a
        /\ analysisRow' = [analysisRow EXCEPT ![a] = [@ EXCEPT !.stage = "PUBLISHED", !.file = 0]]
        /\ UNCHANGED <<asset, filesMade>>
    BY <1>1, <1>7, <2>3 DEF SettleAnalysis
  <2>5. [analysisRow[a] EXCEPT !.stage = "PUBLISHED", !.file = 0] \in AnalysisRows
    BY DEF AnalysisSound, AnalysisTyped, AnalysisRows
  <2>6. AnalysisTyped'
    BY <1>3, <1>5, <2>2, <2>4, <2>5 DEF AnalysisSound, AnalysisTyped
  <2>7. \A b \in Assets : b \in analyses' <=> analysisJob'[b].state = "SUCCEEDED"
    BY <1>3, <2>2, <2>4 DEF AnalysisSound, AnalysedOnce
  <2>8. AnalysedOnce'
    BY <1>6, <2>4, <2>7 DEF AnalysedOnce
  <2>9. QED
    BY <1>5, <2>6, <2>8 DEF AnalysisSound
<1>8. CASE ~Publishes(w)
  <2>1. PICK job \in JobRecords :
          /\ analysisJob' = [analysisJob EXCEPT ![a] = job]
          /\ job.state = "SUCCEEDED" <=> analysisJob[a].state = "SUCCEEDED"
    <3>1. CASE analyser[w].then \in {"publish", "lost"}
      <4>1. analysisJob' = [analysisJob EXCEPT ![a] = analysisJob[a]]
        BY <1>1, <1>8, <3>1 DEF SettleAnalysis, Publishes
      <4>2. QED
        BY <1>3, <4>1
    <3>2. CASE analyser[w].then \notin {"publish", "lost"}
      <4>1. PICK job \in JobRecords : job = SettleFailure(analysisJob[a], n, analyser[w].then)
        BY <1>3, JobsKept
      <4>2. job.state = "SUCCEEDED" <=> analysisJob[a].state = "SUCCEEDED"
        BY <1>3, <4>1, SettledAsBefore
      <4>3. analysisJob' = [analysisJob EXCEPT ![a] = job]
        BY <1>1, <1>2, <3>2, <4>1 DEF SettleAnalysis
      <4>4. QED
        BY <4>2, <4>3
    <3>3. QED
      BY <3>1, <3>2
  <2>2. UNCHANGED <<asset, analysisRow, filesMade, analyses, current>>
    BY <1>8 DEF SettleAnalysis
  <2>3. AnalysisTyped'
    BY <1>3, <1>5, <2>1, <2>2 DEF AnalysisSound, AnalysisTyped
  <2>4. \A b \in Assets : b \in analyses' <=> analysisJob'[b].state = "SUCCEEDED"
    BY <1>3, <2>1, <2>2 DEF AnalysisSound, AnalysedOnce
  <2>5. AnalysedOnce'
    BY <1>6, <2>2, <2>4 DEF AnalysedOnce
  <2>6. QED
    BY <1>5, <2>3, <2>5 DEF AnalysisSound
<1>9. QED
  BY <1>7, <1>8

LEMMA AnalysisStepKeepsSound == AnalysisSound /\ [AnalysisNext]_analysisVars => AnalysisSound'
<1> SUFFICES ASSUME AnalysisSound, [AnalysisNext]_analysisVars PROVE AnalysisSound'
  OBVIOUS
<1>1. CASE UNCHANGED analysisVars
  BY <1>1 DEF AnalysisSound, AnalysisTyped, AnalysedOnce, FilesHeld, Responsible, analysisVars
<1>2. CASE AnalysisNext
  BY <1>2, RequestsKeepSound, ClaimKeepsSound, UploadKeepsSound, AttemptsKeepSound,
     ReleaseKeepsSound, DeathKeepsSound, SettlementKeepsSound
  DEF AnalysisNext
<1>3. QED
  BY <1>1, <1>2

\* For any number of assets, attempts and faults: a request has its analysis
\* exactly when its job succeeded, and the current analysis is one of them.
THEOREM AnalysesFollowTheirJobs == AnalysisSpec => []AnalysedOnce
<1>1. AnalysisSound => AnalysedOnce
  BY DEF AnalysisSound
<1>2. QED
  BY <1>1, AnalysisSoundStarts, AnalysisStepKeepsSound, PTL DEF AnalysisSpec

\* Unless an attempt died or was refused the deletion, the provider holds
\* nothing once no attempt is running.
THEOREM ProviderFilesAreReleased == AnalysisSpec => []FilesReleased
<1>1. AnalysisSound => FilesReleased
  BY DEF AnalysisSound, FilesHeld, FilesReleased, Responsible
<1>2. QED
  BY <1>1, AnalysisSoundStarts, AnalysisStepKeepsSound, PTL DEF AnalysisSpec

-----------------------------------------------------------------------------
(* FeatureStatistics.  A comparison that a run was asked for waits to be   *)
(* stored or has its row in the set of the run, and no two rows of a scope *)
(* have the same fingerprint.                                              *)

IsSequence(s) == s \in Seq(Range(s))

Describes(row, candidate) == row.fingerprint = createStatisticFingerprint(candidate)

\* A row's fingerprint is that of the comparison it names, and is its own.
RowsSound(rows) ==
  /\ IsSequence(rows)
  /\ \A id \in DOMAIN rows : Describes(rows[id], rows[id])
  /\ \A a, b \in DOMAIN rows : rows[a].fingerprint = rows[b].fingerprint => a = b

CalculationSound(c, rows) ==
  /\ c = [pc |-> c.pc, runs |-> c.runs, todo |-> c.todo, set |-> c.set, read |-> c.read]
  /\ IsSequence(c.todo) /\ c.set \subseteq DOMAIN rows
  /\ \A candidate \in c.read : \/ \E id \in c.set : Describes(rows[id], candidate)
                               \/ \E i \in DOMAIN c.todo : c.todo[i].candidate = candidate

PublicationSound(rows) ==
  published # Missing =>
    /\ published.set \subseteq DOMAIN rows
    /\ \A candidate \in published.read : \E id \in published.set : Describes(rows[id], candidate)

StatisticsSound ==
  RowsSound(statistics) /\ CalculationSound(calculation, statistics) /\ PublicationSound(statistics)

LEMMA SequencesOfTheirItems ==
  ASSUME NEW S, NEW s \in Seq(S)
  PROVE  IsSequence(s) /\ DOMAIN s = 1..Len(s) /\ Len(s) \in Nat
<1>1. Len(s) \in Nat /\ s \in [1..Len(s) -> S]
  BY LenProperties
<1>2. s \in [1..Len(s) -> Range(s)]
  BY <1>1 DEF Range
<1>3. QED
  BY <1>1, <1>2, SeqDef DEF IsSequence

LEMMA SetsHaveSequences ==
  ASSUME NEW S, IsFiniteSet(S)
  PROVE  SetToSeq(S) \in Seq(S)
<1>1. Cardinality(S) \in Nat /\ Bijection(1..Cardinality(S), S) # {}
  BY FS_CardinalityType DEF ExistsBijection
<1>2. \E f \in [1..Cardinality(S) -> S] : IsInjective(f)
  BY <1>1 DEF Bijection, Injection
<1>3. SetToSeq(S) \in [1..Cardinality(S) -> S]
  BY <1>2 DEF SetToSeq
<1>4. QED
  BY <1>1, <1>3, SeqDef

LEMMA RequestsAreFinite == IsFiniteSet(buildFeatureRequests)
<1> DEFINE measured == {p \in Posts : measuredPost[p].measured}
           known == {p \in measured : measuredPost[p].feature # Missing}
           values == {measuredPost[p].feature : p \in known}
           With(v) == {p \in known : measuredPost[p].feature = v}
           request(v) == [feature |-> v, missingCount |-> Cardinality(measured \ known),
                          group |-> {Observation(p) : p \in With(v)},
                          comparison |-> {Observation(p) : p \in known \ With(v)}]
           requests == {request(v) : v \in values}
<1>1. IsFiniteSet(known)
  BY StatisticsAssumption, FS_Subset
<1>2. IsFiniteSet(values)
  <2>1. [p \in known |-> measuredPost[p].feature] \in Surjection(known, values)
    BY DEF Surjection
  <2>2. QED
    BY <1>1, <2>1, FS_Surjection
<1> HIDE DEF values, request
<1>3. IsFiniteSet(requests)
  <2>1. [v \in values |-> request(v)] \in Surjection(values, requests)
    BY DEF Surjection
  <2>2. QED
    BY <1>2, <2>1, FS_Surjection
<1>4. IsFiniteSet({})
  BY FS_EmptySet
<1>5. buildFeatureRequests = IF Cardinality(values) < 2 THEN {} ELSE requests
  BY DEF buildFeatureRequests, values, request
<1>6. QED
  BY <1>3, <1>4, <1>5

LEMMA StatisticsSoundStarts == StatisticsInit => StatisticsSound
<1> SUFFICES ASSUME StatisticsInit PROVE StatisticsSound
  OBVIOUS
<1>1. IsSequence(<<>>) /\ DOMAIN <<>> = {}
  BY DEF IsSequence
<1>2. RowsSound(statistics)
  BY <1>1 DEF StatisticsInit, RowsSound
<1>3. CalculationSound(calculation, statistics)
  BY <1>1 DEF StatisticsInit, CalculationSound, NoCalculation
<1>4. QED
  BY <1>2, <1>3 DEF StatisticsInit, StatisticsSound, PublicationSound

LEMMA CalculationBegins == StatisticsSound /\ BeginCalculation => StatisticsSound'
<1> SUFFICES ASSUME StatisticsSound, BeginCalculation PROVE StatisticsSound'
  OBVIOUS
<1>1. PICK requests : requests = SetToSeq(buildFeatureRequests)
  OBVIOUS
<1>2. IsSequence(requests) /\ DOMAIN requests = 1..Len(requests) /\ Len(requests) \in Nat
  BY <1>1, RequestsAreFinite, SetsHaveSequences, SequencesOfTheirItems
<1>3. PICK results :
        calculation' = [pc |-> "store", runs |-> calculation.runs + 1, set |-> {},
                        read |-> Range(requests),
                        todo |-> [i \in DOMAIN requests |->
                                    [candidate |-> requests[i], statistic |-> results[i]]]]
  BY <1>1 DEF BeginCalculation
<1>4. UNCHANGED <<statistics, published>>
  BY DEF BeginCalculation
<1> DEFINE todo == [i \in DOMAIN requests |->
                      [candidate |-> requests[i], statistic |-> results[i]]]
<1>5. IsSequence(todo)
  <2>1. todo \in Seq(Range(todo))
    BY <1>2, SeqDef DEF Range
  <2>2. QED
    BY <2>1 DEF IsSequence
<1>6. \A candidate \in Range(requests) : \E i \in DOMAIN todo : todo[i].candidate = candidate
  BY DEF Range
<1> HIDE DEF todo
<1>7. CalculationSound(calculation', statistics)
  BY <1>3, <1>5, <1>6 DEF CalculationSound, todo
<1>8. QED
  BY <1>4, <1>7 DEF StatisticsSound, PublicationSound

\* What a row describes it goes on to describe when rows are added.
LEMMA AddedRowsKeepSound ==
  ASSUME NEW row, NEW rows, RowsSound(rows), Describes(row, row),
         \A id \in DOMAIN rows : rows[id].fingerprint # row.fingerprint
  PROVE  LET new == Append(rows, row)
         IN /\ RowsSound(new) /\ DOMAIN rows \subseteq DOMAIN new
            /\ Len(rows) + 1 \in DOMAIN new /\ new[Len(rows) + 1] = row
            /\ \A id \in DOMAIN rows : new[id] = rows[id]
<1> DEFINE new == Append(rows, row)
           S == Range(rows) \cup {row}
<1>1. rows \in Seq(Range(rows))
  BY DEF RowsSound, IsSequence
<1>2. DOMAIN rows = 1..Len(rows) /\ Len(rows) \in Nat
  BY <1>1, LenProperties
<1>3. rows \in Seq(S) /\ row \in S
  <2>1. rows \in [1..Len(rows) -> S]
    BY <1>1, <1>2, LenProperties
  <2>2. QED
    BY <1>2, <2>1, SeqDef
<1>4. /\ new \in Seq(S) /\ Len(new) = Len(rows) + 1 /\ new[Len(rows) + 1] = row
      /\ \A i \in 1..Len(rows) : new[i] = rows[i]
  <2> HIDE DEF S
  <2>1. QED
    BY <1>3, AppendProperties
<1>5. IsSequence(new) /\ DOMAIN new = 1..Len(new)
  BY <1>4, SequencesOfTheirItems
<1> HIDE DEF new
<1>6. DOMAIN new = DOMAIN rows \cup {Len(rows) + 1}
  BY <1>2, <1>4, <1>5
<1>7. \A id \in DOMAIN new : Describes(new[id], new[id])
  BY <1>2, <1>4, <1>6 DEF RowsSound
<1>8. \A a, b \in DOMAIN new : new[a].fingerprint = new[b].fingerprint => a = b
  BY <1>2, <1>4, <1>6 DEF RowsSound
<1>9. QED
  BY <1>2, <1>4, <1>5, <1>6, <1>7, <1>8 DEF RowsSound, new

LEMMA StatisticIsStored == StatisticsSound /\ StoreStatistic => StatisticsSound'
<1> SUFFICES ASSUME StatisticsSound, StoreStatistic PROVE StatisticsSound'
  OBVIOUS
<1>1. PICK todo : todo = calculation.todo
  OBVIOUS
<1>2. todo \in Seq(Range(todo)) /\ todo # <<>>
  BY <1>1 DEF StatisticsSound, CalculationSound, IsSequence, StoreStatistic
<1>3. PICK entry : entry = Head(todo)
  OBVIOUS
<1>4. /\ IsSequence(Tail(todo)) /\ DOMAIN Tail(todo) = 1..Len(Tail(todo))
      /\ Len(Tail(todo)) = Len(todo) - 1 /\ DOMAIN todo = 1..Len(todo) /\ Len(todo) \in Nat
      /\ \A i \in 1..Len(Tail(todo)) : Tail(todo)[i] = todo[i + 1]
  BY <1>2, HeadTailProperties, SequencesOfTheirItems
<1>5. \A i \in DOMAIN todo :
        todo[i] = entry \/ \E k \in DOMAIN Tail(todo) : Tail(todo)[k] = todo[i]
  <2> SUFFICES ASSUME NEW i \in DOMAIN todo, i # 1
               PROVE  \E k \in DOMAIN Tail(todo) : Tail(todo)[k] = todo[i]
    BY <1>2, <1>3
  <2>1. i - 1 \in 1..Len(Tail(todo)) /\ (i - 1) + 1 = i
    BY <1>4
  <2>2. QED
    BY <1>4, <2>1
<1>6. PICK print : print = createStatisticFingerprint(entry.candidate)
  OBVIOUS
<1>7. PICK existing : existing = {id \in DOMAIN statistics : statistics[id].fingerprint = print}
  OBVIOUS
<1>8. PICK row : /\ row = [fingerprint |-> print, feature |-> entry.candidate.feature,
                           group |-> entry.candidate.group,
                           comparison |-> entry.candidate.comparison,
                           classification |-> entry.statistic.classification,
                           interval |-> entry.statistic.interval,
                           intervalConfidence |-> intervalConfidence(entry.statistic)]
                 /\ row.fingerprint = print /\ Describes(row, row)
  <2> DEFINE made == [fingerprint |-> print, feature |-> entry.candidate.feature,
                      group |-> entry.candidate.group,
                      comparison |-> entry.candidate.comparison,
                      classification |-> entry.statistic.classification,
                      interval |-> entry.statistic.interval,
                      intervalConfidence |-> intervalConfidence(entry.statistic)]
  <2>1. /\ made.fingerprint = print /\ made.feature = entry.candidate.feature
        /\ made.group = entry.candidate.group /\ made.comparison = entry.candidate.comparison
    OBVIOUS
  <2> HIDE DEF made
  <2>2. Describes(made, made)
    BY <1>6, <2>1 DEF Describes, createStatisticFingerprint
  <2>3. QED
    BY <2>1, <2>2 DEF made
<1>9. statistics' = IF existing = {} THEN Append(statistics, row) ELSE statistics
  BY <1>1, <1>3, <1>6, <1>7, <1>8 DEF StoreStatistic
<1>10. calculation' = [calculation EXCEPT
         !.todo = Tail(todo),
         !.set = calculation.set \cup (IF existing = {} THEN {Len(statistics) + 1} ELSE existing)]
  BY <1>1, <1>3, <1>6, <1>7 DEF StoreStatistic
<1>11. published' = published
  BY DEF StoreStatistic
<1>12. /\ RowsSound(statistics') /\ DOMAIN statistics \subseteq DOMAIN statistics'
       /\ \A id \in DOMAIN statistics : statistics'[id] = statistics[id]
       /\ \A id \in calculation'.set : id \in DOMAIN statistics'
       /\ \E id \in calculation'.set : Describes(statistics'[id], entry.candidate)
  <2>0. calculation'.set
          = calculation.set \cup (IF existing = {} THEN {Len(statistics) + 1} ELSE existing)
    BY <1>10 DEF StatisticsSound, CalculationSound
  <2>1. RowsSound(statistics) /\ calculation.set \subseteq DOMAIN statistics
    BY DEF StatisticsSound, CalculationSound
  <2>2. CASE existing = {}
    <3>1. \A id \in DOMAIN statistics : statistics[id].fingerprint # row.fingerprint
      BY <1>7, <1>8, <2>2
    <3>2. statistics' = Append(statistics, row)
      BY <1>9, <2>2
    <3>3. /\ RowsSound(statistics') /\ DOMAIN statistics \subseteq DOMAIN statistics'
          /\ Len(statistics) + 1 \in DOMAIN statistics' /\ statistics'[Len(statistics) + 1] = row
          /\ \A id \in DOMAIN statistics : statistics'[id] = statistics[id]
      BY <1>8, <2>1, <3>1, <3>2, AddedRowsKeepSound
    <3>4. Describes(row, entry.candidate)
      BY <1>6, <1>8 DEF Describes
    <3>5. QED
      BY <2>0, <2>1, <2>2, <3>3, <3>4
  <2>3. CASE existing # {}
    <3>1. statistics' = statistics
      BY <1>9, <2>3
    <3>2. \A id \in existing : id \in DOMAIN statistics /\ Describes(statistics[id], entry.candidate)
      BY <1>6, <1>7 DEF Describes
    <3>3. QED
      BY <2>0, <2>1, <2>3, <3>1, <3>2
  <2>4. QED
    BY <2>2, <2>3
<1>13. CalculationSound(calculation', statistics')
  <2>1. PICK c : /\ c = calculation
                 /\ c = [pc |-> c.pc, runs |-> c.runs, todo |-> c.todo, set |-> c.set,
                         read |-> c.read]
    BY DEF StatisticsSound, CalculationSound
  <2>2. /\ calculation' = [pc |-> calculation'.pc, runs |-> calculation'.runs,
                           todo |-> calculation'.todo, set |-> calculation'.set,
                           read |-> calculation'.read]
        /\ calculation'.read = calculation.read /\ calculation'.todo = Tail(todo)
        /\ calculation.set \subseteq calculation'.set
    BY <1>10, <2>1
  <2>3. ASSUME NEW candidate \in calculation.read
        PROVE  \/ \E id \in calculation'.set : Describes(statistics'[id], candidate)
               \/ \E i \in DOMAIN Tail(todo) : Tail(todo)[i].candidate = candidate
    <3>1. CASE \E id \in calculation.set : Describes(statistics[id], candidate)
      BY <1>12, <2>2, <3>1 DEF StatisticsSound, CalculationSound
    <3>2. CASE \E i \in DOMAIN todo : todo[i].candidate = candidate
      BY <1>5, <1>12, <3>2
    <3>3. QED
      BY <1>1, <3>1, <3>2 DEF StatisticsSound, CalculationSound
  <2>4. QED
    BY <1>4, <1>12, <2>2, <2>3 DEF CalculationSound
<1>14. PublicationSound(statistics)'
  BY <1>11, <1>12 DEF StatisticsSound, PublicationSound
<1>15. QED
  BY <1>12, <1>13, <1>14 DEF StatisticsSound

LEMMA RunIsPublished == StatisticsSound /\ ActivateRun => StatisticsSound'
<1> SUFFICES ASSUME StatisticsSound, ActivateRun PROVE StatisticsSound'
  OBVIOUS
<1>1. /\ published' = [set |-> calculation.set, read |-> calculation.read]
      /\ calculation' = [NoCalculation EXCEPT !.runs = calculation.runs]
      /\ calculation.todo = <<>> /\ statistics' = statistics
  BY DEF ActivateRun
<1>2. IsSequence(<<>>) /\ DOMAIN <<>> = {}
  BY DEF IsSequence
<1>3. CalculationSound(calculation', statistics)
  BY <1>1, <1>2 DEF CalculationSound, NoCalculation
<1>4. /\ calculation.set \subseteq DOMAIN statistics
      /\ \A candidate \in calculation.read :
           \E id \in calculation.set : Describes(statistics[id], candidate)
  BY <1>1, <1>2 DEF StatisticsSound, CalculationSound
<1>5. published'.set = calculation.set /\ published'.read = calculation.read
  BY <1>1
<1>6. QED
  BY <1>1, <1>3, <1>4, <1>5 DEF StatisticsSound, PublicationSound

LEMMA StatisticStepKeepsSound == StatisticsSound /\ [StatisticsNext]_statisticVars => StatisticsSound'
<1> SUFFICES ASSUME StatisticsSound, [StatisticsNext]_statisticVars PROVE StatisticsSound'
  OBVIOUS
<1>1. CASE \/ UNCHANGED statisticVars
           \/ \E p \in Posts, a \in Accounts, v \in MetricValues, f \in FeatureValues \cup {Missing} :
                AnalysePost(p, a, v, f)
  <2>1. UNCHANGED <<statistics, calculation, published>>
    BY <1>1 DEF statisticVars, AnalysePost
  <2>2. QED
    BY <2>1 DEF StatisticsSound, PublicationSound
<1>2. QED
  BY <1>1, CalculationBegins, StatisticIsStored, RunIsPublished DEF StatisticsNext

\* Whatever earlier runs stored, the set a run publishes has exactly one
\* statistic for each comparison it was asked, and that row names the posts and
\* analyses this run read (storeFeatureStatistics reuses rows by fingerprint).
THEOREM PublishedStatisticsAreCurrent == StatisticsSpec => []PublishedContributorsAreCurrent
<1>1. StatisticsSound => PublishedContributorsAreCurrent
  <2> SUFFICES ASSUME StatisticsSound, published # Missing, NEW candidate \in published.read
               PROVE  Cardinality({id \in published.set :
                        /\ statistics[id].feature = candidate.feature
                        /\ statistics[id].group = candidate.group
                        /\ statistics[id].comparison = candidate.comparison}) = 1
    BY DEF PublishedContributorsAreCurrent
  <2>1. published.set \subseteq DOMAIN statistics
    BY DEF StatisticsSound, PublicationSound
  <2>2. PICK id \in published.set : Describes(statistics[id], candidate)
    BY DEF StatisticsSound, PublicationSound
  <2>3. \A k \in published.set :
          (/\ statistics[k].feature = candidate.feature
           /\ statistics[k].group = candidate.group
           /\ statistics[k].comparison = candidate.comparison)
          <=> statistics[k].fingerprint = createStatisticFingerprint(candidate)
    BY <2>1 DEF StatisticsSound, RowsSound, Describes, createStatisticFingerprint
  <2>4. \A k \in published.set :
          statistics[k].fingerprint = createStatisticFingerprint(candidate) <=> k = id
    BY <2>1, <2>2 DEF StatisticsSound, RowsSound, Describes
  <2>5. {k \in published.set : /\ statistics[k].feature = candidate.feature
                               /\ statistics[k].group = candidate.group
                               /\ statistics[k].comparison = candidate.comparison} = {id}
    BY <2>2, <2>3, <2>4
  <2>6. QED
    BY <2>5, FS_Singleton
<1>2. StatisticsSound /\ [StatisticsNext]_statisticVars => StatisticsSound'
  BY StatisticStepKeepsSound
<1>3. QED
  BY <1>1, <1>2, StatisticsSoundStarts, PTL DEF StatisticsSpec

-----------------------------------------------------------------------------
(* FeatureStatistics, the classes.  Sorting depends on how many values are  *)
(* under and not over each one, so it is the same under other names; and    *)
(* the sorted values are those of the posts under the names of their        *)
(* places.  Leaving out a post is therefore leaving out a place.            *)

\* A finite family of integers: a sequence of values, or the values of a side.
IsSample(f) ==
  /\ f = [x \in DOMAIN f |-> f[x]] /\ IsFiniteSet(DOMAIN f)
  /\ \A x \in DOMAIN f : f[x] \in Int

Under(f, v) == {x \in DOMAIN f : f[x] < v}
NotOver(f, v) == {x \in DOMAIN f : f[x] <= v}

\* The same values, each as often, under other names.
Renames(h, f, g) ==
  h \in Bijection(DOMAIN f, DOMAIN g) /\ \A x \in DOMAIN f : f[x] = g[h[x]]

LEMMA ImagesAreAsLarge ==
  ASSUME NEW S, NEW T, IsFiniteSet(S), NEW h \in Bijection(S, T), NEW A \in SUBSET S
  PROVE  Cardinality({h[x] : x \in A}) = Cardinality(A)
<1> DEFINE B == {h[x] : x \in A}
           k == [x \in A |-> h[x]]
<1>1. \A a, b \in S : h[a] = h[b] => a = b
  BY Fun_BijectionProperties
<1>2. k \in Surjection(A, B)
  BY DEF Surjection
<1>3. k \in Injection(A, B)
  BY <1>1, <1>2, Fun_IsInj DEF Surjection, Injection, IsInjective
<1>4. IsFiniteSet(A)
  BY FS_Subset
<1>5. QED
  BY <1>2, <1>3, <1>4, FS_Surjection

\* Counting what is under a value and what is not over it.
LEMMA CountsOfASample ==
  ASSUME NEW f, IsSample(f), NEW v \in Int
  PROVE  /\ IsFiniteSet(Under(f, v)) /\ IsFiniteSet(NotOver(f, v))
         /\ Cardinality(DOMAIN f) \in Nat
         /\ Cardinality(Under(f, v)) \in Nat /\ Cardinality(NotOver(f, v)) \in Nat
         /\ Cardinality(Under(f, v)) <= Cardinality(NotOver(f, v))
         /\ Cardinality(NotOver(f, v)) <= Cardinality(DOMAIN f)
         /\ v \in Range(f) => Cardinality(Under(f, v)) < Cardinality(NotOver(f, v))
         /\ \A w \in Int : v < w => Cardinality(NotOver(f, v)) <= Cardinality(Under(f, w))
<1>1. IsFiniteSet(DOMAIN f) /\ \A x \in DOMAIN f : f[x] \in Int
  BY DEF IsSample
<1>2. \A w \in Int : Under(f, w) \in SUBSET DOMAIN f
  BY DEF Under
<1>3. NotOver(f, v) \in SUBSET DOMAIN f
  BY DEF NotOver
<1>4. /\ \A w \in Int : IsFiniteSet(Under(f, w))
      /\ IsFiniteSet(NotOver(f, v)) /\ Cardinality(NotOver(f, v)) <= Cardinality(DOMAIN f)
  BY <1>1, <1>2, <1>3, FS_Subset
<1>5. Under(f, v) \in SUBSET NotOver(f, v)
  BY <1>1 DEF Under, NotOver
<1>6. \A w \in Int : v < w => NotOver(f, v) \in SUBSET Under(f, w)
  BY <1>1 DEF Under, NotOver
<1>7. v \in Range(f) => Under(f, v) # NotOver(f, v)
  <2> SUFFICES ASSUME NEW x \in DOMAIN f, f[x] = v PROVE Under(f, v) # NotOver(f, v)
    BY DEF Range
  <2>1. x \in NotOver(f, v) /\ x \notin Under(f, v)
    BY DEF Under, NotOver
  <2>2. QED
    BY <2>1
<1>8. /\ Cardinality(Under(f, v)) <= Cardinality(NotOver(f, v))
      /\ Cardinality(Under(f, v)) = Cardinality(NotOver(f, v)) => Under(f, v) = NotOver(f, v)
  BY <1>4, <1>5, FS_Subset
<1>9. \A w \in Int : v < w => Cardinality(NotOver(f, v)) <= Cardinality(Under(f, w))
  BY <1>4, <1>6, FS_Subset
<1>10. /\ Cardinality(DOMAIN f) \in Nat /\ Cardinality(Under(f, v)) \in Nat
       /\ Cardinality(NotOver(f, v)) \in Nat
  BY <1>1, <1>4, FS_CardinalityType
<1>11. QED
  BY <1>4, <1>7, <1>8, <1>9, <1>10

\* Every place has a value that belongs there.
LEMMA PlacesAreTaken ==
  ASSUME NEW f, IsSample(f), NEW i \in 1..Cardinality(DOMAIN f)
  PROVE  \E v \in Range(f) : Cardinality(Under(f, v)) < i /\ i <= Cardinality(NotOver(f, v))
<1> DEFINE n == Cardinality(DOMAIN f)
           Reached == {k \in 0..n : k >= i /\ \E v \in Range(f) : Cardinality(NotOver(f, v)) = k}
<1>1. IsFiniteSet(DOMAIN f) /\ \A x \in DOMAIN f : f[x] \in Int
  BY DEF IsSample
<1>2. Range(f) \subseteq Int
  BY <1>1 DEF Range
<1>3. n \in Nat
  BY <1>1, FS_CardinalityType
<1>4. \A v \in Range(f) : Cardinality(NotOver(f, v)) \in 0..n
  BY <1>2, <1>3, CountsOfASample
<1>5. ASSUME NEW L, L \subseteq Range(f), L # {}
      PROVE  \E w \in L : \A v \in L : v <= w
  <2> DEFINE sizes == {Cardinality(NotOver(f, v)) : v \in L}
  <2>1. sizes \subseteq 0..n /\ sizes # {}
    BY <1>4, <1>5
  <2>2. PICK k \in sizes : \A m \in sizes : k >= m
    BY <1>3, <2>1, GreatestNatural
  <2>3. PICK w \in L : Cardinality(NotOver(f, w)) = k
    BY <2>2
  <2>4. ASSUME NEW v \in L PROVE v <= w
    <3> SUFFICES ASSUME w < v PROVE FALSE
      BY <1>2, <1>5
    <3>1. Cardinality(NotOver(f, w)) <= Cardinality(Under(f, v))
      BY <1>2, <1>5, CountsOfASample
    <3>2. Cardinality(Under(f, v)) < Cardinality(NotOver(f, v)) /\ Cardinality(NotOver(f, v)) <= k
      BY <1>2, <1>5, <2>2, CountsOfASample
    <3>3. /\ Cardinality(NotOver(f, v)) \in Nat /\ Cardinality(Under(f, v)) \in Nat
          /\ Cardinality(NotOver(f, w)) \in Nat
      BY <1>2, <1>5, CountsOfASample
    <3>4. QED
      BY <2>3, <3>1, <3>2, <3>3
  <2>5. QED
    BY <2>4
<1>6. n \in Reached
  <2>1. DOMAIN f # {}
    BY <1>3, FS_EmptySet
  <2>2. Range(f) # {}
    BY <2>1 DEF Range
  <2>3. PICK w \in Range(f) : \A v \in Range(f) : v <= w
    BY <1>5, <2>2
  <2>4. NotOver(f, w) = DOMAIN f
    BY <2>3 DEF NotOver, Range
  <2>5. QED
    BY <1>3, <2>4
<1>7. PICK k \in Reached : \A m \in Reached : k <= m
  <2>1. Reached \subseteq Nat /\ Reached # {}
    BY <1>3, <1>6
  <2>2. QED
    BY <2>1, LeastNatural
<1>8. PICK v \in Range(f) : Cardinality(NotOver(f, v)) = k
  BY <1>7
<1>9. Cardinality(Under(f, v)) < i
  <2> SUFFICES ASSUME i <= Cardinality(Under(f, v)) PROVE FALSE
    BY <1>2, <1>8, CountsOfASample
  <2> DEFINE L == {f[x] : x \in Under(f, v)}
  <2>1. Under(f, v) # {}
    BY FS_EmptySet
  <2>2. L \subseteq Range(f) /\ L # {}
    BY <2>1 DEF Under, Range
  <2>3. PICK w \in L : \A u \in L : u <= w
    BY <1>5, <2>2
  <2>4. w \in Range(f) /\ w \in Int /\ w < v
    BY <1>2, <2>2, <2>3 DEF Under
  <2>5. NotOver(f, w) = Under(f, v)
    <3>1. \A x \in DOMAIN f : f[x] <= w <=> f[x] < v
      BY <1>1, <1>2, <1>8, <2>3, <2>4 DEF Under
    <3>2. QED
      BY <3>1 DEF Under, NotOver
  <2>6. Cardinality(NotOver(f, w)) \in Reached
    BY <1>4, <2>4, <2>5
  <2>7. k <= Cardinality(Under(f, v))
    BY <1>7, <2>5, <2>6
  <2>8. Cardinality(Under(f, v)) < k /\ Cardinality(Under(f, v)) \in Nat /\ k \in Nat
    BY <1>2, <1>8, CountsOfASample
  <2>9. QED
    BY <2>7, <2>8
<1>10. QED
  BY <1>7, <1>8, <1>9

\* At every place of the sorted sequence stands the value that belongs there.
LEMMA SortedValues ==
  ASSUME NEW f, IsSample(f)
  PROVE  /\ DOMAIN ascending(f) = 1..Cardinality(DOMAIN f)
         /\ ascending(f) = [i \in 1..Cardinality(DOMAIN f) |-> ascending(f)[i]]
         /\ \A i \in 1..Cardinality(DOMAIN f) :
              /\ ascending(f)[i] \in Range(f) /\ ascending(f)[i] \in Int
              /\ \A v \in Range(f) :
                   ascending(f)[i] = v
                     <=> Cardinality(Under(f, v)) < i /\ i <= Cardinality(NotOver(f, v))
<1> DEFINE n == Cardinality(DOMAIN f)
           Fits(v, i) == Cardinality(Under(f, v)) < i /\ i <= Cardinality(NotOver(f, v))
<1>1. ascending(f) = [i \in 1..n |-> CHOOSE v \in Range(f) : Fits(v, i)]
  BY DEF ascending, Under, NotOver
<1>2. Range(f) \subseteq Int
  BY DEF Range, IsSample
<1>3. n \in Nat
  BY FS_CardinalityType DEF IsSample
<1>4. ASSUME NEW i \in 1..n, NEW v \in Range(f), NEW w \in Range(f), Fits(v, i), Fits(w, i)
      PROVE  v = w
  <2>1. /\ v < w => Cardinality(NotOver(f, v)) <= Cardinality(Under(f, w))
        /\ w < v => Cardinality(NotOver(f, w)) <= Cardinality(Under(f, v))
        /\ Cardinality(NotOver(f, v)) \in Nat /\ Cardinality(Under(f, v)) \in Nat
        /\ Cardinality(NotOver(f, w)) \in Nat /\ Cardinality(Under(f, w)) \in Nat
    BY <1>2, CountsOfASample
  <2>2. ~(v < w) /\ ~(w < v)
    BY <1>3, <1>4, <2>1
  <2>3. QED
    BY <1>2, <2>2
<1>5. \A i \in 1..n : \E v \in Range(f) : Fits(v, i)
  BY PlacesAreTaken
<1>6. ASSUME NEW i \in 1..n
      PROVE  /\ ascending(f)[i] \in Range(f) /\ Fits(ascending(f)[i], i)
  BY <1>1, <1>5
<1> HIDE DEF Fits
<1>7. \A i \in 1..n : \A v \in Range(f) : ascending(f)[i] = v <=> Fits(v, i)
  BY <1>4, <1>6
<1>8. QED
  BY <1>1, <1>2, <1>6, <1>7 DEF Fits

LEMMA RenamedSamplesSortAlike ==
  ASSUME NEW f, NEW g, IsSample(f), IsSample(g), NEW h, Renames(h, f, g)
  PROVE  ascending(f) = ascending(g)
<1>0. h \in Bijection(DOMAIN f, DOMAIN g) /\ \A x \in DOMAIN f : f[x] = g[h[x]]
  BY DEF Renames
<1>1. /\ \A x \in DOMAIN f : h[x] \in DOMAIN g
      /\ \A y \in DOMAIN g : \E x \in DOMAIN f : h[x] = y
  BY <1>0, Fun_BijectionProperties
<1>2. IsFiniteSet(DOMAIN f)
  BY DEF IsSample
<1>3. Cardinality(DOMAIN g) = Cardinality(DOMAIN f)
  <2>1. DOMAIN g = {h[x] : x \in DOMAIN f}
    BY <1>1
  <2>2. QED
    BY <1>0, <1>2, <2>1, ImagesAreAsLarge
<1>4. Range(f) = Range(g)
  BY <1>0, <1>1 DEF Range
<1>5. \A v : /\ Cardinality(Under(g, v)) = Cardinality(Under(f, v))
             /\ Cardinality(NotOver(g, v)) = Cardinality(NotOver(f, v))
  <2> SUFFICES ASSUME NEW v
               PROVE  /\ Cardinality(Under(g, v)) = Cardinality(Under(f, v))
                      /\ Cardinality(NotOver(g, v)) = Cardinality(NotOver(f, v))
    OBVIOUS
  <2>1. Under(g, v) = {h[x] : x \in Under(f, v)} /\ Under(f, v) \in SUBSET DOMAIN f
    BY <1>0, <1>1 DEF Under
  <2>2. NotOver(g, v) = {h[x] : x \in NotOver(f, v)} /\ NotOver(f, v) \in SUBSET DOMAIN f
    BY <1>0, <1>1 DEF NotOver
  <2>3. QED
    BY <1>0, <1>2, <2>1, <2>2, ImagesAreAsLarge
<1> DEFINE s == ascending(f)
           t == ascending(g)
           n == Cardinality(DOMAIN f)
<1>6. \A i \in 1..n : s[i] = t[i]
  <2> SUFFICES ASSUME NEW i \in 1..n PROVE s[i] = t[i]
    OBVIOUS
  <2>1. t[i] \in Range(f)
    BY <1>3, <1>4, SortedValues
  <2>2. Cardinality(Under(g, t[i])) < i /\ i <= Cardinality(NotOver(g, t[i]))
    BY <1>3, <1>4, <2>1, SortedValues
  <2>3. QED
    BY <1>5, <2>1, <2>2, SortedValues
<1>7. s = [i \in 1..n |-> s[i]] /\ t = [i \in 1..n |-> t[i]]
  BY <1>3, SortedValues
<1> HIDE DEF s, t, n
<1>8. s = t
  BY <1>6, <1>7
<1>9. QED
  BY <1>8 DEF s, t

\* Sorting renames: the places that have a value are as many as its items.
LEMMA SortingRenames ==
  ASSUME NEW f, IsSample(f)
  PROVE  IsSample(ascending(f)) /\ \E h : Renames(h, f, ascending(f))
<1> DEFINE s == ascending(f)
           n == Cardinality(DOMAIN f)
           Items(v) == {x \in DOMAIN f : f[x] = v}
           Places(v) == (Cardinality(Under(f, v)) + 1)..Cardinality(NotOver(f, v))
           b == [v \in Range(f) |-> CHOOSE k : k \in Bijection(Items(v), Places(v))]
           h == [x \in DOMAIN f |-> b[f[x]][x]]
<1>0. IsFiniteSet(DOMAIN f) /\ Range(f) \subseteq Int /\ \A x \in DOMAIN f : f[x] \in Range(f)
  BY DEF IsSample, Range
<1>1. n \in Nat
  BY <1>0, FS_CardinalityType
<1>2. ASSUME NEW v \in Range(f)
      PROVE  Bijection(Items(v), Places(v)) # {}
  <2>1. /\ IsFiniteSet(Under(f, v)) /\ IsFiniteSet(NotOver(f, v))
        /\ Cardinality(Under(f, v)) \in Nat /\ Cardinality(NotOver(f, v)) \in Nat
        /\ Cardinality(Under(f, v)) < Cardinality(NotOver(f, v))
    BY <1>0, CountsOfASample
  <2>2. /\ NotOver(f, v) = Under(f, v) \cup Items(v) /\ Under(f, v) \cap Items(v) = {}
        /\ Items(v) \in SUBSET DOMAIN f
    BY <1>0 DEF Under, NotOver
  <2>3. IsFiniteSet(Items(v)) /\ Cardinality(Items(v)) \in Nat
    BY <1>0, <2>2, FS_Subset, FS_CardinalityType
  <2>4. Cardinality(NotOver(f, v)) = Cardinality(Under(f, v)) + Cardinality(Items(v))
    <3>1. Cardinality(Under(f, v) \cup Items(v))
            = Cardinality(Under(f, v)) + Cardinality(Items(v)) - Cardinality(Under(f, v) \cap Items(v))
      BY <2>1, <2>3, FS_Union
    <3>2. Cardinality(Under(f, v) \cap Items(v)) = 0
      BY <2>2, FS_EmptySet
    <3> HIDE DEF Items
    <3>3. QED
      BY <2>1, <2>2, <2>3, <3>1, <3>2
  <2>5. IsFiniteSet(Places(v)) /\ Cardinality(Places(v)) = Cardinality(Items(v))
    <3>1. \A p, q \in Int : IsFiniteSet(p..q) /\ Cardinality(p..q) = IF p > q THEN 0 ELSE q - p + 1
      BY FS_Interval
    <3> HIDE DEF Items
    <3>2. PICK p, q, c \in Nat : /\ p = Cardinality(Under(f, v)) /\ q = Cardinality(NotOver(f, v))
                                /\ c = Cardinality(Items(v)) /\ p < q /\ q = p + c
      BY <2>1, <2>3, <2>4
    <3>3. IsFiniteSet((p + 1)..q) /\ Cardinality((p + 1)..q) = c
      <4>1. p + 1 \in Int /\ q \in Int /\ ~(p + 1 > q) /\ q - (p + 1) + 1 = c
        BY <3>2
      <4>2. QED
        BY <3>1, <4>1
    <3>4. QED
      BY <3>2, <3>3
  <2>6. QED
    BY <2>3, <2>5, FS_SameCardinalityBij, Fun_ExistsBij
<1>3. \A v \in Range(f) : b[v] \in Bijection(Items(v), Places(v))
  BY <1>2
<1>4. \A v \in Range(f) : /\ \A x \in Items(v) : b[v][x] \in Places(v)
                          /\ \A x, y \in Items(v) : b[v][x] = b[v][y] => x = y
                          /\ \A i \in Places(v) : \E x \in Items(v) : b[v][x] = i
  <2> HIDE DEF b, Items, Places
  <2>1. \A S, T, k : k \in Bijection(S, T) =>
          /\ \A x \in S : k[x] \in T /\ \A y \in S : k[x] = k[y] => x = y
          /\ \A i \in T : \E x \in S : k[x] = i
    BY Fun_BijectionProperties
  <2>2. QED
    BY <1>3, <2>1
<1>5. \A v \in Range(f) : Places(v) \subseteq 1..n /\ \A i \in 1..n : i \in Places(v) <=> s[i] = v
  <2> SUFFICES ASSUME NEW v \in Range(f)
               PROVE  /\ Places(v) \subseteq 1..n
                      /\ \A i \in 1..n : i \in Places(v) <=> s[i] = v
    OBVIOUS
  <2>1. /\ Cardinality(Under(f, v)) \in Nat /\ Cardinality(NotOver(f, v)) \in Nat
        /\ Cardinality(NotOver(f, v)) <= n
    BY <1>0, CountsOfASample
  <2>2. \A i \in 1..n : s[i] = v <=> Cardinality(Under(f, v)) < i /\ i <= Cardinality(NotOver(f, v))
    BY SortedValues
  <2>3. QED
    BY <1>1, <2>1, <2>2
<1>6. \A i \in 1..n : s[i] \in Range(f) /\ s[i] \in Int
  BY SortedValues
<1>7. DOMAIN s = 1..n /\ s = [i \in 1..n |-> s[i]]
  BY SortedValues
<1>8. \A x \in DOMAIN f : x \in Items(f[x]) /\ h[x] = b[f[x]][x]
  OBVIOUS
<1> HIDE DEF b, h, Places, s
<1>9. \A x \in DOMAIN f : h[x] \in 1..n /\ s[h[x]] = f[x]
  BY <1>0, <1>4, <1>5, <1>8
<1>10. h \in [DOMAIN f -> 1..n]
  BY <1>9 DEF h
<1>11. \A x, y \in DOMAIN f : h[x] = h[y] => x = y
  BY <1>0, <1>4, <1>8, <1>9
<1>12. \A i \in 1..n : \E x \in DOMAIN f : h[x] = i
  <2> SUFFICES ASSUME NEW i \in 1..n PROVE \E x \in DOMAIN f : h[x] = i
    OBVIOUS
  <2>1. i \in Places(s[i]) /\ s[i] \in Range(f)
    BY <1>5, <1>6
  <2>2. PICK x \in Items(s[i]) : b[s[i]][x] = i
    BY <1>4, <2>1
  <2>3. QED
    BY <1>8, <2>2
<1>13. h \in Bijection(DOMAIN f, 1..n)
  BY <1>10, <1>11, <1>12, Fun_IsBij
<1>14. IsSample(s)
  BY <1>1, <1>6, <1>7, FS_Interval DEF IsSample
<1>15. Renames(h, f, s)
  BY <1>7, <1>9, <1>13 DEF Renames
<1>16. QED
  BY <1>14, <1>15 DEF s

LEMMA BijectionsPairUp ==
  \A S, T, k : k \in Bijection(S, T) =>
    /\ \A x \in S : k[x] \in T
    /\ \A x, y \in S : k[x] = k[y] => x = y
    /\ \A i \in T : \E x \in S : k[x] = i
BY Fun_BijectionProperties

LEMMA SortedTwice ==
  ASSUME NEW f, IsSample(f)
  PROVE  ascending(ascending(f)) = ascending(f)
<1>1. IsSample(ascending(f))
  BY SortingRenames
<1>2. PICK h : Renames(h, f, ascending(f))
  BY SortingRenames
<1>3. QED
  BY <1>1, <1>2, RenamedSamplesSortAlike

LEMMA SortedIsASequence ==
  ASSUME NEW f, IsSample(f)
  PROVE  ascending(f) \in Seq(Int) /\ Len(ascending(f)) = Cardinality(DOMAIN f)
<1>1. Cardinality(DOMAIN f) \in Nat
  BY FS_CardinalityType DEF IsSample
<1> DEFINE n == Cardinality(DOMAIN f)
           s == ascending(f)
<1>2. s = [i \in 1..n |-> s[i]] /\ \A i \in 1..n : s[i] \in Int
  BY SortedValues
<1> HIDE DEF s, n
<1>3. s \in [1..n -> Int] /\ n \in Nat
  BY <1>1, <1>2 DEF n
<1>4. s \in Seq(Int)
  BY <1>3, SeqDef
<1>5. Len(s) = n
  BY <1>3, <1>4, LenProperties
<1>6. QED
  BY <1>4, <1>5 DEF s, n

\* What RemoveAt leaves is where it was, or one place further down.
LEMMA RemovedAt ==
  ASSUME NEW s \in Seq(Int), NEW i \in 1..Len(s)
  PROVE  LET t == RemoveAt(s, i) IN
         /\ t \in Seq(Int) /\ Len(t) = Len(s) - 1
         /\ \A k \in 1..(Len(s) - 1) : t[k] = IF k < i THEN s[k] ELSE s[k + 1]
<1> DEFINE l == SubSeq(s, 1, i - 1)
           r == SubSeq(s, i + 1, Len(s))
<1>1. Len(s) \in Nat /\ \A k \in 1..Len(s) : s[k] \in Int
  BY LenProperties
<1>2. /\ l \in Seq(Int) /\ Len(l) = IF 1 <= i - 1 THEN (i - 1) - 1 + 1 ELSE 0
      /\ \A k \in 1..((i - 1) - 1 + 1) : l[k] = s[1 + k - 1]
  <2>1. 1 \in Int /\ i - 1 \in Int /\ \A k \in 1..(i - 1) : s[k] \in Int
    BY <1>1
  <2>2. QED
    BY <2>1, SubSeqProperties
<1>3. /\ r \in Seq(Int) /\ Len(r) = IF i + 1 <= Len(s) THEN Len(s) - (i + 1) + 1 ELSE 0
      /\ \A k \in 1..(Len(s) - (i + 1) + 1) : r[k] = s[(i + 1) + k - 1]
  <2>1. i + 1 \in Int /\ Len(s) \in Int /\ \A k \in (i + 1)..Len(s) : s[k] \in Int
    BY <1>1
  <2>2. QED
    BY <2>1, SubSeqProperties
<1> HIDE DEF l, r
<1>4. /\ l \o r \in Seq(Int) /\ Len(l \o r) = Len(l) + Len(r)
      /\ \A k \in 1..(Len(l) + Len(r)) : (l \o r)[k] = IF k <= Len(l) THEN l[k] ELSE r[k - Len(l)]
  BY <1>2, <1>3, ConcatProperties
<1>5. Len(l) = i - 1 /\ Len(r) = Len(s) - i
  BY <1>1, <1>2, <1>3
<1>6. \A k \in 1..(Len(s) - 1) : (l \o r)[k] = IF k < i THEN s[k] ELSE s[k + 1]
  <2> SUFFICES ASSUME NEW k \in 1..(Len(s) - 1)
               PROVE  (l \o r)[k] = IF k < i THEN s[k] ELSE s[k + 1]
    OBVIOUS
  <2>1. CASE k < i
    BY <1>1, <1>2, <1>4, <1>5, <2>1
  <2>2. CASE ~(k < i)
    <3>1. /\ k - (i - 1) \in 1..(Len(s) - (i + 1) + 1) /\ (i + 1) + (k - (i - 1)) - 1 = k + 1
          /\ k \in 1..(Len(l) + Len(r)) /\ ~(k <= Len(l))
      BY <1>1, <1>5, <2>2
    <3>2. r[k - (i - 1)] = s[k + 1]
      BY <1>3, <3>1
    <3>3. QED
      BY <1>4, <1>5, <2>2, <3>1, <3>2
  <2>3. QED
    BY <2>1, <2>2
<1>7. RemoveAt(s, i) = l \o r
  BY DEF RemoveAt, l, r
<1>8. Len(l) + Len(r) = Len(s) - 1
  BY <1>1, <1>5
<1>9. QED
  BY <1>4, <1>6, <1>7, <1>8

Without(f, o) == [x \in DOMAIN f \ {o} |-> f[x]]

LEMMA RemovedItemsSortAlike ==
  ASSUME NEW f, IsSample(f), NEW o \in DOMAIN f
  PROVE  \E i \in DOMAIN ascending(f) :
           ascending(RemoveAt(ascending(f), i)) = ascending(Without(f, o))
<1> DEFINE s == ascending(f)
           n == Cardinality(DOMAIN f)
<1>1. s \in Seq(Int) /\ Len(s) = n /\ DOMAIN s = 1..n /\ n \in Nat
  BY SortedIsASequence, SequencesOfTheirItems
<1>2. PICK h : Renames(h, f, s)
  BY SortingRenames
<1>3. /\ h \in Bijection(DOMAIN f, 1..n) /\ \A x \in DOMAIN f : f[x] = s[h[x]]
  BY <1>1, <1>2 DEF Renames
<1>4. /\ \A x \in DOMAIN f : h[x] \in 1..n
      /\ \A x, y \in DOMAIN f : h[x] = h[y] => x = y
      /\ \A i \in 1..n : \E x \in DOMAIN f : h[x] = i
  <2> HIDE DEF s, n
  <2>1. QED
    BY <1>3, BijectionsPairUp
<1> HIDE DEF s, n
<1> DEFINE i == h[o]
           t == RemoveAt(s, i)
           g == Without(f, o)
           k == [x \in DOMAIN f \ {o} |-> IF h[x] < i THEN h[x] ELSE h[x] - 1]
<1>5. i \in 1..n
  BY <1>4
<1>6. /\ t \in Seq(Int) /\ Len(t) = n - 1
      /\ \A j \in 1..(n - 1) : t[j] = IF j < i THEN s[j] ELSE s[j + 1]
  BY <1>1, <1>5, RemovedAt
<1>7. DOMAIN t = 1..(n - 1) /\ t = [j \in DOMAIN t |-> t[j]] /\ \A j \in DOMAIN t : t[j] \in Int
  BY <1>6, LenProperties
<1> HIDE DEF t, i
<1>8. \A x \in DOMAIN f \ {o} : h[x] # i /\ h[x] \in 1..n
  BY <1>4 DEF i
<1>9. k \in [DOMAIN f \ {o} -> 1..(n - 1)]
  BY <1>1, <1>5, <1>8
<1>10. \A x, y \in DOMAIN f \ {o} : k[x] = k[y] => x = y
  <2> SUFFICES ASSUME NEW x \in DOMAIN f \ {o}, NEW y \in DOMAIN f \ {o}, k[x] = k[y]
               PROVE  h[x] = h[y]
    BY <1>4
  <2>1. QED
    BY <1>5, <1>8
<1>11. \A j \in 1..(n - 1) : \E x \in DOMAIN f \ {o} : k[x] = j
  <2> SUFFICES ASSUME NEW j \in 1..(n - 1) PROVE \E x \in DOMAIN f \ {o} : k[x] = j
    OBVIOUS
  <2>1. PICK x \in DOMAIN f : h[x] = IF j < i THEN j ELSE j + 1
    BY <1>1, <1>4, <1>5
  <2>2. x # o
    BY <1>5, <2>1 DEF i
  <2>3. k[x] = j
    BY <1>5, <2>1, <2>2
  <2>4. QED
    BY <2>2, <2>3
<1>12. k \in Bijection(DOMAIN g, DOMAIN t)
  BY <1>7, <1>9, <1>10, <1>11, Fun_IsBij DEF Without
<1>13. \A x \in DOMAIN g : g[x] = t[k[x]]
  <2> SUFFICES ASSUME NEW x \in DOMAIN f \ {o} PROVE f[x] = t[k[x]]
    BY DEF Without
  <2>1. k[x] \in 1..(n - 1)
    BY <1>9
  <2>2. t[k[x]] = s[IF k[x] < i THEN k[x] ELSE k[x] + 1]
    BY <1>6, <2>1
  <2>3. (IF k[x] < i THEN k[x] ELSE k[x] + 1) = h[x]
    BY <1>5, <1>8
  <2>4. QED
    BY <1>3, <2>2, <2>3
<1>14. IsSample(t)
  <2>1. IsFiniteSet(1..(n - 1))
    BY <1>1, FS_Interval
  <2>2. QED
    BY <1>7, <2>1 DEF IsSample
<1>15. IsSample(g)
  <2>1. IsFiniteSet(DOMAIN f \ {o}) /\ \A x \in DOMAIN f : f[x] \in Int
    BY FS_RemoveElement DEF IsSample
  <2>2. QED
    BY <2>1 DEF IsSample, Without
<1>16. Renames(k, g, t)
  BY <1>12, <1>13 DEF Renames
<1>17. ascending(g) = ascending(t)
  BY <1>14, <1>15, <1>16, RenamedSamplesSortAlike
<1>18. i \in DOMAIN s
  BY <1>1, <1>5
<1>19. QED
  BY <1>17, <1>18 DEF s, t

\* A family's statistics are those of its candidates, survives aside.
LEMMA FamilyStatistics ==
  ASSUME NEW inputs, NEW bootstraps, NEW i \in DOMAIN inputs
  PROVE  \E survives : calculateFeatureFamily(inputs, bootstraps)[i]
           = calculateFeatureStatistic([inputs[i] EXCEPT !.survives = survives], bootstraps[i])
<1> DEFINE First == [k \in DOMAIN inputs |->
                       calculateFeatureStatistic([inputs[k] EXCEPT !.survives = Missing],
                                                 bootstraps[k])]
           family == SetToSortSeq({k \in DOMAIN inputs : First[k].classification
                                     = "statistically_supported_association"},
                                  LAMBDA j, k : j < k)
           survives == benjaminiHochberg([k \in DOMAIN family |->
                                            pseudoPValue(First[family[k]].interval)])
           Second(k) == survives[CHOOSE j \in DOMAIN family : family[j] = k]
<1>1. calculateFeatureFamily(inputs, bootstraps) =
        [k \in DOMAIN inputs |->
           IF \E j \in DOMAIN family : family[j] = k
           THEN calculateFeatureStatistic([inputs[k] EXCEPT !.survives = Second(k)], bootstraps[k])
           ELSE First[k]]
  BY DEF calculateFeatureFamily
<1> HIDE DEF family, Second
<1>2. QED
  BY <1>1

StrongClasses == {"moderate_association", "statistically_supported_association"}

\* The checks on the way to a strong class.
LEMMA StrongStatistics ==
  ASSUME NEW input, NEW bootstrap,
         calculateFeatureStatistic(input, bootstrap).classification \in StrongClasses
  PROVE  /\ evaluateSensitivity(input.group, input.comparison).preservesDirection
         /\ EffectAtLeast(median(input.group), median(input.comparison), practicalEffectPercent)
<1> DEFINE kept == evaluateSensitivity(input.group, input.comparison).preservesDirection
           large == EffectAtLeast(median(input.group), median(input.comparison), practicalEffectPercent)
<1>1. CASE ~kept
  BY <1>1, SMTT(20) DEF calculateFeatureStatistic, StrongClasses, Settle
<1>2. CASE ~large
  BY <1>2, SMTT(20) DEF calculateFeatureStatistic, StrongClasses, Settle
<1>3. QED
  BY <1>1, <1>2

\* What a strong class says of the two sides it is about.
HoldsUp(class, group, comparison) ==
  LET base == median(ValuesOf(comparison))
      whole == median(ValuesOf(group))
  IN class \in StrongClasses =>
       /\ EffectAtLeast(whole, base, practicalEffectPercent)
       /\ \A o \in group : Sign(median(ValuesOf(group \ {o})) - base) = Sign(whole - base)

IsSide(side) == IsFiniteSet(side) /\ \A o \in side : o.value \in Int

LEMMA SidesAreSamples ==
  ASSUME NEW side, IsSide(side)
  PROVE  /\ IsSample([o \in side |-> o.value])
         /\ \A o \in side : /\ IsSample([x \in side \ {o} |-> x.value])
                            /\ Without([x \in side |-> x.value], o) = [x \in side \ {o} |-> x.value]
<1>1. IsFiniteSet(side) /\ \A o \in side : IsFiniteSet(side \ {o})
  BY FS_RemoveElement DEF IsSide
<1>2. QED
  BY <1>1 DEF IsSample, IsSide, Without

\* Leaving out a post is leaving out one of the places of the sorted values.
LEMMA LeftOutPosts ==
  ASSUME NEW group, IsSide(group), NEW o \in group
  PROVE  \E i \in DOMAIN ValuesOf(group) :
           median(RemoveAt(ValuesOf(group), i)) = median(ValuesOf(group \ {o}))
<1> DEFINE f == [x \in group |-> x.value]
           g == [x \in group \ {o} |-> x.value]
<1>1. IsSample(f) /\ IsSample(g) /\ Without(f, o) = g /\ o \in DOMAIN f
  BY SidesAreSamples
<1>2. ValuesOf(group) = ascending(f) /\ ValuesOf(group \ {o}) = ascending(g)
  BY DEF ValuesOf
<1> HIDE DEF f, g
<1>3. PICK i \in DOMAIN ascending(f) : ascending(RemoveAt(ascending(f), i)) = ascending(g)
  BY <1>1, RemovedItemsSortAlike
<1>4. ascending(ascending(g)) = ascending(g)
  BY <1>1, SortedTwice
<1>5. QED
  BY <1>2, <1>3, <1>4 DEF median

LEMMA StrongStatisticsHoldUp ==
  ASSUME NEW candidate, IsSide(candidate.group), NEW survives, NEW bootstrap
  PROVE  HoldsUp(calculateFeatureStatistic(
                   [StatisticInput(candidate) EXCEPT !.survives = survives], bootstrap).classification,
                 candidate.group, candidate.comparison)
<1> DEFINE g == ValuesOf(candidate.group)
           c == ValuesOf(candidate.comparison)
<1>1. PICK input : /\ input = [StatisticInput(candidate) EXCEPT !.survives = survives]
                   /\ input.group = g /\ input.comparison = c
  <2>1. PICK dates, weeks, missing, isCount, dominated, clusters, none :
          StatisticInput(candidate)
            = [group |-> g, comparison |-> c, dates |-> dates, weeks |-> weeks,
               missing |-> missing, isCount |-> isCount, dominated |-> dominated,
               clusters |-> clusters, survives |-> none]
    BY DEF StatisticInput
  <2> HIDE DEF g, c
  <2> DEFINE given == [StatisticInput(candidate) EXCEPT !.survives = survives]
  <2>2. given.group = g /\ given.comparison = c
    BY <2>1
  <2>3. given = [StatisticInput(candidate) EXCEPT !.survives = survives]
    OBVIOUS
  <2> HIDE DEF given
  <2>4. QED
    BY <2>2, <2>3
<1>2. PICK class : class = calculateFeatureStatistic(input, bootstrap).classification
  OBVIOUS
<1>3. SUFFICES ASSUME class \in StrongClasses
               PROVE  /\ EffectAtLeast(median(g), median(c), practicalEffectPercent)
                      /\ \A o \in candidate.group :
                           Sign(median(ValuesOf(candidate.group \ {o})) - median(c))
                             = Sign(median(g) - median(c))
  BY <1>1, <1>2 DEF HoldsUp
<1>4. /\ evaluateSensitivity(g, c).preservesDirection
      /\ EffectAtLeast(median(g), median(c), practicalEffectPercent)
  BY <1>1, <1>2, <1>3, StrongStatistics
<1>5. ASSUME NEW i \in DOMAIN g
      PROVE  Sign(median(RemoveAt(g, i)) - median(c)) = Sign(median(g) - median(c))
  <2> HIDE DEF g, c
  <2>1. median(RemoveAt(g, i)) \in {median(RemoveAt(g, k)) : k \in DOMAIN g}
    OBVIOUS
  <2>2. \A refit \in {median(RemoveAt(g, k)) : k \in DOMAIN g} :
          Sign(refit - median(c)) = Sign(median(g) - median(c))
    BY <1>4 DEF evaluateSensitivity
  <2>3. QED
    BY <2>1, <2>2
<1>6. QED
  BY <1>4, <1>5, LeftOutPosts

\* A strong class waiting to be stored holds up as well as a stored one does.
StrongSound ==
  /\ measuredPost = [p \in Posts |-> measuredPost[p]]
  /\ \A p \in Posts : measuredPost[p].value \in Int
  /\ \A id \in DOMAIN statistics :
       HoldsUp(statistics[id].classification, statistics[id].group, statistics[id].comparison)
  /\ \A i \in DOMAIN calculation.todo :
       HoldsUp(calculation.todo[i].statistic.classification,
               calculation.todo[i].candidate.group, calculation.todo[i].candidate.comparison)

LEMMA StrongSoundStarts == StatisticsInit => StrongSound
<1>1. DOMAIN <<>> = {}
  OBVIOUS
<1>2. QED
  BY <1>1 DEF StatisticsInit, StrongSound, NoCalculation, NoPost

LEMMA AnalysedPostsKeepStrong ==
  ASSUME StrongSound, NEW p \in Posts, NEW a, NEW v \in MetricValues, NEW f, AnalysePost(p, a, v, f)
  PROVE  StrongSound'
<1>1. v \in Int
  BY StatisticsAssumption
<1>2. /\ UNCHANGED <<statistics, calculation>>
      /\ \E r : measuredPost' = [measuredPost EXCEPT ![p] = r] /\ r.value = v
  <2> DEFINE r == [measured |-> TRUE, account |-> a, value |-> v, feature |-> f,
                   revision |-> measuredPost[p].revision + 1]
  <2>1. measuredPost' = [measuredPost EXCEPT ![p] = r] /\ UNCHANGED <<statistics, calculation>>
    BY DEF AnalysePost
  <2>2. r.value = v
    OBVIOUS
  <2> HIDE DEF r
  <2>3. QED
    BY <2>1, <2>2
<1>3. PICK r : measuredPost' = [measuredPost EXCEPT ![p] = r] /\ r.value = v
  BY <1>2
<1>4. \A q \in Posts : measuredPost'[q] = IF q = p THEN r ELSE measuredPost[q]
  BY <1>3 DEF StrongSound
<1>5. measuredPost' = [q \in Posts |-> measuredPost'[q]]
  BY <1>3 DEF StrongSound
<1>6. QED
  BY <1>1, <1>2, <1>3, <1>4, <1>5 DEF StrongSound

LEMMA RequestsHaveSides ==
  ASSUME StrongSound, NEW candidate \in buildFeatureRequests
  PROVE  IsSide(candidate.group)
<1> DEFINE measured == {p \in Posts : measuredPost[p].measured}
           known == {p \in measured : measuredPost[p].feature # Missing}
           values == {measuredPost[p].feature : p \in known}
           With(v) == {p \in known : measuredPost[p].feature = v}
           side(v) == {Observation(p) : p \in With(v)}
           request(v) == [feature |-> v, missingCount |-> Cardinality(measured \ known),
                          group |-> side(v),
                          comparison |-> {Observation(p) : p \in known \ With(v)}]
<1>1. PICK v \in values : candidate.group = side(v)
  <2>1. buildFeatureRequests = IF Cardinality(values) < 2 THEN {} ELSE {request(v) : v \in values}
    BY DEF buildFeatureRequests
  <2> HIDE DEF values, request
  <2>2. PICK v \in values : candidate = request(v)
    BY <2>1
  <2>3. candidate.group = side(v)
    BY <2>2 DEF request
  <2>4. QED
    BY <2>3
<1>2. With(v) \in SUBSET Posts
  OBVIOUS
<1> HIDE DEF With
<1>3. IsFiniteSet(side(v))
  <2>1. IsFiniteSet(With(v))
    BY <1>2, StatisticsAssumption, FS_Subset
  <2>2. [p \in With(v) |-> Observation(p)] \in Surjection(With(v), side(v))
    BY DEF Surjection
  <2>3. QED
    BY <2>1, <2>2, FS_Surjection
<1>4. \A o \in side(v) : o.value \in Int
  BY <1>2 DEF Observation, StrongSound
<1>5. QED
  BY <1>1, <1>3, <1>4 DEF IsSide

LEMMA CalculationKeepsStrong == StrongSound /\ BeginCalculation => StrongSound'
<1> SUFFICES ASSUME StrongSound, BeginCalculation PROVE StrongSound'
  OBVIOUS
<1>1. PICK requests : requests = SetToSeq(buildFeatureRequests)
  OBVIOUS
<1>2. \A i \in DOMAIN requests : requests[i] \in buildFeatureRequests
  <2>1. requests \in Seq(buildFeatureRequests)
    BY <1>1, RequestsAreFinite, SetsHaveSequences
  <2>2. QED
    BY <2>1, LenProperties
<1> DEFINE inputs == [i \in DOMAIN requests |-> StatisticInput(requests[i])]
           bootstraps == [i \in DOMAIN inputs |-> bootstrapMedianDifference(inputs[i])]
           results == calculateFeatureFamily(inputs, bootstraps)
           todo == [i \in DOMAIN requests |-> [candidate |-> requests[i], statistic |-> results[i]]]
<1>3. calculation' = [pc |-> "store", runs |-> calculation.runs + 1, set |-> {},
                      read |-> Range(requests), todo |-> todo]
  BY <1>1 DEF BeginCalculation
<1>4. UNCHANGED <<measuredPost, statistics>>
  BY DEF BeginCalculation
<1> HIDE DEF bootstraps
<1>5. ASSUME NEW i \in DOMAIN requests
      PROVE  HoldsUp(results[i].classification, requests[i].group, requests[i].comparison)
  <2>1. i \in DOMAIN inputs /\ inputs[i] = StatisticInput(requests[i])
    OBVIOUS
  <2> HIDE DEF inputs
  <2>2. PICK survives : results[i]
          = calculateFeatureStatistic([inputs[i] EXCEPT !.survives = survives], bootstraps[i])
    BY <2>1, FamilyStatistics
  <2>3. IsSide(requests[i].group)
    BY <1>2, RequestsHaveSides
  <2>4. QED
    BY <2>1, <2>2, <2>3, StrongStatisticsHoldUp
<1> HIDE DEF results
<1>6. DOMAIN todo = DOMAIN requests /\ \A i \in DOMAIN requests :
        todo[i].candidate = requests[i] /\ todo[i].statistic = results[i]
  OBVIOUS
<1> HIDE DEF todo
<1>7. calculation'.todo = todo
  BY <1>3
<1>8. QED
  BY <1>4, <1>5, <1>6, <1>7 DEF StrongSound

LEMMA AppendedRows ==
  ASSUME NEW rows, rows \in Seq(Range(rows)), NEW row
  PROVE  LET new == Append(rows, row)
         IN /\ DOMAIN rows = 1..Len(rows) /\ Len(rows) \in Nat
            /\ DOMAIN new = 1..(Len(rows) + 1) /\ new[Len(rows) + 1] = row
            /\ \A id \in 1..Len(rows) : new[id] = rows[id]
<1> DEFINE S == Range(rows) \cup {row}
<1>1. DOMAIN rows = 1..Len(rows) /\ Len(rows) \in Nat
  BY LenProperties
<1>2. rows \in Seq(S) /\ row \in S
  <2>1. rows \in [1..Len(rows) -> S]
    BY <1>1, LenProperties
  <2>2. QED
    BY <1>1, <2>1, SeqDef
<1> HIDE DEF S
<1>3. QED
  BY <1>1, <1>2, AppendProperties

LEMMA StoringKeepsStrong == StatisticsSound /\ StrongSound /\ StoreStatistic => StrongSound'
<1> SUFFICES ASSUME StatisticsSound, StrongSound, StoreStatistic PROVE StrongSound'
  OBVIOUS
<1>1. PICK todo : todo = calculation.todo
  OBVIOUS
<1>2. todo \in Seq(Range(todo)) /\ todo # <<>> /\ statistics \in Seq(Range(statistics))
  BY <1>1 DEF StatisticsSound, CalculationSound, RowsSound, IsSequence, StoreStatistic
<1>3. /\ DOMAIN Tail(todo) = 1..Len(Tail(todo)) /\ Len(Tail(todo)) = Len(todo) - 1
      /\ DOMAIN todo = 1..Len(todo) /\ Len(todo) \in Nat /\ Head(todo) = todo[1] /\ Len(todo) # 0
      /\ \A i \in 1..Len(Tail(todo)) : Tail(todo)[i] = todo[i + 1]
  BY <1>2, HeadTailProperties, SequencesOfTheirItems, EmptySeq
<1>4. PICK entry, row :
        /\ entry = todo[1]
        /\ row.classification = entry.statistic.classification
        /\ row.group = entry.candidate.group /\ row.comparison = entry.candidate.comparison
        /\ statistics' \in {statistics, Append(statistics, row)}
        /\ calculation'.todo = Tail(todo)
  <2> DEFINE entry == Head(calculation.todo)
             print == createStatisticFingerprint(entry.candidate)
             row == [fingerprint |-> print, feature |-> entry.candidate.feature,
                     group |-> entry.candidate.group, comparison |-> entry.candidate.comparison,
                     classification |-> entry.statistic.classification,
                     interval |-> entry.statistic.interval,
                     intervalConfidence |-> intervalConfidence(entry.statistic)]
  <2>1. statistics' \in {statistics, Append(statistics, row)}
    BY DEF StoreStatistic
  <2>2. calculation'.todo = Tail(calculation.todo)
    BY DEF StoreStatistic, StatisticsSound, CalculationSound
  <2>3. /\ row.classification = entry.statistic.classification
        /\ row.group = entry.candidate.group /\ row.comparison = entry.candidate.comparison
    OBVIOUS
  <2> HIDE DEF row
  <2>4. QED
    BY <1>1, <1>3, <2>1, <2>2, <2>3
<1>5. HoldsUp(row.classification, row.group, row.comparison)
  BY <1>1, <1>3, <1>4 DEF StrongSound
<1>6. \A id \in DOMAIN statistics' :
        HoldsUp(statistics'[id].classification, statistics'[id].group, statistics'[id].comparison)
  <2>1. CASE statistics' = statistics
    BY <2>1 DEF StrongSound
  <2>2. CASE statistics' = Append(statistics, row)
    <3>1. /\ DOMAIN statistics = 1..Len(statistics) /\ Len(statistics) \in Nat
          /\ DOMAIN statistics' = 1..(Len(statistics) + 1)
          /\ statistics'[Len(statistics) + 1] = row
          /\ \A id \in 1..Len(statistics) : statistics'[id] = statistics[id]
      BY <1>2, <2>2, AppendedRows
    <3>2. QED
      BY <1>5, <3>1 DEF StrongSound
  <2>3. QED
    BY <1>4, <2>1, <2>2
<1>7. \A i \in DOMAIN Tail(todo) :
        HoldsUp(Tail(todo)[i].statistic.classification,
                Tail(todo)[i].candidate.group, Tail(todo)[i].candidate.comparison)
  <2>1. \A i \in DOMAIN Tail(todo) : i + 1 \in DOMAIN todo
    BY <1>3
  <2>2. QED
    BY <1>1, <1>3, <2>1 DEF StrongSound
<1>8. measuredPost' = measuredPost
  BY DEF StoreStatistic
<1>9. QED
  BY <1>4, <1>6, <1>7, <1>8 DEF StrongSound

\* "A pattern that disappears when any single video is removed is a fact about
\* that video" (evaluateSensitivity): for every row ever stored with a strong
\* class, without any one post of the group the median keeps its side of the
\* comparison's, and over the whole group the difference is at least
\* practicalEffectThreshold.
THEOREM StrongClassesHoldUp == StatisticsSpec => []StrongClassesSurviveLeaveOneOut
<1>1. StrongSound => StrongClassesSurviveLeaveOneOut
  BY DEF StrongSound, StrongClassesSurviveLeaveOneOut, HoldsUp, StrongClasses
<1>2. StatisticsSound /\ StrongSound /\ [StatisticsNext]_statisticVars => StrongSound'
  <2> SUFFICES ASSUME StatisticsSound, StrongSound, [StatisticsNext]_statisticVars PROVE StrongSound'
    OBVIOUS
  <2>1. CASE UNCHANGED statisticVars
    BY <2>1 DEF StrongSound, statisticVars
  <2>2. ASSUME NEW p \in Posts, NEW a \in Accounts, NEW v \in MetricValues,
               NEW f \in FeatureValues \cup {Missing}, AnalysePost(p, a, v, f)
        PROVE  StrongSound'
    BY <2>2, AnalysedPostsKeepStrong
  <2>3. CASE ActivateRun
    <3>1. /\ calculation' = [NoCalculation EXCEPT !.runs = calculation.runs]
          /\ UNCHANGED <<measuredPost, statistics>> /\ DOMAIN <<>> = {}
      BY <2>3 DEF ActivateRun
    <3>2. calculation'.todo = <<>>
      BY <3>1 DEF NoCalculation
    <3>3. QED
      BY <3>1, <3>2 DEF StrongSound
  <2>4. QED
    BY <2>1, <2>2, <2>3, CalculationKeepsStrong, StoringKeepsStrong DEF StatisticsNext
<1>3. StatisticsSound /\ [StatisticsNext]_statisticVars => StatisticsSound'
  BY StatisticStepKeepsSound
<1>4. QED
  BY <1>1, <1>2, <1>3, StatisticsSoundStarts, StrongSoundStarts, PTL DEF StatisticsSpec

-----------------------------------------------------------------------------
(* WorkerLifecycle.  A shutdown that began when the startup had ended takes*)
(* the schedulers down one by one: behind it nothing is armed or at work,  *)
(* and the queue client is either still to be stopped or has been.         *)

ProcessTyped ==
  /\ startup \in {"client", "verify", "work", "unwind", "check", "up", "failed"}
  /\ shutdown \in [pc : {"none", "scheduler", "runtime", "database", "server", "done", "failed"},
                   at : Nat]
  /\ startupSeen \in {"none", "client", "verify", "work", "unwind", "check", "up", "failed"}
  /\ armed \subseteq Range(Schedulers) /\ sweeping \subseteq Range(Schedulers)
  /\ connected \in BOOLEAN

\* No handler is at work that the last stop did not leave behind.
ClientDown == boss = "off" /\ handling \subseteq outlived

\* Until a shutdown begins the flags follow the startup.
FlagsFollowStartup ==
  shutdown.pc = "none" =>
    /\ startupSeen = "none" /\ startup # "failed"
    /\ startup = "client" => ClientDown
    /\ startup \in {"client", "verify", "work", "unwind"} => ~runtimeStarted
    /\ startup \in {"verify", "work", "check", "up"} => clientStarted
    /\ startup \in {"check", "up"} => runtimeStarted

SchedulersBehind ==
  /\ shutdown.pc = "scheduler" =>
       /\ shutdown.at \in 1..Len(Schedulers)
       /\ \A j \in 1..Len(Schedulers) : j <= shutdown.at => Schedulers[j] \notin armed
       /\ \A j \in 1..Len(Schedulers) : j < shutdown.at => Schedulers[j] \notin sweeping
  /\ shutdown.pc # "scheduler" => armed = {} /\ sweeping = {}

ClientBehind ==
  /\ shutdown.pc = "scheduler" => (runtimeStarted /\ clientStarted) \/ ClientDown
  /\ shutdown.pc \in {"database", "server", "done"} => ClientDown

Drained ==
  startupSeen \in {"up", "failed"} =>
    startup = startupSeen /\ shutdown.pc # "none" /\ SchedulersBehind /\ ClientBehind

WorkerSound ==
  /\ ProcessTyped /\ FlagsFollowStartup /\ Drained
  /\ ~connected => shutdown.pc \in {"server", "done"}

LEMMA SchedulerPlaces ==
  /\ Len(Schedulers) \in Nat \ {0}
  /\ Range(Schedulers) = {Schedulers[j] : j \in 1..Len(Schedulers)}
<1>1. Schedulers \in Seq(Range(Schedulers)) /\ Schedulers # <<>>
  BY WorkerAssumption
<1>2. DOMAIN Schedulers = 1..Len(Schedulers) /\ Len(Schedulers) \in Nat
  BY <1>1
<1>3. Len(Schedulers) # 0
  BY <1>1
<1>4. QED
  BY <1>2, <1>3 DEF Range

LEMMA WorkerSoundStarts == WorkerInit => WorkerSound
  BY DEF WorkerInit, WorkerSound, ProcessTyped, FlagsFollowStartup, ClientDown, Drained

\* shutDown is called once, whatever the startup has come to.
LEMMA ShutDownBegins ==
  ASSUME WorkerSound, shutDown,
         startup' \in {"client", "verify", "work", "unwind", "check", "up", "failed"},
         UNCHANGED <<sweeping, connected>>,
         startup' \in {"up", "failed"} => (runtimeStarted' /\ clientStarted') \/ ClientDown'
  PROVE  WorkerSound'
<1>1. shutdown' = [pc |-> "scheduler", at |-> 1] /\ armed' = armed \ {Schedulers[1]}
      /\ startupSeen' = startup' /\ shutdown.pc = "none"
  BY DEF shutDown, StopScheduler
<1>2. connected /\ connected' = connected
  BY <1>1 DEF WorkerSound, ProcessTyped
<1>3. ProcessTyped'
  BY <1>1 DEF WorkerSound, ProcessTyped
<1>4. SchedulersBehind'
  <2>1. 1 \in 1..Len(Schedulers)
    BY SchedulerPlaces
  <2>2. \A j \in 1..Len(Schedulers) : (j <= 1 => j = 1) /\ ~(j < 1)
    BY SchedulerPlaces
  <2>3. QED
    BY <1>1, <2>1, <2>2 DEF SchedulersBehind
<1>5. startupSeen' \in {"up", "failed"} => ClientBehind'
  BY <1>1 DEF ClientBehind
<1>6. Drained'
  BY <1>1, <1>4, <1>5 DEF Drained
<1>7. FlagsFollowStartup'
  BY <1>1 DEF FlagsFollowStartup
<1>8. QED
  BY <1>2, <1>3, <1>6, <1>7 DEF WorkerSound

\* What happens at the queue leaves the shutdown where it stands.
LEMMA QueueKeepsSound ==
  ASSUME WorkerSound, NEW q \in Queues, Deliver(q) \/ HandlerEnds(q)
  PROVE  WorkerSound'
<1>1. UNCHANGED <<processVars, boss, clientStarted, runtimeStarted, timerVars, connected>>
  BY DEF Deliver, HandlerEnds
<1>2. ClientDown => ClientDown'
  BY DEF ClientDown, Deliver, HandlerEnds
<1>3. QED
  BY <1>1, <1>2 DEF WorkerSound, ProcessTyped, FlagsFollowStartup, Drained, SchedulersBehind,
     ClientBehind, processVars, timerVars

LEMMA SweepsKeepSound ==
  ASSUME WorkerSound, NEW s \in Range(Schedulers), Tick(s) \/ SweepEnds(s)
  PROVE  WorkerSound'
<1>1. UNCHANGED <<processVars, queueVars, armed, connected>>
  BY DEF Tick, SweepEnds
<1>2. ProcessTyped'
  BY <1>1 DEF Tick, SweepEnds, WorkerSound, ProcessTyped, processVars
<1>3. FlagsFollowStartup' /\ (~connected' => shutdown'.pc \in {"server", "done"})
  BY <1>1 DEF WorkerSound, FlagsFollowStartup, ClientDown, processVars, queueVars
<1>4. SchedulersBehind => SchedulersBehind'
  <2> SUFFICES ASSUME SchedulersBehind PROVE SchedulersBehind'
    OBVIOUS
  <2>1. \A j \in 1..Len(Schedulers) : shutdown.pc = "scheduler" /\ j < shutdown.at =>
          j <= shutdown.at
    BY SchedulerPlaces DEF SchedulersBehind
  <2>2. sweeping' \subseteq sweeping \cup armed
    BY DEF Tick, SweepEnds
  <2>3. QED
    BY <1>1, <2>1, <2>2 DEF SchedulersBehind, processVars
<1>5. ClientBehind => ClientBehind'
  BY <1>1 DEF ClientBehind, ClientDown, processVars, queueVars
<1>6. Drained'
  BY <1>1, <1>4, <1>5 DEF WorkerSound, Drained, processVars
<1>7. QED
  BY <1>2, <1>3, <1>6 DEF WorkerSound

LEMMA SignalKeepsSound == ASSUME WorkerSound, Signal PROVE WorkerSound'
<1>1. startup' = startup /\ shutDown /\ UNCHANGED <<queueVars, sweeping, connected>>
  BY DEF Signal
<1>2. startup' \in {"client", "verify", "work", "unwind", "check", "up", "failed"}
  BY <1>1 DEF WorkerSound, ProcessTyped
<1>3. startup' \in {"up", "failed"} => (runtimeStarted' /\ clientStarted') \/ ClientDown'
  BY <1>1 DEF WorkerSound, FlagsFollowStartup, shutDown, queueVars
<1>4. QED
  BY <1>1, <1>2, <1>3, ShutDownBegins

\* One scheduler after another, each with its sweep at an end; then the client,
\* which a worker whose flags are down has already lost.
LEMMA SchedulerStoppedKeepsSound == ASSUME WorkerSound, SchedulerStopped PROVE WorkerSound'
<1>1. /\ shutdown.pc = "scheduler" /\ Schedulers[shutdown.at] \notin sweeping
      /\ UNCHANGED <<startup, startupSeen, clientStarted, handling, outlived, sweeping, connected>>
  BY DEF SchedulerStopped, SweepAwaited
<1>2. connected /\ connected'
  BY <1>1 DEF WorkerSound, ProcessTyped
<1>3. shutdown.at \in Nat
  BY DEF WorkerSound, ProcessTyped
<1>4. CASE /\ shutdown.at < Len(Schedulers) /\ StopScheduler(shutdown.at + 1)
           /\ UNCHANGED <<boss, runtimeStarted>>
  <2>1. PICK k : k = shutdown.at
    OBVIOUS
  <2>2. PICK n : n = k + 1
    OBVIOUS
  <2>3. shutdown' = [pc |-> "scheduler", at |-> n] /\ armed' = armed \ {Schedulers[n]}
    BY <1>4, <2>1, <2>2 DEF StopScheduler
  <2>4. k \in Nat /\ n \in 1..Len(Schedulers) /\ n \in Nat
    BY <1>3, <1>4, <2>1, <2>2, SchedulerPlaces
  <2>5. ProcessTyped'
    BY <1>1, <2>3, <2>4 DEF WorkerSound, ProcessTyped
  <2>6. SchedulersBehind => SchedulersBehind'
    <3> SUFFICES ASSUME SchedulersBehind PROVE SchedulersBehind'
      OBVIOUS
    <3>1. /\ \A j \in 1..Len(Schedulers) : j <= k => Schedulers[j] \notin armed
          /\ \A j \in 1..Len(Schedulers) : j < k => Schedulers[j] \notin sweeping
          /\ Schedulers[k] \notin sweeping
      BY <1>1, <2>1 DEF SchedulersBehind
    <3>2. sweeping' = sweeping /\ armed' = armed \ {Schedulers[n]}
      BY <1>1, <2>3
    <3>3. ASSUME NEW j \in 1..Len(Schedulers), j <= n PROVE Schedulers[j] \notin armed'
      <4>1. CASE j <= k
        BY <3>1, <3>2, <4>1
      <4>2. CASE j = n
        BY <3>2, <4>2
      <4>3. j <= k \/ j = n
        BY <2>2, <2>4, <3>3
      <4>4. QED
        BY <4>1, <4>2, <4>3
    <3>4. ASSUME NEW j \in 1..Len(Schedulers), j < n PROVE Schedulers[j] \notin sweeping'
      <4>1. CASE j < k
        BY <3>1, <3>2, <4>1
      <4>2. CASE j = k
        BY <3>1, <3>2, <4>2
      <4>3. j < k \/ j = k
        BY <2>2, <2>4, <3>4
      <4>4. QED
        BY <4>1, <4>2, <4>3
    <3>5. QED
      BY <2>3, <2>4, <3>3, <3>4 DEF SchedulersBehind
  <2>7. ClientBehind => ClientBehind'
    BY <1>1, <1>4, <2>3 DEF ClientBehind, ClientDown
  <2>8. Drained'
    BY <1>1, <2>3, <2>6, <2>7 DEF WorkerSound, Drained
  <2>9. FlagsFollowStartup'
    BY <2>3 DEF FlagsFollowStartup
  <2>10. QED
    BY <1>2, <2>5, <2>8, <2>9 DEF WorkerSound
<1>5. CASE /\ shutdown.at = Len(Schedulers) /\ armed' = armed
           /\ \/ /\ runtimeStarted /\ clientStarted
                 /\ shutdown' = [pc |-> "runtime", at |-> 0] /\ boss' = "stopping"
              \/ /\ ~(runtimeStarted /\ clientStarted)
                 /\ shutdown' = [pc |-> "database", at |-> 0] /\ boss' = boss
  <2>1. shutdown'.pc \in {"runtime", "database"} /\ shutdown'.at \in Nat
    BY <1>5
  <2>2. ProcessTyped'
    BY <1>1, <1>5 DEF WorkerSound, ProcessTyped
  <2>3. SchedulersBehind => SchedulersBehind'
    <3> SUFFICES ASSUME SchedulersBehind PROVE SchedulersBehind'
      OBVIOUS
    <3>1. PICK n : n = shutdown.at
      OBVIOUS
    <3>2. n \in Nat /\ n = Len(Schedulers)
      BY <1>3, <1>5, <3>1
    <3>3. \A j \in 1..Len(Schedulers) : j <= n /\ (j < n \/ j = n)
      BY <3>2
    <3>4. \A j \in 1..Len(Schedulers) : Schedulers[j] \notin armed /\ Schedulers[j] \notin sweeping
      BY <1>1, <3>1, <3>3 DEF SchedulersBehind
    <3>5. armed = {} /\ sweeping = {}
      BY <3>4, SchedulerPlaces DEF WorkerSound, ProcessTyped
    <3>6. QED
      BY <1>1, <1>5, <2>1, <3>5 DEF SchedulersBehind
  <2>4. ClientBehind => ClientBehind'
    BY <1>1, <1>5 DEF ClientBehind, ClientDown
  <2>5. Drained'
    BY <1>1, <2>1, <2>3, <2>4 DEF WorkerSound, Drained
  <2>6. FlagsFollowStartup'
    BY <2>1 DEF FlagsFollowStartup
  <2>7. QED
    BY <1>2, <2>2, <2>5, <2>6 DEF WorkerSound
<1>6. QED
  BY <1>4, <1>5 DEF SchedulerStopped

LEMMA StopLeavesNothing == ASSUME NEW ok, BossStops(ok) PROVE handling' = handling => ClientDown'
  BY DEF BossStops, ClientDown

LEMMA RuntimeStoppedKeepsSound == ASSUME WorkerSound, RuntimeStopped PROVE WorkerSound'
<1>1. /\ shutdown.pc = "runtime" /\ shutdown' \in [pc : {"database", "failed"}, at : Nat]
      /\ UNCHANGED <<startup, startupSeen, handling, timerVars, connected>>
  BY DEF RuntimeStopped
<1>2. ClientDown'
  BY StopLeavesNothing DEF RuntimeStopped
<1>3. connected /\ connected' /\ FlagsFollowStartup'
  BY <1>1 DEF WorkerSound, ProcessTyped, FlagsFollowStartup
<1>4. ProcessTyped'
  BY <1>1 DEF WorkerSound, ProcessTyped, timerVars
<1>5. Drained'
  BY <1>1, <1>2 DEF WorkerSound, Drained, SchedulersBehind, ClientBehind, timerVars
<1>6. QED
  BY <1>3, <1>4, <1>5 DEF WorkerSound

LEMMA LastStopsKeepSound ==
  ASSUME WorkerSound, DatabaseDisconnected \/ ServerClosed
  PROVE  WorkerSound'
<1>1. /\ shutdown.pc \in {"database", "server"}
      /\ shutdown' \in [pc : {"server", "done", "failed"}, at : Nat]
      /\ UNCHANGED <<startup, startupSeen, queueVars, timerVars>>
  BY DEF DatabaseDisconnected, ServerClosed
<1>2. connected' \in BOOLEAN
  BY DEF DatabaseDisconnected, ServerClosed, WorkerSound, ProcessTyped
<1>3. ~connected' => shutdown'.pc \in {"server", "done"}
  BY DEF DatabaseDisconnected, ServerClosed, WorkerSound
<1>4. ProcessTyped' /\ FlagsFollowStartup'
  BY <1>1, <1>2 DEF WorkerSound, ProcessTyped, FlagsFollowStartup, timerVars
<1>5. Drained'
  BY <1>1 DEF WorkerSound, Drained, SchedulersBehind, ClientBehind, ClientDown, timerVars, queueVars
<1>6. QED
  BY <1>3, <1>4, <1>5 DEF WorkerSound

\* While the startup goes on no shutdown has begun, or one that promises nothing.
LEMMA StartupMoves ==
  ASSUME WorkerSound, startup \in {"client", "verify", "work", "unwind", "check"},
         startup' \in {"verify", "work", "unwind", "check", "up"},
         UNCHANGED <<shutdown, startupSeen, connected>>,
         armed' \subseteq Range(Schedulers), sweeping' \subseteq Range(Schedulers),
         FlagsFollowStartup'
  PROVE  WorkerSound'
<1>1. startupSeen \notin {"up", "failed"}
  BY DEF WorkerSound, Drained
<1>2. QED
  BY <1>1 DEF WorkerSound, ProcessTyped, Drained

LEMMA StartupKeepsSound ==
  ASSUME WorkerSound, ClientStarts \/ Subscribe \/ SubscriptionFails \/ CheckPasses
  PROVE  WorkerSound'
<1>1. startup \in {"client", "verify", "work", "unwind", "check"}
      /\ startup' \in {"verify", "work", "unwind", "check", "up"}
      /\ UNCHANGED <<shutdown, startupSeen, connected>>
  BY DEF ClientStarts, Subscribe, SubscriptionFails, CheckPasses
<1>2. armed' \subseteq Range(Schedulers) /\ sweeping' \subseteq Range(Schedulers)
  BY DEF ClientStarts, Subscribe, SubscriptionFails, CheckPasses, timerVars, WorkerSound,
     ProcessTyped
<1>3. FlagsFollowStartup'
  <2>1. CASE ClientStarts
    BY <2>1 DEF ClientStarts, WorkerSound, FlagsFollowStartup
  <2>2. CASE Subscribe
    BY <2>2 DEF Subscribe, WorkerSound, FlagsFollowStartup
  <2>3. CASE SubscriptionFails
    BY <2>3 DEF SubscriptionFails, WorkerSound, FlagsFollowStartup
  <2>4. CASE CheckPasses
    BY <2>4 DEF CheckPasses, WorkerSound, FlagsFollowStartup, queueVars
  <2>5. QED
    BY <2>1, <2>2, <2>3, <2>4
<1>4. QED
  BY <1>1, <1>2, <1>3, StartupMoves

\* A failed startup shuts down itself, or is in the middle of a shutdown that
\* was called before.
LEMMA StartFailsKeepsSound ==
  ASSUME WorkerSound, StartFails, startup # "failed", startup # "up",
         UNCHANGED <<sweeping, connected>>,
         shutdown.pc = "none" => (runtimeStarted' /\ clientStarted') \/ ClientDown'
  PROVE  WorkerSound'
<1>1. startup' = "failed"
  BY DEF StartFails
<1>2. CASE shutDown
  <2>1. shutdown.pc = "none"
    BY <1>2 DEF shutDown
  <2>2. QED
    BY <1>1, <1>2, <2>1, ShutDownBegins
<1>3. CASE shutdown.pc # "none" /\ UNCHANGED <<shutdown, startupSeen, armed>>
  <2>1. startupSeen \notin {"up", "failed"}
    BY DEF WorkerSound, Drained
  <2>2. QED
    BY <1>1, <1>3, <2>1 DEF WorkerSound, ProcessTyped, Drained, FlagsFollowStartup
<1>4. QED
  BY <1>2, <1>3 DEF StartFails

LEMMA FailuresKeepSound ==
  ASSUME WorkerSound, ClientFails \/ Unwound \/ CheckFails
  PROVE  WorkerSound'
<1>1. StartFails /\ startup # "failed" /\ startup # "up" /\ UNCHANGED <<sweeping, connected>>
  BY DEF ClientFails, Unwound, CheckFails
<1>2. ASSUME shutdown.pc = "none"
      PROVE  (runtimeStarted' /\ clientStarted') \/ ClientDown'
  <2>1. CASE ClientFails
    BY <1>2, <2>1 DEF ClientFails, WorkerSound, FlagsFollowStartup, ClientDown, queueVars
  <2>2. CASE Unwound
    BY <2>2, StopLeavesNothing DEF Unwound
  <2>3. CASE CheckFails
    BY <1>2, <2>3 DEF CheckFails, WorkerSound, FlagsFollowStartup, queueVars
  <2>4. QED
    BY <2>1, <2>2, <2>3
<1>3. QED
  BY <1>1, <1>2, StartFailsKeepsSound

LEMMA WorkerStepKeepsSound == WorkerSound /\ [WorkerNext]_workerVars => WorkerSound'
<1> SUFFICES ASSUME WorkerSound, [WorkerNext]_workerVars PROVE WorkerSound'
  OBVIOUS
<1>1. CASE UNCHANGED workerVars
  BY <1>1 DEF WorkerSound, ProcessTyped, FlagsFollowStartup, Drained, SchedulersBehind,
     ClientBehind, ClientDown, workerVars, processVars, queueVars, timerVars
<1>2. CASE WorkerNext
  BY <1>2, QueueKeepsSound, SweepsKeepSound, SignalKeepsSound, SchedulerStoppedKeepsSound,
     RuntimeStoppedKeepsSound, LastStopsKeepSound, StartupKeepsSound, FailuresKeepSound
  DEF WorkerNext
<1>3. QED
  BY <1>1, <1>2

\* For any schedulers and queues: a shutdown that was called when the startup
\* had ended lets go of the database only when every timer is off, every sweep
\* has ended and the queue client has been stopped.
THEOREM ShutdownsDrainTheWorker == WorkerSpec => []ShutdownDrains
<1>1. WorkerSound => ShutdownDrains
  BY DEF WorkerSound, Drained, SchedulersBehind, ClientBehind, ClientDown, ShutdownDrains
<1>2. QED
  BY <1>1, WorkerSoundStarts, WorkerStepKeepsSound, PTL DEF WorkerSpec

-----------------------------------------------------------------------------
(* RetryPolicy.  The budget grows by one attempt at most with each retry by*)
(* hand, and a delay is the largest of what asks for one.                  *)

Chains ==
  [state : {"QUEUED", "FAILED_ATTENTION"}, attempt : Nat, max : Nat, due : Int, manual : Nat,
   nextAction : {"none", "RETRY_AUTOMATIC", "RECONNECT_ACCOUNT", "REPLACE_INPUT",
                 "CONTACT_SUPPORT", "REVIEW_OUTPUT"}]

RetrySound ==
  /\ chain \in Chains /\ elapsed \in Int
  /\ chain.attempt <= chain.max /\ chain.max <= RetryBudget + chain.manual
  /\ AutomaticRetriesStayInBounds

LEMMA LargerOfIntegers ==
  ASSUME NEW a \in Int, NEW b \in Int
  PROVE  Larger(a, b) \in Int /\ a <= Larger(a, b) /\ b <= Larger(a, b) /\ Larger(a, b) \in {a, b}
  BY DEF Larger

\* The floor of a jittered delay.
leastDelayMs == 1000

LEMMA LongEnough ==
  ASSUME NEW least \in Int, NEW wanted \in Int, NEW hint \in Int
  PROVE  \E d \in Int : d = Larger(Larger(least, wanted), hint) /\ least <= d /\ hint <= d
  BY DEF Larger

LEMMA ProviderDelaysAreIntegers == ProviderDelays \subseteq Int
<1> SUFFICES ASSUME NEW s \in RetryAfterSeconds
             PROVE  /\ ParseRetryAfterMs(s) # Null => ParseRetryAfterMs(s) \in Int
                    /\ parseGeminiRetryAfterMs(s) # Null => parseGeminiRetryAfterMs(s) \in Int
  BY DEF ProviderDelays
<1>1. s = Null \/ s \in Int
  BY RetryAssumption
<1>2. QED
  BY <1>1 DEF ParseRetryAfterMs, parseGeminiRetryAfterMs

LEMMA CapsAreIntegers ==
  ASSUME NEW class \in jobFailureClasses, NEW k \in DOMAIN retryCaps[class], NEW jitter \in Int
  PROVE  (retryCaps[class][k] \div 100) * jitter \in Int
<1>1. retryCaps[class] \in Seq(Int)
  <2>1. class \in {"CREDENTIAL", "DATABASE", "INVALID_INPUT", "RATE_LIMIT", "SEMANTIC_OUTPUT",
                   "TRANSIENT", "UNKNOWN"}
    BY DEF jobFailureClasses, retryCaps
  <2>2. CASE class \in {"CREDENTIAL", "SEMANTIC_OUTPUT"}
    <3>1. retryCaps[class] = <<1000>>
      BY <2>2 DEF retryCaps
    <3>2. QED
      BY <3>1
  <2>7. CASE class = "DATABASE"
    BY <2>7 DEF retryCaps
  <2>5. CASE class \in {"INVALID_INPUT", "UNKNOWN"}
    <3>1. retryCaps[class] = <<>>
      BY <2>5 DEF retryCaps
    <3>2. QED
      BY <3>1
  <2>3. CASE class = "RATE_LIMIT"
    BY <2>3 DEF retryCaps
  <2>4. CASE class = "TRANSIENT"
    BY <2>4 DEF retryCaps
  <2>6. QED
    BY <2>1, <2>2, <2>3, <2>4, <2>5, <2>7
<1>2. retryCaps[class][k] \in Int
  BY <1>1
<1>3. PICK c \in Int : c = retryCaps[class][k] \div 100
  BY <1>2
<1>4. c * jitter \in Int
  OBVIOUS
<1>5. QED
  BY <1>3, <1>4

\* A decision to retry waits long enough, and not too long.
WaitsInTime(d, hint, now, attempt, max) ==
  d > 0 => leastDelayMs <= d /\ hint <= d /\ now + d <= retryHorizonMs /\ attempt < max

LEMMA DecisionsToRetry ==
  ASSUME NEW attempt \in Nat, NEW max \in Nat, NEW now \in Int,
         NEW failure \in Failures, NEW jitter \in JitterPercents
  PROVE  \E d, hint \in Int :
           /\ d = decideJobRetry(attempt, max, failure, now, jitter) /\ hint = failure.retryAfter
           /\ WaitsInTime(d, hint, now, attempt, max)
<1> DEFINE decided == decideJobRetry(attempt, max, failure, now, jitter)
<1> DEFINE caps == retryCaps[failure.class]
           wanted == (caps[attempt] \div 100) * jitter
           delay == Larger(Larger(1000, wanted), failure.retryAfter)
<1>1. failure.class \in jobFailureClasses /\ failure.retryAfter \in Int
  BY ProviderDelaysAreIntegers DEF Failures
<1>2. jitter \in Int
  BY RetryAssumption
<1>3. PICK hint \in Int : hint = failure.retryAfter
  BY <1>1
<1>4. \/ decided = 0
      \/ /\ decided = delay /\ WithinHorizon(now, delay)
         /\ ~(attempt >= max) /\ attempt \in DOMAIN caps
  BY DEF decideJobRetry
<1>5. CASE decided = 0
  BY <1>3, <1>5 DEF WaitsInTime
<1>6. ASSUME decided = delay, WithinHorizon(now, delay), ~(attempt >= max), attempt \in DOMAIN caps
      PROVE  \E d \in Int : /\ d = decided /\ leastDelayMs <= d /\ hint <= d
                            /\ now + d <= retryHorizonMs /\ attempt < max
  <2>1. wanted \in Int
    BY <1>1, <1>2, <1>6, CapsAreIntegers
  <2>2. PICK d \in Int : d = delay /\ leastDelayMs <= d /\ hint <= d
    <3> HIDE DEF wanted
    <3>1. PICK a \in Int : a = wanted
      BY <2>1
    <3>2. PICK least \in Int : least = leastDelayMs
      BY DEF leastDelayMs
    <3>3. PICK d \in Int : d = Larger(Larger(least, a), hint) /\ least <= d /\ hint <= d
      BY <1>3, <3>1, <3>2, LongEnough, Zenon
    <3>4. d = Larger(Larger(1000, wanted), failure.retryAfter)
      BY <1>3, <3>1, <3>2, <3>3 DEF leastDelayMs
    <3>5. QED
      BY <3>2, <3>3, <3>4
  <2>3. decided = d /\ now + d <= retryHorizonMs
    BY <1>6, <2>2 DEF WithinHorizon
  <2>4. QED
    BY <1>6, <2>2, <2>3
<1>7. QED
  BY <1>3, <1>4, <1>5, <1>6 DEF WaitsInTime

LEMMA NextActions == \A failure \in Failures : NextAction(failure) \in
  {"none", "RECONNECT_ACCOUNT", "REPLACE_INPUT", "CONTACT_SUPPORT", "REVIEW_OUTPUT"}
  BY DEF NextAction, terminalNextAction, fallbackTerminalAction

LEMMA RetrySoundStarts == RetryInit => RetrySound
  BY RetryAssumption DEF RetryInit, RetrySound, Chains, AutomaticRetriesStayInBounds

LEMMA FailureKeepsBounds ==
  ASSUME RetrySound, NEW failure \in Failures, NEW jitter \in JitterPercents,
         NEW duration \in HandlerDurations, AttemptFails(failure, jitter, duration)
  PROVE  RetrySound'
<1>1. /\ chain.attempt \in Nat /\ chain.max \in Nat /\ chain.due \in Int /\ chain.manual \in Nat
      /\ chain.max <= RetryBudget + chain.manual /\ chain.attempt < chain.max
  BY DEF RetrySound, Chains, AttemptFails
<1>2. duration \in Nat
  BY RetryAssumption
<1>3. PICK now \in Int : now = Larger(elapsed, chain.due) + duration
  <2>1. elapsed \in Int
    BY DEF RetrySound
  <2>2. Larger(elapsed, chain.due) \in Int
    BY <1>1, <2>1, LargerOfIntegers
  <2>3. QED
    BY <1>2, <2>2
<1>4. PICK attempt \in Nat : attempt = chain.attempt + 1
  BY <1>1
<1>5. PICK delay, hint \in Int :
        /\ delay = decideJobRetry(attempt, chain.max, failure, now, jitter)
        /\ hint = failure.retryAfter
        /\ WaitsInTime(delay, hint, now, attempt, chain.max)
  <2>1. PICK max \in Nat : max = chain.max
    BY <1>1
  <2>2. PICK delay, hint \in Int :
          /\ delay = decideJobRetry(attempt, max, failure, now, jitter)
          /\ hint = failure.retryAfter
          /\ WaitsInTime(delay, hint, now, attempt, max)
    BY DecisionsToRetry
  <2>3. QED
    BY <2>1, <2>2
<1>6. PICK state \in {"QUEUED", "FAILED_ATTENTION"} :
        state = IF delay > 0 THEN "QUEUED" ELSE "FAILED_ATTENTION"
  OBVIOUS
<1>7. PICK next \in {"none", "RETRY_AUTOMATIC", "RECONNECT_ACCOUNT", "REPLACE_INPUT",
                     "CONTACT_SUPPORT", "REVIEW_OUTPUT"} :
        /\ next = IF delay > 0 THEN "RETRY_AUTOMATIC" ELSE NextAction(failure)
        /\ next = "RETRY_AUTOMATIC" => delay > 0
  BY NextActions
<1>8. PICK due \in Int : due = now + delay
  OBVIOUS
<1>9. /\ elapsed' = now /\ lastDelay' = [asked |-> hint, given |-> delay]
      /\ chain' = [chain EXCEPT !.attempt = attempt, !.due = due, !.state = state,
                                !.nextAction = next]
  BY <1>3, <1>4, <1>5, <1>6, <1>7, <1>8 DEF AttemptFails
<1>10. /\ chain' \in Chains /\ chain'.attempt = attempt /\ chain'.max = chain.max
       /\ chain'.manual = chain.manual /\ chain'.due = due /\ chain'.nextAction = next
  BY <1>9 DEF RetrySound, Chains
<1>11. chain'.attempt <= chain'.max /\ chain'.max <= RetryBudget + chain'.manual
  BY <1>1, <1>4, <1>10
<1>12. AutomaticRetriesStayInBounds'
  <2> SUFFICES ASSUME next = "RETRY_AUTOMATIC"
               PROVE  /\ hint <= delay /\ leastDelayMs <= delay /\ due <= retryHorizonMs
                      /\ attempt < RetryBudget + chain.manual
    BY <1>9, <1>10 DEF AutomaticRetriesStayInBounds, leastDelayMs
  <2>1. RetryBudget \in Nat
    BY RetryAssumption
  <2>2. QED
    BY <1>1, <1>5, <1>7, <1>8, <2>1 DEF WaitsInTime
<1>13. QED
  BY <1>9, <1>10, <1>11, <1>12 DEF RetrySound

LEMMA RetryByHandKeepsBounds ==
  ASSUME RetrySound, NEW later \in HandlerDurations, ManualRetry(later)
  PROVE  RetrySound'
<1>1. /\ chain.attempt \in Nat /\ chain.max \in Nat /\ chain.due \in Int /\ chain.manual \in Nat
      /\ chain.max <= RetryBudget + chain.manual /\ chain.attempt <= chain.max
      /\ elapsed \in Int /\ later \in Nat /\ RetryBudget \in Nat
  BY RetryAssumption DEF RetrySound, Chains
<1>2. PICK now \in Int : now = elapsed + later
  BY <1>1
<1>3. PICK manual \in Nat : manual = chain.manual + 1
  BY <1>1
<1>4. PICK max \in Nat : max = Larger(chain.max, chain.attempt + 1) /\ chain.attempt <= max
                         /\ max <= RetryBudget + manual
  <2>1. PICK more \in Nat : more = chain.attempt + 1
    BY <1>1
  <2>2. PICK most \in Nat : most = chain.max
    BY <1>1
  <2>3. PICK max : max = Larger(most, more)
    OBVIOUS
  <2>4. max = most \/ max = more
    BY <2>3 DEF Larger
  <2>5. most <= max
    BY <2>3 DEF Larger
  <2>6. QED
    BY <1>1, <1>3, <2>1, <2>2, <2>3, <2>4, <2>5
<1>5. chain' = [chain EXCEPT !.state = "QUEUED", !.due = now, !.manual = manual, !.max = max,
                             !.nextAction = "none"]
      /\ elapsed' = now
  BY <1>2, <1>3, <1>4 DEF ManualRetry
<1>6. /\ chain' \in Chains /\ chain'.attempt = chain.attempt /\ chain'.max = max
      /\ chain'.manual = manual /\ chain'.nextAction = "none"
  BY <1>5 DEF RetrySound, Chains
<1>7. QED
  BY <1>4, <1>5, <1>6 DEF RetrySound, AutomaticRetriesStayInBounds

\* "A provider hint can lengthen a delay but cannot extend the job beyond its
\* configured attempt cap or the 24-hour retry horizon": for every budget,
\* jitter, Retry-After header and duration of an attempt.
THEOREM RetriesStayInBounds == RetrySpec => []AutomaticRetriesStayInBounds
<1>1. RetrySound /\ [RetryNext]_retryVars => RetrySound'
  <2> SUFFICES ASSUME RetrySound, [RetryNext]_retryVars PROVE RetrySound'
    OBVIOUS
  <2>1. CASE UNCHANGED retryVars
    BY <2>1 DEF RetrySound, AutomaticRetriesStayInBounds, retryVars
  <2>2. CASE RetryNext
    BY <2>2, FailureKeepsBounds, RetryByHandKeepsBounds DEF RetryNext
  <2>3. QED
    BY <2>1, <2>2
<1>2. RetrySound => AutomaticRetriesStayInBounds
  BY DEF RetrySound
<1>3. QED
  BY <1>1, <1>2, RetrySoundStarts, PTL DEF RetrySpec

-----------------------------------------------------------------------------
(* ChatTurn.  A turn that has asked keeps its question where it put it, or  *)
(* the whole conversation was deleted; so the position after it is either   *)
(* the end of the conversation or taken.                                   *)

\* What a message may cite, and what a strategy lets it cite.
CitableOf(strategy) ==
  {"post_001"} \cup (IF strategy = 0 THEN {} ELSE DOMAIN StrategyEvidence[strategy])
Citable == UNION {CitableOf(k) : k \in 0..Len(StrategyEvidence)}
Strategies == 0..Len(StrategyEvidence)

Messages ==
  [seq : Nat, role : {"user", "assistant"}, turn : Turns, failed : BOOLEAN,
   strategy : Strategies, cited : SUBSET Citable]

ConversationRows ==
  [open : BOOLEAN, count : Nat, title : {"none", "new", "chosen", "derived", "deleted"},
   chosen : BOOLEAN, messages : SUBSET Messages]

TurnRows ==
  [pc : {"idle", "question", "context", "model", "answer", "done"},
   session : Conversations \cup {Null}, sequence : Nat, strategy : Strategies,
   offered : SUBSET Citable, cited : SUBSET Citable, failed : BOOLEAN]

ChatTyped ==
  /\ conversation \in [Conversations -> ConversationRows] /\ turn \in [Turns -> TurnRows]
  /\ shown \in Strategies

\* The positions of a transcript, and what an answer answers.
OrderedTranscript(row) ==
  /\ IsFiniteSet(row.messages) /\ Cardinality(row.messages) = row.count
  /\ {m.seq : m \in row.messages} = 0..(row.count - 1)
  /\ \A a \in row.messages : a.role = "assistant" =>
       \E q \in row.messages : q.role = "user" /\ q.turn = a.turn /\ q.seq = a.seq - 1

CitesItsStrategy(row) == \A m \in row.messages : m.cited \subseteq CitableOf(m.strategy)

ConversationSound(row) == OrderedTranscript(row) /\ CitesItsStrategy(row)

\* A deleted conversation is not begun again.
QuestionStands(row, t, sequence) ==
  \/ ~row.open /\ row.title = "deleted"
  \/ row.open /\ \E q \in row.messages : q.role = "user" /\ q.turn = t /\ q.seq = sequence

TurnSound(t, row, rows) ==
  /\ row.pc \in {"question", "context", "model", "answer"} => row.session \in Conversations
  /\ row.pc \in {"context", "model", "answer"} =>
       QuestionStands(rows[row.session], t, row.sequence)
  /\ row.pc = "model" => row.offered \subseteq CitableOf(row.strategy)
  /\ row.pc = "answer" => row.cited \subseteq CitableOf(row.strategy)

ChatSound ==
  /\ ChatTyped
  /\ \A s \in Conversations : ConversationSound(conversation[s])
  /\ \A t \in Turns : TurnSound(t, turn[t], conversation)

LEMMA StrategyPlaces ==
  /\ Len(StrategyEvidence) \in Nat /\ 0 \in Strategies
  /\ \A k \in Strategies : CitableOf(k) \subseteq Citable
<1>1. Len(StrategyEvidence) \in Nat
  BY ChatAssumption
<1>2. QED
  BY <1>1 DEF Strategies, Citable

LEMMA FreshRows ==
  /\ IdleTurn \in TurnRows /\ DoneTurn \in TurnRows
  /\ NoConversation \in ConversationRows /\ ConversationSound(NoConversation)
<1>1. IdleTurn \in TurnRows
  BY StrategyPlaces DEF IdleTurn, TurnRows
<1>2. DoneTurn \in TurnRows
  BY <1>1 DEF DoneTurn, TurnRows
<1>3. NoConversation \in ConversationRows
  BY DEF NoConversation, ConversationRows
<1>4. IsFiniteSet({}) /\ Cardinality({}) = 0
  BY FS_EmptySet
<1>5. {m.seq : m \in {}} = 0..(0 - 1)
  OBVIOUS
<1>6. ConversationSound(NoConversation)
  BY <1>4, <1>5 DEF ConversationSound, OrderedTranscript, CitesItsStrategy, NoConversation
<1>7. QED
  BY <1>1, <1>2, <1>3, <1>6

LEMMA ChatSoundStarts == ChatInit => ChatSound
<1> SUFFICES ASSUME ChatInit PROVE ChatSound
  OBVIOUS
<1>1. ChatTyped
  BY FreshRows, StrategyPlaces DEF ChatInit, ChatTyped
<1>2. \A s \in Conversations : ConversationSound(conversation[s])
  BY FreshRows DEF ChatInit
<1>3. \A t \in Turns : TurnSound(t, turn[t], conversation)
  BY DEF ChatInit, TurnSound, IdleTurn
<1>4. QED
  BY <1>1, <1>2, <1>3 DEF ChatSound

\* A conversation that changes keeps the questions that stand in it.
LEMMA OneConversationChanges ==
  ASSUME ChatSound, NEW s \in Conversations, NEW row \in ConversationRows,
         ConversationSound(row), conversation' = [conversation EXCEPT ![s] = row],
         \A t \in Turns, n \in Nat :
           QuestionStands(conversation[s], t, n) => QuestionStands(row, t, n)
  PROVE  /\ conversation' \in [Conversations -> ConversationRows]
         /\ \A c \in Conversations : ConversationSound(conversation'[c])
         /\ \A t \in Turns : TurnSound(t, turn[t], conversation')
<1>1. conversation \in [Conversations -> ConversationRows] /\ turn \in [Turns -> TurnRows]
  BY DEF ChatSound, ChatTyped
<1>2. /\ conversation' \in [Conversations -> ConversationRows] /\ conversation'[s] = row
      /\ \A c \in Conversations : c # s => conversation'[c] = conversation[c]
  BY <1>1
<1>3. \A c \in Conversations : ConversationSound(conversation'[c])
  BY <1>2 DEF ChatSound
<1>4. \A t \in Turns, n \in Nat, c \in Conversations :
        QuestionStands(conversation[c], t, n) => QuestionStands(conversation'[c], t, n)
  BY <1>2
<1>5. ASSUME NEW t \in Turns PROVE TurnSound(t, turn[t], conversation')
  <2>1. TurnSound(t, turn[t], conversation) /\ turn[t].sequence \in Nat
    BY <1>1 DEF ChatSound, TurnRows
  <2>2. QED
    BY <1>4, <2>1 DEF TurnSound
<1>6. QED
  BY <1>2, <1>3, <1>5

LEMMA OneTurnMoves ==
  ASSUME ChatSound, NEW t \in Turns, NEW row \in TurnRows,
         turn' = [turn EXCEPT ![t] = row], shown' \in Strategies,
         conversation' \in [Conversations -> ConversationRows],
         \A s \in Conversations : ConversationSound(conversation'[s]),
         \A u \in Turns : TurnSound(u, turn[u], conversation'),
         TurnSound(t, row, conversation')
  PROVE  ChatSound'
<1>1. turn \in [Turns -> TurnRows]
  BY DEF ChatSound, ChatTyped
<1>2. /\ turn' \in [Turns -> TurnRows] /\ turn'[t] = row
      /\ \A u \in Turns : u # t => turn'[u] = turn[u]
  BY <1>1
<1>3. ChatTyped'
  BY <1>2 DEF ChatTyped
<1>4. \A u \in Turns : TurnSound(u, turn'[u], conversation')
  BY <1>2
<1>5. QED
  BY <1>3, <1>4 DEF ChatSound

LEMMA OnlyTheTurnMoves ==
  ASSUME ChatSound, NEW t \in Turns, NEW row \in TurnRows,
         turn' = [turn EXCEPT ![t] = row], UNCHANGED <<conversation, shown>>,
         TurnSound(t, row, conversation)
  PROVE  ChatSound'
<1>1. shown' \in Strategies /\ conversation' \in [Conversations -> ConversationRows]
  BY DEF ChatSound, ChatTyped
<1>2. /\ \A s \in Conversations : ConversationSound(conversation'[s])
      /\ \A u \in Turns : TurnSound(u, turn[u], conversation')
      /\ TurnSound(t, row, conversation')
  BY DEF ChatSound
<1>3. QED
  BY <1>1, <1>2, OneTurnMoves

LEMMA SessionStepsKeepSound ==
  ASSUME ChatSound, NEW s \in Conversations, StartSession(s) \/ RenameSession(s) \/ DeleteSession(s)
  PROVE  ChatSound'
<1>1. conversation[s] \in ConversationRows /\ ConversationSound(conversation[s])
  BY DEF ChatSound, ChatTyped
<1>2. PICK row \in ConversationRows :
        /\ conversation' = [conversation EXCEPT ![s] = row] /\ ConversationSound(row)
        /\ \A t \in Turns, n \in Nat :
             QuestionStands(conversation[s], t, n) => QuestionStands(row, t, n)
  <2>1. CASE StartSession(s)
    <3>1. PICK row \in ConversationRows :
            row = [NoConversation EXCEPT !.open = TRUE, !.title = "new"]
            /\ row.messages = NoConversation.messages /\ row.count = NoConversation.count
      <4>1. \A r \in ConversationRows :
              LET new == [r EXCEPT !.open = TRUE, !.title = "new"]
              IN new \in ConversationRows /\ new.messages = r.messages /\ new.count = r.count
        BY DEF ConversationRows
      <4>2. QED
        BY <4>1, FreshRows
    <3>2. ConversationSound(row)
      BY <3>1, FreshRows DEF ConversationSound, OrderedTranscript, CitesItsStrategy
    <3>3. conversation[s] = NoConversation /\ conversation' = [conversation EXCEPT ![s] = row]
      BY <2>1, <3>1 DEF StartSession
    <3>4. \A t \in Turns, n \in Nat : ~QuestionStands(conversation[s], t, n)
      <4>1. NoConversation.open = FALSE /\ NoConversation.title = "none"
        BY DEF NoConversation
      <4>2. QED
        BY <3>3, <4>1 DEF QuestionStands
    <3>5. QED
      BY <3>2, <3>3, <3>4
  <2>2. CASE RenameSession(s)
    <3>1. PICK row \in ConversationRows :
            /\ row = [conversation[s] EXCEPT !.title = "chosen", !.chosen = TRUE]
            /\ row.messages = conversation[s].messages /\ row.count = conversation[s].count
            /\ row.open = conversation[s].open
      <4>1. \A r \in ConversationRows :
              LET new == [r EXCEPT !.title = "chosen", !.chosen = TRUE]
              IN /\ new \in ConversationRows /\ new.messages = r.messages
                 /\ new.count = r.count /\ new.open = r.open
        BY DEF ConversationRows
      <4>2. QED
        BY <1>1, <4>1
    <3>2. ConversationSound(row)
      BY <1>1, <3>1 DEF ConversationSound, OrderedTranscript, CitesItsStrategy
    <3>3. conversation[s].open /\ conversation' = [conversation EXCEPT ![s] = row]
      BY <2>2, <3>1 DEF RenameSession
    <3>4. \A t \in Turns, n \in Nat :
            QuestionStands(conversation[s], t, n) => QuestionStands(row, t, n)
      BY <3>1, <3>3 DEF QuestionStands
    <3>5. QED
      BY <3>2, <3>3, <3>4
  <2>3. CASE DeleteSession(s)
    <3>1. PICK row \in ConversationRows :
            row = [NoConversation EXCEPT !.title = "deleted"] /\ ~row.open /\ row.title = "deleted"
            /\ row.messages = NoConversation.messages /\ row.count = NoConversation.count
      <4>1. \A r \in ConversationRows :
              LET new == [r EXCEPT !.title = "deleted"]
              IN /\ new \in ConversationRows /\ new.messages = r.messages /\ new.count = r.count
                 /\ new.open = r.open /\ new.title = "deleted"
        BY DEF ConversationRows
      <4>2. ~NoConversation.open
        BY DEF NoConversation
      <4>3. QED
        BY <4>1, <4>2, FreshRows
    <3>2. ConversationSound(row)
      BY <3>1, FreshRows DEF ConversationSound, OrderedTranscript, CitesItsStrategy
    <3>3. conversation' = [conversation EXCEPT ![s] = row]
      BY <2>3, <3>1 DEF DeleteSession
    <3>4. \A t \in Turns, n \in Nat : QuestionStands(row, t, n)
      BY <3>1 DEF QuestionStands
    <3>5. QED
      BY <3>2, <3>3, <3>4
  <2>4. QED
    BY <2>1, <2>2, <2>3
<1>3. /\ conversation' \in [Conversations -> ConversationRows]
      /\ \A c \in Conversations : ConversationSound(conversation'[c])
      /\ \A t \in Turns : TurnSound(t, turn[t], conversation')
  BY <1>2, OneConversationChanges
<1>4. UNCHANGED <<turn, shown>>
  BY DEF StartSession, RenameSession, DeleteSession
<1>5. ChatTyped'
  BY <1>3, <1>4 DEF ChatSound, ChatTyped
<1>6. \A t \in Turns : TurnSound(t, turn'[t], conversation')
  BY <1>3, <1>4
<1>7. QED
  BY <1>3, <1>5, <1>6 DEF ChatSound

LEMMA StrategiesComeOn ==
  ASSUME ChatSound, ShowNextStrategy \/ HourPasses
  PROVE  ChatSound'
<1>1. shown' \in Strategies
  BY StrategyPlaces DEF ShowNextStrategy, HourPasses, ChatSound, ChatTyped, Strategies
<1>2. UNCHANGED <<conversation, turn>>
  BY DEF ShowNextStrategy, HourPasses
<1>3. ChatTyped'
  BY <1>1, <1>2 DEF ChatSound, ChatTyped
<1>4. /\ \A s \in Conversations : ConversationSound(conversation'[s])
      /\ \A t \in Turns : TurnSound(t, turn'[t], conversation')
  BY <1>2 DEF ChatSound
<1>5. QED
  BY <1>3, <1>4 DEF ChatSound

\* Steps after which a turn has nothing to answer for.
LEMMA EndsKeepSound ==
  ASSUME ChatSound, NEW t \in Turns, QuestionFails(t) \/ TurnDies(t)
  PROVE  ChatSound'
<1>1. turn' = [turn EXCEPT ![t] = DoneTurn] /\ UNCHANGED <<conversation, shown>>
  BY DEF QuestionFails, TurnDies
<1>2. TurnSound(t, DoneTurn, conversation)
  BY DEF TurnSound, DoneTurn, IdleTurn
<1>3. QED
  BY <1>1, <1>2, FreshRows, OnlyTheTurnMoves

LEMMA BeginKeepsSound ==
  ASSUME ChatSound, NEW t \in Turns, NEW s \in Conversations, BeginTurn(t, s)
  PROVE  ChatSound'
<1>1. PICK row \in TurnRows :
        row = [IdleTurn EXCEPT !.pc = "question", !.session = s] /\ row.pc = "question"
        /\ row.session = s
  <2>1. \A r \in TurnRows : LET new == [r EXCEPT !.pc = "question", !.session = s]
                            IN new \in TurnRows /\ new.pc = "question" /\ new.session = s
    BY DEF TurnRows
  <2>2. QED
    BY <2>1, FreshRows
<1>2. turn' = [turn EXCEPT ![t] = row] /\ UNCHANGED <<conversation, shown>>
  BY <1>1 DEF BeginTurn
<1>3. TurnSound(t, row, conversation)
  BY <1>1 DEF TurnSound
<1>4. QED
  BY <1>2, <1>3, OnlyTheTurnMoves

\* What the context offers, whatever of it fits.
LEMMA OfferedByItsStrategy ==
  ASSUME NEW k \in Strategies
  PROVE  AssembleContext(k).ids \subseteq CitableOf(k)
<1> DEFINE none == [tokens |-> 0, ids |-> {}]
           one == Include(none, AccountBlock)
           two == Include(one, StrategyBlock(k))
<1>1. \A acc, b : Include(acc, b).ids \subseteq acc.ids \cup b.ids
  BY DEF Include
<1>2. AccountBlock.ids = {} /\ PostsBlock.ids = {"post_001"} /\ none.ids = {}
  BY DEF AccountBlock, PostsBlock
<1>3. StrategyBlock(k).ids \subseteq CitableOf(k) /\ "post_001" \in CitableOf(k)
  BY DEF StrategyBlock, CitableOf
<1>4. one.ids \subseteq none.ids \cup AccountBlock.ids
  BY <1>1
<1>5. two.ids \subseteq one.ids \cup StrategyBlock(k).ids
  BY <1>1
<1>6. AssembleContext(k).ids \subseteq two.ids \cup PostsBlock.ids
  BY <1>1 DEF AssembleContext
<1> HIDE DEF one, two
<1>7. QED
  BY <1>2, <1>3, <1>4, <1>5, <1>6

LEMMA ContextKeepsSound ==
  ASSUME ChatSound, NEW t \in Turns, LoadChatContext(t)
  PROVE  ChatSound'
<1>1. PICK r \in TurnRows : r = turn[t]
  BY DEF ChatSound, ChatTyped
<1>2. PICK k \in Strategies : k = shown
  BY DEF ChatSound, ChatTyped
<1>3. PICK offered : offered = AssembleContext(k).ids
  OBVIOUS
<1>4. offered \subseteq CitableOf(k) /\ offered \subseteq Citable
  BY <1>3, OfferedByItsStrategy, StrategyPlaces
<1>5. PICK row \in TurnRows :
        /\ row = [r EXCEPT !.pc = "model", !.strategy = k, !.offered = offered]
        /\ row.pc = "model" /\ row.session = r.session /\ row.sequence = r.sequence
        /\ row.strategy = k /\ row.offered = offered
  <2>1. [r EXCEPT !.pc = "model", !.strategy = k, !.offered = offered] \in TurnRows
    BY <1>4 DEF TurnRows
  <2>2. PICK row : row = [r EXCEPT !.pc = "model", !.strategy = k, !.offered = offered]
    OBVIOUS
  <2>3. /\ row.pc = "model" /\ row.session = r.session /\ row.sequence = r.sequence
        /\ row.strategy = k /\ row.offered = offered
    BY <2>2 DEF TurnRows
  <2>4. QED
    BY <2>1, <2>2, <2>3
<1>6. /\ turn' = [turn EXCEPT ![t] = row] /\ UNCHANGED <<conversation, shown>>
      /\ r.pc = "context"
  BY <1>1, <1>2, <1>3, <1>5 DEF LoadChatContext, LoadContext
<1>7. TurnSound(t, r, conversation)
  BY <1>1 DEF ChatSound
<1>8. TurnSound(t, row, conversation)
  BY <1>4, <1>5, <1>6, <1>7 DEF TurnSound
<1>9. QED
  BY <1>6, <1>8, OnlyTheTurnMoves

LEMMA ReplyKeepsSound ==
  ASSUME ChatSound, NEW t \in Turns, NEW first, NEW second, NEW cited,
         AskModel(t, first, second, cited)
  PROVE  ChatSound'
<1>1. PICK r \in TurnRows : r = turn[t]
  BY DEF ChatSound, ChatTyped
<1>2. PICK failed \in BOOLEAN : failed = (TurnOutcome(first, second) # "valid")
  OBVIOUS
<1>3. PICK kept : kept = IF TurnOutcome(first, second) = "valid"
                           THEN KeptCitations(cited, r.offered) ELSE {}
  OBVIOUS
<1>4. TurnSound(t, r, conversation) /\ r.pc = "model"
  BY <1>1 DEF ChatSound, AskModel
<1>5. kept \subseteq CitableOf(r.strategy) /\ kept \subseteq Citable
  BY <1>3, <1>4 DEF TurnSound, KeptCitations, TurnRows
<1>6. PICK row \in TurnRows :
        /\ row = [r EXCEPT !.pc = "answer", !.offered = {}, !.failed = failed, !.cited = kept]
        /\ row.pc = "answer" /\ row.session = r.session /\ row.sequence = r.sequence
        /\ row.strategy = r.strategy /\ row.cited = kept
  <2>1. [r EXCEPT !.pc = "answer", !.offered = {}, !.failed = failed, !.cited = kept] \in TurnRows
    BY <1>5 DEF TurnRows
  <2>2. PICK row :
          row = [r EXCEPT !.pc = "answer", !.offered = {}, !.failed = failed, !.cited = kept]
    OBVIOUS
  <2>3. /\ row.pc = "answer" /\ row.session = r.session /\ row.sequence = r.sequence
        /\ row.strategy = r.strategy /\ row.cited = kept
    BY <2>2 DEF TurnRows
  <2>4. QED
    BY <2>1, <2>2, <2>3
<1>7. turn' = [turn EXCEPT ![t] = row] /\ UNCHANGED <<conversation, shown>>
  BY <1>1, <1>2, <1>3, <1>6 DEF AskModel
<1>8. TurnSound(t, row, conversation)
  BY <1>4, <1>5, <1>6 DEF TurnSound
<1>9. QED
  BY <1>7, <1>8, OnlyTheTurnMoves

\* One message more, at the end of the conversation.
LEMMA MessageIsAppended ==
  ASSUME NEW row \in ConversationRows, ConversationSound(row), row.open,
         NEW m \in Messages, m.seq = row.count, m.cited \subseteq CitableOf(m.strategy),
         m.role = "assistant" =>
           \E q \in row.messages : q.role = "user" /\ q.turn = m.turn /\ q.seq = m.seq - 1,
         NEW new \in ConversationRows, new.open = row.open, new.count = row.count + 1,
         new.messages = row.messages \cup {m}
  PROVE  /\ ConversationSound(new)
         /\ \A t \in Turns, n \in Nat : QuestionStands(row, t, n) => QuestionStands(new, t, n)
<1>1. PICK n \in Nat : n = row.count
  BY DEF ConversationRows
<1>2. /\ IsFiniteSet(row.messages) /\ Cardinality(row.messages) = n
      /\ {k.seq : k \in row.messages} = 0..(n - 1)
  BY <1>1 DEF ConversationSound, OrderedTranscript
<1>3. m \notin row.messages
  <2>1. n \notin 0..(n - 1)
    OBVIOUS
  <2>2. m \in row.messages => m.seq \in {k.seq : k \in row.messages}
    OBVIOUS
  <2>3. QED
    BY <1>1, <1>2, <2>1, <2>2
<1>4. IsFiniteSet(new.messages) /\ Cardinality(new.messages) = new.count
  <2>1. /\ IsFiniteSet(row.messages \cup {m})
        /\ Cardinality(row.messages \cup {m}) = Cardinality(row.messages) + 1
    <3>1. IsFiniteSet(row.messages)
      BY <1>2
    <3>2. /\ IsFiniteSet(row.messages \cup {m})
          /\ Cardinality(row.messages \cup {m})
               = IF m \in row.messages THEN Cardinality(row.messages)
                                       ELSE Cardinality(row.messages) + 1
      BY <3>1, FS_AddElement, Zenon
    <3>3. QED
      BY <1>3, <3>2
  <2>2. QED
    BY <1>1, <1>2, <2>1
<1>5. {k.seq : k \in new.messages} = 0..(new.count - 1)
  <2>1. {k.seq : k \in new.messages} = {k.seq : k \in row.messages} \cup {n}
    BY <1>1
  <2>2. (0..(n - 1)) \cup {n} = 0..((n + 1) - 1)
    OBVIOUS
  <2>3. QED
    BY <1>1, <1>2, <2>1, <2>2
<1>6. \A a \in new.messages : a.role = "assistant" =>
        \E q \in new.messages : q.role = "user" /\ q.turn = a.turn /\ q.seq = a.seq - 1
  <2>1. \A a \in row.messages : a.role = "assistant" =>
          \E q \in row.messages : q.role = "user" /\ q.turn = a.turn /\ q.seq = a.seq - 1
    BY DEF ConversationSound, OrderedTranscript
  <2>2. \A a \in new.messages : a \in row.messages \/ a = m
    OBVIOUS
  <2>3. row.messages \subseteq new.messages
    OBVIOUS
  <2>4. QED
    BY <2>1, <2>2, <2>3
<1>7. CitesItsStrategy(new)
  BY DEF ConversationSound, CitesItsStrategy
<1>8. ConversationSound(new)
  BY <1>4, <1>5, <1>6, <1>7 DEF ConversationSound, OrderedTranscript
<1>9. \A t \in Turns, k \in Nat : QuestionStands(row, t, k) => QuestionStands(new, t, k)
  BY DEF QuestionStands
<1>10. QED
  BY <1>8, <1>9

LEMMA QuestionKeepsSound ==
  ASSUME ChatSound, NEW t \in Turns, AppendQuestion(t)
  PROVE  ChatSound'
<1>1. PICK r \in TurnRows : r = turn[t]
  BY DEF ChatSound, ChatTyped
<1>2. r.pc = "question" /\ TurnSound(t, r, conversation)
  BY <1>1 DEF AppendQuestion, ChatSound
<1>3. PICK s \in Conversations : s = r.session
  BY <1>2 DEF TurnSound
<1>4. PICK row \in ConversationRows : row = conversation[s]
  BY DEF ChatSound, ChatTyped
<1>5. CASE ~row.open \/ row.count >= MessageLimit
  <2>1. turn' = [turn EXCEPT ![t] = DoneTurn] /\ UNCHANGED <<conversation, shown>>
    BY <1>1, <1>3, <1>4, <1>5 DEF AppendQuestion
  <2>2. TurnSound(t, DoneTurn, conversation)
    BY DEF TurnSound, DoneTurn, IdleTurn
  <2>3. QED
    BY <2>1, <2>2, FreshRows, OnlyTheTurnMoves
<1>6. CASE ~(~row.open \/ row.count >= MessageLimit)
  <2>1. PICK m \in Messages :
          m = [seq |-> row.count, role |-> "user", turn |-> t, failed |-> FALSE,
               strategy |-> 0, cited |-> {}]
    BY StrategyPlaces DEF Messages, ConversationRows
  <2>2. PICK title \in {"none", "new", "chosen", "derived", "deleted"} :
          title = IF row.chosen \/ row.count > 0 THEN row.title ELSE "derived"
    BY DEF ConversationRows
  <2>3. PICK new \in ConversationRows :
          new = [row EXCEPT !.count = row.count + 1, !.title = title,
                            !.messages = row.messages \cup {m}]
    <3>1. row.count + 1 \in Nat /\ row.messages \cup {m} \in SUBSET Messages
      BY DEF ConversationRows
    <3>2. \A n \in Nat, ms \in SUBSET Messages :
            [row EXCEPT !.count = n, !.title = title, !.messages = ms] \in ConversationRows
      BY DEF ConversationRows
    <3>3. QED
      BY <3>1, <3>2
  <2>4. new.open = row.open /\ new.count = row.count + 1 /\ new.messages = row.messages \cup {m}
    BY <2>3 DEF ConversationRows
  <2>5. /\ m.seq = row.count /\ m.cited \subseteq CitableOf(m.strategy)
        /\ m.role = "user" /\ m.turn = t
    BY <2>1
  <2>6. ConversationSound(row)
    BY <1>4 DEF ChatSound
  <2>7. /\ ConversationSound(new)
        /\ \A u \in Turns, n \in Nat : QuestionStands(row, u, n) => QuestionStands(new, u, n)
    BY <1>6, <2>4, <2>5, <2>6, MessageIsAppended
  <2>8. conversation' = [conversation EXCEPT ![s] = new] /\ shown' = shown
    BY <1>1, <1>3, <1>4, <1>6, <2>1, <2>2, <2>3 DEF AppendQuestion
  <2>9. /\ conversation' \in [Conversations -> ConversationRows]
        /\ \A c \in Conversations : ConversationSound(conversation'[c])
        /\ \A u \in Turns : TurnSound(u, turn[u], conversation')
    BY <1>4, <2>7, <2>8, OneConversationChanges
  <2>10. PICK next \in TurnRows :
           /\ next = [r EXCEPT !.pc = "context", !.sequence = row.count]
           /\ next.pc = "context" /\ next.session = s /\ next.sequence = row.count
    <3>1. [r EXCEPT !.pc = "context", !.sequence = row.count] \in TurnRows
      BY DEF TurnRows, ConversationRows
    <3>2. PICK next : next = [r EXCEPT !.pc = "context", !.sequence = row.count]
      OBVIOUS
    <3>3. next.pc = "context" /\ next.session = s /\ next.sequence = row.count
      BY <1>3, <3>2 DEF TurnRows
    <3>4. QED
      BY <3>1, <3>2, <3>3
  <2>11. turn' = [turn EXCEPT ![t] = next]
    BY <1>1, <1>3, <1>4, <1>6, <2>10 DEF AppendQuestion
  <2>12. conversation'[s] = new
    BY <2>8 DEF ChatSound, ChatTyped
  <2>13. QuestionStands(new, t, next.sequence)
    BY <1>6, <2>4, <2>5, <2>10 DEF QuestionStands
  <2>14. TurnSound(t, next, conversation')
    BY <2>10, <2>12, <2>13 DEF TurnSound
  <2>15. shown' \in Strategies
    BY <2>8 DEF ChatSound, ChatTyped
  <2>16. QED
    BY <2>9, <2>11, <2>14, <2>15, OneTurnMoves
<1>7. QED
  BY <1>5, <1>6

LEMMA AnswerKeepsSound ==
  ASSUME ChatSound, NEW t \in Turns, AppendAnswer(t)
  PROVE  ChatSound'
<1>1. PICK r \in TurnRows : r = turn[t]
  BY DEF ChatSound, ChatTyped
<1>2. r.pc = "answer" /\ TurnSound(t, r, conversation)
  BY <1>1 DEF AppendAnswer, ChatSound
<1>3. PICK s \in Conversations : s = r.session
  BY <1>2 DEF TurnSound
<1>4. PICK row \in ConversationRows : row = conversation[s]
  BY DEF ChatSound, ChatTyped
<1>5. PICK k \in Nat : k = r.sequence + 1
  BY DEF TurnRows
<1>6. AnswerSequence(t) = k
  BY <1>1, <1>5 DEF AnswerSequence
<1>7. turn' = [turn EXCEPT ![t] = DoneTurn] /\ shown' = shown
  BY DEF AppendAnswer
<1>8. shown' \in Strategies
  BY <1>7 DEF ChatSound, ChatTyped
<1>9. \A rows : TurnSound(t, DoneTurn, rows)
  BY DEF TurnSound, DoneTurn, IdleTurn
<1>10. CASE ~row.open \/ \E m \in row.messages : m.seq = k
  <2>1. conversation' = conversation
    BY <1>1, <1>3, <1>4, <1>6, <1>10 DEF AppendAnswer
  <2>2. QED
    BY <1>7, <1>9, <2>1, FreshRows, OnlyTheTurnMoves
<1>11. CASE ~(~row.open \/ \E m \in row.messages : m.seq = k)
  <2>1. QuestionStands(row, t, r.sequence)
    BY <1>2, <1>3, <1>4 DEF TurnSound
  <2>2. PICK q \in row.messages : q.role = "user" /\ q.turn = t /\ q.seq = r.sequence
    BY <1>11, <2>1 DEF QuestionStands
  <2>3. ConversationSound(row)
    BY <1>4 DEF ChatSound
  <2>4. k = row.count
    <3>1. {m.seq : m \in row.messages} = 0..(row.count - 1)
      BY <2>3 DEF ConversationSound, OrderedTranscript
    <3>2. r.sequence \in 0..(row.count - 1) /\ k \notin 0..(row.count - 1)
      BY <1>11, <2>2, <3>1
    <3>3. row.count \in Nat /\ r.sequence \in Nat
      BY DEF ConversationRows, TurnRows
    <3>4. QED
      BY <1>5, <3>2, <3>3
  <2>5. r.strategy # Null
    BY NullAssumption, StrategyPlaces DEF TurnRows, Strategies
  <2>6. PICK m \in Messages :
          m = [seq |-> k, role |-> "assistant", turn |-> t, failed |-> r.failed,
               strategy |-> r.strategy, cited |-> r.cited]
    BY DEF Messages, TurnRows
  <2>7. /\ m.seq = k /\ m.turn = t /\ m.strategy = r.strategy /\ m.cited = r.cited
        /\ m.role = "assistant"
    BY <2>6
  <2>8. PICK new \in ConversationRows :
          new = [row EXCEPT !.count = row.count + 1, !.messages = row.messages \cup {m}]
    <3>1. row.count + 1 \in Nat /\ row.messages \cup {m} \in SUBSET Messages
      BY DEF ConversationRows
    <3>2. \A n \in Nat, ms \in SUBSET Messages :
            [row EXCEPT !.count = n, !.messages = ms] \in ConversationRows
      BY DEF ConversationRows
    <3>3. QED
      BY <3>1, <3>2
  <2>9. new.open = row.open /\ new.count = row.count + 1 /\ new.messages = row.messages \cup {m}
    BY <2>8 DEF ConversationRows
  <2>10. m.cited \subseteq CitableOf(m.strategy)
    BY <1>2, <2>7 DEF TurnSound
  <2>11. q.seq = m.seq - 1
    BY <1>5, <2>2, <2>7 DEF TurnRows
  <2>12. /\ ConversationSound(new)
         /\ \A u \in Turns, n \in Nat : QuestionStands(row, u, n) => QuestionStands(new, u, n)
    BY <1>11, <2>2, <2>3, <2>4, <2>7, <2>9, <2>10, <2>11, MessageIsAppended
  <2>13. conversation' = [conversation EXCEPT ![s] = new]
    BY <1>1, <1>3, <1>4, <1>6, <1>11, <2>5, <2>6, <2>8 DEF AppendAnswer
  <2>14. /\ conversation' \in [Conversations -> ConversationRows]
         /\ \A c \in Conversations : ConversationSound(conversation'[c])
         /\ \A u \in Turns : TurnSound(u, turn[u], conversation')
    BY <1>4, <2>12, <2>13, OneConversationChanges
  <2>15. QED
    BY <1>7, <1>8, <1>9, <2>14, FreshRows, OneTurnMoves
<1>12. QED
  BY <1>10, <1>11

LEMMA ChatStepKeepsSound == ChatSound /\ [ChatNext]_chatVars => ChatSound'
<1> SUFFICES ASSUME ChatSound, [ChatNext]_chatVars PROVE ChatSound'
  OBVIOUS
<1>1. CASE ShowNextStrategy \/ HourPasses
  BY <1>1, StrategiesComeOn
<1>2. CASE \E s \in Conversations : StartSession(s) \/ RenameSession(s) \/ DeleteSession(s)
  BY <1>2, SessionStepsKeepSound
<1>3. ASSUME NEW t \in Turns,
             \/ \E s \in Conversations : BeginTurn(t, s)
             \/ AppendQuestion(t) \/ QuestionFails(t) \/ LoadChatContext(t) \/ AppendAnswer(t)
             \/ TurnDies(t)
             \/ \E first, second \in Replies,
                    cited \in {{"post_001"}, {"stat_pos_0", "stat_neg_0"}} :
                  AskModel(t, first, second, cited)
      PROVE  ChatSound'
  <2>1. CASE \E s \in Conversations : BeginTurn(t, s)
    BY <2>1, BeginKeepsSound
  <2>2. CASE AppendQuestion(t)
    BY <2>2, QuestionKeepsSound
  <2>3. CASE QuestionFails(t) \/ TurnDies(t)
    BY <2>3, EndsKeepSound
  <2>4. CASE LoadChatContext(t)
    BY <2>4, ContextKeepsSound
  <2>5. CASE AppendAnswer(t)
    BY <2>5, AnswerKeepsSound
  <2>6. CASE \E first, second \in Replies,
                cited \in {{"post_001"}, {"stat_pos_0", "stat_neg_0"}} :
               AskModel(t, first, second, cited)
    BY <2>6, ReplyKeepsSound
  <2>7. QED
    BY <1>3, <2>1, <2>2, <2>3, <2>4, <2>5, <2>6
<1>4. CASE UNCHANGED chatVars
  <2>1. UNCHANGED <<conversation, shown, turn>>
    BY <1>4 DEF chatVars
  <2>2. QED
    BY <2>1 DEF ChatSound, ChatTyped
<1>5. QED
  BY <1>1, <1>2, <1>3, <1>4 DEF ChatNext

LEMMA ConversationsStaySound == ChatSpec => []ChatSound
<1>1. ChatSound /\ [ChatNext]_chatVars => ChatSound'
  BY ChatStepKeepsSound
<1>2. QED
  BY <1>1, ChatSoundStarts, PTL DEF ChatSpec

\* "The loser fails rather than silently reordering the conversation": the
\* positions of a conversation are its messages without a gap, and an answer is
\* the message after its question, whichever turns run at once, fail or die.
THEOREM TranscriptsStayInOrder == ChatSpec => []TranscriptInOrder
<1>1. ChatSound => TranscriptInOrder
  BY DEF ChatSound, ConversationSound, OrderedTranscript, TranscriptInOrder
<1>2. QED
  BY <1>1, ConversationsStaySound, PTL

\* What an answer cites was in the manifest of the strategy it records, also
\* when another strategy is published between the context and the answer.
THEOREM CitationsComeFromTheirStrategy == ChatSpec => []CitedFromItsStrategy
<1>1. ChatSound => CitedFromItsStrategy
  <2> SUFFICES ASSUME ChatSound, NEW s \in Conversations, NEW m \in conversation[s].messages,
                      m.cited \ {"post_001"} # {}
               PROVE  /\ m.strategy # 0
                      /\ m.cited \ {"post_001"} \subseteq DOMAIN StrategyEvidence[m.strategy]
    BY DEF CitedFromItsStrategy
  <2>1. m.cited \subseteq CitableOf(m.strategy)
    BY DEF ChatSound, ConversationSound, CitesItsStrategy
  <2>2. QED
    BY <2>1 DEF CitableOf
<1>2. QED
  BY <1>1, ConversationsStaySound, PTL
-----------------------------------------------------------------------------
(* StrategyGeneration.  A result is stored by the transaction that settles *)
(* its job, under the lease; what has none yet may still be marked FAILED.  *)

GenerationFields ==
  {"hash", "ordinal", "mode", "judged", "run", "state", "stage", "repair", "result", "job"}
GenerationSound(r) ==
  /\ r = [field \in GenerationFields |-> r[field]]
  /\ r.job \in JobRecords
  /\ r.result # {} <=> r.job.state = "SUCCEEDED"
  /\ r.result # {} => r.state # "FAILED"
  /\ r.state = "SUCCEEDED" => r.result # {}

\* An attempt past the validation has an answer to store.
WriterFields == {"pc", "gen", "attempt", "recent", "repaired", "answer", "class"}
WriterSound(v, rows) ==
  /\ v = [field \in WriterFields |-> v[field]]
  /\ v.attempt \in Nat
  /\ v.pc # "idle" => v.gen \in DOMAIN rows
  /\ v.pc \in {"publishing", "commit"} => v.answer # {}

WritersSound(rows) ==
  /\ DOMAIN writer = StrategyWriters
  /\ \A w \in StrategyWriters : WriterSound(writer[w], rows)

StrategySound ==
  /\ IsSequence(generations)
  /\ \A g \in DOMAIN generations : GenerationSound(generations[g])
  /\ WritersSound(generations)
  /\ currentStrategy # 0 => /\ currentStrategy \in DOMAIN generations
                            /\ generations[currentStrategy].result # {}

LEMMA IdleWriterSound == \A rows : WriterSound(IdleWriter, rows)
  BY DEF WriterSound, IdleWriter, WriterFields

LEMMA StrategySoundStarts == StrategyInit => StrategySound
<1> SUFFICES ASSUME StrategyInit PROVE StrategySound
  OBVIOUS
<1>1. IsSequence(<<>>) /\ DOMAIN <<>> = {}
  BY DEF IsSequence
<1>2. QED
  BY <1>1, IdleWriterSound DEF StrategyInit, StrategySound, WritersSound

\* What a change of a generation's row keeps.
LEMMA RowsKeptSound ==
  ASSUME NEW r, GenerationSound(r)
  PROVE  /\ \A job \in JobRecords :
              (job.state = "SUCCEEDED" <=> r.job.state = "SUCCEEDED") =>
                /\ GenerationSound([r EXCEPT !.job = job])
                /\ [r EXCEPT !.job = job].result = r.result
         /\ r.result = {} => GenerationSound([r EXCEPT !.state = "FAILED"])
         /\ \A answer : answer # {} =>
              LET new == [r EXCEPT !.result = answer, !.state = "SUCCEEDED",
                                   !.stage = "PUBLISHING", !.job = Complete(r.job)]
              IN GenerationSound(new) /\ new.result # {}
<1>1. /\ r = [field \in GenerationFields |-> r[field]]
      /\ r.job \in JobRecords
      /\ r.result # {} <=> r.job.state = "SUCCEEDED"
      /\ r.result # {} => r.state # "FAILED"
      /\ r.state = "SUCCEEDED" => r.result # {}
  BY DEF GenerationSound
<1>2. ASSUME NEW job \in JobRecords, job.state = "SUCCEEDED" <=> r.job.state = "SUCCEEDED"
      PROVE  /\ GenerationSound([r EXCEPT !.job = job])
             /\ [r EXCEPT !.job = job].result = r.result
  BY <1>1, <1>2 DEF GenerationSound, GenerationFields
<1>3. r.result = {} => GenerationSound([r EXCEPT !.state = "FAILED"])
  BY <1>1 DEF GenerationSound, GenerationFields
<1>5. ASSUME NEW answer, answer # {}
      PROVE  LET new == [r EXCEPT !.result = answer, !.state = "SUCCEEDED",
                                  !.stage = "PUBLISHING", !.job = Complete(r.job)]
             IN GenerationSound(new) /\ new.result # {}
  <2>1. PICK job \in JobRecords : job = Complete(r.job) /\ job.state = "SUCCEEDED"
    BY <1>1, JobsKept, SettledAsBefore
  <2> DEFINE new == [r EXCEPT !.result = answer, !.state = "SUCCEEDED",
                              !.stage = "PUBLISHING", !.job = job]
  <2>2. /\ DOMAIN new = GenerationFields /\ new = [field \in DOMAIN new |-> new[field]]
        /\ new.state = "SUCCEEDED" /\ new.result = answer /\ new.job = job
    BY <1>1 DEF GenerationFields
  <2> HIDE DEF new
  <2>3. GenerationSound(new)
    BY <1>5, <2>1, <2>2 DEF GenerationSound
  <2>4. QED
    BY <1>5, <2>1, <2>2, <2>3 DEF new
<1>6. QED
  BY <1>2, <1>3, <1>5

LEMMA OneGenerationMoves ==
  ASSUME StrategySound, NEW g \in DOMAIN generations, NEW row, GenerationSound(row),
         generations[g].result # {} => row.result # {},
         generations' = [generations EXCEPT ![g] = row],
         WritersSound(generations)',
         currentStrategy' = currentStrategy \/ (currentStrategy' = g /\ row.result # {})
  PROVE  StrategySound'
<1>1. generations \in Seq(Range(generations))
  BY DEF StrategySound, IsSequence
<1>2. DOMAIN generations = 1..Len(generations) /\ Len(generations) \in Nat
  BY <1>1, LenProperties
<1>3. /\ DOMAIN generations' = DOMAIN generations /\ generations'[g] = row
      /\ \A k \in DOMAIN generations : k # g => generations'[k] = generations[k]
  <2>1. generations = [k \in DOMAIN generations |-> generations[k]]
    BY <1>1, LenProperties
  <2>2. DOMAIN generations' = DOMAIN generations
    BY <2>1
  <2>3. generations'[g] = row
    BY <2>1
  <2>4. ASSUME NEW k \in DOMAIN generations, k # g PROVE generations'[k] = generations[k]
    BY <2>1, <2>4
  <2>5. QED
    BY <2>2, <2>3, <2>4
<1>4. IsSequence(generations')
  <2>1. ASSUME NEW s, NEW n \in Nat, DOMAIN s = 1..n, s = [k \in DOMAIN s |-> s[k]]
        PROVE  IsSequence(s)
    BY <2>1, SeqDef DEF IsSequence, Range
  <2>2. generations' = [k \in DOMAIN generations' |-> generations'[k]]
    BY <1>3
  <2>3. DOMAIN generations' = 1..Len(generations)
    BY <1>2, <1>3
  <2>4. QED
    BY <1>2, <2>1, <2>2, <2>3
<1>5. \A k \in DOMAIN generations' : GenerationSound(generations'[k])
  BY <1>3 DEF StrategySound
<1>6. currentStrategy' # 0 => /\ currentStrategy' \in DOMAIN generations'
                              /\ generations'[currentStrategy'].result # {}
  BY <1>3 DEF StrategySound
<1>7. QED
  BY <1>4, <1>5, <1>6 DEF StrategySound

\* A writer's row, at work on what is there.
LEMMA WriterRowsKeptSound ==
  ASSUME NEW rows, NEW v, WriterSound(v, rows), v.pc # "idle"
  PROVE  /\ \A pc : (pc \in {"publishing", "commit"} => v.answer # {}) =>
                    WriterSound([v EXCEPT !.pc = pc], rows)
         /\ \A class, pc : pc \notin {"publishing", "commit"} =>
                           WriterSound([v EXCEPT !.pc = pc, !.class = class], rows)
         /\ \A answer : answer # {} =>
                        WriterSound([v EXCEPT !.pc = "publishing", !.answer = answer], rows)
         /\ \A repaired : WriterSound([v EXCEPT !.pc = "ask", !.repaired = repaired], rows)
<1>1. /\ v = [field \in WriterFields |-> v[field]] /\ v.attempt \in Nat
      /\ v.gen \in DOMAIN rows /\ v.pc \in {"publishing", "commit"} => v.answer # {}
  BY DEF WriterSound
<1>2. ASSUME NEW pc, pc \in {"publishing", "commit"} => v.answer # {}
      PROVE  WriterSound([v EXCEPT !.pc = pc], rows)
  BY <1>1, <1>2 DEF WriterSound, WriterFields
<1>3. ASSUME NEW class, NEW pc, pc \notin {"publishing", "commit"}
      PROVE  WriterSound([v EXCEPT !.pc = pc, !.class = class], rows)
  BY <1>1, <1>3 DEF WriterSound, WriterFields
<1>4. ASSUME NEW answer, answer # {}
      PROVE  WriterSound([v EXCEPT !.pc = "publishing", !.answer = answer], rows)
  BY <1>1, <1>4 DEF WriterSound, WriterFields
<1>5. ASSUME NEW repaired PROVE WriterSound([v EXCEPT !.pc = "ask", !.repaired = repaired], rows)
  BY <1>1 DEF WriterSound, WriterFields
<1>6. QED
  BY <1>2, <1>3, <1>4, <1>5

\* Only which generations there are is told of them.
LEMMA WritersLookAtDomains ==
  ASSUME NEW v, NEW rows, NEW more, WriterSound(v, rows), DOMAIN rows \subseteq DOMAIN more
  PROVE  WriterSound(v, more)
  BY DEF WriterSound

LEMMA OneWriterMoves ==
  ASSUME StrategySound, NEW w \in StrategyWriters, NEW v, WriterSound(v, generations),
         writer' = [writer EXCEPT ![w] = v], DOMAIN generations' = DOMAIN generations
  PROVE  WritersSound(generations)'
<1>1. DOMAIN writer = StrategyWriters /\ \A x \in StrategyWriters : WriterSound(writer[x], generations)
  BY DEF StrategySound, WritersSound
<1>2. /\ DOMAIN writer' = StrategyWriters /\ writer'[w] = v
      /\ \A x \in StrategyWriters : x # w => writer'[x] = writer[x]
  BY <1>1
<1>3. ASSUME NEW x \in StrategyWriters PROVE WriterSound(writer'[x], generations)
  BY <1>1, <1>2
<1>4. \A x \in StrategyWriters : WriterSound(writer'[x], generations')
  BY <1>3, WritersLookAtDomains
<1>5. QED
  BY <1>2, <1>4 DEF WritersSound

LEMMA OnlyAWriterMoves ==
  ASSUME StrategySound, NEW w \in StrategyWriters, NEW v, WriterSound(v, generations),
         writer' = [writer EXCEPT ![w] = v], UNCHANGED <<generations, currentStrategy>>
  PROVE  StrategySound'
<1>1. WritersSound(generations)'
  BY OneWriterMoves
<1>2. QED
  BY <1>1 DEF StrategySound

LEMMA WriterStepsKeepSound ==
  ASSUME StrategySound, NEW w \in StrategyWriters,
         \/ RefuseEmptyManifest(w) \/ BeginRequesting(w) \/ BeginRepairing(w)
         \/ BeginPublishing(w) \/ AskForStrategy(w) \/ LoseStrategy(w)
         \/ \E class : AskFails(w, class)
  PROVE  StrategySound'
<1>1. PICK v : v = writer[w] /\ WriterSound(v, generations)
  BY DEF StrategySound, WritersSound
<1>2. UNCHANGED <<generations, currentStrategy>>
  BY DEF RefuseEmptyManifest, BeginRequesting, BeginRepairing, BeginPublishing, EnterStage,
         AskForStrategy, LoseStrategy, AskFails
<1>3. ASSUME NEW pc, NEW next, pc # "idle", EnterStage(w, pc, next),
             next = "commit" => pc = "publishing", next # "publishing"
      PROVE  StrategySound'
  <2>1. v.pc = pc /\ writer' = [writer EXCEPT ![w] = [v EXCEPT !.pc = next]]
    BY <1>1, <1>3 DEF EnterStage, At
  <2>2. next \in {"publishing", "commit"} => v.answer # {}
    BY <1>1, <1>3, <2>1 DEF WriterSound
  <2>3. WriterSound([v EXCEPT !.pc = next], generations)
    BY <1>1, <1>3, <2>1, <2>2, WriterRowsKeptSound
  <2>4. QED
    BY <1>2, <2>1, <2>3, OnlyAWriterMoves
<1>4. CASE BeginRequesting(w) \/ BeginRepairing(w) \/ BeginPublishing(w)
  BY <1>3, <1>4 DEF BeginRequesting, BeginRepairing, BeginPublishing
<1>5. CASE AskForStrategy(w)
  <2>1. v.pc = "ask"
    BY <1>1, <1>5 DEF AskForStrategy
  <2>2. PICK answer \in Answers(generations[v.gen].mode,
                                Manifest(generations[v.gen].hash.entries)) :
          \E issues : writer' = [writer EXCEPT ![w] =
            IF issues = {}
              THEN [@ EXCEPT !.pc = "publishing",
                             !.answer = {Fingerprint(answer.recommendations[i]) :
                                           i \in DOMAIN answer.recommendations}]
            ELSE IF ~writer[w].repaired THEN [@ EXCEPT !.pc = "repair"]
            ELSE [@ EXCEPT !.pc = "fail", !.class = "SEMANTIC_OUTPUT"]]
    BY <1>1, <1>5 DEF AskForStrategy
  <2>3. PICK given : given = {Fingerprint(answer.recommendations[i]) :
                                i \in DOMAIN answer.recommendations}
    OBVIOUS
  <2>4. given # {}
    <3>1. 1 \in DOMAIN answer.recommendations
      BY DEF Answers, Answer
    <3>2. QED
      BY <2>3, <3>1
  <2>5. \/ writer' = [writer EXCEPT ![w] = [v EXCEPT !.pc = "publishing", !.answer = given]]
        \/ writer' = [writer EXCEPT ![w] = [v EXCEPT !.pc = "repair"]]
        \/ writer' = [writer EXCEPT ![w] = [v EXCEPT !.pc = "fail", !.class = "SEMANTIC_OUTPUT"]]
    BY <1>1, <2>2, <2>3
  <2>6. /\ WriterSound([v EXCEPT !.pc = "publishing", !.answer = given], generations)
        /\ WriterSound([v EXCEPT !.pc = "repair"], generations)
        /\ WriterSound([v EXCEPT !.pc = "fail", !.class = "SEMANTIC_OUTPUT"], generations)
    BY <1>1, <2>1, <2>4, WriterRowsKeptSound
  <2>7. QED
    BY <1>2, <2>5, <2>6, OnlyAWriterMoves
<1>6. CASE \E class : AskFails(w, class)
  <2>0. PICK class : AskFails(w, class)
    BY <1>6
  <2>1. PICK pc \in {"settle", "fail"} :
          /\ v.pc = "ask"
          /\ writer' = [writer EXCEPT ![w] = [v EXCEPT !.pc = pc, !.class = class]]
    <3>1. PICK pc \in {"settle", "fail"} : pc = IF class = "SEMANTIC_OUTPUT" THEN "settle" ELSE "fail"
      OBVIOUS
    <3>2. QED
      BY <1>1, <2>0, <3>1 DEF AskFails
  <2>2. WriterSound([v EXCEPT !.pc = pc, !.class = class], generations)
    BY <1>1, <2>1, WriterRowsKeptSound
  <2>3. QED
    BY <1>2, <2>1, <2>2, OnlyAWriterMoves
<1>7. CASE LoseStrategy(w)
  BY <1>2, <1>7, IdleWriterSound, OnlyAWriterMoves DEF LoseStrategy
<1>8. CASE RefuseEmptyManifest(w)
  <2>1. /\ v.pc = "stage"
        /\ writer' = [writer EXCEPT ![w] = [v EXCEPT !.pc = "settle", !.class = "INVALID_INPUT"]]
    BY <1>1, <1>8 DEF RefuseEmptyManifest
  <2>2. WriterSound([v EXCEPT !.pc = "settle", !.class = "INVALID_INPUT"], generations)
    BY <1>1, <2>1, WriterRowsKeptSound
  <2>3. QED
    BY <1>2, <2>1, <2>2, OnlyAWriterMoves
<1>9. QED
  BY <1>4, <1>5, <1>6, <1>7, <1>8

LEMMA StrategyClaimKeepsSound ==
  ASSUME StrategySound, NEW w \in StrategyWriters, NEW g \in DOMAIN generations,
         ClaimStrategy(w, g)
  PROVE  StrategySound'
<1>1. PICK r : r = generations[g] /\ GenerationSound(r)
  BY DEF StrategySound
<1>2. r.job \in JobRecords /\ r.job.state = "QUEUED" /\ r.result = {}
  BY <1>1 DEF GenerationSound, ClaimStrategy, Claimable
<1>3. PICK job \in JobRecords : job = Claim(r.job) /\ job.state # "SUCCEEDED"
  <2>1. 0 \in Nat
    OBVIOUS
  <2>2. QED
    BY <1>2, <2>1, JobsKept, SettledAsBefore
<1>4. PICK row : row = [r EXCEPT !.job = job] /\ GenerationSound(row) /\ row.result = r.result
  <2>1. job.state = "SUCCEEDED" <=> r.job.state = "SUCCEEDED"
    BY <1>2, <1>3
  <2>2. \A k \in JobRecords : (k.state = "SUCCEEDED" <=> r.job.state = "SUCCEEDED") =>
          GenerationSound([r EXCEPT !.job = k]) /\ [r EXCEPT !.job = k].result = r.result
    BY <1>1, RowsKeptSound
  <2>3. QED
    BY <2>1, <2>2
<1>5. generations' = [generations EXCEPT ![g] = row]
  BY <1>1, <1>2, <1>3, <1>4 DEF ClaimStrategy
<1>6. PICK attempt \in Nat : attempt = r.job.attempt + 1
  BY <1>2 DEF JobRecords
<1>7. PICK recent, repaired :
        writer' = [writer EXCEPT ![w] =
          [IdleWriter EXCEPT !.pc = "stage", !.gen = g, !.attempt = attempt, !.recent = recent,
                             !.repaired = repaired]]
  BY <1>1, <1>2, <1>6 DEF ClaimStrategy
<1>8. WriterSound([IdleWriter EXCEPT !.pc = "stage", !.gen = g, !.attempt = attempt,
                                     !.recent = recent, !.repaired = repaired], generations)
  BY DEF WriterSound, IdleWriter, WriterFields
<1>9. DOMAIN generations' = DOMAIN generations /\ currentStrategy' = currentStrategy
  BY <1>5 DEF ClaimStrategy
<1>10. WritersSound(generations)'
  BY <1>7, <1>8, <1>9, OneWriterMoves
<1>11. QED
  BY <1>1, <1>2, <1>4, <1>5, <1>9, <1>10, OneGenerationMoves

\* The job of a generation moves on; what it has stored stays.
LEMMA OneJobMoves ==
  ASSUME StrategySound, NEW g \in DOMAIN generations, NEW job \in JobRecords,
         job.state = "SUCCEEDED" <=> generations[g].job.state = "SUCCEEDED",
         generations' = [generations EXCEPT ![g].job = job],
         WritersSound(generations)', currentStrategy' = currentStrategy
  PROVE  StrategySound'
<1>1. PICK r : r = generations[g] /\ GenerationSound(r)
  BY DEF StrategySound
<1>2. PICK row : row = [r EXCEPT !.job = job] /\ GenerationSound(row) /\ row.result = r.result
  <2>1. job.state = "SUCCEEDED" <=> r.job.state = "SUCCEEDED"
    BY <1>1
  <2>2. \A k \in JobRecords : (k.state = "SUCCEEDED" <=> r.job.state = "SUCCEEDED") =>
          GenerationSound([r EXCEPT !.job = k]) /\ [r EXCEPT !.job = k].result = r.result
    BY <1>1, RowsKeptSound
  <2>3. QED
    BY <2>1, <2>2
<1>3. generations' = [generations EXCEPT ![g] = row]
  BY <1>1, <1>2
<1>4. QED
  BY <1>1, <1>2, <1>3, OneGenerationMoves

LEMMA RecoveryKeepsSound ==
  ASSUME StrategySound, NEW g \in DOMAIN generations, RecoverStrategy(g)
  PROVE  StrategySound'
<1>1. generations[g].job \in JobRecords /\ generations[g].job.state = "PROCESSING"
  BY DEF StrategySound, GenerationSound, RecoverStrategy
<1>2. PICK job \in JobRecords :
        job = RecoverLease(generations[g].job) /\ job.state # "SUCCEEDED"
  <2>1. 0 \in Nat
    OBVIOUS
  <2>2. QED
    BY <1>1, <2>1, JobsKept, SettledAsBefore
<1>3. /\ generations' = [generations EXCEPT ![g].job = job]
      /\ UNCHANGED <<writer, currentStrategy>>
  BY <1>2 DEF RecoverStrategy
<1>4. DOMAIN generations' = DOMAIN generations
  BY <1>3
<1>5. WritersSound(generations)'
  BY <1>3, <1>4, WritersLookAtDomains DEF StrategySound, WritersSound
<1>6. QED
  BY <1>1, <1>2, <1>3, <1>5, OneJobMoves

LEMMA StrategySettlementKeepsSound ==
  ASSUME StrategySound, NEW w \in StrategyWriters, SettleStrategyFailure(w)
  PROVE  StrategySound'
<1>1. PICK v : v = writer[w] /\ WriterSound(v, generations)
  BY DEF StrategySound, WritersSound
<1>2. PICK g \in DOMAIN generations : g = v.gen
  BY <1>1 DEF WriterSound, SettleStrategyFailure
<1>3. generations[g].job \in JobRecords /\ v.attempt \in Nat
  BY <1>1 DEF StrategySound, GenerationSound, WriterSound
<1>4. PICK job \in JobRecords :
        /\ job = SettleFailure(generations[g].job, v.attempt, v.class)
        /\ job.state = "SUCCEEDED" <=> generations[g].job.state = "SUCCEEDED"
  BY <1>3, JobsKept, SettledAsBefore
<1>5. /\ generations' = [generations EXCEPT ![g].job = job]
      /\ writer' = [writer EXCEPT ![w] = IdleWriter] /\ currentStrategy' = currentStrategy
  BY <1>1, <1>2, <1>4 DEF SettleStrategyFailure
<1>6. DOMAIN generations' = DOMAIN generations
  BY <1>5
<1>7. WritersSound(generations)'
  BY <1>5, <1>6, IdleWriterSound, OneWriterMoves
<1>8. QED
  BY <1>4, <1>5, <1>7, OneJobMoves

\* The row of the attempt changes, and the attempt goes on.
LEMMA AttemptMovesItsGeneration ==
  ASSUME StrategySound, NEW w \in StrategyWriters, NEW v, WriterSound(v, generations),
         NEW g \in DOMAIN generations, NEW row, GenerationSound(row),
         generations[g].result # {} => row.result # {},
         generations' = [generations EXCEPT ![g] = row], writer' = [writer EXCEPT ![w] = v],
         currentStrategy' = currentStrategy \/ (currentStrategy' = g /\ row.result # {})
  PROVE  StrategySound'
<1>1. DOMAIN generations' = DOMAIN generations
  OBVIOUS
<1>2. WritersSound(generations)'
  BY <1>1, OneWriterMoves
<1>3. QED
  BY <1>2, OneGenerationMoves

LEMMA StageKeepsSound ==
  ASSUME StrategySound, NEW w \in StrategyWriters, RecordStrategyStage(w)
  PROVE  StrategySound'
<1>1. PICK v : v = writer[w] /\ WriterSound(v, generations) /\ v.pc # "idle"
  BY DEF StrategySound, WritersSound, RecordStrategyStage
<1>2. PICK g \in DOMAIN generations : g = v.gen
  BY <1>1 DEF WriterSound
<1>3. PICK r : r = generations[g] /\ GenerationSound(r)
  BY DEF StrategySound
<1>4. PICK stage, repair, repaired :
        /\ generations' = [generations EXCEPT ![g] =
             [r EXCEPT !.stage = stage, !.state = "PROCESSING", !.repair = repair]]
        /\ writer' = [writer EXCEPT ![w] = [v EXCEPT !.pc = "ask", !.repaired = repaired]]
        /\ currentStrategy' = currentStrategy
  BY <1>1, <1>2, <1>3 DEF RecordStrategyStage
<1>5. PICK row : row = [r EXCEPT !.stage = stage, !.state = "PROCESSING", !.repair = repair]
  OBVIOUS
<1>6. PICK next : /\ next = [v EXCEPT !.pc = "ask", !.repaired = repaired]
                  /\ WriterSound(next, generations)
  BY <1>1, WriterRowsKeptSound
<1>7. GenerationSound(row) /\ row.result = r.result
  <2>1. /\ DOMAIN row = GenerationFields /\ row = [field \in DOMAIN row |-> row[field]]
        /\ row.state = "PROCESSING" /\ row.result = r.result /\ row.job = r.job
    BY <1>3, <1>5 DEF GenerationSound, GenerationFields
  <2>2. QED
    BY <1>3, <2>1 DEF GenerationSound
<1>8. /\ generations' = [generations EXCEPT ![g] = row]
      /\ writer' = [writer EXCEPT ![w] = next] /\ currentStrategy' = currentStrategy
  BY <1>4, <1>5, <1>6
<1>9. generations[g].result # {} => row.result # {}
  BY <1>3, <1>7
<1>10. QED
  BY <1>6, <1>7, <1>8, <1>9, AttemptMovesItsGeneration

LEMMA RecordedFailureKeepsSound ==
  ASSUME StrategySound, NEW w \in StrategyWriters, FailStrategyGeneration(w)
  PROVE  StrategySound'
<1>1. PICK v : v = writer[w] /\ WriterSound(v, generations) /\ v.pc # "idle"
  BY DEF StrategySound, WritersSound, FailStrategyGeneration
<1>2. PICK g \in DOMAIN generations : g = v.gen
  BY <1>1 DEF WriterSound
<1>3. PICK r : r = generations[g] /\ GenerationSound(r)
  BY DEF StrategySound
<1>4. /\ writer' = [writer EXCEPT ![w] = [v EXCEPT !.pc = "settle"]]
      /\ currentStrategy' = currentStrategy
  BY <1>1 DEF FailStrategyGeneration, At
<1>5. WriterSound([v EXCEPT !.pc = "settle"], generations)
  BY <1>1, WriterRowsKeptSound
<1>6. CASE RecordsFailure(g)
  <2>1. PICK row : row = [r EXCEPT !.state = "FAILED"] /\ GenerationSound(row) /\ r.result = {}
    BY <1>3, <1>6, RowsKeptSound DEF RecordsFailure
  <2>2. generations' = [generations EXCEPT ![g] = row]
    BY <1>1, <1>2, <1>3, <1>6, <2>1 DEF FailStrategyGeneration
  <2>3. QED
    BY <1>3, <1>4, <1>5, <2>1, <2>2, AttemptMovesItsGeneration
<1>7. CASE ~RecordsFailure(g)
  <2>1. generations' = generations
    BY <1>1, <1>2, <1>7 DEF FailStrategyGeneration
  <2>2. QED
    BY <1>4, <1>5, <2>1, OnlyAWriterMoves
<1>8. QED
  BY <1>6, <1>7

LEMMA PublicationKeepsSound ==
  ASSUME StrategySound, NEW w \in StrategyWriters, PublishStrategy(w)
  PROVE  StrategySound'
<1>1. PICK v : v = writer[w] /\ WriterSound(v, generations) /\ v.pc = "commit"
  BY DEF StrategySound, WritersSound, PublishStrategy
<1>2. PICK g \in DOMAIN generations : g = v.gen
  BY <1>1 DEF WriterSound
<1>3. PICK r : r = generations[g] /\ GenerationSound(r)
  BY DEF StrategySound
<1>4. PICK answer : answer = v.answer /\ answer # {}
  BY <1>1 DEF WriterSound
<1>5. writer' = [writer EXCEPT ![w] = IdleWriter]
  BY DEF PublishStrategy
<1>6. CASE WriterHolds(w)
  <2>1. r.job.state = "PROCESSING"
    BY <1>1, <1>2, <1>3, <1>6 DEF WriterHolds, MayContinue, HoldsLease
  <2>2. r.result = {}
    BY <1>3, <2>1 DEF GenerationSound
  <2>3. PICK row : /\ row = [r EXCEPT !.result = answer, !.state = "SUCCEEDED",
                                      !.stage = "PUBLISHING", !.job = Complete(r.job)]
                   /\ GenerationSound(row) /\ row.result # {}
    <3>1. \A x : x # {} => LET new == [r EXCEPT !.result = x, !.state = "SUCCEEDED",
                                                !.stage = "PUBLISHING", !.job = Complete(r.job)]
                           IN GenerationSound(new) /\ new.result # {}
      BY <1>3, RowsKeptSound
    <3>2. QED
      BY <1>4, <3>1
  <2>4. /\ generations' = [generations EXCEPT ![g] = row]
        /\ currentStrategy' = currentStrategy \/ currentStrategy' = g
    BY <1>1, <1>2, <1>3, <1>4, <1>6, <2>2, <2>3 DEF PublishStrategy
  <2>5. QED
    BY <1>5, <2>3, <2>4, IdleWriterSound, AttemptMovesItsGeneration
<1>7. CASE ~WriterHolds(w)
  <2>1. generations' = [generations EXCEPT ![g] = r] /\ currentStrategy' = currentStrategy
    BY <1>1, <1>2, <1>3, <1>7 DEF PublishStrategy
  <2>2. QED
    BY <1>3, <1>5, <2>1, IdleWriterSound, AttemptMovesItsGeneration
<1>8. QED
  BY <1>6, <1>7

LEMMA FreezingKeepsSound ==
  ASSUME StrategySound, NEW q, FreezeRequest(q)
  PROVE  StrategySound'
<1>1. UNCHANGED <<writer, currentStrategy>>
  BY DEF FreezeRequest
<1>2. PICK row : /\ generations' = generations \/ generations' = Append(generations, row)
                 /\ GenerationSound(row)
  <2>1. PICK hash, ordinal, mode, judged, from :
          \/ generations' = generations
          \/ generations' = Append(generations,
               [hash |-> hash, ordinal |-> ordinal, mode |-> mode, judged |-> judged, run |-> from,
                state |-> "QUEUED", stage |-> Null, repair |-> FALSE, result |-> {},
                job |-> Enqueue(AbsentJob)])
    BY DEF FreezeRequest
  <2>2. PICK job \in JobRecords : job = Enqueue(AbsentJob) /\ job.state # "SUCCEEDED"
    <3>1. AbsentJob \in JobRecords /\ AbsentJob.state = "ABSENT" /\ 0 \in Nat
      BY DEF AbsentJob, JobRecords
    <3>2. QED
      BY <3>1, JobsKept, SettledAsBefore
  <2>3. PICK row : row = [hash |-> hash, ordinal |-> ordinal, mode |-> mode, judged |-> judged,
                          run |-> from, state |-> "QUEUED", stage |-> Null, repair |-> FALSE,
                          result |-> {}, job |-> job]
    OBVIOUS
  <2>4. GenerationSound(row)
    BY <2>2, <2>3 DEF GenerationSound, GenerationFields
  <2>5. QED
    BY <2>1, <2>2, <2>3, <2>4
<1>3. CASE generations' = generations
  BY <1>1, <1>3 DEF StrategySound, WritersSound
<1>4. CASE generations' = Append(generations, row)
  <2> DEFINE S == Range(generations) \cup {row}
  <2>1. generations \in Seq(Range(generations))
    BY DEF StrategySound, IsSequence
  <2>2. generations \in Seq(S) /\ row \in S
    <3>1. generations \in [1..Len(generations) -> S] /\ Len(generations) \in Nat
      BY <2>1, LenProperties
    <3>2. QED
      BY <3>1, SeqDef
  <2> HIDE DEF S
  <2>3. /\ generations' \in Seq(S) /\ Len(generations') = Len(generations) + 1
        /\ generations'[Len(generations) + 1] = row
        /\ \A k \in 1..Len(generations) : generations'[k] = generations[k]
    BY <1>4, <2>2, AppendProperties
  <2>4. /\ IsSequence(generations') /\ DOMAIN generations' = 1..Len(generations')
        /\ DOMAIN generations = 1..Len(generations) /\ Len(generations) \in Nat
    BY <2>2, <2>3, SequencesOfTheirItems
  <2>5. DOMAIN generations' = DOMAIN generations \cup {Len(generations) + 1}
    BY <2>3, <2>4
  <2>6. \A k \in DOMAIN generations' : GenerationSound(generations'[k])
    BY <1>2, <2>3, <2>4, <2>5 DEF StrategySound
  <2>7. WritersSound(generations)'
    BY <1>1, <2>5, WritersLookAtDomains DEF StrategySound, WritersSound
  <2>8. currentStrategy' # 0 => /\ currentStrategy' \in DOMAIN generations'
                                /\ generations'[currentStrategy'].result # {}
    BY <1>1, <2>3, <2>4, <2>5 DEF StrategySound
  <2>9. QED
    BY <2>4, <2>6, <2>7, <2>8 DEF StrategySound
<1>5. QED
  BY <1>2, <1>3, <1>4

LEMMA StrategyStepKeepsSound == StrategySound /\ [StrategyNext]_strategyVars => StrategySound'
<1> SUFFICES ASSUME StrategySound, [StrategyNext]_strategyVars PROVE StrategySound'
  OBVIOUS
<1>1. CASE \/ OweRecalculation \/ UNCHANGED strategyVars
           \/ \E e \in EvidenceSets : Recalculate(e)
           \/ \E r \in StrategyRequesters, a, b \in BOOLEAN : JudgeRequest(r, a, b)
  <2>1. UNCHANGED <<generations, writer, currentStrategy>>
    BY <1>1 DEF OweRecalculation, Recalculate, JudgeRequest, strategyVars
  <2>2. QED
    BY <2>1 DEF StrategySound, WritersSound
<1>2. CASE \E r \in StrategyRequesters : FreezeRequest(r)
  BY <1>2, FreezingKeepsSound
<1>3. CASE \E g \in DOMAIN generations :
             RecoverStrategy(g) \/ \E w \in StrategyWriters : ClaimStrategy(w, g)
  BY <1>3, RecoveryKeepsSound, StrategyClaimKeepsSound
<1>4. CASE \E w \in StrategyWriters :
       \/ RefuseEmptyManifest(w) \/ BeginRequesting(w) \/ BeginRepairing(w) \/ BeginPublishing(w)
       \/ RecordStrategyStage(w)
       \/ AskForStrategy(w) \/ FailStrategyGeneration(w) \/ SettleStrategyFailure(w)
       \/ PublishStrategy(w) \/ LoseStrategy(w)
       \/ \E class \in {"RATE_LIMIT", "UNKNOWN", "SEMANTIC_OUTPUT"} : AskFails(w, class)
  BY <1>4, WriterStepsKeepSound, StageKeepsSound, RecordedFailureKeepsSound,
     StrategySettlementKeepsSound, PublicationKeepsSound
<1>5. QED
  BY <1>1, <1>2, <1>3, <1>4 DEF StrategyNext

\* "A late failure must never retract a strategy a reader has already been
\* shown" (failStrategyGeneration): a result is there exactly when its job
\* succeeded, none is FAILED, and what a reader is shown has one, whichever
\* attempts overlapped.
THEOREM PublishedStrategiesAreKept == StrategySpec => []ResultsAreKept
<1>1. StrategySound => ResultsAreKept
  <2> SUFFICES ASSUME StrategySound, CurrentStrategy # 0
               PROVE  generations[CurrentStrategy].result # {}
    BY DEF StrategySound, GenerationSound, ResultsAreKept
  <2>1. CASE strategyScope = "account"
    BY <2>1 DEF CurrentStrategy, StrategySound
  <2>2. CASE strategyScope # "account"
    <3>1. Succeeded # {} /\ CurrentStrategy = Max(Succeeded)
      BY <2>2 DEF CurrentStrategy
    <3>2. PICK n \in Nat : DOMAIN generations = 1..n
      BY LenProperties DEF StrategySound, IsSequence
    <3>3. Succeeded \subseteq 0..n
      BY <3>2 DEF Succeeded
    <3>4. \E k \in Succeeded : \A m \in Succeeded : k >= m
      BY <3>1, <3>3, GreatestNatural
    <3>5. Max(Succeeded) \in Succeeded
      BY <3>4 DEF Max
    <3>6. QED
      BY <3>1, <3>5 DEF Succeeded, StrategySound, GenerationSound
  <2>3. QED
    BY <2>1, <2>2
<1>2. StrategySound /\ [StrategyNext]_strategyVars => StrategySound'
  BY StrategyStepKeepsSound
<1>3. QED
  BY <1>1, <1>2, StrategySoundStarts, PTL DEF StrategySpec

-----------------------------------------------------------------------------
(* What a strategy is asked about.  The candidates of a scope are ranked in *)
(* a total order, statistics first; what is taken and kept of them begins   *)
(* with the best, and an answer over that one item passes every rule.       *)

\* What stands before c in S.
Preceding(S, before, c) == {d \in S : <<d, c>> \in before}

OrdersTotally(before, S) ==
  /\ \A a \in S : <<a, a>> \notin before
  /\ \A a, b \in S : a # b => <<a, b>> \in before \/ <<b, a>> \in before
  /\ \A a, b, c \in S : <<a, b>> \in before /\ <<b, c>> \in before => <<a, c>> \in before

\* A finite set in a total order has an element at every rank.
LEMMA RanksAreTaken ==
  ASSUME NEW S, IsFiniteSet(S), NEW before, OrdersTotally(before, S)
  PROVE  \A i \in 1..Cardinality(S) :
           \E c \in S : Cardinality(Preceding(S, before, c)) = i - 1
<1> DEFINE N == Cardinality(S)
           rank == [c \in S |-> Cardinality(Preceding(S, before, c)) + 1]
<1>0. /\ \A a \in S : <<a, a>> \notin before
      /\ \A a, b \in S : a # b => <<a, b>> \in before \/ <<b, a>> \in before
      /\ \A a, b, c \in S : <<a, b>> \in before /\ <<b, c>> \in before => <<a, c>> \in before
  BY DEF OrdersTotally
<1>1. N \in Nat
  BY FS_CardinalityType
<1>2. ASSUME NEW c \in S
      PROVE  /\ IsFiniteSet(Preceding(S, before, c))
             /\ Cardinality(Preceding(S, before, c)) \in Nat
             /\ Cardinality(Preceding(S, before, c)) < N
  <2>1. Preceding(S, before, c) \in SUBSET S /\ Preceding(S, before, c) # S
    BY <1>0 DEF Preceding
  <2>2. /\ IsFiniteSet(Preceding(S, before, c)) /\ Cardinality(Preceding(S, before, c)) <= N
        /\ N # Cardinality(Preceding(S, before, c))
    BY <2>1, FS_Subset
  <2>3. Cardinality(Preceding(S, before, c)) \in Nat
    BY <2>2, FS_CardinalityType
  <2>4. QED
    BY <1>1, <2>2, <2>3
<1>3. rank \in [S -> 1..N]
  BY <1>1, <1>2
<1>4. ASSUME NEW a \in S, NEW b \in S, <<a, b>> \in before PROVE rank[a] # rank[b]
  <2>1. Preceding(S, before, a) \in SUBSET Preceding(S, before, b)
    BY <1>0, <1>4 DEF Preceding
  <2>2. a \in Preceding(S, before, b) /\ a \notin Preceding(S, before, a)
    BY <1>0, <1>4 DEF Preceding
  <2>3. Cardinality(Preceding(S, before, a)) # Cardinality(Preceding(S, before, b))
    BY <1>2, <2>1, <2>2, FS_Subset
  <2>4. QED
    BY <1>2, <2>3
<1>5. rank \in Injection(S, 1..N)
  <2>1. IsInjective(rank)
    BY <1>0, <1>4 DEF IsInjective
  <2>2. QED
    BY <1>3, <2>1 DEF Injection
<1>6. rank \in Surjection(S, 1..N)
  <2>1. IsFiniteSet(1..N) /\ Cardinality(1..N) = N
    BY <1>1, FS_Interval
  <2>2. QED
    BY <1>5, <2>1, FS_Injection
<1>7. \A i \in 1..N : \E c \in S : rank[c] = i
  BY <1>6 DEF Surjection
<1>8. QED
  BY <1>1, <1>2, <1>7

\* The order of a first number, a falling second one and a third one.
LEMMA LexicographicOrders ==
  ASSUME NEW S, NEW o, NEW sc, NEW rf, NEW before,
         \A a \in S : o[a] \in Int /\ sc[a] \in Int /\ rf[a] \in Int,
         \A a, b \in S : o[a] = o[b] /\ sc[a] = sc[b] /\ rf[a] = rf[b] => a = b,
         \A a, b \in S : <<a, b>> \in before <=>
           (o[a] < o[b] \/ (o[a] = o[b] /\ (sc[a] > sc[b] \/ (sc[a] = sc[b] /\ rf[a] < rf[b]))))
  PROVE  OrdersTotally(before, S)
<1>1. \A a \in S : <<a, a>> \notin before
  OBVIOUS
<1>2. \A a, b \in S : a # b => <<a, b>> \in before \/ <<b, a>> \in before
  OBVIOUS
<1>3. ASSUME NEW a \in S, NEW b \in S, NEW c \in S, <<a, b>> \in before, <<b, c>> \in before
      PROVE  <<a, c>> \in before
  <2>1. /\ o[a] < o[b] \/ (o[a] = o[b] /\ (sc[a] > sc[b] \/ (sc[a] = sc[b] /\ rf[a] < rf[b])))
        /\ o[b] < o[c] \/ (o[b] = o[c] /\ (sc[b] > sc[c] \/ (sc[b] = sc[c] /\ rf[b] < rf[c])))
    BY <1>3
  <2>2. o[a] < o[c] \/ (o[a] = o[c] /\ (sc[a] > sc[c] \/ (sc[a] = sc[c] /\ rf[a] < rf[c])))
    BY <2>1
  <2>3. QED
    BY <2>2
<1>4. QED
  BY <1>1, <1>2, <1>3 DEF OrdersTotally

LEMMA CategoryPlaces ==
  \A category \in Range(Categories) :
    CategoryOrder(category) \in 1..10 /\ Categories[CategoryOrder(category)] = category
<1>1. DOMAIN Categories = 1..10
  BY DEF Categories
<1>2. QED
  BY <1>1 DEF CategoryOrder, Range

LEMMA CategoryOrders ==
  /\ CategoryOrder("positive_statistic") = 1 /\ CategoryOrder("negative_statistic") = 2
  /\ CategoryOrder("counterexample") = 3 /\ CategoryOrder("recent_post") = 6
  /\ CategoryOrder("comparator_post") = 7 /\ CategoryOrder("recent_strategy") = 9
  /\ CategoryOrder("data_quality") = 10
<1>1. DOMAIN Categories = 1..10
  BY DEF Categories
<1>2. /\ Categories[1] = "positive_statistic" /\ Categories[2] = "negative_statistic"
      /\ Categories[3] = "counterexample" /\ Categories[6] = "recent_post"
      /\ Categories[7] = "comparator_post" /\ Categories[9] = "recent_strategy"
      /\ Categories[10] = "data_quality"
  BY DEF Categories
<1>3. \A i, j \in 1..10 : Categories[i] = Categories[j] => i = j
  BY DEF Categories
<1>4. \A i \in 1..10 : CategoryOrder(Categories[i]) = i
  BY <1>1, <1>3 DEF CategoryOrder
<1>5. QED
  BY <1>2, <1>4

\* The kinds of candidates, with what the order and the validator read of them.
StatisticItem(c) ==
  /\ c.type = "feature_statistic" /\ c.ref \in Int /\ c.score \in Int \cup {Null}
  /\ c.category \in {"positive_statistic", "negative_statistic", "counterexample"}
  /\ c.roles \in {{"supporting", "context"}, {"counterexample", "context"}}
  /\ c.required = FALSE /\ c.class # Null /\ Empirical(c.class)
PostItem(c) ==
  /\ c.type = "post" /\ c.ref \in Int /\ c.score \in Int
  /\ c.category \in {"recent_post", "comparator_post"}
  /\ c.roles = {"context"} /\ c.required = FALSE
PriorItem(c) ==
  /\ c.type = "recent_recommendation" /\ c.ref \in Int /\ c.score \in Int
  /\ c.category = "recent_strategy" /\ c.roles = {"context"} /\ c.required = FALSE
CoverageItem(c) ==
  /\ c.type = "data_quality" /\ c.ref = Null /\ c.score = Null
  /\ c.category = "data_quality" /\ c.roles = {"limitation"} /\ c.required = TRUE

ItemSound(c) == StatisticItem(c) \/ PostItem(c) \/ PriorItem(c) \/ CoverageItem(c)

IntegersAt(priors) == DOMAIN priors \subseteq Nat /\ \A i \in DOMAIN priors : priors[i] \in Int

LEMMA StatisticCandidates ==
  ASSUME NEW e \in EvidenceSets, NEW s \in e.statistics
  PROVE  /\ StatisticItem(StatisticCandidate(s)) /\ StatisticCandidate(s).ref = s.id
<1>1. s.id \in Int /\ s.effect \in Int \cup {Null} /\ s.class # Null /\ Empirical(s.class)
  BY EvidenceAssumption
<1>2. PICK undercuts \in BOOLEAN :
        undercuts = (s.unstable \/ s.concentrated \/ s.class = "single_post_outlier")
  OBVIOUS
<1>3. PICK score \in Int \cup {Null} :
        score = IF s.effect = Null THEN Null ELSE IF s.effect < 0 THEN -s.effect ELSE s.effect
  BY <1>1
<1>4. PICK category \in {"positive_statistic", "negative_statistic", "counterexample"} :
        category = IF s.unstable \/ s.concentrated \/ s.class = "single_post_outlier"
                     THEN "counterexample"
                   ELSE IF s.effect # Null /\ s.effect < 0 THEN "negative_statistic"
                   ELSE "positive_statistic"
  OBVIOUS
<1>5. PICK roles \in {{"supporting", "context"}, {"counterexample", "context"}} :
        roles = IF s.unstable \/ s.concentrated \/ s.class = "single_post_outlier"
                  THEN {"counterexample", "context"} ELSE {"supporting", "context"}
  OBVIOUS
<1>6. StatisticCandidate(s) =
        [category |-> category, type |-> "feature_statistic", ref |-> s.id, posts |-> s.members,
         score |-> score, roles |-> roles, class |-> s.class, dimensions |-> {s.dimension},
         required |-> FALSE, size |-> s.size]
  BY <1>3, <1>4, <1>5 DEF StatisticCandidate
<1>7. QED
  BY <1>1, <1>3, <1>4, <1>5, <1>6 DEF StatisticItem

LEMMA PostCandidates ==
  ASSUME NEW e \in EvidenceSets, NEW i \in DOMAIN e.posts
  PROVE  /\ PostItem(PostCandidate(e.posts[i], i)) /\ PostCandidate(e.posts[i], i).score = -i
         /\ i \in Nat
<1>1. i \in Nat /\ e.posts[i].id \in Int
  <2>1. e.posts \in Seq(Range(e.posts)) /\ \A p \in Range(e.posts) : p.id \in Int
    BY EvidenceAssumption
  <2>2. QED
    BY <2>1, LenProperties DEF Range
<1>2. QED
  BY <1>1 DEF PostCandidate, PostItem

LEMMA PriorCandidates ==
  ASSUME NEW priors, IntegersAt(priors), NEW i \in DOMAIN priors
  PROVE  /\ PriorItem(RecentStrategyCandidate(priors[i], i))
         /\ RecentStrategyCandidate(priors[i], i).score = -i /\ i \in Nat
<1>1. i \in Nat /\ priors[i] \in Int
  BY DEF IntegersAt
<1>2. QED
  BY <1>1 DEF RecentStrategyCandidate, PriorItem

LEMMA KindsOfCandidates ==
  ASSUME NEW e \in EvidenceSets, NEW priors, IntegersAt(priors),
         NEW c \in EvidenceCandidates(e.statistics, e.posts, priors)
  PROVE  /\ \/ \E s \in e.statistics : c = StatisticCandidate(s)
            \/ \E i \in DOMAIN e.posts : c = PostCandidate(e.posts[i], i)
            \/ \E i \in DOMAIN priors : c = RecentStrategyCandidate(priors[i], i)
            \/ c = CoverageCandidate
         /\ ItemSound(c)
<1>1. \/ \E s \in e.statistics : c = StatisticCandidate(s)
      \/ \E i \in DOMAIN e.posts : c = PostCandidate(e.posts[i], i)
      \/ \E i \in DOMAIN priors : c = RecentStrategyCandidate(priors[i], i)
      \/ c = CoverageCandidate
  BY DEF EvidenceCandidates
<1>2. CoverageItem(CoverageCandidate)
  BY DEF CoverageCandidate, CoverageItem
<1>3. QED
  BY <1>1, <1>2, StatisticCandidates, PostCandidates, PriorCandidates DEF ItemSound

\* The order in numbers.
Score(c) == IF c.score = Null THEN -1000 ELSE c.score
Reference(c) == IF c.ref = Null THEN 0 ELSE c.ref

LEMMA ItemsHaveNumbers ==
  ASSUME NEW c, ItemSound(c)
  PROVE  /\ c.category \in Range(Categories)
         /\ CategoryOrder(c.category) \in 1..10 /\ Score(c) \in Int /\ Reference(c) \in Int
         /\ StatisticItem(c) <=> CategoryOrder(c.category) \in 1..3
         /\ PostItem(c) <=> CategoryOrder(c.category) \in 6..7
         /\ PriorItem(c) <=> CategoryOrder(c.category) = 9
         /\ CoverageItem(c) <=> CategoryOrder(c.category) = 10
<1>0. DOMAIN Categories = 1..10
  BY DEF Categories
<1>1. {"positive_statistic", "negative_statistic", "counterexample", "recent_post",
       "comparator_post", "recent_strategy", "data_quality"} \subseteq Range(Categories)
  <2>1. /\ Categories[1] = "positive_statistic" /\ Categories[2] = "negative_statistic"
        /\ Categories[3] = "counterexample" /\ Categories[6] = "recent_post"
        /\ Categories[7] = "comparator_post" /\ Categories[9] = "recent_strategy"
        /\ Categories[10] = "data_quality"
    BY DEF Categories
  <2>2. QED
    BY <1>0, <2>1 DEF Range
<1>2. c.category \in Range(Categories)
  BY <1>1 DEF ItemSound, StatisticItem, PostItem, PriorItem, CoverageItem
<1>3. c.category \in {"positive_statistic", "negative_statistic", "counterexample"}
        => CategoryOrder(c.category) \in 1..3
  BY CategoryOrders
<1>4. c.category \in {"recent_post", "comparator_post"} => CategoryOrder(c.category) \in 6..7
  BY CategoryOrders
<1>5. /\ c.category = "recent_strategy" => CategoryOrder(c.category) = 9
      /\ c.category = "data_quality" => CategoryOrder(c.category) = 10
  BY CategoryOrders
<1>6. Score(c) \in Int /\ Reference(c) \in Int
  BY NullAssumption DEF ItemSound, StatisticItem, PostItem, PriorItem, CoverageItem, Score, Reference
<1>7. /\ StatisticItem(c) => CategoryOrder(c.category) \in 1..3
      /\ PostItem(c) => CategoryOrder(c.category) \in 6..7
      /\ PriorItem(c) => CategoryOrder(c.category) = 9
      /\ CoverageItem(c) => CategoryOrder(c.category) = 10
  BY <1>3, <1>4, <1>5 DEF StatisticItem, PostItem, PriorItem, CoverageItem
<1>8. CategoryOrder(c.category) \in 1..10
  BY <1>2, CategoryPlaces
<1>9. QED
  BY <1>2, <1>6, <1>7, <1>8 DEF ItemSound

LEMMA BeforeInNumbers ==
  ASSUME NEW a, ItemSound(a), NEW b, ItemSound(b)
  PROVE  Before(a, b) <=>
           \/ CategoryOrder(a.category) < CategoryOrder(b.category)
           \/ /\ CategoryOrder(a.category) = CategoryOrder(b.category)
              /\ \/ Score(a) > Score(b)
                 \/ Score(a) = Score(b) /\ Reference(a) < Reference(b)
<1>1. a.category = b.category <=> CategoryOrder(a.category) = CategoryOrder(b.category)
  BY ItemsHaveNumbers, CategoryPlaces
<1>2. Before(a, b) <=>
        \/ CategoryOrder(a.category) < CategoryOrder(b.category)
        \/ /\ a.category = b.category
           /\ \/ Score(a) > Score(b)
              \/ Score(a) = Score(b) /\ a.ref # Null /\ a.ref < b.ref
  BY DEF Before, Score
<1>3. ASSUME CategoryOrder(a.category) = CategoryOrder(b.category)
      PROVE  (a.ref # Null /\ a.ref < b.ref) <=> Reference(a) < Reference(b)
  <2>1. CASE CoverageItem(a)
    <3>1. CoverageItem(b)
      BY <1>3, <2>1, ItemsHaveNumbers
    <3>2. a.ref = Null /\ Reference(a) = 0 /\ Reference(b) = 0
      BY <2>1, <3>1 DEF CoverageItem, Reference
    <3>3. QED
      BY <3>2
  <2>2. CASE ~CoverageItem(a)
    <3>1. ~CoverageItem(b)
      BY <1>3, <2>2, ItemsHaveNumbers
    <3>2. a.ref \in Int /\ b.ref \in Int
      BY <2>2, <3>1 DEF ItemSound, StatisticItem, PostItem, PriorItem
    <3>3. Reference(a) = a.ref /\ Reference(b) = b.ref /\ a.ref # Null
      BY <3>2, NullAssumption DEF Reference
    <3>4. QED
      BY <3>3
  <2>3. QED
    BY <2>1, <2>2
<1>4. QED
  BY <1>1, <1>2, <1>3

LEMMA ImagesAreFinite ==
  ASSUME NEW S, IsFiniteSet(S), NEW f, DOMAIN f = S, f = [x \in S |-> f[x]]
  PROVE  IsFiniteSet({f[x] : x \in S})
<1>1. f \in Surjection(S, {f[x] : x \in S})
  BY DEF Surjection
<1>2. QED
  BY <1>1, FS_Surjection

CandidateOrder(C) == {p \in C \X C : Before(p[1], p[2])}

LEMMA CandidatesAreFinite ==
  ASSUME NEW e \in EvidenceSets, NEW priors, IntegersAt(priors)
  PROVE  IsFiniteSet(EvidenceCandidates(e.statistics, e.posts, priors))
<1> DEFINE old == {k \in DOMAIN priors : k <= 3}
           new == {k \in DOMAIN e.posts : k <= PostsCap}
           f == [s \in e.statistics |-> StatisticCandidate(s)]
           g == [i \in new |-> PostCandidate(e.posts[i], i)]
           h == [i \in old |-> RecentStrategyCandidate(priors[i], i)]
<1>1. IsFiniteSet(e.statistics)
  BY EvidenceAssumption
<1>2. IsFiniteSet(new)
  <2>1. new \in SUBSET Nat
    BY PostCandidates
  <2>2. QED
    BY <2>1, RetrievalAssumption, FS_BoundedSetOfNaturals
<1>3. IsFiniteSet(old)
  <2>1. old \in SUBSET Nat /\ 3 \in Nat
    BY DEF IntegersAt
  <2>2. QED
    BY <2>1, FS_BoundedSetOfNaturals
<1>4. IsFiniteSet({f[s] : s \in e.statistics})
  BY <1>1, ImagesAreFinite
<1>5. IsFiniteSet({g[i] : i \in new})
  <2> HIDE DEF new
  <2>1. QED
    BY <1>2, ImagesAreFinite
<1>6. IsFiniteSet({h[i] : i \in old})
  <2> HIDE DEF old
  <2>1. QED
    BY <1>3, ImagesAreFinite
<1>7. IsFiniteSet({CoverageCandidate})
  BY FS_Singleton
<1>8. EvidenceCandidates(e.statistics, e.posts, priors) =
        (({f[s] : s \in e.statistics} \cup {g[i] : i \in new}) \cup {h[i] : i \in old})
          \cup {CoverageCandidate}
  <2>1. /\ {f[s] : s \in e.statistics} = {StatisticCandidate(s) : s \in e.statistics}
        /\ {g[i] : i \in new} = {PostCandidate(e.posts[i], i) : i \in new}
        /\ {h[i] : i \in old} = {RecentStrategyCandidate(priors[i], i) : i \in old}
    OBVIOUS
  <2>2. QED
    BY <2>1 DEF EvidenceCandidates
<1>9. IsFiniteSet({f[s] : s \in e.statistics} \cup {g[i] : i \in new})
  <2> HIDE DEF f, g, h, old, new
  <2>1. QED
    BY <1>4, <1>5, FS_Union
<1>10. IsFiniteSet(({f[s] : s \in e.statistics} \cup {g[i] : i \in new})
                     \cup {h[i] : i \in old})
  <2> HIDE DEF f, g, h, old, new
  <2>1. QED
    BY <1>6, <1>9, FS_Union
<1>11. QED
  <2> HIDE DEF f, g, h, old, new
  <2>1. IsFiniteSet((({f[s] : s \in e.statistics} \cup {g[i] : i \in new})
                       \cup {h[i] : i \in old}) \cup {CoverageCandidate})
    BY <1>7, <1>10, FS_Union
  <2>2. QED
    BY <1>8, <2>1

LEMMA CandidatesInOrder ==
  ASSUME NEW e \in EvidenceSets, NEW priors, IntegersAt(priors)
  PROVE  LET C == EvidenceCandidates(e.statistics, e.posts, priors)
         IN OrdersTotally(CandidateOrder(C), C)
<1> DEFINE C == EvidenceCandidates(e.statistics, e.posts, priors)
           o == [c \in C |-> CategoryOrder(c.category)]
           sc == [c \in C |-> Score(c)]
           rf == [c \in C |-> Reference(c)]
<1>0. \A c \in C : ItemSound(c)
  BY KindsOfCandidates
<1>1. ASSUME NEW c \in C
      PROVE  /\ StatisticItem(c) => \E s \in e.statistics : c = StatisticCandidate(s)
             /\ PostItem(c) => \E i \in DOMAIN e.posts : c = PostCandidate(e.posts[i], i)
             /\ PriorItem(c) => \E i \in DOMAIN priors : c = RecentStrategyCandidate(priors[i], i)
             /\ CoverageItem(c) => c = CoverageCandidate
  <2>1. \/ \E s \in e.statistics : c = StatisticCandidate(s)
        \/ \E i \in DOMAIN e.posts : c = PostCandidate(e.posts[i], i)
        \/ \E i \in DOMAIN priors : c = RecentStrategyCandidate(priors[i], i)
        \/ c = CoverageCandidate
    BY KindsOfCandidates
  <2>2. /\ (\E s \in e.statistics : c = StatisticCandidate(s)) => StatisticItem(c)
        /\ (\E i \in DOMAIN e.posts : c = PostCandidate(e.posts[i], i)) => PostItem(c)
        /\ (\E i \in DOMAIN priors : c = RecentStrategyCandidate(priors[i], i)) => PriorItem(c)
        /\ c = CoverageCandidate => CoverageItem(c)
    <3>1. (\E s \in e.statistics : c = StatisticCandidate(s)) => StatisticItem(c)
      BY StatisticCandidates
    <3>2. (\E i \in DOMAIN e.posts : c = PostCandidate(e.posts[i], i)) => PostItem(c)
      BY PostCandidates
    <3>3. (\E i \in DOMAIN priors : c = RecentStrategyCandidate(priors[i], i)) => PriorItem(c)
      BY PriorCandidates
    <3>4. c = CoverageCandidate => CoverageItem(c)
      BY DEF CoverageCandidate, CoverageItem
    <3>5. QED
      BY <3>1, <3>2, <3>3, <3>4
  <2>3. (StatisticItem(c) => c.type = "feature_statistic")
          /\ (PostItem(c) => c.type = "post") /\ (PriorItem(c) => c.type = "recent_recommendation")
          /\ (CoverageItem(c) => c.type = "data_quality")
    BY DEF StatisticItem, PostItem, PriorItem, CoverageItem
  <2>4. QED
    BY <2>1, <2>2, <2>3
<1>2. \A c \in C : o[c] \in Int /\ sc[c] \in Int /\ rf[c] \in Int
  <2>1. \A c \in C : CategoryOrder(c.category) \in 1..10
    BY <1>0, ItemsHaveNumbers
  <2>2. \A c \in C : Score(c) \in Int /\ Reference(c) \in Int
    BY <1>0, ItemsHaveNumbers
  <2> HIDE DEF C
  <2>3. QED
    BY <2>1, <2>2
<1>3. ASSUME NEW a \in C, NEW b \in C, CategoryOrder(a.category) = CategoryOrder(b.category),
             Score(a) = Score(b), Reference(a) = Reference(b)
      PROVE  a = b
  <2>1. ItemSound(a) /\ ItemSound(b)
    BY <1>0
  <2>2. CASE StatisticItem(a)
    <3>1. StatisticItem(b)
      BY <1>3, <2>1, <2>2, ItemsHaveNumbers
    <3>2. PICK s \in e.statistics : a = StatisticCandidate(s)
      BY <1>1, <2>2, <3>1
    <3>3. PICK t \in e.statistics : b = StatisticCandidate(t)
      BY <1>1, <2>2, <3>1
    <3>4. a.ref = s.id /\ b.ref = t.id /\ s.id \in Int /\ t.id \in Int
      BY <3>2, <3>3, StatisticCandidates, EvidenceAssumption
    <3>5. s = t
      BY <1>3, <3>4, NullAssumption, EvidenceAssumption DEF Reference
    <3>6. QED
      BY <3>2, <3>3, <3>5
  <2>3. CASE PostItem(a)
    <3>1. PostItem(b)
      BY <1>3, <2>1, <2>3, ItemsHaveNumbers
    <3>2. PICK i \in DOMAIN e.posts : a = PostCandidate(e.posts[i], i)
      BY <1>1, <2>3, <3>1
    <3>3. PICK k \in DOMAIN e.posts : b = PostCandidate(e.posts[k], k)
      BY <1>1, <2>3, <3>1
    <3>4. a.score = -i /\ b.score = -k /\ i \in Nat /\ k \in Nat
      BY <3>2, <3>3, PostCandidates
    <3>5. i = k
      BY <1>3, <3>4, NullAssumption DEF Score
    <3>6. QED
      BY <3>2, <3>3, <3>5
  <2>4. CASE PriorItem(a)
    <3>1. PriorItem(b)
      BY <1>3, <2>1, <2>4, ItemsHaveNumbers
    <3>2. PICK i \in DOMAIN priors : a = RecentStrategyCandidate(priors[i], i)
      BY <1>1, <2>4, <3>1
    <3>3. PICK k \in DOMAIN priors : b = RecentStrategyCandidate(priors[k], k)
      BY <1>1, <2>4, <3>1
    <3>4. a.score = -i /\ b.score = -k /\ i \in Nat /\ k \in Nat
      BY <3>2, <3>3, PriorCandidates
    <3>5. i = k
      BY <1>3, <3>4, NullAssumption DEF Score
    <3>6. QED
      BY <3>2, <3>3, <3>5
  <2>5. CASE CoverageItem(a)
    <3>1. CoverageItem(b)
      BY <1>3, <2>1, <2>5, ItemsHaveNumbers
    <3>2. a = CoverageCandidate /\ b = CoverageCandidate
      BY <1>1, <2>5, <3>1
    <3>3. QED
      BY <3>2
  <2>6. QED
    BY <2>1, <2>2, <2>3, <2>4, <2>5 DEF ItemSound
<1>4. ASSUME NEW a \in C, NEW b \in C
      PROVE  <<a, b>> \in CandidateOrder(C) <=>
               (o[a] < o[b] \/ (o[a] = o[b] /\ (sc[a] > sc[b]
                                                 \/ (sc[a] = sc[b] /\ rf[a] < rf[b]))))
  <2>1. <<a, b>> \in CandidateOrder(C) <=> Before(a, b)
    <3> HIDE DEF C
    <3>1. QED
      BY <1>4 DEF CandidateOrder
  <2>2. Before(a, b) <=>
           \/ CategoryOrder(a.category) < CategoryOrder(b.category)
           \/ /\ CategoryOrder(a.category) = CategoryOrder(b.category)
              /\ \/ Score(a) > Score(b)
                 \/ Score(a) = Score(b) /\ Reference(a) < Reference(b)
    BY <1>0, BeforeInNumbers
  <2> HIDE DEF C
  <2>3. QED
    BY <2>1, <2>2
<1>5. \A a, b \in C : o[a] = o[b] /\ sc[a] = sc[b] /\ rf[a] = rf[b] => a = b
  <2> HIDE DEF C
  <2>1. QED
    BY <1>3
<1> HIDE DEF C, o, sc, rf
<1>6. OrdersTotally(CandidateOrder(C), C)
  BY <1>2, <1>4, <1>5, LexicographicOrders
<1>7. QED
  BY <1>6 DEF C

\* Candidates as they are ranked.
LEMMA RankedCandidates ==
  ASSUME NEW e \in EvidenceSets, NEW priors, IntegersAt(priors),
         NEW C, C = EvidenceCandidates(e.statistics, e.posts, priors)
  PROVE  /\ Cardinality(C) \in Nat /\ 1 <= Cardinality(C)
         /\ Ranked(C) \in [1..Cardinality(C) -> C]
         /\ \A d \in C : ~Before(d, Ranked(C)[1])
<1> DEFINE ahead(c) == {d \in C : Before(d, c)}
           N == Cardinality(C)
<1>1. IsFiniteSet(C) /\ OrdersTotally(CandidateOrder(C), C)
  BY CandidatesAreFinite, CandidatesInOrder
<1>2. N \in Nat
  BY <1>1, FS_CardinalityType
<1>3. CoverageCandidate \in C
  BY DEF EvidenceCandidates
<1>4. 1 <= N
  <2>1. N # 0
    BY <1>1, <1>3, FS_EmptySet
  <2>2. QED
    BY <1>2, <2>1
<1>5. \A c \in C : Preceding(C, CandidateOrder(C), c) = ahead(c)
  BY DEF Preceding, CandidateOrder
<1>6. \A i \in 1..N : \E c \in C : Cardinality(ahead(c)) = i - 1
  <2>1. \A i \in 1..N : \E c \in C : Cardinality(Preceding(C, CandidateOrder(C), c)) = i - 1
    BY <1>1, RanksAreTaken
  <2>2. QED
    BY <1>5, <2>1
<1>7. Ranked(C) = [i \in 1..N |-> CHOOSE c \in C : Cardinality(ahead(c)) = i - 1]
  BY DEF Ranked
<1>8. \A i \in 1..N : Ranked(C)[i] \in C /\ Cardinality(ahead(Ranked(C)[i])) = i - 1
  <2> SUFFICES ASSUME NEW i \in 1..N
               PROVE  Ranked(C)[i] \in C /\ Cardinality(ahead(Ranked(C)[i])) = i - 1
    OBVIOUS
  <2>1. Ranked(C)[i] = CHOOSE c \in C : Cardinality(ahead(c)) = i - 1
    BY <1>7
  <2>2. \E c \in C : Cardinality(ahead(c)) = i - 1
    BY <1>6
  <2>3. QED
    BY <2>1, <2>2
<1>9. Ranked(C) \in [1..N -> C]
  BY <1>7, <1>8
<1>10. \A d \in C : ~Before(d, Ranked(C)[1])
  <2>1. 1 \in 1..N
    BY <1>2, <1>4
  <2>2. Cardinality(ahead(Ranked(C)[1])) = 0
    BY <1>8, <2>1
  <2>3. IsFiniteSet(ahead(Ranked(C)[1]))
    BY <1>1, FS_Subset
  <2>4. ahead(Ranked(C)[1]) = {}
    BY <2>2, <2>3, FS_EmptySet
  <2>5. QED
    BY <2>4
<1>11. QED
  BY <1>2, <1>4, <1>9, <1>10

\* No record twice.
RecordsOnce(s) == \A i, j \in DOMAIN s : s[i].type = s[j].type /\ s[i].ref = s[j].ref => i = j

LEMMA RefusalsNeedASame ==
  ASSUME NEW S, NEW acc \in Seq(S), NEW c, ~Refused(acc, c)
  PROVE  \A i \in DOMAIN acc : ~(acc[i].type = c.type /\ acc[i].ref = c.ref)
<1> DEFINE same == {i \in DOMAIN acc : acc[i].type = c.type /\ acc[i].ref = c.ref}
<1>1. ~(Cardinality(same) > 0)
  BY DEF Refused
<1>2. IsFiniteSet(same)
  <2>1. Len(acc) \in Nat /\ DOMAIN acc = 1..Len(acc)
    BY LenProperties
  <2>2. IsFiniteSet(DOMAIN acc)
    BY <2>1, FS_Interval
  <2>3. QED
    BY <2>2, FS_Subset
<1>3. same = {}
  <2>1. Cardinality(same) \in Nat
    BY <1>2, FS_CardinalityType
  <2>2. Cardinality(same) = 0
    BY <1>1, <2>1
  <2>3. QED
    BY <1>2, <2>2, FS_EmptySet
<1>4. QED
  BY <1>3

LEMMA FirstIsTaken ==
  ASSUME NEW c, c.category \in Range(Categories)
  PROVE  Take(<<>>, c) = <<c>>
<1>1. /\ CategoryCap[c.category] \in Nat \ {0}
      /\ StatisticsCap \in Nat \ {0} /\ PostsCap \in Nat \ {0}
  BY RetrievalAssumption
<1>2. Cardinality({}) = 0
  BY FS_EmptySet
<1>3. DOMAIN <<>> = {}
  OBVIOUS
<1>4. /\ {i \in DOMAIN <<>> : <<>>[i].type = c.type /\ <<>>[i].ref = c.ref} = {}
      /\ {i \in DOMAIN <<>> : <<>>[i].category = c.category} = {}
      /\ {i \in DOMAIN <<>> : IsStatistic(<<>>[i])} = {}
      /\ {i \in DOMAIN <<>> : IsPost(<<>>[i])} = {}
  BY <1>3
<1>5. ~Refused(<<>>, c)
  BY <1>1, <1>2, <1>3, <1>4 DEF Refused
<1>6. QED
  BY <1>5 DEF Take

LEMMA TakingKeeps ==
  ASSUME NEW S, NEW acc \in Seq(S), RecordsOnce(acc), NEW c \in S
  PROVE  /\ Take(acc, c) \in Seq(S) /\ RecordsOnce(Take(acc, c))
         /\ acc # <<>> => Take(acc, c) # <<>> /\ Take(acc, c)[1] = acc[1]
<1>1. CASE Refused(acc, c)
  BY <1>1 DEF Take
<1>2. CASE ~Refused(acc, c)
  <2> DEFINE new == Append(acc, c)
  <2>1. Take(acc, c) = new
    BY <1>2 DEF Take
  <2>2. /\ new \in Seq(S) /\ Len(new) = Len(acc) + 1 /\ Len(acc) \in Nat
        /\ \A i \in 1..Len(acc) : new[i] = acc[i]
        /\ new[Len(acc) + 1] = c
        /\ DOMAIN acc = 1..Len(acc) /\ DOMAIN new = 1..Len(new)
    BY AppendProperties, LenProperties
  <2>3. \A i \in DOMAIN acc : ~(acc[i].type = c.type /\ acc[i].ref = c.ref)
    BY <1>2, RefusalsNeedASame
  <2> HIDE DEF new
  <2>4. RecordsOnce(new)
    <3> SUFFICES ASSUME NEW i \in DOMAIN new, NEW j \in DOMAIN new,
                        new[i].type = new[j].type, new[i].ref = new[j].ref
                 PROVE  i = j
      BY DEF RecordsOnce
    <3>1. i \in DOMAIN acc \/ i = Len(acc) + 1
      BY <2>2
    <3>2. j \in DOMAIN acc \/ j = Len(acc) + 1
      BY <2>2
    <3>3. CASE i \in DOMAIN acc /\ j \in DOMAIN acc
      BY <2>2, <3>3 DEF RecordsOnce
    <3>4. CASE i \in DOMAIN acc /\ j = Len(acc) + 1
      BY <2>2, <2>3, <3>4
    <3>5. CASE i = Len(acc) + 1 /\ j \in DOMAIN acc
      BY <2>2, <2>3, <3>5
    <3>6. QED
      BY <3>1, <3>2, <3>3, <3>4, <3>5
  <2>5. acc # <<>> => new # <<>> /\ new[1] = acc[1]
    <3> SUFFICES ASSUME acc # <<>> PROVE new # <<>> /\ new[1] = acc[1]
      OBVIOUS
    <3>1. Len(acc) # 0
      BY EmptySeq
    <3>2. QED
      BY <2>2, <3>1
  <2>6. QED
    BY <2>1, <2>2, <2>4, <2>5
<1>3. QED
  BY <1>1, <1>2

\* What is taken of the first n, one candidate after the other.
Takes(f, ranked, n) ==
  f = [k \in 0..n |-> IF k = 0 THEN <<>> ELSE Take(f[k - 1], ranked[k])]

LEMMA TakesExist ==
  ASSUME NEW ranked, NEW N \in Nat
  PROVE  \E f : Takes(f, ranked, N)
<1> DEFINE T == {n \in Nat : \E f : Takes(f, ranked, n)}
<1>1. 0 \in T
  <2>1. Takes([k \in 0..0 |-> <<>>], ranked, 0)
    BY DEF Takes
  <2>2. QED
    BY <2>1
<1>2. ASSUME NEW n \in Nat, n \in T PROVE n + 1 \in T
  <2>1. PICK f : Takes(f, ranked, n)
    BY <1>2
  <2>2. /\ DOMAIN f = 0..n
        /\ \A k \in 0..n : f[k] = IF k = 0 THEN <<>> ELSE Take(f[k - 1], ranked[k])
    BY <2>1 DEF Takes
  <2> DEFINE g == [k \in 0..(n + 1) |-> IF k = n + 1 THEN Take(f[n], ranked[n + 1]) ELSE f[k]]
  <2>3. ASSUME NEW k \in 0..(n + 1)
        PROVE  g[k] = IF k = 0 THEN <<>> ELSE Take(g[k - 1], ranked[k])
    <3>1. CASE k = n + 1
      <4>1. g[k] = Take(f[n], ranked[n + 1]) /\ g[n] = f[n] /\ k - 1 = n /\ k # 0
        BY <3>1
      <4> HIDE DEF g
      <4>2. QED
        BY <3>1, <4>1
    <3>2. CASE k \in 0..n
      <4>1. g[k] = f[k] /\ (k # 0 => k - 1 \in 0..n /\ g[k - 1] = f[k - 1])
        BY <3>2
      <4> HIDE DEF g
      <4>2. QED
        BY <2>2, <3>2, <4>1
    <3>3. QED
      BY <3>1, <3>2
  <2>4. g = [k \in 0..(n + 1) |-> g[k]]
    OBVIOUS
  <2> HIDE DEF g
  <2>5. Takes(g, ranked, n + 1)
    BY <2>3, <2>4 DEF Takes
  <2>6. QED
    BY <2>5
<1>3. Nat \subseteq T
  <2> HIDE DEF T
  <2>1. QED
    BY <1>1, <1>2, InductiveSet
<1>4. QED
  BY <1>3

TakesSome(f, S, ranked, N) ==
  \A n \in 0..N :
    /\ f[n] \in Seq(S) /\ RecordsOnce(f[n])
    /\ n # 0 => f[n] # <<>> /\ f[n][1] = ranked[1]

LEMMA WhatIsTaken ==
  ASSUME NEW S, \A c \in S : c.category \in Range(Categories),
         NEW N \in Nat, NEW ranked \in [1..N -> S], NEW f, Takes(f, ranked, N)
  PROVE  TakesSome(f, S, ranked, N)
<1> DEFINE kept(n) == /\ f[n] \in Seq(S) /\ RecordsOnce(f[n])
                      /\ n # 0 => f[n] # <<>> /\ f[n][1] = ranked[1]
           T == {n \in Nat : n <= N => kept(n)}
<1>1. \A n \in 0..N : f[n] = IF n = 0 THEN <<>> ELSE Take(f[n - 1], ranked[n])
  BY DEF Takes
<1>2. 0 \in T
  <2>1. f[0] = <<>>
    BY <1>1
  <2>2. <<>> \in Seq(S) /\ RecordsOnce(<<>>)
    BY DEF RecordsOnce
  <2>3. QED
    BY <2>1, <2>2
<1>3. ASSUME NEW n \in Nat, n \in T PROVE n + 1 \in T
  <2> SUFFICES ASSUME n + 1 <= N PROVE kept(n + 1)
    OBVIOUS
  <2>1. kept(n)
    BY <1>3
  <2>2. n + 1 \in 1..N /\ ranked[n + 1] \in S
    OBVIOUS
  <2>3. f[n + 1] = Take(f[n], ranked[n + 1])
    <3>1. n + 1 \in 0..N /\ n + 1 # 0 /\ (n + 1) - 1 = n
      OBVIOUS
    <3>2. QED
      BY <1>1, <3>1
  <2>4. /\ f[n + 1] \in Seq(S) /\ RecordsOnce(f[n + 1])
        /\ f[n] # <<>> => f[n + 1] # <<>> /\ f[n + 1][1] = f[n][1]
    <3> DEFINE acc == f[n]
               c == ranked[n + 1]
    <3>1. acc \in Seq(S) /\ RecordsOnce(acc) /\ c \in S
      BY <2>1, <2>2
    <3>2. f[n + 1] = Take(acc, c)
      BY <2>3
    <3> HIDE DEF acc, c
    <3>3. /\ Take(acc, c) \in Seq(S) /\ RecordsOnce(Take(acc, c))
          /\ acc # <<>> => Take(acc, c) # <<>> /\ Take(acc, c)[1] = acc[1]
      BY <3>1, TakingKeeps
    <3>4. QED
      BY <3>2, <3>3 DEF acc
  <2>5. CASE n = 0
    <3>1. f[n + 1] = <<ranked[1]>>
      BY <1>1, <2>2, <2>3, <2>5, FirstIsTaken
    <3>2. f[n + 1] # <<>> /\ f[n + 1][1] = ranked[1]
      BY <3>1
    <3>3. QED
      BY <2>4, <3>2
  <2>6. CASE n # 0
    BY <2>1, <2>4, <2>6
  <2>7. QED
    BY <2>5, <2>6
<1>4. Nat \subseteq T
  <2> HIDE DEF T
  <2>1. QED
    BY <1>2, <1>3, InductiveSet
<1>5. QED
  BY <1>4 DEF TakesSome

LEMMA BudgetsCutTheEnd ==
  ASSUME NEW S, NEW s \in Seq(S)
  PROVE  \E m \in 0..Len(s) : WithinBudget(s) = SubSeq(s, 1, m)
<1>1. ASSUME NEW k
      PROVE  Cardinality({i \in DOMAIN s : CategoryOrder(s[i].category) <= k}) \in 0..Len(s)
  <2> DEFINE kept == {i \in DOMAIN s : CategoryOrder(s[i].category) <= k}
  <2>1. Len(s) \in Nat /\ DOMAIN s = 1..Len(s)
    BY LenProperties
  <2>2. IsFiniteSet(1..Len(s)) /\ Cardinality(1..Len(s)) = Len(s)
    BY <2>1, FS_Interval
  <2>3. kept \in SUBSET (1..Len(s))
    BY <2>1
  <2> HIDE DEF kept
  <2>4. IsFiniteSet(kept) /\ Cardinality(kept) <= Len(s)
    BY <2>2, <2>3, FS_Subset
  <2>5. Cardinality(kept) \in Nat
    BY <2>4, FS_CardinalityType
  <2>6. QED
    BY <2>1, <2>4, <2>5 DEF kept
<1>2. \E k : WithinBudget(s) =
        SubSeq(s, 1, Cardinality({i \in DOMAIN s : CategoryOrder(s[i].category) <= k}))
  BY Zenon DEF WithinBudget
<1>3. QED
  BY <1>1, <1>2

\* What a selection freezes: candidates, none twice, the best of all first.
LEMMA SelectedEvidence ==
  ASSUME NEW e \in EvidenceSets, NEW priors, IntegersAt(priors),
         NEW C, C = EvidenceCandidates(e.statistics, e.posts, priors),
         NEW E, E = SelectStrategyEvidence(C)
  PROVE  /\ E \in Seq(C) /\ RecordsOnce(E)
         /\ E # <<>> => \A d \in C : ~Before(d, E[1])
<1> DEFINE ranked == Ranked(C)
           N == Cardinality(C)
           taken == CHOOSE f : Takes(f, ranked, N)
<1>1. /\ N \in Nat /\ 1 <= N /\ ranked \in [1..N -> C]
      /\ \A d \in C : ~Before(d, ranked[1])
  BY RankedCandidates
<1>2. E = WithinBudget(taken[N])
  BY DEF SelectStrategyEvidence, Takes
<1>3. Takes(taken, ranked, N)
  BY <1>1, TakesExist
<1>4. \A c \in C : c.category \in Range(Categories)
  BY KindsOfCandidates, ItemsHaveNumbers
<1> HIDE DEF taken, ranked, N
<1>5. /\ taken[N] \in Seq(C) /\ RecordsOnce(taken[N])
      /\ taken[N] # <<>> /\ taken[N][1] = ranked[1]
  <2>1. N \in 0..N /\ N # 0
    BY <1>1
  <2>2. N \in Nat /\ ranked \in [1..N -> C]
    BY <1>1
  <2>3. TakesSome(taken, C, ranked, N)
    BY <1>3, <1>4, <2>2, WhatIsTaken
  <2>4. QED
    BY <2>1, <2>3 DEF TakesSome
<1> DEFINE s == taken[N]
<1>6. /\ s \in Seq(C) /\ RecordsOnce(s) /\ s[1] = ranked[1] /\ E = WithinBudget(s)
  BY <1>2, <1>5
<1> HIDE DEF s
<1>7. PICK m \in 0..Len(s) : E = SubSeq(s, 1, m)
  BY <1>6, BudgetsCutTheEnd
<1>8. Len(s) \in Nat /\ DOMAIN s = 1..Len(s) /\ m \in Int
  BY <1>6, LenProperties
<1>9. E \in Seq(C) /\ Len(E) = m /\ \A i \in 1..m : E[i] = s[i]
  <2>1. ASSUME m = 0 PROVE E \in Seq(C) /\ Len(E) = m
    <3>1. E = <<>>
      BY <1>6, <1>7, <1>8, <2>1, SubSeqEmpty
    <3>2. QED
      BY <2>1, <3>1
  <2>2. ASSUME m # 0 PROVE E \in Seq(C) /\ Len(E) = m /\ \A i \in 1..m : E[i] = s[i]
    <3>1. /\ 1 \in 1..(Len(s) + 1) /\ m \in 0..Len(s) /\ 1 <= m /\ (m - 1) + 1 = m
          /\ \A i \in 1..m : (1 + i) - 1 = i
      BY <1>7, <1>8, <2>2
    <3>2. /\ SubSeq(s, 1, m) \in Seq(C) /\ Len(SubSeq(s, 1, m)) = (m - 1) + 1
          /\ \A i \in 1..((m - 1) + 1) : SubSeq(s, 1, m)[i] = s[(1 + i) - 1]
      BY <1>6, <3>1, SubSeqProperties
    <3>3. QED
      BY <1>7, <3>1, <3>2
  <2>3. QED
    BY <2>1, <2>2
<1>10. DOMAIN E = 1..m
  BY <1>9, LenProperties
<1>11. RecordsOnce(E)
  <2>1. \A i \in 1..m : i \in DOMAIN s
    BY <1>7, <1>8
  <2>2. QED
    BY <1>6, <1>9, <1>10, <2>1 DEF RecordsOnce
<1>12. E # <<>> => E[1] = ranked[1]
  <2>1. E # <<>> => m # 0
    BY <1>9, EmptySeq
  <2>2. QED
    BY <1>6, <1>8, <1>9, <2>1
<1>13. QED
  BY <1>1, <1>9, <1>11, <1>12

\* Statistics come first, and posts before what is required of limitations.
LEMMA BestEvidence ==
  ASSUME NEW e \in EvidenceSets, NEW priors, IntegersAt(priors),
         NEW C, C = EvidenceCandidates(e.statistics, e.posts, priors),
         NEW c \in C, \A d \in C : ~Before(d, c)
  PROVE  /\ e.statistics # {} => StatisticItem(c)
         /\ 1 \in DOMAIN e.posts => ~CoverageItem(c)
<1>1. ItemSound(c)
  BY KindsOfCandidates
<1>2. ASSUME NEW s \in e.statistics PROVE StatisticItem(c)
  <2>1. StatisticCandidate(s) \in C
    BY DEF EvidenceCandidates
  <2>2. StatisticItem(StatisticCandidate(s))
    BY StatisticCandidates
  <2> DEFINE d == StatisticCandidate(s)
  <2>3. ItemSound(d) /\ CategoryOrder(d.category) \in 1..3
    BY <2>2, ItemsHaveNumbers DEF ItemSound
  <2>4. ~(CategoryOrder(d.category) < CategoryOrder(c.category))
    BY <1>1, <2>1, <2>3, BeforeInNumbers
  <2>5. CategoryOrder(c.category) \in 1..10
    BY <1>1, ItemsHaveNumbers
  <2> HIDE DEF d
  <2>6. CategoryOrder(c.category) \in 1..3
    BY <2>3, <2>4, <2>5
  <2>7. QED
    BY <1>1, <2>6, ItemsHaveNumbers
<1>3. ASSUME 1 \in DOMAIN e.posts PROVE ~CoverageItem(c)
  <2> DEFINE d == PostCandidate(e.posts[1], 1)
  <2>1. d \in C
    <3>1. 1 <= PostsCap
      BY RetrievalAssumption
    <3>2. QED
      BY <1>3, <3>1 DEF EvidenceCandidates
  <2>2. PostItem(d)
    BY <1>3, PostCandidates
  <2>3. ItemSound(d) /\ CategoryOrder(d.category) \in 6..7
    BY <2>2, ItemsHaveNumbers DEF ItemSound
  <2>4. ~(CategoryOrder(d.category) < CategoryOrder(c.category))
    BY <1>1, <2>1, <2>3, BeforeInNumbers
  <2> HIDE DEF d
  <2>5. CategoryOrder(c.category) # 10
    BY <2>3, <2>4
  <2>6. QED
    BY <1>1, <2>5, ItemsHaveNumbers
<1>4. QED
  BY <1>2, <1>3

ManifestItem(E, i) ==
  [id |-> <<E[i].category, Cardinality({j \in 1..(i - 1) : E[j].category = E[i].category})>>,
   type |-> E[i].type, roles |-> E[i].roles, class |-> E[i].class,
   dimensions |-> E[i].dimensions, required |-> E[i].required]

LEMMA IdsNameOneItem ==
  ASSUME NEW S, NEW E \in Seq(S),
         NEW i \in DOMAIN E, NEW k \in DOMAIN E, ManifestItem(E, i).id = ManifestItem(E, k).id
  PROVE  i = k
<1> DEFINE as(a) == {j \in 1..(a - 1) : E[j].category = E[a].category}
<1>1. DOMAIN E = 1..Len(E) /\ Len(E) \in Nat
  BY LenProperties
<1>2. E[i].category = E[k].category /\ Cardinality(as(i)) = Cardinality(as(k))
  BY DEF ManifestItem
<1>3. ASSUME NEW a \in DOMAIN E, NEW b \in DOMAIN E, a < b, E[a].category = E[b].category
      PROVE  Cardinality(as(a)) # Cardinality(as(b))
  <2>1. as(a) \in SUBSET as(b) /\ a \in as(b) /\ a \notin as(a)
    BY <1>1, <1>3
  <2>2. IsFiniteSet(as(b))
    <3>1. as(b) \in SUBSET (1..Len(E))
      BY <1>1
    <3>2. IsFiniteSet(1..Len(E))
      BY <1>1, FS_Interval
    <3> HIDE DEF as
    <3>3. QED
      BY <3>1, <3>2, FS_Subset
  <2>3. as(a) # as(b)
    BY <2>1
  <2> HIDE DEF as
  <2>4. IsFiniteSet(as(a)) /\ (Cardinality(as(a)) = Cardinality(as(b)) => as(a) = as(b))
    BY <2>1, <2>2, FS_Subset
  <2>5. QED
    BY <2>3, <2>4
<1>4. CASE i < k
  BY <1>2, <1>3, <1>4
<1>5. CASE k < i
  BY <1>2, <1>3, <1>5
<1>6. QED
  BY <1>1, <1>4, <1>5

\* Citations of a set of items, one role for all.
Cites(f, items, role) ==
  f = [s \in SUBSET items |->
         IF s = {} THEN <<>>
         ELSE LET m == CHOOSE m \in s : TRUE
              IN Append(f[s \ {m}], [id |-> m.id, role |-> role])]

LEMMA NothingIsCited == \A role : Cite({}, role) = <<>>
<1> SUFFICES ASSUME NEW role PROVE Cite({}, role) = <<>>
  OBVIOUS
<1> DEFINE refs == CHOOSE f : Cites(f, {}, role)
<1>1. Cite({}, role) = refs[{}]
  BY DEF Cite, Cites
<1>2. Cites([s \in SUBSET {} |-> <<>>], {}, role)
  <2>1. \A s \in SUBSET {} : s = {}
    OBVIOUS
  <2>2. QED
    BY <2>1 DEF Cites
<1>3. Cites(refs, {}, role)
  BY <1>2
<1> HIDE DEF refs
<1>4. QED
  BY <1>1, <1>3 DEF Cites

LEMMA OneIsCited ==
  ASSUME NEW item, NEW role
  PROVE  Cite({item}, role) = <<[id |-> item.id, role |-> role]>>
<1> DEFINE refs == CHOOSE f : Cites(f, {item}, role)
           one == <<[id |-> item.id, role |-> role]>>
           g == [s \in SUBSET {item} |-> IF s = {} THEN <<>> ELSE one]
<1>1. Cite({item}, role) = refs[{item}]
  BY DEF Cite, Cites
<1>2. \A s \in SUBSET {item} : s = {} \/ s = {item}
  OBVIOUS
<1>3. (CHOOSE m \in {item} : TRUE) = item /\ {item} \ {item} = {} /\ {item} # {}
  OBVIOUS
<1>4. Append(<<>>, [id |-> item.id, role |-> role]) = one
  OBVIOUS
<1>5. Cites(g, {item}, role)
  <2>1. g[{}] = <<>> /\ g[{item}] = one
    BY <1>3
  <2>2. \A s \in SUBSET {item} :
          g[s] = IF s = {} THEN <<>>
                 ELSE LET m == CHOOSE m \in s : TRUE
                      IN Append(g[s \ {m}], [id |-> m.id, role |-> role])
    <3> HIDE DEF g, one
    <3> SUFFICES ASSUME NEW s \in SUBSET {item}
                 PROVE  g[s] = IF s = {} THEN <<>>
                               ELSE LET m == CHOOSE m \in s : TRUE
                                    IN Append(g[s \ {m}], [id |-> m.id, role |-> role])
      OBVIOUS
    <3>1. CASE s = {}
      BY <2>1, <3>1
    <3>2. CASE s = {item}
      <4>1. (CHOOSE m \in s : TRUE) = item /\ s \ {item} = {} /\ s # {}
        BY <1>3, <3>2
      <4>2. Append(g[s \ {item}], [id |-> item.id, role |-> role]) = one
        BY <1>4, <2>1, <4>1
      <4>3. QED
        BY <2>1, <3>2, <4>1, <4>2
    <3>3. QED
      BY <1>2, <3>1, <3>2
  <2>3. g = [s \in SUBSET {item} |-> g[s]]
    OBVIOUS
  <2> HIDE DEF g, one
  <2>4. QED
    BY <2>2, <2>3 DEF Cites
<1>6. Cites(refs, {item}, role)
  BY <1>5
<1> HIDE DEF refs, one, g
<1>7. refs[{item}] = Append(refs[{}], [id |-> item.id, role |-> role]) /\ refs[{}] = <<>>
  <2>1. {item} \in SUBSET {item} /\ {} \in SUBSET {item}
    OBVIOUS
  <2>2. \A s \in SUBSET {item} :
          refs[s] = IF s = {} THEN <<>>
                    ELSE LET m == CHOOSE m \in s : TRUE
                         IN Append(refs[s \ {m}], [id |-> m.id, role |-> role])
    BY <1>6 DEF Cites
  <2>3. QED
    BY <1>3, <2>1, <2>2
<1>8. QED
  BY <1>1, <1>4, <1>7 DEF one

PillarItemIssues(pillar, mode, manifest) ==
  If(pillar.pillar \in {"other", "unknown"}, "ALLOCATION_INVALID")
    \cup ReferenceIssues(pillar.refs, manifest)
    \cup CeilingIssues(pillar.class, Resolved(pillar.refs, manifest), FALSE, mode = "evidence_led")
    \cup If(pillar.experimental # (mode = "exploratory"), "EXPLORATORY_RULE_VIOLATION")

LEMMA OnePillar ==
  ASSUME NEW pillar, pillar.percent = 100, NEW mode, NEW manifest
  PROVE  PillarIssues(<<pillar>>, mode, manifest) = PillarItemIssues(pillar, mode, manifest)
<1> DEFINE pillars == <<pillar>>
           sums(f) == f = [n \in 0..Len(pillars) |->
                             IF n = 0 THEN 0 ELSE f[n - 1] + pillars[n].percent]
           allocated == CHOOSE f : sums(f)
           g == [n \in 0..1 |-> IF n = 0 THEN 0 ELSE 100]
<1>1. Len(pillars) = 1 /\ pillars[1] = pillar
  OBVIOUS
<1>2. sums(g)
  <2>1. \A n \in 0..1 : g[n] = IF n = 0 THEN 0 ELSE g[n - 1] + pillars[n].percent
    OBVIOUS
  <2>2. g = [n \in 0..1 |-> g[n]]
    OBVIOUS
  <2> HIDE DEF g, pillars
  <2>3. QED
    BY <1>1, <2>1, <2>2
<1>3. sums(allocated)
  <2> HIDE DEF sums, g
  <2>1. QED
    BY <1>2
<1>4. allocated[Len(pillars)] = 100
  <2> HIDE DEF allocated, pillars
  <2>1. \A n \in 0..1 : allocated[n] = IF n = 0 THEN 0 ELSE allocated[n - 1] + pillars[n].percent
    BY <1>1, <1>3
  <2>2. QED
    BY <1>1, <2>1
<1> DEFINE repeated == If(\E i, j \in DOMAIN pillars : i < j /\ pillars[i].pillar = pillars[j].pillar,
                          "ALLOCATION_INVALID")
           items == UNION {PillarItemIssues(pillars[i], mode, manifest) : i \in DOMAIN pillars}
<1>5. PillarIssues(pillars, mode, manifest) =
        If(100 # 100, "ALLOCATION_INVALID") \cup repeated \cup items
  BY <1>4, Zenon DEF PillarIssues, PillarItemIssues
<1> HIDE DEF pillars
<1>6. DOMAIN pillars = {1} /\ pillars[1] = pillar
  BY DEF pillars
<1>7. If(100 # 100, "ALLOCATION_INVALID") = {} /\ repeated = {}
  BY <1>6 DEF If
<1>8. items = PillarItemIssues(pillar, mode, manifest)
  BY <1>6
<1> HIDE DEF repeated, items
<1>9. PillarIssues(pillars, mode, manifest) = PillarItemIssues(pillar, mode, manifest)
  BY <1>5, <1>7, <1>8
<1>10. QED
  BY <1>9 DEF pillars

\* A manifest as a selection leaves it, and an item of it to build an answer on.
Presentable(M, item, mode) ==
  /\ item \in M /\ mode \in {"evidence_led", "exploratory"}
  /\ \A m, n \in M : m.id = n.id => m = n
  /\ "context" \in item.roles /\ "limitation" \notin item.roles /\ item.required = FALSE
  /\ \A m \in M : m.required =>
       "limitation" \in m.roles /\ "context" \notin m.roles /\ m.type # "feature_statistic"
  /\ \A m, n \in M : m.required /\ n.required => m = n
  /\ item.type = "feature_statistic" => item.class # Null /\ Empirical(item.class)
  /\ mode = "evidence_led" => item.type = "feature_statistic"

LEMMA OneReference ==
  ASSUME NEW M, NEW item \in M, NEW role \in item.roles, \A m, n \in M : m.id = n.id => m = n
  PROVE  /\ ReferenceIssues(<<[id |-> item.id, role |-> role]>>, M) = {}
         /\ Resolved(<<[id |-> item.id, role |-> role]>>, M) = {item}
<1> DEFINE ref == [id |-> item.id, role |-> role]
           refs == <<ref>>
<1>1. DOMAIN refs = {1} /\ refs[1] = ref /\ ref.id = item.id /\ ref.role = role /\ refs # <<>>
  OBVIOUS
<1>2. {m \in M : m.id = item.id} = {item}
  OBVIOUS
<1> HIDE DEF ref, refs
<1>3. Resolved(refs, M) = {item}
  BY <1>1, <1>2 DEF Resolved
<1>4. ReferenceIssues(refs, M) = {}
  <2> DEFINE first(i) == \A j \in 1..(i - 1) : refs[j].id # refs[i].id
             cited(i) == {m \in M : m.id = refs[i].id}
  <2>1. first(1)
    OBVIOUS
  <2>2. cited(1) = {item}
    BY <1>1, <1>2
  <2>3. /\ ~(refs = <<>>) /\ ~(\E i \in DOMAIN refs : ~first(i))
        /\ ~(\E i \in DOMAIN refs : first(i) /\ cited(i) = {})
        /\ ~(\E i \in DOMAIN refs : first(i) /\ \E m \in cited(i) : refs[i].role \notin m.roles)
    BY <1>1, <2>1, <2>2
  <2>4. QED
    BY <2>3 DEF ReferenceIssues, If
<1>5. QED
  BY <1>3, <1>4 DEF refs, ref

LEMMA InsufficientIsModest ==
  ASSUME NEW item, NEW needed \in BOOLEAN, needed => item.type = "feature_statistic",
         item.type = "feature_statistic" => item.class # Null /\ Empirical(item.class)
  PROVE  CeilingIssues("insufficient_evidence", {item}, FALSE, needed) = {}
<1>1. ClassRank("insufficient_evidence") = 1 /\ Empirical("insufficient_evidence")
  BY DEF ClassRank, Empirical
<1> DEFINE rows == {m \in {item} : m.type = "feature_statistic" /\ m.class # Null}
<1>2. CASE item.type = "feature_statistic"
  <2>1. rows = {item}
    BY <1>2
  <2>2. ClassRank(item.class) \in 1..5
    BY <1>2 DEF Empirical
  <2>3. ~(\A m \in rows : ClassRank("insufficient_evidence") > ClassRank(m.class))
    BY <1>1, <2>1, <2>2
  <2>4. QED
    BY <1>1, <2>1, <2>3 DEF CeilingIssues, If
<1>3. CASE item.type # "feature_statistic"
  <2>1. rows = {} /\ needed = FALSE
    BY <1>3
  <2>2. QED
    BY <1>1, <2>1 DEF CeilingIssues, If
<1>4. QED
  BY <1>2, <1>3

\* The whole answer, its references given.
PlainTest(refs) == [refs |-> refs, changed |-> Text("hook"), stable |-> {Text("length")}]
PlainPillar(refs, mode) ==
  [pillar |-> "education", percent |-> 100, class |-> "insufficient_evidence", refs |-> refs,
   experimental |-> mode = "exploratory"]
PlainRecommendation(refs) ==
  [key |-> "next", refs |-> refs, class |-> "creative_recommendation", pillar |-> "education",
   format |-> "talking_head", cta |-> "follow", leap |-> TRUE,
   hooks |-> <<Text("a"), Text("b"), Text("c")>>, title |-> Text("t1"), topic |-> Text("t1"),
   audience |-> Text("owners"), iteration |-> TRUE, test |-> PlainTest(refs)]
PlainAnswer(refs, limits, mode) ==
  [mode |-> mode, working |-> <<>>, weak |-> <<>>, tests |-> <<PlainTest(refs)>>,
   pillars |-> <<PlainPillar(refs, mode)>>, recommendations |-> <<PlainRecommendation(refs)>>,
   limitations |-> <<[refs |-> limits]>>, leadsWithInsufficiency |-> TRUE]

LEMMA PlainAnswerOfItem ==
  ASSUME NEW M, NEW item, NEW mode, Presentable(M, item, mode)
  PROVE  Answer(mode, {m \in M : m = item \/ m.required}, <<>>, "insufficient_evidence", "t1", TRUE)
           = PlainAnswer(<<[id |-> item.id, role |-> "context"]>>,
                         Cite({m \in M : m.required}, "limitation"), mode)
<1> DEFINE cited == {m \in M : m = item \/ m.required}
           limits == {m \in cited : "limitation" \in m.roles}
           context == {m \in cited : "context" \in m.roles}
           rows == {m \in cited : m.type = "feature_statistic"}
<1>1. context = {item}
  BY DEF Presentable
<1>2. limits = {m \in M : m.required}
  BY DEF Presentable
<1>3. (IF rows = {} THEN context ELSE rows) = {item}
  <2>1. rows = {} \/ rows = {item}
    BY DEF Presentable
  <2> HIDE DEF rows, context
  <2>2. QED
    BY <1>1, <2>1
<1>4. Cite({item}, "context") = <<[id |-> item.id, role |-> "context"]>>
  BY OneIsCited
<1> DEFINE test == [refs |-> Cite(context, "context"), changed |-> Text("hook"),
                    stable |-> {Text("length")}]
<1>5. Answer(mode, cited, <<>>, "insufficient_evidence", "t1", TRUE) =
     [mode |-> mode, working |-> <<>>, weak |-> <<>>, tests |-> <<test>>,
      pillars |-> <<[pillar |-> "education", percent |-> 100, class |-> "insufficient_evidence",
                     refs |-> Cite(IF rows = {} THEN context ELSE rows, "context"),
                     experimental |-> mode = "exploratory"]>>,
      recommendations |->
        <<[key |-> "next", refs |-> Cite(context, "context"), class |-> "creative_recommendation",
           pillar |-> "education", format |-> "talking_head", cta |-> "follow", leap |-> TRUE,
           hooks |-> <<Text("a"), Text("b"), Text("c")>>, title |-> Text("t1"),
           topic |-> Text("t1"), audience |-> Text("owners"), iteration |-> TRUE,
           test |-> test]>>,
      limitations |-> <<[refs |-> Cite(limits, "limitation")]>>,
      leadsWithInsufficiency |-> TRUE]
  BY DEF Answer
<1> HIDE DEF cited, limits, context, rows
<1>6. Cite(limits, "limitation") = Cite({m \in M : m.required}, "limitation")
  BY <1>2
<1>7. /\ Cite(context, "context") = <<[id |-> item.id, role |-> "context"]>>
      /\ Cite(IF rows = {} THEN context ELSE rows, "context") =
           <<[id |-> item.id, role |-> "context"]>>
  BY <1>1, <1>3, <1>4
<1>8. Answer(mode, cited, <<>>, "insufficient_evidence", "t1", TRUE)
        = PlainAnswer(<<[id |-> item.id, role |-> "context"]>>,
                      Cite({m \in M : m.required}, "limitation"), mode)
  BY <1>5, <1>6, <1>7 DEF PlainAnswer, PlainRecommendation, PlainPillar, PlainTest
<1>9. QED
  BY <1>8 DEF cited

\* What the limitations cite: the required item if there is one.
LEMMA RequiredIsCited ==
  ASSUME NEW M, NEW item, NEW mode, Presentable(M, item, mode)
  PROVE  LET limits == Cite({m \in M : m.required}, "limitation")
         IN /\ Len(limits) \in 0..1
            /\ limits = <<>> \/ ReferenceIssues(limits, M) = {}
            /\ \A m \in M : m.required =>
                 \E k \in DOMAIN limits : limits[k].id = m.id /\ limits[k].role = "limitation"
<1> DEFINE R == {m \in M : m.required}
           limits == Cite(R, "limitation")
<1>1. CASE R = {}
  <2>1. limits = <<>>
    BY <1>1, NothingIsCited
  <2>2. \A m \in M : ~m.required
    BY <1>1
  <2> HIDE DEF limits
  <2>3. Len(limits) \in 0..1
    BY <2>1
  <2>4. QED
    BY <2>1, <2>2, <2>3 DEF limits
<1>2. ASSUME NEW n \in R
      PROVE  /\ Len(limits) \in 0..1
             /\ limits = <<>> \/ ReferenceIssues(limits, M) = {}
             /\ \A m \in M : m.required =>
                  \E k \in DOMAIN limits : limits[k].id = m.id /\ limits[k].role = "limitation"
  <2>1. R = {n} /\ n \in M /\ "limitation" \in n.roles
    BY DEF Presentable
  <2>2. limits = <<[id |-> n.id, role |-> "limitation"]>>
    BY <2>1, OneIsCited
  <2>3. ReferenceIssues(limits, M) = {}
    BY <2>1, <2>2, OneReference DEF Presentable
  <2>4. Len(limits) = 1 /\ 1 \in DOMAIN limits
          /\ limits[1].id = n.id /\ limits[1].role = "limitation"
    BY <2>2
  <2>5. \A m \in M : m.required => m = n
    BY <2>1
  <2> HIDE DEF limits, R
  <2>6. QED
    BY <2>3, <2>4, <2>5
<1>3. QED
  BY <1>1, <1>2

LEMMA OneItemRefers ==
  ASSUME NEW item, Len(item.refs) \in 0..12, NEW least \in Nat, least <= Len(item.refs)
  PROVE  References(least, <<item>>)
<1> DEFINE items == <<item>>
<1>1. DOMAIN items = {1} /\ items[1] = item
  OBVIOUS
<1>2. PICK n \in 0..12 : n = Len(item.refs) /\ least <= n
  OBVIOUS
<1>3. n \in Int
  BY <1>2
<1>4. n <= 12
  OBVIOUS
<1>5. least <= n
  BY <1>2
<1>6. n \in least..12
  BY <1>3, <1>4, <1>5
<1> HIDE DEF items
<1>7. References(least, items)
  BY <1>1, <1>2, <1>6 DEF References
<1>8. QED
  BY <1>7 DEF items

LEMMA PlainAnswersFitTheSchema ==
  ASSUME NEW ref, NEW limits, Len(limits) \in 0..1, NEW mode
  PROVE  SchemaValid(PlainAnswer(<<ref>>, limits, mode))
<1> DEFINE refs == <<ref>>
           A == PlainAnswer(refs, limits, mode)
           rec == PlainRecommendation(refs)
<1>1. /\ A.working = <<>> /\ A.weak = <<>> /\ A.tests = <<PlainTest(refs)>>
      /\ A.pillars = <<PlainPillar(refs, mode)>> /\ A.recommendations = <<rec>>
      /\ A.limitations = <<[refs |-> limits]>>
  BY DEF PlainAnswer
<1>2. /\ PlainTest(refs).refs = refs /\ PlainPillar(refs, mode).refs = refs
      /\ rec.refs = refs /\ rec.test.refs = refs /\ Len(rec.hooks) = 3
      /\ rec.title.safe = TRUE
  BY DEF PlainTest, PlainPillar, PlainRecommendation, Text
<1>3. Len(refs) = 1
  OBVIOUS
<1>4. References(1, <<>>)
  BY DEF References
<1> HIDE DEF A, rec, refs
<1>5. /\ References(1, A.working) /\ References(1, A.weak) /\ References(1, A.tests)
      /\ References(1, A.pillars) /\ References(1, A.recommendations)
  BY <1>1, <1>2, <1>3, <1>4, OneItemRefers
<1>6. References(0, A.limitations)
  <2> DEFINE limitation == [refs |-> limits]
  <2>1. limitation.refs = limits
    OBVIOUS
  <2> HIDE DEF limitation
  <2>2. References(0, <<limitation>>)
    BY <2>1, OneItemRefers
  <2>3. QED
    BY <1>1, <2>2 DEF limitation
<1>7. /\ Len(A.working) = 0 /\ Len(A.weak) = 0 /\ Len(A.tests) = 1 /\ Len(A.pillars) = 1
      /\ Len(A.recommendations) = 1 /\ Len(A.limitations) = 1
  BY <1>1
<1>8. \A i \in DOMAIN A.recommendations :
         /\ Len(A.recommendations[i].hooks) \in 3..5
         /\ Len(A.recommendations[i].test.refs) \in 1..12
         /\ BoundedText(A.recommendations[i].title)
  BY <1>1, <1>2, <1>3 DEF BoundedText
<1>9. SchemaValid(A)
  BY <1>5, <1>6, <1>7, <1>8 DEF SchemaValid
<1>10. QED
  BY <1>9 DEF A, refs

LEMMA PlainPillarsPass ==
  ASSUME NEW M, NEW item, NEW mode, Presentable(M, item, mode)
  PROVE  PillarIssues(<<PlainPillar(<<[id |-> item.id, role |-> "context"]>>, mode)>>, mode, M) = {}
<1> DEFINE refs == <<[id |-> item.id, role |-> "context"]>>
           pillar == PlainPillar(refs, mode)
<1>1. /\ pillar.pillar = "education" /\ pillar.percent = 100 /\ pillar.refs = refs
      /\ pillar.class = "insufficient_evidence"
      /\ pillar.experimental = (mode = "exploratory")
  BY DEF PlainPillar
<1>2. ReferenceIssues(refs, M) = {} /\ Resolved(refs, M) = {item}
  BY OneReference DEF Presentable
<1>3. CeilingIssues("insufficient_evidence", {item}, FALSE, mode = "evidence_led") = {}
  BY InsufficientIsModest DEF Presentable
<1> HIDE DEF refs, pillar
<1>4. PillarItemIssues(pillar, mode, M) = {}
  <2>1. /\ If(pillar.pillar \in {"other", "unknown"}, "ALLOCATION_INVALID") = {}
        /\ If(pillar.experimental # (mode = "exploratory"), "EXPLORATORY_RULE_VIOLATION") = {}
    BY <1>1 DEF If
  <2>2. ReferenceIssues(pillar.refs, M) = {}
    BY <1>1, <1>2
  <2>3. CeilingIssues(pillar.class, Resolved(pillar.refs, M), FALSE, mode = "evidence_led") = {}
    BY <1>1, <1>2, <1>3
  <2>4. QED
    BY <2>1, <2>2, <2>3 DEF PillarItemIssues
<1>5. PillarIssues(<<pillar>>, mode, M) = {}
  BY <1>1, <1>4, OnePillar
<1>6. QED
  BY <1>5 DEF pillar, refs

LEMMA PlainTestsPass ==
  ASSUME NEW M, NEW item, NEW mode, Presentable(M, item, mode)
  PROVE  ExperimentIssues(PlainTest(<<[id |-> item.id, role |-> "context"]>>), M) = {}
<1> DEFINE refs == <<[id |-> item.id, role |-> "context"]>>
           test == PlainTest(refs)
<1>1. test.refs = refs /\ test.changed.word = "hook" /\ test.stable = {Text("length")}
      /\ Text("length").word = "length"
  BY DEF PlainTest, Text
<1>2. ReferenceIssues(refs, M) = {}
  BY OneReference DEF Presentable
<1> HIDE DEF refs, test
<1>3. ExperimentIssues(test, M) = {}
  BY <1>1, <1>2 DEF ExperimentIssues, If, Normalise
<1>4. QED
  BY <1>3 DEF test, refs

LEMMA PlainRecommendationsPass ==
  ASSUME NEW M, NEW item, NEW mode, Presentable(M, item, mode), NEW recent
  PROVE  RecommendationIssues(
           <<PlainRecommendation(<<[id |-> item.id, role |-> "context"]>>)>>, recent, M) = {}
<1> DEFINE refs == <<[id |-> item.id, role |-> "context"]>>
           rec == PlainRecommendation(refs)
           recs == <<rec>>
<1>1. /\ rec.refs = refs /\ rec.class = "creative_recommendation" /\ rec.pillar = "education"
      /\ rec.format = "talking_head" /\ rec.cta = "follow" /\ rec.leap = TRUE /\ rec.iteration = TRUE
      /\ rec.test = PlainTest(refs)
  BY DEF PlainRecommendation
<1>2. \A i, j \in DOMAIN rec.hooks : i < j => Normalise(rec.hooks[i]) # Normalise(rec.hooks[j])
  <2>1. /\ rec.hooks = <<Text("a"), Text("b"), Text("c")>>
        /\ Text("a").word = "a" /\ Text("b").word = "b" /\ Text("c").word = "c"
    BY DEF PlainRecommendation, Text
  <2> HIDE DEF rec
  <2>2. DOMAIN rec.hooks = 1..3 /\ rec.hooks[1] = Text("a") /\ rec.hooks[2] = Text("b")
          /\ rec.hooks[3] = Text("c")
    BY <2>1
  <2>3. QED
    BY <2>1, <2>2 DEF Normalise
<1>3. ReferenceIssues(refs, M) = {}
  BY OneReference DEF Presentable
<1>4. ExperimentIssues(PlainTest(refs), M) = {}
  BY PlainTestsPass
<1>5. DOMAIN recs = {1} /\ recs[1] = rec
  OBVIOUS
<1> HIDE DEF refs, rec, recs
<1> DEFINE one(r) ==
        ReferenceIssues(r.refs, M)
          \cup If(r.class # "creative_recommendation", "EMPIRICAL_CLASS_INVALID")
          \cup If(r.pillar \in {"other", "unknown"} \/ r.format = "unknown"
                    \/ r.cta \in {"none", "unknown"}, "RECOMMENDATION_INVALID")
          \cup If(~r.leap /\ \A m \in Resolved(r.refs, M) : m.type # "feature_statistic",
                  "EVIDENCE_REQUIRED")
          \cup If(\E i, j \in DOMAIN r.hooks :
                    i < j /\ Normalise(r.hooks[i]) = Normalise(r.hooks[j]), "DUPLICATE_CONTENT")
          \cup If(Fingerprint(r) \in recent /\ ~r.iteration, "ITERATION_REASON_REQUIRED")
          \cup ExperimentIssues(r.test, M)
           titled(r) == Normalise(r.title)
           twice == (\E i, j \in DOMAIN recs : i < j /\ titled(recs[i]) = titled(recs[j]))
                      \/ (\E i, j \in DOMAIN recs :
                            i < j /\ Fingerprint(recs[i]) = Fingerprint(recs[j]))
<1>6. one(rec) = {}
  <2>1. /\ If(rec.class # "creative_recommendation", "EMPIRICAL_CLASS_INVALID") = {}
        /\ If(rec.pillar \in {"other", "unknown"} \/ rec.format = "unknown"
                \/ rec.cta \in {"none", "unknown"}, "RECOMMENDATION_INVALID") = {}
    BY <1>1 DEF If
  <2>2. /\ If(~rec.leap /\ \A m \in Resolved(rec.refs, M) : m.type # "feature_statistic",
              "EVIDENCE_REQUIRED") = {}
        /\ If(Fingerprint(rec) \in recent /\ ~rec.iteration, "ITERATION_REASON_REQUIRED") = {}
    BY <1>1 DEF If
  <2>3. If(\E i, j \in DOMAIN rec.hooks :
             i < j /\ Normalise(rec.hooks[i]) = Normalise(rec.hooks[j]), "DUPLICATE_CONTENT") = {}
    BY <1>2 DEF If
  <2>4. ReferenceIssues(rec.refs, M) = {} /\ ExperimentIssues(rec.test, M) = {}
    BY <1>1, <1>3, <1>4
  <2>5. QED
    BY <2>1, <2>2, <2>3, <2>4
<1>7. ~twice
  BY <1>5
<1>8. RecommendationIssues(recs, recent, M) =
        (UNION {one(recs[i]) : i \in DOMAIN recs}) \cup If(twice, "DUPLICATE_CONTENT")
  BY Zenon DEF RecommendationIssues
<1> HIDE DEF one, twice
<1>9. UNION {one(recs[i]) : i \in DOMAIN recs} = {}
  BY <1>5, <1>6
<1>10. If(twice, "DUPLICATE_CONTENT") = {}
  BY <1>7 DEF If
<1>11. RecommendationIssues(recs, recent, M) = {}
  BY <1>8, <1>9, <1>10
<1>12. QED
  BY <1>11 DEF recs, rec, refs

LEMMA PlainAnswersAreAccepted ==
  ASSUME NEW M, NEW item, NEW mode, Presentable(M, item, mode), NEW recent
  PROVE  ValidateStrategy(
           Answer(mode, {m \in M : m = item \/ m.required}, <<>>, "insufficient_evidence", "t1",
                  TRUE), mode, M, recent) = {}
<1> DEFINE ref == [id |-> item.id, role |-> "context"]
           refs == <<ref>>
           limits == Cite({m \in M : m.required}, "limitation")
           test == PlainTest(refs)
           pillar == PlainPillar(refs, mode)
           rec == PlainRecommendation(refs)
           A == PlainAnswer(refs, limits, mode)
<1>1. Answer(mode, {m \in M : m = item \/ m.required}, <<>>, "insufficient_evidence", "t1", TRUE)
        = A
  BY PlainAnswerOfItem
<1>2. /\ Len(limits) \in 0..1
      /\ limits = <<>> \/ ReferenceIssues(limits, M) = {}
      /\ \A m \in M : m.required =>
           \E k \in DOMAIN limits : limits[k].id = m.id /\ limits[k].role = "limitation"
  BY RequiredIsCited
<1>3. SchemaValid(A)
  BY <1>2, PlainAnswersFitTheSchema
<1>4. /\ PillarIssues(<<pillar>>, mode, M) = {}
      /\ ExperimentIssues(test, M) = {}
      /\ RecommendationIssues(<<rec>>, recent, M) = {}
  BY PlainPillarsPass, PlainTestsPass, PlainRecommendationsPass
<1>5. /\ A.mode = mode /\ A.working = <<>> /\ A.weak = <<>> /\ A.tests = <<test>>
      /\ A.pillars = <<pillar>> /\ A.recommendations = <<rec>>
      /\ A.limitations = <<[refs |-> limits]>> /\ A.leadsWithInsufficiency = TRUE
  BY DEF PlainAnswer
<1>6. pillar.class = "insufficient_evidence"
  BY DEF PlainPillar
<1> HIDE DEF ref, refs, limits, test, pillar, rec, A
<1>7. If(A.mode # mode, "MODE_MISMATCH") = {} /\ If(M = {}, "EVIDENCE_REQUIRED") = {}
  BY <1>5 DEF If, Presentable
<1>8. /\ ClaimsIssues(A.working, "working", A.mode, M) = {}
      /\ ClaimsIssues(A.weak, "weak", A.mode, M) = {}
  <2>1. \A section : ClaimsIssues(<<>>, section, A.mode, M) = {}
    BY DEF ClaimsIssues
  <2>2. QED
    BY <1>5, <2>1
<1>9. UNION {ExperimentIssues(A.tests[i], M) : i \in DOMAIN A.tests} = {}
  <2>1. DOMAIN A.tests = {1} /\ A.tests[1] = test
    BY <1>5
  <2>2. \A i \in DOMAIN A.tests : ExperimentIssues(A.tests[i], M) = {}
    BY <1>4, <2>1
  <2>3. QED
    BY <2>2
<1>10. LimitationIssues(A.limitations, M) = {}
  <2> DEFINE limitation == [refs |-> limits]
             ls == <<limitation>>
  <2>1. DOMAIN ls = {1} /\ ls[1].refs = limits
    OBVIOUS
  <2> HIDE DEF ls
  <2>2. ~(\E m \in M : m.required
            /\ ~(\E i \in DOMAIN ls : \E k \in DOMAIN ls[i].refs :
                   ls[i].refs[k].id = m.id /\ ls[i].refs[k].role = "limitation"))
    BY <1>2, <2>1
  <2>3. \A i \in DOMAIN ls :
          (IF ls[i].refs = <<>> THEN {} ELSE ReferenceIssues(ls[i].refs, M)) = {}
    BY <1>2, <2>1
  <2>4. UNION {IF ls[i].refs = <<>> THEN {} ELSE ReferenceIssues(ls[i].refs, M)
               : i \in DOMAIN ls} = {}
    BY <2>3
  <2>5. LimitationIssues(ls, M) = {}
    BY <2>2, <2>4 DEF LimitationIssues, If
  <2>6. QED
    BY <1>5, <2>5 DEF ls
<1>11. KeyIssues(A) = {}
  <2> DEFINE all == A.working \o A.weak \o A.recommendations
  <2>1. all = <<rec>>
    BY <1>5
  <2>2. DOMAIN all = {1}
    BY <2>1
  <2> HIDE DEF all
  <2>3. ~(\E i, j \in DOMAIN all : i < j /\ all[i].key = all[j].key)
    BY <2>2
  <2>4. QED
    BY <2>3 DEF KeyIssues, If, all
<1>12. ExploratoryIssues(A) = {}
  <2>1. \A i \in DOMAIN A.pillars : A.pillars[i].class = "insufficient_evidence"
    BY <1>5, <1>6
  <2>2. \A i \in DOMAIN A.weak : FALSE
    BY <1>5
  <2>3. QED
    BY <1>5, <2>1, <2>2 DEF ExploratoryIssues, If
<1>13. PillarIssues(A.pillars, A.mode, M) = {} /\ RecommendationIssues(A.recommendations, recent, M) = {}
  BY <1>4, <1>5
<1>14. ValidateStrategy(A, mode, M, recent) = {}
  BY <1>3, <1>7, <1>8, <1>9, <1>10, <1>11, <1>12, <1>13 DEF ValidateStrategy
<1>15. QED
  BY <1>1, <1>14

\* A mode that the evidence of a calculation bears.
FitsEvidence(mode, e) ==
  /\ mode \in {"evidence_led", "exploratory"} /\ 1 \in DOMAIN e.posts
  /\ mode = "evidence_led" => e.statistics # {}

LEMMA ManifestsArePresentable ==
  ASSUME NEW e \in EvidenceSets, NEW priors, IntegersAt(priors), NEW mode, FitsEvidence(mode, e),
         NEW E, E = SelectStrategyEvidence(EvidenceCandidates(e.statistics, e.posts, priors)),
         E # <<>>
  PROVE  Presentable(Manifest(E), ManifestItem(E, 1), mode)
<1> DEFINE C == EvidenceCandidates(e.statistics, e.posts, priors)
           M == Manifest(E)
<1>1. E \in Seq(C) /\ RecordsOnce(E) /\ \A d \in C : ~Before(d, E[1])
  BY SelectedEvidence
<1>2. DOMAIN E = 1..Len(E) /\ Len(E) \in Nat /\ 1 \in DOMAIN E /\ \A i \in DOMAIN E : E[i] \in C
  BY <1>1, LenProperties, EmptySeq
<1>3. \A i \in DOMAIN E : ItemSound(E[i])
  BY <1>2, KindsOfCandidates
<1>4. /\ e.statistics # {} => StatisticItem(E[1])
      /\ ~CoverageItem(E[1])
  BY <1>1, <1>2, BestEvidence DEF FitsEvidence
<1>5. M = {ManifestItem(E, i) : i \in DOMAIN E}
  BY DEF Manifest, ManifestItem
<1>6. \A i \in DOMAIN E :
        LET m == ManifestItem(E, i)
        IN /\ m.type = E[i].type /\ m.roles = E[i].roles /\ m.class = E[i].class
           /\ m.required = E[i].required
  BY DEF ManifestItem
<1>7. \A i, k \in DOMAIN E : ManifestItem(E, i).id = ManifestItem(E, k).id => i = k
  BY <1>1, IdsNameOneItem
<1> HIDE DEF M
<1>8. \A m, n \in M : m.id = n.id => m = n
  BY <1>5, <1>7
<1>9. /\ ManifestItem(E, 1) \in M
      /\ "context" \in E[1].roles /\ "limitation" \notin E[1].roles /\ E[1].required = FALSE
      /\ E[1].type = "feature_statistic" => E[1].class # Null /\ Empirical(E[1].class)
      /\ mode = "evidence_led" => E[1].type = "feature_statistic"
  <2>1. StatisticItem(E[1]) \/ PostItem(E[1]) \/ PriorItem(E[1])
    BY <1>2, <1>3, <1>4 DEF ItemSound
  <2>2. mode = "evidence_led" => StatisticItem(E[1])
    BY <1>4 DEF FitsEvidence
  <2>3. QED
    BY <1>2, <1>5, <2>1, <2>2 DEF StatisticItem, PostItem, PriorItem
<1>10. ASSUME NEW i \in DOMAIN E, E[i].required
       PROVE  /\ "limitation" \in E[i].roles /\ "context" \notin E[i].roles
              /\ E[i].type = "data_quality" /\ E[i].ref = Null
  <2>1. CoverageItem(E[i])
    BY <1>3, <1>10 DEF ItemSound, StatisticItem, PostItem, PriorItem
  <2>2. QED
    BY <2>1 DEF CoverageItem
<1>11. \A i, k \in DOMAIN E : E[i].required /\ E[k].required => i = k
  BY <1>1, <1>10 DEF RecordsOnce
<1>12. \A m \in M : m.required =>
         "limitation" \in m.roles /\ "context" \notin m.roles /\ m.type # "feature_statistic"
  <2> SUFFICES ASSUME NEW i \in DOMAIN E, ManifestItem(E, i).required
               PROVE  /\ "limitation" \in ManifestItem(E, i).roles
                      /\ "context" \notin ManifestItem(E, i).roles
                      /\ ManifestItem(E, i).type # "feature_statistic"
    BY <1>5
  <2>1. E[i].required
    BY <1>6
  <2>2. QED
    BY <1>6, <1>10, <2>1
<1>13. \A m, n \in M : m.required /\ n.required => m = n
  <2> SUFFICES ASSUME NEW i \in DOMAIN E, NEW k \in DOMAIN E,
                      ManifestItem(E, i).required, ManifestItem(E, k).required
               PROVE  i = k
    BY <1>5
  <2>1. E[i].required /\ E[k].required
    BY <1>6
  <2>2. QED
    BY <1>11, <2>1
<1> DEFINE item == ManifestItem(E, 1)
<1>14. /\ item.type = E[1].type /\ item.roles = E[1].roles /\ item.class = E[1].class
       /\ item.required = E[1].required
  BY <1>2, <1>6
<1> HIDE DEF item
<1>15. item \in M
  BY <1>9 DEF item
<1>16. mode \in {"evidence_led", "exploratory"}
  BY DEF FitsEvidence
<1>17. Presentable(M, item, mode)
  BY <1>8, <1>9, <1>12, <1>13, <1>14, <1>15, <1>16 DEF Presentable
<1>18. QED
  BY <1>17 DEF M, item

\* A generation for whose manifest there is an answer, whatever was said before.
Answerable(g) ==
  (g.hash.entries # <<>> /\ g.judged = g.run) =>
    LET manifest == Manifest(g.hash.entries)
    IN \E answer \in PlainAnswers(g.mode, manifest) :
         \A recent : ValidateStrategy(answer, g.mode, manifest, recent) = {}

LEMMA PresentableManifestsAreAnswerable ==
  ASSUME NEW g, NEW item, Presentable(Manifest(g.hash.entries), item, g.mode)
  PROVE  Answerable(g)
<1> DEFINE M == Manifest(g.hash.entries)
           answer == Answer(g.mode, {m \in M : m = item \/ m.required}, <<>>,
                            "insufficient_evidence", "t1", TRUE)
<1>1. \A recent : ValidateStrategy(answer, g.mode, M, recent) = {}
  BY PlainAnswersAreAccepted
<1>2. answer \in PlainAnswers(g.mode, M)
  BY DEF PlainAnswers, Presentable
<1> HIDE DEF answer
<1>3. QED
  BY <1>1, <1>2 DEF Answerable

\* Earlier strategies are recalled by their number.
LEMMA PriorsAreGenerations ==
  ASSUME StrategySound
  PROVE  IntegersAt(Priors)
<1> DEFINE newer == {p \in Succeeded \X Succeeded : p[1] > p[2]}
           N == Cardinality(Succeeded)
<1>1. Succeeded \subseteq Nat /\ IsFiniteSet(Succeeded)
  <2>1. DOMAIN generations = 1..Len(generations) /\ Len(generations) \in Nat
    BY LenProperties DEF StrategySound, IsSequence
  <2>2. Succeeded \in SUBSET (1..Len(generations))
    BY <2>1 DEF Succeeded
  <2>3. IsFiniteSet(1..Len(generations))
    BY <2>1, FS_Interval
  <2>4. IsFiniteSet(Succeeded)
    BY <2>2, <2>3, FS_Subset
  <2>5. QED
    BY <2>2, <2>4
<1>2. OrdersTotally(newer, Succeeded)
  <2>1. \A a, b \in Succeeded : <<a, b>> \in newer <=> a > b
    OBVIOUS
  <2> HIDE DEF newer
  <2>2. QED
    BY <1>1, <2>1 DEF OrdersTotally
<1>3. \A g \in Succeeded : Preceding(Succeeded, newer, g) = {h \in Succeeded : h > g}
  BY DEF Preceding
<1>4. \A i \in 1..N : \E g \in Succeeded : Cardinality(Preceding(Succeeded, newer, g)) = i - 1
  <2> HIDE DEF newer
  <2>1. QED
    BY <1>1, <1>2, RanksAreTaken
<1>5. \A i \in 1..N : \E g \in Succeeded : Cardinality({h \in Succeeded : h > g}) = i - 1
  BY <1>3, <1>4
<1>6. Priors = [i \in 1..N |->
                  CHOOSE g \in Succeeded : Cardinality({h \in Succeeded : h > g}) = i - 1]
  BY DEF Priors
<1>7. ASSUME NEW i \in 1..N PROVE Priors[i] \in Int
  <2>1. Priors[i] = CHOOSE g \in Succeeded : Cardinality({h \in Succeeded : h > g}) = i - 1
    BY <1>6
  <2>2. \E g \in Succeeded : Cardinality({h \in Succeeded : h > g}) = i - 1
    BY <1>5
  <2>3. Priors[i] \in Succeeded
    BY <2>1, <2>2
  <2>4. \A g \in Succeeded : g \in Int
    BY <1>1
  <2>5. QED
    BY <2>3, <2>4
<1>8. DOMAIN Priors = 1..N /\ N \in Nat
  BY <1>1, <1>6, FS_CardinalityType
<1>9. QED
  BY <1>7, <1>8 DEF IntegersAt

\* What is frozen stays, and what is judged on the run that is read fits its
\* evidence.
EvidenceSound ==
  /\ activeRun.run \in Nat /\ activeRun.evidence \in EvidenceSets
  /\ DOMAIN requester = StrategyRequesters
  /\ \A r \in StrategyRequesters : requester[r].pc = "freeze" =>
       /\ requester[r].judged \in Nat /\ requester[r].judged <= activeRun.run
       /\ requester[r].judged = activeRun.run => FitsEvidence(requester[r].mode, activeRun.evidence)
  /\ \A g \in DOMAIN generations : Answerable(generations[g])

LEMMA EvidenceSoundStarts == StrategyInit => EvidenceSound
<1> SUFFICES ASSUME StrategyInit PROVE EvidenceSound
  OBVIOUS
<1>1. PICK e \in EvidenceSets : activeRun = [run |-> 1, evidence |-> e]
  BY DEF StrategyInit
<1>2. generations = <<>> /\ requester = [r \in StrategyRequesters |-> IdleRequester]
  BY DEF StrategyInit
<1>3. QED
  BY <1>1, <1>2 DEF EvidenceSound, IdleRequester

LEMMA JudgedModesFit ==
  ASSUME EvidenceSound, NEW r \in StrategyRequesters, NEW a, NEW b, JudgeRequest(r, a, b)
  PROVE  EvidenceSound'
<1> DEFINE e == activeRun.evidence
           in == [scope |-> strategyScope, metricDerived |-> TRUE, analysed |-> Len(e.posts),
                  run |-> activeRun.run, dirty |-> owed,
                  comparable |-> Cardinality(ComparablePosts(e.statistics)), weeks |-> e.weeks,
                  acceptExploratory |-> a]
           verdict == EvaluateEligibility(in)
<1>1. /\ Eligible(verdict) /\ UNCHANGED <<activeRun, generations>>
      /\ requester' = [requester EXCEPT ![r] =
           [pc |-> "freeze", judged |-> activeRun.run, mode |-> verdict, regenerate |-> b]]
  BY DEF JudgeRequest
<1>2. /\ in.analysed = Len(e.posts) /\ in.comparable = Cardinality(ComparablePosts(e.statistics))
      /\ activeRun.evidence \in EvidenceSets /\ e \in EvidenceSets
  BY DEF EvidenceSound
<1> HIDE DEF in
<1>3. /\ verdict \in {"evidence_led", "exploratory"} /\ in.analysed # 0
      /\ verdict = "evidence_led" => in.comparable >= EligibilityThresholds.comparablePosts
  BY <1>1 DEF Eligible, EvaluateEligibility
<1>4. 1 \in DOMAIN e.posts
  <2>1. e.posts \in Seq(Range(e.posts))
    BY <1>2, EvidenceAssumption
  <2>2. Len(e.posts) \in Nat /\ DOMAIN e.posts = 1..Len(e.posts)
    BY <2>1, LenProperties
  <2>3. QED
    BY <1>2, <1>3, <2>2
<1>5. verdict = "evidence_led" => e.statistics # {}
  <2> SUFFICES ASSUME verdict = "evidence_led", e.statistics = {} PROVE FALSE
    OBVIOUS
  <2>1. ComparablePosts(e.statistics) = {}
    BY DEF ComparablePosts
  <2>2. in.comparable = 0
    BY <1>2, <2>1, FS_EmptySet
  <2>3. QED
    BY <1>3, <2>2, RetrievalAssumption
<1>6. FitsEvidence(verdict, e)
  BY <1>3, <1>4, <1>5 DEF FitsEvidence
<1> HIDE DEF verdict
<1>7. requester'[r] = [pc |-> "freeze", judged |-> activeRun.run, mode |-> verdict, regenerate |-> b]
        /\ \A q \in StrategyRequesters : q # r => requester'[q] = requester[q]
        /\ DOMAIN requester' = StrategyRequesters
  BY <1>1 DEF EvidenceSound
<1>8. \A q \in StrategyRequesters : requester'[q].pc = "freeze" =>
         /\ requester'[q].judged \in Nat /\ requester'[q].judged <= activeRun.run
         /\ requester'[q].judged = activeRun.run => FitsEvidence(requester'[q].mode, e)
  BY <1>6, <1>7 DEF EvidenceSound
<1>9. QED
  BY <1>1, <1>7, <1>8 DEF EvidenceSound

\* A new run is later than whatever was judged before it.
LEMMA RecalculationKeepsEvidence ==
  ASSUME EvidenceSound, NEW e \in EvidenceSets, Recalculate(e)
  PROVE  EvidenceSound'
<1>1. /\ activeRun' = [run |-> activeRun.run + 1, evidence |-> e]
      /\ UNCHANGED <<generations, requester>>
  BY DEF Recalculate
<1>2. activeRun'.run = activeRun.run + 1 /\ activeRun'.evidence = e
  BY <1>1
<1>3. \A r \in StrategyRequesters : requester[r].pc = "freeze" =>
         /\ requester[r].judged \in Nat /\ requester[r].judged <= activeRun'.run
         /\ requester[r].judged # activeRun'.run
  BY <1>2 DEF EvidenceSound
<1>4. activeRun'.run \in Nat
  BY <1>2 DEF EvidenceSound
<1>5. QED
  BY <1>1, <1>2, <1>3, <1>4 DEF EvidenceSound

LEMMA FrozenManifestIsAnswerable ==
  ASSUME StrategySound, EvidenceSound, NEW r \in StrategyRequesters, FreezeRequest(r)
  PROVE  EvidenceSound'
<1> DEFINE q == requester[r]
           hash == ManifestHash(q.mode)
<1>1. UNCHANGED activeRun /\ requester' = [requester EXCEPT ![r] = IdleRequester] /\ q.pc = "freeze"
  BY DEF FreezeRequest
<1>2. PICK ordinal :
        \/ generations' = generations
        \/ generations' = Append(generations,
             [hash |-> hash, ordinal |-> ordinal, mode |-> q.mode, judged |-> q.judged,
              run |-> activeRun.run, state |-> "QUEUED", stage |-> Null, repair |-> FALSE,
              result |-> {}, job |-> Enqueue(AbsentJob)])
  BY DEF FreezeRequest
<1>3. PICK row : row = [hash |-> hash, ordinal |-> ordinal, mode |-> q.mode, judged |-> q.judged,
                        run |-> activeRun.run, state |-> "QUEUED", stage |-> Null,
                        repair |-> FALSE, result |-> {}, job |-> Enqueue(AbsentJob)]
  OBVIOUS
<1>4. Answerable(row)
  <2> DEFINE e == activeRun.evidence
             E == SelectStrategyEvidence(EvidenceCandidates(e.statistics, e.posts, Priors))
  <2>1. row.hash.entries = E /\ row.mode = q.mode /\ row.judged = q.judged
          /\ row.run = activeRun.run
    BY <1>3 DEF ManifestHash, FrozenEvidence
  <2> HIDE DEF q
  <2>2. CASE E = <<>> \/ q.judged # activeRun.run
    <3> HIDE DEF E
    <3>1. QED
      BY <2>1, <2>2 DEF Answerable
  <2>3. CASE E # <<>> /\ q.judged = activeRun.run
    <3>1. e \in EvidenceSets /\ FitsEvidence(q.mode, e)
      BY <1>1, <2>3 DEF EvidenceSound, q
    <3>2. Presentable(Manifest(E), ManifestItem(E, 1), q.mode)
      BY <2>3, <3>1, PriorsAreGenerations, ManifestsArePresentable
    <3> HIDE DEF E
    <3>3. Presentable(Manifest(row.hash.entries), ManifestItem(E, 1), row.mode)
      BY <2>1, <3>2
    <3>4. QED
      BY <3>3, PresentableManifestsAreAnswerable
  <2>4. QED
    BY <2>2, <2>3
<1>5. generations' = generations \/ generations' = Append(generations, row)
  BY <1>2, <1>3
<1>6. \A g \in DOMAIN generations' : Answerable(generations'[g])
  <2>1. CASE generations' = generations
    BY <2>1 DEF EvidenceSound
  <2>2. CASE generations' = Append(generations, row)
    <3> DEFINE S == Range(generations) \cup {row}
    <3>1. generations \in Seq(Range(generations))
      BY DEF StrategySound, IsSequence
    <3>2. generations \in Seq(S) /\ row \in S
      <4>1. generations \in [1..Len(generations) -> S] /\ Len(generations) \in Nat
        BY <3>1, LenProperties
      <4>2. QED
        BY <4>1, SeqDef
    <3> HIDE DEF S
    <3>3. /\ generations' \in Seq(S) /\ Len(generations') = Len(generations) + 1
          /\ generations'[Len(generations) + 1] = row
          /\ \A k \in 1..Len(generations) : generations'[k] = generations[k]
      BY <2>2, <3>2, AppendProperties
    <3>4. /\ DOMAIN generations' = 1..Len(generations')
          /\ DOMAIN generations = 1..Len(generations) /\ Len(generations) \in Nat
      BY <3>2, <3>3, LenProperties
    <3>5. \A g \in DOMAIN generations' : g \in DOMAIN generations \/ g = Len(generations) + 1
      BY <3>3, <3>4
    <3>6. QED
      BY <1>4, <3>3, <3>4, <3>5 DEF EvidenceSound
  <2>3. QED
    BY <1>5, <2>1, <2>2
<1>7. /\ DOMAIN requester' = StrategyRequesters /\ requester'[r] = IdleRequester
      /\ \A p \in StrategyRequesters : p # r => requester'[p] = requester[p]
  BY <1>1 DEF EvidenceSound
<1>8. QED
  BY <1>1, <1>6, <1>7 DEF EvidenceSound, IdleRequester

\* A handler and the sweep move a generation on, never what it was asked for.
RequestsStay ==
  /\ DOMAIN generations' = DOMAIN generations
  /\ \A g \in DOMAIN generations :
       /\ generations'[g].hash = generations[g].hash /\ generations'[g].mode = generations[g].mode
       /\ generations'[g].judged = generations[g].judged /\ generations'[g].run = generations[g].run

LEMMA OneRequestStays ==
  ASSUME StrategySound, NEW g \in DOMAIN generations, NEW row,
         generations' = [generations EXCEPT ![g] = row],
         row.hash = generations[g].hash, row.mode = generations[g].mode,
         row.judged = generations[g].judged, row.run = generations[g].run
  PROVE  RequestsStay
<1>1. generations = [k \in DOMAIN generations |-> generations[k]]
  BY LenProperties DEF StrategySound, IsSequence
<1>2. /\ DOMAIN generations' = DOMAIN generations /\ generations'[g] = row
      /\ \A k \in DOMAIN generations : k # g => generations'[k] = generations[k]
  BY <1>1
<1>3. QED
  BY <1>2 DEF RequestsStay

LEMMA JobsMoveAlone ==
  ASSUME StrategySound, NEW g \in DOMAIN generations, NEW job,
         generations' = [generations EXCEPT ![g].job = job]
  PROVE  RequestsStay
<1>1. PICK r : r = generations[g] /\ r = [field \in GenerationFields |-> r[field]]
  BY DEF StrategySound, GenerationSound
<1>2. PICK row : row = [r EXCEPT !.job = job]
  OBVIOUS
<1>3. /\ row.hash = r.hash /\ row.mode = r.mode /\ row.judged = r.judged /\ row.run = r.run
  BY <1>1, <1>2 DEF GenerationFields
<1>4. generations' = [generations EXCEPT ![g] = row]
  BY <1>1, <1>2
<1>5. QED
  BY <1>1, <1>3, <1>4, OneRequestStays

LEMMA HandlersKeepRequests ==
  ASSUME StrategySound, NEW w \in StrategyWriters,
         RecordStrategyStage(w) \/ FailStrategyGeneration(w) \/ PublishStrategy(w)
  PROVE  RequestsStay
<1>1. PICK v : v = writer[w] /\ WriterSound(v, generations) /\ v.pc # "idle"
  BY DEF StrategySound, WritersSound, RecordStrategyStage, FailStrategyGeneration, PublishStrategy
<1>2. PICK g \in DOMAIN generations : g = v.gen
  BY <1>1 DEF WriterSound
<1>3. PICK r : r = generations[g] /\ r = [field \in GenerationFields |-> r[field]]
  BY DEF StrategySound, GenerationSound
<1>4. CASE RecordStrategyStage(w)
  <2>1. PICK stage, repair :
          generations' = [generations EXCEPT ![g] =
            [r EXCEPT !.stage = stage, !.state = "PROCESSING", !.repair = repair]]
    BY <1>1, <1>2, <1>3, <1>4 DEF RecordStrategyStage
  <2>2. PICK row : row = [r EXCEPT !.stage = stage, !.state = "PROCESSING", !.repair = repair]
    OBVIOUS
  <2>3. row.hash = r.hash /\ row.mode = r.mode /\ row.judged = r.judged /\ row.run = r.run
    BY <1>3, <2>2 DEF GenerationFields
  <2>4. QED
    BY <1>3, <2>1, <2>2, <2>3, OneRequestStays
<1>5. CASE FailStrategyGeneration(w)
  <2>1. \/ generations' = generations
        \/ generations' = [generations EXCEPT ![g] = [r EXCEPT !.state = "FAILED"]]
    BY <1>1, <1>2, <1>3, <1>5 DEF FailStrategyGeneration
  <2>2. PICK row : row = [r EXCEPT !.state = "FAILED"]
    OBVIOUS
  <2>3. row.hash = r.hash /\ row.mode = r.mode /\ row.judged = r.judged /\ row.run = r.run
    BY <1>3, <2>2 DEF GenerationFields
  <2>4. CASE generations' = generations
    BY <2>4 DEF RequestsStay
  <2>5. CASE generations' = [generations EXCEPT ![g] = row]
    BY <1>3, <2>3, <2>5, OneRequestStays
  <2>6. QED
    BY <2>1, <2>2, <2>4, <2>5
<1>6. CASE PublishStrategy(w)
  <2>1. PICK answer, job :
          \/ generations' = [generations EXCEPT ![g] =
               [r EXCEPT !.result = answer, !.state = "SUCCEEDED", !.stage = "PUBLISHING",
                         !.job = job]]
          \/ generations' = [generations EXCEPT ![g] = [r EXCEPT !.job = job]]
          \/ generations' = [generations EXCEPT ![g] = r]
    BY <1>1, <1>2, <1>3, <1>6 DEF PublishStrategy
  <2>2. PICK row : row = [r EXCEPT !.result = answer, !.state = "SUCCEEDED",
                                   !.stage = "PUBLISHING", !.job = job]
    OBVIOUS
  <2>3. row.hash = r.hash /\ row.mode = r.mode /\ row.judged = r.judged /\ row.run = r.run
    BY <1>3, <2>2 DEF GenerationFields
  <2>4. CASE generations' = [generations EXCEPT ![g] = row]
    BY <1>3, <2>3, <2>4, OneRequestStays
  <2>5. CASE generations' = [generations EXCEPT ![g] = [r EXCEPT !.job = job]]
    BY <1>3, <2>5, JobsMoveAlone
  <2>6. CASE generations' = [generations EXCEPT ![g] = r]
    BY <1>3, <2>6, OneRequestStays
  <2>7. QED
    BY <2>1, <2>2, <2>4, <2>5, <2>6
<1>7. QED
  BY <1>4, <1>5, <1>6

LEMMA StayingRequestsKeepEvidence ==
  ASSUME EvidenceSound, RequestsStay, UNCHANGED <<activeRun, requester>>
  PROVE  EvidenceSound'
<1>1. \A g \in DOMAIN generations : Answerable(generations'[g])
  BY DEF EvidenceSound, RequestsStay, Answerable
<1>2. QED
  BY <1>1 DEF EvidenceSound, RequestsStay

LEMMA StrategyStepKeepsEvidence ==
  StrategySound /\ EvidenceSound /\ [StrategyNext]_strategyVars => EvidenceSound'
<1> SUFFICES ASSUME StrategySound, EvidenceSound, [StrategyNext]_strategyVars PROVE EvidenceSound'
  OBVIOUS
<1>1. CASE OweRecalculation \/ UNCHANGED strategyVars
  <2>1. UNCHANGED <<activeRun, requester, generations>>
    BY <1>1 DEF OweRecalculation, strategyVars
  <2>2. QED
    BY <2>1 DEF EvidenceSound
<1>2. CASE \E e \in EvidenceSets : Recalculate(e)
  BY <1>2, RecalculationKeepsEvidence
<1>3. CASE \E r \in StrategyRequesters :
             FreezeRequest(r) \/ \E a, b \in BOOLEAN : JudgeRequest(r, a, b)
  BY <1>3, FrozenManifestIsAnswerable, JudgedModesFit
<1>4. CASE \E g \in DOMAIN generations :
             RecoverStrategy(g) \/ \E w \in StrategyWriters : ClaimStrategy(w, g)
  <2>1. PICK g \in DOMAIN generations :
             RecoverStrategy(g) \/ \E w \in StrategyWriters : ClaimStrategy(w, g)
    BY <1>4
  <2>2. PICK job : /\ generations' = [generations EXCEPT ![g].job = job]
                   /\ UNCHANGED <<activeRun, requester>>
    BY <2>1 DEF RecoverStrategy, ClaimStrategy
  <2>3. QED
    BY <2>1, <2>2, JobsMoveAlone, StayingRequestsKeepEvidence
<1>5. CASE \E w \in StrategyWriters : SettleStrategyFailure(w)
  <2>1. PICK w \in StrategyWriters : SettleStrategyFailure(w)
    BY <1>5
  <2>2. PICK job : /\ generations' = [generations EXCEPT ![writer[w].gen].job = job]
                   /\ UNCHANGED <<activeRun, requester>>
    BY <2>1 DEF SettleStrategyFailure
  <2>3. writer[w].gen \in DOMAIN generations
    BY <2>1 DEF SettleStrategyFailure, StrategySound, WritersSound, WriterSound
  <2>4. QED
    BY <2>2, <2>3, JobsMoveAlone, StayingRequestsKeepEvidence
<1>6. CASE \E w \in StrategyWriters :
             RecordStrategyStage(w) \/ FailStrategyGeneration(w) \/ PublishStrategy(w)
  <2>1. UNCHANGED <<activeRun, requester>>
    BY <1>6 DEF RecordStrategyStage, FailStrategyGeneration, PublishStrategy
  <2>2. QED
    BY <1>6, <2>1, HandlersKeepRequests, StayingRequestsKeepEvidence
<1>7. CASE \E w \in StrategyWriters :
             \/ RefuseEmptyManifest(w) \/ BeginRequesting(w) \/ BeginRepairing(w)
             \/ BeginPublishing(w) \/ AskForStrategy(w) \/ LoseStrategy(w)
             \/ \E class : AskFails(w, class)
  <2>1. UNCHANGED <<activeRun, requester, generations>>
    BY <1>7 DEF RefuseEmptyManifest, BeginRequesting, BeginRepairing, BeginPublishing, EnterStage,
                AskForStrategy, LoseStrategy, AskFails
  <2>2. QED
    BY <2>1 DEF EvidenceSound
<1>8. QED
  BY <1>1, <1>2, <1>3, <1>4, <1>5, <1>6, <1>7 DEF StrategyNext

\* The validator has an answer it accepts for every manifest the model is asked
\* about (strategy-request.ts, strategy-contract.ts), frozen in the mode that was
\* judged on its run, whatever has been recommended before: asking is never futile.
THEOREM ManifestsCanBeAnswered == StrategySpec => []ManifestsAreAnswerable
<1>1. EvidenceSound => ManifestsAreAnswerable
  BY DEF EvidenceSound, ManifestsAreAnswerable, Answerable, Range
<1>2. StrategySound /\ EvidenceSound /\ [StrategyNext]_strategyVars
        => StrategySound' /\ EvidenceSound'
  BY StrategyStepKeepsSound, StrategyStepKeepsEvidence
<1>3. QED
  BY <1>1, <1>2, StrategySoundStarts, EvidenceSoundStarts, PTL DEF StrategySpec
-----------------------------------------------------------------------------
(* AnalysisContract.  Each section is held against the one before it only, *)
(* which orders all of them when times are whole seconds.                  *)

\* Steps that do not go back, none of them empty, order a list of any length.
LEMMA NeighboursOrderAll ==
  ASSUME NEW n \in Nat, NEW from, NEW upto,
         \A i \in 1..n : from[i] \in Int /\ upto[i] \in Int /\ from[i] < upto[i],
         \A i \in 1..n : i > 1 => upto[i - 1] <= from[i]
  PROVE  \A i, j \in 1..n : i < j => upto[i] <= from[j]
<1> DEFINE T == {d \in Nat : \A i, j \in 1..n : j = i + 1 + d => upto[i] <= from[j]}
<1>1. 0 \in T
  <2> SUFFICES ASSUME NEW i \in 1..n, NEW j \in 1..n, j = i + 1 + 0 PROVE upto[i] <= from[j]
    OBVIOUS
  <2>1. j > 1 /\ j - 1 = i
    OBVIOUS
  <2>2. QED
    BY <2>1
<1>2. ASSUME NEW d \in Nat, d \in T PROVE d + 1 \in T
  <2> SUFFICES ASSUME NEW i \in 1..n, NEW j \in 1..n, j = i + 1 + (d + 1)
               PROVE  upto[i] <= from[j]
    OBVIOUS
  <2>1. PICK k \in 1..n : k = j - 1
    OBVIOUS
  <2>2. k = i + 1 + d /\ j > 1
    BY <2>1
  <2>3. upto[i] <= from[k]
    BY <1>2, <2>2
  <2>4. upto[k] <= from[j]
    BY <2>1, <2>2
  <2>5. upto[i] \in Int /\ from[k] \in Int /\ upto[k] \in Int /\ from[j] \in Int
        /\ from[k] < upto[k]
    OBVIOUS
  <2>6. QED
    BY <2>3, <2>4, <2>5
<1>3. Nat \subseteq T
  <2> HIDE DEF T
  <2>1. QED
    BY <1>1, <1>2, InductiveSet
<1>4. SUFFICES ASSUME NEW i \in 1..n, NEW j \in 1..n, i < j PROVE upto[i] <= from[j]
  OBVIOUS
<1>5. PICK d \in Nat : j = i + 1 + d
  <2>1. j - i - 1 \in Nat /\ j = i + 1 + (j - i - 1)
    BY <1>4
  <2>2. QED
    BY <2>1
<1>6. QED
  BY <1>3, <1>5

\* "Sections must be ordered and non-overlapping": an analysis that the validator
\* accepts has its whole-second sections one after another within a video of
\* whole seconds, however many there are; and no words of an absent call to action
\* (checkStructure, checkCallToAction).
THEOREM AcceptedSectionsAreInOrder ==
  ASSUME NEW a, NEW probed \in Nat, probed % 4 = 0,
         a.sections \in Seq([start : Int, end : Int]) \cup {Null},
         validatePostCreativeAnalysis(a, probed) = {}
  PROVE  CoherentAnalysis(a, probed)
<1> DEFINE limit == probed + durationTolerance
           s == a.sections
<1>1. checkStructure(a, limit) = {} /\ checkCallToAction(a) = {}
  <2>1. /\ a.contract /\ a.schema
        /\ validatePostCreativeAnalysis(a, probed)
             = checkObservationRules(a, limit) \cup checkTimesAndEstimates(a, probed, limit)
               \cup checkStructure(a, limit) \cup checkCounts(a, limit) \cup checkCallToAction(a)
               \cup checkSuggestedImprovementClaims(a, limit)
    BY DEF validatePostCreativeAnalysis
  <2>2. QED
    BY <2>1
<1>2. a.cta.present = FALSE => a.cta.text = Null
  BY <1>1 DEF checkCallToAction, Issue
<1>3. SUFFICES ASSUME s # Null, \A i \in DOMAIN s : s[i].start % 4 = 0 /\ s[i].end % 4 = 0
               PROVE  \A i, j \in DOMAIN s : i < j => s[i].end <= s[j].start /\ s[j].end <= probed
  BY <1>2 DEF CoherentAnalysis
<1>4. s \in Seq([start : Int, end : Int]) /\ DOMAIN s = 1..Len(s) /\ Len(s) \in Nat
  BY <1>3
<1>5. \A i \in DOMAIN s : s[i].start \in Int /\ s[i].end \in Int
  <2>1. s \in [1..Len(s) -> [start : Int, end : Int]]
    BY <1>4, LenProperties
  <2>2. \A i \in DOMAIN s : s[i] \in [start : Int, end : Int]
    BY <1>4, <2>1
  <2>3. QED
    BY <2>2
<1>6. \A i \in DOMAIN s : ~(s[i].end > limit \/ s[i].end <= s[i].start \/ Overlaps(s, i))
  BY <1>1, <1>3 DEF checkStructure, Issue
<1>7. \A i \in DOMAIN s : s[i].start < s[i].end /\ s[i].end <= probed
  <2> SUFFICES ASSUME NEW i \in DOMAIN s PROVE s[i].start < s[i].end /\ s[i].end <= probed
    OBVIOUS
  <2>1. PICK first, last \in Int : first = s[i].start /\ last = s[i].end
    BY <1>5
  <2>2. ~(last > probed + 2) /\ ~(last <= first) /\ last % 4 = 0
    BY <1>3, <1>6, <2>1 DEF durationTolerance
  <2>3. last = 4 * (last \div 4) /\ probed = 4 * (probed \div 4)
    BY <2>2
  <2>4. PICK p, q \in Int : last = 4 * p /\ probed = 4 * q
    BY <2>3
  <2>5. last <= probed
    BY <2>2, <2>4
  <2>6. QED
    BY <2>1, <2>2, <2>5
<1>8. \A i \in DOMAIN s : i > 1 => s[i - 1].end <= s[i].start
  <2> SUFFICES ASSUME NEW i \in DOMAIN s, i > 1 PROVE s[i - 1].end <= s[i].start
    OBVIOUS
  <2>1. i - 1 \in DOMAIN s
    BY <1>4
  <2>2. PICK last, first \in Int : last = s[i - 1].end /\ first = s[i].start
    BY <1>5, <2>1
  <2>3. ~(first < last - 1) /\ first % 4 = 0 /\ last % 4 = 0
    BY <1>3, <1>6, <2>1, <2>2 DEF Overlaps, sectionTolerance
  <2>4. first = 4 * (first \div 4) /\ last = 4 * (last \div 4)
    BY <2>3
  <2>5. PICK p, q \in Int : first = 4 * p /\ last = 4 * q
    BY <2>4
  <2>6. last <= first
    BY <2>3, <2>5
  <2>7. QED
    BY <2>2, <2>6
<1>9. \A i, j \in DOMAIN s : i < j => s[i].end <= s[j].start
  <2> DEFINE from == [i \in DOMAIN s |-> s[i].start]
             upto == [i \in DOMAIN s |-> s[i].end]
  <2>1. \A i \in 1..Len(s) : from[i] \in Int /\ upto[i] \in Int /\ from[i] < upto[i]
    BY <1>4, <1>5, <1>7
  <2>2. \A i \in 1..Len(s) : i > 1 => upto[i - 1] <= from[i]
    <3> SUFFICES ASSUME NEW i \in 1..Len(s), i > 1 PROVE upto[i - 1] <= from[i]
      OBVIOUS
    <3>1. i \in DOMAIN s /\ i - 1 \in DOMAIN s
      BY <1>4
    <3>2. QED
      BY <1>8, <3>1
  <2>3. \A i, j \in 1..Len(s) : i < j => upto[i] <= from[j]
    <3> HIDE DEF from, upto
    <3>1. QED
      BY <1>4, <2>1, <2>2, NeighboursOrderAll
  <2>4. QED
    BY <1>4, <2>3
<1>10. QED
  BY <1>7, <1>9

\* What completing a response leaves alone.
LEMMA CompletedAnalyses ==
  ASSUME NEW a, NEW probed, "sections" \in DOMAIN a
  PROVE  completePostCreativeAnalysis(a, probed).sections = a.sections
<1> DEFINE b == [a EXCEPT !.contract = TRUE]
<1>1. b.sections = a.sections /\ "sections" \in DOMAIN b
  OBVIOUS
<1>2. completePostCreativeAnalysis(a, probed) = [b EXCEPT !.duration = probed]
  BY DEF completePostCreativeAnalysis
<1>3. [b EXCEPT !.duration = probed].sections = b.sections
  BY <1>1
<1>4. QED
  BY <1>1, <1>2, <1>3

\* The analysis that was judged is one that was proposed, completed.
Judged ==
  judgedAnalysis.analysis # Null =>
    \E a \in ProposedAnalyses, probed \in ProbedDurations :
      judgedAnalysis = [analysis |-> completePostCreativeAnalysis(a, probed), probed |-> probed]

\* Whatever the model answers and however long the video is: an analysis in
\* whole seconds that the validator accepts has its sections one after another.
THEOREM AnalysesAreJudged == ValidationSpec => []AcceptedAnalysesAreCoherent
<1>1. ValidationInit => Judged
  BY DEF ValidationInit, Judged
<1>2. Judged /\ [ValidateAnalysis]_judgedAnalysis => Judged'
  BY DEF Judged, ValidateAnalysis
<1>3. Judged => AcceptedAnalysesAreCoherent
  <2> SUFFICES ASSUME Judged, judgedAnalysis.analysis # Null,
                      validatePostCreativeAnalysis(judgedAnalysis.analysis, judgedAnalysis.probed) = {}
               PROVE  CoherentAnalysis(judgedAnalysis.analysis, judgedAnalysis.probed)
    BY DEF AcceptedAnalysesAreCoherent
  <2>1. PICK a \in ProposedAnalyses, probed \in ProbedDurations :
          judgedAnalysis = [analysis |-> completePostCreativeAnalysis(a, probed), probed |-> probed]
    BY DEF Judged
  <2>2. PICK b : b = completePostCreativeAnalysis(a, probed)
    OBVIOUS
  <2>3. b.sections \in Seq([start : Int, end : Int]) \cup {Null} /\ probed \in Nat /\ probed % 4 = 0
    BY <2>2, CompletedAnalyses, ValidationAssumption
  <2>4. judgedAnalysis.analysis = b /\ judgedAnalysis.probed = probed
    BY <2>1, <2>2
  <2>5. validatePostCreativeAnalysis(b, probed) = {}
    BY <2>4
  <2>6. QED
    BY <2>3, <2>4, <2>5, AcceptedSectionsAreInOrder
<1>4. QED
  BY <1>1, <1>2, <1>3, PTL DEF ValidationSpec

-----------------------------------------------------------------------------
(* MetricRules, the snapshot of a post.  The rows are sorted by numbers of  *)
(* which the last is the row's own, so that the first row of a stable sort  *)
(* is the one row that none is preferred to.                                *)

Row(r) == r.age \in Nat /\ r.captured \in Nat /\ r.id \in Nat

\* The order of the sort, number by number.
Sooner(window, a, b) ==
  LET Newer == a.captured < b.captured \/ (a.captured = b.captured /\ a.id < b.id)
  IN IF window.target = 0
     THEN a.age > b.age \/ (a.age = b.age /\ Newer)
     ELSE \/ Apart(a.age, window.target) < Apart(b.age, window.target)
          \/ /\ Apart(a.age, window.target) = Apart(b.age, window.target)
             /\ a.age < b.age \/ (a.age = b.age /\ Newer)

\* The first place where two sequences differ is lower in the first one.
Lower(a, b) == \E i \in DOMAIN a : a[i] < b[i] /\ \A j \in 1..(i - 1) : a[j] = b[j]

LEMMA LexicographicTriples ==
  ASSUME NEW a, NEW b, DOMAIN a = {1, 2, 3}
  PROVE  Lower(a, b)
         <=> (a[1] < b[1] \/ (a[1] = b[1] /\ (a[2] < b[2] \/ (a[2] = b[2] /\ a[3] < b[3]))))
<1> DEFINE Decides(i) == a[i] < b[i] /\ \A j \in 1..(i - 1) : a[j] = b[j]
<1>1. 1..(1 - 1) = {} /\ 1..(2 - 1) = {1} /\ 1..(3 - 1) = {1, 2}
  OBVIOUS
<1>2. (Decides(1) <=> a[1] < b[1]) /\ (Decides(2) <=> a[1] = b[1] /\ a[2] < b[2])
      /\ (Decides(3) <=> a[1] = b[1] /\ a[2] = b[2] /\ a[3] < b[3])
  BY <1>1
<1>3. Lower(a, b) <=> Decides(1) \/ Decides(2) \/ Decides(3)
  BY DEF Lower
<1>4. QED
  BY <1>2, <1>3

LEMMA LexicographicQuadruples ==
  ASSUME NEW a, NEW b, DOMAIN a = {1, 2, 3, 4}
  PROVE  Lower(a, b)
         <=> (\/ a[1] < b[1]
              \/ a[1] = b[1] /\ (a[2] < b[2] \/ (a[2] = b[2] /\
                   (a[3] < b[3] \/ (a[3] = b[3] /\ a[4] < b[4])))))
<1> DEFINE Decides(i) == a[i] < b[i] /\ \A j \in 1..(i - 1) : a[j] = b[j]
<1>1. 1..(1 - 1) = {} /\ 1..(2 - 1) = {1} /\ 1..(3 - 1) = {1, 2} /\ 1..(4 - 1) = {1, 2, 3}
  OBVIOUS
<1>2. (Decides(1) <=> a[1] < b[1]) /\ (Decides(2) <=> a[1] = b[1] /\ a[2] < b[2])
      /\ (Decides(3) <=> a[1] = b[1] /\ a[2] = b[2] /\ a[3] < b[3])
      /\ (Decides(4) <=> a[1] = b[1] /\ a[2] = b[2] /\ a[3] = b[3] /\ a[4] < b[4])
  BY <1>1
<1>3. Lower(a, b) <=> Decides(1) \/ Decides(2) \/ Decides(3) \/ Decides(4)
  BY DEF Lower
<1>4. QED
  BY <1>2, <1>3

LEMMA DistancesAreIntegers == \A a, b \in Int : Apart(a, b) \in Int
  BY DEF Apart

LEMMA PreferredIsSooner ==
  ASSUME NEW window, window.target \in Nat, NEW a, NEW b, Row(a), Row(b)
  PROVE  Prefers(window, a, b) <=> Sooner(window, a, b)
<1>1. PICK t \in Nat, age, captured, id \in Nat, bAge, bCaptured, bId \in Nat :
        /\ t = window.target /\ age = a.age /\ captured = a.captured /\ id = a.id
        /\ bAge = b.age /\ bCaptured = b.captured /\ bId = b.id
  BY DEF Row
<1>2. CASE t = 0
  <2>1. Prefers(window, a, b) <=> Lower(<<-age, captured, id>>, <<-bAge, bCaptured, bId>>)
    BY <1>1, <1>2 DEF Prefers, Lower
  <2>2. PICK m, bM \in Int : m = -age /\ bM = -bAge
    OBVIOUS
  <2>3. (m < bM <=> age > bAge) /\ (m = bM <=> age = bAge)
    BY <2>2
  <2>4. Prefers(window, a, b) <=> Lower(<<m, captured, id>>, <<bM, bCaptured, bId>>)
    BY <2>1, <2>2
  <2>5. PICK first, second : first = <<m, captured, id>> /\ second = <<bM, bCaptured, bId>>
    OBVIOUS
  <2>6. Lower(first, second)
        <=> (m < bM \/ (m = bM /\ (captured < bCaptured \/ (captured = bCaptured /\ id < bId))))
    <3>1. /\ DOMAIN first = {1, 2, 3} /\ first[1] = m /\ first[2] = captured /\ first[3] = id
          /\ second[1] = bM /\ second[2] = bCaptured /\ second[3] = bId
      BY <2>5
    <3>2. QED
      BY <3>1, LexicographicTriples
  <2>7. Sooner(window, a, b)
        <=> (age > bAge \/ (age = bAge /\ (captured < bCaptured \/ (captured = bCaptured /\ id < bId))))
    BY <1>1, <1>2 DEF Sooner
  <2>8. QED
    BY <2>3, <2>4, <2>5, <2>6, <2>7
<1>3. CASE t # 0
  <2>1. PICK d, bD \in Int : d = Apart(age, t) /\ bD = Apart(bAge, t)
    <3>1. age \in Int /\ bAge \in Int /\ t \in Int
      OBVIOUS
    <3>2. Apart(age, t) \in Int /\ Apart(bAge, t) \in Int
      BY <3>1, DistancesAreIntegers
    <3>3. QED
      BY <3>2, Zenon
  <2>2. Prefers(window, a, b)
          <=> Lower(<<d, age, captured, id>>, <<bD, bAge, bCaptured, bId>>)
    BY <1>1, <1>3, <2>1 DEF Prefers, Lower
  <2>3. PICK first, second :
          first = <<d, age, captured, id>> /\ second = <<bD, bAge, bCaptured, bId>>
    OBVIOUS
  <2>4. Lower(first, second)
        <=> (\/ d < bD
             \/ d = bD /\ (age < bAge \/ (age = bAge /\
                  (captured < bCaptured \/ (captured = bCaptured /\ id < bId)))))
    <3>1. /\ DOMAIN first = {1, 2, 3, 4}
          /\ first[1] = d /\ first[2] = age /\ first[3] = captured /\ first[4] = id
          /\ second[1] = bD /\ second[2] = bAge /\ second[3] = bCaptured /\ second[4] = bId
      BY <2>3
    <3>2. QED
      BY <3>1, LexicographicQuadruples
  <2>5. window.target # 0 /\ d = Apart(a.age, window.target) /\ bD = Apart(b.age, window.target)
    BY <1>1, <1>3, <2>1
  <2>6. Sooner(window, a, b)
        <=> (\/ d < bD
             \/ d = bD /\ (age < bAge \/ (age = bAge /\
                  (captured < bCaptured \/ (captured = bCaptured /\ id < bId)))))
    BY <1>1, <2>5 DEF Sooner
  <2>7. QED
    BY <2>2, <2>3, <2>4, <2>6
<1>4. QED
  BY <1>2, <1>3

\* A strict order of rows that tells two of them apart by their ids.
LEMMA SoonerOrdersRows ==
  ASSUME NEW window, window.target \in Nat, NEW a, NEW b, Row(a), Row(b)
  PROVE  /\ ~Sooner(window, a, a)
         /\ Sooner(window, a, b) => ~Sooner(window, b, a)
         /\ Sooner(window, a, b) \/ Sooner(window, b, a) \/ a.id = b.id
         /\ \A c : Row(c) /\ Sooner(window, a, b) /\ ~Sooner(window, c, b) => Sooner(window, a, c)
<1>1. PICK t \in Nat, age, captured, id \in Nat, bAge, bCaptured, bId \in Nat :
        /\ t = window.target /\ age = a.age /\ captured = a.captured /\ id = a.id
        /\ bAge = b.age /\ bCaptured = b.captured /\ bId = b.id
  BY DEF Row
<1>2. PICK d, bD \in Int : d = Apart(age, t) /\ bD = Apart(bAge, t)
  <2>1. age \in Int /\ bAge \in Int /\ t \in Int
    OBVIOUS
  <2>2. Apart(age, t) \in Int /\ Apart(bAge, t) \in Int
    BY <2>1, DistancesAreIntegers
  <2>3. QED
    BY <2>2, Zenon
<1>3. /\ ~Sooner(window, a, a)
      /\ Sooner(window, a, b) => ~Sooner(window, b, a)
      /\ Sooner(window, a, b) \/ Sooner(window, b, a) \/ a.id = b.id
  BY <1>1, <1>2 DEF Sooner
<1>4. ASSUME NEW c, Row(c), Sooner(window, a, b), ~Sooner(window, c, b)
      PROVE  Sooner(window, a, c)
  <2>1. PICK cAge, cCaptured, cId \in Nat :
          cAge = c.age /\ cCaptured = c.captured /\ cId = c.id
    BY <1>4 DEF Row
  <2>2. PICK cD \in Int : cD = Apart(cAge, t)
    <3>1. cAge \in Int /\ t \in Int
      OBVIOUS
    <3>2. QED
      BY <3>1, DistancesAreIntegers
  <2>3. QED
    BY <1>1, <1>2, <1>4, <2>1, <2>2 DEF Sooner
<1>5. QED
  BY <1>3, <1>4

\* A stable sort of the places of a list has a first one.  before: which pairs
\* of places the order puts before one another.
OrdersPlaces(before, N) ==
  \A i, j, k \in 1..N :
    /\ <<i, j>> \in before => <<j, i>> \notin before
    /\ <<i, j>> \in before /\ <<k, j>> \notin before => <<i, k>> \in before

StablyFirst(i, S, before) ==
  \A j \in S : ~(<<j, i>> \in before \/ (j < i /\ <<i, j>> \notin before))

LEMMA StableSortsHaveAFirst ==
  ASSUME NEW N \in Nat, NEW before, OrdersPlaces(before, N),
         NEW E, E \subseteq 1..N, E # {}
  PROVE  \E i \in E : StablyFirst(i, E, before)
<1>0. \A i, j, k \in 1..N :
        /\ <<i, j>> \in before => <<j, i>> \notin before
        /\ <<i, j>> \in before /\ <<k, j>> \notin before => <<i, k>> \in before
  BY DEF OrdersPlaces
<1> DEFINE First(S, i) == StablyFirst(i, S, before)
           T == {n \in Nat : n <= N =>
                   \A S \in SUBSET (1..n) : S # {} => \E i \in S : First(S, i)}
<1>1. 0 \in T
  <2>1. 1..0 = {}
    OBVIOUS
  <2>2. \A S \in SUBSET (1..0) : S = {}
    BY <2>1
  <2>3. QED
    BY <2>2
<1>2. ASSUME NEW n \in Nat, n \in T PROVE n + 1 \in T
  <2> SUFFICES ASSUME n + 1 <= N, NEW S \in SUBSET (1..(n + 1)), S # {}
               PROVE  \E i \in S : First(S, i)
    OBVIOUS
  <2>0. \A U \in SUBSET (1..n) : U # {} => \E i \in U : First(U, i)
    BY <1>2
  <2> HIDE DEF T, First
  <2> DEFINE rest == S \ {n + 1}
  <2>1. S \subseteq 1..N /\ \A j \in S : j \in Nat /\ j <= n + 1
    OBVIOUS
  <2>2. rest \in SUBSET (1..n) /\ \A j \in rest : j < n + 1
    OBVIOUS
  <2>3. CASE n + 1 \notin S
    <3>1. S \in SUBSET (1..n)
      BY <2>2, <2>3
    <3>2. QED
      BY <2>0, <3>1
  <2>4. CASE rest = {}
    <3>1. \A j \in S : j = n + 1
      BY <2>4
    <3>2. n + 1 \in S
      <4>1. PICK j \in S : TRUE
        BY <2>4
      <4>2. QED
        BY <3>1, <4>1
    <3>3. <<n + 1, n + 1>> \notin before /\ ~(n + 1 < n + 1)
      BY <1>0, <2>1, <3>2
    <3>4. First(S, n + 1)
      BY <3>1, <3>3 DEF First, StablyFirst
    <3>5. QED
      BY <3>2, <3>4
  <2>5. CASE n + 1 \in S /\ rest # {}
    <3>1. PICK i \in rest : First(rest, i)
      BY <2>0, <2>2, <2>5
    <3>2. i \in 1..N /\ n + 1 \in 1..N /\ i < n + 1
      BY <2>1, <2>2, <2>5
    <3>3. CASE <<n + 1, i>> \notin before
      <4>1. First(S, i)
        BY <2>1, <3>1, <3>2, <3>3 DEF First, StablyFirst
      <4>2. QED
        BY <4>1
    <3>4. CASE <<n + 1, i>> \in before
      <4>1. ASSUME NEW j \in rest PROVE <<n + 1, j>> \in before /\ <<j, n + 1>> \notin before
        <5>1. <<j, i>> \notin before /\ j \in 1..N
          BY <2>1, <3>1 DEF First, StablyFirst
        <5>2. <<n + 1, j>> \in before
          BY <1>0, <3>2, <3>4, <5>1
        <5>3. QED
          BY <1>0, <3>2, <5>1, <5>2
      <4>2. <<n + 1, n + 1>> \notin before /\ ~(n + 1 < n + 1)
        BY <1>0, <3>2
      <4>3. \A j \in S : j \in rest \/ j = n + 1
        OBVIOUS
      <4>4. First(S, n + 1)
        BY <4>1, <4>2, <4>3 DEF First, StablyFirst
      <4>5. QED
        BY <2>5, <4>4
    <3>5. QED
      BY <3>3, <3>4
  <2>6. QED
    BY <2>3, <2>4, <2>5
<1>3. N \in T
  <2> HIDE DEF T
  <2>1. QED
    BY <1>1, <1>2, InductiveSet
<1>4. QED
  BY <1>3
LEMMA WindowsAreNatural ==
  ASSUME NEW i \in DOMAIN snapshotAgeWindows
  PROVE  snapshotAgeWindowFor(snapshotAgeWindows[i].key).target \in Nat
<1> DEFINE key == snapshotAgeWindows[i].key
           k == snapshotAgeWindowMaturity(key)
<1>1. DOMAIN snapshotAgeWindows = 1..8
  BY DEF snapshotAgeWindows
<1>2. k \in 1..8
  BY <1>1 DEF snapshotAgeWindowMaturity
<1>3. \A j \in 1..8 : snapshotAgeWindows[j].target \in Nat
  BY DEF snapshotAgeWindows
<1>4. QED
  BY <1>2, <1>3 DEF snapshotAgeWindowFor

\* What is selected: a row of the window to which none of the window is preferred.
Inside(rows, window) == {r \in Range(rows) : WithinWindow(window, r.age)}

LeadsIn(inside, window, chosen) ==
  /\ chosen = Missing <=> inside = {}
  /\ inside # {} => chosen \in inside /\ \A r \in inside : ~Sooner(window, r, chosen)

LEMMA SelectedRow ==
  ASSUME NEW rows, IsSnapshotList(rows), NEW key, snapshotAgeWindowFor(key).target \in Nat
  PROVE  LeadsIn(Inside(rows, snapshotAgeWindowFor(key)), snapshotAgeWindowFor(key),
                 selectComparableSnapshot(rows, key))
<1>a. PICK window : window = snapshotAgeWindowFor(key)
  OBVIOUS
<1>b. PICK inside : inside = Inside(rows, window)
  OBVIOUS
<1>c. PICK chosen : chosen = selectComparableSnapshot(rows, key)
  OBVIOUS
<1>d. window.target \in Nat
  BY <1>a
<1> SUFFICES /\ chosen = Missing <=> inside = {}
             /\ inside # {} => chosen \in inside /\ \A r \in inside : ~Sooner(window, r, chosen)
  BY <1>a, <1>b, <1>c DEF LeadsIn
<1>1. PICK N \in Nat : DOMAIN rows = 1..N
  BY DEF IsSnapshotList, IsList
<1>2. \A i \in 1..N : Row(rows[i]) /\ rows[i] # Missing
  BY <1>1 DEF IsSnapshotList, Row
<1> DEFINE eligible == {i \in 1..N : WithinWindow(window, rows[i].age)}
           before == {p \in (1..N) \X (1..N) : Sooner(window, rows[p[1]], rows[p[2]])}
           Best(i) == \A j \in eligible : ~(\/ Prefers(window, rows[j], rows[i])
                                            \/ j < i /\ ~Prefers(window, rows[i], rows[j]))
<1>3. inside = {rows[i] : i \in eligible}
  BY <1>1, <1>b DEF Inside, Range
<1>4. \A i, j \in 1..N : /\ Prefers(window, rows[i], rows[j]) <=> Sooner(window, rows[i], rows[j])
                         /\ <<i, j>> \in before <=> Sooner(window, rows[i], rows[j])
  <2> SUFFICES ASSUME NEW i \in 1..N, NEW j \in 1..N
               PROVE  /\ Prefers(window, rows[i], rows[j]) <=> Sooner(window, rows[i], rows[j])
                      /\ <<i, j>> \in before <=> Sooner(window, rows[i], rows[j])
    OBVIOUS
  <2>1. Row(rows[i]) /\ Row(rows[j])
    BY <1>2
  <2>2. Prefers(window, rows[i], rows[j]) <=> Sooner(window, rows[i], rows[j])
    BY <1>d, <2>1, PreferredIsSooner
  <2>3. QED
    BY <2>2
<1>5. selectComparableSnapshot(rows, key)
        = IF eligible = {} THEN Missing ELSE rows[CHOOSE i \in eligible : Best(i)]
  BY <1>1, <1>a DEF selectComparableSnapshot
<1>6. CASE eligible = {}
  <2>1. inside = {} /\ chosen = Missing
    BY <1>3, <1>5, <1>6, <1>c
  <2>2. QED
    BY <2>1
<1>7. CASE eligible # {}
  <2>1. \A i, j, k \in 1..N :
          /\ <<i, j>> \in before => <<j, i>> \notin before
          /\ <<i, j>> \in before /\ <<k, j>> \notin before => <<i, k>> \in before
    <3> SUFFICES ASSUME NEW i \in 1..N, NEW j \in 1..N, NEW k \in 1..N
                 PROVE  /\ <<i, j>> \in before => <<j, i>> \notin before
                        /\ <<i, j>> \in before /\ <<k, j>> \notin before => <<i, k>> \in before
      OBVIOUS
    <3>1. Row(rows[i]) /\ Row(rows[j]) /\ Row(rows[k])
      BY <1>2
    <3>2. /\ Sooner(window, rows[i], rows[j]) => ~Sooner(window, rows[j], rows[i])
          /\ Sooner(window, rows[i], rows[j]) /\ ~Sooner(window, rows[k], rows[j])
               => Sooner(window, rows[i], rows[k])
      BY <1>d, <3>1, SoonerOrdersRows
    <3> HIDE DEF before
    <3>3. QED
      BY <1>4, <3>2
  <2>2. eligible \subseteq 1..N
    OBVIOUS
  <2>3. \E i \in eligible : StablyFirst(i, eligible, before)
    <3> HIDE DEF before, eligible
    <3>1. eligible # {} /\ OrdersPlaces(before, N)
      BY <1>7, <2>1 DEF OrdersPlaces
    <3>2. QED
      BY <2>2, <3>1, StableSortsHaveAFirst
  <2>4. \E i \in eligible : Best(i)
    <3> HIDE DEF before
    <3>1. QED
      BY <1>4, <2>2, <2>3 DEF StablyFirst
  <2>5. PICK i \in eligible : i = (CHOOSE n \in eligible : Best(n)) /\ Best(i)
    <3> HIDE DEF Best, eligible
    <3>1. QED
      BY <2>4
  <2>6. chosen = rows[i] /\ i \in 1..N
    BY <1>5, <1>7, <1>c, <2>5
  <2>7. chosen \in inside /\ chosen # Missing
    BY <1>2, <1>3, <2>5, <2>6
  <2>8. ASSUME NEW r \in inside PROVE ~Sooner(window, r, chosen)
    <3>1. PICK j \in eligible : r = rows[j]
      BY <1>3
    <3>2. ~Prefers(window, rows[j], rows[i]) /\ j \in 1..N
      BY <2>5
    <3>3. Prefers(window, rows[j], rows[i]) <=> Sooner(window, rows[j], rows[i])
      BY <1>4, <2>6, <3>2
    <3>4. QED
      BY <2>6, <3>1, <3>2, <3>3
  <2>9. QED
    BY <2>7, <2>8
<1>8. QED
  BY <1>6, <1>7

\* Two lists of the same rows have the same row selected.
LEMMA SelectionNeedsNoOrder ==
  ASSUME NEW rows, NEW other, IsSnapshotList(rows), IsSnapshotList(other),
         Range(rows) = Range(other), NEW key, snapshotAgeWindowFor(key).target \in Nat
  PROVE  selectComparableSnapshot(other, key) = selectComparableSnapshot(rows, key)
<1>1. PICK window : window = snapshotAgeWindowFor(key)
  OBVIOUS
<1>2. PICK inside : inside = Inside(rows, window)
  OBVIOUS
<1>3. PICK a, b : a = selectComparableSnapshot(rows, key) /\ b = selectComparableSnapshot(other, key)
  OBVIOUS
<1>4. LeadsIn(inside, window, a) /\ LeadsIn(inside, window, b)
  <2>1. Inside(other, window) = inside
    BY <1>2 DEF Inside
  <2>2. /\ LeadsIn(Inside(rows, window), window, a)
        /\ LeadsIn(Inside(other, window), window, b)
    BY <1>1, <1>3, SelectedRow
  <2>3. QED
    BY <1>2, <2>1, <2>2
<1>6. CASE inside # {}
  <2>1. ~Sooner(window, a, b) /\ ~Sooner(window, b, a) /\ a \in Range(rows) /\ b \in Range(rows)
    BY <1>2, <1>4, <1>6 DEF LeadsIn, Inside
  <2>2. PICK i, j \in DOMAIN rows : a = rows[i] /\ b = rows[j]
    BY <2>1 DEF Range
  <2>3. Row(a) /\ Row(b)
    BY <2>2 DEF IsSnapshotList, Row
  <2>4. a.id = b.id
    BY <1>1, <2>1, <2>3, SoonerOrdersRows
  <2>5. QED
    BY <1>3, <2>2, <2>4 DEF IsSnapshotList
<1>7. QED
  BY <1>3, <1>4, <1>6 DEF LeadsIn

LEMMA SnapshotsNeedNoOrder ==
  ASSUME NEW rows \in SnapshotLists, NEW i \in DOMAIN snapshotAgeWindows,
         ruleCall = [rule |-> "snapshot",
                     call |-> [rows |-> rows, window |-> snapshotAgeWindows[i].key]]
  PROVE  SnapshotNeedsNoOrder
<1>1. PICK key : key = snapshotAgeWindows[i].key
  OBVIOUS
<1>2. PICK window : window = snapshotAgeWindowFor(key)
  OBVIOUS
<1>3. PICK inside : inside = Inside(rows, window)
  OBVIOUS
<1>4. PICK chosen : chosen = selectComparableSnapshot(rows, key)
  OBVIOUS
<1>5. ruleCall.call.rows = rows /\ ruleCall.call.window = key
  BY <1>1
<1>6. window.target \in Nat
  BY <1>1, <1>2, WindowsAreNatural
<1>7. \A list \in SnapshotLists : IsSnapshotList(list)
  BY MeasurementAssumption
<1>8. LeadsIn(inside, window, chosen)
  <2>1. IsSnapshotList(rows)
    BY <1>7
  <2>2. QED
    BY <1>2, <1>3, <1>4, <1>6, <2>1, SelectedRow
<1>9. ASSUME NEW other \in SnapshotLists, Range(other) = Range(rows)
      PROVE  selectComparableSnapshot(other, key) = chosen
  BY <1>2, <1>4, <1>6, <1>7, <1>9, SelectionNeedsNoOrder
<1>10. ASSUME chosen # Missing, window.target # 0, NEW r \in inside
       PROVE  Apart(chosen.age, window.target) <= Apart(r.age, window.target)
  <2>1. chosen \in Range(rows) /\ r \in Range(rows) /\ ~Sooner(window, r, chosen)
    BY <1>3, <1>8, <1>10 DEF LeadsIn, Inside
  <2>2. Row(chosen) /\ Row(r)
    BY <1>7, <2>1 DEF Range, IsSnapshotList, Row
  <2>3. PICK t \in Int, x \in Int, y \in Int : t = window.target /\ x = chosen.age /\ y = r.age
    BY <1>6, <2>2 DEF Row
  <2>4. Apart(x, t) \in Int /\ Apart(y, t) \in Int
    BY DistancesAreIntegers
  <2>5. ~(Apart(y, t) < Apart(x, t))
    BY <1>10, <2>1, <2>3 DEF Sooner
  <2>6. QED
    BY <2>3, <2>4, <2>5
<1>11. SnapshotNeedsNoOrder <=>
         /\ chosen = Missing <=> inside = {}
         /\ \A other \in SnapshotLists : Range(other) = Range(rows) =>
              selectComparableSnapshot(other, key) = chosen
         /\ chosen # Missing =>
              /\ chosen \in inside
              /\ window.target # 0 => \A r \in inside :
                   Apart(chosen.age, window.target) <= Apart(r.age, window.target)
  BY <1>2, <1>3, <1>4, <1>5 DEF SnapshotNeedsNoOrder, Inside
<1>12. QED
  BY <1>8, <1>9, <1>10, <1>11 DEF LeadsIn

-----------------------------------------------------------------------------
(* MetricRules, the window a run publishes for.  There are four to choose   *)
(* from, each of its own maturity.                                          *)

Candidates == {"day_7", "day_30", "mature", "lifetime"}

LEMMA CandidateWindows ==
  /\ Range(recalculationWindowCandidates) = Candidates
  /\ snapshotAgeWindowMaturity("day_7") = 5 /\ snapshotAgeWindowMaturity("day_30") = 6
  /\ snapshotAgeWindowMaturity("mature") = 7 /\ snapshotAgeWindowMaturity("lifetime") = 8
<1>1. Range(recalculationWindowCandidates) = Candidates
  BY DEF Range, recalculationWindowCandidates, Candidates
<1>2. DOMAIN snapshotAgeWindows = 1..8
  BY DEF snapshotAgeWindows
<1>3. /\ snapshotAgeWindows[1].key = "import" /\ snapshotAgeWindows[2].key = "hour_1"
      /\ snapshotAgeWindows[3].key = "day_1" /\ snapshotAgeWindows[4].key = "day_3"
      /\ snapshotAgeWindows[5].key = "day_7" /\ snapshotAgeWindows[6].key = "day_30"
      /\ snapshotAgeWindows[7].key = "mature" /\ snapshotAgeWindows[8].key = "lifetime"
  BY DEF snapshotAgeWindows
<1>4. \A i \in 1..8 : i \in {1, 2, 3, 4, 5, 6, 7, 8}
  OBVIOUS
<1>5. /\ \A i \in 1..8 : snapshotAgeWindows[i].key = "day_7" <=> i = 5
      /\ \A i \in 1..8 : snapshotAgeWindows[i].key = "day_30" <=> i = 6
      /\ \A i \in 1..8 : snapshotAgeWindows[i].key = "mature" <=> i = 7
      /\ \A i \in 1..8 : snapshotAgeWindows[i].key = "lifetime" <=> i = 8
  BY <1>3, <1>4
<1>6. 5 \in 1..8 /\ 6 \in 1..8 /\ 7 \in 1..8 /\ 8 \in 1..8
  OBVIOUS
<1>7. QED
  BY <1>1, <1>2, <1>5, <1>6 DEF snapshotAgeWindowMaturity

\* The most mature of some candidates is one of them, and none is more mature.
LEMMA MostMatureOfSome ==
  ASSUME NEW S \in SUBSET Candidates, S # {}
  PROVE  /\ mostMature(S) \in S
         /\ \A w \in S : snapshotAgeWindowMaturity(w) <= snapshotAgeWindowMaturity(mostMature(S))
<1> DEFINE m(w) == snapshotAgeWindowMaturity(w)
           Ripest(w) == \A v \in S : m(v) <= m(w)
<1>1. \A v \in S : v \in {"day_7", "day_30", "mature", "lifetime"}
  BY DEF Candidates
<1>2. m("day_7") = 5 /\ m("day_30") = 6 /\ m("mature") = 7 /\ m("lifetime") = 8
  BY CandidateWindows
<1>3. \E w \in S : Ripest(w)
  <2> HIDE DEF m
  <2>1. CASE "lifetime" \in S
    BY <1>1, <1>2, <2>1
  <2>2. CASE "lifetime" \notin S /\ "mature" \in S
    BY <1>1, <1>2, <2>2
  <2>3. CASE "lifetime" \notin S /\ "mature" \notin S /\ "day_30" \in S
    BY <1>1, <1>2, <2>3
  <2>4. CASE "lifetime" \notin S /\ "mature" \notin S /\ "day_30" \notin S
    <3>1. PICK w \in S : TRUE
      OBVIOUS
    <3>2. \A v \in S : v = "day_7"
      BY <1>1, <2>4
    <3>3. QED
      BY <1>2, <3>1, <3>2
  <2>5. QED
    BY <2>1, <2>2, <2>3, <2>4
<1>4. mostMature(S) = CHOOSE w \in S : Ripest(w)
  BY DEF mostMature
<1>5. QED
  <2>1. PICK c \in S : c = mostMature(S) /\ Ripest(c)
    <3> HIDE DEF Ripest
    <3>1. QED
      BY <1>3, <1>4
  <2>2. QED
    BY <2>1

LEMMA WidestOfSome ==
  ASSUME NEW S \in SUBSET Candidates, S # {}, NEW e \in [Candidates -> Nat]
  PROVE  widest(S, e) \in S
<1> DEFINE sizes == {e[w] : w \in S}
           all == e["day_7"] + e["day_30"] + e["mature"] + e["lifetime"]
           largest == {w \in S : \A v \in S : e[v] <= e[w]}
<1>1. \A w \in S : w \in {"day_7", "day_30", "mature", "lifetime"}
  BY DEF Candidates
<1>2. /\ e["day_7"] \in Nat /\ e["day_30"] \in Nat /\ e["mature"] \in Nat /\ e["lifetime"] \in Nat
      /\ all \in Nat
  BY DEF Candidates
<1>3. \A w \in S : e[w] \in 0..all
  BY <1>1, <1>2
<1>4. sizes \subseteq 0..all /\ sizes # {}
  BY <1>3
<1>5. \E k \in sizes : \A m \in sizes : k >= m
  <2> HIDE DEF sizes, all
  <2>1. QED
    BY <1>2, <1>4, GreatestNatural
<1>6. PICK w \in S : \A v \in S : e[w] >= e[v]
  BY <1>5
<1>7. w \in largest
  BY <1>1, <1>2, <1>6
<1>8. largest \in SUBSET Candidates /\ largest # {} /\ widest(S, e) = mostMature(largest)
  BY <1>7 DEF widest
<1>9. QED
  BY <1>8, MostMatureOfSome

LEMMA WindowsAreMatched ==
  ASSUME NEW call \in WindowCalls, ruleCall = [rule |-> "window", call |-> call]
  PROVE  WindowsMatchAges
<1>1. PICK e, adequate, minimum :
        e = call.eligible /\ adequate = call.adequate /\ minimum = call.minimum
  OBVIOUS
<1>2. /\ e \in [Candidates -> Nat] /\ minimum \in Nat \ {0} /\ adequate \in Nat
      /\ minimum <= adequate /\ Missing \notin Candidates
  BY <1>1, CandidateWindows, MeasurementAssumption
<1> DEFINE measured == {w \in DOMAIN e : e[w] > 0}
           matched == measured \ {unmatchedAgeWindow}
           covered == {w \in matched : e[w] >= adequate}
           usable == {w \in matched : e[w] >= minimum}
           atBest == IF unmatchedAgeWindow \notin measured THEN measured
                     ELSE {w \in matched : e[w] >= e[unmatchedAgeWindow]}
           chosen == selectAnalyticsAgeWindow(e, adequate, minimum)
           aged == DOMAIN e \ {unmatchedAgeWindow}
<1>3. /\ DOMAIN e = Candidates /\ \A w \in Candidates : e[w] \in Nat
      /\ unmatchedAgeWindow \in Candidates
  BY <1>2 DEF unmatchedAgeWindow, Candidates
<1>4. chosen = IF measured = {} THEN Missing
               ELSE IF covered # {} THEN mostMature(covered)
               ELSE IF usable # {} THEN widest(usable, e)
               ELSE IF atBest # {} THEN widest(atBest, e)
               ELSE unmatchedAgeWindow
  BY DEF selectAnalyticsAgeWindow
<1>5. /\ covered \in SUBSET Candidates /\ usable \in SUBSET Candidates
      /\ atBest \in SUBSET Candidates
  BY <1>3
<1>6. \A w \in aged : w \in Candidates /\ (e[w] >= minimum => w \in usable)
                      /\ (e[w] >= adequate => w \in covered)
  BY <1>2, <1>3
<1>7. measured = {} <=> \A w \in DOMAIN e : e[w] = 0
  BY <1>3
<1>8. measured = {} => covered = {} /\ usable = {}
  OBVIOUS
<1>9. \A w \in covered : e[w] >= adequate /\ w # unmatchedAgeWindow
  OBVIOUS
<1>10. \A w \in usable : w # unmatchedAgeWindow
  OBVIOUS
<1>11. WindowsMatchAges <=>
         /\ chosen = Missing <=> \A w \in DOMAIN e : e[w] = 0
         /\ chosen = unmatchedAgeWindow => \A w \in aged : e[w] < minimum
         /\ chosen \in aged => \A w \in aged :
              e[w] >= adequate =>
                /\ e[chosen] >= adequate
                /\ snapshotAgeWindowMaturity(w) <= snapshotAgeWindowMaturity(chosen)
  BY <1>1 DEF WindowsMatchAges
<1> HIDE DEF measured, matched, covered, usable, atBest, chosen, aged
<1>12. CASE measured = {}
  <2>1. chosen = Missing /\ chosen \notin Candidates
    BY <1>2, <1>4, <1>12
  <2>2. \A w \in aged : w \in Candidates
    BY <1>6
  <2>3. QED
    BY <1>3, <1>7, <1>11, <1>12, <2>1, <2>2
<1>13. CASE measured # {} /\ covered # {}
  <2>1. /\ chosen = mostMature(covered) /\ chosen \in covered
        /\ \A w \in covered : snapshotAgeWindowMaturity(w) <= snapshotAgeWindowMaturity(chosen)
    BY <1>4, <1>5, <1>13, MostMatureOfSome
  <2>2. chosen # Missing /\ chosen # unmatchedAgeWindow /\ e[chosen] >= adequate
    BY <1>2, <1>5, <1>9, <2>1
  <2>3. QED
    BY <1>6, <1>7, <1>11, <1>13, <2>1, <2>2
<1>14. CASE measured # {} /\ covered = {} /\ usable # {}
  <2>1. chosen = widest(usable, e) /\ chosen \in usable
    BY <1>2, <1>4, <1>5, <1>14, WidestOfSome
  <2>2. chosen # Missing /\ chosen # unmatchedAgeWindow
    BY <1>2, <1>5, <1>10, <2>1
  <2>3. \A w \in aged : ~(e[w] >= adequate)
    BY <1>6, <1>14
  <2>4. QED
    BY <1>7, <1>11, <1>14, <2>2, <2>3
<1>15. CASE measured # {} /\ covered = {} /\ usable = {}
  <2>1. chosen \in Candidates
    <3>1. CASE atBest # {}
      BY <1>2, <1>4, <1>5, <1>15, <3>1, WidestOfSome
    <3>2. CASE atBest = {}
      BY <1>3, <1>4, <1>15, <3>2
    <3>3. QED
      BY <3>1, <3>2
  <2>2. \A w \in aged : ~(e[w] >= adequate) /\ ~(e[w] >= minimum)
    BY <1>6, <1>15
  <2>3. \A w \in aged : e[w] < minimum
    BY <1>2, <1>3, <1>6, <2>2
  <2>4. QED
    BY <1>2, <1>7, <1>11, <1>15, <2>1, <2>2, <2>3
<1>16. QED
  BY <1>12, <1>13, <1>14, <1>15

-----------------------------------------------------------------------------
(* MetricRules, the metrics of a snapshot.                                  *)

\* What can be read of an input is a natural number.
LEMMA ReadValuesAreNatural ==
  ASSUME NEW o, o = Missing \/ o.value \in Nat \cup {Missing, Impossible, TooLarge},
         readInputValue(o).reason = "none"
  PROVE  readInputValue(o).value \in Nat
<1>1. \A reason \in {"component_unavailable", "value_rejected", "not_representable"} :
        Rejected(reason).reason # "none"
  BY DEF Rejected
<1>2. /\ o # Missing /\ o.value \notin {Missing, Impossible, TooLarge}
      /\ readInputValue(o).value = o.value
  BY <1>1 DEF readInputValue
<1>3. QED
  BY <1>2

\* A duration that is divided by is a positive one.
LEMMA DurationsArePositive ==
  ASSUME NEW validated \in Nat \cup {Missing, Impossible},
         NEW provider \in Nat \cup {Missing, Impossible}, NEW tolerance,
         resolveMetricDuration(validated, provider, tolerance).seconds # Missing
  PROVE  resolveMetricDuration(validated, provider, tolerance).seconds \in Nat \ {0}
<1> DEFINE usable == {s \in {validated, provider} : isUsableDuration(s)}
           differ == validated \in usable /\ provider \in usable
                     /\ (validated - provider > tolerance \/ provider - validated > tolerance)
           duration == resolveMetricDuration(validated, provider, tolerance)
<1>1. \A s \in usable : s \in Nat \ {0}
  BY DEF isUsableDuration
<1>2. duration = IF usable = {}
        THEN [NoDuration EXCEPT !.rejected = validated # Missing \/ provider # Missing]
        ELSE IF validated \in usable /\ ~differ
          THEN [NoDuration EXCEPT !.seconds = validated, !.source = "validated_source_video"]
          ELSE [NoDuration EXCEPT !.seconds = provider, !.source = "provider_metadata",
                                  !.mismatch = differ]
  BY DEF resolveMetricDuration
<1>3. usable # {} /\ validated \notin usable => provider \in usable
  OBVIOUS
<1>4. usable # {} /\ differ => provider \in usable
  OBVIOUS
<1> HIDE DEF usable, differ, duration
<1>5. CASE usable = {}
  <2>1. duration.seconds = Missing
    BY <1>2, <1>5 DEF NoDuration
  <2>2. QED
    BY <2>1 DEF duration
<1>6. CASE usable # {} /\ validated \in usable /\ ~differ
  <2>1. duration.seconds = validated
    BY <1>2, <1>6 DEF NoDuration
  <2>2. QED
    BY <1>1, <1>6, <2>1 DEF duration
<1>7. CASE usable # {} /\ ~(validated \in usable /\ ~differ)
  <2>1. duration.seconds = provider
    BY <1>2, <1>7 DEF NoDuration
  <2>2. provider \in usable
    BY <1>3, <1>4, <1>7
  <2>3. QED
    BY <1>1, <2>1, <2>2 DEF duration
<1>8. QED
  BY <1>5, <1>6, <1>7

\* The definitions, as far as they matter: at most four components, all of them
\* inputs; a denominator that is an input goes with a count.
LEMMA MetricDefinitions ==
  ASSUME NEW metric \in DOMAIN derivedMetricDefinitions
  PROVE  LET definition == derivedMetricDefinitions[metric]
             keys == definition.numerator
         IN /\ Range(keys) = {keys[i] : i \in DOMAIN keys}
            /\ Range(keys) \subseteq metricInputKeys /\ DOMAIN keys \subseteq Nat
            /\ definition.denominator \in metricInputKeys \cup {"none", "duration"}
            /\ definition.denominator \in metricInputKeys => definition.unit = "count"
<1> DEFINE d == derivedMetricDefinitions
           denominators == metricInputKeys \cup {"none", "duration"}
           Fits(definition) ==
             /\ \A i \in DOMAIN definition.numerator :
                  i \in Nat /\ definition.numerator[i] \in metricInputKeys
             /\ definition.denominator \in denominators
             /\ definition.denominator \in metricInputKeys => definition.unit = "count"
<1>1. \A denominator \in denominators : Fits(Definition(engagementComponents, denominator, "count"))
  BY DEF Definition, engagementComponents, metricInputKeys
<1>2. \A key \in metricInputKeys : \A denominator \in denominators : Fits(Definition(<<key>>, denominator, "count"))
  BY DEF Definition
<1>3. \A key \in metricInputKeys : Fits(Definition(<<key>>, "duration", "milliseconds"))
  BY DEF Definition, metricInputKeys
<1>4. /\ {"likes", "comments", "shares", "saves", "profile_visits", "follows",
           "average_watch_time_ms"} \subseteq metricInputKeys
      /\ {"none", "reach", "profile_visits", "duration"} \subseteq denominators
  BY DEF metricInputKeys
<1>5. \/ \E denominator \in denominators : d[metric] = Definition(engagementComponents, denominator, "count")
      \/ \E key \in metricInputKeys, denominator \in denominators :
           d[metric] = Definition(<<key>>, denominator, "count")
      \/ \E key \in metricInputKeys : d[metric] = Definition(<<key>>, "duration", "milliseconds")
  <2> HIDE DEF Fits, denominators
  <2>1. CASE metric \in {"engagement_count", "engagement_rate_reach"}
    BY <1>4, <2>1 DEF derivedMetricDefinitions
  <2>2. CASE metric \in {"like_rate_reach", "comment_rate_reach", "share_rate_reach"}
    BY <1>4, <2>2 DEF derivedMetricDefinitions
  <2>3. CASE metric \in {"save_rate_reach", "profile_visit_rate_reach"}
    BY <1>4, <2>3 DEF derivedMetricDefinitions
  <2>4. CASE metric \in {"follow_conversion_rate", "follow_rate_reach"}
    BY <1>4, <2>4 DEF derivedMetricDefinitions
  <2>5. CASE metric \in {"average_watch_percentage", "completion_proxy"}
    BY <1>4, <2>5 DEF derivedMetricDefinitions
  <2>6. QED
    BY <2>1, <2>2, <2>3, <2>4, <2>5 DEF derivedMetricDefinitions
<1>6. Fits(d[metric])
  <2> HIDE DEF Fits, d, denominators
  <2>1. QED
    BY <1>1, <1>2, <1>3, <1>5
<1>7. QED
  BY <1>6 DEF Range

\* A denominator there is no reason against is positive, and one that is an
\* input was counted.
LEMMA DenominatorsArePositive ==
  ASSUME NEW definition, NEW inputs, Denominator(definition, inputs).reason = "none",
         inputs.duration.seconds # Missing => inputs.duration.seconds \in Nat \ {0},
         \A key \in metricInputKeys :
           inputs.values[key].reason = "none" => inputs.values[key].value \in Nat,
         definition.denominator \in metricInputKeys \cup {"none", "duration"}
  PROVE  /\ Denominator(definition, inputs).value \in Nat \ {0}
         /\ definition.denominator \in metricInputKeys =>
              /\ inputs.values[definition.denominator].reason = "none"
              /\ inputs.values[definition.denominator].unit = "count"
<1> DEFINE D == Denominator(definition, inputs)
<1>0. "none" \notin metricInputKeys /\ "duration" \notin metricInputKeys
  BY DEF metricInputKeys
<1>1. CASE definition.denominator = "none"
  BY <1>0, <1>1 DEF Denominator
<1>2. CASE definition.denominator = "duration"
  <2>1. inputs.duration.seconds # Missing /\ D.value = inputs.duration.seconds * 1000
    BY <1>2 DEF Denominator
  <2>2. PICK s \in Nat \ {0} : s = inputs.duration.seconds
    BY <2>1
  <2>3. s * 1000 \in Nat \ {0}
    OBVIOUS
  <2>4. QED
    BY <1>0, <1>2, <2>1, <2>2, <2>3
<1>3. CASE definition.denominator \notin {"none", "duration"}
  <2>1. PICK state : state = inputs.values[definition.denominator]
    OBVIOUS
  <2>2. /\ D.value = state.value
        /\ D.reason = IF state.reason = "component_unavailable" THEN "denominator_unavailable"
                      ELSE IF state.reason # "none" THEN state.reason
                      ELSE IF state.unit # "count" THEN "incompatible_unit"
                      ELSE IF state.value > 0 THEN "none" ELSE "denominator_not_positive"
    BY <1>3, <2>1 DEF Denominator
  <2>3. state.reason = "none" /\ state.unit = "count" /\ state.value > 0
    BY <2>2
  <2>4. QED
    BY <1>3, <2>1, <2>2, <2>3
<1>4. QED
  BY <1>1, <1>2, <1>3

LEMMA TotalsAreNatural ==
  ASSUME NEW inputs, NEW keys,
         \A i \in DOMAIN keys : inputs.values[keys[i]].value \in Nat
  PROVE  Total(inputs, keys) \in Nat
<1> DEFINE component(i) == IF i \in DOMAIN keys THEN inputs.values[keys[i]].value ELSE 0
<1>1. component(1) \in Nat /\ component(2) \in Nat /\ component(3) \in Nat /\ component(4) \in Nat
  OBVIOUS
<1>2. Total(inputs, keys) = component(1) + component(2) + component(3) + component(4)
  BY DEF Total
<1> HIDE DEF component
<1>3. QED
  BY <1>1, <1>2

\* When a metric has a value, so has each of its parts.
LEMMA CalculatedMetrics ==
  ASSUME NEW metric, NEW inputs, calculateDerivedMetric(metric, inputs).reason = "none",
         DOMAIN derivedMetricDefinitions[metric].numerator \subseteq Nat
  PROVE  LET definition == derivedMetricDefinitions[metric]
             denominator == Denominator(definition, inputs)
             total == Total(inputs, definition.numerator)
             result == calculateDerivedMetric(metric, inputs)
         IN /\ \A i \in DOMAIN definition.numerator :
                 /\ inputs.values[definition.numerator[i]].reason = "none"
                 /\ inputs.values[definition.numerator[i]].unit = definition.unit
            /\ denominator.reason = "none" /\ result.denominator = denominator.value
            /\ result.numerator = IF metric = "completion_proxy" /\ total > denominator.value
                                  THEN denominator.value ELSE total
<1> DEFINE definition == derivedMetricDefinitions[metric]
           States == [i \in DOMAIN definition.numerator |-> inputs.values[definition.numerator[i]]]
           missing == {i \in DOMAIN States : States[i].reason # "none"}
           rejected == {i \in missing : States[i].reason # "component_unavailable"}
           wrong == \E i \in DOMAIN States :
                      States[i].reason = "none" /\ States[i].unit # definition.unit
           denominator == Denominator(definition, inputs)
           total == Total(inputs, definition.numerator)
           result == calculateDerivedMetric(metric, inputs)
<1>1. result = IF wrong THEN Unavailable("incompatible_unit")
        ELSE IF missing # {}
          THEN Unavailable(IF rejected = {} THEN "component_unavailable"
                                            ELSE States[Min(rejected)].reason)
        ELSE IF denominator.reason # "none" THEN Unavailable(denominator.reason)
        ELSE [reason |-> "none", denominator |-> denominator.value,
              numerator |-> IF metric = "completion_proxy" /\ total > denominator.value
                            THEN denominator.value ELSE total]
  BY DEF calculateDerivedMetric
<1>2. rejected # {} => States[Min(rejected)].reason # "none"
  <2>1. rejected \subseteq Nat
    OBVIOUS
  <2>2. rejected # {} => Min(rejected) \in rejected
    <3> HIDE DEF rejected
    <3>1. QED
      BY <2>1, MinOfNaturals
  <2>3. QED
    BY <2>2
<1>3. \A reason : Unavailable(reason).reason = reason
  BY DEF Unavailable
<1>4. DOMAIN States = DOMAIN definition.numerator
      /\ \A i \in DOMAIN States : States[i] = inputs.values[definition.numerator[i]]
  OBVIOUS
<1>5. missing = {} => \A i \in DOMAIN States : States[i].reason = "none"
  OBVIOUS
<1>6. ~wrong /\ missing = {} => \A i \in DOMAIN States : States[i].unit = definition.unit
  OBVIOUS
<1> HIDE DEF missing, rejected, wrong, States, denominator, total, result
<1>7. ~wrong /\ missing = {} /\ denominator.reason = "none"
  BY <1>1, <1>2, <1>3 DEF result
<1>8. /\ result.denominator = denominator.value
      /\ result.numerator = IF metric = "completion_proxy" /\ total > denominator.value
                            THEN denominator.value ELSE total
  BY <1>1, <1>7
<1>9. QED
  BY <1>4, <1>5, <1>6, <1>7, <1>8 DEF denominator, total, result
LEMMA MeasuredMetrics ==
  ASSUME NEW call \in MetricCalls, ruleCall = [rule |-> "metric", call |-> call]
  PROVE  MetricsAreMeasured
<1>1. PICK metric, values, duration :
        /\ metric = call.metric /\ values = call.values
        /\ duration = resolveMetricDuration(call.validated, call.provider,
                                            metricDurationToleranceSeconds)
  OBVIOUS
<1>2. PICK inputs : inputs = createMetricInputs(values, duration)
  OBVIOUS
<1> DEFINE definition == derivedMetricDefinitions[metric]
           keys == definition.numerator
           denominator == Denominator(definition, inputs)
           result == calculateDerivedMetric(metric, inputs)
           Usable(key) == inputs.values[key].reason = "none"
                          /\ inputs.values[key].unit = definition.unit
<1>3. /\ metric \in DOMAIN derivedMetricDefinitions
      /\ \A key \in metricInputKeys :
           values[key] = Missing \/ values[key].value \in Nat \cup {Missing, Impossible, TooLarge}
      /\ call.validated \in Nat \cup {Missing, Impossible}
      /\ call.provider \in Nat \cup {Missing, Impossible}
  BY <1>1, MeasurementAssumption
<1>4. /\ inputs.duration = duration
      /\ \A key \in metricInputKeys : inputs.values[key] = readInputValue(values[key])
  BY <1>2 DEF createMetricInputs
<1>5. \A key \in metricInputKeys :
        inputs.values[key].reason = "none" => inputs.values[key].value \in Nat
  <2> SUFFICES ASSUME NEW key \in metricInputKeys, inputs.values[key].reason = "none"
               PROVE  inputs.values[key].value \in Nat
    OBVIOUS
  <2>1. PICK o : o = values[key]
    OBVIOUS
  <2>2. inputs.values[key] = readInputValue(o)
    BY <1>4, <2>1
  <2>3. readInputValue(o).reason = "none"
    BY <2>2
  <2>4. o = Missing \/ o.value \in Nat \cup {Missing, Impossible, TooLarge}
    BY <1>3, <2>1
  <2>5. readInputValue(o).value \in Nat
    BY <2>3, <2>4, ReadValuesAreNatural
  <2>6. QED
    BY <2>2, <2>5
<1>6. duration.seconds # Missing => duration.seconds \in Nat \ {0}
  BY <1>1, <1>3, DurationsArePositive
<1>7. /\ Range(keys) = {keys[i] : i \in DOMAIN keys}
      /\ Range(keys) \subseteq metricInputKeys /\ DOMAIN keys \subseteq Nat
      /\ definition.denominator \in metricInputKeys \cup {"none", "duration"}
      /\ definition.denominator \in metricInputKeys => definition.unit = "count"
  BY <1>3, MetricDefinitions
<1>8. MetricsAreMeasured <=>
        (result.reason = "none" =>
           /\ \A key \in Range(definition.numerator) : Usable(key)
           /\ definition.denominator \in metricInputKeys => Usable(definition.denominator)
           /\ result.denominator > 0 /\ result.numerator >= 0
           /\ metric = "completion_proxy" => result.numerator <= result.denominator)
  BY <1>1, <1>2 DEF MetricsAreMeasured
<1> SUFFICES ASSUME result.reason = "none"
             PROVE  /\ \A key \in Range(keys) : Usable(key)
                    /\ definition.denominator \in metricInputKeys => Usable(definition.denominator)
                    /\ result.denominator > 0 /\ result.numerator >= 0
                    /\ metric = "completion_proxy" => result.numerator <= result.denominator
  BY <1>8
<1>9. /\ \A i \in DOMAIN keys : /\ inputs.values[keys[i]].reason = "none"
                                /\ inputs.values[keys[i]].unit = definition.unit
      /\ denominator.reason = "none" /\ result.denominator = denominator.value
      /\ result.numerator = IF metric = "completion_proxy"
                               /\ Total(inputs, keys) > denominator.value
                            THEN denominator.value ELSE Total(inputs, keys)
  BY <1>7, CalculatedMetrics
<1>10. \A i \in DOMAIN keys : inputs.values[keys[i]].value \in Nat
  BY <1>5, <1>7, <1>9
<1>11. Total(inputs, keys) \in Nat
  BY <1>10, TotalsAreNatural
<1>12. /\ denominator.value \in Nat \ {0}
       /\ definition.denominator \in metricInputKeys =>
            /\ inputs.values[definition.denominator].reason = "none"
            /\ inputs.values[definition.denominator].unit = "count"
  <2>1. PICK d : d = definition
    OBVIOUS
  <2>2. inputs.duration.seconds # Missing => inputs.duration.seconds \in Nat \ {0}
    BY <1>4, <1>6
  <2>3. Denominator(d, inputs).reason = "none"
        /\ d.denominator \in metricInputKeys \cup {"none", "duration"}
    BY <1>7, <1>9, <2>1
  <2>4. /\ Denominator(d, inputs).value \in Nat \ {0}
        /\ d.denominator \in metricInputKeys =>
             /\ inputs.values[d.denominator].reason = "none"
             /\ inputs.values[d.denominator].unit = "count"
    BY <1>5, <2>2, <2>3, DenominatorsArePositive
  <2>5. QED
    BY <2>1, <2>4
<1>13. \A key \in Range(keys) : Usable(key)
  BY <1>7, <1>9
<1>14. definition.denominator \in metricInputKeys => Usable(definition.denominator)
  BY <1>7, <1>12
<1>15. /\ result.denominator > 0 /\ result.numerator >= 0
       /\ metric = "completion_proxy" => result.numerator <= result.denominator
  <2>1. PICK t \in Nat, v \in Nat \ {0} : t = Total(inputs, keys) /\ v = denominator.value
    BY <1>11, <1>12
  <2>2. /\ result.denominator = v
        /\ result.numerator = IF metric = "completion_proxy" /\ t > v THEN v ELSE t
    BY <1>9, <2>1
  <2> HIDE DEF result
  <2>3. QED
    BY <2>2
<1>16. QED
  BY <1>13, <1>14, <1>15

-----------------------------------------------------------------------------
(* MetricRules, the cohort of a post.  What is kept of a list is in its     *)
(* order, each place once; so whatever holds of every two posts of a list   *)
(* holds of every two that are kept.                                        *)

\* No two posts of a list have the same id, or the same medium.
DifferentPosts(list) ==
  \A i, j \in DOMAIN list : i # j => list[i].id # list[j].id
OnePerMedium(list) ==
  \A i, j \in DOMAIN list : i # j => list[i].media # list[j].media

LEMMA KeptPlaces ==
  ASSUME NEW list, IsList(list), NEW S, S \subseteq DOMAIN list
  PROVE  /\ Cardinality(S) \in Nat /\ DOMAIN Kept(list, S) = 1..Cardinality(S)
         /\ \E place \in [1..Cardinality(S) -> S] :
              /\ \A m, n \in 1..Cardinality(S) : m # n => place[m] # place[n]
              /\ \A n \in 1..Cardinality(S) : Kept(list, S)[n] = list[place[n]]
<1> DEFINE f == [i \in S |-> i]
           count(i) == Cardinality({j \in S : j <= i})
           place == [n \in 1..Cardinality(S) |-> CHOOSE i \in S : count(i) = n]
<1>1. PICK N \in Nat : DOMAIN list = 1..N
  BY DEF IsList
<1>2. IsFiniteSet(S) /\ Cardinality(S) \in Nat
  <2>1. IsFiniteSet(1..N)
    BY FS_Interval
  <2>2. IsFiniteSet(S)
    BY <1>1, <2>1, FS_Subset
  <2>3. QED
    BY <2>2, FS_CardinalityType
<1>3. DOMAIN f = S /\ Range(f) = S /\ \A i \in S : f[i] = i /\ i \in Int
  BY <1>1 DEF Range
<1>4. IsSample(f)
  BY <1>2, <1>3 DEF IsSample
<1>5. ASSUME NEW i \in S
      PROVE  /\ Cardinality(NotOver(f, i)) = count(i) /\ count(i) \in Nat
             /\ count(i) = Cardinality(Under(f, i)) + 1
             /\ Cardinality(Under(f, i)) \in Nat
  <2>1. NotOver(f, i) = {j \in S : j <= i} /\ Under(f, i) = {j \in S : j < i}
    BY <1>3 DEF NotOver, Under
  <2>2. IsFiniteSet(Under(f, i)) /\ Cardinality(Under(f, i)) \in Nat
    BY <1>3, <1>4, CountsOfASample
  <2>3. i \notin Under(f, i) /\ NotOver(f, i) = Under(f, i) \cup {i}
    BY <1>3, <2>1
  <2>4. Cardinality(Under(f, i) \cup {i}) = Cardinality(Under(f, i)) + 1
    BY <2>2, <2>3, FS_AddElement
  <2>5. count(i) = Cardinality(NotOver(f, i))
    BY <2>1
  <2>6. Cardinality(NotOver(f, i)) = Cardinality(Under(f, i)) + 1
    BY <2>3, <2>4
  <2>7. PICK c \in Nat : c = Cardinality(Under(f, i))
    BY <2>2
  <2> HIDE DEF count, f
  <2>8. QED
    BY <2>5, <2>6, <2>7
<1>6. ASSUME NEW n \in 1..Cardinality(S) PROVE \E i \in S : count(i) = n
  <2>1. PICK i \in S : Cardinality(Under(f, i)) < n /\ n <= Cardinality(NotOver(f, i))
    BY <1>3, <1>4, PlacesAreTaken
  <2>2. count(i) = n
    BY <1>2, <1>5, <2>1
  <2>3. QED
    BY <2>2
<1>7. \A n \in 1..Cardinality(S) : place[n] \in S /\ count(place[n]) = n
  <2> SUFFICES ASSUME NEW n \in 1..Cardinality(S) PROVE place[n] \in S /\ count(place[n]) = n
    OBVIOUS
  <2>1. PICK i \in S : i = (CHOOSE k \in S : count(k) = n) /\ count(i) = n
    <3> HIDE DEF count
    <3>1. QED
      BY <1>6
  <2>2. QED
    BY <2>1
<1>8. place \in [1..Cardinality(S) -> S]
  <2>1. \A n \in 1..Cardinality(S) : (CHOOSE i \in S : count(i) = n) \in S
    BY <1>7
  <2>2. QED
    BY <2>1
<1>9. Kept(list, S) = [n \in 1..Cardinality(S) |-> list[place[n]]]
  BY DEF Kept
<1>10. \A m, n \in 1..Cardinality(S) : m # n => place[m] # place[n]
  <2> HIDE DEF place, count
  <2>1. QED
    BY <1>7
<1>11. /\ DOMAIN Kept(list, S) = 1..Cardinality(S)
       /\ \A n \in 1..Cardinality(S) : Kept(list, S)[n] = list[place[n]]
  <2> HIDE DEF place
  <2>1. QED
    BY <1>9
<1>12. QED
  <2> HIDE DEF place
  <2>1. QED
    BY <1>2, <1>8, <1>10, <1>11

\* An explicit sequence is as long as its domain.
LEMMA ListsOfPlaces ==
  ASSUME NEW list, NEW n \in Nat, DOMAIN list = 1..n, list = [i \in 1..n |-> list[i]]
  PROVE  IsList(list) /\ Len(list) = n
<1> DEFINE T == {list[i] : i \in 1..n}
<1>1. list \in [1..n -> T]
  BY Zenon
<1>2. list \in Seq(T) /\ Len(list) = n
  BY <1>1
<1>3. QED
  BY <1>2 DEF IsList

LEMMA KeptOfAList ==
  ASSUME NEW list, IsList(list), NEW S, S \subseteq DOMAIN list
  PROVE  /\ IsList(Kept(list, S))
         /\ Range(Kept(list, S)) \subseteq {list[i] : i \in S}
         /\ DifferentPosts(list) => DifferentPosts(Kept(list, S))
         /\ OnePerMedium(list) => OnePerMedium(Kept(list, S))
         /\ (\A i, j \in S : i < j => list[i].media # list[j].media) => OnePerMedium(Kept(list, S))
<1>1. PICK kept, n : kept = Kept(list, S) /\ n = Cardinality(S)
  OBVIOUS
<1>2. /\ n \in Nat /\ DOMAIN kept = 1..n
      /\ \E place \in [1..n -> S] :
           /\ \A k, m \in 1..n : k # m => place[k] # place[m]
           /\ \A m \in 1..n : kept[m] = list[place[m]]
  BY <1>1, KeptPlaces
<1>3. PICK place \in [1..n -> S] :
        /\ \A k, m \in 1..n : k # m => place[k] # place[m]
        /\ \A m \in 1..n : kept[m] = list[place[m]]
  BY <1>2
<1>4. \A m \in 1..n : place[m] \in S
  BY <1>3
<1>5. IsList(kept)
  <2>1. kept = [m \in 1..n |-> kept[m]]
    BY <1>1, <1>2 DEF Kept
  <2>2. QED
    BY <1>2, <2>1, ListsOfPlaces
<1>6. Range(kept) \subseteq {list[i] : i \in S}
  BY <1>2, <1>3, <1>4 DEF Range
<1>7. DifferentPosts(list) => DifferentPosts(kept)
  BY <1>2, <1>3, <1>4 DEF DifferentPosts
<1>8. OnePerMedium(list) => OnePerMedium(kept)
  BY <1>2, <1>3, <1>4 DEF OnePerMedium
<1>9. (\A i, j \in S : i < j => list[i].media # list[j].media) => OnePerMedium(kept)
  <2> SUFFICES ASSUME \A i, j \in S : i < j => list[i].media # list[j].media,
                      NEW k \in 1..n, NEW m \in 1..n, k # m
               PROVE  kept[k].media # kept[m].media
    BY <1>2 DEF OnePerMedium
  <2>1. PICK i, j \in S : i = place[k] /\ j = place[m]
    BY <1>4
  <2>2. i # j /\ i \in Nat /\ j \in Nat
    BY <1>3, <2>1 DEF IsList
  <2>3. i < j \/ j < i
    BY <2>2
  <2>4. list[i].media # list[j].media
    BY <2>3
  <2>5. QED
    BY <1>3, <2>1, <2>4
<1>10. QED
  BY <1>1, <1>5, <1>6, <1>7, <1>8, <1>9
\* A list of posts that may stand for a cohort.
PostsOf(list, posts) == IsList(list) /\ Range(list) \subseteq Range(posts) /\ DifferentPosts(list)

LEMMA KeptPosts ==
  ASSUME NEW posts, NEW list, PostsOf(list, posts), NEW S, S \subseteq DOMAIN list
  PROVE  /\ PostsOf(Kept(list, S), posts) /\ Range(Kept(list, S)) \subseteq Range(list)
         /\ \A p \in Range(Kept(list, S)) : \E i \in S : p = list[i]
         /\ OnePerMedium(list) => OnePerMedium(Kept(list, S))
<1>1. /\ IsList(Kept(list, S)) /\ Range(Kept(list, S)) \subseteq {list[i] : i \in S}
      /\ DifferentPosts(list) => DifferentPosts(Kept(list, S))
      /\ OnePerMedium(list) => OnePerMedium(Kept(list, S))
  BY KeptOfAList DEF PostsOf
<1>2. {list[i] : i \in S} \subseteq Range(list)
  BY DEF Range
<1>3. QED
  BY <1>1, <1>2 DEF PostsOf

\* Posts of one account have different media.
LEMMA AccountsHaveAMediumOnce ==
  ASSUME NEW posts, IsPostList(posts), NEW list, PostsOf(list, posts), NEW account,
         \A p \in Range(list) : p.account = account
  PROVE  OnePerMedium(list)
<1> SUFFICES ASSUME NEW i \in DOMAIN list, NEW j \in DOMAIN list, i # j
             PROVE  list[i].media # list[j].media
  BY DEF OnePerMedium
<1>1. list[i] \in Range(posts) /\ list[j] \in Range(posts) /\ list[i].id # list[j].id
      /\ list[i].account = list[j].account
  BY DEF PostsOf, DifferentPosts, Range
<1>2. PICK k, m \in DOMAIN posts : list[i] = posts[k] /\ list[j] = posts[m]
  BY <1>1 DEF Range
<1>3. k # m
  BY <1>1, <1>2
<1>4. QED
  BY <1>1, <1>2, <1>3 DEF IsPostList

\* What the query and its limits leave: posts that were there, each medium once,
\* without the one they are compared with.
LEMMA CohortsOfPosts ==
  ASSUME NEW kind, NEW request, NEW posts, IsPostList(posts)
  PROVE  /\ PostsOf(CohortPosts(kind, request, posts), posts)
         /\ OnePerMedium(CohortPosts(kind, request, posts))
         /\ \A p \in Range(CohortPosts(kind, request, posts)) : p.id # request.focal
<1> DEFINE from == resolvePublishedFrom(kind, request)
           matching == {i \in DOMAIN posts :
                 /\ request.account \in {Missing, posts[i].account}
                 /\ from <= posts[i].day /\ posts[i].day <= request.to
                 /\ kind = "category" /\ request.category # Missing =>
                      posts[i].category = request.category}
           found == Kept(posts, matching)
           limit == IF kind = "recent" THEN request.recentLimit + 1 ELSE request.limit
           page == FirstRows(limit, found)
           firsts == {i \in DOMAIN page : \A j \in 1..(i - 1) : page[j].media # page[i].media}
           all == IF request.account = Missing THEN dedupeCollaboratorPosts(page) ELSE page
           others == {i \in DOMAIN all : all[i].id # request.focal}
           eligible == Kept(all, others)
<1>1. CohortPosts(kind, request, posts)
        = IF kind = "recent" THEN FirstRows(request.recentLimit, eligible) ELSE eligible
  BY DEF CohortPosts
<1>2. PostsOf(posts, posts)
  BY DEF IsPostList, PostsOf, DifferentPosts
<1>3. /\ PostsOf(found, posts)
      /\ \A p \in Range(found) : request.account \in {Missing, p.account}
  <2>1. matching \subseteq DOMAIN posts
    OBVIOUS
  <2>2. \A i \in matching : request.account \in {Missing, posts[i].account}
    OBVIOUS
  <2> HIDE DEF matching
  <2>3. PostsOf(found, posts) /\ \A p \in Range(found) : \E i \in matching : p = posts[i]
    BY <1>2, <2>1, KeptPosts
  <2>4. QED
    BY <2>2, <2>3
<1>4. /\ PostsOf(page, posts)
      /\ \A p \in Range(page) : request.account \in {Missing, p.account}
  <2> HIDE DEF found
  <2>1. {i \in DOMAIN found : i <= limit} \subseteq DOMAIN found
    OBVIOUS
  <2>2. page = Kept(found, {i \in DOMAIN found : i <= limit})
    BY DEF FirstRows
  <2>3. PostsOf(page, posts) /\ Range(page) \subseteq Range(found)
    BY <1>3, <2>1, <2>2, KeptPosts
  <2>4. QED
    BY <1>3, <2>3
<1>5. PostsOf(all, posts) /\ OnePerMedium(all)
  <2> HIDE DEF page
  <2>1. CASE request.account = Missing
    <3>1. all = Kept(page, firsts)
      BY <2>1 DEF dedupeCollaboratorPosts
    <3>2. firsts \subseteq DOMAIN page
      OBVIOUS
    <3>3. \A i, j \in firsts : i < j => page[i].media # page[j].media
      <4> SUFFICES ASSUME NEW i \in firsts, NEW j \in firsts, i < j
                   PROVE  page[i].media # page[j].media
        OBVIOUS
      <4>1. PICK n \in Nat : DOMAIN page = 1..n
        BY <1>4 DEF PostsOf, IsList
      <4>2. i \in 1..(j - 1)
        BY <4>1
      <4>3. QED
        BY <4>2
    <3>4. PostsOf(all, posts)
      BY <1>4, <3>1, <3>2, KeptPosts
    <3>5. OnePerMedium(Kept(page, firsts))
      <4> HIDE DEF firsts
      <4>1. IsList(page)
        BY <1>4 DEF PostsOf
      <4>2. QED
        BY <3>2, <3>3, <4>1, KeptOfAList
    <3>6. QED
      BY <3>1, <3>4, <3>5
  <2>2. CASE request.account # Missing
    <3>1. all = page
      BY <2>2
    <3>2. PICK account : account = request.account
      OBVIOUS
    <3>3. \A p \in Range(page) : p.account = account
      BY <1>4, <2>2, <3>2
    <3>4. OnePerMedium(page)
      BY <1>4, <3>3, AccountsHaveAMediumOnce
    <3>5. QED
      BY <1>4, <3>1, <3>4
  <2>3. QED
    BY <2>1, <2>2
<1>6. /\ PostsOf(eligible, posts) /\ OnePerMedium(eligible)
      /\ \A p \in Range(eligible) : p.id # request.focal
  <2> HIDE DEF all
  <2>1. others \subseteq DOMAIN all /\ \A i \in others : all[i].id # request.focal
    OBVIOUS
  <2> HIDE DEF others
  <2>2. /\ PostsOf(eligible, posts) /\ OnePerMedium(eligible)
        /\ \A p \in Range(eligible) : \E i \in others : p = all[i]
    BY <1>5, <2>1, KeptPosts
  <2>3. QED
    BY <2>1, <2>2
<1>7. CASE kind = "recent"
  <2> HIDE DEF eligible
  <2> DEFINE first == {i \in DOMAIN eligible : i <= request.recentLimit}
  <2>1. first \subseteq DOMAIN eligible
    OBVIOUS
  <2>2. CohortPosts(kind, request, posts) = Kept(eligible, first)
    BY <1>1, <1>7 DEF FirstRows
  <2> HIDE DEF first
  <2>3. /\ PostsOf(Kept(eligible, first), posts) /\ OnePerMedium(Kept(eligible, first))
        /\ Range(Kept(eligible, first)) \subseteq Range(eligible)
    BY <1>6, <2>1, KeptPosts
  <2>4. QED
    BY <1>6, <2>2, <2>3
<1>8. CASE kind # "recent"
  <2> HIDE DEF eligible
  <2>1. QED
    BY <1>1, <1>6, <1>8
<1>9. QED
  BY <1>7, <1>8

LEMMA CohortsAreCountedOnce ==
  ASSUME NEW call \in CohortCalls, ruleCall = [rule |-> "cohort", call |-> call]
  PROVE  CohortsCountOnce
<1>1. PICK kind, request, posts :
        kind = call.kind /\ request = call.request /\ posts = call.posts
  OBVIOUS
<1>2. IsPostList(posts)
  BY <1>1, MeasurementAssumption
<1> DEFINE cohort == loadCohort(kind, request, posts)
           bounded == CohortPosts(kind, request, posts)
           inWindow == {i \in DOMAIN bounded :
                selectComparableSnapshot(bounded[i].snapshots, request.window) # Missing}
           seen == Kept(bounded, inWindow)
           measured == {i \in DOMAIN seen :
                   selectComparableSnapshot(seen[i].snapshots, request.window).value # Missing}
           members == Kept(seen, measured)
           ids == [i \in DOMAIN members |-> members[i].id]
           media == [i \in DOMAIN ids |-> (CHOOSE p \in Range(posts) : p.id = ids[i]).media]
<1>3. cohort.members = ids /\ cohort.eligiblePosts = Len(bounded)
      /\ cohort.postsMissingSnapshot = Len(bounded) - Len(seen)
      /\ cohort.postsMissingMetric = Len(seen) - Len(members)
  BY DEF loadCohort
<1>4. CohortsCountOnce <=>
        /\ IsInjective([i \in DOMAIN cohort.members |->
                          (CHOOSE p \in Range(posts) : p.id = cohort.members[i]).media])
        /\ request.focal \notin Range(cohort.members)
        /\ Len(cohort.members) + cohort.postsMissingSnapshot + cohort.postsMissingMetric
             = cohort.eligiblePosts
        /\ \A focal \in Range(posts) :
             comparePostToCohort(kind, request, posts, focal).baseline
               = summariseSpread(cohort.values).median
  BY <1>1 DEF CohortsCountOnce
<1>5. \A focal : comparePostToCohort(kind, request, posts, focal).baseline
                   = summariseSpread(cohort.values).median
  BY DEF comparePostToCohort, compareToBaseline, summariseSpread, median
<1>6. /\ PostsOf(bounded, posts) /\ OnePerMedium(bounded)
      /\ \A p \in Range(bounded) : p.id # request.focal
  BY <1>2, CohortsOfPosts
<1> HIDE DEF cohort, bounded
<1>7. /\ PostsOf(seen, posts) /\ OnePerMedium(seen) /\ Range(seen) \subseteq Range(bounded)
  <2>1. inWindow \subseteq DOMAIN bounded
    OBVIOUS
  <2> HIDE DEF inWindow
  <2>2. QED
    BY <1>6, <2>1, KeptPosts
<1> HIDE DEF seen
<1>8. /\ PostsOf(members, posts) /\ OnePerMedium(members) /\ Range(members) \subseteq Range(seen)
  <2>1. measured \subseteq DOMAIN seen
    OBVIOUS
  <2> HIDE DEF measured
  <2>2. QED
    BY <1>7, <2>1, KeptPosts
<1> HIDE DEF members
<1>9. \A i \in DOMAIN members : members[i] \in Range(members) /\ members[i] \in Range(posts)
                                /\ members[i].id # request.focal
  BY <1>6, <1>7, <1>8 DEF Range, PostsOf
<1>10. request.focal \notin Range(ids)
  BY <1>9 DEF Range
<1>11. \A i \in DOMAIN members :
         (CHOOSE p \in Range(posts) : p.id = members[i].id) = members[i]
  <2> SUFFICES ASSUME NEW i \in DOMAIN members
               PROVE  (CHOOSE p \in Range(posts) : p.id = members[i].id) = members[i]
    OBVIOUS
  <2>1. PICK m : m = members[i]
    OBVIOUS
  <2>2. m \in Range(posts)
    BY <1>9, <2>1
  <2>3. \A p \in Range(posts) : p.id = m.id => p = m
    BY <1>2, <2>2 DEF Range, IsPostList
  <2>4. (CHOOSE p \in Range(posts) : p.id = m.id) = m
    BY <2>2, <2>3
  <2>5. QED
    BY <2>1, <2>4
<1>12. IsInjective(media)
  <2>1. DOMAIN media = DOMAIN members /\ \A i \in DOMAIN members : media[i] = members[i].media
    BY <1>11
  <2> HIDE DEF media
  <2>2. QED
    BY <1>8, <2>1 DEF IsInjective, OnePerMedium
<1>13. Len(ids) = Len(members)
  <2>1. PICK n \in Nat : n = Len(members) /\ DOMAIN members = 1..n
    BY <1>8 DEF PostsOf, IsList
  <2>2. PICK list : list = ids
    OBVIOUS
  <2>3. DOMAIN list = 1..n /\ list = [i \in 1..n |-> list[i]]
    BY <2>1, <2>2
  <2>4. QED
    BY <2>1, <2>2, <2>3, ListsOfPlaces
<1>14. Len(ids) + cohort.postsMissingSnapshot + cohort.postsMissingMetric = cohort.eligiblePosts
  <2>1. PICK b, s, m \in Nat : b = Len(bounded) /\ s = Len(seen) /\ m = Len(members)
    BY <1>6, <1>7, <1>8 DEF PostsOf, IsList
  <2> HIDE DEF ids, media
  <2>2. /\ Len(ids) = m /\ cohort.postsMissingSnapshot = b - s
        /\ cohort.postsMissingMetric = s - m /\ cohort.eligiblePosts = b
    BY <1>3, <1>13, <2>1
  <2>3. m + (b - s) + (s - m) = b
    OBVIOUS
  <2>4. QED
    BY <2>2, <2>3
<1>15. QED
  <2>1. IsInjective([i \in DOMAIN cohort.members |->
                       (CHOOSE p \in Range(posts) : p.id = cohort.members[i]).media])
    BY <1>3, <1>12
  <2>2. request.focal \notin Range(cohort.members)
    BY <1>3, <1>10
  <2>3. Len(cohort.members) + cohort.postsMissingSnapshot + cohort.postsMissingMetric
          = cohort.eligiblePosts
    BY <1>3, <1>14
  <2>4. \A focal \in Range(posts) :
          comparePostToCohort(kind, request, posts, focal).baseline
            = summariseSpread(cohort.values).median
    BY <1>5
  <2>5. QED
    BY <1>4, <2>1, <2>2, <2>3, <2>4

\* A call is one of those there are.
CallsAreGiven ==
  \/ ruleCall = [rule |-> "none", call |-> Missing]
  \/ \E rows \in SnapshotLists, i \in DOMAIN snapshotAgeWindows :
       ruleCall = [rule |-> "snapshot",
                   call |-> [rows |-> rows, window |-> snapshotAgeWindows[i].key]]
  \/ \E call \in WindowCalls : ruleCall = [rule |-> "window", call |-> call]
  \/ \E call \in MetricCalls : ruleCall = [rule |-> "metric", call |-> call]
  \/ \E call \in CohortCalls : ruleCall = [rule |-> "cohort", call |-> call]

\* Whatever was imported and whatever is asked: the snapshot that stands for a
\* post is the same in every order, windows mix ages only when they must, metrics
\* are made of what was measured, and a cohort has each video once.
THEOREM MeasurementsStayComparable == MeasurementSpec => []MeasurementsAreComparable
<1>1. MeasurementInit => CallsAreGiven
  BY DEF MeasurementInit, CallsAreGiven
<1>2. CallsAreGiven /\ [MeasurementNext]_ruleCall => CallsAreGiven'
  <2> SUFFICES ASSUME CallsAreGiven, [MeasurementNext]_ruleCall PROVE CallsAreGiven'
    OBVIOUS
  <2>1. CASE SelectSnapshot
    BY <2>1 DEF SelectSnapshot, CallsAreGiven
  <2>2. CASE SelectWindow
    BY <2>2 DEF SelectWindow, CallsAreGiven
  <2>3. CASE CalculateMetric
    BY <2>3 DEF CalculateMetric, CallsAreGiven
  <2>4. CASE LoadCohort
    BY <2>4 DEF LoadCohort, CallsAreGiven
  <2>5. CASE UNCHANGED ruleCall
    BY <2>5 DEF CallsAreGiven
  <2>6. QED
    BY <2>1, <2>2, <2>3, <2>4, <2>5 DEF MeasurementNext
<1>3. CallsAreGiven => MeasurementsAreComparable
  <2>1. CASE ruleCall.rule = "none"
    BY <2>1 DEF MeasurementsAreComparable, SnapshotNeedsNoOrder, WindowsMatchAges,
                MetricsAreMeasured, CohortsCountOnce
  <2>2. CASE \E rows \in SnapshotLists, i \in DOMAIN snapshotAgeWindows :
               ruleCall = [rule |-> "snapshot",
                           call |-> [rows |-> rows, window |-> snapshotAgeWindows[i].key]]
    <3>1. ruleCall.rule = "snapshot" /\ SnapshotNeedsNoOrder
      BY <2>2, SnapshotsNeedNoOrder
    <3>2. WindowsMatchAges /\ MetricsAreMeasured /\ CohortsCountOnce
      BY <3>1 DEF WindowsMatchAges, MetricsAreMeasured, CohortsCountOnce
    <3>3. QED
      BY <3>1, <3>2 DEF MeasurementsAreComparable
  <2>3. CASE \E call \in WindowCalls : ruleCall = [rule |-> "window", call |-> call]
    <3>1. ruleCall.rule = "window" /\ WindowsMatchAges
      BY <2>3, WindowsAreMatched
    <3>2. SnapshotNeedsNoOrder /\ MetricsAreMeasured /\ CohortsCountOnce
      BY <3>1 DEF SnapshotNeedsNoOrder, MetricsAreMeasured, CohortsCountOnce
    <3>3. QED
      BY <3>1, <3>2 DEF MeasurementsAreComparable
  <2>4. CASE \E call \in MetricCalls : ruleCall = [rule |-> "metric", call |-> call]
    <3>1. ruleCall.rule = "metric" /\ MetricsAreMeasured
      BY <2>4, MeasuredMetrics
    <3>2. SnapshotNeedsNoOrder /\ WindowsMatchAges /\ CohortsCountOnce
      BY <3>1 DEF SnapshotNeedsNoOrder, WindowsMatchAges, CohortsCountOnce
    <3>3. QED
      BY <3>1, <3>2 DEF MeasurementsAreComparable
  <2>5. CASE \E call \in CohortCalls : ruleCall = [rule |-> "cohort", call |-> call]
    <3>1. ruleCall.rule = "cohort" /\ CohortsCountOnce
      BY <2>5, CohortsAreCountedOnce
    <3>2. SnapshotNeedsNoOrder /\ WindowsMatchAges /\ MetricsAreMeasured
      BY <3>1 DEF SnapshotNeedsNoOrder, WindowsMatchAges, MetricsAreMeasured
    <3>3. QED
      BY <3>1, <3>2 DEF MeasurementsAreComparable
  <2>6. QED
    BY <2>1, <2>2, <2>3, <2>4, <2>5 DEF CallsAreGiven
<1>4. QED
  BY <1>1, <1>2, <1>3, PTL DEF MeasurementSpec
=============================================================================
