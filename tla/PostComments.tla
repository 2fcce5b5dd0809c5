---------------------------- MODULE PostComments ----------------------------
(***************************************************************************)
(* The comments of one imported post (instagram.comments.post): a job a    *)
(* day, each attempt paging from the top and upserting every page in a     *)
(* transaction of its own.  The comments are 1..written, and a page is the *)
(* next few of them.                                                       *)
(***************************************************************************)
EXTENDS HandlerJobs, InstagramRules

CONSTANTS
  CommentDays,   \* days of a behaviour
  CommentCount,  \* comments the post may come to have
  CommentPageSize, MaximumCommentPages,  \* 50 and 20 in the code
  CommentHorizonDays,  \* 90 in the code; the post is published on day 1
  CommentFaults

ASSUME CommentAssumption ==
  /\ CommentDays \in Nat /\ CommentCount \in Nat /\ CommentFaults \in Nat
  /\ CommentPageSize \in Nat \ {0} /\ MaximumCommentPages \in Nat \ {0}

VARIABLES
  commentDay,
  written,      \* comments the post has at the provider
  commentJob,   \* [days -> row]
  commentRows,  \* instagram_comments rows
  importer,     \* progress of importComments
  commentFaults

commentVars == <<commentDay, written, commentJob, commentRows, importer, commentFaults>>

IdleImporter == [pc |-> "idle", day |-> 1, attempt |-> 0, after |-> 0, visited |-> 0,
                 known |-> 0, page |-> {}]

CommentInit ==
  /\ commentDay = 1 /\ written = 0 /\ commentRows = {}
  /\ commentJob = [d \in 1..CommentDays |-> AbsentJob]
  /\ importer = IdleImporter /\ commentFaults = CommentFaults

CommentsPage(after) == {c \in 1..written : c > after /\ c <= after + CommentPageSize}

\* listInstagramPostsDueForComments, of a connected account.
DueForComments == commentDay <= CommentHorizonDays

\* The sweep, with the day's key.
EnqueueDueComments ==
  /\ DueForComments
  /\ commentJob[commentDay].state = "ABSENT"
  /\ commentJob' = [commentJob EXCEPT ![commentDay] = Enqueue(@)]
  /\ UNCHANGED <<commentDay, written, commentRows, importer, commentFaults>>

\* resultExists is always false: a day's import runs whatever came before.
ClaimComments(d) ==
  /\ importer.pc = "idle" /\ Claimable(commentJob[d])
  /\ commentJob' = [commentJob EXCEPT ![d] = Claim(@)]
  /\ importer' = [IdleImporter EXCEPT !.pc = "fetch", !.day = d, !.known = written,
                                      !.attempt = commentJob[d].attempt + 1]
  /\ UNCHANGED <<commentDay, written, commentRows, commentFaults>>

FetchComments ==
  /\ importer.pc = "fetch" /\ MayContinue(commentJob[importer.day], importer.attempt)
  /\ importer' = [importer EXCEPT !.pc = "persist", !.page = CommentsPage(importer.after)]
  /\ UNCHANGED <<commentDay, written, commentJob, commentRows, commentFaults>>

\* Whether another page follows the one just fetched.
MoreComments == importer.page # {} /\ written > importer.after + CommentPageSize

\* A mutant of NextPage: the page after next.
NextPageButOne ==
  [importer EXCEPT !.pc = "fetch", !.after = @ + 2 * CommentPageSize, !.visited = @ + 1,
                   !.page = {}]

NextPage ==
  [importer EXCEPT !.pc = "fetch", !.after = @ + CommentPageSize, !.visited = @ + 1,
                   !.page = {}]

\* commitInstagramComments; the page bound ends the import without failing it.
CommitComments ==
  /\ importer.pc = "persist" /\ MayContinue(commentJob[importer.day], importer.attempt)
  /\ commentRows' = commentRows \cup importer.page
  /\ importer' = IF MoreComments /\ importer.visited + 1 < MaximumCommentPages
                   THEN NextPage ELSE [importer EXCEPT !.pc = "commit", !.page = {}]
  /\ UNCHANGED <<commentDay, written, commentJob, commentFaults>>

CompleteComments ==
  /\ importer.pc = "commit"
  /\ commentJob' = IF MayContinue(commentJob[importer.day], importer.attempt)
                     THEN [commentJob EXCEPT ![importer.day] = Complete(@)] ELSE commentJob
  /\ importer' = IdleImporter
  /\ UNCHANGED <<commentDay, written, commentRows, commentFaults>>

\* A refusal settles the attempt by its class; a death leaves its lease, which
\* reconciliation recovers.  Either way the next attempt starts at the top.
CommentsFail ==
  /\ importer.pc # "idle" /\ commentFaults > 0 /\ commentFaults' = commentFaults - 1
  /\ \/ \E class \in CommentRefusals :
          commentJob' = [commentJob EXCEPT ![importer.day] =
                           SettleFailure(@, importer.attempt, ToJobFailure(class))]
     \/ commentJob' = [commentJob EXCEPT ![importer.day] = RecoverLease(@)]
  /\ importer' = IdleImporter
  /\ UNCHANGED <<commentDay, written, commentRows>>

CommentIsWritten ==
  /\ written < CommentCount /\ written' = written + 1
  /\ UNCHANGED <<commentDay, commentJob, commentRows, importer, commentFaults>>

NextCommentDay ==
  /\ commentDay < CommentDays /\ commentDay' = commentDay + 1
  /\ UNCHANGED <<written, commentJob, commentRows, importer, commentFaults>>

CommentNext ==
  \/ EnqueueDueComments \/ (\E d \in 1..CommentDays : ClaimComments(d))
  \/ FetchComments \/ CommitComments \/ CompleteComments \/ CommentsFail
  \/ CommentIsWritten \/ NextCommentDay

CommentSpec == CommentInit /\ [][CommentNext]_commentVars

-----------------------------------------------------------------------------
\* An import about to succeed has stored every comment the post had when it
\* began, up to the page bound, whatever attempts and days overlapped it.
CommentsImported ==
  importer.pc = "commit" =>
    \A c \in 1..importer.known :
      c <= MaximumCommentPages * CommentPageSize => c \in commentRows
=============================================================================
