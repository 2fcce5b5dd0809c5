------------------------------- MODULE ChatTurn -------------------------------
(***************************************************************************)
(* Conversations of one workspace.  A turn is a request of its own: it     *)
(* counts, commits the question, assembles the context, asks the model at  *)
(* most twice and commits an answer at the position after its question.    *)
(* Turns interleave, and strategies are published meanwhile.               *)
(***************************************************************************)
EXTENDS NullValue, Integers, Sequences, FiniteSets, SequencesExt

CONSTANTS
  Turns, Conversations,
  MessageLimit,       \* chatSessionMessageLimit
  HourlyLimit,        \* chatWorkspaceHourlyTurnLimit
  ContextBudget,      \* chatContextTokenBudget
  StrategyEvidence    \* the manifest of each strategy in turn: key -> record

ASSUME ChatAssumption ==
  /\ MessageLimit \in Nat /\ HourlyLimit \in Nat
  /\ StrategyEvidence \in Seq(Range(StrategyEvidence))

VARIABLES
  conversation,   \* [Conversations -> session row and its messages]
  shown,          \* number of the current strategy of the scope; 0 for none
  turn,           \* [Turns -> progress of the request]
  asked           \* questions of the last hour

chatVars == <<conversation, shown, turn, asked>>

NoConversation == [open |-> FALSE, count |-> 0, title |-> "none", chosen |-> FALSE,
                   messages |-> {}]
IdleTurn == [pc |-> "idle", session |-> Null, sequence |-> 0, strategy |-> 0, offered |-> {},
             cited |-> {}, failed |-> FALSE]

DoneTurn == [IdleTurn EXCEPT !.pc = "done"]

ChatInit ==
  /\ conversation = [s \in Conversations |-> NoConversation]
  /\ shown = 0 /\ asked = 0
  /\ turn = [t \in Turns |-> IdleTurn]

-----------------------------------------------------------------------------
(* Sessions.                                                               *)

StartSession(s) ==
  /\ conversation[s] = NoConversation
  /\ conversation' = [conversation EXCEPT ![s] = [NoConversation EXCEPT !.open = TRUE,
                                                                        !.title = "new"]]
  /\ UNCHANGED <<shown, turn, asked>>

RenameSession(s) ==
  /\ conversation[s].open
  /\ conversation' = [conversation EXCEPT ![s] = [@ EXCEPT !.title = "chosen", !.chosen = TRUE]]
  /\ UNCHANGED <<shown, turn, asked>>

\* Messages and session go in one transaction; the id is never used again.
DeleteSession(s) ==
  /\ conversation[s].open
  /\ conversation' = [conversation EXCEPT ![s] = [NoConversation EXCEPT !.title = "deleted"]]
  /\ UNCHANGED <<shown, turn, asked>>

ShowNextStrategy ==
  /\ shown < Len(StrategyEvidence) /\ shown' = shown + 1
  /\ UNCHANGED <<conversation, turn, asked>>

HourPasses ==
  /\ asked > 0 /\ asked' = 0
  /\ UNCHANGED <<conversation, shown, turn>>

-----------------------------------------------------------------------------
(* A turn.                                                                 *)

\* A missing session or a full hour refuse the turn with nothing written.
BeginTurn(t, s) ==
  /\ turn[t].pc = "idle" /\ conversation[s].open /\ asked < HourlyLimit
  /\ turn' = [turn EXCEPT ![t] = [IdleTurn EXCEPT !.pc = "question", !.session = s]]
  /\ UNCHANGED <<conversation, shown, asked>>

\* appendChatQuestion: the counter gives the position and the unique index
\* keeps it; a full or deleted session ends the turn.
AppendQuestion(t) ==
  LET s == turn[t].session
      row == conversation[s]
      refused == ~row.open \/ row.count >= MessageLimit
  IN /\ turn[t].pc = "question"
     /\ conversation' = IF refused THEN conversation ELSE
          [conversation EXCEPT ![s] =
             [row EXCEPT !.count = row.count + 1,
                         !.title = IF row.chosen \/ row.count > 0 THEN row.title ELSE "derived",
                         !.messages = row.messages \cup
                           {[seq |-> row.count, role |-> "user", turn |-> t, failed |-> FALSE,
                             strategy |-> 0, cited |-> {}]}]]
     /\ asked' = IF refused THEN asked ELSE asked + 1
     /\ turn' = [turn EXCEPT ![t] = IF refused THEN DoneTurn
                     ELSE [@ EXCEPT !.pc = "context", !.sequence = row.count]]
     /\ UNCHANGED shown

\* The loser of two questions at once, or any failed statement, throws.
QuestionFails(t) ==
  /\ turn[t].pc = "question"
  /\ \E u \in Turns \ {t} : turn[u].session = turn[t].session /\ turn[u].pc # "done"
  /\ turn' = [turn EXCEPT ![t] = DoneTurn]
  /\ UNCHANGED <<conversation, shown, asked>>

\* chatContextSources: the account, the strategy if one is current, the posts;
\* the comparisons come last and offer nothing to cite.
AccountBlock == [size |-> 1, ids |-> {}]
StrategyBlock(strategy) ==
  IF strategy = 0 THEN [size |-> 0, ids |-> {}]
  ELSE [size |-> 2, ids |-> DOMAIN StrategyEvidence[strategy]]
PostsBlock == [size |-> 2, ids |-> {"post_001"}]

\* assembleChatContext: a block that does not fit is dropped, the first never.
Include(acc, b) ==
  IF acc.tokens > 0 /\ acc.tokens + b.size > ContextBudget THEN acc
  ELSE [tokens |-> acc.tokens + b.size, ids |-> acc.ids \cup b.ids]

AssembleContext(strategy) ==
  Include(Include(Include([tokens |-> 0, ids |-> {}], AccountBlock), StrategyBlock(strategy)),
          PostsBlock)

\* A mutant of LoadContext: the strategy recorded is read when answering.
LoadContextWithoutMemo(t) ==
  turn' = [turn EXCEPT ![t] = [@ EXCEPT !.pc = "model", !.strategy = Null,
                                        !.offered = AssembleContext(shown).ids]]

\* The memoised strategy gives the evidence and the id the answer records.
LoadContext(t) ==
  turn' = [turn EXCEPT ![t] = [@ EXCEPT !.pc = "model", !.strategy = shown,
                                        !.offered = AssembleContext(shown).ids]]

LoadChatContext(t) ==
  /\ turn[t].pc = "context" /\ LoadContext(t)
  /\ UNCHANGED <<conversation, shown, asked>>

\* validateChatReplyV1: a citation that was not offered is dropped.
KeptCitations(cited, offered) == cited \cap offered

\* Only these refusals are repaired, with a note, and once.
RepairNotes == {"SCHEMA", "CONTROL_CHARACTER"}
Replies == {"valid", "provider"} \cup RepairNotes \cup {"NOT_JSON"}

\* check, then the repair: a repair that fails leaves the first refusal.
TurnOutcome(first, second) ==
  IF first \notin RepairNotes \/ second = "provider" THEN first ELSE second

AskModel(t, first, second, cited) ==
  LET outcome == TurnOutcome(first, second)
  IN /\ turn[t].pc = "model"
     /\ turn' = [turn EXCEPT ![t] =
          [@ EXCEPT !.pc = "answer", !.offered = {}, !.failed = outcome # "valid",
                    !.cited = IF outcome = "valid"
                                THEN KeptCitations(cited, turn[t].offered) ELSE {}]]
     /\ UNCHANGED <<conversation, shown, asked>>

\* A mutant of AnswerSequence: the end of the conversation.
AnswerAtTheEnd(t) == conversation[turn[t].session].count

AnswerSequence(t) == turn[t].sequence + 1

\* appendChatAnswer: a position another question took makes the insert fail,
\* and the answer, failed or not, is lost.
AppendAnswer(t) ==
  LET s == turn[t].session
      row == conversation[s]
      taken == \E m \in row.messages : m.seq = AnswerSequence(t)
      strategy == IF turn[t].strategy = Null THEN shown ELSE turn[t].strategy
  IN /\ turn[t].pc = "answer"
     /\ conversation' = IF ~row.open \/ taken THEN conversation ELSE
          [conversation EXCEPT ![s] =
             [row EXCEPT !.count = row.count + 1,
                         !.messages = row.messages \cup
                           {[seq |-> AnswerSequence(t), role |-> "assistant", turn |-> t,
                             failed |-> turn[t].failed, strategy |-> strategy,
                             cited |-> turn[t].cited]}]]
     /\ turn' = [turn EXCEPT ![t] = DoneTurn]
     /\ UNCHANGED <<shown, asked>>

\* The web process ends between the question and its answer.
TurnDies(t) ==
  /\ turn[t].pc \in {"context", "model", "answer"}
  /\ turn' = [turn EXCEPT ![t] = DoneTurn]
  /\ UNCHANGED <<conversation, shown, asked>>

ChatNext ==
  \/ ShowNextStrategy \/ HourPasses
  \/ \E s \in Conversations : StartSession(s) \/ RenameSession(s) \/ DeleteSession(s)
  \/ \E t \in Turns :
       \/ \E s \in Conversations : BeginTurn(t, s)
       \/ AppendQuestion(t) \/ QuestionFails(t) \/ LoadChatContext(t) \/ AppendAnswer(t)
       \/ TurnDies(t)
       \/ \E first, second \in Replies, cited \in {{"post_001"}, {"stat_pos_0", "stat_neg_0"}} :
            AskModel(t, first, second, cited)

ChatSpec == ChatInit /\ [][ChatNext]_chatVars

-----------------------------------------------------------------------------
(* Properties.                                                             *)

\* "The loser fails rather than silently reordering the conversation": the
\* positions are 0..count-1 without a gap, and an answer follows its question.
TranscriptInOrder ==
  \A s \in Conversations :
    LET messages == conversation[s].messages
    IN /\ {m.seq : m \in messages} = 0..(conversation[s].count - 1)
       /\ Cardinality(messages) = conversation[s].count
       /\ \A a \in messages : a.role = "assistant" =>
            \E q \in messages : q.role = "user" /\ q.turn = a.turn /\ q.seq = a.seq - 1

\* What an answer cites was in the manifest of the strategy it records, even
\* when another strategy is published while the model is answering.
CitedFromItsStrategy ==
  \A s \in Conversations : \A m \in conversation[s].messages :
    m.cited \ {"post_001"} # {} =>
      /\ m.strategy # 0
      /\ m.cited \ {"post_001"} \subseteq DOMAIN StrategyEvidence[m.strategy]

\* "an id that no longer resolves is rendered as a citation without a link":
\* read against the strategy that is current now, a key is the record that was
\* cited, or none.
CitationsKeepTheirMeaning ==
  \A s \in Conversations : \A m \in conversation[s].messages :
    \A key \in m.cited \ {"post_001"} :
      (shown # 0 /\ key \in DOMAIN StrategyEvidence[shown]) =>
        StrategyEvidence[shown][key] = StrategyEvidence[m.strategy][key]
=============================================================================
