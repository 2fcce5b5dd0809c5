--------------------------- MODULE StrategyGeneration ---------------------------
(***************************************************************************)
(* Strategies of one scope, an account or the pooled accounts: a request   *)
(* that freezes evidence, the strategy.generate job, its one repair, and   *)
(* publication.  Requests and attempts interleave; a lease can expire      *)
(* under an attempt that is still running.                                 *)
(***************************************************************************)
EXTENDS HandlerJobs, StrategyRules

CONSTANTS
  StrategyRequesters, StrategyWriters,
  EvidenceSets,      \* what a calculation may find: statistics, posts, weeks
  MaxCalculations, MaxGenerations, StrategyFaults

ASSUME StrategyAssumption ==
  MaxCalculations \in Nat /\ MaxGenerations \in Nat /\ StrategyFaults \in Nat

\* Statistics and posts are rows with identifiers, and every stored class is one
\* that an item of a strategy may have.
ASSUME EvidenceAssumption ==
  \A e \in EvidenceSets :
    /\ IsFiniteSet(e.statistics) /\ e.posts \in Seq(Range(e.posts))
    /\ \A p \in Range(e.posts) : p.id \in Int
    /\ \A s \in e.statistics :
         /\ s.id \in Int /\ s.effect \in Int \cup {Null}
         /\ s.class # Null /\ Empirical(s.class)
    /\ \A s, t \in e.statistics : s.id = t.id => s = t

VARIABLES
  strategyScope,     \* "account" or "pooled"
  activeRun,         \* the ACTIVE analytics run: number and evidence
  owed,              \* analyticsDirtySince of an account that is read
  generations,       \* strategy_generations, oldest first, each with its job and the
                     \* fingerprints of its stored result, {} while there is none
  currentStrategy,   \* currentStrategyId of the account; 0 for none
  requester,         \* [StrategyRequesters -> progress of a request]
  writer,            \* [StrategyWriters -> progress of the handler]
  strategyFaults

strategyVars == <<strategyScope, activeRun, owed, generations, currentStrategy, requester,
                  writer, strategyFaults>>

IdleRequester == [pc |-> "idle", judged |-> 0, mode |-> Null, regenerate |-> FALSE]
IdleWriter == [pc |-> "idle", gen |-> 0, attempt |-> 0, recent |-> {}, repaired |-> FALSE,
               answer |-> {}, class |-> Null]

StrategyInit ==
  /\ strategyScope \in {"account", "pooled"}
  /\ activeRun \in {[run |-> 1, evidence |-> e] : e \in EvidenceSets}
  /\ owed = FALSE
  /\ generations = <<>> /\ currentStrategy = 0
  /\ requester = [r \in StrategyRequesters |-> IdleRequester]
  /\ writer = [w \in StrategyWriters |-> IdleWriter]
  /\ strategyFaults = StrategyFaults

Succeeded == {g \in DOMAIN generations : generations[g].state = "SUCCEEDED"}

\* Strategies whose state says they are published, newest first.
Priors ==
  [i \in 1..Cardinality(Succeeded) |->
     CHOOSE g \in Succeeded : Cardinality({h \in Succeeded : h > g}) = i - 1]

\* What a reader is shown: the account's pointer, or the newest SUCCEEDED
\* pooled generation.
CurrentStrategy ==
  IF strategyScope = "account" THEN currentStrategy
  ELSE IF Succeeded = {} THEN 0 ELSE Max(Succeeded)

-----------------------------------------------------------------------------
(* The request.                                                            *)

\* A change of an account's data sets the marker; the recalculation it is owed
\* replaces the ACTIVE run and clears it.  Bounded to while a request can follow.
Recalculate(e) ==
  /\ owed /\ Len(generations) < MaxGenerations
  /\ activeRun' = [run |-> activeRun.run + 1, evidence |-> e]
  /\ owed' = FALSE
  /\ UNCHANGED <<strategyScope, generations, currentStrategy, requester, writer, strategyFaults>>

OweRecalculation ==
  /\ activeRun.run < MaxCalculations /\ Len(generations) < MaxGenerations
  /\ ~owed /\ owed' = TRUE
  /\ UNCHANGED <<strategyScope, activeRun, generations, currentStrategy, requester, writer,
                 strategyFaults>>

\* readEligibility: a refusal ends the request with nothing written.
JudgeRequest(r, acceptExploratory, regenerate) ==
  LET e == activeRun.evidence
      verdict == EvaluateEligibility(
        [scope |-> strategyScope, metricDerived |-> TRUE, analysed |-> Len(e.posts),
         run |-> activeRun.run, dirty |-> owed, comparable |->
           Cardinality(ComparablePosts(e.statistics)), weeks |-> e.weeks,
         acceptExploratory |-> acceptExploratory])
  IN /\ requester[r].pc = "idle" /\ Len(generations) < MaxGenerations
     /\ Eligible(verdict)
     /\ requester' = [requester EXCEPT ![r] =
          [pc |-> "freeze", judged |-> activeRun.run, mode |-> verdict,
           regenerate |-> regenerate]]
     /\ UNCHANGED <<strategyScope, activeRun, owed, generations, currentStrategy, writer,
                    strategyFaults>>

\* The evidence is read a second time, so the run may be a newer one.
FrozenEvidence ==
  SelectStrategyEvidence(EvidenceCandidates(activeRun.evidence.statistics,
                                            activeRun.evidence.posts, Priors))

\* createStrategyManifestHash: equal exactly when all that is hashed is.
ManifestHash(mode) == [run |-> activeRun.run, mode |-> mode, entries |-> FrozenEvidence]

\* nextRegenerationOrdinal.
RegenerationOrdinal(hash, regenerate) ==
  LET same == {generations[g].ordinal :
                 g \in {k \in DOMAIN generations : generations[k].hash = hash}}
  IN IF same = {} THEN 0 ELSE IF regenerate THEN Max(same) + 1 ELSE Max(same)

\* The signature of the request is unique: the second of two racing requests
\* is answered with the generation of the first.
FreezeRequest(r) ==
  LET mode == requester[r].mode
      hash == ManifestHash(mode)
      ordinal == RegenerationOrdinal(hash, requester[r].regenerate)
      known == \E g \in DOMAIN generations :
                 generations[g].hash = hash /\ generations[g].ordinal = ordinal
  IN /\ requester[r].pc = "freeze" /\ Len(generations) < MaxGenerations
     /\ generations' = IF known THEN generations
          ELSE Append(generations,
                 [hash |-> hash, ordinal |-> ordinal, mode |-> mode, judged |-> requester[r].judged,
                  run |-> activeRun.run,
                  state |-> "QUEUED", stage |-> Null, repair |-> FALSE, result |-> {},
                  job |-> Enqueue(AbsentJob)])
     /\ requester' = [requester EXCEPT ![r] = IdleRequester]
     /\ UNCHANGED <<strategyScope, activeRun, owed, currentStrategy, writer, strategyFaults>>

-----------------------------------------------------------------------------
(* The handler.                                                            *)

WriterHolds(w) == MayContinue(generations[writer[w].gen].job, writer[w].attempt)
At(w, pc) == [writer EXCEPT ![w].pc = pc]
StrategyFault == strategyFaults > 0 /\ strategyFaults' = strategyFaults - 1

\* loading_manifest: the frozen row, and the fingerprints of the last three
\* SUCCEEDED strategies.  A stored result is adopted.
ClaimStrategy(w, g) ==
  /\ writer[w].pc = "idle" /\ Claimable(generations[g].job)
  /\ IF generations[g].result # {}
       THEN /\ generations' = [generations EXCEPT ![g].job = Complete(Claim(@))]
            /\ UNCHANGED writer
       ELSE /\ generations' = [generations EXCEPT ![g].job = Claim(@)]
            /\ writer' = [writer EXCEPT ![w] =
                 [IdleWriter EXCEPT
                    !.pc = "stage", !.gen = g, !.attempt = generations[g].job.attempt + 1,
                    !.recent = UNION {generations[Priors[i]].result :
                                        i \in {k \in DOMAIN Priors : k <= 3 /\ Priors[k] # g}},
                    !.repaired = generations[g].repair]]
  /\ UNCHANGED <<strategyScope, activeRun, owed, currentStrategy, requester, strategyFaults>>

\* The job's stage is recorded under the lease, the generation's after it.
EnterStage(w, pc, next) ==
  /\ writer[w].pc = pc /\ WriterHolds(w)
  /\ writer' = At(w, next)
  /\ UNCHANGED <<strategyScope, activeRun, owed, generations, currentStrategy, requester,
                 strategyFaults>>

\* A manifest with nothing in it fails the job, and the generation stays QUEUED.
RefuseEmptyManifest(w) ==
  /\ writer[w].pc = "stage" /\ generations[writer[w].gen].hash.entries = <<>>
  /\ writer' = [writer EXCEPT ![w] = [@ EXCEPT !.pc = "settle", !.class = "INVALID_INPUT"]]
  /\ UNCHANGED <<strategyScope, activeRun, owed, generations, currentStrategy, requester,
                 strategyFaults>>

BeginRequesting(w) ==
  /\ EnterStage(w, "stage", "requesting")
  /\ generations[writer[w].gen].hash.entries # <<>>
BeginRepairing(w) == EnterStage(w, "repair", "repairing")
BeginPublishing(w) == EnterStage(w, "publishing", "commit")

\* recordStrategyStage: any state becomes PROCESSING.
RecordStrategyStage(w) ==
  LET repairing == writer[w].pc = "repairing"
      attempt == writer[w]
      row == generations[attempt.gen]
  IN /\ attempt.pc \in {"requesting", "repairing"}
     /\ generations' = [generations EXCEPT ![attempt.gen] =
          [row EXCEPT !.stage = IF repairing THEN "REPAIRING" ELSE "REQUESTING",
                      !.state = "PROCESSING", !.repair = row.repair \/ repairing]]
     /\ writer' = [writer EXCEPT ![w] =
          [attempt EXCEPT !.pc = "ask", !.repaired = attempt.repaired \/ repairing]]
     /\ UNCHANGED <<strategyScope, activeRun, owed, currentStrategy, requester, strategyFaults>>

Text(word) == [word |-> word, safe |-> TRUE]
Cite(items, role) ==
  LET refs[s \in SUBSET items] ==
        IF s = {} THEN <<>>
        ELSE LET m == CHOOSE m \in s : TRUE
             IN Append(refs[s \ {m}], [id |-> m.id, role |-> role])
  IN refs[items]

\* A whole answer over the items it cites: one experiment, one recommendation on
\* a topic, one pillar, the coverage in the limitations, and the claims given.
Answer(mode, cited, claims, class, topic, iteration) ==
  LET limits == {m \in cited : "limitation" \in m.roles}
      context == {m \in cited : "context" \in m.roles}
      statistics == {m \in cited : m.type = "feature_statistic"}
      test == [refs |-> Cite(context, "context"), changed |-> Text("hook"),
               stable |-> {Text("length")}]
  IN [mode |-> mode, working |-> claims, weak |-> <<>>, tests |-> <<test>>,
      pillars |-> <<[pillar |-> "education", percent |-> 100, class |-> class,
                     refs |-> Cite(IF statistics = {} THEN context ELSE statistics, "context"),
                     experimental |-> mode = "exploratory"]>>,
      recommendations |->
        <<[key |-> "next", refs |-> Cite(context, "context"), class |-> "creative_recommendation",
           pillar |-> "education", format |-> "talking_head", cta |-> "follow", leap |-> TRUE,
           hooks |-> <<Text("a"), Text("b"), Text("c")>>, title |-> Text(topic),
           topic |-> Text(topic), audience |-> Text("owners"), iteration |-> iteration,
           test |-> test]>>,
      limitations |-> <<[refs |-> Cite(limits, "limitation")]>>,
      leadsWithInsufficiency |-> TRUE]

\* The least that may be answered: one item, what the limitations must say, and a
\* reason for coming back to the topic.
PlainAnswers(mode, manifest) ==
  {Answer(mode, {m \in manifest : m = item \/ m.required}, <<>>, "insufficient_evidence", "t1",
          TRUE) : item \in manifest}

\* The claim that cites all the manifest has about the hook.
HookClaim(manifest) ==
  LET of(role) == {m \in manifest : role \in m.roles /\ "hook" \in m.dimensions}
  IN [key |-> "pattern", dimension |-> "hook", class |-> "moderate_association",
      refs |-> Cite(of("supporting"), "supporting") \o Cite(of("counterexample"), "counterexample")
                 \o Cite({m \in manifest : m.type = "post"}, "context")]

\* A modest answer, and one that claims the pattern and repeats itself.
Answers(mode, manifest) ==
  {Answer(mode, manifest, <<>>, "insufficient_evidence", "t1", FALSE),
   Answer(mode, manifest, <<HookClaim(manifest)>>, "moderate_association", "t1", TRUE)}

\* requestStrategy: an answer, judged against the frozen manifest.
AskForStrategy(w) ==
  LET g == generations[writer[w].gen]
      manifest == Manifest(g.hash.entries)
  IN /\ writer[w].pc = "ask"
     /\ \E answer \in Answers(g.mode, manifest) :
          LET issues == ValidateStrategy(CompleteStrategy(answer, g.mode), g.mode, manifest,
                                         writer[w].recent)
          IN writer' = [writer EXCEPT ![w] =
               IF issues = {}
                 THEN [@ EXCEPT !.pc = "publishing",
                                !.answer = {Fingerprint(answer.recommendations[i]) :
                                              i \in DOMAIN answer.recommendations}]
               ELSE IF ~writer[w].repaired THEN [@ EXCEPT !.pc = "repair"]
               ELSE [@ EXCEPT !.pc = "fail", !.class = "SEMANTIC_OUTPUT"]]
     /\ UNCHANGED <<strategyScope, activeRun, owed, generations, currentStrategy, requester,
                    strategyFaults>>

\* A GeminiError is recorded on the generation; text that is not JSON is not.
AskFails(w, class) ==
  /\ writer[w].pc = "ask" /\ StrategyFault
  /\ writer' = [writer EXCEPT ![w] =
       [@ EXCEPT !.pc = IF class = "SEMANTIC_OUTPUT" THEN "settle" ELSE "fail", !.class = class]]
  /\ UNCHANGED <<strategyScope, activeRun, owed, generations, currentStrategy, requester>>

\* A mutant of RecordsFailure: the stored result does not protect.
RecordsFailureAlways(g) == TRUE

\* failStrategyGeneration asks for no lease, only for the absence of a result.
RecordsFailure(g) == generations[g].result = {}

FailStrategyGeneration(w) ==
  /\ writer[w].pc = "fail"
  /\ generations' = IF RecordsFailure(writer[w].gen)
       THEN [generations EXCEPT ![writer[w].gen].state = "FAILED"] ELSE generations
  /\ writer' = At(w, "settle")
  /\ UNCHANGED <<strategyScope, activeRun, owed, currentStrategy, requester, strategyFaults>>

SettleStrategyFailure(w) ==
  /\ writer[w].pc = "settle"
  /\ generations' = [generations EXCEPT ![writer[w].gen].job =
       SettleFailure(@, writer[w].attempt, writer[w].class)]
  /\ writer' = [writer EXCEPT ![w] = IdleWriter]
  /\ UNCHANGED <<strategyScope, activeRun, owed, currentStrategy, requester, strategyFaults>>

\* publishStrategyGeneration inside the success transaction, which checks the
\* lease; without it nothing is written.
PublishStrategy(w) ==
  LET g == writer[w].gen
      row == generations[g]
      publishes == WriterHolds(w) /\ row.result = {}
  IN /\ writer[w].pc = "commit"
     /\ generations' = [generations EXCEPT ![g] =
          IF publishes THEN [row EXCEPT !.result = writer[w].answer, !.state = "SUCCEEDED",
                                        !.stage = "PUBLISHING", !.job = Complete(row.job)]
          ELSE IF WriterHolds(w) THEN [row EXCEPT !.job = Complete(row.job)] ELSE row]
     /\ currentStrategy' = IF publishes /\ strategyScope = "account" THEN g ELSE currentStrategy
     /\ writer' = [writer EXCEPT ![w] = IdleWriter]
     /\ UNCHANGED <<strategyScope, activeRun, owed, requester, strategyFaults>>

LoseStrategy(w) ==
  /\ writer[w].pc \in {"stage", "repair", "publishing"} /\ ~WriterHolds(w)
  /\ writer' = [writer EXCEPT ![w] = IdleWriter]
  /\ UNCHANGED <<strategyScope, activeRun, owed, generations, currentStrategy, requester,
                 strategyFaults>>

RecoverStrategy(g) ==
  /\ generations[g].job.state = "PROCESSING" /\ StrategyFault
  /\ generations' = [generations EXCEPT ![g].job = RecoverLease(@)]
  /\ UNCHANGED <<strategyScope, activeRun, owed, currentStrategy, requester, writer>>

StrategyNext ==
  \/ OweRecalculation \/ \E e \in EvidenceSets : Recalculate(e)
  \/ \E r \in StrategyRequesters :
       FreezeRequest(r) \/ \E a, b \in BOOLEAN : JudgeRequest(r, a, b)
  \/ \E g \in DOMAIN generations :
       RecoverStrategy(g) \/ \E w \in StrategyWriters : ClaimStrategy(w, g)
  \/ \E w \in StrategyWriters :
       \/ RefuseEmptyManifest(w) \/ BeginRequesting(w) \/ BeginRepairing(w) \/ BeginPublishing(w)
       \/ RecordStrategyStage(w)
       \/ AskForStrategy(w) \/ FailStrategyGeneration(w) \/ SettleStrategyFailure(w)
       \/ PublishStrategy(w) \/ LoseStrategy(w)
       \/ \E class \in {"RATE_LIMIT", "UNKNOWN", "SEMANTIC_OUTPUT"} : AskFails(w, class)

StrategySpec == StrategyInit /\ [][StrategyNext]_strategyVars

-----------------------------------------------------------------------------
(* Properties.                                                             *)

\* "A late failure must never retract a strategy a reader has already been
\* shown": a result is there exactly when its job succeeded, none is FAILED,
\* and what a reader is shown has one, whichever attempts overlapped.
ResultsAreKept ==
  /\ \A g \in DOMAIN generations :
       /\ generations[g].result # {} <=> generations[g].job.state = "SUCCEEDED"
       /\ generations[g].result # {} => generations[g].state # "FAILED"
  /\ CurrentStrategy # 0 => generations[CurrentStrategy].result # {}

\* The validator has an answer it accepts for every manifest the model is asked
\* about, frozen in the mode judged on its run, whatever has been recommended
\* before: asking is never futile.
ManifestsAreAnswerable ==
  \A g \in Range(generations) :
    (g.hash.entries # <<>> /\ g.judged = g.run) =>
      LET manifest == Manifest(g.hash.entries)
          recent == UNION {h.result : h \in Range(generations)}
      IN \E answer \in PlainAnswers(g.mode, manifest) :
           ValidateStrategy(answer, g.mode, manifest, recent) = {}
=============================================================================
