------------------------------ MODULE MCContent ------------------------------
(***************************************************************************)
(* What is made of the imported posts: uploads from the browser, analyses, *)
(* statistics, strategies and the chat about them, the people who may ask, *)
(* the worker that does it, and the rules they share.  A behaviour is that *)
(* of the component its scene names.                                       *)
(***************************************************************************)
EXTENDS AnalysisRun, FeatureStatistics, StrategyGeneration, ChatTurn, WorkspaceAccess,
        AnalysisContract, RetryPolicy, UploadClient, WorkerLifecycle, TLC

-----------------------------------------------------------------------------
(* Inputs of the rules on measurements and on the model's analyses.        *)

\* Two observations at the same distance from seven days, one of them twice,
\* and two that only the unbounded windows admit.
Snapshots == <<
  [age |-> 594800, captured |-> 2, id |-> 1, value |-> 5],
  [age |-> 614800, captured |-> 1, id |-> 2, value |-> Missing],
  [age |-> 594800, captured |-> 2, id |-> 3, value |-> 6],
  [age |-> 3600, captured |-> 0, id |-> 4, value |-> 7],
  [age |-> 3600000, captured |-> 3, id |-> 5, value |-> 8]>>

\* Every order of every subset: what the orders of all begin with.
MCSnapshotLists ==
  {[i \in 1..n |-> Snapshots[order[i]]] : order \in Permutations(1..5), n \in 0..5}

\* A post measured in a window is measured for its whole life too.
MCWindowCalls ==
  {[eligible |-> [w \in Range(recalculationWindowCandidates) |->
                    IF w = unmatchedAgeWindow
                    THEN rest + eligible["day_7"] + eligible["mature"] ELSE eligible[w]],
    adequate |-> 4, minimum |-> 2]
     : eligible \in [{"day_7", "day_30", "mature"} -> {0, 1, 2, 4}], rest \in 0..3}

Seen(value, unit) == [available |-> TRUE, value |-> value, unit |-> unit]
InputObservations == {Missing, Seen(3, "count"), Seen(0, Missing), Seen(Impossible, "count"),
                      Seen(2, "milliseconds"), [Seen(1, "count") EXCEPT !.available = FALSE]}
CountInputs == {"likes", "comments", "shares", "reach"}
InputMaps ==
  {[key \in metricInputKeys |-> IF key \in CountInputs THEN f[key] ELSE Seen(4, "count")]
     : f \in [CountInputs -> InputObservations]}

\* Counts with no duration, saves there throughout; watch times with any.
MCMetricCalls ==
  [metric : {"engagement_count", "engagement_rate_reach"}, values : InputMaps,
   validated : {Missing}, provider : {Missing}]
  \cup [metric : {"average_watch_percentage", "completion_proxy"},
        values : {[key \in metricInputKeys |-> watch]
                    : watch \in InputObservations \cup {Seen(12000, "milliseconds")}},
        validated : {Missing, Impossible, 0, 10, 13}, provider : {Missing, Impossible, 0, 10, 13}]

\* Posts newest first: two copies of one medium, on two accounts.
CohortRows ==
  LET Post(id, media, account, day, rows) ==
        [id |-> id, media |-> media, account |-> account, day |-> day,
         category |-> IF id < 3 THEN "story" ELSE "opinion", snapshots |-> rows]
  IN {<<Post(1, 1, "a", 9, first), Post(2, 1, "b", 9, second), Post(3, 2, "a", 8, first),
        Post(4, 3, "b", 7, second), Post(5, 4, "a", 1, second)>>
        : first, second \in {<<>>, SubSeq(Snapshots, 1, 2), SubSeq(Snapshots, 3, 3)}}

CohortRequests ==
  [account : {"a", Missing}, focal : 1..3, from : {0}, to : {9}, recentDays : {4},
   recentLimit : {1, 2}, limit : {4}, category : {"story", Missing}, window : {"day_7"}]

MCCohortCalls ==
  [kind : {"baseline", "recent", "category"}, request : CohortRequests, posts : CohortRows]

\* Sections in quarter seconds of a video of ten seconds.
Section(first, last) == [start |-> first, end |-> last]
SectionLists ==
  LET sections == {Section(first, last) : first \in {0, 3, 4, 20}, last \in {4, 20, 40, 44}}
  IN {<<a, b, c>> : a, b, c \in sections}

Estimate(value) ==
  [value |-> value, term |-> "none",
   availability |-> IF value = Null THEN "unknown" ELSE "available",
   basis |-> IF value = Null THEN Null ELSE "estimated",
   confidence |-> IF value = Null THEN Null ELSE "low", noted |-> TRUE, limited |-> TRUE,
   timestamps |-> {}]

SomeAnalysis ==
  [schema |-> TRUE, contract |-> FALSE, observations |-> {}, duration |-> Null,
   estimates |-> [p \in estimatedFieldPaths |-> Estimate(Null)], sections |-> Null,
   majorSectionCount |-> Null, cta |-> [present |-> Null, type |-> Null, text |-> Null],
   improvements |-> {}]

Times == {Estimate(v) : v \in {Null, 0, 10, 41, 43}}
Terms ==
  {[Estimate(1) EXCEPT !.term = term, !.noted = noted, !.limited = limited, !.basis = basis]
     : term \in {"unknown", "other"}, noted \in BOOLEAN, limited \in BOOLEAN,
       basis \in {"observed", Null}}
Stamps == [minutes : {0, 1}, seconds : {9, 10, 11, 75}]
CallsToAction == [present : {TRUE, FALSE, Null}, type : {Null, "none", "unknown", "follow"},
                  text : {Null, "blank", "text"}]

\* Lists of sections, and other fields one group at a time.
MCProposedAnalyses ==
  {[SomeAnalysis EXCEPT !.sections = s, !.majorSectionCount = 3] : s \in SectionLists}
  \cup {[SomeAnalysis EXCEPT !.cta = c, !.observations = {o}] : c \in CallsToAction, o \in Terms}
  \cup {[SomeAnalysis EXCEPT
           !.estimates["estimatedAverageShotLengthSeconds"] = shot,
           !.estimates["estimatedCutCount"] = Estimate(cuts),
           !.improvements = {[claims |-> claims, timestamps |-> {stamp}]}]
          : shot \in Times, cuts \in {Null, 0, 5, 90}, claims \in BOOLEAN, stamp \in Stamps}

-----------------------------------------------------------------------------
(* The components side by side.                                            *)

CONSTANT Scenes   \* the components of the run

VARIABLE scene

componentVars == <<analysisVars, statisticVars, strategyVars, chatVars, accessVars, retryVars,
                   ruleCall, judgedAnalysis, uploadClientVars, workerVars>>

\* The choices of a component that is not on are settled; the first calculation
\* found patterns.
Init ==
  /\ scene \in Scenes
  /\ AnalysisInit /\ StatisticsInit /\ StrategyInit /\ ChatInit /\ AccessInit /\ RetryInit
  /\ MeasurementInit /\ ValidationInit /\ UploadClientInit /\ WorkerInit
  /\ scene # "statistics" => scope = Missing
  /\ scene # "strategy" => strategyScope = "pooled"
  /\ activeRun.evidence.statistics # {}

Next ==
  /\ UNCHANGED scene
  /\ \/ /\ scene = "analysis" /\ AnalysisNext
        /\ UNCHANGED <<statisticVars, strategyVars, chatVars, accessVars, retryVars, ruleCall,
                       judgedAnalysis, uploadClientVars, workerVars>>
     \/ /\ scene = "statistics" /\ StatisticsNext
        /\ UNCHANGED <<analysisVars, strategyVars, chatVars, accessVars, retryVars, ruleCall,
                       judgedAnalysis, uploadClientVars, workerVars>>
     \/ /\ scene = "strategy" /\ StrategyNext
        /\ UNCHANGED <<analysisVars, statisticVars, chatVars, accessVars, retryVars, ruleCall,
                       judgedAnalysis, uploadClientVars, workerVars>>
     \/ /\ scene = "chat" /\ ChatNext
        /\ UNCHANGED <<analysisVars, statisticVars, strategyVars, accessVars, retryVars, ruleCall,
                       judgedAnalysis, uploadClientVars, workerVars>>
     \/ /\ scene = "access" /\ AccessNext
        /\ UNCHANGED <<analysisVars, statisticVars, strategyVars, chatVars, retryVars, ruleCall,
                       judgedAnalysis, uploadClientVars, workerVars>>
     \/ /\ scene = "retry" /\ RetryNext
        /\ UNCHANGED <<analysisVars, statisticVars, strategyVars, chatVars, accessVars, ruleCall,
                       judgedAnalysis, uploadClientVars, workerVars>>
     \/ /\ scene = "measurement" /\ MeasurementNext
        /\ UNCHANGED <<analysisVars, statisticVars, strategyVars, chatVars, accessVars, retryVars,
                       judgedAnalysis, uploadClientVars, workerVars>>
     \/ /\ scene = "validation" /\ ValidateAnalysis
        /\ UNCHANGED <<analysisVars, statisticVars, strategyVars, chatVars, accessVars, retryVars,
                       ruleCall, uploadClientVars, workerVars>>
     \/ /\ scene = "upload" /\ UploadClientNext
        /\ UNCHANGED <<analysisVars, statisticVars, strategyVars, chatVars, accessVars, retryVars,
                       ruleCall, judgedAnalysis, workerVars>>
     \/ /\ scene = "worker" /\ WorkerNext
        /\ UNCHANGED <<analysisVars, statisticVars, strategyVars, chatVars, accessVars, retryVars,
                       ruleCall, judgedAnalysis, uploadClientVars>>

Spec == Init /\ [][Next]_<<scene, componentVars>>

-----------------------------------------------------------------------------
(* The instance.                                                           *)

\* sampleThresholds in proportion, for groups of two posts.
MCThresholds ==
  [weak |-> [group |-> 2, comparison |-> 1], moderate |-> [group |-> 2, comparison |-> 1, total |-> 3],
   supported |-> [group |-> 2, comparison |-> 1, weeks |-> 2]]

MCCap == [c \in Range(Categories) |-> IF c = "recent_post" THEN 2 ELSE 1]
MCEligibility == [analyses |-> 2, comparablePosts |-> 2, publicationWeeks |-> 1]

MCStatistic(id, effect, class, members, unstable) ==
  [id |-> id, effect |-> effect, class |-> class, members |-> members, unstable |-> unstable,
   concentrated |-> FALSE, dimension |-> "hook", size |-> 1]
MCPost(id) == [id |-> id, emphasised |-> FALSE, size |-> 1]
\* A calculation with two patterns, one for and one against, one with none, and
\* one whose post alone is over the budget of tokens.
MCEvidence == {
  [statistics |-> {MCStatistic(1, 3, "moderate_association", {1, 2}, FALSE),
                   MCStatistic(2, -2, "weak_directional_signal", {2}, TRUE)},
   posts |-> <<MCPost(1), MCPost(2)>>, weeks |-> 2],
  [statistics |-> {}, posts |-> <<MCPost(3)>>, weeks |-> 1],
  [statistics |-> {}, posts |-> <<[MCPost(4) EXCEPT !.size = TokenBudget + 1]>>, weeks |-> 1]}

\* Two strategies whose manifests name different statistics by the same key.
MCManifests == <<[k \in {"stat_pos_0", "stat_neg_0"} |-> IF k = "stat_pos_0" THEN 1 ELSE 2],
                 [k \in {"stat_pos_0"} |-> 2]>>

\* One of the sweeping schedulers, and the reconciler, which is stopped last.
MCSchedulers == <<"sync", "reconciler">>

\* Slots, turns, browsers and accounts are one set of two, so one exchange; the
\* approved addresses are another.
MCSymmetry == Permutations(Analysers) \cup Permutations(ApprovedEmails)
=============================================================================
