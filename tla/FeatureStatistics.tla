--------------------------- MODULE FeatureStatistics ---------------------------
(***************************************************************************)
(* The association between a feature and a metric: two groups of values,   *)
(* the checks in the contract's order, and the class that comes out.  The  *)
(* bootstrap is abstracted to its outcome, an interval for each of the two *)
(* confidences; ratios are compared by cross multiplication, in percent.   *)
(* Then what successive calculations of one scope publish, for one metric  *)
(* and one feature.  Statistics are rows that are never updated; a         *)
(* calculation reuses the row that has its fingerprint.  AnalyticsRuns has *)
(* the interleaving of the runs; here one run of the scope follows another *)
(* and posts are measured and analysed at any time.                        *)
(***************************************************************************)
EXTENDS MetricRules

CONSTANTS
  sampleThresholds,         \* [weak, moderate, supported : [group, comparison, ...]]
  minimumPublicationDates   \* both as the code's, scaled down for TLC

ASSUME ThresholdsAssumption ==
  /\ sampleThresholds.weak.group <= sampleThresholds.moderate.group
  /\ sampleThresholds.moderate.group <= sampleThresholds.supported.group
  /\ sampleThresholds.weak.comparison <= sampleThresholds.moderate.comparison
  /\ sampleThresholds.moderate.comparison <= sampleThresholds.supported.comparison

practicalEffectPercent == 10
maximumMissingPercent == 40
falseDiscoveryPercent == 10
maximumPooledSourcePercent == 70

Sign(n) == IF n > 0 THEN 1 ELSE IF n < 0 THEN -1 ELSE 0
Abs(n) == IF n < 0 THEN -n ELSE n

\* |group - comparison| / |comparison| is at least percent; both in quarters.
EffectAtLeast(group, comparison, percent) ==
  comparison # 0 /\ 100 * Abs(group - comparison) >= percent * Abs(comparison)

\* A mutant of evaluateSensitivity: only the best post is taken out.
evaluateWithoutBest(group, comparison) ==
  LET base == median(comparison)
      without == median(RemoveAt(ascending(group), Len(group)))
  IN IF comparison = <<>> \/ Len(group) < 2
     THEN [preservesDirection |-> FALSE, keepsHalfEffect |-> FALSE, trimmedPreserves |-> Missing]
     ELSE [preservesDirection |-> Sign(without - base) = Sign(median(group) - base),
           keepsHalfEffect |-> EffectAtLeast(without, base, practicalEffectPercent \div 2),
           trimmedPreserves |-> Missing]

\* Leave-one-out, and without the best and the worst from four values on.
evaluateSensitivity(group, comparison) ==
  LET base == median(comparison)
      sign == Sign(median(group) - base)
      refits == {median(RemoveAt(group, i)) : i \in DOMAIN group}
      trimmed == median(SubSeq(ascending(group), 2, Len(group) - 1))
  IN IF comparison = <<>> \/ Len(group) < 2
     THEN [preservesDirection |-> FALSE, keepsHalfEffect |-> FALSE, trimmedPreserves |-> Missing]
     ELSE [preservesDirection |-> \A refit \in refits : Sign(refit - base) = sign,
           keepsHalfEffect |-> \A refit \in refits :
                                 EffectAtLeast(refit, base, practicalEffectPercent \div 2),
           trimmedPreserves |-> IF Len(group) < 4 THEN Missing ELSE Sign(trimmed - base) = sign]

\* Some value is more than half of the total of what is not negative.
topPostDominates(values) ==
  LET counted == SelectSeq(values, LAMBDA v : v >= 0)
      total == FoldSeq(LAMBDA v, sum : v + sum, 0, counted)
  IN total > 0 /\ \E i \in DOMAIN counted : 2 * counted[i] > total

MeetsSamples(threshold, group, comparison) ==
  Len(group) >= threshold.group /\ Len(comparison) >= threshold.comparison

Settle(class, reason, interval) ==
  [classification |-> class, reason |-> reason, interval |-> interval]

\* excludesNoDifference of an interval [confidence, lower, upper].
excludesNoDifference(interval) ==
  (interval.lower > 0 /\ interval.upper > 0) \/ (interval.lower < 0 /\ interval.upper < 0)

\* input: [group, comparison, dates, weeks, missing, isCount, dominated,
\* clusters, survives]; missing in percent, survives TRUE, FALSE or Missing.
\* bootstrap: the 95 and the 80 percent interval of the seeded resamples.
calculateFeatureStatistic(input, bootstrap) ==
  LET g == input.group
      c == input.comparison
      sensitivity == evaluateSensitivity(g, c)
      supported == MeetsSamples(sampleThresholds.supported, g, c)
                   /\ input.weeks >= sampleThresholds.supported.weeks
                   /\ excludesNoDifference(bootstrap.supported)
      moderate == MeetsSamples(sampleThresholds.moderate, g, c)
                  /\ Len(g) + Len(c) >= sampleThresholds.moderate.total
                  /\ excludesNoDifference(bootstrap.moderate)
      Answer(class, reason) == Settle(class, reason, Missing)
      WithSupported(class, reason) == Settle(class, reason, bootstrap.supported)
      WithModerate(class, reason) == Settle(class, reason, bootstrap.moderate)
  IN IF Len(g) = 1 THEN Answer("single_post_outlier", "single_eligible_post")
     ELSE IF ~MeetsSamples(sampleThresholds.weak, g, c)
       THEN Answer("insufficient_evidence", "below_minimum_samples")
     ELSE IF input.dates < minimumPublicationDates
       THEN Answer("insufficient_evidence", "few_publication_dates")
     ELSE IF input.missing > maximumMissingPercent
       THEN Answer("insufficient_evidence", "missingness_too_high")
     ELSE IF input.isCount /\ topPostDominates(g)
       THEN Answer("single_post_outlier", "top_post_dominates_total")
     ELSE IF ~sensitivity.preservesDirection
       THEN Answer("single_post_outlier", "sensitivity_changes_materiality")
     ELSE IF ~EffectAtLeast(median(g), median(c), practicalEffectPercent)
       THEN Answer("weak_directional_signal", "effect_below_threshold")
     ELSE IF input.dominated
       THEN Answer("weak_directional_signal", "one_source_dominates_sample")
     ELSE IF supported
       THEN IF input.clusters
              THEN WithSupported("moderate_association", "interval_ignores_clustering")
            ELSE IF input.survives = FALSE
              THEN WithSupported("moderate_association", "multiple_testing_rejected")
            ELSE IF sensitivity.keepsHalfEffect /\ sensitivity.trimmedPreserves # FALSE
              THEN WithSupported("statistically_supported_association",
                                 "meets_supported_thresholds")
            ELSE WithSupported("moderate_association", "sensitivity_changes_materiality")
     ELSE IF moderate THEN WithModerate("moderate_association", "meets_moderate_thresholds")
     ELSE WithModerate("weak_directional_signal",
                       IF excludesNoDifference(bootstrap.moderate) THEN "below_minimum_samples"
                       ELSE "interval_includes_no_difference")

-----------------------------------------------------------------------------
(* The family of one metric, corrected together.                           *)

\* benjaminiHochberg on p-values p/of, at falseDiscoveryPercent: the ranks up
\* to the last one that is under its own threshold survive.
benjaminiHochberg(pValues) ==
  LET n == Len(pValues)
      order == SetToSortSeq(DOMAIN pValues, LAMBDA i, j :
                 LET l == pValues[i].p * pValues[j].of
                     r == pValues[j].p * pValues[i].of
                 IN l < r \/ (l = r /\ i < j))
      under == {rank \in 1..n :
                  100 * n * pValues[order[rank]].p
                    <= rank * falseDiscoveryPercent * pValues[order[rank]].of}
  IN [i \in 1..n |-> \E rank \in under : \E k \in 1..rank : order[k] = i]

\* 0.05 / (1 + distance / width) for an interval that excludes no difference.
pseudoPValue(interval) ==
  LET distance == IF Abs(interval.lower) < Abs(interval.upper) THEN Abs(interval.lower)
                  ELSE Abs(interval.upper)
      width == Abs(interval.upper - interval.lower)
  IN IF ~excludesNoDifference(interval) THEN [p |-> 1, of |-> 1]
     ELSE IF width = 0 THEN [p |-> IF distance > 0 THEN 0 ELSE 1, of |-> 1]
     ELSE [p |-> 5 * width, of |-> 100 * (width + distance)]

\* Only what reaches the supported class in the first pass is corrected.
\* inputs and bootstraps are indexed alike.
calculateFeatureFamily(inputs, bootstraps) ==
  LET First == [i \in DOMAIN inputs |->
                  calculateFeatureStatistic([inputs[i] EXCEPT !.survives = Missing],
                                            bootstraps[i])]
      family == SetToSortSeq({i \in DOMAIN inputs : First[i].classification
                                = "statistically_supported_association"},
                             LAMBDA i, j : i < j)
      survives == benjaminiHochberg([k \in DOMAIN family |-> pseudoPValue(First[family[k]].interval)])
  IN [i \in DOMAIN inputs |->
        IF \E k \in DOMAIN family : family[k] = i
        THEN calculateFeatureStatistic(
               [inputs[i] EXCEPT !.survives = survives[CHOOSE k \in DOMAIN family : family[k] = i]],
               bootstraps[i])
        ELSE First[i]]

\* What is stored beside the interval.
intervalConfidence(statistic) ==
  IF statistic.classification = "statistically_supported_association" THEN 95 ELSE 80

-----------------------------------------------------------------------------
(* The calculations of a scope.                                            *)

CONSTANTS
  Posts, Accounts, FeatureValues,
  MetricValues,      \* the values a measurement may have
  MaxRevisions,      \* analyses of a post
  MaxRuns

ASSUME StatisticsAssumption ==
  /\ MaxRevisions \in Nat /\ MaxRuns \in Nat /\ IsFiniteSet(Posts)
  /\ MetricValues \subseteq Int

VARIABLES
  scope,         \* an account, or Missing when accounts are pooled
  measuredPost,  \* [Posts -> the post as loadAnalyticsInputs would read it]
  statistics,    \* sequence of account_feature_statistics rows
  calculation,   \* the run in progress
  published      \* statistic ids of the ACTIVE run; Missing before the first

statisticVars == <<scope, measuredPost, statistics, calculation, published>>

NoPost == [measured |-> FALSE, account |-> Missing, value |-> 0, feature |-> Missing,
           revision |-> 0]
NoCalculation == [pc |-> "idle", runs |-> 0, todo |-> <<>>, set |-> {}, read |-> {}]

StatisticsInit ==
  /\ scope \in Accounts \cup {Missing}
  /\ measuredPost = [p \in Posts |-> NoPost]
  /\ statistics = <<>> /\ calculation = NoCalculation /\ published = Missing

\* An imported post has its snapshot and its first analysis; each later
\* analysis is a row of its own.  A feature the model did not report is Missing.
AnalysePost(p, a, v, f) ==
  /\ scope \in {a, Missing} /\ measuredPost[p].revision < MaxRevisions
  /\ measuredPost[p].measured => measuredPost[p].account = a /\ measuredPost[p].value = v
  /\ measuredPost' = [measuredPost EXCEPT ![p] =
       [measured |-> TRUE, account |-> a, value |-> v, feature |-> f, revision |-> @.revision + 1]]
  /\ UNCHANGED <<scope, statistics, calculation, published>>

-----------------------------------------------------------------------------
(* One calculation.                                                        *)

Observation(p) == [post |-> p, account |-> measuredPost[p].account,
                   value |-> measuredPost[p].value, revision |-> measuredPost[p].revision]

\* A candidate for every value of the feature, when there are two of them.
buildFeatureRequests ==
  LET measured == {p \in Posts : measuredPost[p].measured}
      known == {p \in measured : measuredPost[p].feature # Missing}
      values == {measuredPost[p].feature : p \in known}
      With(v) == {p \in known : measuredPost[p].feature = v}
  IN IF Cardinality(values) < 2 THEN {}
     ELSE {[feature |-> v, missingCount |-> Cardinality(measured \ known),
            group |-> {Observation(p) : p \in With(v)},
            comparison |-> {Observation(p) : p \in known \ With(v)}] : v \in values}

ValuesOf(side) == ascending([o \in side |-> o.value])

\* Rounded up, so that it is over a whole percentage when the ratio is.
missingPercentOf(candidate) ==
  LET eligible == Cardinality(candidate.group) + Cardinality(candidate.comparison)
                  + candidate.missingCount
  IN (100 * candidate.missingCount + eligible - 1) \div eligible

\* dominantSourceShare above maximumPooledSourceShare.
Dominated(side) ==
  \E a \in Accounts : 100 * Cardinality({o \in side : o.account = a})
                        > maximumPooledSourcePercent * Cardinality(side)

\* Every post has a publication date and week of its own here.
StatisticInput(candidate) ==
  [group |-> ValuesOf(candidate.group), comparison |-> ValuesOf(candidate.comparison),
   dates |-> Cardinality(candidate.group), weeks |-> Cardinality(candidate.group),
   missing |-> missingPercentOf(candidate), isCount |-> FALSE,
   dominated |-> scope = Missing /\ (Dominated(candidate.group) \/ Dominated(candidate.comparison)),
   clusters |-> scope = Missing, survives |-> Missing]

\* The seed comes from the values, so equal inputs have equal intervals.  The
\* widest interval resamples can give stands for 95 percent and the observed
\* difference, in quarters, for 80.
bootstrapMedianDifference(input) ==
  LET g == input.group
      c == input.comparison
      difference == median(g) - median(c)
  IN [supported |-> [confidence |-> 95, lower |-> 4 * (g[1] - c[Len(c)]),
                     upper |-> 4 * (g[Len(g)] - c[1])],
      moderate |-> [confidence |-> 80, lower |-> difference, upper |-> difference]]

\* A mutant of createStatisticFingerprint: the posts compared with are left out.
FingerprintOfGroup(candidate) == <<candidate.feature, candidate.group>>

\* The posts, snapshots and analyses of both sides; not the posts without the
\* feature, nor the rest of the family.
createStatisticFingerprint(candidate) ==
  <<candidate.feature, candidate.group, candidate.comparison>>

BeginCalculation ==
  LET requests == SetToSeq(buildFeatureRequests)
      inputs == [i \in DOMAIN requests |-> StatisticInput(requests[i])]
      results == calculateFeatureFamily(inputs,
                   [i \in DOMAIN inputs |-> bootstrapMedianDifference(inputs[i])])
  IN /\ calculation.pc = "idle" /\ calculation.runs < MaxRuns /\ requests # <<>>
     /\ calculation' = [pc |-> "store", runs |-> calculation.runs + 1, set |-> {}, read |-> Range(requests),
                        todo |-> [i \in DOMAIN requests |->
                                    [candidate |-> requests[i], statistic |-> results[i]]]]
     /\ UNCHANGED <<scope, measuredPost, statistics, published>>

\* storeFeatureStatistics, one comparison at a time: an existing row is
\* published as it is, whatever this calculation made of it.
StoreStatistic ==
  LET entry == Head(calculation.todo)
      print == createStatisticFingerprint(entry.candidate)
      existing == {id \in DOMAIN statistics : statistics[id].fingerprint = print}
      row == [fingerprint |-> print, feature |-> entry.candidate.feature,
              group |-> entry.candidate.group, comparison |-> entry.candidate.comparison,
              classification |-> entry.statistic.classification,
              interval |-> entry.statistic.interval,
              intervalConfidence |-> intervalConfidence(entry.statistic)]
  IN /\ calculation.pc = "store" /\ calculation.todo # <<>>
     /\ statistics' = IF existing = {} THEN Append(statistics, row) ELSE statistics
     /\ calculation' = [calculation EXCEPT
          !.todo = Tail(@),
          !.set = @ \cup (IF existing = {} THEN {Len(statistics) + 1} ELSE existing)]
     /\ UNCHANGED <<scope, measuredPost, published>>

ActivateRun ==
  /\ calculation.pc = "store" /\ calculation.todo = <<>>
  /\ published' = [set |-> calculation.set, read |-> calculation.read]
  /\ calculation' = [NoCalculation EXCEPT !.runs = calculation.runs]
  /\ UNCHANGED <<scope, measuredPost, statistics>>

StatisticsNext ==
  \/ \E p \in Posts, a \in Accounts, v \in MetricValues, f \in FeatureValues \cup {Missing} :
       AnalysePost(p, a, v, f)
  \/ BeginCalculation \/ StoreStatistic \/ ActivateRun

StatisticsSpec == StatisticsInit /\ [][StatisticsNext]_statisticVars

-----------------------------------------------------------------------------
(* Properties.                                                             *)

\* Whatever earlier runs stored, the set a run publishes has exactly one
\* statistic for each comparison it was asked, and that row names the posts
\* and analyses this run read on both sides (the contributors a reader opens).
PublishedContributorsAreCurrent ==
  published # Missing =>
    \A candidate \in published.read :
      Cardinality({id \in published.set :
        /\ statistics[id].feature = candidate.feature
        /\ statistics[id].group = candidate.group
        /\ statistics[id].comparison = candidate.comparison}) = 1

\* A strong class is never carried by one post: without any one post of the
\* group the difference has the same direction, and with at least
\* practicalEffectThreshold over the whole group.
StrongClassesSurviveLeaveOneOut ==
  \A id \in DOMAIN statistics :
    LET row == statistics[id]
        Median(side) == median(ValuesOf(side))
        base == Median(row.comparison)
    IN row.classification \in {"moderate_association", "statistically_supported_association"} =>
         /\ EffectAtLeast(Median(row.group), base, practicalEffectPercent)
         /\ \A o \in row.group :
              Sign(Median(row.group \ {o}) - base) = Sign(Median(row.group) - base)
=============================================================================
