----------------------------- MODULE MetricRules -----------------------------
(***************************************************************************)
(* Derived metrics of a snapshot and the cohort a post is compared with.   *)
(* A measured value is an integer or one of three constants for what has   *)
(* no place in the arithmetic.  Ratios are numerator and denominator.      *)
(***************************************************************************)
EXTENDS Integers, Sequences, FiniteSets, SequencesExt

CONSTANTS
  Missing,      \* null: no value, no duration, no snapshot
  Impossible,   \* negative, not finite, or a count with a fraction
  TooLarge      \* a count beyond the safe integers

-----------------------------------------------------------------------------
(* Metrics.                                                                *)

metricInputKeys == {"likes", "comments", "shares", "saves", "reach", "follows",
                    "profile_visits", "average_watch_time_ms"}

engagementComponents == <<"likes", "comments", "shares", "saves">>

Definition(numerator, denominator, unit) ==
  [numerator |-> numerator, denominator |-> denominator, unit |-> unit]

\* denominator: an input key, "none" or "duration".
derivedMetricDefinitions == [
  engagement_count         |-> Definition(engagementComponents, "none", "count"),
  engagement_rate_reach    |-> Definition(engagementComponents, "reach", "count"),
  like_rate_reach          |-> Definition(<<"likes">>, "reach", "count"),
  comment_rate_reach       |-> Definition(<<"comments">>, "reach", "count"),
  share_rate_reach         |-> Definition(<<"shares">>, "reach", "count"),
  save_rate_reach          |-> Definition(<<"saves">>, "reach", "count"),
  profile_visit_rate_reach |-> Definition(<<"profile_visits">>, "reach", "count"),
  follow_conversion_rate   |-> Definition(<<"follows">>, "profile_visits", "count"),
  follow_rate_reach        |-> Definition(<<"follows">>, "reach", "count"),
  average_watch_percentage |-> Definition(<<"average_watch_time_ms">>, "duration", "milliseconds"),
  completion_proxy         |-> Definition(<<"average_watch_time_ms">>, "duration", "milliseconds")]

\* What is at the given places of a sequence, in order.
Kept(list, places) ==
  [n \in 1..Cardinality(places) |->
     list[CHOOSE i \in places : Cardinality({j \in places : j <= i}) = n]]

isUsableDuration(seconds) == seconds \notin {Missing, Impossible} /\ seconds > 0

NoDuration == [seconds |-> Missing, source |-> Missing, mismatch |-> FALSE, rejected |-> FALSE]

metricDurationToleranceSeconds == 1

\* The source video is believed unless the provider contradicts it.
resolveMetricDuration(validated, provider, tolerance) ==
  LET usable == {s \in {validated, provider} : isUsableDuration(s)}
      differ == validated \in usable /\ provider \in usable
                /\ (validated - provider > tolerance \/ provider - validated > tolerance)
  IN IF usable = {}
     THEN [NoDuration EXCEPT !.rejected = validated # Missing \/ provider # Missing]
     ELSE IF validated \in usable /\ ~differ
       THEN [NoDuration EXCEPT !.seconds = validated, !.source = "validated_source_video"]
       ELSE [NoDuration EXCEPT !.seconds = provider, !.source = "provider_metadata",
                               !.mismatch = differ]

Rejected(reason) == [reason |-> reason, value |-> 0, unit |-> "count"]

\* observation: [available, value, unit] or Missing for a key the snapshot
\* has no entry for; every readable key has a state.
readInputValue(observation) ==
  IF observation = Missing THEN Rejected("component_unavailable")
  ELSE IF ~observation.available \/ observation.value = Missing
    THEN Rejected("component_unavailable")
  ELSE IF observation.value = Impossible
    THEN Rejected("value_rejected")
  ELSE IF observation.value = TooLarge THEN Rejected("not_representable")
  ELSE [reason |-> "none", value |-> observation.value,
        unit |-> IF observation.unit = Missing THEN "count" ELSE observation.unit]

createMetricInputs(observations, duration) ==
  [values |-> [key \in metricInputKeys |-> readInputValue(observations[key])],
   duration |-> duration]

Unavailable(reason) == [reason |-> reason, numerator |-> 0, denominator |-> 1]

\* The sum of a numerator, of at most four components.
Total(inputs, keys) ==
  LET component(i) == IF i \in DOMAIN keys THEN inputs.values[keys[i]].value ELSE 0
  IN component(1) + component(2) + component(3) + component(4)

\* The denominator in the unit of the numerator, or why there is none.
Denominator(definition, inputs) ==
  IF definition.denominator = "none" THEN [reason |-> "none", value |-> 1]
  ELSE IF definition.denominator = "duration"
    THEN [reason |-> IF inputs.duration.seconds # Missing THEN "none"
                     ELSE IF inputs.duration.rejected THEN "duration_not_positive"
                     ELSE "duration_unavailable",
          value |-> IF inputs.duration.seconds # Missing THEN inputs.duration.seconds * 1000
                    ELSE 0]
    ELSE LET state == inputs.values[definition.denominator]
         IN [reason |-> IF state.reason = "component_unavailable" THEN "denominator_unavailable"
                        ELSE IF state.reason # "none" THEN state.reason
                        ELSE IF state.unit # "count" THEN "incompatible_unit"
                        ELSE IF state.value > 0 THEN "none" ELSE "denominator_not_positive",
             value |-> state.value]

\* A mutant of calculateDerivedMetric: what is missing counts as nothing.
calculateMissingAsZero(metric, inputs) ==
  LET definition == derivedMetricDefinitions[metric]
      denominator == Denominator(definition, inputs)
  IN IF denominator.reason # "none" THEN Unavailable(denominator.reason)
     ELSE [reason |-> "none", denominator |-> denominator.value,
           numerator |-> Total(inputs, definition.numerator)]

\* A component in the wrong unit refuses first, then one that is missing (with
\* the reason of the first rejected one if there is one), then the denominator.
calculateDerivedMetric(metric, inputs) ==
  LET definition == derivedMetricDefinitions[metric]
      States == [i \in DOMAIN definition.numerator |-> inputs.values[definition.numerator[i]]]
      missing == {i \in DOMAIN States : States[i].reason # "none"}
      rejected == {i \in missing : States[i].reason # "component_unavailable"}
      denominator == Denominator(definition, inputs)
      numerator == Total(inputs, definition.numerator)
  IN IF \E i \in DOMAIN States : States[i].reason = "none" /\ States[i].unit # definition.unit
     THEN Unavailable("incompatible_unit")
     ELSE IF missing # {}
       THEN Unavailable(IF rejected = {} THEN "component_unavailable"
                                         ELSE States[Min(rejected)].reason)
     ELSE IF denominator.reason # "none" THEN Unavailable(denominator.reason)
     ELSE [reason |-> "none", denominator |-> denominator.value,
           numerator |-> IF metric = "completion_proxy" /\ numerator > denominator.value
                         THEN denominator.value ELSE numerator]

-----------------------------------------------------------------------------
(* The comparable snapshot of a post, and the window a run publishes for.  *)

\* snapshotAgeWindows in order of maturity, in seconds; 0 for no target and
\* NoLimit for no maximum.
NoLimit == 2000000000

snapshotAgeWindows == <<
  [key |-> "import",   target |-> 0,       minimum |-> 0,       maximum |-> 1800],
  [key |-> "hour_1",   target |-> 3600,    minimum |-> 1800,    maximum |-> 7200],
  [key |-> "day_1",    target |-> 86400,   minimum |-> 64800,   maximum |-> 129600],
  [key |-> "day_3",    target |-> 259200,  minimum |-> 216000,  maximum |-> 345600],
  [key |-> "day_7",    target |-> 604800,  minimum |-> 518400,  maximum |-> 777600],
  [key |-> "day_30",   target |-> 2592000, minimum |-> 2160000, maximum |-> 3456000],
  [key |-> "mature",   target |-> 0,       minimum |-> 3456000, maximum |-> NoLimit],
  [key |-> "lifetime", target |-> 0,       minimum |-> 0,       maximum |-> NoLimit]>>

snapshotAgeWindowMaturity(key) ==
  CHOOSE i \in DOMAIN snapshotAgeWindows : snapshotAgeWindows[i].key = key

snapshotAgeWindowFor(key) == snapshotAgeWindows[snapshotAgeWindowMaturity(key)]

Apart(a, b) == IF a < b THEN b - a ELSE a - b

\* A mutant of Prefers: the age decides, and the rows' own order a tie.
PrefersByAge(window, a, b) ==
  IF window.target = 0 THEN a.age > b.age
  ELSE Apart(a.age, window.target) < Apart(b.age, window.target)

\* The sort of selectComparableSnapshot; a candidate is [age, captured, id].
Prefers(window, a, b) ==
  LET first == IF window.target = 0 THEN <<-a.age, a.captured, a.id>>
               ELSE <<Apart(a.age, window.target), a.age, a.captured, a.id>>
      second == IF window.target = 0 THEN <<-b.age, b.captured, b.id>>
                ELSE <<Apart(b.age, window.target), b.age, b.captured, b.id>>
  IN \E i \in DOMAIN first : first[i] < second[i] /\ \A j \in 1..(i - 1) : first[j] = second[j]

WithinWindow(window, age) == window.minimum <= age /\ age <= window.maximum

\* The first row of a stable sort, or Missing.
selectComparableSnapshot(candidates, key) ==
  LET window == snapshotAgeWindowFor(key)
      eligible == {i \in DOMAIN candidates : WithinWindow(window, candidates[i].age)}
      Precedes(j, i) == \/ Prefers(window, candidates[j], candidates[i])
                        \/ j < i /\ ~Prefers(window, candidates[i], candidates[j])
  IN IF eligible = {} THEN Missing
     ELSE candidates[CHOOSE i \in eligible : \A j \in eligible : ~Precedes(j, i)]

\* recalculationWindowCandidates, and the one that matches no ages.
recalculationWindowCandidates == <<"day_7", "day_30", "mature", "lifetime">>
unmatchedAgeWindow == "lifetime"

\* eligible: [candidate windows -> number of posts measured in the window].
mostMature(windows) ==
  CHOOSE w \in windows : \A v \in windows :
    snapshotAgeWindowMaturity(v) <= snapshotAgeWindowMaturity(w)

widest(windows, eligible) ==
  mostMature({w \in windows : \A v \in windows : eligible[v] <= eligible[w]})

\* A mutant of selectAnalyticsAgeWindow: the largest sample wins.
selectWidestWindow(eligible, adequate, minimum) ==
  LET measured == {w \in DOMAIN eligible : eligible[w] > 0}
  IN IF measured = {} THEN Missing ELSE widest(measured, eligible)

selectAnalyticsAgeWindow(eligible, adequate, minimum) ==
  LET measured == {w \in DOMAIN eligible : eligible[w] > 0}
      matched == measured \ {unmatchedAgeWindow}
      covered == {w \in matched : eligible[w] >= adequate}
      usable == {w \in matched : eligible[w] >= minimum}
      atBest == IF unmatchedAgeWindow \notin measured THEN measured
                ELSE {w \in matched : eligible[w] >= eligible[unmatchedAgeWindow]}
  IN IF measured = {} THEN Missing
     ELSE IF covered # {} THEN mostMature(covered)
     ELSE IF usable # {} THEN widest(usable, eligible)
     ELSE IF atBest # {} THEN widest(atBest, eligible)
     ELSE unmatchedAgeWindow

-----------------------------------------------------------------------------
(* Medians, in quarters so that every percentile asked for is whole.       *)

\* Of a sequence, or of any function with a finite domain: at place i the
\* value that fewer than i values are below and at least i are not above.
ascending(values) ==
  [i \in 1..Cardinality(DOMAIN values) |->
     CHOOSE v \in Range(values) :
       /\ Cardinality({j \in DOMAIN values : values[j] < v}) < i
       /\ i <= Cardinality({j \in DOMAIN values : values[j] <= v})]

\* percentile(sorted, q/4) times 4; the median is q = 2.
percentile(sorted, q) ==
  LET position == (Len(sorted) - 1) * q
      lower == position \div 4
      value == sorted[lower + 1]
  IN IF sorted = <<>> THEN Missing
     ELSE IF position % 4 = 0 THEN 4 * value
     ELSE 4 * value + (sorted[lower + 2] - value) * (position % 4)

median(values) == percentile(ascending(values), 2)

summariseSpread(values) ==
  LET sorted == ascending(values)
  IN [count |-> Len(values), median |-> percentile(sorted, 2),
      firstQuartile |-> percentile(sorted, 1), thirdQuartile |-> percentile(sorted, 3)]

\* reason, and what the focal value is over the baseline (in quarters).
compareToBaseline(focal, values) ==
  LET baseline == median(values)
  IN [baseline |-> baseline,
      reason |-> IF focal = Missing THEN "focal_value_unavailable"
                 ELSE IF baseline = Missing THEN "no_comparison_values"
                 ELSE IF baseline <= 0 THEN "baseline_not_positive" ELSE "available",
      difference |-> IF focal = Missing \/ baseline = Missing THEN Missing
                     ELSE 4 * focal - baseline]

-----------------------------------------------------------------------------
(* A cohort.  posts is the query's answer, newest first; a post is         *)
(* [id, media, account, day, category, snapshots] and a snapshot [age,     *)
(* captured, id, value], value what calculateDerivedMetric makes of it or  *)
(* Missing.                                                                *)

\* A mutant of dedupeCollaboratorPosts: both copies stay.
keepCollaboratorPosts(posts) == posts

\* The first copy of a media item stays.
dedupeCollaboratorPosts(posts) ==
  Kept(posts, {i \in DOMAIN posts : \A j \in 1..(i - 1) : posts[j].media # posts[i].media})

resolvePublishedFrom(kind, request) ==
  IF kind = "recent" /\ request.to - request.recentDays > request.from
    THEN request.to - request.recentDays ELSE request.from

FirstRows(limit, posts) == Kept(posts, {i \in DOMAIN posts : i <= limit})

CohortPosts(kind, request, posts) ==
  LET from == resolvePublishedFrom(kind, request)
      found == Kept(posts, {i \in DOMAIN posts :
                 /\ request.account \in {Missing, posts[i].account}
                 /\ from <= posts[i].day /\ posts[i].day <= request.to
                 /\ kind = "category" /\ request.category # Missing =>
                      posts[i].category = request.category})
      page == FirstRows(IF kind = "recent" THEN request.recentLimit + 1 ELSE request.limit, found)
      all == IF request.account = Missing THEN dedupeCollaboratorPosts(page) ELSE page
      eligible == Kept(all, {i \in DOMAIN all : all[i].id # request.focal})
  IN IF kind = "recent" THEN FirstRows(request.recentLimit, eligible) ELSE eligible

loadCohort(kind, request, posts) ==
  LET bounded == CohortPosts(kind, request, posts)
      seen == Kept(bounded, {i \in DOMAIN bounded :
                selectComparableSnapshot(bounded[i].snapshots, request.window) # Missing})
      members == Kept(seen, {i \in DOMAIN seen :
                   selectComparableSnapshot(seen[i].snapshots, request.window).value # Missing})
  IN [members |-> [i \in DOMAIN members |-> members[i].id],
      values |-> [i \in DOMAIN members |->
                    selectComparableSnapshot(members[i].snapshots, request.window).value],
      eligiblePosts |-> Len(bounded),
      postsMissingSnapshot |-> Len(bounded) - Len(seen),
      postsMissingMetric |-> Len(seen) - Len(members)]

loadPostMetricValue(post, window) ==
  LET chosen == selectComparableSnapshot(post.snapshots, window)
  IN IF chosen = Missing THEN Missing ELSE chosen.value

comparePostToCohort(kind, request, posts, focal) ==
  compareToBaseline(loadPostMetricValue(focal, request.window),
                    loadCohort(kind, request, posts).values)

-----------------------------------------------------------------------------
(* The rules as they are called: a behaviour is one call, and what it was  *)
(* called with stays in the state.                                         *)

CONSTANTS
  SnapshotLists,   \* what queries answer of the snapshots of a post
  WindowCalls,     \* [eligible, adequate, minimum]
  MetricCalls,     \* [metric, values, validated, provider]
  CohortCalls      \* [kind, request, posts]

IsList(list) == Len(list) \in Nat /\ DOMAIN list = 1..Len(list)

\* An id names one row.
IsSnapshotList(rows) ==
  /\ IsList(rows)
  /\ \A i \in DOMAIN rows : /\ rows[i] # Missing
                            /\ rows[i].age \in Nat /\ rows[i].captured \in Nat
                            /\ rows[i].id \in Nat
  /\ \A i, j \in DOMAIN rows : rows[i].id = rows[j].id => rows[i] = rows[j]

\* An account has a medium once: @@unique([instagramAccountId, providerMediaId]).
IsPostList(posts) ==
  /\ IsList(posts)
  /\ \A i, j \in DOMAIN posts : i # j =>
       /\ posts[i].id # posts[j].id
       /\ posts[i].account = posts[j].account => posts[i].media # posts[j].media

ASSUME MeasurementAssumption ==
  /\ \A rows \in SnapshotLists : IsSnapshotList(rows)
  /\ Missing \notin Range(recalculationWindowCandidates)
  /\ \A call \in WindowCalls :
       /\ call.eligible \in [Range(recalculationWindowCandidates) -> Nat]
       /\ call.minimum \in Nat \ {0} /\ call.adequate \in Nat
       /\ call.minimum <= call.adequate
  /\ \A call \in MetricCalls :
       /\ call.metric \in DOMAIN derivedMetricDefinitions
       /\ \A key \in metricInputKeys :
            \/ call.values[key] = Missing
            \/ call.values[key].value \in Nat \cup {Missing, Impossible, TooLarge}
       /\ {call.validated, call.provider} \subseteq Nat \cup {Missing, Impossible}
  /\ \A call \in CohortCalls : IsPostList(call.posts)

VARIABLE ruleCall   \* the last call

MeasurementInit == ruleCall = [rule |-> "none", call |-> Missing]

SelectSnapshot ==
  \E rows \in SnapshotLists, i \in DOMAIN snapshotAgeWindows :
    ruleCall' = [rule |-> "snapshot",
                 call |-> [rows |-> rows, window |-> snapshotAgeWindows[i].key]]
SelectWindow == \E call \in WindowCalls : ruleCall' = [rule |-> "window", call |-> call]
CalculateMetric == \E call \in MetricCalls : ruleCall' = [rule |-> "metric", call |-> call]
LoadCohort == \E call \in CohortCalls : ruleCall' = [rule |-> "cohort", call |-> call]

MeasurementNext ==
  /\ ruleCall.rule = "none"
  /\ SelectSnapshot \/ SelectWindow \/ CalculateMetric \/ LoadCohort

MeasurementSpec == MeasurementInit /\ [][MeasurementNext]_ruleCall

-----------------------------------------------------------------------------
(* Properties.                                                             *)

\* The observation that stands for a post does not depend on the order its
\* rows came in, lies in the window, and none of the window is nearer its target.
SnapshotNeedsNoOrder ==
  ruleCall.rule = "snapshot" =>
    LET rows == ruleCall.call.rows
        chosen == selectComparableSnapshot(rows, ruleCall.call.window)
        window == snapshotAgeWindowFor(ruleCall.call.window)
        inside == {r \in Range(rows) : WithinWindow(window, r.age)}
    IN /\ chosen = Missing <=> inside = {}
       /\ \A other \in SnapshotLists : Range(other) = Range(rows) =>
            selectComparableSnapshot(other, ruleCall.call.window) = chosen
       /\ chosen # Missing =>
            /\ chosen \in inside
            /\ window.target # 0 => \A r \in inside :
                 Apart(chosen.age, window.target) <= Apart(r.age, window.target)

\* Ages are mixed only when no window of matched ages holds the minimum, and one
\* that is covered is left only for a more mature one that is covered too.
WindowsMatchAges ==
  ruleCall.rule = "window" =>
    LET call == ruleCall.call
        e == call.eligible
        chosen == selectAnalyticsAgeWindow(e, call.adequate, call.minimum)
        matched == DOMAIN e \ {unmatchedAgeWindow}
    IN /\ chosen = Missing <=> \A w \in DOMAIN e : e[w] = 0
       /\ chosen = unmatchedAgeWindow => \A w \in matched : e[w] < call.minimum
       /\ chosen \in matched => \A w \in matched :
            e[w] >= call.adequate =>
              /\ e[chosen] >= call.adequate
              /\ snapshotAgeWindowMaturity(w) <= snapshotAgeWindowMaturity(chosen)

\* A metric has a value only if each of its parts was measured, in its unit, and
\* what it is divided by is positive: what is missing never counts as nothing.
MetricsAreMeasured ==
  ruleCall.rule = "metric" =>
    LET call == ruleCall.call
        inputs == createMetricInputs(call.values,
                    resolveMetricDuration(call.validated, call.provider,
                                          metricDurationToleranceSeconds))
        result == calculateDerivedMetric(call.metric, inputs)
        definition == derivedMetricDefinitions[call.metric]
        Usable(key) == inputs.values[key].reason = "none"
                       /\ inputs.values[key].unit = definition.unit
    IN result.reason = "none" =>
         /\ \A key \in Range(definition.numerator) : Usable(key)
         /\ definition.denominator \in metricInputKeys => Usable(definition.denominator)
         /\ result.denominator > 0 /\ result.numerator >= 0
         /\ call.metric = "completion_proxy" => result.numerator <= result.denominator

\* A cohort has a video once however many accounts share it, never the post it
\* is compared with, and accounts for every post it left out.
CohortsCountOnce ==
  ruleCall.rule = "cohort" =>
    LET call == ruleCall.call
    IN \A cohort \in {loadCohort(call.kind, call.request, call.posts)} :
         /\ IsInjective([i \in DOMAIN cohort.members |->
                           (CHOOSE p \in Range(call.posts) : p.id = cohort.members[i]).media])
         /\ call.request.focal \notin Range(cohort.members)
         /\ Len(cohort.members) + cohort.postsMissingSnapshot + cohort.postsMissingMetric
              = cohort.eligiblePosts
         /\ \A focal \in Range(call.posts) :
              comparePostToCohort(call.kind, call.request, call.posts, focal).baseline
                = summariseSpread(cohort.values).median

\* A value in analytics is one measurement of one video at a comparable age.
MeasurementsAreComparable ==
  /\ SnapshotNeedsNoOrder
  /\ WindowsMatchAges
  /\ MetricsAreMeasured
  /\ CohortsCountOnce
=============================================================================
