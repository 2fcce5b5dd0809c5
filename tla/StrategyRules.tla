----------------------------- MODULE StrategyRules -----------------------------
(***************************************************************************)
(* What decides a strategy: eligibility of the scope, the retrieval that   *)
(* freezes evidence into a manifest, and the validation of what the model  *)
(* answers against that manifest.  Text is a record of its word and its    *)
(* spelling, or of what makes it unsafe; sizes are in tokens.              *)
(***************************************************************************)
EXTENDS NullValue, Integers, Sequences, FiniteSets, SequencesExt

CONSTANTS
  EligibilityThresholds,   \* [analyses, comparablePosts, publicationWeeks]
  CategoryCap,     \* strategyEvidenceCaps
  PostsCap,        \* strategyManifestCaps.posts
  StatisticsCap,   \* strategyManifestCaps.statistics
  TokenBudget      \* strategyInputTokenBudget

\* The categories in their order of precedence.
Categories ==
  <<"positive_statistic", "negative_statistic", "counterexample", "top_post", "weak_post",
    "recent_post", "comparator_post", "distribution", "recent_strategy", "data_quality">>

\* Every kind of evidence has room for an item, and evidence-led has evidence.
ASSUME RetrievalAssumption ==
  /\ \A c \in Range(Categories) : CategoryCap[c] \in Nat \ {0}
  /\ PostsCap \in Nat \ {0} /\ StatisticsCap \in Nat \ {0} /\ TokenBudget \in Nat
  /\ EligibilityThresholds.comparablePosts \in Nat \ {0}

-----------------------------------------------------------------------------
(* Eligibility.                                                            *)

\* The refusal, or the mode.
EvaluateEligibility(in) ==
  IF in.scope = Null THEN "account_not_found"
  ELSE IF ~in.metricDerived THEN "metric_not_comparable"
  ELSE IF in.analysed = 0 THEN "no_analysed_posts"
  ELSE IF in.run = Null THEN "no_active_calculation"
  ELSE IF in.dirty THEN "stale_calculation"
  ELSE IF /\ in.analysed >= EligibilityThresholds.analyses
          /\ in.comparable >= EligibilityThresholds.comparablePosts
          /\ in.weeks >= EligibilityThresholds.publicationWeeks THEN "evidence_led"
  ELSE IF in.acceptExploratory THEN "exploratory" ELSE "exploratory_not_confirmed"

Eligible(verdict) == verdict \in {"evidence_led", "exploratory"}

-----------------------------------------------------------------------------
(* Retrieval.                                                              *)

CategoryOrder(category) == CHOOSE i \in DOMAIN Categories : Categories[i] = category

\* A statistic undercut by an outlier is evidence against, never for.
StatisticCandidate(s) ==
  LET undercuts == s.unstable \/ s.concentrated \/ s.class = "single_post_outlier"
  IN [category |-> IF undercuts THEN "counterexample"
                   ELSE IF s.effect # Null /\ s.effect < 0 THEN "negative_statistic"
                   ELSE "positive_statistic",
      type |-> "feature_statistic", ref |-> s.id, posts |-> s.members,
      score |-> IF s.effect = Null THEN Null ELSE IF s.effect < 0 THEN -s.effect ELSE s.effect,
      roles |-> IF undercuts THEN {"counterexample", "context"} ELSE {"supporting", "context"},
      class |-> s.class, dimensions |-> {s.dimension}, required |-> FALSE, size |-> s.size]

\* The i-th newest of the posts the run covers.
PostCandidate(p, i) ==
  [category |-> IF p.emphasised THEN "comparator_post" ELSE "recent_post",
   type |-> "post", ref |-> p.id, posts |-> {p.id}, score |-> -i, roles |-> {"context"},
   class |-> Null, dimensions |-> {"content_pillar"}, required |-> FALSE, size |-> p.size]

RecentStrategyCandidate(g, i) ==
  [category |-> "recent_strategy", type |-> "recent_recommendation", ref |-> g, posts |-> {},
   score |-> -i, roles |-> {"context"}, class |-> Null, dimensions |-> {}, required |-> FALSE,
   size |-> 1]

\* What the calculation covers must be said in the limitations.
CoverageCandidate ==
  [category |-> "data_quality", type |-> "data_quality", ref |-> Null, posts |-> {},
   score |-> Null, roles |-> {"limitation"}, class |-> Null, dimensions |-> {},
   required |-> TRUE, size |-> 1]

\* loadStrategyEvidenceCandidates: statistics is a set; posts, newest first, is
\* cut at the cap of the manifest, and three earlier strategies are recalled.
EvidenceCandidates(statistics, posts, priors) ==
  {StatisticCandidate(s) : s \in statistics}
    \cup {PostCandidate(posts[i], i) : i \in {k \in DOMAIN posts : k <= PostsCap}}
    \cup {RecentStrategyCandidate(priors[i], i) : i \in {k \in DOMAIN priors : k <= 3}}
    \cup {CoverageCandidate}

ComparablePosts(statistics) == UNION {s.members : s \in statistics}

\* compareCandidates inside a category, the precedence of categories outside.
Before(a, b) ==
  LET score(c) == IF c.score = Null THEN -1000 ELSE c.score
  IN \/ CategoryOrder(a.category) < CategoryOrder(b.category)
     \/ /\ a.category = b.category
        /\ \/ score(a) > score(b)
           \/ score(a) = score(b) /\ a.ref # Null /\ a.ref < b.ref

IsPost(c) == c.type \in {"post", "post_analysis"}
IsStatistic(c) == c.type = "feature_statistic"

\* The same record twice, a full category or kind, or a post that a statistic
\* or another entry already carries.
Refused(acc, c) ==
  LET taken(T(_)) == Cardinality({i \in DOMAIN acc : T(acc[i])})
      same(e) == e.type = c.type /\ e.ref = c.ref
      inCategory(e) == e.category = c.category
  IN \/ taken(same) > 0
     \/ taken(inCategory) >= CategoryCap[c.category]
     \/ IsStatistic(c) /\ taken(IsStatistic) >= StatisticsCap
     \/ /\ IsPost(c)
        /\ \/ \E i \in DOMAIN acc : acc[i].posts \cap c.posts # {}
           \/ taken(IsPost) >= PostsCap

Take(acc, c) == IF Refused(acc, c) THEN acc ELSE Append(acc, c)

\* applyTokenBudget: whole categories go, from the back, until the rest fits.
\* What is left is a beginning, since the selected are in order of category.
WithinBudget(selected) ==
  LET upTo(k) == Cardinality({i \in DOMAIN selected : CategoryOrder(selected[i].category) <= k})
      tokens[n \in 0..Len(selected)] ==
        IF n = 0 THEN 0 ELSE tokens[n - 1] + selected[n].size
      fits == {k \in 0..Len(Categories) : tokens[upTo(k)] <= TokenBudget}
  IN SubSeq(selected, 1, upTo(CHOOSE k \in fits : \A j \in fits : j <= k))

\* No two candidates are equal in this order, so each has a rank.
Ranked(candidates) ==
  [i \in 1..Cardinality(candidates) |->
     CHOOSE c \in candidates : Cardinality({d \in candidates : Before(d, c)}) = i - 1]

SelectStrategyEvidence(candidates) ==
  LET ranked == Ranked(candidates)
      taken[n \in 0..Cardinality(candidates)] ==
        IF n = 0 THEN <<>> ELSE Take(taken[n - 1], ranked[n])
  IN WithinBudget(taken[Cardinality(candidates)])

\* toStrategyManifestEvidence: the id is the category and the rank in it.
Manifest(entries) ==
  {[id |-> <<entries[i].category,
             Cardinality({j \in 1..(i - 1) : entries[j].category = entries[i].category})>>,
    type |-> entries[i].type, roles |-> entries[i].roles, class |-> entries[i].class,
    dimensions |-> entries[i].dimensions, required |-> entries[i].required]
   : i \in DOMAIN entries}

-----------------------------------------------------------------------------
(* Validation of an answer.  Every rule returns the codes of its issues.   *)

If(condition, code) == IF condition THEN {code} ELSE {}

\* boundedText: too long, empty, or with tags or control characters.
BoundedText(text) == text.safe

\* normalizeComparableText drops case and punctuation.
Normalise(text) == text.word

\* strategyV1Schema: the number of items and of references, and every text.
References(min, items) == \A i \in DOMAIN items : Len(items[i].refs) \in min..12
SchemaValid(answer) ==
  /\ Len(answer.working) <= 12 /\ Len(answer.weak) <= 12
  /\ Len(answer.tests) \in 1..10 /\ Len(answer.pillars) \in 1..7
  /\ Len(answer.recommendations) \in 1..10 /\ Len(answer.limitations) \in 1..12
  /\ \A items \in {answer.working, answer.weak, answer.tests, answer.pillars,
                   answer.recommendations} : References(1, items)
  /\ References(0, answer.limitations)
  /\ \A i \in DOMAIN answer.recommendations :
       /\ Len(answer.recommendations[i].hooks) \in 3..5
       /\ Len(answer.recommendations[i].test.refs) \in 1..12
       /\ BoundedText(answer.recommendations[i].title)

\* validateEvidenceReferences.
ReferenceIssues(refs, manifest) ==
  LET first(i) == \A j \in 1..(i - 1) : refs[j].id # refs[i].id
      cited(i) == {m \in manifest : m.id = refs[i].id}
  IN If(refs = <<>>, "EVIDENCE_REQUIRED")
       \cup If(\E i \in DOMAIN refs : ~first(i), "EVIDENCE_DUPLICATE")
       \cup If(\E i \in DOMAIN refs : first(i) /\ cited(i) = {}, "EVIDENCE_NOT_IN_MANIFEST")
       \cup If(\E i \in DOMAIN refs : first(i) /\ \E m \in cited(i) : refs[i].role \notin m.roles,
               "EVIDENCE_ROLE_INVALID")

Resolved(refs, manifest) == {m \in manifest : \E i \in DOMAIN refs : refs[i].id = m.id}

ClassRank(class) ==
  CASE class = "statistically_supported_association" -> 5
    [] class = "moderate_association" -> 4
    [] class = "weak_directional_signal" -> 3
    [] class = "single_post_outlier" -> 2
    [] class = "insufficient_evidence" -> 1
    [] class = "creative_recommendation" -> -1
    [] OTHER -> 0

Empirical(class) == ClassRank(class) \in 1..5
PostTypes == {"post", "post_analysis", "metric_snapshot"}

\* A mutant of CeilingIssues: posts are asked of every evidence-led item.
CeilingIssuesEverywhere(class, resolved, needPost, needStatistic) ==
  LET statistics == {m \in resolved : m.type = "feature_statistic" /\ m.class # Null}
  IN IF ~Empirical(class) THEN {"EMPIRICAL_CLASS_INVALID"}
     ELSE IF statistics = {}
       THEN If(needStatistic \/ class # "insufficient_evidence", "EVIDENCE_REQUIRED")
     ELSE If(\A m \in statistics : ClassRank(class) > ClassRank(m.class), "EVIDENCE_CLASS_UPGRADE")
       \cup If(needStatistic /\ \A m \in resolved : m.type \notin PostTypes, "EVIDENCE_REQUIRED")

\* validateEvidenceCeiling.
CeilingIssues(class, resolved, needPost, needStatistic) ==
  LET statistics == {m \in resolved : m.type = "feature_statistic" /\ m.class # Null}
  IN IF ~Empirical(class) THEN {"EMPIRICAL_CLASS_INVALID"}
     ELSE IF statistics = {}
       THEN If(needStatistic \/ class # "insufficient_evidence", "EVIDENCE_REQUIRED")
     ELSE If(\A m \in statistics : ClassRank(class) > ClassRank(m.class), "EVIDENCE_CLASS_UPGRADE")
       \cup If(needPost /\ \A m \in resolved : m.type \notin PostTypes, "EVIDENCE_REQUIRED")

\* validateCounterevidence.
CounterIssues(claim, manifest) ==
  If(\E m \in manifest :
       /\ claim.dimension \in m.dimensions /\ "counterexample" \in m.roles
       /\ \A i \in DOMAIN claim.refs :
            ~(claim.refs[i].id = m.id /\ claim.refs[i].role = "counterexample"),
     "COUNTEREVIDENCE_OMITTED")

SectionClasses ==
  [working |-> {"statistically_supported_association", "moderate_association",
                "weak_directional_signal"},
   weak |-> {"weak_directional_signal", "single_post_outlier", "insufficient_evidence"}]

ClaimIssues(claim, section, mode, manifest) ==
  ReferenceIssues(claim.refs, manifest)
    \cup CeilingIssues(claim.class, Resolved(claim.refs, manifest),
                       mode = "evidence_led", mode = "evidence_led")
    \cup If(claim.class \notin SectionClasses[section], "EMPIRICAL_CLASS_INVALID")
    \cup CounterIssues(claim, manifest)

ExperimentIssues(test, manifest) ==
  ReferenceIssues(test.refs, manifest)
    \cup If(\E text \in test.stable : Normalise(text) = Normalise(test.changed),
            "EXPERIMENT_INVALID")

PillarIssues(pillars, mode, manifest) ==
  LET allocated[n \in 0..Len(pillars)] ==
        IF n = 0 THEN 0 ELSE allocated[n - 1] + pillars[n].percent
  IN
  If(allocated[Len(pillars)] # 100, "ALLOCATION_INVALID")
    \cup If(\E i, j \in DOMAIN pillars : i < j /\ pillars[i].pillar = pillars[j].pillar,
            "ALLOCATION_INVALID")
    \cup UNION {If(pillars[i].pillar \in {"other", "unknown"}, "ALLOCATION_INVALID")
                  \cup ReferenceIssues(pillars[i].refs, manifest)
                  \cup CeilingIssues(pillars[i].class, Resolved(pillars[i].refs, manifest),
                                     FALSE, mode = "evidence_led")
                  \cup If(pillars[i].experimental # (mode = "exploratory"),
                          "EXPLORATORY_RULE_VIOLATION")
                : i \in DOMAIN pillars}

\* createStrategyRecommendationFingerprint: hook order does not matter.
Fingerprint(r) ==
  <<r.pillar, r.format, Normalise(r.topic), Normalise(r.audience),
    {Normalise(r.hooks[i]) : i \in DOMAIN r.hooks}>>

RecommendationIssues(recs, recent, manifest) ==
  LET repeated(F(_)) == \E i, j \in DOMAIN recs : i < j /\ F(recs[i]) = F(recs[j])
      one(r) ==
        ReferenceIssues(r.refs, manifest)
          \cup If(r.class # "creative_recommendation", "EMPIRICAL_CLASS_INVALID")
          \cup If(r.pillar \in {"other", "unknown"} \/ r.format = "unknown"
                    \/ r.cta \in {"none", "unknown"}, "RECOMMENDATION_INVALID")
          \cup If(~r.leap /\ \A m \in Resolved(r.refs, manifest) : m.type # "feature_statistic",
                  "EVIDENCE_REQUIRED")
          \cup If(\E i, j \in DOMAIN r.hooks :
                    i < j /\ Normalise(r.hooks[i]) = Normalise(r.hooks[j]), "DUPLICATE_CONTENT")
          \cup If(Fingerprint(r) \in recent /\ ~r.iteration, "ITERATION_REASON_REQUIRED")
          \cup ExperimentIssues(r.test, manifest)
  IN (UNION {one(recs[i]) : i \in DOMAIN recs})
       \cup If(repeated(LAMBDA r : Normalise(r.title)) \/ repeated(Fingerprint),
               "DUPLICATE_CONTENT")

LimitationIssues(limitations, manifest) ==
  LET stated(m) == \E i \in DOMAIN limitations : \E k \in DOMAIN limitations[i].refs :
                     limitations[i].refs[k].id = m.id
                       /\ limitations[i].refs[k].role = "limitation"
  IN If(\E m \in manifest : m.required /\ ~stated(m), "LIMITATION_OMITTED")
       \cup UNION {IF limitations[i].refs = <<>> THEN {}
                   ELSE ReferenceIssues(limitations[i].refs, manifest)
                   : i \in DOMAIN limitations}

KeyIssues(answer) ==
  LET all == answer.working \o answer.weak \o answer.recommendations
  IN If(\E i, j \in DOMAIN all : i < j /\ all[i].key = all[j].key, "DUPLICATE_CONTENT")

ExploratoryIssues(answer) ==
  IF answer.mode # "exploratory" THEN {}
  ELSE If(\/ answer.working # <<>>
          \/ ~answer.leadsWithInsufficiency
          \/ \E items \in {answer.weak, answer.pillars} : \E i \in DOMAIN items :
               items[i].class \in {"statistically_supported_association", "moderate_association"},
          "EXPLORATORY_RULE_VIOLATION")

\* completeStrategyV1 states the mode of the request over what was answered.
CompleteStrategy(answer, mode) == [answer EXCEPT !.mode = mode]

ClaimsIssues(claims, section, mode, manifest) ==
  UNION {ClaimIssues(claims[i], section, mode, manifest) : i \in DOMAIN claims}

\* createManifestMap and validateStrategyV1.
ValidateStrategy(answer, mode, manifest, recent) ==
  IF ~SchemaValid(answer) THEN {"SCHEMA_INVALID"}
  ELSE If(answer.mode # mode, "MODE_MISMATCH")
    \cup If(manifest = {}, "EVIDENCE_REQUIRED")
    \cup ClaimsIssues(answer.working, "working", answer.mode, manifest)
    \cup ClaimsIssues(answer.weak, "weak", answer.mode, manifest)
    \cup (UNION {ExperimentIssues(answer.tests[i], manifest) : i \in DOMAIN answer.tests})
    \cup PillarIssues(answer.pillars, answer.mode, manifest)
    \cup RecommendationIssues(answer.recommendations, recent, manifest)
    \cup LimitationIssues(answer.limitations, manifest)
    \cup KeyIssues(answer)
    \cup ExploratoryIssues(answer)
=============================================================================
