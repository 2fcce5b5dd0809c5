--------------------------- MODULE AnalysisContract ---------------------------
(***************************************************************************)
(* The semantic validation of one creative analysis.  A response is        *)
(*   [schema, contract, observations, estimates, duration, sections,       *)
(*    majorSectionCount, cta, improvements]:                               *)
(* whether the schema and its literal versions match, every observation,   *)
(* the six estimated ones by their path, and the fields that are cross     *)
(* checked.  Times are quarter seconds, so that both tolerances are whole; *)
(* text is reduced to the tests made of it.                                *)
(***************************************************************************)
EXTENDS NullValue, Integers, Sequences, FiniteSets, SequencesExt

sectionTolerance == 1
durationTolerance == 2

availability == {"available", "unknown", "not_applicable"}

estimatedFieldPaths ==
  {"timeToFirstSpokenWordSeconds", "timeToMainValuePropositionSeconds", "estimatedCutCount",
   "estimatedAverageShotLengthSeconds", "estimatedTimeToFirstVisualChangeSeconds",
   "estimatedCameraSetupCount"}
countPaths == {"estimatedCutCount", "estimatedCameraSetupCount"}

\* completePostCreativeAnalysisV1: versions, model and duration are stamped
\* over whatever the model said of them.
completePostCreativeAnalysis(response, probed) ==
  [response EXCEPT !.contract = TRUE, !.duration = probed]

\* A timestamp is [minutes, seconds] as written; the schema has checked digits.
parseTimestamp(timestamp) ==
  IF timestamp.seconds > 59 THEN Null ELSE 4 * (60 * timestamp.minutes + timestamp.seconds)

TimestampFault(timestamp, limit) ==
  parseTimestamp(timestamp) = Null \/ parseTimestamp(timestamp) > limit

Issue(condition, code) == IF condition THEN {code} ELSE {}

\* An observation is [value, term, availability, basis, confidence, noted,
\* limited, timestamps]: term is "unknown" or "other" when the value is that word
\* of a taxonomy, noted says that some evidence has a note, limited that a
\* limitation is given.
ObservationIssues(o, limit) ==
  LET available == o.availability = "available" IN
    Issue(\/ available /\ Null \in {o.value, o.basis}
          \/ ~available /\ (o.value # Null \/ o.confidence # Null)
          \/ available /\ o.basis \in {"observed", "estimated"} /\ o.confidence = Null,
          "OBSERVATION_INCONSISTENT")
    \cup Issue(~o.limited /\ (o.availability = "unknown" \/ o.term = "unknown"),
               "UNKNOWN_WITHOUT_LIMITATION")
    \cup Issue(o.term = "other" /\ ~o.noted, "OTHER_WITHOUT_EVIDENCE")
    \cup Issue(\E t \in o.timestamps : TimestampFault(t, limit), "TIME_OUT_OF_RANGE")

checkObservationRules(a, limit) ==
  UNION {ObservationIssues(o, limit)
           : o \in a.observations \cup {a.estimates[p] : p \in estimatedFieldPaths}}

checkTimesAndEstimates(a, probed, limit) ==
  Issue(\E p \in estimatedFieldPaths :
          a.estimates[p].availability = "available" /\ a.estimates[p].basis # "estimated",
        "ESTIMATION_BASIS_REQUIRED")
  \cup Issue(\/ \E p \in estimatedFieldPaths \ countPaths :
                  a.estimates[p].value # Null /\ a.estimates[p].value > limit
             \/ /\ a.duration # Null
                /\ a.duration - probed \notin -durationTolerance..durationTolerance,
             "TIME_OUT_OF_RANGE")

\* A mutant of Overlaps: each section is held against the first.
OverlapsFirst(sections, i) ==
  i > 1 /\ sections[i].start < sections[1].end - sectionTolerance

\* Only the end of the section before is looked at.
Overlaps(sections, i) ==
  i > 1 /\ sections[i].start < sections[i - 1].end - sectionTolerance

checkStructure(a, limit) ==
  IF a.sections = Null THEN {}
  ELSE Issue(\E i \in DOMAIN a.sections :
               \/ a.sections[i].end > limit \/ a.sections[i].end <= a.sections[i].start
               \/ Overlaps(a.sections, i), "SECTION_INVALID")
       \cup Issue(a.majorSectionCount \notin {Null, Len(a.sections)}, "COUNT_IMPLAUSIBLE")

CeilDiv(n, d) == (n + d - 1) \div d

\* More than a factor of four between the reported shot length and the limit
\* over the shots; a length of nothing counts as a hundredth of a second.
ShotTimingInconsistent(cuts, average, limit) ==
  IF average = 0 THEN 25 * limit > 4 * (cuts + 1)
  ELSE average * (cuts + 1) > 4 * limit \/ limit > 4 * average * (cuts + 1)

checkCounts(a, limit) ==
  LET cuts == a.estimates["estimatedCutCount"].value
      setups == a.estimates["estimatedCameraSetupCount"].value
      average == a.estimates["estimatedAverageShotLengthSeconds"].value
      Over(count, bound) == IF count = Null THEN FALSE ELSE count > bound
  IN Issue(\/ Over(cuts, 2 * limit + 1) \/ Over(setups, CeilDiv(limit, 4) + 1)
           \/ Over(a.majorSectionCount, CeilDiv(limit, 8) + 1), "COUNT_IMPLAUSIBLE")
     \cup Issue(IF Null \in {cuts, average} THEN FALSE
                ELSE ShotTimingInconsistent(cuts, average, limit), "SHOT_TIMING_INCONSISTENT")

\* cta: [present, type, text], text "blank" when only white space.
checkCallToAction(a) ==
  Issue(\/ a.cta.present = FALSE /\ (a.cta.type \notin {Null, "none", "unknown"} \/ a.cta.text # Null)
        \/ a.cta.present = TRUE /\ (a.cta.type \in {Null, "none"} \/ a.cta.text \in {Null, "blank"}),
        "CTA_INCONSISTENT")

\* improvements: set of [claims, timestamps], claims when a prohibited pattern
\* matches its suggestion or its rationale.
checkSuggestedImprovementClaims(a, limit) ==
  Issue(\E i \in a.improvements : \E t \in i.timestamps : TimestampFault(t, limit),
        "TIME_OUT_OF_RANGE")
  \cup Issue(\E i \in a.improvements : i.claims, "CAUSAL_OR_ALGORITHM_CLAIM")

\* The issues of a response, none when it is valid.
validatePostCreativeAnalysis(a, probed) ==
  LET limit == probed + durationTolerance IN
    IF ~a.contract THEN {"CONTRACT_MISMATCH"}
    ELSE IF ~a.schema THEN {"SCHEMA_INVALID"}
    ELSE checkObservationRules(a, limit) \cup checkTimesAndEstimates(a, probed, limit)
         \cup checkStructure(a, limit) \cup checkCounts(a, limit) \cup checkCallToAction(a)
         \cup checkSuggestedImprovementClaims(a, limit)

\* What "ordered and non-overlapping" comes to for sections in whole seconds;
\* and an absent call to action has no words.
CoherentAnalysis(a, probed) ==
  LET whole == a.sections # Null /\ \A i \in DOMAIN a.sections :
                 a.sections[i].start % 4 = 0 /\ a.sections[i].end % 4 = 0
  IN /\ whole => \A i, j \in DOMAIN a.sections :
          i < j => a.sections[i].end <= a.sections[j].start /\ a.sections[j].end <= probed
     /\ a.cta.present = FALSE => a.cta.text = Null

-----------------------------------------------------------------------------
(* The validator as it is called: a behaviour is one call.                 *)

CONSTANTS
  ProposedAnalyses,   \* what the model may answer
  ProbedDurations     \* of the video, whole seconds in quarters

ASSUME ValidationAssumption ==
  /\ \A a \in ProposedAnalyses : /\ "sections" \in DOMAIN a
                                 /\ a.sections \in Seq([start : Int, end : Int]) \cup {Null}
  /\ \A probed \in ProbedDurations : probed \in Nat /\ probed % 4 = 0

VARIABLE judgedAnalysis   \* [analysis, probed], the analysis Null before the call

ValidationInit == judgedAnalysis = [analysis |-> Null, probed |-> 0]

ValidateAnalysis ==
  /\ judgedAnalysis.analysis = Null
  /\ \E a \in ProposedAnalyses, probed \in ProbedDurations :
       judgedAnalysis' = [analysis |-> completePostCreativeAnalysis(a, probed),
                          probed |-> probed]

ValidationSpec == ValidationInit /\ [][ValidateAnalysis]_judgedAnalysis

\* "Sections must be ordered and non-overlapping": sections reported in whole
\* seconds, as the prompt asks, that are accepted lie one after another within
\* the video; and an absent call to action was not given words.
AcceptedAnalysesAreCoherent ==
  LET call == judgedAnalysis IN
    (call.analysis # Null /\ validatePostCreativeAnalysis(call.analysis, call.probed) = {})
      => CoherentAnalysis(call.analysis, call.probed)
=============================================================================
