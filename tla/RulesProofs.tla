----------------------------- MODULE RulesProofs -----------------------------
(***************************************************************************)
(* Proofs about the three components that decide by fixed rules: the sets  *)
(* of a what-if experiment, the verdicts of the jury, and the debt, gate   *)
(* and contracts of a version.  For every set of samples and cases, every  *)
(* combination of findings and every contract.                             *)
(***************************************************************************)
EXTENDS WhatIf, Jury, Governance, TLAPS, FiniteSetTheorems

-----------------------------------------------------------------------------
(* What-if experiments *)

\* The sets of an experiment are sets of samples; what is protected has been taken out of the
\* change set once it is resolved; and the sets of the variants are cut from it as it is then.
WhatIfTypeInv ==
    /\ split \subseteq Samples
    /\ change \in [remove : SUBSET Samples, relabel : SUBSET Samples, eval_drop : SUBSET Samples,
                   protect : SUBSET Samples, cap : Nat]
    /\ experiment \in [at : {"resolving", "resolved", "cut", "failed"}, fit : SUBSET Samples,
                       after : SUBSET Samples, evaluated : SUBSET Samples]

ProtectedInv ==
    experiment.at # "resolving" =>
        (change.remove \cup change.relabel \cup change.eval_drop) \cap change.protect = {}

CutInv ==
    experiment.at = "cut" =>
        /\ experiment.fit = Samples \ experiment.evaluated
        /\ experiment.after \subseteq experiment.fit
        /\ change.cap = 0 => experiment.after = experiment.fit \ change.remove

WhatIfInv == WhatIfTypeInv /\ ProtectedInv /\ CutInv

\* Each action of a change set adds samples to its sets, and leaves it unresolved.
LEMMA ResolvingStep ==
    ASSUME WhatIfInv, experiment.at = "resolving",
           NEW found \in SUBSET Samples,
           \/ Apply(Removing(change, found)) \/ Apply(Relabelling(change, found)) \/ Rebalance
           \/ PreserveRare \/ MoveLeakageOutOfEval
    PROVE  WhatIfInv'
<1> USE WhatIfAssumption DEF WhatIfInv, WhatIfTypeInv, ProtectedInv, CutInv, Apply
<1>1. CASE Apply(Removing(change, found)) BY <1>1 DEF Removing
<1>2. CASE Apply(Relabelling(change, found)) BY <1>2 DEF Relabelling
<1>3. CASE Rebalance BY <1>3 DEF Rebalance
<1>4. CASE PreserveRare BY <1>4 DEF PreserveRare
<1>5. CASE MoveLeakageOutOfEval BY <1>5 DEF MoveLeakageOutOfEval
<1> QED BY <1>1, <1>2, <1>3, <1>4, <1>5

LEMMA HeldOutIsCut ==
    ASSUME WhatIfTypeInv, NEW held \in HeldOuts PROVE held \subseteq Samples
BY DEF HeldOuts, WhatIfTypeInv

LEMMA KeptIsPart ==
    ASSUME NEW S, NEW K \in Kept(S) PROVE K \subseteq S /\ (change.cap = 0 => K = S)
BY DEF Kept

LEMMA NextWhatIfInv == WhatIfInv /\ [WhatIfNext]_whatIfVars => WhatIfInv'
<1> SUFFICES ASSUME WhatIfInv, [WhatIfNext]_whatIfVars PROVE WhatIfInv'
  OBVIOUS
<1> USE WhatIfAssumption DEF WhatIfInv
<1>1. ASSUME experiment.at = "resolving", NEW i \in Suspects, RemoveSamples({i}) \/ RelabelSamples({i})
      PROVE  WhatIfInv'
  BY <1>1, ResolvingStep DEF RemoveSamples, RelabelSamples
<1>2. ASSUME experiment.at = "resolving", RemoveDuplicateCopies \/ ExcludeQuality PROVE WhatIfInv'
  BY <1>2, ResolvingStep DEF RemoveDuplicateCopies, ExcludeQuality
<1>3. ASSUME experiment.at = "resolving", Rebalance \/ PreserveRare \/ MoveLeakageOutOfEval
      PROVE  WhatIfInv'
  BY <1>3, ResolvingStep
<1>4. ASSUME Resolve PROVE WhatIfInv'
  BY <1>4 DEF Resolve, Protected, WhatIfTypeInv, ProtectedInv, CutInv
<1>5. ASSUME CutSets PROVE WhatIfInv'
  <2>1. PICK held \in HeldOuts :
          LET removed == change.remove \ (IF split = {} THEN held ELSE {}) IN
          \E after \in Kept(Fit(held) \ removed) :
            /\ change' = [change EXCEPT !.remove = removed]
            /\ experiment' =
                IF {Relabelled(i) : i \in after} # Labels THEN [experiment EXCEPT !.at = "failed"]
                ELSE [at |-> "cut", fit |-> Fit(held), after |-> after, evaluated |-> held]
    BY <1>5 DEF CutSets
  <2> DEFINE removed == change.remove \ (IF split = {} THEN held ELSE {})
  <2>2. PICK after \in Kept(Fit(held) \ removed) :
            /\ change' = [change EXCEPT !.remove = removed]
            /\ experiment' =
                IF {Relabelled(i) : i \in after} # Labels THEN [experiment EXCEPT !.at = "failed"]
                ELSE [at |-> "cut", fit |-> Fit(held), after |-> after, evaluated |-> held]
    BY <2>1
  <2>3. held \subseteq Samples /\ removed \subseteq change.remove
    BY HeldOutIsCut
  <2>4. after \subseteq Fit(held) \ removed /\ (change.cap = 0 => after = Fit(held) \ removed)
    BY KeptIsPart
  <2>5. split' = split /\ experiment.at = "resolved"
    BY <1>5 DEF CutSets
  <2> HIDE DEF removed
  <2>6. CASE experiment' = [experiment EXCEPT !.at = "failed"]
    BY <2>2, <2>3, <2>5, <2>6 DEF WhatIfTypeInv, ProtectedInv, CutInv
  <2>7. CASE experiment' = [at |-> "cut", fit |-> Fit(held), after |-> after, evaluated |-> held]
    BY <2>2, <2>3, <2>4, <2>5, <2>7 DEF WhatIfTypeInv, ProtectedInv, CutInv, Fit
  <2> QED BY <2>2, <2>6, <2>7
<1>6. CASE UNCHANGED whatIfVars
  BY <1>6 DEF whatIfVars, WhatIfTypeInv, ProtectedInv, CutInv
<1> QED BY <1>1, <1>2, <1>3, <1>4, <1>5, <1>6 DEF WhatIfNext

LEMMA WhatIfInvariant == WhatIfSpec => []WhatIfInv
<1>1. WhatIfInit => WhatIfInv
  BY WhatIfAssumption
     DEF WhatIfInit, WhatIfInv, WhatIfTypeInv, ProtectedInv, CutInv, NoChange, Uncut
<1>2. WhatIfInv /\ [WhatIfNext]_whatIfVars => WhatIfInv' BY NextWhatIfInv
<1> QED BY <1>1, <1>2, PTL DEF WhatIfSpec

\* Whatever actions a change set lists and in whatever order, no variant of an experiment is
\* trained on what it is evaluated on, and with preserve_rare the rare samples stay where they
\* were, under their labels: for every set of samples, findings and hold-out size.
THEOREM ExperimentsAreFair == WhatIfSpec => []ComparisonFair
<1>1. WhatIfInv => ComparisonFair
  BY WhatIfAssumption
     DEF WhatIfInv, WhatIfTypeInv, ProtectedInv, CutInv, ComparisonFair, Relabelled, CleanedEval
<1> QED BY <1>1, WhatIfInvariant, PTL

-----------------------------------------------------------------------------
(* The jury *)

\* What a sample is measured in; only the views are looked into by name.
Fields == {"quality", "family", "conflict", "leakage", "views", "dynamics", "influence", "action",
           "hypothesis"}
ViewRecords == [model : {"strong", "some", "leaning", "unsure", "agrees", "none"},
                neighbor : {"against", "leaning", "mixed", "same", "none"},
                centroid : {"outside", "between", "inside", "none"},
                weak : SUBSET {"neighbor", "centroid"},
                alternative : BOOLEAN]

\* The label stage has said of the sample what it may say of these measurements, and the case is
\* that of the sample as it is: after the hearing nothing is measured any more.
JuryInv ==
    /\ stage \in 1..11
    /\ sample \in [Fields -> UNION {Signals[f] : f \in Fields}]
    /\ sample["views"] \in ViewRecords
    /\ Consistent(sample)
    /\ docket # NoCase =>
        /\ stage = 11
        /\ docket = [verdict |-> VerdictOn(sample), against |-> Prosecution(sample)]

LEMMA NextJuryInv == JuryInv /\ [JuryNext]_juryVars => JuryInv'
<1> SUFFICES ASSUME JuryInv, [JuryNext]_juryVars PROVE JuryInv'
  OBVIOUS
<1>l. Len(Stages) = 10
  BY DEF Stages
<1>1. ASSUME Measure PROVE JuryInv'
  <2>1. stage \in 1..9
    BY <1>1, <1>l DEF Measure, JuryInv
  <2>2. Stages[stage] \in Fields
    BY <2>1 DEF Stages, Fields
  <2>3. PICK value \in Signals[Stages[stage]] : sample' = [sample EXCEPT ![Stages[stage]] = value]
    BY <1>1 DEF Measure
  <2>4. sample' \in [Fields -> UNION {Signals[f] : f \in Fields}]
    BY <2>2, <2>3 DEF JuryInv
  <2>5. Signals["views"] \subseteq ViewRecords
    <3>1. Signals["views"] = Views \cup {Unseen}
      BY DEF Signals
    <3>2. Views \subseteq ViewRecords
      BY DEF Views, ViewRecords
    <3>3. Unseen \in ViewRecords
      BY DEF Unseen, ViewRecords
    <3> QED BY <3>1, <3>2, <3>3
  <2>6. sample'["views"] \in ViewRecords
    BY <2>2, <2>3, <2>5 DEF JuryInv, Fields
  <2>7. Consistent(sample')
    BY <1>1 DEF Measure
  <2>8. docket' = docket /\ docket = NoCase /\ stage' \in 1..11
    BY <1>1, <2>1 DEF Measure, JuryInv
  <2>9. Consistent(sample)'
    BY <2>7 DEF Consistent, MaySuspect, RareLike, MayBeRareValid
  <2> QED BY <2>4, <2>6, <2>8, <2>9 DEF JuryInv, NoCase
<1>2. ASSUME Hear PROVE JuryInv'
  <2>1. stage' = 11 /\ sample' = sample
    BY <1>2, <1>l DEF Hear
  <2>2. docket' # NoCase => docket' = [verdict |-> VerdictOn(sample), against |-> Prosecution(sample)]
    BY <1>2 DEF Hear
  <2>3. /\ VerdictOn(sample)' = VerdictOn(sample) /\ Prosecution(sample)' = Prosecution(sample)
        /\ Consistent(sample)' = Consistent(sample)
    BY <2>1
  <2> QED BY <2>1, <2>2, <2>3 DEF JuryInv
<1>3. CASE UNCHANGED juryVars
  <2>1. stage' = stage /\ sample' = sample /\ docket' = docket
    BY <1>3 DEF juryVars
  <2>2. /\ VerdictOn(sample)' = VerdictOn(sample) /\ Prosecution(sample)' = Prosecution(sample)
        /\ Consistent(sample)' = Consistent(sample)
    BY <2>1
  <2> QED BY <2>1, <2>2 DEF JuryInv
<1> QED BY <1>1, <1>2, <1>3 DEF JuryNext

LEMMA JuryInvariant == JurySpec => []JuryInv
<1>1. JuryInit => JuryInv
  <2> SUFFICES ASSUME JuryInit PROVE JuryInv
    OBVIOUS
  <2>1. Blank \in [Fields -> UNION {Signals[f] : f \in Fields}]
    <3>1. \A f \in Fields : Blank[f] \in Signals[f]
      <4>1. Ordinary \in Views
        BY DEF Ordinary, Views
      <4>2. Blank["views"] \in Signals["views"]
        BY <4>1 DEF Blank, Signals
      <4>3. /\ Blank["quality"] \in Signals["quality"] /\ Blank["family"] \in Signals["family"]
            /\ Blank["leakage"] \in Signals["leakage"] /\ Blank["dynamics"] \in Signals["dynamics"]
            /\ Blank["influence"] \in Signals["influence"] /\ Blank["action"] \in Signals["action"]
            /\ Blank["hypothesis"] \in Signals["hypothesis"]
        BY DEF Blank, Signals
      <4>4. Blank["conflict"] \in Signals["conflict"]
        BY DEF Blank, Signals
      <4> QED BY <4>2, <4>3, <4>4 DEF Fields
    <3>2. DOMAIN Blank = Fields /\ Blank = [f \in Fields |-> Blank[f]]
      BY DEF Blank, Fields
    <3> QED BY <3>1, <3>2
  <2>2. Blank["views"] \in ViewRecords
    BY DEF Blank, Ordinary, ViewRecords
  <2>3. Consistent(Blank)
    BY DEF Consistent, Blank, Ordinary
  <2> QED BY <2>1, <2>2, <2>3 DEF JuryInit, JuryInv
<1>2. JuryInv /\ [JuryNext]_juryVars => JuryInv' BY NextJuryInv
<1> QED BY <1>1, <1>2, PTL DEF JurySpec

-----------------------------------------------------------------------------
\* The verdict is that of one rule, which holds while none before it does.
LEMMA FirstRuleDecides ==
    ASSUME NEW c, NEW n \in 1..10, Rules(c)[n].holds, \A k \in 1..(n - 1) : ~Rules(c)[k].holds
    PROVE  VerdictOn(c) = Rules(c)[n].verdict
<1> DEFINE rules == Rules(c)
           First(m) == rules[m].holds /\ \A k \in 1..(m - 1) : ~rules[k].holds
<1>1. First(n)
  OBVIOUS
<1>2. FirstRule(rules) = CHOOSE m \in 1..10 : First(m)
  BY DEF FirstRule
<1>3. VerdictOn(c) = rules[FirstRule(rules)].verdict
  BY DEF VerdictOn
<1>4. FirstRule(rules) \in 1..10 /\ First(FirstRule(rules))
  BY <1>1, <1>2
<1> HIDE DEF rules
<1>5. FirstRule(rules) = n
  <2>1. ~(n < FirstRule(rules))
    BY <1>1, <1>4
  <2>2. ~(FirstRule(rules) < n)
    BY <1>1, <1>4
  <2> QED BY <1>4, <2>1, <2>2
<1> QED BY <1>3, <1>5 DEF rules

LEMMA VerdictByRules ==
    ASSUME NEW c
    PROVE  VerdictOn(c) = IF Leaks(c) THEN "LEAKAGE_ACTION_NEEDED"
                          ELSE IF RedundantCopy(c) THEN "POSSIBLE_REMOVE"
                          ELSE IF LabelConflict(c) THEN "STRONG_REVIEW"
                          ELSE IF Unlearnable(c) THEN "POSSIBLE_REMOVE"
                          ELSE IF ConsistentMislabel(c) THEN "POSSIBLE_RELABEL"
                          ELSE IF RareOnly(c) THEN "LIKELY_RARE"
                          ELSE IF TwoOfThree(c) THEN "STRONG_REVIEW"
                          ELSE IF Conflicting(c) THEN "UNCERTAIN"
                          ELSE IF SingleSignal(c) THEN "REVIEW" ELSE "KEEP"
<1>1. /\ Rules(c)[1] = [holds |-> Leaks(c), verdict |-> "LEAKAGE_ACTION_NEEDED"]
      /\ Rules(c)[2] = [holds |-> RedundantCopy(c), verdict |-> "POSSIBLE_REMOVE"]
      /\ Rules(c)[3] = [holds |-> LabelConflict(c), verdict |-> "STRONG_REVIEW"]
      /\ Rules(c)[4] = [holds |-> Unlearnable(c), verdict |-> "POSSIBLE_REMOVE"]
      /\ Rules(c)[5] = [holds |-> ConsistentMislabel(c), verdict |-> "POSSIBLE_RELABEL"]
      /\ Rules(c)[6] = [holds |-> RareOnly(c), verdict |-> "LIKELY_RARE"]
      /\ Rules(c)[7] = [holds |-> TwoOfThree(c), verdict |-> "STRONG_REVIEW"]
      /\ Rules(c)[8] = [holds |-> Conflicting(c), verdict |-> "UNCERTAIN"]
      /\ Rules(c)[9] = [holds |-> SingleSignal(c), verdict |-> "REVIEW"]
      /\ Rules(c)[10] = [holds |-> TRUE, verdict |-> "KEEP"]
  BY DEF Rules
<1> DEFINE Holds(n) == Rules(c)[n].holds
<1>2. /\ Holds(1) = Leaks(c) /\ Holds(2) = RedundantCopy(c) /\ Holds(3) = LabelConflict(c)
      /\ Holds(4) = Unlearnable(c) /\ Holds(5) = ConsistentMislabel(c) /\ Holds(6) = RareOnly(c)
      /\ Holds(7) = TwoOfThree(c) /\ Holds(8) = Conflicting(c) /\ Holds(9) = SingleSignal(c)
      /\ Holds(10) = TRUE
  BY <1>1
<1>3. /\ Rules(c)[1].verdict = "LEAKAGE_ACTION_NEEDED" /\ Rules(c)[2].verdict = "POSSIBLE_REMOVE"
      /\ Rules(c)[3].verdict = "STRONG_REVIEW" /\ Rules(c)[4].verdict = "POSSIBLE_REMOVE"
      /\ Rules(c)[5].verdict = "POSSIBLE_RELABEL" /\ Rules(c)[6].verdict = "LIKELY_RARE"
      /\ Rules(c)[7].verdict = "STRONG_REVIEW" /\ Rules(c)[8].verdict = "UNCERTAIN"
      /\ Rules(c)[9].verdict = "REVIEW" /\ Rules(c)[10].verdict = "KEEP"
  BY <1>1
<1>4. \A n \in 1..10 : Holds(n) /\ (\A k \in 1..(n - 1) : ~Holds(k)) =>
                        VerdictOn(c) = Rules(c)[n].verdict
  BY FirstRuleDecides
<1> HIDE DEF Holds
<1>5. /\ Holds(1) => VerdictOn(c) = Rules(c)[1].verdict
      /\ Holds(2) /\ ~Holds(1) => VerdictOn(c) = Rules(c)[2].verdict
      /\ Holds(3) /\ ~Holds(1) /\ ~Holds(2) => VerdictOn(c) = Rules(c)[3].verdict
      /\ Holds(4) /\ ~Holds(1) /\ ~Holds(2) /\ ~Holds(3) => VerdictOn(c) = Rules(c)[4].verdict
      /\ Holds(5) /\ ~Holds(1) /\ ~Holds(2) /\ ~Holds(3) /\ ~Holds(4) =>
            VerdictOn(c) = Rules(c)[5].verdict
  BY <1>4
<1> DEFINE NoneOfFive == ~Holds(1) /\ ~Holds(2) /\ ~Holds(3) /\ ~Holds(4) /\ ~Holds(5)
<1>6. /\ Holds(6) /\ NoneOfFive => VerdictOn(c) = Rules(c)[6].verdict
      /\ Holds(7) /\ NoneOfFive /\ ~Holds(6) => VerdictOn(c) = Rules(c)[7].verdict
      /\ Holds(8) /\ NoneOfFive /\ ~Holds(6) /\ ~Holds(7) => VerdictOn(c) = Rules(c)[8].verdict
  BY <1>4
<1>7. /\ Holds(9) /\ NoneOfFive /\ ~Holds(6) /\ ~Holds(7) /\ ~Holds(8) =>
            VerdictOn(c) = Rules(c)[9].verdict
      /\ Holds(10) /\ NoneOfFive /\ ~Holds(6) /\ ~Holds(7) /\ ~Holds(8) /\ ~Holds(9) =>
            VerdictOn(c) = Rules(c)[10].verdict
  BY <1>4
<1> QED BY <1>2, <1>3, <1>5, <1>6, <1>7

LEMMA OneRuleDecides ==
    ASSUME NEW c
    PROVE  /\ VerdictOn(c) = "POSSIBLE_REMOVE" => RedundantCopy(c) \/ Unlearnable(c)
           /\ VerdictOn(c) = "POSSIBLE_RELABEL" => ConsistentMislabel(c)
           /\ VerdictOn(c) = "STRONG_REVIEW" => LabelConflict(c) \/ TwoOfThree(c)
BY VerdictByRules

-----------------------------------------------------------------------------
(* What a weak witness can do *)

\* What stays of a sample whose weak witnesses are measured anew.
LEMMA WhatStays ==
    ASSUME JuryInv,
           NEW x \in MeasuredAnew(sample, "neighbor", {"against", "leaning", "mixed", "same"}),
           NEW y \in MeasuredAnew(sample, "centroid", {"outside", "between", "inside"}),
           NEW z \in BOOLEAN, NEW a \in Signals.action, NEW h \in Signals.hypothesis,
           NEW d, d = Remeasured(sample, x, y, z, a, h)
    PROVE  /\ d.quality = sample.quality /\ d.family = sample.family /\ d.conflict = sample.conflict
           /\ d.leakage = sample.leakage /\ d.dynamics = sample.dynamics
           /\ d.influence = sample.influence
           /\ d.views.model = sample.views.model /\ d.views.weak = sample.views.weak
           /\ Reliable(sample, "neighbor") => d.views.neighbor = sample.views.neighbor
           /\ Reliable(sample, "centroid") => d.views.centroid = sample.views.centroid
<1>1. /\ d.quality = sample.quality /\ d.family = sample.family /\ d.conflict = sample.conflict
      /\ d.leakage = sample.leakage /\ d.dynamics = sample.dynamics
      /\ d.influence = sample.influence
      /\ d.views = [sample.views EXCEPT !.neighbor = x, !.centroid = y, !.alternative = z]
  BY DEF JuryInv, Fields, Remeasured
<1>2. /\ d.views.model = sample.views.model /\ d.views.weak = sample.views.weak
      /\ d.views.neighbor = x /\ d.views.centroid = y
  BY <1>1 DEF JuryInv, ViewRecords
<1>3. /\ Reliable(sample, "neighbor") => x = sample.views.neighbor
      /\ Reliable(sample, "centroid") => y = sample.views.centroid
  BY DEF MeasuredAnew
<1> QED BY <1>1, <1>2, <1>3

\* No rule but that of the rare samples, and the one that takes any hypothesis, is moved by it.
\* Those asking for reliable witnesses do not listen to a weak one; a relabel wants both of them;
\* and who is too bad to be learnt from is never taken for rare.
LEMMA RulesThatStay ==
    ASSUME JuryInv, sample.views.weak # {},
           NEW x \in MeasuredAnew(sample, "neighbor", {"against", "leaning", "mixed", "same"}),
           NEW y \in MeasuredAnew(sample, "centroid", {"outside", "between", "inside"}),
           NEW z \in BOOLEAN, NEW a \in Signals.action, NEW h \in Signals.hypothesis,
           NEW d, d = Remeasured(sample, x, y, z, a, h), Consistent(d)
    PROVE  /\ Leaks(d) = Leaks(sample) /\ RedundantCopy(d) = RedundantCopy(sample)
           /\ LabelConflict(d) = LabelConflict(sample) /\ Unlearnable(d) = Unlearnable(sample)
           /\ ~ConsistentMislabel(d) /\ ~ConsistentMislabel(sample)
           /\ RareOnly(d) = RareHypothesis(d) /\ RareOnly(sample) = RareHypothesis(sample)
           /\ TwoOfThree(d) = TwoOfThree(sample) /\ Conflicting(d) = Conflicting(sample)
<1>1. /\ d.quality = sample.quality /\ d.family = sample.family /\ d.conflict = sample.conflict
      /\ d.leakage = sample.leakage /\ d.dynamics = sample.dynamics
      /\ d.views.model = sample.views.model /\ d.views.weak = sample.views.weak
      /\ Reliable(sample, "neighbor") => d.views.neighbor = sample.views.neighbor
      /\ Reliable(sample, "centroid") => d.views.centroid = sample.views.centroid
      /\ Consistent(d) /\ Consistent(sample)
  BY WhatStays DEF JuryInv
<1>2. /\ NeighborsDisagree(d) = NeighborsDisagree(sample)
      /\ NeighborsAgree(d) = NeighborsAgree(sample)
      /\ OutsideCluster(d) = OutsideCluster(sample) /\ InsideCluster(d) = InsideCluster(sample)
  BY <1>1 DEF NeighborsDisagree, NeighborsAgree, OutsideCluster, InsideCluster, Reliable
<1>3. /\ ModelDisagrees(d) = ModelDisagrees(sample) /\ LabelConflict(d) = LabelConflict(sample)
      /\ ~ConsistentAlternative(d) /\ ~ConsistentAlternative(sample)
  BY <1>1 DEF ModelDisagrees, LabelConflict, ConsistentAlternative
<1>4. LabelSignals(d) = LabelSignals(sample)
  BY <1>2, <1>3 DEF LabelSignals
<1>5. /\ RareHypothesis(d) => d.quality # "high"
      /\ RareHypothesis(sample) => sample.quality # "high"
  BY <1>1 DEF RareHypothesis, Consistent, RareLike, MayBeRareValid
<1>6. Unlearnable(d) = Unlearnable(sample)
  BY <1>1, <1>3, <1>5 DEF Unlearnable
<1>7. Leaks(d) = Leaks(sample) /\ RedundantCopy(d) = RedundantCopy(sample)
  BY <1>1, <1>3 DEF Leaks, RedundantCopy
<1>8. /\ ~ConsistentMislabel(d) /\ ~ConsistentMislabel(sample)
      /\ RareOnly(d) = RareHypothesis(d) /\ RareOnly(sample) = RareHypothesis(sample)
  BY <1>3 DEF ConsistentMislabel, RareOnly, RareHypothesis
<1>9. TwoOfThree(d) = TwoOfThree(sample) /\ Conflicting(d) = Conflicting(sample)
  BY <1>2, <1>3, <1>4 DEF TwoOfThree, Conflicting
<1> QED BY <1>3, <1>6, <1>7, <1>8, <1>9

\* The verdicts on two samples that differ in nothing but the rules which a weak witness can move.
LEMMA ShieldedVerdicts ==
    ASSUME NEW c, NEW d,
           Leaks(d) = Leaks(c), RedundantCopy(d) = RedundantCopy(c),
           LabelConflict(d) = LabelConflict(c), Unlearnable(d) = Unlearnable(c),
           ~ConsistentMislabel(d), ~ConsistentMislabel(c),
           RareOnly(d) = RareHypothesis(d), RareOnly(c) = RareHypothesis(c),
           TwoOfThree(d) = TwoOfThree(c), Conflicting(d) = Conflicting(c)
    PROVE  \/ VerdictOn(d) = VerdictOn(c)
           \/ {VerdictOn(d), VerdictOn(c)} = {"REVIEW", "KEEP"}
           \/ /\ RareHypothesis(d) # RareHypothesis(c)
              /\ "LIKELY_RARE" \in {VerdictOn(d), VerdictOn(c)}
<1> DEFINE FirstFour == Leaks(c) \/ RedundantCopy(c) \/ LabelConflict(c) \/ Unlearnable(c)
<1>1. CASE FirstFour
  BY <1>1, VerdictByRules
<1>2. CASE ~FirstFour /\ RareHypothesis(d) # RareHypothesis(c)
  <2>1. RareHypothesis(d) \in BOOLEAN /\ RareHypothesis(c) \in BOOLEAN
    BY DEF RareHypothesis
  <2>2. VerdictOn(d) = "LIKELY_RARE" \/ VerdictOn(c) = "LIKELY_RARE"
    BY <1>2, <2>1, VerdictByRules
  <2> QED BY <1>2, <2>2
<1>3. CASE ~FirstFour /\ RareHypothesis(d) = RareHypothesis(c)
  <2>1. \/ VerdictOn(d) = VerdictOn(c)
        \/ VerdictOn(d) \in {"REVIEW", "KEEP"} /\ VerdictOn(c) \in {"REVIEW", "KEEP"}
    BY <1>3, VerdictByRules
  <2> QED BY <2>1
<1> QED BY <1>1, <1>2, <1>3

\* An unreliable witness reaches the verdict only through the label stage: it can have a sample
\* taken for rare or not, and add a hypothesis to review, but none relabelled, removed or
\* reviewed strongly.  For every sample, however many of its signals are out of the ordinary.
THEOREM WeakWitnessesOnlyShield == JurySpec => []WeakWitnessOnlyShields
<1>1. JuryInv => WeakWitnessOnlyShields
  <2> SUFFICES ASSUME JuryInv, docket # NoCase, sample.views.weak # {},
           NEW x \in MeasuredAnew(sample, "neighbor", {"against", "leaning", "mixed", "same"}),
           NEW y \in MeasuredAnew(sample, "centroid", {"outside", "between", "inside"}),
           NEW z \in BOOLEAN, NEW a \in Signals.action, NEW h \in Signals.hypothesis,
           Consistent(Remeasured(sample, x, y, z, a, h))
               PROVE  LET d == Remeasured(sample, x, y, z, a, h) IN
                      \/ VerdictOn(d) = docket.verdict
                      \/ {VerdictOn(d), docket.verdict} = {"REVIEW", "KEEP"}
                      \/ /\ RareHypothesis(d) # RareHypothesis(sample)
                         /\ "LIKELY_RARE" \in {VerdictOn(d), docket.verdict}
    BY Zenon DEF WeakWitnessOnlyShields
  <2> DEFINE d == Remeasured(sample, x, y, z, a, h)
  <2>v. docket.verdict = VerdictOn(sample)
    BY DEF JuryInv
  <2> HIDE DEF d
  <2>1. /\ Leaks(d) = Leaks(sample) /\ RedundantCopy(d) = RedundantCopy(sample)
        /\ LabelConflict(d) = LabelConflict(sample) /\ Unlearnable(d) = Unlearnable(sample)
        /\ ~ConsistentMislabel(d) /\ ~ConsistentMislabel(sample)
        /\ RareOnly(d) = RareHypothesis(d) /\ RareOnly(sample) = RareHypothesis(sample)
        /\ TwoOfThree(d) = TwoOfThree(sample) /\ Conflicting(d) = Conflicting(sample)
    BY RulesThatStay DEF d
  <2>2. \/ VerdictOn(d) = VerdictOn(sample)
        \/ {VerdictOn(d), VerdictOn(sample)} = {"REVIEW", "KEEP"}
        \/ /\ RareHypothesis(d) # RareHypothesis(sample)
           /\ "LIKELY_RARE" \in {VerdictOn(d), VerdictOn(sample)}
    BY <2>1, ShieldedVerdicts
  <2> QED BY <2>v, <2>2 DEF d
<1> QED BY <1>1, JuryInvariant, PTL

-----------------------------------------------------------------------------
LEMMA TwoMembers ==
    ASSUME NEW S, IsFiniteSet(S), NEW x \in S, NEW y \in S, x # y
    PROVE  Cardinality(S) >= 2
<1>1. IsFiniteSet({x}) /\ Cardinality({x}) = 1
  BY FS_Singleton
<1>2. IsFiniteSet({x} \cup {y}) /\ Cardinality({x} \cup {y}) = 2
  <2>1. IsFiniteSet({x} \cup {y}) /\ Cardinality({x} \cup {y}) = Cardinality({x}) + 1
    <3>1. y \notin {x}
      OBVIOUS
    <3> QED BY <1>1, <3>1, FS_AddElement, Zenon
  <2> QED BY <1>1, <2>1
<1>3. Cardinality({x} \cup {y}) <= Cardinality(S)
  BY FS_Subset
<1> QED BY <1>2, <1>3, FS_CardinalityType

LEMMA ProsecutionIsFinite == ASSUME NEW c PROVE IsFiniteSet(Prosecution(c))
<1>1. IsFiniteSet({"MODEL"})
  BY FS_Singleton
<1>2. IsFiniteSet({"MODEL"} \cup {"NEIGHBOR"})
  BY <1>1, FS_AddElement
<1>3. IsFiniteSet({"MODEL"} \cup {"NEIGHBOR"} \cup {"EMBEDDING"})
  BY <1>2, FS_AddElement
<1>4. IsFiniteSet({"MODEL"} \cup {"NEIGHBOR"} \cup {"EMBEDDING"} \cup {"QUALITY"})
  BY <1>3, FS_AddElement
<1>5. IsFiniteSet({"DUPLICATE"})
  BY FS_Singleton
<1>6. IsFiniteSet({"DUPLICATE"} \cup {"SPLIT"})
  BY <1>5, FS_AddElement
<1>7. IsFiniteSet({"DUPLICATE"} \cup {"SPLIT"} \cup {"DYNAMICS"})
  BY <1>6, FS_AddElement
<1>8. IsFiniteSet({"DUPLICATE"} \cup {"SPLIT"} \cup {"DYNAMICS"} \cup {"INFLUENCE"})
  BY <1>7, FS_AddElement
<1> DEFINE Witnesses == ({"MODEL"} \cup {"NEIGHBOR"} \cup {"EMBEDDING"} \cup {"QUALITY"})
                        \cup ({"DUPLICATE"} \cup {"SPLIT"} \cup {"DYNAMICS"} \cup {"INFLUENCE"})
<1>9. IsFiniteSet(Witnesses)
  BY <1>4, <1>8, FS_Union
<1>10. Prosecution(c) \subseteq Witnesses
  BY DEF Prosecution
<1> QED BY <1>9, <1>10, FS_Subset

\* Who raises a label signal speaks against the sample.
LEMMA SignalsAreWitnesses == ASSUME NEW c PROVE LabelSignals(c) \subseteq Prosecution(c)
BY DEF LabelSignals, Prosecution, ModelDisagrees, NeighborsDisagree, OutsideCluster

LEMMA VerdictHasWitnesses ==
    ASSUME NEW c
    PROVE  /\ VerdictOn(c) \in {"STRONG_REVIEW", "POSSIBLE_REMOVE", "POSSIBLE_RELABEL"} =>
                "DUPLICATE" \in Prosecution(c) \/ Cardinality(Prosecution(c)) >= 2
           /\ VerdictOn(c) = "POSSIBLE_RELABEL" => {"MODEL", "NEIGHBOR", "EMBEDDING"} \subseteq Prosecution(c)
           /\ VerdictOn(c) = "POSSIBLE_REMOVE" /\ RareHypothesis(c) => c.family = "exact"
<1>f. IsFiniteSet(Prosecution(c))
  BY ProsecutionIsFinite
<1>1. RedundantCopy(c) \/ LabelConflict(c) => "DUPLICATE" \in Prosecution(c)
  BY DEF RedundantCopy, LabelConflict, Prosecution
<1>2. ASSUME Unlearnable(c) PROVE Cardinality(Prosecution(c)) >= 2
  <2>1. "QUALITY" \in Prosecution(c)
    BY <1>2 DEF Unlearnable, Prosecution
  <2>2. "MODEL" \in Prosecution(c) \/ "DYNAMICS" \in Prosecution(c)
    BY <1>2 DEF Unlearnable, ModelDisagrees, Prosecution
  <2> QED BY <1>f, <2>1, <2>2, TwoMembers
<1>3. ASSUME ConsistentMislabel(c)
      PROVE  {"MODEL", "NEIGHBOR", "EMBEDDING"} \subseteq Prosecution(c) /\ Cardinality(Prosecution(c)) >= 2
  <2>1. {"MODEL", "NEIGHBOR", "EMBEDDING"} \subseteq Prosecution(c)
    BY <1>3 DEF ConsistentMislabel, HighModelDisagreement, NeighborsDisagree, OutsideCluster, Prosecution
  <2> QED BY <1>f, <2>1, TwoMembers
<1>4. ASSUME TwoOfThree(c) PROVE Cardinality(Prosecution(c)) >= 2
  <2>1. IsFiniteSet(LabelSignals(c)) /\ Cardinality(LabelSignals(c)) <= Cardinality(Prosecution(c))
    BY <1>f, SignalsAreWitnesses, FS_Subset
  <2>2. Cardinality(LabelSignals(c)) \in Nat /\ Cardinality(Prosecution(c)) \in Nat
    BY <1>f, <2>1, FS_CardinalityType
  <2> QED BY <1>4, <2>1, <2>2 DEF TwoOfThree
<1>5. /\ RedundantCopy(c) => c.family = "exact"
      /\ Unlearnable(c) => ~RareHypothesis(c)
  BY DEF RedundantCopy, Unlearnable
<1> QED BY <1>1, <1>2, <1>3, <1>4, <1>5, OneRuleDecides

\* No signal alone convicts, whatever has been measured of a sample.
THEOREM NoSignalAloneConvicts == JurySpec => []ConvictionsHaveWitnesses
<1>1. JuryInv => ConvictionsHaveWitnesses
  <2>1. CASE docket = NoCase
    BY <2>1 DEF NoCase, ConvictionsHaveWitnesses
  <2>2. ASSUME JuryInv, docket # NoCase PROVE ConvictionsHaveWitnesses
    <3>1. docket.verdict = VerdictOn(sample) /\ docket.against = Prosecution(sample)
      BY <2>2 DEF JuryInv
    <3> QED BY <3>1, VerdictHasWitnesses DEF ConvictionsHaveWitnesses
  <2> QED BY <2>1, <2>2
<1> QED BY <1>1, JuryInvariant, PTL

-----------------------------------------------------------------------------
(* Debt, gate and contracts *)

GovernanceInv ==
    /\ background \in Backgrounds /\ contract \in RuleSets
    /\ override \in {NoOverride, 0, 1} /\ audits \in Nat

LEMMA NextGovernanceInv == GovernanceInv /\ [GovernanceNext]_governanceVars => GovernanceInv'
<1> SUFFICES ASSUME GovernanceInv, [GovernanceNext]_governanceVars PROVE GovernanceInv'
  OBVIOUS
<1> USE DEF GovernanceInv
<1>1. ASSUME NEW c \in Court, DecideCase(c) \/ DisputeCase(c) \/ ReopenCase(c) \/ ResolveCase(c)
      PROVE  GovernanceInv'
  BY <1>1 DEF DecideCase, DisputeCase, ReopenCase, ResolveCase, SetStatus
<1>2. ASSUME NEW gate \in {0, 1}, OverridePreflight(gate) PROVE GovernanceInv'
  BY <1>2 DEF OverridePreflight
<1>3. ASSUME NEW rules \in RuleSets, PutContract(rules) PROVE GovernanceInv'
  BY <1>3 DEF PutContract
<1>4. ASSUME AuditAgain PROVE GovernanceInv'
  BY <1>4 DEF AuditAgain
<1>5. CASE UNCHANGED governanceVars
  BY <1>5 DEF governanceVars
<1> QED BY <1>1, <1>2, <1>3, <1>4, <1>5 DEF GovernanceNext

LEMMA GovernanceInvariant == GovernanceSpec => []GovernanceInv
<1>1. GovernanceInit => GovernanceInv
  BY DEF GovernanceInit, GovernanceInv
<1>2. GovernanceInv /\ [GovernanceNext]_governanceVars => GovernanceInv' BY NextGovernanceInv
<1> QED BY <1>1, <1>2, PTL DEF GovernanceSpec

-----------------------------------------------------------------------------
(* Everything that is counted is counted of no more cases. *)

LEMMA Fewer ==
    ASSUME NEW S, IsFiniteSet(S), NEW T \in SUBSET S
    PROVE  Cardinality(T) \in Nat /\ Cardinality(S) \in Nat /\ Cardinality(T) <= Cardinality(S)
BY FS_Subset, FS_CardinalityType

LEMMA LevelRises ==
    ASSUME NEW m \in Nat, NEW n \in Nat, m <= n, NEW base \in Nat,
           NEW moderate \in Nat, NEW high \in Nat, NEW critical \in Nat
    PROVE  /\ LevelAt(m, base, moderate, high, critical) \in 0..3
           /\ LevelAt(n, base, moderate, high, critical) \in 0..3
           /\ LevelAt(m, base, moderate, high, critical) <= LevelAt(n, base, moderate, high, critical)
<1>1. critical * base \in Nat /\ high * base \in Nat /\ moderate * base \in Nat
  OBVIOUS
<1>2. ASSUME NEW a \in Nat, NEW b \in Nat, NEW c \in Nat
      PROVE  LET Level(k) == IF 1000 * k >= a THEN 3 ELSE IF 1000 * k >= b THEN 2
                             ELSE IF 1000 * k >= c THEN 1 ELSE 0
             IN  Level(m) \in 0..3 /\ Level(n) \in 0..3 /\ Level(m) <= Level(n)
  OBVIOUS
<1> QED BY <1>1, <1>2 DEF LevelAt

\* No dimension worse, then the whole is not worse either.
LEMMA DebtRises ==
    ASSUME NEW D, IsFiniteSet(D), NEW less \in [D -> 0..3], NEW more \in [D -> 0..3],
           \A d \in D : less[d] <= more[d]
    PROVE  /\ DebtOf(less) \in 0..3 /\ DebtOf(more) \in 0..3
           /\ DebtOf(less) <= DebtOf(more)
<1>1. /\ \A rank : LevelsAt(less, rank) \subseteq D /\ LevelsAt(more, rank) \subseteq D
      /\ \A rank, d : d \in LevelsAt(less, rank) <=> d \in D /\ less[d] = rank
      /\ \A rank, d : d \in LevelsAt(more, rank) <=> d \in D /\ more[d] = rank
  BY DEF LevelsAt
<1>2. DebtOf(less) \in 0..3 /\ DebtOf(more) \in 0..3
  BY DEF DebtOf
<1>3. CASE LevelsAt(less, 3) # {}
  <2>1. LevelsAt(more, 3) # {}
    BY <1>1, <1>3
  <2> QED BY <1>2, <2>1 DEF DebtOf
<1>4. CASE LevelsAt(less, 3) = {} /\ LevelsAt(less, 2) # {}
  <2>1. LevelsAt(more, 3) # {} \/ LevelsAt(more, 2) # {}
    BY <1>1, <1>4
  <2> QED BY <1>2, <1>4, <2>1 DEF DebtOf
<1>5. CASE LevelsAt(less, 3) = {} /\ LevelsAt(less, 2) = {}
  <2>1. CASE LevelsAt(more, 3) # {} \/ LevelsAt(more, 2) # {}
    BY <1>2, <1>5, <2>1 DEF DebtOf
  <2>2. CASE LevelsAt(more, 3) = {} /\ LevelsAt(more, 2) = {}
    <3>1. LevelsAt(less, 1) \subseteq LevelsAt(more, 1)
      BY <1>1, <1>5, <2>2
    <3>2. IsFiniteSet(LevelsAt(more, 1))
      BY <1>1, FS_Subset
    <3>3. /\ Cardinality(LevelsAt(less, 1)) \in Nat /\ Cardinality(LevelsAt(more, 1)) \in Nat
          /\ Cardinality(LevelsAt(less, 1)) <= Cardinality(LevelsAt(more, 1))
      BY <3>1, <3>2, Fewer
    <3> QED BY <1>5, <2>2, <3>1, <3>3 DEF DebtOf
  <2> QED BY <2>1, <2>2
<1> QED BY <1>2, <1>3, <1>4, <1>5

-----------------------------------------------------------------------------
\* st2 follows from st by review work.
Settles(st, st2) ==
    /\ Unresolved(st2) \subseteq Unresolved(st)
    /\ \A c \in Court : st2[c] = "disputed" => st[c] = "disputed"

LEMMA CountsFall ==
    ASSUME NEW v, NEW st, NEW st2, Settles(st, st2)
    PROVE  /\ Cardinality(LabelStrong(v, st2)) <= Cardinality(LabelStrong(v, st))
           /\ Cardinality(LabelReview(v, st2)) <= Cardinality(LabelReview(v, st))
           /\ Cardinality(HighPriority(v, st2)) <= Cardinality(HighPriority(v, st))
           /\ Cardinality(EvalLeaking(st2)) <= Cardinality(EvalLeaking(st))
           /\ Cardinality(ExactLeaking(st2)) <= Cardinality(ExactLeaking(st))
           /\ EvalLeaking(st) = {} => EvalLeaking(st2) = {}
           /\ ExactLeaking(st) = {} => ExactLeaking(st2) = {}
<1>1. /\ LabelStrong(v, st2) \subseteq LabelStrong(v, st)
      /\ LabelReview(v, st2) \subseteq LabelReview(v, st)
      /\ EvalLeaking(st2) \subseteq EvalLeaking(st) /\ ExactLeaking(st2) \subseteq ExactLeaking(st)
  BY DEF Settles, LabelStrong, LabelReview, EvalLeaking, ExactLeaking
<1>2. HighPriority(v, st2) \subseteq HighPriority(v, st)
  BY DEF Settles, HighPriority, Unresolved
<1>3. Unresolved(st) \subseteq Court
  BY DEF Unresolved
<1>4. /\ LabelStrong(v, st) \subseteq Court /\ LabelReview(v, st) \subseteq Court
      /\ HighPriority(v, st) \subseteq Court
      /\ EvalLeaking(st) \subseteq Court /\ ExactLeaking(st) \subseteq Court
  BY <1>3 DEF LabelStrong, LabelReview, HighPriority, EvalLeaking, ExactLeaking
<1>5. /\ IsFiniteSet(LabelStrong(v, st)) /\ IsFiniteSet(LabelReview(v, st))
      /\ IsFiniteSet(HighPriority(v, st))
      /\ IsFiniteSet(EvalLeaking(st)) /\ IsFiniteSet(ExactLeaking(st))
  BY <1>4, GovernanceAssumption, FS_Subset
<1> QED BY <1>1, <1>2, <1>5, Fewer

LEMMA Counts ==
    ASSUME NEW v, NEW st
    PROVE  /\ Cardinality(LabelStrong(v, st)) \in Nat /\ Cardinality(LabelReview(v, st)) \in Nat
           /\ Cardinality(HighPriority(v, st)) \in Nat
           /\ Cardinality(EvalLeaking(st)) \in Nat /\ Cardinality(ExactLeaking(st)) \in Nat
<1>1. Unresolved(st) \subseteq Court
  BY DEF Unresolved
<1>2. /\ LabelStrong(v, st) \subseteq Court /\ LabelReview(v, st) \subseteq Court
      /\ HighPriority(v, st) \subseteq Court
      /\ EvalLeaking(st) \subseteq Court /\ ExactLeaking(st) \subseteq Court
  BY <1>1 DEF LabelStrong, LabelReview, HighPriority, EvalLeaking, ExactLeaking
<1> QED BY <1>2, GovernanceAssumption, Fewer

LEMMA LevelsFall ==
    ASSUME NEW v, NEW st, NEW st2, Settles(st, st2)
    PROVE  /\ LabelDebt(v, st2) \in 0..3 /\ LabelDebt(v, st) \in 0..3
           /\ LabelDebt(v, st2) <= LabelDebt(v, st)
           /\ LeakageDebt(st2) \in 0..3 /\ LeakageDebt(st) \in 0..3
           /\ LeakageDebt(st2) <= LeakageDebt(st)
           /\ ReviewDebt(v, st2) \in 0..3 /\ ReviewDebt(v, st) \in 0..3
           /\ ReviewDebt(v, st2) <= ReviewDebt(v, st)
<1> USE GovernanceAssumption
<1>1. /\ LabelDebt(v, st2) \in 0..3 /\ LabelDebt(v, st) \in 0..3
      /\ LabelDebt(v, st2) <= LabelDebt(v, st)
  <2> DEFINE m == 2 * Cardinality(LabelStrong(v, st2)) + Cardinality(LabelReview(v, st2))
             n == 2 * Cardinality(LabelStrong(v, st)) + Cardinality(LabelReview(v, st))
  <2>1. m \in Nat /\ n \in Nat /\ m <= n /\ 2 * SampleCount \in Nat
    BY Counts, CountsFall
  <2> HIDE DEF m, n
  <2>2. /\ LevelAt(m, 2 * SampleCount, 10, 30, 80) \in 0..3
        /\ LevelAt(n, 2 * SampleCount, 10, 30, 80) \in 0..3
        /\ LevelAt(m, 2 * SampleCount, 10, 30, 80) <= LevelAt(n, 2 * SampleCount, 10, 30, 80)
    BY <2>1, LevelRises
  <2> QED BY <2>2 DEF LabelDebt, m, n
<1>2. /\ LeakageDebt(st2) \in 0..3 /\ LeakageDebt(st) \in 0..3
      /\ LeakageDebt(st2) <= LeakageDebt(st)
  <2> DEFINE Level(s) == IF EvalCount = 0 THEN 0
                         ELSE LevelAt(Cardinality(EvalLeaking(s)), EvalCount, 5, 20, 50)
  <2>1. Level(st2) \in 0..3 /\ Level(st) \in 0..3 /\ Level(st2) <= Level(st)
    <3> DEFINE m == Cardinality(EvalLeaking(st2))
               n == Cardinality(EvalLeaking(st))
    <3>1. m \in Nat /\ n \in Nat /\ m <= n
      BY Counts, CountsFall
    <3> HIDE DEF m, n
    <3>2. /\ LevelAt(m, EvalCount, 5, 20, 50) \in 0..3 /\ LevelAt(n, EvalCount, 5, 20, 50) \in 0..3
          /\ LevelAt(m, EvalCount, 5, 20, 50) <= LevelAt(n, EvalCount, 5, 20, 50)
      BY <3>1, LevelRises
    <3> QED BY <3>2 DEF m, n
  <2>2. /\ LeakageDebt(st2) = IF ExactLeaking(st2) # {} /\ Level(st2) < 2 THEN 2 ELSE Level(st2)
        /\ LeakageDebt(st) = IF ExactLeaking(st) # {} /\ Level(st) < 2 THEN 2 ELSE Level(st)
    BY DEF LeakageDebt
  <2> HIDE DEF Level
  <2>3. ExactLeaking(st) = {} => ExactLeaking(st2) = {}
    BY CountsFall
  <2> QED BY <2>1, <2>2, <2>3
<1>3. /\ ReviewDebt(v, st2) \in 0..3 /\ ReviewDebt(v, st) \in 0..3
      /\ ReviewDebt(v, st2) <= ReviewDebt(v, st)
  <2> DEFINE m == Cardinality(HighPriority(v, st2))
             n == Cardinality(HighPriority(v, st))
  <2>1. m \in Nat /\ n \in Nat /\ m <= n
    BY Counts, CountsFall
  <2> HIDE DEF m, n
  <2>2. /\ LevelAt(m, SampleCount, 10, 30, 80) \in 0..3 /\ LevelAt(n, SampleCount, 10, 30, 80) \in 0..3
        /\ LevelAt(m, SampleCount, 10, 30, 80) <= LevelAt(n, SampleCount, 10, 30, 80)
    BY <2>1, LevelRises
  <2> QED BY <2>2 DEF ReviewDebt, m, n
<1> QED BY <1>1, <1>2, <1>3

LEMMA DebtFalls ==
    ASSUME NEW v, NEW st, NEW st2, Settles(st, st2), NEW b \in Backgrounds
    PROVE  /\ Debt(v, st2, b) \in 0..3 /\ Debt(v, st, b) \in 0..3
           /\ Debt(v, st2, b) <= Debt(v, st, b)
<1> DEFINE D == {"label", "leakage", "review"} \cup DOMAIN b.levels
<1>1. IsFiniteSet(D)
  <2>1. IsFiniteSet(DOMAIN b.levels)
    BY GovernanceAssumption
  <2>2. IsFiniteSet(DOMAIN b.levels \cup {"label"} \cup {"leakage"} \cup {"review"})
    BY <2>1, FS_AddElement
  <2>3. D = DOMAIN b.levels \cup {"label"} \cup {"leakage"} \cup {"review"}
    OBVIOUS
  <2> QED BY <2>2, <2>3
<1>2. /\ DebtLevels(v, st2, b) \in [D -> 0..3] /\ DebtLevels(v, st, b) \in [D -> 0..3]
      /\ \A d \in D : DebtLevels(v, st2, b)[d] <= DebtLevels(v, st, b)[d]
  BY LevelsFall, GovernanceAssumption DEF DebtLevels
<1> HIDE DEF D
<1> QED BY <1>1, <1>2, DebtRises DEF Debt

LEMMA GateFalls ==
    ASSUME NEW v, NEW st, NEW st2, Settles(st, st2), NEW b \in Backgrounds
    PROVE  /\ Preflight(v, st2, b) \in 0..2 /\ Preflight(v, st, b) \in 0..2
           /\ Preflight(v, st2, b) <= Preflight(v, st, b)
<1>1. Blocking(v, st2) => Blocking(v, st)
  <2> DEFINE m == Cardinality(HighPriority(v, st2))
             n == Cardinality(HighPriority(v, st))
  <2>1. m \in Nat /\ n \in Nat /\ m <= n /\ (ExactLeaking(st) = {} => ExactLeaking(st2) = {})
    BY Counts, CountsFall
  <2>2. /\ Blocking(v, st2) <=> ExactLeaking(st2) # {} \/ 10 * m > SampleCount
        /\ Blocking(v, st) <=> ExactLeaking(st) # {} \/ 10 * n > SampleCount
    BY DEF Blocking
  <2> HIDE DEF m, n
  <2> QED BY <2>1, <2>2, GovernanceAssumption
<1>2. Warning(v, st2) => Warning(v, st)
  BY CountsFall DEF Warning, Settles
<1> QED BY <1>1, <1>2 DEF Preflight

\* A contract that is kept stays kept.
LEMMA ContractKept ==
    ASSUME NEW v, NEW st, NEW st2, Settles(st, st2), NEW b \in Backgrounds,
           NEW gate \in 0..2, NEW gate2 \in 0..2, gate2 <= gate,
           NEW rules \in RuleSets, Keeps(rules, v, st, b, gate)
    PROVE  Keeps(rules, v, st2, b, gate2)
<1> SUFFICES ASSUME NEW r \in rules PROVE Measured(r.metric, v, st2, b, gate2) <= r.most
  BY DEF Keeps
<1>1. r.metric \in Metrics /\ r.most \in Int /\ Measured(r.metric, v, st, b, gate) <= r.most
  BY GovernanceAssumption DEF Keeps
<1>2. CASE r.metric \in {"exact_cross_split_duplicates", "leakage_eval_samples"}
  BY <1>1, <1>2, Counts, CountsFall DEF Measured
<1>3. CASE r.metric = "leakage_findings_high"
  BY <1>1, <1>3 DEF Measured
<1>4. CASE r.metric \in {"unresolved_strong_review_cases", "unresolved_high_priority_cases"}
  BY <1>1, <1>4, Counts, CountsFall DEF Measured
<1>5. CASE r.metric = "debt_level"
  BY <1>1, <1>5, DebtFalls DEF Measured
<1>6. CASE r.metric = "preflight_status"
  BY <1>1, <1>6 DEF Measured
<1> QED BY <1>1, <1>2, <1>3, <1>4, <1>5, <1>6 DEF Metrics

\* With no case unresolved the gate is that of the rest of the audit.
LEMMA SettledGate ==
    ASSUME GovernanceInv, AllSettled PROVE LiveGate = background.gate
<1>1. Unresolved(status) = {}
  BY DEF AllSettled, Unresolved
<1>2. /\ HighPriority(verdict, status) = {}
      /\ EvalLeaking(status) = {} /\ ExactLeaking(status) = {}
  BY <1>1 DEF HighPriority, EvalLeaking, ExactLeaking
<1>3. ~Blocking(verdict, status) /\ ~Warning(verdict, status)
  BY <1>1, <1>2, FS_EmptySet, GovernanceAssumption DEF Blocking, Warning
<1>4. background.gate \in 0..2
  BY GovernanceAssumption DEF GovernanceInv
<1> QED BY <1>3, <1>4 DEF LiveGate, Preflight

\* For any number of cases, any thresholds of a contract and any other findings: review work
\* never makes the gate, the debt or a kept contract worse, and can clear what the cases block.
THEOREM ReviewIsMonotone == GovernanceSpec => ReviewNeverWorsens
<1>1. ASSUME GovernanceInv, GovernanceInv', [GovernanceNext]_governanceVars, NothingNew
      PROVE  /\ LiveGate' <= LiveGate
             /\ Debt(verdict, status, background)' <= Debt(verdict, status, background)
             /\ Passed => Passed'
  <2>1. verdict' = verdict /\ background' = background
    <3>1. ASSUME NEW c \in Court, DecideCase(c) \/ DisputeCase(c) \/ ReopenCase(c) \/ ResolveCase(c)
          PROVE  verdict' = verdict /\ background' = background
      BY <3>1 DEF DecideCase, DisputeCase, ReopenCase, ResolveCase, SetStatus
    <3>2. ~AuditAgain
      BY <1>1 DEF NothingNew, AuditAgain, GovernanceInv
    <3>3. \A gate : ~OverridePreflight(gate)
      BY <1>1 DEF NothingNew, OverridePreflight
    <3>4. \A rules : ~PutContract(rules)
      BY <1>1 DEF NothingNew, PutContract
    <3> QED BY <1>1, <3>1, <3>2, <3>3, <3>4 DEF GovernanceNext, governanceVars
  <2>2. Settles(status, status')
    BY <1>1 DEF NothingNew, Settles
  <2>3. background \in Backgrounds /\ contract \in RuleSets
    BY <1>1 DEF GovernanceInv
  <2>4. LiveGate' \in 0..2 /\ LiveGate \in 0..2 /\ LiveGate' <= LiveGate
    BY <2>1, <2>2, <2>3, GateFalls DEF LiveGate
  <2>5. Debt(verdict, status, background)' <= Debt(verdict, status, background)
    BY <2>1, <2>2, <2>3, DebtFalls
  <2>6. EffectiveGate' \in 0..2 /\ EffectiveGate \in 0..2 /\ EffectiveGate' <= EffectiveGate
    <3>1. override' = override /\ override \in {NoOverride, 0, 1}
      BY <1>1 DEF NothingNew, GovernanceInv
    <3> QED BY <2>4, <3>1 DEF EffectiveGate
  <2>7. ASSUME Passed PROVE Passed'
    <3>1. Keeps(contract, verdict, status, background, EffectiveGate) /\ EffectiveGate # 2
      BY <2>7 DEF Passed
    <3>2. Keeps(contract, verdict, status', background, EffectiveGate')
      BY <2>2, <2>3, <2>6, <3>1, ContractKept
    <3>3. contract' = contract /\ EffectiveGate' # 2
      BY <1>1, <2>6, <3>1 DEF NothingNew
    <3> QED BY <2>1, <3>2, <3>3 DEF Passed
  <2> QED BY <2>4, <2>5, <2>7
<1>2. GovernanceInv /\ AllSettled => LiveGate = background.gate
  BY SettledGate
<1>p. (GovernanceInv /\ AllSettled => LiveGate = background.gate)'
  BY <1>2, PTL
<1> DEFINE Step == /\ NothingNew => /\ LiveGate' <= LiveGate
                                    /\ Debt(verdict, status, background)' <= Debt(verdict, status, background)
                                    /\ Passed => Passed'
                   /\ AllSettled' => LiveGate' = background'.gate
<1>3. GovernanceInv /\ GovernanceInv' /\ [GovernanceNext]_governanceVars => [Step]_governanceVars
  BY <1>1, <1>p
<1> QED BY <1>3, GovernanceInvariant, PTL DEF GovernanceSpec, ReviewNeverWorsens
=============================================================================
