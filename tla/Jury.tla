-------------------------------- MODULE Jury --------------------------------
(***************************************************************************)
(* How the findings about one sample become a court case (ml/jury.py and   *)
(* stage_cases in pipeline/stages.py).  The stages measure one signal      *)
(* after the other; the jury turns them into reason codes, takes the       *)
(* verdict of the first rule that matches, and calls the witnesses.  A     *)
(* measurement is the range of the default thresholds it falls in.         *)
(***************************************************************************)
EXTENDS Integers, Sequences, FiniteSets

CONSTANT MaxSignals     \* bound: how many signals of a sample are out of the ordinary

ASSUME JuryAssumption == MaxSignals \in Nat

VARIABLES
    sample,     \* what has been measured
    stage,      \* the next stage
    docket      \* the case: verdict and who speaks against the sample, or NoCase

juryVars == <<sample, stage, docket>>

(* model: another class is preferred and p(given) < 0.2, < 0.4 or more; the same class is, with  *)
(* p(given) < 0.6; p(given) >= 0.6.  neighbor: less than 0.35 or less than 0.4 share the label   *)
(* and half of them another one; neither; at least 0.6.  centroid: ratio >= 0.55, between,       *)
(* < 0.45.  weak: the witnesses below the minimal reliability.  alternative: the three name the  *)
(* same other class.                                                                             *)
Views ==
    {v \in [model : {"strong", "some", "leaning", "unsure", "agrees"},
            neighbor : {"against", "leaning", "mixed", "same"},
            centroid : {"outside", "between", "inside"},
            weak : SUBSET {"neighbor", "centroid"},
            alternative : BOOLEAN] :
        v.alternative => v.model \in {"strong", "some", "leaning"}}

Unseen == [model |-> "none", neighbor |-> "none", centroid |-> "none", weak |-> {}, alternative |-> FALSE]
Ordinary == [model |-> "agrees", neighbor |-> "same", centroid |-> "inside", weak |-> {}, alternative |-> FALSE]

(* action and hypothesis: what the label stage makes of the views and of what is not kept here    *)
(* (density, attributes, the gap between two classes); a rare sample need not be suspicious, and  *)
(* other is mislabeled, ambiguous or from another domain, which the rules treat alike.  family:   *)
(* none, its root, a copy that is exact or near; conflict: its labels differ.  influence: harms   *)
(* as many failures as make a code, or one.                                                       *)
Signals == [
    quality  |-> {"none", "low", "medium", "high"},
    family   |-> {"none", "root", "exact", "near"},
    conflict |-> BOOLEAN,
    leakage  |-> {"none", "low", "medium", "high"},
    views    |-> Views \cup {Unseen},
    dynamics |-> {"none", "hard", "forgotten"},
    influence |-> {"none", "self", "harms one", "harms"},
    action   |-> {"none", "suspicious", "rare", "rare and suspicious"},
    hypothesis |-> {"none", "rare_valid", "other"}]

Blank == [quality |-> "none", family |-> "none", conflict |-> FALSE, leakage |-> "none",
          views |-> Ordinary, dynamics |-> "none", influence |-> "none", action |-> "none",
          hypothesis |-> "none"]

Stages == <<"quality", "family", "conflict", "leakage", "views", "dynamics", "influence",
            "action", "hypothesis", "cases">>

NoCase == [verdict |-> "none", against |-> {}]

JuryInit == sample = Blank /\ stage = 1 /\ docket = NoCase

-----------------------------------------------------------------------------
(* reason_codes: one predicate for each code the rules look at *)

Reliable(c, w) == w \notin c.views.weak
HighModelDisagreement(c) == c.views.model = "strong"
ModelDisagrees(c) == c.views.model \in {"strong", "some"}

\* Mutant: a weak witness still produces codes.
NeighborsDisagree_Weak(c) == c.views.neighbor = "against"

NeighborsDisagree(c) == Reliable(c, "neighbor") /\ c.views.neighbor = "against"
NeighborsAgree(c) == Reliable(c, "neighbor") /\ c.views.neighbor = "same"
OutsideCluster(c) == Reliable(c, "centroid") /\ c.views.centroid = "outside"
InsideCluster(c) == Reliable(c, "centroid") /\ c.views.centroid = "inside"
ConsistentAlternative(c) == c.views.alternative /\ c.views.weak = {}
LabelConflict(c) == c.family # "none" /\ c.conflict
RareHypothesis(c) == c.hypothesis = "rare_valid" \/ c.action \in {"rare", "rare and suspicious"}
OtherHypothesis(c) == ~RareHypothesis(c) /\ c.hypothesis = "other"

LabelSignals(c) ==
    {w \in {"MODEL", "NEIGHBOR", "EMBEDDING"} :
        \/ w = "MODEL" /\ ModelDisagrees(c)
        \/ w = "NEIGHBOR" /\ NeighborsDisagree(c)
        \/ w = "EMBEDDING" /\ OutsideCluster(c)}

-----------------------------------------------------------------------------
(* deliberate: the rules, in their order *)

Leaks(c) == c.leakage \in {"medium", "high"}
RedundantCopy(c) == c.family = "exact" /\ ~LabelConflict(c)

Unlearnable(c) ==
    c.quality = "high" /\ (ModelDisagrees(c) \/ c.dynamics = "hard") /\ ~RareHypothesis(c)

ConsistentMislabel(c) ==
    /\ HighModelDisagreement(c) /\ NeighborsDisagree(c) /\ OutsideCluster(c)
    /\ ConsistentAlternative(c) /\ c.quality # "high"

RareOnly(c) == RareHypothesis(c) /\ ~ConsistentAlternative(c)

\* Mutant: one signal is enough for a strong review.
TwoOfThree_One(c) == LabelSignals(c) # {}

TwoOfThree(c) == Cardinality(LabelSignals(c)) >= 2
Conflicting(c) == ModelDisagrees(c) /\ NeighborsAgree(c) /\ InsideCluster(c)
SingleSignal(c) ==
    \/ LabelSignals(c) # {} \/ c.quality \in {"medium", "high"} \/ c.leakage = "low"
    \/ c.influence = "harms" \/ c.family = "near" \/ OtherHypothesis(c)

Rules(c) ==
    <<[holds |-> Leaks(c), verdict |-> "LEAKAGE_ACTION_NEEDED"],
      [holds |-> RedundantCopy(c), verdict |-> "POSSIBLE_REMOVE"],
      [holds |-> LabelConflict(c), verdict |-> "STRONG_REVIEW"],
      [holds |-> Unlearnable(c), verdict |-> "POSSIBLE_REMOVE"],
      [holds |-> ConsistentMislabel(c), verdict |-> "POSSIBLE_RELABEL"],
      [holds |-> RareOnly(c), verdict |-> "LIKELY_RARE"],
      [holds |-> TwoOfThree(c), verdict |-> "STRONG_REVIEW"],
      [holds |-> Conflicting(c), verdict |-> "UNCERTAIN"],
      [holds |-> SingleSignal(c), verdict |-> "REVIEW"],
      [holds |-> TRUE, verdict |-> "KEEP"]>>

FirstRule(rules) == CHOOSE n \in 1..10 : rules[n].holds /\ \A k \in 1..(n - 1) : ~rules[k].holds
VerdictOn(c) == LET rules == Rules(c) IN rules[FirstRule(rules)].verdict

\* witnesses: those who speak for the prosecution.  Their thresholds are their own.
Prosecution(c) ==
    {w \in {"MODEL", "NEIGHBOR", "EMBEDDING", "QUALITY", "DUPLICATE", "SPLIT", "DYNAMICS", "INFLUENCE"} :
        \/ w = "MODEL" /\ c.views.model \in {"strong", "some"}
        \/ w = "NEIGHBOR" /\ Reliable(c, "neighbor") /\ c.views.neighbor \in {"against", "leaning"}
        \/ w = "EMBEDDING" /\ Reliable(c, "centroid") /\ c.views.centroid = "outside"
        \/ w = "QUALITY" /\ c.quality \in {"medium", "high"}
        \/ w = "DUPLICATE" /\ c.family # "none" /\ (c.conflict \/ c.family # "root")
        \/ w = "SPLIT" /\ c.leakage # "none"
        \/ w = "DYNAMICS" /\ c.dynamics \in {"hard", "forgotten"}
        \/ w = "INFLUENCE" /\ c.influence \in {"harms one", "harms"}}

-----------------------------------------------------------------------------
(* The stages *)

Unusual(c) == {f \in DOMAIN Blank : c[f] # Blank[f]}

\* score_labels: suspicion is a weighted mean of what the witnesses say, weak ones included with
\* less weight; rare_like asks the witnesses whether they are weak or not.
MaySuspect(c) ==
    \/ c.views.model # "agrees" \/ c.views.neighbor # "same" \/ c.views.centroid # "inside"
    \/ c.conflict \/ c.dynamics # "none"
RareLike(c) ==
    /\ c.views.model # "agrees" /\ c.views.neighbor \notin {"against", "leaning"}
    /\ c.views.centroid # "outside" /\ c.quality \notin {"medium", "high"}

\* rare_or_wrong: poor quality scores higher than any rarity, and as high as that of a sample
\* which neighbours and centroid do not know.
MayBeRareValid(c) ==
    /\ c.quality # "high"
    /\ ~(c.quality = "medium" /\ c.views.neighbor \in {"against", "leaning"}
         /\ c.views.centroid = "outside")

\* What the label stage may say of what it has seen.
Consistent(c) ==
    /\ c.conflict => c.family # "none"
    /\ c.views = Unseen => c.action = "none" /\ c.hypothesis = "none" /\ c.dynamics = "none"
    /\ c.action \in {"suspicious", "rare and suspicious"} => MaySuspect(c)
    /\ c.action \in {"rare", "rare and suspicious"} => RareLike(c)
    /\ c.hypothesis = "rare_valid" => MayBeRareValid(c)

Measure ==
    /\ stage < Len(Stages)
    /\ \E value \in Signals[Stages[stage]] :
        /\ sample' = [sample EXCEPT ![Stages[stage]] = value]
        /\ Consistent(sample') /\ Cardinality(Unusual(sample')) <= MaxSignals
    /\ stage' = stage + 1
    /\ UNCHANGED docket

\* stage_cases: which samples are looked at, and which of them are kept.
Candidate(c) ==
    \/ c.action # "none" \/ c.leakage # "none" \/ c.family \in {"exact", "near"} \/ LabelConflict(c)
    \/ c.quality \in {"medium", "high"} \/ c.influence \in {"self", "harms"}

LeftOut(c) == VerdictOn(c) = "KEEP" /\ c.action \in {"none", "rare"}

Hear ==
    /\ stage = Len(Stages)
    /\ docket' = IF Candidate(sample) /\ ~LeftOut(sample)
                 THEN [verdict |-> VerdictOn(sample), against |-> Prosecution(sample)]
                 ELSE NoCase
    /\ stage' = stage + 1
    /\ UNCHANGED sample

JuryNext == Measure \/ Hear
JurySpec == JuryInit /\ [][JuryNext]_juryVars

-----------------------------------------------------------------------------
(* Properties *)

\* The sample had its weak witnesses measured anything else, with all that the label stage, which
\* listens to them, may then say of it.
MeasuredAnew(c, w, values) == IF Reliable(c, w) THEN {c.views[w]} ELSE values
Remeasured(c, x, y, z, a, h) ==
    [c EXCEPT !.views = [@ EXCEPT !.neighbor = x, !.centroid = y, !.alternative = z],
              !.action = a, !.hypothesis = h]

\* "Witnesses with reliability below 0.35 don't produce jury reason codes": what an unreliable
\* witness has measured reaches the verdict only through the label stage.  With any other
\* measurement of it the sample gets the same verdict, unless it is then taken for rare, or no
\* longer, or a hypothesis is all there is to review.  So no such witness has a sample
\* relabelled or removed, or counts as a signal against it.
WeakWitnessOnlyShields ==
    docket # NoCase /\ sample.views.weak # {} =>
        \A x \in MeasuredAnew(sample, "neighbor", {"against", "leaning", "mixed", "same"}),
           y \in MeasuredAnew(sample, "centroid", {"outside", "between", "inside"}),
           z \in BOOLEAN, a \in Signals.action, h \in Signals.hypothesis :
            LET d == Remeasured(sample, x, y, z, a, h) IN
            Consistent(d) =>
                \/ VerdictOn(d) = docket.verdict
                \/ {VerdictOn(d), docket.verdict} = {"REVIEW", "KEEP"}
                \/ /\ RareHypothesis(d) # RareHypothesis(sample)
                   /\ "LIKELY_RARE" \in {VerdictOn(d), docket.verdict}

\* No signal alone convicts: a case that asks to change or remove a sample, or for a strong
\* review, has two witnesses against the sample, or its duplicates; to relabel it, the model,
\* the neighbours and the centroid agree, none of them weak.  "Rare-valid samples get a protect
\* from removal recommendation": one of those is to be removed as an exact copy only.
ConvictionsHaveWitnesses ==
    /\ docket.verdict \in {"STRONG_REVIEW", "POSSIBLE_REMOVE", "POSSIBLE_RELABEL"} =>
        "DUPLICATE" \in docket.against \/ Cardinality(docket.against) >= 2
    /\ docket.verdict = "POSSIBLE_RELABEL" => {"MODEL", "NEIGHBOR", "EMBEDDING"} \subseteq docket.against
    /\ docket.verdict = "POSSIBLE_REMOVE" /\ RareHypothesis(sample) => sample.family = "exact"
=============================================================================
