----------------------------- MODULE Governance -----------------------------
(***************************************************************************)
(* Debt, preflight gate and data contract of a version while its cases are *)
(* reviewed (ml/governance.py, pipeline/facts.py, and the routes of        *)
(* api/routers/findings.py and api/routers/system.py that evaluate them    *)
(* anew at every request).  What an audit has found besides the cases and  *)
(* the leakage is one given result.  Levels and statuses are their ranks:  *)
(* LOW 0 to CRITICAL 3, READY 0, READY_WITH_WARNINGS 1, BLOCKED 2.         *)
(***************************************************************************)
EXTENDS Integers, FiniteSets

CONSTANTS
    Court,          \* samples with a case
    Courts,         \* verdicts an audit may reach: functions from Court
    LabelCases,     \* cases of the category label
    EvalCount,      \* samples of the validation and test split
    LeakSets,       \* leakage findings: [risk, kind, samples], samples of the evaluation only
    SampleCount,
    Backgrounds,    \* other findings of an audit: [gate, levels], of preflight and of debt
    RuleSets,       \* contracts: sets of rules [metric, most]
    MaxAudits       \* bound

\* The numbers a rule may bound.
Metrics == {"exact_cross_split_duplicates", "leakage_eval_samples", "leakage_findings_high",
            "unresolved_strong_review_cases", "unresolved_high_priority_cases", "debt_level",
            "preflight_status"}

ASSUME GovernanceAssumption ==
    /\ IsFiniteSet(Court) /\ LabelCases \subseteq Court /\ EvalCount \in Nat
    /\ \A l \in LeakSets : l.samples \subseteq Court
    /\ SampleCount \in Nat \ {0} /\ MaxAudits \in Nat
    /\ \A b \in Backgrounds :
        b.gate \in 0..2 /\ IsFiniteSet(DOMAIN b.levels) /\ \A d \in DOMAIN b.levels : b.levels[d] \in 0..3
    /\ \A rules \in RuleSets : \A r \in rules : r.metric \in Metrics /\ r.most \in Int

VARIABLES
    verdict,        \* of each case, by the latest audit
    status,         \* of each case
    background,
    override,       \* of the stored result of the latest audit, -1 if there is none
    contract,       \* the rules of the active contract
    audits

governanceVars == <<verdict, status, background, override, contract, audits>>

NoOverride == -1

GovernanceInit ==
    /\ verdict \in Courts /\ background \in Backgrounds /\ contract \in RuleSets
    /\ status = [c \in Court |-> "open"]
    /\ override = NoOverride /\ audits = 1

-----------------------------------------------------------------------------
(* collect_facts, of the verdicts v and the statuses st *)

\* Mutant: a case that an admin has resolved is forgotten.
Unresolved_NotDecided(st) == {c \in Court : st[c] # "decided"}

Unresolved(st) == {c \in Court : st[c] \in {"open", "disputed"}}

LabelStrong(v, st) ==
    {c \in Unresolved(st) \cap LabelCases : v[c] \in {"STRONG_REVIEW", "POSSIBLE_RELABEL"}}
LabelReview(v, st) == {c \in Unresolved(st) \cap LabelCases : v[c] = "REVIEW"}

HighPriority(v, st) ==
    {c \in Unresolved(st) :
        \/ v[c] \in {"STRONG_REVIEW", "POSSIBLE_RELABEL", "POSSIBLE_REMOVE", "LEAKAGE_ACTION_NEEDED"}
        \/ st[c] = "disputed"}

\* Mutant: the samples of resolved cases, and not the others.
EvalLeaking_Resolved(st) == (UNION {l.samples : l \in {k \in LeakSets : k.risk # "low"}}) \ Unresolved(st)

EvalLeaking(st) == (UNION {l.samples : l \in {k \in LeakSets : k.risk # "low"}}) \cap Unresolved(st)
ExactLeaking(st) ==
    (UNION {l.samples : l \in {k \in LeakSets : k.risk # "low" /\ k.kind = "exact"}}) \cap Unresolved(st)

\* Whatever is resolved.
HighLeaks == {l \in LeakSets : l.risk = "high"}

-----------------------------------------------------------------------------
(* compute_debt *)

\* The level of count / base, with thresholds in thousandths.
LevelAt(count, base, moderate, high, critical) ==
    IF 1000 * count >= critical * base THEN 3
    ELSE IF 1000 * count >= high * base THEN 2
    ELSE IF 1000 * count >= moderate * base THEN 1 ELSE 0

LabelDebt(v, st) ==
    LevelAt(2 * Cardinality(LabelStrong(v, st)) + Cardinality(LabelReview(v, st)), 2 * SampleCount, 10, 30, 80)

LeakageDebt(st) ==
    LET level == IF EvalCount = 0 THEN 0 ELSE LevelAt(Cardinality(EvalLeaking(st)), EvalCount, 5, 20, 50) IN
    IF ExactLeaking(st) # {} /\ level < 2 THEN 2 ELSE level

ReviewDebt(v, st) == LevelAt(Cardinality(HighPriority(v, st)), SampleCount, 10, 30, 80)

\* Quality, coverage, shortcut and duplication do not depend on the review; provenance is not scored.
DebtLevels(v, st, b) ==
    [d \in {"label", "leakage", "review"} \cup DOMAIN b.levels |->
        IF d = "label" THEN LabelDebt(v, st)
        ELSE IF d = "leakage" THEN LeakageDebt(st)
        ELSE IF d = "review" THEN ReviewDebt(v, st) ELSE b.levels[d]]

LevelsAt(levels, rank) == {d \in DOMAIN levels : levels[d] = rank}

DebtOf(levels) ==
    IF LevelsAt(levels, 3) # {} THEN 3
    ELSE IF LevelsAt(levels, 2) # {} \/ Cardinality(LevelsAt(levels, 1)) >= 3 THEN 2
    ELSE IF LevelsAt(levels, 1) # {} THEN 1 ELSE 0

Debt(v, st, b) == DebtOf(DebtLevels(v, st, b))

-----------------------------------------------------------------------------
(* preflight, with the default configuration *)

Blocking(v, st) == ExactLeaking(st) # {} \/ 10 * Cardinality(HighPriority(v, st)) > SampleCount
Warning(v, st) == EvalLeaking(st) # {} \/ Unresolved(st) # {}

Preflight(v, st, b) ==
    IF b.gate = 2 \/ Blocking(v, st) THEN 2
    ELSE IF b.gate = 1 \/ Warning(v, st) THEN 1 ELSE 0

LiveGate == Preflight(verdict, status, background)
EffectiveGate == IF override = NoOverride THEN LiveGate ELSE override

(* evaluate_contract, for the rules that bound a number *)

Measured(metric, v, st, b, gate) ==
    CASE metric = "exact_cross_split_duplicates" -> Cardinality(ExactLeaking(st))
      [] metric = "leakage_eval_samples" -> Cardinality(EvalLeaking(st))
      [] metric = "leakage_findings_high" -> Cardinality(HighLeaks)
      [] metric = "unresolved_strong_review_cases" -> Cardinality(LabelStrong(v, st))
      [] metric = "unresolved_high_priority_cases" -> Cardinality(HighPriority(v, st))
      [] metric = "debt_level" -> Debt(v, st, b)
      [] metric = "preflight_status" -> gate

Keeps(rules, v, st, b, gate) == \A r \in rules : Measured(r.metric, v, st, b, gate) <= r.most

\* ci_contract
Passed == Keeps(contract, verdict, status, background, EffectiveGate) /\ EffectiveGate # 2

-----------------------------------------------------------------------------
(* Reviewers, admins and new audits.  How a status follows from decisions is Review's subject. *)

SetStatus(c, from, to) ==
    /\ status[c] \in from
    /\ status' = [status EXCEPT ![c] = to]
    /\ UNCHANGED <<verdict, background, override, contract, audits>>

DecideCase(c) == SetStatus(c, {"open", "disputed"}, "decided")
DisputeCase(c) == SetStatus(c, {"open", "decided"}, "disputed")
ReopenCase(c) == SetStatus(c, {"decided", "disputed"}, "open")
ResolveCase(c) == SetStatus(c, {"decided", "disputed"}, "resolved")

\* override_preflight
OverridePreflight(gate) ==
    /\ override' = gate
    /\ UNCHANGED <<verdict, status, background, contract, audits>>

\* put_contract
PutContract(rules) ==
    /\ contract' = rules
    /\ UNCHANGED <<verdict, status, background, override, audits>>

\* The result the preflight stage of a new audit stores has no override.
AuditAgain ==
    /\ audits < MaxAudits
    /\ verdict' \in Courts /\ background' \in Backgrounds
    /\ status' = [c \in Court |-> "open"]
    /\ override' = NoOverride
    /\ audits' = audits + 1
    /\ UNCHANGED contract

GovernanceNext ==
    \/ \E c \in Court : DecideCase(c) \/ DisputeCase(c) \/ ReopenCase(c) \/ ResolveCase(c)
    \/ \E gate \in {0, 1} : OverridePreflight(gate)
    \/ \E rules \in RuleSets : PutContract(rules)
    \/ AuditAgain

GovernanceSpec == GovernanceInit /\ [][GovernanceNext]_governanceVars

-----------------------------------------------------------------------------
(* Properties *)

\* Review work never counts against a version: a step after which no case is unresolved or
\* disputed that was not so before makes neither the gate nor the debt worse, and does not break
\* a contract that was kept.  And what the cases have blocked it can clear: once all of them are
\* resolved, the gate is what the rest of the audit gives.
NothingNew ==
    /\ status' # status /\ audits' = audits /\ contract' = contract /\ override' = override
    /\ Unresolved(status') \subseteq Unresolved(status)
    /\ \A c \in Court : status'[c] = "disputed" => status[c] = "disputed"

AllSettled == \A c \in Court : status[c] \in {"decided", "resolved"}

ReviewNeverWorsens ==
    [][/\ NothingNew => /\ LiveGate' <= LiveGate
                        /\ Debt(verdict, status, background)' <= Debt(verdict, status, background)
                        /\ Passed => Passed'
       /\ AllSettled' => LiveGate' = background'.gate]_governanceVars
=============================================================================
