------------------------------- MODULE WhatIf -------------------------------
(***************************************************************************)
(* How a change set becomes the training and evaluation sets of a what-if  *)
(* experiment (whatif/lab.py, resolve and run_experiment): its actions are *)
(* applied one after the other, then what the set protects is taken back,  *)
(* and the sets of the two variants are cut.  Two classes; what the audit  *)
(* and the reviewers have found is given.                                  *)
(***************************************************************************)
EXTENDS Integers, FiniteSets

CONSTANTS
    Samples,
    EvalSamples,    \* the validation and test split, if the version has one
    Given,          \* sample -> its label
    Copies,         \* copies in duplicate families
    LowQuality,     \* samples with a quality finding of the severity asked for
    Rare,           \* samples judged likely rare and valid
    Leaking,        \* samples of a leakage finding
    Suspects,       \* samples a user, a reviewer or the jury may want to remove or relabel
    MinHeldOut,     \* of so many samples of a class one is held out, of fewer none (5)
    MayCap          \* whether rebalance may cap the classes

Labels == {"a", "b"}
ASSUME WhatIfAssumption ==
    /\ EvalSamples \cup Copies \cup LowQuality \cup Rare \cup Leaking \cup Suspects \subseteq Samples
    /\ Given \in [Samples -> Labels] /\ MinHeldOut \in Nat \ {0} /\ MayCap \in BOOLEAN

VARIABLES
    split,          \* the samples of the evaluation split; {} if the version has none
    change,         \* remove, relabel, eval_drop, protect and max_per_class so far
    experiment      \* the sets of the experiment once they are cut

whatIfVars == <<split, change, experiment>>

NoChange == [remove |-> {}, relabel |-> {}, eval_drop |-> {}, protect |-> {}, cap |-> 0]
Uncut == [at |-> "resolving", fit |-> {}, after |-> {}, evaluated |-> {}]

WhatIfInit == split \in {EvalSamples, {}} /\ change = NoChange /\ experiment = Uncut

-----------------------------------------------------------------------------
(* Actions of a change set, each with what it finds *)

\* add_remove
Removing(c, found) ==
    [c EXCEPT !.remove = @ \cup (found \ split), !.eval_drop = @ \cup (found \cap split)]

Relabelling(c, found) == [c EXCEPT !.relabel = @ \cup found]

Apply(c) == change' = c /\ UNCHANGED <<split, experiment>>

\* remove_samples and relabel_samples, apply_review_decisions and apply_jury_suggestions: for the
\* samples asked for, decided on or suggested.
RemoveSamples(found) == Apply(Removing(change, found))
RelabelSamples(found) == Apply(Relabelling(change, found))

\* Copies and images of low quality leave the training only.
RemoveDuplicateCopies == Apply(Removing(change, Copies \ split))
ExcludeQuality == Apply(Removing(change, LowQuality \ split))
Rebalance == MayCap /\ Apply([change EXCEPT !.cap = 1])
PreserveRare == Apply([change EXCEPT !.protect = @ \cup Rare])
MoveLeakageOutOfEval == Apply([change EXCEPT !.eval_drop = @ \cup (Leaking \cap split)])

\* Mutant: a protected sample is kept, but under its new label.
Protected_NotRelabels(c) ==
    [c EXCEPT !.remove = @ \ c.protect, !.eval_drop = @ \ c.protect]

\* The end of resolve: the order of the actions does not matter to what is protected.
Protected(c) ==
    [c EXCEPT !.remove = @ \ c.protect, !.eval_drop = @ \ c.protect, !.relabel = @ \ c.protect]

Resolve ==
    /\ experiment.at = "resolving"
    /\ change' = Protected(change)
    /\ experiment' = [experiment EXCEPT !.at = "resolved"]
    /\ UNCHANGED split

-----------------------------------------------------------------------------
(* run_experiment *)

OfClass(S, y) == {i \in S : Given[i] = y}

\* Without an evaluation split a part of every class that is large enough is held out: the code
\* takes at least one of those, which the share of five or more samples is anyway.
HeldOuts ==
    IF split # {} THEN {split}
    ELSE {H \in SUBSET Samples :
            \A y \in Labels :
                Cardinality(OfClass(H, y)) = Cardinality(OfClass(Samples, y)) \div MinHeldOut}

\* Mutant: what is held out is trained on as well.
Fit_Everything(held) == Samples \ split

Fit(held) == Samples \ held

\* The label after the change.
Relabelled(i) == IF i \notin change.relabel THEN Given[i] ELSE CHOOSE y \in Labels : y # Given[i]

\* The training sets after the cap on every class: a choice among all that are as large as it allows.
Kept(S) ==
    IF change.cap = 0 THEN {S}
    ELSE {K \in SUBSET S :
            \A y \in Labels :
                LET all == {i \in S : Relabelled(i) = y} IN
                Cardinality(K \cap all) = IF Cardinality(all) > change.cap THEN change.cap ELSE Cardinality(all)}

CutSets ==
    /\ experiment.at = "resolved"
    /\ \E held \in HeldOuts :
        LET removed == change.remove \ (IF split = {} THEN held ELSE {}) IN
        \E after \in Kept(Fit(held) \ removed) :
            /\ change' = [change EXCEPT !.remove = removed]
            /\ experiment' =
                IF {Relabelled(i) : i \in after} # Labels THEN [experiment EXCEPT !.at = "failed"]
                ELSE [at |-> "cut", fit |-> Fit(held), after |-> after, evaluated |-> held]
    /\ UNCHANGED split

WhatIfNext ==
    \/ /\ experiment.at = "resolving"
       /\ \/ \E i \in Suspects : RemoveSamples({i}) \/ RelabelSamples({i})
          \/ RemoveDuplicateCopies \/ ExcludeQuality \/ Rebalance \/ PreserveRare \/ MoveLeakageOutOfEval
    \/ Resolve \/ CutSets

WhatIfSpec == WhatIfInit /\ [][WhatIfNext]_whatIfVars

-----------------------------------------------------------------------------
\* What the cleaned evaluation of both variants is on.
CleanedEval == experiment.evaluated \ change.eval_drop

(* Properties *)

\* Neither variant is trained on a sample it is evaluated on, with the split of the version or
\* with samples held out, whatever a change set moves between the sets; and a change set with
\* preserve_rare leaves every rare sample where it was, under its label, whatever the other
\* actions do to it before or after.  Only a cap on the classes may drop it.
ComparisonFair ==
    experiment.at = "cut" =>
        /\ (experiment.fit \cup experiment.after) \cap experiment.evaluated = {}
        /\ Rare \subseteq change.protect =>
            /\ change.cap = 0 => Rare \cap experiment.fit \subseteq experiment.after
            /\ \A i \in Rare : Relabelled(i) = Given[i]
            /\ Rare \cap experiment.evaluated \subseteq CleanedEval
=============================================================================
