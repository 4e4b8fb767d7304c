---------------------------- MODULE StagesProofs ----------------------------
(***************************************************************************)
(* What the stages of an audit leave behind, for every set of processes,   *)
(* every number of reruns and every audit, deep or not, with a model to    *)
(* train or without.                                                       *)
(*                                                                         *)
(* The proofs have two layers.  The first looks at the text of the stages  *)
(* only: Proper says of a single effect that it reads what earlier stages  *)
(* have written, writes what is its own stage's, and clears what it fills  *)
(* again, or what later stages fill.  Each of the sixteen stages is a list *)
(* of proper effects.  The second layer is about the steps and uses        *)
(* nothing of the stages but that.                                         *)
(***************************************************************************)
EXTENDS Stages, FiniteSetTheorems, SequenceTheorems, TLAPS

-----------------------------------------------------------------------------
(* What a sequence of effects consists of, whatever their order. *)

Contents(s) == {s[k] : k \in 1..Len(s)}
IsList(s) == s \in Seq(Contents(s))

LEMMA Joined ==
    ASSUME NEW s, NEW t, IsList(s), IsList(t)
    PROVE  IsList(s \o t) /\ Contents(s \o t) = Contents(s) \cup Contents(t)
<1> DEFINE E == Contents(s) \cup Contents(t)
<1>0. s \in Seq(E) /\ t \in Seq(E)
  BY SeqMonotonic DEF IsList
<1> HIDE DEF E
<1>1. /\ s \o t \in Seq(E) /\ Len(s \o t) = Len(s) + Len(t)
      /\ \A i \in 1..(Len(s) + Len(t)) :
            (s \o t)[i] = IF i <= Len(s) THEN s[i] ELSE t[i - Len(s)]
  BY <1>0, ConcatProperties
<1>2. Len(s) \in Nat /\ Len(t) \in Nat
  BY <1>0, LenProperties
<1>3. ASSUME NEW i \in 1..Len(s) PROVE i \in 1..(Len(s) + Len(t)) /\ (s \o t)[i] = s[i]
  BY <1>1, <1>2
<1>4. ASSUME NEW i \in 1..Len(t)
      PROVE  Len(s) + i \in 1..(Len(s) + Len(t)) /\ (s \o t)[Len(s) + i] = t[i]
  <2>1. /\ Len(s) + i \in 1..(Len(s) + Len(t)) /\ ~(Len(s) + i <= Len(s))
        /\ Len(s) + i - Len(s) = i
    BY <1>2
  <2> QED BY <1>1, <2>1
<1>5. ASSUME NEW i \in 1..(Len(s) + Len(t)), i \notin 1..Len(s)
      PROVE  i - Len(s) \in 1..Len(t) /\ (s \o t)[i] = t[i - Len(s)]
  BY <1>1, <1>2, <1>5
<1>6. Contents(s \o t) = E
  BY <1>1, <1>3, <1>4, <1>5 DEF Contents, E
<1> QED BY <1>1, <1>6 DEF IsList, E

LEMMA ListOfOne == \A a : IsList(<<a>>) /\ Contents(<<a>>) = {a}
BY DEF IsList, Contents

LEMMA ListOfTwo == \A a, b : IsList(<<a, b>>) /\ Contents(<<a, b>>) = {a, b}
BY DEF IsList, Contents

LEMMA ListOfThree == \A a, b, c : IsList(<<a, b, c>>) /\ Contents(<<a, b, c>>) = {a, b, c}
BY DEF IsList, Contents

LEMMA ListOfFour ==
    \A a, b, c, d : IsList(<<a, b, c, d>>) /\ Contents(<<a, b, c, d>>) = {a, b, c, d}
BY DEF IsList, Contents

LEMMA ListOfFive ==
    \A a, b, c, d, e :
        IsList(<<a, b, c, d, e>>) /\ Contents(<<a, b, c, d, e>>) = {a, b, c, d, e}
BY DEF IsList, Contents

LEMMA ListOfSix ==
    \A a, b, c, d, e, f :
        /\ IsList(<<a, b, c, d, e, f>>)
        /\ Contents(<<a, b, c, d, e, f>>) = {a, b, c, d, e, f}
BY DEF IsList, Contents

LEMMA ListOfTen ==
    \A a, b, c, d, e, f, g, h, i, j :
        /\ IsList(<<a, b, c, d, e, f, g, h, i, j>>)
        /\ Contents(<<a, b, c, d, e, f, g, h, i, j>>) = {a, b, c, d, e, f, g, h, i, j}
BY DEF IsList, Contents

\* LoadAll and SaveAll, for either of which f is Load or Save.
LEMMA LoadsOf ==
    ASSUME NEW names, IsList(names)
    PROVE  /\ IsList(LoadAll(names)) /\ Contents(LoadAll(names)) = {Load(a) : a \in Contents(names)}
           /\ IsList(SaveAll(names)) /\ Contents(SaveAll(names)) = {Save(a) : a \in Contents(names)}
<1> DEFINE n == Len(names)
<1>1. n \in Nat /\ DOMAIN names = 1..n
  BY LenProperties DEF IsList
<1>2. ASSUME NEW s, s = [k \in 1..n |-> s[k]]
      PROVE  IsList(s) /\ Len(s) = n
  <2>1. s \in [1..n -> {s[k] : k \in 1..n}] /\ DOMAIN s = 1..n
    BY <1>2
  <2>2. s \in Seq({s[k] : k \in 1..n})
    BY <1>1, <2>1, SeqDef
  <2>3. DOMAIN s = 1..Len(s) /\ Len(s) \in Nat
    BY <2>2, LenProperties
  <2>4. Len(s) = n
    BY <1>1, <2>1, <2>3
  <2> QED BY <2>2, <2>4 DEF IsList, Contents
<1>3. LoadAll(names) = [k \in 1..n |-> Load(names[k])]
  BY <1>1 DEF LoadAll
<1>4. SaveAll(names) = [k \in 1..n |-> Save(names[k])]
  BY <1>1 DEF SaveAll
<1>5. IsList(LoadAll(names)) /\ Len(LoadAll(names)) = n
  BY <1>2, <1>3
<1>6. IsList(SaveAll(names)) /\ Len(SaveAll(names)) = n
  BY <1>2, <1>4
<1> HIDE DEF n
<1>7. Contents(LoadAll(names)) = {Load(a) : a \in Contents(names)}
  BY <1>3, <1>5 DEF Contents, n
<1>8. Contents(SaveAll(names)) = {Save(a) : a \in Contents(names)}
  BY <1>4, <1>6 DEF Contents, n
<1> QED BY <1>5, <1>6, <1>7, <1>8

-----------------------------------------------------------------------------
(* Which stage saves an artifact and which fills a table, by its place in the pipeline. *)

SavedIn == [
    attributes |-> 3, structure |-> 3, privacy |-> 3, embeddings |-> 5, knn |-> 5,
    dup_membership |-> 6, dup_families |-> 6, leak_membership |-> 7,
    preds |-> 8, model |-> 8, dynamics_raw |-> 8, failures |-> 8, dynamics |-> 9,
    cf_basis |-> 10, influence |-> 10, label_signals |-> 11, rare_wrong |-> 11,
    witness_reliability |-> 11, shortcut_membership |-> 12, coverage |-> 13]

FilledIn == [
    sample_quality_metrics |-> 3, quality_findings |-> 4, privacy_findings |-> 4,
    embeddings_metadata |-> 5, similarity_edges |-> 6, duplicate_family_members |-> 6,
    duplicate_families |-> 6, leakage_findings |-> 7, split_integrity_metrics |-> 7,
    failure_links |-> 8, failure_events |-> 8, model_predictions |-> 8,
    baseline_model_runs |-> 8, training_dynamics |-> 9, influence_links |-> 10,
    influence_findings |-> 10, label_findings |-> 11, rare_wrong_findings |-> 11,
    shortcut_findings |-> 12, coverage_gaps |-> 13, coverage_clusters |-> 13,
    court_cases |-> 14, case_evidence |-> 14, case_verdicts |-> 14,
    dataset_debt_snapshots |-> 15, dataset_dna_profiles |-> 15,
    preflight_results |-> 16, contract_evaluations |-> 16]

EffectsOf(n) == Effects[Pipeline[n]]

\* What every effect of the stage with number n keeps to.  It reads what earlier stages have
\* written, and writes what is its own; it clears what it fills, and beside that only what
\* later stages fill.  A load that fails without its artifact is of one that the stages 3, 5,
\* 6 and 7 save, or of one of the training, in the stages that ask for its results first.
Proper(n, e) ==
    /\ e.op \in {"load", "load_if", "load_tests"} =>
        \A a \in e.names : a \in DOMAIN SavedIn /\ SavedIn[a] < n
    /\ e.op = "load" =>
        \A a \in e.names : SavedIn[a] \in {3, 5, 6, 7} \/ (SavedIn[a] = 8 /\ n \in {9, 10, 11})
    /\ e.op = "look" => \A t \in e.names \cap DOMAIN FilledIn : FilledIn[t] < n
    /\ e.op = "save" => \A a \in e.names : a \in DOMAIN SavedIn /\ SavedIn[a] = n
    /\ \A t \in e.insert :
        /\ e.op = "write" /\ t \in DOMAIN FilledIn /\ FilledIn[t] = n
        /\ t \in Appended \/ t \in e.clear
    /\ \A t \in e.clear \cap DOMAIN FilledIn :
        FilledIn[t] >= n /\ (FilledIn[t] = n => t \in e.insert)

ProperList(n, s) == IsList(s) /\ \A e \in Contents(s) : Proper(n, e)

LEMMA ProperSingles ==
    /\ \A n, a : a \in DOMAIN SavedIn /\ SavedIn[a] < n =>
          Proper(n, LoadIfThere(a)) /\ Proper(n, LoadForTests(a))
    /\ \A n, a : a \in DOMAIN SavedIn /\ SavedIn[a] = n => Proper(n, Save(a))
    /\ \A n, a : a \in DOMAIN SavedIn /\ SavedIn[a] < n
                 /\ (SavedIn[a] \in {3, 5, 6, 7} \/ (SavedIn[a] = 8 /\ n \in {9, 10, 11})) =>
          Proper(n, Load(a))
    /\ \A n, ts : (\A t \in ts \cap DOMAIN FilledIn : FilledIn[t] < n) => Proper(n, Look(ts))
    /\ \A n, clear, insert :
          /\ \A t \in insert : /\ t \in DOMAIN FilledIn /\ FilledIn[t] = n
                               /\ t \in Appended \/ t \in clear
          /\ \A t \in clear \cap DOMAIN FilledIn :
                FilledIn[t] >= n /\ (FilledIn[t] = n => t \in insert)
          => Proper(n, Write(clear, insert))
BY DEF Proper, LoadIfThere, LoadForTests, Save, Load, Look, Write

LEMMA SavedInIs ==
    /\ DOMAIN SavedIn = {"attributes", "structure", "privacy", "embeddings", "knn",
          "dup_membership", "dup_families", "leak_membership", "preds", "model", "dynamics_raw",
          "failures", "dynamics", "cf_basis", "influence", "label_signals", "rare_wrong",
          "witness_reliability", "shortcut_membership", "coverage"}
    /\ \A a \in {"attributes", "structure", "privacy"} : SavedIn[a] = 3
    /\ \A a \in {"embeddings", "knn"} : SavedIn[a] = 5
    /\ \A a \in {"dup_membership", "dup_families"} : SavedIn[a] = 6
    /\ SavedIn["leak_membership"] = 7
    /\ \A a \in {"preds", "model", "dynamics_raw", "failures"} : SavedIn[a] = 8
    /\ SavedIn["dynamics"] = 9
    /\ \A a \in {"cf_basis", "influence"} : SavedIn[a] = 10
    /\ \A a \in {"label_signals", "rare_wrong", "witness_reliability"} : SavedIn[a] = 11
    /\ SavedIn["shortcut_membership"] = 12 /\ SavedIn["coverage"] = 13
BY DEF SavedIn

LEMMA FilledInIs ==
    /\ DOMAIN FilledIn = {"sample_quality_metrics", "quality_findings", "privacy_findings",
          "embeddings_metadata", "similarity_edges", "duplicate_family_members",
          "duplicate_families", "leakage_findings", "split_integrity_metrics", "failure_links",
          "failure_events", "model_predictions", "baseline_model_runs", "training_dynamics",
          "influence_links", "influence_findings", "label_findings", "rare_wrong_findings",
          "shortcut_findings", "coverage_gaps", "coverage_clusters", "court_cases",
          "case_evidence", "case_verdicts", "dataset_debt_snapshots", "dataset_dna_profiles",
          "preflight_results", "contract_evaluations"}
    /\ FilledIn["sample_quality_metrics"] = 3
    /\ \A t \in {"quality_findings", "privacy_findings"} : FilledIn[t] = 4
    /\ FilledIn["embeddings_metadata"] = 5
    /\ \A t \in {"similarity_edges", "duplicate_family_members", "duplicate_families"} :
          FilledIn[t] = 6
    /\ \A t \in {"leakage_findings", "split_integrity_metrics"} : FilledIn[t] = 7
    /\ \A t \in {"failure_links", "failure_events", "model_predictions", "baseline_model_runs"} :
          FilledIn[t] = 8
    /\ FilledIn["training_dynamics"] = 9
    /\ \A t \in {"influence_links", "influence_findings"} : FilledIn[t] = 10
    /\ \A t \in {"label_findings", "rare_wrong_findings"} : FilledIn[t] = 11
    /\ FilledIn["shortcut_findings"] = 12
    /\ \A t \in {"coverage_gaps", "coverage_clusters"} : FilledIn[t] = 13
    /\ \A t \in {"court_cases", "case_evidence", "case_verdicts"} : FilledIn[t] = 14
    /\ \A t \in {"dataset_debt_snapshots", "dataset_dna_profiles"} : FilledIn[t] = 15
    /\ \A t \in {"preflight_results", "contract_evaluations"} : FilledIn[t] = 16
BY DEF FilledIn

\* The same of sequences.
LEMMA ProperJoined ==
    \A n, s, t : ProperList(n, s) /\ ProperList(n, t) => ProperList(n, s \o t)
BY Joined DEF ProperList

LEMMA ProperTuples ==
    /\ \A n, a : Proper(n, a) => ProperList(n, <<a>>)
    /\ \A n, a, b : Proper(n, a) /\ Proper(n, b) => ProperList(n, <<a, b>>)
    /\ \A n, a, b, c : Proper(n, a) /\ Proper(n, b) /\ Proper(n, c) => ProperList(n, <<a, b, c>>)
BY ListOfOne, ListOfTwo, ListOfThree DEF ProperList

Loadable(n, a) ==
    /\ a \in DOMAIN SavedIn /\ SavedIn[a] < n
    /\ SavedIn[a] \in {3, 5, 6, 7} \/ (SavedIn[a] = 8 /\ n \in {9, 10, 11})

LEMMA ProperLoads ==
    /\ \A n, a : Loadable(n, a) => Proper(n, Load(a))
    /\ \A n, a, b : (\A x \in {a, b} : Loadable(n, x)) => ProperList(n, LoadAll(<<a, b>>))
    /\ \A n, a, b, c :
        (\A x \in {a, b, c} : Loadable(n, x)) => ProperList(n, LoadAll(<<a, b, c>>))
    /\ \A n, a, b, c, d :
        (\A x \in {a, b, c, d} : Loadable(n, x)) => ProperList(n, LoadAll(<<a, b, c, d>>))
    /\ \A n, a, b, c, d, e :
        (\A x \in {a, b, c, d, e} : Loadable(n, x)) => ProperList(n, LoadAll(<<a, b, c, d, e>>))
<1>1. \A n, names : IsList(names) /\ (\A x \in Contents(names) : Loadable(n, x)) =>
            ProperList(n, LoadAll(names))
  BY LoadsOf, ProperSingles DEF ProperList, Loadable
<1>2. \A n, a : Loadable(n, a) => Proper(n, Load(a))
  BY ProperSingles DEF Loadable
<1> QED BY <1>1, <1>2, ListOfTwo, ListOfThree, ListOfFour, ListOfFive

LEMMA ProperSaves ==
    /\ \A n, a : a \in DOMAIN SavedIn /\ SavedIn[a] = n => Proper(n, Save(a))
    /\ \A n, a, b :
        (\A x \in {a, b} : x \in DOMAIN SavedIn /\ SavedIn[x] = n) =>
            ProperList(n, SaveAll(<<a, b>>))
    /\ \A n, a, b, c :
        (\A x \in {a, b, c} : x \in DOMAIN SavedIn /\ SavedIn[x] = n) =>
            ProperList(n, SaveAll(<<a, b, c>>))
    /\ \A n, a, b, c, d :
        (\A x \in {a, b, c, d} : x \in DOMAIN SavedIn /\ SavedIn[x] = n) =>
            ProperList(n, SaveAll(<<a, b, c, d>>))
<1>1. \A n, names :
        IsList(names) /\ (\A x \in Contents(names) : x \in DOMAIN SavedIn /\ SavedIn[x] = n) =>
            ProperList(n, SaveAll(names))
  BY LoadsOf, ProperSingles DEF ProperList
<1>2. \A n, a : a \in DOMAIN SavedIn /\ SavedIn[a] = n => Proper(n, Save(a))
  BY ProperSingles
<1> QED BY <1>1, <1>2, ListOfTwo, ListOfThree, ListOfFour

LEMMA IngestingProper == ProperList(1, Ingesting)
BY ListOfOne, ListOfTwo, ListOfThree, ListOfFour, ListOfFive, LoadsOf, Joined, ProperSingles,
   SavedInIs, FilledInIs
   DEF Ingesting, ProperList, Replace

LEMMA ValidatingProper == ProperList(2, Validating)
BY ListOfOne, ListOfTwo, ListOfThree, ListOfFour, ListOfFive, LoadsOf, Joined, ProperSingles,
   SavedInIs, FilledInIs
   DEF Validating, ProperList, Replace

LEMMA ProfilingProper == ProperList(3, Profiling)
BY ListOfOne, ListOfTwo, ListOfThree, ListOfFour, ListOfFive, LoadsOf, Joined, ProperSingles,
   SavedInIs, FilledInIs
   DEF Profiling, ProperList, Replace

LEMMA LoadableIs ==
    /\ \A n \in 4..16, a \in {"attributes", "structure", "privacy"} : Loadable(n, a)
    /\ \A n \in 6..16, a \in {"embeddings", "knn"} : Loadable(n, a)
    /\ \A n \in 7..16, a \in {"dup_membership", "dup_families"} : Loadable(n, a)
    /\ \A n \in 8..16 : Loadable(n, "leak_membership")
    /\ \A n \in 9..11, a \in {"preds", "model", "dynamics_raw", "failures"} : Loadable(n, a)
BY SavedInIs DEF Loadable

LEMMA QualityProper == ProperList(4, Quality)
<1>1. ProperList(4, LoadAll(<<"attributes", "privacy">>))
  BY ProperLoads, LoadableIs
<1>2. ProperList(4, <<Replace({"quality_findings", "privacy_findings"})>>)
  BY ProperSingles, ProperTuples, FilledInIs DEF Replace
<1> QED BY <1>1, <1>2, ProperJoined DEF Quality

LEMMA EmbeddingProper == ProperList(5, Embedding)
BY ListOfOne, ListOfTwo, ListOfThree, ListOfFour, ListOfFive, LoadsOf, Joined, ProperSingles,
   SavedInIs, FilledInIs
   DEF Embedding, ProperList, Replace

LEMMA DuplicatesProper == ProperList(6, Duplicates)
<1> DEFINE rewrite ==
        Write({"similarity_edges", "duplicate_family_members", "leakage_findings",
               "duplicate_families"},
              {"duplicate_families", "duplicate_family_members", "similarity_edges"})
<1>1. ProperList(6, LoadAll(<<"embeddings", "knn", "attributes", "structure">>))
  BY ProperLoads, LoadableIs
<1>2. Proper(6, Look({"embeddings_metadata"}))
  BY ProperSingles, FilledInIs
<1>3. Proper(6, rewrite)
  BY ProperSingles, FilledInIs
<1>4. ProperList(6, SaveAll(<<"dup_membership", "dup_families">>))
  BY ProperSaves, SavedInIs
<1>5. ProperList(6, <<Look({"embeddings_metadata"}), rewrite>>)
  BY <1>2, <1>3, ProperTuples
<1> QED BY <1>1, <1>4, <1>5, ProperJoined DEF Duplicates

LEMMA LeakageProper == ProperList(7, Leakage)
<1> DEFINE look == Look({"embeddings_metadata", "duplicate_families"})
           replace == Replace({"leakage_findings", "split_integrity_metrics"})
<1>1. ProperList(7, LoadAll(<<"dup_families", "embeddings", "knn">>))
  BY ProperLoads, LoadableIs
<1>2. Proper(7, look)
  BY ProperSingles, FilledInIs
<1>3. Proper(7, replace)
  BY ProperSingles, FilledInIs DEF Replace
<1>4. Proper(7, Save("leak_membership"))
  BY ProperSaves, SavedInIs
<1>5. ProperList(7, <<look, replace, Save("leak_membership")>>)
  BY <1>2, <1>3, <1>4, ProperTuples
<1> QED BY <1>1, <1>5, ProperJoined DEF Leakage

LEMMA BaselineProper == ProperList(8, Baseline)
<1> DEFINE rewrite ==
        Write({"failure_links", "influence_links", "failure_events", "model_predictions",
               "baseline_model_runs"},
              {"baseline_model_runs", "model_predictions", "failure_events", "failure_links"})
<1>1. ProperList(8, <<Load("embeddings")>>) /\ Proper(8, Load("dup_membership"))
  BY ProperLoads, LoadableIs, ProperTuples
<1>2. ProperList(8, SaveAll(<<"preds", "model", "dynamics_raw", "failures">>))
  BY ProperSaves, SavedInIs
<1>3. Proper(8, rewrite)
  BY ProperSingles, FilledInIs
<1>4. ProperList(8, <<Load("dup_membership"), rewrite>>)
  BY <1>1, <1>3, ProperTuples
<1> QED BY <1>1, <1>2, <1>4, ProperJoined DEF Baseline, BaselineTraining, BaselineTables

LEMMA DynamicsProper == ProperList(9, Dynamics)
BY ListOfOne, ListOfTwo, ListOfThree, ListOfFour, ListOfFive, LoadsOf, Joined, ProperSingles,
   SavedInIs, FilledInIs
   DEF Dynamics, ProperList, Replace

LEMMA InfluenceProper == ProperList(10, Influence)
BY ListOfOne, ListOfTwo, ListOfThree, ListOfFour, ListOfFive, LoadsOf, Joined, ProperSingles,
   SavedInIs, FilledInIs
   DEF Influence, ProperList, Replace

LEMMA LabelsProper == ProperList(11, Labels)
BY ListOfOne, ListOfTwo, ListOfThree, ListOfFour, ListOfFive, LoadsOf, Joined, ProperSingles,
   SavedInIs, FilledInIs
   DEF Labels, ProperList, Replace

LEMMA ShortcutsProper == ProperList(12, Shortcuts)
<1>1. IsList(Shortcuts) /\ Contents(Shortcuts) = {Load("attributes"), LoadForTests("model"),
        LoadForTests("embeddings"), Replace({"shortcut_findings"}), Save("shortcut_membership")}
  BY ListOfFive DEF Shortcuts
<1>2. Proper(12, LoadForTests("model")) /\ Proper(12, LoadForTests("embeddings"))
  BY ProperSingles, SavedInIs
<1>3. Proper(12, Load("attributes")) /\ Proper(12, Save("shortcut_membership"))
  BY ProperLoads, LoadableIs, ProperSaves, SavedInIs
<1>4. Proper(12, Replace({"shortcut_findings"}))
  BY ProperSingles, FilledInIs DEF Replace
<1> QED BY <1>1, <1>2, <1>3, <1>4 DEF ProperList

LEMMA CoverageProper == ProperList(13, Coverage)
<1>1. ProperList(13, LoadAll(<<"embeddings", "knn", "attributes">>))
  BY ProperLoads, LoadableIs
<1>2. Proper(13, Save("coverage"))
  BY ProperSaves, SavedInIs
<1>3. Proper(13, Replace({"coverage_gaps", "coverage_clusters"}))
  BY ProperSingles, FilledInIs DEF Replace
<1>4. ProperList(13, <<Save("coverage"), Replace({"coverage_gaps", "coverage_clusters"})>>)
  BY <1>2, <1>3, ProperTuples
<1> QED BY <1>1, <1>4, ProperJoined DEF Coverage

LEMMA CasesProper == ProperList(14, Cases)
<1>1. IsList(CasesGathered) /\ Contents(CasesGathered) = {LoadIfThere("label_signals"),
        LoadIfThere("rare_wrong"), Load("dup_membership"), Load("leak_membership"),
        LoadIfThere("shortcut_membership"), Load("privacy"), LoadIfThere("dynamics"),
        LoadIfThere("influence"),
        Look({"quality_findings", "baseline_model_runs", "duplicate_families"}),
        LoadIfThere("witness_reliability")}
  BY ListOfTen DEF CasesGathered
<1>2. \A e \in Contents(CasesGathered) : Proper(14, e)
  <2>1. \A a \in {"dup_membership", "leak_membership", "privacy"} : Proper(14, Load(a))
    BY ProperLoads, LoadableIs
  <2>2. \A a \in {"label_signals", "rare_wrong", "shortcut_membership", "dynamics", "influence",
                  "witness_reliability"} : Proper(14, LoadIfThere(a))
    BY ProperSingles, SavedInIs
  <2>3. Proper(14, Look({"quality_findings", "baseline_model_runs", "duplicate_families"}))
    BY ProperSingles, FilledInIs
  <2> QED BY <1>1, <2>1, <2>2, <2>3
<1>3. ProperList(14, CasesFiled)
  BY ProperSingles, ProperTuples, FilledInIs DEF CasesFiled
<1> QED BY <1>1, <1>2, <1>3, ProperJoined DEF Cases, ProperList

LEMMA DebtProper == ProperList(15, Debt)
<1>1. IsList(Debt) /\ Contents(Debt) = {Look(Facts), Replace({"dataset_debt_snapshots"}),
        Load("attributes"), Load("embeddings"), Look({"embeddings_metadata"}),
        Replace({"dataset_dna_profiles"})}
  BY ListOfSix DEF Debt
<1>2. Proper(15, Look(Facts)) /\ Proper(15, Look({"embeddings_metadata"}))
  BY ProperSingles, FilledInIs DEF Facts
<1>3. Proper(15, Load("attributes")) /\ Proper(15, Load("embeddings"))
  BY ProperLoads, LoadableIs
<1>4. /\ Proper(15, Replace({"dataset_debt_snapshots"}))
      /\ Proper(15, Replace({"dataset_dna_profiles"}))
  BY ProperSingles, FilledInIs DEF Replace
<1> QED BY <1>1, <1>2, <1>3, <1>4 DEF ProperList

LEMMA PreflightProper == ProperList(16, Preflight)
<1>1. Proper(16, Look(Facts \cup {"dataset_debt_snapshots"}))
  BY ProperSingles, FilledInIs DEF Facts
<1>2. Proper(16, Write({"preflight_results"}, {"preflight_results", "contract_evaluations"}))
  BY ProperSingles, FilledInIs DEF Appended
<1> QED BY <1>1, <1>2, ProperTuples DEF Preflight

-----------------------------------------------------------------------------
(* The pipeline. *)

Numbers == 1..16

LEMMA PipelineIs ==
    /\ Len(Pipeline) = 16
    /\ \A n \in Numbers : Pipeline[n] \in StageNames
    /\ \A st \in StageNames : \E n \in Numbers : st = Pipeline[n]
    /\ \A m, n \in Numbers : Pipeline[m] = Pipeline[n] => m = n
    /\ Pipeline[8] = "BASELINE_TRAINING" /\ Pipeline[9] = "TRAINING_DYNAMICS"
    /\ Pipeline[10] = "INFLUENCE_ANALYSIS" /\ Pipeline[11] = "LABEL_FORENSICS"
    /\ Pipeline[14] = "COURT_CASE_GENERATION"
<1>1. Numbers = {1, 2, 3, 4, 5, 6, 7, 8, 9, 10, 11, 12, 13, 14, 15, 16}
  BY DEF Numbers
<1>2. StageNames = {"INGESTING", "VALIDATING", "PROFILING", "QUALITY_ANALYSIS", "EMBEDDING",
        "DUPLICATE_ANALYSIS", "LEAKAGE_ANALYSIS", "BASELINE_TRAINING", "TRAINING_DYNAMICS",
        "INFLUENCE_ANALYSIS", "LABEL_FORENSICS", "SHORTCUT_ANALYSIS", "COVERAGE_ANALYSIS",
        "COURT_CASE_GENERATION", "DEBT_CALCULATION", "PREFLIGHT"}
  BY DEF StageNames, Effects
<1>3. /\ Len(Pipeline) = 16
      /\ Pipeline[1] = "INGESTING" /\ Pipeline[2] = "VALIDATING" /\ Pipeline[3] = "PROFILING"
      /\ Pipeline[4] = "QUALITY_ANALYSIS" /\ Pipeline[5] = "EMBEDDING"
      /\ Pipeline[6] = "DUPLICATE_ANALYSIS" /\ Pipeline[7] = "LEAKAGE_ANALYSIS"
      /\ Pipeline[8] = "BASELINE_TRAINING" /\ Pipeline[9] = "TRAINING_DYNAMICS"
      /\ Pipeline[10] = "INFLUENCE_ANALYSIS" /\ Pipeline[11] = "LABEL_FORENSICS"
      /\ Pipeline[12] = "SHORTCUT_ANALYSIS" /\ Pipeline[13] = "COVERAGE_ANALYSIS"
      /\ Pipeline[14] = "COURT_CASE_GENERATION" /\ Pipeline[15] = "DEBT_CALCULATION"
      /\ Pipeline[16] = "PREFLIGHT"
  BY DEF Pipeline
<1> QED BY <1>1, <1>2, <1>3

LEMMA EffectsAreProper == \A n \in Numbers : ProperList(n, EffectsOf(n))
<1> USE DEF EffectsOf, Pipeline, Effects
<1>1. ProperList(1, EffectsOf(1)) /\ ProperList(2, EffectsOf(2)) /\ ProperList(3, EffectsOf(3))
  BY IngestingProper, ValidatingProper, ProfilingProper
<1>2. ProperList(4, EffectsOf(4)) /\ ProperList(5, EffectsOf(5)) /\ ProperList(6, EffectsOf(6))
  BY QualityProper, EmbeddingProper, DuplicatesProper
<1>3. ProperList(7, EffectsOf(7)) /\ ProperList(8, EffectsOf(8)) /\ ProperList(9, EffectsOf(9))
  BY LeakageProper, BaselineProper, DynamicsProper
<1>4. /\ ProperList(10, EffectsOf(10)) /\ ProperList(11, EffectsOf(11))
      /\ ProperList(12, EffectsOf(12))
  BY InfluenceProper, LabelsProper, ShortcutsProper
<1>5. ProperList(13, EffectsOf(13)) /\ ProperList(14, EffectsOf(14))
  BY CoverageProper, CasesProper
<1>6. ProperList(15, EffectsOf(15)) /\ ProperList(16, EffectsOf(16))
  BY DebtProper, PreflightProper
<1> HIDE DEF EffectsOf, Pipeline, Effects
<1>7. Numbers = {1, 2, 3, 4, 5, 6, 7, 8, 9, 10, 11, 12, 13, 14, 15, 16}
  BY DEF Numbers
<1> QED BY <1>1, <1>2, <1>3, <1>4, <1>5, <1>6, <1>7

Size(n) == Len(EffectsOf(n))

LEMMA EffectIsProper ==
    ASSUME NEW n \in Numbers
    PROVE  /\ Size(n) \in Nat /\ DOMAIN EffectsOf(n) = 1..Size(n)
           /\ \A k \in 1..Size(n) : Proper(n, EffectsOf(n)[k])
<1>1. IsList(EffectsOf(n)) /\ \A e \in Contents(EffectsOf(n)) : Proper(n, e)
  BY EffectsAreProper DEF ProperList
<1>2. Len(EffectsOf(n)) \in Nat /\ DOMAIN EffectsOf(n) = 1..Len(EffectsOf(n))
  BY <1>1, LenProperties DEF IsList
<1> QED BY <1>1, <1>2 DEF Size, Contents

\* What a stage saves and inserts is its own.
LEMMA OwnNames ==
    ASSUME NEW n \in Numbers
    PROVE  /\ \A a \in Saved(Pipeline[n]) : /\ a \in DOMAIN SavedIn /\ SavedIn[a] = n
                                            /\ a \in Artifacts
           /\ \A t \in Inserted(Pipeline[n]) : /\ t \in DOMAIN FilledIn /\ FilledIn[t] = n
                                               /\ t \in StageTables
           /\ \A k \in 1..Size(n) :
                /\ EffectsOf(n)[k].op = "save" => EffectsOf(n)[k].names \subseteq Saved(Pipeline[n])
                /\ EffectsOf(n)[k].insert \subseteq Inserted(Pipeline[n])
           /\ \A a \in Saved(Pipeline[n]) :
                \E k \in 1..Size(n) : EffectsOf(n)[k].op = "save" /\ a \in EffectsOf(n)[k].names
           /\ \A t \in Inserted(Pipeline[n]) : \E k \in 1..Size(n) : t \in EffectsOf(n)[k].insert
<1>1. Size(n) \in Nat /\ DOMAIN EffectsOf(n) = 1..Size(n)
      /\ \A k \in 1..Size(n) : Proper(n, EffectsOf(n)[k])
  BY EffectIsProper
<1>2. Pipeline[n] \in StageNames
  BY PipelineIs
<1>3. \A a : a \in Saved(Pipeline[n]) <=>
        \E k \in 1..Size(n) : EffectsOf(n)[k].op = "save" /\ a \in EffectsOf(n)[k].names
  BY <1>1 DEF Saved, EffectsOf
<1>4. \A t : t \in Inserted(Pipeline[n]) <=> \E k \in 1..Size(n) : t \in EffectsOf(n)[k].insert
  BY <1>1 DEF Inserted, EffectsOf
<1>5. Saved(Pipeline[n]) \subseteq Artifacts /\ Inserted(Pipeline[n]) \subseteq StageTables
  BY <1>2 DEF Artifacts, StageTables
<1> QED BY <1>1, <1>3, <1>4, <1>5 DEF Proper

LEMMA NamesApart ==
    /\ \A a \in Artifacts : a \in DOMAIN SavedIn /\ SavedIn[a] \in Numbers
                            /\ a \in Saved(Pipeline[SavedIn[a]])
    /\ \A t \in StageTables : t \in DOMAIN FilledIn /\ FilledIn[t] \in Numbers
                              /\ t \in Inserted(Pipeline[FilledIn[t]])
    /\ Artifacts \cap StageTables = {}
<1>1. \A a \in Artifacts : \E n \in Numbers : a \in Saved(Pipeline[n])
  BY PipelineIs DEF Artifacts
<1>2. \A t \in StageTables : \E n \in Numbers : t \in Inserted(Pipeline[n])
  BY PipelineIs DEF StageTables
<1>3. DOMAIN SavedIn \cap DOMAIN FilledIn = {}
  BY SavedInIs, FilledInIs
<1> QED BY <1>1, <1>2, <1>3, OwnNames

\* Whatever a stage loads is saved by some stage.
LEMMA SavedAre == Artifacts = DOMAIN SavedIn
<1>2. \A s : IsList(s) => DOMAIN s = 1..Len(s)
  BY LenProperties DEF IsList
<1>3. \A st \in StageNames : \A x :
        IsList(Effects[st]) /\ Save(x) \in Contents(Effects[st]) => x \in Artifacts
  BY <1>2 DEF Artifacts, Saved, Contents, Save
<1> DEFINE Saves(s, names) == IsList(s) /\ \A x \in names : Save(x) \in Contents(s)
<1>4. Saves(Profiling, {"attributes", "structure", "privacy"})
  BY ListOfOne, ListOfThree, LoadsOf, Joined DEF Profiling
<1>5. Saves(Embedding, {"embeddings", "knn"})
  BY ListOfOne, ListOfTwo, LoadsOf, Joined DEF Embedding
<1>6. Saves(Duplicates, {"dup_membership", "dup_families"})
  <2>1. \A s, t : IsList(s) /\ Saves(t, {"dup_membership", "dup_families"}) =>
            Saves(s \o t, {"dup_membership", "dup_families"})
    BY Joined
  <2>2. Saves(SaveAll(<<"dup_membership", "dup_families">>), {"dup_membership", "dup_families"})
    BY ListOfTwo, LoadsOf
  <2>3. \A x, y : IsList(LoadAll(<<"embeddings", "knn", "attributes", "structure">>) \o <<x, y>>)
    BY ListOfTwo, ListOfFour, LoadsOf, Joined
  <2> QED BY <2>1, <2>2, <2>3 DEF Duplicates
<1>7. Saves(Leakage, {"leak_membership"})
  BY ListOfThree, LoadsOf, Joined DEF Leakage
<1>8. Saves(Baseline, {"preds", "model", "dynamics_raw", "failures"})
  <2>1. IsList(BaselineTraining)
        /\ \A x \in {"preds", "model", "dynamics_raw", "failures"} :
              Save(x) \in Contents(BaselineTraining)
    BY ListOfOne, ListOfFour, LoadsOf, Joined DEF BaselineTraining
  <2>2. IsList(BaselineTables)
    BY ListOfTwo DEF BaselineTables
  <2> QED BY <2>1, <2>2, Joined DEF Baseline
<1>9. Saves(Dynamics, {"dynamics"})
  BY ListOfTwo, LoadsOf, Joined DEF Dynamics
<1>10. Saves(Influence, {"cf_basis", "influence"})
  BY ListOfThree, ListOfFour, LoadsOf, Joined DEF Influence
<1>11. Saves(Labels, {"label_signals", "rare_wrong", "witness_reliability"})
  BY ListOfThree, ListOfFour, ListOfFive, LoadsOf, Joined DEF Labels
<1>12. Saves(Shortcuts, {"shortcut_membership"})
  BY ListOfFive DEF Shortcuts
<1>13. Saves(Coverage, {"coverage"})
  BY ListOfTwo, ListOfThree, LoadsOf, Joined DEF Coverage
<1>14. /\ {"PROFILING", "EMBEDDING", "DUPLICATE_ANALYSIS", "LEAKAGE_ANALYSIS", "BASELINE_TRAINING",
           "TRAINING_DYNAMICS", "INFLUENCE_ANALYSIS", "LABEL_FORENSICS", "SHORTCUT_ANALYSIS",
           "COVERAGE_ANALYSIS"} \subseteq StageNames
       /\ Effects["PROFILING"] = Profiling /\ Effects["EMBEDDING"] = Embedding
       /\ Effects["DUPLICATE_ANALYSIS"] = Duplicates /\ Effects["LEAKAGE_ANALYSIS"] = Leakage
       /\ Effects["BASELINE_TRAINING"] = Baseline /\ Effects["TRAINING_DYNAMICS"] = Dynamics
       /\ Effects["INFLUENCE_ANALYSIS"] = Influence /\ Effects["LABEL_FORENSICS"] = Labels
       /\ Effects["SHORTCUT_ANALYSIS"] = Shortcuts /\ Effects["COVERAGE_ANALYSIS"] = Coverage
  BY DEF StageNames, Effects
<1>15. \A st \in StageNames : \A names : Saves(Effects[st], names) => names \subseteq Artifacts
  BY <1>3
<1> HIDE DEF Saves
<1>16. DOMAIN SavedIn \subseteq Artifacts
  BY <1>4, <1>5, <1>6, <1>7, <1>8, <1>9, <1>10, <1>11, <1>12, <1>13, <1>14, <1>15, SavedInIs
<1> QED BY <1>16, NamesApart

-----------------------------------------------------------------------------
(* The invariants. *)

\* Where a process is: at rest with no stage or after one, or at an effect of one; its
\* transaction deletes from no table but those its effect clears.
RunnerShape(r) ==
    /\ r = At(r.stage, r.effect, r.read, r.old)
    /\ r.stage \in 0..16 /\ r.effect \in Nat
    /\ r.stage = 0 => r = Idle
    /\ r.effect # 0 => r.stage \in Numbers /\ r.effect <= Size(r.stage) + 1
    /\ r.old # <<>> =>
        /\ r.effect # 0 /\ r.effect <= Size(r.stage)
        /\ EffectsOf(r.stage)[r.effect].op = "write"
        /\ \A t \in StageTables \ EffectsOf(r.stage)[r.effect].clear : r.old[t] = {}

StagesTypeInv ==
    /\ audit \in Audits
    /\ step \in [StageNames -> {"pending", "running", "completed", "skipped", "failed"}]
    /\ attempts \in [StageNames -> Nat]
    /\ artifact \in [Artifacts -> Nat]
    /\ stored = [t \in StageTables |-> stored[t]]
    /\ made_from = [st \in StageNames |-> made_from[st]]
    /\ runner = [w \in Runners |-> runner[w]]
    /\ overlapped \in BOOLEAN
    /\ \A w \in Runners :
        /\ RunnerShape(runner[w])
        /\ Running(w) => attempts[StageOf(w)] > 0

\* What later stages load without asking: the stages that are never skipped leave it behind,
\* and training does where there is something to train.
Present(n) == \A a \in Saved(Pipeline[n]) : Has(a)
Provided(n) == n \in {3, 5, 6, 7} \/ (n = 8 /\ audit.trainable) => Present(n)

Settled(n) == step[Pipeline[n]] \in {"completed", "skipped"}

\* What a process has behind it.
FindsBehind(r) ==
    /\ \A n \in 1..(r.stage - 1) : Provided(n)
    /\ r.stage # 0 /\ r.effect = 0 => Provided(r.stage)
    /\ r.effect # 0 =>
        /\ ~Skips(Pipeline[r.stage])
        /\ \A k \in 1..(r.effect - 1) :
            LET e == EffectsOf(r.stage)[k] IN e.op = "save" => \A a \in e.names : Has(a)

\* NothingMissing is not inductive: whoever runs a stage has the stages before it behind him.
\* That still holds if another process fails one of them again meanwhile, because artifacts
\* do not vanish.
ArtifactInv ==
    /\ missing = {}
    /\ \A n \in Numbers : Settled(n) => Provided(n)
    /\ ~audit.trainable => \A a \in Saved(Pipeline[8]) : ~Has(a)
    /\ \A w \in Runners : FindsBehind(runner[w])

\* No stage has begun before the ones ahead of it were settled.
StepsInOrder ==
    \A n \in Numbers : \A m \in 1..(n - 1) : step[Pipeline[n]] # "pending" => Settled(m)

\* Where a process is, the steps say so; and nobody has changed what its transaction saw.
InPlace(r) ==
    /\ \A n \in 1..(r.stage - 1) : Settled(n)
    /\ r.stage # 0 /\ r.effect = 0 => Settled(r.stage)
    /\ r.effect # 0 => step[Pipeline[r.stage]] = "running"
    /\ r.old # <<>> =>
        \A t \in EffectsOf(r.stage)[r.effect].clear \cap StageTables : r.old[t] = stored[t]

\* As long as no two processes met.
OrderInv ==
    ~overlapped =>
        /\ \A v, w \in Runners : runner[v] # Idle /\ runner[w] # Idle => v = w
        /\ StepsInOrder
        /\ \A w \in Runners : InPlace(runner[w])

\* RowsOfOneRun without counting.
AtMostOne(S) == \A x, y \in S : x = y
RowsInv ==
    \A t \in StageTables \ Appended : AtMostOne(stored[t]) \/ (overlapped /\ ~Keyed(t))

\* The stage a name comes from, and what stands under it now.
From(x) == IF x \in Artifacts THEN SavedIn[x] ELSE FilledIn[x]
Value(x) == IF x \in Artifacts THEN artifact[x] ELSE stored[x]

\* What a stage has read comes from earlier ones and is still there.
StillThere(n, read) ==
    \A x \in DOMAIN read :
        x \in Artifacts \cup StageTables /\ From(x) < n /\ read[x] = Value(x)

\* What an effect of a stage has written in the latest attempt is still there.
StillMade(n, e) ==
    /\ e.op = "save" => \A a \in e.names : artifact[a] = attempts[Pipeline[n]]
    /\ \A t \in e.insert \cap Filled(Pipeline[n]) : attempts[Pipeline[n]] \in stored[t]

Whole(n) ==
    /\ StillThere(n, made_from[Pipeline[n]])
    /\ \A k \in 1..Size(n) : StillMade(n, EffectsOf(n)[k])
WholeSoFar(r) ==
    r.effect # 0 =>
        /\ StillThere(r.stage, r.read)
        /\ \A k \in 1..(r.effect - 1) : StillMade(r.stage, EffectsOf(r.stage)[k])

\* WholeAndCurrent, and the same of the effects a running stage has had so far.
WholeInv ==
    ~overlapped =>
        /\ \A n \in Numbers : step[Pipeline[n]] = "completed" => Whole(n)
        /\ \A w \in Runners : WholeSoFar(runner[w])

-----------------------------------------------------------------------------
(* Type correctness. *)

LEMMA SizesAre == \A n \in Numbers : Size(n) \in Nat
BY EffectIsProper

LEMMA InStage ==
    ASSUME StagesTypeInv, NEW w \in Runners, Running(w)
    PROVE  /\ runner[w].stage \in Numbers /\ runner[w].effect \in Nat \ {0}
           /\ runner[w].effect <= Size(runner[w].stage) + 1
           /\ StageOf(w) = Pipeline[runner[w].stage] /\ StageOf(w) \in StageNames
           /\ Size(runner[w].stage) \in Nat
           /\ Rest(w) > 0 <=> runner[w].effect <= Size(runner[w].stage)
           /\ Rest(w) = 0 <=> runner[w].effect = Size(runner[w].stage) + 1
           /\ Effect(w) = EffectsOf(runner[w].stage)[runner[w].effect]
<1>1. /\ runner[w].stage \in Numbers /\ runner[w].effect \in Nat \ {0}
      /\ runner[w].effect <= Size(runner[w].stage) + 1
  BY DEF StagesTypeInv, RunnerShape, Running
<1>2. Size(runner[w].stage) \in Nat
  BY <1>1, SizesAre
<1>3. Rest(w) = Size(runner[w].stage) - runner[w].effect + 1
  BY DEF Rest, StageOf, Size, EffectsOf
<1> QED BY <1>1, <1>2, <1>3, PipelineIs DEF StageOf, Effect, EffectsOf

LEMMA Shapes ==
    /\ RunnerShape(Idle)
    /\ \A n \in Numbers : RunnerShape(At(n, 0, <<>>, <<>>))
    /\ \A n \in Numbers, k \in Nat : \A read :
        k <= Size(n) + 1 => RunnerShape(At(n, k, read, <<>>))
BY SizesAre DEF RunnerShape, At, Idle, Numbers

\* A step of one process leaves the others where they are.
LEMMA OthersStay ==
    ASSUME StagesTypeInv, NEW w \in Runners, NEW r, runner' = [runner EXCEPT ![w] = r]
    PROVE  /\ runner' = [v \in Runners |-> runner'[v]] /\ runner'[w] = r
           /\ \A v \in Runners \ {w} : runner'[v] = runner[v]
BY DEF StagesTypeInv

LEMMA NextStagesTypeInv == StagesTypeInv /\ [StagesNext]_stagesVars => StagesTypeInv'
<1> SUFFICES ASSUME StagesTypeInv, [StagesNext]_stagesVars PROVE StagesTypeInv'
  OBVIOUS
<1>i. 1 \in Nat
  OBVIOUS
<1>1. ASSUME NEW w \in Runners, BeginStage(w) PROVE StagesTypeInv'
  <2>1. PICK n \in Numbers :
          /\ attempts' = [attempts EXCEPT ![Pipeline[n]] = @ + 1]
          /\ \/ /\ step' = [step EXCEPT ![Pipeline[n]] = "skipped"]
                /\ runner' = [runner EXCEPT ![w] = At(n, 0, <<>>, <<>>)]
             \/ /\ step' = [step EXCEPT ![Pipeline[n]] = "running"]
                /\ runner' = [runner EXCEPT ![w] = At(n, 1, <<>>, <<>>)]
    <3>1. runner[w].stage \in 0..16
      BY DEF StagesTypeInv, RunnerShape
    <3>2. \A n \in (runner[w].stage + 1)..Len(Pipeline) : n \in Numbers
      BY <3>1, PipelineIs DEF Numbers
    <3> QED BY <1>1, <3>2 DEF BeginStage
  <2>2. UNCHANGED <<audit, stored, artifact, made_from>> /\ overlapped' \in BOOLEAN
    BY <1>1 DEF BeginStage, StagesTypeInv
  <2>3. Pipeline[n] \in StageNames
    BY PipelineIs
  <2>4. attempts' \in [StageNames -> Nat] /\ attempts'[Pipeline[n]] > 0
        /\ \A st \in StageNames : attempts[st] > 0 => attempts'[st] > 0
    BY <2>1, <2>3 DEF StagesTypeInv
  <2>5. step' \in [StageNames -> {"pending", "running", "completed", "skipped", "failed"}]
    BY <2>1, <2>3 DEF StagesTypeInv
  <2>6. PICK k \in {0, 1} : runner' = [runner EXCEPT ![w] = At(n, k, <<>>, <<>>)]
    BY <2>1
  <2>7. /\ runner' = [v \in Runners |-> runner'[v]] /\ runner'[w] = At(n, k, <<>>, <<>>)
        /\ \A v \in Runners \ {w} : runner'[v] = runner[v]
    BY <2>6, OthersStay
  <2>8. RunnerShape(At(n, k, <<>>, <<>>)) /\ At(n, k, <<>>, <<>>).stage = n
    BY Shapes, SizesAre DEF At
  <2>9. ASSUME NEW v \in Runners PROVE RunnerShape(runner'[v])
                                       /\ (Running(v)' => attempts'[StageOf(v)'] > 0)
    <3>1. CASE v = w
      BY <2>4, <2>7, <2>8, <3>1 DEF StageOf
    <3>2. CASE v # w
      <4>1. Running(v) => StageOf(v) \in StageNames
        BY InStage
      <4> QED BY <2>4, <2>7, <3>2, <4>1 DEF StagesTypeInv, Running, StageOf
    <3> QED BY <3>1, <3>2
  <2> QED BY <2>2, <2>4, <2>5, <2>7, <2>9 DEF StagesTypeInv
\* Where a process goes without a new attempt.
<1>m. ASSUME NEW w \in Runners, NEW r, runner' = [runner EXCEPT ![w] = r], RunnerShape(r),
             r.effect # 0 => Running(w) /\ r.stage = runner[w].stage,
             UNCHANGED <<audit, attempts, overlapped>>,
             step' \in [StageNames -> {"pending", "running", "completed", "skipped", "failed"}],
             artifact' \in [Artifacts -> Nat], stored' = [t \in StageTables |-> stored'[t]],
             made_from' = [st \in StageNames |-> made_from'[st]]
      PROVE  StagesTypeInv'
  <2>1. /\ runner' = [v \in Runners |-> runner'[v]] /\ runner'[w] = r
        /\ \A v \in Runners \ {w} : runner'[v] = runner[v]
    BY <1>m, OthersStay
  <2>2. ASSUME NEW v \in Runners PROVE RunnerShape(runner'[v])
                                       /\ (Running(v)' => attempts'[StageOf(v)'] > 0)
    BY <1>m, <2>1 DEF StagesTypeInv, Running, StageOf
  <2> QED BY <1>m, <2>1, <2>2 DEF StagesTypeInv
<1>2. ASSUME NEW w \in Runners, Running(w), Rest(w) > 0, NEW read,
             runner' = [runner EXCEPT ![w] = Advanced(w, read)],
             UNCHANGED <<audit, attempts, overlapped, step, made_from>>,
             artifact' \in [Artifacts -> Nat], stored' = [t \in StageTables |-> stored'[t]]
      PROVE  StagesTypeInv'
  <2> DEFINE r == Advanced(w, read)
  <2>1. RunnerShape(r) /\ r.stage = runner[w].stage
    <3>1. /\ runner[w].stage \in Numbers /\ runner[w].effect + 1 \in Nat
          /\ runner[w].effect + 1 <= Size(runner[w].stage) + 1
      BY <1>2, InStage
    <3> QED BY <3>1, Shapes DEF Advanced, At
  <2> HIDE DEF r
  <2>2. runner' = [runner EXCEPT ![w] = r]
    BY <1>2 DEF r
  <2> QED BY <1>2, <2>1, <2>2, <1>m DEF StagesTypeInv
<1>3. ASSUME NEW w \in Runners, NEW status \in {"completed", "skipped", "failed"}, Running(w),
             NEW r, r = Idle \/ r = At(runner[w].stage, 0, <<>>, <<>>),
             runner' = [runner EXCEPT ![w] = r],
             step' = [step EXCEPT ![StageOf(w)] = status],
             UNCHANGED <<audit, attempts, overlapped, artifact, stored>>,
             made_from' = [st \in StageNames |-> made_from'[st]]
      PROVE  StagesTypeInv'
  <2>1. RunnerShape(r) /\ r.effect = 0
    BY <1>3, InStage, Shapes DEF At, Idle
  <2>2. step' \in [StageNames -> {"pending", "running", "completed", "skipped", "failed"}]
    BY <1>3, InStage DEF StagesTypeInv
  <2> QED BY <1>3, <2>1, <2>2, <1>m DEF StagesTypeInv
<1>4. ASSUME NEW w \in Runners, LoadArtifact(w) PROVE StagesTypeInv'
  BY <1>2, <1>3, <1>4 DEF LoadArtifact, FailStage, StagesTypeInv
<1>5. ASSUME NEW w \in Runners, LookAtTables(w) PROVE StagesTypeInv'
  BY <1>2, <1>5 DEF LookAtTables, StagesTypeInv
<1>6. ASSUME NEW w \in Runners, SaveArtifact(w) PROVE StagesTypeInv'
  <2>1. artifact' \in [Artifacts -> Nat]
    BY <1>6, InStage DEF SaveArtifact, StagesTypeInv
  <2> QED BY <1>2, <1>6, <2>1 DEF SaveArtifact, StagesTypeInv
<1>7. ASSUME NEW w \in Runners, DeleteOld(w) PROVE StagesTypeInv'
  <2>1. CASE StageOf(w) = "COURT_CASE_GENERATION" /\ decided
    BY <1>3, <1>7, <2>1 DEF DeleteOld, StagesTypeInv
  <2>2. CASE ~(StageOf(w) = "COURT_CASE_GENERATION" /\ decided)
    <3> DEFINE old == [t \in StageTables |-> IF t \in Effect(w).clear THEN stored[t] ELSE {}]
               r == At(runner[w].stage, runner[w].effect, runner[w].read, old)
    <3>1. runner[w] = At(runner[w].stage, runner[w].effect, runner[w].read, runner[w].old)
      BY DEF StagesTypeInv, RunnerShape
    <3>2. [runner[w] EXCEPT !.old = old] = r
      <4> HIDE DEF old
      <4> QED BY <3>1 DEF At
    <3>3. runner' = [runner EXCEPT ![w] = r]
      BY <1>7, <2>2, <3>2 DEF DeleteOld
    <3>4. r.stage = runner[w].stage /\ r.effect = runner[w].effect /\ r.old = old
          /\ r = At(r.stage, r.effect, r.read, r.old)
      BY DEF At
    <3>5. Running(w) /\ Rest(w) > 0 /\ Effect(w).op = "write"
      BY <1>7 DEF DeleteOld
    <3>6. \A t \in StageTables \ Effect(w).clear : old[t] = {}
      OBVIOUS
    <3> HIDE DEF old, r
    <3>7. RunnerShape(r)
      <4>1. /\ r.stage \in Numbers /\ r.effect \in Nat \ {0} /\ r.effect <= Size(r.stage)
            /\ Effect(w) = EffectsOf(r.stage)[r.effect] /\ Size(r.stage) \in Nat
        BY <3>4, <3>5, InStage
      <4>2. r.stage \in 0..16 /\ r.stage # 0 /\ r.effect <= Size(r.stage) + 1
        BY <4>1 DEF Numbers
      <4> QED BY <3>4, <3>5, <3>6, <4>1, <4>2 DEF RunnerShape
    <3> QED BY <1>7, <2>2, <3>3, <3>4, <3>5, <3>7, <1>m DEF DeleteOld, StagesTypeInv
  <2> QED BY <2>1, <2>2
<1>8. ASSUME NEW w \in Runners, CommitRows(w) PROVE StagesTypeInv'
  <2>1. Running(w) /\ Rest(w) > 0
    BY <1>8, InStage DEF CommitRows, StagesTypeInv, RunnerShape, InTransaction
  <2>2. \/ FailStage(w) /\ UNCHANGED stored
        \/ /\ stored' = [t \in StageTables |-> stored'[t]]
           /\ runner' = [runner EXCEPT ![w] = Advanced(w, runner[w].read)] /\ UNCHANGED step
    BY <1>8 DEF CommitRows
  <2>3. UNCHANGED <<audit, attempts, artifact, made_from, overlapped>>
    BY <1>8 DEF CommitRows
  <2> QED BY <1>2, <1>3, <2>1, <2>2, <2>3 DEF FailStage, StagesTypeInv
<1>9. ASSUME NEW w \in Runners, EndStage(w) PROVE StagesTypeInv'
  <2>1. made_from' = [st \in StageNames |-> made_from'[st]]
    BY <1>9 DEF EndStage, StagesTypeInv
  <2> QED BY <1>3, <1>9, <2>1 DEF EndStage
<1>10. ASSUME NEW w \in Runners, StopRunner(w) PROVE StagesTypeInv'
  <2>1. RunnerShape(Idle) /\ Idle.effect = 0
    BY Shapes DEF Idle, At
  <2> QED BY <1>m, <1>10, <2>1 DEF StopRunner, StagesTypeInv
<1>11. CASE Decide
  BY <1>11 DEF Decide, StagesTypeInv, Running, StageOf
<1>12. CASE UNCHANGED stagesVars
  BY <1>12 DEF stagesVars, StagesTypeInv, Running, StageOf
<1> QED
  BY <1>1, <1>4, <1>5, <1>6, <1>7, <1>8, <1>9, <1>10, <1>11, <1>12 DEF StagesNext

-----------------------------------------------------------------------------
(* Artifacts. *)

\* Artifacts do not vanish.
LEMMA ArtifactsStay ==
    ASSUME StagesTypeInv, [StagesNext]_stagesVars
    PROVE  /\ audit' = audit
           /\ \A a \in Artifacts : Has(a) => Has(a)'
           /\ \A st : ~Skips(st) => ~Skips(st)'
<1>1. ASSUME NEW w \in Runners, SaveArtifact(w), NEW a \in Artifacts, Has(a) PROVE Has(a)'
  <2>1. /\ artifact'[a] = IF a \in Effect(w).names THEN attempts[StageOf(w)] ELSE artifact[a]
        /\ Running(w)
    BY <1>1 DEF SaveArtifact
  <2>2. attempts[StageOf(w)] > 0 /\ attempts[StageOf(w)] \in Nat
    BY <2>1, InStage DEF StagesTypeInv
  <2> QED BY <1>1, <2>1, <2>2 DEF Has
<1>2. ASSUME \A w \in Runners : ~SaveArtifact(w) PROVE artifact' = artifact
  BY <1>2 DEF StagesNext, stagesVars, BeginStage, LoadArtifact, LookAtTables, DeleteOld, CommitRows,
              EndStage, StopRunner, Decide
<1>3. \A a \in Artifacts : Has(a) => Has(a)'
  BY <1>1, <1>2 DEF Has
<1>4. audit' = audit
  BY DEF StagesNext, stagesVars, BeginStage, LoadArtifact, LookAtTables, SaveArtifact, DeleteOld,
         CommitRows, EndStage, StopRunner, Decide
<1>5. {"dynamics_raw", "model", "preds"} \subseteq Artifacts
  BY SavedAre, SavedInIs
<1> QED BY <1>3, <1>4, <1>5 DEF Skips

\* What a running stage loads is there.
LEMMA LoadsFind ==
    ASSUME StagesTypeInv, ArtifactInv, NEW w \in Runners, Running(w), Rest(w) > 0,
           Effect(w).op = "load", NEW a \in Effect(w).names
    PROVE  Has(a)
<1> DEFINE n == runner[w].stage
           m == SavedIn[a]
<1>1. /\ n \in Numbers /\ runner[w].effect \in 1..Size(n)
      /\ Effect(w) = EffectsOf(n)[runner[w].effect]
      /\ StageOf(w) = Pipeline[n]
  BY InStage
<1> HIDE DEF n
<1>2. Proper(n, Effect(w)) /\ a \in Artifacts
  BY <1>1, EffectIsProper, SavedAre DEF Proper
<1>3. /\ m < n /\ (m \in {3, 5, 6, 7} \/ (m = 8 /\ n \in {9, 10, 11}))
  BY <1>2 DEF Proper
<1>4. m \in Numbers /\ a \in Saved(Pipeline[m])
  BY <1>2, NamesApart
<1> HIDE DEF m
<1>5. m \in 1..(n - 1)
  BY <1>1, <1>3, <1>4 DEF Numbers
<1>6. Provided(m)
  BY <1>5 DEF ArtifactInv, FindsBehind, n
<1>7. CASE m \in {3, 5, 6, 7}
  BY <1>4, <1>6, <1>7 DEF Provided, Present
<1>8. CASE m = 8 /\ n \in {9, 10, 11}
  <2>1. ~Skips(Pipeline[n])
    BY <1>1 DEF ArtifactInv, FindsBehind, Running, n
  <2>2. \E x \in {"dynamics_raw", "model", "preds"} : Has(x)
    BY <1>8, <2>1, PipelineIs DEF Skips
  <2>3. \A x \in {"dynamics_raw", "model", "preds"} : x \in Saved(Pipeline[8])
    BY SavedAre, SavedInIs, NamesApart
  <2>4. audit.trainable
    BY <2>2, <2>3 DEF ArtifactInv
  <2> QED BY <1>4, <1>6, <1>8, <2>4 DEF Provided, Present
<1> QED BY <1>3, <1>7, <1>8

LEMMA EightToEleven ==
    \A n \in Numbers :
        Pipeline[n] \in {"BASELINE_TRAINING", "TRAINING_DYNAMICS", "INFLUENCE_ANALYSIS",
                        "LABEL_FORENSICS"} => n \in {8, 9, 10, 11}
BY PipelineIs DEF Numbers

LEMMA NextArtifactInv ==
    StagesTypeInv /\ ArtifactInv /\ [StagesNext]_stagesVars => ArtifactInv'
<1> SUFFICES ASSUME StagesTypeInv, ArtifactInv, [StagesNext]_stagesVars PROVE ArtifactInv'
  OBVIOUS
<1>a. /\ audit' = audit /\ \A a \in Artifacts : Has(a) => Has(a)'
      /\ \A st : ~Skips(st) => ~Skips(st)'
  BY ArtifactsStay
<1>s. \A n \in Numbers : Saved(Pipeline[n]) \subseteq Artifacts
  BY OwnNames
<1>p. \A n \in Numbers : Provided(n) => Provided(n)'
  BY <1>a, <1>s DEF Provided, Present
<1>e. \A n \in Numbers, k \in Nat :
        k \in 1..Size(n) /\ EffectsOf(n)[k].op = "save" => EffectsOf(n)[k].names \subseteq Artifacts
  BY <1>s, OwnNames
\* What holds of a process stays so while it does not move.
<1>v. ASSUME NEW r, RunnerShape(r), FindsBehind(r) PROVE FindsBehind(r)'
  <2>1. r.stage \in 0..16 /\ r.effect \in Nat
    BY <1>v DEF RunnerShape
  <2>2. \A n \in 1..(r.stage - 1) : n \in Numbers
    BY <2>1 DEF Numbers
  <2>3. r.stage # 0 => r.stage \in Numbers
    BY <2>1 DEF Numbers
  <2>4. ASSUME r.effect # 0, NEW k \in 1..(r.effect - 1), EffectsOf(r.stage)[k].op = "save"
        PROVE  EffectsOf(r.stage)[k].names \subseteq Artifacts
    <3>1. r.stage \in Numbers /\ r.effect <= Size(r.stage) + 1
      BY <1>v, <2>4 DEF RunnerShape
    <3>2. k \in Nat /\ k \in 1..Size(r.stage)
      BY <2>1, <2>4, <3>1, SizesAre
    <3> QED BY <1>e, <2>4, <3>1, <3>2
  <2> QED BY <1>a, <1>p, <1>v, <2>2, <2>3, <2>4 DEF FindsBehind
\* The same for a step of one process.
<1>w. ASSUME NEW w \in Runners, NEW r, runner' = [runner EXCEPT ![w] = r], FindsBehind(r)',
             missing' = missing,
             \A n \in Numbers : Settled(n)' => Settled(n) \/ Provided(n)',
             ~audit'.trainable => \A a \in Saved(Pipeline[8]) : ~Has(a)'
      PROVE  ArtifactInv'
  <2>1. ASSUME NEW v \in Runners PROVE FindsBehind(runner[v])'
    <3>1. RunnerShape(runner[v]) /\ FindsBehind(runner[v])
      BY DEF StagesTypeInv, ArtifactInv
    <3>2. runner'[w] = r /\ \A u \in Runners \ {w} : runner'[u] = runner[u]
      BY <1>w, OthersStay
    <3>3. CASE v = w
      <4>1. runner'[v] = r
        BY <3>2, <3>3
      <4> QED BY <1>w, <4>1 DEF FindsBehind
    <3>4. CASE v # w
      <4>1. runner'[v] = runner[v]
        BY <3>2, <3>4
      <4> QED BY <1>v, <3>1, <4>1 DEF FindsBehind
    <3> QED BY <3>3, <3>4
  <2> QED BY <1>p, <1>w, <2>1 DEF ArtifactInv
\* The next effect of a stage, and its end.
<1>d. ASSUME NEW w \in Runners, NEW read, NEW r, r = Advanced(w, read), Running(w), Rest(w) > 0,
             Effect(w).op = "save" => \A a \in Effect(w).names : Has(a)'
      PROVE  FindsBehind(r)'
  <2>n. PICK n, k : n = runner[w].stage /\ k = runner[w].effect
    OBVIOUS
  <2>1. /\ n \in Numbers /\ k \in Nat \ {0} /\ Effect(w) = EffectsOf(n)[k]
        /\ StageOf(w) = Pipeline[n]
    BY <1>d, <2>n, InStage
  <2>2. /\ FindsBehind(runner[w]) /\ RunnerShape(runner[w])
    BY DEF ArtifactInv, StagesTypeInv
  <2>3. PICK q : q = runner[w] /\ FindsBehind(q)'
    BY <1>v, <2>2
  <2>4. /\ \A m \in 1..(n - 1) : Provided(m)'
        /\ ~Skips(Pipeline[n])'
        /\ \A j \in 1..(k - 1) :
              EffectsOf(n)[j].op = "save" => \A a \in EffectsOf(n)[j].names : Has(a)'
    <3>1. q.stage = n /\ q.effect = k /\ k # 0
      BY <2>n, <2>1, <2>3
    <3> QED BY <2>3, <3>1 DEF FindsBehind
  <2>5. r.stage = n /\ r.effect = k + 1
    BY <1>d, <2>n DEF Advanced, At
  <2>6. \A j \in 1..k : j \in 1..(k - 1) \/ j = k
    BY <2>1
  <2>7. k + 1 - 1 = k /\ k + 1 # 0
    BY <2>1
  <2>8. \A m \in 1..(r.stage - 1) : Provided(m)'
    BY <2>4, <2>5
  <2>9. ~Skips(Pipeline[r.stage])'
    BY <2>4, <2>5
  <2>10. \A j \in 1..(r.effect - 1) :
            EffectsOf(r.stage)[j].op = "save" => \A a \in EffectsOf(r.stage)[j].names : Has(a)'
    BY <1>d, <2>1, <2>4, <2>5, <2>6, <2>7
  <2>11. r.effect # 0
    BY <2>5, <2>7
  <2> QED BY <2>8, <2>9, <2>10, <2>11 DEF FindsBehind
\* The end of a stage.
<1>z. ASSUME NEW w \in Runners, NEW n, n = runner[w].stage, n \in Numbers, Provided(n),
             NEW r, r = At(n, 0, <<>>, <<>>)
      PROVE  FindsBehind(r)'
  <2>1. r.stage = n /\ r.effect = 0
    BY <1>z DEF At
  <2>2. FindsBehind(runner[w]) /\ RunnerShape(runner[w])
    BY DEF ArtifactInv, StagesTypeInv
  <2>3. PICK q : q = runner[w] /\ FindsBehind(q)'
    BY <1>v, <2>2
  <2>4. \A m \in 1..(n - 1) : Provided(m)'
    BY <1>z, <2>3 DEF FindsBehind
  <2>5. Provided(n)'
    BY <1>p, <1>z
  <2> QED BY <2>1, <2>4, <2>5 DEF FindsBehind
<1>i. FindsBehind(Idle)'
  BY DEF FindsBehind, Idle, At
<1>t. ~audit.trainable => \A a \in Saved(Pipeline[8]) : ~Has(a)
  BY DEF ArtifactInv
<1>1. ASSUME NEW w \in Runners, BeginStage(w) PROVE ArtifactInv'
  <2> DEFINE first == runner[w].stage + 1
  <2>1. PICK n \in first..Len(Pipeline) :
          /\ \A k \in first..(n - 1) : Settled(k)
          /\ \/ /\ Skips(Pipeline[n])
                /\ step' = [step EXCEPT ![Pipeline[n]] = "skipped"]
                /\ runner' = [runner EXCEPT ![w] = At(n, 0, <<>>, <<>>)]
             \/ /\ ~Skips(Pipeline[n])
                /\ step' = [step EXCEPT ![Pipeline[n]] = "running"]
                /\ runner' = [runner EXCEPT ![w] = At(n, 1, <<>>, <<>>)]
    BY <1>1 DEF BeginStage, Settled
  <2>2. UNCHANGED <<missing, artifact, audit>> /\ ~Running(w)
    BY <1>1 DEF BeginStage
  <2>3. runner[w].stage \in 0..16 /\ runner[w].effect = 0
    BY <2>2 DEF StagesTypeInv, RunnerShape, Running
  <2>4. n \in Numbers
    BY <2>1, <2>3, PipelineIs DEF Numbers
  <2>5. \A m \in 1..(n - 1) : Provided(m)'
    <3>1. ASSUME NEW m \in 1..(n - 1) PROVE Provided(m)
      <4>0. PICK s \in 0..16 : s = runner[w].stage
        BY <2>3
      <4>1. /\ m \in Numbers
            /\ (m \in 1..(s - 1) \/ (m = s /\ s # 0) \/ m \in (s + 1)..(n - 1))
        BY <2>4 DEF Numbers
      <4>2. CASE m \in 1..(s - 1)
        BY <4>0, <4>2 DEF ArtifactInv, FindsBehind
      <4>3. CASE m = s /\ s # 0
        BY <2>3, <4>0, <4>3 DEF ArtifactInv, FindsBehind
      <4>4. CASE m \in (s + 1)..(n - 1)
        BY <2>1, <4>0, <4>1, <4>4 DEF ArtifactInv
      <4> QED BY <4>1, <4>2, <4>3, <4>4
    <3>2. \A m \in 1..(n - 1) : m \in Numbers
      BY <2>4 DEF Numbers
    <3> QED BY <3>1, <3>2, <1>p
  <2>6. Skips(Pipeline[n]) => Provided(n)
    <3>1. Skips(Pipeline[n]) => n \in {8, 9, 10, 11}
      BY <2>4, PipelineIs, EightToEleven DEF Skips
    <3>2. Skips(Pipeline[8]) => ~audit.trainable
      BY PipelineIs DEF Skips
    <3> QED BY <3>1, <3>2 DEF Provided
  <2>7. PICK k \in {0, 1} : /\ runner' = [runner EXCEPT ![w] = At(n, k, <<>>, <<>>)]
                            /\ k = 0 => Skips(Pipeline[n])
                            /\ k = 1 => ~Skips(Pipeline[n])
                            /\ step' = [step EXCEPT ![Pipeline[n]] =
                                            IF k = 0 THEN "skipped" ELSE "running"]
    BY <2>1
  <2> DEFINE r == At(n, k, <<>>, <<>>)
  <2>8. r.stage = n /\ r.effect = k
    BY DEF At
  <2> HIDE DEF r
  <2>9. FindsBehind(r)'
    <3>1. k = 0 => Provided(n)'
      BY <1>p, <2>4, <2>6, <2>7
    <3>2. k = 1 => ~Skips(Pipeline[n])'
      BY <1>a, <2>7
    <3>3. 1..(1 - 1) = {}
      OBVIOUS
    <3> QED BY <2>5, <2>7, <2>8, <3>1, <3>2, <3>3 DEF FindsBehind
  <2>10. \A m \in Numbers : Settled(m)' => Settled(m) \/ Provided(m)'
    <3>1. ASSUME NEW m \in Numbers, Settled(m)' PROVE Settled(m) \/ Provided(m)'
      <4>1. CASE m = n
        <5>1. k = 0
          BY <2>4, <2>7, <3>1, <4>1, PipelineIs DEF Settled, StagesTypeInv
        <5> QED BY <1>p, <2>4, <2>6, <2>7, <4>1, <5>1
      <4>2. CASE m # n
        <5>1. Pipeline[m] # Pipeline[n] /\ Pipeline[m] \in StageNames
          BY <2>4, <4>2, PipelineIs
        <5>2. step'[Pipeline[m]] = step[Pipeline[m]]
          BY <2>7, <5>1 DEF StagesTypeInv
        <5> QED BY <3>1, <5>2 DEF Settled
      <4> QED BY <4>1, <4>2
    <3> QED BY <3>1
  <2>11. ~audit'.trainable => \A a \in Saved(Pipeline[8]) : ~Has(a)'
    BY <1>t, <2>2 DEF Has
  <2> QED BY <1>w, <2>2, <2>7, <2>9, <2>10, <2>11 DEF r
\* Steps that save nothing: the status of at most one stage changes.
<1>n. ASSUME NEW w \in Runners, NEW r, runner' = [runner EXCEPT ![w] = r], FindsBehind(r)',
             UNCHANGED <<missing, artifact>>,
             \/ UNCHANGED step
             \/ step' = [step EXCEPT ![StageOf(w)] = "failed"]
             \/ /\ Running(w) /\ Provided(runner[w].stage)
                /\ \E status : step' = [step EXCEPT ![StageOf(w)] = status]
      PROVE  ArtifactInv'
  <2>1. \A m \in Numbers : Settled(m)' => Settled(m) \/ Provided(m)'
    <3>1. ASSUME NEW m \in Numbers, Settled(m)' PROVE Settled(m) \/ Provided(m)'
      <4>1. Pipeline[m] \in StageNames
        BY PipelineIs
      <4>2. CASE UNCHANGED step
        BY <3>1, <4>2 DEF Settled
      <4>3. CASE step' = [step EXCEPT ![StageOf(w)] = "failed"]
        BY <3>1, <4>1, <4>3 DEF Settled, StagesTypeInv
      <4>4. ASSUME Running(w), Provided(runner[w].stage),
                   NEW status, step' = [step EXCEPT ![StageOf(w)] = status]
            PROVE  Settled(m) \/ Provided(m)'
        <5>1. StageOf(w) = Pipeline[runner[w].stage] /\ runner[w].stage \in Numbers
          BY <4>4, InStage
        <5>2. CASE m = runner[w].stage
          BY <1>p, <4>4, <5>2
        <5>3. CASE m # runner[w].stage
          <6>1. Pipeline[m] # StageOf(w)
            BY <5>1, <5>3, PipelineIs
          <6>2. step'[Pipeline[m]] = step[Pipeline[m]]
            BY <4>1, <4>4, <6>1 DEF StagesTypeInv
          <6> QED BY <3>1, <6>2 DEF Settled
        <5> QED BY <5>2, <5>3
      <4> QED BY <1>n, <4>2, <4>3, <4>4
    <3> QED BY <3>1
  <2>2. ~audit'.trainable => \A a \in Saved(Pipeline[8]) : ~Has(a)'
    BY <1>a, <1>n, <1>t DEF Has
  <2> QED BY <1>n, <1>w, <2>1, <2>2
<1>2. ASSUME NEW w \in Runners, LoadArtifact(w) PROVE ArtifactInv'
  <2>1. ~(Effect(w).op = "load" /\ {a \in Effect(w).names : ~Has(a)} # {})
    BY <1>2, LoadsFind DEF LoadArtifact
  <2>2. PICK read, r : r = Advanced(w, read) /\ runner' = [runner EXCEPT ![w] = r]
    BY <1>2, <2>1 DEF LoadArtifact
  <2>3. /\ UNCHANGED <<missing, artifact, step>> /\ Running(w) /\ Rest(w) > 0
        /\ Effect(w).op # "save"
    BY <1>2, <2>1 DEF LoadArtifact
  <2> QED BY <1>d, <1>n, <2>2, <2>3
<1>3. ASSUME NEW w \in Runners, LookAtTables(w) PROVE ArtifactInv'
  <2>1. PICK read, r : r = Advanced(w, read) /\ runner' = [runner EXCEPT ![w] = r]
    BY <1>3 DEF LookAtTables
  <2>2. /\ UNCHANGED <<missing, artifact, step>> /\ Running(w) /\ Rest(w) > 0
        /\ Effect(w).op # "save"
    BY <1>3 DEF LookAtTables
  <2> QED BY <1>d, <1>n, <2>1, <2>2
<1>4. ASSUME NEW w \in Runners, SaveArtifact(w) PROVE ArtifactInv'
  <2> DEFINE n == runner[w].stage
  <2>1. /\ Running(w) /\ Rest(w) > 0 /\ Effect(w).op = "save"
        /\ artifact' = [a \in Artifacts |->
                          IF a \in Effect(w).names THEN attempts[StageOf(w)] ELSE artifact[a]]
        /\ runner' = [runner EXCEPT ![w] = Advanced(w, runner[w].read)]
        /\ UNCHANGED <<step, missing, audit>>
    BY <1>4 DEF SaveArtifact
  <2>2. attempts[StageOf(w)] > 0 /\ attempts[StageOf(w)] \in Nat
    BY <2>1, InStage DEF StagesTypeInv
  <2>3. /\ n \in Numbers /\ runner[w].effect \in 1..Size(n) /\ StageOf(w) = Pipeline[n]
        /\ Effect(w) = EffectsOf(n)[runner[w].effect]
    BY <2>1, InStage
  <2>4. Effect(w).names \subseteq Saved(Pipeline[n]) /\ Effect(w).names \subseteq Artifacts
    BY <1>s, <2>1, <2>3, OwnNames
  <2>5. \A a \in Effect(w).names : Has(a)'
    BY <2>1, <2>2, <2>4 DEF Has
  <2>6. ~audit'.trainable => \A a \in Saved(Pipeline[8]) : ~Has(a)'
    <3>1. ASSUME ~audit.trainable, NEW a \in Saved(Pipeline[8]) PROVE a \notin Effect(w).names
      <4>1. SavedIn[a] = 8
        BY OwnNames DEF Numbers
      <4>2. n # 8
        <5>1. ~Skips(Pipeline[n])
          BY <2>1, <2>3 DEF ArtifactInv, FindsBehind, Running
        <5> QED BY <3>1, <5>1, PipelineIs DEF Skips
      <4> QED BY <2>3, <2>4, <4>1, <4>2, OwnNames
    <3>2. Saved(Pipeline[8]) \subseteq Artifacts
      BY <1>s DEF Numbers
    <3> QED BY <1>t, <2>1, <3>1, <3>2 DEF Has
  <2>7. PICK read, r : /\ read = runner[w].read /\ r = Advanced(w, read)
                       /\ runner' = [runner EXCEPT ![w] = r]
    BY <2>1
  <2>8. FindsBehind(r)'
    BY <1>d, <2>1, <2>5, <2>7
  <2>9. \A m \in Numbers : Settled(m)' => Settled(m)
    BY <2>1 DEF Settled
  <2> QED BY <1>w, <2>1, <2>6, <2>7, <2>8, <2>9
<1>5. ASSUME NEW w \in Runners, DeleteOld(w) PROVE ArtifactInv'
  <2>1. CASE StageOf(w) = "COURT_CASE_GENERATION" /\ decided
    <3>1. /\ Running(w) /\ UNCHANGED <<missing, artifact>>
          /\ step' = [step EXCEPT ![StageOf(w)] = "skipped"]
          /\ runner' = [runner EXCEPT ![w] = At(runner[w].stage, 0, <<>>, <<>>)]
      BY <1>5, <2>1 DEF DeleteOld
    <3>2. runner[w].stage \in Numbers /\ Pipeline[runner[w].stage] = Pipeline[14]
      BY <2>1, <3>1, InStage, PipelineIs
    <3>3. runner[w].stage = 14
      BY <3>2, PipelineIs DEF Numbers
    <3>4. Provided(runner[w].stage)
      BY <3>3 DEF Provided
    <3>5. PICK n, r : /\ n = runner[w].stage /\ r = At(n, 0, <<>>, <<>>)
                      /\ runner' = [runner EXCEPT ![w] = r]
      BY <3>1
    <3>6. FindsBehind(r)'
      BY <1>z, <3>2, <3>4, <3>5
    <3> QED BY <1>n, <3>1, <3>4, <3>5, <3>6
  <2>2. CASE ~(StageOf(w) = "COURT_CASE_GENERATION" /\ decided)
    <3>1. PICK old : runner' = [runner EXCEPT ![w].old = old]
      BY <1>5, <2>2 DEF DeleteOld
    <3>2. UNCHANGED <<missing, artifact, step>>
      BY <1>5, <2>2 DEF DeleteOld
    <3>3. PICK q, r : /\ q = runner[w] /\ FindsBehind(q)' /\ r = [q EXCEPT !.old = old]
                      /\ runner' = [runner EXCEPT ![w] = r]
      <4>1. FindsBehind(runner[w]) /\ RunnerShape(runner[w])
        BY DEF ArtifactInv, StagesTypeInv
      <4> QED BY <1>v, <3>1, <4>1
    <3>4. r.stage = q.stage /\ r.effect = q.effect
      <4>1. q = At(q.stage, q.effect, q.read, q.old)
        BY <3>3 DEF StagesTypeInv, RunnerShape
      <4> QED BY <3>3, <4>1 DEF At
    <3>6. FindsBehind(r)'
      BY <3>3, <3>4 DEF FindsBehind
    <3> QED BY <1>n, <3>2, <3>3, <3>6
  <2> QED BY <2>1, <2>2
<1>6. ASSUME NEW w \in Runners, CommitRows(w) PROVE ArtifactInv'
  <2>1. Running(w) /\ Rest(w) > 0 /\ Effect(w).op = "write"
    BY <1>6, InStage DEF CommitRows, StagesTypeInv, RunnerShape, InTransaction
  <2>2. \/ FailStage(w)
        \/ runner' = [runner EXCEPT ![w] = Advanced(w, runner[w].read)] /\ UNCHANGED step
    BY <1>6 DEF CommitRows
  <2>3. UNCHANGED <<missing, artifact>>
    BY <1>6 DEF CommitRows
  <2>4. CASE FailStage(w)
    BY <1>i, <1>n, <2>3, <2>4 DEF FailStage
  <2>5. CASE runner' = [runner EXCEPT ![w] = Advanced(w, runner[w].read)] /\ UNCHANGED step
    <3>1. PICK read, r : /\ read = runner[w].read /\ r = Advanced(w, read)
                         /\ runner' = [runner EXCEPT ![w] = r]
      BY <2>5
    <3> QED BY <1>d, <1>n, <2>1, <2>3, <2>5, <3>1
  <2> QED BY <2>2, <2>4, <2>5
<1>7. ASSUME NEW w \in Runners, EndStage(w) PROVE ArtifactInv'
  <2>1. PICK n, r :
          /\ n = runner[w].stage /\ r = At(n, 0, <<>>, <<>>)
          /\ Running(w) /\ Rest(w) = 0 /\ UNCHANGED <<missing, artifact>>
          /\ step' = [step EXCEPT ![StageOf(w)] = "completed"]
          /\ runner' = [runner EXCEPT ![w] = r]
    BY <1>7 DEF EndStage
  <2>2. n \in Numbers /\ runner[w].effect = Size(n) + 1 /\ Size(n) \in Nat
    BY <2>1, InStage
  <2>3. \A k \in 1..Size(n) : EffectsOf(n)[k].op = "save" => \A a \in EffectsOf(n)[k].names : Has(a)
    <3>1. Size(n) + 1 - 1 = Size(n)
      BY <2>2
    <3> QED BY <2>1, <2>2, <3>1 DEF ArtifactInv, FindsBehind, Running
  <2>4. Provided(n)
    BY <2>2, <2>3, OwnNames DEF Provided, Present
  <2>5. FindsBehind(r)'
    BY <1>z, <2>1, <2>2, <2>4
  <2> QED BY <1>n, <2>1, <2>4, <2>5
<1>8. ASSUME NEW w \in Runners, StopRunner(w) PROVE ArtifactInv'
  BY <1>8, <1>i, <1>n DEF StopRunner
<1>9. ASSUME UNCHANGED <<runner, step, missing, artifact>> PROVE ArtifactInv'
  BY <1>9, <1>a DEF ArtifactInv, FindsBehind, Provided, Present, Settled, Has, Skips
<1> QED
  BY <1>1, <1>2, <1>3, <1>4, <1>5, <1>6, <1>7, <1>8, <1>9 DEF StagesNext, Decide, stagesVars

-----------------------------------------------------------------------------
(* Artifacts are found. *)

LEMMA InitStages == StagesInit => StagesTypeInv /\ ArtifactInv /\ OrderInv /\ RowsInv /\ WholeInv
<1> SUFFICES ASSUME StagesInit
             PROVE  StagesTypeInv /\ ArtifactInv /\ OrderInv /\ RowsInv /\ WholeInv
  OBVIOUS
<1>1. \A n \in Numbers : step[Pipeline[n]] = "pending"
  BY PipelineIs DEF StagesInit
<1>2. \A w \in Runners : runner[w] = Idle
  BY DEF StagesInit
<1>3. /\ Idle.stage = 0 /\ Idle.effect = 0 /\ Idle.old = <<>> /\ Idle.read = <<>>
      /\ RunnerShape(Idle)
  BY Shapes DEF Idle, At
<1>4. 0 \in Nat /\ 1..(0 - 1) = {}
  OBVIOUS
<1>5. StagesTypeInv
  BY <1>2, <1>3, <1>4 DEF StagesInit, StagesTypeInv, Running
<1>6. \A n \in Numbers : ~Settled(n)
  BY <1>1 DEF Settled
<1>7. \A a \in Artifacts : ~Has(a)
  BY DEF StagesInit, Has
<1>8. Saved(Pipeline[8]) \subseteq Artifacts
  BY OwnNames DEF Numbers
<1>9. FindsBehind(Idle) /\ InPlace(Idle) /\ WholeSoFar(Idle)
  BY <1>3, <1>4 DEF FindsBehind, InPlace, WholeSoFar
<1>10. ArtifactInv
  BY <1>2, <1>6, <1>7, <1>8, <1>9 DEF ArtifactInv, StagesInit
<1>11. OrderInv
  BY <1>1, <1>2, <1>9 DEF OrderInv, StepsInOrder
<1>12. RowsInv
  BY DEF RowsInv, AtMostOne, StagesInit
<1>13. WholeInv
  BY <1>1, <1>2, <1>9 DEF WholeInv
<1> QED BY <1>5, <1>10, <1>11, <1>12, <1>13

\* Type correctness: a process at work is at an effect of its stage, has an attempt of it, and
\* a transaction deletes from no table but those its effect clears.
THEOREM StagesSettle == StagesSpec => []StagesTypeInv
BY InitStages, NextStagesTypeInv, PTL DEF StagesSpec

\* No stage fails because an artifact it loads was never written (store.get of a stage whose
\* predecessors were skipped, died or were run again).
THEOREM LoadsNeverFail == StagesSpec => []NothingMissing
<1>1. ArtifactInv => NothingMissing
  BY DEF ArtifactInv, NothingMissing
<1> QED BY <1>1, InitStages, NextStagesTypeInv, NextArtifactInv, PTL DEF StagesSpec

-----------------------------------------------------------------------------
(* One process at a time. *)

\* The processes never met, and the others are at rest while one of them acts.
LEMMA OthersIdle ==
    ASSUME StagesTypeInv, OrderInv, [StagesNext]_stagesVars, ~overlapped',
           NEW w \in Runners, runner[w] # Idle \/ BeginStage(w)
    PROVE  ~overlapped /\ \A v \in Runners \ {w} : runner[v] = Idle
<1>1. ~overlapped
  BY DEF StagesTypeInv, StagesNext, stagesVars, BeginStage, LoadArtifact, LookAtTables,
         SaveArtifact, DeleteOld, CommitRows, EndStage, StopRunner, Decide
<1>2. CASE BeginStage(w)
  BY <1>1, <1>2 DEF BeginStage
<1>3. CASE runner[w] # Idle
  BY <1>1, <1>3 DEF OrderInv
<1> QED BY <1>1, <1>2, <1>3

LEMMA RunningIsNotIdle == \A w : Running(w) => runner[w] # Idle
BY DEF Running, Idle, At

\* A stage that follows settled ones and was not settled changes its status.
LEMMA StepsStayInOrder ==
    ASSUME StagesTypeInv, StepsInOrder, NEW n \in Numbers, ~Settled(n),
           \A m \in 1..(n - 1) : Settled(m),
           NEW status, step' = [step EXCEPT ![Pipeline[n]] = status]
    PROVE  /\ StepsInOrder' /\ step'[Pipeline[n]] = status
           /\ \A m \in Numbers \ {n} : step'[Pipeline[m]] = step[Pipeline[m]]
           /\ \A m \in 1..(n - 1) : Settled(m)'
<1>1. step'[Pipeline[n]] = status
  BY PipelineIs DEF StagesTypeInv
<1>2. \A m \in Numbers \ {n} : step'[Pipeline[m]] = step[Pipeline[m]]
  BY PipelineIs DEF StagesTypeInv
<1>3. \A m \in Numbers \ {n} : Settled(m) => Settled(m)'
  BY <1>2 DEF Settled
<1>4. \A k \in Numbers : \A m \in 1..(k - 1) : m \in Numbers /\ m # k
  BY DEF Numbers
<1>5. \A m \in 1..(n - 1) : Settled(m)'
  BY <1>3, <1>4
<1>6. ASSUME NEW k \in Numbers, NEW m \in 1..(k - 1), step'[Pipeline[k]] # "pending"
      PROVE  Settled(m)'
  <2>1. CASE k = n
    BY <1>5, <2>1
  <2>2. CASE k # n
    <3>1. Settled(m)
      BY <1>2, <1>6, <2>2 DEF StepsInOrder
    <3> QED BY <1>3, <1>4, <3>1
  <2> QED BY <2>1, <2>2
<1>7. StepsInOrder'
  BY <1>6 DEF StepsInOrder
<1> QED BY <1>1, <1>2, <1>5, <1>7

\* The step of a process that no other one disturbs.
LEMMA OrderKept ==
    ASSUME StagesTypeInv, NEW w \in Runners, \A v \in Runners \ {w} : runner[v] = Idle,
           NEW r, runner' = [runner EXCEPT ![w] = r], StepsInOrder', InPlace(r)'
    PROVE  OrderInv'
<1>1. runner'[w] = r /\ \A v \in Runners \ {w} : runner'[v] = Idle
  BY OthersStay
<1>2. InPlace(Idle)'
  <2>1. Idle.stage = 0 /\ Idle.effect = 0 /\ Idle.old = <<>> /\ 1..(0 - 1) = {}
    BY DEF Idle, At
  <2> QED BY <2>1 DEF InPlace
<1>3. \A v \in Runners : InPlace(runner[v])'
  <2>1. ASSUME NEW v \in Runners PROVE InPlace(runner[v])'
    <3>1. PICK q : q = runner'[v] /\ (q = r \/ q = Idle)
      BY <1>1
    <3> QED BY <1>2, <3>1 DEF InPlace
  <2> QED BY <2>1
<1>4. \A u, v \in Runners : runner'[u] # Idle /\ runner'[v] # Idle => u = v
  BY <1>1
<1> QED BY <1>3, <1>4 DEF OrderInv

\* The stage a process is in, in numbers.
LEMMA Place ==
    ASSUME StagesTypeInv, NEW w \in Runners, Running(w)
    PROVE  \E n \in Numbers : \E k \in Nat \ {0} :
            /\ n = runner[w].stage /\ k = runner[w].effect /\ StageOf(w) = Pipeline[n]
            /\ k <= Size(n) + 1 /\ Effect(w) = EffectsOf(n)[k]
            /\ Rest(w) > 0 => k \in 1..Size(n)
            /\ Rest(w) = 0 => k = Size(n) + 1
BY InStage

LEMMA NextOrderInv ==
    StagesTypeInv /\ OrderInv /\ [StagesNext]_stagesVars => OrderInv'
<1> SUFFICES ASSUME StagesTypeInv, OrderInv, [StagesNext]_stagesVars, ~overlapped'
             PROVE  OrderInv'
  BY DEF OrderInv
<1>o. ASSUME NEW w \in Runners, runner[w] # Idle \/ BeginStage(w)
      PROVE  /\ \A v \in Runners \ {w} : runner[v] = Idle
             /\ StepsInOrder /\ InPlace(runner[w])
  BY <1>o, OthersIdle DEF OrderInv
\* A process takes the next effect, and every step stays as it is.
<1>a. ASSUME NEW w \in Runners, Running(w), NEW read, UNCHANGED step,
             runner' = [runner EXCEPT ![w] = Advanced(w, read)]
      PROVE  OrderInv'
  <2>1. /\ \A v \in Runners \ {w} : runner[v] = Idle
        /\ StepsInOrder /\ InPlace(runner[w])
    BY <1>a, <1>o, RunningIsNotIdle
  <2>2. PICK n \in Numbers, k \in Nat \ {0} : n = runner[w].stage /\ k = runner[w].effect
    BY <1>a, Place
  <2>3. PICK r : /\ r = At(n, k + 1, read, <<>>)
                 /\ runner' = [runner EXCEPT ![w] = r]
    BY <1>a, <2>2 DEF Advanced
  <2>4. r.stage = n /\ r.effect # 0 /\ r.old = <<>>
    <3>1. k + 1 # 0
      BY <2>2
    <3> QED BY <2>3, <3>1 DEF At
  <2>5. (\A m \in 1..(n - 1) : Settled(m)') /\ step'[Pipeline[n]] = "running"
    BY <1>a, <2>1, <2>2 DEF InPlace, Settled
  <2>6. InPlace(r)'
    BY <2>4, <2>5 DEF InPlace
  <2>7. StepsInOrder'
    BY <1>a, <2>1 DEF StepsInOrder, Settled
  <2> QED BY <2>1, <2>3, <2>6, <2>7, OrderKept
\* A process leaves its stage.
<1>l. ASSUME NEW w \in Runners, Running(w), NEW status \in {"completed", "skipped", "failed"},
             step' = [step EXCEPT ![StageOf(w)] = status],
             NEW r, runner' = [runner EXCEPT ![w] = r],
             \/ r = Idle
             \/ status # "failed" /\ r = At(runner[w].stage, 0, <<>>, <<>>)
      PROVE  OrderInv'
  <2>1. /\ \A v \in Runners \ {w} : runner[v] = Idle
        /\ StepsInOrder /\ InPlace(runner[w])
    BY <1>l, <1>o, RunningIsNotIdle
  <2>2. PICK n \in Numbers, k \in Nat \ {0} :
          n = runner[w].stage /\ k = runner[w].effect /\ StageOf(w) = Pipeline[n]
    BY <1>l, Place
  <2>3. (\A m \in 1..(n - 1) : Settled(m)) /\ ~Settled(n)
    BY <2>1, <2>2 DEF InPlace, Settled
  <2>4. /\ StepsInOrder' /\ step'[Pipeline[n]] = status
        /\ \A m \in 1..(n - 1) : Settled(m)'
    BY <1>l, <2>1, <2>2, <2>3, StepsStayInOrder
  <2>5. InPlace(r)'
    <3>1. CASE r = Idle
      <4>1. Idle.stage = 0 /\ Idle.effect = 0 /\ Idle.old = <<>> /\ 1..(0 - 1) = {}
        BY DEF Idle, At
      <4> QED BY <3>1, <4>1 DEF InPlace
    <3>2. CASE status # "failed" /\ r = At(n, 0, <<>>, <<>>)
      <4>1. r.stage = n /\ r.effect = 0 /\ r.old = <<>>
        BY <3>2 DEF At
      <4>2. Settled(n)'
        BY <2>4, <3>2 DEF Settled
      <4> QED BY <2>4, <4>1, <4>2 DEF InPlace
    <3> QED BY <1>l, <2>2, <3>1, <3>2
  <2> QED BY <1>l, <2>1, <2>4, <2>5, OrderKept
<1>1. ASSUME NEW w \in Runners, BeginStage(w) PROVE OrderInv'
  <2>1. /\ \A v \in Runners \ {w} : runner[v] = Idle
        /\ StepsInOrder /\ InPlace(runner[w])
    BY <1>1, <1>o
  <2>2. PICK s \in 0..16 : s = runner[w].stage /\ runner[w].effect = 0
    BY <1>1 DEF BeginStage, Running, StagesTypeInv, RunnerShape
  <2>3. PICK n \in (s + 1)..Len(Pipeline) :
          /\ ~Settled(n) /\ \A k \in (s + 1)..(n - 1) : Settled(k)
          /\ \/ /\ step' = [step EXCEPT ![Pipeline[n]] = "skipped"]
                /\ runner' = [runner EXCEPT ![w] = At(n, 0, <<>>, <<>>)]
             \/ /\ step' = [step EXCEPT ![Pipeline[n]] = "running"]
                /\ runner' = [runner EXCEPT ![w] = At(n, 1, <<>>, <<>>)]
    BY <1>1, <2>2 DEF BeginStage, Settled
  <2>4. n \in Numbers
    BY <2>3, PipelineIs DEF Numbers
  <2>5. \A m \in 1..(n - 1) : Settled(m)
    <3>1. ASSUME NEW m \in 1..(n - 1) PROVE Settled(m)
      <4>1. m \in 1..(s - 1) \/ (m = s /\ s # 0) \/ m \in (s + 1)..(n - 1)
        BY <2>4 DEF Numbers
      <4> QED BY <2>1, <2>2, <2>3, <4>1 DEF InPlace
    <3> QED BY <3>1
  <2>k. PICK k \in {0, 1} :
          /\ runner' = [runner EXCEPT ![w] = At(n, k, <<>>, <<>>)]
          /\ step' = [step EXCEPT ![Pipeline[n]] = IF k = 0 THEN "skipped" ELSE "running"]
    BY <2>3
  <2>6. PICK r, status :
          /\ r = At(n, k, <<>>, <<>>) /\ runner' = [runner EXCEPT ![w] = r]
          /\ step' = [step EXCEPT ![Pipeline[n]] = status]
          /\ status = IF k = 0 THEN "skipped" ELSE "running"
    BY <2>k
  <2>7. /\ StepsInOrder' /\ step'[Pipeline[n]] = status
        /\ \A m \in 1..(n - 1) : Settled(m)'
    BY <2>1, <2>3, <2>4, <2>5, <2>6, StepsStayInOrder
  <2>8. r.stage = n /\ r.effect = k /\ r.old = <<>>
    BY <2>6 DEF At
  <2>9. InPlace(r)'
    BY <2>6, <2>7, <2>8 DEF InPlace, Settled
  <2> QED BY <2>1, <2>6, <2>7, <2>9, OrderKept
<1>2. ASSUME NEW w \in Runners, LoadArtifact(w) PROVE OrderInv'
  BY <1>2, <1>a, <1>l DEF LoadArtifact, FailStage
<1>3. ASSUME NEW w \in Runners, LookAtTables(w) PROVE OrderInv'
  BY <1>3, <1>a DEF LookAtTables
<1>4. ASSUME NEW w \in Runners, SaveArtifact(w) PROVE OrderInv'
  BY <1>4, <1>a DEF SaveArtifact
<1>5. ASSUME NEW w \in Runners, DeleteOld(w) PROVE OrderInv'
  <2>1. CASE StageOf(w) = "COURT_CASE_GENERATION" /\ decided
    BY <1>5, <1>l, <2>1 DEF DeleteOld
  <2>2. CASE ~(StageOf(w) = "COURT_CASE_GENERATION" /\ decided)
    <3>1. PICK old :
            /\ old = [t \in StageTables |-> IF t \in Effect(w).clear THEN stored[t] ELSE {}]
            /\ runner' = [runner EXCEPT ![w].old = old]
      BY <1>5, <2>2 DEF DeleteOld
    <3>2. Running(w) /\ UNCHANGED <<step, stored>>
      BY <1>5, <2>2 DEF DeleteOld
    <3>3. PICK n \in Numbers, k \in Nat \ {0} :
            n = runner[w].stage /\ k = runner[w].effect /\ Effect(w) = EffectsOf(n)[k]
      BY <3>2, Place
    <3>4. PICK r : r = [runner[w] EXCEPT !.old = old] /\ runner' = [runner EXCEPT ![w] = r]
      BY <3>1
    <3>5. r.stage = n /\ r.effect = k /\ r.old = old
      <4>1. runner[w] = At(n, k, runner[w].read, runner[w].old)
        BY <3>3 DEF StagesTypeInv, RunnerShape
      <4> QED BY <3>4, <4>1 DEF At
    <3>6. /\ \A v \in Runners \ {w} : runner[v] = Idle
          /\ StepsInOrder /\ InPlace(runner[w])
      BY <3>2, <1>o, RunningIsNotIdle
    <3>7. \A t \in EffectsOf(n)[k].clear \cap StageTables : old[t] = stored'[t]
      BY <3>1, <3>2, <3>3
    <3>8. InPlace(r)'
      BY <3>2, <3>3, <3>5, <3>6, <3>7 DEF InPlace, Settled
    <3>9. StepsInOrder'
      BY <3>2, <3>6 DEF StepsInOrder, Settled
    <3> QED BY <3>4, <3>6, <3>8, <3>9, OrderKept
  <2> QED BY <2>1, <2>2
<1>6. ASSUME NEW w \in Runners, CommitRows(w) PROVE OrderInv'
  <2>1. \/ FailStage(w)
        \/ runner' = [runner EXCEPT ![w] = Advanced(w, runner[w].read)] /\ UNCHANGED step
    BY <1>6 DEF CommitRows
  <2>2. Running(w)
    BY <1>6 DEF CommitRows
  <2> QED BY <1>a, <1>l, <2>1, <2>2 DEF FailStage
<1>7. ASSUME NEW w \in Runners, EndStage(w) PROVE OrderInv'
  BY <1>7, <1>l DEF EndStage
<1>8. ASSUME NEW w \in Runners, StopRunner(w) PROVE OrderInv'
  <2>1. /\ \A v \in Runners \ {w} : runner[v] = Idle
        /\ StepsInOrder /\ runner' = [runner EXCEPT ![w] = Idle] /\ UNCHANGED step
    BY <1>8, <1>o DEF StopRunner
  <2>2. StepsInOrder'
    BY <2>1 DEF StepsInOrder, Settled
  <2>3. InPlace(Idle)'
    <3>1. Idle.stage = 0 /\ Idle.effect = 0 /\ Idle.old = <<>> /\ 1..(0 - 1) = {}
      BY DEF Idle, At
    <3> QED BY <3>1 DEF InPlace
  <2> QED BY <2>1, <2>2, <2>3, OrderKept
<1>9. ASSUME UNCHANGED <<runner, step, stored, overlapped>> PROVE OrderInv'
  BY <1>9 DEF OrderInv, StepsInOrder, InPlace, Settled
<1> QED
  BY <1>1, <1>2, <1>3, <1>4, <1>5, <1>6, <1>7, <1>8, <1>9 DEF StagesNext, Decide, stagesVars

-----------------------------------------------------------------------------
(* The rows of one run. *)

\* Nothing but a commit changes the tables, and no two processes that have met forget it.
LEMMA TablesStay ==
    ASSUME StagesTypeInv, [StagesNext]_stagesVars, \A w \in Runners : ~CommitRows(w)
    PROVE  stored' = stored /\ (overlapped => overlapped')
<1>1. \A w \in Runners : DeleteOld(w) => UNCHANGED <<stored, overlapped>>
  BY Zenon DEF DeleteOld
<1>2. \A w \in Runners : BeginStage(w) => UNCHANGED stored /\ (overlapped => overlapped')
  BY DEF BeginStage
<1>3. ASSUME NEW w \in Runners,
             LoadArtifact(w) \/ LookAtTables(w) \/ SaveArtifact(w) \/ EndStage(w) \/ StopRunner(w)
      PROVE  UNCHANGED <<stored, overlapped>>
  BY <1>3 DEF LoadArtifact, LookAtTables, SaveArtifact, EndStage, StopRunner
<1>4. Decide \/ UNCHANGED stagesVars => UNCHANGED <<stored, overlapped>>
  BY DEF Decide, stagesVars
<1> QED BY <1>1, <1>2, <1>3, <1>4 DEF StagesNext

\* What a commit does, in the stage and the effect it is of.
LEMMA Committing ==
    ASSUME StagesTypeInv, NEW w \in Runners, CommitRows(w)
    PROVE  \E n \in Numbers : \E k \in Nat \ {0} :
            /\ Running(w) /\ Rest(w) > 0 /\ k \in 1..Size(n)
            /\ n = runner[w].stage /\ k = runner[w].effect /\ StageOf(w) = Pipeline[n]
            /\ Effect(w) = EffectsOf(n)[k] /\ EffectsOf(n)[k].op = "write"
            /\ \A t \in StageTables \ EffectsOf(n)[k].clear : runner[w].old[t] = {}
<1>1. Running(w) /\ runner[w].old # <<>>
  BY DEF CommitRows, InTransaction
<1>2. PICK n \in Numbers, k \in Nat \ {0} :
        /\ n = runner[w].stage /\ k = runner[w].effect /\ StageOf(w) = Pipeline[n]
        /\ Effect(w) = EffectsOf(n)[k] /\ (Rest(w) > 0 => k \in 1..Size(n))
  BY <1>1, Place
<1>3. /\ k <= Size(n) /\ EffectsOf(n)[k].op = "write"
      /\ \A t \in StageTables \ EffectsOf(n)[k].clear : runner[w].old[t] = {}
  BY <1>1, <1>2 DEF StagesTypeInv, RunnerShape
<1>4. Rest(w) > 0
  BY <1>1, <1>2, <1>3, InStage
<1> QED BY <1>1, <1>2, <1>3, <1>4

LEMMA NextRowsInv ==
    StagesTypeInv /\ OrderInv /\ RowsInv /\ [StagesNext]_stagesVars => RowsInv'
<1> SUFFICES ASSUME StagesTypeInv, OrderInv, RowsInv, [StagesNext]_stagesVars,
                    NEW t \in StageTables \ Appended
             PROVE  AtMostOne(stored'[t]) \/ (overlapped' /\ ~Keyed(t))
  BY DEF RowsInv
<1>1. ASSUME NEW w \in Runners, CommitRows(w)
      PROVE  AtMostOne(stored'[t]) \/ (overlapped' /\ ~Keyed(t))
  <2>1. PICK n \in Numbers, k \in Nat \ {0} :
          /\ Running(w) /\ k \in 1..Size(n)
          /\ n = runner[w].stage /\ k = runner[w].effect /\ StageOf(w) = Pipeline[n]
          /\ Effect(w) = EffectsOf(n)[k]
    BY <1>1, Committing
  <2> DEFINE filled == EffectsOf(n)[k].insert \cap Filled(Pipeline[n])
             kept == stored[t] \ runner[w].old[t]
  <2>2. overlapped' = overlapped /\ InTransaction(w)
    BY <1>1 DEF CommitRows
  <2>3. \/ UNCHANGED stored
        \/ /\ ~(t \in filled /\ Keyed(t) /\ kept # {})
           /\ stored'[t] = kept \cup IF t \in filled THEN {attempts[Pipeline[n]]} ELSE {}
    BY <1>1, <2>1 DEF CommitRows
  <2>4. t \in filled => t \in EffectsOf(n)[k].clear
    BY <2>1, EffectIsProper DEF Proper
  <2>5. ~overlapped /\ t \in filled => kept = {}
    <3>1. ASSUME ~overlapped, t \in filled PROVE runner[w].old[t] = stored[t]
      <4>1. InPlace(runner[w])
        BY <3>1 DEF OrderInv
      <4> QED BY <2>1, <2>2, <2>4, <3>1, <4>1 DEF InPlace, InTransaction
    <3> QED BY <3>1
  <2>6. CASE t \in filled /\ (Keyed(t) \/ ~overlapped)
    <3>1. UNCHANGED stored \/ stored'[t] = {attempts[Pipeline[n]]}
      BY <2>3, <2>5, <2>6
    <3> QED BY <2>2, <3>1 DEF RowsInv, AtMostOne
  <2>7. CASE t \notin filled
    <3>1. stored'[t] \subseteq stored[t]
      BY <2>3, <2>7
    <3> QED BY <2>2, <3>1 DEF RowsInv, AtMostOne
  <2> QED BY <2>2, <2>6, <2>7 DEF StagesTypeInv
<1>2. CASE \A w \in Runners : ~CommitRows(w)
  BY <1>2, TablesStay DEF RowsInv
<1> QED BY <1>1, <1>2

LEMMA CountedOnce == \A S : AtMostOne(S) => Cardinality(S) <= 1
<1>1. \A S : AtMostOne(S) => S = {} \/ \E x : S = {x}
  BY DEF AtMostOne
<1>2. Cardinality({}) = 0 /\ \A x : Cardinality({x}) = 1
  BY FS_EmptySet, FS_Singleton
<1>3. 0 <= 1 /\ 1 <= 1
  OBVIOUS
<1> QED BY <1>1, <1>2, <1>3, Zenon

\* However often stages are run again, a table holds the rows of one run of its stage; two
\* processes at once cannot double one that has a unique key of the audit (_clear and the
\* inserts after it).
THEOREM RowsComeFromOneRun == StagesSpec => []RowsOfOneRun
<1>1. RowsInv => RowsOfOneRun
  BY CountedOnce DEF RowsInv, RowsOfOneRun
<1> QED
  BY <1>1, InitStages, NextStagesTypeInv, NextOrderInv, NextRowsInv, PTL DEF StagesSpec

-----------------------------------------------------------------------------
(* What completed stages leave behind. *)

\* Everything under the names of the stages before s stays what it is.
StaysBefore(s) == \A x \in Artifacts \cup StageTables : From(x) < s => Value(x)' = Value(x)

LEMMA NamesHaveStages ==
    /\ \A a \in Artifacts : From(a) = SavedIn[a] /\ Value(a) = artifact[a]
    /\ \A t \in StageTables : From(t) = FilledIn[t] /\ Value(t) = stored[t]
    /\ \A x \in Artifacts \cup StageTables : From(x) \in Numbers
BY NamesApart DEF From, Value

LEMMA NamesHaveStagesNext ==
    /\ \A a \in Artifacts : Value(a)' = artifact'[a]
    /\ \A t \in StageTables : Value(t)' = stored'[t]
BY NamesApart DEF Value

LEMMA ReadsStay ==
    ASSUME NEW s \in Numbers, NEW n \in Numbers, n <= s, StaysBefore(s),
           NEW read, StillThere(n, read)
    PROVE  StillThere(n, read)'
<1>1. ASSUME NEW x \in DOMAIN read
      PROVE  x \in Artifacts \cup StageTables /\ From(x) < n /\ read[x] = Value(x)'
  <2>1. x \in Artifacts \cup StageTables /\ From(x) < n /\ read[x] = Value(x)
    BY DEF StillThere
  <2>2. From(x) \in Numbers
    BY <2>1, NamesHaveStages
  <2>3. From(x) < s
    BY <2>1, <2>2 DEF Numbers
  <2> QED BY <2>1, <2>3 DEF StaysBefore
<1> QED BY <1>1 DEF StillThere

\* What belongs to an effect.
LEMMA EffectOwns ==
    ASSUME NEW n \in Numbers, NEW k \in 1..Size(n)
    PROVE  /\ EffectsOf(n)[k].op = "save" =>
                \A a \in EffectsOf(n)[k].names : a \in Artifacts /\ From(a) = n
           /\ \A t \in EffectsOf(n)[k].insert : t \in StageTables /\ From(t) = n
<1>1. /\ EffectsOf(n)[k].op = "save" => EffectsOf(n)[k].names \subseteq Saved(Pipeline[n])
      /\ EffectsOf(n)[k].insert \subseteq Inserted(Pipeline[n])
  BY OwnNames
<1> QED BY <1>1, OwnNames, NamesHaveStages

LEMMA WholeStays ==
    ASSUME NEW s \in Numbers, NEW m \in Numbers, m < s, StaysBefore(s), Whole(m),
           audit' = audit, attempts'[Pipeline[m]] = attempts[Pipeline[m]],
           made_from'[Pipeline[m]] = made_from[Pipeline[m]]
    PROVE  Whole(m)'
<1>1. StillThere(m, made_from[Pipeline[m]])'
  <2>1. PICK read : read = made_from[Pipeline[m]] /\ read = made_from'[Pipeline[m]]
    OBVIOUS
  <2>2. m <= s
    BY DEF Numbers
  <2>3. StillThere(m, read)'
    BY <2>1, <2>2, ReadsStay DEF Whole
  <2> QED BY <2>1, <2>3 DEF StillThere
<1>2. ASSUME NEW k \in 1..Size(m) PROVE StillMade(m, EffectsOf(m)[k])'
  <2>1. StillMade(m, EffectsOf(m)[k])
    BY DEF Whole
  <2>2. ASSUME EffectsOf(m)[k].op = "save", NEW a \in EffectsOf(m)[k].names
        PROVE  artifact'[a] = attempts'[Pipeline[m]]
    <3>1. a \in Artifacts /\ From(a) = m
      BY <2>2, EffectOwns
    <3>2. Value(a)' = Value(a)
      BY <3>1 DEF StaysBefore
    <3> QED BY <2>1, <2>2, <3>1, <3>2, NamesHaveStages, NamesHaveStagesNext DEF StillMade
  <2>3. ASSUME NEW t \in EffectsOf(m)[k].insert \cap Filled(Pipeline[m])
        PROVE  attempts'[Pipeline[m]] \in stored'[t]
    <3>1. t \in StageTables /\ From(t) = m
      BY EffectOwns
    <3>2. Value(t)' = Value(t)
      BY <3>1 DEF StaysBefore
    <3> QED BY <2>1, <3>1, <3>2, NamesHaveStages, NamesHaveStagesNext DEF StillMade
  <2> QED BY <2>2, <2>3 DEF StillMade, Filled
<1> QED BY <1>1, <1>2 DEF Whole

\* The stages before one that is not settled have ended, and no later one has begun.
LEMMA CompletedBefore ==
    ASSUME StepsInOrder, NEW s \in Numbers, ~Settled(s),
           NEW m \in Numbers, step[Pipeline[m]] = "completed"
    PROVE  m < s
<1>1. CASE m = s
  BY <1>1 DEF Settled
<1>2. CASE s \in 1..(m - 1)
  BY <1>2 DEF StepsInOrder
<1> QED BY <1>1, <1>2 DEF Numbers

\* The step of a process that no other one disturbs, in stage s.
LEMMA WholeKept ==
    ASSUME StagesTypeInv, StepsInOrder, WholeInv, ~overlapped, audit' = audit,
           NEW w \in Runners, \A v \in Runners \ {w} : runner[v] = Idle,
           NEW s \in Numbers, ~Settled(s), StaysBefore(s),
           \A m \in Numbers \ {s} : /\ step'[Pipeline[m]] = step[Pipeline[m]]
                                    /\ attempts'[Pipeline[m]] = attempts[Pipeline[m]]
                                    /\ made_from'[Pipeline[m]] = made_from[Pipeline[m]],
           step'[Pipeline[s]] = "completed" => Whole(s)',
           NEW r, runner' = [runner EXCEPT ![w] = r], WholeSoFar(r)'
    PROVE  WholeInv'
<1>1. ASSUME NEW m \in Numbers, step'[Pipeline[m]] = "completed" PROVE Whole(m)'
  <2>1. CASE m = s
    BY <1>1, <2>1
  <2>2. CASE m # s
    <3>1. m < s /\ Whole(m)
      BY <1>1, <2>2, CompletedBefore DEF WholeInv
    <3> QED BY <2>2, <3>1, WholeStays
  <2> QED BY <2>1, <2>2
<1>2. runner'[w] = r /\ \A v \in Runners \ {w} : runner'[v] = Idle
  BY OthersStay
<1>3. WholeSoFar(Idle)'
  BY DEF WholeSoFar, Idle, At
<1>4. ASSUME NEW v \in Runners PROVE WholeSoFar(runner[v])'
  <2>1. PICK q : q = runner'[v] /\ (q = r \/ q = Idle)
    BY <1>2
  <2> QED BY <1>3, <2>1 DEF WholeSoFar
<1> QED BY <1>1, <1>4 DEF WholeInv

LEMMA NextWholeInv ==
    StagesTypeInv /\ OrderInv /\ WholeInv /\ [StagesNext]_stagesVars => WholeInv'
<1> SUFFICES ASSUME StagesTypeInv, OrderInv, WholeInv, [StagesNext]_stagesVars, ~overlapped'
             PROVE  WholeInv'
  BY DEF WholeInv
<1>u. audit' = audit
  BY ArtifactsStay
<1>o. ASSUME NEW w \in Runners, runner[w] # Idle \/ BeginStage(w)
      PROVE  /\ ~overlapped /\ \A v \in Runners \ {w} : runner[v] = Idle
             /\ StepsInOrder /\ InPlace(runner[w]) /\ WholeSoFar(runner[w])
  BY <1>o, OthersIdle DEF OrderInv, WholeInv
<1>s. ASSUME UNCHANGED <<artifact, stored>>, NEW s PROVE StaysBefore(s)
  BY <1>s DEF StaysBefore, Value
<1>t. ASSUME UNCHANGED <<attempts, artifact, stored>>
      PROVE  /\ \A n, read : StillThere(n, read) => StillThere(n, read)'
             /\ \A n, e : StillMade(n, e) => StillMade(n, e)'
  <2>1. \A n, read : StillThere(n, read) => StillThere(n, read)'
    BY <1>t DEF StillThere, Value
  <2>2. \A n, e : StillMade(n, e) => StillMade(n, e)'
    BY <1>t, <1>u DEF StillMade, Filled
  <2> QED BY <2>1, <2>2
<1>i. WholeSoFar(Idle)'
  BY DEF WholeSoFar, Idle, At
\* Where a running process is, and what that says.
<1>r. ASSUME NEW w \in Runners, Running(w)
      PROVE  \E n \in Numbers : \E k \in Nat \ {0} :
              /\ n = runner[w].stage /\ k = runner[w].effect /\ StageOf(w) = Pipeline[n]
              /\ Effect(w) = EffectsOf(n)[k] /\ ~Settled(n) /\ step[Pipeline[n]] = "running"
              /\ Rest(w) > 0 => k \in 1..Size(n)
              /\ Rest(w) = 0 => k = Size(n) + 1
              /\ StillThere(n, runner[w].read)
              /\ \A j \in 1..(k - 1) : StillMade(n, EffectsOf(n)[j])
  <2>1. InPlace(runner[w]) /\ WholeSoFar(runner[w])
    BY <1>o, <1>r, RunningIsNotIdle
  <2>2. PICK n \in Numbers, k \in Nat \ {0} :
              /\ n = runner[w].stage /\ k = runner[w].effect /\ StageOf(w) = Pipeline[n]
              /\ Effect(w) = EffectsOf(n)[k]
              /\ Rest(w) > 0 => k \in 1..Size(n)
              /\ Rest(w) = 0 => k = Size(n) + 1
    BY <1>r, Place
  <2> QED BY <2>1, <2>2 DEF InPlace, WholeSoFar, Settled
\* A process takes the next effect.
<1>a. ASSUME NEW w \in Runners, Running(w), NEW n \in Numbers, NEW k \in Nat \ {0},
             n = runner[w].stage, k = runner[w].effect, NEW read,
             runner' = [runner EXCEPT ![w] = Advanced(w, read)],
             UNCHANGED <<step, attempts, made_from>>,
             StaysBefore(n), StillThere(n, read)',
             \A j \in 1..k : StillMade(n, EffectsOf(n)[j])'
      PROVE  WholeInv'
  <2>1. /\ ~overlapped /\ \A v \in Runners \ {w} : runner[v] = Idle
        /\ StepsInOrder
    BY <1>a, <1>o, RunningIsNotIdle
  <2>2. ~Settled(n) /\ step'[Pipeline[n]] # "completed"
    BY <1>a, <1>r
  <2>3. PICK r : r = At(n, k + 1, read, <<>>) /\ runner' = [runner EXCEPT ![w] = r]
    BY <1>a DEF Advanced
  <2>4. WholeSoFar(r)'
    <3>1. r.stage = n /\ r.effect = k + 1 /\ r.read = read
      BY <2>3 DEF At
    <3>2. k + 1 - 1 = k
      OBVIOUS
    <3> QED BY <1>a, <3>1, <3>2 DEF WholeSoFar
  <2> QED BY <1>a, <1>u, <2>1, <2>2, <2>3, <2>4, WholeKept
\* What is read in addition.
<1>c. ASSUME NEW w \in Runners, NEW n, StillThere(n, runner[w].read), NEW names, NEW of,
             \A x \in names : x \in Artifacts \cup StageTables /\ From(x) < n /\ of[x] = Value(x)
      PROVE  StillThere(n, Seen(w, names, of))
  BY <1>c DEF Seen, StillThere
\* Without writing anything.
<1>b. ASSUME NEW w \in Runners, Running(w), NEW n \in Numbers, NEW k \in 1..Size(n),
             n = runner[w].stage, k = runner[w].effect, EffectsOf(n)[k].op \notin {"save", "write"},
             NEW read, StillThere(n, read), runner' = [runner EXCEPT ![w] = Advanced(w, read)],
             UNCHANGED <<step, attempts, made_from, artifact, stored>>
      PROVE  WholeInv'
  <2>1. \A j \in 1..(k - 1) : StillMade(n, EffectsOf(n)[j])
    BY <1>b, <1>r
  <2>4. StillThere(n, read)'
    BY <1>b, <1>t
  <2>5. \A e : StillMade(n, e) => StillMade(n, e)'
    BY <1>b, <1>t
  <2>6. StillMade(n, EffectsOf(n)[k])
    <3>1. Proper(n, EffectsOf(n)[k])
      BY EffectIsProper
    <3> QED BY <1>b, <3>1 DEF StillMade, Proper
  <2>7. k \in Nat \ {0} /\ \A j \in 1..k : j \in 1..(k - 1) \/ j = k
    BY SizesAre
  <2>8. \A j \in 1..k : StillMade(n, EffectsOf(n)[j])'
    BY <2>1, <2>5, <2>6, <2>7
  <2> QED BY <1>a, <1>b, <1>s, <2>4, <2>7, <2>8
\* A process leaves its stage.
<1>l. ASSUME NEW w \in Runners, Running(w), NEW n \in Numbers, n = runner[w].stage,
             NEW status, step' = [step EXCEPT ![StageOf(w)] = status],
             status = "completed" => Whole(n)',
             UNCHANGED <<attempts, artifact, stored>>,
             \A m \in Numbers \ {n} : made_from'[Pipeline[m]] = made_from[Pipeline[m]],
             NEW r, runner' = [runner EXCEPT ![w] = r], r = Idle \/ r = At(n, 0, <<>>, <<>>)
      PROVE  WholeInv'
  <2>1. /\ ~overlapped /\ \A v \in Runners \ {w} : runner[v] = Idle
        /\ StepsInOrder
    BY <1>l, <1>o, RunningIsNotIdle
  <2>2. ~Settled(n) /\ StageOf(w) = Pipeline[n]
    BY <1>l, <1>r
  <2>3. /\ step'[Pipeline[n]] = status
        /\ \A m \in Numbers \ {n} : step'[Pipeline[m]] = step[Pipeline[m]]
    BY <1>l, <2>2, PipelineIs DEF StagesTypeInv
  <2>4. WholeSoFar(r)'
    <3>1. r.effect = 0
      BY <1>l DEF Idle, At
    <3> QED BY <3>1 DEF WholeSoFar
  <2>5. StaysBefore(n)
    BY <1>l, <1>s
  <2> QED BY <1>l, <1>u, <2>1, <2>2, <2>3, <2>4, <2>5, WholeKept
<1>1. ASSUME NEW w \in Runners, BeginStage(w) PROVE WholeInv'
  <2>1. /\ ~overlapped /\ \A v \in Runners \ {w} : runner[v] = Idle
        /\ StepsInOrder
    BY <1>1, <1>o
  <2>2. PICK n \in Numbers :
          /\ ~Settled(n)
          /\ attempts' = [attempts EXCEPT ![Pipeline[n]] = @ + 1]
          /\ \/ /\ step' = [step EXCEPT ![Pipeline[n]] = "skipped"]
                /\ runner' = [runner EXCEPT ![w] = At(n, 0, <<>>, <<>>)]
             \/ /\ step' = [step EXCEPT ![Pipeline[n]] = "running"]
                /\ runner' = [runner EXCEPT ![w] = At(n, 1, <<>>, <<>>)]
    <3>1. runner[w].stage \in 0..16
      BY DEF StagesTypeInv, RunnerShape
    <3>2. \A n \in (runner[w].stage + 1)..Len(Pipeline) : n \in Numbers
      BY <3>1, PipelineIs DEF Numbers
    <3> QED BY <1>1, <3>2 DEF BeginStage, Settled
  <2>3. UNCHANGED <<artifact, stored, made_from>>
    BY <1>1 DEF BeginStage
  <2>4. PICK k \in {0, 1} : runner' = [runner EXCEPT ![w] = At(n, k, <<>>, <<>>)]
    BY <2>2
  <2>5. PICK r : r = At(n, k, <<>>, <<>>) /\ runner' = [runner EXCEPT ![w] = r]
    BY <2>4
  <2>6. WholeSoFar(r)'
    <3>1. r.effect \in {0, 1} /\ r.read = <<>> /\ 1..(1 - 1) = {} /\ DOMAIN <<>> = {}
      BY <2>5 DEF At
    <3> QED BY <3>1 DEF WholeSoFar, StillThere
  <2>7. /\ \A m \in Numbers \ {n} : /\ step'[Pipeline[m]] = step[Pipeline[m]]
                                    /\ attempts'[Pipeline[m]] = attempts[Pipeline[m]]
        /\ step'[Pipeline[n]] # "completed"
    BY <2>2, PipelineIs DEF StagesTypeInv
  <2>8. StaysBefore(n)
    BY <2>3, <1>s
  <2> QED BY <1>u, <2>1, <2>2, <2>3, <2>5, <2>6, <2>7, <2>8, WholeKept
<1>2. ASSUME NEW w \in Runners, LoadArtifact(w) PROVE WholeInv'
  <2>1. /\ Running(w) /\ Rest(w) > 0 /\ Effect(w).op \in {"load", "load_if", "load_tests"}
        /\ UNCHANGED <<attempts, artifact, stored, made_from>>
    BY <1>2 DEF LoadArtifact
  <2>2. PICK n \in Numbers, k \in Nat \ {0} :
          /\ n = runner[w].stage /\ k = runner[w].effect /\ k \in 1..Size(n)
          /\ Effect(w) = EffectsOf(n)[k] /\ StillThere(n, runner[w].read)
    BY <1>r, <2>1
  <2>3. CASE FailStage(w)
    BY <1>l, <2>1, <2>2, <2>3 DEF FailStage
  <2>4. CASE ~FailStage(w)
    <3>1. PICK wanted : /\ wanted \subseteq Effect(w).names
                        /\ runner' = [runner EXCEPT ![w] = Advanced(w, Seen(w, wanted, artifact))]
                        /\ UNCHANGED step
      BY <1>2, <2>4 DEF LoadArtifact
    <3>2. \A x \in Effect(w).names :
            x \in Artifacts \cup StageTables /\ From(x) < n /\ artifact[x] = Value(x)
      BY <2>1, <2>2, EffectIsProper, SavedAre, NamesHaveStages DEF Proper
    <3>3. EffectsOf(n)[k].op \notin {"save", "write"}
      BY <2>1, <2>2
    <3>4. PICK read : read = Seen(w, wanted, artifact)
      OBVIOUS
    <3>5. StillThere(n, Seen(w, wanted, artifact))
      BY <1>c, <2>2, <3>1, <3>2
    <3> QED BY <1>b, <2>1, <2>2, <3>1, <3>3, <3>4, <3>5
  <2> QED BY <2>3, <2>4
<1>3. ASSUME NEW w \in Runners, LookAtTables(w) PROVE WholeInv'
  <2>1. /\ Running(w) /\ Rest(w) > 0 /\ Effect(w).op = "look"
        /\ UNCHANGED <<step, attempts, artifact, stored, made_from>>
        /\ runner' = [runner EXCEPT ![w] =
                        Advanced(w, Seen(w, Effect(w).names \cap StageTables, stored))]
    BY <1>3 DEF LookAtTables
  <2>2. PICK n \in Numbers, k \in Nat \ {0} :
          /\ n = runner[w].stage /\ k = runner[w].effect /\ k \in 1..Size(n)
          /\ Effect(w) = EffectsOf(n)[k] /\ StillThere(n, runner[w].read)
    BY <1>r, <2>1
  <2>3. \A x \in Effect(w).names \cap StageTables :
            x \in Artifacts \cup StageTables /\ From(x) < n /\ stored[x] = Value(x)
    BY <2>1, <2>2, EffectIsProper, NamesApart, NamesHaveStages DEF Proper
  <2>4. EffectsOf(n)[k].op \notin {"save", "write"}
    BY <2>1, <2>2
  <2>5. PICK read : read = Seen(w, Effect(w).names \cap StageTables, stored)
    OBVIOUS
  <2>6. StillThere(n, Seen(w, Effect(w).names \cap StageTables, stored))
    BY <1>c, <2>2, <2>3
  <2> QED BY <1>b, <2>1, <2>2, <2>4, <2>5, <2>6
<1>4. ASSUME NEW w \in Runners, SaveArtifact(w) PROVE WholeInv'
  <2>1. /\ Running(w) /\ Rest(w) > 0 /\ Effect(w).op = "save"
        /\ UNCHANGED <<step, attempts, stored, made_from>>
        /\ runner' = [runner EXCEPT ![w] = Advanced(w, runner[w].read)]
    BY <1>4 DEF SaveArtifact
  <2>2. PICK n \in Numbers, k \in Nat \ {0} :
          /\ n = runner[w].stage /\ k = runner[w].effect /\ k \in 1..Size(n)
          /\ Effect(w) = EffectsOf(n)[k] /\ StageOf(w) = Pipeline[n]
          /\ StillThere(n, runner[w].read)
          /\ \A j \in 1..(k - 1) : StillMade(n, EffectsOf(n)[j])
    BY <1>r, <2>1
  <2>3. artifact' = [a \in Artifacts |->
            IF a \in EffectsOf(n)[k].names THEN attempts[Pipeline[n]] ELSE artifact[a]]
    BY <1>4, <2>2 DEF SaveArtifact
  <2>4. \A a \in EffectsOf(n)[k].names : a \in Artifacts /\ From(a) = n
    BY <2>1, <2>2, EffectOwns
  <2>5. StaysBefore(n)
    <3>1. ASSUME NEW x \in Artifacts, From(x) < n PROVE Value(x)' = Value(x)
      <4>1. x \notin EffectsOf(n)[k].names
        BY <2>4, <3>1 DEF Numbers
      <4> QED BY <2>3, <4>1, NamesHaveStages, NamesHaveStagesNext
    <3>2. \A x \in StageTables : Value(x)' = Value(x)
      BY <2>1, NamesHaveStages, NamesHaveStagesNext
    <3> QED BY <3>1, <3>2 DEF StaysBefore
  <2>6. PICK read : read = runner[w].read
    OBVIOUS
  <2>7. StillThere(n, read)'
    BY <2>2, <2>5, <2>6, ReadsStay DEF Numbers
  <2>8. ASSUME NEW j \in 1..k PROVE StillMade(n, EffectsOf(n)[j])'
    <3>1. j \in 1..Size(n) /\ (j = k \/ j \in 1..(k - 1))
      BY <2>2, SizesAre
    <3>2. ASSUME EffectsOf(n)[j].op = "save", NEW a \in EffectsOf(n)[j].names
          PROVE  artifact'[a] = attempts'[Pipeline[n]]
      <4>1. a \in Artifacts
        BY <3>1, <3>2, EffectOwns
      <4> QED BY <2>1, <2>2, <2>3, <3>1, <3>2, <4>1 DEF StillMade
    <3>3. \A t \in EffectsOf(n)[j].insert \cap Filled(Pipeline[n]) :
            attempts'[Pipeline[n]] \in stored'[t]
      <4>1. EffectsOf(n)[k].insert = {}
        BY <2>1, <2>2, EffectIsProper DEF Proper
      <4> QED BY <2>1, <2>2, <3>1, <4>1 DEF StillMade
    <3> QED BY <1>u, <3>2, <3>3 DEF StillMade, Filled
  <2> QED BY <1>a, <2>1, <2>2, <2>5, <2>6, <2>7, <2>8
<1>5. ASSUME NEW w \in Runners, DeleteOld(w) PROVE WholeInv'
  <2>1. Running(w) /\ UNCHANGED <<attempts, artifact, stored, made_from>>
    BY <1>5, Zenon DEF DeleteOld
  <2>2. PICK n \in Numbers, k \in Nat \ {0} :
          /\ n = runner[w].stage /\ k = runner[w].effect
          /\ ~Settled(n) /\ step[Pipeline[n]] = "running"
    BY <1>r, <2>1
  <2>3. CASE StageOf(w) = "COURT_CASE_GENERATION" /\ decided
    <3>1. PICK status, r :
            /\ status = "skipped" /\ r = At(n, 0, <<>>, <<>>)
            /\ step' = [step EXCEPT ![StageOf(w)] = status] /\ runner' = [runner EXCEPT ![w] = r]
      BY <1>5, <2>2, <2>3 DEF DeleteOld
    <3>2. /\ status # "completed"
          /\ \A m \in Numbers \ {n} : made_from'[Pipeline[m]] = made_from[Pipeline[m]]
      BY <2>1, <3>1
    <3> QED BY <1>l, <2>1, <2>2, <3>1, <3>2
  <2>4. CASE ~(StageOf(w) = "COURT_CASE_GENERATION" /\ decided)
    <3>1. PICK old : runner' = [runner EXCEPT ![w].old = old]
      BY <1>5, <2>4 DEF DeleteOld
    <3>2. UNCHANGED step
      BY <1>5, <2>4 DEF DeleteOld
    <3>3. PICK q, r : /\ q = runner[w] /\ r = [q EXCEPT !.old = old]
                      /\ runner' = [runner EXCEPT ![w] = r]
      BY <3>1
    <3>4. r.stage = q.stage /\ r.effect = q.effect /\ r.read = q.read
      <4>1. q = At(q.stage, q.effect, q.read, q.old)
        BY <3>3 DEF StagesTypeInv, RunnerShape
      <4> QED BY <3>3, <4>1 DEF At
    <3>5. /\ ~overlapped /\ \A v \in Runners \ {w} : runner[v] = Idle
          /\ StepsInOrder /\ WholeSoFar(q)
      BY <1>o, <2>1, <3>3, RunningIsNotIdle
    <3>6. WholeSoFar(r)'
      BY <1>t, <2>1, <3>4, <3>5 DEF WholeSoFar
    <3>7. StaysBefore(n)
      BY <1>s, <2>1
    <3> QED BY <1>u, <2>1, <2>2, <3>2, <3>3, <3>5, <3>6, <3>7, WholeKept
  <2> QED BY <2>3, <2>4
<1>6. ASSUME NEW w \in Runners, CommitRows(w) PROVE WholeInv'
  <2>1. UNCHANGED <<attempts, artifact, made_from>>
    BY <1>6 DEF CommitRows
  <2>2. PICK n \in Numbers, k \in Nat \ {0} :
          /\ Running(w) /\ k \in 1..Size(n)
          /\ n = runner[w].stage /\ k = runner[w].effect /\ StageOf(w) = Pipeline[n]
          /\ Effect(w) = EffectsOf(n)[k] /\ EffectsOf(n)[k].op = "write"
          /\ \A t \in StageTables \ EffectsOf(n)[k].clear : runner[w].old[t] = {}
    BY <1>6, Committing
  <2>3. /\ StillThere(n, runner[w].read)
        /\ \A j \in 1..(k - 1) : StillMade(n, EffectsOf(n)[j])
    BY <1>r, <2>2
  <2>4. CASE FailStage(w) /\ UNCHANGED stored
    BY <1>l, <2>1, <2>2, <2>4 DEF FailStage
  <2>5. CASE ~(FailStage(w) /\ UNCHANGED stored)
    <3> DEFINE filled == EffectsOf(n)[k].insert \cap Filled(Pipeline[n])
    <3>1. /\ stored' = [t \in StageTables |->
                (stored[t] \ runner[w].old[t])
                    \cup IF t \in filled THEN {attempts[Pipeline[n]]} ELSE {}]
          /\ runner' = [runner EXCEPT ![w] = Advanced(w, runner[w].read)] /\ UNCHANGED step
      BY <1>6, <2>2, <2>5 DEF CommitRows
    <3>2. ASSUME NEW t \in StageTables, t \notin EffectsOf(n)[k].clear, t \notin filled
          PROVE  stored'[t] = stored[t]
      BY <2>2, <3>1, <3>2
    <3>3. \A t \in filled : t \in StageTables => attempts[Pipeline[n]] \in stored'[t]
      BY <3>1
    <3>4. \A t \in StageTables :
            /\ t \in EffectsOf(n)[k].clear => FilledIn[t] >= n
            /\ t \in EffectsOf(n)[k].clear /\ FilledIn[t] = n => t \in EffectsOf(n)[k].insert
            /\ t \in filled => FilledIn[t] = n
      BY <2>2, EffectIsProper, NamesApart DEF Proper
    <3> HIDE DEF filled
    <3>5. StaysBefore(n)
      <4>1. ASSUME NEW t \in StageTables, From(t) < n PROVE Value(t)' = Value(t)
        <5>1. FilledIn[t] \in Numbers /\ FilledIn[t] < n
          BY <4>1, NamesHaveStages
        <5>2. t \notin EffectsOf(n)[k].clear /\ t \notin filled
          BY <3>4, <5>1 DEF Numbers
        <5> QED BY <3>2, <5>2, NamesHaveStages, NamesHaveStagesNext
      <4>2. \A x \in Artifacts : Value(x)' = Value(x)
        BY <2>1, NamesHaveStages, NamesHaveStagesNext
      <4> QED BY <4>1, <4>2 DEF StaysBefore
    <3>6. PICK read : read = runner[w].read
      OBVIOUS
    <3>7. StillThere(n, read)'
      BY <2>3, <3>5, <3>6, ReadsStay DEF Numbers
    <3>8. ASSUME NEW j \in 1..k PROVE StillMade(n, EffectsOf(n)[j])'
      <4>1. j \in 1..Size(n) /\ (j = k \/ j \in 1..(k - 1))
        BY <2>2, SizesAre
      <4>2. ASSUME EffectsOf(n)[j].op = "save", NEW a \in EffectsOf(n)[j].names
            PROVE  artifact'[a] = attempts'[Pipeline[n]]
        BY <2>1, <2>2, <2>3, <4>1, <4>2 DEF StillMade
      <4>3. ASSUME NEW t \in EffectsOf(n)[j].insert \cap Filled(Pipeline[n])
            PROVE  attempts'[Pipeline[n]] \in stored'[t]
        <5>1. t \in StageTables /\ FilledIn[t] = n
          BY <4>1, EffectOwns, NamesHaveStages
        <5>2. CASE t \in filled
          BY <2>1, <3>3, <5>1, <5>2
        <5>3. CASE t \notin filled
          <6>1. t \notin EffectsOf(n)[k].insert
            BY <5>3 DEF filled
          <6>2. t \notin EffectsOf(n)[k].clear /\ j # k
            BY <3>4, <5>1, <6>1
          <6>3. stored'[t] = stored[t]
            BY <3>2, <5>1, <5>3, <6>2
          <6> QED BY <2>1, <2>3, <4>1, <6>2, <6>3 DEF StillMade
        <5> QED BY <5>2, <5>3
      <4> QED BY <1>u, <4>2, <4>3 DEF StillMade, Filled
    <3> QED BY <1>a, <2>1, <2>2, <3>1, <3>5, <3>6, <3>7, <3>8
  <2> QED BY <2>4, <2>5
<1>7. ASSUME NEW w \in Runners, EndStage(w) PROVE WholeInv'
  <2>1. /\ Running(w) /\ Rest(w) = 0 /\ UNCHANGED <<attempts, artifact, stored>>
        /\ step' = [step EXCEPT ![StageOf(w)] = "completed"]
        /\ made_from' = [made_from EXCEPT ![StageOf(w)] = runner[w].read]
        /\ runner' = [runner EXCEPT ![w] = At(runner[w].stage, 0, <<>>, <<>>)]
    BY <1>7 DEF EndStage
  <2>2. PICK n \in Numbers, k \in Nat \ {0} :
          /\ n = runner[w].stage /\ StageOf(w) = Pipeline[n] /\ k = Size(n) + 1
          /\ StillThere(n, runner[w].read)
          /\ \A j \in 1..(k - 1) : StillMade(n, EffectsOf(n)[j])
    BY <1>r, <2>1
  <2>3. /\ made_from'[Pipeline[n]] = runner[w].read
        /\ \A m \in Numbers \ {n} : made_from'[Pipeline[m]] = made_from[Pipeline[m]]
    BY <2>1, <2>2, PipelineIs DEF StagesTypeInv
  <2>4. Whole(n)'
    <3>1. k - 1 = Size(n)
      BY <2>2, SizesAre
    <3>2. PICK read : read = runner[w].read /\ read = made_from'[Pipeline[n]]
      BY <2>3
    <3>3. StillThere(n, read)'
      BY <1>t, <2>1, <2>2, <3>2
    <3>4. \A j \in 1..Size(n) : StillMade(n, EffectsOf(n)[j])'
      BY <1>t, <2>1, <2>2, <3>1
    <3> QED BY <3>2, <3>3, <3>4 DEF Whole, StillThere
  <2> QED BY <1>l, <2>1, <2>2, <2>3, <2>4
<1>8. ASSUME NEW w \in Runners, StopRunner(w) PROVE WholeInv'
  <2>1. /\ ~overlapped /\ runner' = [runner EXCEPT ![w] = Idle]
        /\ UNCHANGED <<step, attempts, artifact, stored, made_from>>
    BY <1>8, <1>o DEF StopRunner
  <2>2. runner'[w] = Idle /\ \A v \in Runners \ {w} : runner'[v] = runner[v]
    BY <2>1, OthersStay
  <2>3. ASSUME NEW v \in Runners PROVE WholeSoFar(runner[v])'
    <3>1. PICK q : q = runner'[v] /\ (q = Idle \/ WholeSoFar(q))
      BY <2>1, <2>2 DEF WholeInv
    <3>2. WholeSoFar(q)'
      BY <1>i, <1>t, <2>1, <3>1 DEF WholeSoFar
    <3> QED BY <3>1, <3>2 DEF WholeSoFar
  <2>4. ASSUME NEW n \in Numbers, step'[Pipeline[n]] = "completed" PROVE Whole(n)'
    <3>1. Whole(n)
      BY <2>1, <2>4 DEF WholeInv
    <3>2. PICK read : read = made_from[Pipeline[n]] /\ read = made_from'[Pipeline[n]]
      BY <2>1
    <3>3. StillThere(n, read)' /\ \A k \in 1..Size(n) : StillMade(n, EffectsOf(n)[k])'
      BY <1>t, <2>1, <3>1, <3>2 DEF Whole
    <3> QED BY <3>2, <3>3 DEF Whole, StillThere
  <2> QED BY <2>3, <2>4 DEF WholeInv
<1>9. ASSUME UNCHANGED <<runner, step, attempts, artifact, stored, made_from, overlapped>>
      PROVE  WholeInv'
  <2>1. \A n : Whole(n) => Whole(n)'
    <3>1. \A n : made_from'[Pipeline[n]] = made_from[Pipeline[n]]
      BY <1>9
    <3>2. \A n, read : StillThere(n, read) <=> StillThere(n, read)'
      BY <1>9 DEF StillThere, Value
    <3> QED BY <1>9, <1>t, <3>1, <3>2 DEF Whole, StillThere, Value
  <2>2. \A w : WholeSoFar(runner[w]) => WholeSoFar(runner[w])'
    BY <1>9, <1>u DEF WholeSoFar, StillThere, StillMade, Value, Filled
  <2> QED BY <1>9, <2>1, <2>2 DEF WholeInv
<1> QED
  BY <1>1, <1>2, <1>3, <1>4, <1>5, <1>6, <1>7, <1>8, <1>9 DEF StagesNext, Decide, stagesVars

\* Unless two processes meet, what a completed stage has written comes from its latest attempt,
\* and what that attempt has read is still what is there (run_audit_job and the stages).
THEOREM StagesBelongTogether == StagesSpec => []WholeAndCurrent
<1>1. WholeInv => WholeAndCurrent
  <2> SUFFICES ASSUME WholeInv, ~overlapped, NEW n \in Numbers, Done(Pipeline[n])
               PROVE  /\ \A a \in Saved(Pipeline[n]) : artifact[a] = attempts[Pipeline[n]]
                      /\ \A t \in Filled(Pipeline[n]) : attempts[Pipeline[n]] \in stored[t]
                      /\ \A x \in DOMAIN made_from[Pipeline[n]] :
                            made_from[Pipeline[n]][x] =
                                IF x \in Artifacts THEN artifact[x] ELSE stored[x]
    BY PipelineIs DEF WholeAndCurrent
  <2>1. Whole(n)
    BY DEF WholeInv, Done
  <2>2. \A a \in Saved(Pipeline[n]) : artifact[a] = attempts[Pipeline[n]]
    BY <2>1, OwnNames DEF Whole, StillMade
  <2>3. \A t \in Filled(Pipeline[n]) : attempts[Pipeline[n]] \in stored[t]
    <3>1. Filled(Pipeline[n]) \subseteq Inserted(Pipeline[n])
      BY DEF Filled
    <3> QED BY <2>1, <3>1, OwnNames DEF Whole, StillMade
  <2>4. \A x \in DOMAIN made_from[Pipeline[n]] :
            made_from[Pipeline[n]][x] = IF x \in Artifacts THEN artifact[x] ELSE stored[x]
    BY <2>1 DEF Whole, StillThere, Value
  <2> QED BY <2>2, <2>3, <2>4
<1> QED
  BY <1>1, InitStages, NextStagesTypeInv, NextOrderInv, NextWholeInv, PTL DEF StagesSpec
=============================================================================
