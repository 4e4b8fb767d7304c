---------------------------- MODULE ReviewProofs ----------------------------
(***************************************************************************)
(* Proofs about the review of a case and its exports, for any reviewers,   *)
(* actions, exports and bounds.  The assumptions name what the code needs  *)
(* from its callers: requests one at a time, no request while an export    *)
(* is built.                                                               *)
(***************************************************************************)
EXTENDS Review, FiniteSetTheorems, WellFoundedInduction, TLAPS

\* The naturals are well ordered.
LEMMA LeastNatural ==
    ASSUME NEW T, T \subseteq Nat, T # {}
    PROVE  \E n \in T : \A m \in T : n <= m
<1>1. IsWellFoundedOn(OpToRel(<, Nat), Nat)
  BY NatLessThanWellFounded
<1>2. PICK n \in T : \A m \in T : ~(<<m, n>> \in OpToRel(<, Nat))
  BY <1>1, WFMin
<1>3. \A m \in T : ~(m < n)
  BY <1>2, Zenon DEF OpToRel
<1> QED BY <1>3

\* MaxOf is what its name says on bounded sets of naturals.
LEMMA BoundedMax ==
    ASSUME NEW b \in Nat, NEW S, S \subseteq 0..b, S # {}
    PROVE  MaxOf(S) \in S /\ \A k \in S : k <= MaxOf(S)
<1> DEFINE Bounds == {u \in Nat : \A k \in S : k <= u}
<1>1. b \in Bounds
  OBVIOUS
<1>2. PICK n \in Bounds : \A m \in Bounds : n <= m
  BY <1>1, LeastNatural
<1>3. n \in S
  <2>1. CASE n = 0
    <3>1. PICK k \in S : TRUE
      OBVIOUS
    <3> QED BY <1>2, <2>1, <3>1
  <2>2. CASE n # 0 /\ n \notin S
    <3>1. n - 1 \in Bounds
      BY <1>2, <2>2
    <3> QED BY <1>2, <2>2, <3>1
  <2> QED BY <2>1, <2>2
<1> QED BY <1>2, <1>3 DEF MaxOf

-----------------------------------------------------------------------------
\* What final_decision and recompute_status see: finitely many rows. It answers with one of
\* them, or with none.
LEMMA FinalOfActive ==
    ASSUME NEW n \in Nat, NEW ds, NEW acts, acts \subseteq 1..n
    PROVE  /\ FinalOf(ds, acts) = 0 \/ FinalOf(ds, acts) \in acts
           /\ (FinalOf(ds, acts) # 0) =
                  (Adjudications(ds, acts) # {} \/ Cardinality(KeysOf(ds, acts)) = 1)
<1>1. /\ Adjudications(ds, acts) \subseteq acts
      /\ DecisiveOf(ds, acts) \subseteq acts
      /\ acts \subseteq 0..n
  BY DEF Adjudications, DecisiveOf
<1>2. Cardinality(KeysOf(ds, acts)) = 1 => DecisiveOf(ds, acts) # {}
  <2>1. DecisiveOf(ds, acts) = {} => KeysOf(ds, acts) = {}
    BY DEF KeysOf
  <2> QED BY <2>1, FS_EmptySet
<1>3. Adjudications(ds, acts) # {} => MaxOf(Adjudications(ds, acts)) \in acts
  BY <1>1, BoundedMax
<1>4. DecisiveOf(ds, acts) # {} => MaxOf(DecisiveOf(ds, acts)) \in acts
  BY <1>1, BoundedMax
<1>5. 0 \notin acts
  OBVIOUS
<1>6. CASE Adjudications(ds, acts) # {}
  BY <1>3, <1>5, <1>6 DEF FinalOf
<1>7. CASE Adjudications(ds, acts) = {} /\ Cardinality(KeysOf(ds, acts)) = 1
  BY <1>2, <1>4, <1>5, <1>7 DEF FinalOf
<1>8. CASE Adjudications(ds, acts) = {} /\ Cardinality(KeysOf(ds, acts)) # 1
  BY <1>8 DEF FinalOf
<1> QED BY <1>6, <1>7, <1>8

\* A decision counts by its reviewer, its action and whether it adjudicates: two logs that
\* agree on these amount to the same status.
LEMMA SameStatus ==
    ASSUME NEW ds, NEW es, NEW visible,
           \A i \in visible : /\ ds[i].by = es[i].by
                              /\ ds[i].action = es[i].action
                              /\ ds[i].adjudication = es[i].adjudication
    PROVE  StatusOf(ds, Latest(ds, visible)) = StatusOf(es, Latest(es, visible))
<1>1. Latest(ds, visible) = Latest(es, visible) /\ Latest(ds, visible) \subseteq visible
  BY DEF Latest
<1> DEFINE acts == Latest(es, visible)
<1>2. DecisiveOf(ds, acts) = DecisiveOf(es, acts)
  BY <1>1 DEF DecisiveOf
<1>3. KeysOf(ds, acts) = KeysOf(es, acts)
  BY <1>1, <1>2 DEF KeysOf, DecisiveOf
<1>4. Adjudications(ds, acts) = Adjudications(es, acts)
  BY <1>1 DEF Adjudications
<1>5. (\E i \in acts : ds[i].action = "escalate") <=> (\E i \in acts : es[i].action = "escalate")
  BY <1>1
<1> QED BY <1>1, <1>2, <1>3, <1>4, <1>5 DEF StatusOf

LEMMA StatusOfType == \A ds, acts : StatusOf(ds, acts) \in CaseStatus
BY DEF StatusOf, CaseStatus

-----------------------------------------------------------------------------
\* The decisions that count once the open request of r has been committed.
After(r) ==
    IF request[r].kind = "decide" THEN Committed \cup {request[r].decision}
    ELSE Committed \ {request[r].decision}

RequestTypeOK ==
    /\ decisions \in Seq(Decision)
    /\ case_status \in CaseStatus
    /\ request \in [Reviewers -> [kind : {"none", "decide", "undo"}, decision : Nat,
                                  loaded : CaseStatus, computed : CaseStatus]]
    /\ \A r \in Reviewers : /\ request[r].kind # "none" => request[r].decision \in DOMAIN decisions
                            /\ request[r].decision <= Len(decisions)
    /\ Len(decisions) <= MaxDecisions

\* With one request at a time, an open request has seen the status on the row and computed
\* the one its own commit makes true.
RequestInv ==
    ~RequestsOverlap =>
        /\ \A r, q \in Reviewers : request[r].kind # "none" /\ request[q].kind # "none" => r = q
        /\ StatusMatchesDecisions
        /\ \A r \in Reviewers : request[r].kind # "none" =>
            /\ request[r].loaded = case_status
            /\ request[r].computed = StatusOf(decisions, Latest(decisions, After(r)))
            /\ request[r].kind = "decide" => ~decisions[request[r].decision].undone

LEMMA CommittedInDomain == Committed \subseteq DOMAIN decisions
BY DEF Committed

\* The step of StartDecide: the new row is not visible to others yet.
LEMMA AppendUncommitted ==
    ASSUME RequestTypeOK, NEW d \in Decision, ~d.committed, decisions' = Append(decisions, d)
    PROVE  /\ decisions' \in Seq(Decision)
           /\ DOMAIN decisions' = DOMAIN decisions \cup {Len(decisions) + 1}
           /\ Len(decisions) + 1 \notin DOMAIN decisions
           /\ \A i \in DOMAIN decisions : decisions'[i] = decisions[i]
           /\ decisions'[Len(decisions) + 1] = d
           /\ Committed' = Committed
<1> USE DEF RequestTypeOK
<1>1. decisions' \in Seq(Decision) /\ Len(decisions') = Len(decisions) + 1
  OBVIOUS
<1>2. DOMAIN decisions = 1..Len(decisions) /\ DOMAIN decisions' = 1..(Len(decisions) + 1)
      /\ Len(decisions) \in Nat
  BY <1>1
<1>3. \A i \in DOMAIN decisions : decisions'[i] = decisions[i]
  BY <1>2
<1>4. decisions'[Len(decisions) + 1] = d
  OBVIOUS
<1>5. DOMAIN decisions' = DOMAIN decisions \cup {Len(decisions) + 1}
      /\ Len(decisions) + 1 \notin DOMAIN decisions
  BY <1>2
<1> QED BY <1>1, <1>3, <1>4, <1>5 DEF Committed

\* What MayStart gives a new request when requests do not overlap.
LEMMA StartsAlone ==
    ASSUME NEW r \in Reviewers, MayStart(r), ~RequestsOverlap
    PROVE  NoOpenRequest
BY DEF MayStart

LEMMA DecideKeepsType ==
    ASSUME RequestTypeOK, NEW r \in Reviewers, NEW action \in Actions,
           NEW adjudicate \in BOOLEAN, StartDecide(r, action, adjudicate)
    PROVE  RequestTypeOK'
<1> DEFINE d == [by |-> r, action |-> action, adjudication |-> adjudicate,
                 committed |-> FALSE, undone |-> FALSE]
           i == Len(decisions) + 1
           computed == StatusOf(Append(decisions, d),
                                Latest(Append(decisions, d), Committed \cup {i}))
<1>1. d \in Decision /\ ~d.committed
  BY DEF Decision, Actions
<1>2. decisions' = Append(decisions, d) /\ case_status' = case_status
  BY DEF StartDecide
<1>3. Len(Append(decisions, d)) = i
  BY <1>1 DEF RequestTypeOK
<1>4. request' = [request EXCEPT ![r] = [kind |-> "decide", decision |-> i,
                                         loaded |-> case_status, computed |-> computed]]
  BY <1>3 DEF StartDecide
<1>5. computed \in CaseStatus
  BY StatusOfType
<1>6. decisions' \in Seq(Decision) /\ DOMAIN decisions' = DOMAIN decisions \cup {i}
  <2> HIDE DEF d
  <2> QED BY <1>1, <1>2, AppendUncommitted
<1>7. i \in Nat /\ Len(decisions) <= i /\ Len(decisions') = i /\ i <= MaxDecisions
  BY <1>2, <1>3, ReviewAssumption DEF RequestTypeOK, StartDecide
<1> HIDE DEF d, i, computed
<1>8. \A q \in Reviewers : request[q].decision <= i
  BY <1>7 DEF RequestTypeOK
<1> QED BY <1>2, <1>4, <1>5, <1>6, <1>7, <1>8 DEF RequestTypeOK

LEMMA UndoKeepsType ==
    ASSUME RequestTypeOK, NEW r \in Reviewers, NEW i \in DOMAIN decisions, StartUndo(r, i)
    PROVE  RequestTypeOK'
<1> DEFINE computed == StatusOf(decisions, Latest(decisions, Committed \ {i}))
<1>1. request' = [request EXCEPT ![r] = [kind |-> "undo", decision |-> i,
                                         loaded |-> case_status, computed |-> computed]]
      /\ UNCHANGED <<decisions, case_status>>
  BY DEF StartUndo
<1>2. computed \in CaseStatus
  BY StatusOfType
<1>3. i \in Nat
  BY DEF RequestTypeOK
<1> HIDE DEF computed
<1> QED BY <1>1, <1>2, <1>3 DEF RequestTypeOK

\* Setting a flag of a decision leaves everything else of it alone.
LEMMA FlagSet ==
    ASSUME NEW old \in Decision
    PROVE  /\ LET row == [old EXCEPT !.committed = TRUE] IN
              /\ row \in Decision /\ row.by = old.by /\ row.action = old.action
              /\ row.adjudication = old.adjudication /\ row.committed /\ row.undone = old.undone
           /\ LET row == [old EXCEPT !.undone = TRUE] IN
              /\ row \in Decision /\ row.by = old.by /\ row.action = old.action
              /\ row.adjudication = old.adjudication /\ row.undone /\ row.committed = old.committed
BY DEF Decision

\* A commit rewrites one row, in its committed or its undone flag.
LEMMA CommitRow ==
    ASSUME RequestTypeOK, NEW r \in Reviewers, Commit(r)
    PROVE  \E row \in Decision :
              /\ decisions' = [decisions EXCEPT ![request[r].decision] = row]
              /\ row.by = decisions[request[r].decision].by
              /\ row.action = decisions[request[r].decision].action
              /\ row.adjudication = decisions[request[r].decision].adjudication
              /\ row.committed <=> request[r].kind = "decide" \/ decisions[request[r].decision].committed
              /\ row.undone <=> request[r].kind # "decide" \/ decisions[request[r].decision].undone
<1> DEFINE k == request[r].decision
           old == decisions[k]
<1>1. old \in Decision
  BY DEF RequestTypeOK, Commit
<1>2. CASE request[r].kind = "decide"
  <2> DEFINE row == [old EXCEPT !.committed = TRUE]
  <2>1. decisions' = [decisions EXCEPT ![k] = row]
    BY <1>2 DEF Commit
  <2>2. /\ row \in Decision /\ row.by = old.by /\ row.action = old.action
        /\ row.adjudication = old.adjudication /\ row.committed /\ row.undone = old.undone
    BY <1>1, FlagSet
  <2> HIDE DEF row, old
  <2>3. QED
    BY <1>2, <2>1, <2>2 DEF old
<1>3. CASE request[r].kind # "decide"
  <2> DEFINE row == [old EXCEPT !.undone = TRUE]
  <2>1. decisions' = [decisions EXCEPT ![k] = row]
    BY <1>3 DEF Commit
  <2>2. /\ row \in Decision /\ row.by = old.by /\ row.action = old.action
        /\ row.adjudication = old.adjudication /\ row.undone /\ row.committed = old.committed
    BY <1>1, FlagSet
  <2> HIDE DEF row, old
  <2>3. QED
    BY <1>3, <2>1, <2>2 DEF old
<1> QED BY <1>2, <1>3

LEMMA CommitKeepsType ==
    ASSUME RequestTypeOK, NEW r \in Reviewers, Commit(r)
    PROVE  RequestTypeOK'
<1> DEFINE k == request[r].decision
<1>1. decisions' \in Seq(Decision) /\ DOMAIN decisions' = DOMAIN decisions
  <2>1. k \in DOMAIN decisions /\ decisions \in Seq(Decision)
    BY DEF RequestTypeOK, Commit
  <2>2. decisions[k] \in Decision
    BY <2>1
  <2>3. PICK row \in Decision : decisions' = [decisions EXCEPT ![k] = row]
    BY <2>2, CommitRow DEF RequestTypeOK
  <2> HIDE DEF k
  <2> QED BY <2>1, <2>3
<1>2. case_status' \in CaseStatus
  BY DEF RequestTypeOK, Commit
<1>3. request' = [request EXCEPT ![r] = NoRequest]
  BY DEF Commit
<1> QED BY <1>1, <1>2, <1>3 DEF RequestTypeOK, NoRequest, CaseStatus

LEMMA ExportStepsKeepReview ==
    ASSUME NEW e \in Exports,
           \/ CreateExport(e) \/ StartExport(e) \/ CommitExport(e)
           \/ CompleteExport(e) \/ InterruptExport(e) \/ FailExport(e)
    PROVE  UNCHANGED <<decisions, case_status, request>>
BY DEF CreateExport, StartExport, CommitExport, CompleteExport, InterruptExport, FailExport

LEMMA RequestTypes == Spec => []RequestTypeOK
<1>1. Init => RequestTypeOK
  BY ReviewAssumption DEF Init, RequestTypeOK, NoRequest, CaseStatus
<1>2. RequestTypeOK /\ [Next]_vars => RequestTypeOK'
  <2> SUFFICES ASSUME RequestTypeOK, [Next]_vars
               PROVE  RequestTypeOK'
    OBVIOUS
  <2>1. CASE \E r \in Reviewers, action \in Actions, adjudicate \in BOOLEAN :
               StartDecide(r, action, adjudicate)
    BY <2>1, DecideKeepsType
  <2>2. CASE \E r \in Reviewers : \E i \in DOMAIN decisions : StartUndo(r, i)
    BY <2>2, UndoKeepsType
  <2>3. CASE \E r \in Reviewers : Commit(r)
    BY <2>3, CommitKeepsType
  <2>4. CASE UNCHANGED <<decisions, case_status, request>>
    BY <2>4 DEF RequestTypeOK
  <2> QED BY <2>1, <2>2, <2>3, <2>4, ExportStepsKeepReview DEF Next, vars
<1> QED BY <1>1, <1>2, PTL DEF Spec

-----------------------------------------------------------------------------
LEMMA DecideKeepsRequestInv ==
    ASSUME RequestTypeOK, RequestInv, ~RequestsOverlap,
           NEW r \in Reviewers, NEW action \in Actions,
           NEW adjudicate \in BOOLEAN, StartDecide(r, action, adjudicate)
    PROVE  RequestInv'
<1> DEFINE d == [by |-> r, action |-> action, adjudication |-> adjudicate,
                 committed |-> FALSE, undone |-> FALSE]
           i == Len(decisions) + 1
           ds == Append(decisions, d)
           computed == StatusOf(ds, Latest(ds, Committed \cup {i}))
<1>1. d \in Decision /\ ~d.committed /\ ~d.undone
  BY DEF Decision, Actions
<1>2. decisions' = ds /\ case_status' = case_status
  BY DEF StartDecide
<1>3. Len(ds) = i
  BY <1>1 DEF RequestTypeOK
<1>4. request' = [request EXCEPT ![r] = [kind |-> "decide", decision |-> i,
                                         loaded |-> case_status, computed |-> computed]]
  BY <1>3 DEF StartDecide
<1>5. decisions'[i] = d /\ Committed' = Committed
  <2> HIDE DEF d
  <2> QED BY <1>1, <1>2, AppendUncommitted
<1>6. NoOpenRequest
  BY StartsAlone DEF StartDecide
<1> HIDE DEF d, i, computed
<1>7. \A q \in Reviewers : request'[q].kind # "none" <=> q = r
  BY <1>4, <1>6 DEF NoOpenRequest, RequestTypeOK
<1>8. request'[r] = [kind |-> "decide", decision |-> i, loaded |-> case_status, computed |-> computed]
  BY <1>4 DEF RequestTypeOK
<1>9. ~NoOpenRequest'
  BY <1>7 DEF NoOpenRequest
<1>10. After(r)' = Committed' \cup {i}
  BY <1>8 DEF After
<1>11. request'[r].computed = StatusOf(decisions', Latest(decisions', After(r)'))
  BY <1>2, <1>5, <1>8, <1>10 DEF computed
<1>12. ~decisions'[i].undone
  BY <1>1, <1>5
<1>13. request'[r].decision = i /\ request'[r].loaded = case_status'
  BY <1>2, <1>8
<1>14. StatusMatchesDecisions'
  BY <1>9 DEF StatusMatchesDecisions
<1> QED BY <1>7, <1>11, <1>12, <1>13, <1>14 DEF RequestInv

LEMMA UndoKeepsRequestInv ==
    ASSUME RequestTypeOK, RequestInv, ~RequestsOverlap,
           NEW r \in Reviewers, NEW i \in DOMAIN decisions, StartUndo(r, i)
    PROVE  RequestInv'
<1> DEFINE computed == StatusOf(decisions, Latest(decisions, Committed \ {i}))
<1>1. request' = [request EXCEPT ![r] = [kind |-> "undo", decision |-> i,
                                         loaded |-> case_status, computed |-> computed]]
      /\ decisions' = decisions /\ case_status' = case_status
  BY DEF StartUndo
<1>2. NoOpenRequest
  BY StartsAlone DEF StartUndo
<1>3. Committed' = Committed
  BY <1>1 DEF Committed
<1> HIDE DEF computed
<1>4. \A q \in Reviewers : request'[q].kind # "none" <=> q = r
  BY <1>1, <1>2 DEF NoOpenRequest, RequestTypeOK
<1>5. request'[r] = [kind |-> "undo", decision |-> i, loaded |-> case_status, computed |-> computed]
  BY <1>1 DEF RequestTypeOK
<1>6. ~NoOpenRequest'
  BY <1>4 DEF NoOpenRequest
<1>7. After(r)' = Committed' \ {i}
  BY <1>5 DEF After
<1>8. request'[r].computed = StatusOf(decisions', Latest(decisions', After(r)'))
  BY <1>1, <1>3, <1>5, <1>7 DEF computed
<1> QED BY <1>1, <1>4, <1>5, <1>6, <1>8 DEF RequestInv, StatusMatchesDecisions

LEMMA CommitKeepsRequestInv ==
    ASSUME RequestTypeOK, RequestInv, ~RequestsOverlap, NEW r \in Reviewers, Commit(r)
    PROVE  RequestInv'
<1> DEFINE k == request[r].decision
<1>1. request[r].kind # "none" /\ request' = [request EXCEPT ![r] = NoRequest]
  BY DEF Commit
<1>2. PICK row \in Decision :
          /\ decisions' = [decisions EXCEPT ![k] = row]
          /\ row.by = decisions[k].by /\ row.action = decisions[k].action
          /\ row.adjudication = decisions[k].adjudication
          /\ row.committed <=> request[r].kind = "decide" \/ decisions[k].committed
          /\ row.undone <=> request[r].kind # "decide" \/ decisions[k].undone
  BY CommitRow
<1>3. k \in DOMAIN decisions /\ decisions \in Seq(Decision)
  BY <1>1 DEF RequestTypeOK
<1>4. request[r].kind = "decide" => ~decisions[k].undone
  BY <1>1 DEF RequestInv
<1> HIDE DEF k
<1>5. DOMAIN decisions' = DOMAIN decisions /\ decisions'[k] = row
      /\ \A i \in DOMAIN decisions \ {k} : decisions'[i] = decisions[i]
  BY <1>2, <1>3
<1>6. Committed' = {i \in DOMAIN decisions : decisions'[i].committed /\ ~decisions'[i].undone}
  BY <1>5 DEF Committed
<1>7. Committed' = After(r)
  <2>1. CASE request[r].kind = "decide"
    <3>1. \A i \in DOMAIN decisions :
              (decisions'[i].committed /\ ~decisions'[i].undone) <=> i \in Committed \cup {k}
      BY <1>2, <1>3, <1>4, <1>5, <2>1 DEF Committed
    <3> QED BY <1>3, <1>6, <2>1, <3>1, CommittedInDomain DEF After, k
  <2>2. CASE request[r].kind # "decide"
    <3>1. \A i \in DOMAIN decisions :
              (decisions'[i].committed /\ ~decisions'[i].undone) <=> i \in Committed \ {k}
      BY <1>2, <1>3, <1>5, <2>2 DEF Committed
    <3> QED BY <1>6, <2>2, <3>1, CommittedInDomain DEF After, k
  <2> QED BY <2>1, <2>2
<1>8. \A i \in DOMAIN decisions : /\ decisions[i].by = decisions'[i].by
                                  /\ decisions[i].action = decisions'[i].action
                                  /\ decisions[i].adjudication = decisions'[i].adjudication
  BY <1>2, <1>5
<1>9. case_status' = request[r].computed
  BY <1>1 DEF RequestInv, Commit
<1>10. request[r].computed = StatusOf(decisions, Latest(decisions, Committed'))
  BY <1>1, <1>7 DEF RequestInv
<1>11. StatusOf(decisions, Latest(decisions, Committed'))
       = StatusOf(decisions', Latest(decisions', Committed'))
  <2>1. Committed' \subseteq DOMAIN decisions
    BY <1>6
  <2> QED BY <1>8, <2>1, SameStatus
<1>12. StatusMatchesDecisions'
  BY <1>9, <1>10, <1>11 DEF StatusMatchesDecisions, ActiveDecisions
<1>13. \A q \in Reviewers : request'[q].kind = "none"
  BY <1>1 DEF RequestInv, RequestTypeOK, NoRequest
<1> QED BY <1>12, <1>13 DEF RequestInv

LEMMA RequestsAgree == Spec => []RequestInv
<1>1. Init => RequestInv
  <2> SUFFICES ASSUME Init
               PROVE  RequestInv
    OBVIOUS
  <2>1. \A r \in Reviewers : request[r].kind = "none"
    BY DEF Init, NoRequest
  <2>2. ActiveDecisions = {}
    BY DEF Init, ActiveDecisions, Committed, Latest
  <2>3. StatusMatchesDecisions
    BY <2>2 DEF Init, StatusMatchesDecisions, StatusOf
  <2> QED BY <2>1, <2>3 DEF RequestInv
<1>2. RequestTypeOK /\ RequestInv /\ [Next]_vars => RequestInv'
  <2> SUFFICES ASSUME RequestTypeOK, RequestInv, [Next]_vars, ~RequestsOverlap
               PROVE  RequestInv'
    BY DEF RequestInv
  <2>1. CASE \E r \in Reviewers, action \in Actions, adjudicate \in BOOLEAN :
               StartDecide(r, action, adjudicate)
    BY <2>1, DecideKeepsRequestInv
  <2>2. CASE \E r \in Reviewers : \E i \in DOMAIN decisions : StartUndo(r, i)
    BY <2>2, UndoKeepsRequestInv
  <2>3. CASE \E r \in Reviewers : Commit(r)
    BY <2>3, CommitKeepsRequestInv
  <2>4. CASE UNCHANGED <<decisions, case_status, request>>
    BY <2>4 DEF RequestInv, StatusMatchesDecisions, ActiveDecisions, After, Committed, NoOpenRequest
  <2> QED BY <2>1, <2>2, <2>3, <2>4, ExportStepsKeepReview DEF Next, vars
<1> QED BY <1>1, <1>2, RequestTypes, PTL DEF Spec

\* With one request at a time, whatever the order of decisions, undos and adjudications and
\* whatever exports do meanwhile, the status of the case row (record_decision, undo_decision)
\* is the one its active decisions amount to.
THEOREM StatusFollowsDecisions ==
    ASSUME ~RequestsOverlap
    PROVE  Spec => []StatusMatchesDecisions
<1>1. RequestInv => StatusMatchesDecisions
  BY DEF RequestInv
<1> QED BY <1>1, RequestsAgree, PTL

-----------------------------------------------------------------------------
ExportTypeOK ==
    /\ export \in [Exports -> [status : {"none", "queued", "running", "completed", "failed"},
                               applied : Indices]]
    /\ building \in [Exports -> [job : ExportJob, applied : Indices,
                                 number : Nat, runs : 0..MaxRuns]]
    /\ \A e \in Exports :
          /\ Building(e) => building[e].runs > 0 /\ building[e].number > 0
          /\ building[e].job \in {"none", "queued"} => building[e].runs < MaxRuns
          /\ export[e].status = "none" <=> building[e].job = "none"
    /\ \A v \in versions : v \in [from : Exports, run : 1..MaxRuns, number : Nat \ {0}]
    /\ \E b \in Nat : \A v \in versions : v.number <= b

\* What an export that reads now would apply.
ToApply == LET d == FinalOf(decisions, ActiveDecisions) IN
           IF d # 0 /\ decisions[d].action \in Decisive THEN d ELSE 0

\* While an export is built no request is open and what it has read is still what it would
\* read; once it has completed with a decision, the lock keeps that so.
ExportInv ==
    ~ReviewDuringExport =>
        \A e \in Exports :
            /\ Building(e) => NoOpenRequest /\ building[e].applied = ToApply
            /\ export[e].status = "completed" /\ export[e].applied # 0 =>
                  NoOpenRequest /\ export[e].applied = ToApply

LEMMA ToApplyType ==
    ASSUME RequestTypeOK
    PROVE  ToApply \in Indices
<1>1. ActiveDecisions \subseteq 1..Len(decisions) /\ Len(decisions) \in Nat
  BY DEF ActiveDecisions, Latest, Committed, RequestTypeOK
<1> DEFINE final == FinalOf(decisions, ActiveDecisions)
<1>2. final # 0 => final \in 1..Len(decisions)
  BY <1>1, FinalOfActive
<1>3. ToApply = final \/ ToApply = 0
  BY DEF ToApply
<1> QED BY <1>1, <1>2, <1>3, ReviewAssumption DEF Indices, RequestTypeOK

LEMMA NextNumberType ==
    ASSUME ExportTypeOK
    PROVE  NextNumber \in Nat /\ NextNumber > 0
<1>1. PICK b \in Nat : \A v \in versions : v.number <= b
  BY DEF ExportTypeOK
<1>2. {0} \cup VersionNumbers \subseteq 0..b
  BY <1>1 DEF VersionNumbers, ExportTypeOK
<1>3. MaxOf({0} \cup VersionNumbers) \in Nat
  BY <1>2, BoundedMax
<1> QED BY <1>3 DEF NextNumber

LEMMA ExportTypes == Spec => []ExportTypeOK
<1> USE DEF ExportJob, Building
<1>1. Init => ExportTypeOK
  BY ReviewAssumption DEF Init, ExportTypeOK, NoRun, Indices
<1>2. RequestTypeOK /\ ExportTypeOK /\ [Next]_vars => ExportTypeOK'
  <2> SUFFICES ASSUME RequestTypeOK, ExportTypeOK, [Next]_vars
               PROVE  ExportTypeOK'
    OBVIOUS
  <2>1. CASE UNCHANGED <<export, building, versions>>
    BY <2>1 DEF ExportTypeOK
  <2>2. ASSUME NEW e \in Exports, CreateExport(e)
        PROVE  ExportTypeOK'
    BY <2>2 DEF CreateExport, ExportTypeOK
  <2>3. ASSUME NEW e \in Exports, StartExport(e)
        PROVE  ExportTypeOK'
    <3>1. /\ export' = [export EXCEPT ![e].status = "running"]
          /\ building' = [building EXCEPT ![e] = [job |-> "building", applied |-> ToApply,
                                 number |-> NextNumber, runs |-> building[e].runs + 1]]
          /\ versions' = versions
          /\ building[e].runs + 1 \in 1..MaxRuns
      BY <2>3, ReviewAssumption DEF StartExport, ToApply, ExportTypeOK
    <3>2. ToApply \in Indices /\ NextNumber \in Nat /\ NextNumber > 0
      BY ToApplyType, NextNumberType
    <3> QED BY <3>1, <3>2 DEF ExportTypeOK
  <2>4. ASSUME NEW e \in Exports, CommitExport(e)
        PROVE  ExportTypeOK'
    <3> DEFINE new == [from |-> e, run |-> building[e].runs, number |-> building[e].number]
    <3>1. /\ versions' = versions \cup {new}
          /\ export' = [export EXCEPT ![e] = [status |-> "completed", applied |-> building[e].applied]]
          /\ building' = [building EXCEPT ![e].job = "committed"]
      BY <2>4 DEF CommitExport
    <3>2. new \in [from : Exports, run : 1..MaxRuns, number : Nat \ {0}]
      BY <2>4, ReviewAssumption DEF CommitExport, ExportTypeOK
    <3>3. PICK b \in Nat : \A v \in versions : v.number <= b
      BY DEF ExportTypeOK
    <3> HIDE DEF new
    <3>4. \E c \in Nat : b <= c /\ new.number <= c
      BY <3>2
    <3>5. \E c \in Nat : \A v \in versions' : v.number <= c
      BY <3>1, <3>3, <3>4 DEF ExportTypeOK
    <3>6. \A v \in versions' : v \in [from : Exports, run : 1..MaxRuns, number : Nat \ {0}]
      BY <3>1, <3>2 DEF ExportTypeOK
    <3>7. /\ export' \in [Exports -> [status : {"none", "queued", "running", "completed", "failed"},
                                      applied : Indices]]
          /\ building' \in [Exports -> [job : ExportJob, applied : Indices,
                                        number : Nat, runs : 0..MaxRuns]]
          /\ \A d \in Exports :
                /\ Building(d)' => building'[d].runs > 0 /\ building'[d].number > 0
                /\ building'[d].job \in {"none", "queued"} => building'[d].runs < MaxRuns
                /\ export'[d].status = "none" <=> building'[d].job = "none"
      BY <2>4, <3>1 DEF CommitExport, ExportTypeOK
    <3> QED BY <3>5, <3>6, <3>7 DEF ExportTypeOK
  <2>5. ASSUME NEW e \in Exports, CompleteExport(e) \/ InterruptExport(e) \/ FailExport(e)
        PROVE  ExportTypeOK'
    <3>1. PICK job \in {"queued", "over"} :
              /\ building' = [building EXCEPT ![e].job = job]
              /\ job = "queued" => building[e].runs < MaxRuns
      BY <2>5 DEF CompleteExport, InterruptExport, FailExport
    <3>2. /\ building[e].job \in {"building", "committed"}
          /\ export' = export \/ export' = [export EXCEPT ![e].status = "failed"]
          /\ versions' = versions
      BY <2>5 DEF CompleteExport, InterruptExport, FailExport, Building
    <3>3. /\ building' \in [Exports -> [job : ExportJob, applied : Indices,
                                        number : Nat, runs : 0..MaxRuns]]
          /\ building'[e].job = job /\ building'[e].runs = building[e].runs
          /\ \A d \in Exports \ {e} : building'[d] = building[d]
      BY <3>1 DEF ExportTypeOK
    <3>4. /\ export' \in [Exports -> [status : {"none", "queued", "running", "completed", "failed"},
                                      applied : Indices]]
          /\ export'[e].status # "none"
          /\ \A d \in Exports \ {e} : export'[d] = export[d]
      <4>1. export[e].status # "none"
        BY <3>2 DEF ExportTypeOK
      <4>2. CASE export' = export
        BY <4>1, <4>2 DEF ExportTypeOK
      <4>3. CASE export' = [export EXCEPT ![e].status = "failed"]
        BY <4>3 DEF ExportTypeOK
      <4> QED BY <3>2, <4>2, <4>3
    <3> QED BY <3>1, <3>2, <3>3, <3>4 DEF ExportTypeOK
  <2> QED BY <2>1, <2>2, <2>3, <2>4, <2>5 DEF Next, vars, StartDecide, StartUndo, Commit
<1> QED BY <1>1, <1>2, RequestTypes, PTL DEF Spec

\* Every reachable state is one the schema allows: the rows of human_decisions, the status
\* column, the export rows and the dataset versions they make.
THEOREM ReviewTypeCorrect == Spec => []TypeOK
<1>1. RequestTypeOK /\ ExportTypeOK => TypeOK
  BY ReviewAssumption DEF RequestTypeOK, ExportTypeOK, TypeOK, Indices
<1> QED BY <1>1, RequestTypes, ExportTypes, PTL

LEMMA FinalIffStatus ==
    ASSUME NEW n \in Nat, NEW ds, NEW acts, acts \subseteq 1..n,
           \A i \in acts : ds[i].action # "escalate"
    PROVE  FinalOf(ds, acts) # 0 <=> StatusOf(ds, acts) \in {"decided", "resolved"}
<1> DEFINE D == DecisiveOf(ds, acts)
           K == KeysOf(ds, acts)
           A == Adjudications(ds, acts)
<1>1. (FinalOf(ds, acts) # 0) = (A # {} \/ Cardinality(K) = 1)
  BY FinalOfActive, Zenon
<1>2. D \in SUBSET (1..n)
  BY DEF DecisiveOf
<1>3. IsFiniteSet(1..n)
  <2>1. 1 \in Int /\ n \in Int
    OBVIOUS
  <2> QED BY <2>1, FS_Interval, Zenon
<1>4. IsFiniteSet(D)
  <2> HIDE DEF D
  <2> QED BY <1>2, <1>3, FS_Subset
<1>5. [i \in D |-> ds[i].action] \in Surjection(D, K)
  BY DEF KeysOf, Surjection
<1>6. K = {} <=> D = {}
  BY DEF KeysOf
<1>7. acts = {} => A = {} /\ D = {}
  BY DEF Adjudications, DecisiveOf
<1>8. StatusOf(ds, acts) = IF acts = {} THEN "open"
                           ELSE IF A # {} THEN "resolved"
                           ELSE IF Cardinality(K) > 1 THEN "disputed"
                           ELSE IF D # {} THEN "decided" ELSE "open"
  BY DEF StatusOf
<1> HIDE DEF D, K, A
<1>9. IsFiniteSet(K)
  BY <1>4, <1>5, FS_Surjection
<1>10. Cardinality(K) \in Nat /\ (Cardinality(K) = 0 <=> K = {})
  BY <1>9, FS_CardinalityType, FS_EmptySet
<1>11. CASE A # {}
  <2>1. StatusOf(ds, acts) = "resolved"
    BY <1>7, <1>8, <1>11
  <2>2. FinalOf(ds, acts) # 0
    BY <1>1, <1>11
  <2> QED BY <2>1, <2>2
<1>12. CASE A = {} /\ D = {}
  <2>1. StatusOf(ds, acts) \in {"open", "disputed"} /\ Cardinality(K) # 1
    BY <1>6, <1>7, <1>8, <1>10, <1>12
  <2>2. FinalOf(ds, acts) = 0
    BY <1>1, <1>12, <2>1
  <2> QED BY <2>1, <2>2
<1>13. CASE A = {} /\ D # {} /\ Cardinality(K) = 1
  <2>1. StatusOf(ds, acts) = "decided"
    BY <1>7, <1>8, <1>13
  <2>2. FinalOf(ds, acts) # 0
    BY <1>1, <1>13
  <2> QED BY <2>1, <2>2
<1>14. CASE A = {} /\ D # {} /\ Cardinality(K) # 1
  <2>1. Cardinality(K) > 1
    BY <1>6, <1>10, <1>14
  <2>2. StatusOf(ds, acts) = "disputed"
    BY <1>7, <1>8, <1>14, <2>1
  <2>3. FinalOf(ds, acts) = 0
    BY <1>1, <1>14
  <2> QED BY <2>2, <2>3
<1> QED BY <1>11, <1>12, <1>13, <1>14

\* Unless somebody escalated, final_decision and recompute_status agree on which cases are
\* settled, for any number of reviewers and any sequence of requests.
THEOREM FinalWhenSettled == Spec => []FinalIffSettled
<1>1. RequestTypeOK => ActiveDecisions \subseteq 1..Len(decisions) /\ Len(decisions) \in Nat
  BY DEF ActiveDecisions, Latest, Committed, RequestTypeOK
<1>2. RequestTypeOK => FinalIffSettled
  BY <1>1, FinalIffStatus DEF FinalIffSettled, Escalated, Settled
<1> QED BY <1>2, RequestTypes, PTL

LEMMA ExportsAgree == Spec => []ExportInv
<1> USE DEF ExportJob, Building
<1>1. Init => ExportInv
  BY DEF Init, ExportInv, NoRun
<1>2. ExportTypeOK /\ ExportInv /\ [Next]_vars => ExportInv'
  <2> SUFFICES ASSUME ExportTypeOK, ExportInv, [Next]_vars, ~ReviewDuringExport
               PROVE  ExportInv'
    BY DEF ExportInv
  <2> USE DEF ExportInv
  <2>1. ASSUME NEW r \in Reviewers, Commit(r)
        PROVE  ExportInv'
    <3>1. ~NoOpenRequest /\ UNCHANGED <<export, building>>
      BY <2>1 DEF Commit, NoOpenRequest
    <3> QED BY <3>1
  <2>2. ASSUME NEW r \in Reviewers, MayStart(r), ~ExportLocked, UNCHANGED <<export, building>>
        PROVE  ExportInv'
    BY <2>2 DEF MayStart, ExportLocked
  <2>3. ASSUME NEW e \in Exports,
               \/ CreateExport(e) \/ StartExport(e) \/ CommitExport(e)
               \/ CompleteExport(e) \/ InterruptExport(e) \/ FailExport(e)
        PROVE  ExportInv'
    <3>1. UNCHANGED <<decisions, request>>
      BY <2>3, ExportStepsKeepReview
    <3>2. UNCHANGED <<ToApply, NoOpenRequest>>
      BY <3>1 DEF ToApply, NoOpenRequest, ActiveDecisions, Committed
    <3>3. CASE StartExport(e)
      <4>1. NoOpenRequest /\ export' = [export EXCEPT ![e].status = "running"]
        BY <3>3 DEF StartExport
      <4>2. building'[e].applied = ToApply
            /\ \A x \in Exports \ {e} : building'[x] = building[x]
        BY <3>3 DEF StartExport, ToApply, ExportTypeOK
      <4>3. export'[e].status = "running" /\ \A x \in Exports \ {e} : export'[x] = export[x]
        BY <4>1 DEF ExportTypeOK
      <4> QED BY <3>2, <4>1, <4>2, <4>3
    <3>4. CASE CommitExport(e)
      BY <3>2, <3>4 DEF CommitExport, ExportTypeOK
    <3>5. CASE CreateExport(e) \/ CompleteExport(e) \/ InterruptExport(e) \/ FailExport(e)
      <4>1. /\ export'[e].status = "completed" => export' = export
            /\ ~Building(e)'
        BY <3>5 DEF CreateExport, CompleteExport, InterruptExport, FailExport, ExportTypeOK
      <4>2. \A x \in Exports \ {e} : export'[x] = export[x] /\ building'[x] = building[x]
        BY <3>5 DEF CreateExport, CompleteExport, InterruptExport, FailExport, ExportTypeOK
      <4> QED BY <3>2, <4>1, <4>2
    <3> QED BY <2>3, <3>3, <3>4, <3>5
  <2>4. CASE UNCHANGED vars
    BY <2>4 DEF vars, ToApply, NoOpenRequest, ActiveDecisions, Committed
  <2> QED BY <2>1, <2>2, <2>3, <2>4 DEF Next, StartDecide, StartUndo
<1> QED BY <1>1, <1>2, ExportTypes, PTL DEF Spec

\* If no review request overlaps the execution of an export job, what a completed export
\* applied (run_export_job) is never undone nor overruled: the lock looked at by
\* record_decision and undo_decision is enough, through retries and re-runs of exports.
THEOREM AppliedDecisionsStand ==
    ASSUME ~ReviewDuringExport
    PROVE  Spec => []ExportedDecisionStands
<1>1. ExportInv => ExportedDecisionStands
  BY DEF ExportInv, ExportedDecisionStands, ToApply
<1> QED BY <1>1, ExportsAgree, PTL
=============================================================================
