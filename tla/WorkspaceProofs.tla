--------------------------- MODULE WorkspaceProofs ---------------------------
(***************************************************************************)
(* Proofs about what a workspace keeps.  The evidence ledger, for any      *)
(* number of workspaces and sessions: verify_chain finds exactly the       *)
(* altered rows, and the ledger is append-only.  Only that the lock is     *)
(* held to the end of a transaction is used of the database; nothing is    *)
(* assumed of the hash function.  Members: owners, for any workspaces and  *)
(* accounts, if handlers that remove people do not interleave and          *)
(* add_member overwrites no role; contracts, for any number of requests,   *)
(* however they do.                                                        *)
(***************************************************************************)
EXTENDS Ledger, Members, FiniteSetTheorems, TLAPS

-----------------------------------------------------------------------------
(* The evidence ledger *)

(* The strengthening that makes VerifyFindsTampering inductive.            *)

RowsOf(s) == tx[s].rows

LedgerTypeOK ==
    /\ next_seq \in Nat
    /\ tx = [s \in Sessions |-> tx[s]]
    /\ ledger_lock \in [Workspaces -> Sessions \cup {NoSession}]
    /\ \A r \in entries : r.seq \in Nat /\ r.seq < next_seq /\ r.org \in Workspaces
    /\ \A s \in Sessions : \A r \in RowsOf(s) :
          r.seq \in Nat /\ r.seq < next_seq /\ r.org = tx[s].org /\ r.org \in Workspaces

\* Pending rows belong to the holder of the lock and come after all committed ones.
PendingLast ==
    \A s \in Sessions :
        /\ tx[s].phase = "idle" => RowsOf(s) = {}
        /\ tx[s].phase # "idle" => tx[s].org \in Workspaces /\ ledger_lock[tx[s].org] = s
        /\ \A r \in RowsOf(s), q \in entries : q.org = r.org => q.seq < r.seq

SeqUnique ==
    /\ \A r, q \in entries : r.seq = q.seq => r = q
    /\ \A s \in Sessions : \A r, q \in RowsOf(s) : r.seq = q.seq => r = q
    /\ \A s \in Sessions : \A r \in RowsOf(s), q \in entries : r.seq # q.seq
    /\ \A s, t \in Sessions : \A r \in RowsOf(s), q \in RowsOf(t) : s # t => r.seq # q.seq

\* The pending rows continue the chain, and prev is its newest hash.
ChainContinues ==
    \A s \in Sessions :
        /\ \A r \in RowsOf(s) : /\ LinkIntact(entries \cup RowsOf(s), r)
                                /\ r.payload = r.sha /\ r.hash = Hash(r.prev, r.payload)
                                /\ r.seq \notin tampered
        /\ tx[s].phase = "read" =>
              IF Visible(s) = {} THEN tx[s].prev = Genesis
              ELSE \E r \in Visible(s) : Latest(Visible(s), r) /\ tx[s].prev = r.hash

CommittedChain ==
    \A r \in entries : /\ LinkIntact(entries, r)
                       /\ r.hash = Hash(r.prev, r.sha)
                       /\ r.payload = r.sha <=> r.seq \notin tampered

TamperedOld == \A n \in tampered : \E r \in entries : r.seq = n

LedgerInv ==
    /\ LedgerTypeOK /\ PendingLast /\ SeqUnique
    /\ ChainContinues /\ CommittedChain /\ TamperedOld

-----------------------------------------------------------------------------

\* Whether a row is linked depends on what comes before it only.
LEMMA LinkTransfer ==
    ASSUME NEW A, NEW B, NEW r, NEW q,
           q.seq = r.seq, q.org = r.org, q.prev = r.prev,
           \A p \in A : Before(r, p) =>
               \E x \in B : x.seq = p.seq /\ x.org = p.org /\ x.hash = p.hash,
           \A x \in B : Before(r, x) => \E p \in A : x.seq = p.seq /\ x.org = p.org,
           LinkIntact(A, r)
    PROVE  LinkIntact(B, q)
<1>1. CASE \E p \in A : Before(r, p)
  <2>1. PICK p \in A : Predecessor(A, r, p) /\ r.prev = p.hash
    BY <1>1 DEF LinkIntact
  <2>2. PICK x \in B : x.seq = p.seq /\ x.org = p.org /\ x.hash = p.hash
    BY <2>1 DEF Predecessor
  <2>3. Before(q, x)
    BY <2>1, <2>2 DEF Before, Predecessor
  <2>4. \A y \in B : Before(q, y) => y.seq <= x.seq
    BY <2>1, <2>2 DEF Before, Predecessor
  <2> QED BY <2>1, <2>2, <2>3, <2>4 DEF LinkIntact, Predecessor
<1>2. CASE ~\E p \in A : Before(r, p)
  <2>1. r.prev = Genesis
    BY <1>2 DEF LinkIntact
  <2>2. ~\E x \in B : Before(q, x)
    BY <1>2 DEF Before
  <2> QED BY <2>1, <2>2 DEF LinkIntact
<1> QED BY <1>1, <1>2

LEMMA LedgerInitInv == LedgerInit => LedgerInv
BY LedgerAssumption
   DEF LedgerInit, LedgerInv, LedgerTypeOK, PendingLast, SeqUnique, ChainContinues,
       CommittedChain, TamperedOld, NoTx, Tx, RowsOf

\* Two sessions in a transaction hold the locks of different workspaces.
LEMMA LocksDiffer ==
    ASSUME PendingLast, NEW s \in Sessions, NEW t \in Sessions, s # t,
           tx[s].phase # "idle", tx[t].phase # "idle"
    PROVE  tx[s].org # tx[t].org
BY DEF PendingLast

LEMMA AcquireInv ==
    ASSUME LedgerInv, NEW s \in Sessions, NEW o \in Workspaces, AcquireLock(s, o)
    PROVE  LedgerInv'
<1> USE DEF LedgerInv
<1>1. /\ tx'[s] = Tx("locked", o, Genesis, tx[s].rows)
      /\ \A t \in Sessions \ {s} : tx'[t] = tx[t]
      /\ \A t \in Sessions : RowsOf(t)' = RowsOf(t)
      /\ UNCHANGED <<entries, next_seq, tampered>>
  BY DEF AcquireLock, LedgerTypeOK, RowsOf, Tx
<1>2. tx[s].phase = "idle" => RowsOf(s) = {}
  BY DEF PendingLast
<1>3. tx[s].phase # "idle" => tx[s].org = o
  BY DEF AcquireLock
<1>4. LedgerTypeOK'
  BY <1>1, <1>2, <1>3 DEF AcquireLock, LedgerTypeOK, RowsOf, Tx
<1>5. PendingLast'
  <2> SUFFICES ASSUME NEW t \in Sessions
               PROVE /\ tx'[t].phase = "idle" => RowsOf(t)' = {}
                     /\ tx'[t].phase # "idle" =>
                           tx'[t].org \in Workspaces /\ ledger_lock'[tx'[t].org] = t
                     /\ \A r \in RowsOf(t)', q \in entries' : q.org = r.org => q.seq < r.seq
    BY DEF PendingLast
  <2>1. CASE t = s
    BY <2>1, <1>1 DEF PendingLast, AcquireLock, LedgerTypeOK, Tx
  <2>2. CASE t # s
    BY <2>2, <1>1, LedgerAssumption DEF PendingLast, AcquireLock, LedgerTypeOK
  <2> QED BY <2>1, <2>2
<1>6. SeqUnique'
  BY <1>1 DEF SeqUnique
<1>7. ChainContinues'
  <2> SUFFICES ASSUME NEW t \in Sessions
               PROVE  /\ \A r \in RowsOf(t) :
                           /\ LinkIntact(entries \cup RowsOf(t), r)
                           /\ r.payload = r.sha /\ r.hash = Hash(r.prev, r.payload)
                           /\ r.seq \notin tampered
                      /\ tx'[t].phase = "read" =>
                           IF Visible(t)' = {} THEN tx'[t].prev = Genesis
                           ELSE \E r \in Visible(t)' : Latest(Visible(t)', r) /\ tx'[t].prev = r.hash
    BY <1>1 DEF ChainContinues, LinkIntact, Predecessor, Before
  <2>1. CASE t = s
    BY <2>1, <1>1 DEF ChainContinues, Tx
  <2>2. CASE t # s
    <3>1. Visible(t)' = Visible(t)
      BY <1>1, <2>2 DEF Visible, OfWorkspace
    <3> QED BY <1>1, <2>2, <3>1 DEF ChainContinues, Latest
  <2> QED BY <2>1, <2>2
<1>8. CommittedChain' /\ TamperedOld'
  BY <1>1 DEF CommittedChain, TamperedOld, LinkIntact, Predecessor, Before
<1> QED BY <1>4, <1>5, <1>6, <1>7, <1>8

LEMMA ReadInv ==
    ASSUME LedgerInv, NEW s \in Sessions, ReadPrevious(s)
    PROVE  LedgerInv'
<1> USE DEF LedgerInv
<1> DEFINE ReadAs(h) ==
             /\ tx'[s] = Tx("read", tx[s].org, h, tx[s].rows)
             /\ IF Visible(s) = {} THEN h = Genesis
                ELSE \E r \in Visible(s) : Latest(Visible(s), r) /\ h = r.hash
             /\ \A t \in Sessions \ {s} : tx'[t] = tx[t]
             /\ \A t \in Sessions : RowsOf(t)' = RowsOf(t)
             /\ tx' = [t \in Sessions |-> tx'[t]]
<1>0. /\ tx[s].phase = "locked"
      /\ UNCHANGED <<entries, next_seq, ledger_lock, tampered>>
  BY DEF ReadPrevious
<1>1. PICK h : ReadAs(h)
  <2>1. ASSUME Visible(s) = {}, tx' = [tx EXCEPT ![s] = Tx("read", tx[s].org, Genesis, tx[s].rows)]
        PROVE  \E h : ReadAs(h)
    <3>1. ReadAs(Genesis)
      BY <2>1 DEF LedgerTypeOK, RowsOf, Tx
    <3> QED BY <3>1
  <2>2. ASSUME NEW r \in Visible(s), Latest(Visible(s), r),
               tx' = [tx EXCEPT ![s] = Tx("read", tx[s].org, r.hash, tx[s].rows)]
        PROVE  \E h : ReadAs(h)
    <3>1. ReadAs(r.hash)
      BY <2>2 DEF LedgerTypeOK, RowsOf, Tx
    <3> QED BY <3>1
  <2> HIDE DEF ReadAs
  <2> QED BY <2>1, <2>2 DEF ReadPrevious
<1>2. LedgerTypeOK' /\ PendingLast' /\ SeqUnique'
  BY <1>0, <1>1 DEF LedgerTypeOK, PendingLast, SeqUnique, Tx
<1>3. ChainContinues'
  <2> SUFFICES ASSUME NEW t \in Sessions
               PROVE  /\ \A r \in RowsOf(t) :
                           /\ LinkIntact(entries \cup RowsOf(t), r)
                           /\ r.payload = r.sha /\ r.hash = Hash(r.prev, r.payload)
                           /\ r.seq \notin tampered
                      /\ tx'[t].phase = "read" =>
                           IF Visible(t)' = {} THEN tx'[t].prev = Genesis
                           ELSE \E r \in Visible(t)' : Latest(Visible(t)', r) /\ tx'[t].prev = r.hash
    BY <1>0, <1>1 DEF ChainContinues, LinkIntact, Predecessor, Before
  <2>0. Visible(t)' = Visible(t)
    BY <1>0, <1>1 DEF Visible, OfWorkspace, Tx
  <2>1. CASE t = s
    BY <2>0, <2>1, <1>0, <1>1 DEF ChainContinues, Tx, Latest
  <2>2. CASE t # s
    BY <1>0, <1>1, <2>2, <2>0 DEF ChainContinues, Latest
  <2> QED BY <2>1, <2>2
<1>4. CommittedChain' /\ TamperedOld'
  BY <1>0, <1>1 DEF CommittedChain, TamperedOld, LinkIntact, Predecessor, Before
<1> QED BY <1>2, <1>3, <1>4

LEMMA InsertInv ==
    ASSUME LedgerInv, NEW s \in Sessions, NEW c \in Contents, InsertEntry(s, c)
    PROVE  LedgerInv'
<1> USE DEF LedgerInv
<1> DEFINE row == Row(next_seq, tx[s].org, c, c, tx[s].prev, Hash(tx[s].prev, c))
<1>1. /\ tx[s].phase = "read"
      /\ next_seq' = next_seq + 1
      /\ tx'[s] = Tx("open", tx[s].org, Genesis, RowsOf(s) \cup {row})
      /\ RowsOf(s)' = RowsOf(s) \cup {row}
      /\ \A t \in Sessions \ {s} : tx'[t] = tx[t] /\ RowsOf(t)' = RowsOf(t)
      /\ tx' = [t \in Sessions |-> tx'[t]]
      /\ UNCHANGED <<entries, ledger_lock, tampered>>
  BY DEF InsertEntry, LedgerTypeOK, RowsOf, Tx
<1>2. /\ tx[s].org \in Workspaces /\ ledger_lock[tx[s].org] = s
      /\ next_seq \in Nat
  BY <1>1 DEF PendingLast, LedgerTypeOK
<1>3. /\ row.seq = next_seq /\ row.org = tx[s].org /\ row.payload = row.sha
      /\ row.prev = tx[s].prev /\ row.hash = Hash(row.prev, row.payload)
  BY DEF Row
<1> HIDE DEF row
<1>4. LedgerTypeOK'
  BY <1>1, <1>2, <1>3 DEF LedgerTypeOK, RowsOf, Tx
<1>5. PendingLast'
  BY <1>1, <1>2, <1>3 DEF PendingLast, LedgerTypeOK, RowsOf, Tx
<1>6. SeqUnique'
  BY <1>1, <1>2, <1>3 DEF SeqUnique, LedgerTypeOK
<1>7. row.seq \notin tampered
  BY <1>2, <1>3 DEF TamperedOld, LedgerTypeOK
<1>8. \A r \in RowsOf(s) : LinkIntact(entries \cup RowsOf(s) \cup {row}, r)
  <2> SUFFICES ASSUME NEW r \in RowsOf(s) PROVE LinkIntact(entries \cup RowsOf(s) \cup {row}, r)
    OBVIOUS
  <2>1. LinkIntact(entries \cup RowsOf(s), r) /\ ~Before(r, row)
    BY <1>2, <1>3 DEF ChainContinues, Before, LedgerTypeOK
  <2> QED BY <2>1, LinkTransfer
<1>9. LinkIntact(entries \cup RowsOf(s) \cup {row}, row)
  <2> DEFINE All == entries \cup RowsOf(s) \cup {row}
  <2>1. \A q \in All : Before(row, q) <=> q \in Visible(s)
    BY <1>2, <1>3 DEF Before, Visible, OfWorkspace, RowsOf, LedgerTypeOK
  <2>2. Visible(s) \subseteq All
    BY DEF Visible, OfWorkspace, RowsOf
  <2>3. CASE Visible(s) = {}
    BY <2>1, <2>3, <1>1, <1>3 DEF LinkIntact, ChainContinues
  <2>4. CASE Visible(s) # {}
    <3>1. PICK r \in Visible(s) : Latest(Visible(s), r) /\ tx[s].prev = r.hash
      BY <2>4, <1>1 DEF ChainContinues
    <3>2. Predecessor(All, row, r)
      BY <3>1, <2>1, <2>2 DEF Predecessor, Latest
    <3> QED BY <3>1, <3>2, <2>1, <2>2, <1>3 DEF LinkIntact
  <2> QED BY <2>3, <2>4
<1>10. ChainContinues'
  <2> SUFFICES ASSUME NEW t \in Sessions
               PROVE  /\ \A r \in RowsOf(t)' :
                           /\ LinkIntact(entries \cup RowsOf(t), r)'
                           /\ r.payload = r.sha /\ r.hash = Hash(r.prev, r.payload)
                           /\ r.seq \notin tampered
                      /\ tx'[t].phase = "read" =>
                           IF Visible(t)' = {} THEN tx'[t].prev = Genesis
                           ELSE \E r \in Visible(t)' : Latest(Visible(t)', r) /\ tx'[t].prev = r.hash
    BY <1>1 DEF ChainContinues, LinkIntact, Predecessor, Before
  <2>1. CASE t = s
    <3>1. (entries \cup RowsOf(t))' = entries \cup RowsOf(s) \cup {row}
      BY <1>1, <2>1
    <3>2. \A r \in RowsOf(t)' : LinkIntact(entries \cup RowsOf(t), r)'
      <4> SUFFICES ASSUME NEW r \in RowsOf(t)' PROVE LinkIntact(entries \cup RowsOf(t), r)'
        OBVIOUS
      <4>1. LinkIntact(entries \cup RowsOf(s) \cup {row}, r)
        BY <1>1, <1>8, <1>9, <2>1
      <4> HIDE DEF LedgerInv
      <4> QED BY <4>1, <3>1 DEF LinkIntact, Predecessor, Before
    <3>3. \A r \in RowsOf(t)' : r.payload = r.sha /\ r.hash = Hash(r.prev, r.payload) /\ r.seq \notin tampered
      BY <2>1, <1>1, <1>3, <1>7 DEF ChainContinues
    <3>4. tx'[t].phase # "read"
      BY <2>1, <1>1 DEF Tx
    <3> QED BY <3>2, <3>3, <3>4
  <2>2. CASE t # s
    <3>1. Visible(t)' = Visible(t)
      BY <1>1, <2>2 DEF Visible, OfWorkspace
    <3>2. \A r \in RowsOf(t)' : LinkIntact(entries \cup RowsOf(t), r)'
      BY <1>1, <2>2 DEF ChainContinues, LinkIntact, Predecessor, Before
    <3> QED BY <1>1, <2>2, <3>1, <3>2 DEF ChainContinues, Latest
  <2> QED BY <2>1, <2>2
<1>11. CommittedChain' /\ TamperedOld'
  BY <1>1 DEF CommittedChain, TamperedOld, LinkIntact, Predecessor, Before
<1> QED BY <1>4, <1>5, <1>6, <1>10, <1>11

\* Ending the transaction of s changes nothing another session relies on, if the rows it
\* leaves behind are of its own workspace.
LEMMA EndInv ==
    ASSUME LedgerInv, NEW s \in Sessions, tx[s].phase # "idle",
           entries' = entries \cup RowsOf(s) \/ entries' = entries,
           tx' = [tx EXCEPT ![s] = NoTx], ReleaseLock(s), UNCHANGED <<next_seq, tampered>>
    PROVE  LedgerInv'
<1> USE DEF LedgerInv
<1>1. /\ tx'[s].phase = "idle" /\ RowsOf(s)' = {}
      /\ \A t \in Sessions \ {s} : tx'[t] = tx[t] /\ RowsOf(t)' = RowsOf(t)
      /\ tx' = [t \in Sessions |-> tx'[t]]
      /\ tx'[s] = NoTx
  BY DEF LedgerTypeOK, RowsOf, NoTx, Tx
<1>2. \A t \in Sessions \ {s} : \A r \in RowsOf(t), q \in RowsOf(s) : r.org # q.org
  BY LocksDiffer DEF PendingLast, LedgerTypeOK
<1>2a. \A t \in Sessions \ {s} : \A q \in RowsOf(s) : tx[t].phase # "idle" => tx[t].org # q.org
  BY LocksDiffer DEF LedgerTypeOK
<1>3. LedgerTypeOK'
  BY <1>1 DEF LedgerTypeOK, ReleaseLock, RowsOf, NoTx, Tx
<1>4. PendingLast'
  <2> SUFFICES ASSUME NEW t \in Sessions
               PROVE /\ tx'[t].phase = "idle" => RowsOf(t)' = {}
                     /\ tx'[t].phase # "idle" =>
                           tx'[t].org \in Workspaces /\ ledger_lock'[tx'[t].org] = t
                     /\ \A r \in RowsOf(t)', q \in entries' : q.org = r.org => q.seq < r.seq
    BY DEF PendingLast
  <2>1. CASE t = s
    BY <2>1, <1>1
  <2>2. CASE t # s
    BY <2>2, <1>1, <1>2 DEF PendingLast, ReleaseLock
  <2> QED BY <2>1, <2>2
<1>5. SeqUnique'
  <2>1. \A r, q \in entries' : r.seq = q.seq => r = q
    BY DEF SeqUnique
  <2>2. \A t \in Sessions \ {s} : \A r \in RowsOf(t), q \in RowsOf(s) : r.seq # q.seq
    BY DEF SeqUnique
  <2> QED BY <1>1, <2>1, <2>2 DEF SeqUnique
<1>6. \A t \in Sessions \ {s} : \A r \in RowsOf(t) : LinkIntact(entries' \cup RowsOf(t), r)
  <2> SUFFICES ASSUME NEW t \in Sessions \ {s}, NEW r \in RowsOf(t)
               PROVE  LinkIntact(entries' \cup RowsOf(t), r)
    OBVIOUS
  <2>1. LinkIntact(entries \cup RowsOf(t), r)
    BY DEF ChainContinues
  <2>2. \A q \in RowsOf(s) : ~Before(r, q)
    BY <1>2 DEF Before
  <2> QED BY <2>1, <2>2, LinkTransfer
<1>7. ChainContinues'
  <2> SUFFICES ASSUME NEW t \in Sessions
               PROVE  /\ \A r \in RowsOf(t)' :
                           /\ LinkIntact(entries \cup RowsOf(t), r)'
                           /\ r.payload = r.sha /\ r.hash = Hash(r.prev, r.payload)
                           /\ r.seq \notin tampered
                      /\ tx'[t].phase = "read" =>
                           IF Visible(t)' = {} THEN tx'[t].prev = Genesis
                           ELSE \E r \in Visible(t)' : Latest(Visible(t)', r) /\ tx'[t].prev = r.hash
    BY DEF ChainContinues
  <2>1. CASE t = s
    BY <2>1, <1>1
  <2>2. CASE t # s
    <3>1. tx[t].phase # "idle" => Visible(t)' = Visible(t)
      BY <1>1, <1>2a, <2>2 DEF Visible, OfWorkspace
    <3>2. \A r \in RowsOf(t)' : LinkIntact(entries \cup RowsOf(t), r)'
      <4> HIDE DEF LedgerInv
      <4>1. (entries \cup RowsOf(t))' = entries' \cup RowsOf(t)
        BY <1>1, <2>2
      <4> SUFFICES ASSUME NEW r \in RowsOf(t)' PROVE LinkIntact(entries \cup RowsOf(t), r)'
        OBVIOUS
      <4>3. LinkIntact(entries' \cup RowsOf(t), r)
        BY <1>1, <1>6, <2>2
      <4> QED BY <4>1, <4>3 DEF LinkIntact, Predecessor, Before
    <3>3. \A r \in RowsOf(t)' : r.payload = r.sha /\ r.hash = Hash(r.prev, r.payload) /\ r.seq \notin tampered
      BY <1>1, <2>2 DEF ChainContinues
    <3>4. tx'[t].phase = "read" =>
            IF Visible(t)' = {} THEN tx'[t].prev = Genesis
            ELSE \E r \in Visible(t)' : Latest(Visible(t), r)' /\ tx'[t].prev = r.hash
      <4> SUFFICES ASSUME tx[t].phase = "read"
                   PROVE IF Visible(t)' = {} THEN tx[t].prev = Genesis
                         ELSE \E r \in Visible(t)' : Latest(Visible(t), r)' /\ tx[t].prev = r.hash
        BY <1>1, <2>2
      <4>1. Visible(t)' = Visible(t)
        BY <3>1
      <4>2. IF Visible(t) = {} THEN tx[t].prev = Genesis
            ELSE \E r \in Visible(t) : Latest(Visible(t), r) /\ tx[t].prev = r.hash
        BY DEF ChainContinues
      <4> HIDE DEF LedgerInv
      <4> QED BY <4>1, <4>2 DEF Latest
    <3> QED BY <3>2, <3>3, <3>4 DEF Latest
  <2> QED BY <2>1, <2>2
<1>8. \A r \in entries' : LinkIntact(entries', r)
  <2> SUFFICES ASSUME NEW r \in entries' PROVE LinkIntact(entries', r)
    OBVIOUS
  <2>1. CASE r \in entries
    <3>1. LinkIntact(entries, r)
      BY <2>1 DEF CommittedChain
    <3>2. \A q \in RowsOf(s) : ~Before(r, q)
      BY <2>1 DEF Before, PendingLast, LedgerTypeOK
    <3> QED BY <3>1, <3>2, LinkTransfer
  <2>2. CASE r \notin entries
    BY <2>2 DEF ChainContinues
  <2> QED BY <2>1, <2>2
<1>9. CommittedChain'
  <2>1. \A r \in entries' : LinkIntact(entries, r)'
    BY <1>8 DEF LinkIntact, Predecessor, Before
  <2>2. \A r \in entries' : r.hash = Hash(r.prev, r.sha) /\ (r.payload = r.sha <=> r.seq \notin tampered)
    BY DEF CommittedChain, ChainContinues
  <2> QED BY <2>1, <2>2 DEF CommittedChain
<1>10. TamperedOld'
  BY DEF TamperedOld
<1> QED BY <1>3, <1>4, <1>5, <1>7, <1>9, <1>10

LEMMA TamperInv ==
    ASSUME LedgerInv, NEW r \in entries, NEW c \in Contents, Tamper(r, c)
    PROVE  LedgerInv'
<1> USE DEF LedgerInv
<1> DEFINE row == Row(r.seq, r.org, c, r.sha, r.prev, r.hash)
<1>1. /\ row.seq = r.seq /\ row.org = r.org /\ row.payload # row.sha /\ row.sha = r.sha
      /\ row.prev = r.prev /\ row.hash = r.hash
  BY DEF Row, Tamper
<1> HIDE DEF row
<1>2. /\ entries' = (entries \ {r}) \cup {row}
      /\ tampered' = tampered \cup {r.seq}
      /\ UNCHANGED <<next_seq, ledger_lock, tx>>
      /\ \A s \in Sessions : RowsOf(s)' = RowsOf(s)
  BY DEF Tamper, row, RowsOf
<1>3. LedgerTypeOK' /\ PendingLast' /\ SeqUnique' /\ TamperedOld'
  BY <1>1, <1>2 DEF LedgerTypeOK, PendingLast, SeqUnique, TamperedOld
<1>4. ASSUME NEW X, NEW q, LinkIntact(entries \cup X, q)
      PROVE  LinkIntact(entries' \cup X, q)
  BY <1>1, <1>2, <1>4, LinkTransfer
<1>5. ChainContinues'
  <2> SUFFICES ASSUME NEW t \in Sessions
               PROVE  /\ \A q \in RowsOf(t) :
                           /\ LinkIntact(entries' \cup RowsOf(t), q)
                           /\ q.payload = q.sha /\ q.hash = Hash(q.prev, q.payload)
                           /\ q.seq \notin tampered'
                      /\ tx[t].phase = "read" =>
                           IF Visible(t)' = {} THEN tx[t].prev = Genesis
                           ELSE \E q \in Visible(t)' : Latest(Visible(t)', q) /\ tx[t].prev = q.hash
    BY <1>2 DEF ChainContinues, LinkIntact, Predecessor, Before
  <2>1. \A q \in RowsOf(t) : q.seq \notin tampered'
    BY <1>2 DEF ChainContinues, SeqUnique
  <2>2. Visible(t)' = IF r.org = tx[t].org THEN (Visible(t) \ {r}) \cup {row}
                      ELSE Visible(t)
    BY <1>1, <1>2 DEF Visible, OfWorkspace, RowsOf, SeqUnique
  <2>3. tx[t].phase = "read" =>
          IF Visible(t)' = {} THEN tx[t].prev = Genesis
          ELSE \E q \in Visible(t)' : Latest(Visible(t)', q) /\ tx[t].prev = q.hash
    <3> SUFFICES ASSUME tx[t].phase = "read"
                 PROVE  IF Visible(t)' = {} THEN tx[t].prev = Genesis
                        ELSE \E q \in Visible(t)' : Latest(Visible(t)', q) /\ tx[t].prev = q.hash
      OBVIOUS
    <3>1. CASE r \notin Visible(t)
      <4>1. Visible(t)' = Visible(t)
        BY <2>2, <3>1 DEF Visible, OfWorkspace
      <4> QED BY <4>1 DEF ChainContinues
    <3>2. CASE r \in Visible(t)
      <4>1. PICK q \in Visible(t) : Latest(Visible(t), q) /\ tx[t].prev = q.hash
        BY <3>2 DEF ChainContinues
      <4>2. row \in Visible(t)'
        BY <1>1, <1>2, <3>2 DEF Visible, OfWorkspace, RowsOf, SeqUnique, LedgerTypeOK
      <4>3. \A x \in Visible(t)' : \E y \in Visible(t) : y.seq = x.seq
        BY <1>1, <2>2, <3>2
      <4>4. CASE q = r
        BY <4>1, <4>2, <4>3, <4>4, <1>1 DEF Latest
      <4>5. CASE q # r
        BY <4>1, <4>2, <4>3, <4>5, <2>2 DEF Latest
      <4> QED BY <4>4, <4>5
    <3> QED BY <3>1, <3>2
  <2> QED BY <1>4, <2>1, <2>3 DEF ChainContinues
<1>6. CommittedChain'
  <2>1. \A q \in entries : LinkIntact(entries', q)
    BY <1>4 DEF CommittedChain
  <2>2. LinkIntact(entries', row)
    BY <1>1, <2>1, LinkTransfer
  <2>3. \A q \in entries' : LinkIntact(entries, q)'
    BY <1>2, <2>1, <2>2 DEF LinkIntact, Predecessor, Before
  <2>4. \A q \in entries' : /\ q.hash = Hash(q.prev, q.sha)
                            /\ q.payload = q.sha <=> q.seq \notin tampered'
    BY <1>1, <1>2 DEF CommittedChain, SeqUnique
  <2> QED BY <2>3, <2>4 DEF CommittedChain
<1> QED BY <1>3, <1>5, <1>6

THEOREM LedgerStep == LedgerInv /\ [LedgerNext]_ledgerVars => LedgerInv'
<1> SUFFICES ASSUME LedgerInv, [LedgerNext]_ledgerVars PROVE LedgerInv'
  OBVIOUS
<1>1. ASSUME NEW s \in Sessions, CommitTx(s) PROVE LedgerInv'
  BY <1>1, EndInv DEF CommitTx, RowsOf
<1>2. ASSUME NEW s \in Sessions, RollbackTx(s) PROVE LedgerInv'
  BY <1>2, EndInv DEF RollbackTx
<1>3. CASE UNCHANGED ledgerVars
  BY <1>3 DEF ledgerVars, LedgerInv, LedgerTypeOK, PendingLast, SeqUnique, ChainContinues,
              CommittedChain, TamperedOld, RowsOf, Visible, OfWorkspace, Latest, LinkIntact,
              Predecessor, Before
<1> QED BY <1>1, <1>2, <1>3, AcquireInv, ReadInv, InsertInv, TamperInv DEF LedgerNext

\* The inductive invariant of the ledger: locks, numbers and links fit together.
THEOREM LedgerInvariant == LedgerSpec => []LedgerInv
BY LedgerInitInv, LedgerStep, PTL DEF LedgerSpec

\* verify_chain reports the altered rows, and only those, whatever transactions interleave.
THEOREM LedgerVerifies == LedgerSpec => []VerifyFindsTampering
<1>1. LedgerInv => VerifyFindsTampering
  BY DEF LedgerInv, CommittedChain, VerifyFindsTampering, Intact
<1> QED BY <1>1, LedgerInvariant, PTL

\* Entries are only ever added after all the committed ones of their workspace.
THEOREM LedgerAppendOnly == LedgerSpec => AppendsAtTheEnd
<1> DEFINE Appends ==
      /\ \A q \in entries : \E r \in entries' :
            r.seq = q.seq /\ r.org = q.org /\ r.prev = q.prev /\ r.hash = q.hash
      /\ \A r \in entries' : (\A q \in entries : q.seq # r.seq) =>
            \A q \in entries : q.org = r.org => q.seq < r.seq
<1>1. ASSUME LedgerInv, LedgerNext PROVE Appends
  <2>1. ASSUME NEW s \in Sessions, CommitTx(s) PROVE Appends
    BY <1>1, <2>1 DEF CommitTx, LedgerInv, PendingLast, RowsOf
  <2>2. ASSUME NEW r \in entries, NEW c \in Contents, Tamper(r, c) PROVE Appends
    <3> DEFINE row == Row(r.seq, r.org, c, r.sha, r.prev, r.hash)
    <3>1. /\ row.seq = r.seq /\ row.org = r.org /\ row.prev = r.prev /\ row.hash = r.hash
          /\ row \in entries'
      BY <2>2 DEF Tamper, Row
    <3>2. entries' = (entries \ {r}) \cup {row}
      BY <2>2 DEF Tamper
    <3> HIDE DEF row
    <3> QED BY <3>1, <3>2
  <2>3. CASE entries' = entries
    BY <2>3
  <2> QED BY <1>1, <2>1, <2>2, <2>3
          DEF LedgerNext, AcquireLock, ReadPrevious, InsertEntry, RollbackTx
<1>2. LedgerInv /\ [LedgerNext]_ledgerVars => [Appends]_ledgerVars
  BY <1>1
<1> QED BY <1>2, LedgerInvariant, PTL DEF LedgerSpec, AppendsAtTheEnd

-----------------------------------------------------------------------------
(* Members and contracts *)

RoleType == [Tenants -> [People -> MemberRoles \cup {"none"}]]

\* Requests that take somebody out of a workspace.
Removing(h) == handler[h].kind \in {"remove", "leave"}

\* What such a request has checked is still so when it commits, because no other one is under way.
RemovalOk(h) ==
    handler[h].kind = "remove" =>
        /\ handler[h].org \in Tenants /\ handler[h].user \in People
        /\ \E v \in OwnersOf(handler[h].org) : v # handler[h].user

LeaveOk(h) ==
    handler[h].kind = "leave" =>
        handler[h].user \in People /\ handler[h].gone = Orphaned(handler[h].user)

OwnersInv ==
    /\ tenants \subseteq Tenants /\ member_role \in RoleType
    /\ DOMAIN handler = Handlers
    /\ \A g, h \in Handlers : Removing(g) /\ Removing(h) => g = h
    /\ \A h \in Handlers : RemovalOk(h) /\ LeaveOk(h)
    /\ EveryOrgOwned

-----------------------------------------------------------------------------
LEMMA OwnersInit == MembersInit => OwnersInv
BY DEF MembersInit, OwnersInv, RoleType, MemberRoles, Removing, RemovalOk, LeaveOk,
       EveryOrgOwned, Free

\* The owner who is left when another one may be removed.
LEMMA AnotherOwner ==
    ASSUME NEW o \in Tenants, NEW u \in People, MayRemove(o, u), OwnersOf(o) # {}
    PROVE  \E v \in OwnersOf(o) : v # u
<1>1. CASE member_role[o][u] # "owner"
  BY <1>1 DEF OwnersOf
<1>2. CASE member_role[o][u] = "owner"
  <2>1. Cardinality(OwnersOf(o)) > 1
    BY <1>2 DEF MayRemove
  <2>2. CASE OwnersOf(o) = {u}
    <3>1. Cardinality(OwnersOf(o)) = 1
      BY <2>2, FS_Singleton
    <3> QED BY <2>1, <3>1
  <2>3. CASE OwnersOf(o) # {u}
    BY <1>2, <2>3 DEF OwnersOf
  <2> QED BY <2>2, <2>3
<1> QED BY <1>1, <1>2

\* A request that starts while no other is under way: nothing that was checked is at stake.
LEMMA QuietStep ==
    ASSUME OwnersInv, ~MayOverwrite, ~MayInterleave, Quiet, UNCHANGED handler,
           tenants' \subseteq Tenants, member_role' \in RoleType, EveryOrgOwned'
    PROVE  OwnersInv'
<1>1. \A h \in Handlers : handler[h].kind = "free"
  BY DEF Quiet, Free
<1> QED BY <1>1 DEF OwnersInv, Removing, RemovalOk, LeaveOk

\* What is added or dissolved while nothing is checked.
LEMMA WorkspaceStep ==
    ASSUME OwnersInv, ~MayOverwrite, ~MayInterleave,
           \E o \in Tenants :
              \/ \E u \in People : CreateOrg(u, o) \/ CreateToken(u, o) \/ DissolveOrg(u, o)
              \/ \E p \in Principals : RevokeToken(p, o)
              \/ \E p \in Principals, u \in People, role \in MemberRoles : AddMember(p, o, u, role)
    PROVE  OwnersInv'
<1> PICK o \in Tenants :
              \/ \E u \in People : CreateOrg(u, o) \/ CreateToken(u, o) \/ DissolveOrg(u, o)
              \/ \E p \in Principals : RevokeToken(p, o)
              \/ \E p \in Principals, u \in People, role \in MemberRoles : AddMember(p, o, u, role)
  OBVIOUS
<1>1. ASSUME NEW u \in People, CreateOrg(u, o) PROVE OwnersInv'
  <2>1. tenants' = tenants \cup {o} /\ member_role' = [member_role EXCEPT ![o][u] = "owner"]
    BY <1>1 DEF CreateOrg
  <2>2. tenants' \subseteq Tenants /\ member_role' \in RoleType
    BY <2>1 DEF OwnersInv, RoleType, MemberRoles
  <2>3. EveryOrgOwned'
    BY <2>1 DEF OwnersInv, EveryOrgOwned, OwnersOf, RoleType
  <2> QED BY <1>1, <2>2, <2>3, QuietStep DEF CreateOrg
<1>2. ASSUME NEW u \in People, DissolveOrg(u, o) PROVE OwnersInv'
  <2>1. tenants' = tenants \ {o} /\ member_role' = Without({o})
    BY <1>2 DEF DissolveOrg
  <2>2. tenants' \subseteq Tenants /\ member_role' \in RoleType
    BY <2>1 DEF OwnersInv, RoleType, Without
  <2>3. EveryOrgOwned'
    BY <2>1 DEF OwnersInv, EveryOrgOwned, OwnersOf, RoleType, Without
  <2> QED BY <1>2, <2>2, <2>3, QuietStep DEF DissolveOrg
<1>3. ASSUME NEW p \in Principals, NEW u \in People, NEW role \in MemberRoles, AddMember(p, o, u, role)
      PROVE OwnersInv'
  <2>1. member_role[o][u] = "none" /\ UNCHANGED tenants
        /\ member_role' = [member_role EXCEPT ![o][u] = role]
    BY <1>3 DEF AddMember
  <2>2. member_role' \in RoleType
    BY <2>1 DEF OwnersInv, RoleType
  <2>3. EveryOrgOwned'
    BY <2>1 DEF OwnersInv, EveryOrgOwned, OwnersOf, RoleType
  <2> QED BY <1>3, <2>1, <2>2, <2>3, QuietStep DEF AddMember, OwnersInv
<1>4. ASSUME UNCHANGED <<tenants, member_role, handler>> PROVE OwnersInv'
  BY <1>4 DEF OwnersInv, RoleType, Removing, RemovalOk, LeaveOk, EveryOrgOwned, OwnersOf, Orphaned
<1> QED BY <1>1, <1>2, <1>3, <1>4 DEF CreateToken, RevokeToken

\* The two requests that take somebody out: what they check, and what they commit.
LEMMA CheckStep ==
    ASSUME OwnersInv, ~MayInterleave, NEW h \in Handlers,
           \/ \E o \in Tenants, p \in Principals, u \in People : CheckRemoval(h, p, o, u)
           \/ \E u \in People : CountOtherOwners(h, u)
    PROVE  OwnersInv'
<1>1. \A g \in Handlers : handler[g].kind = "free"
  BY DEF CheckRemoval, CountOtherOwners, Quiet, Free
<1>2. CASE \E o \in Tenants, p \in Principals, u \in People : CheckRemoval(h, p, o, u)
  <2> PICK o \in Tenants, p \in Principals, u \in People : CheckRemoval(h, p, o, u)
    BY <1>2
  <2>1. handler' = [handler EXCEPT ![h] = [kind |-> "remove", org |-> o, user |-> u]]
        /\ UNCHANGED <<tenants, member_role>> /\ o \in tenants /\ MayRemove(o, u)
    BY DEF CheckRemoval, RequireOrg
  <2>2. \E v \in OwnersOf(o) : v # u
    BY <2>1, AnotherOwner DEF OwnersInv, EveryOrgOwned
  <2>3. \A g \in Handlers : Removing(g)' => g = h
    BY <1>1, <2>1 DEF Removing, OwnersInv
  <2>4. \A g \in Handlers : RemovalOk(g)' /\ LeaveOk(g)'
    <3> SUFFICES ASSUME NEW g \in Handlers PROVE RemovalOk(g)' /\ LeaveOk(g)'
      OBVIOUS
    <3>1. CASE g # h
      BY <1>1, <2>1, <3>1 DEF RemovalOk, LeaveOk, OwnersInv
    <3>2. CASE g = h
      <4>1. handler'[g] = [kind |-> "remove", org |-> o, user |-> u]
        BY <2>1, <3>2 DEF OwnersInv
      <4> QED BY <2>1, <2>2, <4>1 DEF RemovalOk, LeaveOk, OwnersOf
    <3> QED BY <3>1, <3>2
  <2> QED BY <2>1, <2>3, <2>4 DEF OwnersInv, EveryOrgOwned, OwnersOf
<1>3. CASE \E u \in People : CountOtherOwners(h, u)
  <2> PICK u \in People : CountOtherOwners(h, u)
    BY <1>3
  <2>1. handler' = [handler EXCEPT ![h] = [kind |-> "leave", user |-> u, gone |-> Orphaned(u)]]
        /\ UNCHANGED <<tenants, member_role>>
    BY DEF CountOtherOwners
  <2>3. \A g \in Handlers : Removing(g)' => g = h
    BY <1>1, <2>1 DEF Removing, OwnersInv
  <2>4. \A g \in Handlers : RemovalOk(g)' /\ LeaveOk(g)'
    <3> SUFFICES ASSUME NEW g \in Handlers PROVE RemovalOk(g)' /\ LeaveOk(g)'
      OBVIOUS
    <3>1. CASE g # h
      BY <1>1, <2>1, <3>1 DEF RemovalOk, LeaveOk, OwnersInv
    <3>2. CASE g = h
      <4>1. handler'[g] = [kind |-> "leave", user |-> u, gone |-> Orphaned(u)]
        BY <2>1, <3>2 DEF OwnersInv
      <4>2. Orphaned(u)' = Orphaned(u)
        BY <2>1 DEF Orphaned, OwnersOf
      <4> QED BY <4>1, <4>2 DEF RemovalOk, LeaveOk
    <3> QED BY <3>1, <3>2
  <2> QED BY <2>1, <2>3, <2>4 DEF OwnersInv, EveryOrgOwned, OwnersOf
<1> QED BY <1>2, <1>3

\* Once a request has committed, none is under way.
LEMMA CommitStep ==
    ASSUME OwnersInv, NEW h \in Handlers, CommitRemoval(h) \/ CommitAccountDeletion(h)
    PROVE  OwnersInv'
<1>1. \A g \in Handlers : g # h => ~Removing(g)
  BY DEF OwnersInv, Removing, CommitRemoval, CommitAccountDeletion
<1>2. handler' = [handler EXCEPT ![h] = Free]
  BY DEF CommitRemoval, CommitAccountDeletion
<1>3. \A g \in Handlers : ~Removing(g)'
  BY <1>1, <1>2 DEF Removing, Free, OwnersInv
<1>4. CASE CommitRemoval(h)
  <2>1. handler[h].org \in Tenants /\ handler[h].user \in People
        /\ (\E v \in OwnersOf(handler[h].org) : v # handler[h].user)
        /\ UNCHANGED tenants
        /\ member_role' = [member_role EXCEPT ![handler[h].org][handler[h].user] = "none"]
    BY <1>4 DEF CommitRemoval, OwnersInv, RemovalOk
  <2>2. member_role' \in RoleType
    BY <2>1 DEF OwnersInv, RoleType
  <2>3. EveryOrgOwned'
    BY <2>1 DEF OwnersInv, EveryOrgOwned, OwnersOf, RoleType
  <2> QED BY <1>2, <1>3, <2>1, <2>2, <2>3 DEF OwnersInv, Removing, RemovalOk, LeaveOk
<1>5. CASE CommitAccountDeletion(h)
  <2> DEFINE u == handler[h].user
             gone == handler[h].gone
  <2>1. u \in People /\ gone = Orphaned(u) /\ tenants' = tenants \ gone
        /\ member_role' = [o \in Tenants |-> [Without(gone)[o] EXCEPT ![u] = "none"]]
    BY <1>5 DEF CommitAccountDeletion, OwnersInv, LeaveOk
  <2> HIDE DEF u, gone
  <2>2. member_role' \in RoleType /\ tenants' \subseteq Tenants
    BY <2>1 DEF OwnersInv, RoleType, Without
  <2>3. ASSUME NEW o \in tenants' PROVE OwnersOf(o)' # {}
    <3>1. o \in Tenants /\ o \in tenants /\ OwnersOf(o) # {u} /\ OwnersOf(o) # {} /\ o \notin gone
      BY <2>1, <2>3 DEF OwnersInv, EveryOrgOwned, Orphaned
    <3>2. PICK v \in OwnersOf(o) : v # u
      BY <3>1
    <3>3. v \in People /\ member_role[o][v] = "owner"
      BY DEF OwnersOf
    <3>4. member_role'[o][v] = "owner"
      BY <2>1, <3>1, <3>2, <3>3 DEF Without, OwnersInv, RoleType
    <3> QED BY <3>3, <3>4 DEF OwnersOf
  <2> QED BY <1>2, <1>3, <2>2, <2>3 DEF OwnersInv, EveryOrgOwned, Removing, RemovalOk, LeaveOk
<1> QED BY <1>4, <1>5

\* Contracts have nothing to do with owners.
LEMMA ContractIrrelevant ==
    ASSUME OwnersInv, NEW h \in Handlers, ReadActive(h) \/ NumberContract(h) \/ CommitContract(h)
    PROVE  OwnersInv'
<1>1. UNCHANGED <<tenants, member_role>>
  BY DEF ReadActive, NumberContract, CommitContract
<1>2. \A g \in Handlers : g # h => handler'[g] = handler[g]
  BY DEF ReadActive, NumberContract, CommitContract, OwnersInv
<1>3. handler'[h].kind \in {"free", "contract", "numbered"} /\ DOMAIN handler' = Handlers
  BY DEF ReadActive, NumberContract, CommitContract, OwnersInv, Free
<1>4. \A g \in Handlers : Removing(g)' => g # h /\ Removing(g)
  BY <1>2, <1>3 DEF Removing
<1>5. \A g \in Handlers : RemovalOk(g)' /\ LeaveOk(g)'
  BY <1>1, <1>2, <1>3 DEF OwnersInv, RemovalOk, LeaveOk, OwnersOf, Orphaned
<1> QED BY <1>1, <1>3, <1>4, <1>5 DEF OwnersInv, EveryOrgOwned, OwnersOf

\* As long as a workspace exists somebody owns it, if removals do not interleave and add_member
\* is not used to change a role (api/routers/orgs.py, services/bootstrap.py).
THEOREM OwnersStay == ASSUME ~MayOverwrite, ~MayInterleave PROVE MembersSpec => []EveryOrgOwned
<1>1. OwnersInv => EveryOrgOwned
  BY DEF OwnersInv
<1>2. OwnersInv /\ [MembersNext]_membersVars => OwnersInv'
  <2> SUFFICES ASSUME OwnersInv, [MembersNext]_membersVars PROVE OwnersInv'
    OBVIOUS
  <2>1. CASE UNCHANGED membersVars
    BY <2>1 DEF membersVars, OwnersInv, RoleType, Removing, RemovalOk, LeaveOk, EveryOrgOwned,
           OwnersOf, Orphaned
  <2>2. CASE MembersNext
    BY <2>2, WorkspaceStep, CheckStep, CommitStep, ContractIrrelevant DEF MembersNext
  <2> QED BY <2>1, <2>2
<1> QED BY OwnersInit, <1>1, <1>2, PTL DEF MembersSpec
-----------------------------------------------------------------------------
(* Contracts *)

\* Versions are numbered without a gap, and a request has the number after one of them.
NumbersInv ==
    /\ DOMAIN handler = Handlers
    /\ contracts \subseteq Nat \ {0} /\ active_contracts \subseteq contracts
    /\ \A n \in contracts : 1..n \subseteq contracts
    /\ \A h \in Handlers : handler[h].kind = "contract" => handler[h].off \subseteq contracts
    /\ \A h \in Handlers : handler[h].kind = "numbered" =>
            /\ handler[h].off \subseteq contracts
            /\ handler[h].n \in Nat \ {0} /\ 1..(handler[h].n - 1) \subseteq contracts
    /\ contracts # {} => \E n \in active_contracts : \A k \in contracts : k <= n

\* The newest version is the one all others are below.
LEMMA NewestIs ==
    ASSUME NEW S \in SUBSET (Nat \ {0}), NEW n \in S, \A k \in S : k <= n
    PROVE  Newest(S) = n
<1>1. Newest(S) \in S \cup {0} /\ \A k \in S : k <= Newest(S)
  BY DEF Newest
<1>2. n \in Nat /\ n > 0 /\ n <= Newest(S)
  BY <1>1
<1>3. CASE Newest(S) \in S
  <2>1. Newest(S) \in Nat /\ Newest(S) <= n
    BY <1>3
  <2> QED BY <1>2, <2>1
<1>4. CASE Newest(S) = 0
  BY <1>2, <1>4
<1> HIDE DEF Newest
<1> QED BY <1>1, <1>3, <1>4

LEMMA NumbersInit == MembersInit => NumbersInv
BY DEF MembersInit, NumbersInv, Free

LEMMA NumbersCount == NumbersInv => NewestContractCounts
<1> SUFFICES ASSUME NumbersInv, contracts # {} PROVE ActiveContracts = {Newest(contracts)}
  BY DEF NewestContractCounts
<1>1. PICK n \in active_contracts : \A k \in contracts : k <= n
  BY DEF NumbersInv
<1>2. Newest(contracts) = n
  BY <1>1, NewestIs DEF NumbersInv
<1>3. ActiveContracts = {n}
  <2>1. active_contracts \subseteq contracts /\ contracts \subseteq Nat
    BY DEF NumbersInv
  <2>2. ASSUME NEW m \in active_contracts, \A k \in active_contracts : k <= m PROVE m = n
    <3>1. m \in Nat /\ n \in Nat /\ m <= n /\ n <= m
      BY <1>1, <2>1, <2>2
    <3> QED BY <3>1
  <2>3. n \in active_contracts /\ \A k \in active_contracts : k <= n
    BY <1>1, <2>1
  <2> QED BY <2>2, <2>3 DEF ActiveContracts
<1> QED BY <1>2, <1>3

LEMMA CommitContractStep ==
    ASSUME NumbersInv, NEW h \in Handlers, CommitContract(h)
    PROVE  NumbersInv'
<1> DEFINE n == handler[h].n
           off == handler[h].off
<1>1. n \in Nat \ {0} /\ 1..(n - 1) \subseteq contracts /\ off \subseteq contracts
  BY DEF CommitContract, NumbersInv
<1>2. handler' = [handler EXCEPT ![h] = Free]
  BY DEF CommitContract
<1>3. \A g \in Handlers : handler'[g].kind # "free" => handler'[g] = handler[g]
  BY <1>2 DEF NumbersInv, Free
<1>4. DOMAIN handler' = Handlers
  BY <1>2 DEF NumbersInv
<1>5. CASE UNCHANGED <<contracts, active_contracts>>
  BY <1>3, <1>4, <1>5 DEF NumbersInv
<1>6. CASE n \notin contracts /\ contracts' = contracts \cup {n}
           /\ active_contracts' = (active_contracts \ off) \cup {n}
  <2>1. \A k \in contracts : k < n
    <3> SUFFICES ASSUME NEW k \in contracts, ~(k < n) PROVE FALSE
      OBVIOUS
    <3>0. k \in Nat
      BY DEF NumbersInv
    <3>1. k \in Nat /\ n \in Nat /\ n > 0
      BY <1>1, <3>0
    <3>2. n \in 1..k
      BY <3>1
    <3> QED BY <1>6, <3>2 DEF NumbersInv
  <2>2. \A k \in contracts' : k <= n
    BY <1>1, <1>6, <2>1 DEF NumbersInv
  <2>3. \A k \in contracts' : 1..k \subseteq contracts'
    <3> SUFFICES ASSUME NEW k \in contracts', NEW i \in 1..k PROVE i \in contracts'
      OBVIOUS
    <3>1. CASE k = n
      <4>1. i = n \/ i \in 1..(n - 1)
        BY <1>1, <3>1
      <4> QED BY <1>1, <1>6, <4>1
    <3>2. CASE k # n
      BY <1>6, <3>2 DEF NumbersInv
    <3> QED BY <3>1, <3>2
  <2>4. contracts \subseteq contracts' /\ contracts' \subseteq Nat \ {0}
        /\ active_contracts' \subseteq contracts' /\ n \in active_contracts'
    BY <1>1, <1>6 DEF NumbersInv
  <2> HIDE DEF n, off
  <2> QED BY <1>3, <1>4, <2>2, <2>3, <2>4 DEF NumbersInv
<1> QED BY <1>5, <1>6 DEF CommitContract

LEMMA NumbersStep == NumbersInv /\ [MembersNext]_membersVars => NumbersInv'
<1> SUFFICES ASSUME NumbersInv, [MembersNext]_membersVars PROVE NumbersInv'
  OBVIOUS
<1>1. ASSUME UNCHANGED <<contracts, active_contracts>>,
             NEW h \in Handlers,
             handler' = handler \/ handler'[h].kind \in {"free", "remove", "leave"},
             \A g \in Handlers : g # h => handler'[g] = handler[g],
             DOMAIN handler' = Handlers
      PROVE  NumbersInv'
  BY <1>1 DEF NumbersInv
<1>2. ASSUME NEW h \in Handlers, ReadActive(h) PROVE NumbersInv'
  <2>1. handler' = [handler EXCEPT ![h] = [kind |-> "contract", off |-> active_contracts]]
        /\ UNCHANGED <<contracts, active_contracts>>
    BY <1>2 DEF ReadActive
  <2>2. \A g \in Handlers : g # h => handler'[g] = handler[g]
    BY <2>1 DEF NumbersInv
  <2>3. handler'[h] = [kind |-> "contract", off |-> active_contracts] /\ DOMAIN handler' = Handlers
    BY <2>1 DEF NumbersInv
  <2> QED BY <2>1, <2>2, <2>3 DEF NumbersInv
<1>3. ASSUME NEW h \in Handlers, NumberContract(h) PROVE NumbersInv'
  <2>1. handler' = [handler EXCEPT ![h] =
                [kind |-> "numbered", off |-> handler[h].off, n |-> Newest(contracts) + 1]]
        /\ handler[h].kind = "contract" /\ UNCHANGED <<contracts, active_contracts>>
    BY <1>3 DEF NumberContract
  <2>2. \A g \in Handlers : g # h => handler'[g] = handler[g]
    BY <2>1 DEF NumbersInv
  <2>3. handler'[h] = [kind |-> "numbered", off |-> handler[h].off, n |-> Newest(contracts) + 1]
        /\ DOMAIN handler' = Handlers
    BY <2>1 DEF NumbersInv
  <2>4. Newest(contracts) \in Nat /\ 1..Newest(contracts) \subseteq contracts
    <3>1. CASE contracts = {}
      <4>1. Newest(contracts) = 0
        BY <3>1 DEF Newest
      <4> QED BY <4>1
    <3>2. CASE contracts # {}
      <4>1. PICK k \in active_contracts : \A i \in contracts : i <= k
        BY <3>2 DEF NumbersInv
      <4>2. Newest(contracts) = k
        BY <4>1, NewestIs DEF NumbersInv
      <4> QED BY <4>2 DEF NumbersInv
    <3> QED BY <3>1, <3>2
  <2>5. handler[h].off \subseteq contracts
    BY <2>1 DEF NumbersInv
  <2> HIDE DEF Newest
  <2> QED BY <2>1, <2>2, <2>3, <2>4, <2>5 DEF NumbersInv
<1>4. ASSUME NEW h \in Handlers, CommitContract(h) PROVE NumbersInv'
  BY <1>4, CommitContractStep
<1>5. ASSUME NEW o \in Tenants, NEW u \in People,
             CreateOrg(u, o) \/ CreateToken(u, o) \/ DissolveOrg(u, o)
      PROVE NumbersInv'
  BY <1>5 DEF NumbersInv, CreateOrg, CreateToken, DissolveOrg
<1>6. ASSUME NEW o \in Tenants, NEW p \in Principals, RevokeToken(p, o) PROVE NumbersInv'
  BY <1>6 DEF NumbersInv, RevokeToken
<1>7. ASSUME NEW o \in Tenants, NEW p \in Principals, NEW u \in People, NEW role \in MemberRoles,
             AddMember(p, o, u, role)
      PROVE NumbersInv'
  BY <1>7 DEF NumbersInv, AddMember
<1>8. ASSUME NEW h \in Handlers, NEW o \in Tenants, NEW p \in Principals, NEW u \in People,
             CheckRemoval(h, p, o, u)
      PROVE NumbersInv'
  BY <1>1, <1>8 DEF CheckRemoval, NumbersInv
<1>9. ASSUME NEW h \in Handlers, NEW u \in People, CountOtherOwners(h, u) PROVE NumbersInv'
  BY <1>1, <1>9 DEF CountOtherOwners, NumbersInv
<1>10. ASSUME NEW h \in Handlers, CommitRemoval(h) \/ CommitAccountDeletion(h) PROVE NumbersInv'
  BY <1>1, <1>10 DEF CommitRemoval, CommitAccountDeletion, NumbersInv, Free
<1>11. CASE UNCHANGED membersVars
  BY <1>11 DEF membersVars, NumbersInv
<1> QED BY <1>2, <1>3, <1>4, <1>5, <1>6, <1>7, <1>8, <1>9, <1>10, <1>11 DEF MembersNext

\* However the requests of put_contract interleave, the active contract that counts is the newest
\* one that was committed (api/routers/orgs.py).
THEOREM NewestCounts == MembersSpec => []NewestContractCounts
<1> QED BY NumbersInit, NumbersStep, NumbersCount, PTL DEF MembersSpec
=============================================================================
