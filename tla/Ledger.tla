------------------------------- MODULE Ledger -------------------------------
(***************************************************************************)
(* The evidence ledger (ledger.py): every workspace has a chain of entries *)
(* in which each entry holds the hash of the one before it.  Entries are   *)
(* appended by transactions of requests and jobs, which take an advisory   *)
(* lock of the workspace and keep it until they end.  A database sequence  *)
(* hands out seq for all workspaces; numbers of rolled back inserts are    *)
(* lost.                                                                   *)
(***************************************************************************)
EXTENDS Integers

CONSTANTS
    Workspaces,
    Sessions,       \* database sessions with an open transaction, or none
    Contents,       \* event, entity, payload and time of an entry
    Hash(_, _),     \* _entry_hash of the previous hash and a content
    Genesis,
    MaxSeq,         \* bound on the numbers the sequence hands out
    NoSession

ASSUME LedgerAssumption ==
    /\ NoSession \notin Sessions
    /\ MaxSeq \in Nat

VARIABLES
    entries,        \* the committed rows of evidence_ledger
    next_seq,       \* the sequence behind evidence_ledger.seq
    ledger_lock,    \* the session that holds the advisory lock of a workspace
    tx,             \* the transaction of each session
    tampered        \* seq of the rows whose payload was altered behind the program's back

ledgerVars == <<entries, next_seq, ledger_lock, tx, tampered>>

Tx(phase, org, prev, rows) == [phase |-> phase, org |-> org, prev |-> prev, rows |-> rows]
NoTx == Tx("idle", "none", Genesis, {})

\* A row of evidence_ledger.
Row(seq, org, payload, sha, prev, hash) ==
    [seq |-> seq, org |-> org, payload |-> payload, sha |-> sha, prev |-> prev, hash |-> hash]

-----------------------------------------------------------------------------
LedgerInit ==
    /\ entries = {}
    /\ next_seq = 1
    /\ ledger_lock = [o \in Workspaces |-> NoSession]
    /\ tx = [s \in Sessions |-> NoTx]
    /\ tampered = {}

OfWorkspace(rows, o) == {r \in rows : r.org = o}
Latest(rows, r) == r \in rows /\ \A q \in rows : q.seq <= r.seq

\* Mutant: the advisory lock is not taken.
AcquireLock_None(s, o) ==
    /\ tx[s].phase \in {"idle", "open"}
    /\ tx[s].phase = "open" => tx[s].org = o
    /\ tx' = [tx EXCEPT ![s] = Tx("locked", o, Genesis, tx[s].rows)]
    /\ UNCHANGED <<entries, next_seq, ledger_lock, tampered>>

\* record: pg_advisory_xact_lock, which a transaction may take again.  A transaction records
\* for one workspace only.
AcquireLock(s, o) ==
    /\ tx[s].phase \in {"idle", "open"}
    /\ tx[s].phase = "open" => tx[s].org = o
    /\ ledger_lock[o] \in {NoSession, s}
    /\ ledger_lock' = [ledger_lock EXCEPT ![o] = s]
    /\ tx' = [tx EXCEPT ![s] = Tx("locked", o, Genesis, tx[s].rows)]
    /\ UNCHANGED <<entries, next_seq, tampered>>

\* Mutant: the session does not flush, and does not see what it inserted itself.
Visible_NotOwn(s) == OfWorkspace(entries, tx[s].org)

\* The rows a session sees: committed ones and its own.
Visible(s) == OfWorkspace(entries, tx[s].org) \cup tx[s].rows

\* record: the newest entry_hash of the workspace, or GENESIS.
ReadPrevious(s) ==
    /\ tx[s].phase = "locked"
    /\ \/ /\ Visible(s) = {}
          /\ tx' = [tx EXCEPT ![s] = Tx("read", tx[s].org, Genesis, tx[s].rows)]
       \/ \E r \in Visible(s) :
            /\ Latest(Visible(s), r)
            /\ tx' = [tx EXCEPT ![s] = Tx("read", tx[s].org, r.hash, tx[s].rows)]
    /\ UNCHANGED <<entries, next_seq, ledger_lock, tampered>>

\* record: the insert; flush makes it visible to the rest of the transaction.
InsertEntry(s, c) ==
    /\ tx[s].phase = "read" /\ next_seq < MaxSeq
    /\ LET row == Row(next_seq, tx[s].org, c, c, tx[s].prev, Hash(tx[s].prev, c)) IN
       tx' = [tx EXCEPT ![s] = Tx("open", tx[s].org, Genesis, tx[s].rows \cup {row})]
    /\ next_seq' = next_seq + 1
    /\ UNCHANGED <<entries, ledger_lock, tampered>>

\* The lock of a transaction goes with its end.
ReleaseLock(s) ==
    ledger_lock' = [o \in Workspaces |-> IF ledger_lock[o] = s THEN NoSession ELSE ledger_lock[o]]

CommitTx(s) ==
    /\ tx[s].phase = "open"
    /\ entries' = entries \cup tx[s].rows
    /\ tx' = [tx EXCEPT ![s] = NoTx]
    /\ ReleaseLock(s)
    /\ UNCHANGED <<next_seq, tampered>>

\* Mutant: a rollback is made up for by deleting the newest row of the workspace.
RollbackTx_Compensates(s) ==
    /\ tx[s].phase # "idle"
    /\ LET own == OfWorkspace(entries, tx[s].org) IN
       entries' = {r \in entries : ~Latest(own, r)}
    /\ tx' = [tx EXCEPT ![s] = NoTx]
    /\ ReleaseLock(s)
    /\ UNCHANGED <<next_seq, tampered>>

\* An exception, or the death of the process.
RollbackTx(s) ==
    /\ tx[s].phase # "idle"
    /\ tx' = [tx EXCEPT ![s] = NoTx]
    /\ ReleaseLock(s)
    /\ UNCHANGED <<entries, next_seq, tampered>>

\* Environment: the payload of a committed row is altered in the database.
Tamper(r, c) ==
    /\ r \in entries /\ c # r.sha
    /\ entries' = (entries \ {r}) \cup {Row(r.seq, r.org, c, r.sha, r.prev, r.hash)}
    /\ tampered' = tampered \cup {r.seq}
    /\ UNCHANGED <<next_seq, ledger_lock, tx>>

LedgerNext ==
    \/ \E s \in Sessions :
        \/ \E o \in Workspaces : AcquireLock(s, o)
        \/ ReadPrevious(s)
        \/ \E c \in Contents : InsertEntry(s, c)
        \/ CommitTx(s) \/ RollbackTx(s)
    \/ \E r \in entries, c \in Contents : Tamper(r, c)

LedgerSpec == LedgerInit /\ [][LedgerNext]_ledgerVars

-----------------------------------------------------------------------------
(* verify_chain walks the entries of a workspace by seq and stops at the   *)
(* first one that is not intact.                                           *)

Before(r, q) == q.org = r.org /\ q.seq < r.seq
Predecessor(rows, r, q) ==
    /\ q \in rows /\ Before(r, q)
    /\ \A p \in rows : Before(r, p) => p.seq <= q.seq

LinkIntact(rows, r) ==
    IF \E q \in rows : Before(r, q)
    THEN \E q \in rows : Predecessor(rows, r, q) /\ r.prev = q.hash
    ELSE r.prev = Genesis

\* Mutant: verify_chain trusts the stored hash of the payload.
Intact_StoredSha(rows, r) == LinkIntact(rows, r) /\ r.hash = Hash(r.prev, r.sha)

Intact(rows, r) ==
    /\ LinkIntact(rows, r)
    /\ r.payload = r.sha
    /\ r.hash = Hash(r.prev, r.payload)

\* However the transactions of a workspace interleave, roll back or die, the chain is linear:
\* verify_chain finds the rows that were altered behind the program's back and no others.
VerifyFindsTampering == \A r \in entries : Intact(entries, r) <=> r.seq \notin tampered

\* Nobody appends behind an entry that is already committed: a reader that has verified the
\* chain up to some seq never sees an older entry appear, change its links or go away.
AppendsAtTheEnd ==
    [][/\ \A q \in entries : \E r \in entries' :
            r.seq = q.seq /\ r.org = q.org /\ r.prev = q.prev /\ r.hash = q.hash
       /\ \A r \in entries' : (\A q \in entries : q.seq # r.seq) =>
            \A q \in entries : q.org = r.org => q.seq < r.seq]_ledgerVars
=============================================================================
