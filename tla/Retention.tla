------------------------------ MODULE Retention ------------------------------
(***************************************************************************)
(* The retention sweep (services/retention.py): it deletes the archives    *)
(* that are older than their workspace's retention_days, each before the   *)
(* commit of the row that no longer names it.  Several workers may run the *)
(* maintenance at once, and any of them may fail or die on the way; the    *)
(* policy of a workspace may change under them.                            *)
(***************************************************************************)
CONSTANTS
    Archives,           \* uploads, exports and report files of workspaces with a policy
    Sweepers            \* processes that run the maintenance

ASSUME RetentionAssumption == Archives # {} /\ Sweepers # {}

VARIABLES
    archive_row,        \* the archives a committed row names
    archive_object,     \* the archives that are stored
    expired,            \* the archives older than the retention of their workspace
    due,                \* the archives each sweep has read as expired and not come to yet
    cleared,            \* the rows each sweep has cleared and not committed
    overtaken           \* archives whose retention was loosened under a sweep, or after one
                        \* that was undone had deleted them

sweepVars == <<due, cleared>>
retentionVars == <<archive_row, archive_object, expired, sweepVars, overtaken>>

RetentionInit ==
    /\ archive_row = Archives /\ archive_object = Archives /\ expired = {} /\ overtaken = {}
    /\ due = [w \in Sweepers |-> {}] /\ cleared = [w \in Sweepers |-> {}]

\* The archive is old enough, or the workspace keeps archives for a shorter time.
ExpireArchive(a) ==
    /\ a \notin expired
    /\ expired' = expired \cup {a} /\ overtaken' = overtaken \ {a}
    /\ UNCHANGED <<archive_row, archive_object, sweepVars>>

Swept(a) == a \notin archive_object \/ \E w \in Sweepers : a \in due[w] \cup cleared[w]

\* update_org: a workspace keeps its archives longer, or for ever.
LoosenRetention(some) ==
    /\ some # {} /\ some \subseteq expired
    /\ expired' = expired \ some
    /\ overtaken' = overtaken \cup {a \in some : Swept(a)}
    /\ UNCHANGED <<archive_row, archive_object, sweepVars>>

-----------------------------------------------------------------------------
\* sweep: the policies and the archives that are older than their cutoff.
StartSweep(w) ==
    /\ due[w] = {} /\ cleared[w] = {} /\ expired \cap archive_row # {}
    /\ due' = [due EXCEPT ![w] = expired \cap archive_row]
    /\ UNCHANGED <<archive_row, archive_object, expired, cleared, overtaken>>

\* Mutant: the row is cleared although the deletion of the object did not succeed.
SweepArchive_RowOnly(w, a) ==
    /\ a \in due[w]
    /\ due' = [due EXCEPT ![w] = @ \ {a}]
    /\ cleared' = [cleared EXCEPT ![w] = @ \cup {a}]
    /\ UNCHANGED <<archive_row, archive_object, expired, overtaken>>

\* The object first, whoever else has deleted it and whatever the policy is meanwhile.
SweepArchive(w, a) ==
    /\ a \in due[w]
    /\ archive_object' = archive_object \ {a}
    /\ due' = [due EXCEPT ![w] = @ \ {a}]
    /\ cleared' = [cleared EXCEPT ![w] = @ \cup {a}]
    /\ UNCHANGED <<archive_row, expired, overtaken>>

\* maintenance: one commit for all workspaces when all are done, or none after an exception or
\* the process's end.
EndSweep(w) ==
    /\ due[w] \cup cleared[w] # {}
    /\ \/ due[w] = {} /\ archive_row' = archive_row \ cleared[w]
       \/ UNCHANGED archive_row
    /\ due' = [due EXCEPT ![w] = {}] /\ cleared' = [cleared EXCEPT ![w] = {}]
    /\ UNCHANGED <<archive_object, expired, overtaken>>

RetentionNext ==
    \/ \E a \in Archives : ExpireArchive(a) \/ \E w \in Sweepers : SweepArchive(w, a)
    \/ \E some \in SUBSET Archives : LoosenRetention(some)
    \/ \E w \in Sweepers : StartSweep(w) \/ EndSweep(w)

RetentionSpec == RetentionInit /\ [][RetentionNext]_retentionVars

-----------------------------------------------------------------------------
\* Whatever two sweeps delete and roll back: an archive no row names is gone from the store, and
\* a row that names a missing archive is one the next sweep comes back to, unless the workspace
\* loosened its retention under the sweep that deleted it or before the next one.
ArchivesMatchRows ==
    /\ archive_object \subseteq archive_row
    /\ archive_row \ archive_object \subseteq expired \cup overtaken
=============================================================================
