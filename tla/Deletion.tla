------------------------------ MODULE Deletion ------------------------------
(***************************************************************************)
(* What the deletion of a dataset version, a dataset, a workspace or an    *)
(* account takes with it: the rows PostgreSQL removes or empties along the *)
(* foreign keys of Schema, the stored objects a purge job removes, and     *)
(* what delete_account keeps on purpose.                                   *)
(*                                                                         *)
(* A row is <<table, home>>: one row of each table for each home it can    *)
(* belong to, a home being a version, dataset, project, workspace or user. *)
(* Which home follows from the foreign keys.  Purge jobs run at any later  *)
(* moment; what may happen in between two steps of one request is the      *)
(* subject of module Purge.                                                *)
(***************************************************************************)
EXTENDS Schema, Integers, FiniteSets

CONSTANTS
    Versions, Datasets, Projects, Orgs, Users,
    ParentOf,       \* home -> the dataset of a version, project of a dataset, org of a project
    Sibling,        \* version -> the version it is derived from or compared with
    UserOf,         \* home -> the user its rows name (creator, reviewer, owner)
    NoteBy,         \* version -> the user who wrote the notes on its cases
    CoOwned,        \* the workspaces with a second owner
    DemoOrgs        \* the workspaces with is_demo

Homes == Versions \cup Datasets \cup Projects \cup Orgs \cup Users

ASSUME DeletionAssumption ==
    /\ \A v \in Versions : ParentOf[v] \in Datasets /\ Sibling[v] \in Versions
    /\ \A d \in Datasets : ParentOf[d] \in Projects
    /\ \A p \in Projects : ParentOf[p] \in Orgs
    /\ \A h \in Homes \ Users : UserOf[h] \in Users
    /\ \A v \in Versions : NoteBy[v] \in Users
    /\ CoOwned \subseteq Orgs /\ DemoOrgs \subseteq Orgs
    /\ Versions \cap (Datasets \cup Projects \cup Orgs \cup Users) = {}
    /\ Datasets \cap (Projects \cup Orgs \cup Users) = {}
    /\ Projects \cap (Orgs \cup Users) = {}
    /\ Orgs \cap Users = {}

VARIABLES
    present,        \* the rows that exist
    objects,        \* <<kind, home>>: a key prefix under which objects are stored
    scheduled,      \* the queued PURGE_PREFIX jobs, each a set of prefixes
    active_users    \* users that are neither deleted nor pseudonymised

deletionVars == <<present, objects, scheduled, active_users>>

-----------------------------------------------------------------------------
(* Homes.                                                                  *)

OrgOf(h) ==
    CASE h \in Versions -> ParentOf[ParentOf[ParentOf[h]]]
      [] h \in Datasets -> ParentOf[ParentOf[h]]
      [] h \in Projects -> ParentOf[h]
      [] OTHER -> h

Ancestors(h) ==
    {h} \cup (IF h \in Versions THEN {ParentOf[h], ParentOf[ParentOf[h]], OrgOf(h)}
              ELSE IF h \in Datasets THEN {ParentOf[h], OrgOf(h)}
              ELSE IF h \in Projects THEN {OrgOf(h)} ELSE {})

\* The tables a table refers to, directly or not, along references that carry a deletion.
Above[t \in DOMAIN Declared] ==
    {t} \cup UNION {Above[u] : u \in Targets(Cascading(Declared, t))}

\* The level of a table: the innermost of the five that its rows cannot outlive.
HomesOf(t) ==
    IF "dataset_versions" \in Above[t] THEN Versions
    ELSE IF "datasets" \in Above[t] THEN Datasets
    ELSE IF "projects" \in Above[t] THEN Projects
    ELSE IF "organizations" \in Above[t] \/ t = "security_audit_log" THEN Orgs
    ELSE IF "users" \in Above[t] THEN Users
    ELSE {}

TableHomes == [t \in DOMAIN Declared |-> HomesOf(t)]

\* The user a row names.
NamedUser(row) ==
    IF row[2] \in Users THEN row[2]
    ELSE IF row[1] = "reviewer_notes" THEN NoteBy[row[2]]
    ELSE UserOf[row[2]]

\* The row a column refers to: of the same home or an ancestor of it, except for the columns
\* that name another version, a user, or something further down.
Referred(row, column, target) ==
    LET h == row[2]
        up == Ancestors(h) \cap TableHomes[target]
    IN <<target,
         IF TableHomes[target] = Users THEN NamedUser(row)
         ELSE IF column \in {"parent_version_id", "to_version_id", "reference_version_id",
                             "new_version_id"} THEN Sibling[h]
         ELSE IF up # {} THEN CHOOSE a \in up : TRUE
         ELSE CHOOSE a \in TableHomes[target] : h \in Ancestors(a)>>

AllRows == UNION {{<<t, h>> : h \in TableHomes[t]} : t \in DOMAIN Declared}

\* Mutant: the references of the ledger cascade like all others.
DependsOn_LedgerToo(r) ==
    {Referred(r, ref[1], ref[2]) : ref \in IF r[1] = "evidence_ledger" THEN References(Declared, r[1])
                                           ELSE Cascading(Declared, r[1])}

\* Mutant: a reference that may be empty does not cascade.
DependsOn_MustOnly(r) == {Referred(r, ref[1], ref[2]) : ref \in Declared[r[1]].must}

\* The rows whose deletion takes r along, directly; and directly or not.  A reference with
\* SET NULL is emptied instead, which no property looks at.
DependsOn(r) == {Referred(r, ref[1], ref[2]) : ref \in Cascading(Declared, r[1])}

Support[r \in AllRows] == {r} \cup UNION {Support[q] : q \in DependsOn(r)}
Supports == [r \in AllRows |-> Support[r]]

\* A DELETE of some rows with everything that cascades from it (PostgreSQL, external).
Falling(Roots) == {r \in present : Supports[r] \cap Roots # {}}
DeleteRows(Roots) == present' = present \ Falling(Roots)

-----------------------------------------------------------------------------
DeletionInit ==
    /\ present = AllRows
    /\ objects = {"version", "audit", "export", "report"} \X Versions
    /\ scheduled = {}
    /\ active_users = Users

Exists(t, h) == <<t, h>> \in present

\* Mutant: the files of the reports are forgotten.
VersionPrefixes_NoReports(vs) ==
    ({"version"} \X vs) \cup {<<"audit", v>> : v \in {w \in vs : Exists("audit_runs", w)}}
    \cup {<<"export", v>> : v \in {w \in vs : Exists("exports", w)}}

\* Mutant: the directory of the dataset stands in for that of the version.
VersionPrefixes_WholeDataset(vs) ==
    {x \in {"version"} \X Versions : \E v \in vs : ParentOf[x[2]] = ParentOf[v]}
    \cup ({"audit", "export", "report"} \X vs)

\* version_prefixes: the directory of each version, of its audits, exports and reports.
VersionPrefixes(vs) ==
    ({"version"} \X vs)
    \cup {<<"audit", v>> : v \in {w \in vs : Exists("audit_runs", w)}}
    \cup {<<"export", v>> : v \in {w \in vs : Exists("exports", w)}}
    \cup {<<"report", v>> : v \in {w \in vs : Exists("audit_runs", w)
                                              /\ Exists("audit_reports", w)}}

\* The directory of a dataset or a workspace covers whatever is stored below it.
DatasetPrefix(d) == {x \in {"version"} \X Versions : ParentOf[x[2]] = d}
OrgPrefix(o) == {x \in {"version", "audit", "export", "report"} \X Versions : OrgOf(x[2]) = o}

\* Mutant: the what-if runs are deleted by dataset.
DeleteVersion_ByDataset(v) ==
    /\ Exists("dataset_versions", v)
    /\ scheduled' = scheduled \cup {VersionPrefixes({v})}
    /\ DeleteRows({<<"dataset_versions", v>>}
                    \cup ({"what_if_runs"} \X {w \in Versions : ParentOf[w] = ParentOf[v]}))
    /\ UNCHANGED <<objects, active_users>>

\* routers/datasets.py, delete_version.
DeleteVersion(v) ==
    /\ Exists("dataset_versions", v)
    /\ scheduled' = scheduled \cup {VersionPrefixes({v})}
    /\ DeleteRows({<<"dataset_versions", v>>})
    /\ UNCHANGED <<objects, active_users>>

\* routers/datasets.py, delete_dataset.
DeleteDataset(d) ==
    LET vs == {v \in Versions : ParentOf[v] = d /\ Exists("dataset_versions", v)} IN
    /\ Exists("datasets", d)
    /\ scheduled' = scheduled \cup
          {DatasetPrefix(d) \cup {x \in VersionPrefixes(vs) : x[1] # "version"}}
    /\ DeleteRows({<<"datasets", d>>})
    /\ UNCHANGED <<objects, active_users>>

\* routers/orgs.py, delete_org, with bootstrap.delete_org_data.
DeleteOrg(o) ==
    /\ Exists("organizations", o)
    /\ scheduled' = scheduled \cup {OrgPrefix(o)}
    /\ DeleteRows({<<"organizations", o>>})
    /\ UNCHANGED <<objects, active_users>>

\* The workspaces the account is the only owner of, without the demo workspace.
SoleOwned(u) ==
    {o \in Orgs : /\ Exists("organization_members", o) /\ UserOf[o] = u
                  /\ o \notin CoOwned /\ o \notin DemoOrgs}

\* Mutant: only decisions count as authored, notes do not.
Authored_DecisionsOnly(u, left) == \E r \in left : r[1] = "human_decisions" /\ NamedUser(r) = u

Authored(u, left) ==
    \E r \in left : r[1] \in {"human_decisions", "reviewer_notes"} /\ NamedUser(r) = u

\* A user leaves all workspaces and sessions; the row itself stays or goes.
AccountRows(u) ==
    {<<"organization_members", o>> : o \in {x \in Orgs : UserOf[x] = u}}
    \cup {<<"auth_sessions", u>>}

\* delete_account: workspaces first, then the account, pseudonymised if it has reviewed
\* something that is still there.
DeleteAccount(u) ==
    LET orgs == {<<"organizations", o>> : o \in SoleOwned(u)}
        left == present \ Falling(orgs)
    IN /\ u \in active_users
       /\ scheduled' = scheduled \cup {OrgPrefix(o) : o \in SoleOwned(u)}
       /\ \/ /\ Authored(u, left)
             /\ DeleteRows(orgs \cup AccountRows(u))
          \/ /\ ~Authored(u, left)
             /\ DeleteRows(orgs \cup {<<"users", u>>})
       /\ active_users' = active_users \ {u}
       /\ UNCHANGED objects

\* run_inline or run_purge_job: everything under the prefixes, then the job is done.
RunPurge(prefixes) ==
    /\ prefixes \in scheduled
    /\ objects' = objects \ prefixes
    /\ scheduled' = scheduled \ {prefixes}
    /\ UNCHANGED <<present, active_users>>

DeletionNext ==
    \/ \E v \in Versions : DeleteVersion(v)
    \/ \E d \in Datasets : DeleteDataset(d)
    \/ \E o \in Orgs : DeleteOrg(o)
    \/ \E u \in Users : DeleteAccount(u)
    \/ \E prefixes \in scheduled : RunPurge(prefixes)

DeletionSpec == DeletionInit /\ [][DeletionNext]_deletionVars

-----------------------------------------------------------------------------
RowOf(x) ==
    <<CASE x[1] = "version" -> "dataset_versions" [] x[1] = "audit" -> "audit_runs"
        [] x[1] = "export" -> "exports" [] OTHER -> "audit_reports", x[2]>>

\* What is still there is whole, whatever was deleted in whatever order: the ledger of a
\* workspace outlives every version, dataset and account it tells of, and the security log even
\* the workspace; no reviewer's account takes decisions and notes along; and no purge removes
\* an object that a row names, be it of an exported version or of the one it was made from.
SurvivorsWhole ==
    /\ \A o \in Orgs : /\ Exists("organizations", o) => Exists("evidence_ledger", o)
                       /\ Exists("security_audit_log", o)
    /\ \A v \in Versions : Exists("dataset_versions", v) =>
        Exists("human_decisions", v) /\ Exists("reviewer_notes", v)
    /\ \A r \in present, x \in {"version", "audit", "export", "report"} \X Versions :
        r = RowOf(x) => x \in objects

\* Nothing is left that nothing refers to: no row, in any table, of a workspace that is deleted,
\* and no stored object without a row that names it or a purge job that will remove it.
NothingOrphaned ==
    /\ \A r \in present : r[2] \notin Users /\ r[1] # "security_audit_log" =>
        Exists("organizations", OrgOf(r[2]))
    /\ \A x \in objects : RowOf(x) \in present \/ \E prefixes \in scheduled : x \in prefixes

\* Deleting a version removes no row of another one, but for the results that compare two.
OtherVersionsUntouched ==
    [][\A v \in Versions : DeleteVersion(v) =>
        \A r \in present \ present' :
            r[2] = v \/ r[1] \in {"dataset_version_diffs", "contamination_checks"}]_deletionVars
=============================================================================
