------------------------------ MODULE Members -------------------------------
(***************************************************************************)
(* Workspaces and their members (api/routers/orgs.py, api/routers/auth.py, *)
(* services/bootstrap.py, tenancy.py).  A handler checks and then changes: *)
(* what it has read may be stale when its transaction commits, because no  *)
(* row is locked.  Contracts and audit configurations of a project are     *)
(* numbered by a maximum plus one.                                         *)
(***************************************************************************)
EXTENDS Integers, FiniteSets

CONSTANTS
    People,         \* accounts
    Tenants,        \* workspaces
    DemoPeople,     \* accounts of the public demo
    Handlers,       \* requests that may be in progress at once
    MayOverwrite,   \* whether add_member is used to change the role of a member
    MayInterleave,  \* whether a handler may start while another has checked but not committed
    MaxContracts    \* bound on the contracts of the project

ASSUME MembersAssumption ==
    /\ DemoPeople \subseteq People /\ MayOverwrite \in BOOLEAN /\ MayInterleave \in BOOLEAN
    /\ MaxContracts \in Nat

VARIABLES
    accounts,       \* active users
    tenants,           \* workspaces that exist
    founded,        \* workspaces that ever existed
    member_role,    \* organization_members: role of a user in a workspace, or "none"
    tokens,         \* workspaces with an API token of scope audits:write
    handler,        \* what each request in progress has read
    contracts,      \* versions of the project's contracts
    active_contracts \* those whose is_active is set

membersVars == <<accounts, tenants, founded, member_role, tokens, handler, contracts, active_contracts>>

Token == "token"
Rank == [none |-> 0, viewer |-> 1, reviewer |-> 2, admin |-> 3, owner |-> 4]
MemberRoles == {"viewer", "reviewer", "admin", "owner"}

Free == [kind |-> "free"]
Quiet == MayInterleave \/ \A h \in Handlers : handler[h] = Free

MembersInit ==
    /\ accounts = People
    /\ tenants = {} /\ founded = {}
    /\ member_role = [o \in Tenants |-> [u \in People |-> "none"]]
    /\ tokens = {}
    /\ handler = [h \in Handlers |-> Free]
    /\ contracts = {} /\ active_contracts = {}

-----------------------------------------------------------------------------
\* membership: a token with the scope audits:write acts as an admin of its workspace.
Membership(p, o) ==
    IF p = Token THEN IF o \in tokens THEN "admin" ELSE "none"
    ELSE IF p \in accounts THEN member_role[o][p] ELSE "none"

\* require_org, and the workspace exists.
RequireOrg(p, o, least) == o \in tenants /\ Rank[Membership(p, o)] >= Rank[least]

\* not_demo
NotDemo(p) == p \notin DemoPeople
Principals == People \cup {Token}

OwnersOf(o) == {u \in People : member_role[o][u] = "owner"}

CreateOrg(u, o) ==
    /\ Quiet /\ u \in accounts /\ NotDemo(u) /\ o \notin founded
    /\ tenants' = tenants \cup {o}
    /\ founded' = founded \cup {o}
    /\ member_role' = [member_role EXCEPT ![o][u] = "owner"]
    /\ UNCHANGED <<accounts, tokens, handler, contracts, active_contracts>>

CreateToken(u, o) ==
    /\ Quiet /\ NotDemo(u) /\ RequireOrg(u, o, "admin")
    /\ tokens' = tokens \cup {o}
    /\ UNCHANGED <<accounts, tenants, founded, member_role, handler, contracts, active_contracts>>

RevokeToken(p, o) ==
    /\ Quiet /\ NotDemo(p) /\ RequireOrg(p, o, "admin") /\ o \in tokens
    /\ tokens' = tokens \ {o}
    /\ UNCHANGED <<accounts, tenants, founded, member_role, handler, contracts, active_contracts>>

\* add_member: the role of a user who is a member already is overwritten.
AddMember(p, o, u, role) ==
    /\ Quiet /\ NotDemo(p) /\ RequireOrg(p, o, "admin") /\ u \in accounts
    /\ role = "owner" => Membership(p, o) = "owner"
    /\ member_role[o][u] = "none" \/ MayOverwrite
    /\ member_role' = [member_role EXCEPT ![o][u] = role]
    /\ UNCHANGED <<accounts, tenants, founded, tokens, handler, contracts, active_contracts>>

\* Mutant: the owners are not counted.
MayRemove_Uncounted(o, u) == member_role[o][u] # "none"

\* remove_member up to its check.
MayRemove(o, u) ==
    /\ member_role[o][u] # "none"
    /\ member_role[o][u] = "owner" => Cardinality(OwnersOf(o)) > 1

CheckRemoval(h, p, o, u) ==
    /\ Quiet /\ handler[h] = Free /\ NotDemo(p) /\ RequireOrg(p, o, "admin")
    /\ MayRemove(o, u)
    /\ handler' = [handler EXCEPT ![h] = [kind |-> "remove", org |-> o, user |-> u]]
    /\ UNCHANGED <<accounts, tenants, founded, member_role, tokens, contracts, active_contracts>>

CommitRemoval(h) ==
    /\ handler[h].kind = "remove"
    /\ member_role' = [member_role EXCEPT ![handler[h].org][handler[h].user] = "none"]
    /\ handler' = [handler EXCEPT ![h] = Free]
    /\ UNCHANGED <<accounts, tenants, founded, tokens, contracts, active_contracts>>

Without(gone) == [o \in Tenants |-> IF o \in gone THEN [u \in People |-> "none"] ELSE member_role[o]]

DissolveOrg(u, o) ==
    /\ Quiet /\ NotDemo(u) /\ RequireOrg(u, o, "owner")
    /\ tenants' = tenants \ {o}
    /\ member_role' = Without({o})
    /\ tokens' = tokens \ {o}
    /\ UNCHANGED <<accounts, founded, handler, contracts, active_contracts>>

\* Mutant: a workspace is kept if it has any other member.
Orphaned_AnyMember(u) ==
    {o \in tenants : u \in OwnersOf(o) /\ \A v \in People \ {u} : member_role[o][v] = "none"}

\* delete_account: the workspaces whose only owner is the user.
Orphaned(u) == {o \in tenants : OwnersOf(o) = {u}}

CountOtherOwners(h, u) ==
    /\ Quiet /\ handler[h] = Free /\ u \in accounts
    /\ handler' = [handler EXCEPT ![h] = [kind |-> "leave", user |-> u, gone |-> Orphaned(u)]]
    /\ UNCHANGED <<accounts, tenants, founded, member_role, tokens, contracts, active_contracts>>

\* The account goes, or is made anonymous and inactive; its memberships go either way.
CommitAccountDeletion(h) ==
    /\ handler[h].kind = "leave"
    /\ accounts' = accounts \ {handler[h].user}
    /\ tenants' = tenants \ handler[h].gone
    /\ member_role' = [o \in Tenants |-> [Without(handler[h].gone)[o] EXCEPT ![handler[h].user] = "none"]]
    /\ tokens' = tokens \ handler[h].gone
    /\ handler' = [handler EXCEPT ![h] = Free]
    /\ UNCHANGED <<founded, contracts, active_contracts>>

-----------------------------------------------------------------------------
(* Contracts of one project; put_audit_config numbers its rows alike. *)

Newest(versions) == CHOOSE n \in versions \cup {0} : \A k \in versions : k <= n

\* put_contract: the contracts that are active now will be switched off.
ReadActive(h) ==
    /\ handler[h] = Free
    /\ handler' = [handler EXCEPT ![h] = [kind |-> "contract", off |-> active_contracts]]
    /\ UNCHANGED <<accounts, tenants, founded, member_role, tokens, contracts, active_contracts>>

NumberContract(h) ==
    /\ handler[h].kind = "contract" /\ Newest(contracts) < MaxContracts
    /\ handler' = [handler EXCEPT ![h] =
                    [kind |-> "numbered", off |-> handler[h].off, n |-> Newest(contracts) + 1]]
    /\ UNCHANGED <<accounts, tenants, founded, member_role, tokens, contracts, active_contracts>>

\* The number is unique in the project: the second of two handlers with one number fails.
CommitContract(h) ==
    /\ handler[h].kind = "numbered"
    /\ \/ /\ handler[h].n \in contracts
          /\ UNCHANGED <<contracts, active_contracts>>
       \/ /\ handler[h].n \notin contracts
          /\ contracts' = contracts \cup {handler[h].n}
          /\ active_contracts' = (active_contracts \ handler[h].off) \cup {handler[h].n}
    /\ handler' = [handler EXCEPT ![h] = Free]
    /\ UNCHANGED <<accounts, tenants, founded, member_role, tokens>>

\* Mutant: the active contract is the first the database returns.
ActiveContracts_Any == active_contracts

\* The contract that the preflight, the preview and the export of a project use.
ActiveContracts == {n \in active_contracts : \A k \in active_contracts : k <= n}

MembersNext ==
    \/ \E o \in Tenants :
        \/ \E u \in People : CreateOrg(u, o) \/ CreateToken(u, o) \/ DissolveOrg(u, o)
        \/ \E p \in Principals : RevokeToken(p, o)
        \/ \E p \in Principals, u \in People, role \in MemberRoles : AddMember(p, o, u, role)
        \/ \E h \in Handlers, p \in Principals, u \in People : CheckRemoval(h, p, o, u)
    \/ \E h \in Handlers :
        \/ CommitRemoval(h)
        \/ \E u \in People : CountOtherOwners(h, u)
        \/ CommitAccountDeletion(h)
        \/ ReadActive(h) \/ NumberContract(h) \/ CommitContract(h)

MembersSpec == MembersInit /\ [][MembersNext]_membersVars

-----------------------------------------------------------------------------
(* Properties *)

\* "cannot remove the last owner", and a workspace goes with its only owner: as long as a
\* workspace exists, somebody owns it.
EveryOrgOwned == \A o \in tenants : OwnersOf(o) # {}

\* Two contracts may be active, but everybody uses the newest one, which is the one committed
\* last: no put is undone by another that read before it.
NewestContractCounts == contracts # {} => ActiveContracts = {Newest(contracts)}
=============================================================================
