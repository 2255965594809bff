---------------------------- MODULE Memberships ----------------------------
(***************************************************************************)
(* The memberships of one ordinary user of the identity service            *)
(* (modules/memberships, roles.controller) and the access tokens that      *)
(* carry them (modules/auth).  A membership is removed by its status and   *)
(* restored by create(); assignRole removes and creates it again, each a   *)
(* request's worth of queries.  save() compares the copy with the row and  *)
(* updates what differs, in two statements.                                *)
(***************************************************************************)
EXTENDS Naturals

CONSTANTS
    Tenants,
    Roles,          \* ids of existing roles
    UnknownRole,    \* a role id that names no role
    None,           \* null
    Requests,       \* the requests that may be in flight at once
    MaxOps,         \* bound: changes of memberships
    MaxFaults       \* bound: failing calls and crashes

ASSUME MembershipsAssumption ==
    /\ Tenants # {}
    /\ UnknownRole \notin Roles /\ None \notin Tenants \cup Roles \cup {UnknownRole}
    /\ MaxOps \in Nat /\ MaxFaults \in Nat

VARIABLES
    member,       \* table memberships: the user's row for each tenant
    live,         \* the access tokens that have not expired: their claims
    req,          \* the requests
    ops,          \* changes begun
    faults,       \* faults so far
    want,         \* history: the rows if every request had been one step
    removals,     \* history: tenants for which a request asked for status removed
    disturbed,    \* history: tenants with a role assignment that failed on its role
    overlap       \* history: two changes were in flight at once

vars == <<member, live, req, ops, faults, want, removals, disturbed, overlap>>

\* The enum membership_status; "invited" stands for suspended as well, and "none" for no row.
Stored == {"active", "invited", "removed"}
Statuses == {"none"} \cup Stored
\* The status of a POST is any string, "unknown" one that is not in the enum.
Asked == Stored \cup {"unknown"}
Row == [status : Statuses, role : Roles \cup {None}]
NoRow == [status |-> "none", role |-> None]
Claims == [tenant : Tenants \cup {None}, role : Roles \cup {None}]
Request == [pc : {"idle", "assign", "remove", "create", "role", "insert", "compare", "write",
                  "sign"},
            tenant : Tenants, role : Roles \cup {UnknownRole},
            status : Asked, next : {"idle", "create"},
            copy : Row, dirty : SUBSET {"status", "role"}, claims : Claims]
ATenant == CHOOSE t \in Tenants : TRUE
Idle == [pc |-> "idle", tenant |-> ATenant, role |-> UnknownRole, status |-> "active",
         next |-> "idle", copy |-> NoRow, dirty |-> {},
         claims |-> [tenant |-> None, role |-> None]]

Init ==
    /\ member \in [Tenants -> {NoRow} \cup [status : Stored, role : Roles]]
    /\ live = {}
    /\ req = [r \in Requests |-> Idle]
    /\ ops = 0 /\ faults = 0
    /\ want = member
    /\ removals = {t \in Tenants : member[t].status = "removed"}
    /\ disturbed = {} /\ overlap = FALSE

At(r, pc) == req[r].pc = pc
Changing(r) == req[r].pc \notin {"idle", "sign"}
Finish(r) == req' = [req EXCEPT ![r] = Idle]
RowOf(r) == member[req[r].tenant]

\* A request to change the membership in t arrives; row is what it is to leave behind.
Begin(r, pc, t, role, status, row) ==
    /\ At(r, "idle") /\ ops < MaxOps
    /\ ops' = ops + 1
    /\ overlap' = (overlap \/ \E q \in Requests : Changing(q))
    /\ req' = [req EXCEPT ![r] = [Idle EXCEPT !.pc = pc, !.tenant = t, !.role = role,
                                              !.status = status]]
    /\ want' = [want EXCEPT ![t] = row]
    /\ UNCHANGED <<member, live, faults>>

-----------------------------------------------------------------------------
(* membershipsService.remove.                                              *)

Remove(r, t) ==
    LET w == want[t]
    IN  /\ Begin(r, "remove", t, UnknownRole, "active",
                 IF w.status = "none" THEN w ELSE [w EXCEPT !.status = "removed"])
        /\ removals' = removals \cup {t}
        /\ UNCHANGED disturbed

\* The row is found, or the request ends with 404.
RemoveFind(r) ==
    /\ At(r, "remove")
    /\ IF RowOf(r).status = "none"
         THEN Finish(r)
         ELSE req' = [req EXCEPT ![r].pc = "compare",
                                 ![r].copy = [RowOf(r) EXCEPT !.status = "removed"]]
    /\ UNCHANGED <<member, live, ops, faults, want, removals, disturbed, overlap>>

-----------------------------------------------------------------------------
(* membershipsService.create.                                              *)

Create(r, t, role, status) ==
    /\ Begin(r, "create", t, role, status,
             IF want[t].status \in {"none", "removed"} /\ role \in Roles /\ status \in Stored
               THEN [status |-> status, role |-> role] ELSE want[t])
    /\ removals' = IF status = "removed" THEN removals \cup {t} ELSE removals
    /\ UNCHANGED disturbed

CreateFind(r) ==
    /\ At(r, "create")
    /\ req' = [req EXCEPT ![r].pc = "role", ![r].copy = RowOf(r), ![r].next = "idle"]
    /\ UNCHANGED <<member, live, ops, faults, want, removals, disturbed, overlap>>

\* Mutant: a removed membership is a conflict too.
CreateRoleNoRestore(r) ==
    /\ At(r, "role")
    /\ IF req[r].role \notin Roles \/ req[r].copy.status # "none"
         THEN Finish(r)
         ELSE req' = [req EXCEPT ![r].pc = "insert"]
    /\ UNCHANGED <<member, live, ops, faults, want, removals, disturbed, overlap>>

\* An unknown role ends the request with 404, a membership that is not removed with 409,
\* and a status that the column's type does not have with the save that it refuses.
CreateRole(r) ==
    LET q == req[r]
    IN  /\ At(r, "role")
        /\ IF \/ q.role \notin Roles \/ q.copy.status \in {"active", "invited"}
              \/ q.status \notin Stored
             THEN Finish(r)
             ELSE req' = [req EXCEPT
                            ![r].pc = IF q.copy.status = "none" THEN "insert" ELSE "compare",
                            ![r].copy = [status |-> q.status, role |-> q.role]]
        /\ UNCHANGED <<member, live, ops, faults, want, removals, disturbed, overlap>>

\* The unique key of user and tenant refuses a second row.
CreateInsert(r) ==
    LET t == req[r].tenant
    IN  /\ At(r, "insert")
        /\ member' = IF member[t].status = "none" THEN [member EXCEPT ![t] = req[r].copy]
                                                  ELSE member
        /\ Finish(r)
        /\ UNCHANGED <<live, ops, faults, want, removals, disturbed, overlap>>

-----------------------------------------------------------------------------
(* rolesController.assignRole: remove what is there, then create.          *)

AssignRole(r, t, role) ==
    /\ Begin(r, "assign", t, role, "active",
             IF role \in Roles THEN [status |-> "active", role |-> role] ELSE want[t])
    /\ disturbed' = IF role \in Roles THEN disturbed ELSE disturbed \cup {t}
    /\ UNCHANGED removals

AssignFind(r) ==
    /\ At(r, "assign")
    /\ req' = [req EXCEPT ![r].pc = IF RowOf(r).status = "none" THEN "create" ELSE "remove",
                          ![r].next = "create"]
    /\ UNCHANGED <<member, live, ops, faults, want, removals, disturbed, overlap>>

-----------------------------------------------------------------------------
(* save().                                                                 *)

Compare(r) ==
    /\ At(r, "compare")
    /\ req' = [req EXCEPT ![r].pc = "write",
                  ![r].dirty = {col \in {"status", "role"} : req[r].copy[col] # RowOf(r)[col]}]
    /\ UNCHANGED <<member, live, ops, faults, want, removals, disturbed, overlap>>

Write(r) ==
    LET q == req[r]
    IN  /\ At(r, "write")
        /\ member' = [member EXCEPT ![q.tenant] =
                        [col \in {"status", "role"} |->
                            IF col \in q.dirty THEN q.copy[col] ELSE RowOf(r)[col]]]
        /\ IF q.next = "idle" THEN Finish(r) ELSE req' = [req EXCEPT ![r].pc = q.next]
        /\ UNCHANGED <<live, ops, faults, want, removals, disturbed, overlap>>

-----------------------------------------------------------------------------
(* Access tokens.                                                          *)

Read(r, claims) ==
    /\ At(r, "idle")
    /\ req' = [req EXCEPT ![r] = [Idle EXCEPT !.pc = "sign", !.claims = claims]]
    /\ UNCHANGED <<member, live, ops, faults, want, removals, disturbed, overlap>>

\* login and refresh: one of the active memberships, or no tenant.
ReadPrimary(r) ==
    LET actives == {t \in Tenants : member[t].status = "active"}
    IN  IF actives = {} THEN Read(r, [tenant |-> None, role |-> None])
                        ELSE \E t \in actives : Read(r, [tenant |-> t, role |-> member[t].role])

\* switchTenant: any row of the user in t.
SwitchTenant(r, t) ==
    /\ member[t].status # "none"
    /\ Read(r, [tenant |-> t, role |-> member[t].role])

\* The token is signed from what was read.
Sign(r) ==
    /\ At(r, "sign")
    /\ live' = live \cup {req[r].claims}
    /\ Finish(r)
    /\ UNCHANGED <<member, ops, faults, want, removals, disturbed, overlap>>

\* Mutant: tokens are signed without an expiry.
TokenNeverExpires(c) == FALSE /\ c \in live /\ UNCHANGED vars

\* The last token with these claims reaches its end, fifteen minutes after it was signed.
TokenExpires(c) ==
    /\ c \in live
    /\ live' = live \ {c}
    /\ UNCHANGED <<member, req, ops, faults, want, removals, disturbed, overlap>>

\* A call fails or the process dies.
Abort(r) ==
    /\ ~At(r, "idle") /\ faults < MaxFaults
    /\ faults' = faults + 1
    /\ Finish(r)
    /\ UNCHANGED <<member, live, ops, want, removals, disturbed, overlap>>

-----------------------------------------------------------------------------
Step(r) ==
    \/ RemoveFind(r) \/ CreateFind(r) \/ CreateRole(r) \/ CreateInsert(r) \/ AssignFind(r)
    \/ Compare(r) \/ Write(r) \/ Sign(r)

Next ==
    \/ \E r \in Requests :
          \/ Step(r) \/ Abort(r) \/ ReadPrimary(r)
          \/ \E t \in Tenants :
                \/ SwitchTenant(r, t) \/ Remove(r, t)
                \/ \E role \in Roles \cup {UnknownRole} :
                      \/ AssignRole(r, t, role)
                      \/ \E status \in Asked : Create(r, t, role, status)
    \/ \E c \in live : TokenExpires(c)

\* Handlers run on to their end and tokens expire.
Fairness ==
    /\ \A r \in Requests : WF_vars(Step(r))
    /\ \A c \in Claims : WF_vars(TokenExpires(c))

Spec == Init /\ [][Next]_vars /\ Fairness

-----------------------------------------------------------------------------
(* Properties.                                                             *)

MembershipsTypeOK ==
    /\ member \in [Tenants -> Row] /\ want \in [Tenants -> Row]
    /\ live \subseteq Claims
    /\ req \in [Requests -> Request]
    /\ ops \in Nat /\ faults \in Nat
    /\ removals \subseteq Tenants /\ disturbed \subseteq Tenants /\ overlap \in BOOLEAN

Quiet == \A r \in Requests : ~Changing(r)

\* One at a time and without failures, the queries of create, remove and assignRole add
\* up to the change they stand for, unless a role assignment named an unknown role:
\* assignRole removes the membership before create finds that out.
ChangesAsOne ==
    Quiet /\ ~overlap /\ faults = 0 =>
        \A t \in Tenants \ disturbed : member[t] = want[t]

\* However role assignments and creations overlap, a member is still one when they are
\* over unless a request asked for the status removed, by DELETE or in a POST, or a role
\* assignment failed half-way.
MemberStays ==
    Quiet /\ faults = 0 =>
        \A t \in Tenants \ (removals \cup disturbed) : member[t].status # "removed"

\* When changes are over, every token that is still accepted carries the role that the
\* table has: refresh, login and switchTenant read it, and older tokens run out.
TokensCatchUp ==
    <>[](\A c \in live : c.tenant # None => c.role = member[c.tenant].role)

\* The types, and that changes of memberships have their effect and no other.
MembershipsInv == MembershipsTypeOK /\ ChangesAsOne /\ MemberStays

=============================================================================
