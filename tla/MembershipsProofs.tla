-------------------------- MODULE MembershipsProofs --------------------------
(***************************************************************************)
(* Changes of a user's memberships, for any tenants, roles, requests and   *)
(* faults: one at a time they have the effect they stand for, and however  *)
(* they overlap, a member whom no request is to remove stays one.          *)
(***************************************************************************)
EXTENDS Memberships, TLAPS

-----------------------------------------------------------------------------
(* The inductive invariant.                                                *)

Saves(q) == q.pc \in {"compare", "write"}
\* A request of assignRole that has not yet come to the queries of create.
Assigns(q) ==
    \/ q.pc = "assign"
    \/ q.pc \in {"remove", "compare", "write", "create"} /\ q.next = "create"

\* What a request carries from query to query.
Carries(q) ==
    /\ Assigns(q) => q.role \in Roles \/ q.tenant \in disturbed
    /\ Assigns(q) => q.status = "active"
    /\ q.pc = "remove" /\ q.next = "idle" => q.tenant \in removals
    /\ Saves(q) => q.copy.status # "none"
    /\ Saves(q) /\ q.next = "create" => q.copy.status = "removed"
    /\ Saves(q) /\ q.copy.status = "removed" => q.next = "create" \/ q.tenant \in removals
    /\ q.pc \in {"create", "role"} /\ q.status = "removed" => q.tenant \in removals
    /\ q.pc = "insert" => q.copy.status # "none"
    /\ q.pc = "insert" /\ q.copy.status = "removed" => q.tenant \in removals
    /\ q.pc \in {"role", "insert"} => q.next = "idle"
Carried == \A r \in Requests : Carries(req[r])

\* A request that, with the row removed, goes on to restore it.
Restores(q) ==
    /\ q.role \in Roles
    /\ \/ Assigns(q)
       \/ q.pc = "create" /\ q.status \in Stored
       \/ q.pc = "role" /\ q.copy.status = "removed" /\ q.status \in Stored
       \/ q.pc = "compare" /\ q.copy.status # "removed"
       \/ q.pc = "write" /\ q.copy.status # "removed" /\ "status" \in q.dirty

\* A row that only role assignments removed has a request that is to restore it.
Restored ==
    faults = 0 => \A t \in Tenants \ (removals \cup disturbed) :
        member[t].status = "removed" => \E r \in Requests : req[r].tenant = t /\ Restores(req[r])

\* Alone means alone.
Single == ~overlap => \A r, q \in Requests : Changing(r) /\ Changing(q) => r = q

\* What create makes of the row m.
Created(q, m) ==
    IF m.status \in {"none", "removed"} /\ q.role \in Roles /\ q.status \in Stored
      THEN [status |-> q.status, role |-> q.role] ELSE m
\* What create and assignRole make of it in the end.
Assigned(q) == [status |-> "active", role |-> q.role]
\* Request q, alone, is taking the row m to w.
Heading(q, m, w) ==
    /\ q.pc = "assign" => w = Assigned(q)
    /\ q.pc = "remove" /\ q.next = "idle" =>
          w = IF m.status = "none" THEN m ELSE [m EXCEPT !.status = "removed"]
    /\ q.pc = "remove" /\ q.next = "create" => w = Assigned(q) /\ m.status # "none"
    /\ q.pc = "create" => w = Created(q, m)
    /\ q.pc = "role" => w = Created(q, m) /\ q.copy = m
    /\ q.pc = "insert" => w = q.copy /\ m.status = "none"
    /\ Saves(q) /\ q.next = "idle" => w = q.copy
    /\ Saves(q) /\ q.next = "create" => w = Assigned(q)
    /\ q.pc = "write" => \A col \in {"status", "role"} \ q.dirty : q.copy[col] = m[col]

\* One at a time, a row is what it should be unless the one request is at work on it, and
\* that one is taking it there.
OnTheWay ==
    ~overlap /\ faults = 0 => \A t \in Tenants \ disturbed :
        \/ member[t] = want[t]
        \/ \E r \in Requests : Changing(r) /\ req[r].tenant = t
Headed ==
    ~overlap /\ faults = 0 => \A r \in Requests :
        Changing(r) /\ req[r].tenant \notin disturbed =>
            Heading(req[r], member[req[r].tenant], want[req[r].tenant])

MemberInv == MembershipsTypeOK /\ Carried /\ Restored /\ Single /\ OnTheWay /\ Headed

-----------------------------------------------------------------------------
(* Records.                                                                *)

\* The record of a request that is not in flight.
LEMMA IdleType ==
    /\ Idle \in Request /\ Idle.pc = "idle" /\ Idle.next = "idle"
    /\ NoRow \in Row /\ NoRow.status = "none"
  <1>1. ATenant \in Tenants
    BY MembershipsAssumption DEF ATenant
  <1> QED
    BY <1>1 DEF Idle, Request, NoRow, Row, Statuses, Stored, Asked, Claims

Pcs == {"idle", "assign", "remove", "create", "role", "insert", "compare", "write", "sign"}

\* A request goes on: to its next query, with what it read, and with what differs.
LEMMA MoveType ==
    ASSUME NEW q \in Request
    PROVE  /\ \A pc \in Pcs : [q EXCEPT !.pc = pc] \in Request
           /\ \A copy \in Row : [q EXCEPT !.copy = copy] \in Request
           /\ \A next \in {"idle", "create"} : [q EXCEPT !.next = next] \in Request
           /\ \A dirty \in SUBSET {"status", "role"} : [q EXCEPT !.dirty = dirty] \in Request
  BY DEF Request, Pcs

\* The statuses of requests and rows.
LEMMA FieldType ==
    ASSUME NEW q \in Request
    PROVE  /\ q.pc \in Pcs /\ q.tenant \in Tenants /\ q.role \in Roles \cup {UnknownRole}
           /\ q.status \in Asked /\ q.next \in {"idle", "create"}
           /\ q.copy \in Row /\ q.dirty \subseteq {"status", "role"} /\ q.claims \in Claims
           /\ q.copy.status \in Statuses
  BY DEF Request, Pcs, Row

\* Rows that are written and made.
LEMMA RowType ==
    ASSUME NEW m \in Row
    PROVE  /\ [m EXCEPT !.status = "removed"] \in Row
           /\ [m EXCEPT !.status = "removed"].status = "removed"
           /\ \A s \in Stored, role \in Roles :
                 [status |-> s, role |-> role] \in Row
  BY DEF Row, Statuses, Stored

\* An update of the columns that differed.
LEMMA Updated ==
    ASSUME NEW m \in Row, NEW c \in Row, NEW dirty, NEW new,
           new = [col \in {"status", "role"} |-> IF col \in dirty THEN c[col] ELSE m[col]]
    PROVE  /\ new \in Row
           /\ new.status = IF "status" \in dirty THEN c.status ELSE m.status
           /\ (\A col \in {"status", "role"} \ dirty : c[col] = m[col]) => new = c
  <1>1. /\ new \in Row
        /\ new.status = IF "status" \in dirty THEN c.status ELSE m.status
        /\ new.role = IF "role" \in dirty THEN c.role ELSE m.role
    BY DEF Row
  <1>2. ASSUME \A col \in {"status", "role"} \ dirty : c[col] = m[col]
        PROVE  new = c
    <2>1. new.status = c.status /\ new.role = c.role
      BY <1>1, <1>2
    <2> QED
      BY <1>1, <2>1 DEF Row
  <1> QED
    BY <1>1, <1>2

-----------------------------------------------------------------------------
(* The queries of a request.                                               *)

\* A request of a change takes one step and leaves row behind.
LEMMA Stepped ==
    ASSUME MemberInv, NEW r \in Requests, NEW new \in Request, NEW row \in Row,
           NEW t \in Tenants, t = req[r].tenant, Changing(r),
           req' = [req EXCEPT ![r] = new], member' = [member EXCEPT ![t] = row],
           UNCHANGED <<live, ops, faults, want, removals, disturbed, overlap>>,
           new.pc # "idle" => new.tenant = t,
           new.pc # "sign", Carries(new),
           row.status = "removed" /\ t \notin removals \cup disturbed =>
               \/ new.tenant = t /\ Restores(new)
               \/ member[t].status = "removed" /\ ~Restores(req[r]),
           t \notin disturbed /\ Heading(req[r], member[t], want[t]) =>
               IF new.pc = "idle" THEN row = want[t] ELSE Heading(new, row, want[t])
    PROVE  MemberInv'
  <1>0. /\ member \in [Tenants -> Row] /\ req \in [Requests -> Request]
        /\ want \in [Tenants -> Row]
    BY DEF MemberInv, MembershipsTypeOK
  <1>1. /\ req'[r] = new /\ \A q \in Requests \ {r} : req'[q] = req[q]
        /\ member'[t] = row /\ \A u \in Tenants \ {t} : member'[u] = member[u]
        /\ req' \in [Requests -> Request] /\ member' \in [Tenants -> Row]
    BY <1>0
  <1>2. MembershipsTypeOK'
    <2>1. overlap' \in BOOLEAN
      BY Zenon DEF MemberInv, MembershipsTypeOK
    <2> QED
      BY <1>1, <2>1 DEF MemberInv, MembershipsTypeOK
  <1>3. \A q \in Requests : Changing(q)' => Changing(q)
    BY <1>1 DEF Changing
  <1>4. Carried'
    BY <1>1 DEF MemberInv, Carried, Carries
  <1>5. Single'
    BY <1>3 DEF MemberInv, Single
  <1>6. Restored'
    <2> SUFFICES ASSUME faults = 0, NEW u \in Tenants \ (removals \cup disturbed),
                        member'[u].status = "removed"
                 PROVE  \E q \in Requests : req'[q].tenant = u /\ Restores(req'[q])
      BY DEF Restored, Restores, Assigns
    <2>1. CASE u = t /\ new.tenant = t /\ Restores(new)
      BY <1>1, <2>1
    <2>2. CASE u = t /\ member[t].status = "removed" /\ ~Restores(req[r])
      <3>1. PICK q \in Requests : req[q].tenant = u /\ Restores(req[q])
        BY <2>2 DEF MemberInv, Restored
      <3>2. req'[q] = req[q]
        BY <1>1, <2>2, <3>1
      <3> QED
        BY <3>1, <3>2
    <2>3. CASE u # t
      <3>1. PICK q \in Requests : req[q].tenant = u /\ Restores(req[q])
        BY <1>1, <2>3 DEF MemberInv, Restored
      <3>2. req'[q] = req[q]
        BY <1>1, <2>3, <3>1
      <3> QED
        BY <3>1, <3>2
    <2> QED
      BY <1>1, <2>1, <2>2, <2>3
  <1>7. OnTheWay'
    <2> SUFFICES ASSUME ~overlap, faults = 0, NEW u \in Tenants \ disturbed
                 PROVE  \/ member'[u] = want[u]
                        \/ \E q \in Requests : Changing(q)' /\ req'[q].tenant = u
      BY DEF OnTheWay
    <2>1. CASE u # t
      <3>1. \A q \in Requests : Changing(q) => q = r
        BY DEF MemberInv, Single
      <3> QED
        BY <1>1, <2>1, <3>1 DEF MemberInv, OnTheWay
    <2>2. CASE u = t /\ new.pc = "idle"
      BY <1>1, <2>2 DEF MemberInv, Headed
    <2>3. CASE u = t /\ new.pc # "idle"
      BY <1>1, <2>3 DEF Changing
    <2> QED
      BY <2>1, <2>2, <2>3
  <1>8. Headed'
    <2> SUFFICES ASSUME ~overlap, faults = 0, NEW q \in Requests, Changing(q)',
                        req'[q].tenant \notin disturbed
                 PROVE  Heading(req'[q], member'[req'[q].tenant], want[req'[q].tenant])
      BY DEF Headed, Heading, Created, Assigned, Saves
    <2>1. q = r
      BY <1>3 DEF MemberInv, Single
    <2>2. new.pc # "idle" /\ new.tenant = t /\ Heading(new, row, want[t])
      BY <1>1, <2>1 DEF Changing, MemberInv, Headed
    <2> QED
      BY <1>1, <2>1, <2>2
  <1> QED
    BY <1>2, <1>4, <1>5, <1>6, <1>7, <1>8 DEF MemberInv

\* What a step finds: the request, its tenant's row and what it carries.
LEMMA Found ==
    ASSUME MemberInv, NEW r \in Requests
    PROVE  \E q \in Request, t \in Tenants, m \in Row :
              /\ q = req[r] /\ t = q.tenant /\ m = member[t] /\ Carries(q)
              /\ RowOf(r) = m /\ member = [member EXCEPT ![t] = m]
  BY DEF MemberInv, MembershipsTypeOK, Carried, RowOf, Request

\* remove finds the row, or ends with 404.
LEMMA RemoveFindInv ==
    ASSUME MemberInv, NEW r \in Requests, RemoveFind(r)
    PROVE  MemberInv'
  <1>1. PICK q \in Request, t \in Tenants, m \in Row :
          /\ q = req[r] /\ t = q.tenant /\ m = member[t] /\ Carries(q)
          /\ RowOf(r) = m /\ member = [member EXCEPT ![t] = m]
    BY Found
  <1>2. /\ q.pc = "remove" /\ member' = [member EXCEPT ![t] = m] /\ Changing(r)
        /\ UNCHANGED <<live, ops, faults, want, removals, disturbed, overlap>>
    BY <1>1 DEF RemoveFind, At, Changing
  <1>3. q.next \in {"idle", "create"}
    BY FieldType
  <1>4. CASE m.status = "none"
    <2>1. req' = [req EXCEPT ![r] = Idle]
      BY <1>1, <1>4 DEF RemoveFind, Finish
    <2>2. Carries(Idle)
      BY IdleType DEF Carries, Assigns, Saves
    <2>3. Heading(q, m, want[t]) => m = want[t]
      BY <1>2, <1>3, <1>4 DEF Heading
    <2> QED
      BY <1>1, <1>2, <1>4, <2>1, <2>2, <2>3, IdleType, Stepped
  <1>5. CASE m.status # "none"
    <2> DEFINE c == [m EXCEPT !.status = "removed"]
               q1 == [q EXCEPT !.pc = "compare"]
               new == [q1 EXCEPT !.copy = c]
    <2>1. c \in Row /\ c.status = "removed"
      BY RowType
    <2>2. req' = [req EXCEPT ![r] = new]
      BY <1>1, <1>5 DEF RemoveFind
    <2>a. Heading(q, m, want[t]) /\ q.next = "idle" => want[t] = c
      BY <1>2, <1>5 DEF Heading
    <2> HIDE DEF c
    <2>3. q1 \in Request
      BY MoveType DEF Pcs
    <2>4. new \in Request /\ new.pc = "compare" /\ new.copy = c /\ new.next = q.next
          /\ new.tenant = q.tenant /\ new.role = q.role /\ new.status = q.status
      <3>1. new.pc = "compare" /\ new.copy = c /\ new.next = q.next
            /\ new.tenant = q.tenant /\ new.role = q.role /\ new.status = q.status
        BY DEF Request
      <3> HIDE DEF q1
      <3> QED
        BY <2>1, <2>3, <3>1, MoveType
    <2> HIDE DEF new
    <2>5. Carries(new)
      BY <1>1, <1>2, <1>3, <2>1, <2>4 DEF Carries, Assigns, Saves
    <2>6. Restores(q) => Restores(new)
      BY <1>2, <2>4 DEF Restores, Assigns
    <2>7. Heading(q, m, want[t]) => Heading(new, m, want[t])
      BY <1>2, <1>3, <2>a, <2>4 DEF Heading, Saves, Assigned
    <2> QED
      BY <1>1, <1>2, <2>2, <2>4, <2>5, <2>6, <2>7, Stepped
  <1> QED
    BY <1>4, <1>5

\* assignRole removes what it finds.
LEMMA AssignFindInv ==
    ASSUME MemberInv, NEW r \in Requests, AssignFind(r)
    PROVE  MemberInv'
  <1>1. PICK q \in Request, t \in Tenants, m \in Row :
          /\ q = req[r] /\ t = q.tenant /\ m = member[t] /\ Carries(q)
          /\ RowOf(r) = m /\ member = [member EXCEPT ![t] = m]
    BY Found
  <1>2. /\ q.pc = "assign" /\ member' = [member EXCEPT ![t] = m] /\ Changing(r)
        /\ UNCHANGED <<live, ops, faults, want, removals, disturbed, overlap>>
    BY <1>1 DEF AssignFind, At, Changing
  <1>3. PICK pc \in {"create", "remove"} : pc = IF m.status = "none" THEN "create" ELSE "remove"
    OBVIOUS
  <1> DEFINE q1 == [q EXCEPT !.pc = pc]
             new == [q1 EXCEPT !.next = "create"]
  <1>4. req' = [req EXCEPT ![r] = new]
    BY <1>1, <1>3 DEF AssignFind
  <1>5. q1 \in Request
    BY MoveType DEF Pcs
  <1>6. new \in Request /\ new.pc = pc /\ new.next = "create"
        /\ new.tenant = q.tenant /\ new.role = q.role /\ new.status = q.status
    <2>1. new.pc = pc /\ new.next = "create"
          /\ new.tenant = q.tenant /\ new.role = q.role /\ new.status = q.status
      BY DEF Request
    <2> HIDE DEF q1
    <2> QED
      BY <1>5, <2>1, MoveType
  <1> HIDE DEF new
  <1>7. Carries(new)
    BY <1>1, <1>2, <1>6 DEF Carries, Assigns, Saves
  <1>8. Restores(q) => Restores(new)
    BY <1>2, <1>6 DEF Restores, Assigns
  <1>9. t \notin disturbed /\ Heading(q, m, want[t]) => Heading(new, m, want[t])
    <2> SUFFICES ASSUME t \notin disturbed, Heading(q, m, want[t])
                 PROVE  Heading(new, m, want[t])
      OBVIOUS
    <2>1. want[t] = Assigned(q) /\ q.role \in Roles /\ q.status = "active"
      BY <1>1, <1>2 DEF Heading, Carries, Assigns
    <2>2. Assigned(new) = Assigned(q)
      BY <1>6 DEF Assigned
    <2>3. m.status = "none" => Created(new, m) = Assigned(q)
      BY <1>6, <2>1 DEF Created, Assigned, Stored
    <2> QED
      BY <1>3, <1>6, <2>1, <2>2, <2>3 DEF Heading, Saves
  <1> QED
    BY <1>1, <1>2, <1>3, <1>4, <1>6, <1>7, <1>8, <1>9, Stepped

\* create reads the row,
LEMMA CreateFindInv ==
    ASSUME MemberInv, NEW r \in Requests, CreateFind(r)
    PROVE  MemberInv'
  <1>1. PICK q \in Request, t \in Tenants, m \in Row :
          /\ q = req[r] /\ t = q.tenant /\ m = member[t] /\ Carries(q)
          /\ RowOf(r) = m /\ member = [member EXCEPT ![t] = m]
    BY Found
  <1>2. /\ q.pc = "create" /\ member' = [member EXCEPT ![t] = m] /\ Changing(r)
        /\ UNCHANGED <<live, ops, faults, want, removals, disturbed, overlap>>
    BY <1>1 DEF CreateFind, At, Changing
  <1> DEFINE q1 == [q EXCEPT !.pc = "role"]
             q2 == [q1 EXCEPT !.copy = m]
             new == [q2 EXCEPT !.next = "idle"]
  <1>4. req' = [req EXCEPT ![r] = new]
    BY <1>1 DEF CreateFind
  <1>5. new.pc = "role" /\ new.next = "idle" /\ new.copy = m
        /\ new.tenant = q.tenant /\ new.role = q.role /\ new.status = q.status
    BY DEF Request
  <1>6. new \in Request
    <2>1. q1 \in Request
      BY MoveType DEF Pcs
    <2> HIDE DEF q1
    <2>2. q2 \in Request
      BY <2>1, MoveType
    <2> HIDE DEF q2
    <2> QED
      BY <2>2, MoveType
  <1> HIDE DEF new
  <1>7. Carries(new)
    BY <1>1, <1>2, <1>5 DEF Carries, Assigns, Saves
  <1>8. m.status = "removed" /\ Restores(q) => Restores(new)
    BY <1>1, <1>2, <1>5 DEF Restores, Assigns, Carries, Stored
  <1>9. Heading(q, m, want[t]) => Heading(new, m, want[t])
    <2>1. Created(new, m) = Created(q, m)
      BY <1>5 DEF Created
    <2> QED
      BY <1>2, <1>5, <2>1 DEF Heading, Saves
  <1> QED
    BY <1>1, <1>2, <1>4, <1>5, <1>6, <1>7, <1>8, <1>9, Stepped

\* and the role, and goes on to insert or restore it, or ends with 404 or 409.
LEMMA CreateRoleInv ==
    ASSUME MemberInv, NEW r \in Requests, CreateRole(r)
    PROVE  MemberInv'
  <1>1. PICK q \in Request, t \in Tenants, m \in Row :
          /\ q = req[r] /\ t = q.tenant /\ m = member[t] /\ Carries(q)
          /\ RowOf(r) = m /\ member = [member EXCEPT ![t] = m]
    BY Found
  <1>2. /\ q.pc = "role" /\ member' = [member EXCEPT ![t] = m] /\ Changing(r)
        /\ UNCHANGED <<live, ops, faults, want, removals, disturbed, overlap>>
    BY <1>1 DEF CreateRole, At, Changing
  <1>3. q.next = "idle" /\ q.copy.status \in Statuses
    BY <1>1, <1>2, FieldType DEF Carries
  <1>4. CASE \/ q.role \notin Roles \/ q.copy.status \in {"active", "invited"}
             \/ q.status \notin Stored
    <2>1. req' = [req EXCEPT ![r] = Idle]
      BY <1>1, <1>4 DEF CreateRole, Finish
    <2>2. Carries(Idle)
      BY IdleType DEF Carries, Assigns, Saves
    <2>3. ~Restores(q)
      BY <1>2, <1>4 DEF Restores, Assigns
    <2>4. Heading(q, m, want[t]) => m = want[t]
      BY <1>2, <1>4 DEF Heading, Created
    <2> QED
      BY <1>1, <1>2, <2>1, <2>2, <2>3, <2>4, IdleType, Stepped
  <1>5. CASE q.role \in Roles /\ q.copy.status \in {"none", "removed"} /\ q.status \in Stored
    <2> DEFINE c == [status |-> q.status, role |-> q.role]
    <2>1. PICK pc \in {"insert", "compare"} :
            pc = IF q.copy.status = "none" THEN "insert" ELSE "compare"
      OBVIOUS
    <2> DEFINE q1 == [q EXCEPT !.pc = pc]
               new == [q1 EXCEPT !.copy = c]
    <2>2. c \in Row /\ c.status \in Stored /\ c.status = q.status
      BY <1>1, <1>5, FieldType, RowType
    <2>3. req' = [req EXCEPT ![r] = new]
      BY <1>1, <1>5, <2>1 DEF CreateRole
    <2>a. Heading(q, m, want[t]) => want[t] = c /\ q.copy = m
      BY <1>2, <1>5 DEF Heading, Created
    <2> HIDE DEF c
    <2>4. new.pc = pc /\ new.copy = c /\ new.next = q.next
          /\ new.tenant = q.tenant /\ new.role = q.role /\ new.status = q.status
      BY DEF Request
    <2>5. new \in Request
      <3>1. q1 \in Request
        BY MoveType DEF Pcs
      <3> HIDE DEF q1
      <3> QED
        BY <2>2, <3>1, MoveType
    <2> HIDE DEF new
    <2>6. Carries(new)
      BY <1>1, <1>2, <1>3, <2>2, <2>4 DEF Carries, Assigns, Saves, Stored
    <2>7. t \notin removals /\ Restores(q) => Restores(new)
      <3>1. Restores(q) => q.copy.status = "removed"
        BY <1>2 DEF Restores, Assigns
      <3>2. t \notin removals /\ q.copy.status = "removed" => Restores(new)
        BY <1>1, <1>2, <1>5, <2>1, <2>2, <2>4 DEF Restores, Carries
      <3> QED
        BY <3>1, <3>2
    <2>8. Heading(q, m, want[t]) => Heading(new, m, want[t])
      BY <1>3, <2>1, <2>a, <2>4 DEF Heading, Saves
    <2> QED
      BY <1>1, <1>2, <2>1, <2>3, <2>4, <2>5, <2>6, <2>7, <2>8, Stepped
  <1> QED
    BY <1>3, <1>4, <1>5 DEF Statuses, Stored

\* The insert, or the row that is already there.
LEMMA CreateInsertInv ==
    ASSUME MemberInv, NEW r \in Requests, CreateInsert(r)
    PROVE  MemberInv'
  <1>1. PICK q \in Request, t \in Tenants, m \in Row :
          /\ q = req[r] /\ t = q.tenant /\ m = member[t] /\ Carries(q)
          /\ RowOf(r) = m /\ member = [member EXCEPT ![t] = m]
    BY Found
  <1>2. PICK row \in Row : row = IF m.status = "none" THEN q.copy ELSE m
    BY FieldType
  <1>3. /\ q.pc = "insert" /\ member' = [member EXCEPT ![t] = row] /\ Changing(r)
        /\ req' = [req EXCEPT ![r] = Idle]
        /\ UNCHANGED <<live, ops, faults, want, removals, disturbed, overlap>>
    BY <1>1, <1>2 DEF CreateInsert, At, Changing, Finish
  <1>4. Carries(Idle)
    BY IdleType DEF Carries, Assigns, Saves
  <1>5. row.status = "removed" /\ t \notin removals => m.status = "removed" /\ ~Restores(q)
    BY <1>1, <1>2, <1>3 DEF Carries, Restores, Assigns
  <1>6. Heading(q, m, want[t]) => row = want[t]
    BY <1>2, <1>3 DEF Heading
  <1> QED
    BY <1>1, <1>3, <1>4, <1>5, <1>6, IdleType, Stepped

\* save() compares,
LEMMA CompareInv ==
    ASSUME MemberInv, NEW r \in Requests, Compare(r)
    PROVE  MemberInv'
  <1>1. PICK q \in Request, t \in Tenants, m \in Row :
          /\ q = req[r] /\ t = q.tenant /\ m = member[t] /\ Carries(q)
          /\ RowOf(r) = m /\ member = [member EXCEPT ![t] = m]
    BY Found
  <1>2. /\ q.pc = "compare" /\ member' = [member EXCEPT ![t] = m] /\ Changing(r)
        /\ UNCHANGED <<live, ops, faults, want, removals, disturbed, overlap>>
    BY <1>1 DEF Compare, At, Changing
  <1>3. PICK d \in SUBSET {"status", "role"} :
          d = {col \in {"status", "role"} : q.copy[col] # m[col]}
    OBVIOUS
  <1> DEFINE q1 == [q EXCEPT !.pc = "write"]
             new == [q1 EXCEPT !.dirty = d]
  <1>4. req' = [req EXCEPT ![r] = new]
    BY <1>1, <1>3 DEF Compare
  <1>5. new.pc = "write" /\ new.next = q.next /\ new.copy = q.copy /\ new.dirty = d
        /\ new.tenant = q.tenant /\ new.role = q.role /\ new.status = q.status
    BY DEF Request
  <1>6. new \in Request
    <2>1. q1 \in Request
      BY MoveType DEF Pcs
    <2> HIDE DEF q1
    <2> QED
      BY <2>1, MoveType
  <1> HIDE DEF new
  <1>7. Carries(new)
    BY <1>1, <1>2, <1>5 DEF Carries, Assigns, Saves
  <1>8. m.status = "removed" /\ Restores(q) => Restores(new)
    <2>1. m.status = "removed" /\ q.copy.status # "removed" => "status" \in d
      BY <1>3
    <2> QED
      BY <1>2, <1>5, <2>1 DEF Restores, Assigns
  <1>9. Heading(q, m, want[t]) => Heading(new, m, want[t])
    <2>1. \A col \in {"status", "role"} \ d : q.copy[col] = m[col]
      BY <1>3
    <2>2. Assigned(new) = Assigned(q)
      BY <1>5 DEF Assigned
    <2> QED
      BY <1>2, <1>5, <2>1, <2>2 DEF Heading, Saves
  <1> QED
    BY <1>1, <1>2, <1>4, <1>5, <1>6, <1>7, <1>8, <1>9, Stepped

\* and updates.
LEMMA WriteInv ==
    ASSUME MemberInv, NEW r \in Requests, Write(r)
    PROVE  MemberInv'
  <1>1. PICK q \in Request, t \in Tenants, m \in Row :
          /\ q = req[r] /\ t = q.tenant /\ m = member[t] /\ Carries(q)
          /\ RowOf(r) = m /\ member = [member EXCEPT ![t] = m]
    BY Found
  <1>2. /\ q.next \in {"idle", "create"} /\ q.copy \in Row /\ q.copy.status \in Statuses
    BY FieldType
  <1> DEFINE w == [col \in {"status", "role"} |-> IF col \in q.dirty THEN q.copy[col] ELSE m[col]]
  <1>3. PICK row \in Row : row = w
    <2>1. PICK v : v = w
      OBVIOUS
    <2>2. v \in Row
      BY <1>2, <2>1, Updated
    <2> QED
      BY <2>1, <2>2
  <1>4. /\ q.pc = "write" /\ member' = [member EXCEPT ![t] = row] /\ Changing(r)
        /\ UNCHANGED <<live, ops, faults, want, removals, disturbed, overlap>>
    BY <1>1, <1>3 DEF Write, At, Changing
  <1>5. /\ row.status = IF "status" \in q.dirty THEN q.copy.status ELSE m.status
        /\ (\A col \in {"status", "role"} \ q.dirty : q.copy[col] = m[col]) => row = q.copy
    BY <1>2, <1>3, Updated
  <1> HIDE DEF w
  <1>6. Heading(q, m, want[t]) => row = q.copy
    BY <1>4, <1>5 DEF Heading
  <1>7. CASE q.next = "idle"
    <2>1. req' = [req EXCEPT ![r] = Idle]
      BY <1>1, <1>7 DEF Write, Finish
    <2>2. Carries(Idle)
      BY IdleType DEF Carries, Assigns, Saves
    <2>3. row.status = "removed" /\ t \notin removals => m.status = "removed" /\ ~Restores(q)
      BY <1>1, <1>4, <1>5, <1>7 DEF Carries, Saves, Restores, Assigns
    <2>4. Heading(q, m, want[t]) => row = want[t]
      BY <1>4, <1>6, <1>7 DEF Heading, Saves
    <2> QED
      BY <1>1, <1>4, <2>1, <2>2, <2>3, <2>4, IdleType, Stepped
  <1>8. CASE q.next = "create"
    <2> DEFINE new == [q EXCEPT !.pc = "create"]
    <2>1. req' = [req EXCEPT ![r] = new]
      BY <1>1, <1>8 DEF Write
    <2>2. new \in Request /\ new.pc = "create" /\ new.next = "create"
          /\ new.tenant = q.tenant /\ new.role = q.role /\ new.status = q.status
      BY <1>8 DEF Request
    <2> HIDE DEF new
    <2>3. /\ q.role \in Roles \/ t \in disturbed
          /\ q.status = "active" /\ q.copy.status = "removed"
      BY <1>1, <1>4, <1>8 DEF Carries, Assigns, Saves
    <2>4. Carries(new)
      BY <1>1, <2>2, <2>3 DEF Carries, Assigns, Saves
    <2>5. t \notin disturbed => Restores(new)
      BY <2>2, <2>3 DEF Restores, Stored
    <2>6. t \notin disturbed /\ Heading(q, m, want[t]) => Heading(new, row, want[t])
      <3> SUFFICES ASSUME t \notin disturbed, Heading(q, m, want[t])
                   PROVE  Heading(new, row, want[t])
        OBVIOUS
      <3>1. want[t] = Assigned(q) /\ row.status = "removed"
        BY <1>4, <1>6, <1>8, <2>3 DEF Heading, Saves
      <3>2. Created(new, row) = Assigned(q)
        BY <2>2, <2>3, <3>1 DEF Created, Assigned, Stored
      <3> QED
        BY <2>2, <3>1, <3>2 DEF Heading, Saves
    <2> QED
      BY <1>1, <1>4, <2>1, <2>2, <2>4, <2>5, <2>6, Stepped
  <1> QED
    BY <1>2, <1>7, <1>8

-----------------------------------------------------------------------------
(* Requests that arrive, tokens and failures.                              *)

\* A change arrives.  Alone, it finds the row as it should be.
LEMMA BeginInv ==
    ASSUME MemberInv, NEW r \in Requests, NEW new \in Request, NEW row \in Row,
           NEW t \in Tenants, At(r, "idle"), ops < MaxOps, ops' = ops + 1,
           overlap' = (overlap \/ \E q \in Requests : Changing(q)),
           req' = [req EXCEPT ![r] = new], want' = [want EXCEPT ![t] = row],
           UNCHANGED <<member, live, faults>>,
           removals \subseteq removals', removals' \subseteq Tenants,
           disturbed \subseteq disturbed', disturbed' \subseteq Tenants,
           new.pc \in {"remove", "create", "assign"}, new.tenant = t, Carries(new)',
           t \notin disturbed' /\ member[t] = want[t] => Heading(new, member[t], row)
    PROVE  MemberInv'
  <1>0. /\ member \in [Tenants -> Row] /\ req \in [Requests -> Request]
        /\ want \in [Tenants -> Row] /\ ops \in Nat
    BY DEF MemberInv, MembershipsTypeOK
  <1>1. /\ req'[r] = new /\ \A q \in Requests \ {r} : req'[q] = req[q]
        /\ want'[t] = row /\ \A u \in Tenants \ {t} : want'[u] = want[u]
        /\ req' \in [Requests -> Request] /\ want' \in [Tenants -> Row] /\ ops' \in Nat
    BY <1>0
  <1>2. MembershipsTypeOK'
    <2>1. overlap' \in BOOLEAN
      BY Zenon
    <2> QED
      BY <1>1, <2>1 DEF MemberInv, MembershipsTypeOK
  <1>3. ~overlap' => ~overlap /\ \A q \in Requests : ~Changing(q)
    OBVIOUS
  <1>4. Carried'
    <2>1. ASSUME NEW q \in Requests \ {r}
          PROVE  Carries(req[q])'
      BY <1>1 DEF MemberInv, Carried, Carries, Assigns, Saves
    <2> QED
      BY <1>1, <2>1 DEF Carried, Carries, Assigns, Saves
  <1>5. Single'
    <2>1. ~overlap' => \A q \in Requests : Changing(q)' => q = r
      BY <1>1, <1>3 DEF Changing
    <2> QED
      BY <2>1 DEF Single
  <1>6. Restored'
    <2> SUFFICES ASSUME faults = 0, NEW u \in Tenants \ (removals \cup disturbed),
                        member[u].status = "removed"
                 PROVE  \E q \in Requests : req'[q].tenant = u /\ Restores(req'[q])
      BY DEF Restored, Restores, Assigns
    <2>1. PICK q \in Requests : req[q].tenant = u /\ Restores(req[q])
      BY DEF MemberInv, Restored
    <2>2. q # r
      BY <2>1 DEF At, Restores, Assigns
    <2> QED
      BY <1>1, <2>1, <2>2
  <1>7. ~overlap' /\ faults = 0 => \A u \in Tenants \ disturbed : member[u] = want[u]
    BY <1>3 DEF MemberInv, OnTheWay
  <1>8. OnTheWay'
    <2>1. Changing(r)' /\ req'[r].tenant = t
      BY <1>1 DEF Changing
    <2> QED
      BY <1>1, <1>7, <2>1 DEF OnTheWay
  <1>9. Headed'
    <2> SUFFICES ASSUME ~overlap', faults = 0, NEW q \in Requests, Changing(q)',
                        req'[q].tenant \notin disturbed'
                 PROVE  Heading(req'[q], member[req'[q].tenant], want'[req'[q].tenant])
      BY DEF Headed, Heading, Created, Assigned, Saves
    <2>1. q = r
      BY <1>1, <1>3 DEF Changing
    <2> QED
      BY <1>1, <1>7, <2>1
  <1> QED
    BY <1>2, <1>4, <1>5, <1>6, <1>8, <1>9 DEF MemberInv

\* The record of a request that arrives.
Fresh(pc, t, role, status) ==
    [Idle EXCEPT !.pc = pc, !.tenant = t, !.role = role, !.status = status]

\* Its fields.
LEMMA BeginType ==
    ASSUME NEW pc \in {"remove", "create", "assign"}, NEW t \in Tenants,
           NEW role \in Roles \cup {UnknownRole}, NEW status \in Asked
    PROVE  LET new == Fresh(pc, t, role, status)
           IN  /\ new \in Request /\ new.pc = pc /\ new.tenant = t /\ new.role = role
               /\ new.status = status /\ new.next = "idle"
  <1> DEFINE q1 == [Idle EXCEPT !.pc = pc]
             q2 == [q1 EXCEPT !.tenant = t]
             q3 == [q2 EXCEPT !.role = role]
             new == [q3 EXCEPT !.status = status]
  <1>1. /\ new = Fresh(pc, t, role, status)
        /\ new.pc = pc /\ new.tenant = t /\ new.role = role /\ new.status = status
        /\ new.next = "idle"
    BY IdleType DEF Request, Fresh
  <1>2. q1 \in Request
    BY IdleType, MoveType DEF Pcs
  <1> HIDE DEF q1
  <1>3. q2 \in Request
    BY <1>2 DEF Request
  <1> HIDE DEF q2
  <1>4. q3 \in Request
    BY <1>3 DEF Request
  <1> HIDE DEF q3
  <1>5. new \in Request
    BY <1>4 DEF Request
  <1> HIDE DEF new
  <1> QED
    BY <1>1, <1>5

\* remove, create and assignRole.
LEMMA ArriveInv ==
    ASSUME MemberInv, NEW r \in Requests, NEW t \in Tenants,
           \/ Remove(r, t)
           \/ \E role \in Roles \cup {UnknownRole} :
                 \/ AssignRole(r, t, role)
                 \/ \E status \in Asked : Create(r, t, role, status)
    PROVE  MemberInv'
  <1>0. /\ want[t] \in Row /\ removals \subseteq Tenants /\ disturbed \subseteq Tenants
    BY DEF MemberInv, MembershipsTypeOK
  <1>1. CASE Remove(r, t)
    <2> DEFINE w == want[t]
               v == IF w.status = "none" THEN w ELSE [w EXCEPT !.status = "removed"]
    <2>1. PICK row \in Row : row = v
      BY <1>0, RowType
    <2>2. UnknownRole \in Roles \cup {UnknownRole}
      OBVIOUS
    <2>3. PICK new \in Request :
              /\ new = Fresh("remove", t, UnknownRole, "active")
              /\ new.pc = "remove" /\ new.tenant = t /\ new.next = "idle"
      BY <2>2, BeginType DEF Asked, Stored
    <2>4. /\ Begin(r, "remove", t, UnknownRole, "active", row)
          /\ removals' = removals \cup {t} /\ disturbed' = disturbed
      BY <1>1, <2>1 DEF Remove
    <2>5. Carries(new)'
      BY <2>3, <2>4 DEF Carries, Assigns, Saves
    <2>6. member[t] = want[t] => Heading(new, member[t], row)
      BY <2>1, <2>3 DEF Heading, Saves
    <2> HIDE DEF v
    <2> QED
      BY <1>0, <2>3, <2>4, <2>5, <2>6, BeginInv DEF Begin, Fresh
  <1>2. ASSUME NEW role \in Roles \cup {UnknownRole}, AssignRole(r, t, role)
        PROVE  MemberInv'
    <2> DEFINE v == IF role \in Roles THEN [status |-> "active", role |-> role] ELSE want[t]
    <2>1. PICK row \in Row : row = v
      BY <1>0, RowType DEF Stored
    <2>3. PICK new \in Request :
              /\ new = Fresh("assign", t, role, "active")
              /\ new.pc = "assign" /\ new.tenant = t /\ new.role = role
              /\ new.status = "active" /\ new.next = "idle"
      BY BeginType DEF Asked, Stored
    <2>4. /\ Begin(r, "assign", t, role, "active", row)
          /\ removals' = removals
          /\ disturbed' = IF role \in Roles THEN disturbed ELSE disturbed \cup {t}
      BY <1>2, <2>1 DEF AssignRole
    <2>5. Carries(new)'
      BY <2>3, <2>4 DEF Carries, Assigns, Saves
    <2>6. t \notin disturbed' => Heading(new, member[t], row)
      BY <2>1, <2>3, <2>4 DEF Heading, Saves, Assigned
    <2> HIDE DEF v
    <2> QED
      BY <1>0, <2>3, <2>4, <2>5, <2>6, BeginInv DEF Begin, Fresh
  <1>3. ASSUME NEW role \in Roles \cup {UnknownRole}, NEW status \in Asked,
               Create(r, t, role, status)
        PROVE  MemberInv'
    <2> DEFINE v == IF want[t].status \in {"none", "removed"} /\ role \in Roles /\ status \in Stored
                      THEN [status |-> status, role |-> role] ELSE want[t]
    <2>1. PICK row \in Row : row = v
      BY <1>0, RowType
    <2>3. PICK new \in Request :
              /\ new = Fresh("create", t, role, status)
              /\ new.pc = "create" /\ new.tenant = t /\ new.role = role
              /\ new.status = status /\ new.next = "idle"
      BY BeginType
    <2>4. /\ Begin(r, "create", t, role, status, row)
          /\ removals' = IF status = "removed" THEN removals \cup {t} ELSE removals
          /\ disturbed' = disturbed
      BY <1>3, <2>1 DEF Create
    <2>5. Carries(new)'
      BY <2>3, <2>4 DEF Carries, Assigns, Saves
    <2>6. member[t] = want[t] => Heading(new, member[t], row)
      BY <2>1, <2>3 DEF Heading, Saves, Created
    <2> HIDE DEF v
    <2> QED
      BY <1>0, <2>3, <2>4, <2>5, <2>6, BeginInv DEF Begin, Fresh
  <1> QED
    BY <1>1, <1>2, <1>3

\* A step that changes no membership: of a request for a token, or one that fails.
LEMMA AsideInv ==
    ASSUME MemberInv, NEW r \in Requests, NEW new \in Request,
           req' = [req EXCEPT ![r] = new], new.pc \in {"idle", "sign"},
           UNCHANGED <<member, ops, want, removals, disturbed, overlap>>,
           live' \subseteq Claims, faults' \in Nat,
           faults' = 0 => faults = 0 /\ ~Changing(r)
    PROVE  MemberInv'
  <1>0. req \in [Requests -> Request]
    BY DEF MemberInv, MembershipsTypeOK
  <1>1. /\ req'[r] = new /\ \A q \in Requests \ {r} : req'[q] = req[q]
        /\ req' \in [Requests -> Request]
    BY <1>0
  <1>2. MembershipsTypeOK'
    <2>1. overlap' \in BOOLEAN
      BY Zenon DEF MemberInv, MembershipsTypeOK
    <2> QED
      BY <1>1, <2>1 DEF MemberInv, MembershipsTypeOK
  <1>3. \A q \in Requests : Changing(q)' => Changing(q) /\ q # r /\ req'[q] = req[q]
    BY <1>1 DEF Changing
  <1>4. Carried'
    BY <1>1 DEF MemberInv, Carried, Carries, Assigns, Saves
  <1>5. Single'
    BY <1>3 DEF MemberInv, Single
  <1>6. Restored'
    <2> SUFFICES ASSUME faults' = 0, NEW u \in Tenants \ (removals \cup disturbed),
                        member[u].status = "removed"
                 PROVE  \E q \in Requests : req'[q].tenant = u /\ Restores(req'[q])
      BY DEF Restored, Restores, Assigns
    <2>1. PICK q \in Requests : req[q].tenant = u /\ Restores(req[q])
      BY DEF MemberInv, Restored
    <2>2. q # r
      BY <2>1 DEF Changing, Restores, Assigns
    <2> QED
      BY <1>1, <2>1, <2>2
  <1>7. OnTheWay'
    <2>1. \A q \in Requests : faults' = 0 /\ Changing(q) => Changing(q)' /\ req'[q] = req[q]
      BY <1>1 DEF Changing
    <2> QED
      BY <2>1 DEF MemberInv, OnTheWay
  <1>8. Headed'
    <2> SUFFICES ASSUME ~overlap, faults' = 0, NEW q \in Requests, Changing(q)',
                        req'[q].tenant \notin disturbed
                 PROVE  Heading(req'[q], member[req'[q].tenant], want[req'[q].tenant])
      BY DEF Headed, Heading, Created, Assigned, Saves
    <2> QED
      BY <1>3 DEF MemberInv, Headed
  <1> QED
    BY <1>2, <1>4, <1>5, <1>6, <1>7, <1>8 DEF MemberInv

\* login, refresh and switchTenant read, tokens are signed, and calls fail.
LEMMA TokenInv ==
    ASSUME MemberInv, NEW r \in Requests,
           \/ ReadPrimary(r) \/ Sign(r) \/ Abort(r)
           \/ \E t \in Tenants : SwitchTenant(r, t)
    PROVE  MemberInv'
  <1>0. /\ member \in [Tenants -> Row] /\ req \in [Requests -> Request] /\ faults \in Nat
        /\ live \subseteq Claims
    BY DEF MemberInv, MembershipsTypeOK
  <1>1. ASSUME NEW claims \in Claims, Read(r, claims)
        PROVE  MemberInv'
    <2> DEFINE q1 == [Idle EXCEPT !.pc = "sign"]
               new == [q1 EXCEPT !.claims = claims]
    <2>1. /\ req' = [req EXCEPT ![r] = new] /\ ~Changing(r)
          /\ UNCHANGED <<member, live, ops, faults, want, removals, disturbed, overlap>>
      BY <1>1 DEF Read, At, Changing
    <2>2. new.pc = "sign"
      BY IdleType DEF Request
    <2>3. new \in Request
      <3>1. q1 \in Request
        BY IdleType, MoveType DEF Pcs
      <3> HIDE DEF q1
      <3> QED
        BY <3>1 DEF Request
    <2> HIDE DEF new
    <2> QED
      BY <1>0, <2>1, <2>2, <2>3, AsideInv
  <1>2. ASSUME ReadPrimary(r)
        PROVE  \E claims \in Claims : Read(r, claims)
    <2>1. [tenant |-> None, role |-> None] \in Claims
      BY DEF Claims
    <2>2. \A t \in Tenants : [tenant |-> t, role |-> member[t].role] \in Claims
      BY <1>0 DEF Claims, Row
    <2> QED
      BY <1>2, <2>1, <2>2, Zenon DEF ReadPrimary
  <1>3. ASSUME NEW t \in Tenants, SwitchTenant(r, t)
        PROVE  \E claims \in Claims : Read(r, claims)
    <2>1. [tenant |-> t, role |-> member[t].role] \in Claims
      BY <1>0 DEF Claims, Row
    <2> QED
      BY <1>3, <2>1, Zenon DEF SwitchTenant
  <1>4. CASE Sign(r)
    <2>1. /\ req' = [req EXCEPT ![r] = Idle] /\ ~Changing(r) /\ live' = live \cup {req[r].claims}
          /\ UNCHANGED <<member, ops, faults, want, removals, disturbed, overlap>>
      BY <1>4 DEF Sign, At, Changing, Finish
    <2>2. live' \subseteq Claims
      BY <1>0, <2>1, FieldType
    <2> QED
      BY <1>0, <2>1, <2>2, IdleType, AsideInv
  <1>5. CASE Abort(r)
    <2>1. /\ req' = [req EXCEPT ![r] = Idle] /\ faults' = faults + 1
          /\ UNCHANGED <<member, live, ops, want, removals, disturbed, overlap>>
      BY <1>5 DEF Abort, Finish
    <2>2. faults' \in Nat /\ faults' # 0
      BY <1>0, <2>1
    <2> QED
      BY <1>0, <2>1, <2>2, IdleType, AsideInv
  <1> QED
    BY <1>1, <1>2, <1>3, <1>4, <1>5

\* Nothing changes but tokens that run out.
LEMMA ExpiryInv ==
    ASSUME MemberInv, live' \subseteq live,
           UNCHANGED <<member, req, ops, faults, want, removals, disturbed, overlap>>
    PROVE  MemberInv'
  <1>1. MembershipsTypeOK'
    <2>1. overlap' \in BOOLEAN
      BY Zenon DEF MemberInv, MembershipsTypeOK
    <2> QED
      BY <2>1 DEF MemberInv, MembershipsTypeOK
  <1>2. Carried' /\ Restored' /\ Single'
    BY DEF MemberInv, Carried, Carries, Restored, Restores, Assigns, Saves, Single, Changing
  <1>3. OnTheWay' /\ Headed'
    BY DEF MemberInv, OnTheWay, Headed, Changing, Heading, Created, Assigned, Saves
  <1> QED
    BY <1>1, <1>2, <1>3 DEF MemberInv

-----------------------------------------------------------------------------
(* The theorem.                                                            *)

\* No step leaves the invariant.
LEMMA NextInv == MemberInv /\ [Next]_vars => MemberInv'
  <1> SUFFICES ASSUME MemberInv, [Next]_vars PROVE MemberInv'
    OBVIOUS
  <1>1. ASSUME NEW r \in Requests, Step(r) \/ Abort(r) \/ ReadPrimary(r)
        PROVE  MemberInv'
    BY <1>1, RemoveFindInv, CreateFindInv, CreateRoleInv, CreateInsertInv, AssignFindInv,
       CompareInv, WriteInv, TokenInv DEF Step
  <1>2. ASSUME NEW r \in Requests, NEW t \in Tenants, SwitchTenant(r, t)
        PROVE  MemberInv'
    BY <1>2, TokenInv
  <1>3. ASSUME NEW r \in Requests, NEW t \in Tenants,
               \/ Remove(r, t)
               \/ \E role \in Roles \cup {UnknownRole} :
                     \/ AssignRole(r, t, role)
                     \/ \E status \in Asked : Create(r, t, role, status)
        PROVE  MemberInv'
    BY <1>3, ArriveInv
  <1>4. ASSUME NEW c \in live, TokenExpires(c)
        PROVE  MemberInv'
    BY <1>4, ExpiryInv DEF TokenExpires
  <1>5. CASE UNCHANGED vars
    BY <1>5, ExpiryInv DEF vars
  <1> QED
    BY <1>1, <1>2, <1>3, <1>4, <1>5 DEF Next

\* Before the first change every row is as it should be.
LEMMA InitInv == Init => MemberInv
  <1> SUFFICES ASSUME Init PROVE MemberInv
    OBVIOUS
  <1>1. /\ want = member /\ disturbed = {}
        /\ removals = {t \in Tenants : member[t].status = "removed"}
        /\ live = {} /\ ops = 0 /\ faults = 0 /\ overlap = FALSE
    BY DEF Init
  <1>2. /\ member \in [Tenants -> Row]
    <2>1. ASSUME NEW m \in {NoRow} \cup [status : Stored, role : Roles]
          PROVE  m \in Row
      BY <2>1, IdleType DEF Row, Statuses, Stored
    <2> QED
      BY <2>1 DEF Init
  <1>3. req \in [Requests -> Request] /\ \A r \in Requests : req[r].pc = "idle"
    BY IdleType DEF Init
  <1>4. MembershipsTypeOK
    <2>1. overlap \in BOOLEAN
      BY <1>1, Zenon
    <2> QED
      BY <1>1, <1>2, <1>3, <2>1 DEF MembershipsTypeOK
  <1>5. Carried /\ Single /\ Restored
    BY <1>1, <1>2, <1>3 DEF Carried, Carries, Assigns, Saves, Single, Changing, Restored
  <1>6. OnTheWay /\ Headed
    BY <1>1, <1>3 DEF OnTheWay, Headed, Changing
  <1> QED
    BY <1>4, <1>5, <1>6 DEF MemberInv

\* For any tenants, roles and requests: one at a time and without failures the queries of
\* create, remove and assignRole add up to the change they stand for, and however they
\* overlap, a member whom no request is to remove is one when they are over.
THEOREM ChangesKeepMembers == Spec => []MembershipsInv
  <1>1. Spec => []MemberInv
    BY InitInv, NextInv, PTL DEF Spec
  <1>2. MemberInv => MembershipsInv
    <2> SUFFICES ASSUME MemberInv PROVE MembershipsInv
      OBVIOUS
    <2>1. ChangesAsOne
      BY DEF MemberInv, ChangesAsOne, Quiet, OnTheWay
    <2>2. \A r \in Requests : Restores(req[r]) => Changing(r)
      BY DEF Restores, Assigns, Changing
    <2>3. MemberStays
      BY <2>2 DEF MemberInv, MemberStays, Quiet, Restored
    <2> QED
      BY <2>1, <2>3 DEF MemberInv, MembershipsInv
  <1> QED
    BY <1>1, <1>2, PTL

=============================================================================
