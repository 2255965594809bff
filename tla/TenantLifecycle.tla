--------------------------- MODULE TenantLifecycle ---------------------------
(***************************************************************************)
(* One tenant of the tenant manager: its row, written by administrators    *)
(* (tenants.service) and by billing messages, together with its feature    *)
(* flags, which a plan change replaces, toggles change one by one and      *)
(* checks cache.                                                           *)
(*                                                                         *)
(* Every handler loads the whole row, changes its copy and saves it.       *)
(* TypeORM's save() reads the row again, compares it with the copy and     *)
(* updates the columns that differ: two statements, at read committed, so  *)
(* that both what the handler loaded and what the comparison saw may be    *)
(* stale.  update() writes the one column it names.                        *)
(*                                                                         *)
(* Of the events, tenant.provisioned alone is bound to a queue; the broker *)
(* drops tenant.suspended, tenant.plan-changed and tenant.feature-toggled. *)
(***************************************************************************)
EXTENDS FeatureFlags

CONSTANTS
    Plans,           \* plan codes that requests and messages carry: any strings
    Listed,          \* those with a row in table plans
    PlanFeatures,    \* included_features of those
    Free,            \* the code "free"
    MinimalFeatures, \* the features of the plan made up when not even "free" is listed
    StaticFeatures,  \* updateTenant's own map from plan codes to features
    Statuses,        \* the subscription statuses billing messages carry
    Customers,       \* Stripe customer ids
    None,            \* null
    Absent,          \* a property missing from a payload
    MaxOps           \* bound: requests and messages; an operation's number is its date

ASSUME PlansAssumption ==
    /\ Listed \subseteq Plans /\ Free \in Plans
    /\ PlanFeatures \in [Listed -> SUBSET Features]
    /\ MinimalFeatures \subseteq Features
    /\ StaticFeatures \in [Plans -> SUBSET Features]
    /\ None \notin Customers
    /\ Absent \notin Plans \cup Customers \cup {None}
    /\ MaxOps \in Nat

VARIABLES
    tenant,      \* the row of table tenants
    op,          \* the tenant operation of each request
    now,         \* operations begun
    announced,   \* tenant.provisioned was handed to the broker
    overlap,     \* history: two requests that write were in flight at once
    replanned,   \* history: a message changed the plan of a copy
    plansUsed,   \* history: the plans that administrators asked for
    toggled      \* history: features toggled since the rows were replaced

history == <<overlap, replanned, plansUsed, toggled>>
lifecycle == <<tenant, op, now, announced, history>>
vars == <<flagVars, lifecycle>>

Tenant == [status : {"none", "active", "suspended", "cancelled"},
           suspendedAt : Nat, cancelledAt : Nat,
           currentPlan : Plans, enabledFeatures : SUBSET Features,
           stripeCustomerId : Customers \cup {None}]
Columns == {"status", "suspendedAt", "cancelledAt", "currentPlan", "enabledFeatures",
            "stripeCustomerId"}
NoTenant == [status |-> "none", suspendedAt |-> 0, cancelledAt |-> 0, currentPlan |-> Free,
             enabledFeatures |-> {}, stripeCustomerId |-> None]

\* After its save a request is done, replaces the feature rows, or scans the cache.
Operation == [pc : {"idle", "membership", "announce", "compare", "write"},
              by : {"admin", "billing"}, next : {"done", "delete", "scan"},
              copy : Tenant, dirty : SUBSET Columns,
              customer : Customers \cup {None, Absent}]   \* what a PATCH says of it
NoOperation == [pc |-> "idle", by |-> "admin", next |-> "done", copy |-> NoTenant, dirty |-> {},
                customer |-> Absent]

\* findByCode: an unknown code gets the features of the free plan.
IncludedFeatures(p) ==
    CASE p \in Listed -> PlanFeatures[p]
      [] p \notin Listed /\ Free \in Listed -> PlanFeatures[Free]
      [] p \notin Listed /\ Free \notin Listed -> MinimalFeatures
\* What updateTenant syncs for a plan with these features.
FeaturesToSync(p, codes) == IF codes # {} THEN codes ELSE StaticFeatures[p]

Init ==
    /\ FlagsStart({})
    /\ tenant = NoTenant
    /\ op = [r \in Requests |-> NoOperation]
    /\ now = 0
    /\ announced = FALSE
    /\ overlap = FALSE /\ replanned = FALSE
    /\ plansUsed = {} /\ toggled = {}

Unused(r) == op[r].pc = "idle" /\ req[r].pc = "idle"
\* In flight, and more than a check of a feature.
Busy(r) == op[r].pc # "idle" \/ req[r].pc \in Toggling \cup Replacing
Quiet == \A r \in Requests : ~Busy(r)
Exists == tenant.status # "none"

\* A request or message arrives that is to write something.
Arrive(r) == Unused(r) /\ overlap' = (overlap \/ ~Quiet)
Begin(r) ==
    /\ Arrive(r) /\ Exists
    /\ now < MaxOps /\ now' = now + 1

-----------------------------------------------------------------------------
(* createTenant.  One transaction inserts the row and the features of its  *)
(* plan and makes the tenant active.                                       *)

CreateTenant(r, p, c) ==
    /\ Arrive(r) /\ ~Exists
    /\ tenant' = [NoTenant EXCEPT !.status = "active", !.currentPlan = p,
                                  !.enabledFeatures = IncludedFeatures(p),
                                  !.stripeCustomerId = c]
    /\ rows' = RowsOf(IncludedFeatures(p))
    /\ op' = [op EXCEPT ![r].pc = "membership"]
    /\ plansUsed' = plansUsed \cup {p}
    /\ UNCHANGED <<lastId, cache, req, writes, faults, excused, now, announced,
                   replanned, toggled>>

\* The identity service's answer is not looked at and a failing call is caught.
CreateMembership(r) ==
    /\ op[r].pc = "membership"
    /\ op' = [op EXCEPT ![r].pc = "announce"]
    /\ UNCHANGED <<flagVars, tenant, now, announced, history>>

CreateAnnounce(r) ==
    /\ op[r].pc = "announce"
    /\ announced' = TRUE
    /\ op' = [op EXCEPT ![r] = NoOperation]
    /\ UNCHANGED <<flagVars, tenant, now, history>>

-----------------------------------------------------------------------------
(* What the handlers do to their copy t of the row at date d.              *)

Suspended(t, d) == [t EXCEPT !.status = "suspended", !.suspendedAt = d]
Activated(t) == [t EXCEPT !.status = "active", !.suspendedAt = 0]
Cancelled(t, d) == [t EXCEPT !.status = "cancelled", !.cancelledAt = d]
\* Mutant: the snapshot keeps the features of the old plan.
WithPlanOnly(t, p) == [t EXCEPT !.currentPlan = p]
WithPlan(t, p) == [t EXCEPT !.currentPlan = p, !.enabledFeatures = IncludedFeatures(p)]
\* Stripe's spelling "canceled", and "trialing", match no case.
WithStatus(t, s, d) ==
    CASE s = "active" -> Activated(t)
      [] s \in {"suspended", "past_due"} -> Suspended(t, d)
      [] s = "cancelled" -> Cancelled(t, d)
      [] OTHER -> t

\* The handler loads the row and is about to save the copy t.
Load(r, by, t, next, c) ==
    /\ Begin(r)
    /\ op' = [op EXCEPT ![r] = [NoOperation EXCEPT !.pc = "compare", !.by = by, !.copy = t,
                                                   !.next = next, !.customer = c]]
    /\ UNCHANGED <<flagVars, tenant, announced, toggled>>
LoadAs(r, t, next) == Load(r, "admin", t, next, Absent) /\ UNCHANGED <<replanned, plansUsed>>

\* A missing customer keeps the one of the row, null clears it.
UpdateTenant(r, p, c) ==
    LET t == IF c = Absent THEN tenant ELSE [tenant EXCEPT !.stripeCustomerId = c]
    IN  /\ \/ /\ p \in {Absent, tenant.currentPlan}
              /\ Load(r, "admin", t, "done", c)
              /\ UNCHANGED plansUsed
           \/ /\ p \notin {Absent, tenant.currentPlan}
              /\ Load(r, "admin", WithPlan(t, p), "delete", c)
              /\ plansUsed' = plansUsed \cup {p}
        /\ UNCHANGED replanned

SuspendTenant(r) ==
    /\ tenant.status \notin {"suspended", "cancelled"}
    /\ LoadAs(r, Suspended(tenant, now + 1), "done")

\* Mutant: a cancelled tenant is activated.
ActivateAnyTenant(r) ==
    /\ tenant.status # "active"
    /\ LoadAs(r, Activated(tenant), "done")

ActivateTenant(r) ==
    /\ tenant.status \notin {"active", "cancelled"}
    /\ LoadAs(r, Activated(tenant), "done")

ArchiveTenant(r) ==
    /\ tenant.status # "cancelled"
    /\ LoadAs(r, Cancelled(tenant, now + 1), "scan")

\* The plan is written without its features, and no feature row follows it.
HandleSubscriptionStatus(r, s, p) ==
    LET t == WithStatus(tenant, s, now + 1)
        other == p \notin {Absent, tenant.currentPlan}
    IN  /\ Load(r, "billing", IF other THEN [t EXCEPT !.currentPlan = p] ELSE t, "done",
                Absent)
        /\ replanned' = (replanned \/ other)
        /\ UNCHANGED plansUsed

HandleBillingSynced(r, c) ==
    /\ Begin(r)
    /\ tenant' = [tenant EXCEPT !.stripeCustomerId = c]
    /\ UNCHANGED <<flagVars, op, announced, replanned, plansUsed, toggled>>

\* save(): the comparison,
Compare(r) ==
    /\ op[r].pc = "compare"
    /\ op' = [op EXCEPT ![r].pc = "write",
                        ![r].dirty = {col \in Columns : op[r].copy[col] # tenant[col]}]
    /\ UNCHANGED <<flagVars, tenant, now, announced, history>>

\* Mutant: no feature rows are replaced after a plan change.
AfterNothing(next, codes) == IF next = "scan" THEN ScanFrom ELSE Idle
\* What the request goes on to do with the feature flags.
After(next, codes) ==
    CASE next = "done" -> Idle
      [] next = "delete" -> [Idle EXCEPT !.pc = "delete", !.codes = codes]
      [] next = "scan" -> ScanFrom

\* and the update of the columns that differed.
Write(r) ==
    LET o == op[r]
    IN  /\ o.pc = "write"
        /\ tenant' = [col \in Columns |-> IF col \in o.dirty THEN o.copy[col] ELSE tenant[col]]
        /\ op' = [op EXCEPT ![r] = NoOperation]
        /\ req' = [req EXCEPT ![r] = After(o.next, FeaturesToSync(o.copy.currentPlan,
                                                               o.copy.enabledFeatures))]
        /\ UNCHANGED <<rows, lastId, cache, writes, faults, excused, now, announced, history>>

\* A call fails, a publish finds no channel, or the process dies; the billing handlers
\* catch what is thrown.
Abort(r) ==
    /\ op[r].pc # "idle" /\ faults < MaxFaults
    /\ faults' = faults + 1
    /\ op' = [op EXCEPT ![r] = NoOperation]
    /\ UNCHANGED <<rows, lastId, cache, req, writes, excused, tenant, now, announced, history>>

-----------------------------------------------------------------------------
(* The requests of the features module.  Checks write no table and never   *)
(* count as overlapping; an insert that fails on the foreign key to        *)
(* feature_definitions, as those of updateTenant's own map do with the     *)
(* seeded definitions, is a failing call.                                  *)

Check(r, f) == Exists /\ Unused(r) /\ CheckMisses(r, f) /\ UNCHANGED lifecycle

ToggleFeature(r, f, v) ==
    /\ Exists /\ Arrive(r) /\ Toggle(r, f, v)
    /\ toggled' = toggled \cup {f}
    /\ UNCHANGED <<tenant, op, now, announced, replanned, plansUsed>>

ReplaceRows(r) ==
    /\ DeleteRows(r)
    /\ toggled' = {}
    /\ UNCHANGED <<tenant, op, now, announced, overlap, replanned, plansUsed>>

FlagsGoOn(r) == req[r].pc # "delete" /\ FlagsStep(r) /\ UNCHANGED lifecycle
FlagsFail(r) == FlagsAbort(r) /\ UNCHANGED lifecycle
EntryExpires(f) == Expire(f) /\ UNCHANGED lifecycle

-----------------------------------------------------------------------------
Next ==
    \/ \E r \in Requests :
          \/ \E p \in Plans, c \in Customers \cup {None} : CreateTenant(r, p, c)
          \/ CreateMembership(r) \/ CreateAnnounce(r)
          \/ \E p \in Plans \cup {Absent}, c \in Customers \cup {None, Absent} :
                UpdateTenant(r, p, c)
          \/ SuspendTenant(r) \/ ActivateTenant(r) \/ ArchiveTenant(r)
          \/ \E s \in Statuses, p \in Plans \cup {Absent} : HandleSubscriptionStatus(r, s, p)
          \/ \E c \in Customers : HandleBillingSynced(r, c)
          \/ Compare(r) \/ Write(r) \/ Abort(r)
          \/ \E f \in Features : Check(r, f) \/ \E v \in Flags : ToggleFeature(r, f, v)
          \/ ReplaceRows(r) \/ FlagsGoOn(r) \/ FlagsFail(r)
    \/ \E f \in Features : EntryExpires(f)

Spec == Init /\ [][Next]_vars

-----------------------------------------------------------------------------
(* Properties.                                                             *)

LifecycleTypeOK ==
    /\ FlagsTypeOK
    /\ tenant \in Tenant
    /\ op \in [Requests -> Operation]
    /\ now \in 0 .. MaxOps
    /\ {announced, overlap, replanned} \subseteq BOOLEAN
    /\ plansUsed \subseteq Plans /\ toggled \subseteq Features

\* Every request that writes had the tenant to itself so far and ran to its end.
Calm == ~overlap /\ faults = 0

\* No two plans that administrators asked for have the same features.
Distinct ==
    \A p, q \in plansUsed : IncludedFeatures(p) = IncludedFeatures(q) => p = q

\* However stale the copies that updateTenant, the lifecycle operations and billing
\* messages save, the row pairs a plan with another plan's feature snapshot only when a
\* message brought a plan, which handleSubscriptionStatus writes alone, or when requests
\* overlapped and two plans have the same features, as every unknown code has those of
\* "free": then save() finds the plan changed and the features not.
SnapshotMatchesPlan ==
    Exists /\ ~replanned /\ (~overlap \/ Distinct) =>
        tenant.enabledFeatures = IncludedFeatures(tenant.currentPlan)

\* One at a time, operations and messages keep the status and its dates together.
StatusDated ==
    Calm => /\ tenant.status = "suspended" => tenant.suspendedAt # 0
            /\ tenant.status = "cancelled" => tenant.cancelledAt # 0
            /\ tenant.status = "active" => tenant.suspendedAt = 0

Present == {f \in Features : rows[f].id # 0}

\* Between requests that ran one at a time to their ends, tenant_features has a row for
\* every feature of the snapshot, and every other row, or row that is off, is the doing of
\* a toggle after the plan was set.  An empty snapshot says nothing of the rows: createTenant
\* leaves none and updateTenant those of its own map.
FlagsFollowTenant ==
    Calm /\ Quiet /\ tenant.enabledFeatures # {} =>
        /\ tenant.enabledFeatures \subseteq Present
        /\ \A f \in Present \ toggled :
              f \in tenant.enabledFeatures /\ rows[f].isEnabled = "on"

\* A tenant that was created is announced to billing unless something failed.
CreatedIsAnnounced == Quiet /\ Exists /\ faults = 0 => announced

\* Without overlapping requests, only billing brings a cancelled tenant back.
OnlyBillingRevives ==
    [][tenant.status = "cancelled" /\ tenant'.status # "cancelled" /\ ~overlap
       => \E r \in Requests : op[r].pc = "write" /\ op[r].by = "billing"]_vars

\* Without overlapping requests, a tenant loses its Stripe customer only to a PATCH that
\* says null.
CustomerKept ==
    [][tenant.stripeCustomerId # None /\ tenant'.stripeCustomerId = None /\ ~overlap
       => \E r \in Requests : op[r].pc = "write" /\ op[r].customer = None]_vars

\* The types, and what updateTenant, the lifecycle operations, billing messages and
\* createTenant leave behind when nothing overlaps or fails: a dated status, the
\* plan's feature rows but for toggles, and a tenant that billing knows of.
LifecycleInv == LifecycleTypeOK /\ StatusDated /\ FlagsFollowTenant /\ CreatedIsAnnounced

\* What no operation or message does alone, in any sequence of them: revive a cancelled
\* tenant, billing excepted, or lose its customer unasked.
LifecycleSteps == OnlyBillingRevives /\ CustomerKept

=============================================================================
