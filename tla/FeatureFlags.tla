---------------------------- MODULE FeatureFlags ----------------------------
(***************************************************************************)
(* The feature flags of one tenant (tenant-manager, modules/features): the *)
(* table tenant_features, the Redis keys feature:<tenant>:<code> that      *)
(* cache the answers of isFeatureEnabled for five minutes, and the         *)
(* requests that read, toggle and replace the flags.                       *)
(*                                                                         *)
(* A request is split at its awaits.  TypeORM's save() of a loaded row     *)
(* updates the row with that id and inserts it again when it is gone; an   *)
(* insert fails when another row has the tenant and the feature code.      *)
(***************************************************************************)
EXTENDS Naturals

CONSTANTS
    Features,      \* feature codes, all of them in feature_definitions
    Default,       \* the features with default_enabled
    FeatureSets,   \* the included_features of the plans
    Requests,      \* the requests that may be in flight at once
    MaxWrites,     \* bound: toggles and replacements
    MaxFaults      \* bound: failing calls and crashes

ASSUME FlagsAssumption ==
    /\ Features # {} /\ Default \subseteq Features
    /\ FeatureSets \subseteq SUBSET Features
    /\ MaxWrites \in Nat /\ MaxFaults \in Nat

VARIABLES
    rows,      \* table tenant_features: the row of each feature
    lastId,    \* the id given to the row inserted last
    cache,     \* Redis: the answer cached for each feature
    req,       \* the requests
    writes,    \* writes begun
    faults,    \* faults so far
    excused    \* history: features whose cache entry a known race left stale

flagVars == <<rows, lastId, cache, req, writes, faults, excused>>

Flags == {"on", "off"}
Row == [id : Nat, isEnabled : Flags]
NoRow == [id |-> 0, isEnabled |-> "off"]
Reading == {"override", "default", "fill"}
Toggling == {"load", "save", "del"}
Replacing == {"delete", "insert", "scan", "delKeys"}
Request == [pc : {"idle"} \cup Reading \cup Toggling \cup Replacing,
            feature : Features, value : Flags, id : Nat,
            codes : SUBSET Features, todo : SUBSET Features, keys : SUBSET Features]
AFeature == CHOOSE f \in Features : TRUE
Idle == [pc |-> "idle", feature |-> AFeature, value |-> "off", id |-> 0,
         codes |-> {}, todo |-> {}, keys |-> {}]

DefaultOf(f) == IF f \in Default THEN "on" ELSE "off"
\* What findTenantFeatures and isFeatureEnabled compute from the tables.
Effective(f) == IF rows[f].id # 0 THEN rows[f].isEnabled ELSE DefaultOf(f)
Cached(f) == cache[f] # "none"
Stale(f) == Cached(f) /\ cache[f] # Effective(f)

\* The rows createTenant inserts.
RowsOf(codes) == [f \in Features |-> IF f \in codes THEN [id |-> 1, isEnabled |-> "on"]
                                                   ELSE NoRow]

\* Ids tell the rows of one feature apart.
FlagsStart(codes) ==
    /\ rows = RowsOf(codes)
    /\ lastId = 1
    /\ cache = [f \in Features |-> "none"]
    /\ req = [r \in Requests |-> Idle]
    /\ writes = 0 /\ faults = 0
    /\ excused = {}

\* A tenant with one of the plans.
FlagsInit == \E codes \in FeatureSets : FlagsStart(codes)

Goto(r, pc) == req' = [req EXCEPT ![r].pc = pc]
Finish(r) == req' = [req EXCEPT ![r] = Idle]
\* The request ends early; entries it was to invalidate stay as they are.
GiveUp(r) ==
    /\ Finish(r)
    /\ excused' = excused \cup {f \in Features : Stale(f)}
Insert(f, v) ==
    /\ lastId' = lastId + 1
    /\ rows' = [rows EXCEPT ![f] = [id |-> lastId + 1, isEnabled |-> v]]

-----------------------------------------------------------------------------
(* isFeatureEnabled.  A hit is answered and changes nothing.               *)

CheckMisses(r, f) ==
    /\ req[r].pc = "idle" /\ ~Cached(f)
    /\ req' = [req EXCEPT ![r] = [Idle EXCEPT !.pc = "override", !.feature = f]]
    /\ UNCHANGED <<rows, lastId, cache, writes, faults, excused>>

\* Mutant: the default is cached although there is an override.
ReadOverrideDefaultFirst(r) ==
    /\ req[r].pc = "override"
    /\ req' = [req EXCEPT ![r].pc = "fill", ![r].value = DefaultOf(req[r].feature)]
    /\ UNCHANGED <<rows, lastId, cache, writes, faults, excused>>

ReadOverride(r) ==
    LET row == rows[req[r].feature]
    IN  /\ req[r].pc = "override"
        /\ req' = [req EXCEPT ![r].pc = IF row.id # 0 THEN "fill" ELSE "default",
                              ![r].value = row.isEnabled]
        /\ UNCHANGED <<rows, lastId, cache, writes, faults, excused>>

ReadDefault(r) ==
    /\ req[r].pc = "default"
    /\ req' = [req EXCEPT ![r].pc = "fill", ![r].value = DefaultOf(req[r].feature)]
    /\ UNCHANGED <<rows, lastId, cache, writes, faults, excused>>

Fill(r) ==
    LET f == req[r].feature
    IN  /\ req[r].pc = "fill"
        /\ cache' = [cache EXCEPT ![f] = req[r].value]
        /\ excused' = IF req[r].value = Effective(f) THEN excused \ {f}
                                                     ELSE excused \cup {f}
        /\ Finish(r)
        /\ UNCHANGED <<rows, lastId, writes, faults>>

\* Mutant: set instead of setex, so nothing expires.
ExpireNever(f) == FALSE /\ Cached(f) /\ UNCHANGED flagVars

\* The five minutes of an entry end.
Expire(f) ==
    /\ Cached(f)
    /\ cache' = [cache EXCEPT ![f] = "none"]
    /\ excused' = excused \ {f}
    /\ UNCHANGED <<rows, lastId, req, writes, faults>>

-----------------------------------------------------------------------------
(* toggleFeature.                                                          *)

Toggle(r, f, v) ==
    /\ req[r].pc = "idle" /\ writes < MaxWrites
    /\ writes' = writes + 1
    /\ req' = [req EXCEPT ![r] = [Idle EXCEPT !.pc = "load", !.feature = f, !.value = v]]
    /\ UNCHANGED <<rows, lastId, cache, faults, excused>>

ToggleLoad(r) ==
    /\ req[r].pc = "load"
    /\ req' = [req EXCEPT ![r].pc = "save", ![r].id = rows[req[r].feature].id]
    /\ UNCHANGED <<rows, lastId, cache, writes, faults, excused>>

\* Mutant: the toggle saves the row and forgets the cache.
ToggleSaveNoDel(r) ==
    LET f == req[r].feature
    IN  /\ req[r].pc = "save"
        /\ rows[f].id \in {0, req[r].id}
        /\ IF rows[f].id = 0
             THEN Insert(f, req[r].value)
             ELSE rows' = [rows EXCEPT ![f].isEnabled = req[r].value] /\ UNCHANGED lastId
        /\ Finish(r)
        /\ UNCHANGED <<cache, writes, faults, excused>>

ToggleSave(r) ==
    LET f == req[r].feature
    IN  /\ req[r].pc = "save"
        /\ \/ /\ rows[f].id = 0
              /\ Insert(f, req[r].value)
              /\ Goto(r, "del") /\ UNCHANGED excused
           \/ /\ rows[f].id # 0 /\ rows[f].id = req[r].id
              /\ rows' = [rows EXCEPT ![f].isEnabled = req[r].value]
              /\ Goto(r, "del") /\ UNCHANGED <<lastId, excused>>
           \* the insert meets another request's row: unique violation
           \/ /\ rows[f].id # 0 /\ rows[f].id # req[r].id
              /\ GiveUp(r) /\ UNCHANGED <<rows, lastId>>
        /\ UNCHANGED <<cache, writes, faults>>

ToggleDel(r) ==
    LET f == req[r].feature
    IN  /\ req[r].pc = "del"
        /\ cache' = [cache EXCEPT ![f] = "none"]
        /\ excused' = excused \ {f}
        /\ Finish(r)
        /\ UNCHANGED <<rows, lastId, writes, faults>>

-----------------------------------------------------------------------------
(* replaceTenantFeatures and invalidateTenantFeatureCache, which follow a  *)
(* plan change.                                                            *)

DeleteRows(r) ==
    /\ req[r].pc = "delete"
    /\ rows' = [f \in Features |-> NoRow]
    /\ req' = [req EXCEPT ![r].pc = "insert", ![r].todo = req[r].codes]
    /\ UNCHANGED <<lastId, cache, writes, faults, excused>>

InsertRow(r, f) ==
    /\ req[r].pc = "insert" /\ f \in req[r].todo
    /\ \/ /\ rows[f].id = 0
          /\ Insert(f, "on")
          /\ req' = [req EXCEPT ![r].todo = @ \ {f}]
          /\ UNCHANGED excused
       \/ /\ rows[f].id # 0
          /\ GiveUp(r) /\ UNCHANGED <<rows, lastId>>
    /\ UNCHANGED <<cache, writes, faults>>

\* Where the scan for the tenant's keys begins.
ScanFrom == [Idle EXCEPT !.pc = "scan", !.todo = Features]

RowsReplaced(r) ==
    /\ req[r].pc = "insert" /\ req[r].todo = {}
    /\ req' = [req EXCEPT ![r] = ScanFrom]
    /\ UNCHANGED <<rows, lastId, cache, writes, faults, excused>>

\* SCAN walks the keyspace in several calls: a key that is there all the time is
\* returned, and another one if it is there when its part is visited.
Scan(r, f) ==
    /\ req[r].pc = "scan" /\ f \in req[r].todo
    /\ req' = [req EXCEPT ![r].todo = @ \ {f},
                          ![r].keys = IF Cached(f) THEN @ \cup {f} ELSE @]
    /\ UNCHANGED <<rows, lastId, cache, writes, faults, excused>>

ScanDone(r) ==
    /\ req[r].pc = "scan" /\ req[r].todo = {}
    /\ Goto(r, "delKeys")
    /\ UNCHANGED <<rows, lastId, cache, writes, faults, excused>>

DelKeys(r) ==
    /\ req[r].pc = "delKeys"
    /\ cache' = [f \in Features |-> IF f \in req[r].keys THEN "none" ELSE cache[f]]
    /\ excused' = excused \ req[r].keys
    /\ Finish(r)
    /\ UNCHANGED <<rows, lastId, writes, faults>>

\* updateTenant reaches this point with the features of the new plan.
Replace(r, codes) ==
    /\ req[r].pc = "idle" /\ writes < MaxWrites
    /\ writes' = writes + 1
    /\ req' = [req EXCEPT ![r] = [Idle EXCEPT !.pc = "delete", !.codes = codes]]
    /\ UNCHANGED <<rows, lastId, cache, faults, excused>>

\* A database or Redis call fails, or the process dies.
FlagsAbort(r) ==
    /\ req[r].pc # "idle" /\ faults < MaxFaults
    /\ faults' = faults + 1
    /\ GiveUp(r)
    /\ UNCHANGED <<rows, lastId, cache, writes>>

-----------------------------------------------------------------------------
\* What a request does by itself once it is under way.
ReplaceStep(r) ==
    \/ DeleteRows(r) \/ RowsReplaced(r) \/ ScanDone(r) \/ DelKeys(r)
    \/ \E f \in Features : InsertRow(r, f) \/ Scan(r, f)
FlagsStep(r) ==
    \/ ReadOverride(r) \/ ReadDefault(r) \/ Fill(r)
    \/ ToggleLoad(r) \/ ToggleSave(r) \/ ToggleDel(r)
    \/ ReplaceStep(r)

FlagsNext ==
    \/ \E r \in Requests :
          \/ FlagsStep(r) \/ FlagsAbort(r)
          \/ \E f \in Features : CheckMisses(r, f) \/ \E v \in Flags : Toggle(r, f, v)
          \/ \E codes \in FeatureSets : Replace(r, codes)
    \/ \E f \in Features : Expire(f)

\* Handlers run to their end, and Redis drops entries when their time is over.
FlagsFairness ==
    /\ \A r \in Requests : WF_flagVars(FlagsStep(r))
    /\ \A f \in Features : WF_flagVars(Expire(f))

FlagsSpec == FlagsInit /\ [][FlagsNext]_flagVars /\ FlagsFairness

-----------------------------------------------------------------------------
(* Properties.                                                             *)

FlagsTypeOK ==
    /\ rows \in [Features -> Row]
    /\ lastId \in Nat
    /\ cache \in [Features -> Flags \cup {"none"}]
    /\ req \in [Requests -> Request]
    /\ writes \in Nat /\ faults \in Nat
    /\ excused \subseteq Features

\* A request that changed the row of f and has not yet invalidated its entry.
WillInvalidate(r, f) ==
    \/ req[r].pc = "del" /\ req[r].feature = f
    \/ req[r].pc = "insert"
    \/ req[r].pc = "scan" /\ f \in req[r].todo \cup req[r].keys
    \/ req[r].pc = "delKeys" /\ f \in req[r].keys

\* A cached answer differs from the tables only while the writer that is to invalidate
\* it is on its way, or because a check filled the cache with what it read before the
\* write, or because a writer failed half-way (toggleFeature, replaceTenantFeatures and
\* invalidateTenantFeatureCache against isFeatureEnabled).
StaleOnlyByRace ==
    \A f \in Features : Stale(f) =>
        f \in excused \/ \E r \in Requests : WillInvalidate(r, f)

\* The types, and that no cached answer is stale but by a race or a failure.
FlagsInv == FlagsTypeOK /\ StaleOnlyByRace

\* The values that checks of f may still be answered with: the current one, the cached
\* one, and those that checks under way have read.
Window(f) ==
    {Effective(f)} \cup ({cache[f]} \ {"none"})
    \cup {req[r].value : r \in {q \in Requests : req[q].pc = "fill" /\ req[q].feature = f}}
    \cup {DefaultOf(f) : r \in {q \in Requests : req[q].pc = "default" /\ req[q].feature = f}}

Promise == INSTANCE FlagPromise
    WITH value <- [f \in Features |-> Effective(f)],
         window <- [f \in Features |-> Window(f)]

\* The cache keeps the promise of FlagPromise: whatever the interleaving of checks,
\* toggles, plan changes, expiry and failures, an old value that can no longer be
\* answered does not come back without a write.
KeepsPromise == Promise!Spec

\* Once the writes are over the cache converges to the tables, stale fills and
\* half-way failures included: setex gives every entry an end.
EventuallyFresh == <>[](\A f \in Features : ~Stale(f))

=============================================================================
