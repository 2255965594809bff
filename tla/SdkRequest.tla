------------------------------ MODULE SdkRequest ------------------------------
(***************************************************************************)
(* Requests to one process of a service built with the chassis SDK         *)
(* (packages/chassis-sdk): middleware, guards, the feature gate with its   *)
(* in-memory cache of the tenant manager's answers, the audit and timeout  *)
(* interceptors and the exception filter.  ChassisModule.forRoot mounts    *)
(* the middleware and JwtAuthGuard; the other guards and the interceptors  *)
(* are there when the service mounts them itself, and run behind           *)
(* JwtAuthGuard.  The tenant manager answers checks from Redis and its     *)
(* table.  The service's own handler is external.  Time is counted in      *)
(* ticks: entries and pending calls hold the ticks they have left.         *)
(***************************************************************************)
EXTENDS Naturals, Sequences

CONSTANTS
    Tenants,        \* the values of header x-tenant-id
    NoTenant,       \* no such header
    PlatformAdminTenant,  \* PLATFORM_ADMIN_TENANT_ID
    Callers,        \* the headers which the gateway forwards
    Routes,         \* the decorators on the service's handlers
    Options,        \* the configurations that processes are started with
    Requests,       \* the requests that may be in flight at once
    MaxSize,        \* MAX_CACHE_SIZE
    Ttl,            \* cacheTtlMs, in ticks
    FetchTimeout    \* the timeout of the call to the tenant manager, in ticks

\* user, admin: x-user-id is set, x-is-platform-admin is 'true'; allowed: x-roles and
\* x-permissions list what the route asks for.
Caller == [user : BOOLEAN, tenant : Tenants \cup {NoTenant}, admin : BOOLEAN,
           allowed : BOOLEAN]
\* @Public, @Roles, @RequirePermission, @RequireFeature and @AuditLog.
Route == [public : BOOLEAN, role : BOOLEAN, permission : BOOLEAN, feature : BOOLEAN,
          audited : BOOLEAN]
\* What a service may mount beside what ChassisModule.forRoot mounts.  For "gate" and "audit"
\* it also provides FEATURE_FLAG_CHECKER and AUDIT_PUBLISHER, which forRoot does not export
\* and without which the guard lets all pass and the interceptor is silent.
Parts == {"roles", "permissions", "gate", "audit", "timeout"}
\* gating: enableFeatureGating with tenantManagerUrl; auditing: enableAuditLogging with
\* rabbitmqUrl; served: the tenant manager has the route and the field that the SDK asks
\* for (this repository's has GET .../features/:code/check with data.enabled instead).
Option == [gating : BOOLEAN, auditing : BOOLEAN, mounted : SUBSET Parts, served : BOOLEAN]

ASSUME SdkAssumption ==
    /\ NoTenant \notin Tenants \cup {PlatformAdminTenant} /\ PlatformAdminTenant \notin Tenants
    /\ Callers \subseteq Caller /\ Routes \subseteq Route /\ Routes # {}
    /\ Options \subseteq Option
    /\ MaxSize \in Nat \ {0} /\ Ttl \in Nat \ {0} /\ FetchTimeout \in Nat \ {0}

VARIABLES
    options,    \* the configuration of this process
    flag,       \* tenant manager's tables: is the feature on for the tenant
    redis,      \* tenant manager's Redis: the key feature:<tenant>:<code>
    late,       \* tenant manager: reads of the table that nobody here waits for any more
    cache,      \* FeatureFlagService.cache, in the order of insertion
    req,        \* the requests
    sinceOn     \* history: ticks since the tenant manager last had it on, up to Stale

manager == <<flag, redis, late>>
vars == <<options, manager, cache, req, sinceOn>>

Stale == Ttl + FetchTimeout
Entry == [key : Tenants, value : BOOLEAN, left : 0..Ttl]
\* tenant: the header; context: the tenant in tenantStorage; fetched: what the tenant manager
\* answers, "absent" for the 404 of a route it does not have; effect: the handler made its
\* change.
Request == [pc : {"idle", "fetch", "fill", "reply", "handler", "over"},
            tenant : Tenants \cup {NoTenant},
            context : Tenants \cup {NoTenant, PlatformAdminTenant},
            route : Routes, left : 0..FetchTimeout,
            fetched : {"on", "off", "absent", "error"},
            answer : {0, 200, 401, 403, 408, 500}, effect : BOOLEAN, published : BOOLEAN]
Idle == [pc |-> "idle", tenant |-> NoTenant, context |-> NoTenant,
         route |-> CHOOSE d \in Routes : TRUE, left |-> 0, fetched |-> "error",
         answer |-> 0, effect |-> FALSE, published |-> FALSE]

Init ==
    /\ options \in Options
    /\ flag = [t \in Tenants |-> FALSE] /\ redis = [t \in Tenants |-> "none"] /\ late = {}
    /\ cache = <<>>
    /\ req = [r \in Requests |-> Idle]
    /\ sinceOn = [t \in Tenants |-> Stale]

At(r, pc) == req[r].pc = pc
Mounted(part) == part \in options.mounted
\* The call to the tenant manager is under way.
Calling(r) == req[r].pc \in {"fetch", "fill", "reply"}

-----------------------------------------------------------------------------
(* Middleware, guards and the feature cache.                               *)

\* Mutant: an administrator's header is passed over.
ContextOfAdmin(c) == IF c.admin THEN PlatformAdminTenant ELSE c.tenant
\* The tenant that TenantContextMiddleware puts into tenantStorage; NoTenant: none.
ContextOf(c) == IF c.tenant = NoTenant /\ c.admin THEN PlatformAdminTenant ELSE c.tenant

JwtAuthGuard(c, d) == d.public \/ c.user
RolesGuard(c, d) == ~Mounted("roles") \/ ~d.role \/ c.admin \/ c.allowed
PermissionsGuard(c, d) == ~Mounted("permissions") \/ ~d.permission \/ c.admin \/ c.allowed
\* The status of the first exception, the global guard's before the others'; 0: all pass.
GuardAnswer(c, d) ==
    IF ~JwtAuthGuard(c, d) THEN 401
    ELSE IF ~RolesGuard(c, d) \/ ~PermissionsGuard(c, d) THEN 403
    ELSE 0

\* Mutant: an entry is used whatever its age.
LiveStale(t) == {i \in DOMAIN cache : cache[i].key = t}
\* The entry of a tenant, if expiresAt is later than now.
Live(t) == {i \in DOMAIN cache : cache[i].key = t /\ cache[i].left > 0}

\* A full Map loses its oldest key, even if the key to set is in it; a key that is still in
\* the Map keeps its place.
SetCacheEntry(t, v) ==
    LET entry == [key |-> t, value |-> v, left |-> Ttl]
        kept == IF Len(cache) >= MaxSize THEN Tail(cache) ELSE cache
        at == {i \in DOMAIN kept : kept[i].key = t}
    IN  IF at = {} THEN Append(kept, entry) ELSE [i \in DOMAIN kept |->
                                                    IF i \in at THEN entry ELSE kept[i]]

\* A request that a guard's exception answers, and one that goes on to the handler.
Refused(status) == [Idle EXCEPT !.pc = "over", !.answer = status]
Admitted(q) == [q EXCEPT !.pc = "handler", !.left = 0, !.fetched = "error"]
Gated(q, on) == IF on THEN Admitted(q) ELSE Refused(403)
\* FeatureGateGuard is there, finds a feature code and FeatureFlagService is to ask for it.
GateAsks(d) == d.feature /\ Mounted("gate") /\ options.gating

\* A request arrives.  Up to the call of the tenant manager nothing is awaited.
Arrive(r, c, d) ==
    LET q == [Idle EXCEPT !.tenant = c.tenant, !.context = ContextOf(c), !.route = d]
        denied == GuardAnswer(c, d)
        live == Live(c.tenant)
    IN  /\ At(r, "idle")
        /\ req' = [req EXCEPT ![r] =
             IF denied # 0 THEN Refused(denied)
             ELSE IF ~GateAsks(d) THEN Admitted(q)
             ELSE IF live # {} THEN Gated(q, \A i \in live : cache[i].value)
             ELSE [q EXCEPT !.pc = "fetch", !.left = FetchTimeout]]
        /\ UNCHANGED <<options, manager, cache, sinceOn>>

-----------------------------------------------------------------------------
(* The tenant manager's side of the call: checkFeature, isFeatureEnabled.  *)

InTable(t) == IF flag[t] THEN "on" ELSE "off"

\* A router without the route answers 404.
ServeAbsent(r) ==
    /\ At(r, "fetch") /\ ~options.served
    /\ req' = [req EXCEPT ![r].pc = "reply", ![r].fetched = "absent"]
    /\ UNCHANGED <<options, manager, cache, sinceOn>>

\* A query fails, the service token is wrong, or the tenant id is 'undefined'.
ServeError(r) ==
    /\ req[r].pc \in {"fetch", "fill"}
    /\ req' = [req EXCEPT ![r].pc = "reply", ![r].fetched = "error"]
    /\ UNCHANGED <<options, manager, cache, sinceOn>>

\* The key is in Redis, or the table is read.
ServeRead(r) ==
    LET t == req[r].tenant
    IN  /\ At(r, "fetch") /\ options.served /\ t # NoTenant
        /\ req' = [req EXCEPT ![r].pc = IF redis[t] = "none" THEN "fill" ELSE "reply",
                              ![r].fetched = IF redis[t] = "none" THEN InTable(t) ELSE redis[t]]
        /\ UNCHANGED <<options, manager, cache, sinceOn>>

\* What was read is put into Redis and answered, whatever the table says by now.
ServeFill(r) ==
    LET q == req[r]
    IN  /\ At(r, "fill")
        /\ redis' = [redis EXCEPT ![q.tenant] = q.fetched]
        /\ req' = [req EXCEPT ![r].pc = "reply"]
        /\ UNCHANGED <<options, flag, late, cache, sinceOn>>

\* The same for callers elsewhere, and for one that has given up waiting.
OtherRead(t) ==
    /\ redis[t] = "none"
    /\ late' = late \cup {<<t, InTable(t)>>}
    /\ UNCHANGED <<options, flag, redis, cache, req, sinceOn>>

LateFill(t, v) ==
    /\ <<t, v>> \in late
    /\ redis' = [redis EXCEPT ![t] = v]
    /\ late' = late \ {<<t, v>>}
    /\ UNCHANGED <<options, flag, cache, req, sinceOn>>

\* toggleFeature saves the row,
SetFlag(t) ==
    /\ flag' = [flag EXCEPT ![t] = ~@]
    /\ sinceOn' = [sinceOn EXCEPT ![t] = 0]
    /\ UNCHANGED <<options, redis, late, cache, req>>

\* and its DEL comes later, if it comes.  Keys also run out after five minutes.
DropKey(t) ==
    /\ redis[t] # "none"
    /\ redis' = [redis EXCEPT ![t] = "none"]
    /\ UNCHANGED <<options, flag, late, cache, req, sinceOn>>

-----------------------------------------------------------------------------
(* The end of the call.                                                    *)

\* The answer is read: an error refuses the request and is not cached.
Receive(r) ==
    LET q == req[r]
    IN  /\ At(r, "reply")
        /\ cache' = IF q.fetched \in {"absent", "error"} THEN cache
                    ELSE SetCacheEntry(q.tenant, q.fetched = "on")
        /\ req' = [req EXCEPT ![r] = Gated(q, q.fetched = "on")]
        /\ UNCHANGED <<options, manager, sinceOn>>

\* What the tenant manager goes on to put into Redis for request r.
Behind(r) == IF At(r, "fill") THEN {<<req[r].tenant, req[r].fetched>>} ELSE {}

\* AbortSignal.timeout ends the call, and whatever it answers later is dropped.
FetchAbort(r) ==
    /\ Calling(r) /\ req[r].left = 0
    /\ req' = [req EXCEPT ![r] = Refused(403)]
    /\ late' = late \cup Behind(r)
    /\ UNCHANGED <<options, flag, redis, cache, sinceOn>>

-----------------------------------------------------------------------------
(* The handler and the interceptors around it.                             *)

\* The handler commits its change.
Handle(r) ==
    /\ At(r, "handler") /\ ~req[r].effect
    /\ req' = [req EXCEPT ![r].effect = TRUE]
    /\ UNCHANGED <<options, manager, cache, sinceOn>>

\* AuditInterceptor is there and has an action to report, and AuditPublisherService has a
\* channel to hand it to.
Publishes(d) == d.audited /\ Mounted("audit") /\ options.auditing

\* Mutant: the event is published although the timeout was answered.
ReturnPublishes(r) ==
    /\ At(r, "handler") /\ req[r].effect
    /\ req' = [req EXCEPT ![r] = [@ EXCEPT
         !.pc = "over", !.tenant = NoTenant, !.context = NoTenant,
         !.published = Publishes(req[r].route),
         !.answer = IF @ = 0 THEN 200 ELSE @]]
    /\ UNCHANGED <<options, manager, cache, sinceOn>>

\* The handler's value arrives.  Once TimeoutInterceptor has unsubscribed nobody is there
\* to publish or to answer.
Return(r) ==
    LET q == req[r]
        waiting == q.answer = 0
    IN  /\ At(r, "handler") /\ q.effect
        /\ req' = [req EXCEPT ![r] = [q EXCEPT
             !.pc = "over", !.tenant = NoTenant, !.context = NoTenant,
             !.published = waiting /\ Publishes(q.route),
             !.answer = IF waiting THEN 200 ELSE @]]
        /\ UNCHANGED <<options, manager, cache, sinceOn>>

\* The statuses that a handler's exceptions have, as far as the guards have them too.
Thrown == {401, 403, 500}

\* The handler throws, before or after its change; the exception filter answers.
Throw(r, status) ==
    /\ At(r, "handler")
    /\ req' = [req EXCEPT ![r] = [req[r] EXCEPT
         !.pc = "over", !.tenant = NoTenant, !.context = NoTenant,
         !.answer = IF @ = 0 THEN status ELSE @]]
    /\ UNCHANGED <<options, manager, cache, sinceOn>>

\* Mutant: a timeout that is never set.
TimeOutNever(r) == FALSE /\ UNCHANGED vars
\* TimeoutInterceptor, where it is mounted, answers for a handler that takes too long; the
\* handler goes on.
TimeOut(r) ==
    /\ Mounted("timeout") /\ At(r, "handler") /\ req[r].answer = 0
    /\ req' = [req EXCEPT ![r].answer = 408]
    /\ UNCHANGED <<options, manager, cache, sinceOn>>

\* The request is over and its place is taken by others.
Leave(r) ==
    /\ At(r, "over")
    /\ req' = [req EXCEPT ![r] = Idle]
    /\ UNCHANGED <<options, manager, cache, sinceOn>>

-----------------------------------------------------------------------------
(* Time and crashes.                                                       *)

Less(n) == IF n = 0 THEN 0 ELSE n - 1

\* The tenant manager has "on" for t: in its table, in Redis, or on the way there.
HasOn(t) ==
    \/ flag[t] \/ redis[t] = "on" \/ <<t, "on">> \in late
    \/ \E r \in Requests : At(r, "fill") /\ req[r].tenant = t /\ req[r].fetched = "on"

\* Timers are prompt: no tick passes while a call is due to be aborted.
Tick ==
    /\ \A r \in Requests : Calling(r) => req[r].left > 0
    /\ cache' = [i \in DOMAIN cache |-> [cache[i] EXCEPT !.left = Less(@)]]
    /\ req' = [r \in Requests |-> [req[r] EXCEPT !.left = Less(@)]]
    /\ sinceOn' = [t \in Tenants |-> IF HasOn(t) THEN 0
                                     ELSE IF sinceOn[t] = Stale THEN Stale
                                     ELSE sinceOn[t] + 1]
    /\ UNCHANGED <<options, manager>>

\* The process dies and is started again: the cache and the requests are gone.
Restart ==
    /\ cache' = <<>> /\ req' = [r \in Requests |-> Idle]
    /\ late' = late \cup UNION {Behind(r) : r \in Requests}
    /\ UNCHANGED <<options, flag, redis, sinceOn>>

-----------------------------------------------------------------------------
Next ==
    \/ \E r \in Requests :
          \/ \E c \in Callers, d \in Routes : Arrive(r, c, d)
          \/ ServeAbsent(r) \/ ServeError(r) \/ ServeRead(r) \/ ServeFill(r)
          \/ Receive(r) \/ FetchAbort(r)
          \/ Handle(r) \/ Return(r) \/ TimeOut(r) \/ Leave(r)
          \/ \E status \in Thrown : Throw(r, status)
    \/ \E t \in Tenants :
          \/ SetFlag(t) \/ DropKey(t) \/ OtherRead(t)
          \/ \E v \in {"on", "off"} : LateFill(t, v)
    \/ Tick \/ Restart

\* Time passes and timers fire.  Neither the tenant manager nor the handler need ever answer.
Fairness == WF_vars(Tick) /\ \A r \in Requests : WF_vars(FetchAbort(r) \/ TimeOut(r))

Spec == Init /\ [][Next]_vars /\ Fairness

-----------------------------------------------------------------------------
(* Properties.                                                             *)

\* The types; the cache is a Map, with one entry for a key, and never holds more than
\* MAX_CACHE_SIZE keys, however many requests fill it at once.
SdkTypeOK ==
    /\ options \in Options
    /\ flag \in [Tenants -> BOOLEAN] /\ redis \in [Tenants -> {"none", "on", "off"}]
    /\ late \subseteq Tenants \X {"on", "off"}
    /\ cache \in Seq(Entry) /\ Len(cache) <= MaxSize
    /\ \A i, j \in DOMAIN cache : cache[i].key = cache[j].key => i = j
    /\ req \in [Requests -> Request]
    /\ sinceOn \in [Tenants -> 0..Stale]

\* Whoever passes the feature gate asks for a tenant whose feature the tenant manager had on,
\* in its table or in its own cache of five minutes, a time ago that is less than the life
\* of an entry of the SDK's cache and the timeout of a call, whatever order the answers of
\* overlapping calls arrive in and whether or not the tenant manager can be reached.
OpenOnlyIfRecentlyOn ==
    [][\A r \in Requests :
          ~At(r, "handler") /\ At(r, "handler")' /\ GateAsks(req'[r].route)
             => /\ req'[r].tenant # NoTenant
                /\ sinceOn[req'[r].tenant] < Stale]_vars

\* Behind the gate the handler works for the tenant that the gate asked about: it read the
\* header, the repositories read tenantStorage.
GateAndContextAgree ==
    \A r \in Requests :
        At(r, "handler") /\ GateAsks(req[r].route)
           => req[r].context = req[r].tenant

\* The types with the bound of the cache, and one tenant behind the gate.
SdkInv == SdkTypeOK /\ GateAndContextAgree

\* Where AuditInterceptor is mounted, an event is published for nothing but a change whose
\* request is answered with success, and success is answered for no unpublished change of
\* an audited route.  A change behind an error, a timeout's included, has no event.
AuditFollowsAnswer ==
    \A r \in Requests :
        LET q == req[r]
        IN  /\ q.published => q.effect /\ q.answer = 200
            /\ q.answer = 200 /\ Publishes(q.route) => q.published

\* Where TimeoutInterceptor is mounted every request is answered, even if neither the tenant
\* manager nor the handler is heard of again.
EveryRequestAnswered ==
    \A r \in Requests : []<>(At(r, "idle") \/ req[r].answer # 0 \/ ~Mounted("timeout"))

=============================================================================
