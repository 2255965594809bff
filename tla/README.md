# Verification of the SaaS chassis

TLA+ models of the services in this repository, the TLC runs that check them on
small instances, and TLAPS proofs for every instance. The models are translated
from the source; `PROJECT.json` maps each definition to the lines it models.

## 1. Inventory

| Component | State it keeps | Operations | Interacts with | What makes it hard |
| --- | --- | --- | --- | --- |
| Universal ledger (C#) | tables `accounts`, `journal_entries`, `journal_lines`, `fiscal_periods` | create, post and reverse entries; create and close periods; activate accounts; reports | publishes to `chassis.ledger` after its commits | handlers load, check and save in separate steps and no row has a concurrency token |
| Audit consumer (Go) | the batch of `StartConsumer`; table `audit.entries` | receive, flush (insert, then ack or nack), reconnect | consumes `audit.log-entry`, to which every service publishes | lost channels, crashes, timeouts, redelivery, poison events |
| Billing engine (NestJS) | tables `subscriptions`, `invoices`, `webhook_events` | Stripe webhooks, `tenant.provisioned`, subscription endpoints | Stripe; publishes `billing.synced`, `subscription.status` | duplicated and reordered webhooks, failures in the middle |
| Tenant manager (NestJS) | tables `tenants`, `tenant_features`, `plans`; Redis feature cache | create, update, suspend, activate, archive; toggle features; billing events | calls identity service; publishes `tenant.*`; consumes billing events | administrators racing billing events; cache filled from stale reads |
| Identity service (NestJS) | users, memberships, roles, refresh tokens, impersonation sessions; Redis counters and blacklist | login, refresh, logout, switch tenant, impersonate, assign role | publishes `user.*` audit events | lockout counter, revocation, non-atomic remove-and-create |
| API gateway (Go) | Redis rate-limit counters and metering hashes; table `gateway.api_requests` | authenticate, limit, meter, proxy, flush every five minutes | all services | increments racing the flusher, windows and expiry |
| Chassis SDK (TypeScript) | feature flag cache | guards, interceptors, tenant context, of which `ChassisModule.forRoot` mounts the middleware and `JwtAuthGuard` | tenant manager, broker | staleness of the cache; what a service has to mount itself |
| Database schema and RLS | policies per table | tenant context per connection | all services | context outliving its request |
| Broker topology | `definitions.json` | exchanges, queues, bindings | all services | routing keys and patterns must agree |

What each component has to get right:

- **Ledger**: posted entries balance; reversals mirror what they reverse, once;
  a closed period takes no entries; a close moves exactly the profit into
  Retained Surplus; reports add up; events are about committed data.
- **Audit consumer**: no storable event is lost; duplicates only through faults;
  good events are stored in the end; the prefetch bound holds.
- **Billing and tenants**: an event takes effect once; the tenant's status
  follows the subscription; every provisioned tenant gets one customer.
- **Identity**: a revoked token stays revoked; the lockout counts every failure
  and ends; a member never loses a membership by changing role.
- **SDK**: the gate opens only for tenants that have the feature; changes are
  audited; every request is answered.
- **Gateway**: the limits bound what passes; every request is metered once.
- **Features**: the cache converges to the table.

The hazards behind these properties are listed with their lines in
`PROJECT.json`. Some of these properties the code does not have: section 5 says where,
and the runs and the proofs say what holds instead, with the exceptions named in the
properties.

## 2. Modules

| Module | Models |
| --- | --- |
| `Ledger` | one tenant's ledger: handlers of `services/universal-ledger`, split at their awaits |
| `LedgerProofs` | its inductive invariants and theorems, and the facts about sums they need |
| `MCLedger` | small charts of accounts, line sets and periods for TLC |
| `AuditConsumer` | `audit.log-entry`, `StartConsumer`, `BatchInsert` |
| `AuditConsumerProofs` | its inductive invariant and theorems |
| `MCAuditConsumer` | a small set of good, tenantless, malformed and refused events |
| `BillingWebhooks` | the webhook endpoint of `services/billing-engine`, its tables, `onTenantProvisioned`, and Stripe |
| `BillingWebhooksProofs` | its inductive invariants and theorems: always, with the rows hidden, without faults, and in order |
| `MCBillingWebhooks` | the symmetry of tenants, customers and requests for TLC |
| `FlagPromise` | abstract: what a flag service with a cache promises about its answers |
| `FeatureFlags` | one tenant's `tenant_features`, the Redis cache, and `features.service` |
| `TenantLifecycle` | extends `FeatureFlags`: the tenant's row, `tenants.service`, billing messages |
| `TenantManagerProofs` | theorems about `FeatureFlags`, its refinement of `FlagPromise`, and `TenantLifecycle` |
| `AuthSessions` | one account of the identity service: login counter, refresh tokens, blacklist |
| `Memberships` | one user's memberships, role assignment, and the access tokens that carry them |
| `Impersonation` | impersonation sessions with one target user |
| `SdkRequest` | requests to one process built with `packages/chassis-sdk` |
| `AuthSessionsProofs`, `MembershipsProofs`, `ImpersonationProofs`, `SdkRequestProofs` | their inductive invariants and theorems |
| `MCFeatureFlags`, `MCTenantLifecycle`, `MCAuthSessions`, `MCMemberships`, `MCImpersonation`, `MCSdkRequest` | instances of these for TLC |

### Ledger

`entries` and `periods` are the tables as sequences; a row's id is its position,
0 is null. An entry's lines are kept as one debit and one credit sum per
account, which is all the code computes with. `active` is `accounts.is_active`,
`today` the server's UTC date, `published` the events on `chassis.ledger`. Each
request has a program counter and its DbContext: the id it loaded (`target`), the
entries it read (`seen`) and the rows it will insert (`adds`).

| Action | Code |
| --- | --- |
| `CreateEntry`, `CreateEntrySave` | `CreateJournalEntryHandler`: period check; insert |
| `PostEntry`, `PostEntrySave`, `PostEntryPublish` | `PostJournalEntryHandler`: load and `Post`; save; publish |
| `ReverseEntry`, `ReverseEntrySave` | `ReverseJournalEntryHandler`: load and `CreateReversal`; save |
| `CreatePeriod` | `CreateFiscalPeriodHandler` (one insert, guarded by the unique key) |
| `ClosePeriod`, `ClosePeriodReadEntries`, `ClosePeriodReadAccounts`, `ClosePeriodSave`, `ClosePeriodPublish` | `CloseFiscalPeriodHandler`: load; read entries and refuse drafts; read accounts and build the closing and opening entries; save; publish |
| `UpdateAccount` | `PATCH /accounts/:id` |
| `Abort` | an exception or a dying process between two awaits |
| `Tick` | the calendar |

A save writes only the columns its handler changed (EF Core change tracking) and
does not look at what other requests saved since the load: there is no
concurrency token and no lock. `Abort` covers every failure between two awaits,
a failing `SaveChanges` (one transaction) and a broker that is down included; an
event lost after its commit is one of its cases. Error replies differ only in
their code, so all of them are the step `Respond`.

### AuditConsumer

The broker has `queue` (ready) and `unacked`; `buffered` are deliveries the AMQP
library has taken from the socket and the select loop has not read; `batch` is
the consumer's `batch` and `pending`; `rows` counts rows of `audit.entries` per
message. A closing channel requeues what is unacked, but the consumer still
drains `buffered` and flushes `batch`: these stale copies may be inserted
although the broker delivers the message again. `CommitAnswerLost` is a commit
that succeeds while `BatchInsert` returns an error (the 15 s timeout, a broken
connection). `Crash` is a kill, or a shutdown, for which `main` does not wait.

### BillingWebhooks

Stripe is external: `events` is its log, `customers` the tenant in each
customer's metadata, `stripeSub` the state of each customer's subscription,
`acked` the events one delivery of which was answered 200, `unanswered` those
with a delivery that failed or died. `stored`, `processed` and `errored` are the
rows and two columns of `webhook_events`; `subscriptions` has one row per tenant
and `invoices` the tenant of each recorded invoice. `workers` are the webhook
requests with the row copy each holds, `prov` and `due` the runs and messages of
`onTenantProvisioned`.

| Action | Code |
| --- | --- |
| `Deliver`, `Upsert` | `handleWebhook`: look for a processed row; upsert the row |
| `Route` with `SubscriptionCreated`, `SubscriptionUpdated`, `InvoicePaid`, `InvoicePaymentFailed`, `CustomerCreated` | the event router and each handler up to its first query |
| `Save`, `UpdateStatus` | `save()` of the loaded row; `update()` of one column |
| `FindInvoice`, `SaveInvoice` | `upsertFromStripe` and the message after it |
| `PublishStatus`, `Mark`, `RecordError`, `Respond` | `publishSubscriptionStatus`; the processed flag; the catch block; the answer |
| `CallFails`, `Crash` | an error inside or outside the try block; the process dies |
| `CreateCustomer`, `CreateSubscription`, `PublishSynced`, `ProvisionFails` | `onTenantProvisioned` |
| `CreateCheckout` | `POST /api/v1/billing/checkout` |
| `CheckoutCompleted`, `TrialEnds`, `PaymentFailed`, `PaymentSucceeded`, `SubscriptionDeleted` | Stripe |

TypeORM's `save()` compares the loaded entity with the stored row and writes the
columns that differ, so a stale copy overwrites what was saved in between; its
comparison and its UPDATE are one step here. A publish without a channel drops
the message. The Nest consumer is created with `noAck: false` and never acks, so
a restart brings back every `tenant.provisioned` message. `RowsVisible` says
whether the database role is exempt from row level security: webhook requests and
consumers carry no tenant context, and for the deployed role `chassis_app` the
policies hide every row from them. `InOrder` restricts Stripe to one event at a
time. A customer has one Stripe subscription; plans, billing periods and amounts
are left out because no step branches on them, and so are event types the router
ignores, deliveries with a bad signature (rejected before anything is stored) and
customers created outside this program, which have no tenant in their metadata.

### FeatureFlags and FlagPromise

`rows` has the row of each feature (its id and flag), `cache` the keys
`feature:<tenant>:<code>`. A request is a check, a toggle or the replacement that
follows a plan change.

| Action | Code |
| --- | --- |
| `CheckMisses`, `ReadOverride`, `ReadDefault`, `Fill` | `isFeatureEnabled`: the miss, its two queries, `setex` |
| `Toggle`, `ToggleLoad`, `ToggleSave`, `ToggleDel` | `toggleFeature`: load, `save()`, `del` |
| `Replace`, `DeleteRows`, `InsertRow`, `RowsReplaced` | `replaceTenantFeatures` |
| `Scan`, `ScanDone`, `DelKeys` | `invalidateTenantFeatureCache`: SCAN visits the keys one by one, then one `del` |
| `Expire`, `FlagsAbort` | the five minutes of an entry; a failing call or a crash |

`save()` of a row that is gone inserts it again, and meets the unique key when
another request inserted one. `excused` is a history variable: the features whose
entry is stale because a check filled the cache with what it had read before a
write, or because a writer failed half-way. `StaleOnlyByRace` says that nothing
else leaves a stale entry behind.

`FlagPromise` is the abstract service: a check may be answered with any value in
the feature's window; an old value that has left the window returns only through a
write. `KeepsPromise` is the refinement: `value` is what the tables say, `window`
that value, the cached one, and those that checks under way have read.

### TenantLifecycle

The composition of the tenant's row with its feature flags. `tenant` is the row,
`op` each request's operation with its copy of the row. Every handler loads the
row, changes its copy and saves it; `save()` reads the row again (`Compare`) and
updates the columns that differ (`Write`), so both reads may be stale. A plan
change goes on to `ReplaceStep` of `FeatureFlags`, an archival to the scan.

| Action | Code |
| --- | --- |
| `CreateTenant`, `CreateMembership`, `CreateAnnounce` | `createTenant`: the transaction; the identity call; `tenant.provisioned` |
| `UpdateTenant`, `SuspendTenant`, `ActivateTenant`, `ArchiveTenant` | load, check and change of the copy |
| `HandleSubscriptionStatus`, `HandleBillingSynced` | the billing messages: `save()` and `update()` |
| `Compare`, `Write`, `Abort` | `save()`; failures and crashes |
| `Check`, `ToggleFeature`, `ReplaceRows`, `FlagsGoOn`, `FlagsFail`, `EntryExpires` | the steps of `FeatureFlags` beside them |

The number of an operation serves as its date. `Plans` are the codes a request may
name, `Listed` those in table `plans`; `IncludedFeatures` is `plans.service`: an
unlisted code is stored as asked for, with the features of the free plan, or
`MinimalFeatures` if that is not listed. `FeaturesToSync` is the fallback of
`updateTenant` to a map in the source when a plan has no features. Such a map's
codes need rows in `feature_definitions`, which the seeds do not have for all of
them; the model lets the insert succeed or fail. A PATCH may leave the customer
out (`Absent`), set it or clear it with null (`None`).

`toggled` (history) are the features toggled since the rows were last replaced: a
toggle changes a row and leaves the tenant's snapshot as it is. `overlap`,
`replanned` and `plansUsed` are history variables too: the properties that hold for
one operation at a time only are stated under `~overlap`.

### AuthSessions

`attempts` and `armed` are the counter `login_attempts:<email>` and whether it has
a time to live; `rows`, `expired` and `blacklist` the refresh tokens; `account`
the row of `users`.

| Action | Code |
| --- | --- |
| `Login`, `FindUser`, `Incr`, `SetExpiry`, `ClearAttempts`, `IssueTokens`, `LoginAnswer` | `validateCredentials`, `incrementLoginAttempts`, `login`, `issueTokens` |
| `Register`, `CreateUser` | `register` |
| `Refresh`, `RefreshLoad`, `RefreshSign` | `refreshAccessToken` |
| `Logout`, `LogoutRevoke`, `LogoutBlacklist` | `logout` |
| `UpdateUser`, `SaveUser` | `usersService.update` and `softDelete` |
| `Unlock`, `BlacklistEnds`, `TokenExpires`, `Abort` | Redis, time, failures |

A login with a wrong password and one for an unknown or inactive account take the
same path. Access tokens are kept nowhere and are left out; `late` marks a refresh
that began after a logout of its token had been answered. Rows are taken to be
visible. `memberships` is under row level security (`V6__rls_missing_tables.sql:4`), the
service runs as `chassis_app` (`docker-compose.yml:78`) and login and refresh read it
without a tenant context: under these policies they find no membership and issue tokens
without a tenant. That is not modelled, here or in `Memberships`.

### Memberships

`member` is the user's row for each tenant, `live` the claims of access tokens that
have not expired, `want` (history) what the rows would be if each request were one
step. A POST may ask for any status: the column takes the values of its enum,
`removed` among them (`removals`, history), and refuses other strings. There is no
operation that updates a row in place: an existing row is changed by a POST that
finds it removed, and two of these that overlap may mix their columns.

| Action | Code |
| --- | --- |
| `Remove`, `RemoveFind` | `membershipsService.remove` |
| `Create`, `CreateFind`, `CreateRole`, `CreateInsert` | `membershipsService.create` |
| `AssignRole`, `AssignFind` | `rolesController.assignRole`, which removes and then creates |
| `Compare`, `Write` | `save()` |
| `ReadPrimary`, `SwitchTenant`, `Sign`, `TokenExpires` | login and refresh; `switchTenant`; the JWT |

### Impersonation

`rows` is `impersonation_sessions`; the token of session `s` and its hash are
called `s` too. `handedOut`, `revoked`, `announced` are the tokens returned, the
blacklist and the audit events. A token and its key on the blacklist end apart: the
JWT half an hour after the second of its signing (`expired`), the key when no whole
second is left until an `expires_at` taken earlier (`over`), after which
`revokeImpersonationToken` sets none.

| Action | Code |
| --- | --- |
| `Start`, `StartInsert`, `StartIssue`, `StartSaveHash`, `StartAnswer` | `startImpersonation`: checks; placeholder; token; hash; event and answer |
| `End`, `EndFind`, `EndCompare`, `EndSave`, `Revoke`, `Reissue` | `endImpersonation`, `revokeImpersonationToken`, `reissueAdminToken` |
| `TokenExpires`, `KeyExpires`, `SetActive`, `Abort` | the end of the JWT; of the key; the target's `is_active`; failures |

### SdkRequest

`cache` is `FeatureFlagService.cache`, a Map in insertion order whose entries hold
the ticks they have left; `req` the requests in the process; `options` what the
service was configured with and what it mounts. `ChassisModule.forRoot` mounts the
two middlewares and `JwtAuthGuard`; the other guards, `AuditInterceptor` and
`TimeoutInterceptor` work where a service mounts them (`mounted`), the gate and the
interceptor only if it also provides `FEATURE_FLAG_CHECKER` and `AUDIT_PUBLISHER`,
which `forRoot` defines and does not export.

| Action | Code |
| --- | --- |
| `Arrive` with `ContextOf`, `JwtAuthGuard`, `RolesGuard`, `PermissionsGuard`, `GateAsks`, `Live` | middleware, guards and the cache lookup, between which nothing is awaited |
| `ServeAbsent`, `ServeError`, `ServeRead`, `ServeFill` | the tenant manager's side of the call: no such route; a failure; `isFeatureEnabled` with Redis, the table and `setex` |
| `Receive`, `FetchAbort`, `SetCacheEntry` | the end of the call and `setCacheEntry` |
| `OtherRead`, `LateFill`, `SetFlag`, `DropKey` | the tenant manager's other callers and calls given up; `toggleFeature` and its `del`, the five minutes of a key |
| `Handle` (external), `Return`, `Throw`, `TimeOut` | the handler, `AuditInterceptor`, the exception filter, `TimeoutInterceptor` |
| `Tick`, `Restart` | time; the process |

The service's handler is outside the SDK and may throw any status, after its change
too. A caller is the set of headers that the gateway forwards, a route its
decorators. `served` says whether the tenant manager has the route and the field
that the SDK asks for; this repository's has neither. `FeatureFlags` is the detailed
model of the tenant manager's cache: here it is one key per tenant, and `sinceOn`
counts from when it last had the feature on in its table, in Redis or on the way
there.

## 3. Runs

| Run | Shows |
| --- | --- |
| `ledger_concurrent` | with two requests racing at every await: balanced journal, mirrored reversals, balanced trial balance, events behind commits, linked opening entries, and what handlers rely on (`InFlight`) |
| `ledger_serial` | with one request at a time: at most one reversal, only drafts are posted, closed periods reject entries, a close moves the profit exactly |
| `audit_delivery` | with a refused event among them and a batch as large as the prefetch: nothing lost, duplicates bounded by faults, prefetch respected, and good events stored in the end unless the refused one was published |
| `billing_overlap` | overlapping deliveries, an error or a crash anywhere: an answered event has a row that says processed or keeps an error, or a delivery of it was cut short; the inductive invariant |
| `billing_two_tenants` | two overlapping requests and two tenants, up to a paid invoice: no row, invoice or message is about another tenant's customer |
| `billing_in_order` | delivered in order the status mirrors Stripe's unless a call failed; whatever fails, every event is answered 200 in the end |
| `feature_cache` | a cached flag is stale only by a race or a failure and for a bounded time (`FlagsInv`, `EventuallyFresh`); the service implements `FlagPromise` (`KeepsPromise`) |
| `tenant_lifecycle` | one at a time, operations, messages and toggles keep the status dated, the feature rows those of the plan but for toggles, and the tenant announced (`LifecycleInv`); only billing revives a cancelled tenant and only a PATCH with null loses its customer (`LifecycleSteps`); overlapping, and however stale the saves, plan and snapshot part only where a message brought a plan or two plans have the same features (`SnapshotMatchesPlan`) |
| `auth_sessions` | overlapping logins exceed the limit by those in flight only, the counter gets its end (`AuthInv`), a lock ends (`LockEnds`), a logged-out token stays out |
| `memberships` | changes of memberships add up, and overlapping changes lose no member but by a request for it or a failed assignment (`MembershipsInv`); tokens catch up with the table (`TokensCatchUp`) |
| `impersonation` | every token handed out can be traced; tokens of ended sessions are on the blacklist up to the session's last second (`ImpersonationInv`); an answered end ended its session |
| `sdk_request` | with everything mounted and with `forRoot` alone: gate and context agree on the tenant and the cache is bounded (`SdkInv`); where the parts are mounted, audit events follow answers, the gate opens only to tenants that the tenant manager had the feature on for recently, and every request is answered |

Bounds. `ledger_concurrent`: two requests are enough for every load-check-save
race, which is between two handlers; three entries allow an original and two
reversals, or one entry and the two entries of a close; one period and one date
let two closes meet. Amounts reach 1, so that a period with two sales overflows
the column and takes the error path. `ledger_serial` adds an expense account, the
deactivation of an income account and of Retained Surplus, and a second date; it has
one period, which the unique key allows once. `audit_delivery`: five messages of all
kinds, batch and prefetch equal, as in the code, where both are 100: a full batch is
all the broker delivers until it is settled; and two faults (a stale copy and the crash
of its redelivery).

`billing_overlap`: one tenant, two requests, three events, two deliveries of each
and one fault: two deliveries of one event, or of two, meet at every await, and a
retry follows a failure; there are two customers, so that a crash can provision the
tenant twice. `billing_two_tenants` has two tenants with a customer each, two requests
and four events, enough for a checkout and a paid invoice while the other tenant's
events are handled. `billing_in_order` lets Stripe emit six events: a customer, a subscription,
a failed and a late payment; one fault and a second delivery.

The other runs have two requests, which is enough for each race between two
handlers, and one fault, after which operations are repeated. `feature_cache`: two
features, one on by default, so that the override, the default and both plans
differ; two writes, so that one meets the other or its own check. `tenant_lifecycle`:
after its creation the tenant meets two operations or messages and a toggle, in sequence
or overlapping, with a listed plan with a feature, an empty one and an unlisted code, and
three statuses; the tenant and its flags are explored together. It has one feature:
that a plan change leaves no row of another feature behind is proved
(`TenantStaysWhole`).
`auth_sessions`: two attempts lock the account, so that two requests can pass the
limit, and two tokens. `memberships`: one tenant, with any row to begin with, two
roles and an unknown one, two changes. `impersonation`: two administrators and two sessions, of one or of
both. `sdk_request`: one tenant, and the three kinds of callers the guards refuse; an
entry lives two ticks and a call one, so that a call answered before a change of the
flag fills the cache after it. Entries of several tenants that push each other out are
left to the proof of `CacheAndContext`.

Symmetry is declared where requests, tenants, customers or administrators are alike in the
model and no liveness property is checked.

Fairness (`FairSpec` of `AuditConsumer`). The consumer goroutine keeps running, its retry loop keeps
dialing, RabbitMQ delivers in order so no ready message is passed over for ever
(strong fairness of `Deliver`), and a database that is asked again and again in
the end commits a batch it accepts (strong fairness of `BatchInsert`). Faults are
bounded. The run switches the deadlock check off: with every message settled the
system is at rest.

`FairSpec` of `BillingWebhooks`: Stripe retries an event until it is answered 200
(weak fairness of its delivery), and the event loop finishes a request it has
begun (weak fairness of each handler). Stripe's own changes, the consumer, errors
and crashes are not fair. The deliveries allowed per event exceed the faults, so
that the bound never stands in for the answer. The billing runs have the deadlock
check off for the same reason as above.

`FlagsSpec`, `AuthSessions` and `Memberships`: the event loop runs a handler to its
end (weak fairness of each request's steps), Redis drops keys and tokens expire
when their time is over. `SdkRequest`: the clock ticks and timers fire; neither the
tenant manager nor the service's handler is fair, so `EveryRequestAnswered` rests
on the two timeouts alone, and is stated for services that mount the interceptor. `TenantLifecycle` and `Impersonation` state safety only.
New requests, toggles and faults are never fair, and all these runs may rest when
their bounds are used up.

## 4. Proofs

Every safety invariant and action property that a passing run checks is proved for
every value of the constants; only liveness stays with TLC (end of this section). TLC
checked each inductive invariant on the instance of its run first.

### Ledger

`LedgerProofs` proves `Spec => []IInv` for any set of concurrent requests, any
chart of accounts and any bounds. The listed invariants are not inductive alone:
a save step trusts what the load step of its request saw. `IInv` adds
`InFlight`, which says what of that is still true when the save happens: the
entry exists and its lines are balanced (not: it is still a draft), the mirror's
lines are the original's, the rows a close adds are posted and balanced. Other
requests preserve it because tables only grow and lines never change (`Grows`,
`InFlightFrame`). An opening entry that does not balance is dropped before its amounts
reach a column, so only one that is kept can overflow. Consequences: `TypeCorrect`, `JournalBalanced`,
`ReversalsMirror`, `EventsCommitted`, `OpeningLinked`, `HandlersConsistent`.

`OneReversal` and `RulesKept` are about behaviours in which at most one handler is
between two of its awaits (`[]OneAtATime`): any number of requests, which take
turns. Then what a load found is still so at the save (`StillSo`): the entry is a
draft, nothing has reversed it, the period is open. Without the hypothesis both
fail (section 5).

Sums. The totals of the model are the library's `SumFunctionOnSet`, a recursion
over subsets that takes elements in the order of CHOOSE. The library's induction
theorems take a predicate as a parameter, which the provers cannot instantiate;
`SubsetInduction` takes the set of the subsets a fact holds of instead, and rests on
the well-foundedness of strict inclusion (`WFMin`). From it follow that the
recursion has a solution on every finite set (`SumsExist`) and only one
(`SumsUnique`), that any element may be taken out first (`SumRemove`), that sums add
up (`SumAdd`) and that rows and columns of a table may be exchanged
(`SumExchange`). On these rest:

- `TrialBalanceHolds`: account by account or entry by entry, a column has the same
  sum, and entry by entry debits equal credits (`PostedBalanced`).
- `ProfitMoved`: `CloseMovesProfit`. Besides `[]OneAtATime` it takes `AccountsRest`:
  nobody patches an account between a close reading the accounts and its save (a
  patch is a whole handler in one step, which `OneAtATime` allows in between; an
  account reactivated then would count as active at the save although the close has
  skipped it). It is stated account by account: every active income account is at
zero, every deactivated one where it was, and Retained Surplus has moved by what the
active ones held. The invariant is `CloseInv`: what the close has read and computed is
  what it would read and compute now. `CloseArithmetic` is the bookkeeping itself:
  the closing entry falls into the period it closes, sets the net of each income
  account to zero and moves Retained Surplus by their sum; a period that ends before
  it starts counts no entry and gets no closing entry. `AloneKeepsRules` is the case
  of one request at a time, where both hypotheses hold of every behaviour.
- `CloseNeverUnbalanced`: the closing entry balances by construction, with any
  accounts deactivated, so the check of `JournalEntry.Post` never stops a close.
- `OpeningOnlyWithoutProfit`: the opening entry is built from the balance sheet
  without the closing entry; as all accounts together net to zero
  (`NetsCancel`), it balances exactly when the income accounts do, that is when
  there was neither profit nor loss (section 5).

`JournalAppendOnly` is an action property of all interleavings: no save rewrites or
deletes a row, or takes an entry back to draft.
Assumptions: `ChartAssumption`, `BoundAssumption`, `LineAssumption`.

### AuditConsumer

`AuditConsumerProofs` proves `ConsumerInvariant`, `NothingLost`,
`DuplicatesPaid` and `HoldsWithinPrefetch`. The invariant has three parts besides
types: `Custody` (on an open channel all the consumer holds is unacked, on a closed
one nothing is), `AckedStored` (what is being acked has its row) and `RowBudget`: a
message's rows plus the inserts that may still happen, one from the broker's copy
and one from a stale copy, never exceed the faults plus one. `HoldsWithinPrefetch`
adds `Bounded`: unacked deliveries are within the prefetch, and what the consumer
still holds of a closed channel was unacked when it closed.
Assumption: `ConsumerAssumption`, with finitely many messages, so that
cardinalities are numbers.

### BillingWebhooks

`BillingWebhooksProofs` has four layers, all for any tenants, customers, requests
and bounds.

1. `BillingInvariant`, `TenantIsolation` (`BilledToOwner`) and `AnsweredTraced` hold
   with and without row level security, in any order of delivery, with any overlap
   and fault. `BilledToOwner` alone is not inductive: a
   save trusts a row copy that may be stale by then. `Ownership` says that every
   customer in Stripe's log belongs to a tenant for ever, `HandlersOwn` that a
   copy, however stale, is about a customer of the tenant whose row is written, and
   `OpenRows` that a row which is neither processed nor failed has a handler to
   settle it or had one that died, which is what `AnsweredIsTraced` needs.
2. `HiddenRowsStayEmpty` is about the deployed role, from which the policies hide the
   rows: no subscription row, no invoice and no message with a tenant, ever.
3. `NoGaps` (`TablesComplete`) is a conditional result, for a role that sees the rows
   (`RowsVisible`), which the deployed one does not; in any order and with any overlap; the property itself is about states without
   a fault. `WholeInv`: a tenant gets one customer (`OneCustomer`,
   `Unprovisioned`), a customer who has been to the checkout is the customer of its
   tenant's row (`RowsThere`), only such customers have events of a subscription
   (`Reported`), so a paid invoice always finds its tenant, and a handler that is
   past recording its invoice has done so (`Recorded`).
4. `MirrorsInOrder` (`MirrorsStripe`) needs `InOrder` as well, which Stripe does not
   promise: it says that order and visible rows are all that is missing. `LogInvariant`,
   which holds whatever fails, says that Stripe's log tells its state: the last
   event of a customer carries it, and every event but a subscription's first
   follows another. `OrderInv`: handlers take turns in the order of the log
   (`Turns`), the row a handler holds is the current one of its event's tenant
   (`Current`), a linked subscription is known to Stripe (`Linked`), and each row
   tells the last event of its customer that was applied (`Mirrored`). When all is
   answered that is the last event there is.

Assumption: `BillingAssumption`.

### FeatureFlags and TenantLifecycle

`TenantManagerProofs` proves `StaleIsExplained` (`FlagsInv` is inductive as it
stands: the excuses in its definition carry the history) and
`CacheKeepsPromise`, the refinement of `FlagPromise`. Step by step: a write moves
`value`, and puts the new value into the window in the same step; any other step
leaves `value` alone and makes no window larger (`Shrinks`), because the only
values that requests and the cache can pick up are those of the window already.

For the tenant's row: `TenantStaysWhole` (`LifecycleInv`), `PlanAndSnapshotAgree`
and the action property `NoStepRevivesOrForgets`. `LifeInv` adds to the properties
what a request carries between its load and its UPDATE: `Pairs` (each copy pairs a
plan with its features, and while plans differ in theirs the comparison finds both
columns different or neither, which is why even stale saves do not tear them apart;
two plans with the same features, an unknown code and "free" for instance, can be torn
by an overlap), `SoloCopy` (what an operation
that is alone has not marked as different equals the row), `Following` (the rows
inserted so far and those to insert make up the snapshot) and `Announcing`.
Assumptions: `FlagsAssumption` (there is a feature), `PlansAssumption` (types of the
tables of plans; any plan may be empty or have the features of another).

### AuthSessions

`LockoutHolds` (`AuthInv`) and `LogoutHolds` (`LoggedOutStaysOut`). The first counts:
the counter plus the requests past the check that may still increment it stay
below the limit plus the number of requests, because a request passes the check
only while the counter is below the limit. The second adds `RevokedForGood` (a token with an answered logout is
revoked in the table, whatever Redis forgets) and `LateIsLoggedOut`.
Assumption: `AuthAssumption` (finitely many requests, at least one token and one
attempt).

### Memberships

`ChangesKeepMembers` (`MembershipsInv`), for creations with any status. `Restored`: a
row that nobody asked to have removed and that role assignments removed has a request under way that will restore it, which also holds
when several overlap. `OnTheWay` and `Headed`, for requests one at a time: a row is
what it should be or the request at work on it is taking it there, query by query.
Assumption: `MembershipsAssumption`.

### Impersonation

`EndedTokensRevoked` (`ImpersonationInv`), `TokensOnRecord` (`HandedOutOnRecord`)
and `AnswersAreTrue` (`AnsweredIsEnded`). A start owns its session until it hands
the token out (`Starters`); hashes are the placeholder or the token's
(`HashesMatch`, `HashSaved`); revocation covers tokens not handed out yet, which
may be while the end runs, as long as the key has a second to live
(`AllEndedRevoked`); and unless an administrator's
sessions crowd, one is open (`OneOpen`), which is therefore that of the token
presented (`EndsOwn`).
Assumption: `ImpersonationAssumption`.

### SdkRequest

`CacheAndContext` (`SdkInv`), `AuditAgrees` (`AuditFollowsAnswer`) and the action
property `GateOpensRecently` (`OpenOnlyIfRecentlyOn`), for any set of mounted parts.
The last is the reason for `OnIsNow`, `Punctual` and `CacheFresh`: what the tenant
manager has on, in its table, in Redis or in a read under way, counts as on now
(`BehindNow` keeps that true for calls that are given up); the ticks since a feature was on plus the ticks an
answer or a cache entry has left are within the timeout, and within the timeout
plus the life of an entry, so that time can pass without changing the sum.
Assumption: `SdkAssumption`.

### What stays with TLC

- Liveness, which needs fairness and ENABLED: `EventuallyStored`,
  `EventuallyAnswered`, `EventuallyFresh`, `LockEnds`, `TokensCatchUp`,
  `EveryRequestAnswered`.

## 5. Observations

- Opening entries are dated the day after the period, while reports without a
  start date add up all entries: a carried balance counts twice in them.
- Events are published after the commit and are lost if the broker fails then;
  the client sees an error although the entry is posted.
- `AtMostOneReversal` and `JournalRules` hold as long as handlers do not overlap
  (`ledger_serial`, `OneReversal`, `RulesKept`) and fail when two do: two reversals
  that load the same posted entry both save, a stale post turns a reversed entry back
  to posted, and an entry whose period is closed after the check
  (`CreateJournalEntryHandler.cs:27`) is inserted all the same, in spite of
  `ClosedPeriodException` ("closed and cannot accept new entries").
- A close with profit or loss reaches `CloseFiscalPeriodHandler.cs:145` with
  balances that do not add up and drops the opening entry that the comment at line
  106 announces (`OpeningOnlyWithoutProfit`: it does so for every profit and loss).
- `CreateReversal` checks the status before `ReversedById`, so a second reversal
  never gets the `DuplicateReversalException` that `JournalEntryTests` names.
- The closing entry skips deactivated income accounts, whose balance survives the
  close; `CloseMovesProfit` is therefore stated for active accounts, and needs them
  left alone while a close is under way (`AccountsRest`).
- Reports count posted entries: the mirror of a reversed entry, not the entry.
- Audit events without a valid tenant id are acked without being stored.
- One event that the database refuses makes the insert of its whole batch fail
  (`audit_consumer.go:147`), and events batched with it again and again are starved: `EventuallyStored` exempts them.
- Webhooks answered in another order than Stripe emitted them leave a status that
  Stripe does not have (`subscriptions.service.ts:73`).
- Two overlapping deliveries of an event both pass the check for a processed row
  (`stripe-webhook.controller.ts:69`; the comment at line 65 calls it idempotent).
- As `chassis_app`, the role of `docker-compose.yml:140`, without a tenant context, the
  consumer cannot insert the subscription row (`V2__rls_missing_tables.sql:15`;
  `HiddenRowsStayEmpty`), although the test at `stripe-webhook.controller.spec.ts:138`
  says that it "creates a Stripe customer and subscription". The billing runs are for a
  role that sees the rows, the proofs of the first layer for both. The identity
  service, too, reads `memberships` without a tenant context on login and refresh.
- A webhook whose handler throws is answered 200: Stripe does not retry it, and
  the `error_message` of its row is the only trace.
- After a restart `onTenantProvisioned` creates a second Stripe customer for a
  tenant. The row insert is refused, but the `customer.created` webhook of the
  second customer replaces the first in the row; later events of the first are
  dropped as those of an unknown customer.
- `billing.synced` is lost when the process dies between the insert and the
  publish: the run after the restart ends at the row it finds.
- `save()` of a stale tenant copy can bring a cancelled tenant back, although
  `tenants.service.ts:288` refuses to activate one; a subscription status of
  `active` does so without any race, and overwrites an administrator's status.
- `handleSubscriptionStatus` knows `cancelled`, Stripe says `canceled`: the message
  changes nothing. It writes the plan without the features.
- A plan change that fails half-way is not repaired by repeating it: the plan is
  the current one by then. `toggleFeature` does not update `enabledFeatures`.
- An unknown plan code is stored with the free plan's features; two overlapping PATCHes
  of plans with the same features can leave one plan with the other's snapshot. A
  PATCH with `stripeCustomerId: null` clears the customer (`tenants.service.ts:218`).
- The call that makes the owner a member of a new tenant carries neither a JWT nor
  a role id, which the endpoint demands; its failure is caught.
- `assignRole` with an unknown role removes the membership and answers 404,
  where `roles.controller.ts:62` says "Update existing membership role". A POST with status `removed` removes one.
- `switchTenant` takes any membership row, removed ones included.
- `JwtStrategy` does not look at the blacklist: a revoked impersonation token is
  accepted until it expires. The key of a revoked one ends up to a second before the
  token does; an end that dies before its SETEX is not repeated.
- `endImpersonation` ends the latest open session of the pair, which need not be
  that of the presented token (`impersonation.controller.ts:41`: "End the current
  impersonation session"). An end between the two saves of a start may be undone
  by the second, or write the placeholder back over the hash. An end undone in this
  way, when the administrator has started another session in between, leaves two
  sessions open; it takes three sessions for that to hide an answer, more than the
  run has, and the proof covers it. Once the target is
  deactivated, the token cannot end its session.
- The SDK calls `/tenants/:id/features/:code` and reads `isEnabled`; the tenant
  manager serves `.../check` and answers `enabled`. As they are, a gate that is mounted
  refuses every request.
- `packages/chassis-sdk/README.md:59-61` says that the options mount `AuditInterceptor`,
  `FeatureGateGuard` and the timeout globally; `forRoot` mounts none of them
  and does not export what the first two need. In a service that relies on the options,
  routes with `@RequireFeature` are open, nothing is audited, and a request whose handler
  hangs is never answered; `OpenOnlyIfRecentlyOn`, `AuditFollowsAnswer` and
  `EveryRequestAnswered` are about what a service mounts itself.
- After a 408 the handler goes on: its change has no audit event. A full SDK cache
  drops its oldest key even when the key to set is in it. A platform administrator
  without a tenant is refused by the gate.
- The gateway's flusher stores one row per endpoint and flush and leaves the count
  out (`flusher.go:174`, `bulkInsert`); increments between its HGETALL and its DEL
  are deleted unread, and after a failed DEL the same counts are stored again.
- `TenantAwareRepository` sends `SET LOCAL ... = $1`, which PostgreSQL does not parse.

## 6. Plan

Done: the nine modules, model-checked, and the theorems of section 4.

1. Shorter proofs where lemmas of two components say the same of request records.
2. `Metering` and `RateLimiter`: the gateway's counters, flusher and windows.
3. `ChartOfAccounts`, `TenantContext`; the billing messages between
   `BillingWebhooks` and `TenantLifecycle` over the bindings of `definitions.json`.

Not modelled: the gateway (routing and JWT checks are stateless; its counters are
planned), row level security beyond `RowsVisible` (it is SQL that the database
interprets), the broker topology (static data), revenue analytics and audit queries
(read-only), health probes, DTOs, response envelopes, configuration, front-end
concerns, and JWT cryptography.
