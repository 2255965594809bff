--------------------------- MODULE BillingWebhooks ---------------------------
(***************************************************************************)
(* The billing engine (services/billing-engine): the Stripe webhook        *)
(* endpoint with its event log, the subscription and invoice tables the    *)
(* webhooks maintain, and the consumer that provisions a tenant's billing. *)
(*                                                                         *)
(* Stripe is external.  It appends events to a log; an event's id is its   *)
(* position.  Every event is delivered over HTTP any number of times, in   *)
(* any order, by overlapping requests, until a delivery is answered 200.   *)
(*                                                                         *)
(* A handler is split at its awaits: each action below is one database or  *)
(* Stripe call and the code up to the next one.  TypeORM's save() writes   *)
(* every column of the loaded entity that differs from the stored row, so  *)
(* a stale copy overwrites what was stored since; update() writes the one  *)
(* column it names.                                                        *)
(*                                                                         *)
(* A Stripe customer has at most one Stripe subscription, which its id     *)
(* stands for, and an invoice is named by the event that reports it paid.  *)
(* Plans, periods and amounts are left out: no step branches on them.      *)
(***************************************************************************)
EXTENDS Naturals, Sequences

CONSTANTS
    Tenants,
    CustomerIds,   \* the ids Stripe gives to customers
    Workers,       \* the webhook requests that may be in flight at once
    None,          \* SQL null, or no row
    RowsVisible,   \* the database role is exempt from row level security
    InOrder,       \* Stripe sends an event after the one before is answered
    MaxEvents,     \* bound: events Stripe emits
    MaxAttempts,   \* bound: deliveries of one event
    MaxFaults      \* bound: errors of a database or Stripe call, and crashes

ASSUME BillingAssumption ==
    /\ None \notin Tenants /\ None \notin CustomerIds
    /\ RowsVisible \in BOOLEAN /\ InOrder \in BOOLEAN
    /\ MaxEvents \in Nat /\ MaxAttempts \in Nat /\ MaxFaults \in Nat

VARIABLES
    customers,      \* Stripe: the tenantId in each customer's metadata
    stripeSub,      \* Stripe: the state of each customer's subscription
    events,         \* Stripe: the event log
    attempts,       \* Stripe: deliveries made of each event
    acked,          \* Stripe: events with a delivery answered 200
    unanswered,     \* Stripe: events with a delivery that was not
    stored,         \* table webhook_events: the events with a row,
    processed,      \*   the rows with column processed set,
    errored,        \*   the rows with an error_message
    subscriptions,  \* table subscriptions, one row per tenant
    invoices,       \* table invoices: the tenant of each recorded invoice
    published,      \* messages handed to the broker
    workers,        \* the webhook requests
    prov,           \* the run of onTenantProvisioned for each tenant
    due,            \* tenants whose tenant.provisioned message is to be delivered
    faults          \* how many faults there were

stripe == <<customers, stripeSub, events, attempts, acked, unanswered>>
webhookEvents == <<stored, processed, errored>>
db == <<webhookEvents, subscriptions, invoices>>
vars == <<stripe, db, published, workers, prov, due, faults>>

EventIds == 1 .. MaxEvents
SubscriptionStatus == {"active", "trialing", "past_due", "canceled"}
StripeStates == {"none", "checkout"} \cup SubscriptionStatus
EventTypes == {"customer.created", "subscription.created", "subscription.updated",
               "subscription.deleted", "invoice.paid", "invoice.payment_failed"}

Event == [type : EventTypes, cust : CustomerIds, status : SubscriptionStatus]
Subscription == [cust : CustomerIds \cup {None}, sub : CustomerIds \cup {None},
                 status : SubscriptionStatus]
Topics == {"billing.synced", "subscription.status",
           "billing.subscription.created", "billing.payment.succeeded"}
\* cust is part of the payload of the last three topics only.
Message == [topic : Topics, tenant : Tenants \cup {None}, cust : CustomerIds]
\* The steps of processEvent, which is inside a try block.
Tried == {"route", "save", "update", "findInvoice", "updateInvoice", "insertInvoice",
          "publish", "mark"}
Steps == {"idle", "upsert", "recordError", "respond"} \cup Tried
Worker == [pc : Steps, event : Nat, tenant : Tenants \cup {None}, row : Subscription,
           status : SubscriptionStatus]

NoSubscription == [cust |-> None, sub |-> None, status |-> "trialing"]
Idle == [pc |-> "idle", event |-> 0, tenant |-> None, row |-> NoSubscription,
         status |-> "trialing"]

Init ==
    /\ customers = [c \in CustomerIds |-> None]
    /\ stripeSub = [c \in CustomerIds |-> "none"]
    /\ events = <<>>
    /\ attempts = [e \in EventIds |-> 0]
    /\ acked = {} /\ unanswered = {}
    /\ stored = {} /\ processed = {} /\ errored = {}
    /\ subscriptions = [t \in Tenants |-> NoSubscription]
    /\ invoices = [e \in EventIds |-> None]
    /\ published = {}
    /\ workers = [w \in Workers |-> Idle]
    /\ prov = [t \in Tenants |-> [pc |-> "idle", cust |-> None]]
    /\ due = Tenants
    /\ faults = 0

-----------------------------------------------------------------------------
(* Stripe.                                                                 *)

EventOf(type, c, s) == [type |-> type, cust |-> c, status |-> s]

Emit(log) ==
    /\ Len(events) + Len(log) <= MaxEvents
    /\ events' = events \o log

\* The rest of the system when Stripe alone moves.
Elsewhere ==
    UNCHANGED <<customers, attempts, acked, unanswered, db, published, workers, prov,
                due, faults>>

\* createCheckout opens a session for the customer of the tenant's row.
CreateCheckout(t) ==
    LET c == subscriptions[t].cust
    IN  /\ c # None /\ stripeSub[c] = "none"
        /\ stripeSub' = [stripeSub EXCEPT ![c] = "checkout"]
        /\ UNCHANGED events /\ Elsewhere

\* A subscription changes state at Stripe, which reports it.
StripeChange(c, from, to, log) ==
    /\ stripeSub[c] \in from
    /\ stripeSub' = [stripeSub EXCEPT ![c] = to]
    /\ Emit(log) /\ Elsewhere

CheckoutCompleted(c) ==
    \E s \in {"active", "trialing"} :
        StripeChange(c, {"checkout"}, s, <<EventOf("subscription.created", c, s)>>)

TrialEnds(c) ==
    StripeChange(c, {"trialing"}, "active", <<EventOf("subscription.updated", c, "active")>>)

SubscriptionDeleted(c) ==
    StripeChange(c, {"active", "trialing", "past_due"}, "canceled",
                 <<EventOf("subscription.deleted", c, "canceled")>>)

PaymentFailed(c) ==
    StripeChange(c, {"active", "past_due"}, "past_due",
                 <<EventOf("invoice.payment_failed", c, "past_due"),
                   EventOf("subscription.updated", c, "past_due")>>)

PaymentSucceeded(c) ==
    \/ StripeChange(c, {"active"}, "active", <<EventOf("invoice.paid", c, "active")>>)
    \/ StripeChange(c, {"past_due"}, "active",
                    <<EventOf("invoice.paid", c, "active"),
                      EventOf("subscription.updated", c, "active")>>)

-----------------------------------------------------------------------------
(* The tables.  Without a tenant context the policies of V2 hide every row *)
(* of subscriptions and invoices and refuse every insert.                  *)

HasRow(t) == RowsVisible /\ subscriptions[t].cust # None

\* findByStripeCustomerId and findOne by stripeSubscriptionId.
ByCustomer(c) == {t \in Tenants : HasRow(t) /\ subscriptions[t].cust = c}
BySubscription(c) == {t \in Tenants : HasRow(t) /\ subscriptions[t].sub = c}

EventAt(w) == events[workers[w].event]

\* The handler goes on to step pc.
Goto(w, pc) == workers' = [workers EXCEPT ![w].pc = pc]

\* The handler loads the row of one of the tenants found, or goes on without one.
Load(w, found, status, pc, otherwise) ==
    \/ /\ found = {}
       /\ workers' = [workers EXCEPT ![w].pc = otherwise, ![w].status = status]
    \/ \E t \in found :
          workers' = [workers EXCEPT ![w].pc = pc, ![w].status = status,
                                     ![w].tenant = t, ![w].row = subscriptions[t]]

-----------------------------------------------------------------------------
(* handleWebhook.                                                          *)

Emitted(e) == e \in 1 .. Len(events)

\* Mutant: an event processed before is not answered again.
DeliverNoAnswer(w, e) ==
    /\ workers[w].pc = "idle"
    /\ Emitted(e) /\ attempts[e] < MaxAttempts
    /\ InOrder => /\ \A v \in Workers : workers[v].pc = "idle"
                  /\ e \notin acked /\ 1 .. e - 1 \subseteq acked
    /\ attempts' = [attempts EXCEPT ![e] = @ + 1]
    /\ workers' = [workers EXCEPT ![w] =
                      [Idle EXCEPT !.pc = IF e \in processed THEN "idle" ELSE "upsert",
                                   !.event = e]]
    /\ UNCHANGED <<customers, stripeSub, events, acked, unanswered, db, published, prov,
                   due, faults>>

\* A delivery, up to the row it finds: an event processed before is skipped.
Deliver(w, e) ==
    /\ workers[w].pc = "idle"
    /\ Emitted(e) /\ attempts[e] < MaxAttempts
    /\ InOrder => /\ \A v \in Workers : workers[v].pc = "idle"
                  /\ e \notin acked /\ 1 .. e - 1 \subseteq acked
    /\ attempts' = [attempts EXCEPT ![e] = @ + 1]
    /\ workers' = [workers EXCEPT ![w] =
                      [Idle EXCEPT !.pc = IF e \in processed THEN "respond" ELSE "upsert",
                                   !.event = e]]
    /\ UNCHANGED <<customers, stripeSub, events, acked, unanswered, db, published, prov,
                   due, faults>>

\* Mutant: the answer is sent before the work is done.
UpsertAnswersFirst(w) ==
    LET e == workers[w].event
    IN  /\ workers[w].pc = "upsert"
        /\ stored' = stored \cup {e}
        /\ processed' = processed \ {e}
        /\ Goto(w, "respond")
        /\ UNCHANGED <<stripe, errored, subscriptions, invoices, published, prov, due, faults>>

\* The upsert writes the columns it names: an earlier error stays.
Upsert(w) ==
    LET e == workers[w].event
    IN  /\ workers[w].pc = "upsert"
        /\ stored' = stored \cup {e}
        /\ processed' = processed \ {e}
        /\ Goto(w, "route")
        /\ UNCHANGED <<stripe, errored, subscriptions, invoices, published, prov, due, faults>>

\* handleSubscriptionCreated, up to the row linkStripeSubscription loads.
SubscriptionCreated(w) ==
    /\ EventAt(w).type = "subscription.created"
    /\ Load(w, ByCustomer(EventAt(w).cust), EventAt(w).status, "save", "publish")
    /\ UNCHANGED subscriptions

\* handleSubscriptionUpdated and handleSubscriptionDeleted, up to the row
\* updateFromStripe loads.
SubscriptionUpdated(w) ==
    /\ EventAt(w).type \in {"subscription.updated", "subscription.deleted"}
    /\ Load(w, BySubscription(EventAt(w).cust), EventAt(w).status, "save", "publish")
    /\ UNCHANGED subscriptions

\* Mutant: only the invoices of customers in arrears are recorded.
InvoicePaidArrears(w) ==
    /\ EventAt(w).type = "invoice.paid"
    /\ Load(w, {t \in ByCustomer(EventAt(w).cust) : subscriptions[t].status = "past_due"},
            "active", "findInvoice", "mark")
    /\ UNCHANGED subscriptions

\* handleInvoicePaid: an unknown customer's invoice is ignored.
InvoicePaid(w) ==
    /\ EventAt(w).type = "invoice.paid"
    /\ Load(w, ByCustomer(EventAt(w).cust), "active", "findInvoice", "mark")
    /\ UNCHANGED subscriptions

\* handleInvoicePaymentFailed: an unknown customer's invoice is ignored.
InvoicePaymentFailed(w) ==
    /\ EventAt(w).type = "invoice.payment_failed"
    /\ Load(w, ByCustomer(EventAt(w).cust), "past_due", "update", "mark")
    /\ UNCHANGED subscriptions

\* Mutant: the UPDATE lacks its WHERE clause.
CustomerCreatedEverywhere(w) ==
    /\ EventAt(w).type = "customer.created"
    /\ subscriptions' = [t \in Tenants |->
          IF HasRow(t) THEN [subscriptions[t] EXCEPT !.cust = EventAt(w).cust]
                       ELSE subscriptions[t]]
    /\ Goto(w, "mark")

\* handleCustomerCreated: one UPDATE of the row of the tenant in the metadata.
CustomerCreated(w) ==
    LET c == EventAt(w).cust
        t == customers[c]
    IN  /\ EventAt(w).type = "customer.created"
        /\ subscriptions' = IF HasRow(t) THEN [subscriptions EXCEPT ![t].cust = c]
                                         ELSE subscriptions
        /\ Goto(w, "mark")

\* processEvent: the event router and the handler's first call.
Route(w) ==
    /\ workers[w].pc = "route"
    /\ \/ SubscriptionCreated(w) \/ SubscriptionUpdated(w)
       \/ InvoicePaid(w) \/ InvoicePaymentFailed(w) \/ CustomerCreated(w)
    /\ UNCHANGED <<stripe, webhookEvents, invoices, published, prov, due, faults>>

\* Mutant: linking a subscription keeps the status of the row.
SavedKeepsStatus(w) ==
    IF EventAt(w).type = "subscription.created"
    THEN [workers[w].row EXCEPT !.sub = EventAt(w).cust]
    ELSE [workers[w].row EXCEPT !.status = workers[w].status]

\* The row save() writes back: the loaded copy with the event's changes.
Saved(w) ==
    IF EventAt(w).type = "subscription.created"
    THEN [workers[w].row EXCEPT !.sub = EventAt(w).cust, !.status = workers[w].status]
    ELSE [workers[w].row EXCEPT !.status = workers[w].status]

Save(w) ==
    /\ workers[w].pc = "save"
    /\ subscriptions' = [subscriptions EXCEPT ![workers[w].tenant] = Saved(w)]
    /\ Goto(w, "publish")
    /\ UNCHANGED <<stripe, webhookEvents, invoices, published, prov, due, faults>>

\* updateStatusByTenantId: one UPDATE of the status column.
UpdateStatus(w) ==
    /\ workers[w].pc = "update"
    /\ subscriptions' = [subscriptions EXCEPT ![workers[w].tenant].status = workers[w].status]
    /\ Goto(w, "publish")
    /\ UNCHANGED <<stripe, webhookEvents, invoices, published, prov, due, faults>>

\* upsertFromStripe looks for the invoice,
FindInvoice(w) ==
    /\ workers[w].pc = "findInvoice"
    /\ Goto(w, IF invoices[workers[w].event] = None THEN "insertInvoice" ELSE "updateInvoice")
    /\ UNCHANGED <<stripe, db, published, prov, due, faults>>

\* publish() drops the messages when there is no channel.
Publish(messages) == published' \in {published, published \cup messages}

\* inserts it, which the unique key refuses when another delivery was faster, or
\* saves it as paid once more.  handleInvoicePaid then reports the payment and goes
\* by the status it loaded before.
InvoiceRecorded(w) ==
    /\ Publish({[topic |-> "billing.payment.succeeded", tenant |-> workers[w].tenant,
                 cust |-> EventAt(w).cust]})
    /\ Goto(w, IF workers[w].row.status = "past_due" THEN "update" ELSE "mark")

SaveInvoice(w) ==
    LET e == workers[w].event
    IN  /\ \/ /\ workers[w].pc = "insertInvoice" /\ invoices[e] # None
              /\ Goto(w, "recordError")
              /\ UNCHANGED <<invoices, published>>
           \/ /\ workers[w].pc = "insertInvoice" /\ invoices[e] = None
              /\ invoices' = [invoices EXCEPT ![e] = workers[w].tenant]
              /\ InvoiceRecorded(w)
           \/ /\ workers[w].pc = "updateInvoice"
              /\ InvoiceRecorded(w)
              /\ UNCHANGED invoices
        /\ UNCHANGED <<stripe, webhookEvents, subscriptions, prov, due, faults>>

\* publishSubscriptionStatus, and the audit message of a new subscription.
StatusMessages(w) ==
    {[topic |-> "subscription.status", tenant |-> t, cust |-> EventAt(w).cust] :
        t \in ByCustomer(EventAt(w).cust)}

AuditMessages(w) ==
    IF EventAt(w).type = "subscription.created"
    THEN {[topic |-> "billing.subscription.created", tenant |-> None,
           cust |-> EventAt(w).cust]}
    ELSE {}

PublishStatus(w) ==
    /\ workers[w].pc = "publish"
    /\ Publish(StatusMessages(w) \cup AuditMessages(w))
    /\ Goto(w, "mark")
    /\ UNCHANGED <<stripe, db, prov, due, faults>>

\* The event is processed: its row says so,
Mark(w) ==
    LET e == workers[w].event
    IN  /\ workers[w].pc = "mark"
        /\ processed' = processed \cup {e}
        /\ Goto(w, "respond")
        /\ UNCHANGED <<stripe, stored, errored, subscriptions, invoices, published, prov, due,
                       faults>>

\* Mutant: the catch block only logs.
RecordErrorLogs(w) ==
    /\ workers[w].pc = "recordError"
    /\ Goto(w, "respond")
    /\ UNCHANGED <<stripe, db, published, prov, due, faults>>

\* or the catch block keeps the error; either way
RecordError(w) ==
    LET e == workers[w].event
    IN  /\ workers[w].pc = "recordError"
        /\ errored' = errored \cup {e}
        /\ Goto(w, "respond")
        /\ UNCHANGED <<stripe, stored, processed, subscriptions, invoices, published, prov, due, faults>>

\* the answer is 200.
Respond(w) ==
    /\ workers[w].pc = "respond"
    /\ acked' = acked \cup {workers[w].event}
    /\ workers' = [workers EXCEPT ![w] = Idle]
    /\ UNCHANGED <<customers, stripeSub, events, attempts, unanswered, db, published, prov,
                   due, faults>>

\* A database call of the handler fails: inside the try block the error is
\* recorded, outside of it the request is answered 500.
CallFails(w) ==
    /\ faults < MaxFaults
    /\ faults' = faults + 1
    /\ \/ /\ workers[w].pc \in Tried
          /\ Goto(w, "recordError")
          /\ UNCHANGED unanswered
       \/ /\ workers[w].pc \in {"upsert", "recordError"}
          /\ unanswered' = unanswered \cup {workers[w].event}
          /\ workers' = [workers EXCEPT ![w] = Idle]
    /\ UNCHANGED <<customers, stripeSub, events, attempts, acked, db, published, prov, due>>

-----------------------------------------------------------------------------
(* onTenantProvisioned.  The consumer never acknowledges a message, so the *)
(* broker delivers every message again after a restart.                    *)

ProvisionOnly ==
    UNCHANGED <<attempts, acked, unanswered, webhookEvents, invoices, workers>>

\* createCustomer; Stripe reports the customer.
CreateCustomer(t, c) ==
    /\ t \in due /\ prov[t].pc = "idle"
    /\ customers[c] = None
    /\ due' = due \ {t}
    /\ customers' = [customers EXCEPT ![c] = t]
    /\ Emit(<<EventOf("customer.created", c, "trialing")>>)
    /\ prov' = [prov EXCEPT ![t] = [pc |-> "insert", cust |-> c]]
    /\ UNCHANGED <<stripeSub, subscriptions, published, faults>> /\ ProvisionOnly

\* SubscriptionsService.create: a row is there already, or it cannot be inserted,
\* and the handler ends in its catch block; or the row is inserted.
CreateSubscription(t) ==
    /\ prov[t].pc = "insert"
    /\ \/ /\ ~RowsVisible \/ subscriptions[t].cust # None
          /\ prov' = [prov EXCEPT ![t].pc = "done"]
          /\ UNCHANGED subscriptions
       \/ /\ RowsVisible /\ subscriptions[t].cust = None
          /\ \E s \in {"active", "trialing"} :
                subscriptions' = [subscriptions EXCEPT ![t] =
                    [cust |-> prov[t].cust, sub |-> None, status |-> s]]
          /\ prov' = [prov EXCEPT ![t].pc = "sync"]
    /\ UNCHANGED <<customers, stripeSub, events, published, due, faults>> /\ ProvisionOnly

\* The tenant manager is told the customer's id.
PublishSynced(t) ==
    /\ prov[t].pc = "sync"
    /\ Publish({[topic |-> "billing.synced", tenant |-> t, cust |-> prov[t].cust]})
    /\ prov' = [prov EXCEPT ![t].pc = "done"]
    /\ UNCHANGED <<customers, stripeSub, events, subscriptions, due, faults>> /\ ProvisionOnly

\* A call to Stripe or the database fails and the error is swallowed.
ProvisionFails(t) ==
    /\ faults < MaxFaults
    /\ faults' = faults + 1
    /\ (prov[t].pc = "idle" /\ t \in due) \/ prov[t].pc = "insert"
    /\ due' = due \ {t}
    /\ prov' = [prov EXCEPT ![t].pc = "done"]
    /\ UNCHANGED <<customers, stripeSub, events, subscriptions, published>> /\ ProvisionOnly

-----------------------------------------------------------------------------
\* The process dies and starts again: no request under way is answered, and
\* every tenant.provisioned message comes back.
InFlight(e) == \E w \in Workers : workers[w].pc # "idle" /\ workers[w].event = e

Crash ==
    /\ faults < MaxFaults
    /\ faults' = faults + 1
    /\ unanswered' = unanswered \cup {e \in EventIds : InFlight(e)}
    /\ workers' = [w \in Workers |-> Idle]
    /\ prov' = [t \in Tenants |-> [pc |-> "idle", cust |-> None]]
    /\ due' = Tenants
    /\ UNCHANGED <<customers, stripeSub, events, attempts, acked, db, published>>

StripeStep ==
    \/ \E t \in Tenants : CreateCheckout(t)
    \/ \E c \in CustomerIds :
          \/ CheckoutCompleted(c) \/ TrialEnds(c) \/ SubscriptionDeleted(c)
          \/ PaymentFailed(c) \/ PaymentSucceeded(c)

\* One step of the webhook request w.
HandlerStep(w) ==
    \/ Upsert(w) \/ Route(w) \/ Save(w) \/ UpdateStatus(w) \/ FindInvoice(w)
    \/ SaveInvoice(w) \/ PublishStatus(w) \/ Mark(w) \/ RecordError(w) \/ Respond(w)

ProvisionStep(t) ==
    \/ \E c \in CustomerIds : CreateCustomer(t, c)
    \/ CreateSubscription(t) \/ PublishSynced(t)

Next ==
    \/ StripeStep
    \/ \E w \in Workers : \E e \in EventIds : Deliver(w, e)
    \/ \E w \in Workers : HandlerStep(w) \/ CallFails(w)
    \/ \E t \in Tenants : ProvisionStep(t) \/ ProvisionFails(t)
    \/ Crash

Spec == Init /\ [][Next]_vars

\* Stripe retries an event until a delivery is answered 200, and the event loop
\* finishes what it has begun.  Stripe's own changes and the faults are not fair.
Fairness ==
    /\ \A w \in Workers : WF_vars(HandlerStep(w))
    /\ \A e \in EventIds : WF_vars(e \notin acked /\ \E w \in Workers : Deliver(w, e))

FairSpec == Spec /\ Fairness

-----------------------------------------------------------------------------
(* Properties.                                                             *)

\* The types of Stripe's, the tables' and the handlers' state.
TypeOK ==
    /\ customers \in [CustomerIds -> Tenants \cup {None}]
    /\ stripeSub \in [CustomerIds -> StripeStates]
    /\ events \in Seq(Event) /\ Len(events) <= MaxEvents
    /\ attempts \in [EventIds -> Nat]
    /\ acked \subseteq EventIds /\ unanswered \subseteq EventIds
    /\ stored \subseteq EventIds /\ processed \subseteq EventIds /\ errored \subseteq EventIds
    /\ subscriptions \in [Tenants -> Subscription]
    /\ invoices \in [EventIds -> Tenants \cup {None}]
    /\ published \subseteq Message
    /\ workers \in [Workers -> Worker]
    /\ prov \in [Tenants -> [pc : {"idle", "insert", "sync", "done"},
                             cust : CustomerIds \cup {None}]]
    /\ due \subseteq Tenants
    /\ faults \in 0 .. MaxFaults

\* Billing data reaches only the tenant it belongs to: the customer of a tenant's
\* row carries that tenant in its metadata, an invoice is recorded for the tenant
\* of the customer that paid it, and no message names another tenant.
BilledToOwner ==
    /\ \A t \in Tenants : subscriptions[t].cust # None => customers[subscriptions[t].cust] = t
    /\ \A e \in EventIds : invoices[e] # None =>
          Emitted(e) /\ events[e].type = "invoice.paid" /\ customers[events[e].cust] = invoices[e]
    /\ \A m \in published : m.tenant # None => customers[m.cust] = m.tenant

\* No event is lost silently: an event answered 200 has a row, which says processed
\* or keeps an error, unless another delivery of the event is under way or died.
AnsweredIsTraced ==
    \A e \in acked :
        /\ e \in stored
        /\ e \in processed \cup errored \cup unanswered \/ InFlight(e)

\* Customers known to Stripe's log or with a subscription belong to a tenant.
Ownership ==
    /\ \A e \in 1 .. Len(events) : customers[events[e].cust] # None
    /\ \A c \in CustomerIds : stripeSub[c] # "none" => customers[c] # None
    /\ \A t \in Tenants : prov[t].pc \in {"insert", "sync"} =>
          prov[t].cust # None /\ customers[prov[t].cust] = t

\* A handler that loaded a row holds a row of the owner of that row's customer; for
\* an invoice that is the customer of the event.
InvoiceSteps == {"findInvoice", "insertInvoice", "updateInvoice"}

Loaded(w) ==
    /\ workers[w].tenant # None /\ workers[w].row.cust # None
    /\ customers[workers[w].row.cust] = workers[w].tenant

HandlersOwn ==
    \A w \in Workers :
        /\ workers[w].pc # "idle" => Emitted(workers[w].event)
        /\ workers[w].pc \in {"save", "update"} \cup InvoiceSteps => Loaded(w)
        /\ workers[w].pc \in InvoiceSteps =>
              EventAt(w).type = "invoice.paid" /\ workers[w].row.cust = EventAt(w).cust

\* A row that is neither processed nor failed is the work of a handler under way, or
\* of one that died.
Handles(w, e) == workers[w].pc \in Tried \cup {"recordError"} /\ workers[w].event = e

OpenRows ==
    /\ acked \subseteq stored /\ processed \subseteq stored
    /\ \A w \in Workers : workers[w].pc \in Tried \cup {"recordError", "respond"} =>
          workers[w].event \in stored
    /\ \A e \in stored \ (processed \cup errored \cup unanswered) :
          \E w \in Workers : Handles(w, e)

\* What makes the invariants above inductive: who owns the copies the handlers hold,
\* and who is to settle a row that is still open.
BillingInv ==
    TypeOK /\ Ownership /\ HandlersOwn /\ BilledToOwner /\ OpenRows

\* Nothing failed, nothing is under way, and Stripe has no event left to deliver.
Quiescent ==
    /\ faults = 0
    /\ acked = 1 .. Len(events)
    /\ \A w \in Workers : workers[w].pc = "idle"
    /\ \A t \in Tenants : prov[t].pc = "done"

\* "Subscription records (mirrors Stripe state)": once every event is answered and
\* no call failed, the status of a linked subscription is the one it has at Stripe.
MirrorsStripe ==
    Quiescent =>
        \A t \in Tenants : subscriptions[t].sub # None =>
            subscriptions[t].status = stripeSub[subscriptions[t].sub]

\* Once every event is answered and no call failed, the revenue queries see every
\* paid invoice.
RevenueComplete ==
    Quiescent =>
        \A e \in 1 .. Len(events) :
            events[e].type = "invoice.paid" => invoices[e] = customers[events[e].cust]

\* "creates a Stripe customer and subscription" (stripe-webhook.controller.spec.ts):
\* when nothing failed, the handler of tenant.provisioned leaves the tenant with a
\* subscription row.
ProvisionedHasRow ==
    \A t \in Tenants : prov[t].pc = "done" /\ faults = 0 => subscriptions[t].cust # None

\* When nothing failed, the webhooks and onTenantProvisioned left no gap in the
\* tables.  Only for a role that is exempt from row level security.
TablesComplete == RevenueComplete /\ ProvisionedHasRow

\* What row level security leaves of the billing engine under the deployed role.
NothingRecorded ==
    /\ \A t \in Tenants : subscriptions[t] = NoSubscription
    /\ \A e \in EventIds : invoices[e] = None
    /\ \A m \in published : m.tenant = None

\* Every event Stripe emits is answered 200 in the end.
EventuallyAnswered == \A e \in EventIds : Emitted(e) ~> e \in acked

=============================================================================
