----------------------- MODULE BillingWebhooksProofs -----------------------
(***************************************************************************)
(* For any tenants, customers, requests in flight and deliveries: billing  *)
(* data stays with its tenant and no answered event is lost, whatever      *)
(* fails; the tables have no gap while nothing fails; and they mirror      *)
(* Stripe while, besides, events come in order.                            *)
(***************************************************************************)
EXTENDS BillingWebhooks, TLAPS

USE BillingAssumption DEF EventIds, SubscriptionStatus, StripeStates, EventTypes, Tried, Steps

\* The null records have the types of the records they stand for.
LEMMA NullTypes == NoSubscription \in Subscription /\ Idle \in Worker
  BY DEF NoSubscription, Subscription, Idle, Worker

\* A handler that goes on to another step leaves the rest of its state, and the
\* other handlers, alone.
LEMMA GotoFacts ==
    ASSUME workers \in [Workers -> Worker], NEW w \in Workers, NEW pc \in Steps, Goto(w, pc)
    PROVE  /\ workers' \in [Workers -> Worker]
           /\ \A v \in Workers \ {w} : workers'[v] = workers[v]
           /\ workers'[w].pc = pc /\ workers'[w].event = workers[w].event
           /\ workers'[w].tenant = workers[w].tenant /\ workers'[w].row = workers[w].row
           /\ workers'[w].status = workers[w].status
  <1>1. workers[w] \in Worker
    OBVIOUS
  <1>2. [workers[w] EXCEPT !.pc = pc] \in Worker
    BY <1>1 DEF Worker
  <1>3. workers' = [workers EXCEPT ![w] = [workers[w] EXCEPT !.pc = pc]]
    BY DEF Goto
  <1>4. workers' \in [Workers -> Worker]
    BY <1>2, <1>3
  <1> QED
    BY <1>1, <1>3, <1>4 DEF Worker

\* A delivery starts a handler from nothing.
LEMMA StartFacts ==
    ASSUME workers \in [Workers -> Worker], NEW w \in Workers, NEW pc \in Steps, NEW e \in Nat,
           workers' = [workers EXCEPT ![w] = [Idle EXCEPT !.pc = pc, !.event = e]]
    PROVE  /\ workers' \in [Workers -> Worker]
           /\ \A v \in Workers \ {w} : workers'[v] = workers[v]
           /\ workers'[w].pc = pc /\ workers'[w].event = e
  <1>1. [Idle EXCEPT !.pc = pc, !.event = e] \in Worker
    BY NullTypes DEF Worker
  <1>2. workers' \in [Workers -> Worker]
    BY <1>1
  <1>3. workers'[w].pc = pc /\ workers'[w].event = e
    BY DEF Idle
  <1> QED
    BY <1>2, <1>3

\* A handler that ends leaves nothing behind.
LEMMA EndFacts ==
    ASSUME workers \in [Workers -> Worker], NEW w \in Workers,
           workers' = [workers EXCEPT ![w] = Idle]
    PROVE  /\ workers' \in [Workers -> Worker]
           /\ \A v \in Workers \ {w} : workers'[v] = workers[v]
           /\ workers'[w].pc = "idle"
  <1>1. workers' \in [Workers -> Worker]
    BY NullTypes
  <1>2. workers'[w].pc = "idle"
    BY DEF Idle
  <1> QED
    BY <1>1, <1>2

\* A handler that looks for a row goes on with the row of a tenant found, or without.
LEMMA LoadFacts ==
    ASSUME workers \in [Workers -> Worker], subscriptions \in [Tenants -> Subscription],
           NEW w \in Workers, NEW found, found \subseteq Tenants, NEW s \in SubscriptionStatus,
           NEW pc \in Steps, NEW otherwise \in Steps, Load(w, found, s, pc, otherwise)
    PROVE  /\ workers' \in [Workers -> Worker]
           /\ \A v \in Workers \ {w} : workers'[v] = workers[v]
           /\ workers'[w].event = workers[w].event
           /\ \/ workers'[w].pc = otherwise
              \/ /\ workers'[w].pc = pc
                 /\ \E t \in found : workers'[w].tenant = t /\ workers'[w].row = subscriptions[t]
  <1>0. workers[w] \in Worker
    OBVIOUS
  <1>1. CASE workers' = [workers EXCEPT ![w].pc = otherwise, ![w].status = s]
    <2> DEFINE r == [workers[w] EXCEPT !.pc = otherwise, !.status = s]
    <2>1. r \in Worker /\ r.pc = otherwise /\ r.event = workers[w].event
      BY <1>0 DEF Worker
    <2>2. workers' = [workers EXCEPT ![w] = r]
      BY <1>1
    <2> HIDE DEF r
    <2> QED
      BY <2>1, <2>2
  <1>2. ASSUME NEW t \in found,
               workers' = [workers EXCEPT ![w].pc = pc, ![w].status = s, ![w].tenant = t,
                                          ![w].row = subscriptions[t]]
        PROVE  /\ workers' \in [Workers -> Worker]
               /\ \A v \in Workers \ {w} : workers'[v] = workers[v]
               /\ workers'[w].event = workers[w].event
               /\ workers'[w].pc = pc
               /\ workers'[w].tenant = t /\ workers'[w].row = subscriptions[t]
    <2> DEFINE r == [workers[w] EXCEPT !.pc = pc, !.status = s, !.tenant = t,
                                       !.row = subscriptions[t]]
    <2>1. subscriptions[t] \in Subscription /\ t \in Tenants
      OBVIOUS
    <2>2. r \in Worker /\ r.pc = pc /\ r.event = workers[w].event /\ r.tenant = t
          /\ r.row = subscriptions[t]
      BY <1>0, <2>1 DEF Worker
    <2>3. workers' = [workers EXCEPT ![w] = r]
      BY <1>2
    <2> HIDE DEF r
    <2> QED
      BY <2>2, <2>3
  <1> QED
    BY <1>1, <1>2 DEF Load

\* Nothing is stored before Stripe's first event.
LEMMA InitInv == Init => BillingInv
  <1> SUFFICES ASSUME Init PROVE BillingInv
    OBVIOUS
  <1> USE DEF Init
  <1>1. TypeOK
    BY NullTypes DEF TypeOK
  <1>2. Ownership /\ HandlersOwn
    BY DEF Ownership, HandlersOwn, InvoiceSteps, Loaded, Emitted, Idle
  <1>3. BilledToOwner /\ OpenRows
    BY DEF BilledToOwner, OpenRows, NoSubscription, Idle
  <1> QED
    BY <1>1, <1>2, <1>3 DEF BillingInv

\* Stripe's log only grows.
LEMMA EmitFacts ==
    ASSUME TypeOK, NEW log \in Seq(Event), Emit(log)
    PROVE  /\ events' \in Seq(Event) /\ Len(events') <= MaxEvents
           /\ Len(events) \in Nat /\ Len(events') = Len(events) + Len(log)
           /\ \A i \in 1 .. Len(events) : events'[i] = events[i]
           /\ \A i \in 1 .. Len(events') : i > Len(events) =>
                 events'[i] = log[i - Len(events)]
  BY DEF TypeOK, Emit

\* A subscription that changes at Stripe is a subscription of a known customer.
LEMMA StripeChangeStep ==
    ASSUME BillingInv, NEW c \in CustomerIds, NEW from, NEW to \in StripeStates,
           NEW log \in Seq(Event), \A i \in 1 .. Len(log) : log[i].cust = c,
           "none" \notin from, StripeChange(c, from, to, log)
    PROVE  BillingInv'
  <1> USE DEF BillingInv, StripeChange, Elsewhere, db, webhookEvents
  <1>1. /\ events' \in Seq(Event) /\ Len(events') <= MaxEvents
        /\ Len(events) \in Nat /\ Len(events') = Len(events) + Len(log)
        /\ \A i \in 1 .. Len(events) : events'[i] = events[i]
        /\ \A i \in 1 .. Len(events') : i > Len(events) =>
              events'[i] = log[i - Len(events)]
    BY EmitFacts
  <1>2. customers[c] # None
    BY DEF Ownership
  <1>3. TypeOK'
    BY <1>1 DEF TypeOK
  <1>4. Ownership'
    <2>1. \A e \in 1 .. Len(events') : customers[events'[e].cust] # None
      <3> SUFFICES ASSUME NEW e \in 1 .. Len(events') PROVE customers[events'[e].cust] # None
        OBVIOUS
      <3>1. CASE e <= Len(events)
        BY <1>1, <3>1 DEF Ownership
      <3>2. CASE e > Len(events)
        <4>1. e - Len(events) \in 1 .. Len(log)
          BY <1>1, <3>2
        <4> QED
          BY <1>1, <1>2, <3>2, <4>1
      <3> QED
        BY <1>1, <3>1, <3>2
    <2> QED
      BY <1>2, <2>1 DEF Ownership, TypeOK
  <1>5. HandlersOwn'
    BY <1>1 DEF HandlersOwn, Loaded, Emitted, EventAt, InvoiceSteps
  <1>6. BilledToOwner'
    BY <1>1 DEF BilledToOwner, Emitted
  <1>7. OpenRows'
    BY DEF OpenRows, Handles
  <1> QED
    BY <1>3, <1>4, <1>5, <1>6, <1>7

\* Every change at Stripe keeps the invariant.
LEMMA StripeInv ==
    ASSUME BillingInv, StripeStep
    PROVE  BillingInv'
  <1>1. ASSUME NEW t \in Tenants, CreateCheckout(t) PROVE BillingInv'
    <2> USE <1>1 DEF BillingInv, CreateCheckout, Elsewhere, db, webhookEvents
    <2>1. TypeOK'
      BY DEF TypeOK
    <2>2. Ownership'
      BY DEF Ownership, BilledToOwner, TypeOK
    <2>3. HandlersOwn' /\ BilledToOwner'
      BY DEF HandlersOwn, Loaded, Emitted, EventAt, BilledToOwner
    <2>4. OpenRows'
      BY DEF OpenRows, Handles
    <2> QED
      BY <2>1, <2>2, <2>3, <2>4
  <1>2. ASSUME NEW c \in CustomerIds,
               \/ CheckoutCompleted(c) \/ TrialEnds(c) \/ SubscriptionDeleted(c)
               \/ PaymentFailed(c) \/ PaymentSucceeded(c)
        PROVE  BillingInv'
    <2> DEFINE One(type, s) == <<EventOf(type, c, s)>>
               Two(type, s) == <<EventOf(type, c, s), EventOf("subscription.updated", c, s)>>
    <2>1. ASSUME NEW type \in EventTypes, NEW s \in SubscriptionStatus, NEW from,
                 "none" \notin from,
                 \/ StripeChange(c, from, s, One(type, s))
                 \/ StripeChange(c, from, s, Two(type, s))
          PROVE  BillingInv'
      <3>1. /\ One(type, s) \in Seq(Event)
            /\ \A i \in 1 .. Len(One(type, s)) : One(type, s)[i].cust = c
        BY DEF EventOf, Event
      <3>2. /\ Two(type, s) \in Seq(Event)
            /\ \A i \in 1 .. Len(Two(type, s)) : Two(type, s)[i].cust = c
        BY DEF EventOf, Event
      <3> HIDE DEF One, Two
      <3> QED
        BY <2>1, <3>1, <3>2, StripeChangeStep
    <2>2. "none" \notin {"checkout"} /\ "none" \notin {"trialing"} /\ "none" \notin {"active"}
      OBVIOUS
    <2>3. CASE CheckoutCompleted(c)
      <3>1. PICK s \in {"active", "trialing"} :
              StripeChange(c, {"checkout"}, s, One("subscription.created", s))
        BY <2>3 DEF CheckoutCompleted
      <3> HIDE DEF One
      <3> QED
        BY <2>1, <2>2, <3>1
    <2>4. CASE TrialEnds(c)
      <3>1. StripeChange(c, {"trialing"}, "active", One("subscription.updated", "active"))
        BY <2>4 DEF TrialEnds
      <3> HIDE DEF One
      <3> QED
        BY <2>1, <2>2, <3>1
    <2>5. CASE SubscriptionDeleted(c)
      <3>1. StripeChange(c, {"active", "trialing", "past_due"}, "canceled",
                         One("subscription.deleted", "canceled"))
        BY <2>5 DEF SubscriptionDeleted
      <3> HIDE DEF One
      <3> QED
        BY <2>1, <3>1
    <2>6. CASE PaymentFailed(c)
      <3>1. StripeChange(c, {"active", "past_due"}, "past_due",
                         Two("invoice.payment_failed", "past_due"))
        BY <2>6 DEF PaymentFailed
      <3> HIDE DEF Two
      <3> QED
        BY <2>1, <3>1
    <2>7. CASE PaymentSucceeded(c)
      <3>1. \/ StripeChange(c, {"active"}, "active", One("invoice.paid", "active"))
            \/ StripeChange(c, {"past_due"}, "active", Two("invoice.paid", "active"))
        BY <2>7 DEF PaymentSucceeded
      <3> HIDE DEF One, Two
      <3> QED
        BY <2>1, <3>1
    <2> QED
      BY <1>2, <2>3, <2>4, <2>5, <2>6, <2>7
  <1> QED
    BY <1>1, <1>2 DEF StripeStep

\* The event of a request in flight is an event of Stripe's log.
LEMMA InFlightEvent ==
    ASSUME BillingInv, NEW w \in Workers, workers[w].pc # "idle"
    PROVE  /\ workers[w].event \in EventIds /\ Emitted(workers[w].event)
           /\ EventAt(w) \in Event /\ customers[EventAt(w).cust] \in Tenants
  <1>1. workers[w].event \in 1 .. Len(events)
    BY DEF BillingInv, HandlersOwn, Emitted
  <1>2. events \in Seq(Event) /\ Len(events) \in Nat /\ Len(events) <= MaxEvents
    BY DEF BillingInv, TypeOK
  <1>3. EventAt(w) \in Event
    <2> HIDE DEF Event
    <2> QED
      BY <1>1, <1>2 DEF EventAt
  <1>4. EventAt(w).cust \in CustomerIds
    BY <1>3 DEF Event
  <1>5. customers[EventAt(w).cust] \in Tenants
    BY <1>1, <1>4 DEF BillingInv, TypeOK, Ownership, EventAt
  <1> QED
    BY <1>1, <1>2, <1>3, <1>5 DEF Emitted

\* A row found is the row of the owner of the customer it names.
LEMMA FoundRows ==
    ASSUME BillingInv, NEW c \in CustomerIds, NEW t \in ByCustomer(c) \cup BySubscription(c)
    PROVE  /\ t \in Tenants /\ t # None /\ subscriptions[t] \in Subscription
           /\ subscriptions[t].cust # None /\ customers[subscriptions[t].cust] = t
           /\ t \in ByCustomer(c) => subscriptions[t].cust = c
  BY DEF BillingInv, TypeOK, BilledToOwner, ByCustomer, BySubscription, HasRow

\* A delivery starts a handler of its own.
LEMMA DeliverInv ==
    ASSUME BillingInv, NEW w \in Workers, NEW e \in EventIds, Deliver(w, e)
    PROVE  BillingInv'
  <1> USE DEF BillingInv, Deliver, db, webhookEvents
  <1>0. /\ workers' \in [Workers -> Worker]
        /\ \A v \in Workers \ {w} : workers'[v] = workers[v]
        /\ workers'[w].pc = IF e \in processed THEN "respond" ELSE "upsert"
        /\ workers'[w].event = e
    <2>1. e \in Nat /\ workers \in [Workers -> Worker]
      BY DEF TypeOK
    <2>2. CASE e \in processed
      <3>1. workers' = [workers EXCEPT ![w] = [Idle EXCEPT !.pc = "respond", !.event = e]]
        BY <2>2
      <3> HIDE DEF Deliver
      <3> QED
        BY <2>1, <2>2, <3>1, StartFacts
    <2>3. CASE e \notin processed
      <3>1. workers' = [workers EXCEPT ![w] = [Idle EXCEPT !.pc = "upsert", !.event = e]]
        BY <2>3
      <3> HIDE DEF Deliver
      <3> QED
        BY <2>1, <2>3, <3>1, StartFacts
    <2> QED
      BY <2>2, <2>3
  <1> HIDE DEF Deliver
  <1>u. /\ UNCHANGED <<customers, stripeSub, events, acked, unanswered, db, published, prov,
                       due, faults>>
        /\ workers[w].pc = "idle" /\ Emitted(e)
        /\ attempts' = [attempts EXCEPT ![e] = @ + 1]
    BY DEF Deliver
  <1>1. TypeOK'
    <2>1. attempts' \in [EventIds -> Nat]
      BY <1>u DEF TypeOK
    <2> QED
      BY <1>0, <1>u, <2>1 DEF TypeOK
  <1>2. Ownership' /\ BilledToOwner'
    BY <1>u DEF Ownership, BilledToOwner, Emitted
  <1>3. HandlersOwn'
    BY <1>0, <1>u DEF HandlersOwn, Loaded, Emitted, EventAt, InvoiceSteps
  <1>4. OpenRows'
    <2>1. \A v \in Workers, i \in EventIds : Handles(v, i) => Handles(v, i)'
      BY <1>0, <1>u DEF Handles
    <2>2. \A v \in Workers : workers'[v].pc \in Tried \cup {"recordError", "respond"} =>
             workers'[v].event \in stored
      BY <1>0 DEF OpenRows
    <2> QED
      BY <1>u, <2>1, <2>2 DEF OpenRows, TypeOK
  <1> QED
    BY <1>1, <1>2, <1>3, <1>4

\* The upsert opens the event's row, and its handler is there to settle it.
LEMMA UpsertInv ==
    ASSUME BillingInv, NEW w \in Workers, Upsert(w)
    PROVE  BillingInv'
  <1> USE DEF BillingInv
  <1> DEFINE e == workers[w].event
  <1>0. /\ workers[w].pc = "upsert" /\ Goto(w, "route")
        /\ stored' = stored \cup {e} /\ processed' = processed \ {e}
        /\ UNCHANGED <<stripe, errored, subscriptions, invoices, published, prov, due,
                       faults>>
    BY DEF Upsert
  <1>1. e \in EventIds
    BY <1>0, InFlightEvent
  <1>2. /\ workers' \in [Workers -> Worker]
        /\ \A v \in Workers \ {w} : workers'[v] = workers[v]
        /\ workers'[w].pc = "route" /\ workers'[w].event = e
    BY <1>0, GotoFacts DEF TypeOK
  <1>3. TypeOK'
    BY <1>0, <1>1, <1>2 DEF TypeOK, stripe
  <1>4. Ownership' /\ BilledToOwner'
    BY <1>0 DEF Ownership, BilledToOwner, Emitted, stripe
  <1>5. HandlersOwn'
    BY <1>0, <1>2 DEF HandlersOwn, Loaded, Emitted, EventAt, InvoiceSteps, stripe
  <1>6. OpenRows'
    <2>1. \A v \in Workers, i \in EventIds : Handles(v, i) => Handles(v, i)'
      BY <1>0, <1>2 DEF Handles
    <2>2. Handles(w, e)'
      BY <1>0, <1>2 DEF Handles
    <2>3. \A i \in stored' \ (processed' \cup errored' \cup unanswered') :
             \E v \in Workers : Handles(v, i)'
      <3> SUFFICES ASSUME NEW i \in stored' \ (processed' \cup errored' \cup unanswered')
                   PROVE  \E v \in Workers : Handles(v, i)'
        OBVIOUS
      <3>1. CASE i = e
        BY <1>2, <2>2, <3>1 DEF Handles
      <3>2. CASE i # e
        <4>1. i \in stored \ (processed \cup errored \cup unanswered) /\ i \in EventIds
          BY <1>0, <3>2 DEF TypeOK, stripe
        <4> QED
          BY <2>1, <4>1 DEF OpenRows
      <3> QED
        BY <3>1, <3>2
    <2>4. \A v \in Workers : workers'[v].pc \in Tried \cup {"recordError", "respond"} =>
             workers'[v].event \in stored'
      BY <1>0, <1>2 DEF OpenRows
    <2> QED
      BY <1>0, <2>3, <2>4 DEF OpenRows, stripe
  <1> QED
    BY <1>3, <1>4, <1>5, <1>6

\* Every handler goes on at its event; the rows of webhook_events stay as they are.
Continues(w) ==
    /\ workers[w].pc \in Tried
    /\ workers' \in [Workers -> Worker]
    /\ \A v \in Workers \ {w} : workers'[v] = workers[v]
    /\ workers'[w].event = workers[w].event
    /\ workers'[w].pc \in Tried \cup {"recordError"}
    /\ UNCHANGED <<stripe, webhookEvents, prov, due, faults>>

\* A handler inside processEvent settles no row and opens none.
LEMMA ContinuesRows ==
    ASSUME BillingInv, NEW w \in Workers, Continues(w)
    PROVE  OpenRows'
  <1> USE DEF BillingInv
  <1>0. /\ UNCHANGED <<acked, unanswered, stored, processed, errored>>
        /\ \A v \in Workers \ {w} : workers'[v] = workers[v]
        /\ workers[w].pc \in Tried /\ workers'[w].pc \in Tried \cup {"recordError"}
        /\ workers'[w].event = workers[w].event
    BY DEF Continues, stripe, webhookEvents
  <1>1. \A v \in Workers, i \in EventIds : Handles(v, i) => Handles(v, i)'
    BY <1>0 DEF Handles
  <1>2. \A v \in Workers : workers'[v].pc \in Tried \cup {"recordError", "respond"} =>
           workers'[v].event \in stored
    BY <1>0 DEF OpenRows
  <1>3. OpenRows'
    BY <1>0, <1>1, <1>2 DEF OpenRows, TypeOK
  <1> QED
    BY <1>3

\* What is left to show of a step inside processEvent: the tables, the messages and
\* the handler's own copy keep to the owner.
LEMMA ContinuesInv ==
    ASSUME BillingInv, NEW w \in Workers, Continues(w),
           subscriptions' \in [Tenants -> Subscription],
           invoices' \in [EventIds -> Tenants \cup {None}], published' \subseteq Message,
           BilledToOwner',
           workers'[w].pc \in {"save", "update"} \cup InvoiceSteps => Loaded(w)',
           workers'[w].pc \in InvoiceSteps =>
              EventAt(w).type = "invoice.paid" /\ workers'[w].row.cust = EventAt(w).cust
    PROVE  BillingInv'
  <1> USE DEF BillingInv
  <1>0. /\ UNCHANGED <<stripe, webhookEvents, prov, due, faults>>
        /\ workers' \in [Workers -> Worker]
        /\ \A v \in Workers \ {w} : workers'[v] = workers[v]
        /\ workers[w].pc # "idle" /\ workers'[w].event = workers[w].event
    BY DEF Continues
  <1>1. TypeOK'
    BY <1>0 DEF TypeOK, stripe, webhookEvents
  <1>2. Ownership'
    BY <1>0 DEF Ownership, stripe
  <1>3. HandlersOwn'
    <2>1. EventAt(w)' = EventAt(w) /\ Emitted(workers[w].event)'
      BY <1>0 DEF EventAt, HandlersOwn, Emitted, stripe
    <2>2. \A v \in Workers \ {w} :
             /\ EventAt(v)' = EventAt(v)
             /\ Loaded(v) => Loaded(v)'
             /\ Emitted(workers[v].event) => Emitted(workers[v].event)'
      BY <1>0 DEF EventAt, Loaded, Emitted, stripe
    <2> QED
      BY <1>0, <2>1, <2>2 DEF HandlersOwn, InvoiceSteps
  <1>4. OpenRows'
    BY ContinuesRows
  <1> QED
    BY <1>1, <1>2, <1>3, <1>4

\* The first call of a handler that loads a row.
LEMMA RouteLoads ==
    ASSUME BillingInv, NEW w \in Workers, workers[w].pc = "route",
           NEW found, found = ByCustomer(EventAt(w).cust) \/ found = BySubscription(EventAt(w).cust),
           NEW s \in SubscriptionStatus, NEW pc \in {"save", "update", "findInvoice"},
           NEW otherwise \in {"publish", "mark"}, Load(w, found, s, pc, otherwise),
           pc = "findInvoice" =>
              found = ByCustomer(EventAt(w).cust) /\ EventAt(w).type = "invoice.paid",
           UNCHANGED <<stripe, db, published, prov, due, faults>>
    PROVE  BillingInv'
  <1> DEFINE c == EventAt(w).cust
  <1>1. c \in CustomerIds
    BY InFlightEvent DEF Event
  <1>2. found \subseteq Tenants
    BY DEF ByCustomer, BySubscription
  <1>3. /\ workers' \in [Workers -> Worker]
        /\ \A v \in Workers \ {w} : workers'[v] = workers[v]
        /\ workers'[w].event = workers[w].event
        /\ \/ workers'[w].pc = otherwise
           \/ /\ workers'[w].pc = pc
              /\ \E t \in found : workers'[w].tenant = t /\ workers'[w].row = subscriptions[t]
    <2>1. /\ workers \in [Workers -> Worker] /\ subscriptions \in [Tenants -> Subscription]
          /\ pc \in Steps /\ otherwise \in Steps
      BY DEF BillingInv, TypeOK
    <2>2. Load(w, found, s, pc, otherwise) /\ s \in SubscriptionStatus
      OBVIOUS
    <2> HIDE DEF Steps, SubscriptionStatus
    <2> QED
      BY ONLY <1>2, <2>1, <2>2, w \in Workers, LoadFacts
  <1>4. Continues(w)
    BY <1>3 DEF Continues, db, webhookEvents
  <1>5. workers'[w].pc \in {"save", "update"} \cup InvoiceSteps =>
           Loaded(w)' /\ (pc = "findInvoice" => workers'[w].row.cust = c)
    <2> SUFFICES ASSUME workers'[w].pc \in {"save", "update"} \cup InvoiceSteps
                 PROVE  Loaded(w)' /\ (pc = "findInvoice" => workers'[w].row.cust = c)
      OBVIOUS
    <2>1. PICK t \in found : workers'[w].tenant = t /\ workers'[w].row = subscriptions[t]
      BY <1>3 DEF InvoiceSteps
    <2>2. /\ t # None /\ subscriptions[t].cust # None /\ customers[subscriptions[t].cust] = t
          /\ t \in ByCustomer(c) => subscriptions[t].cust = c
      BY <1>1, FoundRows
    <2> QED
      BY <2>1, <2>2 DEF Loaded, stripe
  <1>6. workers'[w].pc \in InvoiceSteps => pc = "findInvoice"
    BY <1>3 DEF InvoiceSteps
  <1>7. BilledToOwner'
    BY DEF BillingInv, BilledToOwner, Emitted, stripe, db
  <1> QED
    BY <1>4, <1>5, <1>6, <1>7, ContinuesInv DEF BillingInv, TypeOK, db

\* A customer is linked to the row of its owner only.
LEMMA CustomerCreatedInv ==
    ASSUME BillingInv, NEW w \in Workers, workers[w].pc = "route", CustomerCreated(w),
           UNCHANGED <<stripe, webhookEvents, invoices, published, prov, due, faults>>
    PROVE  BillingInv'
  <1> DEFINE c == EventAt(w).cust
             t == customers[c]
  <1>1. c \in CustomerIds /\ t \in Tenants
    BY InFlightEvent DEF Event
  <1>2. /\ subscriptions' = IF HasRow(t) THEN [subscriptions EXCEPT ![t].cust = c]
                                        ELSE subscriptions
        /\ Goto(w, "mark")
    BY DEF CustomerCreated
  <1>3. Continues(w) /\ workers'[w].pc = "mark"
    BY <1>2, GotoFacts DEF Continues, BillingInv, TypeOK
  <1>4. /\ subscriptions' \in [Tenants -> Subscription]
        /\ \A u \in Tenants : subscriptions'[u].cust # None =>
              customers[subscriptions'[u].cust] = u
    <2>1. subscriptions \in [Tenants -> Subscription]
      BY DEF BillingInv, TypeOK
    <2>2. [subscriptions[t] EXCEPT !.cust = c] \in Subscription
      BY <1>1, <2>1 DEF Subscription
    <2> QED
      BY <1>1, <1>2, <2>1, <2>2 DEF BillingInv, BilledToOwner, Subscription
  <1>5. BilledToOwner'
    BY <1>4 DEF BillingInv, BilledToOwner, Emitted, stripe
  <1> QED
    BY <1>3, <1>4, <1>5, ContinuesInv DEF BillingInv, TypeOK, InvoiceSteps

\* The router and the first call of each handler.
LEMMA RouteInv ==
    ASSUME BillingInv, NEW w \in Workers, Route(w)
    PROVE  BillingInv'
  <1>0. /\ workers[w].pc = "route"
        /\ UNCHANGED <<stripe, webhookEvents, invoices, published, prov, due, faults>>
    BY DEF Route
  <1>1. EventAt(w).status \in SubscriptionStatus
    BY <1>0, InFlightEvent DEF Event
  <1>2. CASE SubscriptionCreated(w)
    BY <1>0, <1>1, <1>2, RouteLoads DEF SubscriptionCreated, db
  <1>3. CASE SubscriptionUpdated(w)
    BY <1>0, <1>1, <1>3, RouteLoads DEF SubscriptionUpdated, db
  <1>4. CASE InvoicePaid(w)
    BY <1>0, <1>4, RouteLoads DEF InvoicePaid, db
  <1>5. CASE InvoicePaymentFailed(w)
    BY <1>0, <1>5, RouteLoads DEF InvoicePaymentFailed, db
  <1>6. CASE CustomerCreated(w)
    BY <1>0, <1>6, CustomerCreatedInv
  <1> QED
    BY <1>2, <1>3, <1>4, <1>5, <1>6 DEF Route

\* save() writes the handler's copy, which is a row of its own tenant.
LEMMA SaveInv ==
    ASSUME BillingInv, NEW w \in Workers, Save(w) \/ UpdateStatus(w)
    PROVE  BillingInv'
  <1>0. /\ workers[w].pc \in {"save", "update"} /\ Goto(w, "publish")
        /\ UNCHANGED <<stripe, webhookEvents, invoices, published, prov, due, faults>>
    BY DEF Save, UpdateStatus
  <1>1. Continues(w) /\ workers'[w].pc = "publish"
    BY <1>0, GotoFacts DEF Continues, BillingInv, TypeOK
  <1> DEFINE t == workers[w].tenant
             row == workers[w].row
  <1>2. /\ t \in Tenants /\ row.cust # None /\ customers[row.cust] = t
        /\ row \in Subscription /\ workers[w].status \in SubscriptionStatus
        /\ EventAt(w).cust \in CustomerIds
    <2>1. workers[w] \in Worker /\ Loaded(w)
      BY <1>0 DEF BillingInv, TypeOK, HandlersOwn
    <2>2. EventAt(w).cust \in CustomerIds
      BY <1>0, InFlightEvent DEF Event
    <2> QED
      BY <2>1, <2>2 DEF Loaded, Worker
  <1>3. subscriptions \in [Tenants -> Subscription]
    BY DEF BillingInv, TypeOK
  <1>4. \E r \in Subscription :
           /\ subscriptions' = [subscriptions EXCEPT ![t] = r]
           /\ r.cust = row.cust \/ r.cust = subscriptions[t].cust
    <2>1. CASE Save(w)
      <3>1. Saved(w) \in Subscription /\ Saved(w).cust = row.cust
        BY <1>2 DEF Saved, Subscription
      <3> QED
        BY <2>1, <3>1 DEF Save
    <2>2. CASE UpdateStatus(w)
      <3>1. subscriptions[t] \in Subscription
        BY <1>2, <1>3
      <3>2. /\ [subscriptions[t] EXCEPT !.status = workers[w].status] \in Subscription
            /\ [subscriptions[t] EXCEPT !.status = workers[w].status].cust = subscriptions[t].cust
        BY <1>2, <3>1 DEF Subscription
      <3>3. subscriptions' =
               [subscriptions EXCEPT ![t] = [subscriptions[t] EXCEPT !.status = workers[w].status]]
        BY <2>2 DEF UpdateStatus
      <3> QED
        BY <3>2, <3>3
    <2> QED
      BY <2>1, <2>2
  <1>5. /\ subscriptions' \in [Tenants -> Subscription]
        /\ \A u \in Tenants : subscriptions'[u].cust # None =>
              customers[subscriptions'[u].cust] = u
    BY <1>2, <1>3, <1>4 DEF BillingInv, BilledToOwner
  <1>6. BilledToOwner'
    BY <1>0, <1>5 DEF BillingInv, BilledToOwner, Emitted, stripe
  <1> QED
    BY <1>0, <1>1, <1>5, <1>6, ContinuesInv DEF BillingInv, TypeOK, InvoiceSteps

\* An invoice is recorded, and its payment reported, for the owner of its customer.
LEMMA InvoiceInv ==
    ASSUME BillingInv, NEW w \in Workers, FindInvoice(w) \/ SaveInvoice(w)
    PROVE  BillingInv'
  <1> DEFINE e == workers[w].event
             t == workers[w].tenant
             m == [topic |-> "billing.payment.succeeded", tenant |-> t, cust |-> EventAt(w).cust]
  <1>0. /\ workers[w].pc \in InvoiceSteps
        /\ UNCHANGED <<stripe, webhookEvents, subscriptions, prov, due, faults>>
    BY DEF FindInvoice, SaveInvoice, InvoiceSteps, db
  <1>1. /\ e \in EventIds /\ Emitted(e) /\ EventAt(w).cust \in CustomerIds
        /\ EventAt(w).type = "invoice.paid"
        /\ Loaded(w) /\ t \in Tenants /\ customers[EventAt(w).cust] = t
    <2>1. workers[w].pc # "idle"
      BY <1>0 DEF InvoiceSteps
    <2>2. e \in EventIds /\ Emitted(e) /\ EventAt(w).cust \in CustomerIds
      BY <2>1, InFlightEvent DEF Event
    <2>3. Loaded(w) /\ EventAt(w).type = "invoice.paid" /\ workers[w].row.cust = EventAt(w).cust
      BY <1>0 DEF BillingInv, HandlersOwn
    <2>4. workers[w].tenant \in Tenants \cup {None}
      BY DEF BillingInv, TypeOK, Worker
    <2> QED
      BY <2>2, <2>3, <2>4 DEF Loaded
  <1>2. \E p \in {"insertInvoice", "updateInvoice", "update", "mark", "recordError"} : Goto(w, p)
    BY DEF FindInvoice, SaveInvoice, InvoiceRecorded
  <1>3. /\ Continues(w) /\ workers'[w].tenant = t /\ workers'[w].row = workers[w].row
    BY <1>0, <1>2, GotoFacts DEF Continues, BillingInv, TypeOK, InvoiceSteps
  <1>4. Loaded(w)' /\ workers'[w].row.cust = EventAt(w).cust
    BY <1>0, <1>1, <1>3 DEF Loaded, stripe, BillingInv, HandlersOwn
  <1>5. invoices' \in {invoices, [invoices EXCEPT ![e] = t]}
    BY DEF FindInvoice, SaveInvoice, db
  <1>6. published' \in {published, published \cup {m}}
    BY DEF FindInvoice, SaveInvoice, InvoiceRecorded, Publish
  <1>7. m \in Message
    BY <1>1 DEF Message, Topics
  <1>8. invoices' \in [EventIds -> Tenants \cup {None}] /\ published' \subseteq Message
    BY <1>1, <1>5, <1>6, <1>7 DEF BillingInv, TypeOK
  <1>9. BilledToOwner'
    <2>1. \A i \in EventIds : invoices'[i] # None =>
             Emitted(i) /\ events[i].type = "invoice.paid"
             /\ customers[events[i].cust] = invoices'[i]
      BY <1>1, <1>5 DEF BillingInv, BilledToOwner, TypeOK, EventAt
    <2>2. \A n \in published' : n.tenant # None => customers[n.cust] = n.tenant
      BY <1>1, <1>6 DEF BillingInv, BilledToOwner
    <2> QED
      BY <1>0, <2>1, <2>2 DEF BillingInv, BilledToOwner, Emitted, stripe
  <1> QED
    BY <1>0, <1>1, <1>3, <1>4, <1>8, <1>9, ContinuesInv DEF BillingInv, TypeOK

\* A status is published for the tenant whose row names the event's customer.
LEMMA PublishInv ==
    ASSUME BillingInv, NEW w \in Workers, PublishStatus(w)
    PROVE  BillingInv'
  <1> DEFINE c == EventAt(w).cust
             ms == StatusMessages(w) \cup AuditMessages(w)
  <1>0. /\ workers[w].pc = "publish" /\ Goto(w, "mark")
        /\ UNCHANGED <<stripe, db, prov, due, faults>>
        /\ published' \in {published, published \cup ms}
    BY DEF PublishStatus, Publish
  <1>1. Continues(w) /\ workers'[w].pc = "mark"
    BY <1>0, GotoFacts DEF Continues, BillingInv, TypeOK, db
  <1>2. c \in CustomerIds
    BY <1>0, InFlightEvent DEF Event
  <1>3. \A t \in ByCustomer(c) : t \in Tenants /\ customers[c] = t
    BY <1>2, FoundRows
  <1>4. \A m \in ms : m \in Message /\ (m.tenant # None => customers[m.cust] = m.tenant)
    <2> SUFFICES ASSUME NEW m \in ms
                 PROVE  m \in Message /\ (m.tenant # None => customers[m.cust] = m.tenant)
      OBVIOUS
    <2>1. CASE m \in StatusMessages(w)
      <3>1. PICK t \in ByCustomer(c) :
              m = [topic |-> "subscription.status", tenant |-> t, cust |-> c]
        BY <2>1 DEF StatusMessages
      <3> QED
        BY <1>2, <1>3, <3>1 DEF Message, Topics
    <2>2. CASE m \in AuditMessages(w)
      <3>1. m = [topic |-> "billing.subscription.created", tenant |-> None, cust |-> c]
        BY <2>2 DEF AuditMessages
      <3> QED
        BY <1>2, <3>1 DEF Message, Topics
    <2> QED
      BY <2>1, <2>2
  <1> HIDE DEF ms
  <1>5. published' \subseteq Message
    BY <1>0, <1>4 DEF BillingInv, TypeOK
  <1>6. BilledToOwner'
    BY <1>0, <1>4 DEF BillingInv, BilledToOwner, Emitted, stripe, db
  <1> QED
    BY <1>0, <1>1, <1>5, <1>6, ContinuesInv DEF BillingInv, TypeOK, InvoiceSteps, db

\* What the last steps of a handler leave alone.
LEMMA SettlesFrame ==
    ASSUME BillingInv, NEW w \in Workers, workers' \in [Workers -> Worker],
           \A v \in Workers \ {w} : workers'[v] = workers[v],
           \/ workers'[w].pc = "idle"
           \/ /\ workers'[w].pc \in {"respond", "recordError"}
              /\ workers[w].pc # "idle" /\ workers'[w].event = workers[w].event,
           UNCHANGED <<customers, stripeSub, events, subscriptions, invoices, published, prov>>
    PROVE  Ownership' /\ HandlersOwn' /\ BilledToOwner'
  <1>1. Ownership' /\ BilledToOwner'
    BY DEF BillingInv, Ownership, BilledToOwner, Emitted
  <1>2. \A v \in Workers \ {w} :
           /\ EventAt(v)' = EventAt(v)
           /\ Loaded(v) => Loaded(v)'
           /\ Emitted(workers[v].event) => Emitted(workers[v].event)'
    BY DEF EventAt, Loaded, Emitted
  <1>3. workers'[w].pc # "idle" => Emitted(workers[w].event)'
    BY DEF BillingInv, HandlersOwn, Emitted
  <1>4. HandlersOwn'
    BY <1>2, <1>3 DEF BillingInv, HandlersOwn, InvoiceSteps
  <1> QED
    BY <1>1, <1>4

\* The row is settled by what the handler writes into it.
LEMMA SettleInv ==
    ASSUME BillingInv, NEW w \in Workers, Mark(w) \/ RecordError(w)
    PROVE  BillingInv'
  <1> USE DEF BillingInv
  <1>0. /\ workers[w].pc \in {"mark", "recordError"} /\ Goto(w, "respond")
        /\ UNCHANGED <<stripe, stored, subscriptions, invoices, published, prov, due, faults>>
        /\ \/ /\ processed' = processed \cup {workers[w].event} /\ UNCHANGED errored
           \/ /\ errored' = errored \cup {workers[w].event}
              /\ UNCHANGED processed
    BY DEF Mark, RecordError
  <1>1. PICK e \in EventIds : e = workers[w].event
    BY <1>0, InFlightEvent
  <1>2. /\ workers' \in [Workers -> Worker]
        /\ \A v \in Workers \ {w} : workers'[v] = workers[v]
        /\ workers'[w].pc = "respond" /\ workers'[w].event = e
    BY <1>0, <1>1, GotoFacts DEF TypeOK
  <1>3. e \in stored
    BY <1>0, <1>1 DEF OpenRows
  <1>5. TypeOK'
    BY <1>0, <1>1, <1>2 DEF TypeOK, stripe
  <1>6. Ownership' /\ HandlersOwn' /\ BilledToOwner'
    BY <1>0, <1>1, <1>2, SettlesFrame DEF stripe
  <1>7. OpenRows'
    <2>1. \A v \in Workers, i \in EventIds \ {e} : Handles(v, i) => Handles(v, i)'
      BY <1>1, <1>2 DEF Handles
    <2>2. \A i \in stored' \ (processed' \cup errored' \cup unanswered') :
             i \in stored \ (processed \cup errored \cup unanswered) /\ i \in EventIds \ {e}
      BY <1>0, <1>1 DEF TypeOK, stripe
    <2>3. \A v \in Workers : workers'[v].pc \in Tried \cup {"recordError", "respond"} =>
             workers'[v].event \in stored
      BY <1>2, <1>3 DEF OpenRows
    <2>4. \A i \in stored' \ (processed' \cup errored' \cup unanswered') :
             \E v \in Workers : Handles(v, i)'
      BY <2>1, <2>2 DEF OpenRows
    <2> QED
      BY <1>0, <1>1, <1>3, <2>3, <2>4 DEF OpenRows, stripe
  <1> QED
    BY <1>5, <1>6, <1>7

\* An answer, and a handler that dies, are accounted for at Stripe.
LEMMA EndInv ==
    ASSUME BillingInv, NEW w \in Workers, Respond(w) \/ CallFails(w)
    PROVE  BillingInv'
  <1> USE DEF BillingInv
  <1>0. /\ workers[w].pc # "idle" /\ faults' \in 0 .. MaxFaults
        /\ UNCHANGED <<customers, stripeSub, events, attempts, db, published, prov, due>>
    BY DEF Respond, CallFails, TypeOK
  <1>1. PICK e \in EventIds : e = workers[w].event
    BY <1>0, InFlightEvent
  <1>2. \/ /\ workers[w].pc = "respond" /\ workers' = [workers EXCEPT ![w] = Idle]
           /\ acked' = acked \cup {e} /\ UNCHANGED unanswered
        \/ /\ workers[w].pc \in Tried /\ Goto(w, "recordError")
           /\ UNCHANGED <<acked, unanswered>>
        \/ /\ workers[w].pc \in {"upsert", "recordError"}
           /\ workers' = [workers EXCEPT ![w] = Idle]
           /\ unanswered' = unanswered \cup {e} /\ UNCHANGED acked
    BY <1>1 DEF Respond, CallFails
  <1>3. /\ workers' \in [Workers -> Worker]
        /\ \A v \in Workers \ {w} : workers'[v] = workers[v]
        /\ \/ workers'[w].pc = "idle"
           \/ /\ workers[w].pc \in Tried
              /\ workers'[w].pc = "recordError" /\ workers'[w].event = e
    <2>1. workers \in [Workers -> Worker]
      BY DEF TypeOK
    <2> QED
      BY <1>1, <1>2, <2>1, GotoFacts, EndFacts
  <1>4. acked' \subseteq stored /\ acked' \subseteq EventIds /\ unanswered' \subseteq EventIds
    BY <1>1, <1>2 DEF OpenRows, TypeOK
  <1>5. TypeOK'
    BY <1>0, <1>3, <1>4 DEF TypeOK, db, webhookEvents
  <1>6. Ownership' /\ HandlersOwn' /\ BilledToOwner'
    BY <1>0, <1>1, <1>3, SettlesFrame DEF db
  <1>7. OpenRows'
    <2>1. ASSUME NEW v \in Workers, NEW i \in EventIds, i \notin unanswered', Handles(v, i)
          PROVE  Handles(v, i)'
      <3>1. CASE v # w
        BY <1>3, <2>1, <3>1 DEF Handles
      <3>2. CASE v = w
        <4>1. i = e /\ workers[w].pc \in Tried
          BY <1>1, <1>2, <2>1, <3>2 DEF Handles
        <4>2. workers'[w].pc = "recordError" /\ workers'[w].event = e
          <5>1. Goto(w, "recordError") /\ workers \in [Workers -> Worker]
            BY <1>2, <4>1 DEF TypeOK
          <5> QED
            BY <1>1, <5>1, GotoFacts
        <4> QED
          BY <3>2, <4>1, <4>2 DEF Handles
      <3> QED
        BY <3>1, <3>2
    <2>2. \A i \in stored \ (processed \cup errored \cup unanswered') :
             /\ i \in stored \ (processed \cup errored \cup unanswered) /\ i \in EventIds
             /\ i \notin unanswered'
      BY <1>2 DEF TypeOK
    <2>3. \A v \in Workers : workers'[v].pc \in Tried \cup {"recordError", "respond"} =>
             workers'[v].event \in stored
      BY <1>1, <1>3 DEF OpenRows
    <2>4. \A i \in stored \ (processed \cup errored \cup unanswered') :
             \E v \in Workers : Handles(v, i)'
      BY <2>1, <2>2 DEF OpenRows
    <2> QED
      BY <1>0, <1>4, <2>3, <2>4 DEF OpenRows, db, webhookEvents
  <1> QED
    BY <1>5, <1>6, <1>7

\* What the provisioning steps leave alone, and what they must show.
LEMMA ProvisionFrame ==
    ASSUME BillingInv, ProvisionOnly, NEW t \in Tenants,
           customers' \in [CustomerIds -> Tenants \cup {None}],
           \A c \in CustomerIds : customers[c] # None => customers'[c] = customers[c],
           UNCHANGED stripeSub, events' \in Seq(Event), Len(events') <= MaxEvents,
           Len(events) <= Len(events'),
           \A i \in 1 .. Len(events) : events'[i] = events[i],
           \A i \in 1 .. Len(events') : i > Len(events) => customers'[events'[i].cust] # None,
           subscriptions' \in [Tenants -> Subscription],
           \A u \in Tenants : subscriptions'[u].cust # None =>
              customers'[subscriptions'[u].cust] = u,
           published' \subseteq Message,
           \A m \in published' : m.tenant # None => customers'[m.cust] = m.tenant,
           prov' \in [Tenants -> [pc : {"idle", "insert", "sync", "done"},
                                  cust : CustomerIds \cup {None}]],
           \A u \in Tenants : prov'[u].pc \in {"insert", "sync"} =>
              prov'[u].cust # None /\ customers'[prov'[u].cust] = u,
           due' \subseteq Tenants, faults' \in 0 .. MaxFaults
    PROVE  BillingInv'
  <1> USE DEF BillingInv, ProvisionOnly, webhookEvents
  <1>0. Len(events) \in Nat /\ Len(events') \in Nat
    BY DEF TypeOK
  <1>1. TypeOK'
    BY DEF TypeOK
  <1>2. \A i \in 1 .. Len(events) : events[i].cust \in CustomerIds
    <2>1. \A i \in 1 .. Len(events) : events[i] \in Event
      BY DEF TypeOK
    <2> QED
      BY <2>1 DEF Event
  <1>3. Ownership'
    <2>1. \A i \in 1 .. Len(events') : customers'[events'[i].cust] # None
      <3> SUFFICES ASSUME NEW i \in 1 .. Len(events') PROVE customers'[events'[i].cust] # None
        OBVIOUS
      <3>1. CASE i <= Len(events)
        <4>1. i \in 1 .. Len(events)
          BY <1>0, <3>1
        <4> QED
          BY <1>2, <4>1 DEF Ownership
      <3> QED
        BY <1>0, <3>1
    <2>2. \A c \in CustomerIds : stripeSub[c] # "none" => customers'[c] # None
      BY DEF Ownership
    <2> QED
      BY <2>1, <2>2 DEF Ownership
  <1>4. HandlersOwn'
    <2>1. \A w \in Workers : workers[w].row.cust \in CustomerIds \cup {None}
      BY DEF TypeOK, Worker, Subscription
    <2>2. \A w \in Workers : Loaded(w) => Loaded(w)'
      BY <2>1 DEF Loaded
    <2>3. \A w \in Workers : Emitted(workers[w].event) =>
             Emitted(workers[w].event)' /\ EventAt(w)' = EventAt(w)
      BY <1>0 DEF Emitted, EventAt
    <2> QED
      BY <2>2, <2>3 DEF HandlersOwn, InvoiceSteps
  <1>5. BilledToOwner'
    <2>1. \A e \in EventIds : invoices[e] # None =>
             /\ e \in 1 .. Len(events') /\ events'[e].type = "invoice.paid"
             /\ customers'[events'[e].cust] = invoices[e]
      <3> SUFFICES ASSUME NEW e \in EventIds, invoices[e] # None
                   PROVE  /\ e \in 1 .. Len(events') /\ events'[e].type = "invoice.paid"
                          /\ customers'[events'[e].cust] = invoices[e]
        OBVIOUS
      <3>1. /\ e \in 1 .. Len(events) /\ events[e].type = "invoice.paid"
            /\ customers[events[e].cust] = invoices[e]
        BY DEF BilledToOwner, Emitted
      <3> QED
        BY <1>0, <1>2, <3>1
    <2> QED
      BY <2>1 DEF BilledToOwner, Emitted
  <1>6. OpenRows'
    BY DEF OpenRows, Handles
  <1> QED
    BY <1>1, <1>3, <1>4, <1>5, <1>6

\* A customer is created for the tenant it is then linked to.
LEMMA ProvisionInv ==
    ASSUME BillingInv, NEW t \in Tenants, ProvisionStep(t) \/ ProvisionFails(t)
    PROVE  BillingInv'
  <1> DEFINE Provs == [pc : {"idle", "insert", "sync", "done"}, cust : CustomerIds \cup {None}]
  <1>0. /\ customers \in [CustomerIds -> Tenants \cup {None}]
        /\ events \in Seq(Event) /\ Len(events) <= MaxEvents /\ Len(events) \in Nat
        /\ subscriptions \in [Tenants -> Subscription] /\ published \subseteq Message
        /\ prov \in [Tenants -> Provs] /\ due \subseteq Tenants /\ faults \in 0 .. MaxFaults
    BY DEF BillingInv, TypeOK
  <1>1. /\ \A u \in Tenants : subscriptions[u].cust # None => customers[subscriptions[u].cust] = u
        /\ \A m \in published : m.tenant # None => customers[m.cust] = m.tenant
        /\ \A u \in Tenants : prov[u].pc \in {"insert", "sync"} =>
              prov[u].cust # None /\ customers[prov[u].cust] = u
    BY DEF BillingInv, BilledToOwner, Ownership
  <1>2. \A pc \in {"insert", "sync", "done"} : [prov[t] EXCEPT !.pc = pc] \in Provs
    BY <1>0
  <1>3. ASSUME NEW c \in CustomerIds, CreateCustomer(t, c) PROVE BillingInv'
    <2> DEFINE ev == EventOf("customer.created", c, "trialing")
    <2>1. <<ev>> \in Seq(Event) /\ Len(<<ev>>) = 1 /\ <<ev>>[1].cust = c
      BY DEF EventOf, Event
    <2>2. Emit(<<ev>>) /\ TypeOK
      BY <1>3 DEF CreateCustomer, BillingInv
    <2> HIDE DEF ev
    <2>3. /\ events' \in Seq(Event) /\ Len(events') <= MaxEvents
          /\ Len(events') = Len(events) + 1
          /\ \A i \in 1 .. Len(events) : events'[i] = events[i]
          /\ \A i \in 1 .. Len(events') : i > Len(events) => events'[i].cust = c
      <3>1. /\ events' \in Seq(Event) /\ Len(events') <= MaxEvents
            /\ Len(events') = Len(events) + Len(<<ev>>)
            /\ \A i \in 1 .. Len(events) : events'[i] = events[i]
            /\ \A i \in 1 .. Len(events') : i > Len(events) =>
                  events'[i] = <<ev>>[i - Len(events)]
        BY <2>1, <2>2, EmitFacts
      <3>2. \A i \in 1 .. Len(events') : i > Len(events) => i - Len(events) = 1
        BY <1>0, <2>1, <3>1
      <3> QED
        BY <2>1, <3>1, <3>2
    <2>4. /\ customers[c] = None /\ customers' = [customers EXCEPT ![c] = t]
          /\ prov' = [prov EXCEPT ![t] = [pc |-> "insert", cust |-> c]]
          /\ due' = due \ {t} /\ UNCHANGED <<stripeSub, subscriptions, published, faults>>
          /\ ProvisionOnly
      BY <1>3 DEF CreateCustomer
    <2>5. /\ customers' \in [CustomerIds -> Tenants \cup {None}] /\ customers'[c] # None
          /\ \A d \in CustomerIds : customers[d] # None => customers'[d] = customers[d]
      BY <1>0, <2>4
    <2>6. \A u \in Tenants : subscriptions[u].cust \in CustomerIds \cup {None}
      BY <1>0 DEF Subscription
    <2>7. \A m \in published : m.cust \in CustomerIds
      BY <1>0 DEF Message
    <2>8. /\ \A u \in Tenants : subscriptions[u].cust # None => customers'[subscriptions[u].cust] = u
          /\ \A m \in published : m.tenant # None => customers'[m.cust] = m.tenant
      BY <1>0, <1>1, <2>5, <2>6, <2>7
    <2>9. /\ prov' \in [Tenants -> Provs]
          /\ \A u \in Tenants : prov'[u].pc \in {"insert", "sync"} =>
                prov'[u].cust # None /\ customers'[prov'[u].cust] = u
      BY <1>0, <1>1, <2>4, <2>5
    <2>10. /\ UNCHANGED stripeSub /\ subscriptions' = subscriptions /\ published' = published
           /\ due' \subseteq Tenants /\ faults' \in 0 .. MaxFaults /\ ProvisionOnly
      BY <1>0, <2>4
    <2>11. /\ subscriptions' \in [Tenants -> Subscription] /\ published' \subseteq Message
           /\ \A u \in Tenants : subscriptions'[u].cust # None =>
                 customers'[subscriptions'[u].cust] = u
           /\ \A m \in published' : m.tenant # None => customers'[m.cust] = m.tenant
      BY <1>0, <2>8, <2>10
    <2>12. /\ Len(events) <= Len(events')
           /\ \A i \in 1 .. Len(events') : i > Len(events) => customers'[events'[i].cust] # None
      BY <1>0, <2>3, <2>5
    <2> QED
      BY <2>3, <2>5, <2>9, <2>10, <2>11, <2>12, ProvisionFrame
  <1>4. CASE CreateSubscription(t)
    <2>1. /\ prov[t].pc = "insert"
          /\ UNCHANGED <<customers, stripeSub, events, published, due, faults>> /\ ProvisionOnly
          /\ \/ prov' = [prov EXCEPT ![t].pc = "done"] /\ UNCHANGED subscriptions
             \/ /\ prov' = [prov EXCEPT ![t].pc = "sync"]
                /\ \E s \in {"active", "trialing"} :
                      subscriptions' = [subscriptions EXCEPT ![t] =
                          [cust |-> prov[t].cust, sub |-> None, status |-> s]]
      BY <1>4 DEF CreateSubscription
    <2>2. prov[t].cust \in CustomerIds /\ customers[prov[t].cust] = t
      BY <1>0, <1>1, <2>1
    <2>3. /\ prov' \in [Tenants -> Provs]
          /\ \A u \in Tenants : prov'[u].pc \in {"insert", "sync"} =>
                prov'[u].cust # None /\ customers[prov'[u].cust] = u
      BY <1>0, <1>1, <1>2, <2>1
    <2>4. /\ subscriptions' \in [Tenants -> Subscription]
          /\ \A u \in Tenants : subscriptions'[u].cust # None => customers[subscriptions'[u].cust] = u
      <3>1. \A s \in {"active", "trialing"} :
               [cust |-> prov[t].cust, sub |-> None, status |-> s] \in Subscription
        BY <2>2 DEF Subscription
      <3>2. CASE UNCHANGED subscriptions
        BY <1>0, <1>1, <3>2
      <3>3. ASSUME NEW s \in {"active", "trialing"},
                   subscriptions' = [subscriptions EXCEPT ![t] =
                       [cust |-> prov[t].cust, sub |-> None, status |-> s]]
            PROVE  /\ subscriptions' \in [Tenants -> Subscription]
                   /\ \A u \in Tenants : subscriptions'[u].cust # None =>
                         customers[subscriptions'[u].cust] = u
        <4> DEFINE r == [cust |-> prov[t].cust, sub |-> None, status |-> s]
        <4>1. r \in Subscription /\ r.cust = prov[t].cust
          BY <3>1
        <4> HIDE DEF r
        <4>2. subscriptions' = [subscriptions EXCEPT ![t] = r]
          BY <3>3 DEF r
        <4> QED
          BY <1>0, <1>1, <2>2, <4>1, <4>2
      <3> QED
        BY <2>1, <3>2, <3>3
    <2> QED
      BY <1>0, <1>1, <2>1, <2>3, <2>4, ProvisionFrame
  <1>5. CASE PublishSynced(t)
    <2> DEFINE m == [topic |-> "billing.synced", tenant |-> t, cust |-> prov[t].cust]
    <2>1. /\ prov[t].pc = "sync" /\ prov' = [prov EXCEPT ![t].pc = "done"]
          /\ published' \in {published, published \cup {m}}
          /\ UNCHANGED <<customers, stripeSub, events, subscriptions, due, faults>>
          /\ ProvisionOnly
      BY <1>5 DEF PublishSynced, Publish
    <2>2. m \in Message /\ customers[m.cust] = m.tenant
      BY <1>0, <1>1, <2>1 DEF Message, Topics
    <2>3. /\ prov' \in [Tenants -> Provs]
          /\ \A u \in Tenants : prov'[u].pc \in {"insert", "sync"} =>
                prov'[u].cust # None /\ customers[prov'[u].cust] = u
      BY <1>0, <1>1, <1>2, <2>1
    <2> HIDE DEF m
    <2>4. /\ published' \subseteq Message
          /\ \A n \in published' : n.tenant # None => customers[n.cust] = n.tenant
      BY <1>0, <1>1, <2>1, <2>2
    <2> QED
      BY <1>0, <1>1, <2>1, <2>3, <2>4, ProvisionFrame
  <1>6. CASE ProvisionFails(t)
    <2>1. /\ prov' = [prov EXCEPT ![t].pc = "done"] /\ due' = due \ {t}
          /\ UNCHANGED <<customers, stripeSub, events, subscriptions, published>>
          /\ ProvisionOnly
      BY <1>6 DEF ProvisionFails
    <2>2. faults' \in 0 .. MaxFaults
      BY <1>0, <1>6 DEF ProvisionFails
    <2>3. /\ prov' \in [Tenants -> Provs]
          /\ \A u \in Tenants : prov'[u].pc \in {"insert", "sync"} =>
                prov'[u].cust # None /\ customers[prov'[u].cust] = u
      BY <1>0, <1>1, <1>2, <2>1
    <2> QED
      BY <1>0, <1>1, <2>1, <2>2, <2>3, ProvisionFrame
  <1> QED
    BY <1>3, <1>4, <1>5, <1>6 DEF ProvisionStep

\* After a crash every row that was open is the row of a delivery that died.
LEMMA CrashInv ==
    ASSUME BillingInv, Crash
    PROVE  BillingInv'
  <1> USE DEF BillingInv
  <1>0. /\ faults < MaxFaults /\ faults' = faults + 1
        /\ unanswered' = unanswered \cup {e \in EventIds : InFlight(e)}
        /\ workers' = [w \in Workers |-> Idle]
        /\ prov' = [t \in Tenants |-> [pc |-> "idle", cust |-> None]] /\ due' = Tenants
        /\ UNCHANGED <<customers, stripeSub, events, attempts, acked, db, published>>
    BY DEF Crash
  <1>1. workers' \in [Workers -> Worker] /\ \A w \in Workers : workers'[w].pc = "idle"
    BY <1>0, NullTypes DEF Idle
  <1>2. TypeOK'
    <2>1. prov' \in [Tenants -> [pc : {"idle", "insert", "sync", "done"},
                                 cust : CustomerIds \cup {None}]]
      BY <1>0
    <2>2. unanswered' \subseteq EventIds /\ faults' \in 0 .. MaxFaults
      <3>1. unanswered \subseteq EventIds /\ faults \in 0 .. MaxFaults
        BY DEF TypeOK
      <3>2. unanswered' \subseteq EventIds
        BY ONLY <1>0, <3>1
      <3> QED
        BY <1>0, <3>1, <3>2
    <2>3. due' \subseteq Tenants
      BY <1>0
    <2>4. UNCHANGED <<customers, stripeSub, events, attempts, acked, stored, processed, errored,
                      subscriptions, invoices, published>>
      BY <1>0 DEF db, webhookEvents
    <2> QED
      BY <1>1, <2>1, <2>2, <2>3, <2>4 DEF TypeOK
  <1>3. Ownership' /\ BilledToOwner'
    BY <1>0 DEF Ownership, BilledToOwner, Emitted, db
  <1>4. HandlersOwn'
    BY <1>1 DEF HandlersOwn, InvoiceSteps
  <1>5. OpenRows'
    <2>1. stored \ (processed \cup errored) \subseteq unanswered'
      <3> SUFFICES ASSUME NEW e \in stored \ (processed \cup errored), e \notin unanswered
                   PROVE  e \in unanswered'
        BY <1>0
      <3>1. \E w \in Workers : Handles(w, e)
        BY DEF OpenRows
      <3>2. e \in EventIds /\ InFlight(e)
        BY <3>1 DEF Handles, InFlight, TypeOK
      <3> QED
        BY <1>0, <3>2
    <2> QED
      BY <1>0, <1>1, <2>1 DEF OpenRows, db, webhookEvents
  <1> QED
    BY <1>2, <1>3, <1>4, <1>5

\* BillingInv is an invariant of the billing engine: every step of Stripe, of a
\* webhook request and of the provisioning consumer, every fault and every crash
\* preserves it.
THEOREM BillingInvariant == Spec => []BillingInv
  <1>1. Init => BillingInv
    BY InitInv
  <1>2. BillingInv /\ [Next]_vars => BillingInv'
    <2> SUFFICES ASSUME BillingInv, [Next]_vars PROVE BillingInv'
      OBVIOUS
    <2>1. CASE StripeStep
      BY <2>1, StripeInv
    <2>2. ASSUME NEW w \in Workers, NEW e \in EventIds, Deliver(w, e) PROVE BillingInv'
      BY <2>2, DeliverInv
    <2>3. ASSUME NEW w \in Workers, HandlerStep(w) PROVE BillingInv'
      BY <2>3, UpsertInv, RouteInv, SaveInv, InvoiceInv, PublishInv, SettleInv, EndInv
         DEF HandlerStep
    <2>4. ASSUME NEW w \in Workers, CallFails(w) PROVE BillingInv'
      BY <2>4, EndInv
    <2>5. ASSUME NEW t \in Tenants, ProvisionStep(t) \/ ProvisionFails(t) PROVE BillingInv'
      BY <2>5, ProvisionInv
    <2>6. CASE Crash
      BY <2>6, CrashInv
    <2>7. CASE UNCHANGED vars
      BY <2>7 DEF vars, stripe, db, webhookEvents, BillingInv, TypeOK, Ownership, HandlersOwn,
            BilledToOwner, OpenRows, Loaded, Emitted, EventAt, Handles
    <2> QED
      BY <2>1, <2>2, <2>3, <2>4, <2>5, <2>6, <2>7 DEF Next
  <1> QED
    BY <1>1, <1>2, PTL DEF Spec

\* Billing data reaches only the tenant it belongs to, whatever order, overlap,
\* duplication or failure the deliveries and the provisioning meet.
THEOREM TenantIsolation == Spec => []BilledToOwner
  <1>1. BillingInv => BilledToOwner
    BY DEF BillingInv
  <1> QED
    BY <1>1, BillingInvariant, PTL

\* No event answered 200 is lost without a trace in webhook_events, unless another
\* delivery of it is under way or died.
THEOREM AnsweredTraced == Spec => []AnsweredIsTraced
  <1>1. BillingInv => AnsweredIsTraced
    <2> SUFFICES ASSUME BillingInv, NEW e \in acked
                 PROVE  e \in stored /\ (e \in processed \cup errored \cup unanswered \/ InFlight(e))
      BY DEF AnsweredIsTraced
    <2>1. e \in stored
      BY DEF BillingInv, OpenRows
    <2> QED
      BY <2>1 DEF BillingInv, OpenRows, Handles, InFlight
  <1> QED
    BY <1>1, BillingInvariant, PTL

-----------------------------------------------------------------------------
(* The role of docker-compose.yml, which the policies of V2 apply to.      *)

\* Where a handler without a row can be.
RowSteps == {"save", "update"} \cup InvoiceSteps

Blind ==
    /\ \A t \in Tenants : subscriptions[t] = NoSubscription
    /\ \A e \in EventIds : invoices[e] = None
    /\ \A m \in published : m.tenant = None
    /\ \A w \in Workers : workers[w].pc \notin RowSteps
    /\ \A t \in Tenants : prov[t].pc # "sync"

\* A handler step that found no row leaves the tables empty.
LEMMA BlindGoto ==
    ASSUME BillingInv, Blind, NEW w \in Workers, NEW pc, pc \notin RowSteps, Goto(w, pc),
           UNCHANGED <<subscriptions, invoices, prov>>,
           \A m \in published' : m.tenant = None
    PROVE  Blind'
  <1>1. \A v \in Workers : workers'[v].pc = workers[v].pc \/ workers'[v].pc = pc
    BY DEF Goto, BillingInv, TypeOK, Worker
  <1> QED
    BY <1>1 DEF Blind

\* Every step of a service whose role sees no row.
LEMMA BlindStep ==
    ASSUME ~RowsVisible, BillingInv, Blind, [Next]_vars
    PROVE  Blind'
  <1> USE DEF RowSteps, InvoiceSteps
  <1>0. \A c : ByCustomer(c) = {} /\ BySubscription(c) = {}
    BY DEF ByCustomer, BySubscription, HasRow
  <1>1. CASE StripeStep \/ UNCHANGED vars
    BY <1>1 DEF StripeStep, CreateCheckout, CheckoutCompleted, TrialEnds, SubscriptionDeleted,
         PaymentFailed, PaymentSucceeded, StripeChange, Elsewhere, Blind, vars, db
  <1>2. ASSUME NEW w \in Workers, NEW e \in EventIds, Deliver(w, e)
        PROVE  Blind'
    BY <1>2 DEF Deliver, Blind, Idle, db, BillingInv, TypeOK
  <1>3. ASSUME NEW w \in Workers, Upsert(w) \/ Mark(w) \/ RecordError(w)
        PROVE  Blind'
    <2>1. PICK pc \in {"route", "respond"} : Goto(w, pc)
      BY <1>3 DEF Upsert, Mark, RecordError
    <2>2. UNCHANGED <<subscriptions, invoices, prov, published>>
      BY <1>3 DEF Upsert, Mark, RecordError
    <2> QED
      BY <2>1, <2>2, BlindGoto DEF Blind
  <1>4. ASSUME NEW w \in Workers, Route(w)
        PROVE  Blind'
    <2>1. UNCHANGED <<invoices, prov, published>>
      BY <1>4 DEF Route
    <2>2. \A t : ~HasRow(t)
      BY DEF HasRow
    <2>3. UNCHANGED subscriptions
      BY <1>4, <2>2 DEF Route, SubscriptionCreated, SubscriptionUpdated, InvoicePaid,
           InvoicePaymentFailed, CustomerCreated
    <2>4. \A v \in Workers : workers'[v].pc = workers[v].pc \/ workers'[v].pc \in {"publish", "mark"}
      <3>1. \E pc \in {"publish", "mark"} :
               \/ Goto(w, pc)
               \/ \E st : workers' = [workers EXCEPT ![w].pc = pc, ![w].status = st]
        BY <1>0, <1>4 DEF Route, SubscriptionCreated, SubscriptionUpdated, InvoicePaid,
             InvoicePaymentFailed, CustomerCreated, Load
      <3>2. workers \in [Workers -> Worker]
        BY DEF BillingInv, TypeOK
      <3> QED
        BY <3>1, <3>2 DEF Goto, Worker
    <2> QED
      BY <2>1, <2>3, <2>4 DEF Blind
  <1>5. ASSUME NEW w \in Workers, Save(w) \/ UpdateStatus(w) \/ FindInvoice(w) \/ SaveInvoice(w)
        PROVE  FALSE
    BY <1>5 DEF Save, UpdateStatus, FindInvoice, SaveInvoice, Blind
  <1>6. ASSUME NEW w \in Workers, PublishStatus(w)
        PROVE  Blind'
    <2>1. Goto(w, "mark") /\ UNCHANGED <<subscriptions, invoices, prov>>
      BY <1>6 DEF PublishStatus, db
    <2>2. \A m \in StatusMessages(w) \cup AuditMessages(w) : m.tenant = None
      BY <1>0 DEF StatusMessages, AuditMessages
    <2>3. \A m \in published' : m.tenant = None
      BY <1>6, <2>2 DEF PublishStatus, Publish, Blind
    <2> QED
      BY <2>1, <2>3, BlindGoto
  <1>7. ASSUME NEW w \in Workers, Respond(w)
        PROVE  Blind'
    BY <1>7 DEF Respond, Blind, Idle, db, BillingInv, TypeOK
  <1>8. ASSUME NEW w \in Workers, CallFails(w)
        PROVE  Blind'
    <2>1. UNCHANGED <<subscriptions, invoices, prov, published>>
      BY <1>8 DEF CallFails, db
    <2>2. CASE Goto(w, "recordError")
      BY <2>1, <2>2, BlindGoto DEF Blind
    <2>3. CASE workers' = [workers EXCEPT ![w] = Idle]
      BY <2>1, <2>3 DEF Blind, Idle, BillingInv, TypeOK
    <2> QED
      BY <1>8, <2>2, <2>3 DEF CallFails
  <1>9. ASSUME NEW t \in Tenants, ProvisionStep(t) \/ ProvisionFails(t)
        PROVE  Blind'
    <2>1. CASE \E c \in CustomerIds : CreateCustomer(t, c)
      BY <2>1 DEF CreateCustomer, ProvisionOnly, Blind, BillingInv, TypeOK
    <2>2. CASE CreateSubscription(t)
      <3>1. /\ prov' = [prov EXCEPT ![t].pc = "done"]
            /\ UNCHANGED <<subscriptions, published, invoices, workers>>
        BY <2>2 DEF CreateSubscription, ProvisionOnly
      <3>2. \A u \in Tenants : prov'[u].pc = prov[u].pc \/ prov'[u].pc = "done"
        BY <3>1 DEF BillingInv, TypeOK
      <3> QED
        BY <3>1, <3>2 DEF Blind
    <2>3. CASE PublishSynced(t)
      BY <2>3 DEF PublishSynced, Blind
    <2>4. CASE ProvisionFails(t)
      BY <2>4 DEF ProvisionFails, ProvisionOnly, Blind, BillingInv, TypeOK
    <2> QED
      BY <1>9, <2>1, <2>2, <2>3, <2>4 DEF ProvisionStep
  <1>10. CASE Crash
    BY <1>10 DEF Crash, Blind, Idle, db
  <1> QED
    BY <1>1, <1>2, <1>3, <1>4, <1>5, <1>6, <1>7, <1>8, <1>9, <1>10 DEF Next, HandlerStep

\* For the role the service is deployed with, whatever Stripe and the broker send
\* and however often: no subscription row and no invoice is ever written, and no
\* message ever names a tenant, although the events are answered 200 and marked
\* processed.
THEOREM HiddenRowsStayEmpty == ASSUME ~RowsVisible PROVE Spec => []NothingRecorded
  <1>1. Init => Blind
    BY DEF Init, Blind, Idle, RowSteps, InvoiceSteps
  <1>2. BillingInv /\ Blind /\ [Next]_vars => Blind'
    BY BlindStep
  <1>3. Blind => NothingRecorded
    BY DEF Blind, NothingRecorded
  <1> QED
    BY <1>1, <1>2, <1>3, BillingInvariant, PTL DEF Spec

-----------------------------------------------------------------------------
(* The tables have no gap while nothing fails.                             *)

\* A tenant gets one Stripe customer, when its message is consumed.
OneCustomer ==
    \A c, d \in CustomerIds : customers[c] # None /\ customers[c] = customers[d] => c = d

Unprovisioned == \A t \in due : \A c \in CustomerIds : customers[c] # t

\* A provisioned tenant has a row, and a customer who has been to the checkout is
\* the customer of its tenant's row.
RowsThere ==
    /\ \A t \in Tenants : prov[t].pc \in {"sync", "done"} => subscriptions[t].cust # None
    /\ \A c \in CustomerIds : stripeSub[c] # "none" => subscriptions[customers[c]].cust = c

\* Only customers who have been to the checkout have events of a subscription.
Reported ==
    \A e \in 1 .. Len(events) :
        events[e].type # "customer.created" => stripeSub[events[e].cust] # "none"

\* A handler that is past recording the invoice of its event has recorded it, and
\* so has one that answered.
PastInvoice == {"save", "update", "updateInvoice", "publish", "mark", "recordError", "respond"}

Paid(w) == EventAt(w).type = "invoice.paid"

Recorded ==
    /\ \A e \in acked \cup processed :
          Emitted(e) /\ (events[e].type = "invoice.paid" => invoices[e] # None)
    /\ \A w \in Workers : workers[w].pc \in PastInvoice /\ Paid(w) =>
          invoices[workers[w].event] # None

WholeInv == OneCustomer /\ Unprovisioned /\ RowsThere /\ Reported /\ Recorded

\* A row that is never lost stays the row of the tenant's one customer.
LEMMA RowsFrame ==
    ASSUME BillingInv, BillingInv', WholeInv,
           UNCHANGED <<customers, stripeSub, events>>, due' \subseteq due,
           \A t \in Tenants : subscriptions[t].cust # None => subscriptions'[t].cust # None,
           \A t \in Tenants : prov'[t].pc \in {"sync", "done"} =>
              prov[t].pc \in {"sync", "done"} \/ subscriptions'[t].cust # None
    PROVE  OneCustomer' /\ Unprovisioned' /\ RowsThere' /\ Reported'
  <1>1. OneCustomer' /\ Unprovisioned' /\ Reported'
    BY DEF WholeInv, OneCustomer, Unprovisioned, Reported
  <1>2. ASSUME NEW c \in CustomerIds, stripeSub[c] # "none"
        PROVE  subscriptions'[customers[c]].cust = c
    <2>1. customers[c] \in Tenants /\ subscriptions[customers[c]].cust = c /\ c # None
      BY <1>2 DEF BillingInv, TypeOK, Ownership, WholeInv, RowsThere
    <2>2. subscriptions'[customers[c]].cust \in CustomerIds
      BY <2>1 DEF BillingInv, TypeOK, Subscription
    <2>3. customers[subscriptions'[customers[c]].cust] = customers[c]
      BY <2>1 DEF BillingInv, BilledToOwner
    <2> QED
      BY <2>1, <2>2, <2>3 DEF WholeInv, OneCustomer
  <1>3. RowsThere'
    BY <1>2 DEF WholeInv, RowsThere
  <1> QED
    BY <1>1, <1>3

\* A step of one handler leaves the invoices of the others recorded.
LEMMA RecordedFrame ==
    ASSUME BillingInv, WholeInv, NEW w \in Workers, events' = events,
           \A e \in EventIds : invoices[e] # None => invoices'[e] # None,
           \A v \in Workers \ {w} : workers'[v] = workers[v],
           \A e \in acked' \cup processed' :
              \/ e \in acked \cup processed
              \/ Emitted(e) /\ (events[e].type = "invoice.paid" => invoices'[e] # None),
           workers'[w].pc \in PastInvoice /\ Paid(w)' => invoices'[workers'[w].event] # None
    PROVE  Recorded'
  <1>1. \A e \in acked' \cup processed' :
           Emitted(e)' /\ (events[e].type = "invoice.paid" => invoices'[e] # None)
    BY DEF WholeInv, Recorded, BillingInv, TypeOK, Emitted
  <1>2. ASSUME NEW v \in Workers \ {w}, workers'[v].pc \in PastInvoice, Paid(v)'
        PROVE  invoices'[workers'[v].event] # None
    <2>1. workers[v].pc \in PastInvoice /\ Paid(v) /\ workers'[v].event = workers[v].event
      BY <1>2 DEF Paid, EventAt
    <2>2. workers[v].event \in EventIds
      BY <2>1, InFlightEvent DEF PastInvoice
    <2> QED
      BY <2>1, <2>2 DEF WholeInv, Recorded
  <1> QED
    BY <1>1, <1>2 DEF Recorded

\* The state at the start.
LEMMA InitWhole == Init => WholeInv
  BY DEF Init, WholeInv, OneCustomer, Unprovisioned, RowsThere, Reported, Recorded,
         PastInvoice, Idle

\* A delivery of an event processed before finds its invoice recorded.
LEMMA DeliverWhole ==
    ASSUME BillingInv, BillingInv', WholeInv, NEW w \in Workers, NEW e \in EventIds,
           Deliver(w, e)
    PROVE  WholeInv'
  <1>1. /\ \A v \in Workers \ {w} : workers'[v] = workers[v]
        /\ workers'[w].pc = (IF e \in processed THEN "respond" ELSE "upsert")
        /\ workers'[w].event = e
    <2>1. e \in Nat /\ workers \in [Workers -> Worker]
      BY DEF BillingInv, TypeOK
    <2>2. CASE e \in processed
      <3>1. workers' = [workers EXCEPT ![w] = [Idle EXCEPT !.pc = "respond", !.event = e]]
        BY <2>2 DEF Deliver
      <3> QED
        BY <2>1, <2>2, <3>1, StartFacts
    <2>3. CASE e \notin processed
      <3>1. workers' = [workers EXCEPT ![w] = [Idle EXCEPT !.pc = "upsert", !.event = e]]
        BY <2>3 DEF Deliver
      <3> QED
        BY <2>1, <2>3, <3>1, StartFacts
    <2> QED
      BY <2>2, <2>3
  <1>2. UNCHANGED <<customers, stripeSub, events, acked, processed, subscriptions, invoices,
                    prov, due>>
    BY DEF Deliver, db, webhookEvents
  <1>3. OneCustomer' /\ Unprovisioned' /\ RowsThere' /\ Reported'
    BY <1>2, RowsFrame
  <1>4. workers'[w].pc \in PastInvoice /\ Paid(w)' => invoices'[workers'[w].event] # None
    BY <1>1, <1>2 DEF PastInvoice, Paid, EventAt, WholeInv, Recorded
  <1>5. Recorded'
    BY <1>1, <1>2, <1>4, RecordedFrame
  <1> QED
    BY <1>3, <1>5 DEF WholeInv

\* A handler that finds a row goes on with it.
LEMMA LoadFinds ==
    ASSUME workers \in [Workers -> Worker], NEW w \in Workers, NEW found, found # {},
           NEW s, NEW pc, NEW otherwise, Load(w, found, s, pc, otherwise)
    PROVE  \E t \in found :
              /\ workers'[w].pc = pc /\ workers'[w].status = s /\ workers'[w].tenant = t
              /\ workers'[w].row = subscriptions[t]
  <1>1. PICK t \in found :
           workers' = [workers EXCEPT ![w].pc = pc, ![w].status = s, ![w].tenant = t,
                                      ![w].row = subscriptions[t]]
    BY DEF Load
  <1>2. workers[w] \in Worker
    OBVIOUS
  <1> DEFINE r == [workers[w] EXCEPT !.pc = pc, !.status = s, !.tenant = t,
                                     !.row = subscriptions[t]]
  <1>3. r.pc = pc /\ r.status = s /\ r.tenant = t /\ r.row = subscriptions[t]
    BY <1>2 DEF Worker
  <1>4. workers' = [workers EXCEPT ![w] = r]
    BY <1>1
  <1> HIDE DEF r
  <1> QED
    BY <1>3, <1>4

\* The customer of a paid invoice has a row.
LEMMA PaidFound ==
    ASSUME BillingInv, WholeInv, RowsVisible, NEW w \in Workers, workers[w].pc # "idle",
           EventAt(w).type # "customer.created"
    PROVE  customers[EventAt(w).cust] \in ByCustomer(EventAt(w).cust)
  <1> DEFINE c == EventAt(w).cust
  <1>1. c \in CustomerIds /\ customers[c] \in Tenants /\ workers[w].event \in 1 .. Len(events)
    BY InFlightEvent DEF Event, Emitted
  <1>2. stripeSub[c] # "none"
    BY <1>1 DEF WholeInv, Reported, EventAt
  <1>3. subscriptions[customers[c]].cust = c /\ c # None
    BY <1>1, <1>2 DEF WholeInv, RowsThere
  <1> QED
    BY <1>1, <1>3 DEF ByCustomer, HasRow

\* A step of a handler that leaves the rows of webhook_events alone.
LEMMA HandlerWhole ==
    ASSUME BillingInv, BillingInv', WholeInv, NEW w \in Workers,
           UNCHANGED <<stripe, processed, prov, due>>,
           \A t \in Tenants : subscriptions[t].cust # None => subscriptions'[t].cust # None,
           \A e \in EventIds : invoices[e] # None => invoices'[e] # None,
           \A v \in Workers \ {w} : workers'[v] = workers[v],
           workers'[w].event = workers[w].event,
           \/ ~Paid(w) \/ workers'[w].pc \notin PastInvoice
           \/ workers[w].pc \in PastInvoice \/ invoices'[workers[w].event] # None
    PROVE  WholeInv'
  <1>1. UNCHANGED <<customers, stripeSub, events, acked>>
    BY DEF stripe
  <1>2. OneCustomer' /\ Unprovisioned' /\ RowsThere' /\ Reported'
    BY <1>1, RowsFrame
  <1>3. Paid(w)' = Paid(w)
    BY <1>1 DEF Paid, EventAt
  <1>4. workers'[w].pc \in PastInvoice /\ Paid(w)' => invoices'[workers'[w].event] # None
    <2>1. workers[w].pc \in PastInvoice => workers[w].event \in EventIds
      BY InFlightEvent DEF PastInvoice
    <2> QED
      BY <1>3, <2>1 DEF WholeInv, Recorded
  <1>5. Recorded'
    BY <1>1, <1>4, RecordedFrame
  <1> QED
    BY <1>2, <1>5 DEF WholeInv

\* The router: only the handler of a paid invoice handles one, and it finds the row.
LEMMA RouteWhole ==
    ASSUME BillingInv, BillingInv', WholeInv, RowsVisible, NEW w \in Workers, Route(w)
    PROVE  WholeInv'
  <1>0. /\ workers[w].pc = "route" /\ invoices' = invoices
        /\ UNCHANGED <<stripe, processed, prov, due>>
    BY DEF Route, webhookEvents
  <1>1. /\ workers \in [Workers -> Worker] /\ subscriptions \in [Tenants -> Subscription]
        /\ EventAt(w).status \in SubscriptionStatus /\ EventAt(w).cust \in CustomerIds
        /\ customers[EventAt(w).cust] \in Tenants
    BY <1>0, InFlightEvent DEF Event, BillingInv, TypeOK
  <1>2. ByCustomer(EventAt(w).cust) \subseteq Tenants
        /\ BySubscription(EventAt(w).cust) \subseteq Tenants
    BY DEF ByCustomer, BySubscription
  <1>3. ASSUME NEW found, found \subseteq Tenants, NEW s \in SubscriptionStatus,
               NEW pc \in Steps, NEW otherwise \in Steps, Load(w, found, s, pc, otherwise),
               subscriptions' = subscriptions,
               ~Paid(w) \/ (pc \notin PastInvoice /\ found # {})
        PROVE  WholeInv'
    <2>1. /\ \A v \in Workers \ {w} : workers'[v] = workers[v]
          /\ workers'[w].event = workers[w].event
      <3> HIDE DEF Steps, SubscriptionStatus
      <3> QED
        BY <1>1, <1>3, LoadFacts
    <2>2. found # {} => workers'[w].pc = pc
      BY <1>1, <1>3, LoadFinds
    <2> QED
      BY <1>0, <1>3, <2>1, <2>2, HandlerWhole
  <1>4. CASE SubscriptionCreated(w) \/ SubscriptionUpdated(w)
    <2>1. ~Paid(w) /\ subscriptions' = subscriptions
      BY <1>4 DEF Paid, SubscriptionCreated, SubscriptionUpdated
    <2>2. \E found \in SUBSET Tenants :
             Load(w, found, EventAt(w).status, "save", "publish")
      BY <1>2, <1>4 DEF SubscriptionCreated, SubscriptionUpdated
    <2> QED
      BY <1>1, <1>3, <2>1, <2>2
  <1>5. CASE InvoicePaid(w)
    <2>1. ByCustomer(EventAt(w).cust) # {}
      BY <1>0, <1>5, PaidFound DEF InvoicePaid
    <2>2. /\ Load(w, ByCustomer(EventAt(w).cust), "active", "findInvoice", "mark")
          /\ subscriptions' = subscriptions /\ "findInvoice" \notin PastInvoice
      BY <1>5 DEF InvoicePaid, PastInvoice
    <2> QED
      BY <1>2, <1>3, <2>1, <2>2
  <1>6. CASE InvoicePaymentFailed(w)
    <2>1. ~Paid(w) /\ subscriptions' = subscriptions
          /\ Load(w, ByCustomer(EventAt(w).cust), "past_due", "update", "mark")
      BY <1>6 DEF Paid, InvoicePaymentFailed
    <2> QED
      BY <1>2, <1>3, <2>1
  <1>7. CASE CustomerCreated(w)
    <2> DEFINE c == EventAt(w).cust
               t == customers[c]
    <2>1. ~Paid(w) /\ Goto(w, "mark")
          /\ subscriptions' = IF HasRow(t) THEN [subscriptions EXCEPT ![t].cust = c]
                                           ELSE subscriptions
      BY <1>7 DEF Paid, CustomerCreated
    <2>2. \A u \in Tenants : subscriptions[u].cust # None => subscriptions'[u].cust # None
      <3>1. [subscriptions[t] EXCEPT !.cust = c].cust = c /\ c # None
        BY <1>1 DEF Subscription
      <3> QED
        BY <1>1, <2>1, <3>1
    <2>3. /\ \A v \in Workers \ {w} : workers'[v] = workers[v]
          /\ workers'[w].event = workers[w].event
      BY <1>1, <2>1, GotoFacts
    <2> QED
      BY <1>0, <2>1, <2>2, <2>3, HandlerWhole
  <1> QED
    BY <1>4, <1>5, <1>6, <1>7 DEF Route

\* A saved row keeps a customer.
LEMMA SaveWhole ==
    ASSUME BillingInv, BillingInv', WholeInv, NEW w \in Workers, Save(w) \/ UpdateStatus(w)
    PROVE  WholeInv'
  <1> DEFINE t == workers[w].tenant
             row == workers[w].row
  <1>0. /\ workers[w].pc \in {"save", "update"} /\ Goto(w, "publish") /\ invoices' = invoices
        /\ UNCHANGED <<stripe, processed, prov, due>>
    BY DEF Save, UpdateStatus, webhookEvents
  <1>1. /\ t \in Tenants /\ row.cust # None /\ row \in Subscription
        /\ workers \in [Workers -> Worker] /\ subscriptions \in [Tenants -> Subscription]
    <2>1. workers[w] \in Worker /\ Loaded(w)
      BY <1>0 DEF BillingInv, TypeOK, HandlersOwn
    <2> QED
      BY <2>1 DEF Loaded, Worker, BillingInv, TypeOK
  <1>2. \A u \in Tenants : subscriptions[u].cust # None => subscriptions'[u].cust # None
    <2>1. CASE Save(w)
      <3>1. Saved(w).cust = row.cust
        BY <1>1 DEF Saved, Subscription
      <3> QED
        BY <1>1, <2>1, <3>1 DEF Save
    <2>2. CASE UpdateStatus(w)
      <3>1. [subscriptions[t] EXCEPT !.status = workers[w].status].cust = subscriptions[t].cust
        BY <1>1 DEF Subscription
      <3>2. subscriptions' =
               [subscriptions EXCEPT ![t] = [subscriptions[t] EXCEPT !.status = workers[w].status]]
        BY <2>2 DEF UpdateStatus
      <3> QED
        BY <1>1, <3>1, <3>2
    <2> QED
      BY <2>1, <2>2
  <1>3. /\ \A v \in Workers \ {w} : workers'[v] = workers[v]
        /\ workers'[w].event = workers[w].event
    BY <1>0, <1>1, GotoFacts
  <1> QED
    BY <1>0, <1>2, <1>3, HandlerWhole DEF PastInvoice

\* upsertFromStripe leaves the invoice recorded, whichever delivery was faster.
LEMMA InvoiceWhole ==
    ASSUME BillingInv, BillingInv', WholeInv, NEW w \in Workers, FindInvoice(w) \/ SaveInvoice(w)
    PROVE  WholeInv'
  <1> DEFINE e == workers[w].event
             t == workers[w].tenant
  <1>0. /\ workers[w].pc \in InvoiceSteps /\ subscriptions' = subscriptions
        /\ UNCHANGED <<stripe, processed, prov, due>>
    BY DEF FindInvoice, SaveInvoice, InvoiceSteps, db, webhookEvents
  <1>1. /\ e \in EventIds /\ t # None /\ workers \in [Workers -> Worker]
        /\ invoices \in [EventIds -> Tenants \cup {None}]
    <2>1. workers[w].pc # "idle"
      BY <1>0 DEF InvoiceSteps
    <2>2. e \in EventIds
      BY <2>1, InFlightEvent
    <2> QED
      BY <1>0, <2>2 DEF BillingInv, TypeOK, HandlersOwn, Loaded
  <1>2. PICK p \in {"insertInvoice", "updateInvoice", "update", "mark", "recordError"} : Goto(w, p)
    BY DEF FindInvoice, SaveInvoice, InvoiceRecorded
  <1>3. /\ \A v \in Workers \ {w} : workers'[v] = workers[v]
        /\ workers'[w].event = e /\ workers'[w].pc = p
    BY <1>1, <1>2, GotoFacts
  <1>4. \A i \in EventIds : invoices[i] # None => invoices'[i] # None
    BY <1>1 DEF FindInvoice, SaveInvoice, db
  <1>5. p = "insertInvoice" \/ workers[w].pc = "updateInvoice" \/ invoices'[e] # None
    <2>1. CASE FindInvoice(w)
      <3>1. Goto(w, IF invoices[e] = None THEN "insertInvoice" ELSE "updateInvoice")
            /\ invoices' = invoices
        BY <2>1 DEF FindInvoice, db
      <3>2. CASE invoices[e] = None
        <4>1. Goto(w, "insertInvoice")
          BY <3>1, <3>2
        <4> QED
          BY <1>1, <1>3, <4>1, GotoFacts
      <3> QED
        BY <3>1, <3>2
    <2>2. CASE SaveInvoice(w)
      BY <1>1, <2>2 DEF SaveInvoice
    <2> QED
      BY <2>1, <2>2
  <1> QED
    BY <1>0, <1>3, <1>4, <1>5, HandlerWhole DEF PastInvoice

\* Publishing and the catch block leave the invoices alone.
LEMMA RestWhole ==
    ASSUME BillingInv, BillingInv', WholeInv, NEW w \in Workers,
           PublishStatus(w) \/ RecordError(w)
    PROVE  WholeInv'
  <1>1. /\ workers[w].pc \in PastInvoice /\ UNCHANGED <<subscriptions, invoices>>
        /\ UNCHANGED <<stripe, processed, prov, due>>
        /\ \E p \in {"mark", "respond"} : Goto(w, p)
    BY DEF PublishStatus, RecordError, PastInvoice, db, webhookEvents
  <1>2. /\ \A v \in Workers \ {w} : workers'[v] = workers[v]
        /\ workers'[w].event = workers[w].event
    BY <1>1, GotoFacts DEF BillingInv, TypeOK
  <1> QED
    BY <1>1, <1>2, HandlerWhole

\* The row of webhook_events is opened, settled or answered: what it says of an
\* invoice is so.
LEMMA SettleWhole ==
    ASSUME BillingInv, BillingInv', WholeInv, NEW w \in Workers,
           Upsert(w) \/ Mark(w) \/ Respond(w)
    PROVE  WholeInv'
  <1> DEFINE e == workers[w].event
  <1>1. UNCHANGED <<customers, stripeSub, events, subscriptions, invoices, prov, due>>
    BY DEF Upsert, Mark, Respond, stripe, db
  <1>2. OneCustomer' /\ Unprovisioned' /\ RowsThere' /\ Reported'
    BY <1>1, RowsFrame
  <1>3. workers \in [Workers -> Worker]
    BY DEF BillingInv, TypeOK
  <1>4. CASE Upsert(w)
    <2>1. /\ \A v \in Workers \ {w} : workers'[v] = workers[v]
          /\ workers'[w].pc \notin PastInvoice
      BY <1>3, <1>4, GotoFacts DEF Upsert, PastInvoice
    <2>2. acked' = acked /\ processed' \subseteq processed
      BY <1>4 DEF Upsert, stripe
    <2>3. Recorded'
      BY <1>1, <2>1, <2>2, RecordedFrame
    <2> QED
      BY <1>2, <2>3 DEF WholeInv
  <1>5. CASE Mark(w) \/ Respond(w)
    <2>1. workers[w].pc \in PastInvoice
      BY <1>5 DEF Mark, Respond, PastInvoice
    <2>2. Emitted(e) /\ (events[e].type = "invoice.paid" => invoices[e] # None)
      BY <2>1, InFlightEvent DEF WholeInv, Recorded, Paid, EventAt, PastInvoice
    <2>3. /\ \A v \in Workers \ {w} : workers'[v] = workers[v]
          /\ workers'[w].pc = "idle" \/ workers'[w].event = e
      BY <1>3, <1>5, GotoFacts, EndFacts DEF Mark, Respond
    <2>4. acked' \cup processed' \subseteq acked \cup processed \cup {e}
      BY <1>5 DEF Mark, Respond, stripe, db, webhookEvents
    <2>5. workers'[w].pc \in PastInvoice /\ Paid(w)' => invoices'[workers'[w].event] # None
      BY <1>1, <2>2, <2>3 DEF PastInvoice, Paid, EventAt
    <2>6. Recorded'
      BY <1>1, <2>2, <2>3, <2>4, <2>5, RecordedFrame
    <2> QED
      BY <1>2, <2>6 DEF WholeInv
  <1> QED
    BY <1>4, <1>5

\* Stripe's log grows by events of customers who have been to the checkout.
LEMMA EmitWhole ==
    ASSUME BillingInv, WholeInv, NEW log \in Seq(Event), Emit(log),
           UNCHANGED <<acked, processed, invoices, workers>>,
           \A c \in CustomerIds : stripeSub[c] # "none" => stripeSub'[c] # "none",
           \A i \in 1 .. Len(log) : log[i].type # "customer.created" =>
              stripeSub'[log[i].cust] # "none"
    PROVE  Reported' /\ Recorded'
  <1>1. /\ Len(events) \in Nat /\ Len(log) \in Nat /\ Len(events') = Len(events) + Len(log)
        /\ \A i \in 1 .. Len(events) : i \in 1 .. Len(events') /\ events'[i] = events[i]
        /\ \A i \in 1 .. Len(events') : i > Len(events) =>
              i - Len(events) \in 1 .. Len(log) /\ events'[i] = log[i - Len(events)]
    <2>1. /\ Len(events) \in Nat /\ Len(log) \in Nat /\ Len(events') = Len(events) + Len(log)
          /\ \A i \in 1 .. Len(events) : events'[i] = events[i]
          /\ \A i \in 1 .. Len(events') : i > Len(events) => events'[i] = log[i - Len(events)]
      BY EmitFacts DEF BillingInv
    <2> QED
      BY <2>1
  <1>2. \A i \in 1 .. Len(events) : events[i] \in Event
    BY DEF BillingInv, TypeOK
  <1>3. Reported'
    <2> SUFFICES ASSUME NEW i \in 1 .. Len(events'), events'[i].type # "customer.created"
                 PROVE  stripeSub'[events'[i].cust] # "none"
      BY DEF Reported
    <2>1. CASE i > Len(events)
      BY <1>1, <2>1
    <2>2. CASE i <= Len(events)
      <3>1. i \in 1 .. Len(events) /\ events'[i] = events[i]
        BY <1>1, <2>2
      <3>2. events[i].cust \in CustomerIds
        BY <1>2, <3>1 DEF Event
      <3> QED
        BY <3>1, <3>2 DEF WholeInv, Reported
    <2> QED
      BY <1>1, <2>1, <2>2
  <1>4. \A e \in acked \cup processed :
           Emitted(e)' /\ (events'[e].type = "invoice.paid" => invoices[e] # None)
    BY <1>1 DEF WholeInv, Recorded, Emitted
  <1>5. ASSUME NEW w \in Workers, workers[w].pc \in PastInvoice, Paid(w)'
        PROVE  invoices[workers[w].event] # None
    <2>1. workers[w].event \in 1 .. Len(events)
      BY <1>5, InFlightEvent DEF PastInvoice, Emitted
    <2>2. Paid(w)
      BY <1>1, <1>5, <2>1 DEF Paid, EventAt
    <2> QED
      BY <1>5, <2>2 DEF WholeInv, Recorded
  <1> QED
    BY <1>3, <1>4, <1>5 DEF Recorded

\* The checkout is opened for the customer of a row, and a subscription that changes
\* is one of a customer who has been there.
LEMMA StripeWhole ==
    ASSUME BillingInv, BillingInv', WholeInv, StripeStep
    PROVE  WholeInv'
  <1>1. ASSUME NEW t \in Tenants, CreateCheckout(t) PROVE WholeInv'
    <2> DEFINE c == subscriptions[t].cust
    <2>1. /\ UNCHANGED <<customers, events, acked, processed, subscriptions, invoices, workers,
                         prov, due>>
          /\ c # None /\ stripeSub' = [stripeSub EXCEPT ![c] = "checkout"]
      BY <1>1 DEF CreateCheckout, Elsewhere, db, webhookEvents
    <2>2. c \in CustomerIds /\ customers[c] = t /\ stripeSub \in [CustomerIds -> StripeStates]
      BY <2>1 DEF BillingInv, TypeOK, Subscription, BilledToOwner
    <2>3. OneCustomer' /\ Unprovisioned'
      BY <2>1 DEF WholeInv, OneCustomer, Unprovisioned
    <2>4. RowsThere'
      BY <2>1, <2>2 DEF WholeInv, RowsThere
    <2>5. Reported' /\ Recorded'
      <3>0. \A i \in 1 .. Len(events) : events[i] \in Event
        BY DEF BillingInv, TypeOK
      <3>1. \A i \in 1 .. Len(events) : events[i].cust \in CustomerIds
        BY <3>0 DEF Event
      <3>2. Reported'
        BY <2>1, <2>2, <3>1 DEF WholeInv, Reported
      <3>3. Recorded'
        BY <2>1 DEF WholeInv, Recorded, Paid, EventAt, Emitted
      <3> QED
        BY <3>2, <3>3
    <2> QED
      BY <2>3, <2>4, <2>5 DEF WholeInv
  <1>2. ASSUME NEW c \in CustomerIds,
               \/ CheckoutCompleted(c) \/ TrialEnds(c) \/ SubscriptionDeleted(c)
               \/ PaymentFailed(c) \/ PaymentSucceeded(c)
        PROVE  WholeInv'
    <2> DEFINE One(type, s) == <<EventOf(type, c, s)>>
               Two(type, s) == <<EventOf(type, c, s), EventOf("subscription.updated", c, s)>>
    <2>1. ASSUME NEW type \in EventTypes, NEW s \in SubscriptionStatus, NEW from,
                 "none" \notin from,
                 \/ StripeChange(c, from, s, One(type, s))
                 \/ StripeChange(c, from, s, Two(type, s))
          PROVE  WholeInv'
      <3>1. /\ One(type, s) \in Seq(Event)
            /\ \A i \in 1 .. Len(One(type, s)) : One(type, s)[i].cust = c
        BY DEF EventOf, Event
      <3>2. /\ Two(type, s) \in Seq(Event)
            /\ \A i \in 1 .. Len(Two(type, s)) : Two(type, s)[i].cust = c
        BY DEF EventOf, Event
      <3> HIDE DEF One, Two
      <3>3. PICK log \in Seq(Event) :
               Emit(log) /\ \A i \in 1 .. Len(log) : log[i].cust = c
        BY <2>1, <3>1, <3>2 DEF StripeChange
      <3>4. /\ UNCHANGED <<customers, acked, processed, subscriptions, invoices, workers, prov,
                           due>>
            /\ stripeSub[c] # "none" /\ stripeSub' = [stripeSub EXCEPT ![c] = s]
        BY <2>1 DEF StripeChange, Elsewhere, db, webhookEvents
      <3>5. /\ stripeSub'[c] # "none"
            /\ \A d \in CustomerIds : stripeSub'[d] # "none" <=> stripeSub[d] # "none"
        BY <3>4 DEF BillingInv, TypeOK
      <3>6. OneCustomer' /\ Unprovisioned' /\ RowsThere'
        BY <3>4, <3>5 DEF WholeInv, OneCustomer, Unprovisioned, RowsThere
      <3>7. Reported' /\ Recorded'
        BY <3>3, <3>4, <3>5, EmitWhole
      <3> QED
        BY <3>6, <3>7 DEF WholeInv
    <2>2. "none" \notin {"checkout"} /\ "none" \notin {"trialing"} /\ "none" \notin {"active"}
      OBVIOUS
    <2>3. CASE CheckoutCompleted(c)
      <3>1. PICK s \in {"active", "trialing"} :
              StripeChange(c, {"checkout"}, s, One("subscription.created", s))
        BY <2>3 DEF CheckoutCompleted
      <3> HIDE DEF One
      <3> QED
        BY <2>1, <2>2, <3>1
    <2>4. CASE TrialEnds(c)
      <3>1. StripeChange(c, {"trialing"}, "active", One("subscription.updated", "active"))
        BY <2>4 DEF TrialEnds
      <3> HIDE DEF One
      <3> QED
        BY <2>1, <2>2, <3>1
    <2>5. CASE SubscriptionDeleted(c)
      <3>1. StripeChange(c, {"active", "trialing", "past_due"}, "canceled",
                         One("subscription.deleted", "canceled"))
        BY <2>5 DEF SubscriptionDeleted
      <3> HIDE DEF One
      <3> QED
        BY <2>1, <3>1
    <2>6. CASE PaymentFailed(c)
      <3>1. StripeChange(c, {"active", "past_due"}, "past_due",
                         Two("invoice.payment_failed", "past_due"))
        BY <2>6 DEF PaymentFailed
      <3> HIDE DEF Two
      <3> QED
        BY <2>1, <3>1
    <2>7. CASE PaymentSucceeded(c)
      <3>1. \/ StripeChange(c, {"active"}, "active", One("invoice.paid", "active"))
            \/ StripeChange(c, {"past_due"}, "active", Two("invoice.paid", "active"))
        BY <2>7 DEF PaymentSucceeded
      <3> HIDE DEF One, Two
      <3> QED
        BY <2>1, <3>1
    <2> QED
      BY <1>2, <2>3, <2>4, <2>5, <2>6, <2>7
  <1> QED
    BY <1>1, <1>2 DEF StripeStep

\* The consumer creates one customer for a tenant, and ends with a row for it.
LEMMA ProvisionWhole ==
    ASSUME BillingInv, BillingInv', WholeInv, RowsVisible, NEW t \in Tenants, ProvisionStep(t)
    PROVE  WholeInv'
  <1>0. /\ prov \in [Tenants -> [pc : {"idle", "insert", "sync", "done"},
                                cust : CustomerIds \cup {None}]]
        /\ customers \in [CustomerIds -> Tenants \cup {None}]
        /\ subscriptions \in [Tenants -> Subscription]
    BY DEF BillingInv, TypeOK
  <1>1. UNCHANGED <<acked, processed, invoices, workers>>
    BY DEF ProvisionStep, CreateCustomer, CreateSubscription, PublishSynced, ProvisionOnly,
           webhookEvents
  <1>2. ASSUME NEW c \in CustomerIds, CreateCustomer(t, c) PROVE WholeInv'
    <2> DEFINE ev == EventOf("customer.created", c, "trialing")
    <2>1. /\ <<ev>> \in Seq(Event)
          /\ \A i \in 1 .. Len(<<ev>>) : <<ev>>[i].type = "customer.created"
      BY DEF EventOf, Event
    <2>2. /\ Emit(<<ev>>) /\ t \in due /\ customers[c] = None
          /\ customers' = [customers EXCEPT ![c] = t] /\ due' = due \ {t}
          /\ prov' = [prov EXCEPT ![t] = [pc |-> "insert", cust |-> c]]
          /\ UNCHANGED <<stripeSub, subscriptions>>
      BY <1>2 DEF CreateCustomer
    <2> HIDE DEF ev
    <2>3. Reported' /\ Recorded'
      BY <1>1, <2>1, <2>2, EmitWhole
    <2>4. OneCustomer' /\ Unprovisioned'
      BY <1>0, <2>2 DEF WholeInv, OneCustomer, Unprovisioned
    <2>5. RowsThere'
      <3>1. stripeSub[c] = "none"
        BY <2>2 DEF BillingInv, Ownership
      <3>2. \A u \in Tenants : prov'[u].pc \in {"sync", "done"} => prov[u].pc \in {"sync", "done"}
        BY <1>0, <2>2
      <3> QED
        BY <1>0, <2>2, <3>1, <3>2 DEF WholeInv, RowsThere
    <2> QED
      BY <2>3, <2>4, <2>5 DEF WholeInv
  <1>3. ASSUME UNCHANGED <<customers, stripeSub, events, due>>,
               \A u \in Tenants : subscriptions[u].cust # None => subscriptions'[u].cust # None,
               \A u \in Tenants : prov'[u].pc \in {"sync", "done"} =>
                  prov[u].pc \in {"sync", "done"} \/ subscriptions'[u].cust # None
        PROVE  WholeInv'
    <2>1. OneCustomer' /\ Unprovisioned' /\ RowsThere' /\ Reported'
      BY <1>3, RowsFrame
    <2>2. Recorded'
      BY <1>1, <1>3 DEF WholeInv, Recorded, Paid, EventAt, Emitted
    <2> QED
      BY <2>1, <2>2 DEF WholeInv
  <1>4. CASE CreateSubscription(t)
    <2>1. prov[t].pc = "insert" /\ prov[t].cust # None
      BY <1>4 DEF CreateSubscription, BillingInv, Ownership
    <2>2. /\ UNCHANGED <<customers, stripeSub, events, due>>
          /\ \/ /\ subscriptions[t].cust # None /\ subscriptions' = subscriptions
                /\ prov' = [prov EXCEPT ![t].pc = "done"]
             \/ /\ subscriptions[t].cust = None
                /\ \E s \in {"active", "trialing"} :
                      subscriptions' = [subscriptions EXCEPT ![t] =
                          [cust |-> prov[t].cust, sub |-> None, status |-> s]]
                /\ prov' = [prov EXCEPT ![t].pc = "sync"]
      BY <1>4 DEF CreateSubscription
    <2>3. /\ \A u \in Tenants : subscriptions[u].cust # None => subscriptions'[u].cust # None
          /\ subscriptions'[t].cust # None
      BY <1>0, <2>1, <2>2
    <2>4. \A u \in Tenants : u # t => prov'[u] = prov[u]
      BY <1>0, <2>2
    <2> QED
      BY <1>3, <2>2, <2>3, <2>4
  <1>5. CASE PublishSynced(t)
    <2>1. /\ UNCHANGED <<customers, stripeSub, events, due, subscriptions>>
          /\ prov[t].pc = "sync" /\ prov' = [prov EXCEPT ![t].pc = "done"]
      BY <1>5 DEF PublishSynced
    <2>2. \A u \in Tenants : prov'[u].pc \in {"sync", "done"} => prov[u].pc \in {"sync", "done"}
      BY <1>0, <2>1
    <2> QED
      BY <1>3, <2>1, <2>2
  <1> QED
    BY <1>2, <1>4, <1>5 DEF ProvisionStep

\* The parts hold as long as there was no fault, in whatever order events are
\* delivered and however often and with whatever overlap.
THEOREM WholeInvariant == ASSUME RowsVisible PROVE Spec => [](faults = 0 => WholeInv)
  <1>1. Init => (faults = 0 => WholeInv)
    BY InitWhole
  <1>2. BillingInv /\ BillingInv' /\ (faults = 0 => WholeInv) /\ [Next]_vars
           => (faults = 0 => WholeInv)'
    <2> SUFFICES ASSUME BillingInv, BillingInv', faults = 0 => WholeInv, [Next]_vars,
                        faults' = 0
                 PROVE  WholeInv'
      OBVIOUS
    <2>1. /\ ~Crash /\ (\A w \in Workers : ~CallFails(w))
          /\ (\A t \in Tenants : ~ProvisionFails(t))
      <3>1. faults \in Nat
        BY DEF BillingInv, TypeOK
      <3> QED
        BY <3>1 DEF Crash, CallFails, ProvisionFails
    <2>2. CASE StripeStep
      <3>1. faults' = faults
        BY <2>2 DEF StripeStep, CreateCheckout, CheckoutCompleted, TrialEnds,
              SubscriptionDeleted, PaymentFailed, PaymentSucceeded, StripeChange, Elsewhere
      <3> QED
        BY <2>2, <3>1, StripeWhole
    <2>3. ASSUME NEW w \in Workers, NEW e \in EventIds, Deliver(w, e) PROVE WholeInv'
      <3>1. faults' = faults
        BY <2>3 DEF Deliver
      <3> QED
        BY <2>3, <3>1, DeliverWhole
    <2>4. ASSUME NEW w \in Workers, HandlerStep(w) PROVE WholeInv'
      <3>1. faults' = faults
        BY <2>4 DEF HandlerStep, Upsert, Route, Save, UpdateStatus, FindInvoice, SaveInvoice,
              PublishStatus, Mark, RecordError, Respond
      <3> QED
        BY <2>4, <3>1, SettleWhole, RouteWhole, SaveWhole, InvoiceWhole, RestWhole
           DEF HandlerStep
    <2>5. ASSUME NEW t \in Tenants, ProvisionStep(t) PROVE WholeInv'
      <3>1. faults' = faults
        BY <2>5 DEF ProvisionStep, CreateCustomer, CreateSubscription, PublishSynced
      <3> QED
        BY <2>5, <3>1, ProvisionWhole
    <2>6. CASE UNCHANGED vars
      BY <2>6 DEF vars, stripe, db, webhookEvents, WholeInv, OneCustomer, Unprovisioned,
            RowsThere, Reported, Recorded, Paid, EventAt, Emitted
    <2> QED
      BY <2>1, <2>2, <2>3, <2>4, <2>5, <2>6 DEF Next
  <1> QED
    BY <1>1, <1>2, BillingInvariant, PTL DEF Spec

\* For a database role that sees the rows, and as long as nothing failed: once all is
\* answered every paid invoice is recorded for its tenant, and a tenant whose
\* provisioning ended has a row, in any order of delivery and with any overlap.
THEOREM NoGaps == ASSUME RowsVisible PROVE Spec => []TablesComplete
  <1>1. BillingInv /\ (faults = 0 => WholeInv) => TablesComplete
    <2> SUFFICES ASSUME BillingInv, faults = 0, WholeInv
                 PROVE  /\ \A t \in Tenants : prov[t].pc = "done" => subscriptions[t].cust # None
                        /\ acked = 1 .. Len(events) => \A e \in 1 .. Len(events) :
                              events[e].type = "invoice.paid" =>
                                 invoices[e] = customers[events[e].cust]
      BY DEF TablesComplete, RevenueComplete, ProvisionedHasRow, Quiescent
    <2>1. \A e \in acked : events[e].type = "invoice.paid" => invoices[e] # None
      BY DEF WholeInv, Recorded
    <2>2. acked \subseteq EventIds
      BY DEF BillingInv, TypeOK
    <2>3. \A t \in Tenants : prov[t].pc = "done" => subscriptions[t].cust # None
      BY DEF WholeInv, RowsThere
    <2> QED
      BY <2>1, <2>2, <2>3 DEF BillingInv, BilledToOwner
  <1> QED
    BY <1>1, BillingInvariant, WholeInvariant, PTL

-----------------------------------------------------------------------------
(* The table mirrors Stripe while events are delivered in order and        *)
(* nothing fails.                                                          *)

\* Event e of the log E is about the subscription of customer c.
SubEvent(E, e, c) == e \in 1 .. Len(E) /\ E[e].cust = c /\ E[e].type # "customer.created"

\* It is the last one of c among the first n events.
Last(E, d, n, c) == SubEvent(E, d, c) /\ d <= n /\ \A k \in d + 1 .. n : ~SubEvent(E, k, c)

\* Stripe's log tells the state of every subscription: the last event of a customer
\* carries it.  All but the first event of a subscription follow another one, and an
\* invoice is paid when the subscription is active or past due.
LogTells(E, S) ==
    /\ \A c \in CustomerIds :
          \/ S[c] \in {"none", "checkout"} /\ \A e \in 1 .. Len(E) : ~SubEvent(E, e, c)
          \/ \E d \in 1 .. Len(E) : Last(E, d, Len(E), c) /\ E[d].status = S[c]
    /\ \A e \in 1 .. Len(E) :
          E[e].type \notin {"customer.created", "subscription.created"} =>
             \E d \in 1 .. e - 1 :
                /\ Last(E, d, e - 1, E[e].cust)
                /\ E[e].type = "invoice.paid" => E[d].status \in {"active", "past_due"}
    /\ \A e \in 1 .. Len(E) :
          /\ E[e].type = "invoice.paid" => E[e].status = "active"
          /\ E[e].type = "invoice.payment_failed" => E[e].status = "past_due"

LogInv == LogTells(events, stripeSub)

\* A log with one more event.
LEMMA AppendFacts ==
    ASSUME NEW E \in Seq(Event), NEW x \in Event
    PROVE  /\ Append(E, x) \in Seq(Event) /\ Len(E) \in Nat /\ Len(Append(E, x)) = Len(E) + 1
           /\ Append(E, x)[Len(E) + 1] = x
           /\ \A i \in 1 .. Len(E) : Append(E, x)[i] = E[i] /\ E[i] \in Event
           /\ \A n \in 0 .. Len(E), d \in 1 .. Len(E), c \in CustomerIds :
                 Last(Append(E, x), d, n, c) <=> Last(E, d, n, c)
           /\ \A k \in 1 .. Len(E), c \in CustomerIds :
                 SubEvent(Append(E, x), k, c) <=> SubEvent(E, k, c)
           /\ \A c \in CustomerIds : SubEvent(Append(E, x), Len(E) + 1, c) <=>
                 x.cust = c /\ x.type # "customer.created"
  <1> DEFINE F == Append(E, x)
  <1>1. /\ F \in Seq(Event) /\ Len(E) \in Nat /\ Len(F) = Len(E) + 1 /\ F[Len(E) + 1] = x
        /\ \A i \in 1 .. Len(E) : F[i] = E[i] /\ E[i] \in Event
    OBVIOUS
  <1> HIDE DEF F
  <1>2. \A k \in 1 .. Len(E), c \in CustomerIds : SubEvent(F, k, c) <=> SubEvent(E, k, c)
    BY <1>1 DEF SubEvent
  <1>3. \A n \in 0 .. Len(E), d \in 1 .. Len(E), c \in CustomerIds :
           Last(F, d, n, c) <=> Last(E, d, n, c)
    BY <1>1, <1>2 DEF Last
  <1>4. \A c \in CustomerIds : SubEvent(F, Len(E) + 1, c) <=>
           x.cust = c /\ x.type # "customer.created"
    BY <1>1 DEF SubEvent
  <1> QED
    BY <1>1, <1>2, <1>3, <1>4 DEF F

\* The events a log had keep what it tells of them.
LEMMA LogKeeps ==
    ASSUME NEW E \in Seq(Event), NEW S, LogTells(E, S), NEW x \in Event,
           NEW e \in 1 .. Len(E)
    PROVE  LET F == Append(E, x)
           IN /\ F[e].type \notin {"customer.created", "subscription.created"} =>
                    \E d \in 1 .. e - 1 :
                       /\ Last(F, d, e - 1, F[e].cust)
                       /\ F[e].type = "invoice.paid" => F[d].status \in {"active", "past_due"}
              /\ F[e].type = "invoice.paid" => F[e].status = "active"
              /\ F[e].type = "invoice.payment_failed" => F[e].status = "past_due"
  <1> DEFINE F == Append(E, x)
  <1>1. /\ Len(E) \in Nat /\ \A i \in 1 .. Len(E) : F[i] = E[i] /\ E[i] \in Event
        /\ \A n \in 0 .. Len(E), d \in 1 .. Len(E), c \in CustomerIds :
              Last(F, d, n, c) <=> Last(E, d, n, c)
    BY AppendFacts
  <1> HIDE DEF F
  <1>2. E[e].cust \in CustomerIds /\ F[e] = E[e] /\ e - 1 \in 0 .. Len(E)
    BY <1>1 DEF Event
  <1>3. /\ E[e].type = "invoice.paid" => E[e].status = "active"
        /\ E[e].type = "invoice.payment_failed" => E[e].status = "past_due"
    BY DEF LogTells
  <1>4. ASSUME E[e].type \notin {"customer.created", "subscription.created"}
        PROVE  \E d \in 1 .. e - 1 :
                  /\ Last(F, d, e - 1, E[e].cust)
                  /\ E[e].type = "invoice.paid" => F[d].status \in {"active", "past_due"}
    <2>1. PICK d \in 1 .. e - 1 :
             /\ Last(E, d, e - 1, E[e].cust)
             /\ E[e].type = "invoice.paid" => E[d].status \in {"active", "past_due"}
      BY <1>4 DEF LogTells
    <2>2. d \in 1 .. Len(E)
      BY <1>1
    <2>3. Last(F, d, e - 1, E[e].cust) /\ F[d] = E[d]
      BY <1>1, <1>2, <2>1, <2>2
    <2> QED
      BY <2>1, <2>3
  <1> QED
    BY <1>2, <1>3, <1>4 DEF F

\* A change of a subscription and the event that reports it.
LEMMA LogGrows ==
    ASSUME NEW E \in Seq(Event), NEW S \in [CustomerIds -> StripeStates], LogTells(E, S),
           NEW x \in Event, x.type # "customer.created",
           x.type # "subscription.created" => S[x.cust] \in SubscriptionStatus,
           x.type = "invoice.paid" => S[x.cust] \in {"active", "past_due"} /\ x.status = "active",
           x.type = "invoice.payment_failed" => x.status = "past_due"
    PROVE  LogTells(Append(E, x), [S EXCEPT ![x.cust] = x.status])
  <1> DEFINE F == Append(E, x)
             T == [S EXCEPT ![x.cust] = x.status]
             n == Len(E)
  <1>1. /\ n \in Nat /\ Len(F) = n + 1 /\ F[n + 1] = x
        /\ \A i \in 1 .. n : F[i] = E[i] /\ E[i] \in Event
        /\ \A m \in 0 .. n, d \in 1 .. n, c \in CustomerIds : Last(F, d, m, c) <=> Last(E, d, m, c)
        /\ \A k \in 1 .. n, c \in CustomerIds : SubEvent(F, k, c) <=> SubEvent(E, k, c)
        /\ \A c \in CustomerIds : SubEvent(F, n + 1, c) <=>
              x.cust = c /\ x.type # "customer.created"
    BY AppendFacts
  <1>2. x.cust \in CustomerIds
    BY DEF Event
  <1>3. T[x.cust] = x.status /\ \A c \in CustomerIds : c # x.cust => T[c] = S[c]
    BY <1>2
  <1>4. \A e \in 1 .. n :
           /\ F[e].type \notin {"customer.created", "subscription.created"} =>
                 \E d \in 1 .. e - 1 :
                    /\ Last(F, d, e - 1, F[e].cust)
                    /\ F[e].type = "invoice.paid" => F[d].status \in {"active", "past_due"}
           /\ F[e].type = "invoice.paid" => F[e].status = "active"
           /\ F[e].type = "invoice.payment_failed" => F[e].status = "past_due"
    BY LogKeeps
  <1> HIDE DEF F, T
  <1>5. ASSUME NEW c \in CustomerIds
        PROVE  \/ T[c] \in {"none", "checkout"} /\ \A e \in 1 .. n + 1 : ~SubEvent(F, e, c)
               \/ \E d \in 1 .. n + 1 : Last(F, d, n + 1, c) /\ F[d].status = T[c]
    <2>1. CASE c = x.cust
      <3>1. Last(F, n + 1, n + 1, c)
        BY <1>1, <2>1 DEF Last
      <3> QED
        BY <1>1, <1>3, <2>1, <3>1
    <2>2. CASE c # x.cust
      <3>1. ~SubEvent(F, n + 1, c) /\ T[c] = S[c]
        BY <1>1, <1>3, <2>2
      <3>2. CASE S[c] \in {"none", "checkout"} /\ \A e \in 1 .. n : ~SubEvent(E, e, c)
        BY <1>1, <3>1, <3>2
      <3>3. ASSUME NEW d \in 1 .. n, Last(E, d, n, c), E[d].status = S[c]
            PROVE  Last(F, d, n + 1, c) /\ F[d].status = T[c]
        <4>1. Last(F, d, n, c) /\ F[d] = E[d]
          BY <1>1, <3>3
        <4>2. \A k \in d + 1 .. n + 1 : k \in d + 1 .. n \/ k = n + 1
          BY <1>1
        <4> QED
          BY <1>1, <3>1, <3>3, <4>1, <4>2 DEF Last
      <3>4. \/ S[c] \in {"none", "checkout"} /\ \A e \in 1 .. n : ~SubEvent(E, e, c)
            \/ \E d \in 1 .. n : Last(E, d, n, c) /\ E[d].status = S[c]
        BY DEF LogTells
      <3>5. \A d \in 1 .. n : d \in 1 .. n + 1
        BY <1>1
      <3> QED
        BY <3>2, <3>3, <3>4, <3>5
    <2> QED
      BY <2>1, <2>2
  <1>6. x.type # "subscription.created" =>
           \E d \in 1 .. n : /\ Last(F, d, n, x.cust)
                             /\ x.type = "invoice.paid" => F[d].status \in {"active", "past_due"}
    <2> SUFFICES ASSUME x.type # "subscription.created"
                 PROVE  \E d \in 1 .. n : Last(F, d, n, x.cust)
                           /\ (x.type = "invoice.paid" => F[d].status \in {"active", "past_due"})
      OBVIOUS
    <2>1. PICK d \in 1 .. n : Last(E, d, n, x.cust) /\ E[d].status = S[x.cust]
      BY <1>2 DEF LogTells
    <2> QED
      BY <1>1, <1>2, <2>1
  <1>7. \A e \in 1 .. n + 1 :
           /\ F[e].type \notin {"customer.created", "subscription.created"} =>
                 \E d \in 1 .. e - 1 :
                    /\ Last(F, d, e - 1, F[e].cust)
                    /\ F[e].type = "invoice.paid" => F[d].status \in {"active", "past_due"}
           /\ F[e].type = "invoice.paid" => F[e].status = "active"
           /\ F[e].type = "invoice.payment_failed" => F[e].status = "past_due"
    <2>1. ASSUME NEW e \in 1 .. n + 1, e = n + 1
          PROVE  /\ F[e].type \notin {"customer.created", "subscription.created"} =>
                       \E d \in 1 .. e - 1 :
                          /\ Last(F, d, e - 1, F[e].cust)
                          /\ F[e].type = "invoice.paid" => F[d].status \in {"active", "past_due"}
                 /\ F[e].type = "invoice.paid" => F[e].status = "active"
                 /\ F[e].type = "invoice.payment_failed" => F[e].status = "past_due"
      <3>1. e - 1 = n /\ F[e] = x
        BY <1>1, <2>1
      <3> QED
        BY <1>6, <3>1
    <2>2. \A e \in 1 .. n + 1 : e \in 1 .. n \/ e = n + 1
      BY <1>1
    <2> QED
      BY <1>4, <2>1, <2>2
  <1> QED
    BY <1>1, <1>5, <1>7 DEF LogTells, F, T

\* A customer that Stripe reports has no subscription yet, and no state changes.
LEMMA LogSkips ==
    ASSUME NEW E \in Seq(Event), NEW S, LogTells(E, S), NEW x \in Event,
           x.type = "customer.created"
    PROVE  LogTells(Append(E, x), S)
  <1> DEFINE F == Append(E, x)
             n == Len(E)
  <1>1. /\ n \in Nat /\ Len(F) = n + 1 /\ F[n + 1] = x
        /\ \A i \in 1 .. n : F[i] = E[i] /\ E[i] \in Event
        /\ \A m \in 0 .. n, d \in 1 .. n, c \in CustomerIds : Last(F, d, m, c) <=> Last(E, d, m, c)
        /\ \A k \in 1 .. n, c \in CustomerIds : SubEvent(F, k, c) <=> SubEvent(E, k, c)
        /\ \A c \in CustomerIds : ~SubEvent(F, n + 1, c)
    BY AppendFacts
  <1>2. \A e \in 1 .. n :
           /\ F[e].type \notin {"customer.created", "subscription.created"} =>
                 \E d \in 1 .. e - 1 :
                    /\ Last(F, d, e - 1, F[e].cust)
                    /\ F[e].type = "invoice.paid" => F[d].status \in {"active", "past_due"}
           /\ F[e].type = "invoice.paid" => F[e].status = "active"
           /\ F[e].type = "invoice.payment_failed" => F[e].status = "past_due"
    BY LogKeeps
  <1> HIDE DEF F
  <1>3. ASSUME NEW c \in CustomerIds
        PROVE  \/ S[c] \in {"none", "checkout"} /\ \A e \in 1 .. n + 1 : ~SubEvent(F, e, c)
               \/ \E d \in 1 .. n + 1 : Last(F, d, n + 1, c) /\ F[d].status = S[c]
    <2>1. CASE S[c] \in {"none", "checkout"} /\ \A e \in 1 .. n : ~SubEvent(E, e, c)
      BY <1>1, <2>1
    <2>2. ASSUME NEW d \in 1 .. n, Last(E, d, n, c), E[d].status = S[c]
          PROVE  Last(F, d, n + 1, c) /\ F[d].status = S[c]
      <3>1. Last(F, d, n, c) /\ F[d] = E[d]
        BY <1>1, <2>2
      <3>2. \A k \in d + 1 .. n + 1 : k \in d + 1 .. n \/ k = n + 1
        BY <1>1
      <3> QED
        BY <1>1, <2>2, <3>1, <3>2 DEF Last
    <2>3. \/ S[c] \in {"none", "checkout"} /\ \A e \in 1 .. n : ~SubEvent(E, e, c)
          \/ \E d \in 1 .. n : Last(E, d, n, c) /\ E[d].status = S[c]
      BY DEF LogTells
    <2>4. \A d \in 1 .. n : d \in 1 .. n + 1
      BY <1>1
    <2> QED
      BY <2>1, <2>2, <2>3, <2>4
  <1>4. \A e \in 1 .. n + 1 : e \in 1 .. n \/ F[e].type = "customer.created"
    BY <1>1
  <1> QED
    BY <1>1, <1>2, <1>3, <1>4 DEF LogTells, F

\* What a change of a subscription at Stripe is: the new state, and one or two events
\* that carry it.
LEMMA StripeChanges ==
    ASSUME BillingInv, NEW c \in CustomerIds,
           \/ CheckoutCompleted(c) \/ TrialEnds(c) \/ SubscriptionDeleted(c)
           \/ PaymentFailed(c) \/ PaymentSucceeded(c)
    PROVE  \E type \in EventTypes, s \in SubscriptionStatus :
              /\ stripeSub' = [stripeSub EXCEPT ![c] = s] /\ Elsewhere
              /\ \/ events' = Append(events, EventOf(type, c, s))
                 \/ events' = Append(Append(events, EventOf(type, c, s)),
                                     EventOf("subscription.updated", c, s))
              /\ type # "customer.created"
              /\ type # "subscription.created" => stripeSub[c] \in SubscriptionStatus
              /\ type = "invoice.paid" => stripeSub[c] \in {"active", "past_due"} /\ s = "active"
              /\ type = "invoice.payment_failed" => s = "past_due"
  <1>0. events \in Seq(Event)
    BY DEF BillingInv, TypeOK
  <1>1. \A x, y \in Event : /\ events \o <<x>> = Append(events, x)
                            /\ events \o <<x, y>> = Append(Append(events, x), y)
    BY <1>0
  <1>2. \A type \in EventTypes, s \in SubscriptionStatus : EventOf(type, c, s) \in Event
    BY DEF EventOf, Event
  <1>3. ASSUME NEW type \in EventTypes, NEW s \in SubscriptionStatus, NEW from,
               \/ StripeChange(c, from, s, <<EventOf(type, c, s)>>)
               \/ StripeChange(c, from, s, <<EventOf(type, c, s),
                                             EventOf("subscription.updated", c, s)>>)
        PROVE  /\ stripeSub' = [stripeSub EXCEPT ![c] = s] /\ Elsewhere /\ stripeSub[c] \in from
               /\ \/ events' = Append(events, EventOf(type, c, s))
                  \/ events' = Append(Append(events, EventOf(type, c, s)),
                                      EventOf("subscription.updated", c, s))
    BY <1>1, <1>2, <1>3 DEF StripeChange, Emit
  <1>4. CASE CheckoutCompleted(c)
    <2>1. PICK s \in {"active", "trialing"} :
             StripeChange(c, {"checkout"}, s, <<EventOf("subscription.created", c, s)>>)
      BY <1>4 DEF CheckoutCompleted
    <2>2. "subscription.created" \in EventTypes /\ s \in SubscriptionStatus
      OBVIOUS
    <2>3. /\ stripeSub' = [stripeSub EXCEPT ![c] = s] /\ Elsewhere
          /\ \/ events' = Append(events, EventOf("subscription.created", c, s))
             \/ events' = Append(Append(events, EventOf("subscription.created", c, s)),
                                 EventOf("subscription.updated", c, s))
      BY <1>3, <2>1, <2>2
    <2> HIDE DEF EventTypes, SubscriptionStatus
    <2> QED
      BY <2>2, <2>3
  <1>5. CASE TrialEnds(c)
    <2>1. StripeChange(c, {"trialing"}, "active",
                       <<EventOf("subscription.updated", c, "active")>>)
      BY <1>5 DEF TrialEnds
    <2>2. "subscription.updated" \in EventTypes /\ {"trialing", "active"} \subseteq SubscriptionStatus
      OBVIOUS
    <2>3. /\ stripeSub' = [stripeSub EXCEPT ![c] = "active"] /\ Elsewhere
          /\ stripeSub[c] \in {"trialing"}
          /\ \/ events' = Append(events, EventOf("subscription.updated", c, "active"))
             \/ events' = Append(Append(events, EventOf("subscription.updated", c, "active")),
                                 EventOf("subscription.updated", c, "active"))
      BY <1>3, <2>1, <2>2
    <2> HIDE DEF EventTypes, SubscriptionStatus
    <2> QED
      BY <2>2, <2>3
  <1>6. CASE SubscriptionDeleted(c)
    <2>1. StripeChange(c, {"active", "trialing", "past_due"}, "canceled",
                       <<EventOf("subscription.deleted", c, "canceled")>>)
      BY <1>6 DEF SubscriptionDeleted
    <2>2. "subscription.deleted" \in EventTypes
          /\ {"active", "trialing", "past_due", "canceled"} \subseteq SubscriptionStatus
      OBVIOUS
    <2>3. /\ stripeSub' = [stripeSub EXCEPT ![c] = "canceled"] /\ Elsewhere
          /\ stripeSub[c] \in {"active", "trialing", "past_due"}
          /\ \/ events' = Append(events, EventOf("subscription.deleted", c, "canceled"))
             \/ events' = Append(Append(events, EventOf("subscription.deleted", c, "canceled")),
                                 EventOf("subscription.updated", c, "canceled"))
      BY <1>3, <2>1, <2>2
    <2> HIDE DEF EventTypes, SubscriptionStatus
    <2> QED
      BY <2>2, <2>3
  <1>7. CASE PaymentFailed(c)
    <2>1. StripeChange(c, {"active", "past_due"}, "past_due",
                       <<EventOf("invoice.payment_failed", c, "past_due"),
                         EventOf("subscription.updated", c, "past_due")>>)
      BY <1>7 DEF PaymentFailed
    <2>2. "invoice.payment_failed" \in EventTypes
          /\ {"active", "past_due"} \subseteq SubscriptionStatus
      OBVIOUS
    <2>3. /\ stripeSub' = [stripeSub EXCEPT ![c] = "past_due"] /\ Elsewhere
          /\ stripeSub[c] \in {"active", "past_due"}
          /\ \/ events' = Append(events, EventOf("invoice.payment_failed", c, "past_due"))
             \/ events' = Append(Append(events, EventOf("invoice.payment_failed", c, "past_due")),
                                 EventOf("subscription.updated", c, "past_due"))
      BY <1>3, <2>1, <2>2
    <2> HIDE DEF EventTypes, SubscriptionStatus
    <2> QED
      BY <2>2, <2>3
  <1>8. CASE PaymentSucceeded(c)
    <2>1. \/ StripeChange(c, {"active"}, "active", <<EventOf("invoice.paid", c, "active")>>)
          \/ StripeChange(c, {"past_due"}, "active",
                          <<EventOf("invoice.paid", c, "active"),
                            EventOf("subscription.updated", c, "active")>>)
      BY <1>8 DEF PaymentSucceeded
    <2>2. "invoice.paid" \in EventTypes /\ {"active", "past_due"} \subseteq SubscriptionStatus
      OBVIOUS
    <2>3. /\ stripeSub' = [stripeSub EXCEPT ![c] = "active"] /\ Elsewhere
          /\ stripeSub[c] \in {"active", "past_due"}
          /\ \/ events' = Append(events, EventOf("invoice.paid", c, "active"))
             \/ events' = Append(Append(events, EventOf("invoice.paid", c, "active")),
                                 EventOf("subscription.updated", c, "active"))
      BY <1>3, <2>1, <2>2
    <2> HIDE DEF EventTypes, SubscriptionStatus
    <2> QED
      BY <2>2, <2>3
  <1> QED
    BY <1>4, <1>5, <1>6, <1>7, <1>8

\* Stripe and the consumer that creates customers are all that writes the log.
LEMMA OutsideLog ==
    ASSUME [Next]_vars, ~StripeStep,
           ~\E t \in Tenants, c \in CustomerIds : CreateCustomer(t, c)
    PROVE  UNCHANGED <<events, stripeSub>>
  <1>1. CASE UNCHANGED vars
    BY <1>1 DEF vars, stripe
  <1>2. ASSUME NEW w \in Workers, NEW e \in EventIds, Deliver(w, e)
        PROVE  UNCHANGED <<events, stripeSub>>
    BY <1>2 DEF Deliver
  <1>3. ASSUME NEW w \in Workers, HandlerStep(w) \/ CallFails(w)
        PROVE  UNCHANGED <<events, stripeSub>>
    BY <1>3 DEF HandlerStep, CallFails, Upsert, Route, Save, UpdateStatus, FindInvoice,
          SaveInvoice, PublishStatus, Mark, RecordError, Respond, stripe
  <1>4. ASSUME NEW t \in Tenants, ProvisionStep(t) \/ ProvisionFails(t)
        PROVE  UNCHANGED <<events, stripeSub>>
    BY <1>4 DEF ProvisionStep, CreateSubscription, PublishSynced, ProvisionFails
  <1>5. CASE Crash
    BY <1>5 DEF Crash
  <1> QED
    BY <1>1, <1>2, <1>3, <1>4, <1>5 DEF Next

\* Every step keeps the log telling.
LEMMA LogStep ==
    ASSUME BillingInv, LogInv, [Next]_vars
    PROVE  LogInv'
  <1>0. events \in Seq(Event) /\ stripeSub \in [CustomerIds -> StripeStates]
    BY DEF BillingInv, TypeOK
  <1>1. ASSUME NEW t \in Tenants, CreateCheckout(t) PROVE LogInv'
    <2> DEFINE c == subscriptions[t].cust
    <2>1. events' = events /\ c # None /\ stripeSub[c] = "none"
          /\ stripeSub' = [stripeSub EXCEPT ![c] = "checkout"]
      BY <1>1 DEF CreateCheckout
    <2>2. c \in CustomerIds
      BY <2>1 DEF BillingInv, TypeOK, Subscription
    <2>3. stripeSub'[c] = "checkout" /\ \A d \in CustomerIds : d # c => stripeSub'[d] = stripeSub[d]
      BY <1>0, <2>1, <2>2
    <2>4. \A e \in 1 .. Len(events) : events[e].status # "none"
      <3>1. \A e \in 1 .. Len(events) : events[e] \in Event
        BY <1>0
      <3> QED
        BY <3>1 DEF Event
    <2>5. \A e \in 1 .. Len(events) : ~SubEvent(events, e, c)
      BY <2>1, <2>2, <2>4 DEF LogInv, LogTells
    <2> QED
      BY <2>1, <2>3, <2>5 DEF LogInv, LogTells
  <1>2. ASSUME NEW c \in CustomerIds,
               \/ CheckoutCompleted(c) \/ TrialEnds(c) \/ SubscriptionDeleted(c)
               \/ PaymentFailed(c) \/ PaymentSucceeded(c)
        PROVE  LogInv'
    <2>1. PICK type \in EventTypes, s \in SubscriptionStatus :
              /\ stripeSub' = [stripeSub EXCEPT ![c] = s]
              /\ \/ events' = Append(events, EventOf(type, c, s))
                 \/ events' = Append(Append(events, EventOf(type, c, s)),
                                     EventOf("subscription.updated", c, s))
              /\ type # "customer.created"
              /\ type # "subscription.created" => stripeSub[c] \in SubscriptionStatus
              /\ type = "invoice.paid" => stripeSub[c] \in {"active", "past_due"} /\ s = "active"
              /\ type = "invoice.payment_failed" => s = "past_due"
      BY <1>2, StripeChanges
    <2> DEFINE x == EventOf(type, c, s)
               y == EventOf("subscription.updated", c, s)
    <2>2. /\ x \in Event /\ x.type = type /\ x.cust = c /\ x.status = s
          /\ y \in Event /\ y.type = "subscription.updated" /\ y.cust = c /\ y.status = s
      BY DEF EventOf, Event
    <2> HIDE DEF x, y
    <2>3. LogTells(Append(events, x), stripeSub')
      BY <1>0, <2>1, <2>2, LogGrows DEF LogInv
    <2>4. /\ Append(events, x) \in Seq(Event) /\ stripeSub' \in [CustomerIds -> StripeStates]
          /\ stripeSub'[c] = s /\ [stripeSub' EXCEPT ![c] = s] = stripeSub'
      <3>1. Append(events, x) \in Seq(Event)
        BY <1>0, <2>2, AppendFacts
      <3>2. stripeSub' \in [CustomerIds -> StripeStates] /\ stripeSub'[c] = s
        BY <1>0, <2>1
      <3>3. [stripeSub' EXCEPT ![c] = s] = stripeSub'
        BY <1>0, <2>1
      <3> QED
        BY <3>1, <3>2, <3>3
    <2>5. LogTells(Append(Append(events, x), y), stripeSub')
      <3>1. PICK E, S : E = Append(events, x) /\ S = stripeSub'
        OBVIOUS
      <3>2. LogTells(Append(E, y), [S EXCEPT ![y.cust] = y.status])
        BY <2>2, <2>3, <2>4, <3>1, LogGrows
      <3> QED
        BY <2>2, <2>4, <3>1, <3>2
    <2>6. events' = Append(events, x) \/ events' = Append(Append(events, x), y)
      BY <2>1 DEF x, y
    <2> QED
      BY <2>3, <2>5, <2>6 DEF LogInv
  <1>3. ASSUME NEW t \in Tenants, NEW c \in CustomerIds, CreateCustomer(t, c) PROVE LogInv'
    <2> DEFINE x == EventOf("customer.created", c, "trialing")
    <2>1. x \in Event /\ x.type = "customer.created"
      BY DEF EventOf, Event
    <2>2. events' = events \o <<x>> /\ stripeSub' = stripeSub
      BY <1>3 DEF CreateCustomer, Emit
    <2> HIDE DEF x
    <2>3. events' = Append(events, x)
      BY <1>0, <2>1, <2>2
    <2> QED
      BY <1>0, <2>1, <2>2, <2>3, LogSkips DEF LogInv
  <1>4. CASE UNCHANGED <<events, stripeSub>>
    BY <1>4 DEF LogInv
  <1> QED
    BY <1>1, <1>2, <1>3, <1>4, OutsideLog DEF StripeStep

\* Stripe's log tells the state of every subscription, whatever fails.
THEOREM LogInvariant == Spec => []LogInv
  <1>1. Init => LogInv
    BY DEF Init, LogInv, LogTells
  <1>2. BillingInv /\ LogInv /\ [Next]_vars => LogInv'
    BY LogStep
  <1> QED
    BY <1>1, <1>2, BillingInvariant, PTL DEF Spec

\* Handlers take turns, in the order of the log.
Turns ==
    /\ \A e \in acked : 1 .. e \subseteq acked
    /\ \A v, w \in Workers : workers[v].pc # "idle" /\ workers[w].pc # "idle" => v = w
    /\ \A w \in Workers : workers[w].pc # "idle" =>
          workers[w].event \notin acked /\ 1 .. workers[w].event - 1 \subseteq acked
    /\ \A e \in processed : e \in acked
          \/ \E w \in Workers : workers[w].event = e /\ workers[w].pc = "respond"

\* The row a handler loaded is the row of the event's tenant as it is now, and the
\* status it will write is the event's.
CurrentOf(w) ==
    /\ workers[w].pc # "recordError"
    /\ workers[w].pc = "insertInvoice" => invoices[workers[w].event] = None
    /\ workers[w].pc \in {"save", "update"} \cup InvoiceSteps =>
          /\ workers[w].tenant = customers[EventAt(w).cust]
          /\ workers[w].row = subscriptions[workers[w].tenant]
          /\ workers[w].status = EventAt(w).status
    /\ workers[w].pc = "save" => EventAt(w).type \in
          {"subscription.created", "subscription.updated", "subscription.deleted"}
    /\ workers[w].pc = "update" =>
          EventAt(w).type \in {"invoice.paid", "invoice.payment_failed"}

Current == \A w \in Workers : CurrentOf(w)

\* The events whose handler has changed the row, or had nothing to change.
Settled == {"publish", "mark", "respond"}
Applied(k) == k \in acked \/ \E w \in Workers : workers[w].event = k /\ workers[w].pc \in Settled

\* The row of a customer's tenant tells the last of the customer's events applied.
Mirrored ==
    \A c \in CustomerIds, d \in 1 .. Len(events) :
        (/\ SubEvent(events, d, c) /\ Applied(d)
         /\ \A k \in 1 .. Len(events) : SubEvent(events, k, c) /\ Applied(k) => k <= d)
        => /\ subscriptions[customers[c]].sub = c
           /\ subscriptions[customers[c]].status = events[d].status

\* A linked subscription is one of the tenant's customer, and Stripe knows its state.
Linked ==
    \A t \in Tenants : subscriptions[t].sub # None =>
        /\ customers[subscriptions[t].sub] = t
        /\ stripeSub[subscriptions[t].sub] \in SubscriptionStatus

OrderInv == Turns /\ Current /\ Mirrored /\ Linked

\* All that holds together when deliveries are in order and nothing failed.
SoundInv == BillingInv /\ WholeInv /\ LogInv /\ OrderInv

\* While a handler is at work on an event, exactly the events before it are answered.
LEMMA BeforeMine ==
    ASSUME SoundInv, NEW w \in Workers, workers[w].pc # "idle"
    PROVE  LET e == workers[w].event
           IN /\ e \in 1 .. Len(events) /\ Len(events) \in Nat
              /\ \A k \in 1 .. e - 1 : k \in acked
              /\ \A k \in acked : k \in 1 .. e - 1
              /\ \A k : Applied(k) <=> (k \in acked \/ (k = e /\ workers[w].pc \in Settled))
  <1> DEFINE e == workers[w].event
  <1>1. e \in 1 .. Len(events) /\ Len(events) \in Nat
    <2>1. Emitted(e)
      BY InFlightEvent DEF SoundInv
    <2>2. Len(events) \in Nat
      BY DEF SoundInv, BillingInv, TypeOK
    <2> QED
      BY <2>1, <2>2 DEF Emitted
  <1>2. e \notin acked /\ 1 .. e - 1 \subseteq acked
    BY DEF SoundInv, OrderInv, Turns
  <1>3. ASSUME NEW k \in acked PROVE k \in 1 .. e - 1
    <2>1. k \in Nat /\ k >= 1 /\ 1 .. k \subseteq acked
      BY DEF SoundInv, BillingInv, TypeOK, OrderInv, Turns
    <2>2. ~(e <= k)
      BY <1>1, <1>2, <2>1
    <2> QED
      BY <1>1, <2>1, <2>2
  <1>4. \A v \in Workers : workers[v].pc \in Settled => v = w
    BY DEF SoundInv, OrderInv, Turns, Settled
  <1>5. \A k : Applied(k) <=> (k \in acked \/ (k = e /\ workers[w].pc \in Settled))
    BY <1>4 DEF Applied
  <1> QED
    BY <1>1, <1>2, <1>3, <1>5

\* Only events of the log are applied.
LEMMA AppliedEmitted ==
    ASSUME SoundInv, NEW k, Applied(k)
    PROVE  k \in 1 .. Len(events)
  <1>1. CASE k \in acked
    BY <1>1 DEF SoundInv, WholeInv, Recorded, Emitted
  <1>2. ASSUME NEW w \in Workers, workers[w].event = k, workers[w].pc \in Settled
        PROVE  k \in 1 .. Len(events)
    BY <1>2, InFlightEvent DEF SoundInv, Settled, Emitted
  <1> QED
    BY <1>1, <1>2 DEF Applied

\* A customer with events of a subscription has a tenant, and is the customer of its row.
LEMMA SubEventRow ==
    ASSUME SoundInv, NEW c \in CustomerIds, NEW d \in 1 .. Len(events), SubEvent(events, d, c)
    PROVE  /\ customers[c] \in Tenants /\ customers[c] # None
           /\ subscriptions[customers[c]].cust = c /\ c # None
           /\ stripeSub[c] \in SubscriptionStatus
  <1>1. events[d].cust = c /\ events[d].type # "customer.created"
    BY DEF SubEvent
  <1>2. customers[c] # None /\ customers[c] \in Tenants
    BY <1>1 DEF SoundInv, BillingInv, TypeOK, Ownership
  <1>3. stripeSub[c] # "none"
    BY <1>1 DEF SoundInv, WholeInv, Reported
  <1>4. subscriptions[customers[c]].cust = c /\ c # None
    BY <1>3 DEF SoundInv, WholeInv, RowsThere
  <1>5. stripeSub[c] \notin {"none", "checkout"}
    <2>1. \A e \in 1 .. Len(events) : events[e].status \notin {"none", "checkout"}
      <3>1. \A e \in 1 .. Len(events) : events[e] \in Event
        BY DEF SoundInv, BillingInv, TypeOK
      <3> QED
        BY <3>1 DEF Event
    <2> QED
      BY <2>1 DEF SoundInv, LogInv, LogTells
  <1> QED
    BY <1>2, <1>4, <1>5 DEF SoundInv, BillingInv, TypeOK

\* The event before, of the same subscription, has been applied to the row.
LEMMA Predecessor ==
    ASSUME SoundInv, NEW w \in Workers, workers[w].pc \notin Settled \cup {"idle"},
           EventAt(w).type \notin {"customer.created", "subscription.created"}
    PROVE  LET t == customers[EventAt(w).cust]
           IN /\ subscriptions[t].sub = EventAt(w).cust
              /\ EventAt(w).type = "invoice.paid" =>
                    subscriptions[t].status \in {"active", "past_due"}
  <1> DEFINE e == workers[w].event
             c == EventAt(w).cust
  <1>1. /\ e \in 1 .. Len(events) /\ Len(events) \in Nat
        /\ \A k \in 1 .. e - 1 : k \in acked
        /\ \A k : Applied(k) => k \in 1 .. e - 1
    BY BeforeMine
  <1>2. c \in CustomerIds
    BY InFlightEvent DEF SoundInv, Event
  <1>3. PICK d \in 1 .. e - 1 :
           /\ Last(events, d, e - 1, c)
           /\ EventAt(w).type = "invoice.paid" => events[d].status \in {"active", "past_due"}
    BY <1>1 DEF SoundInv, LogInv, LogTells, EventAt
  <1>4. d \in 1 .. Len(events) /\ SubEvent(events, d, c) /\ Applied(d)
    BY <1>1, <1>3 DEF Last, Applied
  <1>5. \A k \in 1 .. Len(events) : SubEvent(events, k, c) /\ Applied(k) => k <= d
    <2> SUFFICES ASSUME NEW k \in 1 .. Len(events), SubEvent(events, k, c), Applied(k), k > d
                 PROVE  FALSE
      BY <1>1, <1>3
    <2>1. k \in 1 .. e - 1
      BY <1>1
    <2>2. k \in d + 1 .. e - 1
      BY <1>1, <2>1
    <2> QED
      BY <1>3, <2>2 DEF Last
  <1> QED
    BY <1>2, <1>3, <1>4, <1>5 DEF SoundInv, OrderInv, Mirrored

\* The log only grows.
LogKept ==
    /\ Len(events) <= Len(events')
    /\ \A i \in 1 .. Len(events) : events'[i] = events[i]

\* A step that writes no status keeps the rows mirrored.
LEMMA MirrorFrame ==
    ASSUME SoundInv, LogKept, Len(events') \in Nat,
           \A c \in CustomerIds : customers[c] # None => customers'[c] = customers[c],
           \A t \in Tenants : subscriptions[t].cust # None =>
              /\ subscriptions'[t].sub = subscriptions[t].sub
              /\ subscriptions'[t].status = subscriptions[t].status,
           \A k \in 1 .. Len(events) :
              events[k].type # "customer.created" => (Applied(k)' <=> Applied(k)),
           \A k : Applied(k)' => k \in 1 .. Len(events)
    PROVE  Mirrored'
  <1>0. Len(events) \in Nat
    BY DEF SoundInv, BillingInv, TypeOK
  <1> SUFFICES ASSUME NEW c \in CustomerIds, NEW d \in 1 .. Len(events'),
                      SubEvent(events', d, c), Applied(d)',
                      \A k \in 1 .. Len(events') :
                         SubEvent(events', k, c) /\ Applied(k)' => k <= d
               PROVE  /\ subscriptions'[customers'[c]].sub = c
                      /\ subscriptions'[customers'[c]].status = events'[d].status
    BY DEF Mirrored
  <1>1. d \in 1 .. Len(events) /\ events'[d] = events[d]
    BY DEF LogKept
  <1>2. \A k \in 1 .. Len(events) : SubEvent(events', k, c) <=> SubEvent(events, k, c)
    BY <1>0 DEF LogKept, SubEvent
  <1>3. SubEvent(events, d, c) /\ Applied(d)
    BY <1>1, <1>2 DEF SubEvent
  <1>4. \A k \in 1 .. Len(events) : SubEvent(events, k, c) /\ Applied(k) => k <= d
    <2> SUFFICES ASSUME NEW k \in 1 .. Len(events), SubEvent(events, k, c), Applied(k)
                 PROVE  k <= d
      OBVIOUS
    <2>1. Applied(k)' /\ SubEvent(events', k, c) /\ k \in 1 .. Len(events')
      BY <1>0, <1>2 DEF LogKept, SubEvent
    <2> QED
      BY <2>1
  <1>5. /\ subscriptions[customers[c]].sub = c
        /\ subscriptions[customers[c]].status = events[d].status
    BY <1>1, <1>3, <1>4 DEF SoundInv, OrderInv, Mirrored
  <1>6. /\ customers[c] \in Tenants /\ customers[c] # None
        /\ subscriptions[customers[c]].cust # None
    BY <1>1, <1>3, SubEventRow
  <1> QED
    BY <1>1, <1>5, <1>6

\* A handler that brings the row of its event's tenant to the event's state keeps the
\* rows mirrored.
LEMMA MirrorApplies ==
    ASSUME SoundInv, NEW w \in Workers, workers[w].pc \notin Settled \cup {"idle"},
           EventAt(w).type # "customer.created", UNCHANGED <<events, customers>>,
           \A k : Applied(k)' <=> (Applied(k) \/ k = workers[w].event),
           subscriptions'[customers[EventAt(w).cust]].sub = EventAt(w).cust,
           subscriptions'[customers[EventAt(w).cust]].status = EventAt(w).status,
           \A t \in Tenants : t # customers[EventAt(w).cust] =>
              subscriptions'[t] = subscriptions[t]
    PROVE  Mirrored'
  <1> DEFINE e == workers[w].event
             c == EventAt(w).cust
  <1>1. /\ e \in 1 .. Len(events) /\ Len(events) \in Nat
        /\ \A k : Applied(k) => k \in 1 .. e - 1
    BY BeforeMine
  <1>2. c \in CustomerIds /\ SubEvent(events, e, c) /\ events[e] = EventAt(w)
    <2>1. c \in CustomerIds
      BY InFlightEvent DEF SoundInv, Event
    <2> QED
      BY <1>1, <2>1 DEF SubEvent, EventAt
  <1> SUFFICES ASSUME NEW b \in CustomerIds, NEW d \in 1 .. Len(events),
                      SubEvent(events, d, b), Applied(d)',
                      \A k \in 1 .. Len(events) :
                         SubEvent(events, k, b) /\ Applied(k)' => k <= d
               PROVE  /\ subscriptions'[customers[b]].sub = b
                      /\ subscriptions'[customers[b]].status = events[d].status
    BY DEF Mirrored
  <1>3. CASE b = c
    <2>1. e <= d
      BY <1>1, <1>2, <1>3
    <2>2. d = e
      BY <1>1, <2>1
    <2> QED
      BY <1>2, <1>3, <2>2
  <1>4. CASE b # c
    <2>1. /\ customers[b] \in Tenants /\ customers[b] # None
      BY SubEventRow
    <2>2. customers[b] # customers[c]
      BY <1>2, <1>4, <2>1 DEF SoundInv, WholeInv, OneCustomer
    <2>3. d # e /\ Applied(d)
      BY <1>2, <1>4 DEF SubEvent
    <2>4. \A k \in 1 .. Len(events) : SubEvent(events, k, b) /\ Applied(k) => k <= d
      OBVIOUS
    <2>5. subscriptions[customers[b]].sub = b /\ subscriptions[customers[b]].status = events[d].status
      BY <2>3, <2>4 DEF SoundInv, OrderInv, Mirrored
    <2> QED
      BY <2>1, <2>2, <2>5
  <1> QED
    BY <1>3, <1>4

\* While a handler has not come to its answer, exactly answered events are processed.
LEMMA ProcessedAnswered ==
    ASSUME SoundInv, \A w \in Workers : workers[w].pc # "respond"
    PROVE  processed \subseteq acked
  BY DEF SoundInv, OrderInv, Turns

\* A handler goes on and the others stay idle.
LEMMA HandlerTurns ==
    ASSUME SoundInv, NEW w \in Workers, workers[w].pc # "idle", workers'[w].pc # "idle",
           \A v \in Workers \ {w} : workers'[v] = workers[v],
           workers'[w].event = workers[w].event, acked' = acked,
           \A k \in processed' : k \in acked
              \/ (k = workers[w].event /\ workers'[w].pc = "respond")
    PROVE  /\ Turns'
           /\ \A v \in Workers \ {w} : CurrentOf(v)'
           /\ \A k : Applied(k)' <=>
                 (k \in acked \/ (k = workers[w].event /\ workers'[w].pc \in Settled))
  <1>1. \A v \in Workers \ {w} : workers'[v].pc = "idle"
    BY DEF SoundInv, OrderInv, Turns
  <1>2. Turns'
    <2>1. \A k \in acked' : 1 .. k \subseteq acked'
      BY DEF SoundInv, OrderInv, Turns
    <2>2. \A u, v \in Workers : workers'[u].pc # "idle" /\ workers'[v].pc # "idle" => u = v
      BY <1>1
    <2>3. \A v \in Workers : workers'[v].pc # "idle" =>
             workers'[v].event \notin acked' /\ 1 .. workers'[v].event - 1 \subseteq acked'
      BY <1>1 DEF SoundInv, OrderInv, Turns
    <2>4. \A k \in processed' : k \in acked'
             \/ \E v \in Workers : workers'[v].event = k /\ workers'[v].pc = "respond"
      OBVIOUS
    <2> QED
      BY <2>1, <2>2, <2>3, <2>4 DEF Turns
  <1>3. \A v \in Workers \ {w} : CurrentOf(v)'
    BY <1>1 DEF CurrentOf, InvoiceSteps
  <1>4. \A k : Applied(k)' <=>
           (k \in acked \/ (k = workers[w].event /\ workers'[w].pc \in Settled))
    BY <1>1 DEF Applied, Settled
  <1> QED
    BY <1>2, <1>3, <1>4

\* A step of a handler that neither writes a status nor settles an event of a
\* subscription.
LEMMA HandlerOrder ==
    ASSUME SoundInv, BillingInv', NEW w \in Workers,
           workers[w].pc # "idle", workers'[w].pc # "idle",
           \A v \in Workers \ {w} : workers'[v] = workers[v],
           workers'[w].event = workers[w].event, UNCHANGED stripe,
           \A k \in processed' : k \in acked
              \/ (k = workers[w].event /\ workers'[w].pc = "respond"),
           \A t \in Tenants : /\ subscriptions'[t].sub = subscriptions[t].sub
                              /\ subscriptions'[t].status = subscriptions[t].status,
           \/ EventAt(w).type = "customer.created"
           \/ workers[w].pc \in Settled <=> workers'[w].pc \in Settled,
           CurrentOf(w)'
    PROVE  OrderInv'
  <1>1. UNCHANGED <<customers, stripeSub, events, acked>>
    BY DEF stripe
  <1>2. /\ Turns' /\ Current'
        /\ \A k : Applied(k)' <=>
              (k \in acked \/ (k = workers[w].event /\ workers'[w].pc \in Settled))
    BY <1>1, HandlerTurns DEF Current
  <1>3. /\ workers[w].event \in 1 .. Len(events) /\ Len(events) \in Nat
        /\ \A k \in acked : k \in 1 .. Len(events)
        /\ \A k : Applied(k) <=>
              (k \in acked \/ (k = workers[w].event /\ workers[w].pc \in Settled))
    BY BeforeMine
  <1>4. Mirrored'
    <2>1. \A k : Applied(k)' => k \in 1 .. Len(events)
      BY <1>2, <1>3
    <2>2. \A k \in 1 .. Len(events) :
             events[k].type # "customer.created" => (Applied(k)' <=> Applied(k))
      BY <1>2, <1>3 DEF EventAt
    <2>3. LogKept /\ Len(events') \in Nat
      BY <1>1, <1>3 DEF LogKept
    <2> QED
      BY <1>1, <2>1, <2>2, <2>3, MirrorFrame
  <1>5. Linked'
    BY <1>1 DEF SoundInv, OrderInv, Linked
  <1> QED
    BY <1>2, <1>4, <1>5 DEF OrderInv

\* A step outside the handlers that keeps the rows there are.
LEMMA OutsideOrder ==
    ASSUME SoundInv, LogKept, Len(events') \in Nat,
           UNCHANGED <<workers, acked, processed, invoices>>, Linked',
           \A c \in CustomerIds : customers[c] # None => customers'[c] = customers[c],
           \A t \in Tenants : subscriptions[t].cust # None =>
              subscriptions'[t] = subscriptions[t]
    PROVE  OrderInv'
  <1>1. Turns'
    BY DEF SoundInv, OrderInv, Turns
  <1>2. \A k : Applied(k)' <=> Applied(k)
    BY DEF Applied
  <1>3. Mirrored'
    BY <1>2, AppliedEmitted, MirrorFrame
  <1>4. ASSUME NEW w \in Workers PROVE CurrentOf(w)'
    <2>1. CASE workers[w].pc = "idle"
      BY <2>1 DEF CurrentOf, InvoiceSteps
    <2>2. CASE workers[w].pc # "idle"
      <3>1. EventAt(w)' = EventAt(w) /\ customers'[EventAt(w).cust] = customers[EventAt(w).cust]
        <4>1. /\ Emitted(workers[w].event) /\ EventAt(w).cust \in CustomerIds
              /\ customers[EventAt(w).cust] # None
          BY <2>2, InFlightEvent DEF SoundInv, Event
        <4> QED
          BY <4>1 DEF EventAt, Emitted, LogKept
      <3>2. workers[w].pc \in {"save", "update"} \cup InvoiceSteps =>
               /\ workers[w].tenant \in Tenants
               /\ subscriptions[workers[w].tenant].cust # None
        <4>1. workers[w].pc \in {"save", "update"} \cup InvoiceSteps =>
                 Loaded(w) /\ workers[w].row = subscriptions[workers[w].tenant]
          BY DEF SoundInv, BillingInv, HandlersOwn, OrderInv, Current, CurrentOf
        <4>2. workers[w].tenant \in Tenants \cup {None}
          BY DEF SoundInv, BillingInv, TypeOK, Worker
        <4> QED
          BY <4>1, <4>2 DEF Loaded
      <3>3. CurrentOf(w)
        BY DEF SoundInv, OrderInv, Current
      <3> QED
        BY <3>1, <3>2, <3>3 DEF CurrentOf
    <2> QED
      BY <2>1, <2>2
  <1> QED
    BY <1>1, <1>3, <1>4 DEF OrderInv, Current

\* Stripe changes a subscription or opens a checkout.
LEMMA StripeOrder ==
    ASSUME SoundInv, StripeStep
    PROVE  OrderInv'
  <1>0. events \in Seq(Event) /\ stripeSub \in [CustomerIds -> StripeStates]
    BY DEF SoundInv, BillingInv, TypeOK
  <1>1. ASSUME Elsewhere, LogKept, Len(events') \in Nat,
               \A c \in CustomerIds : stripeSub[c] \in SubscriptionStatus =>
                  stripeSub'[c] \in SubscriptionStatus
        PROVE  OrderInv'
    <2>1. UNCHANGED <<customers, workers, acked, processed, invoices, subscriptions>>
      BY <1>1 DEF Elsewhere, db, webhookEvents
    <2>2. \A t \in Tenants : subscriptions[t].sub \in CustomerIds \cup {None}
      BY DEF SoundInv, BillingInv, TypeOK, Subscription
    <2>3. Linked'
      BY <1>1, <2>1, <2>2 DEF SoundInv, OrderInv, Linked
    <2> QED
      BY <1>1, <2>1, <2>3, OutsideOrder
  <1>2. ASSUME NEW t \in Tenants, CreateCheckout(t) PROVE OrderInv'
    <2>1. /\ Elsewhere /\ events' = events
          /\ stripeSub' = [stripeSub EXCEPT ![subscriptions[t].cust] = "checkout"]
          /\ stripeSub[subscriptions[t].cust] = "none"
      BY <1>2 DEF CreateCheckout
    <2>2. LogKept /\ Len(events') \in Nat
      BY <1>0, <2>1 DEF LogKept
    <2>3. \A c \in CustomerIds : stripeSub[c] \in SubscriptionStatus =>
             stripeSub'[c] \in SubscriptionStatus
      BY <1>0, <2>1
    <2> QED
      BY <1>1, <2>1, <2>2, <2>3
  <1>3. ASSUME NEW c \in CustomerIds,
               \/ CheckoutCompleted(c) \/ TrialEnds(c) \/ SubscriptionDeleted(c)
               \/ PaymentFailed(c) \/ PaymentSucceeded(c)
        PROVE  OrderInv'
    <2>1. PICK type \in EventTypes, s \in SubscriptionStatus :
              /\ stripeSub' = [stripeSub EXCEPT ![c] = s] /\ Elsewhere
              /\ \/ events' = Append(events, EventOf(type, c, s))
                 \/ events' = Append(Append(events, EventOf(type, c, s)),
                                     EventOf("subscription.updated", c, s))
      BY <1>3, StripeChanges DEF SoundInv
    <2> DEFINE x == EventOf(type, c, s)
               y == EventOf("subscription.updated", c, s)
    <2>2. x \in Event /\ y \in Event
      BY DEF EventOf, Event
    <2>3. events' = Append(events, x) \/ events' = Append(Append(events, x), y)
      BY <2>1
    <2> HIDE DEF x, y
    <2>4. LogKept /\ Len(events') \in Nat
      BY <1>0, <2>2, <2>3 DEF LogKept
    <2>5. \A b \in CustomerIds : stripeSub[b] \in SubscriptionStatus =>
             stripeSub'[b] \in SubscriptionStatus
      BY <1>0, <2>1
    <2> QED
      BY <1>1, <2>1, <2>4, <2>5
  <1> QED
    BY <1>2, <1>3 DEF StripeStep

\* The consumer gives a tenant its customer and its row.
LEMMA ProvisionOrder ==
    ASSUME SoundInv, NEW t \in Tenants, ProvisionStep(t)
    PROVE  OrderInv'
  <1>0. /\ events \in Seq(Event) /\ customers \in [CustomerIds -> Tenants \cup {None}]
        /\ subscriptions \in [Tenants -> Subscription]
        /\ \A u \in Tenants : subscriptions[u].sub \in CustomerIds \cup {None}
    BY DEF SoundInv, BillingInv, TypeOK, Subscription
  <1>1. UNCHANGED <<workers, acked, processed, invoices, stripeSub>>
    BY DEF ProvisionStep, CreateCustomer, CreateSubscription, PublishSynced, ProvisionOnly,
           webhookEvents
  <1>2. ASSUME NEW c \in CustomerIds, CreateCustomer(t, c) PROVE OrderInv'
    <2> DEFINE x == EventOf("customer.created", c, "trialing")
    <2>1. x \in Event
      BY DEF EventOf, Event
    <2>2. /\ events' = events \o <<x>> /\ customers[c] = None
          /\ customers' = [customers EXCEPT ![c] = t] /\ subscriptions' = subscriptions
      BY <1>2 DEF CreateCustomer, Emit
    <2> HIDE DEF x
    <2>3. LogKept /\ Len(events') \in Nat
      BY <1>0, <2>1, <2>2 DEF LogKept
    <2>4. \A b \in CustomerIds : customers[b] # None => customers'[b] = customers[b]
      BY <1>0, <2>2
    <2>5. Linked'
      BY <1>0, <1>1, <2>2, <2>4 DEF SoundInv, OrderInv, Linked
    <2> QED
      BY <1>1, <2>2, <2>3, <2>4, <2>5, OutsideOrder
  <1>3. ASSUME UNCHANGED <<customers, events>>,
               \A u \in Tenants : subscriptions'[u] = subscriptions[u]
                  \/ (subscriptions[u].cust = None /\ subscriptions'[u].sub = None)
        PROVE  OrderInv'
    <2>1. LogKept /\ Len(events') \in Nat
      BY <1>0, <1>3 DEF LogKept
    <2>2. Linked'
      BY <1>0, <1>1, <1>3 DEF SoundInv, OrderInv, Linked
    <2> QED
      BY <1>1, <1>3, <2>1, <2>2, OutsideOrder
  <1>4. CASE CreateSubscription(t)
    <2>1. /\ UNCHANGED <<customers, events>>
          /\ \/ subscriptions' = subscriptions
             \/ /\ subscriptions[t].cust = None
                /\ \E s \in {"active", "trialing"} :
                      subscriptions' = [subscriptions EXCEPT ![t] =
                          [cust |-> prov[t].cust, sub |-> None, status |-> s]]
      BY <1>4 DEF CreateSubscription
    <2>2. \A u \in Tenants : subscriptions'[u] = subscriptions[u]
             \/ (subscriptions[u].cust = None /\ subscriptions'[u].sub = None)
      <3>1. CASE subscriptions' = subscriptions
        BY <3>1
      <3>2. ASSUME NEW s, subscriptions[t].cust = None,
                   subscriptions' = [subscriptions EXCEPT ![t] =
                      [cust |-> prov[t].cust, sub |-> None, status |-> s]]
            PROVE  \A u \in Tenants : subscriptions'[u] = subscriptions[u]
                      \/ (subscriptions[u].cust = None /\ subscriptions'[u].sub = None)
        BY <1>0, <3>2
      <3> QED
        BY <2>1, <3>1, <3>2
    <2> QED
      BY <1>3, <2>1, <2>2
  <1>5. CASE PublishSynced(t)
    <2>1. UNCHANGED <<customers, events, subscriptions>>
      BY <1>5 DEF PublishSynced
    <2>2. \A u \in Tenants : subscriptions'[u] = subscriptions[u]
             \/ (subscriptions[u].cust = None /\ subscriptions'[u].sub = None)
      BY <2>1
    <2> QED
      BY <1>3, <2>1, <2>2
  <1> QED
    BY <1>2, <1>4, <1>5 DEF ProvisionStep

\* The next event of the log is taken up, by the only handler at work.
LEMMA DeliverOrder ==
    ASSUME SoundInv, InOrder, NEW w \in Workers, NEW e \in EventIds, Deliver(w, e)
    PROVE  OrderInv'
  <1>1. /\ \A v \in Workers : workers[v].pc = "idle"
        /\ e \notin acked /\ 1 .. e - 1 \subseteq acked
    BY DEF Deliver
  <1>2. processed \subseteq acked
    BY <1>1, ProcessedAnswered
  <1>3. /\ UNCHANGED <<customers, stripeSub, events, acked, processed, subscriptions, invoices>>
        /\ workers' = [workers EXCEPT ![w] = [Idle EXCEPT !.pc = "upsert", !.event = e]]
    BY <1>1, <1>2 DEF Deliver, db, webhookEvents
  <1>4. /\ \A v \in Workers \ {w} : workers'[v].pc = "idle"
        /\ workers'[w].pc = "upsert" /\ workers'[w].event = e
    <2>1. workers \in [Workers -> Worker] /\ e \in Nat /\ "upsert" \in Steps
      BY DEF SoundInv, BillingInv, TypeOK
    <2> QED
      BY <1>1, <1>3, <2>1, StartFacts
  <1>5. Turns'
    <2>1. \A k \in acked' : 1 .. k \subseteq acked'
      BY <1>3 DEF SoundInv, OrderInv, Turns
    <2> QED
      BY <1>1, <1>2, <1>3, <1>4, <2>1 DEF Turns
  <1>6. Current'
    BY <1>4 DEF Current, CurrentOf, InvoiceSteps
  <1>7. \A k : (Applied(k) <=> k \in acked) /\ (Applied(k)' <=> k \in acked)
    BY <1>1, <1>3, <1>4 DEF Applied, Settled
  <1>8. Mirrored'
    <2>1. LogKept /\ Len(events') \in Nat
      BY <1>3 DEF LogKept, SoundInv, BillingInv, TypeOK
    <2> QED
      BY <1>3, <1>7, <2>1, AppliedEmitted, MirrorFrame
  <1>9. Linked'
    BY <1>3 DEF SoundInv, OrderInv, Linked
  <1> QED
    BY <1>5, <1>6, <1>8, <1>9 DEF OrderInv

\* The answer.
LEMMA RespondOrder ==
    ASSUME SoundInv, NEW w \in Workers, Respond(w)
    PROVE  OrderInv'
  <1> DEFINE e == workers[w].event
  <1>1. /\ workers[w].pc = "respond" /\ acked' = acked \cup {e}
        /\ UNCHANGED <<customers, stripeSub, events, processed, subscriptions, invoices>>
    BY DEF Respond, db, webhookEvents
  <1>2. /\ e \in 1 .. Len(events) /\ Len(events) \in Nat
        /\ \A k \in 1 .. e - 1 : k \in acked
        /\ \A k : Applied(k) <=> (k \in acked \/ k = e)
    BY <1>1, BeforeMine DEF Settled
  <1>3. \A v \in Workers : workers'[v].pc = "idle"
    <2>1. /\ \A v \in Workers \ {w} : workers'[v] = workers[v]
          /\ workers'[w].pc = "idle"
      BY EndFacts DEF Respond, SoundInv, BillingInv, TypeOK
    <2> QED
      BY <1>1, <2>1 DEF SoundInv, OrderInv, Turns
  <1>4. Turns'
    <2>1. \A k \in acked : 1 .. k \subseteq acked
      BY DEF SoundInv, OrderInv, Turns
    <2>2. 1 .. e \subseteq acked'
      BY <1>1, <1>2
    <2>3. \A k \in processed : k \in acked'
      BY <1>1 DEF SoundInv, OrderInv, Turns
    <2> QED
      BY <1>1, <1>3, <2>1, <2>2, <2>3 DEF Turns
  <1>5. Current'
    BY <1>3 DEF Current, CurrentOf, InvoiceSteps
  <1>6. \A k : Applied(k)' <=> Applied(k)
    BY <1>1, <1>2, <1>3 DEF Applied, Settled
  <1>7. Mirrored'
    <2>1. LogKept /\ Len(events') \in Nat
      BY <1>1, <1>2 DEF LogKept
    <2> QED
      BY <1>1, <1>6, <2>1, AppliedEmitted, MirrorFrame
  <1>8. Linked'
    BY <1>1 DEF SoundInv, OrderInv, Linked
  <1> QED
    BY <1>4, <1>5, <1>7, <1>8 DEF OrderInv

\* The row of webhook_events is opened, the messages are sent, the event is marked.
LEMMA PlainOrder ==
    ASSUME SoundInv, BillingInv', NEW w \in Workers,
           Upsert(w) \/ PublishStatus(w) \/ Mark(w)
    PROVE  OrderInv'
  <1>1. /\ workers[w].pc \in {"upsert", "publish", "mark"} /\ UNCHANGED stripe
        /\ UNCHANGED <<subscriptions, invoices>>
    BY DEF Upsert, PublishStatus, Mark, db
  <1>2. PICK p \in {"route", "mark", "respond"} :
           /\ Goto(w, p)
           /\ workers[w].pc \in Settled <=> p \in Settled
           /\ p = "respond" \/ processed' \subseteq processed
           /\ processed' \subseteq processed \cup {workers[w].event}
    BY DEF Upsert, PublishStatus, Mark, Settled, db, webhookEvents
  <1>3. /\ \A v \in Workers \ {w} : workers'[v] = workers[v]
        /\ workers'[w].pc = p /\ workers'[w].event = workers[w].event
    BY <1>2, GotoFacts DEF SoundInv, BillingInv, TypeOK
  <1>4. processed \subseteq acked
    <2>1. \A v \in Workers : workers[v].pc # "respond"
      BY <1>1 DEF SoundInv, OrderInv, Turns
    <2> QED
      BY <2>1, ProcessedAnswered
  <1>5. CurrentOf(w)'
    BY <1>3 DEF CurrentOf, InvoiceSteps
  <1> QED
    BY <1>1, <1>2, <1>3, <1>4, <1>5, HandlerOrder

\* A handler that writes the row writes its event's state to its event's tenant.
LEMMA WriteOrder ==
    ASSUME SoundInv, BillingInv', NEW w \in Workers, Save(w) \/ UpdateStatus(w)
    PROVE  OrderInv'
  <1> DEFINE e == workers[w].event
             c == EventAt(w).cust
             t == customers[c]
  <1>1. /\ workers[w].pc \in {"save", "update"} /\ Goto(w, "publish")
        /\ UNCHANGED <<customers, stripeSub, events, acked, processed, invoices>>
    BY DEF Save, UpdateStatus, webhookEvents, stripe
  <1>2. /\ workers \in [Workers -> Worker] /\ subscriptions \in [Tenants -> Subscription]
        /\ c \in CustomerIds /\ t \in Tenants
        /\ workers[w].tenant = t /\ workers[w].row = subscriptions[t]
        /\ workers[w].status = EventAt(w).status
        /\ EventAt(w).type # "customer.created"
    <2>1. c \in CustomerIds /\ t \in Tenants
      BY <1>1, InFlightEvent DEF SoundInv, Event
    <2>2. CurrentOf(w)
      BY DEF SoundInv, OrderInv, Current
    <2> QED
      BY <1>1, <2>1, <2>2 DEF CurrentOf, SoundInv, BillingInv, TypeOK
  <1>3. /\ \A v \in Workers \ {w} : workers'[v] = workers[v]
        /\ workers'[w].pc = "publish" /\ workers'[w].event = e
    BY <1>1, <1>2, GotoFacts
  <1>4. EventAt(w).type # "subscription.created" => subscriptions[t].sub = c
    BY <1>1, <1>2, Predecessor DEF Settled
  <1>5. /\ subscriptions'[t].sub = c /\ subscriptions'[t].status = EventAt(w).status
        /\ \A u \in Tenants : u # t => subscriptions'[u] = subscriptions[u]
    <2>1. CASE Save(w)
      <3>1. Saved(w).sub = c /\ Saved(w).status = EventAt(w).status
        BY <1>2, <1>4 DEF Saved, Subscription
      <3>2. subscriptions' = [subscriptions EXCEPT ![t] = Saved(w)]
        BY <1>2, <2>1 DEF Save
      <3> QED
        BY <1>2, <3>1, <3>2
    <2>2. CASE UpdateStatus(w)
      <3>1. EventAt(w).type # "subscription.created"
        BY <2>2 DEF UpdateStatus, SoundInv, OrderInv, Current, CurrentOf
      <3>2. subscriptions' =
               [subscriptions EXCEPT ![t] = [subscriptions[t] EXCEPT !.status = EventAt(w).status]]
        BY <1>2, <2>2 DEF UpdateStatus
      <3>3. subscriptions[t] \in Subscription
        BY <1>2
      <3> QED
        BY <1>2, <1>4, <3>1, <3>2, <3>3 DEF Subscription
    <2> QED
      BY <2>1, <2>2
  <1>6. processed \subseteq acked
    <2>1. \A v \in Workers : workers[v].pc # "respond"
      BY <1>1 DEF SoundInv, OrderInv, Turns
    <2> QED
      BY <2>1, ProcessedAnswered
  <1>7. /\ Turns' /\ (\A v \in Workers \ {w} : CurrentOf(v)')
        /\ \A k : Applied(k)' <=> (k \in acked \/ k = e)
    BY <1>1, <1>3, <1>6, HandlerTurns DEF Settled
  <1>8. Current'
    BY <1>3, <1>7 DEF Current, CurrentOf, InvoiceSteps
  <1>9. Mirrored'
    <2>1. \A k : Applied(k) <=> k \in acked
      BY <1>1, BeforeMine DEF Settled
    <2> QED
      BY <1>1, <1>2, <1>5, <1>7, <2>1, MirrorApplies DEF Settled
  <1>10. Linked'
    <2>1. stripeSub[c] \in SubscriptionStatus
      <3>1. e \in 1 .. Len(events) /\ SubEvent(events, e, c)
        <4>1. e \in 1 .. Len(events)
          BY <1>1, BeforeMine
        <4> QED
          BY <1>2, <4>1 DEF SubEvent, EventAt
      <3> QED
        BY <1>2, <3>1, SubEventRow
    <2>2. \A u \in Tenants : u # t => subscriptions'[u].sub = subscriptions[u].sub
      BY <1>5
    <2> QED
      BY <1>1, <1>5, <2>1, <2>2 DEF SoundInv, OrderInv, Linked
  <1> QED
    BY <1>7, <1>8, <1>9, <1>10 DEF OrderInv

\* The invoice is recorded; the row follows, unless it is active already.
LEMMA InvoiceOrder ==
    ASSUME SoundInv, BillingInv', NEW w \in Workers, FindInvoice(w) \/ SaveInvoice(w)
    PROVE  OrderInv'
  <1> DEFINE e == workers[w].event
             c == EventAt(w).cust
             t == customers[c]
  <1>1. /\ workers[w].pc \in InvoiceSteps
        /\ UNCHANGED <<customers, stripeSub, events, acked, processed, subscriptions>>
        /\ UNCHANGED stripe
    BY DEF FindInvoice, SaveInvoice, InvoiceSteps, webhookEvents, stripe, db
  <1>2. /\ workers \in [Workers -> Worker] /\ c \in CustomerIds /\ t \in Tenants
        /\ workers[w].tenant = t /\ workers[w].row = subscriptions[t]
        /\ workers[w].status = EventAt(w).status /\ EventAt(w).type = "invoice.paid"
        /\ EventAt(w).status = "active"
        /\ workers[w].pc = "insertInvoice" => invoices[e] = None
    <2>1. workers[w].pc # "idle"
      BY <1>1 DEF InvoiceSteps
    <2>2. c \in CustomerIds /\ t \in Tenants /\ e \in 1 .. Len(events)
      BY <2>1, InFlightEvent DEF SoundInv, Event, Emitted
    <2>3. CurrentOf(w)
      BY DEF SoundInv, OrderInv, Current
    <2>4. EventAt(w).type = "invoice.paid"
      BY <1>1 DEF SoundInv, BillingInv, HandlersOwn
    <2>5. EventAt(w).status = "active"
      BY <2>2, <2>4 DEF SoundInv, LogInv, LogTells, EventAt
    <2> QED
      BY <1>1, <2>2, <2>3, <2>4, <2>5 DEF CurrentOf, SoundInv, BillingInv, TypeOK
  <1>3. PICK p \in {"insertInvoice", "updateInvoice", "update", "mark"} :
           /\ Goto(w, p)
           /\ p = "insertInvoice" => invoices'[e] = None
           /\ p = "mark" => workers[w].row.status # "past_due"
    <2>1. CASE FindInvoice(w)
      BY <2>1 DEF FindInvoice, db
    <2>2. CASE SaveInvoice(w)
      BY <1>2, <2>2 DEF SaveInvoice, InvoiceRecorded
    <2> QED
      BY <2>1, <2>2
  <1>4. /\ \A v \in Workers \ {w} : workers'[v] = workers[v]
        /\ workers'[w].pc = p /\ workers'[w].event = e
        /\ workers'[w].tenant = t /\ workers'[w].row = subscriptions[t]
        /\ workers'[w].status = EventAt(w).status
    BY <1>2, <1>3, GotoFacts
  <1>5. EventAt(w)' = EventAt(w)
    BY <1>1, <1>4 DEF EventAt
  <1>6. CurrentOf(w)'
    BY <1>1, <1>2, <1>3, <1>4, <1>5 DEF CurrentOf
  <1>7. processed \subseteq acked
    <2>1. \A v \in Workers : workers[v].pc # "respond"
      BY <1>1 DEF SoundInv, OrderInv, Turns, InvoiceSteps
    <2> QED
      BY <2>1, ProcessedAnswered
  <1>8. workers[w].pc \notin Settled \cup {"idle"}
    BY <1>1 DEF Settled, InvoiceSteps
  <1>9. CASE p # "mark"
    <2>1. workers'[w].pc \notin Settled /\ workers'[w].pc # "idle"
      BY <1>3, <1>4, <1>9 DEF Settled
    <2> QED
      BY <1>1, <1>4, <1>6, <1>7, <1>8, <2>1, HandlerOrder
  <1>10. CASE p = "mark"
    <2>1. subscriptions[t].sub = c /\ subscriptions[t].status = "active"
      BY <1>2, <1>3, <1>8, <1>10, Predecessor
    <2>2. /\ Turns' /\ (\A v \in Workers \ {w} : CurrentOf(v)')
          /\ \A k : Applied(k)' <=> (k \in acked \/ k = e)
      BY <1>1, <1>4, <1>7, <1>8, <1>10, HandlerTurns DEF Settled
    <2>3. \A k : Applied(k) <=> k \in acked
      BY <1>8, BeforeMine
    <2>4. Mirrored'
      BY <1>1, <1>2, <1>8, <2>1, <2>2, <2>3, MirrorApplies
    <2>5. Linked'
      BY <1>1 DEF SoundInv, OrderInv, Linked
    <2> QED
      BY <1>6, <2>2, <2>4, <2>5 DEF OrderInv, Current
  <1> QED
    BY <1>9, <1>10

\* The router finds the row of the event's tenant, and takes the event's state.
LEMMA RouteOrder ==
    ASSUME SoundInv, BillingInv', RowsVisible, NEW w \in Workers, Route(w)
    PROVE  OrderInv'
  <1> DEFINE e == workers[w].event
             c == EventAt(w).cust
             t == customers[c]
  <1>1. /\ workers[w].pc = "route" /\ UNCHANGED stripe
        /\ UNCHANGED <<customers, events, processed, invoices>>
    BY DEF Route, webhookEvents, stripe
  <1>2. /\ workers \in [Workers -> Worker] /\ subscriptions \in [Tenants -> Subscription]
        /\ EventAt(w) \in Event /\ c \in CustomerIds /\ t \in Tenants /\ t # None
        /\ e \in 1 .. Len(events)
    BY <1>1, InFlightEvent DEF SoundInv, Event, Emitted, BillingInv, TypeOK
  <1>3. processed \subseteq acked
    <2>1. \A v \in Workers : workers[v].pc # "respond"
      BY <1>1 DEF SoundInv, OrderInv, Turns
    <2> QED
      BY <2>1, ProcessedAnswered
  <1>4. EventAt(w).type # "customer.created" => ByCustomer(c) = {t}
    <2> SUFFICES ASSUME EventAt(w).type # "customer.created"
                 PROVE  ByCustomer(c) = {t}
      OBVIOUS
    <2>1. t \in ByCustomer(c)
      BY <1>1, PaidFound DEF SoundInv
    <2>2. \A u \in ByCustomer(c) : u = t
      BY <1>2, FoundRows DEF SoundInv
    <2> QED
      BY <2>1, <2>2
  <1>5. EventAt(w).type \notin {"customer.created", "subscription.created"} =>
           BySubscription(c) = {t}
    <2> SUFFICES ASSUME EventAt(w).type \notin {"customer.created", "subscription.created"}
                 PROVE  BySubscription(c) = {t}
      OBVIOUS
    <2>1. subscriptions[t].sub = c /\ HasRow(t)
      BY <1>1, <1>4, Predecessor DEF Settled, ByCustomer
    <2>2. \A u \in Tenants : subscriptions[u].sub = c => u = t
      BY <1>2 DEF SoundInv, OrderInv, Linked
    <2> QED
      BY <1>2, <2>1, <2>2 DEF BySubscription
  <1>6. ASSUME NEW p \in {"save", "update", "findInvoice"}, NEW otherwise \in Steps,
               Load(w, {t}, EventAt(w).status, p, otherwise), subscriptions' = subscriptions,
               p = "save" => EventAt(w).type \in
                  {"subscription.created", "subscription.updated", "subscription.deleted"},
               p = "update" => EventAt(w).type \in {"invoice.paid", "invoice.payment_failed"}
        PROVE  OrderInv'
    <2>1. /\ workers'[w].pc = p /\ workers'[w].status = EventAt(w).status
          /\ workers'[w].tenant = t /\ workers'[w].row = subscriptions[t]
      <3>1. \E u \in {t} :
              /\ workers'[w].pc = p /\ workers'[w].status = EventAt(w).status
              /\ workers'[w].tenant = u /\ workers'[w].row = subscriptions[u]
        <4>1. PICK found : found = {t}
          OBVIOUS
        <4>2. Load(w, found, EventAt(w).status, p, otherwise) /\ found # {}
          BY <1>6, <4>1
        <4>3. workers \in [Workers -> Worker]
          BY <1>2
        <4>4. \E u \in found :
              /\ workers'[w].pc = p /\ workers'[w].status = EventAt(w).status
              /\ workers'[w].tenant = u /\ workers'[w].row = subscriptions[u]
          <5> HIDE DEF Steps
          <5> QED
            BY <4>2, <4>3, LoadFinds
        <4> QED
          BY <4>1, <4>4
      <3> QED
        BY <3>1
    <2>2. /\ \A v \in Workers \ {w} : workers'[v] = workers[v]
          /\ workers'[w].event = e
      <3>1. {t} \subseteq Tenants /\ EventAt(w).status \in SubscriptionStatus /\ p \in Steps
        BY <1>2 DEF Event
      <3> HIDE DEF Steps, SubscriptionStatus
      <3> QED
        BY <1>2, <1>6, <3>1, LoadFacts
    <2>3. EventAt(w)' = EventAt(w)
      BY <1>1, <2>2 DEF EventAt
    <2>4. CurrentOf(w)'
      BY <1>1, <1>6, <2>1, <2>2, <2>3 DEF CurrentOf, InvoiceSteps
    <2>5. /\ workers[w].pc # "idle" /\ workers'[w].pc # "idle"
          /\ workers[w].pc \notin Settled /\ workers'[w].pc \notin Settled
      BY <1>1, <2>1 DEF Settled
    <2> QED
      BY <1>1, <1>3, <1>6, <2>2, <2>4, <2>5, HandlerOrder
  <1>7. CASE SubscriptionCreated(w)
    BY <1>4, <1>6, <1>7 DEF SubscriptionCreated
  <1>8. CASE SubscriptionUpdated(w)
    BY <1>5, <1>6, <1>8 DEF SubscriptionUpdated
  <1>9. CASE InvoicePaid(w)
    <2>1. EventAt(w).status = "active"
      BY <1>2, <1>9 DEF InvoicePaid, SoundInv, LogInv, LogTells, EventAt
    <2> QED
      BY <1>4, <1>6, <1>9, <2>1 DEF InvoicePaid
  <1>10. CASE InvoicePaymentFailed(w)
    <2>1. EventAt(w).status = "past_due"
      BY <1>2, <1>10 DEF InvoicePaymentFailed, SoundInv, LogInv, LogTells, EventAt
    <2> QED
      BY <1>4, <1>6, <1>10, <2>1 DEF InvoicePaymentFailed
  <1>11. CASE CustomerCreated(w)
    <2>1. /\ EventAt(w).type = "customer.created" /\ Goto(w, "mark")
          /\ subscriptions' = IF HasRow(t) THEN [subscriptions EXCEPT ![t].cust = c]
                                           ELSE subscriptions
      BY <1>11 DEF CustomerCreated
    <2>2. /\ \A v \in Workers \ {w} : workers'[v] = workers[v]
          /\ workers'[w].pc = "mark" /\ workers'[w].event = e
      BY <1>2, <2>1, GotoFacts
    <2>3. \A u \in Tenants : /\ subscriptions'[u].sub = subscriptions[u].sub
                             /\ subscriptions'[u].status = subscriptions[u].status
      <3>1. subscriptions[t] \in Subscription
        BY <1>2
      <3>2. [subscriptions[t] EXCEPT !.cust = c].sub = subscriptions[t].sub
            /\ [subscriptions[t] EXCEPT !.cust = c].status = subscriptions[t].status
        BY <3>1 DEF Subscription
      <3>3. CASE HasRow(t)
        <4>1. subscriptions' = [subscriptions EXCEPT ![t] = [subscriptions[t] EXCEPT !.cust = c]]
          BY <2>1, <3>3
        <4> QED
          BY <1>2, <3>2, <4>1
      <3> QED
        BY <2>1, <3>3
    <2>4. CurrentOf(w)'
      BY <2>2 DEF CurrentOf, InvoiceSteps
    <2> QED
      BY <1>1, <1>3, <2>1, <2>2, <2>3, <2>4, HandlerOrder
  <1> QED
    BY <1>7, <1>8, <1>9, <1>10, <1>11 DEF Route

\* No step forgets a fault.
LEMMA FaultsGrow ==
    ASSUME [Next]_vars, faults \in Nat, faults' = 0
    PROVE  faults = 0
  <1>1. CASE UNCHANGED vars
    BY <1>1 DEF vars
  <1>2. CASE StripeStep
    BY <1>2 DEF StripeStep, CreateCheckout, CheckoutCompleted, TrialEnds,
          SubscriptionDeleted, PaymentFailed, PaymentSucceeded, StripeChange, Elsewhere
  <1>3. ASSUME NEW w \in Workers, HandlerStep(w) PROVE faults' = faults
    BY <1>3 DEF HandlerStep, Upsert, Route, Save, UpdateStatus, FindInvoice, SaveInvoice,
          PublishStatus, Mark, RecordError, Respond
  <1>4. ASSUME NEW t \in Tenants, ProvisionStep(t) PROVE faults' = faults
    BY <1>4 DEF ProvisionStep, CreateCustomer, CreateSubscription, PublishSynced
  <1>5. ASSUME NEW w \in Workers, NEW e \in EventIds, Deliver(w, e) PROVE faults' = faults
    BY <1>5 DEF Deliver
  <1>6. ~Crash /\ (\A w \in Workers : ~CallFails(w)) /\ (\A t \in Tenants : ~ProvisionFails(t))
    BY DEF Crash, CallFails, ProvisionFails
  <1> QED
    BY <1>1, <1>2, <1>3, <1>4, <1>5, <1>6 DEF Next

\* Every step that is not a fault keeps the order.
LEMMA OrderStep ==
    ASSUME SoundInv, BillingInv', InOrder, RowsVisible, [Next]_vars, faults = 0, faults' = 0
    PROVE  OrderInv'
  <1>1. /\ ~Crash /\ (\A w \in Workers : ~CallFails(w))
        /\ (\A t \in Tenants : ~ProvisionFails(t))
    BY DEF Crash, CallFails, ProvisionFails
  <1>2. ASSUME NEW w \in Workers, HandlerStep(w) PROVE OrderInv'
    <2>1. ~RecordError(w)
      BY DEF RecordError, SoundInv, OrderInv, Current, CurrentOf
    <2> QED
      BY <1>2, <2>1, PlainOrder, RouteOrder, WriteOrder, InvoiceOrder, RespondOrder
         DEF HandlerStep
  <1>3. CASE UNCHANGED vars
    <2>1. UNCHANGED <<customers, stripeSub, events, acked, processed, subscriptions, invoices,
                      workers>>
      BY <1>3 DEF vars, stripe, db, webhookEvents
    <2>2. LogKept /\ Len(events') \in Nat
      BY <2>1 DEF LogKept, SoundInv, BillingInv, TypeOK
    <2>3. Linked'
      BY <2>1 DEF SoundInv, OrderInv, Linked
    <2> QED
      BY <2>1, <2>2, <2>3, OutsideOrder
  <1> QED
    BY <1>1, <1>2, <1>3, StripeOrder, DeliverOrder, ProvisionOrder DEF Next

\* The order is kept as long as there was no fault.
THEOREM OrderInvariant ==
    ASSUME InOrder, RowsVisible PROVE Spec => [](faults = 0 => OrderInv)
  <1>1. Init => (faults = 0 => OrderInv)
    <2> SUFFICES ASSUME Init PROVE OrderInv
      OBVIOUS
    <2>1. \A w \in Workers : workers[w].pc = "idle"
      BY DEF Init, Idle
    <2>2. Turns
      BY <2>1 DEF Init, Turns
    <2>3. Current
      BY <2>1 DEF Current, CurrentOf, InvoiceSteps
    <2>4. Mirrored
      BY DEF Init, Mirrored
    <2>5. Linked
      BY DEF Init, Linked, NoSubscription
    <2> QED
      BY <2>2, <2>3, <2>4, <2>5 DEF OrderInv
  <1>2. BillingInv /\ BillingInv' /\ (faults = 0 => WholeInv) /\ LogInv /\
        (faults = 0 => OrderInv) /\ [Next]_vars
           => (faults = 0 => OrderInv)'
    <2> SUFFICES ASSUME BillingInv, BillingInv', faults = 0 => WholeInv, LogInv,
                        faults = 0 => OrderInv, [Next]_vars, faults' = 0
                 PROVE  OrderInv'
      OBVIOUS
    <2>1. faults = 0
      <3>1. faults \in Nat
        BY DEF BillingInv, TypeOK
      <3> QED
        BY <3>1, FaultsGrow
    <2> QED
      BY <2>1, OrderStep DEF SoundInv
  <1> QED
    BY <1>1, <1>2, BillingInvariant, WholeInvariant, LogInvariant, PTL DEF Spec

\* For a database role that sees the rows and a Stripe that sends an event after the
\* one before is answered: once all is answered and nothing failed, the status of a
\* linked subscription is the one it has at Stripe.
THEOREM MirrorsInOrder == ASSUME InOrder, RowsVisible PROVE Spec => []MirrorsStripe
  <1>1. BillingInv /\ (faults = 0 => WholeInv) /\ LogInv /\ (faults = 0 => OrderInv)
           => MirrorsStripe
    <2> SUFFICES ASSUME SoundInv, Quiescent, NEW t \in Tenants, subscriptions[t].sub # None
                 PROVE  subscriptions[t].status = stripeSub[subscriptions[t].sub]
      BY DEF SoundInv, MirrorsStripe, Quiescent
    <2> DEFINE c == subscriptions[t].sub
    <2>1. c \in CustomerIds /\ customers[c] = t /\ stripeSub[c] \in SubscriptionStatus
      BY DEF SoundInv, BillingInv, TypeOK, Subscription, OrderInv, Linked
    <2>2. PICK d \in 1 .. Len(events) : Last(events, d, Len(events), c) /\ events[d].status = stripeSub[c]
      BY <2>1 DEF SoundInv, LogInv, LogTells
    <2>3. SubEvent(events, d, c) /\ Applied(d)
      BY <2>2 DEF Last, Quiescent, Applied
    <2>4. \A k \in 1 .. Len(events) : SubEvent(events, k, c) /\ Applied(k) => k <= d
      <3>1. Len(events) \in Nat
        BY DEF SoundInv, BillingInv, TypeOK
      <3> QED
        BY <2>2, <3>1 DEF Last
    <2>5. subscriptions[customers[c]].status = events[d].status
      BY <2>1, <2>3, <2>4 DEF SoundInv, OrderInv, Mirrored
    <2> QED
      BY <2>1, <2>2, <2>5
  <1> QED
    BY <1>1, BillingInvariant, WholeInvariant, LogInvariant, OrderInvariant, PTL

=============================================================================
