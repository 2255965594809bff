---------------------------- MODULE AuditConsumer ----------------------------
(***************************************************************************)
(* The audit service's consumer: from the durable queue audit.log-entry    *)
(* through the batch of StartConsumer into the table audit.entries.        *)
(*                                                                         *)
(* The broker keeps a delivered message as unacked until the channel acks  *)
(* or nacks it, and requeues every unacked message when the channel closes.*)
(* The client library buffers deliveries for the consumer's select loop,   *)
(* which is not read while flush runs.  A channel that closes under the    *)
(* consumer does not stop it: it still drains what the library hands it    *)
(* and flushes its batch, whose acks then go nowhere.                      *)
(***************************************************************************)
EXTENDS Integers, FiniteSets

CONSTANTS
    Messages,    \* audit events services publish
    Kind,        \* what the consumer makes of each message
    Prefetch,    \* ch.Qos: unacked messages per channel (100)
    BatchSize,   \* events that trigger a flush (100)
    MaxFaults    \* bound: lost channels, crashes and lost commit answers

\* "good" is stored; "noTenant" parses but has no valid tenantId; "malformed" is
\* not JSON; "poison" parses but the database refuses it (an action outside the
\* enum, a request id that is no UUID, a field that is too long).
Kinds == {"good", "noTenant", "malformed", "poison"}

ASSUME ConsumerAssumption ==
    /\ IsFiniteSet(Messages)
    /\ Kind \in [Messages -> Kinds]
    /\ Prefetch \in Nat \ {0} /\ BatchSize \in Nat \ {0} /\ MaxFaults \in Nat

VARIABLES
    sent,      \* messages published so far
    queue,     \* messages ready in audit.log-entry
    unacked,   \* messages delivered on the open channel and not settled
    open,      \* whether the consumer's channel is open
    buffered,  \* deliveries the client library holds for the select loop
    batch,     \* the consumer's batch and pending slices
    phase,     \* where the consumer is
    rows,      \* rows of audit.entries per message
    faults     \* faults so far

broker == <<sent, queue, unacked, open>>
consumer == <<buffered, batch, phase>>
vars == <<broker, consumer, rows, faults>>

Phases == {"down", "select", "insert", "ack", "nack"}

Init ==
    /\ sent = {} /\ queue = {} /\ unacked = {} /\ open = FALSE
    /\ buffered = {} /\ batch = {} /\ phase = "down"
    /\ rows = [m \in Messages |-> 0]
    /\ faults = 0

-----------------------------------------------------------------------------
(* The broker and the client library.                                      *)

Publish(m) ==
    /\ m \notin sent
    /\ sent' = sent \cup {m}
    /\ queue' = queue \cup {m}
    /\ UNCHANGED <<unacked, open, consumer, rows, faults>>

\* Mutant: the channel is opened without a QoS.
DeliverUnlimited(m) ==
    /\ open
    /\ m \in queue
    /\ queue' = queue \ {m}
    /\ unacked' = unacked \cup {m}
    /\ buffered' = buffered \cup {m}
    /\ UNCHANGED <<sent, open, batch, phase, rows, faults>>

Deliver(m) ==
    /\ open
    /\ m \in queue
    /\ Cardinality(unacked) < Prefetch
    /\ queue' = queue \ {m}
    /\ unacked' = unacked \cup {m}
    /\ buffered' = buffered \cup {m}
    /\ UNCHANGED <<sent, open, batch, phase, rows, faults>>

\* The connection breaks: the library may drop deliveries it still buffers.
ConnectionLost ==
    /\ open
    /\ faults < MaxFaults
    /\ faults' = faults + 1
    /\ open' = FALSE
    /\ queue' = queue \cup unacked
    /\ unacked' = {}
    /\ buffered' \in SUBSET buffered
    /\ UNCHANGED <<sent, batch, phase, rows>>

-----------------------------------------------------------------------------
(* StartWithReconnect and StartConsumer.                                   *)

\* Dial, open a channel, set QoS, declare the topology and consume; an attempt
\* that fails is retried after five seconds and changes nothing.
Connect ==
    /\ phase = "down"
    /\ phase' = "select"
    /\ open' = TRUE
    /\ UNCHANGED <<sent, queue, unacked, buffered, batch, rows, faults>>

\* A delivery: malformed ones are discarded, others join the batch.
Discard(m) ==
    /\ phase = "select"
    /\ m \in buffered
    /\ Kind[m] = "malformed"
    /\ buffered' = buffered \ {m}
    /\ unacked' = unacked \ {m}
    /\ UNCHANGED <<sent, queue, open, batch, phase, rows, faults>>

Receive(m) ==
    /\ phase = "select"
    /\ m \in buffered
    /\ Kind[m] # "malformed"
    /\ buffered' = buffered \ {m}
    /\ batch' = batch \cup {m}
    /\ phase' = IF Cardinality(batch') >= BatchSize THEN "insert" ELSE "select"
    /\ UNCHANGED <<broker, rows, faults>>

\* Mutant: the ticker, too, flushes full batches only.
TickFullOnly ==
    /\ phase = "select"
    /\ Cardinality(batch) >= BatchSize
    /\ phase' = "insert"
    /\ UNCHANGED <<broker, buffered, batch, rows, faults>>

Tick ==
    /\ phase = "select"
    /\ batch # {}
    /\ phase' = "insert"
    /\ UNCHANGED <<broker, buffered, batch, rows, faults>>

\* Mutant: the batch outlives the channel its delivery tags belong to.
ChannelClosedKeepsBatch ==
    /\ phase = "select"
    /\ ~open
    /\ buffered = {}
    /\ phase' = "down"
    /\ UNCHANGED <<broker, buffered, batch, rows, faults>>

\* The delivery channel is closed and drained: flush what is left and return.
ChannelClosed ==
    /\ phase = "select"
    /\ ~open
    /\ buffered = {}
    /\ phase' = IF batch = {} THEN "down" ELSE "insert"
    /\ UNCHANGED <<broker, buffered, batch, rows, faults>>

-----------------------------------------------------------------------------
(* flush and BatchInsert.                                                  *)

\* The rows of one committed transaction: events without tenant are skipped.
Inserted(ms) ==
    [m \in Messages |-> IF m \in ms /\ Kind[m] = "good" THEN rows[m] + 1 ELSE rows[m]]

Insertable(ms) == \A m \in ms : Kind[m] # "poison"

BatchInsert ==
    /\ phase = "insert"
    /\ Insertable(batch)
    /\ rows' = Inserted(batch)
    /\ phase' = "ack"
    /\ UNCHANGED <<broker, buffered, batch, faults>>

\* Mutant: the inserts before the failing one are not rolled back.
BatchInsertFailsHalfway ==
    /\ phase = "insert"
    /\ \E done \in SUBSET batch : rows' = Inserted(done)
    /\ phase' = "nack"
    /\ UNCHANGED <<broker, buffered, batch, faults>>

\* Any error rolls the whole batch back; one poison event is enough.
BatchInsertFails ==
    /\ phase = "insert"
    /\ phase' = "nack"
    /\ UNCHANGED <<broker, buffered, batch, rows, faults>>

\* The transaction commits but its answer is lost or comes after the 15 s
\* timeout: flush takes the batch for failed.
CommitAnswerLost ==
    /\ phase = "insert"
    /\ Insertable(batch)
    /\ faults < MaxFaults
    /\ faults' = faults + 1
    /\ rows' = Inserted(batch)
    /\ phase' = "nack"
    /\ UNCHANGED <<broker, buffered, batch>>

\* The settling loops: one delivery at a time; on a closed channel, where
\* nothing is unacked, acks and nacks have no effect and their error is ignored.
Settled(m) ==
    /\ m \in batch
    /\ batch' = batch \ {m}
    /\ unacked' = unacked \ {m}
    /\ UNCHANGED <<sent, open, buffered, rows, faults>>

Ack(m) ==
    /\ phase = "ack"
    /\ Settled(m)
    /\ phase' = IF batch' = {} THEN "select" ELSE "ack"
    /\ UNCHANGED queue

\* Mutant: a failed batch is discarded instead of requeued.
NackDiscards(m) ==
    /\ phase = "nack"
    /\ Settled(m)
    /\ phase' = IF batch' = {} THEN "select" ELSE "nack"
    /\ UNCHANGED queue

Nack(m) ==
    /\ phase = "nack"
    /\ Settled(m)
    /\ phase' = IF batch' = {} THEN "select" ELSE "nack"
    /\ queue' = IF open THEN queue \cup {m} ELSE queue

\* The process is killed or shut down (main does not wait for the consumer), or
\* exits because Consume failed; the next one starts from nothing.
Crash ==
    /\ phase # "down"
    /\ faults < MaxFaults
    /\ faults' = faults + 1
    /\ open' = FALSE
    /\ queue' = queue \cup unacked
    /\ unacked' = {}
    /\ buffered' = {}
    /\ batch' = {}
    /\ phase' = "down"
    /\ UNCHANGED <<sent, rows>>

-----------------------------------------------------------------------------
Next ==
    \/ \E m \in Messages :
          \/ Publish(m) \/ Deliver(m)
          \/ Discard(m) \/ Receive(m)
          \/ Ack(m) \/ Nack(m)
    \/ ConnectionLost \/ Connect \/ Tick \/ ChannelClosed
    \/ BatchInsert \/ BatchInsertFails \/ CommitAnswerLost
    \/ Crash

Spec == Init /\ [][Next]_vars

\* The consumer goroutine keeps running and its retry loop keeps dialing; the
\* broker delivers in queue order, so no message is passed over for ever; a
\* database that is asked again and again in the end commits what it accepts.
Fairness ==
    /\ WF_vars(Connect) /\ WF_vars(Tick) /\ WF_vars(ChannelClosed)
    /\ SF_vars(BatchInsert)
    /\ \A m \in Messages :
          /\ SF_vars(Deliver(m))
          /\ WF_vars(Discard(m)) /\ WF_vars(Receive(m))
          /\ WF_vars(Ack(m)) /\ WF_vars(Nack(m))
    /\ WF_vars(BatchInsert \/ BatchInsertFails)

FairSpec == Spec /\ Fairness

-----------------------------------------------------------------------------
(* Properties.                                                             *)

\* The types of the broker's, the consumer's and the table's state.
TypeOK ==
    /\ sent \subseteq Messages /\ queue \subseteq Messages /\ unacked \subseteq Messages
    /\ open \in BOOLEAN
    /\ buffered \subseteq Messages /\ batch \subseteq Messages
    /\ phase \in Phases
    /\ rows \in [Messages -> Nat]
    /\ faults \in 0 .. MaxFaults

\* "ack only after successful insert": whatever fails and in whatever order, an
\* event with a tenant that was published is still with the broker or has a row.
NoLoss ==
    \A m \in sent : Kind[m] \in {"good", "poison"} =>
        m \in queue \cup unacked \/ rows[m] > 0

\* Redelivery after a fault is the only source of duplicate rows: an event has
\* at most one row more than there were faults.
DuplicatesBounded ==
    \A m \in Messages : rows[m] <= 1 + faults

\* The consumer never holds more deliveries than the channel's QoS allows, even
\* while flush keeps the select loop from reading, and a batch never outgrows
\* the size that triggers its flush.
PrefetchRespected ==
    /\ Cardinality(batch \cup buffered) <= Prefetch
    /\ Cardinality(batch) <= BatchSize

\* On an open channel all the consumer holds is unacked, on a closed one nothing
\* is; a message is never ready and unacked, or buffered and batched, at once.
Custody ==
    /\ open => batch \cup buffered \subseteq unacked
    /\ ~open => unacked = {}
    /\ phase = "down" => ~open /\ batch = {} /\ buffered = {}
    /\ queue \cap unacked = {} /\ batch \cap buffered = {}
    /\ queue \cup unacked \cup batch \cup buffered \subseteq sent

\* What is being acked is stored.
AckedStored ==
    phase = "ack" =>
        /\ Insertable(batch)
        /\ \A m \in batch : Kind[m] = "good" => rows[m] > 0

\* How often a message can still be inserted: once from the broker's copy, unless
\* that is being acked, and once from a copy held since the channel closed.
Live(m) == m \in queue \cup unacked /\ ~(open /\ phase = "ack" /\ m \in batch)
Stale(m) == ~open /\ (m \in buffered \/ (m \in batch /\ phase # "ack"))
Chances(m) == (IF Live(m) THEN 1 ELSE 0) + (IF Stale(m) THEN 1 ELSE 0)

RowBudget ==
    /\ \A m \in Messages \ sent : rows[m] = 0
    /\ \A m \in Messages : rows[m] + Chances(m) <= 1 + faults

\* What makes the two bounds inductive: custody of every delivery across a closed
\* channel, acks behind the insert, and a row budget that counts stale copies.
ConsumerInv == TypeOK /\ Custody /\ AckedStored /\ RowBudget

\* Every event with a tenant is stored in the end once faults stop, even where a full
\* batch is all that the broker will deliver, unless an event was published that the
\* database refuses.
EventuallyStored ==
    \A m \in Messages :
        Kind[m] = "good" =>
            (m \in sent ~> rows[m] > 0 \/ \E p \in sent : Kind[p] = "poison")

=============================================================================
