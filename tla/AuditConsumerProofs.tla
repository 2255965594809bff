------------------------ MODULE AuditConsumerProofs ------------------------
(***************************************************************************)
(* The audit consumer loses no event and duplicates none without a fault,  *)
(* for every set of messages, prefetch, batch size and number of faults.   *)
(***************************************************************************)
EXTENDS AuditConsumer, FiniteSetTheorems, TLAPS

IInv == ConsumerInv /\ NoLoss

USE ConsumerAssumption DEF Kinds, Phases

\* Nothing is held, stored or lost before the first message is published.
LEMMA InitInv == Init => IInv
  <1> SUFFICES ASSUME Init PROVE IInv
    OBVIOUS
  <1> USE DEF Init
  <1>1. TypeOK
    <2>1. open \in BOOLEAN
      BY Zenon
    <2> QED
      BY <2>1 DEF TypeOK
  <1>2. Custody /\ AckedStored /\ NoLoss
    BY DEF Custody, AckedStored, NoLoss, Insertable
  <1>3. RowBudget
    BY DEF RowBudget, Chances, Live, Stale
  <1> QED
    BY <1>1, <1>2, <1>3 DEF IInv, ConsumerInv

\* A published message is new, so it has no row and no other copy.
LEMMA PublishStep ==
    ASSUME IInv, NEW m \in Messages, Publish(m)
    PROVE  IInv'
  <1> USE DEF IInv, ConsumerInv, TypeOK, Publish, consumer
  <1>1. TypeOK'
    OBVIOUS
  <1>2. Custody'
    BY DEF Custody
  <1>3. AckedStored'
    BY DEF AckedStored, Insertable
  <1>4. RowBudget'
    BY DEF RowBudget, Chances, Live, Stale, Custody
  <1>5. NoLoss'
    BY DEF NoLoss
  <1> QED
    BY <1>1, <1>2, <1>3, <1>4, <1>5

\* Delivery moves a message from ready to unacked.
LEMMA DeliverStep ==
    ASSUME IInv, NEW m \in Messages, Deliver(m)
    PROVE  IInv'
  <1> USE DEF IInv, ConsumerInv, TypeOK, Deliver
  <1>1. TypeOK'
    OBVIOUS
  <1>2. Custody'
    BY DEF Custody
  <1>3. AckedStored'
    BY DEF AckedStored, Insertable
  <1>4. RowBudget'
    BY DEF RowBudget, Chances, Live, Stale, Custody
  <1>5. NoLoss'
    BY DEF NoLoss
  <1> QED
    BY <1>1, <1>2, <1>3, <1>4, <1>5

\* A lost connection makes stale copies of unacked messages and pays with a fault.
LEMMA ConnectionLostStep ==
    ASSUME IInv, ConnectionLost
    PROVE  IInv'
  <1> USE DEF IInv, ConsumerInv, TypeOK, ConnectionLost
  <1>1. TypeOK'
    <2>1. open' \in BOOLEAN
      BY Zenon
    <2>2. faults' \in 0 .. MaxFaults
      OBVIOUS
    <2> QED
      BY <2>1, <2>2
  <1>2. Custody'
    BY DEF Custody
  <1>3. AckedStored'
    BY DEF AckedStored, Insertable
  <1>4. RowBudget'
    BY DEF RowBudget, Chances, Live, Stale, Custody
  <1>5. NoLoss'
    BY DEF NoLoss
  <1> QED
    BY <1>1, <1>2, <1>3, <1>4, <1>5

\* Connecting, and the triggers of a flush, move no message.
LEMMA ControlStep ==
    ASSUME IInv, Connect \/ Tick \/ ChannelClosed \/ BatchInsertFails
    PROVE  IInv'
  <1> USE DEF IInv, ConsumerInv, TypeOK, Connect, Tick, ChannelClosed, BatchInsertFails,
              broker
  <1>1. TypeOK'
    OBVIOUS
  <1>2. Custody'
    BY DEF Custody
  <1>3. AckedStored'
    BY DEF AckedStored, Insertable
  <1>4. RowBudget'
    BY DEF RowBudget, Chances, Live, Stale, Custody
  <1>5. NoLoss'
    BY DEF NoLoss
  <1> QED
    BY <1>1, <1>2, <1>3, <1>4, <1>5

\* The select loop discards only what is malformed.
LEMMA SelectStep ==
    ASSUME IInv, NEW m \in Messages, Discard(m) \/ Receive(m)
    PROVE  IInv'
  <1> USE DEF IInv, ConsumerInv, TypeOK, Discard, Receive, broker
  <1>1. TypeOK'
    OBVIOUS
  <1>2. Custody'
    BY DEF Custody
  <1>3. AckedStored'
    BY DEF AckedStored, Insertable
  <1>4. RowBudget'
    BY DEF RowBudget, Chances, Live, Stale, Custody
  <1>5. NoLoss'
    BY DEF NoLoss
  <1> QED
    BY <1>1, <1>2, <1>3, <1>4, <1>5

\* A committed insert spends the chance of each message of the batch.
LEMMA BatchInsertStep ==
    ASSUME IInv, BatchInsert
    PROVE  IInv'
  <1> USE DEF IInv, ConsumerInv, TypeOK, BatchInsert, broker, Inserted
  <1>1. TypeOK'
    OBVIOUS
  <1>2. Custody'
    BY DEF Custody
  <1>3. AckedStored'
    BY DEF AckedStored, Insertable
  <1>4. RowBudget'
    BY DEF RowBudget, Chances, Live, Stale, Custody
  <1>5. NoLoss'
    BY DEF NoLoss
  <1> QED
    BY <1>1, <1>2, <1>3, <1>4, <1>5

\* A commit whose answer is lost leaves the chance and pays with a fault.
LEMMA CommitAnswerLostStep ==
    ASSUME IInv, CommitAnswerLost
    PROVE  IInv'
  <1> USE DEF IInv, ConsumerInv, TypeOK, CommitAnswerLost, broker, Inserted
  <1>1. TypeOK'
    OBVIOUS
  <1>2. Custody'
    BY DEF Custody
  <1>3. AckedStored'
    BY DEF AckedStored, Insertable
  <1>4. RowBudget'
    BY DEF RowBudget, Chances, Live, Stale, Custody
  <1>5. NoLoss'
    BY DEF NoLoss
  <1> QED
    BY <1>1, <1>2, <1>3, <1>4, <1>5

\* An ack gives up a stored message; a nack gives it back to the queue.
LEMMA SettleStep ==
    ASSUME IInv, NEW m \in Messages, Ack(m) \/ Nack(m)
    PROVE  IInv'
  <1> USE DEF IInv, ConsumerInv, TypeOK, Ack, Nack, Settled
  <1>1. TypeOK'
    OBVIOUS
  <1>2. Custody'
    BY DEF Custody
  <1>3. AckedStored'
    BY DEF AckedStored, Insertable
  <1>4. RowBudget'
    BY DEF RowBudget, Chances, Live, Stale, Custody
  <1>5. NoLoss'
    BY DEF NoLoss, AckedStored, Insertable, Custody
  <1> QED
    BY <1>1, <1>2, <1>3, <1>4, <1>5

\* A crash requeues what was unacked and forgets every stale copy.
LEMMA CrashStep ==
    ASSUME IInv, Crash
    PROVE  IInv'
  <1> USE DEF IInv, ConsumerInv, TypeOK, Crash
  <1>1. TypeOK'
    <2>1. open' \in BOOLEAN
      BY Zenon
    <2>2. faults' \in 0 .. MaxFaults
      OBVIOUS
    <2> QED
      BY <2>1, <2>2
  <1>2. Custody'
    BY DEF Custody
  <1>3. AckedStored'
    BY DEF AckedStored, Insertable
  <1>4. RowBudget'
    BY DEF RowBudget, Chances, Live, Stale, Custody
  <1>5. NoLoss'
    BY DEF NoLoss
  <1> QED
    BY <1>1, <1>2, <1>3, <1>4, <1>5

\* Every step of the broker, the consumer and the environment keeps the invariant.
LEMMA StepInv == IInv /\ [Next]_vars => IInv'
  <1> SUFFICES ASSUME IInv, [Next]_vars PROVE IInv'
    OBVIOUS
  <1>1. CASE \E m \in Messages : Publish(m) \/ Deliver(m) \/ Discard(m) \/ Receive(m)
                                    \/ Ack(m) \/ Nack(m)
    BY <1>1, PublishStep, DeliverStep, SelectStep, SettleStep
  <1>2. CASE Connect \/ Tick \/ ChannelClosed \/ BatchInsertFails
    BY <1>2, ControlStep
  <1>3. CASE ConnectionLost \/ BatchInsert \/ CommitAnswerLost \/ Crash
    BY <1>3, ConnectionLostStep, BatchInsertStep, CommitAnswerLostStep, CrashStep
  <1>4. CASE UNCHANGED vars
    BY <1>4 DEF vars, broker, consumer, IInv, ConsumerInv, TypeOK, Custody, AckedStored,
                RowBudget, NoLoss, Insertable, Chances, Live, Stale
  <1> QED
    BY <1>1, <1>2, <1>3, <1>4 DEF Next

\* The inductive invariant: custody of every delivery, acks only behind inserts
\* (flush, audit_consumer.go) and the row budget hold in every reachable state.
THEOREM ConsumerInvariant == Spec => []ConsumerInv
  <1>1. Spec => []IInv
    BY InitInv, StepInv, PTL DEF Spec
  <1>2. IInv => ConsumerInv
    BY DEF IInv
  <1> QED
    BY <1>1, <1>2, PTL

\* flush acks only after BatchInsert committed and requeues otherwise: whatever
\* fails, a published event the database could accept is with the broker or stored.
THEOREM NothingLost == Spec => []NoLoss
  <1>1. Spec => []IInv
    BY InitInv, StepInv, PTL DEF Spec
  <1>2. IInv => NoLoss
    BY DEF IInv
  <1> QED
    BY <1>1, <1>2, PTL

\* Each lost connection, crash or lost commit answer adds at most one row per
\* event to audit.entries, however deliveries, drains and flushes interleave.
THEOREM DuplicatesPaid == Spec => []DuplicatesBounded
  <1>1. Spec => []IInv
    BY InitInv, StepInv, PTL DEF Spec
  <1>2. IInv => DuplicatesBounded
    BY DEF IInv, ConsumerInv, TypeOK, RowBudget, DuplicatesBounded, Chances, Live, Stale
  <1> QED
    BY <1>1, <1>2, PTL

-----------------------------------------------------------------------------
(* Bounds.                                                                 *)

\* The broker keeps to the QoS, and the select loop leaves before a batch outgrows its
\* size; once the channel is closed what the consumer holds only shrinks.
Bounded ==
    /\ PrefetchRespected
    /\ Cardinality(unacked) <= Prefetch
    /\ phase = "select" => Cardinality(batch) < BatchSize

\* Sets of messages are finite and ordered by their size.
LEMMA Sizes ==
    /\ \A S \in SUBSET Messages : IsFiniteSet(S) /\ Cardinality(S) \in Nat
    /\ \A S \in SUBSET Messages : \A T \in SUBSET S : Cardinality(T) <= Cardinality(S)
    /\ \A S \in SUBSET Messages : \A m \in Messages : Cardinality(S \cup {m}) <= Cardinality(S) + 1
    /\ Cardinality({}) = 0
  <1>1. \A S \in SUBSET Messages : IsFiniteSet(S) /\ Cardinality(S) \in Nat
    BY FS_Subset, FS_CardinalityType
  <1>2. \A S \in SUBSET Messages : \A T \in SUBSET S : Cardinality(T) <= Cardinality(S)
    BY <1>1, FS_Subset
  <1>3. \A S \in SUBSET Messages : \A m \in Messages : Cardinality(S \cup {m}) <= Cardinality(S) + 1
    <2> SUFFICES ASSUME NEW S \in SUBSET Messages, NEW m \in Messages
                 PROVE  Cardinality(S \cup {m}) <= Cardinality(S) + 1
      OBVIOUS
    <2>1. IsFiniteSet(S) /\ Cardinality(S) \in Nat
      BY <1>1
    <2>2. Cardinality(S \cup {m}) = IF m \in S THEN Cardinality(S) ELSE Cardinality(S) + 1
      BY <2>1, FS_AddElement
    <2> QED
      BY <2>1, <2>2
  <1> QED
    BY <1>1, <1>2, <1>3, FS_EmptySet

\* A step either shrinks what the broker and the consumer hold, or is the delivery or the
\* receipt of one message.
LEMMA BoundedStep == IInv /\ Bounded /\ [Next]_vars => Bounded'
  <1> SUFFICES ASSUME IInv, Bounded, [Next]_vars PROVE Bounded'
    OBVIOUS
  <1>0. TypeOK /\ Custody /\ TypeOK' /\ Custody'
    BY StepInv DEF IInv, ConsumerInv
  <1>1. /\ Cardinality(unacked) \in Nat /\ Cardinality(batch) \in Nat
        /\ Cardinality(batch \cup buffered) \in Nat
        /\ Cardinality(unacked') \in Nat /\ Cardinality(batch') \in Nat
        /\ Cardinality(batch' \cup buffered') \in Nat
    BY <1>0, Sizes DEF TypeOK
  <1>2. ASSUME batch' \cup buffered' \subseteq batch \cup buffered
        PROVE  Cardinality(batch' \cup buffered') <= Prefetch
    <2>1. Cardinality(batch' \cup buffered') <= Cardinality(batch \cup buffered)
      BY <1>0, <1>2, Sizes DEF TypeOK
    <2> QED
      BY <1>1, <2>1 DEF Bounded, PrefetchRespected
  <1>3. ASSUME unacked' \subseteq unacked
        PROVE  Cardinality(unacked') <= Prefetch
    <2>1. Cardinality(unacked') <= Cardinality(unacked)
      BY <1>0, <1>3, Sizes DEF TypeOK
    <2> QED
      BY <1>1, <2>1 DEF Bounded
  <1>4. ASSUME batch' \subseteq batch
        PROVE  /\ Cardinality(batch') <= BatchSize
               /\ phase = "select" => Cardinality(batch') < BatchSize
    <2>1. Cardinality(batch') <= Cardinality(batch)
      BY <1>0, <1>4, Sizes DEF TypeOK
    <2> QED
      BY <1>1, <2>1 DEF Bounded, PrefetchRespected
  <1>5. ASSUME NEW m \in Messages, Deliver(m)
        PROVE  Bounded'
    <2>1. /\ open' /\ unacked' = unacked \cup {m} /\ Cardinality(unacked) < Prefetch
          /\ UNCHANGED <<batch, phase>>
      BY <1>5 DEF Deliver
    <2>2. Cardinality(unacked') <= Prefetch
      <3>1. Cardinality(unacked') <= Cardinality(unacked) + 1
        BY <1>0, <2>1, Sizes DEF TypeOK
      <3> QED
        BY <1>1, <2>1, <3>1
    <2>3. Cardinality(batch' \cup buffered') <= Cardinality(unacked')
      BY <1>0, <2>1, Sizes DEF TypeOK, Custody
    <2>4. Cardinality(batch' \cup buffered') <= Prefetch
      BY <1>1, <2>2, <2>3
    <2> QED
      BY <2>1, <2>2, <2>4 DEF Bounded, PrefetchRespected
  <1>6. ASSUME NEW m \in Messages, Receive(m)
        PROVE  Bounded'
    <2>1. /\ phase = "select" /\ batch' = batch \cup {m} /\ unacked' = unacked
          /\ batch' \cup buffered' \subseteq batch \cup buffered
          /\ phase' = IF Cardinality(batch') >= BatchSize THEN "insert" ELSE "select"
      BY <1>6 DEF Receive, broker
    <2>2. Cardinality(batch') <= BatchSize
      <3>1. Cardinality(batch') <= Cardinality(batch) + 1
        BY <1>0, <2>1, Sizes DEF TypeOK
      <3> QED
        BY <1>1, <2>1, <3>1 DEF Bounded
    <2>3. phase' = "select" => Cardinality(batch') < BatchSize
      BY <1>1, <2>1
    <2> QED
      BY <1>2, <1>3, <2>1, <2>2, <2>3 DEF Bounded, PrefetchRespected
  <1>7. ASSUME NEW m \in Messages, Ack(m) \/ Nack(m)
        PROVE  Bounded'
    <2>1. /\ unacked' \subseteq unacked /\ batch' \subseteq batch
          /\ batch' \cup buffered' \subseteq batch \cup buffered
          /\ phase' = "select" => batch' = {}
      BY <1>7 DEF Ack, Nack, Settled
    <2>2. phase' = "select" => Cardinality(batch') < BatchSize
      BY <2>1, Sizes
    <2> QED
      BY <1>2, <1>3, <1>4, <2>1, <2>2 DEF Bounded, PrefetchRespected
  <1>8. CASE Connect
    <2>1. batch' = {} /\ buffered' = buffered /\ unacked' = unacked /\ batch = {}
      BY <1>0, <1>8 DEF Connect, Custody
    <2>2. Cardinality(batch') < BatchSize
      BY <2>1, Sizes
    <2> QED
      BY <1>2, <1>3, <1>4, <2>1, <2>2 DEF Bounded, PrefetchRespected
  <1>9. CASE \/ \E m \in Messages : Publish(m) \/ Discard(m)
             \/ ConnectionLost \/ Tick \/ ChannelClosed \/ BatchInsert \/ BatchInsertFails
             \/ CommitAnswerLost \/ Crash \/ UNCHANGED vars
    <2>1. /\ unacked' \subseteq unacked /\ batch' \subseteq batch
          /\ batch' \cup buffered' \subseteq batch \cup buffered
          /\ phase' = "select" => phase = "select"
      BY <1>9 DEF Publish, Discard, ConnectionLost, Tick, ChannelClosed, BatchInsert,
         BatchInsertFails, CommitAnswerLost, Crash, vars, broker, consumer
    <2> QED
      BY <1>2, <1>3, <1>4, <2>1 DEF Bounded, PrefetchRespected
  <1> QED
    BY <1>5, <1>6, <1>7, <1>8, <1>9 DEF Next

\* For any prefetch and batch size, the consumer holds no more deliveries than ch.Qos
\* allows, on an open channel and on one that closed under it, and no batch outgrows the
\* size that flushes it.
THEOREM HoldsWithinPrefetch == Spec => []PrefetchRespected
  <1>1. Init => Bounded
    BY Sizes DEF Init, Bounded, PrefetchRespected
  <1>2. Spec => []IInv
    BY InitInv, StepInv, PTL DEF Spec
  <1>3. Spec => []Bounded
    BY <1>1, <1>2, BoundedStep, PTL DEF Spec
  <1>4. Bounded => PrefetchRespected
    BY DEF Bounded
  <1> QED
    BY <1>3, <1>4, PTL

=============================================================================
