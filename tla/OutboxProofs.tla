---------------------------- MODULE OutboxProofs ----------------------------
(***************************************************************************)
(* Proofs about Outbox, for every set of envelopes, publishers, sweepers   *)
(* and consumers and every bound: IInv is inductive, so the safety         *)
(* properties hold, and Outbox implements Reactions.                       *)
(***************************************************************************)
EXTENDS Outbox, FiniteSetTheorems, TLAPS

USE DEF outboxVars, flushVars, queueVars, consumerVars, effectVars, Goto, Envl

(* What sendBatch puts on the queue has the messages' type.                *)
LEMMA NewMessagesAreMessages ==
  ASSUME NEW B \in SUBSET Envelope PROVE NewMessages(B) \subseteq Message
BY BoundAssumption DEF NewMessages, Message

(* What a retry leaves in the queue or the DLQ is well typed.              *)
LEMMA RedeliverType ==
  ASSUME TypeOK, NEW m \in Message, Redeliver(m)
  PROVE  (queue \subseteq Message /\ dead \subseteq Envelope)'
<1>1. CASE m.attempts <= MaxRetries
  <2>1. /\ m.env \in Envelope /\ m.attempts + 1 \in 1..(MaxRetries + 1)
        /\ [m EXCEPT !.attempts = @ + 1] = [env |-> m.env, attempts |-> m.attempts + 1]
    BY <1>1, BoundAssumption DEF Message
  <2>2. [m EXCEPT !.attempts = @ + 1] \in Message
    BY <2>1 DEF Message
  <2>3. UNCHANGED dead BY <1>1, <2>1, BoundAssumption DEF Redeliver, Message
  <2> QED BY <1>1, <2>2, <2>3 DEF Redeliver, TypeOK
<1>2. CASE m.attempts > MaxRetries
  BY <1>2, BoundAssumption DEF Redeliver, TypeOK, Message
<1> QED BY <1>1, <1>2, BoundAssumption DEF Message

(* A busy consumer leases a message. *)
LEMMA BusyLease ==
  ASSUME TypeOK, Leased, NEW c \in Consumer, step[c] # "idle"
  PROVE  lease[c] \in Message /\ Envl(c) \in Envelope
<1>1. lease[c] \in Message BY DEF TypeOK, Leased
<1> QED BY <1>1 DEF Message

(* Every step keeps the types.                                             *)
LEMMA TypeStep == TypeOK /\ Leased /\ [Next]_vars => TypeOK'
<1> SUFFICES ASSUME TypeOK, Leased, [Next]_vars PROVE TypeOK' OBVIOUS
<1>1. ASSUME NEW p \in Publisher, Enqueue(p) PROVE TypeOK'
  BY <1>1 DEF Enqueue, TypeOK
<1>2. ASSUME NEW p \in Publisher, Commit(p) PROVE TypeOK'
  BY <1>2, EmitsAssumption DEF Commit, StartFlush, TypeOK, Flusher
<1>3. ASSUME NEW p \in Publisher, Abort(p) PROVE TypeOK'
  BY <1>3 DEF Abort, TypeOK
<1>4. ASSUME NEW w \in Flusher, SendBatch(w) PROVE TypeOK'
  <2>1. PICK B \in SUBSET sending[w] \ {{}} :
          /\ sending' = [sending EXCEPT ![w] = @ \ B]
          /\ undelivered' \in {undelivered, [undelivered EXCEPT ![w] = @ \union B]}
          /\ queue' \in {queue, queue \union NewMessages(B)}
    BY <1>4 DEF SendBatch
  <2>2. B \in SUBSET Envelope BY <2>1 DEF TypeOK
  <2>3. queue' \subseteq Message
    BY <2>1, <2>2, NewMessagesAreMessages DEF TypeOK
  <2>4. UNCHANGED <<unit, outboxVars, recording, dead, reported, consumerVars, effectVars, faults>>
    BY <1>4 DEF SendBatch
  <2>5. sending' \in [Flusher -> SUBSET Envelope] /\ undelivered' \in [Flusher -> SUBSET Envelope]
    BY <2>1, <2>2 DEF TypeOK
  <2> QED BY <2>3, <2>4, <2>5 DEF TypeOK
<1>5. ASSUME NEW w \in Flusher, RecordAttempt(w) PROVE TypeOK'
  BY <1>5 DEF RecordAttempt, CountAttempt, TypeOK
<1>6. ASSUME NEW w \in Flusher, KillFlush(w) PROVE TypeOK'
  BY <1>6, BoundAssumption DEF KillFlush, TypeOK
<1>7. ASSUME NEW s \in Sweeper, Sweep(s) PROVE TypeOK'
  <2>1. PICK claimed \in SUBSET rows : young' = young \union claimed /\ StartFlush(s, claimed)
    BY <1>7 DEF Sweep, Oldest, Claimable
  <2>2. UNCHANGED <<unit, rows, relayed, attempts, queueVars, reported, consumerVars,
                    effectVars, faults>>
    BY <1>7 DEF Sweep
  <2> QED BY <2>1, <2>2 DEF StartFlush, TypeOK, Flusher
<1>8. ASSUME NEW e \in Envelope, Age(e) PROVE TypeOK'
  BY <1>8 DEF Age, TypeOK
<1>9. ASSUME NEW e \in Envelope, ReportDeadLetter(e) PROVE TypeOK'
  BY <1>9 DEF ReportDeadLetter, TypeOK
<1>10. ASSUME NEW c \in Consumer, ConsumerStep(c) PROVE TypeOK'
  <2>1. CASE Receive(c)
    BY <2>1, BoundAssumption DEF Receive, TypeOK
  <2>2. CASE Claim(c)
    BY <2>2, BusyLease DEF Claim, TypeOK
  <2>3. CASE Handle(c)
    <3>1. Envl(c) \in Envelope BY <2>3, BusyLease DEF Handle
    <3>2. sends' \in [Envelope -> 0..2] BY <2>3, <3>1 DEF Handle, TypeOK
    <3> QED BY <2>3, <3>2 DEF Handle, TypeOK
  <2>4. CASE CommitDelivery(c)
    BY <2>4, BusyLease DEF CommitDelivery, TypeOK
  <2>5. CASE FailDelivery(c)
    BY <2>5, BusyLease DEF FailDelivery, Rollback, TypeOK
  <2>6. CASE Ack(c)
    BY <2>6 DEF Ack, Settle, TypeOK
  <2>7. CASE Retry(c)
    BY <2>7, BusyLease, RedeliverType DEF Retry, Settle, TypeOK
  <2> QED BY <1>10, <2>1, <2>2, <2>3, <2>4, <2>5, <2>6, <2>7 DEF ConsumerStep
<1>11. ASSUME NEW c \in Consumer, KillConsumer(c) PROVE TypeOK'
  BY <1>11, BusyLease, RedeliverType, BoundAssumption DEF KillConsumer, Settle, Rollback, TypeOK
<1>12. CASE UNCHANGED vars
  BY <1>12 DEF vars, TypeOK
<1> QED
  BY <1>1, <1>2, <1>3, <1>4, <1>5, <1>6, <1>7, <1>8, <1>9, <1>10, <1>11, <1>12
  DEF Next, PublisherStep, FlushStep
-----------------------------------------------------------------------------
(* Only a consumer's step touches the consumers and the effects.           *)
LEMMA ConsumerFrame ==
  [Next]_vars => \/ \E c \in Consumer : ConsumerStep(c) \/ KillConsumer(c)
                 \/ UNCHANGED <<consumerVars, effectVars>>
BY DEF Next, vars, PublisherStep, FlushStep, Enqueue, Commit, Abort, SendBatch, RecordAttempt,
       KillFlush, Sweep, Age, ReportDeadLetter

(* A consumer holds a message exactly while it works on one.               *)
LEMMA LeasedStep == TypeOK /\ Leased /\ [Next]_vars => Leased'
<1> SUFFICES ASSUME TypeOK, Leased, [Next]_vars PROVE Leased' OBVIOUS
<1>1. CASE UNCHANGED <<consumerVars, effectVars>>
  BY <1>1 DEF Leased
<1>2. ASSUME NEW c \in Consumer, Receive(c) PROVE Leased'
  <2>1. PICK m \in queue : lease' = [lease EXCEPT ![c] = m] BY <1>2 DEF Receive
  <2>2. m # None BY <2>1, NoneAssumption DEF TypeOK, Message
  <2> QED BY <1>2, <2>1, <2>2 DEF Receive, TypeOK, Leased
<1>3. ASSUME NEW c \in Consumer,
             Claim(c) \/ Handle(c) \/ CommitDelivery(c) \/ FailDelivery(c)
      PROVE  Leased'
  BY <1>3 DEF Claim, Handle, CommitDelivery, FailDelivery, TypeOK, Leased
<1>4. ASSUME NEW c \in Consumer, Ack(c) \/ Retry(c) \/ KillConsumer(c) PROVE Leased'
  BY <1>4 DEF Ack, Retry, KillConsumer, Settle, TypeOK, Leased
<1> QED BY <1>1, <1>2, <1>3, <1>4, ConsumerFrame DEF ConsumerStep

(* The ledger's key keeps deliveries of one envelope apart.                *)
LEMMA OneClaimStep == TypeOK /\ Leased /\ OneClaim /\ [Next]_vars => OneClaim'
<1> SUFFICES ASSUME TypeOK, Leased, OneClaim, [Next]_vars PROVE OneClaim' OBVIOUS
<1> USE DEF OneClaim, InTransaction
<1>1. CASE UNCHANGED <<consumerVars, effectVars>>
  BY <1>1
<1>2. ASSUME NEW c \in Consumer, Receive(c) \/ FailDelivery(c) PROVE OneClaim'
  BY <1>2 DEF Receive, FailDelivery, TypeOK
<1>3. ASSUME NEW c \in Consumer, Claim(c) PROVE OneClaim'
  BY <1>3 DEF Claim, AwaitsOther, TypeOK
<1>4. ASSUME NEW c \in Consumer, Handle(c) PROVE OneClaim'
  BY <1>4 DEF Handle, TypeOK
<1>5. ASSUME NEW c \in Consumer, CommitDelivery(c) PROVE OneClaim'
  <2>1. Envl(c) \in Envelope /\ Envl(c) \notin ledger
    BY <1>5, BusyLease DEF CommitDelivery
  <2>2. effects[Envl(c)] = 0 BY <2>1
  <2>3. \A e \in Envelope : effects'[e] = IF e \in ledger' THEN 1 ELSE 0
    BY <1>5, <2>1, <2>2 DEF CommitDelivery, TypeOK
  <2> QED BY <1>5, <2>3 DEF CommitDelivery, TypeOK
<1>6. ASSUME NEW c \in Consumer, Ack(c) \/ Retry(c) \/ KillConsumer(c) PROVE OneClaim'
  BY <1>6 DEF Ack, Retry, KillConsumer, Settle, TypeOK
<1> QED BY <1>1, <1>2, <1>3, <1>4, <1>5, <1>6, ConsumerFrame DEF ConsumerStep

(* Every outward call belongs to a transaction, alive or ended.            *)
LEMMA CallsExplainedStep ==
  TypeOK /\ Leased /\ OneClaim /\ CallsExplained /\ [Next]_vars => CallsExplained'
<1> SUFFICES ASSUME TypeOK, Leased, OneClaim, CallsExplained, [Next]_vars
             PROVE  CallsExplained'
    OBVIOUS
<1> USE DEF CallsExplained
<1>1. CASE UNCHANGED <<consumerVars, effectVars>>
  BY <1>1
<1>2. ASSUME NEW c \in Consumer, Receive(c) \/ Claim(c) PROVE CallsExplained'
  BY <1>2 DEF Receive, Claim, TypeOK
<1>3. ASSUME NEW c \in Consumer, Handle(c) PROVE CallsExplained'
  <2>1. /\ Envl(c) \in Envelope /\ Envl(c) \notin ledger
        /\ \A d \in Consumer : step[d] = "handled" => Envl(d) # Envl(c)
    BY <1>3, BusyLease DEF Handle, OneClaim, InTransaction
  <2>2. sends[Envl(c)] = 1 => Envl(c) \in undone BY <2>1
  <2>3. sends[Envl(c)] \in {0, 1, 2} BY <2>1 DEF TypeOK
  <2> QED BY <1>3, <2>1, <2>2, <2>3 DEF Handle, TypeOK
<1>4. ASSUME NEW c \in Consumer, CommitDelivery(c) PROVE CallsExplained'
  BY <1>4 DEF CommitDelivery, TypeOK
<1>5. ASSUME NEW c \in Consumer, FailDelivery(c) PROVE CallsExplained'
  BY <1>5 DEF FailDelivery, Rollback, TypeOK
<1>6. ASSUME NEW c \in Consumer, Ack(c) \/ Retry(c) PROVE CallsExplained'
  BY <1>6 DEF Ack, Retry, Settle, TypeOK
<1>7. ASSUME NEW c \in Consumer, KillConsumer(c) PROVE CallsExplained'
  BY <1>7 DEF KillConsumer, Rollback, Settle, TypeOK
<1> QED BY <1>1, <1>2, <1>3, <1>4, <1>5, <1>6, <1>7, ConsumerFrame DEF ConsumerStep
-----------------------------------------------------------------------------
(* The rows of the committed units of work.                                *)
CommittedRows == UNION {Emits[p] : p \in {q \in Publisher : unit[q] = "committed"}}

(* Only envelopes of committed rows are ever sent or consumed.             *)
LEMMA OnlyCommittedStep == TypeOK /\ Leased /\ OnlyCommitted /\ [Next]_vars => OnlyCommitted'
<1> SUFFICES ASSUME TypeOK, Leased, OnlyCommitted, [Next]_vars PROVE OnlyCommitted' OBVIOUS
<1> USE DEF OnlyCommitted
<1>1. ASSUME NEW p \in Publisher, Enqueue(p) \/ Abort(p) PROVE OnlyCommitted'
  <2>1. \A q \in Publisher : (unit'[q] = "committed") <=> (unit[q] = "committed")
    BY <1>1 DEF Enqueue, Abort, TypeOK
  <2>2. CommittedRows' = CommittedRows BY <2>1 DEF CommittedRows
  <2> QED BY <1>1, <2>2 DEF Enqueue, Abort, CommittedRows
<1>2. ASSUME NEW p \in Publisher, Commit(p) PROVE OnlyCommitted'
  <2>1. \A q \in Publisher : (unit'[q] = "committed") <=> (unit[q] = "committed" \/ q = p)
    BY <1>2 DEF Commit, TypeOK
  <2>2. CommittedRows' = CommittedRows \union Emits[p] BY <2>1 DEF CommittedRows
  <2>3. \A w \in Flusher : recording'[w] \subseteq rows' /\ sending'[w] \subseteq recording'[w]
    BY <1>2 DEF Commit, StartFlush, TypeOK, Flusher
  <2> QED BY <1>2, <2>2, <2>3 DEF Commit, CommittedRows
<1>3. ASSUME NEW w \in Flusher, SendBatch(w) PROVE OnlyCommitted'
  <2>1. PICK B \in SUBSET sending[w] :
          /\ sending' = [sending EXCEPT ![w] = @ \ B]
          /\ queue' \in {queue, queue \union NewMessages(B)}
    BY <1>3 DEF SendBatch
  <2>2. \A m \in NewMessages(B) : m.env \in rows BY <2>1 DEF NewMessages
  <2>3. \A m \in queue' : m.env \in rows BY <2>1, <2>2
  <2> QED BY <1>3, <2>1, <2>3 DEF SendBatch, TypeOK
<1>4. ASSUME NEW w \in Flusher, RecordAttempt(w) PROVE OnlyCommitted'
  BY <1>4 DEF RecordAttempt, TypeOK
<1>5. ASSUME NEW w \in Flusher, KillFlush(w) PROVE OnlyCommitted'
  BY <1>5 DEF KillFlush, TypeOK
<1>6. ASSUME NEW s \in Sweeper, Sweep(s) PROVE OnlyCommitted'
  <2>1. PICK claimed \in SUBSET rows : StartFlush(s, claimed)
    BY <1>6 DEF Sweep, Oldest, Claimable
  <2> QED BY <1>6, <2>1 DEF Sweep, StartFlush, TypeOK, Flusher
<1>7. ASSUME NEW e \in Envelope, Age(e) \/ ReportDeadLetter(e) PROVE OnlyCommitted'
  BY <1>7 DEF Age, ReportDeadLetter
<1>8. ASSUME NEW c \in Consumer, Receive(c) PROVE OnlyCommitted'
  BY <1>8 DEF Receive, TypeOK
<1>9. ASSUME NEW c \in Consumer, Claim(c) \/ Handle(c) \/ CommitDelivery(c) \/ FailDelivery(c)
      PROVE  OnlyCommitted'
  BY <1>9 DEF Claim, Handle, CommitDelivery, FailDelivery, TypeOK
<1>10. ASSUME NEW c \in Consumer, Ack(c) PROVE OnlyCommitted'
  BY <1>10 DEF Ack, Settle, TypeOK
<1>11. ASSUME NEW c \in Consumer, Retry(c) \/ KillConsumer(c) PROVE OnlyCommitted'
  <2>1. lease[c] \in Message /\ lease[c].env \in rows /\ Redeliver(lease[c])
    BY <1>11, BusyLease DEF Retry, KillConsumer
  <2>2. dead' \subseteq rows /\ \A m \in queue' : m.env \in rows
    BY <2>1 DEF Redeliver, Message
  <2> QED BY <1>11, <2>2 DEF Retry, KillConsumer, Settle, TypeOK
<1>12. CASE UNCHANGED vars
  BY <1>12 DEF vars
<1> QED
  BY <1>1, <1>2, <1>3, <1>4, <1>5, <1>6, <1>7, <1>8, <1>9, <1>10, <1>11, <1>12
  DEF Next, PublisherStep, FlushStep, ConsumerStep

(* Once accounted for, an envelope stays so: the queue never loses a       *)
(* message, and one leaves it only settled.                                *)
LEMMA AccountedStable ==
  ASSUME TypeOK, Leased, SentIsAccounted, [Next]_vars, NEW e \in Envelope, Accounted(e)
  PROVE  Accounted(e)'
<1> USE DEF Accounted, InFlight
<1>1. CASE e \in ledger \union reported
  <2>1. ledger \subseteq ledger' /\ reported \subseteq reported'
    BY DEF Next, vars, PublisherStep, FlushStep, ConsumerStep, Enqueue, Commit, Abort, SendBatch,
           RecordAttempt, KillFlush, Sweep, Age, ReportDeadLetter, Receive, Claim, Handle,
           CommitDelivery, FailDelivery, Ack, Retry, KillConsumer
  <2> QED BY <1>1, <2>1
<1>2. ASSUME InFlight(e), NEW c \in Consumer, Receive(c) PROVE Accounted(e)'
  BY <1>2 DEF Receive, TypeOK
<1>3. ASSUME InFlight(e), NEW c \in Consumer,
             Claim(c) \/ Handle(c) \/ CommitDelivery(c) \/ FailDelivery(c)
      PROVE  Accounted(e)'
  BY <1>3 DEF Claim, Handle, CommitDelivery, FailDelivery, TypeOK
<1>4. ASSUME InFlight(e), NEW c \in Consumer, Ack(c) PROVE Accounted(e)'
  BY <1>4 DEF Ack, Settle, TypeOK, SentIsAccounted
<1>5. ASSUME InFlight(e), NEW c \in Consumer, Retry(c) \/ KillConsumer(c) PROVE Accounted(e)'
  <2>1. lease[c] \in Message /\ Redeliver(lease[c])
    BY <1>5, BusyLease DEF Retry, KillConsumer
  <2>2. queue \subseteq queue' /\ dead \subseteq dead'
    BY <2>1 DEF Redeliver
  <2>3. lease[c].env \in dead' \/ \E m \in queue' : m.env = lease[c].env
    <3>1. CASE dead' = dead \union {lease[c].env} BY <3>1
    <3>2. CASE queue' = queue \union {[lease[c] EXCEPT !.attempts = @ + 1]}
      <4>1. [lease[c] EXCEPT !.attempts = @ + 1].env = lease[c].env BY <2>1 DEF Message
      <4> QED BY <3>2, <4>1
    <3> QED BY <2>1, <3>1, <3>2 DEF Redeliver
  <2>4. \A d \in Consumer \ {c} : lease'[d] = lease[d] /\ step'[d] = step[d]
    BY <1>5 DEF Retry, KillConsumer, Settle, TypeOK
  <2> QED BY <1>5, <2>2, <2>3, <2>4
<1>6. ASSUME InFlight(e), NEW d \in Envelope, ReportDeadLetter(d) PROVE Accounted(e)'
  BY <1>6 DEF ReportDeadLetter
<1>7. ASSUME InFlight(e), queue \subseteq queue', UNCHANGED <<dead, consumerVars>>
      PROVE  Accounted(e)'
  BY <1>7
<1>8. \/ \E c \in Consumer : ConsumerStep(c) \/ KillConsumer(c)
      \/ \E d \in Envelope : ReportDeadLetter(d)
      \/ queue \subseteq queue' /\ UNCHANGED <<dead, consumerVars>>
  BY DEF Next, vars, PublisherStep, FlushStep, Enqueue, Commit, Abort, SendBatch, RecordAttempt,
         KillFlush, Sweep, Age
<1> QED
  BY <1>1, <1>2, <1>3, <1>4, <1>5, <1>6, <1>7, <1>8 DEF ConsumerStep

(* What was sent stays accounted for until it is recorded, and after.      *)
LEMMA SentIsAccountedStep ==
  TypeOK /\ Leased /\ OnlyCommitted /\ SentIsAccounted /\ [Next]_vars => SentIsAccounted'
<1> SUFFICES ASSUME TypeOK, Leased, OnlyCommitted, SentIsAccounted, [Next]_vars
             PROVE  SentIsAccounted'
    OBVIOUS
<1> DEFINE Sent(w) == recording[w] \ (sending[w] \union undelivered[w])
<1>0. /\ \A w \in Flusher : Sent(w) \subseteq Envelope
      /\ relayed \subseteq Envelope
  BY DEF TypeOK
<1>1. \A e \in Envelope : Accounted(e) => Accounted(e)'
  BY AccountedStable
<1>2. \A w \in Flusher : \A e \in Sent(w) : Accounted(e)
  BY DEF SentIsAccounted
<1>3. \A e \in relayed : Accounted(e)
  BY DEF SentIsAccounted
(* The acks. *)
<1>4. \A c \in Consumer : step'[c] = "ack" => Envl(c)' \in ledger' \union reported'
  <2>1. ledger \subseteq ledger' /\ reported \subseteq reported'
    BY DEF Next, vars, PublisherStep, FlushStep, ConsumerStep, Enqueue, Commit, Abort, SendBatch,
           RecordAttempt, KillFlush, Sweep, Age, ReportDeadLetter, Receive, Claim, Handle,
           CommitDelivery, FailDelivery, Ack, Retry, KillConsumer
  <2>2. ASSUME NEW d \in Consumer, ConsumerStep(d) \/ KillConsumer(d)
        PROVE  \A c \in Consumer : step'[c] = "ack" => Envl(c)' \in ledger' \union reported'
    <3>1. \A c \in Consumer \ {d} : step'[c] = step[c] /\ lease'[c] = lease[c]
      BY <2>2 DEF ConsumerStep, Receive, Claim, Handle, CommitDelivery, FailDelivery, Ack, Retry,
                  KillConsumer, Settle, TypeOK
    <3>2. step'[d] = "ack" => Envl(d)' \in ledger' \union reported'
      BY <2>2 DEF ConsumerStep, Receive, Claim, Handle, CommitDelivery, FailDelivery, Ack, Retry,
                  KillConsumer, Settle, TypeOK
    <3> QED BY <2>1, <3>1, <3>2 DEF SentIsAccounted
  <2>3. CASE UNCHANGED <<consumerVars, effectVars>>
    BY <2>1, <2>3 DEF SentIsAccounted
  <2> QED BY <2>2, <2>3, ConsumerFrame
(* The flushes and relayed_at. *)
<1>5. ASSUME NEW p \in Publisher, Commit(p)
      PROVE  relayed' = relayed /\ \A w \in Flusher : Sent(w)' \subseteq Sent(w)
  BY <1>5, EmitsAssumption DEF Commit, StartFlush, TypeOK, Flusher
<1>6. ASSUME NEW s \in Sweeper, Sweep(s)
      PROVE  relayed' = relayed /\ \A w \in Flusher : Sent(w)' \subseteq Sent(w)
  <2>1. PICK claimed \in SUBSET rows : StartFlush(s, claimed)
    BY <1>6 DEF Sweep, Oldest, Claimable
  <2> QED BY <1>6, <2>1 DEF Sweep, StartFlush, TypeOK, Flusher
<1>7. ASSUME NEW w \in Flusher, KillFlush(w)
      PROVE  relayed' = relayed /\ \A v \in Flusher : Sent(v)' \subseteq Sent(v)
  BY <1>7 DEF KillFlush, TypeOK
<1>8. ASSUME NEW w \in Flusher, RecordAttempt(w)
      PROVE  /\ \A e \in relayed' : Accounted(e)
             /\ \A v \in Flusher : Sent(v)' \subseteq Sent(v)
  <2>1. PICK e \in recording[w] :
       /\ relayed' = IF e \in undelivered[w] THEN relayed \ {e} ELSE relayed \union {e}
       /\ recording' = [recording EXCEPT ![w] = @ \ {e}]
       /\ undelivered' = [undelivered EXCEPT ![w] = @ \ {e}]
    BY <1>8 DEF RecordAttempt
  <2>2. sending[w] = {} /\ sending' = sending BY <1>8 DEF RecordAttempt
  <2>3. e \notin undelivered[w] => e \in Sent(w) BY <2>1, <2>2
  <2>4. \A d \in relayed' : Accounted(d) BY <2>1, <2>3, <1>2, <1>3
  <2>5. \A v \in Flusher : Sent(v)' \subseteq Sent(v) BY <2>1, <2>2 DEF TypeOK
  <2> QED BY <2>4, <2>5
<1>9. ASSUME NEW w \in Flusher, SendBatch(w)
      PROVE  /\ relayed' = relayed
             /\ \A v \in Flusher : \A e \in Sent(v)' : e \in Sent(v) \/ Accounted(e)'
  <2>1. PICK B \in SUBSET sending[w] \ {{}} :
          /\ sending' = [sending EXCEPT ![w] = @ \ B]
          /\ \/ queue' = queue \union NewMessages(B) /\ undelivered' = undelivered
             \/ undelivered' = [undelivered EXCEPT ![w] = @ \union B]
    BY <1>9 DEF SendBatch
  <2>2. relayed' = relayed /\ recording' = recording BY <1>9 DEF SendBatch
  <2>3. CASE queue' = queue \union NewMessages(B) /\ undelivered' = undelivered
    <3>1. ASSUME NEW e \in B PROVE \E m \in queue' : m.env = e
      <4>1. [env |-> e, attempts |-> 1] \in queue' BY <2>3 DEF NewMessages
      <4> QED BY <4>1
    <3>2. \A e \in B : Accounted(e)' BY <3>1 DEF Accounted, InFlight
    <3>3. \A v \in Flusher : \A e \in Sent(v)' : e \in Sent(v) \/ e \in B
      BY <2>1, <2>2, <2>3 DEF TypeOK
    <3> QED BY <2>2, <3>2, <3>3
  <2>4. CASE undelivered' = [undelivered EXCEPT ![w] = @ \union B]
    BY <2>1, <2>2, <2>4 DEF TypeOK
  <2> QED BY <2>1, <2>3, <2>4
<1>10. \/ \E p \in Publisher : Commit(p)
       \/ \E s \in Sweeper : Sweep(s)
       \/ \E w \in Flusher : KillFlush(w) \/ RecordAttempt(w) \/ SendBatch(w)
       \/ UNCHANGED <<relayed, flushVars>>
  BY DEF Next, vars, PublisherStep, FlushStep, ConsumerStep, Enqueue, Abort, Age,
         ReportDeadLetter, Receive, Claim, Handle, CommitDelivery, FailDelivery, Ack, Retry,
         KillConsumer
<1>11. CASE UNCHANGED <<relayed, flushVars>>
  <2>1. \A w \in Flusher : Sent(w)' = Sent(w) BY <1>11
  <2> QED BY <1>0, <1>1, <1>2, <1>3, <1>4, <1>11, <2>1 DEF SentIsAccounted
<1>12. CASE /\ relayed' = relayed
            /\ \A w \in Flusher : \A e \in Sent(w)' : e \in Sent(w) \/ Accounted(e)'
  <2>1. \A e \in relayed' : Accounted(e)' BY <1>0, <1>1, <1>3, <1>12
  <2>2. \A w \in Flusher : \A e \in Sent(w)' : Accounted(e)' BY <1>0, <1>1, <1>2, <1>12
  <2> QED BY <1>4, <2>1, <2>2 DEF SentIsAccounted
<1>13. ASSUME NEW w \in Flusher, RecordAttempt(w) PROVE SentIsAccounted'
  <2>1. \A e \in relayed' : Accounted(e)'
    <3>1. relayed' \subseteq Envelope BY <1>13 DEF RecordAttempt, TypeOK
    <3> QED BY <3>1, <1>1, <1>8, <1>13
  <2>2. \A v \in Flusher : \A e \in Sent(v)' : Accounted(e)' BY <1>0, <1>1, <1>2, <1>8, <1>13
  <2> QED BY <1>4, <2>1, <2>2 DEF SentIsAccounted
<1> QED BY <1>5, <1>6, <1>7, <1>9, <1>10, <1>11, <1>12, <1>13
-----------------------------------------------------------------------------
(* The initial states satisfy the inductive invariant.                     *)
LEMMA IInvInit == Init => IInv
<1> SUFFICES ASSUME Init PROVE IInv OBVIOUS
<1>1. TypeOK BY BoundAssumption DEF Init, TypeOK
<1>2. OnlyCommitted BY DEF Init, OnlyCommitted
<1>3. Leased BY DEF Init, Leased
<1>4. OneClaim BY DEF Init, OneClaim, InTransaction
<1>5. SentIsAccounted BY DEF Init, SentIsAccounted
<1>6. CallsExplained BY DEF Init, CallsExplained
<1> QED BY <1>1, <1>2, <1>3, <1>4, <1>5, <1>6 DEF IInv

(* IInv is inductive, hence an invariant.                                  *)
THEOREM Invariance == Spec => []IInv
<1>1. IInv /\ [Next]_vars => IInv'
  BY TypeStep, LeasedStep, OneClaimStep, CallsExplainedStep, OnlyCommittedStep,
     SentIsAccountedStep DEF IInv
<1> QED BY IInvInit, <1>1, PTL DEF Spec

(* The variables keep their types.                                         *)
THEOREM TypeCorrectness == Spec => []TypeOK
<1>1. IInv => TypeOK BY DEF IInv
<1> QED BY Invariance, <1>1, PTL

(* A committed reaction whose row the sweeper no longer sees is still on   *)
(* its way, done, or reported, whatever is killed, fails or is redelivered.*)
THEOREM NothingLost == Spec => []NoReactionLost
<1>1. IInv => NoReactionLost
  BY DEF IInv, NoReactionLost, SentIsAccounted, Accounted
<1> QED BY Invariance, <1>1, PTL

(* Duplicate messages repeat no outward call; only a rollback does.        *)
THEOREM NoNeedlessRepeat == Spec => []RepeatsOnlyAfterRollback
<1>1. IInv => RepeatsOnlyAfterRollback
  BY DEF IInv, RepeatsOnlyAfterRollback, CallsExplained
<1> QED BY Invariance, <1>1, PTL

(* The pipeline implements its promise: due at the commit, all together,   *)
(* and in effect at most once.                                             *)
THEOREM Refinement == Spec => ImplementsReactions
<1> DEFINE committed == {p \in Publisher : unit[p] = "committed"}
<1>1. Init => Abstract!Init
  BY DEF Init, Abstract!Init
<1>2. IInv /\ [Next]_vars => [Abstract!Next]_(Abstract!vars)
  <2> SUFFICES ASSUME IInv, [Next]_vars PROVE [Abstract!Next]_(Abstract!vars) OBVIOUS
  <2> USE DEF Abstract!Next, Abstract!vars
  <2>0. TypeOK /\ OnlyCommitted /\ Leased /\ OneClaim BY DEF IInv
  <2>1. ASSUME NEW p \in Publisher, Commit(p) PROVE [Abstract!Next]_(Abstract!vars)
    <3>1. p \notin committed /\ committed' = committed \union {p}
      BY <2>0, <2>1 DEF Commit, TypeOK
    <3>2. Abstract!Publish(p) BY <2>1, <3>1 DEF Commit, Abstract!Publish
    <3> QED BY <3>2
  <2>2. ASSUME NEW c \in Consumer, CommitDelivery(c) PROVE [Abstract!Next]_(Abstract!vars)
    <3>1. Envl(c) \in Envelope BY <2>0, <2>2, BusyLease DEF CommitDelivery
    <3>2. Envl(c) \in Abstract!Due
      BY <2>0, <2>2 DEF CommitDelivery, OnlyCommitted, Abstract!Due
    <3>3. effects[Envl(c)] = 0
      BY <2>0, <2>2, <3>1 DEF CommitDelivery, OneClaim, InTransaction
    <3>4. Abstract!React(Envl(c))
      BY <2>2, <3>2, <3>3 DEF CommitDelivery, Abstract!React
    <3> QED BY <3>1, <3>4
  <2>3. ASSUME NEW p \in Publisher, Enqueue(p) \/ Abort(p) PROVE committed' = committed
    BY <2>0, <2>3 DEF Enqueue, Abort, TypeOK
  <2>4. \/ \E p \in Publisher : PublisherStep(p)
        \/ \E c \in Consumer : CommitDelivery(c)
        \/ UNCHANGED <<unit, effects>>
    BY DEF Next, vars, FlushStep, ConsumerStep, SendBatch, RecordAttempt, KillFlush, Sweep, Age,
           ReportDeadLetter, Receive, Claim, Handle, FailDelivery, Ack, Retry, KillConsumer
  <2>5. ASSUME NEW p \in Publisher, Enqueue(p) \/ Abort(p)
        PROVE [Abstract!Next]_(Abstract!vars)
    <3>1. UNCHANGED effects BY <2>5 DEF Enqueue, Abort
    <3> QED BY <2>3, <2>5, <3>1
  <2>6. CASE UNCHANGED <<unit, effects>>
    BY <2>6
  <2> QED BY <2>1, <2>2, <2>4, <2>5, <2>6 DEF PublisherStep
<1> QED BY <1>1, <1>2, Invariance, PTL DEF Spec, ImplementsReactions, Abstract!Spec
-----------------------------------------------------------------------------
(* The bound on attempts.  An attempt is counted when it is recorded, so   *)
(* that what is bounded is the count with the attempts under way.          *)

(* No step but an attempt's own brings an envelope among those attempted.  *)
LEMMA FewerAttempting ==
  ASSUME IsFiniteSet(Flusher), NEW e \in Envelope, Attempting(e)' \subseteq Attempting(e)
  PROVE  /\ Cardinality(Attempting(e)) \in Nat /\ Cardinality(Attempting(e)') \in Nat
         /\ Cardinality(Attempting(e)') =< Cardinality(Attempting(e))
<1>1. IsFiniteSet(Attempting(e)) BY FS_Subset DEF Attempting
<1>2. IsFiniteSet(Attempting(e)') /\ Cardinality(Attempting(e)') =< Cardinality(Attempting(e))
  BY <1>1, FS_Subset
<1> QED BY <1>1, <1>2, FS_CardinalityType

(* However many flushes have it, there are no more than flushers.          *)
LEMMA AttemptingFlushers ==
  ASSUME IsFiniteSet(Flusher), NEW e \in Envelope
  PROVE  /\ Cardinality(Attempting(e)) \in Nat /\ Cardinality(Flusher) \in Nat
         /\ Cardinality(Attempting(e)) =< Cardinality(Flusher)
<1>1. Attempting(e) \in SUBSET Flusher BY DEF Attempting
<1>2. IsFiniteSet(Attempting(e)) /\ Cardinality(Attempting(e)) =< Cardinality(Flusher)
  BY <1>1, FS_Subset
<1> QED BY <1>2, FS_CardinalityType

(* A flush that starts over W adds w to those attempting the ones of W.    *)
LEMMA StartKeepsOthers ==
  ASSUME TypeOK, NEW w \in Flusher, NEW W, StartFlush(w, W), NEW e \in Envelope \ W
  PROVE  Attempting(e)' \subseteq Attempting(e)
BY DEF TypeOK, StartFlush, Attempting

LEMMA AttemptsStep ==
  ASSUME IsFiniteSet(Flusher), IInv, AttemptsSound, [Next]_vars
  PROVE  AttemptsSound'
<1> DEFINE Bound == MaxAttempts + Cardinality(Flusher)
<1>0. Bound \in Nat /\ MaxAttempts \in Nat \ {0} /\ TypeOK /\ OnlyCommitted
  BY FS_CardinalityType, BoundAssumption DEF IInv
<1> SUFFICES ASSUME NEW e \in Envelope
             PROVE  /\ attempts'[e] + Cardinality(Attempting(e)') < Bound
                    /\ e \notin rows' => attempts'[e] = 0
  BY DEF AttemptsSound
<1>1. /\ attempts[e] \in Nat /\ attempts[e] + Cardinality(Attempting(e)) < Bound
      /\ e \notin rows => attempts[e] = 0
  BY <1>0 DEF TypeOK, AttemptsSound
<1> HIDE DEF Bound
(* The envelope is not attempted anew.                                     *)
<1>2. CASE /\ attempts'[e] = attempts[e] /\ rows \subseteq rows'
           /\ Attempting(e)' \subseteq Attempting(e)
  BY <1>0, <1>1, <1>2, FewerAttempting
<1>3. ASSUME NEW p \in Publisher, Commit(p)
      PROVE  /\ attempts'[e] + Cardinality(Attempting(e)') < Bound
             /\ e \notin rows' => attempts'[e] = 0
  <2>1. p \in Flusher /\ StartFlush(p, Emits[p]) /\ rows' = rows \union Emits[p] /\ attempts' = attempts
    BY <1>3 DEF Commit, Flusher
  <2>2. CASE e \in Emits[p]
    <3>1. e \notin rows
      <4>1. \A q \in Publisher : unit[q] = "committed" => e \notin Emits[q]
        BY <1>3, <2>2, EmitsAssumption DEF Commit
      <4> QED BY <1>0, <4>1 DEF OnlyCommitted
    <3>2. Cardinality(Attempting(e)') \in Nat /\ Cardinality(Attempting(e)') =< Cardinality(Flusher)
          /\ Cardinality(Flusher) \in Nat
      <4>1. Attempting(e)' \in SUBSET Flusher BY DEF Attempting
      <4> QED BY <4>1, FS_Subset, FS_CardinalityType
    <3> QED BY <1>0, <1>1, <2>1, <2>2, <3>1, <3>2 DEF Bound
  <2>3. CASE e \notin Emits[p] BY <1>0, <1>2, <2>1, <2>3, StartKeepsOthers
  <2> QED BY <2>2, <2>3
<1>4. ASSUME NEW s \in Sweeper, Sweep(s)
      PROVE  /\ attempts'[e] + Cardinality(Attempting(e)') < Bound
             /\ e \notin rows' => attempts'[e] = 0
  <2>1. PICK claimed \in SUBSET Claimable : StartFlush(s, claimed)
    BY <1>4 DEF Sweep, Oldest
  <2>2. s \in Flusher /\ rows' = rows /\ attempts' = attempts BY <1>4 DEF Sweep, Flusher
  <2>3. CASE e \in claimed
    <3>1. attempts[e] < MaxAttempts /\ e \in rows BY <2>1, <2>3 DEF Claimable
    <3>2. Cardinality(Attempting(e)') \in Nat /\ Cardinality(Attempting(e)') =< Cardinality(Flusher)
          /\ Cardinality(Flusher) \in Nat
      <4>1. Attempting(e)' \in SUBSET Flusher BY DEF Attempting
      <4> QED BY <4>1, FS_Subset, FS_CardinalityType
    <3> QED BY <1>0, <1>1, <2>2, <3>1, <3>2 DEF Bound
  <2>4. CASE e \notin claimed BY <1>0, <1>2, <2>1, <2>2, <2>4, StartKeepsOthers
  <2> QED BY <2>3, <2>4
(* What is recorded is counted and no longer under way.                    *)
<1>5. ASSUME NEW w \in Flusher, RecordAttempt(w)
      PROVE  /\ attempts'[e] + Cardinality(Attempting(e)') < Bound
             /\ e \notin rows' => attempts'[e] = 0
  <2>1. PICK d \in recording[w] : /\ attempts' = [attempts EXCEPT ![d] = @ + 1]
                                  /\ recording' = [recording EXCEPT ![w] = @ \ {d}]
    BY <1>5 DEF RecordAttempt, CountAttempt
  <2>2. rows' = rows BY <1>5 DEF RecordAttempt
  <2>3. CASE e = d
    <3>1. Attempting(e)' = Attempting(e) \ {w} /\ w \in Attempting(e)
      BY <1>0, <2>1, <2>3 DEF Attempting, TypeOK
    <3>2. IsFiniteSet(Attempting(e)) /\ Cardinality(Attempting(e)) \in Nat
      <4>1. Attempting(e) \in SUBSET Flusher BY DEF Attempting
      <4> QED BY <4>1, FS_Subset, FS_CardinalityType
    <3>3. Cardinality(Attempting(e)') = Cardinality(Attempting(e)) - 1
      BY <3>1, <3>2, FS_RemoveElement
    <3>4. attempts'[e] = attempts[e] + 1 BY <1>0, <2>1, <2>3 DEF TypeOK
    <3>5. e \in rows BY <1>0, <2>1, <2>3 DEF OnlyCommitted
    <3> QED BY <1>0, <1>1, <2>2, <3>2, <3>3, <3>4, <3>5
  <2>4. CASE e # d
    <3>1. attempts'[e] = attempts[e] /\ Attempting(e)' \subseteq Attempting(e)
      BY <1>0, <2>1, <2>4 DEF Attempting, TypeOK
    <3> QED BY <1>2, <2>2, <3>1
  <2> QED BY <2>3, <2>4
<1>6. ASSUME NEW w \in Flusher, KillFlush(w)
      PROVE  attempts' = attempts /\ rows' = rows /\ Attempting(e)' \subseteq Attempting(e)
  BY <1>0, <1>6 DEF KillFlush, Attempting, TypeOK
<1>7. CASE UNCHANGED <<rows, attempts, recording>> BY <1>2, <1>7 DEF Attempting
<1> QED
  BY <1>2, <1>3, <1>4, <1>5, <1>6, <1>7
  DEF Next, PublisherStep, FlushStep, ConsumerStep, Enqueue, Abort, SendBatch, Age, ReportDeadLetter,
      Receive, Claim, Handle, CommitDelivery, FailDelivery, Ack, Retry, KillConsumer, vars

(* A row that cannot be delivered is not attempted for ever, whichever     *)
(* flushes overlap (outbox-sweeper.ts MAX_ATTEMPTS).                       *)
THEOREM BoundedAttempts == IsFiniteSet(Flusher) => (Spec => []AttemptsBounded)
<1> SUFFICES ASSUME IsFiniteSet(Flusher) PROVE Spec => []AttemptsBounded OBVIOUS
<1>1. Init => AttemptsSound
  <2> SUFFICES ASSUME Init, NEW e \in Envelope
               PROVE  attempts[e] + Cardinality(Attempting(e)) < MaxAttempts + Cardinality(Flusher)
                      /\ attempts[e] = 0
    BY DEF AttemptsSound
  <2>1. attempts[e] = 0 BY DEF Init
  <2> QED BY <2>1, AttemptingFlushers, BoundAssumption
<1>2. IInv /\ AttemptsSound /\ [Next]_vars => AttemptsSound' BY AttemptsStep
<1>3. IInv /\ AttemptsSound => AttemptsBounded
  <2> SUFFICES ASSUME IInv, AttemptsSound, NEW e \in Envelope
               PROVE  attempts[e] < MaxAttempts + Cardinality(Flusher)
    BY DEF AttemptsBounded
  <2>1. attempts[e] \in Nat BY DEF IInv, TypeOK
  <2> QED BY <2>1, AttemptingFlushers, BoundAssumption DEF AttemptsSound
<1> QED BY <1>1, <1>2, <1>3, Invariance, PTL DEF Spec
=============================================================================
