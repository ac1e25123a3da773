------------------------------- MODULE Outbox -------------------------------
(***************************************************************************)
(* Durable after-commit delivery of domain events                          *)
(* (packages/server/src/globals/infrastructure/events).                    *)
(*                                                                         *)
(* A command's unit of work inserts one outbox row per after-commit        *)
(* subscription, in its own transaction.  After the commit the same        *)
(* invocation flushes the rows to a queue and records the attempt on each  *)
(* row; a cron sweeps the rows that were never recorded as relayed.  The   *)
(* queue redelivers until the consumer settles a message, and the consumer *)
(* claims the envelope in a ledger inside the handler's own transaction.   *)
(*                                                                         *)
(* A SQL statement and a call of the queue are one step each; every        *)
(* invocation may be killed between two steps.                             *)
(***************************************************************************)
EXTENDS Naturals, FiniteSets

CONSTANTS Envelope,    \* (event_id, handler) pairs, numbered by occurred_at
          Publisher,   \* units of work that dispatch events
          Emits,       \* Emits[p]: the envelopes p's events fan out to
          Sweeper,     \* invocations of the every-minute cron
          Consumer,    \* invocations of the queue handler
          Oversized,   \* envelopes above the queue's message size
          Unhandled,   \* envelopes a deployed version may lack the subscription of
          MaxAttempts, \* outbox-sweeper.ts MAX_ATTEMPTS
          BatchSize,   \* outbox-sweeper.ts BATCH_SIZE
          MaxRetries,  \* the queue consumer's maxRetries
          MaxFaults,   \* bound: killed invocations and platform duplicates
          None         \* "no message"

ASSUME EnvelopeAssumption == Envelope \subseteq Nat
ASSUME EmitsAssumption ==
    /\ Emits \in [Publisher -> SUBSET Envelope]
    /\ \A p, q \in Publisher : p # q => Emits[p] \intersect Emits[q] = {}
ASSUME SubsetAssumption == Oversized \subseteq Envelope /\ Unhandled \subseteq Envelope
ASSUME ProcessAssumption == Publisher \intersect Sweeper = {}
ASSUME BoundAssumption == /\ MaxAttempts \in Nat \ {0} /\ BatchSize \in Nat
                          /\ MaxRetries \in Nat /\ MaxFaults \in Nat
ASSUME NoneAssumption == None \notin [env : Envelope, attempts : Nat]

Flusher == Publisher \union Sweeper

Message == [env : Envelope, attempts : 1..(MaxRetries + 1)]

VARIABLES
  unit,        \* unit[p]: where p's unit of work is
  rows,        \* committed rows of platform.event_outbox
  relayed,     \* rows whose relayed_at is not NULL
  attempts,    \* the rows' attempts column
  young,       \* rows stamped (occurred_at, last_attempted_at) within staleAfter
  sending,     \* sending[w]: envelopes of w's flush not yet given to sendBatch
  undelivered, \* undelivered[w]: what queue.send reports as not sent
  recording,   \* recording[w]: envelopes whose attempt w has not recorded
  queue,       \* messages of the domain-events queue
  dead,        \* envelopes in the dead-letter queue
  reported,    \* envelopes reported to UnhandledFailures
  lease,       \* lease[c]: the message c is working on
  step,        \* step[c]: how far c got with it
  ledger,      \* committed rows of platform.event_deliveries
  effects,     \* committed executions of the handler
  sends,       \* outward calls (an email) of the handler, counted up to 2
  undone,      \* envelopes whose transaction rolled back after that call
  faults       \* faults so far

outboxVars == <<rows, relayed, attempts, young>>
flushVars == <<sending, undelivered, recording>>
queueVars == <<queue, dead>>
consumerVars == <<lease, step>>
effectVars == <<ledger, effects, sends, undone>>
vars == <<unit, outboxVars, flushVars, queueVars, reported, consumerVars, effectVars, faults>>

TypeOK ==
  /\ unit \in [Publisher -> {"idle", "open", "committed", "aborted"}]
  /\ rows \subseteq Envelope /\ relayed \subseteq Envelope /\ young \subseteq Envelope
  /\ attempts \in [Envelope -> Nat]
  /\ sending \in [Flusher -> SUBSET Envelope]
  /\ undelivered \in [Flusher -> SUBSET Envelope]
  /\ recording \in [Flusher -> SUBSET Envelope]
  /\ queue \subseteq Message /\ dead \subseteq Envelope /\ reported \subseteq Envelope
  /\ lease \in [Consumer -> Message \union {None}]
  /\ step \in [Consumer -> {"idle", "received", "claimed", "handled", "ack", "retry"}]
  /\ ledger \subseteq Envelope /\ undone \subseteq Envelope
  /\ effects \in [Envelope -> Nat]
  /\ sends \in [Envelope -> 0..2]
  /\ faults \in 0..MaxFaults

Init ==
  /\ unit = [p \in Publisher |-> "idle"]
  /\ rows = {} /\ relayed = {} /\ young = {}
  /\ attempts = [e \in Envelope |-> 0]
  /\ sending = [w \in Flusher |-> {}]
  /\ undelivered = [w \in Flusher |-> {}]
  /\ recording = [w \in Flusher |-> {}]
  /\ queue = {} /\ dead = {} /\ reported = {}
  /\ lease = [c \in Consumer |-> None]
  /\ step = [c \in Consumer |-> "idle"]
  /\ ledger = {} /\ undone = {}
  /\ effects = [e \in Envelope |-> 0]
  /\ sends = [e \in Envelope |-> 0]
  /\ faults = 0
-----------------------------------------------------------------------------
(* The publisher.                                                          *)

(* INSERT of the rows: theirs is the unit of work's transaction, so nobody *)
(* else sees them yet.                                                     *)
Enqueue(p) ==
  /\ unit[p] = "idle"
  /\ unit' = [unit EXCEPT ![p] = "open"]
  /\ UNCHANGED <<outboxVars, flushVars, queueVars, reported, consumerVars, effectVars, faults>>

(* Mutant: an oversized envelope is left out of what send returns.         *)
StartFlushForgettingOversized(w, work) ==
  /\ sending' = [sending EXCEPT ![w] = work \ Oversized]
  /\ undelivered' = [undelivered EXCEPT ![w] = {}]
  /\ recording' = [recording EXCEPT ![w] = work]

(* queue.send: oversized envelopes are undelivered from the outset.        *)
StartFlush(w, work) ==
  /\ sending' = [sending EXCEPT ![w] = work \ Oversized]
  /\ undelivered' = [undelivered EXCEPT ![w] = work \intersect Oversized]
  /\ recording' = [recording EXCEPT ![w] = work]

(* The transaction commits, and the invocation goes on to flush.           *)
Commit(p) ==
  /\ unit[p] = "open"
  /\ unit' = [unit EXCEPT ![p] = "committed"]
  /\ rows' = rows \union Emits[p]
  /\ young' = young \union Emits[p]
  /\ StartFlush(p, Emits[p])
  /\ UNCHANGED <<relayed, attempts, queueVars, reported, consumerVars, effectVars, faults>>

(* A failure of the handler, or a kill before the commit.                  *)
Abort(p) ==
  /\ unit[p] = "open"
  /\ unit' = [unit EXCEPT ![p] = "aborted"]
  /\ UNCHANGED <<outboxVars, flushVars, queueVars, reported, consumerVars, effectVars, faults>>
-----------------------------------------------------------------------------
(* Flushing: by the publisher's invocation or by a sweep.                  *)

Idle(w) == recording[w] = {}

NewMessages(B) == {[env |-> e, attempts |-> 1] : e \in B}

(* One sendBatch.  A batch that fails is undelivered as a whole, whether   *)
(* or not the queue had taken it.                                          *)
SendBatch(w) ==
  \E B \in SUBSET sending[w] \ {{}} :
    /\ sending' = [sending EXCEPT ![w] = @ \ B]
    /\ \/ /\ queue' = queue \union NewMessages(B)
          /\ UNCHANGED undelivered
       \/ /\ queue' \in {queue, queue \union NewMessages(B)}
          /\ undelivered' = [undelivered EXCEPT ![w] = @ \union B]
    /\ UNCHANGED <<unit, outboxVars, recording, dead, reported, consumerVars, effectVars, faults>>

(* Mutant: only a delivered attempt is counted.                            *)
CountDelivered(w, e) ==
  IF e \in undelivered[w] THEN attempts ELSE [attempts EXCEPT ![e] = @ + 1]

CountAttempt(w, e) == [attempts EXCEPT ![e] = @ + 1]

(* recordAttempt: relayed_at becomes now(), or NULL whatever it was.       *)
RecordAttempt(w) ==
  /\ sending[w] = {}
  /\ \E e \in recording[w] :
       /\ attempts' = CountAttempt(w, e)
       /\ young' = young \union {e}
       /\ relayed' = IF e \in undelivered[w] THEN relayed \ {e} ELSE relayed \union {e}
       /\ recording' = [recording EXCEPT ![w] = @ \ {e}]
       /\ undelivered' = [undelivered EXCEPT ![w] = @ \ {e}]
  /\ UNCHANGED <<unit, rows, sending, queueVars, reported, consumerVars, effectVars, faults>>

(* staleAfter passes since the row's last stamp.                           *)
Age(e) ==
  /\ e \in young
  /\ young' = young \ {e}
  /\ UNCHANGED <<unit, rows, relayed, attempts, flushVars, queueVars, reported,
                 consumerVars, effectVars, faults>>

(* Mutant: the sweep does not look at attempts.                            *)
ClaimableForever == rows \ (relayed \union young)

Claimable == {e \in rows \ (relayed \union young) : attempts[e] < MaxAttempts}

Oldest(n, S) == {e \in S : Cardinality({x \in S : x < e}) < n}

(* Rows a recordAttempt may hold locked; the sweep skips them.             *)
MayBeLocked == UNION {recording[w] : w \in {v \in Flusher : sending[v] = {}}}

(* sweepOutbox: stamp a batch of stale rows as the claim and flush it.     *)
Sweep(s) ==
  /\ Idle(s)
  /\ \E locked \in SUBSET MayBeLocked :
       LET claimed == Oldest(BatchSize, Claimable \ locked)
       IN /\ claimed # {}
          /\ young' = young \union claimed
          /\ StartFlush(s, claimed)
  /\ UNCHANGED <<unit, rows, relayed, attempts, queueVars, reported, consumerVars,
                 effectVars, faults>>

(* The flushing invocation is killed, or a recordAttempt dies.             *)
KillFlush(w) ==
  /\ ~Idle(w)
  /\ faults < MaxFaults
  /\ faults' = faults + 1
  /\ sending' = [sending EXCEPT ![w] = {}]
  /\ undelivered' = [undelivered EXCEPT ![w] = {}]
  /\ recording' = [recording EXCEPT ![w] = {}]
  /\ UNCHANGED <<unit, outboxVars, queueVars, reported, consumerVars, effectVars>>
-----------------------------------------------------------------------------
(* The consumer: one message of its batch at a time.                       *)

(* The queue hands a message out; at-least-once, so it may keep a copy.    *)
Receive(c) ==
  /\ step[c] = "idle"
  /\ \E m \in queue :
       /\ lease' = [lease EXCEPT ![c] = m]
       /\ \/ /\ queue' = queue \ {m}
             /\ UNCHANGED faults
          \/ /\ faults < MaxFaults
             /\ faults' = faults + 1
             /\ UNCHANGED queue
  /\ step' = [step EXCEPT ![c] = "received"]
  /\ UNCHANGED <<unit, outboxVars, flushVars, dead, reported, effectVars>>

InTransaction(c) == step[c] \in {"claimed", "handled"}

Envl(c) == lease[c].env

Goto(c, s) == step' = [step EXCEPT ![c] = s]

(* Mutant: the ledger is looked up, not inserted into, before the handler. *)
NeverWaits(c) == FALSE

AwaitsOther(c) == \E d \in Consumer : InTransaction(d) /\ Envl(d) = Envl(c)

(* deliverOnce: INSERT INTO event_deliveries ... ON CONFLICT DO NOTHING    *)
(* waits for a transaction that holds the same key.  A duplicate succeeds; *)
(* an envelope that this version has no subscription for is reported and   *)
(* acked.                                                                  *)
Claim(c) ==
  /\ step[c] = "received"
  /\ ~AwaitsOther(c)
  /\ \/ /\ Envl(c) \in ledger
        /\ Goto(c, "ack")
        /\ UNCHANGED reported
     \/ /\ Envl(c) \notin ledger
        /\ Envl(c) \in Unhandled
        /\ Goto(c, "ack")
        /\ reported' = reported \union {Envl(c)}
     \/ /\ Envl(c) \notin ledger
        /\ Goto(c, "claimed")
        /\ UNCHANGED reported
  /\ UNCHANGED <<unit, outboxVars, flushVars, queueVars, lease, effectVars, faults>>

(* The handler's outward call, inside the transaction.                     *)
Handle(c) ==
  /\ step[c] = "claimed"
  /\ Goto(c, "handled")
  /\ sends' = [sends EXCEPT ![Envl(c)] = IF @ = 2 THEN 2 ELSE @ + 1]
  /\ UNCHANGED <<unit, outboxVars, flushVars, queueVars, reported, lease, ledger, effects,
                 undone, faults>>

(* The claim and the handler's writes commit together; the commit's answer *)
(* may be lost, which the consumer takes for a failure.                    *)
CommitDelivery(c) ==
  /\ step[c] = "handled"
  /\ ledger' = ledger \union {Envl(c)}
  /\ effects' = [effects EXCEPT ![Envl(c)] = @ + 1]
  /\ \E s \in {"ack", "retry"} : Goto(c, s)
  /\ UNCHANGED <<unit, outboxVars, flushVars, queueVars, reported, lease, sends, undone, faults>>

(* What a rollback cannot take back.                                       *)
Rollback(c) ==
  undone' = IF step[c] = "handled" THEN undone \union {Envl(c)} ELSE undone

(* Mutant: every failure counts as undeliverable, and is acked.            *)
FailDeliveryAcking(c) ==
  /\ step[c] \in {"received", "claimed", "handled"}
  /\ Rollback(c)
  /\ Goto(c, "ack")
  /\ UNCHANGED <<unit, outboxVars, flushVars, queueVars, reported, lease, ledger, effects, sends,
                 faults>>

(* The handler fails or its transaction cannot start: roll back, retry.    *)
FailDelivery(c) ==
  /\ step[c] \in {"received", "claimed", "handled"}
  /\ Rollback(c)
  /\ Goto(c, "retry")
  /\ UNCHANGED <<unit, outboxVars, flushVars, queueVars, reported, lease, ledger, effects, sends,
                 faults>>

Settle(c) ==
  /\ step' = [step EXCEPT ![c] = "idle"]
  /\ lease' = [lease EXCEPT ![c] = None]

Ack(c) ==
  /\ step[c] = "ack"
  /\ Settle(c)
  /\ UNCHANGED <<unit, outboxVars, flushVars, queueVars, reported, effectVars, faults>>

(* The queue delivers a message once and retries it MaxRetries times.      *)
Redeliver(m) ==
  \/ /\ m.attempts <= MaxRetries
     /\ queue' = queue \union {[m EXCEPT !.attempts = @ + 1]}
     /\ UNCHANGED dead
  \/ /\ m.attempts > MaxRetries
     /\ dead' = dead \union {m.env}
     /\ UNCHANGED queue

Retry(c) ==
  /\ step[c] = "retry"
  /\ Redeliver(lease[c])
  /\ Settle(c)
  /\ UNCHANGED <<unit, outboxVars, flushVars, reported, effectVars, faults>>

(* The invocation is killed: its transaction rolls back, and a settlement  *)
(* it had not sent is lost.                                                *)
KillConsumer(c) ==
  /\ step[c] # "idle"
  /\ faults < MaxFaults
  /\ faults' = faults + 1
  /\ Rollback(c)
  /\ Redeliver(lease[c])
  /\ Settle(c)
  /\ UNCHANGED <<unit, outboxVars, flushVars, reported, ledger, effects, sends>>

(* reportDeadLetters.                                                      *)
ReportDeadLetter(e) ==
  /\ e \in dead
  /\ dead' = dead \ {e}
  /\ reported' = reported \union {e}
  /\ UNCHANGED <<unit, outboxVars, flushVars, queue, consumerVars, effectVars, faults>>
-----------------------------------------------------------------------------
PublisherStep(p) == Enqueue(p) \/ Commit(p) \/ Abort(p)
FlushStep(w) == SendBatch(w) \/ RecordAttempt(w)
ConsumerStep(c) == \/ Receive(c) \/ Claim(c) \/ Handle(c) \/ CommitDelivery(c)
                   \/ FailDelivery(c) \/ Ack(c) \/ Retry(c)

Next == \/ \E p \in Publisher : PublisherStep(p)
        \/ \E w \in Flusher : FlushStep(w) \/ KillFlush(w)
        \/ \E s \in Sweeper : Sweep(s)
        \/ \E e \in Envelope : Age(e) \/ ReportDeadLetter(e)
        \/ \E c \in Consumer : ConsumerStep(c) \/ KillConsumer(c)

Spec == Init /\ [][Next]_vars

(* An invocation runs on unless killed, crons recur, time passes, and the  *)
(* queue keeps handing out what it holds.  Commands owe nothing.           *)
Fairness == /\ \A w \in Flusher : WF_vars(FlushStep(w))
            /\ \A s \in Sweeper : WF_vars(Sweep(s))
            /\ \A e \in Envelope : WF_vars(Age(e)) /\ WF_vars(ReportDeadLetter(e))
            /\ \A c \in Consumer : WF_vars(ConsumerStep(c))

FairSpec == Spec /\ Fairness
-----------------------------------------------------------------------------
(* Properties.                                                             *)

InFlight(e) == \/ e \in dead
               \/ \E m \in queue : m.env = e
               \/ \E c \in Consumer : step[c] # "idle" /\ Envl(c) = e

(* Killing invocations, failing sends and redelivering never lose a        *)
(* committed reaction: until its handler has committed or a person was     *)
(* told, it is a message in flight, or a row that is not marked relayed,   *)
(* which the sweeper sees or, its attempts spent, an operator.  This is    *)
(* what the outbox row, undelivered and relayed_at exist for.              *)
NoReactionLost ==
  \A e \in rows \ (ledger \union reported) : e \in relayed => InFlight(e)

(* A handler repeats its outward call (an email) only when the transaction *)
(* around an earlier call rolled back: duplicate messages alone, however   *)
(* they interleave, repeat nothing.                                        *)
RepeatsOnlyAfterRollback == \A e \in Envelope : sends[e] = 2 => e \in undone

(* Consumers, ledger, queue and crashes together implement Reactions: a    *)
(* unit of work's reactions become due together, and take effect at most   *)
(* once, never before the commit and never after a rollback.               *)
Abstract == INSTANCE Reactions WITH published <- {p \in Publisher : unit[p] = "committed"}
ImplementsReactions == Abstract!Spec

(* Every committed reaction ends, and for good: it takes effect, is        *)
(* reported, or its row has spent MAX_ATTEMPTS and waits for an operator.  *)
Exhausted(e) == e \notin relayed /\ attempts[e] >= MaxAttempts
Settled(e) == e \in ledger \union reported \/ Exhausted(e)
EveryReactionSettles == \A e \in Envelope : <>[](e \in rows => Settled(e))

(* The inductive strengthening of the safety properties.                   *)

(* Everything in the pipeline belongs to a committed row.                  *)
OnlyCommitted ==
  /\ rows = UNION {Emits[p] : p \in {q \in Publisher : unit[q] = "committed"}}
  /\ ledger \subseteq rows /\ dead \subseteq rows
  /\ \A m \in queue : m.env \in rows
  /\ \A c \in Consumer : step[c] # "idle" => Envl(c) \in rows
  /\ \A w \in Flusher : recording[w] \subseteq rows /\ sending[w] \subseteq recording[w]

Leased == \A c \in Consumer : (lease[c] = None) <=> (step[c] = "idle")

(* The ledger's key admits one open transaction per envelope, and none     *)
(* once a delivery committed.                                              *)
OneClaim ==
  /\ \A c, d \in Consumer :
       InTransaction(c) /\ InTransaction(d) /\ Envl(c) = Envl(d) => c = d
  /\ \A c \in Consumer : InTransaction(c) => Envl(c) \notin ledger
  /\ \A e \in Envelope : effects[e] = IF e \in ledger THEN 1 ELSE 0

(* A sent envelope is accounted for, even before its attempt is recorded.  *)
Accounted(e) == e \in ledger \union reported \/ InFlight(e)
SentIsAccounted ==
  /\ \A w \in Flusher : \A e \in recording[w] \ (sending[w] \union undelivered[w]) : Accounted(e)
  /\ \A e \in relayed : Accounted(e)
  /\ \A c \in Consumer : step[c] = "ack" => Envl(c) \in ledger \union reported

(* A call that was made is in a live transaction, committed or undone.     *)
CallsExplained ==
  \A e \in Envelope :
    /\ sends[e] = 2 => e \in undone
    /\ sends[e] = 1 => \/ e \in ledger \union undone
                      \/ \E c \in Consumer : step[c] = "handled" /\ Envl(c) = e

IInv == TypeOK /\ OnlyCommitted /\ Leased /\ OneClaim /\ SentIsAccounted /\ CallsExplained

(* A row is "left for an operator rather than retried forever": the sweep  *)
(* reads attempts that flushes under way have not recorded yet, so that    *)
(* each of those may add one to MAX_ATTEMPTS, and no more.                 *)
AttemptsBounded == \A e \in Envelope : attempts[e] < MaxAttempts + Cardinality(Flusher)

Attempting(e) == {w \in Flusher : e \in recording[w]}
AttemptsSound ==
  \A e \in Envelope :
    /\ attempts[e] + Cardinality(Attempting(e)) < MaxAttempts + Cardinality(Flusher)
    /\ e \notin rows => attempts[e] = 0

(* Sweeping does not go on for ever, not even over an envelope that can    *)
(* never be sent.                                                          *)
FlushingEnds == <>[](\A w \in Flusher : Idle(w))
=============================================================================
