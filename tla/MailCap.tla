------------------------------- MODULE MailCap -------------------------------
(***************************************************************************)
(* The daily cap on emails                                                 *)
(* (packages/server/src/globals/infrastructure/email/quota and             *)
(* packages/identity/src/mail).                                            *)
(*                                                                         *)
(* Server and identity worker hold the same statement: it counts a send in *)
(* the day's row unless the row is at the cap.  The server runs it in the  *)
(* transaction that delivers an event, which keeps the row locked while    *)
(* the mail service is asked and takes the count back if it rolls back.    *)
(* The identity worker runs it on its own.  Each has a database of its     *)
(* own, and a row there.                                                   *)
(***************************************************************************)
EXTENDS Integers

CONSTANTS Delivery,    \* the server's deliveries of events in progress
          Request,     \* the identity worker's requests in progress
          Cap,         \* MAIL_DAILY_CAP
          LastDay,     \* bound: the days are 1 .. LastDay
          MaxAttempts, \* bound on the messages given to the mail service for one day
          None         \* "no send"

Day == 1 .. LastDay
Database == {"server", "identity"}
Sender == Delivery \union Request

(* day is current_date of the claim, in a transaction that of its start.   *)
Send == [day : Day, step : {"begun", "claimed", "accepted"}]

ASSUME SenderAssumption == Delivery \intersect Request = {}
ASSUME CapAssumption == Cap \in Nat
ASSUME BoundAssumption == LastDay \in Nat \ {0} /\ MaxAttempts \in Nat
ASSUME NoneAssumption == None \notin Send

VARIABLES
  today,    \* the databases' clock
  sent,     \* mail_daily_counts: the committed row of each day, 0 if there is none
  send,     \* send[s]: the send s is at
  attempts, \* history: messages given to the mail service, by the day they count for
  accepted, \* history: those of them that it took
  undone    \* history: those of them whose transaction rolled back afterwards

history == <<attempts, accepted, undone>>
vars == <<today, sent, send, history>>

Counts == [Database -> [Day -> Nat]]

TypeOK ==
  /\ today \in Day
  /\ send \in [Sender -> Send \union {None}]
  /\ sent \in Counts /\ attempts \in Counts /\ accepted \in Counts /\ undone \in Counts

Zero == [b \in Database |-> [d \in Day |-> 0]]

Init ==
  /\ today = 1
  /\ send = [s \in Sender |-> None]
  /\ sent = Zero /\ attempts = Zero /\ accepted = Zero /\ undone = Zero
-----------------------------------------------------------------------------
At(s, step) == send[s] # None /\ send[s].step = step

Goto(s, x) == send' = [send EXCEPT ![s] = x]

Plus1(count, b, d) == [count EXCEPT ![b][d] = @ + 1]

(* The day's row has a count to spare.                                     *)
Left(b, d) == sent[b][d] < Cap

(* Midnight.                                                               *)
NextDay ==
  /\ today < LastDay
  /\ today' = today + 1
  /\ UNCHANGED <<sent, send, history>>
-----------------------------------------------------------------------------
(* The server.                                                             *)

(* deliverOnce opens a transaction; the reaction reads before it sends.    *)
BeginDelivery(s) ==
  /\ send[s] = None
  /\ Goto(s, [day |-> today, step |-> "begun"])
  /\ UNCHANGED <<today, sent, history>>

(* Mutant: the row is read first and written at the end.                   *)
NeverLocked(s) == FALSE

(* The day's row is new or updated in a transaction that has not ended:    *)
(* the statement waits, and then looks at what is committed.               *)
Locked(s) == \E r \in Delivery \ {s} :
               send[r] # None /\ send[r].step # "begun" /\ send[r].day = send[s].day

ClaimInDelivery(s) ==
  /\ At(s, "begun") /\ ~Locked(s)
  /\ Left("server", send[s].day)
  /\ attempts["server"][send[s].day] < MaxAttempts
  /\ attempts' = Plus1(attempts, "server", send[s].day)
  /\ Goto(s, [send[s] EXCEPT !.step = "claimed"])
  /\ UNCHANGED <<today, sent, accepted, undone>>

(* The cap is reached: the delivery fails, to be retried.                  *)
Refuse(s) ==
  /\ At(s, "begun") /\ ~Locked(s)
  /\ ~Left("server", send[s].day)
  /\ Goto(s, None)
  /\ UNCHANGED <<today, sent, history>>

Accept(s, b) ==
  /\ At(s, "claimed")
  /\ accepted' = Plus1(accepted, b, send[s].day)
  /\ Goto(s, [send[s] EXCEPT !.step = "accepted"])
  /\ UNCHANGED <<today, sent, attempts, undone>>

(* The reaction is done; its count is kept.                                *)
CommitDelivery(s) ==
  /\ At(s, "accepted")
  /\ sent' = Plus1(sent, "server", send[s].day)
  /\ Goto(s, None)
  /\ UNCHANGED <<today, history>>

(* Mutant: the count is kept by a transaction of its own.                  *)
CountKept(s) ==
  IF send[s].step = "begun" THEN sent ELSE Plus1(sent, "server", send[s].day)

(* The count goes with the transaction.                                    *)
CountUndone(s) == sent

(* The mail service refuses, its answer is lost, the worker is killed, the *)
(* commit fails: the transaction rolls back.                               *)
RollBack(s) ==
  /\ send[s] # None
  /\ sent' = CountUndone(s)
  /\ undone' = IF send[s].step = "accepted" THEN Plus1(undone, "server", send[s].day) ELSE undone
  /\ Goto(s, None)
  /\ UNCHANGED <<today, attempts, accepted>>
-----------------------------------------------------------------------------
(* The identity worker.                                                    *)

(* The statement is a transaction of its own.  A refusal changes nothing.  *)
ClaimInRequest(s) ==
  /\ send[s] = None
  /\ Left("identity", today)
  /\ attempts["identity"][today] < MaxAttempts
  /\ attempts' = Plus1(attempts, "identity", today)
  /\ sent' = Plus1(sent, "identity", today)
  /\ Goto(s, [day |-> today, step |-> "claimed"])
  /\ UNCHANGED <<today, accepted, undone>>

(* It is sent, or refused, or the worker is killed.                        *)
EndRequest(s) ==
  /\ send[s] # None
  /\ Goto(s, None)
  /\ UNCHANGED <<today, sent, history>>
-----------------------------------------------------------------------------
Next ==
  \/ NextDay
  \/ \E s \in Delivery : \/ BeginDelivery(s) \/ ClaimInDelivery(s) \/ Refuse(s)
                         \/ Accept(s, "server") \/ CommitDelivery(s) \/ RollBack(s)
  \/ \E s \in Request : ClaimInRequest(s) \/ Accept(s, "identity") \/ EndRequest(s)

Spec == Init /\ [][Next]_vars
-----------------------------------------------------------------------------
(* Properties.                                                             *)

(* The identity worker never asks the mail service more than Cap times a   *)
(* day, whoever is killed between the count and the letter.  The server    *)
(* may, but what counts for a day and stays done is never more than Cap.   *)
CapHeldUnlessUndone ==
  \A d \in Day : /\ attempts["identity"][d] <= Cap
                /\ accepted["server"][d] - undone["server"][d] <= Cap

(* The server refuses a mail only when Cap others went out that day and    *)
(* their reactions are done: none that failed uses up the cap.             *)
RefusedOnlyWhenSpent ==
  [][\A s \in Delivery :
       LET d == send[s].day
       IN Refuse(s) => accepted["server"][d] - undone["server"][d] = Cap]_vars

Holding(s) == send[s] # None /\ send[s].step # "begun"
HeldFor(d) == \E s \in Delivery : Holding(s) /\ send[s].day = d
UsedOn(d) == sent["server"][d] + IF HeldFor(d) THEN 1 ELSE 0

(* Claims, commits and rollbacks of overlapping transactions come to one   *)
(* quota in the server, statements on their own to another in the identity *)
(* worker: what was let in and not given back is never more than the cap.  *)
Server == INSTANCE Quota WITH
  Returnable <- TRUE,
  used <- [d \in Day |-> UsedOn(d)],
  granted <- attempts["server"]
Identity == INSTANCE Quota WITH
  Returnable <- FALSE,
  used <- sent["identity"],
  granted <- attempts["identity"]
ImplementsQuota == Server!Spec /\ Identity!Spec

(* The inductive strengthening.                                            *)

HandedOver(d) == \E s \in Delivery : At(s, "accepted") /\ send[s].day = d

(* One transaction holds a day's row, and claimed the row's next count.    *)
RowSound ==
  /\ \A s, r \in Delivery : Holding(s) /\ Holding(r) /\ send[s].day = send[r].day => s = r
  /\ \A s \in Delivery : Holding(s) => Left("server", send[s].day)

(* What was accepted is committed, undone or in the transaction that holds *)
(* the row; the identity worker counts what it hands over.                 *)
CountSound ==
  /\ \A b \in Database, d \in Day : sent[b][d] <= Cap
  /\ \A d \in Day : accepted["server"][d] = sent["server"][d] + undone["server"][d]
                                             + IF HandedOver(d) THEN 1 ELSE 0
  /\ \A d \in Day : sent["identity"][d] = attempts["identity"][d]

IInv == TypeOK /\ RowSound /\ CountSound
=============================================================================
