------------------------------- MODULE Billing -------------------------------
(***************************************************************************)
(* Subscriptions of organizations, kept in step with Stripe                *)
(* (packages/server/src/modules/billing).                                  *)
(*                                                                         *)
(* Starting and cancelling call Stripe outside the transaction that then   *)
(* writes the local row, so a request may die between the two.  Stripe     *)
(* reports every change in a webhook, at least once and in any order; a    *)
(* webhook is claimed by its event id and applied in one transaction.      *)
(***************************************************************************)
EXTENDS Naturals

CONSTANTS Org,        \* organizations
          Sub,        \* Stripe subscriptions; bound: as many as are ever created
          Live,       \* Stripe's statuses other than "canceled"
          Period,     \* values of current_period_end
          Caller,     \* start and cancel requests
          Worker,     \* webhook requests
          MaxVersion, \* bound: states of a subscription before its cancellation
          NoRow,      \* "no such row"
          None        \* "no request"

Status == Live \union {"canceled"}
Version == 1..(MaxVersion + 1)
Row == [sub : Sub, status : Status, period : Period]
StripeSub == [org : Org, status : Status, period : Period, version : Version]

(* A webhook: the state a subscription reached.  (sub, version) stands for *)
(* Stripe's event id.                                                      *)
Event == [sub : Sub, version : Version, status : Status, period : Period]

(* A cancellation keeps the row it read; dated is history.                 *)
StartCall == [cmd : {"start"}, org : Org]
InsertCall == [cmd : {"insert"}, org : Org, row : [sub : Sub, status : Live, period : Period]]
CancelCall == [cmd : {"cancel", "flip"}, org : Org, sub : Sub, period : Period, dated : Version]
Call == StartCall \union InsertCall \union CancelCall
Delivery == [event : Event, found : Org \union {NoRow}]

ASSUME LiveAssumption == "canceled" \notin Live
ASSUME BoundAssumption == MaxVersion \in Nat \ {0}
ASSUME NoRowAssumption == NoRow \notin Row \union StripeSub \union Org
ASSUME NoneAssumption == None \notin Call \union Delivery

VARIABLES
  stripe,    \* Stripe's own records
  events,    \* webhooks Stripe has to deliver, or has delivered
  rows,      \* billing.subscriptions, unique by organization
  recorded,  \* billing.webhook_events
  call,      \* call[c]: the request c is at
  ingest,    \* ingest[w]: w's open transaction
  seen,      \* history: seen[s]: the version of s last written to its row
  dated,     \* history: dated[s]: the version of s whose period end its row has
  reordered  \* history: subscriptions of which a newer webhook was overtaken or dropped

history == <<seen, dated, reordered>>
vars == <<stripe, events, rows, recorded, call, ingest, history>>

TypeOK ==
  /\ stripe \in [Sub -> StripeSub \union {NoRow}]
  /\ events \subseteq Event /\ recorded \subseteq events
  /\ rows \in [Org -> Row \union {NoRow}]
  /\ call \in [Caller -> Call \union {None}]
  /\ ingest \in [Worker -> Delivery \union {None}]
  /\ seen \in [Sub -> 0..(MaxVersion + 1)] /\ dated \in [Sub -> 0..(MaxVersion + 1)]
  /\ reordered \subseteq Sub

Init ==
  /\ stripe = [s \in Sub |-> NoRow]
  /\ events = {} /\ recorded = {}
  /\ rows = [o \in Org |-> NoRow]
  /\ call = [c \in Caller |-> None]
  /\ ingest = [w \in Worker |-> None]
  /\ seen = [s \in Sub |-> 0] /\ dated = seen /\ reordered = {}
-----------------------------------------------------------------------------
(* Stripe.                                                                 *)

IsLive(s) == stripe[s] # NoRow /\ stripe[s].status # "canceled"

EventOf(s, x) == [sub |-> s, version |-> x.version, status |-> x.status, period |-> x.period]

(* s becomes x, and Stripe has that to tell.                               *)
Announce(s, x) ==
  /\ stripe' = [stripe EXCEPT ![s] = x]
  /\ events' = events \union {EventOf(s, x)}

Become(s, status, period) ==
  Announce(s, [stripe[s] EXCEPT !.status = status, !.period = period, !.version = @ + 1])

(* A payment fails, a period ends, somebody cancels in the dashboard.      *)
Change(s, status, period) ==
  /\ IsLive(s) /\ stripe[s].version < MaxVersion
  /\ <<status, period>> # <<stripe[s].status, stripe[s].period>>
  /\ Become(s, status, period)
  /\ UNCHANGED <<rows, recorded, call, ingest, history>>
-----------------------------------------------------------------------------
(* startSubscription.                                                      *)

At(c, cmd) == call[c] # None /\ call[c].cmd = cmd

Goto(c, x) == call' = [call EXCEPT ![c] = x]

(* The look-up that stops a retry.                                         *)
ReadStart(c, o) ==
  /\ call[c] = None
  /\ rows[o] = NoRow
  /\ Goto(c, [cmd |-> "start", org |-> o])
  /\ UNCHANGED <<stripe, events, rows, recorded, ingest, history>>

CreateUpstream(c) ==
  /\ At(c, "start")
  /\ \E s \in Sub, status \in Live, period \in Period :
       /\ stripe[s] = NoRow
       /\ Announce(s, [org |-> call[c].org, status |-> status, period |-> period, version |-> 1])
       /\ Goto(c, [cmd |-> "insert", org |-> call[c].org,
                   row |-> [sub |-> s, status |-> status, period |-> period]])
  /\ UNCHANGED <<rows, recorded, ingest, history>>

(* Mutant: the insert overwrites on conflict.                              *)
NoConflict(o) == TRUE

(* The unique organization_id; on a conflict the request fails.            *)
Vacant(o) == rows[o] = NoRow

Insert(c) ==
  /\ At(c, "insert")
  /\ Vacant(call[c].org)
  /\ rows' = [rows EXCEPT ![call[c].org] = call[c].row]
  /\ seen' = [seen EXCEPT ![call[c].row.sub] = 1]
  /\ dated' = [dated EXCEPT ![call[c].row.sub] = 1]
  /\ Goto(c, None)
  /\ UNCHANGED <<stripe, events, recorded, ingest, reordered>>
-----------------------------------------------------------------------------
(* cancelSubscription.                                                     *)

ReadCancel(c, o) ==
  /\ call[c] = None
  /\ rows[o] # NoRow
  /\ Goto(c, [cmd |-> "cancel", org |-> o, sub |-> rows[o].sub, period |-> rows[o].period,
              dated |-> dated[rows[o].sub]])
  /\ UNCHANGED <<stripe, events, rows, recorded, ingest, history>>

(* Stripe refuses to cancel what is canceled; the request fails then.      *)
CancelUpstream(c) ==
  /\ At(c, "cancel")
  /\ IsLive(call[c].sub)
  /\ Become(call[c].sub, "canceled", stripe[call[c].sub].period)
  /\ Goto(c, [call[c] EXCEPT !.cmd = "flip"])
  /\ UNCHANGED <<rows, recorded, ingest, history>>

(* Mutant: the local row is canceled whatever Stripe answered.             *)
AskedUpstream(c) == At(c, "cancel") \/ At(c, "flip")

CanceledUpstream(c) == At(c, "flip")

(* The row that was read, canceled, is written back, its period end too.   *)
Flip(c) ==
  /\ CanceledUpstream(c)
  /\ rows' = [rows EXCEPT ![call[c].org].status = "canceled", ![call[c].org].period = call[c].period]
  /\ dated' = [dated EXCEPT ![call[c].sub] = call[c].dated]
  /\ Goto(c, None)
  /\ UNCHANGED <<stripe, events, recorded, ingest, seen, reordered>>

(* The gateway or the database fails, the insert conflicts, or the         *)
(* invocation dies: what Stripe did stays.                                 *)
Fail(c) ==
  /\ call[c] # None
  /\ Goto(c, None)
  /\ UNCHANGED <<stripe, events, rows, recorded, ingest, history>>
-----------------------------------------------------------------------------
(* ingestStripeWebhook.                                                    *)

(* Mutant: the event id is looked up, not inserted.                        *)
NotHeld(e) == FALSE

(* The insert of the event id waits for a transaction that inserted it.    *)
HeldByOther(e) == \E w \in Worker : ingest[w] # None /\ ingest[w].event = e

(* The organization whose row has this stripe_subscription_id.             *)
Found(s) == {o \in Org : rows[o] # NoRow /\ rows[o].sub = s}

(* Claim the event and look for its row.  A recorded event is answered     *)
(* without effect.                                                         *)
Claim(w, e) ==
  /\ ingest[w] = None
  /\ e \notin recorded /\ ~HeldByOther(e)
  /\ \/ /\ Found(e.sub) = {}
        /\ ingest' = [ingest EXCEPT ![w] = [event |-> e, found |-> NoRow]]
     \/ \E o \in Found(e.sub) : ingest' = [ingest EXCEPT ![w] = [event |-> e, found |-> o]]
  /\ UNCHANGED <<stripe, events, rows, recorded, call, history>>

(* Mutant: customer.subscription.deleted is not subscribed to.             *)
SyncedUnlessDeleted(row, e) ==
  IF e.status = "canceled" THEN row ELSE [row EXCEPT !.status = e.status, !.period = e.period]

(* Mutant: the word of customer.subscription.deleted is not translated.    *)
SyncedVerbatim(row, e) ==
  [row EXCEPT !.status = IF e.status = "canceled" THEN "deleted" ELSE e.status, !.period = e.period]

(* applyStatus: Stripe's word, whatever the row says.                      *)
Synced(row, e) == [row EXCEPT !.status = e.status, !.period = e.period]

CommitIngest(w) ==
  /\ ingest[w] # None
  /\ LET e == ingest[w].event
         o == ingest[w].found
     IN /\ recorded' = recorded \union {e}
        /\ IF o = NoRow
           THEN /\ reordered' = IF e.version > 1 THEN reordered \union {e.sub} ELSE reordered
                /\ UNCHANGED <<rows, seen, dated>>
           ELSE /\ rows' = [rows EXCEPT ![o] = Synced(@, e)]
                /\ seen' = [seen EXCEPT ![e.sub] = e.version]
                /\ dated' = [dated EXCEPT ![e.sub] = e.version]
                /\ reordered' = IF e.version < seen[e.sub] THEN reordered \union {e.sub}
                                ELSE reordered
  /\ ingest' = [ingest EXCEPT ![w] = None]
  /\ UNCHANGED <<stripe, events, call>>

(* The claim is rolled back with the rest, and Stripe retries.             *)
AbortIngest(w) ==
  /\ ingest[w] # None
  /\ ingest' = [ingest EXCEPT ![w] = None]
  /\ UNCHANGED <<stripe, events, rows, recorded, call, history>>
-----------------------------------------------------------------------------
Request(c) ==
  \/ \E o \in Org : ReadStart(c, o) \/ ReadCancel(c, o)
  \/ CreateUpstream(c) \/ Insert(c) \/ CancelUpstream(c) \/ Flip(c) \/ Fail(c)

Webhook(w) == (\E e \in events : Claim(w, e)) \/ CommitIngest(w) \/ AbortIngest(w)

Next == \/ \E c \in Caller : Request(c)
        \/ \E w \in Worker : Webhook(w)
        \/ \E s \in Sub, status \in Status, period \in Period : Change(s, status, period)

Spec == Init /\ [][Next]_vars
-----------------------------------------------------------------------------
(* Properties.                                                             *)

(* However often and concurrently Stripe delivers a webhook, it is applied *)
(* once: an open transaction never holds an event that took effect, and no *)
(* two hold the same (ingest-stripe-webhook.handler.ts: subscribers "never *)
(* fire twice for the same delivery").                                     *)
AppliedOnce ==
  \A w \in Worker : ingest[w] # None =>
    /\ ingest[w].event \notin recorded
    /\ \A v \in Worker : ingest[v] # None /\ ingest[v].event = ingest[w].event => v = w

(* Nobody is shown a canceled subscription that Stripe still charges.      *)
CanceledMeansCanceled ==
  \A o \in Org : rows[o] # NoRow /\ rows[o].status = "canceled" =>
    stripe[rows[o].sub].status = "canceled"

(* Racing starts may create two Stripe subscriptions, but the row keeps    *)
(* the one it was inserted with.                                           *)
FirstStartWins ==
  [][\A o \in Org : rows[o] # NoRow => rows'[o] # NoRow /\ rows'[o].sub = rows[o].sub]_vars

(* Once every webhook of a subscription was taken in, none of them         *)
(* overtaken by a newer one or before the row, its row has Stripe's        *)
(* status, whichever cancellations ran across.  It has Stripe's period end *)
(* too, unless a cancellation wrote the one back that it had read before   *)
(* it called Stripe, over that of a webhook.                               *)
TakenIn(s) == \A e \in events : e.sub = s => e \in recorded
InSyncUnlessReordered ==
  \A o \in Org : LET s == rows[o].sub IN
    rows[o] # NoRow /\ TakenIn(s) /\ s \notin reordered =>
      /\ rows[o].status = stripe[s].status
      /\ dated[s] = seen[s] => rows[o].period = stripe[s].period

(* The inductive strengthening.                                            *)

(* Stripe announced every state once, the current one too; canceled is     *)
(* final.                                                                  *)
StripeSound ==
  /\ \A s \in Sub : stripe[s] # NoRow =>
       /\ EventOf(s, stripe[s]) \in events
       /\ stripe[s].status # "canceled" => stripe[s].version =< MaxVersion
  /\ \A e \in events :
       /\ stripe[e.sub] # NoRow /\ e.version =< stripe[e.sub].version
       /\ e.status = "canceled" => stripe[e.sub].status = "canceled"
       /\ \A f \in events : f.sub = e.sub /\ f.version = e.version => f = e

HasRow(s) == \E o \in Org : rows[o] # NoRow /\ rows[o].sub = s

(* Version v of s had status, or period.                                   *)
HadStatus(s, v, status) == \E e \in events : e.sub = s /\ e.version = v /\ e.status = status
HadPeriod(s, v, period) == \E e \in events : e.sub = s /\ e.version = v /\ e.period = period

(* A subscription about to be inserted is in no row and no other request;  *)
(* a cancellation is about the row's subscription, and has a period end of *)
(* its.                                                                    *)
CallSound ==
  \A c \in Caller :
    /\ At(c, "insert") =>
         LET x == call[c].row
         IN /\ HadStatus(x.sub, 1, x.status) /\ HadPeriod(x.sub, 1, x.period)
            /\ ~HasRow(x.sub)
            /\ \A d \in Caller : At(d, "insert") /\ call[d].row.sub = x.sub => d = c
    /\ At(c, "cancel") \/ At(c, "flip") =>
         /\ rows[call[c].org] # NoRow /\ rows[call[c].org].sub = call[c].sub
         /\ HadPeriod(call[c].sub, call[c].dated, call[c].period)
    /\ At(c, "flip") => stripe[call[c].sub] # NoRow /\ stripe[call[c].sub].status = "canceled"

IngestSound ==
  \A w \in Worker : ingest[w] # None =>
    /\ ingest[w].event \in events
    /\ ingest[w].found # NoRow =>
         rows[ingest[w].found] # NoRow /\ rows[ingest[w].found].sub = ingest[w].event.sub

(* A row has the status its subscription had at the version last written   *)
(* to it, or it was canceled by a request; it has the period end of the    *)
(* version it is dated from; one organization has it.                      *)
RowSound ==
  /\ \A o \in Org : rows[o] # NoRow =>
       /\ stripe[rows[o].sub] # NoRow /\ seen[rows[o].sub] > 0
       /\ \/ rows[o].status = "canceled" /\ stripe[rows[o].sub].status = "canceled"
          \/ HadStatus(rows[o].sub, seen[rows[o].sub], rows[o].status)
       /\ HadPeriod(rows[o].sub, dated[rows[o].sub], rows[o].period)
       /\ \A p \in Org : rows[p] # NoRow /\ rows[p].sub = rows[o].sub => p = o
  /\ \A s \in Sub : ~HasRow(s) => seen[s] = 0

(* Unless something was reordered, what was taken in is not newer than     *)
(* what the row was last written from.                                     *)
RecordedSound ==
  \A e \in recorded : e.sub \notin reordered => e.version =< 1 \/ e.version =< seen[e.sub]

IInv == TypeOK /\ StripeSound /\ CallSound /\ IngestSound /\ RowSound /\ RecordedSound /\ AppliedOnce

(* What sync-subscription.handler.ts says of webhooks that were dropped:   *)
(* "the eventual `created` delivery brings us back in sync".  That is, *)
(* when the others were all dropped and `created` is the last to be taken  *)
(* in, the row then says what Stripe says.                                 *)
CreatedBringsInSync ==
  [][\A w \in Worker, o \in Org : LET e == ingest[w].event IN
       /\ ingest[w] # None /\ ingest'[w] = None
       /\ ingest[w].found = o /\ e.version = 1 /\ seen[e.sub] = 1
       /\ {f \in events : f.sub = e.sub} \subseteq recorded'
       => rows'[o].status = stripe[e.sub].status]_vars
=============================================================================
