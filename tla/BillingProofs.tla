---------------------------- MODULE BillingProofs ----------------------------
(* Proofs about Billing.  IInv ties the three places a subscription's      *)
(* state is kept together: Stripe, the webhooks, and the row.              *)
EXTENDS Billing, TLAPS

(* The commands tell the kinds of request apart.                           *)
LEMMA CallKinds ==
  ASSUME NEW x \in Call
  PROVE  /\ x.org \in Org
         /\ x.cmd = "insert" =>
              /\ x.row.sub \in Sub /\ x.row.status \in Live /\ x.row.period \in Period
              /\ x.row = [sub |-> x.row.sub, status |-> x.row.status, period |-> x.row.period]
         /\ x.cmd \in {"cancel", "flip"} => x.sub \in Sub /\ x.period \in Period /\ x.dated \in Version
  BY DEF Call, StartCall, InsertCall, CancelCall

LEMMA EventFields ==
  ASSUME NEW e \in Event
  PROVE  /\ e.sub \in Sub /\ e.version \in 1..(MaxVersion + 1) /\ e.version \in Nat
         /\ e.status \in Status /\ e.period \in Period
         /\ e = [sub |-> e.sub, version |-> e.version, status |-> e.status, period |-> e.period]
  BY BoundAssumption DEF Event, Version

LEMMA IInvInit == Init => IInv
<1> SUFFICES ASSUME Init PROVE IInv OBVIOUS
<1>1. TypeOK BY BoundAssumption DEF Init, TypeOK
<1>2. StripeSound BY DEF Init, StripeSound
<1>3. CallSound BY DEF Init, CallSound, At
<1>4. IngestSound BY DEF Init, IngestSound
<1>5. RowSound BY DEF Init, RowSound
<1>6. RecordedSound BY DEF Init, RecordedSound
<1>7. AppliedOnce BY DEF Init, AppliedOnce
<1> QED BY <1>1, <1>2, <1>3, <1>4, <1>5, <1>6, <1>7 DEF IInv

(* Stripe may move on: nothing that was so about a webhook or a canceled   *)
(* subscription ceases to be so.                                           *)
StripeGrows ==
  /\ events \subseteq events'
  /\ \A s \in Sub : stripe[s] # NoRow =>
       stripe'[s] # NoRow /\ (stripe[s].status = "canceled" => stripe'[s].status = "canceled")

(* After the step it is known that version v of s had status, or period.   *)
NowStatus(s, v, status) == \E e \in events' : e.sub = s /\ e.version = v /\ e.status = status
NowPeriod(s, v, period) == \E e \in events' : e.sub = s /\ e.version = v /\ e.period = period

LEMMA OursKeeps ==
  ASSUME IInv, StripeGrows, UNCHANGED <<rows, recorded, ingest, history>>
  PROVE  IngestSound' /\ RowSound' /\ RecordedSound' /\ AppliedOnce'
<1>1. IngestSound' BY DEF IInv, IngestSound, StripeGrows
<1>2. RowSound'
  <2>1. \A o \in Org : rows[o] # NoRow => rows[o].sub \in Sub BY DEF IInv, TypeOK, Row
  <2> QED BY <2>1 DEF IInv, RowSound, HasRow, HadStatus, HadPeriod, StripeGrows, history
<1>3. RecordedSound' BY DEF IInv, RecordedSound, history
<1>4. AppliedOnce' BY DEF IInv, AppliedOnce
<1> QED BY <1>1, <1>2, <1>3, <1>4

(* A request moves on to x.                                                *)
LEMMA CallKeeps ==
  ASSUME IInv, StripeGrows, NEW c \in Caller, NEW x \in Call \union {None}, Goto(c, x),
         \A o \in Org : rows[o] # NoRow => rows'[o] # NoRow /\ rows'[o].sub = rows[o].sub,
         \A d \in Caller \ {c} : At(d, "insert") =>
           \A o \in Org : rows'[o] # NoRow => rows'[o].sub # call[d].row.sub,
         x # None /\ x.cmd = "insert" =>
           /\ NowStatus(x.row.sub, 1, x.row.status) /\ NowPeriod(x.row.sub, 1, x.row.period)
           /\ \A o \in Org : rows'[o] # NoRow => rows'[o].sub # x.row.sub
           /\ \A d \in Caller \ {c} : At(d, "insert") => call[d].row.sub # x.row.sub,
         x # None /\ x.cmd \in {"cancel", "flip"} =>
           /\ rows'[x.org] # NoRow /\ rows'[x.org].sub = x.sub
           /\ NowPeriod(x.sub, x.dated, x.period),
         x # None /\ x.cmd = "flip" => stripe'[x.sub] # NoRow /\ stripe'[x.sub].status = "canceled"
  PROVE  CallSound'
<1>1. call'[c] = x /\ \A d \in Caller \ {c} : call'[d] = call[d] BY DEF Goto, IInv, TypeOK
<1>2. ASSUME NEW d \in Caller, At(d, "insert")'
      PROVE  LET y == call'[d].row
             IN /\ NowStatus(y.sub, 1, y.status) /\ NowPeriod(y.sub, 1, y.period)
                /\ \A o \in Org : rows'[o] # NoRow => rows'[o].sub # y.sub
                /\ \A b \in Caller : At(b, "insert")' /\ call'[b].row.sub = y.sub => b = d
  <2>1. CASE d = c BY <1>1, <1>2, <2>1 DEF At
  <2>2. CASE d # c
    <3>1. At(d, "insert") /\ call'[d] = call[d] BY <1>1, <1>2, <2>2 DEF At
    <3>2. /\ NowStatus(call[d].row.sub, 1, call[d].row.status)
          /\ NowPeriod(call[d].row.sub, 1, call[d].row.period)
      BY <3>1 DEF IInv, CallSound, StripeGrows, HadStatus, HadPeriod, NowStatus, NowPeriod
    <3>3. ASSUME NEW b \in Caller, At(b, "insert")', call'[b].row.sub = call[d].row.sub PROVE b = d
      <4>1. CASE b = c
        <5>1. x # None /\ x.cmd = "insert" /\ x.row.sub = call[d].row.sub
          BY <4>1, <3>3, <1>1 DEF At
        <5>2. \A a \in Caller \ {c} : At(a, "insert") => call[a].row.sub # x.row.sub BY <5>1
        <5> QED BY <5>1, <5>2, <3>1, <2>2
      <4>2. CASE b # c
        <5>1. At(b, "insert") /\ call[b].row.sub = call[d].row.sub BY <4>2, <3>3, <1>1 DEF At
        <5> QED BY <5>1, <3>1 DEF IInv, CallSound
      <4> QED BY <4>1, <4>2
    <3> QED BY <2>2, <3>1, <3>2, <3>3
  <2> QED BY <2>1, <2>2
<1>3. ASSUME NEW d \in Caller, At(d, "cancel")' \/ At(d, "flip")'
      PROVE  /\ rows'[call'[d].org] # NoRow /\ rows'[call'[d].org].sub = call'[d].sub
             /\ NowPeriod(call'[d].sub, call'[d].dated, call'[d].period)
             /\ At(d, "flip")' =>
                  stripe'[call'[d].sub] # NoRow /\ stripe'[call'[d].sub].status = "canceled"
  <2>1. CASE d = c BY <1>1, <1>3, <2>1 DEF At
  <2>2. CASE d # c
    <3>1. call'[d] = call[d] /\ call[d] \in Call /\ call[d].cmd \in {"cancel", "flip"}
      BY <1>1, <1>3, <2>2 DEF At, IInv, TypeOK
    <3>2. call[d].org \in Org /\ call[d].sub \in Sub BY <3>1, CallKinds
    <3>3. /\ rows[call[d].org] # NoRow /\ rows[call[d].org].sub = call[d].sub
          /\ HadPeriod(call[d].sub, call[d].dated, call[d].period)
      BY <1>3, <3>1 DEF At, IInv, CallSound
    <3>4. At(d, "flip")' => stripe[call[d].sub] # NoRow /\ stripe[call[d].sub].status = "canceled"
      BY <3>1 DEF At, IInv, CallSound
    <3> QED BY <3>1, <3>2, <3>3, <3>4 DEF StripeGrows, HadPeriod, NowPeriod
  <2> QED BY <2>1, <2>2
<1> QED BY <1>2, <1>3 DEF CallSound, HasRow, HadStatus, HadPeriod, NowStatus, NowPeriod

(* A live subscription changes, or is canceled for good.                   *)
LEMMA BecomeKeeps ==
  ASSUME IInv, NEW s \in Sub, NEW status \in Status, NEW period \in Period,
         IsLive(s), Become(s, status, period),
         status # "canceled" => stripe[s].version < MaxVersion
  PROVE  /\ StripeGrows /\ StripeSound'
         /\ stripe' \in [Sub -> StripeSub \union {NoRow}] /\ events' \subseteq Event
         /\ stripe'[s].status = status /\ stripe'[s] # NoRow
<1> DEFINE v == stripe[s].version + 1
           e == [sub |-> s, version |-> v, status |-> status, period |-> period]
<1>1. /\ stripe[s] \in StripeSub /\ stripe[s].status # "canceled"
      /\ stripe[s].version \in 1..(MaxVersion + 1) /\ stripe[s].version =< MaxVersion
  BY DEF IsLive, IInv, TypeOK, StripeSub, Version, StripeSound
<1>2. v \in 1..(MaxVersion + 1) /\ e \in Event /\ NoRow \notin StripeSub
  BY <1>1, BoundAssumption, NoRowAssumption DEF Event, Version
<1>3. /\ events' = events \union {e}
      /\ stripe' = [stripe EXCEPT ![s] = [stripe[s] EXCEPT !.status = status, !.period = period,
                                                         !.version = v]]
  BY <1>1 DEF Become, Announce, EventOf, StripeSub
<1>4. /\ stripe'[s] \in StripeSub /\ stripe'[s].status = status /\ stripe'[s].version = v
      /\ stripe'[s].period = period
      /\ \A t \in Sub \ {s} : stripe'[t] = stripe[t]
      /\ stripe' \in [Sub -> StripeSub \union {NoRow}]
  BY <1>1, <1>2, <1>3 DEF IInv, TypeOK, StripeSub, Version
<1>5. StripeGrows BY <1>1, <1>2, <1>3, <1>4 DEF StripeGrows
<1>6. \A f \in events : f.sub = s => f.version # v
  <2>1. \A f \in events : f \in Event /\ (f.sub = s => f.version =< stripe[s].version)
    BY DEF IInv, TypeOK, StripeSound
  <2> QED BY <2>1, <1>1, EventFields
<1>7. StripeSound'
  <2>1. ASSUME NEW t \in Sub, stripe'[t] # NoRow
        PROVE  /\ EventOf(t, stripe'[t]) \in events'
               /\ stripe'[t].status # "canceled" => stripe'[t].version =< MaxVersion
    <3>1. CASE t = s BY <3>1, <1>1, <1>3, <1>4, BoundAssumption DEF EventOf
    <3>2. CASE t # s BY <3>2, <2>1, <1>3, <1>4 DEF IInv, StripeSound
    <3> QED BY <3>1, <3>2
  <2>2. ASSUME NEW f \in events'
        PROVE  /\ stripe'[f.sub] # NoRow /\ f.version =< stripe'[f.sub].version
               /\ f.status = "canceled" => stripe'[f.sub].status = "canceled"
               /\ \A g \in events' : g.sub = f.sub /\ g.version = f.version => g = f
    <3>1. CASE f = e
      <4>1. f.sub = s /\ f.version = v /\ f.status = status BY <3>1
      <4>2. v =< v BY <1>2
      <4> QED BY <3>1, <4>1, <4>2, <1>2, <1>3, <1>4, <1>6
    <3>2. CASE f \in events
      <4>1. f.sub \in Sub /\ f.version \in Nat BY <3>2, EventFields DEF IInv, TypeOK
      <4>2. /\ stripe[f.sub] # NoRow /\ f.version =< stripe[f.sub].version
            /\ f.status = "canceled" => stripe[f.sub].status = "canceled"
        BY <3>2 DEF IInv, StripeSound
      <4>3. f.sub = s => f.version =< v BY <4>1, <4>2, <1>1
      <4>4. ASSUME NEW g \in events', g.sub = f.sub, g.version = f.version PROVE g = f
        <5>1. g # e BY <4>4, <3>2, <1>6
        <5> QED BY <5>1, <4>4, <3>2, <1>3 DEF IInv, StripeSound
      <4> QED BY <4>1, <4>2, <4>3, <4>4, <1>1, <1>2, <1>4
    <3> QED BY <3>1, <3>2, <1>3
  <2> QED BY <2>1, <2>2 DEF StripeSound
<1>8. events' \subseteq Event BY <1>2, <1>3 DEF IInv, TypeOK
<1> QED BY <1>2, <1>4, <1>5, <1>7, <1>8

LEMMA StripeQuiet ==
  ASSUME IInv, UNCHANGED <<stripe, events>>
  PROVE  StripeGrows /\ StripeSound'
  BY DEF IInv, StripeSound, StripeGrows

(* No request moves, and no row changes hands.                             *)
LEMMA CallStays ==
  ASSUME IInv, StripeGrows, UNCHANGED call,
         \A o \in Org : rows[o] # NoRow => rows'[o] # NoRow /\ rows'[o].sub = rows[o].sub,
         \A o \in Org : rows'[o] # NoRow => rows[o] # NoRow
  PROVE  CallSound'
<1>1. \A d \in Caller : call[d] # None => call[d] \in Call BY DEF IInv, TypeOK
<1>2. ASSUME NEW d \in Caller, At(d, "insert")
      PROVE  LET y == call[d].row
             IN /\ NowStatus(y.sub, 1, y.status) /\ NowPeriod(y.sub, 1, y.period)
                /\ \A o \in Org : rows'[o] # NoRow => rows'[o].sub # y.sub
                /\ \A b \in Caller : At(b, "insert") /\ call[b].row.sub = y.sub => b = d
  BY <1>2 DEF IInv, CallSound, HasRow, StripeGrows, HadStatus, HadPeriod, NowStatus, NowPeriod
<1>3. ASSUME NEW d \in Caller, At(d, "cancel") \/ At(d, "flip")
      PROVE  /\ rows'[call[d].org] # NoRow /\ rows'[call[d].org].sub = call[d].sub
             /\ NowPeriod(call[d].sub, call[d].dated, call[d].period)
             /\ At(d, "flip") =>
                  stripe'[call[d].sub] # NoRow /\ stripe'[call[d].sub].status = "canceled"
  <2>1. call[d].org \in Org /\ call[d].sub \in Sub BY <1>1, <1>3, CallKinds DEF At
  <2> QED BY <2>1, <1>3 DEF IInv, CallSound, StripeGrows, HadPeriod, NowPeriod
<1>4. \A d \in Caller : call'[d] = call[d] /\ \A k : At(d, k)' <=> At(d, k) BY DEF At
<1> QED BY <1>2, <1>3, <1>4 DEF CallSound, HasRow, HadStatus, HadPeriod, NowStatus, NowPeriod, At

LEMMA ChangeStep ==
  ASSUME IInv, NEW s \in Sub, NEW status \in Status, NEW period \in Period,
         Change(s, status, period)
  PROVE  IInv'
<1>1. /\ StripeGrows /\ StripeSound'
      /\ stripe' \in [Sub -> StripeSub \union {NoRow}] /\ events' \subseteq Event
  BY BecomeKeeps DEF Change
<1>2. UNCHANGED <<rows, recorded, ingest, history>> /\ UNCHANGED call BY DEF Change
<1>3. IngestSound' /\ RowSound' /\ RecordedSound' /\ AppliedOnce' BY <1>1, <1>2, OursKeeps
<1>4. CallSound' BY <1>1, <1>2, CallStays
<1>5. TypeOK' BY <1>1, <1>2 DEF IInv, TypeOK, history, StripeGrows
<1> QED BY <1>1, <1>3, <1>4, <1>5 DEF IInv

(* A request moves without a change at Stripe or in the database.          *)
LEMMA QuietRequest ==
  ASSUME IInv, NEW c \in Caller, NEW x \in Call \union {None}, Goto(c, x),
         UNCHANGED <<stripe, events, rows, recorded, ingest, history>>,
         x # None => x.cmd \in {"start", "cancel"},
         x # None /\ x.cmd = "cancel" =>
           /\ rows[x.org] # NoRow /\ rows[x.org].sub = x.sub
           /\ HadPeriod(x.sub, x.dated, x.period)
  PROVE  IInv'
<1>1. StripeGrows /\ StripeSound' BY StripeQuiet
<1>2. IngestSound' /\ RowSound' /\ RecordedSound' /\ AppliedOnce' BY <1>1, OursKeeps
<1>3. CallSound'
  <2>1. \A d \in Caller \ {c} : At(d, "insert") =>
          \A o \in Org : rows'[o] # NoRow => rows'[o].sub # call[d].row.sub
    BY DEF IInv, CallSound, HasRow
  <2>2. x # None => x.cmd # "insert" /\ x.cmd # "flip" OBVIOUS
  <2>3. x # None /\ x.cmd \in {"cancel", "flip"} => NowPeriod(x.sub, x.dated, x.period)
    BY DEF HadPeriod, NowPeriod
  <2> QED BY <1>1, <2>1, <2>2, <2>3, CallKeeps
<1>4. TypeOK' BY DEF IInv, TypeOK, Goto, history
<1> QED BY <1>1, <1>2, <1>3, <1>4 DEF IInv

LEMMA ReadStep ==
  ASSUME IInv, NEW c \in Caller, NEW o \in Org, ReadStart(c, o) \/ ReadCancel(c, o)
  PROVE  IInv'
<1>1. CASE ReadStart(c, o)
  <2> DEFINE x == [cmd |-> "start", org |-> o]
  <2>1. x \in Call /\ x.cmd = "start" BY DEF Call, StartCall
  <2>2. Goto(c, x) /\ UNCHANGED <<stripe, events, rows, recorded, ingest, history>>
    BY <1>1 DEF ReadStart
  <2> HIDE DEF x
  <2> QED BY <2>1, <2>2, QuietRequest
<1>2. CASE ReadCancel(c, o)
  <2> DEFINE x == [cmd |-> "cancel", org |-> o, sub |-> rows[o].sub, period |-> rows[o].period,
                   dated |-> dated[rows[o].sub]]
  <2>1. rows[o] \in Row /\ rows[o] # NoRow BY <1>2 DEF ReadCancel, IInv, TypeOK
  <2>2. HadPeriod(rows[o].sub, dated[rows[o].sub], rows[o].period) BY <2>1 DEF IInv, RowSound
  <2>3. dated[rows[o].sub] \in Version
    BY <2>2, EventFields DEF HadPeriod, Version, IInv, TypeOK
  <2>4. /\ x \in Call /\ x.cmd = "cancel" /\ x.org = o /\ x.sub = rows[o].sub
        /\ HadPeriod(x.sub, x.dated, x.period)
    BY <2>1, <2>2, <2>3 DEF Call, CancelCall, Row
  <2>5. Goto(c, x) /\ UNCHANGED <<stripe, events, rows, recorded, ingest, history>>
    BY <1>2 DEF ReadCancel
  <2> HIDE DEF x
  <2> QED BY <2>1, <2>4, <2>5, QuietRequest
<1> QED BY <1>1, <1>2

LEMMA FailStep ==
  ASSUME IInv, NEW c \in Caller, Fail(c)
  PROVE  IInv'
  BY QuietRequest DEF Fail

(* A new subscription: nothing was ever said of it, so no row and no other *)
(* request has it.                                                         *)
LEMMA CreateUpstreamStep ==
  ASSUME IInv, NEW c \in Caller, CreateUpstream(c)
  PROVE  IInv'
<1>1. PICK s \in Sub, status \in Live, period \in Period :
        /\ stripe[s] = NoRow
        /\ stripe' = [stripe EXCEPT ![s] = [org |-> call[c].org, status |-> status,
                                           period |-> period, version |-> 1]]
        /\ events' = events \union {[sub |-> s, version |-> 1, status |-> status, period |-> period]}
        /\ Goto(c, [cmd |-> "insert", org |-> call[c].org,
                    row |-> [sub |-> s, status |-> status, period |-> period]])
  BY DEF CreateUpstream, Announce, EventOf
<1> DEFINE e == [sub |-> s, version |-> 1, status |-> status, period |-> period]
           x == [cmd |-> "insert", org |-> call[c].org,
                 row |-> [sub |-> s, status |-> status, period |-> period]]
<1>2. UNCHANGED <<rows, recorded, ingest, history>> BY DEF CreateUpstream
<1>3. call[c] \in Call /\ call[c].org \in Org
  BY CallKinds DEF CreateUpstream, At, IInv, TypeOK
<1>4. /\ x \in Call /\ x.cmd = "insert" /\ x.row.sub = s /\ x.row.status = status
      /\ x.row.period = period
  BY <1>3 DEF Call, InsertCall
<1>5. 1 \in 1..(MaxVersion + 1) /\ 1 =< MaxVersion /\ status \in Status /\ status # "canceled"
  BY BoundAssumption, LiveAssumption DEF Status
<1>6. /\ e \in Event /\ e.sub = s /\ e.version = 1 /\ e.status = status /\ e.period = period
  BY <1>5 DEF Event, Version
<1>7. /\ stripe'[s] \in StripeSub /\ stripe'[s] # NoRow
      /\ stripe'[s].status = status /\ stripe'[s].version = 1 /\ stripe'[s].period = period
      /\ \A t \in Sub \ {s} : stripe'[t] = stripe[t]
      /\ stripe' \in [Sub -> StripeSub \union {NoRow}]
  BY <1>1, <1>3, <1>5, NoRowAssumption DEF IInv, TypeOK, StripeSub, Version
<1>8. \A f \in events : f.sub # s BY <1>1 DEF IInv, StripeSound
<1>9. StripeGrows BY <1>1, <1>7 DEF StripeGrows
<1>10. events' = events \union {e} BY <1>1
<1>11. StripeSound'
  <2>1. ASSUME NEW t \in Sub, stripe'[t] # NoRow
        PROVE  /\ EventOf(t, stripe'[t]) \in events'
               /\ stripe'[t].status # "canceled" => stripe'[t].version =< MaxVersion
    <3>1. CASE t = s BY <3>1, <1>5, <1>7, <1>10 DEF EventOf
    <3>2. CASE t # s BY <3>2, <2>1, <1>7, <1>10 DEF IInv, StripeSound
    <3> QED BY <3>1, <3>2
  <2>2. ASSUME NEW f \in events'
        PROVE  /\ stripe'[f.sub] # NoRow /\ f.version =< stripe'[f.sub].version
               /\ f.status = "canceled" => stripe'[f.sub].status = "canceled"
               /\ \A g \in events' : g.sub = f.sub /\ g.version = f.version => g = f
    <3>1. CASE f = e
      <4>1. f.sub = s /\ f.version = 1 /\ f.status = status BY <3>1, <1>6
      <4>2. 1 =< stripe'[s].version BY <1>7
      <4>3. \A g \in events' : g.sub = s => g = e BY <1>8, <1>10
      <4> QED BY <3>1, <4>1, <4>2, <4>3, <1>5, <1>7
    <3>2. CASE f \in events
      <4>1. f.sub \in Sub \ {s} BY <3>2, <1>8, EventFields DEF IInv, TypeOK
      <4>2. /\ stripe[f.sub] # NoRow /\ f.version =< stripe[f.sub].version
            /\ f.status = "canceled" => stripe[f.sub].status = "canceled"
            /\ \A g \in events : g.sub = f.sub /\ g.version = f.version => g = f
        BY <3>2 DEF IInv, StripeSound
      <4>3. \A g \in events' : g.sub = f.sub => g \in events BY <4>1, <1>6, <1>10
      <4> QED BY <4>1, <4>2, <4>3, <1>7
    <3> QED BY <3>1, <3>2, <1>10
  <2> QED BY <2>1, <2>2 DEF StripeSound
<1>12. \A o \in Org : rows[o] # NoRow => rows[o].sub # s BY <1>1 DEF IInv, RowSound
<1>13. \A d \in Caller \ {c} : At(d, "insert") => call[d].row.sub # s
  <2>1. ASSUME NEW d \in Caller, At(d, "insert") PROVE call[d].row.sub # s
    <3> DEFINE y == call[d].row
    <3>1. HadStatus(y.sub, 1, y.status) BY <2>1 DEF IInv, CallSound
    <3> QED BY <3>1, <1>8 DEF HadStatus
  <2> QED BY <2>1
<1>14. IngestSound' /\ RowSound' /\ RecordedSound' /\ AppliedOnce' BY <1>2, <1>9, OursKeeps
<1>15. CallSound'
  <2>1. \A d \in Caller \ {c} : At(d, "insert") =>
          \A o \in Org : rows'[o] # NoRow => rows'[o].sub # call[d].row.sub
    BY <1>2 DEF IInv, CallSound, HasRow
  <2>2. Goto(c, x) BY <1>1
  <2>3. NowStatus(x.row.sub, 1, x.row.status) /\ NowPeriod(x.row.sub, 1, x.row.period)
    BY <1>4, <1>6, <1>10 DEF NowStatus, NowPeriod
  <2>4. x.cmd \notin {"cancel", "flip"} /\ x.cmd # "flip" BY <1>4
  <2>5. \A o \in Org : rows[o] # NoRow => rows'[o] # NoRow /\ rows'[o].sub = rows[o].sub BY <1>2
  <2>6. \A o \in Org : rows'[o] # NoRow => rows'[o].sub # x.row.sub BY <1>2, <1>4, <1>12
  <2>7. \A d \in Caller \ {c} : At(d, "insert") => call[d].row.sub # x.row.sub BY <1>4, <1>13
  <2> HIDE DEF x
  <2> QED BY <1>4, <1>9, <2>1, <2>2, <2>3, <2>4, <2>5, <2>6, <2>7, CallKeeps
<1>16. TypeOK'
  <2>1. events' \subseteq Event /\ recorded \subseteq events' BY <1>6, <1>10 DEF IInv, TypeOK
  <2>2. call' \in [Caller -> Call \union {None}] BY <1>1, <1>4 DEF Goto, IInv, TypeOK
  <2> QED BY <2>1, <2>2, <1>2, <1>7 DEF IInv, TypeOK, history
<1> QED BY <1>11, <1>14, <1>15, <1>16 DEF IInv

(* Stripe cancels what the row names; the row follows in the next step.    *)
LEMMA CancelUpstreamStep ==
  ASSUME IInv, NEW c \in Caller, CancelUpstream(c)
  PROVE  IInv'
<1> DEFINE x == [call[c] EXCEPT !.cmd = "flip"]
<1>1. /\ At(c, "cancel") /\ IsLive(call[c].sub)
      /\ Become(call[c].sub, "canceled", stripe[call[c].sub].period)
      /\ Goto(c, x) /\ UNCHANGED <<rows, recorded, ingest, history>>
  BY DEF CancelUpstream
<1>2. call[c] \in Call /\ call[c].cmd = "cancel" BY <1>1 DEF At, IInv, TypeOK
<1>3. call[c].org \in Org /\ call[c].sub \in Sub BY <1>2, CallKinds
<1>4. /\ x \in Call /\ x.cmd = "flip" /\ x.org = call[c].org /\ x.sub = call[c].sub
      /\ x.period = call[c].period /\ x.dated = call[c].dated
  BY <1>2 DEF Call, StartCall, InsertCall, CancelCall
<1>5. /\ StripeGrows /\ StripeSound'
      /\ stripe' \in [Sub -> StripeSub \union {NoRow}] /\ events' \subseteq Event
      /\ stripe'[call[c].sub].status = "canceled" /\ stripe'[call[c].sub] # NoRow
  <2>1. stripe[call[c].sub].period \in Period
    BY <1>1, <1>3 DEF IsLive, IInv, TypeOK, StripeSub
  <2> QED BY <1>1, <1>3, <2>1, BecomeKeeps DEF Status
<1>6. IngestSound' /\ RowSound' /\ RecordedSound' /\ AppliedOnce' BY <1>1, <1>5, OursKeeps
<1>7. CallSound'
  <2>1. \A d \in Caller \ {c} : At(d, "insert") =>
          \A o \in Org : rows'[o] # NoRow => rows'[o].sub # call[d].row.sub
    BY <1>1 DEF IInv, CallSound, HasRow
  <2>2. /\ rows[x.org] # NoRow /\ rows[x.org].sub = x.sub
        /\ HadPeriod(x.sub, x.dated, x.period)
    BY <1>1, <1>4 DEF IInv, CallSound
  <2>3. Goto(c, x) BY <1>1
  <2>4. NowPeriod(x.sub, x.dated, x.period) BY <1>5, <2>2 DEF HadPeriod, NowPeriod, StripeGrows
  <2> HIDE DEF x
  <2> QED BY <1>1, <1>4, <1>5, <2>1, <2>2, <2>3, <2>4, CallKeeps
<1>8. TypeOK'
  <2>1. call' \in [Caller -> Call \union {None}] BY <1>1, <1>4 DEF Goto, IInv, TypeOK
  <2> QED BY <2>1, <1>1, <1>5 DEF IInv, TypeOK, history, StripeGrows
<1> QED BY <1>5, <1>6, <1>7, <1>8 DEF IInv

(* What a request is about to insert is in no row.                         *)
LEMMA NotInserted ==
  ASSUME IInv, NEW d \in Caller, At(d, "insert"), NEW p \in Org, rows[p] # NoRow
  PROVE  rows[p].sub # call[d].row.sub
  BY DEF IInv, CallSound, HasRow

LEMMA InsertStep ==
  ASSUME IInv, NEW c \in Caller, Insert(c)
  PROVE  IInv'
<1> DEFINE o == call[c].org
           r == call[c].row
<1>1. /\ At(c, "insert") /\ rows[o] = NoRow /\ Goto(c, None)
      /\ rows' = [rows EXCEPT ![o] = r]
      /\ seen' = [seen EXCEPT ![r.sub] = 1] /\ dated' = [dated EXCEPT ![r.sub] = 1]
      /\ UNCHANGED <<stripe, events, recorded, ingest, reordered>>
  BY DEF Insert, Vacant
<1>2. call[c] \in Call /\ call[c].cmd = "insert" BY <1>1 DEF At, IInv, TypeOK
<1>3. o \in Org /\ r.sub \in Sub /\ r.status \in Live /\ r \in Row /\ r # NoRow
  <2>1. /\ r = [sub |-> r.sub, status |-> r.status, period |-> r.period] /\ o \in Org
        /\ r.sub \in Sub /\ r.status \in Live /\ r.period \in Period
    BY <1>2, CallKinds
  <2>2. r \in Row BY <2>1 DEF Row, Status
  <2> QED BY <2>1, <2>2, NoRowAssumption
<1>4. /\ HadStatus(r.sub, 1, r.status) /\ HadPeriod(r.sub, 1, r.period)
      /\ \A p \in Org : rows[p] # NoRow => rows[p].sub # r.sub
      /\ \A d \in Caller \ {c} : At(d, "insert") => call[d].row.sub # r.sub
  BY <1>1 DEF IInv, CallSound, HasRow
<1>5. rows'[o] = r /\ \A p \in Org \ {o} : rows'[p] = rows[p]
  BY <1>1, <1>3 DEF IInv, TypeOK
<1>6. /\ seen'[r.sub] = 1 /\ \A s \in Sub \ {r.sub} : seen'[s] = seen[s]
      /\ dated'[r.sub] = 1 /\ \A s \in Sub \ {r.sub} : dated'[s] = dated[s]
  BY <1>1, <1>3 DEF IInv, TypeOK
<1>7. StripeGrows /\ StripeSound' BY <1>1, StripeQuiet
<1> HIDE DEF o, r
<1>8. CallSound'
  <2>1. \A p \in Org : rows[p] # NoRow => rows'[p] # NoRow /\ rows'[p].sub = rows[p].sub
    BY <1>1, <1>5
  <2>2. \A d \in Caller \ {c} : At(d, "insert") =>
          \A p \in Org : rows'[p] # NoRow => rows'[p].sub # call[d].row.sub
    <3>1. ASSUME NEW d \in Caller \ {c}, At(d, "insert"), NEW p \in Org, rows'[p] # NoRow
          PROVE  rows'[p].sub # call[d].row.sub
      <4>1. CASE p = o BY <4>1, <3>1, <1>4, <1>5
      <4>2. CASE p # o BY <4>2, <3>1, <1>5, NotInserted
      <4> QED BY <4>1, <4>2
    <3> QED BY <3>1
  <2> QED BY <1>1, <1>7, <2>1, <2>2, CallKeeps
<1>9. IngestSound'
  <2>1. \A w \in Worker : ingest[w] # None /\ ingest[w].found # NoRow => ingest[w].found \in Org
    BY DEF IInv, TypeOK, Delivery
  <2> QED BY <1>1, <1>5, <2>1 DEF IInv, IngestSound
<1>10. RowSound'
  <2>1. ASSUME NEW p \in Org, rows'[p] # NoRow
        PROVE  /\ stripe'[rows'[p].sub] # NoRow /\ seen'[rows'[p].sub] > 0
               /\ \/ rows'[p].status = "canceled" /\ stripe'[rows'[p].sub].status = "canceled"
                  \/ \E f \in events' : /\ f.sub = rows'[p].sub /\ f.version = seen'[rows'[p].sub]
                                        /\ f.status = rows'[p].status
               /\ \E f \in events' : /\ f.sub = rows'[p].sub /\ f.version = dated'[rows'[p].sub]
                                     /\ f.period = rows'[p].period
               /\ \A q \in Org : rows'[q] # NoRow /\ rows'[q].sub = rows'[p].sub => q = p
    <3>1. CASE p = o
      <4>1. stripe[r.sub] # NoRow BY <1>4 DEF IInv, StripeSound, HadStatus
      <4>2. \A q \in Org : rows'[q] # NoRow /\ rows'[q].sub = r.sub => q = o BY <1>4, <1>5
      <4> QED BY <3>1, <4>1, <4>2, <1>1, <1>4, <1>5, <1>6 DEF HadStatus, HadPeriod
    <3>2. CASE p # o
      <4>1. rows'[p] = rows[p] /\ rows[p].sub # r.sub /\ rows[p].sub \in Sub
        BY <3>2, <2>1, <1>4, <1>5 DEF IInv, TypeOK, Row
      <4>2. seen'[rows[p].sub] = seen[rows[p].sub] /\ dated'[rows[p].sub] = dated[rows[p].sub]
        BY <4>1, <1>6
      <4>3. \A q \in Org : rows'[q] # NoRow /\ rows'[q].sub = rows[p].sub => q = p
        BY <4>1, <2>1, <1>5 DEF IInv, RowSound
      <4> QED BY <2>1, <4>1, <4>2, <4>3, <1>1 DEF IInv, RowSound, HadStatus, HadPeriod
    <3> QED BY <3>1, <3>2
  <2>2. ASSUME NEW s \in Sub, \A p \in Org : ~(rows'[p] # NoRow /\ rows'[p].sub = s)
        PROVE  seen'[s] = 0
    <3>1. s # r.sub BY <2>2, <1>3, <1>5
    <3>2. \A p \in Org : ~(rows[p] # NoRow /\ rows[p].sub = s) BY <2>2, <1>1, <1>5
    <3> QED BY <3>1, <3>2, <1>6 DEF IInv, RowSound, HasRow
  <2> QED BY <2>1, <2>2 DEF RowSound, HasRow, HadStatus, HadPeriod
<1>11. RecordedSound'
  <2>1. ASSUME NEW e \in recorded, e.sub \notin reordered PROVE e.version =< 1 \/ e.version =< seen'[e.sub]
    <3>1. e.sub \in Sub /\ e.version \in Nat BY EventFields DEF IInv, TypeOK
    <3>2. e.version =< 1 \/ e.version =< seen[e.sub] BY <2>1 DEF IInv, RecordedSound
    <3>3. CASE e.sub = r.sub
      <4>1. seen[r.sub] = 0 BY <1>3, <1>4 DEF IInv, RowSound, HasRow
      <4> QED BY <3>1, <3>2, <3>3, <4>1
    <3>4. CASE e.sub # r.sub BY <3>1, <3>2, <3>4, <1>6
    <3> QED BY <3>3, <3>4
  <2> QED BY <2>1, <1>1 DEF RecordedSound
<1>12. AppliedOnce' BY <1>1 DEF IInv, AppliedOnce
<1>13. TypeOK'
  <2>1. rows' \in [Org -> Row \union {NoRow}] BY <1>1, <1>3 DEF IInv, TypeOK
  <2>2. seen' \in [Sub -> 0..(MaxVersion + 1)] /\ dated' \in [Sub -> 0..(MaxVersion + 1)]
    BY <1>1, <1>3, BoundAssumption DEF IInv, TypeOK
  <2>3. call' \in [Caller -> Call \union {None}] BY <1>1 DEF Goto, IInv, TypeOK
  <2> QED BY <2>1, <2>2, <2>3, <1>1 DEF IInv, TypeOK
<1> QED BY <1>7, <1>8, <1>9, <1>10, <1>11, <1>12, <1>13 DEF IInv

LEMMA FlipStep ==
  ASSUME IInv, NEW c \in Caller, Flip(c)
  PROVE  IInv'
<1> DEFINE o == call[c].org
           s == call[c].sub
           v == call[c].dated
           t == call[c].period
<1>1. /\ At(c, "flip") /\ Goto(c, None)
      /\ rows' = [rows EXCEPT ![o].status = "canceled", ![o].period = t]
      /\ dated' = [dated EXCEPT ![s] = v]
      /\ UNCHANGED <<stripe, events, recorded, ingest, seen, reordered>>
  BY DEF Flip, CanceledUpstream
<1>2. o \in Org /\ s \in Sub /\ t \in Period /\ v \in 0..(MaxVersion + 1)
  <2>1. call[c] \in Call /\ call[c].cmd = "flip" BY <1>1 DEF At, IInv, TypeOK
  <2>2. Version \subseteq 0..(MaxVersion + 1) BY BoundAssumption DEF Version
  <2> QED BY <2>1, <2>2, CallKinds
<1>3. /\ rows[o] # NoRow /\ rows[o].sub = s /\ stripe[s].status = "canceled"
      /\ HadPeriod(s, v, t)
  BY <1>1 DEF IInv, CallSound
<1>4. rows[o] \in Row BY <1>2, <1>3 DEF IInv, TypeOK
<1>5. /\ rows'[o] \in Row /\ rows'[o].sub = rows[o].sub /\ rows'[o].status = "canceled"
      /\ rows'[o].period = t
      /\ \A p \in Org \ {o} : rows'[p] = rows[p]
      /\ rows' \in [Org -> Row \union {NoRow}]
  BY <1>1, <1>2, <1>4 DEF IInv, TypeOK, Row, Status
<1>6. \A p \in Org : /\ (rows'[p] # NoRow) = (rows[p] # NoRow)
                     /\ rows[p] # NoRow => rows'[p].sub = rows[p].sub
  BY <1>3, <1>5, NoRowAssumption
<1>7. StripeGrows /\ StripeSound' BY <1>1, StripeQuiet
<1>13. /\ dated'[s] = v /\ \A r \in Sub \ {s} : dated'[r] = dated[r]
       /\ dated' \in [Sub -> 0..(MaxVersion + 1)]
  BY <1>1, <1>2 DEF IInv, TypeOK
<1> HIDE DEF o, s, v, t
<1>8. CallSound'
  <2>1. \A d \in Caller \ {c} : At(d, "insert") =>
          \A p \in Org : rows'[p] # NoRow => rows'[p].sub # call[d].row.sub
    BY <1>6, NotInserted
  <2> QED BY <1>1, <1>6, <1>7, <2>1, CallKeeps
<1>9. IngestSound'
  <2>1. \A w \in Worker : ingest[w] # None /\ ingest[w].found # NoRow => ingest[w].found \in Org
    BY DEF IInv, TypeOK, Delivery
  <2> QED BY <1>1, <1>6, <2>1 DEF IInv, IngestSound
<1>10. RowSound'
  <2>1. ASSUME NEW p \in Org, rows'[p] # NoRow
        PROVE  /\ stripe'[rows'[p].sub] # NoRow /\ seen'[rows'[p].sub] > 0
               /\ \/ rows'[p].status = "canceled" /\ stripe'[rows'[p].sub].status = "canceled"
                  \/ \E f \in events' : /\ f.sub = rows'[p].sub /\ f.version = seen'[rows'[p].sub]
                                        /\ f.status = rows'[p].status
               /\ \E f \in events' : /\ f.sub = rows'[p].sub /\ f.version = dated'[rows'[p].sub]
                                     /\ f.period = rows'[p].period
               /\ \A q \in Org : rows'[q] # NoRow /\ rows'[q].sub = rows'[p].sub => q = p
    <3>1. /\ stripe[rows[p].sub] # NoRow /\ seen[rows[p].sub] > 0
          /\ \A q \in Org : rows[q] # NoRow /\ rows[q].sub = rows[p].sub => q = p
      BY <2>1, <1>6 DEF IInv, RowSound
    <3>2. rows'[p].sub = rows[p].sub
          /\ \A q \in Org : rows'[q] # NoRow /\ rows'[q].sub = rows'[p].sub => q = p
      BY <3>1, <2>1, <1>6
    <3>3. CASE p = o BY <3>1, <3>2, <3>3, <1>1, <1>3, <1>5, <1>13 DEF HadPeriod
    <3>4. CASE p # o
      <4>1. rows[p] # NoRow /\ rows'[p] = rows[p] /\ rows[p].sub # s /\ rows[p].sub \in Sub
        BY <2>1, <3>1, <3>4, <1>2, <1>3, <1>5 DEF IInv, TypeOK, Row
      <4>2. dated'[rows[p].sub] = dated[rows[p].sub] BY <4>1, <1>13
      <4>3. \/ rows[p].status = "canceled" /\ stripe[rows[p].sub].status = "canceled"
            \/ HadStatus(rows[p].sub, seen[rows[p].sub], rows[p].status)
        BY <4>1 DEF IInv, RowSound
      <4>4. HadPeriod(rows[p].sub, dated[rows[p].sub], rows[p].period)
        BY <4>1 DEF IInv, RowSound
      <4>5. \E f \in events' : /\ f.sub = rows'[p].sub /\ f.version = dated'[rows'[p].sub]
                              /\ f.period = rows'[p].period
        BY <4>1, <4>2, <4>4, <1>1 DEF HadPeriod
      <4> QED BY <3>1, <3>2, <4>1, <4>3, <4>5, <1>1 DEF HadStatus
    <3> QED BY <3>3, <3>4
  <2>2. ASSUME NEW r \in Sub, \A p \in Org : ~(rows'[p] # NoRow /\ rows'[p].sub = r)
        PROVE  seen'[r] = 0
    BY <2>2, <1>1, <1>6 DEF IInv, RowSound, HasRow
  <2> QED BY <2>1, <2>2 DEF RowSound, HasRow, HadStatus, HadPeriod
<1>11. RecordedSound' /\ AppliedOnce'
  BY <1>1 DEF IInv, RecordedSound, AppliedOnce
<1>12. TypeOK'
  <2>1. call' \in [Caller -> Call \union {None}] BY <1>1 DEF Goto, IInv, TypeOK
  <2> QED BY <2>1, <1>1, <1>5, <1>13 DEF IInv, TypeOK
<1> QED BY <1>7, <1>8, <1>9, <1>10, <1>11, <1>12 DEF IInv

LEMMA ClaimStep ==
  ASSUME IInv, NEW w \in Worker, NEW e \in events, Claim(w, e)
  PROVE  IInv'
<1>1. /\ ingest[w] = None /\ e \notin recorded
      /\ \A v \in Worker : ingest[v] # None => ingest[v].event # e
      /\ UNCHANGED <<stripe, events, rows, recorded, call, history>>
  BY DEF Claim, HeldByOther
<1>2. PICK o \in Org \union {NoRow} :
        /\ ingest' = [ingest EXCEPT ![w] = [event |-> e, found |-> o]]
        /\ o # NoRow => rows[o] # NoRow /\ rows[o].sub = e.sub
  BY NoRowAssumption DEF Claim, Found
<1> DEFINE x == [event |-> e, found |-> o]
<1>3. e \in Event /\ x \in Delivery /\ x # None /\ x.event = e /\ x.found = o
  BY NoneAssumption DEF IInv, TypeOK, Delivery
<1>4. ingest'[w] = x /\ \A v \in Worker \ {w} : ingest'[v] = ingest[v]
  BY <1>2 DEF IInv, TypeOK
<1> HIDE DEF x
<1>5. StripeGrows /\ StripeSound' BY <1>1, StripeQuiet
<1>6. CallSound' BY <1>1, <1>5, CallStays
<1>7. IngestSound'
  <2>1. ASSUME NEW v \in Worker, ingest'[v] # None
        PROVE  /\ ingest'[v].event \in events'
               /\ ingest'[v].found # NoRow =>
                    /\ rows'[ingest'[v].found] # NoRow
                    /\ rows'[ingest'[v].found].sub = ingest'[v].event.sub
    <3>1. CASE v = w BY <3>1, <1>1, <1>2, <1>3, <1>4
    <3>2. CASE v # w BY <3>2, <2>1, <1>1, <1>4 DEF IInv, IngestSound
    <3> QED BY <3>1, <3>2
  <2> QED BY <2>1 DEF IngestSound
<1>8. RowSound' /\ RecordedSound'
  BY <1>1 DEF IInv, RowSound, HasRow, HadStatus, HadPeriod, RecordedSound, history
<1>9. AppliedOnce' BY <1>1, <1>3, <1>4 DEF IInv, AppliedOnce
<1>10. TypeOK'
  <2>1. ingest' \in [Worker -> Delivery \union {None}] BY <1>2, <1>3 DEF x, IInv, TypeOK
  <2> QED BY <2>1, <1>1 DEF IInv, TypeOK, history
<1> QED BY <1>5, <1>6, <1>7, <1>8, <1>9, <1>10 DEF IInv

LEMMA AbortIngestStep ==
  ASSUME IInv, NEW w \in Worker, AbortIngest(w)
  PROVE  IInv'
<1>1. /\ ingest' = [ingest EXCEPT ![w] = None]
      /\ UNCHANGED <<stripe, events, rows, recorded, call, history>>
  BY DEF AbortIngest
<1>2. ingest'[w] = None /\ \A v \in Worker \ {w} : ingest'[v] = ingest[v]
  BY <1>1 DEF IInv, TypeOK
<1>3. StripeGrows /\ StripeSound' BY <1>1, StripeQuiet
<1>4. CallSound' BY <1>1, <1>3, CallStays
<1>5. IngestSound' BY <1>1, <1>2 DEF IInv, IngestSound
<1>6. RowSound' /\ RecordedSound'
  BY <1>1 DEF IInv, RowSound, HasRow, HadStatus, HadPeriod, RecordedSound, history
<1>7. AppliedOnce' BY <1>1, <1>2 DEF IInv, AppliedOnce
<1>8. TypeOK' BY <1>1 DEF IInv, TypeOK, history
<1> QED BY <1>3, <1>4, <1>5, <1>6, <1>7, <1>8 DEF IInv

(* An event of a subscription without a row is recorded and dropped.       *)
LEMMA DropStep ==
  ASSUME IInv, NEW w \in Worker, CommitIngest(w), ingest[w].found = NoRow
  PROVE  IInv'
<1> DEFINE e == ingest[w].event
<1>1. /\ ingest[w] # None /\ recorded' = recorded \union {e}
      /\ reordered' = IF e.version > 1 THEN reordered \union {e.sub} ELSE reordered
      /\ ingest' = [ingest EXCEPT ![w] = None]
      /\ UNCHANGED <<stripe, events, rows, call, seen, dated>>
  BY DEF CommitIngest
<1>2. e \in events /\ e \in Event BY <1>1 DEF IInv, IngestSound, TypeOK
<1>3. ingest'[w] = None /\ \A v \in Worker \ {w} : ingest'[v] = ingest[v]
  BY <1>1 DEF IInv, TypeOK
<1>4. StripeGrows /\ StripeSound' BY <1>1, StripeQuiet
<1>5. CallSound' BY <1>1, <1>4, CallStays
<1>6. IngestSound' BY <1>1, <1>3 DEF IInv, IngestSound
<1>7. RowSound' BY <1>1 DEF IInv, RowSound, HasRow, HadStatus, HadPeriod
<1>8. RecordedSound'
  <2>1. ASSUME NEW f \in recorded', f.sub \notin reordered'
        PROVE  f.version =< 1 \/ f.version =< seen[f.sub]
    <3>1. CASE f = e
      <4>1. e.version \in Nat BY <1>2, EventFields
      <4> QED BY <4>1, <3>1, <2>1, <1>1
    <3>2. CASE f \in recorded BY <3>2, <2>1, <1>1 DEF IInv, RecordedSound
    <3> QED BY <3>1, <3>2, <1>1
  <2> QED BY <2>1, <1>1 DEF RecordedSound
<1>9. AppliedOnce' BY <1>1, <1>3 DEF IInv, AppliedOnce
<1>10. TypeOK'
  <2>1. e.sub \in Sub BY <1>2, EventFields
  <2>2. reordered' \subseteq Sub /\ recorded' \subseteq events' BY <2>1, <1>1, <1>2 DEF IInv, TypeOK
  <2> QED BY <2>2, <1>1 DEF IInv, TypeOK
<1> QED BY <1>4, <1>5, <1>6, <1>7, <1>8, <1>9, <1>10 DEF IInv

(* An event is written to the row it found.                                *)
LEMMA ApplyStep ==
  ASSUME IInv, NEW w \in Worker, CommitIngest(w), ingest[w].found # NoRow
  PROVE  IInv'
<1> DEFINE e == ingest[w].event
           o == ingest[w].found
<1>1. /\ ingest[w] # None /\ recorded' = recorded \union {e}
      /\ rows' = [rows EXCEPT ![o] = Synced(@, e)]
      /\ seen' = [seen EXCEPT ![e.sub] = e.version]
      /\ dated' = [dated EXCEPT ![e.sub] = e.version]
      /\ reordered' = IF e.version < seen[e.sub] THEN reordered \union {e.sub} ELSE reordered
      /\ ingest' = [ingest EXCEPT ![w] = None]
      /\ UNCHANGED <<stripe, events, call>>
  BY DEF CommitIngest
<1>2. e \in events /\ e \in Event /\ o \in Org
  BY <1>1 DEF IInv, IngestSound, TypeOK, Delivery
<1>3. /\ e.sub \in Sub /\ e.version \in 1..(MaxVersion + 1) /\ e.version \in Nat
      /\ e.status \in Status /\ e.period \in Period
  BY <1>2, EventFields
<1>4. rows[o] # NoRow /\ rows[o].sub = e.sub /\ rows[o] \in Row
  BY <1>1, <1>2 DEF IInv, IngestSound, TypeOK
<1>5. /\ rows'[o] \in Row /\ rows'[o].sub = e.sub
      /\ rows'[o].status = e.status /\ rows'[o].period = e.period
      /\ \A p \in Org \ {o} : rows'[p] = rows[p]
      /\ rows' \in [Org -> Row \union {NoRow}]
  BY <1>1, <1>2, <1>3, <1>4 DEF IInv, TypeOK, Row, Synced
<1>6. \A p \in Org : /\ (rows'[p] # NoRow) = (rows[p] # NoRow)
                     /\ rows[p] # NoRow => rows'[p].sub = rows[p].sub
  BY <1>4, <1>5, NoRowAssumption
<1>7. /\ seen'[e.sub] = e.version /\ \A s \in Sub \ {e.sub} : seen'[s] = seen[s]
      /\ dated'[e.sub] = e.version /\ \A s \in Sub \ {e.sub} : dated'[s] = dated[s]
      /\ seen' \in [Sub -> 0..(MaxVersion + 1)] /\ dated' \in [Sub -> 0..(MaxVersion + 1)]
  BY <1>1, <1>3, BoundAssumption DEF IInv, TypeOK
<1>8. ingest'[w] = None /\ \A v \in Worker \ {w} : ingest'[v] = ingest[v]
  BY <1>1 DEF IInv, TypeOK
<1> HIDE DEF e, o
<1>9. StripeGrows /\ StripeSound' BY <1>1, StripeQuiet
<1>10. CallSound' BY <1>1, <1>6, <1>9, CallStays
<1>11. IngestSound'
  <2>1. \A v \in Worker : ingest[v] # None /\ ingest[v].found # NoRow => ingest[v].found \in Org
    BY DEF IInv, TypeOK, Delivery
  <2> QED BY <1>1, <1>6, <1>8, <2>1 DEF IInv, IngestSound
<1>12. RowSound'
  <2>1. ASSUME NEW p \in Org, rows'[p] # NoRow
        PROVE  /\ stripe'[rows'[p].sub] # NoRow /\ seen'[rows'[p].sub] > 0
               /\ \/ rows'[p].status = "canceled" /\ stripe'[rows'[p].sub].status = "canceled"
                  \/ \E f \in events' : /\ f.sub = rows'[p].sub /\ f.version = seen'[rows'[p].sub]
                                        /\ f.status = rows'[p].status
               /\ \E f \in events' : /\ f.sub = rows'[p].sub /\ f.version = dated'[rows'[p].sub]
                                     /\ f.period = rows'[p].period
               /\ \A q \in Org : rows'[q] # NoRow /\ rows'[q].sub = rows'[p].sub => q = p
    <3>1. /\ stripe[rows[p].sub] # NoRow /\ seen[rows[p].sub] > 0
          /\ \A q \in Org : rows[q] # NoRow /\ rows[q].sub = rows[p].sub => q = p
      BY <2>1, <1>6 DEF IInv, RowSound
    <3>2. rows'[p].sub = rows[p].sub
          /\ \A q \in Org : rows'[q] # NoRow /\ rows'[q].sub = rows'[p].sub => q = p
      BY <3>1, <2>1, <1>6
    <3>3. CASE p = o
      <4>1. e.version > 0 BY <1>3
      <4>2. /\ e.sub = rows'[p].sub /\ e.version = seen'[rows'[p].sub] /\ e.version = dated'[rows'[p].sub]
            /\ e.status = rows'[p].status /\ e.period = rows'[p].period
        BY <3>3, <1>3, <1>5, <1>7
      <4> QED BY <3>1, <3>2, <3>3, <4>1, <4>2, <1>1, <1>2, <1>5, <1>7
    <3>4. CASE p # o
      <4>1. rows[p] \in Row /\ rows[p].sub # e.sub BY <3>1, <3>4, <2>1, <1>2, <1>4, <1>6 DEF IInv, TypeOK
      <4>2. rows[p].sub \in Sub \ {e.sub} BY <4>1 DEF Row
      <4>3. /\ seen'[rows[p].sub] = seen[rows[p].sub] /\ dated'[rows[p].sub] = dated[rows[p].sub]
            /\ rows'[p] = rows[p]
        BY <4>2, <3>4, <1>5, <1>7
      <4> QED BY <2>1, <3>1, <3>2, <4>3, <1>1 DEF IInv, RowSound, HadStatus, HadPeriod
    <3> QED BY <3>3, <3>4
  <2>2. ASSUME NEW s \in Sub, \A p \in Org : ~(rows'[p] # NoRow /\ rows'[p].sub = s)
        PROVE  seen'[s] = 0
    <3>1. s # e.sub BY <2>2, <1>2, <1>4, <1>5, <1>6
    <3>2. seen[s] = 0 BY <2>2, <1>6 DEF IInv, RowSound, HasRow
    <3> QED BY <3>1, <3>2, <1>7
  <2> QED BY <2>1, <2>2 DEF RowSound, HasRow, HadStatus, HadPeriod
<1>13. RecordedSound'
  <2>1. ASSUME NEW f \in recorded', f.sub \notin reordered'
        PROVE  f.version =< 1 \/ f.version =< seen'[f.sub]
    <3>1. CASE f = e BY <3>1, <1>3, <1>7
    <3>2. CASE f # e
      <4>1. f \in recorded /\ f.sub \notin reordered BY <3>2, <2>1, <1>1
      <4>2. f.sub \in Sub /\ f.version \in Nat BY <4>1, EventFields DEF IInv, TypeOK
      <4>3. f.version =< 1 \/ f.version =< seen[f.sub] BY <4>1 DEF IInv, RecordedSound
      <4>4. CASE f.sub = e.sub
        <5>1. ~(e.version < seen[e.sub]) BY <4>4, <2>1, <1>1
        <5>2. seen[e.sub] \in Nat BY <1>3, BoundAssumption DEF IInv, TypeOK
        <5> QED BY <4>2, <4>3, <4>4, <5>1, <5>2, <1>3, <1>7
      <4>5. CASE f.sub # e.sub BY <4>2, <4>3, <4>5, <1>7
      <4> QED BY <4>4, <4>5
    <3> QED BY <3>1, <3>2
  <2> QED BY <2>1 DEF RecordedSound
<1>14. AppliedOnce' BY <1>1, <1>8 DEF e, IInv, AppliedOnce
<1>15. TypeOK'
  <2>1. reordered' \subseteq Sub /\ recorded' \subseteq events' BY <1>1, <1>2, <1>3 DEF IInv, TypeOK
  <2>2. ingest' \in [Worker -> Delivery \union {None}] BY <1>1 DEF IInv, TypeOK
  <2> QED BY <2>1, <2>2, <1>1, <1>5, <1>7 DEF IInv, TypeOK
<1> QED BY <1>9, <1>10, <1>11, <1>12, <1>13, <1>14, <1>15 DEF IInv

LEMMA IInvStep == IInv /\ [Next]_vars => IInv'
<1> SUFFICES ASSUME IInv, [Next]_vars PROVE IInv' OBVIOUS
<1>1. CASE UNCHANGED vars
  <2>1. StripeGrows /\ StripeSound' /\ UNCHANGED <<rows, recorded, ingest, history>> /\ UNCHANGED call
    BY <1>1, StripeQuiet DEF vars
  <2>2. IngestSound' /\ RowSound' /\ RecordedSound' /\ AppliedOnce' BY <2>1, OursKeeps
  <2>3. CallSound' BY <2>1, CallStays
  <2>4. TypeOK' BY <1>1 DEF IInv, TypeOK, vars, history
  <2> QED BY <2>1, <2>2, <2>3, <2>4 DEF IInv
<1>2. ASSUME NEW c \in Caller, Request(c) PROVE IInv'
  BY <1>2, ReadStep, CreateUpstreamStep, InsertStep, CancelUpstreamStep, FlipStep, FailStep DEF Request
<1>3. ASSUME NEW w \in Worker, Webhook(w) PROVE IInv'
  BY <1>3, ClaimStep, DropStep, ApplyStep, AbortIngestStep DEF Webhook
<1>4. ASSUME NEW s \in Sub, NEW status \in Status, NEW period \in Period, Change(s, status, period)
      PROVE  IInv'
  BY <1>4, ChangeStep
<1> QED BY <1>1, <1>2, <1>3, <1>4 DEF Next
-----------------------------------------------------------------------------
(* Requests, webhooks and Stripe, however they interleave, keep the row,   *)
(* the webhooks and Stripe's record of a subscription tied together.       *)
THEOREM Invariance == Spec => []IInv
<1>1. Init => IInv BY IInvInit
<1>2. IInv /\ [Next]_vars => IInv' BY IInvStep
<1> QED BY <1>1, <1>2, PTL DEF Spec

(* The variables keep their types; in particular no row takes a status     *)
(* Stripe does not have.                                                   *)
THEOREM TypeCorrectness == Spec => []TypeOK
<1>1. IInv => TypeOK BY DEF IInv
<1> QED BY <1>1, Invariance, PTL

(* No webhook takes effect twice (ingest-stripe-webhook.handler.ts), for   *)
(* any number of deliveries at a time.                                     *)
THEOREM NoSecondEffect == Spec => []AppliedOnce
<1>1. IInv => AppliedOnce BY DEF IInv
<1> QED BY <1>1, Invariance, PTL

(* Whatever a canceled row was written from, a cancellation or a webhook,  *)
(* Stripe canceled the subscription before.                                *)
THEOREM CanceledIsTrue == Spec => []CanceledMeansCanceled
<1>1. IInv => CanceledMeansCanceled
  <2>1. ASSUME IInv, NEW o \in Org, rows[o] # NoRow, rows[o].status = "canceled"
        PROVE  stripe[rows[o].sub].status = "canceled"
    <3>1. CASE HadStatus(rows[o].sub, seen[rows[o].sub], rows[o].status)
      BY <3>1, <2>1 DEF HadStatus, IInv, StripeSound
    <3>2. CASE stripe[rows[o].sub].status = "canceled" BY <3>2
    <3> QED BY <3>1, <3>2, <2>1 DEF IInv, RowSound
  <2> QED BY <2>1 DEF CanceledMeansCanceled
<1> QED BY <1>1, Invariance, PTL

(* The row keeps the subscription it was inserted with, however many       *)
(* starts race.                                                            *)
THEOREM StartOnce == Spec => FirstStartWins
<1>1. IInv /\ [Next]_vars =>
        [\A o \in Org : rows[o] # NoRow => rows'[o] # NoRow /\ rows'[o].sub = rows[o].sub]_vars
  <2> SUFFICES ASSUME IInv, [Next]_vars, NEW o \in Org, rows[o] # NoRow
               PROVE  rows'[o] # NoRow /\ rows'[o].sub = rows[o].sub
    OBVIOUS
  <2>1. rows[o] \in Row /\ \A r \in Row : r # NoRow
    BY NoRowAssumption DEF IInv, TypeOK
  <2>2. ASSUME NEW c \in Caller, Insert(c) PROVE rows'[o] = rows[o]
    BY <2>2 DEF Insert, Vacant, IInv, TypeOK
  <2>3. ASSUME NEW c \in Caller, Flip(c) PROVE rows'[o] # NoRow /\ rows'[o].sub = rows[o].sub
    <3>1. call[c].period \in Period
      BY <2>3, CallKinds DEF Flip, CanceledUpstream, At, IInv, TypeOK
    <3> QED BY <2>1, <2>3, <3>1 DEF Flip, IInv, TypeOK, Row, Status
  <2>4. ASSUME NEW w \in Worker, CommitIngest(w)
        PROVE  rows'[o] # NoRow /\ rows'[o].sub = rows[o].sub
    <3>1. CASE ingest[w].found = NoRow BY <3>1, <2>4 DEF CommitIngest
    <3>2. CASE ingest[w].found # NoRow
      <4> DEFINE e == ingest[w].event
                 p == ingest[w].found
      <4>1. rows' = [rows EXCEPT ![p] = Synced(@, e)] BY <3>2, <2>4 DEF CommitIngest
      <4>2. e \in Event BY <2>4 DEF CommitIngest, IInv, TypeOK, Delivery
      <4>3. Synced(rows[o], e) \in Row /\ Synced(rows[o], e).sub = rows[o].sub
        BY <2>1, <4>2, EventFields DEF Synced, Row
      <4> QED BY <2>1, <4>1, <4>3 DEF IInv, TypeOK
    <3> QED BY <3>1, <3>2
  <2>5. CASE UNCHANGED rows BY <2>5
  <2> QED BY <2>2, <2>3, <2>4, <2>5
      DEF Next, Request, Webhook, Change, ReadStart, CreateUpstream, ReadCancel, CancelUpstream,
          Fail, Claim, AbortIngest, vars
<1> QED BY <1>1, Invariance, PTL DEF Spec, FirstStartWins

(* Once its webhooks were taken in, none of them overtaken or dropped, a   *)
(* row has Stripe's status; and its period end, unless a cancellation      *)
(* wrote an older one back.                                                *)
THEOREM InSync == Spec => []InSyncUnlessReordered
<1>1. IInv => InSyncUnlessReordered
  <2>1. ASSUME IInv, NEW o \in Org, rows[o] # NoRow, TakenIn(rows[o].sub), rows[o].sub \notin reordered
        PROVE  LET s == rows[o].sub
               IN /\ rows[o].status = stripe[s].status
                  /\ dated[s] = seen[s] => rows[o].period = stripe[s].period
    <3> DEFINE s == rows[o].sub
               now == EventOf(s, stripe[s])
    <3>1. s \in Sub BY <2>1 DEF IInv, TypeOK, Row
    <3>2. stripe[s] # NoRow /\ seen[s] > 0 BY <2>1 DEF IInv, RowSound
    <3>3. stripe[s].version \in 1..(MaxVersion + 1) /\ seen[s] \in 0..(MaxVersion + 1)
      BY <2>1, <3>1, <3>2 DEF IInv, TypeOK, StripeSub, Version
    <3>4. /\ now \in events /\ now.sub = s /\ now.version = stripe[s].version
          /\ now.status = stripe[s].status /\ now.period = stripe[s].period
      BY <2>1, <3>1, <3>2 DEF IInv, StripeSound, EventOf
    <3>5. now.version =< 1 \/ now.version =< seen[s]
      <4>1. now \in recorded BY <2>1, <3>4 DEF TakenIn
      <4> QED BY <2>1, <3>4, <4>1 DEF IInv, RecordedSound
    <3>6. ASSUME NEW e \in events, e.sub = s, e.version = seen[s] PROVE e = now
      <4>1. seen[s] =< stripe[s].version BY <2>1, <3>6 DEF IInv, StripeSound
      <4>2. stripe[s].version = seen[s] BY <3>2, <3>3, <3>4, <3>5, <4>1, BoundAssumption
      <4> QED BY <2>1, <3>4, <3>6, <4>2 DEF IInv, StripeSound
    <3> HIDE DEF now, s
    <3>7. rows[o].status = stripe[s].status
      <4>1. CASE HadStatus(s, seen[s], rows[o].status) BY <4>1, <3>4, <3>6 DEF HadStatus
      <4>2. CASE rows[o].status = "canceled" /\ stripe[s].status = "canceled" BY <4>2
      <4> QED BY <2>1, <4>1, <4>2 DEF s, IInv, RowSound
    <3>8. ASSUME dated[s] = seen[s] PROVE rows[o].period = stripe[s].period
      <4>1. HadPeriod(s, dated[s], rows[o].period) BY <2>1 DEF s, IInv, RowSound
      <4> QED BY <4>1, <3>4, <3>6, <3>8 DEF HadPeriod
    <3> QED BY <3>7, <3>8 DEF s
  <2> QED BY <2>1 DEF InSyncUnlessReordered
<1> QED BY <1>1, Invariance, PTL
=============================================================================
