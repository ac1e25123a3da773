---------------------------- MODULE MailCapProofs ----------------------------
(* Proofs about MailCap, for any cap, zero included, and any number of     *)
(* deliveries and requests.  A day's row is held by one transaction, which *)
(* is why it may add to what is committed and be within the cap.           *)
EXTENDS MailCap, TLAPS

LEMMA Plus1Type ==
  ASSUME NEW count \in Counts, NEW b \in Database, NEW d \in Day
  PROVE  /\ Plus1(count, b, d) \in Counts
         /\ Plus1(count, b, d)[b][d] = count[b][d] + 1
         /\ \A a \in Database, e \in Day : (a = b /\ e = d) \/ Plus1(count, b, d)[a][e] = count[a][e]
<1> DEFINE f == [count[b] EXCEPT ![d] = count[b][d] + 1]
<1>1. count[b] \in [Day -> Nat] BY DEF Counts
<1>2. f \in [Day -> Nat] BY <1>1
<1>3. Plus1(count, b, d) = [count EXCEPT ![b] = f] BY DEF Plus1
<1> QED BY <1>1, <1>2, <1>3 DEF Counts

LEMMA Plus1Row ==
  ASSUME NEW count \in Counts, NEW b \in Database, NEW d \in Day
  PROVE  Plus1(count, b, d)[b] = [count[b] EXCEPT ![d] = @ + 1]
BY DEF Plus1, Counts

(* Of the other database it leaves every count alone.                      *)
LEMMA Plus1OtherRow ==
  ASSUME NEW count \in Counts, NEW b \in Database, NEW d \in Day, NEW a \in Database \ {b}
  PROVE  Plus1(count, b, d)[a] = count[a]
BY DEF Plus1, Counts

(* A step of one send leaves the others at theirs.                         *)
LEMMA GotoType ==
  ASSUME TypeOK, NEW s \in Sender, NEW x \in Send \union {None}, Goto(s, x)
  PROVE  /\ send' \in [Sender -> Send \union {None}] /\ send'[s] = x
         /\ \A r \in Sender \ {s} : send'[r] = send[r]
BY DEF TypeOK, Goto

LEMMA IInvInit == Init => IInv
<1> SUFFICES ASSUME Init PROVE IInv OBVIOUS
<1>1. Zero \in Counts /\ \A b \in Database, d \in Day : Zero[b][d] = 0
  BY DEF Zero, Counts
<1>2. 1 \in Day BY BoundAssumption DEF Day
<1>3. TypeOK BY <1>1, <1>2 DEF Init, TypeOK
<1>4. \A s \in Sender : send[s] = None BY DEF Init
<1>5. RowSound BY <1>4 DEF RowSound, Holding, Sender
<1>6. \A d \in Day : ~HandedOver(d) BY <1>4 DEF HandedOver, At, Sender
<1>7. CountSound BY <1>1, <1>6, CapAssumption DEF Init, CountSound, Database
<1> QED BY <1>3, <1>5, <1>7 DEF IInv
-----------------------------------------------------------------------------
(* The steps of a delivery that keep the counts: it takes the row, or      *)
(* gives it up with nothing accepted.                                      *)
LEMMA QuietKeeps ==
  ASSUME IInv, NEW s \in Delivery, NEW x \in Send \union {None}, Goto(s, x),
         ~At(s, "accepted"), x # None => x.step # "accepted",
         x # None /\ x.step # "begun" =>
           Left("server", x.day) /\ \A r \in Delivery \ {s} : Holding(r) => send[r].day # x.day,
         attempts' \in Counts, UNCHANGED <<today, sent, accepted, undone>>,
         \A d \in Day : attempts'["identity"][d] = attempts["identity"][d]
  PROVE  IInv'
<1>1. /\ s \in Sender /\ send' \in [Sender -> Send \union {None}] /\ send'[s] = x
      /\ \A r \in Sender \ {s} : send'[r] = send[r]
  BY GotoType DEF IInv, Sender
<1>2. TypeOK' BY <1>1 DEF IInv, TypeOK
<1>3. RowSound'
  <2>1. \A r \in Delivery \ {s} : Holding(r)' <=> Holding(r) BY <1>1 DEF Holding, Sender
  <2>2. Holding(s)' <=> x # None /\ x.step # "begun" BY <1>1 DEF Holding
  <2>3. ASSUME NEW r \in Delivery, Holding(r)'
        PROVE  sent["server"][send'[r].day] < Cap
    <3>1. CASE r = s BY <1>1, <2>2, <2>3, <3>1 DEF Left
    <3>2. CASE r # s
      <4>1. Holding(r) /\ send'[r] = send[r] BY <1>1, <2>1, <2>3, <3>2 DEF Sender
      <4> QED BY <4>1 DEF IInv, RowSound, Left
    <3> QED BY <3>1, <3>2
  <2>4. ASSUME NEW q \in Delivery, NEW r \in Delivery, Holding(q)', Holding(r)',
               send'[q].day = send'[r].day
        PROVE  q = r
    BY <1>1, <2>1, <2>2, <2>4 DEF IInv, RowSound, Sender
  <2> QED BY <2>3, <2>4 DEF RowSound, Left
<1>4. \A r \in Delivery, d \in Day :
        At(r, "accepted")' /\ send'[r].day = d <=> At(r, "accepted") /\ send[r].day = d
  <2>1. ~At(s, "accepted")' BY <1>1 DEF At
  <2> QED BY <1>1, <2>1 DEF At, Sender
<1>5. CountSound'
  <2>1. \A d \in Day : HandedOver(d)' <=> HandedOver(d) BY <1>4 DEF HandedOver
  <2> QED BY <2>1 DEF IInv, CountSound
<1> QED BY <1>2, <1>3, <1>5 DEF IInv

LEMMA TakingKeeps ==
  ASSUME IInv, NEW s \in Delivery, BeginDelivery(s) \/ ClaimInDelivery(s) \/ Refuse(s)
  PROVE  IInv'
<1>0. attempts \in Counts /\ send \in [Sender -> Send \union {None}] /\ s \in Sender /\ today \in Day
  BY DEF IInv, TypeOK, Sender
<1>1. CASE BeginDelivery(s)
  <2> DEFINE x == [day |-> today, step |-> "begun"]
  <2>1. x \in Send /\ x.step = "begun" BY <1>0 DEF Send
  <2>2. Goto(s, x) /\ ~At(s, "accepted") BY <1>1 DEF BeginDelivery, At
  <2> HIDE DEF x
  <2> QED BY <1>0, <1>1, <2>1, <2>2, QuietKeeps DEF BeginDelivery, history
<1>2. CASE ClaimInDelivery(s)
  <2> DEFINE d == send[s].day
             x == [send[s] EXCEPT !.step = "claimed"]
  <2>1. send[s] \in Send /\ send[s].step = "begun" BY <1>0, <1>2 DEF ClaimInDelivery, At
  <2>2. x \in Send /\ x.step = "claimed" /\ x.day = d /\ d \in Day BY <2>1 DEF Send
  <2>3. Goto(s, x) /\ ~At(s, "accepted") BY <1>2, <2>1 DEF ClaimInDelivery, At
  <2>4. \A r \in Delivery \ {s} : Holding(r) => send[r].day # d
    BY <1>2 DEF ClaimInDelivery, Locked, Holding
  <2>5. Left("server", d) /\ attempts' = Plus1(attempts, "server", d) BY <1>2 DEF ClaimInDelivery
  <2> HIDE DEF x, d
  <2>6. attempts' \in Counts /\ \A e \in Day : attempts'["identity"][e] = attempts["identity"][e]
    BY <1>0, <2>2, <2>5, Plus1Type DEF Database
  <2> QED BY <1>2, <2>2, <2>3, <2>4, <2>5, <2>6, QuietKeeps DEF ClaimInDelivery
<1>3. CASE Refuse(s)
  <2>1. ~At(s, "accepted") BY <1>3 DEF Refuse, At
  <2> QED BY <1>0, <1>3, <2>1, QuietKeeps DEF Refuse, history
<1> QED BY <1>1, <1>2, <1>3

(* The mail service takes the message of the transaction that holds the    *)
(* row: it is the only one accepted for the day and not yet decided.       *)
LEMMA AcceptInDeliveryKeeps ==
  ASSUME IInv, NEW s \in Delivery, Accept(s, "server")
  PROVE  IInv'
<1> DEFINE x == [send[s] EXCEPT !.step = "accepted"]
<1>1. send[s] \in Send /\ send[s].step = "claimed" BY DEF Accept, At, IInv, TypeOK, Sender
<1>4. PICK d \in Day : d = send[s].day BY <1>1 DEF Send
<1>2. x \in Send /\ x.step = "accepted" /\ x.day = d /\ d \in Day /\ x # None
  BY <1>1, <1>4, NoneAssumption DEF Send
<1>3. Goto(s, x) /\ accepted' = Plus1(accepted, "server", d) /\ UNCHANGED <<today, sent, attempts, undone>>
  BY <1>4 DEF Accept
<1> HIDE DEF x
<1>5. /\ send' \in [Sender -> Send \union {None}] /\ send'[s] = x
      /\ \A r \in Sender \ {s} : send'[r] = send[r]
  BY <1>2, <1>3, GotoType DEF IInv, Sender
<1>6. /\ accepted' \in Counts /\ accepted'["server"][d] = accepted["server"][d] + 1
      /\ \A e \in Day \ {d} : accepted'["server"][e] = accepted["server"][e]
  <2>1. accepted \in Counts /\ "server" \in Database BY DEF IInv, TypeOK, Database
  <2> QED BY <1>3, <2>1, Plus1Type
<1>7. TypeOK' BY <1>3, <1>5, <1>6 DEF IInv, TypeOK
<1>8. Holding(s) BY <1>1, NoneAssumption DEF Holding
<1>9. \A r \in Delivery : (Holding(r)' <=> Holding(r)) /\ (Holding(r) => send'[r].day = send[r].day)
  BY <1>2, <1>4, <1>5, <1>8 DEF Holding, Sender
<1>10. RowSound' BY <1>3, <1>9 DEF IInv, RowSound, Left
<1>11. HandedOver(d)' BY <1>2, <1>5 DEF HandedOver, At
<1>12. ~HandedOver(d)
  <2> SUFFICES ASSUME NEW r \in Delivery, At(r, "accepted"), send[r].day = d PROVE FALSE
    BY DEF HandedOver
  <2>1. r = s BY <1>4, <1>8 DEF At, Holding, IInv, RowSound
  <2> QED BY <1>1, <2>1 DEF At
<1>13. \A e \in Day \ {d} : HandedOver(e)' <=> HandedOver(e)
  <2> SUFFICES ASSUME NEW e \in Day \ {d}, NEW r \in Delivery
               PROVE  At(r, "accepted")' /\ send'[r].day = e <=> At(r, "accepted") /\ send[r].day = e
    BY DEF HandedOver
  <2> QED BY <1>2, <1>4, <1>5 DEF At, Sender
<1>14. CountSound'
  <2>1. ASSUME NEW e \in Day
        PROVE  accepted'["server"][e] = sent["server"][e] + undone["server"][e]
                                      + IF HandedOver(e)' THEN 1 ELSE 0
    <3>1. /\ accepted["server"][e] \in Nat /\ sent["server"][e] \in Nat /\ undone["server"][e] \in Nat
          /\ accepted["server"][e] = sent["server"][e] + undone["server"][e]
                                      + IF HandedOver(e) THEN 1 ELSE 0
      BY DEF IInv, TypeOK, CountSound, Counts, Database
    <3>2. CASE e = d BY <1>6, <1>11, <1>12, <3>1, <3>2
    <3>3. CASE e # d BY <1>6, <1>13, <3>1, <3>3
    <3> QED BY <3>2, <3>3
  <2> QED BY <1>3, <2>1 DEF IInv, CountSound
<1> QED BY <1>7, <1>10, <1>14 DEF IInv

(* A transaction ends: what it had handed over is committed or undone, and *)
(* its row is within the cap because it was below it while it was held.    *)
LEMMA EndingKeeps ==
  ASSUME IInv, NEW s \in Delivery, CommitDelivery(s) \/ RollBack(s)
  PROVE  IInv'
<1>1. /\ send[s] \in Send /\ send[s].day \in Day /\ Goto(s, None) /\ s \in Sender
      /\ UNCHANGED <<today, attempts, accepted>>
  BY DEF CommitDelivery, RollBack, At, history, IInv, TypeOK, Sender, Send
<1>2. /\ send' \in [Sender -> Send \union {None}] /\ send'[s] = None
      /\ \A r \in Sender \ {s} : send'[r] = send[r]
  BY <1>1, GotoType DEF IInv
<1>5. PICK d \in Day, handed \in BOOLEAN : d = send[s].day /\ (handed <=> At(s, "accepted"))
  BY <1>1
<1>3. \/ /\ handed /\ sent' = Plus1(sent, "server", d) /\ undone' = undone
      \/ /\ handed /\ sent' = sent /\ undone' = Plus1(undone, "server", d)
      \/ ~handed /\ sent' = sent /\ undone' = undone
  BY <1>5 DEF CommitDelivery, RollBack, CountUndone, At, history
<1>4. handed => Holding(s) BY <1>5 DEF At, Holding
<1>6. /\ sent \in Counts /\ undone \in Counts /\ accepted \in Counts
      /\ Plus1(sent, "server", d) \in Counts /\ Plus1(undone, "server", d) \in Counts
      /\ Plus1(sent, "server", d)["server"][d] = sent["server"][d] + 1
      /\ Plus1(undone, "server", d)["server"][d] = undone["server"][d] + 1
      /\ \A b \in Database, e \in Day : (b = "server" /\ e = d)
           \/ /\ Plus1(sent, "server", d)[b][e] = sent[b][e]
              /\ Plus1(undone, "server", d)[b][e] = undone[b][e]
  <2>1. sent \in Counts /\ undone \in Counts /\ accepted \in Counts /\ "server" \in Database
    BY DEF IInv, TypeOK, Database
  <2> QED BY <2>1, Plus1Type
<1>7. TypeOK' BY <1>1, <1>2, <1>3, <1>6 DEF IInv, TypeOK
<1>8. \A r \in Delivery : Holding(r)' => r # s /\ Holding(r) /\ send'[r] = send[r]
  BY <1>2 DEF Holding, Sender
<1>9. RowSound'
  <2>1. ASSUME NEW r \in Delivery, Holding(r)'
        PROVE  sent'["server"][send'[r].day] < Cap
    <3>1. r # s /\ Holding(r) /\ send'[r] = send[r] BY <1>8, <2>1
    <3>2. sent["server"][send[r].day] < Cap BY <3>1 DEF IInv, RowSound, Left
    <3>3. send[r].day \in Day BY <3>1 DEF Holding, IInv, TypeOK, Sender, Send
    <3>4. handed => send[r].day # d BY <1>4, <1>5, <3>1 DEF IInv, RowSound
    <3> QED BY <1>3, <1>6, <3>1, <3>2, <3>3, <3>4 DEF Database
  <2> QED BY <1>8, <2>1 DEF IInv, RowSound, Left
<1>10. handed => HandedOver(d) /\ ~HandedOver(d)'
  <2> SUFFICES ASSUME handed PROVE HandedOver(d) /\ ~HandedOver(d)' OBVIOUS
  <2>1. HandedOver(d) BY <1>5 DEF HandedOver
  <2>2. ASSUME NEW r \in Delivery, At(r, "accepted")', send'[r].day = d PROVE FALSE
    <3>1. r # s /\ Holding(r) /\ send[r].day = d BY <1>8, <2>2 DEF At, Holding
    <3> QED BY <1>4, <1>5, <3>1 DEF IInv, RowSound
  <2> QED BY <2>1, <2>2 DEF HandedOver
<1>11. \A e \in Day : e # d \/ ~handed => (HandedOver(e)' <=> HandedOver(e))
  <2> SUFFICES ASSUME NEW e \in Day, e # d \/ ~handed, NEW r \in Delivery
               PROVE  At(r, "accepted")' /\ send'[r].day = e <=> At(r, "accepted") /\ send[r].day = e
    BY DEF HandedOver
  <2>1. CASE r = s BY <1>2, <1>5, <2>1 DEF At
  <2>2. CASE r # s BY <1>2, <2>2 DEF At, Sender
  <2> QED BY <2>1, <2>2
<1>12. CountSound'
  <2>1. \A e \in Day : sent'["identity"][e] = sent["identity"][e]
    BY <1>3, <1>6 DEF Database
  <2>2. ASSUME NEW e \in Day
        PROVE  /\ sent'["server"][e] <= Cap
               /\ accepted["server"][e] = sent'["server"][e] + undone'["server"][e]
                                         + IF HandedOver(e)' THEN 1 ELSE 0
    <3>1. /\ accepted["server"][e] \in Nat /\ sent["server"][e] \in Nat /\ undone["server"][e] \in Nat
          /\ sent["server"][e] <= Cap /\ Cap \in Nat
          /\ accepted["server"][e] = sent["server"][e] + undone["server"][e]
                                      + IF HandedOver(e) THEN 1 ELSE 0
      BY <1>6, CapAssumption DEF IInv, CountSound, Counts, Database
    <3>2. CASE handed /\ e = d
      <4>1. sent["server"][d] < Cap BY <1>4, <1>5, <3>2 DEF IInv, RowSound, Left
      <4> QED BY <1>3, <1>6, <1>10, <3>1, <3>2, <4>1
    <3>3. CASE ~(handed /\ e = d)
      <4>1. sent'["server"][e] = sent["server"][e] /\ undone'["server"][e] = undone["server"][e]
        BY <1>3, <1>6, <3>3 DEF Database
      <4> QED BY <1>11, <3>1, <3>3, <4>1
    <3> QED BY <3>2, <3>3
  <2> QED BY <1>1, <2>1, <2>2 DEF IInv, CountSound, Database
<1> QED BY <1>7, <1>9, <1>12 DEF IInv

(* A request of the identity worker leaves the server's counts alone; the  *)
(* statement adds to what it has just compared with the cap.               *)
LEMMA RequestKeeps ==
  ASSUME IInv, NEW s \in Request, ClaimInRequest(s) \/ Accept(s, "identity") \/ EndRequest(s)
  PROVE  IInv'
<1>1. /\ s \in Sender /\ today \in Day /\ send[s] \in Send \union {None} /\ s \notin Delivery
      /\ sent \in Counts /\ attempts \in Counts /\ accepted \in Counts
  BY SenderAssumption DEF IInv, TypeOK, Sender
<1>2. PICK x \in Send \union {None} : Goto(s, x)
  <2>1. CASE ClaimInRequest(s)
    <3>1. [day |-> today, step |-> "claimed"] \in Send BY <1>1 DEF Send
    <3> QED BY <2>1, <3>1 DEF ClaimInRequest
  <2>2. CASE Accept(s, "identity")
    <3>1. [send[s] EXCEPT !.step = "accepted"] \in Send BY <1>1, <2>2 DEF Accept, At, Send
    <3> QED BY <2>2, <3>1 DEF Accept
  <2>3. CASE EndRequest(s) BY <2>3 DEF EndRequest
  <2> QED BY <2>1, <2>2, <2>3
<1>3. /\ send' \in [Sender -> Send \union {None}]
      /\ \A r \in Delivery : send'[r] = send[r]
  BY <1>1, <1>2, GotoType DEF IInv, Sender
<1>4. /\ UNCHANGED <<today, undone>>
      /\ accepted' \in Counts /\ sent' \in Counts /\ attempts' \in Counts
      /\ \A e \in Day : /\ accepted'["server"][e] = accepted["server"][e]
                        /\ sent'["server"][e] = sent["server"][e]
                        /\ sent'["identity"][e] = attempts'["identity"][e]
                        /\ sent'["identity"][e] <= Cap
  <2>1. CASE ClaimInRequest(s)
    <3>1. /\ sent' = Plus1(sent, "identity", today) /\ attempts' = Plus1(attempts, "identity", today)
          /\ sent["identity"][today] < Cap /\ UNCHANGED <<today, accepted, undone>>
      BY <2>1 DEF ClaimInRequest, Left
    <3>2. /\ sent' \in Counts /\ attempts' \in Counts
          /\ sent'["identity"][today] = sent["identity"][today] + 1
          /\ attempts'["identity"][today] = attempts["identity"][today] + 1
          /\ \A b \in Database, e \in Day : (b = "identity" /\ e = today)
               \/ (sent'[b][e] = sent[b][e] /\ attempts'[b][e] = attempts[b][e])
      <4>1. "identity" \in Database BY DEF Database
      <4> QED BY <1>1, <3>1, <4>1, Plus1Type
    <3>3. \A e \in Day : /\ sent["identity"][e] = attempts["identity"][e]
                         /\ sent["identity"][e] <= Cap /\ sent["identity"][e] \in Nat
      BY <1>1 DEF IInv, CountSound, Database, Counts
    <3> QED BY <1>1, <3>1, <3>2, <3>3, CapAssumption DEF Database
  <2>2. CASE Accept(s, "identity")
    <3>1. send[s].day \in Day BY <1>1, <2>2 DEF Accept, At, Send
    <3>2. /\ accepted' = Plus1(accepted, "identity", send[s].day)
          /\ UNCHANGED <<today, sent, attempts, undone>>
      BY <2>2 DEF Accept
    <3>3. accepted' \in Counts /\ \A e \in Day : accepted'["server"][e] = accepted["server"][e]
      BY <1>1, <3>1, <3>2, Plus1Type DEF Database
    <3> QED BY <1>1, <3>2, <3>3 DEF IInv, CountSound, Database
  <2>3. CASE EndRequest(s)
    BY <1>1, <2>3 DEF EndRequest, history, IInv, CountSound, Database
  <2> QED BY <2>1, <2>2, <2>3
<1>5. TypeOK' BY <1>3, <1>4 DEF IInv, TypeOK
<1>6. RowSound'
  <2>1. \A r \in Delivery : Holding(r)' <=> Holding(r) BY <1>3 DEF Holding
  <2>2. ASSUME NEW r \in Delivery, Holding(r)
        PROVE  sent'["server"][send'[r].day] < Cap
    <3>1. sent["server"][send[r].day] < Cap BY <2>2 DEF IInv, RowSound, Left
    <3>2. send[r].day \in Day BY <2>2 DEF Holding, IInv, TypeOK, Sender, Send
    <3> QED BY <1>3, <1>4, <3>1, <3>2
  <2> QED BY <1>3, <2>1, <2>2 DEF IInv, RowSound, Left
<1>7. CountSound'
  <2>1. \A d \in Day : HandedOver(d)' <=> HandedOver(d) BY <1>3 DEF HandedOver, At
  <2> QED BY <1>4, <2>1 DEF IInv, CountSound, Database
<1> QED BY <1>5, <1>6, <1>7 DEF IInv

LEMMA IInvStep == IInv /\ [Next]_vars => IInv'
<1> SUFFICES ASSUME IInv, [Next]_vars PROVE IInv' OBVIOUS
<1>1. CASE UNCHANGED <<sent, send, attempts, accepted, undone>> /\ today' \in Day
  <2>1. \A r : Holding(r)' = Holding(r) BY <1>1 DEF Holding
  <2>2. \A d : HandedOver(d)' = HandedOver(d) BY <1>1 DEF HandedOver, At
  <2> QED BY <1>1, <2>1, <2>2 DEF IInv, TypeOK, RowSound, CountSound, Left
<1>2. CASE NextDay
  BY <1>1, <1>2, BoundAssumption DEF NextDay, history, IInv, TypeOK, Day
<1>3. CASE UNCHANGED vars BY <1>1, <1>3 DEF vars, history, IInv, TypeOK
<1> QED BY <1>2, <1>3, TakingKeeps, AcceptInDeliveryKeeps, EndingKeeps, RequestKeeps DEF Next
-----------------------------------------------------------------------------
(* Every reachable state satisfies the inductive invariant.                *)
THEOREM Invariance == Spec => []IInv
BY IInvInit, IInvStep, PTL DEF Spec

(* The variables keep their types: in particular no rollback takes a count *)
(* below zero.                                                             *)
THEOREM TypeCorrectness == Spec => []TypeOK
<1>1. IInv => TypeOK BY DEF IInv
<1> QED BY <1>1, Invariance, PTL

(* However many deliveries race for the day's last counts, and roll back,  *)
(* and whichever requests die, the cap holds of what was not undone.       *)
THEOREM CapHeld == Spec => []CapHeldUnlessUndone
<1>1. IInv => CapHeldUnlessUndone
  <2> SUFFICES ASSUME IInv, NEW d \in Day
               PROVE  /\ attempts["identity"][d] <= Cap
                      /\ accepted["server"][d] - undone["server"][d] <= Cap
    BY DEF CapHeldUnlessUndone
  <2>1. /\ accepted["server"][d] \in Nat /\ sent["server"][d] \in Nat /\ undone["server"][d] \in Nat
        /\ Cap \in Nat
    BY CapAssumption DEF IInv, TypeOK, Counts, Database
  <2>2. CASE HandedOver(d)
    <3>1. sent["server"][d] < Cap BY <2>2 DEF HandedOver, At, Holding, Left, IInv, RowSound
    <3> QED BY <2>1, <2>2, <3>1 DEF IInv, CountSound, Database
  <2>3. CASE ~HandedOver(d) BY <2>1, <2>3 DEF IInv, CountSound, Database
  <2> QED BY <2>2, <2>3
<1> QED BY Invariance, <1>1, PTL

(* A mail that was refused, or whose reaction failed, uses nothing up.     *)
THEOREM CapNotWasted == Spec => RefusedOnlyWhenSpent
<1>1. ASSUME IInv, NEW s \in Delivery, Refuse(s)
      PROVE  accepted["server"][send[s].day] - undone["server"][send[s].day] = Cap
  <2> DEFINE d == send[s].day
  <2>1. d \in Day /\ send[s] # None /\ send[s].step = "begun"
    BY <1>1 DEF Refuse, At, IInv, TypeOK, Sender, Send
  <2>2. ~HandedOver(d)
    <3> SUFFICES ASSUME NEW r \in Delivery, At(r, "accepted"), send[r].day = d PROVE FALSE
      BY DEF HandedOver
    <3>1. r # s BY <2>1 DEF At
    <3> QED BY <1>1, <3>1 DEF Refuse, Locked, At
  <2>3. /\ accepted["server"][d] \in Nat /\ sent["server"][d] \in Nat /\ undone["server"][d] \in Nat
        /\ Cap \in Nat
    BY <1>1, <2>1, CapAssumption DEF IInv, TypeOK, Counts, Database
  <2>4. sent["server"][d] = Cap
    BY <1>1, <2>1, <2>3 DEF Refuse, Left, IInv, CountSound, Database
  <2> QED BY <1>1, <2>1, <2>2, <2>3, <2>4 DEF IInv, CountSound
<1>2. IInv /\ [Next]_vars =>
        [\A s \in Delivery :
           LET d == send[s].day
           IN Refuse(s) => accepted["server"][d] - undone["server"][d] = Cap]_vars
  BY <1>1
<1> QED BY Invariance, <1>2, PTL DEF Spec, RefusedOnlyWhenSpent
-----------------------------------------------------------------------------
(* The transactions of the server and the statements of the identity       *)
(* worker implement Quota.                                                 *)

(* Who holds which rows decides what is used, with the committed counts.   *)
LEMMA SameUse ==
  ASSUME UNCHANGED <<sent["server"], attempts["server"]>>,
         \A r \in Delivery : /\ Holding(r)' <=> Holding(r)
                             /\ Holding(r) => send'[r].day = send[r].day
  PROVE  UNCHANGED Server!vars
<1>1. \A d \in Day : HeldFor(d)' <=> HeldFor(d) BY DEF HeldFor
<1>2. \A d \in Day : UsedOn(d)' = UsedOn(d) BY <1>1 DEF UsedOn
<1> QED BY <1>2 DEF Server!vars

(* A delivery's step that takes no row and gives none up is a stutter.     *)
LEMMA QuietRefines ==
  ASSUME IInv, NEW s \in Delivery, NEW x \in Send \union {None}, Goto(s, x),
         UNCHANGED <<sent, attempts>>,
         Holding(s) <=> x # None /\ x.step # "begun",
         Holding(s) => x.day = send[s].day
  PROVE  UNCHANGED Server!vars
<1>1. /\ s \in Sender /\ send'[s] = x
      /\ \A r \in Sender \ {s} : send'[r] = send[r]
  BY GotoType DEF IInv, Sender
<1>2. ASSUME NEW r \in Delivery
      PROVE  (Holding(r)' <=> Holding(r)) /\ (Holding(r) => send'[r].day = send[r].day)
  <2>1. CASE r = s BY <1>1, <2>1 DEF Holding
  <2>2. CASE r # s BY <1>1, <2>2 DEF Holding, Sender
  <2> QED BY <2>1, <2>2
<1> QED BY <1>2, SameUse

(* The claim takes a use of its day: nobody holds the day's row.           *)
LEMMA ClaimRefines ==
  ASSUME IInv, NEW s \in Delivery, ClaimInDelivery(s)
  PROVE  Server!Next
<1>1. send[s] \in Send /\ send[s].step = "begun" /\ send[s].day \in Day /\ s \in Sender
  BY DEF ClaimInDelivery, At, IInv, TypeOK, Sender, Send
<1> PICK d \in Day : d = send[s].day BY <1>1
<1> DEFINE x == [send[s] EXCEPT !.step = "claimed"]
<1>2. x \in Send /\ x.step = "claimed" /\ x.day = d /\ x # None
  BY <1>1, NoneAssumption DEF Send
<1>3. /\ Goto(s, x) /\ attempts' = Plus1(attempts, "server", d) /\ sent' = sent
      /\ sent["server"][d] < Cap /\ ~Locked(s)
  BY DEF ClaimInDelivery, Left
<1> HIDE DEF x
<1>4. send'[s] = x /\ \A r \in Sender \ {s} : send'[r] = send[r]
  BY <1>1, <1>2, <1>3, GotoType DEF IInv
<1>5. ~HeldFor(d) BY <1>1, <1>3 DEF HeldFor, Holding, Locked
<1>6. HeldFor(d)' BY <1>2, <1>4 DEF HeldFor, Holding
<1>7. ASSUME NEW e \in Day \ {d} PROVE HeldFor(e)' <=> HeldFor(e)
  BY <1>1, <1>2, <1>4 DEF HeldFor, Holding, Sender
<1>8. UsedOn(d) < Cap /\ UsedOn(d)' = UsedOn(d) + 1 /\ \A e \in Day \ {d} : UsedOn(e)' = UsedOn(e)
  <2>1. sent["server"][d] \in Nat BY DEF IInv, TypeOK, Counts, Database
  <2> QED BY <1>3, <1>5, <1>6, <1>7, <2>1 DEF UsedOn
<1>9. attempts'["server"] = [attempts["server"] EXCEPT ![d] = @ + 1]
  <2>1. attempts \in Counts /\ "server" \in Database BY DEF IInv, TypeOK, Database
  <2> QED BY <1>3, <2>1, Plus1Row
<1>10. Server!Take(d) BY <1>8, <1>9 DEF Server!Take
<1> QED BY <1>10 DEF Server!Next

(* Giving up a row: its commit keeps what was used, its rollback gives it  *)
(* back.                                                                   *)
LEMMA EndingRefines ==
  ASSUME IInv, NEW s \in Delivery, CommitDelivery(s) \/ RollBack(s)
  PROVE  [Server!Next]_(Server!vars)
<1>1. /\ send[s] \in Send /\ send[s].day \in Day /\ s \in Sender /\ send[s] # None
      /\ Goto(s, None) /\ attempts' = attempts
  BY DEF CommitDelivery, RollBack, At, history, IInv, TypeOK, Sender, Send
<1> PICK d \in Day : d = send[s].day BY <1>1
<1>2. send'[s] = None /\ \A r \in Sender \ {s} : send'[r] = send[r]
  BY <1>1, GotoType DEF IInv
<1>3. CASE ~Holding(s)
  <2>1. sent' = sent BY <1>1, <1>3 DEF Holding, CommitDelivery, RollBack, CountUndone, At
  <2> QED BY <1>1, <1>3, <2>1, QuietRefines
<1>4. CASE Holding(s)
  <2>1. HeldFor(d) BY <1>4 DEF HeldFor
  <2>2. \A r \in Delivery : Holding(r)' <=> Holding(r) /\ r # s
    BY <1>2 DEF Holding, Sender
  <2>3. \A r \in Delivery \ {s} : send'[r] = send[r] BY <1>2 DEF Sender
  <2>4. ~HeldFor(d)' BY <1>4, <2>2, <2>3 DEF HeldFor, IInv, RowSound
  <2>5. ASSUME NEW e \in Day \ {d} PROVE HeldFor(e)' <=> HeldFor(e)
    BY <2>2, <2>3 DEF HeldFor
  <2>6. \A e \in Day : sent["server"][e] \in Nat BY DEF IInv, TypeOK, Counts, Database
  <2>7. CASE CommitDelivery(s)
    <3>1. /\ sent'["server"][d] = sent["server"][d] + 1
          /\ \A e \in Day \ {d} : sent'["server"][e] = sent["server"][e]
      <4>1. sent \in Counts /\ "server" \in Database BY DEF IInv, TypeOK, Database
      <4> QED BY <2>7, <4>1, Plus1Type DEF CommitDelivery
    <3>2. \A e \in Day : UsedOn(e)' = UsedOn(e)
      BY <2>1, <2>4, <2>5, <2>6, <3>1 DEF UsedOn
    <3> QED BY <1>1, <3>2 DEF Server!vars
  <2>8. CASE RollBack(s)
    <3>1. sent' = sent BY <2>8 DEF RollBack, CountUndone
    <3>2. /\ UsedOn(d) > 0 /\ UsedOn(d)' = UsedOn(d) - 1
          /\ \A e \in Day \ {d} : UsedOn(e)' = UsedOn(e)
      BY <2>1, <2>4, <2>5, <2>6, <3>1 DEF UsedOn
    <3>3. Server!GiveBack(d) BY <1>1, <3>2 DEF Server!GiveBack
    <3> QED BY <3>3 DEF Server!Next
  <2> QED BY <2>7, <2>8
<1> QED BY <1>3, <1>4

(* The identity worker's steps are no concern of the server's quota.       *)
LEMMA OtherDatabase ==
  ASSUME IInv, NEW s \in Request, ClaimInRequest(s) \/ Accept(s, "identity") \/ EndRequest(s)
  PROVE  UNCHANGED Server!vars
<1>1. \A r \in Delivery : send'[r] = send[r]
  BY SenderAssumption
     DEF ClaimInRequest, Accept, EndRequest, Goto, IInv, TypeOK, Sender
<1>2. UNCHANGED <<sent["server"], attempts["server"]>>
  <2>1. sent \in Counts /\ attempts \in Counts /\ today \in Day
        /\ "server" \in Database \ {"identity"} /\ "identity" \in Database
    BY DEF IInv, TypeOK, Database
  <2>2. CASE ClaimInRequest(s)
    <3>1. sent' = Plus1(sent, "identity", today) /\ attempts' = Plus1(attempts, "identity", today)
      BY <2>2 DEF ClaimInRequest
    <3>2. /\ Plus1(sent, "identity", today)["server"] = sent["server"]
          /\ Plus1(attempts, "identity", today)["server"] = attempts["server"]
      BY <2>1, Plus1OtherRow
    <3> QED BY <3>1, <3>2
  <2>3. CASE UNCHANGED <<sent, attempts>> BY <2>3
  <2> QED BY <2>2, <2>3 DEF Accept, EndRequest, history
<1> QED BY <1>1, <1>2, SameUse DEF Holding

(* Overlapping transactions that claim, commit and roll back come to one   *)
(* quota of Cap uses a day in the server, of which those that did not      *)
(* last are given back; the statements of the identity worker to one that  *)
(* gives nothing back (daily-capped-mailer-live.ts of both).               *)
THEOREM Refinement == Spec => ImplementsQuota
<1>1. Init => Server!Init /\ Identity!Init
  <2> SUFFICES ASSUME Init PROVE Server!Init /\ Identity!Init OBVIOUS
  <2>1. \A b \in Database : sent[b] = [d \in Day |-> 0] /\ attempts[b] = [d \in Day |-> 0]
    BY DEF Init, Zero
  <2>2. \A d \in Day : ~HeldFor(d) BY DEF Init, HeldFor, Holding, Sender
  <2>3. \A d \in Day : UsedOn(d) = 0 BY <2>1, <2>2 DEF UsedOn, Database
  <2> QED BY <2>1, <2>3 DEF Server!Init, Identity!Init, Database
<1>2. IInv /\ [Next]_vars => [Server!Next]_(Server!vars)
  <2> SUFFICES ASSUME IInv, [Next]_vars PROVE [Server!Next]_(Server!vars) OBVIOUS
  <2>1. CASE UNCHANGED <<sent, send, attempts>>
    BY <2>1, SameUse DEF Holding
  <2>2. ASSUME NEW s \in Delivery, BeginDelivery(s) PROVE UNCHANGED Server!vars
    <3> DEFINE x == [day |-> today, step |-> "begun"]
    <3>1. x \in Send /\ x.step = "begun" BY DEF Send, IInv, TypeOK
    <3>2. Goto(s, x) /\ ~Holding(s) /\ UNCHANGED <<sent, attempts>>
      BY <2>2 DEF BeginDelivery, Holding, history
    <3> HIDE DEF x
    <3> QED BY <3>1, <3>2, QuietRefines
  <2>3. ASSUME NEW s \in Delivery, Refuse(s) PROVE UNCHANGED Server!vars
    <3>1. Goto(s, None) /\ ~Holding(s) /\ UNCHANGED <<sent, attempts>>
      BY <2>3 DEF Refuse, At, Holding, history
    <3> QED BY <3>1, QuietRefines
  <2>4. ASSUME NEW s \in Delivery, Accept(s, "server") PROVE UNCHANGED Server!vars
    <3> DEFINE x == [send[s] EXCEPT !.step = "accepted"]
    <3>1. send[s] \in Send /\ Holding(s)
      BY <2>4 DEF Accept, At, Holding, IInv, TypeOK, Sender
    <3>2. x \in Send /\ x.step = "accepted" /\ x.day = send[s].day /\ x # None
      BY <3>1, NoneAssumption DEF Send
    <3>3. Goto(s, x) /\ UNCHANGED <<sent, attempts>> BY <2>4 DEF Accept
    <3> HIDE DEF x
    <3> QED BY <3>1, <3>2, <3>3, QuietRefines
  <2>5. CASE NextDay BY <2>1, <2>5 DEF NextDay, history
  <2>6. CASE UNCHANGED vars BY <2>1, <2>6 DEF vars, history
  <2> QED BY <2>2, <2>3, <2>4, <2>5, <2>6, ClaimRefines, EndingRefines, OtherDatabase DEF Next
<1>3. IInv /\ [Next]_vars => [Identity!Next]_(Identity!vars)
  <2> SUFFICES ASSUME IInv, [Next]_vars PROVE [Identity!Next]_(Identity!vars) OBVIOUS
  <2>1. /\ sent \in Counts /\ attempts \in Counts /\ today \in Day
        /\ "server" \in Database /\ "identity" \in Database \ {"server"}
    BY DEF IInv, TypeOK, Database
  <2>2. ASSUME NEW s \in Request, ClaimInRequest(s) PROVE Identity!Next
    <3>1. /\ sent'["identity"] = [sent["identity"] EXCEPT ![today] = @ + 1]
          /\ attempts'["identity"] = [attempts["identity"] EXCEPT ![today] = @ + 1]
          /\ sent["identity"][today] < Cap
      BY <2>1, <2>2, Plus1Row DEF ClaimInRequest, Left
    <3>2. Identity!Take(today) BY <3>1 DEF Identity!Take
    <3> QED BY <2>1, <3>2 DEF Identity!Next
  <2>3. ASSUME NEW s \in Delivery,
               \/ BeginDelivery(s) \/ ClaimInDelivery(s) \/ Refuse(s)
               \/ Accept(s, "server") \/ CommitDelivery(s) \/ RollBack(s)
        PROVE  UNCHANGED Identity!vars
    <3>1. s \in Sender /\ (send[s] # None => send[s].day \in Day)
      BY DEF IInv, TypeOK, Sender, Send
    <3>2. CASE ClaimInDelivery(s)
      <4>1. sent' = sent /\ attempts' = Plus1(attempts, "server", send[s].day) /\ send[s] # None
        BY <3>2 DEF ClaimInDelivery, At
      <4>2. Plus1(attempts, "server", send[s].day)["identity"] = attempts["identity"]
        BY <2>1, <3>1, <4>1, Plus1OtherRow
      <4> QED BY <4>1, <4>2 DEF Identity!vars
    <3>3. CASE CommitDelivery(s)
      <4>1. sent' = Plus1(sent, "server", send[s].day) /\ attempts' = attempts /\ send[s] # None
        BY <3>3 DEF CommitDelivery, At, history
      <4>2. Plus1(sent, "server", send[s].day)["identity"] = sent["identity"]
        BY <2>1, <3>1, <4>1, Plus1OtherRow
      <4> QED BY <4>1, <4>2 DEF Identity!vars
    <3>4. CASE UNCHANGED <<sent, attempts>> BY <3>4 DEF Identity!vars
    <3> QED BY <2>3, <3>2, <3>3, <3>4
            DEF BeginDelivery, Refuse, Accept, RollBack, CountUndone, history
  <2>4. CASE UNCHANGED <<sent, attempts>> BY <2>4 DEF Identity!vars
  <2> QED BY <2>2, <2>3, <2>4 DEF Next, NextDay, Accept, EndRequest, vars, history
<1> QED BY <1>1, <1>2, <1>3, Invariance, PTL DEF Spec, ImplementsQuota, Server!Spec, Identity!Spec
=============================================================================
