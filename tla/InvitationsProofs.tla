-------------------------- MODULE InvitationsProofs --------------------------
(***************************************************************************)
(* Proofs about Invitations, for every number of invitations, addresses,   *)
(* accounts, concurrent commands and tokens.                               *)
(***************************************************************************)
EXTENDS Invitations, TLAPS

USE DEF mailVars

(* What a command may decide to write, given the rows it read.             *)
Decision(cmd, i, row, u) ==
  /\ [cmd |-> cmd, inv |-> i, new |-> row, user |-> u] \in RowTxn
  /\ cmd \in {"issue", "reissue"} => row.token \in FreshTokens /\ row.state = "open"
  /\ cmd = "issue" => /\ i \in UnusedIds
                      /\ \A j \in InvId : Open(j) => rows[j].email # row.email
  /\ cmd # "issue" => Open(i) /\ rows[i].email = row.email
  /\ cmd \in {"revoke", "accept"} => row.token = rows[i].token /\ row.state # "open"
  /\ cmd = "accept" => row.state = "accepted" /\ u \in User

Reads(c) == \E cmd \in {"issue", "reissue", "revoke", "accept"}, i \in InvId, row \in Row,
               u \in User \union {None} : Begin(c, cmd, i, row, u) /\ Decision(cmd, i, row, u)

(* Every read step begins a transaction with such a decision.              *)
LEMMA ReadStep ==
  ASSUME TypeOK, NEW c \in Caller,
         \/ \E e \in Email : ReadInvite(c, e)
         \/ \E i \in InvId : ReadResend(c, i) \/ ReadRevoke(c, i)
         \/ \E i \in InvId, u \in User : ReadAccept(c, u, i)
  PROVE  Reads(c)
<1> USE NoRowAssumption, NoneAssumption DEF Exists, Open, IsOpen
<1>1. ASSUME NEW e \in Email, ReadInvite(c, e) PROVE Reads(c)
  <2>1. PICK t \in FreshTokens :
          \/ \E i \in OpenInvites(e) : Begin(c, "reissue", i, Reissued(rows[i], t), None)
          \/ /\ OpenInvites(e) = {}
             /\ \E i \in UnusedIds :
                  Begin(c, "issue", i, [email |-> e, token |-> t, state |-> "open"], None)
    BY <1>1 DEF ReadInvite
  <2>2. ASSUME NEW i \in OpenInvites(e), Begin(c, "reissue", i, Reissued(rows[i], t), None)
        PROVE  Reads(c)
    <3>1. i \in InvId /\ rows[i] \in Row /\ rows[i].state = "open"
      BY <2>2 DEF OpenInvites, TypeOK
    <3>2. /\ Reissued(rows[i], t) \in Row /\ Reissued(rows[i], t).token = t
          /\ Reissued(rows[i], t).state = "open"
          /\ Reissued(rows[i], t).email = rows[i].email
      BY <3>1 DEF Reissued, Row, FreshTokens
    <3>3. Decision("reissue", i, Reissued(rows[i], t), None)
      BY <3>1, <3>2 DEF Decision, RowTxn
    <3> QED BY <2>2, <3>1, <3>2, <3>3 DEF Reads
  <2>3. ASSUME OpenInvites(e) = {}, NEW i \in UnusedIds,
               Begin(c, "issue", i, [email |-> e, token |-> t, state |-> "open"], None)
        PROVE  Reads(c)
    <3> DEFINE row == [email |-> e, token |-> t, state |-> "open"]
    <3>1. row \in Row /\ i \in InvId BY DEF Row, FreshTokens, UnusedIds
    <3>2. \A j \in InvId : Open(j) => rows[j].email # e BY <2>3 DEF OpenInvites
    <3>3. Decision("issue", i, row, None) BY <3>1, <3>2 DEF Decision, RowTxn
    <3> QED BY <2>3, <3>1, <3>3 DEF Reads
  <2> QED BY <2>1, <2>2, <2>3
<1>2. ASSUME NEW i \in InvId, ReadResend(c, i) PROVE Reads(c)
  <2>1. PICK t \in FreshTokens : Begin(c, "reissue", i, Reissued(rows[i], t), None)
    BY <1>2 DEF ReadResend
  <2>2. rows[i] \in Row /\ rows[i].state = "open" BY <1>2 DEF ReadResend, TypeOK
  <2>3. /\ Reissued(rows[i], t) \in Row /\ Reissued(rows[i], t).token = t
        /\ Reissued(rows[i], t).state = "open"
        /\ Reissued(rows[i], t).email = rows[i].email
    BY <2>2 DEF Reissued, Row, FreshTokens
  <2>4. Decision("reissue", i, Reissued(rows[i], t), None)
    BY <2>2, <2>3 DEF Decision, RowTxn
  <2> QED BY <2>1, <2>3, <2>4 DEF Reads
<1>3. ASSUME NEW i \in InvId, ReadRevoke(c, i) PROVE Reads(c)
  <2>1. rows[i] \in Row /\ rows[i].state = "open" BY <1>3 DEF ReadRevoke, TypeOK
  <2>2. /\ Revoked(rows[i]) \in Row /\ Revoked(rows[i]).state = "revoked"
        /\ Revoked(rows[i]).email = rows[i].email /\ Revoked(rows[i]).token = rows[i].token
    BY <2>1 DEF Revoked, Row
  <2>3. Decision("revoke", i, Revoked(rows[i]), None) BY <2>1, <2>2 DEF Decision, RowTxn
  <2> QED BY <1>3, <2>2, <2>3 DEF Reads, ReadRevoke
<1>4. ASSUME NEW i \in InvId, NEW u \in User, ReadAccept(c, u, i) PROVE Reads(c)
  <2>1. rows[i] \in Row /\ rows[i].state = "open" BY <1>4 DEF ReadAccept, TypeOK
  <2>2. /\ Accepted(rows[i]) \in Row /\ Accepted(rows[i]).state = "accepted"
        /\ Accepted(rows[i]).email = rows[i].email /\ Accepted(rows[i]).token = rows[i].token
    BY <2>1 DEF Accepted, Row
  <2>3. Decision("accept", i, Accepted(rows[i]), u) BY <2>1, <2>2 DEF Decision, RowTxn
  <2> QED BY <1>4, <2>2, <2>3 DEF Reads, ReadAccept
<1> QED BY <1>1, <1>2, <1>3, <1>4
-----------------------------------------------------------------------------
(* A step is a read, a write, an email's step or the passing of time.      *)
LEMMA StepCases ==
  ASSUME TypeOK, [Next]_vars
  PROVE  \/ \E c \in Caller : Reads(c) \/ (\E u \in User : ReadLeave(c, u)) \/ CommitRow(c)
                              \/ CommitLeave(c) \/ Abort(c)
         \/ \E e \in due : ReadBack(e) \/ Send(e) \/ FailSend(e)
         \/ \E i \in InvId : Lapse(i)
         \/ UNCHANGED vars
BY ReadStep DEF Next, Command

(* What c's transaction will write, once it is known to write.             *)
LEMMA WriteType ==
  ASSUME TypeOK, NEW c \in Caller, Writes(c)
  PROVE  /\ txn[c] # None /\ txn[c].inv \in InvId /\ txn[c].new \in Row
         /\ txn[c].new.token \in Token /\ txn[c].new # NoRow
         /\ txn[c].cmd \in {"issue", "reissue", "revoke", "accept"}
         /\ txn[c].user \in User \union {None}
BY NoRowAssumption, NoneAssumption DEF Writes, RowTxn, Row

(* Every step keeps the types.                                             *)
LEMMA TypeStep == TypeOK /\ TxnSound /\ UsedSound /\ [Next]_vars => TypeOK'
<1> SUFFICES ASSUME TypeOK, TxnSound, UsedSound, [Next]_vars PROVE TypeOK' OBVIOUS
<1> USE NoRowAssumption, NoneAssumption
<1>1. ASSUME NEW c \in Caller, Reads(c) PROVE TypeOK'
  BY <1>1 DEF Reads, Begin, Decision, TypeOK
<1>2. ASSUME NEW c \in Caller, NEW u \in User, ReadLeave(c, u) PROVE TypeOK'
  BY <1>2 DEF ReadLeave, LeaveTxn, TypeOK
<1>3. ASSUME NEW c \in Caller, CommitRow(c) PROVE TypeOK'
  <2>1. Writes(c) BY <1>3 DEF CommitRow, Writes
  <2>2. Announced(c) \subseteq Event BY <2>1, WriteType DEF Announced, Event
  <2>3. txn[c].cmd = "reissue" => rows[txn[c].inv].token \in Token
    BY <2>1, WriteType DEF TxnSound, Exists, TypeOK, Row
  <2>4. txn[c].cmd = "accept" => txn[c].user \in User BY <2>1 DEF TxnSound
  <2> QED BY <1>3, <2>1, <2>2, <2>3, <2>4, WriteType DEF CommitRow, Persisted, End, TypeOK
<1>4. ASSUME NEW c \in Caller, CommitLeave(c) PROVE TypeOK'
  BY <1>4 DEF CommitLeave, End, TypeOK
<1>5. ASSUME NEW c \in Caller, Abort(c) PROVE TypeOK' BY <1>5 DEF Abort, TypeOK
<1>6. ASSUME NEW e \in due, ReadBack(e) PROVE TypeOK'
  <2>1. e.inv \in InvId /\ e.token \in Token /\ rows[e.inv].token \in Token
    BY DEF TypeOK, Event, UsedSound, Exists, Row
  <2> QED BY <1>6, <2>1 DEF ReadBack, TypeOK
<1>7. ASSUME NEW e \in due, Send(e) \/ FailSend(e) PROVE TypeOK'
  <2>1. e \in Event /\ e.token \in Token BY DEF TypeOK, Event
  <2>2. letter[e.token] \in Token BY <1>7, <2>1 DEF Send, FailSend, TypeOK
  <2> QED BY <1>7, <2>1, <2>2 DEF Send, FailSend, TypeOK
<1>8. ASSUME NEW i \in InvId, Lapse(i) PROVE TypeOK'
  BY <1>8 DEF Lapse, Exists, TypeOK, Row
<1>9. CASE UNCHANGED vars BY <1>9 DEF vars, TypeOK
<1> QED BY <1>1, <1>2, <1>3, <1>4, <1>5, <1>6, <1>7, <1>8, <1>9, StepCases
-----------------------------------------------------------------------------
(* What a read changes, and what it knows of the others.                   *)
LEMMA ReadFacts ==
  ASSUME TypeOK, TxnSound, UsedSound, NEW c \in Caller, Reads(c)
  PROVE  /\ rows' = rows /\ used' = used /\ retired' = retired /\ due' = due
         /\ letter' = letter /\ mailed' = mailed /\ reported' = reported
         /\ unraced' = unraced \union {c} /\ members' = members
         /\ txn[c] = None /\ ~Writes(c)
         /\ \A d \in Caller \ {c} : txn'[d] = txn[d]
         /\ Decision(txn'[c].cmd, txn'[c].inv, txn'[c].new, txn'[c].user)
         /\ Writes(c)'
<1> USE NoneAssumption
<1>1. PICK cmd \in {"issue", "reissue", "revoke", "accept"}, i \in InvId, row \in Row,
           u \in User \union {None} : Begin(c, cmd, i, row, u) /\ Decision(cmd, i, row, u)
  BY DEF Reads
<1>2. txn'[c] = [cmd |-> cmd, inv |-> i, new |-> row, user |-> u]
  BY <1>1 DEF Begin, TypeOK
<1>3. Writes(c)' BY <1>1, <1>2 DEF Writes, Decision
<1>4. ~Writes(c) BY <1>1 DEF Begin, Writes
<1> QED BY <1>1, <1>2, <1>3, <1>4 DEF Begin, TypeOK

(* What a write changes.                                                   *)
LEMMA WriteFacts ==
  ASSUME TypeOK, NEW c \in Caller, CommitRow(c)
  PROVE  /\ Writes(c) /\ ~Writes(c)'
         /\ rows' = [rows EXCEPT ![txn[c].inv] = txn[c].new]
         /\ rows'[txn[c].inv] = txn[c].new
         /\ \A i \in InvId : i # txn[c].inv => rows'[i] = rows[i]
         /\ used' = used \union {txn[c].new.token}
         /\ due' = due \union Announced(c)
         /\ retired' = IF txn[c].cmd = "reissue" THEN retired \union {rows[txn[c].inv].token}
                       ELSE retired
         /\ letter' = letter /\ mailed' = mailed /\ reported' = reported
         /\ unraced' = {} /\ txn'[c] = None
         /\ \A d \in Caller \ {c} : txn'[d] = txn[d] /\ (Writes(d)' <=> Writes(d))
BY NoneAssumption, WriteType DEF CommitRow, Writes, Persisted, End, TypeOK

(* The steps that open no transaction and write no row.                    *)
Quiet(c) == (\E u \in User : ReadLeave(c, u)) \/ CommitLeave(c) \/ Abort(c)

LEMMA QuietFacts ==
  ASSUME TypeOK, NEW c \in Caller, Quiet(c)
  PROVE  /\ rows' = rows /\ used' = used /\ retired' = retired /\ due' = due
         /\ letter' = letter /\ mailed' = mailed /\ reported' = reported
         /\ \A d \in Caller : Writes(d)' => Writes(d) /\ txn'[d] = txn[d]
         /\ \A d \in unraced' : d = c \/ d \in unraced
         /\ ~Writes(c)'
<1>1. \A u \in User : [cmd |-> "leave", user |-> u] \notin RowTxn
  BY DEF RowTxn
<1> QED BY <1>1, NoneAssumption
        DEF Quiet, ReadLeave, CommitLeave, Abort, End, Writes, TypeOK

(* What an email's step leaves alone.                                      *)
LEMMA MailFacts ==
  ASSUME TypeOK, NEW e \in due, ReadBack(e) \/ Send(e) \/ FailSend(e)
  PROVE  /\ rows' = rows /\ used' = used /\ retired' = retired
         /\ txn' = txn /\ unraced' = unraced /\ members' = members
         /\ due' \subseteq due
BY DEF ReadBack, Send, FailSend

(* A step is one of the five kinds the facts above describe, or passes time. *)
LEMMA Kinds ==
  ASSUME TypeOK, [Next]_vars
  PROVE  \/ \E c \in Caller : Reads(c) \/ CommitRow(c) \/ Quiet(c)
         \/ \E e \in due : ReadBack(e) \/ Send(e) \/ FailSend(e)
         \/ UNCHANGED <<rows, used, txn, unraced, mailVars, retired>>
BY StepCases DEF Quiet, Lapse, vars

(* Transactions stay sound: what one writes, no other was about to write.  *)
LEMMA TxnSoundStep == TypeOK /\ TxnSound /\ UsedSound /\ [Next]_vars => TxnSound'
<1> SUFFICES ASSUME TypeOK, TxnSound, UsedSound, [Next]_vars PROVE TxnSound' OBVIOUS
<1> USE NoRowAssumption, NoneAssumption
<1>1. ASSUME NEW c \in Caller, Reads(c) PROVE TxnSound'
  <2>1. Decision(txn'[c].cmd, txn'[c].inv, txn'[c].new, txn'[c].user) BY <1>1, ReadFacts
  <2>2. /\ rows' = rows /\ used' = used /\ ~Writes(c) /\ Writes(c)'
        /\ \A d \in Caller \ {c} : txn'[d] = txn[d] /\ (Writes(d)' <=> Writes(d))
    BY <1>1, ReadFacts DEF Writes
  <2>3. \A i \in InvId : Exists(i) => rows[i].token \in used BY DEF UsedSound
  <2>4. ASSUME NEW d \in Caller \ {c}, Writes(d)
        PROVE  /\ txn[d].cmd \in {"issue", "reissue"} => txn[d].new.token # txn'[c].new.token
               /\ txn'[c].cmd \in {"issue", "reissue"} => txn[d].new.token # txn'[c].new.token
               /\ txn[d].cmd = "issue" => txn[d].inv # txn'[c].inv
               /\ txn'[c].cmd = "issue" => txn[d].inv # txn'[c].inv
    <3>1. txn[d] \in RowTxn /\ txn[d].new.token \in Token BY <2>4, WriteType DEF Writes
    <3>2. CASE txn'[c].cmd \in {"issue", "reissue"}
      BY <2>1, <2>4, <3>1, <3>2 DEF Decision, FreshTokens, UnusedIds, TxnSound, Open
    <3>3. CASE txn'[c].cmd \in {"revoke", "accept"}
      BY <2>1, <2>3, <2>4, <3>3, WriteType DEF Decision, TxnSound, Open, RowTxn
    <3> QED BY <2>1, <3>2, <3>3 DEF Decision, RowTxn
  <2>5. /\ txn'[c].inv \in InvId
        /\ txn'[c].cmd \in {"issue", "reissue"} => txn'[c].new.token \notin used
        /\ txn'[c].cmd \in {"revoke", "accept"} =>
             txn'[c].new.token \in used /\ txn'[c].new.state # "open"
        /\ txn'[c].cmd = "accept" => txn'[c].new.state = "accepted" /\ txn'[c].user \in User
        /\ txn'[c].cmd = "issue" => ~Exists(txn'[c].inv)
        /\ txn'[c].cmd # "issue" => Exists(txn'[c].inv)
    BY <2>1, <2>3 DEF Decision, FreshTokens, UnusedIds, Open, RowTxn
  <2> QED BY <2>2, <2>4, <2>5 DEF TxnSound, Exists
<1>2. ASSUME NEW c \in Caller, CommitRow(c) PROVE TxnSound'
  <2>1. ASSUME NEW d \in Caller, Writes(d)'
        PROVE  d # c /\ txn'[d] = txn[d] /\ Writes(d)
    BY <1>2, <2>1, WriteFacts
  <2>2. /\ rows' = [rows EXCEPT ![txn[c].inv] = txn[c].new] /\ txn[c].new # NoRow
        /\ txn[c].inv \in InvId
        /\ used' = used \union {txn[c].new.token} /\ Writes(c)
    BY <1>2, WriteFacts, WriteType
  <2>3. \A i \in InvId : Exists(i)' <=> Exists(i) \/ i = txn[c].inv
    BY <2>2 DEF Exists, TypeOK
  <2>4. \A d \in Caller : Writes(d) => txn[d].inv \in InvId BY WriteType
  <2> QED BY <2>1, <2>2, <2>3, <2>4 DEF TxnSound
<1>3. ASSUME NEW c \in Caller, Quiet(c) PROVE TxnSound'
  BY <1>3, QuietFacts DEF TxnSound, Exists
<1>4. ASSUME NEW e \in due, ReadBack(e) \/ Send(e) \/ FailSend(e) PROVE TxnSound'
  BY <1>4, MailFacts DEF TxnSound, Exists, Writes
<1>5. CASE UNCHANGED <<rows, used, txn, unraced, mailVars, retired>>
  BY <1>5 DEF TxnSound, Exists, Writes
<1> QED BY <1>1, <1>2, <1>3, <1>4, <1>5, Kinds

(* While nobody overtakes a command, what it decided on is still there.    *)
LEMMA UnracedSoundStep == TypeOK /\ TxnSound /\ UsedSound /\ UnracedSound /\ [Next]_vars
                            => UnracedSound'
<1> SUFFICES ASSUME TypeOK, TxnSound, UsedSound, UnracedSound, [Next]_vars
             PROVE  UnracedSound'
  OBVIOUS
<1>1. ASSUME NEW c \in Caller, Reads(c) PROVE UnracedSound'
  <2>1. Decision(txn'[c].cmd, txn'[c].inv, txn'[c].new, txn'[c].user)
    BY <1>1, ReadFacts
  <2>2. /\ rows' = rows /\ unraced' = unraced \union {c} /\ unraced \subseteq Caller
        /\ \A d \in Caller \ {c} : txn'[d] = txn[d] /\ (Writes(d)' <=> Writes(d))
    BY <1>1, ReadFacts DEF Writes, TypeOK
  <2>3. txn'[c] # None BY <1>1, ReadFacts, NoneAssumption DEF Writes
  <2> QED BY <2>1, <2>2, <2>3 DEF UnracedSound, Decision, Open, Exists
<1>2. ASSUME NEW c \in Caller, CommitRow(c) PROVE UnracedSound'
  BY <1>2, WriteFacts DEF UnracedSound
<1>3. ASSUME NEW c \in Caller, Quiet(c) PROVE UnracedSound'
  <2>1. \A d \in unraced' : Writes(d)' => d \in unraced /\ Writes(d) /\ txn'[d] = txn[d]
    BY <1>3, QuietFacts, TypeStep DEF TypeOK
  <2>2. \A d \in unraced' : txn'[d] # None
    BY <1>3, NoneAssumption
       DEF Quiet, ReadLeave, CommitLeave, Abort, End, UnracedSound, LeaveTxn, TypeOK
  <2> QED BY <1>3, <2>1, <2>2, QuietFacts DEF UnracedSound, Open, Exists
<1>4. ASSUME NEW e \in due, ReadBack(e) \/ Send(e) \/ FailSend(e) PROVE UnracedSound'
  BY <1>4, MailFacts DEF UnracedSound, Open, Exists, Writes
<1>5. CASE UNCHANGED <<rows, used, txn, unraced, mailVars, retired>>
  BY <1>5 DEF UnracedSound, Open, Exists, Writes
<1> QED BY <1>1, <1>2, <1>3, <1>4, <1>5, Kinds

(* What is stored anywhere was stored by a write.                          *)
LEMMA UsedSoundStep == TypeOK /\ TxnSound /\ UsedSound /\ [Next]_vars => UsedSound'
<1> SUFFICES ASSUME TypeOK, TxnSound, UsedSound, [Next]_vars PROVE UsedSound' OBVIOUS
<1>1. ASSUME NEW c \in Caller, Reads(c) PROVE UsedSound'
  BY <1>1, ReadFacts DEF UsedSound, Exists
<1>2. ASSUME NEW c \in Caller, CommitRow(c) PROVE UsedSound'
  <2>1. Writes(c) /\ txn[c].inv \in InvId /\ txn[c].new # NoRow
    BY <1>2, WriteFacts, WriteType
  <2>2. txn[c].cmd = "reissue" => rows[txn[c].inv].token \in used
    BY <2>1 DEF TxnSound, UsedSound
  <2>3. \A e \in Announced(c) : e.inv = txn[c].inv /\ e.token = txn[c].new.token
    BY DEF Announced
  <2>4. /\ rows' = [rows EXCEPT ![txn[c].inv] = txn[c].new]
        /\ rows'[txn[c].inv] = txn[c].new
        /\ \A i \in InvId : i # txn[c].inv => rows'[i] = rows[i]
        /\ used' = used \union {txn[c].new.token} /\ letter' = letter
        /\ due' = due \union Announced(c)
        /\ retired' \subseteq retired \union used
    BY <1>2, <2>2, WriteFacts
  <2>5. \A e \in due : e.inv \in InvId BY DEF TypeOK, Event
  <2> QED BY <2>1, <2>3, <2>4, <2>5 DEF UsedSound, Exists
<1>3. ASSUME NEW c \in Caller, Quiet(c) PROVE UsedSound'
  BY <1>3, QuietFacts DEF UsedSound, Exists
<1>4. ASSUME NEW e \in due, ReadBack(e) \/ Send(e) \/ FailSend(e) PROVE UsedSound'
  <2>1. e.token \in used /\ letter' = [letter EXCEPT ![e.token] = letter'[e.token]]
    BY <1>4 DEF UsedSound, TypeOK, Event, ReadBack, Send, FailSend
  <2>2. \A t \in Token \ used : letter'[t] = letter[t]
    BY <2>1 DEF TypeOK
  <2> QED BY <1>4, <2>1, <2>2, MailFacts DEF UsedSound, Exists
<1>5. CASE UNCHANGED <<rows, used, txn, unraced, mailVars, retired>>
  BY <1>5 DEF UsedSound, Exists
<1> QED BY <1>1, <1>2, <1>3, <1>4, <1>5, Kinds

(* No token comes to belong to two invitations.                            *)
LEMMA OwnedOnceStep == TypeOK /\ TxnSound /\ UsedSound /\ OwnedOnce /\ [Next]_vars
                         => OwnedOnce'
<1> SUFFICES ASSUME TypeOK, TxnSound, UsedSound, OwnedOnce, [Next]_vars PROVE OwnedOnce'
  OBVIOUS
<1> DEFINE NoNewHolder == \A i \in InvId, t \in Token : Held(i, t)' => Held(i, t)
<1>1. ASSUME NEW c \in Caller, Reads(c) PROVE OwnedOnce'
  <2>1. Decision(txn'[c].cmd, txn'[c].inv, txn'[c].new, txn'[c].user)
    BY <1>1, ReadFacts
  <2>2. /\ rows' = rows /\ due' = due /\ ~Writes(c) /\ Writes(c)'
        /\ \A d \in Caller \ {c} : txn'[d] = txn[d] /\ (Writes(d)' <=> Writes(d))
    BY <1>1, ReadFacts DEF Writes
  <2> DEFINE n == txn'[c].inv
             tok == txn'[c].new.token
  <2>3. \A i \in InvId, t \in Token : Held(i, t)' => Held(i, t) \/ (i = n /\ t = tok)
    BY <2>2 DEF Held, Exists
  <2>4. CASE txn'[c].cmd \in {"issue", "reissue"}
    <3>1. \A i \in InvId : ~Held(i, tok)
      BY <2>1, <2>4 DEF Decision, FreshTokens, Held, UsedSound, Writes
    <3> QED BY <2>3, <3>1 DEF OwnedOnce
  <2>5. CASE txn'[c].cmd \in {"revoke", "accept"}
    <3>1. n \in InvId /\ Held(n, tok) BY <2>1, <2>5 DEF Decision, Held, Open, RowTxn
    <3> QED BY <2>3, <3>1 DEF OwnedOnce
  <2> QED BY <2>1, <2>4, <2>5 DEF Decision, RowTxn
<1>2. NoNewHolder => OwnedOnce' BY DEF OwnedOnce
<1>3. ASSUME NEW c \in Caller, CommitRow(c) PROVE NoNewHolder
  <2>1. /\ Writes(c) /\ txn[c].inv \in InvId
        /\ rows'[txn[c].inv] = txn[c].new
        /\ \A i \in InvId : i # txn[c].inv => rows'[i] = rows[i]
        /\ due' = due \union Announced(c)
        /\ \A d \in Caller : Writes(d)' => Writes(d) /\ txn'[d] = txn[d]
    BY <1>3, WriteFacts, WriteType
  <2>2. \A e \in Announced(c) : e.inv = txn[c].inv /\ e.token = txn[c].new.token
    BY DEF Announced
  <2> QED BY <2>1, <2>2 DEF Held, Exists
<1>4. ASSUME NEW c \in Caller, Quiet(c) PROVE NoNewHolder
  BY <1>4, QuietFacts DEF Held, Exists
<1>5. ASSUME NEW e \in due, ReadBack(e) \/ Send(e) \/ FailSend(e) PROVE NoNewHolder
  BY <1>5, MailFacts DEF Held, Exists, Writes
<1>6. CASE UNCHANGED <<rows, used, txn, unraced, mailVars, retired>>
  BY <1>2, <1>6 DEF Held, Exists, Writes
<1> QED BY <1>1, <1>2, <1>3, <1>4, <1>5, <1>6, Kinds

(* The row a write leaves open has a token nobody ever saw.                *)
LEMMA OpenedFresh ==
  ASSUME TypeOK, TxnSound, NEW c \in Caller, CommitRow(c), NEW i \in InvId, Open(i)'
  PROVE  \/ /\ i = txn[c].inv /\ rows'[i].token = txn[c].new.token
            /\ txn[c].new.token \notin used
            /\ [inv |-> i, token |-> rows'[i].token] \in due'
         \/ i # txn[c].inv /\ rows'[i] = rows[i] /\ Open(i)
<1>1. /\ Writes(c) /\ txn[c].cmd \in {"issue", "reissue", "revoke", "accept"}
      /\ rows'[txn[c].inv] = txn[c].new
      /\ \A j \in InvId : j # txn[c].inv => rows'[j] = rows[j]
      /\ due' = due \union Announced(c)
  BY WriteFacts, WriteType
<1>2. CASE i # txn[c].inv BY <1>1, <1>2 DEF Open, Exists
<1>3. CASE i = txn[c].inv
  <2>1. txn[c].new.state = "open" BY <1>1, <1>3 DEF Open
  <2>2. txn[c].cmd \in {"issue", "reissue"} BY <1>1, <2>1 DEF TxnSound
  <2> QED BY <1>1, <1>3, <2>2 DEF TxnSound, Announced
<1> QED BY <1>2, <1>3

(* The reaction to an open invitation's current event reads that token.    *)
LEMMA LetterCurrentStep ==
  TypeOK /\ TxnSound /\ UsedSound /\ OwnedOnce /\ LetterCurrent /\ [Next]_vars => LetterCurrent'
<1> SUFFICES ASSUME TypeOK, TxnSound, UsedSound, OwnedOnce, LetterCurrent, [Next]_vars
             PROVE  LetterCurrent'
  OBVIOUS
<1>1. ASSUME NEW c \in Caller, Reads(c) PROVE LetterCurrent'
  BY <1>1, ReadFacts DEF LetterCurrent, Open, Exists
<1>2. ASSUME NEW c \in Caller, CommitRow(c) PROVE LetterCurrent'
  <2>1. SUFFICES ASSUME NEW e \in due', Open(e.inv)', rows'[e.inv].token = e.token
                 PROVE  letter'[e.token] \in {None, e.token}
    BY DEF LetterCurrent
  <2>2. e \in Event /\ e.inv \in InvId /\ e.token \in Token
    BY TypeStep DEF TypeOK, Event
  <2>3. letter' = letter /\ due' = due \union Announced(c) /\ Writes(c) BY <1>2, WriteFacts
  <2>4. CASE e.inv = txn[c].inv
    <3>1. e.token \notin used BY <1>2, <2>1, <2>2, <2>4, OpenedFresh
    <3> QED BY <2>2, <2>3, <3>1 DEF UsedSound
  <2>5. CASE e.inv # txn[c].inv
    <3>1. rows'[e.inv] = rows[e.inv] /\ Open(e.inv) BY <1>2, <2>1, <2>2, <2>5, OpenedFresh
    <3>2. e \in due BY <2>3, <2>5 DEF Announced
    <3> QED BY <2>1, <2>3, <3>1, <3>2 DEF LetterCurrent
  <2> QED BY <2>4, <2>5
<1>3. ASSUME NEW c \in Caller, Quiet(c) PROVE LetterCurrent'
  BY <1>3, QuietFacts DEF LetterCurrent, Open, Exists
<1>4. ASSUME NEW e \in due, ReadBack(e) \/ Send(e) \/ FailSend(e) PROVE LetterCurrent'
  <2>1. e.inv \in InvId /\ e.token \in Token
        /\ \A f \in due : f.inv \in InvId /\ f.token \in Token
    BY DEF TypeOK, Event
  <2>2. \/ letter' = [letter EXCEPT ![e.token] = rows[e.inv].token]
        \/ letter' = [letter EXCEPT ![e.token] = None]
    BY <1>4 DEF ReadBack, Send, FailSend
  <2>3. \A f \in due : f.token = e.token => f.inv = e.inv
    <3>1. \A f \in due : f = [inv |-> f.inv, token |-> f.token]
      BY DEF TypeOK, Event
    <3> QED BY <2>1, <3>1 DEF OwnedOnce, Held
  <2> QED BY <1>4, <2>1, <2>2, <2>3, MailFacts DEF LetterCurrent, Open, Exists, TypeOK
<1>5. CASE UNCHANGED <<rows, used, txn, unraced, mailVars, retired>>
  BY <1>5 DEF LetterCurrent, Open, Exists
<1> QED BY <1>1, <1>2, <1>3, <1>4, <1>5, Kinds

(* Rotating a token out never hits the token of an open invitation.        *)
LEMMA RetiredStep ==
  TypeOK /\ TxnSound /\ UsedSound /\ OwnedOnce /\ RetiredLinkStaysDead /\ [Next]_vars
    => RetiredLinkStaysDead'
<1> SUFFICES ASSUME TypeOK, TxnSound, UsedSound, OwnedOnce, RetiredLinkStaysDead, [Next]_vars
             PROVE  RetiredLinkStaysDead'
  OBVIOUS
<1>1. ASSUME NEW c \in Caller, Reads(c) PROVE RetiredLinkStaysDead'
  BY <1>1, ReadFacts DEF RetiredLinkStaysDead, Open, Exists
<1>2. ASSUME NEW c \in Caller, CommitRow(c) PROVE RetiredLinkStaysDead'
  <2>1. SUFFICES ASSUME NEW i \in InvId, Open(i)' PROVE rows'[i].token \notin retired'
    BY DEF RetiredLinkStaysDead
  <2>2. /\ Writes(c) /\ txn[c].inv \in InvId
        /\ retired' = IF txn[c].cmd = "reissue" THEN retired \union {rows[txn[c].inv].token}
                      ELSE retired
    BY <1>2, WriteFacts, WriteType
  <2>3. retired \subseteq used /\ (txn[c].cmd = "reissue" => rows[txn[c].inv].token \in used)
    BY <2>2 DEF TxnSound, UsedSound
  <2>4. CASE i = txn[c].inv BY <1>2, <2>1, <2>2, <2>3, <2>4, OpenedFresh
  <2>5. CASE i # txn[c].inv
    <3>1. rows'[i] = rows[i] /\ Open(i) BY <1>2, <2>1, <2>5, OpenedFresh
    <3>2. txn[c].cmd = "reissue" => rows[i].token # rows[txn[c].inv].token
      <4>1. txn[c].cmd = "reissue" => Exists(txn[c].inv) BY <2>2 DEF TxnSound
      <4>2. Exists(i) /\ rows[i].token \in Token BY <3>1 DEF Open, Exists, TypeOK, Row
      <4> QED BY <2>2, <2>5, <4>1, <4>2 DEF OwnedOnce, Held
    <3> QED BY <2>2, <3>1, <3>2 DEF RetiredLinkStaysDead
  <2> QED BY <2>4, <2>5
<1>3. ASSUME NEW c \in Caller, Quiet(c) PROVE RetiredLinkStaysDead'
  BY <1>3, QuietFacts DEF RetiredLinkStaysDead, Open, Exists
<1>4. ASSUME NEW e \in due, ReadBack(e) \/ Send(e) \/ FailSend(e) PROVE RetiredLinkStaysDead'
  BY <1>4, MailFacts DEF RetiredLinkStaysDead, Open, Exists
<1>5. CASE UNCHANGED <<rows, used, txn, unraced, mailVars, retired>>
  BY <1>5 DEF RetiredLinkStaysDead, Open, Exists
<1> QED BY <1>1, <1>2, <1>3, <1>4, <1>5, Kinds

(* An open invitation's token stays on its way until it is sent.           *)
LEMMA DeliveredStep ==
  TypeOK /\ TxnSound /\ UsedSound /\ LetterCurrent /\ CurrentLinkDelivered /\ [Next]_vars
    => CurrentLinkDelivered'
<1> SUFFICES ASSUME TypeOK, TxnSound, UsedSound, LetterCurrent, CurrentLinkDelivered, [Next]_vars
             PROVE  CurrentLinkDelivered'
  OBVIOUS
<1>1. ASSUME NEW c \in Caller, Reads(c) PROVE CurrentLinkDelivered'
  BY <1>1, ReadFacts DEF CurrentLinkDelivered, Open, Exists
<1>2. ASSUME NEW c \in Caller, CommitRow(c) PROVE CurrentLinkDelivered'
  <2>1. due \subseteq due' /\ mailed' = mailed /\ reported' = reported BY <1>2, WriteFacts
  <2> QED BY <1>2, <2>1, OpenedFresh DEF CurrentLinkDelivered
<1>3. ASSUME NEW c \in Caller, Quiet(c) PROVE CurrentLinkDelivered'
  BY <1>3, QuietFacts DEF CurrentLinkDelivered, Open, Exists
<1>4. ASSUME NEW e \in due, ReadBack(e) \/ Send(e) \/ FailSend(e) PROVE CurrentLinkDelivered'
  <2>1. SUFFICES ASSUME NEW i \in InvId, Open(i)
                 PROVE  \/ rows[i].token \in mailed'
                        \/ [inv |-> i, token |-> rows[i].token] \in due' \union reported'
    BY <1>4, MailFacts DEF CurrentLinkDelivered, Open, Exists
  <2>2. mailed \subseteq mailed' /\ reported \subseteq reported'
    BY <1>4 DEF ReadBack, Send, FailSend
  <2>3. \A f \in due : f = e \/ f \in due' BY <1>4 DEF ReadBack, Send, FailSend
  <2>4. CASE e = [inv |-> i, token |-> rows[i].token]
    <3>1. letter[e.token] \in {None, rows[i].token} BY <2>1, <2>4 DEF LetterCurrent
    <3>2. \/ e \in due' \union reported'
          \/ letter[e.token] # None /\ letter[e.token] \in mailed'
      BY <1>4 DEF ReadBack, Send, FailSend
    <3> QED BY <2>4, <3>1, <3>2
  <2> QED BY <2>1, <2>2, <2>3, <2>4 DEF CurrentLinkDelivered
<1>5. CASE UNCHANGED <<rows, used, txn, unraced, mailVars, retired>>
  BY <1>5 DEF CurrentLinkDelivered, Open, Exists
<1> QED BY <1>1, <1>2, <1>3, <1>4, <1>5, Kinds
(* A token has one event, which is due until its email is sent or given up.*)
LEMMA EventOfToken ==
  ASSUME TypeOK, OwnedOnce, NEW d \in due, NEW e \in due, d.token = e.token
  PROVE  d = e
<1>1. /\ d \in Event /\ d = [inv |-> d.inv, token |-> d.token]
      /\ e \in Event /\ e = [inv |-> e.inv, token |-> e.token]
  BY DEF TypeOK, Event
<1>2. Held(d.inv, d.token) /\ Held(e.inv, d.token) BY <1>1 DEF Held
<1>3. d.inv \in InvId /\ e.inv \in InvId /\ d.token \in Token BY <1>1 DEF Event
<1> QED BY <1>1, <1>2, <1>3 DEF OwnedOnce

LEMMA ReportedSoundStep ==
  TypeOK /\ TxnSound /\ UsedSound /\ OwnedOnce /\ ReportedSound /\ [Next]_vars => ReportedSound'
<1> SUFFICES ASSUME TypeOK, TxnSound, UsedSound, OwnedOnce, ReportedSound, [Next]_vars
             PROVE  ReportedSound'
  OBVIOUS
<1>1. ASSUME NEW c \in Caller, CommitRow(c) PROVE ReportedSound'
  <2>1. \A e \in Announced(c) : e.token \notin used
    <3> SUFFICES ASSUME NEW e \in Announced(c) PROVE e.token \notin used OBVIOUS
    <3>1. txn[c].cmd \in {"issue", "reissue"} /\ e.token = txn[c].new.token BY DEF Announced
    <3>2. Writes(c) BY <1>1, WriteFacts
    <3> QED BY <3>1, <3>2 DEF TxnSound
  <2>2. due' = due \union Announced(c) /\ reported' = reported /\ used \subseteq used'
    BY <1>1, WriteFacts
  <2> QED BY <2>1, <2>2 DEF ReportedSound
<1>2. ASSUME NEW e \in due, ReadBack(e) \/ Send(e) \/ FailSend(e) PROVE ReportedSound'
  <2>1. used' = used /\ due' \subseteq due BY <1>2, MailFacts
  <2>2. reported' = reported \/ (due' = due \ {e} /\ reported' = reported \union {e})
    BY <1>2 DEF ReadBack, Send, FailSend
  <2>3. e.token \in used /\ \A d \in due \ {e} : d.token # e.token
    BY EventOfToken DEF UsedSound
  <2> QED BY <2>1, <2>2, <2>3 DEF ReportedSound
<1>3. ASSUME NEW c \in Caller, Reads(c) \/ Quiet(c)
      PROVE  used' = used /\ due' = due /\ reported' = reported
  BY <1>3, ReadFacts, QuietFacts
<1>4. CASE UNCHANGED <<used, due, reported>> BY <1>4 DEF ReportedSound
<1> QED BY <1>1, <1>2, <1>3, <1>4, Kinds
-----------------------------------------------------------------------------
(* The initial state satisfies the inductive invariant.                    *)
LEMMA IInvInit == Init => IInv
BY NoneAssumption, NoRowAssumption
   DEF Init, IInv, TypeOK, TxnSound, UnracedSound, UsedSound, OwnedOnce, Held, Writes,
       LetterCurrent, ReportedSound, RetiredLinkStaysDead, CurrentLinkDelivered, Open, Exists

(* IInv is inductive, hence an invariant.                                  *)
THEOREM Invariance == Spec => []IInv
<1>1. IInv /\ [Next]_vars => IInv'
  BY TypeStep, TxnSoundStep, UnracedSoundStep, UsedSoundStep, OwnedOnceStep, LetterCurrentStep,
     ReportedSoundStep, RetiredStep, DeliveredStep DEF IInv
<1> QED BY IInvInit, <1>1, PTL DEF Spec

(* The variables keep their types.                                         *)
THEOREM TypeCorrectness == Spec => []TypeOK
<1>1. IInv => TypeOK BY DEF IInv
<1> QED BY Invariance, <1>1, PTL

(* A rotated-out link opens nothing, however the commands interleave.      *)
THEOREM RetiredStaysDead == Spec => []RetiredLinkStaysDead
<1>1. IInv => RetiredLinkStaysDead BY DEF IInv
<1> QED BY Invariance, <1>1, PTL

(* The token of an open invitation is mailed, due to be, or reported.      *)
THEOREM LinkDelivered == Spec => []CurrentLinkDelivered
<1>1. IInv => CurrentLinkDelivered BY DEF IInv
<1> QED BY Invariance, <1>1, PTL

(* What ends a command that nobody overtook.                               *)
LEMMA UnracedEnd ==
  ASSUME IInv, [Next]_vars, NEW c \in unraced, txn'[c] = None
  PROVE  \/ rows' = rows /\ members' \subseteq members
         \/ /\ CommitRow(c) /\ c \in Caller
            /\ txn[c].cmd # "issue" =>
                 Open(txn[c].inv) /\ rows[txn[c].inv].email = txn[c].new.email
            /\ txn[c].cmd = "issue" =>
                 \A j \in InvId : Open(j) => rows[j].email # txn[c].new.email
<1> USE DEF IInv
<1>1. c \in Caller BY DEF TypeOK
<1>2. ASSUME NEW d \in Caller, Reads(d) PROVE rows' = rows /\ members' = members
  BY <1>2, ReadFacts
<1>3. ASSUME NEW d \in Caller, CommitRow(d), d # c PROVE FALSE
  BY <1>1, <1>3, WriteFacts DEF UnracedSound
<1>4. ASSUME CommitRow(c)
      PROVE  /\ txn[c].cmd # "issue" =>
                  Open(txn[c].inv) /\ rows[txn[c].inv].email = txn[c].new.email
             /\ txn[c].cmd = "issue" =>
                  \A j \in InvId : Open(j) => rows[j].email # txn[c].new.email
  BY <1>1, <1>4, WriteFacts DEF UnracedSound
<1>5. ASSUME NEW d \in Caller, Quiet(d) PROVE rows' = rows /\ members' \subseteq members
  BY <1>5 DEF Quiet, ReadLeave, CommitLeave, Abort
<1>6. ASSUME NEW e \in due, ReadBack(e) \/ Send(e) \/ FailSend(e) PROVE rows' = rows /\ members' = members
  BY <1>6, MailFacts
<1>7. CASE \E i \in InvId : Lapse(i) BY <1>7 DEF Lapse
<1>8. CASE UNCHANGED vars BY <1>8 DEF vars
<1> QED BY <1>1, <1>2, <1>3, <1>4, <1>5, <1>6, <1>7, <1>8, StepCases DEF Quiet

(* A command nobody overtook leaves terminal invitations as they are.      *)
THEOREM TerminalStays == Spec => TerminalUnlessRaced
<1>1. ASSUME IInv, [Next]_vars
      PROVE  [\A c \in unraced : txn'[c] = None =>
                \A i \in InvId : Terminal(i) => rows'[i] = rows[i]]_vars
  <2>1. ASSUME NEW c \in unraced, txn'[c] = None, NEW i \in InvId, Terminal(i)
        PROVE  rows'[i] = rows[i]
    <3>1. CASE rows' = rows BY <3>1
    <3>2. ASSUME CommitRow(c), c \in Caller, txn[c].cmd # "issue" => Open(txn[c].inv)
          PROVE  rows'[i] = rows[i]
      <4>1. Writes(c) /\ (txn[c].cmd = "issue" => ~Exists(txn[c].inv))
        BY <1>1, <3>2, WriteFacts DEF IInv, TxnSound
      <4>2. i # txn[c].inv BY <2>1, <3>2, <4>1 DEF Terminal, Open
      <4> QED BY <1>1, <3>2, <4>2, WriteFacts DEF IInv
    <3> QED BY <1>1, <2>1, <3>1, <3>2, UnracedEnd
  <2> QED BY <2>1
<1> QED BY Invariance, <1>1, PTL DEF Spec, TerminalUnlessRaced

(* A command nobody overtook keeps one open invitation per address.        *)
THEOREM OneOpenStays == Spec => OneOpenUnlessRaced
<1>1. ASSUME IInv, [Next]_vars
      PROVE  [\A c \in unraced : txn'[c] = None => (OneOpen => OneOpen')]_vars
  <2>1. ASSUME NEW c \in unraced, txn'[c] = None, OneOpen PROVE OneOpen'
    <3>1. CASE rows' = rows BY <2>1, <3>1 DEF OneOpen, Open, Exists
    <3>2. ASSUME CommitRow(c), c \in Caller,
                 txn[c].cmd # "issue" =>
                   Open(txn[c].inv) /\ rows[txn[c].inv].email = txn[c].new.email,
                 txn[c].cmd = "issue" =>
                   \A j \in InvId : Open(j) => rows[j].email # txn[c].new.email
          PROVE  OneOpen'
      <4>1. /\ Writes(c) /\ txn[c].inv \in InvId /\ rows'[txn[c].inv] = txn[c].new
            /\ \A i \in InvId : i # txn[c].inv => rows'[i] = rows[i]
        BY <1>1, <3>2, WriteFacts, WriteType DEF IInv
      <4> QED BY <2>1, <3>2, <4>1 DEF OneOpen, Open, Exists
    <3> QED BY <1>1, <2>1, <3>1, <3>2, UnracedEnd
  <2> QED BY <2>1
<1> QED BY Invariance, <1>1, PTL DEF Spec, OneOpenUnlessRaced

(* A command nobody overtook admits a member only against an invitation    *)
(* that was open until then.                                               *)
THEOREM JoinUsesUp == Spec => JoinUsesUpInvitation
<1>1. ASSUME IInv, [Next]_vars
      PROVE  [\A c \in unraced : txn'[c] = None => \A u \in members' \ members :
                \E i \in InvId : Open(i) /\ rows'[i].state = "accepted"]_vars
  <2>1. ASSUME NEW c \in unraced, txn'[c] = None, NEW u \in members' \ members
        PROVE  \E i \in InvId : Open(i) /\ rows'[i].state = "accepted"
    <3>1. CommitRow(c) /\ c \in Caller /\ (txn[c].cmd # "issue" => Open(txn[c].inv))
      BY <1>1, <2>1, UnracedEnd
    <3>2. txn[c].cmd = "accept" BY <2>1, <3>1 DEF CommitRow
    <3>3. Writes(c) /\ txn[c].inv \in InvId /\ rows'[txn[c].inv] = txn[c].new
      BY <1>1, <3>1, WriteFacts, WriteType DEF IInv
    <3>4. txn[c].new.state = "accepted" BY <1>1, <3>1, <3>2, <3>3 DEF IInv, TxnSound
    <3> QED BY <3>1, <3>2, <3>3, <3>4
  <2> QED BY <2>1
<1> QED BY Invariance, <1>1, PTL DEF Spec, JoinUsesUpInvitation

(* The emails of issues and reissues are reactions that take effect at     *)
(* most once, each for a token that was stored (invitation.root.ts events, *)
(* send-invitation-email.handler.ts): what Outbox implements is what       *)
(* Invitations relies on.                                                  *)
THEOREM EmailsRefine == Spec => EmailsAreReactions
<1>1. Init => Emails!Init
  BY DEF Init, Emails!Init, Sent
<1>2. IInv /\ [Next]_vars => [Emails!Next]_(Emails!vars)
  <2> SUFFICES ASSUME IInv, [Next]_vars PROVE [Emails!Next]_(Emails!vars) OBVIOUS
  <2> USE DEF IInv
  <2>1. CASE UNCHANGED <<used, due, reported>>
    <3>1. \A t \in Token : Sent(t)' <=> Sent(t) BY <2>1 DEF Sent
    <3> QED BY <2>1, <3>1 DEF Emails!vars
  <2>2. ASSUME NEW c \in Caller, CommitRow(c) PROVE [Emails!Next]_(Emails!vars)
    <3> PICK t \in Token : t = txn[c].new.token BY <2>2, WriteFacts, WriteType
    <3>1. /\ Writes(c) /\ used' = used \union {t} /\ reported' = reported
          /\ due' = due \union Announced(c)
          /\ txn[c].cmd \in {"issue", "reissue", "revoke", "accept"}
      BY <2>2, WriteFacts, WriteType
    <3>2. \A e \in Announced(c) : e.token = t BY DEF Announced
    <3>3. CASE txn[c].cmd \in {"issue", "reissue"}
      <4>1. t \notin used BY <3>1, <3>3 DEF TxnSound
      <4>2. \E e \in due' : e.token = t
        <5> DEFINE x == [inv |-> txn[c].inv, token |-> t]
        <5>1. x \in Announced(c) BY <3>3 DEF Announced
        <5> QED BY <3>1, <5>1
      <4>3. \A s \in Token : Sent(s)' <=> Sent(s) BY <3>1, <3>2, <4>1, <4>2 DEF Sent
      <4>4. Emails!Publish(t) BY <3>1, <4>1, <4>3 DEF Emails!Publish
      <4> QED BY <4>4 DEF Emails!Next
    <3>4. CASE txn[c].cmd \in {"revoke", "accept"}
      <4>1. t \in used BY <3>1, <3>4 DEF TxnSound
      <4>2. UNCHANGED <<used, due, reported>> BY <3>1, <3>4, <4>1 DEF Announced
      <4> QED BY <2>1, <4>2
    <3> QED BY <3>1, <3>3, <3>4
  <2>3. ASSUME NEW e \in due, Send(e) PROVE [Emails!Next]_(Emails!vars)
    <3>1. due' = due \ {e} /\ used' = used /\ reported' = reported BY <2>3 DEF Send
    <3>0. e \in Event /\ e.token \in Token BY DEF TypeOK, Event
    <3> PICK t \in Token : t = e.token BY <3>0
    <3>2. t \in used /\ ~Sent(t) BY DEF UsedSound, Sent
    <3>3. Sent(t)' BY <3>1, <3>2, EventOfToken DEF Sent, ReportedSound
    <3>4. \A s \in Token \ {t} : Sent(s)' <=> Sent(s) BY <3>1 DEF Sent
    <3>5. t \in Emails!Due BY <3>2 DEF Emails!Due
    <3>6. Emails!React(t) BY <3>1, <3>2, <3>3, <3>4, <3>5 DEF Emails!React
    <3> QED BY <3>6 DEF Emails!Next
  <2>4. ASSUME NEW e \in due, FailSend(e) PROVE [Emails!Next]_(Emails!vars)
    <3>1. used' = used /\ due' \union reported' = due \union reported BY <2>4 DEF FailSend
    <3>2. \A t \in Token : Sent(t)' <=> Sent(t) BY <3>1 DEF Sent
    <3> QED BY <3>1, <3>2 DEF Emails!vars
  <2>5. ASSUME NEW c \in Caller, Reads(c) \/ Quiet(c)
        PROVE  UNCHANGED <<used, due, reported>>
    BY <2>5, ReadFacts, QuietFacts
  <2>6. ASSUME NEW e \in due, ReadBack(e) PROVE UNCHANGED <<used, due, reported>>
    BY <2>6 DEF ReadBack
  <2> QED BY <2>1, <2>2, <2>3, <2>4, <2>5, <2>6, Kinds
<1> QED BY <1>1, <1>2, Invariance, PTL DEF Spec, EmailsAreReactions, Emails!Spec
=============================================================================
