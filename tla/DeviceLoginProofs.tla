-------------------------- MODULE DeviceLoginProofs --------------------------
(* Proofs about DeviceLogin.                                               *)
EXTENDS DeviceLogin, TLAPS

(* What kind of transaction a command has open decides its fields.         *)
LEMMA TxnKinds ==
  ASSUME NEW x \in Txn
  PROVE  /\ x.grant \in Grant
         /\ x \in ApproveTxn => x.user \in User /\ x \notin ExchangeTxn
         /\ x \in ExchangeTxn => x.user \in User /\ x.token \in Token
         /\ x # None
BY NoneAssumption DEF Txn, ApproveTxn, ExchangeTxn, ExpireTxn

(* Nothing is open, stored or minted at first.                             *)
LEMMA IInvInit == Init => IInv
BY GrantAssumption, NoneAssumption
   DEF Txn, Init, IInv, TypeOK, ReadSound, IdsSound, OneTokenPerGrant, TokenForApprover, IsApproved, Exists

(* Beginning a transaction on a grant that was handed out keeps IInv.      *)
LEMMA BeginKeeps ==
  ASSUME IInv, NEW c \in Caller, NEW x \in Txn, Begin(c, x), x.grant \in started,
         x \in ExchangeTxn => /\ [grant |-> x.grant, user |-> x.user] \in approvals
                             /\ x.token \in FreshTokens
  PROVE  IInv'
<1>1. TypeOK' BY DEF IInv, TypeOK, Begin
<1>2. ReadSound' BY DEF IInv, TypeOK, ReadSound, Begin, IsApproved, Exists
<1>3. IdsSound' BY DEF IInv, TypeOK, IdsSound, FreshTokens, Begin
<1> QED BY <1>1, <1>2, <1>3 DEF IInv, OneTokenPerGrant, TokenForApprover, Begin

(* So does ending one without writing.                                     *)
LEMMA EndKeeps ==
  ASSUME IInv, NEW c \in Caller, End(c), UNCHANGED <<users, grants, lapsed, started, tokens, approvals>>
  PROVE  IInv'
<1>1. TypeOK' BY DEF IInv, TypeOK, End
<1>2. None \notin ExchangeTxn BY NoneAssumption DEF Txn
<1>3. ReadSound' BY <1>2 DEF IInv, TypeOK, ReadSound, End, IsApproved, Exists
<1>4. IdsSound' BY <1>2 DEF IInv, TypeOK, IdsSound, End
<1> QED BY <1>1, <1>3, <1>4 DEF IInv, OneTokenPerGrant, TokenForApprover

(* An approval writes the grant it read, if that is still there.           *)
LEMMA ApproveKeeps ==
  ASSUME IInv, NEW c \in Caller, CommitApprove(c)
  PROVE  IInv'
<1> DEFINE g == txn[c].grant
           u == txn[c].user
<1>1. g \in Grant /\ u \in User BY TxnKinds DEF IInv, TypeOK, CommitApprove, Txn
<1>2. None \notin ExchangeTxn BY NoneAssumption DEF Txn
<1>3. TypeOK' BY <1>1 DEF IInv, TypeOK, CommitApprove, End, Approval
<1>4. ReadSound'
  BY <1>1, <1>2, GrantAssumption
     DEF IInv, TypeOK, ReadSound, CommitApprove, End, StillThere, IsApproved, Exists
<1>5. OneTokenPerGrant' /\ TokenForApprover'
  BY DEF IInv, OneTokenPerGrant, TokenForApprover, CommitApprove
<1>6. IdsSound' BY <1>2 DEF IInv, TypeOK, IdsSound, CommitApprove, End
<1> QED BY <1>3, <1>4, <1>5, <1>6 DEF IInv

(* An exchange mints from a grant that is still there, and deletes it: no  *)
(* token of that grant existed, and none can follow.                       *)
LEMMA ExchangeKeeps ==
  ASSUME IInv, NEW c \in Caller, CommitExchange(c)
  PROVE  IInv'
<1> DEFINE g == txn[c].grant
           k == [id |-> txn[c].token, user |-> txn[c].user, grant |-> g]
<1>1. /\ g \in Grant /\ txn[c].user \in User /\ txn[c].token \in Token
      /\ [grant |-> g, user |-> txn[c].user] \in approvals /\ g \in started /\ Exists(g)
  BY TxnKinds, NoneAssumption DEF IInv, TypeOK, ReadSound, CommitExchange, StillThere, Txn
<1>2. /\ tokens' = tokens \union {k} /\ grants' = [grants EXCEPT ![g] = NoRow]
      /\ txn' = [txn EXCEPT ![c] = None] /\ UNCHANGED <<users, lapsed, started, approvals>>
  BY DEF CommitExchange, Consumed, End
<1> HIDE DEF g
<1>3. TypeOK' BY <1>1, <1>2 DEF IInv, TypeOK, ApiToken
<1>4. None \notin ExchangeTxn BY NoneAssumption DEF Txn
<1>5. \A j \in tokens : j.grant # g BY <1>1 DEF IInv, ReadSound
<1>6. ReadSound'
  BY <1>1, <1>2, <1>4, GrantAssumption DEF IInv, TypeOK, ReadSound, IsApproved, Exists, ApiToken
<1>7. OneTokenPerGrant' BY <1>2, <1>5 DEF IInv, OneTokenPerGrant
<1>8. TokenForApprover'
  <2> SUFFICES ASSUME NEW j \in tokens' PROVE [grant |-> j.grant, user |-> j.user] \in approvals'
    BY DEF TokenForApprover
  <2>1. CASE j = k BY <1>1, <1>2, <2>1
  <2>2. CASE j \in tokens BY <1>2, <2>2 DEF IInv, TokenForApprover
  <2> QED BY <1>2, <2>1, <2>2
<1>9. IdsSound'
  <2> SUFFICES ASSUME NEW d \in Caller, txn'[d] \in ExchangeTxn
               PROVE  /\ \A j \in tokens' : j.id # txn'[d].token
                      /\ \A b \in Caller \ {d} : txn'[b] \in ExchangeTxn =>
                           txn'[b].token # txn'[d].token
    BY DEF IdsSound
  <2>1. d # c /\ \A b \in Caller \ {c} : txn'[b] = txn[b]
    BY <1>2, <1>4 DEF IInv, TypeOK
  <2>2. txn'[c] \notin ExchangeTxn BY <1>2, <1>4 DEF IInv, TypeOK
  <2>3. \A j \in tokens : j.id # txn[d].token BY <2>1 DEF IInv, IdsSound
  <2>4. k.id # txn[d].token BY <2>1 DEF IInv, IdsSound, CommitExchange
  <2>5. ASSUME NEW b \in Caller \ {d}, txn'[b] \in ExchangeTxn PROVE txn'[b].token # txn'[d].token
    BY <2>1, <2>2, <2>5 DEF IInv, IdsSound
  <2> QED BY <1>2, <2>1, <2>3, <2>4, <2>5
<1> QED BY <1>3, <1>6, <1>7, <1>8, <1>9 DEF IInv

(* A new grant has an id nobody knows.                                     *)
LEMMA StartKeeps ==
  ASSUME IInv, NEW g \in Grant, Start(g)
  PROVE  IInv'
<1>1. TypeOK' BY DEF IInv, TypeOK, Start
<1>2. ReadSound'
  BY GrantAssumption DEF IInv, TypeOK, ReadSound, Start, IsApproved, Exists
<1>3. IdsSound' BY DEF IInv, IdsSound, Start
<1> QED BY <1>1, <1>2, <1>3 DEF IInv, OneTokenPerGrant, TokenForApprover, Start

(* Time changes nothing the invariant speaks of.                           *)
LEMMA LapseKeeps ==
  ASSUME IInv, NEW g \in Grant, Lapse(g)
  PROVE  IInv'
<1>1. TypeOK' BY DEF IInv, TypeOK, ReadSound, Lapse
<1>2. ReadSound' BY DEF IInv, ReadSound, Lapse, IsApproved, Exists
<1>3. IdsSound' BY DEF IInv, IdsSound, Lapse
<1> QED BY <1>1, <1>2, <1>3 DEF IInv, OneTokenPerGrant, TokenForApprover, Lapse

(* Deleting a user only takes grants and tokens away.                      *)
LEMMA DeleteUserKeeps ==
  ASSUME IInv, NEW u \in User, DeleteUser(u)
  PROVE  IInv'
<1>1. TypeOK' BY DEF IInv, TypeOK, DeleteUser
<1>2. \A g \in Grant : grants'[g] = grants[g] \/ grants'[g] = NoRow
  BY DEF DeleteUser
<1>3. tokens' \subseteq tokens /\ UNCHANGED <<lapsed, started, txn, approvals>>
  BY DEF DeleteUser
<1>4. ReadSound'
  BY <1>2, <1>3, GrantAssumption
     DEF IInv, TypeOK, ReadSound, IsApproved, Exists, ApiToken
<1>5. OneTokenPerGrant' /\ TokenForApprover'
  BY <1>3 DEF IInv, OneTokenPerGrant, TokenForApprover
<1>6. IdsSound' BY <1>3 DEF IInv, IdsSound
<1> QED BY <1>1, <1>4, <1>5, <1>6 DEF IInv

(* IInv is inductive.                                                      *)
LEMMA IInvStep == IInv /\ [Next]_vars => IInv'
<1> SUFFICES ASSUME IInv, [Next]_vars PROVE IInv' OBVIOUS
<1>1. CASE \E c \in Caller : Command(c)
  <2> PICK c \in Caller : Command(c) BY <1>1
  <2>1. ASSUME NEW u \in User, NEW g \in Grant, ReadApprove(c, u, g) PROVE IInv'
    <3> DEFINE x == [cmd |-> "approve", grant |-> g, user |-> u]
    <3>1. x \in Txn /\ x \notin ExchangeTxn BY DEF Txn, ApproveTxn, ExchangeTxn
    <3>2. Begin(c, x) /\ x.grant \in started BY <2>1 DEF ReadApprove, IInv, ReadSound
    <3> QED BY <3>1, <3>2, BeginKeeps
  <2>2. ASSUME NEW g \in Grant, ReadPoll(c, g) PROVE IInv'
    <3>1. g \in started BY <2>2 DEF ReadPoll, IInv, ReadSound
    <3>2. CASE Begin(c, [cmd |-> "expire", grant |-> g])
      <4> DEFINE x == [cmd |-> "expire", grant |-> g]
      <4>1. x \in Txn /\ x \notin ExchangeTxn BY DEF Txn, ExpireTxn, ExchangeTxn
      <4> QED BY <3>1, <3>2, <4>1, BeginKeeps
    <3>3. ASSUME IsApproved(g), NEW t \in FreshTokens,
                 Begin(c, [cmd |-> "exchange", grant |-> g, user |-> grants[g], token |-> t])
          PROVE  IInv'
      <4> DEFINE x == [cmd |-> "exchange", grant |-> g, user |-> grants[g], token |-> t]
      <4>1. x \in Txn BY <3>3 DEF Txn, ExchangeTxn, IsApproved, FreshTokens
      <4>2. [grant |-> x.grant, user |-> x.user] \in approvals BY <3>3 DEF IInv, ReadSound
      <4> QED BY <3>1, <3>3, <4>1, <4>2, BeginKeeps
    <3> QED BY <2>2, <3>2, <3>3 DEF ReadPoll
  <2>3. CASE FailExpired(c) \/ Abort(c) BY <2>3, EndKeeps DEF FailExpired, Abort
  <2> QED BY <2>1, <2>2, <2>3, ApproveKeeps, ExchangeKeeps DEF Command
<1>2. CASE \E g \in Grant : Start(g) \/ Lapse(g) BY <1>2, StartKeeps, LapseKeeps
<1>3. CASE \E u \in User : DeleteUser(u) BY <1>3, DeleteUserKeeps
<1>4. CASE UNCHANGED vars
  BY <1>4 DEF vars, IInv, TypeOK, ReadSound, IdsSound, OneTokenPerGrant, TokenForApprover, IsApproved, Exists
<1> QED BY <1>1, <1>2, <1>3, <1>4 DEF Next

(* The invariant holds in every behaviour.                                 *)
THEOREM Invariance == Spec => []IInv
BY IInvInit, IInvStep, PTL DEF Spec

(* The variables keep their types.                                         *)
THEOREM TypeCorrectness == Spec => []TypeOK
<1>1. IInv => TypeOK BY DEF IInv
<1> QED BY Invariance, <1>1, PTL

(* One grant yields one token, however many polls overlap.                 *)
THEOREM SingleUse == Spec => []OneTokenPerGrant
<1>1. IInv => OneTokenPerGrant BY DEF IInv
<1> QED BY Invariance, <1>1, PTL

(* A token acts for an approver of its grant.                              *)
THEOREM RightOwner == Spec => []TokenForApprover
<1>1. IInv => TokenForApprover BY DEF IInv
<1> QED BY Invariance, <1>1, PTL

(* No overlapping approval brings a consumed grant back.                   *)
THEOREM StaysConsumed == Spec => ConsumedStaysConsumed
<1>1. IInv /\ [Next]_vars => [\A g \in started : ~Exists(g) => ~Exists(g)']_vars
  <2> SUFFICES ASSUME IInv, Next, NEW g \in started, ~Exists(g) PROVE ~Exists(g)'
    OBVIOUS
  <2> USE DEF Exists
  <2>1. g \in Grant BY DEF IInv, TypeOK
  <2>2. CASE \E c \in Caller : CommitApprove(c)
    BY <2>1, <2>2 DEF CommitApprove, StillThere, IInv, TypeOK
  <2>3. CASE \E c \in Caller : CommitExchange(c)
    BY <2>1, <2>3 DEF CommitExchange, Consumed, StillThere, IInv, TypeOK
  <2>4. CASE \E h \in Grant : Start(h) BY <2>1, <2>4 DEF Start, IInv, TypeOK
  <2>5. CASE \E u \in User : DeleteUser(u) BY <2>1, <2>5 DEF DeleteUser
  <2>6. CASE UNCHANGED grants BY <2>6
  <2> QED BY <2>2, <2>3, <2>4, <2>5, <2>6
             DEF Next, Command, ReadApprove, ReadPoll, Begin, FailExpired, Abort, Lapse
<1> QED BY Invariance, <1>1, PTL DEF Spec, ConsumedStaysConsumed
-----------------------------------------------------------------------------
(* The commands implement Grants.                                          *)

(* Stages follow from what is stored and was handed out, approvers from    *)
(* the approvals: what leaves those alone is a stutter for a grant.        *)
LEMMA SameGrants ==
  ASSUME UNCHANGED <<started, approvals>>, \A g \in Grant : Exists(g)' = Exists(g)
  PROVE  \A g \in Grant : StageOf(g)' = StageOf(g) /\ ApproversOf(g)' = ApproversOf(g)
BY DEF StageOf, ApproversOf

LEMMA StartRefines ==
  ASSUME IInv, NEW g \in Grant, Start(g)
  PROVE  Abstract!Request(g)
<1>1. Exists(g)' /\ \A h \in Grant \ {g} : Exists(h)' = Exists(h)
  BY GrantAssumption DEF Start, Exists, IInv, TypeOK
<1>2. StageOf(g) = "new" BY DEF Start, StageOf
<1>3. \A h \in Grant : StageOf(h)' = IF h = g THEN "open" ELSE StageOf(h)
  BY <1>1 DEF Start, StageOf
<1>4. \A h \in Grant : ApproversOf(h)' = ApproversOf(h) BY DEF Start, ApproversOf
<1> QED BY <1>2, <1>3, <1>4 DEF Start, Abstract!Request

LEMMA ApproveRefines ==
  ASSUME IInv, NEW c \in Caller, CommitApprove(c)
  PROVE  Abstract!Next
<1>0. txn[c].grant \in Grant /\ txn[c].user \in User
  BY TxnKinds DEF CommitApprove, IInv, TypeOK, Txn
<1> PICK g \in Grant, u \in User : g = txn[c].grant /\ u = txn[c].user
  BY <1>0
<1>1. u \in users /\ Exists(g) /\ g \in started
  BY DEF CommitApprove, StillThere, IInv, ReadSound
<1>2. /\ grants' = [grants EXCEPT ![g] = u]
      /\ approvals' = approvals \union {[grant |-> g, user |-> u]}
      /\ UNCHANGED <<users, started, tokens>>
  BY DEF CommitApprove
<1>3. \A h \in Grant : Exists(h)' = Exists(h)
  BY <1>1, <1>2, GrantAssumption DEF Exists, IInv, TypeOK
<1>4. StageOf(g) = "open" BY <1>1 DEF StageOf
<1>5. \A h \in Grant : StageOf(h)' = StageOf(h) BY <1>2, <1>3 DEF StageOf
<1>6. \A h \in Grant : ApproversOf(h)' = IF h = g THEN ApproversOf(h) \union {u} ELSE ApproversOf(h)
  BY <1>1, <1>2 DEF ApproversOf
<1>7. Abstract!Approve(g, u) BY <1>1, <1>2, <1>4, <1>5, <1>6 DEF Abstract!Approve
<1> QED BY <1>1, <1>7 DEF Abstract!Next

LEMMA ExchangeRefines ==
  ASSUME IInv, NEW c \in Caller, CommitExchange(c)
  PROVE  Abstract!Next
<1>0. txn[c].grant \in Grant /\ txn[c].user \in User /\ txn[c].token \in Token
  BY TxnKinds DEF CommitExchange, IInv, TypeOK, Txn
<1> PICK g \in Grant, u \in User, t \in Token :
      g = txn[c].grant /\ u = txn[c].user /\ t = txn[c].token
  BY <1>0
<1>1. /\ u \in users /\ Exists(g) /\ g \in started
      /\ [grant |-> g, user |-> u] \in approvals /\ \A k \in tokens : k.id # t
  BY DEF CommitExchange, StillThere, IInv, TypeOK, ReadSound, IdsSound, Txn
<1>2. /\ grants' = [grants EXCEPT ![g] = NoRow]
      /\ tokens' = tokens \union {[id |-> t, user |-> u, grant |-> g]}
      /\ UNCHANGED <<users, started, approvals>>
  BY DEF CommitExchange, Consumed
<1>3. ~Exists(g)' /\ \A h \in Grant \ {g} : Exists(h)' = Exists(h)
  BY <1>1, <1>2 DEF Exists, IInv, TypeOK
<1>4. StageOf(g) = "open" /\ u \in ApproversOf(g) BY <1>1 DEF StageOf, ApproversOf
<1>5. \A h \in Grant : StageOf(h)' = IF h = g THEN "over" ELSE StageOf(h)
  BY <1>1, <1>2, <1>3 DEF StageOf
<1>6. \A h \in Grant : ApproversOf(h)' = ApproversOf(h) BY <1>2 DEF ApproversOf
<1>7. Abstract!Exchange(g, u, t) BY <1>1, <1>2, <1>4, <1>5, <1>6 DEF Abstract!Exchange
<1> QED BY <1>1, <1>7 DEF Abstract!Next

(* The grants that go with a user are those it approved last.              *)
LEMMA DeleteUserRefines ==
  ASSUME IInv, NEW u \in User, DeleteUser(u)
  PROVE  Abstract!Next
<1> DEFINE G == {g \in Grant : grants[g] = u}
<1>1. u # NoRow BY GrantAssumption
<1>2. \A g \in Grant : Exists(g)' <=> Exists(g) /\ g \notin G BY DEF DeleteUser, Exists
<1>3. \A g \in G : g \in started /\ Exists(g) /\ [grant |-> g, user |-> u] \in approvals
  BY <1>1 DEF IInv, ReadSound, Exists, IsApproved
<1>4. \A g \in G : StageOf(g) = "open" /\ u \in ApproversOf(g) BY <1>3 DEF StageOf, ApproversOf
<1>5. \A g \in Grant : StageOf(g)' = IF g \in G THEN "over" ELSE StageOf(g)
  BY <1>2, <1>3 DEF DeleteUser, StageOf
<1>6. \A g \in Grant : ApproversOf(g)' = ApproversOf(g) BY DEF DeleteUser, ApproversOf
<1>7. u \in users /\ users' = users \ {u} /\ tokens' = {k \in tokens : k.user # u}
  BY DEF DeleteUser
<1>8. G \in SUBSET Grant OBVIOUS
<1> HIDE DEF G
<1>9. Abstract!DeleteUser(u, G) BY <1>4, <1>5, <1>6, <1>7, <1>8 DEF Abstract!DeleteUser
<1> QED BY <1>8, <1>9 DEF Abstract!Next

(* Polls, approvals and deletions that act on what they read before come   *)
(* to grants that are open once and exchanged once, for a token of its own *)
(* that is an approver's (poll-, approve-, start-device-grant.handler.ts). *)
THEOREM Refinement == Spec => ImplementsGrants
<1>1. Init => Abstract!Init BY DEF Init, Abstract!Init, StageOf, ApproversOf
<1>2. IInv /\ [Next]_vars => [Abstract!Next]_(Abstract!vars)
  <2> SUFFICES ASSUME IInv, [Next]_vars PROVE [Abstract!Next]_(Abstract!vars) OBVIOUS
  <2>1. CASE UNCHANGED <<users, grants, started, tokens, approvals>>
    <3>1. \A g \in Grant : Exists(g)' = Exists(g) BY <2>1 DEF Exists
    <3>2. \A g \in Grant : StageOf(g)' = StageOf(g) /\ ApproversOf(g)' = ApproversOf(g)
      BY <2>1, <3>1, SameGrants
    <3> QED BY <2>1, <3>2 DEF Abstract!vars
  <2>2. ASSUME NEW c \in Caller, Command(c) PROVE [Abstract!Next]_(Abstract!vars)
    BY <2>1, <2>2, ApproveRefines, ExchangeRefines
       DEF Command, ReadApprove, ReadPoll, Begin, FailExpired, Abort
  <2>3. ASSUME NEW g \in Grant, Start(g) PROVE Abstract!Next
    BY <2>3, StartRefines DEF Abstract!Next
  <2>4. ASSUME NEW g \in Grant, Lapse(g) PROVE [Abstract!Next]_(Abstract!vars)
    BY <2>1, <2>4 DEF Lapse
  <2>5. CASE UNCHANGED vars BY <2>1, <2>5 DEF vars
  <2> QED BY <2>2, <2>3, <2>4, <2>5, DeleteUserRefines DEF Next
<1> QED BY <1>1, <1>2, Invariance, PTL DEF Spec, ImplementsGrants, Abstract!Spec
=============================================================================
