----------------------------- MODULE SignInProofs -----------------------------
(* Proofs about SignIn.  IInv is inductive: a transaction's look-up may be *)
(* overtaken only by the deletion of the user it found, ids do not return, *)
(* and the tables' keys refuse everything else.                            *)
EXTENDS SignIn, TLAPS

(* The steps tell the kinds of transaction apart.                          *)
LEMMA TxnKinds ==
  ASSUME NEW x \in Txn
  PROVE  /\ x.step = "look" => x.subject \in Subject /\ x.email \in Email /\ x.verified \in BOOLEAN
         /\ x.step = "create" => x.subject \in Subject /\ x.email \in Email
         /\ x.step \in {"known", "link"} => x.subject \in Subject /\ x.user \in User
  BY DEF Txn, LookTxn, CreateTxn, UserTxn

LEMMA IInvInit == Init => IInv
<1> SUFFICES ASSUME Init PROVE IInv OBVIOUS
<1>1. TypeOK BY DEF Init, TypeOK
<1>2. KeysSound BY DEF Init, KeysSound, Exists
<1>3. TxnSound BY DEF Init, TxnSound
<1>4. SessionMatchesIdentity BY DEF Init, SessionMatchesIdentity
<1>5. LinkNeedsProof BY DEF Init, LinkNeedsProof
<1>6. NoStrandedAccount BY DEF Init, NoStrandedAccount, Exists
<1> QED BY <1>1, <1>2, <1>3, <1>4, <1>5, <1>6 DEF IInv

(* Starting, deciding on and ending a transaction without a write.         *)
LEMMA LookingKeeps ==
  ASSUME IInv, NEW c \in Caller, NEW x \in Txn \union {None}, Goto(c, x),
         UNCHANGED <<tables, issued, createdFor>>, proved \subseteq proved',
         proved' \subseteq Subject \X Email,
         x # None =>
           /\ x.step = "look" /\ x.verified => <<x.subject, x.email>> \in proved'
           /\ x.step \in {"known", "link"} => x.user \in issued
           /\ x.step = "known" /\ Exists(x.user) => identities[x.subject] = x.user
           /\ x.step = "link" /\ Exists(x.user) => <<x.subject, users[x.user]>> \in proved'
  PROVE  IInv'
<1>1. TypeOK' BY DEF IInv, TypeOK, Goto, tables
<1>2. KeysSound' BY DEF IInv, KeysSound, Exists, tables
<1>3. TxnSound'
  <2> SUFFICES ASSUME NEW d \in Caller, txn'[d] # None
               PROVE  LET y == txn'[d]
                      IN /\ y.step = "look" /\ y.verified => <<y.subject, y.email>> \in proved'
                         /\ y.step \in {"known", "link"} => y.user \in issued
                         /\ y.step = "known" /\ Exists(y.user) => identities[y.subject] = y.user
                         /\ y.step = "link" /\ Exists(y.user) => <<y.subject, users[y.user]>> \in proved'
    BY DEF TxnSound, Exists, tables
  <2>1. CASE d = c BY <2>1 DEF IInv, TypeOK, Goto
  <2>2. CASE d # c
    <3>1. txn'[d] = txn[d] BY <2>2 DEF IInv, TypeOK, Goto
    <3> QED BY <3>1 DEF IInv, TxnSound
  <2> QED BY <2>1, <2>2
<1>4. SessionMatchesIdentity' BY DEF IInv, SessionMatchesIdentity, tables
<1>5. LinkNeedsProof' BY DEF IInv, LinkNeedsProof, tables
<1>6. NoStrandedAccount' BY DEF IInv, NoStrandedAccount, Exists, tables
<1> QED BY <1>1, <1>2, <1>3, <1>4, <1>5, <1>6 DEF IInv

LEMMA ReadingKeeps ==
  ASSUME IInv, NEW c \in Caller,
         \/ \E s \in Subject, e \in Email, v \in BOOLEAN : ReadIdentity(c, s, e, v)
         \/ LookUp(c) \/ Abort(c)
  PROVE  IInv'
<1>1. ASSUME NEW s \in Subject, NEW e \in Email, NEW v \in BOOLEAN, ReadIdentity(c, s, e, v)
      PROVE  IInv'
  <2>1. CASE identities[s] # NoRow
    <3> DEFINE x == [step |-> "known", subject |-> s, user |-> identities[s]]
    <3>1. Goto(c, x) /\ proved' = proved /\ UNCHANGED <<tables, issued, createdFor>>
      BY <1>1, <2>1 DEF ReadIdentity
    <3>2. x \in Txn /\ x.user \in issued
      BY <2>1 DEF IInv, TypeOK, KeysSound, Exists, Txn, UserTxn
    <3>3. proved' \subseteq Subject \X Email BY <3>1 DEF IInv, TypeOK
    <3> HIDE DEF x
    <3>4. x.step = "known" /\ x.subject = s /\ x.user = identities[s] BY DEF x
    <3> QED BY <3>1, <3>2, <3>3, <3>4, LookingKeeps
  <2>2. CASE identities[s] = NoRow
    <3> DEFINE x == [step |-> "look", subject |-> s, email |-> e, verified |-> v]
    <3>1. /\ Goto(c, x) /\ UNCHANGED <<tables, issued, createdFor>>
          /\ proved' = IF v THEN proved \union {<<s, e>>} ELSE proved
      BY <1>1, <2>2 DEF ReadIdentity
    <3>2. x \in Txn BY DEF Txn, LookTxn
    <3>3. proved' \subseteq Subject \X Email BY <3>1 DEF IInv, TypeOK
    <3> HIDE DEF x
    <3>4. x.step = "look" /\ x.subject = s /\ x.email = e /\ x.verified = v BY DEF x
    <3> QED BY <3>1, <3>2, <3>3, <3>4, LookingKeeps
  <2> QED BY <2>1, <2>2
<1>2. CASE LookUp(c)
  <2> DEFINE y == txn[c]
  <2>1. /\ y \in Txn /\ y.step = "look" /\ y # None /\ UNCHANGED <<tables, history>>
    BY <1>2 DEF LookUp, At, IInv, TypeOK
  <2>2. y.subject \in Subject /\ y.email \in Email /\ y.verified \in BOOLEAN BY <2>1, TxnKinds
  <2>3. y.verified => <<y.subject, y.email>> \in proved BY <2>1 DEF IInv, TxnSound
  <2>4. proved' \subseteq Subject \X Email /\ proved' = proved /\ UNCHANGED <<issued, createdFor>>
    BY <2>1 DEF IInv, TypeOK, history
  <2>5. ASSUME NEW u \in ProvenMatch(y), Goto(c, [step |-> "link", subject |-> y.subject, user |-> u])
        PROVE  IInv'
    <3> DEFINE x == [step |-> "link", subject |-> y.subject, user |-> u]
    <3>1. u \in User /\ users[u] = y.email /\ y.verified BY <2>5 DEF ProvenMatch, Registered
    <3>2. u \in issued
      BY <3>1, <2>2, NoRowAssumption DEF IInv, KeysSound, Exists
    <3>3. x \in Txn BY <3>1, <2>2 DEF Txn, UserTxn
    <3>4. Goto(c, x) BY <2>5
    <3> HIDE DEF x
    <3>5. x.step = "link" /\ x.subject = y.subject /\ x.user = u BY DEF x
    <3> QED BY <2>1, <2>3, <2>4, <3>1, <3>2, <3>3, <3>4, <3>5, LookingKeeps
  <2>6. CASE Goto(c, [step |-> "create", subject |-> y.subject, email |-> y.email])
    <3> DEFINE x == [step |-> "create", subject |-> y.subject, email |-> y.email]
    <3>1. x \in Txn BY <2>2 DEF Txn, CreateTxn
    <3>2. Goto(c, x) BY <2>6
    <3> HIDE DEF x
    <3>3. x.step = "create" BY DEF x
    <3> QED BY <2>1, <2>4, <3>1, <3>2, <3>3, LookingKeeps
  <2> QED BY <1>2, <2>5, <2>6 DEF LookUp
<1>3. CASE Abort(c)
  <2>1. Goto(c, None) /\ UNCHANGED <<tables, history>> BY <1>3 DEF Abort
  <2>2. proved' \subseteq Subject \X Email /\ proved' = proved /\ UNCHANGED <<issued, createdFor>>
    BY <2>1 DEF IInv, TypeOK, history
  <2> QED BY <2>1, <2>2, LookingKeeps
<1> QED BY <1>1, <1>2, <1>3

(* Committing for a user that is still there.                              *)
LEMMA KnownKeeps ==
  ASSUME IInv, NEW c \in Caller, CommitKnown(c)
  PROVE  IInv'
<1> DEFINE x == txn[c]
<1>1. /\ x \in Txn /\ x # None /\ x.step = "known" /\ Exists(x.user)
      /\ Goto(c, None) /\ UNCHANGED <<users, identities, history>>
      /\ sessions' = sessions \union {[subject |-> x.subject, user |-> x.user]}
  BY DEF CommitKnown, At, StillUser, OpenSession, IInv, TypeOK
<1>2. x.subject \in Subject /\ x.user \in User BY <1>1, TxnKinds
<1>3. identities[x.subject] = x.user BY <1>1 DEF IInv, TxnSound
<1>4. TypeOK' BY <1>1, <1>2 DEF IInv, TypeOK, Goto, Session, history
<1>5. KeysSound' BY <1>1 DEF IInv, KeysSound, Exists, history
<1>6. TxnSound' BY <1>1 DEF IInv, TypeOK, TxnSound, Goto, Exists, history
<1>7. SessionMatchesIdentity'
  <2> SUFFICES ASSUME NEW y \in sessions' PROVE identities[y.subject] = y.user
    BY <1>1 DEF SessionMatchesIdentity
  <2>1. CASE y \in sessions BY <2>1 DEF IInv, SessionMatchesIdentity
  <2>2. CASE y = [subject |-> x.subject, user |-> x.user] BY <2>2, <1>3
  <2> QED BY <1>1, <2>1, <2>2
<1>8. LinkNeedsProof' BY <1>1 DEF IInv, LinkNeedsProof, history
<1>9. NoStrandedAccount' BY <1>1 DEF IInv, NoStrandedAccount, Exists, history
<1> QED BY <1>4, <1>5, <1>6, <1>7, <1>8, <1>9 DEF IInv

(* A first sign-in links its subject to the user it proved to be.          *)
LEMMA LinkKeeps ==
  ASSUME IInv, NEW c \in Caller, CommitLink(c)
  PROVE  IInv'
<1> DEFINE x == txn[c]
<1>1. /\ x \in Txn /\ x # None /\ x.step = "link" /\ Exists(x.user)
      /\ identities[x.subject] = NoRow
      /\ identities' = [identities EXCEPT ![x.subject] = x.user]
      /\ sessions' = sessions \union {[subject |-> x.subject, user |-> x.user]}
      /\ Goto(c, None) /\ UNCHANGED <<users, history>>
  BY DEF CommitLink, At, StillUser, Unlinked, OpenSession, IInv, TypeOK
<1>2. x.subject \in Subject /\ x.user \in User /\ x.user # NoRow
  BY <1>1, TxnKinds, NoRowAssumption
<1>3. <<x.subject, users[x.user]>> \in proved BY <1>1 DEF IInv, TxnSound
<1>4. /\ identities'[x.subject] = x.user
      /\ \A s \in Subject \ {x.subject} : identities'[s] = identities[s]
  BY <1>1, <1>2 DEF IInv, TypeOK
<1>5. TypeOK' BY <1>1, <1>2 DEF IInv, TypeOK, Goto, Session, history
<1>6. KeysSound' BY <1>1, <1>4 DEF IInv, KeysSound, Exists, history
<1>7. TxnSound'
  <2> SUFFICES ASSUME NEW d \in Caller, txn[d] # None, txn'[d] = txn[d],
                      txn[d].step = "known", Exists(txn[d].user)
               PROVE  identities'[txn[d].subject] = txn[d].user
    BY <1>1 DEF IInv, TypeOK, TxnSound, Goto, Exists, history
  <2>1. txn[d].subject \in Subject /\ txn[d].user \in User BY TxnKinds DEF IInv, TypeOK
  <2>2. identities[txn[d].subject] = txn[d].user BY DEF IInv, TxnSound
  <2>3. txn[d].subject # x.subject BY <1>1, <2>1, <2>2, NoRowAssumption
  <2> QED BY <1>4, <2>1, <2>2, <2>3
<1>8. SessionMatchesIdentity'
  <2> SUFFICES ASSUME NEW y \in sessions' PROVE identities'[y.subject] = y.user
    BY DEF SessionMatchesIdentity
  <2>1. CASE y \in sessions
    <3>1. y.subject \in Subject /\ y.user \in User /\ identities[y.subject] = y.user
      BY <2>1 DEF IInv, TypeOK, Session, SessionMatchesIdentity
    <3> QED BY <1>1, <1>4, <3>1, NoRowAssumption
  <2>2. CASE y = [subject |-> x.subject, user |-> x.user] BY <2>2, <1>4
  <2> QED BY <1>1, <2>1, <2>2
<1>9. LinkNeedsProof' BY <1>1, <1>3, <1>4 DEF IInv, LinkNeedsProof, history
<1>10. NoStrandedAccount'
  <2> SUFFICES ASSUME NEW u \in User, Exists(u), createdFor[u] # None
               PROVE  identities'[createdFor[u]] = u
    BY <1>1 DEF NoStrandedAccount, Exists, history
  <2>1. identities[createdFor[u]] = u /\ createdFor[u] \in Subject
    BY DEF IInv, TypeOK, NoStrandedAccount
  <2>2. createdFor[u] # x.subject BY <1>1, <2>1, NoRowAssumption
  <2> QED BY <1>4, <2>1, <2>2
<1> QED BY <1>5, <1>6, <1>7, <1>8, <1>9, <1>10 DEF IInv

(* A new user's id was in no row and no transaction.                       *)
LEMMA CreateFresh ==
  ASSUME IInv, NEW u \in User, NEW e \in Email, NEW s \in Subject \union {None}, Create(u, e, s)
  PROVE  /\ ~Exists(u) /\ Exists(u)' /\ u \in issued' /\ u # NoRow
         /\ users'[u] = e /\ createdFor'[u] = s
         /\ \A v \in User \ {u} : users'[v] = users[v] /\ createdFor'[v] = createdFor[v]
         /\ \A t \in Subject : identities[t] # u
         /\ \A y \in sessions : y.user # u
         /\ \A c \in Caller : txn[c] # None /\ txn[c].step \in {"known", "link"} => txn[c].user # u
         /\ users' \in [User -> Email \union {NoRow}]
         /\ createdFor' \in [User -> Subject \union {None}]
         /\ issued \subseteq issued' /\ issued' \subseteq User
<1>1. u \notin issued /\ ~Exists(u) BY DEF Create, IInv, KeysSound
<1>2. u # NoRow /\ e # NoRow BY NoRowAssumption
<1>3. \A t \in Subject : identities[t] # u BY <1>1, <1>2 DEF IInv, KeysSound
<1>4. \A y \in sessions : y.user # u
  BY <1>3 DEF IInv, TypeOK, Session, SessionMatchesIdentity
<1>5. \A c \in Caller : txn[c] # None /\ txn[c].step \in {"known", "link"} => txn[c].user # u
  BY <1>1 DEF IInv, TxnSound
<1>6. /\ users'[u] = e /\ createdFor'[u] = s
      /\ \A v \in User \ {u} : users'[v] = users[v] /\ createdFor'[v] = createdFor[v]
      /\ users' \in [User -> Email \union {NoRow}]
      /\ createdFor' \in [User -> Subject \union {None}]
      /\ issued \subseteq issued' /\ issued' \subseteq User /\ u \in issued'
  BY DEF Create, IInv, TypeOK
<1> QED BY <1>1, <1>2, <1>3, <1>4, <1>5, <1>6 DEF Exists

(* A first sign-in creates its user and links to it.                       *)
LEMMA CreateKeeps ==
  ASSUME IInv, NEW c \in Caller, CommitCreate(c)
  PROVE  IInv'
<1> DEFINE x == txn[c]
<1>1. /\ x \in Txn /\ x # None /\ x.step = "create" /\ Goto(c, None) /\ proved' = proved
  BY DEF CommitCreate, At, IInv, TypeOK
<1>2. x.subject \in Subject /\ x.email \in Email BY <1>1, TxnKinds
<1>3. PICK u \in User :
        /\ Create(u, x.email, x.subject) /\ identities[x.subject] = NoRow
        /\ identities' = [identities EXCEPT ![x.subject] = u]
        /\ sessions' = sessions \union {[subject |-> x.subject, user |-> u]}
  BY DEF CommitCreate, Unlinked, OpenSession
<1> HIDE DEF x
<1>4. /\ ~Exists(u) /\ Exists(u)' /\ u \in issued' /\ u # NoRow
      /\ users'[u] = x.email /\ createdFor'[u] = x.subject
      /\ \A v \in User \ {u} : users'[v] = users[v] /\ createdFor'[v] = createdFor[v]
      /\ \A t \in Subject : identities[t] # u
      /\ \A y \in sessions : y.user # u
      /\ \A d \in Caller : txn[d] # None /\ txn[d].step \in {"known", "link"} => txn[d].user # u
      /\ users' \in [User -> Email \union {NoRow}]
      /\ createdFor' \in [User -> Subject \union {None}]
      /\ issued \subseteq issued' /\ issued' \subseteq User
  BY <1>2, <1>3, CreateFresh
<1>5. /\ identities'[x.subject] = u
      /\ \A s \in Subject \ {x.subject} : identities'[s] = identities[s]
  BY <1>2, <1>3 DEF IInv, TypeOK
<1>6. TypeOK' BY <1>1, <1>2, <1>3, <1>4 DEF IInv, TypeOK, Goto, Session
<1>7. KeysSound'
  <2>1. ASSUME NEW v \in User, Exists(v)' PROVE v \in issued'
    BY <2>1, <1>4 DEF IInv, KeysSound, Exists
  <2>2. ASSUME NEW s \in Subject, identities'[s] # NoRow PROVE users'[identities'[s]] # NoRow
    <3>1. CASE s = x.subject BY <3>1, <1>4, <1>5 DEF Exists
    <3>2. CASE s # x.subject
      <4>1. identities[s] \in User \ {u} /\ Exists(identities[s])
        BY <2>2, <3>2, <1>4, <1>5 DEF IInv, TypeOK, KeysSound
      <4> QED BY <3>2, <4>1, <1>4, <1>5 DEF Exists
    <3> QED BY <3>1, <3>2
  <2> QED BY <2>1, <2>2 DEF KeysSound, Exists
<1>8. TxnSound'
  <2> SUFFICES ASSUME NEW d \in Caller, txn[d] # None, txn'[d] = txn[d]
               PROVE  LET y == txn[d]
                      IN /\ y.step = "look" /\ y.verified => <<y.subject, y.email>> \in proved
                         /\ y.step \in {"known", "link"} => y.user \in issued'
                         /\ y.step = "known" /\ users'[y.user] # NoRow => identities'[y.subject] = y.user
                         /\ y.step = "link" /\ users'[y.user] # NoRow =>
                              <<y.subject, users'[y.user]>> \in proved
    BY <1>1 DEF IInv, TypeOK, TxnSound, Goto, Exists
  <2> DEFINE y == txn[d]
  <2>1. y \in Txn BY DEF IInv, TypeOK
  <2>2. y.step = "look" /\ y.verified => <<y.subject, y.email>> \in proved BY DEF IInv, TxnSound
  <2>3. ASSUME y.step \in {"known", "link"}
        PROVE  y.subject \in Subject /\ y.user \in User \ {u} /\ users'[y.user] = users[y.user]
               /\ y.user \in issued /\ y.user # NoRow
    BY <2>1, <2>3, <1>4, TxnKinds, NoRowAssumption DEF IInv, TxnSound
  <2>4. ASSUME y.step = "known", users'[y.user] # NoRow PROVE identities'[y.subject] = y.user
    <3>1. identities[y.subject] = y.user BY <2>3, <2>4 DEF IInv, TxnSound, Exists
    <3>2. y.subject # x.subject BY <3>1, <2>3, <2>4, <1>3
    <3> QED BY <3>1, <3>2, <2>3, <2>4, <1>5
  <2>5. ASSUME y.step = "link", users'[y.user] # NoRow PROVE <<y.subject, users'[y.user]>> \in proved
    BY <2>3, <2>5 DEF IInv, TxnSound, Exists
  <2>6. y.step \in {"known", "link"} => y.user \in issued' BY <2>3, <1>4
  <2> QED BY <2>2, <2>4, <2>5, <2>6
<1>9. SessionMatchesIdentity'
  <2> SUFFICES ASSUME NEW y \in sessions' PROVE identities'[y.subject] = y.user
    BY DEF SessionMatchesIdentity
  <2>1. CASE y \in sessions
    <3>1. y.subject \in Subject /\ y.user \in User /\ identities[y.subject] = y.user
      BY <2>1 DEF IInv, TypeOK, Session, SessionMatchesIdentity
    <3> QED BY <1>3, <1>5, <3>1, NoRowAssumption
  <2>2. CASE y = [subject |-> x.subject, user |-> u] BY <2>2, <1>5
  <2> QED BY <1>3, <2>1, <2>2
<1>10. LinkNeedsProof'
  <2> SUFFICES ASSUME NEW s \in Subject, identities'[s] # NoRow
               PROVE  \/ createdFor'[identities'[s]] = s
                      \/ <<s, users'[identities'[s]]>> \in proved
    BY <1>1 DEF LinkNeedsProof
  <2>1. CASE s = x.subject BY <2>1, <1>4, <1>5
  <2>2. CASE s # x.subject
    <3>1. identities'[s] = identities[s] /\ identities[s] \in User \ {u}
      BY <2>2, <1>4, <1>5 DEF IInv, TypeOK
    <3> QED BY <3>1, <1>4 DEF IInv, LinkNeedsProof
  <2> QED BY <2>1, <2>2
<1>11. NoStrandedAccount'
  <2> SUFFICES ASSUME NEW v \in User, users'[v] # NoRow, createdFor'[v] # None
               PROVE  identities'[createdFor'[v]] = v
    BY DEF NoStrandedAccount, Exists
  <2>1. CASE v = u BY <2>1, <1>4, <1>5
  <2>2. CASE v # u
    <3>1. Exists(v) /\ createdFor'[v] = createdFor[v] BY <2>2, <1>4 DEF Exists
    <3>2. createdFor[v] \in Subject /\ identities[createdFor[v]] = v
      BY <3>1 DEF IInv, TypeOK, NoStrandedAccount
    <3>3. createdFor[v] # x.subject BY <3>2, <1>3, NoRowAssumption
    <3> QED BY <3>1, <3>2, <3>3, <1>5
  <2> QED BY <2>1, <2>2
<1> QED BY <1>6, <1>7, <1>8, <1>9, <1>10, <1>11 DEF IInv

(* An admin's new user is nobody's yet.                                    *)
LEMMA AdminKeeps ==
  ASSUME IInv, NEW u \in User, NEW e \in Email, CreateUser(u, e)
  PROVE  IInv'
<1>1. Create(u, e, None) /\ UNCHANGED <<identities, sessions, txn, proved>> BY DEF CreateUser
<1>2. /\ ~Exists(u) /\ Exists(u)' /\ u \in issued' /\ u # NoRow
      /\ users'[u] = e /\ createdFor'[u] = None
      /\ \A v \in User \ {u} : users'[v] = users[v] /\ createdFor'[v] = createdFor[v]
      /\ \A t \in Subject : identities[t] # u
      /\ \A d \in Caller : txn[d] # None /\ txn[d].step \in {"known", "link"} => txn[d].user # u
      /\ users' \in [User -> Email \union {NoRow}]
      /\ createdFor' \in [User -> Subject \union {None}]
      /\ issued \subseteq issued' /\ issued' \subseteq User
  BY <1>1, CreateFresh
<1>3. TypeOK' BY <1>1, <1>2 DEF IInv, TypeOK
<1>4. KeysSound'
  <2>1. ASSUME NEW v \in User, users'[v] # NoRow PROVE v \in issued'
    BY <2>1, <1>2 DEF IInv, KeysSound, Exists
  <2>2. ASSUME NEW s \in Subject, identities[s] # NoRow PROVE users'[identities[s]] # NoRow
    BY <2>2, <1>2 DEF IInv, TypeOK, KeysSound, Exists
  <2> QED BY <1>1, <2>1, <2>2 DEF KeysSound, Exists
<1>5. TxnSound'
  <2> SUFFICES ASSUME NEW d \in Caller, txn[d] # None
               PROVE  LET y == txn[d]
                      IN /\ y.step = "look" /\ y.verified => <<y.subject, y.email>> \in proved
                         /\ y.step \in {"known", "link"} => y.user \in issued'
                         /\ y.step = "known" /\ users'[y.user] # NoRow => identities[y.subject] = y.user
                         /\ y.step = "link" /\ users'[y.user] # NoRow =>
                              <<y.subject, users'[y.user]>> \in proved
    BY <1>1 DEF TxnSound, Exists
  <2> DEFINE y == txn[d]
  <2>1. y \in Txn BY DEF IInv, TypeOK
  <2>2. ASSUME y.step \in {"known", "link"} PROVE y.user \in User \ {u} /\ y.user \in issued'
    BY <2>1, <2>2, <1>2, TxnKinds DEF IInv, TxnSound
  <2>3. y.step \in {"known", "link"} => users'[y.user] = users[y.user] BY <2>2, <1>2
  <2> QED BY <2>2, <2>3 DEF IInv, TxnSound, Exists
<1>6. SessionMatchesIdentity' BY <1>1 DEF IInv, SessionMatchesIdentity
<1>7. LinkNeedsProof'
  <2> SUFFICES ASSUME NEW s \in Subject, identities[s] # NoRow
               PROVE  createdFor'[identities[s]] = s \/ <<s, users'[identities[s]]>> \in proved
    BY <1>1 DEF LinkNeedsProof
  <2>1. identities[s] \in User \ {u} BY <1>2 DEF IInv, TypeOK
  <2> QED BY <2>1, <1>2 DEF IInv, LinkNeedsProof
<1>8. NoStrandedAccount' BY <1>1, <1>2 DEF IInv, NoStrandedAccount, Exists
<1> QED BY <1>3, <1>4, <1>5, <1>6, <1>7, <1>8 DEF IInv

(* Deleting a user takes everything that refers to it.                     *)
LEMMA DeleteKeeps ==
  ASSUME IInv, NEW u \in User, DeleteUser(u)
  PROVE  IInv'
<1>1. /\ u # NoRow /\ UNCHANGED <<txn, issued, createdFor, proved>>
      /\ users'[u] = NoRow /\ \A v \in User \ {u} : users'[v] = users[v]
      /\ \A s \in Subject : identities'[s] = IF identities[s] = u THEN NoRow ELSE identities[s]
      /\ sessions' = {x \in sessions : x.user # u}
  BY NoRowAssumption DEF DeleteUser, WithoutUser, IInv, TypeOK, history
<1>2. TypeOK' BY DEF IInv, TypeOK, DeleteUser, WithoutUser, history
<1>3. KeysSound'
  <2>1. ASSUME NEW v \in User, users'[v] # NoRow PROVE v \in issued
    BY <2>1, <1>1 DEF IInv, KeysSound, Exists
  <2>2. ASSUME NEW s \in Subject, identities'[s] # NoRow PROVE users'[identities'[s]] # NoRow
    <3>1. identities'[s] = identities[s] /\ identities[s] \in User \ {u}
      BY <2>2, <1>1 DEF IInv, TypeOK
    <3> QED BY <3>1, <2>2, <1>1 DEF IInv, KeysSound, Exists
  <2> QED BY <1>1, <2>1, <2>2 DEF KeysSound, Exists
<1>4. TxnSound'
  <2> SUFFICES ASSUME NEW d \in Caller, txn[d] # None
               PROVE  LET y == txn[d]
                      IN /\ y.step = "look" /\ y.verified => <<y.subject, y.email>> \in proved
                         /\ y.step \in {"known", "link"} => y.user \in issued
                         /\ y.step = "known" /\ users'[y.user] # NoRow => identities'[y.subject] = y.user
                         /\ y.step = "link" /\ users'[y.user] # NoRow =>
                              <<y.subject, users'[y.user]>> \in proved
    BY <1>1 DEF TxnSound, Exists
  <2> DEFINE y == txn[d]
  <2>1. y \in Txn BY DEF IInv, TypeOK
  <2>2. ASSUME y.step \in {"known", "link"}, users'[y.user] # NoRow
        PROVE  y.user \in User \ {u} /\ users'[y.user] = users[y.user] /\ y.subject \in Subject
    BY <2>1, <2>2, <1>1, TxnKinds
  <2>3. ASSUME y.step = "known", users'[y.user] # NoRow PROVE identities'[y.subject] = y.user
    <3>1. identities[y.subject] = y.user BY <2>2, <2>3 DEF IInv, TxnSound, Exists
    <3> QED BY <3>1, <2>2, <2>3, <1>1
  <2>4. ASSUME y.step = "link", users'[y.user] # NoRow PROVE <<y.subject, users'[y.user]>> \in proved
    BY <2>2, <2>4 DEF IInv, TxnSound, Exists
  <2>5. /\ y.step = "look" /\ y.verified => <<y.subject, y.email>> \in proved
        /\ y.step \in {"known", "link"} => y.user \in issued
    BY DEF IInv, TxnSound
  <2> QED BY <2>3, <2>4, <2>5
<1>5. SessionMatchesIdentity'
  <2> SUFFICES ASSUME NEW y \in sessions' PROVE identities'[y.subject] = y.user
    BY DEF SessionMatchesIdentity
  <2>1. y \in sessions /\ y.user # u /\ y.subject \in Subject BY <1>1 DEF IInv, TypeOK, Session
  <2> QED BY <2>1, <1>1 DEF IInv, SessionMatchesIdentity
<1>6. LinkNeedsProof'
  <2> SUFFICES ASSUME NEW s \in Subject, identities'[s] # NoRow
               PROVE  \/ createdFor[identities'[s]] = s
                      \/ <<s, users'[identities'[s]]>> \in proved
    BY <1>1 DEF LinkNeedsProof
  <2>1. identities'[s] = identities[s] /\ identities[s] \in User \ {u}
    BY <1>1 DEF IInv, TypeOK
  <2> QED BY <2>1, <1>1 DEF IInv, LinkNeedsProof
<1>7. NoStrandedAccount'
  <2> SUFFICES ASSUME NEW v \in User, users'[v] # NoRow, createdFor[v] # None
               PROVE  identities'[createdFor[v]] = v
    BY <1>1 DEF NoStrandedAccount, Exists
  <2>1. v # u /\ Exists(v) BY <1>1 DEF Exists
  <2>2. createdFor[v] \in Subject /\ identities[createdFor[v]] = v
    BY <2>1 DEF IInv, TypeOK, NoStrandedAccount
  <2> QED BY <2>1, <2>2, <1>1
<1> QED BY <1>2, <1>3, <1>4, <1>5, <1>6, <1>7 DEF IInv

(* IInv is inductive.                                                      *)
LEMMA IInvStep == IInv /\ [Next]_vars => IInv'
<1> SUFFICES ASSUME IInv, [Next]_vars PROVE IInv' OBVIOUS
<1>1. CASE UNCHANGED vars
  <2>1. TypeOK' BY <1>1 DEF IInv, TypeOK, vars, tables, history
  <2>2. KeysSound' BY <1>1 DEF IInv, KeysSound, Exists, vars, tables, history
  <2>3. TxnSound' BY <1>1 DEF IInv, TxnSound, Exists, vars, tables, history
  <2>4. SessionMatchesIdentity' BY <1>1 DEF IInv, SessionMatchesIdentity, vars, tables
  <2>5. LinkNeedsProof' BY <1>1 DEF IInv, LinkNeedsProof, vars, tables, history
  <2>6. NoStrandedAccount' BY <1>1 DEF IInv, NoStrandedAccount, Exists, vars, tables, history
  <2> QED BY <2>1, <2>2, <2>3, <2>4, <2>5, <2>6 DEF IInv
<1>2. ASSUME NEW c \in Caller, SigningIn(c) PROVE IInv'
  BY <1>2, ReadingKeeps, KnownKeeps, LinkKeeps, CreateKeeps DEF SigningIn
<1> QED BY <1>1, <1>2, AdminKeeps, DeleteKeeps DEF Next

(* IInv is an invariant of SignIn.                                         *)
THEOREM Invariance == Spec => []IInv
<1>1. Init => IInv BY IInvInit
<1>2. IInv /\ [Next]_vars => IInv' BY IInvStep
<1> QED BY <1>1, <1>2, PTL DEF Spec

(* The variables keep their types; in particular the deletion of a user    *)
(* leaves no identity without one.                                         *)
THEOREM TypeCorrectness == Spec => []TypeOK
<1>1. IInv => TypeOK BY DEF IInv
<1> QED BY <1>1, Invariance, PTL

(* A session belongs to the user its subject is linked to                  *)
(* (sign-in.handler.ts, and the cascades of 0014 and 0015).                *)
THEOREM SessionsMatch == Spec => []SessionMatchesIdentity
<1>1. IInv => SessionMatchesIdentity BY DEF IInv
<1> QED BY <1>1, Invariance, PTL

(* Nobody is linked to an account without having proved its address, or    *)
(* without it having been created for them (sign-in.handler.ts             *)
(* linkNewIdentity).                                                       *)
THEOREM LinksAreProved == Spec => []LinkNeedsProof
<1>1. IInv => LinkNeedsProof BY DEF IInv
<1> QED BY <1>1, Invariance, PTL

(* Overlapping first sign-ins strand no account: the unit of work creates  *)
(* a user together with its identity or not at all.                        *)
THEOREM NothingStranded == Spec => []NoStrandedAccount
<1>1. IInv => NoStrandedAccount BY DEF IInv
<1> QED BY <1>1, Invariance, PTL

(* A subject stays the same user as long as that user exists.              *)
THEOREM SameUser == Spec => IdentityIsStable
<1>1. ASSUME IInv, [Next]_vars, NEW s \in Subject, identities[s] # NoRow,
             users'[identities[s]] # NoRow
      PROVE  identities'[s] = identities[s]
  <2>1. ASSUME NEW c \in Caller, SigningIn(c) PROVE identities'[s] = identities[s]
    <3>1. CASE CommitLink(c)
      BY <3>1, <1>1, TxnKinds DEF CommitLink, At, Unlinked, IInv, TypeOK
    <3>2. CASE CommitCreate(c)
      BY <3>2, <1>1, TxnKinds DEF CommitCreate, At, Unlinked, IInv, TypeOK
    <3> QED BY <2>1, <3>1, <3>2 DEF SigningIn, ReadIdentity, LookUp, CommitKnown, Abort, tables
  <2>2. ASSUME NEW u \in User, DeleteUser(u) PROVE identities'[s] = identities[s]
    BY <2>2, <1>1 DEF DeleteUser, WithoutUser, IInv, TypeOK
  <2>3. ASSUME NEW u \in User, NEW e \in Email, CreateUser(u, e)
        PROVE  identities'[s] = identities[s]
    BY <2>3 DEF CreateUser
  <2> QED BY <1>1, <2>1, <2>2, <2>3 DEF Next, vars, tables
<1>2. IInv /\ [Next]_vars =>
        [\A s \in Subject : LET u == identities[s] IN
           u # NoRow /\ users'[u] # NoRow => identities'[s] = u]_vars
  BY <1>1
<1> QED BY <1>2, Invariance, PTL DEF Spec, IdentityIsStable
-----------------------------------------------------------------------------
(* The sign-ins implement Accounts.                                        *)

(* Reading proves an address or leaves what Accounts speaks of.            *)
LEMMA ReadingRefines ==
  ASSUME NEW c \in Caller, NEW s \in Subject, NEW e \in Email, NEW v \in BOOLEAN,
         ReadIdentity(c, s, e, v)
  PROVE  [Abstract!Next]_(Abstract!vars)
<1>1. CASE proved' = proved BY <1>1 DEF ReadIdentity, tables, Abstract!vars
<1>2. CASE proved' = proved \union {<<s, e>>}
  <2>1. Abstract!Prove(s, e) BY <1>2 DEF ReadIdentity, tables, Abstract!Prove
  <2> QED BY <2>1 DEF Abstract!Next
<1> QED BY <1>1, <1>2 DEF ReadIdentity

(* A user found by its identity is still the subject's, if it exists.      *)
LEMMA KnownRefines ==
  ASSUME IInv, NEW c \in Caller, CommitKnown(c)
  PROVE  Abstract!Next
<1> DEFINE s == txn[c].subject
<1>1. s \in Subject /\ txn[c].user \in User /\ txn[c].user # NoRow
  BY TxnKinds, NoRowAssumption DEF CommitKnown, At, IInv, TypeOK
<1>2. identities[s] = txn[c].user BY DEF CommitKnown, At, StillUser, IInv, TxnSound
<1>3. Abstract!SignInKnown(s)
  BY <1>1, <1>2
     DEF CommitKnown, OpenSession, history, Abstract!SignInKnown, Abstract!Known, Abstract!OpenSession
<1> QED BY <1>1, <1>3 DEF Abstract!Next

(* A user found by its address still has it, if it exists.                 *)
LEMMA LinkRefines ==
  ASSUME IInv, NEW c \in Caller, CommitLink(c)
  PROVE  Abstract!Next
<1> DEFINE s == txn[c].subject
           u == txn[c].user
<1>1. s \in Subject /\ u \in User BY TxnKinds DEF CommitLink, At, IInv, TypeOK
<1>2. /\ users[u] # NoRow /\ <<s, users[u]>> \in proved /\ identities[s] = NoRow
      /\ identities' = [identities EXCEPT ![s] = u]
      /\ sessions' = sessions \union {[subject |-> s, user |-> u]}
      /\ UNCHANGED <<users, issued, proved>>
  BY DEF CommitLink, At, StillUser, Exists, Unlinked, OpenSession, history, IInv, TxnSound
<1>3. Abstract!SignInLinked(s, u)
  BY <1>2 DEF Abstract!SignInLinked, Abstract!Become, Abstract!Known, Abstract!OpenSession
<1> QED BY <1>1, <1>3 DEF Abstract!Next

(* What createUser requires is all that registering does.                  *)
LEMMA CreateRefines ==
  ASSUME NEW u \in User, NEW e \in Email, NEW s, Create(u, e, s)
  PROVE  Abstract!Register(u, e)
<1>1. \A w \in User : users[w] # e BY DEF Create, Registered
<1> QED BY <1>1 DEF Create, Abstract!Register, Abstract!Free

LEMMA NewRefines ==
  ASSUME IInv, NEW c \in Caller, CommitCreate(c)
  PROVE  Abstract!Next
<1> DEFINE s == txn[c].subject
           e == txn[c].email
<1>1. s \in Subject /\ e \in Email BY TxnKinds DEF CommitCreate, At, IInv, TypeOK
<1>2. PICK u \in User : /\ Create(u, e, s) /\ identities[s] = NoRow
                        /\ identities' = [identities EXCEPT ![s] = u]
                        /\ sessions' = sessions \union {[subject |-> s, user |-> u]}
  BY DEF CommitCreate, Unlinked, OpenSession
<1>3. Abstract!Register(u, e) BY <1>1, <1>2, CreateRefines
<1>4. proved' = proved BY DEF CommitCreate
<1>5. Abstract!SignInNew(s, u, e)
  BY <1>2, <1>3, <1>4
     DEF Abstract!SignInNew, Abstract!Become, Abstract!Known, Abstract!OpenSession
<1> QED BY <1>1, <1>5 DEF Abstract!Next

(* READ COMMITTED is enough: sign-ins that look up first and write later,  *)
(* checking only the tables' keys then, do what sign-ins in one step would *)
(* (sign-in.handler.ts).                                                   *)
THEOREM Refinement == Spec => ImplementsAccounts
<1>1. Init => Abstract!Init BY DEF Init, Abstract!Init
<1>2. IInv /\ [Next]_vars => [Abstract!Next]_(Abstract!vars)
  <2> SUFFICES ASSUME IInv, [Next]_vars PROVE [Abstract!Next]_(Abstract!vars) OBVIOUS
  <2>1. ASSUME NEW c \in Caller, SigningIn(c) PROVE [Abstract!Next]_(Abstract!vars)
    <3>1. CASE LookUp(c) \/ Abort(c)
      BY <3>1 DEF LookUp, Abort, tables, history, Abstract!vars
    <3> QED BY <2>1, <3>1, ReadingRefines, KnownRefines, LinkRefines, NewRefines DEF SigningIn
  <2>2. ASSUME NEW u \in User, NEW e \in Email, CreateUser(u, e) PROVE Abstract!Next
    <3>1. Abstract!Register(u, e) BY <2>2, CreateRefines DEF CreateUser
    <3> QED BY <2>2, <3>1 DEF CreateUser, Abstract!CreateUser, Abstract!Next
  <2>3. ASSUME NEW u \in User, DeleteUser(u) PROVE Abstract!Next
    <3>1. Abstract!DeleteUser(u)
      BY <2>3 DEF DeleteUser, Exists, WithoutUser, history, Abstract!DeleteUser
    <3> QED BY <3>1 DEF Abstract!Next
  <2>4. CASE UNCHANGED vars BY <2>4 DEF vars, tables, history, Abstract!vars
  <2> QED BY <2>1, <2>2, <2>3, <2>4 DEF Next
<1> QED BY <1>1, <1>2, Invariance, PTL DEF Spec, ImplementsAccounts, Abstract!Spec
=============================================================================
