-------------------------------- MODULE SignIn --------------------------------
(***************************************************************************)
(* Who a browser sign-in signs in                                          *)
(* (packages/server/src/modules/auth, with the user module it provisions   *)
(* through).                                                               *)
(*                                                                         *)
(* The identity provider vouches for a subject, and maybe for its address. *)
(* A known subject is the user it was linked to; an unknown one is linked  *)
(* to the user registered under a verified address, or a user is created   *)
(* for it.  Two look-ups and then the writes, in one READ COMMITTED        *)
(* transaction; what was looked up may be gone by the time of the writes,  *)
(* and only the tables' keys are checked then.  The writes hold their keys *)
(* until the commit, so they are one step with it.                         *)
(***************************************************************************)
CONSTANTS User,    \* user ids; bound: as many as are ever created
          Email, Subject,
          Caller,  \* sign-ins in progress
          NoRow,   \* "no such row"
          None     \* "no transaction", "not for a subject"

LookTxn == [step : {"look"}, subject : Subject, email : Email, verified : BOOLEAN]
CreateTxn == [step : {"create"}, subject : Subject, email : Email]
UserTxn == [step : {"known", "link"}, subject : Subject, user : User]
Txn == LookTxn \union CreateTxn \union UserTxn

Session == [subject : Subject, user : User]

ASSUME NoRowAssumption == NoRow \notin User \union Email
ASSUME NoneAssumption == None \notin Txn \union User \union Subject \union {NoRow}

VARIABLES
  users,      \* user.users: users[u] is the address of u's row
  identities, \* auth.auth_identities: identities[s] is the user s is linked to
  sessions,   \* the subjects and users of the rows of auth.sessions
  txn,        \* txn[c]: c's open transaction
  issued,     \* history: ids given to users; a random UUID does not come twice
  createdFor, \* history: createdFor[u]: the subject u was created for; None if by an admin
  proved      \* history: addresses that were presented as verified

history == <<issued, createdFor, proved>>
tables == <<users, identities, sessions>>
vars == <<tables, txn, history>>

TypeOK ==
  /\ users \in [User -> Email \union {NoRow}]
  /\ identities \in [Subject -> User \union {NoRow}]
  /\ sessions \subseteq Session
  /\ txn \in [Caller -> Txn \union {None}]
  /\ issued \subseteq User
  /\ createdFor \in [User -> Subject \union {None}]
  /\ proved \subseteq Subject \X Email

Init ==
  /\ users = [u \in User |-> NoRow]
  /\ identities = [s \in Subject |-> NoRow]
  /\ sessions = {}
  /\ txn = [c \in Caller |-> None]
  /\ issued = {} /\ proved = {}
  /\ createdFor = [u \in User |-> None]

Exists(u) == users[u] # NoRow
Registered(e) == {u \in User : users[u] = e}
-----------------------------------------------------------------------------
(* The look-ups.                                                           *)

Goto(c, x) == txn' = [txn EXCEPT ![c] = x]

(* identities.findOne, for a subject whose token carries the address e.    *)
ReadIdentity(c, s, e, verified) ==
  /\ txn[c] = None
  /\ \/ /\ identities[s] # NoRow
        /\ Goto(c, [step |-> "known", subject |-> s, user |-> identities[s]])
        /\ UNCHANGED proved
     \/ /\ identities[s] = NoRow
        /\ Goto(c, [step |-> "look", subject |-> s, email |-> e, verified |-> verified])
        /\ proved' = IF verified THEN proved \union {<<s, e>>} ELSE proved
  /\ UNCHANGED <<tables, issued, createdFor>>

At(c, step) == txn[c] # None /\ txn[c].step = step

(* Mutant: the address is looked up whether it was verified or not.        *)
AnyMatch(x) == Registered(x.email)

(* Only a verified address proves that the account is the subject's.       *)
ProvenMatch(x) == IF x.verified THEN Registered(x.email) ELSE {}

(* linkNewIdentity up to its writes.                                       *)
LookUp(c) ==
  /\ At(c, "look")
  /\ LET x == txn[c]
     IN \/ \E u \in ProvenMatch(x) : Goto(c, [step |-> "link", subject |-> x.subject, user |-> u])
        \/ ProvenMatch(x) = {} /\ Goto(c, [step |-> "create", subject |-> x.subject, email |-> x.email])
  /\ UNCHANGED <<tables, history>>
-----------------------------------------------------------------------------
(* The writes, with their commit.                                          *)

(* createUser: a new id, and nobody else with this address.                *)
Create(u, e, s) ==
  /\ u \notin issued /\ Registered(e) = {}
  /\ users' = [users EXCEPT ![u] = e]
  /\ issued' = issued \union {u}
  /\ createdFor' = [createdFor EXCEPT ![u] = s]

(* Mutant: the insert overwrites on conflict.                              *)
LinkAnyway(s) == TRUE

(* The primary key of auth_identities.                                     *)
Unlinked(s) == identities[s] = NoRow

(* Mutant: the tables do not refer to user.users.                          *)
NoReference(u) == TRUE

(* The foreign keys of auth_identities and sessions.                       *)
StillUser(u) == Exists(u)

OpenSession(s, u) == sessions' = sessions \union {[subject |-> s, user |-> u]}

CommitKnown(c) ==
  /\ At(c, "known")
  /\ StillUser(txn[c].user)
  /\ OpenSession(txn[c].subject, txn[c].user)
  /\ Goto(c, None)
  /\ UNCHANGED <<users, identities, history>>

CommitLink(c) ==
  /\ At(c, "link")
  /\ LET x == txn[c]
     IN /\ StillUser(x.user) /\ Unlinked(x.subject)
        /\ identities' = [identities EXCEPT ![x.subject] = x.user]
        /\ OpenSession(x.subject, x.user)
  /\ Goto(c, None)
  /\ UNCHANGED <<users, history>>

CommitCreate(c) ==
  /\ At(c, "create")
  /\ \E u \in User : LET x == txn[c]
       IN /\ Create(u, x.email, x.subject) /\ Unlinked(x.subject)
          /\ identities' = [identities EXCEPT ![x.subject] = u]
          /\ OpenSession(x.subject, u)
  /\ Goto(c, None)
  /\ UNCHANGED proved

(* A key is violated, the address is registered, or the database fails:    *)
(* everything is rolled back, the new user too.                            *)
Abort(c) ==
  /\ txn[c] # None
  /\ Goto(c, None)
  /\ UNCHANGED <<tables, history>>
-----------------------------------------------------------------------------
(* An admin creates and deletes users.                                     *)

CreateUser(u, e) ==
  /\ Create(u, e, None)
  /\ UNCHANGED <<identities, sessions, txn, proved>>

(* Mutant: ON DELETE SET NULL.                                             *)
SetNull(u) == [s \in Subject |-> IF identities[s] = u THEN None ELSE identities[s]]

(* ON DELETE CASCADE.                                                      *)
WithoutUser(u) == [s \in Subject |-> IF identities[s] = u THEN NoRow ELSE identities[s]]

DeleteUser(u) ==
  /\ Exists(u)
  /\ users' = [users EXCEPT ![u] = NoRow]
  /\ identities' = WithoutUser(u)
  /\ sessions' = {x \in sessions : x.user # u}
  /\ UNCHANGED <<txn, history>>
-----------------------------------------------------------------------------
SigningIn(c) ==
  \/ \E s \in Subject, e \in Email, v \in BOOLEAN : ReadIdentity(c, s, e, v)
  \/ LookUp(c) \/ CommitKnown(c) \/ CommitLink(c) \/ CommitCreate(c) \/ Abort(c)

Next ==
  \/ \E c \in Caller : SigningIn(c)
  \/ \E u \in User : DeleteUser(u) \/ \E e \in Email : CreateUser(u, e)

Spec == Init /\ [][Next]_vars
-----------------------------------------------------------------------------
(* Properties.                                                             *)

(* A session belongs to the user its subject is linked to now, whatever    *)
(* sign-ins and deletions overlapped.                                      *)
SessionMatchesIdentity == \A x \in sessions : identities[x.subject] = x.user

(* A subject is linked to a user that was created for it, or whose address *)
(* it once presented as verified (sign-in.handler.ts: "Only a verified     *)
(* address proves the new identity owns the existing account").            *)
LinkNeedsProof ==
  \A s \in Subject : LET u == identities[s] IN u # NoRow =>
    createdFor[u] = s \/ <<s, users[u]>> \in proved

(* A user created by a sign-in is the user of that subject: overlapping    *)
(* first sign-ins leave no account behind that nobody can sign in to.      *)
NoStrandedAccount ==
  \A u \in User : Exists(u) /\ createdFor[u] # None => identities[createdFor[u]] = u

(* A subject stays the same user as long as that user exists.              *)
IdentityIsStable ==
  [][\A s \in Subject : LET u == identities[s] IN
       u # NoRow /\ users'[u] # NoRow => identities'[s] = u]_vars

(* READ COMMITTED is enough: the look-ups and the writes of a sign-in have *)
(* the effect they would have as one step at the commit, so that sign-ins  *)
(* and deletions implement Accounts.                                       *)
Abstract == INSTANCE Accounts
ImplementsAccounts == Abstract!Spec

(* The inductive strengthening: what a transaction looked up was so, and   *)
(* is still so unless the user was deleted since.                          *)
KeysSound ==
  /\ \A u \in User : Exists(u) => u \in issued
  /\ \A s \in Subject : identities[s] # NoRow => Exists(identities[s])

TxnSound ==
  \A c \in Caller : txn[c] # None =>
    LET x == txn[c]
    IN /\ x.step = "look" /\ x.verified => <<x.subject, x.email>> \in proved
       /\ x.step \in {"known", "link"} => x.user \in issued
       /\ x.step = "known" /\ Exists(x.user) => identities[x.subject] = x.user
       /\ x.step = "link" /\ Exists(x.user) => <<x.subject, users[x.user]>> \in proved

IInv == /\ TypeOK /\ KeysSound /\ TxnSound
        /\ SessionMatchesIdentity /\ LinkNeedsProof /\ NoStrandedAccount
=============================================================================
