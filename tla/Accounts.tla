------------------------------- MODULE Accounts -------------------------------
(***************************************************************************)
(* Signing in as if it were one step.  A subject the accounts know is that *)
(* user; one they do not know becomes the user whose address it proved, or *)
(* a new user.  Whatever else goes on, a sign-in leaves what this leaves.  *)
(* The look-ups and writes it really takes are in SignIn.                  *)
(***************************************************************************)
CONSTANTS User,    \* user ids
          Email, Subject,
          NoRow    \* "no such row"

VARIABLES users,      \* users[u]: the address u is registered under
          identities, \* identities[s]: the user s signs in as
          sessions,   \* open sessions: for which subject, of which user
          issued,     \* ids given to users so far
          proved      \* the addresses subjects have proved to be theirs

vars == <<users, identities, sessions, issued, proved>>

Init == /\ users = [u \in User |-> NoRow]
        /\ identities = [s \in Subject |-> NoRow]
        /\ sessions = {} /\ issued = {} /\ proved = {}

Known(s) == identities[s] # NoRow
Free(e) == \A u \in User : users[u] # e

(* The identity provider vouches for the address of a subject.             *)
Prove(s, e) == /\ proved' = proved \union {<<s, e>>}
               /\ UNCHANGED <<users, identities, sessions, issued>>

OpenSession(s, u) == sessions' = sessions \union {[subject |-> s, user |-> u]}

Become(s, u) == /\ ~Known(s)
                /\ identities' = [identities EXCEPT ![s] = u]
                /\ OpenSession(s, u)

Register(u, e) == /\ u \notin issued /\ Free(e)
                  /\ users' = [users EXCEPT ![u] = e]
                  /\ issued' = issued \union {u}

SignInKnown(s) == /\ Known(s)
                  /\ OpenSession(s, identities[s])
                  /\ UNCHANGED <<users, identities, issued, proved>>

SignInLinked(s, u) == /\ users[u] # NoRow /\ <<s, users[u]>> \in proved
                      /\ Become(s, u)
                      /\ UNCHANGED <<users, issued, proved>>

SignInNew(s, u, e) == /\ Register(u, e)
                      /\ Become(s, u)
                      /\ UNCHANGED proved

CreateUser(u, e) == /\ Register(u, e)
                    /\ UNCHANGED <<identities, sessions, proved>>

(* Everything of the user goes with it.                                    *)
DeleteUser(u) ==
  /\ users[u] # NoRow
  /\ users' = [users EXCEPT ![u] = NoRow]
  /\ identities' = [s \in Subject |-> IF identities[s] = u THEN NoRow ELSE identities[s]]
  /\ sessions' = {x \in sessions : x.user # u}
  /\ UNCHANGED <<issued, proved>>

Next == \/ \E s \in Subject :
             \/ SignInKnown(s)
             \/ \E u \in User : SignInLinked(s, u) \/ \E e \in Email : SignInNew(s, u, e)
             \/ \E e \in Email : Prove(s, e)
        \/ \E u \in User : DeleteUser(u) \/ \E e \in Email : CreateUser(u, e)

Spec == Init /\ [][Next]_vars
=============================================================================
