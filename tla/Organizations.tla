---------------------------- MODULE Organizations ----------------------------
(***************************************************************************)
(* Organizations, their admins and the platform's super-admins             *)
(* (packages/server/src/modules/organization, role and wallet).            *)
(*                                                                         *)
(* A role is changed in two moves: the holder's rows are read, and the     *)
(* whole set is written back as a DELETE and an INSERT.  Both modules do   *)
(* it alike and each knows one role, so that a set of roles is a row or    *)
(* none.  An organization is soft-deleted and restored by writing back the *)
(* row that was read.  All of it runs in READ COMMITTED transactions: a    *)
(* DELETE waits for the transaction that holds the row, and does not see   *)
(* what that one then inserts.                                             *)
(*                                                                         *)
(* Memberships and invitations are in Invitations.                         *)
(***************************************************************************)
CONSTANTS Org,      \* ids of organizations; bound: as many as are ever created
          User,     \* the accounts
          Root,     \* super-admins from the start
          Caller,   \* requests in progress
          Platform, \* the scope of platform.roles, beside the organizations
          NoRow,    \* "no such row"
          None      \* "no request"

Scope == Org \union {Platform}

(* overtaken is history: since the request read, somebody committed a      *)
(* change of what it read, another request or the user's deletion.         *)
RoleCall == [cmd : {"grant", "revoke"}, step : {"authorized", "read", "waiting", "cleared"},
             actor : User, scope : Scope, user : User, locked : BOOLEAN, overtaken : BOOLEAN]
LifeCall == [cmd : {"softDelete", "restore"}, step : {"authorized", "read"},
             org : Org, overtaken : BOOLEAN]
CreateCall == [cmd : {"create"}, step : {"inserted", "dispatched"}, user : User, org : Org,
               wallet : BOOLEAN]
Call == RoleCall \union LifeCall \union CreateCall

ASSUME RootAssumption == Root \subseteq User
ASSUME PlatformAssumption == Platform \notin Org
ASSUME NoRowAssumption == NoRow \notin User \union {"active", "deleted"}
ASSUME NoneAssumption == None \notin Call

VARIABLES
  users,   \* user.users
  supers,  \* platform.roles
  orgs,    \* organization.organizations: "active", or "deleted" if deleted_at is set
  admins,  \* organization.organization_roles: admins[o][u] is the row's issued_by
  wallets, \* wallet.wallets, by organization
  call,    \* call[c]: the request c is at, with its open transaction
  creator  \* history: who created the organization

tables == <<users, supers, orgs, admins, wallets>>
vars == <<tables, call, creator>>

TypeOK ==
  /\ users \subseteq User /\ supers \subseteq User
  /\ orgs \in [Org -> {"active", "deleted", NoRow}]
  /\ admins \in [Org -> [User -> User \union {NoRow}]]
  /\ wallets \subseteq Org
  /\ call \in [Caller -> Call \union {None}]
  /\ creator \in [Org -> User \union {NoRow}]

Init ==
  /\ users = User /\ supers = Root
  /\ orgs = [o \in Org |-> NoRow]
  /\ admins = [o \in Org |-> [u \in User |-> NoRow]]
  /\ wallets = {}
  /\ call = [c \in Caller |-> None]
  /\ creator = [o \in Org |-> NoRow]
-----------------------------------------------------------------------------
At(c, cmd, step) == call[c] # None /\ call[c].cmd = cmd /\ call[c].step = step

Goto(c, x) == call' = [call EXCEPT ![c] = x]

IsAdmin(u, o) == admins[o][u] # NoRow

Holds(u, s) == IF s = Platform THEN u \in supers ELSE IsAdmin(u, s)

(* The policies: update is for super-admins and admins of the              *)
(* organization, delete for super-admins.  They are asked before the       *)
(* command's transaction.                                                  *)
MayUpdate(u, o) == u \in supers \/ IsAdmin(u, o)
MayDelete(u) == u \in supers

(* Any failure before the commit: the request's transaction rolls back.    *)
Abort(c) ==
  /\ call[c] # None
  /\ Goto(c, None)
  /\ UNCHANGED <<tables, creator>>
-----------------------------------------------------------------------------
(* createOrganization.                                                     *)

(* The check, and the inserts of the organization, the creator's           *)
(* membership and admin role under a new id: nobody else refers to it yet. *)
BeginCreate(c, u, o) ==
  /\ call[c] = None
  /\ u \in users /\ u \notin supers
  /\ orgs[o] = NoRow
  /\ \A d \in Caller : call[d] \in CreateCall => call[d].org # o
  /\ Goto(c, [cmd |-> "create", step |-> "inserted", user |-> u, org |-> o, wallet |-> FALSE])
  /\ UNCHANGED <<tables, creator>>

(* Mutant: the subscriber swallows its failure.                            *)
GoOnWithoutWallet(x) == [x EXCEPT !.step = "dispatched"]

(* The subscriber dies of its failure, and so does the publisher.          *)
WithoutWallet(x) == None

(* OrganizationCreated is dispatched inside the transaction: the wallet is *)
(* inserted under a savepoint, which rolls back if that fails.             *)
CreateWallet(c) ==
  /\ At(c, "create", "inserted")
  /\ \/ Goto(c, [call[c] EXCEPT !.step = "dispatched", !.wallet = TRUE])
     \/ Goto(c, WithoutWallet(call[c]))
  /\ UNCHANGED <<tables, creator>>

CommitCreate(c) ==
  /\ At(c, "create", "dispatched")
  /\ LET x == call[c]
     IN /\ orgs' = [orgs EXCEPT ![x.org] = "active"]
        /\ admins' = [admins EXCEPT ![x.org][x.user] = x.user]
        /\ wallets' = IF x.wallet THEN wallets \union {x.org} ELSE wallets
        /\ creator' = [creator EXCEPT ![x.org] = x.user]
  /\ Goto(c, None)
  /\ UNCHANGED <<users, supers>>
-----------------------------------------------------------------------------
(* Granting and revoking.                                                  *)

Ask(c, cmd, a, s, u) ==
  /\ call[c] = None
  /\ Goto(c, [cmd |-> cmd, step |-> "authorized", actor |-> a, scope |-> s, user |-> u,
              locked |-> FALSE, overtaken |-> FALSE])
  /\ UNCHANGED <<tables, creator>>

(* promoteMember and demoteMember.  Nobody looks at u's membership.        *)
AskOrganizationRole(c, cmd, a, o, u) ==
  /\ a \in users
  /\ orgs[o] # NoRow /\ MayUpdate(a, o)
  /\ Ask(c, cmd, a, o, u)

(* The commands on the bus; no endpoint sends them.                        *)
AskRole(c, cmd, a, u) ==
  /\ a \in users
  /\ Ask(c, cmd, a, Platform, u)

(* Mutant: an admin may promote themselves.                                *)
AnyActor(x) == TRUE

(* CannotPromoteSelf, CannotPromoteSelfInOrganization.                     *)
OtherActor(x) == x.actor # x.user

(* AlreadyHasRole, AlreadyHasOrganizationRole.                             *)
Grantable(x) == ~Holds(x.user, x.scope)

ReadGrant(c) ==
  /\ At(c, "grant", "authorized")
  /\ OtherActor(call[c]) /\ Grantable(call[c])
  /\ Goto(c, [call[c] EXCEPT !.step = "read"])
  /\ UNCHANGED <<tables, creator>>

(* DoesNotHaveRole, DoesNotHaveOrganizationRole.                           *)
ReadRevoke(c) ==
  /\ At(c, "revoke", "authorized")
  /\ Holds(call[c].user, call[c].scope)
  /\ Goto(c, [call[c] EXCEPT !.step = "read"])
  /\ UNCHANGED <<tables, creator>>

SameRow(c, d) == /\ call[c] \in RoleCall /\ call[d] \in RoleCall
                 /\ call[c].scope = call[d].scope /\ call[c].user = call[d].user

(* c's row is deleted by a transaction that has not committed.             *)
LockedByOther(c) == \E d \in Caller \ {c} : SameRow(c, d) /\ call[d].locked

(* upsertOne's DELETE finds no row, or locks it, or waits.                 *)
Delete(c) ==
  /\ call[c] \in RoleCall /\ call[c].step \in {"read", "waiting"}
  /\ LET x == call[c]
     IN \/ /\ ~Holds(x.user, x.scope)
           /\ Goto(c, [x EXCEPT !.step = "cleared"])
        \/ /\ Holds(x.user, x.scope) /\ ~LockedByOther(c)
           /\ Goto(c, [x EXCEPT !.step = "cleared", !.locked = TRUE])
        \/ /\ x.step = "read" /\ LockedByOther(c)
           /\ Goto(c, [x EXCEPT !.step = "waiting"])
  /\ UNCHANGED <<tables, creator>>

(* Who acted on c's row since it was read was overtaken; a DELETE that     *)
(* waited for the row finds it gone, and nothing in its place.             *)
AfterCommit(c) ==
  [d \in Caller |->
     IF d = c THEN None
     ELSE IF ~SameRow(c, d) \/ call[d].step = "authorized" THEN call[d]
     ELSE IF call[d].step = "waiting" /\ call[c].locked
          THEN [call[d] EXCEPT !.overtaken = TRUE, !.step = "cleared"]
     ELSE [call[d] EXCEPT !.overtaken = TRUE]]

(* Mutant: the tables do not refer to user.users.                          *)
NoReferences(x) == TRUE

(* The foreign keys of the new row.                                        *)
References(x) ==
  /\ x.user \in users
  /\ x.scope \in Org => x.actor \in users

(* upsertOne's INSERT of a grant and the commit.  The primary key admits   *)
(* it if the row is gone or was deleted by this very transaction.          *)
CommitGrant(c) ==
  /\ At(c, "grant", "cleared")
  /\ LET x == call[c]
     IN /\ References(x)
        /\ Holds(x.user, x.scope) => x.locked
        /\ IF x.scope = Platform
           THEN supers' = supers \union {x.user} /\ UNCHANGED admins
           ELSE admins' = [admins EXCEPT ![x.scope][x.user] = x.actor] /\ UNCHANGED supers
  /\ call' = AfterCommit(c)
  /\ UNCHANGED <<users, orgs, wallets, creator>>

(* Mutant: the DELETE is left out when the new set is empty.               *)
NothingDeleted(x) == FALSE

Deleted(x) == x.locked

(* The INSERT of a revocation inserts nothing.                             *)
CommitRevoke(c) ==
  /\ At(c, "revoke", "cleared")
  /\ LET x == call[c]
     IN IF ~Deleted(x) THEN UNCHANGED <<supers, admins>>
        ELSE IF x.scope = Platform
        THEN supers' = supers \ {x.user} /\ UNCHANGED admins
        ELSE admins' = [admins EXCEPT ![x.scope][x.user] = NoRow] /\ UNCHANGED supers
  /\ call' = AfterCommit(c)
  /\ UNCHANGED <<users, orgs, wallets, creator>>
-----------------------------------------------------------------------------
(* Soft-deleting and restoring.                                            *)

AskLife(c, cmd, o) ==
  /\ call[c] = None
  /\ orgs[o] # NoRow
  /\ Goto(c, [cmd |-> cmd, step |-> "authorized", org |-> o, overtaken |-> FALSE])
  /\ UNCHANGED <<tables, creator>>

AskSoftDelete(c, a, o) == a \in users /\ MayDelete(a) /\ AskLife(c, "softDelete", o)
AskRestore(c, a, o) == a \in users /\ MayUpdate(a, o) /\ AskLife(c, "restore", o)

(* Mutant: the look-up does not ask for an active organization, nor the    *)
(* aggregate.                                                              *)
DeletableAnyhow(o) == orgs[o] # NoRow

(* Only active organizations are found.                                    *)
Deletable(o) == orgs[o] = "active"

ReadSoftDelete(c) ==
  /\ At(c, "softDelete", "authorized")
  /\ Deletable(call[c].org)
  /\ Goto(c, [call[c] EXCEPT !.step = "read"])
  /\ UNCHANGED <<tables, creator>>

(* OrganizationNotDeleted.                                                 *)
ReadRestore(c) ==
  /\ At(c, "restore", "authorized")
  /\ orgs[call[c].org] = "deleted"
  /\ Goto(c, [call[c] EXCEPT !.step = "read"])
  /\ UNCHANGED <<tables, creator>>

SameOrg(c, d) == /\ call[c] \in LifeCall /\ call[d] \in LifeCall
                 /\ call[c].org = call[d].org

(* updateOne writes every column by id, whatever the row is by now.        *)
CommitLife(c, cmd, status) ==
  /\ At(c, cmd, "read")
  /\ orgs' = [orgs EXCEPT ![call[c].org] = status]
  /\ call' = [d \in Caller |->
                IF d = c THEN None
                ELSE IF SameOrg(c, d) /\ call[d].step = "read"
                THEN [call[d] EXCEPT !.overtaken = TRUE] ELSE call[d]]
  /\ UNCHANGED <<users, supers, admins, wallets, creator>>

CommitSoftDelete(c) == CommitLife(c, "softDelete", "deleted")
CommitRestore(c) == CommitLife(c, "restore", "active")
-----------------------------------------------------------------------------
(* issued_by is ON DELETE RESTRICT; what u issued to themselves is gone    *)
(* by then.                                                                *)
IssuedToOthers(u) == \E o \in Org, v \in User \ {u} : admins[o][v] = u
MayGo(u) == ~IssuedToOthers(u)

(* Locks on u's rows: a role being changed, or u's new organization.       *)
HeldByCall(u) ==
  \E c \in Caller : \/ call[c] \in RoleCall /\ call[c].user = u /\ call[c].locked
                    \/ call[c] \in CreateCall /\ call[c].user = u

(* ON DELETE CASCADE.                                                      *)
WithoutRoles(u) == [o \in Org |-> [admins[o] EXCEPT ![u] = NoRow]]

(* Who is about to revoke a role that goes with u was overtaken.           *)
AfterCascade(u) ==
  [c \in Caller |->
     IF call[c] \in RoleCall /\ call[c].user = u /\ call[c].step # "authorized"
        /\ Holds(u, call[c].scope)
     THEN [call[c] EXCEPT !.overtaken = TRUE] ELSE call[c]]

(* deleteUser.                                                             *)
DeleteUser(u) ==
  /\ u \in users
  /\ MayGo(u) /\ ~HeldByCall(u)
  /\ users' = users \ {u}
  /\ supers' = supers \ {u}
  /\ admins' = WithoutRoles(u)
  /\ call' = AfterCascade(u)
  /\ UNCHANGED <<orgs, wallets, creator>>
-----------------------------------------------------------------------------
Creating(c) == \/ \E u \in User, o \in Org : BeginCreate(c, u, o)
               \/ CreateWallet(c) \/ CommitCreate(c)

ChangingRole(c) ==
  \/ \E cmd \in {"grant", "revoke"}, a, u \in User :
       AskRole(c, cmd, a, u) \/ \E o \in Org : AskOrganizationRole(c, cmd, a, o, u)
  \/ ReadGrant(c) \/ ReadRevoke(c) \/ Delete(c) \/ CommitGrant(c) \/ CommitRevoke(c)

ChangingLife(c) ==
  \/ \E a \in User, o \in Org : AskSoftDelete(c, a, o) \/ AskRestore(c, a, o)
  \/ ReadSoftDelete(c) \/ ReadRestore(c) \/ CommitSoftDelete(c) \/ CommitRestore(c)

Next == \/ \E c \in Caller : Creating(c) \/ ChangingRole(c) \/ ChangingLife(c) \/ Abort(c)
        \/ \E u \in User : DeleteUser(u)

Spec == Init /\ [][Next]_vars
-----------------------------------------------------------------------------
(* Properties.                                                             *)

(* An organization and its wallet exist together: the subscriber's failure *)
(* leaves neither (create-wallet.handler.ts: "the wallet commits           *)
(* atomically with the org").                                              *)
NeverWithoutWallet == \A o \in Org : orgs[o] # NoRow <=> o \in wallets

(* Whoever is deleted while they, or roles of theirs, are being granted: a *)
(* role is always held by a user and was issued by one.                    *)
RolesReferToUsers ==
  /\ supers \subseteq users
  /\ \A o \in Org, u \in User : IsAdmin(u, o) => u \in users /\ admins[o][u] \in users

(* Nobody but the creator is an admin by their own doing, however grants   *)
(* overwrite each other.                                                   *)
NobodyPromotedThemselves ==
  \A o \in Org, u \in User : admins[o][u] = u => creator[o] = u

(* A request that answers success did what it says: it gave the user the   *)
(* role, which they had not, or took it away, which they had; unless       *)
(* the same role was changed by another request, or went with the user,    *)
(* since the request read it.                                              *)
RoleChangesUnlessOvertaken ==
  [][\A c \in Caller : call[c] \in RoleCall /\ call[c].step = "cleared" =>
       LET x == call[c]
           held == Holds(x.user, x.scope)
           holds == IF x.scope = Platform THEN x.user \in supers' ELSE admins'[x.scope][x.user] # NoRow
       IN /\ CommitGrant(c) /\ ~x.overtaken => ~held /\ holds
          /\ CommitRevoke(c) /\ ~x.overtaken => held /\ ~holds]_vars

(* Soft-deletion and restoration take turns, unless one overtook another.  *)
LifeAlternatesUnlessOvertaken ==
  [][\A c \in Caller : call[c] \in LifeCall /\ ~call[c].overtaken =>
       /\ CommitSoftDelete(c) => orgs[call[c].org] = "active"
       /\ CommitRestore(c) => orgs[call[c].org] = "deleted"]_vars

(* The inductive strengthening.                                            *)

(* Nothing refers to an organization before it is there; it gets there     *)
(* whole, once.                                                            *)
OrgSound ==
  /\ \A o \in Org, u \in User : orgs[o] = NoRow => ~IsAdmin(u, o)
  /\ \A c \in Caller :
       /\ call[c] \in RoleCall /\ call[c].scope \in Org => orgs[call[c].scope] # NoRow
       /\ call[c] \in LifeCall => orgs[call[c].org] # NoRow
       /\ call[c] \in CreateCall =>
            /\ orgs[call[c].org] = NoRow /\ call[c].user \in users
            /\ call[c].step = "dispatched" => call[c].wallet
            /\ \A d \in Caller : call[d] \in CreateCall /\ call[d].org = call[c].org => d = c

(* One transaction holds a row, and the row is there.                      *)
LockSound ==
  \A c \in Caller : call[c] \in RoleCall /\ call[c].locked =>
    /\ call[c].step = "cleared" /\ Holds(call[c].user, call[c].scope)
    /\ \A d \in Caller : SameRow(c, d) /\ call[d].locked => d = c

(* Who was not overtaken acts on what they read.                           *)
ReadSound ==
  \A c \in Caller :
    /\ call[c] \in RoleCall /\ call[c].step # "authorized" =>
         LET x == call[c]
         IN /\ x.cmd = "grant" => x.actor # x.user
            /\ ~x.overtaken => (Holds(x.user, x.scope) <=> x.cmd = "revoke")
            /\ x.step = "cleared" /\ ~x.overtaken /\ Holds(x.user, x.scope) => x.locked
    /\ call[c] \in LifeCall /\ call[c].step = "read" /\ ~call[c].overtaken =>
         orgs[call[c].org] = IF call[c].cmd = "softDelete" THEN "active" ELSE "deleted"

IInv == /\ TypeOK /\ OrgSound /\ LockSound /\ ReadSound
        /\ NeverWithoutWallet /\ RolesReferToUsers /\ NobodyPromotedThemselves
=============================================================================
