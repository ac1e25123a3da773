-------------------------- MODULE OrganizationsProofs --------------------------
(* Proofs about Organizations.  IInv is inductive: what a request read may *)
(* be overtaken, but then it says so; rows are locked by one transaction,  *)
(* and the keys decide what is inserted.                                   *)
EXTENDS Organizations, TLAPS

(* The commands tell the kinds of request apart.                           *)
LEMMA CallKinds ==
  ASSUME NEW x \in Call
  PROVE  /\ x # None
         /\ x \in RoleCall <=> x.cmd \in {"grant", "revoke"}
         /\ x \in LifeCall <=> x.cmd \in {"softDelete", "restore"}
         /\ x \in CreateCall <=> x.cmd = "create"
  BY NoneAssumption DEF Call, RoleCall, LifeCall, CreateCall

LEMMA IInvInit == Init => IInv
<1> SUFFICES ASSUME Init PROVE IInv OBVIOUS
<1>1. TypeOK BY RootAssumption DEF Init, TypeOK
<1>2. \A c \in Caller : call[c] \notin Call BY NoneAssumption DEF Init
<1>3. OrgSound /\ LockSound /\ ReadSound
  BY <1>2 DEF Init, OrgSound, LockSound, ReadSound, IsAdmin, Call
<1>4. NeverWithoutWallet BY DEF Init, NeverWithoutWallet
<1>5. RolesReferToUsers BY RootAssumption DEF Init, RolesReferToUsers, IsAdmin
<1>6. NobodyPromotedThemselves BY NoRowAssumption DEF Init, NobodyPromotedThemselves
<1> QED BY <1>1, <1>3, <1>4, <1>5, <1>6 DEF IInv

(* A request moves on without a write: what it now stands for must be so.  *)
LEMMA QuietKeeps ==
  ASSUME IInv, NEW c \in Caller, NEW x \in Call \union {None}, Goto(c, x),
         UNCHANGED <<tables, creator>>,
         x \in RoleCall =>
           /\ x.scope \in Org => orgs[x.scope] # NoRow
           /\ x.locked =>
                /\ x.step = "cleared" /\ Holds(x.user, x.scope)
                /\ \A d \in Caller \ {c} : call[d] \in RoleCall
                     /\ call[d].scope = x.scope /\ call[d].user = x.user => ~call[d].locked
           /\ x.step # "authorized" =>
                /\ x.cmd = "grant" => x.actor # x.user
                /\ ~x.overtaken => (Holds(x.user, x.scope) <=> x.cmd = "revoke")
                /\ x.step = "cleared" /\ ~x.overtaken /\ Holds(x.user, x.scope) => x.locked,
         x \in LifeCall =>
           /\ orgs[x.org] # NoRow
           /\ x.step = "read" /\ ~x.overtaken =>
                orgs[x.org] = IF x.cmd = "softDelete" THEN "active" ELSE "deleted",
         x \in CreateCall =>
           /\ orgs[x.org] = NoRow /\ x.user \in users
           /\ x.step = "dispatched" => x.wallet
           /\ \A d \in Caller \ {c} : call[d] \in CreateCall => call[d].org # x.org
  PROVE  IInv'
<1>1. /\ call'[c] = x /\ \A d \in Caller \ {c} : call'[d] = call[d]
      /\ call' \in [Caller -> Call \union {None}]
  BY DEF Goto, IInv, TypeOK
<1>2. UNCHANGED <<users, supers, orgs, admins, wallets, creator>> BY DEF tables
<1>3. TypeOK' BY <1>1, <1>2 DEF IInv, TypeOK
<1>4. OrgSound'
  <2>1. \A o \in Org, u \in User : orgs'[o] = NoRow => ~IsAdmin(u, o)'
    BY <1>2 DEF IInv, OrgSound, IsAdmin
  <2>2. ASSUME NEW d \in Caller
        PROVE  /\ call'[d] \in RoleCall /\ call'[d].scope \in Org => orgs[call'[d].scope] # NoRow
               /\ call'[d] \in LifeCall => orgs[call'[d].org] # NoRow
               /\ call'[d] \in CreateCall =>
                    /\ orgs[call'[d].org] = NoRow /\ call'[d].user \in users
                    /\ call'[d].step = "dispatched" => call'[d].wallet
                    /\ \A e \in Caller : call'[e] \in CreateCall /\ call'[e].org = call'[d].org => e = d
    <3>1. CASE d = c BY <3>1, <1>1
    <3>2. CASE d # c
      <4>1. call'[d] = call[d] BY <3>2, <1>1
      <4>2. \A e \in Caller \ {c} : call'[e] = call[e] BY <1>1
      <4> QED BY <3>2, <4>1, <4>2, <1>1 DEF IInv, OrgSound
    <3> QED BY <3>1, <3>2
  <2> QED BY <1>2, <2>1, <2>2 DEF OrgSound
<1>5. \A u, s : Holds(u, s)' = Holds(u, s) BY <1>2 DEF Holds, IsAdmin
<1>6. LockSound'
  <2> SUFFICES ASSUME NEW d \in Caller, call'[d] \in RoleCall, call'[d].locked
               PROVE  /\ call'[d].step = "cleared" /\ Holds(call'[d].user, call'[d].scope)
                      /\ \A e \in Caller : SameRow(d, e)' /\ call'[e].locked => e = d
    BY <1>5 DEF LockSound
  <2>1. CASE d = c
    <3>1. \A e \in Caller : SameRow(d, e)' /\ call'[e].locked => e = d
      BY <2>1, <1>1 DEF SameRow
    <3> QED BY <2>1, <3>1, <1>1
  <2>2. CASE d # c
    <3>1. call'[d] = call[d] BY <2>2, <1>1
    <3>2. \A e \in Caller \ {c} : SameRow(d, e)' /\ call'[e].locked => e = d
      BY <2>2, <3>1, <1>1 DEF IInv, LockSound, SameRow
    <3>3. ~(SameRow(d, c)' /\ call'[c].locked) BY <2>2, <3>1, <1>1 DEF SameRow
    <3> QED BY <3>1, <3>2, <3>3 DEF IInv, LockSound
  <2> QED BY <2>1, <2>2
<1>7. ReadSound'
  <2> SUFFICES ASSUME NEW d \in Caller
               PROVE  /\ call'[d] \in RoleCall /\ call'[d].step # "authorized" =>
                           LET y == call'[d]
                           IN /\ y.cmd = "grant" => y.actor # y.user
                              /\ ~y.overtaken => (Holds(y.user, y.scope) <=> y.cmd = "revoke")
                              /\ y.step = "cleared" /\ ~y.overtaken /\ Holds(y.user, y.scope) => y.locked
                      /\ call'[d] \in LifeCall /\ call'[d].step = "read" /\ ~call'[d].overtaken =>
                           orgs[call'[d].org] = IF call'[d].cmd = "softDelete" THEN "active" ELSE "deleted"
    BY <1>2, <1>5 DEF ReadSound
  <2>1. CASE d = c BY <2>1, <1>1
  <2>2. CASE d # c BY <2>2, <1>1 DEF IInv, ReadSound
  <2> QED BY <2>1, <2>2
<1>8. NeverWithoutWallet' BY <1>2 DEF IInv, NeverWithoutWallet
<1>9. RolesReferToUsers' BY <1>2 DEF IInv, RolesReferToUsers, IsAdmin
<1>10. NobodyPromotedThemselves' BY <1>2 DEF IInv, NobodyPromotedThemselves
<1> QED BY <1>3, <1>4, <1>6, <1>7, <1>8, <1>9, <1>10 DEF IInv

(* Asking for a change of a role.                                          *)
LEMMA AskKeeps ==
  ASSUME IInv, NEW c \in Caller, NEW cmd \in {"grant", "revoke"}, NEW a \in User,
         NEW s \in Scope, NEW u \in User, Ask(c, cmd, a, s, u),
         s \in Org => orgs[s] # NoRow
  PROVE  IInv'
<1> DEFINE x == [cmd |-> cmd, step |-> "authorized", actor |-> a, scope |-> s, user |-> u,
                 locked |-> FALSE, overtaken |-> FALSE]
<1>1. Goto(c, x) /\ UNCHANGED <<tables, creator>> BY DEF Ask
<1>2. x \in RoleCall BY DEF RoleCall
<1>3. x \in Call BY <1>2 DEF Call
<1>4. x.cmd \in {"grant", "revoke"} /\ x.step = "authorized" /\ x.scope = s /\ ~x.locked OBVIOUS
<1> HIDE DEF x
<1>5. x \notin LifeCall /\ x \notin CreateCall BY <1>3, <1>4, CallKinds
<1> QED BY <1>1, <1>2, <1>3, <1>4, <1>5, QuietKeeps

LEMMA AskLifeKeeps ==
  ASSUME IInv, NEW c \in Caller, NEW cmd \in {"softDelete", "restore"}, NEW o \in Org,
         AskLife(c, cmd, o)
  PROVE  IInv'
<1> DEFINE x == [cmd |-> cmd, step |-> "authorized", org |-> o, overtaken |-> FALSE]
<1>1. Goto(c, x) /\ orgs[o] # NoRow /\ UNCHANGED <<tables, creator>> BY DEF AskLife
<1>2. x \in LifeCall BY DEF LifeCall
<1>3. x \in Call BY <1>2 DEF Call
<1>4. x.cmd \in {"softDelete", "restore"} /\ x.step = "authorized" /\ x.org = o OBVIOUS
<1> HIDE DEF x
<1>5. x \notin RoleCall /\ x \notin CreateCall BY <1>3, <1>4, CallKinds
<1> QED BY <1>1, <1>2, <1>3, <1>4, <1>5, QuietKeeps

(* A handler's look-up lets a request go on.                               *)
LEMMA ReadRoleKeeps ==
  ASSUME IInv, NEW c \in Caller, ReadGrant(c) \/ ReadRevoke(c)
  PROVE  IInv'
<1> DEFINE y == call[c]
           x == [y EXCEPT !.step = "read"]
<1>1. /\ y \in Call /\ y.cmd \in {"grant", "revoke"} /\ y.step = "authorized"
      /\ Goto(c, x) /\ UNCHANGED <<tables, creator>>
      /\ y.cmd = "grant" => y.actor # y.user
      /\ Holds(y.user, y.scope) <=> y.cmd = "revoke"
  BY DEF ReadGrant, ReadRevoke, At, OtherActor, Grantable, IInv, TypeOK
<1>2. y \in RoleCall BY <1>1, CallKinds
<1>3. ~y.locked BY <1>1, <1>2 DEF IInv, LockSound
<1>4. y.scope \in Org => orgs[y.scope] # NoRow BY <1>2 DEF IInv, OrgSound
<1>5. /\ x \in RoleCall /\ x.step = "read" /\ x.cmd = y.cmd /\ x.actor = y.actor
      /\ x.user = y.user /\ x.scope = y.scope /\ x.locked = y.locked
  BY <1>2 DEF RoleCall
<1> HIDE DEF x
<1>6. x \in Call BY <1>5 DEF Call
<1>7. x \notin LifeCall /\ x \notin CreateCall BY <1>1, <1>5, <1>6, CallKinds
<1> QED BY <1>1, <1>3, <1>4, <1>5, <1>6, <1>7, QuietKeeps

(* A DELETE locks a row nobody holds, or leaves everything as it is.       *)
LEMMA DeleteKeeps ==
  ASSUME IInv, NEW c \in Caller, Delete(c)
  PROVE  IInv'
<1> DEFINE y == call[c]
<1>1. y \in RoleCall /\ y.step \in {"read", "waiting"} /\ UNCHANGED <<tables, creator>>
  BY DEF Delete
<1>2. y \in Call /\ y.cmd \in {"grant", "revoke"} BY <1>1, CallKinds DEF Call
<1>3. ~y.locked /\ (y.scope \in Org => orgs[y.scope] # NoRow)
  BY <1>1 DEF IInv, LockSound, OrgSound
<1>4. /\ y.cmd = "grant" => y.actor # y.user
      /\ ~y.overtaken => (Holds(y.user, y.scope) <=> y.cmd = "revoke")
  BY <1>1 DEF IInv, ReadSound
<1>5. ASSUME NEW s \in {"waiting", "cleared"}, NEW l \in BOOLEAN, l => s = "cleared",
             s = "cleared" => (l <=> Holds(y.user, y.scope)), l => ~LockedByOther(c),
             Goto(c, [y EXCEPT !.step = s, !.locked = l])
      PROVE  IInv'
  <2> DEFINE x == [y EXCEPT !.step = s, !.locked = l]
  <2>1. /\ x \in RoleCall /\ x.step = s /\ x.cmd = y.cmd /\ x.actor = y.actor
        /\ x.user = y.user /\ x.scope = y.scope /\ x.locked = l /\ x.overtaken = y.overtaken
    BY <1>1 DEF RoleCall
  <2>2. Goto(c, x) BY <1>5
  <2> HIDE DEF x
  <2>3. x \in Call BY <2>1 DEF Call
  <2>4. x \notin LifeCall /\ x \notin CreateCall BY <1>2, <2>1, <2>3, CallKinds
  <2>5. x.locked => \A d \in Caller \ {c} : call[d] \in RoleCall
          /\ call[d].scope = x.scope /\ call[d].user = x.user => ~call[d].locked
    BY <1>1, <1>5, <2>1 DEF LockedByOther, SameRow
  <2> QED BY <1>1, <1>3, <1>4, <1>5, <2>1, <2>2, <2>3, <2>4, <2>5, QuietKeeps
<1>6. [y EXCEPT !.step = "cleared"] = [y EXCEPT !.step = "cleared", !.locked = FALSE]
  BY <1>1, <1>3 DEF RoleCall
<1>7. [y EXCEPT !.step = "waiting"] = [y EXCEPT !.step = "waiting", !.locked = FALSE]
  BY <1>1, <1>3 DEF RoleCall
<1> QED BY <1>5, <1>6, <1>7 DEF Delete

LEMMA ReadLifeKeeps ==
  ASSUME IInv, NEW c \in Caller, ReadSoftDelete(c) \/ ReadRestore(c)
  PROVE  IInv'
<1> DEFINE y == call[c]
           x == [y EXCEPT !.step = "read"]
<1>1. /\ y \in Call /\ y.cmd \in {"softDelete", "restore"} /\ y.step = "authorized"
      /\ Goto(c, x) /\ UNCHANGED <<tables, creator>>
      /\ orgs[y.org] = IF y.cmd = "softDelete" THEN "active" ELSE "deleted"
  BY DEF ReadSoftDelete, ReadRestore, At, Deletable, IInv, TypeOK
<1>2. y \in LifeCall BY <1>1, CallKinds
<1>3. orgs[y.org] # NoRow BY <1>2 DEF IInv, OrgSound
<1>4. x \in LifeCall /\ x.step = "read" /\ x.cmd = y.cmd /\ x.org = y.org
  BY <1>2 DEF LifeCall
<1> HIDE DEF x
<1>5. x \in Call BY <1>4 DEF Call
<1>6. x \notin RoleCall /\ x \notin CreateCall BY <1>1, <1>4, <1>5, CallKinds
<1> QED BY <1>1, <1>3, <1>4, <1>5, <1>6, QuietKeeps

(* Creating, up to the commit.                                             *)
LEMMA CreatingKeeps ==
  ASSUME IInv, NEW c \in Caller,
         (\E u \in User, o \in Org : BeginCreate(c, u, o)) \/ CreateWallet(c)
  PROVE  IInv'
<1>1. ASSUME NEW u \in User, NEW o \in Org, BeginCreate(c, u, o) PROVE IInv'
  <2> DEFINE x == [cmd |-> "create", step |-> "inserted", user |-> u, org |-> o, wallet |-> FALSE]
  <2>1. /\ Goto(c, x) /\ u \in users /\ orgs[o] = NoRow /\ UNCHANGED <<tables, creator>>
        /\ \A d \in Caller : call[d] \in CreateCall => call[d].org # o
    BY <1>1 DEF BeginCreate
  <2>2. x \in CreateCall BY DEF CreateCall
  <2>3. x \in Call BY <2>2 DEF Call
  <2>4. x.cmd = "create" /\ x.step = "inserted" /\ x.user = u /\ x.org = o OBVIOUS
  <2> HIDE DEF x
  <2>5. x \notin RoleCall /\ x \notin LifeCall BY <2>3, <2>4, CallKinds
  <2> QED BY <2>1, <2>3, <2>4, <2>5, QuietKeeps
<1>2. CASE CreateWallet(c)
  <2> DEFINE y == call[c]
             x == [y EXCEPT !.step = "dispatched", !.wallet = TRUE]
  <2>1. y \in Call /\ y.cmd = "create" /\ UNCHANGED <<tables, creator>>
    BY <1>2 DEF CreateWallet, At, IInv, TypeOK
  <2>2. y \in CreateCall BY <2>1, CallKinds
  <2>3. CASE Goto(c, None)
    <3>1. None \notin RoleCall /\ None \notin LifeCall /\ None \notin CreateCall
      BY NoneAssumption DEF Call
    <3> QED BY <2>1, <2>3, <3>1, QuietKeeps
  <2>4. CASE Goto(c, x)
    <3>1. /\ x \in CreateCall /\ x.cmd = "create" /\ x.user = y.user /\ x.org = y.org /\ x.wallet
      BY <2>1, <2>2 DEF CreateCall
    <3>2. Goto(c, x) BY <2>4
    <3> HIDE DEF x
    <3>3. x \in Call BY <3>1 DEF Call
    <3>4. x \notin RoleCall /\ x \notin LifeCall BY <3>1, <3>3, CallKinds
    <3>5. /\ orgs[y.org] = NoRow /\ y.user \in users
          /\ \A d \in Caller : call[d] \in CreateCall /\ call[d].org = y.org => d = c
      BY <2>2 DEF IInv, OrgSound
    <3> QED BY <2>1, <3>1, <3>2, <3>3, <3>4, <3>5, QuietKeeps
  <2> QED BY <1>2, <2>3, <2>4 DEF CreateWallet, WithoutWallet
<1> QED BY <1>1, <1>2

LEMMA AbortKeeps ==
  ASSUME IInv, NEW c \in Caller, Abort(c)
  PROVE  IInv'
<1>1. None \notin RoleCall /\ None \notin LifeCall /\ None \notin CreateCall
  BY NoneAssumption DEF Call
<1> QED BY <1>1, QuietKeeps DEF Abort

(* A new organization: nothing referred to it.                             *)
LEMMA CommitCreateKeeps ==
  ASSUME IInv, NEW c \in Caller, CommitCreate(c)
  PROVE  IInv'
<1> DEFINE x == call[c]
<1>1. /\ x \in Call /\ x.cmd = "create" /\ x.step = "dispatched" /\ Goto(c, None)
      /\ orgs' = [orgs EXCEPT ![x.org] = "active"]
      /\ admins' = [admins EXCEPT ![x.org][x.user] = x.user]
      /\ creator' = [creator EXCEPT ![x.org] = x.user]
      /\ wallets' = (IF x.wallet THEN wallets \union {x.org} ELSE wallets)
      /\ UNCHANGED <<users, supers>>
  BY DEF CommitCreate, At, IInv, TypeOK
<1>2. x \in CreateCall BY <1>1, CallKinds
<1>3. /\ orgs[x.org] = NoRow /\ x.user \in users /\ x.wallet
      /\ x.org \in Org /\ x.user \in User
      /\ \A d \in Caller : call[d] \in CreateCall /\ call[d].org = x.org => d = c
  BY <1>1, <1>2 DEF IInv, OrgSound, CreateCall
<1> HIDE DEF x
<1>4. /\ orgs'[x.org] = "active" /\ \A o \in Org \ {x.org} : orgs'[o] = orgs[o] /\ admins'[o] = admins[o]
      /\ admins'[x.org][x.user] = x.user
      /\ \A u \in User \ {x.user} : admins'[x.org][u] = admins[x.org][u]
      /\ creator'[x.org] = x.user /\ \A o \in Org \ {x.org} : creator'[o] = creator[o]
      /\ wallets' = wallets \union {x.org}
  BY <1>1, <1>3 DEF IInv, TypeOK
<1>5. call'[c] = None /\ \A d \in Caller \ {c} : call'[d] = call[d]
  BY <1>1 DEF Goto, IInv, TypeOK
<1>6. None \notin RoleCall /\ None \notin LifeCall /\ None \notin CreateCall
  BY NoneAssumption DEF Call
<1>7. TypeOK'
  <2>1. call' \in [Caller -> Call \union {None}] BY <1>1 DEF IInv, TypeOK, Goto
  <2>2. orgs' \in [Org -> {"active", "deleted", NoRow}] BY <1>1 DEF IInv, TypeOK
  <2>3. admins' \in [Org -> [User -> User \union {NoRow}]] BY <1>1, <1>3 DEF IInv, TypeOK
  <2>4. creator' \in [Org -> User \union {NoRow}] BY <1>1, <1>3 DEF IInv, TypeOK
  <2> QED BY <1>1, <1>3, <1>4, <2>1, <2>2, <2>3, <2>4 DEF IInv, TypeOK
<1>8. \A u \in User : admins[x.org][u] = NoRow BY <1>3 DEF IInv, OrgSound, IsAdmin
<1>9. ASSUME NEW d \in Caller \ {c}, call[d] \in RoleCall
      PROVE  Holds(call[d].user, call[d].scope)' = Holds(call[d].user, call[d].scope)
  <2>1. call[d].scope \in Scope /\ call[d].user \in User BY <1>9 DEF RoleCall
  <2>2. CASE call[d].scope = Platform BY <2>2, <1>1, <1>5 DEF Holds
  <2>3. CASE call[d].scope # Platform
    <3>1. call[d].scope \in Org \ {x.org}
      BY <1>3, <1>9, <2>1, <2>3 DEF IInv, OrgSound, Scope
    <3> QED BY <2>3, <3>1, <1>4, <1>5 DEF Holds, IsAdmin
  <2> QED BY <2>2, <2>3
<1>10. OrgSound'
  <2>1. ASSUME NEW o \in Org, NEW u \in User, orgs'[o] = NoRow PROVE admins'[o][u] = NoRow
    BY <2>1, <1>4, NoRowAssumption DEF IInv, OrgSound, IsAdmin
  <2>2. ASSUME NEW d \in Caller, call'[d] \in Call
        PROVE  /\ call'[d] \in RoleCall /\ call'[d].scope \in Org => orgs'[call'[d].scope] # NoRow
               /\ call'[d] \in LifeCall => orgs'[call'[d].org] # NoRow
               /\ call'[d] \in CreateCall =>
                    /\ orgs'[call'[d].org] = NoRow /\ call'[d].user \in users'
                    /\ call'[d].step = "dispatched" => call'[d].wallet
                    /\ \A e \in Caller : call'[e] \in CreateCall /\ call'[e].org = call'[d].org => e = d
    <3>1. d # c /\ call'[d] = call[d] BY <2>2, <1>5, NoneAssumption
    <3>2. call[d] \in RoleCall /\ call[d].scope \in Org => orgs'[call[d].scope] # NoRow
      BY <1>4, NoRowAssumption DEF IInv, OrgSound
    <3>3. call[d] \in LifeCall => orgs'[call[d].org] # NoRow
      BY <1>4, NoRowAssumption DEF IInv, OrgSound, LifeCall
    <3>4. call[d] \in CreateCall =>
            /\ orgs'[call[d].org] = NoRow /\ call[d].user \in users'
            /\ call[d].step = "dispatched" => call[d].wallet
            /\ \A e \in Caller \ {c} : call[e] \in CreateCall /\ call[e].org = call[d].org => e = d
      BY <3>1, <1>1, <1>3, <1>4 DEF IInv, OrgSound, CreateCall
    <3> QED BY <3>1, <3>2, <3>3, <3>4, <1>5, <1>6
  <2> QED BY <2>1, <2>2 DEF OrgSound, IsAdmin, Call
<1>11. LockSound' BY <1>5, <1>6, <1>9 DEF IInv, LockSound, SameRow
<1>12. ReadSound'
  <2> SUFFICES ASSUME NEW d \in Caller, d # c
               PROVE  /\ call[d] \in RoleCall /\ call[d].step # "authorized" =>
                           LET y == call[d]
                           IN /\ y.cmd = "grant" => y.actor # y.user
                              /\ ~y.overtaken => (Holds(y.user, y.scope)' <=> y.cmd = "revoke")
                              /\ y.step = "cleared" /\ ~y.overtaken /\ Holds(y.user, y.scope)' => y.locked
                      /\ call[d] \in LifeCall /\ call[d].step = "read" /\ ~call[d].overtaken =>
                           orgs'[call[d].org] = IF call[d].cmd = "softDelete" THEN "active" ELSE "deleted"
    BY <1>5, <1>6 DEF ReadSound
  <2>1. call[d] \in LifeCall => call[d].org \in Org \ {x.org}
    BY <1>3 DEF IInv, OrgSound, LifeCall
  <2> QED BY <1>4, <1>9, <2>1 DEF IInv, ReadSound
<1>13. NeverWithoutWallet' BY <1>4, <1>3, NoRowAssumption DEF IInv, NeverWithoutWallet
<1>14. RolesReferToUsers'
  <2> SUFFICES ASSUME NEW o \in Org, NEW u \in User, admins'[o][u] # NoRow
               PROVE  u \in users /\ admins'[o][u] \in users
    BY <1>1 DEF IInv, RolesReferToUsers, IsAdmin
  <2> QED BY <1>3, <1>4, <1>8 DEF IInv, RolesReferToUsers, IsAdmin
<1>15. NobodyPromotedThemselves'
  <2> SUFFICES ASSUME NEW o \in Org, NEW u \in User, admins'[o][u] = u
               PROVE  creator'[o] = u
    BY DEF NobodyPromotedThemselves
  <2> QED BY <1>4, <1>8, NoRowAssumption DEF IInv, NobodyPromotedThemselves
<1> QED BY <1>7, <1>10, <1>11, <1>12, <1>13, <1>14, <1>15 DEF IInv

(* What a commit does to the requests beside it: those about the same row  *)
(* are marked, and a DELETE that waited for it is done.                    *)
LEMMA AfterCommitShape ==
  ASSUME TypeOK, NEW c \in Caller, call[c] \in RoleCall, call' = AfterCommit(c)
  PROVE  /\ call' \in [Caller -> Call \union {None}] /\ call'[c] = None
         /\ \A d \in Caller \ {c} :
              \/ call'[d] = call[d]
              \/ /\ SameRow(c, d) /\ call[d].step # "authorized" /\ call'[d] \in RoleCall
                 /\ call'[d].cmd = call[d].cmd /\ call'[d].actor = call[d].actor
                 /\ call'[d].user = call[d].user /\ call'[d].scope = call[d].scope
                 /\ call'[d].locked = call[d].locked /\ call'[d].overtaken
                 /\ call'[d].step # "authorized"
                 /\ call[d].step = "cleared" => call'[d].step = "cleared"
         /\ \A d \in Caller \ {c} : SameRow(c, d) /\ call[d].step # "authorized" => call'[d].overtaken
<1>1. call'[c] = None BY DEF AfterCommit
<1>2. ASSUME NEW d \in Caller \ {c}, SameRow(c, d), call[d].step # "authorized"
      PROVE  /\ call'[d] \in RoleCall
             /\ call'[d].cmd = call[d].cmd /\ call'[d].actor = call[d].actor
             /\ call'[d].user = call[d].user /\ call'[d].scope = call[d].scope
             /\ call'[d].locked = call[d].locked /\ call'[d].overtaken
             /\ call'[d].step # "authorized"
             /\ call[d].step = "cleared" => call'[d].step = "cleared"
  <2> DEFINE y == call[d]
  <2>1. y \in RoleCall BY <1>2 DEF SameRow
  <2>2. CASE y.step = "waiting" /\ call[c].locked
    <3>1. call'[d] = [y EXCEPT !.overtaken = TRUE, !.step = "cleared"]
      BY <1>2, <2>2 DEF AfterCommit
    <3> QED BY <2>1, <2>2, <3>1 DEF RoleCall
  <2>3. CASE ~(y.step = "waiting" /\ call[c].locked)
    <3>1. call'[d] = [y EXCEPT !.overtaken = TRUE] BY <1>2, <2>3 DEF AfterCommit
    <3> QED BY <1>2, <2>1, <3>1 DEF RoleCall
  <2> QED BY <2>2, <2>3
<1>3. ASSUME NEW d \in Caller \ {c}, ~(SameRow(c, d) /\ call[d].step # "authorized")
      PROVE  call'[d] = call[d]
  BY <1>3 DEF AfterCommit
<1>4. call' \in [Caller -> Call \union {None}]
  <2>1. ASSUME NEW d \in Caller PROVE call'[d] \in Call \union {None}
    <3>1. CASE d = c BY <3>1, <1>1
    <3>2. CASE d # c /\ SameRow(c, d) /\ call[d].step # "authorized" BY <3>2, <1>2 DEF Call
    <3>3. CASE d # c /\ ~(SameRow(c, d) /\ call[d].step # "authorized") BY <3>3, <1>3 DEF TypeOK
    <3> QED BY <3>1, <3>2, <3>3
  <2> QED BY <2>1 DEF AfterCommit
<1> QED BY <1>1, <1>2, <1>3, <1>4

(* A commit of a change of x's row, seen from outside that row.            *)
LEMMA RoleCommitKeeps ==
  ASSUME IInv, NEW c \in Caller, call[c] \in RoleCall, call[c].step = "cleared",
         call' = AfterCommit(c), UNCHANGED <<users, orgs, wallets, creator>>,
         supers' \subseteq User, admins' \in [Org -> [User -> User \union {NoRow}]],
         \A u \in User, s \in Scope : (u = call[c].user /\ s = call[c].scope)
           \/ (Holds(u, s)' <=> Holds(u, s)),
         \/ Holds(call[c].user, call[c].scope) => call[c].locked
         \/ UNCHANGED <<supers, admins>>,
         \A o \in Org, u \in User : orgs[o] = NoRow => admins'[o][u] = NoRow,
         RolesReferToUsers', NobodyPromotedThemselves'
  PROVE  IInv'
<1>1. TypeOK BY DEF IInv
<1>2. /\ call' \in [Caller -> Call \union {None}] /\ call'[c] = None
      /\ \A d \in Caller \ {c} :
           \/ call'[d] = call[d]
           \/ /\ SameRow(c, d) /\ call[d].step # "authorized" /\ call'[d] \in RoleCall
              /\ call'[d].cmd = call[d].cmd /\ call'[d].actor = call[d].actor
              /\ call'[d].user = call[d].user /\ call'[d].scope = call[d].scope
              /\ call'[d].locked = call[d].locked /\ call'[d].overtaken
              /\ call'[d].step # "authorized"
              /\ call[d].step = "cleared" => call'[d].step = "cleared"
      /\ \A d \in Caller \ {c} : SameRow(c, d) /\ call[d].step # "authorized" => call'[d].overtaken
  BY <1>1, AfterCommitShape
<1>3. None \notin Call /\ None \notin RoleCall /\ None \notin LifeCall /\ None \notin CreateCall
  BY NoneAssumption DEF Call
<1>4. TypeOK' BY <1>1, <1>2 DEF TypeOK
<1>5. ASSUME NEW d \in Caller, call'[d] # None
      PROVE  /\ d # c
             /\ call'[d] \in RoleCall => /\ call[d] \in RoleCall
                                         /\ call'[d].cmd = call[d].cmd /\ call'[d].actor = call[d].actor
                                         /\ call'[d].user = call[d].user /\ call'[d].scope = call[d].scope
                                         /\ call'[d].locked = call[d].locked
             /\ call'[d] \in LifeCall \union CreateCall => call'[d] = call[d]
  <2>1. d # c BY <1>2, <1>5
  <2>2. CASE call'[d] = call[d] BY <2>1, <2>2
  <2>3. CASE call'[d] # call[d]
    <3>1. call[d] \in RoleCall /\ call'[d] \in RoleCall BY <1>2, <2>1, <2>3 DEF SameRow
    <3>2. call'[d] \notin LifeCall \union CreateCall BY <3>1, CallKinds DEF Call
    <3> QED BY <1>2, <2>1, <2>3, <3>1, <3>2
  <2> QED BY <2>2, <2>3
<1>6. OrgSound'
  <2>1. ASSUME NEW d \in Caller, call'[d] \in RoleCall, call'[d].scope \in Org
        PROVE  orgs[call'[d].scope] # NoRow
    BY <1>3, <1>5, <2>1 DEF IInv, OrgSound
  <2>2. ASSUME NEW d \in Caller, call'[d] \in LifeCall PROVE orgs[call'[d].org] # NoRow
    BY <1>3, <1>5, <2>2 DEF IInv, OrgSound
  <2>3. ASSUME NEW d \in Caller, call'[d] \in CreateCall
        PROVE  /\ orgs[call'[d].org] = NoRow /\ call'[d].user \in users
               /\ call'[d].step = "dispatched" => call'[d].wallet
               /\ \A e \in Caller : call'[e] \in CreateCall /\ call'[e].org = call'[d].org => e = d
    BY <1>3, <1>5, <2>3 DEF IInv, OrgSound
  <2> QED BY <2>1, <2>2, <2>3 DEF OrgSound, IsAdmin
<1>7. LockSound'
  <2>1. ASSUME NEW d \in Caller, call'[d] \in RoleCall, call'[d].locked,
               NEW u \in User, NEW s \in Scope, u = call[d].user, s = call[d].scope
        PROVE  call'[d].step = "cleared" /\ Holds(u, s)'
    <3>1. d # c /\ call[d] \in RoleCall /\ call[d].locked BY <1>3, <1>5, <2>1
    <3>2. call[d].step = "cleared" /\ Holds(u, s) BY <2>1, <3>1 DEF IInv, LockSound
    <3>3. call'[d].step = "cleared" BY <1>2, <3>1, <3>2
    <3>4. CASE SameRow(c, d)
      <4>1. ~call[c].locked BY <3>1, <3>4 DEF IInv, LockSound, SameRow
      <4>2. u = call[c].user /\ s = call[c].scope BY <2>1, <3>4 DEF SameRow
      <4>3. UNCHANGED <<supers, admins>> BY <3>2, <4>1, <4>2
      <4> QED BY <3>2, <3>3, <4>3 DEF Holds, IsAdmin
    <3>5. CASE ~SameRow(c, d)
      <4>1. ~(u = call[c].user /\ s = call[c].scope) BY <2>1, <3>1, <3>5 DEF SameRow
      <4>2. Holds(u, s)' <=> Holds(u, s) BY <2>1, <4>1
      <4> QED BY <3>2, <3>3, <4>2
    <3> QED BY <3>4, <3>5
  <2>2. ASSUME NEW d \in Caller, call'[d] \in RoleCall, call'[d].locked,
               NEW e \in Caller, SameRow(d, e)', call'[e].locked
        PROVE  e = d
    <3>1. /\ call[d] \in RoleCall /\ call[e] \in RoleCall /\ call[d].locked /\ call[e].locked
          /\ call[d].scope = call[e].scope /\ call[d].user = call[e].user
      BY <1>3, <1>5, <2>2 DEF SameRow
    <3> QED BY <3>1 DEF IInv, LockSound, SameRow
  <2> SUFFICES ASSUME NEW d \in Caller, call'[d] \in RoleCall, call'[d].locked
               PROVE  call'[d].step = "cleared" /\ Holds(call[d].user, call[d].scope)'
    BY <2>2 DEF LockSound
  <2>3. /\ call[d] \in RoleCall /\ call'[d].user = call[d].user /\ call'[d].scope = call[d].scope
    BY <1>3, <1>5
  <2>4. PICK u \in User, s \in Scope : u = call[d].user /\ s = call[d].scope
    BY <2>3 DEF RoleCall
  <2>5. call'[d].step = "cleared" /\ Holds(u, s)' BY <2>1, <2>4
  <2> QED BY <2>3, <2>4, <2>5 DEF Holds, IsAdmin
<1>8. ReadSound'
  <2>1. ASSUME NEW d \in Caller, call'[d] \in RoleCall, call'[d].step # "authorized",
               NEW u \in User, NEW s \in Scope, u = call[d].user, s = call[d].scope
        PROVE  LET y == call'[d]
               IN /\ y.cmd = "grant" => y.actor # y.user
                  /\ ~y.overtaken => (Holds(u, s)' <=> y.cmd = "revoke")
                  /\ y.step = "cleared" /\ ~y.overtaken /\ Holds(u, s)' => y.locked
    <3>1. d # c /\ call[d] \in RoleCall BY <1>3, <1>5, <2>1
    <3>2. CASE call'[d].overtaken
      <4>1. call[d].step # "authorized" BY <1>2, <2>1, <3>1
      <4> QED BY <1>3, <1>5, <2>1, <3>1, <3>2, <4>1 DEF IInv, ReadSound
    <3>3. CASE ~call'[d].overtaken
      <4>1. call'[d] = call[d] /\ ~SameRow(c, d) BY <1>2, <2>1, <3>1, <3>3
      <4>2. ~(u = call[c].user /\ s = call[c].scope) BY <2>1, <3>1, <4>1 DEF SameRow
      <4>3. Holds(u, s)' <=> Holds(u, s) BY <2>1, <4>2
      <4>4. LET y == call[d]
            IN /\ y.cmd = "grant" => y.actor # y.user
               /\ ~y.overtaken => (Holds(u, s) <=> y.cmd = "revoke")
               /\ y.step = "cleared" /\ ~y.overtaken /\ Holds(u, s) => y.locked
        BY <2>1, <3>1, <4>1 DEF IInv, ReadSound
      <4> QED BY <4>1, <4>3, <4>4
    <3> QED BY <3>2, <3>3
  <2>2. ASSUME NEW d \in Caller, call'[d] \in RoleCall, call'[d].step # "authorized"
        PROVE  LET y == call'[d]
               IN /\ y.cmd = "grant" => y.actor # y.user
                  /\ ~y.overtaken => (Holds(call[d].user, call[d].scope)' <=> y.cmd = "revoke")
                  /\ y.step = "cleared" /\ ~y.overtaken /\ Holds(call[d].user, call[d].scope)' => y.locked
    <3>1. /\ call[d] \in RoleCall /\ call'[d].user = call[d].user /\ call'[d].scope = call[d].scope
      BY <1>3, <1>5, <2>2
    <3>2. PICK u \in User, s \in Scope : u = call[d].user /\ s = call[d].scope
      BY <3>1 DEF RoleCall
    <3>3. LET y == call'[d]
          IN /\ y.cmd = "grant" => y.actor # y.user
             /\ ~y.overtaken => (Holds(u, s)' <=> y.cmd = "revoke")
             /\ y.step = "cleared" /\ ~y.overtaken /\ Holds(u, s)' => y.locked
      BY <2>1, <2>2, <3>2
    <3> QED BY <3>1, <3>2, <3>3 DEF Holds, IsAdmin
  <2>3. ASSUME NEW d \in Caller, call'[d] \in LifeCall, call'[d].step = "read", ~call'[d].overtaken
        PROVE  orgs[call'[d].org] = IF call'[d].cmd = "softDelete" THEN "active" ELSE "deleted"
    BY <1>3, <1>5, <2>3 DEF IInv, ReadSound
  <2> QED BY <2>2, <2>3 DEF ReadSound
<1>9. NeverWithoutWallet' BY DEF IInv, NeverWithoutWallet
<1> QED BY <1>4, <1>6, <1>7, <1>8, <1>9 DEF IInv

LEMMA CommitGrantKeeps ==
  ASSUME IInv, NEW c \in Caller, CommitGrant(c)
  PROVE  IInv'
<1>1. PICK x \in RoleCall :
        /\ x = call[c] /\ x.cmd = "grant" /\ x.step = "cleared" /\ References(x)
        /\ Holds(x.user, x.scope) => x.locked
        /\ IF x.scope = Platform
           THEN supers' = supers \union {x.user} /\ UNCHANGED admins
           ELSE admins' = [admins EXCEPT ![x.scope][x.user] = x.actor] /\ UNCHANGED supers
        /\ call' = AfterCommit(c) /\ UNCHANGED <<users, orgs, wallets, creator>>
  <2>1. /\ call[c] \in Call /\ call[c].cmd = "grant" /\ call[c].step = "cleared"
        /\ References(call[c])
        /\ Holds(call[c].user, call[c].scope) => call[c].locked
        /\ IF call[c].scope = Platform
           THEN supers' = supers \union {call[c].user} /\ UNCHANGED admins
           ELSE /\ admins' = [admins EXCEPT ![call[c].scope][call[c].user] = call[c].actor]
                /\ UNCHANGED supers
        /\ call' = AfterCommit(c) /\ UNCHANGED <<users, orgs, wallets, creator>>
    BY DEF CommitGrant, At, IInv, TypeOK
  <2>2. call[c] \in RoleCall BY <2>1, CallKinds
  <2> QED BY <2>1, <2>2
<1>2. /\ x.user \in User /\ x.actor \in User /\ x.scope \in Scope /\ x.user \in users
      /\ x.scope # Platform => x.scope \in Org /\ x.actor \in users
      /\ x.actor # x.user
      /\ x.scope \in Org => orgs[x.scope] # NoRow
  BY <1>1 DEF RoleCall, Scope, References, IInv, ReadSound, OrgSound
<1>3. CASE x.scope = Platform
  <2>1. supers' = supers \union {x.user} /\ UNCHANGED admins BY <1>1, <1>3
  <2>2. \A u \in User, s \in Scope : (u = x.user /\ s = x.scope) \/ (Holds(u, s)' <=> Holds(u, s))
    BY <1>3, <2>1 DEF Holds, IsAdmin
  <2>3. supers' \subseteq User /\ admins' \in [Org -> [User -> User \union {NoRow}]]
    BY <1>2, <2>1 DEF IInv, TypeOK
  <2>4. \A o \in Org, u \in User : orgs[o] = NoRow => admins'[o][u] = NoRow
    BY <2>1 DEF IInv, OrgSound, IsAdmin
  <2>5. RolesReferToUsers' BY <1>1, <1>2, <2>1 DEF IInv, RolesReferToUsers, IsAdmin
  <2>6. NobodyPromotedThemselves' BY <1>1, <2>1 DEF IInv, NobodyPromotedThemselves
  <2> QED BY <1>1, <2>2, <2>3, <2>4, <2>5, <2>6, RoleCommitKeeps
<1>4. CASE x.scope # Platform
  <2>1. /\ admins' = [admins EXCEPT ![x.scope][x.user] = x.actor] /\ UNCHANGED supers
        /\ admins \in [Org -> [User -> User \union {NoRow}]]
    BY <1>1, <1>4 DEF IInv, TypeOK
  <2>2. /\ admins' \in [Org -> [User -> User \union {NoRow}]]
        /\ admins'[x.scope][x.user] = x.actor
        /\ \A o \in Org, u \in User : (o = x.scope /\ u = x.user) \/ admins'[o][u] = admins[o][u]
    BY <1>2, <1>4, <2>1
  <2>3. \A u \in User, s \in Scope : (u = x.user /\ s = x.scope) \/ (Holds(u, s)' <=> Holds(u, s))
    BY <2>1, <2>2 DEF Holds, IsAdmin, Scope
  <2>4. \A o \in Org, u \in User : orgs[o] = NoRow => admins'[o][u] = NoRow
    BY <1>2, <1>4, <2>2 DEF IInv, OrgSound, IsAdmin
  <2>5. RolesReferToUsers'
    BY <1>1, <1>2, <1>4, <2>1, <2>2 DEF IInv, RolesReferToUsers, IsAdmin
  <2>6. NobodyPromotedThemselves'
    BY <1>1, <1>2, <1>4, <2>2 DEF IInv, NobodyPromotedThemselves
  <2>7. supers' \subseteq User BY <2>1 DEF IInv, TypeOK
  <2> QED BY <1>1, <2>2, <2>3, <2>4, <2>5, <2>6, <2>7, RoleCommitKeeps
<1> QED BY <1>3, <1>4

(* A revocation deletes the row it locked, or nothing.                     *)
LEMMA CommitRevokeKeeps ==
  ASSUME IInv, NEW c \in Caller, CommitRevoke(c)
  PROVE  IInv'
<1>1. PICK x \in RoleCall :
        /\ x = call[c] /\ x.step = "cleared"
        /\ IF ~Deleted(x) THEN UNCHANGED <<supers, admins>>
           ELSE IF x.scope = Platform
           THEN supers' = supers \ {x.user} /\ UNCHANGED admins
           ELSE admins' = [admins EXCEPT ![x.scope][x.user] = NoRow] /\ UNCHANGED supers
        /\ call' = AfterCommit(c) /\ UNCHANGED <<users, orgs, wallets, creator>>
  <2>1. /\ call[c] \in Call /\ call[c].cmd = "revoke" /\ call[c].step = "cleared"
        /\ IF ~Deleted(call[c]) THEN UNCHANGED <<supers, admins>>
           ELSE IF call[c].scope = Platform
           THEN supers' = supers \ {call[c].user} /\ UNCHANGED admins
           ELSE /\ admins' = [admins EXCEPT ![call[c].scope][call[c].user] = NoRow]
                /\ UNCHANGED supers
        /\ call' = AfterCommit(c) /\ UNCHANGED <<users, orgs, wallets, creator>>
    BY DEF CommitRevoke, At, IInv, TypeOK
  <2>2. call[c] \in RoleCall BY <2>1, CallKinds
  <2> QED BY <2>1, <2>2
<1>2. x.user \in User /\ x.scope \in Scope BY <1>1 DEF RoleCall
<1>3. CASE UNCHANGED <<supers, admins>>
  <2>1. \A u \in User, s \in Scope : Holds(u, s)' <=> Holds(u, s)
    BY <1>3 DEF Holds, IsAdmin
  <2>2. supers' \subseteq User /\ admins' \in [Org -> [User -> User \union {NoRow}]]
    BY <1>3 DEF IInv, TypeOK
  <2>3. \A o \in Org, u \in User : orgs[o] = NoRow => admins'[o][u] = NoRow
    BY <1>3 DEF IInv, OrgSound, IsAdmin
  <2>4. RolesReferToUsers' BY <1>1, <1>3 DEF IInv, RolesReferToUsers, IsAdmin
  <2>5. NobodyPromotedThemselves' BY <1>1, <1>3 DEF IInv, NobodyPromotedThemselves
  <2> QED BY <1>1, <1>3, <2>1, <2>2, <2>3, <2>4, <2>5, RoleCommitKeeps
<1>4. CASE Deleted(x) /\ x.scope = Platform
  <2>1. x.locked /\ supers' = supers \ {x.user} /\ UNCHANGED admins BY <1>1, <1>4 DEF Deleted
  <2>2. \A u \in User, s \in Scope : (u = x.user /\ s = x.scope) \/ (Holds(u, s)' <=> Holds(u, s))
    BY <1>4, <2>1 DEF Holds, IsAdmin
  <2>3. supers' \subseteq User /\ admins' \in [Org -> [User -> User \union {NoRow}]]
    BY <2>1 DEF IInv, TypeOK
  <2>4. \A o \in Org, u \in User : orgs[o] = NoRow => admins'[o][u] = NoRow
    BY <2>1 DEF IInv, OrgSound, IsAdmin
  <2>5. RolesReferToUsers' BY <1>1, <2>1 DEF IInv, RolesReferToUsers, IsAdmin
  <2>6. NobodyPromotedThemselves' BY <1>1, <2>1 DEF IInv, NobodyPromotedThemselves
  <2> QED BY <1>1, <2>1, <2>2, <2>3, <2>4, <2>5, <2>6, RoleCommitKeeps
<1>5. CASE Deleted(x) /\ x.scope # Platform
  <2>1. /\ x.locked /\ admins' = [admins EXCEPT ![x.scope][x.user] = NoRow] /\ UNCHANGED supers
        /\ admins \in [Org -> [User -> User \union {NoRow}]] /\ x.scope \in Org
    BY <1>1, <1>2, <1>5 DEF Deleted, IInv, TypeOK, Scope
  <2>2. /\ admins' \in [Org -> [User -> User \union {NoRow}]]
        /\ admins'[x.scope][x.user] = NoRow
        /\ \A o \in Org, u \in User : (o = x.scope /\ u = x.user) \/ admins'[o][u] = admins[o][u]
    BY <1>2, <2>1
  <2>3. \A u \in User, s \in Scope : (u = x.user /\ s = x.scope) \/ (Holds(u, s)' <=> Holds(u, s))
    BY <2>1, <2>2 DEF Holds, IsAdmin, Scope
  <2>4. \A o \in Org, u \in User : orgs[o] = NoRow => admins'[o][u] = NoRow
    BY <2>2 DEF IInv, OrgSound, IsAdmin
  <2>5. RolesReferToUsers' BY <1>1, <2>1, <2>2 DEF IInv, RolesReferToUsers, IsAdmin
  <2>6. NobodyPromotedThemselves'
    BY <1>1, <2>2, NoRowAssumption DEF IInv, NobodyPromotedThemselves
  <2>7. supers' \subseteq User BY <2>1 DEF IInv, TypeOK
  <2> QED BY <1>1, <2>1, <2>2, <2>3, <2>4, <2>5, <2>6, <2>7, RoleCommitKeeps
<1> QED BY <1>1, <1>3, <1>4, <1>5

(* A write of a life-cycle change leaves the roles alone.                  *)
LEMMA CommitLifeKeeps ==
  ASSUME IInv, NEW c \in Caller, CommitSoftDelete(c) \/ CommitRestore(c)
  PROVE  IInv'
<1>1. PICK x \in LifeCall, status \in {"active", "deleted"} :
        /\ x = call[c] /\ x.step = "read" /\ orgs' = [orgs EXCEPT ![x.org] = status]
        /\ call' = [d \in Caller |->
                      IF d = c THEN None
                      ELSE IF SameOrg(c, d) /\ call[d].step = "read"
                      THEN [call[d] EXCEPT !.overtaken = TRUE] ELSE call[d]]
        /\ UNCHANGED <<users, supers, admins, wallets, creator>>
  <2>1. call[c] \in Call /\ call[c].cmd \in {"softDelete", "restore"}
    BY DEF CommitSoftDelete, CommitRestore, CommitLife, At, IInv, TypeOK
  <2>2. call[c] \in LifeCall BY <2>1, CallKinds
  <2> QED BY <2>2 DEF CommitSoftDelete, CommitRestore, CommitLife, At
<1>2. x.org \in Org /\ orgs[x.org] # NoRow BY <1>1 DEF LifeCall, IInv, OrgSound
<1>3. None \notin Call /\ None \notin RoleCall /\ None \notin LifeCall /\ None \notin CreateCall
  BY NoneAssumption DEF Call
<1>4. /\ orgs' \in [Org -> {"active", "deleted", NoRow}] /\ orgs'[x.org] # NoRow
      /\ \A o \in Org \ {x.org} : orgs'[o] = orgs[o]
  BY <1>1, <1>2, NoRowAssumption DEF IInv, TypeOK
<1>5. ASSUME NEW d \in Caller \ {c}
      PROVE  \/ call'[d] = call[d] /\ ~(call[d] \in LifeCall /\ call[d].step = "read" /\ call[d].org = x.org)
             \/ /\ call[d] \in LifeCall /\ call'[d] \in LifeCall /\ call'[d].overtaken
                /\ call'[d].org = call[d].org
  BY <1>1 DEF SameOrg, LifeCall
<1>6. call'[c] = None BY <1>1
<1>7. /\ call' \in [Caller -> Call \union {None}]
      /\ \A d \in Caller : call'[d] \in RoleCall \union CreateCall => d # c /\ call'[d] = call[d]
      /\ \A d \in Caller : call'[d] \in LifeCall =>
           d # c /\ call[d] \in LifeCall /\ call'[d].org = call[d].org
  <2>1. \A d \in Caller : call'[d] \in Call \union {None}
    BY <1>5, <1>6 DEF IInv, TypeOK, Call
  <2>2. LifeCall \intersect (RoleCall \union CreateCall) = {} BY CallKinds DEF Call
  <2> QED BY <1>1, <1>3, <1>5, <1>6, <2>1, <2>2
<1>8. TypeOK' BY <1>1, <1>4, <1>7 DEF IInv, TypeOK
<1>9. OrgSound'
  <2>1. \A o \in Org : orgs'[o] = NoRow <=> orgs[o] = NoRow BY <1>2, <1>4
  <2>2. \A o \in Org, u \in User : orgs'[o] = NoRow => ~IsAdmin(u, o)'
    BY <1>1, <2>1 DEF IInv, OrgSound, IsAdmin
  <2>3. ASSUME NEW d \in Caller
        PROVE  /\ call'[d] \in RoleCall /\ call'[d].scope \in Org => orgs'[call'[d].scope] # NoRow
               /\ call'[d] \in LifeCall => orgs'[call'[d].org] # NoRow
    BY <1>7, <2>1 DEF IInv, OrgSound, LifeCall
  <2>4. ASSUME NEW d \in Caller, call'[d] \in CreateCall
        PROVE  /\ orgs'[call'[d].org] = NoRow /\ call'[d].user \in users
               /\ call'[d].step = "dispatched" => call'[d].wallet
               /\ \A e \in Caller : call'[e] \in CreateCall /\ call'[e].org = call'[d].org => e = d
    BY <1>7, <2>1, <2>4 DEF IInv, OrgSound, CreateCall
  <2> QED BY <1>1, <2>2, <2>3, <2>4 DEF OrgSound
<1>10. \A u, s : Holds(u, s)' = Holds(u, s) BY <1>1 DEF Holds, IsAdmin
<1>11. LockSound'
  <2> SUFFICES ASSUME NEW d \in Caller, call'[d] \in RoleCall, call'[d].locked
               PROVE  /\ call'[d].step = "cleared" /\ Holds(call'[d].user, call'[d].scope)
                      /\ \A e \in Caller : SameRow(d, e)' /\ call'[e].locked => e = d
    BY <1>10 DEF LockSound
  <2>1. \A e \in Caller : SameRow(d, e)' => SameRow(d, e) /\ call'[e] = call[e]
    BY <1>7 DEF SameRow
  <2> QED BY <1>7, <2>1 DEF IInv, LockSound
<1>12. ReadSound'
  <2>1. ASSUME NEW d \in Caller, call'[d] \in RoleCall, call'[d].step # "authorized"
        PROVE  LET y == call'[d]
               IN /\ y.cmd = "grant" => y.actor # y.user
                  /\ ~y.overtaken => (Holds(y.user, y.scope) <=> y.cmd = "revoke")
                  /\ y.step = "cleared" /\ ~y.overtaken /\ Holds(y.user, y.scope) => y.locked
    BY <1>7, <2>1 DEF IInv, ReadSound
  <2>2. ASSUME NEW d \in Caller, call'[d] \in LifeCall, call'[d].step = "read", ~call'[d].overtaken
        PROVE  orgs'[call'[d].org] = IF call'[d].cmd = "softDelete" THEN "active" ELSE "deleted"
    <3>1. call'[d] = call[d] /\ call[d].org # x.org BY <1>5, <1>7, <2>2
    <3>2. call[d].org \in Org BY <1>7, <2>2 DEF LifeCall
    <3> QED BY <1>4, <2>2, <3>1, <3>2 DEF IInv, ReadSound
  <2> QED BY <1>10, <2>1, <2>2 DEF ReadSound
<1>13. NeverWithoutWallet' BY <1>1, <1>2, <1>4 DEF IInv, NeverWithoutWallet
<1>14. RolesReferToUsers' BY <1>1 DEF IInv, RolesReferToUsers, IsAdmin
<1>15. NobodyPromotedThemselves' BY <1>1 DEF IInv, NobodyPromotedThemselves
<1> QED BY <1>8, <1>9, <1>11, <1>12, <1>13, <1>14, <1>15 DEF IInv

(* What the deletion of w does to the requests: those about a role that    *)
(* goes are marked, and no other.                                          *)
LEMMA AfterCascadeShape ==
  ASSUME TypeOK, NEW w \in User, call' = AfterCascade(w)
  PROVE  /\ call' \in [Caller -> Call \union {None}]
         /\ \A c \in Caller :
              \/ /\ call'[c] = call[c]
                 /\ ~(/\ call[c] \in RoleCall /\ call[c].user = w
                      /\ call[c].step # "authorized" /\ Holds(w, call[c].scope))
              \/ /\ call[c] \in RoleCall /\ call'[c] \in RoleCall
                 /\ call'[c].cmd = call[c].cmd /\ call'[c].actor = call[c].actor
                 /\ call'[c].user = call[c].user /\ call'[c].scope = call[c].scope
                 /\ call'[c].locked = call[c].locked /\ call'[c].step = call[c].step
                 /\ call'[c].overtaken /\ call[c].step # "authorized"
<1>1. ASSUME NEW c \in Caller, call[c] \in RoleCall, call[c].user = w, call[c].step # "authorized",
             Holds(w, call[c].scope)
      PROVE  /\ call'[c] \in RoleCall
             /\ call'[c].cmd = call[c].cmd /\ call'[c].actor = call[c].actor
             /\ call'[c].user = call[c].user /\ call'[c].scope = call[c].scope
             /\ call'[c].locked = call[c].locked /\ call'[c].step = call[c].step
             /\ call'[c].overtaken
  <2>1. call'[c] = [call[c] EXCEPT !.overtaken = TRUE] BY <1>1 DEF AfterCascade
  <2> QED BY <1>1, <2>1 DEF RoleCall
<1>2. ASSUME NEW c \in Caller,
             ~(/\ call[c] \in RoleCall /\ call[c].user = w
               /\ call[c].step # "authorized" /\ Holds(w, call[c].scope))
      PROVE  call'[c] = call[c]
  BY <1>2 DEF AfterCascade
<1>3. call' \in [Caller -> Call \union {None}]
  <2>1. ASSUME NEW c \in Caller PROVE call'[c] \in Call \union {None}
    BY <1>1, <1>2 DEF TypeOK, Call
  <2> QED BY <2>1 DEF AfterCascade
<1> QED BY <1>1, <1>2, <1>3

(* A user goes with their roles: nobody holds a lock on one of them, and   *)
(* nobody else's was issued by them.                                       *)
LEMMA DeleteUserKeeps ==
  ASSUME IInv, NEW w \in User, DeleteUser(w)
  PROVE  IInv'
<1>1. /\ users' = users \ {w} /\ supers' = supers \ {w} /\ ~IssuedToOthers(w) /\ ~HeldByCall(w)
      /\ admins' = [o \in Org |-> [admins[o] EXCEPT ![w] = NoRow]]
      /\ call' = AfterCascade(w) /\ UNCHANGED <<orgs, wallets, creator>>
  BY DEF DeleteUser, MayGo, WithoutRoles
<1>2. /\ admins' \in [Org -> [User -> User \union {NoRow}]]
      /\ \A o \in Org : admins'[o][w] = NoRow
      /\ \A o \in Org, u \in User \ {w} : admins'[o][u] = admins[o][u]
  BY <1>1 DEF IInv, TypeOK
<1>11. /\ call' \in [Caller -> Call \union {None}]
       /\ \A c \in Caller :
            \/ /\ call'[c] = call[c]
               /\ ~(/\ call[c] \in RoleCall /\ call[c].user = w
                    /\ call[c].step # "authorized" /\ Holds(w, call[c].scope))
            \/ /\ call[c] \in RoleCall /\ call'[c] \in RoleCall
               /\ call'[c].cmd = call[c].cmd /\ call'[c].actor = call[c].actor
               /\ call'[c].user = call[c].user /\ call'[c].scope = call[c].scope
               /\ call'[c].locked = call[c].locked /\ call'[c].step = call[c].step
               /\ call'[c].overtaken /\ call[c].step # "authorized"
  BY <1>1, AfterCascadeShape DEF IInv
<1>12. /\ \A c \in Caller : call'[c] \in LifeCall \union CreateCall => call'[c] = call[c]
       /\ \A c \in Caller : call'[c] \in RoleCall =>
            /\ call[c] \in RoleCall
            /\ call'[c].user = call[c].user /\ call'[c].scope = call[c].scope
            /\ call'[c].locked = call[c].locked /\ call'[c].step = call[c].step
  <2>1. RoleCall \intersect (LifeCall \union CreateCall) = {} BY CallKinds DEF Call
  <2> QED BY <1>11, <2>1
<1>3. TypeOK' BY <1>1, <1>2, <1>11 DEF IInv, TypeOK
<1>4. ASSUME NEW u \in User, NEW s \in Scope
      PROVE  Holds(u, s)' <=> Holds(u, s) /\ u # w
  BY <1>1, <1>2 DEF Holds, IsAdmin, Scope
<1>5. OrgSound'
  <2>1. \A o \in Org, u \in User : orgs'[o] = NoRow => ~IsAdmin(u, o)'
    BY <1>1, <1>2 DEF IInv, OrgSound, IsAdmin
  <2>2. \A c \in Caller : call[c] \in CreateCall => call[c].user \in users'
    BY <1>1 DEF HeldByCall, IInv, OrgSound
  <2>3. ASSUME NEW c \in Caller
        PROVE  /\ call'[c] \in RoleCall /\ call'[c].scope \in Org => orgs[call'[c].scope] # NoRow
               /\ call'[c] \in LifeCall => orgs[call'[c].org] # NoRow
    BY <1>12 DEF IInv, OrgSound
  <2>4. ASSUME NEW c \in Caller, call'[c] \in CreateCall
        PROVE  /\ orgs[call'[c].org] = NoRow /\ call'[c].user \in users'
               /\ call'[c].step = "dispatched" => call'[c].wallet
               /\ \A d \in Caller : call'[d] \in CreateCall /\ call'[d].org = call'[c].org => d = c
    <3>1. call'[c] = call[c] /\ \A d \in Caller : call'[d] \in CreateCall => call'[d] = call[d]
      BY <1>12, <2>4
    <3> QED BY <2>2, <2>4, <3>1 DEF IInv, OrgSound
  <2> QED BY <1>1, <2>1, <2>3, <2>4 DEF OrgSound
<1>6. LockSound'
  <2> SUFFICES ASSUME NEW c \in Caller, call'[c] \in RoleCall, call'[c].locked
               PROVE  /\ call'[c].step = "cleared" /\ Holds(call[c].user, call[c].scope)'
                      /\ \A d \in Caller : SameRow(c, d)' /\ call'[d].locked => d = c
    BY DEF LockSound
  <2>1. call[c] \in RoleCall /\ call[c].locked /\ call[c].step = "cleared"
    BY <1>12 DEF IInv, LockSound
  <2>2. PICK u \in User, s \in Scope : u = call[c].user /\ s = call[c].scope BY <2>1 DEF RoleCall
  <2>3. Holds(u, s) /\ u # w BY <1>1, <2>1, <2>2 DEF HeldByCall, IInv, LockSound
  <2>4. Holds(u, s)' BY <1>4, <2>3
  <2>5. call'[c].user = u /\ call'[c].scope = s /\ call'[c].step = "cleared" BY <1>12, <2>1, <2>2
  <2>6. \A d \in Caller : SameRow(c, d)' /\ call'[d].locked => SameRow(c, d) /\ call[d].locked
    BY <1>12 DEF SameRow
  <2>7. \A d \in Caller : SameRow(c, d) /\ call[d].locked => d = c
    BY <2>1 DEF IInv, LockSound
  <2>8. Holds(call[c].user, call[c].scope)' BY <2>4, <2>5 DEF Holds, IsAdmin
  <2> QED BY <2>5, <2>6, <2>7, <2>8
<1>7. ReadSound'
  <2>1. ASSUME NEW c \in Caller, call'[c] \in RoleCall, call'[c].step # "authorized",
               NEW u \in User, NEW s \in Scope, u = call[c].user, s = call[c].scope
        PROVE  LET x == call'[c]
               IN /\ x.cmd = "grant" => x.actor # x.user
                  /\ ~x.overtaken => (Holds(u, s)' <=> x.cmd = "revoke")
                  /\ x.step = "cleared" /\ ~x.overtaken /\ Holds(u, s)' => x.locked
    <3>1. call[c] \in RoleCall /\ call[c].step # "authorized" BY <1>12, <2>1
    <3>2. LET x == call[c]
          IN /\ x.cmd = "grant" => x.actor # x.user
             /\ ~x.overtaken => (Holds(u, s) <=> x.cmd = "revoke")
             /\ x.step = "cleared" /\ ~x.overtaken /\ Holds(u, s) => x.locked
      BY <2>1, <3>1 DEF IInv, ReadSound
    <3>3. CASE call'[c].overtaken /\ call'[c] # call[c]
      <4>1. call'[c].cmd = call[c].cmd /\ call'[c].actor = call[c].actor /\ call'[c].user = call[c].user
        BY <1>11, <3>3
      <4> QED BY <3>2, <3>3, <4>1
    <3>4. CASE call'[c] = call[c]
      <4>1. \/ ~(u = w /\ Holds(w, s))
            \/ call'[c].overtaken
        BY <1>11, <2>1, <3>1, <3>4
      <4>2. CASE call'[c].overtaken BY <3>2, <3>4, <4>2
      <4>3. CASE ~(u = w /\ Holds(w, s))
        <5>1. Holds(u, s)' <=> Holds(u, s) BY <1>4, <4>3
        <5> QED BY <3>2, <3>4, <5>1
      <4> QED BY <4>1, <4>2, <4>3
    <3> QED BY <1>11, <3>3, <3>4
  <2>2. ASSUME NEW c \in Caller, call'[c] \in RoleCall, call'[c].step # "authorized"
        PROVE  LET x == call'[c]
               IN /\ x.cmd = "grant" => x.actor # x.user
                  /\ ~x.overtaken => (Holds(call[c].user, call[c].scope)' <=> x.cmd = "revoke")
                  /\ x.step = "cleared" /\ ~x.overtaken /\ Holds(call[c].user, call[c].scope)' => x.locked
    <3>1. /\ call[c] \in RoleCall /\ call'[c].user = call[c].user /\ call'[c].scope = call[c].scope
      BY <1>12, <2>2
    <3>2. PICK u \in User, s \in Scope : u = call[c].user /\ s = call[c].scope
      BY <3>1 DEF RoleCall
    <3>3. LET x == call'[c]
          IN /\ x.cmd = "grant" => x.actor # x.user
             /\ ~x.overtaken => (Holds(u, s)' <=> x.cmd = "revoke")
             /\ x.step = "cleared" /\ ~x.overtaken /\ Holds(u, s)' => x.locked
      BY <2>1, <2>2, <3>2
    <3> QED BY <3>1, <3>2, <3>3 DEF Holds, IsAdmin
  <2>3. ASSUME NEW c \in Caller, call'[c] \in LifeCall, call'[c].step = "read", ~call'[c].overtaken
        PROVE  orgs[call'[c].org] = IF call'[c].cmd = "softDelete" THEN "active" ELSE "deleted"
    BY <1>12, <2>3 DEF IInv, ReadSound
  <2> QED BY <1>1, <2>2, <2>3 DEF ReadSound
<1>8. NeverWithoutWallet' BY <1>1 DEF IInv, NeverWithoutWallet
<1>9. RolesReferToUsers'
  <2>1. ASSUME NEW o \in Org, NEW u \in User, admins'[o][u] # NoRow
        PROVE  u \in users' /\ admins'[o][u] \in users'
    <3>1. u # w /\ admins'[o][u] = admins[o][u] BY <1>2, <2>1
    <3>2. u \in users /\ admins[o][u] \in users
      BY <2>1, <3>1 DEF IInv, RolesReferToUsers, IsAdmin
    <3> QED BY <1>1, <3>1, <3>2 DEF IssuedToOthers
  <2> QED BY <1>1, <2>1 DEF IInv, RolesReferToUsers, IsAdmin
<1>10. NobodyPromotedThemselves'
  BY <1>1, <1>2, NoRowAssumption DEF IInv, NobodyPromotedThemselves
<1> QED BY <1>3, <1>5, <1>6, <1>7, <1>8, <1>9, <1>10 DEF IInv

LEMMA IInvStep == IInv /\ [Next]_vars => IInv'
<1> SUFFICES ASSUME IInv, [Next]_vars PROVE IInv' OBVIOUS
<1>1. ASSUME NEW c \in Caller, Creating(c) PROVE IInv'
  BY <1>1, CreatingKeeps, CommitCreateKeeps DEF Creating
<1>2. ASSUME NEW c \in Caller, ChangingRole(c) PROVE IInv'
  <2>1. ASSUME NEW cmd \in {"grant", "revoke"}, NEW a \in User, NEW u \in User, AskRole(c, cmd, a, u)
        PROVE  IInv'
    BY <2>1, AskKeeps, PlatformAssumption DEF AskRole, Scope
  <2>2. ASSUME NEW cmd \in {"grant", "revoke"}, NEW a \in User, NEW u \in User, NEW o \in Org,
               AskOrganizationRole(c, cmd, a, o, u)
        PROVE  IInv'
    BY <2>2, AskKeeps DEF AskOrganizationRole, Scope
  <2> QED BY <1>2, <2>1, <2>2, ReadRoleKeeps, DeleteKeeps, CommitGrantKeeps, CommitRevokeKeeps
             DEF ChangingRole
<1>3. ASSUME NEW c \in Caller, ChangingLife(c) PROVE IInv'
  BY <1>3, AskLifeKeeps, ReadLifeKeeps, CommitLifeKeeps DEF ChangingLife, AskSoftDelete, AskRestore
<1>4. CASE UNCHANGED vars
  BY <1>4 DEF vars, tables, IInv, TypeOK, OrgSound, LockSound, SameRow, ReadSound, Holds, IsAdmin,
     NeverWithoutWallet, RolesReferToUsers, NobodyPromotedThemselves
<1> QED BY <1>1, <1>2, <1>3, <1>4, AbortKeeps, DeleteUserKeeps DEF Next
-----------------------------------------------------------------------------
(* Every reachable state satisfies the inductive invariant.                *)
THEOREM Invariance == Spec => []IInv
BY IInvInit, IInvStep, PTL DEF Spec

(* The tables and the requests have their types.                           *)
THEOREM TypeCorrectness == Spec => []TypeOK
<1>1. IInv => TypeOK BY DEF IInv
<1> QED BY Invariance, <1>1, PTL

(* The wallet commits with the organization, or neither does.              *)
THEOREM WalletsAtomic == Spec => []NeverWithoutWallet
<1>1. IInv => NeverWithoutWallet BY DEF IInv
<1> QED BY Invariance, <1>1, PTL

(* No deletion of a user leaves a role of theirs, or issued by them.       *)
THEOREM RolesOfUsers == Spec => []RolesReferToUsers
<1>1. IInv => RolesReferToUsers BY DEF IInv
<1> QED BY Invariance, <1>1, PTL

(* Grants that overwrite one another still have another issuer.            *)
THEOREM NoSelfPromotion == Spec => []NobodyPromotedThemselves
<1>1. IInv => NobodyPromotedThemselves BY DEF IInv
<1> QED BY Invariance, <1>1, PTL

(* A grant or revocation that nobody overtook did what it answers: the     *)
(* user has the role and had not, or had it and has not                    *)
(* (organization-roles.root-ops.ts).                                       *)
THEOREM RoleChangesHold == Spec => RoleChangesUnlessOvertaken
<1> DEFINE Held(x) == IF x.scope = Platform THEN x.user \in supers'
                      ELSE admins'[x.scope][x.user] # NoRow
<1>1. ASSUME IInv, NEW c \in Caller, call[c] \in RoleCall, call[c].step = "cleared"
      PROVE  /\ CommitGrant(c) /\ ~call[c].overtaken =>
                  ~Holds(call[c].user, call[c].scope) /\ Held(call[c])
             /\ CommitRevoke(c) /\ ~call[c].overtaken =>
                  Holds(call[c].user, call[c].scope) /\ ~Held(call[c])
  <2> DEFINE x == call[c]
  <2>1. x.user \in User /\ x.actor \in User /\ (x.scope # Platform => x.scope \in Org)
    BY <1>1 DEF RoleCall, Scope
  <2>2. ~x.overtaken => (Holds(x.user, x.scope) <=> x.cmd = "revoke")
    BY <1>1 DEF IInv, ReadSound
  <2>3. ~x.overtaken /\ Holds(x.user, x.scope) => x.locked BY <1>1 DEF IInv, ReadSound
  <2>4. CommitGrant(c) => Held(x)
    BY <1>1, <2>1, NoRowAssumption DEF CommitGrant, IInv, TypeOK
  <2>5. CommitRevoke(c) /\ ~x.overtaken => ~Held(x)
    BY <1>1, <2>1, <2>3 DEF CommitRevoke, Deleted, Holds, IsAdmin, IInv, TypeOK
  <2> QED BY <2>2, <2>4, <2>5 DEF CommitGrant, CommitRevoke, At
<1>2. IInv /\ [Next]_vars =>
        [\A c \in Caller : call[c] \in RoleCall /\ call[c].step = "cleared" =>
           LET x == call[c]
               held == Holds(x.user, x.scope)
               holds == IF x.scope = Platform THEN x.user \in supers'
                        ELSE admins'[x.scope][x.user] # NoRow
           IN /\ CommitGrant(c) /\ ~x.overtaken => ~held /\ holds
              /\ CommitRevoke(c) /\ ~x.overtaken => held /\ ~holds]_vars
  BY <1>1
<1> QED BY Invariance, <1>2, PTL DEF Spec, RoleChangesUnlessOvertaken

(* A soft-deletion or restoration that nobody overtook found the           *)
(* organization as it had read it.                                         *)
THEOREM LifeAlternates == Spec => LifeAlternatesUnlessOvertaken
<1>1. IInv /\ [Next]_vars =>
        [\A c \in Caller : call[c] \in LifeCall /\ ~call[c].overtaken =>
           /\ CommitSoftDelete(c) => orgs[call[c].org] = "active"
           /\ CommitRestore(c) => orgs[call[c].org] = "deleted"]_vars
  BY DEF IInv, ReadSound, CommitSoftDelete, CommitRestore, CommitLife, At
<1> QED BY Invariance, <1>1, PTL DEF Spec, LifeAlternatesUnlessOvertaken
=============================================================================
