----------------------------- MODULE DeviceLogin -----------------------------
(***************************************************************************)
(* Signing a command-line client in with a device code                     *)
(* (packages/server/src/modules/auth, device grants and the tokens minted  *)
(* from them).                                                             *)
(*                                                                         *)
(* A client starts a grant and polls with its device code; a signed-in     *)
(* user approves the grant by its user code; a poll exchanges an approved  *)
(* grant for an API token, once.  Polls and approvals run in READ          *)
(* COMMITTED transactions that first read the grant and act on what they   *)
(* read later, so that any two of them interleave.                         *)
(***************************************************************************)
CONSTANTS Grant,    \* ids of device grants; each has its own two codes
          User,     \* accounts that approve
          Caller,   \* requests in progress
          Token,    \* ids of API tokens; bound: as many as are ever minted
          NoRow,    \* "no such row"
          None      \* "no transaction"

ASSUME GrantAssumption == NoRow \notin User /\ "pending" \notin User /\ NoRow # "pending"

ApproveTxn == [cmd : {"approve"}, grant : Grant, user : User]
ExchangeTxn == [cmd : {"exchange"}, grant : Grant, user : User, token : Token]
ExpireTxn == [cmd : {"expire"}, grant : Grant]
Txn == ApproveTxn \union ExchangeTxn \union ExpireTxn

ASSUME NoneAssumption == None \notin Txn

VARIABLES
  users,     \* user.users
  grants,    \* auth.device_grants: "pending", or the user who approved
  lapsed,    \* grants whose expires_at has passed
  started,   \* ids handed out so far: a random UUID does not recur
  tokens,    \* auth.api_tokens, each with the grant it was minted from
  txn,       \* txn[c]: c's open transaction
  approvals  \* history: the approvals that committed

vars == <<users, grants, lapsed, started, tokens, txn, approvals>>

ApiToken == [id : Token, user : User, grant : Grant]
Approval == [grant : Grant, user : User]

TypeOK ==
  /\ users \subseteq User
  /\ grants \in [Grant -> User \union {"pending", NoRow}]
  /\ lapsed \subseteq started /\ started \subseteq Grant
  /\ tokens \subseteq ApiToken
  /\ txn \in [Caller -> Txn \union {None}]
  /\ approvals \subseteq Approval

Init ==
  /\ users = User
  /\ grants = [g \in Grant |-> NoRow]
  /\ lapsed = {} /\ started = {} /\ tokens = {} /\ approvals = {}
  /\ txn = [c \in Caller |-> None]
-----------------------------------------------------------------------------
Exists(g) == grants[g] # NoRow

IsApproved(g) == grants[g] \in User

IsExpired(g) == g \in lapsed

(* startDeviceGrant: one INSERT.                                           *)
Start(g) ==
  /\ g \notin started
  /\ grants' = [grants EXCEPT ![g] = "pending"]
  /\ started' = started \union {g}
  /\ UNCHANGED <<users, lapsed, tokens, txn, approvals>>

Begin(c, x) ==
  /\ txn[c] = None
  /\ txn' = [txn EXCEPT ![c] = x]
  /\ UNCHANGED <<users, grants, lapsed, started, tokens, approvals>>

(* approveDeviceGrant: a grant that is there and has not lapsed, whether   *)
(* or not somebody approved it before.                                     *)
ReadApprove(c, u, g) ==
  /\ Exists(g) /\ ~IsExpired(g)
  /\ Begin(c, [cmd |-> "approve", grant |-> g, user |-> u])

(* A random id: no token and no other transaction has it.                  *)
FreshTokens == {t \in Token : /\ \A k \in tokens : k.id # t
                              /\ \A c \in Caller : txn[c] \in ExchangeTxn => txn[c].token # t}

(* Mutant: the token is minted for whoever polls.                          *)
ReadPollForCaller(c, g) ==
  /\ Exists(g) /\ ~IsExpired(g) /\ IsApproved(g)
  /\ \E t \in FreshTokens, u \in User :
       Begin(c, [cmd |-> "exchange", grant |-> g, user |-> u, token |-> t])

(* pollDeviceGrant: answer "pending", refuse a lapsed grant, or mint.      *)
ReadPoll(c, g) ==
  /\ Exists(g)
  /\ \/ /\ IsExpired(g)
        /\ Begin(c, [cmd |-> "expire", grant |-> g])
     \/ /\ ~IsExpired(g) /\ IsApproved(g)
        /\ \E t \in FreshTokens :
             Begin(c, [cmd |-> "exchange", grant |-> g, user |-> grants[g], token |-> t])

End(c) == txn' = [txn EXCEPT ![c] = None]

(* Mutant: approving upserts the grant.                                    *)
AlwaysThere(g) == TRUE

(* The statement's RETURNING answers with a row; if not, the command fails *)
(* with DeviceGrantNotFound and its transaction rolls back.                *)
StillThere(g) == Exists(g)

(* updateOne: status and user_id, by id; user_id references users.         *)
CommitApprove(c) ==
  /\ txn[c] \in ApproveTxn
  /\ txn[c].user \in users
  /\ StillThere(txn[c].grant)
  /\ grants' = [grants EXCEPT ![txn[c].grant] = txn[c].user]
  /\ approvals' = approvals \union {[grant |-> txn[c].grant, user |-> txn[c].user]}
  /\ End(c)
  /\ UNCHANGED <<users, lapsed, started, tokens>>

(* Mutant: the grant is marked, not deleted.                               *)
MarkedConsumed(g) == [grants EXCEPT ![g] = "consumed"]

Consumed(g) == [grants EXCEPT ![g] = NoRow]

(* The token is inserted and the grant deleted in one transaction; the     *)
(* DELETE waits for whoever locked the row, and finds it or fails.         *)
CommitExchange(c) ==
  /\ txn[c] \in ExchangeTxn
  /\ txn[c].user \in users
  /\ StillThere(txn[c].grant)
  /\ tokens' = tokens \union {[id |-> txn[c].token, user |-> txn[c].user, grant |-> txn[c].grant]}
  /\ grants' = Consumed(txn[c].grant)
  /\ End(c)
  /\ UNCHANGED <<users, lapsed, started, approvals>>

(* A poll of a lapsed grant deletes it and then fails with                 *)
(* DeviceGrantExpired; the failure rolls the deletion back.                *)
FailExpired(c) ==
  /\ txn[c] \in ExpireTxn
  /\ End(c)
  /\ UNCHANGED <<users, grants, lapsed, started, tokens, approvals>>

(* Any other failure before the commit.                                    *)
Abort(c) ==
  /\ txn[c] \in ApproveTxn \union ExchangeTxn
  /\ End(c)
  /\ UNCHANGED <<users, grants, lapsed, started, tokens, approvals>>

(* Deleting a user cascades to the grants they approved and their tokens.  *)
DeleteUser(u) ==
  /\ u \in users
  /\ users' = users \ {u}
  /\ grants' = [g \in Grant |-> IF grants[g] = u THEN NoRow ELSE grants[g]]
  /\ tokens' = {k \in tokens : k.user # u}
  /\ UNCHANGED <<lapsed, started, txn, approvals>>

(* Time passes expires_at.                                                 *)
Lapse(g) ==
  /\ Exists(g) /\ ~IsExpired(g)
  /\ lapsed' = lapsed \union {g}
  /\ UNCHANGED <<users, grants, started, tokens, txn, approvals>>
-----------------------------------------------------------------------------
Command(c) ==
  \/ \E u \in User, g \in Grant : ReadApprove(c, u, g)
  \/ \E g \in Grant : ReadPoll(c, g)
  \/ CommitApprove(c) \/ CommitExchange(c) \/ FailExpired(c) \/ Abort(c)

Next == \/ \E c \in Caller : Command(c)
        \/ \E g \in Grant : Start(g) \/ Lapse(g)
        \/ \E u \in User : DeleteUser(u)

Spec == Init /\ [][Next]_vars
-----------------------------------------------------------------------------
(* Properties.                                                             *)

(* However polls race, one grant yields one token (poll-device-grant       *)
(* .handler.ts: "a token can never be minted twice from one grant").       *)
OneTokenPerGrant == \A j, k \in tokens : j.grant = k.grant => j = k

(* A token acts for somebody who approved its grant, even when others      *)
(* approve the same grant between the poll's read and its commit.          *)
TokenForApprover ==
  \A k \in tokens : [grant |-> k.grant, user |-> k.user] \in approvals

(* An approval that overlaps the exchange does not bring the grant back.   *)
ConsumedStaysConsumed == [][\A g \in started : ~Exists(g) => ~Exists(g)']_vars

StageOf(g) == IF g \notin started THEN "new" ELSE IF Exists(g) THEN "open" ELSE "over"
ApproversOf(g) == {u \in User : [grant |-> g, user |-> u] \in approvals}

(* Polls, approvals and deletions, whatever they read before, implement    *)
(* Grants: a grant is open once, and becomes one token of an approver.     *)
Abstract == INSTANCE Grants WITH
  stage <- [g \in Grant |-> StageOf(g)],
  approvers <- [g \in Grant |-> ApproversOf(g)]
ImplementsGrants == Abstract!Spec

(* The inductive strengthening.                                            *)

(* What was read is what some approval wrote, and a token's grant is gone. *)
ReadSound ==
  /\ \A g \in Grant : IsApproved(g) => [grant |-> g, user |-> grants[g]] \in approvals
  /\ \A c \in Caller : txn[c] \in ExchangeTxn =>
       [grant |-> txn[c].grant, user |-> txn[c].user] \in approvals
  /\ \A c \in Caller : txn[c] # None => txn[c].grant \in started
  /\ \A g \in Grant : Exists(g) => g \in started
  /\ \A k \in tokens : k.grant \in started /\ ~Exists(k.grant)

(* The ids of tokens, minted and to be minted, differ.                     *)
IdsSound ==
  \A c \in Caller : txn[c] \in ExchangeTxn =>
    /\ \A k \in tokens : k.id # txn[c].token
    /\ \A d \in Caller \ {c} : txn[d] \in ExchangeTxn => txn[d].token # txn[c].token

IInv == TypeOK /\ ReadSound /\ IdsSound /\ OneTokenPerGrant /\ TokenForApprover
=============================================================================
