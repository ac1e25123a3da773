----------------------------- MODULE Invitations -----------------------------
(***************************************************************************)
(* Invitations of one organization                                         *)
(* (packages/server/src/modules/organization).                             *)
(*                                                                         *)
(* A command reads an aggregate, computes its successor in memory and      *)
(* writes the whole row back by id: a Read step and a Commit step, with    *)
(* other commands in between (the driver opens READ COMMITTED              *)
(* transactions, nothing locks or versions the row it read).  The email of *)
(* an issue or reissue is an after-commit reaction, which reads the row    *)
(* back; that it runs at most once per event is Reactions' promise.        *)
(***************************************************************************)
CONSTANTS InvId,      \* invitation ids
          Email,      \* invitee addresses
          User,       \* accounts
          SuperAdmin, \* accounts that may not join an organization
          Caller,     \* requests in progress
          Token,      \* 256 random bits each; bound: as many as are ever stored
          NoRow,      \* "no such row"
          None        \* "no transaction", "no user" or "no token"

ASSUME SuperAdminAssumption == SuperAdmin \subseteq User
(* acceptedAt and revokedAt exclude each other: whoever writes one, writes *)
(* the other as NULL.                                                      *)
Row == [email : Email, token : Token, state : {"open", "accepted", "revoked"}]

RowTxn == [cmd : {"issue", "reissue", "revoke", "accept"}, inv : InvId,
           new : Row, user : User \union {None}]
LeaveTxn == [cmd : {"leave"}, user : User]

Event == [inv : InvId, token : Token]

ASSUME NoRowAssumption == NoRow \notin Row
ASSUME NoneAssumption == None \notin RowTxn \union LeaveTxn \union Token

VARIABLES
  rows,     \* organization.invitations
  members,  \* organization.memberships
  used,     \* tokens stored so far
  lapsed,   \* tokens whose expires_at has passed
  txn,      \* txn[c]: c's open transaction
  unraced,  \* history: callers since whose read nobody committed
  due,      \* after-commit reactions: the InvitationIssued and InvitationReissued events
  letter,   \* letter[t]: what the reaction to t's event read back, None before it did
  mailed,   \* tokens sent to the invitee
  reported, \* events whose email was given up and reported
  retired   \* history: tokens a reissue replaced

mailVars == <<due, letter, mailed, reported>>
vars == <<rows, members, used, lapsed, txn, unraced, mailVars, retired>>

TypeOK ==
  /\ rows \in [InvId -> Row \union {NoRow}]
  /\ members \subseteq User
  /\ lapsed \subseteq Token /\ used \subseteq Token
  /\ txn \in [Caller -> RowTxn \union LeaveTxn \union {None}]
  /\ unraced \subseteq Caller
  /\ due \subseteq Event /\ reported \subseteq Event
  /\ letter \in [Token -> Token \union {None}]
  /\ mailed \subseteq Token /\ retired \subseteq Token

Init ==
  /\ rows = [i \in InvId |-> NoRow]
  /\ members = {} /\ used = {} /\ lapsed = {} /\ due = {} /\ mailed = {} /\ reported = {} /\ retired = {}
  /\ txn = [c \in Caller |-> None] /\ unraced = {}
  /\ letter = [t \in Token |-> None]
-----------------------------------------------------------------------------
(* The aggregate.                                                          *)

Exists(i) == rows[i] # NoRow

(* Mutant: a revoked invitation passes for open.                           *)
IsNotAccepted(row) == row.state # "accepted"

IsOpen(row) == row.state = "open"

IsExpired(row) == row.token \in lapsed

Revoked(row) == [row EXCEPT !.state = "revoked"]
Accepted(row) == [row EXCEPT !.state = "accepted"]
Reissued(row, t) == [row EXCEPT !.token = t]
-----------------------------------------------------------------------------
(* The commands' reads, and what they decide on them.                      *)

Begin(c, cmd, i, row, u) ==
  /\ txn[c] = None
  /\ txn' = [txn EXCEPT ![c] = [cmd |-> cmd, inv |-> i, new |-> row, user |-> u]]
  /\ unraced' = unraced \union {c}
  /\ UNCHANGED <<rows, members, used, lapsed, mailVars, retired>>

(* Random tokens never meet.                                               *)
FreshTokens == {t \in Token \ used : \A c \in Caller :
                                       txn[c] \in RowTxn => txn[c].new.token # t}

(* Mutant: inviting looks for no invitation to reissue.                    *)
NoInvites(e) == {}

OpenInvites(e) == {i \in InvId : Exists(i) /\ rows[i].email = e /\ IsOpen(rows[i])}

(* A random UUID: no row and no other transaction has it.                  *)
UnusedIds == {i \in InvId : ~Exists(i) /\ \A c \in Caller :
                              txn[c] \in RowTxn => txn[c].inv # i}

(* inviteUser: reissue the open invitation of this address, or issue one.  *)
ReadInvite(c, e) ==
  \E t \in FreshTokens :
    \/ \E i \in OpenInvites(e) : Begin(c, "reissue", i, Reissued(rows[i], t), None)
    \/ /\ OpenInvites(e) = {}
       /\ \E i \in UnusedIds :
            Begin(c, "issue", i, [email |-> e, token |-> t, state |-> "open"], None)

ReadResend(c, i) ==
  /\ Exists(i) /\ IsOpen(rows[i])
  /\ \E t \in FreshTokens : Begin(c, "reissue", i, Reissued(rows[i], t), None)

ReadRevoke(c, i) ==
  /\ Exists(i) /\ IsOpen(rows[i])
  /\ Begin(c, "revoke", i, Revoked(rows[i]), None)

(* The caller presents a token that reached somebody.                      *)
ReadAccept(c, u, i) ==
  /\ u \notin SuperAdmin
  /\ Exists(i) /\ rows[i].token \in mailed
  /\ IsOpen(rows[i]) /\ ~IsExpired(rows[i])
  /\ Begin(c, "accept", i, Accepted(rows[i]), u)

(* leaveOrganization, and removeMember of the same membership.             *)
ReadLeave(c, u) ==
  /\ txn[c] = None
  /\ u \in members
  /\ txn' = [txn EXCEPT ![c] = [cmd |-> "leave", user |-> u]]
  /\ unraced' = unraced \union {c}
  /\ UNCHANGED <<rows, members, used, lapsed, mailVars, retired>>
-----------------------------------------------------------------------------
(* The commands' writes, with their commit.                                *)

(* The commit of c: whatever others have read is no longer current.        *)
End(c) ==
  /\ txn' = [txn EXCEPT ![c] = None]
  /\ unraced' = {}

(* Mutant: updateOne leaves the token column out.                          *)
PersistedWithoutToken(c) ==
  IF txn[c].cmd = "issue" THEN txn[c].new
  ELSE [txn[c].new EXCEPT !.token = rows[txn[c].inv].token]

(* insertOne, and updateOne: every mutable column, by id.                  *)
Persisted(c) == txn[c].new

(* Mutant: nobody subscribes to InvitationReissued.                        *)
AnnouncedOnIssue(c) ==
  IF txn[c].cmd = "issue" THEN {[inv |-> txn[c].inv, token |-> txn[c].new.token]} ELSE {}

Announced(c) ==
  IF txn[c].cmd \in {"issue", "reissue"} THEN {[inv |-> txn[c].inv, token |-> txn[c].new.token]}
  ELSE {}

CommitRow(c) ==
  /\ txn[c] \in RowTxn
  /\ rows' = [rows EXCEPT ![txn[c].inv] = Persisted(c)]
  /\ members' = IF txn[c].cmd = "accept" THEN members \union {txn[c].user} ELSE members
  /\ due' = due \union Announced(c)
  /\ retired' = IF txn[c].cmd = "reissue" THEN retired \union {rows[txn[c].inv].token}
                ELSE retired
  /\ used' = used \union {txn[c].new.token}
  /\ End(c)
  /\ UNCHANGED <<lapsed, letter, mailed, reported>>

(* deleteOne fails when the membership is gone.                            *)
CommitLeave(c) ==
  /\ txn[c] \in LeaveTxn
  /\ txn[c].user \in members
  /\ members' = members \ {txn[c].user}
  /\ End(c)
  /\ UNCHANGED <<rows, used, lapsed, mailVars, retired>>

Abort(c) ==
  /\ txn[c] # None
  /\ txn' = [txn EXCEPT ![c] = None]
  /\ unraced' = unraced \ {c}
  /\ UNCHANGED <<rows, members, used, lapsed, mailVars, retired>>
-----------------------------------------------------------------------------
(* sendInvitationEmail: read the invitation back, then send.  Invitations  *)
(* are never deleted, so the row is always there.                          *)
ReadBack(e) ==
  /\ e \in due
  /\ letter[e.token] = None
  /\ letter' = [letter EXCEPT ![e.token] = rows[e.inv].token]
  /\ UNCHANGED <<rows, members, used, lapsed, txn, unraced, due, mailed, reported, retired>>

Send(e) ==
  /\ e \in due
  /\ letter[e.token] # None
  /\ mailed' = mailed \union {letter[e.token]}
  /\ letter' = [letter EXCEPT ![e.token] = None]
  /\ due' = due \ {e}
  /\ UNCHANGED <<rows, members, used, lapsed, txn, unraced, reported, retired>>

(* The attempt fails, before or after the mail server took the message,    *)
(* and is delivered again or, after the last retry, reported.              *)
FailSend(e) ==
  /\ e \in due
  /\ letter[e.token] # None
  /\ mailed' \in {mailed, mailed \union {letter[e.token]}}
  /\ letter' = [letter EXCEPT ![e.token] = None]
  /\ \/ UNCHANGED <<due, reported>>
     \/ due' = due \ {e} /\ reported' = reported \union {e}
  /\ UNCHANGED <<rows, members, used, lapsed, txn, unraced, retired>>

(* Time passes the expires_at of an open invitation.                       *)
Lapse(i) ==
  /\ Exists(i) /\ IsOpen(rows[i]) /\ ~IsExpired(rows[i])
  /\ lapsed' = lapsed \union {rows[i].token}
  /\ UNCHANGED <<rows, members, used, txn, unraced, mailVars, retired>>
-----------------------------------------------------------------------------
Command(c) ==
  \/ \E e \in Email : ReadInvite(c, e)
  \/ \E i \in InvId : ReadResend(c, i) \/ ReadRevoke(c, i)
  \/ \E i \in InvId, u \in User : ReadAccept(c, u, i)
  \/ \E u \in User : ReadLeave(c, u)
  \/ CommitRow(c) \/ CommitLeave(c) \/ Abort(c)

Next == \/ \E c \in Caller : Command(c)
        \/ \E e \in due : ReadBack(e) \/ Send(e) \/ FailSend(e)
        \/ \E i \in InvId : Lapse(i)

Spec == Init /\ [][Next]_vars
-----------------------------------------------------------------------------
(* Properties.                                                             *)

Open(i) == Exists(i) /\ rows[i].state = "open"
Terminal(i) == Exists(i) /\ rows[i].state # "open"

(* A command that no other commit overtook leaves accepted and revoked     *)
(* invitations as they are (invitation.root.ts: acceptedAt and revokedAt   *)
(* are terminal).                                                          *)
TerminalUnlessRaced ==
  [][\A c \in unraced : txn'[c] = None =>
       \A i \in InvId : Terminal(i) => rows'[i] = rows[i]]_vars

OneOpen == \A i, j \in InvId : Open(i) /\ Open(j) /\ rows[i].email = rows[j].email => i = j

(* Inviting an address again reissues its open invitation: the look-up     *)
(* keeps one open invitation per address, unless two commands race.        *)
OneOpenUnlessRaced == [][\A c \in unraced : txn'[c] = None => (OneOpen => OneOpen')]_vars

(* Whoever becomes a member uses up an invitation that was open until      *)
(* then, unless commands race.                                             *)
JoinUsesUpInvitation ==
  [][\A c \in unraced : txn'[c] = None => \A u \in members' \ members :
       \E i \in InvId : Open(i) /\ rows'[i].state = "accepted"]_vars

(* Whatever commands race, a link that was rotated out opens nothing: the  *)
(* token of an open invitation is one no reissue replaced.                 *)
RetiredLinkStaysDead ==
  \A i \in InvId : Open(i) => rows[i].token \notin retired

(* The token that opens an invitation reaches the invitee: it was sent, or *)
(* its own event's email is still due or was reported, whichever emails of *)
(* earlier tokens are under way.                                           *)
CurrentLinkDelivered ==
  \A i \in InvId : Open(i) =>
    \/ rows[i].token \in mailed
    \/ [inv |-> i, token |-> rows[i].token] \in due \union reported

(* An issue and a reissue publish one event each, for its own token.  Its  *)
(* email is a reaction as Reactions promises them, and Outbox delivers     *)
(* them: once, and to a committed event only.                              *)
Sent(t) == t \in used /\ \A e \in due \union reported : e.token # t
Emails == INSTANCE Reactions WITH
  Envelope <- Token, Publisher <- Token, Emits <- [t \in Token |-> {t}],
  published <- used,
  effects <- [t \in Token |-> IF Sent(t) THEN 1 ELSE 0]
EmailsAreReactions == Emails!Spec

(* The inductive strengthening.                                            *)

Writes(c) == txn[c] \in RowTxn

(* What an open transaction will write: a fresh token, or the end of an    *)
(* invitation that exists.                                                 *)
TxnSound ==
  \A c \in Caller : Writes(c) =>
    LET x == txn[c]
    IN /\ x.cmd \in {"issue", "reissue"} =>
            /\ x.new.token \notin used
            /\ \A d \in Caller \ {c} : Writes(d) => txn[d].new.token # x.new.token
       /\ x.cmd \in {"revoke", "accept"} => x.new.token \in used /\ x.new.state # "open"
       /\ x.cmd = "accept" => x.new.state = "accepted" /\ x.user \in User
       /\ x.cmd = "issue" => /\ ~Exists(x.inv)
                             /\ \A d \in Caller \ {c} : Writes(d) => txn[d].inv # x.inv
       /\ x.cmd # "issue" => Exists(x.inv)

(* What nobody overtook was decided on what is still there.                *)
UnracedSound ==
  /\ \A c \in unraced : txn[c] # None
  /\ \A c \in unraced : Writes(c) =>
       LET x == txn[c]
       IN IF x.cmd = "issue" THEN \A j \in InvId : Open(j) => rows[j].email # x.new.email
          ELSE Open(x.inv) /\ rows[x.inv].email = x.new.email

(* Tokens outside used are in no row, no email and no event.               *)
UsedSound ==
  /\ \A i \in InvId : Exists(i) => rows[i].token \in used
  /\ retired \subseteq used
  /\ \A e \in due : e.token \in used /\ Exists(e.inv)
  /\ \A t \in Token \ used : letter[t] = None

(* An event that was reported is no longer due.                            *)
ReportedSound ==
  \A e \in reported : e.token \in used /\ \A d \in due : d.token # e.token

(* A token belongs to one invitation, in its row, its events and the       *)
(* transactions about to write it.                                         *)
Held(i, t) == \/ Exists(i) /\ rows[i].token = t
              \/ \E c \in Caller : Writes(c) /\ txn[c].inv = i /\ txn[c].new.token = t
              \/ [inv |-> i, token |-> t] \in due
OwnedOnce == \A i, j \in InvId, t \in Token : Held(i, t) /\ Held(j, t) => i = j

(* The reaction to the current token's event has read that token.          *)
LetterCurrent ==
  \A e \in due : Open(e.inv) /\ rows[e.inv].token = e.token => letter[e.token] \in {None, e.token}

IInv == /\ TypeOK /\ TxnSound /\ UnracedSound /\ UsedSound /\ OwnedOnce /\ LetterCurrent
        /\ ReportedSound /\ RetiredLinkStaysDead /\ CurrentLinkDelivered

(* What invitation.root.ts says without qualification.                     *)
TerminalIsFinal == [][\A i \in InvId : Terminal(i) => rows'[i] = rows[i]]_vars

(* What send-invitation-email.handler.ts says: an invitation revoked       *)
(* between the commit and the email leaves nothing to send.                *)
NoLetterForRevoked ==
  [][\A e \in due : letter[e.token] = None /\ letter'[e.token] # None =>
       rows[e.inv].state # "revoked"]_vars
=============================================================================
