------------------------------- MODULE Sessions -------------------------------
(***************************************************************************)
(* The life of a credential: browser sessions, whose expiry slides with    *)
(* use up to a cap, and API tokens, whose expiry is fixed                  *)
(* (packages/server/src/modules/auth, packages/jobs).                      *)
(*                                                                         *)
(* A request is authenticated first and stamps its credential afterwards,  *)
(* off the critical path and in two statements; logout, the hourly purge   *)
(* and the deletion of the user run in between.  One clock is assumed.     *)
(***************************************************************************)
EXTENDS Naturals

CONSTANTS Session, Token, \* ids of sessions and of API tokens
          Request,        \* authenticated requests
          Ttl,            \* SESSION_TTL_SECONDS
          AbsoluteTtl,    \* SESSION_ABSOLUTE_TTL_SECONDS
          TokenTtl,       \* expiresInDays
          Threshold,      \* SESSION_ and API_TOKEN_TOUCH_THRESHOLD_SECONDS
          Grace,          \* the 7 days of the purge
          LastStart,      \* bound: no credential is issued after this time
          MaxTime,        \* bound: the clock stops here
          Never,          \* revoked_at IS NULL
          NoRow,          \* "no such row"
          None            \* "no request"

Credential == Session \union Token
Time == 0..MaxTime
Row == [expires : Time, absolute : Time, used : Time, revoked : Time \union {Never}]

(* A request that was authenticated at since; before it reads the row, and *)
(* before it writes a stamp taken at the time it read it.                  *)
Touch == [step : {"read"}, id : Credential, since : Time]
           \union [step : {"write"}, id : Credential, since : Time, at : Time]

ASSUME DurationAssumption == Ttl \in Nat /\ AbsoluteTtl \in Nat /\ TokenTtl \in Nat /\ Grace \in Nat
ASSUME ThresholdAssumption == Threshold \in Nat \ {0}
ASSUME KindAssumption == Session \intersect Token = {}
ASSUME BoundAssumption ==
  /\ LastStart \in Nat /\ MaxTime \in Nat
  /\ \A d \in {Ttl, AbsoluteTtl, TokenTtl} : LastStart + d < MaxTime
ASSUME NeverAssumption == Never \notin Nat
ASSUME NoRowAssumption == NoRow \notin Row
ASSUME NoneAssumption == None \notin Touch

VARIABLES
  now,
  rows,      \* auth.sessions and auth.api_tokens
  request,   \* request[r]: what r still has to stamp
  born,      \* history: born[c]: when c was issued; Never if it was not.  Ids are not reused
  kept,      \* history: kept[s]: the latest authentication whose stamp was settled
  lag,       \* history: lag[s]: how late a stamp was, at most, that replaced a newer one
  ended      \* history: sessions that were logged out, or deleted with their user

history == <<born, kept, lag, ended>>
vars == <<now, rows, request, history>>

TypeOK ==
  /\ now \in Time
  /\ rows \in [Credential -> Row \union {NoRow}]
  /\ request \in [Request -> Touch \union {None}]
  /\ born \in [Credential -> Time \union {Never}]
  /\ kept \in [Session -> Time] /\ lag \in [Session -> Time]
  /\ ended \subseteq Session

Init ==
  /\ now = 0
  /\ rows = [c \in Credential |-> NoRow]
  /\ request = [r \in Request |-> None]
  /\ born = [c \in Credential |-> Never]
  /\ kept = [s \in Session |-> 0] /\ lag = kept
  /\ ended = {}

Earlier(s, t) == IF s < t THEN s ELSE t
Later(s, t) == IF s < t THEN t ELSE s
-----------------------------------------------------------------------------
(* Issuing, revoking, deleting.                                            *)

Issue(c, row) ==
  /\ born[c] = Never /\ now =< LastStart
  /\ rows' = [rows EXCEPT ![c] = row]
  /\ born' = [born EXCEPT ![c] = now]
  /\ kept' = [s \in Session |-> IF s = c THEN now ELSE kept[s]]
  /\ UNCHANGED <<now, request, lag, ended>>

(* signIn's new session.                                                   *)
SignIn(s) == Issue(s, [expires |-> now + Ttl, absolute |-> now + AbsoluteTtl,
                       used |-> now, revoked |-> Never])

(* mintApiToken.                                                           *)
Mint(t) == Issue(t, [expires |-> now + TokenTtl, absolute |-> now + TokenTtl,
                     used |-> now, revoked |-> Never])

(* WHERE id = ... AND revoked_at IS NULL.                                  *)
StillOpen(c) == rows[c] # NoRow /\ rows[c].revoked = Never

Ended(c) == ended' = ended \union ({c} \intersect Session)

(* Logout, and the revocation of an API token by its owner.                *)
Revoke(c) ==
  /\ StillOpen(c)
  /\ rows' = [rows EXCEPT ![c].revoked = now]
  /\ Ended(c)
  /\ UNCHANGED <<now, request, born, kept, lag>>

(* The user is deleted, and its credentials with it.                       *)
Cascade(c) ==
  /\ rows[c] # NoRow
  /\ rows' = [rows EXCEPT ![c] = NoRow]
  /\ Ended(c)
  /\ UNCHANGED <<now, request, born, kept, lag>>

(* purgeExpiredSessions.                                                   *)
Purgeable(row) == row.expires < now \/ (row.revoked # Never /\ row.revoked + Grace < now)

PurgeDue == \E s \in Session : rows[s] # NoRow /\ Purgeable(rows[s])

Purge ==
  /\ PurgeDue
  /\ rows' = [c \in Credential |->
       IF c \in Session /\ rows[c] # NoRow /\ Purgeable(rows[c]) THEN NoRow ELSE rows[c]]
  /\ UNCHANGED <<now, request, history>>
-----------------------------------------------------------------------------
(* A request.                                                              *)

(* Mutant: revoked_at is not looked at.                                    *)
Unexpired(c) == rows[c] # NoRow /\ now < rows[c].expires /\ now < rows[c].absolute

(* What findSession and findApiTokenByHash accept.                         *)
Valid(c) == StillOpen(c) /\ now < rows[c].expires /\ now < rows[c].absolute

Goto(r, x) == request' = [request EXCEPT ![r] = x]

(* The middleware lets the request through, and leaves its stamp to do.    *)
Authenticate(r, c) ==
  /\ request[r] = None
  /\ Valid(c)
  /\ Goto(r, [step |-> "read", id |-> c, since |-> now])
  /\ UNCHANGED <<now, rows, history>>

At(r, step) == request[r] # None /\ request[r].step = step

Settled(r) ==
  kept' = [s \in Session |-> IF s = request[r].id THEN Later(kept[s], request[r].since) ELSE kept[s]]

(* Mutant: the throttle is compared with the wrong side of its boundary.   *)
FreshOrOnThreshold(row) == now - row.used =< Threshold

(* The row was stamped less than the threshold ago.                        *)
Fresh(row) == now - row.used < Threshold

(* touchSession and touchApiToken up to the decision to write.             *)
ReadTouch(r) ==
  /\ At(r, "read")
  /\ LET c == request[r].id
     IN \/ ~StillOpen(c) /\ Goto(r, None) /\ UNCHANGED kept
        \/ StillOpen(c) /\ Fresh(rows[c]) /\ Goto(r, None) /\ Settled(r)
        \/ /\ StillOpen(c) /\ ~Fresh(rows[c])
           /\ Goto(r, [step |-> "write", id |-> c, since |-> request[r].since, at |-> now])
           /\ UNCHANGED kept
  /\ UNCHANGED <<now, rows, born, lag, ended>>

(* Mutant: the cap is not applied.                                         *)
TouchedUncapped(c, at) ==
  [rows[c] EXCEPT !.used = at, !.expires = IF c \in Session THEN at + Ttl ELSE @]

(* Mutant: the touch issues the session anew.                              *)
TouchedAnew(c, at) ==
  [rows[c] EXCEPT !.used = at, !.expires = IF c \in Session THEN at + Ttl ELSE @,
                  !.absolute = IF c \in Session THEN at + AbsoluteTtl ELSE @]

Touched(c, at) ==
  [rows[c] EXCEPT !.used = at,
                  !.expires = IF c \in Session THEN Earlier(at + Ttl, rows[c].absolute) ELSE @]

(* Mutant: the update has no AND revoked_at IS NULL.                       *)
StillExists(c) == rows[c] # NoRow

TouchLands(c) == StillOpen(c)

WriteTouch(r) ==
  /\ At(r, "write")
  /\ LET c == request[r].id
         at == request[r].at
     IN \/ ~TouchLands(c) /\ UNCHANGED <<rows, kept, lag>>
        \/ /\ TouchLands(c)
           /\ rows' = [rows EXCEPT ![c] = Touched(c, at)]
           /\ lag' = [s \in Session |->
                IF s = c /\ at < rows[c].used THEN Later(lag[s], now - at) ELSE lag[s]]
           /\ Settled(r)
  /\ Goto(r, None)
  /\ UNCHANGED <<now, born, ended>>

(* The database is unavailable, or the invocation ends: nothing is         *)
(* written, and nobody is told.                                            *)
Drop(r) ==
  /\ request[r] # None
  /\ Goto(r, None)
  /\ UNCHANGED <<now, rows, history>>
-----------------------------------------------------------------------------
Tick ==
  /\ now < MaxTime
  /\ now' = now + 1
  /\ UNCHANGED <<rows, request, history>>

Stamp(r) == (\E c \in Credential : Authenticate(r, c)) \/ ReadTouch(r) \/ WriteTouch(r) \/ Drop(r)

Next ==
  \/ Tick \/ Purge
  \/ \E s \in Session : SignIn(s)
  \/ \E t \in Token : Mint(t)
  \/ \E c \in Credential : Revoke(c) \/ Cascade(c)
  \/ \E r \in Request : Stamp(r)

Spec == Init /\ [][Next]_vars

(* The clock runs, and so does the hourly purge.                           *)
FairSpec == Spec /\ WF_vars(Tick) /\ WF_vars(Purge)

(* What this comes to: the clock reaches its end, and a purge that stays   *)
(* due is made again and again.                                            *)
ClockRunsOut == <>(now = MaxTime)
PurgeRunsOn == []<>~PurgeDue \/ []<><<Purge>>_vars
-----------------------------------------------------------------------------
(* Properties.                                                             *)

Lifetime(c) == IF c \in Session THEN AbsoluteTtl ELSE TokenTtl

(* However late and in whatever order stamps are written, also to a row    *)
(* that has expired meanwhile, no request is let through on a credential   *)
(* older than its lifetime.                                                *)
NoneOutlivesCap ==
  \A r \in Request : request[r] # None =>
    /\ born[request[r].id] # Never
    /\ request[r].since < born[request[r].id] + Lifetime(request[r].id)

(* A session in use does not expire, nor does the purge take it: after a   *)
(* request at time t it is good until t + Ttl, or up to the cap, unless it *)
(* is logged out or its user deleted.  The throttle costs it less than the *)
(* threshold, and a stamp written over a newer one costs it no more than   *)
(* the time that stamp was under way.                                      *)
GoodUntil(s) == IF rows[s] = NoRow THEN now ELSE rows[s].expires
InUseStaysSignedIn ==
  \A s \in Session : born[s] # Never /\ s \notin ended =>
    \/ born[s] + AbsoluteTtl =< GoodUntil(s)
    \/ kept[s] + Ttl < GoodUntil(s) + Threshold + lag[s]

(* Why: a row keeps the cap it was issued with and its expiry follows its  *)
(* last stamp; a stamp is never from the future nor from before its        *)
(* request was let through; what is marked revoked was logged out.         *)
RowSound(c) == rows[c] # NoRow =>
  /\ born[c] # Never /\ born[c] =< LastStart /\ rows[c].absolute = born[c] + Lifetime(c)
  /\ rows[c].used =< now
  /\ c \in Session =>
       /\ rows[c].revoked # Never => c \in ended
       /\ rows[c].expires =< born[c] + Later(Ttl, AbsoluteTtl)
       /\ rows[c].expires =< rows[c].used + Ttl
       /\ rows[c].absolute =< rows[c].expires \/ rows[c].expires = rows[c].used + Ttl

RequestSound(r) == request[r] # None =>
  /\ born[request[r].id] # Never
  /\ request[r].since < born[request[r].id] + Lifetime(request[r].id)
  /\ request[r].since =< now
  /\ request[r].step = "write" => request[r].since =< request[r].at /\ request[r].at =< now

IInv ==
  /\ TypeOK /\ \A s \in Session : kept[s] =< now
  /\ \A c \in Credential : RowSound(c)
  /\ \A r \in Request : RequestSound(r)
  /\ InUseStaysSignedIn

(* Logout is final: from then on the row is not written, only deleted.     *)
LogoutIsFinal ==
  [][\A c \in Credential : rows[c] # NoRow /\ rows[c].revoked # Never =>
       rows'[c] \in {rows[c], NoRow}]_vars

StateOf(c) == IF born[c] = Never THEN "unissued" ELSE IF StillOpen(c) THEN "open" ELSE "over"
UntilOf(c) == IF born[c] = Never THEN 0 ELSE born[c] + Lifetime(c)
UsedBy(r) == IF request[r] = None THEN None ELSE [id |-> request[r].id, since |-> request[r].since]

(* Sliding expiry, late stamps, purges and deletions together implement    *)
(* Credentials: what lets a request through was issued, is not over and is *)
(* younger than its lifetime.                                              *)
Abstract == INSTANCE Credentials WITH
  Longest <- [c \in Credential |-> Lifetime(c)],
  state <- [c \in Credential |-> StateOf(c)],
  until <- [c \in Credential |-> UntilOf(c)],
  using <- [r \in Request |-> UsedBy(r)]
ImplementsCredentials == Abstract!Spec

Kept(s) == rows[s] # NoRow

(* Every session's row is gone some day, however much it is used.          *)
EventuallyEvicted == \A s \in Session : Kept(s) ~> ~Kept(s)

(* Why: no stamp moves an expiry past the cap, so that a session as old as *)
(* that is purged next time.                                               *)
Overdue(s) == Kept(s) /\ born[s] + Later(Ttl, AbsoluteTtl) < now
OverdueIsPurgeable == \A s \in Session : Overdue(s) => Purgeable(rows[s])
=============================================================================
