---------------------------- MODULE SessionsProofs ----------------------------
(* Proofs about Sessions.                                                  *)
EXTENDS Sessions, TLAPS

(* What a request has left to do decides its fields.                       *)
LEMMA TouchKinds ==
  ASSUME NEW x \in Touch
  PROVE  /\ x.id \in Credential /\ x.since \in Time /\ x # None
         /\ x.step = "write" => x.at \in Time
BY NoneAssumption DEF Touch

(* A row's fields are times.                                               *)
LEMMA RowFields ==
  ASSUME TypeOK, NEW c \in Credential, rows[c] # NoRow
  PROVE  /\ rows[c] \in Row /\ rows[c].expires \in Time /\ rows[c].absolute \in Time
         /\ rows[c].used \in Time
BY DEF TypeOK, Row

(* So are the history's.                                                   *)
LEMMA HistoryFields ==
  ASSUME TypeOK, NEW s \in Session
  PROVE  kept[s] \in Nat /\ lag[s] \in Nat /\ (born[s] # Never => born[s] \in Nat)
BY BoundAssumption DEF TypeOK, Time, Credential

(* A lifetime is a number of ticks.                                        *)
LEMMA LifetimeNat == \A c : Lifetime(c) \in Nat
BY DurationAssumption DEF Lifetime

(* Nothing is issued at first.                                             *)
LEMMA IInvInit == Init => IInv
<1> SUFFICES ASSUME Init PROVE IInv OBVIOUS
<1>1. 0 \in Time BY BoundAssumption DEF Time
<1>2. TypeOK BY <1>1 DEF Init, TypeOK
<1>3. \A c \in Credential : RowSound(c) BY DEF Init, RowSound
<1>4. \A r \in Request : RequestSound(r) BY DEF Init, RequestSound
<1>5. InUseStaysSignedIn BY DEF Init, InUseStaysSignedIn, Credential
<1>6. \A s \in Session : kept[s] = 0 /\ now = 0 BY DEF Init
<1> QED BY <1>2, <1>3, <1>4, <1>5, <1>6 DEF IInv

(* A new credential's row: it was not issued before, so nothing refers to  *)
(* it yet.                                                                 *)
LEMMA IssueKeeps ==
  ASSUME IInv, NEW c \in Credential, NEW row \in Row, Issue(c, row),
         row.absolute = now + Lifetime(c), row.used = now, row.revoked = Never,
         c \in Session => row.expires = now + Ttl
  PROVE  IInv'
<1> USE DurationAssumption, ThresholdAssumption
<1>1. now \in Time /\ now \in Nat /\ row # NoRow BY NoRowAssumption DEF IInv, TypeOK, Time
<1>2. TypeOK' BY <1>1 DEF IInv, TypeOK, Issue
<1>3. /\ rows' = [rows EXCEPT ![c] = row] /\ born' = [born EXCEPT ![c] = now]
      /\ UNCHANGED <<now, request, lag, ended>>
      /\ kept' = [s \in Session |-> IF s = c THEN now ELSE kept[s]]
  BY DEF Issue
<1>4. ASSUME NEW d \in Credential PROVE RowSound(d)'
  <2>1. CASE d = c
    <3>1. rows'[d] = row /\ born'[d] = now /\ now' = now BY <1>3, <2>1 DEF IInv, TypeOK
    <3>2. now # Never BY <1>1, NeverAssumption
    <3>3. Ttl =< Later(Ttl, AbsoluteTtl) /\ Later(Ttl, AbsoluteTtl) \in Nat BY DEF Later
    <3>4. now =< LastStart BY DEF Issue
    <3> QED BY <1>1, <2>1, <3>1, <3>2, <3>3, <3>4 DEF RowSound, Lifetime
  <2>2. CASE d # c
    <3>1. rows'[d] = rows[d] /\ born'[d] = born[d] /\ now' = now BY <1>3, <2>2 DEF IInv, TypeOK
    <3> QED BY <1>3, <3>1 DEF IInv, RowSound, Lifetime
  <2> QED BY <2>1, <2>2
<1>5. ASSUME NEW r \in Request PROVE RequestSound(r)'
  <2>1. request[r] # None => request[r].id # c /\ request[r].id \in Credential
    BY TouchKinds DEF IInv, TypeOK, RequestSound, Issue
  <2>2. request'[r] = request[r] /\ now' = now BY <1>3
  <2>3. request[r] # None => born'[request[r].id] = born[request[r].id]
    BY <1>3, <2>1 DEF IInv, TypeOK
  <2> QED BY <2>2, <2>3 DEF IInv, RequestSound, Lifetime
<1>6. InUseStaysSignedIn'
  <2> SUFFICES ASSUME NEW s \in Session, born'[s] # Never, s \notin ended'
               PROVE  \/ born'[s] + AbsoluteTtl =< GoodUntil(s)'
                      \/ kept'[s] + Ttl < GoodUntil(s)' + Threshold + lag'[s]
    BY DEF InUseStaysSignedIn
  <2>1. s \in Credential BY DEF Credential
  <2>2. CASE s = c
    <3>1. rows'[s] = row /\ kept'[s] = now BY <1>3, <2>1, <2>2 DEF IInv, TypeOK
    <3>2. lag'[s] \in Nat BY <1>3 DEF IInv, TypeOK, Time
    <3> QED BY <1>1, <2>2, <3>1, <3>2 DEF GoodUntil
  <2>3. CASE s # c
    <3>1. rows'[s] = rows[s] /\ kept'[s] = kept[s] /\ born'[s] = born[s]
      BY <1>3, <2>1, <2>3 DEF IInv, TypeOK
    <3> QED BY <1>3, <3>1 DEF IInv, InUseStaysSignedIn, GoodUntil
  <2> QED BY <2>2, <2>3
<1>7. \A s \in Session : kept'[s] =< now' BY <1>1, <1>3 DEF IInv
<1> QED BY <1>2, <1>4, <1>5, <1>6, <1>7 DEF IInv

(* The same with nothing but rows taken away, or marked revoked, of        *)
(* sessions that ended or expired.                                         *)
LEMMA RowsKeep ==
  ASSUME IInv, UNCHANGED <<now, request, born, kept, lag>>,
         rows' \in [Credential -> Row \union {NoRow}],
         ended \subseteq ended', ended' \subseteq Session,
         \A c \in Credential : rows'[c] # NoRow =>
            /\ rows[c] # NoRow
            /\ rows'[c].expires = rows[c].expires
            /\ rows'[c].absolute = rows[c].absolute
            /\ rows'[c].used = rows[c].used
            /\ c \in Session /\ rows'[c].revoked # Never => c \in ended',
         \A s \in Session : rows[s] # NoRow /\ rows'[s] = NoRow =>
            s \in ended' \/ rows[s].expires < now
  PROVE  IInv'
<1>1. TypeOK' BY DEF IInv, TypeOK
<1>2. ASSUME NEW c \in Credential PROVE RowSound(c)'
  BY DEF IInv, RowSound, Lifetime
<1>3. ASSUME NEW r \in Request PROVE RequestSound(r)'
  BY DEF IInv, RequestSound, Lifetime
<1>4. InUseStaysSignedIn'
  <2> SUFFICES ASSUME NEW s \in Session, born[s] # Never, s \notin ended'
               PROVE  \/ born[s] + AbsoluteTtl =< GoodUntil(s)'
                      \/ kept[s] + Ttl < GoodUntil(s)' + Threshold + lag[s]
    BY DEF InUseStaysSignedIn
  <2>1. /\ s \in Credential /\ s \notin ended
        /\ \/ born[s] + AbsoluteTtl =< GoodUntil(s)
           \/ kept[s] + Ttl < GoodUntil(s) + Threshold + lag[s]
    BY DEF Credential, IInv, InUseStaysSignedIn
  <2>2. /\ born[s] \in Nat /\ kept[s] \in Nat /\ lag[s] \in Nat /\ now \in Nat
        /\ rows[s] # NoRow => rows[s].expires \in Nat
    BY <2>1, RowFields DEF IInv, TypeOK, Time
  <2>3. GoodUntil(s)' = GoodUntil(s) \/ GoodUntil(s) < GoodUntil(s)'
    BY <2>1 DEF GoodUntil
  <2>4. GoodUntil(s) \in Nat /\ GoodUntil(s)' \in Nat BY <2>1, <2>2 DEF GoodUntil
  <2> QED BY <2>1, <2>2, <2>3, <2>4, DurationAssumption, ThresholdAssumption
<1>5. \A s \in Session : kept'[s] =< now' BY DEF IInv
<1> QED BY <1>1, <1>2, <1>3, <1>4, <1>5 DEF IInv

(* Logout, purge and cascade are of that kind.                             *)
LEMMA RemovalKeeps ==
  ASSUME IInv, (\E c \in Credential : Revoke(c) \/ Cascade(c)) \/ Purge
  PROVE  IInv'
<1>1. ASSUME NEW c \in Credential, Revoke(c) PROVE IInv'
  <2>1. rows[c] \in Row BY <1>1, RowFields DEF Revoke, StillOpen, IInv
  <2>2. [rows[c] EXCEPT !.revoked = now] \in Row BY <2>1 DEF IInv, TypeOK, Row
  <2>3. rows' = [rows EXCEPT ![c] = [rows[c] EXCEPT !.revoked = now]] BY <1>1 DEF Revoke
  <2>4. rows' \in [Credential -> Row \union {NoRow}] BY <2>2, <2>3 DEF IInv, TypeOK
  <2>5. /\ UNCHANGED <<now, request, born, kept, lag>>
        /\ ended' = ended \union ({c} \intersect Session) /\ ended' \subseteq Session
    BY <1>1 DEF Revoke, Ended, IInv, TypeOK
  <2>6. \A d \in Credential : rows'[d] # NoRow =>
            /\ rows[d] # NoRow
            /\ rows'[d].expires = rows[d].expires
            /\ rows'[d].absolute = rows[d].absolute
            /\ rows'[d].used = rows[d].used
            /\ d # c => rows'[d] = rows[d]
    BY <1>1, <2>1, <2>3 DEF IInv, TypeOK, Row, Revoke, StillOpen
  <2>7. \A d \in Credential :
          rows'[d] # NoRow /\ d \in Session /\ rows'[d].revoked # Never => d \in ended'
    BY <2>5, <2>6 DEF IInv, RowSound
  <2>8. \A d \in Credential : rows[d] # NoRow => rows'[d] # NoRow
    BY <2>2, <2>3, NoRowAssumption DEF IInv, TypeOK
  <2> QED BY <2>4, <2>5, <2>6, <2>7, <2>8, RowsKeep DEF Credential
<1>2. ASSUME NEW c \in Credential, Cascade(c) PROVE IInv'
  <2>1. /\ UNCHANGED <<now, request, born, kept, lag>>
        /\ rows' \in [Credential -> Row \union {NoRow}]
        /\ \A d \in Credential : rows'[d] = IF d = c THEN NoRow ELSE rows[d]
        /\ ended' = ended \union ({c} \intersect Session) /\ ended' \subseteq Session
    BY <1>2 DEF Cascade, Ended, IInv, TypeOK
  <2>2. \A d \in Credential :
          rows'[d] # NoRow /\ d \in Session /\ rows'[d].revoked # Never => d \in ended'
    BY <2>1 DEF IInv, RowSound
  <2> QED BY <2>1, <2>2, RowsKeep DEF Credential
<1>3. ASSUME Purge PROVE IInv'
  <2>1. /\ UNCHANGED <<now, request, born, kept, lag, ended>>
        /\ rows' \in [Credential -> Row \union {NoRow}]
        /\ \A d \in Credential : rows'[d] \in {rows[d], NoRow}
    BY <1>3 DEF Purge, IInv, TypeOK, history
  <2>2. \A d \in Credential :
          rows'[d] # NoRow /\ d \in Session /\ rows'[d].revoked # Never => d \in ended'
    BY <2>1 DEF IInv, RowSound
  <2>3. ASSUME NEW s \in Session, rows[s] # NoRow, rows'[s] = NoRow
        PROVE  s \in ended' \/ rows[s].expires < now
    <3>1. s \in Credential BY DEF Credential
    <3>2. Purgeable(rows[s]) BY <1>3, <2>3, <3>1 DEF Purge
    <3> QED BY <2>1, <2>3, <3>1, <3>2 DEF Purgeable, IInv, RowSound
  <2>4. ended' \subseteq Session BY <2>1 DEF IInv, TypeOK
  <2> QED BY <2>1, <2>2, <2>3, <2>4, RowsKeep
<1> QED BY <1>1, <1>2, <1>3

(* A request that is done, dropped, or done without a write.               *)
LEMMA DoneKeeps ==
  ASSUME IInv, NEW r \in Request, Goto(r, None), UNCHANGED <<now, rows, history>>
  PROVE  IInv'
<1>1. TypeOK' BY DEF IInv, TypeOK, Goto, history
<1>2. ASSUME NEW c \in Credential PROVE RowSound(c)' BY DEF IInv, RowSound, Lifetime, history
<1>3. ASSUME NEW q \in Request PROVE RequestSound(q)'
  BY DEF IInv, TypeOK, RequestSound, Lifetime, history, Goto
<1>4. InUseStaysSignedIn' BY DEF IInv, InUseStaysSignedIn, GoodUntil, history
<1>5. \A s \in Session : kept'[s] =< now' BY DEF IInv, history
<1> QED BY <1>1, <1>2, <1>3, <1>4, <1>5 DEF IInv

(* A request moves on; what it carries must be sound.                      *)
LEMMA MoveKeeps ==
  ASSUME IInv, NEW r \in Request, NEW x \in Touch, Goto(r, x), UNCHANGED <<now, rows, history>>,
         born[x.id] # Never, x.since < born[x.id] + Lifetime(x.id), x.since =< now,
         x.step = "write" => x.since =< x.at /\ x.at =< now
  PROVE  IInv'
<1>1. TypeOK' BY DEF IInv, TypeOK, Goto, history
<1>2. ASSUME NEW c \in Credential PROVE RowSound(c)' BY DEF IInv, RowSound, Lifetime, history
<1>3. ASSUME NEW q \in Request PROVE RequestSound(q)'
  BY DEF IInv, TypeOK, RequestSound, Lifetime, history, Goto
<1>4. InUseStaysSignedIn' BY DEF IInv, InUseStaysSignedIn, GoodUntil, history
<1>5. \A s \in Session : kept'[s] =< now' BY DEF IInv, history
<1> QED BY <1>1, <1>2, <1>3, <1>4, <1>5 DEF IInv

(* The middleware accepts only what is short of its cap.                   *)
LEMMA AuthenticateKeeps ==
  ASSUME IInv, NEW r \in Request, NEW c \in Credential, Authenticate(r, c)
  PROVE  IInv'
<1> DEFINE x == [step |-> "read", id |-> c, since |-> now]
<1>1. now \in Time /\ now \in Nat BY DEF IInv, TypeOK, Time
<1>2. x \in Touch BY <1>1 DEF Touch
<1>3. born[c] # Never /\ now < born[c] + Lifetime(c)
  BY DEF Authenticate, Valid, StillOpen, IInv, RowSound
<1>4. Goto(r, x) /\ UNCHANGED <<now, rows, history>> BY DEF Authenticate
<1> QED BY <1>1, <1>2, <1>3, <1>4, MoveKeeps

(* A settled stamp: the promise to the request is kept if the row's expiry *)
(* reaches far enough.                                                     *)
LEMMA SettledKeeps ==
  ASSUME IInv, NEW r \in Request, request[r] # None, Settled(r),
         NEW s \in Session, NEW good \in Nat, NEW slack \in Nat, NEW cap \in Nat,
         cap =< good \/ kept[s] + Ttl < good + slack,
         s = request[r].id => cap =< good \/ request[r].since + Ttl < good + slack
  PROVE  cap =< good \/ kept'[s] + Ttl < good + slack
<1>1. kept' = [q \in Session |-> IF q = request[r].id THEN Later(kept[q], request[r].since) ELSE kept[q]]
  BY DEF Settled
<1>2. kept'[s] = kept[s] \/ (s = request[r].id /\ kept'[s] = request[r].since)
  BY <1>1 DEF Later
<1> QED BY <1>2

(* It is not from the future.                                              *)
LEMMA SettledPast ==
  ASSUME IInv, NEW r \in Request, request[r] # None, Settled(r)
  PROVE  kept' \in [Session -> Time] /\ \A s \in Session : kept'[s] =< now
<1>1. request[r].since \in Time /\ request[r].since =< now
  BY TouchKinds DEF IInv, TypeOK, RequestSound
<1> QED BY <1>1 DEF Settled, Later, IInv, TypeOK

(* A stamp that is not written because the row is fresh.                   *)
LEMMA ThrottleKeeps ==
  ASSUME IInv, NEW r \in Request, request[r] # None, Goto(r, None), Settled(r),
         StillOpen(request[r].id), Fresh(rows[request[r].id]),
         UNCHANGED <<now, rows, born, lag, ended>>
  PROVE  IInv'
<1> USE DurationAssumption, ThresholdAssumption
<1> DEFINE c == request[r].id
           t == request[r].since
<1>1. c \in Credential /\ t \in Time /\ t =< now /\ now \in Nat
  BY TouchKinds DEF IInv, TypeOK, RequestSound, Time
<1>2. kept' \in [Session -> Time] /\ \A s \in Session : kept'[s] =< now BY SettledPast
<1>3. TypeOK' BY <1>2 DEF IInv, TypeOK, Goto
<1>4. ASSUME NEW d \in Credential PROVE RowSound(d)' BY DEF IInv, RowSound, Lifetime
<1>5. ASSUME NEW q \in Request PROVE RequestSound(q)'
  BY DEF IInv, TypeOK, RequestSound, Lifetime, Goto
<1>6. InUseStaysSignedIn'
  <2> SUFFICES ASSUME NEW s \in Session, born[s] # Never, s \notin ended
               PROVE  \/ born[s] + AbsoluteTtl =< GoodUntil(s)
                      \/ kept'[s] + Ttl < GoodUntil(s) + Threshold + lag[s]
    BY DEF InUseStaysSignedIn, GoodUntil
  <2> DEFINE good == GoodUntil(s)
             slack == Threshold + lag[s]
             cap == born[s] + AbsoluteTtl
  <2>1. s \in Credential BY DEF Credential
  <2>2. /\ rows[s] # NoRow => rows[s].expires \in Nat /\ rows[s].absolute \in Nat /\ rows[s].used \in Nat
        /\ born[s] \in Nat /\ lag[s] \in Nat /\ now \in Nat
    BY <2>1, RowFields DEF IInv, TypeOK, Time
  <2>3. s = c => cap =< good \/ t + Ttl < good + slack
    <3>1. SUFFICES ASSUME s = c, rows[s] # NoRow, rows[s].expires = rows[s].used + Ttl
                   PROVE  t + Ttl < good + slack
      BY <2>1 DEF IInv, RowSound, GoodUntil, StillOpen, Lifetime
    <3>2. now - rows[s].used < Threshold BY <3>1 DEF Fresh
    <3>3. good = rows[s].expires BY <3>1 DEF GoodUntil
    <3> QED BY <1>1, <2>2, <3>1, <3>2, <3>3 DEF Time
  <2>4. cap =< good \/ kept[s] + Ttl < good + slack
    <3>1. kept[s] \in Nat /\ good \in Nat BY <2>2 DEF GoodUntil, IInv, TypeOK, Time
    <3>2. cap =< good \/ kept[s] + Ttl < good + Threshold + lag[s] BY DEF IInv, InUseStaysSignedIn
    <3> QED BY <2>2, <3>1, <3>2
  <2>5. good \in Nat /\ slack \in Nat /\ cap \in Nat BY <2>2 DEF GoodUntil
  <2> HIDE DEF good, slack, cap
  <2>6. cap =< good \/ kept'[s] + Ttl < good + slack BY <2>3, <2>4, <2>5, SettledKeeps
  <2>7. kept'[s] \in Nat BY <1>2 DEF Time
  <2> QED BY <2>2, <2>5, <2>6, <2>7 DEF good, slack, cap
<1> QED BY <1>2, <1>3, <1>4, <1>5, <1>6 DEF IInv

(* A stamp that is written.                                                *)
LEMMA WriteKeeps ==
  ASSUME IInv, NEW r \in Request, At(r, "write"), Goto(r, None), Settled(r),
         StillOpen(request[r].id),
         rows' = [rows EXCEPT ![request[r].id] = Touched(request[r].id, request[r].at)],
         lag' = [s \in Session |-> IF s = request[r].id /\ request[r].at < rows[request[r].id].used
                                   THEN Later(lag[s], now - request[r].at) ELSE lag[s]],
         UNCHANGED <<now, born, ended>>
  PROVE  IInv'
<1> USE DurationAssumption, ThresholdAssumption
<1> DEFINE c == request[r].id
           t == request[r].since
           at == request[r].at
           new == Touched(c, at)
<1>1. /\ c \in Credential /\ t \in Time /\ at \in Time /\ t =< at /\ at =< now
      /\ request[r] # None
  BY TouchKinds DEF IInv, TypeOK, RequestSound, At
<1>2. /\ rows[c] # NoRow /\ rows[c] \in Row
      /\ rows[c].expires \in Time /\ rows[c].absolute \in Time /\ rows[c].used \in Time
  BY <1>1, RowFields DEF IInv, StillOpen
<1>3. /\ new.used = at /\ new.absolute = rows[c].absolute /\ new \in Row
      /\ new.revoked = rows[c].revoked
      /\ new.expires = IF c \in Session THEN Earlier(at + Ttl, rows[c].absolute) ELSE rows[c].expires
  <2>1. Earlier(at + Ttl, rows[c].absolute) \in Time BY <1>1, <1>2, BoundAssumption DEF Earlier, Time
  <2> QED BY <1>1, <1>2, <2>1 DEF Touched, Row
<1>4. kept' \in [Session -> Time] /\ \A s \in Session : kept'[s] =< now BY <1>1, SettledPast
<1>5. rows'[c] = new /\ \A d \in Credential : d # c => rows'[d] = rows[d]
  BY <1>1 DEF IInv, TypeOK
<1> HIDE DEF new
<1>6. TypeOK'
  <2>1. rows' \in [Credential -> Row \union {NoRow}] BY <1>1, <1>3, <1>5 DEF IInv, TypeOK, new
  <2>2. lag' \in [Session -> Time]
    <3>1. now - at \in Time BY <1>1, BoundAssumption DEF IInv, TypeOK, Time
    <3> QED BY <3>1 DEF IInv, TypeOK, Later
  <2> QED BY <1>4, <2>1, <2>2 DEF IInv, TypeOK, Goto
<1>7. ASSUME NEW d \in Credential PROVE RowSound(d)'
  <2>1. CASE d = c
    <3>1. born[c] # Never /\ born[c] =< LastStart /\ rows[c].absolute = born[c] + Lifetime(c)
      BY <1>1, <1>2 DEF IInv, RowSound
    <3>2. Lifetime(d)' = Lifetime(d) BY DEF Lifetime
    <3>3. c \in Session =>
            /\ new.expires =< new.used + Ttl
            /\ new.absolute =< new.expires \/ new.expires = new.used + Ttl
            /\ new.revoked # Never => c \in ended
      BY <1>1, <1>2, <1>3 DEF Earlier, Time, IInv, RowSound
    <3>4. c \in Session => new.expires =< born[c] + Later(Ttl, AbsoluteTtl)
      <4>1. AbsoluteTtl =< Later(Ttl, AbsoluteTtl) /\ Later(Ttl, AbsoluteTtl) \in Nat BY DEF Later
      <4>2. new.expires =< rows[c].absolute \/ c \notin Session
        BY <1>1, <1>2, <1>3 DEF Earlier, Time
      <4>3. c \in Session => rows[c].absolute = born[c] + AbsoluteTtl BY <3>1 DEF Lifetime
      <4>4. born[c] \in Nat BY <1>1, <3>1 DEF IInv, TypeOK, Time
      <4>5. new.expires \in Nat BY <1>3 DEF Row, Time
      <4> QED BY <4>1, <4>2, <4>3, <4>4, <4>5
    <3> QED BY <1>1, <1>3, <1>5, <2>1, <3>1, <3>2, <3>3, <3>4 DEF RowSound
  <2>2. CASE d # c BY <1>5, <2>2 DEF IInv, RowSound, Lifetime
  <2> QED BY <2>1, <2>2
<1>8. ASSUME NEW q \in Request PROVE RequestSound(q)'
  BY DEF IInv, TypeOK, RequestSound, Lifetime, Goto
<1>9. InUseStaysSignedIn'
  <2> SUFFICES ASSUME NEW s \in Session, born[s] # Never, s \notin ended
               PROVE  \/ born[s] + AbsoluteTtl =< GoodUntil(s)'
                      \/ kept'[s] + Ttl < GoodUntil(s)' + Threshold + lag'[s]
    BY DEF InUseStaysSignedIn
  <2>1. s \in Credential BY DEF Credential
  <2>2. CASE s = c
    <3>1. /\ new.absolute = born[s] + AbsoluteTtl /\ rows'[s] = new /\ new # NoRow
          /\ rows[s].expires =< rows[s].used + Ttl
          /\ \/ born[s] + AbsoluteTtl =< rows[s].expires
             \/ kept[s] + Ttl < rows[s].expires + Threshold + lag[s]
      BY <1>2, <1>3, <1>5, <2>1, <2>2, NoRowAssumption
         DEF IInv, RowSound, InUseStaysSignedIn, GoodUntil, Lifetime
    <3>2. /\ kept[s] \in Nat /\ kept[s] =< now /\ now \in Nat /\ lag[s] \in Nat /\ born[s] \in Nat
      BY <2>1 DEF IInv, TypeOK, Time
    <3>3. kept'[s] = kept[s] \/ kept'[s] = t BY <2>2 DEF Settled, Later
    <3>4. CASE at < rows[c].used
      <4>1. lag'[s] = Later(lag[s], now - at) BY <2>2, <3>4
      <4>2. now - at =< lag'[s] /\ lag'[s] \in Nat BY <1>1, <3>2, <4>1 DEF Later, Time
      <4>3. kept'[s] =< at + lag'[s] BY <1>1, <3>2, <3>3, <4>2 DEF Time
      <4>4. kept'[s] \in Nat BY <1>4 DEF Time
      <4> QED BY <1>1, <1>2, <1>3, <2>2, <3>1, <4>2, <4>3, <4>4 DEF Earlier, Time, GoodUntil
    <3>5. CASE ~(at < rows[c].used)
      <4>1. lag'[s] = lag[s] BY <3>5
      <4> QED BY <1>1, <1>2, <1>3, <2>2, <3>1, <3>2, <3>3, <3>5, <4>1 DEF Earlier, Time, GoodUntil
    <3> QED BY <3>4, <3>5
  <2>3. CASE s # c
    <3>1. rows'[s] = rows[s] BY <1>5, <2>1, <2>3
    <3>2. kept'[s] = kept[s] /\ lag'[s] = lag[s] BY <2>3 DEF Settled
    <3> QED BY <2>1, <3>1, <3>2 DEF IInv, InUseStaysSignedIn, GoodUntil
  <2> QED BY <2>2, <2>3
<1> QED BY <1>4, <1>6, <1>7, <1>8, <1>9 DEF IInv

(* One statement of a request's stamp.                                     *)
LEMMA StampKeeps ==
  ASSUME IInv, NEW r \in Request, Stamp(r)
  PROVE  IInv'
<1>1. ASSUME NEW c \in Credential, Authenticate(r, c) PROVE IInv' BY <1>1, AuthenticateKeeps
<1>2. ASSUME ReadTouch(r) PROVE IInv'
  <2> DEFINE c == request[r].id
             x == [step |-> "write", id |-> c, since |-> request[r].since, at |-> now]
  <2>1. request[r] # None /\ UNCHANGED <<now, rows, born, lag, ended>>
    BY <1>2 DEF ReadTouch, At
  <2>2. CASE ~StillOpen(c) /\ Goto(r, None) /\ UNCHANGED kept
    BY <2>1, <2>2, DoneKeeps DEF history
  <2>3. CASE StillOpen(c) /\ Fresh(rows[c]) /\ Goto(r, None) /\ Settled(r)
    BY <2>1, <2>3, ThrottleKeeps
  <2>4. CASE StillOpen(c) /\ ~Fresh(rows[c]) /\ Goto(r, x) /\ UNCHANGED kept
    <3>1. /\ c \in Credential /\ request[r].since \in Time /\ now \in Time
          /\ born[c] # Never /\ request[r].since < born[c] + Lifetime(c) /\ request[r].since =< now
      BY <2>1, TouchKinds DEF IInv, TypeOK, RequestSound
    <3>2. x \in Touch BY <3>1 DEF Touch
    <3>3. x.since =< x.at /\ x.at =< now BY <3>1 DEF Time
    <3>4. Goto(r, x) /\ UNCHANGED <<now, rows, history>> BY <2>1, <2>4 DEF history
    <3> QED BY <3>1, <3>2, <3>3, <3>4, MoveKeeps
  <2> QED BY <1>2, <2>2, <2>3, <2>4 DEF ReadTouch
<1>3. ASSUME WriteTouch(r) PROVE IInv'
  <2> DEFINE c == request[r].id
             at == request[r].at
  <2>1. At(r, "write") /\ Goto(r, None) /\ UNCHANGED <<now, born, ended>> BY <1>3 DEF WriteTouch
  <2>2. CASE UNCHANGED <<rows, kept, lag>> BY <2>1, <2>2, DoneKeeps DEF history
  <2>3. CASE /\ TouchLands(c)
             /\ rows' = [rows EXCEPT ![c] = Touched(c, at)]
             /\ lag' = [s \in Session |->
                  IF s = c /\ at < rows[c].used THEN Later(lag[s], now - at) ELSE lag[s]]
             /\ Settled(r)
    BY <2>1, <2>3, WriteKeeps DEF TouchLands
  <2> QED BY <1>3, <2>2, <2>3 DEF WriteTouch
<1>4. ASSUME Drop(r) PROVE IInv' BY <1>4, DoneKeeps DEF Drop
<1> QED BY <1>1, <1>2, <1>3, <1>4 DEF Stamp

(* Time passes; what was in the past stays there.                          *)
LEMMA TickKeeps ==
  ASSUME IInv, Tick
  PROVE  IInv'
<1>1. now \in Nat /\ now' = now + 1 /\ now' \in Time /\ UNCHANGED <<rows, request, history>>
  BY BoundAssumption DEF Tick, IInv, TypeOK, Time
<1>2. TypeOK' BY <1>1 DEF IInv, TypeOK, history
<1>3. ASSUME NEW c \in Credential PROVE RowSound(c)'
  <2>1. rows[c] # NoRow => rows[c].used \in Nat BY RowFields DEF IInv, Time
  <2> QED BY <1>1, <2>1 DEF IInv, RowSound, Lifetime, history
<1>4. ASSUME NEW r \in Request PROVE RequestSound(r)'
  <2>1. request[r] # None =>
          request[r].since \in Nat /\ (request[r].step = "write" => request[r].at \in Nat)
    BY TouchKinds DEF IInv, TypeOK, Time
  <2> QED BY <1>1, <2>1 DEF IInv, RequestSound, Lifetime, history
<1>5. InUseStaysSignedIn'
  <2>1. \A s \in Session : /\ kept[s] \in Nat /\ lag[s] \in Nat
                           /\ born[s] # Never => born[s] \in Nat
    BY HistoryFields DEF IInv
  <2>2. \A s \in Session : \/ GoodUntil(s)' = GoodUntil(s)
                           \/ GoodUntil(s) = now /\ GoodUntil(s)' = now + 1
    BY <1>1 DEF GoodUntil
  <2> QED BY <1>1, <2>1, <2>2, DurationAssumption, ThresholdAssumption
      DEF IInv, InUseStaysSignedIn, history
<1>6. \A s \in Session : kept'[s] =< now'
  <2>1. \A s \in Session : kept[s] \in Nat BY HistoryFields DEF IInv
  <2> QED BY <1>1, <2>1 DEF IInv, history
<1> QED BY <1>2, <1>3, <1>4, <1>5, <1>6 DEF IInv

(* IInv is inductive.                                                      *)
LEMMA IInvStep == IInv /\ [Next]_vars => IInv'
<1> SUFFICES ASSUME IInv, [Next]_vars PROVE IInv' OBVIOUS
<1> USE DurationAssumption
<1>1. ASSUME NEW s \in Session, SignIn(s) PROVE IInv'
  <2> DEFINE row == [expires |-> now + Ttl, absolute |-> now + AbsoluteTtl,
                     used |-> now, revoked |-> Never]
  <2>1. Issue(s, row) /\ s \in Credential BY <1>1 DEF SignIn, Credential
  <2>2. row \in Row
    <3>1. now + Ttl \in Time /\ now + AbsoluteTtl \in Time /\ now \in Time
      BY <2>1, BoundAssumption DEF Issue, IInv, TypeOK, Time
    <3> QED BY <3>1 DEF Row
  <2>3. Lifetime(s) = AbsoluteTtl BY DEF Lifetime
  <2> QED BY <2>1, <2>2, <2>3, IssueKeeps
<1>2. ASSUME NEW t \in Token, Mint(t) PROVE IInv'
  <2> DEFINE row == [expires |-> now + TokenTtl, absolute |-> now + TokenTtl,
                     used |-> now, revoked |-> Never]
  <2>1. Issue(t, row) /\ t \in Credential BY <1>2 DEF Mint, Credential
  <2>2. row \in Row
    <3>1. now + TokenTtl \in Time /\ now \in Time
      BY <2>1, BoundAssumption DEF Issue, IInv, TypeOK, Time
    <3> QED BY <3>1 DEF Row
  <2>3. t \notin Session /\ Lifetime(t) = TokenTtl BY KindAssumption DEF Lifetime
  <2> QED BY <2>1, <2>2, <2>3, IssueKeeps
<1>3. CASE UNCHANGED vars
  <2>1. TypeOK' BY <1>3 DEF IInv, TypeOK, vars, history
  <2>2. (\A c \in Credential : RowSound(c))' BY <1>3 DEF IInv, RowSound, Lifetime, vars, history
  <2>3. (\A r \in Request : RequestSound(r))'
    BY <1>3 DEF IInv, RequestSound, Lifetime, vars, history
  <2>4. InUseStaysSignedIn' BY <1>3 DEF IInv, InUseStaysSignedIn, GoodUntil, vars, history
  <2>5. \A s \in Session : kept'[s] =< now' BY <1>3 DEF IInv, vars, history
  <2> QED BY <2>1, <2>2, <2>3, <2>4, <2>5 DEF IInv
<1> QED BY <1>1, <1>2, <1>3, RemovalKeeps, StampKeeps, TickKeeps DEF Next

(* IInv is an invariant of Sessions: rows keep the cap they were issued    *)
(* with, expiry follows the last stamp, stamps are never from the future.  *)
THEOREM Invariance == Spec => []IInv
<1>1. Init => IInv BY IInvInit
<1>2. IInv /\ [Next]_vars => IInv' BY IInvStep
<1> QED BY <1>1, <1>2, PTL DEF Spec

(* The variables keep their types, whatever the lifetimes are; no expiry   *)
(* lies beyond the bound of the clock.                                     *)
THEOREM TypeCorrectness == Spec => []TypeOK
<1>1. IInv => TypeOK BY DEF IInv
<1> QED BY <1>1, Invariance, PTL

(* No request is let through on a credential older than its lifetime       *)
(* (session.root-ops.ts touch, find-session.handler.ts).                   *)
THEOREM CapHolds == Spec => []NoneOutlivesCap
<1>1. IInv => NoneOutlivesCap BY DEF IInv, RequestSound, NoneOutlivesCap
<1> QED BY <1>1, Invariance, PTL

(* The throttle of touch-session.handler.ts costs a session in use less    *)
(* than the threshold, a stamp that comes late no more than its delay, and *)
(* the purge takes no session in use.                                      *)
THEOREM StaysSignedIn == Spec => []InUseStaysSignedIn
<1>1. IInv => InUseStaysSignedIn BY DEF IInv
<1> QED BY <1>1, Invariance, PTL

(* A revoked credential is written by no stamp, however late it lands      *)
(* (session.repository-live.ts updateOne, WHERE revoked_at IS NULL).       *)
THEOREM Logout == Spec => LogoutIsFinal
<1>1. ASSUME IInv, [Next]_vars, NEW c \in Credential, rows[c] # NoRow, rows[c].revoked # Never
      PROVE  rows'[c] \in {rows[c], NoRow}
  <2>1. ASSUME NEW d \in Credential, NEW row, Issue(d, row) PROVE rows'[c] = rows[c]
    <3>1. c # d BY <1>1, <2>1 DEF Issue, IInv, RowSound
    <3> QED BY <2>1, <3>1 DEF Issue, IInv, TypeOK
  <2>2. CASE \E s \in Session : SignIn(s) BY <2>1, <2>2 DEF SignIn, Credential
  <2>3. CASE \E t \in Token : Mint(t) BY <2>1, <2>3 DEF Mint, Credential
  <2>4. ASSUME NEW d \in Credential, Revoke(d) \/ Cascade(d) PROVE rows'[c] \in {rows[c], NoRow}
    BY <1>1, <2>4 DEF Revoke, StillOpen, Cascade, IInv, TypeOK
  <2>5. CASE Purge BY <2>5 DEF Purge
  <2>6. ASSUME NEW r \in Request, Stamp(r) PROVE rows'[c] = rows[c]
    <3>1. ASSUME WriteTouch(r) PROVE rows'[c] = rows[c]
      <4>1. TouchLands(request[r].id) => request[r].id # c BY <1>1 DEF TouchLands, StillOpen
      <4>2. \/ UNCHANGED rows
            \/ /\ TouchLands(request[r].id)
               /\ rows' = [rows EXCEPT ![request[r].id] = Touched(request[r].id, request[r].at)]
        BY <3>1 DEF WriteTouch
      <4>3. DOMAIN rows = Credential BY <1>1 DEF IInv, TypeOK
      <4> QED BY <4>1, <4>2, <4>3, <1>1
    <3> QED BY <2>6, <3>1 DEF Stamp, Authenticate, ReadTouch, Drop
  <2>7. CASE Tick \/ UNCHANGED vars BY <2>7 DEF Tick, vars
  <2> QED BY <1>1, <2>2, <2>3, <2>4, <2>5, <2>6, <2>7 DEF Next
<1>2. IInv /\ [Next]_vars =>
        [\A c \in Credential : rows[c] # NoRow /\ rows[c].revoked # Never =>
           rows'[c] \in {rows[c], NoRow}]_vars
  BY <1>1
<1> QED BY <1>2, Invariance, PTL DEF Spec, LogoutIsFinal

(* An expiry slides no further than the cap of its session.                *)
LEMMA OverdueIsDue ==
  ASSUME IInv, NEW s \in Session, Overdue(s)
  PROVE  Purgeable(rows[s])
<1>1. s \in Credential /\ rows[s] # NoRow BY DEF Credential, Overdue, Kept
<1>2. rows[s].expires \in Nat /\ now \in Nat /\ born[s] \in Nat
  BY <1>1, RowFields DEF IInv, TypeOK, RowSound, Time
<1>3. rows[s].expires =< born[s] + Later(Ttl, AbsoluteTtl) BY <1>1 DEF IInv, RowSound
<1>4. Later(Ttl, AbsoluteTtl) \in Nat BY DurationAssumption DEF Later
<1> QED BY <1>2, <1>3, <1>4 DEF Purgeable, Overdue

(* A session past its cap is one the hourly purge takes                    *)
(* (purge-expired-sessions.ts), however it was used or revoked meanwhile.  *)
THEOREM OverdueGoesNext == Spec => []OverdueIsPurgeable
<1>1. IInv => OverdueIsPurgeable BY OverdueIsDue DEF OverdueIsPurgeable
<1> QED BY <1>1, Invariance, PTL

(* Every session's row is deleted some day, however much the session is    *)
(* used, provided that the clock and the hourly purge run on.              *)
THEOREM Evicted == Spec /\ ClockRunsOut /\ PurgeRunsOn => EventuallyEvicted
<1> SUFFICES ASSUME NEW s \in Session
             PROVE  Spec /\ ClockRunsOut /\ PurgeRunsOn => (Kept(s) ~> ~Kept(s))
  BY DEF EventuallyEvicted
<1> DEFINE AtEnd == now = MaxTime
<1>1. IInv /\ AtEnd /\ [Next]_vars => AtEnd'
  <2> SUFFICES ASSUME IInv, AtEnd, [Next]_vars PROVE AtEnd' OBVIOUS
  <2>1. ~Tick BY BoundAssumption DEF Tick
  <2>2. Next \/ UNCHANGED vars OBVIOUS
  <2> QED BY <2>1, <2>2 DEF Next, vars, SignIn, Mint, Issue, Revoke, Cascade, Purge, Stamp,
                        Authenticate, ReadTouch, WriteTouch, Drop
<1>2. IInv /\ AtEnd /\ Kept(s) => Purgeable(rows[s])
  <2> SUFFICES ASSUME IInv, AtEnd, Kept(s) PROVE Purgeable(rows[s]) OBVIOUS
  <2>1. s \in Credential /\ born[s] # Never /\ born[s] =< LastStart
    BY DEF IInv, RowSound, Kept, Credential
  <2>2. born[s] \in Nat BY <2>1 DEF IInv, TypeOK, Time
  <2>3. LastStart + Later(Ttl, AbsoluteTtl) < MaxTime /\ Later(Ttl, AbsoluteTtl) \in Nat
    BY BoundAssumption, DurationAssumption DEF Later
  <2>4. Overdue(s) BY <2>1, <2>2, <2>3, BoundAssumption DEF Overdue
  <2> QED BY <2>4, OverdueIsDue
<1>3. IInv /\ AtEnd /\ Kept(s) => PurgeDue BY <1>2 DEF PurgeDue, Kept
<1>4. IInv /\ AtEnd /\ <<Purge>>_vars => ~Kept(s)'
  <2> SUFFICES ASSUME IInv, AtEnd, Purge PROVE ~Kept(s)' OBVIOUS
  <2>1. rows'[s] = IF rows[s] # NoRow /\ Purgeable(rows[s]) THEN NoRow ELSE rows[s]
    BY DEF Purge, Credential
  <2> QED BY <1>2, <2>1 DEF Kept
<1> QED BY <1>1, <1>3, <1>4, Invariance, PTL DEF Spec, ClockRunsOut, PurgeRunsOn
-----------------------------------------------------------------------------
(* The refinement of Credentials.                                          *)

(* A new credential's row is open.                                         *)
LEMMA IssueRefines ==
  ASSUME IInv, NEW c \in Credential, NEW row \in Row, Issue(c, row), row.revoked = Never
  PROVE  Abstract!Issue(c)
<1>1. /\ born[c] = Never /\ rows' = [rows EXCEPT ![c] = row] /\ born' = [born EXCEPT ![c] = now]
      /\ UNCHANGED <<now, request>>
  BY DEF Issue
<1>2. now # Never /\ row # NoRow BY NeverAssumption, NoRowAssumption DEF IInv, TypeOK, Time
<1>3. rows'[c] = row /\ born'[c] = now BY <1>1 DEF IInv, TypeOK
<1>4. StateOf(c) = "unissued" /\ StateOf(c)' = "open" /\ UntilOf(c)' = now + Lifetime(c)
  BY <1>1, <1>2, <1>3 DEF StateOf, StillOpen, UntilOf, Lifetime
<1>5. ASSUME NEW d \in Credential, d # c PROVE StateOf(d)' = StateOf(d) /\ UntilOf(d)' = UntilOf(d)
  <2>1. rows'[d] = rows[d] /\ born'[d] = born[d] BY <1>1, <1>5 DEF IInv, TypeOK
  <2> QED BY <2>1 DEF StateOf, StillOpen, UntilOf, Lifetime
<1>6. \A r \in Request : UsedBy(r)' = UsedBy(r) BY <1>1 DEF UsedBy
<1> QED BY <1>1, <1>4, <1>5, <1>6 DEF Abstract!Issue

(* Whatever takes rows away or marks them revoked ends credentials.        *)
LEMMA RemovalRefines ==
  ASSUME IInv, UNCHANGED <<now, request, born>>, \A c \in Credential : StillOpen(c)' => StillOpen(c)
  PROVE  \E C \in SUBSET Credential : Abstract!End(C)
<1> DEFINE C == {c \in Credential : StillOpen(c) /\ ~StillOpen(c)'}
<1>1. \A c \in Credential : StillOpen(c) => born[c] # Never BY DEF StillOpen, IInv, RowSound
<1>2. \A c \in C : StateOf(c) = "open" BY <1>1 DEF StateOf
<1>3. \A c \in Credential : StateOf(c)' = IF c \in C THEN "over" ELSE StateOf(c)
  BY <1>1 DEF StateOf
<1>4. \A c \in Credential : UntilOf(c)' = UntilOf(c) BY DEF UntilOf, Lifetime
<1>5. \A r \in Request : UsedBy(r)' = UsedBy(r) BY DEF UsedBy
<1> HIDE DEF C
<1>6. Abstract!End(C) BY <1>2, <1>3, <1>4, <1>5 DEF Abstract!End, C
<1> QED BY <1>6 DEF C

(* A stamp, written or not, is of no concern to a credential.              *)
LEMMA StampRefines ==
  ASSUME IInv, NEW r \in Request, UNCHANGED <<now, born>>, Goto(r, None),
         \A c \in Credential : StillOpen(c)' = StillOpen(c)
  PROVE  Abstract!Finish(r)
<1>1. \A c \in Credential : StateOf(c)' = StateOf(c) /\ UntilOf(c)' = UntilOf(c)
  BY DEF StateOf, UntilOf, Lifetime
<1>2. request' = [request EXCEPT ![r] = None] BY DEF Goto
<1>3. \A q \in Request : UsedBy(q)' = IF q = r THEN None ELSE UsedBy(q)
  BY <1>2 DEF UsedBy, IInv, TypeOK
<1> QED BY <1>1, <1>3 DEF Abstract!Finish

(* The middleware's check lets through what Credentials would.             *)
LEMMA AuthenticateRefines ==
  ASSUME IInv, NEW r \in Request, NEW c \in Credential, Authenticate(r, c)
  PROVE  Abstract!LetThrough(r, c)
<1>1. born[c] # Never /\ now < born[c] + Lifetime(c) /\ StillOpen(c) /\ request[r] = None
  BY DEF Authenticate, Valid, StillOpen, IInv, RowSound
<1>2. StateOf(c) = "open" /\ now < UntilOf(c) /\ UsedBy(r) = None
  BY <1>1 DEF StateOf, UntilOf, UsedBy
<1>3. \A d \in Credential : StateOf(d)' = StateOf(d) /\ UntilOf(d)' = UntilOf(d)
  BY DEF StateOf, StillOpen, UntilOf, Lifetime, Authenticate, history
<1> DEFINE x == [step |-> "read", id |-> c, since |-> now]
<1>4. x \in Touch BY DEF Touch, IInv, TypeOK
<1>5. request' = [request EXCEPT ![r] = x] /\ x # None
  BY <1>4, NoneAssumption DEF Authenticate, Goto
<1>6. \A q \in Request : UsedBy(q)' = IF q = r THEN [id |-> c, since |-> now] ELSE UsedBy(q)
  BY <1>5 DEF UsedBy, IInv, TypeOK
<1> QED BY <1>2, <1>3, <1>6 DEF Abstract!LetThrough, Authenticate

(* A step of a request: let through, under way, done.                      *)
LEMMA RequestRefines ==
  ASSUME IInv, NEW r \in Request, Stamp(r)
  PROVE  [Abstract!Next]_(Abstract!vars)
<1> USE DEF Abstract!Next
<1>1. ASSUME NEW c \in Credential, Authenticate(r, c) PROVE Abstract!Next
  BY <1>1, AuthenticateRefines
<1>2. ASSUME ReadTouch(r) PROVE [Abstract!Next]_(Abstract!vars)
  <2> DEFINE x == [step |-> "write", id |-> request[r].id, since |-> request[r].since, at |-> now]
  <2>1. request[r] # None /\ UNCHANGED <<now, rows, born>> /\ (Goto(r, None) \/ Goto(r, x))
    BY <1>2 DEF ReadTouch, At
  <2>2. \A c \in Credential : StillOpen(c)' = StillOpen(c) BY <2>1 DEF StillOpen
  <2>3. CASE Goto(r, None) BY <2>1, <2>2, <2>3, StampRefines
  <2>4. CASE Goto(r, x)
    <3>1. request' = [request EXCEPT ![r] = x] BY <2>4 DEF Goto
    <3>2. x \in Touch
      <4>1. request[r].id \in Credential /\ request[r].since \in Time
        BY <2>1, TouchKinds DEF IInv, TypeOK
      <4> QED BY <4>1 DEF Touch, IInv, TypeOK
    <3>3. \A q \in Request : UsedBy(q)' = UsedBy(q)
      BY <2>1, <3>1, <3>2, NoneAssumption DEF UsedBy, IInv, TypeOK
    <3>4. \A c \in Credential : StateOf(c)' = StateOf(c) /\ UntilOf(c)' = UntilOf(c)
      BY <2>1, <2>2 DEF StateOf, UntilOf, Lifetime
    <3> QED BY <2>1, <3>3, <3>4 DEF Abstract!vars
  <2> QED BY <2>1, <2>3, <2>4
<1>3. ASSUME WriteTouch(r) PROVE Abstract!Next
  <2> DEFINE d == request[r].id
  <2>1. Goto(r, None) /\ UNCHANGED <<now, born>> BY <1>3 DEF WriteTouch
  <2>2. d \in Credential BY <1>3, TouchKinds DEF WriteTouch, At, IInv, TypeOK
  <2>3. \/ UNCHANGED rows
        \/ StillOpen(d) /\ rows' = [rows EXCEPT ![d] = Touched(d, request[r].at)]
    BY <1>3 DEF WriteTouch, TouchLands
  <2>4. StillOpen(d) => /\ Touched(d, request[r].at) # NoRow
                        /\ Touched(d, request[r].at).revoked = Never
    <3> SUFFICES ASSUME StillOpen(d)
                 PROVE  /\ Touched(d, request[r].at) # NoRow
                        /\ Touched(d, request[r].at).revoked = Never
      OBVIOUS
    <3>1. /\ rows[d] \in Row /\ rows[d].revoked = Never
          /\ rows[d].expires \in Time /\ rows[d].absolute \in Time
      BY <2>2, RowFields DEF StillOpen, IInv
    <3>2. request[r].at \in Time BY <1>3, TouchKinds DEF WriteTouch, At, IInv, TypeOK
    <3>3. Earlier(request[r].at + Ttl, rows[d].absolute) \in Time
      BY <3>1, <3>2, BoundAssumption, DurationAssumption DEF Earlier, Time
    <3>4. Touched(d, request[r].at) \in Row /\ Touched(d, request[r].at).revoked = Never
      BY <3>1, <3>2, <3>3 DEF Touched, Row
    <3> QED BY <3>4, NoRowAssumption
  <2>5. \A c \in Credential : StillOpen(c)' = StillOpen(c)
    BY <2>2, <2>3, <2>4 DEF StillOpen, IInv, TypeOK
  <2> QED BY <2>1, <2>5, StampRefines
<1>4. ASSUME Drop(r) PROVE Abstract!Next
  <2>1. Goto(r, None) /\ UNCHANGED <<now, rows, born>> BY <1>4 DEF Drop, history
  <2>2. \A c \in Credential : StillOpen(c)' = StillOpen(c) BY <2>1 DEF StillOpen
  <2> QED BY <2>1, <2>2, StampRefines
<1> QED BY <1>1, <1>2, <1>3, <1>4 DEF Stamp

(* Sessions implements Credentials: sliding expiry, stamps that come late, *)
(* the purge and the cascade come to one life of a credential, which ends  *)
(* once and for good (find-session.handler.ts, session.repository-live.ts).*)
THEOREM Refinement == Spec => ImplementsCredentials
<1>1. Init => Abstract!Init
  BY DEF Init, Abstract!Init, StateOf, UntilOf, UsedBy
<1>2. IInv /\ [Next]_vars => [Abstract!Next]_(Abstract!vars)
  <2> SUFFICES ASSUME IInv, [Next]_vars PROVE [Abstract!Next]_(Abstract!vars) OBVIOUS
  <2>1. ASSUME NEW s \in Session, SignIn(s) PROVE Abstract!Next
    <3> DEFINE row == [expires |-> now + Ttl, absolute |-> now + AbsoluteTtl,
                       used |-> now, revoked |-> Never]
    <3>1. Issue(s, row) /\ s \in Credential BY <2>1 DEF SignIn, Credential
    <3>2. now + Ttl \in Time /\ now + AbsoluteTtl \in Time /\ now \in Time
      BY <3>1, BoundAssumption, DurationAssumption DEF Issue, IInv, TypeOK, Time
    <3>3. row \in Row BY <3>2 DEF Row
    <3> QED BY <3>1, <3>3, IssueRefines DEF Abstract!Next
  <2>2. ASSUME NEW t \in Token, Mint(t) PROVE Abstract!Next
    <3> DEFINE row == [expires |-> now + TokenTtl, absolute |-> now + TokenTtl,
                       used |-> now, revoked |-> Never]
    <3>1. Issue(t, row) /\ t \in Credential BY <2>2 DEF Mint, Credential
    <3>2. now + TokenTtl \in Time /\ now \in Time
      BY <3>1, BoundAssumption, DurationAssumption DEF Issue, IInv, TypeOK, Time
    <3>3. row \in Row BY <3>2 DEF Row
    <3> QED BY <3>1, <3>3, IssueRefines DEF Abstract!Next
  <2>3. ASSUME NEW c \in Credential, Revoke(c) \/ Cascade(c) PROVE Abstract!Next
    <3>1. UNCHANGED <<now, request, born>> BY <2>3 DEF Revoke, Cascade, history
    <3>2. \A d \in Credential : d # c => rows'[d] = rows[d]
      BY <2>3 DEF Revoke, Cascade, IInv, TypeOK
    <3>3. StillOpen(c)' => StillOpen(c)
      BY <2>3 DEF Revoke, Cascade, StillOpen, IInv, TypeOK
    <3> QED BY <3>1, <3>2, <3>3, RemovalRefines DEF Abstract!Next, StillOpen
  <2>4. CASE Purge
    <3>1. UNCHANGED <<now, request, born>> BY <2>4 DEF Purge, history
    <3>2. \A d \in Credential : rows'[d] \in {rows[d], NoRow} BY <2>4 DEF Purge
    <3> QED BY <3>1, <3>2, RemovalRefines DEF Abstract!Next, StillOpen
  <2>5. CASE Tick
    <3>1. now' = now + 1 /\ UNCHANGED <<rows, request, born>> BY <2>5 DEF Tick, history
    <3>2. \A c \in Credential : StateOf(c)' = StateOf(c) /\ UntilOf(c)' = UntilOf(c)
      BY <3>1 DEF StateOf, StillOpen, UntilOf, Lifetime
    <3>3. \A r \in Request : UsedBy(r)' = UsedBy(r) BY <3>1 DEF UsedBy
    <3> QED BY <3>1, <3>2, <3>3 DEF Abstract!Next, Abstract!Tick
  <2>6. CASE UNCHANGED vars
    <3>1. UNCHANGED <<now, rows, request, born>> BY <2>6 DEF vars, history
    <3>2. \A c \in Credential : StateOf(c)' = StateOf(c) /\ UntilOf(c)' = UntilOf(c)
      BY <3>1 DEF StateOf, StillOpen, UntilOf, Lifetime
    <3>3. \A r \in Request : UsedBy(r)' = UsedBy(r) BY <3>1 DEF UsedBy
    <3> QED BY <3>1, <3>2, <3>3 DEF Abstract!vars
  <2> QED BY <2>1, <2>2, <2>3, <2>4, <2>5, <2>6, RequestRefines DEF Next
<1> QED BY <1>1, <1>2, Invariance, PTL DEF Spec, ImplementsCredentials, Abstract!Spec
=============================================================================
