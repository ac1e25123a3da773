-------------------------------- MODULE Grants --------------------------------
(***************************************************************************)
(* What signing in with a device code promises: a grant is open once, from *)
(* its request until it is exchanged or its approver is gone; users        *)
(* approve it while it is open; it is exchanged for one token, of one of   *)
(* them.  Polls, transactions and expiry are in DeviceLogin.               *)
(***************************************************************************)
CONSTANTS Grant, User, Token

VARIABLES users,     \* the users there are
          stage,     \* stage[g]: "new", "open" or "over"
          approvers, \* approvers[g]: the users who have approved g
          tokens     \* the API tokens, each with the grant it came from

vars == <<users, stage, approvers, tokens>>

Init == /\ users = User
        /\ stage = [g \in Grant |-> "new"]
        /\ approvers = [g \in Grant |-> {}]
        /\ tokens = {}

Request(g) == /\ stage[g] = "new"
              /\ stage' = [stage EXCEPT ![g] = "open"]
              /\ UNCHANGED <<users, approvers, tokens>>

Approve(g, u) == /\ stage[g] = "open" /\ u \in users
                 /\ approvers' = [approvers EXCEPT ![g] = @ \union {u}]
                 /\ UNCHANGED <<users, stage, tokens>>

Exchange(g, u, t) ==
  /\ stage[g] = "open" /\ u \in approvers[g] \intersect users
  /\ \A k \in tokens : k.id # t
  /\ stage' = [stage EXCEPT ![g] = "over"]
  /\ tokens' = tokens \union {[id |-> t, user |-> u, grant |-> g]}
  /\ UNCHANGED <<users, approvers>>

(* A user takes along its tokens, and grants it approved.                  *)
DeleteUser(u, G) ==
  /\ u \in users
  /\ \A g \in G : stage[g] = "open" /\ u \in approvers[g]
  /\ users' = users \ {u}
  /\ stage' = [g \in Grant |-> IF g \in G THEN "over" ELSE stage[g]]
  /\ tokens' = {k \in tokens : k.user # u}
  /\ UNCHANGED approvers

Next == \/ \E g \in Grant :
             \/ Request(g)
             \/ \E u \in User : Approve(g, u) \/ \E t \in Token : Exchange(g, u, t)
        \/ \E u \in User, G \in SUBSET Grant : DeleteUser(u, G)

Spec == Init /\ [][Next]_vars
=============================================================================
