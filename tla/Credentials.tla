------------------------------ MODULE Credentials ------------------------------
(***************************************************************************)
(* What a session or an API token promises, whatever row, expiry, stamp or *)
(* purge there is behind it: from its issue to its lifetime's end it lets  *)
(* requests through, unless it is ended before, and nothing brings it back *)
(* after that.  That it may let nobody through earlier (the sliding expiry *)
(* of a session that was left alone) is not excluded.  How is in Sessions. *)
(***************************************************************************)
EXTENDS Naturals

CONSTANTS Credential, \* sessions and API tokens
          Request,    \* requests
          Longest,    \* Longest[c]: how long c is good for at most
          None        \* "no request under way"

VARIABLES now,
          state,  \* state[c]: "unissued", "open" or "over"
          until,  \* until[c]: when an issued c has lasted its lifetime
          using   \* using[r]: the credential that let r through, and when

vars == <<now, state, until, using>>

Init == /\ now = 0
        /\ state = [c \in Credential |-> "unissued"]
        /\ until = [c \in Credential |-> 0]
        /\ using = [r \in Request |-> None]

Issue(c) == /\ state[c] = "unissued"
            /\ state' = [state EXCEPT ![c] = "open"]
            /\ until' = [until EXCEPT ![c] = now + Longest[c]]
            /\ UNCHANGED <<now, using>>

(* A logout, a revocation, a purge or the end of a user.                   *)
End(C) == /\ \A c \in C : state[c] = "open"
          /\ state' = [c \in Credential |-> IF c \in C THEN "over" ELSE state[c]]
          /\ UNCHANGED <<now, until, using>>

LetThrough(r, c) == /\ using[r] = None
                    /\ state[c] = "open" /\ now < until[c]
                    /\ using' = [using EXCEPT ![r] = [id |-> c, since |-> now]]
                    /\ UNCHANGED <<now, state, until>>

Finish(r) == /\ using' = [using EXCEPT ![r] = None]
             /\ UNCHANGED <<now, state, until>>

Tick == /\ now' = now + 1
        /\ UNCHANGED <<state, until, using>>

Next == \/ Tick
        \/ \E c \in Credential : Issue(c)
        \/ \E C \in SUBSET Credential : End(C)
        \/ \E r \in Request : Finish(r) \/ \E c \in Credential : LetThrough(r, c)

Spec == Init /\ [][Next]_vars
=============================================================================
