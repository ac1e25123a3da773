-------------------------------- MODULE Quota --------------------------------
(***************************************************************************)
(* A daily quota: each day lets Cap uses in, one at a time, and one more   *)
(* for each that is given back.  MailCap implements it twice: in the       *)
(* server a use is given back when its transaction rolls back, in the      *)
(* identity worker never.                                                  *)
(***************************************************************************)
EXTENDS Naturals

CONSTANTS Day, Cap,
          Returnable \* whether uses are given back

VARIABLES used,   \* used[d]: the uses of day d that were not given back
          granted \* granted[d]: the uses of day d ever let in

vars == <<used, granted>>

Init == /\ used = [d \in Day |-> 0]
        /\ granted = [d \in Day |-> 0]

Take(d) == /\ used[d] < Cap
           /\ used' = [used EXCEPT ![d] = @ + 1]
           /\ granted' = [granted EXCEPT ![d] = @ + 1]

GiveBack(d) == /\ Returnable /\ used[d] > 0
               /\ used' = [used EXCEPT ![d] = @ - 1]
               /\ UNCHANGED granted

Next == \E d \in Day : Take(d) \/ GiveBack(d)

Spec == Init /\ [][Next]_vars
=============================================================================
