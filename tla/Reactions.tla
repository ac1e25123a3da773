------------------------------ MODULE Reactions ------------------------------
(***************************************************************************)
(* What the durable after-commit delivery promises to the modules that     *)
(* subscribe with subscribeAfterCommit: the envelopes of one unit of work  *)
(* become due together, when it commits, and each due envelope's reaction  *)
(* takes effect at most once.  How (outbox, queue, ledger) is in Outbox.   *)
(***************************************************************************)
EXTENDS Naturals

CONSTANTS Envelope,   \* the (event_id, handler) pairs, one per due reaction
          Publisher,  \* the units of work that publish them
          Emits       \* Emits[p]: the envelopes of unit of work p

VARIABLES published,  \* the units of work that committed
          effects     \* effects[e]: committed executions of e's handler

vars == <<published, effects>>

Due == UNION {Emits[p] : p \in published}

Init == /\ published = {}
        /\ effects = [e \in Envelope |-> 0]

(* All envelopes of a unit of work become due at once.                     *)
Publish(p) == /\ p \notin published
              /\ published' = published \union {p}
              /\ UNCHANGED effects

(* A due reaction takes effect, once.                                      *)
React(e) == /\ e \in Due
            /\ effects[e] = 0
            /\ effects' = [effects EXCEPT ![e] = 1]
            /\ UNCHANGED published

Next == \/ \E p \in Publisher : Publish(p)
        \/ \E e \in Envelope : React(e)

Spec == Init /\ [][Next]_vars
=============================================================================
