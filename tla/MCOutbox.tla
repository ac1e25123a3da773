------------------------------ MODULE MCOutbox ------------------------------
(* Instances of Outbox for TLC.                                            *)
EXTENDS Outbox, TLC

CONSTANTS p1, c1, c2

(* One envelope, for the races over it.                                    *)
OneEmits == p1 :> {1}

(* Two envelopes of one unit of work.                                      *)
TwoEmits == p1 :> {1, 2}

Symmetry == Permutations(Consumer) \union Permutations(Sweeper)
=============================================================================
