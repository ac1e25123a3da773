------------------------------ MODULE MCBilling ------------------------------
(* Instances of Billing for TLC.                                           *)
EXTENDS Billing, TLC

Symmetry == Permutations(Org) \union Permutations(Sub) \union Permutations(Live)
              \union Permutations(Period) \union Permutations(Caller) \union Permutations(Worker)
=============================================================================
