------------------------------ MODULE MCMailCap ------------------------------
(* Instances of MailCap for TLC.                                           *)
EXTENDS MailCap, TLC

Symmetry == Permutations(Delivery) \union Permutations(Request)
=============================================================================
