---------------------------- MODULE MCInvitations ----------------------------
(* Instances of Invitations for TLC.                                       *)
EXTENDS Invitations, TLC

Symmetry == Permutations(InvId) \union Permutations(Caller) \union Permutations(Token)
=============================================================================
