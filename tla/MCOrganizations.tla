--------------------------- MODULE MCOrganizations ---------------------------
(* Instances of Organizations for TLC.                                     *)
EXTENDS Organizations, TLC

Symmetry == Permutations(Org) \union Permutations(Caller) \union Permutations(User \ Root)
=============================================================================
