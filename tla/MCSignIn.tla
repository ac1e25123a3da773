------------------------------- MODULE MCSignIn -------------------------------
(* Instances of SignIn for TLC.                                            *)
EXTENDS SignIn, TLC

Symmetry == Permutations(User) \union Permutations(Email)
              \union Permutations(Subject) \union Permutations(Caller)
=============================================================================
