---------------------------- MODULE MCDeviceLogin ----------------------------
(* Instances of DeviceLogin for TLC.                                       *)
EXTENDS DeviceLogin, TLC

Symmetry == Permutations(Grant) \union Permutations(User) \union Permutations(Caller)
              \union Permutations(Token)
=============================================================================
