--------------------- MODULE MCClaimParametersGenerator ---------------------
(***************************************************************************)
(* Instances of ClaimParametersGenerator for TLC, by what may happen.      *)
(***************************************************************************)
EXTENDS ClaimParametersGenerator, TLC

Allow(edits, deletes, handmade, failures, starts, disconnects) ==
  [kind \in Kinds |->
     CASE kind = "edit"     -> edits
       [] kind = "delete"   -> deletes
       [] kind = "handmade" -> handmade
       [] kind = "failure"  -> failures
       [] kind = "start"    -> starts
       [] kind = "stop"     -> starts - 1
       [] OTHER             -> disconnects]

Rollout     == Allow(3, 1, 1, 1, 2, 0)
Alone       == Allow(3, 0, 0, 1, 2, 1)
Recreating  == Allow(2, 1, 0, 0, 1, 0)

Symmetry == Permutations(Names) \cup Permutations(Replicas)
=============================================================================
