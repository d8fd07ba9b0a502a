------------------------- MODULE MCPluginLifecycle -------------------------
(***************************************************************************)
(* The instance of PluginLifecycle for TLC.  A process meets at most as    *)
(* many kubelets as there are disconnections, and one more.                *)
(***************************************************************************)
EXTENDS PluginLifecycle

SomeOfEach == [kind \in Kinds |-> IF kind = "signal" THEN 3 ELSE 2]
=============================================================================
