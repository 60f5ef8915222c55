-------------------------- MODULE MCLifecycleEngine --------------------------
(* A small instance of LifecycleEngine for TLC: every constant is given in the cfg. *)
EXTENDS LifecycleEngine
=============================================================================
