----------------------------- MODULE MCLifecycle -----------------------------
(* Instances of Lifecycle for TLC: two modules, two connections, two callers. *)
EXTENDS Lifecycle
=============================================================================
