----------------------------- MODULE MCLifecycle -----------------------------
(***************************************************************************)
(* Lifecycle on a small instance, whose values MCLifecycle.cfg gives: two  *)
(* requests that a stop or a kill may cut short, one that runs beside them.*)
(***************************************************************************)
EXTENDS Lifecycle

=============================================================================
