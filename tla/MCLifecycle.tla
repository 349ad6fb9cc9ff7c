---------------------------- MODULE MCLifecycle ----------------------------
(* Instances of Lifecycle for TLC. *)
EXTENDS Lifecycle

AllEvents   == Handlers
LinkEvents  == {"Connected", "Disconnected"}
AnyOutcome  == OpenErrors \cup {"ok"}
Opens       == {"ok"}
=============================================================================
