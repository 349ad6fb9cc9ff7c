----------------------------- MODULE MCFetches -----------------------------
(* Instances of Fetches for TLC. *)
EXTENDS Fetches

AllKinds == Commands
=============================================================================
