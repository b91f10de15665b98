----------------------------- MODULE MCBindings -----------------------------
(* Bindings for TLC.                                                       *)
EXTENDS Bindings

=============================================================================
