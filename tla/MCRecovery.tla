----------------------------- MODULE MCRecovery -----------------------------
(* Recovery for TLC: the bounds are in the .cfg files.                     *)
EXTENDS Recovery

=============================================================================
