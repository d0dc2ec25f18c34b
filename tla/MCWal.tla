------------------------------- MODULE MCWal -------------------------------
(* Wal for TLC.                                                            *)
EXTENDS Wal
=============================================================================
