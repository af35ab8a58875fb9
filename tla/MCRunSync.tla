------------------------------- MODULE MCRunSync -------------------------------
(* Small instances of RunSync for TLC. *)
EXTENDS RunSync
================================================================================
