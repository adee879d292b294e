------------------------------ MODULE MCDbCache ------------------------------
(* Small instances of DbCache for TLC. *)
EXTENDS DbCache
=============================================================================
