----------------------------- MODULE MCMaatStore -----------------------------
(* Small instances of MaatStore for TLC. *)
EXTENDS MaatStore
=============================================================================
