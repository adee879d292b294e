------------------------------ MODULE MCPublish ------------------------------
(* Small instances of Publish for TLC.  The versions are interchangeable. *)
EXTENDS Publish

VersionSymmetry == Permutations(Versions)
=============================================================================
