--------------------------- MODULE MCFetchService ---------------------------
(* Small instances of FetchService for TLC.  Versions are interchangeable, *)
(* and so are requests.                                                    *)
EXTENDS FetchService

Symmetric == Permutations(Versions) \cup Permutations(Requests)
=============================================================================
