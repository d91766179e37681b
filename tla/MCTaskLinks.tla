---------------------------- MODULE MCTaskLinks ----------------------------
(* Small instances of TaskLinks for TLC. *)
EXTENDS TaskLinks, TLC

Interchangeable == Permutations(Clients) \cup Permutations(PRs)
=============================================================================
