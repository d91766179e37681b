--------------------------- MODULE MCWatchService ---------------------------
(* Small instances of WatchService for TLC. *)
EXTENDS WatchInvariant, TLC

CONSTANTS p1, p2, p3   \* the pull requests of every instance

OnePage == [p \in PRs |-> 0]
PageEach == (p1 :> 0) @@ (p2 :> 1)
PageTwo == (p1 :> 0) @@ (p2 :> 1) @@ (p3 :> 1)
Interchangeable == Permutations(Tokens) \cup Permutations(TaskIds)
=============================================================================
