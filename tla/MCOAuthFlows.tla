---------------------------- MODULE MCOAuthFlows ----------------------------
(* Small instances of OAuthFlows for TLC. *)
EXTENDS OAuthFlows, TLC

Interchangeable == Permutations(Clients) \cup Permutations(Workspaces)
=============================================================================
