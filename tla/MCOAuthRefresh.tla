--------------------------- MODULE MCOAuthRefresh ---------------------------
(* Small instances of OAuthRefresh for TLC. *)
EXTENDS OAuthRefresh, TLC

Interchangeable == Permutations(Sources)
=============================================================================
