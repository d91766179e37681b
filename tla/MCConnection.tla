---------------------------- MODULE MCConnection ----------------------------
(* Connection with two targets of one account and one of another product. *)
EXTENDS Connection

CONSTANTS cloudA, cloudB, server

MCTargets == {cloudA, cloudB, server}
OneTarget == {cloudA}
ByProduct == [t \in MCTargets |-> IF t = server THEN server ELSE cloudA]
=============================================================================
