---------------------------- MODULE WorkspaceLock ----------------------------
(***************************************************************************)
(* What the watch service relies on: at most one goroutine owns the lock   *)
(* of a workspace, and it is given only to one that asked for it.          *)
(***************************************************************************)
CONSTANTS Goroutines, Keys, Nobody

VARIABLES
  wants,    \* the keys each goroutine has asked for and not released
  owner     \* the goroutine inside the section of each key

Init ==
  /\ wants = [g \in Goroutines |-> {}]
  /\ owner = [k \in Keys |-> Nobody]

Ask(g, k) ==
  /\ wants[g] = {} /\ wants' = [wants EXCEPT ![g] = {k}]
  /\ UNCHANGED owner

Enter(g, k) ==
  /\ k \in wants[g] /\ owner[k] = Nobody
  /\ owner' = [owner EXCEPT ![k] = g]
  /\ UNCHANGED wants

Leave(g, k) ==
  /\ owner[k] = g
  /\ owner' = [owner EXCEPT ![k] = Nobody]
  /\ wants' = [wants EXCEPT ![g] = {}]

Next == \E g \in Goroutines, k \in Keys : Ask(g, k) \/ Enter(g, k) \/ Leave(g, k)

Spec == Init /\ [][Next]_<<wants, owner>>
=============================================================================
