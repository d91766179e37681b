---------------------------- MODULE TaskLifecycle ----------------------------
(***************************************************************************)
(* What the watch service promises about the task of one pull request of   *)
(* one watch, whatever fails in between:                                   *)
(*                                                                         *)
(*   "free"      the watch holds nothing for it                            *)
(*   "reserved"  a saved reservation, and no task in the host              *)
(*   "made"      the host has the task, the saved snapshot not yet         *)
(*   "linked"    the saved snapshot owns the task                          *)
(*   "detached"  a person unlinked the task: it is theirs                  *)
(*                                                                         *)
(* A task is made only under a saved reservation, a made task is never     *)
(* forgotten, only a linked one can be detached, and a detached one stays  *)
(* so until its whole watch is deleted.                                    *)
(***************************************************************************)

CONSTANTS WatchIds, PRs

VARIABLE phase

Phases == {"free", "reserved", "made", "linked", "detached"}

\* A person may delete a task that is made: it is "reserved" again, or linked
\* all the same by the save that was under way.
Moves == {<<"free", "reserved">>, <<"reserved", "made">>,
          <<"made", "linked">>, <<"made", "reserved">>,
          <<"reserved", "linked">>,
          <<"linked", "detached">>, <<"linked", "free">>,
          <<"reserved", "free">>, <<"detached", "free">>}

Init == phase = [o \in WatchIds \X PRs |-> "free"]

\* One save may move several pull requests.
Next ==
  /\ phase' \in [WatchIds \X PRs -> Phases]
  /\ \A o \in WatchIds \X PRs :
       phase'[o] # phase[o] => <<phase[o], phase'[o]>> \in Moves
  /\ \A x \in WatchIds, p \in PRs :
       phase[<<x, p>>] = "detached" /\ phase'[<<x, p>>] = "free" =>
         \A q \in PRs : phase'[<<x, q>>] = "free"

Spec == Init /\ [][Next]_phase
=============================================================================
