--------------------------- MODULE WatchInvariant ---------------------------
(***************************************************************************)
(* The inductive invariant of WatchService behind OneTaskPerPR and         *)
(* NoOrphanTask.  A saved and a working snapshot are held to the same      *)
(* conditions, so those are stated of any snapshot "s", host tasks "T" and *)
(* released tasks "R"; a save then carries them from the working snapshot  *)
(* to the saved one.                                                       *)
(***************************************************************************)
EXTENDS WatchService

LinkAt(s, x, p) == s[x].links[p]
ReservationAt(s, x, p) == s[x].reservations[p]

\* The three states a pull request has in a snapshot: nothing, a reservation
\* alone, a reservation and the link to its task.
Shaped(link, reservation) ==
  \/ reservation = NoReservation /\ link = NoLink
  \/ /\ reservation.state = "creating" /\ reservation.token \in Tokens
     /\ reservation.task = NoTask /\ link = NoLink
  \/ /\ reservation.state = "created" /\ reservation.token \in Tokens
     /\ reservation.task \in TaskIds /\ link.task = reservation.task

\* Every pull request has one of them, that of an absent watch nothing, and no
\* two share a token.
Shape(s) ==
  /\ \A x \in WatchIds, p \in PRs :
       /\ Shaped(LinkAt(s, x, p), ReservationAt(s, x, p))
       /\ ~Exists(s, x) => ReservationAt(s, x, p) = NoReservation
  /\ \A x, y \in WatchIds, p, q \in PRs :
       /\ ReservationAt(s, x, p).token = ReservationAt(s, y, q).token
       /\ ReservationAt(s, x, p).token # NoToken
       => x = y /\ p = q

\* The host's tasks carry a token each, for a pull request of a watch.
Marked(T) ==
  /\ \A t \in TaskIds : T[t] # NoHostTask =>
       T[t].token \in Tokens /\ T[t].watch \in WatchIds /\ T[t].pr \in PRs
  /\ \A t, u \in TaskIds :
       /\ T[t] # NoHostTask /\ T[u] # NoHostTask
       /\ T[t].token = T[u].token
       => t = u

Marking(T, k) == {t \in TaskIds : T[t] # NoHostTask /\ T[t].token = k}

\* The snapshot holds every task its watch was not unlinked from, and a task
\* it calls created is the only one with its token.
Holds(s, T, R) ==
  \A t \in TaskIds : T[t] # NoHostTask =>
    /\ t \notin R =>
         ReservationAt(s, T[t].watch, T[t].pr).token = T[t].token
    /\ \A x \in WatchIds, p \in PRs :
         /\ ReservationAt(s, x, p).state = "created"
         /\ ReservationAt(s, x, p).token = T[t].token
         => t = ReservationAt(s, x, p).task

\* The task of an unowned link was released.
Unowned(s, Q) ==
  \A x \in WatchIds, p \in PRs :
    LinkAt(s, x, p).task # NoTask /\ ~LinkAt(s, x, p).owned =>
      LinkAt(s, x, p).task \in Q

Accounts(s, T, R, Q) == Shape(s) /\ Holds(s, T, R) /\ Unowned(s, Q)

\* Nothing was created for the reservations of watch x outside "left".
Settled(s, T, x, left) ==
  \A p \in PRs :
    ReservationAt(s, x, p).state = "creating" /\ <<x, p>> \notin left =>
      Marking(T, ReservationAt(s, x, p).token) = {}

\* What the operation in progress has in hand.
InHand ==
  /\ pc \in {"fence", "list", "items", "find", "create", "tear"}
       \/ then # "idle" => w \in WatchIds /\ Exists(view, w)
  /\ pc \in {"find", "create"} \/ then = "create" =>
       cur \in PRs /\ ReservationAt(view, w, cur).state = "creating"
  /\ pc = "create" \/ then = "create" =>
       Marking(tasks, ReservationAt(view, w, cur).token) = {}
  /\ pc = "reconcile" => \A xp \in todo :
       ReservationAt(view, xp[1], xp[2]).state = "creating"
  /\ pc = "reconcile" /\ kind \in {"reset", "delete"} =>
       w \in WatchIds /\ Exists(view, w) /\ Settled(view, tasks, w, todo)
  /\ pc = "tear" \/ then = "tear" => Settled(view, tasks, w, {})
  /\ pc \in {"idle", "fence", "list", "items", "find", "create"} =>
       view = durable
  /\ then # "idle" => pc = "save"
  /\ kind = "detach" => pc = "save" /\ then = "idle"

\* What a save would add to the released tasks: only a detach adds any.
Releasing == IF kind = "detach" THEN Unlinked(durable, view) ELSE {}

Accounted ==
  /\ Marked(tasks)
  /\ Accounts(durable, tasks, released, released)
  /\ Accounts(view, tasks, released, released \cup Releasing)

IInv == TypeOK /\ InHand /\ Accounted
=============================================================================
