------------------------- MODULE WatchServiceProofs -------------------------
(***************************************************************************)
(* Proofs about WatchService, for every number of watches, pull requests,  *)
(* pages, tokens and tasks, in three parts.  First: the invariant of       *)
(* WatchInvariant is inductive, so OneTaskPerPR and NoOrphanTask hold in   *)
(* every state.  Then what may become of a link and its task over many     *)
(* polls, with a stronger invariant (LInv).  Last, that WatchService       *)
(* implements TaskLifecycle.                                               *)
(***************************************************************************)
EXTENDS WatchInvariant, TLAPS

\* A saved or a working snapshot.
Snapshot == [WatchIds -> Watch]

-----------------------------------------------------------------------------
(* Types. *)

\* No link, no reservation, no watch and no task are well typed.
LEMMA NothingTyped ==
  /\ NoLink \in TaskLink /\ NoReservation \in Reservation
  /\ NoWatch \in Watch /\ NoHostTask \in HostTask
BY ConstantsAssumption DEF NoLink, TaskLink, NoReservation, Reservation,
  NoWatch, Watch, NoHostTask, HostTask, TaskRefs, TokenRefs, Bindings

\* What an operation writes for one pull request makes a snapshot again.
LEMMA WithPRTyped ==
  ASSUME NEW s \in Snapshot, NEW x \in WatchIds, NEW p \in PRs,
         NEW link \in TaskLink, NEW reservation \in Reservation
  PROVE  WithPR(s, x, p, link, reservation) \in Snapshot
<1> DEFINE l == [s[x].links EXCEPT ![p] = link]
           r == [s[x].reservations EXCEPT ![p] = reservation]
           v == [s[x] EXCEPT !.links = l, !.reservations = r]
<1>1. s[x] \in Watch
  BY DEF Snapshot
<1>2. l \in [PRs -> TaskLink] /\ r \in [PRs -> Reservation]
  BY <1>1 DEF Watch
<1>3. v \in Watch
  BY <1>1, <1>2 DEF Watch
<1>4. WithPR(s, x, p, link, reservation) = [s EXCEPT ![x] = v]
  BY DEF WithPR
<1> QED
  BY <1>3, <1>4 DEF Snapshot

\* So does the record of a created task.
LEMMA WithTaskTyped ==
  ASSUME NEW s \in Snapshot, NEW x \in WatchIds, NEW p \in PRs,
         NEW t \in TaskIds
  PROVE  WithTask(s, x, p, t) \in Snapshot
<1> DEFINE r == [s[x].reservations[p] EXCEPT !.state = "created", !.task = t]
           l == [task |-> t, owned |-> TRUE]
<1>1. r \in Reservation
  <2>1. s[x].reservations[p] \in Reservation
    BY DEF Snapshot, Watch
  <2> QED
    BY <2>1 DEF Reservation, TaskRefs
<1>2. l \in TaskLink
  BY DEF TaskLink, TaskRefs
<1> QED
  BY <1>1, <1>2, WithPRTyped DEF WithTask

\* The page after a page is a page.
LEMMA NextCursorTyped ==
  ASSUME NEW c \in 0 .. Pages - 1
  PROVE  NextCursor(c) \in 0 .. Pages - 1
BY ConstantsAssumption DEF NextCursor

\* Another page, status or failure makes a watch again.
LEMMA WithCursorTyped ==
  ASSUME NEW s \in Snapshot, NEW x \in WatchIds, NEW c \in 0 .. Pages - 1
  PROVE  /\ [s EXCEPT ![x].cursor = c, ![x].failing = FALSE] \in Snapshot
         /\ [s EXCEPT ![x].cursor = c] \in Snapshot
<1> DEFINE v == [s[x] EXCEPT !.cursor = c, !.failing = FALSE]
           u == [s[x] EXCEPT !.cursor = c]
<1>1. s[x] \in Watch
  BY DEF Snapshot
<1>2. v \in Watch /\ u \in Watch
  BY <1>1 DEF Watch
<1> QED
  BY <1>2 DEF Snapshot

\* A paused watch, or one whose listing failed, is a watch.
LEMMA WithStatusTyped ==
  ASSUME NEW s \in Snapshot, NEW x \in WatchIds
  PROVE  /\ [s EXCEPT ![x].status = "paused"] \in Snapshot
         /\ [s EXCEPT ![x].failing = TRUE] \in Snapshot
<1> DEFINE v == [s[x] EXCEPT !.status = "paused"]
           u == [s[x] EXCEPT !.failing = TRUE]
<1>1. s[x] \in Watch
  BY DEF Snapshot
<1>2. v \in Watch /\ u \in Watch
  BY <1>1 DEF Watch
<1> QED
  BY <1>2 DEF Snapshot

\* The first page is a page, and the connection's binding a binding.
LEMMA FirstTyped ==
  /\ 0 \in 0 .. Pages - 1 /\ 0 \in Bindings
  /\ TypeOK => Connection \in Bindings
BY ConstantsAssumption DEF Bindings, TypeOK, Connection

\* Giving up the lock leaves the variables of the operation well typed.
LEMMA ReturnTyped ==
  ASSUME Return, durable' \in Snapshot
  PROVE  /\ view' \in Snapshot /\ pc' = "idle" /\ then' = "idle"
         /\ kind' = "none" /\ w' = NoId /\ todo' = {} /\ cur' = NoId
         /\ listed' = {} /\ next' \in 0 .. Pages - 1 /\ via' \in Bindings
BY ConstantsAssumption DEF Return, Bindings

\* The bounds of the model stay bounds.
LEMMA BoundsTyped ==
  ASSUME TypeOK, Ask \/ Fault \/ UNCHANGED boundVars
  PROVE  faults' \in 0 .. MaxFaults /\ requests' \in 0 .. MaxRequests
BY ConstantsAssumption DEF TypeOK, Ask, Fault, boundVars

\* The host's new task.
LEMMA HostCreatesTyped ==
  ASSUME TypeOK, w \in WatchIds, cur \in PRs, NEW t, HostCreates(t)
  PROVE  tasks' \in [TaskIds -> HostTask]
<1> DEFINE task == [token |-> view[w].reservations[cur].token, watch |-> w,
                    pr |-> cur, bound |-> view[w].binding, via |-> via]
<1>1. view[w] \in Watch
  BY DEF TypeOK
<1>2. view[w].reservations[cur].token \in TokenRefs
  BY <1>1 DEF Watch, Reservation
<1>3. view[w].binding \in Bindings
  BY <1>1 DEF Watch
<1>4. task \in HostTask
  BY <1>2, <1>3 DEF TypeOK, HostTask
<1> QED
  BY <1>4 DEF HostCreates, TypeOK

\* Every step of a poll keeps the types.
LEMMA AdvanceTyped ==
  ASSUME IInv, Advance
  PROVE  TypeOK'
<1> USE DEF IInv, worldVars, pollVars, callVars, boundVars, Snapshot
<1>1. CASE Save
  <2>1. CASE then = "idle"
    BY <1>1, <2>1, ReturnTyped DEF Save, TypeOK, Unlinked
  <2>2. CASE then # "idle"
    BY <1>1, <2>2 DEF Save, TypeOK, Unlinked
  <2> QED
    BY <2>1, <2>2
<1>2. CASE Fence
  <2>1. [view EXCEPT ![w].status = "paused"] \in Snapshot
    BY <1>2, WithStatusTyped DEF Fence, InHand, TypeOK
  <2> QED
    BY <1>2, <2>1 DEF Fence, SaveThen, TypeOK
<1>3. CASE List
  <2>1. w \in WatchIds /\ view[w].cursor \in 0 .. Pages - 1
    BY <1>3 DEF List, InHand, TypeOK, Watch
  <2>2. next' \in 0 .. Pages - 1
    BY <1>3, <2>1, NextCursorTyped DEF List
  <2>3. todo' \subseteq WatchIds \X PRs /\ listed' \subseteq PRs
    BY <1>3, <2>1 DEF List, TypeOK
  <2>4. via' \in Bindings
    BY <1>3 DEF List, TypeOK, Connection, Bindings
  <2> QED
    BY <1>3, <2>2, <2>3, <2>4 DEF List, TypeOK
<1>4. CASE ListFails /\ Connection = 0
  <2>1. [view EXCEPT ![w].failing = TRUE] \in Snapshot
    BY <1>4, WithStatusTyped DEF ListFails, InHand, TypeOK
  <2> QED
    BY <1>4, <2>1 DEF ListFails, SaveThen, TypeOK
<1>5. CASE Ensure
  <2>1. PICK p \in PRs :
          /\ <<w, p>> \in todo
          /\ EnsureLinked(p) \/ EnsureKnown(p) \/ EnsureLookup(p)
               \/ EnsureReserved(p)
    BY <1>5 DEF Ensure
  <2>2. w \in WatchIds /\ view \in Snapshot /\ view[w] \in Watch
    BY <2>1 DEF TypeOK
  <2>3. CASE EnsureLinked(p)
    <3>1. [view EXCEPT ![w].links[p] = Upgraded(@)] \in Snapshot
      BY <2>2 DEF Upgraded, Watch
    <3> QED
      BY <1>5, <2>3, <3>1 DEF Ensure, EnsureLinked, SaveThen, TypeOK
  <2>4. CASE EnsureKnown(p)
    <3>1. view[w].reservations[p].task \in TaskIds
      BY <2>2, <2>4 DEF EnsureKnown, Watch, Reservation, TaskRefs
    <3> QED
      BY <1>5, <2>2, <2>4, <3>1, WithTaskTyped
      DEF Ensure, EnsureKnown, SaveThen, TypeOK
  <2>5. CASE EnsureLookup(p)
    BY <1>5, <2>5 DEF Ensure, EnsureLookup, TypeOK
  <2>6. CASE EnsureReserved(p)
    <3>1. PICK k \in FreshTokens : SaveThen("create",
            [view EXCEPT ![w].reservations[p] =
               [token |-> k, state |-> "creating", task |-> NoTask]])
      BY <2>6 DEF EnsureReserved
    <3>2. [token |-> k, state |-> "creating", task |-> NoTask] \in Reservation
      BY DEF Reservation, FreshTokens, TokenRefs, TaskRefs
    <3>3. view' \in Snapshot
      BY <2>2, <3>1, <3>2 DEF SaveThen, Watch
    <3> QED
      BY <1>5, <2>6, <3>1, <3>3 DEF Ensure, EnsureReserved, SaveThen, TypeOK
  <2> QED
    BY <2>1, <2>3, <2>4, <2>5, <2>6
<1>6. CASE Find
  <2>1. w \in WatchIds /\ cur \in PRs /\ view \in Snapshot
    BY <1>6 DEF Find, InHand, TypeOK
  <2>2. CASE pc' = "create" /\ UNCHANGED <<view, then, todo, cur>>
    BY <1>6, <2>2 DEF Find, TypeOK
  <2>3. CASE \E t \in TaskIds :
               /\ SaveThen("items", WithTask(view, w, cur, t))
               /\ todo' = todo \ {<<w, cur>>} /\ cur' = NoId
    BY <1>6, <2>1, <2>3, WithTaskTyped DEF Find, SaveThen, TypeOK
  <2> QED
    BY <1>6, <2>2, <2>3 DEF Find, Found
<1>7. CASE CreateTask
  <2>1. w \in WatchIds /\ cur \in PRs /\ view \in Snapshot
    BY <1>7 DEF CreateTask, InHand, TypeOK
  <2>2. PICK t \in TaskIds :
          HostCreates(t) /\ SaveThen("items", WithTask(view, w, cur, t))
    BY <1>7 DEF CreateTask
  <2>3. tasks' \in [TaskIds -> HostTask]
    BY <2>1, <2>2, HostCreatesTyped DEF TypeOK
  <2> QED
    BY <1>7, <2>1, <2>2, <2>3, WithTaskTyped DEF CreateTask, SaveThen, TypeOK
<1>8. CASE CreateRefused
  BY <1>8, ReturnTyped DEF CreateRefused, TypeOK
<1>9. CASE FinishRun
  <2>1. [view EXCEPT ![w].cursor = next, ![w].failing = FALSE] \in Snapshot
    BY <1>9, WithCursorTyped DEF FinishRun, InHand, TypeOK
  <2> QED
    BY <1>9, <2>1 DEF FinishRun, SaveThen, TypeOK
<1>10. CASE Reconcile
  <2>1. PICK xp \in todo :
          /\ todo' = todo \ {xp}
          /\ \/ UNCHANGED view
             \/ \E t \in TaskIds : view' = WithTask(view, xp[1], xp[2], t)
    <3>1. \A xp \in todo :
            view[xp[1]].reservations[xp[2]].task \in TaskRefs
      BY DEF TypeOK, Watch, Reservation
    <3> QED
      BY <1>10, <3>1 DEF Reconcile, Found, TaskRefs
  <2>2. xp[1] \in WatchIds /\ xp[2] \in PRs /\ view \in Snapshot
    BY DEF TypeOK
  <2>3. view' \in Snapshot
    BY ONLY <2>1, <2>2, WithTaskTyped
  <2>4. todo' \subseteq WatchIds \X PRs
    BY <2>1 DEF TypeOK
  <2>5. UNCHANGED <<durable, tasks, released, worldVars, pc, then, kind, w,
                    cur, pollVars, boundVars>>
    BY <1>10 DEF Reconcile
  <2> QED
    BY <2>3, <2>4, <2>5 DEF TypeOK
<1>11. CASE Reconciled
  <2>1. \/ pc' = "tear" /\ UNCHANGED <<view, then, callVars>>
        \/ SaveThen("idle", view) /\ UNCHANGED callVars
        \/ Return
    BY <1>11 DEF Reconciled
  <2> QED
    BY <1>11, <2>1, ReturnTyped DEF Reconciled, SaveThen, TypeOK
<1>12. CASE DeleteOwned
  <2>1. w \in WatchIds /\ view \in Snapshot
    BY <1>12 DEF DeleteOwned, InHand, TypeOK
  <2>2. PICK p \in OwnedLinks(view[w]) :
          /\ HostDeletes(view[w].links[p].task)
          /\ SaveThen("tear", WithPR(view, w, p, NoLink, NoReservation))
    BY <1>12 DEF DeleteOwned
  <2>3. tasks' \in [TaskIds -> HostTask]
    BY <2>2, NothingTyped DEF HostDeletes, TypeOK
  <2>4. view' \in Snapshot
    BY <2>1, <2>2, NothingTyped, WithPRTyped DEF SaveThen, OwnedLinks
  <2> QED
    BY <1>12, <2>2, <2>3, <2>4 DEF DeleteOwned, SaveThen, TypeOK
<1>13. CASE FinishTeardown
  <2>1. [view EXCEPT ![w].cursor = 0, ![w].failing = FALSE] \in Snapshot
    BY <1>13, FirstTyped, WithCursorTyped DEF FinishTeardown, InHand, TypeOK
  <2>2. [view EXCEPT ![w] = NoWatch] \in Snapshot
    BY NothingTyped DEF TypeOK
  <2> QED
    BY <1>13, <2>1, <2>2 DEF FinishTeardown, SaveThen, TypeOK
<1> QED
  BY <1>1, <1>2, <1>3, <1>4, <1>5, <1>6, <1>7, <1>8, <1>9, <1>10, <1>11,
     <1>12, <1>13 DEF Advance

\* So does the start of an operation, and every edit.
LEMMA RequestTyped ==
  ASSUME IInv, Poll \/ Request
  PROVE  TypeOK'
<1> USE DEF IInv, worldVars, pollVars, callVars, boundVars, Snapshot, Start
<1>1. CASE BeginRecover
  BY <1>1 DEF BeginRecover, TypeOK, Creating
<1>2. ASSUME NEW x \in WatchIds, BeginRun(x) PROVE TypeOK'
  BY <1>2 DEF BeginRun, TypeOK
<1>3. ASSUME NEW x \in WatchIds, NEW o \in {"preview", "reset", "delete"},
             BeginTeardown(o, x)
      PROVE  TypeOK'
  BY <1>3, BoundsTyped DEF BeginTeardown, TypeOK, Creating
<1>4. ASSUME NEW x \in WatchIds \cup {NoId}, NEW s \in Snapshot,
             NEW o \in {"create", "pause", "resume", "filter", "detach"},
             Edit(o, x, s)
      PROVE  TypeOK'
  BY <1>4, BoundsTyped DEF Edit, SaveThen, TypeOK
<1>5. ASSUME NEW x \in WatchIds, Create(x) PROVE TypeOK'
  <2>1. Connection \in Bindings
    BY FirstTyped
  <2>2. \A st \in {"running", "paused"} :
          [NoWatch EXCEPT !.status = st, !.binding = Connection] \in Watch
    BY <2>1, NothingTyped DEF Watch
  <2>3. \A st \in {"running", "paused"} : [durable EXCEPT ![x] =
          [NoWatch EXCEPT !.status = st, !.binding = Connection]] \in Snapshot
    BY <2>2 DEF TypeOK
  <2> QED
    BY <1>4, <1>5, <2>3 DEF Create
<1>6. ASSUME NEW x \in WatchIds, Pause(x) PROVE TypeOK'
  <2>1. [durable EXCEPT ![x].status = "paused"] \in Snapshot
    BY WithStatusTyped DEF TypeOK
  <2> QED
    BY <1>4, <1>6, <2>1 DEF Pause
<1>7. ASSUME NEW x \in WatchIds, Resume(x) PROVE TypeOK'
  <2>1. Connection \in Bindings /\ durable[x] \in Watch
    BY FirstTyped DEF TypeOK
  <2>2. /\ [durable[x] EXCEPT !.status = "running", !.binding = Connection,
                              !.cursor = 0, !.failing = FALSE] \in Watch
        /\ [durable[x] EXCEPT !.status = "running"] \in Watch
    BY <2>1, FirstTyped DEF Watch
  <2>3. [durable EXCEPT ![x] =
          IF Connection # 0
            THEN [@ EXCEPT !.status = "running", !.binding = Connection,
                           !.cursor = 0, !.failing = FALSE]
            ELSE [@ EXCEPT !.status = "running"]] \in Snapshot
    BY <2>2 DEF TypeOK
  <2> QED
    BY <1>4, <1>7, <2>3 DEF Resume
<1>8. ASSUME NEW x \in WatchIds, SetFilter(x) PROVE TypeOK'
  <2>1. [durable EXCEPT ![x].cursor = 0] \in Snapshot
    BY FirstTyped, WithCursorTyped DEF TypeOK
  <2> QED
    BY <1>4, <1>8, <2>1 DEF SetFilter
<1>9. ASSUME NEW t \in TaskIds, NEW p \in PRs, DetachTaskLink(t, p)
      PROVE  TypeOK'
  <2> DEFINE s == [x \in WatchIds |->
        IF durable[x].links[p] = [task |-> t, owned |-> TRUE]
          THEN [durable[x] EXCEPT !.links[p] = [task |-> t, owned |-> FALSE]]
          ELSE durable[x]]
  <2>1. [task |-> t, owned |-> FALSE] \in TaskLink
    BY DEF TaskLink, TaskRefs
  <2>2. ASSUME NEW x \in WatchIds PROVE s[x] \in Watch
    <3>1. durable[x] \in Watch
      BY DEF TypeOK
    <3>2. ASSUME NEW watch \in Watch, NEW link \in TaskLink
          PROVE  [watch EXCEPT !.links[p] = link] \in Watch
      BY <3>2 DEF Watch
    <3>3. [durable[x] EXCEPT !.links[p] = [task |-> t, owned |-> FALSE]]
            \in Watch
      BY ONLY <3>1, <3>2, <2>1
    <3> QED
      BY <3>1, <3>3
  <2>3. s \in Snapshot
    BY <2>2
  <2>4. Edit("detach", NoId, s)
    BY <1>9 DEF DetachTaskLink
  <2> QED
    BY <1>4, <2>3, <2>4
<1> QED
  BY <1>1, <1>2, <1>3, <1>5, <1>6, <1>7, <1>8, <1>9 DEF Poll, Request

\* And whatever fails or moves outside.
LEMMA DisturbanceTyped ==
  ASSUME IInv, Failure \/ Outside
  PROVE  TypeOK'
<1> USE DEF IInv, worldVars, pollVars, callVars, boundVars, Snapshot
<1>1. CASE SaveReportedFailed
  BY <1>1, ReturnTyped, BoundsTyped DEF SaveReportedFailed, TypeOK, Unlinked
<1>2. CASE Interrupted
  BY <1>2, ReturnTyped, BoundsTyped DEF Interrupted, TypeOK
<1>3. CASE ListFails
  <2>1. [view EXCEPT ![w].failing = TRUE] \in Snapshot
    BY <1>3, WithStatusTyped DEF ListFails, InHand, TypeOK
  <2>2. Fault \/ UNCHANGED boundVars
    BY <1>3 DEF ListFails
  <2> QED
    BY <1>3, <2>1, <2>2, BoundsTyped DEF ListFails, SaveThen, TypeOK
<1>4. CASE CreateReplyLost
  <2>1. w \in WatchIds /\ cur \in PRs
    BY <1>4 DEF CreateReplyLost, InHand
  <2>2. tasks' \in [TaskIds -> HostTask]
    BY <1>4, <2>1, HostCreatesTyped DEF CreateReplyLost
  <2> QED
    BY <1>4, <2>2, ReturnTyped, BoundsTyped DEF CreateReplyLost, TypeOK
<1>5. CASE DeleteReplyLost
  <2>1. tasks' \in [TaskIds -> HostTask]
    BY <1>5, NothingTyped DEF DeleteReplyLost, HostDeletes, TypeOK
  <2> QED
    BY <1>5, <2>1, ReturnTyped, BoundsTyped DEF DeleteReplyLost, TypeOK
<1>6. CASE Connect
  <2>1. epoch' \in Bindings
    BY <1>6, ConstantsAssumption DEF Connect, World, TypeOK, Bindings
  <2>2. /\ connected' = TRUE /\ Ask
        /\ UNCHANGED <<durable, tasks, open, released, pc, view, then, callVars>>
    BY <1>6 DEF Connect, World
  <2> QED
    BY <2>1, <2>2, BoundsTyped DEF TypeOK
<1>7. CASE Disconnect
  <2>1. epoch' \in Bindings
    BY <1>7 DEF Disconnect, World, TypeOK
  <2>2. /\ connected' = FALSE /\ Ask
        /\ UNCHANGED <<durable, tasks, open, released, pc, view, then, callVars>>
    BY <1>7 DEF Disconnect, World
  <2>3. faults' \in 0 .. MaxFaults /\ requests' \in 0 .. MaxRequests
    BY <2>2, BoundsTyped
  <2>4. connected' \in BOOLEAN /\ open' \subseteq PRs /\ released' \subseteq TaskIds
    BY <2>2 DEF TypeOK
  <2>5. UNCHANGED <<durable, tasks, pc, view, then, kind, w, cur, todo, listed,
                    next, via>>
    BY <2>2 DEF callVars
  <2> QED
    BY <2>1, <2>3, <2>4, <2>5 DEF TypeOK
<1>8. ASSUME NEW p \in PRs, OpenOrClose(p) PROVE TypeOK'
  BY <1>8, BoundsTyped DEF OpenOrClose, World, TypeOK
<1>9. ASSUME NEW t \in TaskIds, PersonDeletesTask(t) PROVE TypeOK'
  <2>1. tasks' \in [TaskIds -> HostTask]
    BY <1>9, NothingTyped DEF PersonDeletesTask, World, HostDeletes, TypeOK
  <2> QED
    BY <1>9, <2>1, BoundsTyped DEF PersonDeletesTask, World, TypeOK
<1> QED
  BY <1>1, <1>2, <1>3, <1>4, <1>5, <1>6, <1>7, <1>8, <1>9
  DEF Failure, Outside

\* Every step keeps the types.
LEMMA NextTyped ==
  ASSUME IInv, [Next]_vars
  PROVE  TypeOK'
<1>1. CASE UNCHANGED vars
  BY <1>1 DEF IInv, TypeOK, vars, worldVars, pollVars, callVars, boundVars
<1> QED
  BY <1>1, AdvanceTyped, RequestTyped, DisturbanceTyped DEF Next

\* The host's tasks.
HostTasks == [TaskIds -> HostTask]

-----------------------------------------------------------------------------
(* How the accounts change with a snapshot. *)

\* Two snapshots with the same links, reservations and watches.
Same(s, v) ==
  \A x \in WatchIds :
    /\ Exists(s, x) <=> Exists(v, x)
    /\ \A p \in PRs : /\ LinkAt(v, x, p) = LinkAt(s, x, p)
                      /\ ReservationAt(v, x, p) = ReservationAt(s, x, p)

\* Accounts depend on a snapshot only through its links, its reservations and
\* which watches exist.
LEMMA SameAccounts ==
  ASSUME NEW s, NEW v, NEW T, NEW R, NEW Q,
         Same(s, v), Marked(T), Accounts(s, T, R, Q)
  PROVE  Accounts(v, T, R, Q)
<1>1. Shape(v)
  BY DEF Accounts, Same, Shape
<1>2. Holds(v, T, R)
  BY DEF Accounts, Same, Holds, Marked
<1>3. Unowned(v, Q)
  BY DEF Accounts, Same, Unowned
<1> QED
  BY <1>1, <1>2, <1>3 DEF Accounts

\* Released tasks only grow in number.
LEMMA MoreReleased ==
  ASSUME NEW s, NEW T, NEW R, NEW Q, NEW R2, NEW Q2,
         Accounts(s, T, R, Q), R \subseteq R2, Q \subseteq Q2
  PROVE  Accounts(s, T, R2, Q2)
BY DEF Accounts, Holds, Unowned

\* The link and the reservation of one pull request changed, no other.
LEMMA WithPRAt ==
  ASSUME NEW s \in Snapshot, NEW x \in WatchIds, NEW p \in PRs,
         NEW link, NEW reservation,
         NEW y \in WatchIds, NEW q \in PRs
  PROVE  LET v == WithPR(s, x, p, link, reservation) IN
         /\ Exists(v, y) <=> Exists(s, y)
         /\ LinkAt(v, y, q) = IF y = x /\ q = p THEN link ELSE LinkAt(s, y, q)
         /\ ReservationAt(v, y, q) =
              IF y = x /\ q = p THEN reservation ELSE ReservationAt(s, y, q)
<1> DEFINE l == [s[x].links EXCEPT ![p] = link]
           r == [s[x].reservations EXCEPT ![p] = reservation]
           u == [s[x] EXCEPT !.links = l, !.reservations = r]
<1>1. s[x] \in Watch /\ s[y] \in Watch
  BY DEF Snapshot
<1>2. WithPR(s, x, p, link, reservation) = [s EXCEPT ![x] = u]
  BY DEF WithPR
<1>3. /\ l[q] = IF q = p THEN link ELSE s[x].links[q]
      /\ r[q] = IF q = p THEN reservation ELSE s[x].reservations[q]
  BY <1>1 DEF Watch
<1>4. u.links = l /\ u.reservations = r /\ u.status = s[x].status
  BY <1>1 DEF Watch
<1>5. [s EXCEPT ![x] = u][y] = IF y = x THEN u ELSE s[y]
  BY DEF Snapshot
<1> HIDE DEF l, r, u
<1> QED
  BY <1>2, <1>3, <1>4, <1>5 DEF LinkAt, ReservationAt, Exists

\* A change of the reservation alone keeps the link of the pull request.
LEMMA ReservedIsWithPR ==
  ASSUME NEW s \in Snapshot, NEW x \in WatchIds, NEW p \in PRs, NEW reservation
  PROVE  [s EXCEPT ![x].reservations[p] = reservation] =
         WithPR(s, x, p, LinkAt(s, x, p), reservation)
<1> DEFINE l == [s[x].links EXCEPT ![p] = s[x].links[p]]
           r == [s[x].reservations EXCEPT ![p] = reservation]
<1>1. s[x] \in Watch
  BY DEF Snapshot
<1>2. l = s[x].links
  BY <1>1 DEF Watch
<1>3. [s[x] EXCEPT !.links = l] = s[x]
  BY <1>1, <1>2 DEF Watch
<1>4. WithPR(s, x, p, LinkAt(s, x, p), reservation) =
        [s EXCEPT ![x] = [[s[x] EXCEPT !.links = l] EXCEPT !.reservations = r]]
  BY DEF WithPR, LinkAt
<1>5. [s EXCEPT ![x].reservations[p] = reservation] =
        [s EXCEPT ![x] = [s[x] EXCEPT !.reservations = r]]
  OBVIOUS
<1> HIDE DEF l, r
<1> QED
  BY <1>3, <1>4, <1>5

\* A reserved pull request is recorded with the task that has its token.
LEMMA LinkAccounts ==
  ASSUME NEW s \in Snapshot, NEW T, NEW R, NEW Q, Accounts(s, T, R, Q),
         Marked(T), NEW x \in WatchIds, NEW p \in PRs, NEW t \in TaskIds,
         ReservationAt(s, x, p).state = "creating",
         t \in Marking(T, ReservationAt(s, x, p).token)
  PROVE  Accounts(WithTask(s, x, p, t), T, R, Q)
<1> DEFINE r == [ReservationAt(s, x, p) EXCEPT !.state = "created", !.task = t]
           l == [task |-> t, owned |-> TRUE]
           v == WithTask(s, x, p, t)
<1>1. v = WithPR(s, x, p, l, r)
  BY DEF WithTask, ReservationAt
<1>2. \A y \in WatchIds, q \in PRs :
        /\ Exists(v, y) <=> Exists(s, y)
        /\ LinkAt(v, y, q) = IF y = x /\ q = p THEN l ELSE LinkAt(s, y, q)
        /\ ReservationAt(v, y, q) =
             IF y = x /\ q = p THEN r ELSE ReservationAt(s, y, q)
  BY <1>1, WithPRAt
<1>3. /\ r.token = ReservationAt(s, x, p).token /\ r.state = "created"
      /\ r.task = t
  BY DEF Snapshot, Watch, Reservation, ReservationAt
<1>4. ReservationAt(s, x, p).token \in Tokens /\ Exists(s, x)
  BY DEF Accounts, Shape, Shaped, NoReservation
<1>5. l.task = t /\ l.owned = TRUE
  OBVIOUS
<1> HIDE DEF v, r, l
<1>6. Shape(v)
  BY <1>2, <1>3, <1>4, <1>5 DEF Accounts, Shape, Shaped
<1>7. Holds(v, T, R)
  BY <1>2, <1>3 DEF Accounts, Holds, Marked, Marking
<1>8. Unowned(v, Q)
  BY <1>2, <1>5 DEF Accounts, Unowned
<1> QED
  BY <1>6, <1>7, <1>8 DEF Accounts, v

\* A free pull request is reserved with a token nothing holds.
LEMMA ReserveAccounts ==
  ASSUME NEW s \in Snapshot, NEW T, NEW R, NEW Q, Accounts(s, T, R, Q),
         Marked(T), NEW x \in WatchIds, NEW p \in PRs, NEW k \in Tokens,
         Exists(s, x), ReservationAt(s, x, p).state = "none",
         Marking(T, k) = {},
         \A y \in WatchIds, q \in PRs : ReservationAt(s, y, q).token # k
  PROVE  Accounts(WithPR(s, x, p, LinkAt(s, x, p),
           [token |-> k, state |-> "creating", task |-> NoTask]), T, R, Q)
<1> DEFINE reservation == [token |-> k, state |-> "creating", task |-> NoTask]
           v == WithPR(s, x, p, LinkAt(s, x, p), reservation)
<1>1. \A y \in WatchIds, q \in PRs :
        /\ Exists(v, y) <=> Exists(s, y)
        /\ LinkAt(v, y, q) = LinkAt(s, y, q)
        /\ ReservationAt(v, y, q) =
             IF y = x /\ q = p THEN reservation ELSE ReservationAt(s, y, q)
  BY WithPRAt
<1>2. /\ reservation.token = k /\ reservation.state = "creating"
      /\ reservation.task = NoTask
  OBVIOUS
<1>3. ReservationAt(s, x, p) = NoReservation /\ LinkAt(s, x, p) = NoLink
  BY DEF Accounts, Shape, Shaped
<1>4. ReservationAt(s, x, p).token = NoToken
  BY <1>3 DEF NoReservation
<1> HIDE DEF v, reservation
<1>5. Shape(v)
  <2>1. ASSUME NEW y \in WatchIds, NEW q \in PRs
        PROVE  /\ Shaped(LinkAt(v, y, q), ReservationAt(v, y, q))
               /\ ~Exists(v, y) => ReservationAt(v, y, q) = NoReservation
    BY <1>1, <1>2, <1>3 DEF Accounts, Shape, Shaped
  <2>2. ASSUME NEW y \in WatchIds, NEW z \in WatchIds,
               NEW q \in PRs, NEW o \in PRs,
               ReservationAt(v, y, q).token = ReservationAt(v, z, o).token,
               ReservationAt(v, y, q).token # NoToken
        PROVE  y = z /\ q = o
    BY <1>1, <1>2, <2>2 DEF Accounts, Shape
  <2> QED
    BY <2>1, <2>2 DEF Shape
<1>6. Holds(v, T, R)
  <2> SUFFICES ASSUME NEW t \in TaskIds, T[t] # NoHostTask
               PROVE  /\ t \notin R =>
                           ReservationAt(v, T[t].watch, T[t].pr).token = T[t].token
                      /\ \A y \in WatchIds, q \in PRs :
                           /\ ReservationAt(v, y, q).state = "created"
                           /\ ReservationAt(v, y, q).token = T[t].token
                           => t = ReservationAt(v, y, q).task
    BY DEF Holds
  <2>1. T[t].token \in Tokens /\ T[t].watch \in WatchIds /\ T[t].pr \in PRs
    BY DEF Marked
  <2>2. T[t].token # NoToken
    BY <2>1, ConstantsAssumption
  <2> QED
    BY <1>1, <1>2, <1>4, <2>1, <2>2 DEF Accounts, Holds
<1>7. Unowned(v, Q)
  BY <1>1 DEF Accounts, Unowned
<1> QED
  BY <1>5, <1>6, <1>7 DEF Accounts, v, reservation

-----------------------------------------------------------------------------
(* How they change with the host's tasks. *)

WithHostTask(T, t, task) == [T EXCEPT ![t] = task]

\* A task is deleted.
LEMMA DeleteAccounts ==
  ASSUME NEW s, NEW T \in HostTasks, NEW R, NEW Q, NEW t,
         Marked(T), Accounts(s, T, R, Q)
  PROVE  /\ Marked(WithHostTask(T, t, NoHostTask))
         /\ Accounts(s, WithHostTask(T, t, NoHostTask), R, Q)
         /\ \A k : Marking(WithHostTask(T, t, NoHostTask), k)
                    \subseteq Marking(T, k)
<1> DEFINE U == WithHostTask(T, t, NoHostTask)
<1>1. \A u \in TaskIds : U[u] # NoHostTask => u # t /\ U[u] = T[u]
  BY DEF WithHostTask, HostTasks
<1>2. \A u \in TaskIds : U[u] # NoHostTask => U[u] = T[u] /\ T[u] # NoHostTask
  BY <1>1
<1> HIDE DEF U
<1>3. Marked(U)
  BY <1>2 DEF Marked
<1>4. Holds(s, U, R)
  BY <1>2 DEF Accounts, Holds
<1>5. \A k : Marking(U, k) \subseteq Marking(T, k)
  BY <1>2 DEF Marking
<1> QED
  BY <1>3, <1>4, <1>5 DEF Accounts, U

\* A task is created with the token of a reservation that has none yet.
LEMMA CreateAccounts ==
  ASSUME NEW s, NEW T \in HostTasks, NEW R, NEW Q, NEW t \in TaskIds,
         Marked(T), Accounts(s, T, R, Q), T[t] = NoHostTask,
         NEW x \in WatchIds, NEW p \in PRs, NEW task,
         task.watch = x, task.pr = p,
         task.token = ReservationAt(s, x, p).token,
         ReservationAt(s, x, p).state = "creating",
         Marking(T, ReservationAt(s, x, p).token) = {}
  PROVE  /\ Marked(WithHostTask(T, t, task))
         /\ Accounts(s, WithHostTask(T, t, task), R, Q)
<1> DEFINE U == WithHostTask(T, t, task)
<1>1. U[t] = task /\ \A u \in TaskIds : u # t => U[u] = T[u]
  BY DEF WithHostTask, HostTasks
<1>2. task.token \in Tokens /\ task.token # NoToken
  BY ConstantsAssumption DEF Accounts, Shape, Shaped, NoReservation
<1>3. \A u \in TaskIds : u # t /\ U[u] # NoHostTask =>
        T[u] # NoHostTask /\ U[u] = T[u] /\ U[u].token # task.token
  BY <1>1 DEF Marking
<1> HIDE DEF U
<1>4. Marked(U)
  BY <1>1, <1>2, <1>3 DEF Marked
<1>5. Holds(s, U, R)
  <2> SUFFICES ASSUME NEW u \in TaskIds, U[u] # NoHostTask
               PROVE  /\ u \notin R =>
                           ReservationAt(s, U[u].watch, U[u].pr).token = U[u].token
                      /\ \A y \in WatchIds, q \in PRs :
                           /\ ReservationAt(s, y, q).state = "created"
                           /\ ReservationAt(s, y, q).token = U[u].token
                           => u = ReservationAt(s, y, q).task
    BY DEF Holds
  <2>1. CASE u = t
    <3>1. \A y \in WatchIds, q \in PRs :
            ReservationAt(s, y, q).token = task.token => y = x /\ q = p
      BY <1>2 DEF Accounts, Shape
    <3> QED
      BY <1>1, <2>1, <3>1
  <2>2. CASE u # t
    BY <1>3, <2>2 DEF Accounts, Holds
  <2> QED
    BY <2>1, <2>2
<1> QED
  BY <1>4, <1>5 DEF Accounts, U

\* An owned link, its reservation and its task go together.
LEMMA ForgetAccounts ==
  ASSUME NEW s \in Snapshot, NEW T \in HostTasks, NEW R, NEW Q,
         Marked(T), Accounts(s, T, R, Q), NEW x \in WatchIds, NEW p \in PRs,
         LinkAt(s, x, p).task # NoTask
  PROVE  Accounts(WithPR(s, x, p, NoLink, NoReservation),
                  WithHostTask(T, LinkAt(s, x, p).task, NoHostTask), R, Q)
<1> DEFINE v == WithPR(s, x, p, NoLink, NoReservation)
           U == WithHostTask(T, LinkAt(s, x, p).task, NoHostTask)
<1>1. \A y \in WatchIds, q \in PRs :
        /\ Exists(v, y) <=> Exists(s, y)
        /\ LinkAt(v, y, q) = IF y = x /\ q = p THEN NoLink ELSE LinkAt(s, y, q)
        /\ ReservationAt(v, y, q) =
             IF y = x /\ q = p THEN NoReservation ELSE ReservationAt(s, y, q)
  BY WithPRAt
<1>2. /\ ReservationAt(s, x, p).state = "created"
      /\ ReservationAt(s, x, p).task = LinkAt(s, x, p).task
  BY DEF Accounts, Shape, Shaped, NoLink
<1>3. \A u \in TaskIds : U[u] # NoHostTask =>
        u # LinkAt(s, x, p).task /\ U[u] = T[u] /\ T[u] # NoHostTask
  BY DEF WithHostTask, HostTasks
<1>4. /\ NoReservation.token = NoToken /\ NoReservation.state = "none"
      /\ NoLink.task = NoTask
  BY DEF NoReservation, NoLink
<1> HIDE DEF v, U
<1>5. Shape(v)
  BY <1>1, <1>4 DEF Accounts, Shape, Shaped
<1>6. Holds(v, U, R)
  <2> SUFFICES ASSUME NEW u \in TaskIds, U[u] # NoHostTask
               PROVE  /\ u \notin R =>
                           ReservationAt(v, U[u].watch, U[u].pr).token = U[u].token
                      /\ \A y \in WatchIds, q \in PRs :
                           /\ ReservationAt(v, y, q).state = "created"
                           /\ ReservationAt(v, y, q).token = U[u].token
                           => u = ReservationAt(v, y, q).task
    BY DEF Holds
  <2>1. u # LinkAt(s, x, p).task /\ U[u] = T[u] /\ T[u] # NoHostTask
    BY <1>3
  <2>2. T[u].watch \in WatchIds /\ T[u].pr \in PRs
    BY <2>1 DEF Marked
  <2>3. T[u].token # ReservationAt(s, x, p).token
    BY <1>2, <2>1 DEF Accounts, Holds
  <2> QED
    BY <1>1, <1>4, <2>1, <2>2, <2>3 DEF Accounts, Holds
<1>7. Unowned(v, Q)
  BY <1>1, <1>4 DEF Accounts, Unowned
<1> QED
  BY <1>5, <1>6, <1>7 DEF Accounts, v, U

-----------------------------------------------------------------------------
(* How they change with a watch. *)

\* A watch without owned links and without lost tasks is dropped.
LEMMA DropAccounts ==
  ASSUME NEW s \in Snapshot, NEW T, NEW R,
         Marked(T), Accounts(s, T, R, R), NEW x \in WatchIds,
         OwnedLinks(s[x]) = {}, Settled(s, T, x, {})
  PROVE  Accounts([s EXCEPT ![x] = NoWatch], T, R, R)
<1> DEFINE v == [s EXCEPT ![x] = NoWatch]
<1>1. \A p \in PRs : LinkAt(v, x, p) = NoLink
                      /\ ReservationAt(v, x, p) = NoReservation
  BY DEF Snapshot, LinkAt, ReservationAt, NoWatch
<1>2. \A y \in WatchIds, p \in PRs : y # x =>
        /\ Exists(v, y) <=> Exists(s, y)
        /\ LinkAt(v, y, p) = LinkAt(s, y, p)
        /\ ReservationAt(v, y, p) = ReservationAt(s, y, p)
  BY DEF Snapshot, LinkAt, ReservationAt, Exists
<1>3. /\ NoReservation.token = NoToken /\ NoReservation.state = "none"
      /\ NoLink.task = NoTask
  BY DEF NoReservation, NoLink
<1>4. \A p \in PRs : ReservationAt(s, x, p).state = "created" =>
        LinkAt(s, x, p).task \in R
  <2> SUFFICES ASSUME NEW p \in PRs, ReservationAt(s, x, p).state = "created"
               PROVE  LinkAt(s, x, p).task \in R
    OBVIOUS
  <2>1. LinkAt(s, x, p).task \in TaskIds
    BY <1>3 DEF Accounts, Shape, Shaped
  <2>2. LinkAt(s, x, p).task # NoTask
    BY <2>1, ConstantsAssumption
  <2>3. ~LinkAt(s, x, p).owned
    BY <2>2 DEF OwnedLinks, LinkAt
  <2> QED
    BY <2>2, <2>3 DEF Accounts, Unowned
<1> HIDE DEF v
<1>5. Shape(v)
  BY <1>1, <1>2, <1>3 DEF Accounts, Shape, Shaped
<1>6. Holds(v, T, R)
  <2> SUFFICES ASSUME NEW t \in TaskIds, T[t] # NoHostTask
               PROVE  /\ t \notin R =>
                           ReservationAt(v, T[t].watch, T[t].pr).token = T[t].token
                      /\ \A y \in WatchIds, q \in PRs :
                           /\ ReservationAt(v, y, q).state = "created"
                           /\ ReservationAt(v, y, q).token = T[t].token
                           => t = ReservationAt(v, y, q).task
    BY DEF Holds
  <2>1. T[t].token \in Tokens /\ T[t].watch \in WatchIds /\ T[t].pr \in PRs
    BY DEF Marked
  <2>2. ASSUME t \notin R, T[t].watch = x PROVE FALSE
    <3> DEFINE r == ReservationAt(s, x, T[t].pr)
    <3>1. r.token = T[t].token
      BY <2>2 DEF Accounts, Holds
    <3>2. r.state \in {"creating", "created"}
      BY <1>3, <2>1, <3>1, ConstantsAssumption DEF Accounts, Shape, Shaped
    <3>3. r.state # "creating"
      BY <2>1, <3>1 DEF Settled, Marking
    <3>4. r.state = "created"
      BY <3>2, <3>3
    <3>5. t = r.task /\ r.task = LinkAt(s, x, T[t].pr).task
      BY <1>3, <2>1, <3>1, <3>4 DEF Accounts, Holds, Shape, Shaped
    <3> QED
      BY <1>4, <2>1, <2>2, <3>4, <3>5
  <2> QED
    BY <1>1, <1>2, <1>3, <2>1, <2>2 DEF Accounts, Holds
<1>7. Unowned(v, R)
  BY <1>1, <1>2, <1>3 DEF Accounts, Unowned
<1> QED
  BY <1>5, <1>6, <1>7 DEF Accounts, v

\* A watch that did not exist is created.
LEMMA NewAccounts ==
  ASSUME NEW s \in Snapshot, NEW T, NEW R, NEW Q,
         Marked(T), Accounts(s, T, R, Q), NEW x \in WatchIds, ~Exists(s, x),
         NEW st, NEW b
  PROVE  Accounts([s EXCEPT ![x] =
           [NoWatch EXCEPT !.status = st, !.binding = b]], T, R, Q)
<1> DEFINE v == [s EXCEPT ![x] = [NoWatch EXCEPT !.status = st, !.binding = b]]
<1>1. \A p \in PRs : /\ ReservationAt(s, x, p) = NoReservation
                      /\ LinkAt(s, x, p) = NoLink
  BY DEF Accounts, Shape, Shaped, NoReservation
<1>2. \A p \in PRs : LinkAt(v, x, p) = NoLink
                      /\ ReservationAt(v, x, p) = NoReservation
  BY DEF Snapshot, LinkAt, ReservationAt, NoWatch
<1>3. \A y \in WatchIds, p \in PRs :
        /\ y # x => (Exists(v, y) <=> Exists(s, y))
        /\ LinkAt(v, y, p) = LinkAt(s, y, p)
        /\ ReservationAt(v, y, p) = ReservationAt(s, y, p)
  BY <1>1, <1>2 DEF Snapshot, LinkAt, ReservationAt, Exists
<1> HIDE DEF v
<1>4. Shape(v)
  BY <1>1, <1>3 DEF Accounts, Shape, Shaped
<1>5. Holds(v, T, R)
  BY <1>3 DEF Accounts, Holds, Marked
<1>6. Unowned(v, Q)
  BY <1>3 DEF Accounts, Unowned
<1> QED
  BY <1>4, <1>5, <1>6 DEF Accounts, v

\* Links of a task are detached; the task is about to be released.
LEMMA DetachAccounts ==
  ASSUME NEW s, NEW v, NEW T, NEW R, NEW Q,
         Marked(T), Accounts(s, T, R, R), NEW t \in TaskIds, NEW p \in PRs,
         \A x \in WatchIds, q \in PRs :
           /\ Exists(v, x) <=> Exists(s, x)
           /\ ReservationAt(v, x, q) = ReservationAt(s, x, q)
           /\ LinkAt(v, x, q).task = LinkAt(s, x, q).task
           /\ LinkAt(s, x, q) = NoLink => LinkAt(v, x, q) = NoLink
           /\ \/ LinkAt(v, x, q) = LinkAt(s, x, q)
              \/ LinkAt(v, x, q).task \in Q,
         R \subseteq Q
  PROVE  Accounts(v, T, R, Q)
<1>1. Shape(v)
  BY DEF Accounts, Shape, Shaped
<1>2. Holds(v, T, R)
  BY DEF Accounts, Holds, Marked
<1>3. Unowned(v, Q)
  BY DEF Accounts, Unowned
<1> QED
  BY <1>1, <1>2, <1>3 DEF Accounts

-----------------------------------------------------------------------------
(* How the invariant is kept: what the steps have in common. *)

\* The lock is given up: the working copy is the saved snapshot again.
LEMMA ReturnKeeps ==
  ASSUME Return, Marked(tasks)', Accounts(durable, tasks, released, released)'
  PROVE  InHand' /\ Accounted'
<1>1. /\ pc' = "idle" /\ then' = "idle" /\ kind' = "none"
      /\ view' = durable'
  BY DEF Return
<1>2. InHand'
  BY <1>1 DEF InHand
<1>3. Releasing' = {}
  BY <1>1 DEF Releasing
<1>4. Accounts(view, tasks, released, released \cup Releasing)'
  BY <1>1, <1>3
<1> QED
  BY <1>2, <1>4 DEF Accounted

\* A working copy that is about to be saved, the operation done after it.
LEMMA LastSaveKeeps ==
  ASSUME NEW s, SaveThen("idle", s), kind' # "detach",
         Marked(tasks)', Accounts(durable, tasks, released, released)',
         Accounts(s, tasks', released', released')
  PROVE  InHand' /\ Accounted'
<1>1. pc' = "save" /\ then' = "idle" /\ view' = s
  BY DEF SaveThen
<1>2. InHand'
  BY <1>1 DEF InHand
<1>3. Releasing' = {}
  BY DEF Releasing
<1>4. Accounts(view, tasks, released, released \cup Releasing)'
  BY <1>1, <1>3
<1> QED
  BY <1>2, <1>4 DEF Accounted

\* Outside a detach the working copy releases nothing.
LEMMA Undetached ==
  ASSUME IInv, pc # "save" \/ then # "idle" \/ kind # "detach"
  PROVE  /\ kind # "detach" /\ Releasing = {}
         /\ Accounts(view, tasks, released, released)
<1>1. kind # "detach" /\ Releasing = {}
  BY DEF IInv, InHand, Releasing
<1> QED
  BY <1>1 DEF IInv, Accounted

\* A step that changes no snapshot, no task and no operation kind keeps the
\* accounts.
LEMMA QuietAccounted ==
  ASSUME Accounted, UNCHANGED <<durable, tasks, released, view, kind>>
  PROVE  Accounted'
BY DEF Accounted, Releasing

\* A page, status or failure that changes in a snapshot changes no account.
LEMMA SameEdits ==
  ASSUME NEW s \in Snapshot, NEW x \in WatchIds, Exists(s, x), NEW c, NEW f,
         NEW st \in {"running", "paused"}
  PROVE  /\ Same(s, [s EXCEPT ![x].status = st])
         /\ Same(s, [s EXCEPT ![x].failing = f])
         /\ Same(s, [s EXCEPT ![x].cursor = c])
         /\ Same(s, [s EXCEPT ![x].cursor = c, ![x].failing = f])
<1>1. s[x] \in Watch
  BY DEF Snapshot
<1>2. Same(s, [s EXCEPT ![x].status = st])
  BY <1>1 DEF Same, Snapshot, Watch, Exists, LinkAt, ReservationAt
<1>3. Same(s, [s EXCEPT ![x].failing = f])
  BY <1>1 DEF Same, Snapshot, Watch, Exists, LinkAt, ReservationAt
<1>4. Same(s, [s EXCEPT ![x].cursor = c])
  BY <1>1 DEF Same, Snapshot, Watch, Exists, LinkAt, ReservationAt
<1>5. Same(s, [s EXCEPT ![x].cursor = c, ![x].failing = f])
  <2> DEFINE v == [s[x] EXCEPT !.cursor = c, !.failing = f]
  <2>1. /\ v.status = s[x].status /\ v.links = s[x].links
        /\ v.reservations = s[x].reservations
    BY <1>1 DEF Watch
  <2> HIDE DEF v
  <2>2. Same(s, [s EXCEPT ![x] = v])
    BY <2>1 DEF Same, Snapshot, Exists, LinkAt, ReservationAt
  <2> QED
    BY <2>2 DEF v
<1> QED
  BY <1>2, <1>3, <1>4, <1>5

-----------------------------------------------------------------------------
(* Saving, returning, failing. *)

\* A save makes the working copy the saved snapshot.
LEMMA SaveKeeps ==
  ASSUME IInv, Save
  PROVE  InHand' /\ Accounted'
<1> USE DEF IInv
<1>1. /\ pc = "save" /\ durable' = view /\ UNCHANGED tasks
      /\ released' = released \cup Unlinked(durable, view)
  BY DEF Save
<1>2. released \cup Releasing \subseteq released'
  BY <1>1 DEF Releasing
<1>3. Accounts(durable, tasks, released, released)'
  BY <1>1, <1>2, MoreReleased DEF Accounted
<1>4. Marked(tasks)'
  BY <1>1 DEF Accounted
<1>5. CASE then = "idle"
  BY <1>3, <1>4, <1>5, ReturnKeeps DEF Save
<1>6. CASE then # "idle"
  <2>1. /\ pc' = then /\ then' = "idle" /\ view' = view
        /\ UNCHANGED <<kind, w, cur, todo, tasks>>
    BY <1>6 DEF Save, callVars
  <2>2. kind # "detach"
    BY <1>6 DEF InHand
  <2>3. Accounted'
    BY <1>1, <1>3, <1>4, <2>1, <2>2 DEF Accounted, Releasing
  <2>4. then \in {"items", "create", "tear"}
    BY <1>6 DEF TypeOK
  <2>5. InHand'
    BY <1>1, <1>6, <2>1, <2>2, <2>4 DEF InHand
  <2> QED
    BY <2>3, <2>5
<1> QED
  BY <1>5, <1>6

\* A call that fails, or whose answer is lost, drops the working copy.
LEMMA FailureKeeps ==
  ASSUME IInv, SaveReportedFailed \/ Interrupted \/ CreateRefused
  PROVE  InHand' /\ Accounted'
<1> USE DEF IInv
<1>1. CASE SaveReportedFailed
  <2>1. /\ durable' = view /\ UNCHANGED tasks
        /\ released' = released \cup Unlinked(durable, view)
    BY <1>1 DEF SaveReportedFailed
  <2>2. released \cup Releasing \subseteq released'
    BY <2>1 DEF Releasing
  <2>3. Accounts(durable, tasks, released, released)' /\ Marked(tasks)'
    BY <2>1, <2>2, MoreReleased DEF Accounted
  <2> QED
    BY <1>1, <2>3, ReturnKeeps DEF SaveReportedFailed
<1>2. CASE Interrupted
  BY <1>2, ReturnKeeps DEF Interrupted, Accounted
<1>3. CASE CreateRefused
  BY <1>3, ReturnKeeps DEF CreateRefused, Accounted
<1> QED
  BY <1>1, <1>2, <1>3

-----------------------------------------------------------------------------
(* The steps of a poll. *)

\* The steps of a poll before and after its pull requests.
LEMMA PollKeeps ==
  ASSUME IInv, Fence \/ List \/ ListFails \/ FinishRun
  PROVE  InHand' /\ Accounted'
<1> USE DEF IInv
<1>1. /\ w \in WatchIds /\ Exists(view, w) /\ view \in Snapshot
      /\ view = durable
  BY DEF Fence, List, ListFails, FinishRun, InHand, TypeOK, Snapshot
<1>2. kind # "detach" /\ Accounts(view, tasks, released, released)
  BY Undetached DEF Fence, List, ListFails, FinishRun
<1>3. UNCHANGED <<durable, tasks, released, kind, w>>
  BY DEF Fence, List, ListFails, FinishRun, callVars
<1>4. Marked(tasks)' /\ Accounts(durable, tasks, released, released)'
  BY <1>3 DEF Accounted
<1>5. ASSUME NEW s, Same(view, s), SaveThen("idle", s)
      PROVE  InHand' /\ Accounted'
  <2>1. Accounts(s, tasks', released', released')
    BY <1>2, <1>3, <1>5, SameAccounts DEF Accounted
  <2> QED
    BY <1>2, <1>3, <1>4, <1>5, <2>1, LastSaveKeeps
<1>6. CASE Fence
  <2>1. CASE SaveThen("idle", [view EXCEPT ![w].status = "paused"])
    BY <1>1, <1>5, <2>1, SameEdits
  <2>2. CASE pc' = "list" /\ UNCHANGED <<view, then>>
    <3>1. then = "idle"
      BY <1>6 DEF Fence, InHand, TypeOK
    <3>2. InHand'
      BY <1>1, <1>2, <1>3, <2>2, <3>1 DEF InHand
    <3> QED
      BY <1>3, <2>2, <3>2, QuietAccounted
  <2> QED
    BY <1>6, <2>1, <2>2 DEF Fence
<1>7. CASE List
  <2>1. pc' = "items" /\ UNCHANGED <<view, then>> /\ then = "idle"
    BY <1>7 DEF List, InHand, TypeOK
  <2>2. InHand'
    BY <1>1, <1>2, <1>3, <2>1 DEF InHand
  <2> QED
    BY <1>3, <2>1, <2>2, QuietAccounted
<1>8. CASE ListFails
  BY <1>1, <1>5, <1>8, SameEdits DEF ListFails
<1>9. CASE FinishRun
  BY <1>1, <1>5, <1>9, SameEdits DEF FinishRun
<1> QED
  BY <1>6, <1>7, <1>8, <1>9

\* A snapshot saved in the middle of a page.
LEMMA NextItemKeeps ==
  ASSUME NEW s, SaveThen("items", s), w' \in WatchIds, Exists(s, w'),
         kind' # "detach",
         Marked(tasks)', Accounts(durable, tasks, released, released)',
         Accounts(s, tasks', released', released')
  PROVE  InHand' /\ Accounted'
<1>1. pc' = "save" /\ then' = "items" /\ view' = s
  BY DEF SaveThen
<1>2. InHand'
  BY <1>1 DEF InHand
<1>3. Releasing' = {}
  BY DEF Releasing
<1>4. Accounts(view, tasks, released, released \cup Releasing)'
  BY <1>1, <1>3
<1> QED
  BY <1>2, <1>4 DEF Accounted

\* ensureTask up to the lookup or the reservation.
LEMMA EnsureKeeps ==
  ASSUME IInv, Ensure
  PROVE  InHand' /\ Accounted'
<1> USE DEF IInv
<1>1. PICK p \in PRs :
        /\ <<w, p>> \in todo
        /\ EnsureLinked(p) \/ EnsureKnown(p) \/ EnsureLookup(p)
             \/ EnsureReserved(p)
  BY DEF Ensure
<1>2. /\ pc = "items" /\ w \in WatchIds /\ Exists(view, w)
      /\ view \in Snapshot /\ view = durable /\ then = "idle"
  BY DEF Ensure, InHand, TypeOK, Snapshot
<1>3. kind # "detach" /\ Accounts(view, tasks, released, released)
  BY <1>2, Undetached
<1>4. UNCHANGED <<durable, tasks, released, kind, w>>
  BY DEF Ensure
<1>5. Marked(tasks) /\ Marked(tasks)'
      /\ Accounts(durable, tasks, released, released)'
  BY <1>4 DEF Accounted
<1>6. Shaped(LinkAt(view, w, p), ReservationAt(view, w, p))
  BY <1>2, <1>3 DEF Accounts, Shape
<1>7. CASE EnsureLinked(p)
  <2>1. CASE pc' = "items" /\ UNCHANGED <<view, then>>
    <3>1. InHand'
      BY <1>2, <1>3, <1>4, <2>1 DEF InHand
    <3> QED
      BY <1>4, <2>1, <3>1, QuietAccounted
  <2>2. CASE SaveThen("items", [view EXCEPT ![w].links[p] = Upgraded(@)])
    <3>1. [view EXCEPT ![w].links[p] = Upgraded(@)] = view
      BY <1>2 DEF Upgraded, Snapshot, Watch
    <3> QED
      BY <1>2, <1>3, <1>4, <1>5, <2>2, <3>1, NextItemKeeps
  <2> QED
    BY <1>7, <2>1, <2>2 DEF EnsureLinked
<1>8. CASE EnsureKnown(p)
  <2>1. LinkAt(view, w, p) = NoLink /\ ReservationAt(view, w, p).task # NoTask
    BY <1>8 DEF EnsureKnown, LinkAt, ReservationAt
  <2>2. ReservationAt(view, w, p).task \notin TaskIds
    BY <1>6, <2>1, ConstantsAssumption DEF Shaped, NoReservation, NoLink
  <2> QED
    BY <1>6, <2>1, <2>2 DEF Shaped, NoReservation
<1>9. CASE EnsureLookup(p)
  <2>1. /\ ReservationAt(view, w, p).state # "none"
        /\ LinkAt(view, w, p) = NoLink
        /\ pc' = "find" /\ cur' = p /\ UNCHANGED <<view, then>>
    BY <1>9 DEF EnsureLookup, ReservationAt, LinkAt
  <2>2. ReservationAt(view, w, p).state = "creating"
    BY <1>6, <2>1, ConstantsAssumption DEF Shaped, NoReservation, NoLink
  <2>3. InHand'
    BY <1>2, <1>3, <1>4, <2>1, <2>2 DEF InHand
  <2> QED
    BY <1>4, <2>1, <2>3, QuietAccounted
<1>10. CASE EnsureReserved(p)
  <2>1. PICK k \in FreshTokens : SaveThen("create",
          [view EXCEPT ![w].reservations[p] =
             [token |-> k, state |-> "creating", task |-> NoTask]])
    BY <1>10 DEF EnsureReserved
  <2>2. cur' = p /\ ReservationAt(view, w, p).state = "none"
    BY <1>10 DEF EnsureReserved, ReservationAt
  <2> DEFINE r == [token |-> k, state |-> "creating", task |-> NoTask]
             s == WithPR(view, w, p, LinkAt(view, w, p), r)
  <2>3. [view EXCEPT ![w].reservations[p] = r] = s
    BY <1>2, ReservedIsWithPR
  <2>4. /\ k \in Tokens /\ Marking(tasks, k) = {}
        /\ \A y \in WatchIds, q \in PRs : ReservationAt(view, y, q).token # k
    BY DEF FreshTokens, Marking, ReservationAt
  <2>5. Accounts(s, tasks, released, released)
    BY <1>2, <1>3, <1>5, <2>2, <2>4, ReserveAccounts
  <2>6. Exists(s, w) /\ ReservationAt(s, w, p) = r
    BY <1>2, WithPRAt
  <2>7. /\ view' = s /\ pc' = "save" /\ then' = "create"
        /\ r.token = k /\ r.state = "creating"
    BY <2>1, <2>3 DEF SaveThen
  <2> HIDE DEF s, r
  <2>8. InHand'
    BY <1>2, <1>3, <1>4, <2>2, <2>4, <2>6, <2>7 DEF InHand
  <2>9. Releasing' = {}
    BY <1>3, <1>4 DEF Releasing
  <2>10. Accounts(view, tasks, released, released \cup Releasing)'
    BY <1>4, <2>5, <2>7, <2>9
  <2> QED
    BY <1>5, <2>8, <2>10 DEF Accounted
<1> QED
  BY <1>1, <1>7, <1>8, <1>9, <1>10

\* The lookup of a reserved task.
LEMMA FindKeeps ==
  ASSUME IInv, Find
  PROVE  InHand' /\ Accounted'
<1> USE DEF IInv
<1> DEFINE k == ReservationAt(view, w, cur).token
<1>1. /\ pc = "find" /\ w \in WatchIds /\ Exists(view, w) /\ cur \in PRs
      /\ view \in Snapshot /\ view = durable /\ then = "idle"
      /\ ReservationAt(view, w, cur).state = "creating"
  BY DEF Find, InHand, TypeOK, Snapshot
<1>2. kind # "detach" /\ Accounts(view, tasks, released, released)
  BY <1>1, Undetached
<1>3. UNCHANGED <<durable, tasks, released, kind, w>>
  BY DEF Find
<1>4. Marked(tasks) /\ Marked(tasks)'
      /\ Accounts(durable, tasks, released, released)'
  BY <1>3 DEF Accounted
<1>5. Found(view[w].reservations[cur].token) = Marking(tasks, k)
  BY DEF Found, Marking, Live, ReservationAt
<1>6. CASE /\ Marking(tasks, k) = {}
           /\ pc' = "create" /\ UNCHANGED <<view, then, cur>>
  <2>1. InHand'
    BY <1>1, <1>2, <1>3, <1>6 DEF InHand
  <2> QED
    BY <1>3, <1>6, <2>1, QuietAccounted
<1>7. CASE \E t \in Marking(tasks, k) :
             SaveThen("items", WithTask(view, w, cur, t))
  <2>1. PICK t \in Marking(tasks, k) :
          SaveThen("items", WithTask(view, w, cur, t))
    BY <1>7
  <2>2. t \in TaskIds
    BY DEF Marking
  <2>3. Accounts(WithTask(view, w, cur, t), tasks, released, released)
    BY <1>1, <1>2, <1>4, <2>2, LinkAccounts
  <2>4. Exists(WithTask(view, w, cur, t), w)
    BY <1>1, WithPRAt DEF WithTask
  <2> QED
    BY <1>1, <1>2, <1>3, <1>4, <2>1, <2>3, <2>4, NextItemKeeps
<1> QED
  BY <1>5, <1>6, <1>7 DEF Find

\* The host's new task keeps the accounts of the saved snapshot.
LEMMA HostCreatesAccounts ==
  ASSUME IInv, pc = "create", NEW t, HostCreates(t)
  PROVE  /\ t \in TaskIds
         /\ Marked(tasks') /\ Accounts(durable, tasks', released, released)
         /\ t \in Marking(tasks', ReservationAt(view, w, cur).token)
<1> USE DEF IInv
<1> DEFINE k == ReservationAt(view, w, cur).token
           task == [token |-> view[w].reservations[cur].token, watch |-> w,
                    pr |-> cur, bound |-> view[w].binding, via |-> via]
<1>1. /\ w \in WatchIds /\ cur \in PRs /\ view = durable
      /\ ReservationAt(view, w, cur).state = "creating"
      /\ Marking(tasks, k) = {} /\ tasks \in HostTasks
  BY DEF InHand, TypeOK, HostTasks
<1>2. /\ t \in TaskIds /\ tasks[t] = NoHostTask
      /\ tasks' = WithHostTask(tasks, t, task)
  BY DEF HostCreates, FreshTasks, Live, WithHostTask
<1>3. task.watch = w /\ task.pr = cur /\ task.token = k
  BY DEF ReservationAt
<1>4. Marked(tasks) /\ Accounts(durable, tasks, released, released)
  BY DEF Accounted
<1>5. k \in Tokens
  BY <1>1, <1>4 DEF Accounts, Shape, Shaped, NoReservation
<1>6. task # NoHostTask
  <2>1. k # NoToken
    BY <1>5, ConstantsAssumption
  <2> QED
    BY <1>3, <2>1 DEF NoHostTask
<1> HIDE DEF task
<1>7. Marked(tasks') /\ Accounts(durable, tasks', released, released)
  BY <1>1, <1>2, <1>3, <1>4, CreateAccounts
<1>8. tasks'[t] = task
  BY <1>1, <1>2 DEF WithHostTask, HostTasks
<1> QED
  BY <1>2, <1>3, <1>6, <1>7, <1>8 DEF Marking

\* The creation of a task, answered, lost or refused.
LEMMA CreateKeeps ==
  ASSUME IInv, CreateTask \/ CreateReplyLost
  PROVE  InHand' /\ Accounted'
<1> USE DEF IInv
<1>1. /\ pc = "create" /\ w \in WatchIds /\ Exists(view, w) /\ cur \in PRs
      /\ view \in Snapshot /\ view = durable
      /\ ReservationAt(view, w, cur).state = "creating"
  BY DEF CreateTask, CreateReplyLost, InHand, TypeOK, Snapshot
<1>2. kind # "detach"
  BY <1>1, Undetached
<1>3. UNCHANGED <<durable, released>>
  BY DEF CreateTask, CreateReplyLost
<1>4. CASE CreateTask
  <2>1. PICK t : HostCreates(t) /\ SaveThen("items", WithTask(view, w, cur, t))
    BY <1>4 DEF CreateTask
  <2>2. /\ t \in TaskIds /\ Marked(tasks')
        /\ Accounts(durable, tasks', released, released)
        /\ t \in Marking(tasks', ReservationAt(view, w, cur).token)
    BY <1>1, <2>1, HostCreatesAccounts
  <2>3. Accounts(WithTask(view, w, cur, t), tasks', released, released)
    BY <1>1, <2>2, LinkAccounts
  <2>4. Exists(WithTask(view, w, cur, t), w)
    BY <1>1, WithPRAt DEF WithTask
  <2>5. UNCHANGED <<kind, w>>
    BY <1>4 DEF CreateTask
  <2> QED
    BY <1>1, <1>2, <1>3, <2>1, <2>2, <2>3, <2>4, <2>5, NextItemKeeps
<1>5. CASE CreateReplyLost
  <2>1. PICK t : HostCreates(t)
    BY <1>5 DEF CreateReplyLost
  <2>2. Marked(tasks') /\ Accounts(durable, tasks', released, released)
    BY <1>1, <2>1, HostCreatesAccounts
  <2> QED
    BY <1>3, <1>5, <2>2, ReturnKeeps DEF CreateReplyLost
<1> QED
  BY <1>4, <1>5

-----------------------------------------------------------------------------
(* Recovery and teardown. *)

\* The start of an operation.
LEMMA BeginKeeps ==
  ASSUME IInv, BeginRecover \/ (\E x \in WatchIds : BeginRun(x))
                 \/ \E o \in {"preview", "reset", "delete"}, x \in WatchIds :
                      BeginTeardown(o, x)
  PROVE  InHand' /\ Accounted'
<1> USE DEF IInv
<1>1. pc = "idle" /\ then = "idle" /\ view = durable /\ view \in Snapshot
  BY DEF BeginRecover, BeginRun, BeginTeardown, Start, InHand, TypeOK, Snapshot
<1>2. Accounts(view, tasks, released, released)
  BY <1>1, Undetached
<1>3. UNCHANGED <<durable, tasks, released, view, then>> /\ kind' # "detach"
  BY DEF BeginRecover, BeginRun, BeginTeardown, Start
<1>4. Accounted'
  BY <1>1, <1>2, <1>3 DEF Accounted, Releasing
<1>5. CASE BeginRecover
  <2>1. pc' = "reconcile" /\ kind' = "recover"
    BY <1>5 DEF BeginRecover, Start
  <2>2. \A xp \in todo' : ReservationAt(view, xp[1], xp[2]).state = "creating"
    BY <1>1, <1>5 DEF BeginRecover, Creating, ReservationAt
  <2> QED
    BY <1>1, <1>3, <1>4, <2>1, <2>2 DEF InHand
<1>6. ASSUME NEW x \in WatchIds, BeginRun(x) PROVE InHand'
  <2>1. pc' = "fence" /\ kind' = "run" /\ w' = x /\ Exists(durable, x)
    BY <1>6 DEF BeginRun, Start
  <2> QED
    BY <1>1, <1>3, <1>6, <2>1 DEF InHand
<1>7. ASSUME NEW o \in {"preview", "reset", "delete"}, NEW x \in WatchIds,
             BeginTeardown(o, x)
      PROVE  InHand'
  <2>1. /\ pc' = "reconcile" /\ kind' = o /\ w' = x /\ Exists(durable, x)
        /\ todo' = {x} \X Creating(durable[x])
    BY <1>7 DEF BeginTeardown, Start
  <2>2. \A xp \in todo' : ReservationAt(view, xp[1], xp[2]).state = "creating"
    BY <1>1, <2>1 DEF Creating, ReservationAt
  <2>3. Settled(view, tasks, x, todo')
    <3> SUFFICES ASSUME NEW p \in PRs,
                        ReservationAt(view, x, p).state = "creating"
                 PROVE  <<x, p>> \in todo'
      BY DEF Settled
    <3>1. ReservationAt(view, x, p).token # NoToken
      BY <1>2, ConstantsAssumption DEF Accounts, Shape, Shaped, NoReservation
    <3> QED
      BY <1>1, <2>1, <3>1 DEF Creating, ReservationAt
  <2> QED
    BY <1>1, <1>3, <2>1, <2>2, <2>3 DEF InHand
<1> QED
  BY <1>4, <1>5, <1>6, <1>7

\* One reservation is reconciled with the host.
LEMMA ReconcileKeeps ==
  ASSUME IInv, Reconcile
  PROVE  InHand' /\ Accounted'
<1> USE DEF IInv
<1>1. pc = "reconcile" /\ then = "idle" /\ view \in Snapshot
  <2>1. pc = "reconcile"
    BY DEF Reconcile
  <2>2. then = "idle"
    BY <2>1 DEF InHand
  <2>3. view \in Snapshot
    BY DEF TypeOK, Snapshot
  <2> QED
    BY <2>1, <2>2, <2>3, Zenon
<1>2. kind # "detach" /\ Accounts(view, tasks, released, released)
  BY <1>1, Undetached
<1>3. UNCHANGED <<durable, tasks, released, pc, then, kind, w, cur>>
  BY Zenon DEF Reconcile
<1>4. Marked(tasks) /\ Marked(tasks)'
      /\ Accounts(durable, tasks, released, released)'
  BY <1>3 DEF Accounted
<1>5. PICK xp \in todo :
        LET reservation == view[xp[1]].reservations[xp[2]]
            found == IF reservation.task # NoTask THEN {reservation.task}
                     ELSE Found(reservation.token)
        IN /\ todo' = todo \ {xp}
           /\ \/ found = {} /\ UNCHANGED view
              \/ \E t \in found : view' = WithTask(view, xp[1], xp[2], t)
  BY Zenon DEF Reconcile
<1>6. PICK x \in WatchIds, p \in PRs : xp = <<x, p>>
  BY DEF TypeOK
<1> DEFINE k == ReservationAt(view, x, p).token
<1>7. ReservationAt(view, x, p).state = "creating"
  BY <1>1, <1>6 DEF InHand
<1>8. ReservationAt(view, x, p).task = NoTask
  BY <1>2, <1>7 DEF Accounts, Shape, Shaped, NoReservation
<1>9. Found(view[x].reservations[p].token) = Marking(tasks, k)
  BY DEF Found, Marking, Live, ReservationAt
<1>10. /\ todo' = todo \ {<<x, p>>}
       /\ \/ Marking(tasks, k) = {} /\ UNCHANGED view
          \/ \E t \in Marking(tasks, k) : view' = WithTask(view, x, p, t)
  BY <1>5, <1>6, <1>8, <1>9 DEF ReservationAt
<1>11. \A yq \in todo' :
         yq \in todo /\ yq \in WatchIds \X PRs /\ yq # <<x, p>>
  BY <1>10 DEF TypeOK
<1>12. CASE Marking(tasks, k) = {} /\ UNCHANGED view
  <2>1. ASSUME kind \in {"reset", "delete"}
        PROVE  Settled(view, tasks, w, todo')
    BY <1>1, <1>10, <1>12, <2>1 DEF InHand, Settled
  <2>2. InHand'
    BY <1>1, <1>2, <1>3, <1>11, <1>12, <2>1 DEF InHand
  <2> QED
    BY <1>3, <1>12, <2>2, QuietAccounted
<1>13. CASE \E t \in Marking(tasks, k) : view' = WithTask(view, x, p, t)
  <2>1. PICK t \in Marking(tasks, k) : view' = WithTask(view, x, p, t)
    BY <1>13
  <2>2. t \in TaskIds
    BY DEF Marking
  <2>3. Accounts(view', tasks, released, released)
    BY <1>1, <1>2, <1>4, <1>7, <2>1, <2>2, LinkAccounts
  <2> DEFINE r == [view[x].reservations[p] EXCEPT !.state = "created",
                                                 !.task = t]
  <2>4. /\ \A y \in WatchIds : Exists(view', y) <=> Exists(view, y)
        /\ ReservationAt(view', x, p) = r
        /\ \A y \in WatchIds, q \in PRs : <<y, q>> # <<x, p>> =>
              ReservationAt(view', y, q) = ReservationAt(view, y, q)
    <3> HIDE DEF r
    <3>1. view' = WithPR(view, x, p, [task |-> t, owned |-> TRUE], r)
      BY <2>1 DEF WithTask, r
    <3>2. \A y \in WatchIds, q \in PRs :
             /\ Exists(view', y) <=> Exists(view, y)
             /\ ReservationAt(view', y, q) =
                  IF y = x /\ q = p THEN r ELSE ReservationAt(view, y, q)
      BY <1>1, <3>1, WithPRAt
    <3> QED
      BY <1>1, <3>2
  <2>5. r.state = "created"
    <3>1. view[x].reservations[p] \in Reservation
      BY <1>1 DEF Snapshot, Watch
    <3> QED
      BY <3>1 DEF Reservation
  <2> HIDE DEF r
  <2>6. ASSUME kind \in {"reset", "delete"}
        PROVE  w \in WatchIds /\ Exists(view', w)
                 /\ Settled(view', tasks, w, todo')
    BY <1>1, <1>10, <2>4, <2>5, <2>6 DEF InHand, Settled
  <2>7. \A yq \in todo' :
          ReservationAt(view', yq[1], yq[2]).state = "creating"
    BY <1>1, <1>11, <2>4 DEF InHand
  <2>8. InHand'
    BY <1>1, <1>2, <1>3, <2>6, <2>7 DEF InHand
  <2>9. Accounts(view, tasks, released, released \cup Releasing)'
    BY <1>2, <1>3, <2>3 DEF Releasing
  <2> QED
    BY <1>4, <2>8, <2>9 DEF Accounted
<1> QED
  BY <1>10, <1>12, <1>13

\* The reconciliation ends in a save, a teardown or nothing.
LEMMA ReconciledKeeps ==
  ASSUME IInv, Reconciled
  PROVE  InHand' /\ Accounted'
<1> USE DEF IInv
<1>1. /\ pc = "reconcile" /\ then = "idle" /\ todo = {}
      /\ UNCHANGED <<durable, tasks, released>>
  BY DEF Reconciled, InHand, TypeOK
<1>2. kind # "detach" /\ Accounts(view, tasks, released, released)
  BY <1>1, Undetached
<1>3. Marked(tasks)' /\ Accounts(durable, tasks, released, released)'
  BY <1>1 DEF Accounted
<1>4. CASE /\ kind \in {"reset", "delete"} /\ pc' = "tear"
           /\ UNCHANGED <<view, then, callVars>>
  <2>1. InHand'
    BY <1>1, <1>2, <1>4 DEF InHand, callVars
  <2> QED
    BY <1>1, <1>4, <2>1, QuietAccounted DEF callVars
<1>5. CASE SaveThen("idle", view) /\ UNCHANGED callVars
  BY <1>1, <1>2, <1>3, <1>5, LastSaveKeeps DEF callVars
<1>6. CASE Return
  BY <1>3, <1>6, ReturnKeeps
<1> QED
  BY <1>4, <1>5, <1>6 DEF Reconciled

\* With fewer tasks the reservations of a watch stay settled.
LEMMA SettledDeleted ==
  ASSUME NEW s, NEW T \in HostTasks, NEW x, NEW left, NEW t,
         Settled(s, T, x, left)
  PROVE  Settled(s, WithHostTask(T, t, NoHostTask), x, left)
<1>1. \A u \in TaskIds : WithHostTask(T, t, NoHostTask)[u] # NoHostTask =>
        WithHostTask(T, t, NoHostTask)[u] = T[u]
  BY DEF WithHostTask, HostTasks
<1> QED
  BY <1>1 DEF Settled, Marking

\* One owned task is deleted, or none is left and the teardown ends.
LEMMA TearKeeps ==
  ASSUME IInv, DeleteOwned \/ DeleteReplyLost \/ FinishTeardown
  PROVE  InHand' /\ Accounted'
<1> USE DEF IInv
<1>1. /\ pc = "tear" /\ w \in WatchIds /\ Exists(view, w) /\ view \in Snapshot
      /\ tasks \in HostTasks /\ Settled(view, tasks, w, {})
  BY DEF DeleteOwned, DeleteReplyLost, FinishTeardown, InHand, TypeOK,
     Snapshot, HostTasks
<1>2. kind # "detach" /\ Accounts(view, tasks, released, released)
  BY <1>1, Undetached
<1>3. Marked(tasks) /\ Accounts(durable, tasks, released, released)
  BY DEF Accounted
<1>4. UNCHANGED <<durable, released>>
  BY DEF DeleteOwned, DeleteReplyLost, FinishTeardown
<1>5. ASSUME NEW t, HostDeletes(t)
      PROVE  /\ tasks' = WithHostTask(tasks, t, NoHostTask)
             /\ Marked(tasks') /\ Accounts(durable, tasks', released, released)
  BY <1>1, <1>3, <1>5, DeleteAccounts DEF HostDeletes, WithHostTask
<1>6. CASE DeleteOwned
  <2>1. PICK p \in OwnedLinks(view[w]) :
          /\ HostDeletes(view[w].links[p].task)
          /\ SaveThen("tear", WithPR(view, w, p, NoLink, NoReservation))
    BY <1>6 DEF DeleteOwned
  <2> DEFINE s == WithPR(view, w, p, NoLink, NoReservation)
             t == LinkAt(view, w, p).task
  <2>2. p \in PRs /\ t # NoTask /\ HostDeletes(t)
    BY <2>1 DEF OwnedLinks, LinkAt
  <2>3. /\ tasks' = WithHostTask(tasks, t, NoHostTask)
        /\ Marked(tasks') /\ Accounts(durable, tasks', released, released)
    BY <1>5, <2>2
  <2>4. Accounts(s, tasks', released, released)
    BY <1>1, <1>2, <1>3, <2>2, <2>3, ForgetAccounts
  <2>5. /\ Exists(s, w)
        /\ \A q \in PRs : ReservationAt(s, w, q).state = "creating" =>
              ReservationAt(s, w, q) = ReservationAt(view, w, q)
    BY <1>1, <2>2, WithPRAt DEF NoReservation
  <2>6. view' = s /\ pc' = "save" /\ then' = "tear" /\ UNCHANGED <<kind, w>>
    BY <1>6, <2>1 DEF SaveThen, DeleteOwned, callVars
  <2> HIDE DEF s
  <2>7. Settled(s, tasks', w, {})
    <3>1. Settled(view, tasks', w, {})
      BY <1>1, <2>3, SettledDeleted
    <3> QED
      BY <2>5, <3>1 DEF Settled
  <2>8. InHand'
    BY <1>1, <1>2, <2>5, <2>6, <2>7 DEF InHand
  <2>9. Accounts(view, tasks, released, released \cup Releasing)'
    BY <1>2, <1>4, <2>4, <2>6 DEF Releasing
  <2> QED
    BY <1>4, <2>3, <2>8, <2>9 DEF Accounted
<1>7. CASE DeleteReplyLost
  BY <1>4, <1>5, <1>7, ReturnKeeps DEF DeleteReplyLost
<1>8. CASE FinishTeardown
  <2>1. OwnedLinks(view[w]) = {} /\ UNCHANGED <<tasks, kind>>
    BY <1>8 DEF FinishTeardown, callVars
  <2> DEFINE emptied == [view EXCEPT ![w].cursor = 0, ![w].failing = FALSE]
             dropped == [view EXCEPT ![w] = NoWatch]
  <2>2. Accounts(dropped, tasks, released, released)
    BY <1>1, <1>2, <1>3, <2>1, DropAccounts
  <2>3. Accounts(emptied, tasks, released, released)
    BY <1>1, <1>2, <1>3, SameEdits, SameAccounts
  <2>4. SaveThen("idle", emptied) \/ SaveThen("idle", dropped)
    BY <1>8 DEF FinishTeardown
  <2> HIDE DEF emptied, dropped
  <2> QED
    BY <1>2, <1>3, <1>4, <2>1, <2>2, <2>3, <2>4, LastSaveKeeps
<1> QED
  BY <1>6, <1>7, <1>8

-----------------------------------------------------------------------------
(* Edits, and what moves outside the lock. *)

\* An edit that changes no link and no reservation.
LEMMA EditKeeps ==
  ASSUME IInv, NEW o, NEW x, NEW s, Edit(o, x, s), o # "detach",
         Same(durable, s) \/ Accounts(s, tasks, released, released)
  PROVE  InHand' /\ Accounted'
<1>1. SaveThen("idle", s) /\ kind' = o /\ UNCHANGED <<durable, tasks, released>>
  BY DEF Edit, Start
<1>2. Marked(tasks) /\ Accounts(durable, tasks, released, released)
  BY DEF IInv, Accounted
<1>3. Accounts(s, tasks, released, released)
  BY <1>2, SameAccounts
<1> QED
  BY <1>1, <1>2, <1>3, LastSaveKeeps

\* Creating, pausing and resuming a watch and changing its filter are such
\* edits, but for the new watch.
LEMMA EditsKeep ==
  ASSUME IInv, NEW x \in WatchIds,
         Create(x) \/ Pause(x) \/ Resume(x) \/ SetFilter(x)
  PROVE  InHand' /\ Accounted'
<1> USE DEF IInv
<1>1. /\ durable \in Snapshot /\ durable[x] \in Watch /\ Marked(tasks)
      /\ Accounts(durable, tasks, released, released)
  BY DEF TypeOK, Snapshot, Accounted
<1>2. CASE Create(x)
  <2>1. PICK st \in {"running", "paused"} : Edit("create", x, [durable EXCEPT
          ![x] = [NoWatch EXCEPT !.status = st, !.binding = Connection]])
    BY <1>2 DEF Create
  <2>2. ~Exists(durable, x)
    BY <1>2 DEF Create
  <2> QED
    BY <1>1, <2>1, <2>2, NewAccounts, EditKeeps
<1>3. CASE Pause(x)
  BY <1>1, <1>3, SameEdits, EditKeeps DEF Pause
<1>4. CASE Resume(x)
  <2> DEFINE v == IF Connection # 0
                    THEN [durable[x] EXCEPT !.status = "running",
                            !.binding = Connection, !.cursor = 0,
                            !.failing = FALSE]
                    ELSE [durable[x] EXCEPT !.status = "running"]
  <2>1. /\ v.status = "running" /\ v.links = durable[x].links
        /\ v.reservations = durable[x].reservations
    BY <1>1 DEF Watch
  <2>2. Edit("resume", x, [durable EXCEPT ![x] = v]) /\ Exists(durable, x)
    BY <1>1, <1>4 DEF Resume, Snapshot
  <2> HIDE DEF v
  <2>3. Same(durable, [durable EXCEPT ![x] = v])
    BY <1>1, <2>1, <2>2 DEF Same, Snapshot, Exists, LinkAt, ReservationAt
  <2> QED
    BY <2>2, <2>3, EditKeeps
<1>5. CASE SetFilter(x)
  BY <1>1, <1>5, SameEdits, EditKeeps DEF SetFilter
<1> QED
  BY <1>2, <1>3, <1>4, <1>5

\* A detach releases the tasks whose links it makes unowned.
LEMMA DetachKeeps ==
  ASSUME IInv, NEW t \in TaskIds, NEW p \in PRs, DetachTaskLink(t, p)
  PROVE  InHand' /\ Accounted'
<1> USE DEF IInv
<1> DEFINE s == [x \in WatchIds |->
        IF durable[x].links[p] = [task |-> t, owned |-> TRUE]
          THEN [durable[x] EXCEPT !.links[p] = [task |-> t, owned |-> FALSE]]
          ELSE durable[x]]
           Q == released \cup Unlinked(durable, s)
<1>1. /\ SaveThen("idle", s) /\ kind' = "detach"
      /\ UNCHANGED <<durable, tasks, released>>
  BY DEF DetachTaskLink, Edit, Start
<1>2. durable \in Snapshot /\ Marked(tasks)
      /\ Accounts(durable, tasks, released, released)
  BY DEF TypeOK, Snapshot, Accounted
<1>3. ASSUME NEW x \in WatchIds, NEW q \in PRs
      PROVE  /\ Exists(s, x) <=> Exists(durable, x)
             /\ ReservationAt(s, x, q) = ReservationAt(durable, x, q)
             /\ \/ LinkAt(s, x, q) = LinkAt(durable, x, q)
                \/ /\ q = p /\ LinkAt(durable, x, q) = [task |-> t, owned |-> TRUE]
                   /\ LinkAt(s, x, q) = [task |-> t, owned |-> FALSE]
  <2>1. durable[x] \in Watch
    BY <1>2 DEF Snapshot
  <2>2. CASE durable[x].links[p] = [task |-> t, owned |-> TRUE]
    <3>1. s[x] = [durable[x] EXCEPT !.links[p] = [task |-> t, owned |-> FALSE]]
      BY <2>2
    <3> HIDE DEF s
    <3> QED
      BY <2>1, <2>2, <3>1 DEF Watch, Exists, ReservationAt, LinkAt
  <2>3. CASE durable[x].links[p] # [task |-> t, owned |-> TRUE]
    <3>1. s[x] = durable[x]
      BY <2>3
    <3> QED
      BY <3>1 DEF Exists, ReservationAt, LinkAt
  <2> QED
    BY <2>2, <2>3
<1> HIDE DEF s
<1>4. ASSUME NEW x \in WatchIds, NEW q \in PRs
      PROVE  /\ LinkAt(s, x, q).task = LinkAt(durable, x, q).task
             /\ LinkAt(durable, x, q) = NoLink => LinkAt(s, x, q) = NoLink
             /\ \/ LinkAt(s, x, q) = LinkAt(durable, x, q)
                \/ LinkAt(s, x, q).task \in Q
  <2>1. CASE LinkAt(s, x, q) = LinkAt(durable, x, q)
    BY <2>1
  <2>2. CASE /\ q = p /\ LinkAt(durable, x, q) = [task |-> t, owned |-> TRUE]
             /\ LinkAt(s, x, q) = [task |-> t, owned |-> FALSE]
    <3>1. t \in Unlinked(durable, s)
      BY <2>2 DEF Unlinked, LinkAt
    <3>2. LinkAt(durable, x, q) # NoLink
      BY <2>2 DEF NoLink
    <3> QED
      BY <2>2, <3>1, <3>2
  <2> QED
    BY <1>3, <2>1, <2>2
<1>5. Accounts(s, tasks, released, Q)
  BY <1>2, <1>3, <1>4, DetachAccounts
<1>6. view' = s /\ pc' = "save" /\ then' = "idle"
  BY <1>1 DEF SaveThen
<1>7. InHand'
  BY <1>6 DEF InHand
<1>8. Accounts(view, tasks, released, released \cup Releasing)'
  BY <1>1, <1>5, <1>6 DEF Releasing
<1> QED
  BY <1>1, <1>2, <1>7, <1>8 DEF Accounted

\* The connection, the provider and people change no snapshot.
LEMMA OutsideKeeps ==
  ASSUME IInv, Outside
  PROVE  InHand' /\ Accounted'
<1> USE DEF IInv
<1>1. /\ UNCHANGED <<durable, released, pc, view, then, kind, w, cur, todo>>
      /\ \/ UNCHANGED tasks
         \/ \E t \in TaskIds : tasks' = WithHostTask(tasks, t, NoHostTask)
  BY DEF Outside, Connect, Disconnect, OpenOrClose, PersonDeletesTask, World,
     callVars, HostDeletes, WithHostTask
<1>2. CASE UNCHANGED tasks
  BY <1>1, <1>2, QuietAccounted DEF InHand
<1>3. ASSUME NEW t \in TaskIds, tasks' = WithHostTask(tasks, t, NoHostTask)
      PROVE  InHand' /\ Accounted'
  <2>1. tasks \in HostTasks
    BY DEF TypeOK, HostTasks
  <2>2. /\ Marked(tasks') /\ Accounts(durable, tasks', released, released)
        /\ Accounts(view, tasks', released, released \cup Releasing)
        /\ \A k : Marking(tasks', k) \subseteq Marking(tasks, k)
    BY <1>3, <2>1, DeleteAccounts DEF Accounted
  <2>3. Accounted'
    BY <1>1, <2>2 DEF Accounted, Releasing
  <2>4. \A left : Settled(view, tasks, w, left) =>
                    Settled(view, tasks', w, left)
    BY <1>3, <2>1, SettledDeleted
  <2>5. InHand'
    BY <1>1, <2>2, <2>4 DEF InHand
  <2> QED
    BY <2>3, <2>5
<1> QED
  BY <1>1, <1>2, <1>3

-----------------------------------------------------------------------------
(* The theorems. *)

\* The invariant holds at first.
LEMMA InitIInv == Init => IInv
<1> SUFFICES ASSUME Init PROVE IInv
  OBVIOUS
<1>1. /\ durable = [x \in WatchIds |-> NoWatch] /\ view = durable
      /\ tasks = [t \in TaskIds |-> NoHostTask] /\ released = {}
      /\ pc = "idle" /\ then = "idle" /\ kind = "none"
  BY DEF Init
<1>2. TypeOK
  BY <1>1, NothingTyped, FirstTyped, ConstantsAssumption DEF Init, TypeOK
<1>3. InHand
  BY <1>1 DEF InHand
<1>4. Marked(tasks)
  BY <1>1 DEF Marked
<1>5. \A x \in WatchIds, p \in PRs :
        LinkAt(durable, x, p) = NoLink
          /\ ReservationAt(durable, x, p) = NoReservation
  BY <1>1 DEF LinkAt, ReservationAt, NoWatch
<1>6. Shape(durable)
  BY <1>5 DEF Shape, Shaped, NoReservation
<1>7. Holds(durable, tasks, released)
  BY <1>1 DEF Holds
<1>8. Unowned(durable, released) /\ Releasing = {}
  BY <1>1, <1>5 DEF Unowned, NoLink, Releasing
<1> QED
  BY <1>1, <1>2, <1>3, <1>4, <1>6, <1>7, <1>8 DEF IInv, Accounted, Accounts

\* Every step keeps the invariant.
LEMMA NextIInv == IInv /\ [Next]_vars => IInv'
<1> SUFFICES ASSUME IInv, [Next]_vars PROVE IInv'
  OBVIOUS
<1>1. TypeOK'
  BY NextTyped
<1>2. InHand' /\ Accounted'
  <2>1. CASE UNCHANGED vars
    BY <2>1, QuietAccounted
    DEF IInv, InHand, vars, worldVars, callVars, pollVars, boundVars
  <2>2. CASE Advance
    BY <2>2, SaveKeeps, PollKeeps, EnsureKeeps, FindKeeps, CreateKeeps,
       FailureKeeps, ReconcileKeeps, ReconciledKeeps, TearKeeps DEF Advance
  <2>3. CASE Poll
    BY <2>3, BeginKeeps DEF Poll
  <2>4. CASE Request
    BY <2>4, BeginKeeps, EditsKeep, DetachKeeps DEF Request
  <2>5. CASE Failure
    BY <2>5, FailureKeeps, PollKeeps, CreateKeeps, TearKeeps DEF Failure
  <2>6. CASE Outside
    BY <2>6, OutsideKeeps
  <2> QED
    BY <2>1, <2>2, <2>3, <2>4, <2>5, <2>6 DEF Next
<1> QED
  BY <1>1, <1>2 DEF IInv

\* The invariant holds in every state of every instance of the watch service.
THEOREM WatchInvariantHolds == Spec => []IInv
BY InitIInv, NextIInv, PTL DEF Spec

\* The variables keep their types.
THEOREM WatchTypes == Spec => []TypeOK
<1>1. IInv => TypeOK
  BY DEF IInv
<1> QED
  BY <1>1, WatchInvariantHolds, PTL

\* No task is orphaned: the saved snapshot holds every task its watch was not
\* unlinked from, after any interleaving, lost answer, failed save or stop.
THEOREM NoTaskOrphaned == Spec => []NoOrphanTask
<1>1. IInv => NoOrphanTask
  BY DEF IInv, Accounted, Accounts, Holds, NoOrphanTask, Live, ReservationAt
<1> QED
  BY <1>1, WatchInvariantHolds, PTL

\* No pull request of a watch ever gets a second task: each task has the token
\* of the one reservation of its pull request, and no two have the same.
THEOREM OneTask == Spec => []OneTaskPerPR
<1>1. IInv => OneTaskPerPR
  BY DEF IInv, Accounted, Accounts, Holds, Marked, OneTaskPerPR, Live
<1> QED
  BY <1>1, WatchInvariantHolds, PTL

-----------------------------------------------------------------------------
(***************************************************************************)
(* The second part: a detached task is never its watch's again and never   *)
(* deleted with it, and the saved cursor passes only pages whose pull      *)
(* requests all have a link.                                               *)
(*                                                                         *)
(* That a task is released, not a link, is what makes the first hard: a    *)
(* recovery finds tasks by the tokens of reservations.  So a task has the  *)
(* token of the reservation that records it (OfItsTask), no two record the *)
(* same task (Apart), and no reservation without a task has the token of a *)
(* released one (Over).  As in WatchInvariant this is stated of any        *)
(* snapshot "s", host tasks "T" and released tasks "Q", and asked of the   *)
(* saved and of the working snapshot.                                      *)
(***************************************************************************)
Owned(s, Q) ==
  \A x \in WatchIds, p \in PRs :
    LinkAt(s, x, p).owned => LinkAt(s, x, p).task \notin Q

OfItsTask(s, T) ==
  \A x \in WatchIds, p \in PRs, t \in TaskIds :
    /\ ReservationAt(s, x, p).state = "created" /\ ReservationAt(s, x, p).task = t
    /\ T[t] # NoHostTask
    => T[t].token = ReservationAt(s, x, p).token

Apart(s) ==
  \A x, y \in WatchIds, p, q \in PRs :
    /\ ReservationAt(s, x, p).state = "created"
    /\ ReservationAt(s, y, q).state = "created"
    /\ ReservationAt(s, x, p).task = ReservationAt(s, y, q).task
    => x = y /\ p = q

Over(s, T, Q) ==
  \A t \in TaskIds : t \in Q /\ T[t] # NoHostTask =>
    \A x \in WatchIds, p \in PRs :
      ReservationAt(s, x, p).state = "creating" =>
        ReservationAt(s, x, p).token # T[t].token

Links(s, T, Q) == Owned(s, Q) /\ OfItsTask(s, T) /\ Apart(s) /\ Over(s, T, Q)

Linked ==
  /\ Links(durable, tasks, released)
  /\ Links(view, tasks, released \cup Releasing)

\* A poll treats what it was answered with before it moves the cursor.
Walked ==
  kind = "run" =>
    /\ pc \in {"fence", "list", "items", "find", "create", "save"}
    /\ then \in {"idle", "items", "create"}
    /\ \A x \in WatchIds : view[x].cursor # durable[x].cursor =>
         pc = "save" /\ then = "idle" /\ \A p \in listed : LinkAt(view, x, p) # NoLink
    /\ pc \in {"items", "find", "create"} \/ then # "idle" =>
         \A p \in listed : LinkAt(view, w, p) # NoLink \/ <<w, p>> \in todo

LInv == IInv /\ Linked /\ Walked
-----------------------------------------------------------------------------
(* How Links change with a snapshot and with the host's tasks. *)

\* Two snapshots that differ only in pull requests of which nothing is left.
Fewer(s, v) ==
  \A x \in WatchIds, p \in PRs :
    \/ /\ LinkAt(v, x, p) = LinkAt(s, x, p)
       /\ ReservationAt(v, x, p) = ReservationAt(s, x, p)
    \/ LinkAt(v, x, p) = NoLink /\ ReservationAt(v, x, p) = NoReservation

FewerTasks(T, U) == \A t \in TaskIds : U[t] # NoHostTask => U[t] = T[t]

LEMMA FewerLinks ==
  ASSUME NEW s, NEW v, NEW T, NEW U, NEW Q,
         Links(s, T, Q), Fewer(s, v), FewerTasks(T, U)
  PROVE  Links(v, U, Q)
<1>1. \A x \in WatchIds, p \in PRs :
        /\ LinkAt(v, x, p).owned => LinkAt(v, x, p) = LinkAt(s, x, p)
        /\ ReservationAt(v, x, p).state \in {"creating", "created"} =>
             ReservationAt(v, x, p) = ReservationAt(s, x, p)
  BY DEF Fewer, NoLink, NoReservation
<1>2. Owned(v, Q)
  BY <1>1 DEF Links, Owned
<1>3. OfItsTask(v, U)
  BY <1>1 DEF Links, OfItsTask, FewerTasks
<1>4. Apart(v)
  BY <1>1 DEF Links, Apart
<1>5. Over(v, U, Q)
  BY <1>1 DEF Links, Over, FewerTasks
<1>6. QED BY <1>2, <1>3, <1>4, <1>5 DEF Links

LEMMA DeletedTasks ==
  ASSUME NEW T \in HostTasks, NEW t
  PROVE  FewerTasks(T, WithHostTask(T, t, NoHostTask))
BY DEF FewerTasks, WithHostTask, HostTasks

\* What a reservation becomes when its task is recorded.
LEMMA WithTaskAt ==
  ASSUME NEW s \in Snapshot, NEW x \in WatchIds, NEW p \in PRs, NEW t \in TaskIds
  PROVE  LET v == WithTask(s, x, p, t) IN
         /\ LinkAt(v, x, p) = [task |-> t, owned |-> TRUE]
         /\ ReservationAt(v, x, p).state = "created"
         /\ ReservationAt(v, x, p).task = t
         /\ ReservationAt(v, x, p).token = ReservationAt(s, x, p).token
         /\ \A y \in WatchIds, q \in PRs : ~ (y = x /\ q = p) =>
              /\ LinkAt(v, y, q) = LinkAt(s, y, q)
              /\ ReservationAt(v, y, q) = ReservationAt(s, y, q)
<1> DEFINE r == [s[x].reservations[p] EXCEPT !.state = "created", !.task = t]
           l == [task |-> t, owned |-> TRUE]
<1>1. r.state = "created" /\ r.task = t /\ r.token = ReservationAt(s, x, p).token
  BY DEF Snapshot, Watch, Reservation, ReservationAt
<1> HIDE DEF r
<1> DEFINE v == WithTask(s, x, p, t)
<1>2. v = WithPR(s, x, p, l, r)
  BY DEF WithTask, r
<1>3. \A y \in WatchIds, q \in PRs :
        /\ Exists(v, y) <=> Exists(s, y)
        /\ LinkAt(v, y, q) = IF y = x /\ q = p THEN l ELSE LinkAt(s, y, q)
        /\ ReservationAt(v, y, q) =
             IF y = x /\ q = p THEN r ELSE ReservationAt(s, y, q)
  BY <1>2, WithPRAt
<1> HIDE DEF v
<1>4. QED BY <1>1, <1>3 DEF v

\* A reservation is recorded with the task that has its token: not a released
\* one, nor one another reservation has.
LEMMA LinkLinks ==
  ASSUME NEW s \in Snapshot, NEW T, NEW R, NEW Q, NEW P, Accounts(s, T, R, P),
         Links(s, T, Q), NEW x \in WatchIds, NEW p \in PRs, NEW t \in TaskIds,
         ReservationAt(s, x, p).state = "creating",
         t \in Marking(T, ReservationAt(s, x, p).token)
  PROVE  Links(WithTask(s, x, p, t), T, Q)
<1> DEFINE v == WithTask(s, x, p, t)
           k == ReservationAt(s, x, p).token
<1>1. /\ LinkAt(v, x, p) = [task |-> t, owned |-> TRUE]
      /\ ReservationAt(v, x, p).state = "created"
      /\ ReservationAt(v, x, p).task = t /\ ReservationAt(v, x, p).token = k
      /\ \A y \in WatchIds, q \in PRs : ~ (y = x /\ q = p) =>
           /\ LinkAt(v, y, q) = LinkAt(s, y, q)
           /\ ReservationAt(v, y, q) = ReservationAt(s, y, q)
  BY WithTaskAt
<1>2. T[t] # NoHostTask /\ T[t].token = k
  BY DEF Marking
<1>3. k # NoToken
  BY ConstantsAssumption DEF Accounts, Shape, Shaped, NoReservation
<1> HIDE DEF v, k
<1>4. t \notin Q
  BY <1>2 DEF Links, Over, k
<1>5. ASSUME NEW y \in WatchIds, NEW q \in PRs, ~ (y = x /\ q = p),
             ReservationAt(s, y, q).state = "created"
      PROVE  ReservationAt(s, y, q).task # t
  BY <1>2, <1>3, <1>5 DEF Links, OfItsTask, Accounts, Shape, k
<1>6. Owned(v, Q)
  BY <1>1, <1>4 DEF Links, Owned
<1>7. OfItsTask(v, T)
  BY <1>1, <1>2 DEF Links, OfItsTask
<1>8. Apart(v)
  BY <1>1, <1>5 DEF Links, Apart
<1>9. Over(v, T, Q)
  BY <1>1 DEF Links, Over
<1>10. QED BY <1>6, <1>7, <1>8, <1>9 DEF Links, v

\* A pull request is reserved with a token no task has.
LEMMA ReserveLinks ==
  ASSUME NEW s \in Snapshot, NEW T, NEW Q, Links(s, T, Q),
         NEW x \in WatchIds, NEW p \in PRs, NEW k, Marking(T, k) = {}
  PROVE  Links(WithPR(s, x, p, LinkAt(s, x, p),
                 [token |-> k, state |-> "creating", task |-> NoTask]), T, Q)
<1> DEFINE r == [token |-> k, state |-> "creating", task |-> NoTask]
           v == WithPR(s, x, p, LinkAt(s, x, p), r)
<1>1. \A y \in WatchIds, q \in PRs :
        /\ Exists(v, y) <=> Exists(s, y)
        /\ LinkAt(v, y, q) = LinkAt(s, y, q)
        /\ ReservationAt(v, y, q) =
             IF y = x /\ q = p THEN r ELSE ReservationAt(s, y, q)
  BY WithPRAt
<1>2. r.state = "creating" /\ r.token = k
  OBVIOUS
<1> HIDE DEF v, r
<1>3. Owned(v, Q) /\ OfItsTask(v, T) /\ Apart(v)
  BY <1>1, <1>2 DEF Links, Owned, OfItsTask, Apart
<1>4. Over(v, T, Q)
  BY <1>1, <1>2 DEF Links, Over, Marking
<1>5. QED BY <1>3, <1>4 DEF Links, v, r

\* The host makes a task no snapshot mentions.
LEMMA CreateLinks ==
  ASSUME NEW s, NEW T \in HostTasks, NEW Q, Links(s, T, Q),
         NEW t \in TaskIds, t \notin Q, NEW task,
         \A x \in WatchIds, p \in PRs : ReservationAt(s, x, p).task # t
  PROVE  Links(s, WithHostTask(T, t, task), Q)
<1> DEFINE U == WithHostTask(T, t, task)
<1>1. \A u \in TaskIds : u # t => U[u] = T[u]
  BY DEF WithHostTask, HostTasks
<1> HIDE DEF U
<1>2. OfItsTask(s, U)
  BY <1>1 DEF Links, OfItsTask
<1>3. Over(s, U, Q)
  BY <1>1 DEF Links, Over
<1>4. QED BY <1>2, <1>3 DEF Links, U

\* Links of one snapshot released: none of the others is to the same task, and
\* no reservation has its token.
LEMMA DetachLinks ==
  ASSUME NEW s, NEW v, NEW T, NEW R, Accounts(s, T, R, R), Links(s, T, R),
         \A x \in WatchIds, p \in PRs :
           /\ ReservationAt(v, x, p) = ReservationAt(s, x, p)
           /\ LinkAt(v, x, p).owned => LinkAt(v, x, p) = LinkAt(s, x, p)
  PROVE  Links(v, T, R \cup Unlinked(s, v))
<1> DEFINE Q == R \cup Unlinked(s, v)
<1>1. ASSUME NEW t \in TaskIds, t \in Unlinked(s, v)
      PROVE  \E x \in WatchIds, p \in PRs :
               /\ LinkAt(s, x, p).task = t /\ ~ LinkAt(v, x, p).owned
               /\ ReservationAt(s, x, p).state = "created"
               /\ ReservationAt(s, x, p).task = t
               /\ ReservationAt(s, x, p).token # NoToken
  <2>1. PICK x \in WatchIds, p \in PRs :
          /\ LinkAt(s, x, p) = [task |-> t, owned |-> TRUE]
          /\ LinkAt(v, x, p) = [task |-> t, owned |-> FALSE]
    BY <1>1 DEF Unlinked, LinkAt
  <2>2. Shaped(LinkAt(s, x, p), ReservationAt(s, x, p))
    BY DEF Accounts, Shape
  <2>3. LinkAt(s, x, p).task = t /\ LinkAt(s, x, p).owned /\ ~ LinkAt(v, x, p).owned
    BY <2>1
  <2>4. /\ ReservationAt(s, x, p).state = "created"
        /\ ReservationAt(s, x, p).task = t
        /\ ReservationAt(s, x, p).token # NoToken
    BY <2>2, <2>3, ConstantsAssumption DEF Shaped, NoLink
  <2>5. QED BY <2>3, <2>4
<1> HIDE DEF Q
<1>2. Owned(v, Q)
  <2> SUFFICES ASSUME NEW y \in WatchIds, NEW q \in PRs, LinkAt(v, y, q).owned,
                      LinkAt(v, y, q).task \in Q
      PROVE  FALSE
    BY DEF Owned
  <2>1. LinkAt(s, y, q) = LinkAt(v, y, q) /\ LinkAt(s, y, q).task \notin R
    BY DEF Links, Owned
  <2> DEFINE t == LinkAt(v, y, q).task
  <2>2. t \in Unlinked(s, v) /\ t \in TaskIds
    BY <2>1 DEF Q, Unlinked
  <2>3. PICK x \in WatchIds, p \in PRs :
          /\ LinkAt(s, x, p).task = t /\ ~ LinkAt(v, x, p).owned
          /\ ReservationAt(s, x, p).state = "created"
          /\ ReservationAt(s, x, p).task = t
    BY <1>1, <2>2
  <2>4. Shaped(LinkAt(s, y, q), ReservationAt(s, y, q))
    BY DEF Accounts, Shape
  <2>5. ReservationAt(s, y, q).state = "created" /\ ReservationAt(s, y, q).task = t
    BY <2>1, <2>2, <2>4, ConstantsAssumption DEF Shaped, NoLink
  <2>6. x = y /\ p = q
    BY <2>3, <2>5 DEF Links, Apart
  <2>7. QED BY <2>3, <2>6
<1>3. OfItsTask(v, T) /\ Apart(v)
  BY DEF Links, OfItsTask, Apart
<1>4. Over(v, T, Q)
  <2> SUFFICES ASSUME NEW t \in TaskIds, t \in Q, T[t] # NoHostTask,
                      NEW y \in WatchIds, NEW q \in PRs,
                      ReservationAt(s, y, q).state = "creating",
                      ReservationAt(s, y, q).token = T[t].token
      PROVE  FALSE
    BY DEF Over
  <2>1. t \notin R
    BY DEF Links, Over
  <2>2. PICK x \in WatchIds, p \in PRs :
          /\ ReservationAt(s, x, p).state = "created"
          /\ ReservationAt(s, x, p).task = t
          /\ ReservationAt(s, x, p).token # NoToken
    BY <1>1, <2>1 DEF Q
  <2>3. ReservationAt(s, x, p).token = T[t].token
    BY <2>2 DEF Links, OfItsTask
  <2>4. x = y /\ p = q
    BY <2>2, <2>3 DEF Accounts, Shape
  <2>5. QED BY <2>2, <2>4
<1>5. QED BY <1>2, <1>3, <1>4 DEF Links, Q
-----------------------------------------------------------------------------
(* Linked is kept: what the steps have in common. *)

LEMMA SameFewer ==
  ASSUME NEW s, NEW v, Same(s, v)
  PROVE  Fewer(s, v)
BY DEF Same, Fewer

\* The tasks of an operation that releases none.
LEMMA LinkedPlainly ==
  ASSUME kind' # "detach", Links(durable, tasks, released)',
         Links(view, tasks, released)'
  PROVE  Linked'
<1>1. Releasing' = {}
  BY DEF Releasing
<1>2. QED BY <1>1 DEF Linked

LEMMA LinkedReturn ==
  ASSUME Return, Links(durable, tasks, released)'
  PROVE  Linked'
<1>1. kind' = "none" /\ view' = durable'
  BY DEF Return
<1>2. QED BY <1>1, LinkedPlainly

\* Before a step of any operation but a detach.
LEMMA LinkedBefore ==
  ASSUME LInv, pc # "save" \/ then # "idle" \/ kind # "detach"
  PROVE  /\ kind # "detach" /\ Links(view, tasks, released)
         /\ Links(durable, tasks, released)
         /\ Accounts(view, tasks, released, released)
<1>1. /\ kind # "detach" /\ Releasing = {}
      /\ Accounts(view, tasks, released, released)
  BY Undetached DEF LInv
<1>2. QED BY <1>1 DEF LInv, Linked

\* A step that keeps the tasks and what is released, and leaves a working copy
\* with no more in it.
LEMMA LinkedStill ==
  ASSUME LInv, pc # "save" \/ then # "idle" \/ kind # "detach",
         UNCHANGED <<durable, tasks, released>>, kind' # "detach",
         Fewer(view, view')
  PROVE  Linked'
<1>1. Links(view, tasks, released) /\ Links(durable, tasks, released)
  BY LinkedBefore
<1>2. FewerTasks(tasks, tasks)
  BY DEF FewerTasks
<1>3. Links(view', tasks, released)
  BY <1>1, <1>2, FewerLinks
<1>4. QED BY <1>1, <1>3, LinkedPlainly

\* A save releases what a detach unlinked, and nothing otherwise.
LEMMA SavedLinks ==
  ASSUME LInv, durable' = view, tasks' = tasks,
         released' = released \cup Unlinked(durable, view)
  PROVE  Links(durable, tasks, released)'
<1>1. CASE kind = "detach"
  BY <1>1 DEF LInv, Linked, Releasing
<1>2. CASE kind # "detach"
  <2>1. Links(view, tasks, released) /\ Links(durable, tasks, released)
    BY <1>2, LinkedBefore
  <2>2. Accounts(view, tasks, released, released)
    BY <1>2, LinkedBefore
  <2>3. ASSUME NEW t \in Unlinked(durable, view) PROVE FALSE
    <3>1. PICK x \in WatchIds, p \in PRs :
            /\ t \in TaskIds
            /\ LinkAt(durable, x, p) = [task |-> t, owned |-> TRUE]
            /\ LinkAt(view, x, p) = [task |-> t, owned |-> FALSE]
      BY <2>3 DEF Unlinked, LinkAt
    <3>2. t \in released
      <4>1. LinkAt(view, x, p).task = t /\ ~ LinkAt(view, x, p).owned
        BY <3>1
      <4>2. t # NoTask
        BY <3>1, ConstantsAssumption
      <4>3. QED BY <2>2, <4>1, <4>2 DEF Accounts, Unowned
    <3>3. LinkAt(durable, x, p).owned /\ LinkAt(durable, x, p).task = t
      BY <3>1
    <3>4. QED BY <2>1, <3>2, <3>3 DEF Links, Owned
  <2>4. released' = released
    BY <2>3
  <2>5. QED BY <2>1, <2>4
<1>3. QED BY <1>1, <1>2

-----------------------------------------------------------------------------
(* Linked is kept: the steps. *)

LEMMA SaveLinked ==
  ASSUME LInv, Save \/ SaveReportedFailed
  PROVE  Linked'
<1>1. /\ durable' = view /\ tasks' = tasks
      /\ released' = released \cup Unlinked(durable, view)
  BY DEF Save, SaveReportedFailed
<1>2. Links(durable, tasks, released)'
  BY <1>1, SavedLinks
<1>3. CASE Return
  BY <1>2, <1>3, LinkedReturn
<1>4. CASE Save /\ then # "idle"
  <2>1. view' = view /\ kind' = kind
    BY <1>4 DEF Save, callVars
  <2>2. kind # "detach"
    BY <1>4 DEF LInv, IInv, InHand
  <2>3. QED BY <1>1, <1>2, <2>1, <2>2, LinkedPlainly
<1>5. QED BY <1>3, <1>4 DEF Save, SaveReportedFailed

LEMMA DroppedLinked ==
  ASSUME LInv, Interrupted \/ CreateRefused
  PROVE  Linked'
<1>1. UNCHANGED <<durable, tasks, released>> /\ Return
  BY DEF Interrupted, CreateRefused
<1>2. QED BY <1>1, LinkedReturn DEF LInv, Linked

LEMMA PollLinked ==
  ASSUME LInv, Fence \/ List \/ ListFails \/ FinishRun
  PROVE  Linked'
<1>1. /\ w \in WatchIds /\ Exists(view, w) /\ view \in Snapshot /\ pc # "save"
  BY DEF Fence, List, ListFails, FinishRun, LInv, IInv, InHand, TypeOK, Snapshot
<1>2. UNCHANGED <<durable, tasks, released, kind>>
  BY DEF Fence, List, ListFails, FinishRun, callVars
<1>3. kind # "detach"
  BY <1>1, LinkedBefore
<1>4. Same(view, view')
  <2>1. Same(view, view)
    BY DEF Same
  <2>2. CASE view' = view
    BY <2>1, <2>2
  <2>3. CASE view' = [view EXCEPT ![w].status = "paused"]
    BY <1>1, <2>3, SameEdits
  <2>4. CASE view' = [view EXCEPT ![w].failing = TRUE]
    BY <1>1, <2>4, SameEdits
  <2>5. CASE view' = [view EXCEPT ![w].cursor = next, ![w].failing = FALSE]
    BY <1>1, <2>5, SameEdits
  <2>6. QED BY <2>2, <2>3, <2>4, <2>5 DEF Fence, List, ListFails, FinishRun, SaveThen
<1>5. QED BY <1>1, <1>2, <1>3, <1>4, SameFewer, LinkedStill

LEMMA EnsureLinkedKept ==
  ASSUME LInv, Ensure
  PROVE  Linked'
<1>1. PICK p \in PRs :
        EnsureLinked(p) \/ EnsureKnown(p) \/ EnsureLookup(p) \/ EnsureReserved(p)
  BY DEF Ensure
<1>2. /\ pc = "items" /\ w \in WatchIds /\ view \in Snapshot
      /\ UNCHANGED <<durable, tasks, released, kind>>
  BY DEF Ensure, LInv, IInv, InHand, TypeOK, Snapshot
<1>3. /\ kind # "detach" /\ Links(view, tasks, released)
      /\ Links(durable, tasks, released) /\ Accounts(view, tasks, released, released)
  BY <1>2, LinkedBefore
<1>4. CASE view' = view
  BY <1>2, <1>3, <1>4, LinkedPlainly
<1>5. CASE EnsureLinked(p)
  <2>1. [view EXCEPT ![w].links[p] = Upgraded(@)] = view
    BY <1>2 DEF Upgraded, Snapshot, Watch
  <2>2. QED BY <1>4, <1>5, <2>1 DEF EnsureLinked, SaveThen
<1>6. CASE EnsureKnown(p)
  <2>1. LinkAt(view, w, p) = NoLink /\ ReservationAt(view, w, p).task # NoTask
    BY <1>6 DEF EnsureKnown, LinkAt, ReservationAt
  <2>2. Shaped(LinkAt(view, w, p), ReservationAt(view, w, p))
    BY <1>2, <1>3 DEF Accounts, Shape
  <2>3. ReservationAt(view, w, p).task \notin TaskIds
    BY <2>1, <2>2, ConstantsAssumption DEF Shaped, NoReservation, NoLink
  <2>4. QED BY <2>1, <2>2, <2>3 DEF Shaped, NoReservation
<1>7. CASE EnsureLookup(p)
  BY <1>4, <1>7 DEF EnsureLookup
<1>8. CASE EnsureReserved(p)
  <2>1. PICK k \in FreshTokens : SaveThen("create",
          [view EXCEPT ![w].reservations[p] =
             [token |-> k, state |-> "creating", task |-> NoTask]])
    BY <1>8 DEF EnsureReserved
  <2> DEFINE s == WithPR(view, w, p, LinkAt(view, w, p),
                         [token |-> k, state |-> "creating", task |-> NoTask])
  <2>2. view' = s
    <3>1. [view EXCEPT ![w].reservations[p] =
             [token |-> k, state |-> "creating", task |-> NoTask]] = s
      BY <1>2, ReservedIsWithPR
    <3> QED
      BY <2>1, <3>1 DEF SaveThen
  <2>3. Marking(tasks, k) = {}
    BY DEF FreshTokens, Marking
  <2>4. Links(s, tasks, released)
    BY <1>2, <1>3, <2>3, ReserveLinks
  <2> HIDE DEF s
  <2>5. QED BY <1>2, <1>3, <2>2, <2>4, LinkedPlainly
<1>9. QED BY <1>1, <1>5, <1>6, <1>7, <1>8

LEMMA FindLinked ==
  ASSUME LInv, Find
  PROVE  Linked'
<1> DEFINE k == ReservationAt(view, w, cur).token
<1>1. /\ pc = "find" /\ w \in WatchIds /\ cur \in PRs /\ view \in Snapshot
      /\ ReservationAt(view, w, cur).state = "creating"
      /\ UNCHANGED <<durable, tasks, released, kind>>
  BY DEF Find, LInv, IInv, InHand, TypeOK, Snapshot
<1>2. /\ kind # "detach" /\ Links(view, tasks, released)
      /\ Links(durable, tasks, released) /\ Accounts(view, tasks, released, released)
  BY <1>1, LinkedBefore
<1>3. Found(view[w].reservations[cur].token) = Marking(tasks, k)
  BY DEF Found, Marking, Live, ReservationAt
<1>4. view' = view \/ \E t \in Marking(tasks, k) : view' = WithTask(view, w, cur, t)
  BY <1>3 DEF Find, SaveThen
<1>5. ASSUME NEW t \in Marking(tasks, k)
      PROVE  Links(WithTask(view, w, cur, t), tasks, released)
  <2>1. t \in TaskIds
    BY DEF Marking
  <2>2. QED BY <1>1, <1>2, <2>1, LinkLinks
<1>6. QED BY <1>1, <1>2, <1>4, <1>5, LinkedPlainly

\* The task the host creates is new to both snapshots.
LEMMA HostCreatesLinks ==
  ASSUME LInv, pc = "create", NEW t, HostCreates(t)
  PROVE  Links(durable, tasks', released)
<1> DEFINE task == [token |-> view[w].reservations[cur].token, watch |-> w,
                    pr |-> cur, bound |-> view[w].binding, via |-> via]
<1>1. /\ t \in TaskIds /\ t \notin released /\ tasks' = WithHostTask(tasks, t, task)
      /\ ~ Mentions(durable, t)
  BY DEF HostCreates, FreshTasks, WithHostTask
<1>2. \A x \in WatchIds, p \in PRs : ReservationAt(durable, x, p).task # t
  BY <1>1 DEF Mentions, ReservationAt
<1>3. tasks \in HostTasks /\ Links(durable, tasks, released)
  BY DEF LInv, IInv, TypeOK, HostTasks, Linked
<1> HIDE DEF task
<1>4. QED BY <1>1, <1>2, <1>3, CreateLinks

LEMMA CreateLinked ==
  ASSUME LInv, CreateTask \/ CreateReplyLost
  PROVE  Linked'
<1>1. /\ pc = "create" /\ w \in WatchIds /\ cur \in PRs
      /\ view \in Snapshot /\ view = durable
      /\ ReservationAt(view, w, cur).state = "creating"
      /\ UNCHANGED <<durable, released>>
  BY DEF CreateTask, CreateReplyLost, LInv, IInv, InHand, TypeOK, Snapshot
<1>2. kind # "detach"
  BY <1>1, LinkedBefore
<1>3. CASE CreateTask
  <2>1. PICK t : HostCreates(t) /\ SaveThen("items", WithTask(view, w, cur, t))
    BY <1>3 DEF CreateTask
  <2>2. /\ t \in TaskIds
        /\ Accounts(durable, tasks', released, released)
        /\ t \in Marking(tasks', ReservationAt(view, w, cur).token)
    BY <1>1, <2>1, HostCreatesAccounts DEF LInv
  <2>3. Links(durable, tasks', released)
    BY <1>1, <2>1, HostCreatesLinks
  <2>4. Links(WithTask(view, w, cur, t), tasks', released)
    BY <1>1, <2>2, <2>3, LinkLinks
  <2>5. view' = WithTask(view, w, cur, t) /\ kind' = kind
    BY <1>3, <2>1 DEF CreateTask, SaveThen
  <2>6. QED BY <1>1, <1>2, <2>3, <2>4, <2>5, LinkedPlainly
<1>4. CASE CreateReplyLost
  <2>1. PICK t : HostCreates(t)
    BY <1>4 DEF CreateReplyLost
  <2>2. QED BY <1>1, <1>4, <2>1, HostCreatesLinks, LinkedReturn DEF CreateReplyLost
<1>5. QED BY <1>3, <1>4

LEMMA BeginLinked ==
  ASSUME LInv, BeginRecover \/ (\E x \in WatchIds : BeginRun(x))
                 \/ \E o \in {"preview", "reset", "delete"}, x \in WatchIds :
                      BeginTeardown(o, x)
  PROVE  Linked'
<1>1. pc = "idle" /\ UNCHANGED <<durable, tasks, released, view>> /\ kind' # "detach"
  BY DEF BeginRecover, BeginRun, BeginTeardown, Start
<1>2. Fewer(view, view')
  BY <1>1 DEF Fewer
<1>3. QED BY <1>1, <1>2, LinkedStill

LEMMA ReconcileLinked ==
  ASSUME LInv, Reconcile
  PROVE  Linked'
<1>1. /\ pc = "reconcile" /\ view \in Snapshot /\ todo \subseteq WatchIds \X PRs
      /\ UNCHANGED <<durable, tasks, released, kind>>
  BY DEF Reconcile, LInv, IInv, TypeOK, Snapshot
<1>2. /\ kind # "detach" /\ Links(view, tasks, released)
      /\ Links(durable, tasks, released) /\ Accounts(view, tasks, released, released)
  BY <1>1, LinkedBefore
<1>3. \A xp \in todo : ReservationAt(view, xp[1], xp[2]).state = "creating"
  BY <1>1 DEF LInv, IInv, InHand
<1>4. PICK xp \in todo :
        LET reservation == view[xp[1]].reservations[xp[2]]
            found == IF reservation.task # NoTask THEN {reservation.task}
                     ELSE Found(reservation.token)
        IN \/ found = {} /\ UNCHANGED view
           \/ \E t \in found : view' = WithTask(view, xp[1], xp[2], t)
  BY Zenon DEF Reconcile
<1>5. PICK x \in WatchIds, p \in PRs : xp = <<x, p>>
  BY <1>1
<1> DEFINE k == ReservationAt(view, x, p).token
<1>6. ReservationAt(view, x, p).state = "creating"
  BY <1>3, <1>5
<1>7. ReservationAt(view, x, p).task = NoTask
  BY <1>2, <1>6 DEF Accounts, Shape, Shaped, NoReservation
<1>8. Found(view[x].reservations[p].token) = Marking(tasks, k)
  BY DEF Found, Marking, Live, ReservationAt
<1>9. view' = view \/ \E t \in Marking(tasks, k) : view' = WithTask(view, x, p, t)
  BY <1>4, <1>5, <1>7, <1>8 DEF ReservationAt
<1>10. ASSUME NEW t \in Marking(tasks, k)
       PROVE  Links(WithTask(view, x, p, t), tasks, released)
  <2>1. t \in TaskIds
    BY DEF Marking
  <2>2. QED BY <1>1, <1>2, <1>6, <2>1, LinkLinks
<1>11. QED BY <1>1, <1>2, <1>9, <1>10, LinkedPlainly

LEMMA ReconciledLinked ==
  ASSUME LInv, Reconciled
  PROVE  Linked'
<1>1. pc = "reconcile" /\ UNCHANGED <<durable, tasks, released>>
  BY DEF Reconciled
<1>2. kind # "detach" /\ Links(durable, tasks, released)
  BY <1>1, LinkedBefore
<1>3. CASE Return
  BY <1>1, <1>2, <1>3, LinkedReturn
<1>4. CASE view' = view /\ kind' = kind
  <2>1. Fewer(view, view')
    BY <1>4 DEF Fewer
  <2>2. QED BY <1>1, <1>2, <1>4, <2>1, LinkedStill
<1>5. QED BY <1>3, <1>4 DEF Reconciled, SaveThen, callVars
LEMMA TearLinked ==
  ASSUME LInv, DeleteOwned \/ DeleteReplyLost \/ FinishTeardown
  PROVE  Linked'
<1>1. /\ pc = "tear" /\ w \in WatchIds /\ Exists(view, w) /\ view \in Snapshot
      /\ tasks \in HostTasks /\ UNCHANGED <<durable, released>>
  BY DEF DeleteOwned, DeleteReplyLost, FinishTeardown, LInv, IInv, InHand, TypeOK,
     Snapshot, HostTasks
<1>2. kind # "detach" /\ Links(view, tasks, released) /\ Links(durable, tasks, released)
  BY <1>1, LinkedBefore
<1>3. FewerTasks(tasks, tasks')
  <2>1. CASE \E t : HostDeletes(t)
    BY <1>1, <2>1, DeletedTasks DEF HostDeletes, WithHostTask
  <2>2. CASE tasks' = tasks
    BY <2>2 DEF FewerTasks
  <2>3. QED BY <2>1, <2>2 DEF DeleteOwned, DeleteReplyLost, FinishTeardown
<1>4. Fewer(durable, durable)
  BY DEF Fewer
<1>5. Links(durable, tasks', released)
  BY <1>2, <1>3, <1>4, FewerLinks
<1>6. CASE DeleteReplyLost
  BY <1>1, <1>5, <1>6, LinkedReturn DEF DeleteReplyLost
<1>7. CASE DeleteOwned \/ FinishTeardown
  <2>1. Fewer(view, view')
    <3>1. ASSUME NEW p \in PRs
          PROVE  Fewer(view, WithPR(view, w, p, NoLink, NoReservation))
      <4>1. \A x \in WatchIds, q \in PRs :
              LET v == WithPR(view, w, p, NoLink, NoReservation) IN
              /\ Exists(v, x) <=> Exists(view, x)
              /\ LinkAt(v, x, q) =
                   IF x = w /\ q = p THEN NoLink ELSE LinkAt(view, x, q)
              /\ ReservationAt(v, x, q) =
                   IF x = w /\ q = p THEN NoReservation ELSE ReservationAt(view, x, q)
        BY <1>1, WithPRAt
      <4>2. QED BY <4>1 DEF Fewer
    <3>2. Fewer(view, [view EXCEPT ![w].cursor = 0, ![w].failing = FALSE])
      BY <1>1, SameEdits, SameFewer
    <3>3. Fewer(view, [view EXCEPT ![w] = NoWatch])
      BY <1>1 DEF Fewer, Snapshot, LinkAt, ReservationAt, NoWatch
    <3>4. QED
      BY <1>7, <3>1, <3>2, <3>3 DEF DeleteOwned, FinishTeardown, SaveThen, OwnedLinks
  <2>2. Links(view', tasks', released) /\ kind' = kind
    BY <1>2, <1>3, <1>7, <2>1, FewerLinks DEF DeleteOwned, FinishTeardown, callVars
  <2>3. QED BY <1>1, <1>2, <1>5, <2>2, LinkedPlainly
<1>8. QED BY <1>6, <1>7

LEMMA EditsLinked ==
  ASSUME LInv, NEW x \in WatchIds,
         Create(x) \/ Pause(x) \/ Resume(x) \/ SetFilter(x)
  PROVE  Linked'
<1>1. /\ pc = "idle" /\ view = durable /\ durable \in Snapshot /\ durable[x] \in Watch
      /\ UNCHANGED <<durable, tasks, released>> /\ kind' # "detach"
  BY DEF Create, Pause, Resume, SetFilter, Edit, Start, LInv, IInv, InHand, TypeOK,
     Snapshot
<1>2. CASE Create(x)
  <2>1. \E st \in {"running", "paused"} : view' = [durable EXCEPT ![x] =
          [NoWatch EXCEPT !.status = st, !.binding = Connection]]
    BY <1>2 DEF Create, Edit, SaveThen
  <2>2. Fewer(durable, view')
    BY <1>1, <2>1 DEF Fewer, Snapshot, LinkAt, ReservationAt, NoWatch
  <2>3. QED BY <1>1, <2>2, LinkedStill
<1>3. CASE Pause(x)
  <2>1. Same(durable, view')
    BY <1>1, <1>3, SameEdits DEF Pause, Edit, SaveThen
  <2>2. QED BY <1>1, <2>1, SameFewer, LinkedStill
<1>4. CASE Resume(x)
  <2> DEFINE v == IF Connection # 0
                    THEN [durable[x] EXCEPT !.status = "running",
                            !.binding = Connection, !.cursor = 0,
                            !.failing = FALSE]
                    ELSE [durable[x] EXCEPT !.status = "running"]
  <2>1. v.links = durable[x].links /\ v.reservations = durable[x].reservations
    BY <1>1 DEF Watch
  <2>2. view' = [durable EXCEPT ![x] = v]
    BY <1>1, <1>4 DEF Resume, Edit, SaveThen, Snapshot
  <2> HIDE DEF v
  <2>3. Fewer(durable, view')
    BY <1>1, <2>1, <2>2 DEF Fewer, Snapshot, LinkAt, ReservationAt
  <2>4. QED BY <1>1, <2>3, LinkedStill
<1>5. CASE SetFilter(x)
  <2>1. Same(durable, view')
    BY <1>1, <1>5, SameEdits DEF SetFilter, Edit, SaveThen
  <2>2. QED BY <1>1, <2>1, SameFewer, LinkedStill
<1>6. QED BY <1>2, <1>3, <1>4, <1>5

\* What a detach makes of a link.
LEMMA DetachedAt ==
  ASSUME durable \in Snapshot, NEW t, NEW p \in PRs, DetachTaskLink(t, p),
         NEW x \in WatchIds, NEW q \in PRs
  PROVE  /\ ReservationAt(view', x, q) = ReservationAt(durable, x, q)
         /\ \/ LinkAt(view', x, q) = LinkAt(durable, x, q)
            \/ /\ LinkAt(durable, x, q) = [task |-> t, owned |-> TRUE]
               /\ LinkAt(view', x, q) = [task |-> t, owned |-> FALSE]
         /\ view'[x].cursor = durable[x].cursor
<1>1. durable[x] \in Watch
  BY DEF Snapshot
<1>2. view'[x] = IF durable[x].links[p] = [task |-> t, owned |-> TRUE]
          THEN [durable[x] EXCEPT !.links[p] = [task |-> t, owned |-> FALSE]]
          ELSE durable[x]
  BY DEF DetachTaskLink, Edit, SaveThen
<1>3. QED BY <1>1, <1>2 DEF Watch, ReservationAt, LinkAt

LEMMA DetachLinked ==
  ASSUME LInv, NEW t \in TaskIds, NEW p \in PRs, DetachTaskLink(t, p)
  PROVE  Linked'
<1>1. /\ kind' = "detach" /\ UNCHANGED <<durable, tasks, released>>
      /\ durable \in Snapshot
  BY DEF DetachTaskLink, Edit, Start, LInv, IInv, TypeOK, Snapshot
<1>2. Accounts(durable, tasks, released, released) /\ Links(durable, tasks, released)
  BY DEF LInv, IInv, Accounted, Linked
<1>3. \A x \in WatchIds, q \in PRs :
        /\ ReservationAt(view', x, q) = ReservationAt(durable, x, q)
        /\ LinkAt(view', x, q).owned => LinkAt(view', x, q) = LinkAt(durable, x, q)
  <2>1. ASSUME NEW x \in WatchIds, NEW q \in PRs
        PROVE  /\ ReservationAt(view', x, q) = ReservationAt(durable, x, q)
               /\ LinkAt(view', x, q).owned => LinkAt(view', x, q) = LinkAt(durable, x, q)
    BY <1>1, DetachedAt
  <2>2. QED BY <2>1
<1>4. Links(view', tasks, released \cup Unlinked(durable, view'))
  BY <1>2, <1>3, DetachLinks
<1>5. QED BY <1>1, <1>2, <1>4 DEF Linked, Releasing

LEMMA OutsideLinked ==
  ASSUME LInv, Outside
  PROVE  Linked'
<1>1. UNCHANGED <<durable, released, view, kind>> /\ FewerTasks(tasks, tasks')
  <2>1. tasks \in HostTasks
    BY DEF LInv, IInv, TypeOK, HostTasks
  <2>2. FewerTasks(tasks, tasks)
    BY DEF FewerTasks
  <2>3. ASSUME NEW t, HostDeletes(t) PROVE FewerTasks(tasks, tasks')
    BY <2>1, <2>3, DeletedTasks DEF HostDeletes, WithHostTask
  <2>4. QED BY <2>2, <2>3 DEF Outside, Connect, Disconnect, OpenOrClose,
                PersonDeletesTask, World, callVars
<1>2. Fewer(view, view) /\ Fewer(durable, durable)
  BY DEF Fewer
<1>3. /\ Links(durable, tasks', released)
      /\ Links(view, tasks', released \cup Releasing)
  BY <1>1, <1>2, FewerLinks DEF LInv, Linked
<1>4. QED BY <1>1, <1>3 DEF Linked, Releasing

LEMMA NextLinked ==
  ASSUME LInv, [Next]_vars
  PROVE  Linked'
<1>1. CASE UNCHANGED vars
  BY <1>1 DEF LInv, Linked, Links, Releasing, vars, callVars
<1>2. CASE Advance
  BY <1>2, SaveLinked, PollLinked, EnsureLinkedKept, FindLinked, CreateLinked,
     DroppedLinked, ReconcileLinked, ReconciledLinked, TearLinked DEF Advance
<1>3. CASE Poll
  BY <1>3, BeginLinked DEF Poll
<1>4. CASE Request
  BY <1>4, BeginLinked, EditsLinked, DetachLinked DEF Request
<1>5. CASE Failure
  BY <1>5, SaveLinked, DroppedLinked, PollLinked, CreateLinked, TearLinked DEF Failure
<1>6. CASE Outside
  BY <1>6, OutsideLinked
<1>7. QED BY <1>1, <1>2, <1>3, <1>4, <1>5, <1>6 DEF Next
-----------------------------------------------------------------------------
(* Walked is kept. *)

\* Links and reservations are written without moving a cursor.
LEMMA CursorStays ==
  ASSUME NEW s \in Snapshot, NEW x \in WatchIds, NEW p \in PRs, NEW link,
         NEW reservation, NEW y \in WatchIds
  PROVE  WithPR(s, x, p, link, reservation)[y].cursor = s[y].cursor
<1>1. s[x] \in Watch /\ s[y] \in Watch
  BY DEF Snapshot
<1>2. QED BY <1>1 DEF WithPR, Snapshot, Watch

LEMMA TaskLinked ==
  ASSUME NEW s \in Snapshot, NEW x \in WatchIds, NEW p \in PRs, NEW t \in TaskIds
  PROVE  LET v == WithTask(s, x, p, t) IN
         /\ \A y \in WatchIds : v[y].cursor = s[y].cursor
         /\ LinkAt(v, x, p) # NoLink
         /\ \A q \in PRs \ {p} : LinkAt(v, x, q) = LinkAt(s, x, q)
<1> DEFINE v == WithTask(s, x, p, t)
<1>1. \A y \in WatchIds : v[y].cursor = s[y].cursor
  BY CursorStays DEF WithTask
<1>2. [task |-> t, owned |-> TRUE] # NoLink
  BY DEF NoLink
<1>3. /\ LinkAt(v, x, p) = [task |-> t, owned |-> TRUE]
      /\ \A y \in WatchIds, q \in PRs : ~ (y = x /\ q = p) =>
           LinkAt(v, y, q) = LinkAt(s, y, q)
  BY WithTaskAt
<1> HIDE DEF v
<1>4. QED BY <1>1, <1>2, <1>3 DEF v

\* What a step of a poll's items leaves to do.
Treated ==
  \A p \in listed' : LinkAt(view', w', p) # NoLink \/ <<w', p>> \in todo'

LEMMA WalkedOn ==
  ASSUME pc' \in {"items", "find", "create", "save"}, then' \in {"idle", "items", "create"},
         \A x \in WatchIds : view'[x].cursor = durable'[x].cursor, Treated
  PROVE  Walked'
BY DEF Walked, Treated

LEMMA RunWalked ==
  ASSUME LInv, kind = "run", Fence \/ List \/ ListFails \/ FinishRun
  PROVE  Walked'
<1>1. /\ w \in WatchIds /\ view \in Snapshot /\ view = durable /\ view[w] \in Watch
      /\ then = "idle" /\ pc # "save" /\ listed \subseteq PRs
      /\ UNCHANGED <<durable, kind, w>>
  BY DEF Fence, List, ListFails, FinishRun, LInv, IInv, InHand, TypeOK, Snapshot,
     callVars
<1>2. CASE Fence
  <2>1. pc' \in {"list", "save"} /\ then' = "idle"
    BY <1>1, <1>2 DEF Fence, SaveThen
  <2>2. \A x \in WatchIds : view'[x].cursor = durable[x].cursor
    BY <1>1, <1>2 DEF Fence, SaveThen, Snapshot, Watch
  <2>3. QED BY <1>1, <2>1, <2>2 DEF Walked
<1>3. CASE List
  <2>1. /\ pc' = "items" /\ then' = "idle" /\ view' = view
        /\ todo' = {w} \X listed'
    BY <1>1, <1>3 DEF List
  <2>2. QED BY <1>1, <2>1 DEF Walked
<1>4. CASE ListFails
  <2>1. pc' = "save" /\ then' = "idle"
    BY <1>4 DEF ListFails, SaveThen
  <2>2. \A x \in WatchIds : view'[x].cursor = durable[x].cursor
    BY <1>1, <1>4 DEF ListFails, SaveThen, Snapshot, Watch
  <2>3. QED BY <1>1, <2>1, <2>2 DEF Walked
<1>5. CASE FinishRun
  <2>1. /\ pc = "items" /\ todo = {} /\ pc' = "save" /\ then' = "idle"
        /\ listed' = listed
        /\ view' = [view EXCEPT ![w].cursor = next, ![w].failing = FALSE]
    BY <1>5 DEF FinishRun, SaveThen, callVars, pollVars
  <2>2. Same(view, view')
    BY <1>1, <2>1, SameEdits DEF LInv, IInv, InHand
  <2>3. \A p \in listed : LinkAt(view', w, p) # NoLink
    BY <1>1, <2>1, <2>2 DEF LInv, Walked, Same
  <2>4. \A x \in WatchIds : x # w => view'[x] = durable[x]
    BY <1>1, <2>1 DEF Snapshot
  <2>5. QED BY <1>1, <2>1, <2>3, <2>4 DEF Walked
<1>6. QED BY <1>2, <1>3, <1>4, <1>5

LEMMA ItemsWalked ==
  ASSUME LInv, kind = "run", Ensure \/ Find \/ CreateTask
  PROVE  Walked'
<1>1. /\ w \in WatchIds /\ view \in Snapshot /\ view = durable /\ then = "idle"
      /\ pc \in {"items", "find", "create"} /\ listed \subseteq PRs
      /\ UNCHANGED <<durable, kind, w, listed>>
  BY DEF Ensure, Find, CreateTask, LInv, IInv, InHand, TypeOK, Snapshot, pollVars
<1>2. \A p \in listed : LinkAt(view, w, p) # NoLink \/ <<w, p>> \in todo
  BY <1>1 DEF LInv, Walked
<1>3. ASSUME NEW p \in PRs, NEW t \in TaskIds, SaveThen("items", WithTask(view, w, p, t)),
             todo' = todo \ {<<w, p>>}
      PROVE  Walked'
  <2>1. /\ \A y \in WatchIds : view'[y].cursor = view[y].cursor
        /\ LinkAt(view', w, p) # NoLink
        /\ \A q \in PRs \ {p} : LinkAt(view', w, q) = LinkAt(view, w, q)
    BY <1>1, <1>3, TaskLinked DEF SaveThen
  <2>2. pc' = "save" /\ then' = "items"
    BY <1>3 DEF SaveThen
  <2>3. ASSUME NEW q \in listed
        PROVE  LinkAt(view', w, q) # NoLink \/ <<w, q>> \in todo'
    <3>1. CASE q = p
      BY <2>1, <3>1
    <3>2. CASE q # p
      <4>1. LinkAt(view', w, q) = LinkAt(view, w, q) /\ <<w, q>> # <<w, p>>
        BY <1>1, <2>1, <3>2
      <4>2. LinkAt(view, w, q) # NoLink \/ <<w, q>> \in todo
        BY <1>2
      <4>3. QED BY <1>3, <4>1, <4>2
    <3>3. QED BY <3>1, <3>2
  <2>4. Treated
    BY <1>1, <2>3 DEF Treated
  <2>5. QED BY <1>1, <2>1, <2>2, <2>4, WalkedOn
<1>4. CASE Ensure
  <2>1. PICK p \in PRs :
          EnsureLinked(p) \/ EnsureKnown(p) \/ EnsureLookup(p) \/ EnsureReserved(p)
    BY <1>4 DEF Ensure
  <2>2. CASE EnsureLinked(p)
    <3>1. [view EXCEPT ![w].links[p] = Upgraded(@)] = view
      BY <1>1 DEF Upgraded, Snapshot, Watch
    <3>2. /\ view' = view /\ pc' \in {"items", "save"} /\ then' \in {"idle", "items"}
          /\ LinkAt(view, w, p) # NoLink /\ todo' = todo \ {<<w, p>>}
      BY <1>1, <2>2, <3>1 DEF EnsureLinked, SaveThen, LinkAt
    <3>3. Treated
      BY <1>1, <1>2, <3>2 DEF Treated
    <3>4. QED BY <1>1, <3>2, <3>3, WalkedOn
  <2>3. CASE EnsureKnown(p)
    <3>1. Shaped(LinkAt(view, w, p), ReservationAt(view, w, p))
      BY <1>1 DEF LInv, IInv, Accounted, Accounts, Shape
    <3>2. LinkAt(view, w, p) = NoLink /\ ReservationAt(view, w, p).task # NoTask
      BY <2>3 DEF EnsureKnown, LinkAt, ReservationAt
    <3>3. ReservationAt(view, w, p).task \notin TaskIds
      BY <3>1, <3>2, ConstantsAssumption DEF Shaped, NoReservation, NoLink
    <3>4. QED BY <3>1, <3>2, <3>3 DEF Shaped, NoReservation
  <2>4. CASE EnsureLookup(p)
    <3>1. view' = view /\ pc' = "find" /\ then' = then /\ todo' = todo
      BY <2>4 DEF EnsureLookup
    <3>2. Treated
      BY <1>1, <1>2, <3>1 DEF Treated
    <3>3. QED BY <1>1, <3>1, <3>2, WalkedOn
  <2>5. CASE EnsureReserved(p)
    <3>1. PICK k : SaveThen("create", [view EXCEPT ![w].reservations[p] =
                     [token |-> k, state |-> "creating", task |-> NoTask]])
      BY <2>5 DEF EnsureReserved
    <3>2. /\ \A y \in WatchIds : view'[y].cursor = view[y].cursor
          /\ \A q \in PRs : LinkAt(view', w, q) = LinkAt(view, w, q)
      BY <1>1, <3>1 DEF SaveThen, Snapshot, Watch, LinkAt
    <3>3. pc' = "save" /\ then' = "create" /\ todo' = todo
      BY <2>5, <3>1 DEF SaveThen, EnsureReserved
    <3>4. Treated
      BY <1>1, <1>2, <3>2, <3>3 DEF Treated
    <3>5. QED BY <1>1, <3>2, <3>3, <3>4, WalkedOn
  <2>6. QED BY <2>1, <2>2, <2>3, <2>4, <2>5
<1>5. CASE Find
  <2>1. cur \in PRs
    BY <1>5 DEF Find, LInv, IInv, InHand
  <2>2. CASE pc' = "create" /\ UNCHANGED <<view, then, todo, cur>>
    <3>1. Treated
      BY <1>1, <1>2, <2>2 DEF Treated
    <3>2. QED BY <1>1, <2>2, <3>1, WalkedOn
  <2>3. CASE \E t \in TaskIds : /\ SaveThen("items", WithTask(view, w, cur, t))
                                /\ todo' = todo \ {<<w, cur>>}
    BY <1>3, <2>1, <2>3
  <2>4. QED BY <1>5, <2>2, <2>3 DEF Find, Found
<1>6. CASE CreateTask
  <2>1. cur \in PRs
    BY <1>6 DEF CreateTask, LInv, IInv, InHand
  <2>2. QED BY <1>3, <1>6, <2>1 DEF CreateTask
<1>7. QED BY <1>4, <1>5, <1>6

LEMMA NextWalked ==
  ASSUME LInv, [Next]_vars
  PROVE  Walked'
<1>1. CASE UNCHANGED vars
  BY <1>1 DEF LInv, Walked, vars, callVars, pollVars
<1>2. CASE kind' # "run"
  BY <1>2 DEF Walked
<1>3. CASE Return
  BY <1>3 DEF Return, Walked
<1>4. CASE kind = "run" /\ Save /\ then # "idle"
  <2>1. /\ durable' = view /\ view' = view /\ pc' = then /\ then' = "idle"
        /\ UNCHANGED <<w, todo, listed>>
    BY <1>4 DEF Save, callVars, pollVars
  <2>2. QED BY <1>4, <2>1 DEF LInv, Walked
<1>5. CASE kind = "run" /\ (Fence \/ List \/ ListFails \/ FinishRun)
  BY <1>5, RunWalked
<1>6. CASE kind = "run" /\ (Ensure \/ Find \/ CreateTask)
  BY <1>6, ItemsWalked
<1>7. CASE /\ kind = "run"
           /\ Reconcile \/ Reconciled \/ DeleteOwned \/ FinishTeardown
  BY <1>7 DEF LInv, Walked, Reconcile, Reconciled, DeleteOwned, FinishTeardown
<1>8. ASSUME NEW x \in WatchIds, BeginRun(x) PROVE Walked'
  <2>1. pc' = "fence" /\ UNCHANGED <<durable, view, then>> /\ pc = "idle"
    BY <1>8 DEF BeginRun, Start
  <2>2. view = durable /\ then = "idle"
    BY <2>1 DEF LInv, IInv, InHand
  <2>3. QED BY <2>1, <2>2 DEF Walked
<1>9. CASE kind = "run" /\ Outside
  <2>1. UNCHANGED <<durable, view, pc, then, w, todo, listed>>
    BY <1>9 DEF Outside, Connect, Disconnect, OpenOrClose, PersonDeletesTask, World,
       callVars, pollVars
  <2>2. QED BY <1>9, <2>1 DEF LInv, Walked
<1>10. Advance => \/ Return \/ kind' = kind
  BY DEF Advance, Save, Fence, List, ListFails, Ensure, Find, CreateTask, CreateRefused,
     FinishRun, Reconcile, Reconciled, DeleteOwned, FinishTeardown, callVars
<1>11. CASE Advance
  BY <1>2, <1>3, <1>4, <1>5, <1>6, <1>7, <1>10, <1>11 DEF Advance, Save, CreateRefused
<1>12. CASE Poll
  BY <1>2, <1>8, <1>12 DEF Poll, BeginRecover, Start
<1>13. CASE Request
  BY <1>2, <1>13 DEF Request, Create, Pause, Resume, SetFilter, BeginTeardown,
     DetachTaskLink, Edit, Start
<1>14. CASE Failure
  <2>1. CASE ListFails
    BY <1>2, <1>5, <2>1 DEF ListFails, callVars
  <2>2. QED BY <1>3, <1>14, <2>1 DEF Failure, SaveReportedFailed, Interrupted,
             CreateReplyLost, DeleteReplyLost
<1>15. CASE Outside
  BY <1>2, <1>9, <1>15 DEF Outside, Connect, Disconnect, OpenOrClose,
     PersonDeletesTask, World, callVars
<1>16. QED BY <1>1, <1>11, <1>12, <1>13, <1>14, <1>15 DEF Next

-----------------------------------------------------------------------------
(* The theorems. *)

LEMMA InitLInv == Init => LInv
<1> SUFFICES ASSUME Init PROVE LInv
  OBVIOUS
<1>1. /\ durable = [x \in WatchIds |-> NoWatch] /\ view = durable
      /\ released = {} /\ kind = "none"
  BY DEF Init
<1>2. \A x \in WatchIds, p \in PRs :
        ~ LinkAt(durable, x, p).owned /\ ReservationAt(durable, x, p).state = "none"
  BY <1>1 DEF LinkAt, ReservationAt, NoWatch, NoLink, NoReservation
<1>3. Links(durable, tasks, released) /\ Releasing = {}
  BY <1>1, <1>2 DEF Links, Owned, OfItsTask, Apart, Over, Releasing
<1>4. Linked /\ Walked
  BY <1>1, <1>3 DEF Linked, Walked
<1>5. QED BY <1>4, InitIInv DEF LInv

LEMMA NextLInv == LInv /\ [Next]_vars => LInv'
BY NextIInv, NextLinked, NextWalked DEF LInv

\* What records a released task is never taken for the watch's, and a poll
\* treats all it was answered with: the invariant of the theorems below.
LEMMA LinksInvariance == Spec => []LInv
BY InitLInv, NextLInv, PTL DEF Spec

\* A link a person detached is never the watch's again, whatever polls,
\* recoveries and retries follow.
THEOREM DetachedStays == Spec => []DetachedStaysDetached
<1>1. LInv => DetachedStaysDetached
  BY DEF LInv, Linked, Links, Owned, LinkAt, DetachedStaysDetached
<1>2. QED BY <1>1, LinksInvariance, PTL

\* No teardown and no retry of one deletes the task of a detached link.
THEOREM DetachedNotDeleted == Spec => DeletesOnlyOwned
<1>1. ASSUME LInv, [Next]_vars
      PROVE  [\A t \in released : Live(t) /\ requests' = requests => Live(t)']_vars
  <2> SUFFICES ASSUME NEW t \in released, Live(t), requests' = requests, ~ Live(t)'
      PROVE  FALSE
    OBVIOUS
  <2>1. t \in TaskIds /\ tasks \in HostTasks /\ tasks[t] # NoHostTask
        /\ tasks'[t] = NoHostTask /\ requests \in Nat
    BY <1>1 DEF LInv, IInv, TypeOK, HostTasks, Live
  <2>2. CASE \E p \in OwnedLinks(view[w]) :
               pc = "tear" /\ HostDeletes(view[w].links[p].task)
    <3>1. PICK p \in OwnedLinks(view[w]) : HostDeletes(view[w].links[p].task)
      BY <2>2
    <3>2. p \in PRs /\ w \in WatchIds /\ LinkAt(view, w, p).owned
      BY <1>1, <2>2 DEF OwnedLinks, LinkAt, LInv, IInv, InHand
    <3>3. t = LinkAt(view, w, p).task
      BY <2>1, <3>1 DEF HostDeletes, HostTasks, LinkAt
    <3>4. Links(view, tasks, released)
      BY <1>1, <2>2, LinkedBefore
    <3>5. QED BY <3>2, <3>3, <3>4 DEF Links, Owned
  <2>3. CASE \E u : HostCreates(u)
    <3>1. PICK u \in TaskIds : ~ Live(u) /\ \E task : tasks' = [tasks EXCEPT ![u] = task]
      BY <2>3 DEF HostCreates, FreshTasks
    <3>2. QED BY <2>1, <3>1 DEF HostTasks, Live
  <2>4. CASE tasks' = tasks
    BY <2>1, <2>4
  <2>5. CASE requests' = requests + 1
    BY <2>1, <2>5
  <2>6. QED
    BY <1>1, <2>2, <2>3, <2>4, <2>5
    DEF Next, Advance, Poll, Request, Failure, Outside, vars, Save, Fence, List, ListFails,
        Ensure, Find, CreateTask, CreateRefused, FinishRun, Reconcile, Reconciled,
        DeleteOwned, FinishTeardown, BeginRecover, BeginRun, Create, Pause, Resume,
        SetFilter, BeginTeardown, DetachTaskLink, Edit, Start, Ask, SaveReportedFailed,
        Interrupted, CreateReplyLost, DeleteReplyLost, Connect, Disconnect, OpenOrClose,
        PersonDeletesTask, World
<1>2. QED BY <1>1, LinksInvariance, PTL DEF Spec, DeletesOnlyOwned

\* The saved cursor passes a page only when each pull request the provider
\* answered with has a saved link.
THEOREM CursorWaits == Spec => CursorPassesOnlyLinked
<1>1. ASSUME LInv, [Next]_vars
      PROVE  [\A x \in WatchIds :
                kind = "run" /\ durable'[x].cursor # durable[x].cursor =>
                  \A p \in listed : durable'[x].links[p] # NoLink]_vars
  <2> SUFFICES ASSUME NEW x \in WatchIds, kind = "run",
                      durable'[x].cursor # durable[x].cursor, NEW p \in listed
      PROVE  durable'[x].links[p] # NoLink
    OBVIOUS
  <2>1. durable' = view \/ durable' = durable
    BY <1>1
    DEF Next, Advance, Poll, Request, Failure, Outside, vars, Save, Fence, List, ListFails,
        Ensure, Find, CreateTask, CreateRefused, FinishRun, Reconcile, Reconciled,
        DeleteOwned, FinishTeardown, BeginRecover, BeginRun, Create, Pause, Resume,
        SetFilter, BeginTeardown, DetachTaskLink, Edit, Start, SaveReportedFailed,
        Interrupted, CreateReplyLost, DeleteReplyLost, Connect, Disconnect, OpenOrClose,
        PersonDeletesTask, World
  <2>2. QED BY <1>1, <2>1 DEF LInv, Walked, LinkAt
<1>2. QED BY <1>1, LinksInvariance, PTL DEF Spec, CursorPassesOnlyLinked

-----------------------------------------------------------------------------
(***************************************************************************)
(* The refinement.  A phase changes when the host makes or loses a task,   *)
(* or by a save.  What a save changes was decided in the working copy,     *)
(* many calls earlier for a reset: Turned says how the working copy may    *)
(* differ from the saved snapshot meanwhile, whatever happens to the       *)
(* host's tasks.                                                           *)
(***************************************************************************)

\* The pull request is as it was saved.
Kept(s, v, x, p) ==
  /\ ReservationAt(v, x, p).state = ReservationAt(s, x, p).state
  /\ ReservationAt(v, x, p).token = ReservationAt(s, x, p).token
  /\ LinkAt(v, x, p).owned = LinkAt(s, x, p).owned

\* The task of its reservation is recorded.
Recorded(s, v, x, p) ==
  /\ ReservationAt(s, x, p).state = "creating"
  /\ ReservationAt(v, x, p).state = "created"
  /\ ReservationAt(v, x, p).token = ReservationAt(s, x, p).token
  /\ LinkAt(v, x, p).owned

\* The next save reserves it, gives a reservation up, unlinks or forgets its
\* task, or forgets it with all its watch has.
Reserved(s, v, T, x, p) ==
  /\ ReservationAt(s, x, p).state = "none"
  /\ ReservationAt(v, x, p).state = "creating"
  /\ Marking(T, ReservationAt(v, x, p).token) = {}

GivenUp(s, v, T, x, p) ==
  /\ ReservationAt(s, x, p).state = "creating"
  /\ ReservationAt(v, x, p).state = "none"
  /\ Marking(T, ReservationAt(s, x, p).token) = {}

LetGo(s, v, x, p) ==
  /\ ReservationAt(s, x, p).state = "created" /\ LinkAt(s, x, p).owned
  /\ \/ ReservationAt(v, x, p).state = "none"
     \/ ReservationAt(v, x, p).state = "created" /\ ~ LinkAt(v, x, p).owned

Dropped(s, v, x, p) ==
  /\ ReservationAt(s, x, p).state = "created"
  /\ \A q \in PRs : ReservationAt(v, x, q).state = "none"

Turns(s, v, T, x, p) ==
  \/ Kept(s, v, x, p) \/ Recorded(s, v, x, p)
  \/ Reserved(s, v, T, x, p) \/ GivenUp(s, v, T, x, p)
  \/ LetGo(s, v, x, p) \/ Dropped(s, v, x, p)

Turned ==
  /\ \A x \in WatchIds, p \in PRs : Turns(durable, view, tasks, x, p)
  /\ pc \in {"reconcile", "tear"} =>
       \A x \in WatchIds, p \in PRs :
         Kept(durable, view, x, p) \/ Recorded(durable, view, x, p)

FInv == IInv /\ Turned
-----------------------------------------------------------------------------
(* The phases. *)

\* The phase of a pull request, of any snapshot and any host tasks.
Phase(s, T, x, p) ==
  CASE ReservationAt(s, x, p).state = "none" -> "free"
    [] ReservationAt(s, x, p).state = "creating" ->
         IF Marking(T, ReservationAt(s, x, p).token) = {} THEN "reserved" ELSE "made"
    [] OTHER -> IF LinkAt(s, x, p).owned THEN "linked" ELSE "detached"

LEMMA PhaseIs ==
  ASSUME IInv, NEW x \in WatchIds, NEW p \in PRs
  PROVE  PhaseOf(x, p) = Phase(durable, tasks, x, p)
<1>1. Shaped(LinkAt(durable, x, p), ReservationAt(durable, x, p))
  BY DEF IInv, Accounted, Accounts, Shape
<1>2. Found(ReservationAt(durable, x, p).token)
        = Marking(tasks, ReservationAt(durable, x, p).token)
  BY DEF Found, Marking, Live
<1>3. LinkAt(durable, x, p).owned \in BOOLEAN
  BY DEF IInv, TypeOK, Watch, TaskLink, LinkAt
<1>4. CASE ReservationAt(durable, x, p) = NoReservation
  BY <1>1, <1>4 DEF PhaseOf, Phase, Shaped, NoReservation, NoLink, LinkAt, ReservationAt
<1>5. CASE ReservationAt(durable, x, p).state = "creating"
  <2>1. /\ durable[x].links[p].task = NoTask /\ durable[x].reservations[p].token # NoToken
        /\ ReservationAt(durable, x, p).state # "none"
    BY <1>1, <1>5, ConstantsAssumption
    DEF Shaped, NoReservation, NoLink, LinkAt, ReservationAt
  <2>2. QED BY <1>2, <1>5, <2>1 DEF PhaseOf, Phase, ReservationAt
<1>6. CASE ReservationAt(durable, x, p).state = "created"
  <2>1. durable[x].links[p].task # NoTask
    BY <1>1, <1>6, ConstantsAssumption
    DEF Shaped, NoReservation, NoLink, LinkAt, ReservationAt
  <2>2. QED BY <1>3, <1>6, <2>1 DEF PhaseOf, Phase, LinkAt
<1>7. QED BY <1>1, <1>4, <1>5, <1>6 DEF Shaped

\* The moves of a lifecycle a save or the host's tasks make.
Step(a, b) == a = b \/ <<a, b>> \in Lifecycle!Moves

LEMMA StepIs ==
  /\ \A a : Step(a, a)
  /\ Step("free", "reserved") /\ Step("reserved", "made") /\ Step("made", "linked")
  /\ Step("made", "reserved") /\ Step("reserved", "linked")
  /\ Step("linked", "detached") /\ Step("linked", "free")
  /\ Step("reserved", "free") /\ Step("detached", "free")
BY DEF Step, Lifecycle!Moves

\* What the working copy makes of a phase.
LEMMA TurnIsStep ==
  ASSUME NEW s, NEW v, NEW T, NEW x \in WatchIds, NEW p \in PRs,
         Shaped(LinkAt(s, x, p), ReservationAt(s, x, p)),
         Shaped(LinkAt(v, x, p), ReservationAt(v, x, p)),
         Turns(s, v, T, x, p)
  PROVE  /\ Step(Phase(s, T, x, p), Phase(v, T, x, p))
         /\ Phase(s, T, x, p) = "detached" /\ Phase(v, T, x, p) = "free" =>
              \A q \in PRs : Phase(v, T, x, q) = "free"
<1>1. /\ ReservationAt(s, x, p).state \in {"none", "creating", "created"}
      /\ ReservationAt(v, x, p).state \in {"none", "creating", "created"}
  BY DEF Shaped, NoReservation
<1>2. CASE Kept(s, v, x, p)
  <2>1. Phase(v, T, x, p) = Phase(s, T, x, p)
    BY <1>2 DEF Kept, Phase
  <2>2. QED BY <2>1, StepIs
<1>3. CASE Recorded(s, v, x, p)
  <2>1. Phase(s, T, x, p) \in {"reserved", "made"} /\ Phase(v, T, x, p) = "linked"
    BY <1>3 DEF Recorded, Phase
  <2>2. QED BY <2>1, StepIs
<1>4. CASE Reserved(s, v, T, x, p)
  <2>1. Phase(s, T, x, p) = "free" /\ Phase(v, T, x, p) = "reserved"
    BY <1>4 DEF Reserved, Phase
  <2>2. QED BY <2>1, StepIs
<1>5. CASE GivenUp(s, v, T, x, p)
  <2>1. Phase(s, T, x, p) = "reserved" /\ Phase(v, T, x, p) = "free"
    BY <1>5 DEF GivenUp, Phase
  <2>2. QED BY <2>1, StepIs
<1>6. CASE LetGo(s, v, x, p)
  <2>1. Phase(s, T, x, p) = "linked" /\ Phase(v, T, x, p) \in {"free", "detached"}
    BY <1>6 DEF LetGo, Phase
  <2>2. QED BY <2>1, StepIs
<1>7. CASE Dropped(s, v, x, p)
  <2>1. /\ Phase(s, T, x, p) \in {"linked", "detached"}
        /\ \A q \in PRs : Phase(v, T, x, q) = "free"
    BY <1>7 DEF Dropped, Phase
  <2>2. QED BY <2>1, StepIs
<1>8. QED BY <1>2, <1>3, <1>4, <1>5, <1>6, <1>7 DEF Turns
-----------------------------------------------------------------------------
(* Turned is kept. *)

\* A working copy that holds what was saved.
LEMMA KeptTurned ==
  ASSUME \A x \in WatchIds, p \in PRs : Kept(durable', view', x, p)
  PROVE  Turned'
BY DEF Turned, Turns

LEMMA SameKept ==
  ASSUME NEW s, NEW v, Same(s, v)
  PROVE  \A x \in WatchIds, p \in PRs : Kept(s, v, x, p)
BY DEF Same, Kept

LEMMA SameTurned ==
  ASSUME Same(durable', view')
  PROVE  Turned'
BY SameKept, KeptTurned

LEMMA EqualTurned ==
  ASSUME view' = durable'
  PROVE  Turned'
BY SameTurned DEF Same

\* A step to a save from an operation that has changed nothing yet.
LEMMA OneTurned ==
  ASSUME pc' = "save", NEW x \in WatchIds, NEW p \in PRs,
         Turns(durable', view', tasks', x, p),
         \A y \in WatchIds, q \in PRs : ~ (y = x /\ q = p) => Kept(durable', view', y, q)
  PROVE  Turned'
BY DEF Turned, Turns

LEMMA WithTaskRecorded ==
  ASSUME NEW s \in Snapshot, NEW x \in WatchIds, NEW p \in PRs, NEW t \in TaskIds,
         ReservationAt(s, x, p).state = "creating"
  PROVE  LET v == WithTask(s, x, p, t) IN
         /\ Recorded(s, v, x, p)
         /\ \A y \in WatchIds, q \in PRs : ~ (y = x /\ q = p) => Kept(s, v, y, q)
<1> DEFINE v == WithTask(s, x, p, t)
<1>1. /\ LinkAt(v, x, p) = [task |-> t, owned |-> TRUE]
      /\ ReservationAt(v, x, p).state = "created"
      /\ ReservationAt(v, x, p).token = ReservationAt(s, x, p).token
      /\ \A y \in WatchIds, q \in PRs : ~ (y = x /\ q = p) =>
           /\ LinkAt(v, y, q) = LinkAt(s, y, q)
           /\ ReservationAt(v, y, q) = ReservationAt(s, y, q)
  BY WithTaskAt
<1> HIDE DEF v
<1>2. QED BY <1>1 DEF Recorded, Kept, v

LEMMA EndedTurned ==
  ASSUME Save \/ SaveReportedFailed \/ Interrupted \/ CreateRefused
           \/ CreateReplyLost \/ DeleteReplyLost
  PROVE  Turned'
<1>1. view' = durable'
  BY DEF Save, SaveReportedFailed, Interrupted, CreateRefused, CreateReplyLost,
     DeleteReplyLost, Return
<1>2. QED BY <1>1, EqualTurned

LEMMA PollTurned ==
  ASSUME IInv, Fence \/ List \/ ListFails \/ FinishRun
  PROVE  Turned'
<1>1. /\ w \in WatchIds /\ Exists(view, w) /\ view \in Snapshot /\ view = durable
      /\ durable' = durable
  BY DEF Fence, List, ListFails, FinishRun, IInv, InHand, TypeOK, Snapshot
<1>2. Same(view, view')
  <2>1. Same(view, view)
    BY DEF Same
  <2>2. CASE view' = view
    BY <2>1, <2>2
  <2>3. CASE view' = [view EXCEPT ![w].status = "paused"]
    BY <1>1, <2>3, SameEdits
  <2>4. CASE view' = [view EXCEPT ![w].failing = TRUE]
    BY <1>1, <2>4, SameEdits
  <2>5. CASE view' = [view EXCEPT ![w].cursor = next, ![w].failing = FALSE]
    BY <1>1, <2>5, SameEdits
  <2>6. QED BY <2>2, <2>3, <2>4, <2>5 DEF Fence, List, ListFails, FinishRun, SaveThen
<1>3. QED BY <1>1, <1>2, SameTurned

LEMMA EnsureTurned ==
  ASSUME IInv, Ensure
  PROVE  Turned'
<1>1. PICK p \in PRs :
        EnsureLinked(p) \/ EnsureKnown(p) \/ EnsureLookup(p) \/ EnsureReserved(p)
  BY DEF Ensure
<1>2. /\ pc = "items" /\ w \in WatchIds /\ view \in Snapshot /\ view = durable
      /\ UNCHANGED <<durable, tasks>>
  BY DEF Ensure, IInv, InHand, TypeOK, Snapshot
<1>3. Shaped(LinkAt(view, w, p), ReservationAt(view, w, p))
  BY <1>2 DEF IInv, Accounted, Accounts, Shape
<1>4. CASE EnsureLinked(p)
  <2>1. [view EXCEPT ![w].links[p] = Upgraded(@)] = view
    BY <1>2 DEF Upgraded, Snapshot, Watch
  <2>2. view' = durable'
    BY <1>2, <1>4, <2>1 DEF EnsureLinked, SaveThen
  <2>3. QED BY <2>2, EqualTurned
<1>5. CASE EnsureKnown(p)
  <2>1. LinkAt(view, w, p) = NoLink /\ ReservationAt(view, w, p).task # NoTask
    BY <1>5 DEF EnsureKnown, LinkAt, ReservationAt
  <2>2. ReservationAt(view, w, p).task \notin TaskIds
    BY <1>3, <2>1, ConstantsAssumption DEF Shaped, NoReservation, NoLink
  <2>3. QED BY <1>3, <2>1, <2>2 DEF Shaped, NoReservation
<1>6. CASE EnsureLookup(p)
  BY <1>2, <1>6, EqualTurned DEF EnsureLookup
<1>7. CASE EnsureReserved(p)
  <2>1. PICK k \in FreshTokens : SaveThen("create",
          [view EXCEPT ![w].reservations[p] =
             [token |-> k, state |-> "creating", task |-> NoTask]])
    BY <1>7 DEF EnsureReserved
  <2> DEFINE r == [token |-> k, state |-> "creating", task |-> NoTask]
             v == WithPR(view, w, p, LinkAt(view, w, p), r)
  <2>2. view' = v /\ pc' = "save"
    <3>1. [view EXCEPT ![w].reservations[p] = r] = v
      BY <1>2, ReservedIsWithPR
    <3> QED
      BY <2>1, <3>1 DEF SaveThen
  <2>3. \A y \in WatchIds, q \in PRs :
          /\ Exists(v, y) <=> Exists(view, y)
          /\ LinkAt(v, y, q) =
               IF y = w /\ q = p THEN LinkAt(view, w, p) ELSE LinkAt(view, y, q)
          /\ ReservationAt(v, y, q) =
               IF y = w /\ q = p THEN r ELSE ReservationAt(view, y, q)
    BY <1>2, WithPRAt
  <2>4. Marking(tasks, k) = {} /\ r.token = k /\ r.state = "creating"
    BY DEF FreshTokens, Marking
  <2>5. ReservationAt(view, w, p).state = "none"
    BY <1>7 DEF EnsureReserved, ReservationAt
  <2> HIDE DEF v, r
  <2>6. Reserved(view, v, tasks, w, p)
    BY <1>2, <2>3, <2>4, <2>5 DEF Reserved
  <2>7. \A y \in WatchIds, q \in PRs : ~ (y = w /\ q = p) => Kept(view, v, y, q)
    BY <2>3 DEF Kept
  <2>8. QED BY <1>2, <2>2, <2>6, <2>7, OneTurned DEF Turns
<1>8. QED BY <1>1, <1>4, <1>5, <1>6, <1>7

LEMMA MadeTurned ==
  ASSUME IInv, Find \/ CreateTask
  PROVE  Turned'
<1>1. /\ w \in WatchIds /\ cur \in PRs /\ view \in Snapshot /\ view = durable
      /\ ReservationAt(view, w, cur).state = "creating" /\ durable' = durable
  BY DEF Find, CreateTask, IInv, InHand, TypeOK, Snapshot
<1>2. view' = view \/ \E t \in TaskIds : SaveThen("items", WithTask(view, w, cur, t))
  BY DEF Find, Found, CreateTask
<1>3. CASE view' = view
  BY <1>1, <1>3, EqualTurned
<1>4. ASSUME NEW t \in TaskIds, SaveThen("items", WithTask(view, w, cur, t))
      PROVE  Turned'
  <2>1. /\ Recorded(view, view', w, cur)
        /\ \A y \in WatchIds, q \in PRs : ~ (y = w /\ q = cur) => Kept(view, view', y, q)
    BY <1>1, <1>4, WithTaskRecorded DEF SaveThen
  <2>2. QED BY <1>1, <1>4, <2>1, OneTurned DEF Turns, SaveThen
<1>5. QED BY <1>2, <1>3, <1>4

LEMMA BeginTurned ==
  ASSUME IInv, BeginRecover \/ (\E x \in WatchIds : BeginRun(x))
                 \/ \E o \in {"preview", "reset", "delete"}, x \in WatchIds :
                      BeginTeardown(o, x)
  PROVE  Turned'
<1>1. view' = durable'
  BY DEF BeginRecover, BeginRun, BeginTeardown, Start, IInv, InHand
<1>2. QED BY <1>1, EqualTurned

\* A reconciliation records tasks, of reservations that are as they were saved.
LEMMA ReconcileTurned ==
  ASSUME FInv, Reconcile
  PROVE  Turned'
<1>1. /\ pc = "reconcile" /\ pc' = pc /\ view \in Snapshot
      /\ todo \subseteq WatchIds \X PRs /\ durable' = durable
  BY DEF Reconcile, FInv, IInv, TypeOK, Snapshot
<1>2. \A y \in WatchIds, q \in PRs :
        Kept(durable, view, y, q) \/ Recorded(durable, view, y, q)
  BY <1>1 DEF FInv, Turned
<1>3. \A xp \in todo : ReservationAt(view, xp[1], xp[2]).state = "creating"
  BY <1>1 DEF FInv, IInv, InHand
<1>4. PICK xp \in todo :
        LET reservation == view[xp[1]].reservations[xp[2]]
            found == IF reservation.task # NoTask THEN {reservation.task}
                     ELSE Found(reservation.token)
        IN \/ found = {} /\ UNCHANGED view
           \/ \E t \in found : view' = WithTask(view, xp[1], xp[2], t)
  BY Zenon DEF Reconcile
<1>5. PICK x \in WatchIds, p \in PRs : xp = <<x, p>>
  BY <1>1
<1>6. ReservationAt(view, x, p).state = "creating"
  BY <1>3, <1>5
<1>7. view[x].reservations[p].task \in TaskRefs
  BY <1>1 DEF Snapshot, Watch, Reservation
<1>8. view' = view \/ \E t \in TaskIds : view' = WithTask(view, x, p, t)
  BY <1>4, <1>5, <1>7 DEF Found, TaskRefs
<1>9. ASSUME NEW t \in TaskIds, view' = WithTask(view, x, p, t)
      PROVE  \A y \in WatchIds, q \in PRs :
               Kept(durable, view', y, q) \/ Recorded(durable, view', y, q)
  <2>1. /\ Recorded(view, view', x, p)
        /\ \A y \in WatchIds, q \in PRs : ~ (y = x /\ q = p) => Kept(view, view', y, q)
    BY <1>1, <1>6, <1>9, WithTaskRecorded
  <2>2. Recorded(durable, view', x, p)
    BY <1>2, <1>6, <2>1 DEF Kept, Recorded
  <2>3. QED BY <1>2, <2>1, <2>2 DEF Kept, Recorded
<1>10. \A y \in WatchIds, q \in PRs :
         Kept(durable', view', y, q) \/ Recorded(durable', view', y, q)
  BY <1>1, <1>2, <1>8, <1>9
<1>11. QED BY <1>10 DEF Turned, Turns

LEMMA ReconciledTurned ==
  ASSUME FInv, Reconciled
  PROVE  Turned'
<1>1. pc = "reconcile" /\ durable' = durable
  BY DEF Reconciled
<1>2. CASE view' = view
  BY <1>1, <1>2 DEF FInv, Turned, Turns
<1>3. CASE view' = durable'
  BY <1>3, EqualTurned
<1>4. QED BY <1>2, <1>3 DEF Reconciled, SaveThen, Return

\* Forgetting one owned task, that the host has just deleted.
LEMMA DeleteOwnedTurned ==
  ASSUME FInv, DeleteOwned
  PROVE  Turned'
<1>1. /\ pc = "tear" /\ pc' = "save" /\ w \in WatchIds /\ view \in Snapshot
      /\ tasks \in HostTasks /\ durable' = durable
      /\ Accounts(view, tasks, released, released)
  BY Undetached
  DEF DeleteOwned, SaveThen, FInv, IInv, InHand, TypeOK, Snapshot, HostTasks
<1>2. \A y \in WatchIds, q \in PRs :
        Kept(durable, view, y, q) \/ Recorded(durable, view, y, q)
  BY <1>1 DEF FInv, Turned
<1>3. PICK p \in OwnedLinks(view[w]) :
        /\ HostDeletes(view[w].links[p].task)
        /\ SaveThen("tear", WithPR(view, w, p, NoLink, NoReservation))
  BY DEF DeleteOwned
<1> DEFINE t == LinkAt(view, w, p).task
           k == ReservationAt(view, w, p).token
           v == WithPR(view, w, p, NoLink, NoReservation)
<1>4. /\ p \in PRs /\ t # NoTask /\ LinkAt(view, w, p).owned
      /\ view' = v /\ tasks' = WithHostTask(tasks, t, NoHostTask)
  BY <1>3 DEF OwnedLinks, LinkAt, SaveThen, HostDeletes, WithHostTask
<1>5. Shaped(LinkAt(view, w, p), ReservationAt(view, w, p))
  BY <1>1, <1>4 DEF Accounts, Shape
<1>6. ReservationAt(view, w, p).state = "created" /\ ReservationAt(view, w, p).task = t
  BY <1>4, <1>5 DEF Shaped, NoLink
<1>7. \A u \in Marking(tasks, k) : u = t
  BY <1>1, <1>4, <1>6 DEF Accounts, Holds, Marking
<1>8. Marking(tasks', k) = {}
  BY <1>1, <1>4, <1>7 DEF Marking, WithHostTask, HostTasks
<1>9. \A y \in WatchIds, q \in PRs :
        /\ Exists(v, y) <=> Exists(view, y)
        /\ LinkAt(v, y, q) = IF y = w /\ q = p THEN NoLink ELSE LinkAt(view, y, q)
        /\ ReservationAt(v, y, q) =
             IF y = w /\ q = p THEN NoReservation ELSE ReservationAt(view, y, q)
  BY <1>1, <1>4, WithPRAt
<1> HIDE DEF v, k, t
<1>10. GivenUp(durable, v, tasks', w, p) \/ LetGo(durable, v, w, p)
  <2>1. ReservationAt(v, w, p).state = "none"
    BY <1>1, <1>4, <1>9 DEF NoReservation
  <2>2. CASE Kept(durable, view, w, p)
    BY <1>4, <1>6, <2>1, <2>2 DEF Kept, LetGo
  <2>3. CASE Recorded(durable, view, w, p)
    <3>1. ReservationAt(durable, w, p).token = k
      BY <2>3 DEF Recorded, k
    <3>2. QED BY <1>8, <2>1, <2>3, <3>1 DEF Recorded, GivenUp
  <2>4. QED BY <1>1, <1>2, <1>4, <2>2, <2>3
<1>11. ASSUME NEW y \in WatchIds, NEW q \in PRs
       PROVE  Turns(durable, v, tasks', y, q)
  <2>1. CASE y = w /\ q = p
    BY <1>10, <2>1 DEF Turns
  <2>2. CASE ~ (y = w /\ q = p)
    BY <1>2, <1>9, <2>2 DEF Turns, Kept, Recorded
  <2>3. QED BY <2>1, <2>2
<1>12. QED BY <1>1, <1>4, <1>11 DEF Turned

\* The end of a reset forgets nothing; that of a delete what is left of the
\* watch, for which nothing was created.
LEMMA FinishTeardownTurned ==
  ASSUME FInv, FinishTeardown
  PROVE  Turned'
<1>1. /\ pc = "tear" /\ pc' = "save" /\ w \in WatchIds /\ view \in Snapshot
      /\ Exists(view, w) /\ Settled(view, tasks, w, {})
      /\ UNCHANGED <<durable, tasks>> /\ OwnedLinks(view[w]) = {}
      /\ Accounts(view, tasks, released, released)
      /\ Accounts(durable, tasks, released, released)
  BY Undetached
  DEF FinishTeardown, SaveThen, FInv, IInv, InHand, TypeOK, Snapshot, Accounted
<1>2. \A y \in WatchIds, q \in PRs :
        Kept(durable, view, y, q) \/ Recorded(durable, view, y, q)
  BY <1>1 DEF FInv, Turned
<1>3. CASE view' = [view EXCEPT ![w].cursor = 0, ![w].failing = FALSE]
  <2>1. Same(view, view')
    BY <1>1, <1>3, SameEdits
  <2>2. QED BY <1>1, <1>2, <2>1 DEF Same, Turned, Turns, Kept, Recorded
<1>4. CASE view' = [view EXCEPT ![w] = NoWatch]
  <2>1. /\ \A y \in WatchIds \ {w}, q \in PRs :
             /\ ReservationAt(view', y, q) = ReservationAt(view, y, q)
             /\ LinkAt(view', y, q) = LinkAt(view, y, q)
        /\ \A q \in PRs : /\ ReservationAt(view', w, q) = NoReservation
                          /\ LinkAt(view', w, q) = NoLink
    BY <1>1, <1>4 DEF Snapshot, NoWatch, ReservationAt, LinkAt
  <2>2. ASSUME NEW y \in WatchIds \ {w}, NEW q \in PRs
        PROVE  Turns(durable, view', tasks, y, q)
    BY <1>2, <2>1 DEF Turns, Kept, Recorded
  <2>3. ASSUME NEW q \in PRs
        PROVE  Turns(durable, view', tasks, w, q)
    <3>1. /\ Shaped(LinkAt(view, w, q), ReservationAt(view, w, q))
          /\ Shaped(LinkAt(durable, w, q), ReservationAt(durable, w, q))
      BY <1>1 DEF Accounts, Shape
    <3>2. ~ Recorded(durable, view, w, q)
      BY <1>1, <3>1, ConstantsAssumption
      DEF Recorded, OwnedLinks, LinkAt, Shaped, NoReservation
    <3>3. Kept(durable, view, w, q)
      BY <1>1, <1>2, <3>2
    <3>4. CASE ReservationAt(durable, w, q).state = "none"
      BY <2>1, <3>1, <3>4 DEF Turns, Kept, Shaped, NoReservation, NoLink
    <3>5. CASE ReservationAt(durable, w, q).state = "creating"
      BY <1>1, <2>1, <3>3, <3>5 DEF Turns, Kept, GivenUp, Settled, NoReservation
    <3>6. CASE ReservationAt(durable, w, q).state = "created"
      BY <2>1, <3>6 DEF Turns, Dropped, NoReservation
    <3>7. QED BY <3>1, <3>4, <3>5, <3>6 DEF Shaped, NoReservation
  <2>4. QED BY <1>1, <2>2, <2>3 DEF Turned
<1>5. QED BY <1>3, <1>4 DEF FinishTeardown, SaveThen

LEMMA EditsTurned ==
  ASSUME IInv, NEW x \in WatchIds,
         Create(x) \/ Pause(x) \/ Resume(x) \/ SetFilter(x)
  PROVE  Turned'
<1>1. /\ view = durable /\ durable \in Snapshot /\ durable[x] \in Watch
      /\ durable' = durable
  BY DEF Create, Pause, Resume, SetFilter, Edit, Start, IInv, InHand, TypeOK, Snapshot
<1>2. CASE Create(x)
  <2>1. \E st \in {"running", "paused"} : view' = [durable EXCEPT ![x] =
          [NoWatch EXCEPT !.status = st, !.binding = Connection]]
    BY <1>2 DEF Create, Edit, SaveThen
  <2>2. \A p \in PRs : /\ ReservationAt(durable, x, p) = NoReservation
                       /\ LinkAt(durable, x, p) = NoLink
    BY <1>2 DEF Create, IInv, Accounted, Accounts, Shape, Shaped, NoReservation
  <2>3. \A y \in WatchIds, q \in PRs : Kept(durable, view', y, q)
    BY <1>1, <2>1, <2>2 DEF Kept, Snapshot, LinkAt, ReservationAt, NoWatch
  <2>4. QED BY <1>1, <2>3, KeptTurned
<1>3. CASE Pause(x)
  BY <1>1, <1>3, SameEdits, SameTurned DEF Pause, Edit, SaveThen
<1>4. CASE Resume(x)
  <2> DEFINE v == IF Connection # 0
                    THEN [durable[x] EXCEPT !.status = "running",
                            !.binding = Connection, !.cursor = 0,
                            !.failing = FALSE]
                    ELSE [durable[x] EXCEPT !.status = "running"]
  <2>1. v.links = durable[x].links /\ v.reservations = durable[x].reservations
    BY <1>1 DEF Watch
  <2>2. view' = [durable EXCEPT ![x] = v]
    BY <1>1, <1>4 DEF Resume, Edit, SaveThen, Snapshot
  <2> HIDE DEF v
  <2>3. \A y \in WatchIds, q \in PRs : Kept(durable, view', y, q)
    BY <1>1, <2>1, <2>2 DEF Kept, Snapshot, LinkAt, ReservationAt
  <2>4. QED BY <1>1, <2>3, KeptTurned
<1>5. CASE SetFilter(x)
  BY <1>1, <1>5, SameEdits, SameTurned DEF SetFilter, Edit, SaveThen
<1>6. QED BY <1>2, <1>3, <1>4, <1>5

LEMMA DetachTurned ==
  ASSUME IInv, NEW t \in TaskIds, NEW p \in PRs, DetachTaskLink(t, p)
  PROVE  Turned'
<1>1. durable' = durable /\ pc' = "save" /\ durable \in Snapshot
  BY DEF DetachTaskLink, Edit, Start, SaveThen, IInv, TypeOK, Snapshot
<1>2. ASSUME NEW x \in WatchIds, NEW q \in PRs
      PROVE  Turns(durable, view', tasks', x, q)
  <2>1. /\ ReservationAt(view', x, q) = ReservationAt(durable, x, q)
        /\ \/ LinkAt(view', x, q) = LinkAt(durable, x, q)
           \/ /\ LinkAt(durable, x, q) = [task |-> t, owned |-> TRUE]
              /\ LinkAt(view', x, q) = [task |-> t, owned |-> FALSE]
    BY <1>1, DetachedAt
  <2>2. CASE LinkAt(view', x, q) = LinkAt(durable, x, q)
    BY <2>1, <2>2 DEF Turns, Kept
  <2>3. CASE /\ LinkAt(durable, x, q) = [task |-> t, owned |-> TRUE]
             /\ LinkAt(view', x, q) = [task |-> t, owned |-> FALSE]
    <3>1. Shaped(LinkAt(durable, x, q), ReservationAt(durable, x, q))
      BY DEF IInv, Accounted, Accounts, Shape
    <3>2. LinkAt(durable, x, q).owned /\ ~ LinkAt(view', x, q).owned
      BY <2>3
    <3>3. ReservationAt(durable, x, q).state = "created"
      BY <3>1, <3>2 DEF Shaped, NoLink
    <3>4. QED BY <2>1, <3>2, <3>3 DEF Turns, LetGo
  <2>4. QED BY <2>1, <2>2, <2>3
<1>3. QED BY <1>1, <1>2 DEF Turned

LEMMA OutsideTurned ==
  ASSUME FInv, Outside
  PROVE  Turned'
<1>1. UNCHANGED <<durable, view, pc>> /\ FewerTasks(tasks, tasks')
  <2>1. tasks \in HostTasks
    BY DEF FInv, IInv, TypeOK, HostTasks
  <2>2. FewerTasks(tasks, tasks)
    BY DEF FewerTasks
  <2>3. ASSUME NEW t, HostDeletes(t) PROVE FewerTasks(tasks, tasks')
    BY <2>1, <2>3, DeletedTasks DEF HostDeletes, WithHostTask
  <2>4. QED BY <2>2, <2>3 DEF Outside, Connect, Disconnect, OpenOrClose,
                PersonDeletesTask, World, callVars
<1>2. \A k : Marking(tasks, k) = {} => Marking(tasks', k) = {}
  BY <1>1 DEF FewerTasks, Marking
<1>3. QED BY <1>1, <1>2 DEF FInv, Turned, Turns, Reserved, GivenUp

LEMMA NextTurned ==
  ASSUME FInv, [Next]_vars
  PROVE  Turned'
<1>1. CASE UNCHANGED vars
  BY <1>1 DEF FInv, Turned, Turns, vars
<1>2. CASE Advance
  BY <1>2, EndedTurned, PollTurned, EnsureTurned, MadeTurned, ReconcileTurned,
     ReconciledTurned, DeleteOwnedTurned, FinishTeardownTurned DEF Advance, FInv
<1>3. CASE Poll
  BY <1>3, BeginTurned DEF Poll, FInv
<1>4. CASE Request
  BY <1>4, BeginTurned, EditsTurned, DetachTurned DEF Request, FInv
<1>5. CASE Failure
  BY <1>5, EndedTurned, PollTurned DEF Failure, FInv
<1>6. CASE Outside
  BY <1>6, OutsideTurned
<1>7. QED BY <1>1, <1>2, <1>3, <1>4, <1>5, <1>6 DEF Next
-----------------------------------------------------------------------------
(* The refinement. *)

LEMMA InitFInv == Init => FInv
<1> SUFFICES ASSUME Init PROVE FInv
  OBVIOUS
<1>1. view = durable /\ pc = "idle"
  BY DEF Init
<1>2. Turned
  BY <1>1 DEF Turned, Turns, Kept
<1>3. QED BY <1>2, InitIInv DEF FInv

LEMMA NextFInv == FInv /\ [Next]_vars => FInv'
BY NextIInv, NextTurned DEF FInv

LEMMA Phases ==
  IInv => \A x \in WatchIds, p \in PRs : PhaseOf(x, p) = Phase(durable, tasks, x, p)
BY PhaseIs

LEMMA PhasesNext ==
  IInv' => \A x \in WatchIds, p \in PRs : PhaseOf(x, p)' = Phase(durable', tasks', x, p)
<1>1. IInv' => (\A x \in WatchIds, p \in PRs : PhaseOf(x, p) = Phase(durable, tasks, x, p))'
  BY Phases, PTL
<1>2. QED BY <1>1 DEF Phase, ReservationAt, LinkAt

\* A task made, or lost, moves the pull requests reserved with its token.
LEMMA TasksMove ==
  ASSUME NEW s, NEW T, NEW U, NEW x \in WatchIds, NEW p \in PRs
  PROVE  /\ Step(Phase(s, T, x, p), Phase(s, U, x, p))
         /\ Phase(s, T, x, p) = "detached" => Phase(s, U, x, p) # "free"
<1>1. CASE ReservationAt(s, x, p).state = "creating"
  <2>1. /\ Phase(s, T, x, p) \in {"reserved", "made"}
        /\ Phase(s, U, x, p) \in {"reserved", "made"}
    BY <1>1 DEF Phase
  <2>2. QED BY <2>1, StepIs
<1>2. CASE ReservationAt(s, x, p).state # "creating"
  <2>1. Phase(s, T, x, p) = Phase(s, U, x, p)
    BY <1>2 DEF Phase
  <2>2. QED BY <2>1, StepIs
<1>3. QED BY <1>1, <1>2

\* A step saves the working copy, or leaves what is saved.
LEMMA SavesOrNot ==
  ASSUME [Next]_vars
  PROVE  durable' = durable \/ (durable' = view /\ tasks' = tasks)
<1>1. CASE Save \/ SaveReportedFailed
  BY <1>1 DEF Save, SaveReportedFailed
<1>2. CASE UNCHANGED vars
  BY <1>2 DEF vars
<1>3. CASE Advance /\ ~ Save
  BY <1>3 DEF Advance, Fence, List, ListFails, Ensure, Find, CreateTask, CreateRefused,
     FinishRun, Reconcile, Reconciled, DeleteOwned, FinishTeardown,
     callVars, pollVars, worldVars, boundVars
<1>4. CASE Poll \/ Request
  BY <1>4 DEF Poll, Request, BeginRecover, BeginRun, Create, Pause, Resume, SetFilter,
     BeginTeardown, DetachTaskLink, Edit, Start
<1>5. CASE Failure /\ ~ SaveReportedFailed
  BY <1>5 DEF Failure, ListFails, Interrupted, CreateReplyLost, DeleteReplyLost, callVars,
     pollVars, worldVars
<1>6. CASE Outside
  BY <1>6 DEF Outside, Connect, Disconnect, OpenOrClose, PersonDeletesTask, World,
     callVars
<1>7. QED BY <1>1, <1>2, <1>3, <1>4, <1>5, <1>6 DEF Next, Advance, Failure

LEMMA EachMoves ==
  ASSUME FInv, FInv', [Next]_vars, NEW x \in WatchIds, NEW p \in PRs
  PROVE  /\ Step(PhaseOf(x, p), PhaseOf(x, p)')
         /\ PhaseOf(x, p) = "detached" /\ PhaseOf(x, p)' = "free" =>
              \A q \in PRs : PhaseOf(x, q)' = "free"
         /\ PhaseOf(x, p)' \in Lifecycle!Phases
<1>1. /\ \A q \in PRs : PhaseOf(x, q) = Phase(durable, tasks, x, q)
      /\ \A q \in PRs : PhaseOf(x, q)' = Phase(durable', tasks', x, q)
  BY Phases, PhasesNext DEF FInv
<1>2. Phase(durable', tasks', x, p) \in Lifecycle!Phases
  BY DEF Phase, Lifecycle!Phases
<1>3. CASE durable' = durable
  BY <1>1, <1>2, <1>3, TasksMove
<1>4. CASE durable' = view /\ tasks' = tasks
  <2>1. /\ Shaped(LinkAt(durable, x, p), ReservationAt(durable, x, p))
        /\ Shaped(LinkAt(view, x, p), ReservationAt(view, x, p))
        /\ Turns(durable, view, tasks, x, p)
    BY DEF FInv, IInv, Accounted, Accounts, Shape, Turned
  <2>2. QED BY <1>1, <1>2, <1>4, <2>1, TurnIsStep
<1>5. QED BY <1>3, <1>4, SavesOrNot

\* Every behaviour of the service is one of the lifecycle: whatever fails,
\* stops or interleaves, a pull request of a watch goes only through the phases
\* TaskLifecycle allows.
THEOREM ServiceImplementsLifecycle == Spec => ImplementsLifecycle
<1>1. Init => Lifecycle!Init
  <2> SUFFICES ASSUME Init PROVE Lifecycle!Init
    OBVIOUS
  <2>1. \A x \in WatchIds, p \in PRs : PhaseOf(x, p) = Phase(durable, tasks, x, p)
    BY Phases, InitFInv DEF FInv
  <2>2. \A x \in WatchIds, p \in PRs : Phase(durable, tasks, x, p) = "free"
    BY DEF Init, Phase, ReservationAt, NoWatch, NoReservation
  <2>3. QED BY <2>1, <2>2 DEF Lifecycle!Init
<1>2. FInv /\ FInv' /\ [Next]_vars
        => [Lifecycle!Next]_([o \in WatchIds \X PRs |-> PhaseOf(o[1], o[2])])
  <2> SUFFICES ASSUME FInv, FInv', [Next]_vars PROVE Lifecycle!Next
    OBVIOUS
  <2> DEFINE before == [o \in WatchIds \X PRs |-> PhaseOf(o[1], o[2])]
             after == [o \in WatchIds \X PRs |-> PhaseOf(o[1], o[2])']
  <2>1. ASSUME NEW o \in WatchIds \X PRs
        PROVE  /\ after[o] \in Lifecycle!Phases
               /\ after[o] # before[o] => <<before[o], after[o]>> \in Lifecycle!Moves
    BY EachMoves DEF Step
  <2>2. ASSUME NEW x \in WatchIds, NEW p \in PRs,
               before[<<x, p>>] = "detached", after[<<x, p>>] = "free"
        PROVE  \A q \in PRs : after[<<x, q>>] = "free"
    BY <2>2, EachMoves
  <2>3. after \in [WatchIds \X PRs -> Lifecycle!Phases]
    BY <2>1
  <2>4. QED BY <2>1, <2>2, <2>3 DEF Lifecycle!Next
<1>3. QED
  BY InitFInv, NextFInv, <1>1, <1>2, PTL DEF Spec, ImplementsLifecycle, Lifecycle!Spec
=============================================================================
