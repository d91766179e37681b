---------------------------- MODULE WatchService ----------------------------
(***************************************************************************)
(* The pull-request watch service of one workspace:                        *)
(* internal/watches/service.go and service_teardown.go over the host task  *)
(* gateway of internal/plugin/task_gateway.go.                             *)
(*                                                                         *)
(* Every operation holds the workspace lock from its load of the durable   *)
(* snapshot to its return (KeyedMutex models the lock), so at most one     *)
(* operation is in progress and "pc" says which call it makes next.  Its   *)
(* working copy of the snapshot, "view", is lost when the operation        *)
(* returns, fails or the process stops; the snapshot and the tasks live in *)
(* the host.  What is outside the lock may move between any two calls: the *)
(* connection, the pull requests, tasks deleted by a person.               *)
(*                                                                         *)
(* A pull request stands for its immutable storage key.  Display names,    *)
(* presets and poll times are left out; a failure count is kept as the     *)
(* fact that it is not zero.                                               *)
(*                                                                         *)
(* A definition marked "variant" is the one below it with a plausible      *)
(* mistake; no specification uses it: it shows that a property can fail.   *)
(***************************************************************************)
EXTENDS Naturals, FiniteSets

CONSTANTS
  WatchIds,     \* watch identifiers of the workspace
  PRs,          \* pull requests the provider can answer with
  Pages,        \* number of provider pages a full poll walks through
  PageOf,       \* the page each pull request is answered on
  Incomplete,   \* pull requests whose repository descriptor the host refuses
  Tokens,       \* reservation tokens the service can draw
  TaskIds,      \* task identifiers the host can assign
  NoToken, NoTask, NoId,
  MaxEpoch,     \* bound: connections ever made
  MaxFaults,    \* bound: failed calls and process stops
  MaxRequests   \* bound: requests of people and changes at the provider

ASSUME ConstantsAssumption ==
  /\ Pages \in Nat \ {0}
  /\ PageOf \in [PRs -> 0 .. Pages - 1]
  /\ Incomplete \subseteq PRs
  /\ NoToken \notin Tokens
  /\ NoTask \notin TaskIds
  /\ NoId \notin WatchIds \cup PRs
  /\ MaxEpoch \in Nat /\ MaxFaults \in Nat /\ MaxRequests \in Nat

VARIABLES
  \* The host: the saved snapshot and the tasks.
  durable,      \* the snapshot last saved for the workspace
  tasks,        \* the host's task of each identifier
  released,     \* history: tasks a person has unlinked from their watch
  \* The connection and the provider.
  epoch,        \* binding of the latest connection
  connected,    \* FALSE while the workspace has no connection
  open,         \* pull requests that match the filters now
  \* The operation that holds the workspace lock.
  pc,           \* the call it makes next
  kind,         \* which operation it is
  w,            \* the watch it works on
  view,         \* its working copy of the snapshot
  todo,         \* what is left to treat: pairs of a watch and a pull request
  cur,          \* the pull request whose reservation or task is in progress
  listed,       \* pull requests the provider answered this poll with
  next,         \* page cursor the provider answered with
  via,          \* binding of the connection that answered
  then,         \* where the operation goes on after a save
  \* The bounds.
  faults, requests

worldVars == <<epoch, connected, open>>
pollVars == <<listed, next, via>>
callVars == <<kind, w, todo, cur, pollVars>>
boundVars == <<faults, requests>>
vars == <<durable, tasks, released, worldVars, pc, view, then,
          callVars, boundVars>>

-----------------------------------------------------------------------------
(* The records of the snapshot and of the host. *)

Bindings == 0 .. MaxEpoch     \* 0: the empty binding
TaskRefs == TaskIds \cup {NoTask}
TokenRefs == Tokens \cup {NoToken}

TaskLink == [task : TaskRefs, owned : BOOLEAN]
NoLink == [task |-> NoTask, owned |-> FALSE]

Reservation == [token : TokenRefs, state : {"none", "creating", "created"},
                task : TaskRefs]
NoReservation == [token |-> NoToken, state |-> "none", task |-> NoTask]

Watch == [status : {"absent", "running", "paused"}, binding : Bindings,
          cursor : 0 .. Pages - 1, failing : BOOLEAN,
          links : [PRs -> TaskLink], reservations : [PRs -> Reservation]]
NoWatch == [status |-> "absent", binding |-> 0, cursor |-> 0,
            failing |-> FALSE, links |-> [p \in PRs |-> NoLink],
            reservations |-> [p \in PRs |-> NoReservation]]

\* A host task with its metadata; "bound" and "via" record the binding of the
\* watch and of the connection its pull request was listed from.
HostTask == [token : TokenRefs, watch : WatchIds \cup {NoId},
             pr : PRs \cup {NoId}, bound : Bindings, via : Bindings]
NoHostTask == [token |-> NoToken, watch |-> NoId, pr |-> NoId,
               bound |-> 0, via |-> 0]

Exists(snapshot, x) == snapshot[x].status # "absent"
Live(t) == tasks[t] # NoHostTask
AnyLinks(watch) == {p \in PRs : watch.links[p].task # NoTask}   \* variant
OwnedLinks(watch) == {p \in PRs : watch.links[p].owned
                                  /\ watch.links[p].task # NoTask}
NoneCreating(watch) == {}   \* variant
Creating(watch) == {p \in PRs : watch.reservations[p].state = "creating"
                                /\ watch.reservations[p].token # NoToken}

\* A link whose display attributes are brought up to date.
UpgradedAsOwned(link) == [link EXCEPT !.owned = TRUE]   \* variant
Upgraded(link) == link

\* The snapshot with another link and reservation of one pull request, and with
\* its task recorded as created and owned by the watch.
WithPR(snapshot, x, p, link, reservation) ==
  [snapshot EXCEPT ![x].links[p] = link, ![x].reservations[p] = reservation]
WithTask(snapshot, x, p, t) ==
  WithPR(snapshot, x, p, [task |-> t, owned |-> TRUE],
         [snapshot[x].reservations[p] EXCEPT !.state = "created", !.task = t])

\* Tasks whose link turns from owned to unowned between two snapshots.
Unlinked(before, after) ==
  {t \in TaskIds : \E x \in WatchIds, p \in PRs :
     /\ before[x].links[p] = [task |-> t, owned |-> TRUE]
     /\ after[x].links[p] = [task |-> t, owned |-> FALSE]}

\* FindByReservation: the tasks the host lists with this token.
FoundNone(token) == {}   \* variant
Found(token) == {t \in TaskIds : Live(t) /\ tasks[t].token = token}

\* A drawn token and a host identifier never repeat: the new one is any that
\* no snapshot, no task and no history holds (one that nothing holds cannot be
\* told from one never drawn, so a finite set of them is enough).
FreshTokens == {k \in Tokens :
  /\ \A t \in TaskIds : tasks[t].token # k
  /\ \A x \in WatchIds, p \in PRs :
       /\ durable[x].reservations[p].token # k
       /\ view[x].reservations[p].token # k}

Mentions(snapshot, t) == \E x \in WatchIds, p \in PRs :
  t \in {snapshot[x].links[p].task, snapshot[x].reservations[p].task}
FreshTasks == {t \in TaskIds \ released :
  ~Live(t) /\ ~Mentions(durable, t) /\ ~Mentions(view, t)}

-----------------------------------------------------------------------------
(* How an operation takes the lock, saves, returns and fails. *)

Start(op, x) ==
  /\ pc = "idle"
  /\ kind' = op /\ w' = x
  /\ UNCHANGED <<durable, tasks, released, worldVars, cur,
                 pollVars>>

Ask == requests < MaxRequests /\ requests' = requests + 1 /\ UNCHANGED faults
Fault == faults < MaxFaults /\ faults' = faults + 1 /\ UNCHANGED requests

\* The operation saves its view and goes on at "step".
SaveThen(step, snapshot) == pc' = "save" /\ then' = step /\ view' = snapshot

\* The lock is released and the working copy dropped.
Return ==
  /\ pc' = "idle" /\ then' = "idle" /\ view' = durable'
  /\ kind' = "none" /\ w' = NoId /\ todo' = {} /\ cur' = NoId
  /\ listed' = {} /\ next' = 0 /\ via' = 0

Save ==
  /\ pc = "save"
  /\ durable' = view
  /\ released' = released \cup Unlinked(durable, view)
  /\ IF then = "idle"
       THEN Return
       ELSE /\ pc' = then /\ then' = "idle"
            /\ UNCHANGED <<view, callVars>>
  /\ UNCHANGED <<tasks, worldVars, boundVars>>

\* The host commits the snapshot but the call reports an error.
SaveReportedFailed ==
  /\ pc = "save" /\ Fault
  /\ durable' = view
  /\ released' = released \cup Unlinked(durable, view)
  /\ Return
  /\ UNCHANGED <<tasks, worldVars>>

\* A call fails without effect, its context is cancelled, or the process
\* stops: in each case only what the host holds remains.
Interrupted ==
  /\ pc # "idle" /\ Fault
  /\ UNCHANGED durable /\ Return
  /\ UNCHANGED <<tasks, released, worldVars>>

-----------------------------------------------------------------------------
(* Run: one poll of a running watch. *)

BeginRun(x) ==
  /\ Exists(durable, x) /\ durable[x].status = "running"
  /\ Start("run", x)
  /\ pc' = "fence"
  /\ UNCHANGED <<view, todo, then, boundVars>>

Connection == IF connected THEN epoch ELSE 0

\* An unconnected workspace has no binding to compare: the fence lets it pass.
BoundChanged(watch) ==   \* variant
  Connection # 0 /\ watch.binding # 0 /\ watch.binding # Connection
ConnectionChanged(watch) == Connection # 0 /\ watch.binding # Connection

Fence ==
  /\ pc = "fence"
  /\ IF ConnectionChanged(view[w])
       THEN SaveThen("idle", [view EXCEPT ![w].status = "paused"])
       ELSE pc' = "list" /\ UNCHANGED <<view, then>>
  /\ UNCHANGED <<durable, tasks, released, worldVars, callVars,
                 boundVars>>

\* The page after the last one is the first: the empty cursor.
StuckCursor(c) == c   \* variant
NextCursor(c) == (c + 1) % Pages

\* The provider is built from the connection as it is now, and answers with
\* the page at the saved cursor.
List ==
  /\ pc = "list" /\ Connection # 0
  /\ LET page == {p \in open : PageOf[p] = view[w].cursor} IN
       /\ listed' = page
       /\ todo' = {w} \X page
       /\ next' = NextCursor(view[w].cursor)
  /\ via' = Connection
  /\ pc' = "items"
  /\ UNCHANGED <<durable, tasks, released, worldVars, kind, w,
                 cur, view, then, boundVars>>

ListFails ==
  /\ pc = "list"
  /\ IF Connection = 0 THEN UNCHANGED boundVars ELSE Fault
  /\ SaveThen("idle", [view EXCEPT ![w].failing = TRUE])
  /\ UNCHANGED <<durable, tasks, released, worldVars, callVars>>

\* ensureTask, one pull request of the page: a linked one is skipped (its
\* display attributes may be saved again), a reserved one with a known task is
\* linked, an unknown one is looked up, and a new one reserved before the host
\* is asked for a task.
EnsureLinked(p) ==
  /\ view[w].links[p] # NoLink
  /\ \/ pc' = "items" /\ UNCHANGED <<view, then>>
     \/ SaveThen("items", [view EXCEPT ![w].links[p] = Upgraded(@)])
  /\ todo' = todo \ {<<w, p>>} /\ UNCHANGED <<cur>>

EnsureKnown(p) ==
  /\ view[w].links[p] = NoLink
  /\ view[w].reservations[p].task # NoTask
  /\ SaveThen("items", WithTask(view, w, p, view[w].reservations[p].task))
  /\ todo' = todo \ {<<w, p>>} /\ UNCHANGED <<cur>>

EnsureLookup(p) ==
  /\ view[w].links[p] = NoLink
  /\ view[w].reservations[p].state # "none"
  /\ view[w].reservations[p].task = NoTask
  /\ pc' = "find" /\ cur' = p
  /\ UNCHANGED <<view, then, todo>>

EnsureReserved(p) ==
  /\ view[w].links[p] = NoLink
  /\ view[w].reservations[p].state = "none"
  /\ cur' = p
  /\ \E k \in FreshTokens : SaveThen("create",
       [view EXCEPT ![w].reservations[p] =
          [token |-> k, state |-> "creating", task |-> NoTask]])
  /\ UNCHANGED todo

Ensure ==
  /\ pc = "items"
  /\ \E p \in PRs :
       /\ <<w, p>> \in todo
       /\ \/ EnsureLinked(p) \/ EnsureKnown(p)
          \/ EnsureLookup(p) \/ EnsureReserved(p)
  /\ UNCHANGED <<durable, tasks, released, worldVars, kind, w, pollVars,
                 boundVars>>

Find ==
  /\ pc = "find"
  /\ LET found == Found(view[w].reservations[cur].token) IN
       \/ /\ found = {}
          /\ pc' = "create" /\ UNCHANGED <<view, then, todo, cur>>
       \/ \E t \in found :
            /\ SaveThen("items", WithTask(view, w, cur, t))
            /\ todo' = todo \ {<<w, cur>>} /\ cur' = NoId
  /\ UNCHANGED <<durable, tasks, released, worldVars, kind, w,
                 pollVars, boundVars>>

\* The host's task for the current reservation.
HostCreates(t) ==
  /\ cur \notin Incomplete
  /\ t \in FreshTasks
  /\ tasks' = [tasks EXCEPT ![t] =
       [token |-> view[w].reservations[cur].token, watch |-> w, pr |-> cur,
        bound |-> view[w].binding, via |-> via]]

CreateTask ==
  /\ pc = "create"
  /\ \E t \in TaskIds :
       /\ HostCreates(t)
       /\ SaveThen("items", WithTask(view, w, cur, t))
  /\ todo' = todo \ {<<w, cur>>} /\ cur' = NoId
  /\ UNCHANGED <<durable, released, worldVars, kind, w, pollVars,
                 boundVars>>

\* The host creates the task, but its answer is lost.
CreateReplyLost ==
  /\ pc = "create" /\ Fault
  /\ \E t \in TaskIds : HostCreates(t)
  /\ UNCHANGED durable /\ Return
  /\ UNCHANGED <<released, worldVars>>

\* The gateway refuses an incomplete repository descriptor: the poll ends.
CreateRefused ==
  /\ pc = "create" /\ cur \in Incomplete
  /\ UNCHANGED durable /\ Return
  /\ UNCHANGED <<tasks, released, worldVars, boundVars>>

FinishRunEarly ==   \* variant
  /\ pc = "items"
  /\ SaveThen("idle", [view EXCEPT ![w].cursor = next, ![w].failing = FALSE])
  /\ UNCHANGED <<durable, tasks, released, worldVars, callVars, boundVars>>
FinishRun ==
  /\ pc = "items" /\ todo = {}
  /\ SaveThen("idle", [view EXCEPT ![w].cursor = next, ![w].failing = FALSE])
  /\ UNCHANGED <<durable, tasks, released, worldVars, callVars,
                 boundVars>>

-----------------------------------------------------------------------------
(* Recover, and the reconciliation it shares with the teardown. *)

BeginRecover ==
  /\ Start("recover", NoId)
  /\ pc' = "reconcile"
  /\ todo' = {xp \in WatchIds \X PRs : xp[2] \in Creating(durable[xp[1]])}
  /\ UNCHANGED <<view, then, boundVars>>

BeginTeardown(op, x) ==
  /\ Exists(durable, x)
  /\ Start(op, x) /\ Ask
  /\ pc' = "reconcile"
  /\ todo' = {x} \X Creating(durable[x])
  /\ UNCHANGED <<view, then>>

Reconcile ==
  /\ pc = "reconcile"
  /\ \E xp \in todo :
       /\ todo' = todo \ {xp}
       /\ LET reservation == view[xp[1]].reservations[xp[2]]
              found == IF reservation.task # NoTask THEN {reservation.task}
                       ELSE Found(reservation.token)
          IN \/ found = {} /\ UNCHANGED view
             \/ \E t \in found : view' = WithTask(view, xp[1], xp[2], t)
  /\ UNCHANGED <<durable, tasks, released, worldVars, pc, then,
                 kind, w, cur, pollVars, boundVars>>

\* Recover and a preview save only what they recovered.
Reconciled ==
  /\ pc = "reconcile" /\ todo = {}
  /\ UNCHANGED <<durable, tasks, released, worldVars,
                 boundVars>>
  /\ CASE kind \in {"reset", "delete"} ->
            pc' = "tear" /\ UNCHANGED <<view, then, callVars>>
       [] kind \in {"recover", "preview"} /\ view # durable ->
            SaveThen("idle", view) /\ UNCHANGED callVars
       [] OTHER -> Return

HostDeletes(t) == tasks' = [tasks EXCEPT ![t] = NoHostTask]

\* Reset and Delete: one owned tree at a time, its link and reservation
\* forgotten and saved before the next.
DeleteOwned ==
  /\ pc = "tear"
  /\ \E p \in OwnedLinks(view[w]) :
       /\ HostDeletes(view[w].links[p].task)
       /\ SaveThen("tear", WithPR(view, w, p, NoLink, NoReservation))
  /\ UNCHANGED <<durable, released, worldVars, callVars,
                 boundVars>>

DeleteReplyLost ==
  /\ pc = "tear" /\ Fault
  /\ \E p \in OwnedLinks(view[w]) : HostDeletes(view[w].links[p].task)
  /\ UNCHANGED durable /\ Return
  /\ UNCHANGED <<released, worldVars>>

FinishTeardown ==
  /\ pc = "tear" /\ OwnedLinks(view[w]) = {}
  /\ SaveThen("idle",
       IF kind = "reset"
         THEN [view EXCEPT ![w].cursor = 0, ![w].failing = FALSE]
         ELSE [view EXCEPT ![w] = NoWatch])
  /\ UNCHANGED <<durable, tasks, released, worldVars, callVars,
                 boundVars>>

-----------------------------------------------------------------------------
(* The operations that only edit the snapshot. *)

Edit(op, x, snapshot) ==
  /\ Start(op, x) /\ Ask
  /\ SaveThen("idle", snapshot)
  /\ UNCHANGED todo

Create(x) ==
  /\ ~Exists(durable, x)
  /\ \E status \in {"running", "paused"} :
       Edit("create", x, [durable EXCEPT ![x] =
         [NoWatch EXCEPT !.status = status, !.binding = Connection]])

Pause(x) ==
  /\ Exists(durable, x)
  /\ Edit("pause", x, [durable EXCEPT ![x].status = "paused"])

Resume(x) ==
  /\ Exists(durable, x)
  /\ Edit("resume", x, [durable EXCEPT ![x] =
       IF Connection # 0
         THEN [@ EXCEPT !.status = "running", !.binding = Connection,
                        !.cursor = 0, !.failing = FALSE]
         ELSE [@ EXCEPT !.status = "running"]])

SetFilter(x) ==
  /\ Exists(durable, x)
  /\ Edit("filter", x, [durable EXCEPT ![x].cursor = 0])

\* DetachTaskLink: every owned link between the task and the pull request.
DetachTaskLink(t, p) ==
  LET detached == [x \in WatchIds |->
        IF durable[x].links[p] = [task |-> t, owned |-> TRUE]
          THEN [durable[x] EXCEPT !.links[p] = [task |-> t, owned |-> FALSE]]
          ELSE durable[x]]
  IN detached # durable /\ Edit("detach", NoId, detached)

-----------------------------------------------------------------------------
(* What moves outside the lock. *)

World(A) ==
  /\ Ask /\ A
  /\ UNCHANGED <<durable, released, pc, view, then, callVars>>

Connect == epoch < MaxEpoch /\ World(
  /\ epoch' = epoch + 1 /\ connected' = TRUE
  /\ UNCHANGED <<open, tasks>>)

Disconnect == connected /\ World(
  connected' = FALSE /\ UNCHANGED <<epoch, open, tasks>>)

OpenOrClose(p) == World(
  /\ open' = IF p \in open THEN open \ {p} ELSE open \cup {p}
  /\ UNCHANGED <<epoch, connected, tasks>>)

PersonDeletesTask(t) == Live(t) /\ World(
  HostDeletes(t) /\ UNCHANGED worldVars)

-----------------------------------------------------------------------------

Init ==
  /\ durable = [x \in WatchIds |-> NoWatch]
  /\ tasks = [t \in TaskIds |-> NoHostTask]
  /\ released = {}
  /\ epoch \in {0, 1} \cap Bindings /\ connected = (epoch # 0)
  /\ open \in SUBSET PRs
  /\ pc = "idle" /\ kind = "none" /\ w = NoId /\ view = durable
  /\ todo = {} /\ cur = NoId /\ listed = {} /\ next = 0 /\ via = 0
  /\ then = "idle"
  /\ faults = 0 /\ requests = 0

\* The next call of the operation that holds the lock, when it succeeds.
Advance ==
  \/ Save \/ Fence \/ List \/ (ListFails /\ Connection = 0)
  \/ Ensure \/ Find \/ CreateTask \/ CreateRefused \/ FinishRun
  \/ Reconcile \/ Reconciled \/ DeleteOwned \/ FinishTeardown

Poll == BeginRecover \/ \E x \in WatchIds : BeginRun(x)

Request ==
  \/ \E x \in WatchIds : \/ Create(x) \/ Pause(x) \/ Resume(x) \/ SetFilter(x)
                         \/ \E op \in {"preview", "reset", "delete"} :
                              BeginTeardown(op, x)
  \/ \E t \in TaskIds, p \in PRs : DetachTaskLink(t, p)

Failure == \/ SaveReportedFailed \/ Interrupted \/ ListFails
           \/ CreateReplyLost \/ DeleteReplyLost

Outside == \/ Connect \/ Disconnect \/ \E p \in PRs : OpenOrClose(p)
           \/ \E t \in TaskIds : PersonDeletesTask(t)

Next == Advance \/ Poll \/ Request \/ Failure \/ Outside

Spec == Init /\ [][Next]_vars

(***************************************************************************)
(* Every call returns or fails, so an operation that holds the lock goes   *)
(* on.  The manager polls for ever: PollWorkspace starts with Recover and  *)
(* then runs every running watch.  The lock hands over in turn (a Go mutex *)
(* whose waiter has starved is handed to it), so a poll that finds the     *)
(* lock free again and again gets it.                                      *)
(***************************************************************************)
FairSpec ==
  /\ Spec
  /\ WF_vars(Advance)
  /\ SF_vars(BeginRecover)
  /\ \A x \in WatchIds : SF_vars(BeginRun(x))

-----------------------------------------------------------------------------
(* Properties. *)

\* The types of the variables.
TypeOK ==
  /\ durable \in [WatchIds -> Watch] /\ view \in [WatchIds -> Watch]
  /\ tasks \in [TaskIds -> HostTask]
  /\ released \subseteq TaskIds
  /\ epoch \in Bindings /\ connected \in BOOLEAN /\ open \subseteq PRs
  /\ pc \in {"idle", "fence", "list", "items", "find", "create", "save",
             "reconcile", "tear"}
  /\ then \in {"idle", "items", "create", "tear"}
  /\ kind \in {"none", "run", "recover", "preview", "reset", "delete",
               "create", "pause", "resume", "filter", "detach"}
  /\ w \in WatchIds \cup {NoId} /\ cur \in PRs \cup {NoId}
  /\ todo \subseteq WatchIds \X PRs /\ listed \subseteq PRs
  /\ next \in 0 .. Pages - 1 /\ via \in Bindings
  /\ faults \in 0 .. MaxFaults /\ requests \in 0 .. MaxRequests

\* A watch has at most one task for a pull request: a lost answer, a failed
\* save or a stop between the host's creation and the save never leads to a
\* second one (ensureTask, reconcileCreatingReservations).  A task that was
\* unlinked is no longer the watch's.
OneTaskPerPR ==
  \A s, t \in TaskIds :
    /\ Live(s) /\ s \notin released /\ Live(t) /\ t \notin released
    /\ tasks[s].watch = tasks[t].watch /\ tasks[s].pr = tasks[t].pr
    => s = t

\* Every task a watch created and was not unlinked from is held by the saved
\* snapshot, by the token of its reservation: it can be recovered, reset and
\* deleted, whatever failed since, and no deleted watch leaves one behind.
NoOrphanTask ==
  \A t \in TaskIds : Live(t) /\ t \notin released =>
    durable[tasks[t].watch].reservations[tasks[t].pr].token = tasks[t].token

\* A link a person detached is never the watch's again: no poll, recovery or
\* retry makes it an owned link (DetachTaskLink).
DetachedStaysDetached ==
  \A x \in WatchIds, p \in PRs :
    durable[x].links[p].owned => durable[x].links[p].task \notin released

\* Reset and Delete never delete the task of a detached link, whatever its
\* watch went through since (service_teardown.go, Reset): a detached task goes
\* only when a person deletes it, which is a request.
DeletesOnlyOwned ==
  [][\A t \in released : Live(t) /\ requests' = requests => Live(t)']_vars

\* The saved cursor moves past a page only when every pull request the
\* provider answered with has a saved link, so none is skipped (Run).
CursorPassesOnlyLinked ==
  [][\A x \in WatchIds :
       kind = "run" /\ durable'[x].cursor # durable[x].cursor =>
         \A p \in listed : durable'[x].links[p] # NoLink]_vars

\* Every task of a watch comes from the connection the watch is bound to
\* (connections.go, ConnectionBinding: it fences persisted watches from a
\* later account, tenant or server).
TaskFromBoundConnection ==
  \A t \in TaskIds : Live(t) => tasks[t].via = tasks[t].bound

Pollable(x, p) ==
  /\ durable[x].status = "running" /\ Connection # 0
  /\ durable[x].binding = Connection /\ p \in open

\* A pull request that stays open while its watch stays running on its
\* connection gets a task and a link.
OpenPRIsLinked ==
  \A x \in WatchIds, p \in PRs :
    Pollable(x, p) ~> (durable[x].links[p] # NoLink \/ ~Pollable(x, p))

\* A task whose creation was not saved is linked to its watch in the end,
\* paused or not, connected or not, unless it or the watch goes (Recover).
LostTaskIsRecovered ==
  \A t \in TaskIds, x \in WatchIds, p \in PRs :
    (Live(t) /\ tasks[t].watch = x /\ tasks[t].pr = p
       /\ durable[x].reservations[p].token = tasks[t].token) ~>
    (~Live(t) \/ durable[x].links[p].task = t \/ ~Exists(durable, x))

\* A running watch bound to another connection than the present one does not
\* stay running: the next poll pauses it, unless it is resumed (Run).
StaleWatchIsPaused ==
  \A x \in WatchIds :
    (durable[x].status = "running" /\ Connection # 0
       /\ durable[x].binding # Connection) ~>
    (durable[x].status # "running" \/ durable[x].binding = Connection
       \/ Connection = 0)

-----------------------------------------------------------------------------
(* The lifecycle the service implements. *)

PhaseOf(x, p) ==
  LET link == durable[x].links[p]
      reservation == durable[x].reservations[p]
  IN CASE link.task # NoTask /\ link.owned -> "linked"
       [] link.task # NoTask /\ ~link.owned -> "detached"
       [] link.task = NoTask /\ reservation.token = NoToken -> "free"
       [] OTHER -> IF Found(reservation.token) = {} THEN "reserved" ELSE "made"

Lifecycle == INSTANCE TaskLifecycle
  WITH phase <- [o \in WatchIds \X PRs |-> PhaseOf(o[1], o[2])]

\* Each pull request of each watch goes through its lifecycle: through every
\* interleaving, lost answer and stop the saved snapshot and the host's tasks
\* move together only as TaskLifecycle says.
ImplementsLifecycle == Lifecycle!Spec
=============================================================================
