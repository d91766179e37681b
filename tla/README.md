# Specifications of the Bitbucket plugin

TLA+ models of `kandev-plugin-bitbucket`, the TLC runs that check them and the
TLAPS proofs about them. The reference is the Go source under `internal/`; paths
below are relative to it unless they start with `ui/`.

- [The system](#the-system): parts, state, operations, what is hard
- [The modules](#the-modules): which module models which part, and how
- [The runs](#the-runs): questions, bounds, results
- [Fairness](#fairness)
- [The proofs](#the-proofs)
- [Findings](#findings)
- [What is not modelled](#what-is-not-modelled) and [the plan](#the-plan)

## The system

One plugin process serves many workspaces of a host. The host keeps all durable
state (key-value state, secrets, tasks) and each call to it can fail, with or
without effect; the process can stop at any time. Within the process, actions
of people (HTTP handlers), OAuth callbacks, Git credential requests and one
polling goroutine run concurrently.

| Part | Source | State | Operations |
| --- | --- | --- | --- |
| Watch service | `watches/service.go`, `service_teardown.go`, `model.go` | per workspace a durable snapshot: watches with status, binding, cursor, links, reservations, presets | Run, Recover, Create, Pause, Resume, SetFilter, SavePreset, DetachTaskLink, RefreshTaskLink, PreviewReset, Reset, Delete |
| Workspace lock | `watches/service.go` 617-650 | a table of counted mutexes by workspace | lock, unlock |
| Task gateway | `plugin/task_gateway.go`, `plugin/state.go` | none; tasks and snapshot are in the host | FindByReservation, Create, PreviewOwned, DeleteOwned, Load, Save |
| Watch provider | `plugin/provider.go`, `connection_identity.go` | none; a cursor string in the watch | ConnectionBinding, ListPullRequests |
| Manager | `plugin/manager.go`, `domain/health.go` | in memory, failures and next attempt per workspace | Run, PollWorkspace |
| Connection | `plugin/connections.go`, `connection_secrets.go` | a credential-free record and secrets by generation, in the host | Load (binding migration), Save, Disconnect |
| OAuth flows | `plugin/connection_oauth.go`, `auth/state.go` | in memory: epoch, state manager, flows, pending states | StartOAuth, HandleOAuthCallback |
| OAuth refresh | `auth/refresh.go`, `auth/source.go` | in memory: calls in flight, completed exchanges, revoked scopes | AccessToken, Refresh, Invalidate |
| Git credentials | `plugin/connection_git_credentials.go`, `credentials.go` | none | GitCredentialBinding, ResolveGitCredential |
| Task links | `plugin/links.go`, `workflow_associations.go` | per task a durable record: links and suppressed identities | List, Link, AutoLink, Unlink; viewing a task |
| Task launch, Create PR | `plugin/workflow_task_launch.go`, `task_create_pr.go` | none; tasks in the host | launch, create |
| Runtime | `plugin/runtime.go`, `server/` | the current parts, the manager's cancel function | SetHost, dispatch |
| Actions and views | `plugin/workflow*.go` | none | decode, call one of the above or a client, answer |
| API clients | `cloud/`, `datacenter/` | none | HTTP requests with retries, listings page by page, mappings |
| UI | `ui/src/` | stores of reviews and associations with refresh tokens | views over the actions |

**Interactions.** The manager polls a workspace by calling Recover and then Run
for each running watch; Run asks the watch provider, which builds a client from
the connection's record, and makes tasks through the gateway. A save of the
connection for another target draws a new *binding*; watches remember theirs
and are paused when it differs. A disconnect or a change of target raises the
OAuth *epoch* and revokes the old *scope*; flows and refreshes run outside the
connection's mutex and are fenced only by these. Unlinking writes the link
store and then detaches the watch's link. The actions that read from and write
to the provider keep nothing in the plugin: what they share is the provider
itself, which other people change between any two of their calls.

**What is hard.** An exactly-once effect (one task for a pull request) over a
host whose create call may be lost and whose state is saved in a separate call;
records and secrets that no call writes together; fences read before and used
after a call; two stores for one association; recovery at every point between.
`PROJECT.json` lists these hazards at their lines, each with the properties
that cover it or the reason none does yet.

**What makes each part correct.**

- Watch service: at most one task for a pull request of a watch; none lost,
  skipped or adopted against a person's wish; only owned trees deleted; open
  pull requests reached in the end; tasks made only from the bound connection.
- Workspace lock: mutual exclusion per workspace, no stale or forgotten entry,
  every caller enters.
- Connection: the binding changes exactly with the target; the record always
  has the secrets it works with, or at least lists what remains to be revoked;
  after a disconnect nothing is left.
- OAuth: a flow or refresh that overlaps a disconnect or a change stores
  nothing afterwards; a rotating token is exchanged once; a flow has the state
  its callback needs, whatever the caps evict.
- Task links: no update lost; an explicit unlink is respected until an explicit
  link.
- Manager: no provider is asked before the time it asked for; every workspace is
  polled again and again.
- Actions: a change lands once, in the repository that was named, and a decision
  past no change its request has not read; the pages of the queue make up the
  queue; a review is whole or refused, and what its view leaves out is said;
  requests are answered wherever the code limits the calls they make.

## The modules

A definition marked *variant* in a module is a plausible mistake of the one
below it. No specification uses it; it is what shows that a property can fail.

### WatchService (with TaskLifecycle)

One workspace. `durable` is the snapshot saved in the host, `tasks` are the
host's tasks with their reservation token, and the connection (`epoch`,
`connected`) and the open pull requests move on their own between any two
steps. Every operation of `service.go` and `service_teardown.go` holds the
workspace lock from its load to its return, so one operation is in progress;
`pc` names its next host call, `view` is its working copy. Each host call and
each save is a step of its own:

| Code | Actions |
| --- | --- |
| Run: load, fence, list | `BeginRun`, `Fence`, `List`, `ListFails` |
| ensureTask: linked, known, looked up, reserved, created | `Ensure`, `Find`, `Save`, `CreateTask`, `CreateReplyLost`, `CreateRefused` |
| Run: cursor and failures | `FinishRun` |
| Recover, reconcileCreatingReservations | `BeginRecover`, `Reconcile`, `Reconciled` |
| PreviewReset, Reset, Delete | `BeginTeardown`, `Reconcile`, `DeleteOwned`, `DeleteReplyLost`, `FinishTeardown` |
| Create, Pause, Resume, SetFilter, DetachTaskLink | actions of the same name, each ending in `Save` |
| a save reported to fail that took effect | `SaveReportedFailed` |
| a call failed without effect, a cancelled context, a process stop | `Interrupted` |

Abstracted: names, presets and poll times; the failure count to whether it is
zero; the provider's cursor to a page number; tokens and task identifiers are
values that repeat only when nothing remembers them any more. `tasks` also
records the binding of the watch and of the connection that answered, for
`TaskFromBoundConnection` alone.

`TaskLifecycle` is the abstract specification: each pull request of each watch
is free, reserved, made, linked or detached and moves only along a few arrows.
`ImplementsLifecycle` is its specification under the mapping `PhaseOf`.

### KeyedMutex and WorkspaceLock

The table of counted mutexes, at the grain of its critical sections: register
under the table's mutex, acquire the entry, unlock the entry, deregister under
the table's mutex. `WorkspaceLock` is what the callers rely on, one fair lock
for each workspace; `ImplementsLock` maps the table to it. This is the module
that justifies the single `pc` of `WatchService`.

### Connection (MCConnection)

One workspace's record, the set of keys that hold a secret, the operation that
holds `connectionMu` (`pc`, `op`, `base`, `new`, `todo`), and what the process
has in memory: `epoch`, `manager`, `refresher`, `revoked`, `flows`, `source`.

| Code | Actions |
| --- | --- |
| Save | `BeginSave`, `Plan`, `Refuse`, `WriteSecret`, `Commit`, `CommitFails`, `DeleteSecret`, `Compensated`, `CleanedUp` |
| Disconnect, finishDisconnect | `BeginDisconnect`, `CommitTombstone`, `DeleteSecret`, `Finished` |
| Load, migrateConnectionBinding | `Migrate` |
| StartOAuth | `LoadFlow`, `KeyFlow`, `RegisterFlow` |
| HandleOAuthCallback | `TakeFlow`, `StoreCredential` |
| tokenSource, AccessTokenCredential, Refresh | `LoadSource`, `Refresh`, `SaveRotated` |
| process stop | `Stop` |

Abstracted: a secret to the fact that its key is stored; a target to a value
with a product and an account; validation of the input to accepted or refused;
generation 0 is the legacy key. The initial states include records of releases
that knew neither generations nor bindings.

### TaskLinks (MCTaskLinks)

One task's record of links and suppressions. A call of the store loads under
its mutex (`Enter`) and saves before it releases it (`Leave`, or `CallFails`).
The requests make several calls and hold nothing in between: `Request` (an
explicit link or unlink), and a view: `View`, `Discover`, `ListAgain`,
`RefreshLink`, `Viewed`. `wish` is a history variable: what a person last asked
for each pull request. A pull request stands for its immutable identity.

### OAuthRefresh (MCOAuthRefresh)

One scope of the process's `Refresher` and the token sources that ask it. A
source's path is `pc`: `loaded` a due credential, then refused (`RefuseRevoked`),
answered from the remembered exchange (`Recall`), joined to the call in flight
(`Join`) or the one that exchanges (`Begin`, `Grant` or `Refuse`, `Publish`), and
last `Save`. The authorization server rotates: `gave` says what each refresh
token was exchanged for. `forgotten` is history: the tokens whose exchange the
process cannot know of. Expiry is `Age`, from fresh to due to expired.

### OAuthFlows (MCOAuthFlows)

The two tables of `connection_oauth.go` and `auth/state.go` that one flow is in:
the flows of all workspaces, with their cap per workspace, and each state
manager's pending states, with its own. The caps are constants (32 and 64 in
the code); `stamp` orders expiries and `horizon` passes them. A flow is begun in
four steps (`TakeManager`, `ReadEpoch`, `BeginState`, `RegisterFlow`), a callback
takes the flow (`Callback`) and then the state (`Consume`), and
`invalidateOAuthWorkspace` (`Invalidate`) runs between any of them. `BeginState` takes the
time and saves the state in one step (`auth/state.go` 85, 87): no property depends on
the moment between.

### PollSchedule

The manager's loop over all workspaces: `Run`'s sleep (`Wake`), `PollWorkspace`'s
health check and watches, each call with the client's own retries (`CallWaits`),
and `recordWorkspacePoll` (`Finish`). Time is counted in tenths of the poll
interval and relative to now, jitter is a choice, a duration has `Width` bits. `wait` is how far
each next attempt is; `asked` and `skipped` are history.

### Workflows (MCWorkflows), ReviewAction, PullRequestQueue, ReviewRead

`Workflows` is `HandleAction` for the three actions with steps of their own at
the provider; each is a module, and `Workflows` composes them: `serves` is the
action of the request, and the other modules' variables are `None`.

| Code | Module: actions |
| --- | --- |
| reviews.action: `listAllRepositories`, `persistedRepository`, `pullRequestLookup`, `MutatePullRequest` | `ReviewAction`: `ListPage`, `Get`, `GetVersion`, `SendCloud`, `SendDataCenter`, `Reread`, and `Retry`, `Fails` of each read |
| pullrequests.queue: `listAllRepositories`, `searchWorkspacePullRequests`, `SearchPullRequestsPage` | `PullRequestQueue`: `Open`, `ListPage`, `ReadPage`, `CallFails` |
| reviews.get: `GetReviewProjected`, `forReviewPages`, `mapReviewThreads`, `reviewView` | `ReviewRead`: `ReadOne`, `ReadPage`, `CallFails`; `Threads`, `ThreadsView` |
| other people (external) | `Edit`, `Close`, `Move`; `OpenPullRequest`, `MergePullRequest`, `RemoveRepository`; `Push`, `Comment` |

A provider is *honest* when it follows its paging protocol; otherwise it may
lead to any page, or to a new one every time, which is what the loops' limits
and guards against cycles are for. Abstracted: bodies, names and times; a listing
to numbered entries.

`ReviewAction` keeps apart what the code has two names for: a repository's
identity, which the request gives, and its path, by which every call goes.
`persistedRepository` finds the identity at whatever path it has, so a repository
renamed before the request is followed; `Move` renames, removes and creates
repositories at any time, and whoever is at the path then answers a call.
Two histories make the properties statable: `moved`, the requests during which
the identity's path changed, and `missing`, the requests whose last read
somebody's change has outdated. Note what the version of Data Center protects:
`MutatePullRequest` reads it again just before it decides, so a merge passes over
no change made after *that* read; a change made between what the person was
shown and the request is not noticed. A comment names no version at all.

In `ReviewRead` each part is a call of its own, so a review is not of one commit:
the statuses are asked for the commit read first, files and commits may be of a
later one. A push of the model adds a commit to that listing and changes
nothing else.

## The runs

| Run | Configuration | Question | Result |
| --- | --- | --- | --- |
| `watch_safety` | `WatchSafety.cfg` | Do tasks stay unique, accounted for and owned, and does the service implement its lifecycle? | holds |
| `watch_liveness` | `WatchLiveness.cfg` | Are open pull requests linked, unsaved tasks recovered, stale watches paused in the end? | holds |
| `watch_fence` | `WatchFence.cfg` | Does every task come from the connection its watch is bound to? | violated |
| `keyed_mutex` | `KeyedMutex.cfg` | Is the table one fair lock for each workspace? | holds |
| `connection_safety` | `ConnectionSafety.cfg` | Does the binding follow the target, and do secrets stay usable or revocable through any failure? | holds |
| `connection_late` | `ConnectionLate.cfg` | Is an OAuth credential ever left by a disconnect? | violated |
| `task_links` | `TaskLinksSafety.cfg` | Are updates kept and suppressions dropped only by a link or by age? | holds |
| `task_links_stale` | `TaskLinksStale.cfg` | Does only an explicit link clear a suppression? | violated |
| `oauth_refresh` | `OAuthRefresh.cfg` | Is a rotating token exchanged once, and nothing given out after a revocation? | holds |
| `oauth_flows` | `OAuthFlows.cfg` | Do the two tables of a flow agree, is a state good for one callback, is a flow lost only to its cap? | holds |
| `workflows` | `Workflows.cfg` | Do changes land once, in the repository named and past no unread change, do pages make up the queue, is a review whole or refused and are its cuts said, do requests end? | holds |
| `poll_schedule` | `PollSchedule.cfg` | Are retry-afters kept, healthy workspaces not passed over, and all polled? | holds |

**Bounds, and why they are enough.**

- `watch_safety`: one watch; a page of one pull request and a page of two, one
  of which the host refuses; four tokens, three tasks, two connections, three
  faults, three requests. A second task for a pull request needs one lost answer
  or save and one retry; three faults allow failures during the recovery from a
  failure during a recovery. Two pages are the fewest where the cursor can skip
  one, two pull requests on a page the fewest where a poll stops half-way. Two
  watches over one pull request are not in this run: the proofs cover any number
  of them for uniqueness and accounting.
- `watch_liveness`: failures and requests are finite, so the properties speak of
  what follows the last of them; two pages make the cursor come round. No pull
  request is refused here (see `CreateRefused`: its page is repeated for ever,
  which is the price of not skipping it).
- `keyed_mutex`: three goroutines are the fewest where one waits, one leaves and
  one arrives at the same entry; a second key lets an entry be mistaken.
- `connection_safety`: two targets of one account and one of another product,
  three requests, one fault: a save, a failed save and a third operation, with
  every host call the one that fails. Generations and bindings are capped above
  what three requests can draw, except that a record cannot pass
  `MaxGeneration`.
- `task_links`: two requests at once, three pull requests and room for two
  suppressions, so that the list overflows; four requests, one fault.
- `oauth_refresh`: three sources are one that exchanges, one that joins and one
  late with an older token; two rotations make the remembered exchange an old
  one; two faults are a lost answer and a failed save.
- `oauth_flows`: caps of one flow and two states against four flows begun, so
  that each table overflows, and before the other.
- `workflows`: for `reviews.action` two requests, two tries of a read (three in
  the code) and two changes by others, which is a rename and another repository
  in its place, or an edit and a decision, over two identities and two paths;
  for `pullrequests.queue` two repositories of up to two pull requests, pages of
  one or two and a limit of two, two changes and one walk of up to six shown:
  pages end before, at and after the limit and the repository's end. `MaxHops`
  is 10 for 10000: an honest search here needs no more, one led on to ever new
  pages runs into it. For `reviews.get` listings of up to four entries against
  limits of two pages, three entries and two shown, one push and one comment,
  with four of the projections that are asked for.
- `poll_schedule`: two workspaces of up to two watches; retry-afters of none, three
  and four and a half intervals, between a healthy delay and the longest one, so
  that the schedule's own delay is now the shorter and now the longer of the two.

`CHECK_DEADLOCK FALSE` is set where the bounds on requests and faults let the
system come to rest.

The runs that end in a violation have the smallest bounds that show it, and no
fault wherever none is needed.

## Fairness


- `WF(Advance)`: an operation under way goes on. Each host call returns or
  fails; a failure ends the operation.
- `SF(BeginRecover)`, `SF(BeginRun(x))`: the manager's `Run` loop never ends and
  `PollWorkspace` starts with Recover and then runs every running watch. Other
  requests may hold the lock whenever the poll looks, so the fairness is strong:
  the poll waits on a Go mutex, which a starving waiter is handed. This assumes
  that the provider's health check answers (an unhealthy provider stops the poll
  before the watches) and that Recover does not fail for ever. A failing
  watch does not stop the others (`PollWorkspace` collects their errors).
- `KeyedMutex`: a goroutine in the lock's code runs on, a caller leaves its
  critical section, and a waiter of an entry that is free again and again gets it.

- `Workflows`: `WF(Advances)`, a handler that was called goes on. Calls are
  answered or the HTTP client's timeout ends them, and the wait before a retry
  is bounded or given up with the request. What makes this enough is in the
  code: three tries, cursors seen, 10000 calls of one search, limits of pages and
  entries. The listing of the repositories (`workflow_lookup.go` 248) has none of
  these but the cursors seen: a provider that names a new page every time keeps
  a request there, and `EveryRequestIsAnswered` says so (`ListsOnAndOn`). No
  document promises otherwise. The same loop serves reviews.action and
  reviews.get; it is walked astray in `PullRequestQueue` alone.
- `PollSchedule`: `WF(Loop)`, the manager's goroutine goes on until the process
  ends: timers fire and calls are answered or time out. A retry-after is finite.

Nothing is assumed fair about people, the connection or the provider.

## The proofs

The proofs are checked by TLAPS without any assumption but the constants':
`ConstantsAssumption` of each module (types, that the null values are none
of the others, and that `Repos` names each repository once), and finiteness where
the mutex counts its users. The sets of watches, pull requests, tokens, tasks,
goroutines, keys, sources, clients and requests, and all the bounds, are
arbitrary.

| Module | Theorem | Statement |
| --- | --- | --- |
| `WatchServiceProofs` | `WatchInvariantHolds` | `Spec => []IInv` |
| | `WatchTypes` | `Spec => []TypeOK` |
| | `OneTask` | `Spec => []OneTaskPerPR` |
| | `NoTaskOrphaned` | `Spec => []NoOrphanTask` |
| | `DetachedStays` | `Spec => []DetachedStaysDetached` |
| | `DetachedNotDeleted` | `Spec => DeletesOnlyOwned` |
| | `CursorWaits` | `Spec => CursorPassesOnlyLinked` |
| | `ServiceImplementsLifecycle` | `Spec => ImplementsLifecycle` |
| `KeyedMutexProofs` | `MutexSafe` | `Spec => [](TypeOK /\ MutualExclusion)` |
| | `TableExact` | `Spec => []TableIsExact` |
| | `MutexImplementsLock` | the table's steps are steps of `WorkspaceLock`, or stutter |
| `OAuthRefreshProofs` | `RefreshesOnce` | `Spec => [](TypeOK /\ OneExchange)` |
| | `SpentTokensAreRecalled` | `Spec => SpentTokenIsRecalled` |
| | `NothingIsGivenAfterRevocation` | `Spec => NothingAfterRevocation` |
| `OAuthFlowsProofs` | `FlowsHaveStates` | `Spec => []FlowHasState` |
| | `CallbacksAreSingle` | `Spec => []OneCallbackPerState` |
| | `FlowsAreKept` | `Spec => NoFlowLost` |
| `TaskLinksProofs` | `RecordIsSound` | `Spec => []LinkedOrSuppressed` |
| | `LinksAreKept` | `Spec => []NoLinkLost` |
| | `SuppressionsEndKnown` | `Spec => SuppressionEndsByLinkOrCap` |
| `WorkflowsProofs` | `OneEffect` | `Spec => []AtMostOneEffect` |
| | `TrueAnswer` | `Spec => []AnswerIsTrue` |
| | `DecidesOnTheLatest` | `Spec => []DecisionMissesNothing` |
| | `FollowsTheRepository` | `Spec => []ChangesFollowTheRepository` |
| | `ReviewIsWhole` | `Spec => []NothingIsCutSilently` |
| | `PagesMakeTheQueue` | `Spec => []PagesAreTheQueue` |
| | `OpeningHidesNone` | `Spec => []OnlyClosingHides` |
| | `CommentsAreFiled` | `Spec => []EveryCommentIsInOneThread` |
| | `CutsAreShown` | `Spec => []CutsAreSaid` |
| `PollScheduleProofs` | `HealthySkippedAtMostOnce` | `Fits` proves `Spec => []HealthyIsSkippedAtMostOnce` |
| | `RetryAfterKept` | `Fits` proves `Spec => RetryAfterIsKept` |
| `ConnectionProofs` | `BindingFollows` | `Spec => BindingFollowsTarget` |
| | `SecretsAreTracked` | `Spec => NoSecretForgotten` |
| | `PreviousIsKept` | `Spec => FailedSaveKeepsPrevious` |

A type invariant is a conjunct of each inductive invariant; the runs check it as
part of `IInv` in `watch_safety`, and elsewhere leave it to the theorem.

**The invariant of the watch service.** `OneTaskPerPR` and `NoOrphanTask` speak
of the saved snapshot and the host, but what a save brings is decided earlier in
the working copy. `WatchInvariant` therefore states one condition `Accounts` of
any snapshot and asks it of both:

- `Shape`: a pull request has nothing, a creating reservation without link, or a
  created one with the link to its task; tokens are not shared.
- `Holds`: each task that was not released is held by the reservation of its
  watch and pull request, and a created reservation's token marks only its task.
- `Unowned`: an unowned link's task was released, or is about to be by the save
  of the detach in progress.

`Marked` says that tasks carry distinct tokens. `InHand` relates this to where
the operation is: before `create` no task has the reservation's token (the
look-up came first, and nobody else can draw it); a teardown has left no creating
reservation with a task (`Settled`), which is why deleting a whole watch orphans
nothing. Each action then has a lemma, `Save` carries `Accounts` from `view` to
`durable`, and two tasks of one watch and pull request would both carry the one
token of its reservation. TLC checks `IInv` too, in `watch_safety`.

What happens to links needs two more conditions (`LInv`). `Linked`: no owned link leads to
a released task. A recovery finds tasks by token, so this needs that a task has
the token of the reservation that records it (`OfItsTask`), that no two record
the same (`Apart`), and that no open reservation has the token of a released task
(`Over`). `Walked`: while a poll runs, each pull request it was answered with is
linked or still to do, and the working cursor differs from the saved one only in
the poll's last save.

The refinement rests on both. A phase moves when the host makes or
loses a task, and when the working copy is saved; the moves of a save were decided
calls earlier. `Turned` lists how a pull request of the working copy may differ
from the saved one meanwhile: recorded, reserved with a token no task has, given
up when no task has its token, let go while owned, or dropped with its whole
watch. While a reconciliation or teardown is between its saves only recordings are
pending. Each of these turns is a move of `TaskLifecycle`.

**The invariant of the mutex** counts, for every entry, the goroutines between
register and deregister (`Counted`), and says that an entry in the table under a
key is the one all goroutines of this key use (`Registered`, `Separate`).

**The invariant of the refresh** (`RInv`) rests on the rotation: each token but
the newest was exchanged for the next (`Chain`), so only the newest exchange has
to be remembered. It is, by the refresher or by the source that has its answer,
unless the answer was lost, the credential has expired or the scope is revoked
(`Remembered`). A source that begins an exchange with a spent token therefore
has an older token, or one of those excuses.

**The invariant of a review action** (`AInv`) says who has sent (`SentOnce`), and
that what landed stays on the pull request (`Kept`), which is why a read after the
change shows it (`Shown`). A decision misses nothing because versions only grow,
and by every change that outdates a read (`OutOfDate`): a version that is still
there has been outdated by nobody. A change is made where it was meant because
no two repositories share a path (`OwnPaths`) and a request during which the
identity kept its path has found that path, or is still looking, and has read the
identity's pull request (`Follows`). `LandedWell` keeps what both say of the step
that landed. `WInv` is `AInv` when the action is what `Workflows` serves.

**The invariant of the schedule** (`PInv`) says that what a provider asked for is
covered by the time left to the workspace's next attempt, or, for the workspace
being polled, by what its poll was told so far (`Covered`); and that a healthy
workspace has at most two tenths of an interval left after one of the loop's
sleeps, and nothing after two (`OnTime`). `Fits` assumes that a retry-after does
not overflow a duration: without it the code, and the model, ignore the wait.

**The invariant of the connection** (`CInv`) says what the holder of the mutex may
rely on between two calls. The record is the one it loaded until it commits
(`AtHand`). The record it planned tracks every secret the former one tracked and
keeps the binding exactly when the target is the same, and what it staged is of a
generation the former one does not use (`Planned`, `Staged`). In a round of
deletions without a failure every key not left to do is gone (`Deleted`); flows
and refreshes meanwhile write only credentials and the state key, which is why
the property is about tokens and registrations.

**The invariant of the flows** (`FInv`) says that starts have distinct stamps in
the order they were begun (`Ordered`), that no two flows, and no two clients
between `Consume` or `BeginState` and the end of their path, have the same one
(`Once`), and that of a live flow without its pending state as many later starts
of its manager were begun as the table holds (`Backed`, also of a flow about to
be registered): only that pushes a state out before its flow.

**The invariant of the task links** (`LinksInv`) says that the record names no
pull request twice (`Sound`), that at most one call of the store is inside, with
the record it loaded (`Alone`), and what each call may have been made with
(`WellCalled`). That a suppression ends only by a link or the cap then is about
what `Without` and `Latest`, which rebuild the lists, leave in them.

**The invariant of a review** (`ReviewInv`) says, for an honest provider, how far
the listing under way was read (`NothingLost`): everything before `start` is in
what was read, whatever commits and comments came in meanwhile. Cloud adds comments
after those there, so the places read do not move; Data Center adds them in
front, as both add commits, so a page shows some entries again but skips none.

**The invariant of the queue** (`QueueInv`) needs a name for the queue up to any
position: `Upto(i, g, n)` is the listings of the repositories before the `i`th,
the groups before its `g`th, and `n` entries of that one. `Walk` says that what
was shown is the queue up to the cursor, and together with what the search found
the queue up to where it reads (`At`, `Reaches`). `After` then has to lead from
the last entry taken to the same place of the queue, over ends of pages, groups
and repositories. When pull requests are opened meanwhile, "is" becomes "has every
original of" (`Matches`): they come first in their listing, which moves the others
back, never forward. The repositories come listed in the provider's order, page
by page; `LastListed` says which are known so far, so that sorted they are all
(`AllInOrder`). The invariant promises nothing once a pull request was merged or a
repository left.

**The threads of a review.** `Filing` is the loops' invariant: the threads hold
as many comments as places of the listing were dealt with, exactly the comments of
those places, and only answers after a head. The first loop deals with the
comments that answer none (`OpenedFiles`), the second with all others
(`ThreadsFile`). For the view, the loop over one thread's comments and the one over
the threads each have an invariant (`Shows`, `Views`): the counter is how many
comments are shown so far; while the flag is down they are all there were, and
once it is up they are fewer. As no thread is empty, more threads than the limit
are more comments than it too (`CutIsSaid`).

**Induction.** The library's induction theorem takes an operator as a parameter,
which the provers cannot instantiate. `NatSetInduction` is the same for a set of
numbers, from the well-foundedness of `<`. With it a loop written as a recursive
function has all its values (`LoopRuns`), and what it returns can be proved.
`Without`, `InOrder`, `OfState`, `Opened`, `Threads`, `ShowThread` and `ThreadsView` are therefore the loops of the
source, not `SelectSeq`, which is recursive over an operator; `FlattenSeq` is a recursive
function and is used as it is (`FlattenIsJoin`).

**Only model-checked:** liveness (`EveryCallerEnters`, `EveryWorkspaceIsPolled`,
`EveryRequestIsAnswered`, the recovery of `watch_liveness`), which with fairness
and `ENABLED` is out of the prover's reach. Every other property of a passing run
is a theorem. No module that is proved about declares a recursive operator.

## Findings

Three runs end in a violation of what a comment or the README says; the traces
are short and `PROJECT.json` quotes the lines.

1. *A flow outlives a disconnect* (`connection_late`). StartOAuth loads the
   record, then reads the epoch it is fenced by. A disconnect in between raises
   the epoch first, so the flow carries the new one and its callback stores a
   credential after everything was deleted. A refresh whose save comes late does
   the same.
2. *The fence is read once* (`watch_fence`). A connection saved between the
   fence and the listing answers for a watch that is not bound to it. In the
   trace the watch was made without a connection, its binding is empty, and the
   workspace is connected between the two.
3. *A view undoes an unlink* (`task_links_stale`). Viewing a task links every
   listed pull request anew after the provider has answered; an unlink in
   between is undone and its suppression cleared.

Modelling met further outcomes that the models contain and no run is spent on:

- OAuth, then a token connection, then OAuth again reuses generation 1 while its
  old revocation is pending after a failed deletion; the clean-up then deletes
  the registration in use (`connection_oauth.go` 145). A disconnect revokes the
  scope in memory before its tombstone is saved (`connections.go` 283): when that
  fails the connection stays, and its scope is revoked for the process.
- An unlink of a pull request the link store does not hold, one shown by its
  watch for instance, leaves no suppression, and the next view links it by its
  branch (`links.go` 184).
- A commit that is reported to fail but took effect is compensated all the same,
  and the record is left without its new secret (`connections.go` 237); a stop
  between the staged secret and the commit leaves it in no record (232).
- A repository renamed or removed after a request has found its path, with
  another in its place, misleads the request: it changes the other one, since both
  clients copy the repository asked for into what they read (`cloud/mapping.go` 13)
  and `pullRequestLookup` compares it with itself. `ChangesFollowTheRepository` says
  that nothing else misleads it.
- The listing of the repositories has no limit of pages (`workflow_lookup.go` 248),
  unlike every other loop over a provider's pages.
- A comment that answers an answer gets a thread of its own, headed by a comment
  that is already in another (`cloud/mapping.go` 134). The comment is still in
  one thread only.
- The loop's sleep and a workspace's delay are jittered apart, so a healthy
  workspace is often passed over once and polled at twice the interval
  (`manager.go` 138); `HealthyIsSkippedAtMostOnce` is the bound that holds. A
  client that waits out a retry-after keeps the other workspaces waiting
  (`cloud/transport.go` 45), and one too long for a duration is ignored
  (`manager.go` 213).

## What is not modelled

- Redaction, the domain types' parsing, rendering and packaging: pure input and
  output. The dispatch of the other actions: each decodes a request and calls
  one operation that is modelled. `store/secrets.go` and
  `auth/credential_store.go`: the runtime does not build them.
- In the watch service: RefreshTaskLink, SavePreset, the migration of display
  keys (two that resolve to one identity collapse in map order, `service.go`
  553), a host call that takes effect after it was reported to fail (488), the
  second read of the connection scope (`provider.go` 61), the repositories and
  states inside a cursor (a repository that leaves the filter makes every poll
  fail until the filter changes, 117), and the paging of the host's task list
  (`task_gateway.go` 31).
- The runtime (two services over one snapshot after a second SetHost), Git
  credentials (their binding is a generation, which starts again after a
  disconnect, `connection_git_credentials.go` 44), the launch of a task (two at
  once both find nothing, `workflow_task_launch.go` 27).
- In the task links: records without a provider scope, associations a watch owns
  and the unlink that writes both stores (`workflow_pull_request_actions.go` 251).
- In the UI: the order of overlapping refreshes (`ui/src/review-store.ts` 38).
- In the clients: requests, responses and their errors beyond retried or not;
  Data Center's activities other than comments; the inspection of a connection.

## The plan

1. Proofs: the bounds that liveness rests on (tries of a call, pages and entries of
   a listing, cursors seen, retries of a save) as theorems for every value of the
   constants, so that only the fairness is left to TLC.
2. `WatchCursor`: repositories, states, filter hash and the provider's cursor
   inside `WatchService`'s page numbers.
3. `Unlink`: `TaskLinks` and the watch's links together, with the failure
   between the two writes and the detach of a creating reservation.
4. `TaskLaunch`, `GitCredential`, `Runtime` and the migration of display keys.
5. `ReviewStore` of the UI: the last refresh wins, none survives a clear.
