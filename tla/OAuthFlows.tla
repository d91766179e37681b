----------------------------- MODULE OAuthFlows -----------------------------
(***************************************************************************)
(* The tables of authorizations under way: the signed pending states of    *)
(* internal/auth/state.go (StateManager, MemoryPendingStore) and the flows *)
(* of internal/plugin/connection_oauth.go that refer to them.              *)
(*                                                                         *)
(* The two tables are bounded separately.  A workspace's manager keeps at  *)
(* most PendingCap states, and a workspace has at most FlowCap flows; each *)
(* drops what has expired and then the entry that expires first.  The      *)
(* flows of all workspaces share one table under oauthMu, and each manager *)
(* has a table of its own.  A manager lives until its workspace's next     *)
(* invalidation, so it is named by the epoch it was built in.              *)
(*                                                                         *)
(* All states live equally long, so a state is known by when it was begun: *)
(* stamps are the order of the starts, and those up to "horizon" expired.  *)
(* What the flow is fenced by in the connection is in module Connection.   *)
(***************************************************************************)
EXTENDS Naturals, FiniteSets

CONSTANTS
  Workspaces,
  Clients,      \* requests and callbacks under way at once
  FlowCap,      \* maxOAuthFlowsPerWorkspace
  PendingCap,   \* maxPendingStates
  MaxStarts,    \* bound: authorizations begun
  MaxEpoch,     \* bound: invalidations of a workspace
  NoFlow

ASSUME ConstantsAssumption ==
  /\ FlowCap \in Nat \ {0} /\ PendingCap \in Nat \ {0}
  /\ MaxStarts \in Nat /\ MaxEpoch \in Nat
  /\ NoFlow \notin [ws : Workspaces, manager : 0 .. MaxEpoch,
                    epoch : 0 .. MaxEpoch, stamp : 0 .. MaxStarts]

VARIABLES
  epoch,     \* invalidations of each workspace
  pending,   \* the states in the managers' tables
  flows,     \* the flows in the resolver's table
  pc, work,  \* what each client does next, and the flow it is about
  begun,     \* history: states begun
  horizon    \* states begun up to then have expired

vars == <<epoch, pending, flows, pc, work, begun, horizon>>

Stamps == 1 .. MaxStarts
Epochs == 0 .. MaxEpoch
Flow == [ws : Workspaces, manager : Epochs, epoch : Epochs,
         stamp : 0 .. MaxStarts]
State == [ws : Workspaces, manager : Epochs, stamp : Stamps]
StateOf(f) == [ws |-> f.ws, manager |-> f.manager, stamp |-> f.stamp]

Live(x) == x.stamp > horizon
Oldest(S) == {x \in S : \A y \in S : x.stamp <= y.stamp}
Newest(S) == {x \in S : \A y \in S : x.stamp >= y.stamp}   \* for a variant
SameManager(x, S) == {y \in S : y.ws = x.ws /\ y.manager = x.manager}
OfWorkspace(w, S) == {y \in S : y.ws = w}

Goes(c, to, f) == pc' = [pc EXCEPT ![c] = to] /\ work' = [work EXCEPT ![c] = f]

-----------------------------------------------------------------------------
(* MemoryPendingStore. *)

SavedDroppingNewest(x) ==   \* variant
  LET kept == {y \in SameManager(x, pending) : Live(y)} IN
  (pending \ SameManager(x, pending)) \cup {x} \cup
    (IF Cardinality(kept) >= PendingCap THEN kept \ Newest(kept) ELSE kept)
\* SavePendingState: expired states go, then the oldest of a full table.
Saved(x) ==
  LET kept == {y \in SameManager(x, pending) : Live(y)} IN
  (pending \ SameManager(x, pending)) \cup {x} \cup
    (IF Cardinality(kept) >= PendingCap THEN kept \ Oldest(kept) ELSE kept)

(* The resolver's flows: purgeOAuthFlowsLocked and evictOAuthFlowLocked. *)

RegisteredEvictingAny(f) ==   \* variant: other workspaces' flows count too
  LET kept == {g \in flows : Live(g)} IN
  {f} \cup
    (IF Cardinality(kept) >= FlowCap THEN kept \ Oldest(kept) ELSE kept)
Registered(f) ==
  LET kept == {g \in flows : Live(g)}
      own == OfWorkspace(f.ws, kept) IN
  {f} \cup
    (IF Cardinality(own) >= FlowCap THEN kept \ Oldest(own) ELSE kept)

-----------------------------------------------------------------------------
(* StartOAuth. *)

\* oauthStateManager: the workspace's manager, built when there is none.
TakeManager(c, w) ==
  /\ pc[c] = "idle"
  /\ Goes(c, "epoch",
          [ws |-> w, manager |-> epoch[w], epoch |-> 0, stamp |-> 0])
  /\ UNCHANGED <<epoch, pending, flows, begun, horizon>>

ReadEpoch(c) ==
  /\ pc[c] = "epoch"
  /\ Goes(c, "begin", [work[c] EXCEPT !.epoch = epoch[work[c].ws]])
  /\ UNCHANGED <<epoch, pending, flows, begun, horizon>>

\* StateManager.Start.
BeginState(c) ==
  LET stamp == Cardinality(begun) + 1
      f == [work[c] EXCEPT !.stamp = stamp] IN
  /\ pc[c] = "begin" /\ stamp <= MaxStarts
  /\ pending' = Saved(StateOf(f)) /\ begun' = begun \cup {StateOf(f)}
  /\ Goes(c, "register", f)
  /\ UNCHANGED <<epoch, flows, horizon>>

RegisterFlow(c) ==
  /\ pc[c] = "register"
  /\ flows' = IF work[c].epoch = epoch[work[c].ws] THEN Registered(work[c])
              ELSE flows
  /\ Goes(c, "idle", NoFlow)
  /\ UNCHANGED <<epoch, pending, begun, horizon>>

-----------------------------------------------------------------------------
(* HandleOAuthCallback, any number of times for any state. *)

\* The flow is taken whatever comes of it: a callback without a code, of an
\* earlier epoch or too late ends here.
CallbackKeepingFlow(c, f) ==   \* variant
  /\ pc[c] = "idle" /\ f \in flows
  /\ IF f.epoch = epoch[f.ws] /\ Live(f) THEN Goes(c, "consume", f)
     ELSE UNCHANGED <<pc, work>>
  /\ UNCHANGED <<epoch, pending, flows, begun, horizon>>
Callback(c, f) ==
  /\ pc[c] = "idle" /\ f \in flows
  /\ flows' = flows \ {f}
  /\ \/ f.epoch = epoch[f.ws] /\ Live(f) /\ Goes(c, "consume", f)
     \/ UNCHANGED <<pc, work>>
  /\ UNCHANGED <<epoch, pending, begun, horizon>>

\* StateManager.Consume; the exchange of the code changes nothing here.
Consume(c) ==
  /\ pc[c] = "consume" /\ Goes(c, "idle", NoFlow)
  /\ IF Live(work[c])
       THEN pending' = pending \ {StateOf(work[c])} ELSE UNCHANGED pending
  /\ UNCHANGED <<epoch, flows, begun, horizon>>

-----------------------------------------------------------------------------

\* invalidateOAuthWorkspace; the manager's table goes when nobody uses it.
Invalidate(w) ==
  /\ epoch[w] < MaxEpoch /\ epoch' = [epoch EXCEPT ![w] = @ + 1]
  /\ flows' = flows \ OfWorkspace(w, flows)
  /\ UNCHANGED <<pending, pc, work, begun, horizon>>

TimePasses ==
  /\ horizon < Cardinality(begun) /\ horizon' = horizon + 1
  /\ UNCHANGED <<epoch, pending, flows, pc, work, begun>>

Init ==
  /\ epoch = [w \in Workspaces |-> 0]
  /\ pending = {} /\ flows = {}
  /\ pc = [c \in Clients |-> "idle"] /\ work = [c \in Clients |-> NoFlow]
  /\ begun = {} /\ horizon = 0

Next ==
  \/ \E c \in Clients :
       \/ \E w \in Workspaces : TakeManager(c, w)
       \/ ReadEpoch(c) \/ BeginState(c) \/ RegisterFlow(c)
       \/ \E f \in flows : Callback(c, f)
       \/ Consume(c)
  \/ \E w \in Workspaces : Invalidate(w)
  \/ TimePasses

Spec == Init /\ [][Next]_vars

-----------------------------------------------------------------------------
(* Properties. *)

\* A flow the resolver still accepts has its state, whatever the other table
\* has dropped, unless that table had PendingCap later starts.
FlowHasState ==
  \A f \in flows : Live(f) =>
    \/ StateOf(f) \in pending
    \/ Cardinality({x \in SameManager(f, begun) : x.stamp > f.stamp})
         >= PendingCap

\* A flow leaves by its callback, by its workspace's invalidation, by age, or
\* as the oldest of its own full workspace: no workspace crowds out another.
CrowdedOut(f) ==
  /\ Cardinality(OfWorkspace(f.ws, flows)) >= FlowCap
  /\ \A g \in OfWorkspace(f.ws, flows) : Live(g) => f.stamp <= g.stamp
  /\ \E g \in flows' \ flows : g.ws = f.ws
NoFlowLost ==
  [][\A f \in flows \ flows' :
       \/ ~Live(f) \/ epoch'[f.ws] # epoch[f.ws]
       \/ CrowdedOut(f)
       \/ flows' = flows \ {f}]_vars

\* "validates and consumes a PKCE state exactly once": of two callbacks of one
\* state at most one gets as far as the manager.
OneCallbackPerState ==
  \A c, d \in Clients :
    pc[c] = "consume" /\ pc[d] = "consume" /\ work[c].stamp = work[d].stamp
      => c = d
=============================================================================
