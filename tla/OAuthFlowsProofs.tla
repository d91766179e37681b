-------------------------- MODULE OAuthFlowsProofs ---------------------------
(***************************************************************************)
(* Proofs about OAuthFlows, for any workspaces, clients and caps.          *)
(*                                                                         *)
(* Neither table knows of the other, so what relates them is their order:  *)
(* stamps name the starts (Ordered), each start is in the table of flows   *)
(* or with one client, once (Once), and what a full table of states drops  *)
(* is the oldest of its manager's, with PendingCap later ones begun        *)
(* (Backed).  A flow not registered yet is asked the same as a registered  *)
(* one: its state may be dropped before.                                   *)
(***************************************************************************)
EXTENDS OAuthFlows, FiniteSetTheorems, TLAPS

Holding == {"register", "consume"}   \* the clients that have a begun flow

TypeOK ==
  /\ epoch \in [Workspaces -> Epochs]
  /\ pending \subseteq begun
  /\ flows \subseteq Flow /\ IsFiniteSet(flows)
  /\ pc \in [Clients -> {"idle", "epoch", "begin", "register", "consume"}]
  /\ work \in [Clients -> Flow \cup {NoFlow}]
  /\ \A c \in Clients : pc[c] # "idle" => work[c] \in Flow
  /\ begun \subseteq State /\ IsFiniteSet(begun)
  /\ horizon \in Nat

Ordered ==
  /\ \A x \in begun : x.stamp <= Cardinality(begun)
  /\ \A x, y \in begun : x.stamp = y.stamp => x = y

Once ==
  /\ \A f \in flows : StateOf(f) \in begun
  /\ \A f, g \in flows : f.stamp = g.stamp => f = g
  /\ \A c \in Clients : pc[c] \in Holding =>
       StateOf(work[c]) \in begun /\ \A f \in flows : f.stamp # work[c].stamp
  /\ \A c, d \in Clients :
       pc[c] \in Holding /\ pc[d] \in Holding /\ work[c].stamp = work[d].stamp
         => c = d

Later(f, S) == {x \in SameManager(f, S) : x.stamp > f.stamp}
HasState(f) ==
  Live(f) => StateOf(f) \in pending \/ Cardinality(Later(f, begun)) >= PendingCap
Backed ==
  /\ \A f \in flows : HasState(f)
  /\ \A c \in Clients : pc[c] = "register" => HasState(work[c])

FInv == TypeOK /\ Ordered /\ Once /\ Backed

-----------------------------------------------------------------------------
(* The two tables. *)

\* The next start is after all that were begun.
LEMMA NextIsNew ==
  ASSUME TypeOK, Ordered
  PROVE  /\ Cardinality(begun) \in Nat
         /\ \A x \in begun : x.stamp \in Nat /\ x.stamp # Cardinality(begun) + 1
  BY FS_CardinalityType DEF TypeOK, Ordered, State, Stamps

\* Ordered goes on with the next start.
LEMMA AddIsOrdered ==
  ASSUME TypeOK, Ordered, NEW x \in State, x.stamp = Cardinality(begun) + 1,
         begun' = begun \cup {x}
  PROVE  /\ Ordered' /\ IsFiniteSet(begun')
         /\ Cardinality(begun') = Cardinality(begun) + 1
<1>1. x \notin begun BY NextIsNew
<1>2. IsFiniteSet(begun') /\ Cardinality(begun') = Cardinality(begun) + 1
  BY <1>1, FS_AddElement DEF TypeOK
<1>3. \A y \in begun' : y.stamp <= Cardinality(begun')
  BY <1>2, NextIsNew DEF Ordered
<1>4. \A y, z \in begun' : y.stamp = z.stamp => y = z
  BY NextIsNew DEF Ordered
<1>. QED BY <1>2, <1>3, <1>4 DEF Ordered

\* What is saved was begun.
LEMMA SavedIsBegun ==
  ASSUME NEW x PROVE Saved(x) \subseteq pending \cup {x}
  BY DEF Saved, SameManager

\* More starts never take away from the later ones.
LEMMA LaterGrows ==
  ASSUME NEW S, NEW T, IsFiniteSet(T), S \subseteq T, NEW f
  PROVE  /\ Cardinality(Later(f, S)) \in Nat /\ Cardinality(Later(f, T)) \in Nat
         /\ Cardinality(Later(f, S)) <= Cardinality(Later(f, T))
<1>1. Later(f, S) \subseteq Later(f, T) /\ Later(f, T) \subseteq T
  BY DEF Later, SameManager
<1>2. IsFiniteSet(Later(f, T)) BY <1>1, FS_Subset
<1>3. IsFiniteSet(Later(f, S)) BY <1>1, <1>2, FS_Subset
<1>. QED BY <1>1, <1>2, <1>3, FS_Subset, FS_CardinalityType

\* SavePendingState: a state it drops is dead, or has PendingCap later ones.
LEMMA SavedKeepsState ==
  ASSUME TypeOK, Ordered, NEW x \in State, x.stamp = Cardinality(begun) + 1,
         pending' = Saved(x), begun' = begun \cup {x}, horizon' = horizon,
         NEW f \in Flow, HasState(f)
  PROVE  Live(f) => \/ StateOf(f) \in pending'
                    \/ Cardinality(Later(f, begun')) >= PendingCap
<1> DEFINE s == StateOf(f)
           kept == {y \in SameManager(x, pending) : Live(y)}
           later == (kept \ {s}) \cup {x}
<1>. SUFFICES ASSUME Live(f), s \notin pending'
     PROVE  Cardinality(Later(f, begun')) >= PendingCap
  OBVIOUS
<1>1. IsFiniteSet(begun') /\ begun \subseteq begun' BY AddIsOrdered
<1>2. CASE Cardinality(Later(f, begun)) >= PendingCap
  BY <1>1, <1>2, LaterGrows, ConstantsAssumption
<1>3. CASE s \in pending
  <2>1. s \in kept
    BY <1>3 DEF Saved, SameManager, Live, StateOf
  <2>2. Cardinality(kept) >= PendingCap /\ s \in Oldest(kept)
    <3>. DEFINE full == Cardinality(kept) >= PendingCap
    <3>1. pending' = (pending \ SameManager(x, pending)) \cup {x}
                        \cup (IF full THEN kept \ Oldest(kept) ELSE kept)
      BY DEF Saved
    <3>. HIDE DEF kept, full, s
    <3>2. full BY <2>1, <3>1
    <3>3. s \in Oldest(kept) BY <2>1, <3>1
    <3>. QED BY <3>2, <3>3 DEF full
  <2>3. kept \subseteq begun /\ s \in begun BY <1>3 DEF TypeOK, SameManager
  <2>4. IsFiniteSet(kept) /\ x \notin kept
    BY <2>3, NextIsNew, FS_Subset DEF TypeOK
  <2>5. IsFiniteSet(later) /\ Cardinality(later) = Cardinality(kept)
    <3>. HIDE DEF kept, s
    <3>1. IsFiniteSet(kept \ {s}) /\ Cardinality(kept \ {s}) = Cardinality(kept) - 1
      BY <2>1, <2>4, FS_RemoveElement
    <3>2. Cardinality(kept) \in Nat BY <2>4, FS_CardinalityType
    <3>3. /\ IsFiniteSet((kept \ {s}) \cup {x})
          /\ Cardinality((kept \ {s}) \cup {x}) = Cardinality(kept \ {s}) + 1
      BY <2>4, <3>1, FS_AddElement
    <3>. QED BY <3>1, <3>2, <3>3
  <2>6. later \subseteq Later(f, begun')
    <3>. SUFFICES ASSUME NEW y \in later
         PROVE  y \in begun' /\ y.ws = f.ws /\ y.manager = f.manager /\ y.stamp > f.stamp
      BY DEF Later, SameManager
    <3>0. s.stamp = f.stamp /\ s.ws = f.ws /\ s.manager = f.manager BY DEF StateOf
    <3>1. x.ws = f.ws /\ x.manager = f.manager BY <2>1, <3>0 DEF SameManager
    <3>2. s.stamp <= Cardinality(begun) /\ s.stamp \in Nat /\ Cardinality(begun) \in Nat
      BY <2>3, NextIsNew DEF Ordered
    <3>3. CASE y = x BY <3>0, <3>1, <3>2, <3>3
    <3>4. CASE y \in kept /\ y # s
      <4>1. y \in begun /\ y.ws = x.ws /\ y.manager = x.manager
        BY <2>3, <3>4 DEF SameManager
      <4>2. s.stamp <= y.stamp BY <2>2, <3>4 DEF Oldest
      <4>3. s.stamp # y.stamp BY <2>3, <3>4, <4>1 DEF Ordered
      <4>4. y.stamp \in Nat BY <4>1, NextIsNew
      <4>. QED BY <1>1, <3>0, <3>1, <3>2, <4>1, <4>2, <4>3, <4>4
    <3>. QED BY <3>3, <3>4
  <2>7. IsFiniteSet(Later(f, begun')) BY <1>1, FS_Subset DEF Later, SameManager
  <2>8. Cardinality(later) <= Cardinality(Later(f, begun'))
    BY <2>6, <2>7, FS_Subset
  <2>9. /\ Cardinality(later) \in Nat /\ Cardinality(Later(f, begun')) \in Nat
    BY <2>5, <2>7, FS_CardinalityType
  <2>. QED BY <2>2, <2>5, <2>8, <2>9, ConstantsAssumption
<1>. QED BY <1>2, <1>3 DEF HasState

\* Registering adds one flow, and drops others.
LEMMA RegisteredAdds ==
  ASSUME NEW f PROVE Registered(f) \subseteq flows \cup {f} /\ f \in Registered(f)
  BY DEF Registered

-----------------------------------------------------------------------------
(* The actions. *)

\* The facts that the steps which begin nothing and save nothing leave alone.
LEMMA SameStates ==
  ASSUME Ordered, begun' = begun
  PROVE  Ordered'
  BY DEF Ordered

LEMMA TakeManagerStep ==
  ASSUME FInv, NEW c \in Clients, NEW w \in Workspaces, TakeManager(c, w)
  PROVE  FInv'
<1> USE DEF FInv, TakeManager, Goes
<1>1. TypeOK' BY ConstantsAssumption DEF TypeOK, Flow, Epochs
<1>2. Ordered' BY SameStates
<1>3. Once' BY DEF Once, Holding, TypeOK, StateOf
<1>4. Backed'
  BY DEF Backed, HasState, TypeOK, Live, StateOf, Later, SameManager
<1>. QED BY <1>1, <1>2, <1>3, <1>4

LEMMA ReadEpochStep ==
  ASSUME FInv, NEW c \in Clients, ReadEpoch(c)
  PROVE  FInv'
<1> USE DEF FInv, ReadEpoch, Goes
<1>1. TypeOK'
  <2>1. [work[c] EXCEPT !.epoch = epoch[work[c].ws]] \in Flow
    BY DEF TypeOK, Flow
  <2>. QED BY <2>1 DEF TypeOK
<1>2. Ordered' BY SameStates
<1>3. Once' BY DEF Once, Holding, TypeOK, StateOf
<1>4. Backed'
  BY DEF Backed, HasState, TypeOK, Live, StateOf, Later, SameManager
<1>. QED BY <1>1, <1>2, <1>3, <1>4

LEMMA BeginStateStep ==
  ASSUME FInv, NEW c \in Clients, BeginState(c)
  PROVE  FInv'
<1> DEFINE stamp == Cardinality(begun) + 1
<1>. PICK f : f = [work[c] EXCEPT !.stamp = stamp] OBVIOUS
<1>. PICK x : x = StateOf(f) OBVIOUS
<1>1. /\ pc[c] = "begin" /\ stamp <= MaxStarts
      /\ pending' = Saved(x) /\ begun' = begun \cup {x}
      /\ pc' = [pc EXCEPT ![c] = "register"] /\ work' = [work EXCEPT ![c] = f]
      /\ UNCHANGED <<epoch, flows, horizon>>
  BY DEF BeginState, Goes
<1>2. f \in Flow /\ f.stamp = stamp /\ stamp \in Nat \ {0}
  BY <1>1, NextIsNew, ConstantsAssumption DEF FInv, TypeOK, Flow
<1>3. x \in State /\ x.stamp = stamp
  BY <1>1, <1>2, ConstantsAssumption DEF Flow, State, StateOf, Stamps
<1>4. Ordered' /\ IsFiniteSet(begun')
  BY <1>1, <1>3, AddIsOrdered DEF FInv
<1>5. TypeOK'
  <2>1. pending' \subseteq begun'
    BY <1>1, SavedIsBegun DEF FInv, TypeOK
  <2>. QED BY <1>1, <1>2, <1>3, <1>4, <2>1 DEF FInv, TypeOK
<1>6. Once'
  <2>1. \A g \in flows : g.stamp # stamp
    BY NextIsNew DEF FInv, Once, StateOf
  <2>2. \A d \in Clients : pc[d] \in Holding => work[d].stamp # stamp
    BY NextIsNew DEF FInv, Once, StateOf
  <2>3. work'[c] = f /\ \A d \in Clients \ {c} : work'[d] = work[d] /\ pc'[d] = pc[d]
    BY <1>1 DEF FInv, TypeOK
  <2>4. StateOf(work'[c]) \in begun' /\ work'[c].stamp = stamp
    <3>1. x \in begun' BY <1>1
    <3>2. StateOf(work'[c]) = x BY <2>3
    <3>3. work'[c].stamp = stamp BY <1>2, <2>3
    <3>. QED BY <3>1, <3>2, <3>3
  <2>. HIDE DEF stamp
  <2>5. ASSUME NEW d \in Clients, pc'[d] \in Holding
        PROVE  StateOf(work'[d]) \in begun' /\ \A g \in flows : g.stamp # work'[d].stamp
    <3>1. CASE d = c BY <2>1, <2>4, <3>1
    <3>2. CASE d # c BY <1>1, <2>3, <2>5, <3>2 DEF FInv, Once
    <3>. QED BY <3>1, <3>2
  <2>6. ASSUME NEW d \in Clients, NEW e \in Clients,
               pc'[d] \in Holding, pc'[e] \in Holding, work'[d].stamp = work'[e].stamp
        PROVE  d = e
    <3>1. CASE d = c \/ e = c BY <2>2, <2>3, <2>4, <2>6, <3>1
    <3>2. CASE d # c /\ e # c BY <2>3, <2>6, <3>2 DEF FInv, Once
    <3>. QED BY <3>1, <3>2
  <2>. QED BY <1>1, <2>5, <2>6 DEF FInv, Once, StateOf
<1>7. Backed'
  <2>1. \A g \in Flow : HasState(g) => HasState(g)'
    <3>. SUFFICES ASSUME NEW g \in Flow, HasState(g) PROVE HasState(g)'
      OBVIOUS
    <3>1. Live(g) => \/ StateOf(g) \in pending'
                     \/ Cardinality(Later(g, begun')) >= PendingCap
      BY <1>1, <1>3, SavedKeepsState DEF FInv
    <3>. QED BY <1>1, <3>1 DEF HasState, Live, StateOf, Later, SameManager
  <2>2. HasState(f)'
    <3>1. StateOf(f) \in pending' BY <1>1 DEF Saved
    <3>. QED BY <3>1 DEF HasState, StateOf
  <2>. QED BY <1>1, <2>1, <2>2 DEF FInv, TypeOK, Backed
<1>. QED BY <1>4, <1>5, <1>6, <1>7 DEF FInv

LEMMA RegisterFlowStep ==
  ASSUME FInv, NEW c \in Clients, RegisterFlow(c)
  PROVE  FInv'
<1>1. /\ pc[c] = "register" /\ work[c] \in Flow
      /\ flows' \subseteq flows \cup {work[c]}
      /\ pc' = [pc EXCEPT ![c] = "idle"] /\ work' = [work EXCEPT ![c] = NoFlow]
      /\ UNCHANGED <<epoch, pending, begun, horizon>>
  BY RegisteredAdds DEF RegisterFlow, Goes, FInv, TypeOK
<1>2. IsFiniteSet(flows')
  BY <1>1, FS_AddElement, FS_Subset DEF FInv, TypeOK
<1>3. TypeOK' BY <1>1, <1>2 DEF FInv, TypeOK
<1>4. Ordered' BY <1>1, SameStates DEF FInv
<1>5. Once' BY <1>1 DEF FInv, TypeOK, Once, Holding, StateOf
<1>6. Backed'
  BY <1>1 DEF FInv, TypeOK, Backed, HasState, Live, StateOf, Later, SameManager
<1>. QED BY <1>3, <1>4, <1>5, <1>6 DEF FInv

LEMMA CallbackStep ==
  ASSUME FInv, NEW c \in Clients, NEW f \in flows, Callback(c, f)
  PROVE  FInv'
<1>1. /\ pc[c] = "idle" /\ flows' = flows \ {f} /\ f \in Flow
      /\ \/ pc' = [pc EXCEPT ![c] = "consume"] /\ work' = [work EXCEPT ![c] = f]
         \/ UNCHANGED <<pc, work>>
      /\ UNCHANGED <<epoch, pending, begun, horizon>>
  BY DEF Callback, Goes, FInv, TypeOK
<1>2. IsFiniteSet(flows')
  BY <1>1, FS_RemoveElement DEF FInv, TypeOK
<1>3. TypeOK' BY <1>1, <1>2 DEF FInv, TypeOK
<1>4. Ordered' BY <1>1, SameStates DEF FInv
<1>5. Once'
  <2>1. CASE UNCHANGED <<pc, work>> BY <1>1, <2>1 DEF FInv, Once, StateOf
  <2>2. CASE pc' = [pc EXCEPT ![c] = "consume"] /\ work' = [work EXCEPT ![c] = f]
    <3>1. /\ work'[c] = f
          /\ \A d \in Clients \ {c} : work'[d] = work[d] /\ pc'[d] = pc[d]
      BY <2>2 DEF FInv, TypeOK
    <3>2. \A g \in flows' : g.stamp # f.stamp BY <1>1 DEF FInv, Once
    <3>3. \A d \in Clients : pc'[d] \in Holding =>
            StateOf(work'[d]) \in begun /\ \A g \in flows' : g.stamp # work'[d].stamp
      BY <1>1, <3>1, <3>2 DEF FInv, Once
    <3>4. \A d \in Clients \ {c} : pc'[d] \in Holding => work'[d].stamp # f.stamp
      BY <3>1 DEF FInv, Once
    <3>5. \A d, e \in Clients :
            pc'[d] \in Holding /\ pc'[e] \in Holding /\ work'[d].stamp = work'[e].stamp
              => d = e
      BY <3>1, <3>4 DEF FInv, Once
    <3>. QED BY <1>1, <3>3, <3>5 DEF FInv, Once, StateOf
  <2>. QED BY <1>1, <2>1, <2>2
<1>6. Backed'
  BY <1>1 DEF FInv, TypeOK, Backed, HasState, Live, StateOf, Later, SameManager
<1>. QED BY <1>3, <1>4, <1>5, <1>6 DEF FInv

\* The state that is consumed is no other flow's.
LEMMA ConsumeStep ==
  ASSUME FInv, NEW c \in Clients, Consume(c)
  PROVE  FInv'
<1>1. /\ pc[c] = "consume" /\ work[c] \in Flow
      /\ pending' \subseteq pending /\ pending \ {StateOf(work[c])} \subseteq pending'
      /\ pc' = [pc EXCEPT ![c] = "idle"] /\ work' = [work EXCEPT ![c] = NoFlow]
      /\ UNCHANGED <<epoch, flows, begun, horizon>>
  BY DEF Consume, Goes, FInv, TypeOK
<1>3. TypeOK' BY <1>1 DEF FInv, TypeOK
<1>4. Ordered' BY <1>1, SameStates DEF FInv
<1>5. Once' BY <1>1 DEF FInv, TypeOK, Once, Holding, StateOf
<1>6. Backed'
  <2>1. \A g : g.stamp # work[c].stamp => (HasState(g) => HasState(g)')
    BY <1>1 DEF HasState, Live, StateOf, Later, SameManager
  <2>2. \A g \in flows : g.stamp # work[c].stamp
    BY <1>1 DEF FInv, Once, Holding
  <2>3. \A d \in Clients : pc[d] = "register" => work[d].stamp # work[c].stamp
    BY <1>1 DEF FInv, Once, Holding
  <2>4. \A d \in Clients : pc'[d] = "register" => pc[d] = "register" /\ work'[d] = work[d]
    BY <1>1 DEF FInv, TypeOK
  <2>. QED BY <1>1, <2>1, <2>2, <2>3, <2>4 DEF FInv, Backed
<1>. QED BY <1>3, <1>4, <1>5, <1>6 DEF FInv

LEMMA InvalidateStep ==
  ASSUME FInv, NEW w \in Workspaces, Invalidate(w)
  PROVE  FInv'
<1>1. /\ epoch' \in [Workspaces -> Epochs] /\ flows' \subseteq flows
      /\ UNCHANGED <<pending, pc, work, begun, horizon>>
  BY ConstantsAssumption DEF Invalidate, FInv, TypeOK, Epochs
<1>2. IsFiniteSet(flows') BY <1>1, FS_Subset DEF FInv, TypeOK
<1>3. TypeOK' BY <1>1, <1>2 DEF FInv, TypeOK
<1>4. Ordered' BY <1>1, SameStates DEF FInv
<1>5. Once' BY <1>1 DEF FInv, Once
<1>6. Backed'
  BY <1>1 DEF FInv, Backed, HasState, Live, StateOf, Later, SameManager
<1>. QED BY <1>3, <1>4, <1>5, <1>6 DEF FInv

LEMMA TimePassesStep ==
  ASSUME FInv, TimePasses
  PROVE  FInv'
<1>1. /\ horizon' = horizon + 1 /\ horizon \in Nat
      /\ UNCHANGED <<epoch, pending, flows, pc, work, begun>>
  BY DEF TimePasses, FInv, TypeOK
<1>3. TypeOK' BY <1>1 DEF FInv, TypeOK
<1>4. Ordered' BY <1>1, SameStates DEF FInv
<1>5. Once' BY <1>1 DEF FInv, Once
<1>6. Backed'
  <2>1. \A f \in Flow : HasState(f) => HasState(f)'
    BY <1>1, ConstantsAssumption
    DEF HasState, Live, StateOf, Later, SameManager, Flow
  <2>. QED BY <1>1, <2>1 DEF FInv, TypeOK, Backed
<1>. QED BY <1>3, <1>4, <1>5, <1>6 DEF FInv

LEMMA FInvHolds == Spec => []FInv
<1>1. Init => FInv
  <2>. SUFFICES ASSUME Init PROVE FInv OBVIOUS
  <2>1. IsFiniteSet({}) BY FS_EmptySet
  <2>. QED BY <2>1, ConstantsAssumption
    DEF Init, FInv, TypeOK, Ordered, Once, Backed, Holding, Epochs
<1>2. FInv /\ [Next]_vars => FInv'
  <2>. SUFFICES ASSUME FInv, [Next]_vars PROVE FInv' OBVIOUS
  <2>1. CASE UNCHANGED vars
    BY <2>1 DEF vars, FInv, TypeOK, Ordered, Once, Backed, HasState, Live,
      StateOf, Later, SameManager
  <2>2. CASE \E c \in Clients :
               \/ \E w \in Workspaces : TakeManager(c, w)
               \/ ReadEpoch(c) \/ BeginState(c) \/ RegisterFlow(c)
               \/ \E f \in flows : Callback(c, f)
               \/ Consume(c)
    BY <2>2, TakeManagerStep, ReadEpochStep, BeginStateStep, RegisterFlowStep,
      CallbackStep, ConsumeStep
  <2>3. CASE (\E w \in Workspaces : Invalidate(w)) \/ TimePasses
    BY <2>3, InvalidateStep, TimePassesStep
  <2>. QED BY <2>1, <2>2, <2>3 DEF Next
<1>. QED BY <1>1, <1>2, PTL DEF Spec

-----------------------------------------------------------------------------
(* What a run checks on a small instance. *)

\* A flow the resolver still accepts has its state, unless PendingCap later
\* starts of its manager pushed it out.
THEOREM FlowsHaveStates == Spec => []FlowHasState
<1>1. FInv => FlowHasState
  BY DEF FInv, Backed, HasState, FlowHasState, Later
<1>. QED BY <1>1, FInvHolds, PTL

\* Of two callbacks of one state at most one gets to the manager.
THEOREM CallbacksAreSingle == Spec => []OneCallbackPerState
<1>1. FInv => OneCallbackPerState
  BY DEF FInv, Once, Holding, OneCallbackPerState
<1>. QED BY <1>1, FInvHolds, PTL

\* No flow is lost but by its callback, its workspace's invalidation, its age
\* or as the oldest of its own workspace's full table.
THEOREM FlowsAreKept == Spec => NoFlowLost
<1> DEFINE Left(f) == \/ ~Live(f) \/ epoch'[f.ws] # epoch[f.ws]
                      \/ CrowdedOut(f)
                      \/ flows' = flows \ {f}
<1>1. FInv /\ [Next]_vars => [\A f \in flows \ flows' : Left(f)]_vars
  <2>. SUFFICES ASSUME FInv, Next, NEW f \in flows \ flows' PROVE Left(f)
    OBVIOUS
  <2>1. CASE \E c \in Clients : RegisterFlow(c)
    <3>. PICK c \in Clients : RegisterFlow(c) BY <2>1
    <3>. DEFINE kept == {g \in flows : Live(g)}
                own == OfWorkspace(work[c].ws, kept)
    <3>. SUFFICES ASSUME Live(f) PROVE CrowdedOut(f) OBVIOUS
    <3>1. pc[c] = "register" /\ flows' = Registered(work[c])
      BY DEF RegisterFlow
    <3>2. f \in kept OBVIOUS
    <3>3. Cardinality(own) >= FlowCap /\ f \in Oldest(own)
      <4>. DEFINE full == Cardinality(own) >= FlowCap
      <4>1. flows' = {work[c]} \cup (IF full THEN kept \ Oldest(own) ELSE kept)
        BY <3>1 DEF Registered
      <4>. HIDE DEF kept, own, full
      <4>2. full BY <3>2, <4>1
      <4>3. f \in Oldest(own) BY <3>2, <4>1
      <4>. QED BY <4>2, <4>3 DEF full
    <3>4. f.ws = work[c].ws BY <3>3 DEF Oldest, OfWorkspace
    <3>5. \A g \in OfWorkspace(f.ws, flows) : Live(g) => f.stamp <= g.stamp
      BY <3>3, <3>4 DEF Oldest, OfWorkspace
    <3>6. Cardinality(OfWorkspace(f.ws, flows)) >= FlowCap
      <4>1. own \subseteq OfWorkspace(f.ws, flows)
        BY <3>4 DEF OfWorkspace
      <4>2. IsFiniteSet(OfWorkspace(f.ws, flows))
        BY FS_Subset DEF OfWorkspace, FInv, TypeOK
      <4>. HIDE DEF own
      <4>3. Cardinality(own) <= Cardinality(OfWorkspace(f.ws, flows)) /\ IsFiniteSet(own)
        BY <4>1, <4>2, FS_Subset
      <4>4. Cardinality(own) \in Nat /\ Cardinality(OfWorkspace(f.ws, flows)) \in Nat
        BY <4>2, <4>3, FS_CardinalityType
      <4>. QED BY <3>3, <4>3, <4>4, ConstantsAssumption
    <3>7. work[c] \in flows' \ flows
      BY <3>1, RegisteredAdds DEF FInv, Once, Holding
    <3>. QED BY <3>4, <3>5, <3>6, <3>7 DEF CrowdedOut
  <2>2. CASE \E w \in Workspaces : Invalidate(w)
    <3>. PICK w \in Workspaces : Invalidate(w) BY <2>2
    <3>1. f.ws = w BY DEF Invalidate, OfWorkspace
    <3>2. epoch'[w] = epoch[w] + 1 /\ epoch[w] \in Nat
      BY DEF Invalidate, FInv, TypeOK, Epochs
    <3>. QED BY <3>1, <3>2
  <2>3. CASE \E c \in Clients, g \in flows : Callback(c, g)
    BY <2>3 DEF Callback
  <2>4. CASE flows' = flows BY <2>4
  <2>. QED BY <2>1, <2>2, <2>3, <2>4
    DEF Next, TakeManager, ReadEpoch, BeginState, Consume, TimePasses
<1>. QED BY <1>1, FInvHolds, PTL DEF Spec, NoFlowLost
=============================================================================
