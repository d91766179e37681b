-------------------------- MODULE KeyedMutexProofs --------------------------
(***************************************************************************)
(* Proofs about KeyedMutex for any goroutines, workspaces and entries.     *)
(***************************************************************************)
EXTENDS KeyedMutex, FiniteSetTheorems, TLAPS

Users(e) == {g \in Goroutines : entry[g] = e}

\* A goroutine between its two table blocks works on the entry of its key.
Registered ==
  \A g \in Goroutines :
    /\ at[g] = "outside" <=> key[g] = NoKey
    /\ at[g] = "outside" <=> entry[g] = NoEntry
    /\ at[g] # "outside" => locks[key[g]] = entry[g]

\* Two keys never share an entry.
Separate ==
  \A k, l \in Keys : locks[k] = locks[l] /\ locks[k] # NoEntry => k = l

\* The mutex of an entry is held by the goroutine inside its section.
HeldInside ==
  \A g \in Goroutines, e \in Entries :
    held[e] = g <=> at[g] = "inside" /\ entry[g] = e

\* An entry counts its users, and the table keeps only entries in use.
Counted == \A e \in Entries : refs[e] = Cardinality(Users(e))

KMInv ==
  /\ TypeOK /\ Registered /\ Separate
  /\ HeldInside /\ Counted /\ TableIsExact

-----------------------------------------------------------------------------

LEMMA UsersFinite ==
  ASSUME NEW e
  PROVE  /\ IsFiniteSet(Users(e))
         /\ Cardinality(Users(e)) \in Nat
         /\ Cardinality(Users(e)) = 0 <=> Users(e) = {}
<1>1. Users(e) \in SUBSET Goroutines
  BY DEF Users
<1>2. IsFiniteSet(Users(e))
  BY <1>1, FS_Subset, KeyedMutexAssumption
<1>. QED
  BY <1>2, FS_CardinalityType, FS_EmptySet

LEMMA InitKMInv == Init => KMInv
<1>. SUFFICES ASSUME Init PROVE KMInv
  OBVIOUS
<1>. USE KeyedMutexAssumption DEF Init
<1>1. TypeOK
  BY DEF TypeOK
<1>2. Registered /\ Separate /\ HeldInside /\ TableIsExact
  BY DEF Registered, Separate, HeldInside, TableIsExact
<1>3. Counted
  <2>1. \A e \in Entries : Users(e) = {}
    BY DEF Users
  <2>. QED
    BY <2>1, FS_EmptySet DEF Counted
<1>. QED
  BY <1>1, <1>2, <1>3 DEF KMInv

LEMMA RegisterKMInv ==
  ASSUME KMInv, NEW g \in Goroutines, NEW k \in Keys, Register(g, k)
  PROVE  KMInv'
<1>. USE KeyedMutexAssumption DEF KMInv
<1>1. PICK e \in Entries :
        /\ entry' = [entry EXCEPT ![g] = e]
        /\ locks' = [locks EXCEPT ![k] = e]
        /\ \A l \in Keys : l # k => locks[l] # e
        /\ \/ locks[k] = e /\ refs' = [refs EXCEPT ![e] = @ + 1]
           \/ /\ locks[k] = NoEntry /\ refs' = [refs EXCEPT ![e] = 1]
              /\ Users(e) = {}
  <2>1. CASE locks[k] = NoEntry
    BY <2>1 DEF Register, FreshEntries, Users, TypeOK
  <2>2. CASE locks[k] # NoEntry
    BY <2>2 DEF Register, TypeOK, Separate
  <2>. QED
    BY <2>1, <2>2
<1>2. /\ at[g] = "outside" /\ at' = [at EXCEPT ![g] = "waiting"]
      /\ key' = [key EXCEPT ![g] = k] /\ held' = held
  BY DEF Register
<1>3. Users(e)' = Users(e) \cup {g} /\ g \notin Users(e)
  BY <1>1, <1>2 DEF Users, Registered, TypeOK
<1>4. \A d \in Entries : d # e => Users(d)' = Users(d)
  BY <1>1, <1>2 DEF Users, Registered, TypeOK
<1>5. Cardinality(Users(e)') = Cardinality(Users(e)) + 1
  BY <1>3, FS_AddElement, UsersFinite
<1>6. /\ refs'[e] = Cardinality(Users(e)')
      /\ \A d \in Entries : d # e => refs'[d] = refs[d]
  BY <1>1, <1>5, UsersFinite, FS_EmptySet DEF Counted, TypeOK
<1>7. TypeOK'
  BY <1>1, <1>2, UsersFinite DEF TypeOK, Counted
<1>8. Registered'
  BY <1>1, <1>2 DEF Registered, TypeOK
<1>9. Separate'
  BY <1>1, <1>2 DEF Separate, TypeOK
<1>10. HeldInside'
  BY <1>1, <1>2 DEF HeldInside, Registered, TypeOK
<1>11. Counted'
  BY <1>4, <1>6 DEF Counted
<1>12. TableIsExact'
  BY <1>1, <1>2 DEF TableIsExact, Registered, TypeOK
<1>. QED
  BY <1>7, <1>8, <1>9, <1>10, <1>11, <1>12

LEMMA AcquireKMInv ==
  ASSUME KMInv, NEW g \in Goroutines, Acquire(g)
  PROVE  KMInv'
<1>. USE KeyedMutexAssumption DEF KMInv, Acquire
<1>1. entry[g] \in Entries
  BY DEF Registered, TypeOK
<1>2. TypeOK' /\ Registered' /\ Separate' /\ HeldInside' /\ TableIsExact'
  BY <1>1 DEF TypeOK, Registered, Separate, HeldInside, TableIsExact
<1>3. Counted'
  BY DEF Counted, Users
<1>. QED
  BY <1>2, <1>3

LEMMA UnlockKMInv ==
  ASSUME KMInv, NEW g \in Goroutines, Unlock(g)
  PROVE  KMInv'
<1>. USE KeyedMutexAssumption DEF KMInv, Unlock
<1>1. entry[g] \in Entries /\ held[entry[g]] = g
  BY DEF Registered, TypeOK, HeldInside
<1>2. TypeOK' /\ Registered' /\ Separate' /\ HeldInside' /\ TableIsExact'
  BY <1>1 DEF TypeOK, Registered, Separate, HeldInside, TableIsExact
<1>3. Counted'
  BY DEF Counted, Users
<1>. QED
  BY <1>2, <1>3

LEMMA DeregisterKMInv ==
  ASSUME KMInv, NEW g \in Goroutines, Deregister(g)
  PROVE  KMInv'
<1>. USE KeyedMutexAssumption DEF KMInv
<1>1. PICK e \in Entries, k \in Keys :
        /\ e = entry[g] /\ k = key[g] /\ locks[k] = e
        /\ at[g] = "leaving" /\ g \in Users(e)
  BY DEF Deregister, Registered, TypeOK, Users
<1>2. /\ refs' = [refs EXCEPT ![e] = @ - 1]
      /\ at' = [at EXCEPT ![g] = "outside"]
      /\ key' = [key EXCEPT ![g] = NoKey]
      /\ entry' = [entry EXCEPT ![g] = NoEntry]
      /\ held' = held
      /\ locks' = IF refs'[e] = 0 THEN [locks EXCEPT ![k] = NoEntry] ELSE locks
  BY <1>1 DEF Deregister
<1>3. /\ Users(e)' = Users(e) \ {g}
      /\ \A d \in Entries : d # e => Users(d)' = Users(d)
  BY <1>1, <1>2 DEF Users, TypeOK
<1>4. /\ Cardinality(Users(e)') = Cardinality(Users(e)) - 1
      /\ Cardinality(Users(e)') \in Nat
      /\ Cardinality(Users(e)') = 0 <=> Users(e)' = {}
  BY <1>1, <1>3, FS_RemoveElement, FS_CardinalityType, FS_EmptySet, UsersFinite
<1>5. /\ refs'[e] = Cardinality(Users(e)')
      /\ \A d \in Entries : d # e => refs'[d] = refs[d]
  BY <1>1, <1>2, <1>4 DEF Counted, TypeOK
<1>6. \/ /\ Users(e)' = {} /\ locks' = [locks EXCEPT ![k] = NoEntry]
      \/ /\ Users(e)' # {} /\ locks' = locks
  BY <1>2, <1>4, <1>5
<1>7. \A h \in Goroutines : h # g /\ key[h] = k => h \in Users(e)'
  BY <1>1, <1>3 DEF Registered, Users
<1>8. TypeOK'
  BY <1>1, <1>2, <1>4, <1>5, <1>6 DEF TypeOK
<1>9. Registered'
  BY <1>1, <1>2, <1>6, <1>7 DEF Registered, TypeOK
<1>10. Separate'
  BY <1>1, <1>6 DEF Separate, TypeOK
<1>11. HeldInside'
  BY <1>1, <1>2 DEF HeldInside, TypeOK
<1>12. Counted'
  BY <1>3, <1>5 DEF Counted
<1>13. TableIsExact'
  <2>1. CASE Users(e)' = {}
    BY <1>1, <1>2, <1>6, <1>7, <2>1 DEF TableIsExact, TypeOK
  <2>2. CASE Users(e)' # {}
    <3>1. PICK h \in Goroutines : h # g /\ entry[h] = e
      BY <1>3, <2>2 DEF Users
    <3>2. key[h] = k
      BY <1>1, <3>1 DEF Registered, Separate, TypeOK
    <3>. QED
      BY <1>1, <1>2, <1>6, <2>2, <3>1, <3>2 DEF TableIsExact, TypeOK
  <2>. QED
    BY <2>1, <2>2
<1>. QED
  BY <1>8, <1>9, <1>10, <1>11, <1>12, <1>13

\* KMInv is inductive.
THEOREM KMInvariant == Spec => []KMInv
<1>1. KMInv /\ [Next]_vars => KMInv'
  <2>. SUFFICES ASSUME KMInv, [Next]_vars PROVE KMInv'
    OBVIOUS
  <2>1. CASE UNCHANGED vars
    <3>1. \A e : Users(e)' = Users(e)
      BY <2>1 DEF vars, Users
    <3>. QED
      BY <2>1, <3>1 DEF vars, KMInv, TypeOK, Registered, Separate, HeldInside,
                        Counted, TableIsExact
  <2>2. CASE Next
    BY <2>2, RegisterKMInv, AcquireKMInv, UnlockKMInv, DeregisterKMInv
       DEF Next, Goroutine
  <2>. QED
    BY <2>1, <2>2
<1>. QED
  BY InitKMInv, <1>1, PTL DEF Spec

\* Two goroutines inside the section of one workspace hold the mutex of the
\* same entry, so they are one.
LEMMA KMInvExcludes == KMInv => MutualExclusion
<1>. SUFFICES ASSUME KMInv, NEW g \in Goroutines, NEW h \in Goroutines,
                     at[g] = "inside", at[h] = "inside", key[g] = key[h]
              PROVE  g = h
  BY DEF MutualExclusion
<1>1. entry[g] = entry[h] /\ entry[g] \in Entries
  BY DEF KMInv, Registered, TypeOK
<1>. QED
  BY <1>1 DEF KMInv, HeldInside

\* keyedMutex.lock: operations on one workspace never overlap, for any number
\* of callers and workspaces.
THEOREM MutexSafe == Spec => [](TypeOK /\ MutualExclusion)
<1>1. KMInv => TypeOK /\ MutualExclusion
  BY KMInvExcludes DEF KMInv
<1>. QED
  BY KMInvariant, <1>1, PTL

\* The table has an entry for exactly the keys in use (register, deregister): none
\* leaks, and none is removed while a caller waits on it.
THEOREM TableExact == Spec => []TableIsExact
<1>1. KMInv => TableIsExact
  BY KMInvExcludes DEF KMInv
<1>. QED
  BY KMInvariant, <1>1, PTL

-----------------------------------------------------------------------------
(* The keyed mutex implements one lock for each workspace. *)

LEMMA OneOfValues == OneOf({}) = Nobody /\ \A g : OneOf({g}) = g
  BY DEF OneOf

LEMMA OwnerValues ==
  ASSUME NEW k \in Keys
  PROVE  Owner[k] = OneOf(Inside(k)) /\ Owner'[k] = OneOf(Inside(k)')
  BY DEF Owner

LEMMA RegisterAsks ==
  ASSUME KMInv, NEW g \in Goroutines, NEW k \in Keys, Register(g, k)
  PROVE  Lock!Ask(g, k)
<1>1. /\ at[g] = "outside" /\ at' = [at EXCEPT ![g] = "waiting"]
      /\ key' = [key EXCEPT ![g] = k]
  BY DEF Register
<1>2. \A l \in Keys : Inside(l)' = Inside(l)
  BY <1>1 DEF Inside, KMInv, TypeOK
<1>3. Owner' = Owner
  BY <1>2 DEF Owner
<1>4. Wants[g] = {} /\ Wants' = [Wants EXCEPT ![g] = {k}]
  BY <1>1 DEF Wants, KMInv, TypeOK
<1>. QED
  BY <1>3, <1>4 DEF Lock!Ask

LEMMA AcquireEnters ==
  ASSUME KMInv, NEW g \in Goroutines, NEW k \in Keys, key[g] = k, Acquire(g)
  PROVE  Lock!Enter(g, k)
<1>1. /\ at[g] = "waiting" /\ at' = [at EXCEPT ![g] = "inside"] /\ key' = key
      /\ entry[g] = locks[k] /\ entry[g] \in Entries /\ held[entry[g]] = Nobody
  BY DEF Acquire, KMInv, Registered, TypeOK
<1>2. Inside(k) = {} /\ Inside(k)' = {g}
  BY <1>1, KeyedMutexAssumption
     DEF Inside, KMInv, Registered, HeldInside, TypeOK
<1>3. \A l \in Keys : l # k => Inside(l)' = Inside(l)
  BY <1>1 DEF Inside, KMInv, TypeOK
<1>4. Owner[k] = Nobody /\ Owner' = [Owner EXCEPT ![k] = g]
  <2>1. Owner[k] = Nobody /\ Owner'[k] = g
    BY <1>2, OwnerValues, OneOfValues
  <2>2. \A l \in Keys : l # k => Owner'[l] = Owner[l]
    BY <1>3, OwnerValues
  <2>. QED
    BY <2>1, <2>2 DEF Owner
<1>5. Wants' = Wants /\ k \in Wants[g]
  BY <1>1 DEF Wants, KMInv, TypeOK
<1>. QED
  BY <1>4, <1>5 DEF Lock!Enter

LEMMA UnlockLeaves ==
  ASSUME KMInv, NEW g \in Goroutines, NEW k \in Keys, key[g] = k, Unlock(g)
  PROVE  Lock!Leave(g, k)
<1>1. at[g] = "inside" /\ at' = [at EXCEPT ![g] = "leaving"] /\ key' = key
  BY DEF Unlock
<1>2. \A h \in Goroutines : at[h] = "inside" /\ key[h] = k => h = g
  BY <1>1, KMInvExcludes DEF MutualExclusion
<1>3. Inside(k) = {g} /\ Inside(k)' = {}
  BY <1>1, <1>2 DEF Inside, KMInv, TypeOK
<1>4. \A l \in Keys : l # k => Inside(l)' = Inside(l)
  BY <1>1 DEF Inside, KMInv, TypeOK
<1>5. Owner[k] = g /\ Owner' = [Owner EXCEPT ![k] = Nobody]
  <2>1. Owner[k] = g /\ Owner'[k] = Nobody
    BY <1>3, OwnerValues, OneOfValues
  <2>2. \A l \in Keys : l # k => Owner'[l] = Owner[l]
    BY <1>4, OwnerValues
  <2>. QED
    BY <2>1, <2>2 DEF Owner
<1>6. Wants' = [Wants EXCEPT ![g] = {}]
  BY <1>1 DEF Wants, KMInv, TypeOK
<1>. QED
  BY <1>5, <1>6 DEF Lock!Leave

LEMMA DeregisterStutters ==
  ASSUME KMInv, NEW g \in Goroutines, Deregister(g)
  PROVE  Wants' = Wants /\ Owner' = Owner
<1>1. /\ at[g] = "leaving" /\ at' = [at EXCEPT ![g] = "outside"]
      /\ key' = [key EXCEPT ![g] = NoKey]
  BY DEF Deregister
<1>2. \A l \in Keys : Inside(l)' = Inside(l)
  BY <1>1 DEF Inside, KMInv, TypeOK
<1>3. Owner' = Owner
  BY <1>2 DEF Owner
<1>. QED
  BY <1>1, <1>3 DEF Wants, KMInv, TypeOK

\* Every step of keyedMutex is a step of the lock the service relies on, or
\* none: to its callers the table of counted mutexes is one lock a workspace.
THEOREM MutexImplementsLock == Spec => ImplementsLock
<1>1. Init => Lock!Init
  <2>. SUFFICES ASSUME Init PROVE Lock!Init
    OBVIOUS
  <2>1. \A k \in Keys : Inside(k) = {}
    BY DEF Init, Inside
  <2>2. Owner = [k \in Keys |-> Nobody]
    BY <2>1, OneOfValues DEF Owner
  <2>3. Wants = [g \in Goroutines |-> {}]
    BY DEF Init, Wants
  <2>. QED
    BY <2>2, <2>3 DEF Lock!Init
<1>2. KMInv /\ [Next]_vars => [Lock!Next]_<<Wants, Owner>>
  <2>. SUFFICES ASSUME KMInv, [Next]_vars
                PROVE  Lock!Next \/ (Wants' = Wants /\ Owner' = Owner)
    OBVIOUS
  <2>1. ASSUME NEW g \in Goroutines, NEW k \in Keys, Register(g, k)
        PROVE  Lock!Next
    BY <2>1, RegisterAsks DEF Lock!Next
  <2>2. ASSUME NEW g \in Goroutines, Acquire(g)
        PROVE  Lock!Next
    <3>1. PICK k \in Keys : key[g] = k
      BY <2>2 DEF Acquire, KMInv, Registered, TypeOK
    <3>2. Lock!Enter(g, k)
      BY <2>2, <3>1, AcquireEnters
    <3>. QED
      BY <3>2 DEF Lock!Next
  <2>3. ASSUME NEW g \in Goroutines, Unlock(g)
        PROVE  Lock!Next
    <3>1. PICK k \in Keys : key[g] = k
      BY <2>3 DEF Unlock, KMInv, Registered, TypeOK
    <3>2. Lock!Leave(g, k)
      BY <2>3, <3>1, UnlockLeaves
    <3>. QED
      BY <3>2 DEF Lock!Next
  <2>4. CASE UNCHANGED vars
    BY <2>4 DEF vars, Wants, Owner, Inside
  <2>. QED
    BY <2>1, <2>2, <2>3, <2>4, DeregisterStutters DEF Next, Goroutine
<1>. QED
  BY KMInvariant, <1>1, <1>2, PTL DEF Spec, ImplementsLock, Lock!Spec
=============================================================================
