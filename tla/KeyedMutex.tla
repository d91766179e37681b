----------------------------- MODULE KeyedMutex -----------------------------
(***************************************************************************)
(* The lock every operation of the watch service holds: keyedMutex of      *)
(* internal/watches/service.go, a table of reference-counted mutexes that  *)
(* forgets a key nobody uses.                                              *)
(*                                                                         *)
(* The table is read and written under its own mutex, which is never held  *)
(* while waiting: each such block is one step.                             *)
(*                                                                         *)
(* A definition marked "variant" is the one below it with a plausible      *)
(* mistake; no specification uses it: it shows that a property can fail.   *)
(***************************************************************************)
EXTENDS Integers, FiniteSets

CONSTANTS
  Goroutines,   \* callers of lock
  Keys,         \* workspaces
  Entries,      \* addresses of lock entries
  NoKey, NoEntry, Nobody

ASSUME KeyedMutexAssumption ==
  /\ IsFiniteSet(Goroutines)
  /\ NoKey \notin Keys /\ NoEntry \notin Entries /\ Nobody \notin Goroutines

VARIABLES
  locks,    \* the table: the entry of each key, or NoEntry
  refs,     \* the count of each entry
  held,     \* the goroutine that holds the mutex of each entry
  at,       \* where each goroutine is in lock or in the unlock it returned
  key,      \* the key it called lock with
  entry     \* the entry it works on

vars == <<locks, refs, held, at, key, entry>>

Init ==
  /\ locks = [k \in Keys |-> NoEntry]
  /\ refs = [e \in Entries |-> 0]
  /\ held = [e \in Entries |-> Nobody]
  /\ at = [g \in Goroutines |-> "outside"]
  /\ key = [g \in Goroutines |-> NoKey]
  /\ entry = [g \in Goroutines |-> NoEntry]

\* A new entry is one that neither the table nor a goroutine points to.
FreshEntries ==
  {e \in Entries : /\ \A k \in Keys : locks[k] # e
                   /\ \A g \in Goroutines : entry[g] # e}

\* The block under the table's mutex at the start of lock.
RegisterUncounted(g, k) ==   \* variant
  /\ at[g] = "outside"
  /\ \E e \in IF locks[k] = NoEntry THEN FreshEntries ELSE {locks[k]} :
       /\ locks' = [locks EXCEPT ![k] = e]
       /\ refs' = [refs EXCEPT ![e] = 1]
       /\ entry' = [entry EXCEPT ![g] = e]
  /\ at' = [at EXCEPT ![g] = "waiting"]
  /\ key' = [key EXCEPT ![g] = k]
  /\ UNCHANGED held

Register(g, k) ==
  /\ at[g] = "outside"
  /\ \/ /\ locks[k] = NoEntry
        /\ \E e \in FreshEntries :
             /\ locks' = [locks EXCEPT ![k] = e]
             /\ refs' = [refs EXCEPT ![e] = 1]
             /\ entry' = [entry EXCEPT ![g] = e]
     \/ /\ locks[k] # NoEntry
        /\ refs' = [refs EXCEPT ![locks[k]] = @ + 1]
        /\ entry' = [entry EXCEPT ![g] = locks[k]]
        /\ UNCHANGED locks
  /\ at' = [at EXCEPT ![g] = "waiting"]
  /\ key' = [key EXCEPT ![g] = k]
  /\ UNCHANGED held

\* entry.mu.Lock() returns.
Acquire(g) ==
  /\ at[g] = "waiting" /\ held[entry[g]] = Nobody
  /\ held' = [held EXCEPT ![entry[g]] = g]
  /\ at' = [at EXCEPT ![g] = "inside"]
  /\ UNCHANGED <<locks, refs, key, entry>>

\* The caller's operation returns: entry.mu.Unlock().
UnlockSkipped(g) ==   \* variant
  /\ at[g] = "inside"
  /\ at' = [at EXCEPT ![g] = "leaving"]
  /\ UNCHANGED <<locks, refs, held, key, entry>>

Unlock(g) ==
  /\ at[g] = "inside"
  /\ held' = [held EXCEPT ![entry[g]] = Nobody]
  /\ at' = [at EXCEPT ![g] = "leaving"]
  /\ UNCHANGED <<locks, refs, key, entry>>

\* The block under the table's mutex at the end of the unlock.
DeregisterKept(g) ==   \* variant
  /\ at[g] = "leaving"
  /\ refs' = [refs EXCEPT ![entry[g]] = @ - 1]
  /\ at' = [at EXCEPT ![g] = "outside"]
  /\ key' = [key EXCEPT ![g] = NoKey]
  /\ entry' = [entry EXCEPT ![g] = NoEntry]
  /\ UNCHANGED <<held, locks>>

DeregisterAlways(g) ==   \* variant
  /\ at[g] = "leaving"
  /\ refs' = [refs EXCEPT ![entry[g]] = @ - 1]
  /\ locks' = [locks EXCEPT ![key[g]] = NoEntry]
  /\ at' = [at EXCEPT ![g] = "outside"]
  /\ key' = [key EXCEPT ![g] = NoKey]
  /\ entry' = [entry EXCEPT ![g] = NoEntry]
  /\ UNCHANGED held

Deregister(g) ==
  /\ at[g] = "leaving"
  /\ refs' = [refs EXCEPT ![entry[g]] = @ - 1]
  /\ locks' = IF refs'[entry[g]] = 0 THEN [locks EXCEPT ![key[g]] = NoEntry]
              ELSE locks
  /\ at' = [at EXCEPT ![g] = "outside"]
  /\ key' = [key EXCEPT ![g] = NoKey]
  /\ entry' = [entry EXCEPT ![g] = NoEntry]
  /\ UNCHANGED held

Goroutine(g) == Acquire(g) \/ Unlock(g) \/ Deregister(g)

Next == \E g \in Goroutines : Goroutine(g) \/ \E k \in Keys : Register(g, k)

Spec == Init /\ [][Next]_vars

\* An operation returns, and a mutex is handed to a waiter that has starved.
FairSpec ==
  /\ Spec
  /\ \A g \in Goroutines : WF_vars(Unlock(g)) /\ WF_vars(Deregister(g))
                           /\ SF_vars(Acquire(g))

-----------------------------------------------------------------------------
(* Properties. *)

TypeOK ==
  /\ locks \in [Keys -> Entries \cup {NoEntry}]
  /\ refs \in [Entries -> Nat]
  /\ held \in [Entries -> Goroutines \cup {Nobody}]
  /\ at \in [Goroutines -> {"outside", "waiting", "inside", "leaving"}]
  /\ key \in [Goroutines -> Keys \cup {NoKey}]
  /\ entry \in [Goroutines -> Entries \cup {NoEntry}]

\* Two operations on one workspace are never in progress together, although
\* the table forgets and makes again the entry of the key between them.
MutualExclusion ==
  \A g, h \in Goroutines :
    at[g] = "inside" /\ at[h] = "inside" /\ key[g] = key[h] => g = h

\* The table has an entry for a key exactly while a goroutine is using the
\* key: no entry leaks, and none is forgotten while one waits on it.
TableIsExact ==
  \A k \in Keys :
    locks[k] # NoEntry <=> \E g \in Goroutines : key[g] = k

\* A goroutine that calls lock enters its section.
EveryCallerEnters ==
  \A g \in Goroutines : at[g] = "waiting" ~> at[g] = "inside"

\* What the callers see: the key each asks for, and who is inside each section.
Wants == [g \in Goroutines |->
            IF at[g] \in {"waiting", "inside"} THEN {key[g]} ELSE {}]
Inside(k) == {g \in Goroutines : at[g] = "inside" /\ key[g] = k}
OneOf(S) == IF S = {} THEN Nobody ELSE CHOOSE g \in S : TRUE
Owner == [k \in Keys |-> OneOf(Inside(k))]

Lock == INSTANCE WorkspaceLock WITH wants <- Wants, owner <- Owner

\* To its callers the table of counted mutexes is one lock for each workspace
\* (the comment on Service.Run: a workspace-keyed mutex).
ImplementsLock == Lock!Spec
=============================================================================
