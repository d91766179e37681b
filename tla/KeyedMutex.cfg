\* Three goroutines and two workspaces under fair mutexes.
SPECIFICATION FairSpec
CONSTANTS
  Goroutines = {g1, g2, g3}
  Keys = {k1, k2}
  Entries = {e1, e2, e3}
  NoKey = NoKey
  NoEntry = NoEntry
  Nobody = Nobody
INVARIANTS
  MutualExclusion
  TableIsExact
PROPERTIES
  EveryCallerEnters
  ImplementsLock
