-------------------------- MODULE ConnectionProofs --------------------------
(***************************************************************************)
(* What Connection promises, for any targets, flows and bounds.  The    *)
(* record and the secrets are written by different calls, so what one call *)
(* relies on is that the holder of the mutex still knows the record        *)
(* (AtHand), that a save staged nothing the former record uses and forgot  *)
(* nothing it tracked (Planned), and that a round of deletions without a   *)
(* failure has deleted what is no longer left to do (Deleted).             *)
(***************************************************************************)
EXTENDS Connection, TLAPS

Settings == ConnectionSettings

\* What a planned record owes the one it replaces.
Planned(previous, next) ==
  /\ Live(next)
  /\ Tracked(previous) \cap WrittenUnderMutex \subseteq Tracked(next)
  /\ Live(previous) /\ previous.binding # 0 =>
       (next.binding = previous.binding
          <=> next.target = previous.target /\ next.method = previous.method)
  /\ next.binding <= drawn

\* The secrets a save writes before it commits.
Staged(previous) == {Token(previous.cgen + 1), Registration(previous.ogen + 1)}

\* Every key of "keys" that is not left to delete is gone, if no deletion
\* failed.  A flow may write a credential or the state key again.
Deleted(keys) == ~ failed => (keys \ todo) \cap WrittenUnderMutex \cap secrets = {}

Types ==
  /\ record \in Settings /\ base \in Settings /\ new \in Settings
  /\ drawn \in Bindings /\ failed \in BOOLEAN /\ input \in Inputs
  /\ pc \in {"idle", "plan", "write", "commit", "compensate", "cleanup",
             "tombstone", "finish"}

AtHand ==
  /\ record.state = "none" => record = NoRecord
  /\ record.binding <= drawn
  /\ pc \in {"idle", "plan", "write", "commit", "tombstone"} => failed = FALSE
  /\ pc = "idle" => op = "none"
  /\ pc \in {"plan", "write", "commit", "tombstone"} => record = base
  /\ pc \in {"plan", "tombstone"} => base.state # "tombstone"
  /\ pc = "plan" => input.method # "none"
  /\ pc \in {"write", "commit", "compensate"} =>
       /\ Planned(base, new) /\ todo \subseteq Staged(base)
       /\ record \in {base, new}
  /\ pc = "cleanup" => record = new /\ Live(new) /\ Deleted(new.pending)
  /\ pc = "tombstone" => new = Tombstone(Artifacts(base)) /\ op = "disconnect"
  /\ pc = "finish" => /\ record.state = "tombstone" /\ Deleted(record.pending)
                      /\ op = "save" => input.method # "none"

CInv == Types /\ AtHand
-----------------------------------------------------------------------------
(* Types. *)

LEMMA KeysTyped ==
  /\ \A g \in Generations : Token(g) \in Keys /\ Registration(g) \in Keys
                            /\ Credential(g) \in Keys
  /\ 0 \in Generations /\ StateKey \in Keys
  /\ Generations \subseteq Nat /\ Bindings \subseteq Nat /\ 0 \in Bindings
BY ConstantsAssumption
DEF Keys, Generations, Bindings, Token, Registration, Credential, StateKey

LEMMA NothingTyped ==
  /\ NoRecord \in Settings /\ NoRecord.state = "none" /\ NoRecord.binding = 0
  /\ NoRecord.pending = {} /\ NoInput \in Inputs
BY KeysTyped DEF NoRecord, Settings, ConnectionSettings, NoInput, Inputs

LEMMA ArtifactsTyped ==
  ASSUME NEW r \in Settings
  PROVE  Artifacts(r) \subseteq Keys
<1>1. r.pending \subseteq Keys /\ r.cgen \in Generations /\ r.ogen \in Generations
  BY DEF Settings, ConnectionSettings
<1>2. QED BY <1>1, KeysTyped DEF Artifacts

LEMMA SupersededTyped ==
  ASSUME NEW r \in Settings, NEW n
  PROVE  Superseded(r, n) \subseteq Keys
<1>1. r.cgen \in Generations /\ r.ogen \in Generations
  BY DEF Settings, ConnectionSettings
<1>2. QED BY <1>1, KeysTyped DEF Superseded

LEMMA TombstoneTyped ==
  ASSUME NEW keys \in SUBSET Keys
  PROVE  /\ Tombstone(keys) \in Settings /\ Tombstone(keys).state = "tombstone"
         /\ Tombstone(keys).pending = keys /\ Tombstone(keys).binding = 0
BY KeysTyped DEF Tombstone, NoRecord, Settings, ConnectionSettings

\* The keys that only the holder of the mutex writes.
LEMMA OthersKeys ==
  \A g : Credential(g) \notin WrittenUnderMutex /\ StateKey \notin WrittenUnderMutex
BY DEF Credential, StateKey, WrittenUnderMutex

-----------------------------------------------------------------------------
(* What is tracked. *)

LEMMA TrackedBy ==
  ASSUME NEW r \in Settings
  PROVE  /\ r.pending \subseteq Tracked(r)
         /\ Tracked(r) \cap WrittenUnderMutex \subseteq
              r.pending \cup {Token(r.cgen), Token(0), Registration(r.ogen),
                              Registration(0)}
         /\ ~ Live(r) => Tracked(r) = r.pending
         /\ IsToken(r) => Token(0) \in Tracked(r) /\ Token(r.cgen) \in Tracked(r)
         /\ IsOAuth(r) => /\ Registration(0) \in Tracked(r)
                          /\ Registration(r.ogen) \in Tracked(r)
         /\ ~ IsToken(r) => Tracked(r) \cap WrittenUnderMutex \subseteq
              r.pending \cup {Registration(r.ogen), Registration(0)}
         /\ ~ IsOAuth(r) => Tracked(r) \cap WrittenUnderMutex \subseteq
              r.pending \cup {Token(r.cgen), Token(0)}
<1>1. IsToken(r) => ~ IsOAuth(r)
  BY DEF IsToken, IsOAuth
<1>2. QED BY <1>1, OthersKeys DEF Tracked, Uses, IsToken, IsOAuth

\* A tombstone carries everything the record it replaces tracks.
LEMMA TombstoneTracks ==
  ASSUME NEW r \in Settings, r.state # "tombstone", r.state = "none" => r = NoRecord
  PROVE  Tracked(r) \cap WrittenUnderMutex \subseteq Tracked(Tombstone(Artifacts(r)))
<1>1. Tracked(Tombstone(Artifacts(r))) = Artifacts(r)
  <2>1. Artifacts(r) \in SUBSET Keys
    BY ArtifactsTyped
  <2>2. /\ Tombstone(Artifacts(r)) \in Settings
        /\ Tombstone(Artifacts(r)).pending = Artifacts(r)
        /\ ~ Live(Tombstone(Artifacts(r)))
    BY <2>1, TombstoneTyped DEF Live
  <2>3. QED BY <2>2, TrackedBy
<1>2. CASE Live(r)
  BY <1>1, <1>2, TrackedBy DEF Artifacts
<1>3. CASE r = NoRecord
  <2>1. Tracked(r) = {}
    BY <1>3, TrackedBy, NothingTyped DEF Live
  <2>2. QED BY <2>1
<1>4. QED BY <1>2, <1>3 DEF Live, Settings, ConnectionSettings

\* So does the record a save plans: what it does not use itself is superseded.
LEMMA PlanTracks ==
  ASSUME NEW r \in Settings, NEW n \in Settings, IsToken(n) \/ IsOAuth(n),
         n.cgen # r.cgen, NEW a, IsOAuth(a) <=> IsOAuth(n), a.cgen = n.cgen,
         a.ogen = n.ogen, n.pending = Revocations(r, a)
  PROVE  Tracked(r) \cap WrittenUnderMutex \subseteq Tracked(n)
<1>1. r.pending \cup Superseded(r, a) \subseteq Tracked(n)
  BY TrackedBy DEF Revocations
<1>2. CASE IsToken(r)
  <2>1. Token(r.cgen) \in Superseded(r, a) /\ Token(0) \in Superseded(r, a)
    BY <1>2 DEF Superseded
  <2>2. ~ IsOAuth(r)
    BY <1>2 DEF IsToken, IsOAuth
  <2>3. QED BY <1>1, <2>1, <2>2, TrackedBy
<1>3. CASE IsOAuth(r)
  <2>1. ~ IsToken(r)
    BY <1>3 DEF IsToken, IsOAuth
  <2>2. CASE IsOAuth(n) /\ n.ogen = r.ogen
    BY <1>1, <2>1, <2>2, TrackedBy
  <2>3. CASE ~ (IsOAuth(n) /\ n.ogen = r.ogen)
    <3>1. Registration(r.ogen) \in Superseded(r, a) /\ Registration(0) \in Superseded(r, a)
      BY <1>3, <2>3 DEF Superseded
    <3>2. QED BY <1>1, <2>1, <3>1, TrackedBy
  <2>4. QED BY <2>2, <2>3
<1>4. CASE ~ IsToken(r) /\ ~ IsOAuth(r)
  BY <1>1, <1>4, TrackedBy DEF Tracked, Uses
<1>5. QED BY <1>2, <1>3, <1>4
-----------------------------------------------------------------------------
(* The invariant is kept. *)

LEMMA InitCInv == Init => CInv
<1> SUFFICES ASSUME Init PROVE CInv
  OBVIOUS
<1>1. record \in Settings /\ record.binding = 0
      /\ (record.state = "none" => record = NoRecord)
  <2>1. CASE record = NoRecord
    BY <2>1, NothingTyped
  <2>2. ASSUME NEW t \in Targets, NEW m \in {"token", "oauth"}, record = LegacyRecord(m, t)
        PROVE  record \in Settings /\ record.binding = 0 /\ record.state # "none"
    BY <2>2, KeysTyped DEF LegacyRecord, NoRecord, Settings, ConnectionSettings
  <2>3. QED BY <2>1, <2>2 DEF Init
<1>2. Types
  BY <1>1, NothingTyped, KeysTyped DEF Init, Types
<1>3. AtHand
  BY <1>1 DEF Init, AtHand
<1>4. QED BY <1>2, <1>3 DEF CInv

\* A step that leaves the record and the operation, and writes at most keys
\* that are not written under the mutex.
LEMMA QuietKeeps ==
  ASSUME CInv, UNCHANGED <<record, drawn, opVars>>,
         secrets' \cap WrittenUnderMutex \subseteq secrets
  PROVE  CInv'
<1>1. UNCHANGED <<pc, op, input, base, new, todo, failed>>
  BY DEF opVars
<1>2. Types'
  BY <1>1 DEF CInv, Types
<1>3. \A keys : Deleted(keys) => Deleted(keys)'
  BY <1>1 DEF Deleted
<1>4. \A r, n : Planned(r, n) => Planned(r, n)'
  BY DEF Planned
<1>5. AtHand'
  BY <1>1, <1>3, <1>4 DEF CInv, AtHand
<1>6. QED BY <1>2, <1>5 DEF CInv

\* A flow or a token source at work.
LEMMA FlowKeeps ==
  ASSUME CInv, Authorize \/ LoadSource \/ Refresh \/ SaveRotated
  PROVE  CInv'
<1>1. UNCHANGED <<record, drawn, opVars>>
  BY DEF Authorize, LoadFlow, KeyFlow, RegisterFlow, TakeFlow, StoreCredential,
     LoadSource, Refresh, SaveRotated
<1>2. \/ secrets' = secrets \/ secrets' = secrets \cup {StateKey}
      \/ \E g : secrets' = secrets \cup {Credential(g)}
  BY DEF Authorize, LoadFlow, KeyFlow, RegisterFlow, TakeFlow, StoreCredential,
     LoadSource, Refresh, SaveRotated
<1>3. secrets' \cap WrittenUnderMutex \subseteq secrets
  BY <1>2, OthersKeys
<1>4. QED BY <1>1, <1>3, QuietKeeps

\* The mutex is released with a record that is as it has to be.
LEMMA ReturnKeeps ==
  ASSUME CInv, Return, drawn' = drawn, record' \in Settings,
         record'.state = "none" => record' = NoRecord, record'.binding <= drawn
  PROVE  CInv'
<1>1. Types'
  BY NothingTyped DEF Return, CInv, Types
<1>2. AtHand'
  BY DEF Return, AtHand
<1>3. QED BY <1>1, <1>2 DEF CInv

LEMMA BeginSaveKeeps ==
  ASSUME CInv, NEW m \in {"token", "oauth"}, NEW t \in Targets, NEW given \in BOOLEAN,
         BeginSave(m, t, given)
  PROVE  CInv'
<1>1. /\ input' \in Inputs /\ input'.method # "none"
      /\ base' = record /\ UNCHANGED <<record, secrets, drawn, new, failed>>
      /\ pc = "idle"
  BY DEF BeginSave, Inputs
<1>2. \/ record.state = "tombstone" /\ pc' = "finish" /\ todo' = record.pending
      \/ record.state # "tombstone" /\ pc' = "plan"
  BY DEF BeginSave
<1>3. Types'
  BY <1>1, <1>2 DEF CInv, Types
<1>4. failed = FALSE
  BY <1>1 DEF CInv, AtHand
<1>5. todo' = record.pending => Deleted(record.pending)'
  BY <1>1 DEF Deleted
<1>6. AtHand'
  BY <1>1, <1>2, <1>4, <1>5 DEF CInv, AtHand
<1>7. QED BY <1>3, <1>6 DEF CInv

LEMMA PlanKeeps ==
  ASSUME CInv, Plan
  PROVE  CInv'
<1> DEFINE asked == [NoRecord EXCEPT
              !.state = "live", !.method = input.method, !.target = input.target,
              !.cgen = NextGeneration(base.cgen),
              !.ogen = CASE input.method = "token" -> 0
                         [] input.given -> base.ogen + 1
                         [] OTHER -> base.ogen]
           kept == SameTarget(base, asked) /\ base.binding # 0
           binding == IF kept THEN base.binding ELSE drawn + 1
<1>1. /\ pc = "plan" /\ drawn < MaxBinding /\ base.cgen < MaxGeneration
      /\ base.ogen < MaxGeneration /\ record' = record /\ secrets' = secrets
      /\ UNCHANGED <<op, input, base, failed>>
      /\ drawn' = IF kept THEN drawn ELSE drawn + 1
      /\ new' = [asked EXCEPT !.binding = binding, !.pending = Revocations(base, asked)]
      /\ todo' = CASE input.method = "token" -> {Token(asked.cgen)}
                   [] input.given -> {Registration(asked.ogen)}
                   [] OTHER -> {}
      /\ pc' = IF todo' = {} THEN "commit" ELSE "write"
  BY DEF Plan
<1>2. /\ base \in Settings /\ drawn \in Bindings /\ base = record
      /\ record.binding <= drawn /\ input \in Inputs /\ input.method \in {"token", "oauth"}
      /\ failed = FALSE
  BY <1>1 DEF CInv, Types, AtHand, Inputs
<1>3. /\ base.cgen \in Nat /\ base.ogen \in Nat /\ drawn \in Nat /\ base.binding \in Nat
      /\ base.cgen + 1 \in Generations /\ base.ogen + 1 \in Generations
      /\ base.ogen \in Generations /\ drawn + 1 \in Bindings /\ base.binding \in Bindings
  BY <1>1, <1>2, ConstantsAssumption DEF Settings, ConnectionSettings, Generations, Bindings
<1>4. /\ asked \in Settings /\ asked.state = "live" /\ asked.method = input.method
      /\ asked.target = input.target /\ asked.cgen = base.cgen + 1
      /\ asked.ogen = CASE input.method = "token" -> 0
                        [] input.given -> base.ogen + 1
                        [] OTHER -> base.ogen
  BY <1>2, <1>3, KeysTyped
  DEF NoRecord, Settings, ConnectionSettings, Inputs, NextGeneration
<1> HIDE DEF asked
<1>5. Revocations(base, asked) \in SUBSET Keys
  BY <1>2, SupersededTyped DEF Revocations, Settings, ConnectionSettings
<1>6. /\ new' \in Settings /\ new'.state = "live" /\ new'.method = input.method
      /\ new'.target = input.target /\ new'.cgen = asked.cgen /\ new'.ogen = asked.ogen
      /\ new'.binding = binding /\ new'.pending = Revocations(base, asked)
  BY <1>1, <1>3, <1>4, <1>5 DEF Settings, ConnectionSettings
<1>7. Tracked(base) \cap WrittenUnderMutex \subseteq Tracked(new')
  <2>1. /\ IsToken(new') \/ IsOAuth(new')
        /\ IsOAuth(asked) <=> IsOAuth(new')
    BY <1>2, <1>4, <1>6 DEF IsToken, IsOAuth, Live
  <2>2. new'.cgen # base.cgen
    BY <1>3, <1>4, <1>6
  <2>3. QED BY <1>2, <1>6, <2>1, <2>2, PlanTracks
<1>8. /\ drawn' \in Bindings /\ drawn <= drawn' /\ binding <= drawn'
      /\ base.binding # 0 =>
           (binding = base.binding
              <=> input.target = base.target /\ input.method = base.method)
  BY <1>1, <1>2, <1>3, <1>4 DEF SameTarget
<1>9. Planned(base, new)'
  BY <1>1, <1>6, <1>7, <1>8 DEF Planned, Live
<1>10. todo' \subseteq Staged(base)
  BY <1>1, <1>2, <1>4 DEF Staged
<1>11. pc' \in {"commit", "write"}
  BY <1>1
<1>12. Types'
  BY <1>1, <1>6, <1>8, <1>11 DEF CInv, Types
<1>13. record'.binding <= drawn'
  BY <1>1, <1>2, <1>3, <1>8
<1>14. AtHand'
  BY <1>1, <1>2, <1>9, <1>10, <1>11, <1>13 DEF CInv, AtHand
<1>15. QED BY <1>12, <1>14 DEF CInv

LEMMA WriteKeeps ==
  ASSUME CInv, WriteSecret
  PROVE  CInv'
<1>1. /\ pc = "write" /\ pc' \in {"commit", "compensate"}
      /\ UNCHANGED <<record, drawn, op, input, base, new, todo, failed>>
  BY DEF WriteSecret
<1>2. Planned(base, new)'
  BY <1>1 DEF CInv, AtHand, Planned
<1>3. QED BY <1>1, <1>2 DEF CInv, Types, AtHand

LEMMA CommitKeeps ==
  ASSUME CInv, Commit \/ CommitFails
  PROVE  CInv'
<1>1. /\ pc = "commit" /\ UNCHANGED <<secrets, drawn, op, input, base, new, failed>>
      /\ record = base /\ Planned(base, new)
  BY DEF Commit, CommitFails, CInv, AtHand
<1>2. new.state = "live" /\ new.binding <= drawn
  BY <1>1 DEF Planned, Live
<1>3. CASE Commit
  <2>1. record' = new /\ todo' = new.pending /\ pc' = "cleanup"
    BY <1>3 DEF Commit
  <2>2. Deleted(new.pending)'
    BY <1>1, <2>1 DEF Deleted
  <2>3. QED BY <1>1, <1>2, <2>1, <2>2 DEF CInv, Types, AtHand, Live
<1>4. CASE CommitFails
  <2>1. record' \in {record, new} /\ todo' = todo /\ pc' = "compensate"
    BY <1>4 DEF CommitFails
  <2>2. Planned(base, new)'
    BY <1>1 DEF Planned
  <2>3. QED BY <1>1, <1>2, <2>1, <2>2 DEF CInv, Types, AtHand
<1>5. QED BY <1>3, <1>4

\* A round of deletions goes on, or notes that one failed.
LEMMA DeleteKeeps ==
  ASSUME CInv, DeleteSecret
  PROVE  CInv'
<1>1. PICK k \in todo :
        /\ todo' = todo \ {k}
        /\ \/ secrets' = secrets \ {k} /\ UNCHANGED <<failed, boundVars>>
           \/ Fault /\ failed' = TRUE /\ secrets' \in {secrets, secrets \ {k}}
  BY Zenon DEF DeleteSecret
<1>2. /\ pc \in {"cleanup", "finish", "compensate"}
      /\ UNCHANGED <<record, drawn, pc, op, input, base, new>>
  BY DEF DeleteSecret
<1>3. \A keys : Deleted(keys) => Deleted(keys)'
  BY <1>1 DEF Deleted
<1>4. Planned(base, new) => Planned(base, new)'
  BY <1>2 DEF Planned
<1>5. failed' \in BOOLEAN
  BY <1>1 DEF CInv, Types
<1>6. QED BY <1>1, <1>2, <1>3, <1>4, <1>5 DEF CInv, Types, AtHand

LEMMA SavedKeeps ==
  ASSUME CInv, Refuse \/ Compensated \/ CleanedUp
  PROVE  CInv'
<1>1. Return /\ drawn' = drawn
  BY DEF Refuse, Compensated, CleanedUp
<1>2. CASE Refuse \/ Compensated
  <2>1. record' = record
    BY <1>2 DEF Refuse, Compensated
  <2>2. QED BY <1>1, <2>1, ReturnKeeps DEF CInv, Types, AtHand
<1>3. CASE CleanedUp
  <2>1. record' = record \/ record' = [new EXCEPT !.pending = {}]
    BY <1>3 DEF CleanedUp
  <2>2. record = new /\ new.state = "live" /\ new \in Settings /\ new.binding <= drawn
    BY <1>3 DEF CleanedUp, CInv, Types, AtHand, Live
  <2>3. record' \in Settings /\ record'.state = "live" /\ record'.binding <= drawn
    BY <2>1, <2>2 DEF Settings, ConnectionSettings
  <2>4. QED BY <1>1, <2>3, ReturnKeeps
<1>4. QED BY <1>2, <1>3

LEMMA DisconnectKeeps ==
  ASSUME CInv, Disconnect
  PROVE  CInv'
<1>1. CASE BeginDisconnect
  <2>1. /\ pc = "idle" /\ base' = record
        /\ UNCHANGED <<record, secrets, drawn, input, failed>> /\ op' = "disconnect"
        /\ \/ record.state = "tombstone" /\ pc' = "finish" /\ new' = new
                /\ todo' = record.pending
           \/ record.state # "tombstone" /\ pc' = "tombstone"
                /\ new' = Tombstone(Artifacts(record))
    BY <1>1 DEF BeginDisconnect
  <2>2. failed = FALSE /\ record \in Settings
    BY <2>1 DEF CInv, Types, AtHand
  <2>3. Tombstone(Artifacts(record)) \in Settings
    BY <2>2, ArtifactsTyped, TombstoneTyped
  <2>4. todo' = record.pending => Deleted(record.pending)'
    BY <2>1 DEF Deleted
  <2>5. QED BY <2>1, <2>2, <2>3, <2>4 DEF CInv, Types, AtHand
<1>2. CASE CommitTombstone
  <2>1. /\ pc = "tombstone" /\ new = Tombstone(Artifacts(base)) /\ base \in Settings
        /\ failed = FALSE /\ drawn' = drawn /\ secrets' = secrets /\ drawn \in Nat
        /\ record' \in {record, new} /\ op = "disconnect"
        /\ record \in Settings /\ record.binding <= drawn
        /\ (record.state = "none" => record = NoRecord)
    BY <1>2, KeysTyped DEF CommitTombstone, CInv, Types, AtHand
  <2>2. new \in Settings /\ new.state = "tombstone" /\ new.binding = 0
    BY <2>1, ArtifactsTyped, TombstoneTyped
  <2>3. CASE Return
    <3>1. record' \in Settings /\ record'.binding <= drawn
          /\ (record'.state = "none" => record' = NoRecord)
      BY <2>1, <2>2
    <3>2. QED BY <2>1, <2>3, <3>1, ReturnKeeps
  <2>4. CASE ~ Return
    <3>1. /\ record' = new /\ pc' = "finish" /\ todo' = new.pending
          /\ UNCHANGED <<op, input, base, new, failed>>
      BY <1>2, <2>4 DEF CommitTombstone
    <3>2. Deleted(record.pending)'
      BY <3>1 DEF Deleted
    <3>3. QED BY <2>1, <2>2, <3>1, <3>2 DEF CInv, Types, AtHand
  <2>5. QED BY <2>3, <2>4
<1>3. CASE Finished
  <2>1. /\ pc = "finish" /\ drawn' = drawn /\ record' \in {record, NoRecord}
        /\ drawn \in Nat
    BY <1>3, KeysTyped DEF Finished, CInv, Types
  <2>2. record' \in Settings /\ (record'.state = "none" => record' = NoRecord)
        /\ record'.binding <= drawn
    BY <2>1, NothingTyped DEF CInv, Types, AtHand
  <2>3. CASE Return
    BY <2>1, <2>2, <2>3, ReturnKeeps
  <2>4. CASE ~ Return
    <3>1. /\ ~ failed /\ record' = NoRecord /\ op = "save" /\ pc' = "plan"
          /\ base' = NoRecord /\ UNCHANGED <<op, input, new, todo, failed>>
      BY <1>3, <2>4 DEF Finished
    <3>2. input.method # "none"
      BY <2>1, <3>1 DEF CInv, AtHand
    <3>3. QED BY <2>1, <2>2, <3>1, <3>2, NothingTyped DEF CInv, Types, AtHand
  <2>5. QED BY <2>3, <2>4
<1>4. QED BY <1>1, <1>2, <1>3 DEF Disconnect

LEMMA MigrateKeeps ==
  ASSUME CInv, Migrate
  PROVE  CInv'
<1>1. /\ pc = "idle" /\ drawn < MaxBinding /\ drawn' = drawn + 1
      /\ record' = [record EXCEPT !.binding = drawn + 1] /\ record.state = "live"
      /\ UNCHANGED <<secrets, pc, op, input, base, new, todo, failed>>
  BY DEF Migrate, opVars, Live
<1>2. drawn + 1 \in Bindings
  BY <1>1, ConstantsAssumption DEF CInv, Types, Bindings
<1>3. record' \in Settings /\ record'.state = "live" /\ record'.binding = drawn + 1
  BY <1>1, <1>2 DEF CInv, Types, Settings, ConnectionSettings
<1>4. record'.binding <= drawn'
  BY <1>1, <1>2, <1>3, KeysTyped
<1>5. QED BY <1>1, <1>2, <1>3, <1>4 DEF CInv, Types, AtHand

LEMMA NextCInv == CInv /\ [Next]_vars => CInv'
<1> SUFFICES ASSUME CInv, [Next]_vars PROVE CInv'
  OBVIOUS
<1>1. CASE Save
  BY <1>1, BeginSaveKeeps, PlanKeeps, WriteKeeps, CommitKeeps, SavedKeeps DEF Save
<1>2. CASE Stop
  <2>1. Return /\ record' = record /\ drawn' = drawn
    BY <1>2 DEF Stop
  <2>2. QED BY <2>1, ReturnKeeps DEF CInv, Types, AtHand
<1>3. CASE UNCHANGED vars
  BY <1>3, QuietKeeps DEF vars
<1>4. QED
  BY <1>1, <1>2, <1>3, DisconnectKeeps, DeleteKeeps, MigrateKeeps, FlowKeeps DEF Next

LEMMA CInvariance == Spec => []CInv
BY InitCInv, NextCInv, PTL DEF Spec

-----------------------------------------------------------------------------
(* What it gives. *)

\* How a step changes the record.
LEMMA RecordSteps ==
  ASSUME CInv, [Next]_vars
  PROVE  \/ record' = record
         \/ /\ pc = "commit" /\ record' = new /\ record = base /\ Planned(base, new)
         \/ /\ pc = "cleanup" /\ ~ failed /\ todo = {} /\ secrets' = secrets
            /\ record = new /\ record' = [new EXCEPT !.pending = {}]
         \/ /\ record.state # "tombstone" /\ record' = Tombstone(Artifacts(record))
         \/ /\ pc = "finish" /\ ~ failed /\ todo = {} /\ secrets' = secrets
            /\ record.state = "tombstone" /\ record' = NoRecord
         \/ Migrate
<1>1. CASE Commit \/ CommitFails
  BY <1>1 DEF Commit, CommitFails, CInv, AtHand
<1>2. CASE CleanedUp
  BY <1>2 DEF CleanedUp, CInv, AtHand
<1>3. CASE CommitTombstone
  BY <1>3 DEF CommitTombstone, CInv, AtHand
<1>4. CASE Finished
  BY <1>4 DEF Finished, CInv, AtHand
<1>5. CASE UNCHANGED vars
  BY <1>5 DEF vars
<1>6. CASE \/ Plan \/ Refuse \/ WriteSecret \/ Compensated \/ BeginDisconnect
           \/ \E m \in {"token", "oauth"}, t \in Targets, given \in BOOLEAN :
                BeginSave(m, t, given)
  BY <1>6 DEF Plan, Refuse, WriteSecret, Compensated, BeginDisconnect, BeginSave
<1>7. CASE DeleteSecret \/ Authorize \/ LoadSource \/ Refresh \/ SaveRotated \/ Stop
  BY <1>7 DEF DeleteSecret, Authorize, LoadFlow, KeyFlow, RegisterFlow, TakeFlow,
     StoreCredential, LoadSource, Refresh, SaveRotated, Stop
<1>8. QED
  BY <1>1, <1>2, <1>3, <1>4, <1>5, <1>6, <1>7 DEF Next, Save, Disconnect

\* The binding that fences watches follows the target and the method of the
\* connection.
THEOREM BindingFollows == Spec => BindingFollowsTarget
<1>1. ASSUME CInv, [Next]_vars
      PROVE  [Live(record) /\ Live(record') /\ record.binding # 0 =>
                (record'.binding = record.binding
                   <=> record'.target = record.target
                         /\ record'.method = record.method)]_vars
  <2> SUFFICES ASSUME Live(record), Live(record'), record.binding # 0
      PROVE  record'.binding = record.binding
               <=> record'.target = record.target /\ record'.method = record.method
    OBVIOUS
  <2>1. CASE record' = record
    BY <2>1
  <2>2. CASE record' = new /\ record = base /\ Planned(base, new)
    BY <2>2 DEF Planned
  <2>3. CASE record = new /\ record' = [new EXCEPT !.pending = {}]
    BY <1>1, <2>3 DEF CInv, Types, Settings, ConnectionSettings
  <2>4. record' # Tombstone(Artifacts(record)) /\ record' # NoRecord
    BY <1>1, ArtifactsTyped, TombstoneTyped, NothingTyped DEF CInv, Types, Live
  <2>5. ~ Migrate
    BY DEF Migrate
  <2>6. QED BY <1>1, <2>1, <2>2, <2>3, <2>4, <2>5, RecordSteps
<1>2. QED BY <1>1, CInvariance, PTL DEF Spec, BindingFollowsTarget

\* What is tracked and stored stays tracked.
THEOREM SecretsAreTracked == Spec => NoSecretForgotten
<1>1. ASSUME CInv, [Next]_vars
      PROVE  [\A k \in Tracked(record) \cap WrittenUnderMutex :
                k \in secrets' => k \in Tracked(record')]_vars
  <2> SUFFICES ASSUME NEW k \in Tracked(record) \cap WrittenUnderMutex, k \in secrets'
      PROVE  k \in Tracked(record')
    OBVIOUS
  <2>0. record \in Settings /\ new \in Settings
    BY <1>1 DEF CInv, Types
  <2>1. CASE record' = record
    BY <2>1
  <2>2. CASE record' = new /\ record = base /\ Planned(base, new)
    BY <2>2 DEF Planned
  <2>3. CASE /\ pc = "cleanup" /\ ~ failed /\ todo = {} /\ secrets' = secrets
             /\ record = new /\ record' = [new EXCEPT !.pending = {}]
    <3>1. k \notin new.pending
      BY <1>1, <2>3 DEF CInv, AtHand, Deleted
    <3>2. Tracked(record') \cup new.pending = Tracked(new) \cup new.pending
      BY <2>0, <2>3
      DEF Tracked, Uses, IsToken, IsOAuth, Live, Settings, ConnectionSettings
    <3>3. QED BY <2>3, <3>1, <3>2
  <2>4. CASE record.state # "tombstone" /\ record' = Tombstone(Artifacts(record))
    BY <1>1, <2>0, <2>4, TombstoneTracks DEF CInv, AtHand
  <2>5. CASE /\ pc = "finish" /\ ~ failed /\ todo = {} /\ secrets' = secrets
             /\ record.state = "tombstone" /\ record' = NoRecord
    <3>1. Tracked(record) = record.pending
      BY <2>0, <2>5, TrackedBy DEF Live
    <3>2. QED BY <1>1, <2>5, <3>1 DEF CInv, AtHand, Deleted
  <2>6. CASE Migrate
    <3>1. Tracked(record') = Tracked(record)
      BY <2>0, <2>6
      DEF Migrate, Tracked, Uses, IsToken, IsOAuth, Live, Settings, ConnectionSettings
    <3>2. QED BY <3>1
  <2>7. QED BY <1>1, <2>1, <2>2, <2>3, <2>4, <2>5, <2>6, RecordSteps
<1>2. QED BY <1>1, CInvariance, PTL DEF Spec, NoSecretForgotten

\* A save deletes nothing the saved record uses before it has committed.
THEOREM PreviousIsKept == Spec => FailedSaveKeepsPrevious
<1>1. ASSUME CInv, [Next]_vars
      PROVE  [op = "save" /\ record' = record /\ Live(record) /\ record # new =>
                Uses(record) \cap secrets \subseteq secrets']_vars
  <2> SUFFICES ASSUME op = "save", Live(record), record # new
      PROVE  Uses(record) \cap secrets \subseteq secrets'
    OBVIOUS
  <2>1. CASE DeleteSecret
    <3>1. pc \in {"cleanup", "finish", "compensate"}
      BY <2>1 DEF DeleteSecret
    <3>2. pc = "compensate" /\ record = base /\ todo \subseteq Staged(base)
      BY <1>1, <3>1 DEF CInv, AtHand, Live
    <3>3. Uses(base) \cap Staged(base) = {}
      <4>1. base.cgen \in Nat /\ base.ogen \in Nat
        BY <1>1, KeysTyped DEF CInv, Types, Settings, ConnectionSettings
      <4>2. base.cgen # base.cgen + 1 /\ base.ogen # base.ogen + 1
        BY <4>1
      <4>3. QED BY <4>2 DEF Uses, Staged, Token, Registration, Credential, IsToken, IsOAuth
    <3>4. \E k \in todo : secrets' \in {secrets, secrets \ {k}}
      BY <2>1 DEF DeleteSecret
    <3>5. QED BY <3>2, <3>3, <3>4
  <2>2. CASE ~ DeleteSecret
    BY <1>1, <2>2
    DEF Next, Save, Disconnect, Authorize, BeginSave, Plan, Refuse, WriteSecret, Commit,
        CommitFails, Compensated, CleanedUp, BeginDisconnect, CommitTombstone, Finished,
        Migrate, LoadFlow, KeyFlow, RegisterFlow, TakeFlow, StoreCredential, LoadSource,
        Refresh, SaveRotated, Stop, vars
  <2>3. QED BY <2>1, <2>2
<1>2. QED BY <1>1, CInvariance, PTL DEF Spec, FailedSaveKeepsPrevious
=============================================================================
