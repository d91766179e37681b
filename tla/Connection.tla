----------------------------- MODULE Connection -----------------------------
(***************************************************************************)
(* The connection of one workspace and its secrets:                        *)
(* internal/plugin/connections.go, connection_secrets.go and the flows of  *)
(* connection_oauth.go.                                                    *)
(*                                                                         *)
(* The host keeps the credential-free record and the secrets apart, and no *)
(* call writes both.  Save, Disconnect and the binding migration hold      *)
(* connectionMu from their load of the record to their return; "pc" says   *)
(* which host call the holder makes next.  An authorization flow and the   *)
(* refresh of a rotating credential do not take that mutex: they run       *)
(* between any two calls and are fenced by what an invalidation leaves in  *)
(* memory, the epoch and the revoked scopes.                               *)
(*                                                                         *)
(* A secret is the fact that its key is stored.  Generation 0 stands for   *)
(* the legacy key, which has no generation.  A target is everything        *)
(* sameConnectionTarget compares apart from OAuth or a token: product,     *)
(* server, workspace, identity and the kind of token.                      *)
(*                                                                         *)
(* A definition marked "variant" is the one below it with a plausible      *)
(* mistake; no specification uses it: it shows that a property can fail.   *)
(***************************************************************************)
EXTENDS Integers

CONSTANTS
  Targets,      \* accounts, servers and workspaces one can connect to
  ProductOf,    \* the product of each target
  AccountOf,    \* its product and authentication identity
  Flows,        \* authorization flows that may be under way
  NoTarget,
  MaxGeneration, \* bound: credential and registration generations
  MaxBinding,   \* bound: bindings ever drawn
  MaxFaults,    \* bound: failed calls and process stops
  MaxRequests   \* bound: requests of people

ASSUME ConstantsAssumption ==
  /\ NoTarget \notin Targets
  /\ MaxGeneration \in Nat \ {0} /\ MaxBinding \in Nat
  /\ MaxFaults \in Nat /\ MaxRequests \in Nat

VARIABLES
  \* The host.
  record,       \* the connection record
  secrets,      \* the keys that hold a secret
  drawn,        \* the latest binding drawn
  \* The operation that holds connectionMu.
  pc,           \* the call it makes next
  op,           \* which operation it is
  input,        \* what a save was asked for
  base,         \* the record it loaded
  new,          \* the record it commits
  todo,         \* keys left to write or to delete
  failed,       \* a deletion of this round failed
  \* In memory, lost when the process stops.
  epoch,        \* invalidations of the workspace's flows
  manager,      \* the flow state manager is built
  refresher,    \* the refresher is built
  revoked,      \* scopes whose credentials it no longer refreshes
  flows,        \* the authorization flows
  source,       \* a token source in use
  \* The bounds.
  faults, requests

memoryVars == <<epoch, manager, refresher, revoked>>
opVars == <<pc, op, input, base, new, todo, failed>>
boundVars == <<faults, requests>>
vars == <<record, secrets, drawn, opVars, memoryVars, flows, source,
          boundVars>>

-----------------------------------------------------------------------------
(* Keys, records and scopes. *)

Generations == 0 .. MaxGeneration
Bindings == 0 .. MaxBinding   \* 0: the empty binding
Keys == {"token", "registration", "credential", "state"} \X Generations
Token(g) == <<"token", g>>
Registration(g) == <<"registration", g>>
Credential(g) == <<"credential", g>>
StateKey == <<"state", 0>>

ConnectionSettings ==
  [state : {"none", "live", "tombstone"},
   method : {"none", "token", "oauth"}, target : Targets \cup {NoTarget},
   binding : Bindings, cgen : Generations, ogen : Generations,
   pending : SUBSET Keys]
NoRecord == [state |-> "none", method |-> "none", target |-> NoTarget,
             binding |-> 0, cgen |-> 0, ogen |-> 0, pending |-> {}]
LegacyRecord(m, t) ==
  [NoRecord EXCEPT !.state = "live", !.method = m, !.target = t]
Tombstone(keys) == [NoRecord EXCEPT !.state = "tombstone", !.pending = keys]

\* What a save is asked for; "given": with a token or a client secret.
Inputs == [method : {"none", "token", "oauth"},
           target : Targets \cup {NoTarget}, given : BOOLEAN]
NoInput == [method |-> "none", target |-> NoTarget, given |-> FALSE]

Scopes == Bindings \X Generations
ScopeOf(r) == <<r.binding, r.ogen>>
NoScope == <<0, 0>>
Flow == [stage : {"none", "loaded", "keyed", "registered", "exchanging"},
         gen : Generations, epoch : 0 .. MaxRequests]
NoFlow == [stage |-> "none", gen |-> 0, epoch |-> 0]
Source == [stage : {"none", "loaded", "rotated"}, scope : Scopes]
NoSource == [stage |-> "none", scope |-> NoScope]

Live(r) == r.state = "live"
IsOAuth(r) == Live(r) /\ r.method = "oauth"
IsToken(r) == Live(r) /\ r.method = "token"

\* The secrets a record works with, and whether the one it cannot do without
\* is stored under its generation or under the legacy key.
Uses(r) ==
  IF IsToken(r) THEN {Token(r.cgen)}
  ELSE IF IsOAuth(r) THEN {Registration(r.ogen), Credential(r.ogen)}
  ELSE {}
StoredToken(r) == secrets \cap {Token(r.cgen), Token(0)} # {}
StoredRegistration(r) ==
  secrets \cap {Registration(r.ogen), Registration(0)} # {}

SameTarget(previous, next) ==
  previous.method = next.method /\ previous.target = next.target

\* supersededCredentialKeys: what the switch from one record to the next
\* makes useless.
Superseded(previous, next) ==
  {k \in {StateKey, Registration(previous.ogen), Registration(0)} :
     IsOAuth(previous) /\ (~IsOAuth(next) \/ previous.ogen # next.ogen)}
  \cup {k \in {Credential(previous.ogen)} :
     /\ IsOAuth(previous) /\ previous.ogen # 0
     /\ ~IsOAuth(next) \/ previous.ogen # next.ogen}
  \cup {k \in {Token(previous.cgen), Token(0)} :
     /\ IsToken(previous)
     /\ IsOAuth(next) \/ previous.cgen # next.cgen}

\* The revocations a committed record has to carry.
NewRevocations(previous, next) == Superseded(previous, next)   \* variant
Revocations(previous, next) == previous.pending \cup Superseded(previous, next)

\* Everything a disconnect has to delete.
Artifacts(r) ==
  {Token(0), Registration(0), StateKey}
  \cup (IF Live(r)
          THEN r.pending \cup {Token(r.cgen), Registration(r.ogen)}
                 \cup {k \in {Credential(r.ogen)} : r.ogen # 0}
          ELSE {})

-----------------------------------------------------------------------------
(* How an operation takes connectionMu, returns and fails. *)

Ask == requests < MaxRequests /\ requests' = requests + 1 /\ UNCHANGED faults
Fault == faults < MaxFaults /\ faults' = faults + 1 /\ UNCHANGED requests

Return ==
  /\ pc' = "idle" /\ op' = "none" /\ input' = NoInput
  /\ base' = NoRecord /\ new' = NoRecord /\ todo' = {} /\ failed' = FALSE

\* invalidateOAuthWorkspace: flows of the workspace are dropped and the scope
\* of the record is never refreshed again by this process, if it has built the
\* refresher.
Invalidate(r) ==
  /\ epoch' = epoch + 1 /\ manager' = FALSE
  /\ revoked' = IF IsOAuth(r) /\ r.ogen # 0 /\ refresher
                  THEN revoked \cup {ScopeOf(r)} ELSE revoked
  /\ UNCHANGED refresher
  /\ flows' = [f \in Flows |->
       IF flows[f].stage = "registered" THEN NoFlow ELSE flows[f]]

\* The round that deletes "todo": each key is tried, in any order, whatever
\* happened to the ones before it.
DeleteSecret ==
  /\ pc \in {"cleanup", "finish", "compensate"}
  /\ \E k \in todo :
       /\ todo' = todo \ {k}
       /\ \/ secrets' = secrets \ {k} /\ UNCHANGED <<failed, boundVars>>
          \/ Fault /\ failed' = TRUE /\ secrets' \in {secrets, secrets \ {k}}
  /\ UNCHANGED <<record, drawn, pc, op, input, base, new, memoryVars, flows,
                 source>>

-----------------------------------------------------------------------------
(* Save. *)

BeginSave(m, t, given) ==
  /\ pc = "idle" /\ Ask
  /\ op' = "save" /\ base' = record
  /\ input' = [method |-> m, target |-> t, given |-> given]
  /\ IF record.state = "tombstone"
       THEN pc' = "finish" /\ todo' = record.pending
       ELSE pc' = "plan" /\ todo' = {}
  /\ UNCHANGED <<record, secrets, drawn, new, failed, memoryVars, flows,
                 source>>

SameGeneration(g) == IF g = 0 THEN 1 ELSE g   \* variant
NextGeneration(g) == g + 1

\* A save without a credential keeps the stored one: the token of the same
\* account, or the registration of the same product.
KeepsToken ==
  /\ IsToken(base) /\ AccountOf[base.target] = AccountOf[input.target]
  /\ StoredToken(base)
KeepsRegistration ==
  /\ IsOAuth(base) /\ ProductOf[base.target] = ProductOf[input.target]
  /\ StoredRegistration(base)
Accepted ==
  \/ input.given
  \/ input.method = "token" /\ KeepsToken
  \/ input.method = "oauth" /\ KeepsRegistration

\* The record to commit and the secret to stage before it.
Plan ==
  /\ pc = "plan" /\ Accepted
  /\ base.cgen < MaxGeneration /\ base.ogen < MaxGeneration
  /\ drawn < MaxBinding
  /\ LET asked == [NoRecord EXCEPT
           !.state = "live", !.method = input.method, !.target = input.target,
           !.cgen = NextGeneration(base.cgen),
           !.ogen = CASE input.method = "token" -> 0
                      [] input.given -> base.ogen + 1
                      [] OTHER -> base.ogen]
         kept == SameTarget(base, asked) /\ base.binding # 0
     IN /\ drawn' = IF kept THEN drawn ELSE drawn + 1
        /\ new' = [asked EXCEPT
             !.binding = IF kept THEN base.binding ELSE drawn + 1,
             !.pending = Revocations(base, asked)]
        /\ todo' = CASE input.method = "token" -> {Token(asked.cgen)}
                     [] input.given -> {Registration(asked.ogen)}
                     [] OTHER -> {}
        /\ pc' = IF todo' = {} THEN "commit" ELSE "write"
  /\ UNCHANGED <<record, secrets, op, input, base, failed, memoryVars, flows,
                 source, boundVars>>

\* The input is refused, or a read fails.
Refuse ==
  /\ pc = "plan"
  /\ \/ ~Accepted /\ UNCHANGED boundVars
     \/ Fault
  /\ Return
  /\ UNCHANGED <<record, secrets, drawn, memoryVars, flows, source>>

WriteSecret ==
  /\ pc = "write"
  /\ \/ /\ secrets' = secrets \cup todo
        /\ pc' = "commit" /\ UNCHANGED boundVars
     \/ /\ Fault /\ secrets' \in {secrets, secrets \cup todo}
        /\ pc' = "compensate"
  /\ UNCHANGED <<record, drawn, op, input, base, new, todo, failed,
                 memoryVars, flows, source>>

\* The generation switch, and the flows it ends.
Commit ==
  /\ pc = "commit"
  /\ record' = new /\ todo' = new.pending
  /\ pc' = "cleanup"
  /\ IF IsOAuth(base) /\ (~IsOAuth(new) \/ ScopeOf(base) # ScopeOf(new))
       THEN Invalidate(base) ELSE UNCHANGED <<memoryVars, flows>>
  /\ UNCHANGED <<secrets, drawn, op, input, base, new, failed, source,
                 boundVars>>

\* SetState reports an error, with or without effect: the staged secret is
\* deleted.
CommitFails ==
  /\ pc = "commit" /\ Fault
  /\ record' \in {record, new} /\ pc' = "compensate"
  /\ UNCHANGED <<secrets, drawn, op, input, base, new, todo, failed,
                 memoryVars, flows, source>>

Compensated ==
  /\ pc = "compensate" /\ todo = {}
  /\ Return
  /\ UNCHANGED <<record, secrets, drawn, memoryVars, flows, source,
                 boundVars>>

\* When every revocation went through they are struck from the record;
\* otherwise, or when that fails, they stay for the next save.
CleanedUp ==
  /\ pc = "cleanup" /\ todo = {}
  /\ LET cleared == [new EXCEPT !.pending = {}] IN
       IF failed \/ new.pending = {}
         THEN UNCHANGED <<record, boundVars>>
         ELSE \/ record' = cleared /\ UNCHANGED boundVars
              \/ Fault /\ record' \in {record, cleared}
  /\ Return
  /\ UNCHANGED <<secrets, drawn, memoryVars, flows, source>>

-----------------------------------------------------------------------------
(* Disconnect; a save that finds a tombstone finishes it the same way. *)

BeginDisconnect ==
  /\ pc = "idle" /\ Ask
  /\ op' = "disconnect" /\ base' = record
  /\ Invalidate(record)
  /\ IF record.state = "tombstone"
       THEN pc' = "finish" /\ todo' = record.pending /\ UNCHANGED new
       ELSE pc' = "tombstone" /\ new' = Tombstone(Artifacts(record))
              /\ UNCHANGED todo
  /\ UNCHANGED <<record, secrets, drawn, input, failed, source>>

CommitTombstone ==
  /\ pc = "tombstone"
  /\ \/ /\ record' = new /\ pc' = "finish" /\ todo' = new.pending
        /\ UNCHANGED <<op, input, base, new, failed, boundVars>>
     \/ Fault /\ record' \in {record, new} /\ Return
  /\ UNCHANGED <<secrets, drawn, memoryVars, flows, source>>

\* The tombstone goes only when every deletion went through.
Finished ==
  /\ pc = "finish" /\ todo = {}
  /\ \/ failed /\ UNCHANGED <<record, boundVars>> /\ Return
     \/ /\ ~failed /\ record' = NoRecord /\ UNCHANGED boundVars
        /\ IF op = "save"
             THEN /\ pc' = "plan" /\ base' = NoRecord
                  /\ UNCHANGED <<op, input, new, todo, failed>>
             ELSE Return
     \/ ~failed /\ Fault /\ record' \in {record, NoRecord} /\ Return
  /\ UNCHANGED <<secrets, drawn, memoryVars, flows, source>>

-----------------------------------------------------------------------------
(* A load that finds no binding draws one, under the mutex: the record may  *)
(* have got one since.                                                      *)

MigrateAgain ==   \* variant
  /\ pc = "idle" /\ Live(record) /\ drawn < MaxBinding
  /\ drawn' = drawn + 1
  /\ record' = [record EXCEPT !.binding = drawn + 1]
  /\ UNCHANGED <<secrets, opVars, memoryVars, flows, source, boundVars>>
Migrate ==
  /\ pc = "idle" /\ Live(record) /\ record.binding = 0 /\ drawn < MaxBinding
  /\ drawn' = drawn + 1
  /\ record' = [record EXCEPT !.binding = drawn + 1]
  /\ UNCHANGED <<secrets, opVars, memoryVars, flows, source, boundVars>>

-----------------------------------------------------------------------------
(* An authorization flow: StartOAuth and HandleOAuthCallback. *)

\* StartOAuth loads the record and its registration.
LoadFlow(f) ==
  /\ flows[f].stage = "none" /\ Ask
  /\ IsOAuth(record) /\ record.binding # 0 /\ StoredRegistration(record)
  /\ flows' = [flows EXCEPT ![f] =
       [stage |-> "loaded", gen |-> record.ogen, epoch |-> 0]]
  /\ UNCHANGED <<record, secrets, drawn, opVars, memoryVars, source>>

\* It takes the workspace's state manager; without one it builds it from the
\* state secret, drawn when there is none.
KeyFlow(f) ==
  /\ flows[f].stage = "loaded"
  /\ secrets' = IF manager THEN secrets ELSE secrets \cup {StateKey}
  /\ manager' = TRUE
  /\ flows' = [flows EXCEPT ![f].stage = "keyed"]
  /\ UNCHANGED <<record, drawn, opVars, epoch, refresher, revoked, source,
                 boundVars>>

\* It reads the epoch and registers the flow, or is refused: the epoch has
\* moved by then, or the registration has no generation.
RegisterFlow(f) ==
  /\ flows[f].stage = "keyed"
  /\ \/ flows' = [flows EXCEPT ![f] = NoFlow]
     \/ /\ flows[f].gen # 0
        /\ flows' = [flows EXCEPT
             ![f].stage = "registered", ![f].epoch = epoch]
  /\ UNCHANGED <<record, secrets, drawn, opVars, memoryVars, source,
                 boundVars>>

\* The callback takes the flow out of the table, once.  It builds the refresher
\* now or later, before it exchanges the code.
TakeFlow(f) ==
  /\ flows[f].stage = "registered"
  /\ IF flows[f].epoch = epoch
       THEN /\ flows' = [flows EXCEPT ![f].stage = "exchanging"]
            /\ refresher' \in {refresher, TRUE}
       ELSE flows' = [flows EXCEPT ![f] = NoFlow] /\ UNCHANGED refresher
  /\ UNCHANGED <<record, secrets, drawn, opVars, epoch, manager, revoked,
                 source, boundVars>>

\* The code is exchanged; the epoch is compared and the credential saved under
\* oauthMu.
StoreCredential(f) ==
  /\ flows[f].stage = "exchanging"
  /\ flows' = [flows EXCEPT ![f] = NoFlow] /\ refresher' = TRUE
  /\ \/ /\ flows[f].epoch = epoch
        /\ secrets' = secrets \cup {Credential(flows[f].gen)}
     \/ UNCHANGED secrets   \* the epoch moved, or the exchange fails
  /\ UNCHANGED <<record, drawn, opVars, epoch, manager, revoked, source,
                 boundVars>>

-----------------------------------------------------------------------------
(* A token source: tokenSource and AccessTokenCredential. *)

\* A provider is loaded with the scope of the record; it builds the refresher
\* now or later, before it refreshes.
LoadSource ==
  /\ source = NoSource /\ Ask
  /\ IsOAuth(record) /\ record.binding # 0 /\ StoredRegistration(record)
  /\ source' = [stage |-> "loaded", scope |-> ScopeOf(record)]
  /\ refresher' \in {refresher, TRUE}
  /\ UNCHANGED <<record, secrets, drawn, opVars, epoch, manager, revoked,
                 flows>>

\* The stored credential is exchanged for a rotated one; the exchange fails, or
\* its result is dropped, when the scope is revoked by then.
Refresh ==
  /\ source.stage = "loaded" /\ refresher' = TRUE
  /\ \/ /\ source.scope[2] # 0 /\ Credential(source.scope[2]) \in secrets
        /\ source.scope \notin revoked
        /\ source' = [source EXCEPT !.stage = "rotated"]
     \/ source' = NoSource
  /\ UNCHANGED <<record, secrets, drawn, opVars, epoch, manager, revoked,
                 flows, boundVars>>

\* The rotated credential is saved without asking again.
SaveRotated ==
  /\ source.stage = "rotated"
  /\ secrets' = secrets \cup {Credential(source.scope[2])}
  /\ source' = NoSource
  /\ UNCHANGED <<record, drawn, opVars, memoryVars, flows, boundVars>>

-----------------------------------------------------------------------------

\* The process stops: what it had in memory is gone.
Stop ==
  /\ Fault /\ Return
  /\ epoch' = 0 /\ manager' = FALSE /\ refresher' = FALSE /\ revoked' = {}
  /\ flows' = [f \in Flows |-> NoFlow] /\ source' = NoSource
  /\ UNCHANGED <<record, secrets, drawn>>

\* A workspace without connection, or with one saved by a release that knew
\* neither generations nor bindings.
Init ==
  /\ \/ record = NoRecord /\ secrets = {}
     \/ \E t \in Targets :
          \/ record = LegacyRecord("token", t) /\ secrets = {Token(0)}
          \/ record = LegacyRecord("oauth", t) /\ secrets = {Registration(0)}
  /\ drawn = 0
  /\ pc = "idle" /\ op = "none" /\ input = NoInput
  /\ base = NoRecord /\ new = NoRecord /\ todo = {} /\ failed = FALSE
  /\ epoch = 0 /\ manager = FALSE /\ refresher = FALSE /\ revoked = {}
  /\ flows = [f \in Flows |-> NoFlow] /\ source = NoSource
  /\ faults = 0 /\ requests = 0

Save ==
  \/ \E m \in {"token", "oauth"}, t \in Targets, given \in BOOLEAN :
       BeginSave(m, t, given)
  \/ Plan \/ Refuse \/ WriteSecret \/ Commit \/ CommitFails \/ Compensated
  \/ CleanedUp
Disconnect == BeginDisconnect \/ CommitTombstone \/ Finished
Authorize == \E f \in Flows :
  \/ LoadFlow(f) \/ KeyFlow(f) \/ RegisterFlow(f)
  \/ TakeFlow(f) \/ StoreCredential(f)

Next == \/ Save \/ Disconnect \/ DeleteSecret \/ Migrate
        \/ Authorize \/ LoadSource \/ Refresh \/ SaveRotated \/ Stop

Spec == Init /\ [][Next]_vars

-----------------------------------------------------------------------------
(* Properties. *)

\* The binding watches are fenced by stays the same exactly as long as the
\* connection is to the same target by the same method: no save, repeated
\* migration or retry moves a watch to another account or cuts it off from its
\* own (Save, migrateConnectionBinding).
BindingFollowsTarget ==
  [][Live(record) /\ Live(record') /\ record.binding # 0 =>
       (record'.binding = record.binding
          <=> record'.target = record.target /\ record'.method = record.method)
    ]_vars

\* The secrets a record works with, or has to revoke.
Tracked(r) ==
  Uses(r) \cup r.pending \cup (IF IsToken(r) THEN {Token(0)} ELSE {})
          \cup (IF IsOAuth(r) THEN {Registration(0)} ELSE {})
WrittenUnderMutex == {"token", "registration"} \X Generations

\* A token or registration the record works with or has to revoke stays so
\* until it is deleted: whatever save, clean-up or disconnect fails halfway,
\* a later one can still delete it (PendingSecretRevocations).
NoSecretForgotten ==
  [][\A k \in Tracked(record) \cap WrittenUnderMutex :
       k \in secrets' => k \in Tracked(record')]_vars

\* A save that has not committed leaves the former connection its secrets, by
\* whatever way it fails (compensateStagedSecrets).
FailedSaveKeepsPrevious ==
  [][op = "save" /\ record' = record /\ Live(record) /\ record # new =>
       Uses(record) \cap secrets \subseteq secrets']_vars

\* Once a disconnect is through no OAuth credential of the workspace is left
\* (README: disconnecting removes the stored plugin credentials).
NoCredentialAfterDisconnect ==
  record.state = "none" => \A g \in Generations : Credential(g) \notin secrets

=============================================================================
