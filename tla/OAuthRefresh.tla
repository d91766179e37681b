---------------------------- MODULE OAuthRefresh ----------------------------
(***************************************************************************)
(* The refresh of one workspace's rotating OAuth credential:               *)
(* internal/auth/refresh.go (Refresher), source.go                         *)
(* (RefreshingTokenSource) and the credential repository of                *)
(* internal/plugin/connection_secrets.go.                                  *)
(*                                                                         *)
(* Every request builds a token source of its own, so several load the     *)
(* saved credential, find it due and ask the process's one Refresher.  It  *)
(* joins a call in flight and remembers the last completed exchange until  *)
(* a source has saved what it gave.  A refresh token is good for one       *)
(* exchange at the authorization server.                                   *)
(*                                                                         *)
(* One scope: workspace, generation and connection binding.  Credentials   *)
(* are numbered in the order they were issued; credential v is the pair of *)
(* its access and its refresh token.  A source holds its own mutex from    *)
(* its load to its return, so it makes one call at a time.                 *)
(*                                                                         *)
(* A definition marked "variant" is the one below it with a plausible      *)
(* mistake; no specification uses it: it shows that a property can fail.   *)
(***************************************************************************)
EXTENDS Naturals, FiniteSets

CONSTANTS
  Sources,        \* token sources
  MaxCredential,  \* bound: credentials issued
  MaxFaults       \* bound: failed calls, lost answers and stops

ASSUME ConstantsAssumption ==
  /\ MaxCredential \in Nat /\ MaxFaults \in Nat

VARIABLES
  \* The authorization server and the host's secret.
  issued,     \* credentials issued so far
  gave,       \* the credential each refresh token was exchanged for
  life,       \* how much of each credential's validity is left
  saved,      \* the saved credential
  \* The Refresher.
  inFlight,   \* an exchange is registered
  completed,  \* the refresh token of the remembered exchange
  revoked,    \* the scope was invalidated
  \* The sources.
  pc,         \* what each source does next
  has,        \* the credential it loaded
  got,        \* the credential it was given
  \* History and bounds.
  forgotten,  \* tokens whose exchange the process no longer knows of
  faults

serverVars == <<issued, gave, life>>
refresherVars == <<inFlight, completed, revoked>>
sourceVars == <<pc, has, got>>
vars == <<serverVars, saved, refresherVars, sourceVars, forgotten, faults>>

Credentials == 0 .. MaxCredential
None == MaxCredential + 1

Spent(t) == gave[t] # None
Fault == faults < MaxFaults /\ faults' = faults + 1

Goes(s, to) == pc' = [pc EXCEPT ![s] = to]

-----------------------------------------------------------------------------
(* A source: AccessTokenCredential. *)

\* A credential that is not due yet is returned as it is.
Load(s) ==
  /\ pc[s] = "idle" /\ life[saved] # "fresh"
  /\ has' = [has EXCEPT ![s] = saved] /\ Goes(s, "loaded")
  /\ UNCHANGED <<serverVars, saved, refresherVars, got, forgotten, faults>>

\* The save of a rotated credential; it may be reported to fail, with or
\* without effect, and the caller then has no token.
Save(s) ==
  /\ pc[s] = "save" /\ Goes(s, "idle")
  /\ saved' = got[s]
  /\ UNCHANGED <<serverVars, refresherVars, has, got, forgotten, faults>>

SaveFails(s) ==
  /\ pc[s] = "save" /\ Goes(s, "idle") /\ Fault
  /\ saved' \in {saved, got[s]}
  /\ UNCHANGED <<serverVars, refresherVars, has, got, forgotten>>

-----------------------------------------------------------------------------
(* The Refresher: Refresh, Invalidate and what they keep under mu. *)

\* purgeExpiredCompletedLocked.
PurgedWhenDue ==   \* variant
  IF completed # None /\ life[gave[completed]] # "fresh" THEN None ELSE completed
Purged ==
  IF completed # None /\ life[gave[completed]] = "expired" THEN None
  ELSE completed

RefuseRevoked(s) ==
  /\ pc[s] = "loaded" /\ revoked
  /\ completed' = Purged /\ Goes(s, "idle")
  /\ UNCHANGED <<serverVars, saved, inFlight, revoked, has, got, forgotten,
                 faults>>

\* The remembered exchange was of the same refresh token.
Recall(s) ==
  /\ pc[s] = "loaded" /\ ~revoked
  /\ Purged = has[s] /\ completed' = Purged
  /\ got' = [got EXCEPT ![s] = gave[has[s]]] /\ Goes(s, "save")
  /\ UNCHANGED <<serverVars, saved, inFlight, revoked, has, forgotten, faults>>

\* A call in flight is joined, of whatever refresh token it is.
Join(s) ==
  /\ pc[s] = "loaded" /\ ~revoked
  /\ Purged # has[s] /\ inFlight
  /\ completed' = Purged /\ Goes(s, "wait")
  /\ UNCHANGED <<serverVars, saved, inFlight, revoked, has, got, forgotten,
                 faults>>

BeginUnjoined(s) ==   \* variant
  /\ pc[s] = "loaded" /\ ~revoked
  /\ Purged # has[s]
  /\ completed' = Purged /\ inFlight' = TRUE /\ Goes(s, "exchange")
  /\ UNCHANGED <<serverVars, saved, revoked, has, got, forgotten, faults>>
Begin(s) ==
  /\ pc[s] = "loaded" /\ ~revoked
  /\ Purged # has[s] /\ ~inFlight
  /\ completed' = Purged /\ inFlight' = TRUE /\ Goes(s, "exchange")
  /\ UNCHANGED <<serverVars, saved, revoked, has, got, forgotten, faults>>

\* exchange: the server rotates a refresh token it has not seen before; the
\* new credential may be due at once.  Its answer may be lost.
Grant(s) ==
  /\ pc[s] = "exchange" /\ ~Spent(has[s])
  /\ issued < MaxCredential /\ issued' = issued + 1
  /\ gave' = [gave EXCEPT ![has[s]] = issued + 1]
  /\ \E l \in {"fresh", "due"} : life' = [life EXCEPT ![issued + 1] = l]
  /\ Goes(s, "answered")
  /\ \/ got' = [got EXCEPT ![s] = issued + 1] /\ UNCHANGED <<forgotten, faults>>
     \/ /\ Fault
        /\ got' = [got EXCEPT ![s] = None]
        /\ forgotten' = forgotten \cup {has[s]}
  /\ UNCHANGED <<saved, refresherVars, has>>

\* It refuses a spent token, a call fails, a response is incomplete, or the
\* caller that began the exchange gives up.
Refuse(s) ==
  /\ pc[s] = "exchange" /\ Goes(s, "answered")
  /\ \/ (Spent(has[s]) \/ issued = MaxCredential) /\ UNCHANGED faults
     \/ Fault
  /\ got' = [got EXCEPT ![s] = None]
  /\ UNCHANGED <<serverVars, saved, refresherVars, has, forgotten>>

\* The exchange is over: its result goes to everyone who joined it.
Waiting == {w \in Sources : pc[w] = "wait"}
PublishRegardless(s) ==   \* variant
  LET credential == got[s]
      answered == Waiting \cup {s} IN
  /\ pc[s] = "answered"
  /\ inFlight' = FALSE
  /\ completed' = IF credential = None THEN completed ELSE has[s]
  /\ pc' = [x \in Sources |-> IF x \notin answered THEN pc[x]
                              ELSE IF credential = None THEN "idle" ELSE "save"]
  /\ got' = [x \in Sources |-> IF x \in answered THEN credential ELSE got[x]]
  /\ UNCHANGED <<serverVars, saved, revoked, has, forgotten, faults>>
Publish(s) ==
  LET credential == IF revoked THEN None ELSE got[s]
      answered == Waiting \cup {s} IN
  /\ pc[s] = "answered"
  /\ inFlight' = FALSE
  /\ completed' = IF credential = None THEN completed ELSE has[s]
  /\ pc' = [x \in Sources |-> IF x \notin answered THEN pc[x]
                              ELSE IF credential = None THEN "idle" ELSE "save"]
  /\ got' = [x \in Sources |-> IF x \in answered THEN credential ELSE got[x]]
  /\ UNCHANGED <<serverVars, saved, revoked, has, forgotten, faults>>

\* A joined caller gives up, or a source's load fails.
GiveUp(s) ==
  /\ pc[s] \in {"wait", "loaded"} /\ Goes(s, "idle") /\ Fault
  /\ UNCHANGED <<serverVars, saved, refresherVars, has, got, forgotten>>

Invalidate ==
  /\ ~revoked /\ revoked' = TRUE /\ completed' = None
  /\ UNCHANGED <<serverVars, saved, inFlight, sourceVars, forgotten, faults>>

-----------------------------------------------------------------------------
(* Time, and the end of the process. *)

Age(v) ==
  /\ v <= issued /\ life[v] # "expired"
  /\ life' = [life EXCEPT ![v] = IF @ = "fresh" THEN "due" ELSE "expired"]
  /\ UNCHANGED <<issued, gave, saved, refresherVars, sourceVars, forgotten,
                 faults>>

\* What a revoked scope does after a restart is a matter of its record.
Stop ==
  /\ ~revoked /\ Fault
  /\ inFlight' = FALSE /\ completed' = None
  /\ pc' = [s \in Sources |-> "idle"]
  /\ forgotten' = {t \in Credentials : Spent(t)}
  /\ UNCHANGED <<serverVars, saved, revoked, has, got>>

Init ==
  /\ issued = 0 /\ gave = [t \in Credentials |-> None]
  /\ life = [v \in Credentials |-> "fresh"]
  /\ saved = 0
  /\ inFlight = FALSE /\ completed = None /\ revoked = FALSE
  /\ pc = [s \in Sources |-> "idle"]
  /\ has = [s \in Sources |-> 0] /\ got = [s \in Sources |-> None]
  /\ forgotten = {} /\ faults = 0

\* What the code does on its own once it was called.
Advance(s) ==
  \/ Save(s) \/ RefuseRevoked(s) \/ Recall(s) \/ Join(s) \/ Begin(s)
  \/ Grant(s) \/ Refuse(s) \/ Publish(s)

Next ==
  \/ \E s \in Sources : Load(s) \/ Advance(s) \/ SaveFails(s) \/ GiveUp(s)
  \/ \E v \in Credentials : Age(v)
  \/ Invalidate \/ Stop

Spec == Init /\ [][Next]_vars

-----------------------------------------------------------------------------
(* Properties. *)

\* The types of the variables.
TypeOK ==
  /\ issued \in Credentials /\ gave \in [Credentials -> Credentials \cup {None}]
  /\ life \in [Credentials -> {"fresh", "due", "expired"}]
  /\ saved \in Credentials
  /\ inFlight \in BOOLEAN /\ completed \in Credentials \cup {None}
  /\ revoked \in BOOLEAN
  /\ pc \in [Sources ->
       {"idle", "loaded", "exchange", "answered", "wait", "save"}]
  /\ has \in [Sources -> Credentials]
  /\ got \in [Sources -> Credentials \cup {None}]
  /\ forgotten \subseteq Credentials /\ faults \in 0 .. MaxFaults

Exchanging == {s \in Sources : pc[s] \in {"exchange", "answered"}}

\* However many sources find the credential due, one exchange is under way at
\* a time, and nobody waits for one that is over (Refresh, inFlight).
OneExchange ==
  /\ \A s, r \in Exchanging : s = r
  /\ inFlight <=> Exchanging # {}
  /\ Waiting # {} => inFlight

\* "Refresh exchanges a rotating refresh token once": a spent token is sent
\* again only if its answer was lost with a call or the process, or if what it
\* was exchanged for has expired or was exchanged in turn.
Excused(t) ==
  \/ t \in forgotten
  \/ life[gave[t]] = "expired"
  \/ Spent(gave[t])
SpentTokenIsRecalled ==
  [][\A s \in Sources :
       pc[s] # "exchange" /\ pc'[s] = "exchange" /\ Spent(has[s])
         => Excused(has[s])]_vars

\* A scope's invalidation fences exchanges in flight: from then on no source is
\* given a credential to save, be it the caller or one that joined it.
NothingAfterRevocation ==
  [][revoked => \A s \in Sources : pc'[s] = "save" => pc[s] = "save"]_vars
=============================================================================
