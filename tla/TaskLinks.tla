----------------------------- MODULE TaskLinks -----------------------------
(***************************************************************************)
(* The pull requests a task is linked to: internal/plugin/links.go, and    *)
(* the requests that use it (workflow_associations.go, taskPullRequests;   *)
(* workflow_pull_request_actions.go).                                      *)
(*                                                                         *)
(* A call of the store holds its mutex from the load of the task's record  *)
(* to its save.  A request makes several calls and does not hold it in     *)
(* between: viewing a task lists its links, links what it discovers by     *)
(* branch, lists again and then links every listed pull request anew, with *)
(* what the provider answered in the meantime.                             *)
(*                                                                         *)
(* A pull request stands for its immutable identity; its display key, its  *)
(* URL and the records of releases without a provider scope are left out.  *)
(*                                                                         *)
(* A definition marked "variant" is the one below it with a plausible      *)
(* mistake; no specification uses it: it shows that a property can fail.   *)
(***************************************************************************)
EXTENDS Naturals, Sequences

CONSTANTS
  PRs,          \* pull requests of the connection
  Branch,       \* those from the task's checkout branch
  Clients,      \* requests that may be under way at once
  Nobody,
  Cap,          \* maxSuppressedPullRequests
  MaxFaults,    \* bound: failed loads and saves
  MaxRequests   \* bound: requests

ASSUME ConstantsAssumption ==
  /\ Branch \subseteq PRs
  /\ Nobody \notin Clients \cup PRs
  /\ Cap \in Nat \ {0} /\ MaxFaults \in Nat /\ MaxRequests \in Nat

VARIABLES
  stored,       \* the task's record in the host
  holder,       \* the client that holds the store's mutex
  view,         \* the record each client loaded
  pc,           \* how far its request is
  call,         \* the call of the store it makes
  left,         \* the listed links it has not linked anew
  wish,         \* history: what a person last asked for
  faults, requests

boundVars == <<faults, requests>>
vars == <<stored, holder, view, pc, call, left, wish, boundVars>>

Has(s, p) == \E i \in DOMAIN s : s[i] = p
Elements(s) == {s[i] : i \in DOMAIN s}
\* removeKey, and Unlink's loop over the links: "kept" after the n-th of them.
Without(s, p) ==
  LET kept[n \in 0 .. Len(s)] ==
        IF n = 0 THEN <<>>
        ELSE IF s[n] = p THEN kept[n - 1] ELSE Append(kept[n - 1], s[n])
  IN  kept[Len(s)]
Empty == [links |-> <<>>, suppressed |-> <<>>]

NoCall == [op |-> "none", pr |-> Nobody, locked |-> FALSE]
Call(op, p) == [op |-> op, pr |-> p, locked |-> FALSE]

-----------------------------------------------------------------------------
(* What the calls make of the record they loaded. *)

\* Link: an explicit link ends a suppression.
LinkedStill(v, p) ==   \* variant
  [v EXCEPT !.links = IF Has(@, p) THEN @ ELSE Append(@, p)]
Linked(v, p) ==
  [links |-> IF Has(v.links, p) THEN v.links ELSE Append(v.links, p),
   suppressed |-> Without(v.suppressed, p)]

AutoLinked(v, p) ==
  IF Has(v.suppressed, p) \/ Has(v.links, p) THEN v
  ELSE [v EXCEPT !.links = Append(@, p)]

\* Unlink: what was linked is suppressed; the oldest suppressions are dropped.
LatestButOne(s) == IF Len(s) >= Cap THEN Tail(s) ELSE s   \* variant
Latest(s) == IF Len(s) > Cap THEN SubSeq(s, Len(s) - Cap + 1, Len(s)) ELSE s
Unlinked(v, p) ==
  [links |-> Without(v.links, p),
   suppressed |-> Latest(IF Has(v.links, p) /\ ~Has(v.suppressed, p)
                           THEN Append(v.suppressed, p) ELSE v.suppressed)]

Result(op, v, p) ==
  CASE op = "Link" -> Linked(v, p)
    [] op = "AutoLink" -> AutoLinked(v, p)
    [] op = "Unlink" -> Unlinked(v, p)
    [] OTHER -> v

-----------------------------------------------------------------------------
(* One call of the store. *)

Ask == requests < MaxRequests /\ requests' = requests + 1 /\ UNCHANGED faults
Fault == faults < MaxFaults /\ faults' = faults + 1 /\ UNCHANGED requests

\* A failed call ends the request, but for a discovery and the second listing,
\* whose failure the view ignores.
Ignored(c) == pc[c] \in {"auto", "refresh"}
Answered(c, ok) ==
  /\ call' = [call EXCEPT ![c] = NoCall]
  /\ pc' = [pc EXCEPT ![c] =
       CASE ok /\ @ = "list" -> "auto"
         [] ~ok /\ @ = "auto" -> "found"
         [] @ = "request" \/ (~ok /\ ~Ignored(c)) -> "idle"
         [] OTHER -> @]
  /\ left' = [left EXCEPT ![c] =
       IF call[c].op = "List" /\ ok THEN Elements(view[c].links)
       ELSE IF pc'[c] = "idle" THEN {} ELSE @]

EnterUnlocked(c) ==   \* variant
  /\ call[c].op # "none" /\ ~call[c].locked
  /\ view' = [view EXCEPT ![c] = stored]
  /\ call' = [call EXCEPT ![c].locked = TRUE]
  /\ UNCHANGED <<stored, holder, pc, left, wish, boundVars>>
Enter(c) ==
  /\ call[c].op # "none" /\ ~call[c].locked
  /\ holder = Nobody /\ holder' = c
  /\ view' = [view EXCEPT ![c] = stored]
  /\ call' = [call EXCEPT ![c].locked = TRUE]
  /\ UNCHANGED <<stored, pc, left, wish, boundVars>>

Explicit(c) == pc[c] = "request"
Wished(c) ==
  [wish EXCEPT ![call[c].pr] =
     IF call[c].op = "Unlink" THEN "unlinked" ELSE "linked"]

\* The record is saved when the call has changed it; Unlink always saves.
Leave(c) ==
  /\ call[c].locked
  /\ holder' = Nobody
  /\ stored' = Result(call[c].op, view[c], call[c].pr)
  /\ wish' = IF Explicit(c) THEN Wished(c) ELSE wish
  /\ Answered(c, TRUE)
  /\ UNCHANGED <<view, boundVars>>

\* The load fails, or the save is reported to fail, with or without effect.
CallFails(c) ==
  /\ call[c].locked /\ Fault
  /\ holder' = Nobody
  /\ \/ UNCHANGED <<stored, wish>>
     \/ /\ stored' = Result(call[c].op, view[c], call[c].pr)
        /\ wish' = IF Explicit(c) THEN Wished(c) ELSE wish
  /\ Answered(c, FALSE)
  /\ UNCHANGED view

-----------------------------------------------------------------------------
(* The requests. *)

Goes(c, to, next) ==
  /\ call[c] = NoCall
  /\ pc' = [pc EXCEPT ![c] = to] /\ call' = [call EXCEPT ![c] = next]
  /\ UNCHANGED <<stored, holder, view, wish>>

\* A person links or unlinks; a launched task and a created pull request are
\* linked the same way.
Request(c, op, p) ==
  /\ pc[c] = "idle" /\ Ask
  /\ Goes(c, "request", Call(op, p)) /\ UNCHANGED left

View(c) ==
  /\ pc[c] = "idle" /\ Ask
  /\ Goes(c, "list", Call("List", Nobody)) /\ UNCHANGED left

\* autoLinkTaskPullRequests.
Discover(c, p) ==
  /\ pc[c] = "auto" /\ p \in Branch
  /\ Goes(c, "auto", Call("AutoLink", p)) /\ UNCHANGED <<left, boundVars>>

ListAgain(c) ==
  /\ pc[c] \in {"auto", "found"}
  /\ Goes(c, "refresh", Call("List", Nobody)) /\ UNCHANGED <<left, boundVars>>

\* The provider has answered for a listed link, or cannot.
RefreshLink(c, p) ==
  /\ pc[c] = "refresh" /\ p \in left[c]
  /\ left' = [left EXCEPT ![c] = @ \ {p}]
  /\ \E next \in {NoCall, Call("Link", p)} : Goes(c, "refresh", next)
  /\ UNCHANGED boundVars

\* The view is answered, or fails for want of the connection or the provider.
Viewed(c) ==
  /\ pc[c] \in {"auto", "found", "refresh"}
  /\ Goes(c, "idle", NoCall)
  /\ left' = [left EXCEPT ![c] = {}] /\ UNCHANGED boundVars

-----------------------------------------------------------------------------

Init ==
  /\ stored = Empty /\ holder = Nobody
  /\ view = [c \in Clients |-> Empty]
  /\ pc = [c \in Clients |-> "idle"] /\ call = [c \in Clients |-> NoCall]
  /\ left = [c \in Clients |-> {}] /\ wish = [p \in PRs |-> "none"]
  /\ faults = 0 /\ requests = 0

Next == \E c \in Clients :
  \/ Enter(c) \/ Leave(c) \/ CallFails(c)
  \/ View(c) \/ ListAgain(c) \/ Viewed(c)
  \/ \E p \in PRs : \/ Request(c, "Link", p) \/ Request(c, "Unlink", p)
                    \/ Discover(c, p) \/ RefreshLink(c, p)

Spec == Init /\ [][Next]_vars

-----------------------------------------------------------------------------
(* Properties. *)

Distinct(s) == \A i, j \in DOMAIN s : s[i] = s[j] => i = j

\* A record lists an identity at most once, as linked or as suppressed: no
\* sequence of calls leaves one both ways (Link, AutoLink, Unlink).
LinkedOrSuppressed ==
  /\ Distinct(stored.links) /\ Distinct(stored.suppressed)
  /\ Elements(stored.links) \cap Elements(stored.suppressed) = {}
  /\ Len(stored.suppressed) <= Cap

\* What a person linked stays linked until a person unlinks it, whatever views
\* and other requests save in the meantime (LinkStore, mu).
NoLinkLost == \A p \in PRs : wish[p] = "linked" => Has(stored.links, p)

\* A suppression ends by a link, or as one of the oldest of a full list.
SuppressionEndsByLinkOrCap ==
  [][\A p \in Elements(stored.suppressed) \ Elements(stored.suppressed') :
       \/ Has(stored.links', p)
       \/ Len(stored.suppressed') = Cap /\ p = stored.suppressed[1]]_vars

\* A suppression ends only by a later explicit Link (links.go, AutoLink), or as
\* one of the oldest of a full list.
OnlyExplicitLinkClears ==
  [][\A p \in Elements(stored.suppressed) \ Elements(stored.suppressed') :
       wish'[p] = "linked" \/ Len(stored.suppressed') = Cap]_vars

=============================================================================
