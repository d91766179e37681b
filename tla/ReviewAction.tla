---------------------------- MODULE ReviewAction ----------------------------
(***************************************************************************)
(* The action reviews.action of internal/plugin                            *)
(* (workflow_pull_request_actions.go): a person approves, comments on,     *)
(* merges or declines a pull request a task is associated with.            *)
(*                                                                         *)
(* The request names the pull request by its repository's immutable        *)
(* identity, but every call to the provider goes by a repository's path:   *)
(* the repositories are listed, page by page, to find the path of the      *)
(* identity, one call reads the pull request, on Data Center one more      *)
(* reads the version to merge or decline by, one changes the pull request  *)
(* and one reads the outcome.  In between other people edit and close pull *)
(* requests, and rename, remove and create repositories.                   *)
(*                                                                         *)
(* The listing is an honest provider's, a page holding one repository; how *)
(* the same loop fares with one that strays is in PullRequestQueue.        *)
(*                                                                         *)
(* Reads are tried up to Attempts times (getJSON); a change is sent once   *)
(* (json).  Whatever fails ends the request with an error, also after the  *)
(* change took effect.                                                     *)
(*                                                                         *)
(* A definition marked "variant" is the one below it with a plausible      *)
(* mistake; no specification uses it: it shows that a property can fail.   *)
(***************************************************************************)
EXTENDS Naturals, Sequences, FiniteSets

CONSTANTS
  Requests,
  MaxEdits,     \* bound: changes other people make to pull requests and
                \* repositories
  MaxRepos, MaxPaths,   \* bounds: identities and paths there are
  Attempts,     \* how often a read is tried (3 in the code)
  None

RepoIds == 1 .. MaxRepos  \* in the order of the listing
Target == MaxRepos        \* the identity the requests name
Paths == 1 .. MaxPaths
Nowhere == 0
LinkedPath == 1           \* where the target was when the task was linked to it
Kinds == {"comment", "merge"}   \* "comment" for approvals and replies as well,
Decisions == {"merge"}          \* "merge" for merging and declining

VARIABLES
  product,   \* "cloud" or "datacenter"
  \* The provider.
  where,     \* each repository's path
  pr,        \* the pull request of the requested number in each repository
  edits,     \* changes made by others
  \* The requests.
  pc, kind, tries,
  next, path,     \* in the listing, and the path it gave
  seen,      \* what each request read last
  result,    \* how it ended
  \* History.
  moved,     \* requests during which the target's path changed
  missing,   \* requests whose last read is no longer what is there
  landed     \* where a request's change took effect, and what it missed

providerVars == <<where, pr, edits>>
lookup == <<next, path>>
history == <<moved, missing>>
vars == <<product, providerVars, pc, kind, tries, lookup, seen, result, history,
          landed>>

There(repo) == where[repo] # Nowhere

\* What GetPullRequest maps: the repository is the one it was asked for, not
\* one the answer names, so what is read may be another repository's.
Snapshot(repo) ==
  [repo |-> repo, version |-> pr[repo].version, carries |-> pr[repo].carries]

Reading == {"list", "get", "version", "reread"}
Steps(r, to) == pc' = [pc EXCEPT ![r] = to] /\ tries' = [tries EXCEPT ![r] = 0]
Goes(r, to) == Steps(r, to) /\ UNCHANGED <<lookup, result>>
Ends(r, how) ==
  /\ Steps(r, "done") /\ result' = [result EXCEPT ![r] = how]
  /\ next' = [next EXCEPT ![r] = 0] /\ path' = [path EXCEPT ![r] = Nowhere]

-----------------------------------------------------------------------------
(* The request up to the provider's change. *)

\* The complete identity is asked for and found among the task's links.
Call(r, k) ==
  /\ pc[r] = "idle" /\ Goes(r, "list") /\ kind' = [kind EXCEPT ![r] = k]
  /\ UNCHANGED <<product, providerVars, seen, history, landed>>

\* The listing's n-th page, and whether it names a further one.
Before(repo) == Cardinality({q \in 1 .. repo - 1 : There(q)})
OnPage(n) == {repo \in RepoIds : There(repo) /\ Before(repo) = n}
More(n) == \E repo \in RepoIds : There(repo) /\ Before(repo) > n

ListedByPath(r) ==   \* variant: whatever is at the path the task was linked by
  IF \E repo \in OnPage(next[r]) : where[repo] = LinkedPath THEN LinkedPath ELSE path[r]
\* The path of the identity, where the listing has it first.
Listed(r) ==
  IF path[r] = Nowhere /\ Target \in OnPage(next[r]) THEN where[Target] ELSE path[r]

\* listAllRepositories, a page at each call, and persistedRepository: the
\* request goes on at the path its identity has, wherever that is by now.
ListPage(r) ==
  /\ pc[r] = "list"
  /\ \/ /\ More(next[r]) /\ Steps(r, "list") /\ UNCHANGED result
        /\ next' = [next EXCEPT ![r] = @ + 1]
        /\ path' = [path EXCEPT ![r] = Listed(r)]
     \/ /\ ~ More(next[r]) /\ Listed(r) # Nowhere
        /\ Steps(r, "get") /\ UNCHANGED result
        /\ next' = [next EXCEPT ![r] = 0]
        /\ path' = [path EXCEPT ![r] = Listed(r)]
     \/ ~ More(next[r]) /\ Listed(r) = Nowhere /\ Ends(r, "error")
  /\ UNCHANGED <<product, providerVars, kind, seen, history, landed>>

\* A read is answered with the pull request of whoever is at the path.
Read(r, repo) ==
  /\ where[repo] = path[r]
  /\ seen' = [seen EXCEPT ![r] = Snapshot(repo)] /\ missing' = missing \ {r}

\* pullRequestLookup's read; its comparison with the identity asked for is of
\* what it passed in.
Get(r) ==
  /\ pc[r] = "get" /\ \E repo \in RepoIds : Read(r, repo)
  /\ Goes(r, IF product = "datacenter" /\ kind[r] \in Decisions
             THEN "version" ELSE "send")
  /\ UNCHANGED <<product, providerVars, kind, moved, landed>>

\* Data Center's MutatePullRequest: the version to merge or decline by; one
\* that is not positive is refused.
GetVersion(r) ==
  /\ pc[r] = "version" /\ \E repo \in RepoIds : Read(r, repo)
  /\ IF seen'[r].version > 0 THEN Goes(r, "send") ELSE Ends(r, "error")
  /\ UNCHANGED <<product, providerVars, kind, moved, landed>>

\* The read after the change, and the answer.
Reread(r) ==
  /\ pc[r] = "reread" /\ \E repo \in RepoIds : Read(r, repo)
  /\ Ends(r, "ok")
  /\ UNCHANGED <<product, providerVars, kind, moved, landed>>

\* getJSON: too many requests or a server error is waited out and tried again.
Retry(r) ==
  /\ pc[r] \in Reading
  /\ IF tries[r] < Attempts - 1
       THEN tries' = [tries EXCEPT ![r] = @ + 1] /\ UNCHANGED <<pc, lookup, result>>
     ELSE Ends(r, "error")
  /\ UNCHANGED <<product, providerVars, kind, seen, history, landed>>

\* Any other failure, of a read or before a change is sent, nobody being at the
\* path any more among them; the wait is given up with the request.
Fails(r) ==
  /\ pc[r] \in Reading \cup {"send"} /\ Ends(r, "error")
  /\ UNCHANGED <<product, providerVars, kind, seen, history, landed>>

-----------------------------------------------------------------------------
(* The change. *)

\* Those who read the repository's pull request before it is changed again.
Readers(repo) == {q \in Requests : seen[q] # None /\ seen[q].repo = repo}

\* The provider's side of it: a decision needs an open pull request.
Carried(r, repo) ==
  [pr EXCEPT ![repo] =
     [state |-> IF kind[r] \in Decisions THEN "closed" ELSE @.state,
      version |-> IF kind[r] \in Decisions THEN @.version + 1 ELSE @.version,
      carries |-> @.carries \cup {r}]]

\* It takes effect on the pull request of whoever is at the path; the answer is
\* read, or lost.
Lands(r, repo) ==
  /\ where[repo] = path[r]
  /\ kind[r] \in Decisions => pr[repo].state = "open"
  /\ pr' = Carried(r, repo)
  /\ missing' = IF kind[r] \in Decisions THEN missing \cup Readers(repo) ELSE missing
  /\ landed' = [landed EXCEPT ![r] =
       Append(@, [repo |-> repo, moved |-> r \in moved, missed |-> r \in missing])]

SendCloud(r) ==
  /\ product = "cloud" /\ pc[r] = "send"
  /\ \E repo \in RepoIds : Lands(r, repo)
  /\ Goes(r, "reread") \/ Ends(r, "error")
  /\ UNCHANGED <<product, where, edits, kind, seen, moved>>

SendUnversioned(r) ==   \* variant
  /\ product = "datacenter" /\ pc[r] = "send"
  /\ \E repo \in RepoIds : Lands(r, repo)
  /\ Goes(r, "reread") \/ Ends(r, "error")
  /\ UNCHANGED <<product, where, edits, kind, seen, moved>>
SendAgain(r) ==   \* variant: tried again like a read
  /\ product = "datacenter" /\ pc[r] = "send"
  /\ \E repo \in RepoIds :
       /\ kind[r] \in Decisions => pr[repo].version = seen[r].version
       /\ Lands(r, repo)
  /\ \/ Goes(r, "reread")
     \/ tries[r] < Attempts - 1 /\ tries' = [tries EXCEPT ![r] = @ + 1]
        /\ UNCHANGED <<pc, lookup, result>>
  /\ UNCHANGED <<product, where, edits, kind, seen, moved>>
SendAndAnswer(r) ==   \* variant: answers with what it read before
  /\ product = "datacenter" /\ pc[r] = "send"
  /\ \E repo \in RepoIds :
       /\ kind[r] \in Decisions => pr[repo].version = seen[r].version
       /\ Lands(r, repo)
  /\ Ends(r, "ok")
  /\ UNCHANGED <<product, where, edits, kind, seen, moved>>

\* A decision names the version that was read, and is refused on any other.
SendDataCenter(r) ==
  /\ product = "datacenter" /\ pc[r] = "send"
  /\ \E repo \in RepoIds :
       /\ kind[r] \in Decisions => pr[repo].version = seen[r].version
       /\ Lands(r, repo)
  /\ Goes(r, "reread") \/ Ends(r, "error")
  /\ UNCHANGED <<product, where, edits, kind, seen, moved>>

-----------------------------------------------------------------------------
(* Other people. *)

Edit(repo) ==
  /\ edits < MaxEdits /\ edits' = edits + 1 /\ There(repo)
  /\ pr' = [pr EXCEPT ![repo].version = @ + 1]
  /\ missing' = missing \cup Readers(repo)
  /\ UNCHANGED <<product, where, pc, kind, tries, lookup, seen, result,
                 moved, landed>>

Close(repo) ==
  /\ edits < MaxEdits /\ edits' = edits + 1 /\ There(repo)
  /\ pr[repo].state = "open"
  /\ pr' = [pr EXCEPT ![repo].version = @ + 1, ![repo].state = "closed"]
  /\ missing' = missing \cup Readers(repo)
  /\ UNCHANGED <<product, where, pc, kind, tries, lookup, seen, result,
                 moved, landed>>

\* A repository is renamed, or it comes into the listing (created, or moved or
\* shared there) at a path that is free, or leaves it.
Move(repo, to) ==
  /\ edits < MaxEdits /\ edits' = edits + 1
  /\ to # where[repo] /\ (to = Nowhere \/ \A q \in RepoIds : where[q] # to)
  /\ where' = [where EXCEPT ![repo] = to]
  /\ moved' = IF repo # Target THEN moved
              ELSE moved \cup {q \in Requests : pc[q] \notin {"idle", "done"}}
  /\ UNCHANGED <<product, pr, pc, kind, tries, lookup, seen, result,
                 missing, landed>>

Init ==
  /\ product \in {"cloud", "datacenter"}
  /\ where = [repo \in RepoIds |-> IF repo = Target THEN LinkedPath ELSE Nowhere]
  /\ \E v \in {0, 1} :
       pr = [repo \in RepoIds |-> [state |-> "open", version |-> v, carries |-> {}]]
  /\ edits = 0
  /\ pc = [r \in Requests |-> "idle"]
  /\ kind = [r \in Requests |-> "comment"]
  /\ tries = [r \in Requests |-> 0]
  /\ next = [r \in Requests |-> 0] /\ path = [r \in Requests |-> Nowhere]
  /\ seen = [r \in Requests |-> None]
  /\ result = [r \in Requests |-> "none"]
  /\ moved = {} /\ missing = {}
  /\ landed = [r \in Requests |-> <<>>]

\* What goes on once a request was called: calls are answered or time out.
Advance(r) ==
  \/ Fails(r) \/ ListPage(r) \/ Get(r) \/ GetVersion(r) \/ Reread(r)
  \/ Retry(r) \/ SendCloud(r) \/ SendDataCenter(r)

Others ==
  \E repo \in RepoIds :
    Edit(repo) \/ Close(repo) \/ \E to \in Paths \cup {Nowhere} : Move(repo, to)

Next == Others \/ \E r \in Requests : Advance(r) \/ \E k \in Kinds : Call(r, k)

Spec == Init /\ [][Next]_vars

-----------------------------------------------------------------------------
(* Properties. *)

PullRequests ==
  [state : {"open", "closed"}, version : Nat, carries : SUBSET Requests]
Snapshots == [repo : RepoIds, version : Nat, carries : SUBSET Requests]
Landings == [repo : RepoIds, moved : BOOLEAN, missed : BOOLEAN]

\* The types of the variables; a read is tried no more than Attempts times.
TypeOK ==
  /\ product \in {"cloud", "datacenter"}
  /\ where \in [RepoIds -> Paths \cup {Nowhere}]
  /\ pr \in [RepoIds -> PullRequests]
  /\ edits \in 0 .. MaxEdits
  /\ pc \in [Requests -> Reading \cup {"idle", "send", "done"}]
  /\ kind \in [Requests -> Kinds] /\ tries \in [Requests -> 0 .. Attempts - 1]
  /\ next \in [Requests -> Nat]
  /\ path \in [Requests -> Paths \cup {Nowhere}]
  /\ seen \in [Requests -> Snapshots \cup {None}]
  /\ result \in [Requests -> {"none", "ok", "error"}]
  /\ moved \subseteq Requests /\ missing \subseteq Requests
  /\ landed \in [Requests -> Seq(Landings)]

\* However reads are retried and answers lost, one request changes a pull
\* request at most once: a comment is not posted twice (json sends once).
AtMostOneEffect == \A r \in Requests : Len(landed[r]) <= 1

\* A request answered as done was carried out, and the pull request shown was
\* read after that, from the repository changed (unless that is gone).
AnswerIsTrue ==
  \A r \in Requests : result[r] = "ok" =>
    /\ Len(landed[r]) = 1
    /\ seen[r].repo = landed[r][1].repo => r \in seen[r].carries

\* On Data Center nobody's edit or decision comes between a merge or decline
\* and what its request read last, unless the path changed hands meanwhile.
DecisionMissesNothing ==
  \A r \in Requests : \A i \in 1 .. Len(landed[r]) :
    product = "datacenter" /\ kind[r] \in Decisions /\ ~ landed[r][i].moved =>
      ~ landed[r][i].missed

\* A request changes the repository it names, wherever that was renamed to
\* before it was called, and never one that took its path by then: only a
\* rename or removal during the request can mislead it
\* (TestWorkflows_TaskLinkDoesNotRetargetAfterRepositoryRecreation,
\* TestWorkflows_TaskGetKeepsAssociationAcrossRepositoryRename).
ChangesFollowTheRepository ==
  \A r \in Requests : \A i \in 1 .. Len(landed[r]) :
    landed[r][i].repo # Target => landed[r][i].moved
=============================================================================
