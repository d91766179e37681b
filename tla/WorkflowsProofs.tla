--------------------------- MODULE WorkflowsProofs ----------------------------
(***************************************************************************)
(* Proofs about the actions of Workflows: reviews.action for any requests, *)
(* repositories and changes of other people (ReviewAction), reviews.get    *)
(* for any listings, limits and changes while it reads (ReviewRead), and   *)
(* pullrequests.queue for any repositories, listings, page sizes and       *)
(* changes between calls (PullRequestQueue).                               *)
(***************************************************************************)
EXTENDS Workflows, SequenceTheorems, FiniteSetTheorems, WellFoundedInduction, TLAPS

\* A request that has read has a snapshot.
HasRead ==
  \A r \in Requests : pc[r] \in {"version", "send", "reread"} => seen[r] \in Action!Snapshots

\* A change was sent by nobody who is still to send it, and once.
SentOnce ==
  \A r \in Requests :
    \/ landed[r] = <<>> /\ pc[r] # "reread"
    \/ Len(landed[r]) = 1 /\ pc[r] \in {"reread", "done"}

\* What landed is carried by the pull request from then on.
Kept ==
  \A r \in Requests :
    landed[r] # <<>> => r \in pr[landed[r][1].repo].carries

\* Who is told that it is done, was shown it.
Shown ==
  \A r \in Requests : result[r] = "ok" =>
    /\ pc[r] = "done" /\ landed[r] # <<>>
    /\ seen[r] \in Action!Snapshots
    /\ seen[r].repo = landed[r][1].repo => r \in seen[r].carries

\* Versions grow with every change that outdates a read, and by those alone: a
\* read whose version is still there misses nothing.
OutOfDate ==
  \A r \in Requests : seen[r] # None =>
    /\ seen[r].version <= pr[seen[r].repo].version
    /\ r \in missing => seen[r].version < pr[seen[r].repo].version

\* Two repositories are not at one path.
OwnPaths ==
  \A p, q \in Action!RepoIds :
    where[p] = where[q] /\ where[p] # Action!Nowhere => p = q

\* A request during which the identity kept its path is on its way there, and
\* has read the identity's pull request.
Follows ==
  \A r \in Requests :
    /\ pc[r] \in {"idle", "done"} => path[r] = Action!Nowhere
    /\ r \notin moved =>
         /\ pc[r] = "list" => path[r] \in {Action!Nowhere, where[Action!Target]}
         /\ pc[r] \in {"get", "version", "send", "reread"} =>
              path[r] = where[Action!Target] /\ path[r] # Action!Nowhere
         /\ pc[r] \in {"version", "send"} => seen[r].repo = Action!Target

\* What is said of the change that landed.
LandedWell ==
  \A r \in Requests : landed[r] # <<>> =>
    /\ product = "datacenter" /\ kind[r] \in Action!Decisions /\ ~ landed[r][1].moved
         => ~ landed[r][1].missed
    /\ landed[r][1].repo # Action!Target => landed[r][1].moved

AInv ==
  /\ Action!TypeOK /\ HasRead /\ SentOnce /\ Kept /\ Shown
  /\ OutOfDate /\ OwnPaths /\ Follows /\ LandedWell

-----------------------------------------------------------------------------

PCs == {"list", "get", "version", "reread", "idle", "send", "done"}
Tries == 0 .. Attempts - 1

LEMMA Bounds ==
  /\ MaxRepos \in Nat \ {0} /\ MaxEdits \in Nat /\ Attempts \in Nat \ {0}
  /\ MaxPaths \in Nat \ {0}
  /\ Action!Target \in Action!RepoIds /\ Action!RepoIds \subseteq Nat
  /\ Action!LinkedPath \in Action!Paths /\ Action!Nowhere \notin Action!Paths
  /\ Action!Reading \cup {"idle", "send", "done"} = PCs
  /\ 0 \in Tries
<1>1. /\ MaxRepos \in Nat \ {0} /\ MaxEdits \in Nat /\ Attempts \in Nat \ {0}
      /\ MaxPaths \in Nat \ {0}
  BY ConstantsAssumption
<1>. QED
  BY <1>1 DEF Action!Target, Action!RepoIds, Action!LinkedPath, Action!Paths,
              Action!Nowhere, Action!Reading, PCs, Tries

\* None is not a snapshot, and what one records.
LEMMA SnapshotType ==
  ASSUME Action!TypeOK, NEW repo \in Action!RepoIds
  PROVE  /\ Action!Snapshot(repo) \in Action!Snapshots
         /\ Action!Snapshot(repo).repo = repo
         /\ Action!Snapshot(repo).version = pr[repo].version
         /\ Action!Snapshot(repo).carries = pr[repo].carries
         /\ None \notin Action!Snapshots
<1>1. pr[repo] \in Action!PullRequests
  BY DEF Action!TypeOK
<1>2. Action!Snapshots \subseteq [repo : Nat, version : Nat, carries : SUBSET Requests]
  BY Bounds DEF Action!Snapshots
<1>3. None \notin Action!Snapshots
  BY <1>2, ConstantsAssumption
<1>. QED
  BY <1>1, <1>3 DEF Action!Snapshot, Action!Snapshots, Action!PullRequests

LEMMA LandingType ==
  ASSUME Action!TypeOK, SentOnce, NEW r \in Requests, landed[r] # <<>>
  PROVE  landed[r][1].repo \in Action!RepoIds /\ Len(landed[r]) = 1
<1>1. landed[r] \in Seq(Action!Landings) /\ Len(landed[r]) = 1
  BY DEF Action!TypeOK, SentOnce
<1>2. landed[r][1] \in Action!Landings
  BY <1>1, ElementOfSeq
<1>. QED
  BY <1>1, <1>2 DEF Action!Landings

\* The step of one request through its program.
Moves(r, to, how, p) ==
  /\ pc' = [pc EXCEPT ![r] = to] /\ tries' \in [Requests -> Tries]
  /\ next' \in [Requests -> Nat] /\ path' = [path EXCEPT ![r] = p]
  /\ result' = [result EXCEPT ![r] = how]

LEMMA Moved ==
  ASSUME Action!TypeOK, NEW r \in Requests
  PROVE  /\ \A to : Action!Goes(r, to) => Moves(r, to, result[r], path[r])
         /\ \A to, p : Action!Steps(r, to) /\ path' = [path EXCEPT ![r] = p]
                         /\ next' \in [Requests -> Nat] /\ UNCHANGED result
                         => Moves(r, to, result[r], p)
         /\ \A how : Action!Ends(r, how) => Moves(r, "done", how, Action!Nowhere)
         /\ tries' = [tries EXCEPT ![r] = @ + 1] /\ tries[r] < Attempts - 1
              /\ UNCHANGED <<pc, next, path, result>>
              => Moves(r, pc[r], result[r], path[r])
<1>1. /\ result = [result EXCEPT ![r] = result[r]] /\ path = [path EXCEPT ![r] = path[r]]
      /\ pc = [pc EXCEPT ![r] = pc[r]]
      /\ [tries EXCEPT ![r] = 0] \in [Requests -> Tries]
      /\ next \in [Requests -> Nat] /\ [next EXCEPT ![r] = 0] \in [Requests -> Nat]
  BY Bounds DEF Action!TypeOK, Tries
<1>2. tries[r] < Attempts - 1 => [tries EXCEPT ![r] = @ + 1] \in [Requests -> Tries]
  BY Bounds DEF Action!TypeOK, Tries
<1>. QED
  BY <1>1, <1>2 DEF Action!Goes, Action!Steps, Action!Ends, Action!lookup, Moves

LEMMA MovesTypes ==
  ASSUME Action!TypeOK, NEW r \in Requests, NEW to \in PCs,
         NEW how \in {"none", "ok", "error"},
         NEW p \in Action!Paths \cup {Action!Nowhere}, Moves(r, to, how, p)
  PROVE  /\ pc' \in [Requests -> PCs] /\ tries' \in [Requests -> Tries]
         /\ next' \in [Requests -> Nat]
         /\ path' \in [Requests -> Action!Paths \cup {Action!Nowhere}]
         /\ result' \in [Requests -> {"none", "ok", "error"}]
         /\ pc'[r] = to /\ path'[r] = p /\ result'[r] = how
         /\ \A q \in Requests \ {r} :
              pc'[q] = pc[q] /\ path'[q] = path[q] /\ result'[q] = result[q]
<1>1. pc \in [Requests -> PCs]
  BY Bounds DEF Action!TypeOK
<1>. QED
  BY <1>1 DEF Action!TypeOK, Moves

\* A step that does nothing else: it ends the request, takes a page of the
\* listing, or tries again.
LEMMA MovesAInv ==
  ASSUME AInv, NEW r \in Requests, NEW to, NEW how, NEW p, Moves(r, to, how, p),
         UNCHANGED <<product, where, pr, edits, kind, seen, moved, missing, landed>>,
         \/ to = "done" /\ how = "error" /\ p = Action!Nowhere /\ pc[r] # "idle"
         \/ /\ pc[r] = "list" /\ to \in {"list", "get"} /\ how = result[r]
            /\ p \in {path[r], where[Action!Target]}
            /\ to = "get" => p # Action!Nowhere
         \/ to = pc[r] /\ how = result[r] /\ p = path[r]
  PROVE  AInv'
<1>. USE DEF AInv
<1>1. /\ to \in PCs /\ how \in {"none", "ok", "error"}
      /\ p \in Action!Paths \cup {Action!Nowhere}
      /\ pc[r] \in PCs /\ pc \in [Requests -> PCs]
  BY Bounds DEF Action!TypeOK, PCs
<1>2. /\ pc' \in [Requests -> PCs] /\ tries' \in [Requests -> Tries]
      /\ next' \in [Requests -> Nat]
      /\ path' \in [Requests -> Action!Paths \cup {Action!Nowhere}]
      /\ result' \in [Requests -> {"none", "ok", "error"}]
      /\ pc'[r] = to /\ path'[r] = p /\ result'[r] = how
      /\ \A q \in Requests \ {r} :
           pc'[q] = pc[q] /\ path'[q] = path[q] /\ result'[q] = result[q]
  BY <1>1, MovesTypes
<1>3. Action!TypeOK'
  BY <1>2, Bounds DEF Action!TypeOK, Tries
<1>4. HasRead' /\ SentOnce'
  BY <1>2 DEF HasRead, SentOnce
<1>5. Kept' /\ Shown'
  BY <1>2 DEF Kept, Shown
<1>6. OutOfDate' /\ OwnPaths' /\ LandedWell'
  BY DEF OutOfDate, OwnPaths, LandedWell
<1>7. Follows'
  BY <1>2 DEF Follows
<1>. QED
  BY <1>3, <1>4, <1>5, <1>6, <1>7

LEMMA ActionListPage ==
  ASSUME AInv, NEW r \in Requests, Action!ListPage(r)
  PROVE  AInv'
<1>1. /\ pc[r] = "list"
      /\ UNCHANGED <<product, where, pr, edits, kind, seen, moved, missing, landed>>
  BY DEF Action!ListPage, Action!providerVars, Action!history
<1>2. Action!Listed(r) \in {path[r], where[Action!Target]}
  BY DEF Action!Listed
<1>3. CASE Action!Ends(r, "error")
  <2>1. Moves(r, "done", "error", Action!Nowhere)
    BY <1>3, Moved DEF AInv
  <2>. QED
    BY <1>1, <2>1, MovesAInv
<1>4. ASSUME NEW to \in {"list", "get"}, Action!Steps(r, to), UNCHANGED result,
             path' = [path EXCEPT ![r] = Action!Listed(r)],
             next' = [next EXCEPT ![r] = @ + 1] \/ next' = [next EXCEPT ![r] = 0],
             to = "get" => Action!Listed(r) # Action!Nowhere
      PROVE  AInv'
  <2>1. next' \in [Requests -> Nat]
    <3>1. next \in [Requests -> Nat] /\ next[r] + 1 \in Nat
      BY DEF AInv, Action!TypeOK
    <3>. QED
      BY <1>4, <3>1
  <2>2. Moves(r, to, result[r], Action!Listed(r))
    BY <1>4, <2>1, Moved DEF AInv
  <2>. QED
    BY <1>1, <1>2, <1>4, <2>2, MovesAInv
<1>. QED
  BY <1>3, <1>4 DEF Action!ListPage

LEMMA RetryAInv ==
  ASSUME AInv, NEW r \in Requests, Action!Retry(r)
  PROVE  AInv'
<1>1. /\ pc[r] # "idle"
      /\ UNCHANGED <<product, where, pr, edits, kind, seen, moved, missing, landed>>
  BY DEF Action!Retry, Action!Reading, Action!providerVars, Action!history
<1>2. \/ Moves(r, pc[r], result[r], path[r])
      \/ Moves(r, "done", "error", Action!Nowhere)
  BY Moved DEF Action!Retry, Action!lookup, AInv
<1>. QED
  BY <1>1, <1>2, MovesAInv

LEMMA FailsAInv ==
  ASSUME AInv, NEW r \in Requests, Action!Fails(r)
  PROVE  AInv'
<1>1. /\ pc[r] # "idle"
      /\ UNCHANGED <<product, where, pr, edits, kind, seen, moved, missing, landed>>
  BY DEF Action!Fails, Action!Reading, Action!providerVars, Action!history
<1>2. Moves(r, "done", "error", Action!Nowhere)
  BY Moved DEF Action!Fails, AInv
<1>. QED
  BY <1>1, <1>2, MovesAInv

LEMMA CallAInv ==
  ASSUME AInv, NEW r \in Requests, NEW k \in Action!Kinds, Action!Call(r, k)
  PROVE  AInv'
<1>. USE DEF AInv
<1>1. /\ pc[r] = "idle" /\ Moves(r, "list", result[r], path[r])
      /\ kind' = [kind EXCEPT ![r] = k]
      /\ UNCHANGED <<product, where, pr, edits, seen, moved, missing, landed>>
  BY Moved DEF Action!Call, Action!providerVars, Action!history
<1>2. landed[r] = <<>> /\ result[r] # "ok" /\ path[r] = Action!Nowhere
  BY <1>1 DEF SentOnce, Shown, Follows
<1>3. /\ pc' \in [Requests -> PCs] /\ tries' \in [Requests -> Tries]
      /\ next' \in [Requests -> Nat]
      /\ path' \in [Requests -> Action!Paths \cup {Action!Nowhere}]
      /\ result' \in [Requests -> {"none", "ok", "error"}]
      /\ pc'[r] = "list" /\ path'[r] = path[r] /\ result'[r] = result[r]
      /\ \A q \in Requests \ {r} :
           pc'[q] = pc[q] /\ path'[q] = path[q] /\ result'[q] = result[q]
  <2>1. /\ "list" \in PCs /\ result[r] \in {"none", "ok", "error"}
        /\ path[r] \in Action!Paths \cup {Action!Nowhere}
    BY DEF Action!TypeOK, PCs
  <2>. QED
    BY <1>1, <2>1, MovesTypes
<1>4. Action!TypeOK'
  <2>1. kind' \in [Requests -> Action!Kinds]
    BY <1>1 DEF Action!TypeOK
  <2>. QED
    BY <1>1, <1>3, <2>1, Bounds DEF Action!TypeOK, Tries
<1>5. HasRead' /\ SentOnce'
  BY <1>1, <1>2, <1>3 DEF HasRead, SentOnce
<1>6. Kept' /\ Shown'
  BY <1>1, <1>2, <1>3 DEF Kept, Shown
<1>7. OutOfDate' /\ OwnPaths'
  BY <1>1 DEF OutOfDate, OwnPaths
<1>8. Follows'
  BY <1>1, <1>2, <1>3 DEF Follows
<1>9. LandedWell'
  <2>1. \A q \in Requests \ {r} : kind'[q] = kind[q]
    BY <1>1 DEF Action!TypeOK
  <2>. QED
    BY <1>1, <1>2, <2>1 DEF LandedWell
<1>. QED
  BY <1>4, <1>5, <1>6, <1>7, <1>8, <1>9

\* A read is of whoever is at the path: the identity itself, unless that moved.
LEMMA ReadAInv ==
  ASSUME AInv, NEW r \in Requests, NEW repo \in Action!RepoIds,
         NEW to \in {"version", "send", "done"}, NEW how, NEW p,
         Moves(r, to, how, p), pc[r] \in {"get", "version", "reread"},
         where[repo] = path[r], seen' = [seen EXCEPT ![r] = Action!Snapshot(repo)],
         missing' = missing \ {r},
         UNCHANGED <<product, where, pr, edits, kind, moved, landed>>,
         \/ pc[r] # "reread" /\ to # "done" /\ how = result[r] /\ p = path[r]
         \/ pc[r] # "reread" /\ to = "done" /\ how = "error" /\ p = Action!Nowhere
         \/ pc[r] = "reread" /\ to = "done" /\ how = "ok" /\ p = Action!Nowhere
  PROVE  AInv'
<1>. USE DEF AInv
<1>1. /\ to \in PCs /\ how \in {"none", "ok", "error"}
      /\ p \in Action!Paths \cup {Action!Nowhere}
  BY Bounds DEF Action!TypeOK, PCs
<1>2. /\ pc' \in [Requests -> PCs] /\ tries' \in [Requests -> Tries]
      /\ next' \in [Requests -> Nat]
      /\ path' \in [Requests -> Action!Paths \cup {Action!Nowhere}]
      /\ result' \in [Requests -> {"none", "ok", "error"}]
      /\ pc'[r] = to /\ path'[r] = p /\ result'[r] = how
      /\ \A q \in Requests \ {r} :
           pc'[q] = pc[q] /\ path'[q] = path[q] /\ result'[q] = result[q]
  BY <1>1, MovesTypes
<1>3. /\ seen' \in [Requests -> Action!Snapshots \cup {None}]
      /\ seen'[r] \in Action!Snapshots
      /\ seen'[r].repo = repo /\ seen'[r].version = pr[repo].version
      /\ seen'[r].carries = pr[repo].carries
      /\ \A q \in Requests \ {r} : seen'[q] = seen[q]
  BY SnapshotType DEF Action!TypeOK
<1>4. Action!TypeOK'
  BY <1>2, <1>3, Bounds DEF Action!TypeOK, Tries
<1>5. HasRead' /\ SentOnce'
  BY <1>2, <1>3 DEF HasRead, SentOnce
<1>6. Kept'
  BY DEF Kept
<1>7. Shown'
  <2>1. pc[r] = "reread" => landed[r] # <<>>
    <3>1. Len(<<>>) = 0 OBVIOUS
    <3>. QED BY <3>1 DEF SentOnce
  <2>2. pc[r] # "reread" => result[r] # "ok"
    BY DEF Shown
  <2>3. pc[r] = "reread" /\ repo = landed[r][1].repo => r \in seen'[r].carries
    BY <1>3, <2>1 DEF Kept
  <2>4. ASSUME result'[r] = "ok"
        PROVE  /\ pc'[r] = "done" /\ landed[r] # <<>>
               /\ repo = landed[r][1].repo => r \in seen'[r].carries
    BY <1>2, <2>1, <2>2, <2>3, <2>4
  <2>. QED
    BY <1>2, <1>3, <2>4 DEF Shown
<1>8. OutOfDate'
  <2>1. pr[repo].version \in Nat
    BY DEF Action!TypeOK, Action!PullRequests
  <2>. QED
    BY <1>3, <2>1 DEF OutOfDate
<1>9. OwnPaths' /\ LandedWell'
  BY DEF OwnPaths, LandedWell
<1>10. Follows'
  <2>1. r \notin moved => repo = Action!Target
    BY Bounds DEF Follows, OwnPaths
  <2>. QED
    BY <1>2, <1>3, <2>1 DEF Follows
<1>. QED
  BY <1>4, <1>5, <1>6, <1>7, <1>8, <1>9, <1>10

LEMMA GetAInv ==
  ASSUME AInv, NEW r \in Requests, Action!Get(r)
  PROVE  AInv'
<1>1. PICK repo \in Action!RepoIds : Action!Read(r, repo)
  BY DEF Action!Get
<1>2. PICK to \in {"version", "send"} : Moves(r, to, result[r], path[r])
  BY Moved DEF Action!Get, AInv
<1>3. /\ pc[r] = "get"
      /\ UNCHANGED <<product, where, pr, edits, kind, moved, landed>>
  BY DEF Action!Get, Action!providerVars
<1>4. /\ where[repo] = path[r] /\ seen' = [seen EXCEPT ![r] = Action!Snapshot(repo)]
      /\ missing' = missing \ {r}
  BY <1>1 DEF Action!Read
<1>5. Moves(r, "version", result[r], path[r]) => AInv'
  BY <1>3, <1>4, ReadAInv
<1>6. Moves(r, "send", result[r], path[r]) => AInv'
  BY <1>3, <1>4, ReadAInv
<1>. QED
  BY <1>2, <1>5, <1>6

LEMMA GetVersionAInv ==
  ASSUME AInv, NEW r \in Requests, Action!GetVersion(r)
  PROVE  AInv'
<1>1. PICK repo \in Action!RepoIds : Action!Read(r, repo)
  BY DEF Action!GetVersion
<1>2. \/ Moves(r, "send", result[r], path[r])
      \/ Moves(r, "done", "error", Action!Nowhere)
  BY Moved DEF Action!GetVersion, AInv
<1>3. /\ pc[r] = "version"
      /\ UNCHANGED <<product, where, pr, edits, kind, moved, landed>>
  BY DEF Action!GetVersion, Action!providerVars
<1>. QED
  BY <1>1, <1>2, <1>3, ReadAInv DEF Action!Read

LEMMA RereadAInv ==
  ASSUME AInv, NEW r \in Requests, Action!Reread(r)
  PROVE  AInv'
<1>1. PICK repo \in Action!RepoIds : Action!Read(r, repo)
  BY DEF Action!Reread
<1>2. Moves(r, "done", "ok", Action!Nowhere)
  BY Moved DEF Action!Reread, AInv
<1>3. /\ pc[r] = "reread"
      /\ UNCHANGED <<product, where, pr, edits, kind, moved, landed>>
  BY DEF Action!Reread, Action!providerVars
<1>. QED
  BY <1>1, <1>2, <1>3, ReadAInv DEF Action!Read

-----------------------------------------------------------------------------
(* Changes. *)

LEMMA AppendToNone ==
  ASSUME NEW S, NEW e \in S
  PROVE  /\ Append(<<>>, e) = <<e>> /\ <<e>> \in Seq(S)
         /\ Len(<<e>>) = 1 /\ <<e>>[1] = e /\ <<e>> # <<>>
<1>. QED
  OBVIOUS

\* A change outdates the reads of its pull request and makes it a new version,
\* or does neither.
LEMMA Outdates ==
  ASSUME AInv, NEW repo \in Action!RepoIds, NEW x \in Action!PullRequests,
         pr' = [pr EXCEPT ![repo] = x], UNCHANGED seen,
         \/ /\ x.version = pr[repo].version + 1
            /\ missing' = missing \cup Action!Readers(repo)
         \/ x.version = pr[repo].version /\ UNCHANGED missing
  PROVE  OutOfDate'
<1>. SUFFICES ASSUME NEW r \in Requests, seen[r] # None
     PROVE  /\ seen[r].version <= pr'[seen[r].repo].version
            /\ r \in missing' => seen[r].version < pr'[seen[r].repo].version
  BY DEF OutOfDate
<1>1. /\ seen[r] \in Action!Snapshots /\ seen[r].repo \in Action!RepoIds
      /\ seen[r].version \in Nat
  BY DEF AInv, Action!TypeOK, Action!Snapshots
<1>2. pr[seen[r].repo].version \in Nat /\ pr[repo].version \in Nat
  BY <1>1 DEF AInv, Action!TypeOK, Action!PullRequests
<1>3. /\ seen[r].version <= pr[seen[r].repo].version
      /\ r \in missing => seen[r].version < pr[seen[r].repo].version
  BY DEF AInv, OutOfDate
<1>4. CASE seen[r].repo = repo
  <2>1. pr'[seen[r].repo] = x
    BY <1>4 DEF AInv, Action!TypeOK
  <2>2. CASE x.version = pr[repo].version + 1
    BY <1>1, <1>2, <1>3, <1>4, <2>1, <2>2
  <2>3. CASE x.version = pr[repo].version /\ UNCHANGED missing
    BY <1>3, <1>4, <2>1, <2>3
  <2>. QED
    BY <2>2, <2>3
<1>5. CASE seen[r].repo # repo
  <2>1. pr'[seen[r].repo] = pr[seen[r].repo]
    BY <1>1, <1>5 DEF AInv, Action!TypeOK
  <2>2. r \in missing' => r \in missing
    BY <1>5 DEF Action!Readers
  <2>. QED
    BY <1>3, <2>1, <2>2
<1>. QED
  BY <1>4, <1>5

\* What a change does, whichever product it is sent to.
LEMMA LandsAInv ==
  ASSUME AInv, NEW r \in Requests, NEW repo \in Action!RepoIds,
         pc[r] = "send", Action!Lands(r, repo),
         product = "datacenter" /\ kind[r] \in Action!Decisions =>
           pr[repo].version = seen[r].version,
         Action!Goes(r, "reread") \/ Action!Ends(r, "error"),
         UNCHANGED <<product, where, edits, kind, seen, moved>>
  PROVE  AInv'
<1>. USE DEF AInv
<1>. DEFINE e == [repo |-> repo, moved |-> r \in moved, missed |-> r \in missing]
            decides == kind[r] \in Action!Decisions
            x == [state |-> IF decides THEN "closed" ELSE pr[repo].state,
                  version |-> IF decides THEN pr[repo].version + 1
                              ELSE pr[repo].version,
                  carries |-> pr[repo].carries \cup {r}]
<1>1. seen[r] \in Action!Snapshots /\ landed[r] = <<>> /\ result[r] # "ok"
  BY DEF HasRead, SentOnce, Shown
<1>2. pr[repo] \in Action!PullRequests
  BY DEF Action!TypeOK
<1>3. e \in Action!Landings /\ e.repo = repo
  BY DEF Action!Landings
<1>4. landed' = [landed EXCEPT ![r] = <<e>>] /\ <<e>> \in Seq(Action!Landings)
  <2>1. landed' = [landed EXCEPT ![r] = Append(@, e)]
    BY DEF Action!Lands
  <2>. HIDE DEF e
  <2>. QED
    BY <1>1, <1>3, <2>1, AppendToNone
<1>5. /\ Len(landed'[r]) = 1 /\ landed'[r] # <<>> /\ landed'[r][1] = e
      /\ \A q \in Requests \ {r} : landed'[q] = landed[q]
  <2>. HIDE DEF e
  <2>. QED
    BY <1>3, <1>4, AppendToNone DEF Action!TypeOK
<1>6. /\ pr' = [pr EXCEPT ![repo] = x] /\ x \in Action!PullRequests
      /\ x.carries = pr[repo].carries \cup {r}
      /\ \/ /\ x.version = pr[repo].version + 1
            /\ missing' = missing \cup Action!Readers(repo)
         \/ x.version = pr[repo].version /\ UNCHANGED missing
  BY <1>2 DEF Action!Lands, Action!Carried, Action!PullRequests
<1>. HIDE DEF x
<1>7. PICK to \in {"reread", "done"}, how \in {result[r], "error"},
           p \in {path[r], Action!Nowhere} :
        /\ Moves(r, to, how, p)
        /\ to = "reread" => p = path[r]
        /\ to = "done" => p = Action!Nowhere
  <2>1. Moves(r, "reread", result[r], path[r]) \/ Moves(r, "done", "error", Action!Nowhere)
    BY Moved
  <2>. QED
    BY <2>1
<1>8. /\ pc' \in [Requests -> PCs] /\ tries' \in [Requests -> Tries]
      /\ next' \in [Requests -> Nat]
      /\ path' \in [Requests -> Action!Paths \cup {Action!Nowhere}]
      /\ result' \in [Requests -> {"none", "ok", "error"}]
      /\ pc'[r] = to /\ path'[r] = p /\ result'[r] = how
      /\ \A q \in Requests \ {r} :
           pc'[q] = pc[q] /\ path'[q] = path[q] /\ result'[q] = result[q]
  <2>1. /\ to \in PCs /\ how \in {"none", "ok", "error"}
        /\ p \in Action!Paths \cup {Action!Nowhere}
    BY DEF Action!TypeOK, PCs
  <2>. QED
    BY <1>7, <2>1, MovesTypes
<1>9. Action!TypeOK'
  <2>1. landed' \in [Requests -> Seq(Action!Landings)]
    BY <1>4 DEF Action!TypeOK
  <2>2. pr' \in [Action!RepoIds -> Action!PullRequests]
    BY <1>6 DEF Action!TypeOK
  <2>3. missing' \subseteq Requests
    BY <1>6 DEF Action!TypeOK, Action!Readers
  <2>. QED
    BY <1>8, <2>1, <2>2, <2>3, Bounds DEF Action!TypeOK, Tries
<1>10. HasRead' /\ SentOnce'
  BY <1>1, <1>5, <1>8 DEF HasRead, SentOnce
<1>11. Kept'
  <2>1. /\ \A n \in Action!RepoIds : pr[n].carries \subseteq pr'[n].carries
        /\ r \in pr'[repo].carries
    BY <1>2, <1>6 DEF Action!TypeOK
  <2>2. \A q \in Requests : landed[q] # <<>> => landed[q][1].repo \in Action!RepoIds
    BY LandingType
  <2>. QED
    BY <1>3, <1>5, <2>1, <2>2 DEF Kept
<1>12. Shown'
  BY <1>1, <1>5, <1>8 DEF Shown
<1>13. OutOfDate'
  BY <1>6, Outdates
<1>14. OwnPaths'
  BY DEF OwnPaths
<1>15. Follows'
  BY <1>7, <1>8 DEF Follows
<1>16. LandedWell'
  <2>1. r \notin moved => repo = Action!Target /\ seen[r].repo = Action!Target
    BY Bounds DEF Follows, OwnPaths, Action!Lands
  <2>2. product = "datacenter" /\ decides /\ r \notin moved => r \notin missing
    <3>1. seen[r] # None
      BY <1>1, SnapshotType
    <3>2. pr[repo].version \in Nat
      BY <1>2 DEF Action!PullRequests
    <3>. QED
      BY <2>1, <3>1, <3>2 DEF OutOfDate
  <2>3. e.moved = (r \in moved) /\ e.missed = (r \in missing)
    OBVIOUS
  <2>. QED
    BY <1>3, <1>5, <2>1, <2>2, <2>3 DEF LandedWell
<1>. QED
  BY <1>9, <1>10, <1>11, <1>12, <1>13, <1>14, <1>15, <1>16

LEMMA SendAInv ==
  ASSUME AInv, NEW r \in Requests,
         Action!SendCloud(r) \/ Action!SendDataCenter(r)
  PROVE  AInv'
<1>1. CASE Action!SendCloud(r)
  BY <1>1, LandsAInv DEF Action!SendCloud
<1>2. CASE Action!SendDataCenter(r)
  BY <1>2, LandsAInv DEF Action!SendDataCenter
<1>. QED
  BY <1>1, <1>2

LEMMA EditedType ==
  ASSUME NEW p \in Action!PullRequests
  PROVE  /\ [p EXCEPT !.version = @ + 1] \in Action!PullRequests
         /\ [p EXCEPT !.version = @ + 1].carries = p.carries
         /\ [p EXCEPT !.version = @ + 1].version = p.version + 1
         /\ [p EXCEPT !.version = @ + 1, !.state = "closed"]
              \in Action!PullRequests
         /\ [p EXCEPT !.version = @ + 1, !.state = "closed"].carries = p.carries
         /\ [p EXCEPT !.version = @ + 1, !.state = "closed"].version = p.version + 1
<1>. USE DEF Action!PullRequests
<1>1. [p EXCEPT !.version = @ + 1] =
        [state |-> p.state, version |-> p.version + 1, carries |-> p.carries]
  OBVIOUS
<1>2. [p EXCEPT !.version = @ + 1, !.state = "closed"] =
        [state |-> "closed", version |-> p.version + 1, carries |-> p.carries]
  <2>1. [p EXCEPT !.version = @ + 1, !.state = "closed"] =
          [[p EXCEPT !.version = @ + 1] EXCEPT !.state = "closed"]
    OBVIOUS
  <2>2. [[state |-> p.state, version |-> p.version + 1, carries |-> p.carries]
           EXCEPT !.state = "closed"] =
          [state |-> "closed", version |-> p.version + 1, carries |-> p.carries]
    OBVIOUS
  <2>. QED
    BY <1>1, <2>1, <2>2
<1>. QED
  BY <1>1, <1>2

\* Other people's changes take nothing away from what a pull request carries.
LEMMA EditAInv ==
  ASSUME AInv, NEW repo \in Action!RepoIds, Action!Edit(repo) \/ Action!Close(repo)
  PROVE  AInv'
<1>. USE DEF AInv
<1>1. /\ edits' \in 0 .. MaxEdits
      /\ missing' = missing \cup Action!Readers(repo)
      /\ UNCHANGED <<product, where, pc, kind, tries, next, path, seen, result, moved,
                     landed>>
  BY Bounds DEF Action!Edit, Action!Close, Action!TypeOK, Action!lookup
<1>2. PICK x \in Action!PullRequests :
        /\ pr' = [pr EXCEPT ![repo] = x]
        /\ x.version = pr[repo].version + 1 /\ x.carries = pr[repo].carries
  <2>1. pr[repo] \in Action!PullRequests
    BY DEF Action!TypeOK
  <2>2. CASE Action!Edit(repo)
    <3>1. pr' = [pr EXCEPT ![repo] = [pr[repo] EXCEPT !.version = @ + 1]]
      BY <2>2 DEF Action!Edit
    <3>. QED
      BY <2>1, <3>1, EditedType
  <2>3. CASE Action!Close(repo)
    <3>1. pr' = [pr EXCEPT ![repo] =
                   [pr[repo] EXCEPT !.version = @ + 1, !.state = "closed"]]
      BY <2>3 DEF Action!Close
    <3>. QED
      BY <2>1, <3>1, EditedType
  <2>. QED
    BY <2>2, <2>3
<1>3. /\ pr' \in [Action!RepoIds -> Action!PullRequests]
      /\ \A n \in Action!RepoIds : pr'[n].carries = pr[n].carries
  BY <1>2 DEF Action!TypeOK
<1>4. Action!TypeOK'
  BY <1>1, <1>3 DEF Action!TypeOK, Action!Readers
<1>5. HasRead' /\ SentOnce' /\ Shown' /\ OwnPaths' /\ Follows' /\ LandedWell'
  BY <1>1 DEF HasRead, SentOnce, Shown, OwnPaths, Follows, LandedWell
<1>6. Kept'
  BY <1>1, <1>3, LandingType DEF Kept
<1>7. OutOfDate'
  BY <1>1, <1>2, Outdates
<1>. QED
  BY <1>4, <1>5, <1>6, <1>7

\* A repository that changes its path goes to one of its own, and the requests
\* under way are told apart from then on.
LEMMA MoveAInv ==
  ASSUME AInv, NEW repo \in Action!RepoIds,
         NEW to \in Action!Paths \cup {Action!Nowhere}, Action!Move(repo, to)
  PROVE  AInv'
<1>. USE DEF AInv
<1>1. /\ edits' \in 0 .. MaxEdits /\ where' = [where EXCEPT ![repo] = to]
      /\ to = Action!Nowhere \/ \A q \in Action!RepoIds : where[q] # to
      /\ moved \subseteq moved' /\ moved' \subseteq Requests
      /\ repo = Action!Target =>
           \A q \in Requests : pc[q] \notin {"idle", "done"} => q \in moved'
      /\ UNCHANGED <<product, pr, pc, kind, tries, next, path, seen, result, missing,
                     landed>>
  BY Bounds DEF Action!Move, Action!TypeOK, Action!lookup
<1>2. where' \in [Action!RepoIds -> Action!Paths \cup {Action!Nowhere}]
  BY <1>1 DEF Action!TypeOK
<1>3. Action!TypeOK'
  BY <1>1, <1>2 DEF Action!TypeOK
<1>4. HasRead' /\ SentOnce' /\ Kept' /\ Shown' /\ OutOfDate' /\ LandedWell'
  BY <1>1 DEF HasRead, SentOnce, Kept, Shown, OutOfDate, LandedWell
<1>5. OwnPaths'
  BY <1>1 DEF OwnPaths, Action!TypeOK
<1>6. Follows'
  <2>1. repo # Action!Target => where'[Action!Target] = where[Action!Target]
    BY <1>1, Bounds DEF Action!TypeOK
  <2>. QED
    BY <1>1, <2>1 DEF Follows
<1>. QED
  BY <1>3, <1>4, <1>5, <1>6

LEMMA InitAInv == Action!Init => AInv
<1>. SUFFICES ASSUME Action!Init PROVE AInv
  OBVIOUS
<1>. USE Bounds DEF Action!Init
<1>1. pr \in [Action!RepoIds -> Action!PullRequests]
  BY DEF Action!PullRequests
<1>2. /\ product \in {"cloud", "datacenter"} /\ edits \in 0 .. MaxEdits
      /\ where \in [Action!RepoIds -> Action!Paths \cup {Action!Nowhere}]
  OBVIOUS
<1>3. /\ pc \in [Requests -> PCs] /\ kind \in [Requests -> Action!Kinds]
      /\ tries \in [Requests -> Tries] /\ next \in [Requests -> Nat]
      /\ path \in [Requests -> Action!Paths \cup {Action!Nowhere}]
      /\ result \in [Requests -> {"none", "ok", "error"}]
  BY DEF Action!Kinds, PCs
<1>4. /\ seen \in [Requests -> Action!Snapshots \cup {None}]
      /\ landed \in [Requests -> Seq(Action!Landings)]
      /\ moved \subseteq Requests /\ missing \subseteq Requests
  OBVIOUS
<1>5. Action!TypeOK
  BY <1>1, <1>2, <1>3, <1>4 DEF Action!TypeOK, Tries
<1>6. /\ HasRead /\ SentOnce /\ Kept /\ Shown /\ OutOfDate /\ OwnPaths /\ Follows
      /\ LandedWell
  BY DEF HasRead, SentOnce, Kept, Shown, OutOfDate, OwnPaths, Follows, LandedWell
<1>. QED
  BY <1>5, <1>6 DEF AInv

LEMMA NextAInv == AInv /\ Action!Next => AInv'
<1>. SUFFICES ASSUME AInv, Action!Next PROVE AInv'
  OBVIOUS
<1>1. ASSUME NEW r \in Requests, Action!Advance(r) PROVE AInv'
  BY <1>1, ActionListPage, GetAInv, GetVersionAInv, RereadAInv, RetryAInv,
     FailsAInv, SendAInv
  DEF Action!Advance
<1>2. ASSUME NEW r \in Requests, NEW k \in Action!Kinds, Action!Call(r, k)
      PROVE  AInv'
  BY <1>2, CallAInv
<1>3. ASSUME Action!Others PROVE AInv'
  BY <1>3, EditAInv, MoveAInv DEF Action!Others
<1>. QED
  BY <1>1, <1>2, <1>3 DEF Action!Next

-----------------------------------------------------------------------------

\* The invariant of the action, when that is what is served.
WInv == serves = "reviews.action" => AInv

LEMMA WInvHolds == Spec => []WInv
<1>1. Init => WInv
  BY InitAInv DEF Init, WInv
<1>2. WInv /\ [Next]_vars => WInv'
  <2>. SUFFICES ASSUME WInv, [Next]_vars, serves' = "reviews.action" PROVE AInv'
    BY DEF WInv
  <2>1. CASE ServeAction
    BY <2>1, NextAInv DEF ServeAction, WInv
  <2>2. ~ ServeQueue /\ ~ ServeReview
    BY DEF ServeQueue, OnlyQueue, ServeReview, OnlyReview
  <2>3. CASE UNCHANGED vars
    <3>1. AInv /\ UNCHANGED <<product, where, pc, seen, result, pr, edits, kind, tries,
                              next, path, moved, missing, landed>>
      BY <2>3 DEF vars, ofHandlers, ofAction, WInv
    <3>2. Action!TypeOK'
      BY <3>1 DEF AInv, Action!TypeOK
    <3>3. HasRead' /\ SentOnce' /\ Kept' /\ Shown'
      BY <3>1 DEF AInv, HasRead, SentOnce, Kept, Shown
    <3>4. OutOfDate' /\ OwnPaths' /\ Follows' /\ LandedWell'
      BY <3>1 DEF AInv, OutOfDate, OwnPaths, Follows, LandedWell
    <3>. QED
      BY <3>2, <3>3, <3>4 DEF AInv
  <2>. QED
    BY <2>1, <2>2, <2>3 DEF Next
<1>. QED
  BY <1>1, <1>2, PTL DEF Spec

\* However reads are retried, answers lost and requests repeated by others, one
\* request changes a pull request at most once (json sends once).
THEOREM OneEffect == Spec => []AtMostOneEffect
<1>1. WInv => AtMostOneEffect
  <2>. SUFFICES ASSUME AInv, NEW r \in Requests PROVE Len(landed[r]) <= 1
    BY DEF WInv, AtMostOneEffect, Action!AtMostOneEffect
  <2>1. landed[r] = <<>> => Len(landed[r]) = 0
    OBVIOUS
  <2>2. CASE landed[r] = <<>>
    BY <2>1, <2>2
  <2>3. CASE Len(landed[r]) = 1
    BY <2>3
  <2>. QED
    BY <2>2, <2>3 DEF AInv, SentOnce
<1>. QED
  BY <1>1, WInvHolds, PTL

\* A request answered as done was carried out and shows so, unless the path
\* went to another repository since (MutatePullRequest reads after the change).
THEOREM TrueAnswer == Spec => []AnswerIsTrue
<1>1. WInv => AnswerIsTrue
  BY DEF WInv, AInv, SentOnce, Shown, AnswerIsTrue, Action!AnswerIsTrue
<1>. QED
  BY <1>1, WInvHolds, PTL

\* Whoever else edits, merges or declines meanwhile, a merge or decline on Data
\* Center misses no change made since its request's last read: versions grow
\* with every change, and the path led to one repository throughout.
THEOREM DecidesOnTheLatest == Spec => []DecisionMissesNothing
<1>1. ASSUME WInv PROVE DecisionMissesNothing
  <2>. SUFFICES ASSUME AInv, NEW r \in Requests, NEW i \in 1 .. Len(landed[r]),
                       product = "datacenter", kind[r] \in Action!Decisions,
                       ~ landed[r][i].moved
       PROVE  ~ landed[r][i].missed
    BY <1>1 DEF WInv, DecisionMissesNothing, Action!DecisionMissesNothing
  <2>1. landed[r] # <<>> /\ i = 1
    BY LandingType DEF AInv
  <2>. QED
    BY <2>1 DEF AInv, LandedWell
<1>. QED
  BY <1>1, WInvHolds, PTL

\* Wherever the repository a request names was renamed to before, and whoever
\* took its path, the request changes that repository and no other, unless it
\* moves while the request is under way (persistedRepository).
THEOREM FollowsTheRepository == Spec => []ChangesFollowTheRepository
<1>1. ASSUME WInv PROVE ChangesFollowTheRepository
  <2>. SUFFICES ASSUME AInv, NEW r \in Requests, NEW i \in 1 .. Len(landed[r]),
                       landed[r][i].repo # Action!Target
       PROVE  landed[r][i].moved
    BY <1>1 DEF WInv, ChangesFollowTheRepository, Action!ChangesFollowTheRepository
  <2>1. landed[r] # <<>> /\ i = 1
    BY LandingType DEF AInv
  <2>. QED
    BY <2>1 DEF AInv, LandedWell
<1>. QED
  BY <1>1, WInvHolds, PTL

(***************************************************************************)
(* reviews.get.  The parts are read in one order, so what is already read  *)
(* of each listing is known from the part that is read now: all of what is *)
(* behind (Whole), and of a listing as much as the read has advanced       *)
(* (Reached).  Whatever is added meanwhile comes before everything else or *)
(* after it, so the entries up to a place stay the entries up to it, but   *)
(* for what was added (GrowsStep).                                         *)
(***************************************************************************)

ReadParts == {"pr", "diff", "files", "commits", "threads", "statuses", "viewer"}
Nth(step) ==
  CASE step = "idle" -> 0     [] step = "pr" -> 1       [] step = "diff" -> 2
    [] step = "files" -> 3    [] step = "commits" -> 4  [] step = "threads" -> 5
    [] step = "statuses" -> 6 [] step = "viewer" -> 7   [] step = "done" -> 8

Comments == [id : Nat, parent : Nat]
Items == [id : Nat] \cup Comments

ReviewTypes ==
  /\ honest \in BOOLEAN /\ listed \in Nat /\ pushes \in Nat /\ start \in Nat
  /\ comments \in Seq(Comments)
  /\ pc \in ReadParts \cup {"idle", "done"}
  /\ result \in {"none", "ok", "error"}
  /\ read \in [Review!Listings -> Seq(Items)] /\ read["threads"] \in Seq(Comments)

\* The entries up to a place have been read, new ones aside.
IsRead(part, e) ==
  e.id <= listed => \E j \in 1 .. Len(read[part]) : read[part][j] = e
Reached(part, n) == \A i \in 1 .. n : IsRead(part, Review!Entries(part)[i])
Whole(part) == Reached(part, Len(Review!Entries(part)))

NothingLost ==
  /\ listed <= Len(comments)
  /\ pc \in Review!Listings => start <= Len(Review!Entries(pc)) /\ Reached(pc, start)
  /\ result # "error" =>
       \A part \in Review!Called \cap Review!Listings :
         Nth(part) < Nth(pc) => Whole(part)
  /\ pc # "done" => result = "none"

ReviewInv == ReviewTypes /\ (honest => NothingLost)

\* What Order and After come to.
LEMMA OrderOfParts ==
  /\ Review!ToSet(Review!Order) = ReadParts
  /\ \A part \in ReadParts : Nth(part) \in 1 .. 7 /\ Review!Order[Nth(part)] = part
  /\ \A i \in 1 .. 7 : Review!Order[i] \in ReadParts /\ Nth(Review!Order[i]) = i
<1>1. /\ Review!Order[1] = "pr" /\ Review!Order[2] = "diff"
      /\ Review!Order[3] = "files" /\ Review!Order[4] = "commits"
      /\ Review!Order[5] = "threads" /\ Review!Order[6] = "statuses"
      /\ Review!Order[7] = "viewer" /\ DOMAIN Review!Order = 1 .. 7
  BY DEF Review!Order
<1>2. /\ Nth("pr") = 1 /\ Nth("diff") = 2 /\ Nth("files") = 3 /\ Nth("commits") = 4
      /\ Nth("threads") = 5 /\ Nth("statuses") = 6 /\ Nth("viewer") = 7
  BY DEF Nth
<1>3. \A part \in ReadParts : Nth(part) \in 1 .. 7 /\ Review!Order[Nth(part)] = part
  BY <1>1, <1>2 DEF ReadParts
<1>4. ASSUME NEW i \in 1 .. 7
      PROVE  Review!Order[i] \in ReadParts /\ Nth(Review!Order[i]) = i
  <2>1. i = 1 \/ i = 2 \/ i = 3 \/ i = 4 \/ i = 5 \/ i = 6 \/ i = 7
    OBVIOUS
  <2>. QED BY <1>1, <1>2, <2>1 DEF ReadParts
<1>5. Review!ToSet(Review!Order) = ReadParts
  BY <1>1, <1>3, <1>4 DEF Review!ToSet
<1>. QED BY <1>3, <1>4, <1>5

LEMMA AfterIsNext ==
  ASSUME NEW part \in ReadParts
  PROVE  LET further == Review!After(part)
         IN  /\ further \in ReadParts \cup {"done"} /\ Nth(part) < Nth(further)
             /\ \A q \in ReadParts :
                  Nth(part) < Nth(q) /\ Nth(q) < Nth(further) => q \notin Review!Called
<1> DEFINE i == Nth(part)
           rest == {j \in i + 1 .. 7 : Review!Order[j] \in Review!Called}
<1>1. i \in 1 .. 7 /\ \A j \in 1 .. 7 : Review!Order[j] = part => j = i
  BY OrderOfParts
<1>2. (CHOOSE j \in 1 .. 7 : Review!Order[j] = part) = i
  BY <1>1, OrderOfParts
<1>3. Review!After(part) = IF rest = {} THEN "done" ELSE Review!Order[Review!Min(rest)]
  <2>. DEFINE c == CHOOSE j \in 1 .. 7 : Review!Order[j] = part
  <2>1. Review!After(part) =
          LET r == {j \in c + 1 .. 7 : Review!Order[j] \in Review!Called}
          IN  IF r = {} THEN "done" ELSE Review!Order[Review!Min(r)]
    BY DEF Review!After
  <2>. HIDE DEF c
  <2>2. c = i BY <1>2 DEF c
  <2>. QED BY <2>1, <2>2
<1>4. Nth("done") = 8 BY DEF Nth
<1>5. CASE rest = {}
  <2>1. \A q \in ReadParts : Nth(part) < Nth(q) => q \notin Review!Called
    BY <1>1, <1>5, OrderOfParts
  <2>. QED BY <1>1, <1>3, <1>4, <1>5, <2>1
<1>6. CASE rest # {}
  <2>1. \E m \in rest : \A j \in rest : m <= j
    <3>1. rest \subseteq 2 .. 7 BY <1>1
    <3>. HIDE DEF rest
    <3>2. PICK r \in rest : TRUE BY <1>6
    <3>3. \A j \in rest : j = 2 \/ j = 3 \/ j = 4 \/ j = 5 \/ j = 6 \/ j = 7
      BY <3>1
    <3>4. CASE 2 \in rest BY <3>3, <3>4
    <3>5. CASE 2 \notin rest /\ 3 \in rest BY <3>3, <3>5
    <3>6. CASE 2 \notin rest /\ 3 \notin rest /\ 4 \in rest BY <3>3, <3>6
    <3>7. CASE 2 \notin rest /\ 3 \notin rest /\ 4 \notin rest
      BY <3>2, <3>3, <3>7
    <3>. QED BY <3>4, <3>5, <3>6, <3>7
  <2>2. Review!Min(rest) \in rest /\ \A j \in rest : Review!Min(rest) <= j
    BY <2>1 DEF Review!Min
  <2>. DEFINE m == Review!Min(rest)
  <2>. HIDE DEF m
  <2>3. m \in i + 1 .. 7 /\ \A j \in rest : m <= j BY <2>2 DEF m
  <2>4. Review!After(part) = Review!Order[m] BY <1>3, <1>6 DEF m
  <2>5. Nth(Review!Order[m]) = m /\ Review!Order[m] \in ReadParts
    BY <1>1, <2>3, OrderOfParts
  <2>6. ASSUME NEW q \in ReadParts, Nth(part) < Nth(q), Nth(q) < m
        PROVE  q \notin Review!Called
    BY <1>1, <2>3, <2>6, OrderOfParts
  <2>. QED BY <1>1, <2>3, <2>4, <2>5, <2>6
<1>. QED BY <1>5, <1>6

-----------------------------------------------------------------------------
(* One page of a listing. *)

LEMMA EntriesOfListing ==
  ASSUME ReviewTypes, NEW part \in Review!Listings
  PROVE  /\ Review!Entries(part) \in Seq(Items) /\ Len(Review!Entries(part)) \in Nat
         /\ part = "threads" => Review!Entries(part) = comments
         /\ part = "commits" =>
              Review!Entries(part) =
                [i \in 1 .. listed + pushes |-> [id |-> listed + pushes + 1 - i]]
         /\ part \notin {"threads", "commits"} =>
              Review!Entries(part) = [i \in 1 .. listed |-> [id |-> i]]
<1>1. CASE part = "threads"
  BY <1>1, SeqMonotonic, LenProperties DEF Review!Entries, ReviewTypes, Items
<1>2. CASE part = "commits"
  <2>. DEFINE n == listed + pushes
              s == [i \in 1 .. n |-> [id |-> n + 1 - i]]
  <2>1. Review!Entries(part) = s BY <1>2 DEF Review!Entries
  <2>2. n \in Nat BY DEF ReviewTypes
  <2>. HIDE DEF n
  <2>3. s \in Seq(Items) /\ Len(s) = n BY <2>2 DEF Items
  <2>. QED BY <1>2, <2>1, <2>2, <2>3 DEF n
<1>3. CASE part \notin {"threads", "commits"}
  <2>. DEFINE s == [i \in 1 .. listed |-> [id |-> i]]
  <2>1. Review!Entries(part) = s BY <1>3 DEF Review!Entries
  <2>2. s \in Seq(Items) /\ Len(s) = listed BY DEF ReviewTypes, Items
  <2>. QED BY <1>3, <2>1, <2>2 DEF ReviewTypes
<1>. QED BY <1>1, <1>2, <1>3

\* What was read with the page added: its length and its elements.
WithPage(s, entries, from, last) == s \o SubSeq(entries, from + 1, last)
HasPage(all, s, entries, from, last) ==
  /\ all \in Seq(Items)
  /\ Len(all) = Len(s) + (IF from <= last THEN last - from ELSE 0)
  /\ \A i \in 1 .. Len(s) : all[i] = s[i]
  /\ \A i \in from + 1 .. last : all[Len(s) + i - from] = entries[i]
  /\ \A i \in Len(s) + 1 .. Len(all) :
       \E j \in from + 1 .. last : all[i] = entries[j]

LEMMA PageAdded ==
  ASSUME NEW s \in Seq(Items), NEW entries \in Seq(Items), NEW from \in Nat,
         NEW last \in Nat, last <= Len(entries)
  PROVE  HasPage(WithPage(s, entries, from, last), s, entries, from, last)
<1> DEFINE page == SubSeq(entries, from + 1, last)
           all == WithPage(s, entries, from, last)
<1>0. all = s \o page BY DEF WithPage
<1>1. \A i \in from + 1 .. last : entries[i] \in Items
  BY ElementOfSeq
<1>2. /\ page \in Seq(Items) /\ Len(page) = (IF from <= last THEN last - from ELSE 0)
      /\ \A i \in 1 .. last - from : page[i] = entries[from + i]
  BY <1>1, SubSeqProperties, LenProperties
<1>. HIDE DEF page, all
<1>3. /\ all \in Seq(Items) /\ Len(all) = Len(s) + Len(page)
      /\ \A i \in 1 .. Len(s) + Len(page) :
           all[i] = IF i <= Len(s) THEN s[i] ELSE page[i - Len(s)]
  BY <1>0, <1>2, ConcatProperties
<1>4. Len(s) \in Nat BY LenProperties
<1>5. \A i \in 1 .. Len(s) : all[i] = s[i]
  <2>1. PICK k \in Nat : k = Len(page) BY <1>2, LenProperties
  <2>2. PICK m \in Nat : m = Len(s) BY <1>4
  <2>3. \A i \in 1 .. m : i \in 1 .. m + k /\ i <= m OBVIOUS
  <2>. QED BY <1>3, <2>1, <2>2, <2>3
<1>6. ASSUME NEW i \in from + 1 .. last
      PROVE  all[Len(s) + i - from] = entries[i]
  <2>1. Len(s) + i - from \in 1 .. Len(s) + Len(page) BY <1>2, <1>4
  <2>2. i - from \in 1 .. last - from BY <1>4
  <2>3. (Len(s) + i - from) - Len(s) = i - from /\ from + (i - from) = i BY <1>4
  <2>4. all[Len(s) + i - from] = page[i - from] BY <1>3, <1>4, <2>1, <2>2, <2>3
  <2>. QED BY <1>2, <2>2, <2>3, <2>4
<1>7. ASSUME NEW i \in Len(s) + 1 .. Len(all)
      PROVE  \E j \in from + 1 .. last : all[i] = entries[j]
  <2>1. i - Len(s) \in 1 .. last - from BY <1>2, <1>3, <1>4
  <2>2. all[i] = page[i - Len(s)] BY <1>2, <1>3, <1>4
  <2>3. from + (i - Len(s)) \in from + 1 .. last BY <1>4, <2>1
  <2>. QED BY <1>2, <2>1, <2>2, <2>3
<1>8. HasPage(all, s, entries, from, last)
  BY <1>2, <1>3, <1>5, <1>6, <1>7 DEF HasPage
<1>. QED BY <1>8 DEF all

-----------------------------------------------------------------------------
(* The actions. *)

\* The read of a part is over.
LEMMA GoesOn ==
  ASSUME ReviewInv, pc \in ReadParts, ReviewTypes', Review!Goes(pc),
         UNCHANGED <<Review!setting, Review!provider>>,
         \A part \in Review!Listings \ {pc} : read'[part] = read[part],
         \A part \in Review!Listings : honest /\ part = pc => Whole(part)'
  PROVE  ReviewInv'
<1>1. /\ pc' = Review!After(pc) /\ start' = 0
      /\ result' = (IF pc' = "done" THEN "ok" ELSE result)
      /\ UNCHANGED <<product, projection, honest, listed, comments, pushes>>
  BY DEF Review!Goes, Review!setting, Review!provider
<1>2. /\ pc' \in ReadParts \cup {"done"} /\ Nth(pc) < Nth(pc')
      /\ \A q \in ReadParts :
           Nth(pc) < Nth(q) /\ Nth(q) < Nth(pc') => q \notin Review!Called
  BY <1>1, AfterIsNext
<1>3. ASSUME honest PROVE NothingLost'
  <2>0. NothingLost BY <1>3 DEF ReviewInv
  <2>1. \A part \in ReadParts : Nth(part) \in 1 .. 7 BY OrderOfParts
  <2>2. Review!Listings \subseteq ReadParts BY DEF Review!Listings, ReadParts
  <2>3. pc' \in Review!Listings => start' <= Len(Review!Entries(pc))' /\ Reached(pc, start)'
    <3>. SUFFICES ASSUME pc' \in Review!Listings
         PROVE  0 <= Len(Review!Entries(pc)') /\ Reached(pc, start)'
      BY <1>1
    <3>1. Len(Review!Entries(pc)') \in Nat
      <4>1. PICK part \in Review!Listings : part = pc' OBVIOUS
      <4>2. Review!Entries(pc)' = Review!Entries(part)
        BY <1>1, <4>1 DEF Review!Entries
      <4>. QED BY <4>2, EntriesOfListing DEF ReviewInv
    <3>2. Reached(pc, start)' BY <1>1 DEF Reached
    <3>. QED BY <3>1, <3>2
  <2>4. Review!Called' = Review!Called BY <1>1 DEF Review!Called
  <2>5. ASSUME NEW part \in Review!Called \cap Review!Listings,
               Nth(part) < Nth(pc'), result' # "error"
        PROVE  Whole(part)'
    <3>1. CASE part = pc BY <1>3, <3>1
    <3>2. CASE Nth(pc) < Nth(part) BY <1>2, <2>2, <2>5, <3>2
    <3>3. CASE Nth(part) < Nth(pc)
      <4>1. result # "error" BY <1>1, <2>0, <2>5 DEF NothingLost, ReadParts
      <4>2. Whole(part) BY <2>0, <3>3, <4>1 DEF NothingLost
      <4>3. read'[part] = read[part] BY <2>1, <2>2, <3>3
      <4>4. Review!Entries(part)' = Review!Entries(part) BY <1>1 DEF Review!Entries
      <4>5. Len(Review!Entries(part)) \in Nat BY EntriesOfListing DEF ReviewInv
      <4>. QED BY <1>1, <4>2, <4>3, <4>4, <4>5 DEF Whole, Reached, IsRead
    <3>4. Nth(part) = Nth(pc) => part = pc BY <2>2, OrderOfParts
    <3>. QED BY <2>1, <2>2, <3>1, <3>2, <3>3, <3>4
  <2>6. pc' # "done" => result' = "none" BY <1>1, <2>0 DEF NothingLost, ReadParts
  <2>7. listed' <= Len(comments') BY <1>1, <2>0 DEF NothingLost
  <2>. QED BY <2>3, <2>4, <2>5, <2>6, <2>7 DEF NothingLost
<1>. QED BY <1>1, <1>3 DEF ReviewInv

LEMMA ReviewRefused ==
  ASSUME ReviewInv, Review!Refuses, pc # "idle", UNCHANGED <<Review!setting, Review!provider>>
  PROVE  ReviewInv'
<1>1. /\ pc' = "done" /\ result' = "error"
      /\ UNCHANGED <<honest, listed, pushes, comments, start, read>>
  BY DEF Review!Refuses, Review!setting, Review!provider, Review!position
<1>2. ReviewTypes' BY <1>1 DEF ReviewInv, ReviewTypes
<1>3. honest => NothingLost'
  BY <1>1 DEF ReviewInv, NothingLost, Review!Listings
<1>. QED BY <1>1, <1>2, <1>3 DEF ReviewInv

LEMMA CallStep ==
  ASSUME ReviewInv, Review!Call
  PROVE  ReviewInv'
<1>1. /\ pc = "idle" /\ pc' = "pr"
      /\ UNCHANGED <<product, projection, honest, listed, pushes, comments, start, read,
                     result>>
  BY DEF Review!Call, Review!setting, Review!provider, Review!position
<1>2. ReviewTypes' BY <1>1 DEF ReviewInv, ReviewTypes, ReadParts
<1>3. /\ Nth("pr") = 1 /\ Nth("files") = 3 /\ Nth("commits") = 4
      /\ Nth("threads") = 5 /\ Nth("statuses") = 6
  BY DEF Nth
<1>4. honest => NothingLost'
  BY <1>1, <1>3 DEF ReviewInv, NothingLost, Review!Listings
<1>. QED BY <1>1, <1>2, <1>4 DEF ReviewInv

LEMMA ReadOneStep ==
  ASSUME ReviewInv, Review!ReadOne
  PROVE  ReviewInv'
<1>1. /\ pc \in {"pr", "diff", "viewer"} /\ Review!Goes(pc)
      /\ UNCHANGED <<Review!setting, Review!provider>> /\ read' = read
  BY DEF Review!ReadOne
<1>2. pc \in ReadParts /\ pc \notin Review!Listings
  BY <1>1 DEF ReadParts, Review!Listings
<1>3. ReviewTypes'
  BY <1>1, <1>2, AfterIsNext
  DEF ReviewInv, ReviewTypes, Review!Goes, Review!setting, Review!provider
<1>. QED BY <1>1, <1>2, <1>3, GoesOn

LEMMA ReadPageStep ==
  ASSUME ReviewInv, Review!ReadPage
  PROVE  ReviewInv'
<1>1. pc \in Review!Listings /\ UNCHANGED <<Review!setting, Review!provider>>
  BY DEF Review!ReadPage
<1>2. pc \in ReadParts /\ pc # "idle" /\ pc # "done"
  BY <1>1 DEF Review!Listings, ReadParts
<1>3. CASE Review!Refuses BY <1>1, <1>2, <1>3, ReviewRefused
<1>4. CASE ~ Review!Refuses
  <2>. DEFINE entries == Review!Entries(pc)
              upTo(n) == IF start + n < Len(entries) THEN start + n ELSE Len(entries)
              all(n) == read[pc] \o SubSeq(entries, start + 1, upTo(n))
  <2>1. PICK size2 \in Sizes :
          \/ \E to \in Review!Following(pc, size2) : Review!Continues(all(size2), to)
          \/ /\ honest => Review!Following(pc, size2) = {}
             /\ read' = [read EXCEPT ![pc] = all(size2)] /\ Review!Goes(pc)
    BY <1>4 DEF Review!ReadPage, Review!RefusesAtLimit
  <2>2. size2 \in Nat \ {0} BY ConstantsAssumption
  <2>3. /\ entries \in Seq(Items) /\ Len(entries) \in Nat
        /\ pc = "threads" => entries = comments
    BY <1>1, EntriesOfListing DEF ReviewInv
  <2>. DEFINE last == upTo(size2)
              now == all(size2)
  <2>4. read[pc] \in Seq(Items) /\ start \in Nat /\ listed \in Nat
    BY <1>1 DEF ReviewInv, ReviewTypes
  <2>5. last \in Nat /\ last <= Len(entries) BY <2>2, <2>3, <2>4
  <2>6. /\ now \in Seq(Items)
        /\ Len(now) = Len(read[pc]) + (IF start <= last THEN last - start ELSE 0)
        /\ \A i \in 1 .. Len(read[pc]) : now[i] = read[pc][i]
        /\ \A i \in start + 1 .. last : now[Len(read[pc]) + i - start] = entries[i]
        /\ \A i \in Len(read[pc]) + 1 .. Len(now) :
             \E j \in start + 1 .. last : now[i] = entries[j]
    <3>1. now = WithPage(read[pc], entries, start, last) BY DEF WithPage
    <3>. HIDE DEF entries, last, now, upTo, all
    <3>2. HasPage(now, read[pc], entries, start, last)
      BY <2>3, <2>4, <2>5, <3>1, PageAdded
    <3>. QED BY <3>2 DEF HasPage
  <2>7. \A n \in Nat : ~ honest => Review!Following(pc, n) \subseteq Nat
    BY <2>4 DEF Review!Following
  <2>8. honest => /\ \A to \in Review!Following(pc, size2) :
                       to = start + size2 /\ start + size2 < Len(entries)
                  /\ Review!Following(pc, size2) = {} => ~ start + size2 < Len(entries)
    BY DEF Review!Following
  <2>9. Len(read[pc]) \in Nat /\ Len(now) \in Nat BY <2>4, <2>6, LenProperties
  <2>10. pc = "threads" => now \in Seq(Comments)
    <3>. SUFFICES ASSUME pc = "threads" PROVE now \in Seq(Comments)
      OBVIOUS
    <3>1. entries \in Seq(Comments) /\ read[pc] \in Seq(Comments)
      BY <2>3 DEF ReviewInv, ReviewTypes
    <3>. HIDE DEF now, last, entries
    <3>2. ASSUME NEW i \in 1 .. Len(now) PROVE now[i] \in Comments
      <4>1. CASE i \in 1 .. Len(read[pc]) BY <2>6, <3>1, <4>1, ElementOfSeq
      <4>2. CASE i \in Len(read[pc]) + 1 .. Len(now)
        <5>1. PICK j \in start + 1 .. last : now[i] = entries[j] BY <2>6, <4>2
        <5>2. j \in 1 .. Len(entries) BY <2>3, <2>4, <2>5
        <5>. QED BY <3>1, <5>1, <5>2, ElementOfSeq
      <4>. QED BY <2>9, <4>1, <4>2
    <3>. QED BY <2>6, <2>9, <3>2
  \* The entries up to the end of the page are among those read with it.
  <2>11. ASSUME honest
         PROVE  /\ start <= Len(entries)
                /\ \A i \in 1 .. last : entries[i].id <= listed =>
                     \E j \in 1 .. Len(now) : now[j] = entries[i]
    <3>1. start <= Len(entries) /\ Reached(pc, start)
      BY <1>1, <2>11 DEF ReviewInv, NothingLost
    <3>2. \A i \in 1 .. start : entries[i].id <= listed =>
            \E j \in 1 .. Len(read[pc]) : read[pc][j] = entries[i]
      BY <3>1 DEF Reached, IsRead
    <3>. HIDE DEF now, last, entries
    <3>3. ASSUME NEW i \in 1 .. last, entries[i].id <= listed
          PROVE  \E j \in 1 .. Len(now) : now[j] = entries[i]
      <4>1. CASE i \in 1 .. start
        <5>1. PICK j \in 1 .. Len(read[pc]) : read[pc][j] = entries[i]
          BY <3>2, <3>3, <4>1
        <5>2. Len(read[pc]) <= Len(now)
          <6>. DEFINE more == IF start <= last THEN last - start ELSE 0
          <6>1. more \in Nat BY <2>4, <2>5
          <6>2. Len(now) = Len(read[pc]) + more BY <2>6
          <6>. HIDE DEF more
          <6>. QED BY <2>9, <6>1, <6>2
        <5>3. now[j] = read[pc][j] /\ j \in 1 .. Len(now) BY <2>6, <2>9, <5>2
        <5>. QED BY <5>1, <5>3
      <4>2. CASE i \in start + 1 .. last
        <5>1. now[Len(read[pc]) + i - start] = entries[i] BY <2>6, <4>2
        <5>2. Len(read[pc]) + i - start \in 1 .. Len(now)
          <6>1. start <= last /\ i \in Int BY <2>4, <2>5, <4>2
          <6>2. Len(now) = Len(read[pc]) + (last - start) BY <2>6, <6>1
          <6>. QED BY <2>4, <2>5, <2>9, <4>2, <6>2
        <5>. QED BY <5>1, <5>2
      <4>. QED BY <2>4, <2>5, <4>1, <4>2
    <3>. QED BY <3>1, <3>3
  <2>12. UNCHANGED <<product, projection, honest, listed, comments, pushes>>
    BY <1>1 DEF Review!setting, Review!provider
  <2>13. ASSUME read' = [read EXCEPT ![pc] = now]
         PROVE  /\ read' \in [Review!Listings -> Seq(Items)]
                /\ read'["threads"] \in Seq(Comments) /\ read'[pc] = now
                /\ \A part \in Review!Listings \ {pc} : read'[part] = read[part]
    <3>. HIDE DEF now
    <3>. QED BY <1>1, <2>6, <2>10, <2>13 DEF ReviewInv, ReviewTypes, Review!Listings
  <2>14. CASE /\ honest => Review!Following(pc, size2) = {}
              /\ read' = [read EXCEPT ![pc] = now] /\ Review!Goes(pc)
    <3>1. honest => last = Len(entries) BY <2>8, <2>14
    <3>2. ReviewTypes'
      <4>1. pc' \in ReadParts \cup {"done"} /\ start' = 0
            /\ result' \in {"none", "ok", "error"}
        BY <1>2, <2>14, AfterIsNext DEF ReviewInv, ReviewTypes, Review!Goes
      <4>. HIDE DEF now
      <4>. QED BY <2>12, <2>13, <2>14, <4>1 DEF ReviewInv, ReviewTypes
    <3>3. ASSUME honest, NEW part \in Review!Listings, part = pc PROVE Whole(part)'
      <4>1. Review!Entries(part)' = entries BY <2>12, <3>3 DEF Review!Entries
      <4>2. read'[part] = now BY <2>13, <2>14, <3>3
      <4>3. \A i \in 1 .. Len(entries) : entries[i].id <= listed =>
              \E j \in 1 .. Len(now) : now[j] = entries[i]
        BY <2>11, <3>1, <3>3
      <4>. HIDE DEF now, last, entries
      <4>. QED BY <2>12, <4>1, <4>2, <4>3 DEF Whole, Reached, IsRead
    <3>. HIDE DEF now, last, entries
    <3>. QED BY <1>1, <1>2, <2>13, <2>14, <3>2, <3>3, GoesOn
  <2>15. ASSUME NEW to \in Review!Following(pc, size2), Review!Continues(now, to)
         PROVE  ReviewInv'
    <3>1. start' = to /\ read' = [read EXCEPT ![pc] = now] /\ UNCHANGED <<pc, result>>
      BY <2>15 DEF Review!Continues
    <3>2. honest => to = start + size2 /\ last = to /\ to < Len(entries)
      BY <2>8, <2>15
    <3>3. ReviewTypes'
      <4>1. to \in Nat BY <2>2, <2>4, <2>7, <2>15, <3>2 DEF ReviewInv, ReviewTypes
      <4>. HIDE DEF now
      <4>. QED BY <2>12, <2>13, <3>1, <4>1 DEF ReviewInv, ReviewTypes
    <3>4. ASSUME honest PROVE NothingLost'
      <4>0. NothingLost BY <3>4 DEF ReviewInv
      <4>1. start' <= Len(Review!Entries(pc))' /\ Reached(pc, start)'
        <5>1. Review!Entries(pc)' = entries BY <2>12, <3>1 DEF Review!Entries
        <5>2. read'[pc'] = now /\ start' = last BY <2>13, <3>1, <3>2, <3>4
        <5>3. last <= Len(entries) BY <2>5
        <5>4. \A i \in 1 .. last : entries[i].id <= listed =>
                \E j \in 1 .. Len(now) : now[j] = entries[i]
          BY <2>11, <3>4
        <5>. HIDE DEF now, last, entries
        <5>. QED BY <2>12, <5>1, <5>2, <5>3, <5>4 DEF Reached, IsRead
      <4>2. ASSUME NEW part \in Review!Called \cap Review!Listings,
                   Nth(part) < Nth(pc), result # "error"
            PROVE  Whole(part)'
        <5>1. \A q \in Review!Listings : Nth(q) \in 1 .. 7
          BY OrderOfParts DEF Review!Listings, ReadParts
        <5>2. part # pc BY <1>1, <4>2, <5>1
        <5>3. read'[part] = read[part] BY <2>13, <3>1, <5>2
        <5>4. Whole(part) BY <4>0, <4>2 DEF NothingLost
        <5>5. Review!Entries(part)' = Review!Entries(part) BY <2>12 DEF Review!Entries
        <5>. QED BY <2>12, <5>3, <5>4, <5>5 DEF Whole, Reached, IsRead
      <4>3. Review!Called' = Review!Called BY <2>12 DEF Review!Called
      <4>4. \A part \in Review!Called' \cap Review!Listings :
              Nth(part) < Nth(pc') /\ result' # "error" => Whole(part)'
        BY <3>1, <4>2, <4>3
      <4>5. listed' <= Len(comments') /\ (pc' # "done" => result' = "none")
        BY <2>12, <3>1, <4>0 DEF NothingLost
      <4>. HIDE DEF now, last, entries
      <4>. QED BY <4>1, <4>4, <4>5 DEF NothingLost
    <3>. QED BY <2>12, <3>3, <3>4 DEF ReviewInv
  <2>. QED BY <2>1, <2>14, <2>15
<1>. QED BY <1>3, <1>4

-----------------------------------------------------------------------------
(* Other people. *)

\* A listing with a later entry before all others or after them.
Joined(s, t, e) ==
  /\ e.id \in Nat /\ e.id > listed /\ Len(t) = Len(s) + 1
  /\ \/ (\A i \in 1 .. Len(s) : t[i] = s[i]) /\ t[Len(s) + 1] = e
     \/ (\A i \in 1 .. Len(s) : t[i + 1] = s[i]) /\ t[1] = e

LEMMA JoinedIsRead ==
  ASSUME ReviewTypes, NEW part, NEW s, NEW t, NEW e, Joined(s, t, e),
         Len(s) \in Nat, NEW n \in 0 .. Len(s),
         \A i \in 1 .. n : IsRead(part, s[i])
  PROVE  /\ \A i \in 1 .. n : IsRead(part, t[i])
         /\ n = Len(s) => \A i \in 1 .. n + 1 : IsRead(part, t[i])
<1>1. IsRead(part, e)
  BY DEF IsRead, Joined, ReviewTypes
<1>2. CASE (\A i \in 1 .. Len(s) : t[i] = s[i]) /\ t[Len(s) + 1] = e
  <2>1. \A i \in 1 .. n : IsRead(part, t[i])
    BY <1>2
  <2>2. n = Len(s) => \A i \in 1 .. n + 1 : i \in 1 .. n \/ t[i] = e
    BY <1>2
  <2>. QED BY <1>1, <2>1, <2>2
<1>3. CASE (\A i \in 1 .. Len(s) : t[i + 1] = s[i]) /\ t[1] = e
  <2>1. ASSUME NEW i \in 1 .. n + 1 PROVE IsRead(part, t[i])
    <3>1. CASE i = 1 BY <1>1, <1>3, <3>1
    <3>2. CASE i # 1
      <4>1. i - 1 \in 1 .. n /\ i - 1 \in 1 .. Len(s) /\ (i - 1) + 1 = i BY <3>2
      <4>. QED BY <1>3, <4>1
    <3>. QED BY <3>1, <3>2
  <2>. QED BY <2>1
<1>. QED BY <1>2, <1>3 DEF Joined

LEMMA GrowsStep ==
  ASSUME ReviewInv, ReviewTypes', listed <= Len(comments) => listed <= Len(comments'),
         UNCHANGED <<product, projection, honest, listed, pc, start, read, result>>,
         \A part \in Review!Listings :
           \/ Review!Entries(part)' = Review!Entries(part)
           \/ \E e : Joined(Review!Entries(part), Review!Entries(part)', e)
  PROVE  ReviewInv'
<1>. SUFFICES ASSUME honest PROVE NothingLost'
  BY DEF ReviewInv
<1>0. NothingLost BY DEF ReviewInv
<1>1. ASSUME NEW part \in Review!Listings,
             NEW n \in 0 .. Len(Review!Entries(part)), Reached(part, n)
      PROVE  /\ Len(Review!Entries(part)) \in Nat /\ Len(Review!Entries(part)') \in Nat
             /\ n <= Len(Review!Entries(part)')
             /\ \A i \in 1 .. n : IsRead(part, Review!Entries(part)'[i])
             /\ n = Len(Review!Entries(part)) =>
                  \A i \in 1 .. Len(Review!Entries(part)') :
                    IsRead(part, Review!Entries(part)'[i])
  <2>1. Len(Review!Entries(part)) \in Nat BY EntriesOfListing DEF ReviewInv
  <2>2. \A i \in 1 .. n : IsRead(part, Review!Entries(part)[i]) BY <1>1 DEF Reached
  <2>3. CASE Review!Entries(part)' = Review!Entries(part) BY <2>1, <2>2, <2>3
  <2>4. ASSUME NEW e, Joined(Review!Entries(part), Review!Entries(part)', e)
        PROVE  /\ Len(Review!Entries(part)') = Len(Review!Entries(part)) + 1
               /\ \A i \in 1 .. n : IsRead(part, Review!Entries(part)'[i])
               /\ n = Len(Review!Entries(part)) =>
                    \A i \in 1 .. n + 1 : IsRead(part, Review!Entries(part)'[i])
    <3>1. PICK s, t : s = Review!Entries(part) /\ t = Review!Entries(part)'
      OBVIOUS
    <3>2. Joined(s, t, e) /\ Len(s) \in Nat /\ n \in 0 .. Len(s)
          /\ \A i \in 1 .. n : IsRead(part, s[i])
      BY <2>1, <2>2, <2>4, <3>1
    <3>3. ReviewTypes BY DEF ReviewInv
    <3>4. /\ \A i \in 1 .. n : IsRead(part, t[i])
          /\ n = Len(s) => \A i \in 1 .. n + 1 : IsRead(part, t[i])
      BY <3>2, <3>3, JoinedIsRead
    <3>. QED BY <3>1, <3>2, <3>4 DEF Joined
  <2>. QED BY <2>1, <2>3, <2>4
<1>2. pc' \in Review!Listings => start' <= Len(Review!Entries(pc))' /\ Reached(pc, start)'
  <2>. SUFFICES ASSUME NEW part \in Review!Listings, part = pc
       PROVE  start <= Len(Review!Entries(part)') /\ Reached(part, start)'
    BY DEF Reached, IsRead, Review!Entries
  <2>1. start \in 0 .. Len(Review!Entries(part)) /\ Reached(part, start)
    BY <1>0, EntriesOfListing DEF NothingLost, ReviewInv, ReviewTypes
  <2>. QED BY <1>1, <2>1 DEF Reached, IsRead
<1>3. ASSUME NEW part \in Review!Called \cap Review!Listings,
             Nth(part) < Nth(pc), result # "error"
      PROVE  Whole(part)'
  <2>1. Reached(part, Len(Review!Entries(part))) BY <1>0, <1>3 DEF NothingLost, Whole
  <2>2. Len(Review!Entries(part)) \in 0 .. Len(Review!Entries(part))
    BY EntriesOfListing DEF ReviewInv
  <2>. QED BY <1>1, <2>1, <2>2 DEF Whole, Reached, IsRead
<1>4. Review!Called' = Review!Called BY DEF Review!Called
<1>. QED BY <1>0, <1>2, <1>3, <1>4 DEF NothingLost

\* A commit comes first.
LEMMA PushStep ==
  ASSUME ReviewInv, Review!Push
  PROVE  ReviewInv'
<1>1. /\ pushes' = pushes + 1
      /\ UNCHANGED <<product, projection, honest, listed, comments, pc, start, read, result>>
  BY DEF Review!Push, Review!setting, Review!position
<1>2. ReviewTypes' BY <1>1 DEF ReviewInv, ReviewTypes
<1>3. ASSUME NEW part \in Review!Listings
      PROVE  \/ Review!Entries(part)' = Review!Entries(part)
             \/ \E e : Joined(Review!Entries(part), Review!Entries(part)', e)
  <2>1. CASE part # "commits" BY <1>1, <2>1 DEF Review!Entries
  <2>2. CASE part = "commits"
    <3>. DEFINE n == listed + pushes
                s == [i \in 1 .. n |-> [id |-> n + 1 - i]]
                t == [i \in 1 .. n + 1 |-> [id |-> (n + 1) + 1 - i]]
                e == [id |-> n + 1]
    <3>1. n \in Nat /\ listed \in Nat /\ n >= listed /\ pushes \in Nat
      BY DEF ReviewInv, ReviewTypes
    <3>2. Review!Entries(part) = s BY <2>2 DEF Review!Entries
    <3>3. Review!Entries(part)' = t
      <4>1. listed' + pushes' = n + 1 BY <1>1, <3>1
      <4>2. Review!Entries(part)' =
              [i \in 1 .. listed' + pushes' |-> [id |-> listed' + pushes' + 1 - i]]
        BY <2>2 DEF Review!Entries
      <4>. QED BY <4>1, <4>2
    <3>. HIDE DEF n
    <3>4. Len(s) = n /\ Len(t) = n + 1 BY <3>1
    <3>5. ASSUME NEW i \in 1 .. n PROVE t[i + 1] = s[i]
      <4>1. i + 1 \in 1 .. n + 1 /\ (n + 1) + 1 - (i + 1) = n + 1 - i BY <3>1
      <4>. QED BY <4>1
    <3>6. t[1] = e
      <4>1. 1 \in 1 .. n + 1 /\ (n + 1) + 1 - 1 = n + 1 BY <3>1
      <4>. QED BY <4>1
    <3>7. e.id \in Nat /\ e.id > listed BY <3>1
    <3>8. Joined(s, t, e)
      <4>. HIDE DEF s, t, e
      <4>. QED BY <3>4, <3>5, <3>6, <3>7 DEF Joined
    <3>. QED BY <3>2, <3>3, <3>8
  <2>. QED BY <2>1, <2>2
<1>. QED BY <1>1, <1>2, <1>3, GrowsStep

\* A comment comes first or last.
LEMMA CommentStep ==
  ASSUME ReviewInv, NEW parent \in 0 .. Len(comments), Review!Comment(parent)
  PROVE  ReviewInv'
<1> DEFINE new == [id |-> Len(comments) + 1, parent |-> parent]
<1>0. honest /\ listed <= Len(comments)
  BY DEF Review!Comment, ReviewInv, NothingLost
<1>1. /\ comments' = IF product = "cloud" THEN Append(comments, new)
                     ELSE <<new>> \o comments
      /\ UNCHANGED <<product, projection, honest, listed, pushes, pc, start, read, result>>
  BY DEF Review!Comment, Review!setting, Review!position
<1>2. comments \in Seq(Comments) /\ Len(comments) \in Nat
  BY LenProperties DEF ReviewInv, ReviewTypes
<1>3. new \in Comments BY <1>2 DEF Comments
<1>4. /\ comments' \in Seq(Comments) /\ Len(comments') = Len(comments) + 1
      /\ \/ /\ \A i \in 1 .. Len(comments) : comments'[i] = comments[i]
            /\ comments'[Len(comments) + 1] = new
         \/ /\ \A i \in 1 .. Len(comments) : comments'[i + 1] = comments[i]
            /\ comments'[1] = new
  <2>. HIDE DEF new
  <2>1. CASE product = "cloud" BY <1>1, <1>2, <1>3, <2>1, AppendProperties
  <2>2. CASE product # "cloud"
    <3>1. <<new>> \in Seq(Comments) /\ Len(<<new>>) = 1 /\ <<new>>[1] = new BY <1>3
    <3>2. comments' = <<new>> \o comments BY <1>1, <2>2
    <3>3. /\ comments' \in Seq(Comments) /\ Len(comments') = 1 + Len(comments)
          /\ \A i \in 1 .. 1 + Len(comments) :
               comments'[i] = IF i <= 1 THEN <<new>>[i] ELSE comments[i - 1]
      BY <1>2, <3>1, <3>2, ConcatProperties
    <3>4. \A i \in 1 .. Len(comments) : comments'[i + 1] = comments[i]
      <4>. TAKE i \in 1 .. Len(comments)
      <4>1. i + 1 \in 1 .. 1 + Len(comments) /\ ~ i + 1 <= 1 /\ (i + 1) - 1 = i
        BY <1>2
      <4>. QED BY <3>3, <4>1
    <3>5. comments'[1] = new BY <1>2, <3>1, <3>3
    <3>. QED BY <1>2, <3>3, <3>4, <3>5
  <2>. QED BY <2>1, <2>2
<1>5. ReviewTypes' BY <1>1, <1>4 DEF ReviewInv, ReviewTypes
<1>6. Joined(comments, comments', new)
  <2>1. new.id \in Nat /\ new.id > listed
    BY <1>0, <1>2 DEF ReviewInv, ReviewTypes
  <2>. HIDE DEF new
  <2>. QED BY <1>4, <2>1 DEF Joined
<1>7. ASSUME NEW part \in Review!Listings
      PROVE  \/ Review!Entries(part)' = Review!Entries(part)
             \/ \E e : Joined(Review!Entries(part), Review!Entries(part)', e)
  <2>1. CASE part # "threads" BY <1>1, <2>1 DEF Review!Entries
  <2>2. CASE part = "threads"
    <3>1. Review!Entries(part) = comments /\ Review!Entries(part)' = comments'
      BY <2>2 DEF Review!Entries
    <3>. HIDE DEF new
    <3>. QED BY <1>6, <3>1
  <2>. QED BY <2>1, <2>2
<1>8. listed <= Len(comments') BY <1>0, <1>2, <1>4 DEF ReviewInv, ReviewTypes
<1>. QED BY <1>1, <1>5, <1>7, <1>8, GrowsStep

LEMMA InitReviewInv == Review!Init => ReviewInv
<1>. SUFFICES ASSUME Review!Init PROVE ReviewInv
  OBVIOUS
<1>1. /\ honest \in BOOLEAN /\ pushes = 0 /\ listed \in Nat
      /\ pc = "idle" /\ start = 0 /\ result = "none"
      /\ read = [part \in Review!Listings |-> <<>>]
  BY ConstantsAssumption DEF Review!Init
<1>2. comments \in Seq(Comments) /\ Len(comments) = listed
  <2>1. PICK parents \in Review!Conversations(listed) :
          LET oldestFirst == [i \in 1 .. listed |-> [id |-> i, parent |-> parents[i]]]
          IN  comments = IF product = "cloud" THEN oldestFirst
                         ELSE Review!Reverse(oldestFirst)
    BY DEF Review!Init
  <2>. DEFINE oldestFirst == [i \in 1 .. listed |-> [id |-> i, parent |-> parents[i]]]
  <2>2. oldestFirst \in Seq(Comments) /\ Len(oldestFirst) = listed
    BY <1>1 DEF Review!Conversations, Comments
  <2>. HIDE DEF oldestFirst
  <2>3. \A i \in 1 .. listed : oldestFirst[i] \in Comments BY <2>2, ElementOfSeq
  <2>4. /\ Review!Reverse(oldestFirst) \in Seq(Comments)
        /\ Len(Review!Reverse(oldestFirst)) = listed
    <3>1. Review!Reverse(oldestFirst) =
            [i \in 1 .. listed |-> oldestFirst[(listed - i) + 1]]
      BY <2>2 DEF Review!Reverse
    <3>2. \A i \in 1 .. listed : (listed - i) + 1 \in 1 .. listed BY <1>1
    <3>. QED BY <1>1, <2>3, <3>1, <3>2
  <2>. QED BY <2>1, <2>2, <2>4 DEF oldestFirst
<1>3. <<>> \in Seq(Items) /\ <<>> \in Seq(Comments) OBVIOUS
<1>4. ReviewTypes BY <1>1, <1>2, <1>3 DEF ReviewTypes, Review!Listings
<1>5. NothingLost
  <2>1. \A part \in Review!Listings : Nth(part) \in 1 .. 7 /\ Nth("idle") = 0
    BY OrderOfParts DEF Nth, Review!Listings, ReadParts
  <2>. QED
    BY <1>1, <1>2, <2>1
    DEF NothingLost, Review!Listings
<1>. QED BY <1>4, <1>5 DEF ReviewInv

LEMMA NextReviewInv == ReviewInv /\ Review!Next => ReviewInv'
<1>. SUFFICES ASSUME ReviewInv, Review!Next PROVE ReviewInv'
  OBVIOUS
<1>1. CASE Review!CallFails BY <1>1, ReviewRefused DEF Review!CallFails
<1>2. CASE Review!Others BY <1>2, PushStep, CommentStep DEF Review!Others
<1>3. CASE Review!Call \/ Review!ReadOne \/ Review!ReadPage
  BY <1>3, CallStep, ReadOneStep, ReadPageStep
<1>. QED BY <1>1, <1>2, <1>3 DEF Review!Next

\* The invariant of the review, when that is what is served.
VInv == serves = "reviews.get" => ReviewInv

LEMMA VInvHolds == Spec => []VInv
<1>1. Init => VInv
  BY InitReviewInv DEF Init, VInv
<1>2. VInv /\ [Next]_vars => VInv'
  <2>. SUFFICES ASSUME VInv, [Next]_vars, serves' = "reviews.get" PROVE ReviewInv'
    BY DEF VInv
  <2>1. CASE ServeReview
    BY <2>1, NextReviewInv DEF ServeReview, VInv
  <2>2. ~ ServeQueue /\ ~ ServeAction
    BY DEF ServeQueue, OnlyQueue, ServeAction, OnlyAction
  <2>3. CASE UNCHANGED vars
    <3>1. ReviewInv /\ UNCHANGED <<product, pc, result, honest, listed, projection,
                                  comments, pushes, start, read>>
      BY <2>3 DEF vars, ofHandlers, ofReview, VInv
    <3>2. ReviewTypes' BY <3>1 DEF ReviewInv, ReviewTypes
    <3>. QED BY <3>1, <3>2, GrowsStep DEF Review!Entries
  <2>. QED
    BY <2>1, <2>2, <2>3 DEF Next
<1>. QED
  BY <1>1, <1>2, PTL DEF Spec

\* However many entries there are, however they fall on pages, whatever is added
\* to the listings meanwhile and whatever the limits, a review is answered whole
\* or not at all (forReviewPages).
THEOREM ReviewIsWhole == Spec => []NothingIsCutSilently
<1>1. VInv => NothingIsCutSilently
  <2>. SUFFICES ASSUME ReviewInv, result = "ok", honest,
                       NEW part \in Review!Listings \cap projection,
                       NEW e \in Review!ToSet(Review!Entries(part)), e.id <= listed
       PROVE  e \in Review!ToSet(read[part])
    BY DEF VInv, NothingIsCutSilently, Review!NothingIsCutSilently, Review!Answered
  <2>1. NothingLost /\ pc = "done" BY DEF ReviewInv, NothingLost
  <2>2. Nth("done") = 8 /\ Nth(part) \in 1 .. 7
    BY OrderOfParts DEF Nth, Review!Listings, ReadParts
  <2>3. part \in Review!Called
    BY DEF Review!Listings, Review!Called
  <2>4. Reached(part, Len(Review!Entries(part)))
    BY <2>1, <2>2, <2>3 DEF NothingLost, Whole
  <2>5. /\ DOMAIN Review!Entries(part) = 1 .. Len(Review!Entries(part))
        /\ DOMAIN read[part] = 1 .. Len(read[part])
    BY EntriesOfListing, LenProperties DEF ReviewInv, ReviewTypes
  <2>. QED BY <2>4, <2>5 DEF Reached, IsRead, Review!ToSet
<1>. QED
  BY <1>1, VInvHolds, PTL

-----------------------------------------------------------------------------
(***************************************************************************)
(* pullrequests.queue.  The queue up to a position, Upto, is the listings  *)
(* before it put together and the beginning of its own.  What a person was *)
(* shown, and what the search under way found in addition, are always the  *)
(* queue up to the cursor and up to where the search reads (Walk); before  *)
(* that it lists the repositories, and has those the provider's pages have *)
(* named (LastListed).  First what the loops and joins over sequences      *)
(* return, then one page, then the steps of a search, then other people's. *)
(*                                                                         *)
(* Joins, selections and parts of sequences have names of their own here,  *)
(* and lemmas that say what they return, so that no later step has to      *)
(* expand them.                                                            *)
(***************************************************************************)

\* Induction over the numbers, for a set of them.
LEMMA NatSetInduction ==
  ASSUME NEW S, 0 \in S, \A n \in Nat : n \in S => n + 1 \in S
  PROVE  Nat \subseteq S
<1>. DEFINE R == OpToRel(<, Nat)
<1>1. IsWellFoundedOn(R, Nat) BY NatLessThanWellFounded, Zenon
<1>2. \A i, j \in Nat : i < j => <<i, j>> \in R BY DEF OpToRel
<1>. SUFFICES ASSUME Nat \ S # {} PROVE FALSE OBVIOUS
<1>. HIDE DEF R
<1>3. PICK x \in Nat \ S : \A y \in Nat \ S : <<y, x>> \notin R
  BY <1>1, WFMin
<1>4. x # 0 /\ x - 1 \in Nat /\ x - 1 < x /\ x \in Nat OBVIOUS
<1>5. <<x - 1, x>> \in R BY <1>2, <1>4
<1>6. x - 1 \in S BY <1>3, <1>4, <1>5
<1>7. x \in S BY <1>4, <1>6
<1>. QED BY <1>7

\* "k" holds what a loop of "n" steps has after each, from "b" by "h".
Runs(k, n, b, h) ==
  /\ DOMAIN k = 0 .. n /\ k[0] = b
  /\ \A i \in 1 .. n : k[i] = h[<<i, k[i - 1]>>]

\* A loop of any number of steps has all its intermediate values.
LEMMA LoopRuns ==
  ASSUME NEW n \in Nat, NEW V, NEW b \in V, NEW h \in [(1 .. n) \X V -> V]
  PROVE  \E k \in [0 .. n -> V] : Runs(k, n, b, h)
<1>. DEFINE S == {m \in Nat : m <= n => \E k \in [0 .. m -> V] : Runs(k, m, b, h)}
<1>1. 0 \in S
  <2>. DEFINE k == [i \in 0 .. 0 |-> b]
  <2>1. k \in [0 .. 0 -> V] /\ Runs(k, 0, b, h) BY DEF Runs
  <2>. QED BY <2>1
<1>2. ASSUME NEW m \in Nat, m \in S PROVE m + 1 \in S
  <2>. SUFFICES ASSUME m + 1 <= n
                PROVE  \E k \in [0 .. m + 1 -> V] : Runs(k, m + 1, b, h)
    OBVIOUS
  <2>1. PICK k \in [0 .. m -> V] : Runs(k, m, b, h) BY <1>2
  <2>. DEFINE last == h[<<m + 1, k[m]>>]
              j == [i \in 0 .. m + 1 |-> IF i <= m THEN k[i] ELSE last]
  <2>2. last \in V
    <3>1. k[m] \in V /\ m + 1 \in 1 .. n OBVIOUS
    <3>. QED BY <3>1
  <2>3. \A i \in 0 .. m : j[i] = k[i] OBVIOUS
  <2>4. j[m + 1] = last OBVIOUS
  <2>. HIDE DEF last
  <2>5. j \in [0 .. m + 1 -> V] /\ DOMAIN j = 0 .. m + 1 BY <2>2
  <2>. HIDE DEF j
  <2>6. ASSUME NEW i \in 1 .. m + 1 PROVE j[i] = h[<<i, j[i - 1]>>]
    <3>1. CASE i \in 1 .. m
      <4>1. i \in 0 .. m /\ i - 1 \in 0 .. m BY <3>1
      <4>2. k[i] = h[<<i, k[i - 1]>>] BY <2>1, <3>1 DEF Runs
      <4>. QED BY <2>3, <4>1, <4>2
    <3>2. CASE i = m + 1
      <4>1. i - 1 = m /\ m \in 0 .. m BY <3>2
      <4>. QED BY <2>3, <2>4, <3>2, <4>1 DEF last
    <3>. QED BY <3>1, <3>2
  <2>7. j[0] = b BY <2>1, <2>3 DEF Runs
  <2>. QED BY <2>5, <2>6, <2>7 DEF Runs
<1>. HIDE DEF S
<1>3. n \in S BY <1>1, <1>2, NatSetInduction
<1>. QED BY <1>3 DEF S

-----------------------------------------------------------------------------
(* FlattenSeq. *)

\* "J" has the sequences joined up to each.
Joins(J, seqs, E) ==
  /\ J \in [0 .. Len(seqs) -> Seq(E)] /\ J[0] = <<>>
  /\ \A i \in 1 .. Len(seqs) : J[i] = J[i - 1] \o seqs[i]

\* Any sequences can be joined step by step,
LEMMA JoinsExist ==
  ASSUME NEW E, NEW seqs \in Seq(Seq(E))
  PROVE  \E J : Joins(J, seqs, E)
<1>. DEFINE n == Len(seqs)
            h == [x \in (1 .. n) \X Seq(E) |-> x[2] \o seqs[x[1]]]
<1>1. n \in Nat /\ \A i \in 1 .. n : seqs[i] \in Seq(E)
  BY LenProperties, ElementOfSeq
<1>. HIDE DEF n
<1>2. <<>> \in Seq(E) OBVIOUS
<1>3. h \in [(1 .. n) \X Seq(E) -> Seq(E)]
  <2>1. \A x \in (1 .. n) \X Seq(E) : x[2] \in Seq(E) /\ seqs[x[1]] \in Seq(E)
    BY <1>1
  <2>2. \A x \in (1 .. n) \X Seq(E) : x[2] \o seqs[x[1]] \in Seq(E)
    BY <2>1, ConcatProperties
  <2>. QED BY <2>2
<1>4. \A i \in 1 .. n, s \in Seq(E) : h[<<i, s>>] = s \o seqs[i] OBVIOUS
<1>. HIDE DEF h
<1>5. PICK J \in [0 .. n -> Seq(E)] : Runs(J, n, <<>>, h)
  BY <1>1, <1>2, <1>3, LoopRuns
<1>6. \A i \in 1 .. n : J[i] = J[i - 1] \o seqs[i]
  <2>. TAKE i \in 1 .. n
  <2>1. i - 1 \in 0 .. n /\ J[i - 1] \in Seq(E) BY <1>1
  <2>. QED BY <1>4, <1>5, <2>1 DEF Runs
<1>. QED BY <1>5, <1>6 DEF Joins, Runs, n

\* and the library's FlattenSeq is the last join.
LEMMA FlattenIsJoin ==
  ASSUME NEW E, NEW seqs \in Seq(Seq(E)), NEW J, Joins(J, seqs, E)
  PROVE  Queue!FlattenSeq(seqs) = J[Len(seqs)]
<1>. DEFINE n == Len(seqs)
<1>1. n \in Nat /\ \A i \in 1 .. n : seqs[i] \in Seq(E)
  BY LenProperties, ElementOfSeq
<1>2. CASE n = 0
  <2>1. seqs = <<>> BY <1>2, EmptySeq
  <2>. QED BY <1>2, <2>1 DEF Queue!FlattenSeq, Joins
<1>3. CASE n # 0
  <2>. DEFINE Is(k) == k = [i \in 1 .. Len(seqs) |->
                       IF i = 1 THEN seqs[i] ELSE k[i - 1] \o seqs[i]]
              f == CHOOSE k : Is(k)
  <2>1. \E k : Is(k)
    <3>. DEFINE k == [i \in 1 .. n |-> J[i]]
    <3>1. ASSUME NEW i \in 1 .. n
          PROVE  k[i] = IF i = 1 THEN seqs[i] ELSE k[i - 1] \o seqs[i]
      <4>1. k[i] = J[i] /\ J[i] = J[i - 1] \o seqs[i] BY DEF Joins
      <4>2. CASE i = 1
        <5>1. J[i - 1] = <<>> BY <4>2 DEF Joins
        <5>2. <<>> \o seqs[i] = seqs[i] BY <1>1, ConcatEmptySeq
        <5>. QED BY <4>1, <4>2, <5>1, <5>2
      <4>3. CASE i # 1
        <5>1. i - 1 \in 1 .. n BY <1>1, <4>3
        <5>2. k[i - 1] = J[i - 1] BY <5>1
        <5>. QED BY <4>1, <4>3, <5>2
      <4>. QED BY <4>2, <4>3
    <3>2. k = [i \in 1 .. n |-> k[i]] OBVIOUS
    <3>. HIDE DEF k
    <3>3. Is(k) BY <3>1, <3>2
    <3>. QED BY <3>3
  <2>2. Is(f) BY <2>1
  <2>3. Queue!FlattenSeq(seqs) = f[n] BY <1>3 DEF Queue!FlattenSeq
  <2>. HIDE DEF f
  <2>4. \A i \in 1 .. n : f[i] = IF i = 1 THEN seqs[i] ELSE f[i - 1] \o seqs[i]
    BY <2>2
  <2>. HIDE DEF Is, n
  <2>. DEFINE S == {i \in Nat : i + 1 <= n => f[i + 1] = J[i + 1]}
  <2>5. 0 \in S
    <3>1. 1 \in 1 .. n BY <1>1, <1>3
    <3>2. f[1] = seqs[1] BY <2>4, <3>1
    <3>3. J[1] = J[1 - 1] \o seqs[1] BY <3>1 DEF Joins, n
    <3>4. J[1 - 1] = <<>> BY DEF Joins
    <3>5. <<>> \o seqs[1] = seqs[1] BY <1>1, <3>1, ConcatEmptySeq
    <3>. QED BY <3>2, <3>3, <3>4, <3>5
  <2>6. ASSUME NEW i \in Nat, i \in S PROVE i + 1 \in S
    <3>. SUFFICES ASSUME (i + 1) + 1 <= n PROVE f[(i + 1) + 1] = J[(i + 1) + 1]
      OBVIOUS
    <3>1. /\ (i + 1) + 1 \in 1 .. n /\ ((i + 1) + 1) - 1 = i + 1 /\ (i + 1) + 1 # 1
          /\ i + 1 <= n
      BY <1>1
    <3>2. f[i + 1] = J[i + 1] BY <2>6, <3>1
    <3>3. J[(i + 1) + 1] = J[i + 1] \o seqs[(i + 1) + 1]
      BY <3>1 DEF Joins, n
    <3>4. f[(i + 1) + 1] = f[i + 1] \o seqs[(i + 1) + 1] BY <2>4, <3>1
    <3>. QED BY <3>2, <3>3, <3>4
  <2>7. n - 1 \in Nat /\ (n - 1) + 1 = n /\ (n - 1) + 1 <= n BY <1>1, <1>3
  <2>. HIDE DEF S
  <2>8. n - 1 \in S BY <2>5, <2>6, <2>7, NatSetInduction
  <2>9. f[n] = J[n] BY <2>7, <2>8 DEF S
  <2>. QED BY <2>3, <2>9 DEF n
<1>. QED BY <1>2, <1>3

\* The first "n" of the sequences, joined.
First(seqs, n) == Queue!FlattenSeq(SubSeq(seqs, 1, n))

\* The first sequences put together, by how many they are.
LEMMA FirstIs ==
  ASSUME NEW E, NEW seqs \in Seq(Seq(E))
  PROVE  /\ \A n \in 0 .. Len(seqs) : First(seqs, n) \in Seq(E)
         /\ First(seqs, 0) = <<>>
         /\ \A n \in 1 .. Len(seqs) : First(seqs, n) = First(seqs, n - 1) \o seqs[n]
         /\ First(seqs, Len(seqs)) = Queue!FlattenSeq(seqs)
<1>1. PICK J : Joins(J, seqs, E) BY JoinsExist
<1>2. Len(seqs) \in Nat /\ \A i \in 1 .. Len(seqs) : seqs[i] \in Seq(E)
  BY LenProperties, ElementOfSeq
<1>3. ASSUME NEW n \in 0 .. Len(seqs) PROVE First(seqs, n) = J[n]
  <2>1. PICK some : some = SubSeq(seqs, 1, n) OBVIOUS
  <2>2. /\ some \in Seq(Seq(E)) /\ Len(some) = n
        /\ \A i \in 1 .. n : some[i] = seqs[i]
    <3>1. /\ SubSeq(seqs, 1, n) \in Seq(Seq(E))
          /\ Len(SubSeq(seqs, 1, n)) = IF 1 <= n THEN n - 1 + 1 ELSE 0
          /\ \A i \in 1 .. n - 1 + 1 : SubSeq(seqs, 1, n)[i] = seqs[1 + i - 1]
      <4>1. 1 \in Int /\ n \in Int /\ \A i \in 1 .. n : seqs[i] \in Seq(E)
        BY <1>2
      <4>. QED BY <4>1, SubSeqProperties
    <3>2. n - 1 + 1 = n /\ (1 <= n \/ n = 0) /\ \A i \in 1 .. n : 1 + i - 1 = i
      BY <1>2
    <3>. QED BY <2>1, <3>1, <3>2
  <2>. DEFINE K == [i \in 0 .. n |-> J[i]]
  <2>3. K \in [0 .. n -> Seq(E)] /\ K[0] = <<>> /\ K[n] = J[n]
    BY <1>1, <1>2 DEF Joins
  <2>4. ASSUME NEW i \in 1 .. n PROVE K[i] = K[i - 1] \o some[i]
    <3>1. i \in 1 .. Len(seqs) /\ i \in 0 .. n /\ i - 1 \in 0 .. n BY <1>2
    <3>2. J[i] = J[i - 1] \o seqs[i] BY <1>1, <3>1 DEF Joins
    <3>. QED BY <2>2, <3>1, <3>2
  <2>. HIDE DEF K
  <2>5. Joins(K, some, E) BY <2>2, <2>3, <2>4 DEF Joins
  <2>6. Queue!FlattenSeq(some) = K[n] BY <2>2, <2>5, FlattenIsJoin
  <2>. QED BY <2>1, <2>3, <2>6 DEF First
<1>4. Queue!FlattenSeq(seqs) = J[Len(seqs)] BY <1>1, FlattenIsJoin
<1>5. \A n \in 1 .. Len(seqs) : First(seqs, n) = First(seqs, n - 1) \o seqs[n]
  <2>. TAKE n \in 1 .. Len(seqs)
  <2>1. n \in 0 .. Len(seqs) /\ n - 1 \in 0 .. Len(seqs) BY <1>2
  <2>. QED BY <1>1, <1>3, <2>1 DEF Joins
<1>6. 0 \in 0 .. Len(seqs) /\ Len(seqs) \in 0 .. Len(seqs) BY <1>2
<1>. QED BY <1>1, <1>3, <1>4, <1>5, <1>6 DEF Joins

-----------------------------------------------------------------------------
(* OfState. *)

\* "k" is what the loop over "s" has kept after each step, which keeps the
\* elements at "D".
Sieves(k, s, D, E) ==
  /\ k \in [0 .. Len(s) -> Seq(E)] /\ k[0] = <<>>
  /\ \A n \in 1 .. Len(s) :
       k[n] = IF n \in D THEN Append(k[n - 1], s[n]) ELSE k[n - 1]

\* The loop that selects the places in D has all its steps.
LEMMA SieveExists ==
  ASSUME NEW E, NEW s \in Seq(E), NEW D
  PROVE  \E k : Sieves(k, s, D, E)
<1>. DEFINE n == Len(s)
            h == [x \in (1 .. n) \X Seq(E) |->
                    IF x[1] \in D THEN Append(x[2], s[x[1]]) ELSE x[2]]
<1>1. n \in Nat /\ \A i \in 1 .. n : s[i] \in E
  BY LenProperties, ElementOfSeq
<1>. HIDE DEF n
<1>2. <<>> \in Seq(E) OBVIOUS
<1>3. h \in [(1 .. n) \X Seq(E) -> Seq(E)]
  <2>1. \A x \in (1 .. n) \X Seq(E) : x[2] \in Seq(E) /\ s[x[1]] \in E
    BY <1>1
  <2>2. \A x \in (1 .. n) \X Seq(E) : Append(x[2], s[x[1]]) \in Seq(E)
    BY <2>1, AppendProperties
  <2>. QED BY <2>1, <2>2
<1>4. \A i \in 1 .. n, t \in Seq(E) :
        h[<<i, t>>] = IF i \in D THEN Append(t, s[i]) ELSE t
  OBVIOUS
<1>. HIDE DEF h
<1>5. PICK k \in [0 .. n -> Seq(E)] : Runs(k, n, <<>>, h)
  BY <1>1, <1>2, <1>3, LoopRuns
<1>6. \A i \in 1 .. n : k[i] = IF i \in D THEN Append(k[i - 1], s[i]) ELSE k[i - 1]
  <2>. TAKE i \in 1 .. n
  <2>1. i - 1 \in 0 .. n /\ k[i - 1] \in Seq(E) BY <1>1
  <2>. QED BY <1>4, <1>5, <2>1 DEF Runs
<1>. QED BY <1>5, <1>6 DEF Sieves, Runs, n

\* What two sieves of one sequence keep is the same.
LEMMA SieveIsOne ==
  ASSUME NEW E, NEW s \in Seq(E), NEW D, NEW k, Sieves(k, s, D, E),
         NEW f,
         \A n \in 0 .. Len(s) :
           f[n] = IF n = 0 THEN <<>>
                  ELSE IF n \in D THEN Append(f[n - 1], s[n]) ELSE f[n - 1]
  PROVE  f[Len(s)] = k[Len(s)]
<1>1. Len(s) \in Nat BY LenProperties
<1>. DEFINE S == {n \in Nat : n <= Len(s) => f[n] = k[n]}
<1>3. 0 \in S BY <1>1 DEF Sieves
<1>4. ASSUME NEW n \in Nat, n \in S PROVE n + 1 \in S
  <2>. SUFFICES ASSUME n + 1 <= Len(s) PROVE f[n + 1] = k[n + 1]
    OBVIOUS
  <2>1. /\ n + 1 \in 1 .. Len(s) /\ n + 1 \in 0 .. Len(s) /\ n + 1 # 0
        /\ (n + 1) - 1 = n /\ n <= Len(s)
    BY <1>1
  <2>2. f[n] = k[n] BY <1>4, <2>1
  <2>3. f[n + 1] = IF n + 1 \in D THEN Append(f[n], s[n + 1]) ELSE f[n]
    BY <2>1
  <2>4. k[n + 1] = IF n + 1 \in D THEN Append(k[n], s[n + 1]) ELSE k[n]
    BY <2>1 DEF Sieves
  <2>. QED BY <2>2, <2>3, <2>4
<1>. HIDE DEF S
<1>5. Len(s) \in S BY <1>1, <1>3, <1>4, NatSetInduction
<1>. QED BY <1>1, <1>5 DEF S

\* A sieve keeps nothing but what is at "D", and everything if that is all.
LEMMA SieveKeeps ==
  ASSUME NEW E, NEW s \in Seq(E), NEW D, NEW k, Sieves(k, s, D, E)
  PROVE  /\ \A j \in 1 .. Len(k[Len(s)]) :
              \E i \in 1 .. Len(s) : i \in D /\ k[Len(s)][j] = s[i]
         /\ (\A i \in 1 .. Len(s) : i \in D) => k[Len(s)] = s
<1>1. Len(s) \in Nat /\ \A i \in 1 .. Len(s) : s[i] \in E
  BY LenProperties, ElementOfSeq
<1>. DEFINE Fine(n) ==
       /\ \A j \in 1 .. Len(k[n]) :
            \E i \in 1 .. Len(s) : i \in D /\ k[n][j] = s[i]
       /\ (\A i \in 1 .. Len(s) : i \in D) => k[n] = SubSeq(s, 1, n)
     S == {n \in Nat : n <= Len(s) => Fine(n)}
<1>2. 0 \in S
  <2>1. k[0] = <<>> /\ Len(<<>>) = 0 BY DEF Sieves
  <2>2. SubSeq(s, 1, 0) = <<>> BY SubSeqEmpty
  <2>3. \A j \in 1 .. Len(k[0]) :
          \E i \in 1 .. Len(s) : i \in D /\ k[0][j] = s[i]
    <3>1. Len(k[0]) = 0 BY <2>1
    <3>2. 1 .. Len(k[0]) = {} BY <3>1
    <3>. QED BY <3>2
  <2>4. Fine(0) BY <2>1, <2>2, <2>3
  <2>. QED BY <2>4
<1>3. ASSUME NEW n \in Nat, n \in S PROVE n + 1 \in S
  <2>. SUFFICES ASSUME n + 1 <= Len(s) PROVE Fine(n + 1)
    OBVIOUS
  <2>1. /\ n + 1 \in 1 .. Len(s) /\ n \in 0 .. Len(s)
        /\ (n + 1) - 1 = n /\ n <= Len(s)
    BY <1>1
  <2>2. k[n + 1] = IF n + 1 \in D THEN Append(k[n], s[n + 1]) ELSE k[n]
    BY <2>1 DEF Sieves
  <2>3. Fine(n) BY <1>3, <2>1
  <2>4. k[n] \in Seq(E) /\ s[n + 1] \in E BY <1>1, <2>1 DEF Sieves
  <2>5. PICK t \in Seq(E) : t = k[n] BY <2>4
  <2>6. Len(t) \in Nat BY LenProperties
  <2>7. CASE n + 1 \notin D
    <3>1. k[n + 1] = k[n] BY <2>2, <2>7
    <3>. QED BY <2>1, <2>3, <2>7, <3>1
  <2>8. CASE n + 1 \in D
    <3>1. k[n + 1] = Append(t, s[n + 1]) BY <2>2, <2>5, <2>8
    <3>2. PICK a : a = Append(t, s[n + 1]) OBVIOUS
    <3>3. /\ a \in Seq(E) /\ Len(a) = Len(t) + 1
          /\ \A j \in 1 .. Len(t) : a[j] = t[j]
          /\ a[Len(t) + 1] = s[n + 1]
          /\ a = t \o <<s[n + 1]>>
      BY <2>4, <3>2, AppendProperties, AppendIsConcat
    <3>4. ASSUME NEW j \in 1 .. Len(a)
          PROVE  \E i \in 1 .. Len(s) : i \in D /\ a[j] = s[i]
      <4>1. CASE j \in 1 .. Len(t) BY <2>3, <2>5, <3>3, <4>1
      <4>2. CASE j = Len(t) + 1 BY <2>1, <2>8, <3>3, <4>2
      <4>. QED BY <2>6, <3>3, <4>1, <4>2
    <3>5. ASSUME \A i \in 1 .. Len(s) : i \in D PROVE a = SubSeq(s, 1, n + 1)
      <4>1. t = SubSeq(s, 1, n) BY <2>3, <2>5, <3>5
      <4>2. SubSeq(s, 1, n + 1) = SubSeq(s, 1, n + 1 - 1) \o <<s[n + 1]>>
        <5>1. 1 \in 1 .. Len(s) /\ n + 1 \in 1 .. Len(s) BY <1>1, <2>1
        <5>. QED BY <5>1, SubSeqRecursiveSecond
      <4>3. n + 1 - 1 = n OBVIOUS
      <4>. QED BY <3>3, <4>1, <4>2, <4>3
    <3>. QED BY <3>1, <3>2, <3>4, <3>5
  <2>. QED BY <2>7, <2>8
<1>. HIDE DEF S, Fine
<1>4. Len(s) \in S BY <1>1, <1>2, <1>3, NatSetInduction
<1>5. Fine(Len(s)) BY <1>1, <1>4 DEF S
<1>6. SubSeq(s, 1, Len(s)) = s BY SubSeqFull
<1>. QED BY <1>5, <1>6 DEF Fine

\* Concatenation and Append, as names: the provers expand the operators.
Cat(s, t) == s \o t
Add(s, e) == Append(s, e)

\* Appending to two sequences put together appends to the second.
LEMMA AddToCat ==
  ASSUME NEW E, NEW f \in Seq(E), NEW a \in Seq(E), NEW e \in E
  PROVE  Add(Cat(f, a), e) = Cat(f, Add(a, e))
<1>1. PICK o : o = <<e>> OBVIOUS
<1>2. o \in Seq(E) BY <1>1
<1>3. f \o a \in Seq(E) BY ConcatProperties
<1>4. Append(f \o a, e) = (f \o a) \o o BY <1>1, <1>3, AppendIsConcat
<1>5. Append(a, e) = a \o o BY <1>1, AppendIsConcat
<1>6. (f \o a) \o o = f \o (a \o o) BY <1>2, ConcatAssociative
<1>. QED BY <1>4, <1>5, <1>6 DEF Cat, Add

\* One more element in front of a sequence: what is selected of the rest is
\* the same.
LEMMA SieveOfOneMore ==
  ASSUME NEW E, NEW s \in Seq(E), NEW x \in E,
         NEW t, Len(t) = Len(s) + 1, t[1] = x,
         \A i \in 1 .. Len(s) : t[i + 1] = s[i],
         NEW D, NEW C, \A i \in 1 .. Len(s) : i + 1 \in C <=> i \in D,
         NEW k, Sieves(k, s, D, E), NEW l, Sieves(l, t, C, E)
  PROVE  l[Len(t)] = Cat(IF 1 \in C THEN <<x>> ELSE <<>>, k[Len(s)])
<1>. DEFINE front == IF 1 \in C THEN <<x>> ELSE <<>>
<1>1. Len(s) \in Nat /\ \A i \in 1 .. Len(s) : s[i] \in E
  BY LenProperties, ElementOfSeq
<1>2. front \in Seq(E) OBVIOUS
<1>3. \A i \in 1 .. Len(s) : k[i] = IF i \in D THEN Add(k[i - 1], s[i]) ELSE k[i - 1]
  BY Zenon DEF Sieves, Add
<1>4. \A i \in 1 .. Len(t) : l[i] = IF i \in C THEN Add(l[i - 1], t[i]) ELSE l[i - 1]
  BY Zenon DEF Sieves, Add
<1>5. l[0 + 1] = Cat(front, k[0])
  <2>1. 1 \in 1 .. Len(t) /\ 1 - 1 = 0 /\ 0 + 1 = 1 BY <1>1
  <2>2. l[1] = IF 1 \in C THEN Add(l[0], t[1]) ELSE l[0] BY <1>4, <2>1
  <2>3. l[0] = <<>> /\ k[0] = <<>> BY DEF Sieves
  <2>4. Add(<<>>, x) = <<x>> BY DEF Add
  <2>5. Cat(front, <<>>) = front BY <1>2, ConcatEmptySeq DEF Cat
  <2>. QED BY <2>1, <2>2, <2>3, <2>4, <2>5
<1>. HIDE DEF front
<1>. DEFINE S == {n \in Nat : n <= Len(s) => l[n + 1] = Cat(front, k[n])}
<1>6. 0 \in S BY <1>5
<1>7. ASSUME NEW n \in Nat, n \in S PROVE n + 1 \in S
  <2>. SUFFICES ASSUME n + 1 <= Len(s) PROVE l[(n + 1) + 1] = Cat(front, k[n + 1])
    OBVIOUS
  <2>1. /\ n + 1 \in 1 .. Len(s) /\ n \in 0 .. Len(s) /\ (n + 1) - 1 = n
        /\ (n + 1) + 1 \in 1 .. Len(t) /\ ((n + 1) + 1) - 1 = n + 1
    BY <1>1
  <2>2. k[n + 1] = IF n + 1 \in D THEN Add(k[n], s[n + 1]) ELSE k[n]
    BY <1>3, <2>1
  <2>3. l[(n + 1) + 1] = IF (n + 1) + 1 \in C THEN Add(l[n + 1], t[(n + 1) + 1])
                         ELSE l[n + 1]
    BY <1>4, <2>1
  <2>4. t[(n + 1) + 1] = s[n + 1] /\ ((n + 1) + 1 \in C <=> n + 1 \in D)
    BY <2>1
  <2>5. l[n + 1] = Cat(front, k[n]) BY <1>7, <2>1
  <2>6. k[n] \in Seq(E) /\ s[n + 1] \in E BY <1>1, <2>1 DEF Sieves
  <2>7. Add(Cat(front, k[n]), s[n + 1]) = Cat(front, Add(k[n], s[n + 1]))
    BY <1>2, <2>6, AddToCat
  <2>. QED BY <2>2, <2>3, <2>4, <2>5, <2>7
<1>. HIDE DEF S
<1>8. Len(s) \in S BY <1>1, <1>6, <1>7, NatSetInduction
<1>9. l[Len(s) + 1] = Cat(front, k[Len(s)]) BY <1>1, <1>8 DEF S
<1>. QED BY <1>9 DEF front

\* Where a sequence's pull requests have the state.
Places(prs, state) == {n \in 1 .. Len(prs) : prs[n].state = state}

\* The pull requests of a state are those selected at their places.
LEMMA OfStateIsSieve ==
  ASSUME NEW E, NEW prs \in Seq(E), NEW state, state # "ALL"
  PROVE  \E k : /\ Sieves(k, prs, Places(prs, state), E)
                /\ Queue!OfState(prs, state) = k[Len(prs)]
<1>. DEFINE Is(f) == f = [n \in 0 .. Len(prs) |->
             IF n = 0 THEN <<>>
             ELSE IF prs[n].state = state THEN Append(f[n - 1], prs[n])
             ELSE f[n - 1]]
            kept == CHOOSE f : Is(f)
<1>0. Len(prs) \in Nat BY LenProperties
<1>1. \A n \in 1 .. Len(prs) : n \in Places(prs, state) <=> prs[n].state = state
  BY DEF Places
<1>2. PICK k : Sieves(k, prs, Places(prs, state), E) BY SieveExists
<1>3. Is(k)
  <2>1. k = [n \in 0 .. Len(prs) |-> k[n]] BY <1>2 DEF Sieves
  <2>2. ASSUME NEW n \in 0 .. Len(prs)
        PROVE  k[n] = IF n = 0 THEN <<>>
                      ELSE IF prs[n].state = state THEN Append(k[n - 1], prs[n])
                      ELSE k[n - 1]
    <3>1. CASE n = 0 BY <1>2, <3>1 DEF Sieves
    <3>2. CASE n \in 1 .. Len(prs) BY <1>0, <1>1, <1>2, <3>2 DEF Sieves
    <3>. QED BY <1>0, <3>1, <3>2
  <2>. QED BY <2>1, <2>2
<1>4. Is(kept) BY <1>3
<1>5. Queue!OfState(prs, state) = kept[Len(prs)] BY DEF Queue!OfState
<1>. HIDE DEF kept
<1>6. \A n \in 0 .. Len(prs) :
        kept[n] = IF n = 0 THEN <<>>
                  ELSE IF n \in Places(prs, state) THEN Append(kept[n - 1], prs[n])
                  ELSE kept[n - 1]
  <2>. DEFINE g == [n \in 0 .. Len(prs) |->
             IF n = 0 THEN <<>>
             ELSE IF prs[n].state = state THEN Append(kept[n - 1], prs[n])
             ELSE kept[n - 1]]
  <2>1. kept = g BY <1>4
  <2>2. ASSUME NEW n \in 0 .. Len(prs)
        PROVE  g[n] = IF n = 0 THEN <<>>
                      ELSE IF n \in Places(prs, state) THEN Append(kept[n - 1], prs[n])
                      ELSE kept[n - 1]
    <3>1. n = 0 \/ n \in 1 .. Len(prs) BY <1>0
    <3>. QED BY <1>1, <3>1
  <2>. HIDE DEF g
  <2>. QED BY <2>1, <2>2
<1>7. kept[Len(prs)] = k[Len(prs)] BY <1>2, <1>6, SieveIsOne
<1>. QED BY <1>2, <1>5, <1>7

\* They are pull requests of the list, all of them if all have the state.
LEMMA OfStateFacts ==
  ASSUME NEW E, NEW prs \in Seq(E), NEW state
  PROVE  /\ Queue!OfState(prs, state) \in Seq(E)
         /\ (\A i \in 1 .. Len(prs) : prs[i].state = state) =>
              Queue!OfState(prs, state) = prs
         /\ state # "ALL" =>
              \A j \in 1 .. Len(Queue!OfState(prs, state)) :
                Queue!OfState(prs, state)[j].state = state
<1>1. CASE state = "ALL" BY <1>1 DEF Queue!OfState
<1>2. CASE state # "ALL"
  <2>1. PICK k : /\ Sieves(k, prs, Places(prs, state), E)
                 /\ Queue!OfState(prs, state) = k[Len(prs)]
    BY <1>2, OfStateIsSieve
  <2>2. Len(prs) \in Nat BY LenProperties
  <2>3. k[Len(prs)] \in Seq(E) BY <2>1, <2>2 DEF Sieves
  <2>4. /\ \A j \in 1 .. Len(k[Len(prs)]) :
              \E i \in 1 .. Len(prs) :
                i \in Places(prs, state) /\ k[Len(prs)][j] = prs[i]
        /\ (\A i \in 1 .. Len(prs) : i \in Places(prs, state)) =>
              k[Len(prs)] = prs
    BY <2>1, SieveKeeps
  <2>5. PICK kept : kept = k[Len(prs)] OBVIOUS
  <2>6. (\A i \in 1 .. Len(prs) : prs[i].state = state) => kept = prs
    BY <2>4, <2>5 DEF Places
  <2>7. \A j \in 1 .. Len(kept) : kept[j].state = state
    BY <2>4, <2>5 DEF Places
  <2>. QED BY <2>1, <2>3, <2>5, <2>6, <2>7
<1>. QED BY <1>1, <1>2

\* One more in front is one more, or none, in front of what is kept.
LEMMA OfStateOfOneMore ==
  ASSUME NEW E, NEW prs \in Seq(E), NEW x \in E, NEW state
  PROVE  \/ Queue!OfState(<<x>> \o prs, state) = Cat(<<x>>, Queue!OfState(prs, state))
         \/ Queue!OfState(<<x>> \o prs, state) = Queue!OfState(prs, state)
<1>1. CASE state = "ALL" BY <1>1 DEF Queue!OfState, Cat
<1>2. CASE state # "ALL"
  <2>1. PICK more : more = <<x>> \o prs OBVIOUS
  <2>2. /\ more \in Seq(E) /\ Len(more) = Len(prs) + 1 /\ more[1] = x
        /\ \A i \in 1 .. Len(prs) : more[i + 1] = prs[i]
    <3>1. PICK o : o = <<x>> OBVIOUS
    <3>2. o \in Seq(E) /\ Len(o) = 1 /\ o[1] = x BY <3>1
    <3>3. /\ more \in Seq(E) /\ Len(more) = Len(o) + Len(prs)
          /\ \A i \in 1 .. Len(o) + Len(prs) :
               more[i] = IF i <= Len(o) THEN o[i] ELSE prs[i - Len(o)]
      BY <2>1, <3>1, <3>2, ConcatProperties
    <3>4. Len(prs) \in Nat BY LenProperties
    <3>. QED BY <3>2, <3>3, <3>4
  <2>3. Len(prs) \in Nat BY LenProperties
  <2>4. PICK k : /\ Sieves(k, prs, Places(prs, state), E)
                 /\ Queue!OfState(prs, state) = k[Len(prs)]
    BY <1>2, OfStateIsSieve
  <2>5. PICK l : /\ Sieves(l, more, Places(more, state), E)
                 /\ Queue!OfState(more, state) = l[Len(more)]
    BY <1>2, <2>2, OfStateIsSieve
  <2>6. \A i \in 1 .. Len(prs) :
          i + 1 \in Places(more, state) <=> i \in Places(prs, state)
    BY <2>2, <2>3 DEF Places
  <2>7. l[Len(more)] =
          Cat(IF 1 \in Places(more, state) THEN <<x>> ELSE <<>>, k[Len(prs)])
    <3>1. PICK D : D = Places(prs, state) OBVIOUS
    <3>2. PICK C : C = Places(more, state) OBVIOUS
    <3>3. Sieves(k, prs, D, E) /\ Sieves(l, more, C, E) BY <2>4, <2>5, <3>1, <3>2
    <3>4. \A i \in 1 .. Len(prs) : i + 1 \in C <=> i \in D BY <2>6, <3>1, <3>2
    <3>5. l[Len(more)] = Cat(IF 1 \in C THEN <<x>> ELSE <<>>, k[Len(prs)])
      BY <2>2, <3>3, <3>4, SieveOfOneMore
    <3>. QED BY <3>2, <3>5
  <2>8. Cat(<<>>, k[Len(prs)]) = k[Len(prs)]
    <3>1. k[Len(prs)] \in Seq(E) BY <2>3, <2>4 DEF Sieves
    <3>. QED BY <3>1, ConcatEmptySeq DEF Cat
  <2>. QED BY <2>1, <2>4, <2>5, <2>7, <2>8
<1>. QED BY <1>1, <1>2

\* In order, all repositories are the queue's.
LEMMA AllInOrder ==
  ASSUME NEW E, NEW s \in Seq(E), s = Repos,
         NEW S, \A i \in 1 .. Len(s) : s[i] \in S
  PROVE  Queue!InOrder(S) = s
<1>. DEFINE D == 1 .. Len(s)
            Is(f) == f = [n \in 0 .. Len(s) |->
             IF n = 0 THEN <<>>
             ELSE IF s[n] \in S THEN Append(f[n - 1], s[n]) ELSE f[n - 1]]
            kept == CHOOSE f : Is(f)
<1>0. Len(s) \in Nat BY LenProperties
<1>1. PICK k : Sieves(k, s, D, E) BY SieveExists
<1>2. \A n \in 1 .. Len(s) : n \in D /\ s[n] \in S OBVIOUS
<1>. HIDE DEF D
<1>3. Is(k)
  <2>1. k = [n \in 0 .. Len(s) |-> k[n]] BY <1>1 DEF Sieves
  <2>2. ASSUME NEW n \in 0 .. Len(s)
        PROVE  k[n] = IF n = 0 THEN <<>>
                      ELSE IF s[n] \in S THEN Append(k[n - 1], s[n]) ELSE k[n - 1]
    <3>1. CASE n = 0 BY <1>1, <3>1 DEF Sieves
    <3>2. CASE n \in 1 .. Len(s) BY <1>0, <1>1, <1>2, <3>2 DEF Sieves
    <3>. QED BY <1>0, <3>1, <3>2
  <2>. QED BY <2>1, <2>2
<1>4. Is(kept) BY <1>3
<1>5. Queue!InOrder(S) = kept[Len(s)] BY DEF Queue!InOrder
<1>. HIDE DEF kept
<1>6. \A n \in 0 .. Len(s) :
        kept[n] = IF n = 0 THEN <<>>
                  ELSE IF n \in D THEN Append(kept[n - 1], s[n])
                  ELSE kept[n - 1]
  <2>. DEFINE g == [n \in 0 .. Len(s) |->
             IF n = 0 THEN <<>>
             ELSE IF s[n] \in S THEN Append(kept[n - 1], s[n])
             ELSE kept[n - 1]]
  <2>1. kept = g BY <1>4
  <2>2. ASSUME NEW n \in 0 .. Len(s)
        PROVE  g[n] = IF n = 0 THEN <<>>
                      ELSE IF n \in D THEN Append(kept[n - 1], s[n])
                      ELSE kept[n - 1]
    <3>1. n = 0 \/ n \in 1 .. Len(s) BY <1>0
    <3>. QED BY <1>2, <3>1
  <2>. HIDE DEF g
  <2>. QED BY <2>1, <2>2
<1>7. kept[Len(s)] = k[Len(s)] BY <1>1, <1>6, SieveIsOne
<1>8. k[Len(s)] = s BY <1>1, <1>2, SieveKeeps
<1>. QED BY <1>5, <1>7, <1>8

\* What putting two sequences together returns.
LEMMA CatFacts ==
  ASSUME NEW E, NEW s \in Seq(E), NEW t \in Seq(E)
  PROVE  /\ Cat(s, t) \in Seq(E) /\ Cat(s, <<>>) = s /\ Cat(<<>>, s) = s
         /\ Queue!ToSet(Cat(s, t)) = Queue!ToSet(s) \cup Queue!ToSet(t)
         /\ Queue!IsPrefix(s, Cat(s, t))
         /\ Len(Cat(s, t)) = Len(s) + Len(t)
<1>1. PICK c : c = s \o t OBVIOUS
<1>2. /\ c \in Seq(E) /\ Len(c) = Len(s) + Len(t)
      /\ \A i \in 1 .. Len(s) + Len(t) : c[i] = IF i <= Len(s) THEN s[i] ELSE t[i - Len(s)]
  BY <1>1, ConcatProperties
<1>3. Len(s) \in Nat /\ Len(t) \in Nat /\ DOMAIN s = 1 .. Len(s) /\ DOMAIN t = 1 .. Len(t)
      /\ DOMAIN c = 1 .. Len(c)
  BY <1>2, LenProperties
<1>4. s \o <<>> = s /\ <<>> \o s = s BY ConcatEmptySeq
<1>5. \A i \in 1 .. Len(t) : c[Len(s) + i] = t[i]
  <2>. TAKE i \in 1 .. Len(t)
  <2>1. PICK n \in Nat : n = Len(s) BY <1>3
  <2>2. PICK k \in Nat : k = Len(t) BY <1>3
  <2>3. n + i \in 1 .. n + k /\ ~ (n + i <= n) /\ (n + i) - n = i BY <2>2
  <2>. QED BY <1>2, <2>1, <2>2, <2>3
<1>6. \A i \in 1 .. Len(s) : c[i] = s[i] BY <1>2, <1>3
<1>7. Queue!ToSet(c) = Queue!ToSet(s) \cup Queue!ToSet(t)
  <2>1. \A i \in DOMAIN c : c[i] \in Queue!ToSet(s) \cup Queue!ToSet(t)
    <3>. TAKE i \in DOMAIN c
    <3>1. i \in 1 .. Len(s) \/ i - Len(s) \in 1 .. Len(t) BY <1>2, <1>3
    <3>. QED BY <1>2, <1>3, <3>1 DEF Queue!ToSet
  <2>2. \A i \in DOMAIN s : s[i] \in Queue!ToSet(c)
    <3>. TAKE i \in DOMAIN s
    <3>1. i \in DOMAIN c BY <1>2, <1>3
    <3>. QED BY <1>3, <1>6, <3>1 DEF Queue!ToSet
  <2>3. \A i \in DOMAIN t : t[i] \in Queue!ToSet(c)
    <3>. TAKE i \in DOMAIN t
    <3>1. Len(s) + i \in DOMAIN c BY <1>2, <1>3
    <3>. QED BY <1>3, <1>5, <3>1 DEF Queue!ToSet
  <2>. QED BY <2>1, <2>2, <2>3 DEF Queue!ToSet
<1>8. Queue!IsPrefix(s, c)
  <2>1. PICK n \in Nat : n = Len(s) BY <1>3
  <2>2. \A i \in 1 .. n : c[i] = s[i] /\ s[i] \in E BY <1>3, <1>6, <2>1, ElementOfSeq
  <2>3. SubSeq(s, 1, n) = s BY <2>1, SubSeqFull
  <2>4. PICK u : u = SubSeq(c, 1, n) OBVIOUS
  <2>5. u \in Seq(E) /\ Len(u) = n /\ \A i \in 1 .. n : u[i] = c[i]
    <3>1. /\ SubSeq(c, 1, n) \in Seq(E)
          /\ Len(SubSeq(c, 1, n)) = IF 1 <= n THEN n - 1 + 1 ELSE 0
          /\ \A i \in 1 .. n - 1 + 1 : SubSeq(c, 1, n)[i] = c[1 + i - 1]
      <4>1. 1 \in Int /\ n \in Int /\ \A i \in 1 .. n : c[i] \in E BY <2>2
      <4>. QED BY <4>1, SubSeqProperties
    <3>2. n - 1 + 1 = n /\ (1 <= n \/ n = 0) /\ \A i \in 1 .. n : 1 + i - 1 = i
      OBVIOUS
    <3>. QED BY <2>4, <3>1, <3>2
  <2>6. u = s BY <2>1, <2>2, <2>5, SeqEqual
  <2>7. Len(s) <= Len(c) BY <1>2, <1>3
  <2>. QED BY <2>1, <2>3, <2>4, <2>6, <2>7 DEF Queue!IsPrefix
<1>. QED BY <1>1, <1>2, <1>4, <1>7, <1>8 DEF Cat

\* It does not matter which of three are put together first.
LEMMA CatAssociative ==
  ASSUME NEW E, NEW s \in Seq(E), NEW t \in Seq(E), NEW u \in Seq(E)
  PROVE  Cat(Cat(s, t), u) = Cat(s, Cat(t, u))
BY ConcatAssociative DEF Cat

\* The first elements of a sequence, and those after them.
Some(s, m, n) == SubSeq(s, m, n)

\* What a part of a sequence is, and that parts next to each other join.
LEMMA SomeFacts ==
  ASSUME NEW E, NEW s \in Seq(E), NEW m \in 0 .. Len(s), NEW n \in m .. Len(s)
  PROVE  /\ Some(s, m + 1, n) \in Seq(E) /\ Len(Some(s, m + 1, n)) = n - m
         /\ \A i \in 1 .. n - m : Some(s, m + 1, n)[i] = s[m + i]
         /\ Cat(Some(s, 1, m), Some(s, m + 1, n)) = Some(s, 1, n)
         /\ Some(s, 1, Len(s)) = s /\ Some(s, 1, 0) = <<>>
<1>1. Len(s) \in Nat /\ \A i \in 1 .. Len(s) : s[i] \in E
  BY LenProperties, ElementOfSeq
<1>2. m \in Nat /\ n \in Nat /\ m <= n /\ n <= Len(s) BY <1>1
<1>3. PICK u : u = SubSeq(s, m + 1, n) OBVIOUS
<1>4. /\ u \in Seq(E)
      /\ Len(u) = IF m + 1 <= n THEN n - (m + 1) + 1 ELSE 0
      /\ \A i \in 1 .. n - (m + 1) + 1 : u[i] = s[m + 1 + i - 1]
  <2>1. m + 1 \in Int /\ n \in Int /\ \A i \in m + 1 .. n : s[i] \in E
    BY <1>1, <1>2
  <2>. QED BY <1>3, <2>1, SubSeqProperties
<1>5. /\ n - (m + 1) + 1 = n - m /\ (m + 1 <= n \/ n - m = 0)
      /\ \A i \in 1 .. n - m : m + 1 + i - 1 = m + i
  BY <1>2
<1>6. SubSeq(s, 1, m) \o SubSeq(s, m + 1, n) = SubSeq(s, 1, n)
  <2>1. 1 \in 1 .. Len(s) + 1 /\ m \in 1 - 1 .. Len(s) /\ n \in m .. Len(s)
    BY <1>1, <1>2
  <2>. QED BY <2>1, ConcatAdjacentSubSeq
<1>7. SubSeq(s, 1, Len(s)) = s /\ SubSeq(s, 1, 0) = <<>>
  BY SubSeqFull, SubSeqEmpty
<1>. QED BY <1>3, <1>4, <1>5, <1>6, <1>7 DEF Some, Cat

-----------------------------------------------------------------------------
(* Joining the first of some sequences. *)

\* Of two sequences, one is how the other begins.
Begins(s, t, E) == \E r \in Seq(E) : t = Cat(s, r)

\* A beginning stays one when its sequence goes on.
LEMMA BeginsOn ==
  ASSUME NEW E, NEW s \in Seq(E), NEW t \in Seq(E), NEW u \in Seq(E),
         Begins(s, t, E)
  PROVE  /\ Begins(s, s, E) /\ Begins(s, Cat(t, u), E)
         /\ Begins(Cat(u, s), Cat(u, t), E)
         /\ Queue!IsPrefix(s, t)
<1>1. PICK r \in Seq(E) : t = Cat(s, r) BY DEF Begins
<1>2. Cat(t, u) = Cat(s, Cat(r, u)) /\ Cat(r, u) \in Seq(E)
  BY <1>1, CatAssociative, CatFacts
<1>3. Cat(u, t) = Cat(Cat(u, s), r) BY <1>1, CatAssociative
<1>4. <<>> \in Seq(E) /\ s = Cat(s, <<>>) BY CatFacts
<1>5. Queue!IsPrefix(s, t) BY <1>1, CatFacts
<1>. QED BY <1>2, <1>3, <1>4, <1>5 DEF Begins

\* The first sequences are a beginning of all of them.
LEMMA FirstBegins ==
  ASSUME NEW E, NEW seqs \in Seq(Seq(E)), NEW n \in 0 .. Len(seqs)
  PROVE  Begins(First(seqs, n), Queue!FlattenSeq(seqs), E)
<1>1. Len(seqs) \in Nat /\ \A i \in 1 .. Len(seqs) : seqs[i] \in Seq(E)
  BY LenProperties, ElementOfSeq
<1>2. /\ \A i \in 0 .. Len(seqs) : First(seqs, i) \in Seq(E)
      /\ \A i \in 1 .. Len(seqs) : First(seqs, i) = Cat(First(seqs, i - 1), seqs[i])
      /\ First(seqs, Len(seqs)) = Queue!FlattenSeq(seqs)
  BY FirstIs, Zenon DEF Cat
<1>. DEFINE S == {i \in Nat : n + i <= Len(seqs) => Begins(First(seqs, n), First(seqs, n + i), E)}
<1>3. 0 \in S
  <2>1. First(seqs, n) \in Seq(E) BY <1>2
  <2>2. PICK f \in Seq(E) : f = First(seqs, n) BY <2>1
  <2>3. <<>> \in Seq(E) /\ f = Cat(f, <<>>) BY CatFacts
  <2>4. Begins(f, f, E) BY <2>3 DEF Begins
  <2>. QED BY <1>1, <2>2, <2>4
<1>4. ASSUME NEW i \in Nat, i \in S PROVE i + 1 \in S
  <2>. SUFFICES ASSUME n + (i + 1) <= Len(seqs)
                PROVE  Begins(First(seqs, n), First(seqs, n + (i + 1)), E)
    OBVIOUS
  <2>1. /\ n + (i + 1) \in 1 .. Len(seqs) /\ (n + (i + 1)) - 1 = n + i
        /\ n + i <= Len(seqs) /\ n + i \in 0 .. Len(seqs)
    BY <1>1
  <2>2. First(seqs, n + (i + 1)) = Cat(First(seqs, n + i), seqs[n + (i + 1)])
    BY <1>2, <2>1
  <2>3. /\ First(seqs, n) \in Seq(E) /\ First(seqs, n + i) \in Seq(E)
        /\ seqs[n + (i + 1)] \in Seq(E)
        /\ Begins(First(seqs, n), First(seqs, n + i), E)
    BY <1>1, <1>2, <1>4, <2>1
  <2>. QED BY <2>2, <2>3, BeginsOn
<1>. HIDE DEF S
<1>5. Len(seqs) - n \in S
  <2>1. Len(seqs) - n \in Nat BY <1>1
  <2>. QED BY <1>3, <1>4, <2>1, NatSetInduction
<1>6. n + (Len(seqs) - n) = Len(seqs) BY <1>1
<1>. QED BY <1>1, <1>2, <1>5, <1>6 DEF S

PRs == [id : Queue!RepoSet \X Nat, state : {"OPEN", "MERGED"}]

QueueTypes ==
  /\ product \in {"cloud", "datacenter"} /\ asked \in {"OPEN", "ALL"}
  /\ limit \in Nat \ {0} /\ size \in Nat \ {0}
  /\ listing \in [Queue!RepoSet -> Seq(PRs)]
  /\ got \in Seq(PRs) /\ shown \in Seq(PRs)
  /\ listed \in Seq(Queue!RepoSet)
  /\ pc \in {"idle", "list", "read", "done"}

\* The listings of the queue: of a repository, of all.
NGroups == Len(Queue!Groups)
Listing(i, g) == Queue!OfState(listing[Repos[i]], Queue!Groups[g])
OfRepo(i) == [g \in 1 .. NGroups |-> Listing(i, g)]
OfAll == [i \in 1 .. Len(Repos) |-> Queue!FlattenSeq(OfRepo(i))]

\* The queue up to a position: the repositories and listings before, and the
\* first "n" of this one.
Upto(i, g, n) ==
  Cat(Cat(First(OfAll, i - 1), First(OfRepo(i), g - 1)), Some(Listing(i, g), 1, n))

\* The repositories are named once each, and None is not one.
LEMMA RepoFacts ==
  /\ Len(Repos) \in Nat /\ DOMAIN Repos = 1 .. Len(Repos)
  /\ Repos \in Seq(Queue!RepoSet)
  /\ \A i \in 1 .. Len(Repos) : Repos[i] \in Queue!RepoSet
  /\ \A r \in Queue!RepoSet : \E i \in 1 .. Len(Repos) : Repos[i] = r
  /\ \A i, j \in 1 .. Len(Repos) : Repos[i] = Repos[j] => i = j
  /\ None \notin Queue!RepoSet
<1>1. /\ Repos \in Seq(ToSet(Repos)) /\ IsInjective(Repos)
      /\ None \notin ToSet(Repos)
  BY ConstantsAssumption
<1>2. ToSet(Repos) = Queue!RepoSet BY DEF ToSet, Queue!RepoSet, Queue!ToSet
<1>3. Len(Repos) \in Nat /\ DOMAIN Repos = 1 .. Len(Repos) BY <1>1, LenProperties
<1>4. \A i, j \in 1 .. Len(Repos) : Repos[i] = Repos[j] => i = j
  BY <1>1, <1>3 DEF IsInjective
<1>5. /\ \A i \in 1 .. Len(Repos) : Repos[i] \in Queue!RepoSet
      /\ \A r \in Queue!RepoSet : \E i \in 1 .. Len(Repos) : Repos[i] = r
  BY <1>3 DEF Queue!RepoSet, Queue!ToSet
<1>. QED BY <1>1, <1>2, <1>3, <1>4, <1>5

\* There is a group of states, and only one unless all are asked for.
LEMMA GroupFacts ==
  ASSUME QueueTypes
  PROVE  /\ NGroups \in Nat \ {0}
         /\ asked # "ALL" => NGroups = 1 /\ Queue!Groups[1] = asked
<1>1. Queue!Groups = <<"OPEN", "MERGED", "DECLINED", "SUPERSEDED">>
      \/ Queue!Groups = <<asked>>
  BY DEF Queue!Groups
<1>2. asked # "ALL" => Queue!Groups = <<asked>> BY DEF Queue!Groups
<1>. QED BY <1>1, <1>2 DEF NGroups

\* The listings, and what they join to, are pull requests.
LEMMA ListingTypes ==
  ASSUME QueueTypes
  PROVE  /\ \A i \in 1 .. Len(Repos) : \A g : Listing(i, g) \in Seq(PRs)
         /\ \A i \in 1 .. Len(Repos) : /\ OfRepo(i) \in Seq(Seq(PRs))
                                       /\ Len(OfRepo(i)) = NGroups
                                       /\ Queue!FlattenSeq(OfRepo(i)) \in Seq(PRs)
         /\ OfAll \in Seq(Seq(PRs)) /\ Len(OfAll) = Len(Repos)
         /\ Queue!FlattenSeq(OfAll) = Queue!Expected
         /\ Queue!Expected \in Seq(PRs)
<1>1. ASSUME NEW i \in 1 .. Len(Repos), NEW g PROVE Listing(i, g) \in Seq(PRs)
  <2>1. listing[Repos[i]] \in Seq(PRs) BY RepoFacts DEF QueueTypes
  <2>. QED BY <2>1, OfStateFacts DEF Listing
<1>2. NGroups \in Nat BY GroupFacts
<1>3. ASSUME NEW i \in 1 .. Len(Repos)
      PROVE  /\ OfRepo(i) \in Seq(Seq(PRs)) /\ Len(OfRepo(i)) = NGroups
             /\ Queue!FlattenSeq(OfRepo(i)) \in Seq(PRs)
  <2>1. OfRepo(i) \in [1 .. NGroups -> Seq(PRs)] BY <1>1 DEF OfRepo
  <2>2. OfRepo(i) \in Seq(Seq(PRs)) /\ Len(OfRepo(i)) = NGroups BY <1>2, <2>1
  <2>3. First(OfRepo(i), NGroups) \in Seq(PRs)
        /\ First(OfRepo(i), NGroups) = Queue!FlattenSeq(OfRepo(i))
    <3>1. NGroups \in 0 .. Len(OfRepo(i)) BY <1>2, <2>2
    <3>2. PICK o : o = OfRepo(i) OBVIOUS
    <3>. QED BY <2>2, <3>1, <3>2, FirstIs
  <2>. QED BY <2>2, <2>3
<1>4. OfAll \in [1 .. Len(Repos) -> Seq(PRs)] BY <1>3 DEF OfAll
<1>5. OfAll \in Seq(Seq(PRs)) /\ Len(OfAll) = Len(Repos) BY <1>4, RepoFacts
<1>6. First(OfAll, Len(Repos)) \in Seq(PRs)
      /\ First(OfAll, Len(Repos)) = Queue!FlattenSeq(OfAll)
  <2>1. Len(Repos) \in 0 .. Len(OfAll) BY <1>5, RepoFacts
  <2>2. PICK o : o = OfAll OBVIOUS
  <2>. QED BY <1>5, <2>1, <2>2, FirstIs
<1>7. Queue!FlattenSeq(OfAll) = Queue!Expected
  BY DEF OfAll, OfRepo, Listing, NGroups, Queue!Expected
<1>. QED BY <1>1, <1>3, <1>5, <1>6, <1>7

\* A beginning of a beginning is one.
LEMMA BeginsTransitive ==
  ASSUME NEW E, NEW s \in Seq(E), NEW t \in Seq(E), NEW u \in Seq(E),
         Begins(s, t, E), Begins(t, u, E)
  PROVE  Begins(s, u, E)
<1>1. PICK q \in Seq(E) : t = Cat(s, q) BY DEF Begins
<1>2. PICK r \in Seq(E) : u = Cat(t, r) BY DEF Begins
<1>3. u = Cat(s, Cat(q, r)) /\ Cat(q, r) \in Seq(E) BY <1>1, <1>2, CatAssociative, CatFacts
<1>. QED BY <1>3 DEF Begins

\* How the queue goes on from a position.
LEMMA UptoFacts ==
  ASSUME QueueTypes, NEW i \in 1 .. Len(Repos), NEW g \in 1 .. NGroups,
         NEW m \in 0 .. Len(Listing(i, g)), NEW n \in m .. Len(Listing(i, g))
  PROVE  /\ Upto(i, g, m) \in Seq(PRs)
         /\ Some(Listing(i, g), m + 1, n) \in Seq(PRs)
         /\ Upto(i, g, n) = Cat(Upto(i, g, m), Some(Listing(i, g), m + 1, n))
         /\ Upto(i, g, Len(Listing(i, g))) =
              IF g < NGroups THEN Upto(i, g + 1, 0)
              ELSE IF i < Len(Repos) THEN Upto(i + 1, 1, 0) ELSE Queue!Expected
         /\ Upto(1, 1, 0) = <<>>
         /\ Queue!IsPrefix(Upto(i, g, m), Queue!Expected)
<1>. DEFINE L(j, h) == Listing(j, h)
<1>1. /\ \A j \in 1 .. Len(Repos) : \A h : L(j, h) \in Seq(PRs)
      /\ OfAll \in Seq(Seq(PRs)) /\ Len(OfAll) = Len(Repos)
      /\ \A j \in 1 .. Len(Repos) : /\ OfRepo(j) \in Seq(Seq(PRs))
                                    /\ Len(OfRepo(j)) = NGroups
                                    /\ Queue!FlattenSeq(OfRepo(j)) \in Seq(PRs)
      /\ Queue!FlattenSeq(OfAll) = Queue!Expected /\ Queue!Expected \in Seq(PRs)
  BY ListingTypes
<1>2. Len(Repos) \in Nat /\ NGroups \in Nat \ {0} BY RepoFacts, GroupFacts
<1>3. /\ \A j \in 0 .. Len(Repos) : First(OfAll, j) \in Seq(PRs)
      /\ First(OfAll, 0) = <<>>
      /\ \A j \in 1 .. Len(Repos) : First(OfAll, j) = Cat(First(OfAll, j - 1), OfAll[j])
      /\ First(OfAll, Len(Repos)) = Queue!Expected
      /\ \A j \in 0 .. Len(Repos) : Begins(First(OfAll, j), Queue!Expected, PRs)
  <2>1. PICK o \in Seq(Seq(PRs)) : o = OfAll /\ Len(o) = Len(Repos) BY <1>1
  <2>. QED BY <1>1, <2>1, FirstIs, FirstBegins, Zenon DEF Cat
<1>4. ASSUME NEW j \in 1 .. Len(Repos)
      PROVE  /\ \A h \in 0 .. NGroups : First(OfRepo(j), h) \in Seq(PRs)
             /\ First(OfRepo(j), 0) = <<>>
             /\ \A h \in 1 .. NGroups :
                  First(OfRepo(j), h) = Cat(First(OfRepo(j), h - 1), L(j, h))
             /\ First(OfRepo(j), NGroups) = OfAll[j]
             /\ \A h \in 0 .. NGroups : Begins(First(OfRepo(j), h), OfAll[j], PRs)
  <2>1. PICK o \in Seq(Seq(PRs)) : o = OfRepo(j) /\ Len(o) = NGroups BY <1>1
  <2>2. OfAll[j] = Queue!FlattenSeq(OfRepo(j)) BY DEF OfAll
  <2>3. \A h \in 1 .. NGroups : o[h] = L(j, h) BY <2>1 DEF OfRepo
  <2>4. /\ \A h \in 0 .. NGroups : First(o, h) \in Seq(PRs)
        /\ First(o, 0) = <<>> /\ First(o, NGroups) = Queue!FlattenSeq(o)
        /\ \A h \in 1 .. NGroups : First(o, h) = Cat(First(o, h - 1), o[h])
        /\ \A h \in 0 .. NGroups : Begins(First(o, h), Queue!FlattenSeq(o), PRs)
    BY <2>1, FirstIs, FirstBegins, Zenon DEF Cat
  <2>. QED BY <2>1, <2>2, <2>3, <2>4
<1>. HIDE DEF L
<1>5. \A j \in 1 .. Len(Repos) : \A h : L(j, h) = Listing(j, h) BY DEF L
<1>6. PICK l \in Seq(PRs) : l = Listing(i, g) BY <1>1, <1>5
<1>7. \A k \in 0 .. Len(l) : Some(l, 1, k) \in Seq(PRs)
  <2>. TAKE k \in 0 .. Len(l)
  <2>1. Len(l) \in Nat BY LenProperties
  <2>2. 0 \in 0 .. Len(l) /\ k \in 0 .. Len(l) /\ k \in 0 .. Len(l) /\ 0 + 1 = 1 BY <2>1
  <2>3. Some(l, 0 + 1, k) \in Seq(PRs) BY <2>2, SomeFacts
  <2>. QED BY <2>2, <2>3
<1>8. PICK a \in Seq(PRs) : a = First(OfAll, i - 1)
  <2>1. i - 1 \in 0 .. Len(Repos) BY <1>2
  <2>. QED BY <1>3, <2>1
<1>9. PICK b \in Seq(PRs) : b = First(OfRepo(i), g - 1)
  <2>1. g - 1 \in 0 .. NGroups BY <1>2
  <2>. QED BY <1>4, <2>1
<1>10. Cat(a, b) \in Seq(PRs) BY CatFacts
<1>11. \A k \in 0 .. Len(l) : Upto(i, g, k) = Cat(Cat(a, b), Some(l, 1, k))
                              /\ Upto(i, g, k) \in Seq(PRs)
  BY <1>6, <1>7, <1>8, <1>9, <1>10, CatFacts DEF Upto
<1>12. /\ Some(l, m + 1, n) \in Seq(PRs)
       /\ Cat(Some(l, 1, m), Some(l, m + 1, n)) = Some(l, 1, n)
       /\ Some(l, 1, Len(l)) = l /\ Some(l, 1, 0) = <<>>
  BY <1>6, SomeFacts
<1>13. m \in 0 .. Len(l) /\ n \in 0 .. Len(l) /\ Len(l) \in 0 .. Len(l)
  <2>1. Len(l) \in Nat BY LenProperties
  <2>. QED BY <1>6, <2>1
<1>14. Upto(i, g, n) = Cat(Upto(i, g, m), Some(l, m + 1, n))
  BY <1>7, <1>10, <1>11, <1>12, <1>13, CatAssociative
<1>15. \A j \in 1 .. Len(Repos), h \in 1 .. NGroups : Some(Listing(j, h), 1, 0) = <<>>
  BY SubSeqEmpty DEF Some
<1>16. First(OfRepo(i), g) = Cat(b, l)
  BY <1>4, <1>5, <1>6, <1>9
<1>17. Upto(i, g, Len(l)) = Cat(a, Cat(b, l))
  BY <1>11, <1>12, <1>13, CatAssociative
<1>18. ASSUME g < NGroups PROVE Upto(i, g, Len(l)) = Upto(i, g + 1, 0)
  <2>1. g + 1 \in 1 .. NGroups /\ (g + 1) - 1 = g BY <1>2, <1>18
  <2>2. Upto(i, g + 1, 0) = Cat(Cat(a, Cat(b, l)), <<>>)
    BY <1>8, <1>15, <1>16, <2>1 DEF Upto
  <2>3. Cat(b, l) \in Seq(PRs) BY CatFacts
  <2>4. Cat(a, Cat(b, l)) \in Seq(PRs) BY <2>3, CatFacts
  <2>. QED BY <1>17, <2>2, <2>4, CatFacts
<1>19. ASSUME g = NGroups
       PROVE  Upto(i, g, Len(l)) =
                IF i < Len(Repos) THEN Upto(i + 1, 1, 0) ELSE Queue!Expected
  <2>1. OfAll[i] = Cat(b, l) BY <1>4, <1>16, <1>19
  <2>2. First(OfAll, i) = Cat(a, Cat(b, l)) BY <1>3, <1>8, <2>1
  <2>3. CASE i < Len(Repos)
    <3>1. i + 1 \in 1 .. Len(Repos) /\ (i + 1) - 1 = i /\ 1 \in 1 .. NGroups
          /\ 1 - 1 = 0 /\ i \in 0 .. Len(Repos)
      BY <1>2, <2>3
    <3>2. First(OfAll, i) \in Seq(PRs) BY <1>3, <3>1
    <3>3. Upto(i + 1, 1, 0) = Cat(Cat(First(OfAll, i), <<>>), <<>>)
      BY <1>4, <1>15, <3>1 DEF Upto
    <3>4. PICK f \in Seq(PRs) : f = First(OfAll, i) BY <3>2
    <3>5. Cat(f, <<>>) = f BY CatFacts
    <3>. QED BY <1>17, <2>2, <2>3, <3>3, <3>4, <3>5
  <2>4. CASE i = Len(Repos)
    BY <1>3, <1>17, <2>2, <2>4
  <2>. QED BY <1>2, <2>3, <2>4
<1>20. Upto(1, 1, 0) = <<>>
  <2>1. 1 \in 1 .. Len(Repos) /\ 1 \in 1 .. NGroups /\ 1 - 1 = 0 BY <1>2
  <2>2. Upto(1, 1, 0) = Cat(Cat(<<>>, <<>>), <<>>) BY <1>3, <1>4, <1>15, <2>1 DEF Upto
  <2>3. <<>> \in Seq(PRs) OBVIOUS
  <2>. QED BY <2>2, <2>3, CatFacts
<1>21. Queue!IsPrefix(Upto(i, g, m), Queue!Expected)
  <2>1. Begins(Upto(i, g, m), Cat(Cat(a, b), l), PRs)
    <3>1. /\ Some(l, m + 1, Len(l)) \in Seq(PRs)
          /\ Cat(Some(l, 1, m), Some(l, m + 1, Len(l))) = Some(l, 1, Len(l))
      <4>1. m \in 0 .. Len(l) /\ Len(l) \in m .. Len(l)
        <5>1. Len(l) \in Nat BY LenProperties
        <5>. QED BY <1>13, <5>1
      <4>2. PICK k : k = Len(l) OBVIOUS
      <4>3. m \in 0 .. Len(l) /\ k \in m .. Len(l) BY <4>1, <4>2
      <4>4. /\ Some(l, m + 1, k) \in Seq(PRs)
            /\ Cat(Some(l, 1, m), Some(l, m + 1, k)) = Some(l, 1, k)
        BY <4>3, SomeFacts
      <4>. QED BY <4>2, <4>4
    <3>2. Some(l, 1, m) \in Seq(PRs) BY <1>7, <1>13
    <3>3. Cat(Upto(i, g, m), Some(l, m + 1, Len(l))) = Cat(Cat(a, b), l)
      BY <1>10, <1>11, <1>12, <1>13, <3>1, <3>2, CatAssociative
    <3>. QED BY <3>1, <3>3 DEF Begins
  <2>2. Cat(Cat(a, b), l) = Cat(a, First(OfRepo(i), g)) BY <1>16, CatAssociative
  <2>3. /\ g \in 0 .. NGroups /\ i \in 0 .. Len(Repos)
        /\ First(OfRepo(i), g) \in Seq(PRs) /\ OfAll[i] \in Seq(PRs)
        /\ Begins(First(OfRepo(i), g), OfAll[i], PRs)
        /\ Begins(First(OfAll, i), Queue!Expected, PRs)
        /\ First(OfAll, i) = Cat(a, OfAll[i]) /\ First(OfAll, i) \in Seq(PRs)
    <3>1. g \in 0 .. NGroups /\ i \in 0 .. Len(Repos) /\ NGroups \in 0 .. NGroups BY <1>2
    <3>. QED BY <1>3, <1>4, <1>8, <3>1
  <2>4. Begins(Cat(a, First(OfRepo(i), g)), First(OfAll, i), PRs)
    <3>1. PICK f \in Seq(PRs) : f = First(OfRepo(i), g) BY <2>3
    <3>2. PICK w \in Seq(PRs) : w = OfAll[i] BY <2>3
    <3>3. Begins(Cat(a, f), Cat(a, w), PRs) BY <2>3, <3>1, <3>2, BeginsOn
    <3>. QED BY <2>3, <3>1, <3>2, <3>3
  <2>5. Begins(Cat(Cat(a, b), l), Queue!Expected, PRs)
    <3>1. PICK f \in Seq(PRs) : f = Cat(Cat(a, b), l) BY <1>10, CatFacts
    <3>2. PICK w \in Seq(PRs) : w = First(OfAll, i) BY <2>3
    <3>3. PICK e \in Seq(PRs) : e = Queue!Expected BY <1>1
    <3>4. Begins(f, w, PRs) /\ Begins(w, e, PRs) BY <2>2, <2>3, <2>4, <3>1, <3>2, <3>3
    <3>. QED BY <3>1, <3>3, <3>4, BeginsTransitive
  <2>6. Begins(Upto(i, g, m), Queue!Expected, PRs)
    <3>1. PICK f \in Seq(PRs) : f = Cat(Cat(a, b), l) BY <1>10, CatFacts
    <3>2. PICK u \in Seq(PRs) : u = Upto(i, g, m) BY <1>11, <1>13
    <3>3. PICK e \in Seq(PRs) : e = Queue!Expected BY <1>1
    <3>4. Begins(u, f, PRs) /\ Begins(f, e, PRs) BY <2>1, <2>5, <3>1, <3>2, <3>3
    <3>. QED BY <3>2, <3>3, <3>4, BeginsTransitive
  <2>7. PICK u \in Seq(PRs) : u = Upto(i, g, m) BY <1>11, <1>13
  <2>8. PICK e \in Seq(PRs) : e = Queue!Expected BY <1>1
  <2>9. Queue!IsPrefix(u, e) BY <2>6, <2>7, <2>8, BeginsOn
  <2>. QED BY <2>7, <2>8, <2>9
<1>. QED
  BY <1>2, <1>6, <1>11, <1>12, <1>13, <1>14, <1>18, <1>19, <1>20, <1>21

\* What was there when the person began.
Originals(prs) == {p \in Queue!ToSet(prs) : p.id[2] <= MaxOpen}

\* "X" is what the queue "U" has, exactly when nobody changed anything, and no
\* original is missing when pull requests were opened.
Matches(X, U) ==
  /\ Queue!Unchanged => X = U
  /\ Originals(U) \subseteq Queue!ToSet(X)

\* Position "p" comes after "X" in the queue.
At(p, X) ==
  /\ p \in [repo : Queue!RepoSet, page : [group : 1 .. NGroups, start : Nat],
            offset : Nat]
  /\ \E i \in 1 .. Len(Repos) :
       /\ Repos[i] = p.repo
       /\ p.page.start + p.offset <= Len(Listing(i, p.page.group))
       /\ Matches(X, Upto(i, p.page.group, p.page.start + p.offset))
Reaches(p, X) == IF p = None THEN Matches(X, Queue!Expected) ELSE At(p, X)

\* The repositories passed in the provider's listing, which are the last in the
\* queue's order, are listed.
LastListed ==
  /\ at.page \in [group : Nat, start : Nat]
  /\ \A i \in 1 .. Len(Repos) :
       i > Len(Repos) - at.page.start => Repos[i] \in Queue!ToSet(listed)

\* The person and the search under way are where what was shown and found ends.
Walk ==
  /\ pc = "done" => Matches(shown, Queue!Expected)
  /\ pc # "done" =>
       \/ cursor = Queue!Position(None, Queue!FirstPage, 0) /\ shown = <<>>
       \/ At(cursor, shown)
  /\ pc # "read" => got = <<>>
  /\ pc = "list" => LastListed
  /\ pc = "read" =>
       /\ listed = Repos /\ Len(got) <= limit
       /\ At(at, Cat(shown, got))
       /\ Len(got) = limit => Reaches(after, Cat(shown, got))

\* Nothing was closed or removed, by a provider that follows its protocol.
NothingClosed == honest /\ merged = 0 /\ present = Queue!RepoSet

QueueInv ==
  /\ opened \in Nat /\ merged \in Nat
  /\ NothingClosed => QueueTypes /\ Walk

\* A part of a part of a sequence is a part of it.
LEMMA SomeOfSome ==
  ASSUME NEW E, NEW l \in Seq(E), NEW m \in 0 .. Len(l), NEW n \in m .. Len(l),
         NEW o \in 0 .. n - m, NEW k \in o .. n - m
  PROVE  Some(Some(l, m + 1, n), o + 1, k) = Some(l, (m + o) + 1, m + k)
<1>1. Len(l) \in Nat BY LenProperties
<1>2. /\ m \in Nat /\ n \in Nat /\ o \in Nat /\ k \in Nat /\ m <= n /\ n <= Len(l)
      /\ o <= k /\ k <= n - m
  BY <1>1
<1>3. PICK f \in Seq(E) : /\ f = Some(l, m + 1, n) /\ Len(f) = n - m
                          /\ \A j \in 1 .. n - m : f[j] = l[m + j]
  BY SomeFacts
<1>4. PICK u \in Seq(E) : /\ u = Some(f, o + 1, k) /\ Len(u) = k - o
                          /\ \A j \in 1 .. k - o : u[j] = f[o + j]
  <2>1. o \in 0 .. Len(f) /\ k \in o .. Len(f) BY <1>3
  <2>. QED BY <2>1, SomeFacts
<1>5. PICK a : a = m + o OBVIOUS
<1>6. PICK b : b = m + k OBVIOUS
<1>7. PICK v \in Seq(E) : /\ v = Some(l, a + 1, b) /\ Len(v) = b - a
                          /\ \A j \in 1 .. b - a : v[j] = l[a + j]
  <2>1. a \in 0 .. Len(l) /\ b \in a .. Len(l) BY <1>1, <1>2, <1>5, <1>6
  <2>. QED BY <2>1, SomeFacts
<1>8. Len(u) = Len(v) BY <1>2, <1>4, <1>5, <1>6, <1>7
<1>9. \A j \in 1 .. Len(u) : u[j] = v[j]
  <2>. TAKE j \in 1 .. Len(u)
  <2>1. j \in 1 .. k - o BY <1>4
  <2>2. b - a = k - o BY <1>2, <1>5, <1>6
  <2>3. o + j \in 1 .. n - m /\ m + (o + j) = a + j BY <1>2, <1>5, <2>1
  <2>4. u[j] = f[o + j] BY <1>4, <2>1
  <2>5. f[o + j] = l[m + (o + j)] BY <1>3, <2>3
  <2>6. v[j] = l[a + j] BY <1>7, <2>1, <2>2
  <2>. QED BY <2>3, <2>4, <2>5, <2>6
<1>10. u = v BY <1>8, <1>9, SeqEqual
<1>. QED BY <1>3, <1>4, <1>5, <1>6, <1>7, <1>10

\* What is added to the queue is added to what matches it.
LEMMA MatchesOn ==
  ASSUME NEW X \in Seq(PRs), NEW U \in Seq(PRs), NEW y \in Seq(PRs), Matches(X, U)
  PROVE  Matches(Cat(X, y), Cat(U, y))
<1>1. Queue!ToSet(Cat(X, y)) = Queue!ToSet(X) \cup Queue!ToSet(y)
  BY CatFacts
<1>2. Queue!ToSet(Cat(U, y)) = Queue!ToSet(U) \cup Queue!ToSet(y)
  BY CatFacts
<1>. QED BY <1>1, <1>2 DEF Matches, Originals

-----------------------------------------------------------------------------
(* One page. *)

\* The end of the page from "s" of a listing of length "n".
EndOf(s, n) == IF s + size < n THEN s + size ELSE n

\* A page is the part of its listing from its start, as long as a page is.
LEMMA FoundIs ==
  ASSUME QueueTypes, honest, NEW i \in 1 .. Len(Repos), NEW g \in 1 .. NGroups,
         NEW s \in Nat, s <= Len(Listing(i, g)),
         NEW page, page = [group |-> g, start |-> s]
  PROVE  Queue!FilterState(Queue!PullRequests(Repos[i], page)) =
           Some(Listing(i, g), s + 1, EndOf(s, Len(Listing(i, g))))
<1>1. PICK l \in Seq(PRs) : l = Listing(i, g) BY ListingTypes
<1>2. Len(l) \in Nat /\ size \in Nat BY LenProperties DEF QueueTypes
<1>3. EndOf(s, Len(l)) \in s .. Len(l) /\ s \in 0 .. Len(l) BY <1>1, <1>2 DEF EndOf
<1>4. PICK f : f = Some(l, s + 1, EndOf(s, Len(l))) OBVIOUS
<1>5. Queue!PullRequests(Repos[i], page) = f
  BY <1>1, <1>4 DEF Queue!PullRequests, Queue!ListingOf, Listing, EndOf, Some
<1>6. /\ f \in Seq(PRs) /\ Len(f) = EndOf(s, Len(l)) - s
      /\ \A j \in 1 .. EndOf(s, Len(l)) - s : f[j] = l[s + j]
  <2>1. PICK e \in s .. Len(l) : e = EndOf(s, Len(l)) BY <1>3
  <2>2. PICK b \in 0 .. Len(l) : b = s BY <1>3
  <2>3. /\ Some(l, b + 1, e) \in Seq(PRs) /\ Len(Some(l, b + 1, e)) = e - b
        /\ \A j \in 1 .. e - b : Some(l, b + 1, e)[j] = l[b + j]
    <3>. DEFINE p == Some(l, b + 1, e)
    <3>1. b \in 0 .. Len(l) /\ e \in b .. Len(l) BY <2>1, <2>2
    <3>2. p \in Seq(PRs) /\ Len(p) = e - b BY <3>1, SomeFacts
    <3>3. \A j \in 1 .. e - b : p[j] = l[b + j] BY <3>1, SomeFacts
    <3>. QED BY <3>2, <3>3
  <2>. QED BY <1>4, <2>1, <2>2, <2>3
<1>7. Queue!OfState(f, asked) = f
  <2>1. CASE asked = "ALL" BY <2>1 DEF Queue!OfState
  <2>2. CASE asked # "ALL"
    <3>1. Queue!Groups[g] = asked BY <2>2, GroupFacts
    <3>2. l = Queue!OfState(listing[Repos[i]], asked) BY <1>1, <3>1 DEF Listing
    <3>3. listing[Repos[i]] \in Seq(PRs) BY RepoFacts DEF QueueTypes
    <3>4. \A j \in 1 .. Len(l) : l[j].state = asked
      BY <2>2, <3>2, <3>3, OfStateFacts
    <3>5. \A j \in 1 .. Len(f) : f[j].state = asked
      <4>. TAKE j \in 1 .. Len(f)
      <4>1. s + j \in 1 .. Len(l) BY <1>2, <1>3, <1>6
      <4>. QED BY <1>6, <3>4, <4>1
    <3>. QED BY <1>6, <3>5, OfStateFacts
  <2>. QED BY <2>1, <2>2
<1>. QED BY <1>1, <1>4, <1>5, <1>7 DEF Queue!FilterState

\* The next page continues the listing, or starts the next one, or there is
\* none.
LEMMA NextIs ==
  ASSUME QueueTypes, honest, NEW i \in 1 .. Len(Repos), NEW g \in 1 .. NGroups,
         NEW s \in Nat, s <= Len(Listing(i, g)),
         NEW page, page = [group |-> g, start |-> s],
         NEW further \in Queue!NextPages(Repos[i], page)
  PROVE  \/ /\ further = [group |-> g, start |-> s + size]
            /\ s + size < Len(Listing(i, g))
         \/ /\ further = [group |-> g + 1, start |-> 0]
            /\ g < NGroups /\ s + size >= Len(Listing(i, g))
         \/ further = None /\ g = NGroups /\ s + size >= Len(Listing(i, g))
<1>1. Queue!ListingOf(Repos[i], g) = Listing(i, g)
  BY DEF Queue!ListingOf, Listing
<1>2. Len(Listing(i, g)) \in Nat BY ListingTypes, LenProperties
<1>3. size \in Nat \ {0} /\ NGroups \in Nat BY GroupFacts DEF QueueTypes
<1>4. page.start = s /\ page.group = g OBVIOUS
<1>5. CASE s + size < Len(Listing(i, g))
  <2>1. Queue!Continuations(Repos[i], page) = {s + size}
    BY <1>1, <1>4, <1>5 DEF Queue!Continuations
  <2>2. s + size > s BY <1>3
  <2>3. further = [page EXCEPT !.start = s + size]
    BY <1>4, <2>1, <2>2 DEF Queue!NextPages
  <2>. QED BY <1>5, <2>3
<1>6. CASE ~ (s + size < Len(Listing(i, g)))
  <2>1. Queue!Continuations(Repos[i], page) = {}
    BY <1>1, <1>4, <1>6 DEF Queue!Continuations
  <2>2. further \in IF g < NGroups THEN {[group |-> g + 1, start |-> 0]} ELSE {None}
    BY <1>4, <2>1 DEF Queue!NextPages, NGroups
  <2>3. s + size >= Len(Listing(i, g)) BY <1>2, <1>3, <1>6
  <2>. QED BY <1>3, <2>2, <2>3
<1>. QED BY <1>5, <1>6

\* None is neither a page nor a position.
LEMMA NoneIsNoPlace ==
  /\ \A g \in Nat, s \in Nat : [group |-> g, start |-> s] # None
  /\ \A r \in Queue!RepoSet, g \in Nat, s \in Nat, o \in Nat :
       Queue!Position(r, [group |-> g, start |-> s], o) # None
<1>1. ToSet(Repos) = Queue!RepoSet BY DEF ToSet, Queue!RepoSet, Queue!ToSet
<1>2. None \notin [group : Nat, start : Nat] BY ConstantsAssumption
<1>3. None \notin [repo : Queue!RepoSet, page : [group : Nat, start : Nat], offset : Nat]
  BY <1>1, ConstantsAssumption
<1>. QED BY <1>2, <1>3 DEF Queue!Position

\* A place in the queue, as a position.
LEMMA AtPlace ==
  ASSUME QueueTypes, NEW i \in 1 .. Len(Repos), NEW g \in 1 .. NGroups,
         NEW s \in Nat, NEW o \in Nat, s + o <= Len(Listing(i, g)),
         NEW X, Matches(X, Upto(i, g, s + o)),
         NEW page, page = [group |-> g, start |-> s]
  PROVE  /\ At(Queue!Position(Repos[i], page, o), X)
         /\ Reaches(Queue!Position(Repos[i], page, o), X)
<1>1. g \in Nat BY GroupFacts
<1>2. Repos[i] \in Queue!RepoSet BY RepoFacts
<1>3. At(Queue!Position(Repos[i], page, o), X)
  BY <1>2 DEF At, Queue!Position
<1>4. Queue!Position(Repos[i], page, o) # None BY <1>1, <1>2, NoneIsNoPlace
<1>. QED BY <1>3, <1>4 DEF Reaches

\* A repository is found at its place.
LEMMA IndexIs ==
  ASSUME NEW i \in 1 .. Len(Repos)
  PROVE  Queue!IndexIn(Repos[i], Repos) = i
BY RepoFacts DEF Queue!IndexIn

\* A page as it is read, and a page it may lead to.
IsPage(found, further) ==
  /\ found = Queue!FilterState(Queue!PullRequests(at.repo, at.page))
  /\ further \in Queue!NextPages(at.repo, at.page)

\* The position after k entries of a page is the end of the queue up to them.
LEMMA AfterReaches ==
  ASSUME QueueTypes, honest, listed = Repos, NEW X \in Seq(PRs), At(at, X),
         NEW found, NEW further, IsPage(found, further),
         NEW k \in at.offset .. Len(found)
  PROVE  /\ found \in Seq(PRs) /\ at.offset \in Nat
         /\ Reaches(Queue!After(k, found, further),
                    Cat(X, Some(found, at.offset + 1, k)))
<1>1. PICK i \in 1 .. Len(Repos) :
         /\ Repos[i] = at.repo
         /\ at.page.start + at.offset <= Len(Listing(i, at.page.group))
         /\ Matches(X, Upto(i, at.page.group, at.page.start + at.offset))
  BY DEF At
<1>2. /\ at.page.group \in 1 .. NGroups /\ at.page.start \in Nat /\ at.offset \in Nat
      /\ at.page = [group |-> at.page.group, start |-> at.page.start]
  BY DEF At
<1>3. PICK g \in 1 .. NGroups : g = at.page.group BY <1>2
<1>4. PICK s \in Nat : s = at.page.start BY <1>2
<1>5. PICK o \in Nat : o = at.offset BY <1>2
<1>6. PICK l \in Seq(PRs) : l = Listing(i, g) BY ListingTypes
<1>7. PICK n \in Nat : n = Len(l) BY LenProperties
<1>8. s + o <= n /\ Matches(X, Upto(i, g, s + o)) BY <1>1, <1>3, <1>4, <1>5, <1>6, <1>7
<1>9. at.page = [group |-> g, start |-> s] BY <1>2, <1>3, <1>4
<1>10. size \in Nat \ {0} /\ NGroups \in Nat \ {0} /\ Len(Repos) \in Nat
  BY GroupFacts, RepoFacts DEF QueueTypes
<1>11. PICK e \in Nat : e = EndOf(s, n) /\ s <= e /\ e <= n
  BY <1>8, <1>10 DEF EndOf
<1>12. found = Some(l, s + 1, e)
  BY <1>1, <1>6, <1>7, <1>8, <1>9, <1>11, FoundIs DEF IsPage
<1>13. found \in Seq(PRs) /\ Len(found) = e - s
  <2>1. s \in 0 .. Len(l) /\ e \in s .. Len(l) BY <1>7, <1>11
  <2>2. Some(l, s + 1, e) \in Seq(PRs) /\ Len(Some(l, s + 1, e)) = e - s
    BY <2>1, SomeFacts
  <2>. QED BY <1>12, <2>2
<1>14. o <= k /\ k <= e - s /\ k \in Nat /\ s + k <= n /\ s + o <= s + k
  <2>1. PICK c \in Nat : c = Len(found) BY <1>13, LenProperties
  <2>2. c = e - s BY <1>13, <2>1
  <2>3. k \in o .. c /\ o \in Nat BY <1>5, <2>1
  <2>4. o <= k /\ k <= c /\ k \in Nat BY <2>1, <2>3
  <2>5. s \in Nat /\ e \in Nat /\ n \in Nat /\ e <= n BY <1>5, <1>7, <1>11
  <2>. HIDE DEF EndOf
  <2>. QED BY <2>2, <2>3, <2>4, <2>5
<1>15. PICK y : y = Some(found, o + 1, k) OBVIOUS
<1>16. y = Some(l, (s + o) + 1, s + k)
  <2>1. s \in 0 .. Len(l) /\ e \in s .. Len(l) /\ o \in 0 .. e - s /\ k \in o .. e - s
    BY <1>7, <1>11, <1>14
  <2>. QED BY <1>12, <1>15, <2>1, SomeOfSome
<1>17. y \in Seq(PRs) /\ Matches(Cat(X, y), Upto(i, g, s + k))
  <2>1. PICK a \in 0 .. Len(Listing(i, g)) : a = s + o BY <1>6, <1>7, <1>8
  <2>2. PICK b \in a .. Len(Listing(i, g)) : b = s + k BY <1>6, <1>7, <1>14, <2>1
  <2>3. /\ Upto(i, g, a) \in Seq(PRs)
        /\ Some(Listing(i, g), a + 1, b) \in Seq(PRs)
        /\ Upto(i, g, b) = Cat(Upto(i, g, a), Some(Listing(i, g), a + 1, b))
    BY UptoFacts
  <2>4. y = Some(Listing(i, g), a + 1, b) BY <1>6, <1>16, <2>1, <2>2
  <2>5. y \in Seq(PRs) /\ Upto(i, g, a) \in Seq(PRs) /\ Matches(X, Upto(i, g, a))
    BY <1>8, <2>1, <2>3, <2>4
  <2>6. Matches(Cat(X, y), Cat(Upto(i, g, a), y)) BY <2>5, MatchesOn
  <2>. QED BY <2>2, <2>3, <2>4, <2>5, <2>6
<1>18. PICK Y : Y = Cat(X, y) OBVIOUS
<1>19. Upto(i, g, n) = IF g < NGroups THEN Upto(i, g + 1, 0)
                       ELSE IF i < Len(Repos) THEN Upto(i + 1, 1, 0)
                       ELSE Queue!Expected
  <2>1. 0 \in 0 .. Len(Listing(i, g)) BY <1>6, <1>7
  <2>. QED BY <1>6, <1>7, <2>1, UptoFacts
<1>20. \A j \in 1 .. Len(Repos), h \in 1 .. NGroups :
         0 + 0 = 0 /\ 0 <= Len(Listing(j, h))
  BY ListingTypes, LenProperties
<1>21. CASE k < Len(found)
  <2>1. Queue!After(k, found, further) = Queue!Position(Repos[i], at.page, k)
    BY <1>1, <1>21 DEF Queue!After
  <2>2. Reaches(Queue!Position(Repos[i], at.page, k), Cat(X, y))
    BY <1>6, <1>7, <1>9, <1>14, <1>17, AtPlace
  <2>. QED BY <1>5, <1>13, <1>15, <2>1, <2>2
<1>22. CASE ~ (k < Len(found))
  <2>1. s + k = e /\ k = Len(found)
    <3>1. PICK c \in Nat : c = Len(found) BY <1>13, LenProperties
    <3>2. c = e - s /\ e \in Nat /\ s \in Nat BY <1>5, <1>11, <1>13, <3>1
    <3>3. k <= c /\ k \in Nat BY <1>14, <3>2
    <3>4. ~ (k < c) BY <1>22, <3>1
    <3>5. k = c BY <3>1, <3>3, <3>4
    <3>. QED BY <3>1, <3>2, <3>5
  <2>2. \/ further = [group |-> g, start |-> s + size] /\ s + size < n
        \/ further = [group |-> g + 1, start |-> 0] /\ g < NGroups /\ s + size >= n
        \/ further = None /\ g = NGroups /\ s + size >= n
    BY <1>1, <1>6, <1>7, <1>8, <1>9, NextIs DEF IsPage
  <2>3. CASE further = [group |-> g, start |-> s + size] /\ s + size < n
    <3>1. further # None /\ s + size \in Nat /\ g \in Nat /\ (s + size) + 0 = s + size
      BY <1>10, <2>3, NoneIsNoPlace
    <3>2. e = s + size BY <1>11, <2>3 DEF EndOf
    <3>3. Queue!After(k, found, further) = Queue!Position(Repos[i], further, 0)
      BY <1>1, <1>22, <3>1 DEF Queue!After
    <3>4. Reaches(Queue!Position(Repos[i], further, 0), Cat(X, y))
      <4>1. PICK b \in Nat : b = s + size BY <3>1
      <4>2. further = [group |-> g, start |-> b] /\ b + 0 = b BY <2>3, <4>1
      <4>3. b + 0 <= Len(Listing(i, g)) BY <1>6, <1>7, <2>3, <4>1, <4>2
      <4>4. Matches(Cat(X, y), Upto(i, g, b + 0))
        BY <1>17, <2>1, <3>2, <4>1, <4>2
      <4>. QED BY <4>2, <4>3, <4>4, AtPlace
    <3>. QED BY <1>5, <1>13, <1>15, <3>3, <3>4
  <2>4. CASE further = [group |-> g + 1, start |-> 0] /\ g < NGroups /\ s + size >= n
    <3>1. further # None /\ g + 1 \in Nat /\ g + 1 \in 1 .. NGroups
      BY <1>10, <2>4, NoneIsNoPlace
    <3>2. s + k = n BY <1>11, <2>1, <2>4 DEF EndOf
    <3>3. Matches(Cat(X, y), Upto(i, g + 1, 0)) BY <1>17, <1>19, <2>4, <3>2
    <3>4. Queue!After(k, found, further) = Queue!Position(Repos[i], further, 0)
      BY <1>1, <1>22, <3>1 DEF Queue!After
    <3>5. Reaches(Queue!Position(Repos[i], further, 0), Cat(X, y))
      BY <1>20, <2>4, <3>1, <3>3, AtPlace
    <3>. QED BY <1>5, <1>13, <1>15, <3>4, <3>5
  <2>5. CASE further = None /\ g = NGroups /\ s + size >= n
    <3>1. s + k = n BY <1>11, <2>1, <2>5 DEF EndOf
    <3>2. Queue!IndexIn(at.repo, listed) = i BY <1>1, IndexIs
    <3>3. CASE i < Len(Repos)
      <4>1. i + 1 \in 1 .. Len(Repos) /\ 1 \in 1 .. NGroups BY <1>10, <3>3
      <4>2. Matches(Cat(X, y), Upto(i + 1, 1, 0)) BY <1>10, <1>17, <1>19, <2>5, <3>1, <3>3
      <4>3. Queue!After(k, found, further) =
              Queue!Position(Repos[i + 1], Queue!FirstPage, 0)
        BY <1>22, <2>5, <3>2, <3>3 DEF Queue!After, Queue!HasNextRepo, Queue!NextRepo
      <4>4. Queue!FirstPage = [group |-> 1, start |-> 0] BY DEF Queue!FirstPage
      <4>5. Reaches(Queue!Position(Repos[i + 1], Queue!FirstPage, 0), Cat(X, y))
        BY <1>20, <4>1, <4>2, <4>4, AtPlace
      <4>. QED BY <1>5, <1>13, <1>15, <4>3, <4>5
    <3>4. CASE ~ (i < Len(Repos))
      <4>1. Queue!After(k, found, further) = None
        BY <1>22, <2>5, <3>2, <3>4 DEF Queue!After, Queue!HasNextRepo
      <4>2. Matches(Cat(X, y), Queue!Expected) BY <1>10, <1>17, <1>19, <2>5, <3>1, <3>4
      <4>. QED BY <1>5, <1>13, <1>15, <4>1, <4>2 DEF Reaches
    <3>. QED BY <3>3, <3>4
  <2>. QED BY <2>2, <2>3, <2>4, <2>5
<1>. QED BY <1>21, <1>22

\* The same with other listings.
ListingIn(l, i, g) == Queue!OfState(l[Repos[i]], Queue!Groups[g])
OfRepoIn(l, i) == [g \in 1 .. NGroups |-> ListingIn(l, i, g)]
OfAllIn(l) == [i \in 1 .. Len(Repos) |-> Queue!FlattenSeq(OfRepoIn(l, i))]
UptoIn(l, i, g, n) ==
  Cat(Cat(First(OfAllIn(l), i - 1), First(OfRepoIn(l, i), g - 1)),
      Some(ListingIn(l, i, g), 1, n))

\* After a step the names above speak of the new listings,
LEMMA Later ==
  ASSUME product' = product, asked' = asked
  PROVE  /\ \A i, g : Listing(i, g)' = ListingIn(listing', i, g)
         /\ \A i, g, n : Upto(i, g, n)' = UptoIn(listing', i, g, n)
         /\ Queue!Expected' = Queue!FlattenSeq(OfAllIn(listing'))
         /\ NGroups' = NGroups
<1>1. Queue!Groups' = Queue!Groups BY DEF Queue!Groups
<1>2. NGroups' = NGroups BY <1>1 DEF NGroups
<1>3. \A i, g : Listing(i, g)' = ListingIn(listing', i, g)
  BY <1>1 DEF Listing, ListingIn
<1>4. \A i : OfRepo(i)' = OfRepoIn(listing', i)
  BY <1>1, <1>2, <1>3 DEF Listing, OfRepo, OfRepoIn
<1>5. OfAll' = OfAllIn(listing')
  BY <1>1, <1>2, <1>4 DEF OfAll, OfAllIn, OfRepo
<1>6. \A i, g, n : Upto(i, g, n)' = UptoIn(listing', i, g, n)
  BY <1>3, <1>4, <1>5 DEF Upto, UptoIn
<1>7. Queue!Expected' = Queue!FlattenSeq(OfAllIn(listing'))
  BY <1>1 DEF Queue!Expected, OfAllIn, OfRepoIn, ListingIn, NGroups
<1>. QED BY <1>2, <1>3, <1>6, <1>7

\* and before it of the present ones.
LEMMA Now ==
  /\ \A i, g : Listing(i, g) = ListingIn(listing, i, g)
  /\ \A i, g, n : Upto(i, g, n) = UptoIn(listing, i, g, n)
  /\ Queue!Expected = Queue!FlattenSeq(OfAllIn(listing))
<1>1. \A i, g : Listing(i, g) = ListingIn(listing, i, g) BY DEF Listing, ListingIn
<1>2. \A i : OfRepo(i) = OfRepoIn(listing, i) BY DEF Listing, ListingIn, OfRepo, OfRepoIn
<1>3. OfAll = OfAllIn(listing) BY <1>2 DEF OfAll, OfAllIn
<1>4. \A i, g, n : Upto(i, g, n) = UptoIn(listing, i, g, n)
  BY <1>1, <1>2, <1>3 DEF Upto, UptoIn
<1>5. Queue!Expected = Queue!FlattenSeq(OfAllIn(listing))
  BY DEF Queue!Expected, OfAllIn, OfRepoIn, ListingIn, NGroups
<1>. QED BY <1>1, <1>4, <1>5

-----------------------------------------------------------------------------
(* A search that goes on, answers or refuses. *)

LEMMA AtLater ==
  ASSUME UNCHANGED <<Queue!setting, Queue!provider>>, NEW p, NEW X
  PROVE  /\ At(p, X) /\ p = cursor' /\ X = shown' => At(cursor, shown)'
         /\ At(p, X) /\ p = at' /\ X = Cat(shown', got') => At(at, Cat(shown, got))'
         /\ Matches(X, Queue!Expected) /\ X = shown' => Matches(shown, Queue!Expected)'
         /\ Reaches(p, X) /\ p = after' /\ X = Cat(shown', got') =>
              Reaches(after, Cat(shown, got))'
<1>1. /\ product' = product /\ asked' = asked /\ listing' = listing
      /\ honest' = honest /\ opened' = opened /\ merged' = merged
      /\ present' = present
  BY DEF Queue!setting, Queue!provider
<1>2. /\ \A i, g : Listing(i, g)' = Listing(i, g)
      /\ \A i, g, n : Upto(i, g, n)' = Upto(i, g, n)
      /\ Queue!Expected' = Queue!Expected
      /\ NGroups' = NGroups
  BY <1>1, Later, Now
<1>3. Queue!Unchanged' = Queue!Unchanged BY <1>1 DEF Queue!Unchanged
<1>4. \A Y, U : Matches(Y, U)' = Matches(Y, U) BY <1>3 DEF Matches
<1>5. At(p, X) /\ p = cursor' /\ X = shown' => At(cursor, shown)'
  BY <1>2, <1>3 DEF At, Matches
<1>6. At(p, X) /\ p = at' /\ X = Cat(shown', got') => At(at, Cat(shown, got))'
  BY <1>2, <1>3 DEF At, Matches
<1>7. Matches(X, Queue!Expected) /\ X = shown' => Matches(shown, Queue!Expected)'
  BY <1>2, <1>3 DEF Matches
<1>8. Reaches(p, X) /\ p = after' /\ X = Cat(shown', got') =>
        Reaches(after, Cat(shown, got))'
  BY <1>2, <1>3 DEF Reaches, At, Matches
<1>. QED BY <1>5, <1>6, <1>7, <1>8

\* An answer: what it shows is the queue up to the cursor it returns.
LEMMA AnswersKeep ==
  ASSUME QueueTypes, UNCHANGED <<Queue!setting, Queue!provider>>,
         NEW prs \in Seq(PRs), NEW further, Queue!Answers(prs, further),
         Reaches(further, Cat(shown, prs))
  PROVE  QueueTypes' /\ Walk'
<1>1. /\ pc' = IF further = None THEN "done" ELSE "idle"
      /\ cursor' = further /\ shown' = Cat(shown, prs) /\ got' = <<>> /\ listed' = <<>>
  BY DEF Queue!Answers, Queue!Rests, Cat
<1>2. shown \in Seq(PRs) BY DEF QueueTypes
<1>3. shown' \in Seq(PRs) BY <1>1, <1>2, CatFacts
<1>4. QueueTypes'
  BY <1>1, <1>3 DEF QueueTypes, Queue!setting, Queue!provider
<1>5. CASE further = None
  <2>1. Matches(shown, Queue!Expected)' BY <1>1, <1>5, AtLater DEF Reaches
  <2>. QED BY <1>1, <1>4, <1>5, <2>1 DEF Walk
<1>6. CASE further # None
  <2>1. At(cursor, shown)' BY <1>1, <1>6, AtLater DEF Reaches
  <2>. QED BY <1>1, <1>4, <1>6, <2>1 DEF Walk
<1>. QED BY <1>5, <1>6

\* A refused search leaves what was shown and the cursor.
LEMMA RefusesKeep ==
  ASSUME QueueTypes, Walk, pc # "done", UNCHANGED <<Queue!setting, Queue!provider>>,
         Queue!Refuses
  PROVE  QueueTypes' /\ Walk'
<1>1. /\ pc' = "idle" /\ cursor' = cursor /\ shown' = shown /\ got' = <<>>
      /\ listed' = <<>>
  BY DEF Queue!Refuses, Queue!Rests
<1>2. QueueTypes' BY <1>1 DEF QueueTypes, Queue!setting, Queue!provider
<1>3. \/ cursor = Queue!Position(None, Queue!FirstPage, 0) /\ shown = <<>>
      \/ At(cursor, shown)
  BY DEF Walk
<1>4. \/ cursor' = Queue!Position(None, Queue!FirstPage, 0) /\ shown' = <<>>
      \/ At(cursor, shown)'
  BY <1>1, <1>3, AtLater
<1>5. \/ (cursor = Queue!Position(None, Queue!FirstPage, 0) /\ shown = <<>>)'
      \/ At(cursor, shown)'
  BY <1>4 DEF Queue!Position, Queue!FirstPage
<1>. QED BY <1>1, <1>2, <1>5 DEF Walk

\* The search reads on.
LEMMA GoesOnKeeps ==
  ASSUME QueueTypes, Walk, pc # "done", UNCHANGED <<Queue!setting, Queue!provider>>,
         pc' = "read", UNCHANGED <<cursor, shown>>, listed' = Repos,
         NEW all \in Seq(PRs), got' = all, Len(all) <= limit,
         At(at', Cat(shown, all)),
         Len(all) = limit => Reaches(after', Cat(shown, all))
  PROVE  QueueTypes' /\ Walk'
<1>1. QueueTypes' BY RepoFacts DEF QueueTypes, Queue!setting, Queue!provider
<1>2. \/ cursor = Queue!Position(None, Queue!FirstPage, 0) /\ shown = <<>>
      \/ At(cursor, shown)
  BY DEF Walk
<1>3. \/ cursor' = Queue!Position(None, Queue!FirstPage, 0) /\ shown' = <<>>
      \/ At(cursor, shown)'
  BY <1>2, AtLater
<1>4. \/ (cursor = Queue!Position(None, Queue!FirstPage, 0) /\ shown = <<>>)'
      \/ At(cursor, shown)'
  BY <1>3 DEF Queue!Position, Queue!FirstPage
<1>5. PICK X : X = Cat(shown', got') OBVIOUS
<1>6. PICK p : p = at' OBVIOUS
<1>7. PICK q : q = after' OBVIOUS
<1>8. At(p, X) /\ (Len(all) = limit => Reaches(q, X)) BY <1>5, <1>6, <1>7
<1>9. At(at, Cat(shown, got))' BY <1>5, <1>6, <1>8, AtLater
<1>10. Len(all) = limit => Reaches(after, Cat(shown, got))'
  BY <1>5, <1>7, <1>8, AtLater
<1>11. limit' = limit BY DEF Queue!setting
<1>. QED BY <1>1, <1>4, <1>9, <1>10, <1>11 DEF Walk

\* A search begins with the first page of the repositories.
LEMMA OpenKeeps ==
  ASSUME QueueTypes, Walk, Queue!Open
  PROVE  QueueTypes' /\ Walk'
<1>1. /\ pc = "idle" /\ pc' = "list" /\ UNCHANGED <<Queue!setting, Queue!provider>>
      /\ UNCHANGED <<listed, got, cursor, shown>>
      /\ at' = Queue!Position(None, Queue!FirstPage, 0)
  BY DEF Queue!Open
<1>2. QueueTypes' BY <1>1 DEF QueueTypes, Queue!setting, Queue!provider
<1>3. got' = <<>> BY <1>1 DEF Walk
<1>4. \/ cursor = Queue!Position(None, Queue!FirstPage, 0) /\ shown = <<>>
      \/ At(cursor, shown)
  BY <1>1 DEF Walk
<1>5. \/ cursor' = Queue!Position(None, Queue!FirstPage, 0) /\ shown' = <<>>
      \/ At(cursor, shown)'
  BY <1>1, <1>4, AtLater
<1>6. \/ (cursor = Queue!Position(None, Queue!FirstPage, 0) /\ shown = <<>>)'
      \/ At(cursor, shown)'
  BY <1>5 DEF Queue!Position, Queue!FirstPage
<1>7. LastListed'
  <2>1. at'.page = [group |-> 1, start |-> 0]
    BY <1>1 DEF Queue!Position, Queue!FirstPage
  <2>2. \A i \in 1 .. Len(Repos) : ~ (i > Len(Repos) - 0) BY RepoFacts
  <2>. QED BY <2>1, <2>2 DEF LastListed
<1>. QED BY <1>1, <1>2, <1>3, <1>6, <1>7 DEF Walk

\* The provider lists the repositories in the opposite order.
LEMMA TheirOrderIs ==
  ASSUME present = Queue!RepoSet
  PROVE  /\ Queue!TheirOrder \in Seq(Queue!RepoSet)
         /\ Len(Queue!TheirOrder) = Len(Repos)
         /\ \A i \in 1 .. Len(Repos) : Queue!TheirOrder[Len(Repos) - i + 1] = Repos[i]
<1>1. Queue!InOrder(present) = Repos BY RepoFacts, AllInOrder
<1>2. PICK n \in Nat : n = Len(Repos) BY RepoFacts
<1>3. Queue!TheirOrder = [i \in 1 .. n |-> Repos[(n - i) + 1]]
  BY <1>1, <1>2 DEF Queue!TheirOrder, Queue!Reverse
<1>4. \A i \in 1 .. n : (n - i) + 1 \in 1 .. n BY <1>2
<1>5. \A i \in 1 .. n : Repos[(n - i) + 1] \in Queue!RepoSet BY <1>2, <1>4, RepoFacts
<1>6. PICK t : t = [i \in 1 .. n |-> Repos[(n - i) + 1]] OBVIOUS
<1>7. t \in [1 .. n -> Queue!RepoSet] BY <1>5, <1>6
<1>8. t \in Seq(Queue!RepoSet) /\ Len(t) = n BY <1>7, SeqDef, LenProperties
<1>9. ASSUME NEW i \in 1 .. n PROVE t[n - i + 1] = Repos[i]
  <2>1. (n - i) + 1 \in 1 .. n /\ n - ((n - i) + 1) + 1 = i BY <1>2
  <2>. QED BY <1>6, <2>1
<1>. QED BY <1>2, <1>3, <1>6, <1>8, <1>9

\* "u" has every place of "t" from one to another.
Has(u, t, from, to, E) ==
  /\ u \in Seq(E)
  /\ \A j \in from + 1 .. to : \E k \in 1 .. Len(u) : u[k] = t[j]

\* So has a part of what it was cut from.
LEMMA PartHas ==
  ASSUME NEW E, NEW t \in Seq(E), NEW from \in Nat, NEW to \in Nat, to <= Len(t)
  PROVE  Has(SubSeq(t, from + 1, to), t, from, to, E)
<1>1. Len(t) \in Nat BY LenProperties
<1>2. CASE from >= to
  <2>1. from + 1 \in Int /\ to \in Int /\ from + 1 > to BY <1>2
  <2>2. SubSeq(t, from + 1, to) = <<>> BY <2>1, SubSeqEmpty
  <2>3. \A j \in from + 1 .. to : FALSE BY <1>2
  <2>4. <<>> \in Seq(E) BY EmptySeq
  <2>. QED BY <2>2, <2>3, <2>4 DEF Has
<1>3. CASE ~ (from >= to)
  <2>1. from \in 0 .. Len(t) /\ to \in from .. Len(t) BY <1>1, <1>3
  <2>2. /\ SubSeq(t, from + 1, to) \in Seq(E)
        /\ Len(SubSeq(t, from + 1, to)) = to - from
        /\ \A k \in 1 .. to - from : SubSeq(t, from + 1, to)[k] = t[from + k]
    BY <2>1, SomeFacts DEF Some
  <2>3. \A j \in from + 1 .. to : j - from \in 1 .. to - from /\ from + (j - from) = j
    OBVIOUS
  <2>. QED BY <2>2, <2>3 DEF Has
<1>. QED BY <1>2, <1>3

\* Counted from the end, a place of the page.
LEMMA PlaceFromEnd ==
  ASSUME NEW n \in Nat, NEW from \in Nat, NEW to \in Nat, to <= n,
         NEW i \in 1 .. n, i > n - to, ~ (i > n - from)
  PROVE  n - i + 1 \in from + 1 .. to
OBVIOUS

\* The names on a page are the provider's next, so that those passed at its end
\* are listed with them.
LEMMA NamesAre ==
  ASSUME QueueTypes, LastListed, present = Queue!RepoSet,
         NEW s \in Nat, s = at.page.start, NEW e \in Nat, e = EndOf(s, Len(Repos)),
         NEW all, all = listed \o Queue!NamesOn(at.page)
  PROVE  /\ all \in Seq(Queue!RepoSet)
         /\ \A i \in 1 .. Len(Repos) :
              i > Len(Repos) - e => Repos[i] \in Queue!ToSet(all)
<1>1. PICK n \in Nat : n = Len(Repos) BY RepoFacts
<1>2. PICK t \in Seq(Queue!RepoSet) :
        /\ t = Queue!TheirOrder /\ Len(t) = n
        /\ \A i \in 1 .. n : t[n - i + 1] = Repos[i]
  BY <1>1, TheirOrderIs
<1>3. size \in Nat \ {0} /\ listed \in Seq(Queue!RepoSet) BY DEF QueueTypes
<1>4. PICK names : names = SubSeq(t, s + 1, e) OBVIOUS
<1>5. Queue!NamesOn(at.page) = names
  BY <1>1, <1>2, <1>4 DEF Queue!NamesOn, EndOf
<1>6. e <= n BY <1>1, <1>3 DEF EndOf
<1>7. /\ names \in Seq(Queue!RepoSet)
      /\ \A j \in s + 1 .. e : \E k \in 1 .. Len(names) : names[k] = t[j]
  <2>1. e <= Len(t) BY <1>2, <1>6
  <2>2. Has(SubSeq(t, s + 1, e), t, s, e, Queue!RepoSet) BY <2>1, PartHas
  <2>3. Has(names, t, s, e, Queue!RepoSet) BY <1>4, <2>2
  <2>. QED BY <2>3 DEF Has
<1>8. Cat(listed, names) = all BY <1>5 DEF Cat
<1>9. /\ all \in Seq(Queue!RepoSet)
      /\ Queue!ToSet(all) = Queue!ToSet(listed) \cup Queue!ToSet(names)
  <2>1. /\ Cat(listed, names) \in Seq(Queue!RepoSet)
        /\ Queue!ToSet(Cat(listed, names)) = Queue!ToSet(listed) \cup Queue!ToSet(names)
    BY <1>3, <1>7, CatFacts
  <2>. QED BY <1>8, <2>1
<1>10. ASSUME NEW i \in 1 .. n, i > n - e PROVE Repos[i] \in Queue!ToSet(all)
  <2>1. CASE i > n - s BY <1>1, <1>9, <2>1 DEF LastListed
  <2>2. CASE ~ (i > n - s)
    <3>1. n - i + 1 \in s + 1 .. e BY <1>6, <1>10, <2>2, PlaceFromEnd
    <3>2. PICK k \in 1 .. Len(names) : names[k] = t[n - i + 1] BY <1>7, <3>1
    <3>3. k \in DOMAIN names BY <1>7, <3>2, LenProperties
    <3>4. names[k] \in Queue!ToSet(names) BY <3>3 DEF Queue!ToSet
    <3>. QED BY <1>2, <1>9, <3>2, <3>4
  <2>. QED BY <2>1, <2>2
<1>. QED BY <1>1, <1>9, <1>10

\* The search proper starts at the queue's beginning or at the cursor.
LEMMA SearchesKeeps ==
  ASSUME QueueTypes, Walk, NothingClosed, pc = "list",
         UNCHANGED <<Queue!setting, Queue!provider>>, Queue!Searches(Repos)
  PROVE  QueueTypes' /\ Walk'
<1>1. UNCHANGED <<Queue!setting, Queue!provider>> OBVIOUS
<1>2. got = <<>> BY DEF Walk
<1>4. \/ cursor = Queue!Position(None, Queue!FirstPage, 0) /\ shown = <<>>
      \/ At(cursor, shown)
  BY <1>1 DEF Walk
<1>5. Queue!Position(None, Queue!FirstPage, 0).repo = None BY DEF Queue!Position
<1>6. ASSUME At(cursor, shown)
      PROVE  cursor.repo \in Queue!RepoSet /\ cursor.repo # None /\ Len(Repos) # 0
  BY <1>6, RepoFacts DEF At
<1>7. /\ shown \in Seq(PRs) /\ Cat(shown, <<>>) = shown /\ <<>> \in Seq(PRs)
      /\ limit \in Nat \ {0}
  <2>1. shown \in Seq(PRs) /\ limit \in Nat \ {0} BY DEF QueueTypes
  <2>. QED BY <2>1, CatFacts
<1>8. Matches(<<>>, <<>>) BY DEF Matches, Originals
<1>9. \/ Repos = <<>> /\ cursor.repo = None /\ Queue!Answers(<<>>, None)
      \/ Queue!Refuses
      \/ /\ Repos # <<>> \/ cursor.repo # None
         /\ pc' = "read" /\ listed' = Repos
         /\ at' = IF cursor.repo = None
                    THEN Queue!Position(Repos[1], Queue!FirstPage, 0) ELSE cursor
         /\ UNCHANGED <<got, after, cursor, shown>>
  BY DEF Queue!Searches
<1>10. CASE Repos = <<>> /\ cursor.repo = None /\ Queue!Answers(<<>>, None)
  <2>1. shown = <<>> BY <1>4, <1>6, <1>10
  <2>2. Queue!Expected = <<>>
    <3>1. OfAll \in Seq(Seq(PRs)) /\ Len(OfAll) = 0
          /\ Queue!FlattenSeq(OfAll) = Queue!Expected
      BY <1>10, ListingTypes
    <3>2. PICK o \in Seq(Seq(PRs)) : o = OfAll /\ Len(o) = 0 BY <3>1
    <3>3. First(o, 0) = <<>> /\ First(o, Len(o)) = Queue!FlattenSeq(o) BY FirstIs
    <3>. QED BY <3>1, <3>2, <3>3
  <2>3. Reaches(None, Cat(shown, <<>>)) BY <1>7, <1>8, <2>1, <2>2 DEF Reaches
  <2>. QED BY <1>1, <1>7, <1>10, <2>3, AnswersKeep
<1>11. CASE Queue!Refuses BY <1>1, <1>11, RefusesKeep
<1>12. CASE /\ Repos # <<>> \/ cursor.repo # None
            /\ pc' = "read" /\ listed' = Repos
            /\ at' = IF cursor.repo = None
                       THEN Queue!Position(Repos[1], Queue!FirstPage, 0) ELSE cursor
            /\ UNCHANGED <<got, after, cursor, shown>>
  <2>1. At(at', shown)
    <3>1. CASE cursor.repo = None
      <4>1. shown = <<>> /\ Repos # <<>> BY <1>4, <1>6, <1>12, <3>1
      <4>2. 1 \in 1 .. Len(Repos) /\ 1 \in 1 .. NGroups BY <4>1, RepoFacts, GroupFacts
      <4>3. PICK l \in Seq(PRs) : l = Listing(1, 1) BY <4>2, ListingTypes
      <4>4. Len(l) \in Nat BY LenProperties
      <4>5. 0 \in 0 .. Len(l) BY <4>4
      <4>6. Upto(1, 1, 0) = <<>> BY <4>2, <4>3, <4>5, UptoFacts
      <4>7. /\ Queue!FirstPage = [group |-> 1, start |-> 0] /\ 0 + 0 <= Len(l)
            /\ Matches(shown, Upto(1, 1, 0 + 0))
        BY <1>8, <4>1, <4>4, <4>6 DEF Queue!FirstPage
      <4>8. At(Queue!Position(Repos[1], Queue!FirstPage, 0), shown)
        BY <4>2, <4>3, <4>7, AtPlace
      <4>. QED BY <1>12, <3>1, <4>8
    <3>2. CASE cursor.repo # None BY <1>4, <1>5, <1>12, <3>2
    <3>. QED BY <3>1, <3>2
  <2>2. got' = <<>> /\ Len(<<>>) <= limit /\ Len(<<>>) # limit
    BY <1>2, <1>7, <1>12
  <2>3. At(at', Cat(shown, <<>>)) BY <1>7, <2>1
  <2>4. PICK all \in Seq(PRs) : all = <<>> BY <1>7
  <2>. QED BY <1>1, <1>12, <2>2, <2>3, <2>4, GoesOnKeeps
<1>. QED BY <1>9, <1>10, <1>11, <1>12

\* The listing of the repositories goes on, or all are listed.
LEMMA ListPageKeeps ==
  ASSUME QueueTypes, Walk, NothingClosed, Queue!ListPage
  PROVE  QueueTypes' /\ Walk'
<1>1. pc = "list" /\ UNCHANGED <<Queue!setting, Queue!provider>> BY DEF Queue!ListPage
<1>2. LastListed /\ honest /\ present = Queue!RepoSet /\ size \in Nat \ {0}
  BY <1>1 DEF Walk, NothingClosed, QueueTypes
<1>3. PICK all : all = listed \o Queue!NamesOn(at.page) OBVIOUS
<1>4. PICK n \in Nat : n = Len(Repos) BY RepoFacts
<1>5. PICK s \in Nat : s = at.page.start BY <1>2 DEF LastListed
<1>6. PICK e \in Nat : e = EndOf(s, n) BY <1>2 DEF EndOf
<1>7. /\ all \in Seq(Queue!RepoSet)
      /\ \A i \in 1 .. n : i > n - e => Repos[i] \in Queue!ToSet(all)
  BY <1>2, <1>3, <1>4, <1>5, <1>6, NamesAre
<1>8. Queue!NamesContinue(at.page) = IF s + size < n THEN {s + size} ELSE {}
  BY <1>2, <1>4, <1>5, TheirOrderIs DEF Queue!NamesContinue
<1>9. \/ /\ Queue!NamesContinue(at.page) = {}
         /\ Queue!Searches(Queue!InOrder(Queue!ToSet(all)))
      \/ Queue!Refuses
      \/ \E t \in Queue!NamesContinue(at.page) :
           /\ at' = Queue!Position(None, [at.page EXCEPT !.start = t], 0)
           /\ listed' = all /\ UNCHANGED <<pc, got, cursor, shown>>
  BY <1>2, <1>3 DEF Queue!ListPage
<1>10. CASE /\ Queue!NamesContinue(at.page) = {}
            /\ Queue!Searches(Queue!InOrder(Queue!ToSet(all)))
  <2>1. e = n BY <1>2, <1>6, <1>8, <1>10 DEF EndOf
  <2>2. \A i \in 1 .. Len(Repos) : Repos[i] \in Queue!ToSet(all)
    <3>1. \A i \in 1 .. n : i > n - e BY <2>1
    <3>. QED BY <1>4, <1>7, <3>1
  <2>3. Queue!InOrder(Queue!ToSet(all)) = Repos BY <2>2, RepoFacts, AllInOrder
  <2>4. Queue!Searches(Repos) BY <1>10, <2>3
  <2>. QED BY <1>1, <2>4, SearchesKeeps
<1>11. CASE Queue!Refuses BY <1>1, <1>11, RefusesKeep
<1>12. ASSUME NEW t \in Queue!NamesContinue(at.page),
              at' = Queue!Position(None, [at.page EXCEPT !.start = t], 0),
              listed' = all, UNCHANGED <<pc, got, cursor, shown>>
       PROVE  QueueTypes' /\ Walk'
  <2>1. t = s + size /\ e = s + size /\ t \in Nat
    BY <1>2, <1>6, <1>8 DEF EndOf
  <2>2. QueueTypes' BY <1>1, <1>7, <1>12 DEF QueueTypes, Queue!setting, Queue!provider
  <2>3. LastListed'
    <3>1. at.page \in [group : Nat, start : Nat] BY <1>2 DEF LastListed
    <3>2. at'.page = [at.page EXCEPT !.start = t] BY <1>12 DEF Queue!Position
    <3>3. at'.page \in [group : Nat, start : Nat] /\ at'.page.start = e
      BY <2>1, <3>1, <3>2
    <3>4. Queue!ToSet(listed)' = Queue!ToSet(all) BY <1>12 DEF Queue!ToSet
    <3>. QED BY <1>4, <1>7, <3>3, <3>4 DEF LastListed
  <2>4. got = <<>> BY <1>1 DEF Walk
  <2>5. \/ cursor = Queue!Position(None, Queue!FirstPage, 0) /\ shown = <<>>
        \/ At(cursor, shown)
    BY <1>1 DEF Walk
  <2>6. \/ cursor' = Queue!Position(None, Queue!FirstPage, 0) /\ shown' = <<>>
        \/ At(cursor, shown)'
    BY <1>1, <1>12, <2>5, AtLater
  <2>7. \/ (cursor = Queue!Position(None, Queue!FirstPage, 0) /\ shown = <<>>)'
        \/ At(cursor, shown)'
    BY <2>6 DEF Queue!Position, Queue!FirstPage
  <2>8. pc' = "list" /\ got' = <<>> BY <1>1, <1>12, <2>4
  <2>. QED BY <2>2, <2>3, <2>7, <2>8 DEF Walk
<1>. QED BY <1>9, <1>10, <1>11, <1>12

\* The page read, and where it leads.
LEMMA PageFacts ==
  ASSUME QueueTypes, honest, listed = Repos, NEW X, At(at, X),
         NEW found, NEW further, IsPage(found, further)
  PROVE  /\ found \in Seq(PRs) /\ Len(found) \in Nat /\ at.offset \in Nat
         /\ further # None => Queue!Position(at.repo, further, 0) # None
         /\ Queue!HasNextRepo => Queue!Position(Queue!NextRepo, Queue!FirstPage, 0) # None
<1>1. PICK i \in 1 .. Len(Repos) :
         /\ Repos[i] = at.repo
         /\ at.page.start + at.offset <= Len(Listing(i, at.page.group))
  BY DEF At
<1>2. /\ at.page.group \in 1 .. NGroups /\ at.page.start \in Nat /\ at.offset \in Nat
      /\ at.page = [group |-> at.page.group, start |-> at.page.start]
  BY DEF At
<1>3. PICK g \in 1 .. NGroups : g = at.page.group BY <1>2
<1>4. PICK s \in Nat : s = at.page.start BY <1>2
<1>5. PICK l \in Seq(PRs) : l = Listing(i, g) BY ListingTypes
<1>6. PICK n \in Nat : n = Len(l) BY LenProperties
<1>7. s <= n /\ at.page = [group |-> g, start |-> s]
  BY <1>1, <1>2, <1>3, <1>4, <1>5, <1>6
<1>8. size \in Nat \ {0} /\ NGroups \in Nat \ {0} /\ Len(Repos) \in Nat
  BY GroupFacts, RepoFacts DEF QueueTypes
<1>9. PICK e \in Nat : e = EndOf(s, n) /\ s <= e /\ e <= n BY <1>7, <1>8 DEF EndOf
<1>10. found = Some(l, s + 1, e)
  BY <1>1, <1>5, <1>6, <1>7, <1>9, FoundIs DEF IsPage
<1>11. found \in Seq(PRs)
  <2>1. s \in 0 .. Len(l) /\ e \in s .. Len(l) BY <1>6, <1>9
  <2>2. Some(l, s + 1, e) \in Seq(PRs) BY <2>1, SomeFacts
  <2>. QED BY <1>10, <2>2
<1>12. Len(found) \in Nat BY <1>11, LenProperties
<1>13. ASSUME further # None PROVE Queue!Position(at.repo, further, 0) # None
  <2>1. \/ further = [group |-> g, start |-> s + size]
        \/ further = [group |-> g + 1, start |-> 0]
    BY <1>1, <1>5, <1>6, <1>7, <1>13, NextIs DEF IsPage
  <2>2. g \in Nat /\ g + 1 \in Nat /\ s + size \in Nat BY <1>8
  <2>3. at.repo \in Queue!RepoSet BY <1>1, RepoFacts
  <2>. QED BY <2>1, <2>2, <2>3, NoneIsNoPlace
<1>14. ASSUME Queue!HasNextRepo
       PROVE  Queue!Position(Queue!NextRepo, Queue!FirstPage, 0) # None
  <2>1. Queue!IndexIn(at.repo, listed) = i BY <1>1, IndexIs
  <2>2. i < Len(Repos) /\ Queue!NextRepo = Repos[i + 1]
    BY <1>14, <2>1 DEF Queue!HasNextRepo, Queue!NextRepo
  <2>3. i + 1 \in 1 .. Len(Repos) BY <1>8, <2>2
  <2>4. Queue!NextRepo \in Queue!RepoSet BY <2>2, <2>3, RepoFacts
  <2>. QED BY <2>4, NoneIsNoPlace DEF Queue!FirstPage
<1>. QED BY <1>2, <1>11, <1>12, <1>13, <1>14

\* A beginning of two sequences put together that includes the first.
LEMMA SomeOfCat ==
  ASSUME NEW E, NEW s \in Seq(E), NEW t \in Seq(E), NEW j \in 0 .. Len(t)
  PROVE  Some(Cat(s, t), 1, Len(s) + j) = Cat(s, Some(t, 1, j))
<1>1. Len(t) \in Nat /\ Len(s) \in Nat BY LenProperties
<1>2. /\ Some(t, j + 1, Len(t)) \in Seq(E) /\ Some(t, 1, Len(t)) = t
      /\ Cat(Some(t, 1, j), Some(t, j + 1, Len(t))) = Some(t, 1, Len(t))
  <2>1. Len(t) \in j .. Len(t) BY <1>1
  <2>2. PICK n \in j .. Len(t) : n = Len(t) BY <2>1
  <2>3. Some(t, j + 1, n) \in Seq(E) BY SomeFacts
  <2>4. Cat(Some(t, 1, j), Some(t, j + 1, n)) = Some(t, 1, n) BY SomeFacts
  <2>5. Some(t, 1, Len(t)) = t BY SomeFacts
  <2>. QED BY <2>2, <2>3, <2>4, <2>5
<1>3. Some(t, 1, j) \in Seq(E) /\ Len(Some(t, 1, j)) = j
  <2>1. 0 \in 0 .. Len(t) /\ j \in 0 .. Len(t) /\ 0 + 1 = 1 /\ j - 0 = j BY <1>1
  <2>2. Some(t, 0 + 1, j) \in Seq(E) /\ Len(Some(t, 0 + 1, j)) = j - 0
    BY <2>1, SomeFacts
  <2>. QED BY <2>1, <2>2
<1>4. PICK a \in Seq(E) : a = Some(t, 1, j) /\ Len(a) = j BY <1>3
<1>5. PICK b \in Seq(E) : b = Some(t, j + 1, Len(t)) BY <1>2
<1>6. PICK u \in Seq(E) : u = Cat(s, a) /\ Len(u) = Len(s) + j
  <2>1. Cat(s, a) \in Seq(E) /\ Len(Cat(s, a)) = Len(s) + Len(a) BY CatFacts
  <2>. QED BY <1>4, <2>1
<1>7. Cat(s, t) = Cat(u, b)
  <2>1. t = Cat(a, b) BY <1>2, <1>4, <1>5
  <2>. QED BY <1>6, <2>1, CatAssociative
<1>8. Some(Cat(u, b), 1, Len(u)) = u
  <2>1. Queue!IsPrefix(u, Cat(u, b)) BY CatFacts
  <2>2. Some(u, 1, Len(u)) = u
    <3>1. 0 \in 0 .. Len(u) /\ Len(u) \in 0 .. Len(u) BY LenProperties
    <3>. QED BY <3>1, SomeFacts
  <2>. QED BY <2>1, <2>2 DEF Queue!IsPrefix, Some
<1>. QED BY <1>4, <1>6, <1>7, <1>8

\* A page that is read: the search goes on, or answers with all that fits.
LEMMA ReadPageKeeps ==
  ASSUME QueueTypes, Walk, NothingClosed, Queue!ReadPage
  PROVE  QueueTypes' /\ Walk'
<1>1. pc = "read" /\ UNCHANGED <<Queue!setting, Queue!provider>> BY DEF Queue!ReadPage
<1>2. /\ listed = Repos /\ Len(got) <= limit /\ At(at, Cat(shown, got))
      /\ Len(got) = limit => Reaches(after, Cat(shown, got))
  BY <1>1 DEF Walk
<1>3. PICK found : found = Queue!FilterState(Queue!PullRequests(at.repo, at.page))
  OBVIOUS
<1>4. \/ Queue!Refuses
      \/ /\ ~ (at.offset > Len(found))
         /\ \E further \in Queue!NextPages(at.repo, at.page) : Queue!Takes(found, further)
  BY <1>3 DEF Queue!ReadPage
<1>5. CASE Queue!Refuses BY <1>1, <1>5, RefusesKeep
<1>6. ASSUME ~ (at.offset > Len(found)), NEW further, IsPage(found, further),
             Queue!Takes(found, further)
      PROVE  QueueTypes' /\ Walk'
  <2>1. honest /\ got \in Seq(PRs) /\ shown \in Seq(PRs) /\ limit \in Nat \ {0}
    BY DEF NothingClosed, QueueTypes
  <2>2. PICK X \in Seq(PRs) : X = Cat(shown, got) BY <2>1, CatFacts
  <2>3. At(at, X) BY <1>2, <2>2
  <2>4. /\ found \in Seq(PRs) /\ Len(found) \in Nat /\ at.offset \in Nat
        /\ further # None => Queue!Position(at.repo, further, 0) # None
        /\ Queue!HasNextRepo =>
             Queue!Position(Queue!NextRepo, Queue!FirstPage, 0) # None
    BY <1>2, <1>6, <2>1, <2>3, PageFacts
  <2>5. PICK o \in Nat : o = at.offset BY <2>4
  <2>6. PICK f \in Nat : f = Len(found) /\ o <= f BY <1>6, <2>4, <2>5
  <2>7. PICK m \in Nat : m = Len(got) /\ m <= limit
    BY <1>2, <2>1, LenProperties
  <2>8. PICK fresh : fresh = Some(found, o + 1, f) OBVIOUS
  <2>9. fresh \in Seq(PRs) /\ Len(fresh) = f - o
    <3>1. o \in 0 .. Len(found) /\ f \in o .. Len(found) BY <2>6
    <3>2. Some(found, o + 1, f) \in Seq(PRs) /\ Len(Some(found, o + 1, f)) = f - o
      BY <2>4, <3>1, SomeFacts
    <3>. QED BY <2>8, <3>2
  <2>10. PICK all \in Seq(PRs) : all = Cat(got, fresh) /\ Len(all) = m + (f - o)
    <3>1. Cat(got, fresh) \in Seq(PRs) /\ Len(Cat(got, fresh)) = Len(got) + Len(fresh)
      BY <2>1, <2>9, CatFacts
    <3>. QED BY <2>7, <2>9, <3>1
  <2>11. PICK reached \in BOOLEAN : reached <=> m < limit /\ Len(all) >= limit
    OBVIOUS
  <2>12. PICK mark : mark = IF reached
                              THEN Queue!After(o + limit - m, found, further) ELSE after
    OBVIOUS
  <2>13. \A k \in o .. f : Reaches(Queue!After(k, found, further),
                                   Cat(X, Some(found, o + 1, k)))
    <3>. TAKE k \in o .. f
    <3>1. k \in at.offset .. Len(found) BY <2>5, <2>6
    <3>. QED BY <1>2, <1>6, <2>1, <2>3, <2>5, <3>1, AfterReaches
  <2>14. Reaches(Queue!After(f, found, further), Cat(shown, all))
    <3>1. f \in o .. f BY <2>6
    <3>2. Reaches(Queue!After(f, found, further), Cat(X, fresh)) BY <2>8, <2>13, <3>1
    <3>3. Cat(X, fresh) = Cat(shown, all) BY <2>1, <2>2, <2>9, <2>10, CatAssociative
    <3>. QED BY <3>2, <3>3
  <2>15. /\ Len(all) >= limit => Reaches(mark, Cat(shown, Some(all, 1, limit)))
         /\ Len(all) >= limit => Some(all, 1, limit) \in Seq(PRs)
         /\ Len(all) = limit => Some(all, 1, limit) = all
    <3>. SUFFICES ASSUME Len(all) >= limit
                  PROVE  /\ Reaches(mark, Cat(shown, Some(all, 1, limit)))
                         /\ Some(all, 1, limit) \in Seq(PRs)
                         /\ Len(all) = limit => Some(all, 1, limit) = all
      OBVIOUS
    <3>1. PICK j \in 0 .. Len(fresh) : j = limit - m /\ m + j = limit
      <4>1. m + (f - o) >= limit BY <2>10
      <4>2. limit - m \in 0 .. f - o /\ m + (limit - m) = limit
        BY <2>1, <2>5, <2>6, <2>7, <4>1
      <4>3. limit - m \in 0 .. Len(fresh) BY <2>9, <4>2
      <4>. QED BY <4>2, <4>3
    <3>2. Some(all, 1, limit) = Cat(got, Some(fresh, 1, j))
      <4>1. Some(Cat(got, fresh), 1, Len(got) + j) = Cat(got, Some(fresh, 1, j))
        BY <2>1, <2>9, SomeOfCat
      <4>. QED BY <2>7, <2>10, <3>1, <4>1
    <3>3. Some(fresh, 1, j) = Some(found, o + 1, o + j) /\ o + j \in o .. f
      <4>1. /\ o \in 0 .. Len(found) /\ f \in o .. Len(found) /\ 0 \in 0 .. f - o
            /\ j \in 0 .. f - o /\ o + 0 = o /\ 0 + 1 = 1 /\ o + j \in o .. f
        BY <2>6, <2>9, <3>1
      <4>2. PICK z \in 0 .. f - o : z = 0 BY <4>1
      <4>3. j \in z .. f - o BY <4>1, <4>2
      <4>4. Some(Some(found, o + 1, f), z + 1, j) = Some(found, (o + z) + 1, o + j)
        BY <2>4, <4>1, <4>3, SomeOfSome
      <4>. QED BY <2>8, <4>1, <4>2, <4>4
    <3>4. Some(fresh, 1, j) \in Seq(PRs)
      <4>1. 0 \in 0 .. Len(fresh) /\ j \in 0 .. Len(fresh) /\ 0 + 1 = 1 BY <2>9, <3>1
      <4>2. Some(fresh, 0 + 1, j) \in Seq(PRs) BY <2>9, <4>1, SomeFacts
      <4>. QED BY <4>1, <4>2
    <3>5. Cat(shown, Some(all, 1, limit)) = Cat(X, Some(fresh, 1, j))
      BY <2>1, <2>2, <3>2, <3>4, CatAssociative
    <3>6. Reaches(mark, Cat(shown, Some(all, 1, limit)))
      <4>1. CASE reached
        <5>1. o + limit - m = o + j BY <2>1, <3>1
        <5>2. mark = Queue!After(o + j, found, further) BY <2>12, <4>1, <5>1
        <5>. QED BY <2>13, <3>3, <3>5, <5>2
      <4>2. CASE ~ reached
        <5>1. m = limit /\ mark = after BY <2>1, <2>7, <2>11, <2>12, <4>2
        <5>2. j = 0 BY <2>1, <3>1, <5>1
        <5>3. Some(fresh, 1, j) = <<>> BY <5>2, SubSeqEmpty DEF Some
        <5>4. Cat(X, <<>>) = X BY CatFacts
        <5>. QED BY <1>2, <2>2, <2>7, <3>5, <5>1, <5>3, <5>4
      <4>. QED BY <4>1, <4>2
    <3>7. Some(all, 1, limit) \in Seq(PRs) BY <2>1, <3>2, <3>4, CatFacts
    <3>8. Len(all) = limit => Some(all, 1, limit) = all
      <4>1. 0 \in 0 .. Len(all) /\ Len(all) \in 0 .. Len(all) BY LenProperties
      <4>2. Some(all, 1, Len(all)) = all BY <4>1, SomeFacts
      <4>. QED BY <4>2
    <3>. QED BY <3>6, <3>7, <3>8
  <2>16. \/ Len(all) > limit /\ Queue!Answers(Some(all, 1, limit), mark)
         \/ Queue!Refuses
         \/ /\ ~ (Len(all) > limit) /\ further # None
            /\ at' = Queue!Position(at.repo, further, 0) /\ got' = all /\ after' = mark
            /\ UNCHANGED <<pc, listed, cursor, shown>>
         \/ /\ ~ (Len(all) > limit) /\ further = None /\ Queue!HasNextRepo
            /\ at' = Queue!Position(Queue!NextRepo, Queue!FirstPage, 0)
            /\ got' = all /\ after' = mark
            /\ UNCHANGED <<pc, listed, cursor, shown>>
         \/ further = None /\ ~ Queue!HasNextRepo /\ Queue!Answers(all, None)
    BY <1>6, <2>5, <2>6, <2>7, <2>8, <2>10, <2>11, <2>12
       DEF Queue!Takes, Queue!Enough, Some, Cat
  <2>17. f < Len(found) <=> FALSE BY <2>6
  <2>18. CASE Len(all) > limit /\ Queue!Answers(Some(all, 1, limit), mark)
    <3>1. Len(all) >= limit BY <2>1, <2>10, <2>18
    <3>2. PICK prs : prs = Some(all, 1, limit) OBVIOUS
    <3>3. prs \in Seq(PRs) /\ Queue!Answers(prs, mark) /\ Reaches(mark, Cat(shown, prs))
      BY <2>15, <2>18, <3>1, <3>2
    <3>. QED BY <1>1, <3>3, AnswersKeep
  <2>19. CASE Queue!Refuses BY <1>1, <2>19, RefusesKeep
  <2>20. CASE /\ ~ (Len(all) > limit) /\ further # None
              /\ at' = Queue!Position(at.repo, further, 0) /\ got' = all /\ after' = mark
              /\ UNCHANGED <<pc, listed, cursor, shown>>
    <3>1. at' = Queue!After(f, found, further) /\ at' # None
      BY <2>4, <2>17, <2>20 DEF Queue!After
    <3>2. At(at', Cat(shown, all)) BY <2>14, <3>1 DEF Reaches
    <3>3. Len(all) <= limit BY <2>1, <2>10, <2>20
    <3>4. Len(all) = limit => Reaches(after', Cat(shown, all))
      BY <2>1, <2>15, <2>20
    <3>. QED BY <1>1, <1>2, <2>20, <3>2, <3>3, <3>4, GoesOnKeeps
  <2>21. CASE /\ ~ (Len(all) > limit) /\ further = None /\ Queue!HasNextRepo
              /\ at' = Queue!Position(Queue!NextRepo, Queue!FirstPage, 0)
              /\ got' = all /\ after' = mark
              /\ UNCHANGED <<pc, listed, cursor, shown>>
    <3>1. at' = Queue!After(f, found, further) /\ at' # None
      BY <2>4, <2>17, <2>21 DEF Queue!After
    <3>2. At(at', Cat(shown, all)) BY <2>14, <3>1 DEF Reaches
    <3>3. Len(all) <= limit BY <2>1, <2>10, <2>21
    <3>4. Len(all) = limit => Reaches(after', Cat(shown, all))
      BY <2>1, <2>15, <2>21
    <3>. QED BY <1>1, <1>2, <2>21, <3>2, <3>3, <3>4, GoesOnKeeps
  <2>22. CASE further = None /\ ~ Queue!HasNextRepo /\ Queue!Answers(all, None)
    <3>1. Queue!After(f, found, further) = None BY <2>17, <2>22 DEF Queue!After
    <3>. QED BY <1>1, <2>14, <2>22, <3>1, AnswersKeep
  <2>. QED BY <2>16, <2>18, <2>19, <2>20, <2>21, <2>22
<1>. QED BY <1>3, <1>4, <1>5, <1>6 DEF IsPage

-----------------------------------------------------------------------------
(* Other people's changes. *)

\* Joining shows no original that was not among what is joined.
LEMMA FirstHides ==
  ASSUME NEW a \in Seq(Seq(PRs)), NEW b \in Seq(Seq(PRs)), Len(b) = Len(a),
         \A i \in 1 .. Len(a) : Originals(b[i]) \subseteq Queue!ToSet(a[i])
  PROVE  \A n \in 0 .. Len(a) : /\ First(b, n) \in Seq(PRs)
                                /\ Originals(First(b, n)) \subseteq Queue!ToSet(First(a, n))
<1>1. /\ Len(a) \in Nat
      /\ \A i \in 1 .. Len(a) : a[i] \in Seq(PRs) /\ b[i] \in Seq(PRs)
  BY LenProperties, ElementOfSeq
<1>2. /\ \A i \in 0 .. Len(a) : First(a, i) \in Seq(PRs) /\ First(b, i) \in Seq(PRs)
      /\ First(b, 0) = <<>>
      /\ \A i \in 1 .. Len(a) : First(a, i) = Cat(First(a, i - 1), a[i])
      /\ \A i \in 1 .. Len(a) : First(b, i) = Cat(First(b, i - 1), b[i])
  BY FirstIs, Zenon DEF Cat
<1>. DEFINE S == {n \in Nat : n <= Len(a) =>
                    Originals(First(b, n)) \subseteq Queue!ToSet(First(a, n))}
<1>3. 0 \in S
  <2>1. Queue!ToSet(<<>>) = {} BY DEF Queue!ToSet
  <2>. QED BY <1>2, <2>1 DEF Originals
<1>4. ASSUME NEW n \in Nat, n \in S PROVE n + 1 \in S
  <2>. SUFFICES ASSUME n + 1 <= Len(a)
                PROVE  Originals(First(b, n + 1)) \subseteq Queue!ToSet(First(a, n + 1))
    OBVIOUS
  <2>1. /\ n + 1 \in 1 .. Len(a) /\ (n + 1) - 1 = n /\ n <= Len(a)
        /\ n \in 0 .. Len(a)
    BY <1>1
  <2>2. PICK s \in Seq(PRs) : s = First(a, n) BY <1>2, <2>1
  <2>3. PICK t \in Seq(PRs) : t = First(b, n) BY <1>2, <2>1
  <2>4. PICK v \in Seq(PRs) : v = a[n + 1] BY <1>1, <2>1
  <2>5. PICK w \in Seq(PRs) : w = b[n + 1] BY <1>1, <2>1
  <2>6. First(a, n + 1) = Cat(s, v) /\ First(b, n + 1) = Cat(t, w)
    BY <1>2, <2>1, <2>2, <2>3, <2>4, <2>5
  <2>7. Queue!ToSet(Cat(s, v)) = Queue!ToSet(s) \cup Queue!ToSet(v) BY CatFacts
  <2>8. Queue!ToSet(Cat(t, w)) = Queue!ToSet(t) \cup Queue!ToSet(w) BY CatFacts
  <2>9. Originals(t) \subseteq Queue!ToSet(s) /\ Originals(w) \subseteq Queue!ToSet(v)
    BY <1>4, <2>1, <2>2, <2>3, <2>4, <2>5
  <2>. QED BY <2>6, <2>7, <2>8, <2>9 DEF Originals
<1>. HIDE DEF S
<1>5. Nat \subseteq S BY <1>3, <1>4, NatSetInduction
<1>. QED BY <1>1, <1>2, <1>5 DEF S

\* A pull request opened since, in front of a listing.
LEMMA FreshHides ==
  ASSUME NEW s \in Seq(PRs), NEW x \in PRs, x.id[2] > MaxOpen,
         NEW t, t = s \/ t = Cat(<<x>>, s)
  PROVE  /\ t \in Seq(PRs) /\ Len(s) <= Len(t)
         /\ Originals(t) \subseteq Queue!ToSet(s)
         /\ \A n \in 0 .. Len(s) :
              /\ Some(t, 1, n) \in Seq(PRs) /\ Some(s, 1, n) \in Seq(PRs)
              /\ Originals(Some(t, 1, n)) \subseteq Queue!ToSet(Some(s, 1, n))
<1>1. Len(s) \in Nat /\ DOMAIN s = 1 .. Len(s) BY LenProperties
<1>2. x.id[2] \in Nat /\ MaxOpen \in Nat BY ConstantsAssumption DEF PRs
<1>3. PICK u \in Seq(PRs) : u = <<x>> /\ Len(u) = 1 /\ u[1] = x
  <2>1. <<x>> \in Seq(PRs) OBVIOUS
  <2>2. Len(<<x>>) = 1 /\ <<x>>[1] = x OBVIOUS
  <2>. QED BY <2>1, <2>2
<1>4. PICK c \in Seq(PRs) : /\ c = Cat(u, s) /\ Len(c) = 1 + Len(s) /\ c[1] = x
                            /\ \A i \in 1 .. Len(s) : c[i + 1] = s[i]
  <2>1. PICK c : c = u \o s OBVIOUS
  <2>2. /\ c \in Seq(PRs) /\ Len(c) = Len(u) + Len(s)
        /\ \A i \in 1 .. Len(u) + Len(s) :
             c[i] = IF i <= Len(u) THEN u[i] ELSE s[i - Len(u)]
    BY <2>1, ConcatProperties
  <2>3. \A i \in 1 .. 1 + Len(s) : c[i] = IF i <= 1 THEN u[i] ELSE s[i - 1]
    BY <1>3, <2>2
  <2>4. c[1] = x /\ \A i \in 1 .. Len(s) : c[i + 1] = s[i]
    <3>1. 1 \in 1 .. 1 + Len(s) BY <1>1
    <3>2. \A i \in 1 .. Len(s) : i + 1 \in 1 .. 1 + Len(s) /\ ~ (i + 1 <= 1)
                                 /\ (i + 1) - 1 = i
      BY <1>1
    <3>. QED BY <1>3, <2>3, <3>1, <3>2
  <2>. QED BY <1>3, <2>1, <2>2, <2>4 DEF Cat
<1>5. t = s \/ t = c BY <1>3, <1>4
<1>6. t \in Seq(PRs) /\ Len(s) <= Len(t) BY <1>1, <1>4, <1>5
<1>7. DOMAIN t = 1 .. Len(t) /\ Len(t) \in Nat BY <1>6, LenProperties
<1>8. \A i \in 1 .. Len(t) : \/ t[i] = x
                             \/ i \in 1 .. Len(s) /\ t[i] = s[i]
                             \/ i - 1 \in 1 .. Len(s) /\ t[i] = s[i - 1]
  <2>. TAKE i \in 1 .. Len(t)
  <2>1. CASE t = s BY <2>1
  <2>2. CASE t = c
    <3>1. i = 1 \/ i - 1 \in 1 .. Len(s) BY <1>1, <1>4, <2>2
    <3>2. CASE i = 1 BY <1>4, <2>2, <3>2
    <3>3. CASE i - 1 \in 1 .. Len(s)
      <4>1. PICK j \in 1 .. Len(s) : j = i - 1 BY <3>3
      <4>2. j + 1 = i BY <1>7, <4>1
      <4>. QED BY <1>4, <2>2, <4>1, <4>2
    <3>. QED BY <3>1, <3>2, <3>3
  <2>. QED BY <1>5, <2>1, <2>2
<1>9. Originals(t) \subseteq Queue!ToSet(s)
  <2>. SUFFICES ASSUME NEW p \in Originals(t) PROVE p \in Queue!ToSet(s) OBVIOUS
  <2>1. PICK i \in 1 .. Len(t) : p = t[i] BY <1>7 DEF Originals, Queue!ToSet
  <2>2. p.id[2] <= MaxOpen BY DEF Originals
  <2>3. p # x BY <1>2, <2>2
  <2>. QED BY <1>1, <1>8, <2>1, <2>3 DEF Queue!ToSet
<1>10. ASSUME NEW n \in 0 .. Len(s)
       PROVE  /\ Some(t, 1, n) \in Seq(PRs) /\ Some(s, 1, n) \in Seq(PRs)
              /\ Originals(Some(t, 1, n)) \subseteq Queue!ToSet(Some(s, 1, n))
  <2>1. PICK f \in Seq(PRs) : /\ f = Some(t, 1, n) /\ Len(f) = n
                              /\ \A i \in 1 .. n : f[i] = t[i]
    <3>1. PICK z \in 0 .. Len(t) : z = 0 BY <1>7
    <3>2. n \in z .. Len(t) /\ z + 1 = 1 /\ n - z = n /\ n \in Nat
          /\ \A i \in 1 .. n : z + i = i
      BY <1>1, <1>6, <1>7, <3>1
    <3>3. Some(t, z + 1, n) \in Seq(PRs) BY <1>6, <3>2, SomeFacts
    <3>4. Len(Some(t, z + 1, n)) = n - z BY <1>6, <3>2, SomeFacts
    <3>5. \A i \in 1 .. n - z : Some(t, z + 1, n)[i] = t[z + i]
      BY <1>6, <3>2, SomeFacts
    <3>. QED BY <3>2, <3>3, <3>4, <3>5
  <2>2. PICK h \in Seq(PRs) : /\ h = Some(s, 1, n) /\ Len(h) = n
                              /\ \A i \in 1 .. n : h[i] = s[i]
    <3>1. PICK z \in 0 .. Len(s) : z = 0 BY <1>1
    <3>2. n \in z .. Len(s) /\ z + 1 = 1 /\ n - z = n /\ n \in Nat
          /\ \A i \in 1 .. n : z + i = i
      BY <1>1, <3>1
    <3>3. Some(s, z + 1, n) \in Seq(PRs) BY <3>2, SomeFacts
    <3>4. Len(Some(s, z + 1, n)) = n - z BY <3>2, SomeFacts
    <3>5. \A i \in 1 .. n - z : Some(s, z + 1, n)[i] = s[z + i]
      BY <3>2, SomeFacts
    <3>. QED BY <3>2, <3>3, <3>4, <3>5
  <2>3. DOMAIN f = 1 .. n /\ DOMAIN h = 1 .. n BY <2>1, <2>2, LenProperties
  <2>4. \A p \in Originals(f) : p \in Queue!ToSet(h)
    <3>. TAKE p \in Originals(f)
    <3>1. PICK i \in 1 .. n : p = f[i] BY <2>3 DEF Originals, Queue!ToSet
    <3>2. p.id[2] <= MaxOpen BY DEF Originals
    <3>3. p # x BY <1>2, <3>2
    <3>4. p = t[i] /\ i \in 1 .. Len(t) BY <1>1, <1>6, <1>7, <2>1, <3>1
    <3>5. \/ i \in 1 .. Len(s) /\ p = s[i]
          \/ i - 1 \in 1 .. Len(s) /\ p = s[i - 1]
      BY <1>8, <3>3, <3>4
    <3>6. \/ p = s[i]
          \/ i - 1 \in 1 .. n /\ p = s[i - 1]
      BY <1>1, <3>1, <3>5
    <3>. QED BY <2>2, <2>3, <3>1, <3>6 DEF Queue!ToSet
  <2>. QED BY <2>1, <2>2, <2>4
<1>. QED BY <1>6, <1>9, <1>10

\* With a pull request opened at the front of a repository, no position of the
\* queue has more originals before it than it had, nor has the queue.
LEMMA OpenedHidesNone ==
  ASSUME QueueTypes, NEW repo \in Queue!RepoSet, NEW x \in PRs, x.id[2] > MaxOpen,
         NEW l, l = [listing EXCEPT ![repo] = <<x>> \o @]
  PROVE  /\ l \in [Queue!RepoSet -> Seq(PRs)]
         /\ \A i \in 1 .. Len(Repos), g \in 1 .. NGroups :
              /\ Len(Listing(i, g)) <= Len(ListingIn(l, i, g))
              /\ \A n \in 0 .. Len(Listing(i, g)) :
                   Originals(UptoIn(l, i, g, n)) \subseteq Queue!ToSet(Upto(i, g, n))
         /\ Originals(Queue!FlattenSeq(OfAllIn(l))) \subseteq Queue!ToSet(Queue!Expected)
<1>1. listing \in [Queue!RepoSet -> Seq(PRs)] BY DEF QueueTypes
<1>2. \A prs \in Seq(PRs) : <<x>> \o prs \in Seq(PRs) OBVIOUS
<1>3. l \in [Queue!RepoSet -> Seq(PRs)] BY <1>1, <1>2
<1>4. ASSUME NEW i \in 1 .. Len(Repos), NEW g \in 1 .. NGroups
      PROVE  /\ Listing(i, g) \in Seq(PRs)
             /\ ListingIn(l, i, g) = Listing(i, g)
                  \/ ListingIn(l, i, g) = Cat(<<x>>, Listing(i, g))
  <2>1. Repos[i] \in Queue!RepoSet BY RepoFacts
  <2>2. PICK prs \in Seq(PRs) : prs = listing[Repos[i]] BY <1>1, <2>1
  <2>3. l[Repos[i]] = prs \/ l[Repos[i]] = <<x>> \o prs BY <1>1, <2>1, <2>2
  <2>4. \/ Queue!OfState(<<x>> \o prs, Queue!Groups[g])
             = Cat(<<x>>, Queue!OfState(prs, Queue!Groups[g]))
        \/ Queue!OfState(<<x>> \o prs, Queue!Groups[g])
             = Queue!OfState(prs, Queue!Groups[g])
    BY OfStateOfOneMore
  <2>5. Listing(i, g) \in Seq(PRs) BY ListingTypes
  <2>. QED BY <2>2, <2>3, <2>4, <2>5 DEF Listing, ListingIn
<1>5. \A i \in 1 .. Len(Repos), g \in 1 .. NGroups :
        /\ Listing(i, g) \in Seq(PRs) /\ ListingIn(l, i, g) \in Seq(PRs)
        /\ Len(Listing(i, g)) <= Len(ListingIn(l, i, g))
        /\ Originals(ListingIn(l, i, g)) \subseteq Queue!ToSet(Listing(i, g))
        /\ \A n \in 0 .. Len(Listing(i, g)) :
             /\ Some(ListingIn(l, i, g), 1, n) \in Seq(PRs)
             /\ Some(Listing(i, g), 1, n) \in Seq(PRs)
             /\ Originals(Some(ListingIn(l, i, g), 1, n))
                  \subseteq Queue!ToSet(Some(Listing(i, g), 1, n))
  <2>. TAKE i \in 1 .. Len(Repos), g \in 1 .. NGroups
  <2>1. PICK s \in Seq(PRs) : s = Listing(i, g) BY <1>4
  <2>2. PICK t : t = ListingIn(l, i, g) /\ (t = s \/ t = Cat(<<x>>, s))
    BY <1>4, <2>1
  <2>3. /\ t \in Seq(PRs) /\ Len(s) <= Len(t)
        /\ Originals(t) \subseteq Queue!ToSet(s)
        /\ \A n \in 0 .. Len(s) :
             /\ Some(t, 1, n) \in Seq(PRs) /\ Some(s, 1, n) \in Seq(PRs)
             /\ Originals(Some(t, 1, n)) \subseteq Queue!ToSet(Some(s, 1, n))
    BY <2>2, FreshHides
  <2>. QED BY <2>1, <2>2, <2>3
<1>6. NGroups \in Nat /\ Len(Repos) \in Nat BY GroupFacts, RepoFacts
<1>7. /\ OfAll \in Seq(Seq(PRs)) /\ Len(OfAll) = Len(Repos)
      /\ Queue!FlattenSeq(OfAll) = Queue!Expected
      /\ \A i \in 1 .. Len(Repos) : OfRepo(i) \in Seq(Seq(PRs)) /\ Len(OfRepo(i)) = NGroups
  BY ListingTypes
<1>8. ASSUME NEW i \in 1 .. Len(Repos)
      PROVE  /\ OfRepoIn(l, i) \in Seq(Seq(PRs)) /\ Len(OfRepoIn(l, i)) = NGroups
             /\ \A n \in 0 .. NGroups :
                  /\ First(OfRepoIn(l, i), n) \in Seq(PRs)
                  /\ First(OfRepo(i), n) \in Seq(PRs)
                  /\ Originals(First(OfRepoIn(l, i), n))
                       \subseteq Queue!ToSet(First(OfRepo(i), n))
             /\ First(OfRepoIn(l, i), NGroups) = Queue!FlattenSeq(OfRepoIn(l, i))
             /\ First(OfRepo(i), NGroups) = Queue!FlattenSeq(OfRepo(i))
  <2>1. OfRepoIn(l, i) \in [1 .. NGroups -> Seq(PRs)] BY <1>5 DEF OfRepoIn
  <2>2. OfRepoIn(l, i) \in Seq(Seq(PRs)) /\ Len(OfRepoIn(l, i)) = NGroups
    <3>1. PICK b \in [1 .. NGroups -> Seq(PRs)] : b = OfRepoIn(l, i) BY <2>1
    <3>2. b \in Seq(Seq(PRs)) /\ Len(b) = NGroups BY <1>6
    <3>. QED BY <3>1, <3>2
  <2>3. PICK b \in Seq(Seq(PRs)) : b = OfRepoIn(l, i) /\ Len(b) = NGroups BY <2>2
  <2>4. PICK a \in Seq(Seq(PRs)) : a = OfRepo(i) /\ Len(a) = NGroups BY <1>7
  <2>5. \A g \in 1 .. NGroups : a[g] = Listing(i, g) /\ b[g] = ListingIn(l, i, g)
    BY <2>3, <2>4 DEF OfRepo, OfRepoIn
  <2>6. \A g \in 1 .. Len(a) : Originals(b[g]) \subseteq Queue!ToSet(a[g])
    BY <1>5, <2>4, <2>5
  <2>7. \A n \in 0 .. NGroups : /\ First(b, n) \in Seq(PRs)
                                /\ Originals(First(b, n)) \subseteq Queue!ToSet(First(a, n))
    BY <2>3, <2>4, <2>6, FirstHides
  <2>8. /\ \A n \in 0 .. NGroups : First(a, n) \in Seq(PRs)
        /\ First(a, NGroups) = Queue!FlattenSeq(a)
    BY <2>4, FirstIs
  <2>9. First(b, NGroups) = Queue!FlattenSeq(b) BY <2>3, FirstIs
  <2>. QED BY <2>2, <2>3, <2>4, <2>7, <2>8, <2>9
<1>9. \A i \in 1 .. Len(Repos) :
        /\ Queue!FlattenSeq(OfRepoIn(l, i)) \in Seq(PRs)
        /\ Originals(Queue!FlattenSeq(OfRepoIn(l, i)))
             \subseteq Queue!ToSet(Queue!FlattenSeq(OfRepo(i)))
  <2>1. NGroups \in 0 .. NGroups BY <1>6
  <2>. QED BY <1>8, <2>1
<1>10. /\ OfAllIn(l) \in Seq(Seq(PRs)) /\ Len(OfAllIn(l)) = Len(Repos)
       /\ \A n \in 0 .. Len(Repos) :
            /\ First(OfAllIn(l), n) \in Seq(PRs) /\ First(OfAll, n) \in Seq(PRs)
            /\ Originals(First(OfAllIn(l), n)) \subseteq Queue!ToSet(First(OfAll, n))
       /\ First(OfAllIn(l), Len(Repos)) = Queue!FlattenSeq(OfAllIn(l))
       /\ First(OfAll, Len(Repos)) = Queue!Expected
  <2>1. OfAllIn(l) \in [1 .. Len(Repos) -> Seq(PRs)] BY <1>9 DEF OfAllIn
  <2>2. OfAllIn(l) \in Seq(Seq(PRs)) /\ Len(OfAllIn(l)) = Len(Repos)
    <3>1. PICK b \in [1 .. Len(Repos) -> Seq(PRs)] : b = OfAllIn(l) BY <2>1
    <3>2. b \in Seq(Seq(PRs)) /\ Len(b) = Len(Repos) BY <1>6
    <3>. QED BY <3>1, <3>2
  <2>3. PICK b \in Seq(Seq(PRs)) : b = OfAllIn(l) /\ Len(b) = Len(Repos) BY <2>2
  <2>4. PICK a \in Seq(Seq(PRs)) : a = OfAll /\ Len(a) = Len(Repos) BY <1>7
  <2>5. \A i \in 1 .. Len(Repos) : /\ a[i] = Queue!FlattenSeq(OfRepo(i))
                                   /\ b[i] = Queue!FlattenSeq(OfRepoIn(l, i))
    BY <2>3, <2>4 DEF OfAll, OfAllIn
  <2>6. \A i \in 1 .. Len(a) : Originals(b[i]) \subseteq Queue!ToSet(a[i])
    BY <1>9, <2>4, <2>5
  <2>7. \A n \in 0 .. Len(Repos) :
          /\ First(b, n) \in Seq(PRs)
          /\ Originals(First(b, n)) \subseteq Queue!ToSet(First(a, n))
    BY <2>3, <2>4, <2>6, FirstHides
  <2>8. /\ \A n \in 0 .. Len(Repos) : First(a, n) \in Seq(PRs)
        /\ First(a, Len(Repos)) = Queue!FlattenSeq(a)
    BY <2>4, FirstIs
  <2>9. First(b, Len(Repos)) = Queue!FlattenSeq(b) BY <2>3, FirstIs
  <2>. QED BY <1>7, <2>2, <2>3, <2>4, <2>7, <2>8, <2>9
<1>11. ASSUME NEW i \in 1 .. Len(Repos), NEW g \in 1 .. NGroups,
              NEW n \in 0 .. Len(Listing(i, g))
       PROVE  Originals(UptoIn(l, i, g, n)) \subseteq Queue!ToSet(Upto(i, g, n))
  <2>1. i - 1 \in 0 .. Len(Repos) /\ g - 1 \in 0 .. NGroups BY <1>6
  <2>2. PICK a \in Seq(PRs) : a = First(OfAll, i - 1) BY <1>10, <2>1
  <2>3. PICK b \in Seq(PRs) : b = First(OfAllIn(l), i - 1) BY <1>10, <2>1
  <2>4. PICK c \in Seq(PRs) : c = First(OfRepo(i), g - 1) BY <1>8, <2>1
  <2>5. PICK d \in Seq(PRs) : d = First(OfRepoIn(l, i), g - 1) BY <1>8, <2>1
  <2>6. PICK e \in Seq(PRs) : e = Some(Listing(i, g), 1, n) BY <1>5
  <2>7. PICK f \in Seq(PRs) : f = Some(ListingIn(l, i, g), 1, n) BY <1>5
  <2>8. /\ Originals(b) \subseteq Queue!ToSet(a) /\ Originals(d) \subseteq Queue!ToSet(c)
        /\ Originals(f) \subseteq Queue!ToSet(e)
    BY <1>5, <1>8, <1>10, <2>1, <2>2, <2>3, <2>4, <2>5, <2>6, <2>7
  <2>9. Upto(i, g, n) = Cat(Cat(a, c), e) /\ UptoIn(l, i, g, n) = Cat(Cat(b, d), f)
    BY <2>2, <2>3, <2>4, <2>5, <2>6, <2>7 DEF Upto, UptoIn
  <2>10. PICK u \in Seq(PRs) :
           u = Cat(a, c) /\ Queue!ToSet(u) = Queue!ToSet(a) \cup Queue!ToSet(c)
    BY CatFacts
  <2>11. PICK v \in Seq(PRs) :
           v = Cat(b, d) /\ Queue!ToSet(v) = Queue!ToSet(b) \cup Queue!ToSet(d)
    BY CatFacts
  <2>12. Queue!ToSet(Cat(u, e)) = Queue!ToSet(u) \cup Queue!ToSet(e) BY CatFacts
  <2>13. Queue!ToSet(Cat(v, f)) = Queue!ToSet(v) \cup Queue!ToSet(f) BY CatFacts
  <2>. QED BY <2>8, <2>9, <2>10, <2>11, <2>12, <2>13 DEF Originals
<1>12. Originals(Queue!FlattenSeq(OfAllIn(l))) \subseteq Queue!ToSet(Queue!Expected)
  <2>1. Len(Repos) \in 0 .. Len(Repos) BY <1>6
  <2>. QED BY <1>10, <2>1
<1>. QED BY <1>3, <1>5, <1>11, <1>12

\* A pull request opened by others is new, first in its listing, and no
\* original: the originals up to any position stay the same.
LEMMA OpenPullRequestKeeps ==
  ASSUME QueueTypes, Walk, NothingClosed, opened \in Nat, merged \in Nat,
         NEW repo \in Queue!RepoSet, Queue!OpenPullRequest(repo)
  PROVE  opened' \in Nat /\ merged' \in Nat /\ QueueTypes' /\ Walk'
<1>1. /\ opened' = opened + 1
      /\ listing' = [listing EXCEPT ![repo] =
           <<[id |-> <<repo, MaxOpen + opened'>>, state |-> "OPEN"]>> \o @]
      /\ UNCHANGED <<product, asked, limit, size, honest, present, merged, pc, cursor,
                     shown, listed, at, got, after>>
  BY DEF Queue!OpenPullRequest, Queue!setting, Queue!search
<1>2. opened' \in Nat /\ merged' \in Nat /\ opened' >= 1 BY <1>1
<1>3. ~ Queue!Unchanged' BY <1>2 DEF Queue!Unchanged
<1>4. MaxOpen \in Nat BY ConstantsAssumption
<1>5. PICK x : x = [id |-> <<repo, MaxOpen + opened'>>, state |-> "OPEN"] OBVIOUS
<1>6. x \in PRs /\ x.id[2] > MaxOpen
  <2>1. \A m, k \in Nat : k >= 1 => m + k \in Nat /\ m + k > m OBVIOUS
  <2>2. MaxOpen + opened' \in Nat BY <1>2, <1>4, <2>1
  <2>3. MaxOpen + opened' > MaxOpen BY <1>2, <1>4, <2>1
  <2>4. <<repo, MaxOpen + opened'>> \in Queue!RepoSet \X Nat BY <2>2
  <2>. QED BY <1>5, <2>3, <2>4 DEF PRs
<1>7. PICK l : l = listing' OBVIOUS
<1>8. l = [listing EXCEPT ![repo] = <<x>> \o @] BY <1>1, <1>5, <1>7
<1>9. /\ l \in [Queue!RepoSet -> Seq(PRs)]
      /\ \A i \in 1 .. Len(Repos), g \in 1 .. NGroups :
           /\ Len(Listing(i, g)) <= Len(ListingIn(l, i, g))
           /\ \A n \in 0 .. Len(Listing(i, g)) :
                Originals(UptoIn(l, i, g, n)) \subseteq Queue!ToSet(Upto(i, g, n))
      /\ Originals(Queue!FlattenSeq(OfAllIn(l))) \subseteq Queue!ToSet(Queue!Expected)
  BY <1>6, <1>8, OpenedHidesNone
<1>10. /\ \A i, g : Listing(i, g)' = ListingIn(l, i, g)
       /\ \A i, g, n : Upto(i, g, n)' = UptoIn(l, i, g, n)
       /\ Queue!Expected' = Queue!FlattenSeq(OfAllIn(l))
       /\ NGroups' = NGroups
  BY <1>1, <1>7, Later
<1>11. ASSUME NEW X, NEW U, NEW V, Matches(X, U), Originals(V) \subseteq Queue!ToSet(U)
       PROVE  Originals(V) \subseteq Queue!ToSet(X)
  BY <1>11 DEF Matches, Originals
<1>12. ASSUME NEW p, NEW X, At(p, X)
       PROVE  /\ p \in [repo : Queue!RepoSet, page : [group : 1 .. NGroups, start : Nat],
                        offset : Nat]
              /\ \E i \in 1 .. Len(Repos) :
                   /\ Repos[i] = p.repo
                   /\ p.page.start + p.offset <= Len(ListingIn(l, i, p.page.group))
                   /\ Originals(UptoIn(l, i, p.page.group, p.page.start + p.offset))
                        \subseteq Queue!ToSet(X)
  <2>1. PICK i \in 1 .. Len(Repos) :
          /\ Repos[i] = p.repo
          /\ p.page.start + p.offset <= Len(Listing(i, p.page.group))
          /\ Matches(X, Upto(i, p.page.group, p.page.start + p.offset))
    BY <1>12 DEF At
  <2>2. p \in [repo : Queue!RepoSet, page : [group : 1 .. NGroups, start : Nat],
               offset : Nat]
    BY <1>12 DEF At
  <2>3. PICK g \in 1 .. NGroups : g = p.page.group BY <2>2
  <2>4. PICK n \in Nat : n = p.page.start + p.offset BY <2>2
  <2>5. Listing(i, g) \in Seq(PRs) BY ListingTypes
  <2>6. Len(Listing(i, g)) \in Nat /\ n \in 0 .. Len(Listing(i, g))
    <3>1. Len(Listing(i, g)) \in Nat BY <2>5, LenProperties
    <3>. QED BY <2>1, <2>3, <2>4, <3>1
  <2>7. Len(Listing(i, g)) <= Len(ListingIn(l, i, g)) BY <1>9
  <2>8. Len(ListingIn(l, i, g)) \in Nat
    <3>1. l[Repos[i]] \in Seq(PRs) BY <1>9, RepoFacts
    <3>2. ListingIn(l, i, g) \in Seq(PRs) BY <3>1, OfStateFacts DEF ListingIn
    <3>. QED BY <3>2, LenProperties
  <2>9. n <= Len(ListingIn(l, i, g)) BY <2>6, <2>7, <2>8
  <2>10. Originals(UptoIn(l, i, g, n)) \subseteq Queue!ToSet(Upto(i, g, n))
    BY <1>9, <2>6
  <2>11. Matches(X, Upto(i, g, n)) BY <2>1, <2>3, <2>4
  <2>12. Originals(UptoIn(l, i, g, n)) \subseteq Queue!ToSet(X)
    BY <1>11, <2>10, <2>11
  <2>. QED BY <2>1, <2>2, <2>3, <2>4, <2>9, <2>12
<1>13. ASSUME At(cursor, shown) PROVE At(cursor, shown)'
  <2>1. cursor' = cursor /\ shown' = shown BY <1>1
  <2>. QED BY <1>3, <1>10, <1>12, <1>13, <2>1 DEF At, Matches, Originals
<1>14. ASSUME At(at, Cat(shown, got)) PROVE At(at, Cat(shown, got))'
  <2>1. at' = at /\ shown' = shown /\ got' = got BY <1>1
  <2>. QED BY <1>3, <1>10, <1>12, <1>14, <2>1 DEF At, Matches, Originals
<1>15. ASSUME Matches(shown, Queue!Expected) PROVE Matches(shown, Queue!Expected)'
  <2>1. shown' = shown BY <1>1
  <2>. QED BY <1>3, <1>9, <1>10, <1>11, <1>15, <2>1 DEF Matches, Originals
<1>16. ASSUME Reaches(after, Cat(shown, got)) PROVE Reaches(after, Cat(shown, got))'
  <2>1. after' = after /\ shown' = shown /\ got' = got BY <1>1
  <2>2. CASE after = None
    <3>1. Matches(Cat(shown, got), Queue!Expected) BY <1>16, <2>2 DEF Reaches
    <3>2. Originals(Queue!FlattenSeq(OfAllIn(l))) \subseteq Queue!ToSet(Cat(shown, got))
      BY <1>9, <1>11, <3>1
    <3>. QED BY <1>3, <1>10, <2>1, <2>2, <3>2 DEF Reaches, Matches, Originals
  <2>3. CASE after # None
    <3>1. At(after, Cat(shown, got)) BY <1>16, <2>3 DEF Reaches
    <3>. QED BY <1>3, <1>10, <1>12, <2>1, <2>3, <3>1 DEF Reaches, At, Matches, Originals
  <2>. QED BY <2>2, <2>3
<1>17. QueueTypes' BY <1>1, <1>7, <1>9 DEF QueueTypes
<1>18. LastListed => LastListed' BY <1>1 DEF LastListed, Queue!ToSet
<1>19. Walk'
  <2>1. pc' = pc /\ got' = got /\ listed' = listed /\ limit' = limit /\ cursor' = cursor
        /\ shown' = shown
    BY <1>1
  <2>2. (cursor = Queue!Position(None, Queue!FirstPage, 0) /\ shown = <<>>) =>
          (cursor = Queue!Position(None, Queue!FirstPage, 0) /\ shown = <<>>)'
    BY <2>1 DEF Queue!Position, Queue!FirstPage
  <2>. QED BY <1>13, <1>14, <1>15, <1>16, <1>18, <2>1, <2>2 DEF Walk
<1>. QED BY <1>2, <1>17, <1>19

-----------------------------------------------------------------------------

\* The invariant at the start,
LEMMA InitQueueInv == Queue!Init => QueueInv
<1>. SUFFICES ASSUME Queue!Init PROVE QueueInv OBVIOUS
<1>1. /\ product \in {"cloud", "datacenter"} /\ asked \in {"OPEN", "ALL"}
      /\ limit \in Limits /\ size \in PageSizes
      /\ opened = 0 /\ merged = 0 /\ pc = "idle" /\ got = <<>> /\ listed = <<>>
      /\ cursor = Queue!Position(None, Queue!FirstPage, 0) /\ shown = <<>>
      /\ listing \in [Queue!RepoSet -> UNION {Queue!Listings(r) : r \in Queue!RepoSet}]
  BY DEF Queue!Init
<1>2. limit \in Nat \ {0} /\ size \in Nat \ {0} BY <1>1, ConstantsAssumption
<1>3. ASSUME NEW r \in Queue!RepoSet, NEW prs \in Queue!Listings(r) PROVE prs \in Seq(PRs)
  <2>1. PICK n \in 0 .. MaxOpen, f \in [1 .. MaxOpen -> {"OPEN", "MERGED"}] :
          prs = [i \in 1 .. n |-> [id |-> <<r, i>>, state |-> f[i]]]
    BY <1>3 DEF Queue!Listings
  <2>2. MaxOpen \in Nat /\ n \in Nat BY ConstantsAssumption
  <2>3. \A i \in 1 .. n : [id |-> <<r, i>>, state |-> f[i]] \in PRs
    <3>. TAKE i \in 1 .. n
    <3>1. i \in 1 .. MaxOpen /\ i \in Nat BY <2>2
    <3>2. <<r, i>> \in Queue!RepoSet \X Nat /\ f[i] \in {"OPEN", "MERGED"} BY <3>1
    <3>. QED BY <3>2 DEF PRs
  <2>4. prs \in [1 .. n -> PRs] BY <2>1, <2>3
  <2>. QED BY <2>2, <2>4
<1>4. listing \in [Queue!RepoSet -> Seq(PRs)] BY <1>1, <1>3
<1>. QED BY <1>1, <1>2, <1>4 DEF QueueInv, QueueTypes, Walk

\* after every step of the queue or of others,
LEMMA NextQueueInv == QueueInv /\ Queue!Next => QueueInv'
<1>. SUFFICES ASSUME QueueInv, Queue!Next PROVE QueueInv' OBVIOUS
<1>1. /\ opened \in Nat /\ merged \in Nat
      /\ NothingClosed => QueueTypes /\ Walk
  BY DEF QueueInv
<1>2. CASE Queue!Search
  <2>1. UNCHANGED <<Queue!setting, Queue!provider>>
    BY <1>2 DEF Queue!Search, Queue!Open, Queue!ListPage, Queue!ReadPage,
                Queue!CallFails
  <2>2. UNCHANGED <<opened, merged>> /\ (NothingClosed' <=> NothingClosed)
    BY <2>1 DEF Queue!setting, Queue!provider, NothingClosed
  <2>3. ASSUME NothingClosed PROVE QueueTypes' /\ Walk'
    <3>1. QueueTypes /\ Walk BY <1>1, <2>3
    <3>2. CASE Queue!Open BY <3>1, <3>2, OpenKeeps
    <3>5. CASE Queue!ListPage BY <2>3, <3>1, <3>5, ListPageKeeps
    <3>3. CASE Queue!ReadPage BY <2>3, <3>1, <3>3, ReadPageKeeps
    <3>4. CASE Queue!CallFails
      <4>1. pc # "done" /\ Queue!Refuses BY <3>4 DEF Queue!CallFails
      <4>. QED BY <2>1, <3>1, <4>1, RefusesKeep
    <3>. QED BY <1>2, <3>2, <3>3, <3>4, <3>5 DEF Queue!Search
  <2>. QED BY <1>1, <2>2, <2>3 DEF QueueInv
<1>3. ASSUME NEW repo \in Queue!RepoSet, Queue!OpenPullRequest(repo) PROVE QueueInv'
  <2>1. honest' = honest /\ merged' = merged /\ present' = present
        /\ opened' = opened + 1
    BY <1>3 DEF Queue!OpenPullRequest, Queue!setting
  <2>2. NothingClosed' <=> NothingClosed BY <2>1 DEF NothingClosed
  <2>3. NothingClosed => QueueTypes' /\ Walk' BY <1>1, <1>3, OpenPullRequestKeeps
  <2>. QED BY <1>1, <2>1, <2>2, <2>3 DEF QueueInv
<1>4. ASSUME NEW repo \in Queue!RepoSet, Queue!RemoveRepository(repo) PROVE QueueInv'
  <2>1. opened' = opened /\ merged' = merged /\ present' = present \ {repo}
    BY <1>4 DEF Queue!RemoveRepository
  <2>2. present' # Queue!RepoSet BY <2>1
  <2>3. ~ NothingClosed' BY <2>2 DEF NothingClosed
  <2>. QED BY <1>1, <2>1, <2>3 DEF QueueInv
<1>5. ASSUME NEW repo \in Queue!RepoSet, NEW i, Queue!MergePullRequest(repo, i)
      PROVE  QueueInv'
  <2>1. opened' = opened /\ merged' = merged + 1
    BY <1>5 DEF Queue!MergePullRequest
  <2>2. ~ NothingClosed' BY <1>1, <2>1 DEF NothingClosed
  <2>. QED BY <1>1, <2>1, <2>2 DEF QueueInv
<1>. QED BY <1>2, <1>3, <1>4, <1>5 DEF Queue!Next, Queue!Others

\* and while another action is served.
LEMMA IdleQueueInv ==
  ASSUME QueueInv, UNCHANGED <<Queue!setting, Queue!provider>>,
         UNCHANGED <<pc, at, listed, got, after, cursor, shown>>
  PROVE  QueueInv'
<1>1. /\ UNCHANGED <<product, asked, limit, size, honest, listing, opened, merged>>
      /\ NothingClosed' <=> NothingClosed
  BY DEF Queue!setting, Queue!provider, NothingClosed
<1>. SUFFICES ASSUME NothingClosed PROVE QueueTypes' /\ Walk'
  BY <1>1 DEF QueueInv
<1>2. QueueTypes /\ Walk BY DEF QueueInv
<1>3. QueueTypes' BY <1>1, <1>2 DEF QueueTypes
<1>4. PICK X : X = Cat(shown, got) OBVIOUS
<1>5. /\ At(cursor, shown) => At(cursor, shown)'
      /\ At(at, X) => At(at, Cat(shown, got))'
      /\ Matches(shown, Queue!Expected) => Matches(shown, Queue!Expected)'
      /\ Reaches(after, X) => Reaches(after, Cat(shown, got))'
  <2>1. PICK a : a = at OBVIOUS
  <2>2. PICK b : b = after OBVIOUS
  <2>3. PICK c : c = cursor OBVIOUS
  <2>4. PICK s : s = shown OBVIOUS
  <2>5. At(c, s) => At(cursor, shown)' BY <2>3, <2>4, AtLater
  <2>6. At(a, X) => At(at, Cat(shown, got))' BY <1>4, <2>1, AtLater
  <2>7. Matches(s, Queue!Expected) => Matches(shown, Queue!Expected)'
    BY <2>4, AtLater
  <2>8. Reaches(b, X) => Reaches(after, Cat(shown, got))' BY <1>4, <2>2, AtLater
  <2>. QED BY <2>1, <2>2, <2>3, <2>4, <2>5, <2>6, <2>7, <2>8
<1>6. (cursor = Queue!Position(None, Queue!FirstPage, 0) /\ shown = <<>>) =>
        (cursor = Queue!Position(None, Queue!FirstPage, 0) /\ shown = <<>>)'
  BY DEF Queue!Position, Queue!FirstPage
<1>7. LastListed => LastListed' BY DEF LastListed, Queue!ToSet
<1>8. Walk' BY <1>1, <1>2, <1>4, <1>5, <1>6, <1>7 DEF Walk
<1>. QED BY <1>3, <1>8

QVInv == serves = "pullrequests.queue" => QueueInv

\* So it holds whenever the queue is the action that is served.
LEMMA QVInvHolds == Spec => []QVInv
<1>1. Init => QVInv
  BY InitQueueInv DEF Init, QVInv
<1>2. QVInv /\ [Next]_vars => QVInv'
  <2>. SUFFICES ASSUME QVInv, [Next]_vars, serves' = "pullrequests.queue"
                PROVE  QueueInv'
    BY DEF QVInv
  <2>1. CASE ServeQueue
    BY <2>1, NextQueueInv DEF ServeQueue, QVInv
  <2>2. CASE ServeAction BY <2>2 DEF ServeAction, OnlyAction
  <2>3. CASE ServeReview BY <2>3 DEF ServeReview, OnlyReview
  <2>4. CASE UNCHANGED vars
    <3>1. UNCHANGED <<serves, product, pc, at, honest, listed, asked, limit, size,
                      listing, present, opened, merged, got, after, cursor, shown>>
      BY <2>4 DEF vars, ofHandlers, ofQueue
    <3>2. QueueInv BY <3>1 DEF QVInv
    <3>3. UNCHANGED <<Queue!setting, Queue!provider>>
      BY <3>1 DEF Queue!setting, Queue!provider
    <3>. QED BY <3>1, <3>2, <3>3, IdleQueueInv
  <2>. QED BY <2>1, <2>2, <2>3, <2>4 DEF Next
<1>. QED BY <1>1, <1>2, PTL DEF Spec

\* However the two paginations fall against each other, however many searches
\* fail and are asked for again, the pages put together are the queue
\* (searchWorkspacePullRequests, queuePositionAfter).
THEOREM PagesMakeTheQueue == Spec => []PagesAreTheQueue
<1>1. QVInv => PagesAreTheQueue
  <2>. SUFFICES ASSUME QueueInv, Queue!Unchanged
                PROVE  /\ Queue!IsPrefix(shown, Queue!Expected)
                       /\ pc = "done" => shown = Queue!Expected
    BY DEF QVInv, PagesAreTheQueue, Queue!PagesAreTheQueue
  <2>1. NothingClosed BY DEF Queue!Unchanged, NothingClosed
  <2>2. QueueTypes /\ Walk BY <2>1 DEF QueueInv
  <2>3. PICK e \in Seq(PRs) : e = Queue!Expected BY <2>2, ListingTypes
  <2>4. CASE pc = "done"
    <3>1. shown = e BY <2>2, <2>3, <2>4 DEF Walk, Matches
    <3>2. Queue!IsPrefix(e, Cat(e, <<>>)) /\ Cat(e, <<>>) = e
      <4>1. <<>> \in Seq(PRs) OBVIOUS
      <4>. QED BY <4>1, CatFacts
    <3>. QED BY <2>3, <3>1, <3>2
  <2>5. CASE pc # "done" /\ shown = <<>>
    <3>1. Queue!IsPrefix(<<>>, Cat(<<>>, e)) /\ Cat(<<>>, e) = e
      <4>0. <<>> \in Seq(PRs) OBVIOUS
      <4>1. PICK z \in Seq(PRs) : z = <<>> BY <4>0
      <4>2. Queue!IsPrefix(z, Cat(z, e)) BY CatFacts
      <4>3. Cat(<<>>, e) = e BY CatFacts
      <4>. QED BY <4>1, <4>2, <4>3
    <3>. QED BY <2>3, <2>5, <3>1
  <2>6. CASE pc # "done" /\ At(cursor, shown)
    <3>1. PICK i \in 1 .. Len(Repos) :
            /\ cursor.page.start + cursor.offset <= Len(Listing(i, cursor.page.group))
            /\ Matches(shown, Upto(i, cursor.page.group, cursor.page.start + cursor.offset))
      BY <2>6 DEF At
    <3>2. PICK g \in 1 .. NGroups : g = cursor.page.group BY <2>6 DEF At
    <3>3. PICK n \in Nat : n = cursor.page.start + cursor.offset BY <2>6 DEF At
    <3>4. Len(Listing(i, g)) \in Nat BY <2>2, ListingTypes, LenProperties
    <3>5. n \in 0 .. Len(Listing(i, g)) BY <3>1, <3>2, <3>3, <3>4
    <3>6. Queue!IsPrefix(Upto(i, g, n), Queue!Expected)
      <4>1. n \in n .. Len(Listing(i, g)) BY <3>4, <3>5
      <4>. QED BY <2>2, <3>5, <4>1, UptoFacts
    <3>7. shown = Upto(i, g, n) BY <3>1, <3>2, <3>3 DEF Matches
    <3>. QED BY <2>6, <3>6, <3>7
  <2>. QED BY <2>2, <2>4, <2>5, <2>6 DEF Walk
<1>. QED BY <1>1, QVInvHolds, PTL

\* Pull requests opened while a person pages, between any two calls, hide none
\* that was there when they began: only a merge or a removal does.
THEOREM OpeningHidesNone == Spec => []OnlyClosingHides
<1>1. QVInv => OnlyClosingHides
  <2>. SUFFICES ASSUME QueueInv, pc = "done", NothingClosed,
                       NEW id \in Queue!Ids(Queue!Expected), id[2] <= MaxOpen
                PROVE  id \in Queue!Ids(shown)
    BY DEF QVInv, OnlyClosingHides, Queue!OnlyClosingHides, NothingClosed
  <2>1. Matches(shown, Queue!Expected) BY DEF QueueInv, Walk
  <2>2. PICK p \in Queue!ToSet(Queue!Expected) : id = p.id BY DEF Queue!Ids
  <2>3. p \in Originals(Queue!Expected) BY <2>2 DEF Originals
  <2>4. p \in Queue!ToSet(shown) BY <2>1, <2>3 DEF Matches
  <2>. QED BY <2>2, <2>4 DEF Queue!Ids
<1>. QED BY <1>1, QVInvHolds, PTL

-----------------------------------------------------------------------------
(***************************************************************************)
(* The threads of a review and their view.  All that the loops of          *)
(* mapReviewThreads do is put a comment where it was not: the comments     *)
(* filed so far are as many as the places of the listing that were handled *)
(* (Filing).  The loops of the view count what they show, and set the flag *)
(* exactly when they leave out a comment of the threads they came to       *)
(* (ThreadShown, Viewed).                                                  *)
(***************************************************************************)

\* The instances' operators on sequences are the same.
LEMMA SameFlatten ==
  /\ \A s : Review!FlattenSeq(s) = Queue!FlattenSeq(s)
  /\ \A s : Review!ToSet(s) = Queue!ToSet(s)
BY DEF Review!FlattenSeq, Queue!FlattenSeq, Review!ToSet, Queue!ToSet

\* The first of some sequences do not depend on those after them.
LEMMA SameFirst ==
  ASSUME NEW E, NEW s \in Seq(Seq(E)), NEW t \in Seq(Seq(E)),
         NEW n \in 0 .. Len(s), n <= Len(t), \A i \in 1 .. n : s[i] = t[i]
  PROVE  First(s, n) = First(t, n)
<1>1. Len(s) \in Nat /\ Len(t) \in Nat BY LenProperties
<1>. DEFINE S == {m \in Nat : m <= n => First(s, m) = First(t, m)}
<1>2. 0 \in S BY FirstIs
<1>3. ASSUME NEW m \in Nat, m \in S PROVE m + 1 \in S
  <2>. SUFFICES ASSUME m + 1 <= n PROVE First(s, m + 1) = First(t, m + 1) OBVIOUS
  <2>1. m + 1 \in 1 .. n /\ m + 1 \in 1 .. Len(s) /\ m + 1 \in 1 .. Len(t)
        /\ (m + 1) - 1 = m
    BY <1>1
  <2>2. PICK k \in 1 .. n : k = m + 1 BY <2>1
  <2>3. First(s, k) = First(s, k - 1) \o s[k] BY <2>1, <2>2, FirstIs
  <2>4. First(t, k) = First(t, k - 1) \o t[k] BY <2>1, <2>2, FirstIs
  <2>5. First(s, k - 1) = First(t, k - 1) BY <1>3, <2>1, <2>2
  <2>. QED BY <2>2, <2>3, <2>4, <2>5
<1>. HIDE DEF S
<1>4. Nat \subseteq S BY <1>2, <1>3, NatSetInduction
<1>5. n \in Nat /\ n <= n BY <1>1
<1>. QED BY <1>4, <1>5 DEF S

\* One sequence more.
LEMMA FlattenOfOneMore ==
  ASSUME NEW E, NEW seqs \in Seq(Seq(E)), NEW s \in Seq(E)
  PROVE  Queue!FlattenSeq(Append(seqs, s)) = Cat(Queue!FlattenSeq(seqs), s)
<1>1. PICK t : t = Append(seqs, s) OBVIOUS
<1>2. PICK n \in Nat : n = Len(seqs) BY LenProperties
<1>3. /\ t \in Seq(Seq(E)) /\ Len(t) = n + 1 /\ t[n + 1] = s
      /\ \A i \in 1 .. n : t[i] = seqs[i]
  BY <1>1, <1>2, AppendProperties
<1>4. First(t, n) = First(seqs, n)
  <2>1. n \in 0 .. Len(t) /\ n <= Len(seqs) BY <1>2, <1>3
  <2>. QED BY <1>3, <2>1, SameFirst
<1>5. First(seqs, n) = Queue!FlattenSeq(seqs) BY <1>2, FirstIs
<1>6. PICK m \in 1 .. n + 1 : m = n + 1 OBVIOUS
<1>7. m - 1 = n /\ m \in 1 .. Len(t) BY <1>3, <1>6
<1>8. First(t, m) = First(t, m - 1) \o t[m] BY <1>3, <1>7, FirstIs
<1>9. First(t, m) = Queue!FlattenSeq(t) BY <1>3, <1>6, FirstIs
<1>. QED BY <1>1, <1>3, <1>4, <1>5, <1>6, <1>7, <1>8, <1>9 DEF Cat

\* One element more at the end of one of the sequences.
LEMMA FlattenOfOneLonger ==
  ASSUME NEW E, NEW s \in Seq(Seq(E)), NEW t \in Seq(Seq(E)), Len(t) = Len(s),
         NEW p \in 1 .. Len(s), NEW c \in E, t[p] = Cat(s[p], <<c>>),
         \A i \in 1 .. Len(s) : i # p => t[i] = s[i]
  PROVE  /\ Len(Queue!FlattenSeq(t)) = Len(Queue!FlattenSeq(s)) + 1
         /\ Queue!ToSet(Queue!FlattenSeq(t)) = Queue!ToSet(Queue!FlattenSeq(s)) \cup {c}
<1>1. PICK n \in Nat : n = Len(s) BY LenProperties
<1>2. /\ \A i \in 1 .. n : s[i] \in Seq(E) /\ t[i] \in Seq(E)
      /\ p \in Nat /\ 1 <= p /\ p <= n
  BY <1>1, ElementOfSeq
<1>3. /\ \A i \in 0 .. n : First(s, i) \in Seq(E) /\ First(t, i) \in Seq(E)
      /\ \A i \in 1 .. n : First(s, i) = First(s, i - 1) \o s[i]
                           /\ First(t, i) = First(t, i - 1) \o t[i]
      /\ First(s, n) = Queue!FlattenSeq(s) /\ First(t, n) = Queue!FlattenSeq(t)
  BY <1>1, FirstIs
<1>. DEFINE Longer(a, b) == /\ Len(b) = Len(a) + 1
                            /\ Queue!ToSet(b) = Queue!ToSet(a) \cup {c}
            S == {m \in Nat : p + m <= n => Longer(First(s, p + m), First(t, p + m))}
<1>4. PICK o : o = <<c>> OBVIOUS
<1>12. o \in Seq(E) BY <1>4
<1>5. Len(o) = 1 /\ Queue!ToSet(o) = {c} BY <1>4 DEF Queue!ToSet
<1>6. 0 \in S
  <2>1. p \in 1 .. n /\ p - 1 \in 0 .. n /\ p - 1 <= n BY <1>2
  <2>2. First(s, p - 1) = First(t, p - 1)
    <3>1. \A i \in 1 .. p - 1 : s[i] = t[i] BY <1>1, <1>2
    <3>. QED BY <1>1, <2>1, <3>1, SameFirst
  <2>3. PICK a \in Seq(E) : a = First(s, p - 1) BY <1>3, <2>1
  <2>4. PICK b \in Seq(E) : b = s[p] BY <1>2, <2>1
  <2>5. First(s, p) = Cat(a, b) BY <1>3, <2>1, <2>3, <2>4 DEF Cat
  <2>6. First(t, p) = Cat(a, Cat(b, o))
    BY <1>3, <1>4, <2>1, <2>2, <2>3, <2>4 DEF Cat
  <2>7. Cat(a, Cat(b, o)) = Cat(Cat(a, b), o) BY <1>12, CatAssociative
  <2>8. Cat(a, b) \in Seq(E) BY CatFacts
  <2>9. PICK f \in Seq(E) : f = Cat(a, b) BY <2>8
  <2>10. Len(Cat(f, o)) = Len(f) + Len(o)
         /\ Queue!ToSet(Cat(f, o)) = Queue!ToSet(f) \cup Queue!ToSet(o)
    BY <1>12, CatFacts
  <2>11. Longer(First(s, p), First(t, p)) BY <1>5, <2>5, <2>6, <2>7, <2>9, <2>10
  <2>12. p + 0 = p BY <1>2
  <2>. QED BY <2>11, <2>12
<1>7. ASSUME NEW m \in Nat, m \in S PROVE m + 1 \in S
  <2>. SUFFICES ASSUME p + (m + 1) <= n
                PROVE  Longer(First(s, p + (m + 1)), First(t, p + (m + 1)))
    OBVIOUS
  <2>1. PICK k \in 1 .. n : k = p + (m + 1) BY <1>2
  <2>2. k - 1 = p + m /\ k - 1 \in 0 .. n /\ k # p /\ p + m <= n BY <1>2, <2>1
  <2>3. Longer(First(s, k - 1), First(t, k - 1)) BY <1>7, <2>2
  <2>4. t[k] = s[k] BY <1>1, <2>2
  <2>5. PICK a \in Seq(E) : a = First(s, k - 1) BY <1>3, <2>2
  <2>6. PICK b \in Seq(E) : b = First(t, k - 1) BY <1>3, <2>2
  <2>7. PICK d \in Seq(E) : d = s[k] BY <1>2
  <2>8. First(s, k) = Cat(a, d) /\ First(t, k) = Cat(b, d)
    BY <1>3, <2>4, <2>5, <2>6, <2>7 DEF Cat
  <2>9. /\ Len(Cat(a, d)) = Len(a) + Len(d)
        /\ Queue!ToSet(Cat(a, d)) = Queue!ToSet(a) \cup Queue!ToSet(d)
    BY CatFacts
  <2>10. /\ Len(Cat(b, d)) = Len(b) + Len(d)
         /\ Queue!ToSet(Cat(b, d)) = Queue!ToSet(b) \cup Queue!ToSet(d)
    BY CatFacts
  <2>11. Len(b) = Len(a) + 1 /\ Queue!ToSet(b) = Queue!ToSet(a) \cup {c}
    BY <2>3, <2>5, <2>6
  <2>12. Len(a) \in Nat /\ Len(d) \in Nat BY LenProperties
  <2>13. Len(Cat(b, d)) = Len(Cat(a, d)) + 1 BY <2>9, <2>10, <2>11, <2>12
  <2>14. Queue!ToSet(Cat(b, d)) = Queue!ToSet(Cat(a, d)) \cup {c}
    BY <2>9, <2>10, <2>11
  <2>15. Longer(First(s, k), First(t, k)) BY <2>8, <2>13, <2>14
  <2>. QED BY <2>1, <2>15
<1>. HIDE DEF S
<1>8. PICK m \in Nat : p + m = n
  <2>1. n - p \in Nat /\ p + (n - p) = n BY <1>2
  <2>. QED BY <2>1
<1>9. m \in S BY <1>6, <1>7, NatSetInduction
<1>10. p + m <= n BY <1>8
<1>11. Longer(First(s, p + m), First(t, p + m)) BY <1>9, <1>10 DEF S
<1>. QED BY <1>3, <1>8, <1>11

Names == {c.id : c \in Comments} \cup {c.parent : c \in Comments}
ThreadRecords == [id : Names, comments : Seq(Comments)]
Bodies(threads) == [i \in 1 .. Len(threads) |-> threads[i].comments]
All(threads) == Queue!FlattenSeq(Bodies(threads))

\* Not empty, and only answers after the first comment.
InThread(s) == s # <<>> /\ \A j \in 2 .. Len(s) : s[j].parent # 0

\* The comments at "D" are filed, each once.
Filing(threads, cs, D) ==
  /\ threads \in Seq(ThreadRecords)
  /\ Len(All(threads)) = Cardinality(D)
  /\ Queue!ToSet(All(threads)) = {cs[i] : i \in D}
  /\ \A i \in 1 .. Len(threads) : InThread(threads[i].comments)

\* Threads are sequences of comments.
LEMMA BodiesTypes ==
  ASSUME NEW threads \in Seq(ThreadRecords)
  PROVE  /\ Len(threads) \in Nat
         /\ \A i \in 1 .. Len(threads) : /\ threads[i] \in ThreadRecords
                                         /\ threads[i].id \in Names
                                         /\ threads[i].comments \in Seq(Comments)
                                         /\ Bodies(threads)[i] = threads[i].comments
         /\ Bodies(threads) \in Seq(Seq(Comments)) /\ Len(Bodies(threads)) = Len(threads)
<1>1. Len(threads) \in Nat BY LenProperties
<1>2. \A i \in 1 .. Len(threads) : /\ threads[i] \in ThreadRecords
                                   /\ threads[i].id \in Names
                                   /\ threads[i].comments \in Seq(Comments)
  <2>. TAKE i \in 1 .. Len(threads)
  <2>1. threads[i] \in ThreadRecords BY ElementOfSeq
  <2>. QED BY <2>1 DEF ThreadRecords
<1>3. PICK n \in Nat : n = Len(threads) BY <1>1
<1>4. Bodies(threads) \in [1 .. n -> Seq(Comments)] BY <1>2, <1>3 DEF Bodies
<1>5. \A i \in 1 .. n : Bodies(threads)[i] = threads[i].comments BY <1>3 DEF Bodies
<1>6. PICK b \in [1 .. n -> Seq(Comments)] : b = Bodies(threads) BY <1>4
<1>7. b \in Seq(Seq(Comments)) /\ Len(b) = n OBVIOUS
<1>. QED BY <1>1, <1>2, <1>3, <1>5, <1>6, <1>7

\* What joined sequences are.
LEMMA FlattenType ==
  ASSUME NEW E, NEW seqs \in Seq(Seq(E))
  PROVE  Queue!FlattenSeq(seqs) \in Seq(E)
<1>1. PICK n \in Nat : n = Len(seqs) BY LenProperties
<1>2. First(seqs, n) = Queue!FlattenSeq(seqs) BY <1>1, FirstIs
<1>3. n \in 0 .. Len(seqs) BY <1>1
<1>4. First(seqs, n) \in Seq(E) BY <1>3, FirstIs
<1>. QED BY <1>2, <1>4

\* A place more is one more.
LEMMA PlaceMore ==
  ASSUME NEW n \in Nat, NEW D \in SUBSET (1 .. n), NEW j \in (1 .. n) \ D
  PROVE  Cardinality(D) \in Nat /\ Cardinality(D \cup {j}) = Cardinality(D) + 1
<1>1. IsFiniteSet(1 .. n) BY FS_Interval
<1>2. IsFiniteSet(D) BY <1>1, FS_Subset
<1>. QED BY <1>2, FS_AddElement, FS_CardinalityType

\* A comment that begins a thread.
LEMMA BeginsThread ==
  ASSUME NEW cs \in Seq(Comments), NEW D \in SUBSET (1 .. Len(cs)),
         NEW j \in (1 .. Len(cs)) \ D, NEW threads, Filing(threads, cs, D),
         NEW name \in Names,
         NEW t, t = [id |-> name, comments |-> <<cs[j]>>]
  PROVE  Filing(Append(threads, t), cs, D \cup {j})
<1>1. Len(cs) \in Nat /\ cs[j] \in Comments BY LenProperties, ElementOfSeq
<1>2. threads \in Seq(ThreadRecords) BY DEF Filing
<1>3. PICK o : o = <<cs[j]>> OBVIOUS
<1>4. o \in Seq(Comments) BY <1>1, <1>3
<1>5. Len(o) = 1 /\ Queue!ToSet(o) = {cs[j]} BY <1>3 DEF Queue!ToSet
<1>6. t \in ThreadRecords /\ t.comments = o BY <1>3, <1>4 DEF ThreadRecords
<1>7. PICK n \in Nat : n = Len(threads) BY <1>2, LenProperties
<1>8. PICK u : u = Append(threads, t) OBVIOUS
<1>9. /\ u \in Seq(ThreadRecords) /\ Len(u) = n + 1 /\ u[n + 1] = t
      /\ \A i \in 1 .. n : u[i] = threads[i]
  BY <1>2, <1>6, <1>7, <1>8, AppendProperties
<1>10. Bodies(u) = Append(Bodies(threads), o)
  <2>1. PICK b \in Seq(Seq(Comments)) : b = Bodies(threads) BY <1>2, BodiesTypes
  <2>2. Len(b) = n /\ \A i \in 1 .. n : b[i] = threads[i].comments
    BY <1>2, <1>7, <2>1, BodiesTypes
  <2>3. PICK d : d = Append(b, o) OBVIOUS
  <2>4. /\ d \in Seq(Seq(Comments)) /\ Len(d) = n + 1 /\ d[n + 1] = o
        /\ \A i \in 1 .. n : d[i] = b[i]
    BY <1>4, <2>1, <2>2, <2>3, AppendProperties
  <2>5. PICK e \in Seq(Seq(Comments)) : e = Bodies(u) BY <1>9, BodiesTypes
  <2>6. Len(e) = n + 1 /\ \A i \in 1 .. n + 1 : e[i] = u[i].comments
    BY <1>9, <2>5, BodiesTypes
  <2>7. ASSUME NEW i \in 1 .. Len(d) PROVE d[i] = e[i]
    <3>1. i \in 1 .. n \/ i = n + 1 BY <2>4
    <3>2. i \in 1 .. n + 1 BY <2>4
    <3>3. e[i] = u[i].comments BY <2>6, <3>2
    <3>4. CASE i \in 1 .. n BY <1>9, <2>2, <2>4, <3>3, <3>4
    <3>5. CASE i = n + 1 BY <1>6, <1>9, <2>4, <3>3, <3>5
    <3>. QED BY <3>1, <3>4, <3>5
  <2>8. d = e BY <2>4, <2>6, <2>7, SeqEqual
  <2>. QED BY <2>1, <2>3, <2>5, <2>8
<1>11. Bodies(threads) \in Seq(Seq(Comments)) BY <1>2, BodiesTypes
<1>12. All(u) = Cat(All(threads), o) BY <1>4, <1>10, <1>11, FlattenOfOneMore DEF All
<1>13. All(threads) \in Seq(Comments) BY <1>11, FlattenType DEF All
<1>14. PICK a \in Seq(Comments) : a = All(threads) BY <1>13
<1>15. Len(Cat(a, o)) = Len(a) + Len(o)
       /\ Queue!ToSet(Cat(a, o)) = Queue!ToSet(a) \cup Queue!ToSet(o)
  BY <1>4, CatFacts
<1>16. Len(a) = Cardinality(D) /\ Queue!ToSet(a) = {cs[i] : i \in D}
  BY <1>14 DEF Filing
<1>17. Cardinality(D \cup {j}) = Cardinality(D) + 1 BY <1>1, PlaceMore
<1>18. Len(All(u)) = Cardinality(D \cup {j}) BY <1>5, <1>12, <1>14, <1>15, <1>16, <1>17
<1>19. Queue!ToSet(All(u)) = {cs[i] : i \in D \cup {j}}
  <2>1. Queue!ToSet(All(u)) = {cs[i] : i \in D} \cup {cs[j]}
    BY <1>5, <1>12, <1>14, <1>15, <1>16
  <2>. QED BY <2>1
<1>20. ASSUME NEW i \in 1 .. Len(u) PROVE InThread(u[i].comments)
  <2>1. CASE i \in 1 .. n BY <1>7, <1>9, <2>1 DEF Filing
  <2>2. CASE i = n + 1
    <3>1. o # <<>> BY <1>3
    <3>2. 2 .. Len(o) = {} BY <1>5
    <3>. QED BY <1>6, <1>9, <2>2, <3>1, <3>2 DEF InThread
  <2>. QED BY <1>9, <2>1, <2>2
<1>. QED BY <1>8, <1>9, <1>18, <1>19, <1>20 DEF Filing

\* A comment under a thread there is.
Under(threads, p, c) == [threads EXCEPT ![p].comments = Append(@, c)]
LEMMA UnderIs ==
  ASSUME NEW threads \in Seq(ThreadRecords), NEW p \in 1 .. Len(threads), NEW c \in Comments
  PROVE  /\ Under(threads, p, c) \in Seq(ThreadRecords)
         /\ Len(Under(threads, p, c)) = Len(threads)
         /\ Under(threads, p, c)[p].comments = Append(threads[p].comments, c)
         /\ \A i \in 1 .. Len(threads) : i # p => Under(threads, p, c)[i] = threads[i]
<1>1. PICK n \in Nat : n = Len(threads) BY LenProperties
<1>2. threads \in [1 .. n -> ThreadRecords] BY <1>1, LenProperties, ElementOfSeq
<1>3. threads[p] \in ThreadRecords /\ threads[p].comments \in Seq(Comments)
  BY BodiesTypes
<1>4. PICK a : a = Append(threads[p].comments, c) OBVIOUS
<1>5. a \in Seq(Comments) BY <1>3, <1>4, AppendProperties
<1>6. PICK t : t = [threads[p] EXCEPT !.comments = a] OBVIOUS
<1>7. t \in ThreadRecords /\ t.comments = a BY <1>3, <1>5, <1>6 DEF ThreadRecords
<1>8. Under(threads, p, c) = [threads EXCEPT ![p] = t] BY <1>4, <1>6 DEF Under
<1>9. PICK u : u = [threads EXCEPT ![p] = t] OBVIOUS
<1>10. /\ u \in [1 .. n -> ThreadRecords] /\ u[p] = t
       /\ \A i \in 1 .. n : i # p => u[i] = threads[i]
  BY <1>1, <1>2, <1>7, <1>9
<1>11. u \in Seq(ThreadRecords) /\ Len(u) = n BY <1>10
<1>. QED BY <1>1, <1>4, <1>7, <1>8, <1>9, <1>10, <1>11

LEMMA GoesUnder ==
  ASSUME NEW cs \in Seq(Comments), NEW D \in SUBSET (1 .. Len(cs)),
         NEW j \in (1 .. Len(cs)) \ D, cs[j].parent # 0,
         NEW threads, Filing(threads, cs, D), NEW p \in 1 .. Len(threads)
  PROVE  Filing(Under(threads, p, cs[j]), cs, D \cup {j})
<1>1. Len(cs) \in Nat /\ cs[j] \in Comments BY LenProperties, ElementOfSeq
<1>2. threads \in Seq(ThreadRecords) BY DEF Filing
<1>3. PICK u : u = Under(threads, p, cs[j]) OBVIOUS
<1>4. PICK n \in Nat : n = Len(threads) BY <1>2, LenProperties
<1>5. /\ u \in Seq(ThreadRecords) /\ Len(u) = n
      /\ u[p].comments = Append(threads[p].comments, cs[j])
      /\ \A i \in 1 .. n : i # p => u[i] = threads[i]
  <2>1. PICK c \in Comments : c = cs[j] BY <1>1
  <2>2. u = Under(threads, p, c) BY <1>3, <2>1
  <2>3. /\ Under(threads, p, c) \in Seq(ThreadRecords)
        /\ Len(Under(threads, p, c)) = Len(threads)
        /\ Under(threads, p, c)[p].comments = Append(threads[p].comments, c)
        /\ \A i \in 1 .. Len(threads) : i # p => Under(threads, p, c)[i] = threads[i]
    BY <1>2, UnderIs
  <2>. QED BY <1>4, <2>1, <2>2, <2>3
<1>6. PICK b \in Seq(Seq(Comments)) : b = Bodies(threads) BY <1>2, BodiesTypes
<1>7. Len(b) = n /\ \A i \in 1 .. n : b[i] = threads[i].comments /\ b[i] \in Seq(Comments)
  BY <1>2, <1>4, <1>6, BodiesTypes
<1>8. PICK d \in Seq(Seq(Comments)) : d = Bodies(u) BY <1>5, BodiesTypes
<1>9. Len(d) = n /\ \A i \in 1 .. n : d[i] = u[i].comments
  BY <1>5, <1>8, BodiesTypes
<1>10. d[p] = Cat(b[p], <<cs[j]>>)
  <2>1. d[p] = Append(b[p], cs[j]) /\ b[p] \in Seq(Comments) BY <1>4, <1>5, <1>7, <1>9
  <2>. QED BY <1>1, <2>1, AppendIsConcat DEF Cat
<1>11. \A i \in 1 .. n : i # p => d[i] = b[i] BY <1>5, <1>7, <1>9
<1>12. /\ Len(Queue!FlattenSeq(d)) = Len(Queue!FlattenSeq(b)) + 1
       /\ Queue!ToSet(Queue!FlattenSeq(d)) =
            Queue!ToSet(Queue!FlattenSeq(b)) \cup {cs[j]}
  <2>1. p \in 1 .. Len(b) /\ Len(d) = Len(b) BY <1>4, <1>7, <1>9
  <2>2. PICK c \in Comments : c = cs[j] BY <1>1
  <2>3. d[p] = Cat(b[p], <<c>>) BY <1>10, <2>2
  <2>4. \A i \in 1 .. Len(b) : i # p => d[i] = b[i] BY <1>7, <1>11
  <2>5. /\ Len(Queue!FlattenSeq(d)) = Len(Queue!FlattenSeq(b)) + 1
        /\ Queue!ToSet(Queue!FlattenSeq(d)) = Queue!ToSet(Queue!FlattenSeq(b)) \cup {c}
    BY <2>1, <2>3, <2>4, FlattenOfOneLonger
  <2>. QED BY <2>2, <2>5
<1>13. /\ Len(Queue!FlattenSeq(b)) = Cardinality(D)
       /\ Queue!ToSet(Queue!FlattenSeq(b)) = {cs[i] : i \in D}
  BY <1>6 DEF Filing, All
<1>14. Cardinality(D \cup {j}) = Cardinality(D) + 1 BY <1>1, PlaceMore
<1>15. Len(All(u)) = Cardinality(D \cup {j}) BY <1>8, <1>12, <1>13, <1>14 DEF All
<1>16. Queue!ToSet(All(u)) = {cs[i] : i \in D \cup {j}}
  <2>1. Queue!ToSet(All(u)) = {cs[i] : i \in D} \cup {cs[j]}
    BY <1>8, <1>12, <1>13 DEF All
  <2>. QED BY <2>1
<1>17. ASSUME NEW i \in 1 .. Len(u) PROVE InThread(u[i].comments)
  <2>1. CASE i # p BY <1>4, <1>5, <2>1 DEF Filing
  <2>2. CASE i = p
    <3>1. PICK s \in Seq(Comments) : s = threads[p].comments BY <1>2, BodiesTypes
    <3>2. InThread(s) BY <3>1 DEF Filing
    <3>3. PICK a : a = Append(s, cs[j]) OBVIOUS
    <3>4. PICK m \in Nat : m = Len(s) BY LenProperties
    <3>5. Len(a) = m + 1 /\ a[m + 1] = cs[j] /\ \A k \in 1 .. m : a[k] = s[k]
      BY <1>1, <3>3, <3>4, AppendProperties
    <3>6. a # <<>>
      <4>1. Len(<<>>) = 0 OBVIOUS
      <4>. QED BY <3>5, <4>1
    <3>7. ASSUME NEW k \in 2 .. Len(a) PROVE a[k].parent # 0
      <4>1. k = m + 1 \/ (k \in 2 .. m /\ k \in 1 .. m) BY <3>5
      <4>. QED BY <3>2, <3>4, <3>5, <4>1 DEF InThread
    <3>. QED BY <1>5, <2>2, <3>1, <3>3, <3>6, <3>7 DEF InThread
  <2>. QED BY <2>1, <2>2
<1>. QED BY <1>3, <1>5, <1>15, <1>16, <1>17 DEF Filing

\* The last of some places.
LEMMA LastPlace ==
  ASSUME NEW n \in Nat, NEW D \in SUBSET (1 .. n), D # {}
  PROVE  Review!Max(D) \in D
<1>. DEFINE R == OpToRel(<, Nat)
            F == {n - i : i \in D}
<1>1. IsWellFoundedOn(R, Nat) BY NatLessThanWellFounded, Zenon
<1>2. \A i, j \in Nat : i < j => <<i, j>> \in R BY DEF OpToRel
<1>. HIDE DEF R
<1>8. PICK d \in D : TRUE OBVIOUS
<1>9. \A i \in D : n - i \in Nat OBVIOUS
<1>10. n - d \in F BY <1>8
<1>3. F \subseteq Nat /\ F # {} BY <1>9, <1>10
<1>4. PICK m \in F : \A k \in F : <<k, m>> \notin R BY <1>1, <1>3, WFMin
<1>5. PICK x \in D : m = n - x OBVIOUS
<1>6. ASSUME NEW y \in D PROVE x >= y
  <2>1. n - y \in F /\ n - y \in Nat /\ m \in Nat BY <1>3
  <2>2. ~ (n - y < m) BY <1>2, <1>4, <2>1
  <2>. QED BY <1>5, <2>2
<1>7. \E z \in D : \A y \in D : z >= y BY <1>6
<1>. QED BY <1>7 DEF Review!Max

\* Filed puts a comment under a thread or begins one.
LEMMA FiledIs ==
  ASSUME NEW threads \in Seq(ThreadRecords), NEW c
  PROVE  \/ Review!Filed(threads, c) =
              Append(threads, [id |-> c.parent, comments |-> <<c>>])
         \/ \E p \in 1 .. Len(threads) : Review!Filed(threads, c) = Under(threads, p, c)
<1>. DEFINE own == Review!ThreadsOf(threads, c)
<1>1. PICK n \in Nat : n = Len(threads) BY LenProperties
<1>2. own \in SUBSET (1 .. n) BY <1>1 DEF Review!ThreadsOf
<1>3. CASE own = {} BY <1>3 DEF Review!Filed
<1>4. CASE own # {}
  <2>1. Review!Max(own) \in 1 .. n BY <1>2, <1>4, LastPlace
  <2>2. Review!Filed(threads, c) = Under(threads, Review!Max(own), c)
    BY <1>4 DEF Review!Filed, Under
  <2>. QED BY <1>1, <2>1, <2>2
<1>. QED BY <1>3, <1>4

LEMMA FiledFiles ==
  ASSUME NEW cs \in Seq(Comments), NEW D \in SUBSET (1 .. Len(cs)),
         NEW j \in (1 .. Len(cs)) \ D, cs[j].parent # 0,
         NEW threads, Filing(threads, cs, D)
  PROVE  Filing(Review!Filed(threads, cs[j]), cs, D \cup {j})
<1>1. threads \in Seq(ThreadRecords) BY DEF Filing
<1>2. cs[j] \in Comments BY ElementOfSeq
<1>3. PICK t : t = [id |-> cs[j].parent, comments |-> <<cs[j]>>] OBVIOUS
<1>4. PICK name \in Names : name = cs[j].parent BY <1>2 DEF Names
<1>5. CASE Review!Filed(threads, cs[j]) = Append(threads, t)
  <2>1. t = [id |-> name, comments |-> <<cs[j]>>] BY <1>3, <1>4
  <2>2. Filing(Append(threads, t), cs, D \cup {j}) BY <2>1, BeginsThread
  <2>. QED BY <1>5, <2>2
<1>6. CASE \E p \in 1 .. Len(threads) : Review!Filed(threads, cs[j]) = Under(threads, p, cs[j])
  <2>1. PICK p \in 1 .. Len(threads) :
          Review!Filed(threads, cs[j]) = Under(threads, p, cs[j])
    BY <1>6
  <2>2. Filing(Under(threads, p, cs[j]), cs, D \cup {j}) BY GoesUnder
  <2>. QED BY <2>1, <2>2
<1>. QED BY <1>1, <1>3, <1>5, <1>6, FiledIs

LEMMA FiledType ==
  ASSUME NEW threads \in Seq(ThreadRecords), NEW c \in Comments
  PROVE  Review!Filed(threads, c) \in Seq(ThreadRecords)
<1>1. PICK t : t = [id |-> c.parent, comments |-> <<c>>] OBVIOUS
<1>2. c.parent \in Names BY DEF Names
<1>3. PICK o : o = <<c>> OBVIOUS
<1>4. o \in Seq(Comments) BY <1>3
<1>5. t \in ThreadRecords BY <1>1, <1>2, <1>3, <1>4 DEF ThreadRecords
<1>6. Append(threads, t) \in Seq(ThreadRecords) BY <1>5, AppendProperties
<1>7. \A p \in 1 .. Len(threads) : Under(threads, p, c) \in Seq(ThreadRecords)
  BY UnderIs
<1>8. \/ Review!Filed(threads, c) = Append(threads, t)
      \/ \E p \in 1 .. Len(threads) : Review!Filed(threads, c) = Under(threads, p, c)
  BY <1>1, FiledIs
<1>. QED BY <1>6, <1>7, <1>8

\* The comments up to "n" that answer none.
Roots(cs, n) == {i \in 1 .. n : cs[i].parent = 0}

\* The first loop files those.
LEMMA OpenedFiles ==
  ASSUME NEW cs \in Seq(Comments)
  PROVE  Filing(Review!Opened(cs), cs, Roots(cs, Len(cs)))
<1>. DEFINE Thread(c) == [id |-> c.id, comments |-> <<c>>]
            Body(f, n) == IF n = 0 THEN <<>>
                          ELSE IF cs[n].parent # 0 THEN f[n - 1]
                          ELSE Append(f[n - 1], [id |-> cs[n].id, comments |-> <<cs[n]>>])
            Is(f) == f = [n \in 0 .. Len(cs) |-> Body(f, n)]
            loop == CHOOSE f : Is(f)
<1>1. PICK N \in Nat : N = Len(cs) BY LenProperties
<1>2. \A i \in 1 .. N : cs[i] \in Comments BY <1>1, ElementOfSeq
<1>3. \A i \in 1 .. N : Thread(cs[i]) \in ThreadRecords
  <2>. TAKE i \in 1 .. N
  <2>1. PICK o : o = <<cs[i]>> OBVIOUS
  <2>2. o \in Seq(Comments) /\ cs[i].id \in Names BY <1>2, <2>1 DEF Names
  <2>. QED BY <2>1, <2>2 DEF ThreadRecords
<1>4. \E f : Is(f)
  <2>. DEFINE V == Seq(ThreadRecords)
              h == [x \in (1 .. N) \X V |-> IF cs[x[1]].parent # 0 THEN x[2]
                                            ELSE Append(x[2], Thread(cs[x[1]]))]
  <2>1. <<>> \in V OBVIOUS
  <2>2. h \in [(1 .. N) \X V -> V]
    <3>1. \A x \in (1 .. N) \X V : x[2] \in V /\ Thread(cs[x[1]]) \in ThreadRecords
      BY <1>3
    <3>. HIDE DEF Thread
    <3>2. \A x \in (1 .. N) \X V : Append(x[2], Thread(cs[x[1]])) \in V
      BY <3>1, AppendProperties
    <3>. QED BY <3>1, <3>2
  <2>3. \A i \in 1 .. N, v \in V :
          h[<<i, v>>] = IF cs[i].parent # 0 THEN v ELSE Append(v, Thread(cs[i]))
    OBVIOUS
  <2>. HIDE DEF h, V
  <2>4. PICK k \in [0 .. N -> V] : Runs(k, N, <<>>, h) BY <2>1, <2>2, LoopRuns
  <2>5. ASSUME NEW n \in 0 .. N PROVE k[n] = Body(k, n)
    <3>1. CASE n = 0 BY <2>4, <3>1 DEF Runs
    <3>2. CASE n # 0
      <4>1. n \in 1 .. N /\ n - 1 \in 0 .. N BY <3>2
      <4>2. k[n] = h[<<n, k[n - 1]>>] /\ k[n - 1] \in V BY <2>4, <4>1 DEF Runs
      <4>3. k[n] = IF cs[n].parent # 0 THEN k[n - 1]
                   ELSE Append(k[n - 1], Thread(cs[n]))
        BY <2>3, <4>1, <4>2
      <4>. QED BY <3>2, <4>3
    <3>. QED BY <3>1, <3>2
  <2>. HIDE DEF Body
  <2>8. k = [n \in 0 .. Len(cs) |-> Body(k, n)] BY <1>1, <2>5
  <2>. QED BY <2>8
<1>5. Is(loop) BY <1>4
<1>6. Review!Opened(cs) = loop[N] BY <1>1 DEF Review!Opened
<1>. HIDE DEF loop
<1>7. ASSUME NEW n \in 0 .. N PROVE loop[n] = Body(loop, n)
  <2>. HIDE DEF Body
  <2>. QED BY <1>1, <1>5
<1>. DEFINE S == {m \in Nat : m <= N => Filing(loop[m], cs, Roots(cs, m))}
<1>8. 0 \in S
  <2>7. 0 \in 0 .. N OBVIOUS
  <2>1. loop[0] = <<>> BY <1>7, <2>7
  <2>2. Roots(cs, 0) = {} BY DEF Roots
  <2>3. Bodies(<<>>) = <<>> /\ Len(<<>>) = 0 BY DEF Bodies
  <2>4. All(<<>>) = <<>> BY <2>3 DEF All, Queue!FlattenSeq
  <2>5. Queue!ToSet(<<>>) = {} BY DEF Queue!ToSet
  <2>6. Filing(<<>>, cs, {})
    BY <2>3, <2>4, <2>5, FS_EmptySet DEF Filing
  <2>. QED BY <2>1, <2>2, <2>6
<1>9. ASSUME NEW m \in Nat, m \in S PROVE m + 1 \in S
  <2>. SUFFICES ASSUME m + 1 <= N PROVE Filing(loop[m + 1], cs, Roots(cs, m + 1))
    OBVIOUS
  <2>1. PICK j \in 1 .. N : j = m + 1 OBVIOUS
  <2>2. j - 1 = m /\ j \in 0 .. N /\ j # 0 /\ m <= N BY <2>1
  <2>3. loop[j] = Body(loop, j) BY <1>7, <2>2
  <2>4. Filing(loop[m], cs, Roots(cs, m)) BY <1>9, <2>2
  <2>5. Roots(cs, m) \in SUBSET (1 .. Len(cs)) /\ j \in (1 .. Len(cs)) \ Roots(cs, m)
    BY <1>1, <2>1, <2>2 DEF Roots
  <2>6. CASE cs[j].parent # 0
    <3>1. Roots(cs, j) = Roots(cs, m) BY <2>1, <2>6 DEF Roots
    <3>2. loop[j] = loop[m] BY <2>2, <2>3, <2>6
    <3>. QED BY <2>1, <2>4, <3>1, <3>2
  <2>7. CASE cs[j].parent = 0
    <3>1. Roots(cs, j) = Roots(cs, m) \cup {j} BY <2>1, <2>7 DEF Roots
    <3>2. PICK t : t = [id |-> cs[j].id, comments |-> <<cs[j]>>] OBVIOUS
    <3>3. loop[j] = Append(loop[m], t) BY <2>2, <2>3, <2>7, <3>2
    <3>4. cs[j].id \in Names BY <1>2 DEF Names
    <3>5. Filing(Append(loop[m], t), cs, Roots(cs, m) \cup {j})
      BY <2>4, <2>5, <3>2, <3>4, BeginsThread
    <3>. QED BY <2>1, <3>1, <3>3, <3>5
  <2>. QED BY <2>6, <2>7
<1>. HIDE DEF S
<1>10. Nat \subseteq S BY <1>8, <1>9, NatSetInduction
<1>11. N \in S /\ N <= N BY <1>10
<1>12. Filing(loop[N], cs, Roots(cs, N)) BY <1>11 DEF S
<1>. QED BY <1>1, <1>6, <1>12

\* And the second loop all others.
LEMMA ThreadsFile ==
  ASSUME NEW cs \in Seq(Comments)
  PROVE  \E threads : /\ Filing(threads, cs, 1 .. Len(cs))
                      /\ Review!Threads(cs) = Bodies(threads)
<1>. DEFINE Body(f, n) == IF n = 0 THEN Review!Opened(cs)
                          ELSE IF cs[n].parent = 0 THEN f[n - 1]
                          ELSE Review!Filed(f[n - 1], cs[n])
            Is(f) == f = [n \in 0 .. Len(cs) |-> Body(f, n)]
            filed == CHOOSE f : Is(f)
            roots == Roots(cs, Len(cs))
<1>1. PICK N \in Nat : N = Len(cs) BY LenProperties
<1>2. \A i \in 1 .. N : cs[i] \in Comments BY <1>1, ElementOfSeq
<1>3. Filing(Review!Opened(cs), cs, roots) BY OpenedFiles
<1>4. \E f : Is(f)
  <2>. DEFINE V == Seq(ThreadRecords)
              h == [x \in (1 .. N) \X V |-> IF cs[x[1]].parent = 0 THEN x[2]
                                            ELSE Review!Filed(x[2], cs[x[1]])]
  <2>1. Review!Opened(cs) \in V BY <1>3 DEF Filing
  <2>2. h \in [(1 .. N) \X V -> V]
    <3>1. \A x \in (1 .. N) \X V : x[2] \in V /\ cs[x[1]] \in Comments BY <1>2
    <3>2. \A x \in (1 .. N) \X V : Review!Filed(x[2], cs[x[1]]) \in V
      BY <3>1, FiledType
    <3>. QED BY <3>1, <3>2
  <2>3. \A i \in 1 .. N, v \in V :
          h[<<i, v>>] = IF cs[i].parent = 0 THEN v ELSE Review!Filed(v, cs[i])
    OBVIOUS
  <2>. HIDE DEF h, V
  <2>4. PICK k \in [0 .. N -> V] : Runs(k, N, Review!Opened(cs), h)
    BY <2>1, <2>2, LoopRuns
  <2>5. ASSUME NEW n \in 0 .. N PROVE k[n] = Body(k, n)
    <3>1. CASE n = 0 BY <2>4, <3>1 DEF Runs
    <3>2. CASE n # 0
      <4>1. n \in 1 .. N /\ n - 1 \in 0 .. N BY <3>2
      <4>2. k[n] = h[<<n, k[n - 1]>>] /\ k[n - 1] \in V BY <2>4, <4>1 DEF Runs
      <4>3. k[n] = IF cs[n].parent = 0 THEN k[n - 1] ELSE Review!Filed(k[n - 1], cs[n])
        BY <2>3, <4>1, <4>2
      <4>. QED BY <3>2, <4>3
    <3>. QED BY <3>1, <3>2
  <2>. HIDE DEF Body
  <2>8. k = [n \in 0 .. Len(cs) |-> Body(k, n)] BY <1>1, <2>5
  <2>. QED BY <2>8
<1>5. Is(filed) BY <1>4
<1>6. Review!Threads(cs) = Bodies(filed[N]) BY <1>1 DEF Review!Threads, Bodies
<1>. HIDE DEF filed
<1>7. ASSUME NEW n \in 0 .. N PROVE filed[n] = Body(filed, n)
  <2>. HIDE DEF Body
  <2>. QED BY <1>1, <1>5
<1>. DEFINE S == {m \in Nat : m <= N => Filing(filed[m], cs, roots \cup (1 .. m))}
<1>8. 0 \in S
  <2>1. filed[0] = Review!Opened(cs) BY <1>7
  <2>2. roots \cup (1 .. 0) = roots OBVIOUS
  <2>. QED BY <1>3, <2>1, <2>2
<1>9. ASSUME NEW m \in Nat, m \in S PROVE m + 1 \in S
  <2>. SUFFICES ASSUME m + 1 <= N
                PROVE  Filing(filed[m + 1], cs, roots \cup (1 .. m + 1))
    OBVIOUS
  <2>1. PICK j \in 1 .. N : j = m + 1 OBVIOUS
  <2>2. j - 1 = m /\ j \in 0 .. N /\ j # 0 /\ m <= N BY <2>1
  <2>3. filed[j] = Body(filed, j) BY <1>7, <2>2
  <2>4. Filing(filed[m], cs, roots \cup (1 .. m)) BY <1>9, <2>2
  <2>5. 1 .. j = (1 .. m) \cup {j} /\ j \notin 1 .. m BY <2>1
  <2>6. CASE cs[j].parent = 0
    <3>1. j \in roots BY <1>1, <2>6 DEF Roots
    <3>2. roots \cup (1 .. j) = roots \cup (1 .. m) BY <2>5, <3>1
    <3>3. filed[j] = filed[m] BY <2>2, <2>3, <2>6
    <3>. QED BY <2>1, <2>4, <3>2, <3>3
  <2>7. CASE cs[j].parent # 0
    <3>1. j \notin roots BY <1>1, <2>7 DEF Roots
    <3>2. roots \cup (1 .. j) = (roots \cup (1 .. m)) \cup {j} BY <2>5
    <3>3. filed[j] = Review!Filed(filed[m], cs[j]) BY <2>2, <2>3, <2>7
    <3>4. /\ roots \cup (1 .. m) \in SUBSET (1 .. Len(cs))
          /\ j \in (1 .. Len(cs)) \ (roots \cup (1 .. m))
      BY <1>1, <2>2, <2>5, <3>1 DEF Roots
    <3>5. Filing(Review!Filed(filed[m], cs[j]), cs, (roots \cup (1 .. m)) \cup {j})
      BY <2>4, <2>7, <3>4, FiledFiles
    <3>. QED BY <2>1, <3>2, <3>3, <3>5
  <2>. QED BY <2>6, <2>7
<1>. HIDE DEF S
<1>10. Nat \subseteq S BY <1>8, <1>9, NatSetInduction
<1>11. N \in S /\ N <= N BY <1>10
<1>12. Filing(filed[N], cs, roots \cup (1 .. N)) BY <1>11 DEF S
<1>13. roots \cup (1 .. N) = 1 .. Len(cs) BY <1>1 DEF Roots
<1>. QED BY <1>6, <1>12, <1>13

\* So the threads have what was read, and nothing twice.
LEMMA ThreadsFacts ==
  ASSUME NEW cs \in Seq(Comments)
  PROVE  LET threads == Review!Threads(cs)
         IN  /\ threads \in Seq(Seq(Comments))
             /\ Len(Queue!FlattenSeq(threads)) = Len(cs)
             /\ Queue!ToSet(Queue!FlattenSeq(threads)) = Queue!ToSet(cs)
             /\ \A i \in 1 .. Len(threads) : InThread(threads[i])
<1>1. PICK t : Filing(t, cs, 1 .. Len(cs)) /\ Review!Threads(cs) = Bodies(t)
  BY ThreadsFile
<1>2. t \in Seq(ThreadRecords) BY <1>1 DEF Filing
<1>3. Len(cs) \in Nat /\ DOMAIN cs = 1 .. Len(cs) BY LenProperties
<1>4. Cardinality(1 .. Len(cs)) = Len(cs)
  <2>1. PICK n \in Nat : n = Len(cs) BY <1>3
  <2>2. Cardinality(1 .. n) = IF 1 > n THEN 0 ELSE n - 1 + 1 BY FS_Interval
  <2>. QED BY <2>1, <2>2
<1>5. /\ Bodies(t) \in Seq(Seq(Comments)) /\ Len(Bodies(t)) = Len(t)
      /\ \A i \in 1 .. Len(t) : Bodies(t)[i] = t[i].comments
  BY <1>2, BodiesTypes
<1>6. Len(Queue!FlattenSeq(Bodies(t))) = Len(cs) BY <1>1, <1>4 DEF Filing, All
<1>7. Queue!ToSet(Queue!FlattenSeq(Bodies(t))) = {cs[i] : i \in 1 .. Len(cs)}
  BY <1>1 DEF Filing, All
<1>8. Queue!ToSet(cs) = {cs[i] : i \in 1 .. Len(cs)} BY <1>3 DEF Queue!ToSet
<1>9. \A i \in 1 .. Len(t) : InThread(Bodies(t)[i]) BY <1>1, <1>5 DEF Filing
<1>. QED BY <1>1, <1>5, <1>6, <1>7, <1>8, <1>9

\* However comments answer each other, every comment read is in the threads
\* once, and only answers follow a thread's head (mapReviewThreads).
THEOREM CommentsAreFiled == Spec => []EveryCommentIsInOneThread
<1>1. VInv => EveryCommentIsInOneThread
  <2>. SUFFICES ASSUME VInv, serves = "reviews.get"
                PROVE  Review!EveryCommentIsInOneThread
    BY DEF EveryCommentIsInOneThread
  <2>1. PICK cs \in Seq(Comments) : cs = read["threads"]
    BY DEF VInv, ReviewInv, ReviewTypes
  <2>2. PICK threads : threads = Review!Threads(cs) OBVIOUS
  <2>3. PICK all : all = Queue!FlattenSeq(threads) OBVIOUS
  <2>4. /\ Len(all) = Len(cs) /\ Queue!ToSet(all) = Queue!ToSet(cs)
        /\ \A i \in 1 .. Len(threads) : InThread(threads[i])
    BY <2>2, <2>3, ThreadsFacts
  <2>5. /\ Review!FlattenSeq(threads) = all
        /\ Review!ToSet(all) = Queue!ToSet(all) /\ Review!ToSet(cs) = Queue!ToSet(cs)
    BY <2>3, SameFlatten
  <2>6. \A i \in 1 .. Len(threads) : \A j \in 2 .. Len(threads[i]) :
          threads[i][j].parent # 0
    BY <2>4 DEF InThread
  <2>. QED
    BY <2>1, <2>2, <2>4, <2>5, <2>6 DEF Review!EveryCommentIsInOneThread
<1>. QED BY <1>1, VInvHolds, PTL

Limit == MaxReviewViewEntries
Least(a, b) == IF a < b THEN a ELSE b

\* The first sequences have no more than all, and one each if none is empty.
LEMMA FirstCounts ==
  ASSUME NEW E, NEW seqs \in Seq(Seq(E)), NEW n \in 0 .. Len(seqs)
  PROVE  /\ Len(First(seqs, n)) \in Nat
         /\ Len(First(seqs, n)) <= Len(Queue!FlattenSeq(seqs))
         /\ (\A i \in 1 .. Len(seqs) : seqs[i] # <<>>) => n <= Len(First(seqs, n))
<1>1. PICK N \in Nat : N = Len(seqs) BY LenProperties
<1>2. \A i \in 1 .. N : seqs[i] \in Seq(E) BY <1>1, ElementOfSeq
<1>3. \A i \in 0 .. N : First(seqs, i) \in Seq(E) BY <1>1, FirstIs
<1>4. \A i \in 0 .. N : Len(First(seqs, i)) \in Nat BY <1>3, LenProperties
<1>5. Len(First(seqs, n)) <= Len(Queue!FlattenSeq(seqs))
  <2>1. Begins(First(seqs, n), Queue!FlattenSeq(seqs), E) BY FirstBegins
  <2>2. PICK r \in Seq(E) : Queue!FlattenSeq(seqs) = Cat(First(seqs, n), r)
    BY <2>1 DEF Begins
  <2>3. PICK f \in Seq(E) : f = First(seqs, n) BY <1>1, <1>3
  <2>4. Len(Cat(f, r)) = Len(f) + Len(r) BY CatFacts
  <2>5. Len(f) \in Nat /\ Len(r) \in Nat BY LenProperties
  <2>. QED BY <2>2, <2>3, <2>4, <2>5
<1>6. ASSUME \A i \in 1 .. N : seqs[i] # <<>> PROVE n <= Len(First(seqs, n))
  <2>. DEFINE S == {m \in Nat : m <= N => m <= Len(First(seqs, m))}
  <2>1. 0 \in S BY <1>4
  <2>2. ASSUME NEW m \in Nat, m \in S PROVE m + 1 \in S
    <3>. SUFFICES ASSUME m + 1 <= N PROVE m + 1 <= Len(First(seqs, m + 1)) OBVIOUS
    <3>1. PICK k \in 1 .. N : k = m + 1 OBVIOUS
    <3>2. k - 1 = m /\ m \in 0 .. N /\ m <= N BY <3>1
    <3>3. First(seqs, k) = First(seqs, k - 1) \o seqs[k] BY <1>1, FirstIs
    <3>4. PICK f \in Seq(E) : f = First(seqs, m) BY <1>3, <3>2
    <3>5. PICK s \in Seq(E) : s = seqs[k] BY <1>2
    <3>6. First(seqs, k) = Cat(f, s) BY <3>2, <3>3, <3>4, <3>5 DEF Cat
    <3>7. Len(Cat(f, s)) = Len(f) + Len(s) BY CatFacts
    <3>8. s # <<>> BY <1>6, <3>5
    <3>9. Len(s) \in Nat /\ Len(s) # 0 BY <3>8, LenProperties, EmptySeq
    <3>10. m <= Len(f) /\ Len(f) \in Nat BY <2>2, <3>2, <3>4, LenProperties
    <3>11. m + 1 <= Len(Cat(f, s)) BY <3>7, <3>9, <3>10
    <3>. QED BY <3>1, <3>6, <3>11
  <2>. HIDE DEF S
  <2>3. Nat \subseteq S BY <2>1, <2>2, NatSetInduction
  <2>4. n \in Nat /\ n <= N BY <1>1
  <2>. QED BY <2>3, <2>4 DEF S
<1>7. Len(First(seqs, n)) \in Nat BY <1>1, <1>4
<1>. QED BY <1>1, <1>5, <1>6, <1>7

\* What the loop over a thread's comments has, and the one over the threads.
Showing == [shown : Seq(Comments), count : 0 .. Limit, cut : BOOLEAN]
Viewing == [shown : Seq(Seq(Comments)), count : 0 .. Limit, cut : BOOLEAN]

\* A comment is shown and counted, or left out and said to be.
LEMMA CommentShown ==
  ASSUME NEW v \in Showing, NEW c \in Comments
  PROVE  /\ Review!ShowComment(v, c) \in Showing
         /\ \/ Review!ShowComment(v, c) =
                 [shown |-> v.shown, count |-> v.count, cut |-> TRUE]
            \/ Review!ShowComment(v, c) =
                 [shown |-> Append(v.shown, c), count |-> v.count + 1, cut |-> v.cut]
<1>1. /\ v.shown \in Seq(Comments) /\ v.count \in 0 .. Limit /\ v.cut \in BOOLEAN
      /\ Limit \in Nat
  BY ConstantsAssumption DEF Showing, Limit
<1>2. Append(v.shown, c) \in Seq(Comments) BY <1>1, AppendProperties
<1>3. CASE v.count = MaxReviewViewEntries
  <2>1. Review!ShowComment(v, c) = [shown |-> v.shown, count |-> v.count, cut |-> TRUE]
    BY <1>3 DEF Review!ShowComment
  <2>. QED BY <1>1, <2>1 DEF Showing
<1>4. CASE v.count # MaxReviewViewEntries
  <2>1. Review!ShowComment(v, c) =
          [shown |-> Append(v.shown, c), count |-> v.count + 1, cut |-> v.cut]
    BY <1>4 DEF Review!ShowComment
  <2>2. v.count + 1 \in 0 .. Limit BY <1>1, <1>4 DEF Limit
  <2>. QED BY <1>1, <1>2, <2>1, <2>2 DEF Showing
<1>. QED BY <1>3, <1>4

\* "w" has, after "n" comments of thread "t" from "v", counted what it shows of
\* them: the first ones, and all unless it says otherwise.
Shows(w, v, t, n) ==
  /\ w \in Showing
  /\ w.count = v.count + Len(w.shown) /\ Len(w.shown) <= n
  /\ ~ w.cut => ~ v.cut /\ w.shown = SubSeq(t, 1, n)
  /\ w.cut => v.cut \/ Len(w.shown) < n

\* One comment more.
LEMMA OneMoreShown ==
  ASSUME NEW t \in Seq(Comments), NEW v \in Viewing, NEW n \in 1 .. Len(t),
         NEW w, Shows(w, v, t, n - 1)
  PROVE  Shows(Review!ShowComment(w, t[n]), v, t, n)
<1>1. Len(t) \in Nat /\ t[n] \in Comments BY LenProperties, ElementOfSeq
<1>2. w \in Showing BY DEF Shows
<1>3. /\ w.shown \in Seq(Comments) /\ w.count \in 0 .. Limit /\ w.cut \in BOOLEAN
      /\ v.count \in 0 .. Limit /\ Limit \in Nat
  BY <1>2, ConstantsAssumption DEF Showing, Viewing, Limit
<1>4. PICK l \in Nat : l = Len(w.shown) BY <1>3, LenProperties
<1>5. PICK x : x = Review!ShowComment(w, t[n]) OBVIOUS
<1>6. x \in Showing BY <1>1, <1>2, <1>5, CommentShown
<1>7. CASE x = [shown |-> w.shown, count |-> w.count, cut |-> TRUE]
  <2>1. x.shown = w.shown /\ x.count = w.count /\ x.cut = TRUE BY <1>7
  <2>2. l <= n - 1 /\ w.count = v.count + l BY <1>4 DEF Shows
  <2>3. l < n /\ l <= n BY <1>1, <2>2
  <2>. QED BY <1>4, <1>5, <1>6, <2>1, <2>2, <2>3 DEF Shows
<1>8. CASE x = [shown |-> Append(w.shown, t[n]), count |-> w.count + 1, cut |-> w.cut]
  <2>1. x.shown = Append(w.shown, t[n]) /\ x.count = w.count + 1 /\ x.cut = w.cut
    BY <1>8
  <2>2. PICK s \in Seq(Comments) : s = w.shown BY <1>3
  <2>3. PICK a : a = Append(s, t[n]) OBVIOUS
  <2>4. Len(a) = l + 1 /\ a = s \o <<t[n]>>
    BY <1>1, <1>4, <2>2, <2>3, AppendProperties, AppendIsConcat
  <2>5. l <= n - 1 /\ w.count = v.count + l BY <1>4 DEF Shows
  <2>6. x.count = v.count + (l + 1) /\ l + 1 <= n
    <3>1. PICK c \in Nat : c = v.count BY <1>3
    <3>2. (c + l) + 1 = c + (l + 1) OBVIOUS
    <3>3. l + 1 <= n BY <1>1, <2>5
    <3>. QED BY <2>1, <2>5, <3>1, <3>2, <3>3
  <2>7. ASSUME ~ w.cut PROVE ~ v.cut /\ a = SubSeq(t, 1, n)
    <3>1. ~ v.cut /\ s = SubSeq(t, 1, n - 1) BY <2>2, <2>7 DEF Shows
    <3>2. SubSeq(t, 1, n) = SubSeq(t, 1, n - 1) \o <<t[n]>>
      <4>1. 1 \in 1 .. Len(t) /\ n \in 1 .. Len(t) /\ 1 <= n BY <1>1
      <4>. QED BY <4>1, SubSeqRecursiveSecond
    <3>. QED BY <2>4, <3>1, <3>2
  <2>8. w.cut => v.cut \/ l + 1 < n
    BY <1>1, <1>4 DEF Shows
  <2>. QED BY <1>5, <1>6, <2>1, <2>2, <2>3, <2>4, <2>6, <2>7, <2>8 DEF Shows
<1>. QED BY <1>1, <1>2, <1>5, <1>7, <1>8, CommentShown

\* A thread of the view: its first comments, counted.
LEMMA ThreadShown ==
  ASSUME NEW t \in Seq(Comments), NEW v \in Viewing
  PROVE  \E w : /\ Shows(w, v, t, Len(t))
                /\ Review!ShowThread(v, t) =
                     [shown |-> Append(v.shown, w.shown), count |-> w.count,
                      cut |-> w.cut]
<1>. DEFINE none == [shown |-> <<>>, count |-> v.count, cut |-> v.cut]
            Body(f, n) == IF n = 0 THEN [shown |-> <<>>, count |-> v.count, cut |-> v.cut]
                          ELSE Review!ShowComment(f[n - 1], t[n])
            Is(f) == f = [n \in 0 .. Len(t) |-> Body(f, n)]
            loop == CHOOSE f : Is(f)
<1>1. PICK N \in Nat : N = Len(t) BY LenProperties
<1>2. \A i \in 1 .. N : t[i] \in Comments BY <1>1, ElementOfSeq
<1>3. none \in Showing
  <2>1. v.count \in 0 .. Limit /\ v.cut \in BOOLEAN /\ <<>> \in Seq(Comments)
    BY DEF Viewing
  <2>. QED BY <2>1 DEF Showing
<1>4. \E f : Is(f)
  <2>. DEFINE h == [x \in (1 .. N) \X Showing |-> Review!ShowComment(x[2], t[x[1]])]
  <2>1. h \in [(1 .. N) \X Showing -> Showing]
    <3>1. \A x \in (1 .. N) \X Showing : x[2] \in Showing /\ t[x[1]] \in Comments
      BY <1>2
    <3>2. \A x \in (1 .. N) \X Showing : Review!ShowComment(x[2], t[x[1]]) \in Showing
      BY <3>1, CommentShown
    <3>. QED BY <3>2
  <2>2. \A i \in 1 .. N, x \in Showing : h[<<i, x>>] = Review!ShowComment(x, t[i])
    OBVIOUS
  <2>. HIDE DEF h, none
  <2>3. PICK k \in [0 .. N -> Showing] : Runs(k, N, none, h) BY <1>3, <2>1, LoopRuns
  <2>4. ASSUME NEW n \in 0 .. N PROVE k[n] = Body(k, n)
    <3>1. CASE n = 0 BY <2>3, <3>1 DEF Runs, none
    <3>2. CASE n # 0
      <4>1. n \in 1 .. N /\ n - 1 \in 0 .. N BY <3>2
      <4>2. k[n] = h[<<n, k[n - 1]>>] /\ k[n - 1] \in Showing BY <2>3, <4>1 DEF Runs
      <4>3. k[n] = Review!ShowComment(k[n - 1], t[n]) BY <2>2, <4>1, <4>2
      <4>. QED BY <3>2, <4>3
    <3>. QED BY <3>1, <3>2
  <2>. HIDE DEF Body
  <2>5. k = [n \in 0 .. Len(t) |-> Body(k, n)] BY <1>1, <2>4
  <2>. QED BY <2>5
<1>5. Is(loop) BY <1>4
<1>6. Review!ShowThread(v, t) =
        [shown |-> Append(v.shown, loop[N].shown), count |-> loop[N].count,
         cut |-> loop[N].cut]
  BY <1>1 DEF Review!ShowThread
<1>. HIDE DEF loop, none
<1>7. ASSUME NEW n \in 0 .. N PROVE loop[n] = Body(loop, n)
  <2>. HIDE DEF Body
  <2>. QED BY <1>1, <1>5
<1>. DEFINE S == {m \in Nat : m <= N => Shows(loop[m], v, t, m)}
<1>8. 0 \in S
  <2>1. 0 \in 0 .. N OBVIOUS
  <2>2. loop[0] = none BY <1>7, <2>1 DEF none
  <2>3. /\ none.shown = <<>> /\ none.count = v.count /\ none.cut = v.cut
        /\ v.count \in Nat
    BY ConstantsAssumption DEF none, Viewing, Limit
  <2>4. SubSeq(t, 1, 0) = <<>> BY SubSeqEmpty
  <2>5. Len(<<>>) = 0 OBVIOUS
  <2>6. Shows(none, v, t, 0) BY <1>3, <2>3, <2>4, <2>5 DEF Shows
  <2>. QED BY <2>2, <2>6
<1>9. ASSUME NEW m \in Nat, m \in S PROVE m + 1 \in S
  <2>. SUFFICES ASSUME m + 1 <= N PROVE Shows(loop[m + 1], v, t, m + 1) OBVIOUS
  <2>1. PICK j \in 1 .. N : j = m + 1 OBVIOUS
  <2>2. j - 1 = m /\ j \in 0 .. N /\ j # 0 /\ m <= N BY <2>1
  <2>3. loop[j] = Review!ShowComment(loop[m], t[j]) BY <1>7, <2>2
  <2>4. Shows(loop[m], v, t, j - 1) BY <1>9, <2>2
  <2>5. j \in 1 .. Len(t) BY <1>1
  <2>6. Shows(Review!ShowComment(loop[m], t[j]), v, t, j) BY <2>4, <2>5, OneMoreShown
  <2>. QED BY <2>1, <2>3, <2>6
<1>. HIDE DEF S
<1>10. Nat \subseteq S BY <1>8, <1>9, NatSetInduction
<1>11. N \in S /\ N <= N BY <1>10
<1>12. Shows(loop[N], v, t, N) BY <1>11 DEF S
<1>. QED BY <1>1, <1>6, <1>12

\* It goes on counting.
LEMMA ShowThreadType ==
  ASSUME NEW t \in Seq(Comments), NEW v \in Viewing
  PROVE  Review!ShowThread(v, t) \in Viewing
<1>1. PICK w : /\ Shows(w, v, t, Len(t))
               /\ Review!ShowThread(v, t) =
                    [shown |-> Append(v.shown, w.shown), count |-> w.count,
                     cut |-> w.cut]
  BY ThreadShown
<1>2. /\ w.shown \in Seq(Comments) /\ w.count \in 0 .. Limit /\ w.cut \in BOOLEAN
      /\ v.shown \in Seq(Seq(Comments))
  BY <1>1 DEF Shows, Showing, Viewing
<1>3. Append(v.shown, w.shown) \in Seq(Seq(Comments)) BY <1>2, AppendProperties
<1>. QED BY <1>1, <1>2, <1>3 DEF Viewing

\* "w" has, after the first "n" of the threads, counted what it shows of them,
\* and says whether that is all.
Views(w, threads, n) ==
  /\ w \in Viewing /\ Len(w.shown) = n
  /\ w.count = Len(Queue!FlattenSeq(w.shown)) /\ w.count <= Len(First(threads, n))
  /\ ~ w.cut => \A i \in 1 .. n : w.shown[i] = threads[i]
  /\ w.cut => w.count < Len(First(threads, n))

\* One thread more.
LEMMA OneThreadMore ==
  ASSUME NEW threads \in Seq(Seq(Comments)), NEW n \in 1 .. Len(threads),
         NEW w, Views(w, threads, n - 1)
  PROVE  Views(Review!ShowThread(w, threads[n]), threads, n)
<1>1. Len(threads) \in Nat BY LenProperties
<1>2. PICK t \in Seq(Comments) : t = threads[n] BY ElementOfSeq
<1>3. w \in Viewing BY DEF Views
<1>4. /\ w.shown \in Seq(Seq(Comments)) /\ w.count \in 0 .. Limit /\ w.cut \in BOOLEAN
      /\ Limit \in Nat
  BY <1>3, ConstantsAssumption DEF Viewing, Limit
<1>5. PICK x : /\ Shows(x, w, t, Len(t))
               /\ Review!ShowThread(w, t) =
                    [shown |-> Append(w.shown, x.shown), count |-> x.count,
                     cut |-> x.cut]
  BY <1>3, ThreadShown
<1>6. x.shown \in Seq(Comments) /\ x.count \in 0 .. Limit /\ x.cut \in BOOLEAN
  BY <1>5 DEF Shows, Showing
<1>7. PICK s \in Seq(Seq(Comments)) : s = w.shown BY <1>4
<1>8. PICK y \in Seq(Comments) : y = x.shown BY <1>6
<1>9. PICK l \in Nat : l = Len(y) BY LenProperties
<1>10. PICK b \in Nat : b = Len(t) BY LenProperties
<1>11. PICK z : z = Append(s, y) OBVIOUS
<1>12. /\ z \in Seq(Seq(Comments)) /\ Len(z) = Len(s) + 1
       /\ \A i \in 1 .. Len(s) : z[i] = s[i]
       /\ z[Len(s) + 1] = y
  BY <1>11, AppendProperties
<1>13. Len(s) = n - 1 BY <1>7 DEF Views
<1>14. Len(z) = n /\ z[n] = y /\ \A i \in 1 .. n - 1 : z[i] = s[i]
  <2>1. (n - 1) + 1 = n BY <1>1
  <2>2. Len(z) = n /\ z[n] = y BY <1>12, <1>13, <2>1
  <2>3. \A i \in 1 .. n - 1 : z[i] = s[i] BY <1>12, <1>13
  <2>. QED BY <2>2, <2>3
<1>15. PICK u : u = Review!ShowThread(w, t) OBVIOUS
<1>16. u.shown = z /\ u.count = x.count /\ u.cut = x.cut /\ u \in Viewing
  <2>1. u = [shown |-> z, count |-> x.count, cut |-> x.cut]
    BY <1>5, <1>7, <1>8, <1>11, <1>15
  <2>. QED BY <1>6, <1>12, <2>1 DEF Viewing
<1>17. PICK f \in Seq(Comments) : f = Queue!FlattenSeq(s) BY FlattenType
<1>18. PICK c \in Nat : c = Len(f) /\ c = w.count
  <2>1. Len(f) \in Nat BY LenProperties
  <2>. QED BY <1>7, <1>17, <2>1 DEF Views
<1>19. Queue!FlattenSeq(z) = Cat(f, y) BY <1>11, <1>17, FlattenOfOneMore
<1>20. Len(Cat(f, y)) = c + l BY <1>9, <1>18, CatFacts
<1>21. x.count = c + l /\ l <= b BY <1>5, <1>8, <1>9, <1>10, <1>18 DEF Shows
<1>22. PICK g \in Seq(Comments) : g = First(threads, n - 1)
  <2>1. n - 1 \in 0 .. Len(threads) BY <1>1
  <2>. QED BY <2>1, FirstIs
<1>23. PICK a \in Nat : a = Len(g) /\ c <= a /\ (w.cut => c < a)
  <2>1. Len(g) \in Nat BY LenProperties
  <2>. QED BY <1>18, <1>22, <2>1 DEF Views
<1>24. Len(First(threads, n)) = a + b
  <2>1. First(threads, n) = Cat(g, t) BY <1>2, <1>22, FirstIs DEF Cat
  <2>2. Len(Cat(g, t)) = Len(g) + Len(t) BY CatFacts
  <2>. QED BY <1>10, <1>23, <2>1, <2>2
<1>25. ASSUME ~ x.cut PROVE \A i \in 1 .. n : z[i] = threads[i]
  <2>1. ~ w.cut /\ y = SubSeq(t, 1, Len(t)) BY <1>5, <1>8, <1>25 DEF Shows
  <2>2. y = t BY <2>1, SubSeqFull
  <2>3. \A i \in 1 .. n - 1 : s[i] = threads[i] BY <1>7, <2>1 DEF Views
  <2>. TAKE i \in 1 .. n
  <2>4. i = n \/ i \in 1 .. n - 1 BY <1>1
  <2>. QED BY <1>2, <1>14, <2>2, <2>3, <2>4
<1>26. ASSUME x.cut PROVE c + l < a + b
  <2>1. w.cut \/ l < b BY <1>5, <1>8, <1>9, <1>10, <1>26 DEF Shows
  <2>. QED BY <1>21, <1>23, <2>1
<1>27. c + l <= a + b BY <1>21, <1>23
<1>28. Views(u, threads, n)
  BY <1>14, <1>16, <1>19, <1>20, <1>21, <1>24, <1>25, <1>26, <1>27 DEF Views
<1>. QED BY <1>2, <1>15, <1>28

\* The view of some threads.
LEMMA Viewed ==
  ASSUME NEW threads \in Seq(Seq(Comments)), NEW N \in Nat, N = Len(threads)
  PROVE  LET L == Least(N, Limit)
         IN  L \in 0 .. N /\ Views(Review!ThreadsView(threads), threads, L)
<1>1. Limit \in Nat BY ConstantsAssumption DEF Limit
<1>2. PICK L \in 0 .. N : L = Least(N, Limit) BY <1>1 DEF Least
<1>3. PICK some : some = Review!Cut(threads) OBVIOUS
<1>4. /\ some \in Seq(Seq(Comments)) /\ Len(some) = L
      /\ \A i \in 1 .. L : some[i] = threads[i]
  <2>1. some = Some(threads, 1, L)
    BY <1>2, <1>3 DEF Review!Cut, Review!Smaller, Least, Limit, Some
  <2>2. PICK z \in 0 .. Len(threads) : z = 0 OBVIOUS
  <2>3. L \in z .. Len(threads) BY <2>2
  <2>. DEFINE p == Some(threads, z + 1, L)
  <2>4. p \in Seq(Seq(Comments)) /\ Len(p) = L - z BY <2>3, SomeFacts
  <2>5. \A i \in 1 .. L - z : p[i] = threads[z + i] BY <2>3, SomeFacts
  <2>6. p = some /\ L - z = L /\ \A i \in 1 .. L : z + i = i BY <2>1, <2>2
  <2>. HIDE DEF p
  <2>. QED BY <2>4, <2>5, <2>6
<1>. DEFINE none == [shown |-> <<>>, count |-> 0, cut |-> FALSE]
            Body(f, n) == IF n = 0 THEN [shown |-> <<>>, count |-> 0, cut |-> FALSE]
                          ELSE Review!ShowThread(f[n - 1], some[n])
            Is(f) == f = [n \in 0 .. Len(some) |-> Body(f, n)]
            loop == CHOOSE f : Is(f)
<1>5. none \in Viewing
  <2>1. <<>> \in Seq(Seq(Comments)) /\ 0 \in 0 .. Limit BY <1>1
  <2>. QED BY <2>1 DEF Viewing
<1>6. \E f : Is(f)
  <2>. DEFINE h == [x \in (1 .. L) \X Viewing |-> Review!ShowThread(x[2], some[x[1]])]
  <2>1. h \in [(1 .. L) \X Viewing -> Viewing]
    <3>1. \A x \in (1 .. L) \X Viewing : x[2] \in Viewing /\ some[x[1]] \in Seq(Comments)
      BY <1>4, ElementOfSeq
    <3>2. \A x \in (1 .. L) \X Viewing : Review!ShowThread(x[2], some[x[1]]) \in Viewing
      BY <3>1, ShowThreadType
    <3>. QED BY <3>2
  <2>2. \A i \in 1 .. L, x \in Viewing : h[<<i, x>>] = Review!ShowThread(x, some[i])
    OBVIOUS
  <2>. HIDE DEF h, none
  <2>3. L \in Nat OBVIOUS
  <2>4. PICK k \in [0 .. L -> Viewing] : Runs(k, L, none, h)
    BY <1>5, <2>1, <2>3, LoopRuns
  <2>5. ASSUME NEW n \in 0 .. L PROVE k[n] = Body(k, n)
    <3>1. CASE n = 0 BY <2>4, <3>1 DEF Runs, none
    <3>2. CASE n # 0
      <4>1. n \in 1 .. L /\ n - 1 \in 0 .. L BY <3>2
      <4>2. k[n] = h[<<n, k[n - 1]>>] /\ k[n - 1] \in Viewing BY <2>4, <4>1 DEF Runs
      <4>3. k[n] = Review!ShowThread(k[n - 1], some[n]) BY <2>2, <4>1, <4>2
      <4>. QED BY <3>2, <4>3
    <3>. QED BY <3>1, <3>2
  <2>. HIDE DEF Body
  <2>6. k = [n \in 0 .. Len(some) |-> Body(k, n)] BY <1>4, <2>5
  <2>. QED BY <2>6
<1>7. Is(loop) BY <1>6
<1>8. Review!ThreadsView(threads) = loop[L]
  BY <1>3, <1>4 DEF Review!ThreadsView
<1>. HIDE DEF loop, none
<1>9. ASSUME NEW n \in 0 .. L PROVE loop[n] = Body(loop, n)
  <2>. HIDE DEF Body
  <2>. QED BY <1>4, <1>7
<1>. DEFINE S == {m \in Nat : m <= L => Views(loop[m], threads, m)}
<1>10. 0 \in S
  <2>1. 0 \in 0 .. L OBVIOUS
  <2>2. loop[0] = none BY <1>9, <2>1 DEF none
  <2>3. none.shown = <<>> /\ none.count = 0 /\ none.cut = FALSE BY DEF none
  <2>4. First(threads, 0) = <<>> BY FirstIs
  <2>5. Len(<<>>) = 0 OBVIOUS
  <2>6. Queue!FlattenSeq(<<>>) = <<>> BY <2>5 DEF Queue!FlattenSeq
  <2>7. Views(none, threads, 0) BY <1>5, <2>3, <2>4, <2>5, <2>6 DEF Views
  <2>. QED BY <2>2, <2>7
<1>11. ASSUME NEW m \in Nat, m \in S PROVE m + 1 \in S
  <2>. SUFFICES ASSUME m + 1 <= L PROVE Views(loop[m + 1], threads, m + 1) OBVIOUS
  <2>1. PICK j \in 1 .. L : j = m + 1 OBVIOUS
  <2>2. j - 1 = m /\ j \in 0 .. L /\ j # 0 /\ m <= L /\ j \in 1 .. Len(threads)
    BY <1>2, <2>1
  <2>3. loop[j] = Review!ShowThread(loop[m], threads[j]) BY <1>4, <1>9, <2>2
  <2>4. Views(loop[m], threads, j - 1) BY <1>11, <2>2
  <2>5. Views(Review!ShowThread(loop[m], threads[j]), threads, j)
    BY <2>2, <2>4, OneThreadMore
  <2>. QED BY <2>1, <2>3, <2>5
<1>. HIDE DEF S
<1>12. Nat \subseteq S BY <1>10, <1>11, NatSetInduction
<1>13. L \in S /\ L <= L
  <2>1. L \in Nat OBVIOUS
  <2>. QED BY <1>12, <2>1
<1>14. Views(loop[L], threads, L) BY <1>13 DEF S
<1>. QED BY <1>2, <1>8, <1>14

\* A view that is said to be cut has fewer comments, another has all.
LEMMA CutIsSaid ==
  ASSUME NEW threads \in Seq(Seq(Comments)),
         \A i \in 1 .. Len(threads) : threads[i] # <<>>,
         NEW view, view = Review!ThreadsView(threads).shown
  PROVE  /\ Review!ThreadsTruncated(threads) <=>
              Queue!FlattenSeq(view) # Queue!FlattenSeq(threads)
         /\ Len(Queue!FlattenSeq(view)) <= Limit
<1>1. PICK N \in Nat : N = Len(threads) BY LenProperties
<1>2. Limit \in Nat BY ConstantsAssumption DEF Limit
<1>3. PICK w : w = Review!ThreadsView(threads) OBVIOUS
<1>4. PICK L \in 0 .. N : L = Least(N, Limit) /\ Views(w, threads, L)
  BY <1>1, <1>3, Viewed
<1>5. /\ w \in Viewing /\ w.shown = view /\ Len(view) = L
      /\ w.count = Len(Queue!FlattenSeq(view))
  BY <1>3, <1>4 DEF Views
<1>6. view \in Seq(Seq(Comments)) /\ w.count \in 0 .. Limit /\ w.cut \in BOOLEAN
  BY <1>5 DEF Viewing
<1>7. PICK has \in Nat : has = Len(Queue!FlattenSeq(threads))
  <2>1. Queue!FlattenSeq(threads) \in Seq(Comments) BY FlattenType
  <2>. QED BY <2>1, LenProperties
<1>8. Review!ThreadsTruncated(threads) <=> w.cut \/ N > L
  BY <1>1, <1>3, <1>5 DEF Review!ThreadsTruncated
<1>9. PICK a \in Nat : a = Len(First(threads, L)) /\ a <= has
  BY <1>1, <1>7, FirstCounts
<1>10. ASSUME w.cut PROVE w.count < has
  <2>1. w.count < a BY <1>4, <1>9, <1>10 DEF Views
  <2>. QED BY <1>2, <1>6, <1>9, <2>1
<1>11. ASSUME N > L PROVE w.count < has
  <2>1. Limit < N BY <1>2, <1>4, <1>11 DEF Least
  <2>2. N \in 0 .. Len(threads) BY <1>1
  <2>3. /\ N <= Len(First(threads, N)) /\ Len(First(threads, N)) <= has
        /\ Len(First(threads, N)) \in Nat
    BY <1>7, <2>2, FirstCounts
  <2>. QED BY <1>2, <1>6, <2>1, <2>3
<1>12. ASSUME ~ w.cut, ~ (N > L) PROVE view = threads
  <2>1. L = N BY <1>12
  <2>2. \A i \in 1 .. L : view[i] = threads[i] BY <1>4, <1>5, <1>12 DEF Views
  <2>. QED BY <1>1, <1>5, <1>6, <2>1, <2>2, SeqEqual
<1>13. w.count < has => Queue!FlattenSeq(view) # Queue!FlattenSeq(threads)
  BY <1>2, <1>5, <1>6, <1>7
<1>14. Len(Queue!FlattenSeq(view)) <= Limit BY <1>2, <1>5, <1>6
<1>. QED BY <1>8, <1>10, <1>11, <1>12, <1>13, <1>14

\* What the view leaves out of the threads it says, and of no other; the limit
\* of comments is all threads' together (reviewView).
THEOREM CutsAreShown == Spec => []CutsAreSaid
<1>1. VInv => CutsAreSaid
  <2>. SUFFICES ASSUME VInv, serves = "reviews.get" PROVE Review!CutsAreSaid
    BY DEF CutsAreSaid
  <2>1. PICK cs \in Seq(Comments) : cs = read["threads"]
    BY DEF VInv, ReviewInv, ReviewTypes
  <2>2. PICK threads : threads = Review!Threads(cs) OBVIOUS
  <2>3. threads \in Seq(Seq(Comments)) /\ \A i \in 1 .. Len(threads) : threads[i] # <<>>
    BY <2>2, ThreadsFacts DEF InThread
  <2>4. PICK view : view = Review!ThreadsView(threads).shown OBVIOUS
  <2>5. /\ Review!ThreadsTruncated(threads) <=>
             Queue!FlattenSeq(view) # Queue!FlattenSeq(threads)
        /\ Len(Queue!FlattenSeq(view)) <= Limit
    BY <2>3, <2>4, CutIsSaid
  <2>6. /\ Review!FlattenSeq(view) = Queue!FlattenSeq(view)
        /\ Review!FlattenSeq(threads) = Queue!FlattenSeq(threads)
    BY SameFlatten
  <2>. QED BY <2>1, <2>2, <2>4, <2>5, <2>6 DEF Review!CutsAreSaid, Limit
<1>. QED BY <1>1, VInvHolds, PTL
=============================================================================
