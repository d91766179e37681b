------------------------------ MODULE Workflows -------------------------------
(***************************************************************************)
(* HandleAction of internal/plugin/workflows.go, for the actions that read *)
(* from and write to a Bitbucket provider and keep nothing in the plugin:  *)
(* a request goes to the handler of its action, modelled by ReviewAction,  *)
(* PullRequestQueue or ReviewRead.                                         *)
(*                                                                         *)
(* These handlers share no state of the plugin; they meet at the provider, *)
(* where each module lets other people change what its handler reads.  So  *)
(* a behaviour serves one action, to as many requests as its module has,   *)
(* and the variables of the other handlers are None.  A variable of one    *)
(* name in two modules is the handler's that serves.                       *)
(***************************************************************************)
EXTENDS Naturals, SequencesExt

CONSTANTS
  Requests, MaxEdits, MaxRepos, MaxPaths, Attempts,      \* ReviewAction
  Repos, MaxOpen, Limits, PageSizes, MaxHops,            \* PullRequestQueue
  MaxChanges, MaxShown,
  Projections, MaxListed, MaxStray, Sizes,               \* ReviewRead
  MaxReviewPages, MaxReviewEntries, MaxReviewViewEntries,
  MaxPushes, MaxComments,
  Honesty, None

ASSUME ConstantsAssumption ==
  /\ {MaxRepos, MaxPaths, Attempts} \subseteq Nat \ {0}
  /\ {MaxEdits, MaxOpen, MaxHops, MaxChanges, MaxShown, MaxListed,
      MaxStray, MaxReviewPages, MaxReviewEntries, MaxReviewViewEntries,
      MaxPushes, MaxComments} \subseteq Nat
  /\ Limits \cup PageSizes \cup Sizes \subseteq Nat \ {0}
  /\ Honesty \subseteq BOOLEAN
  \* The repositories are listed by their identities, each once.
  /\ Repos \in Seq(ToSet(Repos)) /\ IsInjective(Repos)
  \* None is no repository, no page, no position and no pull request.
  /\ None \notin ToSet(Repos) \cup [group : Nat, start : Nat]
  /\ None \notin [repo : ToSet(Repos), page : [group : Nat, start : Nat],
                  offset : Nat]
  /\ None \notin [repo : Nat, version : Nat, carries : SUBSET Requests]

VARIABLES
  serves,                                        \* the action
  product, pc, seen, result, honest, listed,     \* of more than one handler
  where, pr, edits, kind, tries, next, path, moved, missing, landed,
  asked, limit, size, listing, present, opened, merged, at, passed, hops, got,
  after, cursor, shown,
  projection, comments, pushes, commented, start, pages, read

Action == INSTANCE ReviewAction
Queue == INSTANCE PullRequestQueue WITH MaxListed <- MaxOpen
Review == INSTANCE ReviewRead

ofAction == <<where, pr, edits, kind, tries, next, path, moved, missing, landed>>
ofQueue == <<asked, limit, size, listing, present, opened, merged, at, passed,
             hops, got, after, cursor, shown>>
ofReview == <<projection, comments, pushes, commented, start, pages, read>>
ofHandlers == <<product, pc, seen, result, honest, listed>>
vars == <<serves, ofHandlers, ofAction, ofQueue, ofReview>>

NoAction ==
  /\ where = None /\ pr = None /\ edits = None /\ kind = None /\ tries = None
  /\ next = None /\ path = None /\ moved = None /\ missing = None /\ landed = None
NoQueue ==
  /\ asked = None /\ limit = None /\ size = None /\ listing = None
  /\ present = None /\ opened = None /\ merged = None /\ at = None
  /\ passed = None /\ hops = None /\ got = None /\ after = None
  /\ cursor = None /\ shown = None
NoReview ==
  /\ projection = None /\ comments = None /\ pushes = None
  /\ commented = None /\ start = None /\ pages = None /\ read = None

Init ==
  \/ /\ serves = "reviews.action" /\ Action!Init
     /\ honest = None /\ listed = None /\ NoQueue /\ NoReview
  \/ /\ serves = "pullrequests.queue" /\ Queue!Init
     /\ seen = None /\ result = None /\ NoAction /\ NoReview
  \/ /\ serves = "reviews.get" /\ Review!Init /\ NoAction /\ NoQueue

OnlyAction == UNCHANGED <<serves, honest, listed, ofQueue, ofReview>>
OnlyQueue == UNCHANGED <<serves, seen, result, ofAction, ofReview>>
OnlyReview == UNCHANGED <<serves, ofAction, ofQueue>>

ServeAction == serves = "reviews.action" /\ Action!Next /\ OnlyAction
ServeQueue == serves = "pullrequests.queue" /\ Queue!Next /\ OnlyQueue
ServeReview == serves = "reviews.get" /\ Review!Next /\ OnlyReview

Next == ServeAction \/ ServeQueue \/ ServeReview

Spec == Init /\ [][Next]_vars

\* Calls are answered or time out, so a handler that was called goes on; nobody
\* is obliged to call, to edit or to page further.
Advances ==
  \/ serves = "reviews.action" /\ OnlyAction /\ \E r \in Requests : Action!Advance(r)
  \/ serves = "pullrequests.queue" /\ OnlyQueue /\ Queue!Advance
  \/ serves = "reviews.get" /\ OnlyReview /\ Review!Advance

FairSpec == Spec /\ WF_vars(Advances)

-----------------------------------------------------------------------------
(* Properties: those of the handlers, where their reasons are, and one of   *)
(* all three.                                                               *)

\* A comment is not posted twice, a merge not sent twice (json sends once).
AtMostOneEffect == serves = "reviews.action" => Action!AtMostOneEffect

\* A request answered as done was carried out, and shows so.
AnswerIsTrue == serves = "reviews.action" => Action!AnswerIsTrue

\* A merge or decline on Data Center misses no change made since its last read.
DecisionMissesNothing == serves = "reviews.action" => Action!DecisionMissesNothing

\* A request changes the repository it names, wherever that was renamed to, and
\* not the one that took its path (persistedRepository).
ChangesFollowTheRepository ==
  serves = "reviews.action" => Action!ChangesFollowTheRepository

\* Undisturbed, the pages of searchWorkspacePullRequests make up the queue.
PagesAreTheQueue == serves = "pullrequests.queue" => Queue!PagesAreTheQueue

\* Pull requests opened while a person pages hide none that was there.
OnlyClosingHides == serves = "pullrequests.queue" => Queue!OnlyClosingHides

\* A review whose listings exceed a limit is refused, not shortened.
NothingIsCutSilently == serves = "reviews.get" => Review!NothingIsCutSilently

\* mapReviewThreads neither loses nor doubles a comment.
EveryCommentIsInOneThread ==
  serves = "reviews.get" => Review!EveryCommentIsInOneThread

\* What the view leaves out of the threads it says, and of no other.
CutsAreSaid == serves = "reviews.get" => Review!CutsAreSaid

UnderWay ==
  \/ serves = "reviews.action" /\ \E r \in Requests : pc[r] \notin {"idle", "done"}
  \/ serves = "pullrequests.queue" /\ pc \in {"list", "read"}
  \/ serves = "reviews.get" /\ pc \notin {"idle", "done"}

\* Requests are answered, however often a provider asks to come back and
\* wherever the pages of pull requests and of a review's parts lead: the tries,
\* the calls counted, the cursors seen and the limits end them.  Not so where
\* the pages of the repositories lead: listAllRepositories has no limit, and
\* refuses only a page it was at, so a provider that names a new one every time
\* keeps the request there.
EveryRequestIsAnswered ==
  UnderWay ~> \/ ~ UnderWay
              \/ serves = "pullrequests.queue" /\ Queue!ListsOnAndOn
=============================================================================
