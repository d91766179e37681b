-------------------------- MODULE PullRequestQueue ---------------------------
(***************************************************************************)
(* The workspace's pull request queue (internal/plugin/workflow_lookup.go, *)
(* searchWorkspacePullRequests): a person pages through the pull requests  *)
(* of every repository, a fixed number at a time.                          *)
(*                                                                         *)
(* Two paginations are nested.  The provider's pages are smaller than, or  *)
(* as large as, the queue's; Cloud has one listing for each state, which   *)
(* its client walks one after another when all states are asked for; Data  *)
(* Center has one.  A search lists the repositories, page by page, sorts   *)
(* them and reads provider pages, one call each, until it has one pull     *)
(* request more than it may answer, and answers with the position after    *)
(* the last it shows.  The next search starts there; the provider keeps    *)
(* nothing in between.                                                     *)
(*                                                                         *)
(* Other people open and merge pull requests and remove repositories       *)
(* between any two calls, and a provider may answer with a page it should  *)
(* not lead to, which may be a new one every time: then only the number of *)
(* calls to one search (MaxHops) ends the reading, and nothing ends the    *)
(* listing of the repositories.  A call stands for all its tries, which    *)
(* ReviewAction has one by one.                                            *)
(*                                                                         *)
(* A definition marked "variant" is the one below it with a plausible      *)
(* mistake; no specification uses it: it shows that a property can fail.   *)
(***************************************************************************)
EXTENDS Naturals, SequencesExt

CONSTANTS
  Repos,        \* a sequence: the repositories in the queue's order
  MaxListed,    \* bound: pull requests a repository starts with
  Limits,       \* how many the queue may show at a time
  PageSizes,    \* how many the provider answers with at a time, of repositories
                \* as of pull requests
  MaxHops,      \* pages of pull requests one search may read (10000 in the code)
  MaxChanges,   \* bound: changes other people make during the walk
  MaxShown,     \* bound: a person who was shown this many stops paging
  Honesty,      \* TRUE: the provider follows its protocol; FALSE: it strays
                \* (and nothing else changes: whatever it answers, it may)
  None

RepoSet == ToSet(Repos)

VARIABLES
  product, asked, limit, size,   \* fixed: product, state asked for, page sizes
  honest,       \* whether the provider follows its protocol
  \* The provider.
  listing,      \* each repository's pull requests, newest first
  present,      \* the repositories there are
  opened, merged,
  \* The search under way.
  pc,
  listed,       \* the repositories: those listed so far, then all in order
  at,           \* where it reads, in no repository while it lists them
  passed,       \* provider cursors seen in this repository, or in the listing
  hops,         \* pages of pull requests read
  got,          \* pull requests found
  after,        \* the position after the last it may answer
  \* The person.
  cursor,       \* the position to go on from, None past the last page
  shown         \* history: everything shown, page after page

setting == <<product, asked, limit, size, honest>>
provider == <<listing, present, opened, merged>>
search == <<listed, at, passed, hops, got, after>>
vars == <<setting, provider, search, pc, cursor, shown>>

\* A position: a repository, a provider cursor (which listing, and where in
\* it) and how many of that page's pull requests are behind.
Position(repo, page, offset) == [repo |-> repo, page |-> page, offset |-> offset]
FirstPage == [group |-> 1, start |-> 0]

\* cloudPullRequestStates: the listings one answer is made of.
Groups ==
  IF product = "cloud" /\ asked = "ALL"
    THEN <<"OPEN", "MERGED", "DECLINED", "SUPERSEDED">> ELSE <<asked>>

\* Sorted: the repositories of "S" in the queue's order.
InOrder(S) ==
  LET kept[n \in 0 .. Len(Repos)] ==
        IF n = 0 THEN <<>>
        ELSE IF Repos[n] \in S THEN Append(kept[n - 1], Repos[n]) ELSE kept[n - 1]
  IN  kept[Len(Repos)]

OfState(prs, state) ==
  IF state = "ALL" THEN prs
  ELSE LET kept[n \in 0 .. Len(prs)] ==
             IF n = 0 THEN <<>>
             ELSE IF prs[n].state = state THEN Append(kept[n - 1], prs[n])
             ELSE kept[n - 1]
       IN  kept[Len(prs)]

-----------------------------------------------------------------------------
(* One page, as the provider's client answers it. *)

ListingOf(repo, group) ==
  IF honest THEN OfState(listing[repo], Groups[group]) ELSE listing[repo]

PullRequests(repo, page) ==
  LET all == ListingOf(repo, page.group)
      last == page.start + size
  IN  SubSeq(all, page.start + 1, IF last < Len(all) THEN last ELSE Len(all))

\* Beyond a listing of "n" a provider that strays has as many pages as it likes,
\* all empty: n + 1 and n + 2 by turns stand for ever new ones, and the search
\* has been at neither.
NewPage(page, n) == IF page.start = n + 1 THEN n + 2 ELSE n + 1
Passed(page, n) == passed \cup (IF page.start <= n THEN {page} ELSE {})

\* Where the provider says the listing goes on: one that strays may lead
\* anywhere but to a first page.
Continuations(repo, page) ==
  IF ~ honest THEN 1 .. MaxListed \cup {NewPage(page, MaxListed)}
  ELSE IF page.start + size < Len(ListingOf(repo, page.group))
    THEN {page.start + size} ELSE {}

NextPagesOneListing(repo, page) ==   \* variant
  {[page EXCEPT !.start = s] : s \in Continuations(repo, page)} \cup
  (IF Continuations(repo, page) # {} THEN {} ELSE {None})
\* SearchPullRequestsPage of both clients: the pages it may go on with, None
\* for the end.  Data Center's refuses one that does not lead forward; Cloud's
\* goes on with the next state's listing.
NextPages(repo, page) ==
  LET further == {s \in Continuations(repo, page) :
                    product = "datacenter" => s > page.start \/ s > MaxListed}
  IN  {[page EXCEPT !.start = s] : s \in further} \cup
      (IF honest /\ further # {} THEN {}
       ELSE IF page.group < Len(Groups)
         THEN {[group |-> page.group + 1, start |-> 0]} ELSE {None})

-----------------------------------------------------------------------------
(* The search. *)

IndexIn(repo, repos) == CHOOSE i \in 1 .. Len(repos) : repos[i] = repo
HasNextRepo == IndexIn(at.repo, listed) < Len(listed)
NextRepo == listed[IndexIn(at.repo, listed) + 1]

AfterOffByOne(i, found, next) ==   \* variant
  IF i + 1 < Len(found) THEN Position(at.repo, at.page, i + 1)
  ELSE IF next # None THEN Position(at.repo, next, 0)
  ELSE IF HasNextRepo THEN Position(NextRepo, FirstPage, 0) ELSE None
\* queuePositionAfter: the position after the i-th of the page's pull requests.
After(i, found, next) ==
  IF i < Len(found) THEN Position(at.repo, at.page, i)
  ELSE IF next # None THEN Position(at.repo, next, 0)
  ELSE IF HasNextRepo THEN Position(NextRepo, FirstPage, 0) ELSE None

Rests == got' = <<>> /\ after' = None /\ passed' = {} /\ at' = None /\ listed' = <<>>
         /\ hops' = 0

Answers(prs, next) ==
  /\ pc' = IF next = None THEN "done" ELSE "idle"
  /\ cursor' = next /\ shown' = shown \o prs /\ Rests

\* An error shows nothing and leaves the person where they were.
Refuses == pc' = "idle" /\ UNCHANGED <<cursor, shown>> /\ Rests

\* A page the search was at before, in this repository or listing.
Repeated(page) == page \in passed \cup {at.page}

Open ==
  /\ pc = "idle" /\ Len(shown) < MaxShown
  /\ pc' = "list" /\ at' = Position(None, FirstPage, 0)
  /\ UNCHANGED <<setting, provider, listed, passed, hops, got, after, cursor, shown>>

\* The repositories as the provider lists them: in an order of its own.
TheirOrder == Reverse(InOrder(present))
NamesOn(page) ==
  LET last == page.start + size
  IN  SubSeq(TheirOrder, page.start + 1,
             IF last < Len(TheirOrder) THEN last ELSE Len(TheirOrder))

\* Where that listing goes on.  One that strays leads back to any page it led
\* to before or on to further ones, but names no repository twice.
NamesContinue(page) ==
  IF ~ honest THEN
    {p.start : p \in passed \ {FirstPage}} \cup
    {IF page.start + size <= Len(Repos) THEN page.start + size
     ELSE NewPage(page, Len(Repos))}
  ELSE IF page.start + size < Len(TheirOrder) THEN {page.start + size} ELSE {}

\* The repositories are all listed; the cursor's has to be among them.
Searches(names) ==
  IF names = <<>> /\ cursor.repo = None THEN Answers(<<>>, None)
  ELSE IF cursor.repo # None /\ cursor.repo \notin ToSet(names) THEN Refuses
  ELSE /\ pc' = "read" /\ listed' = names /\ passed' = {}
       /\ at' = IF cursor.repo = None THEN Position(names[1], FirstPage, 0) ELSE cursor
       /\ UNCHANGED <<hops, got, after, cursor, shown>>

\* listAllRepositories, a page at each call: only a page it led to before ends
\* it, or a last one.  Then the repositories are sorted by identity.
ListPage ==
  /\ pc = "list"
  /\ LET all == listed \o NamesOn(at.page)
     IN  \/ (honest => NamesContinue(at.page) = {}) /\ Searches(InOrder(ToSet(all)))
         \/ \E s \in NamesContinue(at.page) :
              LET next == [at.page EXCEPT !.start = s]
              IN  IF Repeated(next) THEN Refuses
                  ELSE /\ at' = Position(None, next, 0) /\ listed' = all
                       /\ passed' = Passed(at.page, Len(Repos))
                       /\ UNCHANGED <<pc, hops, got, after, cursor, shown>>
  /\ UNCHANGED <<setting, provider>>

\* One more than may be answered shows that there is a next page.
Enough(prs) == Len(prs) > limit

CountedAnew == 1     \* variant: the counter is declared inside the loop
Counted == hops + 1
Spent == hops >= MaxHops

\* filterPullRequestState: whatever the provider was asked for.
FilterState(prs) == OfState(prs, asked)

\* What becomes of a page: the last one needed, or one more to read.
Takes(found, next) ==
  LET fresh == SubSeq(found, at.offset + 1, Len(found))
      all == got \o fresh
      reached == Len(got) < limit /\ Len(all) >= limit
      mark == IF reached
                THEN After(at.offset + limit - Len(got), found, next) ELSE after
  IN  IF Enough(all) THEN Answers(SubSeq(all, 1, limit), mark)
      ELSE IF next # None THEN
        IF Repeated(next) THEN Refuses
        ELSE /\ at' = Position(at.repo, next, 0)
             /\ passed' = Passed(at.page, MaxListed) /\ hops' = Counted
             /\ got' = all /\ after' = mark
             /\ UNCHANGED <<pc, listed, cursor, shown>>
      ELSE IF HasNextRepo THEN
        /\ at' = Position(NextRepo, FirstPage, 0) /\ passed' = {} /\ hops' = Counted
        /\ got' = all /\ after' = mark
        /\ UNCHANGED <<pc, listed, cursor, shown>>
      ELSE Answers(all, None)

\* One call, unless there were too many.  The offset may have fallen off a page
\* that shrank.
ReadPage ==
  /\ pc = "read"
  /\ \/ Spent /\ Refuses
     \/ /\ ~ Spent /\ at.repo \in present
        /\ LET found == FilterState(PullRequests(at.repo, at.page))
           IN  IF at.offset > Len(found) THEN Refuses
               ELSE \E next \in NextPages(at.repo, at.page) : Takes(found, next)
  /\ UNCHANGED <<setting, provider>>

\* The call fails, as it does once the repository is gone.
CallFails == pc \in {"list", "read"} /\ Refuses /\ UNCHANGED <<setting, provider>>

-----------------------------------------------------------------------------
(* Other people. *)

Change ==
  /\ honest
  /\ opened + merged + Cardinality(RepoSet \ present) < MaxChanges

OpenPullRequest(repo) ==
  /\ Change /\ opened' = opened + 1
  /\ listing' = [listing EXCEPT ![repo] =
       <<[id |-> <<repo, MaxListed + opened'>>, state |-> "OPEN"]>> \o @]
  /\ UNCHANGED <<setting, present, merged, search, pc, cursor, shown>>

MergePullRequest(repo, i) ==
  /\ Change /\ merged' = merged + 1
  /\ listing[repo][i].state = "OPEN"
  /\ listing' = [listing EXCEPT ![repo][i].state = "MERGED"]
  /\ UNCHANGED <<setting, present, opened, search, pc, cursor, shown>>

RemoveRepository(repo) ==
  /\ Change /\ repo \in present /\ present' = present \ {repo}
  /\ UNCHANGED <<setting, listing, opened, merged, search, pc, cursor, shown>>

Listings(repo) ==
  {[i \in 1 .. n |-> [id |-> <<repo, i>>, state |-> s[i]]] :
     n \in 0 .. MaxListed, s \in [1 .. MaxListed -> {"OPEN", "MERGED"}]}

Init ==
  /\ product \in {"cloud", "datacenter"} /\ asked \in {"OPEN", "ALL"}
  /\ limit \in Limits /\ size \in {n \in PageSizes : n <= limit}
  /\ honest \in Honesty
  /\ listing \in {l \in [RepoSet -> UNION {Listings(r) : r \in RepoSet}] :
                    \A r \in RepoSet : l[r] \in Listings(r)}
  /\ \* where no page can be relied on, there is little or much to find
     ~ honest => \E n \in {0, MaxListed} : \A r \in RepoSet :
                   listing[r] = [i \in 1 .. n |-> [id |-> <<r, i>>, state |-> "OPEN"]]
  /\ present = RepoSet /\ opened = 0 /\ merged = 0
  /\ pc = "idle" /\ listed = <<>> /\ at = None /\ passed = {} /\ hops = 0
  /\ got = <<>> /\ after = None
  /\ cursor = Position(None, FirstPage, 0) /\ shown = <<>>

Search == Open \/ ListPage \/ ReadPage \/ CallFails

Others ==
  \E repo \in RepoSet :
    \/ OpenPullRequest(repo) \/ RemoveRepository(repo)
    \/ \E i \in DOMAIN listing[repo] : MergePullRequest(repo, i)

Next == Search \/ Others

Spec == Init /\ [][Next]_vars

\* What goes on once a search was asked for: a call is answered or times out.
Advance == CallFails \/ ListPage \/ ReadPage

-----------------------------------------------------------------------------
(* Properties. *)

\* What the queue is to show, when nobody changes anything: every repository,
\* every listing it is made of.
Expected ==
  FlattenSeq([i \in 1 .. Len(Repos) |->
    FlattenSeq([g \in 1 .. Len(Groups) |->
      OfState(listing[Repos[i]], Groups[g])])])

Unchanged == honest /\ opened = 0 /\ merged = 0 /\ present = RepoSet

\* The provider leads the listing of the repositories on to ever new pages.
ListsOnAndOn == pc = "list" /\ ~ honest /\ at.page.start > Len(Repos)

\* Undisturbed, the pages put together are the whole queue: in order, nothing
\* twice, nothing left out, however the two paginations fall against each
\* other, and with failed searches asked for again.
PagesAreTheQueue ==
  Unchanged =>
    /\ IsPrefix(shown, Expected)
    /\ pc = "done" => shown = Expected

Ids(prs) == {p.id : p \in ToSet(prs)}

\* Pull requests opened while a person pages make some appear again, but hide
\* none that was there: only a merge or a repository's removal does.
OnlyClosingHides ==
  pc = "done" /\ honest /\ merged = 0 /\ present = RepoSet =>
    {id \in Ids(Expected) : id[2] <= MaxListed} \subseteq Ids(shown)
=============================================================================
