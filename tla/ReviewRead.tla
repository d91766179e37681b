----------------------------- MODULE ReviewRead ------------------------------
(***************************************************************************)
(* One review, read from the provider in up to seven parts and shown       *)
(* (GetReviewProjected of internal/cloud and internal/datacenter, with     *)
(* review_operations.go and mapReviewThreads; reviewView of                *)
(* internal/plugin/workflow_views.go).                                     *)
(*                                                                         *)
(* Each part is a call of its own and four of them are listings of several *)
(* pages, so the pull request may be pushed to and commented on between    *)
(* any two calls: a review is not of one commit, nor of one moment.        *)
(* Listings that exceed a limit are refused, not cut; the view cuts what   *)
(* was read, and says so.                                                  *)
(*                                                                         *)
(* Left out are the texts of entries, and with them their own cutting;     *)
(* Data Center's activities other than comments; and what a push changes   *)
(* but the commits' number.                                                *)
(*                                                                         *)
(* A definition marked "variant" is the one below it with a plausible      *)
(* mistake; no specification uses it: it shows that a property can fail.   *)
(***************************************************************************)
EXTENDS Naturals, SequencesExt

CONSTANTS
  Projections,    \* what may be asked for: sets of Parts
  MaxListed,      \* bound: entries a listing starts with
  MaxStray,       \* the same for a provider that strays
  Sizes,          \* entries the provider may put on a page
  MaxReviewPages, MaxReviewEntries, MaxReviewViewEntries,
  MaxPushes, MaxComments,   \* bounds: changes while the review is read
  Honesty,        \* TRUE: the provider follows its protocol; FALSE: it strays
                  \* (and nothing else changes: whatever it answers, it may)
  None

Parts == {"diff", "files", "commits", "threads", "statuses", "viewer",
          "thread_count"}
Listings == {"files", "commits", "threads", "statuses"}

VARIABLES
  product, projection, honest,   \* fixed
  \* The provider.
  listed,     \* entries every listing starts with
  comments,   \* the comments in the order they are listed, with their parents
  pushes, commented,   \* commits and comments added
  \* The read.
  pc,         \* the part read next
  start, pages, seen,   \* in a listing: where, how many, which
  read,       \* what was read of each listing
  result

setting == <<product, projection, honest>>
provider == <<listed, comments, pushes, commented>>
position == <<start, pages, seen>>
vars == <<setting, provider, pc, position, read, result>>

Order == <<"pr", "diff", "files", "commits", "threads", "statuses", "viewer">>

\* The parts a call is made for: Data Center's viewer is in the connection.
Called ==
  {"pr"} \cup (projection \ (IF product = "cloud" THEN {"thread_count"}
                             ELSE {"thread_count", "viewer"}))

\* The next of them, or the answer.
After(part) ==
  LET i == CHOOSE i \in 1 .. 7 : Order[i] = part
      rest == {j \in i + 1 .. 7 : Order[j] \in Called}
  IN  IF rest = {} THEN "done" ELSE Order[Min(rest)]

Goes(part) ==
  /\ pc' = After(part) /\ start' = 0 /\ pages' = 0 /\ seen' = {}
  /\ result' = IF pc' = "done" THEN "ok" ELSE result

Refuses ==
  /\ pc' = "done" /\ result' = "error" /\ UNCHANGED <<position, read>>

Call ==
  /\ pc = "idle" /\ pc' = "pr"
  /\ UNCHANGED <<setting, provider, position, read, result>>

\* The pull request, its diff, the current user: one call each.
ReadOne ==
  /\ pc \in {"pr", "diff", "viewer"} /\ Goes(pc)
  /\ UNCHANGED <<setting, provider, read>>

\* Any call fails once its tries are used up.
CallFails == pc \notin {"idle", "done"} /\ Refuses /\ UNCHANGED <<setting, provider>>

-----------------------------------------------------------------------------
(* The listings. *)

\* Files and statuses stay, commits come newest first; what was there when the
\* request was made has the numbers 1 .. listed.
Entries(part) ==
  CASE part = "threads" -> comments
    [] part = "commits" ->
         [i \in 1 .. listed + pushes |-> [id |-> listed + pushes + 1 - i]]
    [] OTHER -> [i \in 1 .. listed |-> [id |-> i]]

TooMany(n) == n > MaxReviewEntries
\* forReviewPages and Data Center's loops: no further page after so many.
PagesSpent(n) == n >= MaxReviewPages

\* Pages that may follow: a provider that strays leads anywhere.
Following(part, size) ==
  IF ~ honest THEN 0 .. listed
  ELSE IF start + size < Len(Entries(part)) THEN {start + size} ELSE {}

\* Cloud refuses a page it was at, Data Center one that is not further on.
Advances(next) == IF product = "cloud" THEN next \notin seen \cup {start} ELSE next > start

Continues(all, next) ==
  /\ start' = next /\ pages' = pages + 1 /\ seen' = seen \cup {start}
  /\ read' = [read EXCEPT ![pc] = all] /\ UNCHANGED <<pc, result>>

CutsAtLimit(all) ==   \* variant: shows what fits
  /\ read' = [read EXCEPT ![pc] = SubSeq(all, 1, MaxReviewEntries)] /\ Goes(pc)
\* A listing that is too long fails the review.
RefusesAtLimit(all) == Refuses

ReadPage ==
  /\ pc \in Listings
  /\ IF PagesSpent(pages) THEN Refuses
     ELSE \E size \in Sizes :
       LET entries == Entries(pc)
           last == IF start + size < Len(entries) THEN start + size ELSE Len(entries)
           all == read[pc] \o SubSeq(entries, start + 1, last)
       IN  IF TooMany(Len(all)) THEN RefusesAtLimit(all)
           ELSE \/ \E next \in Following(pc, size) :
                     IF Advances(next) THEN Continues(all, next) ELSE Refuses
                \/ /\ honest => Following(pc, size) = {}
                   /\ read' = [read EXCEPT ![pc] = all] /\ Goes(pc)
  /\ UNCHANGED <<setting, provider>>

-----------------------------------------------------------------------------
(* Other people. *)

Push ==
  /\ honest /\ pushes < MaxPushes /\ pushes' = pushes + 1
  /\ UNCHANGED <<setting, listed, comments, commented, pc, position, read, result>>

\* Cloud lists the oldest comment first, Data Center the newest.
Comment(parent) ==
  /\ honest /\ commented < MaxComments /\ commented' = commented + 1
  /\ LET new == [id |-> Len(comments) + 1, parent |-> parent]
     IN  comments' = IF product = "cloud" THEN Append(comments, new)
                     ELSE <<new>> \o comments
  /\ UNCHANGED <<setting, listed, pushes, pc, position, read, result>>

\* A comment answers an earlier one, or none (0).
Conversations(n) == {p \in [1 .. n -> 0 .. n] : \A i \in 1 .. n : p[i] < i}

Init ==
  /\ product \in {"cloud", "datacenter"} /\ projection \in Projections
  /\ honest \in Honesty
  /\ pushes = 0 /\ commented = 0
  /\ listed \in 0 .. (IF honest THEN MaxListed ELSE MaxStray)
  /\ \E parents \in Conversations(listed) :
       LET oldestFirst == [i \in 1 .. listed |-> [id |-> i, parent |-> parents[i]]]
       IN  comments = IF product = "cloud" THEN oldestFirst ELSE Reverse(oldestFirst)
  /\ pc = "idle" /\ start = 0 /\ pages = 0 /\ seen = {}
  /\ read = [part \in Listings |-> <<>>] /\ result = "none"

Others == Push \/ \E parent \in 0 .. Len(comments) : Comment(parent)
Next == Call \/ ReadOne \/ ReadPage \/ CallFails \/ Others

Spec == Init /\ [][Next]_vars

\* What goes on once a read began: the HTTP client's timeout ends every call.
Advance == CallFails \/ ReadOne \/ ReadPage

-----------------------------------------------------------------------------
(* The answer. *)

\* mapReviewThreads, first loop: a thread for every comment that answers none.
Opened(cs) ==
  LET opened[n \in 0 .. Len(cs)] ==
        IF n = 0 THEN <<>>
        ELSE IF cs[n].parent # 0 THEN opened[n - 1]
        ELSE Append(opened[n - 1], [id |-> cs[n].id, comments |-> <<cs[n]>>])
  IN  opened[Len(cs)]

ThreadsOf(threads, c) == {i \in 1 .. Len(threads) : threads[i].id = c.parent}

FiledIfOpen(threads, c) ==   \* variant: only under a thread there is
  LET own == ThreadsOf(threads, c)
  IN  IF own = {} THEN threads
      ELSE [threads EXCEPT ![Max(own)].comments = Append(@, c)]
\* An answer comes last in the thread of the comment it answers, the later one
\* of two (byRoot), or begins one of its own.
Filed(threads, c) ==
  LET own == ThreadsOf(threads, c)
  IN  IF own = {} THEN Append(threads, [id |-> c.parent, comments |-> <<c>>])
      ELSE [threads EXCEPT ![Max(own)].comments = Append(@, c)]

\* Second loop: every other comment; the comments of each thread.
Threads(cs) ==
  LET filed[n \in 0 .. Len(cs)] ==
        IF n = 0 THEN Opened(cs)
        ELSE IF cs[n].parent = 0 THEN filed[n - 1]
        ELSE Filed(filed[n - 1], cs[n])
      threads == filed[Len(cs)]
  IN  [i \in 1 .. Len(threads) |-> threads[i].comments]

ShowSilently(v, comment) ==   \* variant: the flag is for whole threads
  IF v.count = MaxReviewViewEntries THEN v
  ELSE [shown |-> Append(v.shown, comment), count |-> v.count + 1, cut |-> v.cut]
\* One comment: at the limit, which all threads share, it is left out, and said
\* to be.  The code leaves the thread there; the rest of it fares the same.
ShowComment(v, comment) ==
  IF v.count = MaxReviewViewEntries
    THEN [shown |-> v.shown, count |-> v.count, cut |-> TRUE]
  ELSE [shown |-> Append(v.shown, comment), count |-> v.count + 1, cut |-> v.cut]

ShowThread(v, thread) ==
  LET after[n \in 0 .. Len(thread)] ==
        IF n = 0 THEN [shown |-> <<>>, count |-> v.count, cut |-> v.cut]
        ELSE ShowComment(after[n - 1], thread[n])
      end == after[Len(thread)]
  IN  [shown |-> Append(v.shown, end.shown), count |-> end.count, cut |-> end.cut]

Smaller(a, b) == IF a < b THEN a ELSE b
Cut(s) == SubSeq(s, 1, Smaller(Len(s), MaxReviewViewEntries))

\* reviewView: so many threads, and so many comments in all of them.
ThreadsView(threads) ==
  LET after[n \in 0 .. Len(Cut(threads))] ==
        IF n = 0 THEN [shown |-> <<>>, count |-> 0, cut |-> FALSE]
        ELSE ShowThread(after[n - 1], Cut(threads)[n])
  IN  after[Len(Cut(threads))]

\* Its flag (truncated_sections).
ThreadsTruncated(threads) ==
  ThreadsView(threads).cut \/ Len(threads) > Len(ThreadsView(threads).shown)

-----------------------------------------------------------------------------
(* Properties. *)

Answered == result = "ok"

\* A review that is answered is whole: whatever was in a listing when the
\* request was made is in it, however pages shift under the read, and a listing
\* that does not fit the limits is an error, never a shorter review.
NothingIsCutSilently ==
  Answered /\ honest =>
    \A part \in Listings \cap projection :
      {e \in ToSet(Entries(part)) : e.id <= listed} \subseteq ToSet(read[part])

\* However comments answer each other, and however pages repeat them, every
\* comment read is in the threads once, and a thread's head comes first.
EveryCommentIsInOneThread ==
  Answered =>
    LET threads == Threads(read["threads"])
        all == FlattenSeq(threads)
    IN  /\ Len(all) = Len(read["threads"]) /\ ToSet(all) = ToSet(read["threads"])
        /\ \A i \in 1 .. Len(threads) : \A j \in 2 .. Len(threads[i]) :
             threads[i][j].parent # 0

\* The view says that it leaves comments out (truncated_sections) exactly when
\* it does, wherever the limit that all threads share is reached: between two
\* threads, within one, or by the threads' number.
CutsAreSaid ==
  Answered =>
    LET threads == Threads(read["threads"])
        shown == FlattenSeq(ThreadsView(threads).shown)
    IN  /\ ThreadsTruncated(threads) <=> shown # FlattenSeq(threads)
        /\ Len(shown) <= MaxReviewViewEntries
=============================================================================
