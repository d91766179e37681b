---------------------------- MODULE PollSchedule -----------------------------
(***************************************************************************)
(* When the manager polls which workspace (internal/plugin/manager.go,     *)
(* internal/domain/health.go), and how long the clients it polls through   *)
(* wait (internal/cloud and internal/datacenter, transport.go).            *)
(*                                                                         *)
(* One loop polls the workspaces one after another and sleeps; each        *)
(* workspace has a time before which the loop passes it over.  A poll is a *)
(* health check and the running watches, each of them a call that is tried *)
(* up to three times; a client told to come back later waits before it     *)
(* tries again, and the loop waits with it.                                *)
(*                                                                         *)
(* Time is counted in tenths of the poll interval (9 seconds), relative to *)
(* now: what is kept is how much is left.  Delays below one unit, those of *)
(* answered calls among them, are taken as none.  The listing of the       *)
(* workspaces is taken not to fail.                                        *)
(*                                                                         *)
(* A definition marked "variant" is the one below it with a plausible      *)
(* mistake; no specification uses it: it shows that a property can fail.   *)
(***************************************************************************)
EXTENDS Integers

CONSTANTS
  Last,          \* the workspaces are 1 .. Last, in the order they are listed
  Watches,       \* bound: running watches of each
  RetryAfters,   \* what a provider may ask a client to wait, 0 for nothing
  Width          \* bits of a duration

Workspaces == 1 .. Last

ASSUME ConstantsAssumption ==
  /\ Last \in Nat \ {0} /\ Watches \in Nat
  /\ RetryAfters \subseteq Nat /\ Width \in Nat \ {0}

Interval == 10          \* 90 seconds
MaxDelay == 100         \* 15 minutes
Attempts == 3
Saturated == 4          \* failures after which the delay grows no more
MaxSkipped == 3         \* bound: rounds passed over that are counted

VARIABLES
  phase,      \* what the loop does
  current,    \* the workspace it is at
  watch,      \* watches left to run
  tries,      \* of the call under way
  failing,    \* whether this poll had an error
  told,       \* the longest wait this poll's errors ask for
  wait,       \* workspaceBackoff: time left to each workspace's next attempt
  failures,   \* its consecutive failures
  asked,      \* history: what is left of the time its provider asked for
  skipped     \* history: rounds in a row it was passed over

call == <<watch, tries, failing, told>>
vars == <<phase, current, call, wait, failures, asked, skipped>>

-----------------------------------------------------------------------------
(* Delays. *)

\* time.Duration(seconds) * time.Second, in as many bits as it has.
Duration(n) ==
  LET wrapped == n % (2 ^ Width)
  IN  IF wrapped >= 2 ^ (Width - 1) THEN wrapped - 2 ^ Width ELSE wrapped

\* No duration overflows: what is asked for is what is waited.  With larger
\* ones the schedule's own delay takes their place, as that of no failure.
Fits == \A n \in RetryAfters : Duration(n) = n

\* HealthSchedule.Next: doubled with every failure, capped, then jittered by a
\* tenth (the extremes and the middle stand for what lies between).
Next0(n) ==
  LET doubled == Interval * 2 ^ n
      delay == IF doubled > MaxDelay THEN MaxDelay ELSE doubled
  IN  {(delay * j) \div 10 : j \in {9, 10, 11}}

Left(n, d) == IF n > d THEN n - d ELSE 0

\* Time passes, in the loop's sleep or in a client's wait.
Passes(d) ==
  /\ wait' = [w \in Workspaces |-> Left(wait[w], d)]
  /\ asked' = [w \in Workspaces |-> Left(asked[w], d)]

NoTime == UNCHANGED <<wait, asked>>

-----------------------------------------------------------------------------
(* The loop. *)

Polls(w) ==
  /\ phase' = "recover" /\ current' = w
  /\ skipped' = [skipped EXCEPT ![w] = 0]

\* The next workspace, or sleep once all were looked at.
Continue(w) ==
  IF w < Last THEN phase' = "consider" /\ current' = w + 1
  ELSE phase' = "asleep" /\ current' = 1

Wake ==
  /\ phase = "asleep"
  /\ \E d \in Next0(0) : Passes(d)
  /\ phase' = "consider" /\ UNCHANGED <<current, call, failures, skipped>>

\* workspacePollDue.  Its watches may have been paused, resumed, made or
\* removed since the last poll.
Start ==
  /\ phase = "consider" /\ wait[current] = 0
  /\ Polls(current) /\ NoTime
  /\ watch' \in 0 .. Watches /\ tries' = 0 /\ failing' = FALSE /\ told' = 0
  /\ UNCHANGED failures

SkipAndExtend ==   \* variant: a workspace passed over is put off again
  /\ phase = "consider" /\ wait[current] > 0 /\ Continue(current)
  /\ \E d \in Next0(failures[current]) : wait' = [wait EXCEPT ![current] = d]
  /\ skipped' = [skipped EXCEPT ![current] = IF @ < MaxSkipped THEN @ + 1 ELSE @]
  /\ UNCHANGED <<call, failures, asked>>
Skip ==
  /\ phase = "consider" /\ wait[current] > 0 /\ Continue(current) /\ NoTime
  /\ skipped' = [skipped EXCEPT ![current] = IF @ < MaxSkipped THEN @ + 1 ELSE @]
  /\ UNCHANGED <<call, failures>>

\* A longer wait asked for by the provider takes the schedule's place.
Recorded(delay, told0) == IF told0 > delay THEN told0 ELSE delay

FailuresAfter(w, failed) ==
  IF ~ failed THEN 0
  ELSE IF failures[w] < Saturated THEN failures[w] + 1 ELSE Saturated

\* recordWorkspacePoll, after the workspace's own poll.
Finish(failed, told0) ==
  /\ failures' = [failures EXCEPT ![current] = FailuresAfter(current, failed)]
  /\ \E d \in Next0(failures'[current]) :
       wait' = [wait EXCEPT ![current] = Recorded(d, told0)]
  /\ Continue(current) /\ UNCHANGED skipped
  /\ watch' = 0 /\ tries' = 0 /\ failing' = FALSE /\ told' = 0

-----------------------------------------------------------------------------
(* PollWorkspace. *)

\* Reservations are recovered and the connection loaded: an error ends the
\* poll, and so, without one, does a workspace that has no connection.
RecoverAndLoad ==
  /\ phase = "recover"
  /\ \/ \E failed \in BOOLEAN : Finish(failed, 0) /\ UNCHANGED asked
     \/ /\ phase' = "health" /\ NoTime
        /\ UNCHANGED <<current, call, failures, skipped>>

\* A call is answered.
CallSucceeds ==
  \/ /\ phase = "health" /\ watch > 0 /\ phase' = "watch" /\ tries' = 0
     /\ NoTime /\ UNCHANGED <<current, watch, failing, told, failures, skipped>>
  \/ /\ phase = "health" /\ watch = 0 /\ Finish(FALSE, 0) /\ UNCHANGED asked
  \/ /\ phase = "watch" /\ watch > 1 /\ watch' = watch - 1 /\ tries' = 0
     /\ NoTime /\ UNCHANGED <<phase, current, failing, told, failures, skipped>>
  \/ /\ phase = "watch" /\ watch = 1 /\ Finish(failing, told) /\ UNCHANGED asked

LongestLast(a, b) == b                       \* variant
Longest(a, b) == IF b > a THEN b ELSE a

\* providerRetryAfter: a duration that is not positive counts for nothing.
Told(after) == IF Duration(after) > 0 THEN Duration(after) ELSE 0

\* And what it asked for, kept for the properties.
AskedFor(after) ==
  asked' = [asked EXCEPT ![current] = IF after > @ THEN after ELSE @]

\* A call fails for good.  One watch's error does not keep the others from
\* running; the longest wait any of them was told is the poll's.
CallFails(after) ==
  /\ AskedFor(after)
  /\ \/ phase = "health" /\ Finish(TRUE, Told(after))
     \/ phase = "watch" /\ watch = 1 /\ Finish(TRUE, Longest(told, Told(after)))
     \/ /\ phase = "watch" /\ watch > 1 /\ watch' = watch - 1 /\ tries' = 0
        /\ failing' = TRUE /\ told' = Longest(told, Told(after))
        /\ UNCHANGED <<phase, current, failures, skipped, wait>>

\* getJSON: too many requests, or a server error.  The client waits where it
\* is, with the loop behind it.
CallWaits(after) ==
  /\ phase \in {"health", "watch"} /\ tries < Attempts - 1
  /\ tries' = tries + 1 /\ Passes(Told(after))
  /\ UNCHANGED <<phase, current, watch, failing, told, failures, skipped>>

Loop ==
  \/ Wake \/ Start \/ Skip \/ RecoverAndLoad \/ CallSucceeds
  \/ \E after \in RetryAfters : CallFails(after) \/ CallWaits(after)

Init ==
  /\ phase = "consider" /\ current = 1
  /\ watch = 0 /\ tries = 0 /\ failing = FALSE /\ told = 0
  /\ wait = [w \in Workspaces |-> 0] /\ failures = [w \in Workspaces |-> 0]
  /\ asked = [w \in Workspaces |-> 0] /\ skipped = [w \in Workspaces |-> 0]

Next == Loop

Spec == Init /\ [][Next]_vars

\* Timers fire and calls are answered or time out: the loop goes on until the
\* process ends.
FairSpec == Spec /\ WF_vars(Loop)

-----------------------------------------------------------------------------
(* Properties. *)

\* A workspace whose poll went well is passed over at most once before it is
\* polled again, although its delay and the loop's sleep are jittered apart.
HealthyIsSkippedAtMostOnce ==
  \A w \in Workspaces : failures[w] = 0 => skipped[w] <= 1

\* No workspace is polled before the time its provider asked for is over,
\* whichever of its calls was told so ("Retry-After must suppress the healthy
\* 90-second cadence", internal/plugin/manager_test.go:80).
RetryAfterIsKept ==
  [][\A w \in Workspaces : skipped'[w] = 0 /\ phase' = "recover" /\ current' = w
       => asked[w] = 0]_vars

\* Every workspace is polled again and again, however its polls fail.
EveryWorkspaceIsPolled ==
  \A w \in Workspaces : []<>(phase = "recover" /\ current = w)
=============================================================================
