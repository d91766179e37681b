------------------------- MODULE PollScheduleProofs --------------------------
(***************************************************************************)
(* No workspace is polled before the time its provider asked for is over,  *)
(* and a healthy one is passed over at most once, for every number of      *)
(* workspaces and watches and all retry-afters that fit a duration.        *)
(*                                                                         *)
(* What is asked of a workspace is covered by the time left to its next    *)
(* attempt, but for the one that is being polled: there it is covered by   *)
(* what its poll was told so far (Covered), which is nothing before its    *)
(* watches run (NothingTold).  A healthy workspace's delay and the loop's  *)
(* sleep each stray by a tenth, so after one sleep at most two tenths are  *)
(* left, and after two none (OnTime); a poll begins the count (Fresh).     *)
(***************************************************************************)
EXTENDS PollSchedule, TLAPS

Polling == phase \in {"recover", "health", "watch"}

Types ==
  /\ phase \in {"consider", "asleep", "recover", "health", "watch"}
  /\ current \in Workspaces
  /\ watch \in Nat /\ tries \in Nat /\ failing \in BOOLEAN /\ told \in Nat
  /\ wait \in [Workspaces -> Nat] /\ asked \in [Workspaces -> Nat]
  /\ failures \in [Workspaces -> 0 .. Saturated]
  /\ skipped \in [Workspaces -> 0 .. MaxSkipped]

NothingTold == (phase \in {"recover", "health"} \/ ~ failing) => told = 0

Covered ==
  \A w \in Workspaces :
    asked[w] <= wait[w] \/ (w = current /\ Polling /\ asked[w] <= told)

\* Whether the loop has yet to look at it in this round.
ToCome(w) ==
  phase # "asleep" /\ (current < w \/ (current = w /\ phase = "consider"))

OnTime ==
  \A w \in Workspaces : failures[w] = 0 =>
    \/ skipped[w] = 0 /\ wait[w] <= (IF ToCome(w) THEN 2 ELSE 11)
    \/ skipped[w] = 1 /\ wait[w] <= (IF ToCome(w) THEN 0 ELSE 2)

Fresh == Polling => skipped[current] = 0 /\ wait[current] = 0

PInv == Types /\ NothingTold /\ Covered /\ OnTime /\ Fresh

-----------------------------------------------------------------------------
(* The delays. *)

\* HealthSchedule.Next gives a delay, and with no failures one that is a tenth
\* off the interval at most.
LEMMA DelayIsNat ==
  ASSUME NEW n \in 0 .. Saturated, NEW d \in Next0(n)
  PROVE  d \in Nat /\ (n = 0 => d \in {9, 10, 11})
<1>1. \A k \in Nat, j \in {9, 10, 11} : (k * j) \div 10 \in Nat
  BY SMT
<1>2. 2 ^ n \in {1, 2, 4, 8, 16} /\ (n = 0 => 2 ^ n = 1)
  <2>1. CASE n = 0 BY <2>1, SMT
  <2>2. CASE n = 1 BY <2>2, SMT
  <2>3. CASE n = 2 BY <2>3, SMT
  <2>4. CASE n = 3 BY <2>4, SMT
  <2>5. CASE n = 4 BY <2>5, SMT
  <2>6. QED BY <2>1, <2>2, <2>3, <2>4, <2>5 DEF Saturated
<1> DEFINE delay == IF Interval * 2 ^ n > MaxDelay THEN MaxDelay ELSE Interval * 2 ^ n
<1>3. delay \in Nat /\ (n = 0 => delay = 10)
  BY <1>2 DEF Interval, MaxDelay
<1>4. \E j \in {9, 10, 11} : d = (delay * j) \div 10
  BY DEF Next0
<1>5. QED
  <2> HIDE DEF delay
  <2>1. d \in Nat BY <1>1, <1>3, <1>4
  <2>2. ASSUME n = 0 PROVE d \in {9, 10, 11} BY <2>2, <1>3, <1>4, SMT
  <2>3. QED BY <2>1, <2>2

\* Time left only decreases, to nothing at the least.
LEMMA LeftIsLess ==
  ASSUME NEW n \in Nat, NEW d \in Nat
  PROVE  /\ Left(n, d) \in Nat /\ Left(n, d) <= n
         /\ \A m \in Nat : m <= n => Left(m, d) <= Left(n, d)
         /\ \A k \in Nat : n <= d + k => Left(n, d) <= k
BY DEF Left

\* What a provider asks for is what the poll is told.
LEMMA ToldIsAsked ==
  ASSUME Fits, NEW after \in RetryAfters
  PROVE  after \in Nat /\ Told(after) = after
BY ConstantsAssumption DEF Fits, Told, ConstantsAssumption

\* Time passes for all: what held of the time left goes on to hold.
LEMMA TimePasses ==
  ASSUME Types, NEW d \in Nat, Passes(d)
  PROVE  /\ wait' \in [Workspaces -> Nat] /\ asked' \in [Workspaces -> Nat]
         /\ \A w \in Workspaces :
              /\ wait'[w] <= wait[w] /\ asked'[w] <= asked[w]
              /\ asked[w] <= wait[w] => asked'[w] <= wait'[w]
              /\ \A k \in Nat : wait[w] <= d + k => wait'[w] <= k
<1>1. \A w \in Workspaces : wait[w] \in Nat /\ asked[w] \in Nat
  BY DEF Types
<1>2. \A w \in Workspaces : wait'[w] = Left(wait[w], d) /\ asked'[w] = Left(asked[w], d)
  BY DEF Passes
<1>3. \A w \in Workspaces : Left(wait[w], d) \in Nat /\ Left(asked[w], d) \in Nat
  BY <1>1, LeftIsLess
<1>4. wait' \in [Workspaces -> Nat] /\ asked' \in [Workspaces -> Nat]
  BY <1>3 DEF Passes
<1>5. ASSUME NEW w \in Workspaces
      PROVE  /\ wait'[w] <= wait[w] /\ asked'[w] <= asked[w]
             /\ asked[w] <= wait[w] => asked'[w] <= wait'[w]
             /\ \A k \in Nat : wait[w] <= d + k => wait'[w] <= k
  <2>1. wait[w] \in Nat /\ asked[w] \in Nat
    BY <1>1
  <2>2. wait'[w] = Left(wait[w], d) /\ asked'[w] = Left(asked[w], d)
    BY <1>2
  <2>3. QED BY <2>1, <2>2, SMT DEF Left
<1>6. QED BY <1>4, <1>5

-----------------------------------------------------------------------------
(* The end of a poll. *)

LEMMA ContinueGoesOn ==
  ASSUME current \in Workspaces, Continue(current)
  PROVE  /\ phase' \in {"consider", "asleep"} /\ current' \in Workspaces
         /\ ~ Polling' /\ \A w \in Workspaces : ToCome(w)' => current < w
BY ConstantsAssumption DEF Continue, Workspaces, ConstantsAssumption, Polling, ToCome

\* Whatever a poll was told is covered when it ends, and a good poll's delay
\* is the healthy one.
LEMMA FinishKeeps ==
  ASSUME PInv, Polling,
         NEW failed \in BOOLEAN, NEW t \in Nat, Finish(failed, t),
         ~ failed => t = 0,
         asked' \in [Workspaces -> Nat], asked'[current] <= t,
         \A w \in Workspaces \ {current} : asked'[w] = asked[w]
  PROVE  PInv'
<1> USE DEF PInv
<1>1. current \in Workspaces /\ Continue(current)
  BY DEF Types, Finish
<1>2. /\ phase' \in {"consider", "asleep"} /\ current' \in Workspaces
      /\ ~ Polling' /\ \A w \in Workspaces : ToCome(w)' => current < w
  BY <1>1, ContinueGoesOn
<1>3. /\ FailuresAfter(current, failed) \in 0 .. Saturated
      /\ FailuresAfter(current, failed) = 0 => ~ failed
  BY <1>1 DEF Types, FailuresAfter, Saturated
<1>4. /\ failures' = [failures EXCEPT ![current] = FailuresAfter(current, failed)]
      /\ failures'[current] = FailuresAfter(current, failed)
  BY <1>1 DEF Types, Finish
<1>5. PICK d \in Next0(failures'[current]) :
        wait' = [wait EXCEPT ![current] = Recorded(d, t)]
  BY DEF Finish
<1>6. d \in Nat /\ (~ failed => d \in {9, 10, 11})
  BY <1>3, <1>4, <1>5, DelayIsNat DEF FailuresAfter
<1>7. /\ Recorded(d, t) \in Nat /\ t <= Recorded(d, t)
      /\ ~ failed => Recorded(d, t) <= 11
  BY <1>6 DEF Recorded
<1>8. wait' \in [Workspaces -> Nat] /\ wait'[current] = Recorded(d, t)
  BY <1>1, <1>5, <1>7 DEF Types
<1>9. \A w \in Workspaces \ {current} :
        wait'[w] = wait[w] /\ failures'[w] = failures[w]
  BY <1>4, <1>5 DEF Types
<1>10. skipped' = skipped /\ watch' = 0 /\ tries' = 0 /\ failing' = FALSE /\ told' = 0
  BY DEF Finish
<1>11. Types'
  BY <1>2, <1>3, <1>4, <1>8, <1>10 DEF Types
<1>12. NothingTold' /\ Fresh'
  BY <1>2, <1>10 DEF NothingTold, Fresh
<1>13. Covered'
  <2> SUFFICES ASSUME NEW w \in Workspaces PROVE asked'[w] <= wait'[w]
    BY DEF Covered
  <2>1. CASE w = current
    BY <2>1, <1>7, <1>8 DEF Types
  <2>2. CASE w # current
    BY <2>2, <1>9 DEF Covered
  <2>3. QED BY <2>1, <2>2
<1>14. OnTime'
  <2> SUFFICES ASSUME NEW w \in Workspaces, failures'[w] = 0
      PROVE  \/ skipped'[w] = 0 /\ wait'[w] <= (IF ToCome(w)' THEN 2 ELSE 11)
             \/ skipped'[w] = 1 /\ wait'[w] <= (IF ToCome(w)' THEN 0 ELSE 2)
    BY DEF OnTime
  <2>1. CASE w = current
    <3>1. ~ failed /\ skipped'[w] = 0 /\ wait'[w] <= 11
      BY <2>1, <1>3, <1>4, <1>7, <1>8, <1>10 DEF Fresh
    <3>2. ~ ToCome(w)'
      BY <2>1, <1>1, <1>2 DEF Workspaces
    <3>3. QED BY <3>1, <3>2
  <2>2. CASE w # current
    <3>1. failures[w] = 0 /\ wait'[w] = wait[w] /\ skipped'[w] = skipped[w]
      BY <2>2, <1>9, <1>10
    <3>2. ToCome(w)' => ToCome(w)
      BY <2>2, <1>2 DEF ToCome, Polling
    <3>3. wait[w] \in Nat
      BY DEF Types
    <3>4. QED BY <3>1, <3>2, <3>3 DEF OnTime
  <2>3. QED BY <2>1, <2>2
<1>15. QED BY <1>11, <1>12, <1>13, <1>14

-----------------------------------------------------------------------------
(* The steps. *)

LEMMA WakeKeeps ==
  ASSUME PInv, Wake
  PROVE  PInv'
<1> USE DEF PInv
<1>1. PICK d \in Next0(0) : Passes(d)
  BY DEF Wake
<1>2. d \in {9, 10, 11} /\ d \in Nat
  BY DelayIsNat DEF Saturated
<1>3. /\ wait' \in [Workspaces -> Nat] /\ asked' \in [Workspaces -> Nat]
      /\ \A w \in Workspaces :
           /\ wait'[w] <= wait[w] /\ asked'[w] <= asked[w]
           /\ asked[w] <= wait[w] => asked'[w] <= wait'[w]
           /\ \A k \in Nat : wait[w] <= d + k => wait'[w] <= k
  BY <1>1, <1>2, TimePasses
<1>4. /\ phase = "asleep" /\ phase' = "consider" /\ current' = current
      /\ watch' = watch /\ tries' = tries /\ failing' = failing /\ told' = told
      /\ failures' = failures /\ skipped' = skipped
  BY DEF Wake, call
<1>5. Types' /\ NothingTold' /\ Fresh'
  BY <1>3, <1>4 DEF Types, NothingTold, Fresh, Polling
<1>6. Covered'
  BY <1>3, <1>4 DEF Covered, Polling
<1>7. OnTime'
  <2> SUFFICES ASSUME NEW w \in Workspaces, failures[w] = 0
      PROVE  \/ skipped[w] = 0 /\ wait'[w] <= 2
             \/ skipped[w] = 1 /\ wait'[w] <= 0
    BY <1>3, <1>4 DEF OnTime
  <2>1. wait[w] \in Nat /\ ~ ToCome(w)
    BY <1>4 DEF Types, ToCome
  <2>2. CASE skipped[w] = 0 /\ wait[w] <= 11
    <3>1. wait[w] <= d + 2
      BY <2>1, <2>2, <1>2
    <3>2. QED BY <3>1, <2>2, <1>3
  <2>3. CASE skipped[w] = 1 /\ wait[w] <= 2
    <3>1. wait[w] <= d + 0
      BY <2>1, <2>3, <1>2
    <3>2. QED BY <3>1, <2>3, <1>3
  <2>4. QED BY <2>1, <2>2, <2>3 DEF OnTime
<1>8. QED BY <1>5, <1>6, <1>7

LEMMA StartKeeps ==
  ASSUME PInv, Start
  PROVE  PInv' /\ asked[current'] = 0
<1> USE DEF PInv
<1>1. /\ phase = "consider" /\ phase' = "recover" /\ current' = current
      /\ current \in Workspaces /\ wait[current] = 0
      /\ watch' \in 0 .. Watches /\ tries' = 0 /\ failing' = FALSE /\ told' = 0
      /\ wait' = wait /\ asked' = asked /\ failures' = failures
      /\ skipped' = [skipped EXCEPT ![current] = 0]
  BY DEF Start, Polls, NoTime, Types
<1>2. asked[current] = 0
  BY <1>1 DEF Covered, Polling, Types
<1>3. Types'
  <2>1. watch' \in Nat
    BY <1>1, ConstantsAssumption DEF ConstantsAssumption
  <2>2. skipped' \in [Workspaces -> 0 .. MaxSkipped]
    BY <1>1 DEF Types, MaxSkipped
  <2>3. QED BY <1>1, <2>1, <2>2 DEF Types
<1>4. NothingTold' /\ Fresh'
  BY <1>1 DEF NothingTold, Fresh, Types
<1>5. Covered'
  BY <1>1, <1>2 DEF Covered, Polling
<1>6. OnTime'
  BY <1>1 DEF OnTime, ToCome, Types
<1>7. QED BY <1>1, <1>2, <1>3, <1>4, <1>5, <1>6

LEMMA SkipKeeps ==
  ASSUME PInv, Skip
  PROVE  PInv'
<1> USE DEF PInv
<1>1. /\ phase = "consider" /\ current \in Workspaces /\ wait[current] > 0
      /\ Continue(current) /\ wait' = wait /\ asked' = asked /\ failures' = failures
      /\ watch' = watch /\ tries' = tries /\ failing' = failing /\ told' = told
      /\ skipped' = [skipped EXCEPT ![current] =
                       IF @ < MaxSkipped THEN @ + 1 ELSE @]
  BY DEF Skip, NoTime, call, Types
<1>2. /\ phase' \in {"consider", "asleep"} /\ current' \in Workspaces
      /\ ~ Polling' /\ \A w \in Workspaces : ToCome(w)' => current < w
  BY <1>1, ContinueGoesOn
<1>3. Types'
  BY <1>1, <1>2 DEF Types, MaxSkipped
<1>4. NothingTold' /\ Fresh'
  BY <1>1, <1>2 DEF NothingTold, Fresh
<1>5. Covered'
  BY <1>1 DEF Covered, Polling
<1>6. OnTime'
  <2> SUFFICES ASSUME NEW w \in Workspaces, failures[w] = 0
      PROVE  \/ skipped'[w] = 0 /\ wait[w] <= (IF ToCome(w)' THEN 2 ELSE 11)
             \/ skipped'[w] = 1 /\ wait[w] <= (IF ToCome(w)' THEN 0 ELSE 2)
    BY <1>1 DEF OnTime
  <2>1. wait[w] \in Nat
    BY DEF Types
  <2>2. CASE w = current
    <3>1. ToCome(w)
      BY <2>2, <1>1 DEF ToCome
    <3>2. skipped[w] = 0 /\ wait[w] <= 2
      BY <2>1, <2>2, <3>1, <1>1 DEF OnTime
    <3>3. skipped'[w] = 1
      BY <2>2, <3>2, <1>1 DEF Types, MaxSkipped
    <3>4. ~ ToCome(w)'
      BY <2>2, <1>1, <1>2 DEF Workspaces
    <3>5. QED BY <3>2, <3>3, <3>4
  <2>3. CASE w # current
    <3>1. skipped'[w] = skipped[w]
      BY <2>3, <1>1 DEF Types
    <3>2. ToCome(w)' => ToCome(w)
      BY <2>3, <1>1, <1>2 DEF ToCome
    <3>3. QED BY <2>1, <3>1, <3>2 DEF OnTime
  <2>4. QED BY <2>2, <2>3
<1>7. QED BY <1>3, <1>4, <1>5, <1>6

\* A step within a poll that leaves the delays alone.
LEMMA PollGoesOn ==
  ASSUME PInv, Polling, phase' \in {"health", "watch"},
         watch' \in Nat, tries' \in Nat, failing' \in BOOLEAN, told' \in Nat,
         NothingTold', told <= told',
         asked' \in [Workspaces -> Nat],
         asked'[current] <= told' \/ asked'[current] = asked[current],
         \A w \in Workspaces \ {current} : asked'[w] = asked[w],
         UNCHANGED <<current, wait, failures, skipped>>
  PROVE  PInv'
<1> USE DEF PInv
<1>1. Types' /\ Fresh'
  BY DEF Types, Fresh, Polling
<1>2. Covered'
  <2> SUFFICES ASSUME NEW w \in Workspaces
      PROVE  asked'[w] <= wait[w] \/ (w = current /\ asked'[w] <= told')
    BY DEF Covered, Polling
  <2>1. CASE w = current
    BY <2>1 DEF Covered, Types
  <2>2. CASE w # current
    BY <2>2 DEF Covered
  <2>3. QED BY <2>1, <2>2
<1>3. OnTime'
  BY DEF OnTime, ToCome, Polling
<1>4. QED BY <1>1, <1>2, <1>3

\* What was asked of the workspace being polled its poll was told.
LEMMA CurrentIsTold ==
  ASSUME PInv, Polling
  PROVE  asked[current] \in Nat /\ asked[current] <= told
BY DEF PInv, Types, Covered, Fresh

LEMMA RecoverAndLoadKeeps ==
  ASSUME PInv, RecoverAndLoad
  PROVE  PInv'
<1> USE DEF PInv
<1>1. Polling /\ current \in Workspaces /\ told = 0
  BY DEF RecoverAndLoad, Polling, Types, NothingTold
<1>2. ASSUME NEW failed \in BOOLEAN, Finish(failed, 0), asked' = asked
      PROVE  PInv'
  BY <1>1, <1>2, FinishKeeps, CurrentIsTold DEF Types
<1>3. CASE phase' = "health" /\ NoTime /\ UNCHANGED <<current, call, failures, skipped>>
  BY <1>1, <1>3, PollGoesOn DEF NoTime, call, Types, NothingTold
<1>4. QED BY <1>2, <1>3 DEF RecoverAndLoad
LEMMA CallSucceedsKeeps ==
  ASSUME PInv, CallSucceeds
  PROVE  PInv'
<1> USE DEF PInv
<1>1. Polling /\ current \in Workspaces
  BY DEF CallSucceeds, Polling, Types
<1>2. CASE phase = "health" /\ watch = 0 /\ Finish(FALSE, 0) /\ UNCHANGED asked
  BY <1>1, <1>2, CurrentIsTold, FinishKeeps DEF Types, NothingTold
<1>3. CASE phase = "watch" /\ watch = 1 /\ Finish(failing, told) /\ UNCHANGED asked
  BY <1>1, <1>3, CurrentIsTold, FinishKeeps DEF Types, NothingTold
<1>4. CASE /\ phase = "health" /\ watch > 0 /\ phase' = "watch" /\ tries' = 0 /\ NoTime
           /\ UNCHANGED <<current, watch, failing, told, failures, skipped>>
  BY <1>1, <1>4, PollGoesOn DEF NoTime, Types, NothingTold
<1>5. CASE /\ phase = "watch" /\ watch > 1 /\ watch' = watch - 1 /\ tries' = 0 /\ NoTime
           /\ UNCHANGED <<phase, current, failing, told, failures, skipped>>
  BY <1>1, <1>5, PollGoesOn DEF NoTime, Types, NothingTold
<1>6. QED BY <1>2, <1>3, <1>4, <1>5 DEF CallSucceeds

LEMMA CallFailsKeeps ==
  ASSUME PInv, Fits, NEW after \in RetryAfters, CallFails(after)
  PROVE  PInv'
<1> USE DEF PInv
<1>1. Polling /\ current \in Workspaces
  BY DEF CallFails, Polling, Types
<1>2. after \in Nat /\ Told(after) = after
  BY ToldIsAsked
<1>3. asked[current] \in Nat /\ asked[current] <= told /\ told \in Nat
  BY <1>1, CurrentIsTold DEF Types
<1>4. /\ asked' \in [Workspaces -> Nat]
      /\ asked'[current] = IF after > asked[current] THEN after ELSE asked[current]
      /\ \A w \in Workspaces \ {current} : asked'[w] = asked[w]
  BY <1>1, <1>2, <1>3 DEF CallFails, AskedFor, Types
<1>5. /\ Longest(told, after) \in Nat /\ told <= Longest(told, after)
      /\ asked'[current] <= Longest(told, after)
  BY <1>2, <1>3, <1>4 DEF Longest
<1>6. CASE phase = "health" /\ Finish(TRUE, Told(after))
  <2>1. asked'[current] <= after
    BY <1>2, <1>3, <1>4, <1>6 DEF NothingTold
  <2>2. QED BY <1>1, <1>2, <1>4, <1>6, <2>1, FinishKeeps
<1>7. CASE phase = "watch" /\ watch = 1 /\ Finish(TRUE, Longest(told, Told(after)))
  BY <1>1, <1>2, <1>4, <1>5, <1>7, FinishKeeps
<1>8. CASE /\ phase = "watch" /\ watch > 1 /\ watch' = watch - 1 /\ tries' = 0
           /\ failing' = TRUE /\ told' = Longest(told, Told(after))
           /\ UNCHANGED <<phase, current, failures, skipped, wait>>
  BY <1>1, <1>2, <1>4, <1>5, <1>8, PollGoesOn DEF Types, NothingTold
<1>9. QED BY <1>6, <1>7, <1>8 DEF CallFails

LEMMA CallWaitsKeeps ==
  ASSUME PInv, Fits, NEW after \in RetryAfters, CallWaits(after)
  PROVE  PInv'
<1> USE DEF PInv
<1>1. after \in Nat /\ Passes(after)
  BY ToldIsAsked DEF CallWaits
<1>2. /\ wait' \in [Workspaces -> Nat] /\ asked' \in [Workspaces -> Nat]
      /\ \A w \in Workspaces :
           /\ wait'[w] <= wait[w] /\ asked'[w] <= asked[w]
           /\ asked[w] <= wait[w] => asked'[w] <= wait'[w]
  BY <1>1, TimePasses
<1>3. /\ Polling /\ phase' = phase /\ current' = current /\ current \in Workspaces
      /\ watch' = watch /\ tries' = tries + 1 /\ failing' = failing /\ told' = told
      /\ failures' = failures /\ skipped' = skipped
  BY DEF CallWaits, Polling, Types
<1>4. Types'
  BY <1>2, <1>3 DEF Types
<1>5. NothingTold'
  BY <1>3 DEF NothingTold
<1>6. \A w \in Workspaces : wait[w] \in Nat /\ wait'[w] \in Nat /\
                            asked[w] \in Nat /\ asked'[w] \in Nat
  BY <1>2 DEF Types
<1>7. Fresh'
  BY <1>2, <1>3, <1>6 DEF Fresh, Polling
<1>8. Covered'
  <2> SUFFICES ASSUME NEW w \in Workspaces
      PROVE  asked'[w] <= wait'[w] \/ (w = current /\ Polling /\ asked'[w] <= told)
    BY <1>3 DEF Covered, Polling
  <2>1. told \in Nat
    BY DEF Types
  <2>2. QED BY <1>2, <1>6, <2>1 DEF Covered
<1>9. OnTime'
  <2> SUFFICES ASSUME NEW w \in Workspaces, failures[w] = 0
      PROVE  \/ skipped[w] = 0 /\ wait'[w] <= (IF ToCome(w) THEN 2 ELSE 11)
             \/ skipped[w] = 1 /\ wait'[w] <= (IF ToCome(w) THEN 0 ELSE 2)
    BY <1>3 DEF OnTime, ToCome
  <2>1. QED BY <1>2, <1>6 DEF OnTime
<1>10. QED BY <1>4, <1>5, <1>7, <1>8, <1>9

LEMMA StepKeeps ==
  ASSUME PInv, Fits, [Next]_vars
  PROVE  PInv'
<1>1. CASE Wake BY <1>1, WakeKeeps
<1>2. CASE Start BY <1>2, StartKeeps
<1>3. CASE Skip BY <1>3, SkipKeeps
<1>4. CASE RecoverAndLoad BY <1>4, RecoverAndLoadKeeps
<1>5. CASE CallSucceeds BY <1>5, CallSucceedsKeeps
<1>6. ASSUME NEW after \in RetryAfters, CallFails(after) PROVE PInv'
  BY <1>6, CallFailsKeeps
<1>7. ASSUME NEW after \in RetryAfters, CallWaits(after) PROVE PInv'
  BY <1>7, CallWaitsKeeps
<1>8. CASE UNCHANGED vars
  BY <1>8 DEF vars, call, PInv, Types, NothingTold, Covered, OnTime, Fresh, Polling, ToCome
<1>9. QED BY <1>1, <1>2, <1>3, <1>4, <1>5, <1>6, <1>7, <1>8 DEF Next, Loop

LEMMA InitHolds ==
  ASSUME Init
  PROVE  PInv
<1>1. 1 \in Workspaces
  BY ConstantsAssumption DEF ConstantsAssumption, Workspaces
<1>2. Types
  <2>1. /\ wait \in [Workspaces -> Nat] /\ asked \in [Workspaces -> Nat]
        /\ failures \in [Workspaces -> 0 .. Saturated]
        /\ skipped \in [Workspaces -> 0 .. MaxSkipped]
    BY DEF Init, Saturated, MaxSkipped
  <2>2. QED BY <1>1, <2>1 DEF Init, Types
<1>3. NothingTold /\ Covered /\ Fresh
  BY DEF Init, NothingTold, Covered, Fresh, Polling
<1>4. OnTime
  BY DEF Init, OnTime
<1>5. QED BY <1>2, <1>3, <1>4 DEF PInv

LEMMA Invariance ==
  ASSUME Fits
  PROVE  Spec => []PInv
BY InitHolds, StepKeeps, PTL DEF Spec

-----------------------------------------------------------------------------
(* The properties. *)

\* A workspace whose poll went well is passed over at most once before it is
\* polled again, with any number of workspaces and whatever the others'
\* providers ask for.
THEOREM HealthySkippedAtMostOnce ==
  ASSUME Fits
  PROVE  Spec => []HealthyIsSkippedAtMostOnce
<1>1. PInv => HealthyIsSkippedAtMostOnce
  BY DEF PInv, OnTime, HealthyIsSkippedAtMostOnce
<1>2. QED BY <1>1, Invariance, PTL

\* A provider's Retry-After is kept, whichever of a poll's calls was told so,
\* whether the poll went on after it and however long the schedule's own delay.
THEOREM RetryAfterKept ==
  ASSUME Fits
  PROVE  Spec => RetryAfterIsKept
<1>1. ASSUME PInv, [Next]_vars
      PROVE  [\A w \in Workspaces :
                skipped'[w] = 0 /\ phase' = "recover" /\ current' = w
                  => asked[w] = 0]_vars
  <2>1. CASE Start
    BY <1>1, <2>1, StartKeeps
  <2>2. CASE ~ Start /\ ~ UNCHANGED vars
    BY <1>1, <2>2
    DEF Next, Loop, Wake, Skip, RecoverAndLoad, CallSucceeds, CallFails, CallWaits,
        Finish, Continue
  <2>3. QED BY <2>1, <2>2
<1>2. QED BY <1>1, Invariance, PTL DEF Spec, RetryAfterIsKept
=============================================================================
