------------------------- MODULE OAuthRefreshProofs -------------------------
(***************************************************************************)
(* Proofs about OAuthRefresh for any sources, credentials and faults.      *)
(***************************************************************************)
EXTENDS OAuthRefresh, TLAPS

\* The server rotates: each token but the newest was exchanged for the next.
Chain ==
  \A t \in Credentials : gave[t] = IF t < issued THEN t + 1 ELSE None

\* Nobody holds a credential that was not issued.
Held ==
  /\ saved <= issued
  /\ \A s \in Sources : has[s] <= issued /\ (got[s] = None \/ got[s] <= issued)

\* What comes of an exchange is the newest credential, and who saves has one.
Answers ==
  \A s \in Sources :
    /\ pc[s] = "answered" /\ got[s] # None =>
         issued = has[s] + 1 /\ got[s] = issued
    /\ pc[s] = "save" => got[s] # None

\* The newest credential is of a remembered exchange, or of one whose answer
\* is about to be, unless it has expired, the answer was lost or the scope is
\* revoked.
Newest(t) ==
  \/ t \in forgotten \/ life[issued] = "expired"
  \/ completed = t
  \/ \E s \in Sources : pc[s] = "answered" /\ has[s] = t /\ got[s] = issued
Remembered ==
  /\ completed # None => completed < issued
  /\ ~ revoked => \A t \in Credentials : issued = t + 1 => Newest(t)

RInv ==
  /\ TypeOK /\ OneExchange
  /\ Chain /\ Held /\ Answers /\ Remembered
-----------------------------------------------------------------------------

LEMMA InitRInv == Init => RInv
<1>. SUFFICES ASSUME Init PROVE RInv
  OBVIOUS
<1>. USE ConstantsAssumption DEF Init, Credentials, None
<1>1. TypeOK
  <2>1. /\ gave \in [Credentials -> Credentials \cup {None}]
        /\ life \in [Credentials -> {"fresh", "due", "expired"}]
    OBVIOUS
  <2>2. /\ issued \in Credentials /\ saved \in Credentials
        /\ completed \in Credentials \cup {None} /\ faults \in 0 .. MaxFaults
    OBVIOUS
  <2>3. /\ inFlight \in BOOLEAN /\ revoked \in BOOLEAN
        /\ forgotten \subseteq Credentials
    OBVIOUS
  <2>4. /\ has \in [Sources -> Credentials]
        /\ got \in [Sources -> Credentials \cup {None}]
    OBVIOUS
  <2>. QED
    BY <2>1, <2>2, <2>3, <2>4 DEF TypeOK
<1>2. OneExchange
  BY DEF OneExchange, Exchanging, Waiting
<1>3. Chain /\ Held /\ Answers
  BY DEF Chain, Held, Answers
<1>4. Remembered
  BY DEF Remembered
<1>. QED
  BY <1>1, <1>2, <1>3, <1>4 DEF RInv

LEMMA LoadRInv ==
  ASSUME RInv, NEW s \in Sources, Load(s)
  PROVE  RInv'
<1>. USE ConstantsAssumption DEF RInv, Load, Goes, serverVars, refresherVars, sourceVars
<1>1. TypeOK'
  BY DEF TypeOK, Credentials, None
<1>2. OneExchange'
  BY DEF TypeOK, OneExchange, Exchanging, Waiting
<1>3. (Chain /\ Held /\ Answers)'
  BY DEF TypeOK, Chain, Held, Answers, OneExchange, Exchanging, Credentials, None
<1>4. Remembered'
  BY DEF TypeOK, Remembered, Newest, Chain, Answers, OneExchange, Exchanging,
         Credentials, None
<1>. QED
  BY <1>1, <1>2, <1>3, <1>4 DEF RInv

LEMMA SaveRInv ==
  ASSUME RInv, NEW s \in Sources, Save(s)
  PROVE  RInv'
<1>. USE ConstantsAssumption DEF RInv, Save, Goes, serverVars, refresherVars, sourceVars
<1>1. TypeOK'
  BY DEF TypeOK, Answers, Credentials, None
<1>2. OneExchange'
  BY DEF TypeOK, OneExchange, Exchanging, Waiting
<1>3. (Chain /\ Held /\ Answers)'
  BY DEF TypeOK, Chain, Held, Answers, OneExchange, Exchanging, Credentials, None
<1>4. Remembered'
  BY DEF TypeOK, Remembered, Newest, Chain, Answers, OneExchange, Exchanging,
         Credentials, None
<1>. QED
  BY <1>1, <1>2, <1>3, <1>4 DEF RInv

LEMMA SaveFailsRInv ==
  ASSUME RInv, NEW s \in Sources, SaveFails(s)
  PROVE  RInv'
<1>. USE ConstantsAssumption DEF RInv, SaveFails, Goes, Fault, serverVars, refresherVars, sourceVars
<1>1. TypeOK'
  BY DEF TypeOK, Answers, Credentials, None
<1>2. OneExchange'
  BY DEF TypeOK, OneExchange, Exchanging, Waiting
<1>3. (Chain /\ Held /\ Answers)'
  BY DEF TypeOK, Chain, Held, Answers, OneExchange, Exchanging, Credentials, None
<1>4. Remembered'
  BY DEF TypeOK, Remembered, Newest, Chain, Answers, OneExchange, Exchanging,
         Credentials, None
<1>. QED
  BY <1>1, <1>2, <1>3, <1>4 DEF RInv

LEMMA RefuseRevokedRInv ==
  ASSUME RInv, NEW s \in Sources, RefuseRevoked(s)
  PROVE  RInv'
<1>. USE ConstantsAssumption DEF RInv, RefuseRevoked, Goes, Purged, serverVars, refresherVars, sourceVars
<1>1. TypeOK'
  BY DEF TypeOK, Credentials, None
<1>2. OneExchange'
  BY DEF TypeOK, OneExchange, Exchanging, Waiting
<1>3. (Chain /\ Held /\ Answers)'
  BY DEF TypeOK, Chain, Held, Answers, OneExchange, Exchanging, Credentials, None
<1>4. Remembered'
  BY DEF TypeOK, Remembered, Newest, Chain, Answers, OneExchange, Exchanging,
         Credentials, None
<1>. QED
  BY <1>1, <1>2, <1>3, <1>4 DEF RInv

LEMMA RecallRInv ==
  ASSUME RInv, NEW s \in Sources, Recall(s)
  PROVE  RInv'
<1>. USE ConstantsAssumption DEF RInv, Recall, Goes, Purged, serverVars, refresherVars, sourceVars
<1>1. TypeOK'
  <2>1. completed = has[s] /\ gave[has[s]] \in Credentials
    BY DEF TypeOK, Remembered, Chain, Credentials, None
  <2>. QED
    BY <2>1 DEF TypeOK, Credentials, None
<1>2. OneExchange'
  BY DEF TypeOK, OneExchange, Exchanging, Waiting
<1>3. (Chain /\ Held /\ Answers)'
  <2>1. /\ gave[has[s]] = has[s] + 1 /\ has[s] < issued
        /\ has[s] + 1 # None /\ has[s] + 1 <= issued
    BY DEF TypeOK, Remembered, Chain, Credentials, None
  <2>2. pc[s] = "loaded" /\ got' = [got EXCEPT ![s] = has[s] + 1]
        /\ pc' = [pc EXCEPT ![s] = "save"]
        /\ UNCHANGED <<issued, gave, saved, has>>
    BY <2>1
  <2>. QED
    BY <2>1, <2>2 DEF TypeOK, Chain, Held, Answers
<1>4. Remembered'
  BY DEF TypeOK, Remembered, Newest, Chain, Answers, OneExchange, Exchanging,
         Credentials, None
<1>. QED
  BY <1>1, <1>2, <1>3, <1>4 DEF RInv

LEMMA JoinRInv ==
  ASSUME RInv, NEW s \in Sources, Join(s)
  PROVE  RInv'
<1>. USE ConstantsAssumption DEF RInv, Join, Goes, Purged, serverVars, refresherVars, sourceVars
<1>1. TypeOK'
  BY DEF TypeOK, Credentials, None
<1>2. OneExchange'
  BY DEF TypeOK, OneExchange, Exchanging, Waiting
<1>3. (Chain /\ Held /\ Answers)'
  BY DEF TypeOK, Chain, Held, Answers, OneExchange, Exchanging, Credentials, None
<1>4. Remembered'
  BY DEF TypeOK, Remembered, Newest, Chain, Answers, OneExchange, Exchanging,
         Credentials, None
<1>. QED
  BY <1>1, <1>2, <1>3, <1>4 DEF RInv

LEMMA BeginRInv ==
  ASSUME RInv, NEW s \in Sources, Begin(s)
  PROVE  RInv'
<1>. USE ConstantsAssumption DEF RInv, Begin, Goes, Purged, serverVars, refresherVars, sourceVars
<1>1. TypeOK'
  BY DEF TypeOK, Credentials, None
<1>2. OneExchange'
  BY DEF TypeOK, OneExchange, Exchanging, Waiting
<1>3. (Chain /\ Held /\ Answers)'
  BY DEF TypeOK, Chain, Held, Answers, OneExchange, Exchanging, Credentials, None
<1>4. Remembered'
  BY DEF TypeOK, Remembered, Newest, Chain, Answers, OneExchange, Exchanging,
         Credentials, None
<1>. QED
  BY <1>1, <1>2, <1>3, <1>4 DEF RInv

\* The token was not spent, so it is the newest.
LEMMA GrantRInv ==
  ASSUME RInv, NEW s \in Sources, Grant(s)
  PROVE  RInv'
<1>. USE ConstantsAssumption DEF RInv
<1>0. has[s] = issued /\ issued \in Nat /\ issued + 1 \in Credentials
  BY DEF Grant, Spent, TypeOK, Chain, Held, Credentials, None
<1>a. /\ pc[s] = "exchange" /\ pc' = [pc EXCEPT ![s] = "answered"]
      /\ issued' = issued + 1 /\ gave' = [gave EXCEPT ![issued] = issued + 1]
      /\ UNCHANGED <<saved, inFlight, completed, revoked, has>>
  BY <1>0 DEF Grant, Goes, refresherVars
<1>b. PICK l \in {"fresh", "due"} : life' = [life EXCEPT ![issued + 1] = l]
  BY DEF Grant
<1>c. \/ /\ got' = [got EXCEPT ![s] = issued + 1]
         /\ UNCHANGED <<forgotten, faults>>
      \/ /\ got' = [got EXCEPT ![s] = None] /\ forgotten' = forgotten \cup {issued}
         /\ faults < MaxFaults /\ faults' = faults + 1
  BY <1>0 DEF Grant, Fault
<1>1. TypeOK'
  <2>1. /\ issued' \in Credentials
        /\ gave' \in [Credentials -> Credentials \cup {None}]
    BY <1>0, <1>a DEF TypeOK
  <2>2. life' \in [Credentials -> {"fresh", "due", "expired"}]
    BY <1>b DEF TypeOK
  <2>3. pc' \in [Sources ->
          {"idle", "loaded", "exchange", "answered", "wait", "save"}]
    BY <1>a DEF TypeOK
  <2>4. got' \in [Sources -> Credentials \cup {None}]
    BY <1>0, <1>c DEF TypeOK
  <2>5. issued \in Credentials /\ forgotten' \subseteq Credentials
    BY <1>0, <1>c DEF TypeOK
  <2>6. faults' \in 0 .. MaxFaults
    BY <1>c DEF TypeOK
  <2>. QED
    BY <1>a, <2>1, <2>2, <2>3, <2>4, <2>5, <2>6 DEF TypeOK
<1>2. OneExchange'
  BY <1>a DEF TypeOK, OneExchange, Exchanging, Waiting
<1>3. (Chain /\ Held /\ Answers)'
  <2>1. Chain'
    BY <1>0, <1>a DEF TypeOK, Chain, Credentials, None
  <2>2. Held'
    BY <1>0, <1>a, <1>c DEF TypeOK, Held, Credentials, None
  <2>3. Answers'
    BY <1>0, <1>a, <1>c
    DEF TypeOK, Answers, OneExchange, Exchanging, Credentials, None
  <2>. QED
    BY <2>1, <2>2, <2>3
<1>4. Remembered'
  BY <1>0, <1>a, <1>c DEF TypeOK, Remembered, Newest, Credentials, None
<1>. QED
  BY <1>1, <1>2, <1>3, <1>4 DEF RInv

LEMMA RefuseRInv ==
  ASSUME RInv, NEW s \in Sources, Refuse(s)
  PROVE  RInv'
<1>. USE ConstantsAssumption DEF RInv, Refuse, Goes, Fault, serverVars, refresherVars, sourceVars
<1>1. TypeOK'
  BY DEF TypeOK, Credentials, None
<1>2. OneExchange'
  BY DEF TypeOK, OneExchange, Exchanging, Waiting
<1>3. (Chain /\ Held /\ Answers)'
  BY DEF TypeOK, Chain, Held, Answers, OneExchange, Exchanging, Credentials, None
<1>4. Remembered'
  BY DEF TypeOK, Remembered, Newest, Chain, Answers, OneExchange, Exchanging,
         Credentials, None
<1>. QED
  BY <1>1, <1>2, <1>3, <1>4 DEF RInv

LEMMA PublishRInv ==
  ASSUME RInv, NEW s \in Sources, Publish(s)
  PROVE  RInv'
<1>. USE ConstantsAssumption DEF RInv, Publish, Waiting, serverVars, refresherVars, sourceVars
<1>1. TypeOK'
  BY DEF TypeOK, Credentials, None
<1>2. OneExchange'
  BY DEF TypeOK, OneExchange, Exchanging, Waiting
<1>3. (Chain /\ Held /\ Answers)'
  BY DEF TypeOK, Chain, Held, Answers, OneExchange, Exchanging, Credentials, None
<1>4. Remembered'
  BY DEF TypeOK, Remembered, Newest, Chain, Answers, OneExchange, Exchanging,
         Credentials, None
<1>. QED
  BY <1>1, <1>2, <1>3, <1>4 DEF RInv

LEMMA GiveUpRInv ==
  ASSUME RInv, NEW s \in Sources, GiveUp(s)
  PROVE  RInv'
<1>. USE ConstantsAssumption DEF RInv, GiveUp, Goes, Fault, serverVars, refresherVars, sourceVars
<1>1. TypeOK'
  BY DEF TypeOK, Credentials, None
<1>2. OneExchange'
  BY DEF TypeOK, OneExchange, Exchanging, Waiting
<1>3. (Chain /\ Held /\ Answers)'
  BY DEF TypeOK, Chain, Held, Answers, OneExchange, Exchanging, Credentials, None
<1>4. Remembered'
  BY DEF TypeOK, Remembered, Newest, Chain, Answers, OneExchange, Exchanging,
         Credentials, None
<1>. QED
  BY <1>1, <1>2, <1>3, <1>4 DEF RInv

LEMMA InvalidateRInv ==
  ASSUME RInv, Invalidate
  PROVE  RInv'
<1>. USE ConstantsAssumption DEF RInv, Invalidate, serverVars, refresherVars, sourceVars
<1>1. TypeOK'
  BY DEF TypeOK, Credentials, None
<1>2. OneExchange'
  BY DEF TypeOK, OneExchange, Exchanging, Waiting
<1>3. (Chain /\ Held /\ Answers)'
  BY DEF TypeOK, Chain, Held, Answers, OneExchange, Exchanging, Credentials, None
<1>4. Remembered'
  BY DEF TypeOK, Remembered, Newest, Chain, Answers, OneExchange, Exchanging,
         Credentials, None
<1>. QED
  BY <1>1, <1>2, <1>3, <1>4 DEF RInv

LEMMA AgeRInv ==
  ASSUME RInv, NEW v \in Credentials, Age(v)
  PROVE  RInv'
<1>. USE ConstantsAssumption DEF RInv, Age, serverVars, refresherVars, sourceVars
<1>1. TypeOK'
  BY DEF TypeOK, Credentials, None
<1>2. OneExchange'
  BY DEF TypeOK, OneExchange, Exchanging, Waiting
<1>3. (Chain /\ Held /\ Answers)'
  BY DEF TypeOK, Chain, Held, Answers, OneExchange, Exchanging, Credentials, None
<1>4. Remembered'
  BY DEF TypeOK, Remembered, Newest, Chain, Answers, OneExchange, Exchanging,
         Credentials, None
<1>. QED
  BY <1>1, <1>2, <1>3, <1>4 DEF RInv

LEMMA StopRInv ==
  ASSUME RInv, Stop
  PROVE  RInv'
<1>. USE ConstantsAssumption DEF RInv, Stop, Fault, Spent, serverVars, refresherVars, sourceVars
<1>1. TypeOK'
  <2>1. forgotten' \subseteq Credentials
    OBVIOUS
  <2>2. faults' \in 0 .. MaxFaults
    BY DEF TypeOK
  <2>. QED
    BY <2>1, <2>2 DEF TypeOK
<1>2. OneExchange'
  BY DEF TypeOK, OneExchange, Exchanging, Waiting
<1>3. (Chain /\ Held /\ Answers)'
  BY DEF TypeOK, Chain, Held, Answers, OneExchange, Exchanging, Credentials, None
<1>4. Remembered'
  BY DEF TypeOK, Remembered, Newest, Chain, Answers, OneExchange, Exchanging,
         Credentials, None
<1>. QED
  BY <1>1, <1>2, <1>3, <1>4 DEF RInv

LEMMA NextRInv == RInv /\ [Next]_vars => RInv'
<1>. SUFFICES ASSUME RInv, [Next]_vars PROVE RInv'
  OBVIOUS
<1>1. CASE UNCHANGED vars
  BY <1>1 DEF vars, serverVars, refresherVars, sourceVars, RInv, TypeOK,
              OneExchange, Exchanging, Waiting, Chain, Held, Answers,
              Remembered, Newest
<1>2. ASSUME NEW s \in Sources,
             Load(s) \/ Advance(s) \/ SaveFails(s) \/ GiveUp(s)
      PROVE  RInv'
  BY <1>2, LoadRInv, SaveRInv, SaveFailsRInv, RefuseRevokedRInv, RecallRInv,
     JoinRInv, BeginRInv, GrantRInv, RefuseRInv, PublishRInv, GiveUpRInv
  DEF Advance
<1>3. ASSUME NEW v \in Credentials, Age(v) PROVE RInv'
  BY <1>3, AgeRInv
<1>4. CASE Invalidate \/ Stop
  BY <1>4, InvalidateRInv, StopRInv
<1>. QED
  BY <1>1, <1>2, <1>3, <1>4 DEF Next

LEMMA RInvHolds == Spec => []RInv
<1>. QED
  BY InitRInv, NextRInv, PTL DEF Spec

-----------------------------------------------------------------------------

\* However many sources find the credential due at once, and however calls
\* fail, one exchange of the scope is under way at a time, and no source waits
\* for one that is over (Refresher.Refresh).
THEOREM RefreshesOnce == Spec => [](TypeOK /\ OneExchange)
<1>1. RInv => TypeOK /\ OneExchange
  BY DEF RInv
<1>. QED
  BY <1>1, RInvHolds, PTL

\* What can start an exchange.
LEMMA OnlyBeginExchanges ==
  ASSUME RInv, [Next]_vars, NEW s \in Sources,
         pc[s] # "exchange", pc'[s] = "exchange"
  PROVE  Begin(s)
<1>1. ASSUME NEW r \in Sources, Load(r) \/ Advance(r) \/ SaveFails(r) \/ GiveUp(r)
      PROVE  Begin(s)
  BY <1>1
  DEF RInv, TypeOK, Load, Advance, Save, SaveFails, RefuseRevoked, Recall, Join,
      Begin, Grant, Refuse, Publish, GiveUp, Goes
<1>2. ~ \E v \in Credentials : Age(v)
  BY DEF Age, sourceVars
<1>3. ~ Invalidate /\ ~ Stop
  BY DEF Invalidate, Stop, sourceVars
<1>4. ~ UNCHANGED vars
  BY DEF vars, sourceVars
<1>. QED
  BY <1>1, <1>2, <1>3, <1>4 DEF Next

\* A refresh token that was exchanged is sent again only if its answer was
\* lost, or what it brought has expired or was exchanged in turn (the completed
\* exchange that Refresh remembers).
THEOREM SpentTokensAreRecalled == Spec => SpentTokenIsRecalled
<1>1. ASSUME RInv, [Next]_vars, NEW s \in Sources,
             pc[s] # "exchange", pc'[s] = "exchange", Spent(has[s])
      PROVE  Excused(has[s])
  <2>. USE <1>1, ConstantsAssumption DEF RInv
  <2>1. Begin(s)
    BY OnlyBeginExchanges
  <2>2. /\ has[s] \in Credentials /\ has[s] < issued
        /\ gave[has[s]] = has[s] + 1 /\ issued \in Credentials
    BY DEF Spent, TypeOK, Chain, Held, Credentials, None
  <2>3. CASE has[s] + 1 < issued
    <3>1. has[s] + 1 \in Credentials /\ gave[has[s] + 1] # None
      BY <2>2, <2>3 DEF Chain, Credentials, None
    <3>. QED
      BY <2>2, <3>1 DEF Excused, Spent
  <2>4. CASE has[s] + 1 = issued
    <3>1. Newest(has[s])
      BY <2>1, <2>2, <2>4 DEF Begin, Remembered, Newest
    <3>2. ~ \E r \in Sources : pc[r] = "answered"
      BY <2>1 DEF Begin, OneExchange, Exchanging, TypeOK
    <3>3. completed = has[s] => life[issued] = "expired"
      BY <2>1, <2>2, <2>4 DEF Begin, Purged
    <3>. QED
      BY <2>2, <2>4, <3>1, <3>2, <3>3 DEF Newest, Excused
  <2>. QED
    BY <2>2, <2>3, <2>4 DEF Credentials
<1>2. RInv /\ [Next]_vars =>
        [\A s \in Sources :
           pc[s] # "exchange" /\ pc'[s] = "exchange" /\ Spent(has[s])
             => Excused(has[s])]_vars
  BY <1>1
<1>. QED
  BY <1>2, RInvHolds, PTL DEF Spec, SpentTokenIsRecalled

\* After Invalidate no source is given a credential to save: neither the caller
\* of an exchange under way nor one that joined it.
THEOREM NothingIsGivenAfterRevocation == Spec => NothingAfterRevocation
<1>1. ASSUME RInv, [Next]_vars, revoked, NEW s \in Sources, pc'[s] = "save"
      PROVE  pc[s] = "save"
  <2>1. ASSUME NEW r \in Sources,
               Load(r) \/ Advance(r) \/ SaveFails(r) \/ GiveUp(r)
        PROVE  pc[s] = "save"
    BY <1>1, <2>1
    DEF RInv, TypeOK, Load, Advance, Save, SaveFails, RefuseRevoked, Recall,
        Join, Begin, Grant, Refuse, Publish, GiveUp, Goes
  <2>2. CASE \E v \in Credentials : Age(v)
    BY <1>1, <2>2 DEF Age, sourceVars
  <2>3. ~ Invalidate /\ ~ Stop
    BY <1>1 DEF Invalidate, Stop
  <2>4. CASE UNCHANGED vars
    BY <1>1, <2>4 DEF vars, sourceVars
  <2>. QED
    BY <1>1, <2>1, <2>2, <2>3, <2>4 DEF Next
<1>2. RInv /\ [Next]_vars =>
        [revoked => \A s \in Sources : pc'[s] = "save" => pc[s] = "save"]_vars
  BY <1>1
<1>. QED
  BY <1>2, RInvHolds, PTL DEF Spec, NothingAfterRevocation
=============================================================================
