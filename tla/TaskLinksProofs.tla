-------------------------- MODULE TaskLinksProofs --------------------------
(***************************************************************************)
(* Proofs about TaskLinks, for any pull requests, clients and cap: nothing *)
(* is both linked and suppressed, no link a person made is lost, and a     *)
(* suppression ends only by a link or by age.                              *)
(*                                                                         *)
(* A client writes what it made of the record it loaded, so the invariant  *)
(* says that between the two nobody else writes: the client with a call    *)
(* under way holds the mutex, and its copy is the stored record (Alone).   *)
(*                                                                         *)
(* What Without returns is shown by induction on the loop's position, as   *)
(* the smallest position it fails at: the set of those it holds at has 0   *)
(* and every successor, so it has all (Nat is well-founded).               *)
(***************************************************************************)
EXTENDS TaskLinks, SequenceTheorems, WellFoundedInduction, TLAPS

Record == [links : Seq(PRs), suppressed : Seq(PRs)]

Sound(v) ==
  /\ v \in Record
  /\ Distinct(v.links) /\ Distinct(v.suppressed)
  /\ Elements(v.links) \cap Elements(v.suppressed) = {}
  /\ Len(v.suppressed) <= Cap

Calls == [op : {"none", "List", "Link", "AutoLink", "Unlink"},
          pr : PRs \cup {Nobody}, locked : BOOLEAN]

\* Only a person's request unlinks, and it does nothing but link or unlink.
WellCalled ==
  /\ call \in [Clients -> Calls]
  /\ pc \in [Clients -> {"idle", "request", "list", "auto", "found", "refresh"}]
  /\ wish \in [PRs -> {"none", "linked", "unlinked"}]
  /\ \A c \in Clients :
       /\ call[c].op \in {"Link", "AutoLink", "Unlink"} => call[c].pr \in PRs
       /\ call[c].locked => call[c].op # "none"
       /\ call[c].op = "Unlink" => pc[c] = "request"
       /\ pc[c] = "request" => call[c].op \in {"Link", "Unlink"}

\* A call that has loaded the record holds the mutex, and nobody saved since.
Alone ==
  /\ view \in [Clients -> Record]
  /\ \A c \in Clients : call[c].locked => holder = c /\ view[c] = stored

LinksInv ==
  /\ Sound(stored) /\ WellCalled /\ Alone /\ NoLinkLost

-----------------------------------------------------------------------------
(* Induction. *)

\* A set of numbers with 0 and every successor has all.
LEMMA NatSetInduction ==
  ASSUME NEW S, 0 \in S, \A n \in Nat : n \in S => n + 1 \in S
  PROVE  Nat \subseteq S
<1>. DEFINE R == OpToRel(<, Nat)
<1>1. IsWellFoundedOn(R, Nat) BY NatLessThanWellFounded, Zenon
<1>2. \A i, j \in Nat : i < j => <<i, j>> \in R BY DEF OpToRel
<1>. SUFFICES ASSUME Nat \ S # {} PROVE FALSE OBVIOUS
<1>. HIDE DEF R
<1>3. PICK x \in Nat \ S : \A y \in Nat \ S : <<y, x>> \notin R
  BY <1>1, WFMin
<1>4. x # 0 /\ x - 1 \in Nat /\ x - 1 < x /\ x \in Nat OBVIOUS
<1>5. <<x - 1, x>> \in R BY <1>2, <1>4
<1>6. x - 1 \in S BY <1>3, <1>4, <1>5
<1>7. x \in S BY <1>4, <1>6
<1>. QED BY <1>7

-----------------------------------------------------------------------------
(* Without. *)

\* "k" is what the loop has kept after each of its first "m" steps.
Keeps(k, m, s, p) ==
  k = [n \in 0 .. m |->
         IF n = 0 THEN <<>>
         ELSE IF s[n] = p THEN k[n - 1] ELSE Append(k[n - 1], s[n])]

LEMMA KeptExists ==
  ASSUME NEW s \in Seq(PRs), NEW p
  PROVE  \E k : Keeps(k, Len(s), s, p)
<1>. DEFINE S == {m \in Nat : \E k : Keeps(k, m, s, p)}
<1>1. 0 \in S
  <2>. DEFINE k == [n \in 0 .. 0 |-> <<>>]
  <2>1. Keeps(k, 0, s, p) BY DEF Keeps
  <2>. HIDE DEF k
  <2>. QED BY <2>1
<1>2. ASSUME NEW m \in Nat, m \in S PROVE m + 1 \in S
  <2>1. PICK k : Keeps(k, m, s, p) BY <1>2
  <2>. DEFINE j == [n \in 0 .. m + 1 |->
                      IF n <= m THEN k[n]
                      ELSE IF s[n] = p THEN k[m] ELSE Append(k[m], s[n])]
  <2>2. \A n \in 0 .. m : j[n] = k[n] OBVIOUS
  <2>3. j[m + 1] = IF s[m + 1] = p THEN k[m] ELSE Append(k[m], s[m + 1]) OBVIOUS
  <2>4. DOMAIN j = 0 .. m + 1 /\ j = [n \in 0 .. m + 1 |-> j[n]] OBVIOUS
  <2>5. \A n \in 0 .. m : k[n] = IF n = 0 THEN <<>>
                                 ELSE IF s[n] = p THEN k[n - 1]
                                 ELSE Append(k[n - 1], s[n])
    BY <2>1 DEF Keeps
  <2>. HIDE DEF j
  <2>6. ASSUME NEW n \in 0 .. m + 1
        PROVE  j[n] = IF n = 0 THEN <<>>
                      ELSE IF s[n] = p THEN j[n - 1] ELSE Append(j[n - 1], s[n])
    <3>1. CASE n = 0 BY <2>2, <2>5, <3>1
    <3>2. CASE n \in 1 .. m
      <4>1. n \in 0 .. m /\ n - 1 \in 0 .. m /\ n # 0 BY <3>2
      <4>. QED BY <2>2, <2>5, <4>1
    <3>3. CASE n = m + 1
      <4>1. n - 1 = m /\ m \in 0 .. m /\ n # 0 BY <3>3
      <4>. QED BY <2>2, <2>3, <3>3, <4>1
    <3>. QED BY <3>1, <3>2, <3>3
  <2>7. Keeps(j, m + 1, s, p) BY <2>4, <2>6 DEF Keeps
  <2>. QED BY <2>7
<1>. HIDE DEF S
<1>3. Nat \subseteq S BY <1>1, <1>2, NatSetInduction
<1>4. Len(s) \in S BY <1>3, LenProperties
<1>. QED BY <1>4 DEF S

\* What was kept of the first "n": those that are not "p", in their order.
KeptOf(t, n, s, p) ==
  /\ t \in Seq(PRs) /\ Len(t) <= n
  /\ \A q : Has(t, q) <=> q # p /\ \E i \in 1 .. n : s[i] = q
  /\ Distinct(s) => Distinct(t)

LEMMA HasAppended ==
  ASSUME NEW s \in Seq(PRs), NEW p \in PRs
  PROVE  /\ Append(s, p) \in Seq(PRs) /\ Len(Append(s, p)) = Len(s) + 1
         /\ \A q : Has(Append(s, p), q) <=> Has(s, q) \/ q = p
         /\ Distinct(s) /\ ~ Has(s, p) => Distinct(Append(s, p))
<1>1. /\ Append(s, p) \in Seq(PRs) /\ Len(Append(s, p)) = Len(s) + 1
      /\ \A i \in 1 .. Len(s) : Append(s, p)[i] = s[i]
      /\ Append(s, p)[Len(s) + 1] = p
  BY AppendProperties
<1>2. Len(s) \in Nat /\ DOMAIN s = 1 .. Len(s) BY LenProperties
<1>3. DOMAIN Append(s, p) = 1 .. Len(s) + 1 BY <1>1, LenProperties
<1>. PICK t : t = Append(s, p) OBVIOUS
<1>4. /\ \A q : Has(t, q) <=> Has(s, q) \/ q = p
      /\ Distinct(s) /\ ~ Has(s, p) => Distinct(t)
  BY <1>1, <1>2, <1>3 DEF Has, Distinct
<1>. QED BY <1>1, <1>4

LEMMA WithoutFacts ==
  ASSUME NEW s \in Seq(PRs), NEW p
  PROVE  KeptOf(Without(s, p), Len(s), s, p)
<1>. DEFINE k == CHOOSE k : Keeps(k, Len(s), s, p)
<1>1. Keeps(k, Len(s), s, p) BY KeptExists
<1>2. Without(s, p) = k[Len(s)] BY <1>1 DEF Without, Keeps
<1>. HIDE DEF k
<1>3. Len(s) \in Nat /\ DOMAIN s = 1 .. Len(s) BY LenProperties
<1>4. \A i \in 1 .. Len(s) : s[i] \in PRs BY ElementOfSeq
<1>5. \A n \in 0 .. Len(s) : k[n] = IF n = 0 THEN <<>>
                                    ELSE IF s[n] = p THEN k[n - 1]
                                    ELSE Append(k[n - 1], s[n])
  BY <1>1 DEF Keeps
<1>. DEFINE S == {n \in Nat : n <= Len(s) => KeptOf(k[n], n, s, p)}
<1>6. 0 \in S
  <2>1. k[0] = <<>> BY <1>3, <1>5
  <2>2. KeptOf(<<>>, 0, s, p) BY DEF KeptOf, Has, Distinct
  <2>. QED BY <2>1, <2>2
<1>7. ASSUME NEW n \in Nat, n \in S PROVE n + 1 \in S
  <2>. SUFFICES ASSUME n + 1 <= Len(s) PROVE KeptOf(k[n + 1], n + 1, s, p)
    OBVIOUS
  <2>1. n + 1 \in 1 .. Len(s) /\ n + 1 \in 0 .. Len(s) /\ n + 1 # 0
        /\ (n + 1) - 1 = n /\ n <= Len(s)
    BY <1>3
  <2>2. k[n + 1] = IF s[n + 1] = p THEN k[n] ELSE Append(k[n], s[n + 1])
    BY <1>5, <2>1
  <2>3. KeptOf(k[n], n, s, p) BY <1>7, <2>1
  <2>4. s[n + 1] \in PRs BY <1>4, <2>1
  <2>5. \A q : (\E i \in 1 .. n + 1 : s[i] = q)
                 <=> (\E i \in 1 .. n : s[i] = q) \/ q = s[n + 1]
    OBVIOUS
  <2>6. CASE s[n + 1] = p
    <3>1. k[n + 1] = k[n] BY <2>2, <2>6
    <3>. PICK t : t = k[n] OBVIOUS
    <3>2. Len(t) <= n => Len(t) <= n + 1 BY <2>3, LenProperties DEF KeptOf
    <3>. QED BY <2>3, <2>5, <2>6, <3>1, <3>2 DEF KeptOf
  <2>7. CASE s[n + 1] # p
    <3>. PICK t : t = k[n] OBVIOUS
    <3>0. KeptOf(t, n, s, p) BY <2>3
    <3>1. k[n + 1] = Append(t, s[n + 1]) BY <2>2, <2>7
    <3>2. t \in Seq(PRs) /\ Len(t) \in Nat /\ Len(t) <= n
      BY <3>0, LenProperties DEF KeptOf
    <3>3. Distinct(s) => ~ Has(t, s[n + 1])
      <4>. SUFFICES ASSUME Distinct(s), Has(t, s[n + 1]) PROVE FALSE OBVIOUS
      <4>1. PICK i \in 1 .. n : s[i] = s[n + 1] BY <3>0 DEF KeptOf
      <4>2. i \in DOMAIN s /\ n + 1 \in DOMAIN s /\ i # n + 1 BY <1>3, <2>1
      <4>. QED BY <4>1, <4>2 DEF Distinct
    <3>. PICK a : a = Append(t, s[n + 1]) OBVIOUS
    <3>4. /\ a \in Seq(PRs) /\ Len(a) = Len(t) + 1
          /\ \A q : Has(a, q) <=> Has(t, q) \/ q = s[n + 1]
          /\ Distinct(t) /\ ~ Has(t, s[n + 1]) => Distinct(a)
      BY <2>4, <3>2, HasAppended
    <3>5. Len(a) <= n + 1 BY <3>2, <3>4
    <3>6. \A q : Has(a, q) <=> q # p /\ \E i \in 1 .. n + 1 : s[i] = q
      BY <2>5, <2>7, <3>0, <3>4 DEF KeptOf
    <3>7. Distinct(s) => Distinct(a) BY <3>0, <3>3, <3>4 DEF KeptOf
    <3>8. KeptOf(a, n + 1, s, p) BY <3>4, <3>5, <3>6, <3>7 DEF KeptOf
    <3>. QED BY <3>1, <3>8
  <2>. QED BY <2>6, <2>7
<1>. HIDE DEF S
<1>8. Len(s) \in S BY <1>3, <1>6, <1>7, NatSetInduction
<1>. QED BY <1>2, <1>3, <1>8 DEF S

-----------------------------------------------------------------------------
(* What the calls make of a sound record. *)

\* In a sequence, an element is one it has.
LEMMA HasElements ==
  ASSUME NEW s
  PROVE  \A q : Has(s, q) <=> q \in Elements(s)
BY DEF Has, Elements

\* Without one, sound stays sound, and has just the others.
LEMMA WithoutOf ==
  ASSUME NEW s \in Seq(PRs), NEW p, Distinct(s)
  PROVE  /\ Without(s, p) \in Seq(PRs) /\ Distinct(Without(s, p))
         /\ Elements(Without(s, p)) = Elements(s) \ {p}
         /\ Len(Without(s, p)) <= Len(s)
<1>. PICK t : t = Without(s, p) OBVIOUS
<1>1. KeptOf(t, Len(s), s, p) BY WithoutFacts
<1>2. DOMAIN s = 1 .. Len(s) BY LenProperties
<1>3. \A q : Has(t, q) <=> q # p /\ Has(s, q) BY <1>1, <1>2 DEF KeptOf, Has
<1>4. Elements(t) = Elements(s) \ {p} BY <1>3, HasElements
<1>. QED BY <1>1, <1>4 DEF KeptOf

LEMMA AppendOf ==
  ASSUME NEW s \in Seq(PRs), NEW p \in PRs, Distinct(s), p \notin Elements(s)
  PROVE  /\ Append(s, p) \in Seq(PRs) /\ Distinct(Append(s, p))
         /\ Elements(Append(s, p)) = Elements(s) \cup {p}
         /\ Len(Append(s, p)) = Len(s) + 1
<1>. PICK t : t = Append(s, p) OBVIOUS
<1>1. ~ Has(s, p) BY HasElements
<1>2. /\ t \in Seq(PRs) /\ Distinct(t) /\ Len(t) = Len(s) + 1
      /\ \A q : Has(t, q) <=> Has(s, q) \/ q = p
  BY <1>1, HasAppended
<1>3. Elements(t) = Elements(s) \cup {p} BY <1>2, HasElements
<1>. QED BY <1>2, <1>3

\* Of a list with one too many, the latest are all but the first.
LEMMA LatestOf ==
  ASSUME NEW s \in Seq(PRs), Distinct(s), Len(s) <= Cap + 1
  PROVE  /\ Latest(s) \in Seq(PRs) /\ Distinct(Latest(s))
         /\ Elements(Latest(s)) \subseteq Elements(s)
         /\ Len(Latest(s)) <= Cap
         /\ \A q \in Elements(s) \ Elements(Latest(s)) :
              Len(Latest(s)) = Cap /\ Len(s) = Cap + 1 /\ q = s[1]
<1>. Cap \in Nat BY ConstantsAssumption
<1>1. Len(s) \in Nat /\ DOMAIN s = 1 .. Len(s) BY LenProperties
<1>2. CASE Len(s) <= Cap
  <2>1. Latest(s) = s BY <1>1, <1>2 DEF Latest
  <2>. QED BY <1>2, <2>1
<1>3. CASE Len(s) > Cap
  <2>. PICK n \in Nat : n = Len(s) BY <1>1
  <2>0. n <= Cap + 1 /\ n > Cap BY <1>3
  <2>1. Len(s) = Cap + 1 BY <2>0
  <2>2. Latest(s) = SubSeq(s, 2, Cap + 1) BY <2>1 DEF Latest
  <2>10. PICK t : t = SubSeq(s, 2, Cap + 1) OBVIOUS
  <2>3. \A i \in 2 .. Cap + 1 : s[i] \in PRs BY <1>1, <2>1, ElementOfSeq
  <2>4. /\ t \in Seq(PRs) /\ Len(t) = Cap
        /\ \A i \in 1 .. Cap : t[i] = s[i + 1]
    BY <2>3, <2>10, SubSeqProperties
  <2>5. DOMAIN t = 1 .. Cap BY <2>4, LenProperties
  <2>6. Distinct(t)
    <3>. SUFFICES ASSUME NEW i \in 1 .. Cap, NEW j \in 1 .. Cap, t[i] = t[j]
         PROVE  i = j
      BY <2>5 DEF Distinct
    <3>1. i + 1 \in DOMAIN s /\ j + 1 \in DOMAIN s BY <1>1, <2>1
    <3>2. s[i + 1] = s[j + 1] BY <2>4
    <3>. QED BY <3>1, <3>2 DEF Distinct
  <2>7. \A q \in Elements(t) : q \in Elements(s)
    <3>. SUFFICES ASSUME NEW i \in 1 .. Cap PROVE t[i] \in Elements(s)
      BY <2>5 DEF Elements
    <3>1. i + 1 \in DOMAIN s BY <1>1, <2>1
    <3>2. t[i] = s[i + 1] BY <2>4
    <3>. QED BY <3>1, <3>2 DEF Elements
  <2>8. \A q \in Elements(s) \ Elements(t) : q = s[1]
    <3>. SUFFICES ASSUME NEW i \in 1 .. Cap + 1, s[i] \notin Elements(t)
         PROVE  i = 1
      BY <1>1, <2>1 DEF Elements
    <3>. SUFFICES ASSUME i # 1 PROVE FALSE OBVIOUS
    <3>1. i - 1 \in 1 .. Cap /\ (i - 1) + 1 = i OBVIOUS
    <3>2. t[i - 1] = s[i] BY <2>4, <3>1
    <3>. QED BY <2>5, <3>1, <3>2 DEF Elements
  <2>9. Latest(s) = t BY <2>2, <2>10
  <2>. QED BY <2>1, <2>4, <2>6, <2>7, <2>8, <2>9
<1>4. Len(s) <= Cap \/ Len(s) > Cap
  <2>. PICK n \in Nat : n = Len(s) BY <1>1
  <2>. QED OBVIOUS
<1>. QED BY <1>2, <1>3, <1>4

\* The links grow by the one linked, which is suppressed no more.
LEMMA LinkedSound ==
  ASSUME NEW v, Sound(v), NEW p \in PRs
  PROVE  /\ Sound(Linked(v, p))
         /\ Elements(Linked(v, p).links) = Elements(v.links) \cup {p}
         /\ Elements(Linked(v, p).suppressed) = Elements(v.suppressed) \ {p}
<1>. DEFINE l == IF Has(v.links, p) THEN v.links ELSE Append(v.links, p)
            s == Without(v.suppressed, p)
<1>1. Linked(v, p).links = l /\ Linked(v, p).suppressed = s
      /\ Linked(v, p) = [links |-> l, suppressed |-> s]
  BY DEF Linked
<1>2. /\ v.links \in Seq(PRs) /\ v.suppressed \in Seq(PRs)
      /\ Distinct(v.links) /\ Distinct(v.suppressed)
      /\ Elements(v.links) \cap Elements(v.suppressed) = {}
      /\ Len(v.suppressed) <= Cap
  BY DEF Sound, Record
<1>3. l \in Seq(PRs) /\ Distinct(l) /\ Elements(l) = Elements(v.links) \cup {p}
  <2>1. CASE Has(v.links, p) BY <1>2, <2>1, HasElements
  <2>2. CASE ~ Has(v.links, p)
    <3>1. p \notin Elements(v.links) BY <2>2, HasElements
    <3>. QED BY <1>2, <2>2, <3>1, AppendOf
  <2>. QED BY <2>1, <2>2
<1>4. /\ s \in Seq(PRs) /\ Distinct(s) /\ Len(s) <= Len(v.suppressed)
      /\ Elements(s) = Elements(v.suppressed) \ {p}
  BY <1>2, WithoutOf
<1>. HIDE DEF l, s
<1>5. Len(s) <= Cap
  <2>1. Len(s) \in Nat /\ Len(v.suppressed) \in Nat /\ Cap \in Nat
    BY <1>2, <1>4, LenProperties, ConstantsAssumption
  <2>. QED BY <1>2, <1>4, <2>1
<1>6. Elements(l) \cap Elements(s) = {} BY <1>2, <1>3, <1>4
<1>7. Linked(v, p) \in Record BY <1>1, <1>3, <1>4 DEF Record
<1>. QED BY <1>1, <1>3, <1>4, <1>5, <1>6, <1>7 DEF Sound

LEMMA AutoLinkedSound ==
  ASSUME NEW v, Sound(v), NEW p \in PRs
  PROVE  /\ Sound(AutoLinked(v, p))
         /\ Elements(v.links) \subseteq Elements(AutoLinked(v, p).links)
         /\ AutoLinked(v, p).suppressed = v.suppressed
<1>1. CASE Has(v.suppressed, p) \/ Has(v.links, p)
  BY <1>1 DEF AutoLinked
<1>2. CASE ~ (Has(v.suppressed, p) \/ Has(v.links, p))
  <2>. DEFINE l == Append(v.links, p)
  <2>1. /\ v.links \in Seq(PRs) /\ v.suppressed \in Seq(PRs)
        /\ Distinct(v.links) /\ Distinct(v.suppressed)
        /\ Elements(v.links) \cap Elements(v.suppressed) = {}
        /\ Len(v.suppressed) <= Cap
    BY DEF Sound, Record
  <2>2. p \notin Elements(v.links) /\ p \notin Elements(v.suppressed)
    BY <1>2, HasElements
  <2>3. AutoLinked(v, p) = [links |-> l, suppressed |-> v.suppressed]
    BY <1>2 DEF AutoLinked, Sound, Record
  <2>4. l \in Seq(PRs) /\ Distinct(l) /\ Elements(l) = Elements(v.links) \cup {p}
    BY <2>1, <2>2, AppendOf
  <2>. HIDE DEF l
  <2>5. AutoLinked(v, p) \in Record BY <2>1, <2>3, <2>4 DEF Record
  <2>6. Elements(l) \cap Elements(v.suppressed) = {} BY <2>1, <2>2, <2>4
  <2>. QED BY <2>1, <2>3, <2>4, <2>5, <2>6 DEF Sound
<1>. QED BY <1>1, <1>2

\* The links lose the one unlinked.  A suppression is lost only to a full list.
LEMMA UnlinkedSound ==
  ASSUME NEW v, Sound(v), NEW p \in PRs
  PROVE  /\ Sound(Unlinked(v, p))
         /\ Elements(Unlinked(v, p).links) = Elements(v.links) \ {p}
         /\ \A q \in Elements(v.suppressed) \ Elements(Unlinked(v, p).suppressed) :
              Len(Unlinked(v, p).suppressed) = Cap /\ q = v.suppressed[1]
<1>. DEFINE l == Without(v.links, p)
            more == IF Has(v.links, p) /\ ~Has(v.suppressed, p)
                      THEN Append(v.suppressed, p) ELSE v.suppressed
            s == Latest(more)
<1>. Cap \in Nat \ {0} BY ConstantsAssumption
<1>1. Unlinked(v, p) = [links |-> l, suppressed |-> s] BY DEF Unlinked
<1>2. /\ v.links \in Seq(PRs) /\ v.suppressed \in Seq(PRs)
      /\ Distinct(v.links) /\ Distinct(v.suppressed)
      /\ Elements(v.links) \cap Elements(v.suppressed) = {}
      /\ Len(v.suppressed) <= Cap
  BY DEF Sound, Record
<1>3. l \in Seq(PRs) /\ Distinct(l) /\ Elements(l) = Elements(v.links) \ {p}
  BY <1>2, WithoutOf
<1>4. Len(v.suppressed) \in Nat BY <1>2, LenProperties
<1>5. /\ more \in Seq(PRs) /\ Distinct(more) /\ Len(more) <= Cap + 1
      /\ Elements(v.suppressed) \subseteq Elements(more)
      /\ Elements(more) \subseteq Elements(v.suppressed) \cup {p}
      /\ Len(more) = Cap + 1 => more[1] = v.suppressed[1]
  <2>1. CASE Has(v.links, p) /\ ~Has(v.suppressed, p)
    <3>1. more = Append(v.suppressed, p) BY <2>1
    <3>2. p \notin Elements(v.suppressed) BY <2>1, HasElements
    <3>. HIDE DEF more
    <3>3. /\ more \in Seq(PRs) /\ Distinct(more) /\ Len(more) = Len(v.suppressed) + 1
          /\ Elements(more) = Elements(v.suppressed) \cup {p}
      BY <1>2, <3>1, <3>2, AppendOf
    <3>4. Len(more) = Cap + 1 => 1 \in 1 .. Len(v.suppressed) BY <1>4, <3>3
    <3>5. Len(more) = Cap + 1 => more[1] = v.suppressed[1]
      BY <1>2, <3>1, <3>4, AppendProperties
    <3>6. Len(more) <= Cap + 1 BY <1>2, <1>4, <3>3
    <3>. QED BY <3>3, <3>5, <3>6
  <2>2. CASE ~ (Has(v.links, p) /\ ~Has(v.suppressed, p))
    <3>1. more = v.suppressed BY <2>2
    <3>. HIDE DEF more
    <3>2. Len(v.suppressed) <= Cap + 1 BY <1>2, <1>4
    <3>. QED BY <1>2, <3>1, <3>2
  <2>. QED BY <2>1, <2>2
<1>. HIDE DEF l, more
<1>6. /\ s \in Seq(PRs) /\ Distinct(s) /\ Len(s) <= Cap
      /\ Elements(s) \subseteq Elements(more)
      /\ \A q \in Elements(more) \ Elements(s) :
           Len(s) = Cap /\ Len(more) = Cap + 1 /\ q = more[1]
  BY <1>5, LatestOf
<1>. HIDE DEF s
<1>7. Unlinked(v, p) \in Record BY <1>1, <1>3, <1>6 DEF Record
<1>8. Elements(l) \cap Elements(s) = {} BY <1>2, <1>3, <1>5, <1>6
<1>9. Sound(Unlinked(v, p)) BY <1>1, <1>3, <1>6, <1>7, <1>8 DEF Sound
<1>10. \A q \in Elements(v.suppressed) \ Elements(s) :
         Len(s) = Cap /\ q = v.suppressed[1]
  BY <1>5, <1>6
<1>. QED BY <1>1, <1>3, <1>9, <1>10

-----------------------------------------------------------------------------
(* The steps. *)

\* What a call makes of the record "v" it loaded.
Makes(v, op, p, new) ==
  /\ Sound(new)
  /\ op # "Unlink" => Elements(v.links) \subseteq Elements(new.links)
  /\ op = "Unlink" => Elements(v.links) \ {p} \subseteq Elements(new.links)
  /\ op = "Link" => p \in Elements(new.links)
  /\ \A q \in Elements(v.suppressed) \ Elements(new.suppressed) :
       \/ q \in Elements(new.links)
       \/ Len(new.suppressed) = Cap /\ q = v.suppressed[1]

LEMMA ResultMakes ==
  ASSUME NEW v, Sound(v), NEW op \in {"none", "List", "Link", "AutoLink", "Unlink"},
         NEW p, op \in {"Link", "AutoLink", "Unlink"} => p \in PRs
  PROVE  Makes(v, op, p, Result(op, v, p))
<1>1. CASE op = "Link"
  <2>1. Result(op, v, p) = Linked(v, p) BY <1>1 DEF Result
  <2>. QED BY <1>1, <2>1, LinkedSound DEF Makes
<1>2. CASE op = "AutoLink"
  <2>1. Result(op, v, p) = AutoLinked(v, p) BY <1>2 DEF Result
  <2>. QED BY <1>2, <2>1, AutoLinkedSound DEF Makes
<1>3. CASE op = "Unlink"
  <2>1. Result(op, v, p) = Unlinked(v, p) BY <1>3 DEF Result
  <2>. QED BY <1>3, <2>1, UnlinkedSound DEF Makes
<1>4. CASE op \in {"none", "List"}
  <2>1. Result(op, v, p) = v BY <1>4 DEF Result
  <2>. QED BY <1>4, <2>1 DEF Makes
<1>. QED BY <1>1, <1>2, <1>3, <1>4

LEMMA InitLinksInv ==
  ASSUME Init
  PROVE  LinksInv
<1>1. <<>> \in Seq(PRs) /\ Len(<<>>) = 0 /\ DOMAIN <<>> = {} OBVIOUS
<1>2. Distinct(<<>>) /\ Elements(<<>>) = {} BY <1>1 DEF Distinct, Elements
<1>3. Empty.links = <<>> /\ Empty.suppressed = <<>> /\ Empty \in Record
  BY <1>1 DEF Empty, Record
<1>4. Sound(Empty) BY <1>1, <1>2, <1>3, ConstantsAssumption DEF Sound
<1>5. WellCalled BY DEF Init, WellCalled, NoCall, Calls
<1>6. Alone BY <1>3 DEF Init, Alone, NoCall
<1>7. NoLinkLost BY DEF Init, NoLinkLost
<1>. QED BY <1>4, <1>5, <1>6, <1>7 DEF Init, LinksInv

\* The call of a client that is answered, and the request it belongs to.
LEMMA AnsweredCalls ==
  ASSUME WellCalled, NEW c \in Clients, NEW ok \in BOOLEAN, Answered(c, ok),
         wish' \in [PRs -> {"none", "linked", "unlinked"}]
  PROVE  /\ WellCalled' /\ call'[c] = NoCall
         /\ \A d \in Clients \ {c} : call'[d] = call[d]
<1>1. call' = [call EXCEPT ![c] = NoCall] BY DEF Answered
<1>2. PICK to : /\ pc' = [pc EXCEPT ![c] = to]
                /\ to \in {"auto", "found", "idle", pc[c]}
                /\ pc[c] = "request" => to = "idle"
  <2>. DEFINE to == CASE ok /\ pc[c] = "list" -> "auto"
                      [] ~ok /\ pc[c] = "auto" -> "found"
                      [] pc[c] = "request" \/ (~ok /\ ~Ignored(c)) -> "idle"
                      [] OTHER -> pc[c]
  <2>1. pc' = [pc EXCEPT ![c] = to] BY DEF Answered, WellCalled
  <2>2. to \in {"auto", "found", "idle", pc[c]} OBVIOUS
  <2>3. pc[c] = "request" => to = "idle" OBVIOUS
  <2>. HIDE DEF to
  <2>. QED BY <2>1, <2>2, <2>3
<1>3. NoCall \in Calls /\ NoCall.op = "none" /\ ~ NoCall.locked
  BY DEF NoCall, Calls
<1>4. call' \in [Clients -> Calls] /\ call'[c] = NoCall
      /\ \A d \in Clients \ {c} : call'[d] = call[d]
  BY <1>1, <1>3 DEF WellCalled
<1>5. /\ pc' \in [Clients -> {"idle", "request", "list", "auto", "found", "refresh"}]
      /\ pc'[c] # "request"
      /\ \A d \in Clients \ {c} : pc'[d] = pc[d]
  <2>1. pc \in [Clients -> {"idle", "request", "list", "auto", "found", "refresh"}]
    BY DEF WellCalled
  <2>2. to \in {"idle", "request", "list", "auto", "found", "refresh"}
    BY <1>2, <2>1
  <2>3. to # "request" BY <1>2
  <2>. QED BY <1>2, <2>1, <2>2, <2>3
<1>6. ASSUME NEW d \in Clients
      PROVE  /\ call'[d].op \in {"Link", "AutoLink", "Unlink"} => call'[d].pr \in PRs
             /\ call'[d].locked => call'[d].op # "none"
             /\ call'[d].op = "Unlink" => pc'[d] = "request"
             /\ pc'[d] = "request" => call'[d].op \in {"Link", "Unlink"}
  <2>1. CASE d = c BY <1>3, <1>4, <1>5, <2>1
  <2>2. CASE d # c BY <1>4, <1>5, <2>2 DEF WellCalled
  <2>. QED BY <2>1, <2>2
<1>. QED BY <1>4, <1>5, <1>6 DEF WellCalled

\* A save: what the record was made of is what is stored still.
LEMMA Saved ==
  ASSUME LinksInv, NEW c \in Clients, call[c].locked,
         stored' = Result(call[c].op, view[c], call[c].pr),
         wish' = IF Explicit(c) THEN Wished(c) ELSE wish
  PROVE  /\ Makes(stored, call[c].op, call[c].pr, stored')
         /\ wish' \in [PRs -> {"none", "linked", "unlinked"}]
         /\ NoLinkLost'
<1>1. view[c] = stored BY DEF LinksInv, Alone
<1>2. PICK op, p : op = call[c].op /\ p = call[c].pr OBVIOUS
<1>3. /\ op \in {"none", "List", "Link", "AutoLink", "Unlink"}
      /\ op \in {"Link", "AutoLink", "Unlink"} => p \in PRs
      /\ op = "Unlink" => Explicit(c)
      /\ Explicit(c) => op \in {"Link", "Unlink"}
  BY <1>2 DEF LinksInv, WellCalled, Calls, Explicit
<1>4. Makes(stored, op, p, stored')
  BY <1>1, <1>2, <1>3, ResultMakes DEF LinksInv
<1>5. wish \in [PRs -> {"none", "linked", "unlinked"}] BY DEF LinksInv, WellCalled
<1>6. CASE Explicit(c)
  <2>1. wish' = [wish EXCEPT ![p] = IF op = "Unlink" THEN "unlinked" ELSE "linked"]
    BY <1>2, <1>6 DEF Wished
  <2>2. wish' \in [PRs -> {"none", "linked", "unlinked"}] BY <1>5, <2>1
  <2>3. ASSUME NEW q \in PRs, wish'[q] = "linked" PROVE q \in Elements(stored'.links)
    <3>1. CASE q = p BY <1>3, <1>4, <1>5, <1>6, <2>1, <2>3, <3>1 DEF Makes
    <3>2. CASE q # p
      <4>1. wish[q] = "linked" BY <1>5, <2>1, <2>3, <3>2
      <4>2. q \in Elements(stored.links)
        BY <4>1, HasElements DEF LinksInv, NoLinkLost
      <4>. QED BY <1>4, <3>2, <4>2 DEF Makes
    <3>. QED BY <3>1, <3>2
  <2>4. \A q \in PRs : wish'[q] = "linked" => Has(stored'.links, q)
    BY <2>3, HasElements
  <2>. QED BY <1>2, <1>4, <2>2, <2>4 DEF NoLinkLost
<1>7. CASE ~ Explicit(c)
  <2>1. wish' = wish BY <1>7
  <2>2. ASSUME NEW q \in PRs, wish[q] = "linked" PROVE q \in Elements(stored'.links)
    <3>1. q \in Elements(stored.links)
      BY <2>2, HasElements DEF LinksInv, NoLinkLost
    <3>. QED BY <1>3, <1>4, <1>7, <3>1 DEF Makes
  <2>3. \A q \in PRs : wish'[q] = "linked" => Has(stored'.links, q)
    BY <2>1, <2>2, HasElements
  <2>. QED BY <1>2, <1>4, <1>5, <2>1, <2>3 DEF NoLinkLost
<1>. QED BY <1>6, <1>7

\* Once a call is over, with or without a save, no other has loaded the record.
LEMMA AnsweredAlone ==
  ASSUME LinksInv, NEW c \in Clients, call[c].locked, call'[c] = NoCall,
         \A d \in Clients \ {c} : call'[d] = call[d], UNCHANGED view
  PROVE  Alone'
<1>. SUFFICES ASSUME NEW d \in Clients, call'[d].locked PROVE FALSE
  BY DEF Alone, LinksInv
<1>1. d # c BY DEF NoCall
<1>2. call[d].locked BY <1>1
<1>. QED BY <1>1, <1>2 DEF LinksInv, Alone

\* What a step may do to the stored record: nothing, or what one call makes of it.
Steps ==
  \/ UNCHANGED stored
  \/ \E op, p : Makes(stored, op, p, stored')

LEMMA LeaveStep ==
  ASSUME LinksInv, NEW c \in Clients, Leave(c)
  PROVE  LinksInv' /\ Steps
<1>1. /\ call[c].locked /\ stored' = Result(call[c].op, view[c], call[c].pr)
      /\ wish' = (IF Explicit(c) THEN Wished(c) ELSE wish)
      /\ Answered(c, TRUE)
  BY DEF Leave
<1>2. /\ Makes(stored, call[c].op, call[c].pr, stored')
      /\ wish' \in [PRs -> {"none", "linked", "unlinked"}]
      /\ NoLinkLost'
  BY <1>1, Saved
<1>3. /\ WellCalled' /\ call'[c] = NoCall
      /\ \A d \in Clients \ {c} : call'[d] = call[d]
  BY <1>1, <1>2, AnsweredCalls DEF LinksInv
<1>4. Alone' BY <1>1, <1>3, AnsweredAlone DEF Leave
<1>5. Sound(stored)' BY <1>2 DEF Makes
<1>6. Steps BY <1>2 DEF Steps
<1>. QED BY <1>2, <1>3, <1>4, <1>5, <1>6 DEF LinksInv

LEMMA CallFailsStep ==
  ASSUME LinksInv, NEW c \in Clients, CallFails(c)
  PROVE  LinksInv' /\ Steps
<1>1. call[c].locked /\ Answered(c, FALSE) BY DEF CallFails
<1>2. /\ wish' \in [PRs -> {"none", "linked", "unlinked"}]
      /\ NoLinkLost' /\ Sound(stored)' /\ Steps
  <2>1. CASE UNCHANGED <<stored, wish>>
    BY <2>1 DEF LinksInv, WellCalled, NoLinkLost, Sound, Steps
  <2>2. CASE /\ stored' = Result(call[c].op, view[c], call[c].pr)
             /\ wish' = IF Explicit(c) THEN Wished(c) ELSE wish
    <3>1. /\ Makes(stored, call[c].op, call[c].pr, stored')
          /\ wish' \in [PRs -> {"none", "linked", "unlinked"}]
          /\ NoLinkLost'
      BY <1>1, <2>2, Saved
    <3>2. Sound(stored)' BY <3>1 DEF Makes
    <3>3. Steps BY <3>1 DEF Steps
    <3>. QED BY <3>1, <3>2, <3>3
  <2>. QED BY <2>1, <2>2 DEF CallFails
<1>3. /\ WellCalled' /\ call'[c] = NoCall
      /\ \A d \in Clients \ {c} : call'[d] = call[d]
  BY <1>1, <1>2, AnsweredCalls DEF LinksInv
<1>4. Alone' BY <1>1, <1>3, AnsweredAlone DEF CallFails
<1>. QED BY <1>2, <1>3, <1>4 DEF LinksInv

LEMMA EnterStep ==
  ASSUME LinksInv, NEW c \in Clients, Enter(c)
  PROVE  LinksInv' /\ Steps
<1>1. /\ call[c].op # "none" /\ holder = Nobody /\ holder' = c
      /\ view' = [view EXCEPT ![c] = stored]
      /\ call' = [call EXCEPT ![c].locked = TRUE]
      /\ UNCHANGED <<stored, pc, wish>>
  BY DEF Enter
<1>2. /\ call'[c] = [call[c] EXCEPT !.locked = TRUE]
      /\ \A d \in Clients \ {c} : call'[d] = call[d]
  BY <1>1 DEF LinksInv, WellCalled
<1>3. \A d \in Clients : ~ call[d].locked
  BY <1>1, ConstantsAssumption DEF LinksInv, Alone
<1>4. \A d \in Clients : call'[d] \in Calls /\ call'[d].op = call[d].op
                         /\ call'[d].pr = call[d].pr
  <2>1. \A d \in Clients : call[d] \in Calls BY DEF LinksInv, WellCalled
  <2>2. call'[c] \in Calls /\ call'[c].op = call[c].op /\ call'[c].pr = call[c].pr
    BY <1>2, <2>1 DEF Calls
  <2>. QED BY <1>2, <2>1, <2>2
<1>5. DOMAIN call' = Clients /\ call' \in [Clients -> Calls]
  BY <1>1, <1>4 DEF LinksInv, WellCalled
<1>6. WellCalled'
  <2>1. \A d \in Clients : call'[d].locked => call'[d].op # "none"
    BY <1>1, <1>2, <1>3, <1>4
  <2>. QED BY <1>1, <1>4, <1>5, <2>1 DEF LinksInv, WellCalled
<1>7. Alone'
  <2>. SUFFICES ASSUME NEW d \in Clients, call'[d].locked
       PROVE  holder' = d /\ view'[d] = stored'
    <3>1. view' \in [Clients -> Record] BY <1>1 DEF LinksInv, Alone, Sound
    <3>. QED BY <3>1 DEF Alone
  <2>1. d = c BY <1>2, <1>3
  <2>2. view'[c] = stored BY <1>1 DEF LinksInv, Alone
  <2>. QED BY <1>1, <2>1, <2>2
<1>8. Sound(stored)' /\ NoLinkLost' /\ Steps
  BY <1>1 DEF LinksInv, Sound, NoLinkLost, Steps
<1>. QED BY <1>6, <1>7, <1>8 DEF LinksInv

\* A request begins, goes on or ends between its calls.
LEMMA GoesStep ==
  ASSUME LinksInv, NEW c \in Clients,
         NEW to \in {"idle", "request", "list", "auto", "refresh"},
         NEW next \in Calls, Goes(c, to, next), ~ next.locked,
         next.op \in {"Link", "AutoLink", "Unlink"} => next.pr \in PRs,
         next.op = "Unlink" => to = "request",
         to = "request" => next.op \in {"Link", "Unlink"},
         UNCHANGED holder
  PROVE  LinksInv' /\ Steps
<1>1. /\ pc' = [pc EXCEPT ![c] = to] /\ call' = [call EXCEPT ![c] = next]
      /\ UNCHANGED <<stored, holder, view, wish>>
  BY DEF Goes
<1>2. /\ call' \in [Clients -> Calls] /\ call'[c] = next /\ pc'[c] = to
      /\ pc' \in [Clients -> {"idle", "request", "list", "auto", "found", "refresh"}]
      /\ \A d \in Clients \ {c} : call'[d] = call[d] /\ pc'[d] = pc[d]
  BY <1>1 DEF LinksInv, WellCalled
<1>3. ASSUME NEW d \in Clients
      PROVE  /\ call'[d].op \in {"Link", "AutoLink", "Unlink"} => call'[d].pr \in PRs
             /\ call'[d].locked => call'[d].op # "none"
             /\ call'[d].op = "Unlink" => pc'[d] = "request"
             /\ pc'[d] = "request" => call'[d].op \in {"Link", "Unlink"}
  <2>1. CASE d = c BY <1>2, <2>1
  <2>2. CASE d # c BY <1>2, <2>2 DEF LinksInv, WellCalled
  <2>. QED BY <2>1, <2>2
<1>4. WellCalled' BY <1>1, <1>2, <1>3 DEF LinksInv, WellCalled
<1>5. Alone' BY <1>1, <1>2 DEF LinksInv, Alone
<1>6. Sound(stored)' /\ NoLinkLost' /\ Steps
  BY <1>1 DEF LinksInv, Sound, NoLinkLost, Steps
<1>. QED BY <1>4, <1>5, <1>6 DEF LinksInv

LEMMA NextLinksInv ==
  ASSUME LinksInv, [Next]_vars
  PROVE  LinksInv' /\ Steps
<1>1. CASE UNCHANGED vars
  BY <1>1 DEF vars, LinksInv, Sound, WellCalled, Alone, NoLinkLost, Steps
<1>2. ASSUME NEW c \in Clients,
             \/ Enter(c) \/ Leave(c) \/ CallFails(c)
             \/ View(c) \/ ListAgain(c) \/ Viewed(c)
             \/ \E p \in PRs : \/ Request(c, "Link", p) \/ Request(c, "Unlink", p)
                               \/ Discover(c, p) \/ RefreshLink(c, p)
      PROVE  LinksInv' /\ Steps
  <2>1. CASE Enter(c) BY <2>1, EnterStep
  <2>2. CASE Leave(c) BY <2>2, LeaveStep
  <2>3. CASE CallFails(c) BY <2>3, CallFailsStep
  <2>. DEFINE list == Call("List", Nobody)
  <2>0. /\ list \in Calls /\ list.op = "List" /\ ~ list.locked
        /\ NoCall \in Calls /\ NoCall.op = "none" /\ ~ NoCall.locked
    BY DEF Call, NoCall, Calls
  <2>4. CASE View(c)
    <3>1. Goes(c, "list", list) /\ UNCHANGED holder BY <2>4 DEF View, Goes
    <3>. HIDE DEF list
    <3>. QED BY <2>0, <3>1, GoesStep
  <2>5. CASE ListAgain(c)
    <3>1. Goes(c, "refresh", list) /\ UNCHANGED holder BY <2>5 DEF ListAgain, Goes
    <3>. HIDE DEF list
    <3>. QED BY <2>0, <3>1, GoesStep
  <2>6. CASE Viewed(c)
    <3>1. Goes(c, "idle", NoCall) /\ UNCHANGED holder BY <2>6 DEF Viewed, Goes
    <3>. QED BY <2>0, <3>1, GoesStep
  <2>7. ASSUME NEW p \in PRs, NEW op \in {"Link", "Unlink"}, Request(c, op, p)
        PROVE  LinksInv' /\ Steps
    <3>1. Call(op, p) \in Calls /\ Call(op, p).op = op /\ Call(op, p).pr = p
          /\ ~ Call(op, p).locked
      BY DEF Call, Calls
    <3>2. Goes(c, "request", Call(op, p)) /\ UNCHANGED holder
      BY <2>7 DEF Request, Goes
    <3>. QED BY <3>1, <3>2, GoesStep
  <2>8. ASSUME NEW p \in PRs, Discover(c, p) PROVE LinksInv' /\ Steps
    <3>1. /\ Call("AutoLink", p) \in Calls /\ Call("AutoLink", p).op = "AutoLink"
          /\ Call("AutoLink", p).pr = p /\ ~ Call("AutoLink", p).locked
      BY DEF Call, Calls
    <3>2. Goes(c, "auto", Call("AutoLink", p)) /\ UNCHANGED holder
      BY <2>8 DEF Discover, Goes
    <3>. QED BY <3>1, <3>2, GoesStep
  <2>9. ASSUME NEW p \in PRs, RefreshLink(c, p) PROVE LinksInv' /\ Steps
    <3>1. PICK next \in {NoCall, Call("Link", p)} : Goes(c, "refresh", next)
      BY <2>9 DEF RefreshLink
    <3>2. /\ next \in Calls /\ ~ next.locked
          /\ next.op \in {"Link", "AutoLink", "Unlink"} => next.pr \in PRs
          /\ next.op # "Unlink"
      <4>1. CASE next = NoCall BY <4>1 DEF NoCall, Calls
      <4>2. CASE next = Call("Link", p) BY <4>2 DEF Call, Calls
      <4>. QED BY <4>1, <4>2
    <3>3. UNCHANGED holder BY <3>1 DEF Goes
    <3>. QED BY <3>1, <3>2, <3>3, GoesStep
  <2>. QED BY <1>2, <2>1, <2>2, <2>3, <2>4, <2>5, <2>6, <2>7, <2>8, <2>9
<1>. QED BY <1>1, <1>2 DEF Next

-----------------------------------------------------------------------------
(* The theorems. *)

LEMMA LinksInvHolds == Spec => []LinksInv
<1>1. Init => LinksInv BY InitLinksInv
<1>2. LinksInv /\ [Next]_vars => LinksInv' BY NextLinksInv
<1>. QED BY <1>1, <1>2, PTL DEF Spec

\* A task's record has each identity at most once, as linked or as suppressed,
\* and never more suppressions than the cap: Link, AutoLink and Unlink keep it
\* so from whatever record they load, in any order and with any failure.
THEOREM RecordIsSound == Spec => []LinkedOrSuppressed
<1>1. LinksInv => LinkedOrSuppressed BY DEF LinksInv, Sound, LinkedOrSuppressed
<1>. QED BY <1>1, LinksInvHolds, PTL

\* Nothing but a person's unlink undoes a person's link: with the store's mutex
\* held from the load to the save, no view or request saves over it.
THEOREM LinksAreKept == Spec => []NoLinkLost
<1>1. LinksInv => NoLinkLost BY DEF LinksInv
<1>. QED BY <1>1, LinksInvHolds, PTL

\* Each save keeps every suppression, but that of what it links and, with the
\* list at its cap, the oldest.
THEOREM SuppressionsEndKnown == Spec => SuppressionEndsByLinkOrCap
<1>1. ASSUME LinksInv, [Next]_vars
      PROVE  [\A p \in Elements(stored.suppressed) \ Elements(stored.suppressed') :
                \/ Has(stored.links', p)
                \/ Len(stored.suppressed') = Cap /\ p = stored.suppressed[1]]_vars
  <2>1. Steps BY <1>1, NextLinksInv
  <2>2. CASE UNCHANGED stored BY <2>2
  <2>3. CASE \E op, p : Makes(stored, op, p, stored')
    BY <2>3, HasElements DEF Makes
  <2>. QED BY <2>1, <2>2, <2>3 DEF Steps
<1>. QED BY <1>1, LinksInvHolds, PTL DEF Spec, SuppressionEndsByLinkOrCap

=============================================================================
