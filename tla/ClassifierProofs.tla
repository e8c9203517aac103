-------------------------- MODULE ClassifierProofs --------------------------
(***************************************************************************)
(* Proofs about modules Classifier and BodyDecode: what the scans of the   *)
(* parser make of any sequence of events, and what the decoder makes of    *)
(* any body the chain writes.                                              *)
(*                                                                         *)
(* A loop over events or bytes is a recursive function in the model.  The  *)
(* induction principle is stated for a set of naturals (Induction), which  *)
(* the provers can use; from it follow the existence of a function that is *)
(* defined by recursion (Recursion) and what the scans compute.            *)
(***************************************************************************)
EXTENDS Classifier, FiniteSetTheorems, WellFoundedInduction, TLAPS

\* Every set of naturals has a least one.
LEMMA Least ==
  ASSUME NEW S \in SUBSET Nat, S # {}
  PROVE  \E m \in S : \A n \in S : m <= n
<1>1. PICK m \in S : \A n \in S : ~(<<n, m>> \in OpToRel(<, Nat))
  BY WFMin, NatLessThanWellFounded
<1>2. \A n \in S : ~(n < m)
  BY <1>1 DEF OpToRel
<1> QED
  BY <1>2

\* Induction over the naturals.
LEMMA Induction ==
  ASSUME NEW S, 0 \in S, \A n \in Nat : n \in S => n + 1 \in S
  PROVE  \A n \in Nat : n \in S
<1> SUFFICES ASSUME Nat \ S # {} PROVE FALSE
  OBVIOUS
<1>1. PICK m \in Nat \ S : \A n \in Nat \ S : m <= n
  BY Least
<1>2. m - 1 \in Nat /\ m - 1 \in S
  BY <1>1
<1> QED
  BY <1>1, <1>2

\* The table f of a loop of N rounds: it starts with b, and round n makes
\* g[n][a] of a.
Rounds(f, N, b, g) == f[0] = b /\ \A n \in 1..N : f[n] = g[n][f[n - 1]]

\* A function that is defined by recursion exists.
LEMMA Recursion ==
  ASSUME NEW N \in Nat, NEW A, NEW b \in A, NEW g \in [1..N -> [A -> A]]
  PROVE  \E f \in [0..N -> A] : Rounds(f, N, b, g)
<1> DEFINE S == {k \in Nat : k <= N => \E f \in [0..k -> A] :
                                          Rounds(f, k, b, g)}
<1>1. 0 \in S
  <2> DEFINE h == [n \in 0..0 |-> b]
  <2>1. h \in [0..0 -> A] /\ Rounds(h, 0, b, g)
    BY DEF Rounds
  <2> QED
    BY <2>1
<1>2. ASSUME NEW k \in Nat, k + 1 <= N, NEW f \in [0..k -> A],
             Rounds(f, k, b, g)
      PROVE  \E h \in [0..(k + 1) -> A] : Rounds(h, k + 1, b, g)
  <2> DEFINE h == [n \in 0..(k + 1) |->
                     IF n = k + 1 THEN g[k + 1][f[k]] ELSE f[n]]
  <2>1. g[k + 1][f[k]] \in A
    BY <1>2
  <2>2. h \in [0..(k + 1) -> A]
    BY <2>1
  <2>3. h[0] = b
    BY <1>2 DEF Rounds
  <2>4. ASSUME NEW n \in 1..(k + 1) PROVE h[n] = g[n][h[n - 1]]
    <3>1. CASE n = k + 1
      BY <3>1
    <3>2. CASE n \in 1..k
      BY <3>2, <1>2 DEF Rounds
    <3> QED
      BY <3>1, <3>2
  <2> HIDE DEF h
  <2> QED
    BY <2>2, <2>3, <2>4 DEF Rounds
<1>3. ASSUME NEW k \in Nat, k \in S PROVE k + 1 \in S
  <2> SUFFICES ASSUME k + 1 <= N
               PROVE  \E h \in [0..(k + 1) -> A] : Rounds(h, k + 1, b, g)
    OBVIOUS
  <2> QED
    BY <1>2, <1>3
<1>4. N \in S
  <2> HIDE DEF S
  <2> QED
    BY <1>1, <1>3, Induction
<1> QED
  BY <1>4

-----------------------------------------------------------------------------
(***************************************************************************)
(* Events.                                                                 *)
(***************************************************************************)
Payouts == 0..U128Max \cup {Unparsable}
Event   == [key : Keys, ok : BOOLEAN, id : Ids, payout : Payouts]

\* What the loop over the bounty events has in hand.
Scanned == [first : Seq(Event), count : Nat, total : 0..U128Max]

\* One round keeps it so.
LEMMA RoundType ==
  ASSUME NEW acc \in Scanned, NEW e \in Event
  PROVE  ScanBounty(acc, e) \in Scanned
<1> USE ClassifierAssumption
<1>1. <<e>> \in Seq(Event)
  OBVIOUS
<1>2. ASSUME e.payout # Unparsable
      PROVE  SaturatingAdd(acc.total, e.payout) \in 0..U128Max
  <2>1. acc.total \in 0..U128Max /\ e.payout \in 0..U128Max
    BY <1>2 DEF Scanned, Event, Payouts
  <2> QED
    BY <2>1 DEF SaturatingAdd
<1>3. acc.first \in Seq(Event) /\ acc.count \in Nat /\ acc.total \in 0..U128Max
  BY DEF Scanned
<1> DEFINE f == IF acc.first = <<>> THEN <<e>> ELSE acc.first
           c == IF e.key = "BountyClaimed" THEN acc.count + 1 ELSE acc.count
           s == IF e.key = "BountyClaimed" /\ e.payout # Unparsable
                THEN SaturatingAdd(acc.total, e.payout) ELSE acc.total
<1>4. f \in Seq(Event) /\ c \in Nat /\ s \in 0..U128Max
  BY <1>1, <1>2, <1>3
<1>5. ScanBounty(acc, e) = IF e.key \notin BountyKeys \/ ~e.ok THEN acc
                           ELSE [first |-> f, count |-> c, total |-> s]
  BY DEF ScanBounty
<1> HIDE DEF f, c, s
<1> QED
  BY <1>4, <1>5 DEF Scanned

\* f is the table of the loop over the N events `evs`.
IsScan(f, N, evs) ==
  f = [n \in 0..N |->
         IF n = 0 THEN NothingScanned ELSE ScanBounty(f[n - 1], evs[n])]

\* A claim whose payout counts.
Paying(e) == e.key = "BountyClaimed" /\ e.ok /\ e.payout # Unparsable

\* f is the table of the exact sum.
IsOwed(f, N, evs) ==
  f = [n \in 0..N |->
         IF n = 0 THEN 0
         ELSE IF /\ evs[n].key = "BountyClaimed" /\ evs[n].ok
                 /\ evs[n].payout # Unparsable
              THEN f[n - 1] + evs[n].payout ELSE f[n - 1]]

\* The loop of classify_bounty_events can be tabulated.
LEMMA ScanExists ==
  ASSUME NEW N \in Nat, NEW evs \in [1..N -> Event]
  PROVE  \E f \in [0..N -> Scanned] : IsScan(f, N, evs)
<1> DEFINE g == [n \in 1..N |-> [a \in Scanned |-> ScanBounty(a, evs[n])]]
<1>1. g \in [1..N -> [Scanned -> Scanned]]
  BY RoundType
<1>2. NothingScanned \in Scanned
  BY ClassifierAssumption DEF NothingScanned, Scanned
<1>3. PICK f \in [0..N -> Scanned] : Rounds(f, N, NothingScanned, g)
  <2> HIDE DEF g
  <2> QED
    BY <1>1, <1>2, Recursion
<1>4. ASSUME NEW n \in 1..N PROVE f[n] = ScanBounty(f[n - 1], evs[n])
  <2>1. f[n] = g[n][f[n - 1]]
    BY <1>3 DEF Rounds
  <2>2. f[n - 1] \in Scanned
    OBVIOUS
  <2> QED
    BY <2>1, <2>2
<1>5. IsScan(f, N, evs)
  BY <1>3, <1>4 DEF IsScan, Rounds
<1> QED
  BY <1>5

\* So can the exact sum.
LEMMA OwedExists ==
  ASSUME NEW N \in Nat, NEW evs \in [1..N -> Event]
  PROVE  \E f \in [0..N -> Nat] : IsOwed(f, N, evs)
<1> DEFINE g == [n \in 1..N |-> [a \in Nat |->
                   IF Paying(evs[n]) THEN a + evs[n].payout ELSE a]]
<1>1. ASSUME NEW n \in 1..N, Paying(evs[n]) PROVE evs[n].payout \in Nat
  <2>1. evs[n].payout \in Payouts /\ evs[n].payout # Unparsable
    BY <1>1 DEF Event, Paying
  <2> QED
    BY <2>1, ClassifierAssumption DEF Payouts
<1>2. g \in [1..N -> [Nat -> Nat]]
  BY <1>1
<1>3. PICK f \in [0..N -> Nat] : Rounds(f, N, 0, g)
  <2> HIDE DEF g
  <2> QED
    BY <1>2, Recursion
<1>4. ASSUME NEW n \in 1..N
      PROVE  f[n] = IF Paying(evs[n]) THEN f[n - 1] + evs[n].payout
                    ELSE f[n - 1]
  <2>1. f[n] = g[n][f[n - 1]]
    BY <1>3 DEF Rounds
  <2>2. f[n - 1] \in Nat
    OBVIOUS
  <2> QED
    BY <2>1, <2>2
<1>5. IsOwed(f, N, evs)
  BY <1>3, <1>4 DEF IsOwed, Rounds, Paying
<1> QED
  BY <1>5

\* The rounds, one by one.
LEMMA ScanRounds ==
  ASSUME NEW N \in Nat, NEW evs \in [1..N -> Event], NEW f, IsScan(f, N, evs)
  PROVE  /\ f[0] = NothingScanned
         /\ \A n \in 1..N : f[n] = ScanBounty(f[n - 1], evs[n])
         /\ \A n \in 0..N : f[n] \in Scanned
<1>1. f[0] = NothingScanned
  BY DEF IsScan
<1>2. \A n \in 1..N : f[n] = ScanBounty(f[n - 1], evs[n])
  BY DEF IsScan
<1> DEFINE S == {n \in Nat : n <= N => f[n] \in Scanned}
<1>3. 0 \in S
  <2>1. NothingScanned \in Scanned
    BY ClassifierAssumption DEF NothingScanned, Scanned
  <2> QED
    BY <1>1, <2>1
<1>4. ASSUME NEW n \in Nat, n \in S PROVE n + 1 \in S
  <2> SUFFICES ASSUME n + 1 <= N PROVE f[n + 1] \in Scanned
    OBVIOUS
  <2>1. f[n] \in Scanned /\ evs[n + 1] \in Event
    BY <1>4
  <2>2. f[n + 1] = ScanBounty(f[n], evs[n + 1])
    BY <1>2
  <2> QED
    BY <2>1, <2>2, RoundType
<1>5. \A n \in Nat : n \in S
  <2> HIDE DEF S
  <2> QED
    BY <1>3, <1>4, Induction
<1> QED
  BY <1>1, <1>2, <1>5

\* The terms of the exact sum, one by one.
LEMMA OwedRounds ==
  ASSUME NEW N \in Nat, NEW evs \in [1..N -> Event], NEW f, IsOwed(f, N, evs)
  PROVE  /\ f[0] = 0
         /\ \A n \in 1..N :
              f[n] = IF Paying(evs[n]) THEN f[n - 1] + evs[n].payout
                     ELSE f[n - 1]
  BY DEF IsOwed, Paying

\* A sequence of events is a function of its indices.
LEMMA EventsFcn ==
  ASSUME NEW evs \in Seq(Event)
  PROVE  /\ Len(evs) \in Nat
         /\ evs \in [1..Len(evs) -> Event]
         /\ DOMAIN evs = 1..Len(evs)
  OBVIOUS

\* The loop ends with the last entry of its table.
LEMMA ScanTable ==
  ASSUME NEW evs \in Seq(Event)
  PROVE  \E f : /\ IsScan(f, Len(evs), evs)
                /\ ScanBountyEvents(evs) = f[Len(evs)]
<1> DEFINE f == CHOOSE f : IsScan(f, Len(evs), evs)
<1>1. IsScan(f, Len(evs), evs)
  BY EventsFcn, ScanExists
<1>2. ScanBountyEvents(evs) = f[Len(evs)]
  BY DEF ScanBountyEvents, IsScan
<1> QED
  BY <1>1, <1>2

\* The exact sum is the last entry of its table.
LEMMA OwedTable ==
  ASSUME NEW evs \in Seq(Event)
  PROVE  \E f : IsOwed(f, Len(evs), evs) /\ Owed(evs) = f[Len(evs)]
<1> DEFINE f == CHOOSE f : IsOwed(f, Len(evs), evs)
<1>1. IsOwed(f, Len(evs), evs)
  BY EventsFcn, OwedExists
<1>2. Owed(evs) = f[Len(evs)]
  BY DEF Owed, IsOwed
<1> QED
  BY <1>1, <1>2

-----------------------------------------------------------------------------
(***************************************************************************)
(* What the loop over the bounty events has found after n of them.         *)
(***************************************************************************)
Decodes(K) == {e \in Event : e.key \in K /\ e.ok}
HitsTo(evs, K, n) == {i \in 1..n : evs[i] \in Decodes(K)}

\* `s` holds the first of the events H.
IsFirst(s, H, evs) ==
  /\ H = {} => s = <<>>
  /\ H # {} => \E m \in H : (\A j \in H : m <= j) /\ s = <<evs[m]>>

\* The hits are among the events seen.
LEMMA HitsBound ==
  ASSUME NEW evs, NEW K, NEW n \in Nat
  PROVE  HitsTo(evs, K, 0) = {} /\ HitsTo(evs, K, n) \subseteq 1..n
  BY DEF HitsTo

\* One more event that decodes is one more hit.
LEMMA HitsAdd ==
  ASSUME NEW evs, NEW K, NEW n \in Nat, evs[n + 1] \in Decodes(K)
  PROVE  HitsTo(evs, K, n + 1) = HitsTo(evs, K, n) \cup {n + 1}
<1>1. \A i : i \in 1..(n + 1) <=> i \in 1..n \/ i = n + 1
  OBVIOUS
<1> QED
  BY <1>1 DEF HitsTo

\* One that does not is none.
LEMMA HitsSame ==
  ASSUME NEW evs, NEW K, NEW n \in Nat, evs[n + 1] \notin Decodes(K)
  PROVE  HitsTo(evs, K, n + 1) = HitsTo(evs, K, n)
<1>1. \A i : i \in 1..(n + 1) <=> i \in 1..n \/ i = n + 1
  OBVIOUS
<1> QED
  BY <1>1 DEF HitsTo

\* What a round does to each part.
LEMMA RoundParts ==
  ASSUME NEW acc \in Scanned, NEW e \in Event
  PROVE  /\ e \notin Decodes(BountyKeys) => ScanBounty(acc, e) = acc
         /\ e \in Decodes(BountyKeys) =>
              ScanBounty(acc, e).first =
                IF acc.first = <<>> THEN <<e>> ELSE acc.first
         /\ ScanBounty(acc, e).total =
              IF Paying(e) THEN SaturatingAdd(acc.total, e.payout)
              ELSE acc.total
  BY DEF ScanBounty, BountyKeys, Paying, Decodes, Event

\* Only a claim is counted.
LEMMA RoundSkips ==
  ASSUME NEW acc \in Scanned, NEW e \in Event,
         e \notin Decodes({"BountyClaimed"})
  PROVE  ScanBounty(acc, e).count = acc.count
  BY DEF ScanBounty, BountyKeys, Decodes

\* A claim that decodes is counted.
LEMMA RoundCounts ==
  ASSUME NEW acc \in Scanned, NEW e \in Decodes({"BountyClaimed"})
  PROVE  ScanBounty(acc, e).count = acc.count + 1
  BY DEF ScanBounty, BountyKeys, Decodes

\* After n rounds `first` holds the first bounty event of n, if any.
LEMMA ScanFirst ==
  ASSUME NEW N \in Nat, NEW evs \in [1..N -> Event], NEW f, IsScan(f, N, evs)
  PROVE  IsFirst(f[N].first, HitsTo(evs, BountyKeys, N), evs)
<1> DEFINE H(n) == HitsTo(evs, BountyKeys, n)
           S == {n \in Nat : n <= N => IsFirst(f[n].first, H(n), evs)}
<1>1. 0 \in S
  BY ScanRounds, HitsBound DEF IsFirst, NothingScanned
<1>2. ASSUME NEW n \in Nat, n \in S PROVE n + 1 \in S
  <2> SUFFICES ASSUME n + 1 <= N
               PROVE  IsFirst(f[n + 1].first, H(n + 1), evs)
    OBVIOUS
  <2>1. /\ f[n] \in Scanned /\ f[n + 1] = ScanBounty(f[n], evs[n + 1])
        /\ evs[n + 1] \in Event
    BY ScanRounds
  <2>2. IsFirst(f[n].first, H(n), evs) /\ H(n) \subseteq 1..n
    BY <1>2, HitsBound
  <2>3. CASE evs[n + 1] \notin Decodes(BountyKeys)
    <3>1. H(n + 1) = H(n)
      BY <2>3, HitsSame
    <3>2. f[n + 1] = f[n]
      BY <2>1, <2>3, RoundParts
    <3> QED
      BY <2>2, <3>1, <3>2
  <2>4. CASE evs[n + 1] \in Decodes(BountyKeys)
    <3>1. H(n + 1) = H(n) \cup {n + 1}
      BY <2>4, HitsAdd
    <3>2. f[n + 1].first = IF f[n].first = <<>> THEN <<evs[n + 1]>>
                           ELSE f[n].first
      BY <2>1, <2>4, RoundParts
    <3> HIDE DEF H
    <3>3. CASE H(n) = {}
      <4>1. H(n + 1) = {n + 1} /\ f[n + 1].first = <<evs[n + 1]>>
        BY <2>2, <3>1, <3>2, <3>3 DEF IsFirst
      <4> QED
        BY <4>1 DEF IsFirst
    <3>4. CASE H(n) # {}
      <4>1. PICK m \in H(n) : /\ \A j \in H(n) : m <= j
                              /\ f[n].first = <<evs[m]>>
        BY <2>2, <3>4 DEF IsFirst
      <4>2. \A j \in H(n + 1) : m <= j
        BY <2>2, <3>1, <4>1
      <4>3. f[n + 1].first = <<evs[m]>>
        BY <3>2, <4>1
      <4> QED
        BY <3>1, <4>2, <4>3 DEF IsFirst
    <3> QED
      BY <3>3, <3>4
  <2> QED
    BY <2>3, <2>4
<1>3. N \in S
  <2> HIDE DEF S
  <2> QED
    BY <1>1, <1>2, Induction
<1> QED
  BY <1>3

\* The count is the number of claims that decode.
LEMMA ScanCount ==
  ASSUME NEW N \in Nat, NEW evs \in [1..N -> Event], NEW f, IsScan(f, N, evs)
  PROVE  f[N].count = Cardinality(HitsTo(evs, {"BountyClaimed"}, N))
<1> DEFINE H(n) == HitsTo(evs, {"BountyClaimed"}, n)
           S == {n \in Nat : n <= N => /\ IsFiniteSet(H(n))
                                       /\ f[n].count = Cardinality(H(n))}
<1>1. 0 \in S
  <2>1. H(0) = {}
    BY HitsBound
  <2>2. f[0].count = 0
    BY ScanRounds DEF NothingScanned
  <2> HIDE DEF H
  <2> QED
    BY <2>1, <2>2, FS_EmptySet
<1>2. ASSUME NEW n \in Nat, n \in S PROVE n + 1 \in S
  <2> SUFFICES ASSUME n + 1 <= N
               PROVE  /\ IsFiniteSet(H(n + 1))
                      /\ f[n + 1].count = Cardinality(H(n + 1))
    OBVIOUS
  <2>1. /\ f[n] \in Scanned /\ f[n + 1] = ScanBounty(f[n], evs[n + 1])
        /\ evs[n + 1] \in Event
    BY ScanRounds
  <2>2. /\ IsFiniteSet(H(n)) /\ f[n].count = Cardinality(H(n))
        /\ n + 1 \notin H(n)
    BY <1>2, HitsBound
  <2>3. CASE evs[n + 1] \notin Decodes({"BountyClaimed"})
    <3>1. H(n + 1) = H(n)
      BY <2>3, HitsSame
    <3>2. f[n + 1].count = f[n].count
      BY <2>1, <2>3, RoundSkips
    <3> QED
      BY <2>2, <3>1, <3>2
  <2>4. CASE evs[n + 1] \in Decodes({"BountyClaimed"})
    <3>1. H(n + 1) = H(n) \cup {n + 1}
      BY <2>4, HitsAdd
    <3>2. f[n + 1].count = f[n].count + 1
      BY <2>1, <2>4, RoundCounts
    <3> HIDE DEF H
    <3> QED
      BY <2>2, <3>1, <3>2, FS_AddElement
  <2> QED
    BY <2>3, <2>4
<1>3. N \in S
  <2> HIDE DEF S
  <2> QED
    BY <1>1, <1>2, Induction
<1> QED
  BY <1>3

Capped(x) == IF x > U128Max THEN U128Max ELSE x

\* Saturating round by round is saturating once.
LEMMA ScanTotal ==
  ASSUME NEW N \in Nat, NEW evs \in [1..N -> Event],
         NEW f, IsScan(f, N, evs), NEW o, IsOwed(o, N, evs)
  PROVE  o[N] \in Nat /\ f[N].total = Capped(o[N])
<1> DEFINE S == {n \in Nat : n <= N => /\ o[n] \in Nat
                                       /\ f[n].total = Capped(o[n])}
<1>1. 0 \in S
  BY ScanRounds, OwedRounds, ClassifierAssumption DEF NothingScanned, Capped
<1>2. ASSUME NEW n \in Nat, n \in S PROVE n + 1 \in S
  <2> SUFFICES ASSUME n + 1 <= N
               PROVE  o[n + 1] \in Nat /\ f[n + 1].total = Capped(o[n + 1])
    OBVIOUS
  <2>1. /\ f[n] \in Scanned /\ f[n + 1] = ScanBounty(f[n], evs[n + 1])
        /\ evs[n + 1] \in Event
    BY ScanRounds
  <2>2. o[n] \in Nat /\ f[n].total = Capped(o[n])
    BY <1>2
  <2>3. o[n + 1] = IF Paying(evs[n + 1]) THEN o[n] + evs[n + 1].payout
                   ELSE o[n]
    BY OwedRounds
  <2>4. CASE ~Paying(evs[n + 1])
    BY <2>1, <2>2, <2>3, <2>4, RoundParts
  <2>5. CASE Paying(evs[n + 1])
    <3>1. PICK p \in Nat : p = evs[n + 1].payout
      BY <2>1, <2>5, ClassifierAssumption DEF Paying, Event, Payouts
    <3>2. f[n + 1].total = SaturatingAdd(f[n].total, p) /\ o[n + 1] = o[n] + p
      BY <2>1, <2>3, <2>5, <3>1, RoundParts
    <3> QED
      BY <2>2, <3>2, ClassifierAssumption DEF SaturatingAdd, Capped
  <2> QED
    BY <2>4, <2>5
<1>3. N \in S
  <2> HIDE DEF S
  <2> QED
    BY <1>1, <1>2, Induction
<1> QED
  BY <1>3

-----------------------------------------------------------------------------
(***************************************************************************)
(* What the passes find.                                                   *)
(***************************************************************************)
\* The hits of a pass, in the terms used for the loop.
LEMMA HitsAre ==
  ASSUME NEW evs \in Seq(Event), NEW K
  PROVE  /\ Hits(evs, K) = HitsTo(evs, K, Len(evs))
         /\ Hits(evs, K) = {i \in DOMAIN evs : evs[i] \in Decodes(K)}
         /\ Hits(evs, K) \subseteq Nat \ {0}
         /\ Hits(evs, K) \subseteq DOMAIN evs
<1>1. DOMAIN evs = 1..Len(evs) /\ Len(evs) \in Nat
  OBVIOUS
<1>2. \A i \in DOMAIN evs : evs[i] \in Event
  OBVIOUS
<1>3. \A i \in DOMAIN evs : (evs[i].key \in K /\ evs[i].ok)
                             <=> evs[i] \in Decodes(K)
  BY <1>2 DEF Decodes
<1> QED
  BY <1>1, <1>3 DEF Hits, HitsTo

\* Two scans for the first of the same events agree.
LEMMA FirstUnique ==
  ASSUME NEW evs, NEW H \in SUBSET Nat, NEW s, NEW t,
         IsFirst(s, H, evs), IsFirst(t, H, evs)
  PROVE  s = t
<1>1. CASE H = {}
  BY <1>1 DEF IsFirst
<1>2. CASE H # {}
  <2>1. PICK m \in H : (\A j \in H : m <= j) /\ s = <<evs[m]>>
    BY <1>2 DEF IsFirst
  <2>2. PICK l \in H : (\A j \in H : l <= j) /\ t = <<evs[l]>>
    BY <1>2 DEF IsFirst
  <2>3. m = l
    BY <2>1, <2>2
  <2> QED
    BY <2>1, <2>2, <2>3
<1> QED
  BY <1>1, <1>2

\* A pass finds the first event of its module that decodes.
LEMMA FirstIs ==
  ASSUME NEW evs \in Seq(Event), NEW K
  PROVE  IsFirst(FirstOf(evs, K), Hits(evs, K), evs)
<1> DEFINE H == Hits(evs, K)
<1>1. H \in SUBSET Nat
  BY HitsAre
<1>2. FirstOf(evs, K) = IF H = {} THEN <<>> ELSE << evs[Min(H)] >>
  BY DEF FirstOf
<1> HIDE DEF H
<1>3. CASE H = {}
  BY <1>2, <1>3 DEF IsFirst, H
<1>4. CASE H # {}
  <2>1. Min(H) \in H /\ \A j \in H : Min(H) <= j
    BY <1>1, <1>4, Least DEF Min
  <2> QED
    BY <1>2, <1>4, <2>1 DEF IsFirst, H
<1> QED
  BY <1>3, <1>4

\* It finds one event or none.
LEMMA FirstShape ==
  ASSUME NEW evs \in Seq(Event), NEW K
  PROVE  \/ Hits(evs, K) = {} /\ FirstOf(evs, K) = <<>>
         \/ \E m \in Hits(evs, K) : /\ evs[m] \in Decodes(K)
                                    /\ FirstOf(evs, K) = <<evs[m]>>
<1>1. \A m \in Hits(evs, K) : evs[m] \in Decodes(K)
  BY HitsAre
<1> QED
  BY <1>1, FirstIs DEF IsFirst

\* The loop over the bounty events, all of it: the first bounty event, the
\* number of claims and the sum of their payouts, cut off once.
LEMMA BountyScan ==
  ASSUME NEW evs \in Seq(Event)
  PROVE  /\ ScanBountyEvents(evs) \in Scanned
         /\ ScanBountyEvents(evs).first = FirstOf(evs, BountyKeys)
         /\ ScanBountyEvents(evs).count =
              Cardinality(Hits(evs, {"BountyClaimed"}))
         /\ Owed(evs) \in Nat
         /\ ScanBountyEvents(evs).total = Capped(Owed(evs))
<1>1. PICK N \in Nat : N = Len(evs)
  BY EventsFcn
<1>2. evs \in [1..N -> Event]
  BY <1>1, EventsFcn
<1>3. PICK f : IsScan(f, N, evs) /\ ScanBountyEvents(evs) = f[N]
  BY <1>1, ScanTable
<1>4. PICK o : IsOwed(o, N, evs) /\ Owed(evs) = o[N]
  BY <1>1, OwedTable
<1>5. \A K : /\ Hits(evs, K) = HitsTo(evs, K, N)
             /\ Hits(evs, K) \in SUBSET Nat
  BY <1>1, HitsAre
<1>6. f[N] \in Scanned
  BY <1>2, <1>3, ScanRounds
<1>7. f[N].first = FirstOf(evs, BountyKeys)
  <2>1. IsFirst(f[N].first, Hits(evs, BountyKeys), evs)
    BY <1>2, <1>3, <1>5, ScanFirst
  <2>2. IsFirst(FirstOf(evs, BountyKeys), Hits(evs, BountyKeys), evs)
    BY FirstIs
  <2> QED
    BY <1>5, <2>1, <2>2, FirstUnique
<1>8. f[N].count = Cardinality(Hits(evs, {"BountyClaimed"}))
  BY <1>2, <1>3, <1>5, ScanCount
<1>9. o[N] \in Nat /\ f[N].total = Capped(o[N])
  BY <1>2, <1>3, <1>4, ScanTotal
<1> QED
  BY <1>3, <1>4, <1>6, <1>7, <1>8, <1>9

-----------------------------------------------------------------------------
(***************************************************************************)
(* The classification.                                                     *)
(***************************************************************************)
Modules == {"attestation", "bounty", "contract", "bank"}
Row == [module : Modules, key : Keys, id : Ids, count : Nat, total : Nat]

BountyRow(evs) ==
  LET acc == ScanBountyEvents(evs)
  IN [module |-> "bounty",
      key    |-> IF acc.count > 0 THEN "BountyClaimed"
                 ELSE Head(acc.first).key,
      id     |-> Head(acc.first).id,
      count  |-> acc.count,
      total  |-> acc.total]

\* The first part of a concatenation that is not empty has its head.
LEMMA HeadOfConcat ==
  ASSUME NEW V, NEW s \in Seq(V), NEW t \in Seq(V)
  PROVE  /\ s \o t \in Seq(V)
         /\ s = <<>> => s \o t = t
         /\ s # <<>> => s \o t # <<>> /\ Head(s \o t) = Head(s)
<1>1. s \o t \in Seq(V)
  OBVIOUS
<1>2. ASSUME s = <<>> PROVE s \o t = t
  BY <1>2
<1>3. ASSUME s # <<>> PROVE s \o t # <<>> /\ Head(s \o t) = Head(s)
  <2>1. Len(s) \in Nat /\ Len(s) # 0
    BY <1>3
  <2>2. Len(s \o t) # 0 /\ (s \o t)[1] = s[1]
    BY <2>1
  <2> QED
    BY <2>1, <2>2, <1>1
<1> QED
  BY <1>1, <1>2, <1>3

\* A pass that turns its event into a plain row.
LEMMA PlainPass ==
  ASSUME NEW evs \in Seq(Event), NEW K \in SUBSET Keys, NEW m \in Modules
  PROVE  LET first == FirstOf(evs, K)
             pass  == IF first = <<>> THEN <<>>
                      ELSE << Plain(m, Head(first)) >>
         IN /\ pass \in Seq(Row)
            /\ pass = <<>> <=> Hits(evs, K) = {}
            /\ pass # <<>> => Head(pass).module = m
<1>1. CASE Hits(evs, K) = {}
  BY <1>1, FirstShape
<1>2. CASE Hits(evs, K) # {}
  <2>1. PICK i \in Hits(evs, K) : /\ evs[i] \in Decodes(K)
                                  /\ FirstOf(evs, K) = <<evs[i]>>
    BY <1>2, FirstShape
  <2>2. PICK e \in Event : e = evs[i] /\ FirstOf(evs, K) = <<e>>
    BY <2>1 DEF Decodes
  <2>3. Plain(m, e) \in Row /\ Plain(m, e).module = m
    BY DEF Plain, Row, Event
  <2> QED
    BY <1>2, <2>2, <2>3
<1> QED
  BY <1>1, <1>2

\* The bounty pass yields its row, or nothing without a bounty event.
LEMMA BountyPass ==
  ASSUME NEW evs \in Seq(Event)
  PROVE  /\ ClassifyBountyEvents(evs) \in Seq(Row)
         /\ ClassifyBountyEvents(evs) = <<>> <=> Hits(evs, BountyKeys) = {}
         /\ ClassifyBountyEvents(evs) # <<>> =>
              /\ Head(ClassifyBountyEvents(evs)) = BountyRow(evs)
              /\ BountyRow(evs).module = "bounty"
<1>1. CASE Hits(evs, BountyKeys) = {}
  <2>1. ScanBountyEvents(evs).first = <<>>
    BY <1>1, BountyScan, FirstShape
  <2> QED
    BY <1>1, <2>1 DEF ClassifyBountyEvents
<1>2. CASE Hits(evs, BountyKeys) # {}
  <2>1. PICK i \in Hits(evs, BountyKeys) :
               /\ evs[i] \in Decodes(BountyKeys)
               /\ FirstOf(evs, BountyKeys) = <<evs[i]>>
    BY <1>2, FirstShape
  <2>2. PICK e \in Event : ScanBountyEvents(evs).first = <<e>>
    BY <2>1, BountyScan DEF Decodes
  <2>3. /\ ScanBountyEvents(evs).count \in Nat
        /\ ScanBountyEvents(evs).total \in Nat
    BY BountyScan, ClassifierAssumption DEF Scanned
  <2>4. ClassifyBountyEvents(evs) = << BountyRow(evs) >>
    BY <2>2 DEF ClassifyBountyEvents, BountyRow
  <2>5. e.key \in Keys /\ e.id \in Ids /\ "BountyClaimed" \in Keys
    BY DEF Event, Keys, BountyKeys
  <2>6. BountyRow(evs) \in Row /\ BountyRow(evs).module = "bounty"
    BY <2>2, <2>3, <2>5 DEF BountyRow, Row, Modules
  <2> QED
    BY <1>2, <2>4, <2>6
<1> QED
  BY <1>1, <1>2

\* The passes in order: the first that finds something decides.
LEMMA ClassifyCases ==
  ASSUME NEW evs \in Seq(Event)
  PROVE  LET c == ClassifyEvents(evs)
             found(K) == Hits(evs, K) # {}
         IN /\ found(AttestationKeys) => c.module = "attestation"
            /\ ~found(AttestationKeys) /\ found(BountyKeys) =>
                 c.module = "bounty" /\ c = BountyRow(evs)
            /\ /\ ~found(AttestationKeys) /\ ~found(BountyKeys)
               /\ found(ContractKeys)
               => c.module = "contract"
            /\ /\ ~found(AttestationKeys) /\ ~found(BountyKeys)
               /\ ~found(ContractKeys) /\ found(BankKeys)
               => c.module = "bank"
            /\ /\ ~found(AttestationKeys) /\ ~found(BountyKeys)
               /\ ~found(ContractKeys) /\ ~found(BankKeys)
               => c.module = "unknown"
<1> DEFINE AsPlain(m, first) == IF first = <<>> THEN <<>>
                                ELSE << Plain(m, Head(first)) >>
           a == AsPlain("attestation", FirstOf(evs, AttestationKeys))
           b == ClassifyBountyEvents(evs)
           c == AsPlain("contract", FirstOf(evs, ContractKeys))
           k == AsPlain("bank", FirstOf(evs, BankKeys))
<1>1. Passes(evs) = ((a \o b) \o c) \o k
  BY DEF Passes, ClassifyContractEvents
<1>2. /\ a \in Seq(Row) /\ (a = <<>> <=> Hits(evs, AttestationKeys) = {})
      /\ a # <<>> => Head(a).module = "attestation"
  BY PlainPass DEF Keys, Modules
<1>3. /\ b \in Seq(Row) /\ (b = <<>> <=> Hits(evs, BountyKeys) = {})
      /\ b # <<>> => Head(b) = BountyRow(evs) /\ Head(b).module = "bounty"
  BY BountyPass
<1>4. /\ c \in Seq(Row) /\ (c = <<>> <=> Hits(evs, ContractKeys) = {})
      /\ c # <<>> => Head(c).module = "contract"
  BY PlainPass DEF Keys, Modules
<1>5. /\ k \in Seq(Row) /\ (k = <<>> <=> Hits(evs, BankKeys) = {})
      /\ k # <<>> => Head(k).module = "bank"
  BY PlainPass DEF Keys, Modules
<1> HIDE DEF a, b, c, k
<1>6. /\ a \o b \in Seq(Row)
      /\ a = <<>> => a \o b = b
      /\ a # <<>> => a \o b # <<>> /\ Head(a \o b) = Head(a)
  BY <1>2, <1>3, HeadOfConcat
<1> DEFINE ab == a \o b
<1> HIDE DEF ab
<1>7. /\ ab \o c \in Seq(Row)
      /\ ab = <<>> => ab \o c = c
      /\ ab # <<>> => ab \o c # <<>> /\ Head(ab \o c) = Head(ab)
  BY <1>4, <1>6, HeadOfConcat DEF ab
<1> DEFINE abc == ab \o c
<1> HIDE DEF abc
<1>8. /\ abc = <<>> => abc \o k = k
      /\ abc # <<>> => abc \o k # <<>> /\ Head(abc \o k) = Head(abc)
  BY <1>5, <1>7, HeadOfConcat DEF abc
<1>9. ClassifyEvents(evs) = IF abc \o k = <<>> THEN Unknown
                            ELSE Head(abc \o k)
  BY <1>1 DEF ClassifyEvents, ab, abc
<1>10. Unknown.module = "unknown"
  BY DEF Unknown
<1> QED
  BY <1>2, <1>3, <1>4, <1>5, <1>6, <1>7, <1>8, <1>9, <1>10 DEF ab, abc

-----------------------------------------------------------------------------
(***************************************************************************)
(* The state machine: the events are events, and the body is that of a     *)
(* signed transaction or was elided.                                       *)
(***************************************************************************)
Shape ==
  /\ events \in Seq(Event)
  /\ result \in Results
  /\ body = <<>> \/ \E t \in Signed : body = <<t>>

\* The shape of the state never changes: events are only appended, and a body
\* is only set to one the chain has signed.
LEMMA ShapeInvariant == Spec => []Shape
<1>1. Init => Shape
  BY DEF Init, Shape, Elided
<1>2. Shape /\ [Next]_vars => Shape'
  <2> SUFFICES ASSUME Shape, [Next]_vars PROVE Shape'
    OBVIOUS
  <2>1. CASE Persist
    <3>1. PICK t \in Signed : body' = <<t>>
      BY <2>1 DEF Persist
    <3>2. events' = events /\ result' = result
      BY <2>1 DEF Persist
    <3> QED
      BY <3>1, <3>2 DEF Shape
  <2>2. ASSUME NEW e \in Events, Emit(e) PROVE Shape'
    <3>1. e \in Event
      BY ClassifierAssumption DEF Event, Payouts
    <3>2. events' = Append(events, e) /\ body' = body /\ result' = result
      BY <2>2 DEF Emit
    <3>3. events' \in Seq(Event)
      BY <3>1, <3>2 DEF Shape
    <3> QED
      BY <3>2, <3>3 DEF Shape
  <2>3. CASE UNCHANGED vars
    BY <2>3 DEF Shape, vars
  <2> QED
    BY <2>1, <2>2, <2>3 DEF Next
<1> QED
  BY <1>1, <1>2, PTL DEF Spec

\* Looking for the keys of two modules is looking for those of each.
LEMMA HitsUnion ==
  ASSUME NEW evs, NEW K, NEW L
  PROVE  Hits(evs, K \cup L) = {} <=> Hits(evs, K) = {} /\ Hits(evs, L) = {}
  BY DEF Hits

\* A row is written unless the transaction was skipped.
LEMMA RowOf ==
  ASSUME NEW r \in Results, NEW evs
  PROVE  /\ r = "skipped" => ClassifyTx(r, evs) = <<>>
         /\ r # "skipped" => ClassifyTx(r, evs) = << ClassifyEvents(evs) >>
  BY DEF ClassifyTx, OutcomeOf, Results

\* The modules are preferred in a fixed order, wherever their events stand
\* among the others, for every sequence of events (classify_events).
THEOREM SemanticWinsHolds == Spec => []SemanticWins
<1>1. Shape => SemanticWins
  <2> SUFFICES ASSUME Shape PROVE SemanticWins
    OBVIOUS
  <2>1. events \in Seq(Event) /\ result \in Results
    BY DEF Shape
  <2>2. CASE result = "skipped"
    BY <2>1, <2>2, RowOf DEF SemanticWins
  <2>3. CASE result # "skipped"
    <3> DEFINE c == ClassifyEvents(events)
    <3>1. ClassifyTx(result, events) = <<c>>
      BY <2>1, <2>3, RowOf
    <3>2. <<c>> # <<>> /\ Head(<<c>>) = c
      OBVIOUS
    <3> DEFINE A == Hits(events, AttestationKeys) # {}
               B == Hits(events, BountyKeys) # {}
               C == Hits(events, ContractKeys) # {}
               K == Hits(events, BankKeys) # {}
    <3>3. /\ A => c.module = "attestation"
          /\ ~A /\ B => c.module = "bounty"
          /\ ~A /\ ~B /\ C => c.module = "contract"
          /\ ~A /\ ~B /\ ~C /\ K => c.module = "bank"
          /\ ~A /\ ~B /\ ~C /\ ~K => c.module = "unknown"
      BY <2>1, ClassifyCases
    <3>4. \A L : Decoded(L) = Hits(events, L)
      BY DEF Decoded, Hits
    <3>5. Keys \ OtherKeys =
            ((AttestationKeys \cup BountyKeys) \cup ContractKeys) \cup BankKeys
      BY DEF Keys, OtherKeys, AttestationKeys, BountyKeys, ContractKeys,
             BankKeys
    <3> DEFINE AB  == AttestationKeys \cup BountyKeys
               ABC == AB \cup ContractKeys
    <3>6. Hits(events, AB) = {} <=> ~A /\ ~B
      BY HitsUnion
    <3>7. Hits(events, ABC) = {} <=> Hits(events, AB) = {} /\ ~C
      BY HitsUnion
    <3>8. Hits(events, ABC \cup BankKeys) = {} <=>
             Hits(events, ABC) = {} /\ ~K
      BY HitsUnion
    <3>9. Hits(events, Keys \ OtherKeys) = {} <=> ~A /\ ~B /\ ~C /\ ~K
      BY <3>5, <3>6, <3>7, <3>8
    <3> HIDE DEF c
    <3>10. /\ c.module = "attestation" <=> A
           /\ c.module = "bounty" <=> ~A /\ B
           /\ c.module = "contract" <=> (~A /\ ~B) /\ C
           /\ c.module = "unknown" <=> ~A /\ ~B /\ ~C /\ ~K
      BY <3>3
    <3> QED
      BY <2>3, <3>1, <3>2, <3>4, <3>6, <3>9, <3>10 DEF SemanticWins
  <2> QED
    BY <2>2, <2>3
<1> QED
  BY <1>1, ShapeInvariant, PTL

\* The smaller of two amounts.
LEMMA MinCapped ==
  ASSUME NEW x \in Nat
  PROVE  Min({x, U128Max}) = Capped(x)
<1> DEFINE P == {x, U128Max}
<1>1. U128Max \in Nat
  BY ClassifierAssumption
<1>2. Capped(x) \in P /\ \A y \in P : Capped(x) <= y
  BY <1>1 DEF Capped
<1>3. \A m \in P : (\A y \in P : m <= y) => m = Capped(x)
  BY <1>1, <1>2
<1> QED
  BY <1>2, <1>3 DEF Min

\* The events of a sequence that decode can be counted.
LEMMA HitsFinite ==
  ASSUME NEW evs \in Seq(Event), NEW K
  PROVE  IsFiniteSet(Hits(evs, K))
<1>1. PICK N \in Nat : N = Len(evs)
  BY EventsFcn
<1>2. Hits(evs, K) \subseteq 1..N
  BY <1>1, HitsAre, HitsBound
<1>3. IsFiniteSet(1..N)
  BY FS_Interval
<1> QED
  BY <1>2, <1>3, FS_Subset

\* What a bounty row says: the claims that decode, their payouts cut off
\* once, the kind of a claim when there is one, and the id of the first.
LEMMA BountyRowIs ==
  ASSUME NEW evs \in Seq(Event), Hits(evs, BountyKeys) # {}
  PROVE  LET claims == Hits(evs, {"BountyClaimed"})
             row    == BountyRow(evs)
         IN /\ row.count = Cardinality(claims)
            /\ row.total = Min({Owed(evs), U128Max})
            /\ claims # {} => row.key = "BountyClaimed"
            /\ \E i \in Hits(evs, BountyKeys) : row.id = evs[i].id
<1> DEFINE claims == Hits(evs, {"BountyClaimed"})
           acc    == ScanBountyEvents(evs)
<1>1. acc.count = Cardinality(claims) /\ acc.count \in Nat
  BY BountyScan DEF Scanned
<1>2. acc.total = Min({Owed(evs), U128Max})
  BY BountyScan, MinCapped
<1>3. claims # {} => acc.count > 0
  <2>1. IsFiniteSet(claims)
    BY HitsFinite
  <2> HIDE DEF claims
  <2>2. Cardinality(claims) = 0 => claims = {}
    BY <2>1, FS_EmptySet
  <2> HIDE DEF acc
  <2> QED
    BY <1>1, <2>2
<1>4. PICK i \in Hits(evs, BountyKeys) : acc.first = <<evs[i]>>
  BY BountyScan, FirstShape
<1>5. Head(acc.first) = evs[i]
  BY <1>4
<1> HIDE DEF acc, claims
<1>6. BountyRow(evs) =
        [module |-> "bounty",
         key    |-> IF acc.count > 0 THEN "BountyClaimed"
                    ELSE Head(acc.first).key,
         id     |-> Head(acc.first).id,
         count  |-> acc.count,
         total  |-> acc.total]
  BY DEF BountyRow, acc
<1>7. /\ BountyRow(evs).count = acc.count
      /\ BountyRow(evs).total = acc.total
      /\ BountyRow(evs).id = evs[i].id
      /\ acc.count > 0 => BountyRow(evs).key = "BountyClaimed"
  BY <1>5, <1>6
<1> QED
  BY <1>1, <1>2, <1>3, <1>7 DEF claims

\* A claim that pays several claimants is accounted in full, however many
\* events there are and wherever the claims stand (classify_bounty_events).
THEOREM ClaimTallyHolds == Spec => []ClaimTally
<1>1. Shape => ClaimTally
  <2> SUFFICES ASSUME Shape, ClassifyEvents(events).module = "bounty"
               PROVE  LET c      == ClassifyEvents(events)
                          claims == Decoded({"BountyClaimed"})
                      IN /\ c.count = Cardinality(claims)
                         /\ c.total = Min({Owed(events), U128Max})
                         /\ claims # {} => c.key = "BountyClaimed"
                         /\ \A id \in Ids :
                              (\A i \in Decoded(BountyKeys) :
                                 events[i].id = id) => c.id = id
    BY DEF ClaimTally
  <2>1. events \in Seq(Event)
    BY DEF Shape
  <2>2. /\ Hits(events, BountyKeys) # {}
        /\ ClassifyEvents(events) = BountyRow(events)
    BY <2>1, ClassifyCases
  <2>3. \A L : Decoded(L) = Hits(events, L)
    BY DEF Decoded, Hits
  <2> QED
    BY <2>1, <2>2, <2>3, BountyRowIs
<1> QED
  BY <1>1, ShapeInvariant, PTL

-----------------------------------------------------------------------------
(***************************************************************************)
(* Noise: a sequence of events without its i-th one.                       *)
(***************************************************************************)
Kept(i, j) == IF j < i THEN j ELSE j + 1

\* The others keep their order.
LEMMA Removed ==
  ASSUME NEW evs \in Seq(Event), NEW i \in 1..Len(evs)
  PROVE  LET r == RemoveAt(evs, i)
         IN /\ r \in Seq(Event)
            /\ Len(r) + 1 = Len(evs)
            /\ \A j \in 1..Len(r) : r[j] = evs[Kept(i, j)]
<1>1. PICK N \in Nat : N = Len(evs) /\ i \in 1..N
  BY EventsFcn
<1> DEFINE s == SubSeq(evs, 1, i - 1)
           t == SubSeq(evs, i + 1, N)
<1>2. s \in Seq(Event) /\ Len(s) = i - 1 /\ \A j \in 1..(i - 1) : s[j] = evs[j]
  BY <1>1
<1>3. /\ t \in Seq(Event) /\ Len(t) = N - i
      /\ \A j \in 1..(N - i) : t[j] = evs[i + j]
  BY <1>1
<1>4. RemoveAt(evs, i) = s \o t
  BY <1>1 DEF RemoveAt
<1> HIDE DEF s, t
<1>5. s \o t \in Seq(Event) /\ Len(s \o t) = N - 1
  BY <1>1, <1>2, <1>3
<1>6. ASSUME NEW j \in 1..(N - 1) PROVE (s \o t)[j] = evs[Kept(i, j)]
  <2>1. CASE j < i
    BY <1>1, <1>2, <1>3, <2>1 DEF Kept
  <2>2. CASE ~(j < i)
    <3>1. (s \o t)[j] = t[j - (i - 1)]
      BY <1>1, <1>2, <1>3, <2>2
    <3>2. j - (i - 1) \in 1..(N - i)
      BY <1>1, <2>2
    <3> QED
      BY <1>1, <1>3, <2>2, <3>1, <3>2 DEF Kept
  <2> QED
    BY <2>1, <2>2
<1> QED
  BY <1>1, <1>4, <1>5, <1>6

\* A pass does not miss what it does not look for.
LEMMA FirstWithout ==
  ASSUME NEW evs \in Seq(Event), NEW i \in 1..Len(evs), NEW K,
         evs[i] \notin Decodes(K)
  PROVE  FirstOf(RemoveAt(evs, i), K) = FirstOf(evs, K)
<1> DEFINE r == RemoveAt(evs, i)
<1>1. PICK N \in Nat : /\ N + 1 = Len(evs) /\ N = Len(r) /\ i \in 1..(N + 1)
                       /\ r \in Seq(Event)
                       /\ \A j \in 1..N : r[j] = evs[Kept(i, j)]
  <2>1. /\ r \in Seq(Event) /\ Len(r) + 1 = Len(evs)
        /\ \A j \in 1..Len(r) : r[j] = evs[Kept(i, j)]
    BY Removed
  <2> HIDE DEF r
  <2>2. Len(r) \in Nat
    BY <2>1
  <2> QED
    BY <2>1, <2>2
<1>2. IsFirst(FirstOf(r, K), Hits(r, K), r)
  BY <1>1, FirstIs
<1> DEFINE H == HitsTo(evs, K, N + 1)
           G == HitsTo(r, K, N)
<1>3. Hits(r, K) = G /\ Hits(evs, K) = H
  BY <1>1, HitsAre
<1> HIDE DEF r
<1>4. \A j \in G : Kept(i, j) \in H /\ r[j] = evs[Kept(i, j)]
  BY <1>1 DEF HitsTo, Kept
<1>5. ASSUME NEW k \in H PROVE \E j \in G : k = Kept(i, j)
  <2>1. k # i /\ k \in 1..(N + 1) /\ evs[k] \in Decodes(K)
    BY DEF HitsTo
  <2> DEFINE j == IF k < i THEN k ELSE k - 1
  <2>2. j \in 1..N /\ Kept(i, j) = k
    BY <1>1, <2>1 DEF Kept
  <2> HIDE DEF j
  <2>3. r[j] = evs[k]
    BY <1>1, <2>2
  <2> QED
    BY <2>1, <2>2, <2>3 DEF HitsTo
<1>6. IsFirst(FirstOf(r, K), H, evs)
  <2>1. CASE G = {}
    BY <1>2, <1>3, <1>5, <2>1 DEF IsFirst
  <2>2. CASE G # {}
    <3>1. PICK m \in G : (\A j \in G : m <= j) /\ FirstOf(r, K) = <<r[m]>>
      BY <1>2, <1>3, <2>2 DEF IsFirst
    <3>2. G \subseteq Nat /\ H \subseteq Nat
      BY DEF HitsTo
    <3>3. Kept(i, m) \in H /\ FirstOf(r, K) = <<evs[Kept(i, m)]>>
      BY <1>4, <3>1
    <3>4. ASSUME NEW k \in H PROVE Kept(i, m) <= k
      <4>1. PICK j \in G : k = Kept(i, j)
        BY <1>5
      <4>2. m \in Nat /\ j \in Nat /\ i \in Nat /\ m <= j
        BY <1>1, <3>1, <3>2
      <4> QED
        BY <4>1, <4>2 DEF Kept
    <3> HIDE DEF H, G
    <3> QED
      BY <3>3, <3>4 DEF IsFirst
  <2> QED
    BY <2>1, <2>2
<1>7. IsFirst(FirstOf(evs, K), H, evs)
  BY <1>3, FirstIs
<1>8. H \in SUBSET Nat
  BY DEF HitsTo
<1> QED
  BY <1>6, <1>7, <1>8, FirstUnique DEF r

\* Neither does the loop over the bounty events.
LEMMA ScanWithout ==
  ASSUME NEW N \in Nat, NEW evs \in [1..(N + 1) -> Event],
         NEW i \in 1..(N + 1), evs[i] \notin Decodes(BountyKeys),
         NEW r \in [1..N -> Event], \A j \in 1..N : r[j] = evs[Kept(i, j)]
  PROVE  \A f, g : IsScan(f, N + 1, evs) /\ IsScan(g, N, r) => f[N + 1] = g[N]
<1> SUFFICES ASSUME NEW f, IsScan(f, N + 1, evs), NEW g, IsScan(g, N, r)
             PROVE  f[N + 1] = g[N]
  OBVIOUS
<1> DEFINE M == N + 1
<1>1. M \in Nat /\ evs \in [1..M -> Event] /\ IsScan(f, M, evs)
  OBVIOUS
<1> HIDE DEF M
<1>2. /\ f[0] = NothingScanned
      /\ \A n \in 1..M : f[n] = ScanBounty(f[n - 1], evs[n])
      /\ \A n \in 0..M : f[n] \in Scanned
  BY <1>1, ScanRounds
<1>3. \A n \in 1..(N + 1) : f[n] = ScanBounty(f[n - 1], evs[n])
  BY <1>2 DEF M
<1>4. /\ g[0] = NothingScanned
      /\ \A n \in 1..N : g[n] = ScanBounty(g[n - 1], r[n])
  BY ScanRounds
<1>5. f[i] = f[i - 1]
  <2>1. f[i - 1] \in Scanned
    BY <1>2 DEF M
  <2>2. evs[i] \in Event /\ f[i] = ScanBounty(f[i - 1], evs[i])
    BY <1>3
  <2> QED
    BY <2>1, <2>2, RoundParts
<1> DEFINE S == {n \in Nat : n <= N => f[Kept(i, n)] = g[n]}
<1>6. 0 \in S
  BY <1>2, <1>4 DEF Kept
<1>7. ASSUME NEW n \in Nat, n \in S PROVE n + 1 \in S
  <2> SUFFICES ASSUME n + 1 <= N PROVE f[Kept(i, n + 1)] = g[n + 1]
    OBVIOUS
  <2>1. f[Kept(i, n)] = g[n]
    BY <1>7
  <2>2. g[n + 1] = ScanBounty(g[n], r[n + 1]) /\ r[n + 1] = evs[Kept(i, n + 1)]
    BY <1>4
  <2> DEFINE k == Kept(i, n + 1)
  <2>3. k \in 1..(N + 1) /\ f[k] = ScanBounty(f[k - 1], evs[k])
    BY <1>3 DEF Kept
  <2>4. f[k - 1] = f[Kept(i, n)]
    BY <1>5 DEF Kept
  <2> HIDE DEF k
  <2> QED
    BY <2>1, <2>2, <2>3, <2>4 DEF k
<1>8. N \in S
  <2> HIDE DEF S
  <2> QED
    BY <1>6, <1>7, Induction
<1>9. f[Kept(i, N)] = g[N]
  BY <1>8
<1> QED
  BY <1>5, <1>9 DEF Kept

\* An event that does not decode, or that no module knows, is in no pass.
LEMMA NoiseUndecoded ==
  ASSUME NEW e \in Event, ~e.ok \/ e.key \in OtherKeys,
         NEW K \in {AttestationKeys, BountyKeys, ContractKeys, BankKeys}
  PROVE  e \notin Decodes(K)
  BY DEF Decodes, OtherKeys, AttestationKeys, BountyKeys, ContractKeys,
         BankKeys

\* The whole classification is the same without such an event.
LEMMA ClassifyWithout ==
  ASSUME NEW evs \in Seq(Event), NEW i \in 1..Len(evs),
         ~evs[i].ok \/ evs[i].key \in OtherKeys
  PROVE  ClassifyEvents(RemoveAt(evs, i)) = ClassifyEvents(evs)
<1> DEFINE r == RemoveAt(evs, i)
<1>1. evs[i] \in Event
  BY EventsFcn
<1>2. /\ evs[i] \notin Decodes(AttestationKeys)
      /\ evs[i] \notin Decodes(BountyKeys)
      /\ evs[i] \notin Decodes(ContractKeys)
      /\ evs[i] \notin Decodes(BankKeys)
  BY <1>1, NoiseUndecoded
<1>3. /\ FirstOf(r, AttestationKeys) = FirstOf(evs, AttestationKeys)
      /\ FirstOf(r, ContractKeys) = FirstOf(evs, ContractKeys)
      /\ FirstOf(r, BankKeys) = FirstOf(evs, BankKeys)
  BY <1>2, FirstWithout
<1>4. ScanBountyEvents(r) = ScanBountyEvents(evs)
  <2>1. /\ r \in Seq(Event) /\ Len(r) + 1 = Len(evs)
        /\ \A j \in 1..Len(r) : r[j] = evs[Kept(i, j)]
    BY Removed
  <2> HIDE DEF r
  <2>2. PICK N \in Nat : N = Len(r) /\ N + 1 = Len(evs)
    BY <2>1, EventsFcn
  <2>3. r \in [1..N -> Event] /\ evs \in [1..(N + 1) -> Event]
    BY <2>1, <2>2, EventsFcn
  <2>4. PICK f : IsScan(f, N + 1, evs) /\ ScanBountyEvents(evs) = f[N + 1]
    BY <2>2, ScanTable
  <2>5. PICK g : IsScan(g, N, r) /\ ScanBountyEvents(r) = g[N]
    BY <2>1, <2>2, ScanTable
  <2>6. i \in 1..(N + 1) /\ \A j \in 1..N : r[j] = evs[Kept(i, j)]
    BY <2>1, <2>2
  <2>7. f[N + 1] = g[N]
    <3>1. evs[i] \notin Decodes(BountyKeys)
      BY <1>2
    <3>2. IsScan(f, N + 1, evs) /\ IsScan(g, N, r)
      BY <2>4, <2>5
    <3>3. \A h, k : IsScan(h, N + 1, evs) /\ IsScan(k, N, r) => h[N + 1] = k[N]
      BY <2>3, <2>6, <3>1, ScanWithout
    <3> QED
      BY <3>2, <3>3
  <2> QED
    BY <2>4, <2>5, <2>7
<1>5. ClassifyBountyEvents(r) = ClassifyBountyEvents(evs)
  BY <1>4 DEF ClassifyBountyEvents
<1>6. ClassifyContractEvents(r) = ClassifyContractEvents(evs)
  BY <1>3 DEF ClassifyContractEvents
<1> HIDE DEF r
<1>7. Passes(r) = Passes(evs)
  BY <1>3, <1>5, <1>6 DEF Passes
<1> QED
  BY <1>7 DEF ClassifyEvents, r

\* An event that does not decode, or that no module knows, changes nothing,
\* wherever it stands (classify_events and the scans it calls).
THEOREM NoiseIgnoredHolds == Spec => []NoiseIgnored
<1>1. Shape => NoiseIgnored
  <2> SUFFICES ASSUME Shape, NEW i \in DOMAIN events,
                      ~events[i].ok \/ events[i].key \in OtherKeys
               PROVE  ClassifyTx(result, RemoveAt(events, i)) =
                        ClassifyTx(result, events)
    BY DEF NoiseIgnored
  <2>1. events \in Seq(Event) /\ i \in 1..Len(events)
    BY EventsFcn DEF Shape
  <2>2. ClassifyEvents(RemoveAt(events, i)) = ClassifyEvents(events)
    BY <2>1, ClassifyWithout
  <2> QED
    BY <2>2 DEF ClassifyTx
<1> QED
  BY <1>1, ShapeInvariant, PTL

-----------------------------------------------------------------------------
(***************************************************************************)
(* The length in the wrapper.                                              *)
(***************************************************************************)

\* The table of FromLe for the N bytes s: the value of the last k of them.
IsValue(v, N, s) ==
  v = [k \in 0..N |-> IF k = 0 THEN 0 ELSE s[N + 1 - k] + Base * v[k - 1]]

\* FromLe can be tabulated.
LEMMA ValueExists ==
  ASSUME NEW N \in Nat, NEW s \in [1..N -> Nat]
  PROVE  \E v \in [0..N -> Nat] : IsValue(v, N, s)
<1> DEFINE g == [k \in 1..N |-> [a \in Nat |-> s[N + 1 - k] + Base * a]]
<1>1. Base \in Nat
  BY WidthAssumption
<1>2. \A k \in 1..N : s[N + 1 - k] \in Nat
  OBVIOUS
<1>3. g \in [1..N -> [Nat -> Nat]]
  BY <1>1, <1>2
<1>4. PICK v \in [0..N -> Nat] : Rounds(v, N, 0, g)
  <2> HIDE DEF g
  <2> QED
    BY <1>3, Recursion
<1>5. ASSUME NEW k \in 1..N PROVE v[k] = s[N + 1 - k] + Base * v[k - 1]
  <2>1. v[k] = g[k][v[k - 1]]
    BY <1>4 DEF Rounds
  <2>2. v[k - 1] \in Nat
    OBVIOUS
  <2> QED
    BY <2>1, <2>2
<1>6. IsValue(v, N, s)
  BY <1>4, <1>5 DEF IsValue, Rounds
<1> QED
  BY <1>6

\* FromLe is the last entry of its table.
LEMMA ValueTable ==
  ASSUME NEW N \in Nat, NEW s \in [1..N -> Nat], Len(s) = N
  PROVE  \E v : IsValue(v, N, s) /\ FromLe(s) = v[N]
<1> DEFINE v == CHOOSE v : IsValue(v, N, s)
<1>1. IsValue(v, N, s)
  BY ValueExists
<1>2. FromLe(s) = v[N]
  BY DEF FromLe, IsValue
<1> QED
  BY <1>1, <1>2

\* The weights of the bytes.
LEMMA Weights ==
  /\ Weight[0] = 1
  /\ \A i \in 0..PrefixLen : Weight[i] \in Nat \ {0}
  /\ \A i \in 1..PrefixLen : Weight[i] = Base * Weight[i - 1]
<1> DEFINE N == PrefixLen
           A == Nat \ {0}
           g == [k \in 1..N |-> [a \in A |-> Base * a]]
           IsWeight(w) == w = [i \in 0..N |->
                                 IF i = 0 THEN 1 ELSE Base * w[i - 1]]
<1>1. Base \in A /\ N \in Nat
  BY WidthAssumption
<1>2. g \in [1..N -> [A -> A]]
  BY <1>1
<1>3. PICK v \in [0..N -> A] : Rounds(v, N, 1, g)
  <2> HIDE DEF g, A
  <2>1. 1 \in A
    BY DEF A
  <2> QED
    BY <1>1, <1>2, <2>1, Recursion
<1>4. ASSUME NEW k \in 1..N PROVE v[k] = Base * v[k - 1]
  <2>1. v[k] = g[k][v[k - 1]]
    BY <1>3 DEF Rounds
  <2>2. v[k - 1] \in A
    BY <1>1
  <2> QED
    BY <2>1, <2>2
<1>5. IsWeight(v)
  BY <1>1, <1>3, <1>4 DEF Rounds
<1>6. Weight = CHOOSE w : IsWeight(w)
  BY DEF Weight
<1>7. IsWeight(Weight)
  BY <1>5, <1>6
<1> DEFINE S == {i \in Nat : i <= N => Weight[i] \in A}
<1>8. Weight[0] = 1 /\ \A i \in 1..N : Weight[i] = Base * Weight[i - 1]
  BY <1>1, <1>7
<1>9. \A i \in Nat : i \in S
  <2>1. 0 \in S
    BY <1>8
  <2>2. ASSUME NEW i \in Nat, i \in S PROVE i + 1 \in S
    BY <1>1, <1>8, <2>2
  <2> HIDE DEF S
  <2> QED
    BY <2>1, <2>2, Induction
<1> QED
  BY <1>1, <1>8, <1>9

\* Dividing by a product is dividing twice.
LEMMA DivTwice ==
  ASSUME NEW b \in Nat \ {0}, NEW c \in Nat \ {0}, NEW n \in Nat
  PROVE  n \div (b * c) = (n \div c) \div b
  OBVIOUS

\* A number is its quotient and its remainder.
LEMMA DivMod ==
  ASSUME NEW b \in Nat \ {0}, NEW n \in Nat
  PROVE  (n % b) + b * (n \div b) = n /\ n % b \in Nat /\ n \div b \in Nat
  OBVIOUS

\* The decoder reads the length that the wrapper states.
LEMMA LengthRoundTrip ==
  ASSUME NEW n \in Nat, n < Weight[PrefixLen]
  PROVE  FromLe(ToLe(n)) = n
<1>1. PICK N \in Nat \ {0} : N = PrefixLen
  BY WidthAssumption
<1>2. PICK b \in Nat \ {0} : b = Base
  BY WidthAssumption
<1> DEFINE s == ToLe(n)
           W(i) == Weight[i]
<1>3. /\ W(0) = 1
      /\ \A i \in 0..N : W(i) \in Nat \ {0}
      /\ \A i \in 1..N : W(i) = b * W(i - 1)
  BY <1>1, <1>2, Weights
<1>4. n < W(N)
  BY <1>1
<1> HIDE DEF W
<1>5. \A i \in 1..N : n \div W(i - 1) \in Nat
  <2> SUFFICES ASSUME NEW i \in 1..N PROVE n \div W(i - 1) \in Nat
    OBVIOUS
  <2>1. W(i - 1) \in Nat \ {0}
    BY <1>3
  <2> QED
    BY <2>1, DivMod
<1>6. s = [i \in 1..N |-> (n \div W(i - 1)) % b]
  BY <1>1, <1>2 DEF ToLe, W
<1>7. \A i \in 1..N : (n \div W(i - 1)) % b \in Nat
  BY <1>5, DivMod
<1>8. s \in [1..N -> Nat] /\ Len(s) = N
  <2> HIDE DEF s
  <2>1. s \in [1..N -> Nat]
    BY <1>6, <1>7
  <2>2. s \in Seq(Nat)
    BY <2>1
  <2> QED
    BY <2>1, <2>2
<1> HIDE DEF s
<1>9. PICK v : IsValue(v, N, s) /\ FromLe(s) = v[N]
  BY <1>8, ValueTable
<1>10. v[0] = 0 /\ \A k \in 1..N : v[k] = s[N + 1 - k] + b * v[k - 1]
  BY <1>2, <1>9 DEF IsValue
<1> DEFINE S == {k \in Nat : k <= N => v[k] = n \div W(N - k)}
<1>11. 0 \in S
  <2>1. W(N) \in Nat \ {0}
    BY <1>3
  <2>2. n \div W(N) = 0
    BY <1>4, <2>1
  <2> QED
    BY <1>10, <2>2
<1>12. ASSUME NEW k \in Nat, k \in S PROVE k + 1 \in S
  <2> SUFFICES ASSUME k + 1 <= N PROVE v[k + 1] = n \div W(N - (k + 1))
    OBVIOUS
  <2>1. PICK w \in Nat \ {0} : w = W(N - (k + 1)) /\ W(N - k) = b * w
    <3>1. N - k \in 1..N /\ (N - k) - 1 = N - (k + 1)
      OBVIOUS
    <3>2. N - (k + 1) \in 0..N
      OBVIOUS
    <3> QED
      BY <1>3, <3>1, <3>2
  <2> DEFINE q == n \div w
  <2>2. q \in Nat
    BY DivMod
  <2>3. v[k] = q \div b
    <3>1. v[k] = n \div (b * w)
      BY <1>12, <2>1
    <3> QED
      BY <3>1, DivTwice
  <2>4. s[N - k] = q % b
    <3>1. N - k \in 1..N /\ (N - k) - 1 = N - (k + 1)
      OBVIOUS
    <3>2. s[N - k] = (n \div W((N - k) - 1)) % b
      BY <1>6, <3>1
    <3> QED
      BY <2>1, <3>1, <3>2
  <2>5. v[k + 1] = s[N - k] + b * v[k]
    <3>1. k + 1 \in 1..N /\ N + 1 - (k + 1) = N - k /\ (k + 1) - 1 = k
      OBVIOUS
    <3>2. v[k + 1] = s[N + 1 - (k + 1)] + b * v[(k + 1) - 1]
      BY <1>10, <3>1
    <3> QED
      BY <3>1, <3>2
  <2> HIDE DEF q
  <2>6. (q % b) + b * (q \div b) = q
    BY <2>2, DivMod
  <2> QED
    BY <2>1, <2>3, <2>4, <2>5, <2>6 DEF q
<1>13. N \in S
  <2> HIDE DEF S
  <2> QED
    BY <1>11, <1>12, Induction
<1>14. v[N] = n \div W(0)
  BY <1>13
<1> QED
  BY <1>3, <1>9, <1>14 DEF s

-----------------------------------------------------------------------------
(***************************************************************************)
(* The layout of a body.                                                   *)
(***************************************************************************)

\* The sequence m stands in s, after o bytes.
IsPart(m, s, o) ==
  /\ m \in Seq(Byte) /\ s \in Seq(Byte) /\ o \in Nat
  /\ o + Len(m) <= Len(s)
  /\ \A j \in 1..Len(m) : s[o + j] = m[j]

\* Every sequence stands in itself.
LEMMA PartSelf ==
  ASSUME NEW s \in Seq(Byte)
  PROVE  IsPart(s, s, 0)
<1>1. Len(s) \in Nat
  OBVIOUS
<1> QED
  BY <1>1 DEF IsPart

\* A part stays where it is when more is written.
LEMMA PartKept ==
  ASSUME NEW m, NEW s, NEW o, IsPart(m, s, o), NEW t \in Seq(Byte)
  PROVE  IsPart(m, s \o t, o)
<1>1. /\ m \in Seq(Byte) /\ s \in Seq(Byte) /\ o \in Nat
      /\ o + Len(m) <= Len(s) /\ Len(m) \in Nat /\ Len(s) \in Nat
  BY DEF IsPart
<1>2. s \o t \in Seq(Byte) /\ Len(s \o t) = Len(s) + Len(t) /\ Len(t) \in Nat
  BY <1>1
<1>3. ASSUME NEW j \in 1..Len(m) PROVE (s \o t)[o + j] = m[j]
  <2>1. o + j \in 1..Len(s)
    BY <1>1
  <2>2. (s \o t)[o + j] = s[o + j]
    BY <1>1, <2>1
  <2> QED
    BY <2>2 DEF IsPart
<1> QED
  BY <1>1, <1>2, <1>3 DEF IsPart

\* What is written last stands at the end.
LEMMA PartLast ==
  ASSUME NEW s \in Seq(Byte), NEW t \in Seq(Byte)
  PROVE  /\ IsPart(t, s \o t, Len(s))
         /\ s \o t \in Seq(Byte)
         /\ Len(s \o t) = Len(s) + Len(t)
<1>1. Len(s) \in Nat /\ Len(t) \in Nat
  OBVIOUS
<1>2. s \o t \in Seq(Byte) /\ Len(s \o t) = Len(s) + Len(t)
  OBVIOUS
<1>3. ASSUME NEW j \in 1..Len(t) PROVE (s \o t)[Len(s) + j] = t[j]
  <2>1. Len(s) + j \in (Len(s) + 1)..(Len(s) + Len(t))
    BY <1>1
  <2> QED
    BY <1>1, <2>1
<1> QED
  BY <1>1, <1>2, <1>3 DEF IsPart

\* A slice of a sequence where m stands is a slice of m.
LEMMA PartSlice ==
  ASSUME NEW m, NEW s, NEW o, IsPart(m, s, o), NEW k \in 0..Len(m)
  PROVE  SubSeq(s, o + 1, o + k) = SubSeq(m, 1, k)
<1>1. /\ m \in Seq(Byte) /\ s \in Seq(Byte) /\ o \in Nat
      /\ o + Len(m) <= Len(s) /\ Len(m) \in Nat /\ Len(s) \in Nat
      /\ \A j \in 1..Len(m) : s[o + j] = m[j]
  BY DEF IsPart
<1> DEFINE x == SubSeq(s, o + 1, o + k)
           y == SubSeq(m, 1, k)
<1>2. x \in Seq(Byte) /\ Len(x) = k /\ \A j \in 1..k : x[j] = s[o + j]
  BY <1>1
<1>3. y \in Seq(Byte) /\ Len(y) = k /\ \A j \in 1..k : y[j] = m[j]
  BY <1>1
<1> HIDE DEF x, y
<1>4. ASSUME NEW j \in 1..k PROVE x[j] = y[j]
  <2>1. j \in 1..Len(m)
    BY <1>1
  <2> QED
    BY <1>1, <1>2, <1>3, <2>1
<1>5. x = y
  BY <1>2, <1>3, <1>4
<1> QED
  BY <1>5 DEF x, y

\* All of it is m.
LEMMA PartWhole ==
  ASSUME NEW m, NEW s, NEW o, IsPart(m, s, o)
  PROVE  SubSeq(s, o + 1, o + Len(m)) = m
<1>1. m \in Seq(Byte) /\ Len(m) \in Nat
  BY DEF IsPart
<1>2. SubSeq(m, 1, Len(m)) = m
  BY <1>1
<1>3. Len(m) \in 0..Len(m)
  BY <1>1
<1>4. SubSeq(s, o + 1, o + Len(m)) = SubSeq(m, 1, Len(m))
  BY <1>3, PartSlice
<1> QED
  BY <1>2, <1>4

\* A field of n bytes is a sequence of that length.
LEMMA BytesSeq ==
  ASSUME NEW n \in Nat, NEW m \in Bytes(n)
  PROVE  m \in Seq(Byte) /\ Len(m) = n
<1>1. m \in [1..n -> Byte]
  BY DEF Bytes
<1>2. m \in Seq(Byte)
  BY <1>1
<1> QED
  BY <1>1, <1>2

GasField(t) == IF t.gas = <<>> THEN <<GasNoneTag>> ELSE <<GasSomeTag>> \o t.gas

\* The fields of a signed transaction and their widths.
LEMMA Fields ==
  ASSUME NEW t \in SignedTx
  PROVE  /\ t.sig \in Seq(Byte) /\ Len(t.sig) = SigLen
         /\ t.pubkey \in Seq(Byte) /\ Len(t.pubkey) = PubLen
         /\ t.call \in Seq(Byte) /\ Len(t.call) \in Nat
         /\ <<t.uniq>> \in Seq(Byte) /\ Len(<<t.uniq>>) = 1
         /\ t.nonce \in Seq(Byte) /\ Len(t.nonce) = NonceLen
         /\ t.prio \in Seq(Byte) /\ Len(t.prio) = PrioLen
         /\ t.fee \in Seq(Byte) /\ Len(t.fee) = FeeLen
         /\ t.chain \in Seq(Byte) /\ Len(t.chain) = ChainLen
<1>1. /\ SigLen \in Nat /\ PubLen \in Nat /\ NonceLen \in Nat
      /\ PrioLen \in Nat /\ FeeLen \in Nat /\ ChainLen \in Nat
  BY WidthAssumption
<1>2. /\ t.sig \in Bytes(SigLen) /\ t.pubkey \in Bytes(PubLen)
      /\ t.nonce \in Bytes(NonceLen) /\ t.prio \in Bytes(PrioLen)
      /\ t.fee \in Bytes(FeeLen) /\ t.chain \in Bytes(ChainLen)
      /\ t.call \in Seq(Byte) /\ t.uniq \in Byte
  BY DEF SignedTx
<1>3. /\ t.call \in Seq(Byte) /\ Len(t.call) \in Nat
      /\ <<t.uniq>> \in Seq(Byte) /\ Len(<<t.uniq>>) = 1
  BY <1>2
<1> QED
  BY <1>1, <1>2, <1>3, BytesSeq

\* The field of the gas limit: a tag, and the limit when there is one.
LEMMA GasFields ==
  ASSUME NEW t \in SignedTx
  PROVE  /\ GasField(t) \in Seq(Byte)
         /\ \/ /\ t.gas = <<>> /\ Len(GasField(t)) = 1
               /\ GasField(t)[1] = GasNoneTag
            \/ /\ t.gas # <<>> /\ Len(GasField(t)) = 1 + GasLen
               /\ GasField(t)[1] = GasSomeTag
               /\ GasField(t)[1 + GasLen] = t.gas[GasLen]
<1>1. GasNoneTag \in Byte /\ GasSomeTag \in Byte
  BY WidthAssumption DEF Byte, GasNoneTag, GasSomeTag
<1>2. CASE t.gas = <<>>
  <2>1. GasField(t) = <<GasNoneTag>>
    BY <1>2 DEF GasField
  <2> QED
    BY <1>1, <1>2, <2>1
<1>3. CASE t.gas # <<>>
  <2>1. GasLen \in Nat \ {0} /\ t.gas \in Bytes(GasLen)
    BY <1>3, WidthAssumption DEF SignedTx
  <2>2. t.gas \in Seq(Byte) /\ Len(t.gas) = GasLen
    BY <2>1, BytesSeq
  <2> DEFINE h == <<GasSomeTag>>
  <2>3. h \in Seq(Byte) /\ Len(h) = 1 /\ h[1] = GasSomeTag
    BY <1>1
  <2>4. GasField(t) = h \o t.gas
    BY <1>3 DEF GasField
  <2> HIDE DEF h
  <2>5. /\ h \o t.gas \in Seq(Byte) /\ Len(h \o t.gas) = 1 + GasLen
        /\ IsPart(t.gas, h \o t.gas, 1) /\ IsPart(h, h \o t.gas, 0)
    BY <2>2, <2>3, PartSelf, PartLast, PartKept
  <2> DEFINE x == h \o t.gas
  <2> HIDE DEF x
  <2>6. x[1] = GasSomeTag /\ x[1 + GasLen] = t.gas[GasLen]
    <3>1. \A j \in 1..Len(h) : x[0 + j] = h[j]
      BY <2>5 DEF IsPart, x
    <3>2. \A j \in 1..Len(t.gas) : x[1 + j] = t.gas[j]
      BY <2>5 DEF IsPart, x
    <3>3. x[0 + 1] = h[1]
      BY <2>3, <3>1
    <3>4. GasLen \in 1..Len(t.gas)
      BY <2>1, <2>2
    <3> QED
      BY <2>3, <3>2, <3>3, <3>4
  <2> QED
    BY <1>3, <2>4, <2>5, <2>6 DEF x
<1> QED
  BY <1>2, <1>3

\* x is s with the field t written after it.
Wrote(x, s, t) ==
  /\ x \in Seq(Byte)
  /\ Len(x) = Len(s) + Len(t)
  /\ IsPart(t, x, Len(s))
  /\ \A m, o : IsPart(m, s, o) => IsPart(m, x, o)

\* Writing one more field.
LEMMA WriteField ==
  ASSUME NEW s \in Seq(Byte), NEW t \in Seq(Byte)
  PROVE  Wrote(s \o t, s, t)
  BY PartLast, PartKept DEF Wrote

\* Where the fields stand in the borsh form of a signed transaction; the
\* uniqueness tag comes after u bytes.
LEMMA Layout ==
  ASSUME NEW t \in SignedTx
  PROVE  LET i == Inner(t)
             g == GasField(t)
             u == 1 + SigLen + PubLen + Len(t.call)
         IN /\ i \in Seq(Byte)
            /\ Len(i) = u + 1 + NonceLen + PrioLen + FeeLen + Len(g) + ChainLen
            /\ IsPart(<<V0Tag>>, i, 0)
            /\ IsPart(t.sig, i, 1)
            /\ IsPart(t.pubkey, i, 1 + SigLen)
            /\ IsPart(<<t.uniq>>, i, u)
            /\ IsPart(t.nonce, i, u + 1)
            /\ IsPart(t.prio, i, u + 1 + NonceLen)
            /\ IsPart(t.fee, i, u + 1 + NonceLen + PrioLen)
            /\ IsPart(g, i, u + 1 + NonceLen + PrioLen + FeeLen)
            /\ IsPart(t.chain, i,
                      u + 1 + NonceLen + PrioLen + FeeLen + Len(g))
<1> DEFINE g  == GasField(t)
           s0 == <<V0Tag>>
           s1 == s0 \o t.sig
           s2 == s1 \o t.pubkey
           s3 == s2 \o t.call
           s4 == s3 \o <<t.uniq>>
           s5 == s4 \o t.nonce
           s6 == s5 \o t.prio
           s7 == s6 \o t.fee
           s8 == s7 \o g
           s9 == s8 \o t.chain
<1>1. /\ t.sig \in Seq(Byte) /\ Len(t.sig) = SigLen
      /\ t.pubkey \in Seq(Byte) /\ Len(t.pubkey) = PubLen
      /\ t.call \in Seq(Byte) /\ Len(t.call) \in Nat
      /\ <<t.uniq>> \in Seq(Byte) /\ Len(<<t.uniq>>) = 1
      /\ t.nonce \in Seq(Byte) /\ Len(t.nonce) = NonceLen
      /\ t.prio \in Seq(Byte) /\ Len(t.prio) = PrioLen
      /\ t.fee \in Seq(Byte) /\ Len(t.fee) = FeeLen
      /\ t.chain \in Seq(Byte) /\ Len(t.chain) = ChainLen
  BY Fields
<1>2. g \in Seq(Byte)
  BY GasFields
<1>3. Inner(t) = s9
  BY DEF Inner, GasField
<1>4. s0 \in Seq(Byte) /\ Len(s0) = 1
  <2>1. V0Tag \in Byte
    BY WidthAssumption DEF V0Tag, Byte
  <2> QED
    BY <2>1
<1>5. IsPart(s0, s0, 0)
  BY <1>4, PartSelf
<1> HIDE DEF g, s0
<1>6. Wrote(s1, s0, t.sig) /\ s1 \in Seq(Byte)
  BY <1>1, <1>2, <1>4, WriteField DEF Wrote
<1> HIDE DEF s1
<1>7. Wrote(s2, s1, t.pubkey) /\ s2 \in Seq(Byte)
  BY <1>1, <1>2, <1>6, WriteField DEF Wrote
<1> HIDE DEF s2
<1>8. Wrote(s3, s2, t.call) /\ s3 \in Seq(Byte)
  BY <1>1, <1>2, <1>7, WriteField DEF Wrote
<1> HIDE DEF s3
<1>9. Wrote(s4, s3, <<t.uniq>>) /\ s4 \in Seq(Byte)
  BY <1>1, <1>2, <1>8, WriteField DEF Wrote
<1> HIDE DEF s4
<1>10. Wrote(s5, s4, t.nonce) /\ s5 \in Seq(Byte)
  BY <1>1, <1>2, <1>9, WriteField DEF Wrote
<1> HIDE DEF s5
<1>11. Wrote(s6, s5, t.prio) /\ s6 \in Seq(Byte)
  BY <1>1, <1>2, <1>10, WriteField DEF Wrote
<1> HIDE DEF s6
<1>12. Wrote(s7, s6, t.fee) /\ s7 \in Seq(Byte)
  BY <1>1, <1>2, <1>11, WriteField DEF Wrote
<1> HIDE DEF s7
<1>13. Wrote(s8, s7, g) /\ s8 \in Seq(Byte)
  BY <1>1, <1>2, <1>12, WriteField DEF Wrote
<1> HIDE DEF s8
<1>14. Wrote(s9, s8, t.chain) /\ s9 \in Seq(Byte)
  BY <1>1, <1>2, <1>13, WriteField DEF Wrote
<1> HIDE DEF s9
<1> DEFINE u == 1 + SigLen + PubLen + Len(t.call)
<1>15. /\ Len(s1) = 1 + SigLen
       /\ Len(s2) = 1 + SigLen + PubLen
       /\ Len(s3) = u
       /\ Len(s4) = u + 1
       /\ Len(s5) = u + 1 + NonceLen
       /\ Len(s6) = u + 1 + NonceLen + PrioLen
       /\ Len(s7) = u + 1 + NonceLen + PrioLen + FeeLen
       /\ Len(s8) = u + 1 + NonceLen + PrioLen + FeeLen + Len(g)
       /\ Len(s9) = u + 1 + NonceLen + PrioLen + FeeLen + Len(g) + ChainLen
  BY <1>1, <1>4, <1>6, <1>7, <1>8, <1>9, <1>10, <1>11, <1>12, 
     <1>13, <1>14 DEF Wrote
<1> HIDE DEF u
<1>16. /\ IsPart(s0, s9, 0)
       /\ IsPart(t.sig, s9, Len(s0))
       /\ IsPart(t.pubkey, s9, Len(s1))
       /\ IsPart(<<t.uniq>>, s9, Len(s3))
       /\ IsPart(t.nonce, s9, Len(s4))
       /\ IsPart(t.prio, s9, Len(s5))
       /\ IsPart(t.fee, s9, Len(s6))
       /\ IsPart(g, s9, Len(s7))
       /\ IsPart(t.chain, s9, Len(s8))
  BY <1>5, <1>6, <1>7, <1>8, <1>9, <1>10, <1>11, <1>12, <1>13, 
     <1>14 DEF Wrote
<1> QED
  BY <1>3, <1>4, <1>14, <1>15, <1>16 DEF g, s0, u

\* A byte of a part.
LEMMA PartByte ==
  ASSUME NEW m, NEW s, NEW o, IsPart(m, s, o), NEW j \in 1..Len(m)
  PROVE  s[o + j] = m[j]
  BY DEF IsPart

\* Its first bytes: the version, and the signature.
LEMMA Heading ==
  ASSUME NEW t \in SignedTx
  PROVE  /\ Inner(t) \in Seq(Byte)
         /\ Len(Inner(t)) \in Nat
         /\ Len(Inner(t)) > InnerPubkeyEnd
         /\ Inner(t)[1] = V0Tag
         /\ SubSeq(Inner(t), 2, WrapperLen) = SubSeq(t.sig, 1, PrefixLen)
         /\ Inner(t)[WrapperLen + 1] = t.sig[PrefixLen + 1]
<1> DEFINE i == Inner(t)
<1>1. /\ SigLen \in Nat /\ PubLen \in Nat /\ NonceLen \in Nat \ {0}
      /\ PrioLen \in Nat /\ FeeLen \in Nat /\ ChainLen \in Nat
      /\ PrefixLen \in 1..(SigLen - 1)
  BY WidthAssumption
<1>2. i \in Seq(Byte) /\ IsPart(<<V0Tag>>, i, 0) /\ IsPart(t.sig, i, 1)
  BY Layout
<1>3. PICK c \in Nat, k \in Nat : c = Len(t.call) /\ k = Len(GasField(t))
  BY Fields, GasFields
<1>4. Len(t.sig) = SigLen
  BY Fields
<1>5. Len(i) \in Nat /\ Len(i) > InnerPubkeyEnd
  <2>1. Len(i) = (1 + SigLen + PubLen + c) + 1 + NonceLen + PrioLen + FeeLen
                 + k + ChainLen
    BY <1>3, Layout
  <2> HIDE DEF i
  <2> QED
    BY <1>1, <2>1 DEF InnerPubkeyEnd, InnerPubkeyStart
<1> HIDE DEF i
<1>6. i[1] = V0Tag
  <2> DEFINE h == <<V0Tag>>
  <2>1. Len(h) = 1 /\ h[1] = V0Tag /\ IsPart(h, i, 0)
    BY <1>2
  <2> HIDE DEF h
  <2>2. \A j \in 1..Len(h) : i[0 + j] = h[j]
    BY <2>1 DEF IsPart
  <2>3. 1 \in 1..Len(h)
    BY <2>1
  <2> QED
    BY <2>1, <2>2, <2>3
<1>7. SubSeq(i, 1 + 1, 1 + PrefixLen) = SubSeq(t.sig, 1, PrefixLen)
  <2>1. PrefixLen \in 0..Len(t.sig)
    BY <1>1, <1>4
  <2> QED
    BY <1>2, <2>1, PartSlice
<1>8. i[1 + (PrefixLen + 1)] = t.sig[PrefixLen + 1]
  <2>1. PrefixLen + 1 \in 1..Len(t.sig)
    BY <1>1, <1>4
  <2> QED
    BY <1>2, <2>1, PartByte
<1>9. WrapperLen + 1 = 1 + (PrefixLen + 1) /\ WrapperLen = 1 + PrefixLen
  BY <1>1 DEF WrapperLen
<1>10. SubSeq(i, 2, WrapperLen) = SubSeq(t.sig, 1, PrefixLen)
  <2>1. 1 + 1 = 2
    OBVIOUS
  <2>2. SubSeq(i, 1 + 1, WrapperLen) = SubSeq(t.sig, 1, PrefixLen)
    BY <1>7 DEF WrapperLen
  <2> QED
    BY ONLY <2>1, <2>2
<1>11. i[WrapperLen + 1] = t.sig[PrefixLen + 1]
  BY <1>8, <1>9
<1> QED
  BY <1>2, <1>5, <1>6, <1>10, <1>11 DEF i

\* The wrapper's length takes PrefixLen bytes.
LEMMA LengthBytes ==
  ASSUME NEW n \in Nat
  PROVE  ToLe(n) \in Seq(Byte) /\ Len(ToLe(n)) = PrefixLen
<1>1. Base \in Nat \ {0} /\ PrefixLen \in Nat
  BY WidthAssumption
<1>2. ASSUME NEW i \in 1..PrefixLen
      PROVE  (n \div Weight[i - 1]) % Base \in Byte
  <2>1. PICK w \in Nat \ {0} : w = Weight[i - 1]
    BY <1>1, Weights
  <2>2. PICK q \in Nat : q = n \div w
    BY DivMod
  <2>3. q % Base \in 0..(Base - 1)
    BY <1>1
  <2> QED
    BY <2>1, <2>2, <2>3 DEF Byte
<1>3. ToLe(n) \in Bytes(PrefixLen)
  BY <1>2 DEF ToLe, Bytes
<1> QED
  BY <1>1, <1>3, BytesSeq

\* The wrapper is taken off when there is one, and nothing else is.
LEMMA StripBody ==
  ASSUME NEW t \in Signed, ~LooksWrapped(t)
  PROVE  StripAuthenticatorWrapper(Body(t)) = Inner(t)
<1>1. t \in SignedTx /\ Len(Inner(t)) < Weight[PrefixLen]
  BY ClassifierAssumption
<1> DEFINE i == Inner(t)
<1>2. /\ i \in Seq(Byte) /\ Len(i) \in Nat /\ Len(i) > InnerPubkeyEnd
      /\ i[1] = V0Tag
      /\ SubSeq(i, 2, WrapperLen) = SubSeq(t.sig, 1, PrefixLen)
      /\ i[WrapperLen + 1] = t.sig[PrefixLen + 1]
  BY <1>1, Heading
<1>3. InnerPubkeyEnd \in Nat /\ PrefixLen \in Nat /\ WrapperLen = 1 + PrefixLen
  BY WidthAssumption DEF InnerPubkeyEnd, InnerPubkeyStart, WrapperLen
<1>4. CASE t.wrapped
  <2> DEFINE h == <<V0Tag>>
             p == ToLe(Len(i))
             r == (h \o p) \o i
  <2>1. Body(t) = r
    BY <1>4 DEF Body
  <2>2. h \in Seq(Byte) /\ Len(h) = 1 /\ h[1] = V0Tag
    <3>1. V0Tag \in Byte
      BY WidthAssumption DEF V0Tag, Byte
    <3> QED
      BY <3>1
  <2>3. p \in Seq(Byte) /\ Len(p) = PrefixLen
    BY <1>2, LengthBytes
  <2>4. FromLe(p) = Len(i)
    BY <1>1, <1>2, LengthRoundTrip
  <2> HIDE DEF i, h, p
  <2>5. Wrote(h \o p, h, p) /\ h \o p \in Seq(Byte)
    BY <2>2, <2>3, WriteField DEF Wrote
  <2>6. Wrote(r, h \o p, i)
    BY <1>2, <2>5, WriteField
  <2>7. IsPart(h, h, 0)
    BY <2>2, PartSelf
  <2>8. Len(h \o p) = 1 + PrefixLen
    BY <2>2, <2>3, <2>5 DEF Wrote
  <2>9. /\ IsPart(h, r, 0) /\ IsPart(p, r, Len(h))
        /\ IsPart(i, r, Len(h \o p))
        /\ Len(r) = Len(h \o p) + Len(i)
    BY <2>5, <2>6, <2>7 DEF Wrote
  <2> HIDE DEF r
  <2>10. r[0 + 1] = h[1]
    BY <2>2, <2>9, PartByte
  <2>11. SubSeq(r, 1 + 1, 1 + PrefixLen) = p
    BY <2>2, <2>3, <2>9, PartWhole
  <2>12. r[(1 + PrefixLen) + 1] = i[1]
    <3>1. 1 \in 1..Len(i)
      BY <1>2, <1>3
    <3> QED
      BY <2>8, <2>9, <3>1, PartByte
  <2>13. SubSeq(r, (1 + PrefixLen) + 1, (1 + PrefixLen) + Len(i)) = i
    BY <2>8, <2>9, PartWhole
  <2>14. /\ Len(r) > WrapperLen /\ Len(r) - WrapperLen = Len(i)
         /\ Len(r) = (1 + PrefixLen) + Len(i)
    BY <1>2, <1>3, <2>8, <2>9
  <2>15. /\ r[1] = V0Tag
         /\ FromLe(SubSeq(r, 2, WrapperLen)) = Len(i)
         /\ r[WrapperLen + 1] = V0Tag
         /\ SubSeq(r, WrapperLen + 1, Len(r)) = i
    <3>1. r[1] = V0Tag
      BY <2>2, <2>10
    <3>2. FromLe(SubSeq(r, 2, WrapperLen)) = Len(i)
      <4>1. SubSeq(r, 2, WrapperLen) = p
        BY <1>3, <2>11
      <4> QED
        BY <2>4, <4>1
    <3>3. r[WrapperLen + 1] = V0Tag
      BY <1>2, <1>3, <2>12
    <3>4. SubSeq(r, WrapperLen + 1, Len(r)) = i
      BY <1>3, <2>13, <2>14
    <3> QED
      BY <3>1, <3>2, <3>3, <3>4
  <2> QED
    BY <2>1, <2>14, <2>15 DEF StripAuthenticatorWrapper, i
<1>5. CASE ~t.wrapped
  <2>1. Body(t) = i
    BY <1>5 DEF Body
  <2>2. ~(/\ FromLe(SubSeq(i, 2, WrapperLen)) = Len(i) - WrapperLen
          /\ i[WrapperLen + 1] = V0Tag)
    BY <1>2, <1>5 DEF LooksWrapped
  <2> HIDE DEF i
  <2>3. StripAuthenticatorWrapper(i) = i
    BY <2>2 DEF StripAuthenticatorWrapper
  <2> QED
    BY <2>1, <2>3 DEF i
<1> QED
  BY <1>4, <1>5

\* What is decoded from the body of a signed transaction.
LEMMA DecodeBody ==
  ASSUME NEW t \in Signed, ~LooksWrapped(t)
  PROVE  DecodeTxBody(Body(t)) =
           << [sender        |-> SubSeq(t.pubkey, 1, AddrLen),
               sender_pubkey |-> t.pubkey,
               nonce         |-> ParseNonce(Inner(t))] >>
<1> DEFINE i == Inner(t)
<1>1. t \in SignedTx
  BY ClassifierAssumption
<1>2. StripAuthenticatorWrapper(Body(t)) = i
  BY StripBody
<1>3. /\ i \in Seq(Byte) /\ Len(i) \in Nat /\ Len(i) > InnerPubkeyEnd
      /\ i[1] = V0Tag
  BY <1>1, Heading
<1>4. InnerPubkeyEnd \in Nat
  BY WidthAssumption DEF InnerPubkeyEnd, InnerPubkeyStart
<1>5. SubSeq(i, InnerPubkeyStart + 1, InnerPubkeyEnd) = t.pubkey
  <2>1. IsPart(t.pubkey, i, 1 + SigLen) /\ Len(t.pubkey) = PubLen
    BY <1>1, Layout, Fields
  <2> HIDE DEF i
  <2>2. SubSeq(i, (1 + SigLen) + 1, (1 + SigLen) + Len(t.pubkey)) = t.pubkey
    BY <2>1, PartWhole
  <2> QED
    BY <2>1, <2>2 DEF InnerPubkeyStart, InnerPubkeyEnd
<1> HIDE DEF i
<1>6. i # <<>> /\ Head(i) = V0Tag /\ ~(Len(i) < InnerPubkeyEnd)
  <2>1. Len(i) # 0
    BY <1>3, <1>4
  <2>2. i # <<>>
    BY <2>1
  <2>3. Head(i) = i[1]
    BY <1>3, <2>2
  <2> QED
    BY <1>3, <1>4, <2>2, <2>3
<1> DEFINE pubkey == SubSeq(i, InnerPubkeyStart + 1, InnerPubkeyEnd)
<1>7. DecodeTxBody(Body(t)) =
        << [sender        |-> SubSeq(pubkey, 1, AddrLen),
            sender_pubkey |-> pubkey,
            nonce         |-> ParseNonce(i)] >>
  BY <1>2, <1>6 DEF DecodeTxBody
<1> HIDE DEF pubkey
<1> QED
  BY <1>5, <1>7 DEF i, pubkey

\* An elided body gives nothing.
LEMMA DecodeNothing == DecodeTxBody(<<>>) = <<>>
<1>1. WrapperLen \in Nat
  BY WidthAssumption DEF WrapperLen
<1>2. StripAuthenticatorWrapper(<<>>) = <<>>
  BY <1>1 DEF StripAuthenticatorWrapper
<1> QED
  BY <1>2 DEF DecodeTxBody

\* The transaction of a state, if it has one, is one the chain has signed.
LEMMA BodySigned ==
  ASSUME Shape, NEW t \in Range(body)
  PROVE  t \in Signed
<1>1. CASE body = <<>>
  BY <1>1 DEF Range
<1>2. ASSUME NEW x \in Signed, body = <<x>> PROVE t \in Signed
  BY <1>2 DEF Range
<1> QED
  BY <1>1, <1>2 DEF Shape

\* The signer is exact for every signed transaction, in the wrapper or not,
\* whatever the widths and the bytes of its fields are (decode_tx_body), but
\* for a bare one whose signature spells the length of the rest.
THEOREM SignerExactHolds == Spec => []SignerExact
<1>1. Shape => SignerExact
  <2> SUFFICES ASSUME Shape, NEW t \in Range(body), ~LooksWrapped(t)
               PROVE  LET got == DecodeTxBody(Body(t))
                      IN /\ got # <<>>
                         /\ Head(got).sender_pubkey = t.pubkey
                         /\ Head(got).sender = SubSeq(t.pubkey, 1, AddrLen)
    BY DecodeNothing DEF SignerExact
  <2>1. t \in Signed
    BY BodySigned
  <2> DEFINE d == [sender        |-> SubSeq(t.pubkey, 1, AddrLen),
                   sender_pubkey |-> t.pubkey,
                   nonce         |-> ParseNonce(Inner(t))]
  <2>2. DecodeTxBody(Body(t)) = <<d>>
    BY <2>1, DecodeBody
  <2>3. /\ d.sender_pubkey = t.pubkey
        /\ d.sender = SubSeq(t.pubkey, 1, AddrLen)
    OBVIOUS
  <2> HIDE DEF d
  <2> QED
    BY <2>2, <2>3
<1> QED
  BY <1>1, ShapeInvariant, PTL

-----------------------------------------------------------------------------
(***************************************************************************)
(* The tail of a body, read from its end.                                  *)
(***************************************************************************)

\* The bytes before the uniqueness tag.
Before(t) == 1 + SigLen + PubLen + Len(t.call)

\* The offsets for the true width of gas_limit are those of the tail; those
\* for a width of 1 are GasLen bytes too far when there is a limit.
LEMMA Offsets ==
  ASSUME NEW t \in SignedTx
  PROVE  LET i == Inner(t)
             u == Before(t)
             k == Len(GasField(t))
         IN /\ u \in Nat /\ u >= InnerPubkeyEnd
            /\ Len(i) = u + 1 + NonceLen + PrioLen + FeeLen + k + ChainLen
            /\ UniqTagOff(i, k) = u
            /\ GasTagOff(i, k) = u + 1 + NonceLen + PrioLen + FeeLen
            /\ UniqTagOff(i, 1) = u + (k - 1)
            /\ GasTagOff(i, 1) = u + 1 + NonceLen + PrioLen + FeeLen + (k - 1)
<1> DEFINE i == Inner(t)
<1>1. /\ SigLen \in Nat /\ PubLen \in Nat /\ NonceLen \in Nat
      /\ PrioLen \in Nat /\ FeeLen \in Nat /\ ChainLen \in Nat
  BY WidthAssumption
<1>2. PICK c \in Nat, k \in Nat : c = Len(t.call) /\ k = Len(GasField(t))
  BY Fields, GasFields
<1>3. PICK u \in Nat : u = Before(t) /\ u = 1 + SigLen + PubLen + c
  <2>1. 1 + SigLen + PubLen + c \in Nat
    BY <1>1
  <2>2. Before(t) = 1 + SigLen + PubLen + c
    BY <1>2 DEF Before
  <2> QED
    BY <2>1, <2>2
<1>4. Len(i) = u + 1 + NonceLen + PrioLen + FeeLen + k + ChainLen
  BY <1>2, <1>3, Layout
<1> HIDE DEF i
<1>5. u >= InnerPubkeyEnd
  BY <1>1, <1>3 DEF InnerPubkeyEnd, InnerPubkeyStart
<1>6. /\ UniqTagOff(i, k) = u
      /\ GasTagOff(i, k) = u + 1 + NonceLen + PrioLen + FeeLen
      /\ UniqTagOff(i, 1) = u + (k - 1)
      /\ GasTagOff(i, 1) = u + 1 + NonceLen + PrioLen + FeeLen + (k - 1)
  BY <1>1, <1>4 DEF UniqTagOff, GasTagOff
<1> QED
  BY <1>2, <1>3, <1>4, <1>5, <1>6 DEF i

\* The bytes at these offsets.
LEMMA TailBytes ==
  ASSUME NEW t \in SignedTx
  PROVE  LET i == Inner(t)
             u == Before(t)
         IN /\ i[u + 1] = t.uniq
            /\ i[u + NonceLen + PrioLen + 1] = t.prio[PrioLen]
            /\ \A j \in 1..Len(GasField(t)) :
                 i[u + 1 + NonceLen + PrioLen + FeeLen + j] = GasField(t)[j]
<1> DEFINE i == Inner(t)
           u == Before(t)
           h == <<t.uniq>>
           g == GasField(t)
<1>1. NonceLen \in Nat /\ PrioLen \in Nat \ {0} /\ FeeLen \in Nat
  BY WidthAssumption
<1>2. u \in Nat
  BY Offsets
<1>3. /\ IsPart(h, i, u)
      /\ IsPart(t.prio, i, u + 1 + NonceLen)
      /\ IsPart(g, i, u + 1 + NonceLen + PrioLen + FeeLen)
  BY Layout DEF Before
<1>4. Len(h) = 1 /\ h[1] = t.uniq /\ Len(t.prio) = PrioLen
  BY Fields
<1> HIDE DEF i, u, h, g
<1>5. i[u + 1] = h[1]
  <2>1. \A j \in 1..Len(h) : i[u + j] = h[j]
    BY <1>3 DEF IsPart
  <2> QED
    BY <1>4, <2>1
<1>6. i[u + NonceLen + PrioLen + 1] = t.prio[PrioLen]
  <2>1. \A j \in 1..Len(t.prio) : i[u + 1 + NonceLen + j] = t.prio[j]
    BY <1>3 DEF IsPart
  <2>2. PrioLen \in 1..Len(t.prio)
    BY <1>1, <1>4
  <2>3. i[u + 1 + NonceLen + PrioLen] = t.prio[PrioLen]
    BY <2>1, <2>2
  <2>4. u + 1 + NonceLen + PrioLen = u + NonceLen + PrioLen + 1
    BY <1>1, <1>2
  <2> QED
    BY <2>3, <2>4
<1>7. \A j \in 1..Len(g) :
        i[u + 1 + NonceLen + PrioLen + FeeLen + j] = g[j]
  BY <1>3 DEF IsPart
<1> QED
  BY <1>4, <1>5, <1>6, <1>7 DEF i, u, g

\* The slices a nonce may be taken from.
LEMMA TailSlices ==
  ASSUME NEW t \in SignedTx
  PROVE  LET i == Inner(t)
             u == Before(t)
         IN /\ SubSeq(i, u + 2, u + 2 + NonceLen - 1) = t.nonce
            /\ SubSeq(i, u + GasLen + 2, u + GasLen + 2 + NonceLen - 1) =
                 SubSeq(t.fee, 1, NonceLen)
            /\ Len(i) >= ChainLen
            /\ SubSeq(i, Len(i) - ChainLen + 1, Len(i)) = t.chain
<1> DEFINE i == Inner(t)
           u == Before(t)
           g == GasField(t)
<1>1. /\ NonceLen \in Nat /\ PrioLen \in Nat /\ FeeLen \in Nat
      /\ NonceLen <= FeeLen /\ ChainLen \in Nat /\ GasLen = NonceLen + PrioLen
  BY WidthAssumption
<1>2. PICK k \in Nat : k = Len(g)
  BY GasFields
<1>3. /\ u \in Nat
      /\ Len(i) = u + 1 + NonceLen + PrioLen + FeeLen + k + ChainLen
  BY <1>2, Offsets
<1>4. /\ IsPart(t.nonce, i, u + 1)
      /\ IsPart(t.fee, i, u + 1 + NonceLen + PrioLen)
      /\ IsPart(t.chain, i, u + 1 + NonceLen + PrioLen + FeeLen + k)
  BY <1>2, Layout DEF Before
<1>5. Len(t.nonce) = NonceLen /\ Len(t.fee) = FeeLen /\ Len(t.chain) = ChainLen
  BY Fields
<1> HIDE DEF i, u, g
<1>6. SubSeq(i, u + 2, u + 2 + NonceLen - 1) = t.nonce
  <2>1. SubSeq(i, u + 1 + 1, u + 1 + Len(t.nonce)) = t.nonce
    BY <1>4, PartWhole
  <2>2. u + 1 + 1 = u + 2 /\ u + 1 + Len(t.nonce) = u + 2 + NonceLen - 1
    BY <1>1, <1>3, <1>5
  <2> QED
    BY <2>1, <2>2
<1>7. SubSeq(i, u + GasLen + 2, u + GasLen + 2 + NonceLen - 1) =
        SubSeq(t.fee, 1, NonceLen)
  <2> DEFINE o == u + 1 + NonceLen + PrioLen
  <2>1. NonceLen \in 0..Len(t.fee)
    BY <1>1, <1>5
  <2>2. SubSeq(i, o + 1, o + NonceLen) = SubSeq(t.fee, 1, NonceLen)
    BY <1>4, <2>1, PartSlice
  <2>3. /\ o + 1 = u + GasLen + 2
        /\ o + NonceLen = u + GasLen + 2 + NonceLen - 1
    BY <1>1, <1>3
  <2> HIDE DEF o
  <2> QED
    BY <2>2, <2>3
<1>8. SubSeq(i, Len(i) - ChainLen + 1, Len(i)) = t.chain
  <2> DEFINE o == u + 1 + NonceLen + PrioLen + FeeLen + k
  <2>1. SubSeq(i, o + 1, o + Len(t.chain)) = t.chain
    BY <1>4, PartWhole
  <2>2. o + 1 = Len(i) - ChainLen + 1 /\ o + Len(t.chain) = Len(i)
    BY <1>1, <1>3, <1>5
  <2> HIDE DEF o
  <2> QED
    BY <2>1, <2>2
<1>9. Len(i) >= ChainLen
  BY <1>1, <1>3
<1> QED
  BY <1>6, <1>7, <1>8, <1>9 DEF i, u

\* The first shape that fits gives the nonce.
LEMMA FirstShapeWins ==
  ASSUME NEW i, ~(Len(i) < ChainLen),
         SubSeq(i, Len(i) - ChainLen + 1, Len(i)) = ChainId
  PROVE  LET Nonce(g) == << SubSeq(i, UniqTagOff(i, g) + 2,
                                   UniqTagOff(i, g) + 2 + NonceLen - 1) >>
         IN /\ Fits(i, 1) => ParseNonce(i) = Nonce(1)
            /\ ~Fits(i, 1) /\ Fits(i, 1 + GasLen) =>
                 ParseNonce(i) = Nonce(1 + GasLen)
<1> DEFINE Nonce(g) == << SubSeq(i, UniqTagOff(i, g) + 2,
                                 UniqTagOff(i, g) + 2 + NonceLen - 1) >>
           fits == {j \in DOMAIN GasFieldLens : Fits(i, GasFieldLens[j])}
<1>1. fits = {j \in {1, 2} : Fits(i, IF j = 1 THEN 1 ELSE 1 + GasLen)}
  BY DEF GasFieldLens
<1>2. fits # {} => ParseNonce(i) = Nonce(GasFieldLens[Min(fits)])
  BY DEF ParseNonce
<1> HIDE DEF fits, Nonce
<1>3. ASSUME Fits(i, 1) PROVE ParseNonce(i) = Nonce(1)
  <2>1. 1 \in fits /\ \A j \in fits : 1 <= j
    BY <1>1, <1>3
  <2>2. \A m \in fits : (\A j \in fits : m <= j) => m = 1
    BY <1>1, <2>1
  <2>3. Min(fits) = 1
    BY <2>1, <2>2 DEF Min
  <2>4. GasFieldLens[1] = 1
    BY DEF GasFieldLens
  <2> QED
    BY <1>2, <2>1, <2>3, <2>4
<1>4. ASSUME ~Fits(i, 1), Fits(i, 1 + GasLen)
      PROVE  ParseNonce(i) = Nonce(1 + GasLen)
  <2>1. fits = {2}
    BY <1>1, <1>4
  <2>2. Min(fits) = 2
    BY <2>1 DEF Min
  <2>3. GasFieldLens[2] = 1 + GasLen
    BY DEF GasFieldLens
  <2> QED
    BY <1>2, <2>1, <2>2, <2>3
<1> QED
  BY <1>3, <1>4 DEF Nonce

\* Which shapes fit the tail of an ordinary transaction.
LEMMA ShapesThatFit ==
  ASSUME NEW t \in SignedTx, t.uniq = NonceTag
  PROVE  /\ t.gas = <<>> => Fits(Inner(t), 1)
         /\ t.gas # <<>> =>
              /\ Fits(Inner(t), 1 + GasLen)
              /\ Fits(Inner(t), 1) <=> /\ t.gas[GasLen] = GasNoneTag
                                       /\ t.prio[PrioLen] = NonceTag
<1> DEFINE i == Inner(t)
           u == Before(t)
           g == GasField(t)
           o == u + 1 + NonceLen + PrioLen + FeeLen
<1>1. /\ NonceLen \in Nat \ {0} /\ PrioLen \in Nat \ {0} /\ FeeLen \in Nat
      /\ ChainLen \in Nat /\ GasLen = NonceLen + PrioLen
      /\ InnerPubkeyEnd \in Nat
  BY WidthAssumption DEF InnerPubkeyEnd, InnerPubkeyStart
<1>2. u \in Nat /\ u >= InnerPubkeyEnd
  BY Offsets
<1>3. /\ UniqTagOff(i, Len(g)) = u /\ GasTagOff(i, Len(g)) = o
      /\ UniqTagOff(i, 1) = u + (Len(g) - 1)
      /\ GasTagOff(i, 1) = o + (Len(g) - 1)
  BY Offsets
<1>4. i[u + 1] = NonceTag /\ i[u + NonceLen + PrioLen + 1] = t.prio[PrioLen]
  BY TailBytes
<1>5. \A j \in 1..Len(g) : i[o + j] = g[j]
  BY TailBytes
<1>6. \/ t.gas = <<>> /\ Len(g) = 1 /\ g[1] = GasNoneTag
      \/ /\ t.gas # <<>> /\ Len(g) = 1 + GasLen /\ g[1] = GasSomeTag
         /\ g[1 + GasLen] = t.gas[GasLen]
  BY GasFields
<1>7. o \in Nat
  BY <1>1, <1>2
<1> HIDE DEF i, u, g, o
<1>8. ASSUME t.gas = <<>> PROVE Fits(i, 1)
  <2>1. Len(g) = 1 /\ g[1] = GasNoneTag
    BY <1>6, <1>8
  <2>2. UniqTagOff(i, 1) = u /\ GasTagOff(i, 1) = o
    BY <1>3, <2>1
  <2>3. i[o + 1] = GasNoneTag
    BY <1>5, <2>1
  <2> QED
    BY <1>2, <1>4, <2>2, <2>3 DEF Fits
<1>9. ASSUME t.gas # <<>>
      PROVE  /\ Fits(i, 1 + GasLen)
             /\ Fits(i, 1) <=> /\ t.gas[GasLen] = GasNoneTag
                               /\ t.prio[PrioLen] = NonceTag
  <2>1. /\ Len(g) = 1 + GasLen /\ g[1] = GasSomeTag
        /\ g[1 + GasLen] = t.gas[GasLen]
    BY <1>6, <1>9
  <2>2. GasLen \in Nat \ {0} /\ 1 + GasLen # 1
    BY <1>1
  <2>3. 1 \in 1..Len(g) /\ 1 + GasLen \in 1..Len(g)
    BY <2>1, <2>2
  <2>4. i[o + 1] = GasSomeTag /\ i[o + (1 + GasLen)] = t.gas[GasLen]
    BY <1>5, <2>1, <2>3
  <2>5. Fits(i, 1 + GasLen)
    <3>1. UniqTagOff(i, 1 + GasLen) = u /\ GasTagOff(i, 1 + GasLen) = o
      BY <1>3, <2>1
    <3> QED
      BY <1>2, <1>4, <2>2, <2>4, <3>1 DEF Fits
  <2>6. Fits(i, 1) <=> /\ t.gas[GasLen] = GasNoneTag
                       /\ t.prio[PrioLen] = NonceTag
    <3>1. UniqTagOff(i, 1) = u + GasLen /\ GasTagOff(i, 1) = o + GasLen
      BY <1>2, <1>3, <1>7, <2>1, <2>2
    <3>2. UniqTagOff(i, 1) >= InnerPubkeyEnd
      BY <1>1, <1>2, <2>2, <3>1
    <3>3. UniqTagOff(i, 1) + 1 = u + NonceLen + PrioLen + 1
      BY <1>1, <1>2, <3>1
    <3>4. GasTagOff(i, 1) + 1 = o + (1 + GasLen)
      BY <1>7, <2>2, <3>1
    <3>5. /\ i[UniqTagOff(i, 1) + 1] = t.prio[PrioLen]
          /\ i[GasTagOff(i, 1) + 1] = t.gas[GasLen]
      BY <1>4, <2>4, <3>3, <3>4
    <3> QED
      BY <3>2, <3>5 DEF Fits
  <2> QED
    BY <2>5, <2>6
<1> QED
  BY <1>8, <1>9 DEF i

\* What is taken for the nonce of an ordinary transaction.
LEMMA NonceOf ==
  ASSUME NEW t \in SignedTx, t.uniq = NonceTag
  PROVE  ParseNonce(Inner(t)) =
           IF t.chain # ChainId THEN <<>>
           ELSE IF Shadowed(t) THEN << SubSeq(t.fee, 1, NonceLen) >>
           ELSE << t.nonce >>
<1> DEFINE i == Inner(t)
           u == Before(t)
           g == GasField(t)
           Nonce(w) == << SubSeq(i, UniqTagOff(i, w) + 2,
                                 UniqTagOff(i, w) + 2 + NonceLen - 1) >>
<1>1. /\ SubSeq(i, u + 2, u + 2 + NonceLen - 1) = t.nonce
      /\ SubSeq(i, u + GasLen + 2, u + GasLen + 2 + NonceLen - 1) =
           SubSeq(t.fee, 1, NonceLen)
      /\ Len(i) >= ChainLen
      /\ SubSeq(i, Len(i) - ChainLen + 1, Len(i)) = t.chain
  BY TailSlices
<1>2. ~(Len(i) < ChainLen)
  <2>1. Len(i) \in Nat /\ ChainLen \in Nat
    BY Heading, WidthAssumption
  <2> QED
    BY <1>1, <2>1
<1>3. /\ UniqTagOff(i, Len(g)) = u
      /\ UniqTagOff(i, 1) = u + (Len(g) - 1) /\ u \in Nat
  BY Offsets
<1>4. GasLen \in Nat
  BY WidthAssumption
<1>5. \/ t.gas = <<>> /\ Len(g) = 1
      \/ t.gas # <<>> /\ Len(g) = 1 + GasLen
  BY GasFields
<1>6. /\ t.gas = <<>> => Fits(i, 1)
      /\ t.gas # <<>> => Fits(i, 1 + GasLen) /\ (Fits(i, 1) <=> Shadowed(t))
  BY ShapesThatFit DEF Shadowed
<1>7. CASE t.chain # ChainId
  BY <1>1, <1>7 DEF ParseNonce
<1>8. CASE t.chain = ChainId
  <2>1. /\ Fits(i, 1) => ParseNonce(i) = Nonce(1)
        /\ ~Fits(i, 1) /\ Fits(i, 1 + GasLen) =>
             ParseNonce(i) = Nonce(1 + GasLen)
    BY <1>1, <1>2, <1>8, FirstShapeWins
  <2>2. CASE t.gas = <<>>
    <3>1. ParseNonce(i) = Nonce(1) /\ ~Shadowed(t)
      BY <1>6, <2>1, <2>2 DEF Shadowed
    <3>2. UniqTagOff(i, 1) = u
      BY <1>3, <1>5, <2>2
    <3>3. Nonce(1) = << t.nonce >>
      BY <1>1, <3>2
    <3> QED
      BY <1>8, <3>1, <3>3
  <2>3. CASE t.gas # <<>> /\ Shadowed(t)
    <3>1. ParseNonce(i) = Nonce(1)
      BY <1>6, <2>1, <2>3
    <3>2. UniqTagOff(i, 1) = u + GasLen
      BY <1>3, <1>4, <1>5, <2>3
    <3>3. Nonce(1) = << SubSeq(t.fee, 1, NonceLen) >>
      BY <1>1, <3>2
    <3> QED
      BY <1>8, <2>3, <3>1, <3>3
  <2>4. CASE t.gas # <<>> /\ ~Shadowed(t)
    <3>1. ParseNonce(i) = Nonce(1 + GasLen)
      BY <1>6, <2>1, <2>4
    <3>2. UniqTagOff(i, 1 + GasLen) = u
      BY <1>3, <1>5, <2>4
    <3>3. Nonce(1 + GasLen) = << t.nonce >>
      BY <1>1, <3>2
    <3> QED
      BY <1>8, <2>4, <3>1, <3>3
  <2> QED
    BY <2>2, <2>3, <2>4
<1> QED
  BY <1>7, <1>8

\* The nonce that is stored is the transaction's on the api's own chain and
\* none on another, whatever the widths and the bytes of its fields are
\* (parse_nonce), unless a gas limit passes for none.
THEOREM NonceExactHolds == Spec => []NonceExact
<1>1. Shape => NonceExact
  <2> SUFFICES ASSUME Shape, NEW t \in Range(body), ~LooksWrapped(t),
                      t.uniq = NonceTag, ~Shadowed(t)
               PROVE  NonceRead(t) = IF t.chain = ChainId THEN << t.nonce >>
                                     ELSE <<>>
    BY DEF NonceExact
  <2>1. t \in Signed
    BY BodySigned
  <2>2. t \in SignedTx
    BY <2>1, ClassifierAssumption
  <2> DEFINE d == [sender        |-> SubSeq(t.pubkey, 1, AddrLen),
                   sender_pubkey |-> t.pubkey,
                   nonce         |-> ParseNonce(Inner(t))]
  <2>3. DecodeTxBody(Body(t)) = <<d>>
    BY <2>1, DecodeBody
  <2>4. d.nonce = ParseNonce(Inner(t))
    OBVIOUS
  <2> HIDE DEF d
  <2>5. NonceRead(t) = ParseNonce(Inner(t))
    BY <2>3, <2>4 DEF NonceRead
  <2> QED
    BY <2>2, <2>5, NonceOf
<1> QED
  BY <1>1, ShapeInvariant, PTL
=============================================================================
