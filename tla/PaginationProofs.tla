-------------------------- MODULE PaginationProofs --------------------------
(***************************************************************************)
(* Proofs about Pagination, for any table, any page limits and any number  *)
(* of writes between two pages: a walk repeats no row and misses none,     *)
(* unless the row is rewritten meanwhile or the client sends a cursor of   *)
(* another endpoint.                                                       *)
(*                                                                         *)
(* The argument: a page is an initial segment, in descending order, of the *)
(* rows below the cursor, and it is all of them when no next page is       *)
(* announced.  So the cursor splits the table: what was served lies at or  *)
(* above it, what the first page saw and is still to come lies below it.   *)
(***************************************************************************)
EXTENDS Pagination, FiniteSetTheorems, TLAPS

-----------------------------------------------------------------------------
(***************************************************************************)
(* The inductive invariant.                                                *)
(***************************************************************************)

\* The sort keys tell the listed rows apart (the queries' tie breakers), and
\* a block's key is its height alone.
KeysInv ==
  /\ \A r, q \in Row : key[r] = key[q] /\ key[r] # NoKey => r = q
  /\ endpoint = "blocks" => \A r \in Row : key[r].tie = 0

\* The cursor splits the table into what was served and what is to come.
Splits(at) ==
  /\ \A r \in seen \ disturbed : key[r] # NoKey /\ ~Below(key[r], at)
  /\ \A r \in start \ (seen \cup disturbed) :
       r \in matching /\ key[r] # NoKey /\ Below(key[r], at)

\* The state of a walk that follows its own cursors.
WalkInv ==
  /\ phase = "idle" => seen = {} /\ repeated = {} /\ token = NoToken
  /\ phase = "paging" =>
       /\ token.fields = CursorFields(endpoint)
       /\ endpoint = "blocks" => token.at.tie = 0
       /\ Splits(token.at)

\* A walk goes on with a cursor in hand, its own or another endpoint's.
TokenInv == /\ phase = "paging" => token \in Token
            /\ phase = "idle" => ~misused

Inv == /\ TypeOK
       /\ KeysInv
       /\ TokenInv
       /\ (~misused => WalkInv)
       /\ NoRepeats
       /\ NothingMissed

-----------------------------------------------------------------------------
(***************************************************************************)
(* The order of the rows.                                                  *)
(***************************************************************************)

\* A nonempty family of subsets of a finite set has a minimal member.
LEMMA MinimalMember ==
  ASSUME NEW S, IsFiniteSet(S), NEW T \in SUBSET (SUBSET S), T # {}
  PROVE  \E x \in T : \A y \in T : y \subseteq x => y = x
<1>1. IsWellFoundedOn(StrictSubsetOrdering(S), SUBSET S)
  BY FS_StrictSubsetOrderingWellFounded, FS_FiniteSubsetsOfFinite
<1>2. PICK x \in T : \A y \in T : ~(<<y, x>> \in StrictSubsetOrdering(S))
  BY <1>1, WFMin
<1>3. \A y \in T : y \subseteq x => y = x
  BY <1>2 DEF StrictSubsetOrdering
<1> QED
  BY <1>3

\* The SQL row comparison is a strict order that tells listed rows apart.
LEMMA BelowOrder ==
  ASSUME TypeOK, KeysInv
  PROVE  /\ \A j, k, l \in Key : Below(j, k) /\ Below(k, l) => Below(j, l)
         /\ \A j, k \in Key : ~(Below(j, k) /\ Below(k, j))
         /\ \A j, k, l \in Key : ~Below(j, k) /\ Below(l, k) => ~Below(j, l)
         /\ \A r, q \in Row : /\ key[r] # NoKey /\ key[q] # NoKey
                              /\ r # q
                              => Below(key[r], key[q]) \/ Below(key[q], key[r])
<1> USE PaginationAssumption
<1>1. \A j, k, l \in Key : Below(j, k) /\ Below(k, l) => Below(j, l)
  BY DEF Key, Below
<1>2. \A j, k \in Key : ~(Below(j, k) /\ Below(k, j))
  BY DEF Key, Below
<1>3. \A j, k, l \in Key : ~Below(j, k) /\ Below(l, k) => ~Below(j, l)
  BY DEF Key, Below
<1>4. ASSUME NEW r \in Row, NEW q \in Row, key[r] # NoKey, key[q] # NoKey,
             r # q
      PROVE  Below(key[r], key[q]) \/ Below(key[q], key[r])
  <2>1. key[r] \in Key /\ key[q] \in Key
    BY <1>4 DEF TypeOK
  <2>2. key[r] # key[q]
    BY <1>4 DEF KeysInv
  <2>3. key[r].slot # key[q].slot \/ key[r].tie # key[q].tie
    BY <2>1, <2>2 DEF Key
  <2> QED
    BY <2>1, <2>3 DEF Key, Below
<1> QED
  BY <1>1, <1>2, <1>3, <1>4

\* Any listed rows have a first one and a last one.
LEMMA FirstAndLast ==
  ASSUME TypeOK, KeysInv, NEW S \in SUBSET Row, S # {},
         \A r \in S : key[r] # NoKey
  PROVE  /\ \E r \in S : \A q \in S : ~Below(key[r], key[q])
         /\ \E r \in S : \A q \in S \ {r} : Below(key[r], key[q])
<1> DEFINE Over(r)  == {q \in S : Below(key[r], key[q])}
           Under(r) == {q \in S : Below(key[q], key[r])}
<1>1. IsFiniteSet(S)
  BY RowAssumption, FS_Subset
<1>2. \A r \in S : key[r] \in Key
  BY DEF TypeOK
<1>3. PICK r \in S :
        \A q \in S : Over(q) \subseteq Over(r) => Over(q) = Over(r)
  <2> DEFINE T == {Over(r) : r \in S}
  <2>1. T \in SUBSET (SUBSET S) /\ T # {}
    OBVIOUS
  <2>2. PICK x \in T : \A y \in T : y \subseteq x => y = x
    <3> HIDE DEF T
    <3> QED
      BY ONLY <2>1, <1>1, MinimalMember
  <2>3. PICK r \in S : x = Over(r)
    OBVIOUS
  <2>4. ASSUME NEW q \in S, Over(q) \subseteq x PROVE Over(q) = x
    BY <2>2, <2>4
  <2> QED
    BY <2>3, <2>4
<1>4. ASSUME NEW q \in S, Below(key[r], key[q]) PROVE FALSE
  <2>1. Over(q) \subseteq Over(r)
    BY <1>4, <1>2, BelowOrder
  <2>2. q \in Over(r) /\ q \notin Over(q)
    BY <1>4, <1>2, BelowOrder
  <2> QED
    BY <2>1, <2>2, <1>3
<1>5. PICK l \in S :
        \A q \in S : Under(q) \subseteq Under(l) => Under(q) = Under(l)
  <2> DEFINE T == {Under(r1) : r1 \in S}
  <2>1. T \in SUBSET (SUBSET S) /\ T # {}
    OBVIOUS
  <2>2. PICK x \in T : \A y \in T : y \subseteq x => y = x
    <3> HIDE DEF T
    <3> QED
      BY ONLY <2>1, <1>1, MinimalMember
  <2>3. PICK l \in S : x = Under(l)
    OBVIOUS
  <2>4. ASSUME NEW q \in S, Under(q) \subseteq x PROVE Under(q) = x
    BY <2>2, <2>4
  <2> QED
    BY <2>3, <2>4
<1>6. ASSUME NEW q \in S, Below(key[q], key[l]) PROVE FALSE
  <2>1. Under(q) \subseteq Under(l)
    BY <1>6, <1>2, BelowOrder
  <2>2. q \in Under(l) /\ q \notin Under(q)
    BY <1>6, <1>2, BelowOrder
  <2> QED
    BY <2>1, <2>2, <1>5
<1>7. \A q \in S \ {l} : Below(key[l], key[q])
  BY <1>6, BelowOrder
<1> QED
  BY <1>4, <1>7

-----------------------------------------------------------------------------
(***************************************************************************)
(* What a page is.                                                         *)
(***************************************************************************)

\* ORDER BY ... DESC LIMIT n keeps, with a row, every row above it; when it
\* keeps fewer than n it has kept them all; and it keeps one if there is one.
LEMMA TopFacts ==
  ASSUME TypeOK, KeysInv, NEW S \in SUBSET Row, \A r \in S : key[r] # NoKey,
         NEW n \in Nat \ {0}
  PROVE  /\ Top(S, n) \subseteq S
         /\ Cardinality(Top(S, n)) \in Nat
         /\ \A r \in Top(S, n), q \in S :
              Below(key[r], key[q]) => q \in Top(S, n)
         /\ Cardinality(Top(S, n)) < n => Top(S, n) = S
         /\ S # {} => Top(S, n) # {}
<1> DEFINE Over(r) == {q \in S : Below(key[r], key[q])}
<1>1. IsFiniteSet(S)
  BY RowAssumption, FS_Subset
<1>2. \A r \in S : key[r] \in Key
  BY DEF TypeOK
<1>3. /\ Top(S, n) \subseteq S
      /\ \A r \in S : r \in Top(S, n) <=> Cardinality(Over(r)) < n
  BY DEF Top
<1>4. \A r \in S : IsFiniteSet(Over(r)) /\ Cardinality(Over(r)) \in Nat
  <2> TAKE r \in S
  <2>1. Over(r) \in SUBSET S
    OBVIOUS
  <2> QED
    BY ONLY <2>1, <1>1, FS_Subset, FS_CardinalityType
<1>5. IsFiniteSet(Top(S, n)) /\ Cardinality(Top(S, n)) \in Nat
  BY ONLY <1>1, <1>3, FS_Subset, FS_CardinalityType
<1>6. ASSUME NEW r \in Top(S, n), NEW q \in S, Below(key[r], key[q])
      PROVE  q \in Top(S, n)
  <2>1. r \in S
    BY <1>3
  <2>2. Over(q) \subseteq Over(r)
    BY <1>6, <1>2, <2>1, BelowOrder
  <2>3. Cardinality(Over(q)) <= Cardinality(Over(r))
    BY ONLY <2>1, <2>2, <1>4, FS_Subset
  <2>4. Cardinality(Over(r)) < n
    BY <1>3
  <2>5. Cardinality(Over(q)) \in Nat /\ Cardinality(Over(r)) \in Nat
    BY <2>1, <1>4
  <2>6. Cardinality(Over(q)) < n
    <3> HIDE DEF Over
    <3> QED
      BY <2>3, <2>4, <2>5
  <2> QED
    BY <2>6, <1>3
<1>7. ASSUME Cardinality(Top(S, n)) < n, Top(S, n) # S
      PROVE  FALSE
  <2> DEFINE Rest == S \ Top(S, n)
  <2>1. PICK m \in Rest : \A q \in Rest : ~Below(key[m], key[q])
    <3>1. Rest \in SUBSET Row /\ Rest # {}
      BY <1>3, <1>7
    <3> QED
      BY <3>1, FirstAndLast
  <2>2. Over(m) \subseteq Top(S, n)
    BY <2>1
  <2>3. Cardinality(Over(m)) <= Cardinality(Top(S, n))
    BY ONLY <2>2, <1>5, FS_Subset
  <2>4. Cardinality(Over(m)) < n
    BY ONLY <2>1, <2>3, <1>4, <1>5, <1>7, n \in Nat
  <2> QED
    BY <2>1, <2>4, <1>3
<1>8. ASSUME S # {} PROVE Top(S, n) # {}
  <2>1. PICK r \in S : \A q \in S : ~Below(key[r], key[q])
    BY <1>8, FirstAndLast
  <2>2. Over(r) = {}
    BY <2>1
  <2>3. Cardinality(Over(r)) = 0
    BY ONLY <2>2, FS_EmptySet
  <2> QED
    BY <2>3, <1>3
<1> QED
  BY <1>3, <1>5, <1>6, <1>7, <1>8

\* The parts of an answer, as ServePage defines them.
Fetched(before, n) == Top(Selected(before), ResolveLimit(n) + 1)
HasMore(before, n) == Cardinality(Fetched(before, n)) > ResolveLimit(n)
Page(before, n)    == IF HasMore(before, n)
                      THEN Top(Fetched(before, n), ResolveLimit(n))
                      ELSE Fetched(before, n)
LastOf(page)       == CHOOSE r \in page :
                        \A q \in page \ {r} : Below(key[r], key[q])

\* A page without a successor is all that the query selects; one with a
\* successor has a last row, and what it leaves out lies below that row.
LEMMA PageFacts ==
  ASSUME TypeOK, KeysInv, NEW before, NEW n \in Requested
  PROVE  LET page == Page(before, n)
             last == LastOf(page)
         IN /\ page \subseteq Selected(before)
            /\ ~HasMore(before, n) => page = Selected(before)
            /\ HasMore(before, n) =>
                 /\ page # {}
                 /\ last \in page
                 /\ \A q \in page \ {last} : Below(key[last], key[q])
                 /\ \A q \in Selected(before) \ page :
                      Below(key[q], key[last])
<1> DEFINE S     == Selected(before)
           limit == ResolveLimit(n)
           rows  == Fetched(before, n)
           page  == Page(before, n)
           last  == LastOf(page)
<1>1. limit \in Nat \ {0} /\ limit + 1 \in Nat \ {0}
  BY PaginationAssumption DEF ResolveLimit, NoLimit
<1>2. S \in SUBSET Row /\ \A r \in S : key[r] # NoKey
  BY DEF Selected, TypeOK
<1>3. /\ rows \subseteq S
      /\ Cardinality(rows) \in Nat
      /\ \A r \in rows, q \in S : Below(key[r], key[q]) => q \in rows
      /\ Cardinality(rows) < limit + 1 => rows = S
      /\ S # {} => rows # {}
  <2> HIDE DEF S, limit
  <2> QED
    BY <1>1, <1>2, TopFacts DEF Fetched, S, limit
<1>4. CASE ~HasMore(before, n)
  <2>1. page = rows /\ Cardinality(rows) < limit + 1
    BY <1>1, <1>3, <1>4 DEF Page, HasMore
  <2> QED
    BY <2>1, <1>3, <1>4
<1>5. CASE HasMore(before, n)
  <2>1. page = Top(rows, limit)
    BY <1>5 DEF Page
  <2>2. rows # {}
    <3>1. CASE rows = {}
      <4>1. Cardinality(rows) = 0
        BY <3>1, FS_EmptySet
      <4> QED
        BY <4>1, <1>1, <1>5 DEF HasMore
    <3> QED
      BY <3>1
  <2>3. rows \in SUBSET Row /\ \A r \in rows : key[r] # NoKey
    BY <1>2, <1>3
  <2>4. /\ page \subseteq rows
        /\ \A r \in page, q \in rows : Below(key[r], key[q]) => q \in page
        /\ page # {}
    <3> HIDE DEF rows, limit, page
    <3> QED
      BY <2>1, <2>2, <2>3, <1>1, TopFacts
  <2>5. page \in SUBSET Row /\ \A r \in page : key[r] # NoKey
    BY <2>3, <2>4
  <2>6. \E r \in page : \A q \in page \ {r} : Below(key[r], key[q])
    <3> HIDE DEF page
    <3> QED
      BY <2>4, <2>5, FirstAndLast
  <2>7. last \in page /\ \A q \in page \ {last} : Below(key[last], key[q])
    BY <2>6 DEF LastOf
  <2>8. ASSUME NEW q \in S \ page PROVE Below(key[q], key[last])
    <3> HIDE DEF S, rows, page, last
    <3>1. ~Below(key[last], key[q])
      BY <2>4, <2>7, <2>8, <1>3
    <3>2. q # last /\ q \in Row /\ last \in Row
      BY <2>5, <2>7, <2>8, <1>2
    <3> QED
      BY <3>1, <3>2, <2>5, <2>7, <1>2, BelowOrder
  <2> QED
    BY <1>3, <1>5, <2>4, <2>7, <2>8
<1> QED
  BY <1>4, <1>5

\* What a request does, in terms of the page it serves.
LEMMA ServeFacts ==
  ASSUME NEW e, NEW n, ServePage(e, n)
  PROVE  LET before == Decode(e, token)
             page   == Page(before, n)
             more   == HasMore(before, n) /\ page # {}
         IN /\ seen' = seen \cup page
            /\ repeated' = repeated \cup (seen \cap page)
            /\ token' = IF more THEN Encode(e, key[LastOf(page)]) ELSE NoToken
            /\ phase' = IF more THEN "paging" ELSE "done"
            /\ start' = IF phase = "idle" THEN Selected(AtHead) ELSE start
<1> QED
  BY DEF ServePage, Page, HasMore, Fetched, LastOf

-----------------------------------------------------------------------------
(***************************************************************************)
(* The steps.                                                              *)
(***************************************************************************)
LEMMA InitInv == Init => Inv
<1> SUFFICES ASSUME Init PROVE Inv
  OBVIOUS
<1>1. TypeOK
  BY DEF Init, TypeOK
<1>2. KeysInv
  BY DEF Init, KeysInv, NoKey
<1> QED
  BY <1>1, <1>2 DEF Init, Inv, TokenInv, WalkInv, NoRepeats, NothingMissed

\* The cursor of a page is the key of a listed row.
LEMMA ServeToken ==
  ASSUME TypeOK, KeysInv, NEW e \in Endpoint, NEW n \in Requested,
         ServePage(e, n), phase' = "paging"
  PROVE  LET page == Page(Decode(e, token), n)
         IN /\ HasMore(Decode(e, token), n)
            /\ token' = [fields |-> CursorFields(e), at |-> key[LastOf(page)]]
            /\ LastOf(page) \in Row
            /\ token'.at = key[LastOf(page)]
            /\ token'.at \in Key
            /\ token' \in Token
<1> DEFINE before == Decode(e, token)
           page   == Page(before, n)
<1>1. HasMore(before, n)
  BY ServeFacts
<1>2. token' = Encode(e, key[LastOf(page)])
  BY ServeFacts
<1>3. LastOf(page) \in Selected(before)
  BY <1>1, PageFacts
<1>4. LastOf(page) \in Row /\ key[LastOf(page)] \in Key
  BY <1>3 DEF Selected, TypeOK
<1> QED
  BY <1>1, <1>2, <1>4 DEF Encode, Token

\* A page that is served keeps the invariant.
LEMMA ServeStep ==
  ASSUME Inv, NEW e \in Endpoint, Request(e)
  PROVE  Inv'
<1> USE DEF Inv
<1>1. PICK n \in Requested : ServePage(e, n)
  BY DEF Request
<1>2. /\ endpoint = e /\ phase # "done"
      /\ UNCHANGED <<endpoint, key, matching, disturbed, misused>>
      /\ odd' = ~odd
  BY DEF Request, rowVars
<1> DEFINE before == Decode(e, token)
           page   == Page(before, n)
           last   == LastOf(page)
<1>3. /\ seen' = seen \cup page
      /\ repeated' = repeated \cup (seen \cap page)
      /\ phase' \in {"paging", "done"}
      /\ phase' = "done" => token' = NoToken
      /\ phase' = "done" => ~HasMore(before, n) \/ page = {}
      /\ start' = IF phase = "idle" THEN Selected(AtHead) ELSE start
  BY <1>1, ServeFacts
<1>4. /\ page \subseteq Selected(before)
      /\ ~HasMore(before, n) => page = Selected(before)
      /\ HasMore(before, n) =>
           /\ page # {}
           /\ last \in page
           /\ \A q \in page \ {last} : Below(key[last], key[q])
           /\ \A q \in Selected(before) \ page : Below(key[q], key[last])
  BY PageFacts
<1>5. phase' = "paging" =>
        /\ HasMore(before, n)
        /\ token' = [fields |-> CursorFields(e), at |-> key[last]]
        /\ token'.at = key[last]
        /\ token'.at \in Key
        /\ token' \in Token
        /\ last \in Row
  BY <1>1, ServeToken
<1> HIDE DEF before, page, last
<1>6. \A b : Selected(b) \subseteq Row
  BY DEF Selected, TypeOK
<1>7. TypeOK'
  BY <1>2, <1>3, <1>4, <1>5, <1>6 DEF TypeOK
<1>8. KeysInv'
  BY <1>2 DEF KeysInv
<1>9. TokenInv'
  BY <1>3, <1>5 DEF TokenInv
<1>10. ASSUME ~misused PROVE WalkInv' /\ NoRepeats' /\ NothingMissed'
  <2>1. WalkInv
    BY <1>10
  <2>2. /\ seen \cap page \subseteq disturbed
        /\ start' \ (seen \cup disturbed) \subseteq Selected(before)
        /\ HasMore(before, n) => \A r \in seen \ disturbed :
             key[r] # NoKey /\ ~Below(key[r], key[last])
    <3>1. CASE phase = "idle"
      <4>1. before = AtHead /\ seen = {}
        BY <2>1, <3>1 DEF WalkInv, Decode, before
      <4> QED
        BY <4>1, <1>3, <3>1
    <3>2. CASE phase = "paging"
      <4>1. token \in Token /\ token.at \in Key
        BY <3>2 DEF TokenInv, Token
      <4>2. token # NoToken /\ token.at # AtHead
        BY <4>1, PaginationAssumption DEF Key, NoKey, NoToken, AtHead
      <4>3. before = token.at
        BY <4>1, <4>2, <2>1, <3>2, <1>2 DEF WalkInv, Decode, Key, before
      <4>4. \A r \in Row : r \in Selected(before) <=>
              r \in matching /\ key[r] # NoKey /\ Below(key[r], token.at)
        BY <4>2, <4>3 DEF Selected, TypeOK
      <4>5. Splits(token.at)
        BY <2>1, <3>2 DEF WalkInv
      <4>6. seen \cap page \subseteq disturbed
        BY <4>4, <4>5, <1>4, <1>6 DEF Splits
      <4>7. start' \ (seen \cup disturbed) \subseteq Selected(before)
        BY <4>4, <4>5, <1>3, <3>2 DEF Splits, TypeOK
      <4>8. ASSUME HasMore(before, n), NEW r \in seen \ disturbed
            PROVE  key[r] # NoKey /\ ~Below(key[r], key[last])
        <5>1. key[r] # NoKey /\ key[r] \in Key /\ ~Below(key[r], token.at)
          BY <4>5, <4>8 DEF Splits, TypeOK
        <5>2. last \in Row /\ last \in Selected(before)
          BY <4>8, <1>4, <1>6
        <5>3. key[last] \in Key /\ Below(key[last], token.at)
          BY <5>2, <4>4 DEF TypeOK
        <5> QED
          BY <4>1, <5>1, <5>3, BelowOrder
      <4> QED
        BY <4>6, <4>7, <4>8
    <3> QED
      BY <1>2, <3>1, <3>2 DEF TypeOK
  <2>3. NoRepeats'
    BY <2>2, <1>2, <1>3, <1>10 DEF NoRepeats
  <2>4. CASE phase' = "done"
    <3>1. page = Selected(before)
      BY <2>4, <1>3, <1>4
    <3>2. start' \ disturbed' \subseteq seen'
      BY <3>1, <2>2, <1>2, <1>3
    <3> QED
      BY <2>3, <2>4, <3>2 DEF WalkInv, NothingMissed
  <2>5. CASE phase' = "paging"
    <3>1. \A r \in page : key[r] # NoKey /\ ~Below(key[r], key[last])
      <4> TAKE r \in page
      <4>1. r \in Row /\ key[r] # NoKey /\ key[r] \in Key
        BY <1>4, <1>6 DEF Selected, TypeOK
      <4>2. r = last \/ Below(key[last], key[r])
        BY <2>5, <1>4, <1>5
      <4> QED
        BY <4>1, <4>2, <2>5, <1>5, BelowOrder DEF Below, Key
    <3>2. \A r \in Selected(before) :
            r \in matching /\ r \in Row /\ key[r] # NoKey
      BY <1>6 DEF Selected
    <3>3. \A r \in Selected(before) \ page : Below(key[r], key[last])
      BY <2>5, <1>4, <1>5
    <3>4. Splits(token.at)'
      BY <2>2, <2>5, <3>1, <3>2, <3>3, <1>2, <1>3, <1>5 DEF Splits, Below
    <3>5. endpoint' = "blocks" => token'.at.tie = 0
      BY <2>5, <1>2, <1>5 DEF KeysInv
    <3> QED
      BY <2>3, <2>5, <3>4, <3>5, <1>2, <1>5 DEF WalkInv, NothingMissed
  <2> QED
    BY <1>3, <2>4, <2>5
<1> QED
  BY <1>2, <1>7, <1>8, <1>9, <1>10 DEF NoRepeats, NothingMissed

\* The writes of the indexer: a new row is in nobody's history, and a
\* rewritten one is disturbed.
LEMMA WriteStep ==
  ASSUME Inv, Write
  PROVE  Inv'
<1> USE DEF Inv
<1>1. PICK r \in Row : Ingest(r) \/ Reposition(r) \/ Refilter(r)
  BY DEF Write
<1>2. UNCHANGED <<endpoint, token, phase, start, seen, repeated, misused, odd>>
  BY <1>1 DEF Ingest, Reposition, Refilter, clientVars
<1>3. phase # "done"
  BY DEF Write
<1>4. /\ key' \in [Row -> Key \cup {NoKey}]
      /\ key'[r] # NoKey
      /\ \A q \in Row \ {r} : key'[q] = key[q] /\ key[q] # key'[r]
      /\ endpoint = "blocks" => key'[r].tie = 0
  <2>1. CASE Ingest(r)
    BY <2>1, PaginationAssumption
       DEF Ingest, Free, KeysOf, Key, NoKey, TypeOK
  <2>2. CASE Reposition(r)
    BY <2>2, PaginationAssumption DEF Reposition, Free, Key, NoKey, TypeOK
  <2>3. CASE Refilter(r)
    BY <2>3 DEF Refilter, Refilterable, TypeOK, KeysInv
  <2> QED
    BY <1>1, <2>1, <2>2, <2>3
<1>5. /\ matching' \subseteq Row
      /\ matching' \ {r} = matching \ {r}
      /\ disturbed' \subseteq Row
      /\ disturbed \subseteq disturbed'
      /\ r \in disturbed' \/ key[r] = NoKey
  BY <1>1 DEF Ingest, Reposition, Refilter, TypeOK
<1>6. TypeOK'
  BY <1>2, <1>4, <1>5 DEF TypeOK
<1>7. KeysInv'
  BY <1>2, <1>4 DEF KeysInv
<1>8. ~misused => WalkInv'
  <2> HAVE ~misused
  <2>1. CASE phase = "paging"
    <3>1. Splits(token.at)
      BY <2>1 DEF WalkInv
    <3>2. \A q \in seen \ disturbed' :
            key'[q] # NoKey /\ ~Below(key'[q], token.at)
      BY <3>1, <1>4, <1>5 DEF Splits, TypeOK
    <3>3. \A q \in start \ (seen \cup disturbed') :
            q \in matching' /\ key'[q] # NoKey /\ Below(key'[q], token.at)
      BY <3>1, <1>4, <1>5 DEF Splits, TypeOK
    <3>4. Splits(token.at)'
      BY <3>2, <3>3, <1>2 DEF Splits, Below
    <3> QED
      BY <2>1, <3>4, <1>2 DEF WalkInv
  <2> QED
    BY <2>1, <1>2 DEF WalkInv
<1> QED
  BY <1>2, <1>3, <1>5, <1>6, <1>7, <1>8 DEF TokenInv, NoRepeats, NothingMissed

\* So does a request with a parameter the walk did not hand out.
LEMMA MisuseStep ==
  ASSUME Inv, MisuseCursor
  PROVE  Inv'
<1> USE DEF Inv
<1>1. /\ UNCHANGED <<endpoint, key, matching, disturbed, phase, start, seen,
                      repeated, odd>>
      /\ misused' /\ phase = "paging"
  BY DEF MisuseCursor, rowVars
<1>2. token' \in Token
  BY <1>1 DEF MisuseCursor, TokenInv, Encode, Token
<1> QED
  BY <1>1, <1>2 DEF TypeOK, KeysInv, TokenInv, NoRepeats, NothingMissed

\* Every step keeps the invariant.
LEMMA Invariance == Spec => []Inv
<1>1. ASSUME Inv, [Next]_vars PROVE Inv'
  <2>1. CASE Serve
    BY <1>1, <2>1, ServeStep
       DEF Serve, Endpoint, BlocksList, TxsList, AddressTxs, SchemasList,
           AttestationsList, AttestationsBySchema, AttestationsByAttestorSet,
           AttestorSetsList, AttestorSetsByMember, BountiesList, ContractsList
  <2>2. CASE Write
    BY <1>1, <2>2, WriteStep
  <2>3. CASE MisuseCursor
    BY <1>1, <2>3, MisuseStep
  <2>4. CASE UNCHANGED vars
    BY <1>1, <2>4 DEF vars, Inv, TypeOK, KeysInv, TokenInv, WalkInv, Splits,
                      NoRepeats, NothingMissed
  <2> QED
    BY <1>1, <2>1, <2>2, <2>3, <2>4 DEF Next
<1> QED
  BY <1>1, InitInv, PTL DEF Spec

-----------------------------------------------------------------------------
(***************************************************************************)
(* The theorems.                                                           *)
(***************************************************************************)

\* The client's cursor, the served rows and the table keep their types, with
\* any cursor the client sends back.
THEOREM TypeCorrect == Spec => []TypeOK
<1> QED
  BY Invariance, PTL DEF Inv

\* No row is served twice in a walk, for every table, limit and order of
\* writes, unless it was rewritten meanwhile (queries.rs list queries).
THEOREM WalkRepeatsNothing == Spec => []NoRepeats
<1> QED
  BY Invariance, PTL DEF Inv

\* A finished walk has served every row the list held at its first page that
\* was not rewritten meanwhile: no row is lost between two pages.
THEOREM WalkMissesNothing == Spec => []NothingMissed
<1> QED
  BY Invariance, PTL DEF Inv
=============================================================================
