---------------------------- MODULE TxExactProofs ----------------------------
(***************************************************************************)
(* Proof that a walk without a fault is exact: every committed transaction *)
(* of a slot that is done is recorded at its place in the chain's order    *)
(* and is counted once by every counter, and an id has one row, of the     *)
(* registration that has to be there when several transactions name it.    *)
(*                                                                         *)
(* ExactInv is FaultFreeExact for every state of the walk, the ones inside *)
(* a transaction too.  Done says which transactions a table has to show: a *)
(* table shows the current one from the step on that comes after its own   *)
(* statement.  The steps of a walk without faults are the actions of Walk, *)
(* and none of them skips a committed transaction: no position is taken    *)
(* (the positions so far count the transactions before), and the parent of *)
(* a resource was walked before it.  The walk comes to the registrations   *)
(* of an id in the chain's order, so the one in hand is the last so far.   *)
(***************************************************************************)
EXTENDS TxIngestProofs

\* The walk is past `t`.
Behind(t) ==
  \/ SlotOf(t) < slot
  \/ SlotOf(t) = slot /\ (step = "cursor" \/ (InWalk /\ Passed(t)))

\* The committed transactions that a table shows which is written before the
\* steps in `after`.
Done(after) ==
  {t \in Tx : /\ Outcome[t] = "committed"
              /\ Behind(t) \/ (step \in after /\ t = Current)}

\* The transactions of the slot in hand that took up a position.
Prior == {u \in Tx : Outcome[u] # "skipped" /\ Passed(u)}

AfterInsert   == {"sender", "receiver", "resource", "bump", "owned"}
AfterSender   == {"receiver", "resource", "bump", "owned"}
AfterReceiver == {"resource", "bump", "owned"}
AfterResource == {"bump", "owned"}
AfterBumped   == {"owned"}

\* Where the walk is.
PositionInv ==
  /\ cursor = slot - 1
  /\ events = TRUE
  /\ InWalk => position = Cardinality(Prior)
  /\ step \in TxSteps => Outcome[Current] # "skipped"
  /\ step \in AfterInsert => Outcome[Current] = "committed"
  /\ step \in AfterResource => Kind[Current] \in ResourceKinds
  /\ step = "owned" => Kind[Current] = "register_schema"

\* What the tables show.
TableInv ==
  /\ \A t \in Tx : Recorded(t) => t \in Done(AfterInsert)
  /\ \A t \in Done(AfterInsert) :
       txs[t] = Cardinality(Earlier(t)) /\ kinds[t] = Kind[t]
  /\ \A r \in Id : RowExact(r, Done(AfterResource))
  /\ \A p \in Id :
       uses[p] = Cardinality({t \in Done(AfterBumped) : Parent[t] = p})
  /\ \A a \in Addr :
       /\ sent[a] = Cardinality({t \in Done(AfterSender) : Sender[t] = a})
       /\ received[a] =
            Cardinality({t \in Done(AfterReceiver) : Receiver[t] = a})
       /\ owned[a] = Cardinality({t \in Done({}) :
            Sender[t] = a /\ Kind[t] = "register_schema"})

ExactInv == faults = 0 => PositionInv /\ TableInv

-----------------------------------------------------------------------------
(***************************************************************************)
(* The chain.                                                              *)
(***************************************************************************)

\* The shape of a slot, and the numbers its batches and places have.
LEMMA SlotFacts ==
  ASSUME NEW s \in SlotNumber
  PROVE  /\ s \in Int /\ s \in DOMAIN Chain
         /\ Len(Chain[s]) \in Nat
         /\ DOMAIN Chain[s] = 1..Len(Chain[s])
         /\ \A b \in DOMAIN Chain[s] :
              /\ b \in Int
              /\ Len(Chain[s][b]) \in Nat
              /\ DOMAIN Chain[s][b] = 1..Len(Chain[s][b])
              /\ \A i \in DOMAIN Chain[s][b] :
                   i \in Int /\ Chain[s][b][i] \in Tx
  <1>1. Chain[s] \in Seq(Seq(Tx)) /\ s \in Int /\ s \in DOMAIN Chain
    BY TxAssumption DEF SlotNumber
  <1>2. \A b \in DOMAIN Chain[s] : Chain[s][b] \in Seq(Tx)
    BY <1>1
  <1>3. Len(Chain[s]) \in Nat /\ DOMAIN Chain[s] = 1..Len(Chain[s])
    BY <1>1
  <1>4. ASSUME NEW b \in DOMAIN Chain[s]
        PROVE  /\ b \in Int
               /\ Len(Chain[s][b]) \in Nat
               /\ DOMAIN Chain[s][b] = 1..Len(Chain[s][b])
               /\ \A i \in DOMAIN Chain[s][b] :
                    i \in Int /\ Chain[s][b][i] \in Tx
    BY <1>2, <1>3
  <1> QED BY <1>1, <1>3, <1>4

\* Two places of a slot that hold the same transaction are one.
LEMMA OnePlace ==
  ASSUME NEW s \in SlotNumber,
         NEW b \in DOMAIN Chain[s], NEW c \in DOMAIN Chain[s],
         NEW i \in DOMAIN Chain[s][b], NEW j \in DOMAIN Chain[s][c],
         Chain[s][b][i] = Chain[s][c][j]
  PROVE  b = c /\ i = j
  <1>1. s \in DOMAIN Chain
    BY SlotFacts
  <1>2. \A q, r \in DOMAIN Chain :
          \A d \in DOMAIN Chain[q], e \in DOMAIN Chain[r] :
            \A k \in DOMAIN Chain[q][d], l \in DOMAIN Chain[r][e] :
              Chain[q][d][k] = Chain[r][e][l] => q = r /\ d = e /\ k = l
    BY PlaceAssumption
  <1> QED BY <1>1, <1>2

\* A transaction is in slot s when, and only when, it is at a place of it.
LEMMA SlotOfFacts ==
  ASSUME NEW t \in Tx, NEW s \in SlotNumber
  PROVE  SlotOf(t) = s <=>
           \E b \in DOMAIN Chain[s] : \E i \in DOMAIN Chain[s][b] :
             Chain[s][b][i] = t
  <1> DEFINE P(r) == \E b \in DOMAIN Chain[r] :
                       \E i \in DOMAIN Chain[r][b] : Chain[r][b][i] = t
  <1>1. DOMAIN Chain = SlotNumber
    BY TxAssumption DEF SlotNumber
  <1>2. \E r \in SlotNumber : P(r)
    BY <1>1, PlaceAssumption
  <1>3. \A q, r \in SlotNumber : P(q) /\ P(r) => q = r
    <2>1. \A q, r \in DOMAIN Chain :
            \A d \in DOMAIN Chain[q], e \in DOMAIN Chain[r] :
              \A k \in DOMAIN Chain[q][d], l \in DOMAIN Chain[r][e] :
                Chain[q][d][k] = Chain[r][e][l] => q = r
      BY PlaceAssumption
    <2> SUFFICES ASSUME NEW q \in SlotNumber, NEW r \in SlotNumber,
                        P(q), P(r)
                 PROVE  q = r
      OBVIOUS
    <2>2. PICK d \in DOMAIN Chain[q] :
            \E k \in DOMAIN Chain[q][d] : Chain[q][d][k] = t
      OBVIOUS
    <2>3. PICK e \in DOMAIN Chain[r] :
            \E l \in DOMAIN Chain[r][e] : Chain[r][e][l] = t
      OBVIOUS
    <2> QED BY <1>1, <2>1, <2>2, <2>3
  <1>4. SlotOf(t) = CHOOSE r \in SlotNumber : P(r)
    BY DEF SlotOf
  <1>5. SlotOf(t) = s <=> P(s)
    <2> HIDE DEF P
    <2>1. P(CHOOSE r \in SlotNumber : P(r))
      BY <1>2, Zenon
    <2>2. (CHOOSE r \in SlotNumber : P(r)) \in SlotNumber
      BY <1>2, Zenon
    <2> QED BY <1>3, <1>4, <2>1, <2>2
  <1> QED BY <1>5

-----------------------------------------------------------------------------
(***************************************************************************)
(* How a step moves what is behind the walk.                               *)
(***************************************************************************)

\* The walk is at a transaction.
AtTx ==
  /\ slot \in SlotNumber
  /\ batch \in DOMAIN Chain[slot]
  /\ item \in DOMAIN Chain[slot][batch]
  /\ step \in TxSteps \cup {"tx"}

\* The transaction in hand is one of the slot in hand, not behind the walk.
LEMMA AtFacts ==
  ASSUME AtTx
  PROVE  /\ Current \in Tx /\ SlotOf(Current) = slot
         /\ ~Passed(Current) /\ ~Behind(Current)
  <1>1. slot \in SlotNumber /\ batch \in DOMAIN Chain[slot]
          /\ item \in DOMAIN Chain[slot][batch]
          /\ step \notin {"slot", "cursor"}
    BY DEF AtTx, TxSteps
  <1>2. batch \in Int /\ item \in Int /\ slot \in Int
          /\ Chain[slot][batch][item] \in Tx
    BY <1>1, SlotFacts
  <1>3. SlotOf(Current) = slot
    BY <1>1, <1>2, SlotOfFacts DEF Current
  <1>4. ~Passed(Current)
    <2> SUFFICES ASSUME NEW c \in DOMAIN Chain[slot],
                        NEW j \in DOMAIN Chain[slot][c],
                        Chain[slot][c][j] = Chain[slot][batch][item]
                 PROVE  ~(c < batch \/ (c = batch /\ j < item))
      BY DEF Passed, Current
    <2> QED BY <1>1, <1>2, OnePlace
  <1>5. ~Behind(Current)
    BY <1>1, <1>2, <1>3, <1>4 DEF Behind
  <1> QED BY <1>2, <1>3, <1>4, <1>5 DEF Current

\* On the same transaction.
LEMMA StayFacts ==
  ASSUME AtTx, UNCHANGED <<slot, batch, item>>, step' \in TxSteps
  PROVE  /\ Current' = Current
         /\ \A t \in Tx : /\ Passed(t)' <=> Passed(t)
                          /\ Behind(t)' <=> Behind(t)
  <1>1. step # "batch" /\ step' # "batch"
          /\ step \notin {"slot", "cursor"} /\ step' \notin {"slot", "cursor"}
    BY DEF AtTx, TxSteps
  <1>2. \A t \in Tx : Passed(t)' <=> Passed(t)
    BY <1>1 DEF Passed
  <1>3. \A t \in Tx : SlotOf(t)' = SlotOf(t)
    BY DEF SlotOf, SlotNumber
  <1>4. \A t \in Tx : Behind(t)' <=> Behind(t)
    BY <1>1, <1>2, <1>3 DEF Behind, InWalk
  <1> QED BY <1>2, <1>4 DEF Current

\* On to the next one.
LEMMA AdvanceFacts ==
  ASSUME AtTx, UNCHANGED <<slot, batch>>, item' = item + 1, step' = "tx"
  PROVE  \A t \in Tx : /\ Passed(t)' <=> Passed(t) \/ t = Current
                       /\ Behind(t)' <=> Behind(t) \/ t = Current
  <1>1. slot \in SlotNumber /\ batch \in DOMAIN Chain[slot]
          /\ item \in DOMAIN Chain[slot][batch]
          /\ step \notin {"slot", "cursor", "batch"}
    BY DEF AtTx, TxSteps
  <1>2. batch \in Int /\ item \in Int
    BY <1>1, SlotFacts
  <1>3. ASSUME NEW t \in Tx PROVE Passed(t)' <=> Passed(t) \/ t = Current
    <2>1. \A c \in DOMAIN Chain[slot] : \A j \in DOMAIN Chain[slot][c] :
            c \in Int /\ j \in Int
      BY <1>1, SlotFacts
    <2>2. Passed(t)' <=>
            \E c \in DOMAIN Chain[slot] : \E j \in DOMAIN Chain[slot][c] :
              /\ Chain[slot][c][j] = t
              /\ c < batch \/ (c = batch /\ j < item + 1)
      BY DEF Passed
    <2>3. Passed(t) <=>
            \E c \in DOMAIN Chain[slot] : \E j \in DOMAIN Chain[slot][c] :
              Chain[slot][c][j] = t /\ (c < batch \/ (c = batch /\ j < item))
      BY <1>1 DEF Passed
    <2>4. \A j \in Int : j < item + 1 <=> j < item \/ j = item
      BY <1>2
    <2> QED BY <1>1, <1>2, <2>1, <2>2, <2>3, <2>4 DEF Current
  <1>4. \A t \in Tx : SlotOf(t)' = SlotOf(t)
    BY DEF SlotOf, SlotNumber
  <1>5. SlotOf(Current) = slot
    BY AtFacts
  <1>6. ASSUME NEW t \in Tx PROVE Behind(t)' <=> Behind(t) \/ t = Current
    <2>1. Behind(t)' <=> SlotOf(t) < slot \/ (SlotOf(t) = slot /\ Passed(t)')
      BY <1>4 DEF Behind, InWalk
    <2>2. Behind(t) <=> SlotOf(t) < slot \/ (SlotOf(t) = slot /\ Passed(t))
      BY <1>1 DEF Behind, InWalk
    <2> QED BY <1>3, <1>5, <2>1, <2>2
  <1> QED BY <1>3, <1>6

\* Between transactions: nothing falls behind.
Quiet == FetchEvents \/ FetchBatch \/ BatchDone \/ SlotDone \/ WriteCursor

\* These steps only change how the walk says where it is.
LEMMA QuietFacts ==
  ASSUME Inv, Quiet
  PROVE  /\ step \notin TxSteps /\ step' \notin TxSteps
         /\ \A t \in Tx : Behind(t)' <=> Behind(t)
         /\ InWalk' /\ step # "slot" =>
              position' = position /\ \A t \in Tx : Passed(t)' <=> Passed(t)
         /\ InWalk' /\ step = "slot" =>
              position' = 0 /\ \A t \in Tx : ~Passed(t)'
  <1> DEFINE Goal ==
        /\ step \notin TxSteps /\ step' \notin TxSteps
        /\ \A t \in Tx : Behind(t)' <=> Behind(t)
        /\ InWalk' /\ step # "slot" =>
             position' = position /\ \A t \in Tx : Passed(t)' <=> Passed(t)
        /\ InWalk' /\ step = "slot" =>
             position' = 0 /\ \A t \in Tx : ~Passed(t)'
  <1> SUFFICES Goal
    OBVIOUS
  <1>1. \A t \in Tx : SlotOf(t)' = SlotOf(t) /\ SlotOf(t) \in Int
    <2>1. \A t \in Tx : SlotOf(t) \in SlotNumber
      BY SlotOfType
    <2> QED BY <2>1, SlotFacts DEF SlotOf, SlotNumber
  <1>2. slot \in Int /\ batch \in Int /\ item \in Int /\ WalkInv
    BY DEF Inv, TypeOK
  <1>3. CASE FetchEvents
    <2>1. /\ step = "slot" /\ step' = "batch" /\ slot' = slot /\ batch' = 1
          /\ position' = 0 /\ slot \in SlotNumber
      BY <1>3 DEF FetchEvents, BeginSlot, Inv, TypeOK, SlotNumber
    <2>2. \A t \in Tx : ~Passed(t)'
      BY <2>1, SlotFacts DEF Passed
    <2>3. \A t \in Tx : Behind(t)' <=> Behind(t)
      BY <1>1, <2>1, <2>2 DEF Behind, InWalk
    <2> QED BY <2>1, <2>2, <2>3 DEF TxSteps
  <1>4. CASE FetchBatch
    <2>1. /\ step = "batch" /\ step' = "tx" /\ UNCHANGED <<slot, batch>>
          /\ item' = 1 /\ position' = position /\ slot \in SlotNumber
      BY <1>2, <1>4 DEF FetchBatch, WalkInv
    <2>2. \A c \in DOMAIN Chain[slot] : \A j \in DOMAIN Chain[slot][c] :
            c \in Int /\ j \in Int /\ ~(j < 1)
      BY <2>1, SlotFacts
    <2>3. \A t \in Tx : Passed(t)' <=> Passed(t)
      BY <2>1, <2>2 DEF Passed
    <2>4. \A t \in Tx : Behind(t)' <=> Behind(t)
      BY <1>1, <2>1, <2>3 DEF Behind, InWalk
    <2> QED BY <2>1, <2>3, <2>4 DEF TxSteps
  <1>5. CASE BatchDone
    <2>1. /\ step = "tx" /\ step' = "batch" /\ slot' = slot
          /\ batch' = batch + 1 /\ item > Len(Chain[slot][batch])
          /\ position' = position /\ slot \in SlotNumber
      BY <1>2, <1>5 DEF BatchDone, WalkInv
    <2>2. \A c \in DOMAIN Chain[slot] : \A j \in DOMAIN Chain[slot][c] :
            /\ c \in Int /\ j \in Int
            /\ c = batch => j < item
            /\ c < batch + 1 <=> c < batch \/ c = batch
      BY <1>2, <2>1, SlotFacts
    <2>3. \A t \in Tx : Passed(t)' <=> Passed(t)
      BY <2>1, <2>2 DEF Passed
    <2>4. \A t \in Tx : Behind(t)' <=> Behind(t)
      BY <1>1, <2>1, <2>3 DEF Behind, InWalk
    <2> QED BY <2>1, <2>3, <2>4 DEF TxSteps
  <1>6. CASE SlotDone
    <2>1. /\ step = "batch" /\ step' = "cursor" /\ slot' = slot
          /\ batch > Len(Chain[slot]) /\ slot \in SlotNumber
      BY <1>2, <1>6 DEF SlotDone, WalkInv, place
    <2>2. \A c \in DOMAIN Chain[slot] : c < batch
      BY <1>2, <2>1, SlotFacts
    <2>3. \A t \in Tx : SlotOf(t) = slot =>
            \E c \in DOMAIN Chain[slot] : \E j \in DOMAIN Chain[slot][c] :
              Chain[slot][c][j] = t
      BY <2>1, SlotOfFacts
    <2>4. \A t \in Tx : SlotOf(t) = slot => Passed(t)
      BY <2>2, <2>3 DEF Passed
    <2>5. \A t \in Tx : Behind(t)' <=> Behind(t)
      BY <1>1, <2>1, <2>4 DEF Behind, InWalk
    <2> QED BY <2>1, <2>5 DEF TxSteps, InWalk
  <1>7. CASE WriteCursor
    <2>1. step = "cursor" /\ step' = "slot" /\ slot' = slot + 1
      BY <1>7 DEF WriteCursor
    <2>2. \A t \in Tx : Behind(t)' <=> Behind(t)
      BY <1>1, <1>2, <2>1 DEF Behind, InWalk
    <2> QED BY <2>1, <2>2 DEF TxSteps, InWalk
  <1> QED BY <1>3, <1>4, <1>5, <1>6, <1>7 DEF Quiet

-----------------------------------------------------------------------------
(***************************************************************************)
(* How a step moves what a table has to show.                              *)
(***************************************************************************)
Same(after) == Done(after)' = Done(after)
Grown(after) ==
  /\ Done(after)' = Done(after) \cup {Current}
  /\ Current \notin Done(after)

\* They give no table more to show.
LEMMA QuietDone ==
  ASSUME Inv, Quiet, NEW S \in SUBSET TxSteps
  PROVE  Same(S)
  <1>1. /\ step \notin S /\ step' \notin S
        /\ \A t \in Tx : Behind(t)' <=> Behind(t)
    BY QuietFacts
  <1> QED BY <1>1 DEF Same, Done

\* A table has to show the transaction in hand once its statement is behind.
LEMMA StayDone ==
  ASSUME AtTx, UNCHANGED <<slot, batch, item>>, step' \in TxSteps,
         NEW S \in SUBSET TxSteps
  PROVE  /\ (step \in S <=> step' \in S) => Same(S)
         /\ step \notin S /\ step' \in S /\ Outcome[Current] = "committed" =>
              Grown(S)
  <1>1. PICK c \in Tx : c = Current
    BY AtFacts
  <1>2. /\ Current' = c
        /\ \A t \in Tx : Behind(t)' <=> Behind(t)
    BY <1>1, StayFacts
  <1>3. ~Behind(c)
    BY <1>1, AtFacts
  <1>4. /\ Done(S) = {t \in Tx : /\ Outcome[t] = "committed"
                                 /\ Behind(t) \/ (step \in S /\ t = c)}
        /\ Done(S)' = {t \in Tx : /\ Outcome[t] = "committed"
                                  /\ Behind(t) \/ (step' \in S /\ t = c)}
    BY <1>1, <1>2 DEF Done
  <1> HIDE DEF Current, Behind
  <1> QED BY <1>1, <1>3, <1>4 DEF Same, Grown

\* Every table has to show the transaction that is left.
LEMMA AdvanceDone ==
  ASSUME AtTx, UNCHANGED <<slot, batch>>, item' = item + 1, step' = "tx",
         NEW S \in SUBSET TxSteps
  PROVE  /\ step \in S \/ Outcome[Current] # "committed" => Same(S)
         /\ step \notin S /\ Outcome[Current] = "committed" => Grown(S)
  <1>1. PICK c \in Tx : c = Current
    BY AtFacts
  <1>2. \A t \in Tx : Behind(t)' <=> Behind(t) \/ t = c
    BY <1>1, AdvanceFacts
  <1>3. ~Behind(c)
    BY <1>1, AtFacts
  <1>4. step' \notin S
    BY DEF TxSteps
  <1>5. /\ Done(S) = {t \in Tx : /\ Outcome[t] = "committed"
                                 /\ Behind(t) \/ (step \in S /\ t = c)}
        /\ Done(S)' = {t \in Tx : /\ Outcome[t] = "committed"
                                  /\ Behind(t) \/ t = c}
    BY <1>1, <1>2, <1>4 DEF Done
  <1> HIDE DEF Current, Behind
  <1> QED BY <1>1, <1>3, <1>5 DEF Same, Grown

\* Counting.
LEMMA CountFacts ==
  ASSUME NEW A \in SUBSET Tx
  PROVE  /\ IsFiniteSet(A) /\ Cardinality(A) \in Nat
         /\ \A t : t \notin A => Cardinality(A \cup {t}) = Cardinality(A) + 1
         /\ \A B \in SUBSET A : B # A => Cardinality(B) < Cardinality(A)
  <1>1. IsFiniteSet(A)
    BY PlaceAssumption, FS_Subset
  <1>2. Cardinality(A) \in Nat
    BY <1>1, FS_CardinalityType
  <1>3. \A t : t \notin A => Cardinality(A \cup {t}) = Cardinality(A) + 1
    BY <1>1, FS_AddElement
  <1>4. \A B \in SUBSET A : B # A => Cardinality(B) < Cardinality(A)
    <2> SUFFICES ASSUME NEW B \in SUBSET A, B # A
                 PROVE  Cardinality(B) < Cardinality(A)
      OBVIOUS
    <2>1. /\ Cardinality(B) \in Nat /\ Cardinality(B) <= Cardinality(A)
          /\ Cardinality(B) # Cardinality(A)
      BY <1>1, FS_Subset, FS_CardinalityType
    <2> QED BY <1>2, <2>1
  <1> QED BY <1>1, <1>2, <1>3, <1>4

\* The position of the transaction in hand is its place in the chain's order.
LEMMA PriorIsEarlier ==
  ASSUME AtTx
  PROVE  Earlier(Current) = Prior
  <1>1. slot \in SlotNumber /\ batch \in DOMAIN Chain[slot]
          /\ item \in DOMAIN Chain[slot][batch] /\ step # "batch"
    BY DEF AtTx, TxSteps
  <1>2. SlotOf(Current) = slot
    BY AtFacts
  <1>3. ASSUME NEW u \in Tx
        PROVE  (\E b, c \in DOMAIN Chain[slot] :
                  \E i \in DOMAIN Chain[slot][b] :
                    \E j \in DOMAIN Chain[slot][c] :
                      /\ Chain[slot][b][i] = u
                      /\ Chain[slot][c][j] = Chain[slot][batch][item]
                      /\ b < c \/ (b = c /\ i < j))
               <=> Passed(u)
    <2>1. \A c \in DOMAIN Chain[slot] : \A j \in DOMAIN Chain[slot][c] :
            Chain[slot][c][j] = Chain[slot][batch][item] =>
              c = batch /\ j = item
      BY <1>1, OnePlace
    <2> QED BY <1>1, <2>1 DEF Passed
  <1>4. Earlier(Current) =
          {u \in Tx :
             /\ Outcome[u] # "skipped"
             /\ \E b, c \in DOMAIN Chain[slot] :
                  \E i \in DOMAIN Chain[slot][b] :
                    \E j \in DOMAIN Chain[slot][c] :
                      /\ Chain[slot][b][i] = u
                      /\ Chain[slot][c][j] = Chain[slot][batch][item]
                      /\ b < c \/ (b = c /\ i < j)}
    BY <1>2 DEF Earlier, Current
  <1> QED BY <1>3, <1>4 DEF Prior

\* A transaction that the walk of the slot has passed has fewer before it.
LEMMA EarlierFewer ==
  ASSUME AtTx, NEW u \in Prior
  PROVE  Cardinality(Earlier(u)) < Cardinality(Prior)
  <1>1. slot \in SlotNumber /\ batch \in DOMAIN Chain[slot]
          /\ item \in DOMAIN Chain[slot][batch] /\ step # "batch"
          /\ batch \in Int /\ item \in Int
    BY SlotFacts DEF AtTx, TxSteps
  <1>2. PICK c \in DOMAIN Chain[slot] : \E j \in DOMAIN Chain[slot][c] :
          Chain[slot][c][j] = u /\ (c < batch \/ (c = batch /\ j < item))
    BY DEF Prior, Passed
  <1>3. PICK j \in DOMAIN Chain[slot][c] :
          Chain[slot][c][j] = u /\ (c < batch \/ (c = batch /\ j < item))
    BY <1>2
  <1>4. u \in Tx /\ SlotOf(u) = slot /\ c \in Int /\ j \in Int
    BY <1>1, <1>3, SlotFacts, SlotOfFacts
  <1>5. \A d \in DOMAIN Chain[slot] : \A k \in DOMAIN Chain[slot][d] :
          /\ d \in Int /\ k \in Int
          /\ Chain[slot][d][k] = u => d = c /\ k = j
    BY <1>1, <1>3, SlotFacts, OnePlace
  <1>6. Earlier(u) =
          {v \in Tx :
             /\ Outcome[v] # "skipped"
             /\ \E b, d \in DOMAIN Chain[slot] :
                  \E i \in DOMAIN Chain[slot][b] :
                    \E k \in DOMAIN Chain[slot][d] :
                      /\ Chain[slot][b][i] = v /\ Chain[slot][d][k] = u
                      /\ b < d \/ (b = d /\ i < k)}
    BY <1>4 DEF Earlier
  <1>7. \A v \in Earlier(u) : /\ v \in Tx /\ Outcome[v] # "skipped"
                              /\ \E b \in DOMAIN Chain[slot] :
                                   \E i \in DOMAIN Chain[slot][b] :
                                     /\ Chain[slot][b][i] = v
                                     /\ b < c \/ (b = c /\ i < j)
    BY <1>5, <1>6
  <1>8. \A v \in Earlier(u) : Passed(v)
    <2> SUFFICES ASSUME NEW v \in Earlier(u) PROVE Passed(v)
      OBVIOUS
    <2>1. PICK b \in DOMAIN Chain[slot] :
            \E i \in DOMAIN Chain[slot][b] :
              Chain[slot][b][i] = v /\ (b < c \/ (b = c /\ i < j))
      BY <1>7
    <2>2. PICK i \in DOMAIN Chain[slot][b] :
            Chain[slot][b][i] = v /\ (b < c \/ (b = c /\ i < j))
      BY <2>1
    <2>3. b < batch \/ (b = batch /\ i < item)
      BY <1>1, <1>3, <1>4, <1>5, <2>2
    <2> QED BY <1>1, <2>2, <2>3 DEF Passed
  <1>9. u \notin Earlier(u)
    BY <1>4, <1>5, <1>7
  <1>10. Earlier(u) \in SUBSET Prior /\ Earlier(u) # Prior
    BY <1>7, <1>8, <1>9 DEF Prior
  <1>11. Prior \in SUBSET Tx
    BY DEF Prior
  <1> HIDE DEF Prior, Earlier
  <1> QED BY <1>10, <1>11, CountFacts

-----------------------------------------------------------------------------
(***************************************************************************)
(* The transaction in hand.                                                *)
(***************************************************************************)
LEMMA InHand ==
  ASSUME Inv, PositionInv, TableInv, step \in TxSteps
  PROVE  /\ AtTx /\ Current \in Tx
         /\ KindNow(Current) = Kind[Current]
         /\ SenderNow(Current) = Sender[Current]
         /\ ReceiverNow(Current) = Receiver[Current]
         /\ HasResource(Current) <=> Kind[Current] \in ResourceKinds
  <1>1. AtTx
    BY DEF Inv, WalkInv, AtTx, TxSteps
  <1>2. PICK c \in Tx : c = Current
    BY <1>1, AtFacts
  <1>3. KindNow(c) = Kind[c]
    BY DEF KindNow, PositionInv
  <1>4. /\ Sender[c] # Nobody => Kind[c] # "unknown"
        /\ Receiver[c] # Nobody => Kind[c] = "transfer"
    BY ChainAssumption
  <1>5. SenderNow(c) = Sender[c] /\ ReceiverNow(c) = Receiver[c]
    BY <1>3, <1>4 DEF SenderNow, ReceiverNow
  <1>6. HasResource(c) <=> Kind[c] \in ResourceKinds
    BY <1>3 DEF HasResource, ResourceKinds
  <1> QED BY <1>1, <1>2, <1>3, <1>5, <1>6

\* UNIQUE (slot, position) refuses nothing: the rows of the slot are at
\* smaller positions.
LEMMA PositionFree ==
  ASSUME Inv, PositionInv, TableInv, step = "insert"
  PROVE  ~PositionTaken(Current, slot, position)
  <1> SUFFICES ASSUME NEW u \in Tx, txs[u] = position, SlotOf(u) = slot
               PROVE  FALSE
    BY DEF PositionTaken
  <1>1. AtTx
    BY InHand DEF TxSteps
  <1>2. position = Cardinality(Prior) /\ position \in Nat
    BY DEF PositionInv, InWalk, Inv, TypeOK
  <1>3. Recorded(u)
    BY <1>2 DEF Recorded, NoRow
  <1>4. u \in Done(AfterInsert) /\ txs[u] = Cardinality(Earlier(u))
    BY <1>3 DEF TableInv
  <1>5. Behind(u) /\ Outcome[u] = "committed"
    BY <1>4 DEF Done, AfterInsert
  <1>6. slot \in Int
    BY DEF Inv, TypeOK
  <1>7. Passed(u)
    BY <1>5, <1>6 DEF Behind
  <1>8. u \in Prior
    BY <1>5, <1>7 DEF Prior
  <1>9. Cardinality(Earlier(u)) < Cardinality(Prior)
    BY <1>1, <1>8, EarlierFewer
  <1> QED BY <1>2, <1>4, <1>9

\* The walk has been to the transactions that precede the one in hand, and
\* to no others.
LEMMA BehindPrecedes ==
  ASSUME AtTx, NEW u \in Tx, Outcome[u] # "skipped"
  PROVE  Behind(u) <=> Precedes(u, Current)
  <1>1. PICK c \in Tx : c = Current
    BY AtFacts
  <1>2. SlotOf(c) = slot /\ slot \in SlotNumber
    BY <1>1, AtFacts DEF AtTx
  <1>3. u \in Earlier(c) <=> Passed(u)
    BY <1>1, PriorIsEarlier DEF Prior
  <1>4. Passed(u) => SlotOf(u) = slot
    BY <1>2, SlotOfFacts DEF Passed
  <1>5. step \notin {"slot", "cursor"}
    BY DEF AtTx, TxSteps
  <1>6. Behind(u) <=> SlotOf(u) < slot \/ (SlotOf(u) = slot /\ Passed(u))
    BY <1>5 DEF Behind, InWalk
  <1>7. Precedes(u, c) <=> SlotOf(u) < SlotOf(c) \/ u \in Earlier(c)
    BY DEF Precedes
  <1> QED BY <1>1, <1>2, <1>3, <1>4, <1>6, <1>7

\* The parent was walked before, and so it has its row.
LEMMA ParentThere ==
  ASSUME Inv, PositionInv, TableInv, step \in {"resource", "bump"},
         Parent[Current] # Nobody
  PROVE  Parent[Current] \in Id /\ Stored(Parent[Current])
  <1>1. AtTx
    BY InHand DEF TxSteps
  <1>2. PICK c \in Tx : c = Current
    BY <1>1, AtFacts
  <1>3. Outcome[c] = "committed" /\ Parent[c] # Nobody
    BY <1>2 DEF PositionInv, AfterInsert
  <1>4. PICK r \in Id : r = Parent[c]
    BY <1>3, TxAssumption
  <1>5. PICK p \in Tx : /\ Registers[p] = r /\ Outcome[p] = "committed"
                        /\ Precedes(p, c)
    BY <1>3, <1>4, ChainAssumption
  <1>6. Behind(p)
    BY <1>1, <1>2, <1>5, BehindPrecedes
  <1>7. p \in Done(AfterResource)
    BY <1>5, <1>6 DEF Done
  <1>8. RowExact(r, Done(AfterResource))
    BY DEF TableInv
  <1>9. resources[r] \in Done(AfterResource)
    BY <1>5, <1>7, <1>8 DEF RowExact
  <1>10. resources[r] # Nobody
    BY <1>9, TxAssumption DEF Done
  <1> QED BY <1>2, <1>4, <1>10 DEF Stored

-----------------------------------------------------------------------------
(***************************************************************************)
(* A table is written when, and only when, there is more for it to show.   *)
(***************************************************************************)
RowMove ==
  \/ Same(AfterInsert) /\ UNCHANGED <<txs, kinds>>
  \/ Grown(AfterInsert) /\ InsertTransaction
SentMove ==
  \/ Same(AfterSender) /\ UNCHANGED sent
  \/ Grown(AfterSender) /\ UpdateSender
ReceivedMove ==
  \/ Same(AfterReceiver) /\ UNCHANGED received
  \/ Grown(AfterReceiver) /\ UpdateReceiver
ResourceMove ==
  \/ Same(AfterResource) /\ UNCHANGED resources
  \/ Grown(AfterResource) /\ InsertResource
  \/ /\ Grown(AfterResource) /\ UNCHANGED resources
     /\ Kind[Current] \notin ResourceKinds
UsesMove ==
  \/ Same(AfterBumped) /\ UNCHANGED uses
  \/ Grown(AfterBumped) /\ BumpUses
  \/ Grown(AfterBumped) /\ UNCHANGED uses /\ Parent[Current] = Nobody
OwnedMove ==
  \/ Same({}) /\ UNCHANGED owned
  \/ Grown({}) /\ BumpOwned
  \/ Grown({}) /\ UNCHANGED owned /\ Kind[Current] # "register_schema"

\* Action by action: the statement of a table comes with its Grown.
LEMMA TableMoves ==
  ASSUME Inv, PositionInv, TableInv, Walk
  PROVE  /\ RowMove /\ SentMove /\ ReceivedMove
         /\ ResourceMove /\ UsesMove /\ OwnedMove
  <1> DEFINE Goal == /\ RowMove /\ SentMove /\ ReceivedMove
                     /\ ResourceMove /\ UsesMove /\ OwnedMove
             Afters == {AfterInsert, AfterSender, AfterReceiver,
                        AfterResource, AfterBumped, {}}
  <1> SUFFICES Goal
    OBVIOUS
  <1>s. \A S \in Afters : S \in SUBSET TxSteps
    BY DEF AfterInsert, AfterSender, AfterReceiver, AfterResource,
           AfterBumped, TxSteps
  <1>u. ASSUME UNCHANGED tables, \A S \in Afters : Same(S) PROVE Goal
    BY <1>u DEF tables, RowMove, SentMove, ReceivedMove, ResourceMove,
                UsesMove, OwnedMove
  <1>c. PICK c : c = Current
    OBVIOUS
  <1>h. ASSUME step \in TxSteps
        PROVE  /\ AtTx /\ c \in Tx /\ KindNow(c) = Kind[c]
               /\ HasResource(c) <=> Kind[c] \in ResourceKinds
               /\ Parent[c] # Nobody =>
                    Kind[c] \in {"register_schema", "submit_attestation"}
               /\ Kind[c] \in Kinds
    BY <1>h, <1>c, InHand, ResourceAssumption, TxAssumption
  <1>1. CASE Quiet
    <2>1. \A S \in Afters : Same(S)
      BY <1>1, <1>s, QuietDone
    <2>2. UNCHANGED tables
      BY <1>1 DEF Quiet, FetchEvents, BeginSlot, FetchBatch, BatchDone,
                  SlotDone, WriteCursor
    <2> QED BY <1>u, <2>1, <2>2
  <1>2. CASE FetchTx
    <2>1. AtTx
      <3>1. /\ step = "tx" /\ batch \in DOMAIN Chain[slot]
            /\ slot \in SlotNumber /\ item \in Nat /\ item > 0
            /\ item <= Len(Chain[slot][batch])
        BY <1>2 DEF FetchTx, Inv, WalkInv, TypeOK
      <3> QED BY <3>1, SlotFacts DEF AtTx
    <2>2. UNCHANGED tables /\ UNCHANGED <<slot, batch>> /\ step = "tx"
      BY <1>2 DEF FetchTx
    <2>3. CASE Outcome[Current] = "skipped"
      <3>1. item' = item + 1 /\ step' = "tx"
        BY <1>2, <2>3 DEF FetchTx
      <3>2. \A S \in Afters : Same(S)
        BY <1>s, <2>1, <2>2, <2>3, <3>1, AdvanceDone
      <3> QED BY <1>u, <2>2, <3>2
    <2>4. CASE Outcome[Current] # "skipped"
      <3>1. item' = item /\ step' = "insert"
        BY <1>2, <2>4 DEF FetchTx
      <3>2. \A S \in Afters : step \notin S /\ step' \notin S
        BY <2>2, <3>1 DEF AfterInsert, AfterSender, AfterReceiver,
                          AfterResource, AfterBumped
      <3>3. step' \in TxSteps
        BY <3>1 DEF TxSteps
      <3>4. \A S \in Afters : Same(S)
        BY <1>s, <2>1, <2>2, <3>1, <3>2, <3>3, StayDone
      <3> QED BY <1>u, <2>2, <3>4
    <2> QED BY <2>3, <2>4
  <1>3. CASE InsertRefused
    <2>1. step = "insert" /\ step \in TxSteps /\ UNCHANGED tables
            /\ InsertRejected(Current) /\ NextTx
      BY <1>3 DEF InsertRefused, TxSteps
    <2>2. Outcome[Current] # "committed"
      BY <2>1, PositionFree DEF InsertRejected
    <2>3. \A S \in Afters : Same(S)
      BY <1>h, <1>s, <2>1, <2>2, AdvanceDone DEF NextTx
    <2> QED BY <1>u, <2>1, <2>3
  <1>4. CASE InsertTransaction
    <2>1. /\ step = "insert" /\ step \in TxSteps /\ step' = "sender"
          /\ step' \in TxSteps /\ UNCHANGED <<slot, batch, item>>
          /\ ~InsertRejected(Current)
          /\ UNCHANGED <<sent, received, resources, uses, owned>>
      BY <1>4 DEF InsertTransaction, TxSteps, place
    <2>2. Outcome[Current] = "committed"
      <3>1. Outcome[Current] # "reverted" /\ Outcome[Current] # "skipped"
        BY <2>1 DEF InsertRejected, PositionInv
      <3>2. Outcome[c] \in {"committed", "reverted", "skipped"}
        BY <1>h, <2>1, TxAssumption
      <3> QED BY <1>c, <3>1, <3>2
    <2>3. Grown(AfterInsert)
      <3>1. step \notin AfterInsert /\ step' \in AfterInsert
        BY <2>1 DEF AfterInsert
      <3> QED BY <1>h, <1>s, <2>1, <2>2, <3>1, StayDone
    <2>4. \A S \in Afters \ {AfterInsert} : Same(S)
      <3>1. \A S \in Afters \ {AfterInsert} : step \notin S /\ step' \notin S
        BY <2>1 DEF AfterInsert, AfterSender, AfterReceiver, AfterResource,
                    AfterBumped
      <3> QED BY <1>h, <1>s, <2>1, <3>1, StayDone
    <2>5. AfterInsert \notin {AfterSender, AfterReceiver, AfterResource,
                              AfterBumped, {}}
      BY DEF AfterInsert, AfterSender, AfterReceiver, AfterResource,
             AfterBumped
    <2> QED BY <1>4, <2>1, <2>3, <2>4, <2>5
            DEF RowMove, SentMove, ReceivedMove, ResourceMove, UsesMove,
                OwnedMove
  <1>5. ASSUME step \in AfterInsert
        PROVE  step \in TxSteps /\ Outcome[Current] = "committed"
    BY <1>5 DEF AfterInsert, TxSteps, PositionInv
  <1>6. CASE UpdateSender
    <2>1. /\ step = "sender" /\ step \in AfterInsert /\ step' = "receiver"
          /\ step' \in TxSteps /\ UNCHANGED <<slot, batch, item>>
          /\ UNCHANGED <<txs, kinds, resources, uses>>
      BY <1>6 DEF UpdateSender, TxSteps, AfterInsert, place, txRow
    <2>2. UNCHANGED <<received, owned>>
      BY <1>6 DEF UpdateSender, NobodySeen, CountSender
    <2>3. Grown(AfterSender)
      <3>1. step \notin AfterSender /\ step' \in AfterSender
        BY <2>1 DEF AfterSender
      <3> QED BY <1>5, <1>h, <1>s, <2>1, <3>1, StayDone
    <2>4. \A S \in {AfterInsert, AfterReceiver, AfterResource, AfterBumped,
                    {}} : Same(S)
      <3>1. \A S \in {AfterInsert, AfterReceiver, AfterResource, AfterBumped,
                      {}} : step \in S <=> step' \in S
        BY <2>1 DEF AfterInsert, AfterReceiver, AfterResource, AfterBumped
      <3> QED BY <1>5, <1>h, <1>s, <2>1, <3>1, StayDone
    <2> QED BY <1>6, <2>1, <2>2, <2>3, <2>4
            DEF RowMove, SentMove, ReceivedMove, ResourceMove, UsesMove,
                OwnedMove
  <1>7. CASE UpdateReceiver
    <2>1. /\ step = "receiver" /\ step \in AfterInsert /\ step' = "resource"
          /\ step' \in TxSteps /\ UNCHANGED <<slot, batch, item>>
          /\ UNCHANGED <<txs, kinds, resources, uses>>
      BY <1>7 DEF UpdateReceiver, TxSteps, AfterInsert, place, txRow
    <2>2. UNCHANGED <<sent, owned>>
      BY <1>7 DEF UpdateReceiver, NobodySeen, CountReceiver
    <2>3. Grown(AfterReceiver)
      <3>1. step \notin AfterReceiver /\ step' \in AfterReceiver
        BY <2>1 DEF AfterReceiver
      <3> QED BY <1>5, <1>h, <1>s, <2>1, <3>1, StayDone
    <2>4. \A S \in {AfterInsert, AfterSender, AfterResource, AfterBumped,
                    {}} : Same(S)
      <3>1. \A S \in {AfterInsert, AfterSender, AfterResource, AfterBumped,
                      {}} : step \in S <=> step' \in S
        BY <2>1 DEF AfterInsert, AfterSender, AfterResource, AfterBumped
      <3> QED BY <1>5, <1>h, <1>s, <2>1, <3>1, StayDone
    <2> QED BY <1>7, <2>1, <2>2, <2>3, <2>4
            DEF RowMove, SentMove, ReceivedMove, ResourceMove, UsesMove,
                OwnedMove
  <1>8. CASE InsertResource \/ NoResource
    <2>1. /\ step = "resource" /\ step \in AfterInsert
          /\ UNCHANGED <<txs, kinds, sent, received, uses, owned>>
      BY <1>8 DEF InsertResource, NoResource, AfterInsert, txRow, tables
    <2>2. ForeignKeyHolds(Current)
      BY <2>1, ParentThere DEF ForeignKeyHolds
    <2>3. CASE InsertResource /\ KindNow(Current) # "register_attestor_set"
      <3>1. /\ step' = "bump" /\ step' \in TxSteps
            /\ UNCHANGED <<slot, batch, item>>
        BY <2>3 DEF InsertResource, place, TxSteps
      <3>2. Grown(AfterResource)
        <4>1. step \notin AfterResource /\ step' \in AfterResource
          BY <2>1, <3>1 DEF AfterResource
        <4> QED BY <1>5, <1>h, <1>s, <2>1, <3>1, <4>1, StayDone
      <3>3. \A S \in {AfterInsert, AfterSender, AfterReceiver, AfterBumped,
                      {}} : Same(S)
        <4>1. \A S \in {AfterInsert, AfterSender, AfterReceiver, AfterBumped,
                        {}} : step \in S <=> step' \in S
          BY <2>1, <3>1
          DEF AfterInsert, AfterSender, AfterReceiver, AfterBumped
        <4> QED BY <1>5, <1>h, <1>s, <2>1, <3>1, <4>1, StayDone
      <3> QED BY <2>1, <2>3, <3>2, <3>3
              DEF RowMove, SentMove, ReceivedMove, ResourceMove, UsesMove,
                  OwnedMove
    <2>4. CASE NoResource \/ KindNow(Current) = "register_attestor_set"
      <3>1. NextTx
        BY <1>8, <2>4 DEF InsertResource, NoResource
      <3>2. \A S \in {AfterResource, AfterBumped, {}} : Grown(S)
        <4>1. \A S \in {AfterResource, AfterBumped, {}} : step \notin S
          BY <2>1 DEF AfterResource, AfterBumped
        <4> QED BY <1>5, <1>h, <1>s, <2>1, <3>1, <4>1, AdvanceDone DEF NextTx
      <3>3. \A S \in {AfterInsert, AfterSender, AfterReceiver} : Same(S)
        <4>1. \A S \in {AfterInsert, AfterSender, AfterReceiver} : step \in S
          BY <2>1 DEF AfterInsert, AfterSender, AfterReceiver
        <4> QED BY <1>5, <1>h, <1>s, <2>1, <3>1, <4>1, AdvanceDone DEF NextTx
      <3>4. NoResource =>
              UNCHANGED resources /\ Kind[Current] \notin ResourceKinds
        BY <1>5, <1>c, <1>h, <2>1, <2>2 DEF NoResource, tables
      <3>5. Kind[c] \notin ResourceKinds \/ Kind[c] = "register_attestor_set"
        BY <1>5, <1>c, <1>h, <2>1, <2>4, <3>4
      <3>6. Parent[Current] = Nobody /\ Kind[Current] # "register_schema"
        BY <1>5, <1>c, <1>h, <2>1, <3>5 DEF ResourceKinds
      <3> QED BY <1>8, <2>1, <3>2, <3>3, <3>4, <3>6
              DEF RowMove, SentMove, ReceivedMove, ResourceMove, UsesMove,
                  OwnedMove
    <2> QED BY <1>8, <2>3, <2>4
  <1>9. CASE BumpUses
    <2>1. /\ step = "bump" /\ step \in AfterInsert
          /\ UNCHANGED <<txs, kinds, resources, sent, received, owned>>
      BY <1>9 DEF BumpUses, AfterInsert, txRow
    <2>2. CASE KindNow(Current) = "register_schema"
      <3>1. /\ step' = "owned" /\ step' \in TxSteps
            /\ UNCHANGED <<slot, batch, item>>
        BY <1>9, <2>2 DEF BumpUses, AfterBump, place, TxSteps
      <3>2. Grown(AfterBumped)
        <4>1. step \notin AfterBumped /\ step' \in AfterBumped
          BY <2>1, <3>1 DEF AfterBumped
        <4> QED BY <1>5, <1>h, <1>s, <2>1, <3>1, <4>1, StayDone
      <3>3. \A S \in {AfterInsert, AfterSender, AfterReceiver, AfterResource,
                      {}} : Same(S)
        <4>1. \A S \in {AfterInsert, AfterSender, AfterReceiver,
                        AfterResource, {}} : step \in S <=> step' \in S
          BY <2>1, <3>1
          DEF AfterInsert, AfterSender, AfterReceiver, AfterResource
        <4> QED BY <1>5, <1>h, <1>s, <2>1, <3>1, <4>1, StayDone
      <3> QED BY <1>9, <2>1, <3>2, <3>3
              DEF RowMove, SentMove, ReceivedMove, ResourceMove, UsesMove,
                  OwnedMove
    <2>3. CASE KindNow(Current) # "register_schema"
      <3>1. NextTx
        BY <1>9, <2>3 DEF BumpUses, AfterBump
      <3>2. \A S \in {AfterBumped, {}} : Grown(S)
        <4>1. \A S \in {AfterBumped, {}} : step \notin S
          BY <2>1 DEF AfterBumped
        <4> QED BY <1>5, <1>h, <1>s, <2>1, <3>1, <4>1, AdvanceDone DEF NextTx
      <3>3. \A S \in {AfterInsert, AfterSender, AfterReceiver, AfterResource}:
              Same(S)
        <4>1. \A S \in {AfterInsert, AfterSender, AfterReceiver,
                        AfterResource} : step \in S
          BY <2>1 DEF AfterInsert, AfterSender, AfterReceiver, AfterResource
        <4> QED BY <1>5, <1>h, <1>s, <2>1, <3>1, <4>1, AdvanceDone DEF NextTx
      <3>4. Kind[Current] # "register_schema"
        BY <1>5, <1>c, <1>h, <2>1, <2>3
      <3> QED BY <1>9, <2>1, <3>2, <3>3, <3>4
              DEF RowMove, SentMove, ReceivedMove, ResourceMove, UsesMove,
                  OwnedMove
    <2> QED BY <2>2, <2>3
  <1>10. CASE BumpOwned
    <2>1. /\ step = "owned" /\ step \in AfterInsert /\ NextTx
          /\ UNCHANGED <<txs, kinds, resources, uses, sent, received>>
      BY <1>10 DEF BumpOwned, AfterInsert, txRow
    <2>2. Grown({})
      BY <1>5, <1>h, <1>s, <2>1, AdvanceDone DEF NextTx
    <2>3. \A S \in {AfterInsert, AfterSender, AfterReceiver, AfterResource,
                    AfterBumped} : Same(S)
      <3>1. \A S \in {AfterInsert, AfterSender, AfterReceiver, AfterResource,
                      AfterBumped} : step \in S
        BY <2>1 DEF AfterInsert, AfterSender, AfterReceiver, AfterResource,
                    AfterBumped
      <3> QED BY <1>5, <1>h, <1>s, <2>1, <3>1, AdvanceDone DEF NextTx
    <2> QED BY <1>10, <2>1, <2>2, <2>3
            DEF RowMove, SentMove, ReceivedMove, ResourceMove, UsesMove,
                OwnedMove
  <1> QED BY <1>1, <1>2, <1>3, <1>4, <1>6, <1>7, <1>8, <1>9, <1>10
          DEF Walk, Quiet

-----------------------------------------------------------------------------
(***************************************************************************)
(* The invariant is preserved by the steps of the walk.                    *)
(***************************************************************************)

\* What a set that a counter counts becomes.
LEMMA DoneInTx == \A after : Done(after) \in SUBSET Tx
  BY DEF Done

\* transactions: one row more, at the position that is its place.
LEMMA RowsExact ==
  ASSUME Inv, PositionInv, TableInv, Walk
  PROVE  /\ \A t \in Tx : Recorded(t)' => t \in Done(AfterInsert)'
         /\ \A t \in Done(AfterInsert)' :
              txs'[t] = Cardinality(Earlier(t)) /\ kinds'[t] = Kind[t]
  <1>1. /\ \A t \in Tx : Recorded(t) => t \in Done(AfterInsert)
        /\ \A t \in Done(AfterInsert) :
             txs[t] = Cardinality(Earlier(t)) /\ kinds[t] = Kind[t]
    BY DEF TableInv
  <1>2. CASE Same(AfterInsert) /\ UNCHANGED <<txs, kinds>>
    BY <1>1, <1>2 DEF Same, Recorded
  <1>3. CASE Grown(AfterInsert) /\ InsertTransaction
    <2>1. step = "insert" /\ step \in TxSteps
      BY <1>3 DEF InsertTransaction, TxSteps
    <2>2. AtTx /\ KindNow(Current) = Kind[Current]
      BY <2>1, InHand
    <2>3. PICK c \in Tx : c = Current
      BY <2>2, AtFacts
    <2>4. position = Cardinality(Earlier(c))
      BY <2>1, <2>2, <2>3, PriorIsEarlier DEF PositionInv, InWalk
    <2>5. /\ txs' = [txs EXCEPT ![c] = position]
          /\ kinds' = [kinds EXCEPT ![c] = Kind[c]]
      BY <1>3, <2>2, <2>3 DEF InsertTransaction, WriteTx
    <2>6. Done(AfterInsert)' = Done(AfterInsert) \cup {c}
      BY <1>3, <2>3 DEF Grown
    <2>7. \A t \in Tx : /\ t # c => txs'[t] = txs[t] /\ kinds'[t] = kinds[t]
                        /\ t = c => /\ txs'[t] = Cardinality(Earlier(t))
                                    /\ kinds'[t] = Kind[t]
      BY <2>4, <2>5 DEF Inv, TypeOK
    <2> QED BY <1>1, <2>3, <2>6, <2>7, DoneInTx DEF Recorded
  <1> QED BY <1>2, <1>3, TableMoves DEF RowMove

\* attestor_sets, schemas and attestations: one registration more.
LEMMA OneMore ==
  ASSUME Inv, PositionInv, TableInv, NEW r \in Id,
         Grown(AfterResource), InsertResource
  PROVE  RowExact(r, Done(AfterResource))'
  <1>1. step = "resource" /\ step \in TxSteps /\ WriteResource(Current)
          /\ HasResource(Current)
    BY DEF InsertResource, TxSteps
  <1>2. PICK c \in Tx : c = Current
    BY <1>1, InHand
  <1>3. PICK D : D = Done(AfterResource)
    OBVIOUS
  <1>4. D \in SUBSET Tx /\ Done(AfterResource)' = D \cup {c} /\ c \notin D
    BY <1>2, <1>3, DoneInTx DEF Grown
  <1>5. Kind[c] \in ResourceKinds
    BY <1>1, <1>2, InHand
  <1>6. PICK k \in Id : k = Registers[c]
    BY <1>5, ResourceAssumption, TxAssumption
  <1>7. resources' = [resources EXCEPT ![k] =
          IF @ = Nobody \/ Kind[c] = "register_attestor_set" THEN c ELSE @]
    BY <1>1, <1>2, <1>6 DEF WriteResource
  <1>8. resources \in [Id -> Tx \cup {Nobody}] /\ Nobody \notin Tx
    BY TxAssumption DEF Inv, TypeOK
  <1>9. \A t \in D : Precedes(t, c)
    <2> SUFFICES ASSUME NEW t \in D PROVE Precedes(t, c)
      OBVIOUS
    <2>1. t \in Tx /\ Outcome[t] = "committed" /\ Behind(t)
      BY <1>1, <1>3 DEF Done, AfterResource
    <2> QED BY <1>1, <1>2, <2>1, BehindPrecedes, InHand
  <1>10. PICK R : R = {t \in D : Registers[t] = r}
    OBVIOUS
  <1>11. PICK x : x = resources[r]
    OBVIOUS
  <1>12. \/ x = Nobody /\ R = {}
         \/ /\ x \in R
            /\ \A t \in R \ {x} :
                 IF Kind[t] = "register_attestor_set" THEN Precedes(t, x)
                 ELSE Precedes(x, t)
    <2>1. RowExact(r, D)
      BY <1>3 DEF TableInv
    <2> QED BY <1>10, <1>11, <2>1 DEF RowExact
  <1>13. PICK S : S = {t \in D \cup {c} : Registers[t] = r}
    OBVIOUS
  <1>14. PICK y : y = resources'[r]
    OBVIOUS
  <1>15. \A t, u : Precedes(t, u)' <=> Precedes(t, u)
    BY DEF Precedes, Earlier, SlotOf, SlotNumber
  <1>16. SUFFICES
           \/ y = Nobody /\ S = {}
           \/ /\ y \in S
              /\ \A t \in S \ {y} :
                   IF Kind[t] = "register_attestor_set" THEN Precedes(t, y)
                   ELSE Precedes(y, t)
    BY <1>4, <1>13, <1>14, <1>15 DEF RowExact
  <1>17. CASE r # k
    <2>1. S = R /\ y = x
      BY <1>6, <1>7, <1>8, <1>10, <1>11, <1>13, <1>14, <1>17
    <2> QED BY <1>12, <2>1
  <1>18. CASE r = k
    <2>1. S = R \cup {c} /\ c \in S
      BY <1>6, <1>10, <1>13, <1>18
    <2>2. y = IF x = Nobody \/ Kind[c] = "register_attestor_set" THEN c ELSE x
      BY <1>7, <1>8, <1>11, <1>14, <1>18
    <2>3. \A t \in R : t \in D /\ Kind[t] = Kind[c]
      BY <1>4, <1>5, <1>6, <1>10, <1>18, ResourceAssumption
    <2>4. CASE x = Nobody
      <3>1. R = {}
        BY <1>4, <1>8, <1>10, <1>12, <2>4
      <3> QED BY <2>1, <2>2, <2>4, <3>1
    <2>5. CASE x # Nobody /\ Kind[c] = "register_attestor_set"
      <3>1. y = c /\ \A t \in S \ {y} : t \in R
        BY <2>1, <2>2, <2>5
      <3> QED BY <1>9, <2>1, <2>3, <2>5, <3>1
    <2>6. CASE x # Nobody /\ Kind[c] # "register_attestor_set"
      <3>1. y = x /\ x \in R /\ \A t \in R \ {x} : Precedes(x, t)
        BY <1>12, <2>2, <2>3, <2>6
      <3>2. Precedes(x, c)
        BY <1>9, <2>3, <3>1
      <3>3. \A t \in S \ {y} : Precedes(y, t)
        BY <2>1, <3>1, <3>2
      <3>4. \A t \in S : Kind[t] # "register_attestor_set"
        BY <2>1, <2>3, <2>6
      <3> QED BY <2>1, <3>1, <3>3, <3>4
    <2> QED BY <2>4, <2>5, <2>6
  <1> QED BY <1>17, <1>18

\* The rows of the ids, after any step.
LEMMA ResourcesExact ==
  ASSUME Inv, PositionInv, TableInv, Walk, NEW r \in Id
  PROVE  RowExact(r, Done(AfterResource))'
  <1>1. RowExact(r, Done(AfterResource))
    BY DEF TableInv
  <1>2. \A t, u : Precedes(t, u)' <=> Precedes(t, u)
    BY DEF Precedes, Earlier, SlotOf, SlotNumber
  <1>3. ASSUME UNCHANGED resources,
               {t \in Done(AfterResource)' : Registers[t] = r}
                 = {t \in Done(AfterResource) : Registers[t] = r}
        PROVE  RowExact(r, Done(AfterResource))'
    BY <1>1, <1>2, <1>3 DEF RowExact
  <1>4. CASE Same(AfterResource) /\ UNCHANGED resources
    BY <1>3, <1>4 DEF Same
  <1>5. CASE Grown(AfterResource) /\ InsertResource
    BY <1>5, OneMore
  <1>6. CASE /\ Grown(AfterResource) /\ UNCHANGED resources
             /\ Kind[Current] \notin ResourceKinds
    <2>1. PICK c : c = Current
      OBVIOUS
    <2>2. Done(AfterResource)' = Done(AfterResource) \cup {c}
      BY <1>6, <2>1 DEF Grown
    <2>3. c \in Tx
      <3>1. c \in Done(AfterResource)'
        BY <2>2
      <3> QED BY <3>1 DEF Done
    <2>4. Registers[c] # r
      BY <1>6, <2>1, <2>3, ResourceAssumption, TxAssumption
    <2> QED BY <1>3, <1>6, <2>2, <2>4
  <1> QED BY <1>4, <1>5, <1>6, TableMoves DEF ResourceMove

\* txs_sent_count.
LEMMA SentExact ==
  ASSUME Inv, PositionInv, TableInv, Walk, NEW a \in Addr
  PROVE  sent'[a] = Cardinality({t \in Done(AfterSender)' : Sender[t] = a})
  <1>1. PICK A : A = {t \in Done(AfterSender) : Sender[t] = a}
    OBVIOUS
  <1>2. A \in SUBSET Tx /\ sent[a] = Cardinality(A)
    BY <1>1, DoneInTx DEF TableInv
  <1>3. CASE Same(AfterSender) /\ UNCHANGED sent
    BY <1>1, <1>2, <1>3 DEF Same
  <1>4. CASE Grown(AfterSender) /\ UpdateSender
    <2>1. PICK c : c = Current
      OBVIOUS
    <2>2. Done(AfterSender)' = Done(AfterSender) \cup {c} /\ c \notin A
      BY <1>1, <1>4, <2>1 DEF Grown
    <2>3. step \in TxSteps
      BY <1>4 DEF UpdateSender, TxSteps
    <2>4. c \in Tx /\ SenderNow(c) = Sender[c]
      BY <2>1, <2>3, InHand
    <2>5. IF Sender[c] = Nobody THEN UNCHANGED sent
          ELSE sent' = [sent EXCEPT ![Sender[c]] = @ + 1]
      BY <1>4, <2>1, <2>4 DEF UpdateSender, NobodySeen, CountSender
    <2>6. sent \in [Addr -> Nat] /\ Nobody \notin Addr
      BY TxAssumption DEF Inv, TypeOK
    <2>7. CASE Sender[c] = a
      <3>1. {t \in Done(AfterSender)' : Sender[t] = a} = A \cup {c}
        BY <1>1, <2>2, <2>7
      <3>2. sent'[a] = sent[a] + 1
        BY <2>5, <2>6, <2>7
      <3> QED BY <1>2, <2>2, <3>1, <3>2, CountFacts
    <2>8. CASE Sender[c] # a
      <3>1. {t \in Done(AfterSender)' : Sender[t] = a} = A
        BY <1>1, <2>2, <2>8
      <3>2. sent'[a] = sent[a]
        BY <2>5, <2>6, <2>8
      <3> QED BY <1>2, <3>1, <3>2
    <2> QED BY <2>7, <2>8
  <1> QED BY <1>3, <1>4, TableMoves DEF SentMove

\* txs_received_count.
LEMMA ReceivedExact ==
  ASSUME Inv, PositionInv, TableInv, Walk, NEW a \in Addr
  PROVE  received'[a] =
           Cardinality({t \in Done(AfterReceiver)' : Receiver[t] = a})
  <1>1. PICK A : A = {t \in Done(AfterReceiver) : Receiver[t] = a}
    OBVIOUS
  <1>2. A \in SUBSET Tx /\ received[a] = Cardinality(A)
    BY <1>1, DoneInTx DEF TableInv
  <1>3. CASE Same(AfterReceiver) /\ UNCHANGED received
    BY <1>1, <1>2, <1>3 DEF Same
  <1>4. CASE Grown(AfterReceiver) /\ UpdateReceiver
    <2>1. PICK c : c = Current
      OBVIOUS
    <2>2. Done(AfterReceiver)' = Done(AfterReceiver) \cup {c} /\ c \notin A
      BY <1>1, <1>4, <2>1 DEF Grown
    <2>3. step \in TxSteps
      BY <1>4 DEF UpdateReceiver, TxSteps
    <2>4. c \in Tx /\ ReceiverNow(c) = Receiver[c]
      BY <2>1, <2>3, InHand
    <2>5. IF Receiver[c] = Nobody THEN UNCHANGED received
          ELSE received' = [received EXCEPT ![Receiver[c]] = @ + 1]
      BY <1>4, <2>1, <2>4 DEF UpdateReceiver, NobodySeen, CountReceiver
    <2>6. received \in [Addr -> Nat] /\ Nobody \notin Addr
      BY TxAssumption DEF Inv, TypeOK
    <2>7. CASE Receiver[c] = a
      <3>1. {t \in Done(AfterReceiver)' : Receiver[t] = a} = A \cup {c}
        BY <1>1, <2>2, <2>7
      <3>2. received'[a] = received[a] + 1
        BY <2>5, <2>6, <2>7
      <3> QED BY <1>2, <2>2, <3>1, <3>2, CountFacts
    <2>8. CASE Receiver[c] # a
      <3>1. {t \in Done(AfterReceiver)' : Receiver[t] = a} = A
        BY <1>1, <2>2, <2>8
      <3>2. received'[a] = received[a]
        BY <2>5, <2>6, <2>8
      <3> QED BY <1>2, <3>1, <3>2
    <2> QED BY <2>7, <2>8
  <1> QED BY <1>3, <1>4, TableMoves DEF ReceivedMove

\* schema_count and attestation_count.
LEMMA UsesExact ==
  ASSUME Inv, PositionInv, TableInv, Walk, NEW p \in Id
  PROVE  uses'[p] = Cardinality({t \in Done(AfterBumped)' : Parent[t] = p})
  <1>1. PICK A : A = {t \in Done(AfterBumped) : Parent[t] = p}
    OBVIOUS
  <1>2. A \in SUBSET Tx /\ uses[p] = Cardinality(A)
    BY <1>1, DoneInTx DEF TableInv
  <1>3. CASE Same(AfterBumped) /\ UNCHANGED uses
    BY <1>1, <1>2, <1>3 DEF Same
  <1>4. ASSUME Grown(AfterBumped)
        PROVE  /\ Parent[Current] = p =>
                    Cardinality({t \in Done(AfterBumped)' : Parent[t] = p})
                      = uses[p] + 1
               /\ Parent[Current] # p =>
                    Cardinality({t \in Done(AfterBumped)' : Parent[t] = p})
                      = uses[p]
    <2>1. PICK c : c = Current
      OBVIOUS
    <2>2. Done(AfterBumped)' = Done(AfterBumped) \cup {c} /\ c \notin A
      BY <1>1, <1>4, <2>1 DEF Grown
    <2>3. CASE Parent[c] = p
      <3>1. {t \in Done(AfterBumped)' : Parent[t] = p} = A \cup {c}
        BY <1>1, <2>2, <2>3
      <3> QED BY <1>2, <2>1, <2>2, <2>3, <3>1, CountFacts
    <2>4. CASE Parent[c] # p
      <3>1. {t \in Done(AfterBumped)' : Parent[t] = p} = A
        BY <1>1, <2>2, <2>4
      <3> QED BY <1>2, <2>1, <2>4, <3>1
    <2> QED BY <2>3, <2>4
  <1>5. CASE Grown(AfterBumped) /\ BumpUses
    <2>1. /\ step = "bump"
          /\ uses' = IF Stored(Parent[Current])
                     THEN [uses EXCEPT ![Parent[Current]] = @ + 1]
                     ELSE uses
      BY <1>5 DEF BumpUses
    <2>2. uses \in [Id -> Nat] /\ p # Nobody
      BY TxAssumption DEF Inv, TypeOK
    <2>3. Parent[Current] = p => Stored(Parent[Current])
      BY <2>1, <2>2, ParentThere
    <2> HIDE DEF Current
    <2> QED BY <1>4, <1>5, <2>1, <2>2, <2>3
  <1>6. CASE Grown(AfterBumped) /\ UNCHANGED uses /\ Parent[Current] = Nobody
    <2>1. p # Nobody
      BY TxAssumption
    <2> QED BY <1>4, <1>6, <2>1
  <1> QED BY <1>3, <1>5, <1>6, TableMoves DEF UsesMove

\* schemas_owned_count.
LEMMA OwnedExact ==
  ASSUME Inv, PositionInv, TableInv, Walk, NEW a \in Addr
  PROVE  owned'[a] = Cardinality({t \in Done({})' :
                       Sender[t] = a /\ Kind[t] = "register_schema"})
  <1>1. PICK A : A = {t \in Done({}) :
                        Sender[t] = a /\ Kind[t] = "register_schema"}
    OBVIOUS
  <1>2. A \in SUBSET Tx /\ owned[a] = Cardinality(A)
    BY <1>1, DoneInTx DEF TableInv
  <1>3. CASE Same({}) /\ UNCHANGED owned
    BY <1>1, <1>2, <1>3 DEF Same
  <1>4. CASE Grown({}) /\ BumpOwned
    <2>1. PICK c : c = Current
      OBVIOUS
    <2>2. Done({})' = Done({}) \cup {c} /\ c \notin A
      BY <1>1, <1>4, <2>1 DEF Grown
    <2>3. owned' = [owned EXCEPT ![Sender[c]] = @ + 1] /\ step = "owned"
      BY <1>4, <2>1 DEF BumpOwned
    <2>4. Kind[c] = "register_schema"
      BY <2>1, <2>3 DEF PositionInv
    <2>5. owned \in [Addr -> Nat]
      BY DEF Inv, TypeOK
    <2>6. CASE Sender[c] = a
      <3>1. {t \in Done({})' : Sender[t] = a /\ Kind[t] = "register_schema"}
              = A \cup {c}
        BY <1>1, <2>2, <2>4, <2>6
      <3>2. owned'[a] = owned[a] + 1
        BY <2>3, <2>5, <2>6
      <3> QED BY <1>2, <2>2, <3>1, <3>2, CountFacts
    <2>7. CASE Sender[c] # a
      <3>1. {t \in Done({})' : Sender[t] = a /\ Kind[t] = "register_schema"}
              = A
        BY <1>1, <2>2, <2>7
      <3>2. owned'[a] = owned[a]
        BY <2>3, <2>5, <2>7
      <3> QED BY <1>2, <3>1, <3>2
    <2> QED BY <2>6, <2>7
  <1>5. CASE /\ Grown({}) /\ UNCHANGED owned
             /\ Kind[Current] # "register_schema"
    <2>1. {t \in Done({})' : Sender[t] = a /\ Kind[t] = "register_schema"} = A
      BY <1>1, <1>5 DEF Grown
    <2> QED BY <1>2, <1>5, <2>1
  <1> QED BY <1>3, <1>4, <1>5, TableMoves DEF OwnedMove

\* All tables.
LEMMA TableExact ==
  ASSUME Inv, PositionInv, TableInv, Walk
  PROVE  TableInv'
  <1>1. \A t : Earlier(t)' = Earlier(t)
    BY DEF Earlier, SlotOf, SlotNumber
  <1> QED BY <1>1, RowsExact, ResourcesExact, SentExact, ReceivedExact,
             UsesExact, OwnedExact DEF TableInv

\* position_in_slot counts the transactions before the one in hand.
LEMMA PositionExact ==
  ASSUME Inv, PositionInv, TableInv, Walk
  PROVE  PositionInv'
  <1> DEFINE Goal ==
        /\ cursor' = slot' - 1
        /\ events' = TRUE
        /\ InWalk' => position' = Cardinality(Prior')
        /\ step' \in TxSteps => Outcome[Current'] # "skipped"
        /\ step' \in AfterInsert => Outcome[Current'] = "committed"
        /\ step' \in AfterResource => Kind[Current'] \in ResourceKinds
        /\ step' = "owned" => Kind[Current'] = "register_schema"
  <1> SUFFICES Goal
    BY DEF PositionInv
  <1>p. /\ cursor = slot - 1 /\ events = TRUE /\ slot \in Int
        /\ InWalk => position = Cardinality(Prior)
    BY DEF PositionInv, Inv, TypeOK
  <1>s. /\ AfterInsert \subseteq TxSteps /\ AfterResource \subseteq TxSteps
        /\ "owned" \in TxSteps /\ TxSteps \cap {"slot", "cursor", "tx"} = {}
    BY DEF AfterInsert, AfterResource, TxSteps
  \* From one transaction to the next.
  <1>a. ASSUME AtTx, UNCHANGED <<slot, batch, cursor, events>>,
               item' = item + 1, step' = "tx",
               position' = IF Outcome[Current] = "skipped" THEN position
                           ELSE position + 1
        PROVE  Goal
    <2>1. PICK c \in Tx : c = Current
      BY <1>a, AtFacts
    <2>2. ~Passed(c) /\ \A t \in Tx : Passed(t)' <=> Passed(t) \/ t = c
      BY <1>a, <2>1, AtFacts, AdvanceFacts
    <2>3. position = Cardinality(Prior)
      BY <1>a, <1>p DEF AtTx, InWalk, TxSteps
    <2>4. Prior \in SUBSET Tx /\ c \notin Prior
      BY <2>2 DEF Prior
    <2>5. Prior' = IF Outcome[c] = "skipped" THEN Prior ELSE Prior \cup {c}
      BY <2>2 DEF Prior
    <2>6. position' = Cardinality(Prior')
      <3> HIDE DEF Prior
      <3> QED BY <1>a, <2>1, <2>3, <2>4, <2>5, CountFacts
    <2> QED BY <1>a, <1>p, <1>s, <2>6
  \* On the same one.
  <1>b. ASSUME AtTx, UNCHANGED <<slot, batch, item, position, cursor, events>>,
               step' \in TxSteps
        PROVE  /\ cursor' = slot' - 1 /\ events' = TRUE
               /\ position' = Cardinality(Prior') /\ Current' = Current
    <2>1. Current' = Current /\ \A t \in Tx : Passed(t)' <=> Passed(t)
      BY <1>b, StayFacts
    <2>2. Prior' = Prior
      BY <2>1 DEF Prior
    <2>3. position = Cardinality(Prior)
      BY <1>b, <1>p DEF AtTx, InWalk, TxSteps
    <2> QED BY <1>b, <1>p, <2>1, <2>2, <2>3
  <1>h. ASSUME step \in TxSteps
        PROVE  /\ AtTx /\ KindNow(Current) = Kind[Current]
               /\ HasResource(Current) <=> Kind[Current] \in ResourceKinds
               /\ Outcome[Current] # "skipped"
    BY <1>h, InHand DEF PositionInv
  <1>n. ASSUME step \in TxSteps, NextTx, UNCHANGED <<cursor, events>>
        PROVE  Goal
    BY <1>n, <1>h, <1>a DEF NextTx
  <1>1. CASE Quiet
    <2>1. /\ step' \notin TxSteps
          /\ InWalk' /\ step # "slot" =>
               position' = position /\ \A t \in Tx : Passed(t)' <=> Passed(t)
          /\ InWalk' /\ step = "slot" =>
               position' = 0 /\ \A t \in Tx : ~Passed(t)'
      BY <1>1, QuietFacts
    <2>2. cursor' = slot' - 1 /\ events' = TRUE
      <3>1. ASSUME FetchEvents \/ FetchBatch \/ BatchDone \/ SlotDone
            PROVE  UNCHANGED <<cursor, slot>> /\ events' = TRUE
        BY <3>1, <1>p DEF FetchEvents, BeginSlot, FetchBatch, BatchDone,
                          SlotDone, place
      <3>2. CASE WriteCursor
        BY <3>2, <1>p DEF WriteCursor
      <3> QED BY <1>1, <1>p, <3>1, <3>2 DEF Quiet
    <2>3. ASSUME InWalk', step = "slot" PROVE position' = Cardinality(Prior')
      <3>1. Prior' = {}
        BY <2>1, <2>3 DEF Prior
      <3> QED BY <2>1, <2>3, <3>1, FS_EmptySet
    <2>4. ASSUME InWalk', step # "slot" PROVE position' = Cardinality(Prior')
      <3>1. Prior' = Prior
        BY <2>1, <2>4 DEF Prior
      <3>2. InWalk
        BY <1>1, <2>4 DEF Quiet, FetchEvents, BeginSlot, FetchBatch,
                          BatchDone, SlotDone, WriteCursor, InWalk
      <3> QED BY <1>p, <2>1, <2>4, <3>1, <3>2
    <2> QED BY <1>s, <2>1, <2>2, <2>3, <2>4
  <1>2. CASE FetchTx
    <2>1. AtTx
      <3>1. /\ step = "tx" /\ batch \in DOMAIN Chain[slot]
            /\ slot \in SlotNumber /\ item \in Nat /\ item > 0
            /\ item <= Len(Chain[slot][batch])
        BY <1>2 DEF FetchTx, Inv, WalkInv, TypeOK
      <3> QED BY <3>1, SlotFacts DEF AtTx
    <2>2. UNCHANGED <<slot, batch, cursor, events, position>>
      BY <1>2 DEF FetchTx
    <2>3. CASE Outcome[Current] = "skipped"
      <3>1. item' = item + 1 /\ step' = "tx"
        BY <1>2, <2>3 DEF FetchTx
      <3> QED BY <1>a, <2>1, <2>2, <2>3, <3>1
    <2>4. CASE Outcome[Current] # "skipped"
      <3>1. item' = item /\ step' = "insert" /\ step' \in TxSteps
        BY <1>2, <2>4 DEF FetchTx, TxSteps
      <3>2. step' \notin AfterInsert /\ step' \notin AfterResource
        BY <3>1 DEF AfterInsert, AfterResource
      <3> QED BY <1>b, <2>1, <2>2, <2>4, <3>1, <3>2
    <2> QED BY <2>3, <2>4
  <1>3. CASE InsertRefused \/ NoResource \/ BumpOwned
    <2>1. step \in TxSteps /\ NextTx /\ UNCHANGED <<cursor, events>>
      BY <1>3 DEF InsertRefused, NoResource, BumpOwned, TxSteps
    <2> QED BY <1>n, <2>1
  <1>4. CASE InsertTransaction
    <2>1. /\ step = "insert" /\ step \in TxSteps /\ step' = "sender"
          /\ step' \in TxSteps /\ ~InsertRejected(Current)
          /\ UNCHANGED <<slot, batch, item, position, cursor, events>>
      BY <1>4 DEF InsertTransaction, TxSteps, place
    <2>2. Outcome[Current] = "committed"
      <3>1. Outcome[Current] # "reverted" /\ Outcome[Current] # "skipped"
        BY <1>h, <2>1 DEF InsertRejected
      <3>2. PICK c \in Tx : c = Current
        BY <1>h, <2>1, AtFacts
      <3>3. Outcome[c] \in {"committed", "reverted", "skipped"}
        BY TxAssumption
      <3> QED BY <3>1, <3>2, <3>3
    <2>3. step' \notin AfterResource
      BY <2>1 DEF AfterResource
    <2> QED BY <1>b, <1>h, <2>1, <2>2, <2>3
  <1>5. ASSUME step \in AfterInsert
        PROVE  step \in TxSteps /\ Outcome[Current] = "committed"
    BY <1>5, <1>s DEF PositionInv
  <1>6. CASE UpdateSender \/ UpdateReceiver
    <2>1. /\ step \in AfterInsert /\ step' \in {"receiver", "resource"}
          /\ step' \in TxSteps
          /\ UNCHANGED <<slot, batch, item, position, cursor, events>>
      BY <1>6 DEF UpdateSender, UpdateReceiver, TxSteps, place, AfterInsert
    <2>2. step' \notin AfterResource
      BY <2>1 DEF AfterResource
    <2> QED BY <1>5, <1>b, <1>h, <2>1, <2>2
  <1>7. CASE InsertResource
    <2>1. /\ step = "resource" /\ step \in AfterInsert
          /\ UNCHANGED <<cursor, events>> /\ HasResource(Current)
          /\ NextTx \/ (step' = "bump" /\ UNCHANGED place)
      BY <1>7 DEF InsertResource, AfterInsert
    <2>2. CASE NextTx
      BY <1>5, <1>n, <2>1, <2>2
    <2>3. CASE step' = "bump" /\ UNCHANGED place
      <3>1. /\ step' \in TxSteps
            /\ UNCHANGED <<slot, batch, item, position, cursor, events>>
        BY <2>1, <2>3 DEF TxSteps, place
      <3> QED BY <1>5, <1>b, <1>h, <2>1, <2>3, <3>1
    <2> QED BY <2>1, <2>2, <2>3
  <1>8. CASE BumpUses
    <2>1. /\ step = "bump" /\ step \in AfterInsert /\ step \in AfterResource
          /\ UNCHANGED <<cursor, events>>
          /\ \/ NextTx
             \/ /\ KindNow(Current) = "register_schema"
                /\ step' = "owned" /\ UNCHANGED place
      BY <1>8 DEF BumpUses, AfterBump, AfterInsert, AfterResource
    <2>2. CASE NextTx
      BY <1>5, <1>n, <2>1, <2>2
    <2>3. CASE /\ KindNow(Current) = "register_schema"
               /\ step' = "owned" /\ UNCHANGED place
      <3>1. /\ step' \in TxSteps
            /\ UNCHANGED <<slot, batch, item, position, cursor, events>>
        BY <2>1, <2>3 DEF TxSteps, place
      <3>2. Kind[Current] \in ResourceKinds
        BY <2>1 DEF PositionInv
      <3> QED BY <1>5, <1>b, <1>h, <2>1, <2>3, <3>1, <3>2
    <2> QED BY <2>1, <2>2, <2>3
  <1> QED BY <1>1, <1>2, <1>3, <1>4, <1>6, <1>7, <1>8 DEF Walk, Quiet

-----------------------------------------------------------------------------
\* Nothing is behind the walk when it starts.
LEMMA ExactInit == Init => ExactInv
  <1> SUFFICES ASSUME Init PROVE PositionInv /\ TableInv
    BY DEF ExactInv
  <1>1. PositionInv
    BY DEF Init, PositionInv, InWalk, TxSteps, AfterInsert, AfterResource
  <1>2. \A t \in Tx : SlotOf(t) \in Int /\ SlotOf(t) > 0
    BY SlotOfType, TxAssumption DEF SlotNumber
  <1>3. \A after : "slot" \notin after => Done(after) = {}
    BY <1>2 DEF Init, Done, Behind, InWalk
  <1>4. /\ Done(AfterInsert) = {} /\ Done(AfterSender) = {}
        /\ Done(AfterReceiver) = {} /\ Done(AfterResource) = {}
        /\ Done(AfterBumped) = {} /\ Done({}) = {}
    BY <1>3 DEF AfterInsert, AfterSender, AfterReceiver, AfterResource,
                AfterBumped
  <1>5. Cardinality({}) = 0
    BY FS_EmptySet
  <1>6. \A t \in Tx : ~Recorded(t)
    BY DEF Init, Recorded
  <1>7. \A r \in Id : RowExact(r, Done(AfterResource))
    BY <1>4 DEF Init, RowExact
  <1>8. TableInv
    BY <1>4, <1>5, <1>6, <1>7 DEF Init, TableInv
  <1> QED BY <1>1, <1>8

\* A step that takes a fault is counted.
LEMMA FaultCounted ==
  ASSUME Inv, FaultStep
  PROVE  faults' # 0
  <1>1. faults' = faults + 1 /\ faults \in Nat
    BY DEF FaultStep, EventsNotFound, BatchNotFound, TxNotFound, FetchFailure,
           InsertFailure, SummaryFailure, ResourceFailure, BumpUsesFailure,
           BumpOwnedFailure, WriteCursorFailure, Crash, Fault, Inv, TypeOK
  <1> QED BY <1>1

\* A step that leaves the faults at zero is a step of the walk.
LEMMA ExactStep ==
  ASSUME Inv, ExactInv, [Next]_vars
  PROVE  ExactInv'
  <1> SUFFICES ASSUME faults' = 0 PROVE PositionInv' /\ TableInv'
    BY DEF ExactInv
  <1>1. CASE UNCHANGED vars
    <2>1. PositionInv /\ TableInv
      BY <1>1 DEF vars, ExactInv
    <2>2. Current' = Current
      BY <1>1 DEF vars, Current
    <2>3. /\ \A t \in Tx : SlotOf(t)' = SlotOf(t)
          /\ \A t \in Tx : Earlier(t)' = Earlier(t)
      BY DEF Earlier, SlotOf, SlotNumber
    <2>4. \A t \in Tx : Passed(t)' <=> Passed(t)
      BY <1>1 DEF vars, Passed
    <2>5. \A t \in Tx : Behind(t)' <=> Behind(t)
      BY <1>1, <2>3, <2>4 DEF vars, Behind, InWalk
    <2>6. Prior' = Prior
      BY <2>4 DEF Prior
    <2>7. PositionInv'
      BY <1>1, <2>1, <2>2, <2>6 DEF vars, PositionInv, InWalk
    <2>8. \A after : Done(after)' = Done(after)
      BY <1>1, <2>2, <2>5 DEF vars, Done
    <2>9. TableInv'
      <3>1. /\ UNCHANGED <<txs, kinds, resources, uses, sent, received>>
            /\ UNCHANGED owned
        BY <1>1 DEF vars
      <3>2. \A t \in Done(AfterInsert) : t \in Tx
        BY DoneInTx
      <3>3. \A t, u : Precedes(t, u)' <=> Precedes(t, u)
        BY DEF Precedes, Earlier, SlotOf, SlotNumber
      <3>4. ASSUME NEW r \in Id PROVE RowExact(r, Done(AfterResource))'
        <4>1. RowExact(r, Done(AfterResource))
          BY <2>1 DEF TableInv
        <4> QED BY <2>8, <3>1, <3>3, <4>1 DEF RowExact
      <3> QED BY <2>1, <2>3, <2>8, <3>1, <3>2, <3>4 DEF TableInv, Recorded
    <2> QED BY <2>7, <2>9
  <1>2. CASE Walk
    <2>1. faults' = faults
      BY <1>2 DEF Walk, FetchEvents, BeginSlot, FetchBatch, FetchTx,
                  BatchDone, SlotDone, InsertTransaction, InsertRefused,
                  UpdateSender, UpdateReceiver, InsertResource, NoResource,
                  BumpUses, BumpOwned, WriteCursor
    <2>2. PositionInv /\ TableInv
      BY <2>1 DEF ExactInv
    <2> QED BY <1>2, <2>2, TableExact, PositionExact
  <1>3. CASE FaultStep
    BY <1>3, FaultCounted
  <1> QED BY <1>1, <1>2, <1>3 DEF Next

\* A walk that takes no fault leaves nothing out, counts nothing twice and
\* puts every row at its place, for every chain: whatever its slots, batches
\* and transactions, whoever names whom, and however often an id is
\* registered (ingest_slot_transactions,
\* update_address_summaries, insert_resource_rows).
THEOREM FaultFreeIsExact == Spec => []FaultFreeExact
  <1>1. Init => Inv /\ ExactInv
    BY InitInv, ExactInit
  <1>2. Inv /\ ExactInv /\ [Next]_vars => Inv' /\ ExactInv'
    BY ExactStep, TypeStep, PlaceStep, RowStep, AnchoredStep, SeenStep DEF Inv
  <1>3. Inv /\ ExactInv => FaultFreeExact
    <2> SUFFICES ASSUME Inv, ExactInv, faults = 0, step = "slot"
                 PROVE  FaultFreeExact
      BY DEF FaultFreeExact
    <2>1. PositionInv /\ TableInv
      BY DEF ExactInv
    <2>2. PICK done : done = {t \in Tx : SlotOf(t) <= cursor
                                         /\ Outcome[t] = "committed"}
      OBVIOUS
    <2>3. \A t \in Tx : Behind(t) <=> SlotOf(t) <= cursor
      <3>1. \A t \in Tx : SlotOf(t) \in Int
        BY SlotOfType, SlotFacts
      <3>2. cursor = slot - 1 /\ slot \in Int
        BY <2>1 DEF PositionInv, Inv, TypeOK
      <3> QED BY <3>1, <3>2 DEF Behind, InWalk
    <2>4. \A after : "slot" \notin after => Done(after) = done
      BY <2>2, <2>3 DEF Done
    <2>5. /\ Done(AfterInsert) = done /\ Done(AfterSender) = done
          /\ Done(AfterReceiver) = done /\ Done(AfterResource) = done
          /\ Done(AfterBumped) = done /\ Done({}) = done
      BY <2>4 DEF AfterInsert, AfterSender, AfterReceiver, AfterResource,
                  AfterBumped
    <2>6. /\ \A t \in done :
               txs[t] = Cardinality(Earlier(t)) /\ kinds[t] = Kind[t]
          /\ \A r \in Id : RowExact(r, done)
          /\ \A p \in Id : uses[p] = Cardinality({t \in done : Parent[t] = p})
          /\ \A a \in Addr :
               /\ sent[a] = Cardinality({t \in done : Sender[t] = a})
               /\ received[a] = Cardinality({t \in done : Receiver[t] = a})
               /\ owned[a] = Cardinality({t \in done :
                    Sender[t] = a /\ Kind[t] = "register_schema"})
      BY <2>1, <2>5 DEF TableInv
    <2> QED BY <2>2, <2>6 DEF FaultFreeExact
  <1> QED BY <1>1, <1>2, <1>3, PTL DEF Spec
=============================================================================
