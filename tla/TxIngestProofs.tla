--------------------------- MODULE TxIngestProofs ---------------------------
(***************************************************************************)
(* Proofs about module TxIngest: whatever chain is walked, whatever fails  *)
(* and however often slots are walked again, every resource row hangs on   *)
(* a transaction's row and on its parent's, first_seen and last_seen are *)
(* exact, the counters are bounded by the passes, and the walk implements  *)
(* Catalog.                                                                *)
(*                                                                         *)
(* None of this follows from the tables alone.  What a statement may       *)
(* assume about the earlier ones of the same transaction is in RowInv: the *)
(* row was written before the counters and the resource row are, and so    *)
(* was its sender.                                                         *)
(***************************************************************************)
EXTENDS TxIngest, FiniteSetTheorems, TLAPS

\* The steps that work on the transaction at `place`.
TxSteps == {"insert", "sender", "receiver", "resource", "bump", "owned"}

\* Where the walk is, it is in the chain.
WalkInv ==
  /\ batch > 0
  /\ item > 0
  /\ step # "slot" => slot \in SlotNumber
  /\ step \in TxSteps \cup {"tx"} => batch \in DOMAIN Chain[slot]
  /\ step \in TxSteps => item \in DOMAIN Chain[slot][batch]

\* What the earlier statements of the current transaction have done.
RowInv ==
  /\ step \in TxSteps \ {"insert"} =>
       /\ Recorded(Current)
       /\ SenderNow(Current) # Nobody => Current \in signed
  /\ step = "owned" => KindNow(Current) = "register_schema"

\* The inductive invariant.
Inv == TypeOK /\ WalkInv /\ RowInv /\ ResourcesAnchored /\ SeenExact

-----------------------------------------------------------------------------
\* The transaction in hand is a transaction of the slot in hand.
LEMMA CurrentFacts ==
  ASSUME TypeOK, WalkInv, step \in TxSteps
  PROVE  /\ Current \in Tx
         /\ slot \in SlotNumber
         /\ SlotOf(Current) = slot
  <1>1. slot \in SlotNumber /\ batch \in DOMAIN Chain[slot]
          /\ item \in DOMAIN Chain[slot][batch]
    BY DEF WalkInv, TxSteps
  <1>2. Chain[slot] \in Seq(Seq(Tx))
    BY <1>1, TxAssumption DEF SlotNumber
  <1>3. Chain[slot][batch] \in Seq(Tx)
    BY <1>1, <1>2
  <1>4. Current \in Tx
    BY <1>1, <1>3 DEF Current
  <1>5. DOMAIN Chain = SlotNumber
    BY TxAssumption DEF SlotNumber
  <1>6. \A s \in SlotNumber :
          (\E b \in DOMAIN Chain[s] : \E i \in DOMAIN Chain[s][b] :
             Chain[s][b][i] = Current) => s = slot
    <2>1. \A s, r \in DOMAIN Chain :
            \A b \in DOMAIN Chain[s], c \in DOMAIN Chain[r] :
              \A i \in DOMAIN Chain[s][b], j \in DOMAIN Chain[r][c] :
                Chain[s][b][i] = Chain[r][c][j] => s = r
      BY PlaceAssumption
    <2> SUFFICES ASSUME NEW s \in SlotNumber, NEW b \in DOMAIN Chain[s],
                        NEW i \in DOMAIN Chain[s][b], Chain[s][b][i] = Current
                 PROVE  s = slot
      OBVIOUS
    <2> QED BY <1>1, <1>5, <2>1 DEF Current
  <1>7. \E b \in DOMAIN Chain[slot] : \E i \in DOMAIN Chain[slot][b] :
          Chain[slot][b][i] = Current
    BY <1>1 DEF Current
  <1>8. SlotOf(Current) = slot
    <2> DEFINE P(s) == \E b \in DOMAIN Chain[s] :
                         \E i \in DOMAIN Chain[s][b] :
                           Chain[s][b][i] = Current
    <2>1. P(slot) /\ \A s \in SlotNumber : P(s) => s = slot
      BY <1>6, <1>7
    <2>2. (CHOOSE s \in SlotNumber : P(s)) = slot
      <3> HIDE DEF P
      <3> QED BY <1>1, <2>1, Zenon
    <2> QED BY <2>2 DEF SlotOf
  <1> QED BY <1>1, <1>4, <1>8

\* Who the transaction in hand names.
LEMMA NameFacts ==
  ASSUME TypeOK, Current \in Tx
  PROVE  /\ KindNow(Current) \in Kinds
         /\ SenderNow(Current) # Nobody =>
              /\ SenderNow(Current) \in Addr
              /\ SenderNow(Current) = Sender[Current]
         /\ ReceiverNow(Current) # Nobody => ReceiverNow(Current) \in Addr
         /\ HasResource(Current) => SenderNow(Current) # Nobody
         /\ KindNow(Current) = "register_schema" =>
              HasResource(Current) /\ Sender[Current] \in Addr
         /\ Parent[Current] \in Id \cup {Nobody}
         /\ HasResource(Current) => Registers[Current] \in Id
         /\ Parent[Current] = Nobody \/ Kind[Current] # "register_attestor_set"
  <1>1. /\ Kind[Current] \in Kinds
        /\ Sender[Current] \in Addr \cup {Nobody}
        /\ Receiver[Current] \in Addr \cup {Nobody}
        /\ Parent[Current] \in Id \cup {Nobody}
        /\ Registers[Current] \in Id \cup {Nobody}
    BY TxAssumption
  <1>2. /\ Kind[Current] \in ResourceKinds =>
             Sender[Current] # Nobody /\ Registers[Current] # Nobody
        /\ Parent[Current] = Nobody \/ Kind[Current] # "register_attestor_set"
    BY SenderAssumption, ResourceAssumption
  <1> HIDE DEF Current
  <1> QED BY <1>1, <1>2
          DEF KindNow, SenderNow, ReceiverNow, HasResource, Kinds,
              ResourceKinds

\* Initially nothing is written.
LEMMA InitInv == Init => Inv
  <1> SUFFICES ASSUME Init PROVE Inv
    OBVIOUS
  <1>1. Len(Chain) \in Nat
    BY TxAssumption
  <1>2. TypeOK
    BY <1>1 DEF Init, TypeOK, Steps, Kinds, NoRow, NeverSeen, SlotNumber
  <1>3. WalkInv /\ RowInv
    BY DEF Init, WalkInv, RowInv, TxSteps
  <1>4. ResourcesAnchored
    BY DEF Init, ResourcesAnchored, Stored
  <1>5. SeenExact
    BY DEF Init, SeenExact
  <1> QED BY <1>2, <1>3, <1>4, <1>5 DEF Inv

-----------------------------------------------------------------------------
(***************************************************************************)
(* What a step may do to the tables, whichever action it is.               *)
(***************************************************************************)
RowEffect ==
  \/ step = "insert" /\ ~InsertRejected(Current) /\ WriteTx(Current)
  \/ UNCHANGED txRow

ResourceEffect ==
  \/ /\ step = "resource" /\ HasResource(Current) /\ ForeignKeyHolds(Current)
     /\ WriteResource(Current)
     /\ UNCHANGED txRow
  \/ UNCHANGED resources

UsesEffect ==
  \/ /\ step = "bump" /\ Stored(Parent[Current])
     /\ uses' = [uses EXCEPT ![Parent[Current]] = @ + 1]
     /\ UNCHANGED resources
  \/ UNCHANGED uses

SentEffect ==
  \/ /\ step = "sender" /\ SenderNow(Current) # Nobody
     /\ sent' = [sent EXCEPT ![SenderNow(Current)] = @ + 1]
  \/ UNCHANGED sent

ReceivedEffect ==
  \/ /\ step = "receiver" /\ ReceiverNow(Current) # Nobody
     /\ received' = [received EXCEPT ![ReceiverNow(Current)] = @ + 1]
  \/ UNCHANGED received

OwnedEffect ==
  \/ \E a \in Addr : owned' = [owned EXCEPT ![a] = @ + 1]
  \/ UNCHANGED owned

SeenEffect ==
  \/ \E a \in Addr : slot \in SlotNumber /\ Seen(a)
  \/ UNCHANGED <<firstSeen, lastSeen, active>>

\* Action by action: every step has these effects.
LEMMA Effects ==
  ASSUME Inv, [Next]_vars
  PROVE  /\ RowEffect /\ ResourceEffect /\ UsesEffect
         /\ SentEffect /\ ReceivedEffect /\ OwnedEffect /\ SeenEffect
  <1> DEFINE Effect == /\ RowEffect /\ ResourceEffect /\ UsesEffect
                       /\ SentEffect /\ ReceivedEffect /\ OwnedEffect
                       /\ SeenEffect
  <1> SUFFICES Effect
    OBVIOUS
  <1>u. UNCHANGED tables /\ UNCHANGED active => Effect
    BY DEF tables, txRow, RowEffect, ResourceEffect, UsesEffect, SentEffect,
           ReceivedEffect, OwnedEffect, SeenEffect
  <1>c. ASSUME step \in TxSteps
        PROVE  /\ Current \in Tx /\ slot \in SlotNumber
               /\ KindNow(Current) \in Kinds
               /\ SenderNow(Current) # Nobody => SenderNow(Current) \in Addr
               /\ ReceiverNow(Current) # Nobody =>
                    ReceiverNow(Current) \in Addr
               /\ KindNow(Current) = "register_schema" =>
                    Sender[Current] \in Addr
    BY <1>c, CurrentFacts, NameFacts DEF Inv
  <1>1. ASSUME UNCHANGED vars PROVE Effect
    BY <1>1, <1>u DEF vars, tables
  <1>2. ASSUME FetchEvents \/ EventsNotFound PROVE Effect
    BY <1>2, <1>u DEF FetchEvents, EventsNotFound, BeginSlot
  <1>3. ASSUME BatchNotFound PROVE Effect
    BY <1>3, <1>u DEF BatchNotFound
  <1>4. ASSUME TxNotFound PROVE Effect
    BY <1>4, <1>u DEF TxNotFound
  <1>5. ASSUME FetchFailure PROVE Effect
    BY <1>5, <1>u DEF FetchFailure
  <1>6. ASSUME FetchBatch PROVE Effect
    BY <1>6, <1>u DEF FetchBatch
  <1>7. ASSUME FetchTx PROVE Effect
    BY <1>7, <1>u DEF FetchTx
  <1>8. ASSUME BatchDone PROVE Effect
    BY <1>8, <1>u DEF BatchDone
  <1>9. ASSUME SlotDone PROVE Effect
    BY <1>9, <1>u DEF SlotDone
  <1>10. ASSUME InsertRefused PROVE Effect
    BY <1>10, <1>u DEF InsertRefused
  <1>11. ASSUME NoResource PROVE Effect
    BY <1>11, <1>u DEF NoResource
  <1>12. ASSUME BumpUsesFailure PROVE Effect
    BY <1>12, <1>u DEF BumpUsesFailure
  <1>13. ASSUME BumpOwnedFailure PROVE Effect
    BY <1>13, <1>u DEF BumpOwnedFailure
  <1>14. ASSUME WriteCursor PROVE Effect
    BY <1>14, <1>u DEF WriteCursor
  <1>15. ASSUME WriteCursorFailure PROVE Effect
    BY <1>15, <1>u DEF WriteCursorFailure
  <1>16. ASSUME Crash PROVE Effect
    BY <1>16, <1>u DEF Crash
  <1>17. ASSUME InsertTransaction \/ InsertFailure PROVE Effect
    BY <1>17 DEF InsertTransaction, InsertFailure, txRow,
           RowEffect, ResourceEffect, UsesEffect, SentEffect,
           ReceivedEffect, OwnedEffect, SeenEffect
  <1>18. ASSUME UpdateSender \/ UpdateReceiver \/ SummaryFailure PROVE Effect
    <2>1. step \in TxSteps
      BY <1>18 DEF UpdateSender, UpdateReceiver, SummaryFailure, TxSteps
    <2> HIDE DEF Current, KindNow, Seen
    <2> QED BY <1>18, <1>c, <2>1
            DEF UpdateSender, UpdateReceiver, SummaryFailure, NobodySeen,
                CountSender, CountReceiver, txRow, RowEffect,
                ResourceEffect, UsesEffect, SentEffect, ReceivedEffect,
                OwnedEffect, SeenEffect
  <1>19. ASSUME InsertResource \/ ResourceFailure PROVE Effect
    BY <1>19 DEF InsertResource, ResourceFailure, txRow,
           RowEffect, ResourceEffect, UsesEffect, SentEffect,
           ReceivedEffect, OwnedEffect, SeenEffect
  <1>20. ASSUME BumpUses PROVE Effect
    BY <1>20
    DEF BumpUses, txRow, RowEffect, ResourceEffect, UsesEffect, SentEffect,
        ReceivedEffect, OwnedEffect, SeenEffect
  <1>21. ASSUME BumpOwned PROVE Effect
    <2>1. step = "owned" /\ step \in TxSteps
      BY <1>21 DEF BumpOwned, TxSteps
    <2>2. Sender[Current] \in Addr /\ slot \in SlotNumber
      BY <2>1, <1>c DEF Inv, RowInv
    <2> QED BY <1>21, <2>2
            DEF BumpOwned, txRow, RowEffect, ResourceEffect, UsesEffect,
                SentEffect, ReceivedEffect, OwnedEffect, SeenEffect
  <1> QED
    BY <1>1, <1>2, <1>3, <1>4, <1>5, <1>6, <1>7, <1>8, <1>9, <1>10, <1>11,
       <1>12, <1>13, <1>14, <1>15, <1>16, <1>17, <1>18, <1>19, <1>20, <1>21
    DEF Next, Walk, FaultStep

-----------------------------------------------------------------------------
(***************************************************************************)
(* The invariant is preserved, part by part.                               *)
(***************************************************************************)
LEMMA PlaceStep ==
  ASSUME Inv, [Next]_vars
  PROVE  /\ cursor' \in 0..Len(Chain) /\ slot' \in 1..(Len(Chain) + 1)
         /\ batch' \in Nat /\ item' \in Nat /\ position' \in Nat
         /\ step' \in Steps /\ events' \in BOOLEAN
         /\ passes' \in [SlotNumber -> Nat] /\ faults' \in Nat
         /\ WalkInv'
  <1> DEFINE Goal ==
        /\ cursor' \in 0..Len(Chain) /\ slot' \in 1..(Len(Chain) + 1)
        /\ batch' \in Nat /\ item' \in Nat /\ position' \in Nat
        /\ step' \in Steps /\ events' \in BOOLEAN
        /\ passes' \in [SlotNumber -> Nat] /\ faults' \in Nat
        /\ WalkInv'
  <1> SUFFICES Goal
    OBVIOUS
  <1>t. /\ cursor \in 0..Len(Chain) /\ slot \in 1..(Len(Chain) + 1)
        /\ batch \in Nat /\ item \in Nat /\ position \in Nat
        /\ step \in Steps /\ events \in BOOLEAN
        /\ passes \in [SlotNumber -> Nat] /\ faults \in Nat
        /\ WalkInv
    BY DEF Inv, TypeOK
  <1>n. Len(Chain) \in Nat
    BY TxAssumption
  <1>d. ASSUME slot \in SlotNumber
        PROVE  /\ Len(Chain[slot]) \in Nat
               /\ DOMAIN Chain[slot] = 1..Len(Chain[slot])
               /\ \A b \in DOMAIN Chain[slot] :
                    /\ Len(Chain[slot][b]) \in Nat
                    /\ DOMAIN Chain[slot][b] = 1..Len(Chain[slot][b])
    <2>1. Chain[slot] \in Seq(Seq(Tx))
      BY <1>d, TxAssumption DEF SlotNumber
    <2>2. \A b \in DOMAIN Chain[slot] : Chain[slot][b] \in Seq(Tx)
      BY <2>1
    <2> QED BY <2>1, <2>2
  <1>1. ASSUME UNCHANGED vars PROVE Goal
    BY <1>1, <1>t, <1>n, <1>d
    DEF vars, WalkInv, Steps, TxSteps, SlotNumber
  <1>2. ASSUME FetchEvents PROVE Goal
    BY <1>2, <1>t, <1>n, <1>d
    DEF FetchEvents, BeginSlot, WalkInv, Steps, TxSteps, SlotNumber
  <1>3. ASSUME EventsNotFound PROVE Goal
    <2>1. faults' \in Nat
      BY <1>3, <1>t DEF EventsNotFound, Fault
    <2>2. BeginSlot(FALSE)
      BY <1>3 DEF EventsNotFound
    <2>3. events' \in BOOLEAN
      BY <2>2 DEF BeginSlot
    <2>4. /\ step = "slot" /\ slot <= Len(Chain) /\ step' = "batch"
          /\ passes' = [passes EXCEPT ![slot] = @ + 1]
          /\ batch' = 1 /\ position' = 0 /\ UNCHANGED <<cursor, slot, item>>
      BY <2>2 DEF BeginSlot
    <2> QED BY <2>1, <2>3, <2>4, <1>t, <1>n
            DEF WalkInv, Steps, TxSteps, SlotNumber
  <1>a. ASSUME step \in TxSteps, NextTx, UNCHANGED <<events, cursor, passes>>,
               faults' \in Nat
        PROVE  Goal
    BY <1>a, <1>t, <1>n, <1>d
    DEF NextTx, WalkInv, Steps, TxSteps, SlotNumber
  <1>b. ASSUME step \in TxSteps, step' \in TxSteps, UNCHANGED place,
               UNCHANGED <<events, cursor, passes>>, faults' \in Nat
        PROVE  Goal
    BY <1>b, <1>t, <1>n, <1>d
    DEF place, WalkInv, Steps, TxSteps, SlotNumber
  <1>4. ASSUME FetchBatch PROVE Goal
    BY <1>4, <1>t, <1>n, <1>d
    DEF FetchBatch, WalkInv, Steps, TxSteps, SlotNumber
  <1>5. ASSUME FetchTx PROVE Goal
    <2>1. /\ step = "tx" /\ slot \in SlotNumber
          /\ batch \in DOMAIN Chain[slot]
          /\ item <= Len(Chain[slot][batch])
          /\ UNCHANGED <<cursor, slot, batch, position, events, passes,
                         faults>>
      BY <1>5, <1>t DEF FetchTx, WalkInv
    <2>2. \/ item' = item + 1 /\ step' = "tx"
          \/ item' = item /\ step' = "insert"
      BY <1>5 DEF FetchTx
    <2>3. item \in DOMAIN Chain[slot][batch]
      BY <1>d, <1>t, <2>1 DEF WalkInv
    <2>4. step' \in Steps /\ item' \in Nat /\ item' > 0
      BY <1>t, <2>2 DEF Steps, WalkInv
    <2>5. WalkInv'
      <3>1. step' \in TxSteps => item' = item
        BY <2>2 DEF TxSteps
      <3> QED BY <1>t, <2>1, <2>3, <2>4, <3>1 DEF WalkInv
    <2> QED BY <1>t, <2>1, <2>4, <2>5
  <1>6. ASSUME BatchDone PROVE Goal
    BY <1>6, <1>t, <1>n, <1>d
    DEF BatchDone, WalkInv, Steps, TxSteps, SlotNumber
  <1>7. ASSUME SlotDone PROVE Goal
    BY <1>7, <1>t, <1>n, <1>d
    DEF SlotDone, place, WalkInv, Steps, TxSteps, SlotNumber
  <1>8. ASSUME InsertTransaction PROVE Goal
    <2>1. /\ step \in TxSteps /\ step' \in TxSteps /\ UNCHANGED place
          /\ UNCHANGED <<events, cursor, passes>> /\ faults' \in Nat
      BY <1>8, <1>t DEF InsertTransaction, TxSteps
    <2> QED BY <1>b, <2>1
  <1>9. ASSUME InsertRefused PROVE Goal
    <2>1. /\ step \in TxSteps /\ NextTx
          /\ UNCHANGED <<events, cursor, passes>> /\ faults' \in Nat
      BY <1>9, <1>t DEF InsertRefused, TxSteps
    <2> QED BY <1>a, <2>1
  <1>10. ASSUME UpdateSender PROVE Goal
    <2>1. /\ step \in TxSteps /\ step' \in TxSteps /\ UNCHANGED place
          /\ UNCHANGED <<events, cursor, passes>> /\ faults' \in Nat
      BY <1>10, <1>t DEF UpdateSender, TxSteps
    <2> QED BY <1>b, <2>1
  <1>11. ASSUME UpdateReceiver PROVE Goal
    <2>1. /\ step \in TxSteps /\ step' \in TxSteps /\ UNCHANGED place
          /\ UNCHANGED <<events, cursor, passes>> /\ faults' \in Nat
      BY <1>11, <1>t DEF UpdateReceiver, TxSteps
    <2> QED BY <1>b, <2>1
  <1>12. ASSUME InsertResource PROVE Goal
    <2>1. /\ step \in TxSteps
          /\ NextTx \/ (step' \in TxSteps /\ UNCHANGED place)
          /\ UNCHANGED <<events, cursor, passes>> /\ faults' \in Nat
      BY <1>12, <1>t DEF InsertResource, TxSteps
    <2> QED BY <1>a, <1>b, <2>1
  <1>13. ASSUME NoResource PROVE Goal
    <2>1. /\ step \in TxSteps /\ NextTx
          /\ UNCHANGED <<events, cursor, passes>> /\ faults' \in Nat
      BY <1>13, <1>t DEF NoResource, TxSteps
    <2> QED BY <1>a, <2>1
  <1>14. ASSUME BumpUses PROVE Goal
    <2>1. /\ step \in TxSteps
          /\ NextTx \/ (step' \in TxSteps /\ UNCHANGED place)
          /\ UNCHANGED <<events, cursor, passes>> /\ faults' \in Nat
      BY <1>14, <1>t DEF BumpUses, AfterBump, TxSteps
    <2> QED BY <1>a, <1>b, <2>1
  <1>15. ASSUME BumpOwned PROVE Goal
    <2>1. /\ step \in TxSteps /\ NextTx
          /\ UNCHANGED <<events, cursor, passes>> /\ faults' \in Nat
      BY <1>15, <1>t DEF BumpOwned, TxSteps
    <2> QED BY <1>a, <2>1
  <1>16. ASSUME WriteCursor PROVE Goal
    BY <1>16, <1>t, <1>n, <1>d
    DEF WriteCursor, WalkInv, Steps, TxSteps, SlotNumber
  <1>17. ASSUME BatchNotFound PROVE Goal
    BY <1>17, <1>t, <1>n, <1>d
    DEF BatchNotFound, Fault, WalkInv, Steps, TxSteps, SlotNumber
  <1>18. ASSUME TxNotFound PROVE Goal
    BY <1>18, <1>t, <1>n, <1>d
    DEF TxNotFound, Fault, WalkInv, Steps, TxSteps, SlotNumber
  <1>19. ASSUME FetchFailure PROVE Goal
    BY <1>19, <1>t, <1>n, <1>d
    DEF FetchFailure, Fault, place, WalkInv, Steps, TxSteps, SlotNumber
  <1>20. ASSUME InsertFailure PROVE Goal
    <2>1. /\ step \in TxSteps /\ NextTx
          /\ UNCHANGED <<events, cursor, passes>> /\ faults' \in Nat
      BY <1>20, <1>t DEF InsertFailure, Fault, TxSteps
    <2> QED BY <1>a, <2>1
  <1>21. ASSUME SummaryFailure PROVE Goal
    <2>1. /\ step \in TxSteps /\ step' \in TxSteps /\ UNCHANGED place
          /\ UNCHANGED <<events, cursor, passes>> /\ faults' \in Nat
      BY <1>21, <1>t DEF SummaryFailure, Fault, TxSteps
    <2> QED BY <1>b, <2>1
  <1>22. ASSUME ResourceFailure PROVE Goal
    <2>1. /\ step \in TxSteps /\ NextTx
          /\ UNCHANGED <<events, cursor, passes>> /\ faults' \in Nat
      BY <1>22, <1>t DEF ResourceFailure, Fault, TxSteps
    <2> QED BY <1>a, <2>1
  <1>23. ASSUME BumpUsesFailure PROVE Goal
    <2>1. /\ step \in TxSteps
          /\ NextTx \/ (step' \in TxSteps /\ UNCHANGED place)
          /\ UNCHANGED <<events, cursor, passes>> /\ faults' \in Nat
      BY <1>23, <1>t DEF BumpUsesFailure, AfterBump, Fault, TxSteps
    <2> QED BY <1>a, <1>b, <2>1
  <1>24. ASSUME BumpOwnedFailure PROVE Goal
    <2>1. /\ step \in TxSteps /\ NextTx
          /\ UNCHANGED <<events, cursor, passes>> /\ faults' \in Nat
      BY <1>24, <1>t DEF BumpOwnedFailure, Fault, TxSteps
    <2> QED BY <1>a, <2>1
  <1>25. ASSUME WriteCursorFailure PROVE Goal
    BY <1>25, <1>t, <1>n, <1>d
    DEF WriteCursorFailure, Fault, WalkInv, Steps, TxSteps, SlotNumber
  <1>26. ASSUME Crash PROVE Goal
    BY <1>26, <1>t, <1>n, <1>d
    DEF Crash, Fault, WalkInv, Steps, TxSteps, SlotNumber
  <1> QED
    BY <1>1, <1>2, <1>3, <1>4, <1>5, <1>6, <1>7, <1>8, <1>9, <1>10, <1>11,
       <1>12, <1>13, <1>14, <1>15, <1>16, <1>17, <1>18, <1>19, <1>20, <1>21,
       <1>22, <1>23, <1>24, <1>25, <1>26
    DEF Next, Walk, FaultStep

\* What the INSERT of a resource leaves in its table.
LEMMA ResourceWritten ==
  ASSUME TypeOK, NEW c \in Tx, Registers[c] \in Id, WriteResource(c)
  PROVE  /\ resources' \in [Id -> Tx \cup {Nobody}]
         /\ \A r \in Id \ {Registers[c]} : resources'[r] = resources[r]
         /\ resources'[Registers[c]] =
              IF resources[Registers[c]] = Nobody
                 \/ Kind[c] = "register_attestor_set"
              THEN c ELSE resources[Registers[c]]
  BY DEF TypeOK, WriteResource

\* Rows, senders and resources stay once they are written.
LEMMA Kept ==
  ASSUME Inv, [Next]_vars
  PROVE  /\ \A t \in Tx : Recorded(t) => Recorded(t)'
         /\ signed \subseteq signed'
         /\ \A r \in Id : Stored(r) => Stored(r)'
  <1>1. RowEffect /\ ResourceEffect /\ TypeOK
    BY Effects DEF Inv
  <1>2. \A r \in Id : Stored(r) => Stored(r)'
    <2>1. CASE UNCHANGED resources
      BY <2>1 DEF Stored
    <2>2. CASE step = "resource" /\ HasResource(Current)
               /\ WriteResource(Current)
      <3>1. PICK c \in Tx : c = Current
        BY <2>2, CurrentFacts DEF Inv, TxSteps
      <3>2. Registers[c] \in Id
        BY <1>1, <2>2, <3>1, NameFacts
      <3>3. c # Nobody
        BY TxAssumption
      <3>4. \A r \in Id : resources[r] # Nobody => resources'[r] # Nobody
        BY <1>1, <2>2, <3>1, <3>2, <3>3, ResourceWritten
      <3> QED BY <3>4 DEF Stored
    <2> QED BY <1>1, <2>1, <2>2 DEF ResourceEffect
  <1>3. CASE UNCHANGED txRow
    BY <1>2, <1>3 DEF txRow, Recorded
  <1>4. CASE WriteTx(Current)
    <2>1. position # NoRow
      BY <1>1 DEF TypeOK, NoRow
    <2>2. txs' = [txs EXCEPT ![Current] = position]
      BY <1>4 DEF WriteTx
    <2>3. \A t \in Tx : txs[t] # NoRow => txs'[t] # NoRow
      <3> HIDE DEF Current
      <3> QED BY <1>1, <2>1, <2>2 DEF TypeOK
    <2>4. signed \subseteq signed'
      BY <1>4 DEF WriteTx
    <2> QED BY <1>2, <2>3, <2>4 DEF Recorded
  <1> QED BY <1>1, <1>3, <1>4 DEF RowEffect

\* How the walk gets from one statement of a transaction to the next.
LEMMA Transitions ==
  ASSUME Inv, [Next]_vars, step' \in TxSteps \ {"insert"}
  PROVE  /\ UNCHANGED <<slot, batch, item, events>>
         /\ \/ step = "insert" /\ step' = "sender" /\ WriteTx(Current)
            \/ step \in {"sender", "receiver"}
                 /\ step' \in {"receiver", "resource"}
            \/ step = "resource" /\ step' = "bump"
            \/ step = "bump" /\ step' = "owned"
                 /\ KindNow(Current) = "register_schema"
            \/ UNCHANGED vars
  <1>1. \/ InsertTransaction \/ UpdateSender \/ UpdateReceiver
        \/ SummaryFailure \/ InsertResource \/ BumpUses \/ BumpUsesFailure
        \/ UNCHANGED vars
    BY DEF Next, Walk, FaultStep, TxSteps, FetchEvents, BeginSlot, FetchBatch,
           FetchTx, BatchDone, SlotDone, InsertRefused, NoResource, BumpOwned,
           WriteCursor, EventsNotFound, BatchNotFound, TxNotFound,
           FetchFailure, InsertFailure, ResourceFailure, BumpOwnedFailure,
           WriteCursorFailure, Crash, NextTx
  <1>2. CASE InsertTransaction
    BY <1>2 DEF InsertTransaction, place
  <1>3. CASE UpdateSender \/ UpdateReceiver \/ SummaryFailure
    BY <1>3 DEF UpdateSender, UpdateReceiver, SummaryFailure, place
  <1>4. CASE InsertResource
    BY <1>4 DEF InsertResource, NextTx, TxSteps, place
  <1>5. CASE BumpUses \/ BumpUsesFailure
    <2>1. step = "bump" /\ AfterBump /\ UNCHANGED events
      BY <1>5 DEF BumpUses, BumpUsesFailure
    <2> QED BY <2>1 DEF AfterBump, NextTx, TxSteps, place
  <1>6. CASE UNCHANGED vars
    BY <1>6 DEF vars
  <1> QED BY <1>1, <1>2, <1>3, <1>4, <1>5, <1>6

\* A step keeps what the earlier statements have done.
LEMMA RowStep ==
  ASSUME Inv, [Next]_vars
  PROVE  RowInv'
  <1> SUFFICES ASSUME step' \in TxSteps \ {"insert"}
               PROVE  /\ Recorded(Current)'
                      /\ SenderNow(Current)' # Nobody => Current' \in signed'
                      /\ step' = "owned" =>
                           KindNow(Current)' = "register_schema"
    BY DEF RowInv, TxSteps
  <1>1. PICK c : c = Current
    OBVIOUS
  <1>2. /\ UNCHANGED <<slot, batch, item, events>>
        /\ \/ step = "insert" /\ step' = "sender" /\ WriteTx(c)
           \/ step \in {"sender", "receiver"}
                /\ step' \in {"receiver", "resource"}
           \/ step = "resource" /\ step' = "bump"
           \/ step = "bump" /\ step' = "owned"
                /\ KindNow(c) = "register_schema"
           \/ UNCHANGED vars
    BY Transitions, <1>1
  <1>3. Current' = c
    BY <1>1, <1>2 DEF Current
  <1>4. KindNow(c)' = KindNow(c) /\ SenderNow(c)' = SenderNow(c)
    BY <1>2 DEF KindNow, SenderNow
  <1>5. step \in TxSteps
    BY <1>2 DEF TxSteps, vars
  <1>6. c \in Tx
    BY <1>1, <1>5, CurrentFacts DEF Inv
  <1>7. /\ step # "insert" =>
             Recorded(c) /\ (SenderNow(c) # Nobody => c \in signed)
        /\ step = "owned" => KindNow(c) = "register_schema"
    BY <1>1, <1>5 DEF Inv, RowInv
  <1>8. /\ Recorded(c) => Recorded(c)'
        /\ signed \subseteq signed'
    BY <1>6, Kept
  <1>9. ASSUME step = "insert" /\ WriteTx(c)
        PROVE  Recorded(c)' /\ (SenderNow(c) # Nobody => c \in signed')
    <2>1. /\ txs' = [txs EXCEPT ![c] = position]
          /\ txs \in [Tx -> Nat \cup {NoRow}] /\ position \in Nat
      BY <1>9 DEF WriteTx, Inv, TypeOK
    <2>2. SenderNow(c) # Nobody => c \in signed'
      BY <1>9 DEF WriteTx
    <2> QED BY <2>1, <2>2, <1>6 DEF Recorded, NoRow
  <1>10. Recorded(Current)' <=> Recorded(c)'
    BY <1>3 DEF Recorded
  <1>11. SenderNow(Current)' = SenderNow(c) /\ KindNow(Current)' = KindNow(c)
    BY <1>2, <1>3 DEF SenderNow, KindNow
  <1> HIDE DEF Current, KindNow, SenderNow, Recorded, WriteTx
  <1>12. CASE step = "insert" /\ step' = "sender" /\ WriteTx(c)
    BY <1>3, <1>9, <1>10, <1>11, <1>12
  <1>13. CASE step # "insert"
    BY <1>2, <1>3, <1>7, <1>8, <1>10, <1>11, <1>13 DEF vars
  <1> QED BY <1>2, <1>12, <1>13 DEF vars, TxSteps

\* A step keeps first_seen and last_seen exact.
LEMMA SeenStep ==
  ASSUME Inv, [Next]_vars
  PROVE  SeenExact'
  <1>1. SeenEffect
    BY Effects
  <1>2. CASE UNCHANGED <<firstSeen, lastSeen, active>>
    BY <1>2 DEF SeenExact, Inv
  <1>3. ASSUME NEW a \in Addr, slot \in SlotNumber, Seen(a)
        PROVE  SeenExact'
    <2> SUFFICES ASSUME NEW x \in Addr
        PROVE  IF active'[x] = {}
               THEN firstSeen'[x] = NeverSeen /\ lastSeen'[x] = NeverSeen
               ELSE /\ firstSeen'[x] \in active'[x]
                    /\ lastSeen'[x] \in active'[x]
                    /\ \A s \in active'[x] :
                         firstSeen'[x] <= s /\ s <= lastSeen'[x]
      BY DEF SeenExact
    <2>0. slot \in Nat \ {0} /\ SlotNumber \subseteq Nat \ {0}
      BY <1>3, TxAssumption DEF SlotNumber
    <2>1. /\ firstSeen[x] \in SlotNumber \cup {NeverSeen}
          /\ lastSeen[x] \in SlotNumber \cup {NeverSeen}
          /\ active[x] \subseteq SlotNumber
          /\ IF active[x] = {}
             THEN firstSeen[x] = NeverSeen /\ lastSeen[x] = NeverSeen
             ELSE /\ firstSeen[x] \in active[x] /\ lastSeen[x] \in active[x]
                  /\ \A s \in active[x] :
                       firstSeen[x] <= s /\ s <= lastSeen[x]
      BY DEF Inv, TypeOK, SeenExact
    <2>2. CASE x # a
      BY <1>3, <2>1, <2>2 DEF Seen, Inv, TypeOK
    <2>3. CASE x = a
      <3>1. /\ firstSeen'[x] = Least(firstSeen[x], slot)
            /\ lastSeen'[x] = Greatest(lastSeen[x], slot)
            /\ active'[x] = active[x] \cup {slot}
        BY <1>3, <2>3 DEF Seen, Inv, TypeOK
      <3>2. active'[x] # {}
        BY <3>1
      <3>3. CASE active[x] = {}
        BY <3>1, <3>3, <2>0, <2>1 DEF Least, Greatest, NeverSeen
      <3>4. CASE active[x] # {}
        <4>1. firstSeen[x] \in Nat \ {0} /\ lastSeen[x] \in Nat \ {0}
          BY <2>0, <2>1, <3>4
        <4>2. firstSeen'[x] \in active'[x] /\ lastSeen'[x] \in active'[x]
          BY <3>1, <3>4, <2>1 DEF Least, Greatest
        <4>3. ASSUME NEW s \in active'[x]
              PROVE  firstSeen'[x] <= s /\ s <= lastSeen'[x]
          <5>1. CASE s = slot
            BY <5>1, <4>1, <3>1, <2>0 DEF Least, Greatest, NeverSeen
          <5>2. CASE s \in active[x]
            <6>1. firstSeen[x] <= s /\ s <= lastSeen[x] /\ s \in Nat
              BY <5>2, <3>4, <2>0, <2>1
            <6> QED BY <6>1, <4>1, <3>1, <2>0 DEF Least, Greatest, NeverSeen
          <5> QED BY <5>1, <5>2, <3>1
        <4> QED BY <3>2, <4>2, <4>3
      <3> QED BY <3>3, <3>4
    <2> QED BY <2>2, <2>3
  <1> QED BY <1>1, <1>2, <1>3 DEF SeenEffect

\* A bumped counter is a counter.
LEMMA Bumped ==
  ASSUME NEW S, NEW f \in [S -> Nat], NEW x
  PROVE  [f EXCEPT ![x] = @ + 1] \in [S -> Nat]
  <1>1. CASE x \in S
    <2>1. f[x] + 1 \in Nat
      BY <1>1
    <2> QED BY <2>1
  <1>2. CASE x \notin S
    BY <1>2
  <1> QED BY <1>1, <1>2

\* A step keeps every variable in its type.
LEMMA TypeStep ==
  ASSUME Inv, [Next]_vars
  PROVE  TypeOK'
  <1>1. /\ RowEffect /\ ResourceEffect /\ UsesEffect
        /\ SentEffect /\ ReceivedEffect /\ OwnedEffect /\ SeenEffect
    BY Effects
  <1>2. TypeOK
    BY DEF Inv
  <1>c. ASSUME step \in TxSteps
        PROVE  /\ Current \in Tx /\ slot \in SlotNumber
               /\ KindNow(Current) \in Kinds
               /\ SenderNow(Current) # Nobody => SenderNow(Current) \in Addr
    BY <1>c, CurrentFacts, NameFacts DEF Inv
  <1>3. /\ txs' \in [Tx -> Nat \cup {NoRow}]
        /\ kinds' \in [Tx -> Kinds] /\ signed' \subseteq Tx
    <2>1. CASE UNCHANGED txRow
      BY <1>2, <2>1 DEF txRow, TypeOK
    <2>2. CASE step = "insert" /\ WriteTx(Current)
      <3>1. Current \in Tx /\ KindNow(Current) \in Kinds
        BY <1>c, <2>2 DEF TxSteps
      <3> HIDE DEF Current, KindNow
      <3> QED BY <1>2, <2>2, <3>1 DEF WriteTx, TypeOK
    <2> QED BY <1>1, <2>1, <2>2 DEF RowEffect
  <1>4. resources' \in [Id -> Tx \cup {Nobody}]
    <2>1. CASE UNCHANGED resources
      BY <1>2, <2>1 DEF TypeOK
    <2>2. CASE step = "resource" /\ HasResource(Current)
               /\ WriteResource(Current)
      <3>1. Current \in Tx /\ Registers[Current] \in Id
        BY <1>2, <1>c, <2>2, NameFacts DEF TxSteps
      <3> QED BY <1>2, <2>2, <3>1, ResourceWritten
    <2> QED BY <1>1, <2>1, <2>2 DEF ResourceEffect
  <1>5. uses' \in [Id -> Nat]
    <2>1. uses \in [Id -> Nat]
      BY <1>2 DEF TypeOK
    <2>2. [uses EXCEPT ![Parent[Current]] = @ + 1] \in [Id -> Nat]
      BY <2>1, Bumped
    <2> QED BY <1>1, <2>1, <2>2, Zenon DEF UsesEffect
  <1>6. sent' \in [Addr -> Nat]
    <2>1. sent \in [Addr -> Nat]
      BY <1>2 DEF TypeOK
    <2>2. [sent EXCEPT ![SenderNow(Current)] = @ + 1] \in [Addr -> Nat]
      BY <2>1, Bumped
    <2> QED BY <1>1, <2>1, <2>2, Zenon DEF SentEffect
  <1>7. received' \in [Addr -> Nat] /\ owned' \in [Addr -> Nat]
    <2>1. received' \in [Addr -> Nat]
      <3>1. received \in [Addr -> Nat]
        BY <1>2 DEF TypeOK
      <3>2. [received EXCEPT ![ReceiverNow(Current)] = @ + 1]
              \in [Addr -> Nat]
        BY <3>1, Bumped
      <3> QED BY <1>1, <3>1, <3>2, Zenon DEF ReceivedEffect
    <2>2. owned' \in [Addr -> Nat]
      <3>1. owned \in [Addr -> Nat]
        BY <1>2 DEF TypeOK
      <3>2. \A a \in Addr : [owned EXCEPT ![a] = @ + 1] \in [Addr -> Nat]
        BY <3>1, Bumped
      <3> QED BY <1>1, <3>1, <3>2, Zenon DEF OwnedEffect
    <2> QED BY <2>1, <2>2
  <1> DEFINE SeenTyped ==
        /\ firstSeen' \in [Addr -> SlotNumber \cup {NeverSeen}]
        /\ lastSeen' \in [Addr -> SlotNumber \cup {NeverSeen}]
        /\ active' \in [Addr -> SUBSET SlotNumber]
  <1>8. SeenTyped
    <2>1. CASE UNCHANGED <<firstSeen, lastSeen, active>>
      BY <1>2, <2>1 DEF TypeOK
    <2>2. ASSUME NEW a \in Addr, slot \in SlotNumber, Seen(a)
          PROVE  SeenTyped
      <3>1. firstSeen' \in [Addr -> SlotNumber \cup {NeverSeen}]
        BY <1>2, <2>2 DEF Seen, TypeOK, Least
      <3>2. lastSeen' \in [Addr -> SlotNumber \cup {NeverSeen}]
        BY <1>2, <2>2 DEF Seen, TypeOK, Greatest
      <3>3. active' \in [Addr -> SUBSET SlotNumber]
        BY <1>2, <2>2 DEF Seen, TypeOK
      <3> QED BY <3>1, <3>2, <3>3
    <2> QED BY <1>1, <2>1, <2>2 DEF SeenEffect
  <1>9. /\ cursor' \in 0..Len(Chain) /\ slot' \in 1..(Len(Chain) + 1)
        /\ batch' \in Nat /\ item' \in Nat /\ position' \in Nat
        /\ step' \in Steps /\ events' \in BOOLEAN
        /\ passes' \in [SlotNumber -> Nat] /\ faults' \in Nat
    BY PlaceStep
  <1> QED BY <1>3, <1>4, <1>5, <1>6, <1>7, <1>8, <1>9, Zenon DEF TypeOK

\* A step leaves no resource row and no counter without its row.
LEMMA AnchoredStep ==
  ASSUME Inv, [Next]_vars
  PROVE  ResourcesAnchored'
  <1>1. RowEffect /\ ResourceEffect /\ UsesEffect /\ SentEffect
    BY Effects
  <1>2. TypeOK /\ RowInv /\ ResourcesAnchored
    BY DEF Inv
  <1>3. /\ \A t \in Tx : Recorded(t) => Recorded(t)'
        /\ signed \subseteq signed'
        /\ \A r \in Id : Stored(r) => Stored(r)'
    BY Kept
  <1>c. PICK c : c = Current
    OBVIOUS
  <1>4. ASSUME step \in TxSteps \ {"insert"}
        PROVE  /\ c \in Tx /\ Recorded(c)
               /\ SenderNow(c) # Nobody =>
                    c \in signed /\ Sender[c] = SenderNow(c)
               /\ HasResource(c) => SenderNow(c) # Nobody
               /\ HasResource(c) => Registers[c] \in Id
               /\ Parent[c] \in Id \cup {Nobody}
               /\ Parent[c] = Nobody \/ Kind[c] # "register_attestor_set"
    BY <1>2, <1>4, <1>c, CurrentFacts, NameFacts DEF Inv, RowInv
  <1>p. \A t \in Tx : Parent[t] \in Id \cup {Nobody}
    BY TxAssumption
  <1>5. ASSUME NEW r \in Id, resources'[r] # Nobody
        PROVE  /\ Registers[resources'[r]] = r
               /\ txs'[resources'[r]] # NoRow
               /\ resources'[r] \in signed'
               /\ Parent[resources'[r]] # Nobody =>
                    resources'[Parent[resources'[r]]] # Nobody
    <2>1. CASE resources'[r] = resources[r]
      <3>1. PICK t : t = resources[r]
        OBVIOUS
      <3>2. Stored(r) /\ t \in Tx
        BY <1>2, <1>5, <2>1, <3>1 DEF Stored, TypeOK
      <3>3. /\ Registers[t] = r /\ Recorded(t) /\ t \in signed
            /\ Parent[t] # Nobody => Stored(Parent[t])
        BY <1>2, <3>1, <3>2 DEF ResourcesAnchored
      <3>4. /\ txs'[t] # NoRow /\ t \in signed'
            /\ Parent[t] # Nobody => resources'[Parent[t]] # Nobody
        BY <3>2, <3>3, <1>3, <1>p DEF Recorded, Stored
      <3>5. t = resources'[r]
        BY <2>1, <3>1
      <3> QED BY <3>3, <3>4, <3>5
    <2>2. CASE resources'[r] # resources[r]
      <3>1. /\ step = "resource" /\ HasResource(c) /\ ForeignKeyHolds(c)
            /\ WriteResource(c)
        BY <1>1, <1>c, <2>2 DEF ResourceEffect
      <3>2. c \in Tx /\ Recorded(c) /\ c \in signed /\ Registers[c] \in Id
        BY <3>1, <1>4 DEF TxSteps
      <3>3. /\ r = Registers[c] /\ resources'[r] = c
            /\ resources[r] = Nobody \/ Kind[c] = "register_attestor_set"
        BY <1>2, <2>2, <3>1, <3>2, ResourceWritten
      <3>4. Parent[c] # Nobody => Stored(Parent[c])
        BY <1>4, <3>1, <3>3 DEF ForeignKeyHolds, Stored, TxSteps
      <3>5. /\ txs'[c] # NoRow /\ c \in signed'
            /\ Parent[c] # Nobody => resources'[Parent[c]] # Nobody
        BY <3>2, <3>4, <1>3, <1>p DEF Recorded, Stored
      <3> QED BY <3>3, <3>5
    <2> QED BY <2>1, <2>2
  <1>6. ASSUME NEW p \in Id, uses'[p] > 0
        PROVE  Stored(p)' /\ \E t \in Tx : Parent[t] = p /\ Recorded(t)'
    <2>1. CASE uses[p] > 0
      <3>1. Stored(p) /\ \E t \in Tx : Parent[t] = p /\ Recorded(t)
        BY <2>1, <1>2 DEF ResourcesAnchored
      <3> QED BY <3>1, <1>3
    <2>2. CASE ~(uses[p] > 0)
      <3>1. /\ step = "bump" /\ Stored(Parent[c])
            /\ uses' = [uses EXCEPT ![Parent[c]] = @ + 1]
        BY <1>1, <1>6, <1>c, <2>2 DEF UsesEffect
      <3>2. p = Parent[c]
        BY <3>1, <1>2, <1>6, <2>2 DEF TypeOK
      <3>3. c \in Tx /\ Recorded(c)
        BY <3>1, <1>4 DEF TxSteps
      <3> QED BY <3>1, <3>2, <3>3, <1>3
    <2> QED BY <2>1, <2>2
  <1>7. ASSUME NEW a \in Addr, sent'[a] > 0
        PROVE  \E t \in Tx : Sender[t] = a /\ Recorded(t)'
    <2>1. CASE sent[a] > 0
      <3>1. PICK t \in Tx : Sender[t] = a /\ Recorded(t)
        BY <2>1, <1>2 DEF ResourcesAnchored
      <3> QED BY <3>1, <1>3
    <2>2. CASE ~(sent[a] > 0)
      <3>1. /\ step = "sender" /\ SenderNow(c) # Nobody
            /\ sent' = [sent EXCEPT ![SenderNow(c)] = @ + 1]
        BY <1>1, <1>7, <1>c, <2>2 DEF SentEffect
      <3>2. a = SenderNow(c)
        <4> HIDE DEF SenderNow
        <4> QED BY <3>1, <1>2, <1>7, <2>2 DEF TypeOK
      <3>3. c \in Tx /\ Recorded(c) /\ Sender[c] = SenderNow(c)
        BY <3>1, <1>4 DEF TxSteps
      <3> QED BY <3>2, <3>3, <1>3
    <2> QED BY <2>1, <2>2
  <1> QED BY <1>5, <1>6, <1>7 DEF ResourcesAnchored, Recorded, Stored

-----------------------------------------------------------------------------
(***************************************************************************)
(* Theorems.                                                               *)
(***************************************************************************)
LEMMA Invariance == Spec => []Inv
  <1>1. Init => Inv
    BY InitInv
  <1>2. Inv /\ [Next]_vars => Inv'
    <2> SUFFICES ASSUME Inv, [Next]_vars
                 PROVE  Inv'
      OBVIOUS
    <2> QED BY TypeStep, PlaceStep, RowStep, AnchoredStep, SeenStep DEF Inv
  <1> QED BY <1>1, <1>2, PTL DEF Spec

\* The variables keep their types; in particular the walk never leaves the
\* chain and never writes a cursor beyond it (run, ingest_slot_transactions).
THEOREM TypeCorrect == Spec => []TypeOK
  <1>1. Inv => TypeOK
    BY DEF Inv
  <1> QED BY <1>1, Invariance, PTL

\* A resource row always names a recorded transaction that registers it, with
\* a sender, and has its parent's row, and no counter is above zero without
\* its row and a recorded transaction it counts, however the statements of
\* insert_transaction, insert_resource_rows and update_address_summaries fail
\* or are repeated.
THEOREM ResourcesStayAnchored == Spec => []ResourcesAnchored
  <1>1. Inv => ResourcesAnchored
    BY DEF Inv
  <1> QED BY <1>1, Invariance, PTL

\* first_seen_slot and last_seen_slot are the least and the greatest slot the
\* address was counted in (upsert_address_activity,
\* bump_address_schemas_owned).
THEOREM SeenIsExact == Spec => []SeenExact
  <1>1. Inv => SeenExact
    BY DEF Inv
  <1> QED BY <1>1, Invariance, PTL

\* The walk implements Catalog: rows come and stay, at a position nobody
\* else in the slot holds, and a resource comes under a row and a parent that
\* are there.
THEOREM ImplementsCatalog == Spec => RefinesCatalog
  <1> DEFINE SlotMap == [t \in Tx |-> SlotOf(t)]
  <1>1. Init => Readers!Init
    BY DEF Init, Readers!Init, NoRow, Readers!Absent
  <1>2. Inv /\ [Next]_vars => [Readers!Next]_<<txs, resources>>
    <2> SUFFICES ASSUME Inv, [Next]_vars, ~UNCHANGED <<txs, resources>>
                 PROVE  Readers!Next
      OBVIOUS
    <2>1. RowEffect /\ ResourceEffect /\ TypeOK /\ RowInv
      BY Effects DEF Inv
    <2>2. CASE UNCHANGED txRow
      <3>1. /\ step = "resource" /\ HasResource(Current)
            /\ ForeignKeyHolds(Current) /\ WriteResource(Current)
            /\ txs' = txs
        BY <2>1, <2>2 DEF ResourceEffect, txRow
      <3>2. PICK c \in Tx : c = Current
        BY <2>1, <3>1, CurrentFacts DEF Inv, TxSteps
      <3>3. /\ Recorded(c) /\ Registers[c] \in Id
            /\ Parent[c] = Nobody \/ Kind[c] # "register_attestor_set"
        BY <2>1, <3>1, <3>2, NameFacts DEF RowInv, TxSteps
      <3>4. resources' # resources
        BY <2>2 DEF txRow
      <3>5. /\ resources[Registers[c]] = Nobody
                 \/ Kind[c] = "register_attestor_set"
            /\ resources' = [resources EXCEPT ![Registers[c]] = c]
        BY <2>1, <3>1, <3>2, <3>3, <3>4 DEF WriteResource, TypeOK
      <3>6. Parent[c] # Nobody => resources[Parent[c]] # Nobody
        BY <3>1, <3>2, <3>3, <3>5 DEF ForeignKeyHolds, Stored
      <3>7. Registers[c] # Nobody
        BY <3>3, TxAssumption
      <3>8. Readers!Register(c)
        BY <3>1, <3>3, <3>5, <3>6, <3>7
        DEF Readers!Register, Readers!Absent, Recorded, NoRow
      <3> QED BY <3>8 DEF Readers!Next
    <2>3. CASE ~UNCHANGED txRow
      <3>1. /\ step = "insert" /\ ~PositionTaken(Current, slot, position)
            /\ txs' = [txs EXCEPT ![Current] = position]
            /\ UNCHANGED resources
        BY <2>1, <2>3 DEF RowEffect, ResourceEffect, InsertRejected, WriteTx
      <3>2. Current \in Tx /\ SlotOf(Current) = slot
        BY <2>1, <3>1, CurrentFacts DEF Inv, TxSteps
      <3>3. PICK c \in Tx : c = Current
        BY <3>2
      <3>4. txs'[c] = position /\ position \in Nat
        BY <2>1, <3>1, <3>3 DEF TypeOK
      <3>5. \A u \in Tx \ {c} :
              SlotMap[u] = SlotMap[c] => txs[u] # txs'[c]
        <4> HIDE DEF SlotOf, Current
        <4> QED BY <3>1, <3>2, <3>3, <3>4 DEF PositionTaken
      <3>6. txs' = [txs EXCEPT ![c] = txs'[c]]
        BY <3>1, <3>3, <3>4
      <3>7. Readers!Place(c)
        BY <3>1, <3>4, <3>5, <3>6 DEF Readers!Place
      <3> QED BY <3>7 DEF Readers!Next
    <2> QED BY <2>2, <2>3
  <1> QED BY <1>1, <1>2, Invariance, PTL DEF Spec, RefinesCatalog, Readers!Spec

-----------------------------------------------------------------------------
(***************************************************************************)
(* The counters: attestation_count, schema_count, txs_sent_count and       *)
(* txs_received_count never exceed the recorded transactions they count,   *)
(* taken once for every pass over their slots.                             *)
(*                                                                         *)
(* A counter is a number and does not say what it has counted.  The        *)
(* invariant Tally says that there is a set C of passes over rows, as      *)
(* large as the counter, such that the pass in hand is in C for no         *)
(* transaction that the walk has still to count: the next bump then stands *)
(* for a pass that is not in C yet.                                        *)
(***************************************************************************)

\* The walk is inside a slot.
InWalk == step \notin {"slot", "cursor"}

\* The walk of the slot in hand is past `t`.
Passed(t) ==
  \E c \in DOMAIN Chain[slot] : \E j \in DOMAIN Chain[slot][c] :
    /\ Chain[slot][c][j] = t
    /\ c < batch \/ (c = batch /\ step # "batch" /\ j < item)

\* `t` may be counted already in this pass by a counter that is bumped at the
\* last of the steps in `pending`.
MayCount(t, pending) ==
  Passed(t) \/ (step \in TxSteps \ pending /\ t = Current)

Tally(n, R, pending) ==
  \E C \in SUBSET PassesOver(R) :
    /\ IsFiniteSet(C)
    /\ Cardinality(C) = n
    /\ \A c \in C : InWalk /\ SlotOf(c[1]) = slot /\ c[2] = passes[slot] =>
         MayCount(c[1], pending)

UsesPending     == {"insert", "sender", "receiver", "resource", "bump"}
SentPending     == {"insert", "sender"}
ReceivedPending == {"insert", "sender", "receiver"}

TallyInv ==
  /\ \A p \in Id : Tally(uses[p], UsersOf(p), UsesPending)
  /\ \A a \in Addr :
       /\ Tally(sent[a], SentBy(a), SentPending)
       /\ Tally(received[a], ReceivedBy(a), ReceivedPending)

\* The slot in hand has been entered; the passes are bounded by some number.
PassInv ==
  /\ InWalk => passes[slot] > 0
  /\ \E m \in Nat : \A s \in SlotNumber : passes[s] <= m

CountInv == Inv /\ PassInv /\ TallyInv

-----------------------------------------------------------------------------
\* A transaction is in a slot of the chain.
LEMMA SlotOfType == \A t \in Tx : SlotOf(t) \in SlotNumber
  <1> SUFFICES ASSUME NEW t \in Tx PROVE SlotOf(t) \in SlotNumber
    OBVIOUS
  <1> DEFINE P(s) == \E b \in DOMAIN Chain[s] : \E i \in DOMAIN Chain[s][b] :
                       Chain[s][b][i] = t
  <1>1. \E s \in SlotNumber : P(s)
    <2>1. DOMAIN Chain = SlotNumber
      BY TxAssumption DEF SlotNumber
    <2>2. \E s \in DOMAIN Chain : P(s)
      BY PlaceAssumption
    <2> QED BY <2>1, <2>2
  <1>2. (CHOOSE s \in SlotNumber : P(s)) \in SlotNumber
    <2> HIDE DEF P
    <2> QED BY <1>1, Zenon
  <1> QED BY <1>2 DEF SlotOf

\* Membership in PassesOver.
LEMMA PassesOverFacts ==
  ASSUME NEW R
  PROVE  /\ \A t \in R : \A n \in 1..passes[SlotOf(t)] :
              <<t, n>> \in PassesOver(R)
         /\ \A c \in PassesOver(R) :
              /\ c[1] \in R /\ c[2] \in 1..passes[SlotOf(c[1])]
              /\ c = <<c[1], c[2]>>
  BY DEF PassesOver

\* The walk is not past the transaction it is at.
LEMMA CurrentNotPassed ==
  ASSUME TypeOK, WalkInv, step \in TxSteps
  PROVE  ~Passed(Current)
  <1>1. slot \in SlotNumber /\ batch \in DOMAIN Chain[slot]
          /\ item \in DOMAIN Chain[slot][batch]
    BY DEF WalkInv, TxSteps
  <1>2. slot \in DOMAIN Chain
    BY <1>1, TxAssumption DEF SlotNumber
  <1>3. \A c \in DOMAIN Chain[slot] : \A j \in DOMAIN Chain[slot][c] :
          Chain[slot][c][j] = Current => c = batch /\ j = item
    <2> SUFFICES ASSUME NEW c \in DOMAIN Chain[slot],
                        NEW j \in DOMAIN Chain[slot][c],
                        Chain[slot][c][j] = Chain[slot][batch][item]
                 PROVE  c = batch /\ j = item
      BY DEF Current
    <2>1. \A s, r \in DOMAIN Chain :
            \A b \in DOMAIN Chain[s], d \in DOMAIN Chain[r] :
              \A i \in DOMAIN Chain[s][b], k \in DOMAIN Chain[r][d] :
                Chain[s][b][i] = Chain[r][d][k] => s = r /\ b = d /\ i = k
      BY PlaceAssumption
    <2> QED BY <1>1, <1>2, <2>1
  <1>4. batch \in Nat /\ item \in Nat
    BY DEF TypeOK
  <1> QED BY <1>3, <1>4 DEF Passed

\* The counters are bounded because the passes are.
LEMMA TallyBound ==
  ASSUME TypeOK, PassInv, NEW n \in Nat, NEW R \in SUBSET Tx, NEW pending,
         Tally(n, R, pending)
  PROVE  n <= Cardinality(PassesOver(R))
  <1>1. PICK m \in Nat : \A s \in SlotNumber : passes[s] <= m
    BY DEF PassInv
  <1>2. PassesOver(R) \subseteq Tx \X (1..m)
    <2> SUFFICES ASSUME NEW c \in PassesOver(R) PROVE c \in Tx \X (1..m)
      OBVIOUS
    <2>1. /\ c[1] \in R /\ c[2] \in 1..passes[SlotOf(c[1])]
          /\ c = <<c[1], c[2]>>
      BY PassesOverFacts
    <2>2. SlotOf(c[1]) \in SlotNumber
      BY <2>1, SlotOfType
    <2>3. passes[SlotOf(c[1])] \in Nat /\ passes[SlotOf(c[1])] <= m
      BY <1>1, <2>2 DEF TypeOK
    <2>4. c[2] \in 1..m
      BY <2>1, <2>3
    <2> QED BY <2>1, <2>4
  <1>3. IsFiniteSet(Tx \X (1..m))
    <2>1. IsFiniteSet(1..m)
      BY FS_Interval
    <2> QED BY <2>1, FS_Product, PlaceAssumption
  <1>4. IsFiniteSet(PassesOver(R))
    BY <1>2, <1>3, FS_Subset
  <1>5. PICK C \in SUBSET PassesOver(R) : Cardinality(C) = n
    BY DEF Tally
  <1> QED BY <1>4, <1>5, FS_Subset

-----------------------------------------------------------------------------
(***************************************************************************)
(* How the walk moves.                                                     *)
(***************************************************************************)
Pendings == {UsesPending, SentPending, ReceivedPending}

\* On the same transaction, after one, after a batch, or into a batch.
Stays ==
  /\ UNCHANGED <<batch, item>>
  /\ step' \in TxSteps
  /\ step = "tx" \/ (step \in TxSteps /\ \A pending \in Pendings :
                       step \notin pending => step' \notin pending)

Advances ==
  /\ step \in TxSteps \cup {"tx"}
  /\ step' = "tx"
  /\ batch' = batch
  /\ item' = item + 1

EntersBatch == step = "batch" /\ step' = "tx" /\ batch' = batch /\ item' = 1

LeavesBatch ==
  step \in {"batch", "tx"} /\ step' = "batch" /\ batch' = batch + 1

\* Inside a slot every step is one of these, or the one that enters the slot.
LEMMA Moves ==
  ASSUME Inv, Next, InWalk'
  PROVE  \/ /\ step = "slot" /\ slot \in SlotNumber /\ slot' = slot
            /\ passes' = [passes EXCEPT ![slot] = @ + 1]
         \/ /\ UNCHANGED <<slot, passes>>
            /\ Stays \/ Advances \/ EntersBatch \/ LeavesBatch
  <1> DEFINE Goal ==
        \/ /\ step = "slot" /\ slot \in SlotNumber /\ slot' = slot
           /\ passes' = [passes EXCEPT ![slot] = @ + 1]
        \/ /\ UNCHANGED <<slot, passes>>
           /\ Stays \/ Advances \/ EntersBatch \/ LeavesBatch
  <1> SUFFICES Goal
    OBVIOUS
  <1>1. CASE FetchEvents \/ EventsNotFound
    BY <1>1 DEF FetchEvents, EventsNotFound, BeginSlot, SlotNumber, Inv, TypeOK
  <1>2. CASE FetchBatch
    BY <1>2 DEF FetchBatch, EntersBatch
  <1>3. CASE BatchNotFound \/ BatchDone
    BY <1>3 DEF BatchNotFound, BatchDone, LeavesBatch
  <1>4. CASE TxNotFound \/ FetchTx
    BY <1>4 DEF TxNotFound, FetchTx, Advances, Stays, TxSteps
  <1>5. CASE SlotDone \/ FetchFailure \/ WriteCursor \/ WriteCursorFailure
               \/ Crash
    BY <1>5 DEF SlotDone, FetchFailure, WriteCursor, WriteCursorFailure, Crash,
                InWalk
  <1>6. CASE InsertTransaction \/ UpdateSender \/ UpdateReceiver
               \/ SummaryFailure
    BY <1>6 DEF InsertTransaction, UpdateSender, UpdateReceiver,
                SummaryFailure, Stays, TxSteps, place, Pendings, UsesPending,
                SentPending, ReceivedPending
  <1>7. CASE InsertRefused \/ InsertFailure \/ NoResource \/ ResourceFailure
               \/ BumpOwned \/ BumpOwnedFailure
    BY <1>7 DEF InsertRefused, InsertFailure, NoResource, ResourceFailure,
                BumpOwned, BumpOwnedFailure, NextTx, Advances, TxSteps
  <1>8. CASE InsertResource
    <2>1. /\ step = "resource" /\ UNCHANGED passes
          /\ NextTx \/ (step' = "bump" /\ UNCHANGED place)
      BY <1>8 DEF InsertResource
    <2> QED BY <2>1 DEF NextTx, Advances, Stays, TxSteps, place, Pendings,
                   UsesPending, SentPending, ReceivedPending
  <1>9. CASE BumpUses \/ BumpUsesFailure
    <2>1. /\ step = "bump" /\ UNCHANGED passes
          /\ NextTx \/ (step' = "owned" /\ UNCHANGED place)
      BY <1>9 DEF BumpUses, BumpUsesFailure, AfterBump
    <2> QED BY <2>1 DEF NextTx, Advances, Stays, TxSteps, place, Pendings,
                   UsesPending, SentPending, ReceivedPending
  <1> QED BY <1>1, <1>2, <1>3, <1>4, <1>5, <1>6, <1>7, <1>8, <1>9
          DEF Next, Walk, FaultStep

\* What may be counted stays so while the pass lasts.
LEMMA MayCountKept ==
  ASSUME Inv, UNCHANGED slot, NEW pending \in Pendings, NEW t \in Tx,
         Stays \/ Advances \/ EntersBatch \/ LeavesBatch,
         MayCount(t, pending)
  PROVE  MayCount(t, pending)'
  <1>1. batch \in Nat /\ item \in Nat /\ WalkInv
    BY DEF Inv, TypeOK
  <1>2. ASSUME Passed(t) PROVE Passed(t)'
    <2>0. PICK c \in DOMAIN Chain[slot] : \E j \in DOMAIN Chain[slot][c] :
            /\ Chain[slot][c][j] = t
            /\ c < batch \/ (c = batch /\ step # "batch" /\ j < item)
      BY <1>2 DEF Passed
    <2>1. PICK j \in DOMAIN Chain[slot][c] :
            /\ Chain[slot][c][j] = t
            /\ c < batch \/ (c = batch /\ step # "batch" /\ j < item)
      BY <2>0
    <2>2. Chain \in Seq(Seq(Seq(Tx)))
      BY TxAssumption
    <2>3. c \in Int /\ j \in Int
      <3>1. slot \in DOMAIN Chain
        BY <2>2 DEF Stays, Advances, EntersBatch, LeavesBatch, TxSteps,
                    WalkInv, SlotNumber, Inv
      <3>2. Chain[slot] \in Seq(Seq(Tx))
        BY <2>2, <3>1
      <3>3. Chain[slot][c] \in Seq(Tx)
        BY <3>2
      <3> QED BY <3>2, <3>3
    <2>4. c < batch' \/ (c = batch' /\ step' # "batch" /\ j < item')
      BY <1>1, <2>1, <2>3
      DEF Stays, Advances, EntersBatch, LeavesBatch, TxSteps
    <2> QED BY <2>1, <2>4 DEF Passed
  <1>3. ASSUME step \in TxSteps \ pending, t = Current
        PROVE  MayCount(t, pending)'
    <2>1. CASE Stays
      <3>1. step' \in TxSteps \ pending
        BY <1>3, <2>1 DEF Stays, TxSteps
      <3>2. Current' = Current
        BY <2>1 DEF Stays, Current
      <3> QED BY <1>3, <3>1, <3>2 DEF MayCount
    <2>2. CASE Advances
      <3>1. batch \in DOMAIN Chain[slot] /\ item \in DOMAIN Chain[slot][batch]
        BY <1>1, <1>3 DEF WalkInv, TxSteps
      <3>2. Chain[slot][batch][item] = t /\ item < item + 1
        BY <1>1, <1>3 DEF Current
      <3>3. Passed(t)'
        BY <2>2, <3>1, <3>2 DEF Passed, Advances
      <3> QED BY <3>3 DEF MayCount
    <2>3. ~EntersBatch /\ ~LeavesBatch
      BY <1>3 DEF EntersBatch, LeavesBatch, TxSteps
    <2> QED BY <2>1, <2>2, <2>3
  <1> QED BY <1>2, <1>3 DEF MayCount

-----------------------------------------------------------------------------
(***************************************************************************)
(* What a step does to a tally.                                            *)
(***************************************************************************)
LEMMA PassesGrow ==
  ASSUME Inv, [Next]_vars
  PROVE  /\ \A s \in SlotNumber : passes[s] \in Nat /\ passes'[s] \in Nat
                                   /\ passes[s] <= passes'[s]
         /\ \A s \in SlotNumber : passes'[s] <= passes[s] + 1
  <1>1. passes \in [SlotNumber -> Nat] /\ slot \in 1..(Len(Chain) + 1)
    BY DEF Inv, TypeOK
  <1>2. UNCHANGED passes \/ passes' = [passes EXCEPT ![slot] = @ + 1]
    BY DEF Next, Walk, FaultStep, FetchEvents, BeginSlot, FetchBatch,
           FetchTx, BatchDone, SlotDone, InsertTransaction, InsertRefused,
           UpdateSender, UpdateReceiver, InsertResource, NoResource, BumpUses,
           BumpOwned, WriteCursor, EventsNotFound, BatchNotFound, TxNotFound,
           FetchFailure, InsertFailure, SummaryFailure, ResourceFailure,
           BumpUsesFailure, BumpOwnedFailure, WriteCursorFailure, Crash, vars
  <1> QED BY <1>1, <1>2

\* A step keeps the passes bounded, and enters a slot by counting it.
LEMMA PassStep ==
  ASSUME Inv, PassInv, [Next]_vars
  PROVE  PassInv'
  <1>1. PICK m \in Nat : \A s \in SlotNumber : passes[s] <= m
    BY DEF PassInv
  <1>2. \A s \in SlotNumber : passes'[s] <= m + 1
    BY <1>1, PassesGrow
  <1>3. ASSUME InWalk' PROVE passes'[slot'] > 0
    <2>1. CASE UNCHANGED vars
      BY <1>3, <2>1 DEF PassInv, InWalk, vars
    <2>2. CASE Next
      <3>1. CASE /\ step = "slot" /\ slot \in SlotNumber /\ slot' = slot
                 /\ passes' = [passes EXCEPT ![slot] = @ + 1]
        BY <3>1 DEF Inv, TypeOK
      <3>2. CASE /\ UNCHANGED <<slot, passes>>
                 /\ Stays \/ Advances \/ EntersBatch \/ LeavesBatch
        BY <3>2 DEF PassInv, InWalk, Stays, Advances, EntersBatch,
                    LeavesBatch, TxSteps
      <3> QED BY <1>3, <2>2, <3>1, <3>2, Moves
    <2> QED BY <2>1, <2>2
  <1>4. m + 1 \in Nat
    OBVIOUS
  <1> QED BY <1>2, <1>3, <1>4 DEF PassInv

\* The passes that may be in a tally are still there after a step, and the
\* ones of the pass in hand may be.
LEMMA CountedKept ==
  ASSUME Inv, [Next]_vars, NEW R \in SUBSET Tx, NEW R1 \in SUBSET Tx,
         R \subseteq R1, NEW pending \in Pendings, NEW c \in PassesOver(R),
         InWalk /\ SlotOf(c[1]) = slot /\ c[2] = passes[slot] =>
           MayCount(c[1], pending)
  PROVE  /\ c \in PassesOver(R1)'
         /\ InWalk' /\ SlotOf(c[1]) = slot' /\ c[2] = passes'[slot'] =>
              MayCount(c[1], pending)'
  <1>1. /\ c[1] \in R /\ c[2] \in 1..passes[SlotOf(c[1])]
        /\ c = <<c[1], c[2]>>
    BY PassesOverFacts
  <1>2. c[1] \in Tx /\ SlotOf(c[1]) \in SlotNumber
    BY <1>1, SlotOfType
  <1>3. c \in PassesOver(R1)'
    <2>1. c[2] \in 1..passes'[SlotOf(c[1])]
      BY <1>1, <1>2, PassesGrow
    <2>2. \A t \in R1 : \A n \in 1..passes'[SlotOf(t)] :
            <<t, n>> \in PassesOver(R1)'
      BY DEF PassesOver
    <2> QED BY <1>1, <2>1, <2>2
  <1>4. ASSUME InWalk', SlotOf(c[1]) = slot', c[2] = passes'[slot']
        PROVE  MayCount(c[1], pending)'
    <2>1. CASE UNCHANGED vars
      BY <1>4, <2>1 DEF InWalk, MayCount, Passed, Current, vars
    <2>2. CASE Next
      <3>1. CASE /\ step = "slot" /\ slot \in SlotNumber /\ slot' = slot
                 /\ passes' = [passes EXCEPT ![slot] = @ + 1]
        <4>1. passes'[slot] = passes[slot] + 1 /\ passes[slot] \in Nat
          BY <3>1 DEF Inv, TypeOK
        <4>2. c[2] \in 1..passes[slot]
          BY <1>1, <1>4, <3>1
        <4> QED BY <1>4, <3>1, <4>1, <4>2
      <3>2. CASE /\ UNCHANGED <<slot, passes>>
                 /\ Stays \/ Advances \/ EntersBatch \/ LeavesBatch
        <4>1. InWalk
          BY <3>2 DEF InWalk, Stays, Advances, EntersBatch, LeavesBatch,
                      TxSteps
        <4>2. MayCount(c[1], pending)
          BY <1>4, <3>2, <4>1
        <4> QED BY <1>2, <3>2, <4>2, MayCountKept
      <3> QED BY <1>4, <2>2, <3>1, <3>2, Moves
    <2> QED BY <2>1, <2>2
  <1> QED BY <1>3, <1>4

\* A counter that does not move.
LEMMA TallyKept ==
  ASSUME Inv, [Next]_vars, NEW R \in SUBSET Tx, NEW R1 \in SUBSET Tx,
         R \subseteq R1, NEW pending \in Pendings, NEW n,
         Tally(n, R, pending)
  PROVE  Tally(n, R1, pending)'
  <1>1. PICK C \in SUBSET PassesOver(R) :
          /\ IsFiniteSet(C) /\ Cardinality(C) = n
          /\ \A c \in C :
               InWalk /\ SlotOf(c[1]) = slot /\ c[2] = passes[slot] =>
                 MayCount(c[1], pending)
    BY DEF Tally
  <1>2. \A c \in C :
          /\ c \in PassesOver(R1)'
          /\ InWalk' /\ SlotOf(c[1]) = slot' /\ c[2] = passes'[slot'] =>
               MayCount(c[1], pending)'
    BY <1>1, CountedKept
  <1>3. \A c \in C : SlotOf(c[1])' = SlotOf(c[1])
    BY DEF SlotOf, SlotNumber
  <1> QED BY <1>1, <1>2, <1>3 DEF Tally

\* A bump: the pass over the current transaction is new to the tally.
LEMMA TallyBumped ==
  ASSUME Inv, PassInv, Next, NEW R \in SUBSET Tx, NEW R1 \in SUBSET Tx,
         R \subseteq R1, NEW pending \in Pendings, NEW n \in Nat,
         Tally(n, R, pending),
         step \in TxSteps \cap pending, Current \in R1, InWalk',
         step' \notin pending
  PROVE  Tally(n + 1, R1, pending)'
  <1>1. PICK C \in SUBSET PassesOver(R) :
          /\ IsFiniteSet(C) /\ Cardinality(C) = n
          /\ \A c \in C :
               InWalk /\ SlotOf(c[1]) = slot /\ c[2] = passes[slot] =>
                 MayCount(c[1], pending)
    BY DEF Tally
  <1>2. \A c \in C :
          /\ c \in PassesOver(R1)'
          /\ InWalk' /\ SlotOf(c[1]) = slot' /\ c[2] = passes'[slot'] =>
               MayCount(c[1], pending)'
    BY <1>1, CountedKept
  <1>3. /\ Current \in Tx /\ slot \in SlotNumber /\ SlotOf(Current) = slot
        /\ ~Passed(Current) /\ WalkInv
    BY CurrentFacts, CurrentNotPassed DEF Inv
  <1>4. PICK t : t = Current
    OBVIOUS
  <1>5. PICK new : new = <<t, passes[slot]>>
    OBVIOUS
  <1>6. new[1] = t /\ new[2] = passes[slot]
    BY <1>5
  <1>7. new \notin C
    <2>1. InWalk
      BY DEF InWalk, TxSteps
    <2>2. ~MayCount(t, pending)
      BY <1>3, <1>4 DEF MayCount
    <2> QED BY <1>1, <1>3, <1>4, <1>6, <2>1, <2>2
  <1>8. /\ UNCHANGED <<slot, passes>>
        /\ Stays \/ Advances
    BY Moves DEF EntersBatch, LeavesBatch, TxSteps
  <1>9. new \in PassesOver(R1)'
    <2>1. passes[slot] \in 1..passes'[SlotOf(t)]
      <3>1. passes[slot] \in Nat /\ passes[slot] > 0
        BY <1>3 DEF PassInv, InWalk, TxSteps, Inv, TypeOK
      <3> QED BY <1>3, <1>4, <1>8, <3>1
    <2>2. \A u \in R1 : \A k \in 1..passes'[SlotOf(u)] :
            <<u, k>> \in PassesOver(R1)'
      BY DEF PassesOver
    <2> QED BY <1>4, <1>5, <2>1, <2>2
  <1>10. MayCount(t, pending)'
    <2>1. CASE Stays
      <3>1. step' \in TxSteps \ pending
        BY <2>1 DEF Stays
      <3>2. Current' = t
        BY <1>4, <1>8, <2>1 DEF Stays, Current
      <3> QED BY <3>1, <3>2 DEF MayCount
    <2>2. CASE Advances
      <3>1. batch \in DOMAIN Chain[slot] /\ item \in DOMAIN Chain[slot][batch]
        BY <1>3 DEF WalkInv, TxSteps
      <3>2. Chain[slot][batch][item] = t /\ item < item + 1
        BY <1>4 DEF Current, Inv, TypeOK
      <3>3. Passed(t)'
        BY <1>8, <2>2, <3>1, <3>2 DEF Passed, Advances
      <3> QED BY <3>3 DEF MayCount
    <2> QED BY <1>8, <2>1, <2>2
  <1>11. IsFiniteSet(C \cup {new}) /\ Cardinality(C \cup {new}) = n + 1
    BY <1>1, <1>7, FS_AddElement
  <1>12. C \cup {new} \in SUBSET PassesOver(R1)'
    BY <1>2, <1>9
  <1>13. \A c \in C \cup {new} :
           (InWalk /\ SlotOf(c[1]) = slot /\ c[2] = passes[slot] =>
             MayCount(c[1], pending))'
    <2>1. \A c \in C \cup {new} : SlotOf(c[1])' = SlotOf(c[1])
      BY DEF SlotOf, SlotNumber
    <2>2. ASSUME NEW c \in C \cup {new}, c = new
          PROVE  MayCount(c[1], pending)'
      BY <1>6, <1>10, <2>2
    <2> QED BY <1>2, <2>1, <2>2
  <1> QED BY <1>11, <1>12, <1>13 DEF Tally

-----------------------------------------------------------------------------
(***************************************************************************)
(* The counters.                                                           *)
(***************************************************************************)

\* Where each of them moves.
LEMMA BumpMoves ==
  ASSUME Inv, Next
  PROVE  /\ uses' # uses => InWalk' /\ step' \notin UsesPending
         /\ sent' # sent => InWalk' /\ step' \notin SentPending
         /\ received' # received => InWalk' /\ step' \notin ReceivedPending
  <1> DEFINE Goal ==
        /\ uses' # uses => InWalk' /\ step' \notin UsesPending
        /\ sent' # sent => InWalk' /\ step' \notin SentPending
        /\ received' # received => InWalk' /\ step' \notin ReceivedPending
  <1> SUFFICES Goal
    OBVIOUS
  <1>1. CASE UNCHANGED <<uses, sent, received>>
    BY <1>1
  <1>2. CASE UpdateSender \/ UpdateReceiver \/ SummaryFailure
    BY <1>2 DEF UpdateSender, UpdateReceiver, SummaryFailure, NobodySeen,
                CountSender, CountReceiver, InWalk, SentPending,
                ReceivedPending
  <1>3. CASE BumpUses
    <2>1. UNCHANGED <<sent, received>> /\ step' \in {"owned", "tx"}
      BY <1>3 DEF BumpUses, AfterBump, NextTx
    <2> QED BY <2>1 DEF InWalk, UsesPending
  <1>4. \/ UNCHANGED <<uses, sent, received>>
        \/ UpdateSender \/ UpdateReceiver \/ SummaryFailure \/ BumpUses
    BY DEF Next, Walk, FaultStep, FetchEvents, BeginSlot, FetchBatch,
           FetchTx, BatchDone, SlotDone, InsertTransaction, InsertRefused,
           InsertResource, NoResource, BumpOwned, WriteCursor,
           EventsNotFound, BatchNotFound, TxNotFound, FetchFailure,
           InsertFailure, ResourceFailure, BumpUsesFailure,
           BumpOwnedFailure, WriteCursorFailure, Crash, tables
  <1> QED BY <1>1, <1>2, <1>3, <1>4

\* Every counter keeps its tally: it moves with a bump or not at all.
LEMMA TallyStep ==
  ASSUME CountInv, [Next]_vars
  PROVE  TallyInv'
  <1>1. Inv /\ PassInv /\ TallyInv /\ TypeOK /\ RowInv
    BY DEF CountInv, Inv
  <1>2. UsesEffect /\ SentEffect /\ ReceivedEffect
    BY <1>1, Effects
  <1>3. /\ \A t \in Tx : Recorded(t) => Recorded(t)'
    BY <1>1, Kept
  <1>4. TypeOK'
    BY <1>1, TypeStep
  <1>c. PICK c : c = Current
    OBVIOUS
  <1>5. ASSUME step \in TxSteps \ {"insert"}
        PROVE  /\ c \in Tx /\ Recorded(c)'
               /\ SenderNow(c) # Nobody => Sender[c] = SenderNow(c)
               /\ ReceiverNow(c) # Nobody => Receiver[c] = ReceiverNow(c)
    <2>1. c \in Tx /\ Recorded(c)
      BY <1>1, <1>5, <1>c, CurrentFacts DEF Inv, RowInv
    <2>2. SenderNow(c) # Nobody => Sender[c] = SenderNow(c)
      BY <1>1, <1>c, <2>1, NameFacts
    <2>3. ReceiverNow(c) # Nobody => Receiver[c] = ReceiverNow(c)
      BY DEF ReceiverNow
    <2> QED BY <1>3, <2>1, <2>2, <2>3
  <1>6. ASSUME NEW p \in Id PROVE Tally(uses[p], UsersOf(p), UsesPending)'
    <2>1. PICK R : R = UsersOf(p)
      OBVIOUS
    <2>2. PICK R1 : R1 = UsersOf(p)'
      OBVIOUS
    <2>3. R \in SUBSET Tx /\ R1 \in SUBSET Tx /\ R \subseteq R1
      BY <1>3, <2>1, <2>2 DEF UsersOf
    <2>4. PICK n \in Nat : n = uses[p]
      BY <1>1 DEF TypeOK
    <2>5. Tally(n, R, UsesPending) /\ UsesPending \in Pendings
      BY <1>1, <2>1, <2>4 DEF TallyInv, Pendings
    <2>6. CASE uses'[p] = n
      <3>1. Tally(n, R1, UsesPending)'
        BY <1>1, <2>3, <2>5, TallyKept
      <3> QED BY <2>2, <2>6, <3>1 DEF Tally
    <2>7. CASE uses'[p] # n
      <3>1. step = "bump" /\ uses' = [uses EXCEPT ![Parent[c]] = @ + 1]
        BY <1>2, <1>c, <2>4, <2>7 DEF UsesEffect
      <3>2. p = Parent[c] /\ uses'[p] = n + 1
        BY <1>1, <2>4, <2>7, <3>1 DEF TypeOK
      <3>3. c \in Tx /\ Recorded(c)'
        BY <1>5, <3>1 DEF TxSteps
      <3>4. Current \in R1
        BY <1>c, <2>2, <3>2, <3>3 DEF UsersOf
      <3>5. uses' # uses
        BY <2>4, <2>7
      <3>6. Next
        BY <3>5 DEF vars
      <3>7. InWalk' /\ step' \notin UsesPending
        BY <1>1, <3>5, <3>6, BumpMoves
      <3>8. step \in TxSteps \cap UsesPending
        BY <3>1 DEF TxSteps, UsesPending
      <3>9. Tally(n + 1, R1, UsesPending)'
        BY <1>1, <2>3, <2>5, <3>4, <3>6, <3>7, <3>8, TallyBumped
      <3> QED BY <2>2, <3>2, <3>9 DEF Tally
    <2> QED BY <2>6, <2>7
  <1>7. ASSUME NEW a \in Addr PROVE Tally(sent[a], SentBy(a), SentPending)'
    <2>1. PICK R : R = SentBy(a)
      OBVIOUS
    <2>2. PICK R1 : R1 = SentBy(a)'
      OBVIOUS
    <2>3. R \in SUBSET Tx /\ R1 \in SUBSET Tx /\ R \subseteq R1
      BY <1>3, <2>1, <2>2 DEF SentBy
    <2>4. PICK n \in Nat : n = sent[a]
      BY <1>1 DEF TypeOK
    <2>5. Tally(n, R, SentPending) /\ SentPending \in Pendings
      BY <1>1, <2>1, <2>4 DEF TallyInv, Pendings
    <2>6. CASE sent'[a] = n
      <3>1. Tally(n, R1, SentPending)'
        BY <1>1, <2>3, <2>5, TallyKept
      <3> QED BY <2>2, <2>6, <3>1 DEF Tally
    <2>7. CASE sent'[a] # n
      <3>0. PICK b : b = SenderNow(c)
        OBVIOUS
      <3>1. /\ step = "sender" /\ b # Nobody
            /\ sent' = [sent EXCEPT ![b] = @ + 1]
        BY <1>2, <1>c, <2>4, <2>7, <3>0 DEF SentEffect
      <3>2. a = b /\ sent'[a] = n + 1
        BY <1>1, <2>4, <2>7, <3>1 DEF TypeOK
      <3>3. c \in Tx /\ Recorded(c)' /\ Sender[c] = a
        BY <1>5, <3>0, <3>1, <3>2 DEF TxSteps
      <3>4. Current \in R1
        BY <1>c, <2>2, <3>3 DEF SentBy
      <3>5. sent' # sent
        BY <2>4, <2>7
      <3>6. Next
        BY <3>5 DEF vars
      <3>7. InWalk' /\ step' \notin SentPending
        BY <1>1, <3>5, <3>6, BumpMoves
      <3>8. step \in TxSteps \cap SentPending
        BY <3>1 DEF TxSteps, SentPending
      <3>9. Tally(n + 1, R1, SentPending)'
        BY <1>1, <2>3, <2>5, <3>4, <3>6, <3>7, <3>8, TallyBumped
      <3> QED BY <2>2, <3>2, <3>9 DEF Tally
    <2> QED BY <2>6, <2>7
  <1>8. ASSUME NEW a \in Addr
        PROVE  Tally(received[a], ReceivedBy(a), ReceivedPending)'
    <2>1. PICK R : R = ReceivedBy(a)
      OBVIOUS
    <2>2. PICK R1 : R1 = ReceivedBy(a)'
      OBVIOUS
    <2>3. R \in SUBSET Tx /\ R1 \in SUBSET Tx /\ R \subseteq R1
      BY <1>3, <2>1, <2>2 DEF ReceivedBy
    <2>4. PICK n \in Nat : n = received[a]
      BY <1>1 DEF TypeOK
    <2>5. Tally(n, R, ReceivedPending) /\ ReceivedPending \in Pendings
      BY <1>1, <2>1, <2>4 DEF TallyInv, Pendings
    <2>6. CASE received'[a] = n
      <3>1. Tally(n, R1, ReceivedPending)'
        BY <1>1, <2>3, <2>5, TallyKept
      <3> QED BY <2>2, <2>6, <3>1 DEF Tally
    <2>7. CASE received'[a] # n
      <3>0. PICK b : b = ReceiverNow(c)
        OBVIOUS
      <3>1. /\ step = "receiver" /\ b # Nobody
            /\ received' = [received EXCEPT ![b] = @ + 1]
        BY <1>2, <1>c, <2>4, <2>7, <3>0 DEF ReceivedEffect
      <3>2. a = b /\ received'[a] = n + 1
        BY <1>1, <2>4, <2>7, <3>1 DEF TypeOK
      <3>3. c \in Tx /\ Recorded(c)' /\ Receiver[c] = a
        BY <1>5, <3>0, <3>1, <3>2 DEF TxSteps
      <3>4. Current \in R1
        BY <1>c, <2>2, <3>3 DEF ReceivedBy
      <3>5. received' # received
        BY <2>4, <2>7
      <3>6. Next
        BY <3>5 DEF vars
      <3>7. InWalk' /\ step' \notin ReceivedPending
        BY <1>1, <3>5, <3>6, BumpMoves
      <3>8. step \in TxSteps \cap ReceivedPending
        BY <3>1 DEF TxSteps, ReceivedPending
      <3>9. Tally(n + 1, R1, ReceivedPending)'
        BY <1>1, <2>3, <2>5, <3>4, <3>6, <3>7, <3>8, TallyBumped
      <3> QED BY <2>2, <3>2, <3>9 DEF Tally
    <2> QED BY <2>6, <2>7
  <1> QED BY <1>6, <1>7, <1>8 DEF TallyInv

\* Nothing is counted before the first pass.
LEMMA TallyInit == Init => CountInv
  <1> SUFFICES ASSUME Init PROVE CountInv
    OBVIOUS
  <1>1. Inv
    BY InitInv
  <1>2. PassInv
    BY DEF Init, PassInv, InWalk
  <1>3. ASSUME NEW R, NEW pending PROVE Tally(0, R, pending)
    <2>1. {} \in SUBSET PassesOver(R) /\ IsFiniteSet({}) /\ Cardinality({}) = 0
      BY FS_EmptySet
    <2> QED BY <2>1 DEF Tally
  <1>4. TallyInv
    BY <1>3 DEF Init, TallyInv
  <1> QED BY <1>1, <1>2, <1>4 DEF CountInv

-----------------------------------------------------------------------------
\* However often slots are walked again and wherever passes stop, a counter
\* of the tables is at most the recorded transactions it counts, each taken
\* once for every pass over its slot (bump_attestor_set_schema_count,
\* bump_schema_attestation_count, upsert_address_activity).
THEOREM DriftIsBounded == Spec => []DriftBounded
  <1>1. Init => CountInv
    BY TallyInit
  <1>2. CountInv /\ [Next]_vars => CountInv'
    <2> SUFFICES ASSUME CountInv, [Next]_vars
                 PROVE  CountInv'
      OBVIOUS
    <2>1. Inv /\ PassInv
      BY DEF CountInv
    <2>2. Inv'
      BY <2>1, TypeStep, PlaceStep, RowStep, AnchoredStep, SeenStep DEF Inv
    <2>3. PassInv'
      BY <2>1, PassStep
    <2> QED BY <2>2, <2>3, TallyStep DEF CountInv
  <1>3. CountInv => DriftBounded
    <2> SUFFICES ASSUME CountInv PROVE DriftBounded
      OBVIOUS
    <2>1. TypeOK /\ PassInv /\ TallyInv
      BY DEF CountInv, Inv
    <2>2. ASSUME NEW p \in Id
          PROVE  uses[p] <= Cardinality(PassesOver(UsersOf(p)))
      <3>1. UsersOf(p) \in SUBSET Tx /\ uses[p] \in Nat
        BY <2>1 DEF UsersOf, TypeOK
      <3> QED BY <2>1, <3>1, TallyBound DEF TallyInv
    <2>3. ASSUME NEW a \in Addr
          PROVE  /\ sent[a] <= Cardinality(PassesOver(SentBy(a)))
                 /\ received[a] <= Cardinality(PassesOver(ReceivedBy(a)))
      <3>1. /\ SentBy(a) \in SUBSET Tx /\ ReceivedBy(a) \in SUBSET Tx
            /\ sent[a] \in Nat /\ received[a] \in Nat
        BY <2>1 DEF SentBy, ReceivedBy, TypeOK
      <3> QED BY <2>1, <3>1, TallyBound DEF TallyInv
    <2> QED BY <2>2, <2>3 DEF DriftBounded
  <1> QED BY <1>1, <1>2, <1>3, PTL DEF Spec
=============================================================================
