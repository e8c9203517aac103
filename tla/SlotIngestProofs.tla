-------------------------- MODULE SlotIngestProofs --------------------------
(***************************************************************************)
(* Theorems about SlotIngest, for every MaxHeight, MaxFaults, StartHeight, *)
(* Unreported and Linked.                                                  *)
(*                                                                         *)
(* None of the invariants is inductive by itself.  What keeps them is in   *)
(* the local state of the two tasks between two awaits: how far the walk   *)
(* has come (WalkInv), and that what a task fetched about finality is      *)
(* still true when it writes it, since the chain never takes finality back *)
(* (FinalityInv).                                                          *)
(***************************************************************************)
EXTENDS SlotIngest, TLAPS

\* The walk is inside `while next_height <= head`.
InSlot == pc \in {"fetch", "facts", "upsert", "txs", "cursor"}

\* All heights below next_height are settled, and so are those up to the
\* cursor; the slot in hand is one the chain has produced, and it is stored
\* and walked before the cursor is put on it.
WalkInv ==
  /\ seen <= tip
  /\ InSlot => next <= seen
  /\ pc \notin {"boot", "resume"} =>
       Base <= next /\ \A h \in Base..(next - 1) : Settled(h)
  /\ cursor # NoCursor => Base <= cursor
  /\ \A h \in Base..cursor : Settled(h)
  /\ pc \in {"txs", "cursor"} => next \in slots
  /\ pc = "cursor" => next \in walked
  /\ walked \subseteq slots

\* What a row says, and what either task has observed and not yet written.
FinalityInv ==
  /\ final <= tip
  /\ pc \in {"facts", "upsert"} /\ got = "finalized" => next <= final
  /\ \A h \in observed : h <= final
  /\ \A h \in Height : finality[h] = "finalized" => h <= final /\ stamps[h] > 0

IInv == TypeOK /\ WalkInv /\ FinalityInv

USE DEF NoStartHeight, NoCursor

\* The walk starts at a natural number.
LEMMA BaseNat == Base \in Nat
  BY StartHeightAssumption DEF Base

\* The initial state is one of the invariant's.
LEMMA InitInv == Init => IInv
<1> SUFFICES ASSUME Init PROVE IInv
  OBVIOUS
<1> USE BaseNat, MaxHeightAssumption DEF Init
<1>1. TypeOK
  <2>1. 0 \in Height
    BY DEF Height
  <2>2. identity \in BOOLEAN /\ gotFacts \in BOOLEAN
    BY Zenon
  <2> QED
    BY <2>1, <2>2 DEF TypeOK, Status, WalkPCs, PollPCs
<1>2. WalkInv
  BY DEF WalkInv, InSlot, Height
<1>3. FinalityInv
  BY DEF FinalityInv, Height
<1> QED
  BY <1>1, <1>2, <1>3 DEF IInv

\* In a slot, the height in hand is one of the chain's.
LEMMA InSlotHeight == TypeOK /\ WalkInv /\ InSlot => next \in Height
  BY MaxHeightAssumption DEF TypeOK, WalkInv, Height

\* Every step keeps the types.
LEMMA TypeStep ==
  ASSUME TypeOK, WalkInv, [Next]_vars
  PROVE  TypeOK'
<1> USE MaxHeightAssumption, MaxFaultsAssumption
<1> USE DEF TypeOK
<1>h. InSlot => next \in Height
  BY InSlotHeight
<1>1. CASE Produce
  BY <1>1 DEF Produce, slotVars, walkVars, pollVars, Height
<1>2. CASE Finalize
  BY <1>2 DEF Finalize, slotVars, walkVars, pollVars, Height
<1>3. CASE Bootstrap
  BY <1>3 DEF Bootstrap, chainVars, slotVars, pollVars, WalkPCs
<1>4. ASSUME NEW f \in BOOLEAN, Resume(f), UNCHANGED faults \/ Fault
      PROVE  TypeOK'
  <2>1. ResumeHeight(f) \in Nat
    BY StartHeightAssumption DEF ResumeHeight, Height
  <2> QED
    BY <1>4, <2>1
    DEF Resume, Fault, chainVars, slotVars, WalkPCs, PollPCs
<1>5. CASE FetchHead
  BY <1>5 DEF FetchHead, chainVars, slotVars, pollVars, WalkPCs
<1>6. CASE FetchSlot
  BY <1>6
  DEF FetchSlot, chainVars, slotVars, pollVars, WalkPCs, ChainStatus, Status
<1>7. CASE FetchSlotFailure
  BY <1>7 DEF FetchSlotFailure, Fault, chainVars, slotVars, pollVars, WalkPCs
<1>8. CASE SlotNotFound
  BY <1>8, <1>h
  DEF SlotNotFound, Advance, Fault, InSlot, chainVars, slotVars, pollVars,
      WalkPCs
<1>9. CASE FetchFacts
  BY <1>9 DEF FetchFacts, chainVars, slotVars, pollVars, WalkPCs
<1> DEFINE Columns == /\ slots' \subseteq Height
                     /\ finality' \in [Height -> Status]
                     /\ stamps' \in [Height -> Nat]
                     /\ prevHash' \subseteq Height
                     /\ facts' \subseteq Height
                     /\ blind' \subseteq Height
<1>w. ASSUME NEW d \in BOOLEAN, WriteSlot(next, got, gotFacts, d),
             pc = "upsert"
      PROVE  Columns
  BY <1>w, <1>h DEF WriteSlot, InSlot
<1>10. CASE UpsertSlot
  <2>1. pc = "upsert" /\ WriteSlot(next, got, gotFacts, TRUE)
    BY <1>10, Zenon DEF UpsertSlot
  <2>2. Columns
    BY <1>w, <2>1, Zenon
  <2> QED
    BY <1>10, <2>2 DEF UpsertSlot, chainVars, pollVars, WalkPCs
<1>11. CASE UpsertSlotBlind
  <2>1. pc = "upsert" /\ WriteSlot(next, got, gotFacts, FALSE)
    BY <1>11, Zenon DEF UpsertSlotBlind
  <2>2. Columns
    BY <1>w, <2>1, Zenon
  <2> QED
    BY <1>11, <2>2 DEF UpsertSlotBlind, Fault, chainVars, pollVars, WalkPCs
<1>12. CASE UpsertSlotFailure
  <2>1. \/ UNCHANGED slotVars
        \/ /\ pc = "upsert"
           /\ \E d \in BOOLEAN : WriteSlot(next, got, gotFacts, d)
    BY <1>12, Zenon DEF UpsertSlotFailure
  <2>2. Columns
    BY <1>w, <2>1 DEF slotVars
  <2> QED
    BY <1>12, <2>2
    DEF UpsertSlotFailure, Fault, chainVars, pollVars, WalkPCs
<1>13. CASE IngestTransactions
  BY <1>13, <1>h
  DEF IngestTransactions, InSlot, chainVars, slotVars, pollVars, WalkPCs
<1>14. CASE WriteCursor
  BY <1>14, <1>h
  DEF WriteCursor, Advance, InSlot, chainVars, slotVars, pollVars, WalkPCs
<1>15. CASE WriteCursorFailure
  BY <1>15
  DEF WriteCursorFailure, Advance, Fault, chainVars, slotVars, pollVars,
      WalkPCs
<1>16. CASE ScanPending
  BY <1>16
  DEF ScanPending, PendingHeights, chainVars, slotVars, walkVars, PollPCs
<1>17. CASE PollSlot
  BY <1>17
  DEF PollSlot, Polled, IsFirst, chainVars, slotVars, walkVars, PollPCs
<1>18. CASE PollSlotFailure
  BY <1>18
  DEF PollSlotFailure, Polled, Fault, chainVars, slotVars, walkVars, PollPCs
<1>f. ASSUME NEW h \in Height, FlipRow(h) \/ UNCHANGED <<finality, stamps>>
      PROVE  finality' \in [Height -> Status] /\ stamps' \in [Height -> Nat]
  BY <1>f DEF FlipRow, Status
<1>19. CASE FlipPending
  BY <1>19, <1>f DEF FlipPending, chainVars, walkVars, PollPCs
<1>20. CASE FlipPendingFailure
  BY <1>20, <1>f
  DEF FlipPendingFailure, Fault, chainVars, walkVars, PollPCs
<1>21. CASE Crash
  <2>1. 0 \in Height
    BY DEF Height
  <2>2. gotFacts' \in BOOLEAN
    BY <1>21, Zenon DEF Crash
  <2> QED
    BY <1>21, <2>1, <2>2
    DEF Crash, Fault, chainVars, slotVars, WalkPCs, PollPCs, Status
<1>22. CASE UNCHANGED vars
  BY <1>22 DEF vars
<1> QED
  BY <1>1, <1>2, <1>3, <1>4, <1>5, <1>6, <1>7, <1>8, <1>9, <1>10, <1>11,
     <1>12, <1>13, <1>14, <1>15, <1>16, <1>17, <1>18, <1>19, <1>20, <1>21,
     <1>22
  DEF Next, WalkStep, PollStep, FaultStep, ResumeFromCursor,
      ResumeReadFailure

\* Nothing settled is lost by a step that only adds rows, walks and skips.
LEMMA SettledGrows ==
  ASSUME slots \subseteq slots', walked \subseteq walked',
         skipped \subseteq skipped'
  PROVE  \A h : Settled(h) => Settled(h)'
  BY DEF Settled

\* A walk resumed at its base or right above c leaves nothing out above c.
LEMMA ResumePrefix ==
  ASSUME NEW n \in Int, NEW c \in Int, n <= Base \/ n = c + 1
  PROVE  Base..(n - 1) \subseteq Base..c
  BY BaseNat

\* Every step keeps the walk's own invariant.
LEMMA WalkInvStep ==
  ASSUME TypeOK, WalkInv, [Next]_vars
  PROVE  WalkInv'
<1> USE BaseNat, MaxHeightAssumption
<1> USE DEF TypeOK, WalkInv, InSlot, Height
<1>1. CASE Produce
  BY <1>1 DEF Produce, slotVars, walkVars, pollVars, Settled
<1>2. CASE Finalize
  BY <1>2 DEF Finalize, slotVars, walkVars, pollVars, Settled
<1>3. CASE Bootstrap
  BY <1>3 DEF Bootstrap, chainVars, slotVars, pollVars, Settled
<1>4. ASSUME NEW f \in BOOLEAN, Resume(f) PROVE WalkInv'
  <2>1. /\ pc' = "head"
        /\ next' \in Int
        /\ Base <= next'
        /\ next' <= Base \/ next' = cursor + 1
    BY <1>4, StartHeightAssumption DEF Resume, ResumeHeight, Base
  <2>2. UNCHANGED <<chainVars, cursor, slots, walked, skipped, seen>>
    BY <1>4 DEF Resume, slotVars
  <2>3. \A h \in Base..(next' - 1) : Settled(h)
    <3>1. cursor \in Int
      OBVIOUS
    <3>2. Base..(next' - 1) \subseteq Base..cursor
      BY <2>1, <3>1, ResumePrefix
    <3> QED
      BY <3>2
  <2> QED
    BY <2>1, <2>2, <2>3 DEF chainVars, Settled
<1>5. CASE FetchHead
  BY <1>5 DEF FetchHead, chainVars, slotVars, pollVars, Settled
<1>6. CASE FetchSlot
  BY <1>6 DEF FetchSlot, chainVars, slotVars, pollVars, Settled
<1>7. CASE FetchSlotFailure
  BY <1>7 DEF FetchSlotFailure, chainVars, slotVars, pollVars, Settled
<1>8. CASE SlotNotFound
  <2>1. \A h : Settled(h) => Settled(h)'
    BY <1>8, SettledGrows DEF SlotNotFound, slotVars
  <2>2. next' = next + 1 /\ next \in skipped'
    BY <1>8 DEF SlotNotFound, Advance
  <2>3. \A h \in Base..(next' - 1) : h \in Base..(next - 1) \/ h = next
    BY <2>2
  <2>4. \A h \in Base..(next' - 1) : Settled(h)'
    BY <1>8, <2>1, <2>2, <2>3 DEF SlotNotFound, Settled
  <2> QED
    BY <1>8, <2>1, <2>4
    DEF SlotNotFound, Advance, chainVars, slotVars, pollVars
<1>9. CASE FetchFacts
  BY <1>9 DEF FetchFacts, chainVars, slotVars, pollVars, Settled
<1>w. ASSUME slots' \in {slots, slots \cup {next}},
             UNCHANGED <<chainVars, cursor, walked, skipped, next, seen>>,
             pc = "upsert",
             pc' = "head" \/ (pc' = "txs" /\ next \in slots')
      PROVE  WalkInv'
  <2>1. \A h : Settled(h) => Settled(h)'
    BY <1>w, SettledGrows
  <2> QED
    BY <1>w, <2>1 DEF chainVars
<1>10. CASE UpsertSlot
  BY <1>10, <1>w DEF UpsertSlot, WriteSlot
<1>11. CASE UpsertSlotBlind
  BY <1>11, <1>w DEF UpsertSlotBlind, WriteSlot
<1>12. CASE UpsertSlotFailure
  BY <1>12, <1>w DEF UpsertSlotFailure, WriteSlot, slotVars
<1>13. CASE IngestTransactions
  <2>1. \A h : Settled(h) => Settled(h)'
    BY <1>13, SettledGrows DEF IngestTransactions, slotVars
  <2> QED
    BY <1>13, <2>1
    DEF IngestTransactions, chainVars, slotVars, pollVars
<1>c. ASSUME pc = "cursor" PROVE \A h \in Base..next : Settled(h)
  BY <1>c DEF Settled
<1>14. CASE WriteCursor
  BY <1>14, <1>c
  DEF WriteCursor, Advance, chainVars, slotVars, pollVars, Settled
<1>15. CASE WriteCursorFailure
  BY <1>15, <1>c
  DEF WriteCursorFailure, Advance, chainVars, slotVars, pollVars, Settled
<1>16. CASE PollStep \/ PollSlotFailure \/ FlipPendingFailure
  <2>1. UNCHANGED <<chainVars, cursor, slots, walked, skipped, walkVars>>
    BY <1>16
    DEF PollStep, ScanPending, PollSlot, PollSlotFailure, FlipPending,
        FlipPendingFailure, slotVars
  <2> QED
    BY <2>1 DEF chainVars, walkVars, Settled
<1>17. CASE Crash
  BY <1>17 DEF Crash, chainVars, slotVars, Settled
<1>18. CASE UNCHANGED vars
  BY <1>18 DEF vars, Settled
<1> QED
  BY <1>1, <1>2, <1>3, <1>4, <1>5, <1>6, <1>7, <1>8, <1>9, <1>10, <1>11,
     <1>12, <1>13, <1>14, <1>15, <1>16, <1>17, <1>18
  DEF Next, WalkStep, FaultStep, ResumeFromCursor, ResumeReadFailure

\* Every step keeps what rows and tasks know about finality true.
LEMMA FinalityInvStep ==
  ASSUME TypeOK, WalkInv, FinalityInv, [Next]_vars
  PROVE  FinalityInv'
<1> USE MaxHeightAssumption DEF TypeOK, FinalityInv
<1>h. InSlot => next \in Height
  BY InSlotHeight
<1>i. Height \subseteq Int
  BY DEF Height
<1>1. CASE Produce
  BY <1>1, <1>i DEF Produce, slotVars, walkVars, pollVars
<1>2. CASE Finalize
  BY <1>2, <1>i DEF Finalize, slotVars, walkVars, pollVars
<1>3. CASE FetchSlot
  BY <1>3
  DEF FetchSlot, ChainStatus, chainVars, slotVars, pollVars
<1>4. CASE \/ Bootstrap \/ ResumeFromCursor \/ ResumeReadFailure \/ FetchHead
           \/ FetchSlotFailure \/ SlotNotFound \/ FetchFacts
           \/ IngestTransactions \/ WriteCursor \/ WriteCursorFailure
  <2>1. UNCHANGED <<tip, final, finality, stamps, observed>>
    BY <1>4
    DEF Bootstrap, ResumeFromCursor, ResumeReadFailure, Resume, FetchHead,
        FetchSlotFailure, SlotNotFound, FetchFacts, IngestTransactions,
        WriteCursor, WriteCursorFailure, chainVars, slotVars, pollVars
  <2>2. \/ pc' \notin {"facts", "upsert"}
        \/ pc = "facts" /\ UNCHANGED <<got, next>>
    BY <1>4
    DEF Bootstrap, ResumeFromCursor, ResumeReadFailure, Resume, FetchHead,
        FetchSlotFailure, SlotNotFound, FetchFacts, IngestTransactions,
        WriteCursor, WriteCursorFailure, Advance
  <2> QED
    BY <2>1, <2>2
<1>w. ASSUME NEW d, WriteSlot(next, got, gotFacts, d), pc = "upsert"
      PROVE  \A h \in Height :
               finality'[h] = "finalized" => h <= final /\ stamps'[h] > 0
  BY <1>w, <1>h DEF WriteSlot, InSlot
<1>5. CASE UpsertSlot \/ UpsertSlotBlind \/ UpsertSlotFailure
  <2>1. \A h \in Height :
          finality'[h] = "finalized" => h <= final /\ stamps'[h] > 0
    BY <1>5, <1>w, Zenon
    DEF UpsertSlot, UpsertSlotBlind, UpsertSlotFailure, slotVars
  <2>2. UNCHANGED <<tip, final, observed>> /\ pc' \in {"txs", "head"}
    BY <1>5
    DEF UpsertSlot, UpsertSlotBlind, UpsertSlotFailure, chainVars, pollVars
  <2> QED
    BY <2>1, <2>2
<1>6. CASE ScanPending \/ PollSlot \/ PollSlotFailure
  <2>1. \A h \in observed' : h <= final
    BY <1>6
    DEF ScanPending, PollSlot, PollSlotFailure, Polled, ChainStatus
  <2>2. UNCHANGED <<tip, final, finality, stamps, pc, got, next>>
    BY <1>6
    DEF ScanPending, PollSlot, PollSlotFailure, chainVars, slotVars, walkVars
  <2> QED
    BY <2>1, <2>2
<1>7. CASE FlipPending \/ FlipPendingFailure
  <2>1. PICK h \in Height :
          /\ IsFirst(h, observed)
          /\ FlipRow(h) \/ UNCHANGED <<finality, stamps>>
    BY <1>7 DEF FlipPending, FlipPendingFailure
  <2>2. \A k \in Height :
          finality'[k] = "finalized" => k <= final /\ stamps'[k] > 0
    BY <2>1 DEF IsFirst, FlipRow
  <2>3. UNCHANGED <<tip, final, pc, got, next>> /\ observed' \subseteq observed
    BY <1>7 DEF FlipPending, FlipPendingFailure, chainVars, walkVars
  <2> QED
    BY <2>2, <2>3
<1>8. CASE Crash
  BY <1>8 DEF Crash, chainVars, slotVars
<1>9. CASE UNCHANGED vars
  BY <1>9 DEF vars
<1> QED
  BY <1>1, <1>2, <1>3, <1>4, <1>5, <1>6, <1>7, <1>8, <1>9
  DEF Next, WalkStep, PollStep, FaultStep

\* The inductive invariant holds in every reachable state.
LEMMA Invariance == Spec => []IInv
<1>1. IInv /\ [Next]_vars => IInv'
  BY TypeStep, WalkInvStep, FinalityInvStep DEF IInv
<1> QED
  BY InitInv, <1>1, PTL DEF Spec

\* TypeOK holds in every state: in particular the walk never writes a row or
\* the cursor for a height the chain has not produced (run, ingest.rs:50-211).
THEOREM TypeCorrect == Spec => []TypeOK
<1>1. IInv => TypeOK
  BY DEF IInv
<1> QED
  BY Invariance, <1>1, PTL

\* The resume cursor never leaves a gap behind it, for any number of heights
\* and faults and for any start height (run, ingest.rs:50-211).
THEOREM GapFree == Spec => []NoSilentGap
<1>1. IInv => NoSilentGap
  BY DEF IInv, WalkInv, NoSilentGap
<1> QED
  BY Invariance, <1>1, PTL

\* A row that says finalized is the chain's own verdict and has its stamp,
\* whichever of the two tasks wrote it (upsert_slot and flip_pending_slots,
\* db.rs:83-240).
THEOREM FinalityIsTrue == Spec => []FinalityTruthful
<1>1. IInv => FinalityTruthful
  BY DEF IInv, TypeOK, FinalityInv, FinalityTruthful
<1> QED
  BY Invariance, <1>1, PTL

\* What one step does to the slots table: a row is written by upsert_slot or
\* flipped by the re-poll, or nothing but the re-poll's two columns changes.
LEMMA RowsStep ==
  ASSUME [Next]_vars
  PROVE  \/ /\ pc = "upsert" /\ UNCHANGED skipped
            /\ \E d \in BOOLEAN : WriteSlot(next, got, gotFacts, d)
         \/ /\ UNCHANGED <<slots, prevHash, facts, blind>>
            /\ skipped \subseteq skipped'
            /\ \/ UNCHANGED stamps
               \/ \E h \in Height : FlipRow(h)
<1>1. CASE UpsertSlot \/ UpsertSlotBlind \/ UpsertSlotFailure
  BY <1>1, Zenon
  DEF UpsertSlot, UpsertSlotBlind, UpsertSlotFailure, slotVars
<1>2. CASE FlipPending \/ FlipPendingFailure
  BY <1>2, Zenon DEF FlipPending, FlipPendingFailure
<1>3. CASE \/ Produce \/ Finalize \/ Bootstrap \/ ResumeFromCursor
           \/ ResumeReadFailure \/ FetchHead \/ FetchSlot \/ FetchSlotFailure
           \/ SlotNotFound \/ FetchFacts \/ IngestTransactions \/ WriteCursor
           \/ WriteCursorFailure \/ ScanPending \/ PollSlot
           \/ PollSlotFailure \/ Crash \/ UNCHANGED vars
  BY <1>3
  DEF Produce, Finalize, Bootstrap, ResumeFromCursor, ResumeReadFailure,
      Resume, FetchHead, FetchSlot, FetchSlotFailure, SlotNotFound,
      FetchFacts, IngestTransactions, WriteCursor, WriteCursorFailure,
      ScanPending, PollSlot, PollSlotFailure, Crash, vars, slotVars
<1> QED
  BY <1>1, <1>2, <1>3 DEF Next, WalkStep, PollStep, FaultStep

\* No column that is filled is blanked by a step.
LEMMA ColumnsStep ==
  ASSUME TypeOK, WalkInv, [Next]_vars
  PROVE  /\ slots \subseteq slots'
         /\ prevHash \subseteq prevHash'
         /\ facts \subseteq facts'
         /\ \A h \in Height : stamps[h] > 0 => stamps'[h] > 0
<1>h. InSlot => next \in Height
  BY InSlotHeight
<1>1. ASSUME pc = "upsert", NEW d \in BOOLEAN,
             WriteSlot(next, got, gotFacts, d)
      PROVE  \A h \in Height : stamps[h] > 0 => stamps'[h] > 0
  BY <1>1, <1>h DEF WriteSlot, TypeOK, InSlot
<1>2. ASSUME NEW h \in Height, FlipRow(h)
      PROVE  \A k \in Height : stamps[k] > 0 => stamps'[k] > 0
  BY <1>2 DEF FlipRow, TypeOK
<1>3. CASE pc = "upsert"
           /\ \E d \in BOOLEAN : WriteSlot(next, got, gotFacts, d)
  BY <1>1, <1>3 DEF WriteSlot
<1>4. CASE /\ UNCHANGED <<slots, prevHash, facts>>
           /\ UNCHANGED stamps \/ \E h \in Height : FlipRow(h)
  BY <1>2, <1>4
<1> QED
  BY <1>3, <1>4, RowsStep

\* No step of either task, and no crash, ever blanks a column an earlier pass
\* filled or loses a row (upsert_slot, db.rs:83-188).
THEOREM NeverForgets == Spec => NothingForgotten
<1>1. IInv /\ [Next]_vars
        => [/\ slots \subseteq slots'
            /\ prevHash \subseteq prevHash'
            /\ facts \subseteq facts'
            /\ \A h \in Height : stamps[h] > 0 => stamps'[h] > 0]_vars
  BY ColumnsStep DEF IInv
<1> QED
  BY Invariance, <1>1, PTL DEF Spec, NothingForgotten

\* Every step keeps the rows linked.  What does the work is WalkInv: when
\* upsert_slot runs, the height below the one in hand is settled.
LEMMA PrevHashStep ==
  ASSUME TypeOK, WalkInv, PrevHashLinked, [Next]_vars
  PROVE  PrevHashLinked'
<1> USE DEF PrevHashLinked
<1>1. CASE /\ pc = "upsert" /\ UNCHANGED skipped
           /\ \E d \in BOOLEAN : WriteSlot(next, got, gotFacts, d)
  <2>1. PICK d \in BOOLEAN : WriteSlot(next, got, gotFacts, d)
    BY <1>1
  <2>2. next = Base \/ next - 1 \in skipped \/ next - 1 \in slots
    <3>1. SUFFICES ASSUME next # Base PROVE Settled(next - 1)
      BY DEF Settled
    <3>2. next \in Nat /\ Base <= next
      BY <1>1 DEF TypeOK, WalkInv
    <3>3. next - 1 \in Base..(next - 1)
      BY <3>1, <3>2, BaseNat
    <3> QED
      BY <1>1, <3>3 DEF WalkInv
  <2>3. /\ PrevHashKnown(next, d) =>
             next \in Linked \/ next - 1 \in slots
        /\ ~PrevHashKnown(next, d) =>
             /\ next \notin Linked
             /\ next = Base \/ next - 1 \in skipped \/ ~d
    <3>1. next \in Nat /\ Base <= next
      BY <1>1 DEF TypeOK, WalkInv
    <3> QED
      BY <2>2, <3>1, BaseNat DEF PrevHashKnown, LooksUp
  <2>4. ~d => next \in blind'
    BY <2>1 DEF WriteSlot
  <2>5. slots' = slots \cup {next} /\ blind \subseteq blind'
    BY <2>1 DEF WriteSlot
  <2>6. CASE PrevHashKnown(next, d)
    BY <1>1, <2>1, <2>3, <2>5, <2>6 DEF WriteSlot
  <2>7. CASE ~PrevHashKnown(next, d)
    BY <1>1, <2>1, <2>3, <2>4, <2>5, <2>7 DEF WriteSlot
  <2> QED
    BY <2>6, <2>7
<1>2. CASE /\ UNCHANGED <<slots, prevHash, facts, blind>>
           /\ skipped \subseteq skipped'
  BY <1>2
<1> QED
  BY <1>1, <1>2, RowsStep

\* A derived prev_hash names a stored row, and no crash, restart, lost cursor
\* or failed write is a reason for a missing one (upsert_slot, db.rs:107-124,
\* under the walk of ingest.rs:122-210).
THEOREM PrevHashIsLinked == Spec => []PrevHashLinked
<1>1. Init => PrevHashLinked
  BY DEF Init, PrevHashLinked
<1>2. IInv /\ PrevHashLinked /\ [Next]_vars => PrevHashLinked'
  BY PrevHashStep DEF IInv
<1> QED
  BY Invariance, <1>1, <1>2, PTL DEF Spec

\* What one step does to the settled heights and to the cursor.
LEMMA BackfillStep ==
  ASSUME TypeOK, WalkInv, [Next]_vars
  PROVE  [B!Next]_<<{h \in Height : Settled(h)}, cursor>>
<1> DEFINE S == {h \in Height : Settled(h)}
<1> USE BaseNat
<1>h. InSlot => next \in Base..MaxHeight /\ Base..(next - 1) \subseteq S
  <2> SUFFICES ASSUME InSlot
               PROVE  next \in Base..MaxHeight /\ Base..(next - 1) \subseteq S
    OBVIOUS
  <2>1. /\ next \in Height
        /\ Base <= next
        /\ \A h \in Base..(next - 1) : Settled(h)
    BY InSlotHeight DEF WalkInv, InSlot
  <2> QED
    BY <2>1, MaxHeightAssumption DEF Height
<1>1. CASE UNCHANGED <<cursor, slots, walked, skipped>>
  BY <1>1 DEF Settled
<1>2. CASE SlotNotFound \/ IngestTransactions
  <2>1. InSlot /\ UNCHANGED cursor
    BY <1>2 DEF SlotNotFound, IngestTransactions, InSlot
  <2>2. S' = S \cup {next}
    BY <1>2, <2>1, InSlotHeight
    DEF SlotNotFound, IngestTransactions, WalkInv, Settled, slotVars
  <2> QED
    BY <1>h, <2>1, <2>2 DEF B!Next, B!Settle
<1>3. CASE WriteCursor
  <2>1. InSlot /\ cursor' = next /\ UNCHANGED S
    BY <1>3 DEF WriteCursor, InSlot, Settled, slotVars
  <2>2. next \in S
    BY <1>3, InSlotHeight DEF WriteCursor, InSlot, WalkInv, Settled
  <2>3. Base..next \subseteq S
    BY <1>h, <2>1, <2>2
  <2> QED
    BY <1>h, <2>1, <2>3 DEF B!Next, B!Promise
<1>4. CASE UpsertSlot \/ UpsertSlotBlind \/ UpsertSlotFailure
  <2>1. /\ slots' \in {slots, slots \cup {next}}
        /\ UNCHANGED <<cursor, walked, skipped>>
    BY <1>4
    DEF UpsertSlot, UpsertSlotBlind, UpsertSlotFailure, WriteSlot, slotVars
  <2>2. UNCHANGED S
    BY <2>1 DEF WalkInv, Settled
  <2> QED
    BY <2>1, <2>2
<1>5. CASE \/ Produce \/ Finalize \/ Bootstrap \/ ResumeFromCursor
           \/ ResumeReadFailure \/ FetchHead \/ FetchSlot \/ FetchSlotFailure
           \/ FetchFacts \/ WriteCursorFailure \/ PollStep
           \/ PollSlotFailure \/ FlipPendingFailure \/ Crash
           \/ UNCHANGED vars
  <2>1. UNCHANGED <<cursor, slots, walked, skipped>>
    BY <1>5
    DEF Produce, Finalize, Bootstrap, ResumeFromCursor, ResumeReadFailure,
        Resume, FetchHead, FetchSlot, FetchSlotFailure, FetchFacts,
        WriteCursorFailure, PollStep, ScanPending, PollSlot, FlipPending,
        PollSlotFailure, FlipPendingFailure, Crash, vars, slotVars
  <2> QED
    BY <1>1, <2>1
<1> QED
  BY <1>2, <1>3, <1>4, <1>5 DEF Next, WalkStep, FaultStep

\* The walk implements the abstract backfill for every value of the
\* constants (run, ingest.rs:50-211).
THEOREM BackfillRefined == Spec => RefinesBackfill
<1>1. Init => B!Init
  BY DEF Init, B!Init, B!NoMark, Settled
<1>2. IInv /\ [Next]_vars => [B!Next]_<<{h \in Height : Settled(h)}, cursor>>
  BY BackfillStep DEF IInv
<1> QED
  BY Invariance, <1>1, <1>2, PTL DEF Spec, RefinesBackfill, B!Spec
=============================================================================
