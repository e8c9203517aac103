----------------------------- MODULE SlotIngest -----------------------------
(***************************************************************************)
(* The slot level of the indexer (crates/indexer/src/ingest.rs, db.rs).    *)
(*                                                                         *)
(* Two tasks of one process share a Postgres database:                     *)
(*                                                                         *)
(*   - the forward walk `run`: bootstrap the chain identity, resolve the   *)
(*     resume cursor, then visit every height up to the chain's head:      *)
(*     fetch the slot, fetch the facts of its first batch, upsert the      *)
(*     slot row, ingest the slot's transactions, write the cursor;         *)
(*   - the finality re-poll `repoll_pending_loop`: read the pending        *)
(*     heights, re-fetch each one, flip those the chain reports finalized. *)
(*                                                                         *)
(* Every await of either task is a step boundary.  The process may crash   *)
(* between any two steps and start again; a call to the node or to         *)
(* Postgres may fail, and a failed write may or may not have been applied. *)
(* An attempt that fails and only backs off before it is made again (the   *)
(* bootstrap, the head fetch, the pending scan) changes nothing: it is a   *)
(* stuttering step.                                                        *)
(*                                                                         *)
(* The tables are kept by column: `slots` is the set of primary keys.      *)
(***************************************************************************)
EXTENDS Integers

CONSTANTS
  MaxHeight,    \* bound: the last height the chain produces
  MaxFaults,    \* bound: crashes, failed calls and 404s, taken together
  StartHeight,  \* the CLI start height, or NoStartHeight
  Unreported,   \* heights whose slot JSON carries no finality_status
  Linked        \* heights whose slot JSON carries a prev_hash

NoStartHeight == -1
NoCursor      == -1

ASSUME MaxHeightAssumption   == MaxHeight \in Nat
ASSUME MaxFaultsAssumption   == MaxFaults \in Nat
ASSUME StartHeightAssumption == StartHeight \in Nat \cup {NoStartHeight}
ASSUME UnreportedAssumption  == Unreported \subseteq Nat
ASSUME LinkedAssumption      == Linked \subseteq Nat

VARIABLES
  tip,       \* the chain: highest produced height
  final,     \* the chain: highest finalized height
  identity,  \* indexer_state: the three chain-identity keys are written
  cursor,    \* indexer_state: last_indexed_height, or NoCursor
  slots,     \* slots: the heights that have a row
  finality,  \* slots.finality_status
  stamps,    \* slots.finalized_at: 0 is NULL, k the k-th NOW() written
  prevHash,  \* slots.prev_hash IS NOT NULL
  facts,     \* slots.proposer / da_block_height IS NOT NULL
  walked,    \* heights whose ingest_slot_transactions call has returned
  blind,     \* history: heights written after a failed predecessor lookup
  skipped,   \* history: heights the node answered 404 for on the walk
  pc,        \* the forward walk: its next await
  next,      \* the forward walk: next_height
  seen,      \* the forward walk: head
  got,       \* the forward walk: finality_status of the fetched slot
  gotFacts,  \* the forward walk: the first batch yielded its facts
  rpc,       \* the re-poll: its next await
  todo,      \* the re-poll: pending heights not re-fetched yet
  observed,  \* the re-poll: heights observed finalized, not flipped yet
  faults     \* faults taken so far

chainVars == <<tip, final>>
slotVars  == <<slots, finality, stamps, prevHash, facts, blind>>
walkVars  == <<pc, next, seen, got, gotFacts>>
pollVars  == <<rpc, todo, observed>>
vars == <<tip, final, identity, cursor, slots, finality, stamps, prevHash,
          facts, blind, walked, skipped, pc, next, seen, got, gotFacts, rpc,
          todo, observed, faults>>

Height  == 0..MaxHeight
Status  == {"null", "pending", "finalized"}
WalkPCs == {"boot", "resume", "head", "fetch", "facts", "upsert", "txs",
            "cursor"}
PollPCs == {"off", "scan", "poll", "flip"}

\* The first height the walk is answerable for.
Base == IF StartHeight = NoStartHeight THEN 1 ELSE StartHeight

\* finality_status in the node's slot JSON for a produced height.
ChainStatus(h) ==
  IF h \in Unreported THEN "null"
  ELSE IF h <= final THEN "finalized" ELSE "pending"

TypeOK ==
  /\ tip \in Height
  /\ final \in Height
  /\ identity \in BOOLEAN
  /\ cursor \in Height \cup {NoCursor}
  /\ slots \subseteq Height
  /\ finality \in [Height -> Status]
  /\ stamps \in [Height -> Nat]
  /\ prevHash \subseteq Height
  /\ facts \subseteq Height
  /\ blind \subseteq Height
  /\ walked \subseteq Height
  /\ skipped \subseteq Height
  /\ pc \in WalkPCs
  /\ next \in Nat
  /\ seen \in Height
  /\ got \in Status
  /\ gotFacts \in BOOLEAN
  /\ rpc \in PollPCs
  /\ todo \subseteq Height
  /\ observed \subseteq Height
  /\ faults \in Nat

Init ==
  /\ tip = 0
  /\ final = 0
  /\ identity = FALSE
  /\ cursor = NoCursor
  /\ slots = {}
  /\ finality = [h \in Height |-> "null"]
  /\ stamps = [h \in Height |-> 0]
  /\ prevHash = {}
  /\ facts = {}
  /\ blind = {}
  /\ walked = {}
  /\ skipped = {}
  /\ pc = "boot"
  /\ next = 1
  /\ seen = 0
  /\ got = "null"
  /\ gotFacts = FALSE
  /\ rpc = "off"
  /\ todo = {}
  /\ observed = {}
  /\ faults = 0

Fault ==
  /\ faults < MaxFaults
  /\ faults' = faults + 1

-----------------------------------------------------------------------------
(***************************************************************************)
(* The chain (external): heights are produced and finalized in order.      *)
(***************************************************************************)
Produce ==
  /\ tip < MaxHeight
  /\ tip' = tip + 1
  /\ UNCHANGED <<final, identity, cursor, slotVars, walked, skipped, walkVars,
                 pollVars, faults>>

Finalize ==
  /\ final < tip
  /\ final' = final + 1
  /\ UNCHANGED <<tip, identity, cursor, slotVars, walked, skipped, walkVars,
                 pollVars, faults>>

-----------------------------------------------------------------------------
(***************************************************************************)
(* The forward walk.                                                       *)
(***************************************************************************)

\* rollup_info answered and write_chain_identity committed its three keys.
Bootstrap ==
  /\ pc = "boot"
  /\ identity' = TRUE
  /\ pc' = "resume"
  /\ UNCHANGED <<chainVars, cursor, slotVars, walked, skipped, next, seen, got,
                 gotFacts, pollVars, faults>>

\* Mutant: the restart skips the height after the cursor.
ResumeHeightSkips(readFails) ==
  IF StartHeight # NoStartHeight THEN StartHeight
  ELSE IF readFails \/ cursor = NoCursor THEN 1 ELSE cursor + 2

\* The height the walk starts from; `readFails` is an error of
\* read_last_indexed_height, which falls back to 1.
ResumeHeight(readFails) ==
  IF StartHeight # NoStartHeight THEN StartHeight
  ELSE IF readFails \/ cursor = NoCursor THEN 1 ELSE cursor + 1

\* Resolve the cursor and spawn the re-poll task.
Resume(readFails) ==
  /\ pc = "resume"
  /\ next' = ResumeHeight(readFails)
  /\ pc' = "head"
  /\ rpc' = "scan"
  /\ UNCHANGED <<chainVars, identity, cursor, slotVars, walked, skipped, seen,
                 got, gotFacts, todo, observed>>

ResumeFromCursor  == Resume(FALSE) /\ UNCHANGED faults
ResumeReadFailure == StartHeight = NoStartHeight /\ Resume(TRUE) /\ Fault

\* The walk fetches the head and enters the catch-up loop, or tails.
FetchHead ==
  /\ pc = "head"
  /\ seen' = tip
  /\ pc' = IF next > tip THEN "head" ELSE "fetch"
  /\ UNCHANGED <<chainVars, identity, cursor, slotVars, walked, skipped, next,
                 got, gotFacts, pollVars, faults>>

FetchSlot ==
  /\ pc = "fetch"
  /\ got' = ChainStatus(next)
  /\ pc' = "facts"
  /\ UNCHANGED <<chainVars, identity, cursor, slotVars, walked, skipped, next,
                 seen, gotFacts, pollVars, faults>>

FetchSlotFailure ==
  /\ pc = "fetch"
  /\ pc' = "head"
  /\ Fault
  /\ UNCHANGED <<chainVars, identity, cursor, slotVars, walked, skipped, next,
                 seen, got, gotFacts, pollVars>>

\* Mutant: `while next_height <= head` tests the height before the increment.
AdvancePastHead ==
  /\ next' = next + 1
  /\ pc' = IF next <= seen THEN "fetch" ELSE "head"

\* `while next_height <= head`, after next_height = h + 1.
Advance ==
  /\ next' = next + 1
  /\ pc' = IF next + 1 <= seen THEN "fetch" ELSE "head"

\* A 404 for a known height: skip it, and leave the cursor alone.
SlotNotFound ==
  /\ pc = "fetch"
  /\ skipped' = skipped \cup {next}
  /\ Advance
  /\ Fault
  /\ UNCHANGED <<chainVars, identity, cursor, slotVars, walked, seen, got,
                 gotFacts, pollVars>>

\* A slot without batches, a 404 and a failed fetch all yield NULL facts.
FetchFacts ==
  /\ pc = "facts"
  /\ gotFacts' \in BOOLEAN
  /\ pc' = "upsert"
  /\ UNCHANGED <<chainVars, identity, cursor, slotVars, walked, skipped, next,
                 seen, got, pollVars, faults>>

\* upsert_slot has to look up the predecessor: the slot JSON carries no
\* prev_hash, and the slot is not the genesis slot.
LooksUp(h) == h \notin Linked /\ h > 0

\* Mutant: a predecessor is taken for granted.
PrevHashAssumed(h, answered) == h \in Linked \/ (LooksUp(h) /\ answered)

\* upsert_slot has a prev_hash to write: the chain's own, or the hash of the
\* stored row of N - 1, if the lookup is `answered` and there is such a row.
PrevHashKnown(h, answered) ==
  h \in Linked \/ (LooksUp(h) /\ answered /\ h - 1 \in slots)

\* Mutant: EXCLUDED replaces the nullable columns, without COALESCE.
WriteSlotOverwrites(h, status, withFacts, answered) ==
  /\ slots' = slots \cup {h}
  /\ finality' = [finality EXCEPT ![h] = status]
  /\ stamps' = IF status = "finalized" /\ finality[h] # "finalized"
               THEN [stamps EXCEPT ![h] = @ + 1]
               ELSE stamps
  /\ prevHash' = IF PrevHashKnown(h, answered) THEN prevHash \cup {h}
                 ELSE prevHash \ {h}
  /\ facts' = IF withFacts THEN facts \cup {h} ELSE facts \ {h}
  /\ blind' = IF answered THEN blind ELSE blind \cup {h}

\* The INSERT ... ON CONFLICT of upsert_slot.
WriteSlot(h, status, withFacts, answered) ==
  /\ slots' = slots \cup {h}
  /\ finality' = [finality EXCEPT ![h] = status]
  /\ stamps' = IF status = "finalized" /\ finality[h] # "finalized"
               THEN [stamps EXCEPT ![h] = @ + 1]
               ELSE stamps
  /\ prevHash' = IF PrevHashKnown(h, answered) THEN prevHash \cup {h}
                 ELSE prevHash
  /\ facts' = IF withFacts THEN facts \cup {h} ELSE facts
  /\ blind' = IF answered THEN blind ELSE blind \cup {h}

UpsertSlot ==
  /\ pc = "upsert"
  /\ WriteSlot(next, got, gotFacts, TRUE)
  /\ pc' = "txs"
  /\ UNCHANGED <<chainVars, identity, cursor, walked, skipped, next, seen, got,
                 gotFacts, pollVars, faults>>

\* The predecessor lookup fails, which is swallowed: the row is written as
\* if there were no predecessor.
UpsertSlotBlind ==
  /\ pc = "upsert"
  /\ LooksUp(next)
  /\ WriteSlot(next, got, gotFacts, FALSE)
  /\ pc' = "txs"
  /\ Fault
  /\ UNCHANGED <<chainVars, identity, cursor, walked, skipped, next, seen, got,
                 gotFacts, pollVars>>

\* Mutant: an error of upsert_slot is logged and the walk goes on.
UpsertSlotFailureSkips ==
  /\ pc = "upsert"
  /\ \/ WriteSlot(next, got, gotFacts, TRUE)
     \/ LooksUp(next) /\ WriteSlot(next, got, gotFacts, FALSE)
     \/ UNCHANGED slotVars
  /\ Advance
  /\ Fault
  /\ UNCHANGED <<chainVars, identity, cursor, walked, skipped, seen, got,
                 gotFacts, pollVars>>

\* upsert_slot returns an error: the height is not left.  The statement may
\* have been applied all the same (the connection broke after the commit),
\* and the lookup before it may have failed too.
UpsertSlotFailure ==
  /\ pc = "upsert"
  /\ \/ WriteSlot(next, got, gotFacts, TRUE)
     \/ LooksUp(next) /\ WriteSlot(next, got, gotFacts, FALSE)
     \/ UNCHANGED slotVars
  /\ pc' = "head"
  /\ Fault
  /\ UNCHANGED <<chainVars, identity, cursor, walked, skipped, next, seen, got,
                 gotFacts, pollVars>>

\* ingest_slot_transactions returns, with or without an error: the caller
\* only logs the difference.  Module TxIngest has the inside of the call.
IngestTransactions ==
  /\ pc = "txs"
  /\ walked' = walked \cup {next}
  /\ pc' = "cursor"
  /\ UNCHANGED <<chainVars, identity, cursor, slotVars, skipped, next, seen,
                 got, gotFacts, pollVars, faults>>

WriteCursor ==
  /\ pc = "cursor"
  /\ cursor' = next
  /\ Advance
  /\ UNCHANGED <<chainVars, identity, slotVars, walked, skipped, seen, got,
                 gotFacts, pollVars, faults>>

\* A cursor write that is lost is only logged; the walk moves on.
WriteCursorFailure ==
  /\ pc = "cursor"
  /\ Advance
  /\ Fault
  /\ UNCHANGED <<chainVars, identity, cursor, slotVars, walked, skipped, seen,
                 got, gotFacts, pollVars>>

-----------------------------------------------------------------------------
(***************************************************************************)
(* The finality re-poll.  Both of its loops go through the heights in      *)
(* ascending order.                                                        *)
(***************************************************************************)
IsFirst(h, S) == h \in S /\ \A k \in S : h <= k

\* Mutant: the scan stops short of the cursor.
PendingHeightsBehindCursor ==
  {h \in slots : finality[h] = "pending" /\ h < cursor}

PendingHeights == {h \in slots : finality[h] = "pending"}

ScanPending ==
  /\ rpc = "scan"
  /\ todo' = PendingHeights
  /\ observed' = {}
  /\ rpc' = IF PendingHeights = {} THEN "scan" ELSE "poll"
  /\ UNCHANGED <<chainVars, identity, cursor, slotVars, walked, skipped,
                 walkVars, faults>>

\* `h` leaves the list; `seenFinal` holds the heights observed finalized.
Polled(h, seenFinal) ==
  /\ todo' = todo \ {h}
  /\ observed' = seenFinal
  /\ rpc' = IF todo # {h} THEN "poll"
            ELSE IF seenFinal # {} THEN "flip" ELSE "scan"

PollSlot ==
  /\ rpc = "poll"
  /\ \E h \in Height :
       /\ IsFirst(h, todo)
       /\ Polled(h, IF ChainStatus(h) = "finalized" THEN observed \cup {h}
                    ELSE observed)
  /\ UNCHANGED <<chainVars, identity, cursor, slotVars, walked, skipped,
                 walkVars, faults>>

\* A 404 or an error: the height waits for the next tick.
PollSlotFailure ==
  /\ rpc = "poll"
  /\ \E h \in Height : IsFirst(h, todo) /\ Polled(h, observed)
  /\ Fault
  /\ UNCHANGED <<chainVars, identity, cursor, slotVars, walked, skipped,
                 walkVars>>

\* Mutant: the flip forgets finalized_at.
FlipRowUnstamped(h) ==
  IF finality[h] = "pending"
  THEN /\ finality' = [finality EXCEPT ![h] = "finalized"]
       /\ UNCHANGED stamps
  ELSE UNCHANGED <<finality, stamps>>

\* UPDATE slots ... WHERE height = h AND finality_status = 'pending'.
FlipRow(h) ==
  IF finality[h] = "pending"
  THEN /\ finality' = [finality EXCEPT ![h] = "finalized"]
       /\ stamps' = [stamps EXCEPT ![h] = @ + 1]
  ELSE UNCHANGED <<finality, stamps>>

FlipPending ==
  /\ rpc = "flip"
  /\ \E h \in Height :
       /\ IsFirst(h, observed)
       /\ FlipRow(h)
       /\ observed' = observed \ {h}
       /\ rpc' = IF observed = {h} THEN "scan" ELSE "flip"
  /\ UNCHANGED <<chainVars, identity, cursor, slots, prevHash, facts, blind,
                 walked, skipped, walkVars, todo, faults>>

\* One UPDATE fails, applied or not: flip_pending_slots returns at once and
\* the rest of the list waits for the next tick.
FlipPendingFailure ==
  /\ rpc = "flip"
  /\ \E h \in Height :
       /\ IsFirst(h, observed)
       /\ FlipRow(h) \/ UNCHANGED <<finality, stamps>>
  /\ observed' = {}
  /\ rpc' = "scan"
  /\ Fault
  /\ UNCHANGED <<chainVars, identity, cursor, slots, prevHash, facts, blind,
                 walked, skipped, walkVars, todo>>

-----------------------------------------------------------------------------
\* The process dies and is started again: only Postgres survives.
Crash ==
  /\ pc' = "boot"
  /\ next' = 1
  /\ seen' = 0
  /\ got' = "null"
  /\ gotFacts' = FALSE
  /\ rpc' = "off"
  /\ todo' = {}
  /\ observed' = {}
  /\ Fault
  /\ UNCHANGED <<chainVars, identity, cursor, slotVars, walked, skipped>>

WalkStep ==
  \/ Bootstrap
  \/ ResumeFromCursor
  \/ FetchHead
  \/ FetchSlot
  \/ FetchFacts
  \/ UpsertSlot
  \/ IngestTransactions
  \/ WriteCursor

PollStep ==
  \/ ScanPending
  \/ PollSlot
  \/ FlipPending

FaultStep ==
  \/ ResumeReadFailure
  \/ FetchSlotFailure
  \/ SlotNotFound
  \/ UpsertSlotBlind
  \/ UpsertSlotFailure
  \/ WriteCursorFailure
  \/ PollSlotFailure
  \/ FlipPendingFailure
  \/ Crash

Next == Produce \/ Finalize \/ WalkStep \/ PollStep \/ FaultStep

Spec == Init /\ [][Next]_vars

\* Each task is an endless loop that the runtime keeps scheduling, and the
\* calls it waits for return; only finitely many of them fail.
FairSpec == Spec /\ WF_vars(WalkStep) /\ WF_vars(PollStep)

-----------------------------------------------------------------------------
(***************************************************************************)
(* Properties.                                                             *)
(***************************************************************************)

\* A height is settled once the walk has dealt with it: its row is stored
\* and its transactions were ingested, or the node answered 404.
Settled(h) == h \in skipped \/ (h \in slots /\ h \in walked)

\* The walk as an abstract backfill: see module Backfill.
B == INSTANCE Backfill WITH First <- Base, Last <- MaxHeight,
                            settled <- {h \in Height : Settled(h)},
                            mark <- cursor

\* The walk implements the abstract backfill: heights are settled upwards
\* without a gap, nothing settled is lost, and last_indexed_height is only
\* written above a gapless prefix, through crashes, failures and walks over
\* slots that were stored before (run, ingest.rs:50-211).
RefinesBackfill == B!Spec

\* The cursor promises that a restart loses nothing: every height from the
\* start of the walk to last_indexed_height is settled, whatever failed,
\* crashed or was walked again (run, ingest.rs:122-210).
NoSilentGap == \A h \in Base..cursor : Settled(h)

\* A row says finalized only if the chain has finalized that slot, and then
\* it carries a finalized_at stamp: neither a stale fetch of the walk nor a
\* late flip of the re-poll invents finality (db.rs:83-240).
FinalityTruthful ==
  \A h \in slots :
    finality[h] = "finalized" => h <= final /\ stamps[h] > 0

\* The blocks can be followed backwards through prev_hash.  A prev_hash the
\* slot did not carry names a stored row; a row above the first one lacks
\* its prev_hash only if the walk skipped the predecessor after a 404 or the
\* lookup failed, never because of a crash, a restart or a lost cursor
\* (upsert_slot, db.rs:107-124, under the walk of ingest.rs:122-210).
PrevHashLinked ==
  /\ \A h \in prevHash : h \in slots /\ (h \in Linked \/ h - 1 \in slots)
  /\ \A h \in slots \ prevHash :
       h \notin Linked /\ (h = Base \/ h - 1 \in skipped \/ h \in blind)

\* Re-ingest of a slot after a crash or an error never blanks a column that an
\* earlier pass filled and never loses a row (the COALESCEs of upsert_slot).
NothingForgotten ==
  [][/\ slots \subseteq slots'
     /\ prevHash \subseteq prevHash'
     /\ facts \subseteq facts'
     /\ \A h \in Height : stamps[h] > 0 => stamps'[h] > 0]_vars

\* Every height the chain produces is settled in the end, across crashes,
\* failed writes and cursor read failures.
EventuallySettled ==
  \A h \in Height : (Base <= h /\ h <= tip) ~> Settled(h)

\* The mirror converges: from some time on every row carries the chain's own
\* finality status, although a re-ingest may set a finalized row back to
\* pending (upsert_slot writes finality_status unconditionally).
FinalityConverges ==
  <>[](\A h \in slots : finality[h] = ChainStatus(h))
=============================================================================
