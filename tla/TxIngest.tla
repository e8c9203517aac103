------------------------------ MODULE TxIngest ------------------------------
(***************************************************************************)
(* The transaction level of the indexer: ingest_slot_transactions,         *)
(* update_address_summaries and insert_resource_rows (ingest.rs) with the  *)
(* statements of db.rs they issue.                                         *)
(*                                                                         *)
(* The walk visits the slots in order; in each slot it fetches the events, *)
(* then every batch, then every transaction.  A transaction that is not    *)
(* skipped is written to `transactions`; when that succeeds its senders    *)
(* and receivers are counted and its resource row is written, followed by  *)
(* the bumps of the counters.  Every statement is its own commit: a crash  *)
(* between two of them makes the next process walk the slot again from its *)
(* start, on top of what the first one left.                               *)
(*                                                                         *)
(* A fetch may fail or answer 404, and a statement may fail, applied or    *)
(* not.  Two constraints of the schema make an INSERT fail by itself:      *)
(* UNIQUE (slot, position), and the CHECK that a reverted transaction has  *)
(* a revert_reason, a column insert_transaction always leaves NULL.        *)
(*                                                                         *)
(* Bounty and contract events are in module Escrow.                        *)
(***************************************************************************)
EXTENDS Integers, Sequences, FiniteSets

CONSTANTS
  Tx,         \* transactions (their hashes)
  Chain,      \* the chain: a sequence of slots, a slot being a sequence of
              \* batches and a batch a sequence of transactions
  Kind,       \* what classify_events makes of a transaction's events
  Outcome,    \* the receipt's result, through outcome_of
  Sender,     \* the address its event names as the sender, or Nobody
  Receiver,   \* the recipient of a transfer, or Nobody
  Registers,  \* the attestor set, schema or attestation it registers (the
              \* id), or Nobody; two transactions may register the same one
  Parent,     \* the attestor set its schema is bound to, the schema its
              \* attestation is under, or Nobody
  Addr,       \* addresses
  Id,         \* ids of attestor sets, schemas and attestations
  Nobody,
  MaxFaults   \* bound: crashes, failed calls and 404s, taken together

Kinds == {"transfer", "register_attestor_set", "register_schema",
          "submit_attestation", "unknown"}

ResourceKinds ==
  {"register_attestor_set", "register_schema", "submit_attestation"}

ASSUME TxAssumption ==
  /\ Chain \in Seq(Seq(Seq(Tx)))
  /\ Kind \in [Tx -> Kinds]
  /\ Outcome \in [Tx -> {"committed", "reverted", "skipped"}]
  /\ Sender \in [Tx -> Addr \cup {Nobody}]
  /\ Receiver \in [Tx -> Addr \cup {Nobody}]
  /\ Registers \in [Tx -> Id \cup {Nobody}]
  /\ Parent \in [Tx -> Id \cup {Nobody}]
  /\ Nobody \notin Addr \cup Tx \cup Id
ASSUME FaultAssumption == MaxFaults \in Nat

\* A hash names one transaction of the chain, at one place of it.
ASSUME PlaceAssumption ==
  /\ IsFiniteSet(Tx)
  /\ \A t \in Tx :
       \E s \in DOMAIN Chain : \E b \in DOMAIN Chain[s] :
         \E i \in DOMAIN Chain[s][b] : Chain[s][b][i] = t
  /\ \A s, r \in DOMAIN Chain :
       \A b \in DOMAIN Chain[s], c \in DOMAIN Chain[r] :
         \A i \in DOMAIN Chain[s][b], j \in DOMAIN Chain[r][c] :
           Chain[s][b][i] = Chain[r][c][j] => s = r /\ b = c /\ i = j

\* The events that register a resource name it, who registers it and what it
\* refers to: none of these fields of the decoded payloads is optional.
ASSUME SenderAssumption ==
  \A t \in Tx : Kind[t] \in ResourceKinds => Sender[t] # Nobody
ASSUME ResourceAssumption ==
  \A t \in Tx :
    /\ Registers[t] # Nobody <=> Kind[t] \in ResourceKinds
    /\ Parent[t] # Nobody <=>
         Kind[t] \in {"register_schema", "submit_attestation"}
    \* The prefix of an id tells the three tables apart.
    /\ \A u \in Tx : Registers[t] # Nobody /\ Registers[u] = Registers[t] =>
                      Kind[u] = Kind[t]

VARIABLES
  cursor,    \* last_indexed_height
  slot,      \* next_height
  batch,     \* index of the batch in the slot
  item,      \* index of the transaction in the batch
  position,  \* position_in_slot
  step,      \* the walk's next await
  events,    \* the events of the slot were returned
  txs,       \* transactions: the row's position, or NoRow
  kinds,     \* transactions.kind
  signed,    \* transactions.sender IS NOT NULL
  resources, \* attestor_sets, schemas and attestations by id: the
             \* registering transaction the row names, or Nobody for no row
  uses,      \* attestor_sets.schema_count and schemas.attestation_count
  owned,     \* address_summaries.schemas_owned_count
  sent,      \* address_summaries.txs_sent_count
  received,  \* address_summaries.txs_received_count
  firstSeen, \* address_summaries.first_seen_slot, or NeverSeen
  lastSeen,  \* address_summaries.last_seen_slot, or NeverSeen
  passes,    \* history: how often the walk entered a slot
  active,    \* history: slots in which the address was counted
  faults     \* faults taken so far

NoRow     == -1
NeverSeen == 0

place     == <<slot, batch, item, position>>
txRow     == <<txs, kinds, signed>>
tables    == <<txs, kinds, signed, resources, uses, owned, sent, received,
               firstSeen, lastSeen>>
vars == <<cursor, slot, batch, item, position, step, events, txs, kinds,
          signed, resources, uses, owned, sent, received, firstSeen, lastSeen,
          passes, active, faults>>

SlotNumber == 1..Len(Chain)
Steps == {"slot", "batch", "tx", "insert", "sender", "receiver", "resource",
          "bump", "owned", "cursor"}

\* The slot a transaction is in.
SlotOf(t) == CHOOSE s \in SlotNumber :
               \E b \in DOMAIN Chain[s] : \E i \in DOMAIN Chain[s][b] :
                 Chain[s][b][i] = t

TypeOK ==
  /\ cursor \in 0..Len(Chain)
  /\ slot \in 1..(Len(Chain) + 1)
  /\ batch \in Nat
  /\ item \in Nat
  /\ position \in Nat
  /\ step \in Steps
  /\ events \in BOOLEAN
  /\ txs \in [Tx -> Nat \cup {NoRow}]
  /\ kinds \in [Tx -> Kinds]
  /\ signed \subseteq Tx
  /\ resources \in [Id -> Tx \cup {Nobody}]
  /\ uses \in [Id -> Nat]
  /\ owned \in [Addr -> Nat]
  /\ sent \in [Addr -> Nat]
  /\ received \in [Addr -> Nat]
  /\ firstSeen \in [Addr -> SlotNumber \cup {NeverSeen}]
  /\ lastSeen \in [Addr -> SlotNumber \cup {NeverSeen}]
  /\ passes \in [SlotNumber -> Nat]
  /\ active \in [Addr -> SUBSET SlotNumber]
  /\ faults \in Nat

Init ==
  /\ cursor = 0
  /\ slot = 1
  /\ batch = 1
  /\ item = 1
  /\ position = 0
  /\ step = "slot"
  /\ events = TRUE
  /\ txs = [t \in Tx |-> NoRow]
  /\ kinds = [t \in Tx |-> "unknown"]
  /\ signed = {}
  /\ resources = [r \in Id |-> Nobody]
  /\ uses = [r \in Id |-> 0]
  /\ owned = [a \in Addr |-> 0]
  /\ sent = [a \in Addr |-> 0]
  /\ received = [a \in Addr |-> 0]
  /\ firstSeen = [a \in Addr |-> NeverSeen]
  /\ lastSeen = [a \in Addr |-> NeverSeen]
  /\ passes = [s \in SlotNumber |-> 0]
  /\ active = [a \in Addr |-> {}]
  /\ faults = 0

Fault ==
  /\ faults < MaxFaults
  /\ faults' = faults + 1

\* The transaction the walk is at.
Current == Chain[slot][batch][item]

\* classify_tx and the event-derived sender: without its events every
\* transaction is unknown and has no sender.
KindNow(t)   == IF events THEN Kind[t] ELSE "unknown"
SenderNow(t) == IF KindNow(t) = "unknown" THEN Nobody ELSE Sender[t]
ReceiverNow(t) == IF KindNow(t) = "transfer" THEN Receiver[t] ELSE Nobody

-----------------------------------------------------------------------------
(***************************************************************************)
(* Fetching.                                                               *)
(***************************************************************************)

\* events_for_slot returned; the walk of the slot starts.
BeginSlot(found) ==
  /\ step = "slot"
  /\ slot <= Len(Chain)
  /\ events' = found
  /\ passes' = [passes EXCEPT ![slot] = @ + 1]
  /\ batch' = 1
  /\ position' = 0
  /\ step' = "batch"
  /\ UNCHANGED <<cursor, slot, item, tables, active>>

FetchEvents == BeginSlot(TRUE) /\ UNCHANGED faults

\* A 404 for the events counts as a slot without any.
EventsNotFound == BeginSlot(FALSE) /\ Fault

FetchBatch ==
  /\ step = "batch"
  /\ batch <= Len(Chain[slot])
  /\ item' = 1
  /\ step' = "tx"
  /\ UNCHANGED <<events, cursor, slot, batch, position, tables, passes,
                 active, faults>>

\* A 404 for a batch or for a transaction skips it; `position` stays.
BatchNotFound ==
  /\ step = "batch"
  /\ batch <= Len(Chain[slot])
  /\ batch' = batch + 1
  /\ Fault
  /\ UNCHANGED <<events, cursor, slot, item, position, step, tables, passes,
                 active>>

TxNotFound ==
  /\ step = "tx"
  /\ item <= Len(Chain[slot][batch])
  /\ item' = item + 1
  /\ Fault
  /\ UNCHANGED <<events, cursor, slot, batch, position, step, tables, passes,
                 active>>

\* classify_tx returns None for a skipped transaction: no row, no position.
FetchTx ==
  /\ step = "tx"
  /\ item <= Len(Chain[slot][batch])
  /\ IF Outcome[Current] = "skipped"
     THEN item' = item + 1 /\ step' = "tx"
     ELSE item' = item /\ step' = "insert"
  /\ UNCHANGED <<events, cursor, slot, batch, position, tables, passes,
                 active, faults>>

BatchDone ==
  /\ step = "tx"
  /\ item > Len(Chain[slot][batch])
  /\ batch' = batch + 1
  /\ step' = "batch"
  /\ UNCHANGED <<events, cursor, slot, item, position, tables, passes,
                 active, faults>>

SlotDone ==
  /\ step = "batch"
  /\ batch > Len(Chain[slot])
  /\ step' = "cursor"
  /\ UNCHANGED <<events, cursor, place, tables, passes, active, faults>>

\* A failed fetch ends the slot; the caller logs it and moves on.
FetchFailure ==
  /\ \/ step = "slot" /\ slot <= Len(Chain)
     \/ step = "batch" /\ batch <= Len(Chain[slot])
     \/ step = "tx" /\ item <= Len(Chain[slot][batch])
  /\ step' = "cursor"
  /\ Fault
  /\ UNCHANGED <<events, cursor, place, tables, passes, active>>

-----------------------------------------------------------------------------
(***************************************************************************)
(* The transactions row.                                                   *)
(***************************************************************************)

\* position_in_slot += 1, and on to the next transaction.
NextTx ==
  /\ item' = item + 1
  /\ position' = position + 1
  /\ step' = "tx"
  /\ UNCHANGED <<slot, batch>>

\* Mutant: the schema lets two transactions share a position.
PositionShared(t, s, p) == FALSE

\* Another transaction of the slot holds the position.
PositionTaken(t, s, p) ==
  \E u \in Tx \ {t} : txs[u] = p /\ SlotOf(u) = s

\* The statement's own reasons to fail: the revert_reason CHECK and UNIQUE
\* (slot, position).
InsertRejected(t) ==
  \/ Outcome[t] = "reverted"
  \/ PositionTaken(t, slot, position)

\* INSERT ... ON CONFLICT (hash) DO UPDATE: position and kind are replaced,
\* the sender is kept when there is none to write.  It comes from the decoded
\* body, which the node may leave out, or else from the events.
WriteTx(t) ==
  /\ txs' = [txs EXCEPT ![t] = position]
  /\ kinds' = [kinds EXCEPT ![t] = KindNow(t)]
  /\ \E body \in BOOLEAN :
       signed' = IF body \/ SenderNow(t) # Nobody THEN signed \cup {t}
                 ELSE signed

InsertTransaction ==
  /\ step = "insert"
  /\ ~InsertRejected(Current)
  /\ WriteTx(Current)
  /\ step' = "sender"
  /\ UNCHANGED <<events, cursor, place, resources, uses, owned, sent,
                 received, firstSeen, lastSeen, passes, active, faults>>

\* Mutant: a refused row is tried again.
InsertRefusedRetries ==
  /\ step = "insert"
  /\ InsertRejected(Current)
  /\ UNCHANGED vars

\* A failed insert is logged; nothing of the transaction is written, and its
\* position is used up.
InsertRefused ==
  /\ step = "insert"
  /\ InsertRejected(Current)
  /\ NextTx
  /\ UNCHANGED <<events, cursor, tables, passes, active, faults>>

InsertFailure ==
  /\ step = "insert"
  /\ ~InsertRejected(Current)
  /\ WriteTx(Current) \/ UNCHANGED txRow
  /\ NextTx
  /\ Fault
  /\ UNCHANGED <<events, cursor, resources, uses, owned, sent, received,
                 firstSeen, lastSeen, passes, active>>

-----------------------------------------------------------------------------
(***************************************************************************)
(* address_summaries.                                                      *)
(***************************************************************************)
Least(x, y)    == IF x # NeverSeen /\ x <= y THEN x ELSE y

\* Mutant: the slot in hand replaces last_seen_slot.
Latest(x, y) == y

Greatest(x, y) == IF x >= y THEN x ELSE y

\* upsert_address_activity: first_seen keeps the least slot, last_seen the
\* greatest; the counters only ever grow.
Seen(a) ==
  /\ firstSeen' = [firstSeen EXCEPT ![a] = Least(@, slot)]
  /\ lastSeen' = [lastSeen EXCEPT ![a] = Greatest(@, slot)]
  /\ active' = [active EXCEPT ![a] = @ \cup {slot}]

CountSender(a) ==
  /\ sent' = [sent EXCEPT ![a] = @ + 1]
  /\ Seen(a)
  /\ UNCHANGED <<received, owned>>

\* Mutant: the receiver is counted with the sender's role.
CountReceiverAsSender(a) == CountSender(a)

CountReceiver(a) ==
  /\ received' = [received EXCEPT ![a] = @ + 1]
  /\ Seen(a)
  /\ UNCHANGED <<sent, owned>>

NobodySeen == UNCHANGED <<sent, received, owned, firstSeen, lastSeen, active>>

UpdateSender ==
  /\ step = "sender"
  /\ IF SenderNow(Current) = Nobody THEN NobodySeen
     ELSE CountSender(SenderNow(Current))
  /\ step' = "receiver"
  /\ UNCHANGED <<events, cursor, place, txRow, resources, uses, passes,
                 faults>>

UpdateReceiver ==
  /\ step = "receiver"
  /\ IF ReceiverNow(Current) = Nobody THEN NobodySeen
     ELSE CountReceiver(ReceiverNow(Current))
  /\ step' = "resource"
  /\ UNCHANGED <<events, cursor, place, txRow, resources, uses, passes,
                 faults>>

\* A failed update ends update_address_summaries: after a failed sender
\* update the receiver is not counted.
SummaryFailure ==
  /\ \/ /\ step = "sender"
        /\ SenderNow(Current) # Nobody
        /\ NobodySeen \/ CountSender(SenderNow(Current))
     \/ /\ step = "receiver"
        /\ ReceiverNow(Current) # Nobody
        /\ NobodySeen \/ CountReceiver(ReceiverNow(Current))
  /\ step' = "resource"
  /\ Fault
  /\ UNCHANGED <<events, cursor, place, txRow, resources, uses, passes>>

-----------------------------------------------------------------------------
(***************************************************************************)
(* Resource rows.  A schema needs its attestor set's row and an            *)
(* attestation its schema's (foreign keys).  An id that has a row already  *)
(* is a success too (ON CONFLICT), whichever transaction the row is from:  *)
(* no row is added, and the counters are bumped all the same.              *)
(***************************************************************************)
HasResource(t) == KindNow(t) \in ResourceKinds

\* The id has a row.
Stored(r) == resources[r] # Nobody

\* Mutant: the schema has no foreign keys.
NoForeignKey(t) == TRUE

\* A row that is added needs its parent's row.  Foreign keys are not checked
\* on a conflict: the row that is there keeps its own parent.
ForeignKeyHolds(t) ==
  ~Stored(Registers[t]) /\ Parent[t] # Nobody => Stored(Parent[t])

\* Mutant: an attestor set that is registered again keeps its first row.
WriteResourceOnce(t) ==
  resources' = [resources EXCEPT ![Registers[t]] = IF @ = Nobody THEN t ELSE @]

\* On a conflict insert_attestor_set replaces what the row says, its
\* registering transaction too; insert_schema and insert_attestation leave
\* the row with the first one.
WriteResource(t) ==
  resources' = [resources EXCEPT ![Registers[t]] =
    IF @ = Nobody \/ Kind[t] = "register_attestor_set" THEN t ELSE @]

InsertResource ==
  /\ step = "resource"
  /\ HasResource(Current)
  /\ ForeignKeyHolds(Current)
  /\ WriteResource(Current)
  /\ IF KindNow(Current) = "register_attestor_set"
     THEN NextTx
     ELSE step' = "bump" /\ UNCHANGED place
  /\ UNCHANGED <<events, cursor, txRow, uses, owned, sent, received,
                 firstSeen, lastSeen, passes, active, faults>>

\* Nothing to insert, or a foreign key does not hold.
NoResource ==
  /\ step = "resource"
  /\ ~(HasResource(Current) /\ ForeignKeyHolds(Current))
  /\ NextTx
  /\ UNCHANGED <<events, cursor, tables, passes, active, faults>>

\* A failed insert returns at once: no counter is bumped.
ResourceFailure ==
  /\ step = "resource"
  /\ HasResource(Current)
  /\ ForeignKeyHolds(Current)
  /\ WriteResource(Current) \/ UNCHANGED resources
  /\ NextTx
  /\ Fault
  /\ UNCHANGED <<events, cursor, txRow, uses, owned, sent, received,
                 firstSeen, lastSeen, passes, active>>

\* A schema bumps a second counter, its owner's.
AfterBump ==
  IF KindNow(Current) = "register_schema"
  THEN step' = "owned" /\ UNCHANGED place
  ELSE NextTx

\* bump_attestor_set_schema_count and bump_schema_attestation_count: UPDATE
\* ... WHERE id = the parent, which changes nothing if there is no such row.
BumpUses ==
  /\ step = "bump"
  /\ uses' = IF Stored(Parent[Current])
             THEN [uses EXCEPT ![Parent[Current]] = @ + 1]
             ELSE uses
  /\ AfterBump
  /\ UNCHANGED <<events, cursor, txRow, resources, owned, sent, received,
                 firstSeen, lastSeen, passes, active, faults>>

BumpUsesFailure ==
  /\ step = "bump"
  /\ AfterBump
  /\ Fault
  /\ UNCHANGED <<events, cursor, tables, passes, active>>

\* bump_address_schemas_owned: a new summary row starts with first_seen and
\* last_seen at this slot, an existing one keeps them.
BumpOwned ==
  /\ step = "owned"
  /\ LET a == Sender[Current]
     IN /\ owned' = [owned EXCEPT ![a] = @ + 1]
        /\ IF firstSeen[a] = NeverSeen THEN Seen(a)
           ELSE UNCHANGED <<firstSeen, lastSeen, active>>
  /\ NextTx
  /\ UNCHANGED <<events, cursor, txRow, resources, uses, sent, received,
                 passes, faults>>

BumpOwnedFailure ==
  /\ step = "owned"
  /\ NextTx
  /\ Fault
  /\ UNCHANGED <<events, cursor, tables, passes, active>>

-----------------------------------------------------------------------------
(***************************************************************************)
(* The walk around it (module SlotIngest has it in full).                  *)
(***************************************************************************)

\* Mutant: the cursor is the next height instead of the last one.
WriteCursorNext ==
  /\ step = "cursor"
  /\ cursor' = slot + 1
  /\ slot' = slot + 1
  /\ step' = "slot"
  /\ UNCHANGED <<events, batch, item, position, tables, passes, active,
                 faults>>

WriteCursor ==
  /\ step = "cursor"
  /\ cursor' = slot
  /\ slot' = slot + 1
  /\ step' = "slot"
  /\ UNCHANGED <<events, batch, item, position, tables, passes, active,
                 faults>>

WriteCursorFailure ==
  /\ step = "cursor"
  /\ slot' = slot + 1
  /\ step' = "slot"
  /\ Fault
  /\ UNCHANGED <<events, cursor, batch, item, position, tables, passes,
                 active>>

\* A restart resumes after the cursor, or at the first slot when the cursor
\* cannot be read.
Crash ==
  /\ slot' \in {1, cursor + 1}
  /\ events' = TRUE
  /\ batch' = 1
  /\ item' = 1
  /\ position' = 0
  /\ step' = "slot"
  /\ Fault
  /\ UNCHANGED <<cursor, tables, passes, active>>

Walk ==
  \/ FetchEvents
  \/ FetchBatch
  \/ FetchTx
  \/ BatchDone
  \/ SlotDone
  \/ InsertTransaction
  \/ InsertRefused
  \/ UpdateSender
  \/ UpdateReceiver
  \/ InsertResource
  \/ NoResource
  \/ BumpUses
  \/ BumpOwned
  \/ WriteCursor

FaultStep ==
  \/ EventsNotFound
  \/ BatchNotFound
  \/ TxNotFound
  \/ FetchFailure
  \/ InsertFailure
  \/ SummaryFailure
  \/ ResourceFailure
  \/ BumpUsesFailure
  \/ BumpOwnedFailure
  \/ WriteCursorFailure
  \/ Crash

Next == Walk \/ FaultStep

Spec == Init /\ [][Next]_vars

\* The walk is one task that the runtime keeps scheduling.
FairSpec == Spec /\ WF_vars(Walk)

-----------------------------------------------------------------------------
(***************************************************************************)
(* Properties.                                                             *)
(***************************************************************************)
Recorded(t) == txs[t] # NoRow

\* Everything hangs together, whatever failed and was walked again: a
\* resource row names a transaction that registers it and is recorded, with
\* a sender, and has its parent's row; no counter is above zero without its
\* row and a recorded transaction it counts.  The sender stays also when a
\* later pass sees neither events nor body.
ResourcesAnchored ==
  /\ \A r \in Id : Stored(r) =>
       LET t == resources[r]
       IN /\ Registers[t] = r
          /\ Recorded(t)
          /\ t \in signed
          /\ Parent[t] # Nobody => Stored(Parent[t])
  /\ \A p \in Id : uses[p] > 0 =>
       Stored(p) /\ \E t \in Tx : Parent[t] = p /\ Recorded(t)
  /\ \A a \in Addr : sent[a] > 0 => \E t \in Tx : Sender[t] = a /\ Recorded(t)

\* The readers' view, for whom only rows and positions count.
Readers == INSTANCE Catalog WITH at <- txs,
                                 Slot <- [t \in Tx |-> SlotOf(t)]

\* The walk implements Catalog: with slots walked again, shifted positions
\* and rows refused half way, readers see rows come and stay, never two
\* transactions at one position, and never a resource before its parent
\* (db.rs:272-499, ingest.rs:351-436, and the constraints of the tables).
RefinesCatalog == Readers!Spec

\* The passes over the transactions in S: each one as often as its slot was
\* walked.
PassesOver(S) == UNION {{t} \X (1..passes[SlotOf(t)]) : t \in S}

\* The recorded transactions a counter counts.
UsersOf(p)    == {t \in Tx : Parent[t] = p /\ Recorded(t)}
SentBy(a)     == {t \in Tx : Sender[t] = a /\ Recorded(t)}
ReceivedBy(a) == {t \in Tx : Receiver[t] = a /\ Recorded(t)}

\* How far the bumped counters can drift: each pass over a slot counts each
\* of its transactions at most once, so a counter never exceeds the recorded
\* transactions that name its owner, taken as often as their slots were
\* walked (db.rs:972-1141).  The rows of schemas and attestations are no such
\* bound: a repeated id adds to the count and not to the rows
\* (ingest.rs:421-430).
DriftBounded ==
  /\ \A p \in Id : uses[p] <= Cardinality(PassesOver(UsersOf(p)))
  /\ \A a \in Addr :
       /\ sent[a] <= Cardinality(PassesOver(SentBy(a)))
       /\ received[a] <= Cardinality(PassesOver(ReceivedBy(a)))

\* first_seen and last_seen do not drift: they are the least and the
\* greatest slot the address was counted in, also when slots are walked
\* again in whatever order (LEAST and GREATEST in upsert_address_activity).
SeenExact ==
  \A a \in Addr :
    IF active[a] = {} THEN firstSeen[a] = NeverSeen /\ lastSeen[a] = NeverSeen
    ELSE /\ firstSeen[a] \in active[a] /\ lastSeen[a] \in active[a]
         /\ \A s \in active[a] : firstSeen[a] <= s /\ s <= lastSeen[a]

\* Transactions of the chain that come before t in its slot and take up a
\* position.
Earlier(t) ==
  LET s == SlotOf(t)
      Before(b, i, c, j) == b < c \/ (b = c /\ i < j)
  IN {u \in Tx :
        /\ Outcome[u] # "skipped"
        /\ \E b, c \in DOMAIN Chain[s] :
             \E i \in DOMAIN Chain[s][b] : \E j \in DOMAIN Chain[s][c] :
               Chain[s][b][i] = u /\ Chain[s][c][j] = t /\ Before(b, i, c, j)}

\* The walk comes to t before it comes to u.
Precedes(t, u) == SlotOf(t) < SlotOf(u) \/ t \in Earlier(u)

\* What a chain that runs the calls it commits looks like: only a call that
\* names a receiver or a sender has one, and a committed resource comes
\* after a committed registration of the resource it refers to.
ASSUME ChainAssumption ==
  \A t \in Tx :
    /\ Sender[t] # Nobody => Kind[t] # "unknown"
    /\ Receiver[t] # Nobody => Kind[t] = "transfer"
    /\ Parent[t] # Nobody /\ Outcome[t] = "committed" =>
         \E p \in Tx : /\ Registers[p] = Parent[t]
                       /\ Outcome[p] = "committed"
                       /\ Precedes(p, t)

\* The row of id r is the one the transactions in S have to leave: none, if
\* nobody registers r; else the last registration for an attestor set, the
\* first one for a schema or an attestation.
RowExact(r, S) ==
  LET regs == {t \in S : Registers[t] = r}
      row  == resources[r]
  IN \/ row = Nobody /\ regs = {}
     \/ /\ row \in regs
        /\ \A t \in regs \ {row} :
             IF Kind[t] = "register_attestor_set" THEN Precedes(t, row)
             ELSE Precedes(row, t)

\* Without a fault, a slot that is done has every committed transaction at
\* its place in the chain's order, for every id one row with the right
\* registration, and counters that count the committed transactions, those
\* too that register what was there already.
FaultFreeExact ==
  faults = 0 /\ step = "slot" =>
    LET done == {t \in Tx : SlotOf(t) <= cursor /\ Outcome[t] = "committed"}
    IN /\ \A t \in done :
            txs[t] = Cardinality(Earlier(t)) /\ kinds[t] = Kind[t]
       /\ \A r \in Id : RowExact(r, done)
       /\ \A p \in Id : uses[p] = Cardinality({t \in done : Parent[t] = p})
       /\ \A a \in Addr :
            /\ sent[a] = Cardinality({t \in done : Sender[t] = a})
            /\ received[a] = Cardinality({t \in done : Receiver[t] = a})
            /\ owned[a] = Cardinality({t \in done :
                 Sender[t] = a /\ Kind[t] = "register_schema"})

\* The walk gets through the chain and stays there: no failure, no refused
\* row and no restart stops it or sends it around for ever.
WalkCompletes == <>[](slot = Len(Chain) + 1)

-----------------------------------------------------------------------------
(***************************************************************************)
(* A claim of the repository that the code does not keep.                  *)
(***************************************************************************)

\* stats.rs:147 and parser.rs:33: reverted transactions are recorded too.
RevertedRecorded ==
  faults = 0 /\ step = "slot" =>
    \A t \in Tx :
      SlotOf(t) <= cursor /\ Outcome[t] = "reverted" => Recorded(t)
=============================================================================
