------------------------------- MODULE Escrow -------------------------------
(***************************************************************************)
(* The bounty and contract arms of insert_resource_rows (ingest.rs) with   *)
(* the statements of db.rs they issue.                                     *)
(*                                                                         *)
(* A lifecycle event only names the bounty or the contract.  The walk      *)
(* hydrates the record from the node, which answers with the state of NOW  *)
(* and not with that of the event's slot, upserts the row, and then        *)
(* applies the event's delta: a claim lowers the escrow and raises the     *)
(* claim count, a terminal event zeroes the escrow.  The statements are    *)
(* separate commits, and a crash makes the next process walk the slot      *)
(* again.                                                                  *)
(*                                                                         *)
(* Each transaction stands for a slot of its own, and its transactions row *)
(* has been written (module TxIngest).                                     *)
(***************************************************************************)
EXTENDS Integers, Sequences

CONSTANTS
  Bounty, Contract,
  Boardless,  \* bounties whose board schema has no row
  Pool,       \* the escrow a bounty or a contract is posted with
  Payout,     \* per_attestation
  MaxTxs,     \* bound: transactions on the chain
  MaxBatch,   \* bound: claims in one transaction
  MaxFaults   \* bound: crashes and failed calls, taken together

Item == Bounty \cup Contract

ASSUME EscrowAssumption ==
  /\ Bounty \cap Contract = {}
  /\ Boardless \subseteq Bounty
  /\ Pool \in Nat
  /\ Payout \in Nat \ {0}
  /\ MaxTxs \in Nat
  /\ MaxBatch \in Nat
  /\ MaxFaults \in Nat

VARIABLES
  chainStatus, \* the chain: status in the record, "None" before it is posted
  chainEscrow, \* the chain: what the module still holds
  chainClaims, \* history: the claims the chain has paid
  log,         \* the chain: the lifecycle transactions, one per slot
  cursor,      \* last_indexed_height
  at,          \* the walk: index of the transaction in hand
  step,        \* the walk: its next await
  rec,         \* the walk: status in the hydrated record
  rows,        \* bounties, contracts: the ids that have a row
  status,      \* .status
  escrow,      \* .escrow_remaining_nano
  claims,      \* bounties.claim_count
  postedAt,    \* .posted_at_slot
  replayed,    \* history: some slot was walked again
  faults       \* faults taken so far

chainVars == <<chainStatus, chainEscrow, chainClaims, log>>
rowVars   == <<rows, status, escrow, claims, postedAt>>
vars == <<chainStatus, chainEscrow, chainClaims, log, cursor, at, step, rec,
          rows, status, escrow, claims, postedAt, replayed, faults>>

(***************************************************************************)
(* The lifecycles (external): the status before, the event, the status     *)
(* after.  "Frozen" stands for a status the indexer does not know yet.  A  *)
(* transaction whose claims come with the expiry of the bounty is, to      *)
(* classify_bounty_events, a claim.                                        *)
(***************************************************************************)
BountyMoves == {
  <<"Open", "Claimed", "Expired">>,
  <<"None", "Posted", "Open">>, <<"Open", "Claimed", "Open">>,
  <<"Open", "Disputed", "Frozen">>, <<"Frozen", "DisputeResolved", "Open">>,
  <<"Open", "Expired", "Expired">>, <<"Open", "Expired", "Cancelled">>,
  <<"Exhausted", "Finalised", "Finalised">> }

ContractMoves == {
  <<"None", "Posted", "Open">>, <<"Open", "Committed", "Committed">>,
  <<"Committed", "Delivered", "Delivered">>,
  <<"Delivered", "Accepted", "Accepted">>,
  <<"Delivered", "Rejected", "Disputed">>,
  <<"Disputed", "DisputeResolved", "Accepted">>,
  <<"Disputed", "DisputeResolved", "Rejected">>,
  <<"Open", "Cancelled", "Cancelled">>, <<"Open", "Expired", "Expired">>,
  <<"Committed", "Expired", "Expired">> }

Moves(i) == IF i \in Bounty THEN BountyMoves ELSE ContractMoves

\* Statuses in which the module holds nothing, and which are never left.
Closed == {"Expired", "Cancelled", "Finalised", "Accepted", "Rejected"}

Statuses == Closed \cup {"None", "Open", "Exhausted", "Frozen", "Committed",
                         "Delivered", "Disputed"}
Kinds == {"Posted", "Claimed", "Disputed", "DisputeResolved", "Expired",
          "Finalised", "Committed", "Delivered", "Accepted", "Rejected",
          "Cancelled"}

\* A transaction of the log: `count` claims, `total` of them with those before
\* it (history).
LogEntry == [item : Item, kind : Kinds, count : Nat, total : Nat]

TypeOK ==
  /\ chainStatus \in [Item -> Statuses]
  /\ chainEscrow \in [Item -> 0..Pool]
  /\ chainClaims \in [Item -> Nat]
  /\ log \in Seq(LogEntry)
  /\ cursor \in 0..Len(log)
  /\ at \in 1..(Len(log) + 1)
  /\ step \in {"hydrate", "upsert", "delta", "cursor"}
  /\ rec \in Statuses
  /\ rows \subseteq Item
  /\ status \in [Item -> Statuses \ {"Frozen"}]
  /\ escrow \in [Item -> Int]
  /\ claims \in [Item -> Nat]
  /\ postedAt \in [Item -> Nat]
  /\ replayed \in BOOLEAN
  /\ faults \in Nat

Init ==
  /\ chainStatus = [i \in Item |-> "None"]
  /\ chainEscrow = [i \in Item |-> 0]
  /\ chainClaims = [i \in Item |-> 0]
  /\ log = <<>>
  /\ cursor = 0
  /\ at = 1
  /\ step = "hydrate"
  /\ rec = "None"
  /\ rows = {}
  /\ status = [i \in Item |-> "None"]
  /\ escrow = [i \in Item |-> 0]
  /\ claims = [i \in Item |-> 0]
  /\ postedAt = [i \in Item |-> 0]
  /\ replayed = FALSE
  /\ faults = 0

Fault ==
  /\ faults < MaxFaults
  /\ faults' = faults + 1

-----------------------------------------------------------------------------
\* A transaction of the chain (external): `n` claims in one go, or any other
\* move.  A bounty that cannot pay another claim is exhausted.
Move(i, m, n) ==
  /\ Len(log) < MaxTxs
  /\ m \in Moves(i)
  /\ chainStatus[i] = m[1]
  /\ m[2] = "Claimed" <=> n > 0
  /\ n * Payout <= chainEscrow[i]
  /\ LET left == chainEscrow[i] - n * Payout
     IN /\ chainEscrow' = [chainEscrow EXCEPT ![i] =
             IF m[2] = "Posted" THEN Pool
             ELSE IF m[3] \in Closed THEN 0 ELSE left]
        /\ chainStatus' = [chainStatus EXCEPT ![i] =
             IF m[2] = "Claimed" /\ m[3] = "Open" /\ left < Payout
             THEN "Exhausted" ELSE m[3]]
  /\ chainClaims' = [chainClaims EXCEPT ![i] = @ + n]
  /\ log' = Append(log, [item |-> i, kind |-> m[2], count |-> n,
                         total |-> chainClaims[i] + n])
  /\ UNCHANGED <<cursor, at, step, rec, rowVars, replayed, faults>>

-----------------------------------------------------------------------------
Tx == log[at]

\* bounty_at, contract_at: the record as it is now.
Hydrate ==
  /\ step = "hydrate"
  /\ at <= Len(log)
  /\ rec' = chainStatus[Tx.item]
  /\ step' = "upsert"
  /\ UNCHANGED <<chainVars, cursor, at, rowVars, replayed, faults>>

\* A 404 or an error: nothing is written for the event.
HydrateFailure ==
  /\ step = "hydrate"
  /\ at <= Len(log)
  /\ step' = "cursor"
  /\ Fault
  /\ UNCHANGED <<chainVars, cursor, at, rec, rowVars, replayed>>

\* Mutant: the node's status is stored as it is.
MapStatusRaw(i, s) == s

\* map_bounty_status, map_contract_status: an unknown status becomes open.
MapStatus(i, s) ==
  IF \/ i \in Bounty /\ s \in {"Open", "Exhausted", "Expired", "Cancelled",
                               "Finalised"}
     \/ i \in Contract /\ s \in {"Open", "Committed", "Delivered", "Accepted",
                                 "Rejected", "Disputed", "Cancelled",
                                 "Expired"}
  THEN s ELSE "Open"

\* Mutant: the conflict branch seeds the escrow again.
UpsertRowReseeds(i) ==
  /\ status' = [status EXCEPT ![i] = MapStatus(i, rec)]
  /\ rows' = rows \cup {i}
  /\ escrow' = [escrow EXCEPT ![i] = Pool]
  /\ postedAt' = IF i \in rows THEN postedAt
                 ELSE [postedAt EXCEPT ![i] = at]
  /\ UNCHANGED claims

\* Mutant: the status is rebuilt from the event.
UpsertRowFromEvent(i) ==
  /\ status' = [status EXCEPT ![i] =
                  IF Tx.kind = "Posted" THEN "Open" ELSE MapStatus(i, rec)]
  /\ rows' = rows \cup {i}
  /\ IF i \in rows
     THEN UNCHANGED <<escrow, postedAt>>
     ELSE /\ escrow' = [escrow EXCEPT ![i] = Pool]
          /\ postedAt' = [postedAt EXCEPT ![i] = at]
  /\ UNCHANGED claims

\* upsert_bounty, upsert_contract: a new row starts with the whole pool and
\* this slot; an existing one only has its status refreshed.
UpsertRow(i) ==
  /\ status' = [status EXCEPT ![i] = MapStatus(i, rec)]
  /\ rows' = rows \cup {i}
  /\ IF i \in rows
     THEN UNCHANGED <<escrow, postedAt>>
     ELSE /\ escrow' = [escrow EXCEPT ![i] = Pool]
          /\ postedAt' = [postedAt EXCEPT ![i] = at]
  /\ UNCHANGED claims

\* Mutant: a rejected delivery and a dispute count as terminal.
TerminalTooEarly(i) ==
  IF i \in Bounty THEN {"Expired", "Finalised", "Disputed"}
  ELSE {"Accepted", "Rejected", "DisputeResolved", "Cancelled", "Expired"}

\* The events after which the escrow column is zeroed.
Terminal(i) ==
  IF i \in Bounty THEN {"Expired", "Finalised"}
  ELSE {"Accepted", "DisputeResolved", "Cancelled", "Expired"}

HasDelta(t) == t.kind = "Claimed" \/ t.kind \in Terminal(t.item)

Upsert ==
  /\ step = "upsert"
  /\ Tx.item \notin Boardless
  /\ UpsertRow(Tx.item)
  /\ step' = IF HasDelta(Tx) THEN "delta" ELSE "cursor"
  /\ UNCHANGED <<chainVars, cursor, at, rec, replayed, faults>>

\* board_schema_id REFERENCES schemas(id) does not hold.
UpsertRefused ==
  /\ step = "upsert"
  /\ Tx.item \in Boardless
  /\ step' = "cursor"
  /\ UNCHANGED <<chainVars, cursor, at, rec, rowVars, replayed, faults>>

\* The statement fails, applied or not, and the arm returns at once.
UpsertFailure ==
  /\ step = "upsert"
  /\ Tx.item \notin Boardless
  /\ UpsertRow(Tx.item) \/ UNCHANGED rowVars
  /\ step' = "cursor"
  /\ Fault
  /\ UNCHANGED <<chainVars, cursor, at, rec, replayed>>

\* apply_bounty_claim.
ApplyClaim ==
  /\ step = "delta"
  /\ Tx.kind = "Claimed"
  /\ escrow' = [escrow EXCEPT ![Tx.item] = @ - Tx.count * Payout]
  /\ claims' = [claims EXCEPT ![Tx.item] = @ + Tx.count]
  /\ step' = "cursor"
  /\ UNCHANGED <<chainVars, cursor, at, rec, rows, status, postedAt, replayed,
                 faults>>

\* set_bounty_escrow_zero, set_contract_escrow_zero.
ZeroEscrow ==
  /\ step = "delta"
  /\ Tx.kind \in Terminal(Tx.item)
  /\ escrow' = [escrow EXCEPT ![Tx.item] = 0]
  /\ step' = "cursor"
  /\ UNCHANGED <<chainVars, cursor, at, rec, rows, status, claims, postedAt,
                 replayed, faults>>

\* A delta that fails is only logged.
DeltaFailure ==
  /\ step = "delta"
  /\ step' = "cursor"
  /\ Fault
  /\ UNCHANGED <<chainVars, cursor, at, rec, rowVars, replayed>>

WriteCursor ==
  /\ step = "cursor"
  /\ cursor' = at
  /\ at' = at + 1
  /\ step' = "hydrate"
  /\ UNCHANGED <<chainVars, rec, rowVars, replayed, faults>>

WriteCursorFailure ==
  /\ step = "cursor"
  /\ at' = at + 1
  /\ step' = "hydrate"
  /\ Fault
  /\ UNCHANGED <<chainVars, cursor, rec, rowVars, replayed>>

\* A restart resumes after the cursor, or at the first slot when the cursor
\* cannot be read.
Crash ==
  /\ at' \in {1, cursor + 1}
  /\ replayed' = (replayed \/ at' < at \/ step # "hydrate")
  /\ step' = "hydrate"
  /\ rec' = "None"
  /\ Fault
  /\ UNCHANGED <<chainVars, cursor, rowVars>>

Walk ==
  \/ Hydrate
  \/ Upsert
  \/ UpsertRefused
  \/ ApplyClaim
  \/ ZeroEscrow
  \/ WriteCursor

FaultStep ==
  \/ HydrateFailure
  \/ UpsertFailure
  \/ DeltaFailure
  \/ WriteCursorFailure
  \/ Crash

Next ==
  \/ \E i \in Item : \E m \in Moves(i) : \E n \in 0..MaxBatch : Move(i, m, n)
  \/ Walk
  \/ FaultStep

Spec == Init /\ [][Next]_vars

-----------------------------------------------------------------------------
(***************************************************************************)
(* Properties.                                                             *)
(***************************************************************************)

\* A failure leaves a row stale on one side only: it never shows less escrow
\* than the chain holds.  For a contract this survives walking slots again,
\* because zeroing is idempotent; for a bounty it holds as long as no slot
\* is walked twice, because the claim delta is not (insert_resource_rows,
\* ingest.rs:431-549).
EscrowNotUnderstated ==
  \A i \in rows :
    i \in Contract \/ ~replayed => escrow[i] >= chainEscrow[i]

\* A closed bounty or contract is never reopened by events that are walked
\* late or again: the record is hydrated, not rebuilt from the event
\* (upsert_bounty and upsert_contract, db.rs:721-950).
ClosedStaysClosed ==
  [][\A i \in rows : status[i] \in Closed => status'[i] = status[i]]_vars

\* Once the walk has caught up without a fault, the tables mirror the chain.
\* One thing is lost: a bounty that was closed in the same transaction as a
\* claim keeps showing what its claims left over, under the right status
\* (parser.rs:599-610, ingest.rs:431-549).
MirrorsChain ==
  faults = 0 /\ at = Len(log) + 1 =>
    \A i \in Item \ Boardless :
      LET Mine(k) == {n \in 1..Len(log) : log[n].item = i /\ log[n].kind = k}
          ClosedByClaim == /\ chainStatus[i] \in Closed
                           /\ \A k \in Terminal(i) : Mine(k) = {}
      IN chainStatus[i] # "None" =>
           /\ status[i] = MapStatus(i, chainStatus[i])
           /\ escrow[i] = IF ClosedByClaim THEN Pool - claims[i] * Payout
                          ELSE chainEscrow[i]
           /\ postedAt[i] \in Mine("Posted")
           /\ claims[i] = chainClaims[i]

-----------------------------------------------------------------------------
(***************************************************************************)
(* A claim of the repository that the code does not keep.                  *)
(***************************************************************************)

\* queries.rs:1335: the remaining escrow is a u128 string.
EscrowIsU128 == \A i \in rows : escrow[i] >= 0
=============================================================================
