# TLA+ verification of ligate-api

`ligate-api` is the read side and the faucet of the Ligate chain: one process
that indexes the chain into Postgres, serves the tables over HTTP, and hands out
testnet tokens. This directory holds TLA+ models of its core, the TLC
configurations that check them on small instances, and TLAPS proofs of the safety
properties for every instance.

Run a check with `tlc -config <run>.cfg <module>`, the proofs of a module with
`tlapm <module>Proofs.tla`. `PROJECT.json` lists runs, properties, mutants,
hazards, theorems and, for every definition that models code, the lines it
models.

## 1. Inventory

### The parts, their state and their operations

| part (source) | state | operations |
|---|---|---|
| Forward walk (`indexer/src/ingest.rs: run`) | `next_height`, the last seen head; `indexer_state` (chain identity, `last_indexed_height`) | bootstrap identity, resume from cursor or CLI height, fetch head, fetch slot, facts of the first batch, `upsert_slot`, ingest transactions, write cursor |
| Finality re-poll (`ingest.rs: repoll_pending_loop`) | list of pending heights, list of newly final heights | scan pending rows, re-fetch each, `flip_pending_slots` |
| Transaction ingest (`ingest.rs`, `db.rs`) | `transactions`, `attestor_sets`, `schemas`, `attestations`, `address_summaries` | fetch events, batches, transactions; classify; insert; count sender and receiver; insert resource row; bump counters |
| Bounty and contract ingest (`ingest.rs`, `db.rs`) | `bounties`, `contracts` | hydrate the record from the node, upsert, apply claim, zero the escrow |
| Event classification (`parser.rs`) | none | `classify_tx`: attestation, bounty, contract and bank pass |
| Body decoding (`decode.rs`) | none | `decode_tx_body`: strip the wrapper, signer, nonce |
| Web faucet (`api/src/handlers.rs`, `drip/src/ratelimit.rs`) | `DashMap` address → last drip | check, drip, record; `drip_status` (peek) |
| Bot faucet (`api/src/bot_drip.rs`) | `bot_drips` | secret, amount, two cooldown queries, drip, INSERT |
| Signer (`drip/src/signer.rs`) | nonce counter | seed from the chain, reserve, sign, submit, wait for inclusion |
| List endpoints (`handlers.rs`, `queries.rs`, `cursor.rs`) | none of their own; opaque cursors held by clients | eleven keyset-paginated lists |
| Caches (`stats.rs`, `cluster.rs`) | one entry per key with the time of its put; outside the process, whatever honours `Cache-Control` | look up, compute, put |
| Records, search, info (`handlers.rs`, `queries.rs`) | none | detail by id, `address_summary`, `info`, `bounties_matching`, `search` |
| Boot and routing (`main.rs`, `config.rs`) | - | build the signer, the limiter, the caches; spawn the indexer |
| Node client, attestation ids, wire types | - | HTTP, JSON, SHA-256 |

### How they interact

The walk, the re-poll and the HTTP handlers are tasks of one tokio process. The
walk and the re-poll write to the same `slots` rows; the handlers only read the
tables the indexer writes, with no lock and one snapshot per statement. The two
faucets share one signer and its nonce counter, and nothing else: the cooldown
of the one is in memory, that of the other in a table. The chain node is reached
over HTTP by the indexer (slots, batches, transactions, events, records), by the
signer (nonce, submission, inclusion) and by the handlers of statistics, info,
cluster and addresses. Between the api and its clients there may be caches
(browser, CDN, the explorer's fetch cache) which keep what the api sends with a
`max-age`.

### What is hard

* **Every statement is its own commit.** Slot row, transaction rows, counters,
  resource rows and cursor are written one after the other; a crash between two
  of them makes the next process walk the slot again on top of what is there.
* **Errors are mostly logged and passed over**, so that one bad row does not
  stop the indexer. What is missing after that, and what may not be missing, is
  the question of most properties below.
* **Stale observations.** The walk writes a `finality_status` it fetched two
  awaits earlier while the re-poll flips the same row; a bounty's record is
  hydrated with the state of now for an event of the past; a cached answer may
  be put after a newer one; a lag is the difference of two heights read at
  different moments; a `max-age` of minutes goes out with rows that still
  change.
* **Partial answers.** A failed call to the chain leaves a hole in an answer,
  which is cached like a whole one.
* **Check, then act across awaits**: cooldowns, nonces, caches.
* **Lists that change under a client that pages through them.**

The complete list, each hazard at its line, is in `PROJECT.json` under
`hazards`.

### What makes each part correct

| part | property |
|---|---|
| walk | the cursor promises that nothing below it is missing (`NoSilentGap`, `RefinesBackfill`); everything produced is settled in the end (`EventuallySettled`) |
| slot rows | no invented finality (`FinalityTruthful`), convergence to the chain's (`FinalityConverges`), nothing blanked by a second pass (`NothingForgotten`), a `prev_hash` wherever one can be had (`PrevHashLinked`) |
| transactions | rows refer to rows that exist (`ResourcesAnchored`); how far counters can drift (`DriftBounded`), what cannot drift (`SeenExact`), exactness without faults (`FaultFreeExact`); no refused row stops the walk (`WalkCompletes`); what readers may count on (`RefinesCatalog`) |
| escrow | rows mirror the chain (`MirrorsChain`), err on one side only (`EscrowNotUnderstated`), do not reopen (`ClosedStaysClosed`) |
| classification | the call is not hidden by its side effects (`SemanticWins`), noise is ignored (`NoiseIgnored`), claims are all accounted (`ClaimTally`) |
| bodies | signer and nonce are those that were signed (`SignerExact`, `NonceExact`), except that a gas limit can hide the nonce (`NonceNeverGuessed`, violated) |
| faucet | recorded cooldowns hold (`DripsSpaced`), answers are true (`AnswersTruthful`), nonces are distinct (`NoncesDistinct`), requests are answered (`Answered`), the status endpoint agrees with what was recorded (`StatusTruthful`) |
| lists | nothing twice, nothing missed, an end (`NoRepeats`, `NothingMissed`, `WalkEnds`) |
| caches | bounded age under overlap (`AnswersRecent`), outages forgotten (`OutageNotSticky`), a lag errs on a known side (`LagSound`) |
| records, search | failures belong to the request that is told of them (`FailuresExplained`), a search hit can be followed (`HitResolves`) |

## 2. Modules

| module | models | proved about |
|---|---|---|
| `SlotIngest` | walk and re-poll at slot level | `SlotIngestProofs` |
| `Backfill` | abstract specification of the walk, implemented by `SlotIngest` | refinement in `SlotIngestProofs` |
| `TxIngest` | `ingest_slot_transactions` and below | `TxIngestProofs`, `TxExactProofs` |
| `Catalog` | abstract specification of the transaction tables, implemented by `TxIngest` | refinement in `TxIngestProofs` |
| `Escrow` | the bounty and contract arms of `insert_resource_rows` | `EscrowProofs` |
| `BodyDecode` | `decode_tx_body` as operators on bytes | `ClassifierProofs` |
| `Classifier` | `classify_tx` as operators; extends `BodyDecode` | `ClassifierProofs` |
| `Faucet` | both faucets, limiter, signer, sequencer | `FaucetProofs` |
| `Pagination` | list endpoints, cursors, clients that page | `PaginationProofs` |
| `ResponseCache` | the handlers of statistics, cluster view, records, addresses, info and search, the caches in the process and outside | `ResponseCacheProofs` |
| `MC*` | instances for TLC | |

### SlotIngest

`pc` is the next await of `run`, `rpc` that of the re-poll; `next`, `seen`,
`got`, `gotFacts`, `todo`, `observed` are the tasks' locals, lost in a `Crash`.
`slots`, `finality`, `stamps`, `prevHash`, `facts`, `cursor`, `identity` are
columns of Postgres. `stamps[h]` counts the `NOW()`s written to
`finalized_at`, 0 being NULL. One action is one await with everything up to the
next one; the ON CONFLICT branch of `upsert_slot` is `WriteSlot`, the UPDATE of
`flip_pending_slots` is `FlipRow`, one row at a time as in the code's loop. A
write that returns an error may have been applied (`UpsertSlotFailure`,
`FlipPendingFailure`). The height a walk is answerable for begins at `Base`.
`ingest_slot_transactions` is one step here and a module of its own below: its
caller moves on whatever it returns. Hashes, timestamps and counts of a slot are
left out: they are copied from one fetch. `Linked` are the heights whose JSON
carries a `prev_hash`, which is stored as it is, without a look at the predecessor;
for the others `upsert_slot` looks the row of N - 1 up. `blind` remembers the
heights for which that lookup failed, which the code swallows.
`PrevHashLinked` therefore speaks of both sides: what a looked-up `prev_hash`
names, and for which reasons a row may be without one (the first height of the
walk, a predecessor skipped after a 404, a failed lookup). A crash, a restart
mid-backfill or a lost cursor is none of them.

`Backfill` is what a reader of the database relies on: heights become settled
from `Base` upwards without a gap, and `mark` is only put on a height below
which all is settled. *Settled* means stored and walked, or skipped after a 404: a
slot the node wrongly answers 404 for is lost, and no property here says otherwise.

### TxIngest

The walk goes through a fixed `Chain` (slots of batches of transactions).
`position` is `position_in_slot`: a 404 or a skipped transaction does not use
one up, a failed insert does, as in the code. `InsertRejected` holds the two
constraints that make the INSERT fail by itself: UNIQUE `(slot, position)`, and
the CHECK that a reverted row has a `revert_reason`, a column the INSERT always
binds NULL. `events` is whether this pass got the slot's events; without them a
transaction is `unknown`. `passes` and `active` are history for the properties.

An attestor set, a schema or an attestation has an id of its own (`Id`), and any
number of transactions may register it (`Registers`): `resources` maps an id to
the transaction its row names. On a conflict the row of an attestor set is
replaced, that of a schema or an attestation is left as it is (`WriteResource`),
no foreign key is checked, and the counters are bumped all the same. So the
counters count transactions and not rows: `DriftBounded` bounds them by the passes
over the recorded transactions that name their owner, `FaultFreeExact` says which
row an id is left with and that each counter is the number of committed
transactions it counts, which for a repeated id is more than the rows.

The chain is a constant, and four assumptions say what a chain is: a hash is at
one place of it (`PlaceAssumption`), the events that register a resource name who
does (`SenderAssumption`), the resource and what it refers to
(`ResourceAssumption`; their payloads have no optional field for it, and the prefix
of an id tells the tables apart), and a committed call has run, so what it refers
to was committed before it (`ChainAssumption`, which only the exactness without
faults needs).

`Catalog` is what the readers of these tables rely on, the lists and the
records: rows come and stay, no two transactions of a slot hold one position at
the same time, and a resource appears only under a transaction and a parent that
can be read already; it stays, and only an attestor set, which has no parent, is
moved under a later registration. It says nothing of how the indexer gets there;
a later pass may move a transaction to another free position, and `Pagination`
takes that move as `Reposition`.

### Escrow

The chain is an external actor that moves on while the walk is behind. `Frozen`
stands for a status the indexer does not know, which it stores as open. A
transaction stands for a slot of its own, and may hold up to `MaxBatch` claims.
`chainClaims`, and `total` in an entry of the log, are history: what the chain
has paid so far. `claims` and `escrow` are the delta
columns; `postedAt` is set once. One of the moves claims from a bounty and closes
it in one transaction, which the classifier turns into a claim: the row gets the
closed status from the hydrated record, and the rest of the pool stays in
`escrow` (`ClosedByClaim` in `MirrorsChain`).

### Classifier

An event is its key, whether its payload decodes, the item it names, and a
payout that may not parse. A pass that stops at its first hit is `FirstOf`; the
loop over the bounty events, which goes on counting, is the recursive function in
`ScanBountyEvents`, one round of it `ScanBounty`. A small state machine grows the
sequence of events so that TLC evaluates the passes on all sequences. The
properties define the result independently: by sets of events, by the sum of the
payouts without a limit (`Owed`), and by the same sequence with an event taken
out. The keys that an unknown transaction keeps for forensic lookups are left out.

### BodyDecode

A body is a sequence of bytes, and the widths of its fields are constants with
the relations the code relies on: a gas limit is as wide as a nonce and a
priority fee together, the fee is wider than a nonce. Those relations decide what
the backward parse confuses, so the instance scales the widths (one byte for
eight, four for the length) and keeps the relations. `Inner` and `Body` are the
chain's encoding; the properties compare what is decoded with the fields that
were encoded, in the state machine of `Classifier`. A body is shorter than what
the length in the wrapper can say (`ClassifierAssumption`), as borsh guarantees
with its four bytes. `SignedTx` says what the fields of a signed transaction are;
the instance is a subset of it. `Shadowed` are the bodies whose gas limit passes for
none; `NonceExact` is about the others, and about transactions that are unique by
their nonce. A body that is unique by a generation carries no nonce; what is read
from it, which may be something by the same accident, is not stated.

### Faucet

`stage` is where a handler is; a step ends at an await. `Sign` goes from
the nonce reservation to the hand-over of the transfer, which has no await in
between. Transfers reach the sequencer in any order, and it accepts exactly the
next nonce. `Disconnect` drops a handler at an await, `Restart` all of them with
the DashMap and the counter; `bot_drips` and sent transfers remain. `NoncesDistinct`
is about the handlers of one process: after a restart a new transfer may carry the
nonce of an old one that is still on its way, and the sequencer takes one of them. `DripStatus`
reads the limiter without a step of its own, so `StatusTruthful` asks it in every
state.

### Pagination

A row is its sort key and whether it satisfies the endpoint's filters. `Ingest`
inserts anywhere, because a slot that is walked again fills gaps; `Reposition`
and `Refilter` are the updates the indexer makes to listed rows. `Decode`
succeeds when the token has the fields of the endpoint's cursor struct. The
limits are scaled down (default 2, maximum 3).

### ResponseCache

Answers of different URLs do not touch each other, so all requests are for one
URL, whose kind `key` is chosen at the start: eight kinds of statistics, one of
them also with a `?window=` that does not parse or is too long (`BadWindow`), the
cluster view, seven kinds of records, addresses, `info` and the matching
bounties. A handler looks the key up (`CacheHit`, `CacheMiss`), computes with one
action per await, and `Store` puts and answers; statistics and cluster view have
an entry in the process, the rest have none (`TTL` 0). `edge` is the cache
outside: `KeepOutside` may keep any answer with a `max-age`, `EdgeHit` answers
from it. Two handlers of one key compute at the same time and put in any order.

`rows` counts what the indexer has recorded for the key: rows to count, or the
versions of one record, 0 being its absence. Ages are relative: a `Tick` ages the
two entries and an entry nothing can find fresh is dropped, so that time has no
bound. The chain goes down and comes back, any query may fail; what a handler
does about it (an error, an estimate, a hole, an unknown topology) is the
handler's own action. A window that does not parse is a 500 before the cache is
looked at (`WindowMalformed`), one too long for chrono a 500 on the way to the
query (`WindowTooLong`); one that chrono can hold but not subtract from the
present panics in the task, and the client gets no answer (`WindowPanics`). `answer` is what a client was told in the last step.

## 3. Runs

All bounds are constants with "bound" in their comment. Faults (crashes, failed
calls, 404s, restarts, lost answers) share one budget, so every combination of
that many is explored at every point.

| run | instance | shows |
|---|---|---|
| `slot_walk` | 3 heights, 2 faults, a slot without `finality_status`, one with its own `prev_hash` | the five safety properties, the refinement of `Backfill` and, with `FairSpec`, the two liveness properties. Three heights give a predecessor, a slot in hand and one behind it; two faults allow a failure during recovery from another |
| `tx_ingest` | 2 slots, 3 batches, 8 transactions of all resource kinds, a set and an attestation registered twice, 3 faults | anchoring, drift, exactness, progress, the refinement of `Catalog`. An attestation needs a schema in another slot, which needs a set in another batch, so each foreign key can break, and the repeated registrations come after their first within a slot, in the same batch or a later one |
| `tx_reverted` | no fault | *violation*: no reverted transaction is ever recorded |
| `escrow` | 2 bounties, 1 contract, 5 transactions, 2 faults | mirror, one-sided error, no reopening. Five transactions reach every terminal event, and a claim that closes |
| `escrow_replay` | 1 bounty, 1 fault | *violation*: a claim walked twice makes the escrow negative |
| `classifier` | every sequence of up to 3 events over all keys; 18,432 signed bodies | the two decoding properties on bodies bare and wrapped, of two chains, with and without a gas limit; the three classification properties: three events suffice for a bank event before, and noise after, a semantic one, and for two claims and their overflow |
| `nonce_guess` | the same bodies | *violation*: the lower half of `max_fee` is read as the nonce |
| `faucet` | any 3 of 3 web and 4 bot requests, windows of 1 tick, 1 fault | the five faucet invariants on a shared signer and, with `FairSpec`, `Answered`. Web requests share an address, bot requests overlap pairwise, once by address and once by user; one request is malformed, one has the wrong amount. One tick is before and at the end of a window; what longer ones do is proved |
| `faucet_race` | 2 web requests, no fault | *violation*: two drips in one window |
| `faucet_nonce` | 2 web requests, no fault | *violation*: the nonce the chain waits for is never handed out again |
| `pagination` | 3 rows, 2 slots, 2 tie breakers, eleven endpoints, limits absent, 0, 1 and above the maximum | the three paging properties and termination. Three rows give two page boundaries with limit 1 and one with the default |
| `response_cache` | 2 reusable handlers, 21 kinds of URL, up to 2 rows or versions, 1 fault, TTL 2, `max-age` 1 to 3, unbounded time | the five cache properties; two handlers overlap on one key, and go on answering, so that an older result can be put over a newer one and be hit later. `max-age` below, at and above the TTL are all there |

Deadlock is checked in `slot_walk`, whose tasks loop for ever. In the other
models the system may come to rest: all requests answered, all pages served, the
chain walked.

Every property has a mutant, a plausible bug in one mapped definition (a dropped
guard, an off-by-one, a swapped order), under which its run fails. The mutated
forms stand next to the definitions, marked `Mutant`.

### Fairness

* `SlotIngest`: weak fairness of each of the two tasks. Both are endless loops
  the runtime keeps scheduling; a call to the node returns within the client's
  15 seconds (`client.rs:56`), Postgres is assumed to answer, and a failed
  attempt is made again after a back-off. Faults are bounded: liveness is
  claimed once calls stop failing. The chain itself is not assumed to produce
  or finalise.
* `TxIngest`: weak fairness of the walk, for the same reason.
* `Faucet`: weak fairness of the handlers taken together (while some can run, one
  is run; none is preferred) and of the sequencer, which answers transfers, an
  answer the signer itself does not bound with a timeout. Clients are not assumed
  to ask.
* `Pagination`: weak fairness of serving: the client follows the cursor and the
  server answers.

### Where code and documentation disagree

The five violation runs state a sentence of the repository and show how the code
departs from it; `PROJECT.json` quotes them under `findings`. Modelling met more
of these, which no run states:

* `db.rs:158-161` says `finalized_at` is stamped exactly once. A walk that
  fetched a slot as pending can set a finalized row back to pending, and the
  next flip stamps it again; only its presence is preserved
  (`NothingForgotten`).
* `stats.rs:144-145` says `blocks` equals the chain height once caught up. A
  height answered with 404 is skipped for good.
* `20260509000001_indexer_query_tables.sql:110-111` says UNIQUE
  `(slot, position)` prevents double ingest. It does not prevent the counters
  from being bumped again (`DriftBounded` bounds this); lines 48-49 say the
  position is stable, but passes with different 404s number differently.
* `20260528000001_bounties.sql:76`: `posted_at_slot` is a later slot when the
  hydrate of the post failed.
* `parser.rs:365-369` lists an order of preference inside the attestation
  module; the code takes the first event.
* `docs/rfc/0001-pagination.md:108-111` promises rows that land during a walk
  and no duplicates; new rows above the cursor are not served, and a
  re-positioned transaction can be served twice (hence `disturbed` in
  `NoRepeats`). Line 123 promises 400 for a foreign cursor; it gets a page.
* `stats.rs:23-25` says at most one computation per window; overlapping misses
  all compute. `stats.rs:149` calls `txs_committed` a subset of `txs_total`;
  they are counted on different snapshots. `stats.rs:25-28` has `Cache-Control`
  respect the same window; an entry about to expire is sent with the full
  `max-age`, so the two windows add up (`Slack` in `AnswersRecent`).
* `cluster.rs:114-117` wants a prompt retry once the chain is back; the 503 is
  itself sent with a `max-age` of 10 seconds (hence `~answer.edged` in
  `OutageNotSticky`).
* `handlers.rs:39-41` gives the long `max-age` to what does not change; a block's
  `finality_status`, a schema's `attestation_count` and a set's `schema_count`
  do.
* `20260509000001_indexer_query_tables.sql:240-243` gives a re-submitted
  attestation a row of its own; since `20260517000001_attestation_id_lat.sql` it
  folds into the first one, which that file says at 25-27. The schema's
  `attestation_count` is bumped all the same (`ingest.rs:422-423`): a walk without
  any fault leaves it above the number of rows, although `248-249` of the first
  file and `ingest.rs:368-370` have it recomputed from the rows
  (`FaultFreeExact` says what it counts).
* `stats.rs:785-787` and `883` say that `next_block_eta` fetches the head in
  parallel with the slots; the code awaits the one before the other, which is what
  `LagSound` rests on.
* `stats.rs:301-304`: a malformed `?window=` is a mistake of the client and is
  answered with 500.
* `stats.rs:1023-1041`: the web series of `drips_daily` counts every transfer of
  the hot wallet, the bot's among them, so that `total` counts a bot drip twice.
* `queries.rs:1187-1191` speaks of the first match by payload hash; the query
  returns the latest.
* `handlers.rs:359-364` promises `null` for the chain identity while the chain is
  down; the code sends empty strings.

## 4. Proofs

Every theorem is about the specification the runs check, without its fairness,
and holds for every value of the constants that satisfies the `ASSUME`s of the
model; TLC evaluates those on the instances. Each rests on an inductive invariant
which TLC checked on the run's instance before it was proved. All invariants,
action properties and refinements that a run checks are proved.

tlapm 1.4.5 tells its SMT solver of every function `s`, sequence or not, that
`DOMAIN s = 1..n` exactly when `Len(s) = n`. From right to left that is too
strong, and where a table over `0..n` and a `Len` meet in one obligation it
proves anything. The lemmas about tables are therefore stated without `Len`, and
all eight modules are also proved when only the direction from left to right is
given to the solver.

| module | theorem | statement |
|---|---|---|
| `SlotIngestProofs` | `TypeCorrect` | `Spec => []TypeOK` |
| | `GapFree` | `Spec => []NoSilentGap` |
| | `FinalityIsTrue` | `Spec => []FinalityTruthful` |
| | `PrevHashIsLinked` | `Spec => []PrevHashLinked` |
| | `NeverForgets` | `Spec => NothingForgotten` |
| | `BackfillRefined` | `Spec => RefinesBackfill` |
| `TxIngestProofs` | `TypeCorrect` | `Spec => []TypeOK` |
| | `ResourcesStayAnchored` | `Spec => []ResourcesAnchored` |
| | `SeenIsExact` | `Spec => []SeenExact` |
| | `ImplementsCatalog` | `Spec => RefinesCatalog` |
| | `DriftIsBounded` | `Spec => []DriftBounded` |
| `TxExactProofs` | `FaultFreeIsExact` | `Spec => []FaultFreeExact` |
| `EscrowProofs` | `TypeCorrect` | `Spec => []TypeOK` |
| | `NeverUnderstated` | `Spec => []EscrowNotUnderstated` |
| | `TablesMirrorChain` | `Spec => []MirrorsChain` |
| | `ClosedIsFinal` | `Spec => ClosedStaysClosed` |
| `ClassifierProofs` | `SemanticWinsHolds` | `Spec => []SemanticWins` |
| | `NoiseIgnoredHolds` | `Spec => []NoiseIgnored` |
| | `ClaimTallyHolds` | `Spec => []ClaimTally` |
| | `SignerExactHolds` | `Spec => []SignerExact` |
| | `NonceExactHolds` | `Spec => []NonceExact` |
| `FaucetProofs` | `TypeCorrect` | `Spec => []TypeOK` |
| | `CooldownHolds` | `Spec => []DripsSpaced` |
| | `AnswersAreTrue` | `Spec => []AnswersTruthful` |
| | `NoncesAreDistinct` | `Spec => []NoncesDistinct` |
| | `StatusIsTrue` | `Spec => []StatusTruthful` |
| `PaginationProofs` | `TypeCorrect` | `Spec => []TypeOK` |
| | `WalkRepeatsNothing` | `Spec => []NoRepeats` |
| | `WalkMissesNothing` | `Spec => []NothingMissed` |
| `ResponseCacheProofs` | `TypeCorrect` | `Spec => []TypeOK` |
| | `AnswersAreRecent` | `Spec => []AnswersRecent` |
| | `OutageIsNotSticky` | `Spec => []OutageNotSticky` |
| | `FailuresAreExplained` | `Spec => []FailuresExplained` |
| | `HitsResolve` | `Spec => []HitResolves` |
| | `LagIsSound` | `Spec => []LagSound` |

### Slots

For every `MaxHeight`, `MaxFaults`, `StartHeight` (also a CLI start height, to
which every restart returns), `Unreported` and `Linked`. The constants are naturals
(`StartHeight` may be absent) and the last two are sets of naturals.

The inductive invariant is `IInv == TypeOK /\ WalkInv /\ FinalityInv`.
`NoSilentGap` is not inductive: that `WriteCursor` may put the
cursor on `next` depends on everything below `next` being settled and on the row
and its transactions having been dealt with, which is a fact about where the
walk is (`WalkInv`); and that a row or the cursor never leaves the chain's
heights (`TypeOK`) depends on `next <= seen <= tip` inside the loop.
`FinalityTruthful` depends on what the tasks have fetched and not yet written
still being true, which is `FinalityInv`: the chain never takes finality back,
so a stale *finalized* is harmless, while a stale *pending* is not excluded. Each
part has its step lemma with one case per action. The refinement maps a step
that settles a height to `Settle`, a cursor write to `Promise`, and everything
else to a stutter.

### Transactions

For every chain that satisfies the assumptions of section 2, every set of
addresses and any number of faults.

`TxIngestProofs`: the tables alone do not say why a resource row has its
transaction's row. `RowInv` does: it says what the earlier statements of the
transaction in hand have done (the row is there with its sender before a counter
or a resource row is written, the resource row before it is counted). `Effects`
reduces the 25 actions to what a step may do to each table; the rest of the proof
looks at those effects only. In the refinement, a write of a row is `Place`, a
resource row that is new or replaced is `Register`, everything else a stutter: `InsertRejected` and
`ForeignKeyHolds` are what makes them steps of `Catalog`.

For `DriftIsBounded`, a counter does not say what it has counted, so no invariant on
the variables is inductive as it stands. `Tally` says that there is a set of
passes over transactions, as large as the counter, which does not contain the pass in
hand for a transaction that is still to be counted. A bump adds that pass, which
is new to the set; the bound follows because the set is one of passes.

`TxExactProofs`: `ExactInv` says what each table shows at every step inside a
transaction: `Done(after)` are the committed transactions behind the walk, with
the one in hand once its own statement is behind. `position` is the number of
transactions before the one in hand (`PositionInv`), so no position is taken; and
a registration of the parent is behind the walk, so no foreign key fails
(`ParentThere`). Each statement then adds to a table exactly what `Done` gains
(`TableMoves`). What is behind the walk precedes what is in hand
(`BehindPrecedes`), so that a row replaced on a conflict names the last
registration, and one that is kept the first (`OneMore`).

### Escrow

For any bounties, contracts, pool, payout, number of claims in a transaction and
number of faults. Status, claims and escrow of a row are compared with a chain
that has moved on, so the invariant is an account of the log between them: a
terminal entry is the item's last (`LogInv`), the totals of the claims add up
(`ClaimsInv`), and what the walk still has to do (`Todo`) is the difference of
row and chain (`OnceInv`, `StatusKept`, `RowKept`, `ClaimsKept`, `EscrowKept`).
That an upsert does not reopen an item needs `WalkInv`: a record in hand that was
fetched before the item closed may be written only while the row is not closed.

### Classification

For any sequence of events, any ids and any largest amount. The state machine has
little to say (`Shape`: events are events); the theorems are about what a loop
computes for every input. The library's induction theorems take an operator as a
parameter, which the provers cannot instantiate, so induction is stated for a
*set* of naturals (`Induction`, from the well-foundedness of `<`): a set
comprehension then takes the place of the operator. From it follows that a
function defined by recursion exists (`Recursion`), hence that the `CHOOSE` behind
a recursive definition has the equation one expects (`ScanTable`, `OwedTable`).

After n rounds the loop over the bounty events holds the first bounty event among
n (`ScanFirst`), the number of claims that decode (`ScanCount`) and, though it
saturates in every round, the exact sum cut off once (`ScanTotal`). With what
`FirstOf` finds (`FirstIs`) this decides which pass yields something and what
(`ClassifyCases`, `BountyRowIs`). For noise, the table of a sequence without its
i-th event is the table of the whole, shifted by one from i on (`ScanWithout`).

### Bodies

For all widths of the fields that satisfy `WidthAssumption`, any number of values
of a byte, any api chain id and any signed transactions. `IsPart(m, s, o)` says
that m stands in s after o bytes. Writing a field keeps the parts before it and
adds one (`WriteField`), so nine fields give the layout (`Layout`), from which
every byte and slice the decoder looks at is read off. That the wrapper's length
is read back (`LengthRoundTrip`) is an induction over its bytes: the value of the
last k of them is the length divided by the weight of the bytes before. With that,
stripping gives back the inner body, unless a bare signature imitates a wrapper
(`StripBody`).

The nonce is looked for from the end. The offsets for the true width of the gas
limit hit the tags; those for a missing limit, tried first, are `GasLen` bytes too
far when there is one (`Offsets`). Since a limit is as wide as a nonce and a
priority fee, they then take the top byte of the priority fee for the uniqueness
tag, the top byte of the limit for its tag, and the start of `max_fee` for the
nonce.
`ShapesThatFit` says which shapes fit, and `NonceOf` what is taken for the nonce,
also of a `Shadowed` body: what `NonceExact` leaves out is what `nonce_guess` shows.

### Faucet

For any requests, addresses, users, windows and starting nonce. `TransferInv`
follows a transfer from signature to answer. `MemoryInv` relates the two cooldown
stores to the drips that were saved: the `DashMap` keeps the latest of an
address, since time does not run backwards, `bot_drips` keeps all. `ClearedInv` is
what makes `DripsSpaced` inductive: a handler past its checks, or its transfer on
the way, has seen every drip that was on record when it arrived, and a window
that was over then stays over.

### Lists

For any finite table, any limits and any writes between two pages. The cursor
splits the table (`Splits`): what was served lies at or above it, what page one
saw and is still to come lies below. Rewritten rows and a cursor of another
endpoint are excluded by the properties themselves. That a page ends where the
next begins rests on the tie breakers (`KeysInv`), and on a finite set of rows
having a least one.

### Caches

For any set of handlers, any TTLs and `max-age`s, and time without bound. The
properties are about the answer of one step; the invariant is about where an
answer can come from: a draft in hand at each await (`Ready`), the entry in the
process (`CacheInv`) and the one outside (`EdgeInv`), with how much of its window
it has used up.

### Only model-checked

* Liveness: `EventuallySettled`, `FinalityConverges`, `Answered`,
  `WalkCompletes`, `WalkEnds`. Fairness and ENABLED are outside the prover's
  reach.
* The findings of section 3, as counterexamples on small instances.

## 5. Not modelled

* Node client: transport and JSON; its outcomes are inputs of the models.
* base64, bech32m, and the SHA-256 of attestation ids: libraries, and functions
  of bytes whose properties (no collisions) TLC cannot reach.
* Response shapes and wire types: struct definitions and their serialisation.
  The 400s of malformed ids and queries are decided before any state is read; the
  500 of a malformed window is modelled.
* What the SQL aggregates add up (days, percentiles, ranks), and the health rules
  of the cluster view: one pure function of one response or one snapshot.
* Configuration parsing, CORS, routing beyond which handler runs.
* Cache stampedes as load: how many computations run at once is not bounded by
  the code, and no property is claimed of it.

## 6. Plan

Done: the modules of section 2; proofs of every invariant, action property and
refinement the runs check. `SlotIngest` and `TxIngest` are not composed into one
state machine: each has the cursor and the crash that matter to it, and the walk's
only use of the transaction level is that it returns (`IngestTransactions`).

Left:

1. Shorter proofs where lemmas of `TxIngestProofs` and `TxExactProofs` about the
   same moves of the walk can be shared.
2. The five liveness properties, should the prover learn to reason about ENABLED.
