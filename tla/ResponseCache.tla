--------------------------- MODULE ResponseCache ---------------------------
(***************************************************************************)
(* How old, and how incomplete, an answer of the api can be: the handlers  *)
(* of the statistics (stats.rs), of the cluster view (cluster.rs) and of   *)
(* single records, addresses, info and search (handlers.rs), behind the    *)
(* two caches an answer passes through.                                    *)
(*                                                                         *)
(*   - in the process: StatsCache and ClusterCache.  A handler looks its   *)
(*     key up; a fresh entry is the answer.  Otherwise it computes one,    *)
(*     across awaits, and puts it with the time of the put.  Nothing keeps *)
(*     two handlers from computing the same key at once.                   *)
(*   - outside of it: whatever honours Cache-Control between the api and   *)
(*     the client (browser, CDN, the explorer's fetch cache).  The api     *)
(*     sends the full max-age with every answer, also with a cached one.   *)
(*                                                                         *)
(* Answers of different URLs do not touch each other, so all requests here *)
(* are for one URL, of the kind `key`: "series" stands for the daily       *)
(* series, "leaders" for the three leaderboards.  A handler that has       *)
(* answered takes the next request.                                        *)
(***************************************************************************)
EXTENDS Integers, FiniteSets

CONSTANTS
  Handler,    \* the handlers that can run at the same time
  TTL,        \* how long an entry of the process is fresh, by key; 0: no entry
  MaxAge,     \* the max-age an answer is sent with, by key
  UnknownAge, \* the max-age of an unknown topology
  MaxRows,    \* bound: what the indexer can record, by key
  MaxFaults   \* bound: failed queries and outages of the chain

\* "active" has a window that can be used; the two others stand for a window
\* that does not parse, and for one that goes back too far.
BadWindow == {"badwindow", "longwindow"}

StatsKey == {"totals", "active", "series", "leaders", "drips", "finality",
             "eta", "holders"} \cup BadWindow
RecordKey == {"block", "tx", "schema", "attestor_set", "attestation", "bounty",
              "contract"}
CacheKey == StatsKey \cup RecordKey
              \cup {"cluster", "info", "address", "matching"}

\* Keys whose answer compares the indexer with the head of the chain.
LagKey == {"eta", "info"}

\* Keys whose handler calls the chain.
ChainKey == {"totals", "eta", "holders", "cluster", "info", "address"}

\* Keys that a hit of /v1/search leads to.
SearchKey == {"block", "tx", "schema", "attestor_set", "attestation",
              "address"}

ASSUME CacheAssumption ==
  /\ TTL \in [CacheKey -> Nat]
  /\ MaxAge \in [CacheKey -> Nat]
  /\ UnknownAge \in Nat
  /\ MaxRows \in [CacheKey -> Nat]
  /\ MaxFaults \in Nat

VARIABLES
  key,      \* what the requests ask for
  stage,    \* where a handler is
  draft,    \* what it has computed so far
  cache,    \* the entry of the key in the process, or NoEntry
  edge,     \* the answer kept outside of it, or NoEntry
  answer,   \* the answer a client got in the last step, or NoAnswer
  rows,     \* what the indexer has recorded for the key; 0: nothing
  head,     \* the head of the chain
  up,       \* the chain answers
  floor,    \* history: `rows` when the request reached the handler
  real,     \* history: the lag of the indexer at the handler's last read
  found,    \* history: handlers whose client follows a hit of /v1/search
  dark,     \* history: handlers during whose work the chain was down
  failed,   \* history: handlers one of whose queries failed
  faults    \* faults taken so far

world   == <<key, rows, head, up, faults>>
request == <<floor, real, found, dark, failed>>
vars == <<key, stage, draft, cache, edge, answer, rows, head, up, floor, real,
          found, dark, failed, faults>>

(***************************************************************************)
(* A body.  `total` and `committed` are counts, heights or versions of a   *)
(* row, `lag` a number of slots; `gap` says that something is left out     *)
(* because a call failed.  The rest is history: how long ago the handler   *)
(* that computed it answered, `rows` when that handler began, and whether  *)
(* a call could fail it meanwhile.                                         *)
(***************************************************************************)
Body == [kind : {"none", "data", "estimate", "unknown", "error", "missing",
                 "nomatch"},
         total : Nat, committed : Nat, lag : Nat, gap : BOOLEAN,
         old : Nat, since : Nat, hurt : BOOLEAN]

NoBody   == [kind |-> "none", total |-> 0, committed |-> 0, lag |-> 0,
             gap |-> FALSE, old |-> 0, since |-> 0, hurt |-> FALSE]
NoEntry  == [age |-> 0, life |-> 0, body |-> NoBody]
NoAnswer == [body |-> NoBody, edged |-> FALSE, found |-> FALSE, floor |-> 0,
             dark |-> FALSE, failed |-> FALSE]

\* What a cache keeps: its age, how long it is fresh, and the body.
Entry == [age : Nat, life : Nat, body : Body]

\* The types of the variables, for the reader.
TypeOK ==
  /\ key \in CacheKey
  /\ stage \in [Handler -> {"idle", "found", "first", "second", "third",
                            "put"}]
  /\ draft \in [Handler -> Body]
  /\ cache \in Entry /\ edge \in Entry
  /\ answer \in [body : Body, edged : BOOLEAN, found : BOOLEAN, floor : Nat,
                 dark : BOOLEAN, failed : BOOLEAN]
  /\ head \in Nat
  /\ rows \in 0..head
  /\ up \in BOOLEAN
  /\ floor \in [Handler -> Nat]
  /\ real \in [Handler -> Nat]
  /\ found \subseteq Handler
  /\ dark \subseteq Handler
  /\ failed \subseteq Handler
  /\ faults \in 0..MaxFaults

Init ==
  /\ key \in CacheKey
  /\ stage = [r \in Handler |-> "idle"]
  /\ draft = [r \in Handler |-> NoBody]
  /\ cache = NoEntry
  /\ edge = NoEntry
  /\ answer = NoAnswer
  /\ rows = 0
  /\ head = IF key \in LagKey THEN 0 ELSE MaxRows[key]
  /\ up = TRUE
  /\ floor = [r \in Handler |-> 0]
  /\ real = [r \in Handler |-> 0]
  /\ found = {}
  /\ dark = {}
  /\ failed = {}
  /\ faults = 0

Fault ==
  /\ faults < MaxFaults
  /\ faults' = faults + 1

Silent == answer' = NoAnswer

-----------------------------------------------------------------------------
\* Time passes.  An entry that nothing can find fresh any more is the same
\* as none.
Aged(e) ==
  IF e = NoEntry \/ e.age > e.life THEN NoEntry
  ELSE [e EXCEPT !.age = @ + 1, !.body.old = @ + 1]

Tick ==
  /\ cache' = Aged(cache)
  /\ edge' = Aged(edge)
  /\ Silent
  /\ UNCHANGED <<world, stage, draft, request>>

\* The chain produces a block.
Produce ==
  /\ key \in LagKey
  /\ head < MaxRows[key]
  /\ head' = head + 1
  /\ Silent
  /\ UNCHANGED <<key, rows, up, faults, stage, draft, cache, edge,
                 request>>

\* The indexer records something: one more row to count, or the record
\* asked for, or a later version of it (a block becomes final, a schema
\* gets another attestation).
Record ==
  /\ rows < head
  /\ rows' = rows + 1
  /\ Silent
  /\ UNCHANGED <<key, head, up, faults, stage, draft, cache, edge,
                 request>>

InHand == {r \in Handler : stage[r] \notin {"idle", "found"}}

\* The chain goes down, and comes back.
GoDown ==
  /\ key \in ChainKey
  /\ up
  /\ up' = FALSE
  /\ dark' = dark \cup InHand
  /\ Fault
  /\ Silent
  /\ UNCHANGED <<key, rows, head, stage, draft, cache, edge, floor, real,
                 found, failed>>

ComeBack ==
  /\ ~up
  /\ up' = TRUE
  /\ Silent
  /\ UNCHANGED <<key, rows, head, faults, stage, draft, cache, edge,
                 request>>

-----------------------------------------------------------------------------
(***************************************************************************)
(* Answers.                                                                *)
(***************************************************************************)
Plain(kind) == [NoBody EXCEPT !.kind = kind]
Data(n)     == [Plain("data") EXCEPT !.total = n, !.committed = n]

\* Mutant: a 404 goes through the same helper as the record.
MaxAgeOfMissing(b) ==
  CASE b.kind = "unknown" -> UnknownAge
    [] b.kind \in {"error", "nomatch"} -> 0
    [] OTHER -> MaxAge[key]

\* The max-age in the header of an answer; 0 when it has no such header:
\* errors, 404s and the answers of search.
MaxAgeOf(b) ==
  CASE b.kind = "unknown" -> UnknownAge
    [] b.kind \in {"error", "missing", "nomatch"} -> 0
    [] OTHER -> MaxAge[key]

\* The client of `r` gets `b`, and the handler is free again.  `f` is the
\* floor of the request, `d` and `x` whether the chain was down and whether
\* a query failed.
Deliver(r, b, outside, f, d, x) ==
  /\ answer' = [body |-> b, edged |-> outside, found |-> r \in found,
                floor |-> f, dark |-> d, failed |-> x]
  /\ stage' = [stage EXCEPT ![r] = "idle"]
  /\ draft' = [draft EXCEPT ![r] = NoBody]
  /\ floor' = [floor EXCEPT ![r] = 0]
  /\ real' = [real EXCEPT ![r] = 0]
  /\ found' = found \ {r}
  /\ dark' = dark \ {r}
  /\ failed' = failed \ {r}

\* An answer of the process may pass a cache on its way, which keeps one
\* that has a max-age.
KeepOutside(b) ==
  \/ UNCHANGED edge
  \/ /\ MaxAgeOf(b) > 0
     /\ edge' = [age |-> 0, life |-> MaxAgeOf(b), body |-> b]

\* A cache on the way answers (external): age < max-age.
EdgeHit(r) ==
  /\ stage[r] \in {"idle", "found"}
  /\ edge # NoEntry
  /\ edge.age < edge.life
  /\ Deliver(r, edge.body, TRUE, rows, FALSE, FALSE)
  /\ UNCHANGED <<world, cache, edge>>

\* Mutant: an entry is good for one tick longer.
FreshLonger == cache # NoEntry /\ cache.age <= TTL[key]

\* get_fresh: elapsed < ttl.
Fresh == cache # NoEntry /\ cache.age < TTL[key]

Put(b) == cache' = [age |-> 0, life |-> TTL[key], body |-> b]

\* The handler starts, and answers a hit at once ...
CacheHit(r) ==
  /\ stage[r] \in {"idle", "found"}
  /\ key # "badwindow"
  /\ Fresh
  /\ Deliver(r, cache.body, FALSE, rows, ~up, FALSE)
  /\ KeepOutside(cache.body)
  /\ UNCHANGED <<world, cache>>

\* ... or begins to compute.  A window that does not parse gets neither far.
CacheMiss(r) ==
  /\ stage[r] \in {"idle", "found"}
  /\ key # "badwindow"
  /\ ~Fresh
  /\ stage' = [stage EXCEPT ![r] = "first"]
  /\ floor' = [floor EXCEPT ![r] = rows]
  /\ dark' = IF up THEN dark ELSE dark \cup {r}
  /\ Silent
  /\ UNCHANGED <<world, draft, cache, edge, real, found, failed>>

\* Mutant: an unknown topology is cached as well.
CacheableUnknown(b) == TTL[key] > 0 /\ b.kind # "error"

\* A 500 returns before the put; an unknown topology is not put.
Cacheable(b) == TTL[key] > 0 /\ b.kind \in {"data", "estimate"}

\* The handler stores what it computed and answers.
Store(r) ==
  /\ stage[r] = "put"
  /\ LET b == [draft[r] EXCEPT !.since = floor[r],
                               !.hurt = r \in dark \cup failed]
     IN /\ IF Cacheable(b) THEN Put(b) ELSE UNCHANGED cache
        /\ Deliver(r, b, FALSE, floor[r], r \in dark, r \in failed)
        /\ KeepOutside(b)
  /\ UNCHANGED world

-----------------------------------------------------------------------------
(***************************************************************************)
(* Computations, one action per await.                                     *)
(***************************************************************************)
At(r, k, s) == key = k /\ stage[r] = s

\* A call returned: the draft is `b`, and `s` comes next.
Returned(r, b, s) ==
  /\ draft' = [draft EXCEPT ![r] = b]
  /\ stage' = [stage EXCEPT ![r] = s]
  /\ real' = IF key \in LagKey THEN [real EXCEPT ![r] = head - rows] ELSE real
  /\ Silent
  /\ UNCHANGED <<key, rows, head, up, cache, edge, floor, found, dark>>

Computed(r, b, s) == Returned(r, b, s) /\ UNCHANGED <<failed, faults>>

QueryFailed(r, b, s) ==
  /\ Returned(r, b, s)
  /\ failed' = failed \cup {r}
  /\ Fault

\* A best-effort call to the chain: a failure leaves its field out.
BestEffort(r, s) == Computed(r, [draft[r] EXCEPT !.gap = ~up], s)

\* compute_totals: COUNT(*) of all transactions ...
TotalsCountAll(r) ==
  /\ At(r, "totals", "first")
  /\ Computed(r, [Data(rows) EXCEPT !.committed = 0], "second")

\* ... in a later query, of the committed ones ...
TotalsCountCommitted(r) ==
  /\ At(r, "totals", "second")
  /\ Computed(r, [draft[r] EXCEPT !.committed = rows], "third")

\* Mutant: the failure of the call is passed on.
TotalsChainStrict(r) ==
  /\ At(r, "totals", "third")
  /\ Computed(r, IF up THEN draft[r] ELSE Plain("error"), "put")

\* ... then the supply and the treasury's balance, from the chain.
TotalsChain(r) == At(r, "totals", "third") /\ BestEffort(r, "put")

\* One query, which finds rows to count or none.
ComputeOnce(r, k) == At(r, k, "first") /\ Computed(r, Data(rows), "put")

ActiveAddresses(r)  == ComputeOnce(r, "active")

\* active_addresses, when parse_interval fails: 500 at once, before the cache
\* is looked at.
WindowMalformed(r) ==
  /\ stage[r] \in {"idle", "found"}
  /\ key = "badwindow"
  /\ Deliver(r, Plain("error"), FALSE, rows, ~up, FALSE)
  /\ KeepOutside(Plain("error"))
  /\ UNCHANGED <<world, cache>>

\* compute_active_addresses, for a window too long for chrono: 500, without a
\* query.
WindowTooLong(r) ==
  /\ At(r, "longwindow", "first")
  /\ Computed(r, Plain("error"), "put")

\* For one that chrono can hold but not subtract from the time of day, the
\* task panics, and the client gets no answer.
WindowPanics(r) ==
  /\ At(r, "longwindow", "first")
  /\ Deliver(r, NoBody, FALSE, floor[r], r \in dark, FALSE)
  /\ UNCHANGED <<world, cache, edge>>

DailySeries(r)      == ComputeOnce(r, "series")

Leaderboard(r)      == ComputeOnce(r, "leaders")

BountiesMatching(r) == ComputeOnce(r, "matching")

\* compute_drips_daily: the transfers of the faucet's wallet ...
DripsWeb(r) ==
  /\ At(r, "drips", "first")
  /\ Computed(r, [Data(rows) EXCEPT !.committed = 0], "second")

\* ... then the recorded bot drips.
DripsBot(r) ==
  /\ At(r, "drips", "second")
  /\ Computed(r, [draft[r] EXCEPT !.committed = rows], "put")

\* compute_observed_finality: percentiles over the last hour, or the static
\* estimate when that hour has too few samples.
ObservedFinality(r) ==
  /\ At(r, "finality", "first")
  /\ \E b \in {Data(rows), Plain("estimate")} : Computed(r, b, "put")

\* The query of finality fails: the estimate again, and no error.
FinalityEstimate(r) ==
  /\ At(r, "finality", "first")
  /\ QueryFailed(r, Plain("estimate"), "put")

\* Mutant: a fetched head below the indexer's is not caught.
LagWrapped(seen, indexed) == seen - indexed

\* (head - latest).max(0), head.saturating_sub(at).
Lag(seen, indexed) == IF seen > indexed THEN seen - indexed ELSE 0

\* next_block_eta: the head of the chain first (in `committed`) ...
EtaHead(r) ==
  /\ At(r, "eta", "first")
  /\ Computed(r, [Plain("data") EXCEPT !.committed = head, !.gap = ~up],
              "second")

\* ... then the recorded slots: none is an error.  Without the head, or
\* without a mean interval (a single slot, or no slot later than the one
\* before it), no lag is shown.
EtaSlots(r) ==
  /\ At(r, "eta", "second")
  /\ \E mean \in IF rows < 2 THEN {FALSE} ELSE BOOLEAN :
       Computed(r,
         IF rows = 0 THEN Plain("error")
         ELSE [draft[r] EXCEPT !.total = rows,
                 !.lag = IF draft[r].gap \/ ~mean THEN 0
                         ELSE Lag(draft[r].committed, rows)],
         "put")

\* compute_top_holders: the addresses on record ...
HoldersAddresses(r) ==
  /\ At(r, "holders", "first")
  /\ Computed(r, Data(rows), "second")

\* ... and their balances; the ones that cannot be had are skipped.
HoldersBalances(r) == At(r, "holders", "second") /\ BestEffort(r, "put")

\* fetch_and_transform: an unreachable chain is an unknown topology.
FetchAndTransform(r) ==
  /\ At(r, "cluster", "first")
  /\ Computed(r, IF up THEN Data(rows) ELSE Plain("unknown"), "put")

\* info: the indexer's height first, which is left out when the query fails.
InfoHeight(r) ==
  /\ At(r, "info", "first")
  /\ \/ Computed(r, Data(rows), "second")
     \/ QueryFailed(r, [Plain("data") EXCEPT !.gap = TRUE], "second")

\* Then the chain's identity and head, together.  There is a lag when both
\* heights are there; with nothing recorded the indexer has none.
InfoChain(r) ==
  /\ At(r, "info", "second")
  /\ Computed(r,
       IF draft[r].gap \/ ~up THEN [draft[r] EXCEPT !.gap = TRUE]
       ELSE [draft[r] EXCEPT
               !.lag = IF draft[r].total = 0 THEN 0
                       ELSE Lag(head, draft[r].total)],
       "put")

\* address_summary: the counters, zero for an address without a row ...
AddressRow(r) ==
  /\ At(r, "address", "first")
  /\ Computed(r, Data(rows), "second")

\* ... and the balance, left out when the chain does not answer.
AddressBalance(r) == At(r, "address", "second") /\ BestEffort(r, "put")

\* A record by its id: one row, or 404.
RecordOr404(r, k) ==
  /\ At(r, k, "first")
  /\ Computed(r, IF rows = 0 THEN Plain("missing") ELSE Data(rows), "put")

BlockByHeight(r)   == RecordOr404(r, "block")

TxByHash(r)        == RecordOr404(r, "tx")

SchemaById(r)      == RecordOr404(r, "schema")

AttestorSetById(r) == RecordOr404(r, "attestor_set")

AttestationById(r) == RecordOr404(r, "attestation")

BountyDetail(r)    == RecordOr404(r, "bounty")

ContractDetail(r)  == RecordOr404(r, "contract")

\* Any other failed query: 500.
ComputeFails(r) ==
  /\ \/ /\ key \notin {"finality", "eta", "cluster", "info"} \cup BadWindow
        /\ stage[r] = "first"
     \/ key \in {"totals", "drips", "eta"} /\ stage[r] = "second"
  /\ QueryFailed(r, Plain("error"), "put")

-----------------------------------------------------------------------------
\* The lookup of search: one query, by height or by hash, id, address or
\* payload hash.
Exists == rows > 0

\* The client asks search first, by one of the names of the record, and on
\* a hit goes on to the record itself.
SearchHit(r) ==
  /\ stage[r] = "idle"
  /\ key \in SearchKey
  /\ Exists
  /\ stage' = [stage EXCEPT ![r] = "found"]
  /\ found' = found \cup {r}
  /\ Silent
  /\ UNCHANGED <<world, draft, cache, edge, floor, real, dark, failed>>

\* No row: 200 with not_found, and no max-age.
SearchMiss(r) ==
  /\ stage[r] = "idle"
  /\ key \in SearchKey
  /\ ~Exists
  /\ Deliver(r, Plain("nomatch"), FALSE, rows, FALSE, FALSE)
  /\ KeepOutside(Plain("nomatch"))
  /\ UNCHANGED <<world, cache>>

\* Its query fails: 500.
SearchFails(r) ==
  /\ stage[r] = "idle"
  /\ key \in SearchKey
  /\ Deliver(r, Plain("error"), FALSE, rows, FALSE, TRUE)
  /\ KeepOutside(Plain("error"))
  /\ Fault
  /\ UNCHANGED <<key, rows, head, up, cache>>

Step(r) ==
  \/ EdgeHit(r)
  \/ CacheHit(r)
  \/ CacheMiss(r)
  \/ TotalsCountAll(r)
  \/ TotalsCountCommitted(r)
  \/ TotalsChain(r)
  \/ ActiveAddresses(r)
  \/ WindowMalformed(r)
  \/ WindowTooLong(r)
  \/ WindowPanics(r)
  \/ DailySeries(r)
  \/ Leaderboard(r)
  \/ BountiesMatching(r)
  \/ DripsWeb(r)
  \/ DripsBot(r)
  \/ ObservedFinality(r)
  \/ FinalityEstimate(r)
  \/ EtaHead(r)
  \/ EtaSlots(r)
  \/ HoldersAddresses(r)
  \/ HoldersBalances(r)
  \/ FetchAndTransform(r)
  \/ InfoHeight(r)
  \/ InfoChain(r)
  \/ AddressRow(r)
  \/ AddressBalance(r)
  \/ BlockByHeight(r)
  \/ TxByHash(r)
  \/ SchemaById(r)
  \/ AttestorSetById(r)
  \/ AttestationById(r)
  \/ BountyDetail(r)
  \/ ContractDetail(r)
  \/ ComputeFails(r)
  \/ Store(r)
  \/ SearchHit(r)
  \/ SearchMiss(r)
  \/ SearchFails(r)

Next ==
  \/ Tick
  \/ Produce
  \/ Record
  \/ GoDown
  \/ ComeBack
  \/ \E r \in Handler : Step(r)

Spec == Init /\ [][Next]_vars

-----------------------------------------------------------------------------
(***************************************************************************)
(* Properties.                                                             *)
(***************************************************************************)
Told == answer.body.kind

\* The two windows add up: what one cache hands to the other just before it
\* expires is kept for another max-age.
Window(n) == IF n = 0 THEN 0 ELSE n - 1
Slack == IF Told = "unknown" THEN Window(UnknownAge)
         ELSE Window(TTL[key]) + Window(MaxAge[key])

\* However computations of one key overlap and overwrite each other, what a
\* client is told was computed within the two windows before: a slow
\* computation may put back an older state, but each of its reads holds
\* everything recorded before its own start.  For a block this bounds how
\* long it can still be shown as pending, for an address how long it can
\* still be shown as unused, and for an outage of the chain how long its
\* holes can be seen (stats.rs:87-123, cluster.rs:71-130,
\* handlers.rs:42-60).
AnswersRecent ==
  Told \in {"data", "estimate", "unknown"} =>
    /\ answer.body.old <= Slack
    /\ Told = "data" /\ ~answer.body.gap =>
         answer.body.total >= answer.body.since
    /\ Told = "data" /\ key \in {"totals", "drips"} =>
         answer.body.committed >= answer.body.since

\* The process tells a client that the cluster is unknown only when the
\* chain was down while its own request was handled: an outage ends for
\* everyone as soon as the chain is back, but for copies kept outside
\* (cluster.rs:101-124).
OutageNotSticky == Told = "unknown" /\ ~answer.edged => answer.dark

\* A failure is explained by what happened to the very request that is told
\* of it: 500 by one of its queries, by an empty slots table or by its own
\* window, 404 and a search without a match by the absence of the record
\* when it asked.  A bad window is told so every time, never with a count.
\* An outage of the chain fails no request: it leaves a hole, in an answer
\* computed while the chain was down (stats.rs:236-340, 824-828,
\* handlers.rs:352-442, 506-529, 690-758, 1407-1519).
FailuresExplained ==
  /\ Told = "error" => \/ answer.failed
                       \/ key = "eta" /\ answer.floor = 0
                       \/ key \in BadWindow
  /\ key \in BadWindow => Told \in {"none", "error"}
  /\ Told \in {"missing", "nomatch"} => answer.floor = 0
  /\ answer.body.gap => answer.body.hurt

\* A client that follows a hit of search finds the record: rows are never
\* deleted, and no cache keeps an earlier 404 (handlers.rs:1407-1519).
HitResolves == answer.found => Told \in {"data", "error"}

\* next_block_eta reads the head before the slots, so that the lag it shows
\* was really there when it read the slots, and never negative although the
\* indexer may have passed that head; info reads them in the other order, so
\* that it never shows less than the lag there is
\* (stats.rs:776-913, handlers.rs:352-442).
LagSound ==
  \A r \in Handler : stage[r] = "put" /\ draft[r].kind = "data" =>
    /\ key = "eta" => draft[r].lag \in 0..real[r]
    /\ key = "info" /\ ~draft[r].gap /\ draft[r].total > 0 =>
         draft[r].lag >= real[r]
=============================================================================
