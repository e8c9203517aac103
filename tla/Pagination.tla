----------------------------- MODULE Pagination -----------------------------
(***************************************************************************)
(* The list endpoints (handlers.rs, queries.rs, cursor.rs): a client walks *)
(* a list page by page, following the `next` cursor, while the indexer     *)
(* writes to the table.                                                    *)
(*                                                                         *)
(* Every list is sorted by a compound key, descending: the slot and a tie  *)
(* breaker (position, id, or schema id with payload hash; none for         *)
(* blocks).  A page is one SELECT of limit + 1 rows below the decoded      *)
(* cursor; the extra row only tells whether there is a next page.  A       *)
(* request that fails (500) is repeated with the same cursor: a stutter.   *)
(*                                                                         *)
(* A cursor is the JSON of the key of the last row.  Decoding it needs the *)
(* fields of the endpoint's own cursor shape and ignores any others;       *)
(* anything that does not decode starts at the head of the list.           *)
(***************************************************************************)
EXTENDS Integers, FiniteSets

CONSTANTS
  Row,           \* the rows that may come to be listed
  MaxSlot,       \* bound: the highest slot
  MaxTie,        \* bound: the highest tie breaker
  Endpoints,     \* the endpoints under study
  Requested,     \* values of ?limit= that clients send
  DefaultLimit,  \* DEFAULT_LIMIT
  MaxLimit       \* MAX_LIMIT

Endpoint == {"blocks", "txs", "address_txs", "schemas", "attestations",
             "attestations_by_schema", "attestations_by_attestor_set",
             "attestor_sets", "attestor_sets_by_member", "bounties",
             "contracts"}
NoLimit  == -1

ASSUME PaginationAssumption ==
  /\ MaxSlot \in Nat \ {0}
  /\ MaxTie \in Nat
  /\ Endpoints \subseteq Endpoint
  /\ Requested \subseteq Nat \cup {NoLimit}
  /\ DefaultLimit \in Nat \ {0}
  /\ MaxLimit \in Nat \ {0}

\* A table holds finitely many rows.
ASSUME RowAssumption == IsFiniteSet(Row)

VARIABLES
  endpoint,   \* the list the client walks
  key,        \* the row's sort key, or NoKey while it is not in the table
  matching,   \* rows that satisfy the WHERE clause's filters
  token,      \* the cursor the client sends next, or NoToken
  phase,      \* the client's walk: "idle", "paging" or "done"
  start,      \* history: rows the list held when page one was served
  seen,       \* history: rows served so far
  repeated,   \* history: rows served more than once
  disturbed,  \* history: rows whose key or filter status changed
  misused,    \* history: a cursor of another endpoint was sent
  odd         \* history: parity of the requests made, so that a page that
              \* changes nothing else is still a step

rowVars    == <<key, matching, disturbed>>
clientVars == <<token, phase, start, seen, repeated, misused, odd>>
vars == <<endpoint, key, matching, token, phase, start, seen, repeated,
          disturbed, misused, odd>>

\* The endpoints whose filter columns the indexer updates: a status, or the
\* kind, details and sender of a transaction.
Refilterable == {"txs", "address_txs", "bounties", "contracts"}

\* The fields of the endpoint's cursor struct.
CursorFields(e) ==
  CASE e = "blocks" -> {"slot"}
    [] e \in {"txs", "address_txs"} -> {"slot", "idx"}
    [] e \in {"attestations", "attestations_by_schema",
              "attestations_by_attestor_set"} ->
         {"slot", "schema_id", "payload_hash"}
    [] OTHER -> {"slot", "id"}

Key     == [slot : 1..MaxSlot, tie : 0..MaxTie]
NoKey   == [slot |-> 0, tie |-> 0]
Token   == [fields : {CursorFields(e) : e \in Endpoint}, at : Key]
NoToken == [fields |-> {}, at |-> NoKey]
AtHead  == NoKey

TypeOK ==
  /\ endpoint \in Endpoints
  /\ key \in [Row -> Key \cup {NoKey}]
  /\ matching \subseteq Row
  /\ token \in Token \cup {NoToken}
  /\ phase \in {"idle", "paging", "done"}
  /\ start \subseteq Row
  /\ seen \subseteq Row
  /\ repeated \subseteq Row
  /\ disturbed \subseteq Row
  /\ misused \in BOOLEAN
  /\ odd \in BOOLEAN

\* The keys of an endpoint: blocks are told apart by their height alone.
KeysOf(e) == IF e = "blocks" THEN {k \in Key : k.tie = 0} ELSE Key

Free(k) == \A r \in Row : key[r] # k

Init ==
  /\ endpoint \in Endpoints
  /\ key = [r \in Row |-> NoKey]
  /\ matching = {}
  /\ token = NoToken
  /\ phase = "idle"
  /\ start = {}
  /\ seen = {}
  /\ repeated = {}
  /\ disturbed = {}
  /\ misused = FALSE
  /\ odd = FALSE

-----------------------------------------------------------------------------
(***************************************************************************)
(* The indexer's writes, as the list sees them.                            *)
(***************************************************************************)

\* A row appears, anywhere: a slot that is walked again may fill a gap.  A
\* row that does not satisfy the filters, and never will, is left out.
Ingest(r) ==
  /\ key[r] = NoKey
  /\ \E k \in KeysOf(endpoint) : Free(k) /\ key' = [key EXCEPT ![r] = k]
  /\ \/ matching' = matching \cup {r}
     \/ endpoint \in Refilterable /\ UNCHANGED matching
  /\ UNCHANGED <<endpoint, disturbed, clientVars>>

\* Re-ingest replaces a transaction's position (module TxIngest).
Reposition(r) ==
  /\ endpoint \in {"txs", "address_txs"}
  /\ key[r] # NoKey
  /\ \E k \in Key : /\ k.slot = key[r].slot
                    /\ Free(k)
                    /\ key' = [key EXCEPT ![r] = k]
  /\ disturbed' = disturbed \cup {r}
  /\ UNCHANGED <<endpoint, matching, clientVars>>

\* A bounty's or contract's status, or what a transaction is filtered by, is
\* replaced.
Refilter(r) ==
  /\ endpoint \in Refilterable
  /\ key[r] # NoKey
  /\ matching' = IF r \in matching THEN matching \ {r} ELSE matching \cup {r}
  /\ disturbed' = disturbed \cup {r}
  /\ UNCHANGED <<endpoint, key, clientVars>>

-----------------------------------------------------------------------------
(***************************************************************************)
(* Serving a page.                                                         *)
(***************************************************************************)

ResolveLimit(n) ==
  IF n \in {NoLimit, 0} THEN DefaultLimit
  ELSE IF n > MaxLimit THEN MaxLimit ELSE n

\* Mutant: the cursor points one slot above the last row.
EncodeAbove(e, k) ==
  [fields |-> CursorFields(e), at |-> [k EXCEPT !.slot = @ + 1]]

Encode(e, k) == [fields |-> CursorFields(e), at |-> k]

Decode(e, t) ==
  IF t # NoToken /\ CursorFields(e) \subseteq t.fields
  THEN IF e = "blocks" THEN [t.at EXCEPT !.tie = 0] ELSE t.at
  ELSE AtHead

\* The SQL row comparison (slot, tie) < (slot, tie).
Below(j, k) == j.slot < k.slot \/ (j.slot = k.slot /\ j.tie < k.tie)

\* Mutant: the comparison includes the cursor's own row.
SelectedFrom(before) ==
  {r \in matching :
     key[r] # NoKey /\ (before = AtHead \/ ~Below(before, key[r]))}

\* Mutant: only the slots are compared.
SelectedBySlot(before) ==
  {r \in matching :
     key[r] # NoKey /\ (before = AtHead \/ key[r].slot < before.slot)}

\* The WHERE clause of the list queries.
Selected(before) ==
  {r \in matching :
     key[r] # NoKey /\ (before = AtHead \/ Below(key[r], before))}

\* ORDER BY ... DESC LIMIT n.
Top(S, n) ==
  {r \in S : Cardinality({q \in S : Below(key[r], key[q])}) < n}

\* What a list handler does with its query parameters.
ServePage(e, n) ==
  LET limit   == ResolveLimit(n)
      rows    == Top(Selected(Decode(e, token)), limit + 1)
      hasMore == Cardinality(rows) > limit
      page    == IF hasMore THEN Top(rows, limit) ELSE rows
      more    == hasMore /\ page # {}
      last    == CHOOSE r \in page :
                   \A q \in page \ {r} : Below(key[r], key[q])
  IN /\ seen' = seen \cup page
     /\ repeated' = repeated \cup (seen \cap page)
     /\ token' = IF more THEN Encode(e, key[last]) ELSE NoToken
     /\ phase' = IF more THEN "paging" ELSE "done"
     /\ start' = IF phase = "idle" THEN Selected(AtHead) ELSE start

\* The client asks for the first page or follows the cursor to the next one.
Request(e) ==
  /\ endpoint = e
  /\ phase # "done"
  /\ \E n \in Requested : ServePage(e, n)
  /\ odd' = ~odd
  /\ UNCHANGED <<endpoint, rowVars, misused>>

BlocksList                == Request("blocks")
TxsList                   == Request("txs")
AddressTxs                == Request("address_txs")
SchemasList               == Request("schemas")
AttestationsList          == Request("attestations")
AttestationsBySchema      == Request("attestations_by_schema")
AttestationsByAttestorSet == Request("attestations_by_attestor_set")
AttestorSetsList          == Request("attestor_sets")
AttestorSetsByMember      == Request("attestor_sets_by_member")
BountiesList              == Request("bounties")
ContractsList             == Request("contracts")

\* Once, the client sends a cursor it was given by another endpoint.
MisuseCursor ==
  /\ ~misused
  /\ phase = "paging"
  /\ \E e \in Endpoint : /\ CursorFields(e) # CursorFields(endpoint)
                         /\ token' = Encode(e, token.at)
  /\ misused' = TRUE
  /\ UNCHANGED <<endpoint, rowVars, phase, start, seen, repeated, odd>>

Serve ==
  \/ BlocksList
  \/ TxsList
  \/ AddressTxs
  \/ SchemasList
  \/ AttestationsList
  \/ AttestationsBySchema
  \/ AttestationsByAttestorSet
  \/ AttestorSetsList
  \/ AttestorSetsByMember
  \/ BountiesList
  \/ ContractsList

\* Bound: the table is not followed beyond the end of the client's walk.
Write ==
  /\ phase # "done"
  /\ \E r \in Row : Ingest(r) \/ Reposition(r) \/ Refilter(r)

Next == Serve \/ Write \/ MisuseCursor

Spec == Init /\ [][Next]_vars

\* The client keeps asking and the server keeps answering.
FairSpec == Spec /\ WF_vars(Serve)

-----------------------------------------------------------------------------
(***************************************************************************)
(* Properties.                                                             *)
(***************************************************************************)

\* A walk serves no row twice, whatever the indexer inserts between two
\* pages and whatever limit each request asks for.  Only a row whose key or
\* filter status is rewritten meanwhile may come back (queries.rs:137-424).
NoRepeats == ~misused => repeated \subseteq disturbed

\* A walk that reaches the end has served every row that was in the list
\* when it began, except rows that were rewritten meanwhile.
NothingMissed ==
  phase = "done" /\ ~misused => start \ disturbed \subseteq seen

\* A walk always ends, under constant writes and also after a cursor of
\* another endpoint was sent: the cursor only ever goes down.
WalkEnds == phase = "paging" ~> phase = "done"
=============================================================================
