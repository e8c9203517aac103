------------------------------- MODULE Faucet -------------------------------
(***************************************************************************)
(* The faucet: POST /v1/drip (handlers.rs), POST /v1/drip-bot              *)
(* (bot_drip.rs), the shared signer (drip/signer.rs) and the in-memory     *)
(* rate limiter (drip/ratelimit.rs).                                       *)
(*                                                                         *)
(* Requests are handled concurrently.  A handler reads the cooldown,       *)
(* reserves a nonce, submits a signed transfer, waits for its inclusion    *)
(* and only then saves the drip: in the DashMap of the web faucet, or in   *)
(* the bot_drips table.  Transfers travel to the chain in any order.  The  *)
(* server drops a handler at an await when its client disconnects, and a   *)
(* restart drops all of them together with the DashMap and the nonce       *)
(* counter; a transfer that has been sent can land all the same.           *)
(***************************************************************************)
EXTENDS Integers, FiniteSets

CONSTANTS
  Web,            \* requests to /v1/drip
  Bot,            \* requests to /v1/drip-bot
  Addr,           \* recipient addresses
  User,           \* Discord users
  Address,        \* the address a request names
  Discord,        \* the Discord user of a bot request
  Malformed,      \* requests whose address does not parse
  Unauthorised,   \* bot requests without the secret (or with none set)
  Mispriced,      \* bot requests whose amount is not their tier's
  WebWindow,      \* DRIP_RATE_LIMIT_SECS
  BotWindow,      \* BOT_DRIP_RATE_LIMIT_SECS
  NonceOverride,  \* DRIP_STARTING_NONCE, or NoOverride
  MaxRequests,    \* bound: how many of the requests arrive
  MaxTime,        \* bound: the clock
  MaxFaults       \* bound: lost answers, failed queries, restarts, ...

Req        == Web \cup Bot
NoOverride == -1
Never      == -1
NoNonce    == -1

ASSUME RequestAssumption ==
  /\ Web \cap Bot = {}
  /\ Address \in [Req -> Addr]
  /\ Discord \in [Bot -> User]
  /\ Malformed \subseteq Req
  /\ Unauthorised \subseteq Bot
  /\ Mispriced \subseteq Bot
ASSUME WindowAssumption ==
  /\ WebWindow \in Nat
  /\ BotWindow \in Nat
  /\ NonceOverride \in Nat \cup {NoOverride}
ASSUME BoundAssumption ==
  MaxRequests \in Nat /\ MaxTime \in Nat /\ MaxFaults \in Nat

VARIABLES
  stage,      \* where the handler of a request is
  answer,     \* what its client was told
  nonceOf,    \* the nonce its transfer was signed with
  nonce,      \* Signer.nonce
  lastDrip,   \* RateLimiter.last_drip
  botDrips,   \* bot_drips: dripped_at of the request's row
  wire,       \* requests whose transfer is on its way to the chain
  verdict,    \* the sequencer's answer to the transfer
  chainNonce, \* the chain: the nonce the faucet account must use next
  paid,       \* the chain: when the request's transfer was accepted
  savedAt,    \* history: when the handler saved the drip
  live,       \* history: requests whose saved drip is still remembered
  before,     \* history: `live` when the request arrived
  now,        \* the clock
  faults      \* faults taken so far

reqVars   == <<stage, answer, nonceOf>>
chainVars == <<wire, verdict, chainNonce, paid>>
saveVars  == <<lastDrip, botDrips, savedAt, live>>
vars == <<stage, answer, nonceOf, nonce, lastDrip, botDrips, wire, verdict,
          chainNonce, paid, savedAt, live, before, now, faults>>

Time    == Nat \cup {Never}
Stages  == {"new", "check", "user", "sign", "await", "save", "done"}
Answers == {"none", "ok", "blocked", "invalid", "error", "gone"}

WindowOf(r) == IF r \in Web THEN WebWindow ELSE BotWindow

TypeOK ==
  /\ stage \in [Req -> Stages]
  /\ answer \in [Req -> Answers]
  /\ nonceOf \in [Req -> Nat \cup {NoNonce}]
  /\ nonce \in Nat
  /\ lastDrip \in [Addr -> Time]
  /\ botDrips \in [Req -> Time]
  /\ wire \subseteq Req
  /\ verdict \in [Req -> {"none", "accepted", "rejected"}]
  /\ chainNonce \in Nat
  /\ paid \in [Req -> Time]
  /\ savedAt \in [Req -> Time]
  /\ live \subseteq Req
  /\ before \in [Req -> SUBSET Req]
  /\ now \in Nat
  /\ faults \in Nat

\* Mutant: the seed is the last nonce used.
SeedNonceLast ==
  IF NonceOverride # NoOverride THEN NonceOverride ELSE chainNonce - 1

\* The nonce new_with_chain_seed starts from.
SeedNonce == IF NonceOverride # NoOverride THEN NonceOverride ELSE chainNonce

Init ==
  /\ stage = [r \in Req |-> "new"]
  /\ answer = [r \in Req |-> "none"]
  /\ nonceOf = [r \in Req |-> NoNonce]
  /\ lastDrip = [a \in Addr |-> Never]
  /\ botDrips = [r \in Req |-> Never]
  /\ wire = {}
  /\ verdict = [r \in Req |-> "none"]
  /\ chainNonce = 0
  /\ nonce = SeedNonce
  /\ paid = [r \in Req |-> Never]
  /\ savedAt = [r \in Req |-> Never]
  /\ live = {}
  /\ before = [r \in Req |-> {}]
  /\ now = 0
  /\ faults = 0

Fault ==
  /\ faults < MaxFaults
  /\ faults' = faults + 1

Goto(r, s) == stage' = [stage EXCEPT ![r] = s]

Respond(r, a) ==
  /\ stage' = [stage EXCEPT ![r] = "done"]
  /\ answer' = [answer EXCEPT ![r] = a]

-----------------------------------------------------------------------------
Tick ==
  /\ now < MaxTime
  /\ now' = now + 1
  /\ UNCHANGED <<reqVars, nonce, chainVars, saveVars, before, faults>>

\* A request reaches its handler.  drip_bot first checks the secret, then
\* the amount; neither reads any state.
Arrive(r) ==
  /\ stage[r] = "new"
  /\ Cardinality({q \in Req : stage[q] # "new"}) < MaxRequests
  /\ IF r \in Unauthorised \cup Mispriced
     THEN Respond(r, "invalid")
     ELSE Goto(r, "check") /\ UNCHANGED answer
  /\ before' = [before EXCEPT ![r] = live]
  /\ UNCHANGED <<nonceOf, nonce, chainVars, saveVars, now, faults>>

\* RateLimiter::check: allowed when no drip is on record or when
\* elapsed >= window.
Check(a) ==
  \/ lastDrip[a] = Never
  \/ now - lastDrip[a] >= WebWindow

\* RateLimiter::peek: what is left of the cooldown; 0 when a drip is allowed.
Peek(a) ==
  IF lastDrip[a] = Never \/ now - lastDrip[a] >= WebWindow THEN 0
  ELSE WebWindow - (now - lastDrip[a])

\* RateLimiter::drip_count.
DripCount == Cardinality({a \in Addr : lastDrip[a] # Never})

\* GET /v1/drip/status, for an address and for the whole faucet.  It only
\* reads, so that it can be asked in every state.
DripStatus(a) ==
  [can_drip |-> Peek(a) = 0, next_drip_at |-> now + Peek(a),
   addresses_dripped |-> DripCount]

\* Mutant: off by one at the end of the window.
RecentDripEarly(q) ==
  /\ botDrips[q] # Never
  /\ botDrips[q] > now - BotWindow + 1

\* last_drip_within_window finds a row: dripped_at > NOW() - window.
RecentDrip(q) ==
  /\ botDrips[q] # Never
  /\ botDrips[q] > now - BotWindow

DripCheck(r) ==
  /\ r \in Web
  /\ stage[r] = "check"
  /\ IF Check(Address[r])
     THEN Goto(r, "sign") /\ UNCHANGED answer
     ELSE Respond(r, "blocked")
  /\ UNCHANGED <<nonceOf, nonce, chainVars, saveVars, before, now, faults>>

\* drip_bot queries the cooldown of the address, then that of the user.
BotCheckAddress(r) ==
  /\ r \in Bot
  /\ stage[r] = "check"
  /\ IF \E q \in Bot : Address[q] = Address[r] /\ RecentDrip(q)
     THEN Respond(r, "blocked")
     ELSE Goto(r, "user") /\ UNCHANGED answer
  /\ UNCHANGED <<nonceOf, nonce, chainVars, saveVars, before, now, faults>>

BotCheckUser(r) ==
  /\ r \in Bot
  /\ stage[r] = "user"
  /\ IF \E q \in Bot : Discord[q] = Discord[r] /\ RecentDrip(q)
     THEN Respond(r, "blocked")
     ELSE Goto(r, "sign") /\ UNCHANGED answer
  /\ UNCHANGED <<nonceOf, nonce, chainVars, saveVars, before, now, faults>>

\* A cooldown query fails: 500, and nothing else happens.
BotCheckFailure(r) ==
  /\ r \in Bot
  /\ stage[r] \in {"check", "user"}
  /\ Respond(r, "error")
  /\ Fault
  /\ UNCHANGED <<nonceOf, nonce, chainVars, saveVars, before, now>>

\* Mutant: the nonce is queried from the chain instead of reserved.
SignFromChain(r) ==
  /\ stage[r] = "sign"
  /\ r \notin Malformed
  /\ nonceOf' = [nonceOf EXCEPT ![r] = chainNonce]
  /\ nonce' = chainNonce + 1
  /\ wire' = wire \cup {r}
  /\ Goto(r, "await")
  /\ UNCHANGED <<answer, verdict, chainNonce, paid, saveVars, before, now,
                 faults>>

\* Signer::drip up to its first await: parse the address, reserve a nonce
\* with fetch_add, sign, and hand the transfer to submit_raw_tx.
Sign(r) ==
  /\ stage[r] = "sign"
  /\ r \notin Malformed
  /\ nonceOf' = [nonceOf EXCEPT ![r] = nonce]
  /\ nonce' = nonce + 1
  /\ wire' = wire \cup {r}
  /\ Goto(r, "await")
  /\ UNCHANGED <<answer, verdict, chainNonce, paid, saveVars, before, now,
                 faults>>

\* The address does not parse: no nonce is reserved.
SignInvalid(r) ==
  /\ stage[r] = "sign"
  /\ r \in Malformed
  /\ Respond(r, "invalid")
  /\ UNCHANGED <<nonceOf, nonce, chainVars, saveVars, before, now, faults>>

\* Mutant: a rejection is taken for a hash.
SubmitReturnsBlind(r) ==
  /\ stage[r] = "await"
  /\ verdict[r] # "none"
  /\ Goto(r, "save")
  /\ UNCHANGED <<answer, nonceOf, nonce, chainVars, saveVars, before, now,
                 faults>>

\* Mutant: a rejected transfer is waited for.
SubmitReturnsPatient(r) ==
  /\ stage[r] = "await"
  /\ verdict[r] = "accepted"
  /\ Goto(r, "save")
  /\ UNCHANGED <<answer, nonceOf, nonce, chainVars, saveVars, before, now,
                 faults>>

\* submit_raw_tx returns: a hash, or an error that becomes 502.  The
\* nonce is not given back.  The wait for inclusion is not observable.
SubmitReturns(r) ==
  /\ stage[r] = "await"
  /\ \/ verdict[r] = "accepted" /\ Goto(r, "save") /\ UNCHANGED answer
     \/ verdict[r] = "rejected" /\ Respond(r, "error")
  /\ UNCHANGED <<nonceOf, nonce, chainVars, saveVars, before, now, faults>>

\* The submission times out or its answer is lost: 502 as well, whatever
\* becomes of the transfer.
SubmitLost(r) ==
  /\ stage[r] = "await"
  /\ Respond(r, "error")
  /\ Fault
  /\ UNCHANGED <<nonceOf, nonce, chainVars, saveVars, before, now>>

Saved(r) ==
  /\ savedAt' = [savedAt EXCEPT ![r] = now]
  /\ live' = live \cup {r}

\* Mutant: an address that is on record keeps its first time.
RecordFirst(r) ==
  /\ r \in Web
  /\ stage[r] = "save"
  /\ lastDrip' = [lastDrip EXCEPT ![Address[r]] = IF @ = Never THEN now ELSE @]
  /\ Saved(r)
  /\ Respond(r, "ok")
  /\ UNCHANGED <<nonceOf, nonce, botDrips, chainVars, before, now, faults>>

\* RateLimiter::record, after the chain accepted.
Record(r) ==
  /\ r \in Web
  /\ stage[r] = "save"
  /\ lastDrip' = [lastDrip EXCEPT ![Address[r]] = now]
  /\ Saved(r)
  /\ Respond(r, "ok")
  /\ UNCHANGED <<nonceOf, nonce, botDrips, chainVars, before, now, faults>>

\* INSERT INTO bot_drips, after the chain accepted.
BotInsert(r) ==
  /\ r \in Bot
  /\ stage[r] = "save"
  /\ botDrips' = [botDrips EXCEPT ![r] = now]
  /\ Saved(r)
  /\ Respond(r, "ok")
  /\ UNCHANGED <<nonceOf, nonce, lastDrip, chainVars, before, now, faults>>

\* The INSERT fails: logged, and the client is told ok.
BotInsertFailure(r) ==
  /\ r \in Bot
  /\ stage[r] = "save"
  /\ Respond(r, "ok")
  /\ Fault
  /\ UNCHANGED <<nonceOf, nonce, chainVars, saveVars, before, now>>

-----------------------------------------------------------------------------
\* The sequencer (external) accepts a transfer that carries the account's
\* next nonce and rejects any other ("Tx bad nonce").
ChainTakes(r) ==
  /\ r \in wire
  /\ wire' = wire \ {r}
  /\ IF nonceOf[r] = chainNonce
     THEN /\ verdict' = [verdict EXCEPT ![r] = "accepted"]
          /\ chainNonce' = chainNonce + 1
          /\ paid' = [paid EXCEPT ![r] = now]
     ELSE /\ verdict' = [verdict EXCEPT ![r] = "rejected"]
          /\ UNCHANGED <<chainNonce, paid>>
  /\ UNCHANGED <<reqVars, nonce, saveVars, before, now, faults>>

\* The transfer never arrives, or is rejected for another reason.
ChainRefuses(r) ==
  /\ r \in wire
  /\ wire' = wire \ {r}
  /\ verdict' = [verdict EXCEPT ![r] = "rejected"]
  /\ Fault
  /\ UNCHANGED <<reqVars, nonce, chainNonce, paid, saveVars, before, now>>

\* The client disconnects while its handler awaits: the server drops the
\* handler there (external).
Disconnect(r) ==
  /\ stage[r] \in {"user", "await", "save"}
  /\ Respond(r, "gone")
  /\ Fault
  /\ UNCHANGED <<nonceOf, nonce, chainVars, saveVars, before, now>>

\* The process restarts: handlers and DashMap are gone, the nonce counter
\* is seeded again, bot_drips and the transfers under way remain.
Restart ==
  /\ stage' = [r \in Req |-> IF stage[r] = "new" THEN "new" ELSE "done"]
  /\ answer' = [r \in Req |-> IF stage[r] \in {"new", "done"} THEN answer[r]
                              ELSE "gone"]
  /\ lastDrip' = [a \in Addr |-> Never]
  /\ live' = live \ Web
  /\ nonce' = SeedNonce
  /\ Fault
  /\ UNCHANGED <<nonceOf, botDrips, chainVars, savedAt, before, now>>

Handler(r) ==
  \/ DripCheck(r)
  \/ BotCheckAddress(r)
  \/ BotCheckUser(r)
  \/ Sign(r)
  \/ SignInvalid(r)
  \/ SubmitReturns(r)
  \/ Record(r)
  \/ BotInsert(r)

FaultStep(r) ==
  \/ BotCheckFailure(r)
  \/ SubmitLost(r)
  \/ BotInsertFailure(r)
  \/ ChainRefuses(r)
  \/ Disconnect(r)

Next ==
  \/ Tick
  \/ \E r \in Req : Arrive(r) \/ Handler(r) \/ ChainTakes(r) \/ FaultStep(r)
  \/ Restart

Spec == Init /\ [][Next]_vars

\* While there are handlers that can run, one of them is run, and while there
\* are transfers to take, the sequencer takes one.  No handler has priority
\* over another: none runs for ever, so each comes to its turn.
FairSpec ==
  /\ Spec
  /\ WF_vars(\E r \in Req : Handler(r))
  /\ WF_vars(\E r \in Req : ChainTakes(r))

-----------------------------------------------------------------------------
(***************************************************************************)
(* Properties.                                                             *)
(***************************************************************************)

\* Two requests share a cooldown: the same address on the same faucet, or
\* the same Discord user.
SameCooldown(q, r) ==
  \/ q \in Web /\ r \in Web /\ Address[q] = Address[r]
  \/ q \in Bot /\ r \in Bot /\ (Address[q] = Address[r]
                                \/ Discord[q] = Discord[r])

\* A request that arrives once a drip of the same cooldown is on record is
\* not paid before the window has passed, however its steps interleave with
\* other requests that overwrite the record; a bot drip counts across
\* restarts (handlers.rs:234-294, bot_drip.rs:179-371).
DripsSpaced ==
  \A r \in Req : \A q \in before[r] :
    SameCooldown(q, r) /\ paid[r] # Never
      => paid[r] - savedAt[q] >= WindowOf(r)

\* GET /v1/drip/status is right about every web drip this process remembers,
\* in whatever order concurrent drips of an address are recorded: can_drip
\* means that the window of each of them has passed, next_drip_at is where
\* the last one ends, and each address counts once (handlers.rs:190-232,
\* ratelimit.rs:85-132).
StatusTruthful ==
  \A a \in Addr :
    LET drips == {q \in live \cap Web : Address[q] = a}
        status == DripStatus(a)
    IN /\ status.can_drip <=> \A q \in drips : now - savedAt[q] >= WebWindow
       /\ ~status.can_drip =>
            /\ \A q \in drips : savedAt[q] + WebWindow <= status.next_drip_at
            /\ \E q \in drips : savedAt[q] + WebWindow = status.next_drip_at
       /\ status.addresses_dripped
            = Cardinality({Address[q] : q \in live \cap Web})

\* What a client is told is true: ok means its transfer was accepted, and
\* a refusal before the signer (429, 400, 401) means no money ever moves.
\* Nothing is saved for a request whose transfer was not accepted.
AnswersTruthful ==
  \A r \in Req :
    /\ answer[r] = "ok" => paid[r] # Never
    /\ answer[r] \in {"blocked", "invalid"} => paid[r] = Never /\ r \notin wire
    /\ savedAt[r] # Never => paid[r] # Never /\ paid[r] <= savedAt[r]

\* Concurrent requests get distinct nonces: no two transfers that one process
\* waits for are signed with the same nonce, and the counter is past all of
\* them (signer.rs:311-316).
NoncesDistinct ==
  \A q, r \in Req :
    stage[q] = "await" /\ stage[r] = "await"
      => /\ nonceOf[q] < nonce
         /\ q # r => nonceOf[q] # nonceOf[r]

\* Every request that reaches its handler is answered: in the end there is
\* none without an answer, although transfers overtake each other, are refused
\* or lost, and a nonce may never become the next (signer.rs:316-415).
Answered == <>[](\A r \in Req : stage[r] = "new" \/ answer[r] # "none")

-----------------------------------------------------------------------------
(***************************************************************************)
(* Claims of the repository that the code does not keep.                   *)
(***************************************************************************)

\* ratelimit.rs:11: each address only gets one drip per window, independent
\* of how many requests came.
OneDripPerWindow ==
  \A q, r \in Web :
    ( /\ q # r
      /\ Address[q] = Address[r]
      /\ paid[q] # Never
      /\ paid[r] >= paid[q] )
    => paid[r] - paid[q] >= WebWindow

\* signer.rs:311-315: the nonce of a rejected transfer stays burned only
\* until a later transfer uses it.  So the nonce that the chain expects must
\* be one the faucet has under way or will still hand out.
ExpectedNonceComes ==
  \/ nonce <= chainNonce
  \/ \E r \in wire : nonceOf[r] = chainNonce
=============================================================================
