----------------------------- MODULE Classifier -----------------------------
(***************************************************************************)
(* What the indexer makes of a transaction: its classification by its      *)
(* events (parser.rs: classify_tx, classify_events and the two scans it    *)
(* calls), and its signer and nonce by its body (module BodyDecode).  The  *)
(* events of a transaction are a sequence; each one has a key, decodes     *)
(* into the key's payload or does not (`ok`), and names the item it is     *)
(* about.                                                                  *)
(*                                                                         *)
(* The state machine only signs a transaction, or grows it event by event, *)
(* so that TLC evaluates the operators on every body, and on every         *)
(* sequence of events up to a length.                                      *)
(***************************************************************************)
EXTENDS BodyDecode, SequencesExt

CONSTANTS
  Signed,     \* signed transactions, as the chain encodes them
  Events,     \* the events a transaction may emit
  Ids,        \* ids of bounties and contracts
  MaxEvents,  \* bound: events of one transaction
  U128Max     \* bound: the largest amount (u128::MAX)

Unparsable == -1

AttestationKeys == {"AttestorSetRegistered", "SchemaRegistered",
                    "AttestationSubmitted"}
BountyKeys      == {"BountyPosted", "BountyClaimed", "BountyDisputed",
                    "BountyDisputeResolved", "BountyExpired",
                    "BountyFinalised"}
ContractKeys    == {"ContractPosted", "WorkerCommitted", "ContractDelivered",
                    "DeliveryAccepted", "DeliveryRejected",
                    "ContractDisputeResolved", "ContractCancelled",
                    "ContractExpired"}
BankKeys        == {"TokenTransferred"}
OtherKeys       == {"Other"}
Keys == AttestationKeys \cup BountyKeys \cup ContractKeys \cup BankKeys
          \cup OtherKeys

Results == {"successful", "reverted", "skipped"}

\* A signed transaction is shorter than the wrapper's length can say (borsh).
ASSUME ClassifierAssumption ==
  /\ U128Max \in Nat
  /\ MaxEvents \in Nat
  /\ Events \subseteq [key : Keys, ok : BOOLEAN, id : Ids,
                       payout : 0..U128Max \cup {Unparsable}]
  /\ Signed \subseteq SignedTx
  /\ \A t \in Signed : Len(Inner(t)) < Weight[PrefixLen]

VARIABLES
  body,    \* the signed transaction, or none when the chain elided it
  result,  \* the result in its receipt
  events   \* the events it emitted

vars == <<body, result, events>>

Elided == <<>>

-----------------------------------------------------------------------------

\* Mutant: decodable or not.
HitsOfKey(evs, K) == {i \in DOMAIN evs : evs[i].key \in K}

\* The events of `evs` with a key in K that decode.
Hits(evs, K) == {i \in DOMAIN evs : evs[i].key \in K /\ evs[i].ok}

\* The first of them, as a sequence of length one, or the empty sequence.
FirstOf(evs, K) ==
  LET hits == Hits(evs, K) IN IF hits = {} THEN <<>> ELSE << evs[Min(hits)] >>

\* Mutant: the sum is not saturated.
PlainAdd(x, y) == x + y

SaturatingAdd(x, y) == IF x + y > U128Max THEN U128Max ELSE x + y

\* One round of the loop of classify_bounty_events: `first` is set once, every
\* claim that decodes is counted, and its payout is added when it parses.
ScanBounty(acc, e) ==
  IF e.key \notin BountyKeys \/ ~e.ok THEN acc
  ELSE [first |-> IF acc.first = <<>> THEN <<e>> ELSE acc.first,
        count |-> IF e.key = "BountyClaimed" THEN acc.count + 1 ELSE acc.count,
        total |-> IF e.key = "BountyClaimed" /\ e.payout # Unparsable
                  THEN SaturatingAdd(acc.total, e.payout)
                  ELSE acc.total]

NothingScanned == [first |-> <<>>, count |-> 0, total |-> 0]

\* The whole loop.
ScanBountyEvents(evs) ==
  LET scan[n \in 0..Len(evs)] ==
        IF n = 0 THEN NothingScanned ELSE ScanBounty(scan[n - 1], evs[n])
  IN scan[Len(evs)]

ClassifyBountyEvents(evs) ==
  LET acc == ScanBountyEvents(evs)
  IN IF acc.first = <<>> THEN <<>>
     ELSE << [module |-> "bounty",
              key    |-> IF acc.count > 0 THEN "BountyClaimed"
                         ELSE Head(acc.first).key,
              id     |-> Head(acc.first).id,
              count  |-> acc.count,
              total  |-> acc.total] >>

\* What a module without claims makes of an event.
Plain(module, e) ==
  [module |-> module, key |-> e.key, id |-> e.id, count |-> 0, total |-> 0]

ClassifyContractEvents(evs) ==
  LET first == FirstOf(evs, ContractKeys)
  IN IF first = <<>> THEN <<>> ELSE << Plain("contract", Head(first)) >>

\* Mutant: the bank pass comes before the contract pass.
PassesBankEarly(evs) ==
  LET attestation == FirstOf(evs, AttestationKeys)
      bank        == FirstOf(evs, BankKeys)
      AsPlain(m, first) == IF first = <<>> THEN <<>>
                           ELSE << Plain(m, Head(first)) >>
  IN AsPlain("attestation", attestation) \o ClassifyBountyEvents(evs)
       \o AsPlain("bank", bank) \o ClassifyContractEvents(evs)

\* The passes, in order; each one yields at most one classification.
Passes(evs) ==
  LET attestation == FirstOf(evs, AttestationKeys)
      bank        == FirstOf(evs, BankKeys)
      AsPlain(m, first) == IF first = <<>> THEN <<>>
                           ELSE << Plain(m, Head(first)) >>
  IN AsPlain("attestation", attestation) \o ClassifyBountyEvents(evs)
       \o ClassifyContractEvents(evs) \o AsPlain("bank", bank)

\* The keys that are kept for forensic lookups are left out.
Unknown == [module |-> "unknown"]

ClassifyEvents(evs) ==
  LET found == Passes(evs) IN IF found = <<>> THEN Unknown ELSE Head(found)

\* outcome_of: any other result is a skipped transaction.
OutcomeOf(r) ==
  IF r = "successful" THEN "committed"
  ELSE IF r = "reverted" THEN "reverted" ELSE "skipped"

\* A skipped transaction is not persisted.
ClassifyTx(r, evs) ==
  IF OutcomeOf(r) = "skipped" THEN <<>> ELSE << ClassifyEvents(evs) >>

-----------------------------------------------------------------------------
Init == body = Elided /\ result \in Results /\ events = <<>>

\* Bound: bodies are looked at without events, events without a body.
Persist ==
  /\ body = Elided
  /\ events = <<>>
  /\ \E t \in Signed : body' = <<t>>
  /\ UNCHANGED <<result, events>>

Emit(e) ==
  /\ body = Elided
  /\ Len(events) < MaxEvents
  /\ events' = Append(events, e)
  /\ UNCHANGED <<body, result>>

Next ==
  \/ Persist
  \/ \E e \in Events : Emit(e)

Spec == Init /\ [][Next]_vars

-----------------------------------------------------------------------------
(***************************************************************************)
(* Properties.                                                             *)
(***************************************************************************)
Decoded(K) == {i \in DOMAIN events : events[i].key \in K /\ events[i].ok}

\* What the claims that decode pay out, without a limit.
Owed(evs) ==
  LET owed[n \in 0..Len(evs)] ==
        IF n = 0 THEN 0
        ELSE IF /\ evs[n].key = "BountyClaimed" /\ evs[n].ok
                /\ evs[n].payout # Unparsable
             THEN owed[n - 1] + evs[n].payout ELSE owed[n - 1]
  IN owed[Len(evs)]

\* Semantic events win over bank events and the modules are preferred in a
\* fixed order, wherever their events stand among the others: a fee or an
\* escrow transfer never hides the call it belongs to.  Only a skipped
\* transaction is left unclassified, whatever it emitted (parser.rs:328-518).
SemanticWins ==
  LET row == ClassifyTx(result, events)
      Is(m) == row # <<>> /\ Head(row).module = m
  IN IF result = "skipped" THEN row = <<>>
     ELSE /\ Is("attestation") <=> Decoded(AttestationKeys) # {}
          /\ Is("bounty") <=> /\ Decoded(AttestationKeys) = {}
                              /\ Decoded(BountyKeys) # {}
          /\ Is("contract") <=>
               /\ Decoded(AttestationKeys \cup BountyKeys) = {}
               /\ Decoded(ContractKeys) # {}
          /\ Is("unknown") <=> Decoded(Keys \ OtherKeys) = {}

\* An event that does not decode, or that no module knows, changes nothing in
\* the kind, the item and the amounts that are stored: the transaction is
\* classified as if it had not been emitted (parser.rs:387-702).
NoiseIgnored ==
  \A i \in DOMAIN events : ~events[i].ok \/ events[i].key \in OtherKeys =>
    ClassifyTx(result, RemoveAt(events, i)) = ClassifyTx(result, events)

\* The batch of a claim is accounted in full, whatever bounty event comes
\* first: as many claims as decode, and the saturated sum of their payouts.
\* When all of them are for one bounty, that bounty is the one charged
\* (parser.rs:538-611).
ClaimTally ==
  LET c      == ClassifyEvents(events)
      claims == Decoded({"BountyClaimed"})
  IN c.module = "bounty" =>
       /\ c.count = Cardinality(claims)
       /\ c.total = Min({Owed(events), U128Max})
       /\ claims # {} => c.key = "BountyClaimed"
       /\ \A id \in Ids :
            (\A i \in Decoded(BountyKeys) : events[i].id = id) => c.id = id

\* A bare transaction whose signature begins with its own length.
LooksWrapped(t) ==
  /\ ~t.wrapped
  /\ FromLe(SubSeq(t.sig, 1, PrefixLen)) = Len(Inner(t)) - WrapperLen
  /\ t.sig[PrefixLen + 1] = V0Tag

\* The signer is exact, in the wrapper or not, whatever the chain id, the
\* call and the tail are; the one exception is a bare transaction whose
\* signature spells the length of the rest (decode.rs:110-162).  A body that
\* was elided gives nothing.
SignerExact ==
  /\ DecodeTxBody(<<>>) = <<>>
  /\ \A t \in Range(body) : ~LooksWrapped(t) =>
       LET got == DecodeTxBody(Body(t))
       IN /\ got # <<>>
          /\ Head(got).sender_pubkey = t.pubkey
          /\ Head(got).sender = SubSeq(t.pubkey, 1, AddrLen)

\* The gas limit of t and its priority fee end in zero bytes, and the shape
\* without a gas limit fits: its tags are read from these bytes.
Shadowed(t) ==
  /\ t.gas # <<>>
  /\ t.gas[GasLen] = GasNoneTag
  /\ t.prio[PrioLen] = NonceTag

\* What decode_tx_body gives as the nonce of t.
NonceRead(t) == Head(DecodeTxBody(Body(t))).nonce

\* The nonce of a transaction that is unique by its nonce is exact, and left
\* out for another chain's: with a gas limit or without one, wrapped or bare,
\* whatever the bytes of the call and of the fee look like, as long as the
\* gas limit does not pass for none (decode.rs:164-219).
NonceExact ==
  \A t \in Range(body) :
    ~LooksWrapped(t) /\ t.uniq = NonceTag /\ ~Shadowed(t) =>
      NonceRead(t) = IF t.chain = ChainId THEN << t.nonce >> ELSE <<>>

-----------------------------------------------------------------------------
(***************************************************************************)
(* A claim of the repository that the code does not keep.                  *)
(***************************************************************************)

\* decode.rs:53-54, 104 and 167-169: the nonce that is stored is the
\* transaction's or none at all, never a guessed or a bogus one.
NonceNeverGuessed ==
  \A t \in Range(body) : ~LooksWrapped(t) /\ t.uniq = NonceTag =>
    NonceRead(t) \in {<<>>, << t.nonce >>}
=============================================================================
