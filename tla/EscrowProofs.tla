---------------------------- MODULE EscrowProofs ----------------------------
(***************************************************************************)
(* Proofs about Escrow, for any bounties and contracts, any pool and       *)
(* payout, and any number of transactions, faults and claims in a batch.   *)
(*                                                                         *)
(* The argument: the log is an account of the chain.  A closed item has no *)
(* later entry, and the totals of its claims add up to what the chain has  *)
(* paid.  The walk goes over that account in order; what it still has to   *)
(* do (Todo) is what separates the row from the chain.                     *)
(***************************************************************************)
EXTENDS Escrow, TLAPS

BountyStatus   == {"None", "Open", "Exhausted", "Frozen", "Expired",
                   "Cancelled", "Finalised"}
ContractStatus == {"None", "Open", "Committed", "Delivered", "Disputed",
                   "Accepted", "Rejected", "Cancelled", "Expired"}

-----------------------------------------------------------------------------
(***************************************************************************)
(* The chain and its log.                                                  *)
(***************************************************************************)

\* What the module holds is what its claims have left over, until it closes.
HoldInv ==
  \A i \in Item :
    /\ i \in Bounty => chainStatus[i] \in BountyStatus
    /\ i \in Contract => chainStatus[i] \in ContractStatus
                         /\ chainClaims[i] = 0
    /\ chainStatus[i] = "None" => chainClaims[i] = 0
    /\ chainStatus[i] \in Closed => chainEscrow[i] = 0
    /\ chainStatus[i] \notin Closed \cup {"None"} =>
         chainEscrow[i] = Pool - chainClaims[i] * Payout
    /\ chainClaims[i] * Payout <= Pool

Claim(n, i) == log[n].item = i /\ log[n].kind = "Claimed"
Final(n, i) == log[n].item = i /\ log[n].kind \in Terminal(i)

\* A posted item has the entry of its posting.
PostedInv ==
  \A i \in Item : chainStatus[i] # "None" =>
    \E m \in 1..Len(log) : log[m].item = i /\ log[m].kind = "Posted"

\* An entry speaks of a posted item, a terminal one is the item's last, and
\* the item's first is its posting.
LogInv ==
  \A n \in 1..Len(log) :
    LET i == log[n].item
    IN /\ chainStatus[i] # "None"
       /\ log[n].kind = "Claimed" => i \in Bounty
       /\ log[n].kind \in Terminal(i) =>
            /\ chainStatus[i] \in Closed
            /\ \A m \in 1..Len(log) : m > n => log[m].item # i
       /\ \E m \in 1..n : log[m].item = i /\ log[m].kind = "Posted"

\* The totals of an item's claims add up, one claim after the other.
ClaimsInv ==
  \A i \in Item : \A n \in 1..Len(log) : Claim(n, i) =>
    /\ log[n].total <= chainClaims[i]
    /\ \/ log[n].total = chainClaims[i]
       \/ \E m \in 1..Len(log) : m > n /\ Claim(m, i)
    /\ \A m \in 1..Len(log) : m > n /\ Claim(m, i) =>
         /\ log[n].total + log[m].count <= log[m].total
         /\ \/ log[n].total + log[m].count = log[m].total
            \/ \E l \in 1..Len(log) : n < l /\ l < m /\ Claim(l, i)

-----------------------------------------------------------------------------
(***************************************************************************)
(* The walk and the rows.                                                  *)
(***************************************************************************)

\* The entries the walk has not read, has not upserted, has not finished.
Unread(n) == n > at \/ (n = at /\ step = "hydrate")
Unmet(n)  == n > at \/ (n = at /\ step \in {"hydrate", "upsert"})
Todo(n)   == n > at \/ (n = at /\ step # "cursor")

\* A row is of a posted item; a closed status is the chain's, in the row and
\* in the record in hand.
WalkInv ==
  /\ step # "hydrate" => at <= Len(log)
  /\ step = "delta" => HasDelta(Tx) /\ Tx.item \in rows \ Boardless
  /\ \A i \in rows : chainStatus[i] # "None"
  /\ \A i \in Item : status[i] \in Closed => status[i] = chainStatus[i]
  /\ step = "upsert" =>
       /\ rec \in Closed => rec = chainStatus[Tx.item]
       /\ status[Tx.item] \in Closed => rec = status[Tx.item]

\* A row shows the pool less the claims applied to it, or was zeroed after
\* the item had closed: walked once, none of its entries is left then.
RowInv ==
  /\ \A i \in Item \ rows : claims[i] = 0
  /\ \A i \in Contract : claims[i] = 0
  /\ \A i \in rows : i \in Contract \/ ~replayed =>
       \/ escrow[i] = Pool - claims[i] * Payout
       \/ /\ escrow[i] = 0
          /\ chainStatus[i] \in Closed
          /\ ~replayed => \A n \in 1..Len(log) : log[n].item = i => ~Todo(n)

\* Walked once, no claim is applied twice.
OnceInv ==
  ~replayed => \A i \in Item :
    /\ claims[i] <= chainClaims[i]
    /\ \A n \in 1..Len(log) : Todo(n) /\ Claim(n, i) =>
         claims[i] + log[n].count <= log[n].total

\* Without a fault every entry leaves its mark, in order: the status ...
StatusKept(i) ==
  /\ chainStatus[i] # "None"
  /\ \A n \in 1..Len(log) : log[n].item = i => ~Unread(n)
  => IF step = "upsert" /\ Tx.item = i THEN rec = chainStatus[i]
     ELSE status[i] = MapStatus(i, chainStatus[i])

\* ... the row and the slot it was posted at ...
RowKept(i) ==
  /\ i \notin rows => \A n \in 1..Len(log) : log[n].item = i => Unmet(n)
  /\ i \in rows => /\ postedAt[i] \in 1..Len(log)
                   /\ log[postedAt[i]].item = i
                   /\ log[postedAt[i]].kind = "Posted"

\* ... the claims, up to the first that is still to be applied ...
ClaimsKept(i) ==
  /\ \/ claims[i] = chainClaims[i]
     \/ \E n \in 1..Len(log) : Todo(n) /\ Claim(n, i)
  /\ \A n \in 1..Len(log) : Todo(n) /\ Claim(n, i) =>
       \/ claims[i] + log[n].count = log[n].total
       \/ \E m \in 1..Len(log) : m < n /\ Todo(m) /\ Claim(m, i)

\* ... and the escrow, until a terminal entry zeroes it.
EscrowKept(i) ==
  /\ i \in rows =>
       \/ escrow[i] = Pool - claims[i] * Payout
       \/ \E n \in 1..Len(log) : Final(n, i) /\ ~Todo(n)
  /\ \A n \in 1..Len(log) : Final(n, i) /\ ~Todo(n) => escrow[i] = 0

FaultFree(i) ==
  StatusKept(i) /\ RowKept(i) /\ ClaimsKept(i) /\ EscrowKept(i)

MirrorInv ==
  faults = 0 => ~replayed /\ \A i \in Item \ Boardless : FaultFree(i)

Inv == /\ TypeOK
       /\ HoldInv
       /\ PostedInv
       /\ LogInv
       /\ ClaimsInv
       /\ WalkInv
       /\ RowInv
       /\ OnceInv
       /\ MirrorInv

-----------------------------------------------------------------------------
\* Initially nothing is on the chain and nothing is written.
LEMMA InitInv == Init => Inv
<1> SUFFICES ASSUME Init PROVE Inv
  OBVIOUS
<1> USE EscrowAssumption DEF Init
<1>1. TypeOK
  <2>1. log \in Seq(LogEntry) /\ Len(log) = 0
    OBVIOUS
  <2>2. /\ cursor \in 0..Len(log)
        /\ at \in 1..(Len(log) + 1)
        /\ escrow \in [Item -> Int] /\ claims \in [Item -> Nat]
        /\ postedAt \in [Item -> Nat] /\ chainClaims \in [Item -> Nat]
        /\ chainEscrow \in [Item -> 0..Pool]
    BY <2>1
  <2>3. /\ chainStatus \in [Item -> Statuses]
        /\ status \in [Item -> Statuses \ {"Frozen"}]
        /\ rec \in Statuses
    BY DEF Statuses, Closed
  <2> QED
    BY <2>1, <2>2, <2>3 DEF TypeOK
<1>2. HoldInv
  BY DEF HoldInv, BountyStatus, ContractStatus, Closed
<1>3. PostedInv /\ LogInv /\ ClaimsInv
  BY DEF PostedInv, LogInv, ClaimsInv
<1>4. WalkInv
  BY DEF WalkInv, Closed
<1>5. RowInv
  BY DEF RowInv, Item
<1>6. OnceInv
  BY DEF OnceInv
<1>7. MirrorInv
  BY DEF MirrorInv, FaultFree, StatusKept, RowKept, ClaimsKept, EscrowKept
<1> QED
  BY <1>1, <1>2, <1>3, <1>4, <1>5, <1>6, <1>7 DEF Inv

-----------------------------------------------------------------------------
(***************************************************************************)
(* A transaction of the chain.                                             *)
(***************************************************************************)

\* What a move of the lifecycles does to its item, and to the log.
LEMMA MoveFacts ==
  ASSUME TypeOK, HoldInv, NEW i \in Item, NEW m \in Moves(i),
         NEW n \in 0..MaxBatch, Move(i, m, n)
  PROVE  /\ chainStatus[i] \notin Closed
         /\ chainStatus' \in [Item -> Statuses]
         /\ chainEscrow' \in [Item -> 0..Pool]
         /\ chainClaims' \in [Item -> Nat]
         /\ i \in Bounty => chainStatus'[i] \in BountyStatus \ {"None"}
         /\ i \in Contract => chainStatus'[i] \in ContractStatus \ {"None"}
         /\ m[2] = "Posted" <=> chainStatus[i] = "None"
         /\ m[2] \in Terminal(i) => chainStatus'[i] \in Closed
         /\ m[2] = "Claimed" => i \in Bounty
         /\ m[2] = "Claimed" <=> n > 0
         /\ m[2] \in Kinds
         /\ chainStatus'[i] \in Closed => chainEscrow'[i] = 0
         /\ chainStatus'[i] \notin Closed =>
              chainEscrow'[i] = IF m[2] = "Posted" THEN Pool
                                ELSE chainEscrow[i] - n * Payout
         /\ n * Payout <= chainEscrow[i]
         /\ chainClaims'[i] = chainClaims[i] + n
         /\ \A j \in Item \ {i} : /\ chainStatus'[j] = chainStatus[j]
                                   /\ chainEscrow'[j] = chainEscrow[j]
                                   /\ chainClaims'[j] = chainClaims[j]
         /\ log' \in Seq(LogEntry)
         /\ Len(log') = Len(log) + 1
         /\ \A k \in 1..Len(log) : log'[k] = log[k]
         /\ log'[Len(log) + 1] = [item |-> i, kind |-> m[2], count |-> n,
                                  total |-> chainClaims[i] + n]
         /\ UNCHANGED <<cursor, at, step, rec, rows, status, escrow, claims,
                         postedAt, replayed, faults>>
<1> USE EscrowAssumption
<1> DEFINE left == chainEscrow[i] - n * Payout
           e == [item |-> i, kind |-> m[2], count |-> n,
                 total |-> chainClaims[i] + n]
<1>1. i \in Bounty => /\ m[1] \in {"Open", "None", "Frozen", "Exhausted"}
                      /\ m[3] \in BountyStatus \ {"None", "Exhausted"}
                      /\ m[2] = "Posted" <=> m[1] = "None"
                      /\ m[2] \in {"Expired", "Finalised"} => m[3] \in Closed
                      /\ m[2] \in Kinds
  BY DEF Moves, BountyMoves, BountyStatus, Closed, Kinds
<1>2. i \in Contract => /\ m[1] \in {"Open", "None", "Committed", "Delivered",
                                      "Disputed"}
                        /\ m[3] \in ContractStatus \ {"None", "Exhausted"}
                        /\ m[2] = "Posted" <=> m[1] = "None"
                        /\ m[2] \in {"Accepted", "DisputeResolved",
                                     "Cancelled", "Expired"} => m[3] \in Closed
                        /\ m[2] \in Kinds \ {"Claimed"}
  BY DEF Moves, ContractMoves, ContractStatus, Closed, Kinds
<1>3. /\ n * Payout \in Nat /\ n * Payout <= chainEscrow[i]
      /\ n = 0 => n * Payout = 0
      /\ chainEscrow[i] \in 0..Pool /\ chainStatus[i] = m[1]
      /\ m[2] = "Claimed" <=> n > 0
      /\ chainEscrow' = [chainEscrow EXCEPT ![i] =
             IF m[2] = "Posted" THEN Pool
             ELSE IF m[3] \in Closed THEN 0 ELSE left]
      /\ chainStatus' = [chainStatus EXCEPT ![i] =
             IF m[2] = "Claimed" /\ m[3] = "Open" /\ left < Payout
             THEN "Exhausted" ELSE m[3]]
      /\ chainClaims' = [chainClaims EXCEPT ![i] = @ + n]
      /\ log' = Append(log, e)
  BY DEF Move, TypeOK
<1>4. /\ m[2] = "Posted" => m[3] \notin Closed
      /\ i \in Item => i \in Bounty \/ i \in Contract
  BY DEF Moves, BountyMoves, ContractMoves, Closed, Item
<1>5. left \in 0..Pool
  <2>1. ASSUME NEW paid \in Nat, NEW held \in 0..Pool, paid <= held
        PROVE  held - paid \in 0..Pool
    BY <2>1
  <2> QED
    BY <1>3, <2>1
<1>6. e \in LogEntry
  <2>1. m[2] \in Kinds
    BY <1>1, <1>2, <1>4
  <2>2. PICK c \in Nat : c = chainClaims[i]
    BY DEF TypeOK
  <2>3. n \in Nat /\ c + n \in Nat
    OBVIOUS
  <2>4. \A k \in Kinds, a, t \in Nat :
          [item |-> i, kind |-> k, count |-> a, total |-> t] \in LogEntry
    BY DEF LogEntry
  <2> QED
    BY <2>1, <2>2, <2>3, <2>4
<1>7. /\ log' \in Seq(LogEntry)
      /\ Len(log') = Len(log) + 1
      /\ \A k \in 1..Len(log) : log'[k] = log[k]
      /\ log'[Len(log) + 1] = e
  <2> HIDE DEF e
  <2> QED
    BY <1>3, <1>6 DEF TypeOK
<1>8. UNCHANGED <<cursor, at, step, rec, rows, status, escrow, claims,
                  postedAt, replayed, faults>>
  BY DEF Move, rowVars
<1> HIDE DEF left, e
<1>9. /\ chainStatus' \in [Item -> Statuses]
      /\ chainEscrow' \in [Item -> 0..Pool]
      /\ chainClaims' \in [Item -> Nat]
  <2>1. chainStatus' \in [Item -> Statuses]
    <3>1. m[3] \in Statuses /\ "Exhausted" \in Statuses
      BY <1>1, <1>2, <1>4
         DEF Statuses, BountyStatus, ContractStatus, Closed
    <3>2. chainStatus \in [Item -> Statuses]
      BY DEF TypeOK
    <3>3. \A z \in Statuses :
            [chainStatus EXCEPT ![i] = z] \in [Item -> Statuses]
      BY ONLY <3>2
    <3> QED
      BY <3>1, <3>3, <1>3
  <2>2. chainEscrow' \in [Item -> 0..Pool]
    <3>1. Pool \in 0..Pool /\ 0 \in 0..Pool
      OBVIOUS
    <3>2. chainEscrow \in [Item -> 0..Pool]
      BY DEF TypeOK
    <3>3. \A z \in 0..Pool :
            [chainEscrow EXCEPT ![i] = z] \in [Item -> 0..Pool]
      BY ONLY <3>2
    <3> QED
      BY <3>1, <3>3, <1>3, <1>5
  <2>3. chainClaims' \in [Item -> Nat]
    <3>1. chainClaims \in [Item -> Nat]
      BY DEF TypeOK
    <3> QED
      BY <3>1, <1>3
  <2> QED
    BY <2>1, <2>2, <2>3
<1>10. /\ chainStatus'[i] = IF m[2] = "Claimed" /\ m[3] = "Open"
                              /\ left < Payout
                           THEN "Exhausted" ELSE m[3]
       /\ chainEscrow'[i] = IF m[2] = "Posted" THEN Pool
                            ELSE IF m[3] \in Closed THEN 0 ELSE left
       /\ chainClaims'[i] = chainClaims[i] + n
       /\ \A j \in Item \ {i} : /\ chainStatus'[j] = chainStatus[j]
                                 /\ chainEscrow'[j] = chainEscrow[j]
                                 /\ chainClaims'[j] = chainClaims[j]
  BY <1>3 DEF TypeOK
<1>11. /\ i \in Bounty => chainStatus'[i] \in BountyStatus \ {"None"}
       /\ i \in Contract => chainStatus'[i] \in ContractStatus \ {"None"}
  BY <1>1, <1>2, <1>10, EscrowAssumption DEF BountyStatus
<1>12. /\ m[2] \in Terminal(i) => chainStatus'[i] \in Closed
       /\ chainStatus[i] \notin Closed
  BY <1>1, <1>2, <1>3, <1>4, <1>10 DEF Terminal, Closed
<1>13. /\ chainStatus'[i] \in Closed => chainEscrow'[i] = 0
       /\ chainStatus'[i] \notin Closed =>
            chainEscrow'[i] = IF m[2] = "Posted" THEN Pool ELSE left
  BY <1>3, <1>4, <1>10 DEF Closed
<1> QED
  BY <1>1, <1>2, <1>3, <1>4, <1>7, <1>8, <1>9, <1>10, <1>11, <1>12, <1>13
     DEF left, e

\* A transaction adds to the account, and to what the walk has to do.
LEMMA MoveStep ==
  ASSUME Inv, NEW i \in Item, NEW m \in Moves(i), NEW n \in 0..MaxBatch,
         Move(i, m, n)
  PROVE  Inv'
<1> USE DEF Inv
<1>0. PICK new \in Nat : new = Len(log) + 1
  BY DEF TypeOK
<1>1. /\ chainStatus[i] \notin Closed
      /\ chainStatus' \in [Item -> Statuses]
      /\ chainEscrow' \in [Item -> 0..Pool]
      /\ chainClaims' \in [Item -> Nat]
      /\ i \in Bounty => chainStatus'[i] \in BountyStatus
      /\ i \in Contract => chainStatus'[i] \in ContractStatus
      /\ chainStatus'[i] # "None"
      /\ m[2] = "Posted" <=> chainStatus[i] = "None"
      /\ m[2] \in Terminal(i) => chainStatus'[i] \in Closed
      /\ m[2] = "Claimed" => i \in Bounty
      /\ m[2] = "Claimed" <=> n > 0
      /\ chainClaims'[i] = chainClaims[i] + n
      /\ \A j \in Item \ {i} : /\ chainStatus'[j] = chainStatus[j]
                                /\ chainEscrow'[j] = chainEscrow[j]
                                /\ chainClaims'[j] = chainClaims[j]
  <2>1. /\ i \in Bounty => chainStatus'[i] \in BountyStatus \ {"None"}
        /\ i \in Contract => chainStatus'[i] \in ContractStatus \ {"None"}
    BY MoveFacts
  <2>2. i \in Bounty \/ i \in Contract
    BY DEF Item
  <2>3. /\ i \in Bounty => chainStatus'[i] \in BountyStatus
        /\ i \in Contract => chainStatus'[i] \in ContractStatus
        /\ chainStatus'[i] # "None"
    BY ONLY <2>1, <2>2
  <2>4. /\ chainStatus[i] \notin Closed
        /\ chainStatus' \in [Item -> Statuses]
        /\ chainEscrow' \in [Item -> 0..Pool]
        /\ chainClaims' \in [Item -> Nat]
    BY MoveFacts
  <2>5. /\ m[2] = "Posted" <=> chainStatus[i] = "None"
        /\ m[2] \in Terminal(i) => chainStatus'[i] \in Closed
        /\ m[2] = "Claimed" => i \in Bounty
        /\ m[2] = "Claimed" <=> n > 0
    BY MoveFacts
  <2>6. chainClaims'[i] = chainClaims[i] + n
    BY DEF Move, TypeOK
  <2>7. ASSUME NEW j \in Item \ {i}
        PROVE  /\ chainStatus'[j] = chainStatus[j]
               /\ chainEscrow'[j] = chainEscrow[j]
               /\ chainClaims'[j] = chainClaims[j]
    BY DEF Move, TypeOK
  <2> QED
    BY ONLY <2>3, <2>4, <2>5, <2>6, <2>7
<1>2. /\ chainStatus'[i] \in Closed => chainEscrow'[i] = 0
      /\ chainStatus'[i] \notin Closed =>
           chainEscrow'[i] = IF m[2] = "Posted" THEN Pool
                             ELSE chainEscrow[i] - n * Payout
      /\ n * Payout <= chainEscrow[i]
  BY MoveFacts
<1>3. /\ log' \in Seq(LogEntry)
      /\ Len(log') = Len(log) + 1
      /\ \A k \in 1..Len(log) : log'[k] = log[k]
      /\ log'[new].item = i
      /\ log'[new].kind = m[2]
      /\ log'[new].count = n
      /\ log'[new].total = chainClaims[i] + n
  <2>1. /\ log' \in Seq(LogEntry)
        /\ Len(log') = Len(log) + 1
        /\ \A k \in 1..Len(log) : log'[k] = log[k]
    BY MoveFacts
  <2>2. log'[new] = [item |-> i, kind |-> m[2], count |-> n,
                     total |-> chainClaims[i] + n]
    BY <1>0, MoveFacts
  <2> QED
    BY <2>1, <2>2
<1>4. UNCHANGED <<cursor, at, step, rec, rows, status, escrow, claims,
                  postedAt, replayed, faults>>
  BY MoveFacts
<1>5. /\ Len(log) \in Nat /\ new \in Nat /\ new > Len(log)
      /\ at \in Nat /\ at <= new
      /\ at = new => step = "hydrate"
      /\ step # "hydrate" => at \in 1..Len(log) /\ Tx' = Tx
      /\ \A k \in 1..Len(log) :
           /\ k \in 1..Len(log') /\ k \in Nat
           /\ log[k].item \in Item
           /\ log[k].count \in Nat /\ log[k].total \in Nat
      /\ \A k \in 1..Len(log') : k \in 1..Len(log) \/ k = new
  <2>1. /\ Len(log) \in Nat /\ at \in 1..(Len(log) + 1)
        /\ step # "hydrate" => at <= Len(log)
    BY DEF TypeOK, WalkInv
  <2>2. \A k \in 1..Len(log) : log[k] \in LogEntry
    BY DEF TypeOK
  <2>3. step # "hydrate" => at \in 1..Len(log) /\ Tx' = Tx
    BY <2>1, <1>3, <1>4 DEF Tx
  <2>4. \A k \in 1..Len(log) :
          log[k].item \in Item /\ log[k].count \in Nat /\ log[k].total \in Nat
    BY <2>2 DEF LogEntry
  <2>5. /\ new > Len(log) /\ at \in Nat /\ at <= new
        /\ at = new => step = "hydrate"
    BY <2>1, <1>0
  <2>6. /\ \A k \in 1..Len(log) : k \in 1..Len(log') /\ k \in Nat
        /\ \A k \in 1..Len(log') : k \in 1..Len(log) \/ k = new
    BY <2>1, <1>0, <1>3
  <2> QED
    BY <2>1, <2>3, <2>4, <2>5, <2>6
<1>6. TypeOK'
  <2>1. /\ Len(log) \in Nat /\ cursor \in 0..Len(log)
        /\ at \in 1..(Len(log) + 1)
    BY DEF TypeOK
  <2>2. cursor' \in 0..Len(log') /\ at' \in 1..(Len(log') + 1)
    BY <2>1, <1>3, <1>4
  <2> QED
    BY <2>2, <1>1, <1>3, <1>4 DEF TypeOK
<1>7. HoldInv'
  <2>1. \A c, d \in Nat : (c + d) * Payout = c * Payout + d * Payout
    BY EscrowAssumption
  <2>2. chainClaims[i] \in Nat /\ n \in Nat /\ chainEscrow[i] \in Nat
    BY EscrowAssumption DEF TypeOK
  <2>3. chainClaims'[i] * Payout = chainClaims[i] * Payout + n * Payout
    <3>1. (chainClaims[i] + n) * Payout
            = chainClaims[i] * Payout + n * Payout
      BY ONLY <2>1, <2>2
    <3> QED
      BY ONLY <3>1, <1>1
  <2>4. CASE chainStatus[i] = "None"
    <3>1. n = 0 /\ chainClaims[i] = 0 /\ chainClaims'[i] = 0
      BY <2>2, <2>4, <1>1 DEF HoldInv
    <3>2. chainClaims'[i] * Payout = 0
      BY <3>1, EscrowAssumption
    <3> QED
      BY <2>4, <3>1, <3>2, <1>1, <1>2, EscrowAssumption DEF HoldInv
  <2>5. CASE chainStatus[i] # "None"
    <3>1. chainEscrow[i] = Pool - chainClaims[i] * Payout
      BY <2>5, <1>1 DEF HoldInv
    <3>2. chainClaims[i] * Payout \in Nat /\ n * Payout \in Nat
      BY <2>2, EscrowAssumption
    <3>3. /\ chainClaims'[i] * Payout <= Pool
          /\ chainEscrow[i] - n * Payout = Pool - chainClaims'[i] * Payout
      BY <3>1, <3>2, <2>3, <1>2, EscrowAssumption
    <3>4. i \in Contract => chainClaims'[i] = 0
      BY <1>1, EscrowAssumption, <2>2 DEF HoldInv
    <3> QED
      BY <2>5, <3>3, <3>4, <1>1, <1>2 DEF HoldInv
  <2> QED
    BY <2>4, <2>5
<1>8. PostedInv'
  <2> SUFFICES ASSUME NEW j \in Item, chainStatus'[j] # "None"
               PROVE  \E k \in 1..Len(log') :
                        log'[k].item = j /\ log'[k].kind = "Posted"
    BY DEF PostedInv
  <2>1. CASE chainStatus[j] = "None"
    <3>1. j = i /\ m[2] = "Posted"
      BY <2>1, <1>1
    <3>2. new \in 1..Len(log')
      BY <1>0, <1>3, <1>5
    <3> QED
      BY <3>1, <3>2, <1>3
  <2>2. CASE chainStatus[j] # "None"
    BY <2>2, <1>3, <1>5 DEF PostedInv
  <2> QED
    BY <2>1, <2>2
<1>9. LogInv'
  <2> SUFFICES ASSUME NEW k \in 1..Len(log')
               PROVE  LET j == log'[k].item
                      IN /\ chainStatus'[j] # "None"
                         /\ log'[k].kind = "Claimed" => j \in Bounty
                         /\ log'[k].kind \in Terminal(j) =>
                              /\ chainStatus'[j] \in Closed
                              /\ \A l \in 1..Len(log') :
                                   l > k => log'[l].item # j
                         /\ \E l \in 1..k : /\ log'[l].item = j
                                            /\ log'[l].kind = "Posted"
    BY DEF LogInv, Terminal
  <2>1. CASE k \in 1..Len(log)
    <3> DEFINE j == log[k].item
    <3>1. log'[k] = log[k] /\ j \in Item
      BY <2>1, <1>3, <1>5
    <3>2. /\ chainStatus[j] # "None"
          /\ log[k].kind = "Claimed" => j \in Bounty
          /\ log[k].kind \in Terminal(j) =>
               /\ chainStatus[j] \in Closed
               /\ \A l \in 1..Len(log) : l > k => log[l].item # j
          /\ \E l \in 1..k : log[l].item = j /\ log[l].kind = "Posted"
      BY <2>1 DEF LogInv
    <3>3. chainStatus'[j] # "None"
      BY <3>1, <3>2, <1>1
    <3>4. ASSUME log[k].kind \in Terminal(j)
          PROVE  /\ chainStatus'[j] \in Closed
                 /\ \A l \in 1..Len(log') : l > k => log'[l].item # j
      BY <3>1, <3>2, <3>4, <1>1, <1>3, <1>5
    <3>5. \E l \in 1..k : log'[l].item = j /\ log'[l].kind = "Posted"
      <4>1. PICK l \in 1..k : log[l].item = j /\ log[l].kind = "Posted"
        BY <3>2
      <4>2. l \in 1..Len(log)
        BY <2>1, <4>1, <1>5
      <4> QED
        BY <4>1, <4>2, <1>3
    <3> QED
      BY <3>1, <3>2, <3>3, <3>4, <3>5
  <2>2. CASE k = new
    <3>1. \E l \in 1..new : log'[l].item = i /\ log'[l].kind = "Posted"
      <4>1. CASE m[2] = "Posted"
        <5>1. new \in 1..new
          BY <1>0, <1>5
        <5> QED
          BY <4>1, <5>1, <1>3
      <4>2. CASE m[2] # "Posted"
        <5>1. PICK l \in 1..Len(log) : /\ log[l].item = i
                                        /\ log[l].kind = "Posted"
          BY <4>2, <1>1 DEF PostedInv
        <5>2. l \in 1..new
          BY <5>1, <1>5
        <5> QED
          BY <5>1, <5>2, <1>3
      <4> QED
        BY <4>1, <4>2
    <3>2. \A l \in 1..Len(log') : ~(l > new)
      BY <1>5
    <3> QED
      BY <2>2, <3>1, <3>2, <1>1, <1>3
  <2> QED
    BY <2>1, <2>2, <1>5
<1>10. ClaimsInv'
  <2> SUFFICES ASSUME NEW j \in Item, NEW k \in 1..Len(log'), Claim(k, j)'
               PROVE  /\ log'[k].total <= chainClaims'[j]
                      /\ \/ log'[k].total = chainClaims'[j]
                         \/ \E l \in 1..Len(log') : l > k /\ Claim(l, j)'
                      /\ \A l \in 1..Len(log') : l > k /\ Claim(l, j)' =>
                           /\ log'[k].total + log'[l].count <= log'[l].total
                           /\ \/ log'[k].total + log'[l].count = log'[l].total
                              \/ \E h \in 1..Len(log') :
                                   k < h /\ h < l /\ Claim(h, j)'
    BY DEF ClaimsInv
  <2>1. \A l \in 1..Len(log) : Claim(l, j)' <=> Claim(l, j)
    BY <1>3 DEF Claim
  <2>2. chainClaims[j] \in Nat /\ n \in Nat
    BY EscrowAssumption DEF TypeOK
  <2>3. new \in 1..Len(log')
    BY <1>3, <1>5
  <2>4. CASE ~Claim(new, j)'
    <3>1. chainClaims'[j] = chainClaims[j]
      BY <2>2, <2>4, <1>1, <1>3 DEF Claim
    <3>2. k \in 1..Len(log)
      BY <2>4, <1>5
    <3>3. /\ log[k].total <= chainClaims[j]
          /\ \/ log[k].total = chainClaims[j]
             \/ \E l \in 1..Len(log) : l > k /\ Claim(l, j)
          /\ \A l \in 1..Len(log) : l > k /\ Claim(l, j) =>
               /\ log[k].total + log[l].count <= log[l].total
               /\ \/ log[k].total + log[l].count = log[l].total
                  \/ \E h \in 1..Len(log) : k < h /\ h < l /\ Claim(h, j)
      BY <2>1, <3>2 DEF ClaimsInv
    <3>4. /\ log'[k].total <= chainClaims'[j]
          /\ \/ log'[k].total = chainClaims'[j]
             \/ \E l \in 1..Len(log') : l > k /\ Claim(l, j)'
      BY <2>1, <3>1, <3>2, <3>3, <1>3, <1>5
    <3>5. ASSUME NEW l \in 1..Len(log'), l > k, Claim(l, j)'
          PROVE  /\ log'[k].total + log'[l].count <= log'[l].total
                 /\ \/ log'[k].total + log'[l].count = log'[l].total
                    \/ \E h \in 1..Len(log') :
                         k < h /\ h < l /\ Claim(h, j)'
      <4>1. l \in 1..Len(log) /\ Claim(l, j)
        BY <2>1, <2>4, <3>5, <1>5
      <4> QED
        BY <2>1, <3>2, <3>3, <3>5, <4>1, <1>3, <1>5
    <3> QED
      BY ONLY <3>4, <3>5
  <2>5. CASE Claim(new, j)'
    <3>1. j = i
      BY <2>5, <1>3 DEF Claim
    <3>2. CASE k = new
      BY <3>1, <3>2, <2>2, <1>1, <1>3, <1>5
    <3>3. CASE k \in 1..Len(log)
      <4>1. /\ Claim(k, j)
            /\ log[k].total <= chainClaims[j]
            /\ \/ log[k].total = chainClaims[j]
               \/ \E l \in 1..Len(log) : l > k /\ Claim(l, j)
            /\ \A l \in 1..Len(log) : l > k /\ Claim(l, j) =>
                 /\ log[k].total + log[l].count <= log[l].total
                 /\ \/ log[k].total + log[l].count = log[l].total
                    \/ \E h \in 1..Len(log) : k < h /\ h < l /\ Claim(h, j)
        BY <2>1, <3>3 DEF ClaimsInv
      <4>2. \A l \in 1..Len(log) : k < l /\ Claim(l, j) =>
              l < new /\ l \in 1..Len(log') /\ Claim(l, j)'
        BY <2>1, <1>5
      <4>3. log'[k].total + log'[new].count <= log'[new].total
        BY <4>1, <3>1, <3>3, <2>2, <1>3, <1>5
      <4>4. \/ log'[k].total + log'[new].count = log'[new].total
            \/ \E h \in 1..Len(log') : k < h /\ h < new /\ Claim(h, j)'
        BY <4>1, <4>2, <3>1, <3>3, <1>3, <1>5
      <4>5. new > k
        BY <3>3, <1>5
      <4>6. log'[k].total <= chainClaims'[j]
        <5>1. log'[k].total = log[k].total /\ log[k].total \in Nat
          BY <3>3, <1>3, <1>5
        <5>2. chainClaims'[j] = chainClaims[j] + n
          BY <3>1, <1>1
        <5> QED
          BY ONLY <5>1, <5>2, <4>1, <2>2
      <4> QED
        BY <4>1, <4>2, <4>3, <4>4, <4>5, <4>6, <2>1, <2>3, <2>5, <3>3, <1>3,
           <1>5
    <3> QED
      BY <3>2, <3>3, <1>5
  <2> QED
    BY <2>4, <2>5
<1>11. WalkInv'
  <2>1. \A j \in Item : chainStatus[j] # "None" => chainStatus'[j] # "None"
    BY <1>1
  <2>2. \A j \in Item : chainStatus[j] \in Closed =>
          chainStatus'[j] = chainStatus[j]
    BY <1>1
  <2>3. step # "hydrate" => at <= Len(log')
    BY <1>3, <1>5
  <2>4. step = "delta" => HasDelta(Tx)' /\ Tx'.item \in rows \ Boardless
    BY <1>5 DEF WalkInv, HasDelta, Terminal
  <2>5. \A j \in rows : chainStatus'[j] # "None"
    BY <2>1 DEF WalkInv, TypeOK
  <2>6. \A j \in Item : status[j] \in Closed => status[j] = chainStatus'[j]
    BY <2>2 DEF WalkInv
  <2>7. step = "upsert" =>
          /\ rec \in Closed => rec = chainStatus'[Tx'.item]
          /\ status[Tx'.item] \in Closed => rec = status[Tx'.item]
    BY <2>2, <1>5 DEF WalkInv, Tx
  <2> QED
    BY <2>3, <2>4, <2>5, <2>6, <2>7, <1>4 DEF WalkInv
<1>12. RowInv'
  <2>1. ASSUME NEW j \in rows, chainStatus[j] \in Closed, ~replayed,
               \A k \in 1..Len(log) : log[k].item = j => ~Todo(k)
        PROVE  \A k \in 1..Len(log') : log'[k].item = j => ~Todo(k)'
    BY <2>1, <1>1, <1>3, <1>4, <1>5 DEF Todo
  <2>2. \A j \in rows : chainStatus[j] \in Closed => chainStatus'[j] \in Closed
    BY <1>1 DEF TypeOK
  <2> QED
    BY <2>1, <2>2, <1>4 DEF RowInv
<1>13. OnceInv'
  <2> SUFFICES ASSUME ~replayed, NEW j \in Item
               PROVE  /\ claims[j] <= chainClaims'[j]
                      /\ \A k \in 1..Len(log') : Todo(k)' /\ Claim(k, j)' =>
                           claims[j] + log'[k].count <= log'[k].total
    BY <1>4 DEF OnceInv
  <2>1. claims[j] \in Nat /\ chainClaims[j] \in Nat /\ n \in Nat
    BY EscrowAssumption DEF TypeOK
  <2>2. claims[j] <= chainClaims[j] /\ claims[j] <= chainClaims'[j]
    <3>1. claims[j] <= chainClaims[j]
      BY DEF OnceInv
    <3>2. \/ chainClaims'[j] = chainClaims[j]
          \/ chainClaims'[j] = chainClaims[j] + n
      BY <1>1
    <3> QED
      BY <2>1, <3>1, <3>2
  <2>3. ASSUME NEW k \in 1..Len(log), Todo(k)', Claim(k, j)'
        PROVE  claims[j] + log'[k].count <= log'[k].total
    BY <2>3, <1>3, <1>4 DEF OnceInv, Todo, Claim
  <2>4. Claim(new, j)' => claims[j] + log'[new].count <= log'[new].total
    BY <2>1, <2>2, <1>3 DEF Claim
  <2> QED
    BY <2>2, <2>3, <2>4, <1>5
<1>14. MirrorInv'
  <2> SUFFICES ASSUME faults = 0, NEW j \in Item \ Boardless
               PROVE  ~replayed /\ FaultFree(j)'
    BY <1>4 DEF MirrorInv
  <2>1. ~replayed /\ FaultFree(j)
    BY DEF MirrorInv
  <2>2. \A k \in 1..Len(log) : /\ Unread(k)' <=> Unread(k)
                               /\ Unmet(k)' <=> Unmet(k)
                               /\ Todo(k)' <=> Todo(k)
                               /\ Claim(k, j)' <=> Claim(k, j)
                               /\ Final(k, j)' <=> Final(k, j)
    BY <1>3, <1>4 DEF Unread, Unmet, Todo, Claim, Final
  <2>3. Unread(new)' /\ Unmet(new)' /\ Todo(new)' /\ new \in 1..Len(log')
    BY <1>3, <1>4, <1>5 DEF Unread, Unmet, Todo
  <2>4. /\ chainStatus'[j] # "None"
        /\ \A k \in 1..Len(log') : log'[k].item = j => ~Unread(k)'
        => IF step' = "upsert" /\ Tx'.item = j THEN rec' = chainStatus'[j]
           ELSE status'[j] = MapStatus(j, chainStatus'[j])
    BY <2>1, <2>2, <2>3, <1>1, <1>3, <1>4, <1>5 DEF FaultFree,
           StatusKept
  <2>5. j \notin rows => \A k \in 1..Len(log') : log'[k].item = j => Unmet(k)'
    BY <2>1, <2>2, <2>3, <1>3, <1>5 DEF FaultFree, RowKept
  <2>6. j \in rows => /\ postedAt[j] \in 1..Len(log')
                      /\ log'[postedAt[j]].item = j
                      /\ log'[postedAt[j]].kind = "Posted"
    BY <2>1, <1>3, <1>5 DEF FaultFree, RowKept
  <2>7. \/ claims[j] = chainClaims'[j]
        \/ \E k \in 1..Len(log') : Todo(k)' /\ Claim(k, j)'
    <3>1. CASE Claim(new, j)'
      BY <2>3, <3>1
    <3>2. CASE ~Claim(new, j)'
      <4>1. chainClaims'[j] = chainClaims[j]
        <5>1. j # i \/ n = 0
          BY <3>2, <1>1, <1>3, EscrowAssumption DEF Claim
        <5> QED
          BY <5>1, <1>1 DEF TypeOK
      <4> QED
        BY <2>1, <2>2, <4>1, <1>5 DEF FaultFree, ClaimsKept
    <3> QED
      BY <3>1, <3>2
  <2>8. ASSUME NEW k \in 1..Len(log'), Todo(k)', Claim(k, j)'
        PROVE  \/ claims[j] + log'[k].count = log'[k].total
               \/ \E h \in 1..Len(log') : h < k /\ Todo(h)' /\ Claim(h, j)'
    <3>1. CASE k \in 1..Len(log)
      BY <2>1, <2>2, <2>8, <3>1, <1>3, <1>5 DEF FaultFree,
             ClaimsKept
    <3>2. CASE k = new
      <4>1. j = i
        BY <2>8, <3>2, <1>3 DEF Claim
      <4>2. CASE claims[j] = chainClaims[j]
        BY <3>2, <4>1, <4>2, <1>3
      <4>3. CASE \E h \in 1..Len(log) : Todo(h) /\ Claim(h, j)
        BY <2>2, <3>2, <4>3, <1>5
      <4> QED
        BY <2>1, <4>2, <4>3 DEF FaultFree, ClaimsKept
    <3> QED
      BY <3>1, <3>2, <1>5
  <2>9. j \in rows =>
          \/ escrow[j] = Pool - claims[j] * Payout
          \/ \E k \in 1..Len(log') : Final(k, j)' /\ ~Todo(k)'
    BY <2>1, <2>2, <1>5 DEF FaultFree, EscrowKept
  <2>10. \A k \in 1..Len(log') : Final(k, j)' /\ ~Todo(k)' => escrow[j] = 0
    BY <2>1, <2>2, <2>3, <1>5 DEF FaultFree, EscrowKept
  <2> QED
    BY <2>1, <2>4, <2>5, <2>6, <2>7, <2>8, <2>9, <2>10, <1>4
       DEF FaultFree, StatusKept, RowKept, ClaimsKept, EscrowKept, MapStatus
<1> QED
  BY <1>6, <1>7, <1>8, <1>9, <1>10, <1>11, <1>12, <1>13, <1>14

-----------------------------------------------------------------------------
(***************************************************************************)
(* The walk.                                                               *)
(***************************************************************************)

\* The walk leaves the chain's account alone.
LEMMA ChainKept ==
  ASSUME Inv, UNCHANGED chainVars
  PROVE  HoldInv' /\ PostedInv' /\ LogInv' /\ ClaimsInv'
<1>1. UNCHANGED <<chainStatus, chainEscrow, chainClaims, log>>
  BY DEF chainVars
<1>2. HoldInv' /\ PostedInv'
  BY <1>1 DEF Inv, HoldInv, PostedInv
<1>3. LogInv'
  BY <1>1 DEF Inv, LogInv, Terminal
<1>4. ClaimsInv'
  BY <1>1 DEF Inv, ClaimsInv, Claim
<1> QED
  BY <1>2, <1>3, <1>4

\* The entry in hand.
LEMMA TxFacts ==
  ASSUME Inv, at <= Len(log)
  PROVE  /\ at \in 1..Len(log)
         /\ Tx \in LogEntry /\ Tx.item \in Item /\ Tx.count \in Nat
         /\ chainStatus[Tx.item] # "None"
         /\ Tx.kind = "Claimed" => Tx.item \in Bounty
         /\ Tx.kind \in Terminal(Tx.item) =>
              /\ chainStatus[Tx.item] \in Closed
              /\ \A m \in 1..Len(log) : m > at => log[m].item # Tx.item
         /\ \A n \in 1..Len(log) :
              /\ n \in Nat
              /\ log[n].item \in Item
              /\ log[n].count \in Nat /\ log[n].total \in Nat
<1>1. at \in 1..Len(log) /\ \A n \in 1..Len(log) : log[n] \in LogEntry
  BY DEF Inv, TypeOK
<1>2. \A n \in 1..Len(log) : /\ log[n].item \in Item
                             /\ log[n].count \in Nat /\ log[n].total \in Nat
  BY <1>1 DEF LogEntry
<1> QED
  BY <1>1, <1>2 DEF Inv, LogInv, Tx

\* map_bounty_status and map_contract_status keep a status the chain can have
\* and the indexer knows, and never make an item look closed.
LEMMA MapFacts ==
  ASSUME HoldInv, NEW i \in Item
  PROVE  /\ \A s \in Statuses : MapStatus(i, s) \in Statuses \ {"Frozen"}
         /\ \A s : MapStatus(i, s) \in Closed => MapStatus(i, s) = s
         /\ chainStatus[i] \in Closed =>
              MapStatus(i, chainStatus[i]) = chainStatus[i]
<1> QED
  BY DEF HoldInv, Item, MapStatus, Statuses, Closed, BountyStatus,
         ContractStatus

\* A step keeps every variable in its type.
LEMMA TypeStep ==
  ASSUME Inv, Walk \/ FaultStep
  PROVE  TypeOK'
<1> USE EscrowAssumption DEF Inv
<1>1. step # "hydrate" => at \in 1..Len(log) /\ Tx.item \in Item
                          /\ Tx.count \in Nat
  BY TxFacts DEF WalkInv
<1>2. CASE Hydrate
  <2>1. Tx.item \in Item
    BY <1>2, TxFacts DEF Hydrate
  <2> QED
    BY <1>2, <2>1 DEF Hydrate, TypeOK, chainVars, rowVars
<1>3. ASSUME UpsertRow(Tx.item), step = "upsert"
      PROVE  /\ status' \in [Item -> Statuses \ {"Frozen"}]
             /\ rows' \subseteq Item
             /\ escrow' \in [Item -> Int]
             /\ claims' \in [Item -> Nat]
             /\ postedAt' \in [Item -> Nat]
  <2>1. MapStatus(Tx.item, rec) \in Statuses \ {"Frozen"}
    BY <1>1, <1>3, MapFacts DEF TypeOK
  <2>2. status' \in [Item -> Statuses \ {"Frozen"}]
    BY <1>3, <2>1 DEF UpsertRow, TypeOK
  <2>3. Pool \in Int /\ at \in Nat
    BY DEF TypeOK
  <2>4. escrow' \in [Item -> Int]
    <3>1. escrow \in [Item -> Int]
      BY DEF TypeOK
    <3>2. escrow' = escrow \/ escrow' = [escrow EXCEPT ![Tx.item] = Pool]
      BY <1>3 DEF UpsertRow
    <3> QED
      BY ONLY <2>3, <3>1, <3>2
  <2>5. postedAt' \in [Item -> Nat]
    <3>1. postedAt \in [Item -> Nat]
      BY DEF TypeOK
    <3>2. postedAt' = postedAt \/ postedAt' = [postedAt EXCEPT ![Tx.item] = at]
      BY <1>3 DEF UpsertRow
    <3> QED
      BY ONLY <2>3, <3>1, <3>2
  <2> QED
    BY <1>1, <1>3, <2>2, <2>4, <2>5 DEF UpsertRow, TypeOK
<1>4. CASE Upsert
  BY <1>3, <1>4 DEF Upsert, TypeOK, chainVars
<1>5. CASE UpsertRefused
  BY <1>5 DEF UpsertRefused, TypeOK, chainVars, rowVars
<1>6. CASE ApplyClaim
  <2>1. Tx.count * Payout \in Int
    BY <1>1, <1>6 DEF ApplyClaim
  <2>2. escrow' \in [Item -> Int]
    <3>1. Tx.item \in Item /\ escrow \in [Item -> Int]
      BY <1>1, <1>6 DEF ApplyClaim, TypeOK
    <3>2. escrow[Tx.item] \in Int
      BY ONLY <3>1
    <3>3. escrow[Tx.item] - Tx.count * Payout \in Int
      BY ONLY <2>1, <3>2
    <3>4. escrow' = [escrow EXCEPT ![Tx.item] =
                       escrow[Tx.item] - Tx.count * Payout]
      BY <1>6 DEF ApplyClaim
    <3> QED
      BY ONLY <3>1, <3>3, <3>4
  <2>3. claims' \in [Item -> Nat]
    <3>1. /\ Tx.item \in Item /\ Tx.count \in Nat
          /\ claims \in [Item -> Nat]
      BY <1>1, <1>6 DEF ApplyClaim, TypeOK
    <3>2. claims[Tx.item] + Tx.count \in Nat
      BY ONLY <3>1
    <3>3. claims' = [claims EXCEPT ![Tx.item] = claims[Tx.item] + Tx.count]
      BY <1>6 DEF ApplyClaim
    <3> QED
      BY ONLY <3>1, <3>2, <3>3
  <2> QED
    BY <1>6, <2>2, <2>3 DEF ApplyClaim, TypeOK, chainVars
<1>7. CASE ZeroEscrow
  <2>1. escrow' \in [Item -> Int]
    <3>1. escrow \in [Item -> Int]
      BY DEF TypeOK
    <3>2. escrow' = [escrow EXCEPT ![Tx.item] = 0]
      BY <1>7 DEF ZeroEscrow
    <3>3. \A z \in Int : [escrow EXCEPT ![Tx.item] = z] \in [Item -> Int]
      BY ONLY <3>1
    <3>4. 0 \in Int
      OBVIOUS
    <3> QED
      BY ONLY <3>2, <3>3, <3>4, Zenon
  <2> QED
    BY <1>7, <2>1 DEF ZeroEscrow, TypeOK, chainVars
<1>8. CASE WriteCursor
  BY <1>1, <1>8 DEF WriteCursor, TypeOK, chainVars, rowVars
<1>9. CASE HydrateFailure
  BY <1>9 DEF HydrateFailure, Fault, TypeOK, chainVars, rowVars
<1>10. CASE UpsertFailure
  <2>1. CASE UpsertRow(Tx.item)
    BY <1>3, <1>10, <2>1 DEF UpsertFailure, Fault, TypeOK, chainVars
  <2>2. CASE UNCHANGED rowVars
    BY <1>10, <2>2 DEF UpsertFailure, Fault, TypeOK, chainVars, rowVars
  <2> QED
    BY <1>10, <2>1, <2>2 DEF UpsertFailure
<1>11. CASE DeltaFailure
  BY <1>11 DEF DeltaFailure, Fault, TypeOK, chainVars, rowVars
<1>12. CASE WriteCursorFailure
  BY <1>1, <1>12 DEF WriteCursorFailure, Fault, TypeOK, chainVars, rowVars
<1>13. CASE Crash
  BY <1>13 DEF Crash, Fault, TypeOK, chainVars, rowVars, Statuses
<1> QED
  BY <1>2, <1>4, <1>5, <1>6, <1>7, <1>8, <1>9, <1>10, <1>11, <1>12, <1>13
     DEF Walk, FaultStep

\* What an upsert does to the rows.
LEMMA UpsertFacts ==
  ASSUME Inv, step = "upsert", UpsertRow(Tx.item)
  PROVE  /\ rows' = rows \cup {Tx.item}
         /\ status'[Tx.item] = MapStatus(Tx.item, rec)
         /\ \A j \in Item \ {Tx.item} : /\ status'[j] = status[j]
                                        /\ escrow'[j] = escrow[j]
                                        /\ postedAt'[j] = postedAt[j]
         /\ Tx.item \in rows => escrow'[Tx.item] = escrow[Tx.item]
                                /\ postedAt'[Tx.item] = postedAt[Tx.item]
         /\ Tx.item \notin rows => escrow'[Tx.item] = Pool
                                   /\ postedAt'[Tx.item] = at
         /\ claims' = claims
<1>1. Tx.item \in Item
  BY TxFacts DEF Inv, WalkInv
<1> QED
  BY <1>1 DEF Inv, TypeOK, UpsertRow

\* The rows never run ahead of the chain into a closed status, and never
\* fall back from one.
LEMMA WalkStep ==
  ASSUME Inv, Walk \/ FaultStep
  PROVE  WalkInv'
<1> USE DEF Inv
<1>1. step # "hydrate" => at \in 1..Len(log) /\ Tx.item \in Item
  BY TxFacts DEF WalkInv
<1>2. CASE Hydrate
  <2>1. Tx.item \in Item
    BY <1>2, TxFacts DEF Hydrate
  <2>2. UNCHANGED <<chainStatus, log, at, rows, status>> /\ Tx' = Tx
    BY <1>2 DEF Hydrate, chainVars, rowVars, Tx
  <2> QED
    BY <1>2, <2>1, <2>2 DEF Hydrate, WalkInv, TypeOK
<1>3. ASSUME UpsertRow(Tx.item), step = "upsert", UNCHANGED chainStatus
      PROVE  /\ \A i \in rows' : chainStatus'[i] # "None"
             /\ \A i \in Item : status'[i] \in Closed =>
                  status'[i] = chainStatus'[i]
             /\ Tx.item \in rows'
  <2>1. chainStatus[Tx.item] # "None"
    BY <1>1, <1>3, TxFacts DEF WalkInv
  <2>2. status'[Tx.item] \in Closed => status'[Tx.item] = chainStatus[Tx.item]
    BY <1>1, <1>3, UpsertFacts, MapFacts DEF WalkInv
  <2> QED
    BY <1>3, <2>1, <2>2, UpsertFacts DEF WalkInv
<1>4. CASE Upsert
  <2>1. UNCHANGED <<chainStatus, log, at>> /\ Tx' = Tx
    BY <1>4 DEF Upsert, chainVars, Tx
  <2>2. HasDelta(Tx)' <=> HasDelta(Tx)
    BY <2>1 DEF HasDelta, Terminal
  <2> QED
    BY <1>1, <1>3, <1>4, <2>1, <2>2 DEF Upsert, WalkInv
<1>5. CASE UpsertRefused
  BY <1>5 DEF UpsertRefused, WalkInv, chainVars, rowVars
<1>6. CASE ApplyClaim
  BY <1>6 DEF ApplyClaim, WalkInv, chainVars
<1>7. CASE ZeroEscrow
  BY <1>7 DEF ZeroEscrow, WalkInv, chainVars
<1>8. CASE WriteCursor
  BY <1>8 DEF WriteCursor, WalkInv, chainVars, rowVars
<1>9. CASE HydrateFailure
  BY <1>9 DEF HydrateFailure, WalkInv, chainVars, rowVars
<1>10. CASE UpsertFailure
  <2>1. CASE UpsertRow(Tx.item)
    BY <1>1, <1>3, <1>10, <2>1 DEF UpsertFailure, WalkInv, chainVars
  <2>2. CASE UNCHANGED rowVars
    BY <1>10, <2>2 DEF UpsertFailure, WalkInv, chainVars, rowVars
  <2> QED
    BY <1>10, <2>1, <2>2 DEF UpsertFailure
<1>11. CASE DeltaFailure
  BY <1>11 DEF DeltaFailure, WalkInv, chainVars, rowVars
<1>12. CASE WriteCursorFailure
  BY <1>12 DEF WriteCursorFailure, WalkInv, chainVars, rowVars
<1>13. CASE Crash
  BY <1>13 DEF Crash, WalkInv, chainVars, rowVars
<1> QED
  BY <1>2, <1>4, <1>5, <1>6, <1>7, <1>8, <1>9, <1>10, <1>11, <1>12, <1>13
     DEF Walk, FaultStep

\* The walk goes forward: what it has to do only shrinks, until it restarts
\* behind the slot it was in.
LEMMA Forward ==
  ASSUME Inv, Walk \/ FaultStep
  PROVE  /\ replayed => replayed'
         /\ \A n \in 1..Len(log) : ~replayed' /\ Todo(n)' => Todo(n)
<1> USE DEF Inv
<1>1. at \in Nat /\ cursor \in Nat
  BY DEF TypeOK
<1>2. CASE Crash
  <2>1. replayed' = (replayed \/ at' < at \/ step # "hydrate")
    BY <1>2 DEF Crash
  <2>2. /\ replayed => replayed'
        /\ ~replayed' => ~(at' < at) /\ step = "hydrate"
    BY ONLY <2>1
  <2>3. step' = "hydrate" /\ at' \in Nat
    BY <1>1, <1>2 DEF Crash
  <2> QED
    BY <1>1, <2>2, <2>3 DEF Todo
<1>3. CASE WriteCursor \/ WriteCursorFailure
  BY <1>1, <1>3 DEF WriteCursor, WriteCursorFailure, Todo
<1>4. CASE Hydrate \/ Upsert \/ UpsertRefused \/ ApplyClaim \/ ZeroEscrow
           \/ HydrateFailure \/ UpsertFailure \/ DeltaFailure
  BY <1>4 DEF Hydrate, Upsert, UpsertRefused, ApplyClaim, ZeroEscrow,
         HydrateFailure, UpsertFailure, DeltaFailure, Todo
<1> QED
  BY <1>2, <1>3, <1>4 DEF Walk, FaultStep

\* A claim lowers the escrow by what it adds to the claims.
LEMMA ClaimFacts ==
  ASSUME Inv, ApplyClaim
  PROVE  /\ claims'[Tx.item] = claims[Tx.item] + Tx.count
         /\ escrow[Tx.item] = Pool - claims[Tx.item] * Payout =>
              escrow'[Tx.item] = Pool - claims'[Tx.item] * Payout
         /\ \A j \in Item \ {Tx.item} : escrow'[j] = escrow[j]
                                        /\ claims'[j] = claims[j]
<1>1. Tx.item \in Item /\ Tx.count \in Nat
  BY TxFacts DEF Inv, WalkInv, ApplyClaim
<1>2. /\ escrow'[Tx.item] = escrow[Tx.item] - Tx.count * Payout
      /\ claims'[Tx.item] = claims[Tx.item] + Tx.count
      /\ \A j \in Item \ {Tx.item} : escrow'[j] = escrow[j]
                                     /\ claims'[j] = claims[j]
      /\ claims[Tx.item] \in Nat
  BY <1>1 DEF ApplyClaim, Inv, TypeOK
<1>3. \A c, d \in Nat : (c + d) * Payout = c * Payout + d * Payout
  BY EscrowAssumption
<1>4. /\ claims[Tx.item] * Payout \in Int /\ Tx.count * Payout \in Int
      /\ claims'[Tx.item] * Payout
           = claims[Tx.item] * Payout + Tx.count * Payout
  BY <1>1, <1>2, <1>3, EscrowAssumption
<1> QED
  BY <1>2, <1>4, EscrowAssumption

\* The escrow column: the pool less the claims applied, or zero once closed.
LEMMA RowStep ==
  ASSUME Inv, Walk \/ FaultStep
  PROVE  RowInv'
<1> USE DEF Inv
<1>1. step # "hydrate" => at \in 1..Len(log) /\ Tx.item \in Item
                          /\ Tx.count \in Nat
  BY TxFacts DEF WalkInv
<1>2. \A i \in rows : claims[i] \in Nat /\ escrow[i] \in Int /\ i \in Item
  BY DEF TypeOK
<1>3. ASSUME UNCHANGED <<chainStatus, log, rows, claims, escrow>>
      PROVE  RowInv'
  BY <1>3, Forward DEF RowInv
<1>4. at \in Nat
  BY DEF TypeOK
<1>5. CASE Hydrate
  BY <1>3, <1>5 DEF Hydrate, chainVars, rowVars
<1>6. ASSUME UpsertRow(Tx.item), step = "upsert",
             UNCHANGED <<chainStatus, log, at, replayed>>
      PROVE  RowInv'
  <2>1. \A n \in 1..Len(log) : Todo(n)' => Todo(n)
    BY <1>6 DEF Todo
  <2>2. /\ rows' = rows \cup {Tx.item} /\ claims' = claims
        /\ \A j \in rows : escrow'[j] = escrow[j]
    BY <1>2, <1>6, UpsertFacts
  <2>3. Tx.item \notin rows =>
          escrow'[Tx.item] = Pool - claims'[Tx.item] * Payout
    <3>1. Tx.item \notin rows => escrow'[Tx.item] = Pool /\ claims[Tx.item] = 0
      BY <1>1, <1>6, UpsertFacts DEF RowInv
    <3>2. Pool = Pool - 0 * Payout
      BY EscrowAssumption
    <3> QED
      BY <2>2, <3>1, <3>2
  <2> QED
    BY <1>6, <2>1, <2>2, <2>3 DEF RowInv
<1>7. CASE Upsert
  BY <1>6, <1>7 DEF Upsert, chainVars
<1>8. CASE UpsertRefused
  BY <1>3, <1>8 DEF UpsertRefused, chainVars, rowVars
<1>9. CASE ApplyClaim
  <2>1. Tx.item \in Bounty /\ Tx.item \in rows /\ Tx.item \notin Contract
    BY <1>1, <1>9, TxFacts, EscrowAssumption DEF ApplyClaim, WalkInv
  <2>2. \A j \in Item \ {Tx.item} : escrow'[j] = escrow[j]
                                    /\ claims'[j] = claims[j]
    BY <1>9, ClaimFacts
  <2>3. UNCHANGED <<chainStatus, log, at, rows, replayed>>
    BY <1>9 DEF ApplyClaim, chainVars
  <2>4. ~replayed => escrow[Tx.item] = Pool - claims[Tx.item] * Payout
    <3>1. Todo(at) /\ log[at].item = Tx.item /\ at \in 1..Len(log)
      BY <1>1, <1>4, <1>9 DEF Todo, Tx, ApplyClaim
    <3> QED
      BY <2>1, <3>1 DEF RowInv
  <2>5. ~replayed => escrow'[Tx.item] = Pool - claims'[Tx.item] * Payout
    BY <1>9, <2>4, ClaimFacts
  <2>6. \A n \in 1..Len(log) : Todo(n)' => Todo(n)
    BY <1>9, <2>3 DEF Todo, ApplyClaim
  <2>7. \A j \in Contract : j \in Item /\ j # Tx.item
    BY <2>1 DEF Item
  <2> QED
    BY <1>2, <2>1, <2>2, <2>3, <2>5, <2>6, <2>7 DEF RowInv
<1>10. CASE ZeroEscrow
  <2>1. /\ chainStatus[Tx.item] \in Closed
        /\ \A m \in 1..Len(log) : m > at => log[m].item # Tx.item
    BY <1>1, <1>10, TxFacts DEF ZeroEscrow
  <2>2. /\ escrow'[Tx.item] = 0
        /\ \A j \in Item \ {Tx.item} : escrow'[j] = escrow[j]
        /\ UNCHANGED <<chainStatus, log, at, rows, claims, replayed>>
        /\ step = "delta" /\ step' = "cursor"
    BY <1>1, <1>10 DEF ZeroEscrow, TypeOK, chainVars
  <2>3. \A n \in 1..Len(log) : /\ Todo(n)' => Todo(n)
                               /\ Todo(n)' => n > at
    BY <2>2 DEF Todo
  <2> QED
    BY <1>2, <2>1, <2>2, <2>3 DEF RowInv
<1>11. CASE WriteCursor
  BY <1>3, <1>11 DEF WriteCursor, chainVars, rowVars
<1>12. CASE HydrateFailure
  BY <1>3, <1>12 DEF HydrateFailure, chainVars, rowVars
<1>13. CASE UpsertFailure
  <2>1. CASE UpsertRow(Tx.item)
    BY <1>6, <1>13, <2>1 DEF UpsertFailure, chainVars
  <2>2. CASE UNCHANGED rowVars
    BY <1>3, <1>13, <2>2 DEF UpsertFailure, chainVars, rowVars
  <2> QED
    BY <1>13, <2>1, <2>2 DEF UpsertFailure
<1>14. CASE DeltaFailure
  BY <1>3, <1>14 DEF DeltaFailure, chainVars, rowVars
<1>15. CASE WriteCursorFailure
  BY <1>3, <1>15 DEF WriteCursorFailure, chainVars, rowVars
<1>16. CASE Crash
  BY <1>3, <1>16 DEF Crash, chainVars, rowVars
<1> QED
  BY <1>5, <1>7, <1>8, <1>9, <1>10, <1>11, <1>12, <1>13, <1>14, <1>15, <1>16
     DEF Walk, FaultStep

\* Claims are applied in the order of the log, each at most once.
LEMMA OnceStep ==
  ASSUME Inv, Walk \/ FaultStep
  PROVE  OnceInv'
<1> USE DEF Inv
<1>1. step # "hydrate" => at \in 1..Len(log) /\ Tx.item \in Item
                          /\ Tx.count \in Nat
  BY TxFacts DEF WalkInv
<1>2. UNCHANGED <<chainClaims, log>>
  BY DEF Walk, FaultStep, Hydrate, Upsert, UpsertRefused, ApplyClaim,
         ZeroEscrow, WriteCursor, HydrateFailure, UpsertFailure, DeltaFailure,
         WriteCursorFailure, Crash, chainVars
<1>3. CASE ApplyClaim
  <2> SUFFICES ASSUME ~replayed, NEW i \in Item
               PROVE  /\ claims'[i] <= chainClaims[i]
                      /\ \A n \in 1..Len(log) : Todo(n)' /\ Claim(n, i) =>
                           claims'[i] + log[n].count <= log[n].total
    BY <1>2, <1>3 DEF ApplyClaim, OnceInv, Claim
  <2>1. /\ Claim(at, Tx.item) /\ Todo(at) /\ at \in 1..Len(log)
        /\ claims[i] \in Nat /\ chainClaims[i] \in Nat
        /\ \A n \in 1..Len(log) : log[n].count \in Nat /\ log[n].total \in Nat
    <3>1. step = "delta" /\ Tx.kind = "Claimed" /\ at <= Len(log)
      BY <1>1, <1>3 DEF ApplyClaim, WalkInv
    <3>2. /\ at \in 1..Len(log)
          /\ \A n \in 1..Len(log) :
               log[n].count \in Nat /\ log[n].total \in Nat
      BY <3>1, TxFacts
    <3> QED
      BY <3>1, <3>2 DEF Claim, Todo, Tx, TypeOK
  <2>2. \A n \in 1..Len(log) : Todo(n)' => Todo(n) /\ n > at
    BY <1>3 DEF ApplyClaim, Todo
  <2>3. CASE i # Tx.item
    <3>1. claims'[i] = claims[i]
      BY <1>1, <1>3, <2>3 DEF ApplyClaim, TypeOK
    <3> QED
      BY <2>2, <3>1 DEF OnceInv
  <2>4. CASE i = Tx.item
    <3>1. claims'[i] = claims[i] + Tx.count /\ Tx.count = log[at].count
      BY <1>1, <1>3, <2>4 DEF ApplyClaim, TypeOK, Tx
    <3>2. claims[i] + log[at].count <= log[at].total
      BY <2>1, <2>4 DEF OnceInv
    <3>3. log[at].total <= chainClaims[i]
      BY <2>1, <2>4 DEF ClaimsInv
    <3>4. \A n \in 1..Len(log) : Todo(n)' /\ Claim(n, i) =>
            log[at].total + log[n].count <= log[n].total
      BY <2>1, <2>2, <2>4 DEF ClaimsInv
    <3> QED
      BY <2>1, <3>1, <3>2, <3>3, <3>4
  <2> QED
    BY <2>3, <2>4
<1>4. CASE ~ApplyClaim
  <2>1. claims' = claims
    BY <1>4 DEF Walk, FaultStep, Hydrate, Upsert, UpsertRefused, UpsertRow,
           ZeroEscrow, WriteCursor, HydrateFailure, UpsertFailure,
           DeltaFailure, WriteCursorFailure, Crash, rowVars
  <2> QED
    BY <1>2, <2>1, Forward DEF OnceInv, Claim
<1> QED
  BY <1>3, <1>4

-----------------------------------------------------------------------------
(***************************************************************************)
(* The walk without faults.                                                *)
(***************************************************************************)

\* The entries of an item that are neither read, upserted nor finished by
\* this step are left as they were.
LEMMA SameItem ==
  ASSUME NEW j \in Item, FaultFree(j),
         UNCHANGED <<chainStatus, chainClaims, log>>,
         status'[j] = status[j], escrow'[j] = escrow[j],
         claims'[j] = claims[j], postedAt'[j] = postedAt[j],
         j \in rows' <=> j \in rows,
         \A n \in 1..Len(log) : log[n].item = j =>
           /\ Unread(n)' <=> Unread(n)
           /\ Unmet(n)' <=> Unmet(n)
           /\ Todo(n)' <=> Todo(n),
         ~(step = "upsert" /\ Tx.item = j),
         ~(step' = "upsert" /\ Tx'.item = j)
  PROVE  FaultFree(j)'
<1>1. \A n \in 1..Len(log) : /\ Claim(n, j)' <=> Claim(n, j)
                             /\ Final(n, j)' <=> Final(n, j)
  BY DEF Claim, Final, Terminal
<1>2. MapStatus(j, chainStatus[j])' = MapStatus(j, chainStatus[j])
  BY DEF MapStatus
<1> QED
  BY <1>1, <1>2 DEF FaultFree, StatusKept, RowKept, ClaimsKept,
           EscrowKept, Claim, Final

\* A step keeps the tables in line with the chain.
LEMMA MirrorStep ==
  ASSUME Inv, Walk \/ FaultStep
  PROVE  MirrorInv'
<1> USE DEF Inv
<1>1. CASE FaultStep
  <2>1. faults' = faults + 1 /\ faults \in Nat
    BY <1>1 DEF FaultStep, HydrateFailure, UpsertFailure, DeltaFailure,
           WriteCursorFailure, Crash, Fault, TypeOK
  <2> QED
    BY <2>1 DEF MirrorInv
<1>2. ASSUME Walk, faults = 0, NEW j \in Item \ Boardless
      PROVE  FaultFree(j)'
  <2>1. /\ FaultFree(j) /\ ~replayed
        /\ UNCHANGED <<chainStatus, chainClaims, log>>
        /\ at \in Nat
        /\ claims[j] \in Nat /\ chainClaims[j] \in Nat
    BY <1>2 DEF Walk, Hydrate, Upsert, UpsertRefused, ApplyClaim, ZeroEscrow,
           WriteCursor, chainVars, MirrorInv, TypeOK
  <2>2. CASE WriteCursor
    <3>1. /\ UNCHANGED <<rows, status, escrow, claims, postedAt>>
          /\ step = "cursor" /\ step' = "hydrate" /\ at' = at + 1
      BY <2>2 DEF WriteCursor, rowVars
    <3>2. \A n \in 1..Len(log) : /\ Unread(n)' <=> Unread(n)
                                 /\ Unmet(n)' <=> Unmet(n)
                                 /\ Todo(n)' <=> Todo(n)
      BY <2>1, <3>1 DEF Unread, Unmet, Todo
    <3> QED
      BY <2>1, <3>1, <3>2, SameItem
  <2>3. CASE ~WriteCursor
    <3> DEFINE i == Tx.item
    <3>1. at <= Len(log) /\ at' = at /\ Tx' = Tx
      BY <1>2, <2>1, <2>3 DEF Walk, Hydrate, Upsert, UpsertRefused, ApplyClaim,
             ZeroEscrow, WalkInv, Tx
    <3>2. /\ at \in 1..Len(log) /\ i \in Item
          /\ log[at].item = i
          /\ \A n \in 1..Len(log) :
               n \in Nat /\ log[n].count \in Nat /\ log[n].total \in Nat
      BY <3>1, TxFacts DEF Tx
    <3>3. \A n \in 1..Len(log) : n # at => /\ Unread(n)' <=> Unread(n)
                                           /\ Unmet(n)' <=> Unmet(n)
                                           /\ Todo(n)' <=> Todo(n)
      BY <3>1 DEF Unread, Unmet, Todo
    <3>4. CASE j # i
      <4>1. /\ status'[j] = status[j] /\ escrow'[j] = escrow[j]
            /\ claims'[j] = claims[j] /\ postedAt'[j] = postedAt[j]
            /\ j \in rows' <=> j \in rows
        <5>1. CASE Hydrate \/ UpsertRefused
          BY <5>1 DEF Hydrate, UpsertRefused, rowVars
        <5>2. CASE Upsert
          BY <3>4, <5>2, UpsertFacts DEF Upsert
        <5>3. CASE ApplyClaim
          BY <3>4, <5>3, ClaimFacts DEF ApplyClaim
        <5>4. CASE ZeroEscrow
          BY <3>4, <5>4 DEF ZeroEscrow, TypeOK
        <5> QED
          BY <1>2, <2>3, <5>1, <5>2, <5>3, <5>4 DEF Walk
      <4> QED
        BY <2>1, <3>1, <3>2, <3>3, <3>4, <4>1, SameItem
    <3>5. CASE j = i /\ Hydrate
      <4>1. /\ UNCHANGED <<rows, status, escrow, claims, postedAt>>
            /\ step = "hydrate" /\ step' = "upsert" /\ rec' = chainStatus[j]
        BY <3>5 DEF Hydrate, rowVars
      <4>2. \A n \in 1..Len(log) : /\ Unmet(n)' <=> Unmet(n)
                                   /\ Todo(n)' <=> Todo(n)
                                   /\ Claim(n, j)' <=> Claim(n, j)
                                   /\ Final(n, j)' <=> Final(n, j)
        BY <2>1, <3>1, <4>1 DEF Unmet, Todo, Claim, Final, Terminal
      <4> QED
        BY <2>1, <3>1, <3>5, <4>1, <4>2
           DEF FaultFree, StatusKept, RowKept, ClaimsKept, EscrowKept
    <3>6. CASE j = i /\ Upsert
      <4>1. /\ step = "upsert" /\ step' \in {"delta", "cursor"}
            /\ ~HasDelta(Tx) => step' = "cursor"
            /\ HasDelta(Tx) => step' = "delta"
            /\ claims' = claims
            /\ rows' = rows \cup {j}
            /\ status'[j] = MapStatus(j, rec)
            /\ j \in rows => escrow'[j] = escrow[j]
                          /\ postedAt'[j] = postedAt[j]
            /\ j \notin rows => escrow'[j] = Pool /\ postedAt'[j] = at
        BY <3>6, UpsertFacts DEF Upsert
      <4>2. \A n \in 1..Len(log) :
              /\ Unread(n)' <=> Unread(n)
              /\ Claim(n, j)' <=> Claim(n, j)
              /\ Final(n, j)' <=> Final(n, j)
              /\ Claim(n, j) \/ Final(n, j) => (Todo(n)' <=> Todo(n))
              /\ Unmet(n) => Todo(n)
        BY <2>1, <3>1, <3>6, <4>1
           DEF Unread, Unmet, Todo, Claim, Final, Terminal, HasDelta, Tx
      <4>3. StatusKept(j)'
        BY <2>1, <3>1, <3>6, <4>1, <4>2 DEF FaultFree, StatusKept, MapStatus
      <4>4. RowKept(j)'
        <5>1. CASE j \in rows
          BY <2>1, <4>1, <5>1 DEF FaultFree, RowKept
        <5>2. CASE j \notin rows
          <6>1. PICK m \in 1..at : log[m].item = j /\ log[m].kind = "Posted"
            BY <3>2, <3>6 DEF LogInv
          <6>2. m \in 1..Len(log) /\ Unmet(m)
            BY <2>1, <3>2, <5>2, <6>1 DEF FaultFree, RowKept
          <6>3. m = at
            BY <2>1, <6>1, <6>2 DEF Unmet
          <6> QED
            BY <2>1, <3>2, <4>1, <5>2, <6>1, <6>3 DEF RowKept
        <5> QED
          BY <5>1, <5>2
      <4>5. ClaimsKept(j)'
        BY <2>1, <4>1, <4>2 DEF FaultFree, ClaimsKept
      <4>6. EscrowKept(j)'
        <5>1. CASE j \in rows
          BY <2>1, <4>1, <4>2, <5>1 DEF FaultFree, EscrowKept
        <5>2. CASE j \notin rows
          <6>1. \A n \in 1..Len(log) : ~(Final(n, j)' /\ ~Todo(n)')
            BY <2>1, <4>2, <5>2 DEF FaultFree, RowKept, Final
          <6>2. claims[j] = 0 /\ Pool = Pool - 0 * Payout
            BY <5>2, EscrowAssumption DEF RowInv
          <6>3. escrow'[j] = Pool - claims'[j] * Payout
            BY <4>1, <5>2, <6>2
          <6> QED
            BY <2>1, <6>1, <6>3 DEF EscrowKept
        <5> QED
          BY <5>1, <5>2
      <4> QED
        BY <4>3, <4>4, <4>5, <4>6 DEF FaultFree
    <3>7. CASE j = i /\ (ApplyClaim \/ ZeroEscrow)
      <4>1. /\ UNCHANGED <<rows, status, postedAt>>
            /\ step = "delta" /\ step' = "cursor" /\ j \in rows
        BY <3>7 DEF ApplyClaim, ZeroEscrow, WalkInv
      <4>2. \A n \in 1..Len(log) :
              /\ Unread(n)' <=> Unread(n)
              /\ Unmet(n)' <=> Unmet(n)
              /\ Claim(n, j)' <=> Claim(n, j)
              /\ Final(n, j)' <=> Final(n, j)
              /\ Todo(n)' <=> n > at
              /\ Todo(n) <=> n >= at
        BY <2>1, <3>1, <4>1 DEF Unread, Unmet, Todo, Claim, Final, Terminal
      <4>3. StatusKept(j)' /\ RowKept(j)'
        BY <2>1, <3>1, <4>1, <4>2
           DEF FaultFree, StatusKept, RowKept, MapStatus
      <4>4. CASE ApplyClaim
        <5>1. Claim(at, j) /\ ~Final(at, j) /\ Tx.count = log[at].count
          BY <3>2, <3>7, <4>4 DEF ApplyClaim, Claim, Final, Terminal, Tx
        <5>2. \A n \in 1..Len(log) : Final(n, j) => ~(n <= at)
          BY <2>1, <3>2, <3>7, <5>1 DEF Final, LogInv
        <5>3. claims[j] + log[at].count = log[at].total
          BY <2>1, <3>2, <4>2, <5>1 DEF FaultFree, ClaimsKept
        <5>4. claims'[j] = log[at].total
          BY <3>7, <4>4, <5>1, <5>3, ClaimFacts
        <5>5. /\ \/ log[at].total = chainClaims[j]
                 \/ \E m \in 1..Len(log) : m > at /\ Claim(m, j)
              /\ \A m \in 1..Len(log) : m > at /\ Claim(m, j) =>
                   \/ log[at].total + log[m].count = log[m].total
                   \/ \E l \in 1..Len(log) : at < l /\ l < m /\ Claim(l, j)
          BY <3>2, <5>1 DEF ClaimsInv
        <5>6. ClaimsKept(j)'
          BY <2>1, <3>2, <4>2, <5>4, <5>5 DEF ClaimsKept
        <5>7. escrow[j] = Pool - claims[j] * Payout
          BY <2>1, <3>2, <4>1, <4>2, <5>2 DEF FaultFree, EscrowKept
        <5>8. escrow'[j] = Pool - claims'[j] * Payout
          BY <3>7, <4>4, <5>7, ClaimFacts
        <5>9. EscrowKept(j)'
          BY <2>1, <3>2, <4>2, <5>2, <5>8 DEF EscrowKept
        <5> QED
          BY <4>3, <5>6, <5>9 DEF FaultFree
      <4>5. CASE ZeroEscrow
        <5>1. /\ Final(at, j) /\ ~Claim(at, j)
              /\ escrow'[j] = 0 /\ claims' = claims
          BY <3>2, <3>7, <4>5
             DEF ZeroEscrow, Claim, Final, Terminal, Tx, TypeOK
        <5>2. \A n \in 1..Len(log) : Claim(n, j) => (Todo(n)' <=> Todo(n))
          BY <2>1, <3>2, <4>2, <5>1
        <5>3. ClaimsKept(j)'
          BY <2>1, <4>2, <5>1, <5>2 DEF FaultFree, ClaimsKept
        <5>4. EscrowKept(j)'
          BY <2>1, <3>2, <4>2, <5>1 DEF EscrowKept
        <5> QED
          BY <4>3, <5>3, <5>4 DEF FaultFree
      <4> QED
        BY <3>7, <4>4, <4>5
    <3> QED
      BY <1>2, <2>3, <3>4, <3>5, <3>6, <3>7 DEF Walk, UpsertRefused
  <2> QED
    BY <2>2, <2>3
<1>3. CASE Walk
  <2>1. UNCHANGED <<replayed, faults>>
    BY <1>3 DEF Walk, Hydrate, Upsert, UpsertRefused, ApplyClaim, ZeroEscrow,
           WriteCursor
  <2> QED
    BY <1>2, <1>3, <2>1 DEF MirrorInv
<1> QED
  BY <1>1, <1>3

-----------------------------------------------------------------------------
(***************************************************************************)
(* The theorems.                                                           *)
(***************************************************************************)

\* Every step keeps the invariant.
LEMMA Step ==
  ASSUME Inv, [Next]_vars
  PROVE  Inv'
<1>1. ASSUME NEW i \in Item, NEW m \in Moves(i), NEW n \in 0..MaxBatch,
             Move(i, m, n)
      PROVE  Inv'
  BY <1>1, MoveStep
<1>2. CASE Walk \/ FaultStep
  <2>1. UNCHANGED chainVars
    BY <1>2 DEF Walk, FaultStep, Hydrate, Upsert, UpsertRefused, ApplyClaim,
           ZeroEscrow, WriteCursor, HydrateFailure, UpsertFailure,
           DeltaFailure, WriteCursorFailure, Crash
  <2> QED
    BY <1>2, <2>1, ChainKept, TypeStep, WalkStep, RowStep, OnceStep, MirrorStep
       DEF Inv
<1>3. CASE UNCHANGED vars
  <2>1. UNCHANGED <<chainStatus, chainEscrow, chainClaims, log, cursor, at,
                    step,
                    rec, rows, status, escrow, claims, postedAt, replayed,
                    faults>>
    BY <1>3 DEF vars
  <2>2. HoldInv' /\ PostedInv' /\ LogInv' /\ ClaimsInv'
    BY <2>1, ChainKept DEF chainVars
  <2>3. TypeOK' /\ WalkInv'
    BY <2>1 DEF Inv, TypeOK, WalkInv, Tx, HasDelta, Terminal
  <2>4. RowInv' /\ OnceInv'
    BY <2>1 DEF Inv, RowInv, OnceInv, Todo, Claim
  <2>5. MirrorInv'
    BY <2>1 DEF Inv, MirrorInv, FaultFree, StatusKept, RowKept, ClaimsKept,
           EscrowKept, Unread, Unmet, Todo, Claim, Final, Terminal, Tx,
           MapStatus
  <2> QED
    BY <2>2, <2>3, <2>4, <2>5 DEF Inv
<1> QED
  BY <1>1, <1>2, <1>3 DEF Next

\* The invariant holds in every reachable state.
LEMMA Invariance == Spec => []Inv
<1> QED
  BY InitInv, Step, PTL DEF Spec

\* The rows keep types the columns can hold: no status the indexer does not
\* know is ever stored.
THEOREM TypeCorrect == Spec => []TypeOK
<1> QED
  BY Invariance, PTL DEF Inv

\* Whatever fails, a row never shows less escrow than the chain holds: for a
\* contract always, for a bounty as long as no slot is walked twice.
THEOREM NeverUnderstated == Spec => []EscrowNotUnderstated
<1>1. ASSUME Inv PROVE EscrowNotUnderstated
  <2> SUFFICES ASSUME NEW i \in rows, i \in Contract \/ ~replayed
               PROVE  escrow[i] >= chainEscrow[i]
    BY DEF EscrowNotUnderstated
  <2>1. i \in Item /\ claims[i] \in Nat /\ chainClaims[i] \in Nat
        /\ chainEscrow[i] \in Int /\ Payout \in Nat
    BY <1>1, EscrowAssumption DEF Inv, TypeOK
  <2>2. claims[i] <= chainClaims[i]
    BY <1>1, <2>1 DEF Inv, RowInv, OnceInv, HoldInv
  <2>3. claims[i] * Payout <= chainClaims[i] * Payout
    <3>1. PICK d \in Nat : chainClaims[i] = claims[i] + d
      <4>1. chainClaims[i] - claims[i] \in Nat
        BY <2>1, <2>2
      <4>2. chainClaims[i] = claims[i] + (chainClaims[i] - claims[i])
        BY <2>1
      <4> QED
        BY ONLY <4>1, <4>2
    <3>2. chainClaims[i] * Payout = claims[i] * Payout + d * Payout
      BY <2>1, <3>1
    <3>3. claims[i] * Payout \in Nat /\ d * Payout \in Nat
      BY <2>1
    <3> QED
      BY <3>2, <3>3
  <2>4. /\ chainStatus[i] # "None"
        /\ \/ escrow[i] = Pool - claims[i] * Payout
           \/ escrow[i] = 0 /\ chainStatus[i] \in Closed
        /\ chainStatus[i] \in Closed => chainEscrow[i] = 0
        /\ chainStatus[i] \notin Closed =>
             chainEscrow[i] = Pool - chainClaims[i] * Payout
        /\ chainClaims[i] * Payout <= Pool
    BY <1>1, <2>1 DEF Inv, RowInv, WalkInv, HoldInv
  <2>5. claims[i] * Payout \in Int /\ chainClaims[i] * Payout \in Int
        /\ Pool \in Int
    BY <2>1, EscrowAssumption
  <2> QED
    BY <2>3, <2>4, <2>5
<1> QED
  BY <1>1, Invariance, PTL

\* No event that is walked late, or again, reopens a closed bounty or
\* contract.
THEOREM ClosedIsFinal == Spec => ClosedStaysClosed
<1>1. ASSUME Inv, [Next]_vars
      PROVE  [\A i \in rows :
                status[i] \in Closed => status'[i] = status[i]]_vars
  <2>1. ASSUME UpsertRow(Tx.item), step = "upsert", NEW i \in rows,
               status[i] \in Closed
        PROVE  status'[i] = status[i]
    <3>1. i \in Item /\ Tx.item \in Item
      BY <1>1, <2>1, TxFacts DEF Inv, TypeOK, WalkInv
    <3>2. CASE i # Tx.item
      BY <1>1, <2>1, <3>1, <3>2, UpsertFacts
    <3>3. CASE i = Tx.item
      <4>1. rec = status[i] /\ chainStatus[i] = status[i]
        BY <1>1, <2>1, <3>1, <3>3 DEF Inv, WalkInv
      <4>2. MapStatus(i, rec) = rec
        BY <1>1, <2>1, <3>1, <4>1, MapFacts DEF Inv
      <4> QED
        BY <1>1, <2>1, <3>3, <4>1, <4>2, UpsertFacts
    <3> QED
      BY <3>2, <3>3
  <2>2. CASE Upsert \/ UpsertFailure
    BY <2>1, <2>2 DEF Upsert, UpsertFailure, rowVars
  <2>3. CASE ~(Upsert \/ UpsertFailure)
    <3>1. CASE UNCHANGED vars
      BY <3>1 DEF vars
    <3>2. ASSUME NEW i \in Item, NEW m \in Moves(i), NEW n \in 0..MaxBatch,
                 Move(i, m, n)
          PROVE  UNCHANGED status
      BY <3>2 DEF Move, rowVars
    <3>3. CASE Walk
      BY <2>3, <3>3 DEF Walk, Hydrate, UpsertRefused, ApplyClaim, ZeroEscrow,
                        WriteCursor, rowVars
    <3>4. CASE FaultStep
      BY <2>3, <3>4 DEF FaultStep, HydrateFailure, DeltaFailure,
                        WriteCursorFailure, Crash, rowVars
    <3> QED
      BY <1>1, <3>1, <3>2, <3>3, <3>4 DEF Next
  <2> QED
    BY <2>2, <2>3
<1> QED
  BY <1>1, Invariance, PTL DEF Spec, ClosedStaysClosed

\* A walk that has caught up without a fault leaves the tables equal to the
\* chain, but for a bounty that was closed by its last claim.
THEOREM TablesMirrorChain == Spec => []MirrorsChain
<1>1. ASSUME Inv PROVE MirrorsChain
  <2> SUFFICES ASSUME faults = 0, at = Len(log) + 1,
                      NEW i \in Item \ Boardless,
                      chainStatus[i] # "None"
               PROVE  LET Mine(k) == {n \in 1..Len(log) : log[n].item = i
                                                        /\ log[n].kind = k}
                          ByClaim == /\ chainStatus[i] \in Closed
                                     /\ \A k \in Terminal(i) : Mine(k) = {}
                      IN /\ status[i] = MapStatus(i, chainStatus[i])
                         /\ escrow[i] = IF ByClaim
                                        THEN Pool - claims[i] * Payout
                                        ELSE chainEscrow[i]
                         /\ postedAt[i] \in Mine("Posted")
                         /\ claims[i] = chainClaims[i]
    BY DEF MirrorsChain
  <2>1. FaultFree(i) /\ Len(log) \in Nat
    BY <1>1 DEF Inv, MirrorInv, TypeOK
  <2>2. /\ step = "hydrate"
        /\ \A n \in 1..Len(log) : ~Unread(n) /\ ~Unmet(n) /\ ~Todo(n)
    BY <1>1, <2>1 DEF Inv, WalkInv, Unread, Unmet, Todo
  <2>3. status[i] = MapStatus(i, chainStatus[i])
    BY <2>1, <2>2 DEF FaultFree, StatusKept
  <2>4. claims[i] = chainClaims[i]
    BY <2>1, <2>2 DEF FaultFree, ClaimsKept
  <2>5. i \in rows
    BY <1>1, <2>1, <2>2 DEF FaultFree, RowKept, Inv, PostedInv
  <2>6. /\ postedAt[i] \in 1..Len(log) /\ log[postedAt[i]].item = i
        /\ log[postedAt[i]].kind = "Posted"
    BY <2>1, <2>5 DEF FaultFree, RowKept
  <2>7. CASE \E n \in 1..Len(log) : Final(n, i)
    <3>1. PICK n \in 1..Len(log) : Final(n, i)
      BY <2>7
    <3>2. escrow[i] = 0 /\ chainStatus[i] \in Closed /\ chainEscrow[i] = 0
      BY <1>1, <2>1, <2>2, <3>1
         DEF FaultFree, EscrowKept, Inv, LogInv, HoldInv, Final
    <3> QED
      BY <2>3, <2>4, <2>6, <3>1, <3>2 DEF Final
  <2>8. CASE ~\E n \in 1..Len(log) : Final(n, i)
    <3>1. escrow[i] = Pool - claims[i] * Payout
      BY <2>1, <2>5, <2>8 DEF FaultFree, EscrowKept
    <3>2. chainStatus[i] \notin Closed => escrow[i] = chainEscrow[i]
      BY <1>1, <2>4, <3>1 DEF Inv, HoldInv
    <3> QED
      BY <2>3, <2>4, <2>6, <2>8, <3>1, <3>2 DEF Final
  <2> QED
    BY <2>7, <2>8
<1> QED
  BY <1>1, Invariance, PTL
=============================================================================
