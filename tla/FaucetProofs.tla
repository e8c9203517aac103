---------------------------- MODULE FaucetProofs ----------------------------
(***************************************************************************)
(* Theorems about Faucet, for any requests, addresses, users, windows and  *)
(* starting nonce, however long it runs and however often it fails.        *)
(*                                                                         *)
(* What the invariants rest on is where a transfer is (TransferInv), what  *)
(* the two cooldown stores remember of the drips that were saved           *)
(* (MemoryInv), and what a handler that has passed a check has seen there  *)
(* (ClearedInv).                                                           *)
(***************************************************************************)
EXTENDS Faucet, TLAPS

\* A transfer exists once its request is signed, is taken by the chain once,
\* and is paid exactly when it was accepted; whoever saves a drip or says ok
\* has seen the acceptance.
TransferInv ==
  \A r \in Req :
    /\ stage[r] \in {"new", "check", "user", "sign"} =>
         r \notin wire /\ verdict[r] = "none"
    /\ r \in wire => verdict[r] = "none"
    /\ paid[r] # Never <=> verdict[r] = "accepted"
    /\ paid[r] <= now
    /\ stage[r] = "save" => verdict[r] = "accepted"
    /\ stage[r] # "done" => answer[r] = "none" /\ savedAt[r] = Never
    /\ answer[r] = "ok" => verdict[r] = "accepted"
    /\ answer[r] \in {"blocked", "invalid"} =>
         verdict[r] = "none" /\ r \notin wire
    /\ savedAt[r] # Never => /\ verdict[r] = "accepted"
                             /\ paid[r] <= savedAt[r]
                             /\ savedAt[r] <= now

\* The DashMap holds the time of the last drip that is remembered for an
\* address, bot_drips that of every drip.
MemoryInv ==
  /\ \A q \in live : savedAt[q] # Never
  /\ \A q \in live \cap Web : /\ lastDrip[Address[q]] # Never
                              /\ savedAt[q] <= lastDrip[Address[q]]
  /\ \A a \in Addr : lastDrip[a] # Never =>
       \E q \in live \cap Web : Address[q] = a /\ savedAt[q] = lastDrip[a]
  /\ \A q \in live \cap Bot : botDrips[q] = savedAt[q]

\* The drip of q has been over for a window.
Past(q, r) == now - savedAt[q] >= WindowOf(r)

\* What was on record when a request arrived stays on record until its
\* checks are made, and the checks that it has passed hold from then on.
ClearedInv ==
  \A r \in Req : \A q \in before[r] :
    /\ savedAt[q] # Never
    /\ stage[r] # "new"
    /\ stage[r] = "check" \/ q \in Bot => q \in live
    /\ stage[r] = "user" /\ q \in Bot /\ Address[q] = Address[r] => Past(q, r)
    /\ SameCooldown(q, r) /\ (stage[r] \in {"sign", "await", "save"}
                              \/ r \in wire) => Past(q, r)

Inv == TypeOK /\ TransferInv /\ MemoryInv /\ ClearedInv /\ DripsSpaced

USE DEF Never, NoNonce, NoOverride

\* The initial state is one of the invariant's.
LEMMA InitInv == Init => Inv
<1> SUFFICES ASSUME Init PROVE Inv
  OBVIOUS
<1> USE RequestAssumption, WindowAssumption DEF Init
<1>1. TypeOK
  BY DEF TypeOK, Stages, Answers, Time, SeedNonce
<1>2. TransferInv
  BY DEF TransferInv
<1>3. MemoryInv
  BY DEF MemoryInv
<1>4. ClearedInv /\ DripsSpaced
  BY DEF ClearedInv, DripsSpaced
<1> QED
  BY <1>1, <1>2, <1>3, <1>4 DEF Inv

\* Every step keeps the types.
LEMMA TypeStep ==
  ASSUME TypeOK, [Next]_vars
  PROVE  TypeOK'
<1> USE RequestAssumption, WindowAssumption
<1> USE DEF TypeOK, Stages, Answers, Time, reqVars, chainVars, saveVars
<1>1. CASE Tick
  BY <1>1 DEF Tick
<1>2. ASSUME NEW r \in Req, Arrive(r) PROVE TypeOK'
  BY <1>2 DEF Arrive, Respond, Goto
<1>3. ASSUME NEW r \in Req, DripCheck(r) PROVE TypeOK'
  BY <1>3 DEF DripCheck, Respond, Goto
<1>4. ASSUME NEW r \in Req, BotCheckAddress(r) PROVE TypeOK'
  BY <1>4 DEF BotCheckAddress, Respond, Goto
<1>5. ASSUME NEW r \in Req, BotCheckUser(r) PROVE TypeOK'
  BY <1>5 DEF BotCheckUser, Respond, Goto
<1>6. ASSUME NEW r \in Req, Sign(r) PROVE TypeOK'
  BY <1>6 DEF Sign, Goto
<1>7. ASSUME NEW r \in Req, SignInvalid(r) PROVE TypeOK'
  BY <1>7 DEF SignInvalid, Respond
<1>8. ASSUME NEW r \in Req, SubmitReturns(r) PROVE TypeOK'
  BY <1>8 DEF SubmitReturns, Respond, Goto
<1>9. ASSUME NEW r \in Req, Record(r) PROVE TypeOK'
  BY <1>9 DEF Record, Saved, Respond
<1>10. ASSUME NEW r \in Req, BotInsert(r) PROVE TypeOK'
  BY <1>10 DEF BotInsert, Saved, Respond
<1>11. ASSUME NEW r \in Req, ChainTakes(r) PROVE TypeOK'
  BY <1>11 DEF ChainTakes
<1>12. ASSUME NEW r \in Req, BotCheckFailure(r) PROVE TypeOK'
  BY <1>12 DEF BotCheckFailure, Respond, Fault
<1>13. ASSUME NEW r \in Req, SubmitLost(r) PROVE TypeOK'
  BY <1>13 DEF SubmitLost, Respond, Fault
<1>14. ASSUME NEW r \in Req, BotInsertFailure(r) PROVE TypeOK'
  BY <1>14 DEF BotInsertFailure, Respond, Fault
<1>15. ASSUME NEW r \in Req, ChainRefuses(r) PROVE TypeOK'
  BY <1>15 DEF ChainRefuses, Fault
<1>16. ASSUME NEW r \in Req, Disconnect(r) PROVE TypeOK'
  BY <1>16 DEF Disconnect, Respond, Fault
<1>17. CASE Restart
  BY <1>17 DEF Restart, Fault, SeedNonce
<1>18. CASE UNCHANGED vars
  BY <1>18 DEF vars
<1> QED
  BY <1>1, <1>2, <1>3, <1>4, <1>5, <1>6, <1>7, <1>8, <1>9, <1>10, <1>11,
     <1>12, <1>13, <1>14, <1>15, <1>16, <1>17, <1>18
  DEF Next, Handler, FaultStep

\* Every step keeps track of the transfers.
LEMMA TransferStep ==
  ASSUME TypeOK, TransferInv, [Next]_vars
  PROVE  TransferInv'
<1> USE RequestAssumption, WindowAssumption
<1> USE DEF TypeOK, TransferInv, Stages, Time, reqVars, chainVars, saveVars
<1>1. CASE Tick
  BY <1>1 DEF Tick
<1>2. ASSUME NEW r \in Req, Arrive(r) PROVE TransferInv'
  BY <1>2 DEF Arrive, Respond, Goto
<1>3. ASSUME NEW r \in Req, DripCheck(r) PROVE TransferInv'
  BY <1>3 DEF DripCheck, Respond, Goto
<1>4. ASSUME NEW r \in Req, BotCheckAddress(r) PROVE TransferInv'
  BY <1>4 DEF BotCheckAddress, Respond, Goto
<1>5. ASSUME NEW r \in Req, BotCheckUser(r) PROVE TransferInv'
  BY <1>5 DEF BotCheckUser, Respond, Goto
<1>6. ASSUME NEW r \in Req, Sign(r) PROVE TransferInv'
  BY <1>6 DEF Sign, Goto
<1>7. ASSUME NEW r \in Req, SignInvalid(r) PROVE TransferInv'
  BY <1>7 DEF SignInvalid, Respond
<1>8. ASSUME NEW r \in Req, SubmitReturns(r) PROVE TransferInv'
  BY <1>8 DEF SubmitReturns, Respond, Goto
<1>9. ASSUME NEW r \in Req, Record(r) PROVE TransferInv'
  BY <1>9 DEF Record, Saved, Respond
<1>10. ASSUME NEW r \in Req, BotInsert(r) PROVE TransferInv'
  BY <1>10 DEF BotInsert, Saved, Respond
<1>11. ASSUME NEW r \in Req, ChainTakes(r) PROVE TransferInv'
  BY <1>11 DEF ChainTakes
<1>12. ASSUME NEW r \in Req, BotCheckFailure(r) PROVE TransferInv'
  BY <1>12 DEF BotCheckFailure, Respond, Fault
<1>13. ASSUME NEW r \in Req, SubmitLost(r) PROVE TransferInv'
  BY <1>13 DEF SubmitLost, Respond, Fault
<1>14. ASSUME NEW r \in Req, BotInsertFailure(r) PROVE TransferInv'
  BY <1>14 DEF BotInsertFailure, Respond, Fault
<1>15. ASSUME NEW r \in Req, ChainRefuses(r) PROVE TransferInv'
  BY <1>15 DEF ChainRefuses, Fault
<1>16. ASSUME NEW r \in Req, Disconnect(r) PROVE TransferInv'
  BY <1>16 DEF Disconnect, Respond, Fault
<1>17. CASE Restart
  BY <1>17 DEF Restart
<1>18. CASE UNCHANGED vars
  BY <1>18 DEF vars
<1> QED
  BY <1>1, <1>2, <1>3, <1>4, <1>5, <1>6, <1>7, <1>8, <1>9, <1>10, <1>11,
     <1>12, <1>13, <1>14, <1>15, <1>16, <1>17, <1>18
  DEF Next, Handler, FaultStep

\* Every step keeps the two stores in line with the drips that were saved: a
\* later record of an address only raises its time, and a restart forgets the
\* DashMap and the web drips together.
LEMMA MemoryStep ==
  ASSUME TypeOK, TransferInv, MemoryInv, [Next]_vars
  PROVE  MemoryInv'
<1> USE RequestAssumption, WindowAssumption
<1> USE DEF TypeOK, TransferInv, MemoryInv, Time, reqVars, chainVars, saveVars
<1>1. CASE Tick
  BY <1>1 DEF Tick
<1>2. ASSUME NEW r \in Req, Arrive(r) PROVE MemoryInv'
  BY <1>2 DEF Arrive, Respond, Goto
<1>3. ASSUME NEW r \in Req, DripCheck(r) PROVE MemoryInv'
  BY <1>3 DEF DripCheck, Respond, Goto
<1>4. ASSUME NEW r \in Req, BotCheckAddress(r) PROVE MemoryInv'
  BY <1>4 DEF BotCheckAddress, Respond, Goto
<1>5. ASSUME NEW r \in Req, BotCheckUser(r) PROVE MemoryInv'
  BY <1>5 DEF BotCheckUser, Respond, Goto
<1>6. ASSUME NEW r \in Req, Sign(r) PROVE MemoryInv'
  BY <1>6 DEF Sign, Goto
<1>7. ASSUME NEW r \in Req, SignInvalid(r) PROVE MemoryInv'
  BY <1>7 DEF SignInvalid, Respond
<1>8. ASSUME NEW r \in Req, SubmitReturns(r) PROVE MemoryInv'
  BY <1>8 DEF SubmitReturns, Respond, Goto
<1>9. ASSUME NEW r \in Req, Record(r) PROVE MemoryInv'
  BY <1>9 DEF Record, Saved, Respond
<1>10. ASSUME NEW r \in Req, BotInsert(r) PROVE MemoryInv'
  BY <1>10 DEF BotInsert, Saved, Respond
<1>11. ASSUME NEW r \in Req, ChainTakes(r) PROVE MemoryInv'
  BY <1>11 DEF ChainTakes
<1>12. ASSUME NEW r \in Req, BotCheckFailure(r) PROVE MemoryInv'
  BY <1>12 DEF BotCheckFailure, Respond, Fault
<1>13. ASSUME NEW r \in Req, SubmitLost(r) PROVE MemoryInv'
  BY <1>13 DEF SubmitLost, Respond, Fault
<1>14. ASSUME NEW r \in Req, BotInsertFailure(r) PROVE MemoryInv'
  BY <1>14 DEF BotInsertFailure, Respond, Fault
<1>15. ASSUME NEW r \in Req, ChainRefuses(r) PROVE MemoryInv'
  BY <1>15 DEF ChainRefuses, Fault
<1>16. ASSUME NEW r \in Req, Disconnect(r) PROVE MemoryInv'
  BY <1>16 DEF Disconnect, Respond, Fault
<1>17. CASE Restart
  BY <1>17 DEF Restart
<1>18. CASE UNCHANGED vars
  BY <1>18 DEF vars
<1> QED
  BY <1>1, <1>2, <1>3, <1>4, <1>5, <1>6, <1>7, <1>8, <1>9, <1>10, <1>11,
     <1>12, <1>13, <1>14, <1>15, <1>16, <1>17, <1>18
  DEF Next, Handler, FaultStep

\* A web check that passes has seen every drip on record for the address.
LEMMA CheckClears ==
  ASSUME TypeOK, MemoryInv,
         NEW a \in Addr, Check(a),
         NEW q \in live \cap Web, Address[q] = a
  PROVE  now - savedAt[q] >= WebWindow
  BY RequestAssumption, WindowAssumption
  DEF TypeOK, MemoryInv, Check, Time, Req

\* A bot drip that the cooldown queries do not find is over.
LEMMA NoRecentDrip ==
  ASSUME TypeOK, MemoryInv, NEW q \in live \cap Bot, ~RecentDrip(q)
  PROVE  now - savedAt[q] >= BotWindow
  BY RequestAssumption, WindowAssumption
  DEF TypeOK, MemoryInv, RecentDrip, Time, Req

\* Every step keeps what the checks have shown.
LEMMA ClearedStep ==
  ASSUME Inv, [Next]_vars
  PROVE  ClearedInv'
<1> USE RequestAssumption, WindowAssumption
<1> USE DEF Inv, TypeOK, TransferInv, MemoryInv, ClearedInv, SameCooldown,
            Past, WindowOf, Time, reqVars, chainVars, saveVars
<1>1. CASE Tick
  BY <1>1 DEF Tick
<1>2. ASSUME NEW r \in Req, Arrive(r) PROVE ClearedInv'
  BY <1>2 DEF Arrive, Respond, Goto
<1>3. ASSUME NEW r \in Req, DripCheck(r) PROVE ClearedInv'
  <2>1. ASSUME NEW q \in before[r], SameCooldown(q, r), Check(Address[r])
        PROVE  Past(q, r)
    BY <1>3, <2>1, CheckClears DEF DripCheck
  <2> QED
    BY <1>3, <2>1 DEF DripCheck, Respond, Goto
<1>4. ASSUME NEW r \in Req, BotCheckAddress(r) PROVE ClearedInv'
  <2>1. ASSUME NEW q \in before[r], q \in Bot, Address[q] = Address[r],
               ~RecentDrip(q)
        PROVE  Past(q, r)
    BY <1>4, <2>1, NoRecentDrip DEF BotCheckAddress
  <2> QED
    BY <1>4, <2>1 DEF BotCheckAddress, Respond, Goto
<1>5. ASSUME NEW r \in Req, BotCheckUser(r) PROVE ClearedInv'
  <2>1. ASSUME NEW q \in before[r], q \in Bot, Discord[q] = Discord[r],
               ~RecentDrip(q)
        PROVE  Past(q, r)
    BY <1>5, <2>1, NoRecentDrip DEF BotCheckUser
  <2> QED
    BY <1>5, <2>1 DEF BotCheckUser, Respond, Goto
<1>6. ASSUME NEW r \in Req, Sign(r) PROVE ClearedInv'
  BY <1>6 DEF Sign, Goto
<1>7. ASSUME NEW r \in Req, SignInvalid(r) PROVE ClearedInv'
  BY <1>7 DEF SignInvalid, Respond
<1>8. ASSUME NEW r \in Req, SubmitReturns(r) PROVE ClearedInv'
  BY <1>8 DEF SubmitReturns, Respond, Goto
<1>9. ASSUME NEW r \in Req, Record(r) PROVE ClearedInv'
  BY <1>9 DEF Record, Saved, Respond
<1>10. ASSUME NEW r \in Req, BotInsert(r) PROVE ClearedInv'
  BY <1>10 DEF BotInsert, Saved, Respond
<1>11. ASSUME NEW r \in Req, ChainTakes(r) PROVE ClearedInv'
  BY <1>11 DEF ChainTakes
<1>12. ASSUME NEW r \in Req, BotCheckFailure(r) PROVE ClearedInv'
  BY <1>12 DEF BotCheckFailure, Respond, Fault
<1>13. ASSUME NEW r \in Req, SubmitLost(r) PROVE ClearedInv'
  BY <1>13 DEF SubmitLost, Respond, Fault
<1>14. ASSUME NEW r \in Req, BotInsertFailure(r) PROVE ClearedInv'
  BY <1>14 DEF BotInsertFailure, Respond, Fault
<1>15. ASSUME NEW r \in Req, ChainRefuses(r) PROVE ClearedInv'
  BY <1>15 DEF ChainRefuses, Fault
<1>16. ASSUME NEW r \in Req, Disconnect(r) PROVE ClearedInv'
  BY <1>16 DEF Disconnect, Respond, Fault
<1>17. CASE Restart
  BY <1>17 DEF Restart
<1>18. CASE UNCHANGED vars
  BY <1>18 DEF vars
<1> QED
  BY <1>1, <1>2, <1>3, <1>4, <1>5, <1>6, <1>7, <1>8, <1>9, <1>10, <1>11,
     <1>12, <1>13, <1>14, <1>15, <1>16, <1>17, <1>18
  DEF Next, Handler, FaultStep

\* Every step keeps the drips apart: the one that matters is the chain's, which
\* pays a request whose checks are behind it.
LEMMA SpacedStep ==
  ASSUME Inv, [Next]_vars
  PROVE  DripsSpaced'
<1> USE RequestAssumption, WindowAssumption
<1> USE DEF Inv, TypeOK, TransferInv, ClearedInv, DripsSpaced, Past, WindowOf,
            Time, reqVars, chainVars, saveVars
<1>1. CASE Tick
  BY <1>1 DEF Tick
<1>2. ASSUME NEW r \in Req, Arrive(r) PROVE DripsSpaced'
  BY <1>2 DEF Arrive, Respond, Goto
<1>3. ASSUME NEW r \in Req, DripCheck(r) PROVE DripsSpaced'
  BY <1>3 DEF DripCheck, Respond, Goto
<1>4. ASSUME NEW r \in Req, BotCheckAddress(r) PROVE DripsSpaced'
  BY <1>4 DEF BotCheckAddress, Respond, Goto
<1>5. ASSUME NEW r \in Req, BotCheckUser(r) PROVE DripsSpaced'
  BY <1>5 DEF BotCheckUser, Respond, Goto
<1>6. ASSUME NEW r \in Req, Sign(r) PROVE DripsSpaced'
  BY <1>6 DEF Sign, Goto
<1>7. ASSUME NEW r \in Req, SignInvalid(r) PROVE DripsSpaced'
  BY <1>7 DEF SignInvalid, Respond
<1>8. ASSUME NEW r \in Req, SubmitReturns(r) PROVE DripsSpaced'
  BY <1>8 DEF SubmitReturns, Respond, Goto
<1>9. ASSUME NEW r \in Req, Record(r) PROVE DripsSpaced'
  BY <1>9 DEF Record, Saved, Respond
<1>10. ASSUME NEW r \in Req, BotInsert(r) PROVE DripsSpaced'
  BY <1>10 DEF BotInsert, Saved, Respond
<1>11. ASSUME NEW r \in Req, ChainTakes(r) PROVE DripsSpaced'
  BY <1>11 DEF ChainTakes
<1>12. ASSUME NEW r \in Req, BotCheckFailure(r) PROVE DripsSpaced'
  BY <1>12 DEF BotCheckFailure, Respond, Fault
<1>13. ASSUME NEW r \in Req, SubmitLost(r) PROVE DripsSpaced'
  BY <1>13 DEF SubmitLost, Respond, Fault
<1>14. ASSUME NEW r \in Req, BotInsertFailure(r) PROVE DripsSpaced'
  BY <1>14 DEF BotInsertFailure, Respond, Fault
<1>15. ASSUME NEW r \in Req, ChainRefuses(r) PROVE DripsSpaced'
  BY <1>15 DEF ChainRefuses, Fault
<1>16. ASSUME NEW r \in Req, Disconnect(r) PROVE DripsSpaced'
  BY <1>16 DEF Disconnect, Respond, Fault
<1>17. CASE Restart
  BY <1>17 DEF Restart
<1>18. CASE UNCHANGED vars
  BY <1>18 DEF vars
<1> QED
  BY <1>1, <1>2, <1>3, <1>4, <1>5, <1>6, <1>7, <1>8, <1>9, <1>10, <1>11,
     <1>12, <1>13, <1>14, <1>15, <1>16, <1>17, <1>18
  DEF Next, Handler, FaultStep

\* Every step keeps the nonces of waiting handlers distinct and below the
\* counter; a restart may lower the counter, but leaves no handler waiting.
LEMMA NonceStep ==
  ASSUME TypeOK, NoncesDistinct, [Next]_vars
  PROVE  NoncesDistinct'
<1> USE RequestAssumption, WindowAssumption
<1> USE DEF TypeOK, NoncesDistinct, reqVars, chainVars, saveVars
<1>1. CASE Tick
  BY <1>1 DEF Tick
<1>2. ASSUME NEW r \in Req, Arrive(r) PROVE NoncesDistinct'
  BY <1>2 DEF Arrive, Respond, Goto
<1>3. ASSUME NEW r \in Req, DripCheck(r) PROVE NoncesDistinct'
  BY <1>3 DEF DripCheck, Respond, Goto
<1>4. ASSUME NEW r \in Req, BotCheckAddress(r) PROVE NoncesDistinct'
  BY <1>4 DEF BotCheckAddress, Respond, Goto
<1>5. ASSUME NEW r \in Req, BotCheckUser(r) PROVE NoncesDistinct'
  BY <1>5 DEF BotCheckUser, Respond, Goto
<1>6. ASSUME NEW r \in Req, Sign(r) PROVE NoncesDistinct'
  BY <1>6 DEF Sign, Goto
<1>7. ASSUME NEW r \in Req, SignInvalid(r) PROVE NoncesDistinct'
  BY <1>7 DEF SignInvalid, Respond
<1>8. ASSUME NEW r \in Req, SubmitReturns(r) PROVE NoncesDistinct'
  BY <1>8 DEF SubmitReturns, Respond, Goto
<1>9. ASSUME NEW r \in Req, Record(r) PROVE NoncesDistinct'
  BY <1>9 DEF Record, Saved, Respond
<1>10. ASSUME NEW r \in Req, BotInsert(r) PROVE NoncesDistinct'
  BY <1>10 DEF BotInsert, Saved, Respond
<1>11. ASSUME NEW r \in Req, ChainTakes(r) PROVE NoncesDistinct'
  BY <1>11 DEF ChainTakes
<1>12. ASSUME NEW r \in Req, BotCheckFailure(r) PROVE NoncesDistinct'
  BY <1>12 DEF BotCheckFailure, Respond, Fault
<1>13. ASSUME NEW r \in Req, SubmitLost(r) PROVE NoncesDistinct'
  BY <1>13 DEF SubmitLost, Respond, Fault
<1>14. ASSUME NEW r \in Req, BotInsertFailure(r) PROVE NoncesDistinct'
  BY <1>14 DEF BotInsertFailure, Respond, Fault
<1>15. ASSUME NEW r \in Req, ChainRefuses(r) PROVE NoncesDistinct'
  BY <1>15 DEF ChainRefuses, Fault
<1>16. ASSUME NEW r \in Req, Disconnect(r) PROVE NoncesDistinct'
  BY <1>16 DEF Disconnect, Respond, Fault
<1>17. CASE Restart
  BY <1>17 DEF Restart
<1>18. CASE UNCHANGED vars
  BY <1>18 DEF vars
<1> QED
  BY <1>1, <1>2, <1>3, <1>4, <1>5, <1>6, <1>7, <1>8, <1>9, <1>10, <1>11,
     <1>12, <1>13, <1>14, <1>15, <1>16, <1>17, <1>18
  DEF Next, Handler, FaultStep

\* The inductive invariant holds in every reachable state.
LEMMA Invariance == Spec => []Inv
<1>1. Init => Inv
  BY InitInv
<1>2. Inv /\ [Next]_vars => Inv'
  <2> SUFFICES ASSUME Inv, [Next]_vars PROVE Inv'
    OBVIOUS
  <2> QED
    BY TypeStep, TransferStep, MemoryStep, ClearedStep, SpacedStep DEF Inv
<1> QED
  BY <1>1, <1>2, PTL DEF Spec

-----------------------------------------------------------------------------
\* Every variable keeps its type, through any number of restarts: in
\* particular the nonce counter is a natural number whatever it is seeded
\* from.
THEOREM TypeCorrect == Spec => []TypeOK
<1>1. Inv => TypeOK
  BY DEF Inv
<1> QED
  BY <1>1, Invariance, PTL

\* A request that arrives once a drip of the same cooldown is on record is
\* not paid before the window has passed (handlers.rs:234-294,
\* bot_drip.rs:179-371).
THEOREM CooldownHolds == Spec => []DripsSpaced
<1>1. Inv => DripsSpaced
  BY DEF Inv
<1> QED
  BY <1>1, Invariance, PTL

\* No client is told ok without a transfer, or refused with one, and nothing
\* is saved that was not paid (handlers.rs:234-294, bot_drip.rs:179-371,
\* signer.rs:287-415).
THEOREM AnswersAreTrue == Spec => []AnswersTruthful
<1>1. Inv => AnswersTruthful
  BY DEF Inv, TransferInv, AnswersTruthful
<1> QED
  BY <1>1, Invariance, PTL

\* Concurrent handlers of one process hold distinct nonces, all below the
\* counter (signer.rs:311-316).
THEOREM NoncesAreDistinct == Spec => []NoncesDistinct
<1>1. Init => NoncesDistinct
  BY DEF Init, NoncesDistinct
<1>2. TypeOK /\ NoncesDistinct /\ [Next]_vars => NoncesDistinct'
  BY NonceStep
<1> QED
  BY <1>1, <1>2, TypeCorrect, PTL DEF Spec

\* What the status endpoint says of an address: the cooldown of its last
\* recorded drip.
LEMMA StatusOfLast ==
  ASSUME Inv, NEW a \in Addr
  PROVE  LET drips == {q \in live \cap Web : Address[q] = a}
         IN /\ Peek(a) = 0 <=> \A q \in drips : now - savedAt[q] >= WebWindow
            /\ Peek(a) # 0 =>
                 /\ \A q \in drips : savedAt[q] + WebWindow <= now + Peek(a)
                 /\ \E q \in drips : savedAt[q] + WebWindow = now + Peek(a)
<1> USE RequestAssumption, WindowAssumption
    DEF Inv, TypeOK, MemoryInv, Time, Req
<1>1. CASE lastDrip[a] = Never
  BY <1>1 DEF Peek
<1>2. CASE lastDrip[a] # Never
  <2>1. PICK q \in live \cap Web : Address[q] = a /\ savedAt[q] = lastDrip[a]
    BY <1>2
  <2>2. \A p \in live \cap Web : Address[p] = a => savedAt[p] <= lastDrip[a]
    OBVIOUS
  <2>3. lastDrip[a] \in Nat
    BY <1>2
  <2> QED
    BY <1>2, <2>1, <2>2, <2>3 DEF Peek
<1> QED
  BY <1>1, <1>2

\* GET /v1/drip/status is right about every web drip that the process
\* remembers, in whatever order they were recorded (handlers.rs:190-232,
\* ratelimit.rs:85-132).
THEOREM StatusIsTrue == Spec => []StatusTruthful
<1>1. Inv => StatusTruthful
  <2> SUFFICES ASSUME Inv PROVE StatusTruthful
    OBVIOUS
  <2>1. {a \in Addr : lastDrip[a] # Never}
          = {Address[q] : q \in live \cap Web}
    BY RequestAssumption DEF Inv, TypeOK, MemoryInv, Req
  <2> QED
    BY <2>1, StatusOfLast DEF StatusTruthful, DripStatus, DripCount
<1> QED
  BY <1>1, Invariance, PTL
=============================================================================
