----------------------------- MODULE MCTxIngest -----------------------------
(* Instances of TxIngest for TLC. *)
EXTENDS TxIngest, TLC

CONSTANTS t1, t2, t3, t4, t5, t6, t7, t8, alice, bob, set, schema, attestation

\* Slot 1 registers an attestor set and, in a second batch, a schema under
\* it, and registers the set again; slot 2 attests under the schema, reverts,
\* skips, submits the same attestation again, and transfers.
MCChain == << << <<t1>>, <<t2, t8>> >>, << <<t3, t4, t5, t7, t6>> >> >>

MCKind ==
  (t1 :> "register_attestor_set") @@ (t2 :> "register_schema") @@
  (t3 :> "submit_attestation") @@ (t4 :> "unknown") @@ (t5 :> "transfer") @@
  (t6 :> "transfer") @@ (t7 :> "submit_attestation") @@
  (t8 :> "register_attestor_set")

MCOutcome ==
  [t \in Tx |-> CASE t = t4 -> "reverted" [] t = t5 -> "skipped"
                  [] OTHER -> "committed"]

MCSender ==
  [t \in Tx |-> CASE t = t4 -> Nobody [] t \in {t3, t8} -> bob
                  [] OTHER -> alice]

MCReceiver ==
  [t \in Tx |-> IF t \in {t5, t6} THEN bob ELSE Nobody]

MCRegisters ==
  [t \in Tx |-> CASE t \in {t1, t8} -> set [] t = t2 -> schema
                  [] t \in {t3, t7} -> attestation [] OTHER -> Nobody]

MCParent ==
  [t \in Tx |-> CASE t = t2 -> set [] t \in {t3, t7} -> schema
                  [] OTHER -> Nobody]
=============================================================================
