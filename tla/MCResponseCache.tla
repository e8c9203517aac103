-------------------------- MODULE MCResponseCache --------------------------
(* Instances of ResponseCache for TLC. *)
EXTENDS ResponseCache, TLC

CONSTANTS r1, r2

\* The windows of the code in proportion: totals are kept longer inside than
\* outside, records and addresses only outside, most records for long.
MCTTL == [k \in CacheKey |-> IF k \in StatsKey \cup {"cluster"} THEN 2 ELSE 0]
MCMaxAge ==
  [k \in CacheKey |-> CASE k = "totals" -> 1
                        [] k \in RecordKey \ {"bounty", "contract"} -> 3
                        [] OTHER -> 2]

\* Two blocks for the keys that look at the head, two versions of the records
\* that change.
MCMaxRows ==
  [k \in CacheKey |-> IF k \in LagKey \cup (RecordKey \ {"attestation"})
                      THEN 2 ELSE 1]

MCSymmetry == Permutations(Handler)
=============================================================================
