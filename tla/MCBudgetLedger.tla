--------------------------- MODULE MCBudgetLedger ---------------------------
(* Two clients share a GPU tier of three bytes, one of them migration reserve, *)
(* and a host tier of one; a word holds no more than four.                     *)
EXTENDS BudgetLedger, TLC

CONSTANTS c1, c2

MCClients == {c1, c2}
MCHardLimit == [t \in Tiers |-> IF t = "gpu" THEN 3 ELSE 1]
MCMigrationReserve == [t \in Tiers |-> IF t = "gpu" THEN 1 ELSE 0]
MCAmounts == 1 .. 2

Req(t, b, n, a) == [tier |-> t, bucket |-> b, amount |-> n, admission |-> a]

\* An initial allocation; a migration to the GPU tier with workspace and compaction
\* target; a migration to the host tier.
MCRequestBatches ==
  { <<Req("gpu", "staging", 2, "normal")>>,
    <<Req("gpu", "staging", 1, "migration_temporary"),
      Req("gpu", "workspace", 1, "migration_temporary"),
      Req("gpu", "workspace", 1, "migration_temporary")>>,
    <<Req("host", "staging", 1, "migration_temporary")>> }

Symmetry == Permutations(MCClients)
=============================================================================
