-------------------------- MODULE BudgetLedgerOps --------------------------
(***************************************************************************)
(* The arithmetic of BudgetLedger (src/core/budget_ledger.cpp): the        *)
(* counters of one ledger and what each operation does to them.  Every     *)
(* operation is a pair: a condition XxxOk under which the code succeeds,   *)
(* and the counters Xxx it leaves behind.  When the condition is false the *)
(* code returns an error before it writes anything.                        *)
(*                                                                         *)
(* This module has no variables: BudgetLedger makes a state machine of it, *)
(* Transaction and the modules above it use it as their ledger.            *)
(***************************************************************************)
EXTENDS Integers, Sequences

CONSTANTS
  HardLimit,        \* [Tiers -> Nat]: TierBudget::hard_limit
  MigrationReserve, \* [Tiers -> Nat]: TierBudget::migration_reserve
  MaxWord           \* the largest value of the counters' integer type

Tiers == {"gpu", "host"}
Buckets == {"staging", "workspace"}
Admissions == {"normal", "migration_temporary"}

\* validate_tier: the reserve lies inside the hard limit, and both are words.
ASSUME BudgetAssumption ==
  /\ MaxWord \in Nat
  /\ HardLimit \in [Tiers -> 0 .. MaxWord]
  /\ MigrationReserve \in [Tiers -> 0 .. MaxWord]
  /\ \A t \in Tiers : MigrationReserve[t] <= HardLimit[t]

\* BudgetLedger::Counters
Word == 0 .. MaxWord

Counters == [committed : Word, reserved : Word, staging : Word, workspace : Word,
             cleanup_debt : Word, peak_charged : Word, admission_blocked : BOOLEAN]

Ledgers == [Tiers -> Counters]

EmptyCounters == [committed |-> 0, reserved |-> 0, staging |-> 0, workspace |-> 0,
                  cleanup_debt |-> 0, peak_charged |-> 0, admission_blocked |-> FALSE]

ReservationRequests == [tier : Tiers, bucket : Buckets, amount : Word, admission : Admissions]

(***************************************************************************)
(* total, and the limits it is compared with.  Fits is the success         *)
(* condition of checked_add.                                               *)
(***************************************************************************)
Fits(n) == n <= MaxWord

Total(c) == c.committed + c.reserved + c.staging + c.workspace + c.cleanup_debt

NormalLimit(t) == HardLimit[t] - MigrationReserve[t]

\* update_peak: an overflowing total leaves the peak alone.
UpdatePeak(c) ==
  [c EXCEPT !.peak_charged = IF Fits(Total(c)) /\ Total(c) > @ THEN Total(c) ELSE @]

(***************************************************************************)
(* reserve: all requests are admitted in one critical section or none is.  *)
(* Callers pass one request (an initial allocation), two or three          *)
(* (destination, workspace and compaction target of a migration).          *)
(***************************************************************************)
AmountAt(reqs, i, t) ==
  IF i <= Len(reqs) THEN (IF reqs[i].tier = t THEN reqs[i].amount ELSE 0) ELSE 0

NormalAmountAt(reqs, i, t) ==
  IF i <= Len(reqs)
  THEN (IF reqs[i].tier = t /\ reqs[i].admission = "normal" THEN reqs[i].amount ELSE 0)
  ELSE 0

Requested(reqs, t) == AmountAt(reqs, 1, t) + AmountAt(reqs, 2, t) + AmountAt(reqs, 3, t)

NormalRequested(reqs, t) ==
  NormalAmountAt(reqs, 1, t) + NormalAmountAt(reqs, 2, t) + NormalAmountAt(reqs, 3, t)

HasTemporary(reqs, t) ==
  \E i \in 1 .. Len(reqs) : reqs[i].tier = t /\ reqs[i].admission = "migration_temporary"

\* Mutant: the migration reserve is forgotten and any request may use the whole hard limit
\* on top of what is charged outside the reservations.
ReserveTierOk_IgnoresReserved(c, reqs, t) ==
  /\ ~c.admission_blocked
  /\ Total(c) - c.reserved + Requested(reqs, t) <= HardLimit[t]

\* Mutant: a tier with contract debt is not closed to admission.
ReserveTierOk_IgnoresBlock(c, reqs, t) ==
  /\ Fits(Total(c) + Requested(reqs, t))
  /\ Total(c) + Requested(reqs, t) <= NormalLimit(t)

ReserveTierOk(c, reqs, t) ==
  /\ ~c.admission_blocked
  /\ Fits(Total(c) + Requested(reqs, t))
  /\ Total(c) + Requested(reqs, t) <=
       (IF HasTemporary(reqs, t) THEN HardLimit[t] ELSE NormalLimit(t))
  /\ NormalRequested(reqs, t) # 0 => Total(c) + NormalRequested(reqs, t) <= NormalLimit(t)

ReserveOk(led, reqs) ==
  /\ Len(reqs) \in 1 .. 3
  /\ \A i \in 1 .. Len(reqs) : reqs[i].amount # 0
  /\ \A t \in Tiers : Requested(reqs, t) # 0 => ReserveTierOk(led[t], reqs, t)

\* Mutant: a reservation does not count towards the peak.
Reserve_NoPeak(led, reqs) ==
  [t \in Tiers |-> [led[t] EXCEPT !.reserved = @ + Requested(reqs, t)]]

Reserve(led, reqs) ==
  [t \in Tiers |->
     IF Requested(reqs, t) = 0 THEN led[t]
     ELSE UpdatePeak([led[t] EXCEPT !.reserved = @ + Requested(reqs, t)])]

(***************************************************************************)
(* Tokens.  A token is the caller's claim on reserved bytes.               *)
(***************************************************************************)
InactiveToken == [active |-> FALSE, tier |-> "gpu", bucket |-> "staging", remaining |-> 0]

ReservationTokens == [active : BOOLEAN, tier : Tiers, bucket : Buckets, remaining : Word]

TokenFor(req) ==
  [active |-> TRUE, tier |-> req.tier, bucket |-> req.bucket, remaining |-> req.amount]

\* What a token claims of a tier's reserved bytes.
Claim(token, t) == IF token.active /\ token.tier = t THEN token.remaining ELSE 0

\* Adding to the bucket a charge is kept in, by name.
AddTo(c, bucket, amount) ==
  IF bucket = "staging" THEN [c EXCEPT !.staging = @ + amount]
                        ELSE [c EXCEPT !.workspace = @ + amount]

InBucket(c, bucket) == IF bucket = "staging" THEN c.staging ELSE c.workspace

MaterializeOk(led, token, exact) ==
  /\ token.active
  /\ exact # 0
  /\ exact <= token.remaining
  /\ Fits(InBucket(led[token.tier], token.bucket) + exact)
  /\ exact <= led[token.tier].reserved

\* Mutant: materialize books the exact charge but keeps the whole reservation.
Materialize_KeepsReserved(led, token, exact) ==
  [led EXCEPT ![token.tier] = AddTo(@, token.bucket, exact)]

Materialize(led, token, exact) ==
  [led EXCEPT ![token.tier] =
     UpdatePeak(AddTo([led[token.tier] EXCEPT !.reserved = @ - exact],
                      token.bucket, exact))]

MaterializedToken(token, exact) == [token EXCEPT !.remaining = @ - exact]

ReleaseReservationOk(led, token) ==
  token.active /\ token.remaining <= led[token.tier].reserved

ReleaseReservation(led, token) ==
  [led EXCEPT ![token.tier] = [led[token.tier] EXCEPT !.reserved = @ - token.remaining]]

RecordContractDebtOk(led, token, actual) ==
  /\ token.active
  /\ token.remaining <= led[token.tier].reserved
  /\ Fits(led[token.tier].cleanup_debt + actual)

RecordContractDebt(led, token, actual) ==
  [led EXCEPT ![token.tier] =
     UpdatePeak([led[token.tier] EXCEPT !.reserved = @ - token.remaining,
                                        !.cleanup_debt = @ + actual,
                                        !.admission_blocked = TRUE])]

(***************************************************************************)
(* Movements between the materialized buckets.                             *)
(***************************************************************************)
CommitInitialOk(led, t, amount) ==
  amount <= led[t].staging /\ Fits(led[t].committed + amount)

CommitInitial(led, t, amount) ==
  [led EXCEPT ![t] = [led[t] EXCEPT !.staging = @ - amount, !.committed = @ + amount]]

RetireCommittedOk(led, t, amount) ==
  amount <= led[t].committed /\ Fits(led[t].cleanup_debt + amount)

RetireCommitted(led, t, amount) ==
  [led EXCEPT ![t] = [led[t] EXCEPT !.committed = @ - amount, !.cleanup_debt = @ + amount]]

CommitAndRetireOk(led, dt, damount, st, samount) ==
  /\ damount <= led[dt].staging
  /\ samount <= led[st].committed
  /\ Fits(led[dt].committed + damount)
  /\ Fits(led[st].cleanup_debt + samount)

\* The destination's sum is computed before the source is subtracted, so the
\* two updates also compose when source and destination share a tier.
CommitAndRetire(led, dt, damount, st, samount) ==
  RetireCommitted(CommitInitial(led, dt, damount), st, samount)

ReleaseMaterializedOk(led, t, bucket, amount) == amount <= InBucket(led[t], bucket)

ReleaseMaterialized(led, t, bucket, amount) == [led EXCEPT ![t] = AddTo(@, bucket, -amount)]

ShrinkMaterializedOk(led, t, bucket, old, new) == new <= old /\ old <= InBucket(led[t], bucket)

ShrinkMaterialized(led, t, bucket, old, new) == [led EXCEPT ![t] = AddTo(@, bucket, new - old)]

ExchangeCompactionOk(led, t, old, exact) ==
  /\ exact # 0 /\ exact <= old
  /\ old <= led[t].staging /\ exact <= led[t].workspace
  /\ Fits(led[t].workspace + (old - exact))

\* Mutant: the exchange forgets to charge the workspace for the old backing.
ExchangeCompaction_DropsOldBacking(led, t, old, exact) ==
  [led EXCEPT ![t].staging = @ - (old - exact)]

ExchangeCompaction(led, t, old, exact) ==
  [led EXCEPT ![t] = [led[t] EXCEPT !.staging = @ - (old - exact),
                                !.workspace = @ + (old - exact)]]

MoveToDebtOk(led, t, bucket, amount) ==
  amount <= InBucket(led[t], bucket) /\ Fits(led[t].cleanup_debt + amount)

MoveToDebt(led, t, bucket, amount) ==
  [led EXCEPT ![t] = [AddTo(led[t], bucket, -amount) EXCEPT !.cleanup_debt = @ + amount]]

\* Mutant: the debt is subtracted without the underflow test.
ReleaseCleanupDebtOk_Unchecked(led, t, amount) == TRUE

ReleaseCleanupDebtOk(led, t, amount) == amount <= led[t].cleanup_debt

ReleaseCleanupDebt(led, t, amount) == [led EXCEPT ![t] = [led[t] EXCEPT !.cleanup_debt = @ - amount]]

(***************************************************************************)
(* validate_migration_projection: both tiers, with the source already gone *)
(* and the destination already committed, stay out of the migration        *)
(* reserve.  A disabled tier (hard limit 0) must stay empty.               *)
(***************************************************************************)
Projected(led, t, dt, damount, st, samount) ==
  Total(led[t]) - (IF t = st THEN samount ELSE 0) + (IF t = dt THEN damount ELSE 0)

ProjectionOk(led, dt, damount, st, samount) ==
  /\ \A t \in Tiers : Fits(Total(led[t]))
  /\ samount <= Total(led[st])
  /\ Fits(Projected(led, dt, dt, damount, st, samount))
  /\ \A t \in Tiers :
       Projected(led, t, dt, damount, st, samount) <=
         (IF HardLimit[t] = 0 THEN 0 ELSE NormalLimit(t))
=============================================================================
