---------------------------- MODULE LedgerLemmas ----------------------------
(***************************************************************************)
(* What the operations of BudgetLedgerOps do to good counters, for every   *)
(* pair of tier budgets and every word size.                               *)
(*                                                                         *)
(* An operation changes the counters of one tier, or of two (reserve,      *)
(* commit_destination_and_retire_source).  So the argument is about a      *)
(* single Counters record: one lemma per operation says that a good record *)
(* is replaced by a good record.  BudgetLedgerProofs and the modules about *)
(* transactions, which use the same ledger, cite them.                     *)
(***************************************************************************)
EXTENDS BudgetLedgerOps, Functions, FiniteSetTheorems, WellFoundedInduction, TLAPS

\* A good tier: words, and both bounds on the charge.
Good(c, t) ==
  /\ c \in Counters
  /\ ~c.admission_blocked => Total(c) <= HardLimit[t] /\ Total(c) <= c.peak_charged

GoodLedger(led) == led \in Ledgers /\ \A t \in Tiers : Good(led[t], t)

\* update_peak of good buckets: the peak ends up covering the charge.
LEMMA UpdatePeakGood ==
  ASSUME NEW t \in Tiers, NEW c \in Counters,
         ~c.admission_blocked => Total(c) <= HardLimit[t]
  PROVE  Good(UpdatePeak(c), t)
<1> USE BudgetAssumption DEF Word, Counters, Total, Fits
<1>1. HardLimit[t] \in 0 .. MaxWord
  BY DEF BudgetAssumption
<1>2. PICK p \in Word : UpdatePeak(c) = [c EXCEPT !.peak_charged = p]
                        /\ (Fits(Total(c)) => p >= Total(c))
  BY DEF UpdatePeak
<1>3. QED
  BY <1>1, <1>2 DEF Good

\* reserve on one tier: admission keeps the charge within the hard limit.
LEMMA ReserveGood ==
  ASSUME NEW t \in Tiers, NEW c, Good(c, t), NEW reqs \in Seq(ReservationRequests),
         ReserveTierOk(c, reqs, t)
  PROVE  Good(UpdatePeak([c EXCEPT !.reserved = @ + Requested(reqs, t)]), t)
<1>1. HardLimit[t] \in 0 .. MaxWord /\ MigrationReserve[t] \in 0 .. MaxWord
      /\ MaxWord \in Nat
  BY BudgetAssumption DEF BudgetAssumption
<1>2. ASSUME NEW i \in 1 .. 3 PROVE AmountAt(reqs, i, t) \in Nat
  <2>1. i <= Len(reqs) => reqs[i] \in ReservationRequests
    OBVIOUS
  <2>2. QED
    BY <1>1, <2>1 DEF AmountAt, ReservationRequests, Word
<1>3. Requested(reqs, t) \in Nat
  BY <1>2 DEF Requested
<1> DEFINE d == [c EXCEPT !.reserved = @ + Requested(reqs, t)]
<1>4. Total(c) + Requested(reqs, t) <= HardLimit[t]
  <2>1. Total(c) \in Int
    BY <1>1 DEF Good, Counters, Word, Total
  <2>2. \/ Total(c) + Requested(reqs, t) <= HardLimit[t]
        \/ Total(c) + Requested(reqs, t) <= HardLimit[t] - MigrationReserve[t]
    BY DEF ReserveTierOk, NormalLimit
  <2>3. QED
    BY <1>1, <1>3, <2>1, <2>2
<1>5. d \in Counters /\ Total(d) <= HardLimit[t]
  <2>1. c \in Counters
    BY DEF Good
  <2>2. c.reserved + Requested(reqs, t) \in Word
    <3>1. /\ c.committed \in Nat /\ c.reserved \in Nat /\ c.staging \in Nat
          /\ c.workspace \in Nat /\ c.cleanup_debt \in Nat
      BY <1>1, <2>1 DEF Counters, Word
    <3>2. c.reserved + Requested(reqs, t) <= HardLimit[t]
      <4> DEFINE r == Requested(reqs, t)
      <4>1. r \in Nat /\ Total(c) + r <= HardLimit[t] /\ HardLimit[t] \in Nat
        BY <1>1, <1>3, <1>4
      <4>2. Total(c) = c.committed + c.reserved + c.staging + c.workspace + c.cleanup_debt
        BY DEF Total
      <4> HIDE DEF r
      <4>3. c.reserved + r <= HardLimit[t]
        BY <3>1, <4>1, <4>2
      <4>4. QED
        BY <4>3 DEF r
    <3>3. QED
      BY <1>1, <1>3, <3>1, <3>2 DEF Word
  <2>3. d \in Counters
    BY <2>1, <2>2 DEF Counters
  <2>4. Total(d) = Total(c) + Requested(reqs, t)
    BY <1>1, <1>3, <2>1 DEF Counters, Word, Total
  <2>5. QED
    BY <1>4, <2>3, <2>4
<1>6. QED
  BY <1>5, UpdatePeakGood

\* An operation that moves charge between buckets or drops it, and leaves the
\* peak and the block alone, keeps the record good.
LEMMA NoGrowthGood ==
  ASSUME NEW t \in Tiers, NEW c, Good(c, t), NEW d \in Counters,
         d.admission_blocked = c.admission_blocked, d.peak_charged = c.peak_charged,
         Total(d) <= Total(c)
  PROVE  Good(d, t)
<1>1. HardLimit[t] \in Nat /\ MaxWord \in Nat
  BY BudgetAssumption DEF BudgetAssumption
<1>2. QED
  BY <1>1 DEF Good, Counters, Word, Total

\* add_to and subtract_from on one bucket, whichever bucket it is.
LEMMA AddToFields ==
  ASSUME NEW c \in Counters, NEW b \in Buckets, NEW n \in Int,
         InBucket(c, b) + n \in Word
  PROVE  /\ AddTo(c, b, n) \in Counters
         /\ Total(AddTo(c, b, n)) = Total(c) + n
         /\ AddTo(c, b, n).admission_blocked = c.admission_blocked
         /\ AddTo(c, b, n).peak_charged = c.peak_charged
         /\ AddTo(c, b, n).cleanup_debt = c.cleanup_debt
<1>1. MaxWord \in Nat
  BY BudgetAssumption DEF BudgetAssumption
<1>2. CASE b = "staging"
  BY <1>1, <1>2 DEF AddTo, InBucket, Counters, Total, Word
<1>3. CASE b = "workspace"
  BY <1>1, <1>3 DEF AddTo, InBucket, Counters, Total, Word
<1>4. QED
  BY <1>2, <1>3 DEF Buckets

\* materialize on one tier.
LEMMA MaterializeGood ==
  ASSUME NEW t \in Tiers, NEW c, Good(c, t), NEW b \in Buckets, NEW n \in Word,
         n <= c.reserved, Fits(InBucket(c, b) + n)
  PROVE  Good(UpdatePeak(AddTo([c EXCEPT !.reserved = @ - n], b, n)), t)
<1>1. MaxWord \in Nat /\ HardLimit[t] \in Nat /\ c \in Counters
  BY BudgetAssumption DEF BudgetAssumption, Good
<1> DEFINE d == [c EXCEPT !.reserved = @ - n]
<1>2. d \in Counters /\ Total(d) = Total(c) - n /\ InBucket(d, b) = InBucket(c, b)
      /\ d.admission_blocked = c.admission_blocked
  BY <1>1 DEF Counters, Word, Total, InBucket
<1>3. InBucket(d, b) + n \in Word
  BY <1>1, <1>2 DEF Counters, Word, InBucket, Fits, Buckets
<1> HIDE DEF d
<1>4. /\ AddTo(d, b, n) \in Counters
      /\ Total(AddTo(d, b, n)) = Total(d) + n
      /\ AddTo(d, b, n).admission_blocked = d.admission_blocked
  BY <1>1, <1>2, <1>3, AddToFields DEF Word
<1>5. Total(c) \in Int
  BY <1>1 DEF Counters, Word, Total
<1>6. Total(AddTo(d, b, n)) = Total(c)
  BY <1>2, <1>4, <1>5 DEF Word
<1>7. Good(UpdatePeak(AddTo(d, b, n)), t)
  BY <1>1, <1>2, <1>4, <1>6, UpdatePeakGood DEF Good
<1>8. QED
  BY <1>7 DEF d

\* record_contract_debt on one tier: the charge may grow, but the tier is blocked.
LEMMA ContractDebtGood ==
  ASSUME NEW t \in Tiers, NEW c, Good(c, t), NEW r \in Word, r <= c.reserved,
         NEW n \in Word, Fits(c.cleanup_debt + n)
  PROVE  Good(UpdatePeak([c EXCEPT !.reserved = @ - r, !.cleanup_debt = @ + n,
                                   !.admission_blocked = TRUE]), t)
<1>1. MaxWord \in Nat /\ c \in Counters
  BY BudgetAssumption DEF BudgetAssumption, Good
<1> DEFINE d == [c EXCEPT !.reserved = @ - r, !.cleanup_debt = @ + n,
                          !.admission_blocked = TRUE]
<1>2. d \in Counters /\ d.admission_blocked
  <2>1. c.reserved - r \in Word /\ c.cleanup_debt + n \in Word
    BY <1>1 DEF Counters, Word, Fits
  <2>2. d \in Counters
    BY <1>1, <2>1 DEF Counters
  <2>3. d.admission_blocked
    BY <1>1 DEF Counters
  <2>4. QED
    BY <2>2, <2>3
<1>3. QED
  BY <1>2, UpdatePeakGood


\* Replacing one tier's counters by good ones.
LEMMA UpdateTier ==
  ASSUME NEW led \in Ledgers, \A u \in Tiers : Good(led[u], u),
         NEW t \in Tiers, NEW d, Good(d, t)
  PROVE  /\ [led EXCEPT ![t] = d] \in Ledgers
         /\ \A u \in Tiers : Good([led EXCEPT ![t] = d][u], u)
BY DEF Ledgers, Good

\* Every move between buckets, one tier at a time.
LEMMA MovesGood ==
  ASSUME NEW led, GoodLedger(led), NEW t \in Tiers, NEW b \in Buckets,
         NEW m \in Word, NEW n \in Word
  PROVE  /\ CommitInitialOk(led, t, n) => GoodLedger(CommitInitial(led, t, n))
         /\ ReleaseMaterializedOk(led, t, b, n) => GoodLedger(ReleaseMaterialized(led, t, b, n))
         /\ ShrinkMaterializedOk(led, t, b, m, n) =>
              GoodLedger(ShrinkMaterialized(led, t, b, m, n))
         /\ ExchangeCompactionOk(led, t, m, n) => GoodLedger(ExchangeCompaction(led, t, m, n))
         /\ MoveToDebtOk(led, t, b, n) => GoodLedger(MoveToDebt(led, t, b, n))
         /\ RetireCommittedOk(led, t, n) => GoodLedger(RetireCommitted(led, t, n))
         /\ ReleaseCleanupDebtOk(led, t, n) => GoodLedger(ReleaseCleanupDebt(led, t, n))
<1> DEFINE c == led[t]
<1>0. MaxWord \in Nat
  BY BudgetAssumption DEF BudgetAssumption
<1>1. c \in Counters /\ Good(c, t) /\ led \in Ledgers /\ \A u \in Tiers : Good(led[u], u)
  BY DEF GoodLedger, Good
<1>2. ASSUME NEW d \in Counters, d.admission_blocked = c.admission_blocked,
             d.peak_charged = c.peak_charged, Total(d) <= Total(c)
      PROVE  GoodLedger([led EXCEPT ![t] = d])
  <2>1. Good(d, t)
    BY <1>1, <1>2, NoGrowthGood
  <2>2. QED
    BY <1>1, <2>1, UpdateTier DEF GoodLedger
<1>3. ASSUME CommitInitialOk(led, t, n) PROVE GoodLedger(CommitInitial(led, t, n))
  <2> DEFINE d == [c EXCEPT !.staging = @ - n, !.committed = @ + n]
  <2>1. c.staging - n \in Word /\ c.committed + n \in Word
    BY <1>0, <1>1, <1>3 DEF CommitInitialOk, Counters, Word, Fits
  <2>2. d \in Counters /\ d.peak_charged = c.peak_charged
        /\ d.admission_blocked = c.admission_blocked
    BY <1>1, <2>1 DEF Counters
  <2>3. Total(d) <= Total(c)
    BY <1>0, <1>1 DEF Counters, Word, Total
  <2>4. CommitInitial(led, t, n) = [led EXCEPT ![t] = d]
    BY DEF CommitInitial
  <2> HIDE DEF d
  <2>5. QED
    BY <1>2, <2>2, <2>3, <2>4
<1>4. ASSUME ReleaseMaterializedOk(led, t, b, n)
      PROVE  GoodLedger(ReleaseMaterialized(led, t, b, n))
  <2>1. InBucket(c, b) + (-n) \in Word
    BY <1>0, <1>1, <1>4 DEF ReleaseMaterializedOk, InBucket, Counters, Word, Buckets
  <2>2. /\ AddTo(c, b, -n) \in Counters
        /\ Total(AddTo(c, b, -n)) = Total(c) + (-n)
        /\ AddTo(c, b, -n).admission_blocked = c.admission_blocked
        /\ AddTo(c, b, -n).peak_charged = c.peak_charged
    BY <1>1, <2>1, AddToFields DEF Word
  <2>3. Total(c) + (-n) <= Total(c)
    BY <1>0, <1>1 DEF Counters, Total, Word
  <2>4. QED
    BY <1>2, <2>2, <2>3 DEF ReleaseMaterialized
<1>5. ASSUME ShrinkMaterializedOk(led, t, b, m, n)
      PROVE  GoodLedger(ShrinkMaterialized(led, t, b, m, n))
  <2>1. InBucket(c, b) + (n - m) \in Word /\ n - m \in Int
    BY <1>0, <1>1, <1>5 DEF ShrinkMaterializedOk, InBucket, Counters, Word, Buckets
  <2>2. /\ AddTo(c, b, n - m) \in Counters
        /\ Total(AddTo(c, b, n - m)) = Total(c) + (n - m)
        /\ AddTo(c, b, n - m).admission_blocked = c.admission_blocked
        /\ AddTo(c, b, n - m).peak_charged = c.peak_charged
    BY <1>1, <2>1, AddToFields
  <2>3. Total(c) + (n - m) <= Total(c)
    BY <1>0, <1>1, <1>5 DEF Counters, Total, Word, ShrinkMaterializedOk
  <2>4. QED
    BY <1>2, <2>2, <2>3 DEF ShrinkMaterialized
<1>6. ASSUME ExchangeCompactionOk(led, t, m, n)
      PROVE  GoodLedger(ExchangeCompaction(led, t, m, n))
  <2> DEFINE d == [c EXCEPT !.staging = @ - (m - n), !.workspace = @ + (m - n)]
  <2>1. c.staging - (m - n) \in Word /\ c.workspace + (m - n) \in Word
    BY <1>0, <1>1, <1>6 DEF ExchangeCompactionOk, Counters, Word, Fits
  <2>2. d \in Counters /\ d.peak_charged = c.peak_charged
        /\ d.admission_blocked = c.admission_blocked
    BY <1>1, <2>1 DEF Counters
  <2>3. Total(d) = Total(c)
    BY <1>0, <1>1 DEF Counters, Word, Total
  <2>4. Total(d) <= Total(c)
    BY <1>0, <1>1, <2>3 DEF Counters, Word, Total
  <2>5. ExchangeCompaction(led, t, m, n) = [led EXCEPT ![t] = d]
    BY DEF ExchangeCompaction
  <2> HIDE DEF d
  <2>6. QED
    BY <1>2, <2>2, <2>4, <2>5
<1>7. ASSUME MoveToDebtOk(led, t, b, n) PROVE GoodLedger(MoveToDebt(led, t, b, n))
  <2> DEFINE e == AddTo(c, b, -n)
             d == [e EXCEPT !.cleanup_debt = @ + n]
  <2>1. InBucket(c, b) + (-n) \in Word
    BY <1>0, <1>1, <1>7 DEF MoveToDebtOk, InBucket, Counters, Word, Buckets
  <2>2. /\ e \in Counters /\ Total(e) = Total(c) + (-n)
        /\ e.admission_blocked = c.admission_blocked
        /\ e.peak_charged = c.peak_charged /\ e.cleanup_debt = c.cleanup_debt
    BY <1>1, <2>1, AddToFields DEF Word
  <2>3. e.cleanup_debt + n \in Word
    BY <1>0, <1>1, <1>7, <2>2 DEF MoveToDebtOk, Counters, Word, Fits
  <2> HIDE DEF e
  <2>4. d \in Counters /\ d.peak_charged = c.peak_charged
        /\ d.admission_blocked = c.admission_blocked
    BY <2>2, <2>3 DEF Counters
  <2>5. Total(d) = Total(e) + n
    BY <1>0, <2>2 DEF Counters, Word, Total
  <2>6. Total(d) <= Total(c)
    BY <1>0, <1>1, <2>2, <2>5 DEF Counters, Word, Total
  <2>7. GoodLedger([led EXCEPT ![t] = d])
    BY <1>2, <2>4, <2>6
  <2>8. MoveToDebt(led, t, b, n) = [led EXCEPT ![t] = d]
    BY DEF MoveToDebt, e
  <2>9. QED
    BY <2>7, <2>8
<1>8. ASSUME RetireCommittedOk(led, t, n) PROVE GoodLedger(RetireCommitted(led, t, n))
  <2> DEFINE d == [c EXCEPT !.committed = @ - n, !.cleanup_debt = @ + n]
  <2>1. c.committed - n \in Word /\ c.cleanup_debt + n \in Word
    BY <1>0, <1>1, <1>8 DEF RetireCommittedOk, Counters, Word, Fits
  <2>2. d \in Counters /\ d.peak_charged = c.peak_charged
        /\ d.admission_blocked = c.admission_blocked
    BY <1>1, <2>1 DEF Counters
  <2>3. Total(d) <= Total(c)
    BY <1>0, <1>1 DEF Counters, Word, Total
  <2>4. RetireCommitted(led, t, n) = [led EXCEPT ![t] = d]
    BY DEF RetireCommitted
  <2> HIDE DEF d
  <2>5. QED
    BY <1>2, <2>2, <2>3, <2>4
<1>9. ASSUME ReleaseCleanupDebtOk(led, t, n) PROVE GoodLedger(ReleaseCleanupDebt(led, t, n))
  <2> DEFINE d == [c EXCEPT !.cleanup_debt = @ - n]
  <2>1. d \in Counters /\ Total(d) <= Total(c) /\ d.peak_charged = c.peak_charged
        /\ d.admission_blocked = c.admission_blocked
    BY <1>0, <1>1, <1>9 DEF ReleaseCleanupDebtOk, Counters, Word, Total
  <2>2. ReleaseCleanupDebt(led, t, n) = [led EXCEPT ![t] = d]
    BY DEF ReleaseCleanupDebt
  <2> HIDE DEF d
  <2>3. QED
    BY <1>2, <2>1, <2>2
<1>10. QED
  BY <1>3, <1>4, <1>5, <1>6, <1>7, <1>8, <1>9

\* The combined commit is the two moves one after the other, also when both are
\* on the same tier.
LEMMA CommitAndRetireGood ==
  ASSUME NEW led, GoodLedger(led), NEW dt \in Tiers, NEW st \in Tiers,
         NEW m \in Word, NEW n \in Word, CommitAndRetireOk(led, dt, m, st, n)
  PROVE  GoodLedger(CommitAndRetire(led, dt, m, st, n))
<1>0. MaxWord \in Nat
  BY BudgetAssumption DEF BudgetAssumption
<1> DEFINE mid == CommitInitial(led, dt, m)
<1>1. CommitInitialOk(led, dt, m)
  BY DEF CommitAndRetireOk, CommitInitialOk
<1>2. GoodLedger(mid)
  BY <1>1, MovesGood DEF Buckets
<1>3. RetireCommittedOk(mid, st, n)
  <2>1. led[dt] \in Counters /\ led[st] \in Counters /\ led \in Ledgers
    BY DEF GoodLedger, Good
  <2>2. mid[st].cleanup_debt = led[st].cleanup_debt /\ mid[st].committed >= led[st].committed
    <3>1. CASE st = dt
      BY <1>0, <2>1, <3>1 DEF CommitInitial, Ledgers, Counters, Word
    <3>2. CASE st # dt
      BY <1>0, <2>1, <3>2 DEF CommitInitial, Ledgers, Counters, Word
    <3>3. QED
      BY <3>1, <3>2
  <2>3. mid[st].committed \in Int
    BY <1>0, <1>2 DEF GoodLedger, Good, Counters, Word
  <2> HIDE DEF mid
  <2>4. QED
    BY <1>0, <2>1, <2>2, <2>3 DEF RetireCommittedOk, CommitAndRetireOk, Counters, Word
<1> HIDE DEF mid
<1>4. GoodLedger(RetireCommitted(mid, st, n))
  BY <1>2, <1>3, MovesGood DEF Buckets
<1>5. QED
  BY <1>4 DEF CommitAndRetire, mid

\* The four operations on tokens keep the ledger good.
LEMMA TokenOpsGood ==
  ASSUME NEW led, GoodLedger(led), NEW tok \in ReservationTokens, NEW n \in Word
  PROVE  /\ MaterializeOk(led, tok, n) => GoodLedger(Materialize(led, tok, n))
         /\ ReleaseReservationOk(led, tok) => GoodLedger(ReleaseReservation(led, tok))
         /\ RecordContractDebtOk(led, tok, n) => GoodLedger(RecordContractDebt(led, tok, n))
<1> DEFINE t == tok.tier
           c == led[t]
<1>0. MaxWord \in Nat
  BY BudgetAssumption DEF BudgetAssumption
<1>1. t \in Tiers /\ tok.bucket \in Buckets /\ tok.remaining \in Word
  BY DEF ReservationTokens
<1>2. c \in Counters /\ Good(c, t) /\ led \in Ledgers /\ \A u \in Tiers : Good(led[u], u)
  BY <1>1 DEF GoodLedger, Good
<1>3. ASSUME NEW d, Good(d, t) PROVE GoodLedger([led EXCEPT ![t] = d])
  BY <1>1, <1>2, <1>3, UpdateTier DEF GoodLedger
<1>4. ASSUME MaterializeOk(led, tok, n) PROVE GoodLedger(Materialize(led, tok, n))
  <2>1. Good(UpdatePeak(AddTo([c EXCEPT !.reserved = @ - n], tok.bucket, n)), t)
    BY <1>1, <1>2, <1>4, MaterializeGood DEF MaterializeOk
  <2>2. QED
    BY <1>3, <2>1 DEF Materialize
<1>5. ASSUME ReleaseReservationOk(led, tok) PROVE GoodLedger(ReleaseReservation(led, tok))
  <2> DEFINE d == [c EXCEPT !.reserved = @ - tok.remaining]
  <2>1. d \in Counters /\ Total(d) <= Total(c) /\ d.peak_charged = c.peak_charged
        /\ d.admission_blocked = c.admission_blocked
    BY <1>0, <1>1, <1>2, <1>5 DEF ReleaseReservationOk, Counters, Word, Total
  <2>2. Good(d, t)
    BY <1>1, <1>2, <2>1, NoGrowthGood
  <2>3. QED
    BY <1>3, <2>2 DEF ReleaseReservation
<1>6. ASSUME RecordContractDebtOk(led, tok, n)
      PROVE  GoodLedger(RecordContractDebt(led, tok, n))
  <2>1. Good(UpdatePeak([c EXCEPT !.reserved = @ - tok.remaining, !.cleanup_debt = @ + n,
                                  !.admission_blocked = TRUE]), t)
    BY <1>1, <1>2, <1>6, ContractDebtGood DEF RecordContractDebtOk
  <2>2. QED
    BY <1>3, <2>1 DEF RecordContractDebt
<1>7. QED
  BY <1>4, <1>5, <1>6

\* reserve, on both tiers at once.
LEMMA ReserveLedgerGood ==
  ASSUME NEW led, GoodLedger(led), NEW reqs \in Seq(ReservationRequests), ReserveOk(led, reqs)
  PROVE  GoodLedger(Reserve(led, reqs))
<1>1. ASSUME NEW t \in Tiers PROVE Good(Reserve(led, reqs)[t], t)
  <2>1. CASE Requested(reqs, t) = 0
    BY <2>1 DEF Reserve, GoodLedger
  <2>2. CASE Requested(reqs, t) # 0
    <3>1. ReserveTierOk(led[t], reqs, t) /\ Good(led[t], t)
      BY <2>2 DEF ReserveOk, GoodLedger
    <3>2. Good(UpdatePeak([led[t] EXCEPT !.reserved = @ + Requested(reqs, t)]), t)
      BY <3>1, ReserveGood
    <3>3. QED
      BY <2>2, <3>2 DEF Reserve
  <2>3. QED
    BY <2>1, <2>2
<1>2. Reserve(led, reqs) \in [Tiers -> Counters]
  BY <1>1 DEF Reserve, Good
<1>3. QED
  BY <1>1, <1>2 DEF GoodLedger, Ledgers

\* What a tier's block means for one step: it stays, and reserved cannot grow.
Blocked(c, d) == c.admission_blocked => d.admission_blocked /\ d.reserved <= c.reserved

\* On one record, no bucket update lifts the block or touches reserved.
LEMMA RecordsKeepBlock ==
  ASSUME NEW c \in Counters
  PROVE  /\ \A b \in Buckets, n \in Int : /\ AddTo(c, b, n).reserved = c.reserved
                                          /\ AddTo(c, b, n).admission_blocked = c.admission_blocked
         /\ UpdatePeak(c).reserved = c.reserved
         /\ UpdatePeak(c).admission_blocked = c.admission_blocked
BY DEF AddTo, UpdatePeak, Counters

\* The same for every operation of the ledger other than reserve.
LEMMA OpsKeepBlock ==
  ASSUME NEW led, GoodLedger(led), NEW t \in Tiers, NEW st \in Tiers, NEW b \in Buckets,
         NEW m \in Word, NEW n \in Word, NEW tok \in ReservationTokens, NEW u \in Tiers
  PROVE  /\ MaterializeOk(led, tok, n) => Blocked(led[u], Materialize(led, tok, n)[u])
         /\ ReleaseReservationOk(led, tok) => Blocked(led[u], ReleaseReservation(led, tok)[u])
         /\ RecordContractDebtOk(led, tok, n) =>
              Blocked(led[u], RecordContractDebt(led, tok, n)[u])
         /\ Blocked(led[u], CommitInitial(led, t, n)[u])
         /\ Blocked(led[u], CommitAndRetire(led, t, m, st, n)[u])
         /\ Blocked(led[u], ReleaseMaterialized(led, t, b, n)[u])
         /\ Blocked(led[u], ShrinkMaterialized(led, t, b, m, n)[u])
         /\ Blocked(led[u], ExchangeCompaction(led, t, m, n)[u])
         /\ Blocked(led[u], MoveToDebt(led, t, b, n)[u])
         /\ Blocked(led[u], RetireCommitted(led, t, n)[u])
         /\ Blocked(led[u], ReleaseCleanupDebt(led, t, n)[u])
<1> USE DEF Blocked
<1>1. /\ MaxWord \in Nat /\ led \in [Tiers -> Counters]
      /\ tok.tier \in Tiers /\ tok.bucket \in Buckets /\ tok.remaining \in Word
      /\ \A v \in Tiers : led[v] \in Counters /\ led[v].reserved \in Nat
  BY BudgetAssumption DEF BudgetAssumption, GoodLedger, Ledgers, ReservationTokens, Counters, Word
<1>2. ASSUME MaterializeOk(led, tok, n) PROVE Blocked(led[u], Materialize(led, tok, n)[u])
  <2>0. tok.tier # u => Materialize(led, tok, n)[u] = led[u]
    BY <1>1 DEF Materialize
  <2> DEFINE d == [led[tok.tier] EXCEPT !.reserved = @ - n]
             e == AddTo(d, tok.bucket, n)
  <2>1. Materialize(led, tok, n)[tok.tier] = UpdatePeak(e)
    BY <1>1 DEF Materialize
  <2>2. d.reserved <= led[tok.tier].reserved
        /\ d.admission_blocked = led[tok.tier].admission_blocked
    BY <1>1, <1>2 DEF MaterializeOk, Counters, Word
  <2>3. e.reserved = d.reserved /\ e.admission_blocked = d.admission_blocked
    BY DEF AddTo
  <2>4. UpdatePeak(e).reserved = e.reserved
        /\ UpdatePeak(e).admission_blocked = e.admission_blocked
    BY DEF UpdatePeak
  <2> HIDE DEF d, e
  <2>5. QED
    BY <1>1, <2>0, <2>1, <2>2, <2>3, <2>4
<1>3. ASSUME ReleaseReservationOk(led, tok)
      PROVE  Blocked(led[u], ReleaseReservation(led, tok)[u])
  <2> DEFINE d == [led[tok.tier] EXCEPT !.reserved = @ - tok.remaining]
  <2>1. /\ tok.tier # u => ReleaseReservation(led, tok)[u] = led[u]
        /\ ReleaseReservation(led, tok)[tok.tier] = d
    BY <1>1 DEF ReleaseReservation
  <2>2. d.reserved <= led[tok.tier].reserved
        /\ d.admission_blocked = led[tok.tier].admission_blocked
    BY <1>1, <1>3 DEF ReleaseReservationOk, Counters, Word
  <2> HIDE DEF d
  <2>3. QED
    BY <1>1, <2>1, <2>2
<1>4. ASSUME RecordContractDebtOk(led, tok, n)
      PROVE  Blocked(led[u], RecordContractDebt(led, tok, n)[u])
  <2> DEFINE d == [led[tok.tier] EXCEPT !.reserved = @ - tok.remaining,
                                        !.cleanup_debt = @ + n, !.admission_blocked = TRUE]
  <2>1. /\ tok.tier # u => RecordContractDebt(led, tok, n)[u] = led[u]
        /\ RecordContractDebt(led, tok, n)[tok.tier] = UpdatePeak(d)
    BY <1>1 DEF RecordContractDebt
  <2>2. d.reserved <= led[tok.tier].reserved
    BY <1>1, <1>4 DEF RecordContractDebtOk, Counters, Word
  <2>3. d.admission_blocked = TRUE
    BY <1>1 DEF Counters
  <2>4. UpdatePeak(d).reserved = d.reserved
        /\ UpdatePeak(d).admission_blocked = d.admission_blocked
    BY DEF UpdatePeak
  <2> HIDE DEF d
  <2>5. QED
    BY <1>1, <2>1, <2>2, <2>3, <2>4
<1>5. /\ Blocked(led[u], CommitInitial(led, t, n)[u])
      /\ Blocked(led[u], ExchangeCompaction(led, t, m, n)[u])
      /\ Blocked(led[u], RetireCommitted(led, t, n)[u])
      /\ Blocked(led[u], ReleaseCleanupDebt(led, t, n)[u])
  BY <1>1 DEF CommitInitial, ExchangeCompaction, RetireCommitted, ReleaseCleanupDebt, Counters
<1>6. Blocked(led[u], CommitAndRetire(led, t, m, st, n)[u])
  <2> DEFINE mid == CommitInitial(led, t, m)
  <2>1. mid \in [Tiers -> {mid[v] : v \in Tiers}]
        /\ mid[u].reserved = led[u].reserved
        /\ mid[u].admission_blocked = led[u].admission_blocked
    BY <1>1 DEF CommitInitial, Counters
  <2> HIDE DEF mid
  <2>2. RetireCommitted(mid, st, n)[u].reserved = mid[u].reserved
        /\ RetireCommitted(mid, st, n)[u].admission_blocked = mid[u].admission_blocked
    BY <2>1 DEF RetireCommitted
  <2>3. QED
    BY <1>1, <2>1, <2>2 DEF CommitAndRetire, mid
<1>7. /\ Blocked(led[u], ReleaseMaterialized(led, t, b, n)[u])
      /\ Blocked(led[u], ShrinkMaterialized(led, t, b, m, n)[u])
      /\ Blocked(led[u], MoveToDebt(led, t, b, n)[u])
  BY <1>1 DEF ReleaseMaterialized, ShrinkMaterialized, MoveToDebt, AddTo, Counters
<1>8. QED
  BY <1>2, <1>3, <1>4, <1>5, <1>6, <1>7

(***************************************************************************)
(* Sums of the values of a function.  SumFunction is a fold, defined by    *)
(* recursion over subsets of its domain; adding up and counting units is   *)
(* the same (SumIsUnits), and what is needed of a sum is easy to see of    *)
(* the units.                                                              *)
(***************************************************************************)

\* A set of naturals has a least element.
LEMMA LeastOfNats ==
  ASSUME NEW T, T \subseteq Nat, T # {}
  PROVE  \E n \in T : \A m \in T : n <= m
<1>1. PICK n \in T : \A m \in T : ~ (<<m, n>> \in OpToRel(<, Nat))
  BY NatLessThanWellFounded, WFMin
<1>2. ASSUME NEW m \in T PROVE n <= m
  <2>1. <<m, n>> \in Nat \X Nat /\ <<m, n>> \notin OpToRel(<, Nat)
    BY <1>1
  <2>2. ~ (m < n)
    BY <2>1 DEF OpToRel
  <2>3. n \in Nat /\ m \in Nat
    OBVIOUS
  <2>4. QED
    BY <2>2, <2>3
<1>3. QED
  BY <1>2

\* The element the fold takes next.
Some(s) == CHOOSE x \in s : TRUE

\* g adds up f over the subsets of its domain, one element after the other.
Adds(g, f) ==
  g = [s \in SUBSET DOMAIN f |-> IF s = {} THEN 0 ELSE f[Some(s)] + g[s \ {Some(s)}]]

\* SumFunction is one such function, if there is any.
LEMMA SumIsFold == ASSUME NEW f PROVE SumFunction(f) = (CHOOSE g : Adds(g, f))[DOMAIN f]
BY DEF SumFunction, SumFunctionOnSet, FoldFunctionOnSet, MapThenFoldSet, Adds, Some

\* The units of f over s: as many pairs with first component x as f[x] says.
UnitsAt(f, x) == {<<x, i>> : i \in 1 .. f[x]}
Units(f, s) == UNION {UnitsAt(f, x) : x \in s}

\* At one x they are as many as f[x].
LEMMA UnitsOfOne ==
  ASSUME NEW f, NEW x, f[x] \in Nat
  PROVE  IsFiniteSet(UnitsAt(f, x)) /\ Cardinality(UnitsAt(f, x)) = f[x]
<1> DEFINE n == f[x]
           h == [i \in 1 .. n |-> <<x, i>>]
<1>1. h \in Bijection(1 .. n, UnitsAt(f, x))
  BY DEF Bijection, Injection, Surjection, IsInjective, UnitsAt
<1>2. IsFiniteSet(1 .. n) /\ Cardinality(1 .. n) = n
  BY FS_Interval
<1>3. QED
  BY <1>1, <1>2, FS_Bijection DEF ExistsBijection

\* The units over a finite set are finitely many ...
LEMMA UnitsFinite ==
  ASSUME NEW f, NEW s, IsFiniteSet(s), \A x \in s : f[x] \in Nat
  PROVE  IsFiniteSet(Units(f, s))
<1> DEFINE parts == {UnitsAt(f, x) : x \in s}
           h == [x \in s |-> UnitsAt(f, x)]
<1>1. h \in Surjection(s, parts)
  BY DEF Surjection
<1>2. IsFiniteSet(parts)
  BY <1>1, FS_Surjection
<1>3. \A T \in parts : IsFiniteSet(T)
  BY UnitsOfOne
<1>4. QED
  BY <1>2, <1>3, FS_UNION DEF Units

\* ... and those of one member are f[x] of them.
LEMMA UnitsSplit ==
  ASSUME NEW f, NEW s, IsFiniteSet(s), \A x \in s : f[x] \in Nat, NEW x \in s
  PROVE  Cardinality(Units(f, s)) = f[x] + Cardinality(Units(f, s \ {x}))
<1> DEFINE one == UnitsAt(f, x)
           rest == Units(f, s \ {x})
<1>1. Units(f, s) = one \cup rest
  BY DEF Units
<1>2. one \cap rest = {}
  BY DEF Units, UnitsAt
<1>3. IsFiniteSet(one) /\ Cardinality(one) = f[x]
  BY UnitsOfOne
<1>4. IsFiniteSet(s \ {x})
  BY FS_Difference
<1>5. IsFiniteSet(rest) /\ Cardinality(rest) \in Nat
  BY <1>4, UnitsFinite, FS_CardinalityType
<1>6. Cardinality(one \cap rest) = 0
  BY <1>2, FS_EmptySet
<1> HIDE DEF one, rest
<1>7. Cardinality(one \cup rest) = Cardinality(one) + Cardinality(rest) - Cardinality(one \cap rest)
  BY <1>3, <1>5, FS_Union
<1>8. Cardinality(Units(f, s)) = f[x] + Cardinality(rest)
  BY <1>1, <1>3, <1>5, <1>6, <1>7
<1>9. QED
  BY <1>8 DEF rest

\* Counting units is adding up.
LEMMA SumIsUnits ==
  ASSUME NEW f, IsFiniteSet(DOMAIN f), \A x \in DOMAIN f : f[x] \in Nat
  PROVE  SumFunction(f) = Cardinality(Units(f, DOMAIN f))
<1> DEFINE D == DOMAIN f
           count == [s \in SUBSET D |-> Cardinality(Units(f, s))]
<1>1. \A s \in SUBSET D : s # {} => Some(s) \in s
  BY DEF Some
<1>2. \A s \in SUBSET D : IsFiniteSet(s) /\ Cardinality(s) \in Nat
  BY FS_Subset, FS_CardinalityType
<1>3. \A s \in SUBSET D : s # {} =>
        Cardinality(Units(f, s)) = f[Some(s)] + Cardinality(Units(f, s \ {Some(s)}))
  BY <1>1, <1>2, UnitsSplit
<1>4. Cardinality(Units(f, {})) = 0
  BY FS_EmptySet DEF Units
<1>5. Adds(count, f)
  <2>1. \A s \in SUBSET D :
          count[s] = IF s = {} THEN 0 ELSE f[Some(s)] + count[s \ {Some(s)}]
    BY <1>3, <1>4
  <2>2. QED
    BY <2>1 DEF Adds
<1>6. PICK g : Adds(g, f) /\ g = CHOOSE h : Adds(h, f)
  BY <1>5
<1> DEFINE wrong == {Cardinality(s) : s \in {r \in SUBSET D : g[r] # count[r]}}
<1>7. ASSUME wrong # {} PROVE FALSE
  <2>1. wrong \subseteq Nat
    BY <1>2
  <2>2. PICK n \in wrong : \A m \in wrong : n <= m
    BY <2>1, <1>7, LeastOfNats
  <2>3. PICK s \in SUBSET D : g[s] # count[s] /\ Cardinality(s) = n
    OBVIOUS
  <2>4. s # {}
    BY <2>3, <1>4, <1>6 DEF Adds
  <2> DEFINE r == s \ {Some(s)}
  <2>5. r \in SUBSET D /\ Cardinality(r) = n - 1
    BY <1>1, <1>2, <2>3, <2>4, FS_RemoveElement
  <2>6. Cardinality(r) \notin wrong
    <3> HIDE DEF wrong
    <3>1. n \in Nat
      BY <2>1
    <3>2. ~ (n <= n - 1)
      BY <3>1
    <3>3. QED
      BY <2>2, <2>5, <3>2
  <2>7. g[r] = count[r]
    BY <2>5, <2>6
  <2>8. g[s] = f[Some(s)] + g[r]
    BY <1>6, <2>4 DEF Adds
  <2>9. QED
    BY <1>3, <2>3, <2>4, <2>5, <2>7, <2>8
<1>8. g[D] = count[D]
  BY <1>7
<1>9. QED
  BY <1>6, <1>8, SumIsFold

\* A sum is one part and a rest, whatever that part is.
LEMMA SumSplit ==
  ASSUME NEW S, IsFiniteSet(S), NEW f \in [S -> Nat], NEW x \in S
  PROVE  \E rest \in Nat : /\ SumFunction(f) = f[x] + rest
                           /\ \A g \in [S -> Nat] : (\A y \in S \ {x} : g[y] = f[y]) =>
                                SumFunction(g) = g[x] + rest
<1> DEFINE rest == Cardinality(Units(f, S \ {x}))
<1>1. rest \in Nat
  BY UnitsFinite, FS_CardinalityType, FS_Difference
<1>2. ASSUME NEW g \in [S -> Nat], \A y \in S \ {x} : g[y] = f[y]
      PROVE  SumFunction(g) = g[x] + rest
  <2>1. Units(g, S \ {x}) = Units(f, S \ {x})
    BY <1>2 DEF Units, UnitsAt
  <2>2. SumFunction(g) = Cardinality(Units(g, S))
    BY SumIsUnits
  <2>3. Cardinality(Units(g, S)) = g[x] + Cardinality(Units(g, S \ {x}))
    BY UnitsSplit
  <2>4. QED
    BY <2>1, <2>2, <2>3
<1>3. SumFunction(f) = f[x] + rest
  BY <1>2
<1> HIDE DEF rest
<1>4. QED
  BY <1>1, <1>2, <1>3

\* The sum of nothing is nothing.
LEMMA SumOfNothing ==
  ASSUME NEW S, IsFiniteSet(S)
  PROVE  SumFunction([x \in S |-> 0]) = 0
<1> DEFINE f == [x \in S |-> 0]
<1>1. Units(f, S) = {}
  BY DEF Units, UnitsAt
<1>2. SumFunction(f) = Cardinality(Units(f, S))
  BY SumIsUnits
<1>3. QED
  BY <1>1, <1>2, FS_EmptySet

\* Sums are naturals, and a sum covers each part.
LEMMA SumType ==
  ASSUME NEW S, IsFiniteSet(S), NEW f \in [S -> Nat]
  PROVE  SumFunction(f) \in Nat /\ \A x \in S : f[x] <= SumFunction(f)
<1>1. SumFunction(f) \in Nat
  BY SumIsUnits, UnitsFinite, FS_CardinalityType
<1>2. ASSUME NEW x \in S PROVE f[x] <= SumFunction(f)
  <2>1. PICK rest \in Nat : SumFunction(f) = f[x] + rest
    BY SumSplit
  <2>2. f[x] \in Nat
    OBVIOUS
  <2>3. QED
    BY <2>1, <2>2
<1>3. QED
  BY <1>1, <1>2

\* When one part changes, the sum changes by as much.
LEMMA SumChange ==
  ASSUME NEW S, IsFiniteSet(S), NEW f \in [S -> Nat], NEW g \in [S -> Nat], NEW x \in S,
         \A y \in S \ {x} : g[y] = f[y]
  PROVE  SumFunction(g) = SumFunction(f) - f[x] + g[x]
<1>1. PICK rest \in Nat : SumFunction(f) = f[x] + rest /\ SumFunction(g) = g[x] + rest
  BY SumSplit
<1>2. f[x] \in Nat /\ g[x] \in Nat
  OBVIOUS
<1>3. QED
  BY <1>1, <1>2

(***************************************************************************)
(* What the operations do to the reserved bytes of a tier.                 *)
(***************************************************************************)

\* The movements between the materialized buckets leave them alone.
LEMMA MovesKeepReserved ==
  ASSUME NEW led \in Ledgers, NEW t \in Tiers, NEW st \in Tiers, NEW b \in Buckets,
         NEW m \in Word, NEW n \in Word, NEW u \in Tiers
  PROVE  /\ CommitInitial(led, t, n)[u].reserved = led[u].reserved
         /\ CommitAndRetire(led, t, m, st, n)[u].reserved = led[u].reserved
         /\ ReleaseMaterialized(led, t, b, n)[u].reserved = led[u].reserved
         /\ ShrinkMaterialized(led, t, b, m, n)[u].reserved = led[u].reserved
         /\ ExchangeCompaction(led, t, m, n)[u].reserved = led[u].reserved
         /\ MoveToDebt(led, t, b, n)[u].reserved = led[u].reserved
         /\ RetireCommitted(led, t, n)[u].reserved = led[u].reserved
         /\ ReleaseCleanupDebt(led, t, n)[u].reserved = led[u].reserved
<1>0. MaxWord \in Nat
  BY BudgetAssumption DEF BudgetAssumption
<1>1. m \in Int /\ n \in Int /\ -n \in Int /\ n - m \in Int
  BY <1>0 DEF Word
<1>2. led \in [Tiers -> Counters] /\ led[t] \in Counters
  BY DEF Ledgers
<1>3. /\ AddTo(led[t], b, -n).reserved = led[t].reserved
      /\ AddTo(led[t], b, n - m).reserved = led[t].reserved
      /\ DOMAIN AddTo(led[t], b, -n) = DOMAIN led[t]
  BY <1>1, <1>2, RecordsKeepBlock DEF AddTo
<1>4. /\ ReleaseMaterialized(led, t, b, n)[u].reserved = led[u].reserved
      /\ ShrinkMaterialized(led, t, b, m, n)[u].reserved = led[u].reserved
  BY <1>2, <1>3 DEF ReleaseMaterialized, ShrinkMaterialized
<1>5. MoveToDebt(led, t, b, n)[u].reserved = led[u].reserved
  <2>1. PICK r : r = AddTo(led[t], b, -n)
    OBVIOUS
  <2>2. MoveToDebt(led, t, b, n) = [led EXCEPT ![t] = [r EXCEPT !.cleanup_debt = @ + n]]
    BY <2>1 DEF MoveToDebt
  <2>3. [r EXCEPT !.cleanup_debt = @ + n].reserved = r.reserved
    BY <1>2, <1>3, <2>1 DEF Counters
  <2>4. QED
    BY <1>2, <1>3, <2>1, <2>2, <2>3
<1>6. /\ CommitInitial(led, t, n)[u].reserved = led[u].reserved
      /\ ExchangeCompaction(led, t, m, n)[u].reserved = led[u].reserved
      /\ RetireCommitted(led, t, n)[u].reserved = led[u].reserved
      /\ ReleaseCleanupDebt(led, t, n)[u].reserved = led[u].reserved
  BY <1>2 DEF CommitInitial, ExchangeCompaction, RetireCommitted, ReleaseCleanupDebt, Counters
<1>7. CommitAndRetire(led, t, m, st, n)[u].reserved = led[u].reserved
  BY <1>2 DEF CommitAndRetire, CommitInitial, RetireCommitted, Counters
<1>8. QED
  BY <1>4, <1>5, <1>6, <1>7

\* The operations on tokens move them with the token.
LEMMA TokensMoveReserved ==
  ASSUME NEW led \in Ledgers, NEW tok \in ReservationTokens, NEW n \in Word, NEW u \in Tiers
  PROVE  /\ Materialize(led, tok, n)[u].reserved =
              led[u].reserved - (IF tok.tier = u THEN n ELSE 0)
         /\ ReleaseReservation(led, tok)[u].reserved =
              led[u].reserved - (IF tok.tier = u THEN tok.remaining ELSE 0)
         /\ RecordContractDebt(led, tok, n)[u].reserved =
              led[u].reserved - (IF tok.tier = u THEN tok.remaining ELSE 0)
<1> DEFINE t == tok.tier
           c == led[t]
<1>0. MaxWord \in Nat /\ n \in Int
  BY BudgetAssumption DEF BudgetAssumption, Word
<1>1. t \in Tiers /\ tok.bucket \in Buckets /\ tok.remaining \in Int /\ led \in [Tiers -> Counters]
  BY <1>0 DEF ReservationTokens, Ledgers, Word
<1>2. c \in Counters /\ c.reserved \in Int /\ led[u].reserved \in Int
  BY <1>0, <1>1 DEF Counters, Word
<1>3. ReleaseReservation(led, tok)[u].reserved =
        led[u].reserved - (IF tok.tier = u THEN tok.remaining ELSE 0)
  BY <1>1, <1>2 DEF ReleaseReservation, Counters
<1>4. Materialize(led, tok, n)[u].reserved = led[u].reserved - (IF tok.tier = u THEN n ELSE 0)
  <2>1. PICK r : r = [c EXCEPT !.reserved = @ - n]
    OBVIOUS
  <2>2. UpdatePeak(AddTo(r, tok.bucket, n)).reserved = r.reserved
    BY <1>2, <2>1 DEF UpdatePeak, AddTo, Counters
  <2>3. r.reserved = c.reserved - n
    BY <1>2, <2>1 DEF Counters
  <2>4. QED
    BY <1>1, <1>2, <2>1, <2>2, <2>3 DEF Materialize
<1>5. RecordContractDebt(led, tok, n)[u].reserved =
        led[u].reserved - (IF tok.tier = u THEN tok.remaining ELSE 0)
  <2>1. PICK r : r = [c EXCEPT !.reserved = @ - tok.remaining, !.cleanup_debt = @ + n,
                               !.admission_blocked = TRUE]
    OBVIOUS
  <2>2. UpdatePeak(r).reserved = r.reserved
    BY <1>2, <2>1 DEF UpdatePeak, Counters
  <2>3. r.reserved = c.reserved - tok.remaining
    BY <1>2, <2>1 DEF Counters
  <2>4. RecordContractDebt(led, tok, n) = [led EXCEPT ![t] = UpdatePeak(r)]
    BY <2>1 DEF RecordContractDebt
  <2>5. QED
    BY <1>1, <1>2, <2>2, <2>3, <2>4
<1>6. QED
  BY <1>3, <1>4, <1>5

\* reserve adds what is requested, request by request.
LEMMA ReserveAddsRequested ==
  ASSUME NEW led \in Ledgers, NEW reqs \in Seq(ReservationRequests), NEW u \in Tiers
  PROVE  /\ \A i \in 1 .. 3 : AmountAt(reqs, i, u) \in Nat
         /\ Reserve(led, reqs)[u].reserved = led[u].reserved + Requested(reqs, u)
<1>0. MaxWord \in Nat
  BY BudgetAssumption DEF BudgetAssumption
<1>1. ASSUME NEW i \in 1 .. 3 PROVE AmountAt(reqs, i, u) \in Nat
  <2>1. i <= Len(reqs) => reqs[i] \in ReservationRequests
    OBVIOUS
  <2>2. QED
    BY <1>0, <2>1 DEF AmountAt, ReservationRequests, Word
<1>2. Requested(reqs, u) \in Nat
  BY <1>1 DEF Requested
<1>3. led[u] \in Counters /\ led[u].reserved \in Nat
  BY <1>0 DEF Ledgers, Counters, Word
<1>4. PICK n \in Nat : n = Requested(reqs, u)
  BY <1>2
<1>5. Reserve(led, reqs)[u] =
        IF n = 0 THEN led[u] ELSE UpdatePeak([led[u] EXCEPT !.reserved = @ + n])
  BY <1>4 DEF Reserve
<1>6. UpdatePeak([led[u] EXCEPT !.reserved = @ + n]).reserved = led[u].reserved + n
  BY <1>3 DEF UpdatePeak, Counters
<1>7. QED
  BY <1>1, <1>3, <1>4, <1>5, <1>6

(***************************************************************************)
(* What the operations book.                                               *)
(***************************************************************************)
\* n if x is y.
Part(x, y, n) == IF x = y THEN n ELSE 0

\* The counters d are c with so many more bytes reserved (r), staged (s), worked in (w),
\* committed (m) and owed (b).
Booked(c, d, r, s, w, m, b) ==
  /\ d.reserved = c.reserved + r
  /\ d.staging = c.staging + s
  /\ d.workspace = c.workspace + w
  /\ d.committed = c.committed + m
  /\ d.cleanup_debt = c.cleanup_debt + b

LEMMA CountersNat ==
  ASSUME NEW led \in Ledgers, NEW u \in Tiers
  PROVE  /\ led[u] \in Counters
         /\ led[u].reserved \in Nat /\ led[u].staging \in Nat /\ led[u].workspace \in Nat
         /\ led[u].committed \in Nat /\ led[u].cleanup_debt \in Nat
<1>1. MaxWord \in Nat
  BY BudgetAssumption DEF BudgetAssumption
<1>2. led[u] \in Counters
  BY DEF Ledgers
<1>3. QED
  BY <1>1, <1>2 DEF Counters, Word

\* The charge of a tier grows by all that is booked there.
LEMMA BookedTotal ==
  ASSUME NEW led \in Ledgers, NEW u \in Tiers, NEW d, NEW r \in Int, NEW s \in Int, NEW w \in Int,
         NEW m \in Int, NEW b \in Int, Booked(led[u], d, r, s, w, m, b)
  PROVE  Total(d) = Total(led[u]) + (r + s + w + m + b)
<1>1. PICK x1 \in Nat, x2 \in Nat, x3 \in Nat, x4 \in Nat, x5 \in Nat :
        /\ led[u].reserved = x1 /\ led[u].staging = x2 /\ led[u].workspace = x3
        /\ led[u].committed = x4 /\ led[u].cleanup_debt = x5
  BY CountersNat
<1>2. /\ d.reserved = x1 + r /\ d.staging = x2 + s /\ d.workspace = x3 + w
      /\ d.committed = x4 + m /\ d.cleanup_debt = x5 + b
  BY <1>1 DEF Booked
<1>3. QED
  BY <1>1, <1>2 DEF Total

\* add_to books in the bucket it names.
LEMMA AddToBooks ==
  ASSUME NEW led \in Ledgers, NEW u \in Tiers, NEW b \in Buckets, NEW n \in Int
  PROVE  Booked(led[u], AddTo(led[u], b, n), 0, Part(b, "staging", n), Part(b, "workspace", n), 0, 0)
<1>1. /\ led[u] \in Counters
      /\ led[u].reserved \in Nat /\ led[u].staging \in Nat /\ led[u].workspace \in Nat
      /\ led[u].committed \in Nat /\ led[u].cleanup_debt \in Nat
  BY CountersNat
<1>2. CASE b = "staging"
  BY <1>1, <1>2 DEF AddTo, Booked, Part, Counters
<1>3. CASE b = "workspace"
  BY <1>1, <1>3 DEF AddTo, Booked, Part, Counters
<1>4. QED
  BY <1>2, <1>3 DEF Buckets

\* Nothing is booked where nothing happens.
LEMMA NoneBooked ==
  ASSUME NEW led \in Ledgers, NEW u \in Tiers PROVE Booked(led[u], led[u], 0, 0, 0, 0, 0)
BY CountersNat DEF Booked

\* reserve books what is requested.
LEMMA ReserveBooks ==
  ASSUME NEW led \in Ledgers, NEW reqs \in Seq(ReservationRequests), NEW u \in Tiers
  PROVE  Booked(led[u], Reserve(led, reqs)[u], Requested(reqs, u), 0, 0, 0, 0)
<1>1. Requested(reqs, u) \in Nat
  BY ReserveAddsRequested DEF Requested
<1>2. PICK n \in Nat : n = Requested(reqs, u)
  BY <1>1
<1>3. Reserve(led, reqs)[u] =
        IF n = 0 THEN led[u] ELSE UpdatePeak([led[u] EXCEPT !.reserved = @ + n])
  BY <1>2 DEF Reserve
<1>4. /\ led[u] \in Counters
      /\ led[u].reserved \in Nat /\ led[u].staging \in Nat /\ led[u].workspace \in Nat
      /\ led[u].committed \in Nat /\ led[u].cleanup_debt \in Nat
  BY CountersNat
<1>5. PICK d : d = [led[u] EXCEPT !.reserved = @ + n]
  OBVIOUS
<1>6. /\ UpdatePeak(d).reserved = led[u].reserved + n
      /\ UpdatePeak(d).staging = led[u].staging /\ UpdatePeak(d).workspace = led[u].workspace
      /\ UpdatePeak(d).committed = led[u].committed
      /\ UpdatePeak(d).cleanup_debt = led[u].cleanup_debt
  BY <1>4, <1>5 DEF UpdatePeak, Counters
<1>7. Booked(led[u], Reserve(led, reqs)[u], n, 0, 0, 0, 0)
  BY <1>3, <1>4, <1>5, <1>6 DEF Booked
<1>8. QED
  BY <1>2, <1>7

\* What the movements between the materialized buckets book.
LEMMA MovesBook ==
  ASSUME NEW led \in Ledgers, NEW t \in Tiers, NEW st \in Tiers, NEW b \in Buckets,
         NEW m \in Word, NEW n \in Word, NEW u \in Tiers
  PROVE  /\ Booked(led[u], ReleaseMaterialized(led, t, b, n)[u], 0,
                   Part(t, u, Part(b, "staging", -n)), Part(t, u, Part(b, "workspace", -n)), 0, 0)
         /\ Booked(led[u], ShrinkMaterialized(led, t, b, m, n)[u], 0,
                   Part(t, u, Part(b, "staging", n - m)), Part(t, u, Part(b, "workspace", n - m)), 0, 0)
         /\ Booked(led[u], MoveToDebt(led, t, b, n)[u], 0,
                   Part(t, u, Part(b, "staging", -n)), Part(t, u, Part(b, "workspace", -n)), 0,
                   Part(t, u, n))
         /\ Booked(led[u], ExchangeCompaction(led, t, m, n)[u], 0,
                   Part(t, u, n - m), Part(t, u, m - n), 0, 0)
         /\ Booked(led[u], ReleaseCleanupDebt(led, t, n)[u], 0, 0, 0, 0, Part(t, u, -n))
         /\ Booked(led[u], CommitAndRetire(led, t, m, st, n)[u], 0,
                   Part(t, u, -m), 0, Part(t, u, m) + Part(st, u, -n), Part(st, u, n))
<1>0. MaxWord \in Nat /\ led \in [Tiers -> Counters]
  BY BudgetAssumption DEF BudgetAssumption, Ledgers
<1>1. m \in Int /\ n \in Int /\ -n \in Int /\ n - m \in Int /\ m - n \in Int
  BY <1>0 DEF Word
<1>2. /\ led[u] \in Counters
      /\ led[u].reserved \in Nat /\ led[u].staging \in Nat /\ led[u].workspace \in Nat
      /\ led[u].committed \in Nat /\ led[u].cleanup_debt \in Nat
  BY CountersNat
<1>3. Booked(led[u], led[u], 0, 0, 0, 0, 0)
  BY NoneBooked
<1>4. Booked(led[u], ReleaseMaterialized(led, t, b, n)[u], 0,
             Part(t, u, Part(b, "staging", -n)), Part(t, u, Part(b, "workspace", -n)), 0, 0)
  <2>1. Booked(led[u], AddTo(led[u], b, -n), 0, Part(b, "staging", -n), Part(b, "workspace", -n), 0, 0)
    BY <1>1, AddToBooks
  <2>2. ReleaseMaterialized(led, t, b, n)[u] = IF t = u THEN AddTo(led[u], b, -n) ELSE led[u]
    BY <1>0 DEF ReleaseMaterialized
  <2>3. CASE t = u
    BY <2>1, <2>2, <2>3 DEF Part
  <2>4. CASE t # u
    BY <1>3, <2>2, <2>4 DEF Part
  <2>5. QED
    BY <2>3, <2>4
<1>5. Booked(led[u], ShrinkMaterialized(led, t, b, m, n)[u], 0,
             Part(t, u, Part(b, "staging", n - m)), Part(t, u, Part(b, "workspace", n - m)), 0, 0)
  <2>1. Booked(led[u], AddTo(led[u], b, n - m), 0, Part(b, "staging", n - m),
               Part(b, "workspace", n - m), 0, 0)
    BY <1>1, AddToBooks
  <2>2. ShrinkMaterialized(led, t, b, m, n)[u] = IF t = u THEN AddTo(led[u], b, n - m) ELSE led[u]
    BY <1>0 DEF ShrinkMaterialized
  <2>3. CASE t = u
    BY <2>1, <2>2, <2>3 DEF Part
  <2>4. CASE t # u
    BY <1>3, <2>2, <2>4 DEF Part
  <2>5. QED
    BY <2>3, <2>4
<1>6. Booked(led[u], MoveToDebt(led, t, b, n)[u], 0,
             Part(t, u, Part(b, "staging", -n)), Part(t, u, Part(b, "workspace", -n)), 0, Part(t, u, n))
  <2>1. PICK r : r = AddTo(led[u], b, -n)
    OBVIOUS
  <2>2. Booked(led[u], r, 0, Part(b, "staging", -n), Part(b, "workspace", -n), 0, 0)
    BY <1>1, <2>1, AddToBooks
  <2>3. DOMAIN r = DOMAIN led[u]
    BY <1>2, <2>1 DEF AddTo, Counters
  <2>4. PICK d : d = [r EXCEPT !.cleanup_debt = @ + n]
    OBVIOUS
  <2>5. /\ d.reserved = r.reserved /\ d.staging = r.staging /\ d.workspace = r.workspace
        /\ d.committed = r.committed /\ d.cleanup_debt = r.cleanup_debt + n
    BY <1>2, <2>3, <2>4 DEF Counters
  <2>6. r.cleanup_debt = led[u].cleanup_debt
    BY <1>2, <2>2 DEF Booked
  <2>7. Booked(led[u], d, 0, Part(b, "staging", -n), Part(b, "workspace", -n), 0, n)
    BY <2>2, <2>5, <2>6 DEF Booked
  <2>8. MoveToDebt(led, t, b, n)[u] = IF t = u THEN d ELSE led[u]
    BY <1>0, <2>1, <2>4 DEF MoveToDebt
  <2>9. CASE t = u
    BY <2>7, <2>8, <2>9 DEF Part
  <2>10. CASE t # u
    BY <1>3, <2>8, <2>10 DEF Part
  <2>11. QED
    BY <2>9, <2>10
<1>7. Booked(led[u], ExchangeCompaction(led, t, m, n)[u], 0, Part(t, u, n - m), Part(t, u, m - n), 0, 0)
  <2>1. PICK d : d = [led[u] EXCEPT !.staging = @ - (m - n), !.workspace = @ + (m - n)]
    OBVIOUS
  <2>2. Booked(led[u], d, 0, n - m, m - n, 0, 0)
    BY <1>1, <1>2, <2>1 DEF Booked, Counters
  <2>3. ExchangeCompaction(led, t, m, n)[u] = IF t = u THEN d ELSE led[u]
    BY <1>0, <2>1 DEF ExchangeCompaction
  <2>4. CASE t = u
    BY <2>2, <2>3, <2>4 DEF Part
  <2>5. CASE t # u
    BY <1>3, <2>3, <2>5 DEF Part
  <2>6. QED
    BY <2>4, <2>5
<1>8. Booked(led[u], ReleaseCleanupDebt(led, t, n)[u], 0, 0, 0, 0, Part(t, u, -n))
  <2>1. PICK d : d = [led[u] EXCEPT !.cleanup_debt = @ - n]
    OBVIOUS
  <2>2. Booked(led[u], d, 0, 0, 0, 0, -n)
    BY <1>1, <1>2, <2>1 DEF Booked, Counters
  <2>3. ReleaseCleanupDebt(led, t, n)[u] = IF t = u THEN d ELSE led[u]
    BY <1>0, <2>1 DEF ReleaseCleanupDebt
  <2>4. CASE t = u
    BY <2>2, <2>3, <2>4 DEF Part
  <2>5. CASE t # u
    BY <1>3, <2>3, <2>5 DEF Part
  <2>6. QED
    BY <2>4, <2>5
<1>9. Booked(led[u], CommitAndRetire(led, t, m, st, n)[u], 0,
             Part(t, u, -m), 0, Part(t, u, m) + Part(st, u, -n), Part(st, u, n))
  <2>1. PICK mid : mid = CommitInitial(led, t, m)
    OBVIOUS
  <2>2. PICK x1 \in Nat, x2 \in Nat, x3 \in Nat, x4 \in Nat, x5 \in Nat :
          /\ led[u].reserved = x1 /\ led[u].staging = x2 /\ led[u].workspace = x3
          /\ led[u].committed = x4 /\ led[u].cleanup_debt = x5
    BY <1>2
  <2>3. PICK d : d = mid[u]
    OBVIOUS
  <2>4. d = IF t = u THEN [led[u] EXCEPT !.staging = @ - m, !.committed = @ + m] ELSE led[u]
    BY <1>0, <2>1, <2>3 DEF CommitInitial
  <2>5. /\ d.reserved = x1 /\ d.staging = x2 + Part(t, u, -m) /\ d.workspace = x3
        /\ d.committed = x4 + Part(t, u, m) /\ d.cleanup_debt = x5
        /\ DOMAIN d = DOMAIN led[u]
    BY <1>1, <1>2, <2>2, <2>4 DEF Counters, Part
  <2>6. DOMAIN mid = Tiers
    BY <1>0, <2>1 DEF CommitInitial
  <2>7. PICK e : e = CommitAndRetire(led, t, m, st, n)[u]
    OBVIOUS
  <2>8. e = IF st = u THEN [d EXCEPT !.committed = @ - n, !.cleanup_debt = @ + n] ELSE d
    BY <2>1, <2>3, <2>6, <2>7 DEF CommitAndRetire, RetireCommitted
  <2>9. /\ e.reserved = d.reserved /\ e.staging = d.staging /\ e.workspace = d.workspace
        /\ e.committed = IF st = u THEN d.committed - n ELSE d.committed
        /\ e.cleanup_debt = IF st = u THEN d.cleanup_debt + n ELSE d.cleanup_debt
    BY <1>2, <2>5, <2>8 DEF Counters
  <2>10. PICK y1 \in Int, y2 \in Int : y1 = Part(t, u, m) /\ y2 = Part(t, u, -m)
    BY <1>1 DEF Part
  <2>11. /\ e.reserved = x1 + 0 /\ e.staging = x2 + y2 /\ e.workspace = x3 + 0
         /\ e.committed = x4 + (y1 + Part(st, u, -n)) /\ e.cleanup_debt = x5 + Part(st, u, n)
    BY <1>1, <2>5, <2>9, <2>10 DEF Part
  <2>12. QED
    BY <2>2, <2>7, <2>10, <2>11 DEF Booked
<1>10. QED
  BY <1>4, <1>5, <1>6, <1>7, <1>8, <1>9

\* What the operations on tokens book.
LEMMA TokensBook ==
  ASSUME NEW led \in Ledgers, NEW tok \in ReservationTokens, NEW n \in Word, NEW u \in Tiers
  PROVE  /\ Booked(led[u], Materialize(led, tok, n)[u], Part(tok.tier, u, -n),
                   Part(tok.tier, u, Part(tok.bucket, "staging", n)),
                   Part(tok.tier, u, Part(tok.bucket, "workspace", n)), 0, 0)
         /\ Booked(led[u], ReleaseReservation(led, tok)[u], Part(tok.tier, u, -tok.remaining),
                   0, 0, 0, 0)
         /\ Booked(led[u], RecordContractDebt(led, tok, n)[u], Part(tok.tier, u, -tok.remaining),
                   0, 0, 0, Part(tok.tier, u, n))
<1>0. MaxWord \in Nat /\ led \in [Tiers -> Counters] /\ n \in Int
  BY BudgetAssumption DEF BudgetAssumption, Ledgers, Word
<1>1. PICK t \in Tiers, b \in Buckets, k \in Int : t = tok.tier /\ b = tok.bucket /\ k = tok.remaining
  BY <1>0 DEF ReservationTokens, Word
<1>2. /\ led[u] \in Counters
      /\ led[u].reserved \in Nat /\ led[u].staging \in Nat /\ led[u].workspace \in Nat
      /\ led[u].committed \in Nat /\ led[u].cleanup_debt \in Nat
  BY CountersNat
<1>3. Booked(led[u], led[u], 0, 0, 0, 0, 0)
  BY NoneBooked
<1>4. Booked(led[u], Materialize(led, tok, n)[u], Part(t, u, -n),
             Part(t, u, Part(b, "staging", n)), Part(t, u, Part(b, "workspace", n)), 0, 0)
  <2>1. PICK r : r = [led[u] EXCEPT !.reserved = @ - n]
    OBVIOUS
  <2>2. PICK d : d = AddTo(r, b, n)
    OBVIOUS
  <2>3. Booked(led[u], d, -n, Part(b, "staging", n), Part(b, "workspace", n), 0, 0)
    <3>1. CASE b = "staging"
      BY <1>0, <1>2, <2>1, <2>2, <3>1 DEF AddTo, Booked, Part, Counters
    <3>2. CASE b = "workspace"
      BY <1>0, <1>2, <2>1, <2>2, <3>2 DEF AddTo, Booked, Part, Counters
    <3>3. QED
      BY <3>1, <3>2 DEF Buckets
  <2>4. DOMAIN d = DOMAIN led[u]
    BY <1>2, <2>1, <2>2 DEF AddTo, Counters
  <2>5. PICK e : e = UpdatePeak(d)
    OBVIOUS
  <2>6. /\ e.reserved = d.reserved /\ e.staging = d.staging /\ e.workspace = d.workspace
        /\ e.committed = d.committed /\ e.cleanup_debt = d.cleanup_debt
    BY <1>2, <2>4, <2>5 DEF UpdatePeak, Counters
  <2>7. Booked(led[u], e, -n, Part(b, "staging", n), Part(b, "workspace", n), 0, 0)
    BY <2>3, <2>6 DEF Booked
  <2>8. Materialize(led, tok, n)[u] = IF t = u THEN e ELSE led[u]
    BY <1>0, <1>1, <2>1, <2>2, <2>5 DEF Materialize
  <2>9. CASE t = u
    BY <2>7, <2>8, <2>9 DEF Part
  <2>10. CASE t # u
    BY <1>3, <2>8, <2>10 DEF Part
  <2>11. QED
    BY <2>9, <2>10
<1>5. Booked(led[u], ReleaseReservation(led, tok)[u], Part(t, u, -k), 0, 0, 0, 0)
  <2>1. PICK d : d = [led[u] EXCEPT !.reserved = @ - k]
    OBVIOUS
  <2>2. Booked(led[u], d, -k, 0, 0, 0, 0)
    BY <1>1, <1>2, <2>1 DEF Booked, Counters
  <2>3. ReleaseReservation(led, tok)[u] = IF t = u THEN d ELSE led[u]
    BY <1>0, <1>1, <2>1 DEF ReleaseReservation
  <2>4. CASE t = u
    BY <2>2, <2>3, <2>4 DEF Part
  <2>5. CASE t # u
    BY <1>3, <2>3, <2>5 DEF Part
  <2>6. QED
    BY <2>4, <2>5
<1>6. Booked(led[u], RecordContractDebt(led, tok, n)[u], Part(t, u, -k), 0, 0, 0, Part(t, u, n))
  <2>1. PICK d : d = [led[u] EXCEPT !.reserved = @ - k, !.cleanup_debt = @ + n,
                                    !.admission_blocked = TRUE]
    OBVIOUS
  <2>2. /\ d.reserved = led[u].reserved - k /\ d.cleanup_debt = led[u].cleanup_debt + n
        /\ d.staging = led[u].staging /\ d.workspace = led[u].workspace
        /\ d.committed = led[u].committed
    BY <1>2, <2>1 DEF Counters
  <2>3. DOMAIN d = DOMAIN led[u]
    BY <2>1
  <2>4. PICK e : e = UpdatePeak(d)
    OBVIOUS
  <2>5. /\ e.reserved = d.reserved /\ e.staging = d.staging /\ e.workspace = d.workspace
        /\ e.committed = d.committed /\ e.cleanup_debt = d.cleanup_debt
    BY <1>2, <2>3, <2>4 DEF UpdatePeak, Counters
  <2>6. Booked(led[u], e, -k, 0, 0, 0, n)
    BY <1>1, <1>2, <2>2, <2>5 DEF Booked
  <2>7. RecordContractDebt(led, tok, n)[u] = IF t = u THEN e ELSE led[u]
    BY <1>0, <1>1, <2>1, <2>4 DEF RecordContractDebt
  <2>8. CASE t = u
    BY <2>6, <2>7, <2>8 DEF Part
  <2>9. CASE t # u
    BY <1>3, <2>7, <2>9 DEF Part
  <2>10. QED
    BY <2>8, <2>9
<1>7. QED
  BY <1>1, <1>4, <1>5, <1>6
=============================================================================
