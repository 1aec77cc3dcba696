------------------------ MODULE BudgetLedgerProofs ------------------------
(***************************************************************************)
(* Proofs about BudgetLedger, for every pair of tier budgets, every word   *)
(* size, and any number of clients calling with any amounts.  LedgerLemmas *)
(* has the argument for each operation; the theorems collect them.         *)
(***************************************************************************)
EXTENDS BudgetLedger, LedgerLemmas

\* The inductive invariant of the ledger and the tokens its clients hold.
IndInv == TypeOK /\ GoodLedger(ledger)

\* A token is a record of words (tokens are handed to every operation below).
LEMMA TokenType ==
  ASSUME TypeOK, NEW c \in Clients, NEW i \in Slots
  PROVE  tokens[c][i] \in ReservationTokens
BY DEF TypeOK

\* The initial ledger is empty and nobody holds a token.
LEMMA InitIndInv == Init => IndInv
<1>1. MaxWord \in Nat /\ \A t \in Tiers : HardLimit[t] \in Nat
  BY BudgetAssumption DEF BudgetAssumption
<1>2. EmptyCounters \in Counters /\ InactiveToken \in ReservationTokens
  BY <1>1 DEF EmptyCounters, Counters, InactiveToken, ReservationTokens, Word, Tiers, Buckets
<1>3. \A t \in Tiers : Good(EmptyCounters, t)
  BY <1>1, <1>2 DEF Good, EmptyCounters, Total
<1>4. QED
  BY <1>2, <1>3 DEF Init, IndInv, TypeOK, GoodLedger, Ledgers

\* Tokens stay records of words under every action.
LEMMA TokensTyped ==
  ASSUME IndInv, [Next]_vars
  PROVE  tokens' \in [Clients -> [Slots -> ReservationTokens]]
<1>0. tokens \in [Clients -> [Slots -> ReservationTokens]] /\ MaxWord \in Nat
  BY BudgetAssumption DEF IndInv, TypeOK, BudgetAssumption
<1>1. ASSUME NEW c \in Clients, NEW reqs \in RequestBatches, DoReserve(c, reqs)
      PROVE  tokens' \in [Clients -> [Slots -> ReservationTokens]]
  <2>1. reqs \in Seq(ReservationRequests)
    BY ClientAssumption DEF ClientAssumption
  <2>2. ASSUME NEW i \in Slots, i <= Len(reqs) PROVE TokenFor(reqs[i]) \in ReservationTokens
    <3>1. reqs[i] \in ReservationRequests
      BY <2>1, <2>2 DEF Slots
    <3>2. QED
      BY <3>1 DEF TokenFor, ReservationRequests, ReservationTokens
  <2>3. [i \in Slots |-> IF i <= Len(reqs) THEN TokenFor(reqs[i]) ELSE tokens[c][i]]
          \in [Slots -> ReservationTokens]
    BY <1>0, <2>2
  <2>4. QED
    BY <1>0, <1>1, <2>3 DEF DoReserve
<1>2. ASSUME NEW c \in Clients, NEW i \in Slots, NEW n \in Amounts, DoMaterialize(c, i, n)
      PROVE  tokens' \in [Clients -> [Slots -> ReservationTokens]]
  <2>1. n \in Word /\ n <= tokens[c][i].remaining /\ tokens[c][i] \in ReservationTokens
    BY <1>0, <1>2, ClientAssumption DEF ClientAssumption, DoMaterialize, MaterializeOk
  <2>2. MaterializedToken(tokens[c][i], n) \in ReservationTokens
    BY <1>0, <2>1 DEF MaterializedToken, ReservationTokens, Word
  <2>3. QED
    BY <1>0, <1>2, <2>2 DEF DoMaterialize
<1>3. InactiveToken \in ReservationTokens
  BY <1>0 DEF InactiveToken, ReservationTokens, Word, Tiers, Buckets
<1>4. ASSUME NEW c \in Clients, NEW i \in Slots, Inactivate(c, i)
      PROVE  tokens' \in [Clients -> [Slots -> ReservationTokens]]
  BY <1>0, <1>3, <1>4 DEF Inactivate
<1>5. CASE UNCHANGED tokens
  BY <1>0, <1>5
<1>6. QED
  BY <1>1, <1>2, <1>4, <1>5
  DEF Next, vars, DoReleaseReservation, DoRecordContractDebt, DoCommitInitial,
      DoCommitAndRetire, DoReleaseMaterialized, DoShrinkMaterialized, DoExchangeCompaction,
      DoMoveToDebt, DoRetireCommitted, DoReleaseCleanupDebt

\* Every action keeps the counters good: one step per operation.
LEMMA NextIndInv == IndInv /\ [Next]_vars => IndInv'
<1> SUFFICES ASSUME IndInv, [Next]_vars PROVE IndInv'
  OBVIOUS
<1> USE DEF IndInv
<1>0. /\ GoodLedger(ledger) /\ Amounts \subseteq Word
      /\ RequestBatches \subseteq Seq(ReservationRequests)
      /\ \A c \in Clients, i \in Slots : tokens[c][i] \in ReservationTokens
  BY ClientAssumption, TokenType DEF ClientAssumption
<1>1. ASSUME NEW c \in Clients, NEW reqs \in RequestBatches, DoReserve(c, reqs)
      PROVE  GoodLedger(ledger')
  BY <1>0, <1>1, ReserveLedgerGood DEF DoReserve
<1>2. ASSUME NEW c \in Clients, NEW i \in Slots, NEW n \in Amounts, DoMaterialize(c, i, n)
      PROVE  GoodLedger(ledger')
  BY <1>0, <1>2, TokenOpsGood DEF DoMaterialize
<1>3. ASSUME NEW c \in Clients, NEW i \in Slots, DoReleaseReservation(c, i)
      PROVE  GoodLedger(ledger')
  <2>1. 0 \in Word
    BY BudgetAssumption DEF BudgetAssumption, Word
  <2>2. QED
    BY <1>0, <1>3, <2>1, TokenOpsGood DEF DoReleaseReservation
<1>4. ASSUME NEW c \in Clients, NEW i \in Slots, NEW n \in Amounts, DoRecordContractDebt(c, i, n)
      PROVE  GoodLedger(ledger')
  BY <1>0, <1>4, TokenOpsGood DEF DoRecordContractDebt
<1>5. ASSUME NEW dt \in Tiers, NEW st \in Tiers, NEW m \in Amounts, NEW n \in Amounts,
             DoCommitAndRetire(dt, m, st, n)
      PROVE  GoodLedger(ledger')
  BY <1>0, <1>5, CommitAndRetireGood DEF DoCommitAndRetire
<1>6. ASSUME NEW t \in Tiers, NEW b \in Buckets, NEW m \in Amounts, NEW n \in Amounts
      PROVE  /\ DoCommitInitial(t, n) => GoodLedger(ledger')
             /\ DoReleaseMaterialized(t, b, n) => GoodLedger(ledger')
             /\ DoShrinkMaterialized(t, b, m, n) => GoodLedger(ledger')
             /\ DoExchangeCompaction(t, m, n) => GoodLedger(ledger')
             /\ DoMoveToDebt(t, b, n) => GoodLedger(ledger')
             /\ DoRetireCommitted(t, n) => GoodLedger(ledger')
             /\ DoReleaseCleanupDebt(t, n) => GoodLedger(ledger')
  BY <1>0, MovesGood
  DEF DoCommitInitial, DoReleaseMaterialized, DoShrinkMaterialized, DoExchangeCompaction,
      DoMoveToDebt, DoRetireCommitted, DoReleaseCleanupDebt
<1>7. ASSUME UNCHANGED vars PROVE GoodLedger(ledger')
  BY <1>0, <1>7 DEF vars
<1>8. "staging" \in Buckets
  BY DEF Buckets
<1>9. GoodLedger(ledger')
  BY <1>1, <1>2, <1>3, <1>4, <1>5, <1>6, <1>7, <1>8 DEF Next
<1>10. tokens' \in [Clients -> [Slots -> ReservationTokens]]
  BY TokensTyped
<1>11. ledger' \in Ledgers /\ \A t \in Tiers : Good(ledger'[t], t)
  BY <1>9 DEF GoodLedger
<1>12. TypeOK'
  BY <1>10, <1>11 DEF TypeOK
<1>13. GoodLedger(ledger)'
  BY <1>11 DEF GoodLedger, Good
<1>14. QED
  BY <1>12, <1>13

\* Every behaviour of the ledger satisfies the inductive invariant.
THEOREM LedgerInvariant == Spec => []IndInv
BY InitIndInv, NextIndInv, PTL DEF Spec

\* Type correctness: no counter, token or peak ever leaves the range of its
\* integer type, so none of the ledger's unchecked subtractions wraps.
THEOREM LedgerTypes == Spec => []TypeOK
BY LedgerInvariant, PTL DEF IndInv

\* The hard limit of a tier holds in every state, for all budgets and clients.
THEOREM HardLimitHolds == Spec => []HardLimitRespected
<1>1. IndInv => HardLimitRespected
  BY DEF IndInv, GoodLedger, Good, HardLimitRespected
<1>2. QED
  BY <1>1, LedgerInvariant, PTL

\* The reported peak covers the charge in every state.
THEOREM PeakHolds == Spec => []PeakCoversCharge
<1>1. IndInv => PeakCoversCharge
  BY DEF IndInv, GoodLedger, Good, PeakCoversCharge
<1>2. QED
  BY <1>1, LedgerInvariant, PTL

\* A tier closed by contract debt stays closed, in every behaviour: reserve is
\* the only operation that raises reserved, and it refuses a blocked tier.
THEOREM BlockHolds == Spec => BlockedTierAdmitsNothing
<1>1. ASSUME IndInv, [Next]_vars, NEW u \in Tiers PROVE Blocked(ledger[u], ledger'[u])
  <2>0. /\ GoodLedger(ledger) /\ Amounts \subseteq Word /\ 0 \in Word
        /\ RequestBatches \subseteq Seq(ReservationRequests)
        /\ \A c \in Clients, i \in Slots : tokens[c][i] \in ReservationTokens
        /\ InactiveToken \in ReservationTokens
        /\ ledger[u].reserved \in Nat
    BY <1>1, ClientAssumption, BudgetAssumption, TokenType
    DEF ClientAssumption, BudgetAssumption, IndInv, Word, InactiveToken, ReservationTokens,
        Tiers, Buckets, GoodLedger, Good, Counters
  <2>1. ASSUME NEW c \in Clients, NEW reqs \in RequestBatches, DoReserve(c, reqs)
        PROVE  Blocked(ledger[u], ledger'[u])
    <3>1. ledger[u].admission_blocked => Requested(reqs, u) = 0
      BY <2>1 DEF DoReserve, ReserveOk, ReserveTierOk
    <3>2. Requested(reqs, u) = 0 => ledger'[u] = ledger[u]
      BY <2>1 DEF DoReserve, Reserve
    <3>3. QED
      BY <2>0, <3>1, <3>2 DEF Blocked
  <2>2. ASSUME NEW c \in Clients, NEW i \in Slots, NEW n \in Amounts,
               DoMaterialize(c, i, n) \/ DoReleaseReservation(c, i) \/ DoRecordContractDebt(c, i, n)
        PROVE  Blocked(ledger[u], ledger'[u])
    BY <2>0, <2>2, OpsKeepBlock
    DEF DoMaterialize, DoReleaseReservation, DoRecordContractDebt, Buckets
  <2>3. ASSUME NEW c \in Clients, NEW i \in Slots, DoReleaseReservation(c, i)
        PROVE  Blocked(ledger[u], ledger'[u])
    BY <2>0, <2>3, OpsKeepBlock DEF DoReleaseReservation, Buckets
  <2>4. ASSUME NEW t \in Tiers, NEW st \in Tiers, NEW b \in Buckets, NEW m \in Amounts,
               NEW n \in Amounts,
               \/ DoCommitInitial(t, n) \/ DoCommitAndRetire(t, m, st, n)
               \/ DoReleaseMaterialized(t, b, n) \/ DoShrinkMaterialized(t, b, m, n)
               \/ DoExchangeCompaction(t, m, n) \/ DoMoveToDebt(t, b, n)
               \/ DoRetireCommitted(t, n) \/ DoReleaseCleanupDebt(t, n)
        PROVE  Blocked(ledger[u], ledger'[u])
    BY <2>0, <2>4, OpsKeepBlock
    DEF DoCommitInitial, DoCommitAndRetire, DoReleaseMaterialized, DoShrinkMaterialized,
        DoExchangeCompaction, DoMoveToDebt, DoRetireCommitted, DoReleaseCleanupDebt
  <2>5. ASSUME UNCHANGED vars PROVE Blocked(ledger[u], ledger'[u])
    BY <2>0, <2>5 DEF vars, Blocked
  <2>6. "staging" \in Buckets
    BY DEF Buckets
  <2>7. QED
    BY <1>1, <2>1, <2>2, <2>3, <2>4, <2>5, <2>6 DEF Next
<1>2. IndInv /\ [Next]_vars => [BlockStays]_vars
  BY <1>1 DEF Blocked, BlockStays
<1>3. QED
  BY <1>2, LedgerInvariant, PTL DEF Spec, BlockedTierAdmitsNothing

(***************************************************************************)
(* What is reserved is what the tokens claim.  An operation on a token     *)
(* changes one claim and reserved by as much; reserve changes at most      *)
(* three, one after the other; no other operation touches either.          *)
(***************************************************************************)
Held == Clients \X Slots

\* There are finitely many tokens, and each claims a natural number.
LEMMA ClaimsType ==
  ASSUME TypeOK, NEW t \in Tiers
  PROVE  IsFiniteSet(Held) /\ Claims(t) \in [Held -> Nat]
<1>1. IsFiniteSet(Held)
  <2>1. IsFiniteSet(Clients)
    BY ClientAssumption DEF ClientAssumption
  <2>2. IsFiniteSet(Slots)
    <3>1. 1 \in Int /\ 3 \in Int
      OBVIOUS
    <3>2. IsFiniteSet(1 .. 3)
      BY <3>1, FS_Interval
    <3>3. QED
      BY <3>2 DEF Slots
  <2>3. QED
    BY <2>1, <2>2, FS_Product DEF Held
<1>2. ASSUME NEW k \in Held PROVE Claim(tokens[k[1]][k[2]], t) \in Nat
  <2>1. tokens[k[1]][k[2]] \in ReservationTokens
    BY TokenType DEF Held
  <2>2. tokens[k[1]][k[2]].remaining \in Nat
    BY <2>1, BudgetAssumption DEF BudgetAssumption, ReservationTokens, Word
  <2>3. QED
    BY <2>2 DEF Claim
<1>3. QED
  BY <1>1, <1>2 DEF Claims, Held

\* When one token changes, the sum of the claims changes by its claim.
LEMMA OneClaimChanges ==
  ASSUME TypeOK, TypeOK', NEW c \in Clients, NEW i \in Slots, NEW tok,
         tokens' = [tokens EXCEPT ![c][i] = tok], NEW t \in Tiers
  PROVE  SumFunction(Claims(t)') =
           SumFunction(Claims(t)) - Claim(tokens[c][i], t) + Claim(tok, t)
<1> DEFINE f == Claims(t)
           g == Claims(t)'
           k == <<c, i>>
<1>1. IsFiniteSet(Held) /\ f \in [Held -> Nat] /\ g \in [Held -> Nat] /\ k \in Held
  <2>1. IsFiniteSet(Held) /\ f \in [Held -> Nat] /\ k \in Held
    BY ClaimsType DEF Held
  <2>2. ASSUME NEW j \in Held PROVE Claim(tokens'[j[1]][j[2]], t) \in Nat
    <3>1. tokens'[j[1]][j[2]].remaining \in Nat
      BY BudgetAssumption DEF TypeOK, Held, BudgetAssumption, ReservationTokens, Word
    <3>2. QED
      BY <3>1 DEF Claim
  <2>3. QED
    BY <2>1, <2>2 DEF Claims, Held
<1>2. f[k] = Claim(tokens[c][i], t) /\ g[k] = Claim(tok, t)
  BY DEF Claims, TypeOK
<1>3. \A j \in Held \ {k} : g[j] = f[j]
  BY DEF Claims, TypeOK, Held
<1> HIDE DEF f, g, k
<1>4. SumFunction(g) = SumFunction(f) - f[k] + g[k]
  BY <1>1, <1>3, SumChange
<1>5. QED
  BY <1>2, <1>4 DEF f, g

\* reserve: up to three claims of a client that claimed nothing there.
LEMMA ReserveClaims ==
  ASSUME TypeOK, TypeOK', NEW c \in Clients, NEW reqs \in RequestBatches, DoReserve(c, reqs),
         NEW t \in Tiers
  PROVE  SumFunction(Claims(t)') = SumFunction(Claims(t)) + Requested(reqs, t)
<1> DEFINE f0 == Claims(t)
           new(i) == IF i <= Len(reqs) THEN AmountAt(reqs, i, t) ELSE Claim(tokens[c][i], t)
           f1 == [f0 EXCEPT ![<<c, 1>>] = new(1)]
           f2 == [f1 EXCEPT ![<<c, 2>>] = new(2)]
           f3 == [f2 EXCEPT ![<<c, 3>>] = new(3)]
<1>1. reqs \in Seq(ReservationRequests) /\ Len(reqs) \in 1 .. 3
  BY ClientAssumption DEF ClientAssumption, DoReserve, ReserveOk
<1>2. IsFiniteSet(Held) /\ f0 \in [Held -> Nat]
      /\ <<c, 1>> \in Held /\ <<c, 2>> \in Held /\ <<c, 3>> \in Held
  <2>1. IsFiniteSet(Held) /\ f0 \in [Held -> Nat]
    BY ClaimsType
  <2>2. <<c, 1>> \in Held /\ <<c, 2>> \in Held /\ <<c, 3>> \in Held
    BY DEF Held, Slots
  <2>3. QED
    BY <2>1, <2>2
<1>3. ASSUME NEW i \in Slots
      PROVE  /\ f0[<<c, i>>] = Claim(tokens[c][i], t) /\ f0[<<c, i>>] \in Nat
             /\ i <= Len(reqs) => f0[<<c, i>>] = 0
             /\ AmountAt(reqs, i, t) \in Nat
             /\ new(i) \in Nat /\ new(i) - f0[<<c, i>>] = AmountAt(reqs, i, t)
             /\ Claims(t)'[<<c, i>>] = new(i)
  <2>1. f0[<<c, i>>] = Claim(tokens[c][i], t) /\ f0[<<c, i>>] \in Nat
    BY <1>2 DEF Claims, Held
  <2>2. i <= Len(reqs) => f0[<<c, i>>] = 0
    <3>1. i <= Len(reqs) => i \in 1 .. Len(reqs)
      BY <1>1 DEF Slots
    <3>2. QED
      BY <2>1, <3>1 DEF DoReserve, Claim
  <2>3. AmountAt(reqs, i, t) \in Nat /\ (~(i <= Len(reqs)) => AmountAt(reqs, i, t) = 0)
    <3>1. i <= Len(reqs) => reqs[i] \in ReservationRequests
      BY <1>1 DEF Slots
    <3>2. QED
      BY <3>1, BudgetAssumption DEF AmountAt, ReservationRequests, Word, BudgetAssumption
  <2>4. Claims(t)'[<<c, i>>] = new(i)
    <3>1. Claims(t)'[<<c, i>>] = Claim(tokens'[c][i], t)
      BY DEF Claims
    <3>2. tokens'[c][i] = IF i <= Len(reqs) THEN TokenFor(reqs[i]) ELSE tokens[c][i]
      BY DEF DoReserve, TypeOK
    <3>3. i <= Len(reqs) => Claim(TokenFor(reqs[i]), t) = AmountAt(reqs, i, t)
      BY DEF Claim, TokenFor, AmountAt
    <3>4. QED
      BY <3>1, <3>2, <3>3
  <2>5. new(i) \in Nat /\ new(i) - f0[<<c, i>>] = AmountAt(reqs, i, t)
    <3>1. CASE i <= Len(reqs)
      BY <2>2, <2>3, <3>1
    <3>2. CASE ~(i <= Len(reqs))
      BY <2>1, <2>3, <3>2
    <3>3. QED
      BY <3>1, <3>2
  <2>6. QED
    BY <2>1, <2>2, <2>3, <2>4, <2>5
<1>4. Claims(t)' = f3
  <2>1. ASSUME NEW k \in Held PROVE Claims(t)'[k] = f3[k]
    <3>1. CASE k[1] = c
      <4>1. PICK i \in Slots : k = <<c, i>>
        BY <3>1 DEF Held
      <4>2. f3[k] = new(i)
        BY <1>2, <4>1 DEF Slots
      <4>3. QED
        BY <1>3, <4>1, <4>2
    <3>2. CASE k[1] # c
      <4>1. tokens'[k[1]] = tokens[k[1]]
        BY <3>2 DEF DoReserve, TypeOK, Held
      <4>2. Claims(t)'[k] = f0[k]
        BY <4>1 DEF Claims, Held
      <4>3. f3[k] = f0[k]
        BY <1>2, <3>2
      <4>4. QED
        BY <4>2, <4>3
    <3>3. QED
      BY <3>1, <3>2
  <2>2. DOMAIN Claims(t)' = Held /\ DOMAIN f3 = Held
    BY <1>2 DEF Claims, Held
  <2>3. Claims(t)' = [k \in Held |-> Claims(t)'[k]] /\ f3 = [k \in Held |-> f3[k]]
    BY <1>2, <2>2 DEF Claims, Held
  <2>4. QED
    BY <2>1, <2>3
<1>5. /\ new(1) \in Nat /\ new(2) \in Nat /\ new(3) \in Nat
      /\ f0[<<c, 1>>] \in Nat /\ f0[<<c, 2>>] \in Nat /\ f0[<<c, 3>>] \in Nat
      /\ new(1) - f0[<<c, 1>>] = AmountAt(reqs, 1, t)
      /\ new(2) - f0[<<c, 2>>] = AmountAt(reqs, 2, t)
      /\ new(3) - f0[<<c, 3>>] = AmountAt(reqs, 3, t)
  BY <1>3 DEF Slots
<1> HIDE DEF f0, new
<1>6. f1 \in [Held -> Nat] /\ f2 \in [Held -> Nat] /\ f3 \in [Held -> Nat]
  BY <1>2, <1>5
<1>7. SumFunction(f1) = SumFunction(f0) - f0[<<c, 1>>] + f1[<<c, 1>>]
  <2>1. \A j \in Held \ {<<c, 1>>} : f1[j] = f0[j]
    BY <1>2, <1>6
  <2> HIDE DEF f1, f2, f3
  <2>2. QED
    BY <1>2, <1>6, <2>1, SumChange
<1>8. SumFunction(f2) = SumFunction(f1) - f1[<<c, 2>>] + f2[<<c, 2>>]
  <2>1. \A j \in Held \ {<<c, 2>>} : f2[j] = f1[j]
    BY <1>2, <1>6
  <2> HIDE DEF f1, f2, f3
  <2>2. QED
    BY <1>2, <1>6, <2>1, SumChange
<1>9. SumFunction(f3) = SumFunction(f2) - f2[<<c, 3>>] + f3[<<c, 3>>]
  <2>1. \A j \in Held \ {<<c, 3>>} : f3[j] = f2[j]
    BY <1>2, <1>6
  <2> HIDE DEF f1, f2, f3
  <2>2. QED
    BY <1>2, <1>6, <2>1, SumChange
<1>10. /\ f1[<<c, 1>>] = new(1) /\ f1[<<c, 2>>] = f0[<<c, 2>>] /\ f2[<<c, 2>>] = new(2)
       /\ f2[<<c, 3>>] = f0[<<c, 3>>] /\ f3[<<c, 3>>] = new(3)
  BY <1>2
<1>11. SumFunction(f0) \in Nat
  BY <1>2, SumType
<1> HIDE DEF f1, f2, f3
<1>12. SumFunction(f3) = SumFunction(f0) + Requested(reqs, t)
  BY <1>5, <1>7, <1>8, <1>9, <1>10, <1>11 DEF Requested
<1>13. QED
  BY <1>4, <1>12 DEF f0

\* Each operation on a token takes from reserved what it takes from the claim.
LEMMA TokenOpsKeepClaims ==
  ASSUME TypeOK, TypeOK', ReservedIsClaimed, NEW c \in Clients, NEW i \in Slots,
         NEW n \in Word, NEW t \in Tiers,
         DoMaterialize(c, i, n) \/ DoReleaseReservation(c, i) \/ DoRecordContractDebt(c, i, n)
  PROVE  ledger'[t].reserved = SumFunction(Claims(t)')
<1> DEFINE tok == tokens[c][i]
<1>1. tok \in ReservationTokens /\ ledger \in Ledgers /\ n \in Word /\ tok.remaining \in Nat
  BY TokenType, BudgetAssumption DEF BudgetAssumption, TypeOK, ReservationTokens, Word
<1>2. ledger[t].reserved = SumFunction(Claims(t)) /\ SumFunction(Claims(t)) \in Nat
  BY ClaimsType, SumType DEF ReservedIsClaimed
<1>3. n \in Nat
  BY <1>1, BudgetAssumption DEF BudgetAssumption, Word
<1>4. CASE DoMaterialize(c, i, n)
  <2>1. tok.active /\ tokens' = [tokens EXCEPT ![c][i] = MaterializedToken(tok, n)]
    BY <1>4 DEF DoMaterialize, MaterializeOk, TypeOK
  <2>2. ledger'[t].reserved = ledger[t].reserved - (IF tok.tier = t THEN n ELSE 0)
    BY <1>1, <1>4, TokensMoveReserved DEF DoMaterialize
  <2>3. Claim(MaterializedToken(tok, n), t) = Claim(tok, t) - (IF tok.tier = t THEN n ELSE 0)
    BY <1>1, <1>3, <2>1 DEF Claim, MaterializedToken, ReservationTokens
  <2>4. Claim(tok, t) \in Nat
    BY <1>1 DEF Claim
  <2>5. SumFunction(Claims(t)') =
          SumFunction(Claims(t)) - Claim(tok, t) + Claim(MaterializedToken(tok, n), t)
    BY <2>1, OneClaimChanges
  <2> HIDE DEF tok
  <2>6. QED
    BY <1>2, <1>3, <2>2, <2>3, <2>4, <2>5
<1>5. CASE DoReleaseReservation(c, i) \/ DoRecordContractDebt(c, i, n)
  <2>1. tok.active /\ tokens' = [tokens EXCEPT ![c][i] = InactiveToken]
    BY <1>5 DEF DoReleaseReservation, ReleaseReservationOk, DoRecordContractDebt,
                RecordContractDebtOk, Inactivate
  <2>2. ledger'[t].reserved = ledger[t].reserved - (IF tok.tier = t THEN tok.remaining ELSE 0)
    BY <1>1, <1>5, TokensMoveReserved DEF DoReleaseReservation, DoRecordContractDebt
  <2>3. Claim(InactiveToken, t) = 0
        /\ Claim(tok, t) = (IF tok.tier = t THEN tok.remaining ELSE 0)
    BY <2>1 DEF Claim, InactiveToken
  <2>4. SumFunction(Claims(t)') =
          SumFunction(Claims(t)) - Claim(tok, t) + Claim(InactiveToken, t)
    BY <2>1, OneClaimChanges
  <2> HIDE DEF tok
  <2>5. QED
    BY <1>1, <1>2, <2>2, <2>3, <2>4
<1>6. QED
  BY <1>4, <1>5

\* A tier's reserved counter is the sum of what all active tokens still claim, for
\* any number of clients: no reservation is lost, none is released twice.
THEOREM ClaimsHold == Spec => []ReservedIsClaimed
<1>1. Init => ReservedIsClaimed
  <2> SUFFICES ASSUME Init, NEW t \in Tiers
               PROVE  ledger[t].reserved = SumFunction(Claims(t))
    BY DEF ReservedIsClaimed
  <2>1. TypeOK
    BY InitIndInv DEF IndInv
  <2>2. Claims(t) = [k \in Held |-> 0]
    BY DEF Init, Claims, Held, Claim, InactiveToken
  <2>3. IsFiniteSet(Held)
    BY <2>1, ClaimsType
  <2>4. SumFunction([k \in Held |-> 0]) = 0
    BY <2>3, SumOfNothing
  <2>5. QED
    BY <2>2, <2>4 DEF Init, EmptyCounters
<1>2. IndInv /\ ReservedIsClaimed /\ [Next]_vars => ReservedIsClaimed'
  <2> SUFFICES ASSUME IndInv, ReservedIsClaimed, [Next]_vars, NEW t \in Tiers
               PROVE  ledger'[t].reserved = SumFunction(Claims(t)')
    BY DEF ReservedIsClaimed
  <2>1. TypeOK /\ TypeOK' /\ ledger \in Ledgers /\ Amounts \subseteq Word /\ 0 \in Word
    BY NextIndInv, ClientAssumption, BudgetAssumption
    DEF IndInv, TypeOK, ClientAssumption, BudgetAssumption, Word
  <2>2. ledger[t].reserved = SumFunction(Claims(t))
    BY DEF ReservedIsClaimed
  <2>3. ASSUME NEW c \in Clients, NEW reqs \in RequestBatches, DoReserve(c, reqs)
        PROVE  ledger'[t].reserved = SumFunction(Claims(t)')
    <3>1. SumFunction(Claims(t)') = SumFunction(Claims(t)) + Requested(reqs, t)
      BY <2>1, <2>3, ReserveClaims
    <3>2. reqs \in Seq(ReservationRequests)
      BY ClientAssumption DEF ClientAssumption
    <3>3. ledger'[t].reserved = ledger[t].reserved + Requested(reqs, t)
      BY <2>1, <2>3, <3>2, ReserveAddsRequested DEF DoReserve
    <3>4. QED
      BY <2>2, <3>1, <3>3
  <2>4. ASSUME NEW c \in Clients, NEW i \in Slots, NEW n \in Amounts,
               DoMaterialize(c, i, n) \/ DoRecordContractDebt(c, i, n)
        PROVE  ledger'[t].reserved = SumFunction(Claims(t)')
    BY <2>1, <2>4, TokenOpsKeepClaims
  <2>5. ASSUME NEW c \in Clients, NEW i \in Slots, DoReleaseReservation(c, i)
        PROVE  ledger'[t].reserved = SumFunction(Claims(t)')
    BY <2>1, <2>5, TokenOpsKeepClaims
  <2>6. ASSUME UNCHANGED tokens, ledger'[t].reserved = ledger[t].reserved
        PROVE  ledger'[t].reserved = SumFunction(Claims(t)')
    <3>1. Claims(t)' = Claims(t)
      BY <2>6 DEF Claims
    <3>2. QED
      BY <2>2, <2>6, <3>1
  <2>7. ASSUME NEW d \in Tiers, NEW st \in Tiers, NEW b \in Buckets, NEW m \in Amounts,
               NEW n \in Amounts,
               \/ DoCommitInitial(d, n) \/ DoCommitAndRetire(d, m, st, n)
               \/ DoReleaseMaterialized(d, b, n) \/ DoShrinkMaterialized(d, b, m, n)
               \/ DoExchangeCompaction(d, m, n) \/ DoMoveToDebt(d, b, n)
               \/ DoRetireCommitted(d, n) \/ DoReleaseCleanupDebt(d, n)
        PROVE  UNCHANGED tokens /\ ledger'[t].reserved = ledger[t].reserved
    BY <2>1, <2>7, MovesKeepReserved
    DEF DoCommitInitial, DoCommitAndRetire, DoReleaseMaterialized, DoShrinkMaterialized,
        DoExchangeCompaction, DoMoveToDebt, DoRetireCommitted, DoReleaseCleanupDebt
  <2>8. CASE UNCHANGED vars
    BY <2>6, <2>8 DEF vars
  <2>9. "staging" \in Buckets
    BY DEF Buckets
  <2>10. QED
    BY <2>3, <2>4, <2>5, <2>6, <2>7, <2>8, <2>9 DEF Next
<1>3. QED
  BY <1>1, <1>2, LedgerInvariant, PTL DEF Spec

\* An active token is always covered: release_reservation of it succeeds, and the
\* reserved counter never wraps below a claim.
THEOREM ActiveTokensCovered ==
  Spec => [](\A c \in Clients, i \in Slots :
               tokens[c][i].active => ReleaseReservationOk(ledger, tokens[c][i]))
<1>1. ASSUME TypeOK, ReservedIsClaimed, NEW c \in Clients, NEW i \in Slots, tokens[c][i].active
      PROVE  ReleaseReservationOk(ledger, tokens[c][i])
  <2> DEFINE t == tokens[c][i].tier
  <2>1. t \in Tiers /\ <<c, i>> \in Held
    BY <1>1, TokenType DEF ReservationTokens, Held
  <2>2. Claims(t)[<<c, i>>] <= SumFunction(Claims(t))
    BY <1>1, <2>1, ClaimsType, SumType
  <2>3. Claims(t)[<<c, i>>] = tokens[c][i].remaining
    BY <1>1, <2>1 DEF Claims, Claim, Held
  <2>4. QED
    BY <1>1, <2>1, <2>2, <2>3 DEF ReservedIsClaimed, ReleaseReservationOk
<1>2. TypeOK /\ ReservedIsClaimed =>
        \A c \in Clients, i \in Slots :
          tokens[c][i].active => ReleaseReservationOk(ledger, tokens[c][i])
  BY <1>1
<1>3. QED
  BY <1>2, LedgerTypes, ClaimsHold, PTL

=============================================================================
