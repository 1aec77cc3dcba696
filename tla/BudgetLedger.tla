---------------------------- MODULE BudgetLedger ----------------------------
(***************************************************************************)
(* BudgetLedger as a state machine: the counters of both tiers and the     *)
(* reservation tokens its clients hold.  Every public operation of the     *)
(* class is one action, taken under the ledger's mutex, so an action is    *)
(* atomic.  The clients are arbitrary: they call any operation with any    *)
(* amount, and the ledger must keep its promises whatever they do.  A call *)
(* whose condition fails returns an error and changes nothing, which is a  *)
(* stuttering step.                                                        *)
(***************************************************************************)
EXTENDS BudgetLedgerOps, FiniteSets, Functions

CONSTANTS
  Clients,        \* the callers: a transaction or an initial allocation each
  RequestBatches, \* the sequences of ReservationRequests a client may pass to reserve
  Amounts         \* the byte amounts clients name in the other calls

ASSUME ClientAssumption ==
  /\ IsFiniteSet(Clients)
  /\ RequestBatches \subseteq Seq(ReservationRequests)
  /\ Amounts \subseteq Word

VARIABLES
  ledger, \* gpu_ and host_
  tokens  \* the ReservationToken array of each client

vars == <<ledger, tokens>>

Slots == 1 .. 3

TypeOK ==
  /\ ledger \in Ledgers
  /\ tokens \in [Clients -> [Slots -> ReservationTokens]]

Init ==
  /\ ledger = [t \in Tiers |-> EmptyCounters]
  /\ tokens = [c \in Clients |-> [i \in Slots |-> InactiveToken]]

\* Mutant: a released token stays active, so it can be released again.
Inactivate_Forgotten(c, i) == tokens' = tokens

\* What release_reservation and record_contract_debt do to the token they consume.
Inactivate(c, i) == tokens' = [tokens EXCEPT ![c][i] = InactiveToken]

DoReserve(c, reqs) ==
  /\ \A i \in 1 .. Len(reqs) : ~tokens[c][i].active
  /\ ReserveOk(ledger, reqs)
  /\ ledger' = Reserve(ledger, reqs)
  /\ tokens' = [tokens EXCEPT ![c] =
       [i \in Slots |-> IF i <= Len(reqs) THEN TokenFor(reqs[i]) ELSE @[i]]]

DoMaterialize(c, i, exact) ==
  /\ MaterializeOk(ledger, tokens[c][i], exact)
  /\ ledger' = Materialize(ledger, tokens[c][i], exact)
  /\ tokens' = [tokens EXCEPT ![c][i] = MaterializedToken(@, exact)]

DoReleaseReservation(c, i) ==
  /\ ReleaseReservationOk(ledger, tokens[c][i])
  /\ ledger' = ReleaseReservation(ledger, tokens[c][i])
  /\ Inactivate(c, i)

DoRecordContractDebt(c, i, actual) ==
  /\ RecordContractDebtOk(ledger, tokens[c][i], actual)
  /\ ledger' = RecordContractDebt(ledger, tokens[c][i], actual)
  /\ Inactivate(c, i)

DoCommitInitial(t, amount) ==
  /\ CommitInitialOk(ledger, t, amount)
  /\ ledger' = CommitInitial(ledger, t, amount)
  /\ UNCHANGED tokens

DoCommitAndRetire(dt, damount, st, samount) ==
  /\ CommitAndRetireOk(ledger, dt, damount, st, samount)
  /\ ledger' = CommitAndRetire(ledger, dt, damount, st, samount)
  /\ UNCHANGED tokens

DoReleaseMaterialized(t, bucket, amount) ==
  /\ ReleaseMaterializedOk(ledger, t, bucket, amount)
  /\ ledger' = ReleaseMaterialized(ledger, t, bucket, amount)
  /\ UNCHANGED tokens

DoShrinkMaterialized(t, bucket, old, new) ==
  /\ ShrinkMaterializedOk(ledger, t, bucket, old, new)
  /\ ledger' = ShrinkMaterialized(ledger, t, bucket, old, new)
  /\ UNCHANGED tokens

DoExchangeCompaction(t, old, exact) ==
  /\ ExchangeCompactionOk(ledger, t, old, exact)
  /\ ledger' = ExchangeCompaction(ledger, t, old, exact)
  /\ UNCHANGED tokens

DoMoveToDebt(t, bucket, amount) ==
  /\ MoveToDebtOk(ledger, t, bucket, amount)
  /\ ledger' = MoveToDebt(ledger, t, bucket, amount)
  /\ UNCHANGED tokens

DoRetireCommitted(t, amount) ==
  /\ RetireCommittedOk(ledger, t, amount)
  /\ ledger' = RetireCommitted(ledger, t, amount)
  /\ UNCHANGED tokens

DoReleaseCleanupDebt(t, amount) ==
  /\ ReleaseCleanupDebtOk(ledger, t, amount)
  /\ ledger' = ReleaseCleanupDebt(ledger, t, amount)
  /\ UNCHANGED tokens

Next ==
  \/ \E c \in Clients, reqs \in RequestBatches : DoReserve(c, reqs)
  \/ \E c \in Clients, i \in Slots, n \in Amounts : DoMaterialize(c, i, n)
  \/ \E c \in Clients, i \in Slots : DoReleaseReservation(c, i)
  \/ \E c \in Clients, i \in Slots, n \in Amounts : DoRecordContractDebt(c, i, n)
  \/ \E t \in Tiers, n \in Amounts : DoCommitInitial(t, n)
  \/ \E dt, st \in Tiers, m, n \in Amounts : DoCommitAndRetire(dt, m, st, n)
  \/ \E t \in Tiers, b \in Buckets, n \in Amounts : DoReleaseMaterialized(t, b, n)
  \/ \E t \in Tiers, b \in Buckets, m, n \in Amounts : DoShrinkMaterialized(t, b, m, n)
  \/ \E t \in Tiers, m, n \in Amounts : DoExchangeCompaction(t, m, n)
  \/ \E t \in Tiers, b \in Buckets, n \in Amounts : DoMoveToDebt(t, b, n)
  \/ \E t \in Tiers, n \in Amounts : DoRetireCommitted(t, n)
  \/ \E t \in Tiers, n \in Amounts : DoReleaseCleanupDebt(t, n)

Spec == Init /\ [][Next]_vars

(***************************************************************************)
(* Properties                                                              *)
(***************************************************************************)

\* No sequence of calls, by any clients, charges a tier beyond its hard limit,
\* unless a client has reported an allocation it had no reservation for
\* (record_contract_debt), which closes the tier to admission.  Five separately
\* updated counters make up the charge.
HardLimitRespected ==
  \A t \in Tiers : ~ledger[t].admission_blocked => Total(ledger[t]) <= HardLimit[t]

\* The peak a tier reports is never below its charge, although only reserve,
\* materialize and record_contract_debt call update_peak: every other operation
\* only moves charge between buckets or drops it.
PeakCoversCharge ==
  \A t \in Tiers : ~ledger[t].admission_blocked => Total(ledger[t]) <= ledger[t].peak_charged

\* What the tokens of all clients claim of a tier.
Claims(t) == [k \in Clients \X Slots |-> Claim(tokens[k[1]][k[2]], t)]

\* A tier's reserved counter is exactly what the active tokens of all clients
\* still claim, so release_reservation and materialize of an active token never
\* meet the internal_invariant_violation they test for.
ReservedIsClaimed == \A t \in Tiers : ledger[t].reserved = SumFunction(Claims(t))

BlockStays ==
  \A t \in Tiers : ledger[t].admission_blocked =>
    /\ ledger'[t].admission_blocked
    /\ ledger'[t].reserved <= ledger[t].reserved

\* Once contract debt is recorded in a tier no operation admits a new
\* reservation there, and no operation lifts the block.
BlockedTierAdmitsNothing == [][BlockStays]_vars
=============================================================================
