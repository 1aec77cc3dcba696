-------------------------- MODULE TransactionBooks --------------------------
(***************************************************************************)
(* The books of the migrations: why the ledger never refuses what a thread *)
(* asks of it, so that migrate reaches none of its std::terminate calls.   *)
(*                                                                         *)
(*   - Balanced: a counter of a tier is the sum of what the threads and    *)
(*     the chunks have booked there: the tokens that still claim reserved  *)
(*     bytes, the destinations in staging, the workspaces and compaction   *)
(*     targets, the authorities and the cleanup lists.                     *)
(*   - WithinLimit: the charge of a tier stays within its hard limit, also *)
(*     of a tier closed to admission, so that no counter overflows.        *)
(*   - Apart: no two transactions have the same chunk, not even one that   *)
(*     poisoned it and still gives its resources back; and the cleanup     *)
(*     list has room for all that the one transaction may have to leave.   *)
(*   - Stocked: at each position a thread has the tokens and the           *)
(*     allocations the rest of its way needs, and no others.               *)
(*                                                                         *)
(* Together with TransactionInv these are inductive, and none of them is   *)
(* without the others.                                                     *)
(***************************************************************************)
EXTENDS TransactionInvariant

\* Only finitely many chunks exist, and an allocation is never charged more than its
\* bound: corroborate_allocation (include/vramz/detail/allocation.hpp) ends the process.
ASSUME BooksAssumption ==
  /\ IsFiniteSet(Chunks)
  /\ \A s \in States : \A n \in AllocationCharges[s] : n <= AllocationBound[s]

(***************************************************************************)
(* What a thread with locals l at position p, and a chunk ch, have booked  *)
(***************************************************************************)
Reserved(l, tier) == Claim(l.toks[1], tier) + Claim(l.toks[2], tier) + Claim(l.toks[3], tier)

TodoAt(l, i, b) ==
  IF i <= Len(l.todo) THEN (IF l.todo[i].bucket = b THEN l.todo[i].charge ELSE 0) ELSE 0

ToUndo(l, b) == TodoAt(l, 1, b) + TodoAt(l, 2, b) + TodoAt(l, 3, b)

Staged(p, l) ==
  IF p \in Unwinding THEN ToUndo(l, "staging")
  ELSE IF p \in Filled \ {"mat_dst"} THEN l.dst.charge ELSE 0

Worked(p, l) ==
  IF p \in Unwinding THEN ToUndo(l, "workspace")
  ELSE (IF p \in Filled \ {"mat_ws"} THEN l.ws.charge ELSE 0)
       + (IF p \in Filled \ {"mat_comp"} THEN l.comp.charge ELSE 0)

OwedAt(ch, i, tier) ==
  IF i <= Len(ch.cleanup)
  THEN (IF ch.cleanup[i].tier = tier THEN ch.cleanup[i].charge ELSE 0) ELSE 0

Owed(ch, tier) == OwedAt(ch, 1, tier) + OwedAt(ch, 2, tier) + OwedAt(ch, 3, tier)

ReservedOf(t, tier) == Reserved(loc[t], tier)
StagingOf(t, tier) == Part(TierOf(loc[t].dest), tier, Staged(pc[t], loc[t]))
WorkspaceOf(t, tier) == Part(TierOf(loc[t].dest), tier, Worked(pc[t], loc[t]))
CommittedOf(c, tier) == Part(TierOf(chunk[c].auth.state), tier, chunk[c].auth.charge)
DebtOf(c, tier) == Owed(chunk[c], tier)

Balanced ==
  \A tier \in Tiers :
    /\ ledger[tier].reserved = SumFunction([t \in Threads |-> ReservedOf(t, tier)])
    /\ ledger[tier].staging = SumFunction([t \in Threads |-> StagingOf(t, tier)])
    /\ ledger[tier].workspace = SumFunction([t \in Threads |-> WorkspaceOf(t, tier)])
    /\ ledger[tier].committed = SumFunction([c \in Chunks |-> CommittedOf(c, tier)])
    /\ ledger[tier].cleanup_debt = SumFunction([c \in Chunks |-> DebtOf(c, tier)])

WithinLimit == \A tier \in Tiers : Total(ledger[tier]) <= HardLimit[tier]

(***************************************************************************)
(* One transaction to a chunk                                              *)
(***************************************************************************)
Working == PreCommit \cup PostCommit \cup Unwinding

SourceOwed(l) == [id |-> l.src.resource, tier |-> TierOf(l.src.state), charge |-> l.src.charge]

\* The chunk ch of a thread t at position p: before the commit nothing is left to clean up,
\* after it the source.  A rollback has a slot for each resource it has still to give back,
\* and keeps everyone else off the chunk, by its transition or by the poison and the debt.
ChunkOf(p, l, ch, t) ==
  /\ p \in PreCommit => ch.cleanup = <<>>
  /\ p \in PostCommit => ch.cleanup = <<SourceOwed(l)>>
  /\ p \in Unwinding =>
       /\ Len(ch.cleanup) + Len(l.todo) <= 3
       /\ \/ ch.txn = t
          \/ ch.lifecycle = "poisoned" /\ ch.cleanup # <<>>

Apart ==
  /\ \A t \in Threads : pc[t] \in Working => ChunkOf(pc[t], loc[t], OwnChunk(t), t)
  /\ \A t, u \in Threads : t # u /\ pc[t] \in Working /\ pc[u] \in Working =>
       loc[t].chunk # loc[u].chunk
  /\ \A c \in Chunks : Len(chunk[c].cleanup) <= 3

(***************************************************************************)
(* Tokens and allocations along the way                                    *)
(***************************************************************************)
Transforms(l) == ~IsRaw(l.src.state) \/ ~IsRaw(l.dest)
Compacted(l) == CompactionBound[l.dest] # 0

TokenOf(l, bucket, n) ==
  [active |-> TRUE, tier |-> TierOf(l.dest), bucket |-> bucket, remaining |-> n]

FirstToken(l) == TokenOf(l, "staging", AllocationBound[l.dest])
SecondToken(l) == IF Transforms(l) THEN TokenOf(l, "workspace", WorkspaceBound) ELSE InactiveToken
ThirdToken(l) ==
  IF Compacted(l) THEN TokenOf(l, "workspace", CompactionBound[l.dest]) ELSE InactiveToken

Unreserved == {"project", "reserve"}
First == {"alloc_dst", "mat_dst"}
Second == {"alloc_ws", "mat_ws"}
Third == {"verify_src", "prepare", "mat_comp"}
Moving == {"transfer", "reconcile", "rel_comp", "settle_comp"}
Tokenless ==
  Unreserved \cup Moving \cup PostCommit \cup Leasing \cup {"idle", "begin", "verify"} \cup Verified

TokensAt(p, l) ==
  /\ p \in Tokenless => \A i \in 1 .. 3 : l.toks[i] = InactiveToken
  /\ p \in First => l.toks[1] = FirstToken(l) /\ l.toks[2] = SecondToken(l)
  /\ p \in Second => l.toks[1] = InactiveToken /\ l.toks[2] = SecondToken(l)
  /\ p \in Third => l.toks[1] = InactiveToken /\ l.toks[2] = InactiveToken
  /\ p \in First \cup Second \cup Third => l.toks[3] = ThirdToken(l)

AllocationsAt(p, l) ==
  /\ p = "mat_dst" => l.dst.charge <= AllocationBound[l.dest]
  /\ p \in Second => Transforms(l)
  /\ p \in Unreserved \cup First \cup {"alloc_ws", "commit"} => l.ws = NoAlloc
  /\ p = "mat_ws" => l.ws.charge = WorkspaceBound
  /\ p \in Unreserved \cup First \cup Second \cup {"verify_src", "prepare", "verify"} \cup Verified =>
       l.comp = NoAlloc
  /\ p = "mat_comp" =>
       /\ Compacted(l)
       /\ l.comp.charge <= CompactionBound[l.dest] /\ l.comp.charge <= l.dst.charge
  /\ p \in {"transfer", "reconcile"} =>
       IF Compacted(l) THEN l.comp.charge # 0 /\ l.comp.charge <= l.dst.charge
       ELSE l.comp = NoAlloc
  /\ p \in {"rel_comp", "settle_comp"} => Compacted(l)

\* The receipt of a transfer in the store st, which the ledger has not seen yet.
Receipt(p, l, st) ==
  p = "reconcile" => IF Compacted(l) THEN st[l.dst.id].charge = l.comp.charge
                     ELSE st[l.dst.id].charge <= l.dst.charge

Supplied(p, l, st) ==
  p # "terminated" /\ TokensAt(p, l) /\ AllocationsAt(p, l) /\ Receipt(p, l, st)

Stocked == \A t \in Threads : Supplied(pc[t], loc[t], store)

BooksInv == Balanced /\ WithinLimit /\ Apart /\ Stocked

\* Both invariants of the migrations, of which the one about the chunks and the
\* resources needs nothing of the other.
BookedInv == TransactionInv /\ BooksInv
=============================================================================
