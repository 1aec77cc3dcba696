----------------------- MODULE TransactionBooksProofs -----------------------
(***************************************************************************)
(* BooksInv holds initially and every step keeps it, so that the ledger    *)
(* refuses nothing a migration asks of it and no thread ends the process.  *)
(*                                                                         *)
(* A step changes what one thread and its chunk have booked, and the       *)
(* ledger must follow: Follows says that it does, and BalancedStep and     *)
(* LimitStep that this is enough, since a sum changes by what its one      *)
(* changed part does.  One lemma per action then says which bytes move.    *)
(***************************************************************************)
EXTENDS TransactionBooks, TransactionProofs

(***************************************************************************)
(* What is booked is a natural number, and the counters cover it           *)
(***************************************************************************)
LEMMA LocalShares ==
  ASSUME NEW l \in Locals
  PROVE  /\ \A u : /\ Reserved(l, u) \in Nat
                   /\ \A i \in 1 .. 3 : /\ Claim(l.toks[i], u) \in Nat
                                        /\ Claim(l.toks[i], u) <= Reserved(l, u)
         /\ \A p : Staged(p, l) \in Nat /\ Worked(p, l) \in Nat
<1>1. /\ l.toks \in [1 .. 3 -> ReservationTokens] /\ l.todo \in Seq(Items)
      /\ l.dst \in Allocations /\ l.ws \in Allocations /\ l.comp \in Allocations
  BY DEF Locals
<1>2. ASSUME NEW u
      PROVE  /\ Reserved(l, u) \in Nat
             /\ \A i \in 1 .. 3 : Claim(l.toks[i], u) \in Nat /\ Claim(l.toks[i], u) <= Reserved(l, u)
  <2>1. \A i \in 1 .. 3 : Claim(l.toks[i], u) \in Nat
    BY <1>1, WordFacts DEF Claim, ReservationTokens
  <2>2. PICK x \in Nat, y \in Nat, z \in Nat :
          x = Claim(l.toks[1], u) /\ y = Claim(l.toks[2], u) /\ z = Claim(l.toks[3], u)
    BY <2>1
  <2>3. Reserved(l, u) = x + y + z
    BY <2>2 DEF Reserved
  <2>4. \A i \in 1 .. 3 : Claim(l.toks[i], u) <= x + y + z
    <3>1. x <= x + y + z /\ y <= x + y + z /\ z <= x + y + z
      OBVIOUS
    <3>2. \A i \in 1 .. 3 : i = 1 \/ i = 2 \/ i = 3
      OBVIOUS
    <3>3. QED
      BY <2>2, <3>1, <3>2
  <2>5. QED
    BY <2>1, <2>3, <2>4
<1>3. ASSUME NEW b PROVE ToUndo(l, b) \in Nat
  <2>1. PICK s \in Seq(Items) : s = l.todo
    BY <1>1
  <2>2. ASSUME NEW i \in 1 .. 3 PROVE TodoAt(l, i, b) \in Nat
    <3>1. i <= Len(s) => s[i] \in Items
      OBVIOUS
    <3>2. i <= Len(s) => s[i].charge \in Nat
      BY <3>1, WordFacts DEF Items
    <3>3. QED
      BY <2>1, <3>2 DEF TodoAt
  <2>3. QED
    BY <2>2 DEF ToUndo
<1>4. l.dst.charge \in Nat /\ l.ws.charge \in Nat /\ l.comp.charge \in Nat
  BY <1>1, WordFacts DEF Allocations
<1>5. \A p : Staged(p, l) \in Nat /\ Worked(p, l) \in Nat
  BY <1>3, <1>4 DEF Staged, Worked
<1>6. QED
  BY <1>2, <1>5

LEMMA ChunkShares ==
  ASSUME NEW ch \in ChunkRecords PROVE \A u : Owed(ch, u) \in Nat
<1>1. PICK s \in Seq(CleanupResources) : s = ch.cleanup
  BY DEF ChunkRecords
<1>2. ASSUME NEW u, NEW i \in 1 .. 3 PROVE OwedAt(ch, i, u) \in Nat
  <2>1. i <= Len(s) => s[i] \in CleanupResources
    OBVIOUS
  <2>2. i <= Len(s) => s[i].charge \in Nat
    BY <2>1, WordFacts DEF CleanupResources
  <2>3. QED
    BY <1>1, <2>2 DEF OwedAt
<1>3. QED
  BY <1>2 DEF Owed

LEMMA ShareTypes ==
  ASSUME Typed, NEW u
  PROVE  /\ \A t \in Threads : /\ ReservedOf(t, u) \in Nat
                               /\ StagingOf(t, u) \in Nat
                               /\ WorkspaceOf(t, u) \in Nat
         /\ \A c \in Chunks : CommittedOf(c, u) \in Nat /\ DebtOf(c, u) \in Nat
<1>1. ASSUME NEW t \in Threads
      PROVE  ReservedOf(t, u) \in Nat /\ StagingOf(t, u) \in Nat /\ WorkspaceOf(t, u) \in Nat
  <2>1. loc[t] \in Locals
    BY DEF Typed
  <2>2. QED
    BY <2>1, LocalShares DEF ReservedOf, StagingOf, WorkspaceOf, Part
<1>2. ASSUME NEW c \in Chunks PROVE CommittedOf(c, u) \in Nat /\ DebtOf(c, u) \in Nat
  <2>1. chunk[c] \in ChunkRecords
    BY DEF Typed
  <2>2. chunk[c].auth.charge \in Nat
    BY <2>1, WordFacts DEF ChunkRecords, Authorities
  <2>3. QED
    BY <2>1, <2>2, ChunkShares DEF CommittedOf, DebtOf, Part
<1>3. QED
  BY <1>1, <1>2

LEMMA ShareTypesNext ==
  ASSUME Typed', NEW u
  PROVE  /\ \A t \in Threads : /\ ReservedOf(t, u)' \in Nat
                               /\ StagingOf(t, u)' \in Nat
                               /\ WorkspaceOf(t, u)' \in Nat
         /\ \A c \in Chunks : CommittedOf(c, u)' \in Nat /\ DebtOf(c, u)' \in Nat
<1>1. ASSUME NEW t \in Threads
      PROVE  ReservedOf(t, u)' \in Nat /\ StagingOf(t, u)' \in Nat /\ WorkspaceOf(t, u)' \in Nat
  <2>1. loc'[t] \in Locals
    BY DEF Typed
  <2>2. QED
    BY <2>1, LocalShares DEF ReservedOf, StagingOf, WorkspaceOf, Part
<1>2. ASSUME NEW c \in Chunks PROVE CommittedOf(c, u)' \in Nat /\ DebtOf(c, u)' \in Nat
  <2>1. chunk'[c] \in ChunkRecords
    BY DEF Typed
  <2>2. chunk'[c].auth.charge \in Nat
    BY <2>1, WordFacts DEF ChunkRecords, Authorities
  <2>3. QED
    BY <2>1, <2>2, ChunkShares DEF CommittedOf, DebtOf, Part
<1>3. QED
  BY <1>1, <1>2

\* The threads and the chunks are finitely many.
LEMMA FiniteFacts == IsFiniteSet(Threads) /\ IsFiniteSet(Chunks)
BY TransactionAssumption, BooksAssumption DEF TransactionAssumption, BooksAssumption

LEMMA Covered ==
  ASSUME Typed, Balanced, WithinLimit, NEW u \in Tiers
  PROVE  /\ \A t \in Threads : /\ ReservedOf(t, u) <= ledger[u].reserved
                               /\ StagingOf(t, u) <= ledger[u].staging
                               /\ WorkspaceOf(t, u) <= ledger[u].workspace
         /\ \A c \in Chunks : /\ CommittedOf(c, u) <= ledger[u].committed
                              /\ DebtOf(c, u) <= ledger[u].cleanup_debt
         /\ Total(ledger[u]) <= MaxWord /\ MaxWord \in Nat
<1>1. ASSUME NEW t \in Threads
      PROVE  /\ ReservedOf(t, u) <= ledger[u].reserved /\ StagingOf(t, u) <= ledger[u].staging
             /\ WorkspaceOf(t, u) <= ledger[u].workspace
  <2>1. PICK f, g, h : /\ f = [x \in Threads |-> ReservedOf(x, u)]
                       /\ g = [x \in Threads |-> StagingOf(x, u)]
                       /\ h = [x \in Threads |-> WorkspaceOf(x, u)]
    OBVIOUS
  <2>2. f \in [Threads -> Nat] /\ g \in [Threads -> Nat] /\ h \in [Threads -> Nat]
    BY <2>1, ShareTypes
  <2>3. f[t] <= SumFunction(f) /\ g[t] <= SumFunction(g) /\ h[t] <= SumFunction(h)
    BY <2>2, SumType, FiniteFacts
  <2>4. /\ ledger[u].reserved = SumFunction(f) /\ ledger[u].staging = SumFunction(g)
        /\ ledger[u].workspace = SumFunction(h)
    BY <2>1 DEF Balanced
  <2>5. f[t] = ReservedOf(t, u) /\ g[t] = StagingOf(t, u) /\ h[t] = WorkspaceOf(t, u)
    BY <2>1
  <2>6. QED
    BY <2>3, <2>4, <2>5
<1>2. ASSUME NEW c \in Chunks
      PROVE  CommittedOf(c, u) <= ledger[u].committed /\ DebtOf(c, u) <= ledger[u].cleanup_debt
  <2>1. PICK f, g : /\ f = [x \in Chunks |-> CommittedOf(x, u)]
                    /\ g = [x \in Chunks |-> DebtOf(x, u)]
    OBVIOUS
  <2>2. f \in [Chunks -> Nat] /\ g \in [Chunks -> Nat]
    BY <2>1, ShareTypes
  <2>3. f[c] <= SumFunction(f) /\ g[c] <= SumFunction(g)
    BY <2>2, SumType, FiniteFacts
  <2>4. ledger[u].committed = SumFunction(f) /\ ledger[u].cleanup_debt = SumFunction(g)
    BY <2>1 DEF Balanced
  <2>5. f[c] = CommittedOf(c, u) /\ g[c] = DebtOf(c, u)
    BY <2>1
  <2>6. QED
    BY <2>3, <2>4, <2>5
<1>3. Total(ledger[u]) <= MaxWord /\ MaxWord \in Nat
  <2>1. HardLimit[u] \in 0 .. MaxWord /\ MaxWord \in Nat
    BY BudgetAssumption DEF BudgetAssumption
  <2>2. PICK n \in Nat : n = Total(ledger[u])
    BY CountersNat DEF Typed, GoodLedger, Total
  <2>3. n <= HardLimit[u]
    BY <2>2 DEF WithinLimit
  <2>4. QED
    BY <2>1, <2>2, <2>3
<1>4. QED
  BY <1>1, <1>2, <1>3

(***************************************************************************)
(* The ledger follows the step of one thread on one chunk                  *)
(***************************************************************************)
Follows(t, c, tier) ==
  Booked(ledger[tier], ledger'[tier],
         ReservedOf(t, tier)' - ReservedOf(t, tier), StagingOf(t, tier)' - StagingOf(t, tier),
         WorkspaceOf(t, tier)' - WorkspaceOf(t, tier),
         CommittedOf(c, tier)' - CommittedOf(c, tier), DebtOf(c, tier)' - DebtOf(c, tier))

\* All that a thread and a chunk have booked of a tier.
Outlay(t, c, tier) ==
  ReservedOf(t, tier) + StagingOf(t, tier) + WorkspaceOf(t, tier)
    + CommittedOf(c, tier) + DebtOf(c, tier)

LEMMA OneShareChanges ==
  ASSUME NEW S, IsFiniteSet(S), NEW f \in [S -> Nat], NEW g \in [S -> Nat], NEW x \in S,
         \A y \in S \ {x} : g[y] = f[y], NEW a, a = SumFunction(f), NEW b, b = a + (g[x] - f[x])
  PROVE  b = SumFunction(g)
<1>1. SumFunction(g) = SumFunction(f) - f[x] + g[x] /\ SumFunction(f) \in Nat
  BY SumChange, SumType
<1>2. f[x] \in Nat /\ g[x] \in Nat
  OBVIOUS
<1>3. QED
  BY <1>1, <1>2

LEMMA BalancedStep ==
  ASSUME Typed, Typed', Balanced, NEW t \in Threads, Others(t), NEW c \in Chunks,
         \A d \in Chunks \ {c} : chunk'[d] = chunk[d],
         \A tier \in Tiers : Follows(t, c, tier)
  PROVE  Balanced'
<1> SUFFICES ASSUME NEW u \in Tiers
             PROVE  /\ ledger'[u].reserved = SumFunction([x \in Threads |-> ReservedOf(x, u)'])
                    /\ ledger'[u].staging = SumFunction([x \in Threads |-> StagingOf(x, u)'])
                    /\ ledger'[u].workspace = SumFunction([x \in Threads |-> WorkspaceOf(x, u)'])
                    /\ ledger'[u].committed = SumFunction([x \in Chunks |-> CommittedOf(x, u)'])
                    /\ ledger'[u].cleanup_debt = SumFunction([x \in Chunks |-> DebtOf(x, u)'])
  BY DEF Balanced
<1>1. Follows(t, c, u)
  OBVIOUS
<1>2. /\ \A x \in Threads : /\ ReservedOf(x, u) \in Nat /\ ReservedOf(x, u)' \in Nat
                            /\ StagingOf(x, u) \in Nat /\ StagingOf(x, u)' \in Nat
                            /\ WorkspaceOf(x, u) \in Nat /\ WorkspaceOf(x, u)' \in Nat
      /\ \A x \in Chunks : /\ CommittedOf(x, u) \in Nat /\ CommittedOf(x, u)' \in Nat
                           /\ DebtOf(x, u) \in Nat /\ DebtOf(x, u)' \in Nat
  <2>1. /\ \A x \in Threads : ReservedOf(x, u) \in Nat /\ StagingOf(x, u) \in Nat
                              /\ WorkspaceOf(x, u) \in Nat
        /\ \A x \in Chunks : CommittedOf(x, u) \in Nat /\ DebtOf(x, u) \in Nat
    BY ShareTypes
  <2>2. /\ \A x \in Threads : ReservedOf(x, u)' \in Nat /\ StagingOf(x, u)' \in Nat
                              /\ WorkspaceOf(x, u)' \in Nat
        /\ \A x \in Chunks : CommittedOf(x, u)' \in Nat /\ DebtOf(x, u)' \in Nat
    BY ShareTypesNext
  <2>3. QED
    BY <2>1, <2>2
<1>3. \A x \in Threads \ {t} : /\ ReservedOf(x, u)' = ReservedOf(x, u)
                               /\ StagingOf(x, u)' = StagingOf(x, u)
                               /\ WorkspaceOf(x, u)' = WorkspaceOf(x, u)
  BY DEF Others, ReservedOf, StagingOf, WorkspaceOf
<1>4. \A x \in Chunks \ {c} : CommittedOf(x, u)' = CommittedOf(x, u) /\ DebtOf(x, u)' = DebtOf(x, u)
  BY DEF CommittedOf, DebtOf
<1>5. ledger'[u].reserved = SumFunction([x \in Threads |-> ReservedOf(x, u)'])
  <2>1. PICK f, g : f = [x \in Threads |-> ReservedOf(x, u)] /\ g = [x \in Threads |-> ReservedOf(x, u)']
    OBVIOUS
  <2>2. f \in [Threads -> Nat] /\ g \in [Threads -> Nat] /\ \A x \in Threads \ {t} : g[x] = f[x]
    BY <1>2, <1>3, <2>1
  <2>3. ledger[u].reserved = SumFunction(f)
    BY <2>1 DEF Balanced
  <2>4. ledger'[u].reserved = ledger[u].reserved + (g[t] - f[t])
    BY <1>1, <2>1 DEF Follows, Booked
  <2>5. QED
    BY <2>1, <2>2, <2>3, <2>4, OneShareChanges, FiniteFacts
<1>6. ledger'[u].staging = SumFunction([x \in Threads |-> StagingOf(x, u)'])
  <2>1. PICK f, g : f = [x \in Threads |-> StagingOf(x, u)] /\ g = [x \in Threads |-> StagingOf(x, u)']
    OBVIOUS
  <2>2. f \in [Threads -> Nat] /\ g \in [Threads -> Nat] /\ \A x \in Threads \ {t} : g[x] = f[x]
    BY <1>2, <1>3, <2>1
  <2>3. ledger[u].staging = SumFunction(f)
    BY <2>1 DEF Balanced
  <2>4. ledger'[u].staging = ledger[u].staging + (g[t] - f[t])
    BY <1>1, <2>1 DEF Follows, Booked
  <2>5. QED
    BY <2>1, <2>2, <2>3, <2>4, OneShareChanges, FiniteFacts
<1>7. ledger'[u].workspace = SumFunction([x \in Threads |-> WorkspaceOf(x, u)'])
  <2>1. PICK f, g : /\ f = [x \in Threads |-> WorkspaceOf(x, u)]
                    /\ g = [x \in Threads |-> WorkspaceOf(x, u)']
    OBVIOUS
  <2>2. f \in [Threads -> Nat] /\ g \in [Threads -> Nat] /\ \A x \in Threads \ {t} : g[x] = f[x]
    BY <1>2, <1>3, <2>1
  <2>3. ledger[u].workspace = SumFunction(f)
    BY <2>1 DEF Balanced
  <2>4. ledger'[u].workspace = ledger[u].workspace + (g[t] - f[t])
    BY <1>1, <2>1 DEF Follows, Booked
  <2>5. QED
    BY <2>1, <2>2, <2>3, <2>4, OneShareChanges, FiniteFacts
<1>8. ledger'[u].committed = SumFunction([x \in Chunks |-> CommittedOf(x, u)'])
  <2>1. PICK f, g : /\ f = [x \in Chunks |-> CommittedOf(x, u)]
                    /\ g = [x \in Chunks |-> CommittedOf(x, u)']
    OBVIOUS
  <2>2. f \in [Chunks -> Nat] /\ g \in [Chunks -> Nat] /\ \A x \in Chunks \ {c} : g[x] = f[x]
    BY <1>2, <1>4, <2>1
  <2>3. ledger[u].committed = SumFunction(f)
    BY <2>1 DEF Balanced
  <2>4. ledger'[u].committed = ledger[u].committed + (g[c] - f[c])
    BY <1>1, <2>1 DEF Follows, Booked
  <2>5. QED
    BY <2>1, <2>2, <2>3, <2>4, OneShareChanges, FiniteFacts
<1>9. ledger'[u].cleanup_debt = SumFunction([x \in Chunks |-> DebtOf(x, u)'])
  <2>1. PICK f, g : f = [x \in Chunks |-> DebtOf(x, u)] /\ g = [x \in Chunks |-> DebtOf(x, u)']
    OBVIOUS
  <2>2. f \in [Chunks -> Nat] /\ g \in [Chunks -> Nat] /\ \A x \in Chunks \ {c} : g[x] = f[x]
    BY <1>2, <1>4, <2>1
  <2>3. ledger[u].cleanup_debt = SumFunction(f)
    BY <2>1 DEF Balanced
  <2>4. ledger'[u].cleanup_debt = ledger[u].cleanup_debt + (g[c] - f[c])
    BY <1>1, <2>1 DEF Follows, Booked
  <2>5. QED
    BY <2>1, <2>2, <2>3, <2>4, OneShareChanges, FiniteFacts
<1>10. QED
  BY <1>5, <1>6, <1>7, <1>8, <1>9

\* A step that books no more than it gives back keeps the tier within its limit.
LEMMA LimitStep ==
  ASSUME Typed, Typed', WithinLimit, NEW t \in Threads, NEW c \in Chunks, NEW tier \in Tiers,
         Follows(t, c, tier), Outlay(t, c, tier)' <= Outlay(t, c, tier)
  PROVE  Total(ledger'[tier]) <= HardLimit[tier]
<1>1. PICK x1 \in Nat, x2 \in Nat, x3 \in Nat, x4 \in Nat, x5 \in Nat :
        /\ x1 = ReservedOf(t, tier) /\ x2 = StagingOf(t, tier) /\ x3 = WorkspaceOf(t, tier)
        /\ x4 = CommittedOf(c, tier) /\ x5 = DebtOf(c, tier)
  BY ShareTypes
<1>2. PICK y1 \in Nat, y2 \in Nat, y3 \in Nat, y4 \in Nat, y5 \in Nat :
        /\ y1 = ReservedOf(t, tier)' /\ y2 = StagingOf(t, tier)' /\ y3 = WorkspaceOf(t, tier)'
        /\ y4 = CommittedOf(c, tier)' /\ y5 = DebtOf(c, tier)'
  BY ShareTypesNext
<1>3. PICK r \in Int, s \in Int, w \in Int, m \in Int, b \in Int :
        r = y1 - x1 /\ s = y2 - x2 /\ w = y3 - x3 /\ m = y4 - x4 /\ b = y5 - x5
  OBVIOUS
<1>4. Booked(ledger[tier], ledger'[tier], r, s, w, m, b)
  BY <1>1, <1>2, <1>3 DEF Follows
<1>5. y1 + y2 + y3 + y4 + y5 <= x1 + x2 + x3 + x4 + x5
  BY <1>1, <1>2 DEF Outlay
<1>6. Total(ledger'[tier]) = Total(ledger[tier]) + (r + s + w + m + b)
  BY <1>4, BookedTotal DEF Typed, GoodLedger
<1>7. PICK n \in Nat, h \in Nat : n = Total(ledger[tier]) /\ h = HardLimit[tier]
  <2>1. Total(ledger[tier]) \in Nat
    BY CountersNat DEF Typed, GoodLedger, Total
  <2>2. HardLimit[tier] \in Nat
    BY BudgetAssumption DEF BudgetAssumption
  <2>3. QED
    BY <2>1, <2>2
<1>8. n <= h
  BY <1>7 DEF WithinLimit
<1>9. n + (r + s + w + m + b) <= h
  BY <1>3, <1>5, <1>8
<1>10. QED
  BY <1>6, <1>7, <1>9

\* Where nothing is booked the books stay as they are.
LEMMA PlainBooks ==
  ASSUME Balanced, WithinLimit, UNCHANGED ledger,
         \A tier \in Tiers, u \in Threads : /\ ReservedOf(u, tier)' = ReservedOf(u, tier)
                                            /\ StagingOf(u, tier)' = StagingOf(u, tier)
                                            /\ WorkspaceOf(u, tier)' = WorkspaceOf(u, tier),
         \A tier \in Tiers, d \in Chunks : /\ CommittedOf(d, tier)' = CommittedOf(d, tier)
                                           /\ DebtOf(d, tier)' = DebtOf(d, tier)
  PROVE  Balanced' /\ WithinLimit'
<1>1. ASSUME NEW u \in Tiers
      PROVE  /\ [x \in Threads |-> ReservedOf(x, u)'] = [x \in Threads |-> ReservedOf(x, u)]
             /\ [x \in Threads |-> StagingOf(x, u)'] = [x \in Threads |-> StagingOf(x, u)]
             /\ [x \in Threads |-> WorkspaceOf(x, u)'] = [x \in Threads |-> WorkspaceOf(x, u)]
             /\ [x \in Chunks |-> CommittedOf(x, u)'] = [x \in Chunks |-> CommittedOf(x, u)]
             /\ [x \in Chunks |-> DebtOf(x, u)'] = [x \in Chunks |-> DebtOf(x, u)]
  OBVIOUS
<1>2. Balanced'
  BY <1>1 DEF Balanced
<1>3. WithinLimit'
  BY DEF WithinLimit
<1>4. QED
  BY <1>2, <1>3

(***************************************************************************)
(* The other threads                                                       *)
(***************************************************************************)
\* A chunk keeps what its transaction relies on.
ChunkStays(d) ==
  /\ chunk'[d].cleanup = chunk[d].cleanup /\ chunk'[d].txn = chunk[d].txn
  /\ chunk[d].lifecycle = "poisoned" => chunk'[d].lifecycle = "poisoned"

LEMMA ApartStep ==
  ASSUME Apart, NEW t \in Threads, Others(t),
         \A u \in Threads \ {t} : pc[u] \in Working => ChunkStays(loc[u].chunk),
         pc'[t] \in Working =>
           /\ ChunkOf(pc'[t], loc'[t], chunk'[loc'[t].chunk], t)
           /\ \A u \in Threads \ {t} : pc[u] \in Working => loc[u].chunk # loc'[t].chunk,
         \A d \in Chunks : Len(chunk'[d].cleanup) <= 3
  PROVE  Apart'
<1>1. ASSUME NEW u \in Threads, pc'[u] \in Working
      PROVE  ChunkOf(pc'[u], loc'[u], chunk'[loc'[u].chunk], u)
  <2>1. CASE u = t
    BY <1>1, <2>1
  <2>2. CASE u # t
    <3>1. pc'[u] = pc[u] /\ loc'[u] = loc[u]
      BY <2>2 DEF Others
    <3>2. PICK k, d : k = chunk[loc[u].chunk] /\ d = chunk'[loc[u].chunk]
      OBVIOUS
    <3>3. ChunkOf(pc[u], loc[u], k, u)
      BY <1>1, <3>1, <3>2 DEF Apart, OwnChunk
    <3>4. /\ d.cleanup = k.cleanup /\ d.txn = k.txn
          /\ k.lifecycle = "poisoned" => d.lifecycle = "poisoned"
      BY <1>1, <2>2, <3>1, <3>2 DEF ChunkStays
    <3>5. ChunkOf(pc[u], loc[u], d, u)
      BY <3>3, <3>4 DEF ChunkOf
    <3>6. QED
      BY <3>1, <3>2, <3>5
  <2>3. QED
    BY <2>1, <2>2
<1>2. ASSUME NEW u \in Threads, NEW v \in Threads, u # v, pc'[u] \in Working, pc'[v] \in Working
      PROVE  loc'[u].chunk # loc'[v].chunk
  BY <1>2 DEF Apart, Others
<1>3. QED
  BY <1>1, <1>2 DEF Apart, OwnChunk

LEMMA StockedStep ==
  ASSUME Stocked, NEW t \in Threads, Others(t), Supplied(pc'[t], loc'[t], store'),
         \A u \in Threads \ {t} : pc[u] = "reconcile" =>
           store'[loc[u].dst.id].charge = store[loc[u].dst.id].charge
  PROVE  Stocked'
<1>1. ASSUME NEW u \in Threads \ {t} PROVE Supplied(pc[u], loc[u], store')
  <2>1. Supplied(pc[u], loc[u], store)
    BY DEF Stocked
  <2>2. QED
    BY <2>1 DEF Supplied, Receipt
<1>2. \A u \in Threads \ {t} : Supplied(pc'[u], loc'[u], store')
  BY <1>1 DEF Others
<1>3. QED
  BY <1>2 DEF Stocked

\* Nobody else touches a destination whose receipt is on its way.
LEMMA QuietReceipts ==
  ASSUME TransactionInv, NEW t \in Threads, Quiet(t)
  PROVE  \A u \in Threads \ {t} : pc[u] = "reconcile" =>
           store'[loc[u].dst.id].charge = store[loc[u].dst.id].charge
<1> SUFFICES ASSUME NEW u \in Threads \ {t}, pc[u] = "reconcile"
             PROVE  store'[loc[u].dst.id] = store[loc[u].dst.id]
  OBVIOUS
<1>1. pc[u] \in Filled /\ pc[u] \in PreCommit /\ pc[u] \notin PostCommit
  BY DEF Filled, PreCommit, PostCommit
<1>2. loc[u].dst.id \in Resources /\ store[loc[u].dst.id] # None
  BY <1>1, FilledFacts DEF DeliveringAt
<1>3. loc[u].dst.id \in Claims(u)
  BY <1>1, <1>2, TransactionAssumption DEF Claims, ClaimsAt, TransactionAssumption
<1>4. loc[u].dst.id \notin Claims(t)
  BY <1>3 DEF TransactionInv, Claimed
<1>5. loc[u].dst.id \notin Fresh
  BY <1>2 DEF Fresh
<1>6. QED
  BY <1>2, <1>4, <1>5 DEF Quiet

(***************************************************************************)
(* A step of a transaction                                                 *)
(***************************************************************************)
LEMMA WorkBooks ==
  ASSUME TransactionInv, TransactionInv', BooksInv, NEW t \in Threads, pc[t] \in Working,
         Others(t), Quiet(t), NEW c \in Chunks, c = loc[t].chunk,
         \A d \in Chunks \ {c} : chunk'[d] = chunk[d],
         \A tier \in Tiers : Follows(t, c, tier) /\ Total(ledger'[tier]) <= HardLimit[tier],
         Len(chunk'[c].cleanup) <= 3,
         pc'[t] \in Working => loc'[t].chunk = c /\ ChunkOf(pc'[t], loc'[t], chunk'[c], t),
         Supplied(pc'[t], loc'[t], store')
  PROVE  BooksInv'
<1>1. Typed /\ Typed'
  BY DEF TransactionInv
<1>2. Balanced'
  BY <1>1, BalancedStep DEF BooksInv
<1>3. WithinLimit'
  BY DEF WithinLimit
<1>4. Apart'
  <2>1. ASSUME NEW u \in Threads \ {t}, pc[u] \in Working
        PROVE  ChunkStays(loc[u].chunk) /\ loc[u].chunk # c
    <3>1. loc[u].chunk # c
      BY <2>1 DEF BooksInv, Apart
    <3>2. loc[u].chunk \in Chunks
      BY <2>1, WorkFacts DEF Working
    <3>3. chunk'[loc[u].chunk] = chunk[loc[u].chunk]
      BY <3>1, <3>2
    <3>4. QED
      BY <3>1, <3>3 DEF ChunkStays
  <2>2. \A d \in Chunks : Len(chunk'[d].cleanup) <= 3
    <3>1. ASSUME NEW d \in Chunks PROVE Len(chunk'[d].cleanup) <= 3
      <4>1. CASE d = c
        BY <4>1
      <4>2. CASE d # c
        <5>1. chunk'[d] = chunk[d]
          BY <4>2
        <5>2. Len(chunk[d].cleanup) <= 3
          BY DEF BooksInv, Apart
        <5>3. QED
          BY <5>1, <5>2
      <4>3. QED
        BY <4>1, <4>2
    <3>2. QED
      BY <3>1
  <2>3. Apart
    BY DEF BooksInv
  <2>4. QED
    BY <2>1, <2>2, <2>3, ApartStep
<1>5. Stocked'
  BY QuietReceipts, StockedStep DEF BooksInv
<1>6. QED
  BY <1>2, <1>3, <1>4, <1>5 DEF BooksInv

\* A chunk in a transaction always has a slot left.
LEMMA RoomLeft ==
  ASSUME NEW p \in Working, NEW l \in Locals, NEW ch \in ChunkRecords, NEW t, ChunkOf(p, l, ch, t)
  PROVE  Len(ch.cleanup) <= 3
<1>1. PICK s \in Seq(CleanupResources), r \in Seq(Items) : s = ch.cleanup /\ r = l.todo
  BY DEF ChunkRecords, Locals
<1>2. PICK m \in Nat, n \in Nat : m = Len(s) /\ n = Len(r)
  OBVIOUS
<1>3. CASE p \in PreCommit
  <2>1. s = <<>>
    BY <1>1, <1>3 DEF ChunkOf
  <2>2. m = 0
    BY <1>2, <2>1
  <2>3. m <= 3
    BY <2>2
  <2>4. QED
    BY <1>1, <1>2, <2>3
<1>4. CASE p \in PostCommit
  <2>1. PICK e : s = <<e>>
    BY <1>1, <1>4 DEF ChunkOf
  <2>2. m = 1
    BY <1>2, <2>1
  <2>3. m <= 3
    BY <2>2
  <2>4. QED
    BY <1>1, <1>2, <2>3
<1>5. CASE p \in Unwinding
  <2>1. m + n <= 3
    BY <1>1, <1>2, <1>5 DEF ChunkOf
  <2>2. m <= 3
    BY <2>1
  <2>3. QED
    BY <1>1, <1>2, <2>2
<1>6. QED
  BY <1>3, <1>4, <1>5 DEF Working

LEMMA StayFollows ==
  ASSUME Typed, Typed', NEW t \in Threads, NEW c \in Chunks,
         NEW p, pc'[t] = p, NEW l, loc'[t] = l, l.dest = loc[t].dest,
         NEW ch, chunk'[c] = ch, chunk'[c].auth = chunk[c].auth,
         NEW r \in Int, NEW s \in Int, NEW w \in Int, NEW b \in Int,
         Staged(p, l) = Staged(pc[t], loc[t]) + s,
         Worked(p, l) = Worked(pc[t], loc[t]) + w,
         NEW tier \in Tiers,
         Reserved(l, tier) = Reserved(loc[t], tier) + Part(DestTier(t), tier, r),
         Owed(ch, tier) = Owed(chunk[c], tier) + Part(DestTier(t), tier, b),
         Booked(ledger[tier], ledger'[tier], Part(DestTier(t), tier, r),
                Part(DestTier(t), tier, s), Part(DestTier(t), tier, w), 0,
                Part(DestTier(t), tier, b))
  PROVE  /\ Follows(t, c, tier)
         /\ Outlay(t, c, tier)' = Outlay(t, c, tier) + Part(DestTier(t), tier, r + s + w + b)
<1>1. PICK x : x = DestTier(t)
  OBVIOUS
<1>2. PICK r1 \in Int, s1 \in Int, w1 \in Int, b1 \in Int :
        /\ r1 = Part(x, tier, r) /\ s1 = Part(x, tier, s)
        /\ w1 = Part(x, tier, w) /\ b1 = Part(x, tier, b)
  BY DEF Part
<1>3. PICK a1 \in Nat, a2 \in Nat, a3 \in Nat, a4 \in Nat, a5 \in Nat :
        /\ a1 = ReservedOf(t, tier) /\ a2 = StagingOf(t, tier) /\ a3 = WorkspaceOf(t, tier)
        /\ a4 = CommittedOf(c, tier) /\ a5 = DebtOf(c, tier)
  BY ShareTypes
<1>4. ReservedOf(t, tier)' = a1 + r1 /\ DebtOf(c, tier)' = a5 + b1
  BY <1>1, <1>2, <1>3 DEF ReservedOf, DebtOf
<1>5. StagingOf(t, tier)' = a2 + s1 /\ WorkspaceOf(t, tier)' = a3 + w1
  <2>1. PICK y \in Nat, z \in Nat : y = Staged(pc[t], loc[t]) /\ z = Worked(pc[t], loc[t])
    BY LocalShares DEF Typed
  <2>2. Staged(p, l) = y + s /\ Worked(p, l) = z + w
    BY <2>1
  <2>3. a2 = Part(x, tier, y) /\ a3 = Part(x, tier, z)
    BY <1>1, <1>3, <2>1 DEF StagingOf, WorkspaceOf, DestTier
  <2>4. /\ StagingOf(t, tier)' = Part(x, tier, y + s)
        /\ WorkspaceOf(t, tier)' = Part(x, tier, z + w)
    BY <1>1, <2>2 DEF StagingOf, WorkspaceOf, DestTier
  <2>5. QED
    BY <1>2, <2>3, <2>4 DEF Part
<1>6. CommittedOf(c, tier)' = a4
  BY <1>3 DEF CommittedOf
<1>7. Booked(ledger[tier], ledger'[tier], r1, s1, w1, 0, b1)
  BY <1>1, <1>2
<1>8. Follows(t, c, tier)
  BY <1>3, <1>4, <1>5, <1>6, <1>7 DEF Follows, Booked
<1>9. Outlay(t, c, tier)' = Outlay(t, c, tier) + (r1 + s1 + w1 + b1)
  BY <1>3, <1>4, <1>5, <1>6 DEF Outlay
<1>10. r1 + s1 + w1 + b1 = Part(x, tier, r + s + w + b)
  BY <1>2 DEF Part
<1>11. QED
  BY <1>1, <1>8, <1>9, <1>10

LEMMA StayBooks ==
  ASSUME TransactionInv, TransactionInv', BooksInv, NEW t \in Threads, pc[t] \in Working,
         Steady(t), Quiet(t), NEW c \in Chunks, c = loc[t].chunk,
         \A d \in Chunks \ {c} : chunk'[d] = chunk[d],
         NEW p \in Working, pc'[t] = p, NEW l, loc'[t] = l, l.dest = loc[t].dest, l.chunk = c,
         NEW ch, chunk'[c] = ch, ChunkOf(p, l, ch, t),
         Supplied(p, l, store'),
         NEW r \in Int, NEW s \in Int, NEW w \in Int, NEW b \in Int, r + s + w + b <= 0,
         Staged(p, l) = Staged(pc[t], loc[t]) + s,
         Worked(p, l) = Worked(pc[t], loc[t]) + w,
         \A tier \in Tiers :
           /\ Reserved(l, tier) = Reserved(loc[t], tier) + Part(DestTier(t), tier, r)
           /\ Owed(ch, tier) = Owed(chunk[c], tier) + Part(DestTier(t), tier, b)
           /\ Booked(ledger[tier], ledger'[tier], Part(DestTier(t), tier, r),
                     Part(DestTier(t), tier, s), Part(DestTier(t), tier, w), 0,
                     Part(DestTier(t), tier, b))
  PROVE  BooksInv'
<1>1. Typed /\ Typed' /\ chunk'[c].auth = chunk[c].auth /\ Others(t)
  BY DEF TransactionInv, Steady
<1>2. ASSUME NEW tier \in Tiers
      PROVE  Follows(t, c, tier) /\ Total(ledger'[tier]) <= HardLimit[tier]
  <2>1. /\ Follows(t, c, tier)
        /\ Outlay(t, c, tier)' = Outlay(t, c, tier) + Part(DestTier(t), tier, r + s + w + b)
    BY <1>1, StayFollows
  <2>2. PICK n \in Int : n = r + s + w + b
    OBVIOUS
  <2>3. Part(DestTier(t), tier, n) <= 0 /\ Part(DestTier(t), tier, n) \in Int
    BY <2>2 DEF Part
  <2>4. Outlay(t, c, tier) \in Nat
    BY <1>1, ShareTypes DEF Outlay
  <2>5. Outlay(t, c, tier)' <= Outlay(t, c, tier)
    BY <2>1, <2>2, <2>3, <2>4
  <2>6. QED
    BY <1>1, <2>1, <2>5, LimitStep DEF BooksInv
<1>3. Len(ch.cleanup) <= 3
  BY <1>1, RoomLeft DEF Typed
<1>4. QED
  BY <1>1, <1>2, <1>3, WorkBooks

\* The same, as one condition on the step.
Stays(t, c, p, l, ch, r, s, w, b) ==
  /\ pc[t] \in Working /\ Steady(t) /\ Quiet(t) /\ c \in Chunks /\ c = loc[t].chunk
  /\ \A d \in Chunks \ {c} : chunk'[d] = chunk[d]
  /\ p \in Working /\ pc'[t] = p /\ loc'[t] = l /\ l.dest = loc[t].dest /\ l.chunk = c
  /\ chunk'[c] = ch /\ ChunkOf(p, l, ch, t) /\ Supplied(p, l, store')
  /\ r \in Int /\ s \in Int /\ w \in Int /\ b \in Int /\ r + s + w + b <= 0
  /\ Staged(p, l) = Staged(pc[t], loc[t]) + s
  /\ Worked(p, l) = Worked(pc[t], loc[t]) + w
  /\ \A tier \in Tiers :
       /\ Reserved(l, tier) = Reserved(loc[t], tier) + Part(DestTier(t), tier, r)
       /\ Owed(ch, tier) = Owed(chunk[c], tier) + Part(DestTier(t), tier, b)
       /\ Booked(ledger[tier], ledger'[tier], Part(DestTier(t), tier, r),
                 Part(DestTier(t), tier, s), Part(DestTier(t), tier, w), 0,
                 Part(DestTier(t), tier, b))

LEMMA StaysBooks ==
  ASSUME TransactionInv, TransactionInv', BooksInv, NEW t \in Threads, NEW c, NEW p, NEW l, NEW ch,
         NEW r, NEW s, NEW w, NEW b, Stays(t, c, p, l, ch, r, s, w, b)
  PROVE  BooksInv'
BY StayBooks DEF Stays

\* A step that books nothing.
LEMMA PlainStay ==
  ASSUME TransactionInv, TransactionInv', BooksInv, NEW t \in Threads, pc[t] \in Working,
         Steady(t), Quiet(t), NEW c \in Chunks, c = loc[t].chunk, UNCHANGED <<ledger, chunk>>,
         NEW p \in Working, pc'[t] = p, NEW l, loc'[t] = l, l.dest = loc[t].dest, l.chunk = c,
         l.toks = loc[t].toks, ChunkOf(p, l, chunk[c], t), Supplied(p, l, store'),
         Staged(p, l) = Staged(pc[t], loc[t]), Worked(p, l) = Worked(pc[t], loc[t])
  PROVE  BooksInv'
<1>1. PICK n \in Int : n = 0
  OBVIOUS
<1>2. loc[t] \in Locals /\ chunk[c] \in ChunkRecords
  BY DEF TransactionInv, Typed
<1>3. \A tier \in Tiers : Part(DestTier(t), tier, n) = 0
  BY <1>1 DEF Part
<1>4. \A tier \in Tiers :
        /\ Reserved(l, tier) = Reserved(loc[t], tier) + Part(DestTier(t), tier, n)
        /\ Owed(chunk[c], tier) = Owed(chunk[c], tier) + Part(DestTier(t), tier, n)
        /\ Booked(ledger[tier], ledger'[tier], Part(DestTier(t), tier, n),
                  Part(DestTier(t), tier, n), Part(DestTier(t), tier, n), 0,
                  Part(DestTier(t), tier, n))
  <2> SUFFICES ASSUME NEW tier \in Tiers
               PROVE  /\ Reserved(l, tier) = Reserved(loc[t], tier) + 0
                      /\ Owed(chunk[c], tier) = Owed(chunk[c], tier) + 0
                      /\ Booked(ledger[tier], ledger[tier], 0, 0, 0, 0, 0)
    BY <1>3
  <2>1. Reserved(l, tier) = Reserved(loc[t], tier)
    BY DEF Reserved
  <2>2. Reserved(loc[t], tier) \in Nat /\ Owed(chunk[c], tier) \in Nat
    BY <1>2, LocalShares, ChunkShares
  <2>3. Booked(ledger[tier], ledger[tier], 0, 0, 0, 0, 0)
    BY CountersNat DEF Booked, TransactionInv, Typed, GoodLedger
  <2>4. QED
    BY <2>1, <2>2, <2>3
<1>5. Staged(pc[t], loc[t]) \in Nat /\ Worked(pc[t], loc[t]) \in Nat
  BY <1>2, LocalShares
<1>6. /\ Staged(p, l) = Staged(pc[t], loc[t]) + n /\ Worked(p, l) = Worked(pc[t], loc[t]) + n
      /\ n + n + n + n <= 0
  BY <1>1, <1>5
<1>7. chunk'[c] = chunk[c] /\ \A d \in Chunks \ {c} : chunk'[d] = chunk[d]
  OBVIOUS
<1>8. QED
  BY <1>4, <1>6, <1>7, StayBooks

(***************************************************************************)
(* Outside a transaction nothing is booked                                 *)
(***************************************************************************)
Outside == Leasing \cup {"idle", "begin"}

LEMMA OutsideFacts ==
  /\ Outside \subseteq Tokenless /\ Outside \cap Working = {}
  /\ PCs \subseteq Outside \cup Working \cup {"terminated"}
BY DEF Outside, Tokenless, Working, PCs, PreCommit, PostCommit, Unwinding, Filled, Leasing, Holding

LEMMA NoClaims ==
  ASSUME NEW l, \A i \in 1 .. 3 : l.toks[i] = InactiveToken, NEW tier
  PROVE  Reserved(l, tier) = 0
<1>1. \A i \in 1 .. 3 : Claim(l.toks[i], tier) = 0
  BY DEF Claim, InactiveToken
<1>2. QED
  BY <1>1 DEF Reserved

LEMMA NothingBooked ==
  ASSUME NEW p, p \notin Filled \cup Unwinding, NEW l
  PROVE  Staged(p, l) = 0 /\ Worked(p, l) = 0
BY DEF Staged, Worked

LEMMA OutsideSupplied ==
  ASSUME NEW p \in Outside, NEW l, \A i \in 1 .. 3 : l.toks[i] = InactiveToken, NEW st
  PROVE  Supplied(p, l, st)
<1>1. p \notin Unreserved \cup First \cup Second \cup Third \cup Moving \cup {"terminated", "verify"} \cup Verified
  BY DEF Outside, Unreserved, First, Second, Third, Moving, Verified, Leasing, Holding
<1>2. p \in Tokenless
  BY OutsideFacts
<1>3. TokensAt(p, l)
  BY <1>1, <1>2 DEF TokensAt
<1>4. AllocationsAt(p, l)
  BY <1>1 DEF AllocationsAt, First, Second, Third, Moving, Unreserved, Verified
<1>5. Receipt(p, l, st)
  BY <1>1 DEF Receipt, Moving
<1>6. QED
  BY <1>1, <1>3, <1>4, <1>5 DEF Supplied

\* The step of a thread outside a transaction that stays outside.
LEMMA AsideBooks ==
  ASSUME TransactionInv, BooksInv, NEW t \in Threads, Others(t), pc[t] \in Outside,
         pc'[t] \in Outside, \A i \in 1 .. 3 : loc'[t].toks[i] = InactiveToken, UNCHANGED ledger,
         \A d \in Chunks : /\ ChunkStays(d)
                           /\ chunk'[d].auth.state = chunk[d].auth.state
                           /\ chunk'[d].auth.charge = chunk[d].auth.charge,
         \A u \in Threads \ {t} : pc[u] = "reconcile" =>
           store'[loc[u].dst.id].charge = store[loc[u].dst.id].charge
  PROVE  BooksInv'
<1>1. pc[t] \notin Working /\ pc'[t] \notin Working
  BY OutsideFacts
<1>2. \A i \in 1 .. 3 : loc[t].toks[i] = InactiveToken
  <2>1. TokensAt(pc[t], loc[t])
    BY DEF BooksInv, Stocked, Supplied
  <2>2. QED
    BY <2>1, OutsideFacts DEF TokensAt
<1>3. ASSUME NEW tier \in Tiers, NEW u \in Threads
      PROVE  /\ ReservedOf(u, tier)' = ReservedOf(u, tier)
             /\ StagingOf(u, tier)' = StagingOf(u, tier)
             /\ WorkspaceOf(u, tier)' = WorkspaceOf(u, tier)
  <2>1. CASE u # t
    BY <2>1 DEF Others, ReservedOf, StagingOf, WorkspaceOf
  <2>2. CASE u = t
    <3>1. Reserved(loc[t], tier) = 0 /\ Reserved(loc'[t], tier) = 0
      BY <1>2, NoClaims
    <3>2. /\ Staged(pc[t], loc[t]) = 0 /\ Worked(pc[t], loc[t]) = 0
          /\ Staged(pc'[t], loc'[t]) = 0 /\ Worked(pc'[t], loc'[t]) = 0
      BY <1>1, NothingBooked DEF Working, PreCommit
    <3>3. QED
      BY <2>2, <3>1, <3>2 DEF ReservedOf, StagingOf, WorkspaceOf, Part
  <2>3. QED
    BY <2>1, <2>2
<1>4. ASSUME NEW tier \in Tiers, NEW d \in Chunks
      PROVE  CommittedOf(d, tier)' = CommittedOf(d, tier) /\ DebtOf(d, tier)' = DebtOf(d, tier)
  BY DEF CommittedOf, DebtOf, ChunkStays, Owed, OwedAt
<1>5. Balanced' /\ WithinLimit'
  BY <1>3, <1>4, PlainBooks DEF BooksInv
<1>6. Apart'
  <2>1. \A u \in Threads \ {t} : pc[u] \in Working => ChunkStays(loc[u].chunk)
    BY WorkFacts DEF Working
  <2>2. \A d \in Chunks : Len(chunk'[d].cleanup) <= 3
    BY DEF ChunkStays, BooksInv, Apart
  <2>3. QED
    BY <1>1, <2>1, <2>2, ApartStep DEF BooksInv
<1>7. Stocked'
  BY OutsideSupplied, StockedStep DEF BooksInv
<1>8. QED
  BY <1>5, <1>6, <1>7 DEF BooksInv

\* Leaving the transaction: what is left of the reservations goes back.
LEMMA LeaveBooks ==
  ASSUME TransactionInv, TransactionInv', BooksInv, NEW t \in Threads, pc[t] \in Working,
         Steady(t), Quiet(t), NEW c \in Chunks, c = loc[t].chunk,
         \A d \in Chunks \ {c} : chunk'[d] = chunk[d],
         NEW ok \in BOOLEAN, Return(t, ok),
         Staged(pc[t], loc[t]) = 0, Worked(pc[t], loc[t]) = 0,
         NEW ch, chunk'[c] = ch, Len(ch.cleanup) <= 3,
         \A tier \in Tiers :
           /\ Owed(ch, tier) <= Owed(chunk[c], tier)
           /\ Booked(ledger[tier], ledger'[tier], 0 - Reserved(loc[t], tier), 0, 0, 0,
                     Owed(ch, tier) - Owed(chunk[c], tier))
  PROVE  BooksInv'
<1>1. Typed /\ Typed' /\ chunk'[c].auth = chunk[c].auth /\ Others(t)
  BY DEF TransactionInv, Steady
<1>2. PICK p \in {"idle", "pin", "drop_intent"} : Moves(t, p, ReturnLocals(loc[t]))
  BY <1>1, ReturnMoves
<1>3. PICK l : l = ReturnLocals(loc[t])
  OBVIOUS
<1>4. pc'[t] = p /\ loc'[t] = l /\ p \in Outside
  BY <1>2, <1>3 DEF Moves, Outside, Leasing
<1>5. \A i \in 1 .. 3 : l.toks[i] = InactiveToken
  BY <1>3 DEF ReturnLocals, IdleLocals
<1>6. p \notin Working /\ Supplied(p, l, store')
  BY <1>4, <1>5, OutsideFacts, OutsideSupplied
<1>7. Staged(p, l) = 0 /\ Worked(p, l) = 0
  BY <1>6, NothingBooked DEF Working, PreCommit
<1>8. ASSUME NEW tier \in Tiers
      PROVE  Follows(t, c, tier) /\ Total(ledger'[tier]) <= HardLimit[tier]
  <2>1. Reserved(l, tier) = 0
    BY <1>5, NoClaims
  <2>2. PICK r \in Nat, b \in Nat, m \in Nat, b2 \in Nat :
          /\ r = Reserved(loc[t], tier) /\ b = Owed(chunk[c], tier) /\ m = CommittedOf(c, tier)
          /\ b2 = Owed(ch, tier)
    <3>1. loc[t] \in Locals /\ chunk[c] \in ChunkRecords /\ ch \in ChunkRecords
      BY <1>1 DEF Typed
    <3>2. QED
      BY <1>1, <3>1, LocalShares, ChunkShares, ShareTypes
  <2>3. /\ ReservedOf(t, tier) = r /\ ReservedOf(t, tier)' = 0
        /\ StagingOf(t, tier) = 0 /\ StagingOf(t, tier)' = 0
        /\ WorkspaceOf(t, tier) = 0 /\ WorkspaceOf(t, tier)' = 0
        /\ CommittedOf(c, tier) = m /\ CommittedOf(c, tier)' = m
        /\ DebtOf(c, tier) = b /\ DebtOf(c, tier)' = b2
    BY <1>1, <1>4, <1>7, <2>1, <2>2 DEF ReservedOf, StagingOf, WorkspaceOf, CommittedOf, DebtOf, Part
  <2>4. b2 <= b /\ Booked(ledger[tier], ledger'[tier], 0 - r, 0, 0, 0, b2 - b)
    BY <2>2
  <2>5. Follows(t, c, tier)
    BY <2>3, <2>4 DEF Follows, Booked
  <2>6. Outlay(t, c, tier)' <= Outlay(t, c, tier)
    BY <2>3, <2>4 DEF Outlay
  <2>7. QED
    BY <1>1, <2>5, <2>6, LimitStep DEF BooksInv
<1>9. QED
  BY <1>1, <1>4, <1>6, <1>8, WorkBooks

LEMMA GotoOthers ==
  ASSUME Typed, NEW t \in Threads, NEW p, NEW l, Goto(t, p, l)
  PROVE  Others(t) /\ pc'[t] = p /\ loc'[t] = l
BY DEF Typed, Goto, Others

LEMMA AsideTokens ==
  ASSUME BooksInv, NEW t \in Threads, pc[t] \in Outside, NEW l,
         l.toks = loc[t].toks \/ l.toks = IdleLocals.toks
  PROVE  \A i \in 1 .. 3 : l.toks[i] = InactiveToken
<1>1. TokensAt(pc[t], loc[t])
  BY DEF BooksInv, Stocked, Supplied
<1>2. \A i \in 1 .. 3 : loc[t].toks[i] = InactiveToken
  BY <1>1, OutsideFacts DEF TokensAt
<1>3. \A i \in 1 .. 3 : IdleLocals.toks[i] = InactiveToken
  BY DEF IdleLocals
<1>4. QED
  BY <1>2, <1>3

(***************************************************************************)
(* Leases book nothing                                                     *)
(***************************************************************************)
\* All that the books see of a chunk.
Resembles(d, ch) ==
  /\ d.cleanup = ch.cleanup /\ d.txn = ch.txn
  /\ ch.lifecycle = "poisoned" => d.lifecycle = "poisoned"
  /\ d.auth.state = ch.auth.state /\ d.auth.charge = ch.auth.charge

LEMMA UnintendResembles ==
  ASSUME NEW ch \in ChunkRecords, NEW access
  PROVE  /\ Resembles(WithoutIntent(ch, access), ch)
         /\ Resembles([WithoutIntent(ch, access) EXCEPT !.readers = @ + 1], ch)
         /\ Resembles([WithoutIntent(ch, access) EXCEPT !.writer = TRUE], ch)
BY DEF Resembles, WithoutIntent, ChunkRecords

LEMMA RecordResembles ==
  ASSUME NEW ch \in ChunkRecords, NEW t
  PROVE  /\ Resembles(RecordWrite(ch, t), ch)
         /\ Resembles([RecordWrite(ch, t) EXCEPT !.writer = FALSE], ch)
<1>1. CASE loc[t].released = "ok"
  <2>1. PICK a : a = [ch.auth EXCEPT !.content = @ + 1]
    OBVIOUS
  <2>2. a.state = ch.auth.state /\ a.charge = ch.auth.charge
    BY <2>1 DEF ChunkRecords, Authorities
  <2>3. PICK d : d = [ch EXCEPT !.auth = a]
    OBVIOUS
  <2>4. RecordWrite(ch, t) = d
    BY <1>1, <2>1, <2>3 DEF RecordWrite, ChunkRecords
  <2>5. /\ d.cleanup = ch.cleanup /\ d.txn = ch.txn /\ d.lifecycle = ch.lifecycle /\ d.auth = a
        /\ [d EXCEPT !.writer = FALSE].cleanup = ch.cleanup
        /\ [d EXCEPT !.writer = FALSE].txn = ch.txn
        /\ [d EXCEPT !.writer = FALSE].lifecycle = ch.lifecycle
        /\ [d EXCEPT !.writer = FALSE].auth = a
    BY <2>3 DEF ChunkRecords
  <2>6. QED
    BY <2>2, <2>4, <2>5 DEF Resembles
<1>2. CASE loc[t].released # "ok"
  BY <1>2 DEF RecordWrite, Resembles, ChunkRecords
<1>3. QED
  BY <1>1, <1>2

LEMMA AsideChunk ==
  ASSUME TransactionInv, BooksInv, NEW t \in Threads, pc[t] \in Outside,
         NEW p \in Outside, NEW l, Goto(t, p, l),
         l.toks = loc[t].toks \/ l.toks = IdleLocals.toks, UNCHANGED <<ledger, store>>,
         NEW c \in Chunks, NEW d, chunk' = [chunk EXCEPT ![c] = d], Resembles(d, chunk[c])
  PROVE  BooksInv'
<1>1. Typed /\ chunk \in [Chunks -> ChunkRecords]
  BY DEF TransactionInv, Typed
<1>2. Others(t) /\ pc'[t] = p /\ loc'[t] = l
  BY <1>1, GotoOthers
<1>3. \A i \in 1 .. 3 : l.toks[i] = InactiveToken
  BY AsideTokens
<1>4. \A e \in Chunks : /\ ChunkStays(e)
                        /\ chunk'[e].auth.state = chunk[e].auth.state
                        /\ chunk'[e].auth.charge = chunk[e].auth.charge
  <2>1. chunk'[c] = d /\ \A e \in Chunks \ {c} : chunk'[e] = chunk[e]
    BY <1>1
  <2>2. QED
    BY <2>1 DEF Resembles, ChunkStays
<1>5. QED
  BY <1>2, <1>3, <1>4, AsideBooks

LEMMA AsidePlain ==
  ASSUME TransactionInv, BooksInv, NEW t \in Threads, pc[t] \in Outside,
         NEW p \in Outside, NEW l, Goto(t, p, l),
         l.toks = loc[t].toks \/ l.toks = IdleLocals.toks, UNCHANGED <<ledger, chunk>>,
         \A u \in Threads \ {t} : pc[u] = "reconcile" =>
           store'[loc[u].dst.id].charge = store[loc[u].dst.id].charge
  PROVE  BooksInv'
<1>1. Others(t) /\ pc'[t] = p /\ loc'[t] = l
  BY GotoOthers DEF TransactionInv
<1>2. \A i \in 1 .. 3 : l.toks[i] = InactiveToken
  BY AsideTokens
<1>3. \A e \in Chunks : /\ ChunkStays(e)
                        /\ chunk'[e].auth.state = chunk[e].auth.state
                        /\ chunk'[e].auth.charge = chunk[e].auth.charge
  BY DEF ChunkStays
<1>4. QED
  BY <1>1, <1>2, <1>3, AsideBooks

LEMMA ProposeBooks ==
  ASSUME TransactionInv, BooksInv, NEW t \in Threads, NEW c, NEW d, NEW lim, Propose(t, c, d, lim)
  PROVE  BooksInv'
<1>1. pc[t] = "idle" /\ UNCHANGED <<ledger, store, chunk>>
  BY DEF Propose
<1>2. PICK x : x = [resource |-> chunk[c].auth.resource, content |-> chunk[c].auth.content,
                    revision |-> chunk[c].revision]
  OBVIOUS
<1>3. PICK l : l = [IdleLocals EXCEPT !.chunk = c, !.gated = Gated, !.dest = d, !.limit = lim,
                                      !.expected = x]
  OBVIOUS
<1>4. Goto(t, "begin", l)
  BY <1>2, <1>3 DEF Propose
<1>5. l.toks = IdleLocals.toks
  BY <1>3, IdleTyped DEF Locals
<1>6. pc[t] \in Outside /\ "begin" \in Outside
  BY <1>1 DEF Outside
<1>7. QED
  BY <1>1, <1>4, <1>5, <1>6, AsidePlain

LEMMA IntendBooks ==
  ASSUME TransactionInv, BooksInv, NEW t \in Threads, NEW c \in Chunks, NEW access,
         Intend(t, c, access)
  PROVE  BooksInv'
<1>1. pc[t] = "idle" /\ UNCHANGED <<ledger, store>> /\ Typed /\ chunk[c] \in ChunkRecords
  BY DEF Intend, TransactionInv, Typed
<1>2. PICK w : w = (access = "read_write")
  OBVIOUS
<1>3. PICK n, i : n = chunk[c].revision + 1 /\ i = chunk[c].intents + 1
  OBVIOUS
<1>4. PICK d : d = [chunk[c] EXCEPT !.revision = n, !.intents = i, !.write_intent = w]
  OBVIOUS
<1>5. chunk' = [chunk EXCEPT ![c] = d]
  BY <1>1, <1>2, <1>3, <1>4 DEF Intend, Typed, ChunkRecords
<1>6. Resembles(d, chunk[c])
  BY <1>1, <1>4 DEF Resembles, ChunkRecords
<1>7. PICK l : l = [IdleLocals EXCEPT !.chunk = c, !.access = access, !.acquire = TRUE]
  OBVIOUS
<1>8. Goto(t, "restore", l)
  BY <1>7 DEF Intend
<1>9. l.toks = IdleLocals.toks
  BY <1>7, IdleTyped DEF Locals
<1>10. pc[t] \in Outside /\ "restore" \in Outside
  BY <1>1 DEF Outside, Leasing
<1>11. QED
  BY <1>1, <1>5, <1>6, <1>8, <1>9, <1>10, AsideChunk

LEMMA GateBooks ==
  ASSUME TransactionInv, BooksInv, NEW t \in Threads, Restore(t) \/ TakeGate(t)
  PROVE  BooksInv'
<1>1. pc[t] \in {"restore", "gate"} /\ UNCHANGED <<ledger, store, chunk>> /\ loc[t] \in Locals
  BY DEF Restore, TakeGate, TransactionInv, Typed
<1>2. PICK k : k = [loc[t] EXCEPT !.gated = Gated]
  OBVIOUS
<1>3. k.toks = loc[t].toks
  BY <1>1, <1>2 DEF Locals
<1>4. \E p \in {"pin", "gate", "begin", "drop_intent"}, l \in {loc[t], k} : Goto(t, p, l)
  BY <1>2 DEF Restore, TakeGate
<1>5. PICK p \in {"pin", "gate", "begin", "drop_intent"}, l \in {loc[t], k} : Goto(t, p, l)
  BY <1>4
<1>6. pc[t] \in Outside /\ p \in Outside
  BY <1>1 DEF Outside, Leasing
<1>7. QED
  BY <1>1, <1>3, <1>5, <1>6, AsidePlain

LEMMA IntentBooks ==
  ASSUME TransactionInv, BooksInv, NEW t \in Threads, DropIntent(t) \/ Pin(t)
  PROVE  BooksInv'
<1>1. pc[t] \in {"pin", "drop_intent"} /\ UNCHANGED <<ledger, store>>
  BY DEF DropIntent, Pin
<1>2. pc[t] \in Leasing /\ pc[t] \in Outside /\ "idle" \in Outside /\ "leased" \in Outside
  BY <1>1 DEF Outside, Leasing, Holding
<1>3. PICK c \in Chunks : c = loc[t].chunk
  BY <1>2, HoldingFacts
<1>4. chunk[c] \in ChunkRecords /\ chunk \in [Chunks -> ChunkRecords] /\ loc[t] \in Locals
  BY DEF TransactionInv, Typed
<1>5. PICK after : after = WithoutIntent(chunk[c], loc[t].access)
  OBVIOUS
<1>6. PICK e, f : e = [after EXCEPT !.readers = @ + 1] /\ f = [after EXCEPT !.writer = TRUE]
  OBVIOUS
<1>7. PICK k : k = [loc[t] EXCEPT !.initial = chunk[c].auth.content]
  OBVIOUS
<1>8. k.toks = loc[t].toks
  BY <1>4, <1>7 DEF Locals
<1>9. \A d \in {after, e, f} : Resembles(d, chunk[c])
  BY <1>4, <1>5, <1>6, UnintendResembles
<1>10. \/ Goto(t, "idle", IdleLocals) /\ chunk' = [chunk EXCEPT ![c] = after]
       \/ /\ Goto(t, "leased", k)
          /\ chunk' = [chunk EXCEPT ![c] = IF loc[t].access = "read_only" THEN e ELSE f]
  BY <1>3, <1>5, <1>6, <1>7 DEF DropIntent, Pin
<1>11. ASSUME Goto(t, "idle", IdleLocals), chunk' = [chunk EXCEPT ![c] = after] PROVE BooksInv'
  BY <1>1, <1>2, <1>9, <1>11, AsideChunk
<1>12. ASSUME Goto(t, "leased", k), NEW d \in {e, f}, chunk' = [chunk EXCEPT ![c] = d] PROVE BooksInv'
  BY <1>1, <1>2, <1>8, <1>9, <1>12, AsideChunk
<1>13. QED
  BY <1>10, <1>11, <1>12

LEMMA WriteBooks ==
  ASSUME TransactionInv, BooksInv, NEW t \in Threads, WriteBytes(t) \/ CloseUnwritten(t)
  PROVE  BooksInv'
<1>1. PICK next \in {"writing", "closing_write"} : pc[t] = "leased" /\ BackendWrite(t, next)
  BY DEF WriteBytes, CloseUnwritten
<1>2. pc[t] \in Leasing /\ pc[t] \in Outside /\ next \in Outside
  BY <1>1 DEF Outside, Leasing, Holding
<1>3. PICK c \in Chunks : c = loc[t].chunk
  BY <1>2, HoldingFacts
<1>4. PICK a : a = chunk[c].auth
  OBVIOUS
<1>5. /\ loc[t] \in Locals /\ store \in [Resources -> Descriptors \cup {None}]
      /\ a.resource \in Resources /\ store[a.resource] # None
  BY <1>2, <1>3, <1>4, HoldingFacts DEF ChunkKept, Typed, ChunkRecords, Authorities
<1>6. PICK x, y : /\ x = [loc[t] EXCEPT !.released = "ok", !.src = a]
                  /\ y = [loc[t] EXCEPT !.released = "fail", !.src = a]
  OBVIOUS
<1>7. x.toks = loc[t].toks /\ y.toks = loc[t].toks
  BY <1>5, <1>6 DEF Locals
<1>8. \E l \in {x, y} : Goto(t, next, l)
  BY <1>1, <1>3, <1>4, <1>6 DEF BackendWrite
<1>9. PICK l \in {x, y} : Goto(t, next, l)
  BY <1>8
<1>10. UNCHANGED <<ledger, chunk>>
  BY <1>1 DEF BackendWrite
<1>11. \/ store' = store
       \/ \E v : store' = [store EXCEPT ![a.resource].content = v]
  BY <1>1, <1>3, <1>4 DEF BackendWrite
<1>12. \A r : store'[r].charge = store[r].charge
  <2>1. ASSUME NEW v, store' = [store EXCEPT ![a.resource].content = v], NEW r
        PROVE  store'[r].charge = store[r].charge
    <3>1. CASE r = a.resource
      <4>1. store[r] \in Descriptors
        BY <1>5, <3>1
      <4>2. store'[r] = [store[r] EXCEPT !.content = v]
        BY <1>5, <2>1, <3>1
      <4>3. QED
        BY <4>1, <4>2 DEF Descriptors
    <3>2. CASE r # a.resource
      BY <1>5, <2>1, <3>2
    <3>3. QED
      BY <3>1, <3>2
  <2>2. QED
    BY <1>11, <2>1
<1>13. QED
  BY <1>2, <1>7, <1>9, <1>10, <1>12, AsidePlain

LEMMA RecordBooks ==
  ASSUME TransactionInv, BooksInv, NEW t \in Threads, WriteDone(t) \/ CloseWriteDone(t)
  PROVE  BooksInv'
<1>1. pc[t] \in {"writing", "closing_write"} /\ UNCHANGED <<ledger, store>>
  BY DEF WriteDone, CloseWriteDone
<1>2. /\ pc[t] \in Writing /\ pc[t] \in Leasing /\ pc[t] \in Outside
      /\ "leased" \in Outside /\ "idle" \in Outside
  BY <1>1 DEF Outside, Leasing, Holding, Writing
<1>3. PICK c \in Chunks : c = loc[t].chunk
  BY <1>2, HoldingFacts
<1>4. chunk[c] \in ChunkRecords /\ chunk \in [Chunks -> ChunkRecords] /\ loc[t] \in Locals
  BY DEF TransactionInv, Typed
<1>5. PICK d : d = RecordWrite(chunk[c], t)
  OBVIOUS
<1>6. StillPinned(chunk[c], t) /\ chunk[c].auth.content = loc[t].src.content
  BY <1>2, <1>3, <1>5, RecordFacts
<1>7. PICK e : e = [d EXCEPT !.writer = FALSE]
  OBVIOUS
<1>8. Resembles(d, chunk[c]) /\ Resembles(e, chunk[c])
  BY <1>4, <1>5, <1>7, RecordResembles
<1>9. CASE WriteDone(t)
  <2>1. PICK l : l = [loc[t] EXCEPT !.src = None]
    OBVIOUS
  <2>2. Goto(t, "leased", l) /\ chunk' = [chunk EXCEPT ![c] = d]
    BY <1>3, <1>5, <1>6, <1>9, <2>1 DEF WriteDone
  <2>3. l.toks = loc[t].toks
    BY <1>4, <2>1 DEF Locals
  <2>4. QED
    BY <1>1, <1>2, <1>8, <2>2, <2>3, AsideChunk
<1>10. CASE CloseWriteDone(t)
  <2>1. Goto(t, "idle", IdleLocals) /\ chunk' = [chunk EXCEPT ![c] = e]
    BY <1>3, <1>5, <1>6, <1>7, <1>10 DEF CloseWriteDone
  <2>2. QED
    BY <1>1, <1>2, <1>8, <2>1, AsideChunk
<1>11. QED
  BY <1>9, <1>10

LEMMA CloseBooks ==
  ASSUME TransactionInv, BooksInv, NEW t \in Threads, CloseRead(t) \/ CloseWritten(t)
  PROVE  BooksInv'
<1>1. pc[t] = "leased" /\ UNCHANGED <<ledger, store>> /\ Goto(t, "idle", IdleLocals)
  BY DEF CloseRead, CloseWritten
<1>2. pc[t] \in Leasing /\ pc[t] \in Outside /\ "idle" \in Outside
  BY <1>1 DEF Outside, Leasing, Holding
<1>3. PICK c \in Chunks : c = loc[t].chunk
  BY <1>2, HoldingFacts
<1>4. chunk[c] \in ChunkRecords /\ chunk \in [Chunks -> ChunkRecords]
  BY DEF TransactionInv, Typed
<1>5. CASE CloseRead(t)
  <2>1. PICK n : n = chunk[c].readers - 1
    OBVIOUS
  <2>2. PICK d : d = [chunk[c] EXCEPT !.readers = n]
    OBVIOUS
  <2>3. chunk' = [chunk EXCEPT ![c] = d]
    BY <1>3, <1>4, <1>5, <2>1, <2>2 DEF CloseRead, ChunkRecords
  <2>4. Resembles(d, chunk[c])
    BY <1>4, <2>2 DEF Resembles, ChunkRecords
  <2>5. QED
    BY <1>1, <1>2, <2>3, <2>4, AsideChunk
<1>6. CASE CloseWritten(t)
  <2>1. PICK life : life = IF chunk[c].auth.content = MaxGeneration THEN "poisoned"
                           ELSE chunk[c].lifecycle
    OBVIOUS
  <2>2. PICK d : d = [chunk[c] EXCEPT !.writer = FALSE, !.lifecycle = life]
    OBVIOUS
  <2>3. chunk' = [chunk EXCEPT ![c] = d]
    BY <1>3, <1>4, <1>6, <2>1, <2>2 DEF CloseWritten, ChunkRecords
  <2>4. chunk[c].lifecycle = "poisoned" => life = "poisoned"
    BY <2>1
  <2>5. Resembles(d, chunk[c])
    BY <1>4, <2>2, <2>4 DEF Resembles, ChunkRecords
  <2>6. QED
    BY <1>1, <1>2, <2>3, <2>5, AsideChunk
<1>7. QED
  BY <1>5, <1>6

LEMMA BeginBooks ==
  ASSUME TransactionInv, BooksInv, NEW t \in Threads, Begin(t)
  PROVE  BooksInv'
<1>1. /\ pc[t] = "begin" /\ UNCHANGED <<ledger, store>> /\ Typed /\ loc[t] \in Locals
      /\ pc[t] \in Outside /\ pc[t] \notin Working
  BY OutsideFacts DEF Begin, TransactionInv, Typed, Outside
<1>2. PICK c \in Chunks : c = loc[t].chunk
  BY <1>1 DEF TransactionInv, Threaded, ThreadInv, PlacedAt
<1>3. chunk[c] \in ChunkRecords /\ loc[t] \in Locals
  BY <1>1 DEF Typed
<1>4. ASSUME NEW ok \in BOOLEAN, Return(t, ok), UNCHANGED chunk PROVE BooksInv'
  <2>1. PICK p \in {"idle", "pin", "drop_intent"} : Moves(t, p, ReturnLocals(loc[t]))
    BY <1>1, <1>4, ReturnMoves
  <2>2. PICK l : l = ReturnLocals(loc[t])
    OBVIOUS
  <2>3. pc'[t] = p /\ loc'[t] = l /\ p \in Outside /\ Others(t)
    BY <2>1, <2>2 DEF Moves, Outside, Leasing
  <2>4. \A i \in 1 .. 3 : l.toks[i] = InactiveToken
    BY <2>2 DEF ReturnLocals, IdleLocals
  <2>5. \A d \in Chunks : /\ ChunkStays(d)
                          /\ chunk'[d].auth.state = chunk[d].auth.state
                          /\ chunk'[d].auth.charge = chunk[d].auth.charge
    BY <1>4 DEF ChunkStays
  <2>6. QED
    BY <1>1, <2>3, <2>4, <2>5, AsideBooks
<1>5. CASE /\ ~Refused(t) /\ Goto(t, "project", [loc[t] EXCEPT !.src = chunk[c].auth])
           /\ chunk' = [chunk EXCEPT ![c].txn = t]
  <2>1. PICK l : l = [loc[t] EXCEPT !.src = chunk[c].auth]
    OBVIOUS
  <2>2. PICK d : d = [chunk[c] EXCEPT !.txn = t]
    OBVIOUS
  <2>3. Others(t) /\ pc'[t] = "project" /\ loc'[t] = l
    BY <1>1, <1>5, <2>1, GotoOthers
  <2>4. chunk' = [chunk EXCEPT ![c] = d]
    BY <1>1, <1>5, <2>2 DEF Typed
  <2>5. chunk'[c] = d /\ \A e \in Chunks \ {c} : chunk'[e] = chunk[e]
    BY <1>1, <2>4 DEF Typed
  <2>6. /\ d.cleanup = chunk[c].cleanup /\ d.txn = t /\ d.auth = chunk[c].auth
    BY <1>3, <2>2 DEF ChunkRecords
  <2>7. /\ l.toks = loc[t].toks /\ l.chunk = c /\ l.dest = loc[t].dest
        /\ l.ws = loc[t].ws /\ l.comp = loc[t].comp
    BY <1>2, <1>3, <2>1 DEF Locals
  <2>8. \A i \in 1 .. 3 : l.toks[i] = InactiveToken
    BY <1>1, <2>7, AsideTokens
  <2>9. chunk[c].lifecycle = "live" /\ chunk[c].txn = None /\ chunk[c].cleanup = <<>>
    BY <1>2, <1>5 DEF Refused, Busy
  <2>10. l.ws = NoAlloc /\ l.comp = NoAlloc
    BY <1>1, <2>7 DEF TransactionInv, Threaded, ThreadInv, PlacedAt
  <2>11. Supplied("project", l, store')
    BY <2>8, <2>10 DEF Supplied, TokensAt, AllocationsAt, Receipt, Tokenless, Unreserved, First,
                       Second, Third, Moving, Verified
  <2>12. "project" \in Working /\ "project" \in PreCommit /\ "project" \notin Unwinding \cup PostCommit
    BY DEF Working, PreCommit, PostCommit, Unwinding
  <2>13. ASSUME NEW u \in Threads \ {t}, pc[u] \in Working PROVE loc[u].chunk # c
    <3>1. CASE pc[u] \in PreCommit \cup PostCommit
      <4>1. OwnChunk(u).txn = u
        BY <3>1 DEF TransactionInv, Threaded, ThreadInv, Transacting
      <4>2. None \notin Threads
        BY TransactionAssumption DEF TransactionAssumption
      <4>3. QED
        BY <2>9, <4>1, <4>2 DEF OwnChunk
    <3>2. CASE pc[u] \in Unwinding
      <4>1. ChunkOf(pc[u], loc[u], OwnChunk(u), u)
        BY <2>13 DEF BooksInv, Apart
      <4>2. OwnChunk(u).txn = u \/ OwnChunk(u).lifecycle = "poisoned"
        BY <3>2, <4>1 DEF ChunkOf
      <4>3. None \notin Threads
        BY TransactionAssumption DEF TransactionAssumption
      <4>4. QED
        BY <2>9, <4>2, <4>3 DEF OwnChunk
    <3>3. QED
      BY <2>13, <3>1, <3>2 DEF Working
  <2>14. ASSUME NEW tier \in Tiers
         PROVE  /\ \A u \in Threads : /\ ReservedOf(u, tier)' = ReservedOf(u, tier)
                                      /\ StagingOf(u, tier)' = StagingOf(u, tier)
                                      /\ WorkspaceOf(u, tier)' = WorkspaceOf(u, tier)
                /\ \A e \in Chunks : /\ CommittedOf(e, tier)' = CommittedOf(e, tier)
                                     /\ DebtOf(e, tier)' = DebtOf(e, tier)
    <3>1. \A u \in Threads \ {t} : /\ ReservedOf(u, tier)' = ReservedOf(u, tier)
                                   /\ StagingOf(u, tier)' = StagingOf(u, tier)
                                   /\ WorkspaceOf(u, tier)' = WorkspaceOf(u, tier)
      BY <2>3 DEF Others, ReservedOf, StagingOf, WorkspaceOf
    <3>2. ReservedOf(t, tier)' = ReservedOf(t, tier)
      BY <2>3, <2>7 DEF ReservedOf, Reserved
    <3>3. "project" \notin Filled \cup Unwinding /\ "begin" \notin Filled \cup Unwinding
      BY DEF Filled, Unwinding
    <3>4. /\ StagingOf(t, tier)' = StagingOf(t, tier) /\ WorkspaceOf(t, tier)' = WorkspaceOf(t, tier)
      BY <1>1, <2>3, <2>7, <3>3, NothingBooked DEF StagingOf, WorkspaceOf
    <3>5. \A e \in Chunks : CommittedOf(e, tier)' = CommittedOf(e, tier)
                            /\ DebtOf(e, tier)' = DebtOf(e, tier)
      BY <2>5, <2>6 DEF CommittedOf, DebtOf, Owed, OwedAt
    <3>6. QED
      BY <3>1, <3>2, <3>4, <3>5
  <2>15. Balanced' /\ WithinLimit'
    BY <1>1, <2>14, PlainBooks DEF BooksInv
  <2>16. Apart'
    <3>1. ASSUME NEW u \in Threads \ {t}, pc[u] \in Working
          PROVE  ChunkStays(loc[u].chunk) /\ loc[u].chunk # l.chunk
      <4>1. loc[u].chunk \in Chunks
        BY <3>1, WorkFacts DEF Working
      <4>2. QED
        BY <2>5, <2>7, <2>13, <3>1, <4>1 DEF ChunkStays
    <3>2. ChunkOf("project", l, d, t)
      BY <2>6, <2>9, <2>12 DEF ChunkOf
    <3>3. \A e \in Chunks : Len(chunk'[e].cleanup) <= 3
      BY <2>5, <2>6 DEF BooksInv, Apart
    <3>4. QED
      BY <2>3, <2>5, <2>7, <3>1, <3>2, <3>3, ApartStep DEF BooksInv
  <2>17. Stocked'
    BY <1>1, <2>3, <2>11, StockedStep DEF BooksInv
  <2>18. QED
    BY <2>15, <2>16, <2>17 DEF BooksInv
<1>6. QED
  BY <1>2, <1>4, <1>5 DEF Begin

(***************************************************************************)
(* A rollback's list is what the transaction has booked                    *)
(***************************************************************************)
\* What an item gives back to a bucket.
Backed(x, b) == IF x.bucket = b THEN x.charge ELSE 0

LEMMA TwoUndone ==
  ASSUME NEW l, NEW x, NEW y, x.charge \in Nat, y.charge \in Nat,
         Len(l.todo) = 2, l.todo[1] = y, l.todo[2] = x, NEW b
  PROVE  ToUndo(l, b) = Backed(y, b) + Backed(x, b)
<1>1. Backed(x, b) \in Nat /\ Backed(y, b) \in Nat
  BY DEF Backed
<1>2. /\ TodoAt(l, 1, b) = Backed(y, b) /\ TodoAt(l, 2, b) = Backed(x, b)
      /\ TodoAt(l, 3, b) = 0
  <2>1. PICK n : n = Len(l.todo) /\ n = 2
    OBVIOUS
  <2>2. QED
    BY <2>1 DEF TodoAt, Backed
<1>3. QED
  BY <1>1, <1>2 DEF ToUndo

LEMMA UndoSums ==
  ASSUME NEW l, NEW b, NEW x, NEW y, NEW z, x.charge \in Nat, y.charge \in Nat, z.charge \in Nat
  PROVE  /\ Len(l.todo) = 0 => ToUndo(l, b) = 0
         /\ Len(l.todo) = 1 /\ l.todo[1] = x => ToUndo(l, b) = Backed(x, b)
         /\ Len(l.todo) = 2 /\ l.todo[1] = x /\ l.todo[2] = y =>
              ToUndo(l, b) = Backed(x, b) + Backed(y, b)
         /\ Len(l.todo) = 3 /\ l.todo[1] = x /\ l.todo[2] = y /\ l.todo[3] = z =>
              ToUndo(l, b) = Backed(x, b) + Backed(y, b) + Backed(z, b)
<1>0. Backed(x, b) \in Nat /\ Backed(y, b) \in Nat /\ Backed(z, b) \in Nat
  BY DEF Backed
<1>1. PICK n : n = Len(l.todo)
  OBVIOUS
<1>2. /\ TodoAt(l, 1, b) = IF 1 <= n THEN Backed(l.todo[1], b) ELSE 0
      /\ TodoAt(l, 2, b) = IF 2 <= n THEN Backed(l.todo[2], b) ELSE 0
      /\ TodoAt(l, 3, b) = IF 3 <= n THEN Backed(l.todo[3], b) ELSE 0
  BY <1>1 DEF TodoAt, Backed
<1>3. ASSUME n = 0 PROVE ToUndo(l, b) = 0
  BY <1>2, <1>3 DEF ToUndo
<1>4. ASSUME n = 1, l.todo[1] = x PROVE ToUndo(l, b) = Backed(x, b)
  BY <1>0, <1>2, <1>4 DEF ToUndo
<1>5. ASSUME n = 2, l.todo[1] = x, l.todo[2] = y PROVE ToUndo(l, b) = Backed(x, b) + Backed(y, b)
  BY <1>0, <1>2, <1>5 DEF ToUndo
<1>6. ASSUME n = 3, l.todo[1] = x, l.todo[2] = y, l.todo[3] = z
      PROVE  ToUndo(l, b) = Backed(x, b) + Backed(y, b) + Backed(z, b)
  BY <1>0, <1>2, <1>6 DEF ToUndo
<1>7. QED
  BY <1>1, <1>3, <1>4, <1>5, <1>6

\* Lists of one, two and three items, put together.
LEMMA PlainLists ==
  ASSUME NEW s, NEW x, NEW y
  PROVE  /\ s = <<>> => Len(s) = 0
         /\ s = <<x>> => Len(s) = 1 /\ s[1] = x
         /\ s = <<y, x>> => Len(s) = 2 /\ s[1] = y /\ s[2] = x
<1>1. s = <<>> => Len(s) = 0
  OBVIOUS
<1>2. s = <<x>> => Len(s) = 1 /\ s[1] = x
  OBVIOUS
<1>3. s = <<y, x>> => Len(s) = 2 /\ s[1] = y /\ s[2] = x
  OBVIOUS
<1>4. QED
  BY <1>1, <1>2, <1>3

LEMMA ShortLists ==
  ASSUME NEW x, NEW z, NEW e, e = <<>>, NEW s
  PROVE  /\ s = e \o <<x>> => Len(s) = 1 /\ s[1] = x
         /\ s = <<z>> \o e \o <<x>> => Len(s) = 2 /\ s[1] = z /\ s[2] = x
<1>1. Len(e \o <<x>>) = 1 /\ (e \o <<x>>)[1] = x
  OBVIOUS
<1>2. /\ Len(<<z>> \o e \o <<x>>) = 2
      /\ (<<z>> \o e \o <<x>>)[1] = z /\ (<<z>> \o e \o <<x>>)[2] = x
  OBVIOUS
<1>3. QED
  BY <1>1, <1>2

\* The lists migrate rolls back, and what is on them.
LEMMA RollbackLists ==
  ASSUME Typed, NEW t \in Threads, NEW l, NEW poison
  PROVE  /\ l.todo = <<>> =>
              ToUndo(l, "staging") = 0 /\ ToUndo(l, "workspace") = 0 /\ Len(l.todo) = 0
         /\ l.todo = <<Item(loc[t].dst, "staging", poison)>> =>
              /\ ToUndo(l, "staging") = loc[t].dst.charge /\ ToUndo(l, "workspace") = 0
              /\ Len(l.todo) = 1
         /\ l.todo = <<Item(loc[t].ws, "workspace", FALSE), Item(loc[t].dst, "staging", poison)>> =>
              /\ ToUndo(l, "staging") = loc[t].dst.charge
              /\ ToUndo(l, "workspace") = loc[t].ws.charge
              /\ Len(l.todo) = 2
         /\ l.todo = WorkspaceItem(t) \o <<Item(loc[t].dst, "staging", poison)>> =>
              /\ ToUndo(l, "staging") = loc[t].dst.charge
              /\ ToUndo(l, "workspace") = loc[t].ws.charge
              /\ Len(l.todo) \in 0 .. 3
         /\ l.todo = <<Item(loc[t].comp, "workspace", FALSE)>> \o WorkspaceItem(t)
                       \o <<Item(loc[t].dst, "staging", poison)>> =>
              /\ ToUndo(l, "staging") = loc[t].dst.charge
              /\ ToUndo(l, "workspace") = loc[t].ws.charge + loc[t].comp.charge
              /\ Len(l.todo) \in 0 .. 3
<1>1. PICK d, w, k : d = loc[t].dst /\ w = loc[t].ws /\ k = loc[t].comp
  OBVIOUS
<1>2. d.charge \in Nat /\ w.charge \in Nat /\ k.charge \in Nat
  BY <1>1, WordFacts DEF Typed, Locals, Allocations
<1>3. "staging" \in Buckets /\ "workspace" \in Buckets
  BY DEF Buckets
<1>4. PICK x, y, z :
        /\ x = Item(d, "staging", poison) /\ y = Item(w, "workspace", FALSE)
        /\ z = Item(k, "workspace", FALSE)
  OBVIOUS
<1>5. x.charge \in Nat /\ y.charge \in Nat /\ z.charge \in Nat
  BY <1>2, <1>4 DEF Item
<1>6. /\ Backed(x, "staging") = d.charge /\ Backed(x, "workspace") = 0
      /\ Backed(y, "staging") = 0 /\ Backed(y, "workspace") = w.charge
      /\ Backed(z, "staging") = 0 /\ Backed(z, "workspace") = k.charge
  BY <1>4 DEF Item, Backed
<1>7. /\ Len(l.todo) = 0 => ToUndo(l, "staging") = 0 /\ ToUndo(l, "workspace") = 0
      /\ Len(l.todo) = 1 /\ l.todo[1] = x =>
           ToUndo(l, "staging") = d.charge /\ ToUndo(l, "workspace") = 0
  BY <1>5, <1>6, UndoSums
<1>8. Len(l.todo) = 2 /\ l.todo[1] = y /\ l.todo[2] = x =>
        ToUndo(l, "staging") = d.charge /\ ToUndo(l, "workspace") = w.charge
  <2>1. ASSUME Len(l.todo) = 2, l.todo[1] = y, l.todo[2] = x, NEW b
        PROVE  ToUndo(l, b) = Backed(y, b) + Backed(x, b)
    BY <1>5, <2>1, TwoUndone
  <2>2. QED
    BY <1>2, <1>6, <2>1
<1>9. Len(l.todo) = 2 /\ l.todo[1] = z /\ l.todo[2] = x =>
        ToUndo(l, "staging") = d.charge /\ ToUndo(l, "workspace") = k.charge
  <2>1. ASSUME Len(l.todo) = 2, l.todo[1] = z, l.todo[2] = x, NEW b
        PROVE  ToUndo(l, b) = Backed(z, b) + Backed(x, b)
    BY <1>5, <2>1, TwoUndone
  <2>2. QED
    BY <1>2, <1>6, <2>1
<1>10. Len(l.todo) = 3 /\ l.todo[1] = z /\ l.todo[2] = y /\ l.todo[3] = x =>
         ToUndo(l, "staging") = d.charge /\ ToUndo(l, "workspace") = w.charge + k.charge
  <2>1. ASSUME Len(l.todo) = 3, l.todo[1] = z, l.todo[2] = y, l.todo[3] = x, NEW b
        PROVE  ToUndo(l, b) = Backed(z, b) + Backed(y, b) + Backed(x, b)
    BY <1>5, <2>1, UndoSums
  <2>2. QED
    BY <1>2, <1>6, <2>1
<1>11. /\ l.todo = <<>> => Len(l.todo) = 0
       /\ l.todo = <<x>> => Len(l.todo) = 1 /\ l.todo[1] = x
       /\ l.todo = <<y, x>> => Len(l.todo) = 2 /\ l.todo[1] = y /\ l.todo[2] = x
  <2>1. PICK s : s = l.todo
    OBVIOUS
  <2>2. /\ s = <<>> => Len(s) = 0
        /\ s = <<x>> => Len(s) = 1 /\ s[1] = x
        /\ s = <<y, x>> => Len(s) = 2 /\ s[1] = y /\ s[2] = x
    BY PlainLists
  <2>3. QED
    BY <2>1, <2>2
<1>12. CASE w = NoAlloc
  <2>1. w.charge = 0
    BY <1>12 DEF NoAlloc
  <2>2. PICK e : e = WorkspaceItem(t) /\ e = <<>>
    BY <1>1, <1>12 DEF WorkspaceItem
  <2>3. /\ l.todo = e \o <<x>> => Len(l.todo) = 1 /\ l.todo[1] = x
        /\ l.todo = <<z>> \o e \o <<x>> => Len(l.todo) = 2 /\ l.todo[1] = z /\ l.todo[2] = x
    <3>1. PICK s : s = l.todo
      OBVIOUS
    <3>2. /\ s = e \o <<x>> => Len(s) = 1 /\ s[1] = x
          /\ s = <<z>> \o e \o <<x>> => Len(s) = 2 /\ s[1] = z /\ s[2] = x
      BY <2>2, ShortLists
    <3>3. QED
      BY <3>1, <3>2
  <2>4. w.charge + k.charge = k.charge
    BY <1>2, <2>1
  <2>5. /\ l.todo = e \o <<x>> =>
             /\ ToUndo(l, "staging") = d.charge /\ ToUndo(l, "workspace") = w.charge
             /\ Len(l.todo) \in 0 .. 3
        /\ l.todo = <<z>> \o e \o <<x>> =>
             /\ ToUndo(l, "staging") = d.charge /\ ToUndo(l, "workspace") = w.charge + k.charge
             /\ Len(l.todo) \in 0 .. 3
    BY <1>7, <1>9, <2>1, <2>3, <2>4
  <2>6. QED
    BY <1>1, <1>4, <1>7, <1>8, <1>11, <2>2, <2>5
<1>13. CASE w # NoAlloc
  <2>1. PICK e : e = WorkspaceItem(t) /\ e = <<y>>
    BY <1>1, <1>4, <1>13 DEF WorkspaceItem
  <2>2. /\ l.todo = e \o <<x>> => Len(l.todo) = 2 /\ l.todo[1] = y /\ l.todo[2] = x
        /\ l.todo = <<z>> \o e \o <<x>> =>
             Len(l.todo) = 3 /\ l.todo[1] = z /\ l.todo[2] = y /\ l.todo[3] = x
    <3>1. PICK s : s = l.todo
      OBVIOUS
    <3>2. e = <<y>>
      BY <2>1
    <3>3. Len(e \o <<x>>) = 2 /\ (e \o <<x>>)[1] = y /\ (e \o <<x>>)[2] = x
      BY <3>2
    <3>4. /\ Len(<<z>> \o e \o <<x>>) = 3 /\ (<<z>> \o e \o <<x>>)[1] = z
          /\ (<<z>> \o e \o <<x>>)[2] = y /\ (<<z>> \o e \o <<x>>)[3] = x
      BY <3>2
    <3>5. QED
      BY <3>1, <3>3, <3>4
  <2>3. /\ l.todo = e \o <<x>> =>
             /\ ToUndo(l, "staging") = d.charge /\ ToUndo(l, "workspace") = w.charge
             /\ Len(l.todo) \in 0 .. 3
        /\ l.todo = <<z>> \o e \o <<x>> =>
             /\ ToUndo(l, "staging") = d.charge /\ ToUndo(l, "workspace") = w.charge + k.charge
             /\ Len(l.todo) \in 0 .. 3
    BY <1>8, <1>10, <2>2
  <2>4. QED
    BY <1>1, <1>4, <1>7, <1>8, <1>11, <2>1, <2>3
<1>14. QED
  BY <1>12, <1>13

LEMMA WorkList ==
  ASSUME Typed, NEW t \in Threads, NEW l, NEW poison
  PROVE  l.todo = WorkspaceItem(t) \o <<Item(loc[t].dst, "staging", poison)>> =>
           /\ ToUndo(l, "staging") = loc[t].dst.charge
           /\ ToUndo(l, "workspace") = loc[t].ws.charge
           /\ Len(l.todo) \in 0 .. 3
BY RollbackLists

LEMMA BothItems ==
  ASSUME Typed, NEW t \in Threads, NEW l, Len(l.todo) = 2,
         NEW poison, l.todo[2] = Item(loc[t].dst, "staging", poison),
         NEW keep, l.todo[1] = Item(loc[t].ws, "workspace", keep)
  PROVE  /\ ToUndo(l, "staging") = loc[t].dst.charge
         /\ ToUndo(l, "workspace") = loc[t].ws.charge
<1>1. PICK m \in Nat, n \in Nat : m = loc[t].dst.charge /\ n = loc[t].ws.charge
  BY WordFacts DEF Typed, Locals, Allocations
<1>2. PICK x, y : x = l.todo[2] /\ y = l.todo[1]
  OBVIOUS
<1>3. x.charge = m /\ y.charge = n /\ x.charge \in Nat /\ y.charge \in Nat
  BY <1>1, <1>2 DEF Item
<1>4. /\ Backed(x, "staging") = m /\ Backed(x, "workspace") = 0
      /\ Backed(y, "staging") = 0 /\ Backed(y, "workspace") = n
  BY <1>1, <1>2 DEF Item, Backed
<1>5. \A b : ToUndo(l, b) = Backed(y, b) + Backed(x, b)
  BY <1>2, <1>3, TwoUndone
<1>6. QED
  BY <1>1, <1>4, <1>5

LEMMA UndoSupplied ==
  ASSUME NEW p \in Unwinding, NEW l, NEW st
  PROVE  Supplied(p, l, st) /\ p \in Working /\ p \notin PreCommit \cup PostCommit
           /\ Staged(p, l) = ToUndo(l, "staging") /\ Worked(p, l) = ToUndo(l, "workspace")
<1>1. p \in {"rollback", "settle"}
  BY DEF Unwinding
<1>2. p \notin Tokenless \cup First \cup Second \cup Third \cup Moving \cup {"terminated"} \cup Verified \cup Unreserved
  BY <1>1 DEF Tokenless, First, Second, Third, Moving, Verified, Unreserved, PostCommit, Leasing, Holding
<1>3. Supplied(p, l, st)
  BY <1>1, <1>2 DEF Supplied, TokensAt, AllocationsAt, Receipt, First, Second, Third, Moving, Unreserved, Verified
<1>4. p \notin PreCommit \cup PostCommit
  BY <1>1 DEF PreCommit, PostCommit, Filled
<1>5. QED
  BY <1>3, <1>4 DEF Working, Staged, Worked

\* What holds of a transaction before its commit.
LEMMA PreFacts ==
  ASSUME TransactionInv, BooksInv, NEW t \in Threads, pc[t] \in PreCommit
  PROVE  /\ pc[t] \in Working /\ pc[t] \notin Unwinding \cup PostCommit /\ Typed
         /\ loc[t] \in Locals /\ loc[t].chunk \in Chunks /\ chunk[loc[t].chunk] \in ChunkRecords
         /\ chunk \in [Chunks -> ChunkRecords]
         /\ chunk[loc[t].chunk].cleanup = <<>> /\ chunk[loc[t].chunk].txn = t
         /\ TokensAt(pc[t], loc[t]) /\ AllocationsAt(pc[t], loc[t]) /\ Receipt(pc[t], loc[t], store)
         /\ DestTier(t) \in Tiers /\ loc[t].dst.charge \in Word /\ loc[t].ws.charge \in Word
         /\ loc[t].comp.charge \in Word
<1>1. pc[t] \notin Unwinding \cup PostCommit /\ pc[t] \in Working
  BY DEF PreCommit, Unwinding, PostCommit, Filled, Working
<1>2. Typed /\ loc[t] \in Locals /\ loc[t].chunk \in Chunks /\ chunk[loc[t].chunk] \in ChunkRecords
      /\ DestTier(t) \in Tiers
  BY WorkFacts
<1>3. chunk[loc[t].chunk].cleanup = <<>>
  BY <1>1 DEF BooksInv, Apart, ChunkOf, OwnChunk
<1>4. chunk[loc[t].chunk].txn = t
  BY SourceFacts DEF OwnChunk
<1>5. Supplied(pc[t], loc[t], store)
  BY DEF BooksInv, Stocked
<1>6. QED
  BY <1>1, <1>2, <1>3, <1>4, <1>5 DEF Supplied, Locals, Allocations, Typed

\* Giving up without touching the books.
LEMMA RollBackBooks ==
  ASSUME TransactionInv, TransactionInv', BooksInv, NEW t \in Threads, pc[t] \in PreCommit,
         Steady(t), Quiet(t), UNCHANGED <<ledger, chunk>>,
         NEW l, pc'[t] = "rollback", loc'[t] = l,
         l.dest = loc[t].dest, l.chunk = loc[t].chunk, l.toks = loc[t].toks,
         Len(l.todo) <= 3, Len(l.todo) \in Nat,
         ToUndo(l, "staging") = Staged(pc[t], loc[t]), ToUndo(l, "workspace") = Worked(pc[t], loc[t])
  PROVE  BooksInv'
<1>1. PICK c \in Chunks : c = loc[t].chunk
  BY PreFacts
<1>2. pc[t] \in Working /\ chunk[c].cleanup = <<>> /\ chunk[c].txn = t
  BY <1>1, PreFacts
<1>3. "rollback" \in Unwinding
  BY DEF Unwinding
<1>4. /\ Supplied("rollback", l, store') /\ "rollback" \in Working
      /\ "rollback" \notin PreCommit \cup PostCommit
      /\ Staged("rollback", l) = ToUndo(l, "staging") /\ Worked("rollback", l) = ToUndo(l, "workspace")
  BY <1>3, UndoSupplied
<1>5. Len(chunk[c].cleanup) + Len(l.todo) <= 3
  <2>1. PICK n \in Nat : n = Len(l.todo)
    OBVIOUS
  <2>2. Len(chunk[c].cleanup) = 0
    BY <1>2
  <2>3. QED
    BY <2>1, <2>2
<1>6. ChunkOf("rollback", l, chunk[c], t)
  BY <1>2, <1>4, <1>5 DEF ChunkOf
<1>7. QED
  BY <1>1, <1>2, <1>4, <1>6, PlainStay

LEMMA OnwardBooks ==
  ASSUME TransactionInv, TransactionInv', BooksInv, NEW t \in Threads, pc[t] \in PreCommit,
         Steady(t), Quiet(t), UNCHANGED <<ledger, chunk>>,
         NEW p \in PreCommit, pc'[t] = p, NEW l, loc'[t] = l,
         l.dest = loc[t].dest, l.chunk = loc[t].chunk, l.toks = loc[t].toks,
         Supplied(p, l, store'),
         Staged(p, l) = Staged(pc[t], loc[t]), Worked(p, l) = Worked(pc[t], loc[t])
  PROVE  BooksInv'
<1>1. PICK c \in Chunks : c = loc[t].chunk
  BY PreFacts
<1>2. pc[t] \in Working /\ chunk[c].cleanup = <<>>
  BY <1>1, PreFacts
<1>3. p \in Working /\ p \notin PostCommit \cup Unwinding
  BY DEF Working, PreCommit, PostCommit, Unwinding, Filled
<1>4. ChunkOf(p, l, chunk[c], t)
  BY <1>2, <1>3 DEF ChunkOf
<1>5. QED
  BY <1>1, <1>2, <1>3, <1>4, PlainStay

LEMMA ClearKeeps ==
  ASSUME NEW t \in Threads, NEW ch \in ChunkRecords
  PROVE  /\ ClearTransition(ch, t).cleanup = ch.cleanup /\ Poison(ch, t).cleanup = ch.cleanup
         /\ Poison(ch, t).lifecycle = "poisoned"
         /\ ClearTransition(ch, t) \in ChunkRecords /\ Poison(ch, t) \in ChunkRecords
<1>1. PICK u : u = (IF ch.txn = t THEN None ELSE ch.txn)
  OBVIOUS
<1>2. u \in Threads \cup {None}
  BY <1>1 DEF ChunkRecords
<1>3. PICK d : d = [ch EXCEPT !.txn = u]
  OBVIOUS
<1>4. d \in ChunkRecords /\ d.cleanup = ch.cleanup
  BY <1>2, <1>3 DEF ChunkRecords
<1>5. ClearTransition(ch, t) = d
  BY <1>1, <1>3 DEF ClearTransition
<1>6. PICK e : e = [d EXCEPT !.lifecycle = "poisoned"]
  OBVIOUS
<1>7. e \in ChunkRecords /\ e.cleanup = d.cleanup /\ e.lifecycle = "poisoned"
  BY <1>4, <1>6 DEF ChunkRecords, Lifecycles
<1>8. Poison(ch, t) = e
  BY <1>5, <1>6 DEF Poison
<1>9. QED
  BY <1>4, <1>5, <1>7, <1>8

\* Giving up before anything is booked.
LEMMA QuitBooks ==
  ASSUME TransactionInv, TransactionInv', BooksInv, NEW t \in Threads, pc[t] \in Unreserved,
         Steady(t), Return(t, FALSE), UNCHANGED <<ledger, store>>,
         \/ chunk' = [chunk EXCEPT ![loc[t].chunk] = Poison(@, t)]
         \/ chunk' = [chunk EXCEPT ![loc[t].chunk] = ClearTransition(@, t)]
  PROVE  BooksInv'
<1>1. pc[t] \in PreCommit /\ pc[t] \in Tokenless /\ pc[t] \notin Filled \cup Unwinding
  BY DEF Unreserved, PreCommit, Tokenless, Filled, Unwinding
<1>2. PICK c \in Chunks : c = loc[t].chunk
  BY <1>1, PreFacts
<1>3. /\ pc[t] \in Working /\ Typed /\ chunk[c] \in ChunkRecords /\ chunk \in [Chunks -> ChunkRecords]
      /\ chunk[c].cleanup = <<>> /\ TokensAt(pc[t], loc[t])
  BY <1>1, <1>2, PreFacts
<1>4. PICK ch \in {Poison(chunk[c], t), ClearTransition(chunk[c], t)} : chunk' = [chunk EXCEPT ![c] = ch]
  BY <1>2
<1>5. ch.cleanup = chunk[c].cleanup
  BY <1>3, <1>4, ClearKeeps
<1>6. chunk'[c] = ch /\ \A d \in Chunks \ {c} : chunk'[d] = chunk[d]
  BY <1>3, <1>4
<1>7. Staged(pc[t], loc[t]) = 0 /\ Worked(pc[t], loc[t]) = 0
  BY <1>1, NothingBooked
<1>8. Len(ch.cleanup) <= 3
  BY <1>3, <1>5
<1>9. Quiet(t)
  BY <1>3, SameQuiet
<1>10. ASSUME NEW tier \in Tiers
       PROVE  /\ Owed(ch, tier) <= Owed(chunk[c], tier)
              /\ Booked(ledger[tier], ledger'[tier], 0 - Reserved(loc[t], tier), 0, 0, 0,
                        Owed(ch, tier) - Owed(chunk[c], tier))
  <2>1. Reserved(loc[t], tier) = 0
    BY <1>1, <1>3, NoClaims DEF TokensAt
  <2>2. PICK n \in Nat : n = Owed(chunk[c], tier)
    BY <1>3, ChunkShares
  <2>3. Owed(ch, tier) = n
    BY <1>5, <2>2 DEF Owed, OwedAt
  <2>4. Booked(ledger[tier], ledger'[tier], 0, 0, 0, 0, 0)
    BY <1>3, CountersNat DEF Booked, Typed, GoodLedger
  <2>5. QED
    BY <2>1, <2>2, <2>3, <2>4
<1>11. QED
  BY <1>2, <1>3, <1>6, <1>7, <1>8, <1>9, <1>10, LeaveBooks

LEMMA ProjectBooks ==
  ASSUME TransactionInv, BooksInv, NEW t \in Threads, Project(t)
  PROVE  BooksInv'
<1>1. TransactionInv' /\ Steady(t)
  BY ProjectStep
<1>2. /\ pc[t] = "project" /\ UNCHANGED <<ledger, store>> /\ pc[t] \in Unreserved
      /\ pc[t] \in PreCommit /\ "reserve" \in PreCommit
      /\ pc[t] \notin Filled \cup Unwinding /\ "reserve" \notin Filled \cup Unwinding
  BY DEF Project, Unreserved, PreCommit, Filled, Unwinding
<1>3. CASE Return(t, FALSE) /\ \/ chunk' = [chunk EXCEPT ![loc[t].chunk] = Poison(@, t)]
                               \/ chunk' = [chunk EXCEPT ![loc[t].chunk] = ClearTransition(@, t)]
  BY <1>1, <1>2, <1>3, QuitBooks
<1>4. CASE Goto(t, "reserve", loc[t]) /\ UNCHANGED chunk
  <2>1. PICK l : l = loc[t]
    OBVIOUS
  <2>2. Typed /\ TokensAt("project", l) /\ AllocationsAt("project", l)
    BY <1>2, <2>1, PreFacts
  <2>3. pc'[t] = "reserve" /\ loc'[t] = l /\ Quiet(t)
    BY <1>2, <1>4, <2>1, <2>2, GotoOthers, SameQuiet
  <2>4. TokensAt("reserve", l)
    BY <2>2 DEF TokensAt, Tokenless, Unreserved, First, Second, Third
  <2>5. AllocationsAt("reserve", l)
    BY <2>2 DEF AllocationsAt, Unreserved, First, Second, Verified
  <2>6. Supplied("reserve", l, store')
    BY <2>4, <2>5 DEF Supplied, Receipt
  <2>7. /\ Staged("reserve", l) = Staged(pc[t], loc[t])
        /\ Worked("reserve", l) = Worked(pc[t], loc[t])
    BY <1>2, NothingBooked
  <2>8. QED
    BY <1>1, <1>2, <1>4, <2>1, <2>3, <2>6, <2>7, OnwardBooks
<1>5. QED
  BY <1>2, <1>3, <1>4 DEF Project

(***************************************************************************)
(* Tokens                                                                  *)
(***************************************************************************)
LEMMA TokenCovered ==
  ASSUME Typed, Balanced, WithinLimit, NEW t \in Threads, NEW i \in 1 .. 3, NEW tok,
         tok = loc[t].toks[i]
  PROVE  tok \in ReservationTokens /\ (tok.active => tok.remaining <= ledger[tok.tier].reserved)
<1>1. loc[t] \in Locals
  BY DEF Typed
<1>2. tok \in ReservationTokens
  BY <1>1 DEF Locals
<1>3. PICK u \in Tiers : u = tok.tier
  BY <1>2 DEF ReservationTokens
<1>4. Claim(tok, u) \in Nat /\ Claim(tok, u) <= Reserved(loc[t], u) /\ Reserved(loc[t], u) \in Nat
  BY <1>1, LocalShares
<1>5. Reserved(loc[t], u) <= ledger[u].reserved /\ ledger[u].reserved \in Nat
  BY Covered, CountersNat DEF ReservedOf, Typed, GoodLedger
<1>6. Claim(tok, u) <= ledger[u].reserved
  BY <1>4, <1>5
<1>7. QED
  BY <1>2, <1>3, <1>6 DEF Claim

LEMMA DropBooks ==
  ASSUME NEW led \in Ledgers, NEW tok \in ReservationTokens,
         tok.active => tok.remaining <= led[tok.tier].reserved
  PROVE  /\ ~Refuses(led, tok)
         /\ \A u \in Tiers : Booked(led[u], DropToken(led, tok)[u], 0 - Claim(tok, u), 0, 0, 0, 0)
<1>1. ~Refuses(led, tok)
  BY DEF Refuses, ReleaseReservationOk
<1>2. ASSUME NEW u \in Tiers
      PROVE  Booked(led[u], DropToken(led, tok)[u], 0 - Claim(tok, u), 0, 0, 0, 0)
  <2>1. CASE ~tok.active
    <3>1. DropToken(led, tok) = led
      BY <2>1 DEF DropToken, ReleaseReservationOk
    <3>2. Claim(tok, u) = 0
      BY <2>1 DEF Claim
    <3>3. Booked(led[u], led[u], 0, 0, 0, 0, 0)
      BY CountersNat DEF Booked
    <3>4. QED
      BY <3>1, <3>2, <3>3
  <2>2. CASE tok.active
    <3>1. DropToken(led, tok) = ReleaseReservation(led, tok)
      BY <2>2 DEF DropToken, ReleaseReservationOk
    <3>2. PICK m \in Nat : m = tok.remaining
      BY WordFacts DEF ReservationTokens
    <3>3. 0 \in Word
      BY WordFacts
    <3>4. Booked(led[u], ReleaseReservation(led, tok)[u], Part(tok.tier, u, -m), 0, 0, 0, 0)
      BY <3>2, <3>3, TokensBook
    <3>5. Part(tok.tier, u, -m) = 0 - Claim(tok, u)
      BY <2>2, <3>2 DEF Part, Claim
    <3>6. QED
      BY <3>1, <3>4, <3>5
  <2>3. QED
    BY <2>1, <2>2
<1>3. QED
  BY <1>1, <1>2

Spends(k, l, i) == l.toks = [k.toks EXCEPT ![i] = InactiveToken]

LEMMA SpentToken ==
  ASSUME NEW k \in Locals, NEW i \in 1 .. 3, NEW l, Spends(k, l, i), NEW u
  PROVE  Reserved(l, u) = Reserved(k, u) - Claim(k.toks[i], u)
<1>0. l.toks = [k.toks EXCEPT ![i] = InactiveToken]
  BY DEF Spends
<1>1. k.toks \in [1 .. 3 -> ReservationTokens]
  BY DEF Locals
<1>2. PICK a \in Nat, b \in Nat, c \in Nat :
        a = Claim(k.toks[1], u) /\ b = Claim(k.toks[2], u) /\ c = Claim(k.toks[3], u)
  BY LocalShares
<1>3. Reserved(k, u) = a + b + c
  BY <1>2 DEF Reserved
<1>4. Claim(InactiveToken, u) = 0
  BY DEF Claim, InactiveToken
<1>5. CASE i = 1
  <2>1. l.toks[1] = InactiveToken /\ l.toks[2] = k.toks[2] /\ l.toks[3] = k.toks[3]
    BY <1>0, <1>1, <1>5
  <2>2. Reserved(l, u) = 0 + b + c
    BY <1>2, <1>4, <2>1 DEF Reserved
  <2>3. QED
    BY <1>2, <1>3, <1>5, <2>2
<1>6. CASE i = 2
  <2>1. l.toks[1] = k.toks[1] /\ l.toks[2] = InactiveToken /\ l.toks[3] = k.toks[3]
    BY <1>0, <1>1, <1>6
  <2>2. Reserved(l, u) = a + 0 + c
    BY <1>2, <1>4, <2>1 DEF Reserved
  <2>3. QED
    BY <1>2, <1>3, <1>6, <2>2
<1>7. CASE i = 3
  <2>1. l.toks[1] = k.toks[1] /\ l.toks[2] = k.toks[2] /\ l.toks[3] = InactiveToken
    BY <1>0, <1>1, <1>7
  <2>2. Reserved(l, u) = a + b + 0
    BY <1>2, <1>4, <2>1 DEF Reserved
  <2>3. QED
    BY <1>2, <1>3, <1>7, <2>2
<1>8. QED
  BY <1>5, <1>6, <1>7

\* A token of the transaction's destination tier.
LEMMA TokenClaims ==
  ASSUME NEW l, NEW b, NEW n \in Int, NEW u
  PROVE  Claim(TokenOf(l, b, n), u) = Part(TierOf(l.dest), u, n) /\ Claim(InactiveToken, u) = 0
BY DEF Claim, TokenOf, InactiveToken, Part

(***************************************************************************)
(* The reservation                                                         *)
(***************************************************************************)
LEMMA JoinedLists ==
  ASSUME NEW x, NEW y, NEW z, NEW e, NEW f
  PROVE  /\ e = <<>> /\ f = <<>> => Len(<<x>> \o e \o f) = 1 /\ (<<x>> \o e \o f)[1] = x
         /\ e = <<y>> /\ f = <<>> =>
              /\ Len(<<x>> \o e \o f) = 2
              /\ (<<x>> \o e \o f)[1] = x /\ (<<x>> \o e \o f)[2] = y
         /\ e = <<y>> /\ f = <<z>> =>
              /\ Len(<<x>> \o e \o f) = 3
              /\ (<<x>> \o e \o f)[1] = x /\ (<<x>> \o e \o f)[2] = y /\ (<<x>> \o e \o f)[3] = z
<1>1. CASE e = <<>> /\ f = <<>>
  BY <1>1
<1>2. CASE e = <<y>> /\ f = <<>>
  BY <1>2
<1>3. CASE e = <<y>> /\ f = <<z>>
  BY <1>3
<1>4. QED
  BY <1>1, <1>2, <1>3

\* The tokens a granted batch of requests is turned into.
Granted(l, reqs) ==
  \A i \in 1 .. 3 : l.toks[i] = IF i <= Len(reqs) THEN TokenFor(reqs[i]) ELSE InactiveToken

\* A workspace is requested for a transforming migration, a compaction target for a
\* compressed destination; the latter always transforms.
LEMMA RequestShape ==
  ASSUME TransactionInv, NEW t \in Threads, pc[t] \in PreCommit,
         NEW l, l.dest = loc[t].dest, l.src = loc[t].src, Granted(l, Requests(t))
  PROVE  l.toks[1] = FirstToken(l) /\ l.toks[2] = SecondToken(l) /\ l.toks[3] = ThirdToken(l)
<1> DEFINE s == loc[t].dest
           x == Temporary(DestTier(t), "staging", AllocationBound[s])
           y == Temporary(DestTier(t), "workspace", WorkspaceBound)
           z == Temporary(DestTier(t), "workspace", CompactionBound[s])
           e == IF NeedsWorkspace(t) THEN <<y>> ELSE <<>>
           f == IF NeedsCompaction(t) THEN <<z>> ELSE <<>>
<1>1. s \in States
  BY WorkFacts DEF Locals
<1>2. NeedsCompaction(t) => NeedsWorkspace(t)
  BY <1>1, TransactionAssumption DEF TransactionAssumption, NeedsCompaction, NeedsWorkspace
<1>3. /\ NeedsWorkspace(t) <=> Transforms(l)
      /\ NeedsCompaction(t) <=> Compacted(l)
  BY DEF NeedsWorkspace, NeedsCompaction, Transforms, Compacted
<1>4. /\ TokenFor(x) = FirstToken(l)
      /\ TokenFor(y) = TokenOf(l, "workspace", WorkspaceBound)
      /\ TokenFor(z) = TokenOf(l, "workspace", CompactionBound[l.dest])
  BY DEF TokenFor, Temporary, FirstToken, TokenOf, DestTier
<1>5. Requests(t) = <<x>> \o e \o f
  BY DEF Requests
<1>6. PICK reqs : reqs = Requests(t)
  OBVIOUS
<1>7. PICK ee, ff : ee = e /\ ff = f /\ reqs = <<x>> \o ee \o ff
  BY <1>5, <1>6
<1>8. /\ ~NeedsWorkspace(t) => Len(reqs) = 1 /\ reqs[1] = x
      /\ NeedsWorkspace(t) /\ ~NeedsCompaction(t) => Len(reqs) = 2 /\ reqs[1] = x /\ reqs[2] = y
      /\ NeedsWorkspace(t) /\ NeedsCompaction(t) =>
           Len(reqs) = 3 /\ reqs[1] = x /\ reqs[2] = y /\ reqs[3] = z
  <2>1. CASE ~NeedsWorkspace(t)
    <3>1. ee = <<>> /\ ff = <<>>
      BY <1>2, <1>7, <2>1
    <3>2. QED
      BY <1>7, <2>1, <3>1, JoinedLists
  <2>2. CASE NeedsWorkspace(t) /\ ~NeedsCompaction(t)
    <3>1. ee = <<y>> /\ ff = <<>>
      BY <1>7, <2>2
    <3>2. QED
      BY <1>7, <2>2, <3>1, JoinedLists
  <2>3. CASE NeedsWorkspace(t) /\ NeedsCompaction(t)
    <3>1. ee = <<y>> /\ ff = <<z>>
      BY <1>7, <2>3
    <3>2. QED
      BY <1>7, <2>3, <3>1, JoinedLists
  <2>4. QED
    BY <2>1, <2>2, <2>3
<1> HIDE DEF s, x, y, z, e, f
<1>9. PICK n : n = Len(reqs)
  OBVIOUS
<1>10. /\ l.toks[1] = IF 1 <= n THEN TokenFor(reqs[1]) ELSE InactiveToken
       /\ l.toks[2] = IF 2 <= n THEN TokenFor(reqs[2]) ELSE InactiveToken
       /\ l.toks[3] = IF 3 <= n THEN TokenFor(reqs[3]) ELSE InactiveToken
  BY <1>6, <1>9 DEF Granted
<1>11. CASE ~NeedsWorkspace(t)
  <2>1. n = 1 /\ reqs[1] = x
    BY <1>8, <1>9, <1>11
  <2>2. l.toks[1] = TokenFor(x) /\ l.toks[2] = InactiveToken /\ l.toks[3] = InactiveToken
    BY <1>10, <2>1
  <2>3. QED
    BY <1>2, <1>3, <1>4, <1>11, <2>2 DEF SecondToken, ThirdToken
<1>12. CASE NeedsWorkspace(t) /\ ~NeedsCompaction(t)
  <2>1. n = 2 /\ reqs[1] = x /\ reqs[2] = y
    BY <1>8, <1>9, <1>12
  <2>2. l.toks[1] = TokenFor(x) /\ l.toks[2] = TokenFor(y) /\ l.toks[3] = InactiveToken
    BY <1>10, <2>1
  <2>3. QED
    BY <1>3, <1>4, <1>12, <2>2 DEF SecondToken, ThirdToken
<1>13. CASE NeedsWorkspace(t) /\ NeedsCompaction(t)
  <2>1. n = 3 /\ reqs[1] = x /\ reqs[2] = y /\ reqs[3] = z
    BY <1>8, <1>9, <1>13
  <2>2. l.toks[1] = TokenFor(x) /\ l.toks[2] = TokenFor(y) /\ l.toks[3] = TokenFor(z)
    BY <1>10, <2>1
  <2>3. QED
    BY <1>3, <1>4, <1>13, <2>2 DEF SecondToken, ThirdToken
<1>14. QED
  BY <1>11, <1>12, <1>13

\* The tokens claim what was requested.
LEMMA GrantedClaims ==
  ASSUME NEW reqs, NEW l, Granted(l, reqs), NEW u
  PROVE  Reserved(l, u) = Requested(reqs, u)
<1>1. ASSUME NEW q PROVE Claim(TokenFor(q), u) = IF q.tier = u THEN q.amount ELSE 0
  BY DEF Claim, TokenFor
<1>2. Claim(InactiveToken, u) = 0
  BY DEF Claim, InactiveToken
<1>3. \A i \in 1 .. 3 : Claim(l.toks[i], u) = AmountAt(reqs, i, u)
  BY <1>1, <1>2 DEF Granted, AmountAt
<1>4. QED
  BY <1>3 DEF Reserved, Requested

\* Whatever is reserved fits into the hard limit.
LEMMA ReserveWithin ==
  ASSUME NEW led \in Ledgers, NEW reqs \in Seq(ReservationRequests), ReserveOk(led, reqs),
         NEW u \in Tiers, Total(led[u]) <= HardLimit[u]
  PROVE  Total(Reserve(led, reqs)[u]) <= HardLimit[u]
<1>1. PICK x \in Nat, y \in Nat, z \in Nat :
         x = AmountAt(reqs, 1, u) /\ y = AmountAt(reqs, 2, u) /\ z = AmountAt(reqs, 3, u)
  BY ReserveAddsRequested
<1>2. PICK n \in Int : n = Requested(reqs, u)
  BY <1>1 DEF Requested
<1>3. Booked(led[u], Reserve(led, reqs)[u], n, 0, 0, 0, 0)
  BY <1>2, ReserveBooks
<1>4. Total(Reserve(led, reqs)[u]) = Total(led[u]) + (n + 0 + 0 + 0 + 0)
  BY <1>3, BookedTotal
<1>5. PICK q \in Nat : q = Total(led[u])
  BY CountersNat DEF Total
<1>6. HardLimit[u] \in Nat /\ NormalLimit(u) <= HardLimit[u]
  BY BudgetAssumption DEF BudgetAssumption, NormalLimit
<1>7. CASE n = 0
  BY <1>4, <1>5, <1>6, <1>7
<1>8. CASE n # 0
  <2>1. ReserveTierOk(led[u], reqs, u)
    BY <1>2, <1>8 DEF ReserveOk
  <2>2. q + n <= (IF HasTemporary(reqs, u) THEN HardLimit[u] ELSE NormalLimit(u))
    BY <1>2, <1>5, <2>1 DEF ReserveTierOk
  <2>3. NormalLimit(u) \in Int
    BY BudgetAssumption DEF BudgetAssumption, NormalLimit
  <2>4. q + n <= HardLimit[u]
    BY <1>6, <2>2, <2>3
  <2>5. QED
    BY <1>4, <1>5, <2>4
<1>9. QED
  BY <1>7, <1>8

LEMMA ReserveAllBooks ==
  ASSUME TransactionInv, BooksInv, NEW t \in Threads, ReserveAll(t)
  PROVE  BooksInv'
<1>1. TransactionInv' /\ Steady(t)
  BY ReserveAllStep
<1>2. /\ pc[t] = "reserve" /\ UNCHANGED store /\ pc[t] \in Unreserved /\ pc[t] \in PreCommit
      /\ "alloc_dst" \in PreCommit /\ "alloc_dst" \in Working /\ "alloc_dst" \in First
      /\ "alloc_dst" \notin PostCommit \cup Unwinding \cup Second \cup Third \cup Tokenless
      /\ pc[t] \notin Filled \cup Unwinding /\ "alloc_dst" \notin Filled \cup Unwinding
  BY DEF ReserveAll, Unreserved, PreCommit, PostCommit, Filled, Unwinding, Working, First, Second,
         Third, Tokenless, Moving, Leasing, Holding, Verified
<1>3. CASE ReserveOk(ledger, Requests(t))
  <2>1. PICK l : l = [loc[t] EXCEPT !.toks = [i \in 1 .. 3 |->
                        IF i <= Len(Requests(t)) THEN TokenFor(Requests(t)[i]) ELSE InactiveToken]]
    OBVIOUS
  <2>2. Goto(t, "alloc_dst", l) /\ ledger' = Reserve(ledger, Requests(t)) /\ UNCHANGED chunk
    BY <1>3, <2>1 DEF ReserveAll
  <2>3. /\ Typed /\ loc[t] \in Locals /\ AllocationsAt("reserve", loc[t])
        /\ TokensAt("reserve", loc[t]) /\ chunk[loc[t].chunk].cleanup = <<>> /\ pc[t] \in Working
    BY <1>2, PreFacts
  <2>4. /\ l.dest = loc[t].dest /\ l.src = loc[t].src /\ l.chunk = loc[t].chunk
        /\ l.ws = loc[t].ws /\ l.comp = loc[t].comp /\ Granted(l, Requests(t))
    BY <2>1, <2>3 DEF Locals, Granted
  <2>5. Others(t) /\ pc'[t] = "alloc_dst" /\ loc'[t] = l /\ Quiet(t)
    BY <1>2, <2>2, <2>3, GotoOthers, SameQuiet
  <2>6. l.toks[1] = FirstToken(l) /\ l.toks[2] = SecondToken(l) /\ l.toks[3] = ThirdToken(l)
    BY <1>2, <2>4, RequestShape
  <2>7. TokensAt("alloc_dst", l)
    BY <1>2, <2>6 DEF TokensAt
  <2>8. AllocationsAt("alloc_dst", l)
    BY <2>3, <2>4 DEF AllocationsAt, Unreserved, First, Second, Verified
  <2>9. Supplied("alloc_dst", l, store')
    BY <2>7, <2>8 DEF Supplied, Receipt
  <2>10. PICK c \in Chunks : c = loc[t].chunk
    BY <1>2, PreFacts
  <2>11. chunk'[c] = chunk[c] /\ ChunkOf("alloc_dst", l, chunk[c], t) /\ Len(chunk[c].cleanup) <= 3
    BY <1>2, <2>2, <2>3, <2>10 DEF ChunkOf, BooksInv, Apart
  <2>12. Requests(t) \in Seq(ReservationRequests) /\ ledger \in Ledgers
    BY <1>2, <2>3, RequestsTyped DEF Typed, GoodLedger
  <2>13. ASSUME NEW u \in Tiers
         PROVE  Follows(t, c, u) /\ Total(ledger'[u]) <= HardLimit[u]
    <3>1. Total(ledger'[u]) <= HardLimit[u]
      BY <1>3, <2>2, <2>12, ReserveWithin DEF BooksInv, WithinLimit
    <3>2. Reserved(loc[t], u) = 0
      BY <2>3, NoClaims DEF TokensAt, Tokenless, Unreserved
    <3>3. PICK n \in Int : n = Requested(Requests(t), u)
      BY <2>12, ReserveAddsRequested DEF Requested
    <3>4. Reserved(l, u) = n
      BY <2>4, <3>3, GrantedClaims
    <3>5. /\ Staged(pc[t], loc[t]) = 0 /\ Worked(pc[t], loc[t]) = 0
          /\ Staged("alloc_dst", l) = 0 /\ Worked("alloc_dst", l) = 0
      BY <1>2, NothingBooked
    <3>6. /\ ReservedOf(t, u) = 0 /\ ReservedOf(t, u)' = n
          /\ StagingOf(t, u) = 0 /\ StagingOf(t, u)' = 0
          /\ WorkspaceOf(t, u) = 0 /\ WorkspaceOf(t, u)' = 0
      BY <2>5, <3>2, <3>4, <3>5 DEF ReservedOf, StagingOf, WorkspaceOf, Part
    <3>7. /\ CommittedOf(c, u)' = CommittedOf(c, u) /\ DebtOf(c, u)' = DebtOf(c, u)
          /\ CommittedOf(c, u) \in Nat /\ DebtOf(c, u) \in Nat
      BY <2>2, <2>3, ShareTypes DEF CommittedOf, DebtOf
    <3>8. Booked(ledger[u], ledger'[u], n, 0, 0, 0, 0)
      BY <2>2, <2>12, <3>3, ReserveBooks
    <3>9. /\ ReservedOf(t, u)' - ReservedOf(t, u) = n /\ StagingOf(t, u)' - StagingOf(t, u) = 0
          /\ WorkspaceOf(t, u)' - WorkspaceOf(t, u) = 0
          /\ CommittedOf(c, u)' - CommittedOf(c, u) = 0 /\ DebtOf(c, u)' - DebtOf(c, u) = 0
      BY <3>6, <3>7
    <3>10. Follows(t, c, u)
      BY <3>8, <3>9 DEF Follows
    <3>11. QED
      BY <3>1, <3>10
  <2>14. QED
    BY <1>1, <2>2, <2>3, <2>4, <2>5, <2>9, <2>10, <2>11, <2>13, WorkBooks
<1>4. CASE ~ReserveOk(ledger, Requests(t))
  <2>1. /\ chunk' = [chunk EXCEPT ![loc[t].chunk] = ClearTransition(@, t)] /\ Return(t, FALSE)
        /\ UNCHANGED <<ledger, store>>
    BY <1>2, <1>4 DEF ReserveAll
  <2>2. QED
    BY <1>1, <1>2, <2>1, QuitBooks
<1>5. QED
  BY <1>3, <1>4

(***************************************************************************)
(* The destination                                                         *)
(***************************************************************************)
LEMMA AllocateDestinationBooks ==
  ASSUME TransactionInv, BooksInv, NEW t \in Threads, AllocateDestination(t)
  PROVE  BooksInv'
<1>1. TransactionInv' /\ Steady(t)
  BY AllocateDestinationStep
<1>2. /\ pc[t] = "alloc_dst" /\ pc[t] \in PreCommit /\ UNCHANGED <<ledger, chunk>>
      /\ "mat_dst" \in PreCommit /\ pc[t] \notin Filled \cup Unwinding
      /\ "mat_dst" \notin Unwinding /\ pc[t] \in First /\ "mat_dst" \in First
      /\ "mat_dst" \notin Second \cup Third \cup Tokenless
  BY DEF AllocateDestination, PreCommit, Filled, Unwinding, First, Second, Third, Tokenless, Moving,
         Unreserved, Leasing, Holding, Verified, PostCommit
<1>3. /\ Typed /\ loc[t] \in Locals /\ TokensAt("alloc_dst", loc[t])
      /\ AllocationsAt("alloc_dst", loc[t])
  BY <1>2, PreFacts
<1>4. Staged(pc[t], loc[t]) = 0 /\ Worked(pc[t], loc[t]) = 0
  BY <1>2, NothingBooked
<1>5. ASSUME NEW r, r \in NextId, NEW n, n \in AllocationCharges[loc[t].dest],
             store' = [store EXCEPT ![r] = Allocated(DestTier(t), n)],
             Goto(t, "mat_dst", [loc[t] EXCEPT !.dst = [id |-> r, charge |-> n]])
      PROVE  BooksInv'
  <2>1. loc[t].dest \in States
    BY <1>3 DEF Locals
  <2>2. n \in Word /\ n <= AllocationBound[loc[t].dest]
    BY <1>5, <2>1, TransactionAssumption, BooksAssumption DEF TransactionAssumption, BooksAssumption
  <2>3. Quiet(t)
    BY <1>2, <1>5, <2>2, AllocateFacts DEF Framed
  <2>4. PICK l : l = [loc[t] EXCEPT !.dst = [id |-> r, charge |-> n]]
    OBVIOUS
  <2>5. pc'[t] = "mat_dst" /\ loc'[t] = l
    BY <1>3, <1>5, <2>4, GotoOthers
  <2>6. /\ l.dest = loc[t].dest /\ l.chunk = loc[t].chunk /\ l.toks = loc[t].toks /\ l.src = loc[t].src
        /\ l.ws = loc[t].ws /\ l.comp = loc[t].comp /\ l.dst.charge = n
    BY <1>3, <2>4 DEF Locals
  <2>7. TokensAt("mat_dst", l)
    BY <1>2, <1>3, <2>6 DEF TokensAt, FirstToken, SecondToken, ThirdToken, TokenOf, Transforms, Compacted
  <2>8. l.ws = NoAlloc /\ l.comp = NoAlloc
    BY <1>2, <1>3, <2>6 DEF AllocationsAt
  <2>9. AllocationsAt("mat_dst", l)
    BY <2>2, <2>6, <2>8 DEF AllocationsAt, Second
  <2>10. Supplied("mat_dst", l, store')
    BY <2>7, <2>9 DEF Supplied, Receipt
  <2>11. /\ Staged("mat_dst", l) = 0 /\ Worked("mat_dst", l) = 0
    BY <1>2, <2>8 DEF Staged, Worked, Filled, NoAlloc
  <2>12. QED
    BY <1>1, <1>2, <1>4, <2>3, <2>5, <2>6, <2>10, <2>11, OnwardBooks
<1>6. ASSUME RollBack(t, <<>>, "clear"), UNCHANGED store
      PROVE  BooksInv'
  <2>1. PICK l : l = [loc[t] EXCEPT !.todo = <<>>, !.ending = "clear"]
    OBVIOUS
  <2>2. pc'[t] = "rollback" /\ loc'[t] = l
    <3>1. Goto(t, "rollback", l)
      BY <1>6, <2>1 DEF RollBack
    <3>2. QED
      BY <1>3, <3>1, GotoOthers
  <2>3. /\ l.dest = loc[t].dest /\ l.chunk = loc[t].chunk /\ l.toks = loc[t].toks
        /\ l.todo = <<>>
    BY <1>3, <2>1 DEF Locals
  <2>4. ToUndo(l, "staging") = 0 /\ ToUndo(l, "workspace") = 0 /\ Len(l.todo) = 0
    BY <1>3, <2>3, RollbackLists
  <2>5. Len(l.todo) <= 3 /\ Len(l.todo) \in Nat
    BY <2>4
  <2>6. Quiet(t)
    BY <1>2, <1>6, <1>3, SameQuiet
  <2>7. QED
    BY <1>1, <1>2, <1>4, <1>6, <2>2, <2>3, <2>4, <2>5, <2>6, RollBackBooks
<1>7. QED
  BY <1>5, <1>6 DEF AllocateDestination

(***************************************************************************)
(* What a chunk owes                                                       *)
(***************************************************************************)
\* At most two entries are on the cleanup list.
HasRoom(k) == Len(k.cleanup) <= 2

LEMMA DebtAdds ==
  ASSUME NEW k \in ChunkRecords, HasRoom(k), NEW t, NEW res, res.charge \in Nat,
         NEW ch, ch = RememberCleanup(k, t, res)
  PROVE  /\ \A u : Owed(ch, u) = Owed(k, u) + Part(res.tier, u, res.charge)
         /\ ch.txn = k.txn /\ ch.lifecycle = k.lifecycle /\ Len(ch.cleanup) = Len(k.cleanup) + 1
<1>1. PICK s \in Seq(CleanupResources) : s = k.cleanup
  BY DEF ChunkRecords
<1>2. PICK n \in Nat : n = Len(s)
  OBVIOUS
<1>3. n <= 2
  BY <1>1, <1>2 DEF HasRoom
<1>4. ch = [k EXCEPT !.cleanup = Append(s, res)]
  BY <1>1, <1>2, <1>3 DEF RememberCleanup, CleanupSlots
<1>5. PICK e : e = Append(s, res)
  OBVIOUS
<1>6. ch.cleanup = e /\ ch.txn = k.txn /\ ch.lifecycle = k.lifecycle
  BY <1>4, <1>5 DEF ChunkRecords
<1>7. Len(e) = n + 1 /\ e[n + 1] = res /\ \A i \in 1 .. n : e[i] = s[i]
  BY <1>2, <1>5
<1>8. ASSUME NEW u PROVE Owed(ch, u) = Owed(k, u) + Part(res.tier, u, res.charge)
  <2>1. PICK x \in Nat : x = Part(res.tier, u, res.charge)
    BY DEF Part
  <2>2. ASSUME NEW i \in 1 .. 3
        PROVE  /\ OwedAt(k, i, u) \in Nat
               /\ i <= n => OwedAt(ch, i, u) = OwedAt(k, i, u)
               /\ i = n + 1 => OwedAt(ch, i, u) = x
               /\ i > n => OwedAt(k, i, u) = 0
               /\ i > n + 1 => OwedAt(ch, i, u) = 0
    <3>1. i <= n => s[i] \in CleanupResources
      BY <1>2
    <3>2. i <= n => s[i].charge \in Nat
      BY <3>1, WordFacts DEF CleanupResources
    <3>3. OwedAt(k, i, u) = IF i <= n THEN (IF s[i].tier = u THEN s[i].charge ELSE 0) ELSE 0
      BY <1>1, <1>2 DEF OwedAt
    <3>4. OwedAt(ch, i, u) = IF i <= n + 1 THEN (IF e[i].tier = u THEN e[i].charge ELSE 0) ELSE 0
      BY <1>6, <1>7 DEF OwedAt
    <3>5. (i <= n => e[i] = s[i]) /\ (i = n + 1 => e[i] = res)
      BY <1>7
    <3>6. i = n + 1 => OwedAt(ch, i, u) = x
      BY <2>1, <3>4, <3>5 DEF Part
    <3>7. i <= n => OwedAt(ch, i, u) = OwedAt(k, i, u)
      BY <3>3, <3>4, <3>5
    <3>8. QED
      BY <3>2, <3>3, <3>4, <3>6, <3>7
  <2>3. PICK a1 \in Nat, a2 \in Nat, a3 \in Nat :
          a1 = OwedAt(k, 1, u) /\ a2 = OwedAt(k, 2, u) /\ a3 = OwedAt(k, 3, u)
    BY <2>2
  <2>4. Owed(k, u) = a1 + a2 + a3
    BY <2>3 DEF Owed
  <2>5. CASE n = 0
    <3>1. OwedAt(ch, 1, u) = x /\ OwedAt(ch, 2, u) = 0 /\ OwedAt(ch, 3, u) = 0
          /\ a1 = 0 /\ a2 = 0 /\ a3 = 0
      BY <2>2, <2>3, <2>5
    <3>2. QED
      BY <2>1, <2>4, <3>1 DEF Owed
  <2>6. CASE n = 1
    <3>1. OwedAt(ch, 1, u) = a1 /\ OwedAt(ch, 2, u) = x /\ OwedAt(ch, 3, u) = 0
          /\ a2 = 0 /\ a3 = 0
      BY <2>2, <2>3, <2>6
    <3>2. QED
      BY <2>1, <2>4, <3>1 DEF Owed
  <2>7. CASE n = 2
    <3>1. OwedAt(ch, 1, u) = a1 /\ OwedAt(ch, 2, u) = a2 /\ OwedAt(ch, 3, u) = x /\ a3 = 0
      BY <2>2, <2>3, <2>7
    <3>2. QED
      BY <2>1, <2>4, <3>1 DEF Owed
  <2>8. QED
    BY <1>3, <2>5, <2>6, <2>7
<1>9. Len(ch.cleanup) = Len(k.cleanup) + 1
  BY <1>1, <1>2, <1>6, <1>7
<1>10. QED
  BY <1>6, <1>8, <1>9

LEMMA DebtOwed ==
  ASSUME NEW k \in ChunkRecords, HasRoom(k), NEW t, NEW a, NEW m \in Nat, a.charge = m,
         NEW ch, ch.cleanup = RememberCleanup(k, t, Debt(t, a)).cleanup, NEW u
  PROVE  Owed(ch, u) = Owed(k, u) + Part(DestTier(t), u, m)
<1>2. PICK res, d : res = Debt(t, a) /\ d = RememberCleanup(k, t, res)
  OBVIOUS
<1>3. res.charge = m /\ res.tier = DestTier(t) /\ res.charge \in Nat
  BY <1>2 DEF Debt
<1>4. \A v : Owed(d, v) = Owed(k, v) + Part(res.tier, v, res.charge)
  BY <1>2, <1>3, DebtAdds
<1>5. ch.cleanup = d.cleanup
  BY <1>2
<1>6. Owed(ch, u) = Owed(d, u)
  BY <1>5 DEF Owed, OwedAt
<1>7. QED
  BY <1>3, <1>4, <1>6

LEMMA DebtKeeps ==
  ASSUME NEW k \in ChunkRecords, HasRoom(k), NEW t, NEW a, a.charge \in Nat,
         NEW ch, ch = RememberCleanup(k, t, Debt(t, a))
  PROVE  ch.txn = k.txn /\ ch.lifecycle = k.lifecycle /\ Len(ch.cleanup) = Len(k.cleanup) + 1
<1>1. PICK res : res = Debt(t, a)
  OBVIOUS
<1>2. res.charge \in Nat /\ ch = RememberCleanup(k, t, res)
  BY <1>1 DEF Debt
<1>3. QED
  BY <1>2, DebtAdds

\* The first debt of a rollback that has at most two more resources to give back.
LEMMA FirstDebt ==
  ASSUME NEW k \in ChunkRecords, NEW t \in Threads, k.txn = t, NEW a, a.charge \in Nat,
         NEW ch, ch = RememberCleanup(k, t, Debt(t, a)), NEW l
  PROVE  Len(k.cleanup) = 0 /\ Len(l.todo) \in {0, 1, 2} =>
           HasRoom(k) /\ ChunkOf("rollback", l, ch, t)
<1>1. ASSUME Len(k.cleanup) = 0 PROVE HasRoom(k) /\ Len(k.cleanup) + 1 = 1
  BY <1>1 DEF HasRoom
<1>2. HasRoom(k) => ch.txn = k.txn /\ Len(ch.cleanup) = Len(k.cleanup) + 1
  BY DebtKeeps
<1>3. ASSUME Len(k.cleanup) = 0, Len(l.todo) \in {0, 1, 2}
      PROVE  Len(ch.cleanup) + Len(l.todo) <= 3
  <2>1. PICK m, n : m = Len(ch.cleanup) /\ n = Len(l.todo)
    OBVIOUS
  <2>2. m = 1 /\ n \in {0, 1, 2}
    BY <1>1, <1>2, <1>3, <2>1
  <2>3. m + n <= 3
    BY <2>2
  <2>4. QED
    BY <2>1, <2>3
<1>4. "rollback" \notin PreCommit \cup PostCommit
  BY DEF PreCommit, PostCommit, Filled
<1>5. QED
  BY <1>1, <1>2, <1>3, <1>4 DEF ChunkOf

(***************************************************************************)
(* Materializing a reservation                                             *)
(***************************************************************************)
LEMMA BookedTwice ==
  ASSUME NEW led \in Ledgers, NEW u \in Tiers, NEW y, NEW z, NEW q, NEW r \in Int, NEW r1 \in Int,
         NEW s \in Int, NEW w \in Int, Booked(led[u], y, r, s, w, 0, 0),
         Booked(y, z, r1, 0, 0, 0, 0), q = r + r1
  PROVE  Booked(led[u], z, q, s, w, 0, 0)
<1>1. PICK x1 \in Nat, x2 \in Nat, x3 \in Nat, x4 \in Nat, x5 \in Nat :
         /\ x1 = led[u].reserved /\ x2 = led[u].staging /\ x3 = led[u].workspace
         /\ x4 = led[u].committed /\ x5 = led[u].cleanup_debt
  BY CountersNat
<1>2. /\ z.reserved = (x1 + r) + r1 /\ z.staging = (x2 + s) + 0 /\ z.workspace = (x3 + w) + 0
      /\ z.committed = (x4 + 0) + 0 /\ z.cleanup_debt = (x5 + 0) + 0
  BY <1>1 DEF Booked
<1>3. /\ z.reserved = x1 + q /\ z.staging = x2 + s /\ z.workspace = x3 + w
      /\ z.committed = x4 + 0 /\ z.cleanup_debt = x5 + 0
  BY <1>2
<1>4. QED
  BY <1>1, <1>3 DEF Booked

\* A token that has the bytes is turned into a charge of its bucket and what is left of it
\* is given back.
LEMMA MaterializeBooked ==
  ASSUME NEW led, GoodLedger(led), NEW tok \in ReservationTokens, tok.active, NEW m \in Word,
         MaterializeOk(led, tok, m), tok.remaining <= led[tok.tier].reserved,
         NEW led2, led2 = Materialize(led, tok, m), NEW rest, rest = MaterializedToken(tok, m)
  PROVE  /\ ~Refuses(led2, rest)
         /\ \A u \in Tiers :
              Booked(led[u], DropToken(led2, rest)[u], Part(tok.tier, u, -tok.remaining),
                     Part(tok.tier, u, Part(tok.bucket, "staging", m)),
                     Part(tok.tier, u, Part(tok.bucket, "workspace", m)), 0, 0)
<1>1. led \in Ledgers /\ led2 \in Ledgers
  BY TokenOpsGood DEF GoodLedger
<1>2. PICK n \in Nat, k \in Nat : n = tok.remaining /\ k = m /\ k <= n
  BY WordFacts DEF ReservationTokens, MaterializeOk
<1>3. PICK v \in Tiers : v = tok.tier
  BY DEF ReservationTokens
<1>4. rest \in ReservationTokens
  BY RestTyped
<1>5. rest.active /\ rest.tier = v /\ rest.remaining = n - k
  BY <1>2, <1>3 DEF MaterializedToken, ReservationTokens
<1>6. ASSUME NEW u \in Tiers
      PROVE  Booked(led[u], led2[u], Part(v, u, -k), Part(v, u, Part(tok.bucket, "staging", m)),
                    Part(v, u, Part(tok.bucket, "workspace", m)), 0, 0)
  BY <1>1, <1>2, <1>3, TokensBook
<1>7. rest.remaining <= led2[v].reserved
  <2>1. PICK x \in Nat : x = led[v].reserved
    BY <1>1, CountersNat
  <2>2. led2[v].reserved = x + (-k)
    BY <1>6, <2>1 DEF Booked, Part
  <2>3. n <= x
    BY <1>2, <1>3, <2>1
  <2>4. n - k <= x + (-k)
    BY <1>2, <2>3
  <2>5. QED
    BY <1>5, <2>2, <2>4
<1>8. /\ ~Refuses(led2, rest)
      /\ \A u \in Tiers : Booked(led2[u], DropToken(led2, rest)[u], 0 - Claim(rest, u), 0, 0, 0, 0)
  BY <1>1, <1>4, <1>5, <1>7, DropBooks
<1>9. ASSUME NEW u \in Tiers
      PROVE  Booked(led[u], DropToken(led2, rest)[u], Part(v, u, -n),
                    Part(v, u, Part(tok.bucket, "staging", m)),
                    Part(v, u, Part(tok.bucket, "workspace", m)), 0, 0)
  <2>1. PICK r \in Int, r1 \in Int, q \in Int :
          r = Part(v, u, -k) /\ r1 = 0 - Claim(rest, u) /\ q = Part(v, u, -n)
    BY <1>2, <1>5 DEF Part, Claim
  <2>2. q = r + r1
    BY <1>2, <1>5, <2>1 DEF Part, Claim
  <2>3. PICK s \in Int, w \in Int : /\ s = Part(v, u, Part(tok.bucket, "staging", m))
                                    /\ w = Part(v, u, Part(tok.bucket, "workspace", m))
    BY <1>2 DEF Part
  <2>4. Booked(led[u], led2[u], r, s, w, 0, 0)
    BY <1>6, <2>1, <2>3
  <2>5. Booked(led2[u], DropToken(led2, rest)[u], r1, 0, 0, 0, 0)
    BY <1>8, <2>1
  <2>6. Booked(led[u], DropToken(led2, rest)[u], q, s, w, 0, 0)
    BY <1>1, <2>2, <2>4, <2>5, BookedTwice
  <2>7. QED
    BY <2>1, <2>3, <2>6
<1>10. QED
  BY <1>2, <1>3, <1>8, <1>9

\* The i-th token of t reserves n bytes of a bucket of its destination's tier.
HoldsToken(t, i, b, n) == loc[t].toks[i] = TokenOf(loc[t], b, n)

LEMMA HeldToken ==
  ASSUME TransactionInv, BooksInv, NEW t \in Threads, pc[t] \in Working, NEW i \in 1 .. 3,
         NEW b, NEW n, HoldsToken(t, i, b, n), NEW tok, tok = loc[t].toks[i]
  PROVE  /\ tok \in ReservationTokens /\ tok.active /\ tok.tier = DestTier(t) /\ tok.bucket = b
         /\ tok.remaining = n /\ n \in Word /\ b \in Buckets /\ n <= ledger[DestTier(t)].reserved
         /\ \A u : Claim(tok, u) = Part(DestTier(t), u, n)
         /\ \A m \in Word : m <= n => RecordContractDebtOk(ledger, tok, m)
<1>1. Typed /\ Balanced /\ WithinLimit /\ DestTier(t) \in Tiers
  BY WorkFacts DEF Working, BooksInv
<1>2. tok = TokenOf(loc[t], b, n)
  BY DEF HoldsToken
<1>3. tok.active /\ tok.tier = DestTier(t) /\ tok.bucket = b /\ tok.remaining = n
  BY <1>2 DEF TokenOf, DestTier
<1>4. tok \in ReservationTokens /\ n <= ledger[DestTier(t)].reserved
  BY <1>1, <1>3, TokenCovered
<1>5. n \in Word /\ b \in Buckets
  BY <1>3, <1>4 DEF ReservationTokens
<1>6. \A u : Claim(tok, u) = Part(DestTier(t), u, n)
  BY <1>3 DEF Claim, Part
<1>7. ASSUME NEW m \in Word, m <= n PROVE RecordContractDebtOk(ledger, tok, m)
  <2>1. PICK u \in Tiers : u = DestTier(t)
    BY <1>1
  <2>2. PICK x1 \in Nat, x2 \in Nat, x3 \in Nat, x4 \in Nat, x5 \in Nat :
          /\ x1 = ledger[u].reserved /\ x2 = ledger[u].staging /\ x3 = ledger[u].workspace
          /\ x4 = ledger[u].committed /\ x5 = ledger[u].cleanup_debt
    BY <1>1, CountersNat DEF Typed, GoodLedger
  <2>3. x4 + x1 + x2 + x3 + x5 <= MaxWord /\ MaxWord \in Nat
    BY <1>1, <2>2, Covered DEF Total
  <2>4. PICK k \in Nat, j \in Nat : k = n /\ j = m
    BY <1>5, WordFacts
  <2>5. k <= x1 /\ j <= k
    BY <1>4, <1>7, <2>1, <2>2, <2>4
  <2>6. x5 + j <= MaxWord
    BY <2>3, <2>5
  <2>7. QED
    BY <1>3, <1>4, <2>1, <2>2, <2>4, <2>6 DEF RecordContractDebtOk, Fits
<1>8. QED
  BY <1>3, <1>4, <1>5, <1>6, <1>7

\* The token of an allocation becomes its charge.
LEMMA MaterializedBooks ==
  ASSUME TransactionInv, TransactionInv', BooksInv, NEW t \in Threads, pc[t] \in PreCommit, Steady(t),
         UNCHANGED <<store, chunk>>, NEW i \in 1 .. 3, NEW b, NEW n, HoldsToken(t, i, b, n),
         NEW m \in Word, m <= n, NEW tok, tok = loc[t].toks[i], MaterializeOk(ledger, tok, m),
         ledger' = DropToken(Materialize(ledger, tok, m), MaterializedToken(tok, m)),
         NEW p \in PreCommit, NEW l, Goto(t, p, l),
         l.dest = loc[t].dest, l.chunk = loc[t].chunk, Spends(loc[t], l, i), Supplied(p, l, store),
         Staged(p, l) = Staged(pc[t], loc[t]) + Part(b, "staging", m),
         Worked(p, l) = Worked(pc[t], loc[t]) + Part(b, "workspace", m)
  PROVE  BooksInv'
<1>1. /\ Typed /\ loc[t] \in Locals /\ loc[t].chunk \in Chunks /\ DestTier(t) \in Tiers
      /\ chunk[loc[t].chunk] \in ChunkRecords /\ chunk[loc[t].chunk].cleanup = <<>>
      /\ pc[t] \in Working /\ GoodLedger(ledger)
  BY PreFacts, WorkFacts
<1>2. p \in Working /\ p \notin PostCommit \cup Unwinding
  BY DEF Working, PreCommit, PostCommit, Unwinding, Filled
<1>3. pc'[t] = p /\ loc'[t] = l /\ Quiet(t)
  BY <1>1, GotoOthers, SameQuiet
<1>4. PICK c \in Chunks, ch \in ChunkRecords : c = loc[t].chunk /\ ch = chunk[c]
  BY <1>1
<1>5. chunk'[c] = ch /\ (\A d \in Chunks \ {c} : chunk'[d] = chunk[d]) /\ l.chunk = c
      /\ ChunkOf(p, l, ch, t) /\ Supplied(p, l, store')
  BY <1>1, <1>2, <1>4 DEF ChunkOf
<1>6. /\ tok \in ReservationTokens /\ tok.active /\ tok.tier = DestTier(t) /\ tok.bucket = b
      /\ tok.remaining = n /\ n \in Word /\ b \in Buckets /\ n <= ledger[DestTier(t)].reserved
      /\ \A u : Claim(tok, u) = Part(DestTier(t), u, n)
  BY <1>1, HeldToken
<1>7. PICK k \in Nat, j \in Nat : k = n /\ j = m
  BY <1>6, WordFacts
<1>8. PICK r \in Int, s \in Int, w \in Int, z \in Int :
        /\ r = -k /\ s = Part(b, "staging", m) /\ w = Part(b, "workspace", m) /\ z = 0
        /\ s + w = j
  BY <1>6, <1>7 DEF Part, Buckets
<1>9. r + s + w + z <= 0
  BY <1>7, <1>8
<1>10. ASSUME NEW u \in Tiers
       PROVE  /\ Reserved(l, u) = Reserved(loc[t], u) + Part(DestTier(t), u, r)
              /\ Owed(ch, u) = Owed(chunk[c], u) + Part(DestTier(t), u, z)
              /\ Booked(ledger[u], ledger'[u], Part(DestTier(t), u, r), Part(DestTier(t), u, s),
                        Part(DestTier(t), u, w), 0, Part(DestTier(t), u, z))
  <2>1. Part(DestTier(t), u, z) = 0
    BY <1>8 DEF Part
  <2>2. PICK q \in Nat, e \in Nat : q = Reserved(loc[t], u) /\ e = Owed(ch, u)
    BY <1>1, <1>4, LocalShares, ChunkShares
  <2>3. Reserved(l, u) = q - Part(DestTier(t), u, n)
    BY <1>1, <1>6, <2>2, SpentToken
  <2>4. q - Part(DestTier(t), u, n) = q + Part(DestTier(t), u, r)
    BY <1>7, <1>8 DEF Part
  <2>5. Booked(ledger[u], ledger'[u], Part(DestTier(t), u, -n), Part(DestTier(t), u, s),
               Part(DestTier(t), u, w), 0, 0)
    BY <1>1, <1>6, <1>8, MaterializeBooked
  <2>6. Part(DestTier(t), u, -n) = Part(DestTier(t), u, r)
    BY <1>7, <1>8
  <2>7. QED
    BY <1>4, <2>1, <2>2, <2>3, <2>4, <2>5, <2>6
<1>11. /\ Staged(p, l) = Staged(pc[t], loc[t]) + s /\ Worked(p, l) = Worked(pc[t], loc[t]) + w
  BY <1>8
<1>12. Stays(t, c, p, l, ch, r, s, w, z)
  BY <1>1, <1>2, <1>3, <1>4, <1>5, <1>8, <1>9, <1>10, <1>11 DEF Stays
<1>13. QED
  BY <1>12, StaysBooks

\* The token of an allocation that could not be materialized becomes contract debt.
LEMMA ContractBooks ==
  ASSUME TransactionInv, TransactionInv', BooksInv, NEW t \in Threads, pc[t] \in PreCommit, Steady(t),
         UNCHANGED store, NEW i \in 1 .. 3, NEW b, NEW n, HoldsToken(t, i, b, n),
         NEW m \in Word, m <= n, NEW tok, tok = loc[t].toks[i],
         ledger' = RecordContractDebt(ledger, tok, m), NEW a, a.charge = m,
         NEW ch, ch = RememberCleanup(chunk[loc[t].chunk], t, Debt(t, a)),
         chunk' = [chunk EXCEPT ![loc[t].chunk] = ch],
         NEW l, Goto(t, "rollback", l),
         l.dest = loc[t].dest, l.chunk = loc[t].chunk, Spends(loc[t], l, i),
         Len(l.todo) \in {0, 1, 2},
         ToUndo(l, "staging") = Staged(pc[t], loc[t]), ToUndo(l, "workspace") = Worked(pc[t], loc[t])
  PROVE  BooksInv'
<1>1. /\ Typed /\ loc[t] \in Locals /\ loc[t].chunk \in Chunks /\ DestTier(t) \in Tiers
      /\ chunk[loc[t].chunk] \in ChunkRecords /\ chunk[loc[t].chunk].cleanup = <<>>
      /\ chunk[loc[t].chunk].txn = t /\ chunk \in [Chunks -> ChunkRecords]
      /\ pc[t] \in Working /\ GoodLedger(ledger) /\ ledger \in Ledgers
  BY PreFacts, WorkFacts DEF GoodLedger
<1>2. "rollback" \in Unwinding
  BY DEF Unwinding
<1>3. /\ "rollback" \in Working /\ Supplied("rollback", l, store')
      /\ Staged("rollback", l) = ToUndo(l, "staging")
      /\ Worked("rollback", l) = ToUndo(l, "workspace")
  BY <1>2, UndoSupplied
<1>4. pc'[t] = "rollback" /\ loc'[t] = l /\ Quiet(t)
  BY <1>1, GotoOthers, SameQuiet
<1>5. PICK c \in Chunks, d \in ChunkRecords : c = loc[t].chunk /\ d = chunk[c]
  BY <1>1
<1>6. chunk'[c] = ch /\ (\A e \in Chunks \ {c} : chunk'[e] = chunk[e]) /\ l.chunk = c
  BY <1>1, <1>5
<1>7. /\ tok \in ReservationTokens /\ tok.tier = DestTier(t) /\ tok.remaining = n /\ n \in Word
      /\ \A u : Claim(tok, u) = Part(DestTier(t), u, n)
  BY <1>1, HeldToken
<1>8. PICK k \in Nat, j \in Nat : k = n /\ j = m
  BY <1>7, WordFacts
<1>9. Len(d.cleanup) = 0 /\ ch = RememberCleanup(d, t, Debt(t, a)) /\ d.txn = t /\ a.charge = j
  BY <1>1, <1>5, <1>8
<1>10. HasRoom(d) /\ ChunkOf("rollback", l, ch, t)
  BY <1>9, FirstDebt
<1>11. PICK r \in Int, z \in Int : r = -k /\ z = 0 /\ r + z + z + j <= 0
  BY <1>8
<1>12. ASSUME NEW u \in Tiers
       PROVE  /\ Reserved(l, u) = Reserved(loc[t], u) + Part(DestTier(t), u, r)
              /\ Owed(ch, u) = Owed(chunk[c], u) + Part(DestTier(t), u, j)
              /\ Booked(ledger[u], ledger'[u], Part(DestTier(t), u, r), Part(DestTier(t), u, z),
                        Part(DestTier(t), u, z), 0, Part(DestTier(t), u, j))
  <2>1. Part(DestTier(t), u, z) = 0
    BY <1>11 DEF Part
  <2>2. PICK q \in Nat : q = Reserved(loc[t], u)
    BY <1>1, LocalShares
  <2>3. Reserved(l, u) = q - Part(DestTier(t), u, n)
    BY <1>1, <1>7, <2>2, SpentToken
  <2>4. q - Part(DestTier(t), u, n) = q + Part(DestTier(t), u, r)
    BY <1>8, <1>11 DEF Part
  <2>5. Booked(ledger[u], ledger'[u], Part(DestTier(t), u, -n), 0, 0, 0, Part(DestTier(t), u, m))
    BY <1>1, <1>7, TokensBook
  <2>6. Part(DestTier(t), u, -n) = Part(DestTier(t), u, r)
    BY <1>8, <1>11
  <2>7. ch.cleanup = RememberCleanup(d, t, Debt(t, a)).cleanup
    BY <1>9
  <2>8. Owed(ch, u) = Owed(d, u) + Part(DestTier(t), u, j)
    BY <1>9, <1>10, <2>7, DebtOwed
  <2>9. QED
    BY <1>5, <1>8, <2>1, <2>2, <2>3, <2>4, <2>5, <2>6, <2>8
<1>13. PICK x \in Nat, y \in Nat : x = Staged(pc[t], loc[t]) /\ y = Worked(pc[t], loc[t])
  BY <1>1, LocalShares
<1>14. /\ Staged("rollback", l) = Staged(pc[t], loc[t]) + z
       /\ Worked("rollback", l) = Worked(pc[t], loc[t]) + z
  BY <1>3, <1>11, <1>13
<1>15. Stays(t, c, "rollback", l, ch, r, z, z, j)
  BY <1>1, <1>3, <1>4, <1>5, <1>6, <1>10, <1>11, <1>12, <1>14 DEF Stays
<1>16. QED
  BY <1>15, StaysBooks

\* Locals l are on the same way as k: only tokens and bookkeeping differ.
SameWay(l, k) ==
  /\ l.dest = k.dest /\ l.chunk = k.chunk /\ l.src = k.src
  /\ l.dst = k.dst /\ l.ws = k.ws /\ l.comp = k.comp

\* The way on, and the list to roll back, of an allocation that is to become a charge.
Ready(t, i, b, m, p) ==
  \A l : Spends(loc[t], l, i) /\ SameWay(l, loc[t]) /\ m # 0 =>
    /\ Supplied(p, l, store)
    /\ Staged(p, l) = Staged(pc[t], loc[t]) + Part(b, "staging", m)
    /\ Worked(p, l) = Worked(pc[t], loc[t]) + Part(b, "workspace", m)

Undoes(t, items) ==
  \A l : l.todo = items =>
    /\ ToUndo(l, "staging") = Staged(pc[t], loc[t])
    /\ ToUndo(l, "workspace") = Worked(pc[t], loc[t])
    /\ Len(l.todo) \in {0, 1, 2}

LEMMA MaterializeBooks ==
  ASSUME TransactionInv, TransactionInv', BooksInv, NEW t \in Threads, pc[t] \in PreCommit, Steady(t),
         UNCHANGED store, NEW i \in 1 .. 3, NEW b, NEW n, HoldsToken(t, i, b, n),
         NEW a, a.charge \in Word, a.charge <= n, NEW onOk \in PreCommit, NEW onFail,
         MaterializeToken(t, i, a, onOk, onFail),
         Ready(t, i, b, a.charge, onOk), Undoes(t, onFail)
  PROVE  BooksInv'
<1>1. /\ Typed /\ loc[t] \in Locals /\ loc[t].chunk \in Chunks /\ GoodLedger(ledger)
      /\ chunk[loc[t].chunk].cleanup = <<>> /\ pc[t] \in Working
  BY PreFacts, WorkFacts
<1>2. PICK m, tok : m \in Word /\ m = a.charge /\ tok = loc[t].toks[i] /\ m <= n
  OBVIOUS
<1>3. /\ tok \in ReservationTokens /\ tok.active /\ tok.tier = DestTier(t) /\ tok.remaining = n
      /\ n <= ledger[DestTier(t)].reserved /\ RecordContractDebtOk(ledger, tok, m)
  BY <1>1, <1>2, HeldToken
<1>4. PICK k : k = [loc[t] EXCEPT !.toks[i] = InactiveToken]
  OBVIOUS
<1>5. SameWay(k, loc[t]) /\ Spends(loc[t], k, i)
  BY <1>1, <1>4 DEF SameWay, Spends, Locals
<1>6. PICK led2, rest : led2 = Materialize(ledger, tok, m) /\ rest = MaterializedToken(tok, m)
  OBVIOUS
<1>7. CASE /\ MaterializeOk(ledger, tok, m) /\ ledger' = DropToken(led2, rest)
           /\ IF i = 3 /\ Refuses(led2, rest) THEN Terminate(t) ELSE Goto(t, onOk, k)
           /\ UNCHANGED chunk
  <2>1. ~Refuses(led2, rest)
    <3>1. tok.remaining <= ledger[tok.tier].reserved /\ m \in Word
      BY <1>2, <1>3
    <3>2. QED
      BY <1>1, <1>3, <1>6, <1>7, <3>1, MaterializeBooked
  <2>2. Goto(t, onOk, k)
    BY <1>7, <2>1
  <2>3. /\ Supplied(onOk, k, store)
        /\ Staged(onOk, k) = Staged(pc[t], loc[t]) + Part(b, "staging", m)
        /\ Worked(onOk, k) = Worked(pc[t], loc[t]) + Part(b, "workspace", m)
    <3>1. m # 0
      BY <1>2, <1>3, <1>7, WordFacts DEF MaterializeOk, ReservationTokens
    <3>2. QED
      BY <1>2, <1>5, <3>1 DEF Ready
  <2>4. k.dest = loc[t].dest /\ k.chunk = loc[t].chunk
    BY <1>5 DEF SameWay
  <2>5. ledger' = DropToken(Materialize(ledger, tok, m), MaterializedToken(tok, m))
    BY <1>6, <1>7
  <2>6. QED
    BY <1>2, <1>5, <1>7, <2>2, <2>3, <2>4, <2>5, MaterializedBooks
<1>8. CASE \E l : /\ l = [k EXCEPT !.todo = onFail, !.ending = "poison"]
                  /\ ledger' = RecordContractDebt(ledger, tok, m)
                  /\ chunk' = [chunk EXCEPT ![loc[t].chunk] =
                       RememberCleanup(@, t, [id |-> a.id, tier |-> DestTier(t), charge |-> m])]
                  /\ Goto(t, "rollback", l)
  <2>1. PICK l : /\ l = [k EXCEPT !.todo = onFail, !.ending = "poison"]
                 /\ ledger' = RecordContractDebt(ledger, tok, m)
                 /\ chunk' = [chunk EXCEPT ![loc[t].chunk] =
                      RememberCleanup(@, t, [id |-> a.id, tier |-> DestTier(t), charge |-> m])]
                 /\ Goto(t, "rollback", l)
    BY <1>8
  <2>2. PICK ch : ch = RememberCleanup(chunk[loc[t].chunk], t, Debt(t, a))
    OBVIOUS
  <2>3. chunk' = [chunk EXCEPT ![loc[t].chunk] = ch]
    BY <1>2, <2>1, <2>2 DEF Debt
  <2>4. l = [loc[t] EXCEPT !.toks = [loc[t].toks EXCEPT ![i] = InactiveToken], !.todo = onFail,
                           !.ending = "poison"]
    BY <1>1, <1>4, <2>1 DEF Locals
  <2>5. l.todo = onFail /\ l.dest = loc[t].dest /\ l.chunk = loc[t].chunk /\ Spends(loc[t], l, i)
    BY <1>1, <2>4 DEF Locals, Spends
  <2>6. /\ ToUndo(l, "staging") = Staged(pc[t], loc[t])
        /\ ToUndo(l, "workspace") = Worked(pc[t], loc[t])
        /\ Len(l.todo) \in {0, 1, 2}
    BY <2>5 DEF Undoes
  <2>7. Goto(t, "rollback", l) /\ ledger' = RecordContractDebt(ledger, tok, m) /\ a.charge = m
    BY <1>2, <2>1
  <2>8. QED
    BY <1>2, <2>2, <2>3, <2>5, <2>6, <2>7, ContractBooks
<1>9. Len(chunk[loc[t].chunk].cleanup) < CleanupSlots
  BY <1>1 DEF CleanupSlots
<1>10. QED
  BY <1>2, <1>3, <1>4, <1>6, <1>7, <1>8, <1>9 DEF MaterializeToken

LEMMA MaterializeDestinationBooks ==
  ASSUME TransactionInv, BooksInv, NEW t \in Threads, MaterializeDestination(t)
  PROVE  BooksInv'
<1>1. TransactionInv' /\ Steady(t)
  BY MaterializeDestinationStep
<1>2. PICK onOk, onFail : /\ onOk = IF NeedsWorkspace(t) THEN "alloc_ws" ELSE "verify_src"
                          /\ onFail = <<>>
  OBVIOUS
<1>3. /\ pc[t] = "mat_dst" /\ UNCHANGED store /\ MaterializeToken(t, 1, loc[t].dst, onOk, onFail)
  BY <1>2 DEF MaterializeDestination
<1>4. /\ pc[t] \in PreCommit /\ onOk \in PreCommit /\ pc[t] \in Filled /\ pc[t] \notin Unwinding
      /\ onOk \in Filled \ {"mat_dst"} /\ onOk \notin Unwinding /\ "mat_dst" \in First
      /\ "alloc_ws" \in Second /\ "verify_src" \in Third
      /\ {"alloc_ws", "verify_src"} \cap (First \cup Tokenless) = {}
      /\ "alloc_ws" \notin Third /\ "verify_src" \notin Second
  BY <1>2, <1>3 DEF PreCommit, Filled, Unwinding, First, Second, Third, Tokenless, Moving,
         Unreserved, Leasing, Holding, Verified, PostCommit
<1>5. /\ Typed /\ loc[t] \in Locals /\ TokensAt("mat_dst", loc[t]) /\ AllocationsAt("mat_dst", loc[t])
      /\ loc[t].dst.charge \in Word
  BY <1>3, <1>4, PreFacts
<1>6. /\ loc[t].toks[1] = FirstToken(loc[t]) /\ loc[t].toks[2] = SecondToken(loc[t])
      /\ loc[t].toks[3] = ThirdToken(loc[t])
      /\ loc[t].ws = NoAlloc /\ loc[t].comp = NoAlloc
      /\ loc[t].dst.charge <= AllocationBound[loc[t].dest]
  BY <1>4, <1>5 DEF TokensAt, AllocationsAt
<1>7. PICK a, b, n, m : /\ m \in Nat /\ a = loc[t].dst /\ b = "staging" /\ n = AllocationBound[loc[t].dest]
                        /\ m = a.charge
  BY <1>5, WordFacts
<1>8. HoldsToken(t, 1, b, n)
  BY <1>6, <1>7 DEF HoldsToken, FirstToken
<1>9. Staged(pc[t], loc[t]) = 0 /\ Worked(pc[t], loc[t]) = 0
  BY <1>3, <1>4, <1>6 DEF Staged, Worked, NoAlloc
<1>10. Part(b, "staging", a.charge) = m /\ Part(b, "workspace", a.charge) = 0
  BY <1>7 DEF Part
<1>11. Ready(t, 1, b, a.charge, onOk)
  <2> SUFFICES ASSUME NEW l, Spends(loc[t], l, 1), SameWay(l, loc[t])
               PROVE  Supplied(onOk, l, store) /\ Staged(onOk, l) = 0 + m /\ Worked(onOk, l) = 0 + 0
    BY <1>9, <1>10 DEF Ready
  <2>1. /\ l.dest = loc[t].dest /\ l.src = loc[t].src
        /\ l.dst = loc[t].dst /\ l.ws = NoAlloc /\ l.comp = NoAlloc
    BY <1>6 DEF SameWay
  <2>2. l.toks[1] = InactiveToken /\ l.toks[2] = loc[t].toks[2] /\ l.toks[3] = loc[t].toks[3]
    BY <1>5 DEF Spends, Locals
  <2>3. l.toks[2] = SecondToken(l) /\ l.toks[3] = ThirdToken(l)
    BY <1>6, <2>1, <2>2 DEF SecondToken, ThirdToken, TokenOf, Transforms, Compacted
  <2>4. onOk = IF Transforms(l) THEN "alloc_ws" ELSE "verify_src"
    BY <1>2, <2>1 DEF NeedsWorkspace, Transforms
  <2>5. TokensAt(onOk, l)
    BY <1>4, <2>2, <2>3, <2>4 DEF TokensAt, SecondToken
  <2>6. AllocationsAt(onOk, l)
    BY <2>1, <2>4 DEF AllocationsAt, Second
  <2>7. Supplied(onOk, l, store)
    BY <2>4, <2>5, <2>6 DEF Supplied, Receipt
  <2>8. Staged(onOk, l) = m /\ Worked(onOk, l) = 0
    BY <1>4, <1>7, <2>1 DEF Staged, Worked, NoAlloc
  <2>9. 0 + m = m /\ 0 + 0 = 0
    BY <1>7
  <2>10. QED
    BY <2>7, <2>8, <2>9
<1>12. Undoes(t, onFail)
  BY <1>2, <1>5, <1>9, RollbackLists DEF Undoes
<1>13. 1 \in 1 .. 3 /\ a.charge \in Word /\ a.charge <= n /\ MaterializeToken(t, 1, a, onOk, onFail)
  BY <1>3, <1>5, <1>6, <1>7
<1>14. QED
  BY <1>1, <1>3, <1>4, <1>8, <1>11, <1>12, <1>13, MaterializeBooks

LEMMA MaterializeWorkspaceBooks ==
  ASSUME TransactionInv, BooksInv, NEW t \in Threads, MaterializeWorkspace(t)
  PROVE  BooksInv'
<1>1. TransactionInv' /\ Steady(t)
  BY MaterializeWorkspaceStep
<1>2. PICK onOk, poison, onFail : /\ onOk = "verify_src" /\ poison = TRUE
                                  /\ onFail = <<Item(loc[t].dst, "staging", poison)>>
  OBVIOUS
<1>3. /\ pc[t] = "mat_ws" /\ UNCHANGED store /\ MaterializeToken(t, 2, loc[t].ws, onOk, onFail)
  BY <1>2 DEF MaterializeWorkspace
<1>4. /\ pc[t] \in PreCommit /\ onOk \in PreCommit /\ pc[t] \in Filled /\ pc[t] \notin Unwinding
      /\ onOk \in Filled /\ onOk \notin Unwinding /\ "mat_ws" \in Second
      /\ "verify_src" \in Third /\ "verify_src" \notin First \cup Second \cup Tokenless
  BY <1>2, <1>3 DEF PreCommit, Filled, Unwinding, First, Second, Third, Tokenless, Moving,
         Unreserved, Leasing, Holding, Verified, PostCommit
<1>5. /\ Typed /\ loc[t] \in Locals /\ TokensAt("mat_ws", loc[t]) /\ AllocationsAt("mat_ws", loc[t])
      /\ loc[t].dst.charge \in Word /\ loc[t].ws.charge \in Word
  BY <1>3, <1>4, PreFacts
<1>6. /\ loc[t].toks[1] = InactiveToken /\ loc[t].toks[2] = SecondToken(loc[t])
      /\ loc[t].toks[3] = ThirdToken(loc[t])
      /\ Transforms(loc[t]) /\ loc[t].comp = NoAlloc /\ loc[t].ws.charge = WorkspaceBound
  BY <1>4, <1>5 DEF TokensAt, AllocationsAt
<1>7. PICK a, b, n, m, x :
        /\ m \in Nat /\ x \in Nat /\ a = loc[t].ws /\ b = "workspace" /\ n = WorkspaceBound /\ m = a.charge
        /\ x = loc[t].dst.charge
  BY <1>5, WordFacts
<1>8. HoldsToken(t, 2, b, n)
  BY <1>6, <1>7 DEF HoldsToken, SecondToken
<1>9. Staged(pc[t], loc[t]) = x /\ Worked(pc[t], loc[t]) = 0
  BY <1>3, <1>4, <1>6, <1>7 DEF Staged, Worked, NoAlloc
<1>10. Part(b, "staging", a.charge) = 0 /\ Part(b, "workspace", a.charge) = m
  BY <1>7 DEF Part
<1>11. Ready(t, 2, b, a.charge, onOk)
  <2> SUFFICES ASSUME NEW l, Spends(loc[t], l, 2), SameWay(l, loc[t])
               PROVE  Supplied(onOk, l, store) /\ Staged(onOk, l) = x + 0 /\ Worked(onOk, l) = 0 + m
    BY <1>9, <1>10 DEF Ready
  <2>1. /\ l.dest = loc[t].dest /\ l.src = loc[t].src
        /\ l.dst = loc[t].dst /\ l.ws = loc[t].ws /\ l.comp = NoAlloc
    BY <1>6 DEF SameWay
  <2>2. l.toks[1] = loc[t].toks[1] /\ l.toks[2] = InactiveToken /\ l.toks[3] = loc[t].toks[3]
    BY <1>5 DEF Spends, Locals
  <2>3. l.toks[1] = InactiveToken /\ l.toks[3] = ThirdToken(l)
    BY <1>6, <2>1, <2>2 DEF ThirdToken, TokenOf, Compacted
  <2>4. TokensAt(onOk, l)
    BY <1>2, <1>4, <2>2, <2>3 DEF TokensAt
  <2>5. AllocationsAt(onOk, l)
    BY <1>2, <2>1 DEF AllocationsAt, First, Second, Unreserved
  <2>6. Supplied(onOk, l, store)
    BY <1>2, <2>4, <2>5 DEF Supplied, Receipt
  <2>7. Staged(onOk, l) = x /\ Worked(onOk, l) = m
    BY <1>2, <1>4, <1>7, <2>1 DEF Staged, Worked, NoAlloc
  <2>8. x + 0 = x /\ 0 + m = m
    BY <1>7
  <2>9. QED
    BY <2>6, <2>7, <2>8
<1>12. Undoes(t, onFail)
  <2>1. ASSUME NEW l, l.todo = onFail
        PROVE  /\ ToUndo(l, "staging") = loc[t].dst.charge /\ ToUndo(l, "workspace") = 0
               /\ Len(l.todo) = 1
    BY <1>2, <1>5, <2>1, RollbackLists
  <2>2. QED
    BY <1>7, <1>9, <2>1 DEF Undoes
<1>13. 2 \in 1 .. 3 /\ a.charge \in Word /\ a.charge <= n /\ MaterializeToken(t, 2, a, onOk, onFail)
  BY <1>3, <1>5, <1>6, <1>7
<1>14. QED
  BY <1>1, <1>3, <1>4, <1>8, <1>11, <1>12, <1>13, MaterializeBooks

LEMMA MaterializeCompactionBooks ==
  ASSUME TransactionInv, BooksInv, NEW t \in Threads, MaterializeCompaction(t)
  PROVE  BooksInv'
<1>1. TransactionInv' /\ Steady(t)
  BY MaterializeCompactionStep
<1>2. PICK onOk, poison, keep, u, v, onFail :
        /\ onOk = "transfer" /\ poison = TRUE /\ keep = FALSE
        /\ u = Item(loc[t].ws, "workspace", keep) /\ v = Item(loc[t].dst, "staging", poison)
        /\ onFail = <<u, v>>
  OBVIOUS
<1>3. /\ pc[t] = "mat_comp" /\ UNCHANGED store /\ MaterializeToken(t, 3, loc[t].comp, onOk, onFail)
  BY <1>2 DEF MaterializeCompaction
<1>4. /\ pc[t] \in PreCommit /\ onOk \in PreCommit /\ pc[t] \in Filled /\ pc[t] \notin Unwinding
      /\ onOk \in Filled /\ onOk \notin Unwinding /\ "mat_comp" \in Third
      /\ "transfer" \in Moving /\ "transfer" \notin First \cup Second \cup Third
  BY <1>2, <1>3 DEF PreCommit, Filled, Unwinding, First, Second, Third, Moving
<1>5. /\ Typed /\ loc[t] \in Locals /\ TokensAt("mat_comp", loc[t])
      /\ AllocationsAt("mat_comp", loc[t]) /\ loc[t].dst.charge \in Word
      /\ loc[t].ws.charge \in Word /\ loc[t].comp.charge \in Word
  BY <1>3, <1>4, PreFacts
<1>6. /\ loc[t].toks[1] = InactiveToken /\ loc[t].toks[2] = InactiveToken
      /\ loc[t].toks[3] = ThirdToken(loc[t]) /\ Compacted(loc[t])
      /\ loc[t].comp.charge <= CompactionBound[loc[t].dest]
      /\ loc[t].comp.charge <= loc[t].dst.charge
  BY <1>4, <1>5 DEF TokensAt, AllocationsAt
<1>7. PICK a, b, n, m, x, y :
        /\ m \in Nat /\ x \in Nat /\ y \in Nat /\ a = loc[t].comp /\ b = "workspace" /\ n = CompactionBound[loc[t].dest] /\ m = a.charge
        /\ x = loc[t].dst.charge /\ y = loc[t].ws.charge
  BY <1>5, WordFacts
<1>8. HoldsToken(t, 3, b, n)
  BY <1>6, <1>7 DEF HoldsToken, ThirdToken
<1>9. Staged(pc[t], loc[t]) = x /\ Worked(pc[t], loc[t]) = y
  BY <1>3, <1>4, <1>7 DEF Staged, Worked
<1>10. Part(b, "staging", a.charge) = 0 /\ Part(b, "workspace", a.charge) = m
  BY <1>7 DEF Part
<1>11. Ready(t, 3, b, a.charge, onOk)
  <2> SUFFICES ASSUME NEW l, Spends(loc[t], l, 3), SameWay(l, loc[t]), a.charge # 0
               PROVE  Supplied(onOk, l, store) /\ Staged(onOk, l) = x + 0 /\ Worked(onOk, l) = y + m
    BY <1>9, <1>10 DEF Ready
  <2>1. /\ l.dest = loc[t].dest /\ l.src = loc[t].src
        /\ l.dst = loc[t].dst /\ l.ws = loc[t].ws /\ l.comp = loc[t].comp
    BY DEF SameWay
  <2>2. \A j \in 1 .. 3 : l.toks[j] = InactiveToken
    BY <1>5, <1>6 DEF Spends, Locals
  <2>3. TokensAt(onOk, l)
    BY <1>2, <1>4, <2>2 DEF TokensAt
  <2>4. Compacted(l) /\ l.comp.charge # 0 /\ l.comp.charge <= l.dst.charge
    BY <1>6, <1>7, <2>1 DEF Compacted
  <2>5. AllocationsAt(onOk, l)
    BY <1>2, <2>4 DEF AllocationsAt, First, Second, Unreserved, Verified
  <2>6. Supplied(onOk, l, store)
    BY <1>2, <2>3, <2>5 DEF Supplied, Receipt
  <2>7. Staged(onOk, l) = x /\ Worked(onOk, l) = y + m
    BY <1>2, <1>4, <1>7, <2>1 DEF Staged, Worked
  <2>8. QED
    BY <1>7, <2>6, <2>7
<1>12. Undoes(t, onFail)
  <2> SUFFICES ASSUME NEW l, l.todo = onFail
               PROVE  /\ ToUndo(l, "staging") = Staged(pc[t], loc[t])
                      /\ ToUndo(l, "workspace") = Worked(pc[t], loc[t])
                      /\ Len(l.todo) = 2
    BY DEF Undoes
  <2>1. PICK s : s = l.todo
    OBVIOUS
  <2>2. s = <<u, v>>
    BY <1>2, <2>1
  <2>3. Len(s) = 2 /\ s[1] = u /\ s[2] = v
    BY <2>2, PlainLists
  <2>4. ToUndo(l, "staging") = loc[t].dst.charge /\ ToUndo(l, "workspace") = loc[t].ws.charge
    BY <1>2, <1>5, <2>1, <2>3, BothItems
  <2>5. QED
    BY <1>7, <1>9, <2>1, <2>3, <2>4
<1>13. 3 \in 1 .. 3 /\ a.charge \in Word /\ a.charge <= n /\ MaterializeToken(t, 3, a, onOk, onFail)
  BY <1>3, <1>5, <1>6, <1>7
<1>14. QED
  BY <1>1, <1>3, <1>4, <1>8, <1>11, <1>12, <1>13, MaterializeBooks

(***************************************************************************)
(* Giving up, with a token or without                                      *)
(***************************************************************************)
\* A thread that has no compaction target gives up with the list of what it has.
LEMMA GiveUpBooks ==
  ASSUME TransactionInv, TransactionInv', BooksInv, NEW t \in Threads, pc[t] \in PreCommit, Steady(t),
         UNCHANGED <<ledger, store, chunk>>,
         Staged(pc[t], loc[t]) = loc[t].dst.charge, Worked(pc[t], loc[t]) = loc[t].ws.charge,
         NEW poison, NEW ending,
         RollBack(t, WorkspaceItem(t) \o <<Item(loc[t].dst, "staging", poison)>>, ending)
  PROVE  BooksInv'
<1>1. Typed /\ loc[t] \in Locals
  BY PreFacts
<1>2. PICK items : items = WorkspaceItem(t) \o <<Item(loc[t].dst, "staging", poison)>>
  OBVIOUS
<1>3. PICK l : l = [loc[t] EXCEPT !.todo = items, !.ending = ending]
  OBVIOUS
<1>4. Goto(t, "rollback", l)
  BY <1>2, <1>3 DEF RollBack
<1>5. pc'[t] = "rollback" /\ loc'[t] = l
  BY <1>1, <1>4, GotoOthers
<1>6. /\ l.dest = loc[t].dest /\ l.chunk = loc[t].chunk /\ l.toks = loc[t].toks
      /\ l.todo = items
  BY <1>1, <1>3 DEF Locals
<1>7. /\ ToUndo(l, "staging") = loc[t].dst.charge /\ ToUndo(l, "workspace") = loc[t].ws.charge
      /\ Len(l.todo) \in 0 .. 3
  BY <1>1, <1>2, <1>6, WorkList
<1>8. PICK k \in 0 .. 3 : k = Len(l.todo)
  BY <1>7
<1>9. Quiet(t)
  BY <1>1, SameQuiet
<1>10. k <= 3 /\ k \in Nat
  OBVIOUS
<1>11. QED
  BY <1>5, <1>6, <1>7, <1>8, <1>9, <1>10, RollBackBooks

\* A token that is dropped is given back in full, and the ledger takes it.
LEMMA AbandonBooks ==
  ASSUME TransactionInv, TransactionInv', BooksInv, NEW t \in Threads, pc[t] \in PreCommit, Steady(t),
         UNCHANGED <<store, chunk>>, NEW i \in 1 .. 3, NEW tok, tok = loc[t].toks[i],
         NEW n \in Nat, \A u \in Tiers : Claim(tok, u) = Part(DestTier(t), u, n),
         ledger' = DropToken(ledger, tok),
         NEW l, Goto(t, "rollback", l),
         l.dest = loc[t].dest, l.chunk = loc[t].chunk, Spends(loc[t], l, i),
         Len(l.todo) \in 0 .. 3,
         ToUndo(l, "staging") = Staged(pc[t], loc[t]), ToUndo(l, "workspace") = Worked(pc[t], loc[t])
  PROVE  BooksInv'
<1>1. /\ Typed /\ loc[t] \in Locals /\ loc[t].chunk \in Chunks /\ DestTier(t) \in Tiers
      /\ chunk[loc[t].chunk] \in ChunkRecords /\ chunk[loc[t].chunk].cleanup = <<>>
      /\ chunk[loc[t].chunk].txn = t /\ pc[t] \in Working /\ GoodLedger(ledger)
  BY PreFacts, WorkFacts
<1>2. /\ "rollback" \in Unwinding /\ Supplied("rollback", l, store') /\ "rollback" \in Working
      /\ "rollback" \notin PreCommit \cup PostCommit
      /\ Staged("rollback", l) = ToUndo(l, "staging") /\ Worked("rollback", l) = ToUndo(l, "workspace")
  BY UndoSupplied DEF Unwinding
<1>3. pc'[t] = "rollback" /\ loc'[t] = l /\ Quiet(t)
  BY <1>1, GotoOthers, SameQuiet
<1>4. PICK c \in Chunks, ch \in ChunkRecords : c = loc[t].chunk /\ ch = chunk[c]
  BY <1>1
<1>5. Len(ch.cleanup) + Len(l.todo) <= 3
  <2>1. PICK k \in 0 .. 3 : k = Len(l.todo)
    OBVIOUS
  <2>2. PICK j : j = Len(ch.cleanup) /\ j = 0
    BY <1>1, <1>4
  <2>3. j + k <= 3
    BY <2>2
  <2>4. QED
    BY <2>1, <2>2, <2>3
<1>6. chunk'[c] = ch /\ (\A d \in Chunks \ {c} : chunk'[d] = chunk[d]) /\ l.chunk = c
      /\ ChunkOf("rollback", l, ch, t)
  BY <1>1, <1>2, <1>4, <1>5 DEF ChunkOf
<1>7. tok \in ReservationTokens /\ (tok.active => tok.remaining <= ledger[tok.tier].reserved)
  BY <1>1, TokenCovered DEF BooksInv
<1>8. PICK r \in Int, z \in Int : r = -n /\ z = 0 /\ r + z + z + z <= 0
  OBVIOUS
<1>9. ASSUME NEW u \in Tiers
      PROVE  /\ Reserved(l, u) = Reserved(loc[t], u) + Part(DestTier(t), u, r)
             /\ Owed(ch, u) = Owed(chunk[c], u) + Part(DestTier(t), u, z)
             /\ Booked(ledger[u], ledger'[u], Part(DestTier(t), u, r), Part(DestTier(t), u, z),
                       Part(DestTier(t), u, z), 0, Part(DestTier(t), u, z))
  <2>1. Part(DestTier(t), u, z) = 0
    BY <1>8 DEF Part
  <2>2. PICK q \in Nat, e \in Nat : q = Reserved(loc[t], u) /\ e = Owed(ch, u)
    BY <1>1, <1>4, LocalShares, ChunkShares
  <2>3. PICK k \in Nat : k = Claim(tok, u) /\ k = Part(DestTier(t), u, n)
    BY DEF Part
  <2>4. Reserved(l, u) = q - k
    BY <1>1, <2>2, <2>3, SpentToken
  <2>5. 0 - k = Part(DestTier(t), u, r) /\ q - k = q + Part(DestTier(t), u, r)
    BY <1>8, <2>3 DEF Part
  <2>6. ledger \in Ledgers
    BY <1>1 DEF GoodLedger
  <2>7. Booked(ledger[u], ledger'[u], 0 - k, 0, 0, 0, 0)
    BY <1>7, <2>3, <2>6, DropBooks
  <2>8. QED
    BY <1>4, <2>1, <2>2, <2>4, <2>5, <2>7
<1>10. /\ Staged("rollback", l) = Staged(pc[t], loc[t]) + z
       /\ Worked("rollback", l) = Worked(pc[t], loc[t]) + z
  <2>1. Staged(pc[t], loc[t]) \in Nat /\ Worked(pc[t], loc[t]) \in Nat
    BY <1>1, LocalShares
  <2>2. QED
    BY <1>2, <1>8, <2>1
<1>11. Stays(t, c, "rollback", l, ch, r, z, z, z)
  BY <1>1, <1>2, <1>3, <1>4, <1>6, <1>8, <1>9, <1>10 DEF Stays
<1>12. QED
  BY <1>11, StaysBooks

(***************************************************************************)
(* The workspace, the source's verification and the compaction target      *)
(***************************************************************************)
LEMMA AllocateWorkspaceBooks ==
  ASSUME TransactionInv, BooksInv, NEW t \in Threads, AllocateWorkspace(t)
  PROVE  BooksInv'
<1>1. TransactionInv' /\ Steady(t)
  BY AllocateWorkspaceStep
<1>2. /\ pc[t] = "alloc_ws" /\ pc[t] \in PreCommit /\ UNCHANGED chunk
      /\ "mat_ws" \in PreCommit /\ pc[t] \in Filled /\ pc[t] \notin Unwinding
      /\ "mat_ws" \in Filled /\ "mat_ws" \notin Unwinding /\ pc[t] \in Second /\ "mat_ws" \in Second
      /\ pc[t] \in Working
      /\ "mat_ws" \notin First \cup Third \cup Tokenless
  BY DEF AllocateWorkspace, PreCommit, Filled, Unwinding, First, Second, Third, Tokenless, Moving,
         Unreserved, Leasing, Holding, Verified, PostCommit, Working
<1>3. /\ Typed /\ loc[t] \in Locals /\ TokensAt("alloc_ws", loc[t])
      /\ AllocationsAt("alloc_ws", loc[t]) /\ loc[t].dst.charge \in Word /\ WorkspaceBound \in Word
  BY <1>2, PreFacts, TransactionAssumption DEF TransactionAssumption
<1>4. /\ loc[t].toks[1] = InactiveToken /\ loc[t].toks[2] = SecondToken(loc[t])
      /\ loc[t].toks[3] = ThirdToken(loc[t])
      /\ loc[t].ws = NoAlloc /\ loc[t].comp = NoAlloc /\ Transforms(loc[t])
  BY <1>2, <1>3 DEF TokensAt, AllocationsAt
<1>5. PICK x \in Nat, n \in Nat : x = loc[t].dst.charge /\ n = WorkspaceBound
  BY <1>3, WordFacts
<1>6. Staged(pc[t], loc[t]) = x /\ Worked(pc[t], loc[t]) = 0
  BY <1>2, <1>4, <1>5 DEF Staged, Worked, NoAlloc
<1>7. ASSUME NEW r, r \in NextId, UNCHANGED ledger,
             store' = [store EXCEPT ![r] = Allocated(DestTier(t), WorkspaceBound)],
             Goto(t, "mat_ws", [loc[t] EXCEPT !.ws = [id |-> r, charge |-> WorkspaceBound]])
      PROVE  BooksInv'
  <2>1. Quiet(t)
    BY <1>2, <1>3, <1>7, AllocateFacts DEF Framed
  <2>2. PICK l : l = [loc[t] EXCEPT !.ws = [id |-> r, charge |-> WorkspaceBound]]
    OBVIOUS
  <2>3. pc'[t] = "mat_ws" /\ loc'[t] = l
    BY <1>3, <1>7, <2>2, GotoOthers
  <2>4. /\ l.dest = loc[t].dest /\ l.chunk = loc[t].chunk /\ l.toks = loc[t].toks /\ l.src = loc[t].src
        /\ l.dst = loc[t].dst /\ l.comp = NoAlloc /\ l.ws.charge = WorkspaceBound
    BY <1>3, <1>4, <2>2 DEF Locals
  <2>5. TokensAt("mat_ws", l)
    BY <1>2, <1>4, <2>4 DEF TokensAt, SecondToken, ThirdToken, TokenOf, Transforms, Compacted
  <2>6. AllocationsAt("mat_ws", l)
    BY <1>2, <1>4, <2>4 DEF AllocationsAt, Transforms, Unreserved
  <2>7. Supplied("mat_ws", l, store')
    BY <2>5, <2>6 DEF Supplied, Receipt
  <2>8. /\ Staged("mat_ws", l) = x /\ Worked("mat_ws", l) = 0
    BY <1>2, <1>5, <2>4 DEF Staged, Worked, NoAlloc
  <2>9. QED
    BY <1>1, <1>2, <1>6, <1>7, <2>1, <2>3, <2>4, <2>7, <2>8, OnwardBooks
<1>8. ASSUME ledger' = DropToken(ledger, loc[t].toks[2]), UNCHANGED store,
             Goto(t, "rollback", [loc[t] EXCEPT !.toks[2] = InactiveToken,
                                                !.todo = <<Item(loc[t].dst, "staging", FALSE)>>])
      PROVE  BooksInv'
  <2>1. PICK todo, poison : poison = FALSE /\ todo = <<Item(loc[t].dst, "staging", poison)>>
    OBVIOUS
  <2>2. PICK l : l = [loc[t] EXCEPT !.toks[2] = InactiveToken, !.todo = todo]
    OBVIOUS
  <2>3. Goto(t, "rollback", l)
    BY <1>8, <2>1, <2>2
  <2>4. /\ l.dest = loc[t].dest /\ l.chunk = loc[t].chunk /\ l.todo = todo /\ Spends(loc[t], l, 2)
    BY <1>3, <2>2 DEF Locals, Spends
  <2>5. /\ ToUndo(l, "staging") = loc[t].dst.charge /\ ToUndo(l, "workspace") = 0
        /\ Len(l.todo) = 1
    BY <1>3, <2>1, <2>4, RollbackLists
  <2>6. PICK tok : tok = loc[t].toks[2] /\ ledger' = DropToken(ledger, tok)
    BY <1>8
  <2>7. tok = TokenOf(loc[t], "workspace", n)
    BY <1>4, <1>5, <2>6 DEF SecondToken
  <2>8. \A u \in Tiers : Claim(tok, u) = Part(DestTier(t), u, n)
    BY <2>7, TokenClaims DEF DestTier
  <2>9. Len(l.todo) \in 0 .. 3 /\ 2 \in 1 .. 3
    BY <2>5
  <2>10. QED
    BY <1>1, <1>2, <1>5, <1>6, <1>8, <2>3, <2>4, <2>5, <2>6, <2>8, <2>9, AbandonBooks
<1>9. QED
  BY <1>7, <1>8 DEF AllocateWorkspace

LEMMA VerifyAuthoritativeBooks ==
  ASSUME TransactionInv, BooksInv, NEW t \in Threads, VerifyAuthoritative(t)
  PROVE  BooksInv'
<1>1. TransactionInv' /\ Steady(t)
  BY VerifyAuthoritativeStep
<1>2. /\ pc[t] = "verify_src" /\ pc[t] \in PreCommit /\ UNCHANGED <<ledger, store, chunk>>
      /\ "prepare" \in PreCommit /\ pc[t] \in Filled /\ pc[t] \notin Unwinding
      /\ "prepare" \in Filled /\ "prepare" \notin Unwinding /\ pc[t] \in Third /\ "prepare" \in Third
      /\ "prepare" \notin First \cup Second \cup Tokenless
  BY DEF VerifyAuthoritative, PreCommit, Filled, Unwinding, First, Second, Third, Tokenless, Moving,
         Unreserved, Leasing, Holding, Verified, PostCommit
<1>3. /\ Typed /\ loc[t] \in Locals /\ TokensAt("verify_src", loc[t])
      /\ AllocationsAt("verify_src", loc[t])
      /\ loc[t].dst.charge \in Word /\ loc[t].ws.charge \in Word
  BY <1>2, PreFacts
<1>4. loc[t].comp = NoAlloc
  BY <1>3 DEF AllocationsAt
<1>5. PICK x \in Nat, y \in Nat : x = loc[t].dst.charge /\ y = loc[t].ws.charge
  BY <1>3, WordFacts
<1>6. Staged(pc[t], loc[t]) = x /\ Worked(pc[t], loc[t]) = y
  BY <1>2, <1>4, <1>5 DEF Staged, Worked, NoAlloc
<1>7. ASSUME Goto(t, "prepare", loc[t]) PROVE BooksInv'
  <2>1. PICK l : l = loc[t]
    OBVIOUS
  <2>2. pc'[t] = "prepare" /\ loc'[t] = l
    BY <1>3, <1>7, <2>1, GotoOthers
  <2>3. TokensAt("prepare", l)
    BY <1>2, <1>3, <2>1 DEF TokensAt
  <2>4. AllocationsAt("prepare", l)
    BY <1>2, <1>4, <2>1 DEF AllocationsAt, Unreserved
  <2>5. Supplied("prepare", l, store')
    BY <2>3, <2>4 DEF Supplied, Receipt
  <2>6. Staged("prepare", l) = x /\ Worked("prepare", l) = y
    BY <1>2, <1>4, <1>5, <2>1 DEF Staged, Worked, NoAlloc
  <2>7. Quiet(t)
    BY <1>2, <1>3, SameQuiet
  <2>8. QED
    BY <1>1, <1>2, <1>6, <2>1, <2>2, <2>5, <2>6, <2>7, OnwardBooks
<1>8. ASSUME NEW ending,
             RollBack(t, WorkspaceItem(t) \o <<Item(loc[t].dst, "staging", FALSE)>>, ending)
      PROVE  BooksInv'
  <2>1. PICK poison : poison = FALSE
    OBVIOUS
  <2>2. RollBack(t, WorkspaceItem(t) \o <<Item(loc[t].dst, "staging", poison)>>, ending)
    BY <1>8, <2>1
  <2>3. QED
    BY <1>1, <1>2, <1>5, <1>6, <2>2, GiveUpBooks
<1>9. QED
  BY <1>7, <1>8 DEF VerifyAuthoritative

LEMMA PrepareBooks ==
  ASSUME TransactionInv, BooksInv, NEW t \in Threads, Prepare(t)
  PROVE  BooksInv'
<1>1. TransactionInv' /\ Steady(t)
  BY PrepareStep
<1>2. /\ pc[t] = "prepare" /\ pc[t] \in PreCommit /\ UNCHANGED chunk
      /\ pc[t] \in Filled /\ pc[t] \notin Unwinding /\ pc[t] \in Third /\ pc[t] \in Working
      /\ {"transfer", "mat_comp"} \subseteq PreCommit \cap Filled
      /\ {"transfer", "mat_comp"} \cap Unwinding = {}
      /\ "mat_comp" \in Third /\ "mat_comp" \notin First \cup Second \cup Tokenless
      /\ "transfer" \notin First \cup Second \cup Third
  BY DEF Prepare, PreCommit, Filled, Unwinding, First, Second, Third, Tokenless, Moving,
         Unreserved, Leasing, Holding, Verified, PostCommit, Working
<1>3. /\ Typed /\ loc[t] \in Locals /\ TokensAt("prepare", loc[t])
      /\ AllocationsAt("prepare", loc[t])
      /\ loc[t].dst.charge \in Word /\ loc[t].ws.charge \in Word
  BY <1>2, PreFacts
<1>4. /\ loc[t].toks[1] = InactiveToken /\ loc[t].toks[2] = InactiveToken
      /\ loc[t].toks[3] = ThirdToken(loc[t]) /\ loc[t].comp = NoAlloc
  BY <1>2, <1>3 DEF TokensAt, AllocationsAt
<1>5. PICK x \in Nat, y \in Nat : x = loc[t].dst.charge /\ y = loc[t].ws.charge
  BY <1>3, WordFacts
<1>6. Staged(pc[t], loc[t]) = x /\ Worked(pc[t], loc[t]) = y
  BY <1>2, <1>4, <1>5 DEF Staged, Worked, NoAlloc
<1>7. NeedsCompaction(t) <=> Compacted(loc[t])
  BY DEF NeedsCompaction, Compacted
<1>8. ASSUME ~NeedsCompaction(t), Goto(t, "transfer", loc[t]), UNCHANGED <<ledger, store>>
      PROVE  BooksInv'
  <2>1. PICK l : l = loc[t]
    OBVIOUS
  <2>2. pc'[t] = "transfer" /\ loc'[t] = l
    BY <1>3, <1>8, <2>1, GotoOthers
  <2>3. \A j \in 1 .. 3 : l.toks[j] = InactiveToken
    BY <1>4, <1>7, <1>8, <2>1 DEF ThirdToken
  <2>4. TokensAt("transfer", l)
    BY <1>2, <2>3 DEF TokensAt
  <2>5. AllocationsAt("transfer", l)
    BY <1>2, <1>4, <1>7, <1>8, <2>1 DEF AllocationsAt, First, Second, Unreserved, Verified
  <2>6. Supplied("transfer", l, store')
    BY <2>4, <2>5 DEF Supplied, Receipt
  <2>7. Staged("transfer", l) = x /\ Worked("transfer", l) = y
    BY <1>2, <1>4, <1>5, <2>1 DEF Staged, Worked, NoAlloc
  <2>8. Quiet(t)
    BY <1>3, <1>8, SameQuiet
  <2>9. QED
    BY <1>1, <1>2, <1>6, <1>8, <2>1, <2>2, <2>6, <2>7, <2>8, OnwardBooks
<1>9. ASSUME NeedsCompaction(t), NEW r, r \in NextId, NEW n, n \in ShrunkCharges, UNCHANGED ledger,
             n <= CompactionBound[loc[t].dest], n <= loc[t].dst.charge,
             store' = [store EXCEPT ![r] = Allocated(DestTier(t), n)],
             Goto(t, "mat_comp", [loc[t] EXCEPT !.comp = [id |-> r, charge |-> n]])
      PROVE  BooksInv'
  <2>1. n \in Word
    BY <1>9, TransactionAssumption DEF TransactionAssumption
  <2>2. Quiet(t)
    BY <1>2, <1>9, <2>1, AllocateFacts DEF Framed
  <2>3. PICK l : l = [loc[t] EXCEPT !.comp = [id |-> r, charge |-> n]]
    OBVIOUS
  <2>4. pc'[t] = "mat_comp" /\ loc'[t] = l
    BY <1>3, <1>9, <2>3, GotoOthers
  <2>5. /\ l.dest = loc[t].dest /\ l.chunk = loc[t].chunk /\ l.toks = loc[t].toks
        /\ l.dst = loc[t].dst /\ l.ws = loc[t].ws /\ l.comp.charge = n
    BY <1>3, <2>3 DEF Locals
  <2>6. TokensAt("mat_comp", l)
    BY <1>2, <1>4, <2>5 DEF TokensAt, ThirdToken, TokenOf, Compacted
  <2>7. AllocationsAt("mat_comp", l)
    BY <1>2, <1>7, <1>9, <2>5 DEF AllocationsAt, Unreserved, Compacted, First, Second, Verified
  <2>8. Supplied("mat_comp", l, store')
    BY <2>6, <2>7 DEF Supplied, Receipt
  <2>9. Staged("mat_comp", l) = x /\ Worked("mat_comp", l) = y
    BY <1>2, <1>5, <2>5 DEF Staged, Worked
  <2>10. QED
    BY <1>1, <1>2, <1>6, <1>9, <2>2, <2>4, <2>5, <2>8, <2>9, OnwardBooks
<1>10. ASSUME ledger' = DropToken(ledger, loc[t].toks[3]), UNCHANGED store,
              IF Refuses(ledger, loc[t].toks[3]) THEN Terminate(t)
              ELSE Goto(t, "rollback",
                        [loc[t] EXCEPT !.toks[3] = InactiveToken,
                                       !.todo = WorkspaceItem(t) \o <<Item(loc[t].dst, "staging", FALSE)>>])
       PROVE  BooksInv'
  <2>1. PICK tok : tok = loc[t].toks[3] /\ ledger' = DropToken(ledger, tok)
    BY <1>10
  <2>2. ~Refuses(ledger, loc[t].toks[3])
    <3>1. tok \in ReservationTokens /\ (tok.active => tok.remaining <= ledger[tok.tier].reserved)
      BY <1>3, <2>1, TokenCovered DEF BooksInv
    <3>2. ledger \in Ledgers
      BY <1>3 DEF Typed, GoodLedger
    <3>3. QED
      BY <2>1, <3>1, <3>2, DropBooks
  <2>3. PICK items, poison : /\ poison = FALSE
                             /\ items = WorkspaceItem(t) \o <<Item(loc[t].dst, "staging", poison)>>
    OBVIOUS
  <2>4. PICK l : l = [loc[t] EXCEPT !.toks[3] = InactiveToken, !.todo = items]
    OBVIOUS
  <2>5. Goto(t, "rollback", l)
    BY <1>10, <2>2, <2>3, <2>4
  <2>6. /\ l.dest = loc[t].dest /\ l.chunk = loc[t].chunk /\ l.todo = items /\ Spends(loc[t], l, 3)
    BY <1>3, <2>4 DEF Locals, Spends
  <2>7. /\ ToUndo(l, "staging") = loc[t].dst.charge /\ ToUndo(l, "workspace") = loc[t].ws.charge
        /\ Len(l.todo) \in 0 .. 3
    BY <1>3, <2>3, <2>6, WorkList
  <2>8. PICK n \in Nat : n = IF Compacted(loc[t]) THEN CompactionBound[loc[t].dest] ELSE 0
    <3>1. CompactionBound[loc[t].dest] \in Word
      BY <1>3, TransactionAssumption DEF TransactionAssumption, Locals
    <3>2. QED
      BY <3>1, WordFacts
  <2>9. \A u \in Tiers : Claim(tok, u) = Part(DestTier(t), u, n)
    <3>1. tok = IF Compacted(loc[t]) THEN TokenOf(loc[t], "workspace", n) ELSE InactiveToken
      BY <1>4, <2>1, <2>8 DEF ThirdToken
    <3>2. CASE Compacted(loc[t])
      BY <3>1, <3>2, TokenClaims DEF DestTier
    <3>3. CASE ~Compacted(loc[t])
      BY <2>8, <3>1, <3>3, TokenClaims DEF Part
    <3>4. QED
      BY <3>2, <3>3
  <2>10. 3 \in 1 .. 3
    OBVIOUS
  <2>11. QED
    BY <1>1, <1>2, <1>5, <1>6, <1>10, <2>1, <2>5, <2>6, <2>7, <2>9, <2>10, AbandonBooks
<1>11. QED
  <2>1. CASE ~NeedsCompaction(t) /\ Goto(t, "transfer", loc[t]) /\ UNCHANGED <<ledger, store>>
    BY <1>8, <2>1
  <2>2. CASE /\ NeedsCompaction(t)
             /\ \E r \in NextId, n \in ShrunkCharges :
                  /\ n <= CompactionBound[loc[t].dest] /\ n <= loc[t].dst.charge
                  /\ store' = [store EXCEPT ![r] = Allocated(DestTier(t), n)]
                  /\ Goto(t, "mat_comp", [loc[t] EXCEPT !.comp = [id |-> r, charge |-> n]])
             /\ UNCHANGED ledger
    BY <1>9, <2>2
  <2>3. CASE /\ ledger' = DropToken(ledger, loc[t].toks[3])
             /\ IF Refuses(ledger, loc[t].toks[3]) THEN Terminate(t)
                ELSE Goto(t, "rollback",
                          [loc[t] EXCEPT !.toks[3] = InactiveToken,
                                         !.todo = WorkspaceItem(t) \o <<Item(loc[t].dst, "staging", FALSE)>>])
             /\ UNCHANGED store
    BY <1>10, <2>3
  <2>4. QED
    BY <2>1, <2>2, <2>3 DEF Prepare

(***************************************************************************)
(* The transfer and its receipt                                            *)
(***************************************************************************)
LEMMA TransferBooks ==
  ASSUME TransactionInv, BooksInv, NEW t \in Threads, Transfer(t)
  PROVE  BooksInv'
<1> DEFINE d == loc[t].dst
           k == loc[t].comp
           compact == IF NeedsCompaction(t) THEN <<Item(k, "workspace", FALSE)>> ELSE <<>>
           items(poison) == compact \o WorkspaceItem(t) \o <<Item(d, "staging", poison)>>
<1>1. TransactionInv' /\ Steady(t)
  BY TransferStep
<1>2. /\ pc[t] = "transfer" /\ pc[t] \in PreCommit /\ UNCHANGED <<ledger, chunk>>
      /\ pc[t] \in Filled /\ pc[t] \notin Unwinding
      /\ "reconcile" \in PreCommit /\ "reconcile" \in Filled /\ "reconcile" \notin Unwinding
      /\ "reconcile" \notin First \cup Second \cup Third
  BY DEF Transfer, PreCommit, Filled, Unwinding, First, Second, Third
<1>3. /\ Typed /\ loc[t] \in Locals /\ TokensAt("transfer", loc[t])
      /\ AllocationsAt("transfer", loc[t])
      /\ loc[t].dst.charge \in Word /\ loc[t].ws.charge \in Word /\ loc[t].comp.charge \in Word
  BY <1>2, PreFacts
<1>4. /\ \A i \in 1 .. 3 : loc[t].toks[i] = InactiveToken
      /\ IF Compacted(loc[t]) THEN k.charge # 0 /\ k.charge <= d.charge ELSE k = NoAlloc
  BY <1>3 DEF TokensAt, AllocationsAt, Tokenless, Moving
<1>5. PICK x \in Nat, y \in Nat, z \in Nat :
        x = loc[t].dst.charge /\ y = loc[t].ws.charge /\ z = loc[t].comp.charge
  BY <1>3, WordFacts
<1>6. Staged(pc[t], loc[t]) = x /\ Worked(pc[t], loc[t]) = y + z
  BY <1>2, <1>5 DEF Staged, Worked
<1>7. NeedsCompaction(t) <=> Compacted(loc[t])
  BY DEF NeedsCompaction, Compacted
<1>8. ASSUME NEW arrived \in Contents \cup {Garbage}, NEW n \in Word,
             IF NeedsCompaction(t) THEN n = k.charge ELSE n <= d.charge, Goto(t, "reconcile", loc[t]),
             store' = [r \in Resources |->
                         IF r = d.id THEN [store[r] EXCEPT !.content = arrived, !.charge = n]
                         ELSE IF r = k.id THEN [store[r] EXCEPT !.charge = d.charge]
                         ELSE store[r]]
      PROVE  BooksInv'
  <2>1. PICK l : l = loc[t]
    OBVIOUS
  <2>2. pc'[t] = "reconcile" /\ loc'[t] = l
    BY <1>3, <1>8, <2>1, GotoOthers
  <2>3. Quiet(t)
    BY <1>2, <1>8, TransferQuiet
  <2>4. d.id \in Resources /\ store[d.id] \in Descriptors
    <3>1. DeliveringAt("transfer", loc[t], store)
      BY <1>2, FilledFacts
    <3>2. QED
      BY <1>2, <1>3, <3>1 DEF DeliveringAt, Typed
  <2>5. store'[d.id].charge = n
    <3>1. store'[d.id] = [store[d.id] EXCEPT !.content = arrived, !.charge = n]
      BY <1>8, <2>4
    <3>2. QED
      BY <2>4, <3>1 DEF Descriptors
  <2>6. Receipt("reconcile", l, store')
    BY <1>7, <1>8, <2>1, <2>5 DEF Receipt
  <2>7. TokensAt("reconcile", l)
    BY <1>2, <1>4, <2>1 DEF TokensAt
  <2>8. AllocationsAt("reconcile", l)
    BY <1>4, <2>1 DEF AllocationsAt, First, Second, Unreserved, Verified
  <2>9. Supplied("reconcile", l, store')
    BY <2>6, <2>7, <2>8 DEF Supplied
  <2>10. Staged("reconcile", l) = x /\ Worked("reconcile", l) = y + z
    BY <1>2, <1>5, <2>1 DEF Staged, Worked
  <2>11. QED
    BY <1>1, <1>2, <1>6, <2>1, <2>2, <2>3, <2>9, <2>10, OnwardBooks
<1>9. ASSUME NEW poison, NEW ending, RollBack(t, items(poison), ending), UNCHANGED store
      PROVE  BooksInv'
  <2>1. CASE ~NeedsCompaction(t)
    <3>1. items(poison) = WorkspaceItem(t) \o <<Item(d, "staging", poison)>>
      <4>1. WorkspaceItem(t) \in Seq(Items)
        BY <1>3, WorkspaceItems DEF OwnItems
      <4>2. <<>> \o WorkspaceItem(t) = WorkspaceItem(t)
        BY <4>1
      <4>3. QED
        BY <2>1, <4>2
    <3>2. RollBack(t, WorkspaceItem(t) \o <<Item(d, "staging", poison)>>, ending)
      BY <1>9, <3>1
    <3>3. z = 0
      BY <1>4, <1>5, <1>7, <2>1 DEF NoAlloc
    <3>4. Staged(pc[t], loc[t]) = loc[t].dst.charge /\ Worked(pc[t], loc[t]) = loc[t].ws.charge
      BY <1>5, <1>6, <3>3
    <3>5. QED
      BY <1>1, <1>2, <1>9, <3>2, <3>4, GiveUpBooks
  <2>2. CASE NeedsCompaction(t)
    <3>1. PICK todo : todo = <<Item(loc[t].comp, "workspace", FALSE)>> \o WorkspaceItem(t)
                               \o <<Item(loc[t].dst, "staging", poison)>>
      OBVIOUS
    <3>2. PICK l : l = [loc[t] EXCEPT !.todo = todo, !.ending = ending]
      OBVIOUS
    <3>3. Goto(t, "rollback", l)
      BY <1>9, <2>2, <3>1, <3>2 DEF RollBack
    <3>4. pc'[t] = "rollback" /\ loc'[t] = l
      BY <1>3, <3>3, GotoOthers
    <3>5. /\ l.dest = loc[t].dest /\ l.chunk = loc[t].chunk /\ l.toks = loc[t].toks
          /\ l.todo = todo
      BY <1>3, <3>2 DEF Locals
    <3>6. /\ ToUndo(l, "staging") = loc[t].dst.charge
          /\ ToUndo(l, "workspace") = loc[t].ws.charge + loc[t].comp.charge
          /\ Len(l.todo) \in 0 .. 3
      BY <1>3, <3>1, <3>5, RollbackLists
    <3>7. PICK j \in 0 .. 3 : j = Len(l.todo)
      BY <3>6
    <3>8. j <= 3 /\ j \in Nat
      OBVIOUS
    <3>9. Quiet(t)
      BY <1>3, <1>9, SameQuiet
    <3>10. ToUndo(l, "staging") = Staged(pc[t], loc[t]) /\ ToUndo(l, "workspace") = Worked(pc[t], loc[t])
      BY <1>5, <1>6, <3>6
    <3>11. QED
      BY <1>1, <1>2, <1>9, <3>4, <3>5, <3>7, <3>8, <3>9, <3>10, RollBackBooks
  <2>3. QED
    BY <2>1, <2>2
<1>10. CASE \E arrived \in {store[loc[t].src.resource].content}
                             \cup (IF Fault("corrupt") THEN {Garbage} ELSE {}),
               n \in IF NeedsCompaction(t) THEN {k.charge}
                     ELSE {d.charge} \cup (IF IsRaw(loc[t].dest) THEN {}
                                           ELSE {m \in ShrunkCharges : m <= d.charge}) :
              /\ store' = [r \in Resources |->
                   IF r = d.id THEN [store[r] EXCEPT !.content = arrived, !.charge = n]
                   ELSE IF r = k.id THEN [store[r] EXCEPT !.charge = d.charge]
                   ELSE store[r]]
              /\ Goto(t, "reconcile", loc[t])
  <2>1. ShrunkCharges \subseteq Word
    BY TransactionAssumption DEF TransactionAssumption
  <2>2. store[loc[t].src.resource].content \in Contents \cup {Garbage}
    BY <1>2, <1>3, SourceFacts DEF Descriptors
  <2>3. PICK arrived \in {store[loc[t].src.resource].content}
                           \cup (IF Fault("corrupt") THEN {Garbage} ELSE {}),
             n \in IF NeedsCompaction(t) THEN {k.charge}
                   ELSE {d.charge} \cup (IF IsRaw(loc[t].dest) THEN {}
                                         ELSE {m \in ShrunkCharges : m <= d.charge}) :
             /\ store' = [r \in Resources |->
                  IF r = d.id THEN [store[r] EXCEPT !.content = arrived, !.charge = n]
                  ELSE IF r = k.id THEN [store[r] EXCEPT !.charge = d.charge]
                  ELSE store[r]]
             /\ Goto(t, "reconcile", loc[t])
    BY <1>10
  <2>4. arrived \in Contents \cup {Garbage}
    BY <2>2
  <2>5. n \in Word /\ IF NeedsCompaction(t) THEN n = k.charge ELSE n <= d.charge
    <3>1. d.charge <= d.charge
      BY <1>5
    <3>2. CASE NeedsCompaction(t)
      BY <1>3, <2>3, <3>2
    <3>3. CASE ~NeedsCompaction(t)
      BY <1>3, <2>1, <2>3, <3>1, <3>3
    <3>4. QED
      BY <3>2, <3>3
  <2>6. QED
    BY <1>8, <2>3, <2>4, <2>5
<1>11. CASE RollBack(t, items(FALSE), "clear") /\ UNCHANGED store
  <2>1. PICK poison : poison = FALSE
    OBVIOUS
  <2>2. RollBack(t, items(poison), "clear")
    BY <1>11, <2>1
  <2>3. QED
    BY <1>9, <1>11, <2>2
<1>12. CASE RollBack(t, items(TRUE), "poison") /\ UNCHANGED store
  <2>1. PICK poison : poison = TRUE
    OBVIOUS
  <2>2. RollBack(t, items(poison), "poison")
    BY <1>12, <2>1
  <2>3. QED
    BY <1>9, <1>12, <2>2
<1>13. QED
  BY <1>10, <1>11, <1>12 DEF Transfer

LEMMA ReconcileBooks ==
  ASSUME TransactionInv, BooksInv, NEW t \in Threads, Reconcile(t)
  PROVE  BooksInv'
<1>1. TransactionInv' /\ Steady(t)
  BY ReconcileStep
<1>2. /\ pc[t] = "reconcile" /\ pc[t] \in PreCommit /\ UNCHANGED <<store, chunk>>
      /\ pc[t] \in Filled /\ pc[t] \notin Unwinding
      /\ {"rel_comp", "verify"} \subseteq PreCommit \cap Filled \cap Working
      /\ {"rel_comp", "verify"} \cap (Unwinding \cup PostCommit) = {}
  BY DEF Reconcile, PreCommit, PostCommit, Working, Filled, Unwinding
<1>3. /\ Typed /\ loc[t] \in Locals /\ loc[t].chunk \in Chunks /\ TokensAt("reconcile", loc[t])
      /\ AllocationsAt("reconcile", loc[t]) /\ Receipt("reconcile", loc[t], store)
      /\ loc[t].dst.charge \in Word /\ loc[t].ws.charge \in Word /\ loc[t].comp.charge \in Word
      /\ DestTier(t) \in Tiers /\ chunk[loc[t].chunk].cleanup = <<>>
      /\ chunk[loc[t].chunk] \in ChunkRecords /\ pc[t] \in Working
  BY <1>2, PreFacts
<1>4. /\ \A i \in 1 .. 3 : loc[t].toks[i] = InactiveToken
      /\ IF Compacted(loc[t]) THEN loc[t].comp.charge # 0 /\ loc[t].comp.charge <= loc[t].dst.charge
         ELSE loc[t].comp = NoAlloc
  BY <1>3 DEF TokensAt, AllocationsAt, Tokenless, Moving
<1>5. PICK x \in Nat, y \in Nat, z \in Nat :
        x = loc[t].dst.charge /\ y = loc[t].ws.charge /\ z = loc[t].comp.charge
  BY <1>3, WordFacts
<1>6. Staged(pc[t], loc[t]) = x /\ Worked(pc[t], loc[t]) = y + z
  BY <1>2, <1>5 DEF Staged, Worked
<1>7. NeedsCompaction(t) <=> Compacted(loc[t])
  BY DEF NeedsCompaction, Compacted
<1>8. PICK n \in Word : n = store[loc[t].dst.id].charge
  <2>1. store[loc[t].dst.id] \in Descriptors
    <3>1. DeliveringAt("reconcile", loc[t], store)
      BY <1>2, FilledFacts
    <3>2. QED
      BY <1>2, <1>3, <3>1 DEF DeliveringAt, Typed
  <2>2. QED
    BY <2>1 DEF Descriptors
<1>9. n \in Nat /\ n <= x
  BY <1>3, <1>4, <1>5, <1>8, WordFacts DEF Receipt
<1>10. PICK u \in Tiers : u = DestTier(t)
  BY <1>3
<1>11. PICK x1 \in Nat, x2 \in Nat, x3 \in Nat, x4 \in Nat, x5 \in Nat :
         /\ x1 = ledger[u].reserved /\ x2 = ledger[u].staging /\ x3 = ledger[u].workspace
         /\ x4 = ledger[u].committed /\ x5 = ledger[u].cleanup_debt
  BY <1>3, CountersNat DEF Typed, GoodLedger
<1>12. x <= x2 /\ y + z <= x3 /\ x4 + x1 + x2 + x3 + x5 <= MaxWord /\ MaxWord \in Nat
  <2>1. StagingOf(t, u) = x /\ WorkspaceOf(t, u) = y + z
    BY <1>6, <1>10 DEF StagingOf, WorkspaceOf, Part, DestTier
  <2>2. /\ StagingOf(t, u) <= ledger[u].staging /\ WorkspaceOf(t, u) <= ledger[u].workspace
        /\ Total(ledger[u]) <= MaxWord /\ MaxWord \in Nat
    BY <1>3, Covered DEF BooksInv
  <2>3. QED
    BY <1>11, <2>1, <2>2 DEF Total
<1>13. PICK a, k, l : /\ a = [loc[t].dst EXCEPT !.charge = n]
                      /\ k = [loc[t].comp EXCEPT !.charge = IF NeedsCompaction(t) THEN loc[t].dst.charge ELSE @]
                      /\ l = [loc[t] EXCEPT !.dst = a, !.comp = k]
  OBVIOUS
<1>14. l = [loc[t] EXCEPT !.dst.charge = n, !.comp.charge = IF NeedsCompaction(t)
                                                            THEN loc[t].dst.charge ELSE @]
  BY <1>3, <1>13 DEF Locals
<1>15. /\ l.dest = loc[t].dest /\ l.chunk = loc[t].chunk /\ l.toks = loc[t].toks
       /\ l.ws = loc[t].ws /\ l.dst = a /\ l.comp = k /\ a.charge = n
       /\ k.charge = IF NeedsCompaction(t) THEN x ELSE z
       /\ (~NeedsCompaction(t) => k = loc[t].comp)
  <2>1. loc[t].dst \in Allocations /\ loc[t].comp \in Allocations
    BY <1>3 DEF Locals
  <2>2. l.dest = loc[t].dest /\ l.chunk = loc[t].chunk /\ l.toks = loc[t].toks
        /\ l.ws = loc[t].ws /\ l.dst = a /\ l.comp = k
    BY <1>3, <1>13 DEF Locals
  <2>3. a.charge = n
    BY <1>13, <2>1 DEF Allocations
  <2>4. k.charge = IF NeedsCompaction(t) THEN x ELSE z
    BY <1>5, <1>13, <2>1 DEF Allocations
  <2>5. ~NeedsCompaction(t) => k = loc[t].comp
    BY <1>13, <2>1 DEF Allocations
  <2>6. QED
    BY <2>2, <2>3, <2>4, <2>5
<1>16. Quiet(t)
  BY <1>2, <1>3, SameQuiet
<1>17. ledger \in Ledgers /\ chunk \in [Chunks -> ChunkRecords]
  BY <1>3 DEF Typed, GoodLedger
<1>18. PICK c, ch : c = loc[t].chunk /\ ch = chunk[c]
  OBVIOUS
<1>19. c \in Chunks /\ chunk'[c] = ch /\ l.chunk = c /\ \A e \in Chunks \ {c} : chunk'[e] = chunk[e]
  BY <1>2, <1>3, <1>15, <1>18
<1>20. ASSUME NEW p \in {"rel_comp", "verify"}, Goto(t, p, l), Supplied(p, l, store),
              NEW s \in Int, NEW w \in Int, s + w <= 0,
              Staged(p, l) = x + s, Worked(p, l) = y + z + w,
              \A v \in Tiers : Booked(ledger[v], ledger'[v], 0, Part(DestTier(t), v, s),
                                      Part(DestTier(t), v, w), 0, 0)
       PROVE  BooksInv'
  <2>1. pc'[t] = p /\ loc'[t] = l
    BY <1>3, <1>20, GotoOthers
  <2>2. PICK o \in Int : o = 0 /\ o + s + w + o <= 0
    BY <1>20
  <2>3. ASSUME NEW v \in Tiers
        PROVE  /\ Reserved(l, v) = Reserved(loc[t], v) + Part(DestTier(t), v, o)
               /\ Owed(ch, v) = Owed(chunk[c], v) + Part(DestTier(t), v, o)
               /\ Booked(ledger[v], ledger'[v], Part(DestTier(t), v, o), Part(DestTier(t), v, s),
                         Part(DestTier(t), v, w), 0, Part(DestTier(t), v, o))
    <3>1. Part(DestTier(t), v, o) = 0
      BY <2>2 DEF Part
    <3>2. PICK q \in Nat, e \in Nat : q = Reserved(loc[t], v) /\ e = Owed(ch, v)
      BY <1>3, <1>18, LocalShares, ChunkShares
    <3>3. Reserved(l, v) = q
      BY <1>15, <3>2 DEF Reserved
    <3>4. QED
      BY <1>18, <1>20, <3>1, <3>2, <3>3
  <2>4. ChunkOf(p, l, ch, t) /\ Supplied(p, l, store') /\ p \in Working
    BY <1>2, <1>3, <1>18, <1>20 DEF ChunkOf
  <2>5. /\ Staged(p, l) = Staged(pc[t], loc[t]) + s
        /\ Worked(p, l) = Worked(pc[t], loc[t]) + w
    BY <1>6, <1>20
  <2>6. Stays(t, c, p, l, ch, o, s, w, o)
    BY <1>1, <1>3, <1>15, <1>16, <1>18, <1>19, <1>20, <2>1, <2>2, <2>3, <2>4, <2>5 DEF Stays
  <2>7. QED
    BY <1>1, <2>6, StaysBooks
<1>21. CASE NeedsCompaction(t)
  <2>1. n = z /\ n # 0
    BY <1>3, <1>4, <1>5, <1>7, <1>8, <1>21 DEF Receipt
  <2>2. n <= x3 /\ x3 + (x - n) <= MaxWord
    BY <1>9, <1>12, <2>1
  <2>3. ExchangeCompactionOk(ledger, DestTier(t), loc[t].dst.charge, n)
    BY <1>5, <1>9, <1>10, <1>11, <1>12, <2>1, <2>2 DEF ExchangeCompactionOk, Fits
  <2>4. /\ ledger' = ExchangeCompaction(ledger, DestTier(t), loc[t].dst.charge, n)
        /\ Goto(t, "rel_comp", l)
    BY <1>8, <1>14, <1>21, <2>3 DEF Reconcile
  <2>5. PICK m \in Word : m = loc[t].dst.charge
    BY <1>3
  <2>6. PICK s \in Int, w \in Int : s = n - m /\ w = m - n /\ s + w <= 0 /\ m = x
    <3>1. m = x
      BY <1>5, <2>5
    <3>2. n - m \in Int /\ m - n \in Int /\ (n - m) + (m - n) <= 0
      BY <1>9, <3>1
    <3>3. QED
      BY <3>1, <3>2
  <2>7. \A v \in Tiers : Booked(ledger[v], ledger'[v], 0, Part(DestTier(t), v, s),
                                Part(DestTier(t), v, w), 0, 0)
    BY <1>3, <1>17, <2>4, <2>5, <2>6, MovesBook DEF Buckets
  <2>8. Staged("rel_comp", l) = n /\ Worked("rel_comp", l) = y + x
    BY <1>2, <1>5, <1>15, <1>21 DEF Staged, Worked
  <2>9. n = x + s /\ y + x = y + z + w
    BY <1>9, <2>1, <2>6
  <2>10. Compacted(l)
    BY <1>7, <1>15, <1>21 DEF Compacted
  <2>11. TokensAt("rel_comp", l)
    BY <1>4, <1>15 DEF TokensAt, First, Second, Third
  <2>12. AllocationsAt("rel_comp", l)
    BY <2>10 DEF AllocationsAt, First, Second, Unreserved, Verified
  <2>13. Supplied("rel_comp", l, store)
    BY <2>11, <2>12 DEF Supplied, Receipt
  <2>14. QED
    BY <1>20, <2>4, <2>6, <2>7, <2>8, <2>9, <2>13
<1>22. CASE ~NeedsCompaction(t)
  <2>1. z = 0 /\ k = NoAlloc
    BY <1>4, <1>5, <1>7, <1>15, <1>22 DEF NoAlloc
  <2>2. ShrinkMaterializedOk(ledger, DestTier(t), "staging", loc[t].dst.charge, n)
    BY <1>5, <1>9, <1>10, <1>11, <1>12 DEF ShrinkMaterializedOk, InBucket
  <2>3. /\ ledger' = ShrinkMaterialized(ledger, DestTier(t), "staging", loc[t].dst.charge, n)
        /\ Goto(t, "verify", l)
    BY <1>8, <1>14, <1>22, <2>2 DEF Reconcile
  <2>4. PICK m \in Word : m = loc[t].dst.charge
    BY <1>3
  <2>5. PICK s \in Int, w \in Int : s = n - m /\ w = 0 /\ s + w <= 0 /\ m = x
    BY <1>5, <1>9, <2>4
  <2>6. PICK b \in Buckets : b = "staging"
    BY DEF Buckets
  <2>7. Part(b, "staging", n - m) = s /\ Part(b, "workspace", n - m) = w
    BY <2>5, <2>6 DEF Part
  <2>8. \A v \in Tiers : Booked(ledger[v], ledger'[v], 0, Part(DestTier(t), v, s),
                                Part(DestTier(t), v, w), 0, 0)
    <3>1. ledger' = ShrinkMaterialized(ledger, DestTier(t), b, m, n)
      BY <2>3, <2>4, <2>6
    <3>2. QED
      BY <1>3, <1>17, <2>7, <3>1, MovesBook
  <2>9. Staged("verify", l) = n /\ Worked("verify", l) = y
    BY <1>2, <1>5, <1>15, <2>1 DEF Staged, Worked, NoAlloc
  <2>10. n = x + s /\ y = y + z + w
    BY <1>9, <2>1, <2>5
  <2>11. TokensAt("verify", l)
    BY <1>4, <1>15 DEF TokensAt, First, Second, Third
  <2>12. AllocationsAt("verify", l)
    BY <1>15, <2>1 DEF AllocationsAt, First, Second, Unreserved, Verified
  <2>13. Supplied("verify", l, store)
    BY <2>11, <2>12 DEF Supplied, Receipt
  <2>14. QED
    BY <1>20, <2>3, <2>5, <2>8, <2>9, <2>10, <2>13
<1>23. QED
  BY <1>21, <1>22

\* Locals that agree on everything the books look at.
Alike(l, k) ==
  /\ l.dest = k.dest /\ l.chunk = k.chunk /\ l.toks = k.toks /\ l.src = k.src
  /\ l.dst = k.dst /\ l.ws = k.ws /\ l.comp = k.comp /\ l.todo = k.todo

LEMMA AlikeFacts ==
  ASSUME NEW l, NEW k, Alike(l, k), NEW p
  PROVE  /\ Staged(p, l) = Staged(p, k) /\ Worked(p, l) = Worked(p, k)
         /\ \A ch, t : ChunkOf(p, k, ch, t) => ChunkOf(p, l, ch, t)
         /\ \A st : p # "reconcile" /\ Supplied(p, k, st) => Supplied(p, l, st)
<1>1. \A b : ToUndo(l, b) = ToUndo(k, b)
  BY DEF Alike, ToUndo, TodoAt
<1>2. Staged(p, l) = Staged(p, k) /\ Worked(p, l) = Worked(p, k)
  BY <1>1 DEF Alike, Staged, Worked
<1>3. ASSUME NEW ch, NEW t, ChunkOf(p, k, ch, t) PROVE ChunkOf(p, l, ch, t)
  BY <1>3 DEF Alike, ChunkOf, SourceOwed
<1>4. ASSUME NEW st, p # "reconcile", Supplied(p, k, st) PROVE Supplied(p, l, st)
  <2>1. TokensAt(p, k) => TokensAt(p, l)
    BY DEF Alike, TokensAt, FirstToken, SecondToken, ThirdToken, TokenOf, Transforms, Compacted
  <2>2. AllocationsAt(p, k) => AllocationsAt(p, l)
    BY DEF Alike, AllocationsAt, Transforms, Compacted
  <2>3. QED
    BY <1>4, <2>1, <2>2 DEF Supplied, Receipt
<1>5. QED
  BY <1>2, <1>3, <1>4

\* The backend's part of a release books nothing: the caller settles it afterwards.
LEMMA ReleaseBooks ==
  ASSUME TransactionInv, TransactionInv', BooksInv, NEW t \in Threads, pc[t] \in Working, Steady(t),
         NEW id, id \in Claims(t) \cup {None}, NEW p \in Working \ {"reconcile"},
         ReleaseResource(t, id, p),
         Staged(p, loc[t]) = Staged(pc[t], loc[t]), Worked(p, loc[t]) = Worked(pc[t], loc[t]),
         ChunkOf(p, loc[t], chunk[loc[t].chunk], t), Supplied(p, loc[t], store)
  PROVE  BooksInv'
<1>1. /\ Typed /\ loc[t] \in Locals /\ loc[t].chunk \in Chunks
      /\ pc[t] \in PreCommit \cup Unwinding \cup PostCommit
  BY WorkFacts DEF Working
<1>2. Quiet(t)
  BY <1>1, ReleaseFacts DEF Framed
<1>3. PICK o : Goto(t, p, [loc[t] EXCEPT !.released = o]) /\ UNCHANGED <<ledger, chunk>>
  BY DEF ReleaseResource
<1>4. PICK l : l = [loc[t] EXCEPT !.released = o]
  OBVIOUS
<1>5. pc'[t] = p /\ loc'[t] = l
  BY <1>1, <1>3, <1>4, GotoOthers
<1>6. Alike(l, loc[t])
  BY <1>1, <1>4 DEF Alike, Locals
<1>7. PICK c \in Chunks : c = loc[t].chunk
  BY <1>1
<1>8. l.dest = loc[t].dest /\ l.chunk = c /\ l.toks = loc[t].toks
  BY <1>6, <1>7 DEF Alike
<1>9. /\ Staged(p, l) = Staged(pc[t], loc[t]) /\ Worked(p, l) = Worked(pc[t], loc[t])
      /\ ChunkOf(p, l, chunk[c], t) /\ Supplied(p, l, store)
  BY <1>6, <1>7, AlikeFacts
<1>10. Supplied(p, l, store')
  BY <1>9 DEF Supplied, Receipt
<1>11. QED
  BY <1>2, <1>3, <1>5, <1>7, <1>8, <1>9, <1>10, PlainStay

LEMMA ReleaseCompactionBooks ==
  ASSUME TransactionInv, BooksInv, NEW t \in Threads, ReleaseCompaction(t)
  PROVE  BooksInv'
<1>1. TransactionInv' /\ Steady(t)
  BY ReleaseCompactionStep
<1>2. pc[t] = "rel_comp" /\ ReleaseResource(t, loc[t].comp.id, "settle_comp")
  BY DEF ReleaseCompaction
<1>3. /\ pc[t] \in PreCommit /\ pc[t] \in Filled /\ pc[t] \notin Unwinding \cup PostCommit
      /\ "settle_comp" \in Working \ {"reconcile"} /\ "settle_comp" \in Filled
      /\ "settle_comp" \notin Unwinding \cup PostCommit
  BY <1>2 DEF PreCommit, Filled, Unwinding, PostCommit, Working
<1>4. /\ chunk[loc[t].chunk].cleanup = <<>> /\ pc[t] \in Working
      /\ TokensAt("rel_comp", loc[t]) /\ AllocationsAt("rel_comp", loc[t])
  BY <1>2, <1>3, PreFacts
<1>5. loc[t].comp.id \in Claims(t) \cup {None}
  BY <1>3 DEF Claims, ClaimsAt
<1>6. /\ Staged("settle_comp", loc[t]) = Staged(pc[t], loc[t])
      /\ Worked("settle_comp", loc[t]) = Worked(pc[t], loc[t])
  BY <1>2, <1>3 DEF Staged, Worked
<1>7. ChunkOf("settle_comp", loc[t], chunk[loc[t].chunk], t)
  BY <1>3, <1>4 DEF ChunkOf
<1>8. TokensAt("settle_comp", loc[t])
  BY <1>4 DEF TokensAt, Tokenless, Moving, First, Second, Third
<1>9. AllocationsAt("settle_comp", loc[t])
  BY <1>4 DEF AllocationsAt, First, Second, Unreserved, Verified
<1>10. Supplied("settle_comp", loc[t], store)
  BY <1>8, <1>9 DEF Supplied, Receipt
<1>11. QED
  BY <1>1, <1>2, <1>3, <1>4, <1>5, <1>6, <1>7, <1>10, ReleaseBooks

LEMMA ReleaseWorkspaceBooks ==
  ASSUME TransactionInv, BooksInv, NEW t \in Threads, ReleaseWorkspace(t)
  PROVE  BooksInv'
<1>1. TransactionInv' /\ Steady(t)
  BY ReleaseWorkspaceStep
<1>2. pc[t] = "rel_ws" /\ ReleaseResource(t, loc[t].ws.id, "settle_ws")
  BY DEF ReleaseWorkspace
<1>3. /\ pc[t] \in PreCommit /\ pc[t] \in Filled /\ pc[t] \notin Unwinding \cup PostCommit
      /\ "settle_ws" \in Working \ {"reconcile"} /\ "settle_ws" \in Filled
      /\ "settle_ws" \notin Unwinding \cup PostCommit
  BY <1>2 DEF PreCommit, Filled, Unwinding, PostCommit, Working
<1>4. /\ chunk[loc[t].chunk].cleanup = <<>> /\ pc[t] \in Working
      /\ TokensAt("rel_ws", loc[t]) /\ AllocationsAt("rel_ws", loc[t])
  BY <1>2, <1>3, PreFacts
<1>5. loc[t].ws.id \in Claims(t) \cup {None}
  BY <1>3 DEF Claims, ClaimsAt
<1>6. /\ Staged("settle_ws", loc[t]) = Staged(pc[t], loc[t])
      /\ Worked("settle_ws", loc[t]) = Worked(pc[t], loc[t])
  BY <1>2, <1>3 DEF Staged, Worked
<1>7. ChunkOf("settle_ws", loc[t], chunk[loc[t].chunk], t)
  BY <1>3, <1>4 DEF ChunkOf
<1>8. TokensAt("settle_ws", loc[t])
  BY <1>4 DEF TokensAt, Tokenless, Verified, First, Second, Third
<1>9. AllocationsAt("settle_ws", loc[t])
  BY <1>4 DEF AllocationsAt, First, Second, Unreserved, Verified
<1>10. Supplied("settle_ws", loc[t], store)
  BY <1>8, <1>9 DEF Supplied, Receipt
<1>11. QED
  BY <1>1, <1>2, <1>3, <1>4, <1>5, <1>6, <1>7, <1>10, ReleaseBooks

LEMMA ReleaseSourceBooks ==
  ASSUME TransactionInv, BooksInv, NEW t \in Threads, ReleaseSource(t)
  PROVE  BooksInv'
<1>1. TransactionInv' /\ Steady(t)
  BY ReleaseSourceStep
<1>2. pc[t] = "rel_src" /\ ReleaseResource(t, loc[t].src.resource, "settle_src")
  BY DEF ReleaseSource
<1>3. /\ pc[t] \in PostCommit /\ pc[t] \in Working /\ pc[t] \notin Unwinding \cup PreCommit \cup Filled
      /\ "settle_src" \in Working \ {"reconcile"} /\ "settle_src" \in PostCommit
      /\ "settle_src" \notin Unwinding \cup PreCommit \cup Filled
  BY <1>2 DEF PreCommit, Filled, Unwinding, PostCommit, Working
<1>4. ChunkOf("rel_src", loc[t], chunk[loc[t].chunk], t) /\ Supplied("rel_src", loc[t], store)
  BY <1>2, <1>3 DEF BooksInv, Apart, Stocked, OwnChunk
<1>5. loc[t].src.resource \in Claims(t)
  BY <1>3 DEF Claims, ClaimsAt
<1>6. /\ Staged("settle_src", loc[t]) = Staged(pc[t], loc[t])
      /\ Worked("settle_src", loc[t]) = Worked(pc[t], loc[t])
  BY <1>3, NothingBooked
<1>7. ChunkOf("settle_src", loc[t], chunk[loc[t].chunk], t)
  BY <1>2, <1>3, <1>4 DEF ChunkOf
<1>8. TokensAt("settle_src", loc[t])
  BY <1>4 DEF Supplied, TokensAt, Tokenless, PostCommit, First, Second, Third
<1>9. AllocationsAt("settle_src", loc[t])
  BY DEF AllocationsAt, First, Second, Unreserved, Verified
<1>10. Supplied("settle_src", loc[t], store)
  BY <1>8, <1>9 DEF Supplied, Receipt
<1>11. QED
  BY <1>1, <1>2, <1>3, <1>5, <1>6, <1>7, <1>10, ReleaseBooks

LEMMA RollbackReleaseBooks ==
  ASSUME TransactionInv, BooksInv, NEW t \in Threads, RollbackRelease(t)
  PROVE  BooksInv'
<1>1. TransactionInv' /\ Steady(t)
  BY RollbackReleaseStep
<1>2. /\ pc[t] = "rollback" /\ loc[t].todo # <<>>
      /\ ReleaseResource(t, Head(loc[t].todo).id, "settle")
  BY DEF RollbackRelease
<1>3. /\ pc[t] \in Unwinding /\ pc[t] \in Working /\ "settle" \in Unwinding
      /\ "settle" \in Working \ {"reconcile"} /\ "settle" \notin PreCommit \cup PostCommit
      /\ pc[t] \notin PreCommit \cup PostCommit
  BY <1>2 DEF PreCommit, Filled, Unwinding, PostCommit, Working
<1>4. ChunkOf("settle", loc[t], chunk[loc[t].chunk], t)
  BY <1>2, <1>3 DEF BooksInv, Apart, OwnChunk, ChunkOf
<1>5. /\ Supplied("settle", loc[t], store)
      /\ Staged("settle", loc[t]) = Staged(pc[t], loc[t])
      /\ Worked("settle", loc[t]) = Worked(pc[t], loc[t])
  BY <1>3, UndoSupplied
<1>6. Head(loc[t].todo).id \in Claims(t) \cup {None}
  <2>1. PlacedAt(pc[t], loc[t]) /\ loc[t] \in Locals
    BY <1>3, WorkFacts DEF TransactionInv, Threaded, ThreadInv
  <2>2. PICK s \in Seq(Items) : s = loc[t].todo
    BY <2>1 DEF Locals
  <2>3. \A i \in 1 .. Len(s) : s[i].id \in OwnIds(loc[t])
    BY <1>3, <2>1, <2>2 DEF PlacedAt
  <2>4. Head(s) = s[1] /\ 1 \in 1 .. Len(s)
    BY <1>2, <2>2
  <2>5. QED
    BY <1>3, <2>2, <2>3, <2>4 DEF OwnIds, Claims, ClaimsAt
<1>7. QED
  BY <1>1, <1>2, <1>3, <1>4, <1>5, <1>6, ReleaseBooks

(***************************************************************************)
(* Settling a release                                                      *)
(***************************************************************************)
\* The ledger never refuses to give back what a thread has booked.
LEMMA BucketCovered ==
  ASSUME TransactionInv, BooksInv, NEW t \in Threads, pc[t] \in Working,
         NEW b \in Buckets, NEW n \in Word,
         b = "staging" => n <= Staged(pc[t], loc[t]),
         b = "workspace" => n <= Worked(pc[t], loc[t])
  PROVE  /\ ReleaseMaterializedOk(ledger, DestTier(t), b, n)
         /\ MoveToDebtOk(ledger, DestTier(t), b, n)
<1>1. Typed /\ DestTier(t) \in Tiers /\ loc[t] \in Locals
  BY WorkFacts DEF Working
<1>2. PICK u \in Tiers : u = DestTier(t)
  BY <1>1
<1>3. PICK x \in Nat, y \in Nat : x = Staged(pc[t], loc[t]) /\ y = Worked(pc[t], loc[t])
  BY <1>1, LocalShares
<1>4. StagingOf(t, u) = x /\ WorkspaceOf(t, u) = y
  BY <1>2, <1>3 DEF StagingOf, WorkspaceOf, Part, DestTier
<1>5. /\ StagingOf(t, u) <= ledger[u].staging /\ WorkspaceOf(t, u) <= ledger[u].workspace
      /\ Total(ledger[u]) <= MaxWord /\ MaxWord \in Nat
  BY <1>1, Covered DEF BooksInv
<1>6. PICK x1 \in Nat, x2 \in Nat, x3 \in Nat, x4 \in Nat, x5 \in Nat :
         /\ x1 = ledger[u].reserved /\ x2 = ledger[u].staging /\ x3 = ledger[u].workspace
         /\ x4 = ledger[u].committed /\ x5 = ledger[u].cleanup_debt
  BY <1>1, CountersNat DEF Typed, GoodLedger
<1>7. x <= x2 /\ y <= x3 /\ x4 + x1 + x2 + x3 + x5 <= MaxWord
  BY <1>4, <1>5, <1>6 DEF Total
<1>8. PICK m \in Nat : m = n
  BY WordFacts
<1>9. (b = "staging" => m <= x2) /\ (b = "workspace" => m <= x3)
  BY <1>3, <1>7, <1>8
<1>10. b \in {"staging", "workspace"}
  BY DEF Buckets
<1>11. m <= InBucket(ledger[u], b)
  BY <1>6, <1>9, <1>10 DEF InBucket
<1>12. x5 + m <= MaxWord
  BY <1>5, <1>7, <1>9, <1>10
<1>13. QED
  BY <1>2, <1>6, <1>8, <1>11, <1>12 DEF ReleaseMaterializedOk, MoveToDebtOk, Fits

\* What was released leaves its bucket.
LEMMA PaidBooks ==
  ASSUME TransactionInv, TransactionInv', BooksInv, NEW t \in Threads, pc[t] \in Working, Steady(t),
         UNCHANGED <<store, chunk>>, NEW b \in Buckets, NEW n \in Word,
         ledger' = ReleaseMaterialized(ledger, DestTier(t), b, n),
         NEW p \in Working, NEW l, Goto(t, p, l),
         l.dest = loc[t].dest, l.chunk = loc[t].chunk, l.toks = loc[t].toks,
         ChunkOf(p, l, chunk[loc[t].chunk], t), Supplied(p, l, store),
         Staged(p, l) = Staged(pc[t], loc[t]) + Part(b, "staging", -n),
         Worked(p, l) = Worked(pc[t], loc[t]) + Part(b, "workspace", -n)
  PROVE  BooksInv'
<1>1. /\ Typed /\ loc[t] \in Locals /\ loc[t].chunk \in Chunks /\ DestTier(t) \in Tiers
      /\ chunk \in [Chunks -> ChunkRecords]
  BY WorkFacts DEF Working, Typed
<1>2. pc'[t] = p /\ loc'[t] = l
  BY <1>1, GotoOthers
<1>3. Quiet(t)
  BY <1>1, SameQuiet
<1>4. PICK c \in Chunks : c = loc[t].chunk
  BY <1>1
<1>5. PICK ch : /\ ch = chunk[c] /\ chunk'[c] = ch /\ \A d \in Chunks \ {c} : chunk'[d] = chunk[d]
  OBVIOUS
<1>6. PICK m \in Nat : m = n
  BY WordFacts
<1>7. PICK s \in Int, w \in Int, z \in Int :
        /\ s = Part(b, "staging", -n) /\ w = Part(b, "workspace", -n) /\ z = 0
        /\ s <= 0 /\ w <= 0
  BY <1>6 DEF Part
<1>8. z + s + w + z <= 0
  BY <1>7
<1>9. ASSUME NEW u \in Tiers
      PROVE  /\ Reserved(l, u) = Reserved(loc[t], u) + Part(DestTier(t), u, z)
             /\ Owed(ch, u) = Owed(chunk[c], u) + Part(DestTier(t), u, z)
             /\ Booked(ledger[u], ledger'[u], Part(DestTier(t), u, z), Part(DestTier(t), u, s),
                       Part(DestTier(t), u, w), 0, Part(DestTier(t), u, z))
  <2>1. Part(DestTier(t), u, z) = 0
    BY <1>7 DEF Part
  <2>2. Reserved(l, u) = Reserved(loc[t], u)
    BY DEF Reserved
  <2>3. PICK q \in Nat, e \in Nat : q = Reserved(loc[t], u) /\ e = Owed(chunk[c], u)
    BY <1>1, LocalShares, ChunkShares
  <2>4. ledger \in Ledgers
    BY <1>1 DEF Typed, GoodLedger
  <2>5. Booked(ledger[u], ledger'[u], 0, Part(DestTier(t), u, s), Part(DestTier(t), u, w), 0, 0)
    BY <1>1, <1>7, <2>4, MovesBook
  <2>6. QED
    BY <1>5, <2>1, <2>2, <2>3, <2>5
<1>10. l.chunk = c /\ ChunkOf(p, l, ch, t) /\ Supplied(p, l, store')
  BY <1>4, <1>5
<1>11. /\ Staged(p, l) = Staged(pc[t], loc[t]) + s /\ Worked(p, l) = Worked(pc[t], loc[t]) + w
  BY <1>7
<1>12. Stays(t, c, p, l, ch, z, s, w, z)
  BY <1>2, <1>3, <1>4, <1>5, <1>7, <1>8, <1>9, <1>10, <1>11 DEF Stays
<1>13. QED
  BY <1>12, StaysBooks

\* What was not becomes debt of the chunk, which has room for it.
LEMMA OwedBooks ==
  ASSUME TransactionInv, TransactionInv', BooksInv, NEW t \in Threads, pc[t] \in Working, Steady(t),
         UNCHANGED store, NEW b \in Buckets, NEW n \in Word,
         ledger' = MoveToDebt(ledger, DestTier(t), b, n),
         NEW a, a.charge = n, HasRoom(chunk[loc[t].chunk]),
         NEW ch, ch.cleanup = RememberCleanup(chunk[loc[t].chunk], t, Debt(t, a)).cleanup,
         chunk' = [chunk EXCEPT ![loc[t].chunk] = ch],
         NEW p \in Working, NEW l, Goto(t, p, l),
         l.dest = loc[t].dest, l.chunk = loc[t].chunk, l.toks = loc[t].toks,
         ChunkOf(p, l, ch, t), Supplied(p, l, store),
         Staged(p, l) = Staged(pc[t], loc[t]) + Part(b, "staging", -n),
         Worked(p, l) = Worked(pc[t], loc[t]) + Part(b, "workspace", -n)
  PROVE  BooksInv'
<1>1. /\ Typed /\ loc[t] \in Locals /\ loc[t].chunk \in Chunks /\ DestTier(t) \in Tiers
      /\ chunk \in [Chunks -> ChunkRecords]
  BY WorkFacts DEF Working, Typed
<1>2. pc'[t] = p /\ loc'[t] = l
  BY <1>1, GotoOthers
<1>3. Quiet(t)
  BY <1>1, SameQuiet
<1>4. PICK c \in Chunks : c = loc[t].chunk
  BY <1>1
<1>5. chunk'[c] = ch /\ \A d \in Chunks \ {c} : chunk'[d] = chunk[d]
  BY <1>1, <1>4
<1>6. PICK m \in Nat : m = n
  BY WordFacts
<1>7. PICK s \in Int, w \in Int, z \in Int :
        /\ s = Part(b, "staging", -n) /\ w = Part(b, "workspace", -n) /\ z = 0
        /\ s + w = -m
  BY <1>6 DEF Part, Buckets
<1>8. z + s + w + m <= 0
  BY <1>6, <1>7
<1>9. ASSUME NEW u \in Tiers PROVE Owed(ch, u) = Owed(chunk[c], u) + Part(DestTier(t), u, m)
  <2>1. PICK k \in ChunkRecords : k = chunk[c] /\ HasRoom(k)
    BY <1>1, <1>4
  <2>2. ch.cleanup = RememberCleanup(k, t, Debt(t, a)).cleanup /\ a.charge = m
    BY <1>4, <1>6, <2>1
  <2>3. QED
    BY <2>1, <2>2, DebtOwed
<1>10. ASSUME NEW u \in Tiers
       PROVE  /\ Reserved(l, u) = Reserved(loc[t], u) + Part(DestTier(t), u, z)
              /\ Booked(ledger[u], ledger'[u], Part(DestTier(t), u, z), Part(DestTier(t), u, s),
                        Part(DestTier(t), u, w), 0, Part(DestTier(t), u, m))
  <2>1. Part(DestTier(t), u, z) = 0
    BY <1>7 DEF Part
  <2>2. Reserved(l, u) = Reserved(loc[t], u)
    BY DEF Reserved
  <2>3. PICK q \in Nat : q = Reserved(loc[t], u)
    BY <1>1, LocalShares
  <2>4. ledger \in Ledgers
    BY <1>1 DEF Typed, GoodLedger
  <2>5. Booked(ledger[u], ledger'[u], 0, Part(DestTier(t), u, s), Part(DestTier(t), u, w), 0,
               Part(DestTier(t), u, m))
    BY <1>1, <1>6, <1>7, <2>4, MovesBook
  <2>6. QED
    BY <2>1, <2>2, <2>3, <2>5
<1>11. l.chunk = c /\ ChunkOf(p, l, ch, t) /\ Supplied(p, l, store') /\ m \in Int
  BY <1>4
<1>12. /\ Staged(p, l) = Staged(pc[t], loc[t]) + s /\ Worked(p, l) = Worked(pc[t], loc[t]) + w
  BY <1>7
<1>13. Stays(t, c, p, l, ch, z, s, w, m)
  BY <1>2, <1>3, <1>4, <1>5, <1>7, <1>8, <1>9, <1>10, <1>11, <1>12 DEF Stays
<1>14. QED
  BY <1>13, StaysBooks

LEMMA SettleCompactionBooks ==
  ASSUME TransactionInv, BooksInv, NEW t \in Threads, SettleCompaction(t)
  PROVE  BooksInv'
<1>1. TransactionInv' /\ Steady(t)
  BY SettleCompactionStep
<1>2. /\ pc[t] = "settle_comp" /\ UNCHANGED store /\ pc[t] \in PreCommit /\ pc[t] \in Filled
      /\ pc[t] \notin Unwinding \cup PostCommit
      /\ "verify" \in Working /\ "verify" \in Filled /\ "verify" \notin Unwinding \cup PostCommit
      /\ "rollback" \in Unwinding
  BY DEF SettleCompaction, PreCommit, Filled, Unwinding, PostCommit, Working
<1>3. /\ Typed /\ loc[t] \in Locals /\ loc[t].chunk \in Chunks /\ pc[t] \in Working
      /\ chunk[loc[t].chunk] \in ChunkRecords /\ loc[t].comp \in Allocations
      /\ chunk[loc[t].chunk].cleanup = <<>> /\ chunk[loc[t].chunk].txn = t
      /\ TokensAt("settle_comp", loc[t])
      /\ loc[t].dst.charge \in Word /\ loc[t].ws.charge \in Word /\ loc[t].comp.charge \in Word
  BY <1>2, PreFacts, FilledFacts
<1>4. PICK x \in Nat, y \in Nat, n \in Word :
        x = loc[t].dst.charge /\ y = loc[t].ws.charge /\ n = loc[t].comp.charge
  BY <1>3, WordFacts
<1>5. n \in Nat /\ "workspace" \in Buckets
  BY WordFacts DEF Buckets
<1>6. Staged(pc[t], loc[t]) = x /\ Worked(pc[t], loc[t]) = y + n
  BY <1>2, <1>4 DEF Staged, Worked
<1>7. /\ Part("workspace", "staging", -n) = 0 /\ Part("workspace", "workspace", -n) = -n
      /\ x = x + 0 /\ y = y + n + (-n) /\ n <= y + n
  BY <1>5 DEF Part
<1>8. /\ ReleaseMaterializedOk(ledger, DestTier(t), "workspace", n)
      /\ MoveToDebtOk(ledger, DestTier(t), "workspace", n)
  BY <1>3, <1>5, <1>6, <1>7, BucketCovered
<1>9. CASE loc[t].released = "ok"
  <2>1. PICK l : l = [loc[t] EXCEPT !.comp = NoAlloc]
    OBVIOUS
  <2>2. /\ ledger' = ReleaseMaterialized(ledger, DestTier(t), "workspace", n)
        /\ Goto(t, "verify", l) /\ UNCHANGED chunk
    BY <1>4, <1>8, <1>9, <2>1 DEF SettleCompaction
  <2>3. /\ l.dest = loc[t].dest /\ l.chunk = loc[t].chunk /\ l.toks = loc[t].toks
        /\ l.dst = loc[t].dst /\ l.ws = loc[t].ws /\ l.comp = NoAlloc
    BY <1>3, <2>1 DEF Locals
  <2>4. Staged("verify", l) = x /\ Worked("verify", l) = y
    BY <1>2, <1>4, <2>3 DEF Staged, Worked, NoAlloc
  <2>5. TokensAt("verify", l)
    BY <1>3, <2>3 DEF TokensAt, Tokenless, Moving, First, Second, Third
  <2>6. AllocationsAt("verify", l)
    BY <2>3 DEF AllocationsAt, First, Second, Unreserved, Verified
  <2>7. Supplied("verify", l, store)
    BY <2>5, <2>6 DEF Supplied, Receipt
  <2>8. ChunkOf("verify", l, chunk[loc[t].chunk], t)
    BY <1>2, <1>3 DEF ChunkOf
  <2>9. /\ Staged("verify", l) = Staged(pc[t], loc[t]) + Part("workspace", "staging", -n)
        /\ Worked("verify", l) = Worked(pc[t], loc[t]) + Part("workspace", "workspace", -n)
    BY <1>6, <1>7, <2>4
  <2>10. QED
    BY <1>1, <1>2, <1>3, <1>5, <2>2, <2>3, <2>7, <2>8, <2>9, PaidBooks
<1>10. CASE loc[t].released # "ok"
  <2>1. PICK lied : lied = (loc[t].released = "lie")
    OBVIOUS
  <2>2. PICK a, ch : a = loc[t].comp /\ ch = RememberCleanup(chunk[loc[t].chunk], t, Debt(t, a))
    OBVIOUS
  <2>3. PICK e, u, v, keep :
          /\ keep = FALSE /\ u = Item(loc[t].ws, "workspace", keep)
          /\ v = Item(loc[t].dst, "staging", lied) /\ e = IF lied THEN "poison" ELSE "clear"
    OBVIOUS
  <2>4. PICK l : l = [loc[t] EXCEPT !.todo = <<u, v>>, !.ending = e]
    OBVIOUS
  <2>5. Len(chunk[loc[t].chunk].cleanup) < CleanupSlots
    BY <1>3 DEF CleanupSlots
  <2>6. /\ ledger' = MoveToDebt(ledger, DestTier(t), "workspace", n)
        /\ chunk' = [chunk EXCEPT ![loc[t].chunk] = ch]
        /\ Goto(t, "rollback", l)
    BY <1>4, <1>8, <1>10, <2>1, <2>2, <2>3, <2>4, <2>5 DEF SettleCompaction, RollBack
  <2>7. /\ l.dest = loc[t].dest /\ l.chunk = loc[t].chunk /\ l.toks = loc[t].toks
        /\ l.todo = <<u, v>>
    BY <1>3, <2>4 DEF Locals
  <2>8. /\ ToUndo(l, "staging") = loc[t].dst.charge
        /\ ToUndo(l, "workspace") = loc[t].ws.charge
        /\ Len(l.todo) = 2
    <3>1. PICK s : s = l.todo
      OBVIOUS
    <3>2. Len(s) = 2 /\ s[1] = u /\ s[2] = v
      BY <2>7, <3>1, PlainLists
    <3>3. /\ Len(l.todo) = 2 /\ l.todo[2] = Item(loc[t].dst, "staging", lied)
          /\ l.todo[1] = Item(loc[t].ws, "workspace", keep)
      BY <2>3, <3>1, <3>2
    <3>4. QED
      BY <1>3, <3>3, BothItems
  <2>9. /\ Supplied("rollback", l, store) /\ "rollback" \in Working
        /\ Staged("rollback", l) = x /\ Worked("rollback", l) = y
    BY <1>2, <1>4, <2>8, UndoSupplied
  <2>10. a.charge = n /\ a.charge \in Nat /\ Len(l.todo) \in {0, 1, 2}
    BY <1>4, <1>5, <2>2, <2>8
  <2>11. HasRoom(chunk[loc[t].chunk]) /\ ChunkOf("rollback", l, ch, t)
    <3>1. Len(chunk[loc[t].chunk].cleanup) = 0
      BY <1>3
    <3>2. QED
      BY <1>3, <2>2, <2>10, <3>1, FirstDebt
  <2>12. /\ Staged("rollback", l) = Staged(pc[t], loc[t]) + Part("workspace", "staging", -n)
         /\ Worked("rollback", l) = Worked(pc[t], loc[t]) + Part("workspace", "workspace", -n)
    BY <1>6, <1>7, <2>9
  <2>13. ch.cleanup = RememberCleanup(chunk[loc[t].chunk], t, Debt(t, a)).cleanup
    BY <2>2
  <2>14. QED
    BY <1>1, <1>2, <1>3, <1>5, <2>6, <2>7, <2>9, <2>10, <2>11, <2>12, <2>13, OwedBooks
<1>11. QED
  BY <1>9, <1>10

LEMMA VerifyTransferBooks ==
  ASSUME TransactionInv, BooksInv, NEW t \in Threads, VerifyTransfer(t)
  PROVE  BooksInv'
<1>1. TransactionInv' /\ Steady(t)
  BY VerifyTransferStep
<1>2. /\ pc[t] = "verify" /\ UNCHANGED <<ledger, store, chunk>> /\ pc[t] \in PreCommit
      /\ pc[t] \in Filled /\ pc[t] \notin Unwinding
      /\ {"commit", "rel_ws"} \subseteq PreCommit \cap Filled
      /\ {"commit", "rel_ws"} \cap Unwinding = {}
  BY DEF VerifyTransfer, PreCommit, Filled, Unwinding
<1>3. /\ Typed /\ loc[t] \in Locals /\ TokensAt("verify", loc[t]) /\ AllocationsAt("verify", loc[t])
      /\ loc[t].dst.charge \in Word /\ loc[t].ws.charge \in Word
  BY <1>2, PreFacts
<1>4. loc[t].comp = NoAlloc
  BY <1>3 DEF AllocationsAt
<1>5. PICK x \in Nat, y \in Nat : x = loc[t].dst.charge /\ y = loc[t].ws.charge
  BY <1>3, WordFacts
<1>6. Staged(pc[t], loc[t]) = x /\ Worked(pc[t], loc[t]) = y
  BY <1>2, <1>4, <1>5 DEF Staged, Worked, NoAlloc
<1>7. ASSUME Goto(t, IF loc[t].ws = NoAlloc THEN "commit" ELSE "rel_ws", loc[t])
      PROVE  BooksInv'
  <2>1. PICK p \in {"commit", "rel_ws"} : p = IF loc[t].ws = NoAlloc THEN "commit" ELSE "rel_ws"
    OBVIOUS
  <2>2. PICK l : l = loc[t]
    OBVIOUS
  <2>3. Goto(t, p, l)
    BY <1>7, <2>1, <2>2
  <2>4. pc'[t] = p /\ loc'[t] = l
    BY <1>3, <2>3, GotoOthers
  <2>5. TokensAt(p, l)
    BY <1>3, <2>1, <2>2 DEF TokensAt, Tokenless, Verified, First, Second, Third
  <2>6. AllocationsAt(p, l)
    BY <1>4, <2>1, <2>2 DEF AllocationsAt, First, Second, Unreserved, Verified
  <2>7. Supplied(p, l, store')
    BY <2>1, <2>5, <2>6 DEF Supplied, Receipt
  <2>8. Staged(p, l) = x /\ Worked(p, l) = y
    BY <1>2, <1>4, <1>5, <2>1, <2>2 DEF Staged, Worked, NoAlloc
  <2>9. Quiet(t) /\ p \in PreCommit
    BY <1>2, <1>3, <2>1, SameQuiet
  <2>10. QED
    BY <1>1, <1>2, <1>6, <2>2, <2>4, <2>7, <2>8, <2>9, OnwardBooks
<1>8. ASSUME NEW poison, NEW ending,
             RollBack(t, WorkspaceItem(t) \o <<Item(loc[t].dst, "staging", poison)>>, ending)
      PROVE  BooksInv'
  BY <1>1, <1>2, <1>5, <1>6, <1>8, GiveUpBooks
<1>9. QED
  BY <1>7, <1>8 DEF VerifyTransfer

LEMMA SettleWorkspaceBooks ==
  ASSUME TransactionInv, BooksInv, NEW t \in Threads, SettleWorkspace(t)
  PROVE  BooksInv'
<1>1. TransactionInv' /\ Steady(t)
  BY SettleWorkspaceStep
<1>2. /\ pc[t] = "settle_ws" /\ UNCHANGED store /\ pc[t] \in PreCommit /\ pc[t] \in Filled
      /\ pc[t] \in Verified /\ pc[t] \notin Unwinding \cup PostCommit
      /\ "commit" \in Working /\ "commit" \in Filled /\ "commit" \notin Unwinding \cup PostCommit
      /\ "rollback" \in Unwinding
  BY DEF SettleWorkspace, PreCommit, Filled, Unwinding, PostCommit, Working, Verified
<1>3. /\ Typed /\ loc[t] \in Locals /\ loc[t].chunk \in Chunks /\ pc[t] \in Working
      /\ chunk[loc[t].chunk] \in ChunkRecords
      /\ chunk[loc[t].chunk].cleanup = <<>> /\ chunk[loc[t].chunk].txn = t
      /\ TokensAt("settle_ws", loc[t]) /\ AllocationsAt("settle_ws", loc[t])
      /\ loc[t].dst.charge \in Word /\ loc[t].ws.charge \in Word
  BY <1>2, PreFacts
<1>4. PICK x \in Nat, n \in Word : x = loc[t].dst.charge /\ n = loc[t].ws.charge
  BY <1>3, WordFacts
<1>5. n \in Nat /\ "workspace" \in Buckets
  BY WordFacts DEF Buckets
<1>6. loc[t].comp = NoAlloc
  BY <1>3 DEF AllocationsAt, Verified
<1>7. Staged(pc[t], loc[t]) = x /\ Worked(pc[t], loc[t]) = n
  BY <1>2, <1>4, <1>5, <1>6 DEF Staged, Worked, NoAlloc
<1>8. /\ Part("workspace", "staging", -n) = 0 /\ Part("workspace", "workspace", -n) = -n
      /\ x = x + 0 /\ 0 = n + (-n) /\ n <= n
  BY <1>5 DEF Part
<1>9. /\ ReleaseMaterializedOk(ledger, DestTier(t), "workspace", n)
      /\ MoveToDebtOk(ledger, DestTier(t), "workspace", n)
  BY <1>3, <1>5, <1>7, <1>8, BucketCovered
<1>10. CASE loc[t].released = "ok"
  <2>1. PICK l : l = [loc[t] EXCEPT !.ws = NoAlloc]
    OBVIOUS
  <2>2. /\ ledger' = ReleaseMaterialized(ledger, DestTier(t), "workspace", n)
        /\ Goto(t, "commit", l) /\ UNCHANGED chunk
    BY <1>4, <1>9, <1>10, <2>1 DEF SettleWorkspace
  <2>3. /\ l.dest = loc[t].dest /\ l.chunk = loc[t].chunk /\ l.toks = loc[t].toks
        /\ l.dst = loc[t].dst /\ l.ws = NoAlloc /\ l.comp = NoAlloc
    BY <1>3, <1>6, <2>1 DEF Locals
  <2>4. Staged("commit", l) = x /\ Worked("commit", l) = 0
    BY <1>2, <1>4, <2>3 DEF Staged, Worked, NoAlloc
  <2>5. TokensAt("commit", l)
    BY <1>3, <2>3 DEF TokensAt, Tokenless, Verified, First, Second, Third
  <2>6. AllocationsAt("commit", l)
    BY <2>3 DEF AllocationsAt, First, Second, Unreserved, Verified
  <2>7. Supplied("commit", l, store)
    BY <2>5, <2>6 DEF Supplied, Receipt
  <2>8. ChunkOf("commit", l, chunk[loc[t].chunk], t)
    BY <1>2, <1>3 DEF ChunkOf
  <2>9. /\ Staged("commit", l) = Staged(pc[t], loc[t]) + Part("workspace", "staging", -n)
        /\ Worked("commit", l) = Worked(pc[t], loc[t]) + Part("workspace", "workspace", -n)
    BY <1>7, <1>8, <2>4
  <2>10. QED
    BY <1>1, <1>2, <1>3, <1>5, <2>2, <2>3, <2>7, <2>8, <2>9, PaidBooks
<1>11. CASE loc[t].released # "ok"
  <2>1. PICK lied : lied = (loc[t].released = "lie")
    OBVIOUS
  <2>2. PICK a, ch : a = loc[t].ws /\ ch = RememberCleanup(chunk[loc[t].chunk], t, Debt(t, a))
    OBVIOUS
  <2>3. PICK e, todo : /\ todo = <<Item(loc[t].dst, "staging", lied)>>
                       /\ e = IF lied THEN "poison" ELSE "clear"
    OBVIOUS
  <2>4. PICK l : l = [loc[t] EXCEPT !.todo = todo, !.ending = e]
    OBVIOUS
  <2>5. /\ ledger' = MoveToDebt(ledger, DestTier(t), "workspace", n)
        /\ chunk' = [chunk EXCEPT ![loc[t].chunk] = ch]
        /\ Goto(t, "rollback", l)
    BY <1>4, <1>9, <1>11, <2>1, <2>2, <2>3, <2>4 DEF SettleWorkspace, RollBack
  <2>6. /\ l.dest = loc[t].dest /\ l.chunk = loc[t].chunk /\ l.toks = loc[t].toks
        /\ l.todo = todo
    BY <1>3, <2>4 DEF Locals
  <2>7. /\ ToUndo(l, "staging") = loc[t].dst.charge /\ ToUndo(l, "workspace") = 0
        /\ Len(l.todo) = 1
    BY <1>3, <2>3, <2>6, RollbackLists
  <2>8. /\ Supplied("rollback", l, store) /\ "rollback" \in Working
        /\ Staged("rollback", l) = x /\ Worked("rollback", l) = 0
    BY <1>2, <1>4, <2>7, UndoSupplied
  <2>9. a.charge = n /\ a.charge \in Nat /\ Len(l.todo) \in {0, 1, 2}
    BY <1>4, <1>5, <2>2, <2>7
  <2>10. HasRoom(chunk[loc[t].chunk]) /\ ChunkOf("rollback", l, ch, t)
    <3>1. Len(chunk[loc[t].chunk].cleanup) = 0
      BY <1>3
    <3>2. QED
      BY <1>3, <2>2, <2>9, <3>1, FirstDebt
  <2>11. /\ Staged("rollback", l) = Staged(pc[t], loc[t]) + Part("workspace", "staging", -n)
         /\ Worked("rollback", l) = Worked(pc[t], loc[t]) + Part("workspace", "workspace", -n)
    BY <1>7, <1>8, <2>8
  <2>12. ch.cleanup = RememberCleanup(chunk[loc[t].chunk], t, Debt(t, a)).cleanup
    BY <2>2
  <2>13. QED
    BY <1>1, <1>2, <1>3, <1>5, <2>5, <2>6, <2>8, <2>9, <2>10, <2>11, <2>12, OwedBooks
<1>12. QED
  BY <1>10, <1>11

(***************************************************************************)
(* The commit and the end                                                  *)
(***************************************************************************)
OwesSource(d, l) == d.cleanup = <<SourceOwed(l)>>

LEMMA EmptyOwes ==
  ASSUME NEW d, NEW u
  PROVE  Len(d.cleanup) = 0 => Owed(d, u) = 0
<1>1. PICK n : n = Len(d.cleanup)
  OBVIOUS
<1>2. /\ OwedAt(d, 1, u) = IF 1 <= n THEN OwedAt(d, 1, u) ELSE 0
      /\ OwedAt(d, 2, u) = IF 2 <= n THEN OwedAt(d, 2, u) ELSE 0
      /\ OwedAt(d, 3, u) = IF 3 <= n THEN OwedAt(d, 3, u) ELSE 0
  BY <1>1 DEF OwedAt
<1>3. n = 0 => OwedAt(d, 1, u) = 0 /\ OwedAt(d, 2, u) = 0 /\ OwedAt(d, 3, u) = 0
  BY <1>2
<1>4. QED
  BY <1>1, <1>3 DEF Owed

LEMMA SourceDebt ==
  ASSUME NEW l, NEW d, OwesSource(d, l), NEW n \in Nat, l.src.charge = n, NEW u
  PROVE  /\ Owed(d, u) = Part(TierOf(l.src.state), u, n)
         /\ Len(d.cleanup) = 1 /\ d.cleanup[1].id = l.src.resource
<1>1. PICK s, e : s = d.cleanup /\ e = SourceOwed(l)
  OBVIOUS
<1>2. Len(s) = 1 /\ s[1] = e
  BY <1>1, PlainLists DEF OwesSource
<1>3. PICK y : y = TierOf(l.src.state)
  OBVIOUS
<1>4. e.tier = y /\ e.charge = n /\ e.id = l.src.resource
  BY <1>1, <1>3 DEF SourceOwed
<1>5. /\ OwedAt(d, 1, u) = Part(y, u, n) /\ OwedAt(d, 2, u) = 0 /\ OwedAt(d, 3, u) = 0
  BY <1>1, <1>2, <1>4 DEF OwedAt, Part
<1>6. Part(y, u, n) \in Nat
  BY DEF Part
<1>7. Owed(d, u) = Part(y, u, n)
  BY <1>5, <1>6 DEF Owed
<1>8. QED
  BY <1>1, <1>2, <1>3, <1>4, <1>7

\* The authority swings: the charge of the destination is committed, and that of the source
\* becomes the only debt of the chunk.
LEMMA SwungBooks ==
  ASSUME TransactionInv, TransactionInv', BooksInv, NEW t \in Threads, pc[t] = "commit",
         Others(t), UNCHANGED store, NEW c \in Chunks, c = loc[t].chunk,
         ledger' = CommitAndRetire(ledger, DestTier(t), loc[t].dst.charge, SrcTier(t), loc[t].src.charge),
         NEW d, chunk' = [chunk EXCEPT ![c] = d],
         OwesSource(d, loc[t]),
         d.auth.state = loc[t].dest, d.auth.charge = loc[t].dst.charge,
         pc'[t] = "rel_src", loc'[t] = loc[t]
  PROVE  BooksInv'
<1>1. /\ pc[t] \in PreCommit /\ pc[t] \in Filled /\ pc[t] \notin Unwinding
      /\ "rel_src" \in PostCommit /\ "rel_src" \notin Filled \cup Unwinding \cup PreCommit
  BY DEF PreCommit, Filled, Unwinding, PostCommit
<1>2. /\ Typed /\ Typed' /\ loc[t] \in Locals /\ pc[t] \in Working /\ chunk[c] \in ChunkRecords
      /\ chunk \in [Chunks -> ChunkRecords]
      /\ chunk[c].cleanup = <<>> /\ TokensAt("commit", loc[t]) /\ AllocationsAt("commit", loc[t])
      /\ loc[t].dst.charge \in Word /\ DestTier(t) \in Tiers
  BY <1>1, PreFacts DEF TransactionInv
<1>3. loc[t].src = chunk[c].auth /\ loc[t].src \in Authorities /\ loc[t].src.charge \in Word
      /\ SrcTier(t) \in Tiers
  <2>1. loc[t].src = chunk[c].auth
    BY <1>1 DEF TransactionInv, Threaded, ThreadInv, Transacting, OwnChunk
  <2>2. chunk[c].auth \in Authorities
    BY <1>2 DEF ChunkRecords
  <2>3. QED
    BY <2>1, <2>2, TiersTyped DEF Authorities, SrcTier
<1>4. PICK m \in Nat, n \in Nat : m = loc[t].dst.charge /\ n = loc[t].src.charge
  BY <1>2, <1>3, WordFacts
<1>5. PICK x \in Tiers, y \in Tiers : x = DestTier(t) /\ y = SrcTier(t)
  BY <1>2, <1>3
<1>6. loc[t].ws = NoAlloc /\ loc[t].comp = NoAlloc
  BY <1>2 DEF AllocationsAt, Verified
<1>7. Staged(pc[t], loc[t]) = m /\ Worked(pc[t], loc[t]) = 0
  BY <1>1, <1>4, <1>6 DEF Staged, Worked, NoAlloc
<1>8. Staged(pc'[t], loc'[t]) = 0 /\ Worked(pc'[t], loc'[t]) = 0
  BY <1>1, NothingBooked
<1>9. chunk'[c] = d /\ \A e \in Chunks \ {c} : chunk'[e] = chunk[e]
  BY <1>2
<1>10. \A i \in 1 .. 3 : loc[t].toks[i] = InactiveToken
  BY <1>2 DEF TokensAt, Tokenless, Verified
<1>11. ASSUME NEW u \in Tiers
       PROVE  Follows(t, c, u) /\ Total(ledger'[u]) <= HardLimit[u]
  <2>1. Reserved(loc[t], u) = 0
    BY <1>10, NoClaims
  <2>2. ReservedOf(t, u) = 0 /\ ReservedOf(t, u)' = 0
    BY <2>1 DEF ReservedOf
  <2>3. StagingOf(t, u) = Part(x, u, m) /\ StagingOf(t, u)' = 0
    BY <1>5, <1>7, <1>8 DEF StagingOf, DestTier, Part
  <2>4. WorkspaceOf(t, u) = 0 /\ WorkspaceOf(t, u)' = 0
    BY <1>7, <1>8 DEF WorkspaceOf, Part
  <2>5. CommittedOf(c, u) = Part(y, u, n)
    BY <1>3, <1>4, <1>5 DEF CommittedOf, SrcTier
  <2>6. CommittedOf(c, u)' = Part(x, u, m)
    BY <1>4, <1>5, <1>9 DEF CommittedOf, DestTier
  <2>7. DebtOf(c, u) = 0
    BY <1>2, PlainLists DEF DebtOf, Owed, OwedAt
  <2>8. DebtOf(c, u)' = Part(y, u, n)
    <3>1. Owed(d, u) = Part(y, u, n)
      BY <1>4, <1>5, SourceDebt DEF SrcTier
    <3>2. QED
      BY <1>9, <3>1 DEF DebtOf
  <2>9. Booked(ledger[u], ledger'[u], 0, Part(x, u, -m), 0, Part(x, u, m) + Part(y, u, -n), Part(y, u, n))
    <3>1. ledger \in Ledgers /\ loc[t].dst.charge = m /\ loc[t].src.charge = n
          /\ m \in Word /\ n \in Word /\ "staging" \in Buckets
      BY <1>2, <1>3, <1>4 DEF Typed, GoodLedger, Buckets
    <3>2. ledger' = CommitAndRetire(ledger, x, m, y, n)
      BY <1>5, <3>1
    <3>3. QED
      BY <3>1, <3>2, MovesBook
  <2>10. /\ ReservedOf(t, u)' - ReservedOf(t, u) = 0
         /\ StagingOf(t, u)' - StagingOf(t, u) = Part(x, u, -m)
         /\ WorkspaceOf(t, u)' - WorkspaceOf(t, u) = 0
         /\ CommittedOf(c, u)' - CommittedOf(c, u) = Part(x, u, m) + Part(y, u, -n)
         /\ DebtOf(c, u)' - DebtOf(c, u) = Part(y, u, n)
    BY <2>2, <2>3, <2>4, <2>5, <2>6, <2>7, <2>8 DEF Part
  <2>11. Follows(t, c, u)
    BY <2>9, <2>10 DEF Follows
  <2>12. Outlay(t, c, u)' = Part(x, u, m) + Part(y, u, n) /\ Outlay(t, c, u) = Part(x, u, m) + Part(y, u, n)
    BY <2>2, <2>3, <2>4, <2>5, <2>6, <2>7, <2>8 DEF Outlay, Part
  <2>13. Outlay(t, c, u)' <= Outlay(t, c, u)
    BY <2>12 DEF Part
  <2>14. QED
    BY <1>2, <2>11, <2>13, LimitStep DEF BooksInv
<1>12. Quiet(t)
  BY <1>2, SameQuiet
<1>13. ChunkOf(pc'[t], loc'[t], chunk'[c], t)
  BY <1>1, <1>9 DEF ChunkOf, OwesSource
<1>14. Len(chunk'[c].cleanup) <= 3
  <2>1. PICK k : k = Len(d.cleanup) /\ k = 1
    BY <1>4, SourceDebt
  <2>2. k <= 3
    BY <2>1
  <2>3. QED
    BY <1>9, <2>1, <2>2
<1>15. Supplied(pc'[t], loc'[t], store')
  <2>1. TokensAt("rel_src", loc[t])
    BY <1>10 DEF TokensAt, First, Second, Third
  <2>2. AllocationsAt("rel_src", loc[t])
    BY DEF AllocationsAt, First, Second, Unreserved, Verified
  <2>3. QED
    BY <2>1, <2>2 DEF Supplied, Receipt
<1>16. QED
  BY <1>2, <1>9, <1>11, <1>12, <1>13, <1>14, <1>15, WorkBooks

LEMMA CommitBooks ==
  ASSUME TransactionInv, BooksInv, NEW t \in Threads, Commit(t)
  PROVE  BooksInv'
<1>1. TransactionInv'
  BY CommitStep
<1>2. pc[t] = "commit" /\ UNCHANGED store /\ pc[t] \in PreCommit /\ pc[t] \in Filled
      /\ pc[t] \notin Unwinding
  BY DEF Commit, PreCommit, Filled, Unwinding
<1>3. /\ Typed /\ loc[t] \in Locals /\ loc[t].chunk \in Chunks /\ AllocationsAt("commit", loc[t])
      /\ chunk \in [Chunks -> ChunkRecords]
      /\ loc[t].dst.charge \in Word
  BY <1>2, PreFacts
<1>4. ASSUME ledger' = CommitAndRetire(ledger, DestTier(t), loc[t].dst.charge, SrcTier(t), loc[t].src.charge),
             chunk' = [chunk EXCEPT
               ![loc[t].chunk].cleanup =
                  <<[id |-> loc[t].src.resource, tier |-> SrcTier(t), charge |-> loc[t].src.charge]>>,
               ![loc[t].chunk].auth =
                  [state |-> loc[t].dest, resource |-> loc[t].dst.id,
                   charge |-> loc[t].dst.charge, content |-> loc[t].src.content]],
             Goto(t, "rel_src", loc[t])
      PROVE  BooksInv'
  <2>1. PICK c \in Chunks : c = loc[t].chunk
    BY <1>3
  <2>2. PICK e, a : /\ e = <<SourceOwed(loc[t])>>
                    /\ a = [state |-> loc[t].dest, resource |-> loc[t].dst.id,
                            charge |-> loc[t].dst.charge, content |-> loc[t].src.content]
    OBVIOUS
  <2>3. PICK d : d = [chunk[c] EXCEPT !.cleanup = e, !.auth = a]
    OBVIOUS
  <2>4. chunk' = [chunk EXCEPT ![c] = d]
    BY <1>3, <1>4, <2>1, <2>2, <2>3 DEF SourceOwed, SrcTier
  <2>5. d.cleanup = e /\ d.auth = a
    BY <1>3, <2>3 DEF ChunkRecords
  <2>6. /\ OwesSource(d, loc[t]) /\ d.auth.state = loc[t].dest
        /\ d.auth.charge = loc[t].dst.charge
    BY <2>2, <2>5 DEF OwesSource
  <2>7. Others(t) /\ pc'[t] = "rel_src" /\ loc'[t] = loc[t]
    BY <1>3, <1>4, GotoOthers
  <2>8. ledger' = CommitAndRetire(ledger, DestTier(t), loc[t].dst.charge, SrcTier(t), loc[t].src.charge)
    BY <1>4
  <2>9. QED
    BY <1>1, <1>2, <2>1, <2>4, <2>6, <2>7, <2>8, SwungBooks
<1>5. ASSUME RollBack(t, <<Item(loc[t].dst, "staging", TRUE)>>, "poison"), UNCHANGED <<ledger, chunk>>
      PROVE  BooksInv'
  <2>1. loc[t].ws = NoAlloc /\ loc[t].comp = NoAlloc
    BY <1>3 DEF AllocationsAt, Verified
  <2>2. PICK x \in Nat : x = loc[t].dst.charge
    BY <1>3, WordFacts
  <2>3. Staged(pc[t], loc[t]) = x /\ Worked(pc[t], loc[t]) = 0
    BY <1>2, <2>1, <2>2 DEF Staged, Worked, NoAlloc
  <2>4. PICK poison, e : poison = TRUE /\ e = "poison"
    OBVIOUS
  <2>5. PICK todo : todo = <<Item(loc[t].dst, "staging", poison)>>
    OBVIOUS
  <2>6. PICK l : l = [loc[t] EXCEPT !.todo = todo, !.ending = e]
    OBVIOUS
  <2>7. Goto(t, "rollback", l)
    BY <1>5, <2>4, <2>5, <2>6 DEF RollBack
  <2>8. /\ l.dest = loc[t].dest /\ l.chunk = loc[t].chunk /\ l.toks = loc[t].toks /\ l.todo = todo
    BY <1>3, <2>6 DEF Locals
  <2>9. /\ ToUndo(l, "staging") = loc[t].dst.charge /\ ToUndo(l, "workspace") = 0
        /\ Len(l.todo) = 1
    BY <1>3, <2>5, <2>8, RollbackLists
  <2>10. Len(l.todo) <= 3 /\ Len(l.todo) \in Nat
    BY <2>9
  <2>11. pc'[t] = "rollback" /\ loc'[t] = l /\ Quiet(t)
    BY <1>2, <1>3, <2>7, GotoOthers, SameQuiet
  <2>12. Steady(t)
    BY <2>11, CommitCases
  <2>13. QED
    BY <1>1, <1>2, <1>5, <2>2, <2>3, <2>8, <2>9, <2>10, <2>11, <2>12, RollBackBooks
<1>6. QED
  BY <1>4, <1>5 DEF Commit

LEMMA ForgetOnly ==
  ASSUME NEW k \in ChunkRecords, NEW id
  PROVE  Len(k.cleanup) = 1 /\ k.cleanup[1].id = id => Len(ForgetCleanup(k, id).cleanup) = 0
<1>1. PICK s : s = k.cleanup
  OBVIOUS
<1>2. SUFFICES ASSUME Len(s) = 1, s[1].id = id
               PROVE  Len(ForgetCleanup(k, id).cleanup) = 0
  BY <1>1
<1> DEFINE n == Len(s)
           hit == {i \in 1 .. n : s[i].id = id}
           i == CHOOSE i \in hit : \A j \in hit : i <= j
           e == [j \in 1 .. n - 1 |-> IF j = i THEN s[n] ELSE s[j]]
<1>3. hit # {}
  BY <1>2
<1>4. ForgetCleanup(k, id) = [k EXCEPT !.cleanup = e]
  BY <1>1, <1>3 DEF ForgetCleanup
<1>5. DOMAIN e = 1 .. 0 /\ e \in [1 .. 0 -> {s}]
  BY <1>2
<1> HIDE DEF e
<1>6. e \in Seq({s}) /\ DOMAIN e = 1 .. 0
  BY <1>5
<1>7. Len(e) = 0
  BY <1>6
<1>8. [k EXCEPT !.cleanup = e].cleanup = e
  BY DEF ChunkRecords
<1>9. QED
  BY <1>4, <1>7, <1>8

LEMMA SettleSourceBooks ==
  ASSUME TransactionInv, BooksInv, NEW t \in Threads, SettleSource(t)
  PROVE  BooksInv'
<1>1. TransactionInv' /\ Steady(t)
  BY SettleSourceStep
<1>2. /\ pc[t] = "settle_src" /\ UNCHANGED store /\ pc[t] \in PostCommit
      /\ pc[t] \notin Filled \cup Unwinding /\ pc[t] \in Working
  BY DEF SettleSource, PostCommit, Filled, Unwinding, Working
<1>3. /\ Typed /\ loc[t] \in Locals /\ loc[t].chunk \in Chunks /\ chunk[loc[t].chunk] \in ChunkRecords
      /\ SrcTier(t) \in Tiers /\ loc[t].src.charge \in Word
      /\ chunk \in [Chunks -> ChunkRecords] /\ ledger \in Ledgers
  BY <1>2, SettledFacts, WorkFacts DEF Typed, GoodLedger
<1>4. PICK c \in Chunks : c = loc[t].chunk
  BY <1>3
<1>5. PICK k \in ChunkRecords : k = chunk[c]
  BY <1>3, <1>4
<1>6. PICK n \in Word : n = loc[t].src.charge
  BY <1>3
<1>7. PICK y \in Tiers : y = SrcTier(t)
  BY <1>3
<1>8. n \in Nat /\ "staging" \in Buckets
  BY WordFacts DEF Buckets
<1>9. OwesSource(k, loc[t])
  BY <1>2, <1>4, <1>5 DEF BooksInv, Apart, OwnChunk, ChunkOf, OwesSource
<1>10. /\ Len(k.cleanup) = 1 /\ k.cleanup[1].id = loc[t].src.resource
       /\ \A u : Owed(k, u) = Part(y, u, n)
  BY <1>6, <1>7, <1>8, <1>9, SourceDebt DEF SrcTier
<1>11. \A u : Reserved(loc[t], u) = 0
  <2>1. TokensAt(pc[t], loc[t])
    BY DEF BooksInv, Stocked, Supplied
  <2>2. \A i \in 1 .. 3 : loc[t].toks[i] = InactiveToken
    BY <1>2, <2>1 DEF TokensAt, Tokenless
  <2>3. QED
    BY <2>2, NoClaims
<1>12. Staged(pc[t], loc[t]) = 0 /\ Worked(pc[t], loc[t]) = 0 /\ Quiet(t)
  BY <1>2, <1>3, NothingBooked, SameQuiet
<1>13. ASSUME NEW d, chunk' = [chunk EXCEPT ![c] = d], NEW ok \in BOOLEAN, Return(t, ok),
              Len(d.cleanup) <= 3,
              \A u \in Tiers : /\ Owed(d, u) <= Owed(k, u)
                               /\ Booked(ledger[u], ledger'[u], 0, 0, 0, 0, Owed(d, u) - Owed(k, u))
       PROVE  BooksInv'
  <2>1. chunk'[c] = d /\ \A e \in Chunks \ {c} : chunk'[e] = chunk[e]
    BY <1>3, <1>13
  <2>2. ASSUME NEW u \in Tiers
        PROVE  /\ Owed(d, u) <= Owed(chunk[c], u)
               /\ Booked(ledger[u], ledger'[u], 0 - Reserved(loc[t], u), 0, 0, 0,
                         Owed(d, u) - Owed(chunk[c], u))
    <3>1. 0 - Reserved(loc[t], u) = 0
      BY <1>11
    <3>2. QED
      BY <1>5, <1>13, <3>1
  <2>3. QED
    BY <1>1, <1>2, <1>4, <1>12, <1>13, <2>1, <2>2, LeaveBooks
<1>14. CASE loc[t].released = "ok" /\ ReleaseCleanupDebtOk(ledger, SrcTier(t), loc[t].src.charge)
  <2>1. PICK g, d : g = ForgetCleanup(k, loc[t].src.resource) /\ d = ClearTransition(g, t)
    OBVIOUS
  <2>2. PICK ok \in BOOLEAN : ok = TRUE
    OBVIOUS
  <2>3. /\ ledger' = ReleaseCleanupDebt(ledger, y, n)
        /\ chunk' = [chunk EXCEPT ![c] = d] /\ Return(t, ok)
    BY <1>4, <1>5, <1>6, <1>7, <1>14, <2>1, <2>2 DEF SettleSource
  <2>4. Len(g.cleanup) = 0 /\ g \in ChunkRecords
    <3>1. Nudged(k, g, t)
      BY <2>1, ForgetNudges
    <3>2. QED
      BY <1>10, <2>1, <3>1, ForgetOnly DEF Nudged
  <2>5. d.cleanup = g.cleanup
    BY <2>1, <2>4, ClearKeeps
  <2>6. Len(d.cleanup) = 0
    BY <2>4, <2>5
  <2>7. Len(d.cleanup) <= 3
    <3>1. PICK m : m = Len(d.cleanup)
      OBVIOUS
    <3>2. m = 0
      BY <2>6, <3>1
    <3>3. m <= 3
      BY <3>2
    <3>4. QED
      BY <3>1, <3>3
  <2>8. ASSUME NEW u \in Tiers
        PROVE  /\ Owed(d, u) <= Owed(k, u)
               /\ Booked(ledger[u], ledger'[u], 0, 0, 0, 0, Owed(d, u) - Owed(k, u))
    <3>1. Owed(d, u) = 0 /\ Owed(k, u) = Part(y, u, n)
      BY <1>10, <2>6, EmptyOwes
    <3>2. 0 <= Part(y, u, n) /\ 0 - Part(y, u, n) = Part(y, u, -n)
      BY <1>8 DEF Part
    <3>3. Booked(ledger[u], ledger'[u], 0, 0, 0, 0, Part(y, u, -n))
      BY <1>3, <1>8, <2>3, MovesBook
    <3>4. QED
      BY <3>1, <3>2, <3>3
  <2>9. QED
    BY <1>13, <2>3, <2>7, <2>8
<1>15. CASE ~(loc[t].released = "ok" /\ ReleaseCleanupDebtOk(ledger, SrcTier(t), loc[t].src.charge))
  <2>1. PICK d \in {ClearTransition(k, t), Poison(k, t)} :
           d = IF loc[t].released = "fail" THEN ClearTransition(k, t) ELSE Poison(k, t)
    OBVIOUS
  <2>2. PICK ok \in BOOLEAN : ok = FALSE
    OBVIOUS
  <2>3. /\ ledger' = ledger
        /\ chunk' = [chunk EXCEPT ![c] = d] /\ Return(t, ok)
    BY <1>4, <1>5, <1>6, <1>7, <1>15, <2>1, <2>2 DEF SettleSource
  <2>4. d.cleanup = k.cleanup
    BY <2>1, ClearKeeps
  <2>5. Len(d.cleanup) <= 3
    BY <1>5, <2>4 DEF BooksInv, Apart
  <2>6. ASSUME NEW u \in Tiers
        PROVE  /\ Owed(d, u) <= Owed(k, u)
               /\ Booked(ledger[u], ledger'[u], 0, 0, 0, 0, Owed(d, u) - Owed(k, u))
    <3>1. Owed(d, u) = Owed(k, u)
      BY <2>4 DEF Owed, OwedAt
    <3>2. PICK m \in Nat : m = Owed(k, u)
      BY ChunkShares
    <3>3. Booked(ledger[u], ledger[u], 0, 0, 0, 0, 0)
      BY <1>3, CountersNat DEF Booked, Ledgers
    <3>4. QED
      BY <2>3, <3>1, <3>2, <3>3
  <2>7. QED
    BY <1>13, <2>3, <2>5, <2>6
<1>16. QED
  BY <1>14, <1>15

(***************************************************************************)
(* The rollback                                                            *)
(***************************************************************************)
\* The rest of a rollback's list once its first item is settled.
LEMMA UndoTail ==
  ASSUME NEW k \in Locals, k.todo # <<>>, Len(k.todo) <= 3, NEW l, l.todo = Tail(k.todo), NEW b
  PROVE  /\ Head(k.todo) \in Items /\ Len(l.todo) \in Nat /\ Len(k.todo) = Len(l.todo) + 1
         /\ ToUndo(k, b) = Backed(Head(k.todo), b) + ToUndo(l, b) /\ ToUndo(l, b) \in Nat
<1>1. PICK s \in Seq(Items) : s = k.todo
  BY DEF Locals
<1>2. PICK n \in Nat : n = Len(s)
  OBVIOUS
<1>3. n \in 1 .. 3
  <2>1. s # <<>> => Len(s) # 0
    OBVIOUS
  <2>2. n # 0
    BY <1>1, <1>2, <2>1
  <2>3. n = Len(k.todo)
    BY <1>1, <1>2
  <2>4. PICK h : h = Len(k.todo)
    OBVIOUS
  <2>5. h <= 3
    BY <2>4
  <2>6. n <= 3
    BY <2>3, <2>4, <2>5
  <2>7. QED
    BY <2>2, <2>6
<1>4. PICK e, a : e = Tail(s) /\ a = Head(s)
  OBVIOUS
<1>5. /\ a = s[1] /\ a \in Items /\ Len(e) = n - 1
      /\ \A i \in 1 .. n - 1 : e[i] = s[i + 1]
  BY <1>1, <1>2, <1>3, <1>4
<1>6. \A i \in 1 .. n : s[i] \in Items /\ Backed(s[i], b) \in Nat
  <2>1. \A i \in 1 .. n : s[i] \in Items
    BY <1>2
  <2>2. \A x \in Items : Backed(x, b) \in Nat
    BY WordFacts DEF Items, Backed
  <2>3. QED
    BY <2>1, <2>2
<1>7. /\ TodoAt(k, 1, b) = IF 1 <= n THEN Backed(s[1], b) ELSE 0
      /\ TodoAt(k, 2, b) = IF 2 <= n THEN Backed(s[2], b) ELSE 0
      /\ TodoAt(k, 3, b) = IF 3 <= n THEN Backed(s[3], b) ELSE 0
  BY <1>1, <1>2 DEF TodoAt, Backed
<1>8. /\ TodoAt(l, 1, b) = IF 1 <= n - 1 THEN Backed(e[1], b) ELSE 0
      /\ TodoAt(l, 2, b) = IF 2 <= n - 1 THEN Backed(e[2], b) ELSE 0
      /\ TodoAt(l, 3, b) = IF 3 <= n - 1 THEN Backed(e[3], b) ELSE 0
  <2>1. l.todo = e /\ Len(e) = n - 1
    BY <1>1, <1>4, <1>5
  <2>2. QED
    BY <2>1 DEF TodoAt, Backed
<1>9. /\ TodoAt(l, 1, b) = TodoAt(k, 2, b) /\ TodoAt(l, 2, b) = TodoAt(k, 3, b) /\ TodoAt(l, 3, b) = 0
  <2>1. (2 <= n => e[1] = s[2]) /\ (3 <= n => e[2] = s[3])
    BY <1>3, <1>5
  <2>2. QED
    BY <1>3, <1>7, <1>8, <2>1
<1>10. PICK x \in Nat, y \in Nat, z \in Nat :
         x = TodoAt(k, 1, b) /\ y = TodoAt(k, 2, b) /\ z = TodoAt(k, 3, b)
  BY <1>3, <1>6, <1>7
<1>11. ToUndo(k, b) = x + (y + z) /\ ToUndo(l, b) = y + z /\ x = Backed(a, b) /\ y + z \in Nat
  BY <1>3, <1>5, <1>7, <1>9, <1>10 DEF ToUndo
<1>12. Len(l.todo) = n - 1 /\ Len(k.todo) = n
  BY <1>1, <1>2, <1>4, <1>5
<1>13. n - 1 \in Nat /\ n = (n - 1) + 1
  BY <1>3
<1>14. QED
  BY <1>1, <1>4, <1>5, <1>11, <1>12, <1>13

LEMMA RollbackSettleBooks ==
  ASSUME TransactionInv, BooksInv, NEW t \in Threads, RollbackSettle(t)
  PROVE  BooksInv'
<1>1. TransactionInv' /\ Steady(t)
  BY RollbackSettleStep
<1>2. /\ pc[t] = "settle" /\ UNCHANGED store /\ pc[t] \in Unwinding /\ pc[t] \in Working
      /\ "rollback" \in Unwinding /\ "rollback" \in Working
      /\ {"rollback", "settle"} \cap (PreCommit \cup PostCommit) = {}
  BY DEF RollbackSettle, Unwinding, Working, PreCommit, PostCommit, Filled
<1>3. /\ Typed /\ loc[t] \in Locals /\ loc[t].chunk \in Chunks /\ DestTier(t) \in Tiers
      /\ chunk[loc[t].chunk] \in ChunkRecords
  BY <1>2, WorkFacts
<1>4. loc[t].todo # <<>>
  BY <1>2 DEF TransactionInv, Threaded, ThreadInv, PlacedAt
<1>5. PICK k \in ChunkRecords : k = chunk[loc[t].chunk]
  BY <1>3
<1>6. PICK i \in Nat, j \in Nat : i = Len(k.cleanup) /\ j = Len(loc[t].todo)
  <2>1. PICK s \in Seq(CleanupResources), e \in Seq(Items) : s = k.cleanup /\ e = loc[t].todo
    BY <1>3 DEF ChunkRecords, Locals
  <2>2. Len(s) \in Nat /\ Len(e) \in Nat
    OBVIOUS
  <2>3. QED
    BY <2>1, <2>2
<1>7. k.txn = t \/ (k.lifecycle = "poisoned" /\ k.cleanup # <<>>)
  BY <1>2, <1>5, <1>6 DEF BooksInv, Apart, OwnChunk, ChunkOf
<1>8. i + j <= 3
  BY <1>2, <1>5, <1>6 DEF BooksInv, Apart, OwnChunk, ChunkOf
<1>9. Len(loc[t].todo) <= 3
  <2>1. j <= 3
    BY <1>8
  <2>2. QED
    BY <1>6, <2>1
<1>10. PICK l, a : l = [loc[t] EXCEPT !.todo = Tail(@)] /\ a = Head(loc[t].todo)
  OBVIOUS
<1>11. /\ l.dest = loc[t].dest /\ l.chunk = loc[t].chunk /\ l.toks = loc[t].toks
       /\ l.todo = Tail(loc[t].todo)
  BY <1>3, <1>10 DEF Locals
<1>12. /\ a \in Items /\ Len(l.todo) \in Nat /\ Len(loc[t].todo) = Len(l.todo) + 1
       /\ \A b : /\ ToUndo(loc[t], b) = Backed(a, b) + ToUndo(l, b) /\ ToUndo(l, b) \in Nat
  BY <1>3, <1>4, <1>9, <1>10, <1>11, UndoTail
<1>13. PICK b \in Buckets, n \in Word : b = a.bucket /\ n = a.charge
  BY <1>12 DEF Items
<1>14. n \in Nat
  BY WordFacts
<1>15. PICK x \in Nat, y \in Nat, x2 \in Nat, y2 \in Nat :
         /\ x = ToUndo(l, "staging") /\ y = ToUndo(l, "workspace")
         /\ x2 = Backed(a, "staging") /\ y2 = Backed(a, "workspace")
  BY <1>12, <1>13, <1>14 DEF Backed
<1>16. Staged(pc[t], loc[t]) = x2 + x /\ Worked(pc[t], loc[t]) = y2 + y
  BY <1>2, <1>12, <1>15, UndoSupplied
<1>17. /\ Supplied("rollback", l, store)
       /\ Staged("rollback", l) = x /\ Worked("rollback", l) = y
  BY <1>2, <1>15, UndoSupplied
<1>18. /\ x2 = IF b = "staging" THEN n ELSE 0
       /\ y2 = IF b = "workspace" THEN n ELSE 0
  BY <1>13, <1>15 DEF Backed
<1>19. /\ x = x2 + x + Part(b, "staging", -n) /\ y = y2 + y + Part(b, "workspace", -n)
       /\ b = "staging" => n <= x2 + x
       /\ b = "workspace" => n <= y2 + y
  BY <1>14, <1>18 DEF Part
<1>20. /\ Staged("rollback", l) = Staged(pc[t], loc[t]) + Part(b, "staging", -n)
       /\ Worked("rollback", l) = Worked(pc[t], loc[t]) + Part(b, "workspace", -n)
  BY <1>16, <1>17, <1>19
<1>21. /\ ReleaseMaterializedOk(ledger, DestTier(t), b, n)
       /\ MoveToDebtOk(ledger, DestTier(t), b, n)
  BY <1>2, <1>16, <1>19, BucketCovered
<1>22. PICK m \in Nat : m = Len(l.todo) /\ j = m + 1
  BY <1>6, <1>12
<1>23. i <= 2 /\ i + m <= 3 /\ (i + 1) + m <= 3
  <2>1. j = m + 1
    BY <1>22
  <2>2. QED
    BY <1>8, <2>1
<1>24. Goto(t, "rollback", l)
  BY <1>10 DEF RollbackSettle
<1>25. CASE loc[t].released = "ok"
  <2>1. ledger' = ReleaseMaterialized(ledger, DestTier(t), b, n) /\ UNCHANGED chunk
    BY <1>10, <1>13, <1>21, <1>25 DEF RollbackSettle
  <2>2. Len(k.cleanup) + Len(l.todo) <= 3
    BY <1>6, <1>22, <1>23
  <2>3. ChunkOf("rollback", l, chunk[loc[t].chunk], t)
    BY <1>2, <1>5, <1>7, <2>2 DEF ChunkOf
  <2>4. QED
    BY <1>1, <1>2, <1>11, <1>17, <1>20, <1>24, <2>1, <2>3, PaidBooks
<1>26. CASE loc[t].released # "ok"
  <2>1. PICK owed : owed = RememberCleanup(k, t, Debt(t, a))
    OBVIOUS
  <2>2. HasRoom(k) /\ a.charge \in Nat
    BY <1>6, <1>13, <1>14, <1>23 DEF HasRoom
  <2>3. owed.txn = k.txn /\ owed.lifecycle = k.lifecycle /\ Len(owed.cleanup) = Len(k.cleanup) + 1
    BY <2>1, <2>2, DebtKeeps
  <2>4. owed \in ChunkRecords
    <3>1. a.id \in Resources \cup {None} /\ a.charge \in Word
      BY <1>12 DEF Items
    <3>2. Nudged(k, owed, t)
      BY <1>2, <1>5, <2>1, <3>1, DebtNudges DEF OwnChunk
    <3>3. QED
      BY <3>2 DEF Nudged
  <2>5. PICK d \in {owed, Poison(owed, t)} : chunk' = [chunk EXCEPT ![loc[t].chunk] = d]
    <3>1. PICK full, condemn : /\ full = (Len(k.cleanup) >= CleanupSlots)
                               /\ condemn = (a.poison \/ loc[t].released = "lie")
      OBVIOUS
    <3>2. chunk' = [chunk EXCEPT ![loc[t].chunk] = IF condemn /\ ~full THEN Poison(owed, t) ELSE owed]
      BY <1>5, <1>10, <1>13, <1>21, <1>26, <2>1, <3>1 DEF RollbackSettle
    <3>3. QED
      BY <3>2
  <2>6. ledger' = MoveToDebt(ledger, DestTier(t), b, n)
    BY <1>10, <1>13, <1>21, <1>26 DEF RollbackSettle
  <2>7. /\ d.cleanup = owed.cleanup
        /\ \/ d.lifecycle = owed.lifecycle /\ d.txn = owed.txn
           \/ d.lifecycle = "poisoned"
    BY <2>4, <2>5, ClearKeeps
  <2>8. Len(d.cleanup) = i + 1 /\ d.cleanup # <<>>
    <3>1. Len(d.cleanup) = i + 1
      BY <1>6, <2>3, <2>7
    <3>2. d.cleanup = <<>> => Len(d.cleanup) = 0
      BY PlainLists
    <3>3. i + 1 # 0
      OBVIOUS
    <3>4. QED
      BY <3>1, <3>2, <3>3
  <2>9. Len(d.cleanup) + Len(l.todo) <= 3
    BY <1>22, <1>23, <2>8
  <2>10. d.txn = t \/ (d.lifecycle = "poisoned" /\ d.cleanup # <<>>)
    BY <1>7, <2>3, <2>7, <2>8
  <2>11. ChunkOf("rollback", l, d, t)
    BY <1>2, <2>9, <2>10 DEF ChunkOf
  <2>12. d.cleanup = RememberCleanup(chunk[loc[t].chunk], t, Debt(t, a)).cleanup
         /\ HasRoom(chunk[loc[t].chunk]) /\ a.charge = n
    BY <1>5, <1>13, <2>1, <2>2, <2>7
  <2>13. QED
    BY <1>1, <1>2, <1>11, <1>17, <1>20, <1>24, <2>5, <2>6, <2>11, <2>12, OwedBooks
<1>27. QED
  BY <1>25, <1>26

\* All the tokens of a thread, dropped one after the other: the ledger takes them.
LEMMA DropsBooks ==
  ASSUME NEW led, GoodLedger(led), NEW l \in Locals, \A u \in Tiers : Reserved(l, u) <= led[u].reserved
  PROVE  /\ ~Refuses(DropToken(DropToken(led, l.toks[1]), l.toks[2]), l.toks[3])
         /\ \A u \in Tiers :
              Booked(led[u], DropTokens(led, l.toks)[u], 0 - Reserved(l, u), 0, 0, 0, 0)
<1>1. PICK tok1 \in ReservationTokens, tok2 \in ReservationTokens, tok3 \in ReservationTokens :
        tok1 = l.toks[1] /\ tok2 = l.toks[2] /\ tok3 = l.toks[3]
  BY DEF Locals
<1>2. PICK led1, led2, led3 : /\ led1 = DropToken(led, tok1) /\ led2 = DropToken(led1, tok2)
                              /\ led3 = DropToken(led2, tok3)
  OBVIOUS
<1>3. GoodLedger(led1) /\ GoodLedger(led2) /\ GoodLedger(led3)
  BY <1>2, DropTokenGood
<1>4. led \in Ledgers /\ led1 \in Ledgers /\ led2 \in Ledgers /\ led3 \in Ledgers
  BY <1>3 DEF GoodLedger
<1>5. ASSUME NEW tok \in ReservationTokens, NEW g \in Ledgers,
             \A u \in Tiers : Claim(tok, u) <= g[u].reserved
      PROVE  tok.active => tok.remaining <= g[tok.tier].reserved
  <2>1. tok.tier \in Tiers
    BY DEF ReservationTokens
  <2>2. QED
    BY <1>5, <2>1 DEF Claim
<1>6. ASSUME NEW u \in Tiers
      PROVE  /\ Claim(tok1, u) \in Nat /\ Claim(tok2, u) \in Nat /\ Claim(tok3, u) \in Nat
             /\ led[u].reserved \in Nat /\ led1[u].reserved \in Nat /\ led2[u].reserved \in Nat
             /\ Reserved(l, u) = Claim(tok1, u) + Claim(tok2, u) + Claim(tok3, u)
             /\ Claim(tok1, u) + Claim(tok2, u) + Claim(tok3, u) <= led[u].reserved
  BY <1>1, <1>4, CountersNat, LocalShares DEF Reserved
<1>7. \A u \in Tiers : Booked(led[u], led1[u], 0 - Claim(tok1, u), 0, 0, 0, 0)
  <2>1. \A u \in Tiers : Claim(tok1, u) <= led[u].reserved
    BY <1>6
  <2>2. QED
    BY <1>2, <1>4, <1>5, <2>1, DropBooks
<1>8. \A u \in Tiers : led1[u].reserved = led[u].reserved + (0 - Claim(tok1, u))
  BY <1>7 DEF Booked
<1>9. \A u \in Tiers : Booked(led1[u], led2[u], 0 - Claim(tok2, u), 0, 0, 0, 0)
  <2>1. \A u \in Tiers : Claim(tok2, u) <= led1[u].reserved
    BY <1>6, <1>8
  <2>2. QED
    BY <1>2, <1>4, <1>5, <2>1, DropBooks
<1>10. \A u \in Tiers : led2[u].reserved = led1[u].reserved + (0 - Claim(tok2, u))
  BY <1>9 DEF Booked
<1>11. \A u \in Tiers : Claim(tok3, u) <= led2[u].reserved
  BY <1>6, <1>8, <1>10
<1>12. tok3.active => tok3.remaining <= led2[tok3.tier].reserved
  BY <1>4, <1>5, <1>11
<1>13. ~Refuses(led2, tok3) /\ \A u \in Tiers : Booked(led2[u], led3[u], 0 - Claim(tok3, u), 0, 0, 0, 0)
  BY <1>2, <1>4, <1>12, DropBooks
<1>14. ASSUME NEW u \in Tiers PROVE Booked(led[u], led3[u], 0 - Reserved(l, u), 0, 0, 0, 0)
  <2>1. PICK x \in Nat, y \in Nat, z \in Nat :
           x = Claim(tok1, u) /\ y = Claim(tok2, u) /\ z = Claim(tok3, u)
    BY <1>6
  <2>2. Reserved(l, u) = x + y + z
    BY <1>6, <2>1
  <2>3. PICK g, g1, g2, g3 : g = led[u] /\ g1 = led1[u] /\ g2 = led2[u] /\ g3 = led3[u]
    OBVIOUS
  <2>4. /\ g.reserved \in Nat /\ g.staging \in Nat /\ g.workspace \in Nat /\ g.committed \in Nat
        /\ g.cleanup_debt \in Nat
    BY <1>4, <2>3, CountersNat
  <2>5. /\ Booked(g, g1, 0 - x, 0, 0, 0, 0) /\ Booked(g1, g2, 0 - y, 0, 0, 0, 0)
        /\ Booked(g2, g3, 0 - z, 0, 0, 0, 0)
    BY <1>7, <1>9, <1>13, <2>1, <2>3
  <2>6. Booked(g, g3, 0 - (x + y + z), 0, 0, 0, 0)
    BY <2>4, <2>5 DEF Booked
  <2>7. QED
    BY <2>2, <2>3, <2>6
<1>15. DropTokens(led, l.toks) = led3
  BY <1>1, <1>2 DEF DropTokens
<1>16. QED
  BY <1>1, <1>2, <1>13, <1>14, <1>15

LEMMA FinishBooks ==
  ASSUME TransactionInv, BooksInv, NEW t \in Threads, Finish(t)
  PROVE  BooksInv'
<1>1. TransactionInv' /\ Steady(t)
  BY FinishStep
<1>2. /\ pc[t] = "rollback" /\ loc[t].todo = <<>> /\ UNCHANGED store
      /\ ledger' = DropTokens(ledger, loc[t].toks)
      /\ pc[t] \in Unwinding /\ pc[t] \in Working
  BY DEF Finish, Unwinding, Working
<1>3. /\ Typed /\ loc[t] \in Locals /\ loc[t].chunk \in Chunks /\ GoodLedger(ledger)
      /\ chunk[loc[t].chunk] \in ChunkRecords /\ chunk \in [Chunks -> ChunkRecords]
  BY <1>2, WorkFacts DEF Typed
<1>4. \A u \in Tiers : Reserved(loc[t], u) <= ledger[u].reserved
  BY <1>3, Covered DEF BooksInv, ReservedOf
<1>5. /\ ~Refuses(DropToken(DropToken(ledger, loc[t].toks[1]), loc[t].toks[2]), loc[t].toks[3])
      /\ \A u \in Tiers : Booked(ledger[u], ledger'[u], 0 - Reserved(loc[t], u), 0, 0, 0, 0)
  BY <1>2, <1>3, <1>4, DropsBooks
<1>6. Staged(pc[t], loc[t]) = 0 /\ Worked(pc[t], loc[t]) = 0
  <2>1. ToUndo(loc[t], "staging") = 0 /\ ToUndo(loc[t], "workspace") = 0
    BY <1>2 DEF ToUndo, TodoAt
  <2>2. QED
    BY <1>2, <2>1 DEF Staged, Worked
<1>7. PICK c \in Chunks, k \in ChunkRecords : c = loc[t].chunk /\ k = chunk[c]
  BY <1>3
<1>8. PICK d \in {Poison(k, t), ClearTransition(k, t)}, ok \in BOOLEAN :
        chunk' = [chunk EXCEPT ![c] = d] /\ Return(t, ok)
  <2>1. PICK d \in {Poison(k, t), ClearTransition(k, t)} :
          d = IF loc[t].ending = "poison" THEN Poison(k, t) ELSE ClearTransition(k, t)
    OBVIOUS
  <2>2. PICK ok \in BOOLEAN : ok = FALSE
    OBVIOUS
  <2>3. chunk' = [chunk EXCEPT ![c] = d] /\ Return(t, ok)
    BY <1>5, <1>7, <2>1, <2>2 DEF Finish
  <2>4. QED
    BY <2>3
<1>9. d.cleanup = k.cleanup
  BY <1>8, ClearKeeps
<1>10. chunk'[c] = d /\ \A e \in Chunks \ {c} : chunk'[e] = chunk[e]
  BY <1>3, <1>8
<1>11. Len(d.cleanup) <= 3
  BY <1>7, <1>9 DEF BooksInv, Apart
<1>12. ASSUME NEW u \in Tiers
       PROVE  /\ Owed(d, u) <= Owed(chunk[c], u)
              /\ Booked(ledger[u], ledger'[u], 0 - Reserved(loc[t], u), 0, 0, 0,
                        Owed(d, u) - Owed(chunk[c], u))
  <2>1. PICK m \in Nat : m = Owed(k, u)
    BY ChunkShares
  <2>2. Owed(d, u) = m
    BY <1>9, <2>1 DEF Owed, OwedAt
  <2>3. m <= m /\ m - m = 0
    OBVIOUS
  <2>4. Booked(ledger[u], ledger'[u], 0 - Reserved(loc[t], u), 0, 0, 0, 0)
    BY <1>5
  <2>5. QED
    BY <1>7, <2>1, <2>2, <2>3, <2>4
<1>13. Quiet(t)
  BY <1>2, <1>3, SameQuiet
<1>14. QED
  BY <1>1, <1>2, <1>6, <1>7, <1>8, <1>10, <1>11, <1>12, <1>13, LeaveBooks

(***************************************************************************)
(* The start                                                               *)
(***************************************************************************)
\* The sum of equal parts.
LEMMA SumOfEqual ==
  ASSUME NEW S, IsFiniteSet(S), NEW k \in Nat
  PROVE  SumFunction([x \in S |-> k]) = Cardinality(S) * k
<1> DEFINE f == [x \in S |-> k]
<1>1. Units(f, S) = S \X (1 .. k)
  BY DEF Units, UnitsAt
<1>2. IsFiniteSet(1 .. k) /\ Cardinality(1 .. k) = k
  BY FS_Interval
<1>3. Cardinality(S \X (1 .. k)) = Cardinality(S) * k
  BY <1>2, FS_Product
<1>4. SumFunction(f) = Cardinality(Units(f, S))
  BY SumIsUnits
<1>5. QED
  BY <1>1, <1>3, <1>4

LEMMA InitBooks == Init => BooksInv
<1> SUFFICES ASSUME Init PROVE BooksInv
  OBVIOUS
<1>1. PICK bytes, home : bytes = Cardinality(Chunks) * InitialCharge /\ home = TierOf(InitialState)
  OBVIOUS
<1>2. PICK full : full = [EmptyCounters EXCEPT !.committed = bytes, !.peak_charged = bytes]
  OBVIOUS
<1>3. ledger = [tier \in Tiers |-> IF tier = home THEN full ELSE EmptyCounters]
  BY <1>1, <1>2 DEF Init
<1>4. \A t \in Threads : pc[t] = "idle" /\ loc[t] = IdleLocals
  BY DEF Init
<1>5. ASSUME NEW c \in Chunks
      PROVE  /\ chunk[c].auth.state = InitialState /\ chunk[c].auth.charge = InitialCharge
             /\ chunk[c].cleanup = <<>>
  BY DEF Init
<1>6. InitialCharge \in Nat /\ home \in Tiers /\ bytes \in 0 .. HardLimit[home]
  BY <1>1, TransactionAssumption, TiersTyped, WordFacts DEF TransactionAssumption
<1>7. \A tier \in Tiers : HardLimit[tier] \in Nat
  BY BudgetAssumption DEF BudgetAssumption
<1>8. /\ full.reserved = 0 /\ full.staging = 0 /\ full.workspace = 0 /\ full.cleanup_debt = 0
      /\ full.committed = bytes
  BY <1>2 DEF EmptyCounters
<1>9. /\ EmptyCounters.reserved = 0 /\ EmptyCounters.staging = 0 /\ EmptyCounters.workspace = 0
      /\ EmptyCounters.cleanup_debt = 0 /\ EmptyCounters.committed = 0
  BY DEF EmptyCounters
<1>10. /\ \A i \in 1 .. 3 : IdleLocals.toks[i] = InactiveToken
       /\ "idle" \in Outside /\ "idle" \notin Working /\ "idle" \notin Filled \cup Unwinding
  BY DEF IdleLocals, Outside, Working, PreCommit, PostCommit, Unwinding, Filled
<1>11. ASSUME NEW u \in Tiers
       PROVE  /\ \A t \in Threads : ReservedOf(t, u) = 0 /\ StagingOf(t, u) = 0 /\ WorkspaceOf(t, u) = 0
              /\ \A c \in Chunks : CommittedOf(c, u) = IF home = u THEN InitialCharge ELSE 0
              /\ \A c \in Chunks : DebtOf(c, u) = 0
  <2>1. ASSUME NEW t \in Threads
        PROVE  ReservedOf(t, u) = 0 /\ StagingOf(t, u) = 0 /\ WorkspaceOf(t, u) = 0
    BY <1>4, <1>10, NoClaims, NothingBooked DEF ReservedOf, StagingOf, WorkspaceOf, Part
  <2>2. ASSUME NEW c \in Chunks
        PROVE  CommittedOf(c, u) = IF home = u THEN InitialCharge ELSE 0
    BY <1>1, <1>5 DEF CommittedOf, Part
  <2>3. ASSUME NEW c \in Chunks PROVE DebtOf(c, u) = 0
    BY <1>5, EmptyOwes DEF DebtOf
  <2>4. QED
    BY <2>1, <2>2, <2>3
<1>12. Balanced
  <2> SUFFICES ASSUME NEW u \in Tiers
               PROVE  /\ ledger[u].reserved = SumFunction([t \in Threads |-> ReservedOf(t, u)])
                      /\ ledger[u].staging = SumFunction([t \in Threads |-> StagingOf(t, u)])
                      /\ ledger[u].workspace = SumFunction([t \in Threads |-> WorkspaceOf(t, u)])
                      /\ ledger[u].committed = SumFunction([c \in Chunks |-> CommittedOf(c, u)])
                      /\ ledger[u].cleanup_debt = SumFunction([c \in Chunks |-> DebtOf(c, u)])
    BY DEF Balanced
  <2>1. PICK k \in Nat : k = IF home = u THEN InitialCharge ELSE 0
    BY <1>6
  <2>2. /\ [t \in Threads |-> ReservedOf(t, u)] = [t \in Threads |-> 0]
        /\ [t \in Threads |-> StagingOf(t, u)] = [t \in Threads |-> 0]
        /\ [t \in Threads |-> WorkspaceOf(t, u)] = [t \in Threads |-> 0]
        /\ [c \in Chunks |-> CommittedOf(c, u)] = [c \in Chunks |-> k]
        /\ [c \in Chunks |-> DebtOf(c, u)] = [c \in Chunks |-> 0]
    BY <1>11, <2>1
  <2>3. /\ ledger[u].reserved = 0 /\ ledger[u].staging = 0 /\ ledger[u].workspace = 0
        /\ ledger[u].cleanup_debt = 0
        /\ ledger[u].committed = IF home = u THEN bytes ELSE 0
    BY <1>3, <1>8, <1>9
  <2>4. /\ SumFunction([t \in Threads |-> 0]) = 0 /\ SumFunction([c \in Chunks |-> 0]) = 0
        /\ SumFunction([c \in Chunks |-> k]) = Cardinality(Chunks) * k
    BY FiniteFacts, SumOfNothing, SumOfEqual
  <2>5. ledger[u].committed = SumFunction([c \in Chunks |-> k])
    <3>1. CASE home = u
      BY <1>1, <2>1, <2>3, <2>4, <3>1
    <3>2. CASE home # u
      BY <2>1, <2>3, <2>4, <3>2
    <3>3. QED
      BY <3>1, <3>2
  <2>6. QED
    BY <2>2, <2>3, <2>4, <2>5
<1>13. WithinLimit
  <2>1. bytes <= HardLimit[home] /\ bytes \in Nat
    BY <1>6, <1>7
  <2>2. Total(full) = bytes /\ Total(EmptyCounters) = 0
    BY <1>8, <1>9, <2>1 DEF Total
  <2>3. \A u \in Tiers : Total(ledger[u]) = IF u = home THEN bytes ELSE 0
    BY <1>3, <2>2
  <2>4. QED
    BY <1>7, <2>1, <2>3 DEF WithinLimit
<1>14. Apart
  <2>1. \A t \in Threads : pc[t] \notin Working
    BY <1>4, <1>10
  <2>2. \A c \in Chunks : Len(chunk[c].cleanup) <= 3
    <3>1. \A x : x = <<>> => Len(x) <= 3
      OBVIOUS
    <3>2. QED
      BY <1>5, <3>1
  <2>3. QED
    BY <2>1, <2>2 DEF Apart
<1>15. Stocked
  BY <1>4, <1>10, OutsideSupplied DEF Stocked
<1>16. QED
  BY <1>12, <1>13, <1>14, <1>15 DEF BooksInv

(***************************************************************************)
(* Every step                                                              *)
(***************************************************************************)
LEMMA NextBooks == BookedInv /\ [Next]_vars => BookedInv'
<1> SUFFICES ASSUME TransactionInv, BooksInv, [Next]_vars PROVE BooksInv'
  BY NextInv DEF BookedInv
<1>1. ASSUME NEW t \in Threads, NEW c \in Chunks, NEW d \in Targets, NEW lim \in Limits,
             Propose(t, c, d, lim)
      PROVE  BooksInv'
  BY <1>1, ProposeBooks
<1>2. ASSUME NEW t \in Threads, NEW c \in Chunks, NEW a \in {"read_only", "read_write"},
             Intend(t, c, a)
      PROVE  BooksInv'
  BY <1>2, IntendBooks
<1>3. ASSUME NEW t \in Threads, MigrateStep(t) PROVE BooksInv'
  <2>1. CASE \/ Begin(t) \/ Project(t) \/ ReserveAll(t) \/ AllocateDestination(t)
             \/ MaterializeDestination(t) \/ AllocateWorkspace(t) \/ MaterializeWorkspace(t)
             \/ VerifyAuthoritative(t)
    BY <2>1, BeginBooks, ProjectBooks, ReserveAllBooks, AllocateDestinationBooks,
       MaterializeDestinationBooks, AllocateWorkspaceBooks, MaterializeWorkspaceBooks,
       VerifyAuthoritativeBooks
  <2>2. CASE \/ Prepare(t) \/ MaterializeCompaction(t) \/ Transfer(t)
             \/ Reconcile(t) \/ ReleaseCompaction(t) \/ SettleCompaction(t) \/ VerifyTransfer(t)
    BY <2>2, PrepareBooks, MaterializeCompactionBooks, TransferBooks, ReconcileBooks,
       ReleaseCompactionBooks, SettleCompactionBooks, VerifyTransferBooks
  <2>3. CASE \/ ReleaseWorkspace(t) \/ SettleWorkspace(t) \/ Commit(t) \/ ReleaseSource(t)
             \/ SettleSource(t) \/ RollbackRelease(t) \/ RollbackSettle(t) \/ Finish(t)
    BY <2>3, ReleaseWorkspaceBooks, SettleWorkspaceBooks, CommitBooks, ReleaseSourceBooks,
       SettleSourceBooks, RollbackReleaseBooks, RollbackSettleBooks, FinishBooks
  <2>4. QED
    BY <1>3, <2>1, <2>2, <2>3 DEF MigrateStep
<1>4. ASSUME NEW t \in Threads, LeaseStep(t) PROVE BooksInv'
  BY <1>4, GateBooks, IntentBooks, WriteBooks, RecordBooks, CloseBooks DEF LeaseStep
<1>5. CASE UNCHANGED vars
  <2>1. UNCHANGED <<ledger, store, chunk, pc, loc>>
    BY <1>5 DEF vars
  <2>2. Balanced' /\ WithinLimit'
    <3>1. \A tier \in Tiers :
            /\ \A u \in Threads : /\ ReservedOf(u, tier)' = ReservedOf(u, tier)
                                  /\ StagingOf(u, tier)' = StagingOf(u, tier)
                                  /\ WorkspaceOf(u, tier)' = WorkspaceOf(u, tier)
            /\ \A d \in Chunks : /\ CommittedOf(d, tier)' = CommittedOf(d, tier)
                                 /\ DebtOf(d, tier)' = DebtOf(d, tier)
      BY <2>1 DEF ReservedOf, StagingOf, WorkspaceOf, CommittedOf, DebtOf
    <3>2. QED
      BY <2>1, <3>1, PlainBooks DEF BooksInv
  <2>3. Apart'
    BY <2>1 DEF BooksInv, Apart, OwnChunk
  <2>4. Stocked'
    BY <2>1 DEF BooksInv, Stocked
  <2>5. QED
    BY <2>2, <2>3, <2>4 DEF BooksInv
<1>6. QED
  BY <1>1, <1>2, <1>3, <1>4, <1>5 DEF Next

(***************************************************************************)
(* Theorems                                                                *)
(***************************************************************************)

\* However the migrations, rollbacks and leases of the threads interleave and whichever
\* backend calls fail, beside what TransactionInv says: the counters of every tier are the
\* sums of what the threads and the chunks have booked there, no tier is charged more than
\* its hard limit, no two transactions share a chunk, and each thread has the tokens and the
\* allocations that the rest of its migration uses.
THEOREM BooksInvariance == Spec => []BookedInv
<1>1. Init => BookedInv
  BY InitInv, InitBooks DEF BookedInv
<1>2. QED
  BY <1>1, NextBooks, PTL DEF Spec

\* No thread reaches a std::terminate of migrate: the ledger refuses neither the bytes a
\* thread owns nor the tokens it gives back, and the four cleanup slots of a chunk are
\* enough for all that one transaction may fail to release.
THEOREM MigrationsNeverTerminate == Spec => []NeverTerminates
<1>1. BookedInv => NeverTerminates
  <2> SUFFICES ASSUME BookedInv PROVE NeverTerminates
    OBVIOUS
  <2>1. \A t \in Threads : pc[t] # "terminated"
    BY DEF BookedInv, BooksInv, Stocked, Supplied
  <2>2. ASSUME NEW c \in Chunks PROVE Len(chunk[c].cleanup) <= CleanupSlots
    <3>1. PICK s \in Seq(CleanupResources) : s = chunk[c].cleanup
      BY DEF BookedInv, TransactionInv, Typed, ChunkRecords
    <3>2. Len(s) <= 3
      BY <3>1 DEF BookedInv, BooksInv, Apart
    <3>3. Len(s) <= 4
      BY <3>2
    <3>4. QED
      BY <3>1, <3>3 DEF CleanupSlots
  <2>3. QED
    BY <2>1, <2>2 DEF NeverTerminates
<1>2. QED
  BY <1>1, BooksInvariance, PTL

\* The hard limit of a tier holds at all times, also after a broken contract has closed the
\* tier to admission: what the backend allocates then was granted before.
THEOREM HardLimitAlwaysKept == Spec => [](\A tier \in Tiers : Total(ledger[tier]) <= HardLimit[tier])
<1>1. BookedInv => \A tier \in Tiers : Total(ledger[tier]) <= HardLimit[tier]
  BY DEF BookedInv, BooksInv, WithinLimit
<1>2. QED
  BY <1>1, BooksInvariance, PTL

\* With no thread inside a migration nothing is left reserved, in staging or in a workspace:
\* each way out of migrate has booked back or committed all it took.
THEOREM NothingInFlightAtRest ==
  Spec => [](Quiescent => \A tier \in Tiers :
               /\ ledger[tier].reserved = 0 /\ ledger[tier].staging = 0
               /\ ledger[tier].workspace = 0)
<1>1. BookedInv => (Quiescent => \A tier \in Tiers :
                         /\ ledger[tier].reserved = 0 /\ ledger[tier].staging = 0
                         /\ ledger[tier].workspace = 0)
  <2> SUFFICES ASSUME BookedInv, Quiescent, NEW u \in Tiers
               PROVE  /\ ledger[u].reserved = 0 /\ ledger[u].staging = 0
                      /\ ledger[u].workspace = 0
    OBVIOUS
  <2>1. {"idle", "leased"} \subseteq Tokenless /\ {"idle", "leased"} \cap (Filled \cup Unwinding) = {}
    BY DEF Tokenless, Leasing, Holding, Filled, Unwinding
  <2>2. ASSUME NEW t \in Threads
        PROVE  ReservedOf(t, u) = 0 /\ StagingOf(t, u) = 0 /\ WorkspaceOf(t, u) = 0
    <3>1. pc[t] \in {"idle", "leased"}
      BY DEF Quiescent
    <3>2. \A i \in 1 .. 3 : loc[t].toks[i] = InactiveToken
      BY <2>1, <3>1 DEF BookedInv, BooksInv, Stocked, Supplied, TokensAt
    <3>3. Reserved(loc[t], u) = 0 /\ Staged(pc[t], loc[t]) = 0 /\ Worked(pc[t], loc[t]) = 0
      BY <2>1, <3>1, <3>2, NoClaims, NothingBooked
    <3>4. QED
      BY <3>3 DEF ReservedOf, StagingOf, WorkspaceOf, Part
  <2>3. /\ [t \in Threads |-> ReservedOf(t, u)] = [t \in Threads |-> 0]
        /\ [t \in Threads |-> StagingOf(t, u)] = [t \in Threads |-> 0]
        /\ [t \in Threads |-> WorkspaceOf(t, u)] = [t \in Threads |-> 0]
    BY <2>2
  <2>4. SumFunction([t \in Threads |-> 0]) = 0
    BY FiniteFacts, SumOfNothing
  <2>5. QED
    BY <2>3, <2>4 DEF BookedInv, BooksInv, Balanced
<1>2. QED
  BY <1>1, BooksInvariance, PTL

\* A thread with an intent to a chunk, or a lease of it, counts there.
LEMMA CountedThere ==
  ASSUME TransactionInv, NEW t \in Threads, NEW c \in Chunks, c = loc[t].chunk,
         loc[t].acquire, loc[t].access \in Accesses
  PROVE  chunk[c].intents # 0 \/ chunk[c].readers # 0 \/ chunk[c].writer
<1>1. ChunkLocked(c)
  BY DEF TransactionInv, Locked
<1>2. ASSUME NEW S \in SUBSET Threads, t \in S PROVE Cardinality(S) # 0
  BY <1>2, FiniteFacts, FS_Subset, FS_EmptySet
<1>3. CASE pc[t] \notin Holding
  <2>1. t \in IntentHolders(c) /\ IntentHolders(c) \subseteq Threads
    BY <1>3 DEF IntentHolders
  <2>2. QED
    BY <1>1, <1>2, <2>1 DEF ChunkLocked
<1>4. CASE pc[t] \in Holding /\ loc[t].access = "read_only"
  <2>1. t \in ReadHolders(c) /\ ReadHolders(c) \subseteq Threads
    BY <1>4 DEF ReadHolders
  <2>2. QED
    BY <1>1, <1>2, <2>1 DEF ChunkLocked
<1>5. CASE pc[t] \in Holding /\ loc[t].access = "read_write"
  <2>1. t \in WriteHolders(c)
    BY <1>5 DEF WriteHolders
  <2>2. QED
    BY <1>1, <2>1 DEF ChunkLocked
<1>6. QED
  BY <1>3, <1>4, <1>5 DEF Accesses

\* What Buffer::inspect_chunk reports as not pending is really left alone: while a thread is
\* inside a migration of a chunk, after the commit or a poison too, inside an acquire, or
\* holds a lease, the chunk shows a transition, a pin, an intent or a cleanup entry.
THEOREM PendingAlwaysTold == Spec => []PendingTold
<1>1. BookedInv => PendingTold
  <2> SUFFICES ASSUME TransactionInv, BooksInv, NEW t \in Threads,
                      pc[t] \notin {"idle", "terminated"}, ~ (pc[t] = "begin" /\ ~loc[t].acquire)
               PROVE  Pending(loc[t].chunk)
    BY DEF BookedInv, PendingTold
  <2>1. PICK c \in Chunks : c = loc[t].chunk
    BY DEF TransactionInv, Threaded, ThreadInv, PlacedAt
  <2>2. pc[t] \in Working \cup Leasing \cup {"begin"}
    <3>1. pc[t] \in PCs
      BY DEF TransactionInv, Typed
    <3>2. QED
      BY <3>1 DEF PCs, Working, PreCommit, PostCommit, Unwinding, Filled, Leasing, Holding
  <2>3. CASE pc[t] \in Working
    <3>1. ChunkOf(pc[t], loc[t], chunk[c], t)
      BY <2>1, <2>3 DEF BooksInv, Apart, OwnChunk
    <3>2. chunk[c].txn # None \/ chunk[c].cleanup # <<>>
      <4>1. CASE pc[t] \in PreCommit \cup PostCommit
        BY <2>1, <4>1, TransactionAssumption
        DEF TransactionAssumption, TransactionInv, Threaded, ThreadInv, Transacting, OwnChunk
      <4>2. CASE pc[t] \in Unwinding
        BY <3>1, <4>2, TransactionAssumption DEF TransactionAssumption, ChunkOf
      <4>3. QED
        BY <2>3, <4>1, <4>2 DEF Working
    <3>3. QED
      BY <2>1, <3>2 DEF Pending, Busy
  <2>4. CASE pc[t] \in Leasing \cup {"begin"}
    <3>1. loc[t].acquire /\ loc[t].access \in Accesses
      BY <2>4 DEF TransactionInv, Threaded, ThreadInv, PlacedAt
    <3>2. QED
      BY <2>1, <3>1, CountedThere DEF Pending, Busy
  <2>5. QED
    BY <2>2, <2>3, <2>4
<1>2. QED
  BY <1>1, BooksInvariance, PTL
=============================================================================
