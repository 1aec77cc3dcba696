------------------------- MODULE TransactionProofs --------------------------
(***************************************************************************)
(* TransactionInv holds initially and every step keeps it, for any         *)
(* threads, chunks, budgets, charges and kinds of backend failure; and the *)
(* invariants of Transaction that follow from it.                          *)
(*                                                                         *)
(* A step of a migration changes little that others rely on.  It is        *)
(* Steady: it keeps the authorities and the pins, and touches only         *)
(* resources that are fresh or its own, so that the invariant of the other *)
(* threads and of every chunk carries over (SteadyStep).  What remains is  *)
(* the invariant of the thread that moves, one lemma per action.           *)
(*                                                                         *)
(* The other steps change the authority of a chunk, its content or its     *)
(* locks: intents, pins, writes, the end of a lease, and the commit.       *)
(* Each replaces one chunk.  LeaseKeeps and OthersKeep carry the invariant *)
(* of the other chunks and threads over; that nobody else is at work on    *)
(* the chunk itself comes from its locks (WriterFacts, IntentFacts) or,    *)
(* inside a transaction, from the transaction it is in (AloneInside).      *)
(* What each of these steps does is stated as a relation of its own (Pins, *)
(* Leaves, Swaps): the refinement of ChunkContract needs no more of it.    *)
(***************************************************************************)
EXTENDS TransactionInvariant, FiniteSetTheorems

(***************************************************************************)
(* Values                                                                  *)
(***************************************************************************)
LEMMA WordFacts == MaxWord \in Nat /\ 0 \in Word /\ Word \subseteq Nat
BY BudgetAssumption DEF BudgetAssumption, Word

LEMMA TiersTyped == \A s \in States : TierOf(s) \in Tiers
BY DEF TierOf, Tiers

LEMMA NoAllocTyped == NoAlloc \in Allocations
BY WordFacts DEF NoAlloc, Allocations

LEMMA InactiveTyped == InactiveToken \in ReservationTokens
BY WordFacts DEF InactiveToken, ReservationTokens, Tiers, Buckets

LEMMA IdleTyped == IdleLocals \in Locals
BY NoAllocTyped, InactiveTyped DEF IdleLocals, Locals, States, Accesses

LEMMA AllocatedTyped ==
  ASSUME NEW tier \in Tiers, NEW n \in Word PROVE Allocated(tier, n) \in Descriptors
BY DEF Allocated, Descriptors

(***************************************************************************)
(* The ledger                                                              *)
(***************************************************************************)
LEMMA DropTokenGood ==
  ASSUME NEW led, GoodLedger(led), NEW tok \in ReservationTokens
  PROVE  GoodLedger(DropToken(led, tok))
BY TokenOpsGood, WordFacts DEF DropToken

LEMMA RestTyped ==
  ASSUME NEW led, NEW tok \in ReservationTokens, NEW n \in Word, MaterializeOk(led, tok, n)
  PROVE  MaterializedToken(tok, n) \in ReservationTokens
BY WordFacts DEF MaterializeOk, MaterializedToken, ReservationTokens, Word

(***************************************************************************)
(* A thread moves                                                          *)
(***************************************************************************)
Others(t) == \A u \in Threads \ {t} : pc'[u] = pc[u] /\ loc'[u] = loc[u]

\* Thread t goes to p with locals l, and both are of their type.
Moves(t, p, l) ==
  /\ pc' \in [Threads -> PCs] /\ loc' \in [Threads -> Locals]
  /\ pc'[t] = p /\ loc'[t] = l /\ Others(t)

LEMMA GotoMoves ==
  ASSUME Typed, NEW t \in Threads, NEW p \in PCs, NEW l \in Locals, Goto(t, p, l)
  PROVE  Moves(t, p, l)
BY DEF Typed, Goto, Moves, Others

\* The locals a returning thread keeps.
ReturnLocals(l) ==
  IF l.acquire THEN [IdleLocals EXCEPT !.chunk = l.chunk, !.access = l.access, !.acquire = TRUE]
  ELSE IdleLocals

LEMMA ReturnLocalsTyped ==
  ASSUME NEW l \in Locals
  PROVE  /\ ReturnLocals(l) \in Locals
         /\ ReturnLocals(l).acquire = l.acquire
         /\ l.acquire => ReturnLocals(l).chunk = l.chunk /\ ReturnLocals(l).access = l.access
         /\ ReturnLocals(l).dst = NoAlloc /\ ReturnLocals(l).ws = NoAlloc
         /\ ReturnLocals(l).comp = NoAlloc
BY IdleTyped, ZenonT(60) DEF ReturnLocals, Locals, IdleLocals

LEMMA ReturnMoves ==
  ASSUME Typed, NEW t \in Threads, NEW ok \in BOOLEAN, Return(t, ok)
  PROVE  \E p \in {"idle", "pin", "drop_intent"} :
           /\ Moves(t, p, ReturnLocals(loc[t]))
           /\ p = "idle" <=> ~loc[t].acquire
<1>1. loc[t] \in Locals
  BY DEF Typed
<1>2. ReturnLocals(loc[t]) \in Locals
  BY <1>1, ReturnLocalsTyped
<1>3. CASE loc[t].acquire
  <2> DEFINE p == IF ok THEN "pin" ELSE "drop_intent"
  <2>1. Goto(t, p, ReturnLocals(loc[t])) /\ p \in PCs
    BY <1>3 DEF Return, ReturnLocals, PCs
  <2>2. QED
    BY <1>2, <1>3, <2>1, GotoMoves
<1>4. CASE ~loc[t].acquire
  <2>1. Goto(t, "idle", ReturnLocals(loc[t])) /\ "idle" \in PCs
    BY <1>4 DEF Return, ReturnLocals, PCs
  <2>2. QED
    BY <1>2, <1>4, <2>1, GotoMoves
<1>5. QED
  BY <1>3, <1>4

(***************************************************************************)
(* The frame of a step of a migration                                      *)
(***************************************************************************)

\* d is the chunk record ch after thread t took, dropped or poisoned its transition, or
\* left it a resource to clean up: authority, content and leases are as before.
Nudged(ch, d, t) ==
  /\ d \in ChunkRecords
  /\ d.auth = ch.auth /\ d.readers = ch.readers /\ d.writer = ch.writer
  /\ d.intents = ch.intents /\ d.write_intent = ch.write_intent
  /\ d.lifecycle = ch.lifecycle \/ d.lifecycle = "poisoned"
  /\ \/ d.txn = ch.txn
     \/ ch.txn = t /\ d.txn = None
     \/ /\ ch.txn = None /\ d.txn = t
        /\ ch.lifecycle = "live" /\ ch.readers = 0 /\ ~ch.writer

OneChunk == \A c, d \in Chunks : chunk'[c] # chunk[c] /\ chunk'[d] # chunk[d] => c = d

NudgesChunks(t) ==
  /\ chunk' \in [Chunks -> ChunkRecords] /\ OneChunk
  /\ \A c \in Chunks : Nudged(chunk[c], chunk'[c], t)

\* The backend gains and loses only resources of t.
Quiet(t) ==
  /\ store' \in [Resources -> Descriptors \cup {None}]
  /\ \A r \in Resources \ (Claims(t) \cup Fresh) : store'[r] = store[r]

Framed(t) == GoodLedger(ledger') /\ Quiet(t) /\ NudgesChunks(t)

LEMMA NudgedSame == ASSUME NEW ch \in ChunkRecords, NEW t PROVE Nudged(ch, ch, t)
BY DEF Nudged

LEMMA ClearNudges ==
  ASSUME NEW t \in Threads, NEW ch \in ChunkRecords, NEW d, Nudged(ch, d, t)
  PROVE  Nudged(ch, ClearTransition(d, t), t) /\ Nudged(ch, Poison(d, t), t)
BY DEF Nudged, ClearTransition, Poison, ChunkRecords, Lifecycles

LEMMA RememberNudges ==
  ASSUME NEW t \in Threads, NEW ch \in ChunkRecords, NEW res \in CleanupResources
  PROVE  Nudged(ch, RememberCleanup(ch, t, res), t)
<1>1. CASE Len(ch.cleanup) >= CleanupSlots
  BY <1>1, NudgedSame, ClearNudges DEF RememberCleanup
<1>2. CASE ~(Len(ch.cleanup) >= CleanupSlots)
  <2>1. ch.cleanup \in Seq(CleanupResources)
    BY DEF ChunkRecords
  <2>2. Append(ch.cleanup, res) \in Seq(CleanupResources)
    BY <2>1
  <2>3. QED
    BY <1>2, <2>2 DEF RememberCleanup, Nudged, ChunkRecords
<1>3. QED
  BY <1>1, <1>2

LEMMA ForgetNudges ==
  ASSUME NEW t \in Threads, NEW ch \in ChunkRecords, NEW id
  PROVE  Nudged(ch, ForgetCleanup(ch, id), t)
<1> DEFINE n == Len(ch.cleanup)
           hit == {i \in 1 .. n : ch.cleanup[i].id = id}
           i == CHOOSE i \in hit : \A j \in hit : i <= j
           s == [j \in 1 .. n - 1 |-> IF j = i THEN ch.cleanup[n] ELSE ch.cleanup[j]]
<1>1. CASE hit = {}
  BY <1>1, NudgedSame DEF ForgetCleanup
<1>2. CASE hit # {}
  <2>1. ch.cleanup \in Seq(CleanupResources) /\ n \in Nat
    BY DEF ChunkRecords
  <2>2. n - 1 \in Nat
    <3>1. PICK k \in 1 .. n : TRUE
      BY <1>2
    <3>2. QED
      BY <2>1, <3>1
  <2>3. \A j \in 1 .. n - 1 : ch.cleanup[n] \in CleanupResources /\ ch.cleanup[j] \in CleanupResources
    BY <2>1, <2>2
  <2>4. s \in [1 .. n - 1 -> CleanupResources]
    BY <2>3
  <2>5. s \in Seq(CleanupResources)
    BY <2>2, <2>4
  <2>6. ForgetCleanup(ch, id) = [ch EXCEPT !.cleanup = s]
    BY <1>2 DEF ForgetCleanup
  <2> HIDE DEF s
  <2>7. QED
    BY <2>5, <2>6 DEF Nudged, ChunkRecords
<1>3. QED
  BY <1>1, <1>2

LEMMA UpdateNudges ==
  ASSUME Typed, NEW t \in Threads, NEW c \in Chunks, NEW d, Nudged(chunk[c], d, t),
         chunk' = [chunk EXCEPT ![c] = d]
  PROVE  NudgesChunks(t)
<1>1. \A e \in Chunks : Nudged(chunk[e], chunk[e], t)
  BY NudgedSame DEF Typed
<1>2. chunk' \in [Chunks -> ChunkRecords]
  BY DEF Typed, Nudged
<1>3. OneChunk
  BY DEF Typed, OneChunk
<1>4. QED
  BY <1>1, <1>2, <1>3 DEF Typed, NudgesChunks

LEMMA SameNudges ==
  ASSUME Typed, NEW t \in Threads, chunk' = chunk
  PROVE  NudgesChunks(t)
BY NudgedSame DEF Typed, NudgesChunks, OneChunk

LEMMA SameQuiet ==
  ASSUME Typed, NEW t \in Threads, store' = store
  PROVE  Quiet(t)
BY DEF Typed, Quiet

\* What a step does to one resource of its thread, or to a fresh one.
LEMMA UpdateQuiet ==
  ASSUME Typed, NEW t \in Threads, NEW r, r \in Claims(t) \cup Fresh \cup {None},
         NEW d \in Descriptors \cup {None}, store' = [store EXCEPT ![r] = d]
  PROVE  Quiet(t)
<1>1. None \notin Resources
  BY TransactionAssumption DEF TransactionAssumption
<1>2. QED
  BY <1>1 DEF Typed, Quiet

\* A fresh resource is nobody's.
LEMMA FreshIsNew ==
  ASSUME Typed, Threaded, NEW r \in Fresh
  PROVE  /\ r \in Resources /\ store[r] = None
         /\ \A c \in Chunks : chunk[c].auth.resource # r
         /\ \A u \in Threads : r \notin OwnIds(loc[u]) /\ r \notin Claims(u)
<1>1. r \in Resources /\ store[r] = None /\ \A c \in Chunks : chunk[c].auth.resource # r
  BY DEF Fresh
<1>2. None \notin Resources /\ None \notin Authorities
  BY TransactionAssumption DEF TransactionAssumption
<1>3. ASSUME NEW u \in Threads PROVE r \notin OwnIds(loc[u]) /\ r \notin Claims(u)
  <2>1. r \notin Named(loc[u])
    BY DEF Fresh
  <2>2. r \notin OwnIds(loc[u])
    BY <1>1, <1>2, <2>1 DEF Named, OwnIds
  <2>3. CASE pc[u] \in PostCommit
    <3>1. loc[u].src # None
      BY <1>2, <2>3 DEF Threaded, ThreadInv, Transacting
    <3>2. QED
      BY <2>1, <2>2, <2>3, <3>1 DEF Named, Claims, ClaimsAt
  <2>4. CASE pc[u] \notin PostCommit
    BY <2>2, <2>4 DEF OwnIds, Claims, ClaimsAt
  <2>5. QED
    BY <2>2, <2>3, <2>4
<1>4. QED
  BY <1>1, <1>3

\* The users of the chunks see nothing of the step, but that a chunk may be given up; and a
\* transition starts on a live chunk only.
Steady(t) ==
  /\ Others(t) /\ OneChunk
  /\ \A c \in Chunks :
       /\ chunk'[c].auth = chunk[c].auth
       /\ chunk'[c].readers = chunk[c].readers /\ chunk'[c].writer = chunk[c].writer
       /\ chunk'[c].lifecycle \in {chunk[c].lifecycle, "poisoned"}
       /\ chunk'[c].txn \in {None, chunk[c].txn} \/ chunk[c].lifecycle = "live"
       /\ store'[chunk[c].auth.resource] = store[chunk[c].auth.resource]

\* The frame carries the invariant over, for everything but the thread that moves.
LEMMA SteadyStep ==
  ASSUME TransactionInv, NEW t \in Threads, NEW p \in PCs \ Holding, NEW l \in Locals,
         Moves(t, p, l), pc[t] \notin Holding, Framed(t),
         l.acquire = loc[t].acquire,
         l.acquire => l.chunk = loc[t].chunk /\ l.access = loc[t].access,
         ClaimsAt(p, l) \subseteq Claims(t) \cup Fresh,
         ThreadInv(t)'
  PROVE  TransactionInv' /\ Steady(t)
<1> USE DEF TransactionInv
<1>1. None \notin Threads /\ None \notin Resources /\ None \notin Descriptors
  BY TransactionAssumption DEF TransactionAssumption
<1>2. /\ pc'[t] = p /\ loc'[t] = l
      /\ \A u \in Threads \ {t} : pc'[u] = pc[u] /\ loc'[u] = loc[u]
  BY DEF Moves, Others
<1>3. chunk' \in [Chunks -> ChunkRecords] /\ \A c \in Chunks : Nudged(chunk[c], chunk'[c], t)
  BY DEF Framed, NudgesChunks
<1>4. \A r \in Resources \ (Claims(t) \cup Fresh) : store'[r] = store[r]
  BY DEF Framed, Quiet
<1>5. Typed'
  BY DEF Framed, Quiet, NudgesChunks, Moves, Typed
<1>6. \A c \in Chunks : store'[chunk[c].auth.resource] = store[chunk[c].auth.resource]
  <2> SUFFICES ASSUME NEW c \in Chunks
               PROVE  store'[chunk[c].auth.resource] = store[chunk[c].auth.resource]
    OBVIOUS
  <2>1. chunk[c].auth.resource \in Resources
    BY DEF Typed, ChunkRecords, Authorities
  <2>2. chunk[c].auth.resource \notin Claims(t)
    BY DEF Claimed
  <2>3. chunk[c].auth.resource \notin Fresh
    BY FreshIsNew
  <2>4. QED
    BY <1>4, <2>1, <2>2, <2>3
<1>7. \A u \in Threads \ {t} : \A r \in Claims(u) \cap Resources : store'[r] = store[r]
  BY <1>4, FreshIsNew DEF Claimed
<1>8. Locked'
  <2>1. ASSUME NEW c \in Chunks PROVE IntentHolders(c)' = IntentHolders(c)
    BY <1>2 DEF IntentHolders
  <2>2. ASSUME NEW c \in Chunks
        PROVE ReadHolders(c)' = ReadHolders(c) /\ WriteHolders(c)' = WriteHolders(c)
    BY <1>2 DEF ReadHolders, WriteHolders
  <2>3. ASSUME NEW c \in Chunks PROVE \A u \in IntentHolders(c) : loc'[u].access = loc[u].access
    BY <1>2 DEF IntentHolders
  <2>4. ASSUME NEW c \in Chunks PROVE ChunkLocked(c)'
    <3>1. Nudged(chunk[c], chunk'[c], t) /\ ChunkLocked(c)
      BY <1>3 DEF Locked
    <3>2. \A u \in IntentHolders(c) : loc'[u].access = loc[u].access
      BY <2>3
    <3>3. QED
      BY <1>1, <2>1, <2>2, <3>1, <3>2 DEF ChunkLocked, Nudged
  <2>5. QED
    BY <2>4 DEF Locked
<1>9. ASSUME NEW u \in Threads \ {t} PROVE ThreadInv(u)'
  <2>1. pc'[u] = pc[u] /\ loc'[u] = loc[u] /\ ThreadInv(u)
    BY <1>2 DEF Threaded
  <2>2. loc[u].chunk \in Chunks \/ pc[u] = "idle"
    BY <2>1 DEF ThreadInv, PlacedAt
  <2>3. Transacting(u)'
    <3>1. CASE pc[u] = "idle"
      BY <2>1, <3>1 DEF Transacting, PreCommit, PostCommit, Filled
    <3>2. CASE loc[u].chunk \in Chunks
      <4>1. Nudged(chunk[loc[u].chunk], chunk'[loc[u].chunk], t)
        BY <1>3, <3>2
      <4>2. QED
        BY <1>1, <2>1, <4>1 DEF Transacting, ThreadInv, Nudged, OwnChunk
    <3>3. QED
      BY <2>2, <3>1, <3>2
  <2>4. DeliveringAt(pc[u], loc[u], store)'
    <3>1. CASE pc[u] \in Filled
      <4>1. loc[u].dst.id \in Claims(u) \cap Resources
        BY <1>1, <2>1, <3>1 DEF ThreadInv, DeliveringAt, Claims, ClaimsAt, PreCommit, PostCommit, Filled
      <4>2. store'[loc[u].dst.id] = store[loc[u].dst.id]
        BY <1>7, <4>1
      <4>3. QED
        BY <2>1, <4>2 DEF ThreadInv, DeliveringAt
    <3>2. QED
      BY <2>1, <3>1 DEF DeliveringAt
  <2>5. TargetingAt(pc[u], loc[u], store)'
    <3>1. CASE pc[u] \in Compacting /\ loc[u].comp.id # None
      <4>1. loc[u].comp.id \in Claims(u) \cap Resources
        BY <3>1 DEF Typed, Locals, Allocations, Claims, ClaimsAt, PreCommit, PostCommit, Filled,
                    Compacting
      <4>2. store'[loc[u].comp.id] = store[loc[u].comp.id]
        BY <1>7, <4>1
      <4>3. QED
        BY <2>1, <4>2 DEF ThreadInv, TargetingAt
    <3>2. QED
      BY <2>1, <3>1 DEF TargetingAt
  <2>6. Recording(u)'
    <3>1. CASE pc[u] \in Writing
      <4>1. loc[u].chunk \in Chunks
        BY <2>2, <3>1 DEF Writing
      <4>2. Nudged(chunk[loc[u].chunk], chunk'[loc[u].chunk], t)
            /\ store'[chunk[loc[u].chunk].auth.resource] = store[chunk[loc[u].chunk].auth.resource]
        BY <1>3, <1>6, <4>1
      <4>3. QED
        BY <2>1, <3>1, <4>2 DEF Recording, ThreadInv, Nudged, OwnChunk
    <3>2. QED
      BY <2>1, <3>1 DEF Recording
  <2>7. QED
    BY <2>1, <2>3, <2>4, <2>5, <2>6 DEF ThreadInv
<1>10. Claimed'
  <2>1. Claims(t)' \subseteq Claims(t) \cup Fresh
    BY <1>2 DEF Claims
  <2>2. \A u \in Threads \ {t} : Claims(u)' = Claims(u)
    BY <1>2 DEF Claims
  <2>3. \A c \in Chunks : chunk'[c].auth = chunk[c].auth
    BY <1>3 DEF Nudged
  <2>4. \A r \in Fresh : /\ \A c \in Chunks : chunk[c].auth.resource # r
                         /\ \A u \in Threads : r \notin Claims(u)
    BY FreshIsNew
  <2>5. QED
    BY <2>1, <2>2, <2>3, <2>4 DEF Claimed
<1>11. Kept'
  <2>1. ASSUME NEW c \in Chunks PROVE ChunkKept(c)'
    <3>1. Nudged(chunk[c], chunk'[c], t) /\ ChunkKept(c)
          /\ store'[chunk[c].auth.resource] = store[chunk[c].auth.resource]
      BY <1>3, <1>6 DEF Kept
    <3>2. WriteInFlight(c) => WriteInFlight(c)'
      BY <1>2 DEF WriteInFlight, Holding
    <3>3. QED
      BY <3>1, <3>2 DEF ChunkKept, Nudged
  <2>2. QED
    BY <2>1 DEF Kept
<1>12. Steady(t)
  <2>1. Others(t) /\ OneChunk
    BY DEF Moves, Framed, NudgesChunks
  <2>2. QED
    BY <1>3, <1>6, <2>1 DEF Nudged, Steady
<1>13. QED
  BY <1>5, <1>8, <1>9, <1>10, <1>11, <1>12 DEF Threaded

(***************************************************************************)
(* The ways a step of a migration ends                                     *)
(***************************************************************************)

\* migrate returns.
LEMMA ReturnStep ==
  ASSUME TransactionInv, NEW t \in Threads, NEW ok \in BOOLEAN, Return(t, ok), Framed(t),
         pc[t] \notin Holding \cup {"idle"}
  PROVE  TransactionInv' /\ Steady(t)
<1> DEFINE l == ReturnLocals(loc[t])
<1>1. PICK p \in {"idle", "pin", "drop_intent"} : Moves(t, p, l) /\ (p = "idle" <=> ~loc[t].acquire)
  BY ReturnMoves DEF TransactionInv
<1>2. loc[t] \in Locals /\ PlacedAt(pc[t], loc[t])
  BY DEF TransactionInv, Typed, Threaded, ThreadInv
<1>3. /\ l \in Locals /\ l.acquire = loc[t].acquire
      /\ l.acquire => l.chunk = loc[t].chunk /\ l.access = loc[t].access
      /\ l.dst = NoAlloc /\ l.ws = NoAlloc /\ l.comp = NoAlloc
  BY <1>2, ReturnLocalsTyped
<1> HIDE DEF l
<1>4. p \in PCs \ Holding /\ p \notin Writing \cup PreCommit \cup PostCommit \cup Unwinding \cup {"begin", "settle"}
      /\ p \notin Filled \cup Compacting /\ "idle" \notin Leasing /\ pc[t] # "idle"
  BY DEF PCs, Holding, Writing, Leasing, PreCommit, PostCommit, Unwinding, Filled, Compacting
<1>5. PlacedAt(p, l)
  BY <1>1, <1>2, <1>3, <1>4 DEF PlacedAt
<1>6. pc'[t] = p /\ loc'[t] = l
  BY <1>1 DEF Moves
<1>7. ThreadInv(t)'
  BY <1>4, <1>5, <1>6 DEF ThreadInv, Transacting, DeliveringAt, TargetingAt, Recording
<1>8. ClaimsAt(p, l) = {}
  BY <1>4 DEF ClaimsAt
<1>9. QED
  BY <1>1, <1>3, <1>4, <1>7, <1>8, SteadyStep

\* The thread stays in its transaction, with locals that differ in bookkeeping only.
Kin(l, m) ==
  l.chunk = m.chunk /\ l.acquire = m.acquire /\ l.access = m.access /\ l.dest = m.dest
    /\ l.src = m.src

\* The next step of a transaction that has not committed.
LEMMA WorkStep ==
  ASSUME TransactionInv, NEW t \in Threads, NEW p \in PreCommit, NEW l \in Locals, Goto(t, p, l),
         pc[t] \in PreCommit, Kin(l, loc[t]), Framed(t), UNCHANGED chunk,
         {l.dst.id, l.ws.id, l.comp.id} \subseteq OwnIds(loc[t]) \cup Fresh,
         DeliveringAt(p, l, store'), TargetingAt(p, l, store')
  PROVE  TransactionInv' /\ Steady(t)
<1>1. p \in PCs \ Holding /\ p \notin Leasing \cup Writing \cup PostCommit \cup Unwinding
      /\ p \notin {"begin", "idle", "settle"}
  BY DEF PCs, Holding, Leasing, Writing, PreCommit, PostCommit, Unwinding, Filled
<1>2. pc[t] \notin Holding \cup PostCommit \cup {"idle"}
  BY DEF Holding, PreCommit, PostCommit, Filled
<1>3. Moves(t, p, l)
  BY <1>1, GotoMoves DEF TransactionInv
<1>4. PlacedAt(pc[t], loc[t]) /\ Transacting(t)
  BY DEF TransactionInv, Threaded, ThreadInv
<1>5. PlacedAt(p, l)
  BY <1>1, <1>2, <1>4 DEF PlacedAt, Kin
<1>6. pc'[t] = p /\ loc'[t] = l
  BY <1>3 DEF Moves
<1>7. Transacting(t)'
  BY <1>1, <1>4, <1>6 DEF Transacting, Kin, OwnChunk
<1>8. ThreadInv(t)'
  BY <1>1, <1>5, <1>6, <1>7 DEF ThreadInv, Recording
<1>9. ClaimsAt(p, l) \subseteq Claims(t) \cup Fresh
  BY <1>1, <1>2 DEF Claims, ClaimsAt, OwnIds
<1>10. QED
  BY <1>1, <1>2, <1>3, <1>8, <1>9, SteadyStep DEF Kin

\* A transaction is given up: its resources are released one by one.
LEMMA UndoStep ==
  ASSUME TransactionInv, NEW t \in Threads, NEW p \in Unwinding \cup {"terminated"},
         NEW l \in Locals, Goto(t, p, l),
         pc[t] \in PreCommit \cup Unwinding, Kin(l, loc[t]), Framed(t),
         {l.dst.id, l.ws.id, l.comp.id} \subseteq OwnIds(loc[t]) \cup Fresh,
         p # "terminated" => \A i \in 1 .. Len(l.todo) : l.todo[i].id \in OwnIds(l),
         p = "settle" => l.todo # <<>>
  PROVE  TransactionInv' /\ Steady(t)
<1>1. p \in PCs \ Holding
      /\ p \notin Leasing \cup Writing \cup PreCommit \cup PostCommit \cup Filled \cup Compacting \cup {"begin", "idle"}
  BY DEF PCs, Holding, Leasing, Writing, PreCommit, PostCommit, Unwinding, Filled, Compacting
<1>2. pc[t] \notin Holding \cup PostCommit \cup {"idle"}
  BY DEF Holding, PreCommit, PostCommit, Unwinding, Filled
<1>3. Moves(t, p, l)
  BY <1>1, GotoMoves DEF TransactionInv
<1>4. PlacedAt(pc[t], loc[t])
  BY DEF TransactionInv, Threaded, ThreadInv
<1>5. PlacedAt(p, l)
  BY <1>1, <1>2, <1>4 DEF PlacedAt, Kin, Unwinding
<1>6. pc'[t] = p /\ loc'[t] = l
  BY <1>3 DEF Moves
<1>7. ThreadInv(t)'
  BY <1>1, <1>5, <1>6 DEF ThreadInv, Transacting, DeliveringAt, TargetingAt, Recording
<1>8. ClaimsAt(p, l) \subseteq Claims(t) \cup Fresh
  BY <1>1, <1>2 DEF Claims, ClaimsAt, OwnIds
<1>9. QED
  BY <1>1, <1>2, <1>3, <1>7, <1>8, SteadyStep DEF Kin

LEMMA TerminateStep ==
  ASSUME TransactionInv, NEW t \in Threads, Terminate(t), pc[t] \in PreCommit \cup Unwinding, Framed(t)
  PROVE  TransactionInv' /\ Steady(t)
<1>1. loc[t] \in Locals
  BY DEF TransactionInv, Typed
<1>2. {loc[t].dst.id, loc[t].ws.id, loc[t].comp.id} \subseteq OwnIds(loc[t]) \cup Fresh
  BY DEF OwnIds
<1>3. QED
  BY <1>1, <1>2, UndoStep DEF Terminate, Kin

LEMMA Concatenation ==
  ASSUME NEW S, NEW s \in Seq(S), NEW r \in Seq(S)
  PROVE  s \o r \in Seq(S) /\ Len(s \o r) = Len(s) + Len(r)
OBVIOUS

\* The items of a rollback.
OwnItems(l, items) ==
  items \in Seq(Items) /\ \A i \in 1 .. Len(items) : items[i].id \in OwnIds(l)

LEMMA NoItems == ASSUME NEW l PROVE OwnItems(l, <<>>)
BY DEF OwnItems

LEMMA OneItem ==
  ASSUME NEW l, NEW a \in Allocations, a.id \in OwnIds(l), NEW b \in Buckets, NEW poison \in BOOLEAN
  PROVE  OwnItems(l, <<Item(a, b, poison)>>)
<1>1. Item(a, b, poison) \in Items /\ Item(a, b, poison).id = a.id
  BY DEF Item, Items, Allocations
<1>2. QED
  BY <1>1 DEF OwnItems

LEMMA TwoItems ==
  ASSUME NEW l, NEW a \in Allocations, a.id \in OwnIds(l), NEW b \in Buckets, NEW poison \in BOOLEAN,
         NEW a2 \in Allocations, a2.id \in OwnIds(l), NEW b2 \in Buckets, NEW poison2 \in BOOLEAN
  PROVE  OwnItems(l, <<Item(a, b, poison), Item(a2, b2, poison2)>>)
<1>1. /\ Item(a, b, poison) \in Items /\ Item(a, b, poison).id = a.id
      /\ Item(a2, b2, poison2) \in Items /\ Item(a2, b2, poison2).id = a2.id
  BY DEF Item, Items, Allocations
<1>2. QED
  BY <1>1 DEF OwnItems

LEMMA JoinItems ==
  ASSUME NEW l, NEW s, OwnItems(l, s), NEW r, OwnItems(l, r)
  PROVE  OwnItems(l, s \o r)
<1>1. s \in Seq(Items) /\ r \in Seq(Items)
  BY DEF OwnItems
<1>2. s \o r \in Seq(Items) /\ Len(s \o r) = Len(s) + Len(r)
  BY <1>1
<1>3. ASSUME NEW i \in 1 .. Len(s \o r) PROVE (s \o r)[i].id \in OwnIds(l)
  <2>1. CASE i <= Len(s)
    BY <1>1, <1>2, <2>1 DEF OwnItems
  <2>2. CASE ~(i <= Len(s))
    <3>1. (s \o r)[i] = r[i - Len(s)] /\ i - Len(s) \in 1 .. Len(r)
      BY <1>1, <1>2, <2>2
    <3>2. QED
      BY <3>1 DEF OwnItems
  <2>3. QED
    BY <2>1, <2>2
<1>4. QED
  BY <1>2, <1>3 DEF OwnItems

LEMMA WorkspaceItems ==
  ASSUME Typed, NEW t \in Threads PROVE OwnItems(loc[t], WorkspaceItem(t))
<1>1. loc[t].ws \in Allocations /\ loc[t].ws.id \in OwnIds(loc[t])
  BY DEF Typed, Locals, OwnIds
<1>2. QED
  BY <1>1, NoItems, OneItem DEF WorkspaceItem, Buckets

\* What the rollbacks of a transaction release: the destination, after whatever workspace
\* and compaction target there are.
LEMMA DestinationItems ==
  ASSUME Typed, NEW t \in Threads, NEW poison \in BOOLEAN
  PROVE  /\ OwnItems(loc[t], <<Item(loc[t].dst, "staging", poison)>>)
         /\ OwnItems(loc[t], WorkspaceItem(t) \o <<Item(loc[t].dst, "staging", poison)>>)
         /\ OwnItems(loc[t], <<Item(loc[t].ws, "workspace", FALSE),
                               Item(loc[t].dst, "staging", poison)>>)
         /\ OwnItems(loc[t], <<Item(loc[t].comp, "workspace", FALSE)>> \o WorkspaceItem(t)
                               \o <<Item(loc[t].dst, "staging", poison)>>)
<1>1. /\ loc[t].dst \in Allocations /\ loc[t].dst.id \in OwnIds(loc[t])
      /\ loc[t].ws \in Allocations /\ loc[t].ws.id \in OwnIds(loc[t])
      /\ loc[t].comp \in Allocations /\ loc[t].comp.id \in OwnIds(loc[t])
  BY DEF Typed, Locals, OwnIds
<1>2. "staging" \in Buckets /\ "workspace" \in Buckets /\ FALSE \in BOOLEAN
  BY DEF Buckets
<1> DEFINE d == <<Item(loc[t].dst, "staging", poison)>>
           k == <<Item(loc[t].comp, "workspace", FALSE)>>
<1>3. OwnItems(loc[t], d) /\ OwnItems(loc[t], k)
  BY <1>1, <1>2, OneItem
<1>4. OwnItems(loc[t], WorkspaceItem(t))
  BY WorkspaceItems
<1>5. OwnItems(loc[t], <<Item(loc[t].ws, "workspace", FALSE), Item(loc[t].dst, "staging", poison)>>)
  BY <1>1, <1>2, TwoItems
<1> HIDE DEF d, k
<1>6. OwnItems(loc[t], WorkspaceItem(t) \o d) /\ OwnItems(loc[t], k \o WorkspaceItem(t))
  BY <1>3, <1>4, JoinItems
<1>7. OwnItems(loc[t], (k \o WorkspaceItem(t)) \o d)
  BY <1>3, <1>6, JoinItems
<1>8. QED
  BY <1>3, <1>5, <1>6, <1>7 DEF d, k

\* RollBack with any bookkeeping of the tokens and outcomes.
LEMMA RollBackStep ==
  ASSUME TransactionInv, NEW t \in Threads, NEW l \in Locals, Goto(t, "rollback", l),
         pc[t] \in PreCommit \cup Unwinding, Kin(l, loc[t]), Framed(t),
         l.dst = loc[t].dst, l.ws = loc[t].ws, l.comp = loc[t].comp, OwnItems(loc[t], l.todo)
  PROVE  TransactionInv' /\ Steady(t)
<1>1. {l.dst.id, l.ws.id, l.comp.id} \subseteq OwnIds(loc[t]) \cup Fresh
  BY DEF OwnIds
<1>2. \A i \in 1 .. Len(l.todo) : l.todo[i].id \in OwnIds(l)
  BY DEF OwnItems, OwnIds
<1>3. QED
  BY <1>1, <1>2, UndoStep DEF Unwinding

(***************************************************************************)
(* The steps of a migration, up to the reservation                         *)
(***************************************************************************)
LEMMA ProposeStep ==
  ASSUME TransactionInv, NEW t \in Threads, NEW c \in Chunks, NEW d \in Targets, NEW lim \in Limits,
         Propose(t, c, d, lim)
  PROVE  TransactionInv' /\ Steady(t)
<1> USE DEF TransactionInv
<1> DEFINE e == [resource |-> chunk[c].auth.resource, content |-> chunk[c].auth.content,
                 revision |-> chunk[c].revision]
           l == [IdleLocals EXCEPT !.chunk = c, !.gated = Gated, !.dest = d, !.limit = lim,
                                   !.expected = e]
<1>1. e \in Expectations
  BY DEF Typed, ChunkRecords, Authorities, Expectations
<1>2. d \in States /\ lim \in Word \cup {None} /\ Gated \in BOOLEAN
  BY TransactionAssumption DEF TransactionAssumption
<1>3. Goto(t, "begin", l) /\ UNCHANGED <<ledger, store, chunk>> /\ pc[t] = "idle"
  BY DEF Propose
<1> HIDE DEF e
<1>4. /\ l \in Locals /\ l.chunk = c /\ l.acquire = FALSE /\ l.expected = e
      /\ l.dst = NoAlloc /\ l.ws = NoAlloc /\ l.comp = NoAlloc
  BY <1>1, <1>2, IdleTyped, ZenonT(60) DEF IdleLocals, Locals
<1> HIDE DEF l
<1>5. "begin" \in PCs \ Holding /\ pc[t] \notin Holding
      /\ "begin" \notin Leasing \cup Writing \cup PreCommit \cup PostCommit \cup Unwinding \cup Filled \cup Compacting
  BY <1>3 DEF PCs, Holding, Leasing, Writing, PreCommit, PostCommit, Unwinding, Filled, Compacting
<1>6. Moves(t, "begin", l)
  BY <1>3, <1>4, <1>5, GotoMoves
<1>7. l.acquire = loc[t].acquire
  BY <1>3, <1>4 DEF Threaded, ThreadInv, PlacedAt, Typed, Locals
<1>8. ThreadInv(t)'
  <2>1. PlacedAt("begin", l)
    BY <1>1, <1>4, <1>5 DEF PlacedAt
  <2>2. pc'[t] = "begin" /\ loc'[t] = l
    BY <1>6 DEF Moves
  <2>3. QED
    BY <1>5, <2>1, <2>2 DEF ThreadInv, Transacting, DeliveringAt, TargetingAt, Recording
<1>9. Framed(t)
  BY <1>3, SameNudges, SameQuiet DEF Framed, Typed
<1>10. ClaimsAt("begin", l) = {}
  BY <1>5 DEF ClaimsAt
<1>11. QED
  BY <1>4, <1>5, <1>6, <1>7, <1>8, <1>9, <1>10, SteadyStep

LEMMA BeginStep ==
  ASSUME TransactionInv, NEW t \in Threads, Begin(t)
  PROVE  TransactionInv' /\ Steady(t)
<1> USE DEF TransactionInv
<1> DEFINE c == loc[t].chunk
<1>1. pc[t] = "begin" /\ UNCHANGED <<ledger, store>> /\ pc[t] \notin Holding \cup {"idle"}
  BY DEF Begin, Holding
<1>2. PlacedAt(pc[t], loc[t]) /\ loc[t] \in Locals
  BY DEF Threaded, ThreadInv, Typed
<1>3. c \in Chunks
  BY <1>1, <1>2 DEF PlacedAt
<1>4. CASE chunk' = chunk
  <2>1. Framed(t)
    BY <1>1, <1>4, SameNudges, SameQuiet DEF Framed, Typed
  <2>2. CASE ~Refused(t) /\ chunk[c].auth.state # loc[t].dest
    <3>1. chunk'[c].txn = t
      BY <1>3, <2>2 DEF Begin, Typed, ChunkRecords
    <3>2. chunk[c].txn # t
      BY <2>2, TransactionAssumption DEF Refused, Busy, TransactionAssumption
    <3>3. QED
      BY <1>4, <3>1, <3>2
  <2>3. CASE ~(~Refused(t) /\ chunk[c].auth.state # loc[t].dest)
    <3>1. \E ok \in BOOLEAN : Return(t, ok)
      BY <2>3 DEF Begin
    <3>2. QED
      BY <1>1, <2>1, <3>1, ReturnStep
  <2>4. QED
    BY <2>2, <2>3
<1>5. CASE chunk' # chunk
  <2> DEFINE l == [loc[t] EXCEPT !.src = chunk[c].auth]
             d == [chunk[c] EXCEPT !.txn = t]
  <2>1. /\ ~Refused(t) /\ chunk[c].auth.state # loc[t].dest
        /\ Goto(t, "project", l) /\ chunk' = [chunk EXCEPT ![c] = d]
    BY <1>5 DEF Begin
  <2>2. chunk[c] \in ChunkRecords /\ chunk[c].auth \in Authorities
    BY <1>3 DEF Typed, ChunkRecords
  <2>3. /\ chunk[c].lifecycle = "live"
        /\ chunk[c].txn = None /\ chunk[c].readers = 0 /\ ~chunk[c].writer
    BY <2>1 DEF Refused, Busy
  <2>4. Nudged(chunk[c], d, t)
    BY <2>2, <2>3 DEF Nudged, ChunkRecords
  <2>5. Framed(t)
    BY <1>1, <1>3, <2>1, <2>4, UpdateNudges, SameQuiet DEF Framed, Typed
  <2>6. /\ l \in Locals /\ l.src = chunk[c].auth /\ l.chunk = c /\ l.acquire = loc[t].acquire
        /\ l.access = loc[t].access /\ l.dest = loc[t].dest
        /\ l.dst = loc[t].dst /\ l.ws = loc[t].ws /\ l.comp = loc[t].comp
    BY <1>2, <2>2 DEF Locals
  <2>7. chunk'[c].txn = t /\ chunk'[c].auth = chunk[c].auth
    BY <1>3, <2>1, <2>2 DEF Typed, ChunkRecords
  <2> HIDE DEF l, d
  <2>8. /\ "project" \in PCs \ Holding /\ pc[t] \notin Holding /\ "project" \in PreCommit
        /\ "project" \notin Leasing \cup Writing \cup PostCommit \cup Unwinding \cup Filled \cup {"begin"}
    BY <1>1 DEF PCs, Holding, Leasing, Writing, PreCommit, PostCommit, Unwinding, Filled
  <2>9. Moves(t, "project", l)
    BY <2>1, <2>6, <2>8, GotoMoves
  <2>10. l.dst.id = None /\ l.ws.id = None /\ l.comp.id = None
    BY <1>1, <1>2, <2>6 DEF PlacedAt, NoAlloc
  <2>11. pc'[t] = "project" /\ loc'[t] = l
    BY <2>9 DEF Moves
  <2>12. ThreadInv(t)'
    <3>1. PlacedAt("project", l)
      BY <1>2, <1>3, <2>6, <2>8 DEF PlacedAt
    <3>2. Transacting(t)'
      BY <2>1, <2>6, <2>7, <2>8, <2>11 DEF Transacting, OwnChunk
    <3>3. QED
      BY <2>8, <2>10, <2>11, <3>1, <3>2 DEF ThreadInv, DeliveringAt, TargetingAt, Recording
  <2>13. ClaimsAt("project", l) = {}
    BY <2>8, <2>10 DEF ClaimsAt
  <2>14. QED
    BY <2>5, <2>6, <2>8, <2>9, <2>12, <2>13, SteadyStep
<1>6. QED
  BY <1>4, <1>5

\* What a transaction that has not committed knows.
LEMMA WorkFacts ==
  ASSUME TransactionInv, NEW t \in Threads, pc[t] \in PreCommit \cup Unwinding \cup PostCommit
  PROVE  /\ pc[t] \notin Holding \cup {"idle"}
         /\ loc[t] \in Locals /\ loc[t].chunk \in Chunks
         /\ chunk[loc[t].chunk] \in ChunkRecords
         /\ GoodLedger(ledger) /\ Typed
         /\ DestTier(t) \in Tiers
<1>1. pc[t] \notin Holding \cup {"idle"}
  BY DEF Holding, PreCommit, PostCommit, Unwinding, Filled
<1>2. loc[t] \in Locals /\ loc[t].chunk \in Chunks
  BY <1>1 DEF TransactionInv, Typed, Threaded, ThreadInv, PlacedAt
<1>3. DestTier(t) \in Tiers
  BY <1>2, TiersTyped DEF DestTier, Locals
<1>4. QED
  BY <1>1, <1>2, <1>3 DEF TransactionInv, Typed

\* Giving the chunk back, poisoned or not, leaves the frame intact.
LEMMA ReleaseFrame ==
  ASSUME TransactionInv, NEW t \in Threads, pc[t] \in PreCommit \cup Unwinding \cup PostCommit,
         GoodLedger(ledger'), Quiet(t),
         \/ chunk' = chunk
         \/ chunk' = [chunk EXCEPT ![loc[t].chunk] = Poison(@, t)]
         \/ chunk' = [chunk EXCEPT ![loc[t].chunk] = ClearTransition(@, t)]
  PROVE  Framed(t)
<1> DEFINE c == loc[t].chunk
<1>1. c \in Chunks /\ chunk[c] \in ChunkRecords /\ Typed
  BY WorkFacts
<1>2. Nudged(chunk[c], ClearTransition(chunk[c], t), t) /\ Nudged(chunk[c], Poison(chunk[c], t), t)
  BY <1>1, NudgedSame, ClearNudges
<1>3. NudgesChunks(t)
  BY <1>1, <1>2, SameNudges, UpdateNudges
<1>4. QED
  BY <1>3 DEF Framed

LEMMA ProjectStep ==
  ASSUME TransactionInv, NEW t \in Threads, Project(t)
  PROVE  TransactionInv' /\ Steady(t)
<1>1. pc[t] = "project" /\ pc[t] \in PreCommit /\ UNCHANGED <<ledger, store>>
  BY DEF Project, PreCommit
<1>2. GoodLedger(ledger') /\ Quiet(t) /\ pc[t] \notin Holding \cup {"idle"} /\ loc[t] \in Locals
  BY <1>1, WorkFacts, SameQuiet
<1>3. CASE Return(t, FALSE) /\ \/ chunk' = [chunk EXCEPT ![loc[t].chunk] = Poison(@, t)]
                               \/ chunk' = [chunk EXCEPT ![loc[t].chunk] = ClearTransition(@, t)]
  BY <1>1, <1>2, <1>3, ReleaseFrame, ReturnStep
<1>4. CASE Goto(t, "reserve", loc[t]) /\ UNCHANGED chunk
  <2>1. Framed(t)
    BY <1>1, <1>2, <1>4, ReleaseFrame
  <2>2. "reserve" \in PreCommit /\ "reserve" \notin Filled /\ "project" \in Compacting
    BY DEF PreCommit, Filled, Compacting
  <2>3. TargetingAt("project", loc[t], store)
    BY <1>1 DEF TransactionInv, Threaded, ThreadInv
  <2>4. DeliveringAt("reserve", loc[t], store') /\ TargetingAt("reserve", loc[t], store')
    BY <1>1, <2>2, <2>3 DEF DeliveringAt, TargetingAt
  <2>5. {loc[t].dst.id, loc[t].ws.id, loc[t].comp.id} \subseteq OwnIds(loc[t]) \cup Fresh
        /\ Kin(loc[t], loc[t])
    BY DEF OwnIds, Kin
  <2>6. QED
    BY <1>1, <1>2, <1>4, <2>1, <2>2, <2>4, <2>5, WorkStep
<1>5. QED
  BY <1>3, <1>4 DEF Project

LEMMA RequestsTyped ==
  ASSUME TransactionInv, NEW t \in Threads, pc[t] \in PreCommit
  PROVE  Requests(t) \in Seq(ReservationRequests) /\ Len(Requests(t)) <= 3
<1> DEFINE s == loc[t].dest
           a == <<Temporary(DestTier(t), "staging", AllocationBound[s])>>
           w == <<Temporary(DestTier(t), "workspace", WorkspaceBound)>>
           k == <<Temporary(DestTier(t), "workspace", CompactionBound[s])>>
           ow == IF NeedsWorkspace(t) THEN w ELSE <<>>
           ok == IF NeedsCompaction(t) THEN k ELSE <<>>
<1>1. s \in States /\ DestTier(t) \in Tiers
  BY WorkFacts DEF Locals
<1>2. AllocationBound[s] \in Word /\ WorkspaceBound \in Word /\ CompactionBound[s] \in Word
  BY <1>1, TransactionAssumption DEF TransactionAssumption
<1>3. \A b \in Buckets, n \in Word : Temporary(DestTier(t), b, n) \in ReservationRequests
  BY <1>1 DEF Temporary, ReservationRequests, Admissions
<1>4. a \in Seq(ReservationRequests) /\ w \in Seq(ReservationRequests) /\ k \in Seq(ReservationRequests)
      /\ Len(a) = 1 /\ Len(w) = 1 /\ Len(k) = 1
  BY <1>2, <1>3 DEF Buckets
<1> HIDE DEF a, w, k
<1>5. ow \in Seq(ReservationRequests) /\ ok \in Seq(ReservationRequests)
      /\ Len(ow) \in 0 .. 1 /\ Len(ok) \in 0 .. 1
  <2>1. <<>> \in Seq(ReservationRequests) /\ Len(<<>>) = 0
    OBVIOUS
  <2>2. CASE NeedsWorkspace(t)
    BY <1>4, <2>1, <2>2
  <2>3. CASE ~NeedsWorkspace(t)
    BY <1>4, <2>1, <2>3
  <2>4. QED
    BY <2>2, <2>3
<1> HIDE DEF ow, ok
<1>6. a \o ow \o ok \in Seq(ReservationRequests) /\ Len(a \o ow \o ok) <= 3
  <2>1. a \o ow \in Seq(ReservationRequests) /\ Len(a \o ow) = Len(a) + Len(ow)
    BY <1>4, <1>5, Concatenation
  <2>2. (a \o ow) \o ok \in Seq(ReservationRequests) /\ Len((a \o ow) \o ok) = Len(a \o ow) + Len(ok)
    BY <1>5, <2>1, Concatenation
  <2>3. QED
    BY <1>4, <1>5, <2>1, <2>2
<1>7. QED
  BY <1>6 DEF Requests, a, w, k, ow, ok

LEMMA ReserveAllStep ==
  ASSUME TransactionInv, NEW t \in Threads, ReserveAll(t)
  PROVE  TransactionInv' /\ Steady(t)
<1> DEFINE reqs == Requests(t)
           toks == [i \in 1 .. 3 |-> IF i <= Len(reqs) THEN TokenFor(reqs[i]) ELSE InactiveToken]
           l == [loc[t] EXCEPT !.toks = toks]
<1>1. pc[t] = "reserve" /\ pc[t] \in PreCommit /\ UNCHANGED store
  BY DEF ReserveAll, PreCommit
<1>2. GoodLedger(ledger) /\ Quiet(t) /\ pc[t] \notin Holding \cup {"idle"} /\ loc[t] \in Locals
  BY <1>1, WorkFacts, SameQuiet
<1>3. reqs \in Seq(ReservationRequests)
  BY <1>1, RequestsTyped
<1>4. CASE ReserveOk(ledger, reqs)
  <2>1. ledger' = Reserve(ledger, reqs) /\ Goto(t, "alloc_dst", l) /\ UNCHANGED chunk
    BY <1>4 DEF ReserveAll
  <2>2. Framed(t)
    BY <1>1, <1>2, <1>3, <1>4, <2>1, ReserveLedgerGood, ReleaseFrame
  <2>3. toks \in [1 .. 3 -> ReservationTokens]
    <3>1. \A q \in ReservationRequests : TokenFor(q) \in ReservationTokens
      BY DEF TokenFor, ReservationTokens, ReservationRequests
    <3>2. \A i \in 1 .. 3 : i <= Len(reqs) => reqs[i] \in ReservationRequests
      BY <1>3
    <3>3. QED
      BY <3>1, <3>2, InactiveTyped
  <2> HIDE DEF toks
  <2>4. l \in Locals /\ Kin(l, loc[t]) /\ l.dst = loc[t].dst /\ l.ws = loc[t].ws
        /\ l.comp = loc[t].comp
    BY <1>2, <2>3 DEF Locals, Kin
  <2> HIDE DEF l
  <2>5. "alloc_dst" \in PreCommit /\ "alloc_dst" \notin Filled /\ "reserve" \in Compacting
    BY DEF PreCommit, Filled, Compacting
  <2>6. TargetingAt("reserve", loc[t], store)
    BY <1>1 DEF TransactionInv, Threaded, ThreadInv
  <2>7. DeliveringAt("alloc_dst", l, store') /\ TargetingAt("alloc_dst", l, store')
    BY <1>1, <2>4, <2>5, <2>6 DEF DeliveringAt, TargetingAt
  <2>8. {l.dst.id, l.ws.id, l.comp.id} \subseteq OwnIds(loc[t]) \cup Fresh
    BY <2>4 DEF OwnIds
  <2>9. QED
    BY <1>1, <2>1, <2>2, <2>4, <2>5, <2>7, <2>8, WorkStep
<1>5. CASE ~ReserveOk(ledger, reqs)
  <2>1. chunk' = [chunk EXCEPT ![loc[t].chunk] = ClearTransition(@, t)] /\ Return(t, FALSE)
        /\ UNCHANGED ledger
    BY <1>5 DEF ReserveAll
  <2>2. QED
    BY <1>1, <1>2, <2>1, ReleaseFrame, ReturnStep
<1>6. QED
  BY <1>4, <1>5

(***************************************************************************)
(* Giving up                                                               *)
(***************************************************************************)
LEMMA RollBackPlain ==
  ASSUME TransactionInv, NEW t \in Threads, pc[t] \in PreCommit \cup Unwinding, Framed(t),
         NEW items, OwnItems(loc[t], items), NEW ending \in {"clear", "poison"},
         RollBack(t, items, ending)
  PROVE  TransactionInv' /\ Steady(t)
<1> DEFINE l == [loc[t] EXCEPT !.todo = items, !.ending = ending]
<1>1. loc[t] \in Locals /\ items \in Seq(Items) /\ Goto(t, "rollback", l)
  BY WorkFacts DEF OwnItems, RollBack
<1>2. /\ l \in Locals /\ Kin(l, loc[t]) /\ l.todo = items
      /\ l.dst = loc[t].dst /\ l.ws = loc[t].ws /\ l.comp = loc[t].comp
  BY <1>1 DEF Locals, Kin
<1> HIDE DEF l
<1>3. QED
  BY <1>1, <1>2, RollBackStep

\* A rollback that also drops a token.
LEMMA RollBackToken ==
  ASSUME TransactionInv, NEW t \in Threads, pc[t] \in PreCommit \cup Unwinding, Framed(t),
         NEW items, OwnItems(loc[t], items), NEW i \in 1 .. 3,
         NEW ending \in {"clear", "poison"},
         Goto(t, "rollback", [loc[t] EXCEPT !.toks[i] = InactiveToken, !.todo = items,
                                            !.ending = ending])
  PROVE  TransactionInv' /\ Steady(t)
<1> DEFINE toks == [loc[t].toks EXCEPT ![i] = InactiveToken]
           l == [loc[t] EXCEPT !.toks = toks, !.todo = items, !.ending = ending]
<1>1. loc[t] \in Locals /\ items \in Seq(Items) /\ Goto(t, "rollback", l)
  BY WorkFacts DEF OwnItems
<1>2. toks \in [1 .. 3 -> ReservationTokens]
  BY <1>1, InactiveTyped DEF Locals
<1> HIDE DEF toks
<1>3. /\ l \in Locals /\ Kin(l, loc[t]) /\ l.todo = items
      /\ l.dst = loc[t].dst /\ l.ws = loc[t].ws /\ l.comp = loc[t].comp
  BY <1>1, <1>2 DEF Locals, Kin
<1> HIDE DEF l
<1>4. QED
  BY <1>1, <1>3, RollBackStep

LEMMA FinishStep ==
  ASSUME TransactionInv, NEW t \in Threads, Finish(t)
  PROVE  TransactionInv' /\ Steady(t)
<1> DEFINE toks == loc[t].toks
<1>1. pc[t] = "rollback" /\ pc[t] \in Unwinding /\ UNCHANGED store
      /\ ledger' = DropTokens(ledger, toks)
  BY DEF Finish, Unwinding
<1>2. GoodLedger(ledger) /\ Quiet(t) /\ pc[t] \notin Holding \cup {"idle"} /\ loc[t] \in Locals
  BY <1>1, WorkFacts, SameQuiet
<1>3. \A i \in 1 .. 3 : toks[i] \in ReservationTokens
  BY <1>2 DEF Locals
<1>4. GoodLedger(ledger')
  <2>1. GoodLedger(DropToken(ledger, toks[1]))
    BY <1>2, <1>3, DropTokenGood
  <2>2. GoodLedger(DropToken(DropToken(ledger, toks[1]), toks[2]))
    BY <1>3, <2>1, DropTokenGood
  <2>3. GoodLedger(DropToken(DropToken(DropToken(ledger, toks[1]), toks[2]), toks[3]))
    BY <1>3, <2>2, DropTokenGood
  <2>4. QED
    BY <1>1, <2>3 DEF DropTokens
<1>5. CASE Terminate(t) /\ UNCHANGED chunk
  BY <1>1, <1>2, <1>4, <1>5, ReleaseFrame, TerminateStep
<1>6. CASE Return(t, FALSE) /\ \/ chunk' = [chunk EXCEPT ![loc[t].chunk] = Poison(@, t)]
                               \/ chunk' = [chunk EXCEPT ![loc[t].chunk] = ClearTransition(@, t)]
  BY <1>1, <1>2, <1>4, <1>6, ReleaseFrame, ReturnStep
<1>7. QED
  BY <1>5, <1>6 DEF Finish

(***************************************************************************)
(* Allocation                                                              *)
(***************************************************************************)
LEMMA AllocateFacts ==
  ASSUME TransactionInv, NEW t \in Threads, pc[t] \in PreCommit, NEW r \in NextId, NEW n \in Word,
         store' = [store EXCEPT ![r] = Allocated(DestTier(t), n)], UNCHANGED <<ledger, chunk>>
  PROVE  /\ Framed(t)
         /\ r \in Fresh /\ r \in Resources /\ r \notin OwnIds(loc[t])
         /\ [id |-> r, charge |-> n] \in Allocations
         /\ store'[r] # None /\ store'[r].tier = TierOf(loc[t].dest) /\ store'[r].charge = n
         /\ \A q \in OwnIds(loc[t]) \cap Resources : store'[q] = store[q]
<1>1. r \in Fresh
  BY DEF NextId
<1>2. Typed /\ Threaded /\ GoodLedger(ledger') /\ DestTier(t) \in Tiers
  BY WorkFacts DEF TransactionInv
<1>3. r \in Resources /\ r \notin OwnIds(loc[t])
  BY <1>1, <1>2, FreshIsNew
<1>4. Allocated(DestTier(t), n) \in Descriptors /\ None \notin Descriptors
  BY <1>2, AllocatedTyped, TransactionAssumption DEF TransactionAssumption
<1>5. store'[r] = Allocated(DestTier(t), n)
  BY <1>2, <1>3 DEF Typed
<1>6. Quiet(t)
  BY <1>1, <1>2, <1>4, UpdateQuiet
<1>7. Framed(t)
  BY <1>2, <1>6, SameNudges DEF Framed
<1>8. \A q \in OwnIds(loc[t]) \cap Resources : store'[q] = store[q]
  BY <1>2, <1>3 DEF Typed
<1>9. QED
  BY <1>1, <1>3, <1>4, <1>5, <1>7, <1>8 DEF Allocated, DestTier, Allocations

LEMMA AllocateDestinationStep ==
  ASSUME TransactionInv, NEW t \in Threads, AllocateDestination(t)
  PROVE  TransactionInv' /\ Steady(t)
<1>1. pc[t] = "alloc_dst" /\ pc[t] \in PreCommit /\ pc[t] \in Compacting
      /\ UNCHANGED <<ledger, chunk>>
  BY DEF AllocateDestination, PreCommit, Compacting
<1>2. loc[t] \in Locals /\ Typed
  BY <1>1, WorkFacts
<1>3. ASSUME NEW r \in NextId, NEW n \in AllocationCharges[loc[t].dest],
             store' = [store EXCEPT ![r] = Allocated(DestTier(t), n)],
             Goto(t, "mat_dst", [loc[t] EXCEPT !.dst = [id |-> r, charge |-> n]])
      PROVE  TransactionInv' /\ Steady(t)
  <2> DEFINE a == [id |-> r, charge |-> n]
             l == [loc[t] EXCEPT !.dst = a]
  <2>1. n \in Word
    BY <1>2, TransactionAssumption DEF TransactionAssumption, Locals
  <2>2. /\ Framed(t) /\ r \in Fresh /\ r \in Resources /\ r \notin OwnIds(loc[t])
        /\ a \in Allocations /\ a.id = r /\ a.charge = n
        /\ store'[r] # None /\ store'[r].tier = TierOf(loc[t].dest) /\ store'[r].charge = n
        /\ \A q \in OwnIds(loc[t]) \cap Resources : store'[q] = store[q]
    BY <1>1, <1>3, <2>1, AllocateFacts, ZenonT(60)
  <2> HIDE DEF a
  <2>3. l \in Locals /\ Kin(l, loc[t]) /\ l.dst = a /\ l.ws = loc[t].ws /\ l.comp = loc[t].comp
    BY <1>2, <2>2 DEF Locals, Kin
  <2>4. Goto(t, "mat_dst", l)
    BY <1>3 DEF a
  <2> HIDE DEF l
  <2>5. "mat_dst" \in PreCommit /\ "mat_dst" \notin Verified
    BY DEF PreCommit, Filled, Verified
  <2>6. DeliveringAt("mat_dst", l, store')
    BY <2>2, <2>3, <2>5 DEF DeliveringAt, OwnIds, Kin
  <2>7. TargetingAt("mat_dst", l, store')
    <3>1. TargetingAt("alloc_dst", loc[t], store)
      BY <1>1 DEF TransactionInv, Threaded, ThreadInv
    <3>2. loc[t].comp.id \in Resources \cup {None}
      BY <1>2 DEF Locals, Allocations
    <3>3. QED
      BY <1>1, <2>2, <2>3, <3>1, <3>2 DEF TargetingAt, OwnIds
  <2>8. {l.dst.id, l.ws.id, l.comp.id} \subseteq OwnIds(loc[t]) \cup Fresh
    BY <2>2, <2>3 DEF OwnIds
  <2>9. QED
    BY <1>1, <2>2, <2>3, <2>4, <2>5, <2>6, <2>7, <2>8, WorkStep
<1>4. CASE RollBack(t, <<>>, "clear") /\ UNCHANGED store
  <2>1. Framed(t)
    BY <1>1, <1>2, <1>4, SameNudges, SameQuiet DEF Framed, Typed
  <2>2. QED
    BY <1>1, <1>4, <2>1, NoItems, RollBackPlain
<1>5. QED
  BY <1>3, <1>4 DEF AllocateDestination

\* What a thread with a destination knows.
LEMMA FilledFacts ==
  ASSUME TransactionInv, NEW t \in Threads, pc[t] \in Filled
  PROVE  /\ pc[t] \in PreCommit
         /\ DeliveringAt(pc[t], loc[t], store) /\ TargetingAt(pc[t], loc[t], store)
         /\ loc[t].dst \in Allocations /\ loc[t].ws \in Allocations /\ loc[t].comp \in Allocations
         /\ \A i \in 1 .. 3 : loc[t].toks[i] \in ReservationTokens
         /\ loc[t].dst.charge \in Word /\ loc[t].ws.charge \in Word /\ loc[t].comp.charge \in Word
<1>1. pc[t] \in PreCommit
  BY DEF PreCommit
<1>2. loc[t] \in Locals
  BY <1>1, WorkFacts
<1>3. QED
  BY <1>1, <1>2 DEF TransactionInv, Threaded, ThreadInv, Locals, Allocations

\* The next step of a transaction that has its destination and leaves the backend alone.
LEMMA OnwardStep ==
  ASSUME TransactionInv, NEW t \in Threads, pc[t] \in Filled \ {"reconcile"},
         NEW p \in Filled, p \in Verified => pc[t] \in Verified,
         p \in Compacting => pc[t] \in Compacting,
         UNCHANGED <<store, chunk>>, GoodLedger(ledger'),
         NEW l \in Locals, Goto(t, p, l), Kin(l, loc[t]),
         l.dst = loc[t].dst, l.ws \in {loc[t].ws, NoAlloc}, l.comp \in {loc[t].comp, NoAlloc}
  PROVE  TransactionInv' /\ Steady(t)
<1>1. /\ DeliveringAt(pc[t], loc[t], store) /\ TargetingAt(pc[t], loc[t], store)
      /\ pc[t] \in PreCommit /\ p \in PreCommit
  BY FilledFacts DEF PreCommit
<1>2. Framed(t)
  BY SameNudges, SameQuiet DEF Framed, TransactionInv
<1>3. {l.dst.id, l.ws.id, l.comp.id} \subseteq OwnIds(loc[t]) \cup Fresh
  BY DEF OwnIds, NoAlloc
<1>4. None \notin Resources
  BY TransactionAssumption DEF TransactionAssumption
<1>5. DeliveringAt(p, l, store')
  BY <1>1, <1>4 DEF DeliveringAt, Kin, NoAlloc
<1>6. TargetingAt(p, l, store')
  BY <1>1 DEF TargetingAt, NoAlloc
<1>7. QED
  BY <1>1, <1>2, <1>3, <1>5, <1>6, WorkStep

LEMMA MaterializeStep ==
  ASSUME TransactionInv, NEW t \in Threads, pc[t] \in Compacting \cap Filled,
         NEW i \in 1 .. 3, NEW a \in Allocations, NEW onOk \in Filled \ Verified,
         NEW onFail, OwnItems(loc[t], onFail),
         MaterializeToken(t, i, a, onOk, onFail), UNCHANGED store
  PROVE  TransactionInv' /\ Steady(t)
<1> DEFINE c == loc[t].chunk
           tok == loc[t].toks[i]
           toks == [loc[t].toks EXCEPT ![i] = InactiveToken]
           l == [loc[t] EXCEPT !.toks = toks]
           led == Materialize(ledger, tok, a.charge)
           rest == MaterializedToken(tok, a.charge)
           res == [id |-> a.id, tier |-> DestTier(t), charge |-> a.charge]
<1>1. /\ pc[t] \in PreCommit /\ tok \in ReservationTokens
      /\ GoodLedger(ledger) /\ Quiet(t) /\ loc[t] \in Locals /\ Typed
      /\ c \in Chunks /\ chunk[c] \in ChunkRecords /\ DestTier(t) \in Tiers
  BY FilledFacts, WorkFacts, SameQuiet
<1>2. a.charge \in Word /\ a.id \in Resources \cup {None}
  BY DEF Allocations
<1>3. toks \in [1 .. 3 -> ReservationTokens]
  BY <1>1, InactiveTyped DEF Locals
<1> HIDE DEF toks
<1>4. l \in Locals /\ Kin(l, loc[t]) /\ l.dst = loc[t].dst /\ l.ws = loc[t].ws /\ l.comp = loc[t].comp
  BY <1>1, <1>3 DEF Locals, Kin
<1>5. CASE /\ MaterializeOk(ledger, tok, a.charge) /\ ledger' = DropToken(led, rest)
           /\ IF i = 3 /\ Refuses(led, rest) THEN Terminate(t) ELSE Goto(t, onOk, l)
           /\ UNCHANGED chunk
  <2>1. GoodLedger(led) /\ rest \in ReservationTokens
    BY <1>1, <1>2, <1>5, TokenOpsGood, RestTyped
  <2>2. GoodLedger(ledger')
    BY <1>5, <2>1, DropTokenGood
  <2>3. CASE Terminate(t)
    BY <1>1, <1>5, <2>2, <2>3, SameNudges, TerminateStep DEF Framed
  <2>4. CASE Goto(t, onOk, l)
    <3>1. pc[t] \in Filled \ {"reconcile"}
      BY DEF Compacting
    <3> HIDE DEF l, led, rest
    <3>2. QED
      BY <1>4, <1>5, <2>2, <2>4, <3>1, OnwardStep
  <2>5. QED
    BY <1>5, <2>3, <2>4
<1>6. CASE /\ RecordContractDebtOk(ledger, tok, a.charge)
           /\ ledger' = RecordContractDebt(ledger, tok, a.charge)
           /\ chunk' = [chunk EXCEPT ![c] = RememberCleanup(@, t, res)]
           /\ Goto(t, "rollback", [l EXCEPT !.todo = onFail, !.ending = "poison"])
  <2>1. GoodLedger(ledger')
    BY <1>1, <1>2, <1>6, TokenOpsGood
  <2>2. res \in CleanupResources
    BY <1>1, <1>2 DEF CleanupResources
  <2>3. NudgesChunks(t)
    BY <1>1, <1>6, <2>2, RememberNudges, UpdateNudges
  <2>4. Goto(t, "rollback", [loc[t] EXCEPT !.toks[i] = InactiveToken, !.todo = onFail,
                                           !.ending = "poison"])
    BY <1>6 DEF toks
  <2>5. QED
    BY <1>1, <2>1, <2>3, <2>4, RollBackToken DEF Framed
<1>7. CASE Terminate(t) /\ UNCHANGED <<ledger, chunk>>
  BY <1>1, <1>7, SameNudges, TerminateStep DEF Framed
<1>8. QED
  BY <1>5, <1>6, <1>7 DEF MaterializeToken, toks

\* A rollback that drops a token and keeps the ending migrate had in mind.
LEMMA RollBackDropped ==
  ASSUME TransactionInv, NEW t \in Threads, pc[t] \in PreCommit \cup Unwinding, Framed(t),
         NEW items, OwnItems(loc[t], items), NEW i \in 1 .. 3,
         Goto(t, "rollback", [loc[t] EXCEPT !.toks[i] = InactiveToken, !.todo = items])
  PROVE  TransactionInv' /\ Steady(t)
<1> DEFINE toks == [loc[t].toks EXCEPT ![i] = InactiveToken]
           l == [loc[t] EXCEPT !.toks = toks, !.todo = items]
<1>1. loc[t] \in Locals /\ items \in Seq(Items) /\ Goto(t, "rollback", l)
  BY WorkFacts DEF OwnItems
<1>2. toks \in [1 .. 3 -> ReservationTokens]
  BY <1>1, InactiveTyped DEF Locals
<1> HIDE DEF toks
<1>3. /\ l \in Locals /\ Kin(l, loc[t]) /\ l.todo = items
      /\ l.dst = loc[t].dst /\ l.ws = loc[t].ws /\ l.comp = loc[t].comp
  BY <1>1, <1>2 DEF Locals, Kin
<1> HIDE DEF l
<1>4. QED
  BY <1>1, <1>3, RollBackStep

LEMMA MaterializeDestinationStep ==
  ASSUME TransactionInv, NEW t \in Threads, MaterializeDestination(t)
  PROVE  TransactionInv' /\ Steady(t)
<1> DEFINE onOk == IF NeedsWorkspace(t) THEN "alloc_ws" ELSE "verify_src"
<1>1. pc[t] = "mat_dst" /\ UNCHANGED store /\ MaterializeToken(t, 1, loc[t].dst, onOk, <<>>)
  BY DEF MaterializeDestination
<1>2. pc[t] \in Compacting \cap Filled /\ onOk \in Filled \ Verified /\ 1 \in 1 .. 3
  BY <1>1 DEF Compacting, Filled, Verified
<1>3. loc[t].dst \in Allocations
  BY <1>2, FilledFacts
<1> HIDE DEF onOk
<1>4. QED
  BY <1>1, <1>2, <1>3, NoItems, MaterializeStep

LEMMA AllocateWorkspaceStep ==
  ASSUME TransactionInv, NEW t \in Threads, AllocateWorkspace(t)
  PROVE  TransactionInv' /\ Steady(t)
<1>1. pc[t] = "alloc_ws" /\ pc[t] \in Filled /\ pc[t] \in Compacting /\ UNCHANGED chunk
  BY DEF AllocateWorkspace, Filled, Compacting
<1>2. /\ pc[t] \in PreCommit /\ Typed /\ GoodLedger(ledger) /\ loc[t] \in Locals
      /\ DeliveringAt("alloc_ws", loc[t], store) /\ TargetingAt("alloc_ws", loc[t], store)
      /\ \A i \in 1 .. 3 : loc[t].toks[i] \in ReservationTokens
  BY <1>1, FilledFacts, WorkFacts
<1>3. ASSUME NEW r \in NextId, UNCHANGED ledger,
             store' = [store EXCEPT ![r] = Allocated(DestTier(t), WorkspaceBound)],
             Goto(t, "mat_ws", [loc[t] EXCEPT !.ws = [id |-> r, charge |-> WorkspaceBound]])
      PROVE  TransactionInv' /\ Steady(t)
  <2> DEFINE a == [id |-> r, charge |-> WorkspaceBound]
             l == [loc[t] EXCEPT !.ws = a]
  <2>1. WorkspaceBound \in Word
    BY TransactionAssumption DEF TransactionAssumption
  <2>2. /\ Framed(t) /\ r \in Fresh /\ r \in Resources /\ r \notin OwnIds(loc[t])
        /\ a \in Allocations /\ a.id = r
        /\ \A q \in OwnIds(loc[t]) \cap Resources : store'[q] = store[q]
    BY <1>1, <1>2, <1>3, <2>1, AllocateFacts
  <2> HIDE DEF a
  <2>3. l \in Locals /\ Kin(l, loc[t]) /\ l.ws = a /\ l.dst = loc[t].dst /\ l.comp = loc[t].comp
    BY <1>2, <2>2 DEF Locals, Kin
  <2>4. Goto(t, "mat_ws", l)
    BY <1>3 DEF a
  <2> HIDE DEF l
  <2>5. "mat_ws" \in PreCommit /\ "mat_ws" \in Filled /\ "mat_ws" \notin Verified
    BY DEF PreCommit, Filled, Verified
  <2>6. DeliveringAt("mat_ws", l, store')
    BY <1>1, <1>2, <2>2, <2>3, <2>5 DEF DeliveringAt, OwnIds, Kin
  <2>7. TargetingAt("mat_ws", l, store')
    <3>1. loc[t].comp.id \in Resources \cup {None}
      BY <1>2 DEF Locals, Allocations
    <3>2. QED
      BY <1>1, <1>2, <2>2, <2>3, <3>1 DEF TargetingAt, OwnIds
  <2>8. {l.dst.id, l.ws.id, l.comp.id} \subseteq OwnIds(loc[t]) \cup Fresh
    BY <2>2, <2>3 DEF OwnIds
  <2>9. QED
    BY <1>1, <1>2, <2>2, <2>3, <2>4, <2>5, <2>6, <2>7, <2>8, WorkStep
<1>4. CASE /\ ledger' = DropToken(ledger, loc[t].toks[2]) /\ UNCHANGED store
           /\ Goto(t, "rollback", [loc[t] EXCEPT !.toks[2] = InactiveToken,
                                                 !.todo = <<Item(loc[t].dst, "staging", FALSE)>>])
  <2>1. GoodLedger(ledger')
    BY <1>2, <1>4, DropTokenGood
  <2>2. Framed(t)
    BY <1>1, <1>2, <1>4, <2>1, SameNudges, SameQuiet DEF Framed
  <2>3. OwnItems(loc[t], <<Item(loc[t].dst, "staging", FALSE)>>)
    BY <1>2, DestinationItems
  <2>4. 2 \in 1 .. 3
    OBVIOUS
  <2>5. QED
    BY <1>2, <1>4, <2>2, <2>3, <2>4, RollBackDropped
<1>5. QED
  BY <1>3, <1>4 DEF AllocateWorkspace

LEMMA MaterializeWorkspaceStep ==
  ASSUME TransactionInv, NEW t \in Threads, MaterializeWorkspace(t)
  PROVE  TransactionInv' /\ Steady(t)
<1> DEFINE onFail == <<Item(loc[t].dst, "staging", TRUE)>>
<1>1. pc[t] = "mat_ws" /\ UNCHANGED store
      /\ MaterializeToken(t, 2, loc[t].ws, "verify_src", onFail)
  BY DEF MaterializeWorkspace
<1>2. pc[t] \in Compacting \cap Filled /\ "verify_src" \in Filled \ Verified /\ 2 \in 1 .. 3
  BY <1>1 DEF Compacting, Filled, Verified
<1>3. loc[t].ws \in Allocations /\ OwnItems(loc[t], onFail)
  BY <1>2, FilledFacts, DestinationItems DEF TransactionInv
<1> HIDE DEF onFail
<1>4. QED
  BY <1>1, <1>2, <1>3, MaterializeStep

LEMMA VerifyAuthoritativeStep ==
  ASSUME TransactionInv, NEW t \in Threads, VerifyAuthoritative(t)
  PROVE  TransactionInv' /\ Steady(t)
<1> DEFINE items == WorkspaceItem(t) \o <<Item(loc[t].dst, "staging", FALSE)>>
<1>1. pc[t] = "verify_src" /\ pc[t] \in Filled \ {"reconcile"} /\ pc[t] \in Compacting
      /\ UNCHANGED <<ledger, store, chunk>>
  BY DEF VerifyAuthoritative, Filled, Compacting
<1>2. pc[t] \in PreCommit /\ Typed /\ GoodLedger(ledger) /\ loc[t] \in Locals
  BY <1>1, FilledFacts, WorkFacts
<1>3. Framed(t)
  BY <1>1, <1>2, SameNudges, SameQuiet DEF Framed
<1>4. OwnItems(loc[t], items)
  BY <1>2, DestinationItems
<1>5. CASE Goto(t, "prepare", loc[t])
  <2>1. "prepare" \in Filled /\ "prepare" \notin Verified
    BY DEF Filled, Verified
  <2>2. Kin(loc[t], loc[t])
    BY DEF Kin
  <2>3. QED
    BY <1>1, <1>2, <1>5, <2>1, <2>2, OnwardStep
<1> HIDE DEF items
<1>6. ASSUME NEW ending \in {"clear", "poison"}, RollBack(t, items, ending) PROVE TransactionInv' /\ Steady(t)
  BY <1>2, <1>3, <1>4, <1>6, RollBackPlain
<1>7. QED
  BY <1>5, <1>6 DEF VerifyAuthoritative, items

(***************************************************************************)
(* Compaction target, transfer and reconciliation                          *)
(***************************************************************************)
LEMMA PrepareStep ==
  ASSUME TransactionInv, NEW t \in Threads, Prepare(t)
  PROVE  TransactionInv' /\ Steady(t)
<1> DEFINE items == WorkspaceItem(t) \o <<Item(loc[t].dst, "staging", FALSE)>>
<1>1. pc[t] = "prepare" /\ pc[t] \in Filled \ {"reconcile"} /\ pc[t] \in Compacting /\ UNCHANGED chunk
  BY DEF Prepare, Filled, Compacting
<1>2. /\ pc[t] \in PreCommit /\ Typed /\ GoodLedger(ledger) /\ loc[t] \in Locals
      /\ DeliveringAt("prepare", loc[t], store)
      /\ \A i \in 1 .. 3 : loc[t].toks[i] \in ReservationTokens
  BY <1>1, FilledFacts, WorkFacts
<1>3. OwnItems(loc[t], items)
  BY <1>2, DestinationItems
<1>4. CASE Goto(t, "transfer", loc[t]) /\ UNCHANGED <<ledger, store>>
  <2>1. "transfer" \in Filled /\ "transfer" \notin Verified
    BY DEF Filled, Verified
  <2>2. Kin(loc[t], loc[t])
    BY DEF Kin
  <2>3. QED
    BY <1>1, <1>2, <1>4, <2>1, <2>2, OnwardStep
<1>5. ASSUME NEW r \in NextId, NEW n \in ShrunkCharges, UNCHANGED ledger,
             store' = [store EXCEPT ![r] = Allocated(DestTier(t), n)],
             Goto(t, "mat_comp", [loc[t] EXCEPT !.comp = [id |-> r, charge |-> n]])
      PROVE  TransactionInv' /\ Steady(t)
  <2> DEFINE a == [id |-> r, charge |-> n]
             l == [loc[t] EXCEPT !.comp = a]
  <2>1. n \in Word
    BY TransactionAssumption DEF TransactionAssumption
  <2>2. /\ Framed(t) /\ r \in Fresh /\ r \in Resources /\ r \notin OwnIds(loc[t])
        /\ a \in Allocations /\ a.id = r /\ store'[r] # None
        /\ \A q \in OwnIds(loc[t]) \cap Resources : store'[q] = store[q]
    BY <1>1, <1>2, <1>5, <2>1, AllocateFacts
  <2> HIDE DEF a
  <2>3. l \in Locals /\ Kin(l, loc[t]) /\ l.comp = a /\ l.dst = loc[t].dst /\ l.ws = loc[t].ws
    BY <1>2, <2>2 DEF Locals, Kin
  <2>4. Goto(t, "mat_comp", l)
    BY <1>5 DEF a
  <2> HIDE DEF l
  <2>5. "mat_comp" \in PreCommit /\ "mat_comp" \in Filled /\ "mat_comp" \notin Verified
    BY DEF PreCommit, Filled, Verified
  <2>6. DeliveringAt("mat_comp", l, store')
    BY <1>1, <1>2, <2>2, <2>3, <2>5 DEF DeliveringAt, OwnIds, Kin
  <2>7. TargetingAt("mat_comp", l, store')
    BY <2>2, <2>3 DEF TargetingAt
  <2>8. {l.dst.id, l.ws.id, l.comp.id} \subseteq OwnIds(loc[t]) \cup Fresh
    BY <2>2, <2>3 DEF OwnIds
  <2>9. QED
    BY <1>1, <1>2, <2>2, <2>3, <2>4, <2>5, <2>6, <2>7, <2>8, WorkStep
<1>6. CASE /\ ledger' = DropToken(ledger, loc[t].toks[3]) /\ UNCHANGED store
           /\ \/ Terminate(t)
              \/ Goto(t, "rollback", [loc[t] EXCEPT !.toks[3] = InactiveToken, !.todo = items])
  <2>1. GoodLedger(ledger')
    BY <1>2, <1>6, DropTokenGood
  <2>2. Framed(t) /\ 3 \in 1 .. 3
    BY <1>1, <1>2, <1>6, <2>1, SameNudges, SameQuiet DEF Framed
  <2> HIDE DEF items
  <2>3. QED
    BY <1>2, <1>3, <1>6, <2>2, RollBackDropped, TerminateStep
<1>7. QED
  BY <1>4, <1>5, <1>6 DEF Prepare

LEMMA MaterializeCompactionStep ==
  ASSUME TransactionInv, NEW t \in Threads, MaterializeCompaction(t)
  PROVE  TransactionInv' /\ Steady(t)
<1> DEFINE onFail == <<Item(loc[t].ws, "workspace", FALSE), Item(loc[t].dst, "staging", TRUE)>>
<1>1. pc[t] = "mat_comp" /\ UNCHANGED store
      /\ MaterializeToken(t, 3, loc[t].comp, "transfer", onFail)
  BY DEF MaterializeCompaction
<1>2. pc[t] \in Compacting \cap Filled /\ "transfer" \in Filled \ Verified /\ 3 \in 1 .. 3
  BY <1>1 DEF Compacting, Filled, Verified
<1>3. loc[t].comp \in Allocations /\ OwnItems(loc[t], onFail)
  BY <1>2, FilledFacts, DestinationItems DEF TransactionInv
<1> HIDE DEF onFail
<1>4. QED
  BY <1>1, <1>2, <1>3, MaterializeStep

\* The authority of the chunk a thread works on.
LEMMA SourceFacts ==
  ASSUME TransactionInv, NEW t \in Threads, pc[t] \in PreCommit
  PROVE  /\ loc[t].src \in Authorities /\ loc[t].src = OwnChunk(t).auth
         /\ loc[t].src.state # loc[t].dest /\ OwnChunk(t).txn = t
         /\ store[loc[t].src.resource] \in Descriptors
         /\ loc[t].src.resource \in Resources \ Claims(t)
<1>1. loc[t].chunk \in Chunks /\ chunk[loc[t].chunk] \in ChunkRecords /\ Typed
  BY WorkFacts
<1>2. loc[t].src = OwnChunk(t).auth /\ loc[t].src.state # loc[t].dest /\ OwnChunk(t).txn = t
  BY DEF TransactionInv, Threaded, ThreadInv, Transacting
<1>3. loc[t].src \in Authorities /\ loc[t].src.resource \in Resources
  BY <1>1, <1>2 DEF OwnChunk, ChunkRecords, Authorities
<1>4. store[loc[t].src.resource] # None
  BY <1>1, <1>2 DEF TransactionInv, Kept, ChunkKept, OwnChunk
<1>5. loc[t].src.resource \notin Claims(t)
  BY <1>1, <1>2 DEF TransactionInv, Claimed, OwnChunk
<1>6. QED
  BY <1>1, <1>2, <1>3, <1>4, <1>5 DEF Typed

\* What arrives in the destination and the charge of the compaction target are the
\* transaction's own.
LEMMA TransferQuiet ==
  ASSUME TransactionInv, NEW t \in Threads, pc[t] = "transfer",
         NEW arrived \in Contents \cup {Garbage}, NEW n \in Word,
         store' = [r \in Resources |->
           IF r = loc[t].dst.id THEN [store[r] EXCEPT !.content = arrived, !.charge = n]
           ELSE IF r = loc[t].comp.id THEN [store[r] EXCEPT !.charge = loc[t].dst.charge]
           ELSE store[r]]
  PROVE  Quiet(t)
<1> DEFINE d == loc[t].dst
           k == loc[t].comp
<1>1. pc[t] \in Filled \ {"reconcile"} /\ pc[t] \in Compacting
  BY DEF Filled, Compacting
<1>2. /\ pc[t] \in PreCommit /\ Typed /\ loc[t] \in Locals
      /\ d \in Allocations /\ k \in Allocations /\ d.charge \in Word /\ k.charge \in Word
      /\ DeliveringAt("transfer", loc[t], store) /\ TargetingAt("transfer", loc[t], store)
  BY <1>1, FilledFacts, WorkFacts
<1>3. d.id \in Resources /\ store[d.id] \in Descriptors /\ d.id # k.id
  BY <1>1, <1>2 DEF DeliveringAt, Typed
<1>4. k.id \in Resources => store[k.id] \in Descriptors
  BY <1>1, <1>2, TransactionAssumption DEF TargetingAt, Typed, TransactionAssumption
<1>5. {d.id, k.id} \subseteq Claims(t) \cup {None}
  BY <1>1, <1>2 DEF Claims, ClaimsAt, PreCommit, PostCommit, Filled
<1>6. [store[d.id] EXCEPT !.content = arrived, !.charge = n] \in Descriptors
  BY <1>3 DEF Descriptors
<1>7. k.id \in Resources => [store[k.id] EXCEPT !.charge = d.charge] \in Descriptors
  BY <1>2, <1>4 DEF Descriptors
<1>8. None \notin Resources
  BY TransactionAssumption DEF TransactionAssumption
<1>9. ASSUME NEW r \in Resources PROVE store'[r] \in Descriptors \cup {None}
  BY <1>2, <1>6, <1>7 DEF Typed
<1>10. store' \in [Resources -> Descriptors \cup {None}]
  BY <1>9
<1>11. \A r \in Resources \ (Claims(t) \cup Fresh) : store'[r] = store[r]
  BY <1>5, <1>8
<1>12. QED
  BY <1>10, <1>11 DEF Quiet

LEMMA TransferStep ==
  ASSUME TransactionInv, NEW t \in Threads, Transfer(t)
  PROVE  TransactionInv' /\ Steady(t)
<1> DEFINE d == loc[t].dst
           k == loc[t].comp
           compact == IF NeedsCompaction(t) THEN <<Item(k, "workspace", FALSE)>> ELSE <<>>
           items(poison) == compact \o WorkspaceItem(t) \o <<Item(d, "staging", poison)>>
<1>1. pc[t] = "transfer" /\ pc[t] \in Filled \ {"reconcile"} /\ pc[t] \in Compacting
      /\ UNCHANGED <<ledger, chunk>>
  BY DEF Transfer, Filled, Compacting
<1>2. /\ pc[t] \in PreCommit /\ Typed /\ GoodLedger(ledger) /\ loc[t] \in Locals
      /\ d \in Allocations /\ k \in Allocations /\ d.charge \in Word /\ k.charge \in Word
      /\ DeliveringAt("transfer", loc[t], store) /\ TargetingAt("transfer", loc[t], store)
  BY <1>1, FilledFacts, WorkFacts
<1>3. store[loc[t].src.resource].content \in Contents \cup {Garbage}
  BY <1>2, SourceFacts DEF Descriptors
<1>4. ASSUME NEW arrived \in Contents \cup {Garbage}, NEW n \in Word, Goto(t, "reconcile", loc[t]),
             store' = [r \in Resources |->
                         IF r = d.id THEN [store[r] EXCEPT !.content = arrived, !.charge = n]
                         ELSE IF r = k.id THEN [store[r] EXCEPT !.charge = d.charge]
                         ELSE store[r]]
      PROVE  TransactionInv' /\ Steady(t)
  <2>1. /\ d.id \in Resources /\ store[d.id] \in Descriptors
        /\ store[d.id].tier = TierOf(loc[t].dest) /\ d.id # k.id
    BY <1>1, <1>2 DEF DeliveringAt, Typed
  <2>2. k.id \in Resources => store[k.id] \in Descriptors
    BY <1>1, <1>2, TransactionAssumption DEF TargetingAt, Typed, TransactionAssumption
  <2>3. {d.id, k.id} \subseteq Claims(t) \cup {None}
    BY <1>1, <1>2 DEF Claims, ClaimsAt, PreCommit, PostCommit, Filled
  <2>4. [store[d.id] EXCEPT !.content = arrived, !.charge = n] \in Descriptors
        /\ [store[d.id] EXCEPT !.content = arrived, !.charge = n].tier = store[d.id].tier
    BY <2>1 DEF Descriptors
  <2>5. k.id \in Resources => [store[k.id] EXCEPT !.charge = d.charge] \in Descriptors
    BY <1>2, <2>2 DEF Descriptors
  <2>6. None \notin Resources /\ None \notin Descriptors
    BY TransactionAssumption DEF TransactionAssumption
  <2>7. Quiet(t)
    BY <1>1, <1>4, TransferQuiet
  <2>8. Framed(t)
    BY <1>1, <1>2, <2>7, SameNudges DEF Framed
  <2>9. store'[d.id] # None /\ store'[d.id].tier = TierOf(loc[t].dest)
    BY <1>4, <2>1, <2>4, <2>6
  <2>10. "reconcile" \in PreCommit /\ "reconcile" \notin Verified /\ "reconcile" \notin Compacting
    BY DEF PreCommit, Filled, Verified, Compacting
  <2>11. DeliveringAt("reconcile", loc[t], store') /\ TargetingAt("reconcile", loc[t], store')
    BY <1>1, <1>2, <2>9, <2>10 DEF DeliveringAt, TargetingAt
  <2>12. Kin(loc[t], loc[t]) /\ {d.id, loc[t].ws.id, k.id} \subseteq OwnIds(loc[t]) \cup Fresh
    BY DEF Kin, OwnIds
  <2>13. QED
    BY <1>1, <1>2, <1>4, <2>8, <2>10, <2>11, <2>12, WorkStep
<1>5. ASSUME NEW poison \in BOOLEAN, NEW ending \in {"clear", "poison"},
             RollBack(t, items(poison), ending), UNCHANGED store
      PROVE  TransactionInv' /\ Steady(t)
  <2>1. Framed(t)
    BY <1>1, <1>2, <1>5, SameNudges, SameQuiet DEF Framed
  <2>2. OwnItems(loc[t], items(poison))
    <3>1. CASE NeedsCompaction(t)
      BY <1>2, <3>1, DestinationItems
    <3>2. CASE ~NeedsCompaction(t)
      <4>1. WorkspaceItem(t) \in Seq(Items) /\ OwnItems(loc[t], <<>>)
            /\ OwnItems(loc[t], WorkspaceItem(t)) /\ OwnItems(loc[t], <<Item(d, "staging", poison)>>)
        BY <1>2, NoItems, WorkspaceItems, DestinationItems DEF OwnItems
      <4>2. OwnItems(loc[t], (<<>> \o WorkspaceItem(t)) \o <<Item(d, "staging", poison)>>)
        BY <4>1, JoinItems
      <4>3. QED
        BY <3>2, <4>2
    <3>3. QED
      BY <3>1, <3>2
  <2> HIDE DEF items
  <2>3. QED
    BY <1>2, <1>5, <2>1, <2>2, RollBackPlain
<1>6. CASE \E arrived \in {store[loc[t].src.resource].content}
                            \cup (IF Fault("corrupt") THEN {Garbage} ELSE {}),
              n \in IF NeedsCompaction(t) THEN {k.charge}
                    ELSE {d.charge} \cup (IF IsRaw(loc[t].dest) THEN {}
                                          ELSE {m \in ShrunkCharges : m <= d.charge}) :
             /\ store' = [r \in Resources |->
                  IF r = d.id THEN [store[r] EXCEPT !.content = arrived, !.charge = n]
                  ELSE IF r = k.id THEN [store[r] EXCEPT !.charge = d.charge]
                  ELSE store[r]]
             /\ Goto(t, "reconcile", loc[t])
  <2>1. ShrunkCharges \subseteq Word
    BY TransactionAssumption DEF TransactionAssumption
  <2>2. PICK arrived \in {store[loc[t].src.resource].content}
                           \cup (IF Fault("corrupt") THEN {Garbage} ELSE {}),
             n \in IF NeedsCompaction(t) THEN {k.charge}
                   ELSE {d.charge} \cup (IF IsRaw(loc[t].dest) THEN {}
                                         ELSE {m \in ShrunkCharges : m <= d.charge}) :
             /\ store' = [r \in Resources |->
                  IF r = d.id THEN [store[r] EXCEPT !.content = arrived, !.charge = n]
                  ELSE IF r = k.id THEN [store[r] EXCEPT !.charge = d.charge]
                  ELSE store[r]]
             /\ Goto(t, "reconcile", loc[t])
    BY <1>6
  <2>3. arrived \in Contents \cup {Garbage}
    BY <1>3
  <2>4. n \in Word
    BY <1>2, <2>1
  <2>5. QED
    BY <1>4, <2>2, <2>3, <2>4
<1>7. QED
  BY <1>5, <1>6 DEF Transfer

LEMMA ReconcileStep ==
  ASSUME TransactionInv, NEW t \in Threads, Reconcile(t)
  PROVE  TransactionInv' /\ Steady(t)
<1> DEFINE d == loc[t].dst
           n == store[d.id].charge
           tier == DestTier(t)
           p == IF NeedsCompaction(t) THEN "rel_comp" ELSE "verify"
           a == [d EXCEPT !.charge = n]
           k == [loc[t].comp EXCEPT !.charge = IF NeedsCompaction(t) THEN d.charge ELSE @]
           l == [loc[t] EXCEPT !.dst = a, !.comp = k]
<1>1. pc[t] = "reconcile" /\ pc[t] \in Filled /\ UNCHANGED <<store, chunk>>
  BY DEF Reconcile, Filled
<1>2. /\ pc[t] \in PreCommit /\ Typed /\ GoodLedger(ledger) /\ loc[t] \in Locals /\ tier \in Tiers
      /\ d \in Allocations /\ loc[t].comp \in Allocations /\ d.charge \in Word
      /\ DeliveringAt("reconcile", loc[t], store)
  BY <1>1, FilledFacts, WorkFacts
<1>3. /\ d.id \in Resources /\ store[d.id] \in Descriptors /\ n \in Word
      /\ store[d.id] # None /\ store[d.id].tier = TierOf(loc[t].dest)
      /\ d.id \notin {loc[t].ws.id, loc[t].comp.id}
  BY <1>1, <1>2 DEF DeliveringAt, Typed, Descriptors
<1>4. "staging" \in Buckets
  BY DEF Buckets
<1>5. CASE Terminate(t) /\ UNCHANGED ledger
  BY <1>1, <1>2, <1>5, SameNudges, SameQuiet, TerminateStep DEF Framed
<1>6. CASE /\ \/ /\ ExchangeCompactionOk(ledger, tier, d.charge, n)
                 /\ ledger' = ExchangeCompaction(ledger, tier, d.charge, n)
              \/ /\ ShrinkMaterializedOk(ledger, tier, "staging", d.charge, n)
                 /\ ledger' = ShrinkMaterialized(ledger, tier, "staging", d.charge, n)
           /\ Goto(t, p, l)
  <2>1. GoodLedger(ledger')
    BY <1>2, <1>3, <1>4, <1>6, MovesGood
  <2>2. Framed(t)
    BY <1>1, <1>2, <2>1, SameNudges, SameQuiet DEF Framed
  <2>3. a \in Allocations /\ a.id = d.id /\ a.charge = n
    BY <1>2, <1>3 DEF Allocations
  <2>4. k \in Allocations /\ k.id = loc[t].comp.id
    BY <1>2 DEF Allocations
  <2>5. p \in PreCommit /\ p \notin Verified /\ p \notin Compacting
    BY DEF PreCommit, Filled, Verified, Compacting
  <2> HIDE DEF a, k, p
  <2>6. l \in Locals /\ Kin(l, loc[t]) /\ l.dst = a /\ l.comp = k /\ l.ws = loc[t].ws
    BY <1>2, <2>3, <2>4 DEF Locals, Kin
  <2> HIDE DEF l
  <2>7. DeliveringAt(p, l, store') /\ TargetingAt(p, l, store')
    BY <1>1, <1>3, <2>3, <2>4, <2>5, <2>6 DEF DeliveringAt, TargetingAt, Kin
  <2>8. {l.dst.id, l.ws.id, l.comp.id} \subseteq OwnIds(loc[t]) \cup Fresh
    BY <2>3, <2>4, <2>6 DEF OwnIds
  <2>9. QED
    BY <1>1, <1>2, <1>6, <2>2, <2>5, <2>6, <2>7, <2>8, WorkStep
<1>7. QED
  BY <1>5, <1>6 DEF Reconcile

(***************************************************************************)
(* Releases                                                                *)
(***************************************************************************)
LEMMA ReleaseFacts ==
  ASSUME TransactionInv, NEW t \in Threads, pc[t] \in PreCommit \cup Unwinding \cup PostCommit,
         NEW id, id \in Claims(t) \cup {None}, NEW next, ReleaseResource(t, id, next)
  PROVE  \E l \in Locals :
           /\ Goto(t, next, l) /\ Framed(t) /\ UNCHANGED chunk /\ Kin(l, loc[t])
           /\ l.dst = loc[t].dst /\ l.ws = loc[t].ws /\ l.comp = loc[t].comp
           /\ l.todo = loc[t].todo
           /\ \A q \in Resources \ {id} : store'[q] = store[q]
<1>1. PICK o \in Outcomes : /\ store' = IF o = "ok" THEN [store EXCEPT ![id] = None] ELSE store
                            /\ Goto(t, next, [loc[t] EXCEPT !.released = o])
                            /\ UNCHANGED <<ledger, chunk>>
  BY DEF ReleaseResource
<1> DEFINE l == [loc[t] EXCEPT !.released = o]
<1>2. Typed /\ GoodLedger(ledger) /\ loc[t] \in Locals
  BY WorkFacts
<1>3. o \in {"ok", "fail", "lie"}
  BY DEF Outcomes
<1>4. Quiet(t)
  BY <1>1, <1>2, UpdateQuiet, SameQuiet
<1>5. Framed(t)
  BY <1>1, <1>2, <1>4, SameNudges DEF Framed
<1>6. /\ l \in Locals /\ Kin(l, loc[t]) /\ l.dst = loc[t].dst /\ l.ws = loc[t].ws
      /\ l.comp = loc[t].comp /\ l.todo = loc[t].todo
  BY <1>2, <1>3 DEF Locals, Kin
<1>7. \A q \in Resources \ {id} : store'[q] = store[q]
  BY <1>1, <1>2 DEF Typed
<1> HIDE DEF l
<1>8. Goto(t, next, l)
  BY <1>1 DEF l
<1>9. QED
  BY <1>1, <1>5, <1>6, <1>7, <1>8

\* The release of a resource that is not the destination.
LEMMA ReleaseAside ==
  ASSUME TransactionInv, NEW t \in Threads, pc[t] \in Filled \ {"reconcile"}, NEW p \in Filled,
         p \in Verified => pc[t] \in Verified, p \notin Compacting,
         NEW id \in {loc[t].ws.id, loc[t].comp.id}, ReleaseResource(t, id, p)
  PROVE  TransactionInv' /\ Steady(t)
<1>1. /\ pc[t] \in PreCommit /\ p \in PreCommit /\ pc[t] \notin PostCommit
      /\ DeliveringAt(pc[t], loc[t], store)
  BY FilledFacts DEF PreCommit, PostCommit, Filled
<1>2. id \in Claims(t) \cup {None}
  BY <1>1 DEF Claims, ClaimsAt
<1>3. PICK l \in Locals :
        /\ Goto(t, p, l) /\ Framed(t) /\ UNCHANGED chunk /\ Kin(l, loc[t])
        /\ l.dst = loc[t].dst /\ l.ws = loc[t].ws /\ l.comp = loc[t].comp
        /\ \A q \in Resources \ {id} : store'[q] = store[q]
  BY <1>1, <1>2, ReleaseFacts
<1>4. DeliveringAt(p, l, store')
  BY <1>1, <1>3 DEF DeliveringAt, Kin
<1>5. TargetingAt(p, l, store')
  BY DEF TargetingAt
<1>6. {l.dst.id, l.ws.id, l.comp.id} \subseteq OwnIds(loc[t]) \cup Fresh
  BY <1>3 DEF OwnIds
<1>7. QED
  BY <1>1, <1>3, <1>4, <1>5, <1>6, WorkStep

LEMMA ReleaseCompactionStep ==
  ASSUME TransactionInv, NEW t \in Threads, ReleaseCompaction(t)
  PROVE  TransactionInv' /\ Steady(t)
<1>1. pc[t] = "rel_comp" /\ ReleaseResource(t, loc[t].comp.id, "settle_comp")
  BY DEF ReleaseCompaction
<1>2. pc[t] \in Filled \ {"reconcile"} /\ "settle_comp" \in Filled
      /\ "settle_comp" \notin Verified /\ "settle_comp" \notin Compacting
  BY <1>1 DEF Filled, Verified, Compacting
<1>3. QED
  BY <1>1, <1>2, ReleaseAside

LEMMA ReleaseWorkspaceStep ==
  ASSUME TransactionInv, NEW t \in Threads, ReleaseWorkspace(t)
  PROVE  TransactionInv' /\ Steady(t)
<1>1. pc[t] = "rel_ws" /\ ReleaseResource(t, loc[t].ws.id, "settle_ws")
  BY DEF ReleaseWorkspace
<1>2. pc[t] \in Filled \ {"reconcile"} /\ "settle_ws" \in Filled
      /\ pc[t] \in Verified /\ "settle_ws" \notin Compacting
  BY <1>1 DEF Filled, Verified, Compacting
<1>3. QED
  BY <1>1, <1>2, ReleaseAside

LEMMA RollbackReleaseStep ==
  ASSUME TransactionInv, NEW t \in Threads, RollbackRelease(t)
  PROVE  TransactionInv' /\ Steady(t)
<1> DEFINE todo == loc[t].todo
<1>1. pc[t] = "rollback" /\ pc[t] \in Unwinding /\ pc[t] \notin PostCommit /\ todo # <<>>
      /\ ReleaseResource(t, Head(todo).id, "settle")
  BY DEF RollbackRelease, Unwinding, PostCommit
<1>2. PlacedAt(pc[t], loc[t]) /\ loc[t] \in Locals
  BY <1>1, WorkFacts DEF TransactionInv, Threaded, ThreadInv
<1>3. \A i \in 1 .. Len(todo) : todo[i].id \in OwnIds(loc[t])
  BY <1>1, <1>2 DEF PlacedAt
<1>4. todo \in Seq(Items)
  BY <1>2 DEF Locals
<1>5. Head(todo) = todo[1] /\ 1 \in 1 .. Len(todo)
  BY <1>1, <1>4
<1>6. Head(todo).id \in Claims(t) \cup {None}
  BY <1>1, <1>3, <1>5 DEF OwnIds, Claims, ClaimsAt
<1>7. PICK l \in Locals :
        /\ Goto(t, "settle", l) /\ Framed(t) /\ Kin(l, loc[t])
        /\ l.dst = loc[t].dst /\ l.ws = loc[t].ws /\ l.comp = loc[t].comp
        /\ l.todo = todo
  BY <1>1, <1>6, ReleaseFacts
<1>8. \A i \in 1 .. Len(l.todo) : l.todo[i].id \in OwnIds(l)
  BY <1>3, <1>7 DEF OwnIds
<1>9. {l.dst.id, l.ws.id, l.comp.id} \subseteq OwnIds(loc[t]) \cup Fresh
  BY <1>7 DEF OwnIds
<1>10. "settle" \in Unwinding
  BY DEF Unwinding
<1>11. QED
  BY <1>1, <1>7, <1>8, <1>9, <1>10, UndoStep

\* A resource that could not be released is the chunk's to clean up.
LEMMA DebtNudges ==
  ASSUME TransactionInv, NEW t \in Threads, pc[t] \in PreCommit \cup Unwinding,
         NEW a, a.id \in Resources \cup {None}, a.charge \in Word
  PROVE  Nudged(OwnChunk(t), RememberCleanup(OwnChunk(t), t, Debt(t, a)), t)
<1>1. DestTier(t) \in Tiers /\ OwnChunk(t) \in ChunkRecords
  BY WorkFacts DEF OwnChunk
<1>2. Debt(t, a) \in CleanupResources
  BY <1>1 DEF Debt, CleanupResources
<1>3. QED
  BY <1>1, <1>2, RememberNudges

LEMMA SettleCompactionStep ==
  ASSUME TransactionInv, NEW t \in Threads, SettleCompaction(t)
  PROVE  TransactionInv' /\ Steady(t)
<1> DEFINE c == loc[t].chunk
           a == loc[t].comp
           tier == DestTier(t)
           lied == loc[t].released = "lie"
           items == <<Item(loc[t].ws, "workspace", FALSE), Item(loc[t].dst, "staging", lied)>>
<1>1. pc[t] = "settle_comp" /\ pc[t] \in Filled \ {"reconcile"} /\ UNCHANGED store
  BY DEF SettleCompaction, Filled
<1>2. /\ pc[t] \in PreCommit /\ Typed /\ GoodLedger(ledger) /\ loc[t] \in Locals /\ tier \in Tiers
      /\ c \in Chunks /\ a \in Allocations /\ a.charge \in Word
  BY <1>1, FilledFacts, WorkFacts
<1>3. "workspace" \in Buckets
  BY DEF Buckets
<1>4. CASE Terminate(t) /\ UNCHANGED <<ledger, chunk>>
  BY <1>1, <1>2, <1>4, SameNudges, SameQuiet, TerminateStep DEF Framed
<1>5. CASE /\ ReleaseMaterializedOk(ledger, tier, "workspace", a.charge)
           /\ ledger' = ReleaseMaterialized(ledger, tier, "workspace", a.charge)
           /\ Goto(t, "verify", [loc[t] EXCEPT !.comp = NoAlloc]) /\ UNCHANGED chunk
  <2> DEFINE l == [loc[t] EXCEPT !.comp = NoAlloc]
  <2>1. GoodLedger(ledger')
    BY <1>2, <1>3, <1>5, MovesGood
  <2>2. l \in Locals /\ Kin(l, loc[t]) /\ l.dst = loc[t].dst /\ l.ws = loc[t].ws /\ l.comp = NoAlloc
    BY <1>2, NoAllocTyped DEF Locals, Kin
  <2>3. "verify" \in Filled /\ "verify" \notin Verified /\ "verify" \notin Compacting
    BY DEF Filled, Verified, Compacting
  <2> HIDE DEF l
  <2>4. Goto(t, "verify", l)
    BY <1>5 DEF l
  <2>5. QED
    BY <1>1, <1>5, <2>1, <2>2, <2>3, <2>4, OnwardStep
<1>6. CASE /\ MoveToDebtOk(ledger, tier, "workspace", a.charge)
           /\ ledger' = MoveToDebt(ledger, tier, "workspace", a.charge)
           /\ chunk' = [chunk EXCEPT ![c] = RememberCleanup(@, t, Debt(t, a))]
           /\ RollBack(t, items, IF lied THEN "poison" ELSE "clear")
  <2>1. GoodLedger(ledger')
    BY <1>2, <1>3, <1>6, MovesGood
  <2>2. a.id \in Resources \cup {None}
    BY <1>2 DEF Allocations
  <2>3. Nudged(chunk[c], RememberCleanup(chunk[c], t, Debt(t, a)), t)
    BY <1>2, <2>2, DebtNudges DEF OwnChunk
  <2>4. NudgesChunks(t)
    BY <1>2, <1>6, <2>3, UpdateNudges
  <2>5. Framed(t)
    BY <1>1, <1>2, <2>1, <2>4, SameQuiet DEF Framed
  <2>6. OwnItems(loc[t], items) /\ (IF lied THEN "poison" ELSE "clear") \in {"clear", "poison"}
    BY <1>2, DestinationItems
  <2> HIDE DEF items, lied
  <2>7. QED
    BY <1>2, <1>6, <2>5, <2>6, RollBackPlain
<1>7. QED
  BY <1>4, <1>5, <1>6 DEF SettleCompaction

LEMMA VerifyTransferStep ==
  ASSUME TransactionInv, NEW t \in Threads, VerifyTransfer(t)
  PROVE  TransactionInv' /\ Steady(t)
<1> DEFINE items(poison) == WorkspaceItem(t) \o <<Item(loc[t].dst, "staging", poison)>>
           p == IF loc[t].ws = NoAlloc THEN "commit" ELSE "rel_ws"
<1>1. pc[t] = "verify" /\ pc[t] \in Filled \ {"reconcile"} /\ UNCHANGED <<ledger, store, chunk>>
  BY DEF VerifyTransfer, Filled
<1>2. /\ pc[t] \in PreCommit /\ Typed /\ GoodLedger(ledger) /\ loc[t] \in Locals
      /\ DeliveringAt("verify", loc[t], store)
  BY <1>1, FilledFacts, WorkFacts
<1>3. Framed(t)
  BY <1>1, <1>2, SameNudges, SameQuiet DEF Framed
<1>4. CASE Goto(t, p, loc[t]) /\ store[loc[t].dst.id].content = loc[t].src.content
  <2>1. p \in PreCommit /\ p \in Filled /\ p \notin Compacting /\ p # "reconcile"
    BY DEF PreCommit, Filled, Compacting
  <2>2. Kin(loc[t], loc[t]) /\ {loc[t].dst.id, loc[t].ws.id, loc[t].comp.id} \subseteq OwnIds(loc[t]) \cup Fresh
    BY DEF Kin, OwnIds
  <2> HIDE DEF p
  <2>3. DeliveringAt(p, loc[t], store') /\ TargetingAt(p, loc[t], store')
    BY <1>1, <1>2, <1>4, <2>1 DEF DeliveringAt, TargetingAt
  <2>4. QED
    BY <1>1, <1>2, <1>3, <1>4, <2>1, <2>2, <2>3, WorkStep
<1>5. ASSUME NEW poison \in BOOLEAN, NEW ending \in {"clear", "poison"},
             RollBack(t, items(poison), ending)
      PROVE  TransactionInv' /\ Steady(t)
  <2>1. OwnItems(loc[t], items(poison))
    BY <1>2, DestinationItems
  <2> HIDE DEF items
  <2>2. QED
    BY <1>2, <1>3, <1>5, <2>1, RollBackPlain
<1>6. QED
  BY <1>4, <1>5 DEF VerifyTransfer

LEMMA SettleWorkspaceStep ==
  ASSUME TransactionInv, NEW t \in Threads, SettleWorkspace(t)
  PROVE  TransactionInv' /\ Steady(t)
<1> DEFINE c == loc[t].chunk
           a == loc[t].ws
           tier == DestTier(t)
           lied == loc[t].released = "lie"
           items == <<Item(loc[t].dst, "staging", lied)>>
<1>1. pc[t] = "settle_ws" /\ pc[t] \in Filled \ {"reconcile"} /\ pc[t] \in Verified /\ UNCHANGED store
  BY DEF SettleWorkspace, Filled, Verified
<1>2. /\ pc[t] \in PreCommit /\ Typed /\ GoodLedger(ledger) /\ loc[t] \in Locals /\ tier \in Tiers
      /\ c \in Chunks /\ a \in Allocations /\ a.charge \in Word
      /\ pc[t] \notin Holding \cup {"idle"}
  BY <1>1, FilledFacts, WorkFacts
<1>3. "workspace" \in Buckets
  BY DEF Buckets
<1>4. CASE /\ ReleaseMaterializedOk(ledger, tier, "workspace", a.charge)
           /\ ledger' = ReleaseMaterialized(ledger, tier, "workspace", a.charge)
           /\ Goto(t, "commit", [loc[t] EXCEPT !.ws = NoAlloc]) /\ UNCHANGED chunk
  <2> DEFINE l == [loc[t] EXCEPT !.ws = NoAlloc]
  <2>1. GoodLedger(ledger')
    BY <1>2, <1>3, <1>4, MovesGood
  <2>2. l \in Locals /\ Kin(l, loc[t]) /\ l.dst = loc[t].dst /\ l.ws = NoAlloc /\ l.comp = loc[t].comp
    BY <1>2, NoAllocTyped DEF Locals, Kin
  <2>3. "commit" \in Filled /\ "commit" \notin Compacting
    BY DEF Filled, Compacting
  <2> HIDE DEF l
  <2>4. Goto(t, "commit", l)
    BY <1>4 DEF l
  <2>5. QED
    BY <1>1, <1>4, <2>1, <2>2, <2>3, <2>4, OnwardStep
<1>5. CASE chunk' = [chunk EXCEPT ![c] = Poison(@, t)] /\ Return(t, FALSE) /\ UNCHANGED ledger
  <2>1. Framed(t)
    BY <1>1, <1>2, <1>5, SameQuiet, ReleaseFrame
  <2>2. QED
    BY <1>2, <1>5, <2>1, ReturnStep
<1>6. CASE /\ ledger' = IF MoveToDebtOk(ledger, tier, "workspace", a.charge)
                        THEN MoveToDebt(ledger, tier, "workspace", a.charge) ELSE ledger
           /\ chunk' = [chunk EXCEPT ![c] = RememberCleanup(@, t, Debt(t, a))]
           /\ RollBack(t, items, IF lied THEN "poison" ELSE "clear")
  <2>1. GoodLedger(ledger')
    BY <1>2, <1>3, <1>6, MovesGood
  <2>2. a.id \in Resources \cup {None}
    BY <1>2 DEF Allocations
  <2>3. Nudged(chunk[c], RememberCleanup(chunk[c], t, Debt(t, a)), t)
    BY <1>2, <2>2, DebtNudges DEF OwnChunk
  <2>4. NudgesChunks(t)
    BY <1>2, <1>6, <2>3, UpdateNudges
  <2>5. Framed(t)
    BY <1>1, <1>2, <2>1, <2>4, SameQuiet DEF Framed
  <2>6. OwnItems(loc[t], items) /\ (IF lied THEN "poison" ELSE "clear") \in {"clear", "poison"}
    BY <1>2, DestinationItems
  <2> HIDE DEF items, lied
  <2>7. QED
    BY <1>2, <1>6, <2>5, <2>6, RollBackPlain
<1>7. QED
  BY <1>4, <1>5, <1>6 DEF SettleWorkspace

(***************************************************************************)
(* The end of a transaction                                                *)
(***************************************************************************)
LEMMA SettledFacts ==
  ASSUME TransactionInv, NEW t \in Threads, pc[t] \in PostCommit
  PROVE  /\ pc[t] \notin PreCommit \cup Unwinding \cup Filled \cup Compacting
         /\ loc[t].src \in Authorities /\ OwnChunk(t).txn = t
         /\ Claims(t) = {loc[t].src.resource}
         /\ SrcTier(t) \in Tiers /\ loc[t].src.charge \in Word
<1>1. pc[t] \notin PreCommit \cup Unwinding \cup Filled \cup Compacting
  BY DEF PostCommit, PreCommit, Unwinding, Filled, Compacting
<1>2. loc[t].src \in Authorities /\ OwnChunk(t).txn = t
  BY DEF TransactionInv, Threaded, ThreadInv, Transacting
<1>3. QED
  BY <1>1, <1>2, TiersTyped DEF Claims, ClaimsAt, SrcTier, Authorities

LEMMA ReleaseSourceStep ==
  ASSUME TransactionInv, NEW t \in Threads, ReleaseSource(t)
  PROVE  TransactionInv' /\ Steady(t)
<1> DEFINE p == "settle_src"
<1>1. pc[t] = "rel_src" /\ pc[t] \in PostCommit /\ ReleaseResource(t, loc[t].src.resource, p)
  BY DEF ReleaseSource, PostCommit
<1>2. /\ loc[t].src \in Authorities /\ OwnChunk(t).txn = t /\ Claims(t) = {loc[t].src.resource}
      /\ pc[t] \notin Holding \cup {"idle"} /\ loc[t].chunk \in Chunks
  BY <1>1, SettledFacts, WorkFacts
<1>3. PICK l \in Locals :
        Goto(t, p, l) /\ Framed(t) /\ UNCHANGED chunk /\ Kin(l, loc[t])
  BY <1>1, <1>2, ReleaseFacts
<1>4. /\ p \in PCs \ Holding /\ p \in PostCommit
      /\ p \notin PreCommit \cup Unwinding \cup Filled \cup Compacting \cup Writing \cup Leasing
      /\ p \notin {"idle", "begin", "settle"}
  BY DEF PCs, Holding, PostCommit, PreCommit, Unwinding, Filled, Compacting, Writing, Leasing
<1>5. Moves(t, p, l)
  BY <1>3, <1>4, GotoMoves DEF TransactionInv
<1> HIDE DEF p
<1>6. pc'[t] = p /\ loc'[t] = l
  BY <1>5 DEF Moves
<1>7. PlacedAt(pc[t], loc[t])
  BY DEF TransactionInv, Threaded, ThreadInv
<1>8. PlacedAt(p, l)
  BY <1>2, <1>3, <1>4, <1>7 DEF PlacedAt, Kin
<1>9. Transacting(t)'
  BY <1>2, <1>3, <1>4, <1>6 DEF Transacting, OwnChunk, Kin
<1>10. ThreadInv(t)'
  BY <1>4, <1>6, <1>8, <1>9 DEF ThreadInv, DeliveringAt, TargetingAt, Recording
<1>11. ClaimsAt(p, l) \subseteq Claims(t) \cup Fresh
  BY <1>2, <1>3, <1>4 DEF ClaimsAt, Kin
<1>12. QED
  BY <1>2, <1>3, <1>4, <1>5, <1>10, <1>11, SteadyStep DEF Kin

LEMMA SettleSourceStep ==
  ASSUME TransactionInv, NEW t \in Threads, SettleSource(t)
  PROVE  TransactionInv' /\ Steady(t)
<1> DEFINE c == loc[t].chunk
           s == loc[t].src
           gone == loc[t].released = "ok"
           ok == gone /\ ReleaseCleanupDebtOk(ledger, SrcTier(t), s.charge)
           d == IF ok THEN ClearTransition(ForgetCleanup(chunk[c], s.resource), t)
                ELSE IF loc[t].released = "fail" THEN ClearTransition(chunk[c], t)
                ELSE Poison(chunk[c], t)
<1>1. pc[t] = "settle_src" /\ pc[t] \in PostCommit /\ UNCHANGED store
      /\ ledger' = (IF ok THEN ReleaseCleanupDebt(ledger, SrcTier(t), s.charge) ELSE ledger)
      /\ chunk' = [chunk EXCEPT ![c] = d] /\ Return(t, ok)
  BY DEF SettleSource, PostCommit
<1>2. /\ SrcTier(t) \in Tiers /\ s.charge \in Word /\ pc[t] \notin Holding \cup {"idle"}
      /\ c \in Chunks /\ chunk[c] \in ChunkRecords /\ GoodLedger(ledger) /\ Typed
  BY <1>1, SettledFacts, WorkFacts
<1>3. "staging" \in Buckets
  BY DEF Buckets
<1>4. GoodLedger(ledger')
  BY <1>1, <1>2, <1>3, MovesGood
<1>5. Nudged(chunk[c], ForgetCleanup(chunk[c], s.resource), t) /\ Nudged(chunk[c], chunk[c], t)
  BY <1>2, ForgetNudges, NudgedSame
<1>6. Nudged(chunk[c], d, t)
  BY <1>2, <1>5, ClearNudges
<1>7. ok \in BOOLEAN
  BY DEF ReleaseCleanupDebtOk
<1> HIDE DEF d, ok
<1>8. NudgesChunks(t)
  BY <1>1, <1>2, <1>6, UpdateNudges
<1>9. Framed(t)
  BY <1>1, <1>2, <1>4, <1>8, SameQuiet DEF Framed
<1>10. QED
  BY <1>1, <1>2, <1>7, <1>9, ReturnStep

LEMMA RollbackSettleStep ==
  ASSUME TransactionInv, NEW t \in Threads, RollbackSettle(t)
  PROVE  TransactionInv' /\ Steady(t)
<1> DEFINE c == loc[t].chunk
           todo == loc[t].todo
           a == Head(todo)
           tier == DestTier(t)
           owed == RememberCleanup(chunk[c], t, Debt(t, a))
           l == [loc[t] EXCEPT !.todo = Tail(@)]
<1>1. pc[t] = "settle" /\ pc[t] \in Unwinding /\ UNCHANGED store /\ Goto(t, "rollback", l)
  BY DEF RollbackSettle, Unwinding
<1>2. /\ Typed /\ GoodLedger(ledger) /\ loc[t] \in Locals /\ tier \in Tiers
      /\ c \in Chunks /\ chunk[c] \in ChunkRecords
  BY <1>1, WorkFacts
<1>0. todo # <<>>
  BY <1>1 DEF TransactionInv, Threaded, ThreadInv, PlacedAt
<1>3. todo \in Seq(Items) /\ Tail(todo) \in Seq(Items) /\ a \in Items /\ Len(todo) \in Nat
      /\ Len(Tail(todo)) = Len(todo) - 1 /\ \A i \in 1 .. Len(todo) - 1 : Tail(todo)[i] = todo[i + 1]
  BY <1>0, <1>2 DEF Locals
<1>4. a.id \in Resources \cup {None} /\ a.charge \in Word /\ a.bucket \in Buckets
  BY <1>3 DEF Items
<1>5. OwnItems(loc[t], Tail(todo))
  <2>1. \A i \in 1 .. Len(todo) : todo[i].id \in OwnIds(loc[t])
    BY <1>1 DEF TransactionInv, Threaded, ThreadInv, PlacedAt
  <2>2. \A i \in 1 .. Len(Tail(todo)) : i + 1 \in 1 .. Len(todo) /\ Tail(todo)[i] = todo[i + 1]
    BY <1>3
  <2>3. QED
    BY <1>3, <2>1, <2>2 DEF OwnItems
<1>6. Nudged(chunk[c], owed, t) /\ Nudged(chunk[c], Poison(owed, t), t)
      /\ Nudged(chunk[c], Poison(chunk[c], t), t)
  <2>1. Nudged(chunk[c], owed, t)
    BY <1>1, <1>4, DebtNudges DEF OwnChunk
  <2> HIDE DEF owed
  <2>2. QED
    BY <1>2, <2>1, NudgedSame, ClearNudges
<1>7. GoodLedger(ledger') /\ \/ chunk' = chunk
                             \/ chunk' = [chunk EXCEPT ![c] = owed]
                             \/ chunk' = [chunk EXCEPT ![c] = Poison(owed, t)]
                             \/ chunk' = [chunk EXCEPT ![c] = Poison(chunk[c], t)]
  <2>1. /\ ReleaseMaterializedOk(ledger, tier, a.bucket, a.charge) =>
             GoodLedger(ReleaseMaterialized(ledger, tier, a.bucket, a.charge))
        /\ MoveToDebtOk(ledger, tier, a.bucket, a.charge) =>
             GoodLedger(MoveToDebt(ledger, tier, a.bucket, a.charge))
    BY <1>2, <1>4, MovesGood
  <2> HIDE DEF owed, a, tier
  <2>2. QED
    BY <1>2, <2>1 DEF RollbackSettle, owed, a, tier
<1>8. NudgesChunks(t)
  <2> HIDE DEF owed
  <2>1. QED
    BY <1>2, <1>6, <1>7, SameNudges, UpdateNudges
<1>9. Framed(t)
  BY <1>1, <1>2, <1>7, <1>8, SameQuiet DEF Framed
<1>10. /\ l \in Locals /\ Kin(l, loc[t]) /\ l.todo = Tail(todo)
       /\ l.dst = loc[t].dst /\ l.ws = loc[t].ws /\ l.comp = loc[t].comp
  BY <1>2, <1>3 DEF Locals, Kin
<1> HIDE DEF l
<1>11. QED
  BY <1>1, <1>5, <1>9, <1>10, RollBackStep

(***************************************************************************)
(* Steps that change the authority of a chunk, its content or its locks    *)
(***************************************************************************)

\* Nobody but t is inside a transaction on c or a write to it.
Alone(t, c) ==
  \A u \in Threads \ {t} : pc[u] \in PreCommit \cup PostCommit \cup Writing => loc[u].chunk # c

\* Then the other threads find what they rely on.
LEMMA OthersKeep ==
  ASSUME TransactionInv, NEW t \in Threads, Others(t), NEW c \in Chunks, NEW d,
         chunk' = [chunk EXCEPT ![c] = d], d.txn = chunk[c].txn,
         \A r \in Resources : r # chunk[c].auth.resource => store'[r] = store[r],
         Alone(t, c) \/ (d.auth = chunk[c].auth /\ store' = store),
         NEW u \in Threads \ {t}
  PROVE  ThreadInv(u)'
<1>1. pc'[u] = pc[u] /\ loc'[u] = loc[u] /\ ThreadInv(u)
  BY DEF Others, TransactionInv, Threaded
<1>2. \A e \in Chunks \ {c} : chunk'[e] = chunk[e]
  BY DEF TransactionInv, Typed
<1>3. chunk'[c] = d
  BY DEF TransactionInv, Typed
<1>4. \A r \in Claims(u) : r # chunk[c].auth.resource
  BY DEF TransactionInv, Claimed
<1>5. loc[u].chunk \in Chunks \/ pc[u] = "idle"
  BY <1>1 DEF ThreadInv, PlacedAt
<1>6. None \notin Resources
  BY TransactionAssumption DEF TransactionAssumption
<1>7. Transacting(u)'
  <2>1. CASE pc[u] \notin PreCommit \cup PostCommit
    BY <1>1, <2>1 DEF Transacting
  <2>2. CASE pc[u] \in PreCommit \cup PostCommit /\ loc[u].chunk # c
    <3>1. loc[u].chunk \in Chunks \ {c}
      BY <1>5, <2>2 DEF PreCommit, PostCommit, Filled
    <3>2. QED
      BY <1>1, <1>2, <3>1 DEF Transacting, ThreadInv, OwnChunk
  <2>3. CASE pc[u] \in PreCommit \cup PostCommit /\ loc[u].chunk = c
    <3>1. d.auth = chunk[c].auth
      BY <2>3 DEF Alone
    <3>2. QED
      BY <1>1, <1>3, <2>3, <3>1 DEF Transacting, ThreadInv, OwnChunk
  <2>4. QED
    BY <2>1, <2>2, <2>3
<1>8. DeliveringAt(pc[u], loc[u], store)'
  <2>1. CASE pc[u] \in Filled
    <3>1. loc[u].dst.id \in Claims(u) \cap Resources
      BY <1>1, <1>6, <2>1 DEF ThreadInv, DeliveringAt, Claims, ClaimsAt, PreCommit, PostCommit, Filled
    <3>2. store'[loc[u].dst.id] = store[loc[u].dst.id]
      BY <1>4, <3>1
    <3>3. QED
      BY <1>1, <3>2 DEF ThreadInv, DeliveringAt
  <2>2. QED
    BY <1>1, <2>1 DEF DeliveringAt
<1>9. TargetingAt(pc[u], loc[u], store)'
  <2>1. CASE pc[u] \in Compacting /\ loc[u].comp.id # None
    <3>1. loc[u].comp.id \in Claims(u) \cap Resources
      BY <2>1 DEF TransactionInv, Typed, Locals, Allocations, Claims, ClaimsAt, PreCommit,
                  PostCommit, Filled, Compacting
    <3>2. store'[loc[u].comp.id] = store[loc[u].comp.id]
      BY <1>4, <3>1
    <3>3. QED
      BY <1>1, <3>2 DEF ThreadInv, TargetingAt
  <2>2. QED
    BY <1>1, <2>1 DEF TargetingAt
<1>10. Recording(u)'
  <2>1. CASE pc[u] \notin Writing
    BY <1>1, <2>1 DEF Recording
  <2>2. CASE pc[u] \in Writing /\ loc[u].chunk # c
    <3>1. loc[u].chunk \in Chunks \ {c}
      BY <1>5, <2>2 DEF Writing
    <3>2. /\ chunk[loc[u].chunk].auth.resource # chunk[c].auth.resource
          /\ chunk[loc[u].chunk].auth.resource \in Resources
      BY <3>1 DEF TransactionInv, Claimed, Typed, ChunkRecords, Authorities
    <3>3. store'[chunk[loc[u].chunk].auth.resource] = store[chunk[loc[u].chunk].auth.resource]
      BY <3>2
    <3>4. QED
      BY <1>1, <1>2, <2>2, <3>1, <3>3 DEF Recording, ThreadInv, OwnChunk
  <2>3. CASE pc[u] \in Writing /\ loc[u].chunk = c
    <3>1. d.auth = chunk[c].auth /\ store' = store
      BY <2>3 DEF Alone
    <3>2. QED
      BY <1>1, <1>3, <2>3, <3>1 DEF Recording, ThreadInv, OwnChunk
  <2>4. QED
    BY <2>1, <2>2, <2>3
<1>11. QED
  BY <1>1, <1>7, <1>8, <1>9, <1>10 DEF ThreadInv

\* The holders of a chunk that a step of t is not about.
LEMMA HoldersElsewhere ==
  ASSUME TransactionInv, NEW t \in Threads, NEW p \in PCs, NEW l \in Locals, Moves(t, p, l),
         PlacedAt(p, l), NEW e \in Chunks, loc[t].acquire => loc[t].chunk # e,
         l.acquire => l.chunk # e
  PROVE  /\ IntentHolders(e)' = IntentHolders(e) /\ ReadHolders(e)' = ReadHolders(e)
         /\ WriteHolders(e)' = WriteHolders(e) /\ (WriteInFlight(e) <=> WriteInFlight(e)')
         /\ \A u \in IntentHolders(e) : loc'[u].access = loc[u].access
<1>1. /\ pc'[t] = p /\ loc'[t] = l
      /\ \A u \in Threads \ {t} : pc'[u] = pc[u] /\ loc'[u] = loc[u]
  BY DEF Moves, Others
<1>2. PlacedAt(pc[t], loc[t])
  BY DEF TransactionInv, Threaded, ThreadInv
<1>3. pc[t] \in Holding => loc[t].chunk # e
  BY <1>2 DEF PlacedAt, Leasing
<1>4. p \in Holding => l.chunk # e
  BY DEF PlacedAt, Leasing
<1>5. \A u \in Threads : u \in IntentHolders(e)' <=> u \in IntentHolders(e)
  BY <1>1 DEF IntentHolders
<1>6. \A u \in Threads : /\ u \in ReadHolders(e)' <=> u \in ReadHolders(e)
                         /\ u \in WriteHolders(e)' <=> u \in WriteHolders(e)
  BY <1>1, <1>3, <1>4 DEF ReadHolders, WriteHolders
<1>7. WriteInFlight(e) <=> WriteInFlight(e)'
  <2>1. Writing \subseteq Holding
    BY DEF Writing, Holding
  <2>2. ASSUME NEW u \in Threads
        PROVE  pc[u] \in Writing /\ loc[u].chunk = e <=> pc'[u] \in Writing /\ loc'[u].chunk = e
    BY <1>1, <1>3, <1>4, <2>1
  <2>3. QED
    BY <2>2 DEF WriteInFlight, Writing
<1>8. \A u \in IntentHolders(e) : loc'[u].access = loc[u].access
  BY <1>1 DEF IntentHolders
<1>9. QED
  BY <1>5, <1>6, <1>7, <1>8 DEF IntentHolders, ReadHolders, WriteHolders

\* A step of a lease: what remains is the thread that moves and its chunk.
LEMMA LeaseKeeps ==
  ASSUME TransactionInv, NEW t \in Threads, NEW p \in PCs, NEW l \in Locals, Moves(t, p, l),
         NEW c \in Chunks, NEW d \in ChunkRecords, chunk' = [chunk EXCEPT ![c] = d],
         d.txn = chunk[c].txn, d.auth.resource = chunk[c].auth.resource, UNCHANGED ledger,
         store' \in [Resources -> Descriptors \cup {None}],
         \A r \in Resources : r # chunk[c].auth.resource => store'[r] = store[r],
         Alone(t, c) \/ (d.auth = chunk[c].auth /\ store' = store),
         loc[t].acquire => loc[t].chunk = c, l.acquire => l.chunk = c,
         pc[t] \in Leasing \cup {"idle"}, p \in Leasing \cup {"idle"},
         ThreadInv(t)', ChunkLocked(c)', ChunkKept(c)'
  PROVE  TransactionInv'
<1> USE DEF TransactionInv
<1>1. /\ pc'[t] = p /\ loc'[t] = l /\ Others(t)
      /\ pc' \in [Threads -> PCs] /\ loc' \in [Threads -> Locals]
  BY DEF Moves
<1>2. chunk'[c] = d /\ \A e \in Chunks \ {c} : chunk'[e] = chunk[e]
  BY DEF Typed
<1>3. Typed'
  <2>1. chunk' \in [Chunks -> ChunkRecords] /\ GoodLedger(ledger')
    BY DEF Typed
  <2>2. QED
    BY <1>1, <2>1 DEF Typed
<1>4. PlacedAt(p, l)
  BY <1>1 DEF ThreadInv
<1>5. ASSUME NEW e \in Chunks \ {c}
      PROVE  /\ IntentHolders(e)' = IntentHolders(e) /\ ReadHolders(e)' = ReadHolders(e)
             /\ WriteHolders(e)' = WriteHolders(e) /\ (WriteInFlight(e) <=> WriteInFlight(e)')
             /\ \A u \in IntentHolders(e) : loc'[u].access = loc[u].access
  BY <1>4, HoldersElsewhere
<1>6. Locked'
  <2>1. ASSUME NEW e \in Chunks \ {c} PROVE ChunkLocked(e)'
    <3>1. chunk'[e] = chunk[e] /\ ChunkLocked(e)
      BY <1>2 DEF Locked
    <3>2. QED
      BY <1>5, <3>1 DEF ChunkLocked
  <2>2. QED
    BY <2>1 DEF Locked
<1>7. Threaded'
  BY <1>1, OthersKeep DEF Threaded
<1>8. Claimed'
  <2>1. Claims(t)' = {}
    BY <1>1 DEF Claims, ClaimsAt, Leasing, Holding, PreCommit, PostCommit, Unwinding, Filled
  <2>2. \A u \in Threads \ {t} : Claims(u)' = Claims(u)
    BY <1>1 DEF Claims, Others
  <2>3. \A e \in Chunks : chunk'[e].auth.resource = chunk[e].auth.resource
    BY <1>2
  <2>4. QED
    BY <2>1, <2>2, <2>3 DEF Claimed
<1>9. Kept'
  <2>1. ASSUME NEW e \in Chunks \ {c} PROVE ChunkKept(e)'
    <3>1. chunk'[e] = chunk[e] /\ ChunkKept(e)
      BY <1>2 DEF Kept
    <3>2. chunk[e].auth.resource \in Resources /\ chunk[e].auth.resource # chunk[c].auth.resource
      BY DEF Claimed, Typed, ChunkRecords, Authorities
    <3>3. store'[chunk[e].auth.resource] = store[chunk[e].auth.resource]
      BY <3>2
    <3>4. QED
      BY <1>5, <3>1, <3>3 DEF ChunkKept
  <2>2. QED
    BY <2>1 DEF Kept
<1>10. QED
  BY <1>3, <1>6, <1>7, <1>8, <1>9

(***************************************************************************)
(* What the holder of a lease or of an intent knows of its chunk           *)
(***************************************************************************)
LEMMA HoldersFinite ==
  ASSUME NEW c
  PROVE  IsFiniteSet(IntentHolders(c)) /\ IsFiniteSet(ReadHolders(c)) /\ IsFiniteSet(WriteHolders(c))
<1>1. IsFiniteSet(Threads)
  BY TransactionAssumption DEF TransactionAssumption
<1>2. /\ IntentHolders(c) \subseteq Threads /\ ReadHolders(c) \subseteq Threads
      /\ WriteHolders(c) \subseteq Threads
  BY DEF IntentHolders, ReadHolders, WriteHolders
<1>3. QED
  BY <1>1, <1>2, FS_Subset

\* Counters at 0 mean that there are no holders.
LEMMA NoHolders ==
  ASSUME TransactionInv, NEW c \in Chunks
  PROVE  /\ chunk[c].intents = 0 <=> IntentHolders(c) = {}
         /\ chunk[c].readers = 0 <=> ReadHolders(c) = {}
<1>1. chunk[c].intents = Cardinality(IntentHolders(c)) /\ chunk[c].readers = Cardinality(ReadHolders(c))
  BY DEF TransactionInv, Locked, ChunkLocked
<1>2. QED
  BY <1>1, HoldersFinite, FS_EmptySet

LEMMA HoldingFacts ==
  ASSUME TransactionInv, NEW t \in Threads, pc[t] \in Leasing
  PROVE  /\ loc[t] \in Locals /\ loc[t].acquire /\ loc[t].access \in Accesses
         /\ loc[t].chunk \in Chunks /\ chunk[loc[t].chunk] \in ChunkRecords /\ Typed
         /\ loc[t].dst = NoAlloc /\ loc[t].ws = NoAlloc /\ loc[t].comp = NoAlloc
         /\ ChunkLocked(loc[t].chunk) /\ ChunkKept(loc[t].chunk)
<1>1. PlacedAt(pc[t], loc[t]) /\ loc[t] \in Locals /\ pc[t] # "idle" /\ Typed
  BY DEF TransactionInv, Threaded, ThreadInv, Typed, Leasing, Holding
<1>2. loc[t].chunk \in Chunks
  BY <1>1 DEF PlacedAt
<1>3. QED
  BY <1>1, <1>2 DEF PlacedAt, TransactionInv, Typed, Locked, Kept

LEMMA WriterFacts ==
  ASSUME TransactionInv, NEW t \in Threads, pc[t] \in Holding, loc[t].access = "read_write"
  PROVE  /\ OwnChunk(t).writer /\ WriteHolders(loc[t].chunk) = {t}
         /\ OwnChunk(t).txn = None /\ OwnChunk(t).readers = 0 /\ OwnChunk(t).intents = 0
         /\ ~OwnChunk(t).write_intent
         /\ IntentHolders(loc[t].chunk) = {} /\ ReadHolders(loc[t].chunk) = {}
         /\ Alone(t, loc[t].chunk)
<1> DEFINE c == loc[t].chunk
<1>1. c \in Chunks /\ ChunkLocked(c)
  BY HoldingFacts DEF Leasing
<1>2. t \in WriteHolders(c)
  BY DEF WriteHolders
<1>3. chunk[c].writer /\ WriteHolders(c) = {t}
  BY <1>1, <1>2 DEF ChunkLocked
<1>4. chunk[c].txn = None /\ chunk[c].readers = 0 /\ chunk[c].intents = 0 /\ ~chunk[c].write_intent
  BY <1>1, <1>3 DEF ChunkLocked
<1>5. IntentHolders(c) = {} /\ ReadHolders(c) = {}
  BY <1>1, <1>4, NoHolders
<1>6. ASSUME NEW u \in Threads \ {t}, pc[u] \in PreCommit \cup PostCommit PROVE loc[u].chunk # c
  <2>1. OwnChunk(u).txn = u
    BY <1>6 DEF TransactionInv, Threaded, ThreadInv, Transacting
  <2>2. QED
    BY <1>4, <2>1, TransactionAssumption DEF OwnChunk, TransactionAssumption
<1>7. ASSUME NEW u \in Threads \ {t}, pc[u] \in Writing PROVE loc[u].chunk # c
  <2>1. loc[u].access = "read_write" /\ pc[u] \in Holding
    BY <1>7 DEF TransactionInv, Threaded, ThreadInv, PlacedAt, Writing, Holding
  <2>2. QED
    BY <1>3, <2>1 DEF WriteHolders
<1>8. QED
  BY <1>3, <1>4, <1>5, <1>6, <1>7 DEF Alone, OwnChunk

LEMMA IntentFacts ==
  ASSUME TransactionInv, NEW t \in Threads, pc[t] \in Leasing \ Holding
  PROVE  /\ t \in IntentHolders(loc[t].chunk) /\ OwnChunk(t).intents > 0
         /\ ~OwnChunk(t).writer /\ WriteHolders(loc[t].chunk) = {}
         /\ OwnChunk(t).write_intent =>
              IntentHolders(loc[t].chunk) = {t} /\ loc[t].access = "read_write"
<1> DEFINE c == loc[t].chunk
<1>1. c \in Chunks /\ ChunkLocked(c) /\ loc[t].acquire
  BY HoldingFacts
<1>2. t \in IntentHolders(c)
  BY <1>1 DEF IntentHolders
<1>3. chunk[c].intents # 0 /\ chunk[c].intents \in Nat
  BY <1>1, <1>2, NoHolders DEF TransactionInv, Typed, ChunkRecords
<1>4. ~chunk[c].writer /\ WriteHolders(c) = {}
  BY <1>1, <1>3 DEF ChunkLocked
<1>5. chunk[c].write_intent => IntentHolders(c) = {t} /\ loc[t].access = "read_write"
  BY <1>1, <1>2 DEF ChunkLocked
<1>6. QED
  BY <1>2, <1>3, <1>4, <1>5 DEF OwnChunk

\* Who holds what when a thread stays where it is, leaves, or comes.
LEMMA HoldersStay ==
  ASSUME NEW t \in Threads, NEW p, NEW l, Moves(t, p, l), pc[t] \in Holding <=> p \in Holding,
         l.acquire = loc[t].acquire, l.chunk = loc[t].chunk, l.access = loc[t].access, NEW c
  PROVE  /\ IntentHolders(c)' = IntentHolders(c) /\ ReadHolders(c)' = ReadHolders(c)
         /\ WriteHolders(c)' = WriteHolders(c)
         /\ \A u \in Threads : loc'[u].access = loc[u].access
BY DEF Moves, Others, IntentHolders, ReadHolders, WriteHolders

LEMMA HoldersLeave ==
  ASSUME NEW t \in Threads, Moves(t, "idle", IdleLocals), NEW c
  PROVE  /\ IntentHolders(c)' = IntentHolders(c) \ {t} /\ ReadHolders(c)' = ReadHolders(c) \ {t}
         /\ WriteHolders(c)' = WriteHolders(c) \ {t}
         /\ \A u \in IntentHolders(c) \ {t} : loc'[u].access = loc[u].access
BY DEF Moves, Others, IntentHolders, ReadHolders, WriteHolders, IdleLocals, Holding

LEMMA IdleFacts ==
  /\ IdleLocals \in Locals /\ "idle" \in PCs /\ ~IdleLocals.acquire
  /\ PlacedAt("idle", IdleLocals)
  /\ "idle" \notin PreCommit \cup PostCommit \cup Unwinding \cup Filled \cup Compacting \cup Writing
               \cup Leasing \cup Holding
BY IdleTyped DEF IdleLocals, PCs, PlacedAt, PreCommit, PostCommit, Unwinding, Filled, Compacting,
                 Writing, Leasing, Holding

LEMMA IdleInv ==
  ASSUME NEW t \in Threads, Moves(t, "idle", IdleLocals)
  PROVE  ThreadInv(t)'
<1>1. pc'[t] = "idle" /\ loc'[t] = IdleLocals
  BY DEF Moves
<1>2. QED
  BY <1>1, IdleFacts DEF ThreadInv, Transacting, DeliveringAt, TargetingAt, Recording

\* Where a thread with a lease or an intent is, it is in no transaction.
LEMMA LeasingApart ==
  Leasing \cap (PreCommit \cup PostCommit \cup Unwinding \cup Filled \cup Compacting \cup {"idle", "begin", "settle"}) = {}
    /\ Leasing \subseteq PCs /\ Holding \subseteq Leasing /\ Writing \subseteq Holding
BY DEF PCs, PreCommit, PostCommit, Unwinding, Filled, Compacting, Writing, Leasing, Holding

LEMMA LeasingInv ==
  ASSUME NEW t \in Threads, NEW p \in Leasing \ Writing, NEW l, Moves(t, p, l), PlacedAt(p, l)
  PROVE  ThreadInv(t)'
<1>1. pc'[t] = p /\ loc'[t] = l
  BY DEF Moves
<1>2. QED
  BY <1>1, LeasingApart DEF ThreadInv, Transacting, DeliveringAt, TargetingAt, Recording

(***************************************************************************)
(* Intents                                                                 *)
(***************************************************************************)

\* Only the intents and the revision of a chunk change.
LEMMA IntentSteady ==
  ASSUME Typed, NEW t \in Threads, Others(t), store' = store, NEW c \in Chunks, NEW d,
         chunk' = [chunk EXCEPT ![c] = d], d.txn = chunk[c].txn, d.auth = chunk[c].auth,
         d.lifecycle = chunk[c].lifecycle, d.readers = chunk[c].readers, d.writer = chunk[c].writer
  PROVE  Steady(t)
<1>1. chunk'[c] = d /\ \A e \in Chunks \ {c} : chunk'[e] = chunk[e]
  BY DEF Typed
<1>2. OneChunk
  BY <1>1 DEF OneChunk
<1>3. QED
  BY <1>1, <1>2 DEF Steady
LEMMA IntendStep ==
  ASSUME TransactionInv, NEW t \in Threads, NEW c \in Chunks, NEW access \in Accesses,
         Intend(t, c, access)
  PROVE  TransactionInv' /\ Steady(t)
<1> DEFINE l == [IdleLocals EXCEPT !.chunk = c, !.access = access, !.acquire = TRUE]
           ch == chunk[c]
           w == access = "read_write"
           d == [ch EXCEPT !.revision = @ + 1, !.intents = @ + 1, !.write_intent = w]
<1>1. /\ pc[t] = "idle" /\ ~Incompatible(c, access) /\ UNCHANGED <<ledger, store>>
      /\ Goto(t, "restore", l)
  BY DEF Intend
<1>2. Typed /\ ch \in ChunkRecords /\ ChunkLocked(c) /\ ChunkKept(c)
  BY DEF TransactionInv, Typed, Locked, Kept
<1>3. chunk' = [chunk EXCEPT ![c] = d]
  BY <1>2 DEF Intend, Typed, ChunkRecords
<1>4. /\ l \in Locals /\ l.chunk = c /\ l.access = access /\ l.acquire = TRUE
      /\ l.dst = NoAlloc /\ l.ws = NoAlloc /\ l.comp = NoAlloc
  BY IdleTyped DEF IdleLocals, Locals
<1> HIDE DEF l
<1>5. "restore" \in Leasing \ Writing /\ "restore" \in PCs /\ "restore" \notin Holding
  BY DEF Leasing, Writing, PCs, Holding
<1>6. Moves(t, "restore", l)
  BY <1>1, <1>2, <1>4, <1>5, GotoMoves
<1>7. PlacedAt("restore", l)
  BY <1>4, <1>5, LeasingApart DEF PlacedAt
<1>8. ~loc[t].acquire /\ pc[t] \notin Holding
  BY <1>1, IdleFacts DEF TransactionInv, Threaded, ThreadInv, PlacedAt
<1>9. /\ d \in ChunkRecords /\ d.txn = ch.txn /\ d.auth = ch.auth /\ d.lifecycle = ch.lifecycle
      /\ d.readers = ch.readers /\ d.writer = ch.writer
      /\ d.intents = ch.intents + 1 /\ d.write_intent = w
  <2>1. w \in BOOLEAN
    OBVIOUS
  <2>0. ch.revision + 1 \in Nat /\ ch.intents + 1 \in Nat
    BY <1>2 DEF ChunkRecords
  <2> HIDE DEF w
  <2>2. d \in ChunkRecords
    BY <1>2, <2>0, <2>1 DEF ChunkRecords
  <2>3. /\ d.txn = ch.txn /\ d.auth = ch.auth /\ d.lifecycle = ch.lifecycle
        /\ d.readers = ch.readers /\ d.writer = ch.writer
    BY <1>2 DEF ChunkRecords
  <2>4. d.intents = ch.intents + 1 /\ d.write_intent = w
    BY <1>2 DEF ChunkRecords
  <2>5. QED
    BY <2>2, <2>3, <2>4
<1> HIDE DEF d
<1>10. chunk'[c] = d
  BY <1>2, <1>3 DEF Typed
<1>11. /\ pc'[t] = "restore" /\ loc'[t] = l
       /\ \A u \in Threads \ {t} : pc'[u] = pc[u] /\ loc'[u] = loc[u]
  BY <1>6 DEF Moves, Others
<1>12. /\ IntentHolders(c)' = IntentHolders(c) \cup {t} /\ t \notin IntentHolders(c)
       /\ ReadHolders(c)' = ReadHolders(c) /\ WriteHolders(c)' = WriteHolders(c)
  BY <1>4, <1>5, <1>8, <1>11 DEF IntentHolders, ReadHolders, WriteHolders
<1>13. ChunkLocked(c)'
  <2>1. Cardinality(IntentHolders(c)') = Cardinality(IntentHolders(c)) + 1
    BY <1>12, HoldersFinite, FS_AddElement
  <2>2. /\ ch.txn = None /\ ~ch.write_intent /\ ~ch.writer
        /\ access = "read_write" => ch.intents = 0 /\ ch.readers = 0
    BY <1>1 DEF Incompatible
  <2>3. IntentHolders(c) \subseteq Threads
    BY DEF IntentHolders
  <2>4. \A u \in IntentHolders(c) : loc[u].access # "read_write"
    BY <1>2, <2>2 DEF ChunkLocked
  <2>5. \A u \in IntentHolders(c) : loc'[u].access # "read_write"
    BY <1>11, <1>12, <2>3, <2>4
  <2>6. w => IntentHolders(c) = {}
    BY <2>2, NoHolders
  <2>7. w => IntentHolders(c)' = {t} /\ loc'[t].access = "read_write"
    BY <1>4, <1>11, <1>12, <2>6
  <2>8. \A u \in IntentHolders(c)' : loc'[u].access = "read_write" => w
    BY <1>4, <1>11, <1>12, <2>5
  <2>9. d.intents = Cardinality(IntentHolders(c)')
    BY <1>2, <1>9, <2>1 DEF ChunkLocked
  <2>10. w => ch.readers = 0 /\ ~ch.writer
    BY <2>2
  <2> HIDE DEF w
  <2>11. /\ d.readers = Cardinality(ReadHolders(c)') /\ d.txn = None /\ ~d.writer
         /\ WriteHolders(c)' = {}
    BY <1>2, <1>9, <1>12, <2>2 DEF ChunkLocked
  <2>12. d.write_intent <=> w
    BY <1>9
  <2>13. QED
    BY <1>9, <1>10, <2>7, <2>8, <2>9, <2>10, <2>11, <2>12 DEF ChunkLocked
<1>14. ChunkKept(c)'
  <2>1. WriteInFlight(c) => WriteInFlight(c)'
    BY <1>1, <1>11 DEF WriteInFlight
  <2>2. QED
    BY <1>1, <1>2, <1>9, <1>10, <2>1 DEF ChunkKept
<1>15. ThreadInv(t)'
  BY <1>5, <1>6, <1>7, LeasingInv
<1>16. store' \in [Resources -> Descriptors \cup {None}]
  BY <1>1, <1>2 DEF Typed
<1>17. TransactionInv'
  BY <1>1, <1>3, <1>4, <1>5, <1>6, <1>8, <1>9, <1>13, <1>14, <1>15, <1>16, LeaseKeeps
<1>18. Steady(t)
  BY <1>1, <1>2, <1>3, <1>6, <1>9, IntentSteady DEF Moves
<1>19. QED
  BY <1>17, <1>18

\* The two steps between the intent and migrate change nothing but the thread.
LEMMA ApproachStep ==
  ASSUME TransactionInv, NEW t \in Threads, pc[t] \in {"restore", "gate"},
         UNCHANGED <<ledger, store, chunk>>, NEW p \in {"pin", "gate", "begin", "drop_intent"},
         NEW gated \in BOOLEAN,
         Goto(t, p, loc[t]) \/ Goto(t, p, [loc[t] EXCEPT !.gated = gated])
  PROVE  TransactionInv' /\ Steady(t)
<1>1. pc[t] \in Leasing /\ pc[t] \notin Holding \cup Unwinding \cup PostCommit \cup PreCommit
  BY LeasingApart DEF Leasing, Holding
<1>2. /\ loc[t] \in Locals /\ loc[t].acquire /\ loc[t].access \in Accesses
      /\ loc[t].chunk \in Chunks /\ Typed
      /\ loc[t].dst = NoAlloc /\ loc[t].ws = NoAlloc /\ loc[t].comp = NoAlloc
  BY <1>1, HoldingFacts
<1>3. PICK l \in {loc[t], [loc[t] EXCEPT !.gated = gated]} : Goto(t, p, l)
  OBVIOUS
<1>4. /\ l \in Locals /\ l.acquire = loc[t].acquire /\ l.access = loc[t].access
      /\ l.chunk = loc[t].chunk /\ l.dst = NoAlloc /\ l.ws = NoAlloc /\ l.comp = NoAlloc
  <2>1. PICK k \in Locals : k = loc[t]
    BY <1>2
  <2>2. PICK m \in Locals : m = [k EXCEPT !.gated = gated]
    BY DEF Locals
  <2>3. /\ m.acquire = k.acquire /\ m.access = k.access /\ m.chunk = k.chunk
        /\ m.dst = k.dst /\ m.ws = k.ws /\ m.comp = k.comp
    BY <2>2 DEF Locals
  <2>4. l = k \/ l = m
    BY <1>3, <2>1, <2>2
  <2>5. QED
    BY <1>2, <2>1, <2>3, <2>4
<1>5. /\ p \in PCs \ Holding /\ p \notin PreCommit \cup PostCommit \cup Unwinding \cup Filled \cup Compacting \cup Writing
      /\ p \notin {"idle", "settle"}
  BY DEF PCs, Holding, PreCommit, PostCommit, Unwinding, Filled, Compacting, Writing
<1>6. Moves(t, p, l)
  BY <1>2, <1>3, <1>4, <1>5, GotoMoves
<1>7. PlacedAt(p, l)
  BY <1>2, <1>4, <1>5 DEF PlacedAt
<1>8. pc'[t] = p /\ loc'[t] = l
  BY <1>6 DEF Moves
<1>9. ThreadInv(t)'
  BY <1>5, <1>7, <1>8 DEF ThreadInv, Transacting, DeliveringAt, TargetingAt, Recording
<1>10. Framed(t)
  BY <1>2, SameNudges, SameQuiet DEF Framed, Typed
<1>11. ClaimsAt(p, l) = {}
  BY <1>5 DEF ClaimsAt
<1>12. QED
  BY <1>1, <1>4, <1>5, <1>6, <1>9, <1>10, <1>11, SteadyStep

LEMMA RestoreStep ==
  ASSUME TransactionInv, NEW t \in Threads, Restore(t)
  PROVE  TransactionInv' /\ Steady(t)
<1> DEFINE p == IF chunk[loc[t].chunk].auth.state = "gpu_raw" THEN "pin" ELSE "gate"
<1>1. pc[t] = "restore" /\ UNCHANGED <<ledger, store, chunk>> /\ Goto(t, p, loc[t])
  BY DEF Restore
<1>2. p \in {"pin", "gate", "begin", "drop_intent"} /\ TRUE \in BOOLEAN
  OBVIOUS
<1> HIDE DEF p
<1>3. QED
  BY <1>1, <1>2, ApproachStep

LEMMA TakeGateStep ==
  ASSUME TransactionInv, NEW t \in Threads, TakeGate(t)
  PROVE  TransactionInv' /\ Steady(t)
<1>1. pc[t] = "gate" /\ UNCHANGED <<ledger, store, chunk>>
      /\ \/ Goto(t, "begin", [loc[t] EXCEPT !.gated = Gated])
         \/ Goto(t, "drop_intent", loc[t])
  BY DEF TakeGate
<1>2. Gated \in BOOLEAN
  BY TransactionAssumption DEF TransactionAssumption
<1>3. QED
  BY <1>1, <1>2, ApproachStep

\* An intent is given up: by an acquire that failed, before or after its migration.
LEMMA UnintendStep ==
  ASSUME TransactionInv, NEW t \in Threads, pc[t] \in Leasing \ Holding,
         UNCHANGED <<ledger, store>>, Goto(t, "idle", IdleLocals),
         chunk' = [chunk EXCEPT ![loc[t].chunk] = WithoutIntent(@, loc[t].access)]
  PROVE  TransactionInv' /\ Steady(t)
<1>0. PICK c \in Chunks : c = loc[t].chunk
  BY HoldingFacts
<1> DEFINE ch == chunk[c]
           d == WithoutIntent(ch, loc[t].access)
<1>1. /\ Typed /\ c \in Chunks /\ ch \in ChunkRecords /\ ChunkLocked(c) /\ ChunkKept(c)
      /\ loc[t].acquire
  BY <1>0, HoldingFacts
<1>2. /\ t \in IntentHolders(c) /\ ch.intents > 0 /\ ~ch.writer /\ WriteHolders(c) = {}
      /\ ch.write_intent => IntentHolders(c) = {t} /\ loc[t].access = "read_write"
  BY <1>0, IntentFacts DEF OwnChunk
<1>3. Moves(t, "idle", IdleLocals)
  BY <1>1, IdleFacts, GotoMoves
<1>4. /\ IntentHolders(c)' = IntentHolders(c) \ {t} /\ ReadHolders(c)' = ReadHolders(c) \ {t}
      /\ WriteHolders(c)' = WriteHolders(c) \ {t}
      /\ \A u \in IntentHolders(c) \ {t} : loc'[u].access = loc[u].access
  BY <1>3, HoldersLeave
<1>5. t \notin ReadHolders(c)
  BY DEF ReadHolders
<1>6. /\ d \in ChunkRecords /\ d.txn = ch.txn /\ d.auth = ch.auth /\ d.lifecycle = ch.lifecycle
      /\ d.readers = ch.readers /\ d.writer = ch.writer /\ d.intents = ch.intents - 1
      /\ ~d.write_intent
  <2> DEFINE w == ch.write_intent /\ loc[t].access # "read_write"
  <2>1. ~w /\ w \in BOOLEAN
    BY <1>2
  <2>2. d = [ch EXCEPT !.intents = @ - 1, !.write_intent = w]
    BY DEF WithoutIntent
  <2>3. ch.intents - 1 \in Nat
    BY <1>1, <1>2 DEF ChunkRecords
  <2> HIDE DEF w
  <2>4. d \in ChunkRecords
    BY <1>1, <2>1, <2>2, <2>3 DEF ChunkRecords
  <2>5. /\ d.txn = ch.txn /\ d.auth = ch.auth /\ d.lifecycle = ch.lifecycle
        /\ d.readers = ch.readers /\ d.writer = ch.writer /\ d.intents = ch.intents - 1
    BY <1>1, <2>2 DEF ChunkRecords
  <2>6. ~d.write_intent
    BY <1>1, <2>1, <2>2 DEF ChunkRecords
  <2>7. QED
    BY <2>4, <2>5, <2>6
<1>7. chunk' = [chunk EXCEPT ![c] = d]
  BY <1>0
<1> HIDE DEF d
<1>8. chunk'[c] = d
  BY <1>1, <1>7 DEF Typed
<1>9. ChunkLocked(c)'
  <2>1. Cardinality(IntentHolders(c)') = Cardinality(IntentHolders(c)) - 1
    BY <1>2, <1>4, HoldersFinite, FS_RemoveElement
  <2>2. d.intents = Cardinality(IntentHolders(c)')
    BY <1>1, <1>6, <2>1 DEF ChunkLocked
  <2>3. ReadHolders(c)' = ReadHolders(c) /\ WriteHolders(c)' = {}
    BY <1>2, <1>4, <1>5
  <2>4. \A u \in IntentHolders(c)' : loc'[u].access # "read_write"
    BY <1>1, <1>2, <1>4 DEF ChunkLocked
  <2>5. QED
    BY <1>1, <1>2, <1>6, <1>8, <2>2, <2>3, <2>4 DEF ChunkLocked
<1>10. ChunkKept(c)'
  <2>1. WriteInFlight(c) => WriteInFlight(c)'
    BY <1>3, LeasingApart DEF WriteInFlight, Moves, Others, Holding, Writing
  <2>2. QED
    BY <1>1, <1>6, <1>8, <2>1 DEF ChunkKept
<1>11. ThreadInv(t)'
  BY <1>3, IdleInv
<1>12. store' \in [Resources -> Descriptors \cup {None}]
  BY <1>1 DEF Typed
<1>13. TransactionInv'
  BY <1>1, <1>3, <1>6, <1>7, <1>9, <1>10, <1>0, <1>11, <1>12, IdleFacts, LeaseKeeps
<1>14. Steady(t)
  BY <1>1, <1>3, <1>6, <1>7, IntentSteady DEF Moves
<1>15. QED
  BY <1>13, <1>14

LEMMA DropIntentStep ==
  ASSUME TransactionInv, NEW t \in Threads, DropIntent(t)
  PROVE  TransactionInv' /\ Steady(t)
<1>1. pc[t] = "drop_intent" /\ UNCHANGED <<ledger, store>> /\ Goto(t, "idle", IdleLocals)
      /\ chunk' = [chunk EXCEPT ![loc[t].chunk] = WithoutIntent(@, loc[t].access)]
  BY DEF DropIntent
<1>2. pc[t] \in Leasing \ Holding
  BY <1>1 DEF Leasing, Holding
<1>3. QED
  BY <1>1, <1>2, UnintendStep

(***************************************************************************)
(* Pins                                                                    *)
(***************************************************************************)

\* The intent of t becomes a pin of its chunk c, whose record becomes d.
Pins(t, c, d) ==
  /\ c = loc[t].chunk /\ UNCHANGED <<ledger, store>> /\ chunk' = [chunk EXCEPT ![c] = d]
  /\ pc[t] = "pin" /\ Goto(t, "leased", [loc[t] EXCEPT !.initial = chunk[c].auth.content])
  /\ chunk[c].lifecycle = "live" /\ chunk[c].txn = None /\ chunk[c].auth.state = "gpu_raw"
  /\ d.txn = None /\ d.auth = chunk[c].auth /\ d.lifecycle = "live"
  /\ ~d.write_intent /\ d.intents = chunk[c].intents - 1
  /\ \/ /\ loc[t].access = "read_only"
        /\ d.readers = chunk[c].readers + 1 /\ d.writer = chunk[c].writer
     \/ /\ loc[t].access = "read_write"
        /\ d.readers = chunk[c].readers /\ d.writer

LEMMA PinnedStep ==
  ASSUME TransactionInv, NEW t \in Threads, NEW c \in Chunks, NEW d \in ChunkRecords, Pins(t, c, d)
  PROVE  TransactionInv'
<1> USE DEF Pins
<1> DEFINE ch == chunk[c]
           l == [loc[t] EXCEPT !.initial = chunk[c].auth.content]
<1>1. /\ Typed /\ ch \in ChunkRecords /\ ChunkLocked(c) /\ ChunkKept(c) /\ loc[t] \in Locals
      /\ loc[t].acquire /\ loc[t].access \in Accesses /\ pc[t] \in Leasing \ Holding
      /\ loc[t].dst = NoAlloc /\ loc[t].ws = NoAlloc /\ loc[t].comp = NoAlloc
  BY HoldingFacts DEF Leasing, Holding
<1>2. /\ t \in IntentHolders(c) /\ ch.intents > 0 /\ ~ch.writer /\ WriteHolders(c) = {}
      /\ ch.write_intent => IntentHolders(c) = {t} /\ loc[t].access = "read_write"
  BY <1>1, IntentFacts DEF OwnChunk
<1>3. /\ l \in Locals /\ l.chunk = c /\ l.access = loc[t].access /\ l.acquire = loc[t].acquire
      /\ l.dst = NoAlloc /\ l.ws = NoAlloc /\ l.comp = NoAlloc
  <2>1. chunk[c].auth.content \in Contents
    BY <1>1 DEF ChunkRecords, Authorities
  <2>2. QED
    BY <1>1, <2>1 DEF Locals
<1> HIDE DEF l
<1>4. "leased" \in Leasing \ Writing /\ "leased" \in PCs /\ "leased" \in Holding
  BY DEF Leasing, Writing, PCs, Holding
<1>5. Moves(t, "leased", l)
  BY <1>1, <1>3, <1>4, GotoMoves DEF l
<1>6. PlacedAt("leased", l)
  BY <1>1, <1>3, <1>4, LeasingApart DEF PlacedAt
<1>7. /\ pc'[t] = "leased" /\ loc'[t] = l
      /\ \A u \in Threads \ {t} : pc'[u] = pc[u] /\ loc'[u] = loc[u]
  BY <1>5 DEF Moves, Others
<1>8. chunk'[c] = d
  BY <1>1 DEF Typed
<1>9. /\ IntentHolders(c)' = IntentHolders(c) \ {t}
      /\ ReadHolders(c)' = IF l.access = "read_only" THEN ReadHolders(c) \cup {t} ELSE ReadHolders(c)
      /\ WriteHolders(c)' = IF l.access = "read_write" THEN WriteHolders(c) \cup {t} ELSE WriteHolders(c)
      /\ \A u \in IntentHolders(c) \ {t} : loc'[u].access = loc[u].access
      /\ t \notin ReadHolders(c)
  <2>1. pc[t] \notin Holding
    BY <1>1
  <2>2. IntentHolders(c)' = IntentHolders(c) \ {t}
    BY <1>4, <1>7 DEF IntentHolders
  <2>3. ReadHolders(c)' = IF l.access = "read_only" THEN ReadHolders(c) \cup {t} ELSE ReadHolders(c)
    BY <1>3, <1>4, <1>7, <2>1 DEF ReadHolders
  <2>4. WriteHolders(c)' = IF l.access = "read_write" THEN WriteHolders(c) \cup {t} ELSE WriteHolders(c)
    BY <1>3, <1>4, <1>7, <2>1 DEF WriteHolders
  <2>5. \A u \in IntentHolders(c) \ {t} : loc'[u].access = loc[u].access
    BY <1>7 DEF IntentHolders
  <2>6. QED
    BY <2>1, <2>2, <2>3, <2>4, <2>5 DEF ReadHolders
<1>10. d.intents = Cardinality(IntentHolders(c)')
  <2>1. Cardinality(IntentHolders(c) \ {t}) = Cardinality(IntentHolders(c)) - 1
    BY <1>2, HoldersFinite, FS_RemoveElement
  <2>2. QED
    BY <1>1, <1>9, <2>1 DEF ChunkLocked
<1>11. ChunkLocked(c)'
  <2>1. CASE loc[t].access = "read_only"
    <3>1. Cardinality(ReadHolders(c) \cup {t}) = Cardinality(ReadHolders(c)) + 1
      BY <1>9, HoldersFinite, FS_AddElement
    <3>2. d.readers = Cardinality(ReadHolders(c)') /\ WriteHolders(c)' = {} /\ ~d.writer
      BY <1>1, <1>2, <1>3, <1>9, <2>1, <3>1 DEF ChunkLocked
    <3>3. \A u \in IntentHolders(c)' : loc'[u].access # "read_write"
      BY <1>1, <1>2, <1>9, <2>1 DEF ChunkLocked
    <3>4. QED
      BY <1>8, <1>10, <3>2, <3>3 DEF ChunkLocked
  <2>2. CASE loc[t].access = "read_write"
    <3>1. ch.write_intent /\ ch.readers = 0 /\ IntentHolders(c) = {t}
      BY <1>1, <1>2, <2>2 DEF ChunkLocked
    <3>2. IntentHolders(c)' = {} /\ ReadHolders(c)' = ReadHolders(c) /\ WriteHolders(c)' = {t}
      BY <1>2, <1>3, <1>9, <2>2, <3>1
    <3>3. d.intents = 0
      BY <1>10, <3>2, FS_EmptySet
    <3>4. d.readers = 0 /\ d.readers = Cardinality(ReadHolders(c)') /\ d.writer
      BY <1>1, <2>2, <3>1, <3>2 DEF ChunkLocked
    <3>5. QED
      BY <1>8, <1>10, <3>2, <3>3, <3>4 DEF ChunkLocked
  <2>3. QED
    BY <1>1, <2>1, <2>2 DEF Accesses
<1>12. ChunkKept(c)'
  <2>1. WriteInFlight(c) => WriteInFlight(c)'
    BY <1>7 DEF WriteInFlight
  <2>2. QED
    BY <1>1, <1>8, <2>1 DEF ChunkKept
<1>13. ThreadInv(t)'
  BY <1>4, <1>5, <1>6, LeasingInv
<1>14. store' \in [Resources -> Descriptors \cup {None}]
  BY <1>1 DEF Typed
<1>15. QED
  BY <1>1, <1>3, <1>4, <1>5, <1>8, <1>11, <1>12, <1>13, <1>14, LeaseKeeps

\* The intent is given up, or becomes a pin.
LEMMA PinFacts ==
  ASSUME TransactionInv, NEW t \in Threads, Pin(t)
  PROVE  \/ TransactionInv' /\ Steady(t)
         \/ \E c \in Chunks, d \in ChunkRecords : Pins(t, c, d)
<1>1. pc[t] = "pin" /\ UNCHANGED <<ledger, store>>
  BY DEF Pin
<1>2. pc[t] \in Leasing \ Holding
  BY <1>1 DEF Leasing, Holding
<1>3. PICK c \in Chunks : c = loc[t].chunk
  BY <1>2, HoldingFacts
<1> DEFINE ch == chunk[c]
           after == WithoutIntent(ch, loc[t].access)
<1>4. CASE ch.lifecycle # "live" \/ ch.txn # None \/ ch.auth.state # "gpu_raw"
  <2>1. Goto(t, "idle", IdleLocals)
        /\ chunk' = [chunk EXCEPT ![loc[t].chunk] = WithoutIntent(@, loc[t].access)]
    BY <1>3, <1>4 DEF Pin
  <2>2. QED
    BY <1>1, <1>2, <2>1, UnintendStep
<1>5. CASE ~(ch.lifecycle # "live" \/ ch.txn # None \/ ch.auth.state # "gpu_raw")
  <2> DEFINE d == IF loc[t].access = "read_only" THEN [after EXCEPT !.readers = @ + 1]
                                                 ELSE [after EXCEPT !.writer = TRUE]
             w == ch.write_intent /\ loc[t].access # "read_write"
  <2>1. chunk' = [chunk EXCEPT ![c] = d]
        /\ Goto(t, "leased", [loc[t] EXCEPT !.initial = ch.auth.content])
    BY <1>3, <1>5 DEF Pin
  <2>2. /\ ch \in ChunkRecords /\ ch.auth.content \in Contents /\ loc[t].access \in Accesses
    BY <1>2, <1>3, HoldingFacts DEF ChunkRecords, Authorities
  <2>3. /\ ch.intents > 0 /\ ~w /\ w \in BOOLEAN
    BY <1>2, <1>3, IntentFacts DEF OwnChunk
  <2>4. ch.intents - 1 \in Nat /\ ch.readers + 1 \in Nat
    BY <2>2, <2>3 DEF ChunkRecords
  <2>5. after = [ch EXCEPT !.intents = @ - 1, !.write_intent = w]
    BY DEF WithoutIntent
  <2> HIDE DEF w
  <2>6. /\ after \in ChunkRecords /\ after.txn = ch.txn /\ after.auth = ch.auth
        /\ after.lifecycle = ch.lifecycle /\ after.readers = ch.readers /\ after.writer = ch.writer
        /\ ~after.write_intent /\ after.intents = ch.intents - 1
    <3>1. after \in ChunkRecords
      BY <2>2, <2>3, <2>4, <2>5 DEF ChunkRecords
    <3>2. /\ after.txn = ch.txn /\ after.auth = ch.auth
          /\ after.lifecycle = ch.lifecycle /\ after.readers = ch.readers /\ after.writer = ch.writer
      BY <2>2, <2>5 DEF ChunkRecords
    <3>3. after.write_intent = w /\ after.intents = ch.intents - 1
      BY <2>2, <2>5 DEF ChunkRecords
    <3>4. QED
      BY <2>3, <3>1, <3>2, <3>3
  <2> HIDE DEF after
  <2>7. /\ d \in ChunkRecords /\ d.txn = ch.txn /\ d.auth = ch.auth /\ d.lifecycle = ch.lifecycle
        /\ ~d.write_intent /\ d.intents = ch.intents - 1
        /\ \/ loc[t].access = "read_only" /\ d.readers = ch.readers + 1 /\ d.writer = ch.writer
           \/ loc[t].access = "read_write" /\ d.readers = ch.readers /\ d.writer
    <3>1. CASE loc[t].access = "read_only"
      BY <2>4, <2>6, <3>1 DEF ChunkRecords
    <3>2. CASE loc[t].access = "read_write"
      <4>1. d = [after EXCEPT !.writer = TRUE] /\ TRUE \in BOOLEAN
        BY <3>2
      <4>2. QED
        BY <2>6, <3>2, <4>1 DEF ChunkRecords
    <3>3. QED
      BY <2>2, <3>1, <3>2 DEF Accesses
  <2> HIDE DEF d
  <2>8. QED
    BY <1>1, <1>3, <1>5, <2>1, <2>7 DEF Pins
<1>6. QED
  BY <1>4, <1>5

LEMMA PinStep ==
  ASSUME TransactionInv, NEW t \in Threads, Pin(t)
  PROVE  TransactionInv'
BY PinFacts, PinnedStep

(***************************************************************************)
(* Writes                                                                  *)
(***************************************************************************)

\* A step of the holder of a lease that keeps the lease: the locks stay as they are.
LEMMA LeaseStays ==
  ASSUME TransactionInv, NEW t \in Threads, NEW p, NEW l, Moves(t, p, l),
         pc[t] \in Holding, p \in Holding,
         l.acquire = loc[t].acquire, l.chunk = loc[t].chunk, l.access = loc[t].access,
         NEW c \in Chunks, NEW d, chunk'[c] = d,
         d.txn = chunk[c].txn, d.readers = chunk[c].readers, d.writer = chunk[c].writer,
         d.intents = chunk[c].intents, d.write_intent = chunk[c].write_intent
  PROVE  ChunkLocked(c)'
<1>1. /\ IntentHolders(c)' = IntentHolders(c) /\ ReadHolders(c)' = ReadHolders(c)
      /\ WriteHolders(c)' = WriteHolders(c)
      /\ \A u \in Threads : loc'[u].access = loc[u].access
  BY HoldersStay
<1>2. ChunkLocked(c)
  BY DEF TransactionInv, Locked
<1>3. IntentHolders(c) \subseteq Threads
  BY DEF IntentHolders
<1>4. QED
  BY <1>1, <1>2, <1>3 DEF ChunkLocked

LEMMA BackendWriteStep ==
  ASSUME TransactionInv, NEW t \in Threads, pc[t] = "leased", loc[t].access = "read_write",
         NEW next \in Writing, BackendWrite(t, next)
  PROVE  TransactionInv'
<1>1. pc[t] \in Holding /\ pc[t] \in Leasing /\ next \in Leasing /\ next \in Holding /\ next \in PCs
  BY LeasingApart DEF Holding, Leasing
<1>2. PICK c \in Chunks : c = loc[t].chunk
  BY <1>1, HoldingFacts
<1> DEFINE a == chunk[c].auth
<1>3. /\ Typed /\ chunk[c] \in ChunkRecords /\ ChunkKept(c) /\ loc[t] \in Locals
      /\ loc[t].acquire /\ loc[t].dst = NoAlloc /\ loc[t].ws = NoAlloc /\ loc[t].comp = NoAlloc
  BY <1>1, <1>2, HoldingFacts
<1>4. a \in Authorities /\ a.resource \in Resources /\ a.content \in Contents /\ a.content \in Int
      /\ MaxGeneration \in Nat
  BY <1>3, TransactionAssumption DEF ChunkRecords, Authorities, Contents, TransactionAssumption
<1>5. /\ store \in [Resources -> Descriptors \cup {None}] /\ store[a.resource] \in Descriptors
      /\ store[a.resource].tier = TierOf(a.state) /\ store[a.resource].charge = a.charge
  BY <1>3, <1>4 DEF Typed, ChunkKept
<1>6. PICK released \in {"ok", "fail"} :
        /\ Goto(t, next, [loc[t] EXCEPT !.released = released, !.src = a])
        /\ \/ store' = store
           \/ \E w \in Contents \cup {Garbage} : store' = [store EXCEPT ![a.resource].content = w]
        /\ UNCHANGED <<ledger, chunk>>
        /\ released = "ok" => /\ a.content < MaxGeneration
                              /\ store' = [store EXCEPT ![a.resource].content = a.content + 1]
  <2>1. CASE /\ a.content < MaxGeneration
             /\ store' = [store EXCEPT ![a.resource].content = a.content + 1]
             /\ Goto(t, next, [loc[t] EXCEPT !.released = "ok", !.src = a])
             /\ UNCHANGED <<ledger, chunk>>
    <3>1. a.content + 1 \in Contents
      BY <1>4, <2>1 DEF Contents
    <3>2. QED
      BY <2>1, <3>1
  <2>2. CASE /\ store' \in {store, [store EXCEPT ![a.resource].content = Garbage]}
             /\ Goto(t, next, [loc[t] EXCEPT !.released = "fail", !.src = a])
             /\ UNCHANGED <<ledger, chunk>>
    BY <2>2
  <2>3. QED
    BY <1>2, <2>1, <2>2 DEF BackendWrite
<1> DEFINE l == [loc[t] EXCEPT !.released = released, !.src = a]
<1>7. /\ l \in Locals /\ l.chunk = c /\ l.access = "read_write" /\ l.acquire = loc[t].acquire
      /\ l.dst = NoAlloc /\ l.ws = NoAlloc /\ l.comp = NoAlloc
      /\ l.src = a /\ l.released = released
  BY <1>2, <1>3, <1>4 DEF Locals
<1> HIDE DEF l
<1>8. Moves(t, next, l)
  BY <1>1, <1>3, <1>6, <1>7, GotoMoves DEF l
<1>9. pc'[t] = next /\ loc'[t] = l
  BY <1>8 DEF Moves
<1>10. /\ store' \in [Resources -> Descriptors \cup {None}]
       /\ store'[a.resource] \in Descriptors
       /\ store'[a.resource].tier = store[a.resource].tier
       /\ store'[a.resource].charge = store[a.resource].charge
       /\ \A r \in Resources : r # a.resource => store'[r] = store[r]
       /\ released = "ok" => store'[a.resource].content = a.content + 1
  <2>1. CASE store' = store /\ released # "ok"
    BY <1>5, <2>1
  <2>2. ASSUME NEW w \in Contents \cup {Garbage}, store' = [store EXCEPT ![a.resource].content = w],
               released = "ok" => w = a.content + 1
        PROVE  <1>10
    <3> DEFINE x == [store[a.resource] EXCEPT !.content = w]
    <3>1. /\ x \in Descriptors /\ x.tier = store[a.resource].tier
          /\ x.charge = store[a.resource].charge /\ x.content = w
      BY <1>5 DEF Descriptors
    <3>2. store' = [store EXCEPT ![a.resource] = x]
      BY <2>2
    <3> HIDE DEF x
    <3>3. QED
      BY <1>4, <1>5, <2>2, <3>1, <3>2
  <2>3. CASE released = "ok"
    <3>1. a.content + 1 \in Contents
      BY <1>4, <1>6, <2>3 DEF Contents
    <3>2. QED
      BY <1>6, <2>2, <2>3, <3>1
  <2>4. QED
    BY <1>6, <2>1, <2>2, <2>3
<1>11. Alone(t, c)
  BY <1>1, <1>2, WriterFacts
<1>12. chunk' = [chunk EXCEPT ![c] = chunk[c]] /\ chunk' = chunk
  BY <1>3, <1>6 DEF Typed
<1>13. ChunkLocked(c)'
  BY <1>1, <1>2, <1>7, <1>8, <1>12, LeaseStays
<1>14. ChunkKept(c)'
  <2>1. WriteInFlight(c)'
    BY <1>7, <1>9 DEF WriteInFlight, Writing
  <2>2. store'[a.resource] # None
    BY <1>10, TransactionAssumption DEF TransactionAssumption
  <2>3. QED
    BY <1>3, <1>5, <1>10, <1>12, <2>1, <2>2 DEF ChunkKept
<1>15. ThreadInv(t)'
  <2>1. PlacedAt(next, l)
    BY <1>1, <1>2, <1>3, <1>7, LeasingApart DEF PlacedAt, Accesses
  <2>2. /\ l.src = chunk'[l.chunk].auth
        /\ l.released = "ok" => /\ l.src.content < MaxGeneration
                                /\ store'[l.src.resource].content = l.src.content + 1
    BY <1>6, <1>7, <1>10, <1>12
  <2>3. next \notin PreCommit \cup PostCommit \cup Filled \cup Compacting
    BY <1>1, LeasingApart
  <2>4. QED
    BY <1>9, <2>1, <2>2, <2>3
       DEF ThreadInv, Transacting, DeliveringAt, TargetingAt, Recording, OwnChunk
<1>16. UNCHANGED ledger
  BY <1>6
<1>17. loc[t].chunk = c /\ l.chunk = c
  BY <1>2, <1>7
<1> DEFINE d == chunk[c]
<1>18. /\ next \in PCs /\ l \in Locals /\ Moves(t, next, l) /\ d \in ChunkRecords
       /\ chunk' = [chunk EXCEPT ![c] = d] /\ d.txn = chunk[c].txn /\ d.auth = chunk[c].auth
       /\ store' \in [Resources -> Descriptors \cup {None}]
       /\ \A r \in Resources : r # chunk[c].auth.resource => store'[r] = store[r]
       /\ pc[t] \in Leasing \cup {"idle"} /\ next \in Leasing \cup {"idle"}
  BY <1>1, <1>3, <1>7, <1>8, <1>10, <1>12
<1> HIDE DEF a, d
<1>19. QED
  BY <1>11, <1>13, <1>14, <1>15, <1>16, <1>17, <1>18, LeaseKeeps

LEMMA WriteBytesStep ==
  ASSUME TransactionInv, NEW t \in Threads, WriteBytes(t)
  PROVE  TransactionInv'
<1>1. pc[t] = "leased" /\ loc[t].access = "read_write" /\ BackendWrite(t, "writing")
  BY DEF WriteBytes
<1>2. "writing" \in Writing
  BY DEF Writing
<1>3. QED
  BY <1>1, <1>2, BackendWriteStep

LEMMA CloseUnwrittenStep ==
  ASSUME TransactionInv, NEW t \in Threads, CloseUnwritten(t)
  PROVE  TransactionInv'
<1>1. pc[t] = "leased" /\ loc[t].access = "read_write" /\ BackendWrite(t, "closing_write")
  BY DEF CloseUnwritten
<1>2. "closing_write" \in Writing
  BY DEF Writing
<1>3. QED
  BY <1>1, <1>2, BackendWriteStep

\* A write that returns finds the chunk as it left it, and records what it did.
LEMMA RecordFacts ==
  ASSUME TransactionInv, NEW t \in Threads, pc[t] \in Writing,
         NEW c \in Chunks, c = loc[t].chunk, NEW d, d = RecordWrite(chunk[c], t)
  PROVE  /\ StillPinned(chunk[c], t) /\ chunk[c].auth.content = loc[t].src.content
         /\ d \in ChunkRecords /\ d.txn = chunk[c].txn
         /\ d.readers = chunk[c].readers /\ d.writer = chunk[c].writer
         /\ d.intents = chunk[c].intents /\ d.write_intent = chunk[c].write_intent
         /\ d.auth.resource = chunk[c].auth.resource /\ d.auth.state = chunk[c].auth.state
         /\ d.auth.charge = chunk[c].auth.charge
         /\ d.lifecycle \in {"live", "poisoned"} /\ d.lifecycle \in {chunk[c].lifecycle, "poisoned"}
         /\ d.lifecycle = "live" => store[d.auth.resource].content = d.auth.content
<1> DEFINE ch == chunk[c]
           a == ch.auth
<1>1. pc[t] \in Holding /\ pc[t] \in Leasing
  BY LeasingApart
<1>2. loc[t].access = "read_write" /\ Recording(t)
  BY DEF TransactionInv, Threaded, ThreadInv, PlacedAt
<1>3. ch.writer /\ ch \in ChunkRecords /\ ChunkKept(c)
  BY <1>1, <1>2, WriterFacts, HoldingFacts DEF OwnChunk
<1>4. loc[t].src = a /\ a \in Authorities /\ a.content \in Contents /\ a.content \in Int
  BY <1>2, <1>3 DEF Recording, OwnChunk, ChunkRecords, Authorities, Contents
<1>5. StillPinned(ch, t) /\ a.content = loc[t].src.content
  BY <1>3, <1>4 DEF StillPinned
<1>6. CASE loc[t].released = "ok"
  <2> DEFINE n == a.content + 1
             b == [a EXCEPT !.content = n]
  <2>1. a.content < MaxGeneration /\ store[a.resource].content = n /\ MaxGeneration \in Nat
    BY <1>2, <1>4, <1>6, TransactionAssumption DEF Recording, TransactionAssumption
  <2>2. n \in Contents
    BY <1>4, <2>1 DEF Contents
  <2>3. d = [ch EXCEPT !.auth = b]
    BY <1>3, <1>6 DEF RecordWrite, ChunkRecords
  <2> HIDE DEF n
  <2>4. /\ b \in Authorities /\ b.content = n /\ b.resource = a.resource /\ b.state = a.state
        /\ b.charge = a.charge
    BY <1>4, <2>2 DEF Authorities
  <2> HIDE DEF b
  <2>5. /\ d \in ChunkRecords /\ d.auth = b /\ d.lifecycle = ch.lifecycle /\ d.txn = ch.txn
        /\ d.readers = ch.readers /\ d.writer = ch.writer
        /\ d.intents = ch.intents /\ d.write_intent = ch.write_intent
    BY <1>3, <2>3, <2>4 DEF ChunkRecords
  <2>6. ch.lifecycle \in {"live", "poisoned"}
    BY <1>3 DEF ChunkKept
  <2>7. QED
    BY <1>5, <2>1, <2>4, <2>5, <2>6
<1>7. CASE loc[t].released # "ok"
  <2>1. d = [ch EXCEPT !.lifecycle = "poisoned"] /\ "poisoned" \in Lifecycles
    BY <1>7 DEF RecordWrite, Lifecycles
  <2>2. /\ d \in ChunkRecords /\ d.auth = a /\ d.lifecycle = "poisoned" /\ d.txn = ch.txn
        /\ d.readers = ch.readers /\ d.writer = ch.writer
        /\ d.intents = ch.intents /\ d.write_intent = ch.write_intent
    BY <1>3, <2>1 DEF ChunkRecords
  <2>3. QED
    BY <1>5, <2>2
<1>8. QED
  BY <1>6, <1>7

LEMMA WriteDoneStep ==
  ASSUME TransactionInv, NEW t \in Threads, WriteDone(t)
  PROVE  TransactionInv'
<1>1. pc[t] = "writing" /\ UNCHANGED <<ledger, store>>
  BY DEF WriteDone
<1>2. /\ pc[t] \in Holding /\ pc[t] \in Leasing /\ pc[t] \in Writing
      /\ "leased" \in Leasing \ Writing /\ "leased" \in PCs /\ "leased" \in Holding
  BY <1>1 DEF Holding, Leasing, Writing, PCs
<1>3. PICK c \in Chunks : c = loc[t].chunk
  BY <1>2, HoldingFacts
<1>4. PICK d : d = RecordWrite(chunk[c], t)
  OBVIOUS
<1> DEFINE l == [loc[t] EXCEPT !.src = None]
<1>5. chunk' = [chunk EXCEPT ![c] = d] /\ Goto(t, "leased", l)
  BY <1>2, <1>3, <1>4, RecordFacts DEF WriteDone
<1>6. /\ Typed /\ ChunkKept(c) /\ loc[t] \in Locals /\ loc[t].access \in Accesses
      /\ loc[t].acquire /\ loc[t].dst = NoAlloc /\ loc[t].ws = NoAlloc /\ loc[t].comp = NoAlloc
  BY <1>2, <1>3, HoldingFacts
<1>7. /\ l \in Locals /\ l.chunk = c /\ l.access = loc[t].access /\ l.acquire = loc[t].acquire
      /\ l.dst = NoAlloc /\ l.ws = NoAlloc /\ l.comp = NoAlloc
  BY <1>3, <1>6 DEF Locals
<1> HIDE DEF l
<1>8. Moves(t, "leased", l)
  BY <1>2, <1>5, <1>6, <1>7, GotoMoves
<1>9. /\ d \in ChunkRecords /\ d.txn = chunk[c].txn
      /\ d.readers = chunk[c].readers /\ d.writer = chunk[c].writer
      /\ d.intents = chunk[c].intents /\ d.write_intent = chunk[c].write_intent
      /\ d.auth.resource = chunk[c].auth.resource /\ d.auth.state = chunk[c].auth.state
      /\ d.auth.charge = chunk[c].auth.charge
      /\ d.lifecycle \in {"live", "poisoned"}
      /\ d.lifecycle = "live" => store[d.auth.resource].content = d.auth.content
  BY <1>2, <1>3, <1>4, RecordFacts
<1>10. chunk'[c] = d
  BY <1>5, <1>6 DEF Typed
<1>11. ChunkLocked(c)'
  BY <1>2, <1>3, <1>7, <1>8, <1>9, <1>10, LeaseStays
<1>12. ChunkKept(c)'
  BY <1>1, <1>6, <1>9, <1>10 DEF ChunkKept
<1>13. ThreadInv(t)'
  <2>1. PlacedAt("leased", l)
    BY <1>2, <1>3, <1>6, <1>7, LeasingApart DEF PlacedAt
  <2>2. QED
    BY <1>2, <1>8, <2>1, LeasingInv
<1>14. Alone(t, c)
  <2>1. loc[t].access = "read_write"
    BY <1>2 DEF TransactionInv, Threaded, ThreadInv, PlacedAt
  <2>2. QED
    BY <1>2, <1>3, <2>1, WriterFacts
<1>15. store' \in [Resources -> Descriptors \cup {None}]
  BY <1>1, <1>6 DEF Typed
<1>16. QED
  BY <1>1, <1>2, <1>3, <1>5, <1>7, <1>8, <1>9, <1>11, <1>12, <1>13, <1>14, <1>15, LeaseKeeps

(***************************************************************************)
(* The end of a lease                                                      *)
(***************************************************************************)

\* The writer of the chunk c ends its lease, and the record of the chunk becomes d.
Leaves(t, c, d) ==
  /\ c = loc[t].chunk /\ UNCHANGED <<ledger, store>> /\ chunk' = [chunk EXCEPT ![c] = d]
  /\ pc[t] \in Holding /\ loc[t].access = "read_write" /\ Goto(t, "idle", IdleLocals)
  /\ d.txn = chunk[c].txn /\ d.readers = chunk[c].readers /\ ~d.writer
  /\ d.intents = chunk[c].intents /\ d.write_intent = chunk[c].write_intent
  /\ d.auth.resource = chunk[c].auth.resource /\ d.auth.state = chunk[c].auth.state
  /\ d.auth.charge = chunk[c].auth.charge
  /\ d.lifecycle \in {"live", "poisoned"} /\ d.lifecycle \in {chunk[c].lifecycle, "poisoned"}
  /\ d.lifecycle = "live" => store[d.auth.resource].content = d.auth.content

LEMMA WriterLeaves ==
  ASSUME TransactionInv, NEW t \in Threads, NEW c \in Chunks, NEW d \in ChunkRecords, Leaves(t, c, d)
  PROVE  TransactionInv'
<1> USE DEF Leaves
<1>1. Typed /\ ChunkKept(c) /\ loc[t].acquire /\ pc[t] \in Leasing /\ ChunkLocked(c)
  BY HoldingFacts, LeasingApart
<1>2. Moves(t, "idle", IdleLocals)
  BY <1>1, IdleFacts, GotoMoves
<1>3. /\ chunk[c].txn = None /\ chunk[c].readers = 0 /\ chunk[c].intents = 0
      /\ ~chunk[c].write_intent /\ WriteHolders(c) = {t}
      /\ IntentHolders(c) = {} /\ ReadHolders(c) = {} /\ Alone(t, c)
  BY WriterFacts DEF OwnChunk
<1>4. IntentHolders(c)' = {} /\ ReadHolders(c)' = {} /\ WriteHolders(c)' = {}
  BY <1>2, <1>3, HoldersLeave
<1>5. chunk'[c] = d
  BY <1>1 DEF Typed
<1>6. ChunkLocked(c)'
  BY <1>1, <1>3, <1>4, <1>5 DEF ChunkLocked
<1>7. ChunkKept(c)'
  BY <1>1, <1>5 DEF ChunkKept
<1>8. ThreadInv(t)'
  BY <1>2, IdleInv
<1>9. store' \in [Resources -> Descriptors \cup {None}]
  BY <1>1 DEF Typed
<1>10. QED
  BY <1>1, <1>2, <1>3, <1>6, <1>7, <1>8, <1>9, IdleFacts, LeaseKeeps

LEMMA CloseWriteDoneFacts ==
  ASSUME TransactionInv, NEW t \in Threads, CloseWriteDone(t)
  PROVE  \E c \in Chunks, d \in ChunkRecords : Leaves(t, c, d)
<1>1. pc[t] = "closing_write" /\ UNCHANGED <<ledger, store>> /\ Goto(t, "idle", IdleLocals)
  BY DEF CloseWriteDone
<1>2. pc[t] \in Holding /\ pc[t] \in Leasing /\ pc[t] \in Writing
  BY <1>1 DEF Holding, Leasing, Writing
<1>3. PICK c \in Chunks : c = loc[t].chunk
  BY <1>2, HoldingFacts
<1>4. PICK e : e = RecordWrite(chunk[c], t)
  OBVIOUS
<1>5. /\ StillPinned(chunk[c], t) /\ e \in ChunkRecords /\ e.txn = chunk[c].txn
      /\ e.readers = chunk[c].readers
      /\ e.intents = chunk[c].intents /\ e.write_intent = chunk[c].write_intent
      /\ e.auth.resource = chunk[c].auth.resource /\ e.auth.state = chunk[c].auth.state
      /\ e.auth.charge = chunk[c].auth.charge
      /\ e.lifecycle \in {"live", "poisoned"} /\ e.lifecycle \in {chunk[c].lifecycle, "poisoned"}
      /\ e.lifecycle = "live" => store[e.auth.resource].content = e.auth.content
  BY <1>2, <1>3, <1>4, RecordFacts
<1> DEFINE d == [e EXCEPT !.writer = FALSE]
<1>6. chunk' = [chunk EXCEPT ![c] = d]
  BY <1>3, <1>4, <1>5 DEF CloseWriteDone
<1>7. /\ d \in ChunkRecords /\ d.txn = chunk[c].txn /\ d.readers = chunk[c].readers /\ ~d.writer
      /\ d.intents = chunk[c].intents /\ d.write_intent = chunk[c].write_intent
      /\ d.auth = e.auth /\ d.lifecycle = e.lifecycle
  <2>1. FALSE \in BOOLEAN
    OBVIOUS
  <2>2. QED
    BY <1>5, <2>1 DEF ChunkRecords
<1> HIDE DEF d
<1>8. loc[t].access = "read_write"
  <2>1. PlacedAt(pc[t], loc[t])
    BY DEF TransactionInv, Threaded, ThreadInv
  <2>2. QED
    BY <1>2, <2>1 DEF PlacedAt
<1>9. QED
  BY <1>1, <1>2, <1>3, <1>5, <1>6, <1>7, <1>8, ZenonT(60) DEF Leaves

LEMMA CloseWrittenFacts ==
  ASSUME TransactionInv, NEW t \in Threads, CloseWritten(t)
  PROVE  \E c \in Chunks, d \in ChunkRecords : Leaves(t, c, d)
<1>1. pc[t] = "leased" /\ UNCHANGED <<ledger, store>> /\ Goto(t, "idle", IdleLocals)
      /\ loc[t].access = "read_write"
  BY DEF CloseWritten
<1>2. pc[t] \in Holding /\ pc[t] \in Leasing
  BY <1>1 DEF Holding, Leasing
<1>3. PICK c \in Chunks : c = loc[t].chunk
  BY <1>2, HoldingFacts
<1> DEFINE ch == chunk[c]
           life == IF ch.auth.content = MaxGeneration THEN "poisoned" ELSE ch.lifecycle
           d == [ch EXCEPT !.writer = FALSE, !.lifecycle = life]
<1>4. /\ Typed /\ ch \in ChunkRecords /\ ChunkKept(c)
      /\ ch.lifecycle \in {"live", "poisoned"} /\ WriteHolders(c) = {t}
  BY <1>1, <1>2, <1>3, HoldingFacts, WriterFacts DEF ChunkKept
<1>5. chunk' = [chunk EXCEPT ![c] = d]
  BY <1>3, <1>4 DEF CloseWritten, Typed, ChunkRecords
<1>6. life \in {"live", "poisoned"} /\ life \in {ch.lifecycle, "poisoned"} /\ life \in Lifecycles
  BY <1>4 DEF Lifecycles
<1> HIDE DEF life
<1>7. /\ d \in ChunkRecords /\ d.txn = ch.txn /\ d.readers = ch.readers /\ ~d.writer
      /\ d.intents = ch.intents /\ d.write_intent = ch.write_intent
      /\ d.auth = ch.auth /\ d.lifecycle = life
  <2>1. FALSE \in BOOLEAN
    OBVIOUS
  <2>2. QED
    BY <1>4, <1>6, <2>1 DEF ChunkRecords
<1> HIDE DEF d
<1>8. ~WriteInFlight(c)
  <2> SUFFICES ASSUME NEW u \in Threads, pc[u] \in Writing, loc[u].chunk = c
               PROVE  FALSE
    BY DEF WriteInFlight, Writing
  <2>1. loc[u].access = "read_write" /\ pc[u] \in Holding
    BY LeasingApart DEF TransactionInv, Threaded, ThreadInv, PlacedAt
  <2>2. u = t
    BY <1>4, <2>1 DEF WriteHolders
  <2>3. QED
    BY <1>1, <2>2 DEF Writing
<1>9. d.lifecycle = "live" => store[d.auth.resource].content = d.auth.content
  BY <1>4, <1>6, <1>7, <1>8 DEF ChunkKept
<1>10. d.lifecycle \in {"live", "poisoned"} /\ d.lifecycle \in {ch.lifecycle, "poisoned"}
  BY <1>6, <1>7
<1>11. QED
  BY <1>1, <1>2, <1>3, <1>5, <1>7, <1>9, <1>10 DEF Leaves

LEMMA CloseWriteSteps ==
  ASSUME TransactionInv, NEW t \in Threads, CloseWritten(t) \/ CloseWriteDone(t)
  PROVE  TransactionInv'
BY CloseWrittenFacts, CloseWriteDoneFacts, WriterLeaves

LEMMA CloseReadStep ==
  ASSUME TransactionInv, NEW t \in Threads, CloseRead(t)
  PROVE  TransactionInv'
<1>1. /\ pc[t] = "leased" /\ UNCHANGED <<ledger, store>> /\ Goto(t, "idle", IdleLocals)
      /\ loc[t].access = "read_only"
  BY DEF CloseRead
<1>2. pc[t] \in Holding /\ pc[t] \in Leasing
  BY <1>1 DEF Holding, Leasing
<1>3. PICK c \in Chunks : c = loc[t].chunk
  BY <1>2, HoldingFacts
<1> DEFINE ch == chunk[c]
           n == ch.readers - 1
           d == [ch EXCEPT !.readers = n]
<1>4. Typed /\ ch \in ChunkRecords /\ ChunkLocked(c) /\ ChunkKept(c) /\ loc[t].acquire
  BY <1>2, <1>3, HoldingFacts
<1>5. t \in ReadHolders(c) /\ t \notin IntentHolders(c)
  BY <1>1, <1>2, <1>3 DEF ReadHolders, IntentHolders
<1>6. ch.readers # 0 /\ ~ch.writer /\ ~ch.write_intent /\ ch.txn = None /\ WriteHolders(c) = {}
  <2>1. ch.readers # 0
    BY <1>5, NoHolders
  <2>2. QED
    BY <1>4, <2>1 DEF ChunkLocked
<1>7. chunk' = [chunk EXCEPT ![c] = d]
  BY <1>3, <1>4 DEF CloseRead, Typed, ChunkRecords
<1>8. n \in Nat /\ n = ch.readers - 1
  BY <1>4, <1>6 DEF ChunkRecords
<1> HIDE DEF n
<1>9. /\ d \in ChunkRecords /\ d.txn = ch.txn /\ d.auth = ch.auth /\ d.lifecycle = ch.lifecycle
      /\ d.readers = n /\ d.writer = ch.writer /\ d.intents = ch.intents
      /\ d.write_intent = ch.write_intent
  BY <1>4, <1>8 DEF ChunkRecords
<1> HIDE DEF d
<1>10. chunk'[c] = d
  BY <1>4, <1>7 DEF Typed
<1>11. Moves(t, "idle", IdleLocals)
  BY <1>1, <1>4, IdleFacts, GotoMoves
<1>12. /\ IntentHolders(c)' = IntentHolders(c) /\ ReadHolders(c)' = ReadHolders(c) \ {t}
       /\ WriteHolders(c)' = {} /\ \A u \in IntentHolders(c) : loc'[u].access = loc[u].access
  <2>1. /\ IntentHolders(c)' = IntentHolders(c) \ {t} /\ ReadHolders(c)' = ReadHolders(c) \ {t}
        /\ WriteHolders(c)' = WriteHolders(c) \ {t}
        /\ \A u \in IntentHolders(c) \ {t} : loc'[u].access = loc[u].access
    BY <1>11, HoldersLeave
  <2>2. IntentHolders(c) \ {t} = IntentHolders(c) /\ WriteHolders(c) \ {t} = {}
    BY <1>5, <1>6
  <2>3. QED
    BY <2>1, <2>2
<1>13. Cardinality(ReadHolders(c)') = Cardinality(ReadHolders(c)) - 1
  BY <1>5, <1>12, HoldersFinite, FS_RemoveElement
<1>14. ChunkLocked(c)'
  <2>1. d.readers = Cardinality(ReadHolders(c)')
    BY <1>4, <1>8, <1>9, <1>13 DEF ChunkLocked
  <2>2. QED
    BY <1>4, <1>6, <1>9, <1>10, <1>12, <2>1 DEF ChunkLocked
<1>15. ChunkKept(c)'
  <2>1. WriteInFlight(c) => WriteInFlight(c)'
    BY <1>1, <1>11 DEF WriteInFlight, Moves, Others
  <2>2. QED
    BY <1>1, <1>4, <1>9, <1>10, <2>1 DEF ChunkKept
<1>16. ThreadInv(t)'
  BY <1>11, IdleInv
<1>17. store' \in [Resources -> Descriptors \cup {None}]
  BY <1>1, <1>4 DEF Typed
<1>18. QED
  BY <1>1, <1>2, <1>3, <1>7, <1>9, <1>11, <1>14, <1>15, <1>16, <1>17, IdleFacts, LeaseKeeps

(***************************************************************************)
(* Commit                                                                  *)
(***************************************************************************)

\* Inside a transaction nobody else is at work on the chunk.
LEMMA AloneInside ==
  ASSUME TransactionInv, NEW t \in Threads, NEW c \in Chunks, chunk[c].txn = t
  PROVE  Alone(t, c)
<1>1. t # None
  BY TransactionAssumption DEF TransactionAssumption
<1>2. ASSUME NEW u \in Threads \ {t}, pc[u] \in PreCommit \cup PostCommit PROVE loc[u].chunk # c
  BY <1>2 DEF TransactionInv, Threaded, ThreadInv, Transacting, OwnChunk
<1>3. ASSUME NEW u \in Threads, pc[u] \in Writing PROVE loc[u].chunk # c
  <2>1. loc[u].access = "read_write" /\ pc[u] \in Holding
    BY <1>3, LeasingApart DEF TransactionInv, Threaded, ThreadInv, PlacedAt
  <2>2. OwnChunk(u).txn = None
    BY <2>1, WriterFacts
  <2>3. QED
    BY <1>1, <2>2 DEF OwnChunk
<1>4. QED
  BY <1>2, <1>3 DEF Alone

\* A commit goes through: the record of the chunk becomes d, whose authority is the
\* destination, a copy of the source.
Swaps(t, c, d) ==
  /\ c = loc[t].chunk /\ chunk' = [chunk EXCEPT ![c] = d]
  /\ chunk[c].lifecycle = "live" /\ chunk[c].txn = t
  /\ chunk[c].auth = loc[t].src /\ loc[t].src \in Authorities
  /\ d.auth = [state |-> loc[t].dest, resource |-> loc[t].dst.id,
               charge |-> loc[t].dst.charge, content |-> loc[t].src.content]
  /\ d.lifecycle = chunk[c].lifecycle /\ d.txn = chunk[c].txn
  /\ d.readers = chunk[c].readers /\ d.writer = chunk[c].writer
  /\ d.intents = chunk[c].intents /\ d.write_intent = chunk[c].write_intent
  /\ loc[t].dst.id \in Claims(t) /\ loc[t].dst.id \in Resources
  /\ store[loc[t].dst.id] # None /\ store[loc[t].dst.id].tier = TierOf(loc[t].dest)
  /\ store[loc[t].dst.id].charge = loc[t].dst.charge
  /\ store[loc[t].dst.id].content = loc[t].src.content
  /\ UNCHANGED store /\ Goto(t, "rel_src", loc[t]) /\ GoodLedger(ledger')

LEMMA CommitFacts ==
  ASSUME TransactionInv, NEW t \in Threads, Commit(t), pc'[t] = "rel_src"
  PROVE  \E c \in Chunks, d \in ChunkRecords : Swaps(t, c, d)
<1>1. pc[t] = "commit" /\ pc[t] \in Filled /\ pc[t] \in Verified /\ pc[t] \in PreCommit /\ UNCHANGED store
      /\ pc[t] \notin PostCommit
  BY DEF Commit, Filled, Verified, PreCommit, PostCommit
<1>2. PICK c \in Chunks : c = loc[t].chunk
  BY <1>1, WorkFacts
<1> DEFINE ch == chunk[c]
           m == loc[t].dst
           s == loc[t].src
           a == [state |-> loc[t].dest, resource |-> m.id, charge |-> m.charge,
                 content |-> s.content]
           owed == <<[id |-> s.resource, tier |-> SrcTier(t), charge |-> s.charge]>>
           d == [ch EXCEPT !.cleanup = owed, !.auth = a]
<1>3. /\ Typed /\ GoodLedger(ledger) /\ ch \in ChunkRecords /\ ChunkKept(c) /\ DestTier(t) \in Tiers
      /\ loc[t] \in Locals /\ m \in Allocations /\ m.charge \in Word
      /\ DeliveringAt(pc[t], loc[t], store) /\ Transacting(t)
  BY <1>1, <1>2, WorkFacts, FilledFacts DEF TransactionInv, Kept, Threaded, ThreadInv
<1>4. ch.auth = s /\ ch.txn = t /\ s \in Authorities
  BY <1>1, <1>2, <1>3 DEF Transacting, OwnChunk, ChunkRecords
<1>5. /\ m.id \in Resources /\ store[m.id] # None /\ store[m.id].tier = TierOf(loc[t].dest)
      /\ store[m.id].charge = m.charge /\ store[m.id].content = s.content
  BY <1>1, <1>3 DEF DeliveringAt
<1>6. "rollback" # "rel_src" /\ pc \in [Threads -> PCs]
  BY <1>3 DEF Typed
<1>7. ~RollBack(t, <<Item(m, "staging", TRUE)>>, "poison")
  BY <1>6 DEF RollBack, Goto
<1>8. /\ ch.lifecycle \in {"live", "closing"}
      /\ CommitAndRetireOk(ledger, DestTier(t), m.charge, SrcTier(t), s.charge)
      /\ ledger' = CommitAndRetire(ledger, DestTier(t), m.charge, SrcTier(t), s.charge)
      /\ chunk' = [chunk EXCEPT ![c].cleanup = owed, ![c].auth = a]
      /\ Goto(t, "rel_src", loc[t])
  BY <1>2, <1>7 DEF Commit
<1>9. /\ s.state \in States /\ s.charge \in Word /\ s.resource \in Resources
      /\ s.content \in Contents /\ loc[t].dest \in States
      /\ SrcTier(t) \in Tiers
  BY <1>3, <1>4, TiersTyped DEF Authorities, Locals, SrcTier
<1>10. GoodLedger(ledger')
  BY <1>3, <1>8, <1>9, CommitAndRetireGood
<1>11. a \in Authorities
  BY <1>3, <1>5, <1>9 DEF Authorities
<1>12. owed \in Seq(CleanupResources)
  BY <1>9 DEF CleanupResources
<1>13. chunk' = [chunk EXCEPT ![c] = d]
  BY <1>3, <1>8 DEF Typed, ChunkRecords
<1>14. m.id \in Claims(t)
  BY <1>1, <1>5, TransactionAssumption DEF Claims, ClaimsAt, TransactionAssumption
<1>15. ch.lifecycle = "live"
  BY <1>3, <1>8 DEF ChunkKept
<1> HIDE DEF owed, a
<1>16. /\ d \in ChunkRecords /\ d.auth = a /\ d.lifecycle = ch.lifecycle /\ d.txn = ch.txn
       /\ d.readers = ch.readers /\ d.writer = ch.writer
       /\ d.intents = ch.intents /\ d.write_intent = ch.write_intent
  BY <1>3, <1>11, <1>12 DEF ChunkRecords
<1> HIDE DEF d
<1>17. QED
  BY <1>1, <1>2, <1>4, <1>5, <1>8, <1>10, <1>13, <1>14, <1>15, <1>16 DEF a, Swaps

\* The authority and the destination change places: what was the thread's becomes the
\* chunk's, and the old authority is the thread's to release.
LEMMA SwapStep ==
  ASSUME TransactionInv, NEW t \in Threads, Commit(t), pc'[t] = "rel_src"
  PROVE  TransactionInv'
<1>1. PICK c \in Chunks, d \in ChunkRecords : Swaps(t, c, d)
  BY CommitFacts
<1> USE DEF Swaps
<1>2. pc[t] = "commit" /\ pc[t] \in PreCommit /\ pc[t] \notin Holding \cup Writing \cup {"idle"}
  BY DEF Commit, PreCommit, Filled, Holding, Writing
<1>3. /\ "rel_src" \in PostCommit /\ "rel_src" \in PCs
      /\ "rel_src" \notin PreCommit \cup Filled \cup Compacting \cup Holding \cup Writing \cup Leasing
      /\ "rel_src" \notin Unwinding \cup {"idle", "begin", "settle"}
  BY DEF PostCommit, PCs, PreCommit, Filled, Compacting, Holding, Writing, Leasing, Unwinding
<1>4. Typed /\ loc[t] \in Locals /\ PlacedAt(pc[t], loc[t])
  BY DEF TransactionInv, Typed, Threaded, ThreadInv
<1>5. Moves(t, "rel_src", loc[t])
  BY <1>1, <1>3, <1>4, GotoMoves
<1>6. /\ pc'[t] = "rel_src" /\ loc' = loc /\ Others(t)
      /\ pc' \in [Threads -> PCs] /\ loc' \in [Threads -> Locals]
  BY <1>1, <1>4, <1>5 DEF Moves, Typed, Goto
<1>7. chunk'[c] = d /\ \A e \in Chunks \ {c} : chunk'[e] = chunk[e]
  BY <1>1, <1>4 DEF Typed
<1>8. Typed'
  <2>1. chunk' \in [Chunks -> ChunkRecords] /\ store' \in [Resources -> Descriptors \cup {None}]
    BY <1>1, <1>4 DEF Typed
  <2>2. QED
    BY <1>1, <1>6, <2>1 DEF Typed
<1>9. Alone(t, c)
  BY <1>1, AloneInside
<1>10. Locked'
  <2> SUFFICES ASSUME NEW e \in Chunks PROVE ChunkLocked(e)'
    BY DEF Locked
  <2>1. /\ IntentHolders(e)' = IntentHolders(e) /\ ReadHolders(e)' = ReadHolders(e)
        /\ WriteHolders(e)' = WriteHolders(e)
        /\ \A u \in Threads : loc'[u].access = loc[u].access
    BY <1>2, <1>3, <1>5, HoldersStay
  <2>2. ChunkLocked(e) /\ IntentHolders(e) \subseteq Threads
    BY DEF TransactionInv, Locked, IntentHolders
  <2>3. /\ chunk'[e].txn = chunk[e].txn /\ chunk'[e].readers = chunk[e].readers
        /\ chunk'[e].writer = chunk[e].writer /\ chunk'[e].intents = chunk[e].intents
        /\ chunk'[e].write_intent = chunk[e].write_intent
    BY <1>1, <1>7
  <2>4. QED
    BY <2>1, <2>2, <2>3 DEF ChunkLocked
<1>11. Threaded'
  <2>1. ThreadInv(t)'
    <3>1. PlacedAt("rel_src", loc[t])
      BY <1>2, <1>3, <1>4 DEF PlacedAt
    <3>2. OwnChunk(t)' = d
      BY <1>1, <1>6, <1>7 DEF OwnChunk
    <3>3. QED
      BY <1>1, <1>3, <1>6, <3>1, <3>2
         DEF ThreadInv, Transacting, DeliveringAt, TargetingAt, Recording
  <2>2. ASSUME NEW u \in Threads \ {t} PROVE ThreadInv(u)'
    BY <1>1, <1>6, <1>9, OthersKeep
  <2>3. QED
    BY <2>1, <2>2 DEF Threaded
<1>12. Claimed'
  <2> DEFINE new == loc[t].dst.id
             old == chunk[c].auth.resource
  <2>1. chunk'[c].auth.resource = new /\ \A e \in Chunks \ {c} : chunk'[e].auth = chunk[e].auth
    BY <1>1, <1>7
  <2>2. Claims(t)' = {old}
    BY <1>1, <1>3, <1>6 DEF Claims, ClaimsAt
  <2>3. \A u \in Threads \ {t} : Claims(u)' = Claims(u)
    BY <1>6 DEF Claims, Others
  <2>4. new \in Claims(t)
    BY <1>1
  <2> HIDE DEF new
  <2>5. QED
    BY <2>1, <2>2, <2>3, <2>4 DEF TransactionInv, Claimed
<1>13. Kept'
  <2> SUFFICES ASSUME NEW e \in Chunks PROVE ChunkKept(e)'
    BY DEF Kept
  <2>1. CASE e = c
    <3>1. /\ d.auth.state = loc[t].dest /\ d.auth.resource = loc[t].dst.id
          /\ d.auth.charge = loc[t].dst.charge /\ d.auth.content = loc[t].src.content
      BY <1>1
    <3>2. QED
      BY <1>1, <1>7, <2>1, <3>1 DEF ChunkKept
  <2>2. CASE e # c
    <3>1. chunk'[e] = chunk[e] /\ ChunkKept(e) /\ store' = store
      BY <1>1, <1>7, <2>2 DEF TransactionInv, Kept
    <3>2. WriteInFlight(e) => WriteInFlight(e)'
      BY <1>2, <1>6 DEF WriteInFlight, Others, Writing
    <3>3. QED
      BY <3>1, <3>2 DEF ChunkKept
  <2>3. QED
    BY <2>1, <2>2
<1>14. QED
  BY <1>8, <1>10, <1>11, <1>12, <1>13 DEF TransactionInv

\* It goes through, or the transaction is rolled back.
LEMMA CommitCases ==
  ASSUME TransactionInv, NEW t \in Threads, Commit(t)
  PROVE  \/ pc'[t] = "rel_src"
         \/ TransactionInv' /\ Steady(t)
<1>1. pc[t] = "commit" /\ pc[t] \in PreCommit /\ pc \in [Threads -> PCs] /\ Typed
  BY DEF Commit, PreCommit, Filled, TransactionInv, Typed
<1>2. CASE RollBack(t, <<Item(loc[t].dst, "staging", TRUE)>>, "poison")
           /\ UNCHANGED <<ledger, chunk, store>>
  <2>1. OwnItems(loc[t], <<Item(loc[t].dst, "staging", TRUE)>>)
    BY <1>1, DestinationItems
  <2>2. Framed(t)
    BY <1>1, <1>2, SameNudges, SameQuiet DEF Framed, Typed
  <2>3. QED
    BY <1>1, <1>2, <2>1, <2>2, RollBackPlain
<1>3. CASE Goto(t, "rel_src", loc[t])
  BY <1>1, <1>3 DEF Goto
<1>4. QED
  BY <1>2, <1>3 DEF Commit

LEMMA CommitStep ==
  ASSUME TransactionInv, NEW t \in Threads, Commit(t)
  PROVE  TransactionInv'
BY CommitCases, SwapStep


(***************************************************************************)
(* The start                                                               *)
(***************************************************************************)
LEMMA HomeTyped == Home \in [Chunks -> Resources] /\ \A c, d \in Chunks : c # d => Home[c] # Home[d]
BY TransactionAssumption DEF TransactionAssumption, Home

LEMMA InitLedger == Init => GoodLedger(ledger)
<1> SUFFICES ASSUME Init PROVE GoodLedger(ledger)
  OBVIOUS
<1> DEFINE bytes == Cardinality(Chunks) * InitialCharge
           full == [EmptyCounters EXCEPT !.committed = bytes, !.peak_charged = bytes]
           home == TierOf(InitialState)
<1>1. ledger = [tier \in Tiers |-> IF tier = home THEN full ELSE EmptyCounters]
  BY DEF Init
<1>2. home \in Tiers /\ bytes \in 0 .. HardLimit[home]
  BY TransactionAssumption, TiersTyped DEF TransactionAssumption
<1> HIDE DEF bytes, home
<1>3. \A tier \in Tiers : HardLimit[tier] \in 0 .. MaxWord
  BY BudgetAssumption DEF BudgetAssumption
<1>4. bytes \in Word /\ bytes <= HardLimit[home] /\ bytes \in Nat /\ 0 \in Word
  BY <1>2, <1>3, WordFacts DEF Word
<1>5. EmptyCounters \in Counters /\ full \in Counters
  BY <1>4 DEF EmptyCounters, Counters
<1>6. Total(EmptyCounters) = 0 /\ EmptyCounters.peak_charged = 0
  BY DEF Total, EmptyCounters
<1>7. Total(full) = bytes /\ full.peak_charged = bytes
  BY <1>4 DEF Total, EmptyCounters
<1>8. Good(full, home) /\ \A tier \in Tiers : Good(EmptyCounters, tier)
  BY <1>3, <1>4, <1>5, <1>6, <1>7 DEF Good
<1> HIDE DEF full
<1>9. ledger \in Ledgers
  BY <1>1, <1>5 DEF Ledgers
<1>10. \A tier \in Tiers : Good(ledger[tier], tier)
  BY <1>1, <1>8
<1>11. QED
  BY <1>9, <1>10 DEF GoodLedger

LEMMA InitInv == Init => TransactionInv
<1> SUFFICES ASSUME Init PROVE TransactionInv
  OBVIOUS
<1> DEFINE home(c) == [state |-> InitialState, resource |-> Home[c], charge |-> InitialCharge,
                       content |-> 0]
           fresh(c) == [lifecycle |-> "live", auth |-> home(c),
                        txn |-> None, readers |-> 0, writer |-> FALSE, intents |-> 0,
                        write_intent |-> FALSE, revision |-> 0, cleanup |-> <<>>, retired |-> FALSE]
           full == [tier |-> TierOf(InitialState), charge |-> InitialCharge, content |-> 0]
<1>1. /\ chunk = [c \in Chunks |-> fresh(c)]
      /\ store = [r \in Resources |-> IF \E c \in Chunks : Home[c] = r THEN full ELSE None]
      /\ pc = [t \in Threads |-> "idle"] /\ loc = [t \in Threads |-> IdleLocals]
  BY DEF Init
<1>2. InitialState \in States /\ InitialCharge \in Word /\ 0 \in Contents
      /\ TierOf(InitialState) \in Tiers
  BY TransactionAssumption, TiersTyped DEF TransactionAssumption, Contents
<1>3. \A c \in Chunks : home(c) \in Authorities /\ home(c).resource = Home[c]
                         /\ home(c).state = InitialState /\ home(c).charge = InitialCharge
                         /\ home(c).content = 0
  BY <1>2, HomeTyped DEF Authorities
<1>4. full \in Descriptors /\ full # None
  <2>1. full \in Descriptors
    BY <1>2 DEF Descriptors
  <2>2. QED
    BY <2>1, TransactionAssumption DEF TransactionAssumption
<1>5. full.tier = TierOf(InitialState) /\ full.charge = InitialCharge /\ full.content = 0
  OBVIOUS
<1> HIDE DEF home, full
<1>6. \A c \in Chunks : fresh(c) \in ChunkRecords
  <2> SUFFICES ASSUME NEW c \in Chunks PROVE fresh(c) \in ChunkRecords
    OBVIOUS
  <2>1. <<>> \in Seq(CleanupResources) /\ FALSE \in BOOLEAN /\ "live" \in Lifecycles
    BY DEF Lifecycles
  <2>2. QED
    BY <1>3, <2>1 DEF ChunkRecords
<1>7. \A c \in Chunks :
        /\ chunk[c].lifecycle = "live" /\ chunk[c].auth = home(c) /\ chunk[c].txn = None
        /\ chunk[c].readers = 0 /\ ~chunk[c].writer /\ chunk[c].intents = 0
        /\ ~chunk[c].write_intent
  BY <1>1
<1>8. Typed
  <2>1. chunk \in [Chunks -> ChunkRecords]
    BY <1>1, <1>6
  <2>2. store \in [Resources -> Descriptors \cup {None}]
    BY <1>1, <1>4
  <2>3. pc \in [Threads -> PCs] /\ loc \in [Threads -> Locals]
    BY <1>1, IdleFacts
  <2>4. QED
    BY <2>1, <2>2, <2>3, InitLedger DEF Typed
<1>9. \A t \in Threads : pc[t] = "idle" /\ loc[t] = IdleLocals
  BY <1>1
<1>10. Locked
  <2> SUFFICES ASSUME NEW c \in Chunks PROVE ChunkLocked(c)
    BY DEF Locked
  <2>1. IntentHolders(c) = {} /\ ReadHolders(c) = {} /\ WriteHolders(c) = {}
    BY <1>9, IdleFacts DEF IntentHolders, ReadHolders, WriteHolders
  <2>2. Cardinality({}) = 0
    BY FS_EmptySet
  <2>3. QED
    BY <1>7, <2>1, <2>2 DEF ChunkLocked
<1>11. Threaded
  BY <1>9, IdleFacts
     DEF Threaded, ThreadInv, Transacting, DeliveringAt, TargetingAt, Recording
<1>12. Claimed
  <2>1. \A t \in Threads : Claims(t) = {}
    BY <1>9, IdleFacts DEF Claims, ClaimsAt
  <2>2. \A c, d \in Chunks : c # d => chunk[c].auth.resource # chunk[d].auth.resource
    BY <1>3, <1>7, HomeTyped
  <2>3. QED
    BY <2>1, <2>2 DEF Claimed
<1>13. Kept
  <2> SUFFICES ASSUME NEW c \in Chunks PROVE ChunkKept(c)
    BY DEF Kept
  <2>1. store[Home[c]] = full
    BY <1>1, HomeTyped
  <2>2. QED
    BY <1>3, <1>4, <1>5, <1>7, <2>1 DEF ChunkKept
<1>14. QED
  BY <1>8, <1>10, <1>11, <1>12, <1>13 DEF TransactionInv

(***************************************************************************)
(* Every step                                                              *)
(***************************************************************************)
LEMMA NextInv == TransactionInv /\ [Next]_vars => TransactionInv'
<1> SUFFICES ASSUME TransactionInv, [Next]_vars PROVE TransactionInv'
  OBVIOUS
<1>1. ASSUME NEW t \in Threads, NEW c \in Chunks, NEW d \in Targets, NEW lim \in Limits,
             Propose(t, c, d, lim)
      PROVE  TransactionInv'
  BY <1>1, ProposeStep
<1>2. ASSUME NEW t \in Threads, NEW c \in Chunks, NEW a \in {"read_only", "read_write"},
             Intend(t, c, a)
      PROVE  TransactionInv'
  BY <1>2, IntendStep DEF Accesses
<1>3. ASSUME NEW t \in Threads, MigrateStep(t) PROVE TransactionInv'
  <2>1. CASE \/ Begin(t) \/ Project(t) \/ ReserveAll(t) \/ AllocateDestination(t)
             \/ MaterializeDestination(t) \/ AllocateWorkspace(t) \/ MaterializeWorkspace(t)
             \/ VerifyAuthoritative(t)
    BY <2>1, BeginStep, ProjectStep, ReserveAllStep, AllocateDestinationStep,
       MaterializeDestinationStep, AllocateWorkspaceStep, MaterializeWorkspaceStep,
       VerifyAuthoritativeStep
  <2>2. CASE \/ Prepare(t) \/ MaterializeCompaction(t) \/ Transfer(t)
             \/ Reconcile(t) \/ ReleaseCompaction(t) \/ SettleCompaction(t) \/ VerifyTransfer(t)
    BY <2>2, PrepareStep, MaterializeCompactionStep, TransferStep, ReconcileStep,
       ReleaseCompactionStep, SettleCompactionStep, VerifyTransferStep
  <2>3. CASE \/ ReleaseWorkspace(t) \/ SettleWorkspace(t) \/ Commit(t) \/ ReleaseSource(t)
             \/ SettleSource(t) \/ RollbackRelease(t) \/ RollbackSettle(t) \/ Finish(t)
    BY <2>3, ReleaseWorkspaceStep, SettleWorkspaceStep, CommitStep, ReleaseSourceStep,
       SettleSourceStep, RollbackReleaseStep, RollbackSettleStep, FinishStep
  <2>4. QED
    BY <1>3, <2>1, <2>2, <2>3 DEF MigrateStep
<1>4. ASSUME NEW t \in Threads, LeaseStep(t) PROVE TransactionInv'
  BY <1>4, RestoreStep, TakeGateStep, DropIntentStep, PinStep, WriteBytesStep, WriteDoneStep,
     CloseReadStep, CloseWriteSteps, CloseUnwrittenStep DEF LeaseStep
<1>5. CASE UNCHANGED vars
  <2>1. UNCHANGED <<ledger, store, chunk, pc, loc>>
    BY <1>5 DEF vars
  <2>2. Typed' /\ Claimed'
    BY <2>1 DEF TransactionInv, Typed, Claimed, Claims
  <2>3. Locked'
    <3> SUFFICES ASSUME NEW c \in Chunks PROVE ChunkLocked(c)'
      BY DEF Locked
    <3>1. ChunkLocked(c)
      BY DEF TransactionInv, Locked
    <3>2. /\ IntentHolders(c)' = IntentHolders(c) /\ ReadHolders(c)' = ReadHolders(c)
          /\ WriteHolders(c)' = WriteHolders(c)
      BY <2>1 DEF IntentHolders, ReadHolders, WriteHolders
    <3>3. QED
      BY <2>1, <3>1, <3>2 DEF ChunkLocked
  <2>4. Threaded'
    <3>1. \A t \in Threads : ThreadInv(t)'
      BY <2>1 DEF TransactionInv, Threaded, ThreadInv, Transacting, Recording, OwnChunk
    <3>2. QED
      BY <3>1 DEF Threaded
  <2>5. Kept'
    <3>1. \A c \in Chunks : ChunkKept(c)'
      BY <2>1 DEF TransactionInv, Kept, ChunkKept, WriteInFlight
    <3>2. QED
      BY <3>1 DEF Kept
  <2>6. QED
    BY <2>2, <2>3, <2>4, <2>5 DEF TransactionInv
<1>6. QED
  BY <1>1, <1>2, <1>3, <1>4, <1>5 DEF Next

(***************************************************************************)
(* Theorems                                                                *)
(***************************************************************************)

\* Whatever the threads do and whichever backend calls fail, in every state the locks of a
\* chunk count their holders, a migration finds its chunk, its source and its destination as
\* it left them, every resource in use has one owner, and the authority of a chunk is owned
\* and, unless the chunk is poisoned or being written, holds its content.
THEOREM TransactionInvariance == Spec => []TransactionInv
BY InitInv, NextInv, PTL DEF Spec

\* Type correctness: the counters of the ledger stay in the range of their integer type, and
\* the counters of a chunk never go below zero.
THEOREM TransactionTypes == Spec => []TypeOK
<1>1. TransactionInv => TypeOK
  <2> SUFFICES ASSUME TransactionInv PROVE TypeOK
    OBVIOUS
  <2>1. ledger \in Ledgers /\ pc \in [Threads -> PCs]
    BY DEF TransactionInv, Typed, GoodLedger
  <2>2. ASSUME NEW r \in Resources, store[r] # None
        PROVE  /\ store[r].tier \in Tiers /\ store[r].charge \in Word
               /\ store[r].content \in Contents \cup {Garbage}
    BY <2>2 DEF TransactionInv, Typed, Descriptors
  <2>3. ASSUME NEW c \in Chunks
        PROVE  /\ chunk[c].lifecycle \in Lifecycles /\ chunk[c].txn \in Threads \cup {None}
               /\ chunk[c].auth.state \in States /\ chunk[c].auth.resource \in Resources
               /\ chunk[c].auth.content \in Contents
               /\ chunk[c].readers \in Nat /\ chunk[c].intents \in Nat
    BY DEF TransactionInv, Typed, ChunkRecords, Authorities
  <2>4. QED
    BY <2>1, <2>2, <2>3 DEF TypeOK
<1>2. QED
  BY <1>1, TransactionInvariance, PTL

\* However migrations, rollbacks and restores interleave, a tier that no contract error has
\* closed is charged at most its hard limit.
THEOREM MigrationsWithinLimit ==
  Spec => [](\A tier \in Tiers :
               ~ledger[tier].admission_blocked => Total(ledger[tier]) <= HardLimit[tier])
<1>1. TransactionInv => \A tier \in Tiers :
        ~ledger[tier].admission_blocked => Total(ledger[tier]) <= HardLimit[tier]
  BY DEF TransactionInv, Typed, GoodLedger, Good
<1>2. QED
  BY <1>1, TransactionInvariance, PTL

\* Known failures never lose the bytes of a chunk: its authority is always a resource the
\* backend owns, in the tier and at the charge the chunk records.
THEOREM AuthorityAlwaysOwned == Spec => []AuthorityOwned
<1>1. TransactionInv => AuthorityOwned
  BY DEF TransactionInv, Kept, ChunkKept, AuthorityOwned
<1>2. QED
  BY <1>1, TransactionInvariance, PTL

\* A chunk that is neither poisoned nor being written holds the content it claims: no
\* migration commits a corrupted destination or loses a write.
THEOREM AuthorityAlwaysIntact == Spec => []AuthorityIntact
<1>1. TransactionInv => AuthorityIntact
  <2> SUFFICES ASSUME TransactionInv, NEW c \in Chunks,
                      chunk[c].lifecycle \in {"live", "closing"}, ~WriteInFlight(c)
               PROVE  store[chunk[c].auth.resource].content = chunk[c].auth.content
    BY DEF AuthorityIntact
  <2>1. ChunkKept(c)
    BY DEF TransactionInv, Kept
  <2>2. QED
    BY <2>1 DEF ChunkKept
<1>2. QED
  BY <1>1, TransactionInvariance, PTL

\* A lease is the hard pinning boundary: a pinned chunk is in no transition, and a writer has
\* no reader beside it.
THEOREM PinsAlwaysExclude == Spec => []PinsExclude
<1>1. TransactionInv => PinsExclude
  BY DEF TransactionInv, Locked, ChunkLocked, PinsExclude
<1>2. QED
  BY <1>1, TransactionInvariance, PTL
=============================================================================
