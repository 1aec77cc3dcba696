----------------------- MODULE TransactionRefinement ------------------------
(***************************************************************************)
(* Transaction implements ChunkContract, and its action properties.        *)
(*                                                                         *)
(* StepCases says what a step is to the users of the buffers: nothing      *)
(* (Steady, perhaps with a chunk that is given up), a pin, a write, the    *)
(* record of a write, the end of a lease, or a commit.  For each of these  *)
(* a lemma shows the step of the contract it maps to under the refinement  *)
(* mapping Cells, and StepRespects what it may do to a chunk that is       *)
(* pinned or poisoned.                                                     *)
(***************************************************************************)
EXTENDS TransactionProofs

\* Only Begin moves a thread from there.
LEMMA OnlyBegin ==
  ASSUME NEW t \in Threads, pc[t] = "begin", MigrateStep(t) \/ LeaseStep(t)
  PROVE  Begin(t)
<1>1. ~LeaseStep(t)
  BY DEF LeaseStep, Restore, TakeGate, DropIntent, Pin, WriteBytes, WriteDone, CloseRead,
         CloseWritten, CloseUnwritten, CloseWriteDone
<1>2. ~ \/ Project(t) \/ ReserveAll(t) \/ AllocateDestination(t)
        \/ MaterializeDestination(t) \/ AllocateWorkspace(t) \/ MaterializeWorkspace(t)
        \/ VerifyAuthoritative(t) \/ Prepare(t) \/ MaterializeCompaction(t) \/ Transfer(t)
  BY DEF Project, ReserveAll, AllocateDestination, MaterializeDestination, AllocateWorkspace,
         MaterializeWorkspace, VerifyAuthoritative, Prepare, MaterializeCompaction, Transfer
<1>3. ~ \/ Reconcile(t) \/ ReleaseCompaction(t) \/ SettleCompaction(t) \/ VerifyTransfer(t)
        \/ ReleaseWorkspace(t) \/ SettleWorkspace(t) \/ Commit(t) \/ ReleaseSource(t)
        \/ SettleSource(t) \/ RollbackRelease(t) \/ RollbackSettle(t) \/ Finish(t)
  BY DEF Reconcile, ReleaseCompaction, SettleCompaction, VerifyTransfer, ReleaseWorkspace,
         SettleWorkspace, Commit, ReleaseSource, SettleSource, RollbackRelease, RollbackSettle, Finish
<1>4. QED
  BY <1>1, <1>2, <1>3 DEF MigrateStep

\* Every step is one of these: the users see nothing of it, or a pin, a write, the end of a
\* lease, or a commit.
LEMMA StepCases ==
  ASSUME TransactionInv, Next
  PROVE  \E t \in Threads :
           /\ pc[t] = "begin" => Begin(t)
           /\ \/ Steady(t)
              \/ \E c \in Chunks, d \in ChunkRecords :
                   Pins(t, c, d) \/ Leaves(t, c, d) \/ (pc[t] = "commit" /\ Swaps(t, c, d))
              \/ WriteBytes(t) \/ CloseUnwritten(t) \/ WriteDone(t) \/ CloseRead(t)
<1>1. ASSUME NEW t \in Threads, NEW c \in Chunks, NEW d \in Targets, NEW lim \in Limits,
             Propose(t, c, d, lim)
      PROVE  Steady(t) /\ pc[t] # "begin"
  BY <1>1, ProposeStep DEF Propose
<1>2. ASSUME NEW t \in Threads, NEW c \in Chunks, NEW a \in {"read_only", "read_write"},
             Intend(t, c, a)
      PROVE  Steady(t) /\ pc[t] # "begin"
  BY <1>2, IntendStep DEF Accesses, Intend
<1>3. ASSUME NEW t \in Threads, MigrateStep(t)
      PROVE  \/ Steady(t)
             \/ \E c \in Chunks, d \in ChunkRecords : pc[t] = "commit" /\ Swaps(t, c, d)
  <2>1. CASE \/ Begin(t) \/ Project(t) \/ ReserveAll(t) \/ AllocateDestination(t)
             \/ MaterializeDestination(t) \/ AllocateWorkspace(t) \/ MaterializeWorkspace(t)
             \/ VerifyAuthoritative(t)
    BY <2>1, BeginStep, ProjectStep, ReserveAllStep, AllocateDestinationStep,
       MaterializeDestinationStep, AllocateWorkspaceStep, MaterializeWorkspaceStep,
       VerifyAuthoritativeStep
  <2>2. CASE \/ Prepare(t) \/ MaterializeCompaction(t) \/ Transfer(t)
             \/ Reconcile(t) \/ ReleaseCompaction(t) \/ SettleCompaction(t) \/ VerifyTransfer(t)
    BY <2>2, PrepareStep, MaterializeCompactionStep, TransferStep, ReconcileStep,
       ReleaseCompactionStep, SettleCompactionStep, VerifyTransferStep
  <2>3. CASE \/ ReleaseWorkspace(t) \/ SettleWorkspace(t) \/ ReleaseSource(t)
             \/ SettleSource(t) \/ RollbackRelease(t) \/ RollbackSettle(t) \/ Finish(t)
    BY <2>3, ReleaseWorkspaceStep, SettleWorkspaceStep, ReleaseSourceStep,
       SettleSourceStep, RollbackReleaseStep, RollbackSettleStep, FinishStep
  <2>4. CASE Commit(t)
    <3>1. pc[t] = "commit"
      BY <2>4 DEF Commit
    <3>2. Steady(t) \/ \E c \in Chunks, d \in ChunkRecords : Swaps(t, c, d)
      BY <2>4, CommitCases, CommitFacts
    <3>3. QED
      BY <3>1, <3>2
  <2>5. QED
    BY <1>3, <2>1, <2>2, <2>3, <2>4 DEF MigrateStep
<1>4. ASSUME NEW t \in Threads, LeaseStep(t)
      PROVE  \/ Steady(t)
             \/ \E c \in Chunks, d \in ChunkRecords : Pins(t, c, d) \/ Leaves(t, c, d)
             \/ WriteBytes(t) \/ CloseUnwritten(t) \/ WriteDone(t) \/ CloseRead(t)
  <2>1. CASE Restore(t) \/ TakeGate(t) \/ DropIntent(t)
    BY <2>1, RestoreStep, TakeGateStep, DropIntentStep
  <2>2. CASE Pin(t) \/ CloseWritten(t) \/ CloseWriteDone(t)
    BY <2>2, PinFacts, CloseWrittenFacts, CloseWriteDoneFacts
  <2>3. QED
    BY <1>4, <2>1, <2>2 DEF LeaseStep
<1>5. PICK t \in Threads :
        \/ \E c \in Chunks, d \in Targets, lim \in Limits : Propose(t, c, d, lim)
        \/ \E c \in Chunks, a \in {"read_only", "read_write"} : Intend(t, c, a)
        \/ MigrateStep(t)
        \/ LeaseStep(t)
  BY DEF Next
<1>6. pc[t] = "begin" => Begin(t)
  BY <1>1, <1>2, <1>5, OnlyBegin
<1>7. \/ Steady(t)
      \/ \E c \in Chunks, d \in ChunkRecords :
           Pins(t, c, d) \/ Leaves(t, c, d) \/ (pc[t] = "commit" /\ Swaps(t, c, d))
      \/ WriteBytes(t) \/ CloseUnwritten(t) \/ WriteDone(t) \/ CloseRead(t)
  <2>1. CASE \/ \E c \in Chunks, d \in Targets, lim \in Limits : Propose(t, c, d, lim)
             \/ \E c \in Chunks, a \in {"read_only", "read_write"} : Intend(t, c, a)
    BY <1>1, <1>2, <2>1
  <2>2. CASE MigrateStep(t)
    BY <1>3, <2>2
  <2>3. CASE LeaseStep(t)
    BY <1>4, <2>3
  <2>4. QED
    BY <1>5, <2>1, <2>2, <2>3
<1>8. QED
  BY <1>6, <1>7

(***************************************************************************)
(* Chunks as cells                                                         *)
(***************************************************************************)
Cell(form, bytes, readers, writer, usable) ==
  [form |-> form, bytes |-> bytes, readers |-> readers, writer |-> writer, usable |-> usable]

BytesOf(ch, st) ==
  IF st[ch.auth.resource] = None THEN Garbage ELSE st[ch.auth.resource].content

CellOf(ch, st) ==
  Cell(ch.auth.state, BytesOf(ch, st), ch.readers, ch.writer, ch.lifecycle = "live")

LEMMA CellIs ==
  ASSUME NEW ch, NEW st, NEW w \in BOOLEAN, NEW u \in BOOLEAN, ch.writer \in BOOLEAN,
         w <=> ch.writer, u <=> ch.lifecycle = "live"
  PROVE  CellOf(ch, st) = Cell(ch.auth.state, BytesOf(ch, st), ch.readers, w, u)
<1> DEFINE live == ch.lifecycle = "live"
<1>1. live = u /\ ch.writer = w
  OBVIOUS
<1>2. CellOf(ch, st) = Cell(ch.auth.state, BytesOf(ch, st), ch.readers, ch.writer, live)
  BY DEF CellOf
<1> HIDE DEF live
<1>3. QED
  BY <1>1, <1>2

\* The steps of the contract, on a cell given by its fields. The truth values are
\* variables here: the provers tell a record with a variable from one with a formula.
LEMMA GiveUpCell ==
  ASSUME NEW no, NEW yes, no = FALSE, yes = TRUE,
         NEW c, NEW cell, cell = Cells[c], NEW f, NEW b, NEW r, NEW w, cell = Cell(f, b, r, w, yes),
         Contract!Becomes(c, Cell(f, b, r, w, no))
  PROVE  Contract!GiveUp(c)
<1>1. [cell EXCEPT !.usable = no] = Cell(f, b, r, w, no)
  BY ONLY cell = Cell(f, b, r, w, yes) DEF Cell
<1>2. [cell EXCEPT !.usable = FALSE] = Cell(f, b, r, w, no)
  BY <1>1
<1>3. QED
  BY <1>2 DEF Contract!GiveUp, Cell

LEMMA PinReadCell ==
  ASSUME NEW no, NEW yes, no = FALSE, yes = TRUE,
         NEW c, NEW cell, cell = Cells[c], NEW b, NEW r \in Nat,
         cell = Cell("gpu_raw", b, r, no, yes), b # Garbage,
         Contract!Becomes(c, Cell("gpu_raw", b, r + 1, no, yes))
  PROVE  Contract!PinRead(c)
<1>1. [cell EXCEPT !.readers = @ + 1] = Cell("gpu_raw", b, r + 1, no, yes)
  BY ONLY cell = Cell("gpu_raw", b, r, no, yes), r \in Nat DEF Cell
<1>2. QED
  BY <1>1 DEF Contract!PinRead, Contract!CanPin, Cell

LEMMA UnpinReadCell ==
  ASSUME NEW c, NEW cell, cell = Cells[c], NEW f, NEW b, NEW r \in Nat \ {0}, NEW w, NEW u,
         cell = Cell(f, b, r, w, u), Contract!Becomes(c, Cell(f, b, r - 1, w, u))
  PROVE  Contract!UnpinRead(c)
<1>1. [cell EXCEPT !.readers = @ - 1] = Cell(f, b, r - 1, w, u)
  BY DEF Cell
<1>2. QED
  BY <1>1 DEF Contract!UnpinRead, Cell

LEMMA MigrateCell ==
  ASSUME NEW no, NEW yes, no = FALSE, yes = TRUE,
         NEW c, NEW cell, cell = Cells[c], NEW f, NEW b, NEW g, g # f,
         cell = Cell(f, b, 0, no, yes), Contract!Becomes(c, Cell(g, b, 0, no, yes))
  PROVE  Contract!Migrate(c, g)
<1>1. [cell EXCEPT !.form = g] = Cell(g, b, 0, no, yes)
  BY ONLY cell = Cell(f, b, 0, no, yes) DEF Cell
<1>2. QED
  BY <1>1 DEF Contract!Migrate, Contract!Held, Cell

\* One cell follows its chunk; the others stay.
LEMMA CellsUpdate ==
  ASSUME TransactionInv, NEW c \in Chunks, NEW d \in ChunkRecords,
         chunk' = [chunk EXCEPT ![c] = d],
         \A r \in Resources : r # chunk[c].auth.resource => store'[r] = store[r]
  PROVE  Contract!Becomes(c, CellOf(d, store'))
<1>1. Cells = [e \in Chunks |-> CellOf(chunk[e], store)]
      /\ Cells' = [e \in Chunks |-> CellOf(chunk'[e], store')]
  BY DEF Cells, CellOf, Cell, BytesOf
<1>2. chunk'[c] = d /\ \A e \in Chunks \ {c} : chunk'[e] = chunk[e]
  BY DEF TransactionInv, Typed
<1>3. ASSUME NEW e \in Chunks \ {c} PROVE CellOf(chunk'[e], store') = CellOf(chunk[e], store)
  <2>1. chunk[e].auth.resource \in Resources /\ chunk[e].auth.resource # chunk[c].auth.resource
    BY DEF TransactionInv, Claimed, Typed, ChunkRecords, Authorities
  <2>2. QED
    BY <1>2, <2>1 DEF CellOf, BytesOf
<1>4. Cells' = [Cells EXCEPT ![c] = CellOf(d, store')]
  BY <1>1, <1>2, <1>3
<1>5. QED
  BY <1>4 DEF Contract!Becomes

LEMMA CellFacts ==
  ASSUME TransactionInv, NEW c \in Chunks
  PROVE  /\ Cells[c] = CellOf(chunk[c], store) /\ chunk[c] \in ChunkRecords
         /\ Cells[c].form = chunk[c].auth.state /\ Cells[c].readers = chunk[c].readers
         /\ Cells[c].writer = chunk[c].writer /\ Cells[c].usable = (chunk[c].lifecycle = "live")
         /\ Cells[c].bytes = store[chunk[c].auth.resource].content
         /\ chunk[c].lifecycle = "live" /\ ~WriteInFlight(c) =>
              Cells[c].bytes = chunk[c].auth.content /\ Cells[c].bytes # Garbage
<1>1. Cells[c] = CellOf(chunk[c], store)
  BY DEF Cells, CellOf, Cell, BytesOf
<1>2. ChunkKept(c) /\ chunk[c] \in ChunkRecords
  BY DEF TransactionInv, Kept, Typed
<1>3. Cells[c].bytes = store[chunk[c].auth.resource].content
  BY <1>1, <1>2 DEF CellOf, Cell, BytesOf, ChunkKept
<1>4. chunk[c].auth.content # Garbage
  BY <1>2 DEF ChunkRecords, Authorities, Contents, Garbage
<1>5. chunk[c].lifecycle = "live" /\ ~WriteInFlight(c) => Cells[c].bytes = chunk[c].auth.content
  BY <1>2, <1>3 DEF ChunkKept
<1>6. QED
  BY <1>1, <1>2, <1>3, <1>4, <1>5 DEF CellOf, Cell

\* Who writes to a chunk is its writer.
LEMMA WriterInFlight ==
  ASSUME TransactionInv, NEW c \in Chunks, WriteInFlight(c)
  PROVE  chunk[c].writer
<1>1. PICK t \in Threads : pc[t] \in Writing /\ loc[t].chunk = c
  BY DEF WriteInFlight, Writing
<1>2. pc[t] \in Holding /\ loc[t].access = "read_write"
  BY <1>1, LeasingApart DEF TransactionInv, Threaded, ThreadInv, PlacedAt
<1>3. QED
  BY <1>1, <1>2, WriterFacts DEF OwnChunk

LEMMA SteadyCells ==
  ASSUME TransactionInv, NEW t \in Threads, Steady(t)
  PROVE  Cells' = Cells \/ \E c \in Chunks : Contract!GiveUp(c)
<1>1. Cells = [e \in Chunks |-> CellOf(chunk[e], store)]
      /\ Cells' = [e \in Chunks |-> CellOf(chunk'[e], store')]
  BY DEF Cells, CellOf, Cell, BytesOf
<1>2. CASE \A e \in Chunks : chunk'[e].lifecycle = chunk[e].lifecycle
  <2>1. \A e \in Chunks : CellOf(chunk'[e], store') = CellOf(chunk[e], store)
    BY <1>2 DEF Steady, CellOf, BytesOf
  <2>2. QED
    BY <1>1, <2>1
<1>3. ASSUME NEW c \in Chunks, chunk'[c].lifecycle # chunk[c].lifecycle
      PROVE  Contract!GiveUp(c)
  <2> DEFINE ch == chunk[c]
             d == chunk'[c]
  <2>1. ch.lifecycle = "live" /\ d.lifecycle = "poisoned" /\ ch.writer \in BOOLEAN
    BY <1>3, CellFacts DEF Steady, TransactionInv, Kept, ChunkKept, ChunkRecords
  <2>2. /\ d.writer = ch.writer /\ d.readers = ch.readers /\ d.auth = ch.auth
        /\ BytesOf(d, store') = BytesOf(ch, store)
    BY DEF Steady, BytesOf
  <2>3. \A e \in Chunks \ {c} : CellOf(chunk'[e], store') = CellOf(chunk[e], store)
    BY <1>3 DEF Steady, OneChunk, CellOf, BytesOf
  <2>4. Cells' = [Cells EXCEPT ![c] = CellOf(d, store')]
    BY <1>1, <2>3
  <2> HIDE DEF ch, d
  <2>5. CellOf(ch, store) = Cell(ch.auth.state, BytesOf(ch, store), ch.readers, ch.writer, TRUE)
    BY <2>1, CellIs
  <2>6. CellOf(d, store') = Cell(ch.auth.state, BytesOf(ch, store), ch.readers, ch.writer, FALSE)
    <3>1. CellOf(d, store') = Cell(d.auth.state, BytesOf(d, store'), d.readers, d.writer, FALSE)
      BY <2>1, <2>2, CellIs
    <3>2. QED
      BY <2>2, <3>1
  <2>7. Contract!Becomes(c, Cell(ch.auth.state, BytesOf(ch, store), ch.readers, ch.writer, FALSE))
    BY <2>4, <2>6 DEF Contract!Becomes
  <2>8. Cells[c] = CellOf(ch, store)
    BY CellFacts DEF ch
  <2>9. QED
    BY <2>5, <2>7, <2>8, GiveUpCell
<1>4. QED
  BY <1>2, <1>3

LEMMA PinCells ==
  ASSUME TransactionInv, NEW t \in Threads, NEW c \in Chunks, NEW d \in ChunkRecords, Pins(t, c, d)
  PROVE  Contract!PinRead(c) \/ Contract!PinWrite(c)
<1> DEFINE ch == chunk[c]
<1>1. /\ store' = store /\ chunk' = [chunk EXCEPT ![c] = d] /\ c = loc[t].chunk
      /\ ch.lifecycle = "live" /\ ch.auth.state = "gpu_raw"
      /\ d.auth = ch.auth /\ d.lifecycle = "live" /\ pc[t] \in Leasing \ Holding
  BY DEF Pins, Leasing, Holding
<1>2. ~ch.writer /\ ChunkLocked(c) /\ t \in IntentHolders(c)
  BY <1>1, IntentFacts, HoldingFacts DEF OwnChunk
<1>3. ~WriteInFlight(c)
  BY <1>2, WriterInFlight
<1>4. /\ Cells[c] = CellOf(ch, store) /\ Cells[c].bytes # Garbage
      /\ ch.readers \in Nat /\ ch.writer \in BOOLEAN /\ d.writer \in BOOLEAN
  BY <1>1, <1>3, CellFacts DEF ChunkRecords
<1>5. Contract!Becomes(c, CellOf(d, store))
  BY <1>1, CellsUpdate
<1> DEFINE b == BytesOf(ch, store)
<1>6. BytesOf(d, store) = b
  BY <1>1 DEF BytesOf
<1> HIDE DEF ch, b
<1>7. Cells[c] = Cell("gpu_raw", b, ch.readers, FALSE, TRUE)
  <2>1. PICK no \in BOOLEAN, yes \in BOOLEAN : no = FALSE /\ yes = TRUE
    OBVIOUS
  <2>2. (no <=> ch.writer) /\ (yes <=> ch.lifecycle = "live")
    BY <1>1, <1>2, <2>1 DEF ch
  <2>3. CellOf(ch, store) = Cell(ch.auth.state, BytesOf(ch, store), ch.readers, no, yes)
    BY <1>4, <2>2, CellIs
  <2>4. ch.auth.state = "gpu_raw" /\ BytesOf(ch, store) = b /\ Cells[c] = CellOf(ch, store)
    BY <1>1, <1>4 DEF ch, b
  <2>5. QED
    BY <2>1, <2>3, <2>4
<1>8. b # Garbage
  BY <1>4, <1>7 DEF Cell
<1>9. CASE loc[t].access = "read_only" /\ d.readers = ch.readers + 1 /\ d.writer = ch.writer
  <2>1. CellOf(d, store) = Cell("gpu_raw", b, ch.readers + 1, FALSE, TRUE)
    <3>1. CellOf(d, store) = Cell(d.auth.state, BytesOf(d, store), d.readers, FALSE, TRUE)
      BY <1>1, <1>2, <1>4, <1>9, CellIs
    <3>2. QED
      BY <1>1, <1>6, <1>9, <3>1
  <2>2. QED
    BY <1>4, <1>5, <1>7, <1>8, <2>1, PinReadCell
<1>10. CASE loc[t].access = "read_write" /\ d.readers = ch.readers /\ d.writer
  <2>1. ch.readers = 0
    BY <1>2, <1>10 DEF ChunkLocked, ch
  <2>2. CellOf(d, store) = Cell("gpu_raw", b, ch.readers, TRUE, TRUE)
    <3>1. CellOf(d, store) = Cell(d.auth.state, BytesOf(d, store), d.readers, TRUE, TRUE)
      BY <1>1, <1>4, <1>10, CellIs
    <3>2. QED
      BY <1>1, <1>6, <1>10, <3>1
  <2>3. QED
    <3>1. PICK no, yes, cell : no = FALSE /\ yes = TRUE /\ cell = Cells[c]
      OBVIOUS
    <3>2. cell = Cell("gpu_raw", b, ch.readers, no, yes)
      BY <1>7, <3>1
    <3>3. Contract!Becomes(c, Cell("gpu_raw", b, ch.readers, yes, yes))
      BY <1>5, <2>2, <3>1
    <3>4. Contract!PinWrite(c)
      <4>1. [cell EXCEPT !.writer = yes] = Cell("gpu_raw", b, ch.readers, yes, yes)
        BY ONLY <3>2 DEF Cell
      <4>2. [cell EXCEPT !.writer = TRUE] = Cell("gpu_raw", b, ch.readers, yes, yes)
        BY <3>1, <4>1
      <4>3. QED
        BY <1>8, <2>1, <3>1, <3>2, <3>3, <4>2 DEF Contract!PinWrite, Contract!CanPin, Cell
    <3>5. QED
      BY <3>4
<1>11. QED
  BY <1>9, <1>10 DEF Pins, ch

LEMMA SwapCells ==
  ASSUME TransactionInv, NEW t \in Threads, NEW c \in Chunks, NEW d \in ChunkRecords, Swaps(t, c, d),
         pc[t] = "commit"
  PROVE  \E form \in States : Contract!Migrate(c, form)
<1> DEFINE ch == chunk[c]
           form == loc[t].dest
<1>1. /\ store' = store /\ chunk' = [chunk EXCEPT ![c] = d] /\ c = loc[t].chunk
      /\ ch.lifecycle = "live" /\ ch.auth = loc[t].src /\ ch.txn = t
  BY DEF Swaps
<1>2. /\ d.auth.state = form /\ d.auth.resource = loc[t].dst.id
      /\ store[loc[t].dst.id] # None /\ store[loc[t].dst.id].content = ch.auth.content
      /\ d.readers = ch.readers /\ d.writer = ch.writer /\ d.lifecycle = "live"
  BY DEF Swaps
<1>3. ChunkLocked(c) /\ t # None /\ loc[t] \in Locals
  BY TransactionAssumption DEF TransactionInv, Locked, Typed, TransactionAssumption
<1>4. ch.readers = 0 /\ ~ch.writer
  BY <1>1, <1>3 DEF ChunkLocked
<1>5. Cells[c].bytes = ch.auth.content /\ Cells[c] = CellOf(ch, store) /\ ch.writer \in BOOLEAN
  BY <1>1, <1>4, WriterInFlight, CellFacts DEF ChunkRecords
<1>6. pc[t] \in PreCommit
  BY DEF PreCommit, Filled
<1>7. form # ch.auth.state /\ form \in States
  BY <1>1, <1>3, <1>6 DEF TransactionInv, Threaded, ThreadInv, Transacting, Locals
<1>8. BytesOf(d, store) = ch.auth.content
  BY <1>2 DEF BytesOf
<1>9. Contract!Becomes(c, CellOf(d, store))
  BY <1>1, CellsUpdate
<1> HIDE DEF ch, form
<1>10. Cells[c] = Cell(ch.auth.state, ch.auth.content, 0, FALSE, TRUE)
  <2>1. CellOf(ch, store) = Cell(ch.auth.state, BytesOf(ch, store), 0, FALSE, TRUE)
    BY <1>1, <1>4, <1>5, CellIs
  <2>2. BytesOf(ch, store) = ch.auth.content
    BY <1>5, <2>1 DEF Cell
  <2>3. QED
    BY <1>5, <2>1, <2>2
<1>11. CellOf(d, store) = Cell(form, ch.auth.content, 0, FALSE, TRUE)
  BY <1>2, <1>4, <1>5, <1>8, CellIs
<1>12. Contract!Migrate(c, form)
  BY <1>7, <1>9, <1>10, <1>11, MigrateCell
<1>13. QED
  BY <1>7, <1>12

\* A chunk that at most becomes unusable.
LEMMA FadeCells ==
  ASSUME TransactionInv, NEW c \in Chunks, NEW d,
         Contract!Becomes(c, CellOf(d, store')), BytesOf(d, store') = BytesOf(chunk[c], store),
         d.auth.state = chunk[c].auth.state, d.readers = chunk[c].readers,
         d.writer = chunk[c].writer, d.lifecycle \in {chunk[c].lifecycle, "poisoned"}
  PROVE  Cells' = Cells \/ Contract!GiveUp(c)
<1> DEFINE ch == chunk[c]
<1>1. Cells[c] = CellOf(ch, store) /\ ch.writer \in BOOLEAN /\ ch.lifecycle \in {"live", "poisoned"}
  BY CellFacts DEF TransactionInv, Kept, ChunkKept, ChunkRecords
<1>2. CASE d.lifecycle = ch.lifecycle
  <2>1. CellOf(d, store') = Cells[c]
    BY <1>1, <1>2 DEF CellOf
  <2>2. Cells' = [Cells EXCEPT ![c] = Cells[c]]
    BY <2>1 DEF Contract!Becomes
  <2>3. QED
    BY <2>2 DEF Cells
<1>3. CASE d.lifecycle # ch.lifecycle
  <2>1. ch.lifecycle = "live" /\ d.lifecycle = "poisoned"
    BY <1>1, <1>3
  <2> HIDE DEF ch
  <2>2. CellOf(ch, store) = Cell(ch.auth.state, BytesOf(ch, store), ch.readers, ch.writer, TRUE)
    BY <1>1, <2>1, CellIs
  <2>3. d.writer \in BOOLEAN
    BY <1>1 DEF ch
  <2>4. CellOf(d, store') = Cell(d.auth.state, BytesOf(d, store'), d.readers, d.writer, FALSE)
    BY <2>1, <2>3, CellIs
  <2>5. CellOf(d, store') = Cell(ch.auth.state, BytesOf(ch, store), ch.readers, ch.writer, FALSE)
    BY <2>4 DEF ch
  <2>6. Contract!Becomes(c, Cell(ch.auth.state, BytesOf(ch, store), ch.readers, ch.writer, FALSE))
    BY <2>5
  <2>7. QED
    BY <1>1, <2>2, <2>6, GiveUpCell
<1>4. QED
  BY <1>2, <1>3

LEMMA RecordCells ==
  ASSUME TransactionInv, NEW t \in Threads, WriteDone(t)
  PROVE  Cells' = Cells \/ \E c \in Chunks : Contract!GiveUp(c)
<1>1. pc[t] \in Writing /\ pc[t] \in Leasing /\ UNCHANGED <<ledger, store>>
  BY DEF WriteDone, Writing, Leasing, Holding
<1>2. PICK c \in Chunks : c = loc[t].chunk
  BY <1>1, HoldingFacts
<1>3. PICK d : d = RecordWrite(chunk[c], t)
  OBVIOUS
<1>4. /\ d \in ChunkRecords /\ d.readers = chunk[c].readers /\ d.writer = chunk[c].writer
      /\ d.auth.resource = chunk[c].auth.resource /\ d.auth.state = chunk[c].auth.state
      /\ d.lifecycle \in {chunk[c].lifecycle, "poisoned"}
      /\ StillPinned(chunk[c], t) /\ chunk[c].auth.content = loc[t].src.content
  BY <1>1, <1>2, <1>3, RecordFacts
<1>5. chunk' = [chunk EXCEPT ![c] = d]
  BY <1>2, <1>3, <1>4 DEF WriteDone
<1>6. Contract!Becomes(c, CellOf(d, store'))
  BY <1>1, <1>4, <1>5, CellsUpdate
<1>7. BytesOf(d, store') = BytesOf(chunk[c], store)
  BY <1>1, <1>4 DEF BytesOf
<1>8. QED
  BY <1>4, <1>6, <1>7, FadeCells

LEMMA WriteCells ==
  ASSUME TransactionInv, NEW t \in Threads, pc[t] = "leased", loc[t].access = "read_write",
         NEW next, BackendWrite(t, next)
  PROVE  Cells' = Cells \/ \E c \in Chunks : Contract!Write(c)
<1>1. pc[t] \in Holding /\ pc[t] \in Leasing
  BY DEF Holding, Leasing
<1>2. PICK c \in Chunks : c = loc[t].chunk
  BY <1>1, HoldingFacts
<1> DEFINE ch == chunk[c]
           a == ch.auth
<1>3. ch.writer /\ ch \in ChunkRecords /\ ChunkKept(c)
  BY <1>1, <1>2, WriterFacts, HoldingFacts DEF OwnChunk
<1>4. a \in Authorities /\ a.resource \in Resources /\ a.content \in Contents /\ a.content \in Int
      /\ MaxGeneration \in Nat /\ ch.writer \in BOOLEAN
  BY <1>3, TransactionAssumption DEF ChunkRecords, Authorities, Contents, TransactionAssumption
<1>5. ~WriteInFlight(c)
  <2>1. Alone(t, c)
    BY <1>1, <1>2, WriterFacts
  <2>2. QED
    BY <2>1 DEF Alone, WriteInFlight, Writing
<1>6. /\ Cells[c] = CellOf(ch, store) /\ Cells[c].bytes = store[a.resource].content
      /\ ch.lifecycle = "live" => Cells[c].bytes = a.content /\ a.content # Garbage
  BY <1>5, CellFacts
<1>7. CASE store' = store
  <2>1. chunk' = chunk
    BY DEF BackendWrite
  <2>2. QED
    BY <1>7, <2>1 DEF Cells
<1>8. ASSUME NEW w \in {a.content + 1, Garbage}, store' = [store EXCEPT ![a.resource].content = w],
             w \in Contents \cup {Garbage}, chunk' = chunk
      PROVE  Contract!Write(c)
  <2>1. store[a.resource] \in Descriptors
    BY <1>3, <1>4 DEF ChunkKept, TransactionInv, Typed
  <2>2. PICK x : x = [store[a.resource] EXCEPT !.content = w]
    OBVIOUS
  <2>3. x \in Descriptors /\ x.content = w
    BY <1>8, <2>1, <2>2 DEF Descriptors
  <2>4. store' = [store EXCEPT ![a.resource] = x]
    BY <1>8, <2>2
  <2>5. /\ store'[a.resource] = x /\ x # None
        /\ \A r \in Resources : r # a.resource => store'[r] = store[r]
    BY <1>4, <2>3, <2>4, TransactionAssumption DEF TransactionInv, Typed, TransactionAssumption
  <2>6. BytesOf(ch, store') = w
    BY <2>3, <2>5 DEF BytesOf
  <2>7. chunk' = [chunk EXCEPT ![c] = ch]
    BY <1>8 DEF TransactionInv, Typed
  <2>8. Contract!Becomes(c, CellOf(ch, store'))
    BY <1>3, <2>5, <2>7, CellsUpdate
  <2>9. PICK yes, u, b, cell : /\ yes = TRUE /\ b = BytesOf(ch, store) /\ cell = Cells[c]
                               /\ u = (ch.lifecycle = "live")
    OBVIOUS
  <2> HIDE DEF ch, a
  <2>10. u \in BOOLEAN /\ (u <=> ch.lifecycle = "live")
    BY <2>9
  <2>11. /\ CellOf(ch, store) = Cell(ch.auth.state, b, ch.readers, yes, u)
         /\ CellOf(ch, store') = Cell(ch.auth.state, w, ch.readers, yes, u)
    <3>1. /\ CellOf(ch, store) = Cell(ch.auth.state, BytesOf(ch, store), ch.readers, TRUE, u)
          /\ CellOf(ch, store') = Cell(ch.auth.state, BytesOf(ch, store'), ch.readers, TRUE, u)
      BY <1>3, <1>4, <2>10, CellIs
    <3>2. QED
      BY <2>6, <2>9, <3>1
  <2>12. cell = Cell(ch.auth.state, b, ch.readers, yes, u)
    BY <1>6, <2>9, <2>11
  <2>13. Cells[c].bytes = b
    <3>1. cell.bytes = b
      BY ONLY <2>12 DEF Cell
    <3>2. QED
      BY <2>9, <3>1
  <2>14. u = TRUE => b # Garbage /\ w \in {b + 1, Garbage}
    BY <1>6, <1>8, <2>10, <2>13 DEF a
  <2>15. w \in 0 .. MaxGeneration \cup {Garbage}
    BY <1>8 DEF Contents
  <2>16. Contract!Becomes(c, Cell(ch.auth.state, w, ch.readers, yes, u))
    BY <2>8, <2>11
  <2>17. QED
    <3>1. [cell EXCEPT !.bytes = w] = Cell(ch.auth.state, w, ch.readers, yes, u)
      BY ONLY <2>12 DEF Cell
    <3>2. cell.writer = yes /\ cell.usable = u /\ cell.bytes = b
      BY ONLY <2>12 DEF Cell
    <3>3. Contract!Becomes(c, [Cells[c] EXCEPT !.bytes = w])
      BY <2>9, <2>16, <3>1
    <3>4. Cells[c].writer /\ (Cells[c].usable => u = TRUE) /\ Cells[c].bytes = b
      BY <2>9, <2>10, <3>2
    <3>5. QED
      BY <2>14, <2>15, <3>3, <3>4 DEF Contract!Write
<1>9. CASE a.content < MaxGeneration /\ store' = [store EXCEPT ![a.resource].content = a.content + 1]
  <2>1. a.content + 1 \in Contents
    BY <1>4, <1>9 DEF Contents
  <2>2. chunk' = chunk
    BY DEF BackendWrite
  <2>3. QED
    BY <1>8, <1>9, <2>1, <2>2
<1>10. CASE store' = [store EXCEPT ![a.resource].content = Garbage]
  <2>1. chunk' = chunk
    BY DEF BackendWrite
  <2>2. QED
    BY <1>8, <1>10, <2>1
<1>11. QED
  BY <1>2, <1>7, <1>9, <1>10 DEF BackendWrite

LEMMA LeaveCells ==
  ASSUME TransactionInv, NEW t \in Threads, NEW c \in Chunks, NEW d \in ChunkRecords, Leaves(t, c, d)
  PROVE  Contract!UnpinWrite(c)
<1> DEFINE ch == chunk[c]
<1>1. /\ c = loc[t].chunk /\ store' = store /\ chunk' = [chunk EXCEPT ![c] = d]
      /\ pc[t] \in Holding /\ loc[t].access = "read_write" /\ d.readers = ch.readers /\ ~d.writer
      /\ d.auth.resource = ch.auth.resource /\ d.auth.state = ch.auth.state
      /\ d.lifecycle \in {ch.lifecycle, "poisoned"}
      /\ d.lifecycle = "live" => store[d.auth.resource].content = d.auth.content
  BY DEF Leaves
<1>2. ch.writer /\ ch.writer \in BOOLEAN /\ d.writer \in BOOLEAN /\ Cells[c] = CellOf(ch, store)
  BY <1>1, WriterFacts, CellFacts DEF OwnChunk, ChunkRecords
<1>3. Contract!Becomes(c, CellOf(d, store'))
  BY <1>1, CellsUpdate
<1>4. d.lifecycle = "live" => BytesOf(d, store) # Garbage
  <2>1. d.auth.content # Garbage
    BY DEF ChunkRecords, Authorities, Contents, Garbage
  <2>2. store[d.auth.resource] # None
    BY <1>1, CellFacts DEF TransactionInv, Kept, ChunkKept
  <2>3. QED
    BY <1>1, <2>1, <2>2 DEF BytesOf
<1>5. BytesOf(ch, store) = BytesOf(d, store)
  BY <1>1 DEF BytesOf
<1>6. PICK no, yes, u, v, b, cell :
        /\ no = FALSE /\ yes = TRUE /\ b = BytesOf(d, store) /\ cell = Cells[c]
        /\ u = (ch.lifecycle = "live") /\ v = (d.lifecycle = "live")
  OBVIOUS
<1> HIDE DEF ch
<1>7. /\ u \in BOOLEAN /\ (u <=> ch.lifecycle = "live") /\ v \in BOOLEAN /\ (v <=> d.lifecycle = "live")
  BY <1>6
<1>8. cell = Cell(ch.auth.state, b, ch.readers, yes, u)
  <2>1. CellOf(ch, store) = Cell(ch.auth.state, BytesOf(ch, store), ch.readers, TRUE, u)
    BY <1>2, <1>7, CellIs
  <2>2. QED
    BY <1>2, <1>5, <1>6, <2>1
<1>9. CellOf(d, store') = Cell(ch.auth.state, b, ch.readers, no, v)
  <2>1. CellOf(d, store') = Cell(d.auth.state, BytesOf(d, store'), d.readers, FALSE, v)
    BY <1>1, <1>2, <1>7, CellIs
  <2>2. BytesOf(d, store') = b
    BY <1>1, <1>6
  <2>3. QED
    BY <1>1, <1>6, <2>1, <2>2
<1>10. v = TRUE => u = TRUE /\ b # Garbage
  BY <1>1, <1>4, <1>6, <1>7
<1>11. Contract!Becomes(c, Cell(ch.auth.state, b, ch.readers, no, v))
  BY <1>3, <1>9
<1>12. QED
  <2>1. PICK e : e = [cell EXCEPT !.writer = no]
    OBVIOUS
  <2>2. e = Cell(ch.auth.state, b, ch.readers, no, u)
    BY ONLY <1>8, <2>1 DEF Cell
  <2>3. [e EXCEPT !.usable = v] = Cell(ch.auth.state, b, ch.readers, no, v)
    BY ONLY <2>2 DEF Cell
  <2>4. [cell EXCEPT !.writer = no, !.usable = v] = Cell(ch.auth.state, b, ch.readers, no, v)
    BY ONLY <2>1, <2>3, Zenon
  <2>5. cell.writer = yes /\ cell.usable = u /\ cell.bytes = b
    BY ONLY <1>8 DEF Cell
  <2>6. Contract!Becomes(c, [Cells[c] EXCEPT !.writer = FALSE, !.usable = v])
    BY <1>6, <1>11, <2>4
  <2>7. Cells[c].writer /\ (v => Cells[c].usable /\ Cells[c].bytes # Garbage)
    BY <1>6, <1>7, <1>10, <2>5
  <2>8. QED
    BY <1>7, <2>6, <2>7 DEF Contract!UnpinWrite

LEMMA ReadCells ==
  ASSUME TransactionInv, NEW t \in Threads, CloseRead(t)
  PROVE  \E c \in Chunks : Contract!UnpinRead(c)
<1>1. /\ pc[t] \in Holding /\ pc[t] \in Leasing /\ store' = store /\ loc[t].access = "read_only"
  BY DEF CloseRead, Holding, Leasing
<1>2. PICK c \in Chunks : c = loc[t].chunk
  BY <1>1, HoldingFacts
<1>3. PICK ch, n, d : ch = chunk[c] /\ n = ch.readers - 1 /\ d = [ch EXCEPT !.readers = n]
  OBVIOUS
<1>4. /\ ch \in ChunkRecords /\ Cells[c] = CellOf(ch, store) /\ ch.readers \in Nat
      /\ ch.writer \in BOOLEAN
  BY <1>3, CellFacts DEF ChunkRecords
<1>5. ch.readers # 0
  <2>1. t \in ReadHolders(c)
    BY <1>1, <1>2 DEF ReadHolders
  <2>2. QED
    BY <1>3, <2>1, NoHolders
<1>6. chunk' = [chunk EXCEPT ![c] = d] /\ n \in Nat
  BY <1>2, <1>3, <1>4, <1>5 DEF CloseRead, TransactionInv, Typed, ChunkRecords
<1>7. /\ d \in ChunkRecords /\ d.auth = ch.auth /\ d.lifecycle = ch.lifecycle /\ d.readers = n
      /\ d.writer = ch.writer
  BY <1>3, <1>4, <1>6 DEF ChunkRecords
<1>8. Contract!Becomes(c, CellOf(d, store'))
  BY <1>1, <1>6, <1>7, CellsUpdate
<1>9. PICK u, b : u = (ch.lifecycle = "live") /\ b = BytesOf(ch, store)
  OBVIOUS
<1>10. CellOf(ch, store) = Cell(ch.auth.state, b, ch.readers, ch.writer, u)
  BY <1>9 DEF CellOf
<1>11. CellOf(d, store') = Cell(ch.auth.state, b, ch.readers - 1, ch.writer, u)
  <2>1. BytesOf(d, store') = b
    BY <1>1, <1>7, <1>9 DEF BytesOf
  <2>2. QED
    BY <1>3, <1>7, <1>9, <2>1 DEF CellOf
<1>12. Contract!UnpinRead(c)
  BY <1>4, <1>5, <1>8, <1>10, <1>11, UnpinReadCell
<1>13. QED
  BY <1>12

LEMMA InitCells == Init => Contract!CellInit
<1> SUFFICES ASSUME Init PROVE Contract!CellInit
  OBVIOUS
<1>1. TransactionInv
  BY InitInv
<1>2. ASSUME NEW c \in Chunks PROVE CellOf(chunk[c], store) = Cell(InitialState, 0, 0, FALSE, TRUE)
  <2>1. /\ chunk[c].auth.state = InitialState /\ chunk[c].auth.content = 0
        /\ chunk[c].readers = 0 /\ chunk[c].writer = FALSE /\ chunk[c].lifecycle = "live"
    BY DEF Init
  <2>2. CellOf(chunk[c], store) = Cell(InitialState, BytesOf(chunk[c], store), 0, FALSE, TRUE)
    BY <2>1, CellIs
  <2>3. ~WriteInFlight(c)
    BY DEF Init, WriteInFlight
  <2>4. Cells[c] = CellOf(chunk[c], store) /\ Cells[c].bytes = 0
    BY <1>1, <2>1, <2>3, CellFacts
  <2>5. BytesOf(chunk[c], store) = 0
    BY <2>2, <2>4 DEF Cell
  <2>6. QED
    BY <2>2, <2>5
<1>3. Cells = [c \in Chunks |-> CellOf(chunk[c], store)]
  BY DEF Cells, CellOf, Cell, BytesOf
<1>4. Cells = [c \in Chunks |-> Cell(InitialState, 0, 0, FALSE, TRUE)]
  BY <1>2, <1>3
<1>5. QED
  BY <1>4 DEF Contract!CellInit, Cell

LEMMA StepCells == TransactionInv /\ [Next]_vars => [Contract!CellNext]_Cells
<1> SUFFICES ASSUME TransactionInv, [Next]_vars, Cells' # Cells
             PROVE  Contract!CellNext
  OBVIOUS
<1>1. CASE UNCHANGED vars
  <2>1. chunk' = chunk /\ store' = store
    BY <1>1 DEF vars
  <2>2. QED
    BY <2>1 DEF Cells
<1>2. CASE Next
  <2>1. PICK t \in Threads :
          \/ Steady(t)
          \/ \E c \in Chunks, d \in ChunkRecords :
               Pins(t, c, d) \/ Leaves(t, c, d) \/ (pc[t] = "commit" /\ Swaps(t, c, d))
          \/ WriteBytes(t) \/ CloseUnwritten(t) \/ WriteDone(t) \/ CloseRead(t)
    BY <1>2, StepCases
  <2>2. CASE Steady(t)
    BY <2>2, SteadyCells DEF Contract!CellNext
  <2>3. ASSUME NEW c \in Chunks, NEW d \in ChunkRecords, Pins(t, c, d) PROVE Contract!CellNext
    BY <2>3, PinCells DEF Contract!CellNext
  <2>4. ASSUME NEW c \in Chunks, NEW d \in ChunkRecords, Leaves(t, c, d) PROVE Contract!CellNext
    BY <2>4, LeaveCells DEF Contract!CellNext
  <2>5. ASSUME NEW c \in Chunks, NEW d \in ChunkRecords, pc[t] = "commit", Swaps(t, c, d)
        PROVE  Contract!CellNext
    BY <2>5, SwapCells DEF Contract!CellNext
  <2>6. CASE WriteBytes(t) \/ CloseUnwritten(t)
    <3>1. pc[t] = "leased" /\ loc[t].access = "read_write"
      BY <2>6 DEF WriteBytes, CloseUnwritten
    <3>2. PICK next : BackendWrite(t, next)
      BY <2>6 DEF WriteBytes, CloseUnwritten
    <3>3. QED
      BY <3>1, <3>2, WriteCells DEF Contract!CellNext
  <2>7. CASE WriteDone(t)
    BY <2>7, RecordCells DEF Contract!CellNext
  <2>8. CASE CloseRead(t)
    BY <2>8, ReadCells DEF Contract!CellNext
  <2>9. QED
    BY <2>1, <2>2, <2>3, <2>4, <2>5, <2>6, <2>7, <2>8
<1>3. QED
  BY <1>1, <1>2

\* Transaction implements the contract of a chunk: whatever fails in the steps of a migration,
\* to the users of the buffer it is one step between two forms that keeps the bytes, on a
\* chunk nobody holds; leases are given on good bytes only, and torn bytes end with the chunk.
THEOREM MigrationsKeepContract == Spec => ImplementsChunk
BY InitCells, StepCells, TransactionInvariance, PTL DEF Spec, ImplementsChunk, Contract!CellSpec

(***************************************************************************)
(* Action properties                                                       *)
(***************************************************************************)

\* What a step may do to a chunk that is pinned or poisoned.
Respected(c) ==
  /\ chunk[c].readers # 0 \/ chunk[c].writer \/ chunk[c].lifecycle = "poisoned" =>
       chunk'[c].auth.resource = chunk[c].auth.resource
  /\ chunk[c].readers # 0 =>
       /\ chunk'[c].auth.content = chunk[c].auth.content
       /\ store'[chunk[c].auth.resource] = store[chunk[c].auth.resource]
  /\ chunk[c].lifecycle = "poisoned" =>
       /\ chunk'[c].txn \in {None, chunk[c].txn}
       /\ chunk'[c].readers <= chunk[c].readers
       /\ chunk'[c].writer => chunk[c].writer

\* A step that replaces one chunk and no bytes respects the others.
LEMMA OneReplaced ==
  ASSUME TransactionInv, NEW c \in Chunks, NEW d, chunk' = [chunk EXCEPT ![c] = d], store' = store
  PROVE  chunk'[c] = d /\ \A e \in Chunks \ {c} : Respected(e)
<1>1. chunk'[c] = d /\ \A e \in Chunks \ {c} : chunk'[e] = chunk[e] /\ chunk[e].readers \in Nat
  BY DEF TransactionInv, Typed, ChunkRecords
<1>2. QED
  BY <1>1 DEF Respected

LEMMA StepRespects ==
  ASSUME TransactionInv, Next, NEW e \in Chunks
  PROVE  Respected(e)
<1>1. PICK t \in Threads :
        \/ Steady(t)
        \/ \E c \in Chunks, d \in ChunkRecords :
             Pins(t, c, d) \/ Leaves(t, c, d) \/ (pc[t] = "commit" /\ Swaps(t, c, d))
        \/ WriteBytes(t) \/ CloseUnwritten(t) \/ WriteDone(t) \/ CloseRead(t)
  BY StepCases
<1>2. chunk[e] \in ChunkRecords /\ chunk[e].readers \in Nat /\ ChunkLocked(e)
  BY DEF TransactionInv, Typed, Locked, ChunkRecords
<1>3. CASE Steady(t)
  BY <1>2, <1>3 DEF Steady, Respected
<1>4. ASSUME NEW c \in Chunks, NEW d \in ChunkRecords, Pins(t, c, d) PROVE Respected(e)
  <2>1. /\ chunk' = [chunk EXCEPT ![c] = d] /\ store' = store /\ d.auth = chunk[c].auth
        /\ chunk[c].lifecycle = "live"
    BY <1>4 DEF Pins
  <2>2. QED
    <3>1. CASE e = c
      BY <1>2, <2>1, <3>1, OneReplaced DEF Respected
    <3>2. CASE e # c
      BY <2>1, <3>2, OneReplaced
    <3>3. QED
      BY <3>1, <3>2
<1>5. ASSUME NEW c \in Chunks, NEW d \in ChunkRecords, Leaves(t, c, d) PROVE Respected(e)
  <2>1. /\ chunk' = [chunk EXCEPT ![c] = d] /\ store' = store /\ d.readers = chunk[c].readers
        /\ d.auth.resource = chunk[c].auth.resource /\ ~d.writer /\ d.txn = chunk[c].txn
        /\ c = loc[t].chunk /\ pc[t] \in Holding /\ loc[t].access = "read_write"
    BY <1>5 DEF Leaves
  <2>2. chunk[c].readers = 0
    BY <2>1, WriterFacts DEF OwnChunk
  <2>3. QED
    <3>1. CASE e = c
      BY <1>2, <2>1, <2>2, <3>1, OneReplaced DEF Respected
    <3>2. CASE e # c
      BY <2>1, <2>2, <3>2, OneReplaced
    <3>3. QED
      BY <3>1, <3>2
<1>6. ASSUME NEW c \in Chunks, NEW d \in ChunkRecords, Swaps(t, c, d) PROVE Respected(e)
  <2>1. /\ chunk' = [chunk EXCEPT ![c] = d] /\ store' = store /\ chunk[c].txn = t
        /\ chunk[c].lifecycle = "live"
    BY <1>6 DEF Swaps
  <2>2. t # None
    BY TransactionAssumption DEF TransactionAssumption
  <2>3. chunk[c].readers = 0 /\ ~chunk[c].writer
    BY <2>1, <2>2 DEF TransactionInv, Locked, ChunkLocked
  <2>4. QED
    <3>1. CASE e = c
      BY <1>2, <2>1, <2>3, <3>1, OneReplaced DEF Respected
    <3>2. CASE e # c
      BY <2>1, <2>3, <3>2, OneReplaced
    <3>3. QED
      BY <3>1, <3>2
<1>7. CASE WriteBytes(t) \/ CloseUnwritten(t)
  <2>1. pc[t] = "leased" /\ loc[t].access = "read_write" /\ pc[t] \in Holding /\ pc[t] \in Leasing
    BY <1>7 DEF WriteBytes, CloseUnwritten, Holding, Leasing
  <2>2. PICK next : BackendWrite(t, next)
    BY <1>7 DEF WriteBytes, CloseUnwritten
  <2>3. PICK c \in Chunks : c = loc[t].chunk
    BY <2>1, HoldingFacts
  <2>4. chunk' = chunk
    BY <2>2 DEF BackendWrite
  <2>5. CASE e = c
    <3>1. chunk[c].readers = 0
      BY <2>1, <2>3, WriterFacts DEF OwnChunk
    <3>2. QED
      BY <1>2, <2>4, <2>5, <3>1 DEF Respected
  <2>6. CASE e # c
    <3>1. chunk[e].auth.resource # chunk[c].auth.resource
      BY <2>6 DEF TransactionInv, Claimed
    <3>2. \/ store' = store
          \/ \E w : store' = [store EXCEPT ![chunk[c].auth.resource].content = w]
      BY <2>2, <2>3 DEF BackendWrite
    <3>3. chunk[e].auth.resource \in Resources
      BY <1>2 DEF ChunkRecords, Authorities
    <3>4. store'[chunk[e].auth.resource] = store[chunk[e].auth.resource]
      BY <3>1, <3>2, <3>3 DEF TransactionInv, Typed
    <3>5. QED
      BY <1>2, <2>4, <3>4 DEF Respected
  <2>7. QED
    BY <2>5, <2>6
<1>8. CASE WriteDone(t)
  <2>1. /\ pc[t] \in Writing /\ pc[t] \in Holding /\ pc[t] \in Leasing /\ store' = store
        /\ loc[t].access = "read_write"
    BY <1>8 DEF WriteDone, Writing, Leasing, Holding, TransactionInv, Threaded, ThreadInv, PlacedAt
  <2>2. PICK c \in Chunks : c = loc[t].chunk
    BY <2>1, HoldingFacts
  <2> DEFINE d == RecordWrite(chunk[c], t)
  <2>3. /\ d.txn = chunk[c].txn /\ d.readers = chunk[c].readers /\ d.writer = chunk[c].writer
        /\ d.auth.resource = chunk[c].auth.resource
        /\ StillPinned(chunk[c], t) /\ chunk[c].auth.content = loc[t].src.content
    BY <2>1, <2>2, RecordFacts
  <2>4. chunk' = [chunk EXCEPT ![c] = d]
    BY <1>8, <2>2, <2>3 DEF WriteDone
  <2>5. chunk[c].readers = 0
    BY <2>1, <2>2, WriterFacts DEF OwnChunk
  <2>6. QED
    <3>1. CASE e = c
      BY <1>2, <2>1, <2>3, <2>4, <2>5, <3>1, OneReplaced DEF Respected
    <3>2. CASE e # c
      BY <2>1, <2>3, <2>4, <2>5, <3>2, OneReplaced
    <3>3. QED
      BY <3>1, <3>2
<1>9. CASE CloseRead(t)
  <2>1. pc[t] \in Leasing /\ store' = store
    BY <1>9 DEF CloseRead, Holding, Leasing
  <2>2. PICK c \in Chunks : c = loc[t].chunk
    BY <2>1, HoldingFacts
  <2>3. PICK ch, n, d : ch = chunk[c] /\ n = ch.readers - 1 /\ d = [ch EXCEPT !.readers = n]
    OBVIOUS
  <2>4. chunk' = [chunk EXCEPT ![c] = d] /\ ch \in ChunkRecords /\ ch.readers \in Nat
    BY <1>9, <2>2, <2>3 DEF CloseRead, TransactionInv, Typed, ChunkRecords
  <2>5. d.auth = ch.auth /\ d.txn = ch.txn /\ d.writer = ch.writer /\ d.readers <= ch.readers
    BY <2>3, <2>4 DEF ChunkRecords
  <2>6. QED
    <3>1. CASE e = c
      BY <1>2, <2>1, <2>3, <2>4, <2>5, <3>1, OneReplaced DEF Respected
    <3>2. CASE e # c
      BY <2>1, <2>3, <2>4, <2>5, <3>2, OneReplaced
    <3>3. QED
      BY <3>1, <3>2
<1>10. QED
  BY <1>1, <1>3, <1>4, <1>5, <1>6, <1>7, <1>8, <1>9

\* While a chunk is pinned its authority does not move, and while it has readers neither its
\* recorded content nor the bytes of its resource change.
THEOREM PinnedStaysPut == Spec => PinnedStable
<1>1. TransactionInv /\ [Next]_vars =>
        [\A c \in Chunks :
           /\ chunk[c].readers # 0 \/ chunk[c].writer =>
                chunk'[c].auth.resource = chunk[c].auth.resource
           /\ chunk[c].readers # 0 =>
                /\ chunk'[c].auth.content = chunk[c].auth.content
                /\ store'[chunk[c].auth.resource] = store[chunk[c].auth.resource]]_vars
  BY StepRespects DEF Respected
<1>2. QED
  BY <1>1, TransactionInvariance, PTL DEF Spec, PinnedStable

\* Poison is final for the data: the authority of a poisoned chunk never moves, no transition
\* starts on it, and no acquire that was under way when it was poisoned gets its lease.
THEOREM PoisonIsFinal == Spec => PoisonFreezes
<1>1. TransactionInv /\ [Next]_vars =>
        [\A c \in Chunks : chunk[c].lifecycle = "poisoned" =>
           /\ chunk'[c].auth.resource = chunk[c].auth.resource
           /\ chunk'[c].txn \in {None, chunk[c].txn}
           /\ chunk'[c].readers <= chunk[c].readers
           /\ chunk'[c].writer => chunk[c].writer]_vars
  BY StepRespects DEF Respected
<1>2. QED
  BY <1>1, TransactionInvariance, PTL DEF Spec, PoisonFreezes

\* A proposal decided before an access never starts a transition after it: a policy migration
\* takes a chunk only at the revision its proposal saw, and never one that an acquire awaits.
THEOREM StaleProposalsRejected == Spec => StaleProposalRejected
<1>1. ASSUME TransactionInv, Next, NEW t \in Threads,
             pc[t] = "begin", pc'[t] = "project", ~loc[t].acquire
      PROVE  /\ chunk[loc[t].chunk].revision = loc[t].expected.revision
             /\ chunk[loc[t].chunk].intents = 0
  <2>1. PICK u \in Threads :
          /\ pc[u] = "begin" => Begin(u)
          /\ \/ Steady(u)
             \/ \E c \in Chunks, d \in ChunkRecords :
                  Pins(u, c, d) \/ Leaves(u, c, d) \/ (pc[u] = "commit" /\ Swaps(u, c, d))
             \/ WriteBytes(u) \/ CloseUnwritten(u) \/ WriteDone(u) \/ CloseRead(u)
    BY <1>1, StepCases
  <2>2. u = t
    <3> SUFFICES ASSUME u # t PROVE pc'[t] = pc[t]
      BY <1>1
    <3>1. CASE Steady(u)
      BY <3>1 DEF Steady, Others
    <3>2. ASSUME NEW p, NEW l, Goto(u, p, l) PROVE pc'[t] = pc[t]
      BY <1>1, <3>2 DEF Goto, TransactionInv, Typed
    <3>3. ASSUME NEW c \in Chunks, NEW d \in ChunkRecords,
                 Pins(u, c, d) \/ Leaves(u, c, d) \/ Swaps(u, c, d)
          PROVE  pc'[t] = pc[t]
      BY <3>2, <3>3 DEF Pins, Leaves, Swaps
    <3>4. CASE WriteBytes(u) \/ CloseUnwritten(u)
      <4>1. PICK next : BackendWrite(u, next)
        BY <3>4 DEF WriteBytes, CloseUnwritten
      <4>2. QED
        BY <3>2, <4>1 DEF BackendWrite
    <3>5. CASE WriteDone(u)
      BY <3>2, <3>5 DEF WriteDone, Terminate
    <3>6. CASE CloseRead(u)
      BY <3>2, <3>6 DEF CloseRead
    <3>7. QED
      BY <2>1, <3>1, <3>3, <3>4, <3>5, <3>6
  <2>3. Begin(t)
    BY <1>1, <2>1, <2>2
  <2>4. PlacedAt(pc[t], loc[t])
    BY <1>1 DEF TransactionInv, Threaded, ThreadInv
  <2>5. loc[t].expected \in Expectations /\ loc[t].expected # None /\ loc[t].chunk \in Chunks
    BY <1>1, <2>4, TransactionAssumption DEF PlacedAt, TransactionAssumption
  <2>6. ~Refused(t)
    <3>1. SUFFICES ASSUME Refused(t) PROVE pc'[t] # "project"
      BY <1>1
    <3>2. Return(t, FALSE)
      BY <2>3, <3>1 DEF Begin
    <3>3. QED
      BY <1>1, <3>2 DEF Return, Goto, TransactionInv, Typed
  <2>7. QED
    BY <1>1, <2>5, <2>6 DEF Refused
<1>2. TransactionInv /\ [Next]_vars =>
        [\A t \in Threads : pc[t] = "begin" /\ pc'[t] = "project" /\ ~loc[t].acquire =>
           chunk[loc[t].chunk].revision = loc[t].expected.revision
             /\ chunk[loc[t].chunk].intents = 0]_vars
  BY <1>1
<1>3. QED
  BY <1>2, TransactionInvariance, PTL DEF Spec, StaleProposalRejected
=============================================================================
