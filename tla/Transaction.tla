---------------------------- MODULE Transaction ----------------------------
(***************************************************************************)
(* TransactionCoordinator::migrate (src/core/transaction.cpp) and the      *)
(* leases it contends with (Buffer::acquire, Lease::write, Lease::close in *)
(* src/core/runtime.cpp), run by several threads over shared chunks, one   *)
(* budget ledger and one storage backend.                                  *)
(*                                                                         *)
(* A chunk's bytes live in one backend resource, its authority.  migrate   *)
(* moves them to a new representation: it locks the chunk logically        *)
(* (transition_active_), reserves the worst-case charge, allocates the     *)
(* destination, a workspace and a compaction target, transfers, verifies,  *)
(* and then commits by swinging the authority.  Every backend call can     *)
(* fail, and a failed release leaves the resource to the chunk's cleanup   *)
(* list and its charge to the ledger's cleanup debt.                       *)
(*                                                                         *)
(* An action is one critical section of the code (a chunk's mutex, the     *)
(* ledger's mutex or the backend's).  Sections that follow each other in   *)
(* one thread are merged where the later one only gives back an            *)
(* unmaterialized reservation or only reads.                               *)
(***************************************************************************)
EXTENDS BudgetLedgerOps, FiniteSets, Functions

CONSTANTS
  Threads,         \* callers of the runtime
  Chunks,
  Resources,       \* backend resource ids, see NextId
  InitialState,    \* how the chunks are represented at the start, and at what charge
  InitialCharge,
  Targets,         \* the RepresentationStates migrations go to
  AllocationBound, \* [States -> Word]: StorageBackend::allocation_bound of a chunk
  AllocationCharges, \* [States -> SUBSET Word]: what the allocation may really be charged
  WorkspaceBound,  \* StorageBackend::workspace_bound of a transforming transition
  CompactionBound, \* [States -> Word]: StorageBackend::compaction_bound, 0 = none needed
  ShrunkCharges,   \* charges a compressed destination may end up with
  Limits,          \* values of MigrationConstraints::maximum_destination_charge
  Faults,          \* the kinds of backend failure that may happen, see Fault below
  Gated,           \* BOOLEAN: migrations take RuntimeState::allocation_mutex (policy enabled)
  MaxGeneration,   \* bound: writes to a chunk's content
  MaxRevision,     \* bound: acquisitions of a chunk
  None             \* no thread, no resource, no constraint

VARIABLES
  ledger, \* BudgetLedger
  store,  \* the backend: the resources it owns
  chunk,  \* detail::Chunk
  pc,     \* where each thread is
  loc     \* the locals of each thread's migrate or lease

vars == <<ledger, store, chunk, pc, loc>>

States == {"gpu_raw", "gpu_compressed", "host_raw", "host_compressed"}
Lifecycles == {"live", "closing", "poisoned", "dead"}

TierOf(s) == IF s \in {"gpu_raw", "gpu_compressed"} THEN "gpu" ELSE "host"
IsRaw(s) == s \in {"gpu_raw", "host_raw"}

\* A generation of a chunk's content, or what an unwritten or corrupted resource holds.
Garbage == -1
Contents == 0 .. MaxGeneration

Fault(kind) == kind \in Faults

(***************************************************************************)
(* The records.  Accesses is AccessMode, Authorities are                   *)
(* AuthoritativeRepresentation, Descriptors what the backend knows of a    *)
(* resource, Expectations the source and revision of MigrationConstraints. *)
(***************************************************************************)
Accesses == {"read_only", "read_write"}
Authorities == [state : States, resource : Resources, charge : Word, content : Contents]
Descriptors == [tier : Tiers, charge : Word, content : Contents \cup {Garbage}]
Expectations == [resource : Resources, content : Contents, revision : Nat]
Allocations == [id : Resources \cup {None}, charge : Word]
CleanupResources == [id : Resources \cup {None}, tier : Tiers, charge : Word]

\* The backend's charges are words, the chunks fit where they start, only a compressed
\* destination is compacted (migrate aborts otherwise), and None is nothing else.
ASSUME TransactionAssumption ==
  /\ IsFiniteSet(Threads)
  /\ None \notin Threads \cup Resources \cup Word
  /\ None \notin Authorities /\ None \notin Descriptors /\ None \notin Expectations
  /\ \E h \in [Chunks -> Resources] : \A c, d \in Chunks : c # d => h[c] # h[d]
  /\ InitialState \in States /\ InitialCharge \in Word
  /\ Cardinality(Chunks) * InitialCharge \in 0 .. HardLimit[TierOf(InitialState)]
  /\ Targets \subseteq States /\ Limits \subseteq Word \cup {None} /\ Gated \in BOOLEAN
  /\ AllocationBound \in [States -> Word] /\ CompactionBound \in [States -> Word]
  /\ \A s \in States : /\ AllocationCharges[s] \subseteq Word
                       /\ IsRaw(s) => CompactionBound[s] = 0
  /\ WorkspaceBound \in Word /\ ShrunkCharges \subseteq Word
  /\ MaxGeneration \in Nat /\ MaxRevision \in Nat

(***************************************************************************)
(* Values                                                                  *)
(***************************************************************************)
NoAlloc == [id |-> None, charge |-> 0]

IdleLocals ==
  [chunk |-> None, gated |-> FALSE, dest |-> "gpu_raw", acquire |-> FALSE, access |-> "none",
   expected |-> None, limit |-> None, src |-> None, dst |-> NoAlloc, ws |-> NoAlloc,
   comp |-> NoAlloc, toks |-> [i \in 1 .. 3 |-> InactiveToken], todo |-> <<>>,
   ending |-> "clear", released |-> "ok", initial |-> Garbage]

\* The resources a thread's locals name.
Named(l) ==
  {l.dst.id, l.ws.id, l.comp.id} \cup {l.todo[i].id : i \in 1 .. Len(l.todo)}
    \cup (IF l.src = None THEN {} ELSE {l.src.resource})

\* The backend numbers its resources and never uses a number again.  Here an id may be
\* used again, but only once nothing in the system names it.
Fresh ==
  {r \in Resources :
     /\ store[r] = None
     /\ \A c \in Chunks : /\ chunk[c].auth.resource # r
                          /\ \A i \in 1 .. Len(chunk[c].cleanup) : chunk[c].cleanup[i].id # r
     /\ \A t \in Threads : r \notin Named(loc[t])}

\* Which of them comes next makes no difference; there is none when Resources are used up.
NextId == {r \in Fresh : r = CHOOSE q \in Fresh : TRUE}

\* Charge currently owned by the backend in a tier.
OwnedIn(tier) == {r \in Resources : store[r] # None /\ store[r].tier = tier}

(***************************************************************************)
(* Chunk updates made under the chunk's mutex.                             *)
(***************************************************************************)
Busy(c) == chunk[c].txn # None \/ chunk[c].readers # 0 \/ chunk[c].writer

ClearTransition(ch, t) == [ch EXCEPT !.txn = IF @ = t THEN None ELSE @]

Poison(ch, t) == [ClearTransition(ch, t) EXCEPT !.lifecycle = "poisoned"]

CleanupSlots == 4

\* Mutant: a second cleanup resource takes the place of the first.
RememberCleanup_Overwrites(ch, t, res) == [ch EXCEPT !.cleanup = <<res>>]

\* remember_cleanup: a full list poisons the chunk and drops the resource.
RememberCleanup(ch, t, res) ==
  IF Len(ch.cleanup) >= CleanupSlots THEN Poison(ch, t)
  ELSE [ch EXCEPT !.cleanup = Append(@, res)]

\* forget_cleanup: the last entry takes the place of the forgotten one.
ForgetCleanup(ch, id) ==
  LET n == Len(ch.cleanup)
      hit == {i \in 1 .. n : ch.cleanup[i].id = id}
  IN IF hit = {} THEN ch
     ELSE LET i == CHOOSE i \in hit : \A j \in hit : i <= j
          IN [ch EXCEPT !.cleanup =
                [j \in 1 .. n - 1 |-> IF j = i THEN ch.cleanup[n] ELSE ch.cleanup[j]]]

(***************************************************************************)
(* Thread bookkeeping                                                      *)
(***************************************************************************)
Goto(t, p, l) ==
  /\ pc' = [pc EXCEPT ![t] = p]
  /\ loc' = [loc EXCEPT ![t] = l]

\* migrate returns: to the acquire that called it, or to the policy.
Return(t, ok) ==
  IF loc[t].acquire
  THEN Goto(t, IF ok THEN "pin" ELSE "drop_intent",
            [IdleLocals EXCEPT !.chunk = loc[t].chunk, !.access = loc[t].access,
                               !.acquire = TRUE])
  ELSE Goto(t, "idle", IdleLocals)

\* What is left of a thread's reservations goes back to the ledger.  migrate ignores a
\* refusal, but CompactionReservation, the guard of the third token, terminates on one.
DropToken(led, tok) == IF ReleaseReservationOk(led, tok) THEN ReleaseReservation(led, tok) ELSE led

DropTokens(led, toks) == DropToken(DropToken(DropToken(led, toks[1]), toks[2]), toks[3])

Refuses(led, tok) == tok.active /\ ~ReleaseReservationOk(led, tok)

Item(a, bucket, poison) == [id |-> a.id, charge |-> a.charge, bucket |-> bucket, poison |-> poison]

\* The rollback of whatever workspace there is and of the destination.
WorkspaceItem(t) ==
  IF loc[t].ws = NoAlloc THEN <<>> ELSE <<Item(loc[t].ws, "workspace", FALSE)>>

RollBack(t, items, ending) ==
  Goto(t, "rollback", [loc[t] EXCEPT !.todo = items, !.ending = ending])

Terminate(t) == Goto(t, "terminated", loc[t])

\* The resources the chunks were first allocated in.
Home == CHOOSE h \in [Chunks -> Resources] : \A c, d \in Chunks : c # d => h[c] # h[d]

Init ==
  /\ store = [r \in Resources |->
       IF \E c \in Chunks : Home[c] = r
       THEN [tier |-> TierOf(InitialState), charge |-> InitialCharge, content |-> 0]
       ELSE None]
  /\ chunk = [c \in Chunks |->
       [lifecycle |-> "live",
        auth |-> [state |-> InitialState, resource |-> Home[c], charge |-> InitialCharge,
                  content |-> 0],
        txn |-> None, readers |-> 0, writer |-> FALSE, intents |-> 0, write_intent |-> FALSE,
        revision |-> 0, cleanup |-> <<>>, retired |-> FALSE]]
  /\ LET bytes == Cardinality(Chunks) * InitialCharge
     IN ledger = [tier \in Tiers |->
          IF tier = TierOf(InitialState)
          THEN [EmptyCounters EXCEPT !.committed = bytes, !.peak_charged = bytes]
          ELSE EmptyCounters]
  /\ pc = [t \in Threads |-> "idle"]
  /\ loc = [t \in Threads |-> IdleLocals]

(***************************************************************************)
(* migrate, up to the reservation                                          *)
(***************************************************************************)

\* allocation_mutex, held from the decision to migrate until migrate returns.
GateFree == Gated => \A t \in Threads : ~loc[t].gated

\* The policy decides on a snapshot of the chunk; the constraints carry it to migrate.
Propose(t, c, d, lim) ==
  /\ pc[t] = "idle"
  /\ GateFree
  /\ Goto(t, "begin",
          [IdleLocals EXCEPT !.chunk = c, !.gated = Gated, !.dest = d, !.limit = lim,
             !.expected = [resource |-> chunk[c].auth.resource,
                           content |-> chunk[c].auth.content,
                           revision |-> chunk[c].revision]])
  /\ UNCHANGED <<ledger, store, chunk>>

\* Mutant: a pinned chunk is not busy.
Refused_IgnoresPins(t) ==
  LET ch == chunk[loc[t].chunk]
      e == loc[t].expected
  IN \/ ch.lifecycle # "live"
     \/ e # None /\ ch.revision # e.revision
     \/ ch.txn # None \/ ch.cleanup # <<>>
     \/ ch.intents # 0 /\ (~loc[t].acquire \/ loc[t].dest # "gpu_raw")

\* Mutant: the access revision of the proposal is not compared.
Refused_IgnoresRevision(t) ==
  LET ch == chunk[loc[t].chunk]
      e == loc[t].expected
  IN \/ ch.lifecycle # "live"
     \/ e # None /\ (ch.auth.resource # e.resource \/ ch.auth.content # e.content)
     \/ Busy(loc[t].chunk) \/ ch.cleanup # <<>>
     \/ ch.intents # 0 /\ (~loc[t].acquire \/ loc[t].dest # "gpu_raw")

\* The early returns of migrate under the chunk's mutex.
Refused(t) ==
  LET ch == chunk[loc[t].chunk]
      e == loc[t].expected
  IN \/ ch.lifecycle # "live"
     \/ e # None /\ (\/ ch.auth.resource # e.resource
                     \/ ch.auth.content # e.content
                     \/ ch.revision # e.revision)
     \/ Busy(loc[t].chunk)
     \/ ch.cleanup # <<>>
     \/ ch.intents # 0 /\ (~loc[t].acquire \/ loc[t].dest # "gpu_raw")

Begin(t) ==
  LET c == loc[t].chunk
  IN /\ pc[t] = "begin"
     /\ IF Refused(t)
        THEN Return(t, FALSE) /\ UNCHANGED chunk
        ELSE IF chunk[c].auth.state = loc[t].dest
             THEN Return(t, TRUE) /\ UNCHANGED chunk
             ELSE /\ Goto(t, "project", [loc[t] EXCEPT !.src = chunk[c].auth])
                  /\ chunk' = [chunk EXCEPT ![c].txn = t]
     /\ UNCHANGED <<ledger, store>>

DestTier(t) == TierOf(loc[t].dest)
SrcTier(t) == TierOf(loc[t].src.state)
NeedsWorkspace(t) == ~IsRaw(loc[t].src.state) \/ ~IsRaw(loc[t].dest)
NeedsCompaction(t) == CompactionBound[loc[t].dest] # 0

CommittedBound(t) ==
  IF loc[t].limit # None /\ loc[t].limit < AllocationBound[loc[t].dest]
  THEN loc[t].limit ELSE AllocationBound[loc[t].dest]

\* The source descriptor is checked against the chunk, then the projected ledger.
Project(t) ==
  LET c == loc[t].chunk
      a == store[loc[t].src.resource]
      valid == a # None /\ a.tier = SrcTier(t) /\ a.charge = loc[t].src.charge
  IN /\ pc[t] = "project"
     /\ \/ /\ ~valid \/ Fault("descriptor")
           /\ chunk' = [chunk EXCEPT ![c] = Poison(@, t)]
           /\ Return(t, FALSE)
        \/ /\ valid
           /\ ~ProjectionOk(ledger, DestTier(t), CommittedBound(t), SrcTier(t), loc[t].src.charge)
                \/ Fault("bound")
           /\ chunk' = [chunk EXCEPT ![c] = ClearTransition(@, t)]
           /\ Return(t, FALSE)
        \/ /\ valid
           /\ ProjectionOk(ledger, DestTier(t), CommittedBound(t), SrcTier(t), loc[t].src.charge)
           /\ Goto(t, "reserve", loc[t])
           /\ UNCHANGED chunk
     /\ UNCHANGED <<ledger, store>>

Temporary(tier, bucket, amount) ==
  [tier |-> tier, bucket |-> bucket, amount |-> amount, admission |-> "migration_temporary"]

\* Mutant: the destination is reserved in the workspace bucket.
Requests_WrongBucket(t) ==
  <<Temporary(DestTier(t), "workspace", AllocationBound[loc[t].dest])>>
    \o (IF NeedsWorkspace(t) THEN <<Temporary(DestTier(t), "workspace", WorkspaceBound)>> ELSE <<>>)
    \o (IF NeedsCompaction(t)
        THEN <<Temporary(DestTier(t), "workspace", CompactionBound[loc[t].dest])>> ELSE <<>>)

Requests(t) ==
  <<Temporary(DestTier(t), "staging", AllocationBound[loc[t].dest])>>
    \o (IF NeedsWorkspace(t) THEN <<Temporary(DestTier(t), "workspace", WorkspaceBound)>> ELSE <<>>)
    \o (IF NeedsCompaction(t)
        THEN <<Temporary(DestTier(t), "workspace", CompactionBound[loc[t].dest])>> ELSE <<>>)

ReserveAll(t) ==
  LET c == loc[t].chunk
      reqs == Requests(t)
  IN /\ pc[t] = "reserve"
     /\ IF ReserveOk(ledger, reqs)
        THEN /\ ledger' = Reserve(ledger, reqs)
             /\ Goto(t, "alloc_dst", [loc[t] EXCEPT !.toks =
                  [i \in 1 .. 3 |-> IF i <= Len(reqs) THEN TokenFor(reqs[i]) ELSE InactiveToken]])
             /\ UNCHANGED chunk
        ELSE /\ chunk' = [chunk EXCEPT ![c] = ClearTransition(@, t)]
             /\ Return(t, FALSE)
             /\ UNCHANGED ledger
     /\ UNCHANGED store

(***************************************************************************)
(* Allocation and materialization of destination and workspace             *)
(***************************************************************************)

\* migrate's failure exit: reservations go back, the chunk is released or poisoned.
Finish(t) ==
  LET c == loc[t].chunk
  IN /\ pc[t] = "rollback" /\ loc[t].todo = <<>>
     /\ ledger' = DropTokens(ledger, loc[t].toks)
     /\ IF Refuses(DropToken(DropToken(ledger, loc[t].toks[1]), loc[t].toks[2]), loc[t].toks[3])
        THEN Terminate(t) /\ UNCHANGED chunk
        ELSE /\ chunk' = [chunk EXCEPT ![c] = IF loc[t].ending = "poison"
                                              THEN Poison(@, t) ELSE ClearTransition(@, t)]
             /\ Return(t, FALSE)
     /\ UNCHANGED store

Allocated(tier, charge) == [tier |-> tier, charge |-> charge, content |-> Garbage]

AllocateDestination(t) ==
  /\ pc[t] = "alloc_dst"
  /\ \/ \E r \in NextId, n \in AllocationCharges[loc[t].dest] :
          /\ store' = [store EXCEPT ![r] = Allocated(DestTier(t), n)]
          /\ Goto(t, "mat_dst", [loc[t] EXCEPT !.dst = [id |-> r, charge |-> n]])
     \/ /\ Fault("allocate")
        /\ RollBack(t, <<>>, "clear")
        /\ UNCHANGED store
  /\ UNCHANGED <<ledger, chunk>>

\* materialize of token i for allocation a.  On success the token's remainder is given
\* back.  A refusal (the one materialize_failure_countdown_ injects: the charge never
\* exceeds the token) makes the allocation contract debt of the chunk.
MaterializeToken(t, i, a, onOk, onFail) ==
  LET c == loc[t].chunk
      tok == loc[t].toks[i]
      done == [loc[t] EXCEPT !.toks[i] = InactiveToken]
      led == Materialize(ledger, tok, a.charge)
      rest == MaterializedToken(tok, a.charge)
  IN \/ /\ MaterializeOk(ledger, tok, a.charge)
        /\ ledger' = DropToken(led, rest)
        /\ IF i = 3 /\ Refuses(led, rest) THEN Terminate(t) ELSE Goto(t, onOk, done)
        /\ UNCHANGED chunk
     \/ /\ ~MaterializeOk(ledger, tok, a.charge) \/ Fault("materialize")
        /\ IF RecordContractDebtOk(ledger, tok, a.charge) /\ Len(chunk[c].cleanup) < CleanupSlots
           THEN /\ ledger' = RecordContractDebt(ledger, tok, a.charge)
                /\ chunk' = [chunk EXCEPT ![c] =
                     RememberCleanup(@, t, [id |-> a.id, tier |-> DestTier(t), charge |-> a.charge])]
                /\ Goto(t, "rollback", [done EXCEPT !.todo = onFail, !.ending = "poison"])
           ELSE Terminate(t) /\ UNCHANGED <<ledger, chunk>>

MaterializeDestination(t) ==
  /\ pc[t] = "mat_dst"
  /\ MaterializeToken(t, 1, loc[t].dst,
                      IF NeedsWorkspace(t) THEN "alloc_ws" ELSE "verify_src", <<>>)
  /\ UNCHANGED store

AllocateWorkspace(t) ==
  /\ pc[t] = "alloc_ws"
  /\ \/ \E r \in NextId :
          /\ store' = [store EXCEPT ![r] = Allocated(DestTier(t), WorkspaceBound)]
          /\ Goto(t, "mat_ws", [loc[t] EXCEPT !.ws = [id |-> r, charge |-> WorkspaceBound]])
          /\ UNCHANGED ledger
     \/ /\ Fault("allocate")
        /\ ledger' = DropToken(ledger, loc[t].toks[2])
        /\ Goto(t, "rollback", [loc[t] EXCEPT !.toks[2] = InactiveToken,
                                              !.todo = <<Item(loc[t].dst, "staging", FALSE)>>])
        /\ UNCHANGED store
  /\ UNCHANGED chunk

MaterializeWorkspace(t) ==
  /\ pc[t] = "mat_ws"
  /\ MaterializeToken(t, 2, loc[t].ws, "verify_src", <<Item(loc[t].dst, "staging", TRUE)>>)
  /\ UNCHANGED store

\* verify_authoritative: an integrity or contract error condemns the chunk.
VerifyAuthoritative(t) ==
  LET items == WorkspaceItem(t) \o <<Item(loc[t].dst, "staging", FALSE)>>
      intact == store[loc[t].src.resource] # None
                /\ store[loc[t].src.resource].content = loc[t].src.content
  IN /\ pc[t] = "verify_src"
     /\ \/ intact /\ Goto(t, "prepare", loc[t])
        \/ (~intact \/ Fault("contract")) /\ RollBack(t, items, "poison")
        \/ Fault("verify") /\ RollBack(t, items, "clear")
     /\ UNCHANGED <<ledger, store, chunk>>

(***************************************************************************)
(* Compaction target, transfer and reconciliation                          *)
(***************************************************************************)

\* prepare_transfer, and the allocation of a compaction target of the exact prepared size.
Prepare(t) ==
  LET items == WorkspaceItem(t) \o <<Item(loc[t].dst, "staging", FALSE)>>
      dropped == [loc[t] EXCEPT !.toks[3] = InactiveToken, !.todo = items]
  IN /\ pc[t] = "prepare"
     /\ \/ ~NeedsCompaction(t) /\ Goto(t, "transfer", loc[t]) /\ UNCHANGED <<ledger, store>>
        \/ /\ NeedsCompaction(t)
           /\ \E r \in NextId, n \in ShrunkCharges :
                /\ n <= CompactionBound[loc[t].dest] /\ n <= loc[t].dst.charge
                /\ store' = [store EXCEPT ![r] = Allocated(DestTier(t), n)]
                /\ Goto(t, "mat_comp", [loc[t] EXCEPT !.comp = [id |-> r, charge |-> n]])
           /\ UNCHANGED ledger
        \/ /\ Fault("prepare")
           /\ ledger' = DropToken(ledger, loc[t].toks[3])
           /\ IF Refuses(ledger, loc[t].toks[3]) THEN Terminate(t) ELSE Goto(t, "rollback", dropped)
           /\ UNCHANGED store
     /\ UNCHANGED chunk

MaterializeCompaction(t) ==
  /\ pc[t] = "mat_comp"
  /\ MaterializeToken(t, 3, loc[t].comp, "transfer",
                      <<Item(loc[t].ws, "workspace", FALSE), Item(loc[t].dst, "staging", TRUE)>>)
  /\ UNCHANGED store

\* transfer: the bytes arrive in the destination, whose charge shrinks or, with a
\* compaction target, is exchanged with the target's.  A failure leaves the charges alone.
Transfer(t) ==
  LET d == loc[t].dst
      k == loc[t].comp
      bytes == store[loc[t].src.resource].content
      compact == IF NeedsCompaction(t) THEN <<Item(k, "workspace", FALSE)>> ELSE <<>>
      items(poison) == compact \o WorkspaceItem(t) \o <<Item(d, "staging", poison)>>
  IN /\ pc[t] = "transfer"
     /\ \/ \E arrived \in {bytes} \cup (IF Fault("corrupt") THEN {Garbage} ELSE {}),
              n \in IF NeedsCompaction(t) THEN {k.charge}
                    ELSE {d.charge} \cup (IF IsRaw(loc[t].dest) THEN {}
                                          ELSE {m \in ShrunkCharges : m <= d.charge}) :
             /\ store' = [r \in Resources |->
                  IF r = d.id THEN [store[r] EXCEPT !.content = arrived, !.charge = n]
                  ELSE IF r = k.id THEN [store[r] EXCEPT !.charge = d.charge]
                  ELSE store[r]]
             /\ Goto(t, "reconcile", loc[t])
        \/ Fault("transfer") /\ RollBack(t, items(FALSE), "clear") /\ UNCHANGED store
        \/ Fault("ambiguous") /\ RollBack(t, items(TRUE), "poison") /\ UNCHANGED store
     /\ UNCHANGED <<ledger, chunk>>

\* The ledger follows the receipt: exchange_compaction or shrink_materialized.
Reconcile(t) ==
  LET d == loc[t].dst
      n == store[d.id].charge
      tier == DestTier(t)
      ok == IF NeedsCompaction(t) THEN ExchangeCompactionOk(ledger, tier, d.charge, n)
            ELSE ShrinkMaterializedOk(ledger, tier, "staging", d.charge, n)
  IN /\ pc[t] = "reconcile"
     /\ IF ok
        THEN /\ ledger' = IF NeedsCompaction(t) THEN ExchangeCompaction(ledger, tier, d.charge, n)
                          ELSE ShrinkMaterialized(ledger, tier, "staging", d.charge, n)
             /\ Goto(t, IF NeedsCompaction(t) THEN "rel_comp" ELSE "verify",
                     [loc[t] EXCEPT !.dst.charge = n, !.comp.charge = IF NeedsCompaction(t)
                                                                       THEN d.charge ELSE @])
        ELSE Terminate(t) /\ UNCHANGED ledger
     /\ UNCHANGED <<store, chunk>>

(***************************************************************************)
(* Releases.  The backend releases the resource, fails to, or reports a    *)
(* release that did not happen; the caller settles the ledger afterwards.  *)
(***************************************************************************)
Outcomes == {"ok"} \cup ({"fail", "lie"} \cap Faults)

ReleaseResource(t, id, next) ==
  \E o \in Outcomes :
    /\ store' = IF o = "ok" THEN [store EXCEPT ![id] = None] ELSE store
    /\ Goto(t, next, [loc[t] EXCEPT !.released = o])
    /\ UNCHANGED <<ledger, chunk>>

\* A resource that could not be released: its charge becomes cleanup debt of the chunk.
Debt(t, a) == [id |-> a.id, tier |-> DestTier(t), charge |-> a.charge]

ReleaseCompaction(t) == pc[t] = "rel_comp" /\ ReleaseResource(t, loc[t].comp.id, "settle_comp")

SettleCompaction(t) ==
  LET c == loc[t].chunk
      a == loc[t].comp
      lied == loc[t].released = "lie"
      tier == DestTier(t)
  IN /\ pc[t] = "settle_comp"
     /\ IF loc[t].released = "ok"
        THEN /\ IF ReleaseMaterializedOk(ledger, tier, "workspace", a.charge)
                THEN /\ ledger' = ReleaseMaterialized(ledger, tier, "workspace", a.charge)
                     /\ Goto(t, "verify", [loc[t] EXCEPT !.comp = NoAlloc])
                ELSE Terminate(t) /\ UNCHANGED ledger
             /\ UNCHANGED chunk
        ELSE IF MoveToDebtOk(ledger, tier, "workspace", a.charge)
                /\ Len(chunk[c].cleanup) < CleanupSlots
             THEN /\ ledger' = MoveToDebt(ledger, tier, "workspace", a.charge)
                  /\ chunk' = [chunk EXCEPT ![c] = RememberCleanup(@, t, Debt(t, a))]
                  /\ RollBack(t, <<Item(loc[t].ws, "workspace", FALSE),
                                   Item(loc[t].dst, "staging", lied)>>,
                              IF lied THEN "poison" ELSE "clear")
             ELSE Terminate(t) /\ UNCHANGED <<ledger, chunk>>
     /\ UNCHANGED store

\* Mutant: the transferred bytes are not verified.
VerifyTransfer_Trusting(t) ==
  /\ pc[t] = "verify"
  /\ Goto(t, IF loc[t].ws = NoAlloc THEN "commit" ELSE "rel_ws", loc[t])
  /\ UNCHANGED <<ledger, store, chunk>>

\* Receipt metadata, verify_transfer and the acceptance ceiling.  Bad metadata and
\* contract errors condemn the chunk; a destination that fails verification does not.
VerifyTransfer(t) ==
  LET items(poison) == WorkspaceItem(t) \o <<Item(loc[t].dst, "staging", poison)>>
      good == store[loc[t].dst.id].content = loc[t].src.content
      over == loc[t].limit # None /\ loc[t].dst.charge > loc[t].limit
  IN /\ pc[t] = "verify"
     /\ \/ good /\ ~over /\ Goto(t, IF loc[t].ws = NoAlloc THEN "commit" ELSE "rel_ws", loc[t])
        \/ good /\ over /\ RollBack(t, items(FALSE), "clear")
        \/ (~good \/ Fault("verify")) /\ RollBack(t, items(FALSE), "clear")
        \/ Fault("contract") /\ RollBack(t, items(FALSE), "poison")
        \/ Fault("metadata") /\ RollBack(t, items(TRUE), "poison")
     /\ UNCHANGED <<ledger, store, chunk>>

ReleaseWorkspace(t) == pc[t] = "rel_ws" /\ ReleaseResource(t, loc[t].ws.id, "settle_ws")

SettleWorkspace(t) ==
  LET c == loc[t].chunk
      a == loc[t].ws
      lied == loc[t].released = "lie"
      tier == DestTier(t)
  IN /\ pc[t] = "settle_ws"
     /\ IF loc[t].released = "ok"
        THEN IF ReleaseMaterializedOk(ledger, tier, "workspace", a.charge)
             THEN /\ ledger' = ReleaseMaterialized(ledger, tier, "workspace", a.charge)
                  /\ Goto(t, "commit", [loc[t] EXCEPT !.ws = NoAlloc])
                  /\ UNCHANGED chunk
             ELSE /\ chunk' = [chunk EXCEPT ![c] = Poison(@, t)]
                  /\ Return(t, FALSE)
                  /\ UNCHANGED ledger
        ELSE /\ ledger' = IF MoveToDebtOk(ledger, tier, "workspace", a.charge)
                          THEN MoveToDebt(ledger, tier, "workspace", a.charge) ELSE ledger
             /\ chunk' = [chunk EXCEPT ![c] = RememberCleanup(@, t, Debt(t, a))]
             /\ RollBack(t, <<Item(loc[t].dst, "staging", lied)>>,
                         IF lied THEN "poison" ELSE "clear")
     /\ UNCHANGED store

(***************************************************************************)
(* Commit: under the chunk's mutex the authority swings to the destination *)
(* and the source becomes the chunk's only cleanup resource.               *)
(***************************************************************************)

\* Mutant: the chunk records the bound that was reserved, not the reconciled charge.
Commit_BoundCharge(t) ==
  LET c == loc[t].chunk
      d == loc[t].dst
      s == loc[t].src
  IN /\ pc[t] = "commit"
     /\ ledger' = CommitAndRetire(ledger, DestTier(t), d.charge, SrcTier(t), s.charge)
     /\ chunk' = [chunk EXCEPT
          ![c].cleanup = <<[id |-> s.resource, tier |-> SrcTier(t), charge |-> s.charge]>>,
          ![c].auth = [state |-> loc[t].dest, resource |-> d.id,
                       charge |-> AllocationBound[loc[t].dest], content |-> s.content]]
     /\ Goto(t, "rel_src", loc[t])
     /\ UNCHANGED store

Commit(t) ==
  LET c == loc[t].chunk
      ch == chunk[c]
      d == loc[t].dst
      s == loc[t].src
      current == /\ ch.txn = t
                 /\ ch.lifecycle \in {"live", "closing"}
                 /\ ch.auth.resource = s.resource /\ ch.auth.content = s.content
  IN /\ pc[t] = "commit"
     /\ IF current /\ CommitAndRetireOk(ledger, DestTier(t), d.charge, SrcTier(t), s.charge)
        THEN /\ ledger' = CommitAndRetire(ledger, DestTier(t), d.charge, SrcTier(t), s.charge)
             /\ chunk' = [chunk EXCEPT
                  ![c].cleanup = <<[id |-> s.resource, tier |-> SrcTier(t), charge |-> s.charge]>>,
                  ![c].auth = [state |-> loc[t].dest, resource |-> d.id,
                               charge |-> d.charge, content |-> s.content]]
             /\ Goto(t, "rel_src", loc[t])
        ELSE /\ RollBack(t, <<Item(d, "staging", TRUE)>>, "poison")
             /\ UNCHANGED <<ledger, chunk>>
     /\ UNCHANGED store

ReleaseSource(t) == pc[t] = "rel_src" /\ ReleaseResource(t, loc[t].src.resource, "settle_src")

\* A source that cannot be released stays on the cleanup list: the commit stands.
SettleSource(t) ==
  LET c == loc[t].chunk
      s == loc[t].src
      gone == loc[t].released = "ok"
      ok == gone /\ ReleaseCleanupDebtOk(ledger, SrcTier(t), s.charge)
  IN /\ pc[t] = "settle_src"
     /\ ledger' = IF ok THEN ReleaseCleanupDebt(ledger, SrcTier(t), s.charge) ELSE ledger
     /\ chunk' = [chunk EXCEPT ![c] =
          IF ok THEN ClearTransition(ForgetCleanup(@, s.resource), t)
          ELSE IF loc[t].released = "fail" THEN ClearTransition(@, t)
          ELSE Poison(@, t)]
     /\ Return(t, ok)
     /\ UNCHANGED store

(***************************************************************************)
(* rollback_resource, for each resource on the thread's list               *)
(***************************************************************************)
RollbackRelease(t) ==
  /\ pc[t] = "rollback" /\ loc[t].todo # <<>>
  /\ ReleaseResource(t, Head(loc[t].todo).id, "settle")

RollbackSettle(t) ==
  LET c == loc[t].chunk
      a == Head(loc[t].todo)
      tier == DestTier(t)
      condemn == a.poison \/ loc[t].released = "lie"
      full == Len(chunk[c].cleanup) >= CleanupSlots
      owed == RememberCleanup(chunk[c], t, Debt(t, a))
  IN /\ pc[t] = "settle"
     /\ IF loc[t].released = "ok"
        THEN IF ReleaseMaterializedOk(ledger, tier, a.bucket, a.charge)
             THEN /\ ledger' = ReleaseMaterialized(ledger, tier, a.bucket, a.charge)
                  /\ UNCHANGED chunk
             ELSE /\ chunk' = [chunk EXCEPT ![c] = Poison(@, t)]
                  /\ UNCHANGED ledger
        ELSE IF MoveToDebtOk(ledger, tier, a.bucket, a.charge)
             THEN /\ ledger' = MoveToDebt(ledger, tier, a.bucket, a.charge)
                  /\ chunk' = [chunk EXCEPT ![c] =
                       IF condemn /\ ~full THEN Poison(owed, t) ELSE owed]
             ELSE /\ chunk' = [chunk EXCEPT ![c] = Poison(@, t)]
                  /\ UNCHANGED ledger
     /\ Goto(t, "rollback", [loc[t] EXCEPT !.todo = Tail(@)])
     /\ UNCHANGED store

(***************************************************************************)
(* Leases: Buffer::acquire of one chunk, Lease::write, Lease::close        *)
(***************************************************************************)

\* acquire, first critical section: the intent keeps the policy off the chunk.
Incompatible(c, access) ==
  \/ chunk[c].lifecycle # "live"
  \/ chunk[c].txn # None
  \/ chunk[c].write_intent \/ chunk[c].writer
  \/ access = "read_write" /\ (chunk[c].intents # 0 \/ chunk[c].readers # 0)

Intend(t, c, access) ==
  /\ pc[t] = "idle"
  /\ ~Incompatible(c, access)
  /\ chunk[c].revision < MaxRevision
  /\ chunk' = [chunk EXCEPT ![c].revision = @ + 1, ![c].intents = @ + 1,
                            ![c].write_intent = access = "read_write"]
  /\ Goto(t, "restore", [IdleLocals EXCEPT !.chunk = c, !.access = access, !.acquire = TRUE])
  /\ UNCHANGED <<ledger, store>>

\* The snapshot that decides whether the chunk must be restored to gpu_raw.
Restore(t) ==
  /\ pc[t] = "restore"
  /\ Goto(t, IF chunk[loc[t].chunk].auth.state = "gpu_raw" THEN "pin" ELSE "gate", loc[t])
  /\ UNCHANGED <<ledger, store, chunk>>

\* What restore_with_policy asks of the GPU tier: the raw form within the normal limit
\* and, with its workspace, within the hard limit.  The victims reclaim_locked migrates
\* first to make this room are the Propose of other threads.
RoomToRestore(t) ==
  LET a == chunk[loc[t].chunk].auth
      raw == AllocationBound["gpu_raw"]
      workspace == IF IsRaw(a.state) THEN 0 ELSE WorkspaceBound
      credit == IF TierOf(a.state) = "gpu" THEN a.charge ELSE 0
      growth == IF raw > credit THEN raw - credit ELSE 0
  IN /\ Total(ledger["gpu"]) + growth <= NormalLimit("gpu")
     /\ Total(ledger["gpu"]) + raw + workspace <= HardLimit["gpu"]

\* Mutant: the restore does not wait for the allocation gate.
TakeGate_Unlocked(t) ==
  /\ pc[t] = "gate"
  /\ IF RoomToRestore(t) THEN Goto(t, "begin", loc[t]) ELSE Goto(t, "drop_intent", loc[t])
  /\ UNCHANGED <<ledger, store, chunk>>

\* With the policy enabled restore_with_policy waits for the gate, then needs the
\* backend's bounds (the CUDA backend has no workspace_bound of a chunk that became
\* gpu_raw meanwhile) and room.
TakeGate(t) ==
  /\ pc[t] = "gate"
  /\ GateFree
  /\ \/ /\ Gated => RoomToRestore(t)
        /\ Goto(t, "begin", [loc[t] EXCEPT !.gated = Gated])
     \/ /\ Gated
        /\ \/ ~RoomToRestore(t) \/ Fault("bound")
           \/ Fault("same_state") /\ chunk[loc[t].chunk].auth.state = "gpu_raw"
        /\ Goto(t, "drop_intent", loc[t])
  /\ UNCHANGED <<ledger, store, chunk>>

WithoutIntent(ch, access) ==
  [ch EXCEPT !.intents = @ - 1, !.write_intent = @ /\ access # "read_write"]

DropIntent(t) ==
  /\ pc[t] = "drop_intent"
  /\ chunk' = [chunk EXCEPT ![loc[t].chunk] = WithoutIntent(@, loc[t].access)]
  /\ Goto(t, "idle", IdleLocals)
  /\ UNCHANGED <<ledger, store>>

\* Mutant: a failed acquire drops its intent twice.
Pin_DropsTwice(t) ==
  LET c == loc[t].chunk
      ch == chunk[c]
      after == WithoutIntent(ch, loc[t].access)
  IN /\ pc[t] = "pin"
     /\ chunk' = [chunk EXCEPT ![c] = after]
     /\ Goto(t, "drop_intent", loc[t])
     /\ UNCHANGED <<ledger, store>>

\* Mutant: the second critical section does not look at the lifecycle again.
Pin_IgnoresLifecycle(t) ==
  LET c == loc[t].chunk
      ch == chunk[c]
      after == WithoutIntent(ch, loc[t].access)
  IN /\ pc[t] = "pin"
     /\ chunk' = [chunk EXCEPT ![c] =
          IF loc[t].access = "read_only" THEN [after EXCEPT !.readers = @ + 1]
                                         ELSE [after EXCEPT !.writer = TRUE]]
     /\ Goto(t, "leased", [loc[t] EXCEPT !.initial = ch.auth.content])
     /\ UNCHANGED <<ledger, store>>

\* acquire, second critical section: the intent becomes a pin, or the acquire fails.
Pin(t) ==
  LET c == loc[t].chunk
      ch == chunk[c]
      after == WithoutIntent(ch, loc[t].access)
  IN /\ pc[t] = "pin"
     /\ IF ch.lifecycle # "live" \/ ch.txn # None \/ ch.auth.state # "gpu_raw"
        THEN chunk' = [chunk EXCEPT ![c] = after] /\ Goto(t, "idle", IdleLocals)
        ELSE /\ chunk' = [chunk EXCEPT ![c] =
                  IF loc[t].access = "read_only" THEN [after EXCEPT !.readers = @ + 1]
                                                 ELSE [after EXCEPT !.writer = TRUE]]
             /\ Goto(t, "leased", [loc[t] EXCEPT !.initial = ch.auth.content])
     /\ UNCHANGED <<ledger, store>>

\* The backend's write_bytes or write_content: the next generation, or an error with the
\* bytes untouched or torn.  The last generation cannot be advanced.
BackendWrite(t, next) ==
  LET a == chunk[loc[t].chunk].auth
  IN /\ \/ /\ a.content < MaxGeneration
           /\ store' = [store EXCEPT ![a.resource].content = a.content + 1]
           /\ Goto(t, next, [loc[t] EXCEPT !.released = "ok", !.src = a])
        \/ /\ Fault("write") \/ a.content = MaxGeneration
           /\ store' \in {store, [store EXCEPT ![a.resource].content = Garbage]}
           /\ Goto(t, next, [loc[t] EXCEPT !.released = "fail", !.src = a])
     /\ UNCHANGED <<ledger, chunk>>

WriteBytes(t) == pc[t] = "leased" /\ loc[t].access = "read_write" /\ BackendWrite(t, "writing")

\* Back under the chunk's mutex: the new content is recorded, or the chunk is poisoned.
StillPinned(ch, t) == ch.writer /\ ch.auth.resource = loc[t].src.resource

RecordWrite(ch, t) ==
  IF loc[t].released = "ok" THEN [ch EXCEPT !.auth.content = @ + 1]
                            ELSE [ch EXCEPT !.lifecycle = "poisoned"]

WriteDone(t) ==
  /\ pc[t] = "writing"
  /\ LET ch == chunk[loc[t].chunk]
     IN IF StillPinned(ch, t) /\ ch.auth.content = loc[t].src.content
        THEN /\ chunk' = [chunk EXCEPT ![loc[t].chunk] = RecordWrite(@, t)]
             /\ Goto(t, "leased", [loc[t] EXCEPT !.src = None])
        ELSE Terminate(t) /\ UNCHANGED chunk
  /\ UNCHANGED <<ledger, store>>

\* Lease::close: a reader unpins; a writer that changed nothing advances the content first.
CloseRead(t) ==
  /\ pc[t] = "leased" /\ loc[t].access = "read_only"
  /\ chunk' = [chunk EXCEPT ![loc[t].chunk].readers = @ - 1]
  /\ Goto(t, "idle", IdleLocals)
  /\ UNCHANGED <<ledger, store>>

CloseWritten(t) ==
  LET c == loc[t].chunk
  IN /\ pc[t] = "leased" /\ loc[t].access = "read_write"
     /\ chunk[c].auth.content # loc[t].initial \/ chunk[c].auth.content = MaxGeneration
     /\ chunk' = [chunk EXCEPT ![c].writer = FALSE,
                               ![c].lifecycle = IF chunk[c].auth.content = MaxGeneration
                                                THEN "poisoned" ELSE @]
     /\ Goto(t, "idle", IdleLocals)
     /\ UNCHANGED <<ledger, store>>

CloseUnwritten(t) ==
  /\ pc[t] = "leased" /\ loc[t].access = "read_write"
  /\ chunk[loc[t].chunk].auth.content = loc[t].initial
  /\ chunk[loc[t].chunk].auth.content # MaxGeneration
  /\ BackendWrite(t, "closing_write")

CloseWriteDone(t) ==
  LET c == loc[t].chunk
      ch == chunk[c]
      after == IF StillPinned(ch, t) THEN RecordWrite(ch, t)
                                     ELSE [ch EXCEPT !.lifecycle = "poisoned"]
  IN /\ pc[t] = "closing_write"
     /\ chunk' = [chunk EXCEPT ![c] = [after EXCEPT !.writer = FALSE]]
     /\ Goto(t, "idle", IdleLocals)
     /\ UNCHANGED <<ledger, store>>

(***************************************************************************)
(* What the runtime reports                                                *)
(***************************************************************************)
\* ChunkInfo::pending (Buffer::inspect_chunk)
Pending(c) == Busy(c) \/ chunk[c].intents # 0 \/ chunk[c].cleanup # <<>>

\* Runtime::stats adds up the charges of the live chunks by tier.
ChargeOf(tier, chunks) ==
  LET there == {c \in chunks : TierOf(chunk[c].auth.state) = tier}
  IN SumFunction([c \in there |-> chunk[c].auth.charge])

LiveChunks == {c \in Chunks : chunk[c].lifecycle = "live"}

\* Chunks on their way out whose authority no close has retired to debt.
CondemnedChunks ==
  {c \in Chunks : chunk[c].lifecycle \in {"closing", "poisoned"} /\ ~chunk[c].retired}

\* StorageBackend::owned_charge
OwnedCharge(tier) == SumFunction([r \in OwnedIn(tier) |-> store[r].charge])

\* ResourceStats::accounting_conserved (Runtime::resources)
AccountingConserved(tier) ==
  OwnedCharge(tier) + ledger[tier].reserved = Total(ledger[tier])

(***************************************************************************)
(* The specification                                                       *)
(***************************************************************************)
MigrateStep(t) ==
  \/ Begin(t) \/ Project(t) \/ ReserveAll(t) \/ AllocateDestination(t)
  \/ MaterializeDestination(t) \/ AllocateWorkspace(t) \/ MaterializeWorkspace(t)
  \/ VerifyAuthoritative(t) \/ Prepare(t) \/ MaterializeCompaction(t) \/ Transfer(t)
  \/ Reconcile(t) \/ ReleaseCompaction(t) \/ SettleCompaction(t) \/ VerifyTransfer(t)
  \/ ReleaseWorkspace(t) \/ SettleWorkspace(t) \/ Commit(t) \/ ReleaseSource(t)
  \/ SettleSource(t) \/ RollbackRelease(t) \/ RollbackSettle(t) \/ Finish(t)

LeaseStep(t) ==
  \/ Restore(t) \/ TakeGate(t) \/ DropIntent(t) \/ Pin(t) \/ WriteBytes(t) \/ WriteDone(t)
  \/ CloseRead(t) \/ CloseWritten(t) \/ CloseUnwritten(t) \/ CloseWriteDone(t)

Next ==
  \E t \in Threads :
    \/ \E c \in Chunks, d \in Targets, lim \in Limits : Propose(t, c, d, lim)
    \/ \E c \in Chunks, a \in {"read_only", "read_write"} : Intend(t, c, a)
    \/ MigrateStep(t)
    \/ LeaseStep(t)

Spec == Init /\ [][Next]_vars

(***************************************************************************)
(* Properties                                                              *)
(***************************************************************************)
PCs == {"idle", "begin", "project", "reserve", "alloc_dst", "mat_dst", "alloc_ws", "mat_ws",
        "verify_src", "prepare", "mat_comp", "transfer", "reconcile", "rel_comp", "settle_comp",
        "verify", "rel_ws", "settle_ws", "commit", "rel_src", "settle_src", "rollback", "settle",
        "restore", "gate", "drop_intent", "pin", "leased", "writing", "closing_write",
        "terminated"}

\* The ledger and the chunks hold values of their types.
TypeOK ==
  /\ ledger \in Ledgers
  /\ pc \in [Threads -> PCs]
  /\ \A r \in Resources : store[r] # None =>
       /\ store[r].tier \in Tiers /\ store[r].charge \in Word
       /\ store[r].content \in Contents \cup {Garbage}
  /\ \A c \in Chunks :
       /\ chunk[c].lifecycle \in Lifecycles /\ chunk[c].txn \in Threads \cup {None}
       /\ chunk[c].auth.state \in States /\ chunk[c].auth.resource \in Resources
       /\ chunk[c].auth.content \in Contents
       /\ chunk[c].readers \in Nat /\ chunk[c].intents \in Nat

\* The bytes of a chunk are never lost: whatever fails, its authority is a
\* resource the backend owns, with the tier and the charge the chunk records.
AuthorityOwned ==
  \A c \in Chunks : chunk[c].lifecycle # "dead" =>
    LET a == chunk[c].auth
    IN store[a.resource] # None /\ store[a.resource].tier = TierOf(a.state)
         /\ store[a.resource].charge = a.charge

\* A chunk that is not poisoned and not being written holds in its authority
\* exactly the content it claims: a migration neither loses a write nor commits a
\* destination the transfer corrupted.
WriteInFlight(c) == \E t \in Threads : pc[t] \in {"writing", "closing_write"} /\ loc[t].chunk = c

AuthorityIntact ==
  \A c \in Chunks : chunk[c].lifecycle \in {"live", "closing"} /\ ~WriteInFlight(c) =>
    store[chunk[c].auth.resource].content = chunk[c].auth.content

\* Known failures retain or clean exactly known ownership: once no thread is
\* inside migrate, every resource the backend owns is the authority or a cleanup
\* entry of exactly one chunk, and no cleanup entry names a released resource.
Quiescent == \A t \in Threads : pc[t] \in {"idle", "leased"}

Holders(r) ==
  {<<c, 0>> : c \in {x \in Chunks : chunk[x].auth.resource = r /\ chunk[x].lifecycle # "dead"}}
    \cup UNION {{<<c, i>> : i \in {j \in 1 .. Len(chunk[c].cleanup) : chunk[c].cleanup[j].id = r}} :
                 c \in Chunks}

OwnershipKnown ==
  Quiescent => \A r \in Resources : Cardinality(Holders(r)) = IF store[r] = None THEN 0 ELSE 1

\* At quiescence the ledger's charge is exactly the physical charge the backend owns, as
\* Runtime::resources is to find: nothing is reserved, and what is committed are the charges
\* Runtime::stats reports of the live chunks and those of the condemned ones.
AccountingExact ==
  Quiescent => \A tier \in Tiers :
    /\ AccountingConserved(tier)
    /\ ledger[tier].reserved = 0 /\ ledger[tier].staging = 0 /\ ledger[tier].workspace = 0
    /\ ledger[tier].committed =
         ChargeOf(tier, LiveChunks) + ChargeOf(tier, CondemnedChunks)

\* A chunk that Buffer::inspect_chunk reports as not pending is really left alone: no thread
\* is inside a migration of it or an acquire, and nobody holds a lease on it.
PendingTold ==
  \A t \in Threads :
    \/ pc[t] \in {"idle", "terminated"}
    \/ pc[t] = "begin" /\ ~loc[t].acquire
    \/ Pending(loc[t].chunk)

\* No interleaving and no combination of failures makes migrate reach one of its
\* std::terminate calls: the ledger never refuses to book what a thread owns, and
\* the four cleanup slots of a chunk are enough for every failure of one transaction.
NeverTerminates ==
  /\ \A t \in Threads : pc[t] # "terminated"
  /\ \A c \in Chunks : Len(chunk[c].cleanup) <= CleanupSlots

\* A migration never uses up the migration reserve for good: when everything has
\* come to rest without cleanup debt, each tier is back within its normal limit,
\* although the projection and the reservation are two separate critical sections.
ReserveRestored ==
  Quiescent => \A tier \in Tiers :
    ledger[tier].cleanup_debt = 0 => Total(ledger[tier]) <= NormalLimit(tier)

\* A lease is the hard pinning boundary: a pinned chunk is in no transition, and a
\* writer is alone.
PinsExclude ==
  \A c \in Chunks :
    /\ chunk[c].readers # 0 \/ chunk[c].writer => chunk[c].txn = None
    /\ chunk[c].writer => chunk[c].readers = 0

\* While a chunk is pinned its authority does not move, and while it has readers
\* neither its recorded content nor the bytes of its resource change.
PinnedStable ==
  [][\A c \in Chunks :
       /\ chunk[c].readers # 0 \/ chunk[c].writer =>
            chunk'[c].auth.resource = chunk[c].auth.resource
       /\ chunk[c].readers # 0 =>
            /\ chunk'[c].auth.content = chunk[c].auth.content
            /\ store'[chunk[c].auth.resource] = store[chunk[c].auth.resource]]_vars

\* Poison is final for the data: the authority of a poisoned chunk never moves, no
\* transition starts on it, and no acquire that was under way when it was poisoned
\* still gets its lease.
PoisonFreezes ==
  [][\A c \in Chunks : chunk[c].lifecycle = "poisoned" =>
       /\ chunk'[c].auth.resource = chunk[c].auth.resource
       /\ chunk'[c].txn \in {None, chunk[c].txn}
       /\ chunk'[c].readers <= chunk[c].readers
       /\ chunk'[c].writer => chunk[c].writer]_vars

\* A proposal decided before an access never starts a transition after it: the
\* revision the chunk has when a policy migration takes it is the one the proposal saw.
StaleProposalRejected ==
  [][\A t \in Threads : pc[t] = "begin" /\ pc'[t] = "project" /\ ~loc[t].acquire =>
       chunk[loc[t].chunk].revision = loc[t].expected.revision
         /\ chunk[loc[t].chunk].intents = 0]_vars

\* The chunks as the users of the buffers see them.
Cells ==
  [c \in Chunks |->
     [form |-> chunk[c].auth.state,
      bytes |-> IF store[chunk[c].auth.resource] = None THEN Garbage
                ELSE store[chunk[c].auth.resource].content,
      readers |-> chunk[c].readers,
      writer |-> chunk[c].writer,
      usable |-> chunk[c].lifecycle = "live"]]

Contract == INSTANCE ChunkContract WITH cell <- Cells, Forms <- States, InitialForm <- InitialState

\* Transaction implements the contract of a chunk: whatever fails in the thirty steps of
\* a migration, outside it is one step between two forms that keeps the bytes, on a chunk
\* nobody holds; leases are given on good bytes only, and torn bytes end with the chunk.
ImplementsChunk == Contract!CellSpec

\* Read leases of the same chunk may coexist: an acquire for reading is not turned
\* away from a chunk that is live, in gpu_raw, and has no writer and no transition.
ReadersCoexist ==
  [][\A t \in Threads :
       LET ch == chunk[loc[t].chunk]
       IN pc[t] \in {"gate", "begin"} /\ pc'[t] = "drop_intent" /\ loc[t].access = "read_only" =>
            \/ ch.lifecycle # "live" \/ ch.txn # None \/ ch.writer
            \/ ch.auth.state # "gpu_raw"]_vars

=============================================================================
