------------------------ MODULE TransactionInvariant ------------------------
(***************************************************************************)
(* The inductive invariant of Transaction: why migrations and leases of    *)
(* any number of threads and chunks keep out of each other's way.          *)
(*                                                                         *)
(*   - Typed: every variable has its type, and every tier of the ledger is *)
(*     within its hard limit or closed to admission.                       *)
(*   - Locked: the pin counters of a chunk count the threads that hold or  *)
(*     await a lease, and a pinned chunk is in no transition.              *)
(*   - Threaded: what a thread that is inside migrate or a write may rely  *)
(*     on, although it holds no mutex there.                               *)
(*   - Claimed: a resource is an authority or belongs to one thread.       *)
(*   - Kept: the authority is owned and holds the chunk's content.         *)
(***************************************************************************)
EXTENDS Transaction, LedgerLemmas

(***************************************************************************)
(* Types                                                                   *)
(***************************************************************************)
Items == [id : Resources \cup {None}, charge : Word, bucket : Buckets, poison : BOOLEAN]

Locals ==
  [chunk : Chunks \cup {None}, gated : BOOLEAN, dest : States, acquire : BOOLEAN,
   access : Accesses \cup {"none"}, expected : Expectations \cup {None},
   limit : Word \cup {None}, src : Authorities \cup {None}, dst : Allocations,
   ws : Allocations, comp : Allocations, toks : [1 .. 3 -> ReservationTokens],
   todo : Seq(Items), ending : {"clear", "poison"}, released : {"ok", "fail", "lie"},
   initial : Contents \cup {Garbage}]

ChunkRecords ==
  [lifecycle : Lifecycles, auth : Authorities, txn : Threads \cup {None}, readers : Nat,
   writer : BOOLEAN, intents : Nat, write_intent : BOOLEAN, revision : Nat,
   cleanup : Seq(CleanupResources), retired : BOOLEAN]

Typed ==
  /\ GoodLedger(ledger)
  /\ store \in [Resources -> Descriptors \cup {None}]
  /\ chunk \in [Chunks -> ChunkRecords]
  /\ pc \in [Threads -> PCs]
  /\ loc \in [Threads -> Locals]

(***************************************************************************)
(* Where a thread is: before the commit, after it, undoing a transaction,  *)
(* or with a lease.                                                        *)
(***************************************************************************)
Filled == {"mat_dst", "alloc_ws", "mat_ws", "verify_src", "prepare", "mat_comp", "transfer",
           "reconcile", "rel_comp", "settle_comp", "verify", "rel_ws", "settle_ws", "commit"}
Compacting == {"project", "reserve", "alloc_dst", "mat_dst", "alloc_ws", "mat_ws", "verify_src",
               "prepare", "mat_comp", "transfer"}
Verified == {"rel_ws", "settle_ws", "commit"}
PreCommit == {"project", "reserve", "alloc_dst"} \cup Filled
PostCommit == {"rel_src", "settle_src"}
Unwinding == {"rollback", "settle"}
Holding == {"leased", "writing", "closing_write"}
Writing == {"writing", "closing_write"}
Leasing == {"restore", "gate", "drop_intent", "pin"} \cup Holding

(***************************************************************************)
(* The locks of a chunk                                                    *)
(***************************************************************************)
IntentHolders(c) ==
  {t \in Threads : loc[t].acquire /\ loc[t].chunk = c /\ pc[t] \notin Holding}
ReadHolders(c) ==
  {t \in Threads : pc[t] \in Holding /\ loc[t].chunk = c /\ loc[t].access = "read_only"}
WriteHolders(c) ==
  {t \in Threads : pc[t] \in Holding /\ loc[t].chunk = c /\ loc[t].access = "read_write"}

ChunkLocked(c) ==
  /\ chunk[c].intents = Cardinality(IntentHolders(c))
  /\ chunk[c].readers = Cardinality(ReadHolders(c))
  /\ chunk[c].readers # 0 \/ chunk[c].writer => chunk[c].txn = None
  /\ IF chunk[c].writer
     THEN /\ chunk[c].readers = 0 /\ chunk[c].intents = 0
          /\ \E w \in Threads : WriteHolders(c) = {w}
     ELSE WriteHolders(c) = {}
  /\ chunk[c].write_intent =>
       /\ chunk[c].readers = 0 /\ ~chunk[c].writer
       /\ \E w \in Threads : IntentHolders(c) = {w} /\ loc[w].access = "read_write"
  /\ \A t \in IntentHolders(c) : loc[t].access = "read_write" => chunk[c].write_intent

Locked == \A c \in Chunks : ChunkLocked(c)

(***************************************************************************)
(* What a thread relies on                                                 *)
(***************************************************************************)
OwnChunk(t) == chunk[loc[t].chunk]

OwnIds(l) == {l.dst.id, l.ws.id, l.comp.id, None}

\* The locals follow the position p of a thread.
PlacedAt(p, l) ==
  /\ p # "idle" => l.chunk \in Chunks
  /\ p = "idle" => ~l.acquire
  /\ l.acquire => l.access \in Accesses
  /\ p \in Leasing => l.acquire
  /\ p = "begin" /\ ~l.acquire => l.expected \in Expectations
  /\ p \in Writing => l.access = "read_write"
  /\ p \in Leasing \cup {"idle", "begin"} => l.dst = NoAlloc /\ l.ws = NoAlloc /\ l.comp = NoAlloc
  /\ p \in Unwinding => \A i \in 1 .. Len(l.todo) : l.todo[i].id \in OwnIds(l)
  /\ p = "settle" => l.todo # <<>>

\* Until it has committed or given up, a migration has its chunk and the chunk its source.
Transacting(t) ==
  /\ pc[t] \in PreCommit \cup PostCommit => OwnChunk(t).txn = t
  /\ pc[t] \in PreCommit => loc[t].src = OwnChunk(t).auth /\ loc[t].src.state # loc[t].dest
  /\ pc[t] \in PostCommit => loc[t].src \in Authorities

\* Its destination is owned in the store st, charged as it knows, and at the end a copy
\* of the source.
DeliveringAt(p, l, st) ==
  LET a == st[l.dst.id]
  IN p \in Filled =>
       /\ l.dst.id \in Resources /\ l.dst.id \notin {l.ws.id, l.comp.id}
       /\ a # None /\ a.tier = TierOf(l.dest)
       /\ p # "reconcile" => a.charge = l.dst.charge
       /\ p \in Verified => a.content = l.src.content

\* A compaction target is owned until the transfer has used it.
TargetingAt(p, l, st) == p \in Compacting /\ l.comp.id # None => st[l.comp.id] # None

\* A writer between the backend's write and its record finds the chunk as it left it.
Recording(t) ==
  pc[t] \in Writing =>
    /\ loc[t].src = OwnChunk(t).auth
    /\ loc[t].released = "ok" =>
         /\ loc[t].src.content < MaxGeneration
         /\ store[loc[t].src.resource].content = loc[t].src.content + 1

ThreadInv(t) ==
  /\ PlacedAt(pc[t], loc[t])
  /\ Transacting(t)
  /\ DeliveringAt(pc[t], loc[t], store)
  /\ TargetingAt(pc[t], loc[t], store)
  /\ Recording(t)

Threaded == \A t \in Threads : ThreadInv(t)

(***************************************************************************)
(* Who owns a resource                                                     *)
(***************************************************************************)
ClaimsAt(p, l) ==
  IF p \in PostCommit THEN {l.src.resource}
  ELSE IF p \in PreCommit \cup Unwinding THEN {l.dst.id, l.ws.id, l.comp.id} \ {None}
       ELSE {}

Claims(t) == ClaimsAt(pc[t], loc[t])

Claimed ==
  /\ \A t \in Threads, c \in Chunks : chunk[c].auth.resource \notin Claims(t)
  /\ \A t, u \in Threads : t # u => Claims(t) \cap Claims(u) = {}
  /\ \A c, d \in Chunks : c # d => chunk[c].auth.resource # chunk[d].auth.resource

(***************************************************************************)
(* The bytes of a chunk                                                    *)
(***************************************************************************)
ChunkKept(c) ==
  LET a == chunk[c].auth
  IN /\ chunk[c].lifecycle \in {"live", "poisoned"}
     /\ store[a.resource] # None /\ store[a.resource].tier = TierOf(a.state)
     /\ store[a.resource].charge = a.charge
     /\ chunk[c].lifecycle = "live" /\ ~WriteInFlight(c) =>
          store[a.resource].content = a.content

Kept == \A c \in Chunks : ChunkKept(c)

TransactionInv == Typed /\ Locked /\ Threaded /\ Claimed /\ Kept
=============================================================================
