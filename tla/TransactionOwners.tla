------------------------- MODULE TransactionOwners -------------------------
(***************************************************************************)
(* The owners of the resources: why nothing the backend allocated is lost, *)
(* and nothing is given back twice, whatever fails.                        *)
(*                                                                         *)
(*   - Listing: what a thread inside migrate has on its hands is stored as *)
(*     it was charged, each resource under one name, but for the one it    *)
(*     has just released and not settled yet.                              *)
(*   - OwedApart: the cleanup lists name each resource once, and none that *)
(*     is an authority or on a thread's hands.                             *)
(*   - OwedStored: what a cleanup list names is stored as it is charged,   *)
(*     but for the source a thread has just released.                      *)
(*   - NothingLost: what the backend stores is an authority, on a cleanup  *)
(*     list, or on the hands of a thread.                                  *)
(*                                                                         *)
(* They are inductive together with the invariants they extend: that a     *)
(* thread may drop a resource from its list rests on the books, where the  *)
(* ledger never refuses to move its charge.                                *)
(***************************************************************************)
EXTENDS TransactionBooks

Stored(st, a, tier) ==
  a.id \in Resources /\ st[a.id] # None /\ st[a.id].tier = tier /\ st[a.id].charge = a.charge

\* No two entries of a list of resources have the same id.
Distinct(list) == \A i, j \in 1 .. Len(list) : list[i].id = list[j].id => i = j

IdsOf(list) == {list[i].id : i \in 1 .. Len(list)}

\* What a thread with locals l at position p has to use or to give back.
Listed(p, l) ==
  IF p \in Unwinding THEN IdsOf(l.todo)
  ELSE IF p \in Filled THEN {l.dst.id, l.ws.id, l.comp.id} \ {None} ELSE {}

\* What it has released since the ledger was last told.
Gone(p, l) ==
  IF l.released # "ok" THEN {}
  ELSE IF p = "settle" THEN {l.todo[1].id}
  ELSE IF p = "settle_ws" THEN {l.ws.id}
  ELSE IF p = "settle_comp" THEN {l.comp.id}
  ELSE IF p = "settle_src" THEN {l.src.resource} ELSE {}

\* The compaction target as the backend has charged it: a transfer has exchanged its
\* charge with the destination's before the ledger follows.
TargetAt(p, l) == IF p = "reconcile" THEN [l.comp EXCEPT !.charge = l.dst.charge] ELSE l.comp

\* The allocations that the rest of a thread's way will give back.
Equipped(p, l) ==
  /\ p \in {"mat_ws", "rel_ws", "settle_ws"} => l.ws # NoAlloc
  /\ p \in Third \cup Moving /\ Transforms(l) => l.ws # NoAlloc
  /\ p \in {"mat_comp", "rel_comp", "settle_comp"} => l.comp # NoAlloc

Listing(p, l, st) ==
  /\ Equipped(p, l)
  /\ \A r \in Gone(p, l) : st[r] = None
  /\ p \in Unwinding =>
       /\ Distinct(l.todo)
       /\ \A i \in 1 .. Len(l.todo) :
            /\ l.todo[i].id \in Resources
            /\ l.todo[i].id \in Gone(p, l) \/ Stored(st, l.todo[i], TierOf(l.dest))
  /\ p \in Filled =>
       /\ l.ws = NoAlloc \/ l.ws.id \in Resources \ {l.comp.id}
       /\ l.comp = NoAlloc \/ l.comp.id \in Resources
       /\ l.ws = NoAlloc \/ l.ws.id \in Gone(p, l) \/ Stored(st, l.ws, TierOf(l.dest))
       /\ l.comp = NoAlloc \/ l.comp.id \in Gone(p, l) \/ Stored(st, TargetAt(p, l), TierOf(l.dest))

OwedIds(c) == IdsOf(chunk[c].cleanup)

OwedApart ==
  \A c \in Chunks :
    /\ Distinct(chunk[c].cleanup)
    /\ \A d \in Chunks : /\ chunk[d].auth.resource \notin OwedIds(c)
                         /\ c # d => OwedIds(c) \cap OwedIds(d) = {}
    /\ \A t \in Threads : OwedIds(c) \cap Listed(pc[t], loc[t]) = {}

OwedStored ==
  \A c \in Chunks : \A i \in 1 .. Len(chunk[c].cleanup) :
    LET a == chunk[c].cleanup[i]
    IN /\ a.id \in Resources
       /\ Stored(store, a, a.tier) \/ \E t \in Threads : a.id \in Gone(pc[t], loc[t])

NothingLost ==
  \A r \in Resources : store[r] # None =>
    \/ \E c \in Chunks : r = chunk[c].auth.resource \/ r \in OwedIds(c)
    \/ \E t \in Threads : r \in Listed(pc[t], loc[t])

OwnersInv ==
  /\ \A t \in Threads : Listing(pc[t], loc[t], store)
  /\ OwedApart
  /\ OwedStored
  /\ NothingLost
  /\ \A c \in Chunks : ~chunk[c].retired

\* All that is inductive about the migrations: the chunks and the resources, the books, and
\* the owners, each resting on the ones before.
MigrationInv == TransactionInv /\ BooksInv /\ OwnersInv
=============================================================================
