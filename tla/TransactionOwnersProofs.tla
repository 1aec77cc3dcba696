---------------------- MODULE TransactionOwnersProofs ----------------------
(***************************************************************************)
(* Proofs about TransactionOwners: that nothing the backend allocated is   *)
(* lost or given back twice, and that at rest the ledger charges exactly   *)
(* what the backend owns.                                                  *)
(***************************************************************************)
EXTENDS TransactionOwners, TransactionBooksProofs

ListedOf(t) == Listed(pc[t], loc[t])
GoneOf(t) == Gone(pc[t], loc[t])

(***************************************************************************)
(* Lists of resources                                                      *)
(***************************************************************************)
\* A list of resources that are stored in st as it charges them, each once.
Holds(list, st, tier) ==
  Distinct(list) /\ \A i \in 1 .. Len(list) : Stored(st, list[i], tier)

LEMMA HoldsNone ==
  ASSUME NEW st, NEW tier
  PROVE  Holds(<<>>, st, tier) /\ IdsOf(<<>>) = {}
BY DEF Holds, Distinct, IdsOf

LEMMA HoldsOne ==
  ASSUME NEW st, NEW tier, NEW a, Stored(st, a, tier), NEW b, NEW poison
  PROVE  /\ Holds(<<Item(a, b, poison)>>, st, tier)
         /\ IdsOf(<<Item(a, b, poison)>>) = {a.id}
<1>1. PICK x : x = Item(a, b, poison) /\ x.id = a.id /\ x.charge = a.charge
  <2>1. Item(a, b, poison).id = a.id /\ Item(a, b, poison).charge = a.charge
    BY DEF Item
  <2>2. QED
    BY <2>1
<1>2. Stored(st, x, tier)
  BY <1>1 DEF Stored
<1>3. PICK s : s = <<x>> /\ Len(s) = 1 /\ s[1] = x
  <2>1. Len(<<x>>) = 1 /\ <<x>>[1] = x
    OBVIOUS
  <2>2. QED
    BY <2>1
<1>4. Holds(s, st, tier) /\ IdsOf(s) = {x.id}
  BY <1>2, <1>3 DEF Holds, Distinct, IdsOf
<1>5. QED
  BY <1>1, <1>3, <1>4

(***************************************************************************)
(* What the owners know of each other                                      *)
(***************************************************************************)
\* The resources that a step of thread t on chunk c may use, release or allocate.
Reach(t, c) == {chunk[c].auth.resource} \cup OwedIds(c) \cup ListedOf(t)

LEMMA Hands ==
  ASSUME TransactionInv, OwnersInv, NEW t \in Threads
  PROVE  /\ ListedOf(t) \subseteq Resources /\ ListedOf(t) \subseteq Claims(t)
         /\ ListedOf(t) \cap Fresh = {} /\ GoneOf(t) \cap Fresh = {}
         /\ \A c \in Chunks : chunk[c].auth.resource \notin ListedOf(t)
         /\ \A u \in Threads \ {t} : ListedOf(t) \cap ListedOf(u) = {}
<1>1. /\ Typed /\ Threaded /\ loc[t] \in Locals /\ None \notin Resources /\ None \notin Authorities
      /\ Listing(pc[t], loc[t], store)
  BY TransactionAssumption DEF TransactionAssumption, TransactionInv, Typed, OwnersInv
<1>2. \A u \in Threads : ListedOf(u) \subseteq Claims(u) /\ ListedOf(u) \subseteq Resources
  <2> TAKE u \in Threads
  <2>1. Listing(pc[u], loc[u], store) /\ PlacedAt(pc[u], loc[u]) /\ loc[u] \in Locals
    BY DEF OwnersInv, TransactionInv, Threaded, ThreadInv, Typed
  <2>2. CASE pc[u] \in Unwinding
    <3>1. \A i \in 1 .. Len(loc[u].todo) : loc[u].todo[i].id \in Resources \cap OwnIds(loc[u])
      BY <2>1, <2>2 DEF Listing, PlacedAt
    <3>2. Claims(u) = {loc[u].dst.id, loc[u].ws.id, loc[u].comp.id} \ {None}
      BY <2>2 DEF Claims, ClaimsAt, Unwinding, PostCommit
    <3>3. ListedOf(u) = IdsOf(loc[u].todo)
      BY <2>2 DEF ListedOf, Listed
    <3>4. QED
      BY <1>1, <3>1, <3>2, <3>3 DEF OwnIds, IdsOf
  <2>3. CASE pc[u] \in Filled
    <3>1. pc[u] \notin Unwinding \cup PostCommit /\ pc[u] \in PreCommit
      BY <2>3 DEF Filled, Unwinding, PostCommit, PreCommit
    <3>2. /\ loc[u].dst.id \in Resources \cup {None} /\ loc[u].ws.id \in Resources \cup {None}
          /\ loc[u].comp.id \in Resources \cup {None}
      BY <2>1 DEF Locals, Allocations
    <3>3. QED
      BY <2>3, <3>1, <3>2 DEF ListedOf, Listed, Claims, ClaimsAt
  <2>4. CASE pc[u] \notin Unwinding \cup Filled
    BY <2>4 DEF ListedOf, Listed
  <2>5. QED
    BY <2>2, <2>3, <2>4
<1>3. \A r \in Fresh : r \notin Claims(t)
  BY <1>1, FreshIsNew
<1>4. GoneOf(t) \subseteq Named(loc[t])
  <2>1. CASE pc[t] = "settle"
    <3>1. PICK s \in Seq(Items), n \in Nat : s = loc[t].todo /\ n = Len(s) /\ s # <<>>
      <4>1. loc[t].todo \in Seq(Items) /\ loc[t].todo # <<>>
        BY <1>1, <2>1 DEF Locals, Threaded, ThreadInv, PlacedAt
      <4>2. QED
        BY <4>1
    <3>2. 1 \in 1 .. Len(loc[t].todo)
      BY <3>1
    <3>3. QED
      BY <2>1, <3>2 DEF GoneOf, Gone, Named
  <2>2. CASE pc[t] = "settle_src"
    <3>1. loc[t].src \in Authorities
      BY <1>1, <2>2 DEF Threaded, ThreadInv, Transacting, PostCommit
    <3>2. loc[t].src # None
      BY <1>1, <3>1
    <3>3. QED
      BY <2>2, <3>2 DEF GoneOf, Gone, Named
  <2>3. CASE pc[t] \notin {"settle", "settle_src"}
    BY <2>3 DEF GoneOf, Gone, Named
  <2>4. QED
    BY <2>1, <2>2, <2>3
<1>5. GoneOf(t) \cap Fresh = {}
  BY <1>4 DEF Fresh
<1>6. QED
  BY <1>2, <1>3, <1>5 DEF TransactionInv, Claimed

\* A fresh resource is on no cleanup list, and each cleanup list is its chunk's alone.
LEMMA Debts ==
  ASSUME TransactionInv, OwnersInv, NEW c \in Chunks
  PROVE  /\ OwedIds(c) \subseteq Resources /\ OwedIds(c) \cap Fresh = {}
         /\ \A d \in Chunks : chunk[d].auth.resource \notin OwedIds(c)
         /\ \A d \in Chunks \ {c} : OwedIds(c) \cap OwedIds(d) = {}
         /\ \A t \in Threads : OwedIds(c) \cap ListedOf(t) = {}
         /\ chunk[c].auth.resource \in Resources \ Fresh
<1>1. OwedApart /\ OwedStored
  BY DEF OwnersInv
<1>2. OwedIds(c) \subseteq Resources
  BY <1>1 DEF OwedStored, OwedIds, IdsOf
<1>3. OwedIds(c) \cap Fresh = {}
  BY DEF Fresh, OwedIds, IdsOf
<1>4. chunk[c].auth.resource \in Resources \ Fresh
  BY DEF Fresh, TransactionInv, Typed, ChunkRecords, Authorities
<1>5. QED
  BY <1>1, <1>2, <1>3, <1>4 DEF OwedApart, ListedOf

(***************************************************************************)
(* The general step                                                        *)
(***************************************************************************)
\* The backend still stores r as it did, whatever its bytes are now.
Untouched(r) ==
  /\ store'[r] = None <=> store[r] = None
  /\ store[r] # None => store'[r].tier = store[r].tier /\ store'[r].charge = store[r].charge

SameOwed(d) ==
  /\ chunk'[d].auth.resource = chunk[d].auth.resource
  /\ chunk'[d].cleanup = chunk[d].cleanup /\ chunk'[d].retired = chunk[d].retired

\* A step of t on c: it releases, allocates and passes on what is in its reach, and loses
\* track of none of it.
Passes(t, c) ==
  /\ Others(t)
  /\ \A d \in Chunks \ {c} : SameOwed(d)
  /\ Reach(t, c)' \subseteq Reach(t, c) \cup Fresh
  /\ \A r \in Resources \ (Reach(t, c) \cup Fresh) : Untouched(r)
  /\ \A r \in Resources \ Fresh : store[r] = None => store'[r] = None
  /\ \A r \in Reach(t, c) \cup Fresh : store'[r] # None => r \in Reach(t, c)'
  /\ GoneOf(t) \subseteq Reach(t, c)

\* What it leaves behind is in order.
Orderly(t, c) ==
  /\ Listing(pc[t], loc[t], store)
  /\ Distinct(chunk[c].cleanup) /\ ~chunk[c].retired
  /\ chunk[c].auth.resource \notin OwedIds(c)
  /\ OwedIds(c) \cap ListedOf(t) = {}
  /\ \A i \in 1 .. Len(chunk[c].cleanup) :
       LET a == chunk[c].cleanup[i]
       IN /\ a.id \in Resources
          /\ Stored(store, a, a.tier) \/ \E u \in Threads : a.id \in GoneOf(u)

LEMMA StoredStays ==
  ASSUME NEW a, NEW tier, Stored(store, a, tier), Untouched(a.id)
  PROVE  Stored(store', a, tier)
BY DEF Stored, Untouched

\* The hands of a thread that the step does not reach.
LEMMA ListingStays ==
  ASSUME TransactionInv, OwnersInv, NEW u \in Threads,
         \A r \in ListedOf(u) : Untouched(r),
         \A r \in GoneOf(u) \cap Resources : store'[r] = None
  PROVE  Listing(pc[u], loc[u], store')
<1>1. PICK p, l : p = pc[u] /\ l = loc[u]
  OBVIOUS
<1>2. Listing(p, l, store) /\ l \in Locals /\ None \notin Resources
  BY <1>1, TransactionAssumption DEF OwnersInv, TransactionInv, Typed, TransactionAssumption
<1>3. PICK tier : tier = TierOf(l.dest)
  OBVIOUS
<1>4. \A r \in Gone(p, l) : store'[r] = None
  <2>1. ListedOf(u) \subseteq Resources
    BY Hands
  <2>2. Gone(p, l) \subseteq Resources
    <3>1. /\ p = "settle" => l.todo[1].id \in Resources
      <4>1. ASSUME p = "settle" PROVE l.todo # <<>> /\ l.todo \in Seq(Items) /\ p \in Unwinding
        BY <1>1, <1>2, <4>1 DEF TransactionInv, Threaded, ThreadInv, PlacedAt, Locals, Unwinding
      <4>2. ASSUME p = "settle" PROVE 1 \in 1 .. Len(l.todo)
        BY <4>1, <4>2
      <4>3. QED
        BY <1>2, <4>1, <4>2 DEF Listing
    <3>2. /\ p = "settle_ws" => l.ws.id \in Resources
          /\ p = "settle_comp" => l.comp.id \in Resources
      BY <1>2 DEF Listing, Equipped, Filled
    <3>3. p = "settle_src" => l.src.resource \in Resources
      BY <1>1 DEF TransactionInv, Threaded, ThreadInv, Transacting, PostCommit, Authorities
    <3>4. QED
      BY <3>1, <3>2, <3>3 DEF Gone
  <2>3. QED
    BY <1>1, <2>2 DEF GoneOf
<1>5. ASSUME p \in Unwinding, NEW i \in 1 .. Len(l.todo), l.todo[i].id \notin Gone(p, l)
      PROVE  Stored(store', l.todo[i], tier)
  <2>1. l.todo[i].id \in ListedOf(u) /\ Stored(store, l.todo[i], tier)
    BY <1>1, <1>2, <1>3, <1>5 DEF Listing, ListedOf, Listed, IdsOf
  <2>2. QED
    BY <2>1, StoredStays
<1>6. ASSUME p \in Filled, l.ws # NoAlloc, l.ws.id \notin Gone(p, l)
      PROVE  Stored(store', l.ws, tier)
  <2>1. Stored(store, l.ws, tier) /\ l.ws.id \in Resources
    BY <1>2, <1>3, <1>6 DEF Listing
  <2>2. l.ws.id \in ListedOf(u)
    BY <1>1, <1>2, <1>6, <2>1 DEF ListedOf, Listed, Filled, Unwinding
  <2>3. QED
    BY <2>1, <2>2, StoredStays
<1>7. ASSUME p \in Filled, l.comp # NoAlloc, l.comp.id \notin Gone(p, l)
      PROVE  Stored(store', TargetAt(p, l), tier)
  <2>1. Stored(store, TargetAt(p, l), tier) /\ l.comp.id \in Resources
    BY <1>2, <1>3, <1>7 DEF Listing
  <2>2. l.comp.id \in ListedOf(u)
    BY <1>1, <1>2, <1>7, <2>1 DEF ListedOf, Listed, Filled, Unwinding
  <2>3. TargetAt(p, l).id = l.comp.id
    BY <1>2 DEF TargetAt, Locals, Allocations
  <2>4. QED
    BY <2>1, <2>2, <2>3, StoredStays
<1>8. Listing(p, l, store')
  BY <1>2, <1>3, <1>4, <1>5, <1>6, <1>7 DEF Listing
<1>9. QED
  BY <1>1, <1>8

LEMMA OwnersStep ==
  ASSUME TransactionInv, OwnersInv, NEW t \in Threads, NEW c \in Chunks,
         Passes(t, c), Orderly(t, c)'
  PROVE  OwnersInv'
<1>1. PICK R, F : R = Reach(t, c) /\ F = Fresh
  OBVIOUS
<1>2. PICK S : S = Reach(t, c)'
  OBVIOUS
<1>3. /\ S \subseteq R \cup F
      /\ \A r \in Resources \ (R \cup F) : Untouched(r)
      /\ \A r \in R \cup F : store'[r] # None => r \in S
      /\ GoneOf(t) \subseteq R
  BY <1>1, <1>2 DEF Passes
<1>4. \A u \in Threads \ {t} :
        /\ pc'[u] = pc[u] /\ loc'[u] = loc[u]
        /\ ListedOf(u)' = ListedOf(u) /\ GoneOf(u)' = GoneOf(u)
  BY DEF Passes, Others, ListedOf, GoneOf
<1>5. \A d \in Chunks \ {c} :
        /\ chunk'[d].auth.resource = chunk[d].auth.resource /\ OwedIds(d)' = OwedIds(d)
        /\ chunk'[d].cleanup = chunk[d].cleanup /\ chunk'[d].retired = chunk[d].retired
  BY DEF Passes, SameOwed, OwedIds
<1>6. S = {chunk'[c].auth.resource} \cup OwedIds(c)' \cup ListedOf(t)'
  BY <1>2 DEF Reach
<1>7. R = {chunk[c].auth.resource} \cup OwedIds(c) \cup ListedOf(t)
  BY <1>1 DEF Reach
<1>8. \A u \in Threads \ {t} : ListedOf(u) \cap (R \cup F) = {} /\ ListedOf(u) \subseteq Resources
  <2> TAKE u \in Threads \ {t}
  <2>1. ListedOf(u) \cap ListedOf(t) = {} /\ ListedOf(u) \cap F = {} /\ ListedOf(u) \subseteq Resources
        /\ chunk[c].auth.resource \notin ListedOf(u)
    BY <1>1, Hands
  <2>2. ListedOf(u) \cap OwedIds(c) = {}
    BY Debts
  <2>3. QED
    BY <1>7, <2>1, <2>2
<1>9. \A d \in Chunks \ {c} : /\ OwedIds(d) \cap (R \cup F) = {} /\ OwedIds(d) \subseteq Resources
                              /\ chunk[d].auth.resource \notin R \cup F
  <2> TAKE d \in Chunks \ {c}
  <2>1. /\ OwedIds(d) \cap OwedIds(c) = {} /\ OwedIds(d) \cap F = {} /\ OwedIds(d) \cap ListedOf(t) = {}
        /\ chunk[c].auth.resource \notin OwedIds(d) /\ OwedIds(d) \subseteq Resources
        /\ chunk[d].auth.resource \in Resources \ F
    BY <1>1, Debts
  <2>2. chunk[d].auth.resource \notin OwedIds(c) /\ chunk[d].auth.resource \notin ListedOf(t)
    BY Debts, Hands
  <2>3. chunk[d].auth.resource # chunk[c].auth.resource
    BY DEF TransactionInv, Claimed
  <2>4. QED
    BY <1>7, <2>1, <2>2, <2>3
<1>10. ASSUME NEW u \in Threads PROVE Listing(pc'[u], loc'[u], store')
  <2>1. CASE u = t
    BY <2>1 DEF Orderly
  <2>2. CASE u # t
    <3>1. \A r \in ListedOf(u) : Untouched(r)
      BY <1>3, <1>8, <2>2
    <3>2. \A r \in GoneOf(u) \cap Resources : store'[r] = None
      <4>1. GoneOf(u) \cap F = {} /\ \A r \in GoneOf(u) : store[r] = None
        BY <1>1, Hands DEF OwnersInv, Listing, GoneOf
      <4>2. QED
        BY <1>1, <4>1 DEF Passes
    <3>3. Listing(pc[u], loc[u], store')
      BY <3>1, <3>2, ListingStays
    <3>4. QED
      BY <1>4, <2>2, <3>3
  <2>3. QED
    BY <2>1, <2>2
<1>11. OwedApart'
  <2>1. ASSUME NEW d \in Chunks
        PROVE  /\ Distinct(chunk'[d].cleanup)
               /\ \A e \in Chunks : /\ chunk'[e].auth.resource \notin OwedIds(d)'
                                    /\ d # e => OwedIds(d)' \cap OwedIds(e)' = {}
               /\ \A u \in Threads : OwedIds(d)' \cap ListedOf(u)' = {}
    <3>1. CASE d = c
      <4>1. /\ Distinct(chunk'[c].cleanup) /\ chunk'[c].auth.resource \notin OwedIds(c)'
            /\ OwedIds(c)' \cap ListedOf(t)' = {}
        BY DEF Orderly
      <4>2. OwedIds(c)' \subseteq R \cup F
        BY <1>3, <1>6
      <4>3. \A e \in Chunks \ {c} : /\ chunk'[e].auth.resource \notin OwedIds(c)'
                                    /\ OwedIds(c)' \cap OwedIds(e)' = {}
        BY <1>5, <1>9, <4>2
      <4>4. \A u \in Threads \ {t} : OwedIds(c)' \cap ListedOf(u)' = {}
        BY <1>4, <1>8, <4>2
      <4>5. QED
        BY <3>1, <4>1, <4>3, <4>4
    <3>2. CASE d # c
      <4>1. OwedIds(d)' = OwedIds(d) /\ chunk'[d].cleanup = chunk[d].cleanup
        BY <1>5, <3>2
      <4>2. Distinct(chunk[d].cleanup)
        BY DEF OwnersInv, OwedApart
      <4>3. OwedIds(d) \cap S = {}
        BY <1>3, <1>9, <3>2
      <4>4. \A e \in Chunks \ {c} : /\ chunk'[e].auth.resource \notin OwedIds(d)
                                    /\ d # e => OwedIds(d) \cap OwedIds(e)' = {}
        BY <1>5, Debts
      <4>5. chunk'[c].auth.resource \notin OwedIds(d) /\ OwedIds(d) \cap OwedIds(c)' = {}
            /\ OwedIds(d) \cap ListedOf(t)' = {}
        BY <1>6, <4>3
      <4>6. \A u \in Threads \ {t} : OwedIds(d) \cap ListedOf(u)' = {}
        BY <1>4, Debts
      <4>7. QED
        BY <4>1, <4>2, <4>4, <4>5, <4>6
    <3>3. QED
      BY <3>1, <3>2
  <2>2. QED
    BY <2>1 DEF OwedApart, ListedOf
<1>12. OwedStored'
  <2>1. ASSUME NEW d \in Chunks, NEW i \in 1 .. Len(chunk'[d].cleanup), NEW a,
               a = chunk'[d].cleanup[i]
        PROVE  /\ a.id \in Resources
               /\ Stored(store', a, a.tier) \/ \E u \in Threads : a.id \in GoneOf(u)'
    <3>1. CASE d = c
      BY <2>1, <3>1 DEF Orderly
    <3>2. CASE d # c
      <4>1. i \in 1 .. Len(chunk[d].cleanup) /\ a = chunk[d].cleanup[i]
        BY <1>5, <2>1, <3>2
      <4>2. /\ a.id \in Resources /\ a.id \in OwedIds(d)
            /\ Stored(store, a, a.tier) \/ \E u \in Threads : a.id \in GoneOf(u)
        BY <4>1 DEF OwnersInv, OwedStored, OwedIds, IdsOf, GoneOf
      <4>3. a.id \notin R \cup F
        BY <1>9, <3>2, <4>2
      <4>4. CASE Stored(store, a, a.tier)
        BY <1>3, <4>2, <4>3, <4>4, StoredStays
      <4>5. ASSUME NEW u \in Threads, a.id \in GoneOf(u) PROVE a.id \in GoneOf(u)'
        BY <1>3, <1>4, <4>3, <4>5
      <4>6. QED
        BY <4>2, <4>4, <4>5
    <3>3. QED
      BY <3>1, <3>2
  <2>2. QED
    BY <2>1 DEF OwedStored, GoneOf
<1>13. NothingLost'
  <2>1. ASSUME NEW r \in Resources, store'[r] # None
        PROVE  \/ \E d \in Chunks : r = chunk'[d].auth.resource \/ r \in OwedIds(d)'
               \/ \E u \in Threads : r \in ListedOf(u)'
    <3>1. CASE r \in R \cup F
      <4>1. r \in S
        BY <1>3, <2>1, <3>1
      <4>2. QED
        BY <1>6, <4>1
    <3>2. CASE r \notin R \cup F
      <4>1. store[r] # None
        BY <1>3, <2>1, <3>2 DEF Untouched
      <4>2. \/ \E d \in Chunks : r = chunk[d].auth.resource \/ r \in OwedIds(d)
            \/ \E u \in Threads : r \in ListedOf(u)
        BY <4>1 DEF OwnersInv, NothingLost, ListedOf
      <4>3. ASSUME NEW d \in Chunks, r = chunk[d].auth.resource \/ r \in OwedIds(d)
            PROVE  r = chunk'[d].auth.resource \/ r \in OwedIds(d)'
        BY <1>5, <1>7, <3>2, <4>3
      <4>4. ASSUME NEW u \in Threads, r \in ListedOf(u) PROVE r \in ListedOf(u)'
        BY <1>4, <1>7, <3>2, <4>4
      <4>5. QED
        BY <4>2, <4>3, <4>4
    <3>3. QED
      BY <3>1, <3>2
  <2>2. QED
    BY <2>1 DEF NothingLost, ListedOf
<1>14. \A d \in Chunks : ~chunk'[d].retired
  BY <1>5 DEF OwnersInv, Orderly
<1>15. QED
  BY <1>10, <1>11, <1>12, <1>13, <1>14 DEF OwnersInv

(***************************************************************************)
(* Steps that leave the debts alone                                        *)
(***************************************************************************)
\* What is dropped from a list is no longer stored, and what stays is as it was, or on the
\* list still.
LEMMA KeepOwners ==
  ASSUME TransactionInv, OwnersInv, NEW t \in Threads, NEW c \in Chunks,
         Others(t), \A d \in Chunks : SameOwed(d),
         ListedOf(t)' \subseteq ListedOf(t),
         \A r \in ListedOf(t) : store'[r] # None => r \in ListedOf(t)',
         \A r \in Resources \ ListedOf(t) : Untouched(r),
         \A r \in Resources : store[r] = None => store'[r] = None,
         GoneOf(t) \subseteq ListedOf(t),
         Listing(pc[t], loc[t], store)'
  PROVE  OwnersInv'
<1>1. /\ chunk'[c].auth.resource = chunk[c].auth.resource
      /\ chunk'[c].cleanup = chunk[c].cleanup /\ chunk'[c].retired = chunk[c].retired
      /\ OwedIds(c)' = OwedIds(c)
  BY DEF SameOwed, OwedIds
<1>2. PICK L, M, D, a : /\ L = ListedOf(t) /\ M = ListedOf(t)' /\ D = OwedIds(c)
                        /\ a = chunk[c].auth.resource
  OBVIOUS
<1>3. Reach(t, c) = {a} \cup D \cup L /\ Reach(t, c)' = {a} \cup D \cup M
  BY <1>1, <1>2 DEF Reach
<1>4. /\ M \subseteq L /\ D \cap L = {} /\ a \notin D /\ a \in Resources
      /\ L \subseteq Resources /\ L \cap Fresh = {} /\ D \subseteq Resources
  BY <1>2, Hands, Debts
<1>5. \A r \in Fresh : r \in Resources /\ store[r] = None
  BY DEF Fresh
<1>6. Passes(t, c)
  <2>1. Reach(t, c)' \subseteq Reach(t, c) \cup Fresh
    BY <1>3, <1>4
  <2>2. \A r \in Resources \ (Reach(t, c) \cup Fresh) : Untouched(r)
    BY <1>2, <1>3
  <2>3. \A r \in Reach(t, c) \cup Fresh : store'[r] # None => r \in Reach(t, c)'
    BY <1>2, <1>3, <1>5
  <2>4. GoneOf(t) \subseteq Reach(t, c)
    BY <1>2, <1>3
  <2>5. QED
    BY <2>1, <2>2, <2>3, <2>4 DEF Passes
<1>7. Orderly(t, c)'
  <2>1. Distinct(chunk[c].cleanup) /\ ~chunk[c].retired
    BY DEF OwnersInv, OwedApart
  <2>2. ASSUME NEW i \in 1 .. Len(chunk[c].cleanup), NEW x, x = chunk[c].cleanup[i]
        PROVE  /\ x.id \in Resources
               /\ Stored(store', x, x.tier) \/ \E u \in Threads : x.id \in GoneOf(u)'
    <3>1. x.id \in D
      BY <1>2, <2>2 DEF OwedIds, IdsOf
    <3>2. /\ x.id \in Resources
          /\ Stored(store, x, x.tier) \/ \E u \in Threads : x.id \in GoneOf(u)
      BY <2>2 DEF OwnersInv, OwedStored, GoneOf
    <3>3. x.id \notin L
      BY <1>4, <3>1
    <3>4. CASE Stored(store, x, x.tier)
      BY <1>2, <3>2, <3>3, <3>4, StoredStays
    <3>5. ASSUME NEW u \in Threads, x.id \in GoneOf(u) PROVE x.id \in GoneOf(u)'
      <4>1. u # t
        BY <1>2, <3>3, <3>5
      <4>2. QED
        BY <3>5, <4>1 DEF Others, GoneOf
    <3>6. QED
      BY <3>2, <3>4, <3>5
  <2>3. D \cap M = {}
    BY <1>4
  <2>4. QED
    BY <1>1, <1>2, <1>4, <2>1, <2>2, <2>3 DEF Orderly
<1>8. QED
  BY <1>6, <1>7, OwnersStep

Handed == Filled \cup Unwinding \cup {"settle_src"}

LEMMA NothingInHand ==
  ASSUME NEW p, NEW l, p \notin Handed \/ (p = "rollback" /\ l.todo = <<>>)
  PROVE  Listed(p, l) = {} /\ Gone(p, l) = {}
<1>1. CASE p \notin Handed
  <2>1. p \notin {"settle", "settle_ws", "settle_comp", "settle_src"}
    BY <1>1 DEF Handed, Filled, Unwinding
  <2>2. QED
    BY <1>1, <2>1 DEF Listed, Gone, Handed
<1>2. CASE p = "rollback" /\ l.todo = <<>>
  BY <1>2 DEF Listed, Gone, Unwinding, IdsOf
<1>3. QED
  BY <1>1, <1>2

LEMMA NothingListed ==
  ASSUME NEW p, NEW l, NEW st, p \notin Handed
  PROVE  Listing(p, l, st)
<1>1. p \notin Unwinding \cup Filled \cup Third \cup Moving
  BY DEF Handed, Third, Moving, Filled
<1>2. p \notin {"mat_ws", "rel_ws", "settle_ws", "mat_comp", "rel_comp", "settle_comp"}
  BY <1>1 DEF Filled
<1>3. Gone(p, l) = {}
  BY NothingInHand
<1>4. QED
  BY <1>1, <1>2, <1>3 DEF Listing, Equipped

\* A thread with nothing on its hands goes where it has nothing on its hands.
LEMMA AsideOwners ==
  ASSUME TransactionInv, OwnersInv, NEW t \in Threads, NEW c \in Chunks,
         pc[t] \notin Handed \/ (pc[t] = "rollback" /\ loc[t].todo = <<>>),
         Others(t), pc'[t] \notin Handed,
         \A d \in Chunks : SameOwed(d), \A r \in Resources : Untouched(r)
  PROVE  OwnersInv'
<1>1. ListedOf(t) = {} /\ GoneOf(t) = {}
  BY NothingInHand DEF ListedOf, GoneOf
<1>2. ListedOf(t)' = {}
  BY NothingInHand DEF ListedOf
<1>4. Listing(pc[t], loc[t], store)'
  BY NothingListed
<1>5. \A r \in Resources : store[r] = None => store'[r] = None
  BY DEF Untouched
<1>6. QED
  BY <1>1, <1>2, <1>4, <1>5, KeepOwners

\* All that the owners see of a chunk.
Owes(d, ch) ==
  d.auth.resource = ch.auth.resource /\ d.cleanup = ch.cleanup /\ d.retired = ch.retired

LEMMA OneOwes ==
  ASSUME Typed, NEW c \in Chunks, NEW d, chunk' = [chunk EXCEPT ![c] = d], Owes(d, chunk[c])
  PROVE  \A e \in Chunks : SameOwed(e)
<1>1. chunk \in [Chunks -> ChunkRecords]
  BY DEF Typed
<1>2. chunk'[c] = d /\ \A e \in Chunks \ {c} : chunk'[e] = chunk[e]
  BY <1>1
<1>3. QED
  BY <1>2 DEF Owes, SameOwed

LEMMA Standing ==
  /\ UNCHANGED chunk => \A e \in Chunks : SameOwed(e)
  /\ UNCHANGED store => \A r \in Resources : Untouched(r)
BY DEF SameOwed, Untouched

LEMMA OutsideHands ==
  /\ Outside \cap Handed = {} /\ Unreserved \cap Handed = {}
  /\ "alloc_dst" \notin Handed /\ "rel_src" \notin Handed /\ "terminated" \notin Handed
BY DEF Outside, Handed, Leasing, Holding, Unreserved, Filled, Unwinding

LEMMA UnintendOwes ==
  ASSUME NEW ch \in ChunkRecords, NEW access
  PROVE  /\ Owes(WithoutIntent(ch, access), ch)
         /\ Owes([WithoutIntent(ch, access) EXCEPT !.readers = @ + 1], ch)
         /\ Owes([WithoutIntent(ch, access) EXCEPT !.writer = TRUE], ch)
BY DEF Owes, WithoutIntent, ChunkRecords

LEMMA RecordOwes ==
  ASSUME NEW ch \in ChunkRecords, NEW t
  PROVE  /\ Owes(RecordWrite(ch, t), ch)
         /\ Owes([RecordWrite(ch, t) EXCEPT !.writer = FALSE], ch)
<1>1. CASE loc[t].released = "ok"
  <2>1. PICK a : a = [ch.auth EXCEPT !.content = @ + 1]
    OBVIOUS
  <2>2. a.resource = ch.auth.resource
    BY <2>1 DEF ChunkRecords, Authorities
  <2>3. PICK d : d = [ch EXCEPT !.auth = a]
    OBVIOUS
  <2>4. RecordWrite(ch, t) = d
    BY <1>1, <2>1, <2>3 DEF RecordWrite, ChunkRecords
  <2>5. /\ d.cleanup = ch.cleanup /\ d.retired = ch.retired /\ d.auth = a
        /\ [d EXCEPT !.writer = FALSE].cleanup = ch.cleanup
        /\ [d EXCEPT !.writer = FALSE].retired = ch.retired
        /\ [d EXCEPT !.writer = FALSE].auth = a
    BY <2>3 DEF ChunkRecords
  <2>6. QED
    BY <2>2, <2>4, <2>5 DEF Owes
<1>2. CASE loc[t].released # "ok"
  BY <1>2 DEF RecordWrite, Owes, ChunkRecords
<1>3. QED
  BY <1>1, <1>2

\* The same for a step whose chunk and locals are written out.
LEMMA AsideStep ==
  ASSUME TransactionInv, OwnersInv, NEW t \in Threads, NEW c \in Chunks,
         pc[t] \notin Handed, NEW p, NEW l, Goto(t, p, l), p \notin Handed,
         NEW d, chunk' = [chunk EXCEPT ![c] = d], Owes(d, chunk[c]), UNCHANGED store
  PROVE  OwnersInv'
<1>1. Typed
  BY DEF TransactionInv
<1>2. Others(t) /\ pc'[t] = p
  BY <1>1, GotoOthers
<1>3. QED
  BY <1>1, <1>2, OneOwes, Standing, AsideOwners

LEMMA AsideStays ==
  ASSUME TransactionInv, OwnersInv, NEW t \in Threads, NEW c \in Chunks,
         pc[t] \notin Handed, NEW p, NEW l, Goto(t, p, l), p \notin Handed,
         UNCHANGED chunk, \A r \in Resources : Untouched(r)
  PROVE  OwnersInv'
<1>1. Others(t) /\ pc'[t] = p
  BY GotoOthers DEF TransactionInv
<1>2. QED
  BY <1>1, Standing, AsideOwners

LEMMA ProposeOwners ==
  ASSUME TransactionInv, OwnersInv, NEW t \in Threads, NEW c \in Chunks, NEW d, NEW lim,
         Propose(t, c, d, lim)
  PROVE  OwnersInv'
<1>1. pc[t] = "idle" /\ UNCHANGED <<store, chunk>> /\ \E l : Goto(t, "begin", l)
  BY DEF Propose
<1>2. pc[t] \notin Handed /\ "begin" \notin Handed
  BY <1>1, OutsideHands DEF Outside
<1>3. QED
  BY <1>1, <1>2, Standing, AsideStays

LEMMA IntendOwners ==
  ASSUME TransactionInv, OwnersInv, NEW t \in Threads, NEW c \in Chunks, NEW access,
         Intend(t, c, access)
  PROVE  OwnersInv'
<1>1. /\ pc[t] = "idle" /\ UNCHANGED store /\ Typed /\ chunk[c] \in ChunkRecords
      /\ \E l : Goto(t, "restore", l)
  BY DEF Intend, TransactionInv, Typed
<1>2. PICK w : w = (access = "read_write")
  OBVIOUS
<1>3. PICK n, i : n = chunk[c].revision + 1 /\ i = chunk[c].intents + 1
  OBVIOUS
<1>4. PICK d : d = [chunk[c] EXCEPT !.revision = n, !.intents = i, !.write_intent = w]
  OBVIOUS
<1>5. chunk' = [chunk EXCEPT ![c] = d]
  BY <1>1, <1>2, <1>3, <1>4 DEF Intend, Typed, ChunkRecords
<1>6. Owes(d, chunk[c])
  BY <1>1, <1>4 DEF Owes, ChunkRecords
<1>7. pc[t] \notin Handed /\ "restore" \notin Handed
  BY <1>1, OutsideHands DEF Outside, Leasing
<1>8. QED
  BY <1>1, <1>5, <1>6, <1>7, AsideStep

LEMMA GateOwners ==
  ASSUME TransactionInv, OwnersInv, NEW t \in Threads, Restore(t) \/ TakeGate(t)
  PROVE  OwnersInv'
<1>1. /\ pc[t] \in {"restore", "gate"} /\ UNCHANGED <<store, chunk>>
      /\ \E p \in {"pin", "gate", "begin", "drop_intent"} : \E l : Goto(t, p, l)
  BY DEF Restore, TakeGate
<1>2. PICK p \in {"pin", "gate", "begin", "drop_intent"} : \E l : Goto(t, p, l)
  BY <1>1
<1>3. pc[t] \in Leasing /\ pc[t] \notin Handed /\ p \notin Handed
  BY <1>1, OutsideHands DEF Outside, Leasing
<1>4. loc[t].chunk \in Chunks
  BY <1>3, HoldingFacts
<1>5. QED
  BY <1>1, <1>2, <1>3, <1>4, Standing, AsideStays

LEMMA IntentOwners ==
  ASSUME TransactionInv, OwnersInv, NEW t \in Threads, DropIntent(t) \/ Pin(t)
  PROVE  OwnersInv'
<1>1. pc[t] \in {"pin", "drop_intent"} /\ UNCHANGED store
  BY DEF DropIntent, Pin
<1>2. pc[t] \in Leasing /\ pc[t] \notin Handed /\ "idle" \notin Handed /\ "leased" \notin Handed
  BY <1>1, OutsideHands DEF Outside, Leasing, Holding
<1>3. PICK c \in Chunks : c = loc[t].chunk
  BY <1>2, HoldingFacts
<1>4. chunk[c] \in ChunkRecords
  BY DEF TransactionInv, Typed
<1>5. PICK after : after = WithoutIntent(chunk[c], loc[t].access)
  OBVIOUS
<1>6. PICK e, f : e = [after EXCEPT !.readers = @ + 1] /\ f = [after EXCEPT !.writer = TRUE]
  OBVIOUS
<1>7. \A d \in {after, e, f} : Owes(d, chunk[c])
  BY <1>4, <1>5, <1>6, UnintendOwes
<1>8. PICK l : l = [loc[t] EXCEPT !.initial = chunk[c].auth.content]
  OBVIOUS
<1>9. \E p \in {"idle", "leased"}, k \in {IdleLocals, l}, d \in {after, e, f} :
        Goto(t, p, k) /\ chunk' = [chunk EXCEPT ![c] = d]
  <2>1. \/ Goto(t, "idle", IdleLocals) /\ chunk' = [chunk EXCEPT ![c] = after]
        \/ /\ Goto(t, "leased", l)
           /\ chunk' = [chunk EXCEPT ![c] = IF loc[t].access = "read_only" THEN e ELSE f]
    BY <1>3, <1>5, <1>6, <1>8 DEF DropIntent, Pin
  <2>2. QED
    BY <2>1
<1>10. QED
  BY <1>1, <1>2, <1>7, <1>9, AsideStep

LEMMA WriteOwners ==
  ASSUME TransactionInv, OwnersInv, NEW t \in Threads, WriteBytes(t) \/ CloseUnwritten(t)
  PROVE  OwnersInv'
<1>1. PICK next \in {"writing", "closing_write"} : pc[t] = "leased" /\ BackendWrite(t, next)
  BY DEF WriteBytes, CloseUnwritten
<1>2. pc[t] \in Leasing /\ pc[t] \notin Handed /\ next \notin Handed
  BY <1>1, OutsideHands DEF Outside, Leasing, Holding
<1>3. PICK c \in Chunks : c = loc[t].chunk
  BY <1>2, HoldingFacts
<1>4. PICK q \in Resources : q = chunk[c].auth.resource
  BY <1>2, <1>3, HoldingFacts DEF Typed, ChunkRecords, Authorities
<1>5. store \in [Resources -> Descriptors \cup {None}] /\ store[q] # None
  BY <1>2, <1>3, <1>4, HoldingFacts DEF ChunkKept, Typed
<1>6. (\E l : Goto(t, next, l)) /\ UNCHANGED chunk
  BY <1>1 DEF BackendWrite
<1>7. \/ store' = store
      \/ \E v : store' = [store EXCEPT ![q].content = v]
  BY <1>1, <1>3, <1>4 DEF BackendWrite
<1>8. ASSUME NEW v, store' = [store EXCEPT ![q].content = v], NEW r \in Resources
      PROVE  Untouched(r)
  <2>1. CASE r = q
    <3>1. PICK x \in Descriptors : x = store[r]
      BY <1>5, <2>1
    <3>2. store'[r] = [x EXCEPT !.content = v]
      BY <1>5, <1>8, <2>1, <3>1
    <3>3. PICK y : y = [x EXCEPT !.content = v]
      OBVIOUS
    <3>4. y.tier = x.tier /\ y.charge = x.charge /\ y = store'[r]
      BY <3>1, <3>2, <3>3 DEF Descriptors
    <3>5. store'[r] # None /\ store[r] # None
      <4>1. TransactionInv'
        BY WriteBytesStep, CloseUnwrittenStep
      <4>2. ChunkKept(c)'
        BY <4>1 DEF TransactionInv, Kept
      <4>3. store'[q] # None
        BY <1>4, <1>6, <4>2 DEF ChunkKept
      <4>4. QED
        BY <1>5, <2>1, <4>3
    <3>6. QED
      BY <3>1, <3>4, <3>5 DEF Untouched
  <2>2. CASE r # q
    BY <1>5, <1>8, <2>2 DEF Untouched
  <2>3. QED
    BY <2>1, <2>2
<1>9. \A r \in Resources : Untouched(r)
  BY <1>7, <1>8, Standing
<1>10. QED
  BY <1>2, <1>6, <1>9, AsideStays

LEMMA RecordOwners ==
  ASSUME TransactionInv, OwnersInv, NEW t \in Threads, WriteDone(t) \/ CloseWriteDone(t)
  PROVE  OwnersInv'
<1>1. pc[t] \in {"writing", "closing_write"} /\ UNCHANGED store
  BY DEF WriteDone, CloseWriteDone
<1>2. /\ pc[t] \in Writing /\ pc[t] \notin Handed
      /\ "leased" \notin Handed /\ "idle" \notin Handed
  BY <1>1, OutsideHands DEF Outside, Leasing, Holding, Writing
<1>3. PICK c \in Chunks : c = loc[t].chunk
  BY <1>2, HoldingFacts DEF Writing, Leasing, Holding
<1>4. chunk[c] \in ChunkRecords
  BY DEF TransactionInv, Typed
<1>5. PICK d : d = RecordWrite(chunk[c], t)
  OBVIOUS
<1>6. StillPinned(chunk[c], t) /\ chunk[c].auth.content = loc[t].src.content
  BY <1>2, <1>3, <1>5, RecordFacts
<1>7. PICK e : e = [d EXCEPT !.writer = FALSE]
  OBVIOUS
<1>8. Owes(d, chunk[c]) /\ Owes(e, chunk[c])
  BY <1>4, <1>5, <1>7, RecordOwes
<1>9. CASE WriteDone(t)
  <2>1. (\E l : Goto(t, "leased", l)) /\ chunk' = [chunk EXCEPT ![c] = d]
    BY <1>3, <1>5, <1>6, <1>9 DEF WriteDone
  <2>2. QED
    BY <1>1, <1>2, <1>8, <2>1, AsideStep
<1>10. CASE CloseWriteDone(t)
  <2>1. Goto(t, "idle", IdleLocals) /\ chunk' = [chunk EXCEPT ![c] = e]
    BY <1>3, <1>5, <1>6, <1>7, <1>10 DEF CloseWriteDone
  <2>2. QED
    BY <1>1, <1>2, <1>8, <2>1, AsideStep
<1>11. QED
  BY <1>9, <1>10

LEMMA CloseOwners ==
  ASSUME TransactionInv, OwnersInv, NEW t \in Threads, CloseRead(t) \/ CloseWritten(t)
  PROVE  OwnersInv'
<1>1. pc[t] = "leased" /\ UNCHANGED store /\ Goto(t, "idle", IdleLocals)
  BY DEF CloseRead, CloseWritten
<1>2. pc[t] \in Leasing /\ pc[t] \notin Handed /\ "idle" \notin Handed
  BY <1>1, OutsideHands DEF Outside, Leasing, Holding
<1>3. PICK c \in Chunks : c = loc[t].chunk
  BY <1>2, HoldingFacts
<1>4. chunk[c] \in ChunkRecords /\ chunk \in [Chunks -> ChunkRecords]
  BY DEF TransactionInv, Typed
<1>5. CASE CloseRead(t)
  <2>1. PICK n : n = chunk[c].readers - 1
    OBVIOUS
  <2>2. PICK d : d = [chunk[c] EXCEPT !.readers = n]
    OBVIOUS
  <2>3. chunk' = [chunk EXCEPT ![c] = d]
    BY <1>3, <1>4, <1>5, <2>1, <2>2 DEF CloseRead, ChunkRecords
  <2>4. Owes(d, chunk[c])
    BY <1>4, <2>2 DEF Owes, ChunkRecords
  <2>5. QED
    BY <1>1, <1>2, <2>3, <2>4, AsideStep
<1>6. CASE CloseWritten(t)
  <2>1. PICK life : life = IF chunk[c].auth.content = MaxGeneration THEN "poisoned"
                           ELSE chunk[c].lifecycle
    OBVIOUS
  <2>2. PICK d : d = [chunk[c] EXCEPT !.writer = FALSE, !.lifecycle = life]
    OBVIOUS
  <2>3. chunk' = [chunk EXCEPT ![c] = d]
    BY <1>3, <1>4, <1>6, <2>1, <2>2 DEF CloseWritten, ChunkRecords
  <2>4. Owes(d, chunk[c])
    BY <1>4, <2>2 DEF Owes, ChunkRecords
  <2>5. QED
    BY <1>1, <1>2, <2>3, <2>4, AsideStep
<1>7. QED
  BY <1>5, <1>6

LEMMA ClearOwes ==
  ASSUME NEW t \in Threads, NEW ch \in ChunkRecords
  PROVE  Owes(ClearTransition(ch, t), ch) /\ Owes(Poison(ch, t), ch)
<1>1. PICK u : u = (IF ch.txn = t THEN None ELSE ch.txn)
  OBVIOUS
<1>2. PICK d : d = [ch EXCEPT !.txn = u]
  OBVIOUS
<1>3. ClearTransition(ch, t) = d
  BY <1>1, <1>2 DEF ClearTransition
<1>4. PICK e : e = [d EXCEPT !.lifecycle = "poisoned"]
  OBVIOUS
<1>5. Poison(ch, t) = e
  BY <1>3, <1>4 DEF Poison
<1>6. Owes(d, ch) /\ Owes(e, ch)
  BY <1>2, <1>4 DEF Owes, ChunkRecords
<1>7. QED
  BY <1>3, <1>5, <1>6

\* A migration returns, or goes on, with nothing on its hands.
LEMMA QuitOwners ==
  ASSUME TransactionInv, OwnersInv, NEW t \in Threads,
         pc[t] \in PreCommit \cup PostCommit \cup Unwinding,
         pc[t] \notin Handed \/ (pc[t] = "rollback" /\ loc[t].todo = <<>>),
         Others(t), pc'[t] \notin Handed, UNCHANGED store,
         \/ UNCHANGED chunk
         \/ chunk' = [chunk EXCEPT ![loc[t].chunk] = Poison(@, t)]
         \/ chunk' = [chunk EXCEPT ![loc[t].chunk] = ClearTransition(@, t)]
  PROVE  OwnersInv'
<1>1. PICK c \in Chunks : c = loc[t].chunk
  BY WorkFacts
<1>2. Typed /\ chunk[c] \in ChunkRecords
  BY DEF TransactionInv, Typed
<1>3. ASSUME NEW d \in {Poison(chunk[c], t), ClearTransition(chunk[c], t)},
             chunk' = [chunk EXCEPT ![c] = d]
      PROVE  \A e \in Chunks : SameOwed(e)
  BY <1>2, <1>3, ClearOwes, OneOwes
<1>4. \A e \in Chunks : SameOwed(e)
  BY <1>1, <1>3, Standing
<1>5. QED
  BY <1>1, <1>4, Standing, AsideOwners

LEMMA ReturnHands ==
  ASSUME TransactionInv, NEW t \in Threads, NEW ok \in BOOLEAN, Return(t, ok)
  PROVE  Others(t) /\ pc'[t] \notin Handed
<1>1. PICK p \in {"idle", "pin", "drop_intent"} : Moves(t, p, ReturnLocals(loc[t]))
  BY ReturnMoves DEF TransactionInv
<1>2. QED
  BY <1>1, OutsideHands DEF Moves, Outside, Leasing

LEMMA BeginOwners ==
  ASSUME TransactionInv, OwnersInv, NEW t \in Threads, Begin(t)
  PROVE  OwnersInv'
<1>1. pc[t] = "begin" /\ UNCHANGED store /\ Typed
  BY DEF Begin, TransactionInv
<1>2. PICK c \in Chunks : c = loc[t].chunk
  BY <1>1 DEF TransactionInv, Threaded, ThreadInv, PlacedAt
<1>3. chunk[c] \in ChunkRecords /\ chunk \in [Chunks -> ChunkRecords]
  BY <1>1 DEF Typed
<1>4. pc[t] \notin Handed /\ "project" \notin Handed
  BY <1>1, OutsideHands DEF Outside, Unreserved
<1>5. ASSUME NEW ok \in BOOLEAN, Return(t, ok), UNCHANGED chunk PROVE OwnersInv'
  BY <1>1, <1>2, <1>4, <1>5, ReturnHands, Standing, AsideOwners
<1>6. CASE (\E l : Goto(t, "project", l)) /\ chunk' = [chunk EXCEPT ![c].txn = t]
  <2>1. PICK d : d = [chunk[c] EXCEPT !.txn = t]
    OBVIOUS
  <2>2. chunk' = [chunk EXCEPT ![c] = d] /\ Owes(d, chunk[c])
    BY <1>3, <1>6, <2>1 DEF Owes, ChunkRecords
  <2>3. QED
    BY <1>1, <1>4, <1>6, <2>2, AsideStep
<1>7. QED
  BY <1>2, <1>5, <1>6 DEF Begin

LEMMA ProjectOwners ==
  ASSUME TransactionInv, OwnersInv, NEW t \in Threads, Project(t)
  PROVE  OwnersInv'
<1>1. pc[t] = "project" /\ UNCHANGED store /\ Typed
  BY DEF Project, TransactionInv
<1>2. pc[t] \in PreCommit /\ pc[t] \notin Handed /\ "reserve" \notin Handed
  BY <1>1, OutsideHands DEF Unreserved, PreCommit
<1>3. Others(t) /\ pc'[t] \notin Handed
  <2>1. Return(t, FALSE) \/ Goto(t, "reserve", loc[t])
    BY DEF Project
  <2>2. QED
    BY <1>1, <1>2, <2>1, ReturnHands, GotoOthers
<1>4. \/ UNCHANGED chunk
      \/ chunk' = [chunk EXCEPT ![loc[t].chunk] = Poison(@, t)]
      \/ chunk' = [chunk EXCEPT ![loc[t].chunk] = ClearTransition(@, t)]
  BY DEF Project
<1>5. QED
  BY <1>1, <1>2, <1>3, <1>4, QuitOwners

LEMMA ReserveAllOwners ==
  ASSUME TransactionInv, OwnersInv, NEW t \in Threads, ReserveAll(t)
  PROVE  OwnersInv'
<1>1. pc[t] = "reserve" /\ UNCHANGED store /\ Typed
  BY DEF ReserveAll, TransactionInv
<1>2. pc[t] \in PreCommit /\ pc[t] \notin Handed /\ "alloc_dst" \notin Handed
  BY <1>1, OutsideHands DEF Unreserved, PreCommit
<1>3. Others(t) /\ pc'[t] \notin Handed
  <2>1. Return(t, FALSE) \/ \E l : Goto(t, "alloc_dst", l)
    BY DEF ReserveAll
  <2>2. QED
    BY <1>1, <1>2, <2>1, ReturnHands, GotoOthers
<1>4. \/ UNCHANGED chunk
      \/ chunk' = [chunk EXCEPT ![loc[t].chunk] = ClearTransition(@, t)]
  BY DEF ReserveAll
<1>5. QED
  BY <1>1, <1>2, <1>3, <1>4, QuitOwners

LEMMA FinishOwners ==
  ASSUME TransactionInv, OwnersInv, NEW t \in Threads, Finish(t)
  PROVE  OwnersInv'
<1>1. pc[t] = "rollback" /\ loc[t].todo = <<>> /\ UNCHANGED store /\ Typed
  BY DEF Finish, TransactionInv
<1>2. pc[t] \in Unwinding /\ "terminated" \notin Handed
  BY <1>1, OutsideHands DEF Unwinding
<1>3. Others(t) /\ pc'[t] \notin Handed
  <2>1. Return(t, FALSE) \/ Goto(t, "terminated", loc[t])
    BY DEF Finish, Terminate
  <2>2. QED
    BY <1>1, <1>2, <2>1, ReturnHands, GotoOthers
<1>4. \/ UNCHANGED chunk
      \/ chunk' = [chunk EXCEPT ![loc[t].chunk] = Poison(@, t)]
      \/ chunk' = [chunk EXCEPT ![loc[t].chunk] = ClearTransition(@, t)]
  BY DEF Finish
<1>5. QED
  BY <1>1, <1>2, <1>3, <1>4, QuitOwners

(***************************************************************************)
(* Rollbacks take over what is in hand                                     *)
(***************************************************************************)
LEMMA Stock ==
  ASSUME TransactionInv, OwnersInv, NEW t \in Threads, pc[t] \in Filled
  PROVE  /\ loc[t].chunk \in Chunks /\ loc[t] \in Locals /\ pc[t] \notin Unwinding
         /\ ListedOf(t) = {loc[t].dst.id, loc[t].ws.id, loc[t].comp.id} \ {None}
         /\ loc[t].dst.id \in Resources \ {loc[t].ws.id, loc[t].comp.id} /\ None \notin Resources
         /\ pc[t] # "reconcile" => Stored(store, loc[t].dst, DestTier(t))
         /\ loc[t].ws # NoAlloc =>
              /\ loc[t].ws.id \in Resources \ {loc[t].comp.id}
              /\ loc[t].ws.id \in GoneOf(t) \/ Stored(store, loc[t].ws, DestTier(t))
         /\ loc[t].comp # NoAlloc =>
              /\ loc[t].comp.id \in Resources
              /\ pc[t] # "reconcile" =>
                   loc[t].comp.id \in GoneOf(t) \/ Stored(store, loc[t].comp, DestTier(t))
         /\ loc[t].ws = NoAlloc => loc[t].ws.id = None
         /\ loc[t].comp = NoAlloc => loc[t].comp.id = None
         /\ Equipped(pc[t], loc[t])
<1>1. loc[t] \in Locals /\ loc[t].chunk \in Chunks /\ pc[t] \notin Unwinding
  BY WorkFacts DEF PreCommit, Filled, Unwinding
<1>2. None \notin Resources
  BY TransactionAssumption DEF TransactionAssumption
<1>3. Listing(pc[t], loc[t], store) /\ DeliveringAt(pc[t], loc[t], store)
  BY DEF OwnersInv, TransactionInv, Threaded, ThreadInv
<1>4. ListedOf(t) = {loc[t].dst.id, loc[t].ws.id, loc[t].comp.id} \ {None}
  BY <1>1 DEF ListedOf, Listed
<1>5. /\ loc[t].dst.id \in Resources \ {loc[t].ws.id, loc[t].comp.id}
      /\ pc[t] # "reconcile" => Stored(store, loc[t].dst, DestTier(t))
  BY <1>3 DEF DeliveringAt, Stored, DestTier
<1>6. loc[t].ws # NoAlloc =>
        /\ loc[t].ws.id \in Resources \ {loc[t].comp.id}
        /\ loc[t].ws.id \in GoneOf(t) \/ Stored(store, loc[t].ws, DestTier(t))
  BY <1>3 DEF Listing, GoneOf, DestTier
<1>7. loc[t].comp # NoAlloc =>
        /\ loc[t].comp.id \in Resources
        /\ pc[t] # "reconcile" =>
             loc[t].comp.id \in GoneOf(t) \/ Stored(store, loc[t].comp, DestTier(t))
  BY <1>3 DEF Listing, GoneOf, DestTier, TargetAt
<1>8. NoAlloc.id = None
  BY DEF NoAlloc
<1>9. QED
  BY <1>1, <1>2, <1>3, <1>4, <1>5, <1>6, <1>7, <1>8 DEF Listing

\* The lists a rollback starts with, in a store where all that is on them is stored.
LEMMA LongLists ==
  ASSUME NEW x, NEW y, NEW z, NEW e, e = <<y>>, NEW s
  PROVE  /\ s = e \o <<x>> => Len(s) = 2 /\ s[1] = y /\ s[2] = x
         /\ s = <<z>> \o e \o <<x>> => Len(s) = 3 /\ s[1] = z /\ s[2] = y /\ s[3] = x
<1>1. Len(e \o <<x>>) = 2 /\ (e \o <<x>>)[1] = y /\ (e \o <<x>>)[2] = x
  OBVIOUS
<1>2. /\ Len(<<z>> \o e \o <<x>>) = 3 /\ (<<z>> \o e \o <<x>>)[1] = z
      /\ (<<z>> \o e \o <<x>>)[2] = y /\ (<<z>> \o e \o <<x>>)[3] = x
  OBVIOUS
<1>3. QED
  BY <1>1, <1>2

LEMMA TwoHeld ==
  ASSUME NEW st, NEW tier, NEW s, Len(s) = 2, Stored(st, s[1], tier), Stored(st, s[2], tier),
         s[1].id # s[2].id
  PROVE  Holds(s, st, tier) /\ IdsOf(s) = {s[1].id, s[2].id}
<1>1. 1 .. Len(s) = {1, 2}
  OBVIOUS
<1>2. IdsOf(s) = {s[1].id, s[2].id}
  BY <1>1 DEF IdsOf
<1>3. QED
  BY <1>1, <1>2 DEF Holds, Distinct

LEMMA ThreeHeld ==
  ASSUME NEW st, NEW tier, NEW s, Len(s) = 3,
         Stored(st, s[1], tier), Stored(st, s[2], tier), Stored(st, s[3], tier),
         s[1].id # s[2].id, s[1].id # s[3].id, s[2].id # s[3].id
  PROVE  Holds(s, st, tier) /\ IdsOf(s) = {s[1].id, s[2].id, s[3].id}
<1>1. 1 .. Len(s) = {1, 2, 3}
  OBVIOUS
<1>2. IdsOf(s) = {s[1].id, s[2].id, s[3].id}
  BY <1>1 DEF IdsOf
<1>3. QED
  BY <1>1, <1>2 DEF Holds, Distinct

\* What the lists of thread t have to be made of.
InStock(t, st, tier) ==
  /\ Stored(st, loc[t].dst, tier) /\ loc[t].dst.id \notin {loc[t].ws.id, loc[t].comp.id}
  /\ None \notin Resources /\ NoAlloc.id = None

\* An item of allocation a is as good as a.
LEMMA ItemStored ==
  ASSUME NEW st, NEW tier, NEW a, NEW x, x.id = a.id, x.charge = a.charge, Stored(st, a, tier),
         None \notin Resources
  PROVE  Stored(st, x, tier) /\ x.id # None
BY DEF Stored

LEMMA PairHeld ==
  ASSUME NEW t \in Threads, NEW st, NEW tier, InStock(t, st, tier), Stored(st, loc[t].ws, tier),
         NEW poison, NEW s,
         s = <<Item(loc[t].ws, "workspace", FALSE), Item(loc[t].dst, "staging", poison)>>
  PROVE  Holds(s, st, tier) /\ IdsOf(s) = {loc[t].ws.id, loc[t].dst.id}
<1>1. PICK x, y : x = Item(loc[t].dst, "staging", poison) /\ y = Item(loc[t].ws, "workspace", FALSE)
  OBVIOUS
<1>2. s = <<y, x>> => Len(s) = 2 /\ s[1] = y /\ s[2] = x
  BY PlainLists
<1>3. Len(s) = 2 /\ s[1] = y /\ s[2] = x
  BY <1>1, <1>2
<1>4. /\ x.id = loc[t].dst.id /\ y.id = loc[t].ws.id /\ Stored(st, x, tier) /\ Stored(st, y, tier)
      /\ x.id # y.id
  <2>1. /\ x.id = loc[t].dst.id /\ x.charge = loc[t].dst.charge
        /\ y.id = loc[t].ws.id /\ y.charge = loc[t].ws.charge
    BY <1>1 DEF Item
  <2>2. QED
    BY <2>1, ItemStored DEF InStock
<1>5. s[1].id # s[2].id /\ Stored(st, s[1], tier) /\ Stored(st, s[2], tier)
  BY <1>3, <1>4
<1>6. Holds(s, st, tier) /\ IdsOf(s) = {s[1].id, s[2].id}
  BY <1>3, <1>5, TwoHeld
<1>7. QED
  BY <1>3, <1>4, <1>6

LEMMA WorkHeld ==
  ASSUME NEW t \in Threads, NEW st, NEW tier, InStock(t, st, tier),
         loc[t].ws = NoAlloc \/ Stored(st, loc[t].ws, tier),
         NEW poison, NEW s, s = WorkspaceItem(t) \o <<Item(loc[t].dst, "staging", poison)>>
  PROVE  Holds(s, st, tier) /\ IdsOf(s) = {loc[t].ws.id, loc[t].dst.id} \ {None}
<1>1. PICK x, y : x = Item(loc[t].dst, "staging", poison) /\ y = Item(loc[t].ws, "workspace", FALSE)
  OBVIOUS
<1>2. x.id = loc[t].dst.id /\ Stored(st, x, tier) /\ loc[t].dst.id # None
  <2>1. x.id = loc[t].dst.id /\ x.charge = loc[t].dst.charge
    BY <1>1 DEF Item
  <2>2. QED
    BY <2>1, ItemStored DEF InStock
<1>3. CASE loc[t].ws = NoAlloc
  <2>1. PICK e : e = WorkspaceItem(t) /\ e = <<>>
    BY <1>3 DEF WorkspaceItem
  <2>2. s = e \o <<x>> => Len(s) = 1 /\ s[1] = x
    BY <2>1, ShortLists
  <2>3. Len(s) = 1 /\ s[1] = x
    BY <1>1, <2>1, <2>2
  <2>4. Holds(s, st, tier) /\ IdsOf(s) = {x.id}
    BY <1>2, <2>3 DEF Holds, Distinct, IdsOf
  <2>5. loc[t].ws.id = None
    BY <1>3 DEF InStock
  <2>6. QED
    BY <1>2, <2>4, <2>5
<1>4. CASE loc[t].ws # NoAlloc
  <2>1. PICK e : e = WorkspaceItem(t) /\ e = <<y>>
    BY <1>1, <1>4 DEF WorkspaceItem
  <2>2. s = e \o <<x>> => Len(s) = 2 /\ s[1] = y /\ s[2] = x
    BY <2>1, LongLists
  <2>3. Len(s) = 2 /\ s[1] = y /\ s[2] = x
    BY <1>1, <2>1, <2>2
  <2>4. y.id = loc[t].ws.id /\ Stored(st, y, tier) /\ loc[t].ws.id # None /\ x.id # y.id
    <3>1. y.id = loc[t].ws.id /\ y.charge = loc[t].ws.charge
      BY <1>1 DEF Item
    <3>2. Stored(st, y, tier) /\ y.id # None
      BY <1>4, <3>1, ItemStored DEF InStock
    <3>3. QED
      BY <1>2, <3>1, <3>2 DEF InStock
  <2>5. s[1].id # s[2].id /\ Stored(st, s[1], tier) /\ Stored(st, s[2], tier)
    BY <1>2, <2>3, <2>4
  <2>6. Holds(s, st, tier) /\ IdsOf(s) = {s[1].id, s[2].id}
    BY <2>3, <2>5, TwoHeld
  <2>7. QED
    BY <1>2, <2>3, <2>4, <2>6
<1>5. QED
  BY <1>3, <1>4

LEMMA AllHeld ==
  ASSUME NEW t \in Threads, NEW st, NEW tier, InStock(t, st, tier),
         loc[t].ws = NoAlloc \/ (Stored(st, loc[t].ws, tier) /\ loc[t].ws.id # loc[t].comp.id),
         Stored(st, loc[t].comp, tier),
         NEW poison, NEW s
  PROVE  s = <<Item(loc[t].comp, "workspace", FALSE)>> \o WorkspaceItem(t)
               \o <<Item(loc[t].dst, "staging", poison)>> =>
           Holds(s, st, tier) /\ IdsOf(s) = {loc[t].comp.id, loc[t].ws.id, loc[t].dst.id} \ {None}
<1>1. PICK x, y, z :
        /\ x = Item(loc[t].dst, "staging", poison) /\ y = Item(loc[t].ws, "workspace", FALSE)
        /\ z = Item(loc[t].comp, "workspace", FALSE)
  OBVIOUS
<1>2. /\ x.id = loc[t].dst.id /\ Stored(st, x, tier) /\ loc[t].dst.id # None
      /\ z.id = loc[t].comp.id /\ Stored(st, z, tier) /\ loc[t].comp.id # None /\ x.id # z.id
  <2>1. /\ x.id = loc[t].dst.id /\ x.charge = loc[t].dst.charge
        /\ z.id = loc[t].comp.id /\ z.charge = loc[t].comp.charge
    BY <1>1 DEF Item
  <2>2. QED
    BY <2>1, ItemStored DEF InStock
<1>3. CASE loc[t].ws = NoAlloc
  <2>1. PICK e : e = WorkspaceItem(t) /\ e = <<>>
    BY <1>3 DEF WorkspaceItem
  <2>2. s = <<z>> \o e \o <<x>> => Len(s) = 2 /\ s[1] = z /\ s[2] = x
    <3>1. e = <<>>
      BY <2>1
    <3>2. /\ s = e \o <<x>> => Len(s) = 1 /\ s[1] = x
          /\ s = <<z>> \o e \o <<x>> => Len(s) = 2 /\ s[1] = z /\ s[2] = x
      BY <3>1, ShortLists
    <3>3. QED
      BY <3>2
  <2>3. loc[t].ws.id = None
    BY <1>3 DEF InStock
  <2>4. ASSUME Len(s) = 2, s[1] = z, s[2] = x
        PROVE  /\ Holds(s, st, tier)
               /\ IdsOf(s) = {loc[t].comp.id, loc[t].ws.id, loc[t].dst.id} \ {None}
    <3>1. s[1].id # s[2].id /\ Stored(st, s[1], tier) /\ Stored(st, s[2], tier)
      BY <1>2, <2>4 DEF InStock
    <3>2. Holds(s, st, tier) /\ IdsOf(s) = {s[1].id, s[2].id}
      BY <2>4, <3>1, TwoHeld
    <3>3. QED
      BY <1>2, <2>3, <2>4, <3>2
  <2>5. QED
    BY <1>1, <2>1, <2>2, <2>4
<1>4. CASE loc[t].ws # NoAlloc
  <2>1. PICK e : e = WorkspaceItem(t) /\ e = <<y>>
    BY <1>1, <1>4 DEF WorkspaceItem
  <2>2. s = <<z>> \o e \o <<x>> => Len(s) = 3 /\ s[1] = z /\ s[2] = y /\ s[3] = x
    <3>1. e = <<y>>
      BY <2>1
    <3>2. /\ Len(<<z>> \o e \o <<x>>) = 3 /\ (<<z>> \o e \o <<x>>)[1] = z
          /\ (<<z>> \o e \o <<x>>)[2] = y /\ (<<z>> \o e \o <<x>>)[3] = x
      BY <3>1
    <3>3. QED
      BY <3>2
  <2>4. y.id = loc[t].ws.id /\ Stored(st, y, tier) /\ loc[t].ws.id # None /\ x.id # y.id
    <3>1. y.id = loc[t].ws.id /\ y.charge = loc[t].ws.charge
      BY <1>1 DEF Item
    <3>2. Stored(st, y, tier) /\ y.id # None
      BY <1>4, <3>1, ItemStored DEF InStock
    <3>3. QED
      BY <1>2, <3>1, <3>2 DEF InStock
  <2>5. ASSUME Len(s) = 3, s[1] = z, s[2] = y, s[3] = x
        PROVE  /\ Holds(s, st, tier)
               /\ IdsOf(s) = {loc[t].comp.id, loc[t].ws.id, loc[t].dst.id} \ {None}
    <3>1. /\ s[1].id # s[2].id /\ s[1].id # s[3].id /\ s[2].id # s[3].id
          /\ Stored(st, s[1], tier) /\ Stored(st, s[2], tier) /\ Stored(st, s[3], tier)
      BY <1>2, <1>4, <2>4, <2>5 DEF InStock
    <3>2. Holds(s, st, tier) /\ IdsOf(s) = {s[1].id, s[2].id, s[3].id}
      BY <2>5, <3>1, ThreeHeld
    <3>3. QED
      BY <1>2, <2>4, <2>5, <3>2
  <2>6. QED
    BY <1>1, <2>1, <2>2, <2>5
<1>5. QED
  BY <1>3, <1>4

\* All that is in hand goes on the list.
LEMMA RollBackOwners ==
  ASSUME TransactionInv, OwnersInv, NEW t \in Threads, pc[t] \in Filled, pc[t] # "reconcile",
         GoneOf(t) = {}, Others(t), NEW l, pc'[t] = "rollback", loc'[t] = l,
         l.dest = loc[t].dest, Holds(l.todo, store, DestTier(t)), IdsOf(l.todo) = ListedOf(t),
         UNCHANGED <<store, chunk>>
  PROVE  OwnersInv'
<1>1. PICK c \in Chunks : c = loc[t].chunk
  BY Stock
<1>2. "rollback" \in Unwinding /\ "rollback" \notin Filled \cup Third \cup Moving
  BY DEF Unwinding, Filled, Third, Moving
<1>3. ListedOf(t)' = ListedOf(t)
  BY <1>2 DEF ListedOf, Listed
<1>4. Listing("rollback", l, store)
  <2>1. Gone("rollback", l) = {} /\ Equipped("rollback", l)
    BY <1>2 DEF Gone, Equipped
  <2>2. TierOf(l.dest) = DestTier(t)
    BY DEF DestTier
  <2>3. Distinct(l.todo)
        /\ \A i \in 1 .. Len(l.todo) : /\ l.todo[i].id \in Resources
                                       /\ Stored(store, l.todo[i], TierOf(l.dest))
    BY <2>2 DEF Holds, Stored
  <2>4. QED
    BY <1>2, <2>1, <2>3 DEF Listing
<1>5. (\A d \in Chunks : SameOwed(d)) /\ \A r \in Resources : Untouched(r)
  BY Standing
<1>6. GoneOf(t) \subseteq ListedOf(t)
  OBVIOUS
<1>7. Listing(pc[t], loc[t], store)'
  BY <1>4
<1>8. QED
  BY <1>3, <1>5, <1>6, <1>7, KeepOwners

\* What migrate rolls back in these states, before and after there is a compaction target.
LEMMA WorkRollsBack ==
  ASSUME TransactionInv, OwnersInv, NEW t \in Threads, pc[t] \in Filled, pc[t] # "reconcile",
         GoneOf(t) = {}, loc[t].comp = NoAlloc, UNCHANGED <<store, chunk>>,
         NEW items, NEW poison,
         items = WorkspaceItem(t) \o <<Item(loc[t].dst, "staging", poison)>>,
         NEW l, Goto(t, "rollback", l), l.todo = items, l.dest = loc[t].dest
  PROVE  OwnersInv'
<1>1. Others(t) /\ pc'[t] = "rollback" /\ loc'[t] = l
  BY GotoOthers DEF TransactionInv
<1>2. NoAlloc.id = None
  BY DEF NoAlloc
<1>3. InStock(t, store, DestTier(t)) /\ (loc[t].ws = NoAlloc \/ Stored(store, loc[t].ws, DestTier(t)))
  BY <1>2, Stock DEF InStock
<1>4. Holds(items, store, DestTier(t)) /\ IdsOf(items) = {loc[t].ws.id, loc[t].dst.id} \ {None}
  BY <1>3, WorkHeld
<1>5. IdsOf(items) = ListedOf(t)
  BY <1>2, <1>4, Stock
<1>6. QED
  BY <1>1, <1>4, <1>5, RollBackOwners

LEMMA GiveUpOwners ==
  ASSUME TransactionInv, OwnersInv, NEW t \in Threads, pc[t] \in Filled, pc[t] # "reconcile",
         GoneOf(t) = {}, loc[t].comp = NoAlloc, UNCHANGED <<store, chunk>>,
         NEW poison, NEW ending,
         RollBack(t, WorkspaceItem(t) \o <<Item(loc[t].dst, "staging", poison)>>, ending)
  PROVE  OwnersInv'
<1>1. PICK items : items = WorkspaceItem(t) \o <<Item(loc[t].dst, "staging", poison)>>
  OBVIOUS
<1>2. PICK l : l = [loc[t] EXCEPT !.todo = items, !.ending = ending]
  OBVIOUS
<1>3. Goto(t, "rollback", l)
  BY <1>1, <1>2 DEF RollBack
<1>4. l.todo = items /\ l.dest = loc[t].dest
  BY <1>2 DEF TransactionInv, Typed, Locals
<1>5. QED
  BY <1>1, <1>3, <1>4, WorkRollsBack

(***************************************************************************)
(* The ways of a resource: on, out of the hands, into debt, into being     *)
(***************************************************************************)
\* On to the next position, without the temporaries that are gone.
LEMMA WalkOwners ==
  ASSUME TransactionInv, OwnersInv, NEW t \in Threads, pc[t] \in Filled, pc[t] # "reconcile",
         NEW p \in Filled, p # "reconcile", NEW l, Goto(t, p, l), Gone(p, l) = {}, Equipped(p, l),
         l.dest = loc[t].dest, l.dst = loc[t].dst,
         \/ l.ws = loc[t].ws /\ loc[t].ws.id \notin GoneOf(t)
         \/ l.ws = NoAlloc /\ loc[t].ws.id \in GoneOf(t),
         \/ l.comp = loc[t].comp /\ loc[t].comp.id \notin GoneOf(t)
         \/ l.comp = NoAlloc /\ loc[t].comp.id \in GoneOf(t),
         UNCHANGED <<store, chunk>>
  PROVE  OwnersInv'
<1>1. Others(t) /\ pc'[t] = p /\ loc'[t] = l
  BY GotoOthers DEF TransactionInv
<1>2. PICK c \in Chunks : c = loc[t].chunk
  BY Stock
<1>3. NoAlloc.id = None /\ None \notin Resources /\ p \notin Unwinding
  BY TransactionAssumption DEF NoAlloc, TransactionAssumption, Filled, Unwinding
<1>4. ListedOf(t)' = {l.dst.id, l.ws.id, l.comp.id} \ {None}
      /\ ListedOf(t) = {loc[t].dst.id, loc[t].ws.id, loc[t].comp.id} \ {None}
  BY <1>1, <1>3, Stock DEF ListedOf, Listed
<1>5. ListedOf(t)' \subseteq ListedOf(t)
  BY <1>3, <1>4
<1>6. \A r \in GoneOf(t) : store[r] = None
  BY DEF OwnersInv, Listing, GoneOf
<1>7. \A r \in ListedOf(t) : store'[r] # None => r \in ListedOf(t)'
  BY <1>3, <1>4, <1>6
<1>8. GoneOf(t) \subseteq ListedOf(t)
  <2>1. pc[t] \notin {"settle", "settle_src"}
    BY DEF Filled
  <2>2. GoneOf(t) \subseteq {loc[t].ws.id, loc[t].comp.id}
    BY <2>1 DEF GoneOf, Gone
  <2>3. /\ pc[t] = "settle_ws" => loc[t].ws.id # None
        /\ pc[t] = "settle_comp" => loc[t].comp.id # None
    BY <1>3, Stock DEF Equipped
  <2>4. None \notin GoneOf(t)
    BY <2>1, <2>3 DEF GoneOf, Gone
  <2>5. QED
    BY <1>4, <2>2, <2>4
<1>9. Listing(p, l, store)
  <2>1. TargetAt(p, l) = l.comp /\ TierOf(l.dest) = DestTier(t)
    BY DEF TargetAt, DestTier
  <2>2. l.ws = NoAlloc \/ (l.ws.id \in Resources \ {l.comp.id} /\ Stored(store, l.ws, DestTier(t)))
    <3>1. ASSUME l.ws # NoAlloc
          PROVE  /\ l.ws.id \in Resources \ {loc[t].comp.id} /\ Stored(store, l.ws, DestTier(t))
      BY <3>1, Stock
    <3>2. QED
      BY <1>3, <3>1
  <2>3. l.comp = NoAlloc \/ (l.comp.id \in Resources /\ Stored(store, l.comp, DestTier(t)))
    BY Stock
  <2>4. QED
    BY <1>3, <2>1, <2>2, <2>3 DEF Listing
<1>10. Listing(pc[t], loc[t], store)'
  BY <1>1, <1>9
<1>11. QED
  BY <1>1, <1>2, <1>5, <1>7, <1>8, <1>10, Standing, KeepOwners

\* Released, or not: the thread finds out when it settles.
LEMMA ReleaseOwners ==
  ASSUME TransactionInv, OwnersInv, NEW t \in Threads, NEW c \in Chunks, GoneOf(t) = {},
         NEW id \in ListedOf(t), Others(t), ListedOf(t)' = ListedOf(t), UNCHANGED chunk,
         store' = store \/ store' = [store EXCEPT ![id] = None],
         Listing(pc[t], loc[t], store)'
  PROVE  OwnersInv'
<1>1. store \in [Resources -> Descriptors \cup {None}] /\ id \in Resources
  BY Hands DEF TransactionInv, Typed
<1>2. \A r \in Resources \ {id} : store'[r] = store[r]
  BY <1>1
<1>3. store'[id] \in {store[id], None}
  BY <1>1
<1>4. \A r \in Resources \ ListedOf(t) : Untouched(r)
  BY <1>2 DEF Untouched
<1>5. \A r \in Resources : store[r] = None => store'[r] = None
  BY <1>2, <1>3
<1>6. QED
  BY <1>4, <1>5, Standing, KeepOwners

\* A resource goes from the hands of the thread to the cleanup list of its chunk.
LEMMA OweOwners ==
  ASSUME TransactionInv, OwnersInv, NEW t \in Threads, NEW c \in Chunks, NEW d,
         Others(t), chunk' = [chunk EXCEPT ![c] = d],
         d.auth.resource = chunk[c].auth.resource, d.retired = chunk[c].retired,
         NEW a, d.cleanup = Append(chunk[c].cleanup, a), Stored(store, a, a.tier),
         a.id \in ListedOf(t), ListedOf(t)' = ListedOf(t) \ {a.id}, GoneOf(t) = {},
         UNCHANGED store, Listing(pc[t], loc[t], store)'
  PROVE  OwnersInv'
<1>1. PICK s \in Seq(CleanupResources), n \in Nat : s = chunk[c].cleanup /\ n = Len(s)
  <2>1. chunk[c].cleanup \in Seq(CleanupResources) /\ Len(chunk[c].cleanup) \in Nat
    BY DEF TransactionInv, Typed, ChunkRecords
  <2>2. QED
    BY <2>1
<1>2. PICK q : q = d.cleanup
  OBVIOUS
<1>3. /\ Len(q) = n + 1 /\ q[n + 1] = a
      /\ \A i \in 1 .. n : q[i] = s[i] /\ i \in 1 .. n + 1 /\ i # n + 1
      /\ \A i \in 1 .. n + 1 : i \in 1 .. n \/ i = n + 1
  <2>1. q = Append(s, a)
    BY <1>1, <1>2
  <2>2. Len(q) = n + 1 /\ q[n + 1] = a /\ \A i \in 1 .. n : q[i] = s[i]
    BY <1>1, <2>1
  <2>3. /\ \A i \in 1 .. n : i \in 1 .. n + 1 /\ i # n + 1
        /\ \A i \in 1 .. n + 1 : i \in 1 .. n \/ i = n + 1
    OBVIOUS
  <2>4. QED
    BY <2>2, <2>3
<1>4. /\ chunk'[c] = d /\ \A e \in Chunks \ {c} : chunk'[e] = chunk[e]
  BY DEF TransactionInv, Typed
<1>5. PICK D, L, x : D = OwedIds(c) /\ L = ListedOf(t) /\ x = chunk[c].auth.resource
  OBVIOUS
<1>6. D = {s[i].id : i \in 1 .. n}
  BY <1>1, <1>5 DEF OwedIds, IdsOf
<1>7. OwedIds(c)' = D \cup {a.id}
  <2>1. OwedIds(c)' = {q[i].id : i \in 1 .. n + 1}
    <3>1. chunk'[c].cleanup = q
      BY <1>2, <1>4
    <3>2. OwedIds(c)' = IdsOf(q)
      BY <3>1 DEF OwedIds, IdsOf
    <3>3. IdsOf(q) = {q[i].id : i \in 1 .. n + 1}
      BY <1>3 DEF IdsOf
    <3>4. QED
      BY <3>2, <3>3
  <2>2. ASSUME NEW i \in 1 .. n + 1 PROVE q[i].id \in D \cup {a.id}
    <3>1. CASE i \in 1 .. n
      BY <1>3, <1>6, <3>1
    <3>2. CASE i = n + 1
      BY <1>3, <3>2
    <3>3. QED
      BY <1>3, <3>1, <3>2
  <2>3. ASSUME NEW i \in 1 .. n PROVE \E j \in 1 .. n + 1 : s[i].id = q[j].id
    <3>1. i \in 1 .. n + 1 /\ q[i] = s[i]
      BY <1>3
    <3>2. QED
      BY <3>1
  <2>4. \E j \in 1 .. n + 1 : a.id = q[j].id
    <3>1. n + 1 \in 1 .. n + 1
      OBVIOUS
    <3>2. QED
      BY <1>3, <3>1
  <2>5. \A r \in D : \E j \in 1 .. n + 1 : r = q[j].id
    BY <1>6, <2>3
  <2>6. \A r : r \in OwedIds(c)' <=> \E j \in 1 .. n + 1 : r = q[j].id
    BY <2>1
  <2>7. \A r : r \in OwedIds(c)' <=> r \in D \/ r = a.id
    BY <2>2, <2>4, <2>5, <2>6
  <2>8. QED
    BY <2>7
<1>8. /\ x \notin D /\ x \notin L /\ D \cap L = {} /\ L \subseteq Resources
  BY <1>5, Hands, Debts
<1>9. Passes(t, c)
  <2>1. Reach(t, c) = {x} \cup D \cup L /\ Reach(t, c)' = {x} \cup (D \cup {a.id}) \cup (L \ {a.id})
    BY <1>4, <1>5, <1>7 DEF Reach
  <2>2. Reach(t, c)' = Reach(t, c)
    BY <1>5, <2>1
  <2>3. \A e \in Chunks \ {c} : SameOwed(e)
    BY <1>4 DEF SameOwed
  <2>4. \A r \in Fresh : r \in Resources /\ store[r] = None
    BY DEF Fresh
  <2>5. QED
    BY <2>2, <2>3, <2>4, Standing DEF Passes
<1>10. Orderly(t, c)'
  <2>1. Distinct(q)
    <3>1. Distinct(s)
      BY <1>1 DEF OwnersInv, OwedApart
    <3>2. ASSUME NEW i \in 1 .. n + 1, NEW j \in 1 .. n + 1, q[i].id = q[j].id PROVE i = j
      <4>1. CASE i \in 1 .. n /\ j \in 1 .. n
        BY <1>1, <1>3, <3>1, <3>2, <4>1 DEF Distinct
      <4>2. \A k \in 1 .. n : q[k].id # a.id
        BY <1>3, <1>5, <1>6, <1>8
      <4>3. QED
        BY <1>3, <3>2, <4>1, <4>2
    <3>3. QED
      BY <1>3, <3>2 DEF Distinct
  <2>2. ASSUME NEW i \in 1 .. n + 1
        PROVE  /\ q[i].id \in Resources
               /\ Stored(store, q[i], q[i].tier) \/ \E u \in Threads : q[i].id \in GoneOf(u)'
    <3>1. CASE i = n + 1
      BY <1>3, <3>1 DEF Stored
    <3>2. CASE i # n + 1
      <4>1. i \in 1 .. n /\ q[i] = s[i]
        BY <1>3, <3>2
      <4>2. /\ s[i].id \in Resources
            /\ Stored(store, s[i], s[i].tier) \/ \E u \in Threads : s[i].id \in GoneOf(u)
        BY <1>1, <4>1 DEF OwnersInv, OwedStored, GoneOf
      <4>3. ASSUME NEW u \in Threads, s[i].id \in GoneOf(u) PROVE s[i].id \in GoneOf(u)'
        BY <4>3 DEF Others, GoneOf
      <4>4. QED
        BY <4>1, <4>2, <4>3
    <3>3. QED
      BY <3>1, <3>2
  <2>3. x \notin D \cup {a.id} /\ (D \cup {a.id}) \cap (L \ {a.id}) = {}
    BY <1>5, <1>8
  <2>4. chunk'[c].auth.resource = x /\ ~chunk'[c].retired
    BY <1>4, <1>5 DEF OwnersInv
  <2>5. OwedIds(c)' \cap ListedOf(t)' = {} /\ chunk'[c].auth.resource \notin OwedIds(c)'
    BY <1>5, <1>7, <2>3, <2>4
  <2>6. chunk'[c].cleanup = q
    BY <1>2, <1>4
  <2>7. QED
    BY <1>3, <2>1, <2>2, <2>4, <2>5, <2>6 DEF Orderly
<1>11. QED
  BY <1>9, <1>10, OwnersStep

\* A new resource is the thread's.
LEMMA AllocateOwners ==
  ASSUME TransactionInv, OwnersInv, NEW t \in Threads, NEW c \in Chunks, GoneOf(t) = {},
         NEW r \in Fresh, NEW x, x # None, store' = [store EXCEPT ![r] = x], UNCHANGED chunk,
         Others(t), ListedOf(t)' = ListedOf(t) \cup {r}, Listing(pc[t], loc[t], store)'
  PROVE  OwnersInv'
<1>1. store \in [Resources -> Descriptors \cup {None}] /\ r \in Resources
      /\ \A q \in Fresh : q \in Resources /\ store[q] = None
  BY DEF TransactionInv, Typed, Fresh
<1>2. \A q \in Resources \ {r} : store'[q] = store[q]
  BY <1>1
<1>3. OwedIds(c)' = OwedIds(c) /\ chunk'[c].auth.resource = chunk[c].auth.resource
  BY DEF OwedIds
<1>4. Reach(t, c)' = Reach(t, c) \cup {r}
  BY <1>3 DEF Reach
<1>5. Passes(t, c)
  <2>1. \A q \in Resources \ (Reach(t, c) \cup Fresh) : Untouched(q)
    BY <1>2 DEF Untouched
  <2>2. \A q \in Resources \ Fresh : store[q] = None => store'[q] = None
    BY <1>2
  <2>3. \A q \in Reach(t, c) \cup Fresh : store'[q] # None => q \in Reach(t, c)'
    BY <1>1, <1>2, <1>4
  <2>4. QED
    BY <1>4, <2>1, <2>2, <2>3, Standing DEF Passes
<1>6. Orderly(t, c)'
  <2>1. /\ OwedIds(c) \cap ListedOf(t) = {} /\ r \notin OwedIds(c)
        /\ chunk[c].auth.resource \notin OwedIds(c) /\ Distinct(chunk[c].cleanup) /\ ~chunk[c].retired
    BY Debts DEF OwnersInv, OwedApart
  <2>2. ASSUME NEW i \in 1 .. Len(chunk[c].cleanup), NEW a, a = chunk[c].cleanup[i]
        PROVE  /\ a.id \in Resources
               /\ Stored(store', a, a.tier) \/ \E u \in Threads : a.id \in GoneOf(u)'
    <3>1. /\ a.id \in OwedIds(c) /\ a.id \in Resources
          /\ Stored(store, a, a.tier) \/ \E u \in Threads : a.id \in GoneOf(u)
      BY <2>2 DEF OwnersInv, OwedStored, GoneOf, OwedIds, IdsOf
    <3>2. Untouched(a.id)
      BY <1>2, <2>1, <3>1 DEF Untouched
    <3>3. ASSUME NEW u \in Threads, a.id \in GoneOf(u) PROVE a.id \in GoneOf(u)'
      BY <3>3 DEF Others, GoneOf
    <3>4. QED
      BY <3>1, <3>2, <3>3, StoredStays
  <2>3. OwedIds(c)' \cap ListedOf(t)' = {}
    BY <1>3, <2>1
  <2>4. QED
    BY <1>3, <2>1, <2>2, <2>3 DEF Orderly
<1>7. QED
  BY <1>5, <1>6, OwnersStep

(***************************************************************************)
(* The steps of a migration before its source is read                      *)
(***************************************************************************)
LEMMA NothingGone ==
  ASSUME NEW p, p \notin {"settle", "settle_ws", "settle_comp", "settle_src"}, NEW l
  PROVE  Gone(p, l) = {}
BY DEF Gone

LEMMA HoldsListing ==
  ASSUME NEW l, NEW st, NEW tier, tier = TierOf(l.dest), Holds(l.todo, st, tier)
  PROVE  Listing("rollback", l, st) /\ Listed("rollback", l) = IdsOf(l.todo)
<1>1. "rollback" \in Unwinding /\ "rollback" \notin Filled \cup Third \cup Moving
  BY DEF Unwinding, Filled, Third, Moving
<1>2. Gone("rollback", l) = {} /\ Equipped("rollback", l)
  BY <1>1 DEF Gone, Equipped
<1>3. Distinct(l.todo)
      /\ \A i \in 1 .. Len(l.todo) : /\ l.todo[i].id \in Resources
                                     /\ Stored(st, l.todo[i], TierOf(l.dest))
  BY DEF Holds, Stored
<1>4. QED
  BY <1>1, <1>2, <1>3 DEF Listing, Listed

LEMMA DestinationHeld ==
  ASSUME TransactionInv, OwnersInv, NEW t \in Threads, pc[t] \in Filled, pc[t] # "reconcile",
         NEW poison, NEW s
  PROVE  s = <<Item(loc[t].dst, "staging", poison)>> =>
           Holds(s, store, DestTier(t)) /\ IdsOf(s) = {loc[t].dst.id}
<1>1. Stored(store, loc[t].dst, DestTier(t))
  BY Stock
<1>2. PICK a, tier : a = loc[t].dst /\ tier = DestTier(t) /\ Stored(store, a, tier)
  BY <1>1
<1>3. PICK b : b = "staging"
  OBVIOUS
<1>4. Holds(<<Item(a, b, poison)>>, store, tier) /\ IdsOf(<<Item(a, b, poison)>>) = {a.id}
  BY <1>2, HoldsOne
<1>5. QED
  BY <1>2, <1>3, <1>4

\* Only the destination is left to give back.
LEMMA DestinationRollsBack ==
  ASSUME TransactionInv, OwnersInv, NEW t \in Threads, pc[t] \in Filled, pc[t] # "reconcile",
         GoneOf(t) = {}, loc[t].ws = NoAlloc, loc[t].comp = NoAlloc, UNCHANGED <<store, chunk>>,
         NEW l, Goto(t, "rollback", l), l.dest = loc[t].dest, NEW poison
  PROVE  l.todo = <<Item(loc[t].dst, "staging", poison)>> => OwnersInv'
<1>1. Others(t) /\ pc'[t] = "rollback" /\ loc'[t] = l
  BY GotoOthers DEF TransactionInv
<1>2. PICK s : s = l.todo
  OBVIOUS
<1>3. s = <<Item(loc[t].dst, "staging", poison)>> =>
        Holds(s, store, DestTier(t)) /\ IdsOf(s) = {loc[t].dst.id}
  BY DestinationHeld
<1>4. ListedOf(t) = {loc[t].dst.id}
  BY Stock
<1>5. Holds(s, store, DestTier(t)) /\ IdsOf(s) = {loc[t].dst.id} => OwnersInv'
  BY <1>1, <1>2, <1>4, RollBackOwners
<1>6. QED
  BY <1>2, <1>3, <1>5

LEMMA VerifyAuthoritativeOwners ==
  ASSUME TransactionInv, BooksInv, OwnersInv, NEW t \in Threads, VerifyAuthoritative(t)
  PROVE  OwnersInv'
<1>1. /\ pc[t] = "verify_src" /\ UNCHANGED <<store, chunk>> /\ pc[t] \in PreCommit
      /\ pc[t] \in Filled /\ pc[t] \in Third /\ "prepare" \in Filled
  BY DEF VerifyAuthoritative, PreCommit, Filled, Third
<1>2. loc[t].comp = NoAlloc
  BY <1>1, PreFacts DEF AllocationsAt
<1>3. PICK l, p : l = loc[t] /\ p = "prepare"
  OBVIOUS
<1>4. GoneOf(t) = {} /\ Gone(p, l) = {}
  BY <1>1, <1>3, NothingGone DEF GoneOf
<1>5. Equipped(p, l)
  BY <1>1, <1>3, Stock DEF Equipped
<1>6. ASSUME Goto(t, "prepare", loc[t]) PROVE OwnersInv'
  BY <1>1, <1>3, <1>4, <1>5, <1>6, WalkOwners
<1>7. ASSUME NEW ending,
             RollBack(t, WorkspaceItem(t) \o <<Item(loc[t].dst, "staging", FALSE)>>, ending)
      PROVE  OwnersInv'
  <2>1. PICK poison : poison = FALSE
    OBVIOUS
  <2>2. RollBack(t, WorkspaceItem(t) \o <<Item(loc[t].dst, "staging", poison)>>, ending)
    BY <1>7, <2>1
  <2>3. QED
    BY <1>1, <1>2, <1>4, <2>2, GiveUpOwners
<1>8. QED
  BY <1>6, <1>7 DEF VerifyAuthoritative

LEMMA VerifyTransferOwners ==
  ASSUME TransactionInv, BooksInv, OwnersInv, NEW t \in Threads, VerifyTransfer(t)
  PROVE  OwnersInv'
<1>1. /\ pc[t] = "verify" /\ UNCHANGED <<store, chunk>> /\ pc[t] \in PreCommit
      /\ pc[t] \in Filled /\ {"commit", "rel_ws"} \subseteq Filled
  BY DEF VerifyTransfer, PreCommit, Filled
<1>2. loc[t].comp = NoAlloc
  BY <1>1, PreFacts DEF AllocationsAt
<1>3. PICK l : l = loc[t]
  OBVIOUS
<1>4. GoneOf(t) = {} /\ \A p \in {"commit", "rel_ws"} : Gone(p, l) = {}
  BY <1>1, NothingGone DEF GoneOf
<1>5. PICK p \in {"commit", "rel_ws"} : p = IF loc[t].ws = NoAlloc THEN "commit" ELSE "rel_ws"
  OBVIOUS
<1>6. Equipped(p, l)
  BY <1>3, <1>5 DEF Equipped, Third, Moving
<1>7. ASSUME Goto(t, p, l) PROVE OwnersInv'
  BY <1>1, <1>3, <1>4, <1>6, <1>7, WalkOwners
<1>8. ASSUME NEW poison, NEW ending,
             RollBack(t, WorkspaceItem(t) \o <<Item(loc[t].dst, "staging", poison)>>, ending)
      PROVE  OwnersInv'
  BY <1>1, <1>2, <1>4, <1>8, GiveUpOwners
<1>9. \/ Goto(t, p, l)
      \/ \E poison \in BOOLEAN, ending \in {"clear", "poison"} :
           RollBack(t, WorkspaceItem(t) \o <<Item(loc[t].dst, "staging", poison)>>, ending)
  BY <1>3, <1>5 DEF VerifyTransfer
<1>10. QED
  BY <1>7, <1>8, <1>9

(***************************************************************************)
(* Allocations                                                             *)
(***************************************************************************)
LEMMA AllocateDestinationOwners ==
  ASSUME TransactionInv, BooksInv, OwnersInv, NEW t \in Threads, AllocateDestination(t)
  PROVE  OwnersInv'
<1>1. /\ pc[t] = "alloc_dst" /\ pc[t] \in PreCommit /\ pc[t] \notin Handed /\ UNCHANGED <<ledger, chunk>>
      /\ pc[t] \in First /\ "mat_dst" \in Filled
      /\ "mat_dst" \notin Unwinding \cup Third \cup Moving
  BY OutsideHands DEF AllocateDestination, PreCommit, First, Filled, Unwinding, Third, Moving
<1>2. loc[t].ws = NoAlloc /\ loc[t].comp = NoAlloc /\ NoAlloc.id = None
  BY <1>1, PreFacts DEF AllocationsAt, NoAlloc
<1>3. Typed /\ loc[t] \in Locals /\ loc[t].chunk \in Chunks
  BY <1>1, WorkFacts
<1>4. ListedOf(t) = {} /\ GoneOf(t) = {}
  BY <1>1, NothingInHand DEF ListedOf, GoneOf
<1>5. None \notin Resources
  BY TransactionAssumption DEF TransactionAssumption
<1>6. ASSUME NEW r \in NextId, NEW n \in AllocationCharges[loc[t].dest],
             store' = [store EXCEPT ![r] = Allocated(DestTier(t), n)],
             Goto(t, "mat_dst", [loc[t] EXCEPT !.dst = [id |-> r, charge |-> n]])
      PROVE  OwnersInv'
  <2>1. n \in Word
    BY <1>3, TransactionAssumption DEF TransactionAssumption, Locals
  <2>2. r \in Fresh /\ r \in Resources /\ store'[r] # None
    BY <1>1, <1>6, <2>1, AllocateFacts
  <2>3. PICK x : x = Allocated(DestTier(t), n)
    OBVIOUS
  <2>4. store' = [store EXCEPT ![r] = x] /\ x # None
    BY <1>3, <1>6, <2>2, <2>3 DEF Typed
  <2>5. PICK l : l = [loc[t] EXCEPT !.dst = [id |-> r, charge |-> n]]
    OBVIOUS
  <2>6. l.dst.id = r /\ l.ws = NoAlloc /\ l.comp = NoAlloc
    BY <1>2, <1>3, <2>5 DEF Locals
  <2>7. Others(t) /\ pc'[t] = "mat_dst" /\ loc'[t] = l
    BY <1>3, <1>6, <2>5, GotoOthers
  <2>8. Listed("mat_dst", l) = {r}
    BY <1>1, <1>2, <1>5, <2>2, <2>6 DEF Listed
  <2>9. Listing("mat_dst", l, store')
    <3>1. Gone("mat_dst", l) = {}
      BY NothingGone
    <3>2. QED
      BY <1>1, <2>6, <3>1 DEF Listing, Equipped
  <2>10. ListedOf(t)' = ListedOf(t) \cup {r}
    BY <1>4, <2>7, <2>8 DEF ListedOf
  <2>11. Listing(pc[t], loc[t], store)'
    BY <2>7, <2>9
  <2>12. QED
    BY <1>1, <1>3, <1>4, <2>2, <2>4, <2>7, <2>10, <2>11, AllocateOwners
<1>7. ASSUME RollBack(t, <<>>, "clear"), UNCHANGED store PROVE OwnersInv'
  <2>1. PICK l : l = [loc[t] EXCEPT !.todo = <<>>, !.ending = "clear"]
    OBVIOUS
  <2>2. l.todo = <<>> /\ Goto(t, "rollback", l)
    BY <1>3, <1>7, <2>1 DEF RollBack, Locals
  <2>3. Others(t) /\ pc'[t] = "rollback" /\ loc'[t] = l
    BY <1>3, <2>2, GotoOthers
  <2>4. PICK tier : tier = TierOf(l.dest)
    OBVIOUS
  <2>5. Listing("rollback", l, store) /\ Listed("rollback", l) = {}
    BY <2>2, <2>4, HoldsNone, HoldsListing
  <2>6. ListedOf(t)' = {} /\ Listing(pc[t], loc[t], store)'
    BY <1>7, <2>3, <2>5 DEF ListedOf
  <2>7. (\A d \in Chunks : SameOwed(d)) /\ \A r \in Resources : Untouched(r)
    BY <1>1, <1>7, Standing
  <2>8. QED
    BY <1>3, <1>4, <1>7, <2>3, <2>6, <2>7, KeepOwners
<1>8. QED
  BY <1>6, <1>7 DEF AllocateDestination

LEMMA AllocateWorkspaceOwners ==
  ASSUME TransactionInv, BooksInv, OwnersInv, NEW t \in Threads, AllocateWorkspace(t)
  PROVE  OwnersInv'
<1>1. /\ pc[t] = "alloc_ws" /\ pc[t] \in PreCommit /\ pc[t] \in Filled /\ UNCHANGED chunk
      /\ pc[t] \in Second /\ "mat_ws" \in Filled
      /\ "mat_ws" \notin Unwinding \cup Third \cup Moving
  BY DEF AllocateWorkspace, PreCommit, Second, Filled, Unwinding, Third, Moving
<1>2. loc[t].ws = NoAlloc /\ loc[t].comp = NoAlloc /\ NoAlloc.id = None
  BY <1>1, PreFacts DEF AllocationsAt, NoAlloc
<1>3. Typed /\ loc[t] \in Locals /\ loc[t].chunk \in Chunks
  BY <1>1, WorkFacts
<1>4. GoneOf(t) = {} /\ ListedOf(t) = {loc[t].dst.id} /\ None \notin Resources
      /\ loc[t].dst.id \in Resources
  BY <1>1, <1>2, Stock, NothingGone DEF GoneOf
<1>5. ASSUME NEW r \in NextId, UNCHANGED ledger,
             store' = [store EXCEPT ![r] = Allocated(DestTier(t), WorkspaceBound)],
             Goto(t, "mat_ws", [loc[t] EXCEPT !.ws = [id |-> r, charge |-> WorkspaceBound]])
      PROVE  OwnersInv'
  <2>1. PICK n \in Word : n = WorkspaceBound
    BY TransactionAssumption DEF TransactionAssumption
  <2>2. /\ r \in Fresh /\ r \in Resources /\ store'[r] # None
        /\ store'[r].tier = TierOf(loc[t].dest) /\ store'[r].charge = n
    <3>1. store' = [store EXCEPT ![r] = Allocated(DestTier(t), n)]
      BY <1>5, <2>1
    <3>2. UNCHANGED <<ledger, chunk>>
      BY <1>1, <1>5
    <3>3. QED
      BY <1>1, <3>1, <3>2, AllocateFacts, ZenonT(60)
  <2>3. PICK x : x = Allocated(DestTier(t), WorkspaceBound)
    OBVIOUS
  <2>4. store' = [store EXCEPT ![r] = x] /\ x # None
    BY <1>3, <1>5, <2>2, <2>3 DEF Typed
  <2>5. PICK l : l = [loc[t] EXCEPT !.ws = [id |-> r, charge |-> n]]
    OBVIOUS
  <2>6. /\ l.dst = loc[t].dst /\ l.ws.id = r /\ l.ws.charge = n /\ l.comp = NoAlloc
        /\ l.dest = loc[t].dest
    BY <1>2, <1>3, <2>5 DEF Locals
  <2>7. Others(t) /\ pc'[t] = "mat_ws" /\ loc'[t] = l
    BY <1>3, <1>5, <2>1, <2>5, GotoOthers
  <2>8. Listed("mat_ws", l) = {loc[t].dst.id, r}
    BY <1>1, <1>2, <1>4, <2>2, <2>6 DEF Listed
  <2>9. Listing("mat_ws", l, store')
    <3>1. Gone("mat_ws", l) = {}
      BY NothingGone
    <3>2. l.ws # NoAlloc
      BY <1>2, <1>4, <2>2, <2>6
    <3>3. Stored(store', l.ws, TierOf(l.dest))
      BY <2>2, <2>6 DEF Stored
    <3>4. r # NoAlloc.id
      BY <1>2, <1>4, <2>2
    <3>5. QED
      BY <1>1, <2>2, <2>6, <3>1, <3>2, <3>3, <3>4 DEF Listing, Equipped
  <2>10. ListedOf(t)' = ListedOf(t) \cup {r}
    BY <1>4, <2>7, <2>8 DEF ListedOf
  <2>11. Listing(pc[t], loc[t], store)'
    BY <2>7, <2>9
  <2>12. QED
    BY <1>1, <1>3, <1>4, <2>2, <2>4, <2>7, <2>10, <2>11, AllocateOwners
<1>6. ASSUME Goto(t, "rollback", [loc[t] EXCEPT !.toks[2] = InactiveToken,
                                                !.todo = <<Item(loc[t].dst, "staging", FALSE)>>]),
             UNCHANGED store
      PROVE  OwnersInv'
  <2>1. PICK poison, items : poison = FALSE /\ items = <<Item(loc[t].dst, "staging", poison)>>
    OBVIOUS
  <2>2. PICK l : l = [loc[t] EXCEPT !.toks[2] = InactiveToken, !.todo = items]
    OBVIOUS
  <2>3. Goto(t, "rollback", l) /\ l.todo = items /\ l.dest = loc[t].dest
    BY <1>3, <1>6, <2>1, <2>2 DEF Locals
  <2>4. l.todo = <<Item(loc[t].dst, "staging", poison)>> => OwnersInv'
    BY <1>1, <1>2, <1>4, <1>6, <2>3, DestinationRollsBack
  <2>5. QED
    BY <2>1, <2>3, <2>4
<1>7. QED
  BY <1>5, <1>6 DEF AllocateWorkspace

\* The books show that no step ends the process.
LEMMA NoneTerminates ==
  ASSUME BooksInv', NEW t \in Threads
  PROVE  pc'[t] # "terminated"
BY DEF BooksInv, Stocked, Supplied

LEMMA PrepareOwners ==
  ASSUME TransactionInv, BooksInv, OwnersInv, NEW t \in Threads, Prepare(t)
  PROVE  OwnersInv'
<1>1. /\ pc[t] = "prepare" /\ pc[t] \in PreCommit /\ pc[t] \in Filled /\ UNCHANGED chunk
      /\ pc[t] \in Third /\ {"mat_comp", "transfer"} \subseteq Filled
      /\ "mat_comp" \notin Unwinding
  BY DEF Prepare, PreCommit, Third, Filled, Unwinding
<1>2. loc[t].comp = NoAlloc /\ NoAlloc.id = None
  BY <1>1, PreFacts DEF AllocationsAt, NoAlloc
<1>3. Typed /\ loc[t] \in Locals /\ loc[t].chunk \in Chunks
  BY <1>1, WorkFacts
<1>4. /\ GoneOf(t) = {} /\ ListedOf(t) = {loc[t].dst.id, loc[t].ws.id} \ {None}
      /\ None \notin Resources /\ loc[t].dst.id \in Resources
      /\ \A p \in {"mat_comp", "transfer"} : \A l : Gone(p, l) = {}
  BY <1>1, <1>2, Stock, NothingGone DEF GoneOf
<1>5. Equipped(pc[t], loc[t])
  BY <1>1, Stock
<1>6. ASSUME Goto(t, "transfer", loc[t]), UNCHANGED store PROVE OwnersInv'
  <2>1. PICK l, p : l = loc[t] /\ p = "transfer"
    OBVIOUS
  <2>2. Equipped(p, l)
    BY <1>1, <1>5, <2>1 DEF Equipped
  <2>3. QED
    BY <1>1, <1>4, <1>6, <2>1, <2>2, WalkOwners
<1>7. ASSUME NEW r \in NextId, NEW n \in ShrunkCharges, UNCHANGED ledger,
             store' = [store EXCEPT ![r] = Allocated(DestTier(t), n)],
             Goto(t, "mat_comp", [loc[t] EXCEPT !.comp = [id |-> r, charge |-> n]])
      PROVE  OwnersInv'
  <2>1. n \in Word
    BY <1>7, TransactionAssumption DEF TransactionAssumption
  <2>2. /\ r \in Fresh /\ r \in Resources /\ store'[r] # None
        /\ store'[r].tier = TierOf(loc[t].dest) /\ store'[r].charge = n
        /\ r \notin OwnIds(loc[t]) /\ \A q \in OwnIds(loc[t]) \cap Resources : store'[q] = store[q]
    <3>1. UNCHANGED <<ledger, chunk>>
      BY <1>1, <1>7
    <3>2. QED
      BY <1>1, <1>7, <2>1, <3>1, AllocateFacts, ZenonT(60)
  <2>3. PICK x : x = Allocated(DestTier(t), n)
    OBVIOUS
  <2>4. store' = [store EXCEPT ![r] = x] /\ x # None
    BY <1>3, <1>7, <2>2, <2>3 DEF Typed
  <2>5. PICK l : l = [loc[t] EXCEPT !.comp = [id |-> r, charge |-> n]]
    OBVIOUS
  <2>6. /\ l.dst = loc[t].dst /\ l.ws = loc[t].ws /\ l.comp.id = r /\ l.comp.charge = n
        /\ l.dest = loc[t].dest /\ l.src = loc[t].src
    BY <1>3, <2>5 DEF Locals
  <2>7. Others(t) /\ pc'[t] = "mat_comp" /\ loc'[t] = l
    BY <1>3, <1>7, <2>5, GotoOthers
  <2>8. Listed("mat_comp", l) = {loc[t].dst.id, loc[t].ws.id, r} \ {None}
    BY <1>1, <2>6 DEF Listed
  <2>9. Listing("mat_comp", l, store')
    <3>1. Gone("mat_comp", l) = {}
      BY NothingGone
    <3>2. l.comp # NoAlloc /\ Equipped("mat_comp", l)
      <4>1. l.comp # NoAlloc
        BY <1>2, <1>4, <2>2, <2>6
      <4>2. Transforms(l) => l.ws # NoAlloc
        BY <1>1, <1>5, <2>6 DEF Equipped, Transforms
      <4>3. QED
        BY <4>1, <4>2 DEF Equipped
    <3>3. Stored(store', TargetAt("mat_comp", l), TierOf(l.dest))
      BY <2>2, <2>6 DEF Stored, TargetAt
    <3>4. l.ws = NoAlloc
          \/ (l.ws.id \in Resources \ {r} /\ Stored(store', l.ws, TierOf(l.dest)))
      <4>1. ASSUME loc[t].ws # NoAlloc
            PROVE  loc[t].ws.id \in Resources \ {r} /\ Stored(store', loc[t].ws, DestTier(t))
        <5>1. Stored(store, loc[t].ws, DestTier(t)) /\ loc[t].ws.id \in Resources
          BY <1>1, <1>4, <4>1, Stock
        <5>2. loc[t].ws.id # r /\ store'[loc[t].ws.id] = store[loc[t].ws.id]
          BY <2>2, <5>1 DEF OwnIds
        <5>3. QED
          BY <5>1, <5>2 DEF Stored
      <4>2. QED
        BY <2>6, <4>1 DEF DestTier
    <3>5. QED
      BY <1>1, <2>2, <2>6, <3>1, <3>2, <3>3, <3>4 DEF Listing
  <2>10. ListedOf(t)' = ListedOf(t) \cup {r}
    BY <1>4, <2>2, <2>7, <2>8 DEF ListedOf
  <2>11. Listing(pc[t], loc[t], store)'
    BY <2>7, <2>9
  <2>12. QED
    BY <1>1, <1>3, <1>4, <2>2, <2>4, <2>7, <2>10, <2>11, AllocateOwners
<1>8. ASSUME Goto(t, "rollback",
                  [loc[t] EXCEPT !.toks[3] = InactiveToken,
                                 !.todo = WorkspaceItem(t) \o <<Item(loc[t].dst, "staging", FALSE)>>]),
             UNCHANGED store
      PROVE  OwnersInv'
  <2>1. PICK items, poison : /\ poison = FALSE
                             /\ items = WorkspaceItem(t) \o <<Item(loc[t].dst, "staging", poison)>>
    OBVIOUS
  <2>2. PICK l : l = [loc[t] EXCEPT !.toks[3] = InactiveToken, !.todo = items]
    OBVIOUS
  <2>3. Goto(t, "rollback", l)
    BY <1>8, <2>1, <2>2
  <2>4. l.todo = items /\ l.dest = loc[t].dest
    BY <1>3, <2>2 DEF Locals
  <2>5. QED
    BY <1>1, <1>2, <1>4, <1>8, <2>1, <2>3, <2>4, WorkRollsBack
<1>9. ~Terminate(t)
  <2>1. ASSUME Terminate(t) PROVE FALSE
    <3>1. pc'[t] = "terminated"
      BY <1>3, <2>1, GotoOthers DEF Terminate
    <3>2. QED
      BY <3>1, PrepareBooks, NoneTerminates
  <2>2. QED
    BY <2>1
<1>10. QED
  BY <1>6, <1>7, <1>8, <1>9 DEF Prepare

(***************************************************************************)
(* Materializations                                                        *)
(***************************************************************************)
LEMMA RememberOwes ==
  ASSUME NEW k \in ChunkRecords, HasRoom(k), NEW t, NEW res, NEW ch, ch = RememberCleanup(k, t, res)
  PROVE  /\ ch.auth = k.auth /\ ch.retired = k.retired /\ ch.cleanup = Append(k.cleanup, res)
         /\ ch = [k EXCEPT !.cleanup = Append(k.cleanup, res)]
<1>1. PICK s \in Seq(CleanupResources) : s = k.cleanup
  BY DEF ChunkRecords
<1>2. PICK n \in Nat : n = Len(s)
  OBVIOUS
<1>3. n <= 2
  BY <1>1, <1>2 DEF HasRoom
<1>4. ch = [k EXCEPT !.cleanup = Append(s, res)]
  BY <1>1, <1>2, <1>3 DEF RememberCleanup, CleanupSlots
<1>5. PICK e : e = Append(s, res)
  OBVIOUS
<1>6. ch.cleanup = e /\ ch.auth = k.auth /\ ch.retired = k.retired
  BY <1>4, <1>5 DEF ChunkRecords
<1>7. QED
  BY <1>1, <1>4, <1>5, <1>6

\* What the thread cannot release becomes debt of its chunk, the rest goes on its list.
LEMMA DebtOwners ==
  ASSUME TransactionInv, OwnersInv, NEW t \in Threads, NEW c \in Chunks, HasRoom(chunk[c]),
         GoneOf(t) = {}, NEW a, Stored(store, a, DestTier(t)), a.id \in ListedOf(t), UNCHANGED store,
         NEW d, d.auth.resource = chunk[c].auth.resource, d.retired = chunk[c].retired,
         d.cleanup = RememberCleanup(chunk[c], t, Debt(t, a)).cleanup,
         chunk' = [chunk EXCEPT ![c] = d], NEW l, Goto(t, "rollback", l), l.dest = loc[t].dest,
         Holds(l.todo, store, DestTier(t)), IdsOf(l.todo) = ListedOf(t) \ {a.id}
  PROVE  OwnersInv'
<1>1. Typed /\ chunk[c] \in ChunkRecords
  BY DEF TransactionInv, Typed
<1>2. PICK res : res = Debt(t, a)
  OBVIOUS
<1>3. res.id = a.id /\ res.tier = DestTier(t) /\ res.charge = a.charge
  BY <1>2 DEF Debt
<1>4. Stored(store, res, res.tier)
  BY <1>3 DEF Stored
<1>5. PICK ch : ch = RememberCleanup(chunk[c], t, res)
  OBVIOUS
<1>6. d.cleanup = Append(chunk[c].cleanup, res)
  BY <1>1, <1>2, <1>5, RememberOwes
<1>7. Others(t) /\ pc'[t] = "rollback" /\ loc'[t] = l
  BY <1>1, GotoOthers
<1>8. PICK tier : tier = DestTier(t) /\ tier = TierOf(l.dest)
  BY DEF DestTier
<1>9. Listing("rollback", l, store) /\ Listed("rollback", l) = IdsOf(l.todo)
  BY <1>8, HoldsListing
<1>10. Listing(pc[t], loc[t], store)' /\ ListedOf(t)' = ListedOf(t) \ {res.id}
  BY <1>3, <1>7, <1>9 DEF ListedOf
<1>11. QED
  BY <1>3, <1>4, <1>6, <1>7, <1>10, OweOwners

\* materialize of token i for allocation a, which the thread has at hand.
LEMMA MaterializeOwners ==
  ASSUME TransactionInv, BooksInv, BooksInv', OwnersInv, NEW t \in Threads,
         pc[t] \in Filled, pc[t] # "reconcile", GoneOf(t) = {}, UNCHANGED store,
         NEW i \in 1 .. 3, NEW a, Stored(store, a, DestTier(t)), a.id \in ListedOf(t),
         NEW onOk \in Filled, onOk # "reconcile", NEW onFail,
         MaterializeToken(t, i, a, onOk, onFail),
         \A l : Gone(onOk, l) = {}, \A l : SameWay(l, loc[t]) => Equipped(onOk, l),
         Holds(onFail, store, DestTier(t)), IdsOf(onFail) = ListedOf(t) \ {a.id}
  PROVE  OwnersInv'
<1>1. PICK c \in Chunks : c = loc[t].chunk
  BY Stock
<1>2. /\ Typed /\ loc[t] \in Locals /\ chunk[c] \in ChunkRecords /\ chunk[c].cleanup = <<>>
  <2>1. pc[t] \in PreCommit
    BY DEF PreCommit
  <2>2. QED
    BY <1>1, <2>1, PreFacts
<1>3. PICK k : k = [loc[t] EXCEPT !.toks[i] = InactiveToken]
  OBVIOUS
<1>4. SameWay(k, loc[t])
  BY <1>2, <1>3 DEF SameWay, Locals
<1>5. ~Terminate(t)
  <2>1. ASSUME Terminate(t) PROVE FALSE
    <3>1. pc'[t] = "terminated"
      BY <1>2, <2>1, GotoOthers DEF Terminate
    <3>2. QED
      BY <3>1, NoneTerminates
  <2>2. QED
    BY <2>1
<1>6. ASSUME Goto(t, onOk, k), UNCHANGED chunk PROVE OwnersInv'
  <2>1. k.dest = loc[t].dest /\ k.dst = loc[t].dst /\ k.ws = loc[t].ws /\ k.comp = loc[t].comp
    BY <1>4 DEF SameWay
  <2>2. QED
    BY <1>4, <1>6, <2>1, WalkOwners
<1>7. HasRoom(chunk[c])
  BY <1>2 DEF HasRoom
<1>8. ASSUME NEW l, l = [k EXCEPT !.todo = onFail, !.ending = "poison"], Goto(t, "rollback", l),
             chunk' = [chunk EXCEPT ![c] =
               RememberCleanup(@, t, [id |-> a.id, tier |-> DestTier(t), charge |-> a.charge])]
      PROVE  OwnersInv'
  <2>1. PICK d : d = RememberCleanup(chunk[c], t, Debt(t, a))
    OBVIOUS
  <2>2. chunk' = [chunk EXCEPT ![c] = d]
    BY <1>8, <2>1 DEF Debt
  <2>3. d.auth = chunk[c].auth /\ d.retired = chunk[c].retired
    BY <1>2, <1>7, <2>1, RememberOwes
  <2>4. l = [loc[t] EXCEPT !.toks = [loc[t].toks EXCEPT ![i] = InactiveToken], !.todo = onFail,
                           !.ending = "poison"]
    BY <1>2, <1>3, <1>8 DEF Locals
  <2>5. l.todo = onFail /\ l.dest = loc[t].dest
    BY <1>2, <2>4 DEF Locals
  <2>6. d.auth.resource = chunk[c].auth.resource /\ d.retired = chunk[c].retired
        /\ d.cleanup = RememberCleanup(chunk[c], t, Debt(t, a)).cleanup
    BY <2>1, <2>3
  <2>7. Holds(l.todo, store, DestTier(t)) /\ IdsOf(l.todo) = ListedOf(t) \ {a.id}
    BY <2>5
  <2>8. Goto(t, "rollback", l) /\ l.dest = loc[t].dest
    BY <1>8, <2>5
  <2>9. QED
    BY <1>7, <2>2, <2>6, <2>7, <2>8, DebtOwners
<1>9. \/ Goto(t, onOk, k) /\ UNCHANGED chunk
      \/ \E l : /\ l = [k EXCEPT !.todo = onFail, !.ending = "poison"] /\ Goto(t, "rollback", l)
                /\ chunk' = [chunk EXCEPT ![c] =
                     RememberCleanup(@, t, [id |-> a.id, tier |-> DestTier(t), charge |-> a.charge])]
  BY <1>1, <1>3, <1>5 DEF MaterializeToken
<1>10. QED
  BY <1>6, <1>8, <1>9

LEMMA MaterializeDestinationOwners ==
  ASSUME TransactionInv, BooksInv, OwnersInv, NEW t \in Threads, MaterializeDestination(t)
  PROVE  OwnersInv'
<1>1. BooksInv'
  BY MaterializeDestinationBooks
<1>2. PICK onOk, onFail : /\ onOk = IF NeedsWorkspace(t) THEN "alloc_ws" ELSE "verify_src"
                          /\ onFail = <<>>
  OBVIOUS
<1>3. pc[t] = "mat_dst" /\ UNCHANGED store /\ MaterializeToken(t, 1, loc[t].dst, onOk, onFail)
  BY <1>2 DEF MaterializeDestination
<1>4. pc[t] \in Filled /\ pc[t] \in First /\ pc[t] \in PreCommit /\ onOk \in Filled
      /\ onOk \in {"alloc_ws", "verify_src"}
  BY <1>2, <1>3 DEF Filled, First, PreCommit
<1>5. loc[t].ws = NoAlloc /\ loc[t].comp = NoAlloc
  BY <1>4, PreFacts DEF AllocationsAt
<1>6. GoneOf(t) = {} /\ \A l : Gone(onOk, l) = {}
  BY <1>3, <1>4, NothingGone DEF GoneOf
<1>7. PICK a, tier : a = loc[t].dst /\ tier = DestTier(t)
  OBVIOUS
<1>8. Stored(store, a, tier) /\ ListedOf(t) = {a.id}
  BY <1>3, <1>4, <1>5, <1>7, Stock
<1>9. ASSUME NEW l, SameWay(l, loc[t]) PROVE Equipped(onOk, l)
  <2>1. onOk = "verify_src" => ~Transforms(l)
    BY <1>2, <1>9 DEF SameWay, NeedsWorkspace, Transforms
  <2>2. onOk = "alloc_ws" \/ onOk = "verify_src"
    BY <1>4
  <2>3. "alloc_ws" \notin Third \cup Moving
    BY DEF Third, Moving
  <2>4. QED
    BY <2>1, <2>2, <2>3 DEF Equipped
<1>10. Holds(onFail, store, tier) /\ IdsOf(onFail) = ListedOf(t) \ {a.id}
  BY <1>2, <1>8, HoldsNone
<1>11. 1 \in 1 .. 3 /\ MaterializeToken(t, 1, a, onOk, onFail)
  BY <1>3, <1>7
<1>12. QED
  BY <1>1, <1>3, <1>4, <1>6, <1>7, <1>8, <1>9, <1>10, <1>11, MaterializeOwners

LEMMA MaterializeWorkspaceOwners ==
  ASSUME TransactionInv, BooksInv, OwnersInv, NEW t \in Threads, MaterializeWorkspace(t)
  PROVE  OwnersInv'
<1>1. BooksInv'
  BY MaterializeWorkspaceBooks
<1>2. PICK onOk, poison, onFail : /\ onOk = "verify_src" /\ poison = TRUE
                                  /\ onFail = <<Item(loc[t].dst, "staging", poison)>>
  OBVIOUS
<1>3. pc[t] = "mat_ws" /\ UNCHANGED store /\ MaterializeToken(t, 2, loc[t].ws, onOk, onFail)
  BY <1>2 DEF MaterializeWorkspace
<1>4. pc[t] \in Filled /\ pc[t] \in Second /\ pc[t] \in PreCommit /\ onOk \in Filled
  BY <1>2, <1>3 DEF Filled, Second, PreCommit
<1>5. loc[t].comp = NoAlloc
  BY <1>4, PreFacts DEF AllocationsAt
<1>6. GoneOf(t) = {} /\ \A l : Gone(onOk, l) = {}
  BY <1>2, <1>3, NothingGone DEF GoneOf
<1>7. PICK a, tier : a = loc[t].ws /\ tier = DestTier(t)
  OBVIOUS
<1>8. loc[t].ws # NoAlloc
  BY <1>3, <1>4, Stock DEF Equipped
<1>9. Stored(store, a, tier) /\ ListedOf(t) = {loc[t].dst.id, a.id} /\ loc[t].dst.id # a.id
  BY <1>3, <1>4, <1>5, <1>6, <1>7, <1>8, Stock
<1>10. ASSUME NEW l, SameWay(l, loc[t]) PROVE Equipped(onOk, l)
  BY <1>2, <1>8, <1>10 DEF SameWay, Equipped
<1>11. Holds(onFail, store, tier) /\ IdsOf(onFail) = {loc[t].dst.id}
  BY <1>2, <1>3, <1>4, <1>7, DestinationHeld
<1>12. IdsOf(onFail) = ListedOf(t) \ {a.id}
  BY <1>9, <1>11
<1>13. 2 \in 1 .. 3 /\ MaterializeToken(t, 2, a, onOk, onFail) /\ a.id \in ListedOf(t)
  BY <1>3, <1>7, <1>9
<1>14. QED
  BY <1>1, <1>2, <1>3, <1>4, <1>6, <1>7, <1>9, <1>10, <1>11, <1>12, <1>13, MaterializeOwners

\* Only a transition that transforms has a compaction target, so it has a workspace.
LEMMA CompactionWorks ==
  ASSUME TransactionInv, OwnersInv, NEW t \in Threads, pc[t] \in Third \cup Moving,
         Compacted(loc[t])
  PROVE  loc[t].ws # NoAlloc
<1>1. pc[t] \in Filled
  BY DEF Third, Moving, Filled
<1>2. loc[t].dest \in States /\ Equipped(pc[t], loc[t])
  BY <1>1, Stock DEF Locals
<1>3. ~IsRaw(loc[t].dest)
  BY <1>2, TransactionAssumption DEF TransactionAssumption, Compacted
<1>4. QED
  BY <1>2, <1>3 DEF Equipped, Transforms

LEMMA MaterializeCompactionOwners ==
  ASSUME TransactionInv, BooksInv, OwnersInv, NEW t \in Threads, MaterializeCompaction(t)
  PROVE  OwnersInv'
<1>1. BooksInv'
  BY MaterializeCompactionBooks
<1>2. PICK onOk, poison, onFail :
        /\ onOk = "transfer" /\ poison = TRUE
        /\ onFail = <<Item(loc[t].ws, "workspace", FALSE), Item(loc[t].dst, "staging", poison)>>
  OBVIOUS
<1>3. pc[t] = "mat_comp" /\ UNCHANGED store /\ MaterializeToken(t, 3, loc[t].comp, onOk, onFail)
  BY <1>2 DEF MaterializeCompaction
<1>4. pc[t] \in Filled /\ pc[t] \in Third /\ pc[t] \in PreCommit /\ onOk \in Filled
  BY <1>2, <1>3 DEF Filled, Third, PreCommit
<1>5. loc[t].ws # NoAlloc /\ loc[t].comp # NoAlloc
  <2>1. Compacted(loc[t])
    BY <1>3, <1>4, PreFacts DEF AllocationsAt
  <2>2. loc[t].comp # NoAlloc
    BY <1>3, <1>4, Stock DEF Equipped
  <2>3. QED
    BY <1>4, <2>1, <2>2, CompactionWorks
<1>6. GoneOf(t) = {} /\ \A l : Gone(onOk, l) = {}
  BY <1>2, <1>3, NothingGone DEF GoneOf
<1>7. PICK a, tier : a = loc[t].comp /\ tier = DestTier(t)
  OBVIOUS
<1>8. /\ Stored(store, a, tier) /\ ListedOf(t) = {loc[t].dst.id, loc[t].ws.id, a.id}
      /\ a.id \notin {loc[t].dst.id, loc[t].ws.id} /\ Stored(store, loc[t].ws, tier)
      /\ Stored(store, loc[t].dst, tier) /\ None \notin Resources
      /\ loc[t].dst.id \notin {loc[t].ws.id, loc[t].comp.id}
  <2>1. a.id \in Resources /\ loc[t].ws.id \in Resources \ {a.id}
    BY <1>4, <1>5, <1>7, Stock
  <2>2. QED
    BY <1>3, <1>4, <1>5, <1>6, <1>7, <2>1, Stock
<1>9. ASSUME NEW l, SameWay(l, loc[t]) PROVE Equipped(onOk, l)
  BY <1>2, <1>5, <1>9 DEF SameWay, Equipped
<1>10. InStock(t, store, tier)
  BY <1>8 DEF InStock, NoAlloc
<1>11. Holds(onFail, store, tier) /\ IdsOf(onFail) = {loc[t].ws.id, loc[t].dst.id}
  BY <1>2, <1>8, <1>10, PairHeld
<1>12. IdsOf(onFail) = ListedOf(t) \ {a.id}
  BY <1>8, <1>11
<1>13. 3 \in 1 .. 3 /\ MaterializeToken(t, 3, a, onOk, onFail) /\ a.id \in ListedOf(t)
  BY <1>3, <1>7, <1>8
<1>14. QED
  BY <1>1, <1>2, <1>3, <1>4, <1>6, <1>7, <1>8, <1>9, <1>11, <1>12, <1>13, MaterializeOwners

(***************************************************************************)
(* The transfer and its receipt                                            *)
(***************************************************************************)
\* A compaction target is at hand for just the destinations that want one.
LEMMA TargetAtHand ==
  ASSUME TransactionInv, BooksInv, OwnersInv, NEW t \in Threads, pc[t] \in {"transfer", "reconcile"}
  PROVE  loc[t].comp # NoAlloc <=> NeedsCompaction(t)
<1>1. pc[t] \in PreCommit
  BY DEF PreCommit, Filled
<1>2. IF Compacted(loc[t]) THEN loc[t].comp.charge # 0 ELSE loc[t].comp = NoAlloc
  BY <1>1, PreFacts DEF AllocationsAt
<1>3. NoAlloc.charge = 0
  BY DEF NoAlloc
<1>4. QED
  BY <1>2, <1>3 DEF Compacted, NeedsCompaction

LEMMA TransferRollsBack ==
  ASSUME TransactionInv, BooksInv, OwnersInv, NEW t \in Threads, pc[t] = "transfer",
         NEW poison, NEW ending, NEW compact, UNCHANGED <<store, chunk>>,
         compact = IF NeedsCompaction(t) THEN <<Item(loc[t].comp, "workspace", FALSE)>> ELSE <<>>,
         RollBack(t, compact \o WorkspaceItem(t) \o <<Item(loc[t].dst, "staging", poison)>>, ending)
  PROVE  OwnersInv'
<1>1. pc[t] \in Filled /\ pc[t] # "reconcile" /\ GoneOf(t) = {}
  BY NothingGone DEF Filled, GoneOf
<1>2. Typed /\ loc[t] \in Locals /\ pc[t] \in {"transfer", "reconcile"}
  BY <1>1, Stock DEF TransactionInv
<1>3. loc[t].comp # NoAlloc <=> NeedsCompaction(t)
  BY <1>2, TargetAtHand
<1>4. CASE ~NeedsCompaction(t)
  <2>1. <<>> \o WorkspaceItem(t) = WorkspaceItem(t)
    <3>1. WorkspaceItem(t) \in Seq(Items)
      BY <1>2, WorkspaceItems DEF OwnItems
    <3>2. QED
      BY <3>1
  <2>2. RollBack(t, WorkspaceItem(t) \o <<Item(loc[t].dst, "staging", poison)>>, ending)
    BY <1>4, <2>1
  <2>3. loc[t].comp = NoAlloc
    BY <1>3, <1>4
  <2>4. QED
    BY <1>1, <2>2, <2>3, GiveUpOwners
<1>5. CASE NeedsCompaction(t)
  <2>1. PICK s : s = <<Item(loc[t].comp, "workspace", FALSE)>> \o WorkspaceItem(t)
                       \o <<Item(loc[t].dst, "staging", poison)>>
    OBVIOUS
  <2>2. PICK l : l = [loc[t] EXCEPT !.todo = s, !.ending = ending]
    OBVIOUS
  <2>3. Goto(t, "rollback", l) /\ l.todo = s /\ l.dest = loc[t].dest
    BY <1>2, <1>5, <2>1, <2>2 DEF RollBack, Locals
  <2>4. Others(t) /\ pc'[t] = "rollback" /\ loc'[t] = l
    BY <1>2, <2>3, GotoOthers
  <2>5. PICK tier : tier = DestTier(t)
    OBVIOUS
  <2>6. /\ InStock(t, store, tier) /\ Stored(store, loc[t].comp, tier)
        /\ loc[t].ws = NoAlloc \/ (Stored(store, loc[t].ws, tier) /\ loc[t].ws.id # loc[t].comp.id)
    <3>1. NoAlloc.id = None
      BY DEF NoAlloc
    <3>2. QED
      BY <1>1, <1>3, <1>5, <2>5, <3>1, Stock DEF InStock
  <2>7. Holds(s, store, tier)
        /\ IdsOf(s) = {loc[t].comp.id, loc[t].ws.id, loc[t].dst.id} \ {None}
    BY <2>1, <2>6, AllHeld
  <2>8. IdsOf(s) = ListedOf(t)
    BY <1>1, <2>7, Stock
  <2>9. QED
    BY <1>1, <2>3, <2>4, <2>5, <2>7, <2>8, RollBackOwners
<1>6. QED
  BY <1>4, <1>5

\* The exchanged charge of the target is ahead of what the thread knows of it.
LEMMA ArrivesOwners ==
  ASSUME TransactionInv, BooksInv, OwnersInv, NEW t \in Threads, pc[t] = "transfer",
         NEW arrived, NEW n, Goto(t, "reconcile", loc[t]), UNCHANGED chunk,
         store' = [r \in Resources |->
                     IF r = loc[t].dst.id THEN [store[r] EXCEPT !.content = arrived, !.charge = n]
                     ELSE IF r = loc[t].comp.id THEN [store[r] EXCEPT !.charge = loc[t].dst.charge]
                     ELSE store[r]]
  PROVE  OwnersInv'
<1>1. /\ pc[t] \in Filled /\ pc[t] # "reconcile" /\ GoneOf(t) = {} /\ pc[t] \in Moving
      /\ "reconcile" \in Filled \cap Moving /\ "reconcile" \notin Unwinding
      /\ "reconcile" \notin {"mat_ws", "rel_ws", "settle_ws", "mat_comp", "rel_comp", "settle_comp"}
  BY NothingGone DEF Filled, GoneOf, Moving, Unwinding
<1>2. Typed /\ loc[t] \in Locals /\ loc[t].chunk \in Chunks
  BY <1>1, Stock DEF TransactionInv
<1>3. PICK l, a, k, w, x : l = loc[t] /\ a = l.dst /\ k = l.comp /\ w = l.ws /\ x = a.charge
  OBVIOUS
<1>4. Others(t) /\ pc'[t] = "reconcile" /\ loc'[t] = l
  BY <1>2, <1>3, GotoOthers
<1>5. /\ ListedOf(t) = {a.id, w.id, k.id} \ {None} /\ a.id \in Resources \ {w.id, k.id}
      /\ None \notin Resources /\ Stored(store, a, DestTier(t))
      /\ w # NoAlloc => w.id \in Resources \ {k.id} /\ Stored(store, w, DestTier(t))
      /\ k # NoAlloc => k.id \in Resources /\ Stored(store, k, DestTier(t))
      /\ k = NoAlloc => k.id = None
  BY <1>1, <1>3, Stock
<1>6. ListedOf(t)' = ListedOf(t)
  <2>1. Listed("reconcile", l) = {a.id, w.id, k.id} \ {None}
    BY <1>1, <1>3 DEF Listed
  <2>2. QED
    BY <1>4, <1>5, <2>1 DEF ListedOf
<1>7. \A r \in Resources \ {a.id, k.id} : store'[r] = store[r]
  BY <1>3
<1>8. \A r \in Resources \ ListedOf(t) : Untouched(r)
  BY <1>5, <1>7 DEF Untouched
<1>9. \A r \in Resources : store[r] = None => store'[r] = None
  <2>1. store[a.id] # None /\ (k.id \in Resources => store[k.id] # None)
    BY <1>5 DEF Stored
  <2>2. QED
    BY <1>7, <2>1
<1>10. k # NoAlloc => store'[k.id] # None /\ store'[k.id].tier = DestTier(t) /\ store'[k.id].charge = x
  <2>1. ASSUME k # NoAlloc PROVE store'[k.id] = [store[k.id] EXCEPT !.charge = x]
    BY <1>3, <1>5, <2>1
  <2>2. ASSUME k # NoAlloc PROVE store[k.id] \in Descriptors /\ store[k.id].tier = DestTier(t)
    BY <1>2, <1>5, <2>2 DEF Typed, Stored
  <2>3. None \notin Descriptors
    BY TransactionAssumption DEF TransactionAssumption
  <2>4. ASSUME k # NoAlloc
        PROVE  store'[k.id] # None /\ store'[k.id].tier = DestTier(t) /\ store'[k.id].charge = x
    <3>1. PICK e \in Descriptors : e = store[k.id] /\ e.tier = DestTier(t)
      BY <2>2, <2>4
    <3>2. PICK f : f = [e EXCEPT !.charge = x]
      OBVIOUS
    <3>3. f.tier = e.tier /\ f.charge = x
      BY <3>2 DEF Descriptors
    <3>4. store'[k.id] = f
      BY <2>1, <2>4, <3>1, <3>2
    <3>5. x \in Word
      BY <1>2, <1>3 DEF Locals, Allocations
    <3>6. f \in Descriptors
      BY <3>1, <3>2, <3>5 DEF Descriptors
    <3>7. QED
      BY <2>3, <3>1, <3>3, <3>4, <3>6
  <2>5. QED
    BY <2>4
<1>11. Listing("reconcile", l, store')
  <2>1. Equipped("reconcile", l)
    <3>1. Equipped(pc[t], loc[t])
      BY <1>1, Stock
    <3>2. QED
      BY <1>1, <1>3, <3>1 DEF Equipped
  <2>2. Gone("reconcile", l) = {}
    BY NothingGone
  <2>3. w # NoAlloc => Stored(store', w, TierOf(l.dest))
    BY <1>3, <1>5, <1>7 DEF Stored, DestTier
  <2>4. PICK g : g = [k EXCEPT !.charge = x]
    OBVIOUS
  <2>5. g.id = k.id /\ g.charge = x
    BY <1>2, <1>3, <2>4 DEF Locals, Allocations
  <2>6. k # NoAlloc => Stored(store', g, TierOf(l.dest))
    BY <1>3, <1>5, <1>10, <2>5 DEF Stored, DestTier
  <2>7. TargetAt("reconcile", l) = g
    BY <1>3, <2>4 DEF TargetAt
  <2>8. QED
    BY <1>1, <1>3, <1>5, <2>1, <2>2, <2>3, <2>6, <2>7 DEF Listing
<1>12. Listing(pc[t], loc[t], store)'
  BY <1>4, <1>11
<1>13. QED
  BY <1>1, <1>2, <1>4, <1>6, <1>8, <1>9, <1>12, Standing, KeepOwners

LEMMA TransferOwners ==
  ASSUME TransactionInv, BooksInv, OwnersInv, NEW t \in Threads, Transfer(t)
  PROVE  OwnersInv'
<1> DEFINE compact == IF NeedsCompaction(t) THEN <<Item(loc[t].comp, "workspace", FALSE)>> ELSE <<>>
           items(poison) == compact \o WorkspaceItem(t) \o <<Item(loc[t].dst, "staging", poison)>>
<1>1. pc[t] = "transfer" /\ UNCHANGED chunk
  BY DEF Transfer
<1>2. ASSUME NEW poison, NEW ending, RollBack(t, items(poison), ending), UNCHANGED store
      PROVE  OwnersInv'
  BY <1>1, <1>2, TransferRollsBack
<1>3. ASSUME NEW arrived, NEW n, Goto(t, "reconcile", loc[t]),
             store' = [r \in Resources |->
                IF r = loc[t].dst.id THEN [store[r] EXCEPT !.content = arrived, !.charge = n]
                ELSE IF r = loc[t].comp.id THEN [store[r] EXCEPT !.charge = loc[t].dst.charge]
                ELSE store[r]]
      PROVE  OwnersInv'
  BY <1>1, <1>3, ArrivesOwners
<1>4. CASE RollBack(t, items(FALSE), "clear") /\ UNCHANGED store
  <2>1. PICK poison : poison = FALSE
    OBVIOUS
  <2>2. RollBack(t, items(poison), "clear")
    BY <1>4, <2>1
  <2>3. QED
    BY <1>2, <1>4, <2>2
<1>5. CASE RollBack(t, items(TRUE), "poison") /\ UNCHANGED store
  <2>1. PICK poison : poison = TRUE
    OBVIOUS
  <2>2. RollBack(t, items(poison), "poison")
    BY <1>5, <2>1
  <2>3. QED
    BY <1>2, <1>5, <2>2
<1>6. CASE \E arrived \in {store[loc[t].src.resource].content}
                             \cup (IF Fault("corrupt") THEN {Garbage} ELSE {}),
               n \in IF NeedsCompaction(t) THEN {loc[t].comp.charge}
                     ELSE {loc[t].dst.charge} \cup (IF IsRaw(loc[t].dest) THEN {}
                            ELSE {m \in ShrunkCharges : m <= loc[t].dst.charge}) :
              /\ store' = [r \in Resources |->
                   IF r = loc[t].dst.id THEN [store[r] EXCEPT !.content = arrived, !.charge = n]
                   ELSE IF r = loc[t].comp.id THEN [store[r] EXCEPT !.charge = loc[t].dst.charge]
                   ELSE store[r]]
              /\ Goto(t, "reconcile", loc[t])
  <2>1. PICK arrived \in {store[loc[t].src.resource].content}
                           \cup (IF Fault("corrupt") THEN {Garbage} ELSE {}),
             n \in IF NeedsCompaction(t) THEN {loc[t].comp.charge}
                   ELSE {loc[t].dst.charge} \cup (IF IsRaw(loc[t].dest) THEN {}
                          ELSE {m \in ShrunkCharges : m <= loc[t].dst.charge}) :
             /\ store' = [r \in Resources |->
                  IF r = loc[t].dst.id THEN [store[r] EXCEPT !.content = arrived, !.charge = n]
                  ELSE IF r = loc[t].comp.id THEN [store[r] EXCEPT !.charge = loc[t].dst.charge]
                  ELSE store[r]]
             /\ Goto(t, "reconcile", loc[t])
    BY <1>6
  <2>2. QED
    BY <1>3, <2>1
<1>7. QED
  BY <1>4, <1>5, <1>6 DEF Transfer

LEMMA ReconcileOwners ==
  ASSUME TransactionInv, BooksInv, OwnersInv, NEW t \in Threads, Reconcile(t)
  PROVE  OwnersInv'
<1>1. /\ pc[t] = "reconcile" /\ UNCHANGED <<store, chunk>> /\ pc[t] \in Filled
      /\ pc[t] \notin Unwinding /\ pc[t] \in Moving
      /\ {"rel_comp", "verify"} \subseteq Filled \ Unwinding
  BY DEF Reconcile, Filled, Unwinding, Moving
<1>2. Typed /\ loc[t] \in Locals /\ loc[t].chunk \in Chunks /\ GoneOf(t) = {}
  BY <1>1, Stock, NothingGone DEF TransactionInv, GoneOf
<1>3. loc[t].comp # NoAlloc <=> NeedsCompaction(t)
  BY <1>1, TargetAtHand
<1>4. BooksInv'
  BY ReconcileBooks
<1>5. ~Terminate(t)
  <2>1. ASSUME Terminate(t) PROVE FALSE
    <3>1. pc'[t] = "terminated"
      BY <1>2, <2>1, GotoOthers DEF Terminate
    <3>2. QED
      BY <1>4, <3>1, NoneTerminates
  <2>2. QED
    BY <2>1
<1>6. PICK n : n = store[loc[t].dst.id].charge
  OBVIOUS
<1>7. PICK a, k, l : /\ a = [loc[t].dst EXCEPT !.charge = n]
                     /\ k = [loc[t].comp EXCEPT !.charge = IF NeedsCompaction(t)
                                                           THEN loc[t].dst.charge ELSE @]
                     /\ l = [loc[t] EXCEPT !.dst = a, !.comp = k]
  OBVIOUS
<1>8. PICK p \in {"rel_comp", "verify"} : p = IF NeedsCompaction(t) THEN "rel_comp" ELSE "verify"
  OBVIOUS
<1>9. l = [loc[t] EXCEPT !.dst.charge = n, !.comp.charge = IF NeedsCompaction(t)
                                                           THEN loc[t].dst.charge ELSE @]
  BY <1>2, <1>7 DEF Locals
<1>10. Goto(t, p, l)
  BY <1>5, <1>6, <1>8, <1>9 DEF Reconcile
<1>11. Others(t) /\ pc'[t] = p /\ loc'[t] = l
  BY <1>2, <1>10, GotoOthers
<1>12. /\ l.dst = a /\ l.comp = k /\ l.ws = loc[t].ws /\ l.dest = loc[t].dest /\ l.src = loc[t].src
       /\ a.id = loc[t].dst.id /\ k.id = loc[t].comp.id
       /\ NeedsCompaction(t) => k = TargetAt("reconcile", loc[t])
       /\ ~NeedsCompaction(t) => k = NoAlloc
  <2>1. loc[t].dst \in Allocations /\ loc[t].comp \in Allocations
    BY <1>2 DEF Locals
  <2>2. l.dst = a /\ l.comp = k /\ l.ws = loc[t].ws /\ l.dest = loc[t].dest /\ l.src = loc[t].src
    BY <1>2, <1>7 DEF Locals
  <2>3. a.id = loc[t].dst.id /\ k.id = loc[t].comp.id
    BY <1>7, <2>1 DEF Allocations
  <2>4. NeedsCompaction(t) => k = TargetAt("reconcile", loc[t])
    BY <1>7, <2>1 DEF Allocations, TargetAt
  <2>5. ~NeedsCompaction(t) => k = NoAlloc
    BY <1>3, <1>7, <2>1 DEF Allocations
  <2>6. QED
    BY <2>2, <2>3, <2>4, <2>5
<1>13. ListedOf(t)' = ListedOf(t)
  BY <1>1, <1>11, <1>12 DEF ListedOf, Listed
<1>14. Listing(pc[t], loc[t], store)
  BY DEF OwnersInv
<1>15. Listing(p, l, store)
  <2>1. NeedsCompaction(t) => k # NoAlloc
    <3>1. NeedsCompaction(t) => loc[t].comp.id \in Resources
      BY <1>1, <1>3, Stock
    <3>2. None \notin Resources /\ NoAlloc.id = None
      BY TransactionAssumption DEF TransactionAssumption, NoAlloc
    <3>3. QED
      BY <1>12, <3>1, <3>2
  <2>2. Equipped(p, l)
    <3>1. Transforms(l) <=> Transforms(loc[t])
      BY <1>12 DEF Transforms
    <3>2. p \notin Third /\ p \notin {"mat_ws", "rel_ws", "settle_ws"} /\ (p = "verify" => p \notin Moving)
      BY DEF Third, Moving
    <3>3. Equipped(pc[t], loc[t])
      BY <1>14 DEF Listing
    <3>4. p \in {"mat_comp", "rel_comp", "settle_comp"} => NeedsCompaction(t)
      BY <1>8
    <3>5. QED
      BY <1>1, <1>12, <2>1, <3>1, <3>2, <3>3, <3>4 DEF Equipped
  <2>3. Gone(p, l) = {}
    BY NothingGone
  <2>4. loc[t].ws = NoAlloc \/ (/\ loc[t].ws.id \in Resources \ {loc[t].comp.id}
                               /\ Stored(store, loc[t].ws, TierOf(loc[t].dest)))
    BY <1>1, <1>2, <1>14 DEF Listing, GoneOf
  <2>5. l.comp = NoAlloc \/ (l.comp.id \in Resources /\ Stored(store, l.comp, TierOf(l.dest)))
    <3>1. CASE NeedsCompaction(t)
      <4>1. loc[t].comp.id \in Resources /\ Stored(store, TargetAt("reconcile", loc[t]), TierOf(loc[t].dest))
        BY <1>1, <1>2, <1>3, <1>14, <3>1 DEF Listing, GoneOf
      <4>2. QED
        BY <1>12, <3>1, <4>1
    <3>2. CASE ~NeedsCompaction(t)
      BY <1>12, <3>2
    <3>3. QED
      BY <3>1, <3>2
  <2>6. TargetAt(p, l) = l.comp /\ p \in Filled /\ p \notin Unwinding
    BY <1>1 DEF TargetAt
  <2>7. QED
    BY <1>12, <2>2, <2>3, <2>4, <2>5, <2>6 DEF Listing
<1>16. Listing(pc[t], loc[t], store)'
  BY <1>1, <1>11, <1>15
<1>17. QED
  BY <1>1, <1>2, <1>11, <1>13, <1>16, Standing, KeepOwners

(***************************************************************************)
(* Releases                                                                *)
(***************************************************************************)
\* A thread that knows whether its release happened differs in nothing else.
Told(l, k, o) ==
  /\ l.released = o /\ l.dest = k.dest /\ l.src = k.src /\ l.dst = k.dst /\ l.ws = k.ws
  /\ l.comp = k.comp /\ l.todo = k.todo

LEMMA ReleaseTells ==
  ASSUME Typed, NEW t \in Threads, NEW id, NEW next, ReleaseResource(t, id, next)
  PROVE  \E o \in Outcomes, l \in {loc'[t]} :
           /\ store' = IF o = "ok" THEN [store EXCEPT ![id] = None] ELSE store
           /\ Others(t) /\ pc'[t] = next /\ Told(l, loc[t], o) /\ UNCHANGED chunk
<1>1. PICK o \in Outcomes : /\ store' = IF o = "ok" THEN [store EXCEPT ![id] = None] ELSE store
                            /\ Goto(t, next, [loc[t] EXCEPT !.released = o])
                            /\ UNCHANGED <<ledger, chunk>>
  BY DEF ReleaseResource
<1>2. PICK l : l = [loc[t] EXCEPT !.released = o]
  OBVIOUS
<1>3. Told(l, loc[t], o)
  BY <1>2 DEF Told, Typed, Locals
<1>4. Others(t) /\ pc'[t] = next /\ loc'[t] = l
  BY <1>1, <1>2, GotoOthers
<1>5. QED
  BY <1>1, <1>3, <1>4

LEMMA TemporaryOwners ==
  ASSUME TransactionInv, OwnersInv, NEW t \in Threads, NEW id, NEW next,
         \/ pc[t] = "rel_comp" /\ next = "settle_comp" /\ id = loc[t].comp.id
         \/ pc[t] = "rel_ws" /\ next = "settle_ws" /\ id = loc[t].ws.id,
         ReleaseResource(t, id, next)
  PROVE  OwnersInv'
<1>1. /\ pc[t] \in Filled /\ pc[t] # "reconcile" /\ GoneOf(t) = {} /\ next \in Filled
      /\ pc[t] \notin Unwinding /\ next \notin Unwinding /\ next # "reconcile"
      /\ next = "settle_comp" => pc[t] \in Moving
      /\ next = "settle_ws" => next \notin Third \cup Moving
  BY NothingGone DEF Filled, GoneOf, Unwinding, Moving, Third
<1>2. Typed /\ loc[t].chunk \in Chunks
  BY <1>1, Stock DEF TransactionInv
<1>3. PICK o \in Outcomes, l \in {loc'[t]} :
        /\ store' = IF o = "ok" THEN [store EXCEPT ![id] = None] ELSE store
        /\ Others(t) /\ pc'[t] = next /\ Told(l, loc[t], o) /\ UNCHANGED chunk
  BY <1>2, ReleaseTells
<1>4. PICK w, k, tier : w = loc[t].ws /\ k = loc[t].comp /\ tier = DestTier(t)
  OBVIOUS
<1>5. /\ l.released = o /\ l.ws = w /\ l.comp = k /\ l.dst = loc[t].dst
      /\ TierOf(l.dest) = tier /\ (Transforms(l) <=> Transforms(loc[t]))
  BY <1>3, <1>4 DEF Told, DestTier, Transforms
<1>6. Equipped(pc[t], loc[t])
  BY <1>1, Stock
<1>7. /\ w # NoAlloc => w.id \in Resources \ {k.id} /\ Stored(store, w, tier)
      /\ k # NoAlloc => k.id \in Resources /\ Stored(store, k, tier)
  BY <1>1, <1>4, Stock
<1>8. id \in Resources
  BY <1>4, <1>6, <1>7 DEF Equipped
<1>9. ListedOf(t)' = ListedOf(t) /\ id \in ListedOf(t)
  <2>1. Listed(next, l) = {loc[t].dst.id, w.id, k.id} \ {None}
    BY <1>1, <1>5 DEF Listed
  <2>2. ListedOf(t) = {loc[t].dst.id, w.id, k.id} \ {None} /\ None \notin Resources
    BY <1>1, <1>4, Stock
  <2>3. QED
    BY <1>3, <1>4, <1>8, <2>1, <2>2 DEF ListedOf
<1>10. /\ store' = store \/ store' = [store EXCEPT ![id] = None]
       /\ \A r \in Resources \ {id} : store'[r] = store[r]
       /\ o = "ok" => store'[id] = None
       /\ o # "ok" => store' = store
  BY <1>2, <1>3, <1>8 DEF Typed
<1>11. Gone(next, l) = IF o = "ok" THEN {id} ELSE {}
  BY <1>4, <1>5 DEF Gone
<1>12. Listing(next, l, store')
  <2>1. Equipped(next, l)
    BY <1>1, <1>4, <1>5, <1>6 DEF Equipped
  <2>2. w # NoAlloc => w.id \in Gone(next, l) \/ Stored(store', w, tier)
    BY <1>7, <1>10, <1>11 DEF Stored
  <2>3. k # NoAlloc => k.id \in Gone(next, l) \/ Stored(store', k, tier)
    BY <1>7, <1>10, <1>11 DEF Stored
  <2>4. TargetAt(next, l) = k
    BY <1>1, <1>5 DEF TargetAt
  <2>5. \A r \in Gone(next, l) : store'[r] = None
    BY <1>10, <1>11
  <2>6. QED
    BY <1>1, <1>5, <1>7, <2>1, <2>2, <2>3, <2>4, <2>5 DEF Listing
<1>13. Listing(pc[t], loc[t], store)'
  BY <1>3, <1>12
<1>14. QED
  BY <1>1, <1>2, <1>3, <1>9, <1>10, <1>13, ReleaseOwners

LEMMA ReleaseCompactionOwners ==
  ASSUME TransactionInv, OwnersInv, NEW t \in Threads, ReleaseCompaction(t)
  PROVE  OwnersInv'
<1>1. PICK id, next : id = loc[t].comp.id /\ next = "settle_comp"
  OBVIOUS
<1>2. pc[t] = "rel_comp" /\ ReleaseResource(t, id, next)
  BY <1>1 DEF ReleaseCompaction
<1>3. QED
  BY <1>1, <1>2, TemporaryOwners

LEMMA ReleaseWorkspaceOwners ==
  ASSUME TransactionInv, OwnersInv, NEW t \in Threads, ReleaseWorkspace(t)
  PROVE  OwnersInv'
<1>1. PICK id, next : id = loc[t].ws.id /\ next = "settle_ws"
  OBVIOUS
<1>2. pc[t] = "rel_ws" /\ ReleaseResource(t, id, next)
  BY <1>1 DEF ReleaseWorkspace
<1>3. QED
  BY <1>1, <1>2, TemporaryOwners

\* The first of a rollback's resources.
LEMMA FirstListed ==
  ASSUME TransactionInv, OwnersInv, NEW t \in Threads, pc[t] \in Unwinding, loc[t].todo # <<>>
  PROVE  /\ Head(loc[t].todo) = loc[t].todo[1] /\ 1 \in 1 .. Len(loc[t].todo)
         /\ loc[t].todo \in Seq(Items) /\ loc[t].chunk \in Chunks
         /\ loc[t].todo[1].id \in Resources /\ ListedOf(t) = IdsOf(loc[t].todo)
         /\ loc[t].todo[1].id \in ListedOf(t)
         /\ Distinct(loc[t].todo)
         /\ \A i \in 1 .. Len(loc[t].todo) :
              loc[t].todo[i].id \in GoneOf(t) \/ Stored(store, loc[t].todo[i], DestTier(t))
<1>1. loc[t] \in Locals /\ loc[t].chunk \in Chunks
  BY WorkFacts
<1>2. PICK s \in Seq(Items) : s = loc[t].todo
  BY <1>1 DEF Locals
<1>3. Head(s) = s[1] /\ 1 \in 1 .. Len(s)
  BY <1>2
<1>4. ListedOf(t) = IdsOf(s)
  BY <1>2 DEF ListedOf, Listed
<1>5. Listing(pc[t], loc[t], store)
  BY DEF OwnersInv
<1>6. /\ Distinct(s)
      /\ \A i \in 1 .. Len(s) : /\ s[i].id \in Resources
                                /\ s[i].id \in GoneOf(t) \/ Stored(store, s[i], DestTier(t))
  BY <1>2, <1>5 DEF Listing, GoneOf, DestTier
<1>7. s[1].id \in IdsOf(s)
  BY <1>3 DEF IdsOf
<1>8. QED
  BY <1>1, <1>2, <1>3, <1>4, <1>6, <1>7

LEMMA RollbackReleaseOwners ==
  ASSUME TransactionInv, OwnersInv, NEW t \in Threads, RollbackRelease(t)
  PROVE  OwnersInv'
<1>1. PICK id, next : id = Head(loc[t].todo).id /\ next = "settle"
  OBVIOUS
<1>2. /\ pc[t] = "rollback" /\ loc[t].todo # <<>> /\ ReleaseResource(t, id, next)
      /\ pc[t] \in Unwinding /\ next \in Unwinding /\ next \notin Filled \cup Third \cup Moving
      /\ GoneOf(t) = {} /\ Typed
  BY <1>1, NothingGone DEF RollbackRelease, Unwinding, Filled, Third, Moving, GoneOf, TransactionInv
<1>3. PICK s : s = loc[t].todo
  OBVIOUS
<1>4. PICK tier : tier = DestTier(t)
  OBVIOUS
<1>5. /\ id = s[1].id /\ loc[t].chunk \in Chunks /\ id \in Resources /\ ListedOf(t) = IdsOf(s)
      /\ id \in ListedOf(t) /\ Distinct(s)
      /\ \A i \in 1 .. Len(s) : Stored(store, s[i], tier)
  BY <1>1, <1>2, <1>3, <1>4, FirstListed
<1>6. PICK o \in Outcomes, l \in {loc'[t]} :
        /\ store' = IF o = "ok" THEN [store EXCEPT ![id] = None] ELSE store
        /\ Others(t) /\ pc'[t] = next /\ Told(l, loc[t], o) /\ UNCHANGED chunk
  BY <1>2, ReleaseTells
<1>7. l.released = o /\ l.todo = s /\ TierOf(l.dest) = tier
  BY <1>3, <1>4, <1>6 DEF Told, DestTier
<1>8. /\ store' = store \/ store' = [store EXCEPT ![id] = None]
      /\ \A r \in Resources \ {id} : store'[r] = store[r]
      /\ o = "ok" => store'[id] = None
      /\ o # "ok" => store' = store
  BY <1>2, <1>5, <1>6 DEF Typed
<1>9. Gone(next, l) = IF o = "ok" THEN {id} ELSE {}
  BY <1>1, <1>5, <1>7 DEF Gone
<1>10. Listing(next, l, store')
  <2>1. \A i \in 1 .. Len(s) : /\ s[i].id \in Resources
                               /\ s[i].id \in Gone(next, l) \/ Stored(store', s[i], tier)
    BY <1>5, <1>8, <1>9 DEF Stored
  <2>2. Equipped(next, l)
    BY <1>1, <1>2 DEF Equipped
  <2>3. \A r \in Gone(next, l) : store'[r] = None
    BY <1>8, <1>9
  <2>4. QED
    BY <1>2, <1>5, <1>7, <2>1, <2>2, <2>3 DEF Listing
<1>11. ListedOf(t)' = ListedOf(t)
  <2>1. Listed(next, l) = IdsOf(s)
    BY <1>2, <1>7 DEF Listed
  <2>2. QED
    BY <1>5, <1>6, <2>1 DEF ListedOf
<1>12. Listing(pc[t], loc[t], store)'
  BY <1>6, <1>10
<1>13. QED
  BY <1>2, <1>5, <1>6, <1>8, <1>11, <1>12, ReleaseOwners

\* The source of a committed transaction is the only debt of its chunk.
LEMMA SourceOwes ==
  ASSUME TransactionInv, BooksInv, NEW t \in Threads, pc[t] \in PostCommit
  PROVE  /\ loc[t].chunk \in Chunks /\ Len(OwnChunk(t).cleanup) = 1
         /\ OwnChunk(t).cleanup[1] = SourceOwed(loc[t])
         /\ OwedIds(loc[t].chunk) = {loc[t].src.resource}
         /\ loc[t].src.resource \in Resources /\ ListedOf(t) = {}
<1>1. loc[t].chunk \in Chunks /\ loc[t].src \in Authorities /\ pc[t] \in Working
      /\ pc[t] \notin Filled \cup Unwinding
  BY WorkFacts, SettledFacts DEF Working
<1>2. PICK s, e : s = OwnChunk(t).cleanup /\ e = SourceOwed(loc[t])
  OBVIOUS
<1>3. s = <<e>> => Len(s) = 1 /\ s[1] = e
  BY PlainLists
<1>4. s = <<e>>
  BY <1>1, <1>2 DEF BooksInv, Apart, ChunkOf
<1>5. e.id = loc[t].src.resource
  BY <1>2 DEF SourceOwed
<1>6. OwedIds(loc[t].chunk) = {e.id}
  BY <1>2, <1>3, <1>4 DEF OwedIds, IdsOf, OwnChunk
<1>7. ListedOf(t) = {} /\ loc[t].src.resource \in Resources
  BY <1>1 DEF ListedOf, Listed, Authorities
<1>8. QED
  BY <1>1, <1>2, <1>3, <1>4, <1>5, <1>6, <1>7

LEMMA ReleaseSourceOwners ==
  ASSUME TransactionInv, BooksInv, OwnersInv, NEW t \in Threads, ReleaseSource(t)
  PROVE  OwnersInv'
<1>1. PICK id, next : id = loc[t].src.resource /\ next = "settle_src"
  OBVIOUS
<1>2. /\ pc[t] = "rel_src" /\ ReleaseResource(t, id, next) /\ pc[t] \in PostCommit
      /\ next \notin Filled \cup Unwinding \cup Third \cup Moving /\ GoneOf(t) = {} /\ Typed
  BY <1>1, NothingGone
  DEF ReleaseSource, PostCommit, Unwinding, Filled, Third, Moving, GoneOf, TransactionInv
<1>3. PICK c \in Chunks : c = loc[t].chunk
  BY <1>2, SourceOwes
<1>4. OwedIds(c) = {id} /\ id \in Resources /\ ListedOf(t) = {}
  BY <1>1, <1>2, <1>3, SourceOwes
<1>5. PICK o \in Outcomes, l \in {loc'[t]} :
        /\ store' = IF o = "ok" THEN [store EXCEPT ![id] = None] ELSE store
        /\ Others(t) /\ pc'[t] = next /\ Told(l, loc[t], o) /\ UNCHANGED chunk
  BY <1>2, ReleaseTells
<1>6. l.released = o /\ l.src.resource = id
  BY <1>1, <1>5 DEF Told
<1>7. /\ \A r \in Resources \ {id} : store'[r] = store[r]
      /\ o = "ok" => store'[id] = None
      /\ o # "ok" => store' = store
  BY <1>2, <1>4, <1>5 DEF Typed
<1>8. Gone(next, l) = IF o = "ok" THEN {id} ELSE {}
  BY <1>1, <1>6 DEF Gone
<1>9. Listing(next, l, store')
  <2>1. Equipped(next, l)
    BY <1>1, <1>2 DEF Equipped
  <2>2. QED
    BY <1>2, <1>7, <1>8, <2>1 DEF Listing
<1>10. /\ ListedOf(t)' = {} /\ GoneOf(t)' = Gone(next, l) /\ Listing(pc[t], loc[t], store)'
  BY <1>2, <1>5, <1>9 DEF ListedOf, Listed, GoneOf
<1>11. /\ OwedIds(c)' = {id} /\ chunk'[c] = chunk[c]
  BY <1>4, <1>5 DEF OwedIds
<1>12. Passes(t, c)
  <2>1. PICK R : R = Reach(t, c) /\ R = {chunk[c].auth.resource} \cup {id}
    BY <1>4 DEF Reach
  <2>2. Reach(t, c)' = R
    BY <1>10, <1>11, <2>1 DEF Reach
  <2>3. \A r \in Resources \ R : Untouched(r)
    BY <1>7, <2>1 DEF Untouched
  <2>4. \A r \in Resources : store[r] = None => store'[r] = None
    BY <1>7
  <2>5. \A r \in Fresh : r \in Resources /\ store[r] = None
    BY DEF Fresh
  <2>6. \A d \in Chunks \ {c} : SameOwed(d)
    BY <1>5, Standing
  <2>7. QED
    BY <1>2, <1>5, <2>1, <2>2, <2>3, <2>4, <2>5, <2>6 DEF Passes
<1>13. Orderly(t, c)'
  <2>1. PICK q : q = chunk[c].cleanup
    OBVIOUS
  <2>2. Distinct(q) /\ ~chunk[c].retired /\ chunk[c].auth.resource \notin OwedIds(c)
    BY <2>1 DEF OwnersInv, OwedApart
  <2>3. ASSUME NEW i \in 1 .. Len(q)
        PROVE  /\ q[i].id \in Resources
               /\ Stored(store', q[i], q[i].tier) \/ \E u \in Threads : q[i].id \in GoneOf(u)'
    <3>1. /\ q[i].id \in Resources
          /\ Stored(store, q[i], q[i].tier) \/ \E u \in Threads : q[i].id \in GoneOf(u)
      BY <2>1 DEF OwnersInv, OwedStored, GoneOf
    <3>2. ASSUME NEW u \in Threads, q[i].id \in GoneOf(u) PROVE q[i].id \in GoneOf(u)'
      <4>1. u # t
        BY <1>2, <3>2
      <4>2. QED
        BY <1>5, <3>2, <4>1 DEF Others, GoneOf
    <3>3. q[i].id = id
      BY <1>4, <2>1 DEF OwedIds, IdsOf
    <3>4. o # "ok" => store' = store
      BY <1>7
    <3>5. o = "ok" => q[i].id \in GoneOf(t)'
      BY <1>8, <1>10, <3>3
    <3>6. QED
      BY <3>1, <3>2, <3>4, <3>5
  <2>4. chunk'[c].cleanup = q
    BY <1>11, <2>1
  <2>5. OwedIds(c)' \cap ListedOf(t)' = {} /\ chunk'[c].auth.resource \notin OwedIds(c)'
    BY <1>4, <1>10, <1>11, <2>2
  <2>6. QED
    BY <1>10, <1>11, <2>1, <2>2, <2>3, <2>4, <2>5 DEF Orderly
<1>14. QED
  BY <1>12, <1>13, OwnersStep

(***************************************************************************)
(* Settlements                                                             *)
(***************************************************************************)
\* A released temporary is the thread's no more; another becomes debt of the chunk.
LEMMA SettleCompactionOwners ==
  ASSUME TransactionInv, BooksInv, OwnersInv, NEW t \in Threads, SettleCompaction(t)
  PROVE  OwnersInv'
<1>1. /\ pc[t] = "settle_comp" /\ UNCHANGED store /\ pc[t] \in PreCommit /\ pc[t] \in Filled
      /\ pc[t] \in Moving /\ "verify" \in Filled /\ "verify" \notin Third \cup Moving
  BY DEF SettleCompaction, PreCommit, Filled, Moving, Third
<1>2. /\ Typed /\ loc[t] \in Locals /\ loc[t].chunk \in Chunks /\ pc[t] \in Working
      /\ chunk[loc[t].chunk] \in ChunkRecords /\ chunk[loc[t].chunk].cleanup = <<>>
      /\ AllocationsAt(pc[t], loc[t]) /\ loc[t].ws.charge \in Word /\ loc[t].comp.charge \in Word
  BY <1>1, PreFacts
<1>3. PICK c \in Chunks : c = loc[t].chunk
  BY <1>2
<1>4. PICK a, w, tier : a = loc[t].comp /\ w = loc[t].ws /\ tier = DestTier(t)
  OBVIOUS
<1>5. /\ a # NoAlloc /\ w # NoAlloc
  <2>1. Compacted(loc[t])
    BY <1>1, <1>2 DEF AllocationsAt
  <2>2. a # NoAlloc
    BY <1>1, <1>4, Stock DEF Equipped
  <2>3. QED
    BY <1>1, <1>4, <2>1, <2>2, CompactionWorks
<1>6. /\ ListedOf(t) = {loc[t].dst.id, w.id, a.id} /\ w.id \in Resources \ {a.id} /\ a.id \in Resources
      /\ None \notin Resources /\ Stored(store, loc[t].dst, tier)
      /\ loc[t].dst.id \in Resources \ {w.id, a.id}
      /\ w.id \in GoneOf(t) \/ Stored(store, w, tier)
      /\ a.id \in GoneOf(t) \/ Stored(store, a, tier)
  <2>1. a.id \in Resources /\ w.id \in Resources \ {a.id} /\ None \notin Resources
    BY <1>1, <1>4, <1>5, Stock
  <2>2. QED
    BY <1>1, <1>4, <1>5, <2>1, Stock
<1>7. GoneOf(t) = IF loc[t].released = "ok" THEN {a.id} ELSE {}
  BY <1>1, <1>4 DEF GoneOf, Gone
<1>8. /\ ReleaseMaterializedOk(ledger, DestTier(t), "workspace", a.charge)
      /\ MoveToDebtOk(ledger, DestTier(t), "workspace", a.charge)
  <2>1. PICK n \in Word, y \in Word : n = a.charge /\ y = w.charge
    BY <1>2, <1>4
  <2>2. Worked(pc[t], loc[t]) = y + n
    BY <1>1, <1>4, <2>1 DEF Worked, Filled, Unwinding
  <2>3. "workspace" \in Buckets /\ n <= y + n
    BY WordFacts DEF Buckets
  <2>4. QED
    BY <1>2, <2>1, <2>2, <2>3, BucketCovered
<1>9. CASE loc[t].released = "ok"
  <2>1. PICK l, p : l = [loc[t] EXCEPT !.comp = NoAlloc] /\ p = "verify"
    OBVIOUS
  <2>2. Goto(t, p, l) /\ UNCHANGED chunk
    BY <1>4, <1>8, <1>9, <2>1 DEF SettleCompaction
  <2>3. /\ l.dest = loc[t].dest /\ l.dst = loc[t].dst /\ l.ws = loc[t].ws /\ l.comp = NoAlloc
    BY <1>2, <2>1 DEF Locals
  <2>4. Gone(p, l) = {} /\ Equipped(p, l)
    BY <1>1, <2>1, NothingGone DEF Equipped
  <2>5. loc[t].comp.id \in GoneOf(t) /\ loc[t].ws.id \notin GoneOf(t)
    BY <1>4, <1>6, <1>7, <1>9
  <2>6. p \in Filled /\ p # "reconcile" /\ pc[t] # "reconcile"
    BY <1>1, <2>1
  <2>7. QED
    BY <1>1, <2>2, <2>3, <2>4, <2>5, <2>6, WalkOwners
<1>10. CASE loc[t].released # "ok"
  <2>1. PICK poison, keep, ending : /\ keep = FALSE /\ poison = (loc[t].released = "lie")
                                    /\ ending = IF poison THEN "poison" ELSE "clear"
    OBVIOUS
  <2>2. PICK s : s = <<Item(loc[t].ws, "workspace", FALSE), Item(loc[t].dst, "staging", poison)>>
    OBVIOUS
  <2>3. PICK l : l = [loc[t] EXCEPT !.todo = s, !.ending = ending]
    OBVIOUS
  <2>4. PICK d : d = RememberCleanup(chunk[c], t, Debt(t, a))
    OBVIOUS
  <2>5. Len(chunk[c].cleanup) < CleanupSlots /\ HasRoom(chunk[c])
    BY <1>2, <1>3 DEF CleanupSlots, HasRoom
  <2>6. chunk' = [chunk EXCEPT ![c] = d] /\ Goto(t, "rollback", l)
    BY <1>3, <1>4, <1>8, <1>10, <2>1, <2>2, <2>3, <2>4, <2>5 DEF SettleCompaction, RollBack
  <2>7. l.todo = s /\ l.dest = loc[t].dest
    BY <1>2, <2>3 DEF Locals
  <2>8. GoneOf(t) = {} /\ Stored(store, a, tier) /\ Stored(store, w, tier) /\ a.id \in ListedOf(t)
    BY <1>6, <1>7, <1>10
  <2>9. Holds(s, store, tier) /\ IdsOf(s) = {loc[t].ws.id, loc[t].dst.id}
    <3>1. InStock(t, store, tier) /\ Stored(store, loc[t].ws, tier)
      BY <1>4, <1>6, <2>8 DEF InStock, NoAlloc
    <3>2. QED
      BY <2>2, <3>1, PairHeld
  <2>10. IdsOf(s) = ListedOf(t) \ {a.id}
    BY <1>4, <1>6, <2>9
  <2>11. d.auth.resource = chunk[c].auth.resource /\ d.retired = chunk[c].retired
    BY <1>2, <1>3, <2>4, <2>5, RememberOwes
  <2>12. d.cleanup = RememberCleanup(chunk[c], t, Debt(t, a)).cleanup
    BY <2>4
  <2>13. Holds(l.todo, store, DestTier(t)) /\ IdsOf(l.todo) = ListedOf(t) \ {a.id}
         /\ Stored(store, a, DestTier(t))
    BY <1>4, <2>7, <2>8, <2>9, <2>10
  <2>14. QED
    BY <1>1, <2>5, <2>6, <2>7, <2>8, <2>11, <2>12, <2>13, DebtOwners
<1>11. QED
  BY <1>9, <1>10

LEMMA SettleWorkspaceOwners ==
  ASSUME TransactionInv, BooksInv, OwnersInv, NEW t \in Threads, SettleWorkspace(t)
  PROVE  OwnersInv'
<1>1. /\ pc[t] = "settle_ws" /\ UNCHANGED store /\ pc[t] \in PreCommit /\ pc[t] \in Filled
      /\ pc[t] \in Verified /\ "commit" \in Filled /\ "commit" \notin Third \cup Moving
  BY DEF SettleWorkspace, PreCommit, Filled, Verified, Moving, Third
<1>2. /\ Typed /\ loc[t] \in Locals /\ loc[t].chunk \in Chunks /\ pc[t] \in Working
      /\ chunk[loc[t].chunk] \in ChunkRecords /\ chunk[loc[t].chunk].cleanup = <<>>
      /\ AllocationsAt(pc[t], loc[t]) /\ loc[t].ws.charge \in Word
  BY <1>1, PreFacts
<1>3. PICK c \in Chunks : c = loc[t].chunk
  BY <1>2
<1>4. PICK a, tier : a = loc[t].ws /\ tier = DestTier(t)
  OBVIOUS
<1>5. a # NoAlloc /\ loc[t].comp = NoAlloc /\ NoAlloc.id = None /\ NoAlloc.charge = 0
  <2>1. loc[t].comp = NoAlloc
    BY <1>1, <1>2 DEF AllocationsAt
  <2>2. a # NoAlloc
    BY <1>1, <1>4, Stock DEF Equipped
  <2>3. QED
    BY <2>1, <2>2 DEF NoAlloc
<1>6. /\ ListedOf(t) = {loc[t].dst.id, a.id} /\ a.id \in Resources
      /\ None \notin Resources /\ loc[t].dst.id \in Resources \ {a.id}
      /\ a.id \in GoneOf(t) \/ Stored(store, a, tier)
  <2>1. a.id \in Resources /\ None \notin Resources
    BY <1>1, <1>4, <1>5, Stock
  <2>2. QED
    BY <1>1, <1>4, <1>5, <2>1, Stock
<1>7. GoneOf(t) = IF loc[t].released = "ok" THEN {a.id} ELSE {}
  BY <1>1, <1>4 DEF GoneOf, Gone
<1>8. /\ ReleaseMaterializedOk(ledger, DestTier(t), "workspace", a.charge)
      /\ MoveToDebtOk(ledger, DestTier(t), "workspace", a.charge)
  <2>1. PICK n \in Word : n = a.charge
    BY <1>2, <1>4
  <2>2. n \in Nat /\ "workspace" \in Buckets
    BY WordFacts DEF Buckets
  <2>3. Worked(pc[t], loc[t]) = n
    BY <1>1, <1>4, <1>5, <2>1, <2>2 DEF Worked, Filled, Unwinding
  <2>4. n <= n
    BY <2>2
  <2>5. QED
    BY <1>2, <2>1, <2>2, <2>3, <2>4, BucketCovered
<1>9. CASE loc[t].released = "ok"
  <2>1. PICK l, p : l = [loc[t] EXCEPT !.ws = NoAlloc] /\ p = "commit"
    OBVIOUS
  <2>2. Goto(t, p, l) /\ UNCHANGED chunk
    BY <1>4, <1>8, <1>9, <2>1 DEF SettleWorkspace
  <2>3. /\ l.dest = loc[t].dest /\ l.dst = loc[t].dst /\ l.ws = NoAlloc /\ l.comp = loc[t].comp
    BY <1>2, <2>1 DEF Locals
  <2>4. Gone(p, l) = {} /\ Equipped(p, l)
    BY <1>1, <2>1, NothingGone DEF Equipped
  <2>5. loc[t].ws.id \in GoneOf(t) /\ loc[t].comp.id \notin GoneOf(t)
    BY <1>4, <1>5, <1>6, <1>7, <1>9
  <2>6. p \in Filled /\ p # "reconcile" /\ pc[t] # "reconcile"
    BY <1>1, <2>1
  <2>7. QED
    BY <1>1, <2>2, <2>3, <2>4, <2>5, <2>6, WalkOwners
<1>10. CASE loc[t].released # "ok"
  <2>1. PICK poison, ending : /\ poison = (loc[t].released = "lie")
                              /\ ending = IF poison THEN "poison" ELSE "clear"
    OBVIOUS
  <2>2. PICK s : s = <<Item(loc[t].dst, "staging", poison)>>
    OBVIOUS
  <2>3. PICK l : l = [loc[t] EXCEPT !.todo = s, !.ending = ending]
    OBVIOUS
  <2>4. PICK d : d = RememberCleanup(chunk[c], t, Debt(t, a))
    OBVIOUS
  <2>5. HasRoom(chunk[c])
    BY <1>2, <1>3 DEF HasRoom
  <2>6. chunk' = [chunk EXCEPT ![c] = d] /\ Goto(t, "rollback", l)
    BY <1>3, <1>4, <1>8, <1>10, <2>1, <2>2, <2>3, <2>4 DEF SettleWorkspace, RollBack
  <2>7. l.todo = s /\ l.dest = loc[t].dest
    BY <1>2, <2>3 DEF Locals
  <2>8. GoneOf(t) = {} /\ Stored(store, a, tier) /\ a.id \in ListedOf(t)
    BY <1>6, <1>7, <1>10
  <2>9. Holds(s, store, DestTier(t)) /\ IdsOf(s) = {loc[t].dst.id}
    <3>1. pc[t] # "reconcile"
      BY <1>1
    <3>2. QED
      BY <1>1, <2>2, <3>1, DestinationHeld
  <2>10. IdsOf(s) = ListedOf(t) \ {a.id}
    BY <1>6, <2>9
  <2>11. d.auth.resource = chunk[c].auth.resource /\ d.retired = chunk[c].retired
    BY <1>2, <1>3, <2>4, <2>5, RememberOwes
  <2>12. d.cleanup = RememberCleanup(chunk[c], t, Debt(t, a)).cleanup
    BY <2>4
  <2>13. Holds(l.todo, store, DestTier(t)) /\ IdsOf(l.todo) = ListedOf(t) \ {a.id}
         /\ Stored(store, a, DestTier(t))
    BY <1>4, <2>7, <2>8, <2>9, <2>10
  <2>14. QED
    BY <1>1, <2>5, <2>6, <2>7, <2>8, <2>11, <2>12, <2>13, DebtOwners
<1>11. QED
  BY <1>9, <1>10

\* A rollback's list without its first resource.
LEMMA TailHeld ==
  ASSUME NEW s \in Seq(Items), s # <<>>, Distinct(s), NEW st, NEW tier,
         \A i \in 1 .. Len(s) : s[i].id = s[1].id \/ Stored(st, s[i], tier)
  PROVE  Holds(Tail(s), st, tier) /\ IdsOf(Tail(s)) = IdsOf(s) \ {s[1].id}
<1>0. PICK e : e = Tail(s)
  OBVIOUS
<1>1. PICK n \in Nat : n = Len(s) /\ e = Tail(s)
  BY <1>0
<1>2. n # 0 /\ Len(e) = n - 1 /\ \A i \in 1 .. n - 1 : e[i] = s[i + 1]
  BY <1>1
<1>3. /\ \A i \in 1 .. n - 1 : i + 1 \in 1 .. n /\ i + 1 # 1
      /\ \A i \in 1 .. n : i = 1 \/ (i - 1 \in 1 .. n - 1 /\ (i - 1) + 1 = i)
      /\ 1 \in 1 .. n
      /\ \A i, j \in 1 .. n - 1 : i + 1 = j + 1 => i = j
  BY <1>2
<1>4. \A i \in 1 .. n - 1 : e[i].id # s[1].id
  BY <1>1, <1>2, <1>3 DEF Distinct
<1>5. \A i \in 1 .. n - 1 : Stored(st, e[i], tier)
  BY <1>1, <1>2, <1>3, <1>4
<1>6. \A i, j \in 1 .. n - 1 : e[i].id = e[j].id => i = j
  BY <1>1, <1>2, <1>3 DEF Distinct
<1>7. Holds(e, st, tier)
  BY <1>2, <1>5, <1>6 DEF Holds, Distinct
<1>8. ASSUME NEW r \in IdsOf(e) PROVE r \in IdsOf(s) \ {s[1].id}
  <2>1. PICK i \in 1 .. n - 1 : r = e[i].id
    BY <1>2 DEF IdsOf
  <2>2. i + 1 \in 1 .. n /\ e[i] = s[i + 1] /\ e[i].id # s[1].id
    BY <1>2, <1>3, <1>4
  <2>3. QED
    BY <1>1, <2>1, <2>2 DEF IdsOf
<1>9. ASSUME NEW r \in IdsOf(s) \ {s[1].id} PROVE r \in IdsOf(e)
  <2>1. PICK i \in 1 .. n : r = s[i].id
    BY <1>1 DEF IdsOf
  <2>2. i # 1
    BY <2>1
  <2>3. PICK j \in 1 .. n - 1 : j + 1 = i
    BY <1>3, <2>2
  <2>4. r = e[j].id
    BY <1>2, <2>1, <2>3
  <2>5. QED
    BY <1>2, <2>4 DEF IdsOf
<1>10. QED
  BY <1>1, <1>7, <1>8, <1>9

LEMMA RollbackSettleOwners ==
  ASSUME TransactionInv, BooksInv, OwnersInv, NEW t \in Threads, RollbackSettle(t)
  PROVE  OwnersInv'
<1>1. /\ pc[t] = "settle" /\ UNCHANGED store /\ pc[t] \in Unwinding /\ pc[t] \in Working
  BY DEF RollbackSettle, Unwinding, Working
<1>2. /\ Typed /\ loc[t] \in Locals /\ loc[t].chunk \in Chunks
      /\ chunk[loc[t].chunk] \in ChunkRecords
  BY <1>1, WorkFacts
<1>3. loc[t].todo # <<>>
  BY <1>1 DEF TransactionInv, Threaded, ThreadInv, PlacedAt
<1>4. PICK c \in Chunks, k \in ChunkRecords : c = loc[t].chunk /\ k = chunk[c]
  BY <1>2
<1>5. PICK s, a : s \in Seq(Items) /\ s = loc[t].todo /\ a = s[1] /\ a = Head(loc[t].todo)
  BY <1>1, <1>3, FirstListed
<1>6. /\ s # <<>> /\ 1 \in 1 .. Len(s) /\ a.id \in Resources /\ ListedOf(t) = IdsOf(s)
      /\ a.id \in ListedOf(t) /\ Distinct(s)
      /\ \A i \in 1 .. Len(s) : s[i].id \in GoneOf(t) \/ Stored(store, s[i], DestTier(t))
  BY <1>1, <1>3, <1>5, FirstListed
<1>7. GoneOf(t) = IF loc[t].released = "ok" THEN {a.id} ELSE {}
  BY <1>1, <1>5 DEF GoneOf, Gone
<1>8. \A i \in 1 .. Len(s) : s[i].id = s[1].id \/ Stored(store, s[i], DestTier(t))
  BY <1>5, <1>6, <1>7
<1>9. PICK l : l = [loc[t] EXCEPT !.todo = Tail(@)]
  OBVIOUS
<1>10. l.dest = loc[t].dest /\ l.todo = Tail(s)
  BY <1>2, <1>5, <1>9 DEF Locals
<1>11. Holds(l.todo, store, DestTier(t)) /\ IdsOf(l.todo) = ListedOf(t) \ {a.id}
  <2>1. PICK tier : tier = DestTier(t)
    OBVIOUS
  <2>2. Holds(Tail(s), store, tier) /\ IdsOf(Tail(s)) = IdsOf(s) \ {s[1].id}
    BY <1>5, <1>6, <1>8, <2>1, TailHeld
  <2>3. QED
    BY <1>5, <1>6, <1>10, <2>1, <2>2
<1>12. Goto(t, "rollback", l)
  BY <1>9 DEF RollbackSettle
<1>13. Others(t) /\ pc'[t] = "rollback" /\ loc'[t] = l
  BY <1>2, <1>12, GotoOthers
<1>14. /\ Listing(pc[t], loc[t], store)' /\ ListedOf(t)' = ListedOf(t) \ {a.id}
  <2>1. PICK tier : tier = DestTier(t) /\ tier = TierOf(l.dest)
    BY <1>10 DEF DestTier
  <2>2. Listing("rollback", l, store) /\ Listed("rollback", l) = IdsOf(l.todo)
    BY <1>11, <2>1, HoldsListing
  <2>3. QED
    BY <1>1, <1>11, <1>13, <2>2 DEF ListedOf
<1>15. /\ ReleaseMaterializedOk(ledger, DestTier(t), a.bucket, a.charge)
       /\ MoveToDebtOk(ledger, DestTier(t), a.bucket, a.charge)
       /\ HasRoom(k) /\ a.charge \in Nat /\ a \in Items
  <2>1. PICK i \in Nat, j \in Nat : i = Len(k.cleanup) /\ j = Len(loc[t].todo)
    <3>1. PICK e \in Seq(CleanupResources) : e = k.cleanup
      BY DEF ChunkRecords
    <3>2. Len(e) \in Nat /\ Len(s) \in Nat
      BY <1>5, <3>1
    <3>3. QED
      BY <1>5, <3>1, <3>2
  <2>2. i + j <= 3
    BY <1>1, <1>4, <2>1 DEF BooksInv, Apart, OwnChunk, ChunkOf
  <2>3. Len(loc[t].todo) <= 3
    <3>1. j <= 3
      BY <2>2
    <3>2. QED
      BY <2>1, <3>1
  <2>4. /\ a \in Items /\ Len(l.todo) \in Nat /\ Len(loc[t].todo) = Len(l.todo) + 1
        /\ \A b : /\ ToUndo(loc[t], b) = Backed(a, b) + ToUndo(l, b) /\ ToUndo(l, b) \in Nat
    <3>1. l.todo = Tail(loc[t].todo)
      BY <1>5, <1>10
    <3>2. QED
      BY <1>2, <1>3, <1>5, <2>3, <3>1, UndoTail
  <2>5. PICK b \in Buckets, n \in Word : b = a.bucket /\ n = a.charge
    BY <2>4 DEF Items
  <2>6. n \in Nat
    BY WordFacts
  <2>7. PICK x \in Nat, y \in Nat : x = ToUndo(l, "staging") /\ y = ToUndo(l, "workspace")
    BY <2>4
  <2>8. /\ Staged(pc[t], loc[t]) = Backed(a, "staging") + x
        /\ Worked(pc[t], loc[t]) = Backed(a, "workspace") + y
    BY <1>1, <2>4, <2>7 DEF Staged, Worked
  <2>9. /\ Backed(a, "staging") = IF b = "staging" THEN n ELSE 0
        /\ Backed(a, "workspace") = IF b = "workspace" THEN n ELSE 0
    BY <2>5 DEF Backed
  <2>10. n <= n + x /\ n <= n + y
    BY <2>6, <2>7
  <2>11. /\ ReleaseMaterializedOk(ledger, DestTier(t), b, n)
         /\ MoveToDebtOk(ledger, DestTier(t), b, n)
    BY <1>1, <2>8, <2>9, <2>10, BucketCovered
  <2>12. i <= 2
    <3>1. PICK m \in Nat : m = Len(l.todo) /\ j = m + 1
      BY <2>1, <2>4
    <3>2. QED
      BY <2>2, <3>1
  <2>13. HasRoom(k)
    BY <2>1, <2>12 DEF HasRoom
  <2>14. QED
    BY <2>4, <2>5, <2>6, <2>11, <2>13
<1>16. CASE loc[t].released = "ok"
  <2>1. UNCHANGED chunk
    BY <1>5, <1>15, <1>16 DEF RollbackSettle
  <2>2. (\A e \in Chunks : SameOwed(e)) /\ \A r \in Resources : Untouched(r)
    BY <1>1, <2>1, Standing
  <2>3. store[a.id] = None
    BY <1>7, <1>16 DEF OwnersInv, Listing, GoneOf
  <2>4. GoneOf(t) \subseteq ListedOf(t) /\ ListedOf(t)' \subseteq ListedOf(t)
    BY <1>6, <1>7, <1>14, <1>16
  <2>5. \A r \in ListedOf(t) : store'[r] # None => r \in ListedOf(t)'
    BY <1>1, <1>14, <2>3
  <2>6. QED
    BY <1>1, <1>13, <1>14, <2>2, <2>4, <2>5, KeepOwners
<1>17. CASE loc[t].released # "ok"
  <2>1. PICK owed : owed = RememberCleanup(k, t, Debt(t, a))
    OBVIOUS
  <2>2. owed \in ChunkRecords
    <3>1. a.id \in Resources \cup {None} /\ a.charge \in Word
      BY <1>15 DEF Items
    <3>2. Nudged(k, owed, t)
      BY <1>1, <1>4, <2>1, <3>1, DebtNudges DEF OwnChunk
    <3>3. QED
      BY <3>2 DEF Nudged
  <2>3. PICK d \in {owed, Poison(owed, t)} : chunk' = [chunk EXCEPT ![c] = d]
    <3>1. PICK full, condemn : /\ full = (Len(k.cleanup) >= CleanupSlots)
                               /\ condemn = (a.poison \/ loc[t].released = "lie")
      OBVIOUS
    <3>2. chunk' = [chunk EXCEPT ![c] = IF condemn /\ ~full THEN Poison(owed, t) ELSE owed]
      BY <1>4, <1>5, <1>15, <1>17, <2>1, <3>1 DEF RollbackSettle
    <3>3. QED
      BY <3>2
  <2>4. Owes(d, owed)
    BY <2>2, <2>3, ClearOwes DEF Owes
  <2>5. owed.auth = k.auth /\ owed.retired = k.retired
    BY <1>15, <2>1, RememberOwes
  <2>6. d.auth.resource = chunk[c].auth.resource /\ d.retired = chunk[c].retired
        /\ d.cleanup = RememberCleanup(chunk[c], t, Debt(t, a)).cleanup
    BY <1>4, <2>1, <2>4, <2>5 DEF Owes
  <2>7. GoneOf(t) = {} /\ HasRoom(chunk[c])
    BY <1>4, <1>7, <1>15, <1>17
  <2>8. Stored(store, a, DestTier(t))
    BY <1>5, <1>6, <2>7
  <2>9. QED
    BY <1>1, <1>6, <1>10, <1>11, <1>12, <2>3, <2>6, <2>7, <2>8, DebtOwners
<1>18. QED
  BY <1>16, <1>17

(***************************************************************************)
(* The commit and the end of a migration                                   *)
(***************************************************************************)
\* The destination becomes the authority and the source debt: the same two resources.
LEMMA SwungOwners ==
  ASSUME TransactionInv, BooksInv, OwnersInv, NEW t \in Threads, pc[t] = "commit", UNCHANGED store,
         NEW c \in Chunks, c = loc[t].chunk, NEW d, chunk' = [chunk EXCEPT ![c] = d],
         OwesSource(d, loc[t]), d.auth.resource = loc[t].dst.id, d.retired = chunk[c].retired,
         Goto(t, "rel_src", loc[t])
  PROVE  OwnersInv'
<1>1. /\ pc[t] \in PreCommit /\ pc[t] \in Filled /\ pc[t] # "reconcile" /\ GoneOf(t) = {}
      /\ "rel_src" \notin Handed
  BY NothingGone, OutsideHands DEF PreCommit, Filled, GoneOf
<1>2. Typed /\ loc[t].ws = NoAlloc /\ loc[t].comp = NoAlloc /\ chunk[c].cleanup = <<>>
  BY <1>1, PreFacts DEF AllocationsAt, Verified
<1>3. PICK x, y : x = chunk[c].auth.resource /\ y = loc[t].dst.id
  OBVIOUS
<1>4. ListedOf(t) = {y} /\ x # y
  BY <1>1, <1>2, <1>3, Stock, Hands
<1>5. Others(t) /\ pc'[t] = "rel_src" /\ loc'[t] = loc[t]
  BY <1>2, GotoOthers
<1>6. ListedOf(t)' = {} /\ Listing(pc[t], loc[t], store)'
  BY <1>1, <1>5, NothingInHand, NothingListed DEF ListedOf
<1>7. chunk'[c] = d /\ \A e \in Chunks \ {c} : chunk'[e] = chunk[e]
  BY <1>2 DEF Typed
<1>8. PICK q, e : q = d.cleanup /\ e = SourceOwed(loc[t])
  OBVIOUS
<1>9. q = <<e>> => Len(q) = 1 /\ q[1] = e
  BY PlainLists
<1>10. Len(q) = 1 /\ q[1] = e
  BY <1>8, <1>9 DEF OwesSource
<1>11. e.id = x /\ x \in Resources /\ Stored(store, e, e.tier)
  <2>1. loc[t].src = chunk[c].auth /\ x \in Resources
    BY <1>1, <1>3, SourceFacts DEF OwnChunk, Authorities
  <2>2. /\ store[x] # None /\ store[x].tier = TierOf(loc[t].src.state)
        /\ store[x].charge = loc[t].src.charge
    BY <1>3, <2>1 DEF TransactionInv, Kept, ChunkKept
  <2>3. e.id = x /\ e.tier = TierOf(loc[t].src.state) /\ e.charge = loc[t].src.charge
    BY <1>3, <1>8, <2>1 DEF SourceOwed
  <2>4. QED
    BY <2>1, <2>2, <2>3 DEF Stored
<1>12. OwedIds(c) = {} /\ OwedIds(c)' = {x} /\ chunk'[c].auth.resource = y
  <2>1. OwedIds(c) = {}
    BY <1>2 DEF OwedIds, IdsOf
  <2>2. IdsOf(q) = {x}
    BY <1>10, <1>11 DEF IdsOf
  <2>3. QED
    BY <1>3, <1>7, <1>8, <2>1, <2>2 DEF OwedIds
<1>13. Passes(t, c)
  <2>1. PICK R : R = Reach(t, c) /\ R = {x, y}
    BY <1>3, <1>4, <1>12 DEF Reach
  <2>2. Reach(t, c)' = R
    BY <1>6, <1>12, <2>1 DEF Reach
  <2>3. \A r \in Fresh : r \in Resources /\ store[r] = None
    BY DEF Fresh
  <2>4. \A f \in Chunks \ {c} : SameOwed(f)
    BY <1>7 DEF SameOwed
  <2>5. QED
    BY <1>1, <1>5, <2>1, <2>2, <2>3, <2>4, Standing DEF Passes
<1>14. Orderly(t, c)'
  <2>1. 1 .. Len(q) = {1}
    BY <1>10
  <2>2. Distinct(q)
    BY <2>1 DEF Distinct
  <2>3. \A i \in 1 .. Len(q) : q[i].id \in Resources /\ Stored(store, q[i], q[i].tier)
    BY <1>10, <1>11, <2>1
  <2>4. ~chunk'[c].retired
    BY <1>7 DEF OwnersInv
  <2>5. chunk'[c].auth.resource \notin OwedIds(c)' /\ OwedIds(c)' \cap ListedOf(t)' = {}
    BY <1>4, <1>6, <1>12
  <2>6. chunk'[c].cleanup = q
    BY <1>7, <1>8
  <2>7. QED
    BY <1>6, <2>2, <2>3, <2>4, <2>5, <2>6 DEF Orderly
<1>15. QED
  BY <1>13, <1>14, OwnersStep

LEMMA CommitOwners ==
  ASSUME TransactionInv, BooksInv, OwnersInv, NEW t \in Threads, Commit(t)
  PROVE  OwnersInv'
<1>1. pc[t] = "commit" /\ UNCHANGED store /\ pc[t] \in PreCommit /\ pc[t] \in Filled
      /\ pc[t] # "reconcile" /\ GoneOf(t) = {}
  BY NothingGone DEF Commit, PreCommit, Filled, GoneOf
<1>2. /\ Typed /\ loc[t] \in Locals /\ loc[t].chunk \in Chunks
      /\ chunk \in [Chunks -> ChunkRecords] /\ loc[t].ws = NoAlloc /\ loc[t].comp = NoAlloc
  BY <1>1, PreFacts DEF AllocationsAt, Verified
<1>3. ASSUME chunk' = [chunk EXCEPT
               ![loc[t].chunk].cleanup =
                  <<[id |-> loc[t].src.resource, tier |-> SrcTier(t), charge |-> loc[t].src.charge]>>,
               ![loc[t].chunk].auth =
                  [state |-> loc[t].dest, resource |-> loc[t].dst.id,
                   charge |-> loc[t].dst.charge, content |-> loc[t].src.content]],
             Goto(t, "rel_src", loc[t])
      PROVE  OwnersInv'
  <2>1. PICK c \in Chunks : c = loc[t].chunk
    BY <1>2
  <2>2. PICK e, a : /\ e = <<SourceOwed(loc[t])>>
                    /\ a = [state |-> loc[t].dest, resource |-> loc[t].dst.id,
                            charge |-> loc[t].dst.charge, content |-> loc[t].src.content]
    OBVIOUS
  <2>3. PICK d : d = [chunk[c] EXCEPT !.cleanup = e, !.auth = a]
    OBVIOUS
  <2>4. chunk' = [chunk EXCEPT ![c] = d]
    BY <1>2, <1>3, <2>1, <2>2, <2>3 DEF SourceOwed, SrcTier
  <2>5. d.cleanup = e /\ d.auth = a /\ d.retired = chunk[c].retired
    BY <1>2, <2>3 DEF ChunkRecords
  <2>6. OwesSource(d, loc[t]) /\ d.auth.resource = loc[t].dst.id
    BY <2>2, <2>5 DEF OwesSource
  <2>7. QED
    BY <1>1, <1>3, <2>1, <2>4, <2>5, <2>6, SwungOwners
<1>4. ASSUME RollBack(t, <<Item(loc[t].dst, "staging", TRUE)>>, "poison"), UNCHANGED <<ledger, chunk>>
      PROVE  OwnersInv'
  <2>1. PICK poison, e : poison = TRUE /\ e = "poison"
    OBVIOUS
  <2>2. PICK todo : todo = <<Item(loc[t].dst, "staging", poison)>>
    OBVIOUS
  <2>3. PICK l : l = [loc[t] EXCEPT !.todo = todo, !.ending = e]
    OBVIOUS
  <2>4. Goto(t, "rollback", l)
    BY <1>4, <2>1, <2>2, <2>3 DEF RollBack
  <2>5. l.dest = loc[t].dest /\ l.todo = <<Item(loc[t].dst, "staging", poison)>>
    BY <1>2, <2>2, <2>3 DEF Locals
  <2>6. UNCHANGED <<store, chunk>>
    BY <1>1, <1>4
  <2>7. QED
    BY <1>1, <1>2, <2>4, <2>5, <2>6, DestinationRollsBack
<1>5. QED
  BY <1>3, <1>4 DEF Commit

LEMMA ForgetOwes ==
  ASSUME NEW k \in ChunkRecords, NEW id
  PROVE  /\ ForgetCleanup(k, id).auth = k.auth /\ ForgetCleanup(k, id).retired = k.retired
<1>1. PICK e : ForgetCleanup(k, id) \in {k, [k EXCEPT !.cleanup = e]}
  BY DEF ForgetCleanup
<1>2. QED
  BY <1>1 DEF ChunkRecords

LEMMA SettleSourceOwners ==
  ASSUME TransactionInv, BooksInv, OwnersInv, NEW t \in Threads, SettleSource(t)
  PROVE  OwnersInv'
<1>1. /\ pc[t] = "settle_src" /\ UNCHANGED store /\ pc[t] \in PostCommit
      /\ pc[t] \notin Filled \cup Unwinding /\ pc[t] \in Working
  BY DEF SettleSource, PostCommit, Filled, Unwinding, Working
<1>2. /\ Typed /\ loc[t] \in Locals /\ loc[t].chunk \in Chunks /\ chunk[loc[t].chunk] \in ChunkRecords
      /\ SrcTier(t) \in Tiers /\ loc[t].src.charge \in Word
  BY <1>1, SettledFacts, WorkFacts
<1>3. PICK c \in Chunks : c = loc[t].chunk
  BY <1>2
<1>4. PICK k \in ChunkRecords : k = chunk[c]
  BY <1>2, <1>3
<1>5. PICK x, y : x = loc[t].src.resource /\ y = k.auth.resource
  OBVIOUS
<1>6. /\ Len(k.cleanup) = 1 /\ k.cleanup[1].id = x /\ OwedIds(c) = {x} /\ ListedOf(t) = {}
  <2>1. OwnChunk(t) = k
    BY <1>3, <1>4 DEF OwnChunk
  <2>2. SourceOwed(loc[t]).id = x
    BY <1>5 DEF SourceOwed
  <2>3. QED
    BY <1>1, <1>3, <1>5, <2>1, <2>2, SourceOwes
<1>7. GoneOf(t) = IF loc[t].released = "ok" THEN {x} ELSE {}
  BY <1>1, <1>5 DEF GoneOf, Gone
<1>8. ReleaseCleanupDebtOk(ledger, SrcTier(t), loc[t].src.charge)
  <2>1. PICK n \in Word, u \in Tiers : n = loc[t].src.charge /\ u = SrcTier(t)
    BY <1>2
  <2>2. n \in Nat
    BY WordFacts
  <2>3. OwesSource(k, loc[t])
    BY <1>1, <1>3, <1>4 DEF BooksInv, Apart, OwnChunk, ChunkOf, OwesSource
  <2>4. Owed(k, u) = Part(u, u, n)
    BY <2>1, <2>2, <2>3, SourceDebt DEF SrcTier
  <2>5. DebtOf(c, u) <= ledger[u].cleanup_debt
    BY <1>2, Covered DEF BooksInv
  <2>6. QED
    BY <1>4, <2>1, <2>4, <2>5 DEF DebtOf, Part, ReleaseCleanupDebtOk
<1>9. ASSUME NEW ok \in BOOLEAN, Return(t, ok)
      PROVE  /\ Others(t) /\ ListedOf(t)' = {} /\ Listing(pc[t], loc[t], store)'
  <2>1. Others(t) /\ pc'[t] \notin Handed
    BY <1>9, ReturnHands
  <2>2. QED
    BY <2>1, NothingInHand, NothingListed DEF ListedOf
<1>10. CASE loc[t].released = "ok"
  <2>1. PICK ok \in BOOLEAN : ok = TRUE
    OBVIOUS
  <2>2. PICK g, d : g = ForgetCleanup(k, x) /\ d = ClearTransition(g, t)
    OBVIOUS
  <2>3. chunk' = [chunk EXCEPT ![c] = d] /\ Return(t, ok)
    BY <1>3, <1>4, <1>5, <1>8, <1>10, <2>1, <2>2 DEF SettleSource
  <2>4. g \in ChunkRecords /\ Len(g.cleanup) = 0 /\ g.auth = k.auth /\ g.retired = k.retired
    <3>1. Nudged(k, g, t)
      BY <2>2, ForgetNudges
    <3>2. QED
      BY <1>6, <2>2, <3>1, ForgetOnly, ForgetOwes DEF Nudged
  <2>5. Owes(d, g)
    BY <2>2, <2>4, ClearOwes
  <2>6. PICK q : q = d.cleanup
    OBVIOUS
  <2>7. Len(q) = 0 /\ d.auth.resource = y /\ d.retired = k.retired
    BY <1>5, <2>4, <2>5, <2>6 DEF Owes
  <2>8. chunk'[c] = d /\ \A e \in Chunks \ {c} : chunk'[e] = chunk[e]
    BY <1>2, <2>3 DEF Typed
  <2>9. 1 .. Len(q) = {}
    BY <2>7
  <2>10. OwedIds(c)' = {} /\ Others(t) /\ ListedOf(t)' = {} /\ Listing(pc[t], loc[t], store)'
    <3>1. IdsOf(q) = {}
      BY <2>9 DEF IdsOf
    <3>2. QED
      BY <1>9, <2>3, <2>6, <2>8, <3>1 DEF OwedIds
  <2>11. store[x] = None /\ GoneOf(t) = {x}
    BY <1>7, <1>10 DEF OwnersInv, Listing, GoneOf
  <2>12. Passes(t, c)
    <3>1. PICK R : R = Reach(t, c) /\ R = {x, y}
      BY <1>4, <1>5, <1>6 DEF Reach
    <3>2. Reach(t, c)' = {y}
      BY <2>7, <2>8, <2>10 DEF Reach
    <3>3. \A r \in Fresh : r \in Resources /\ store[r] = None
      BY DEF Fresh
    <3>4. \A e \in Chunks \ {c} : SameOwed(e)
      BY <2>8 DEF SameOwed
    <3>5. QED
      BY <1>1, <2>10, <2>11, <3>1, <3>2, <3>3, <3>4, Standing DEF Passes
  <2>13. Orderly(t, c)'
    <3>1. Distinct(q)
      BY <2>9 DEF Distinct
    <3>2. ~chunk'[c].retired
      BY <1>4, <2>7, <2>8 DEF OwnersInv
    <3>3. chunk'[c].cleanup = q
      BY <2>6, <2>8
    <3>4. QED
      BY <2>9, <2>10, <3>1, <3>2, <3>3 DEF Orderly
  <2>14. QED
    BY <2>12, <2>13, OwnersStep
<1>11. CASE loc[t].released # "ok"
  <2>1. PICK ok \in BOOLEAN : ok = FALSE
    OBVIOUS
  <2>2. PICK d \in {ClearTransition(k, t), Poison(k, t)} :
           d = IF loc[t].released = "fail" THEN ClearTransition(k, t) ELSE Poison(k, t)
    OBVIOUS
  <2>3. chunk' = [chunk EXCEPT ![c] = d] /\ Return(t, ok)
    BY <1>3, <1>4, <1>11, <2>1, <2>2 DEF SettleSource
  <2>4. \A e \in Chunks : SameOwed(e)
    <3>1. Owes(d, chunk[c])
      BY <1>4, <2>2, ClearOwes
    <3>2. QED
      BY <1>2, <2>3, <3>1, OneOwes
  <2>5. Others(t) /\ ListedOf(t)' = {} /\ Listing(pc[t], loc[t], store)'
    BY <1>9, <2>3
  <2>6. GoneOf(t) = {}
    BY <1>7, <1>11
  <2>7. QED
    BY <1>1, <1>6, <2>4, <2>5, <2>6, Standing, KeepOwners
<1>12. QED
  BY <1>10, <1>11

(***************************************************************************)
(* The start, and every step                                               *)
(***************************************************************************)
LEMMA InitOwners == Init => OwnersInv
<1> SUFFICES ASSUME Init PROVE OwnersInv
  OBVIOUS
<1>1. \A t \in Threads : pc[t] = "idle" /\ loc[t] = IdleLocals
  BY DEF Init
<1>2. ASSUME NEW t \in Threads
      PROVE  /\ Listing(pc[t], loc[t], store)
             /\ Listed(pc[t], loc[t]) = {}
  <2>1. pc[t] \notin Handed
    BY <1>1, OutsideHands DEF Outside
  <2>2. QED
    BY <2>1, NothingInHand, NothingListed
<1>3. ASSUME NEW c \in Chunks
      PROVE  /\ Len(chunk[c].cleanup) = 0 /\ ~chunk[c].retired
             /\ chunk[c].auth.resource = Home[c]
  <2>1. chunk[c].cleanup = <<>> /\ ~chunk[c].retired /\ chunk[c].auth.resource = Home[c]
    BY DEF Init
  <2>2. \A x : x = <<>> => Len(x) = 0
    OBVIOUS
  <2>3. QED
    BY <2>1, <2>2
<1>4. ASSUME NEW c \in Chunks PROVE Distinct(chunk[c].cleanup) /\ OwedIds(c) = {}
  <2>1. PICK n : n = Len(chunk[c].cleanup) /\ n = 0
    BY <1>3
  <2>2. QED
    BY <2>1 DEF Distinct, OwedIds, IdsOf
<1>5. OwedApart
  BY <1>4 DEF OwedApart
<1>6. OwedStored
  <2> SUFFICES ASSUME NEW c \in Chunks, NEW i \in 1 .. Len(chunk[c].cleanup) PROVE FALSE
    BY DEF OwedStored
  <2>1. PICK n : n = Len(chunk[c].cleanup) /\ n = 0
    BY <1>3
  <2>2. QED
    BY <2>1
<1>7. NothingLost
  <2> SUFFICES ASSUME NEW r \in Resources, store[r] # None
               PROVE  \E c \in Chunks : r = chunk[c].auth.resource
    BY DEF NothingLost
  <2>1. \E c \in Chunks : Home[c] = r
    BY DEF Init
  <2>2. QED
    BY <1>3, <2>1
<1>8. QED
  BY <1>2, <1>3, <1>5, <1>6, <1>7 DEF OwnersInv

LEMMA NextOwners == MigrationInv /\ [Next]_vars => MigrationInv'
<1> SUFFICES ASSUME TransactionInv, BooksInv, OwnersInv, [Next]_vars PROVE OwnersInv'
  BY NextBooks DEF BookedInv, MigrationInv
<1>1. ASSUME NEW t \in Threads, NEW c \in Chunks, NEW d \in Targets, NEW lim \in Limits,
             Propose(t, c, d, lim)
      PROVE  OwnersInv'
  BY <1>1, ProposeOwners
<1>2. ASSUME NEW t \in Threads, NEW c \in Chunks, NEW a \in {"read_only", "read_write"},
             Intend(t, c, a)
      PROVE  OwnersInv'
  BY <1>2, IntendOwners
<1>3. ASSUME NEW t \in Threads, MigrateStep(t) PROVE OwnersInv'
  <2>1. CASE \/ Begin(t) \/ Project(t) \/ ReserveAll(t) \/ AllocateDestination(t)
             \/ MaterializeDestination(t) \/ AllocateWorkspace(t) \/ MaterializeWorkspace(t)
             \/ VerifyAuthoritative(t)
    BY <2>1, BeginOwners, ProjectOwners, ReserveAllOwners, AllocateDestinationOwners,
       MaterializeDestinationOwners, AllocateWorkspaceOwners, MaterializeWorkspaceOwners,
       VerifyAuthoritativeOwners
  <2>2. CASE \/ Prepare(t) \/ MaterializeCompaction(t) \/ Transfer(t)
             \/ Reconcile(t) \/ ReleaseCompaction(t) \/ SettleCompaction(t) \/ VerifyTransfer(t)
    BY <2>2, PrepareOwners, MaterializeCompactionOwners, TransferOwners, ReconcileOwners,
       ReleaseCompactionOwners, SettleCompactionOwners, VerifyTransferOwners
  <2>3. CASE \/ ReleaseWorkspace(t) \/ SettleWorkspace(t) \/ Commit(t) \/ ReleaseSource(t)
             \/ SettleSource(t) \/ RollbackRelease(t) \/ RollbackSettle(t) \/ Finish(t)
    BY <2>3, ReleaseWorkspaceOwners, SettleWorkspaceOwners, CommitOwners, ReleaseSourceOwners,
       SettleSourceOwners, RollbackReleaseOwners, RollbackSettleOwners, FinishOwners
  <2>4. QED
    BY <1>3, <2>1, <2>2, <2>3 DEF MigrateStep
<1>4. ASSUME NEW t \in Threads, LeaseStep(t) PROVE OwnersInv'
  BY <1>4, GateOwners, IntentOwners, WriteOwners, RecordOwners, CloseOwners DEF LeaseStep
<1>5. CASE UNCHANGED vars
  <2>1. UNCHANGED <<store, chunk, pc, loc>>
    BY <1>5 DEF vars
  <2>2. \A c \in Chunks : UNCHANGED OwedIds(c)
    BY <2>1 DEF OwedIds, IdsOf
  <2>3. OwedApart' /\ OwedStored'
    BY <2>1, <2>2 DEF OwnersInv, OwedApart, OwedStored, Stored
  <2>4. NothingLost'
    BY <2>1, <2>2 DEF OwnersInv, NothingLost
  <2>5. QED
    BY <2>1, <2>3, <2>4 DEF OwnersInv
<1>6. QED
  BY <1>1, <1>2, <1>3, <1>4, <1>5 DEF Next

(***************************************************************************)
(* At rest                                                                 *)
(***************************************************************************)
\* With no thread inside migrate no thread has anything on its hands.
LEMMA RestingHands ==
  ASSUME Quiescent, NEW t \in Threads
  PROVE  Listed(pc[t], loc[t]) = {} /\ Gone(pc[t], loc[t]) = {}
<1>1. pc[t] \in {"idle", "leased"}
  BY DEF Quiescent
<1>2. pc[t] \notin Handed
  BY <1>1 DEF Handed, Filled, Unwinding
<1>3. QED
  BY <1>2, NothingInHand

\* What a resource is at rest: an authority, an entry of a cleanup list, or released.
LEMMA RestingOwners ==
  ASSUME TransactionInv, OwnersInv, Quiescent
  PROVE  /\ \A c \in Chunks : /\ chunk[c].auth.resource \in Resources
                              /\ Stored(store, [id |-> chunk[c].auth.resource,
                                                charge |-> chunk[c].auth.charge],
                                        TierOf(chunk[c].auth.state))
         /\ \A c \in Chunks : \A i \in 1 .. Len(chunk[c].cleanup) :
              Stored(store, chunk[c].cleanup[i], chunk[c].cleanup[i].tier)
         /\ \A r \in Resources : store[r] # None =>
              \E c \in Chunks : r = chunk[c].auth.resource \/ r \in OwedIds(c)
<1>1. \A c \in Chunks : chunk[c].auth.resource \in Resources /\ ChunkKept(c)
  BY DEF TransactionInv, Typed, ChunkRecords, Authorities, Kept
<1>2. OwedStored /\ NothingLost
  BY DEF OwnersInv
<1>3. \A t \in Threads : Listed(pc[t], loc[t]) = {} /\ Gone(pc[t], loc[t]) = {}
  BY RestingHands
<1>4. ASSUME NEW c \in Chunks
      PROVE  Stored(store, [id |-> chunk[c].auth.resource, charge |-> chunk[c].auth.charge],
                    TierOf(chunk[c].auth.state))
  BY <1>1 DEF ChunkKept, Stored
<1>5. ASSUME NEW c \in Chunks, NEW i \in 1 .. Len(chunk[c].cleanup)
      PROVE  Stored(store, chunk[c].cleanup[i], chunk[c].cleanup[i].tier)
  BY <1>2, <1>3 DEF OwedStored
<1>6. ASSUME NEW r \in Resources, store[r] # None
      PROVE  \E c \in Chunks : r = chunk[c].auth.resource \/ r \in OwedIds(c)
  BY <1>2, <1>3, <1>6 DEF NothingLost
<1>7. QED
  BY <1>1, <1>4, <1>5, <1>6

LEMMA RestingHolders ==
  ASSUME TransactionInv, OwnersInv, Quiescent, NEW r \in Resources
  PROVE  Cardinality(Holders(r)) = IF store[r] = None THEN 0 ELSE 1
<1>1. /\ \A c \in Chunks : store[chunk[c].auth.resource] # None
      /\ \A c \in Chunks : \A i \in 1 .. Len(chunk[c].cleanup) :
           store[chunk[c].cleanup[i].id] # None
      /\ store[r] # None => \E c \in Chunks : r = chunk[c].auth.resource \/ r \in OwedIds(c)
  BY RestingOwners DEF Stored
<1>2. \A c \in Chunks : chunk[c].lifecycle # "dead"
  BY DEF TransactionInv, Kept, ChunkKept
<1>3. \A c, d \in Chunks : c # d => chunk[c].auth.resource # chunk[d].auth.resource
  BY DEF TransactionInv, Claimed
<1>4. \A k : k \in Holders(r) <=>
        \/ \E c \in Chunks : k = <<c, 0>> /\ chunk[c].auth.resource = r
        \/ \E c \in Chunks : \E i \in 1 .. Len(chunk[c].cleanup) :
             k = <<c, i>> /\ chunk[c].cleanup[i].id = r
  BY <1>2 DEF Holders
<1>5. CASE store[r] = None
  <2>1. Holders(r) = {}
    BY <1>1, <1>4, <1>5
  <2>2. QED
    BY <1>5, <2>1, FS_EmptySet
<1>6. CASE store[r] # None
  <2>1. CASE \E c \in Chunks : r = chunk[c].auth.resource
    <3>1. PICK c \in Chunks : r = chunk[c].auth.resource
      BY <2>1
    <3>2. ASSUME NEW d \in Chunks PROVE r \notin OwedIds(d)
      BY <3>1, Debts
    <3>3. \A d \in Chunks : \A i \in 1 .. Len(chunk[d].cleanup) : chunk[d].cleanup[i].id # r
      BY <3>2 DEF OwedIds, IdsOf
    <3>4. Holders(r) = {<<c, 0>>}
      BY <1>3, <1>4, <3>1, <3>3
    <3>5. QED
      BY <1>6, <3>4, FS_Singleton
  <2>2. CASE ~\E c \in Chunks : r = chunk[c].auth.resource
    <3>1. PICK c \in Chunks : r \in OwedIds(c)
      BY <1>1, <1>6, <2>2
    <3>2. PICK i \in 1 .. Len(chunk[c].cleanup) : chunk[c].cleanup[i].id = r
      BY <3>1 DEF OwedIds, IdsOf
    <3>3. \A d \in Chunks \ {c} : r \notin OwedIds(d)
      BY <3>1, Debts
    <3>4. \A d \in Chunks : \A j \in 1 .. Len(chunk[d].cleanup) :
            chunk[d].cleanup[j].id = r => d = c
      BY <3>3 DEF OwedIds, IdsOf
    <3>5. \A j \in 1 .. Len(chunk[c].cleanup) : chunk[c].cleanup[j].id = r => j = i
      BY <3>2 DEF OwnersInv, OwedApart, Distinct
    <3>6. Holders(r) = {<<c, i>>}
      BY <1>4, <2>2, <3>2, <3>4, <3>5
    <3>7. QED
      BY <1>6, <3>6, FS_Singleton
  <2>3. QED
    BY <2>1, <2>2
<1>7. QED
  BY <1>5, <1>6

(***************************************************************************)
(* Sums over owners                                                        *)
(***************************************************************************)
\* The units are the same where the functions are.
LEMMA UnitsSame ==
  ASSUME NEW f, NEW g, NEW A, \A x \in A : f[x] = g[x]
  PROVE  Units(f, A) = Units(g, A)
<1>1. \A x \in A : UnitsAt(f, x) = UnitsAt(g, x)
  BY DEF UnitsAt
<1>2. QED
  BY <1>1 DEF Units

\* The units over two sets that have no member in common.
LEMMA UnitsJoin ==
  ASSUME NEW f, NEW A, NEW B, IsFiniteSet(A), IsFiniteSet(B), A \cap B = {},
         \A x \in A \cup B : f[x] \in Nat
  PROVE  /\ Cardinality(Units(f, A \cup B)) = Cardinality(Units(f, A)) + Cardinality(Units(f, B))
         /\ Cardinality(Units(f, A)) \in Nat /\ Cardinality(Units(f, B)) \in Nat
<1>1. PICK left, right : left = Units(f, A) /\ right = Units(f, B)
  OBVIOUS
<1>2. Units(f, A \cup B) = left \cup right
  BY <1>1 DEF Units
<1>3. left \cap right = {}
  BY <1>1 DEF Units, UnitsAt
<1>4. IsFiniteSet(left) /\ IsFiniteSet(right)
  BY <1>1, UnitsFinite
<1>5. /\ Cardinality(left) \in Nat /\ Cardinality(right) \in Nat
      /\ Cardinality(left \cap right) = 0
  BY <1>3, <1>4, FS_CardinalityType, FS_EmptySet
<1>6. Cardinality(left \cup right) = Cardinality(left) + Cardinality(right) - Cardinality(left \cap right)
  BY <1>4, FS_Union
<1>7. Cardinality(left \cup right) = Cardinality(left) + Cardinality(right)
  BY <1>5, <1>6
<1>8. QED
  BY <1>1, <1>2, <1>5, <1>7

\* The members of R that owner gives to c.
OwnedBy(R, owner, c) == {r \in R : owner[r] = c}

\* When each member of S has booked what its own are worth, together they have booked what all
\* are worth.
LEMMA SumByOwner ==
  ASSUME NEW S, IsFiniteSet(S), NEW R, NEW owner \in [R -> S], NEW g \in [S -> Nat],
         NEW f, \A r \in R : f[r] \in Nat,
         \A c \in S : /\ IsFiniteSet(OwnedBy(R, owner, c))
                      /\ Cardinality(Units(f, OwnedBy(R, owner, c))) = g[c]
  PROVE  IsFiniteSet(R) /\ Cardinality(Units(f, R)) = SumFunction(g)
<1> DEFINE parts == {OwnedBy(R, owner, c) : c \in S}
           part == [c \in S |-> OwnedBy(R, owner, c)]
           Numbers(c) == Bijection(Units(f, OwnedBy(R, owner, c)), 1 .. g[c])
           number == [c \in S |-> CHOOSE b \in Numbers(c) : TRUE]
           to == [u \in Units(f, R) |-> <<owner[u[1]], number[owner[u[1]]][u]>>]
<1>1. IsFiniteSet(R)
  <2>1. part \in Surjection(S, parts)
    BY DEF Surjection
  <2>2. IsFiniteSet(parts)
    BY <2>1, FS_Surjection
  <2>3. IsFiniteSet(UNION parts)
    BY <2>2, FS_UNION
  <2>4. UNION parts = R
    BY DEF OwnedBy
  <2>5. QED
    BY <2>3, <2>4
<1>2. ASSUME NEW c \in S PROVE number[c] \in Numbers(c)
  <2>1. PICK own : own = Units(f, OwnedBy(R, owner, c))
    OBVIOUS
  <2>2. PICK n \in Nat : n = g[c]
    OBVIOUS
  <2>3. IsFiniteSet(own) /\ Cardinality(own) = n
    BY <2>1, <2>2, UnitsFinite DEF OwnedBy
  <2>4. IsFiniteSet(1 .. n) /\ Cardinality(1 .. n) = n
    BY FS_Interval
  <2>5. ExistsBijection(own, 1 .. n)
    BY <2>3, <2>4, FS_SameCardinalityBij
  <2>6. Numbers(c) # {}
    BY <2>1, <2>2, <2>5 DEF ExistsBijection
  <2> HIDE DEF Numbers
  <2>7. QED
    BY <2>6
<1>3. ASSUME NEW u \in Units(f, R)
      PROVE  u[1] \in R /\ owner[u[1]] \in S /\ u \in Units(f, OwnedBy(R, owner, owner[u[1]]))
  BY DEF Units, UnitsAt, OwnedBy
<1>4. ASSUME NEW c \in S, NEW u \in Units(f, OwnedBy(R, owner, c))
      PROVE  u \in Units(f, R) /\ owner[u[1]] = c
  BY DEF Units, UnitsAt, OwnedBy
<1>5. ASSUME NEW c \in S
      PROVE  /\ \A u \in Units(f, OwnedBy(R, owner, c)) : number[c][u] \in 1 .. g[c]
             /\ \A u, v \in Units(f, OwnedBy(R, owner, c)) : number[c][u] = number[c][v] => u = v
             /\ \A i \in 1 .. g[c] : \E u \in Units(f, OwnedBy(R, owner, c)) : number[c][u] = i
  <2>1. PICK b : b = number[c] /\ b \in Numbers(c)
    BY <1>2
  <2>2. QED
    BY <2>1 DEF Bijection, Injection, Surjection, IsInjective
<1> HIDE DEF number
<1>6. to \in Bijection(Units(f, R), Units(g, S))
  <2>1. ASSUME NEW u \in Units(f, R) PROVE to[u] \in Units(g, S)
    <3>1. PICK c, i : c = owner[u[1]] /\ i = number[c][u] /\ c \in S /\ i \in 1 .. g[c]
      BY <1>3, <1>5
    <3>2. <<c, i>> \in Units(g, S)
      BY <3>1 DEF Units, UnitsAt
    <3>3. QED
      BY <3>1, <3>2
  <2>2. ASSUME NEW u \in Units(f, R), NEW v \in Units(f, R), to[u] = to[v] PROVE u = v
    <3>1. owner[u[1]] = owner[v[1]] /\ number[owner[u[1]]][u] = number[owner[v[1]]][v]
      BY <2>2
    <3>2. PICK c \in S : c = owner[u[1]] /\ c = owner[v[1]]
      BY <1>3, <3>1
    <3>3. QED
      BY <1>3, <1>5, <3>1, <3>2
  <2>3. ASSUME NEW w \in Units(g, S) PROVE \E u \in Units(f, R) : to[u] = w
    <3>1. PICK c \in S : w \in UnitsAt(g, c)
      BY DEF Units
    <3>2. PICK i \in 1 .. g[c] : w = <<c, i>>
      BY <3>1 DEF UnitsAt
    <3>3. PICK u \in Units(f, OwnedBy(R, owner, c)) : number[c][u] = i
      BY <1>5
    <3>4. u \in Units(f, R) /\ owner[u[1]] = c
      BY <1>4
    <3>5. QED
      BY <3>2, <3>3, <3>4
  <2> HIDE DEF to
  <2>4. to \in [Units(f, R) -> Units(g, S)]
    <3>1. to = [u \in Units(f, R) |-> to[u]]
      BY DEF to
    <3>2. QED
      BY <2>1, <3>1
  <2>5. QED
    BY <2>2, <2>3, <2>4 DEF Bijection, Injection, Surjection, IsInjective
<1>7. IsFiniteSet(Units(f, R))
  BY <1>1, UnitsFinite
<1>8. Cardinality(Units(g, S)) = Cardinality(Units(f, R))
  BY <1>6, <1>7, FS_Bijection DEF ExistsBijection
<1>9. SumFunction(g) = Cardinality(Units(g, S))
  BY SumIsUnits
<1>10. QED
  BY <1>1, <1>8, <1>9

(***************************************************************************)
(* What the backend owns at rest, and who has booked it                    *)
(***************************************************************************)
\* The charge of each resource, as the backend has it.
Worth == [r \in Resources |-> IF store[r] = None THEN 0 ELSE store[r].charge]

AuthoritiesIn(tier) == {r \in OwnedIn(tier) : \E c \in Chunks : r = chunk[c].auth.resource}
DebtIn(tier) == {r \in OwnedIn(tier) : \E c \in Chunks : r \in OwedIds(c)}

\* The entry i of the cleanup list of c, if it has one in the tier.
EntryIn(c, i, tier) ==
  {r \in OwedIds(c) : /\ i <= Len(chunk[c].cleanup)
                      /\ chunk[c].cleanup[i].id = r /\ chunk[c].cleanup[i].tier = tier}

LEMMA WorthTyped ==
  ASSUME TransactionInv
  PROVE  /\ \A r \in Resources : Worth[r] \in Nat
         /\ \A r \in Resources : store[r] # None => Worth[r] = store[r].charge
<1>1. \A r \in Resources : store[r] # None => store[r].charge \in Nat
  BY WordFacts DEF TransactionInv, Typed, Descriptors
<1>2. QED
  BY <1>1 DEF Worth

\* No units, or those of one resource.
LEMMA WorthOfOne ==
  ASSUME TransactionInv, NEW r \in Resources
  PROVE  /\ IsFiniteSet({r}) /\ Cardinality(Units(Worth, {r})) = Worth[r]
         /\ IsFiniteSet({}) /\ Cardinality(Units(Worth, {})) = 0
<1>1. Worth[r] \in Nat
  BY WorthTyped
<1>2. Cardinality(UnitsAt(Worth, r)) = Worth[r]
  BY <1>1, UnitsOfOne
<1>3. Units(Worth, {r}) = UnitsAt(Worth, r) /\ Units(Worth, {}) = {}
  BY DEF Units
<1>4. IsFiniteSet({r}) /\ IsFiniteSet({}) /\ Cardinality({}) = 0
  BY FS_Singleton, FS_EmptySet
<1>5. QED
  BY <1>2, <1>3, <1>4

LEMMA AuthoritiesWorth ==
  ASSUME TransactionInv, OwnersInv, Quiescent, NEW u \in Tiers
  PROVE  /\ IsFiniteSet(AuthoritiesIn(u))
         /\ Cardinality(Units(Worth, AuthoritiesIn(u)))
              = SumFunction([c \in Chunks |-> CommittedOf(c, u)])
<1> DEFINE R == AuthoritiesIn(u)
           owner == [r \in R |-> CHOOSE c \in Chunks : r = chunk[c].auth.resource]
           g == [c \in Chunks |-> CommittedOf(c, u)]
<1>1. ASSUME NEW c \in Chunks
      PROVE  /\ chunk[c].auth.resource \in Resources /\ store[chunk[c].auth.resource] # None
             /\ store[chunk[c].auth.resource].tier = TierOf(chunk[c].auth.state)
             /\ store[chunk[c].auth.resource].charge = chunk[c].auth.charge
  BY DEF TransactionInv, Typed, ChunkRecords, Authorities, Kept, ChunkKept
<1>2. \A c, d \in Chunks : c # d => chunk[c].auth.resource # chunk[d].auth.resource
  BY DEF TransactionInv, Claimed
<1>3. \A r \in R : r \in Resources /\ owner[r] \in Chunks /\ r = chunk[owner[r]].auth.resource
  BY DEF AuthoritiesIn, OwnedIn
<1>4. owner \in [R -> Chunks] /\ g \in [Chunks -> Nat] /\ \A r \in R : Worth[r] \in Nat
  BY <1>3, ShareTypes, WorthTyped DEF TransactionInv
<1>5. ASSUME NEW c \in Chunks
      PROVE  /\ IsFiniteSet(OwnedBy(R, owner, c))
             /\ Cardinality(Units(Worth, OwnedBy(R, owner, c))) = g[c]
  <2>1. PICK r \in Resources : r = chunk[c].auth.resource
    BY <1>1
  <2>2. Worth[r] = chunk[c].auth.charge
    BY <1>1, <2>1, WorthTyped
  <2>3. CASE TierOf(chunk[c].auth.state) = u
    <3>1. r \in R
      BY <1>1, <2>1, <2>3 DEF AuthoritiesIn, OwnedIn
    <3>2. g[c] = Worth[r]
      BY <2>2, <2>3 DEF CommittedOf, Part
    <3> HIDE DEF R, owner
    <3>3. owner[r] = c
      BY <1>2, <1>3, <2>1, <3>1
    <3>4. \A q \in R : owner[q] = c => q = r
      BY <1>3, <2>1
    <3>5. OwnedBy(R, owner, c) = {r}
      BY <3>1, <3>3, <3>4 DEF OwnedBy
    <3>6. QED
      BY <3>2, <3>5, WorthOfOne
  <2>4. CASE TierOf(chunk[c].auth.state) # u
    <3>1. r \notin R
      BY <1>1, <2>1, <2>4 DEF AuthoritiesIn, OwnedIn
    <3>2. OwnedBy(R, owner, c) = {}
      BY <1>3, <2>1, <3>1 DEF OwnedBy
    <3>3. g[c] = 0
      BY <2>4 DEF CommittedOf, Part
    <3>4. QED
      BY <3>2, <3>3, WorthOfOne
  <2>5. QED
    BY <2>3, <2>4
<1> HIDE DEF R, owner, g
<1>6. IsFiniteSet(R) /\ Cardinality(Units(Worth, R)) = SumFunction(g)
  BY <1>4, <1>5, FiniteFacts, SumByOwner
<1>7. QED
  BY <1>6 DEF R, g

LEMMA EntryWorth ==
  ASSUME TransactionInv, OwnersInv, Quiescent, NEW u \in Tiers, NEW c \in Chunks, NEW i \in 1 .. 3
  PROVE  /\ IsFiniteSet(EntryIn(c, i, u)) /\ \A r \in EntryIn(c, i, u) : Worth[r] \in Nat
         /\ Cardinality(Units(Worth, EntryIn(c, i, u))) = OwedAt(chunk[c], i, u)
<1>1. PICK n \in Nat : n = Len(chunk[c].cleanup)
  BY DEF TransactionInv, Typed, ChunkRecords
<1>2. CASE i <= n
  <2>1. PICK a : a = chunk[c].cleanup[i]
    OBVIOUS
  <2>2. i \in 1 .. n
    BY <1>2
  <2>3. Stored(store, a, a.tier)
    BY <1>1, <2>1, <2>2, RestingOwners
  <2>4. PICK r \in Resources : r = a.id
    BY <2>3 DEF Stored
  <2>5. r \in OwedIds(c)
    BY <1>1, <2>1, <2>2, <2>4 DEF OwedIds, IdsOf
  <2>6. Worth[r] = a.charge /\ Worth[r] \in Nat
    BY <2>3, <2>4, WorthTyped DEF Stored
  <2>7. EntryIn(c, i, u) = IF a.tier = u THEN {r} ELSE {}
    BY <1>1, <1>2, <2>1, <2>4, <2>5 DEF EntryIn
  <2>8. OwedAt(chunk[c], i, u) = IF a.tier = u THEN a.charge ELSE 0
    BY <1>1, <1>2, <2>1 DEF OwedAt
  <2>9. CASE a.tier = u
    BY <2>6, <2>7, <2>8, <2>9, WorthOfOne
  <2>10. CASE a.tier # u
    BY <2>7, <2>8, <2>10, WorthOfOne
  <2>11. QED
    BY <2>9, <2>10
<1>3. CASE ~ (i <= n)
  <2>1. EntryIn(c, i, u) = {} /\ OwedAt(chunk[c], i, u) = 0
    BY <1>1, <1>3 DEF EntryIn, OwedAt
  <2>2. IsFiniteSet({}) /\ Units(Worth, {}) = {} /\ Cardinality({}) = 0
    BY FS_EmptySet DEF Units
  <2>3. QED
    BY <2>1, <2>2
<1>4. QED
  BY <1>2, <1>3

LEMMA ListWorth ==
  ASSUME TransactionInv, BooksInv, OwnersInv, Quiescent, NEW u \in Tiers, NEW c \in Chunks
  PROVE  LET own == {r \in OwnedIn(u) : r \in OwedIds(c)}
         IN IsFiniteSet(own) /\ Cardinality(Units(Worth, own)) = DebtOf(c, u)
<1> DEFINE own == {r \in OwnedIn(u) : r \in OwedIds(c)}
<1>1. PICK e1, e2, e3 : e1 = EntryIn(c, 1, u) /\ e2 = EntryIn(c, 2, u) /\ e3 = EntryIn(c, 3, u)
  OBVIOUS
<1>2. PICK n \in Nat : n = Len(chunk[c].cleanup) /\ n <= 3
  <2>1. PICK s \in Seq(CleanupResources) : s = chunk[c].cleanup
    BY DEF TransactionInv, Typed, ChunkRecords
  <2>2. Len(s) \in Nat /\ Len(s) <= 3
    BY <2>1 DEF BooksInv, Apart
  <2>3. QED
    BY <2>1, <2>2
<1>3. \A i, j \in 1 .. n : chunk[c].cleanup[i].id = chunk[c].cleanup[j].id => i = j
  BY <1>2 DEF OwnersInv, OwedApart, Distinct
<1>4. \A i \in 1 .. n : /\ chunk[c].cleanup[i].id \in OwnedIn(u) <=> chunk[c].cleanup[i].tier = u
                        /\ chunk[c].cleanup[i].id \in OwedIds(c)
  BY <1>2, RestingOwners DEF Stored, OwnedIn, OwedIds, IdsOf
<1>5. ASSUME NEW i \in 1 .. 3, NEW j \in 1 .. 3, i # j PROVE EntryIn(c, i, u) \cap EntryIn(c, j, u) = {}
  <2> SUFFICES ASSUME NEW r \in EntryIn(c, i, u) \cap EntryIn(c, j, u) PROVE FALSE
    OBVIOUS
  <2>1. /\ i <= n /\ j <= n
        /\ chunk[c].cleanup[i].id = r /\ chunk[c].cleanup[j].id = r
    BY <1>2 DEF EntryIn
  <2>2. i \in 1 .. n /\ j \in 1 .. n
    BY <2>1
  <2>3. QED
    BY <1>3, <1>5, <2>1, <2>2
<1>6. own = (e1 \cup e2) \cup e3
  <2>1. ASSUME NEW r \in own PROVE r \in (e1 \cup e2) \cup e3
    <3>1. PICK i \in 1 .. n : chunk[c].cleanup[i].id = r
      BY <1>2 DEF OwedIds, IdsOf
    <3>2. chunk[c].cleanup[i].tier = u
      BY <1>4, <3>1
    <3>3. i \in 1 .. 3 /\ i <= n
      BY <1>2
    <3>4. r \in EntryIn(c, i, u)
      BY <1>2, <3>1, <3>2, <3>3 DEF EntryIn
    <3>5. i = 1 \/ i = 2 \/ i = 3
      BY <3>3
    <3>6. QED
      BY <1>1, <3>4, <3>5
  <2>2. ASSUME NEW i \in 1 .. 3, NEW r \in EntryIn(c, i, u) PROVE r \in own
    <3>1. i <= n /\ chunk[c].cleanup[i].id = r /\ chunk[c].cleanup[i].tier = u
      BY <1>2 DEF EntryIn
    <3>2. i \in 1 .. n
      BY <3>1
    <3>3. QED
      BY <1>4, <3>1, <3>2
  <2>3. 1 \in 1 .. 3 /\ 2 \in 1 .. 3 /\ 3 \in 1 .. 3
    OBVIOUS
  <2> HIDE DEF own
  <2>4. e1 \subseteq own /\ e2 \subseteq own /\ e3 \subseteq own
    BY <1>1, <2>2, <2>3
  <2>5. QED
    BY <2>1, <2>4
<1>7. /\ IsFiniteSet(e1) /\ IsFiniteSet(e2) /\ IsFiniteSet(e3)
      /\ \A r \in e1 \cup e2 \cup e3 : Worth[r] \in Nat
      /\ Cardinality(Units(Worth, e1)) = OwedAt(chunk[c], 1, u)
      /\ Cardinality(Units(Worth, e2)) = OwedAt(chunk[c], 2, u)
      /\ Cardinality(Units(Worth, e3)) = OwedAt(chunk[c], 3, u)
  <2>1. 1 \in 1 .. 3 /\ 2 \in 1 .. 3 /\ 3 \in 1 .. 3
    OBVIOUS
  <2>2. QED
    BY <1>1, <2>1, EntryWorth
<1>8. e1 \cap e2 = {} /\ (e1 \cup e2) \cap e3 = {}
  <2>1. 1 \in 1 .. 3 /\ 2 \in 1 .. 3 /\ 3 \in 1 .. 3 /\ 1 # 2 /\ 1 # 3 /\ 2 # 3
    OBVIOUS
  <2>2. e1 \cap e2 = {} /\ e1 \cap e3 = {} /\ e2 \cap e3 = {}
    BY <1>1, <1>5, <2>1
  <2>3. QED
    BY <2>2
<1>9. PICK k1, k2, k3 : /\ k1 = OwedAt(chunk[c], 1, u) /\ k2 = OwedAt(chunk[c], 2, u)
                        /\ k3 = OwedAt(chunk[c], 3, u)
  OBVIOUS
<1>10. PICK e : e = e1 \cup e2
  OBVIOUS
<1>11. IsFiniteSet(e) /\ \A r \in e : Worth[r] \in Nat
  BY <1>7, <1>10, FS_Union
<1>12. Cardinality(Units(Worth, e)) = k1 + k2
  BY <1>7, <1>8, <1>9, <1>10, UnitsJoin
<1>13. IsFiniteSet(e \cup e3)
  BY <1>7, <1>11, FS_Union
<1>14. Cardinality(Units(Worth, e \cup e3)) = (k1 + k2) + k3
  <2>1. Cardinality(Units(Worth, e \cup e3))
          = Cardinality(Units(Worth, e)) + Cardinality(Units(Worth, e3))
    BY <1>7, <1>8, <1>10, <1>11, UnitsJoin
  <2>2. QED
    BY <1>7, <1>9, <1>12, <2>1
<1>15. DebtOf(c, u) = (k1 + k2) + k3
  BY <1>9 DEF DebtOf, Owed
<1> HIDE DEF own
<1>16. IsFiniteSet(own) /\ Cardinality(Units(Worth, own)) = DebtOf(c, u)
  BY <1>6, <1>10, <1>13, <1>14, <1>15
<1>17. QED
  BY <1>16 DEF own

LEMMA DebtsWorth ==
  ASSUME TransactionInv, BooksInv, OwnersInv, Quiescent, NEW u \in Tiers
  PROVE  /\ IsFiniteSet(DebtIn(u))
         /\ Cardinality(Units(Worth, DebtIn(u))) = SumFunction([c \in Chunks |-> DebtOf(c, u)])
<1> DEFINE R == DebtIn(u)
           owner == [r \in R |-> CHOOSE c \in Chunks : r \in OwedIds(c)]
           g == [c \in Chunks |-> DebtOf(c, u)]
<1>1. \A c \in Chunks : \A d \in Chunks \ {c} : OwedIds(c) \cap OwedIds(d) = {}
  BY Debts
<1>2. \A r \in R : r \in Resources /\ owner[r] \in Chunks /\ r \in OwedIds(owner[r])
  BY DEF DebtIn, OwnedIn
<1>3. owner \in [R -> Chunks] /\ g \in [Chunks -> Nat] /\ \A r \in R : Worth[r] \in Nat
  BY <1>2, ShareTypes, WorthTyped DEF TransactionInv
<1>4. ASSUME NEW c \in Chunks
      PROVE  /\ IsFiniteSet(OwnedBy(R, owner, c))
             /\ Cardinality(Units(Worth, OwnedBy(R, owner, c))) = g[c]
  <2>1. OwnedBy(R, owner, c) = {r \in OwnedIn(u) : r \in OwedIds(c)}
    <3>1. ASSUME NEW r \in OwnedBy(R, owner, c) PROVE r \in OwnedIn(u) /\ r \in OwedIds(c)
      BY <1>2 DEF OwnedBy, DebtIn
    <3>2. ASSUME NEW r \in OwnedIn(u), r \in OwedIds(c) PROVE r \in OwnedBy(R, owner, c)
      <4>1. r \in R
        BY <3>2 DEF DebtIn
      <4>2. owner[r] = c
        BY <1>1, <1>2, <3>2, <4>1
      <4>3. QED
        BY <4>1, <4>2 DEF OwnedBy
    <3>3. QED
      BY <3>1, <3>2
  <2>2. g[c] = DebtOf(c, u)
    OBVIOUS
  <2>3. QED
    BY <2>1, <2>2, ListWorth
<1> HIDE DEF R, owner, g
<1>5. IsFiniteSet(R) /\ Cardinality(Units(Worth, R)) = SumFunction(g)
  BY <1>3, <1>4, FiniteFacts, SumByOwner
<1>6. QED
  BY <1>5 DEF R, g

\* Together they are all that the backend owns in the tier.
LEMMA OwnedWorth ==
  ASSUME TransactionInv, BooksInv, OwnersInv, Quiescent, NEW u \in Tiers
  PROVE  OwnedCharge(u) = ledger[u].committed + ledger[u].cleanup_debt
<1>1. PICK A, B : A = AuthoritiesIn(u) /\ B = DebtIn(u)
  OBVIOUS
<1>2. PICK f : f = [r \in OwnedIn(u) |-> store[r].charge]
  OBVIOUS
<1>3. OwnedIn(u) = A \cup B
  BY <1>1, RestingOwners DEF AuthoritiesIn, DebtIn, OwnedIn
<1>4. A \cap B = {}
  BY <1>1, Debts DEF AuthoritiesIn, DebtIn
<1>5. \A r \in A \cup B : Worth[r] \in Nat /\ Worth[r] = store[r].charge
  BY <1>1, WorthTyped DEF AuthoritiesIn, DebtIn, OwnedIn
<1>6. /\ IsFiniteSet(A) /\ IsFiniteSet(B)
      /\ Cardinality(Units(Worth, A)) = ledger[u].committed
      /\ Cardinality(Units(Worth, B)) = ledger[u].cleanup_debt
  BY <1>1, AuthoritiesWorth, DebtsWorth DEF BooksInv, Balanced
<1>7. Cardinality(Units(Worth, A \cup B)) = ledger[u].committed + ledger[u].cleanup_debt
  <2>1. Cardinality(Units(Worth, A \cup B)) = Cardinality(Units(Worth, A)) + Cardinality(Units(Worth, B))
    BY <1>4, <1>5, <1>6, UnitsJoin
  <2>2. QED
    BY <1>6, <2>1
<1>8. /\ DOMAIN f = A \cup B
      /\ \A r \in A \cup B : f[r] = Worth[r] /\ f[r] \in Nat
  BY <1>2, <1>3, <1>5
<1>9. Units(f, A \cup B) = Units(Worth, A \cup B)
  BY <1>8, UnitsSame
<1>10. IsFiniteSet(A \cup B)
  BY <1>6, FS_Union
<1>11. SumFunction(f) = Cardinality(Units(f, A \cup B))
  BY <1>8, <1>10, SumIsUnits
<1>12. QED
  BY <1>2, <1>7, <1>9, <1>11 DEF OwnedCharge

\* What is committed is what the live chunks and the condemned ones are charged.
LEMMA CommittedWorth ==
  ASSUME TransactionInv, BooksInv, OwnersInv, NEW u \in Tiers
  PROVE  ledger[u].committed = ChargeOf(u, LiveChunks) + ChargeOf(u, CondemnedChunks)
<1> DEFINE there(s) == {c \in s : TierOf(chunk[c].auth.state) = u}
<1>1. PICK L, D : L = there(LiveChunks) /\ D = there(CondemnedChunks)
  OBVIOUS
<1>2. PICK g : g = [c \in Chunks |-> CommittedOf(c, u)]
  OBVIOUS
<1>3. g \in [Chunks -> Nat] /\ ledger[u].committed = SumFunction(g)
  BY <1>2, ShareTypes DEF TransactionInv, BooksInv, Balanced
<1>4. /\ L \subseteq Chunks /\ D \subseteq Chunks /\ L \cap D = {}
      /\ there(Chunks) = L \cup D
  <2>1. \A c \in Chunks : chunk[c].lifecycle \in {"live", "poisoned"} /\ ~chunk[c].retired
    BY DEF TransactionInv, Kept, ChunkKept, OwnersInv
  <2>2. QED
    BY <1>1, <2>1 DEF LiveChunks, CondemnedChunks
<1>5. \A c \in L \cup D : g[c] = chunk[c].auth.charge /\ g[c] \in Nat
  BY <1>1, <1>2, <1>3, <1>4 DEF CommittedOf, Part
<1>6. Units(g, Chunks) = Units(g, L \cup D)
  <2>1. ASSUME NEW c \in Chunks, c \notin L \cup D PROVE UnitsAt(g, c) = {}
    <3>1. g[c] = 0
      BY <1>2, <1>4, <2>1 DEF CommittedOf, Part
    <3>2. QED
      BY <3>1 DEF UnitsAt
  <2>2. QED
    BY <1>4, <2>1 DEF Units
<1>7. IsFiniteSet(L) /\ IsFiniteSet(D)
  BY <1>4, FiniteFacts, FS_Subset
<1>8. ASSUME NEW s \in {L, D}
      PROVE  SumFunction([c \in s |-> chunk[c].auth.charge]) = Cardinality(Units(g, s))
  <2>1. PICK h : h = [c \in s |-> chunk[c].auth.charge]
    OBVIOUS
  <2>2. Units(h, s) = Units(g, s)
    BY <1>5, <2>1, UnitsSame
  <2>3. DOMAIN h = s /\ IsFiniteSet(s) /\ \A c \in s : h[c] \in Nat
    BY <1>5, <1>7, <2>1
  <2>4. SumFunction(h) = Cardinality(Units(h, s))
    BY <2>3, SumIsUnits
  <2>5. QED
    BY <2>1, <2>2, <2>4
<1>9. Cardinality(Units(g, L \cup D)) = Cardinality(Units(g, L)) + Cardinality(Units(g, D))
  BY <1>4, <1>5, <1>7, UnitsJoin
<1>10. SumFunction(g) = Cardinality(Units(g, Chunks))
  BY <1>3, FiniteFacts, SumIsUnits
<1>11. /\ ChargeOf(u, LiveChunks) = Cardinality(Units(g, L))
       /\ ChargeOf(u, CondemnedChunks) = Cardinality(Units(g, D))
  BY <1>1, <1>8 DEF ChargeOf
<1>12. QED
  BY <1>3, <1>6, <1>9, <1>10, <1>11

(***************************************************************************)
(* Theorems                                                                *)
(***************************************************************************)
\* However the migrations, rollbacks and leases of the threads interleave and whichever
\* backend calls fail, beside what the invariants of the resources and of the books say:
\* the cleanup lists and the hands of the threads name each resource once, name no
\* authority, and name what the backend stores under the charge they know; and the backend
\* stores nothing that is not an authority, on a cleanup list or on a thread's hands.
THEOREM MigrationInvariance == Spec => []MigrationInv
<1>1. Init => MigrationInv
  BY InitInv, InitBooks, InitOwners DEF MigrationInv
<1>2. QED
  BY <1>1, NextOwners, PTL DEF Spec

\* "Known failures retain or clean exactly known ownership": with no thread inside migrate,
\* what the backend stores is the authority or one cleanup entry of exactly one chunk, and
\* what it has released is neither, whichever of the releases of all migrations failed.
THEOREM OwnershipAlwaysKnown == Spec => []OwnershipKnown
<1>1. MigrationInv => OwnershipKnown
  BY RestingHolders DEF MigrationInv, OwnershipKnown
<1>2. QED
  BY <1>1, MigrationInvariance, PTL

\* With no thread inside migrate the ledger charges each tier exactly what the backend owns
\* there, as Runtime::resources reports it, and what it has committed is what Runtime::stats
\* adds up over the live chunks and those that are poisoned, whichever calls have failed.
THEOREM AccountingAlwaysExact == Spec => []AccountingExact
<1>1. MigrationInv /\ (Quiescent => \A tier \in Tiers :
                     /\ ledger[tier].reserved = 0 /\ ledger[tier].staging = 0
                     /\ ledger[tier].workspace = 0)
        => AccountingExact
  <2> SUFFICES ASSUME TransactionInv, BooksInv, OwnersInv, Quiescent, NEW u \in Tiers,
                      /\ ledger[u].reserved = 0 /\ ledger[u].staging = 0
                      /\ ledger[u].workspace = 0
               PROVE  /\ AccountingConserved(u)
                      /\ ledger[u].committed =
                           ChargeOf(u, LiveChunks) + ChargeOf(u, CondemnedChunks)
    BY DEF MigrationInv, AccountingExact
  <2>1. PICK n, m : n = ledger[u].committed /\ m = ledger[u].cleanup_debt /\ n \in Nat /\ m \in Nat
    BY CountersNat DEF TransactionInv, Typed, GoodLedger
  <2>2. OwnedCharge(u) = n + m
    BY <2>1, OwnedWorth
  <2>3. Total(ledger[u]) = n + m
    BY <2>1 DEF Total
  <2>4. AccountingConserved(u)
    BY <2>1, <2>2, <2>3 DEF AccountingConserved
  <2>5. QED
    BY <2>4, CommittedWorth
<1>2. QED
  BY <1>1, MigrationInvariance, NothingInFlightAtRest, PTL
=============================================================================
