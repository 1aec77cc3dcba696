-------------------------- MODULE CompletionProofs --------------------------
(***************************************************************************)
(* Proofs about Completion, for any number of threads, leases and fences   *)
(* and any size of the pool.  CompletionInv is inductive: it says what a   *)
(* thread inside a call may rely on after it let go of the runtime's mutex *)
(* (Relies, Apart), what an entry, a fence and a lease may be (Sound,      *)
(* OneEach, Named, Ended), that a runtime found quiet stays so, and that   *)
(* the counters count.                                                     *)
(***************************************************************************)
EXTENDS Completion, FiniteSetTheorems, TLAPS

\* A record with the fields of the locals of a thread.
IsLocal(r) ==
  r = [entry |-> r.entry, lease |-> r.lease, token |-> r.token, queue |-> r.queue,
       shutdown |-> r.shutdown]

\* Idle is one, and so is such a record with another value in one field.
LEMMA IdleLocal ==
  /\ IsLocal(Idle)
  /\ Idle.entry = 0 /\ Idle.lease = None /\ Idle.token = None /\ Idle.shutdown = FALSE
BY DEF IsLocal, Idle

LEMMA QueueSet ==
  ASSUME NEW r, IsLocal(r), NEW x, NEW z, z = [r EXCEPT !.queue = x]
  PROVE  IsLocal(z) /\ z.entry = r.entry /\ z.shutdown = r.shutdown
<1>1. PICK n, l, k, q, b : r = [entry |-> n, lease |-> l, token |-> k, queue |-> q, shutdown |-> b]
  BY DEF IsLocal
<1>2. z = [entry |-> n, lease |-> l, token |-> k, queue |-> x, shutdown |-> b]
  BY ONLY <1>1, z = [r EXCEPT !.queue = x]
<1>3. QED
  BY <1>1, <1>2 DEF IsLocal

LEMMA EntrySet ==
  ASSUME NEW r, IsLocal(r), NEW x, NEW z, z = [r EXCEPT !.entry = x]
  PROVE  IsLocal(z) /\ z.entry = x /\ z.token = r.token /\ z.shutdown = r.shutdown
<1>1. PICK n, l, k, q, b : r = [entry |-> n, lease |-> l, token |-> k, queue |-> q, shutdown |-> b]
  BY DEF IsLocal
<1>2. z = [entry |-> x, lease |-> l, token |-> k, queue |-> q, shutdown |-> b]
  BY ONLY <1>1, z = [r EXCEPT !.entry = x]
<1>3. QED
  BY <1>1, <1>2 DEF IsLocal

LEMMA TokenSet ==
  ASSUME NEW r, IsLocal(r), NEW x, NEW z, z = [r EXCEPT !.token = x]
  PROVE  IsLocal(z) /\ z.entry = r.entry /\ z.lease = r.lease /\ z.token = x /\ z.shutdown = r.shutdown
<1>1. PICK n, l, k, q, b : r = [entry |-> n, lease |-> l, token |-> k, queue |-> q, shutdown |-> b]
  BY DEF IsLocal
<1>2. z = [entry |-> n, lease |-> l, token |-> x, queue |-> q, shutdown |-> b]
  BY ONLY <1>1, z = [r EXCEPT !.token = x]
<1>3. QED
  BY <1>1, <1>2 DEF IsLocal

LEMMA ShutdownSet ==
  ASSUME NEW r, IsLocal(r), NEW x, NEW z, z = [r EXCEPT !.shutdown = x]
  PROVE  IsLocal(z) /\ z.entry = r.entry /\ z.shutdown = x
<1>1. PICK n, l, k, q, b : r = [entry |-> n, lease |-> l, token |-> k, queue |-> q, shutdown |-> b]
  BY DEF IsLocal
<1>2. z = [entry |-> n, lease |-> l, token |-> k, queue |-> q, shutdown |-> x]
  BY ONLY <1>1, z = [r EXCEPT !.shutdown = x]
<1>3. QED
  BY <1>1, <1>2 DEF IsLocal

\* The locals of every thread are such a record.
LEMMA LocalsTyped ==
  ASSUME Typed, NEW t \in Threads
  PROVE  IsLocal(loc[t])
BY DEF Typed, IsLocal

\* Goto moves one thread.
LEMMA Moves ==
  ASSUME Typed, NEW t \in Threads, NEW label \in Labels, NEW local, IsLocal(local),
         Goto(t, label, local)
  PROVE  /\ pc' \in [Threads -> Labels]
         /\ loc' = [u \in Threads |->
                     [entry |-> loc'[u].entry, lease |-> loc'[u].lease, token |-> loc'[u].token,
                      queue |-> loc'[u].queue, shutdown |-> loc'[u].shutdown]]
         /\ pc'[t] = label /\ loc'[t] = local
         /\ \A u \in Threads : u # t => pc'[u] = pc[u] /\ loc'[u] = loc[u]
<1>1. pc \in [Threads -> Labels] /\ DOMAIN loc = Threads
  BY DEF Typed
<1>2. loc' = [u \in Threads |-> IF u = t THEN local ELSE loc[u]]
  BY <1>1 DEF Goto, Typed
<1>3. \A u \in Threads : IsLocal(loc'[u])
  BY <1>2, LocalsTyped
<1>4. QED
  BY <1>1, <1>2, <1>3 DEF Goto, IsLocal

\* The calls in flight, and the entries that answer for a lease.
Calls == {t \in Threads : pc[t] \in InCall}
Answering == {s \in Entries : pool[s].lease # None}

\* Both are finite.
LEMMA FiniteCounts ==
  ASSUME CompletionConstants
  PROVE  /\ IsFiniteSet(Calls) /\ Cardinality(Calls) \in Nat
         /\ IsFiniteSet(Answering) /\ Cardinality(Answering) \in 0 .. PoolSize
         /\ Cardinality(Calls) <= Cardinality(Threads)
<1>1. IsFiniteSet(Threads) /\ PoolSize \in Nat /\ IsFiniteSet(Entries) /\ Cardinality(Entries) = PoolSize
  BY FS_Interval DEF CompletionConstants, Entries
<1>2. Calls \in SUBSET Threads /\ Answering \in SUBSET Entries
  BY DEF Calls, Answering
<1>3. QED
  BY <1>1, <1>2, FS_Subset, FS_CardinalityType

\* A thread that enters a call, stays in one, or leaves it changes their number accordingly.
LEMMA CallsCounted ==
  ASSUME CompletionConstants, Typed, NEW t \in Threads, NEW label \in Labels,
         pc' = [pc EXCEPT ![t] = label]
  PROVE  Cardinality(Calls') =
           Cardinality(Calls) + (IF label \in InCall THEN 1 ELSE 0)
                              - (IF pc[t] \in InCall THEN 1 ELSE 0)
<1>1. \A u \in Threads : pc'[u] = IF u = t THEN label ELSE pc[u]
  BY DEF Typed
<1>2. IsFiniteSet(Calls) /\ Cardinality(Calls) \in Nat
  BY FiniteCounts
<1>3. CASE label \in InCall
  <2>1. Calls' = Calls \cup {t}
    BY <1>1, <1>3 DEF Calls
  <2>2. t \in Calls <=> pc[t] \in InCall
    BY DEF Calls
  <2>3. Cardinality(Calls') = IF t \in Calls THEN Cardinality(Calls) ELSE Cardinality(Calls) + 1
    BY <1>2, <2>1, FS_AddElement
  <2>4. QED
    BY <1>2, <1>3, <2>2, <2>3
<1>4. CASE label \notin InCall
  <2>1. Calls' = Calls \ {t}
    BY <1>1, <1>4 DEF Calls
  <2>2. t \in Calls <=> pc[t] \in InCall
    BY DEF Calls
  <2>3. Cardinality(Calls') = IF t \in Calls THEN Cardinality(Calls) - 1 ELSE Cardinality(Calls)
    BY <1>2, <2>1, FS_RemoveElement
  <2>4. QED
    BY <1>2, <1>4, <2>2, <2>3
<1>5. QED
  BY <1>3, <1>4

-----------------------------------------------------------------------------
(* Steps of a thread that touch no entry, lease or fence.                  *)

\* The thread moves between calls, or in and out of shutdown.
LEMMA WalkKeeps ==
  ASSUME CompletionConstants, CompletionInv,
         NEW t \in Threads, NEW label \in {"idle", "next", "drain", "check", "finish"}, NEW local,
         IsLocal(local), Goto(t, label, local),
         UNCHANGED <<pool, pending, lease, fence, buffer>>,
         faults' \in 0 .. MaxFaults, pc[t] \notin Working, local.entry = 0,
         rt' \in [shutting_down : BOOLEAN, in_progress : BOOLEAN, complete : BOOLEAN, in_flight : Int],
         rt'.in_flight = rt.in_flight - (IF pc[t] = "leave" THEN 1 ELSE 0),
         rt.shutting_down => rt'.shutting_down,
         label \in {"drain", "check", "finish"} \/ local.shutdown => rt'.shutting_down,
         rt'.complete \/ label = "finish" =>
           \/ rt.complete \/ pc[t] = "finish"
           \/ rt.shutting_down /\ buffer.dead /\ \A s \in Entries : ~ pool[s].occupied
  PROVE  CompletionInv'
<1>1. Typed /\ label \in Labels \ InCall
  BY DEF CompletionInv, Labels, InCall
<1>2. /\ pc' \in [Threads -> Labels]
      /\ loc' = [u \in Threads |->
                  [entry |-> loc'[u].entry, lease |-> loc'[u].lease, token |-> loc'[u].token,
                   queue |-> loc'[u].queue, shutdown |-> loc'[u].shutdown]]
      /\ pc'[t] = label /\ loc'[t] = local
      /\ \A u \in Threads : u # t => pc'[u] = pc[u] /\ loc'[u] = loc[u]
  BY <1>1, Moves
<1>3. Typed'
  BY <1>1, <1>2 DEF Typed
<1>4. Table' = Table
  BY DEF Table
<1>5. ASSUME NEW u \in Threads PROVE Relies(u)'
  <2>1. CASE u = t
    BY <1>1, <1>2, <2>1 DEF Relies, Working, InCall
  <2>2. CASE u # t
    <3>1. Relies(u)
      BY DEF CompletionInv
    <3>2. QED
      BY <1>2, <1>4, <2>2, <3>1 DEF Relies
  <2>3. QED
    BY <2>1, <2>2
<1>6. ASSUME NEW u \in Threads, NEW v \in Threads, u # v PROVE Apart(u, v)'
  <2>1. Apart(u, v)
    BY <1>6 DEF CompletionInv
  <2>2. QED
    BY <1>1, <1>2, <2>1 DEF Apart, Working, InCall
<1>7. ASSUME NEW s \in Entries PROVE Sound(s)'
  <2>1. Sound(s)
    BY DEF CompletionInv
  <2>2. QED
    BY <1>2, <2>1 DEF Sound
<1>8. OneEach'
  BY <1>1, <1>2 DEF CompletionInv, OneEach
<1>9. ASSUME NEW k \in Tokens PROVE Named(k)'
  <2>1. Named(k) /\ pc[t] # "publish"
    BY DEF CompletionInv, Working, InCall
  <2>2. QED
    BY <1>2, <1>4, <2>1 DEF Named
<1>10. ASSUME NEW l \in Leases PROVE Ended(l)'
  BY DEF CompletionInv, Ended
<1>11. StaysQuiet'
  BY <1>2 DEF CompletionInv, StaysQuiet
<1>12. Counted'
  <2>1. Cardinality(Calls') = Cardinality(Calls) - (IF pc[t] \in InCall THEN 1 ELSE 0)
    <3>1. /\ Cardinality(Calls') = Cardinality(Calls) + (IF label \in InCall THEN 1 ELSE 0)
                                                      - (IF pc[t] \in InCall THEN 1 ELSE 0)
          /\ Cardinality(Calls) \in Nat
      BY <1>1, FiniteCounts, CallsCounted DEF Goto
    <3>2. QED
      BY <1>1, <3>1
  <2>2. pc[t] \in InCall <=> pc[t] = "leave"
    BY DEF Working, InCall
  <2>3. rt.in_flight = Cardinality(Calls)
    BY DEF CompletionInv, Counted, Calls
  <2>4. rt'.in_flight = Cardinality(Calls')
    BY <2>1, <2>2, <2>3
  <2>5. QED
    BY <2>4 DEF CompletionInv, Counted, Calls
<1>13. QED
  BY <1>3, <1>5, <1>6, <1>7, <1>8, <1>9, <1>10, <1>11, <1>12 DEF CompletionInv

\* A call begins or ends.
LEMMA FlightSet ==
  ASSUME Typed, NEW n \in Int, rt' = [rt EXCEPT !.in_flight = n]
  PROVE  /\ rt' \in [shutting_down : BOOLEAN, in_progress : BOOLEAN, complete : BOOLEAN, in_flight : Int]
         /\ rt'.shutting_down = rt.shutting_down /\ rt'.complete = rt.complete /\ rt'.in_flight = n
<1>1. PICK d \in BOOLEAN, p \in BOOLEAN, c \in BOOLEAN, m \in Int :
        rt = [shutting_down |-> d, in_progress |-> p, complete |-> c, in_flight |-> m]
  BY DEF Typed
<1>2. rt' = [shutting_down |-> d, in_progress |-> p, complete |-> c, in_flight |-> n]
  BY ONLY <1>1, rt' = [rt EXCEPT !.in_flight = n]
<1>3. QED
  BY <1>1, <1>2

\* Shutdown is asked for.
LEMMA ShuttingSet ==
  ASSUME Typed, rt' = [rt EXCEPT !.shutting_down = TRUE]
  PROVE  /\ rt' \in [shutting_down : BOOLEAN, in_progress : BOOLEAN, complete : BOOLEAN, in_flight : Int]
         /\ rt'.shutting_down = TRUE /\ rt'.complete = rt.complete /\ rt'.in_flight = rt.in_flight
<1>1. PICK d \in BOOLEAN, p \in BOOLEAN, c \in BOOLEAN, m \in Int :
        rt = [shutting_down |-> d, in_progress |-> p, complete |-> c, in_flight |-> m]
  BY DEF Typed
<1>2. rt' = [shutting_down |-> TRUE, in_progress |-> p, complete |-> c, in_flight |-> m]
  BY ONLY <1>1, rt' = [rt EXCEPT !.shutting_down = TRUE]
<1>3. QED
  BY <1>1, <1>2

\* It begins, or is given up.
LEMMA ProgressSet ==
  ASSUME Typed, NEW b \in BOOLEAN, rt' = [rt EXCEPT !.in_progress = b]
  PROVE  /\ rt' \in [shutting_down : BOOLEAN, in_progress : BOOLEAN, complete : BOOLEAN, in_flight : Int]
         /\ rt'.shutting_down = rt.shutting_down /\ rt'.complete = rt.complete
         /\ rt'.in_flight = rt.in_flight
<1>1. PICK d \in BOOLEAN, p \in BOOLEAN, c \in BOOLEAN, m \in Int :
        rt = [shutting_down |-> d, in_progress |-> p, complete |-> c, in_flight |-> m]
  BY DEF Typed
<1>2. rt' = [shutting_down |-> d, in_progress |-> b, complete |-> c, in_flight |-> m]
  BY ONLY <1>1, rt' = [rt EXCEPT !.in_progress = b]
<1>3. QED
  BY <1>1, <1>2

\* It ends.
LEMMA CompleteSet ==
  ASSUME Typed, rt' = [rt EXCEPT !.in_progress = FALSE, !.complete = TRUE]
  PROVE  /\ rt' \in [shutting_down : BOOLEAN, in_progress : BOOLEAN, complete : BOOLEAN, in_flight : Int]
         /\ rt'.shutting_down = rt.shutting_down /\ rt'.in_flight = rt.in_flight
<1>1. PICK d \in BOOLEAN, p \in BOOLEAN, c \in BOOLEAN, m \in Int :
        rt = [shutting_down |-> d, in_progress |-> p, complete |-> c, in_flight |-> m]
  BY DEF Typed
<1>2. rt' = [shutting_down |-> d, in_progress |-> FALSE, complete |-> TRUE, in_flight |-> m]
  BY ONLY <1>1, rt' = [rt EXCEPT !.in_progress = FALSE, !.complete = TRUE]
<1>3. QED
  BY <1>1, <1>2

LEMMA LeaveKeeps ==
  ASSUME CompletionConstants, CompletionInv, NEW t \in Threads, Leave(t)
  PROVE  CompletionInv'
<1>1. Typed /\ Relies(t) /\ IsLocal(loc[t]) /\ pc[t] = "leave"
  BY LocalsTyped DEF CompletionInv, Leave
<1>2. PICK label \in {"next", "check", "idle"} :
        /\ Goto(t, label, [loc[t] EXCEPT !.entry = 0, !.token = None])
        /\ label = "check" => loc[t].shutdown
  BY DEF Leave
<1>3. /\ IsLocal([loc[t] EXCEPT !.entry = 0, !.token = None])
      /\ [loc[t] EXCEPT !.entry = 0, !.token = None].entry = 0
      /\ [loc[t] EXCEPT !.entry = 0, !.token = None].shutdown = loc[t].shutdown
  <2>1. PICK n : n = 0
    OBVIOUS
  <2>2. PICK first : first = [loc[t] EXCEPT !.entry = n]
    OBVIOUS
  <2>3. IsLocal(first) /\ first.entry = n /\ first.shutdown = loc[t].shutdown
    BY <1>1, <2>2, EntrySet
  <2>4. PICK second : second = [first EXCEPT !.token = None]
    OBVIOUS
  <2>5. IsLocal(second) /\ second.entry = n /\ second.token = None /\ second.shutdown = loc[t].shutdown
    BY <2>3, <2>4, TokenSet
  <2>6. [loc[t] EXCEPT !.entry = 0, !.token = None] = second
    BY <2>1, <2>2, <2>4
  <2>7. QED
    BY <2>1, <2>5, <2>6
<1>4. rt' = [rt EXCEPT !.in_flight = rt.in_flight - 1] /\ rt.in_flight \in Int
  BY <1>1 DEF Leave, Typed
<1>5. /\ rt' \in [shutting_down : BOOLEAN, in_progress : BOOLEAN, complete : BOOLEAN, in_flight : Int]
      /\ rt'.shutting_down = rt.shutting_down /\ rt'.complete = rt.complete
      /\ rt'.in_flight = rt.in_flight - 1
  BY <1>1, <1>4, FlightSet
<1>6. loc[t].shutdown => rt.shutting_down
  BY <1>1 DEF Relies
<1>7. /\ UNCHANGED <<pool, pending, lease, fence, buffer>> /\ faults' \in 0 .. MaxFaults
      /\ pc[t] \notin Working
  BY <1>1 DEF Leave, Typed, Working
<1>8. QED
  BY <1>1, <1>2, <1>3, <1>5, <1>6, <1>7, WalkKeeps

LEMMA PollReadyKeeps ==
  ASSUME CompletionConstants, CompletionInv, NEW t \in Threads, PollReady(t)
  PROVE  CompletionInv'
<1>1. /\ IsLocal([Idle EXCEPT !.queue = ReadyTokens]) /\ [Idle EXCEPT !.queue = ReadyTokens].entry = 0
      /\ [Idle EXCEPT !.queue = ReadyTokens].shutdown = FALSE
  BY IdleLocal, QueueSet, ShutdownSet
<1>2. /\ Goto(t, "next", [Idle EXCEPT !.queue = ReadyTokens])
      /\ UNCHANGED <<pool, pending, lease, fence, buffer, rt>> /\ faults' \in 0 .. MaxFaults
      /\ pc[t] = "idle" /\ pc[t] \notin Working
      /\ rt' \in [shutting_down : BOOLEAN, in_progress : BOOLEAN, complete : BOOLEAN, in_flight : Int]
  BY DEF PollReady, CompletionInv, Typed, Working, InCall
<1>3. rt'.in_flight = rt.in_flight - (IF pc[t] = "leave" THEN 1 ELSE 0)
  BY <1>2 DEF CompletionInv, Typed
<1>4. QED
  BY <1>1, <1>2, <1>3, WalkKeeps

LEMMA ShutdownKeeps ==
  ASSUME CompletionConstants, CompletionInv, NEW t \in Threads, Shutdown(t)
  PROVE  CompletionInv'
<1>1. /\ IsLocal([Idle EXCEPT !.shutdown = TRUE]) /\ [Idle EXCEPT !.shutdown = TRUE].entry = 0
  BY IdleLocal, QueueSet, ShutdownSet
<1>2. /\ rt' \in [shutting_down : BOOLEAN, in_progress : BOOLEAN, complete : BOOLEAN, in_flight : Int]
      /\ rt'.shutting_down = TRUE /\ rt'.complete = rt.complete /\ rt'.in_flight = rt.in_flight
  BY ShuttingSet DEF Shutdown, CompletionInv
<1>3. /\ Goto(t, "drain", [Idle EXCEPT !.shutdown = TRUE])
      /\ UNCHANGED <<pool, pending, lease, fence, buffer>> /\ faults' \in 0 .. MaxFaults
      /\ pc[t] = "idle" /\ pc[t] \notin Working
  BY DEF Shutdown, CompletionInv, Typed, Working, InCall
<1>4. rt'.in_flight = rt.in_flight - (IF pc[t] = "leave" THEN 1 ELSE 0)
  BY <1>2, <1>3 DEF CompletionInv, Typed
<1>5. QED
  BY <1>1, <1>2, <1>3, <1>4, WalkKeeps

LEMMA DrainKeeps ==
  ASSUME CompletionConstants, CompletionInv, NEW t \in Threads, Drain(t)
  PROVE  CompletionInv'
<1>1. Typed /\ Relies(t) /\ IsLocal(loc[t]) /\ pc[t] = "drain"
  BY LocalsTyped DEF CompletionInv, Drain
<1>2. /\ IsLocal([loc[t] EXCEPT !.queue = ReadyTokens])
      /\ [loc[t] EXCEPT !.queue = ReadyTokens].entry = loc[t].entry
      /\ [loc[t] EXCEPT !.queue = ReadyTokens].shutdown = loc[t].shutdown
  BY <1>1, QueueSet
<1>3. loc[t].entry = 0 /\ rt.shutting_down
  BY <1>1 DEF Relies, InCall
<1>4. PICK label \in {"check", "next"} : Goto(t, label, [loc[t] EXCEPT !.queue = ReadyTokens])
  BY DEF Drain
<1>5. /\ UNCHANGED <<pool, pending, lease, fence, buffer, rt>> /\ faults' \in 0 .. MaxFaults
      /\ pc[t] \notin Working
      /\ rt' \in [shutting_down : BOOLEAN, in_progress : BOOLEAN, complete : BOOLEAN, in_flight : Int]
  BY <1>1 DEF Drain, Typed, Working, InCall
<1>6. rt'.in_flight = rt.in_flight - (IF pc[t] = "leave" THEN 1 ELSE 0)
  BY <1>1, <1>5 DEF Typed
<1>7. QED
  BY <1>2, <1>3, <1>4, <1>5, <1>6, WalkKeeps

LEMMA CheckShutdownKeeps ==
  ASSUME CompletionConstants, CompletionInv, NEW t \in Threads, CheckShutdown(t)
  PROVE  CompletionInv'
<1>1. Typed /\ Relies(t) /\ IsLocal(loc[t]) /\ pc[t] = "check"
  BY LocalsTyped DEF CompletionInv, CheckShutdown
<1>2. loc[t].entry = 0 /\ rt.shutting_down
  BY <1>1 DEF Relies, InCall
<1>3. UNCHANGED <<pool, pending, lease, fence, buffer>> /\ faults' \in 0 .. MaxFaults
      /\ pc[t] \notin Working /\ rt.in_flight = rt.in_flight - (IF pc[t] = "leave" THEN 1 ELSE 0)
  BY <1>1 DEF CheckShutdown, Typed, Working, InCall
<1>4. CASE Quiet
  <2>1. Goto(t, "finish", loc[t]) /\ rt' = [rt EXCEPT !.in_progress = TRUE]
    BY <1>4 DEF CheckShutdown
  <2>2. /\ rt' \in [shutting_down : BOOLEAN, in_progress : BOOLEAN, complete : BOOLEAN, in_flight : Int]
        /\ rt'.shutting_down = rt.shutting_down /\ rt'.complete = rt.complete
        /\ rt'.in_flight = rt.in_flight
    BY <1>1, <2>1, ProgressSet
  <2>3. buffer.dead /\ \A s \in Entries : ~ pool[s].occupied
    BY <1>4 DEF Quiet
  <2>4. QED
    BY <1>1, <1>2, <1>3, <2>1, <2>2, <2>3, WalkKeeps
<1>5. CASE ~ Quiet
  <2>1. Goto(t, "idle", Idle) /\ rt' = rt
    BY <1>5 DEF CheckShutdown
  <2>2. rt' \in [shutting_down : BOOLEAN, in_progress : BOOLEAN, complete : BOOLEAN, in_flight : Int]
    BY <1>1, <2>1 DEF Typed
  <2>3. QED
    BY <1>3, <2>1, <2>2, IdleLocal, WalkKeeps
<1>6. QED
  BY <1>4, <1>5

LEMMA FinishKeeps ==
  ASSUME CompletionConstants, CompletionInv, NEW t \in Threads, Finish(t)
  PROVE  CompletionInv'
<1>1. Typed /\ pc[t] = "finish" /\ Goto(t, "idle", Idle) /\ MaxFaults \in Nat
  BY DEF CompletionInv, Finish, CompletionConstants
<1>2. /\ rt' \in [shutting_down : BOOLEAN, in_progress : BOOLEAN, complete : BOOLEAN, in_flight : Int]
      /\ rt'.shutting_down = rt.shutting_down /\ rt'.in_flight = rt.in_flight
  <2>1. rt' = [rt EXCEPT !.in_progress = FALSE, !.complete = TRUE] \/ rt' = [rt EXCEPT !.in_progress = FALSE]
    BY DEF Finish
  <2>2. QED
    BY <1>1, <2>1, CompleteSet, ProgressSet
<1>3. faults' \in 0 .. MaxFaults
  BY <1>1 DEF Finish, Fault, Typed
<1>4. UNCHANGED <<pool, pending, lease, fence, buffer>>
      /\ pc[t] \notin Working /\ rt.in_flight = rt.in_flight - (IF pc[t] = "leave" THEN 1 ELSE 0)
  BY <1>1 DEF Finish, Typed, Working, InCall
<1>5. QED
  BY <1>1, <1>2, <1>3, <1>4, IdleLocal, WalkKeeps

\* Take passes over a token whose entry is gone, busy, or taken by the shutdown.
LEMMA TakePasses ==
  ASSUME CompletionConstants, CompletionInv, NEW t \in Threads, Take(t),
         ~ \E s \in EntryOf(Head(loc[t].queue)) : Available(s)
  PROVE  CompletionInv'
<1>1. Typed /\ Relies(t) /\ IsLocal(loc[t]) /\ pc[t] = "next"
  BY LocalsTyped DEF CompletionInv, Take
<1>2. DEFINE rest == [loc[t] EXCEPT !.queue = Tail(@)]
<1>3. rest = [loc[t] EXCEPT !.queue = Tail(loc[t].queue)]
  OBVIOUS
<1>4. IsLocal(rest) /\ rest.entry = loc[t].entry /\ rest.shutdown = loc[t].shutdown
  BY <1>1, <1>3, QueueSet
<1>5. PICK label \in {"next", "check", "idle"} :
        Goto(t, label, rest) /\ (label = "check" => rest.shutdown)
  BY DEF Take
<1>6. loc[t].entry = 0 /\ (loc[t].shutdown => rt.shutting_down)
  BY <1>1 DEF Relies, InCall
<1>7. /\ UNCHANGED <<pool, pending, lease, fence, buffer, rt>> /\ faults' \in 0 .. MaxFaults
      /\ pc[t] \notin Working
      /\ rt' \in [shutting_down : BOOLEAN, in_progress : BOOLEAN, complete : BOOLEAN, in_flight : Int]
  BY <1>1 DEF Take, Typed, Working, InCall
<1>8. rt'.in_flight = rt.in_flight - (IF pc[t] = "leave" THEN 1 ELSE 0)
  BY <1>1, <1>7 DEF Typed
<1> HIDE DEF rest
<1>9. QED
  BY <1>1, <1>4, <1>5, <1>6, <1>7, <1>8, WalkKeeps

-----------------------------------------------------------------------------
(* Steps of a thread on one entry of the pool.                             *)

EntryRecords ==
  [occupied : BOOLEAN, processing : BOOLEAN, proven : BOOLEAN,
   token : Tokens \cup {None}, lease : Leases \cup {None}]

RuntimeRecords ==
  [shutting_down : BOOLEAN, in_progress : BOOLEAN, complete : BOOLEAN, in_flight : Int]

\* The entry is the thread's, or nobody's.
Mine(t, e) ==
  IF pc[t] \in Working THEN loc[t].entry = e ELSE ~ pool[e].processing

\* Then it is not another thread's.
LEMMA NotTheirs ==
  ASSUME CompletionInv, NEW t \in Threads, NEW e \in Entries, Mine(t, e),
         NEW u \in Threads, u # t, pc[u] \in Working
  PROVE  loc[u].entry \in Entries /\ loc[u].entry # e
<1>1. Relies(u) /\ Apart(t, u)
  BY DEF CompletionInv
<1>2. loc[u].entry \in Entries /\ pool[loc[u].entry].processing
  BY <1>1 DEF Relies
<1>3. QED
  BY <1>1, <1>2 DEF Apart, Mine

\* An entry that comes to answer for a lease, or no longer does, changes their number.
LEMMA AnsweringCounted ==
  ASSUME CompletionConstants, Typed, NEW e \in Entries, NEW x \in EntryRecords,
         pool' = [pool EXCEPT ![e] = x]
  PROVE  Cardinality(Answering') =
           Cardinality(Answering) + (IF x.lease # None THEN 1 ELSE 0)
                                  - (IF pool[e].lease # None THEN 1 ELSE 0)
<1>1. \A s \in Entries : pool'[s] = IF s = e THEN x ELSE pool[s]
  BY DEF Typed
<1>2. IsFiniteSet(Answering) /\ Cardinality(Answering) \in Nat
  BY FiniteCounts DEF CompletionConstants
<1>3. e \in Answering <=> pool[e].lease # None
  BY DEF Answering
<1>4. CASE x.lease # None
  <2>1. Answering' = Answering \cup {e}
    BY <1>1, <1>4 DEF Answering
  <2>2. Cardinality(Answering') =
          IF e \in Answering THEN Cardinality(Answering) ELSE Cardinality(Answering) + 1
    BY <1>2, <2>1, FS_AddElement
  <2>3. QED
    BY <1>2, <1>3, <1>4, <2>2
<1>5. CASE x.lease = None
  <2>1. Answering' = Answering \ {e}
    BY <1>1, <1>5 DEF Answering
  <2>2. Cardinality(Answering') =
          IF e \in Answering THEN Cardinality(Answering) - 1 ELSE Cardinality(Answering)
    BY <1>2, <2>1, FS_RemoveElement
  <2>3. QED
    BY <1>2, <1>3, <1>5, <2>2
<1>6. QED
  BY <1>4, <1>5

\* A step that changes one entry, which keeps its lease and its fence or gives up both.
LEMMA EntryKeeps ==
  ASSUME CompletionConstants, CompletionInv,
         NEW t \in Threads, NEW label \in Labels \ {"publish", "finish"}, NEW local,
         IsLocal(local), Goto(t, label, local),
         NEW e \in Entries, NEW x \in EntryRecords, Mine(t, e),
         pool' = [pool EXCEPT ![e] = x],
         UNCHANGED <<lease, fence, buffer>>, faults' \in 0 .. MaxFaults,
         pc[t] # "publish",
         \/ x.lease = pool[e].lease /\ x.token = pool[e].token
         \/ x.lease = None /\ x.token = None /\ pool[e].token \notin Table,
         x.occupied => pool[e].occupied \/ ~ rt.shutting_down,
         label \in Working => local.entry = e,
         label = "create" => \A u \in Threads : u # t /\ pc[u] \in {"create", "publish"} =>
                               loc[u].lease # local.lease,
         rt' \in RuntimeRecords,
         rt'.shutting_down = rt.shutting_down, rt'.complete = rt.complete,
         rt'.in_flight = rt.in_flight + (IF label \in InCall THEN 1 ELSE 0)
                                      - (IF pc[t] \in InCall THEN 1 ELSE 0),
         pending' = pending + (IF x.lease # None THEN 1 ELSE 0)
                            - (IF pool[e].lease # None THEN 1 ELSE 0),
         Relies(t)', Sound(e)'
  PROVE  CompletionInv'
<1>1. Typed /\ label \in Labels /\ label # "publish" /\ label # "finish"
  BY DEF CompletionInv
<1>2. /\ pc' \in [Threads -> Labels]
      /\ loc' = [u \in Threads |->
                  [entry |-> loc'[u].entry, lease |-> loc'[u].lease, token |-> loc'[u].token,
                   queue |-> loc'[u].queue, shutdown |-> loc'[u].shutdown]]
      /\ pc'[t] = label /\ loc'[t] = local
      /\ \A u \in Threads : u # t => pc'[u] = pc[u] /\ loc'[u] = loc[u]
  BY <1>1, Moves
<1>3. /\ pool' \in [Entries -> EntryRecords] /\ pool'[e] = x
      /\ \A s \in Entries : s # e => pool'[s] = pool[s]
  BY <1>1 DEF Typed, EntryRecords
<1>4. \A u \in Threads : u # t /\ pc[u] \in Working => loc[u].entry \in Entries /\ loc[u].entry # e
  BY NotTheirs
<1>5. pending' = Cardinality(Answering') /\ pending' \in Nat
  <2>1. Cardinality(Answering') =
          Cardinality(Answering) + (IF x.lease # None THEN 1 ELSE 0)
                                 - (IF pool[e].lease # None THEN 1 ELSE 0)
    BY <1>1, AnsweringCounted
  <2>2. pending = Cardinality(Answering)
    BY DEF CompletionInv, Counted, Answering
  <2>3. pending' = Cardinality(Answering')
    BY <2>1, <2>2
  <2>4. Answering' \in SUBSET Entries /\ IsFiniteSet(Entries)
    BY FS_Interval DEF Answering, Entries, CompletionConstants
  <2>5. Cardinality(Answering') \in Nat
    BY <2>4, FS_Subset, FS_CardinalityType
  <2>6. QED
    BY <2>3, <2>5
<1>6. Typed'
  BY <1>1, <1>2, <1>3, <1>5 DEF Typed, EntryRecords, RuntimeRecords
<1>7. Table' = Table
  BY DEF Table
<1>8. ASSUME NEW u \in Threads PROVE Relies(u)'
  <2>1. CASE u = t
    BY <2>1
  <2>2. CASE u # t
    <3>1. Relies(u) /\ pc'[u] = pc[u] /\ loc'[u] = loc[u]
      BY <1>2, <2>2 DEF CompletionInv
    <3>2. pc[u] \in Working => pool'[loc[u].entry] = pool[loc[u].entry]
      BY <1>3, <1>4, <2>2
    <3>3. {"create", "publish", "query", "release", "close", "clear"} \subseteq Working
      BY DEF Working, InCall
    <3>4. QED
      BY <1>7, <3>1, <3>2, <3>3 DEF Relies
  <2>3. QED
    BY <2>1, <2>2
<1>9. ASSUME NEW u \in Threads, NEW v \in Threads, u # v PROVE Apart(u, v)'
  <2>1. Apart(u, v)
    BY <1>9 DEF CompletionInv
  <2>2. CASE u # t /\ v # t
    BY <1>2, <2>1, <2>2 DEF Apart
  <2>3. CASE u = t
    BY <1>1, <1>2, <1>4, <1>9, <2>1, <2>3 DEF Apart, Mine
  <2>4. CASE v = t
    BY <1>1, <1>2, <1>4, <1>9, <2>1, <2>4 DEF Apart, Mine
  <2>5. QED
    BY <2>2, <2>3, <2>4
<1>10. ASSUME NEW s \in Entries PROVE Sound(s)'
  <2>1. CASE s = e
    BY <2>1
  <2>2. CASE s # e
    <3>1. Sound(s) /\ pool'[s] = pool[s]
      BY <1>3, <2>2 DEF CompletionInv
    <3>2. ASSUME pool[s].processing
          PROVE  \E u \in Threads : pc'[u] \in Working /\ loc'[u].entry = s
      <4>1. PICK u \in Threads : pc[u] \in Working /\ loc[u].entry = s
        BY <3>1, <3>2 DEF Sound
      <4>2. u # t
        BY <2>2, <4>1 DEF Mine
      <4>3. QED
        BY <1>2, <4>1, <4>2
    <3>3. QED
      BY <3>1, <3>2 DEF Sound
  <2>3. QED
    BY <2>1, <2>2
<1>11. OneEach'
  BY <1>1, <1>2, <1>3 DEF CompletionInv, OneEach
<1>12. ASSUME NEW k \in Tokens PROVE Named(k)'
  <2>1. Named(k)
    BY DEF CompletionInv
  <2>2. ASSUME NEW s \in Entries, pool[s].token = k, k \in Table
        PROVE  pool'[s].token = k
    BY <1>3, <2>2
  <2>3. ASSUME NEW u \in Threads, pc[u] = "publish", loc[u].token = k
        PROVE  pc'[u] = "publish" /\ loc'[u].token = k
    BY <1>2, <2>3
  <2>4. QED
    BY <1>7, <2>1, <2>2, <2>3 DEF Named
<1>13. ASSUME NEW l \in Leases PROVE Ended(l)'
  BY DEF CompletionInv, Ended
<1>14. StaysQuiet'
  <2>1. StaysQuiet
    BY DEF CompletionInv
  <2>2. ASSUME rt.complete \/ \E u \in Threads : pc'[u] = "finish"
        PROVE  rt.shutting_down /\ buffer.dead /\ \A s \in Entries : ~ pool'[s].occupied
    <3>1. rt.complete \/ \E u \in Threads : pc[u] = "finish"
      BY <1>1, <1>2, <2>2
    <3>2. rt.shutting_down /\ buffer.dead /\ \A s \in Entries : ~ pool[s].occupied
      BY <2>1, <3>1 DEF StaysQuiet
    <3>3. QED
      BY <1>3, <3>2
  <2>3. QED
    BY <2>1, <2>2 DEF StaysQuiet
<1>15. Counted'
  <2>1. Cardinality(Calls') = Cardinality(Calls) + (IF label \in InCall THEN 1 ELSE 0)
                                                 - (IF pc[t] \in InCall THEN 1 ELSE 0)
    BY <1>1, CallsCounted DEF Goto
  <2>2. rt.in_flight = Cardinality(Calls)
    BY DEF CompletionInv, Counted, Calls
  <2>3. rt'.in_flight = Cardinality(Calls')
    BY <2>1, <2>2
  <2>4. QED
    BY <1>5, <2>3 DEF Counted, Calls, Answering
<1>16. QED
  BY <1>6, <1>8, <1>9, <1>10, <1>11, <1>12, <1>13, <1>14, <1>15 DEF CompletionInv

\* An entry with one of its flags set.
LEMMA FlagSet ==
  ASSUME NEW p \in EntryRecords, NEW b \in BOOLEAN
  PROVE  /\ [p EXCEPT !.processing = b] \in EntryRecords
         /\ [p EXCEPT !.processing = b].occupied = p.occupied
         /\ [p EXCEPT !.processing = b].processing = b
         /\ [p EXCEPT !.processing = b].proven = p.proven
         /\ [p EXCEPT !.processing = b].token = p.token
         /\ [p EXCEPT !.processing = b].lease = p.lease
         /\ [p EXCEPT !.occupied = b] \in EntryRecords
         /\ [p EXCEPT !.occupied = b].occupied = b
         /\ [p EXCEPT !.occupied = b].processing = p.processing
         /\ [p EXCEPT !.occupied = b].proven = p.proven
         /\ [p EXCEPT !.occupied = b].token = p.token
         /\ [p EXCEPT !.occupied = b].lease = p.lease
         /\ [p EXCEPT !.proven = b] \in EntryRecords
         /\ [p EXCEPT !.proven = b].occupied = p.occupied
         /\ [p EXCEPT !.proven = b].processing = p.processing
         /\ [p EXCEPT !.proven = b].proven = b
         /\ [p EXCEPT !.proven = b].token = p.token
         /\ [p EXCEPT !.proven = b].lease = p.lease
<1>1. PICK o \in BOOLEAN, r \in BOOLEAN, v \in BOOLEAN, k \in Tokens \cup {None}, l \in Leases \cup {None} :
        p = [occupied |-> o, processing |-> r, proven |-> v, token |-> k, lease |-> l]
  BY DEF EntryRecords
<1>2. [p EXCEPT !.processing = b] = [occupied |-> o, processing |-> b, proven |-> v, token |-> k, lease |-> l]
  BY ONLY <1>1
<1>3. [p EXCEPT !.proven = b] = [occupied |-> o, processing |-> r, proven |-> b, token |-> k, lease |-> l]
  BY ONLY <1>1
<1>4. [p EXCEPT !.occupied = b] = [occupied |-> b, processing |-> r, proven |-> v, token |-> k, lease |-> l]
  BY ONLY <1>1
<1>5. QED
  BY <1>1, <1>2, <1>3, <1>4 DEF EntryRecords

\* The entry that defer claims, and the empty one.
Claimed == [occupied |-> TRUE, processing |-> TRUE, proven |-> FALSE, token |-> None, lease |-> None]

LEMMA EntriesTyped ==
  /\ EmptyEntry \in EntryRecords /\ Claimed \in EntryRecords
  /\ EmptyEntry.occupied = FALSE /\ EmptyEntry.processing = FALSE /\ EmptyEntry.proven = FALSE
  /\ EmptyEntry.token = None /\ EmptyEntry.lease = None
  /\ Claimed.occupied = TRUE /\ Claimed.processing = TRUE /\ Claimed.proven = FALSE
  /\ Claimed.token = None /\ Claimed.lease = None
  /\ \A p : p = EmptyEntry =>
       [[p EXCEPT !.occupied = TRUE] EXCEPT !.processing = TRUE] = Claimed
<1>1. EmptyEntry \in EntryRecords /\ Claimed \in EntryRecords
  BY DEF EmptyEntry, Claimed, EntryRecords
<1>2. /\ EmptyEntry.occupied = FALSE /\ EmptyEntry.processing = FALSE /\ EmptyEntry.proven = FALSE
      /\ EmptyEntry.token = None /\ EmptyEntry.lease = None
      /\ Claimed.occupied = TRUE /\ Claimed.processing = TRUE /\ Claimed.proven = FALSE
      /\ Claimed.token = None /\ Claimed.lease = None
  BY DEF EmptyEntry, Claimed
<1>3. ASSUME NEW p, p = EmptyEntry
      PROVE  [[p EXCEPT !.occupied = TRUE] EXCEPT !.processing = TRUE] = Claimed
  <2>1. PICK q \in EntryRecords : q = [p EXCEPT !.occupied = TRUE]
    BY <1>1, <1>3, FlagSet
  <2>2. q.occupied = TRUE /\ q.proven = FALSE /\ q.token = None /\ q.lease = None
    BY <1>1, <1>2, <1>3, <2>1, FlagSet
  <2>3. PICK z \in EntryRecords : z = [q EXCEPT !.processing = TRUE]
    BY FlagSet
  <2>4. z.occupied = TRUE /\ z.processing = TRUE /\ z.proven = FALSE /\ z.token = None /\ z.lease = None
    BY <2>2, <2>3, FlagSet
  <2>5. z = Claimed
    BY <2>4 DEF EntryRecords, Claimed
  <2>6. QED
    BY <2>1, <2>3, <2>5
<1>4. QED
  BY <1>1, <1>2, <1>3

\* No token is None.
LEMMA NoneIsNoToken ==
  ASSUME CompletionConstants
  PROVE  None \notin Tokens /\ None \notin Leases /\ None \notin Table
BY DEF CompletionConstants, Table

LEMMA DeferKeeps ==
  ASSUME CompletionConstants, CompletionInv, NEW t \in Threads, NEW l \in Leases, Defer(t, l)
  PROVE  CompletionInv'
<1>1. Typed /\ Relies(t) /\ pc[t] = "idle" /\ lease[l].held /\ ~ Using(l) /\ ~ rt.shutting_down
  BY DEF CompletionInv, Defer
<1>2. PICK e \in Entries :
        /\ ~ pool[e].occupied
        /\ pool' = [pool EXCEPT ![e].occupied = TRUE, ![e].processing = TRUE]
        /\ Goto(t, "create", [Idle EXCEPT !.entry = e, !.lease = l])
  BY DEF Defer
<1>3. pool[e] = EmptyEntry /\ Sound(e)
  BY <1>2 DEF CompletionInv, Sound
<1>4. pool' = [pool EXCEPT ![e] = Claimed]
  <2>1. pool' = [pool EXCEPT ![e] = [[pool[e] EXCEPT !.occupied = TRUE] EXCEPT !.processing = TRUE]]
    BY <1>1, <1>2 DEF Typed
  <2>2. QED
    BY <1>3, <2>1, EntriesTyped
<1>5. PICK local : local = [Idle EXCEPT !.entry = e, !.lease = l]
  OBVIOUS
<1>6. IsLocal(local) /\ local.entry = e /\ local.lease = l /\ local.shutdown = FALSE
  <2>1. local = [entry |-> e, lease |-> l, token |-> None, queue |-> <<>>, shutdown |-> FALSE]
    BY <1>5 DEF Idle
  <2>2. QED
    BY <2>1 DEF IsLocal
<1>7. \A u \in Threads : u # t /\ pc[u] \in {"create", "publish"} => loc[u].lease # l
  BY <1>1 DEF Using
<1>8. rt' = [rt EXCEPT !.in_flight = rt.in_flight + 1] /\ rt.in_flight \in Int
  BY <1>1 DEF Defer, Enter, Typed
<1>9. /\ rt' \in RuntimeRecords /\ rt'.shutting_down = rt.shutting_down /\ rt'.complete = rt.complete
      /\ rt'.in_flight = rt.in_flight + 1
  BY <1>1, <1>8, FlightSet DEF RuntimeRecords
<1>10. /\ "create" \in Labels \ {"publish", "finish"} /\ "create" \in InCall /\ "create" \in Working
       /\ "idle" \notin InCall /\ "idle" \notin Working
  BY DEF Labels, InCall, Working
<1>11. Goto(t, "create", local)
  BY <1>2, <1>5
<1>12. pc'[t] = "create" /\ loc'[t] = local
  BY <1>1, <1>6, <1>10, <1>11, Moves
<1>13. pool'[e] = Claimed
  BY <1>1, <1>4 DEF Typed
<1>14. UNCHANGED <<pending, lease, fence, buffer, faults>>
  BY DEF Defer
<1>15. Relies(t)'
  BY <1>1, <1>6, <1>10, <1>12, <1>13, <1>14, EntriesTyped DEF Relies
<1>16. Sound(e)'
  BY <1>6, <1>10, <1>12, <1>13, EntriesTyped DEF Sound
<1>17. Mine(t, e)
  BY <1>1, <1>3, <1>10, EntriesTyped DEF Mine
<1>18. /\ rt'.in_flight = rt.in_flight + (IF "create" \in InCall THEN 1 ELSE 0)
                                       - (IF pc[t] \in InCall THEN 1 ELSE 0)
       /\ pending' = pending + (IF Claimed.lease # None THEN 1 ELSE 0)
                             - (IF pool[e].lease # None THEN 1 ELSE 0)
  <2>1. pending \in Nat /\ rt.in_flight \in Int /\ pending' = pending
    BY <1>1, <1>14 DEF Typed
  <2>2. Claimed.lease = None /\ pool[e].lease = None
    BY <1>3, EntriesTyped
  <2>3. QED
    BY <1>1, <1>9, <1>10, <2>1, <2>2
<1>19. faults' \in 0 .. MaxFaults
  BY <1>1, <1>14 DEF Typed
<1>20. Claimed.lease = pool[e].lease /\ Claimed.token = pool[e].token /\ Claimed \in EntryRecords
  BY <1>3, EntriesTyped
<1>21. QED
  BY <1>1, <1>4, <1>6, <1>7, <1>9, <1>10, <1>11, <1>14, <1>15, <1>16, <1>17, <1>18, <1>19, <1>20,
     EntryKeeps

LEMMA CreateFailsKeeps ==
  ASSUME CompletionConstants, CompletionInv, NEW t \in Threads, CreateFails(t)
  PROVE  CompletionInv'
<1>1. Typed /\ Relies(t) /\ pc[t] = "create" /\ MaxFaults \in Nat
  BY DEF CompletionInv, CreateFails, CompletionConstants
<1>2. PICK e \in Entries : e = loc[t].entry
  BY <1>1 DEF Relies, Working, InCall
<1>3. pool[e].lease = None /\ pool[e].token = None /\ Sound(e)
  BY <1>1, <1>2 DEF Relies, CompletionInv, Sound
<1>4. pool' = [pool EXCEPT ![e] = EmptyEntry] /\ Goto(t, "leave", Idle)
      /\ UNCHANGED <<pending, lease, fence, rt, buffer>>
  BY <1>2 DEF CreateFails
<1>5. faults' \in 0 .. MaxFaults
  BY <1>1 DEF CreateFails, Fault, Typed
<1>6. /\ "leave" \in Labels \ {"publish", "finish"} /\ "leave" \in InCall /\ "leave" \notin Working
      /\ "create" \in InCall /\ "create" \in Working
  BY DEF Labels, InCall, Working
<1>7. pc'[t] = "leave" /\ loc'[t] = Idle /\ pool'[e] = EmptyEntry
  BY <1>1, <1>4, <1>6, Moves, IdleLocal DEF Typed
<1>8. Relies(t)'
  BY <1>6, <1>7, IdleLocal DEF Relies
<1>9. Sound(e)'
  BY <1>7, EntriesTyped DEF Sound
<1>10. Mine(t, e)
  BY <1>1, <1>2, <1>6 DEF Mine
<1>11. /\ rt'.in_flight = rt.in_flight + (IF "leave" \in InCall THEN 1 ELSE 0)
                                       - (IF pc[t] \in InCall THEN 1 ELSE 0)
       /\ pending' = pending + (IF EmptyEntry.lease # None THEN 1 ELSE 0)
                             - (IF pool[e].lease # None THEN 1 ELSE 0)
       /\ rt' \in RuntimeRecords
  <2>1. pending \in Nat /\ rt.in_flight \in Int /\ pending' = pending /\ rt' = rt /\ rt \in RuntimeRecords
    BY <1>1, <1>4 DEF Typed, RuntimeRecords
  <2>2. EmptyEntry.lease = None
    BY EntriesTyped
  <2>3. QED
    BY <1>1, <1>3, <1>6, <2>1, <2>2
<1>12. QED
  BY <1>1, <1>3, <1>4, <1>5, <1>6, <1>8, <1>9, <1>10, <1>11, EntriesTyped, IdleLocal, EntryKeeps, ZenonT(60)

\* The entry and its token stay, and the thread leaves: a poll that ends early.
LEMMA RetainKeeps ==
  ASSUME CompletionConstants, CompletionInv, NEW t \in Threads, NEW stop \in BOOLEAN,
         pc[t] \in {"query", "release"}, Retain(t, stop),
         UNCHANGED <<pending, lease, fence, rt, buffer>>, faults' \in 0 .. MaxFaults
  PROVE  CompletionInv'
<1>1. Typed /\ Relies(t) /\ IsLocal(loc[t])
  BY LocalsTyped DEF CompletionInv
<1>2. PICK e \in Entries : e = loc[t].entry
  BY <1>1 DEF Relies, Working, InCall
<1>3. pool[e].occupied /\ pool[e].lease # None /\ pool[e].token \in Table /\ Sound(e)
  BY <1>1, <1>2 DEF Relies, CompletionInv, Working, InCall
<1>4. PICK x \in EntryRecords : x = [pool[e] EXCEPT !.processing = FALSE]
  <2>1. pool[e] \in EntryRecords
    BY <1>1 DEF Typed, EntryRecords
  <2>2. [pool[e] EXCEPT !.processing = FALSE] \in EntryRecords
    BY <2>1, FlagSet
  <2>3. QED
    BY <2>2
<1>5. /\ x.occupied = pool[e].occupied /\ x.processing = FALSE /\ x.proven = pool[e].proven
      /\ x.token = pool[e].token /\ x.lease = pool[e].lease
  BY <1>1, <1>4, FlagSet DEF Typed, EntryRecords
<1>6. PICK local : local = IF stop THEN Idle ELSE loc[t]
  OBVIOUS
<1>7. pool' = [pool EXCEPT ![e] = x] /\ Goto(t, "leave", local)
  BY <1>2, <1>4, <1>6 DEF Retain, Retained
<1>8. IsLocal(local) /\ (local.shutdown => rt.shutting_down)
  BY <1>1, <1>6, IdleLocal DEF Relies
<1>9. /\ "leave" \in Labels \ {"publish", "finish"} /\ "leave" \in InCall /\ "leave" \notin Working
      /\ pc[t] \in InCall /\ pc[t] \in Working
  BY DEF Labels, InCall, Working
<1>10. pc'[t] = "leave" /\ loc'[t] = local /\ pool'[e] = x
  BY <1>1, <1>7, <1>8, <1>9, Moves DEF Typed
<1>11. Relies(t)'
  BY <1>8, <1>9, <1>10 DEF Relies
<1>12. Sound(e)'
  <2>1. fence[pool[e].token] # "released"
    BY <1>3 DEF Table
  <2>2. QED
    BY <1>3, <1>5, <1>10, <2>1 DEF Sound
<1>13. Mine(t, e)
  BY <1>2, <1>9 DEF Mine
<1>14. /\ rt'.in_flight = rt.in_flight + (IF "leave" \in InCall THEN 1 ELSE 0)
                                       - (IF pc[t] \in InCall THEN 1 ELSE 0)
       /\ pending' = pending + (IF x.lease # None THEN 1 ELSE 0)
                             - (IF pool[e].lease # None THEN 1 ELSE 0)
       /\ rt' \in RuntimeRecords
  BY <1>1, <1>5, <1>9 DEF Typed, RuntimeRecords
<1>15. QED
  BY <1>3, <1>5, <1>7, <1>8, <1>9, <1>11, <1>12, <1>13, <1>14, EntryKeeps

\* Take claims the one entry of its token.
LEMMA TakeTakes ==
  ASSUME CompletionConstants, CompletionInv, NEW t \in Threads, Take(t),
         \E s \in EntryOf(Head(loc[t].queue)) : Available(s)
  PROVE  CompletionInv'
<1>1. Typed /\ Relies(t) /\ IsLocal(loc[t]) /\ pc[t] = "next"
  BY LocalsTyped DEF CompletionInv, Take
<1>2. PICK k : k = Head(loc[t].queue)
  OBVIOUS
<1>3. PICK rest : rest = [loc[t] EXCEPT !.queue = Tail(loc[t].queue)]
  OBVIOUS
<1>4. IsLocal(rest) /\ rest.entry = loc[t].entry /\ rest.shutdown = loc[t].shutdown
  BY <1>1, <1>3, QueueSet
<1>5. PICK e \in Entries :
        /\ pool[e].occupied /\ pool[e].token = k
        /\ pool' = [pool EXCEPT ![e].processing = TRUE]
        /\ Goto(t, "query", [rest EXCEPT !.entry = e, !.token = k])
  BY <1>2, <1>3 DEF Take, EntryOf
<1>6. Sound(e) /\ pool[e].lease # None /\ ~ pool[e].processing
  <2>1. PICK s \in Entries : pool[s].occupied /\ pool[s].token = k /\ ~ pool[s].processing
    BY <1>2 DEF EntryOf, Available
  <2>2. Sound(s) /\ Sound(e) /\ OneEach
    BY DEF CompletionInv
  <2>3. pool[s].lease # None /\ k # None
    BY <2>1, <2>2 DEF Sound
  <2>4. pool[e].lease # None
    BY <1>5, <2>2, <2>3 DEF Sound
  <2>5. e = s
    BY <1>5, <2>1, <2>2, <2>3, <2>4 DEF OneEach
  <2>6. QED
    BY <2>1, <2>2, <2>4, <2>5
<1>7. k # None /\ k \in Tokens /\ k \in Table
  <2>1. k # None /\ fence[k] \in {"pending", "complete"}
    BY <1>5, <1>6 DEF Sound
  <2>2. k \in Tokens
    BY <1>1, <1>5, <2>1 DEF Typed
  <2>3. QED
    BY <2>1, <2>2 DEF Table
<1>8. pool[e] \in EntryRecords
  BY <1>1 DEF Typed, EntryRecords
<1>9. PICK x \in EntryRecords : x = [pool[e] EXCEPT !.processing = TRUE]
  BY <1>8, FlagSet
<1>10. /\ x.occupied = pool[e].occupied /\ x.processing = TRUE /\ x.proven = pool[e].proven
       /\ x.token = pool[e].token /\ x.lease = pool[e].lease
  BY <1>8, <1>9, FlagSet
<1>11. PICK local : local = [rest EXCEPT !.entry = e, !.token = k]
  OBVIOUS
<1>12. IsLocal(local) /\ local.entry = e /\ local.token = k /\ local.shutdown = loc[t].shutdown
  <2>1. PICK n : n = e
    OBVIOUS
  <2>2. PICK first : first = [rest EXCEPT !.entry = n]
    OBVIOUS
  <2>3. IsLocal(first) /\ first.entry = n /\ first.shutdown = rest.shutdown
    BY <1>4, <2>2, EntrySet
  <2>4. PICK second : second = [first EXCEPT !.token = k]
    OBVIOUS
  <2>5. IsLocal(second) /\ second.entry = n /\ second.token = k /\ second.shutdown = rest.shutdown
    BY <2>3, <2>4, TokenSet
  <2>6. local = second
    BY <1>11, <2>1, <2>2, <2>4
  <2>7. QED
    BY <1>4, <2>1, <2>5, <2>6
<1>13. pool' = [pool EXCEPT ![e] = x] /\ Goto(t, "query", local)
  BY <1>5, <1>9, <1>11
<1>14. /\ "query" \in Labels \ {"publish", "finish"} /\ "query" \in InCall /\ "query" \in Working
       /\ "next" \notin InCall /\ "next" \notin Working
  BY DEF Labels, InCall, Working
<1>15. pc'[t] = "query" /\ loc'[t] = local /\ pool'[e] = x
  BY <1>1, <1>12, <1>13, <1>14, Moves DEF Typed
<1>0. rt' = [rt EXCEPT !.in_flight = rt.in_flight + 1]
  BY DEF Take, Enter
<1>16. UNCHANGED <<pending, lease, fence, buffer, faults>>
  BY DEF Take
<1>17. /\ rt' \in RuntimeRecords /\ rt'.shutting_down = rt.shutting_down /\ rt'.complete = rt.complete
       /\ rt'.in_flight = rt.in_flight + 1
  BY <1>0, <1>1, FlightSet DEF RuntimeRecords, Typed
<1>18. Relies(t)'
  <2>1. k \in Table' /\ (loc[t].shutdown => rt.shutting_down)
    BY <1>1, <1>7, <1>16 DEF Table, Relies
  <2>2. QED
    BY <1>5, <1>6, <1>10, <1>12, <1>14, <1>15, <1>17, <2>1 DEF Relies
<1>19. Sound(e)'
  BY <1>5, <1>6, <1>10, <1>12, <1>14, <1>15, <1>16 DEF Sound
<1>20. Mine(t, e)
  BY <1>1, <1>6, <1>14 DEF Mine
<1>21. /\ rt'.in_flight = rt.in_flight + (IF "query" \in InCall THEN 1 ELSE 0)
                                       - (IF pc[t] \in InCall THEN 1 ELSE 0)
       /\ pending' = pending + (IF x.lease # None THEN 1 ELSE 0)
                             - (IF pool[e].lease # None THEN 1 ELSE 0)
  <2>1. pending \in Nat /\ rt.in_flight \in Int /\ pending' = pending
    BY <1>1, <1>16 DEF Typed
  <2>2. QED
    BY <1>1, <1>6, <1>10, <1>14, <1>17, <2>1
<1>22. faults' \in 0 .. MaxFaults
  BY <1>1, <1>16 DEF Typed
<1>23. pool[e].occupied /\ pc[t] = "next" /\ local.entry = e /\ IsLocal(local)
      /\ x.lease = pool[e].lease /\ x.token = pool[e].token /\ UNCHANGED <<lease, fence, buffer>>
  BY <1>1, <1>5, <1>10, <1>12, <1>16
<1>24. QED
  BY <1>13, <1>14, <1>23, <1>17, <1>18, <1>19, <1>20, <1>21, <1>22,
     EntryKeeps

LEMMA TakeKeeps ==
  ASSUME CompletionConstants, CompletionInv, NEW t \in Threads, Take(t)
  PROVE  CompletionInv'
BY TakeTakes, TakePasses

\* A fence is proven complete only when the backend says so.
LEMMA QueryKeeps ==
  ASSUME CompletionConstants, CompletionInv, NEW t \in Threads, Query(t)
  PROVE  CompletionInv'
<1>1. Typed /\ Relies(t) /\ IsLocal(loc[t]) /\ pc[t] = "query"
  BY LocalsTyped DEF CompletionInv, Query
<1>2. PICK e \in Entries : e = loc[t].entry
  BY <1>1 DEF Relies, Working, InCall
<1>3. /\ pool[e].occupied /\ pool[e].processing /\ pool[e].lease # None /\ pool[e].token \in Table
      /\ loc[t].token = pool[e].token /\ Sound(e)
  BY <1>1, <1>2 DEF Relies, CompletionInv, Working, InCall
<1>4. UNCHANGED <<pending, lease, fence, rt, buffer, faults>> /\ faults' \in 0 .. MaxFaults
  BY <1>1 DEF Query, Typed
<1>5. CASE ~ (pool[e].proven \/ IsComplete(loc[t].token))
  <2>1. Retain(t, FALSE)
    BY <1>2, <1>5 DEF Query
  <2>2. QED
    BY <1>1, <1>4, <2>1, RetainKeeps
<1>6. CASE pool[e].proven \/ IsComplete(loc[t].token)
  <2>1. fence[pool[e].token] = "complete"
    BY <1>3, <1>6 DEF Sound, IsComplete, Table
  <2>2. pool[e] \in EntryRecords
    BY <1>1 DEF Typed, EntryRecords
  <2>3. PICK x \in EntryRecords : x = [pool[e] EXCEPT !.proven = TRUE]
    BY <2>2, FlagSet
  <2>4. /\ x.occupied = pool[e].occupied /\ x.processing = pool[e].processing /\ x.proven = TRUE
        /\ x.token = pool[e].token /\ x.lease = pool[e].lease
    BY <2>2, <2>3, FlagSet
  <2>5. pool' = [pool EXCEPT ![e] = x] /\ Goto(t, "release", loc[t])
    BY <1>2, <1>6, <2>3 DEF Query
  <2>6. /\ "release" \in Labels \ {"publish", "finish"} /\ "release" \in InCall /\ "release" \in Working
        /\ "query" \in InCall /\ "query" \in Working
    BY DEF Labels, InCall, Working
  <2>7. pc'[t] = "release" /\ loc'[t] = loc[t] /\ pool'[e] = x
    BY <1>1, <2>5, <2>6, Moves DEF Typed
  <2>8. Relies(t)'
    <3>1. pool[e].token \in Table' /\ (loc[t].shutdown => rt.shutting_down)
      BY <1>1, <1>3, <1>4 DEF Table, Relies
    <3>2. QED
      BY <1>2, <1>3, <1>4, <2>1, <2>4, <2>6, <2>7, <3>1 DEF Relies
  <2>9. Sound(e)'
    BY <1>2, <1>3, <1>4, <2>1, <2>4, <2>6, <2>7 DEF Sound
  <2>10. Mine(t, e)
    BY <1>1, <1>2, <2>6 DEF Mine
  <2>11. /\ rt'.in_flight = rt.in_flight + (IF "release" \in InCall THEN 1 ELSE 0)
                                         - (IF pc[t] \in InCall THEN 1 ELSE 0)
         /\ pending' = pending + (IF x.lease # None THEN 1 ELSE 0)
                               - (IF pool[e].lease # None THEN 1 ELSE 0)
         /\ rt' \in RuntimeRecords
    <3>1. pending \in Nat /\ rt.in_flight \in Int /\ pending' = pending /\ rt' = rt /\ rt \in RuntimeRecords
      BY <1>1, <1>4 DEF Typed, RuntimeRecords
    <3>2. QED
      BY <1>1, <1>3, <2>4, <2>6, <3>1
  <2>12. QED
    BY <1>1, <1>2, <1>3, <1>4, <2>4, <2>5, <2>6, <2>8, <2>9, <2>10, <2>11, EntryKeeps
<1>7. QED
  BY <1>5, <1>6

LEMMA QueryFailsKeeps ==
  ASSUME CompletionConstants, CompletionInv, NEW t \in Threads, QueryFails(t)
  PROVE  CompletionInv'
<1>1. faults' \in 0 .. MaxFaults
  BY DEF QueryFails, Fault, CompletionInv, Typed, CompletionConstants
<1>2. QED
  BY <1>1, RetainKeeps DEF QueryFails

LEMMA ReleaseFailsKeeps ==
  ASSUME CompletionConstants, CompletionInv, NEW t \in Threads, ReleaseFails(t)
  PROVE  CompletionInv'
<1>1. faults' \in 0 .. MaxFaults
  BY DEF ReleaseFails, Fault, CompletionInv, Typed, CompletionConstants
<1>2. QED
  BY <1>1, RetainKeeps DEF ReleaseFails

\* The entry is freed when its fence is released and its lease has ended.
LEMMA ClearKeeps ==
  ASSUME CompletionConstants, CompletionInv, NEW t \in Threads, Clear(t)
  PROVE  CompletionInv'
<1>1. Typed /\ Relies(t) /\ IsLocal(loc[t]) /\ pc[t] = "clear"
  BY LocalsTyped DEF CompletionInv, Clear
<1>2. PICK e \in Entries : e = loc[t].entry
  BY <1>1 DEF Relies, Working, InCall
<1>3. pool[e].lease # None /\ fence[pool[e].token] = "released" /\ Sound(e)
  BY <1>1, <1>2 DEF Relies, CompletionInv
<1>4. pool[e].token \notin Table
  BY <1>3 DEF Table
<1>5. /\ pool' = [pool EXCEPT ![e] = EmptyEntry] /\ Goto(t, "leave", loc[t]) /\ pending' = pending - 1
      /\ UNCHANGED <<lease, fence, rt, buffer, faults>>
  BY <1>2 DEF Clear
<1>6. /\ "leave" \in Labels \ {"publish", "finish"} /\ "leave" \in InCall /\ "leave" \notin Working
      /\ "clear" \in InCall /\ "clear" \in Working
  BY DEF Labels, InCall, Working
<1>7. pc'[t] = "leave" /\ loc'[t] = loc[t] /\ pool'[e] = EmptyEntry
  BY <1>1, <1>5, <1>6, Moves DEF Typed
<1>8. Relies(t)'
  BY <1>1, <1>5, <1>6, <1>7 DEF Relies
<1>9. Sound(e)'
  BY <1>7, EntriesTyped DEF Sound
<1>10. Mine(t, e)
  BY <1>1, <1>2, <1>6 DEF Mine
<1>11. /\ rt'.in_flight = rt.in_flight + (IF "leave" \in InCall THEN 1 ELSE 0)
                                       - (IF pc[t] \in InCall THEN 1 ELSE 0)
       /\ pending' = pending + (IF EmptyEntry.lease # None THEN 1 ELSE 0)
                             - (IF pool[e].lease # None THEN 1 ELSE 0)
       /\ rt' \in RuntimeRecords /\ faults' \in 0 .. MaxFaults
  <2>1. /\ pending \in Nat /\ rt.in_flight \in Int /\ rt' = rt /\ rt \in RuntimeRecords
        /\ faults' \in 0 .. MaxFaults
    BY <1>1, <1>5 DEF Typed, RuntimeRecords
  <2>2. EmptyEntry.lease = None
    BY EntriesTyped
  <2>3. QED
    BY <1>1, <1>3, <1>5, <1>6, <2>1, <2>2
<1>12. QED
  BY <1>1, <1>4, <1>5, <1>6, <1>8, <1>9, <1>10, <1>11, EntriesTyped, EntryKeeps

-----------------------------------------------------------------------------
(* Steps that leave the pool as it is: on fences and on leases.            *)

LeaseRecords ==
  [held : BOOLEAN, pinned : BOOLEAN, unpins : 0 .. 2, content : 0 .. 2, initial : 0 .. 2,
   deferred : -1 .. 2, poisoned : BOOLEAN]

\* No thread enters or leaves a call, and the pool stays: the counters and the claims do too.
LEMMA StillKeeps ==
  ASSUME CompletionConstants, CompletionInv, UNCHANGED <<pool, pending, rt>>, Typed',
         \A u \in Threads : /\ pc'[u] = pc[u] \/ (pc[u] \in Working /\ pc'[u] \in Working)
                            /\ pc'[u] \in {"create", "publish"} => pc[u] \in {"create", "publish"}
                            /\ loc'[u].entry = loc[u].entry
                            /\ loc'[u].lease = loc[u].lease \/ pc[u] = "close",
         \A u, v \in Threads : u # v /\ pc'[u] = "publish" /\ pc'[v] = "publish" =>
                                 loc'[u].token # loc'[v].token,
         \A u \in Threads, s \in Entries :
           pc'[u] = "publish" /\ pool[s].lease # None => loc'[u].token # pool[s].token,
         \A u \in Threads : Relies(u)',
         \A s \in Entries : Sound(s)',
         \A k \in Tokens : Named(k)',
         \A l \in Leases : Ended(l)',
         buffer.dead => buffer'.dead,
         buffer'.dead => \A l \in Leases : ~ lease'[l].pinned
  PROVE  CompletionInv'
<1>1. Typed
  BY DEF CompletionInv
<1>2. \A u \in Threads : /\ pc'[u] \in Working <=> pc[u] \in Working
                         /\ pc'[u] \in InCall <=> pc[u] \in InCall
                         /\ pc'[u] = "finish" => pc[u] = "finish"
                         /\ pc[u] \in Working => loc'[u].entry = loc[u].entry
                         /\ pc'[u] \in {"create", "publish"} => loc'[u].lease = loc[u].lease
  BY DEF Working, InCall
<1>3. ASSUME NEW u \in Threads, NEW v \in Threads, u # v PROVE Apart(u, v)'
  <2>1. Apart(u, v)
    BY <1>3 DEF CompletionInv
  <2>2. QED
    BY <1>2, <1>3, <2>1 DEF Apart
<1>4. OneEach'
  BY DEF CompletionInv, OneEach
<1>5. StaysQuiet'
  BY <1>2 DEF CompletionInv, StaysQuiet
<1>6. Counted'
  <2>1. {u \in Threads : pc'[u] \in InCall} = {u \in Threads : pc[u] \in InCall}
    BY <1>2
  <2>2. QED
    BY <2>1 DEF CompletionInv, Counted
<1>7. QED
  BY <1>3, <1>4, <1>5, <1>6 DEF CompletionInv

\* A fence is created for the entry that was claimed before.
LEMMA CreateCompletionKeeps ==
  ASSUME CompletionConstants, CompletionInv, NEW t \in Threads, CreateCompletion(t)
  PROVE  CompletionInv'
<1>1. Typed /\ Relies(t) /\ IsLocal(loc[t]) /\ pc[t] = "create"
  BY LocalsTyped DEF CompletionInv, CreateCompletion
<1>2. PICK k \in Tokens :
        /\ fence[k] = "none" /\ fence' = [fence EXCEPT ![k] = "pending"]
        /\ Goto(t, "publish", [loc[t] EXCEPT !.token = k])
  BY DEF CreateCompletion, CanCreate
<1>3. PICK local : local = [loc[t] EXCEPT !.token = k]
  OBVIOUS
<1>4. IsLocal(local) /\ local.entry = loc[t].entry /\ local.lease = loc[t].lease /\ local.token = k
      /\ local.shutdown = loc[t].shutdown
  BY <1>1, <1>3, TokenSet
<1>5. {"create", "publish"} \subseteq Working /\ {"create", "publish"} \subseteq InCall
      /\ "publish" \in Labels
  BY DEF Working, InCall, Labels
<1>6. /\ pc' \in [Threads -> Labels]
      /\ loc' = [u \in Threads |->
                  [entry |-> loc'[u].entry, lease |-> loc'[u].lease, token |-> loc'[u].token,
                   queue |-> loc'[u].queue, shutdown |-> loc'[u].shutdown]]
      /\ pc'[t] = "publish" /\ loc'[t] = local
      /\ \A u \in Threads : u # t => pc'[u] = pc[u] /\ loc'[u] = loc[u]
  BY <1>1, <1>2, <1>3, <1>4, <1>5, Moves
<1>7. UNCHANGED <<pool, pending, lease, rt, buffer, faults>>
  BY DEF CreateCompletion
<1>8. /\ fence' \in [Tokens -> {"none", "pending", "complete", "released", "abandoned"}]
      /\ fence'[k] = "pending" /\ \A j \in Tokens : j # k => fence'[j] = fence[j]
  BY <1>1, <1>2 DEF Typed
<1>9. Typed'
  BY <1>1, <1>6, <1>7, <1>8 DEF Typed
<1>10. Table' = Table \cup {k} /\ k \notin Table
  BY <1>2, <1>8 DEF Table
<1>11. ASSUME NEW s \in Entries, pool[s].lease # None
       PROVE  pool[s].token # k /\ pool[s].token \in Tokens /\ fence'[pool[s].token] = fence[pool[s].token]
  <2>1. Sound(s) /\ pool[s].token # None
    BY <1>11 DEF CompletionInv, Sound
  <2>2. pool[s].token \in Tokens
    BY <1>1, <2>1 DEF Typed
  <2>3. pool[s].token # k
    BY <1>2, <1>11, <2>1 DEF Sound
  <2>4. QED
    BY <1>8, <2>2, <2>3
<1>12. ASSUME NEW u \in Threads PROVE Relies(u)'
  <2>1. CASE u = t
    BY <1>1, <1>4, <1>5, <1>6, <1>7, <1>10, <2>1 DEF Relies
  <2>2. CASE u # t
    <3>1. Relies(u) /\ pc'[u] = pc[u] /\ loc'[u] = loc[u]
      BY <1>6, <2>2 DEF CompletionInv
    <3>2. pc[u] \in Working => loc[u].entry \in Entries
      BY <3>1 DEF Relies
    <3>3. {"query", "release", "close", "clear"} \subseteq Working
      BY DEF Working, InCall
    <3>4. QED
      BY <1>7, <1>10, <1>11, <3>1, <3>2, <3>3 DEF Relies
  <2>3. QED
    BY <2>1, <2>2
<1>13. ASSUME NEW s \in Entries PROVE Sound(s)'
  <2>1. Sound(s)
    BY DEF CompletionInv
  <2>2. pool[s].processing => \E u \in Threads : pc'[u] \in Working /\ loc'[u].entry = s
    BY <1>1, <1>4, <1>5, <1>6, <2>1 DEF Sound
  <2>3. QED
    BY <1>7, <1>11, <2>1, <2>2 DEF Sound
<1>14. ASSUME NEW j \in Tokens PROVE Named(j)'
  <2>1. Named(j)
    BY DEF CompletionInv
  <2>2. CASE j = k
    BY <1>4, <1>6, <1>8, <2>2 DEF Named
  <2>3. CASE j # k
    <3>1. ASSUME NEW u \in Threads, pc[u] = "publish" PROVE u # t
      BY <1>1, <3>1
    <3>2. QED
      BY <1>6, <1>7, <1>8, <1>10, <2>1, <2>3, <3>1 DEF Named
  <2>4. QED
    BY <2>2, <2>3
<1>15. ASSUME NEW l \in Leases PROVE Ended(l)'
  BY <1>7 DEF CompletionInv, Ended
<1>16. \A u \in Threads : pc[u] = "publish" => loc[u].token # k
  BY <1>10 DEF CompletionInv, Relies
<1>17. \A u, v \in Threads : u # v /\ pc'[u] = "publish" /\ pc'[v] = "publish" =>
                               loc'[u].token # loc'[v].token
  BY <1>4, <1>6, <1>16 DEF CompletionInv, Apart
<1>18. \A u \in Threads, s \in Entries :
         pc'[u] = "publish" /\ pool[s].lease # None => loc'[u].token # pool[s].token
  BY <1>4, <1>6, <1>11 DEF CompletionInv, OneEach
<1>19. \A u \in Threads : /\ pc'[u] = pc[u] \/ (pc[u] \in Working /\ pc'[u] \in Working)
                          /\ pc'[u] \in {"create", "publish"} => pc[u] \in {"create", "publish"}
                          /\ loc'[u].entry = loc[u].entry /\ loc'[u].lease = loc[u].lease
  BY <1>1, <1>4, <1>5, <1>6
<1>20. (buffer.dead => buffer'.dead) /\ (buffer'.dead => \A l \in Leases : ~ lease'[l].pinned)
  BY <1>7 DEF CompletionInv, StaysQuiet
<1>21. UNCHANGED <<pool, pending, rt>>
  BY <1>7
<1>22. QED
  BY <1>9, <1>12, <1>13, <1>14, <1>15, <1>17, <1>18, <1>19, <1>20, <1>21, StillKeeps

\* The fence of an entry is released by the thread that has the entry, when it is complete.
LEMMA ReleaseCompletionKeeps ==
  ASSUME CompletionConstants, CompletionInv, NEW t \in Threads, ReleaseCompletion(t)
  PROVE  CompletionInv'
<1>1. Typed /\ Relies(t) /\ IsLocal(loc[t]) /\ pc[t] = "release"
  BY LocalsTyped DEF CompletionInv, ReleaseCompletion
<1>2. PICK e \in Entries : e = loc[t].entry
  BY <1>1 DEF Relies, Working, InCall
<1>3. PICK k : k = loc[t].token
  OBVIOUS
<1>4. /\ pool[e].lease # None /\ pool[e].token = k /\ k \in Table /\ k \in Tokens /\ fence[k] = "complete"
      /\ pool[e].occupied /\ pool[e].processing /\ Sound(e)
  BY <1>1, <1>2, <1>3 DEF Relies, Table, CompletionInv, Working, InCall
<1>5. /\ fence' \in [Tokens -> {"none", "pending", "complete", "released", "abandoned"}]
      /\ fence'[k] = "released" /\ \A j \in Tokens : j # k => fence'[j] = fence[j]
  BY <1>1, <1>3, <1>4 DEF Typed, ReleaseCompletion, WithoutFence
<1>6. {"release", "close"} \subseteq Working /\ {"release", "close"} \subseteq InCall
      /\ "close" \in Labels
  BY DEF Working, InCall, Labels
<1>7. /\ pc' \in [Threads -> Labels]
      /\ loc' = [u \in Threads |->
                  [entry |-> loc'[u].entry, lease |-> loc'[u].lease, token |-> loc'[u].token,
                   queue |-> loc'[u].queue, shutdown |-> loc'[u].shutdown]]
      /\ pc'[t] = "close" /\ loc'[t] = loc[t]
      /\ \A u \in Threads : u # t => pc'[u] = pc[u] /\ loc'[u] = loc[u]
  BY <1>1, <1>6, Moves DEF ReleaseCompletion
<1>8. UNCHANGED <<pool, pending, lease, rt, buffer, faults>>
  BY DEF ReleaseCompletion
<1>9. Typed'
  BY <1>1, <1>5, <1>7, <1>8 DEF Typed
<1>10. Table' = Table \ {k}
  BY <1>5 DEF Table
<1>11. ASSUME NEW s \in Entries, pool[s].lease # None, s # e
       PROVE  pool[s].token # k /\ pool[s].token \in Tokens /\ fence'[pool[s].token] = fence[pool[s].token]
  <2>1. pool[s].token # None /\ pool[s].token # k
    BY <1>4, <1>11 DEF CompletionInv, OneEach, Sound
  <2>2. pool[s].token \in Tokens
    BY <1>1, <2>1 DEF Typed
  <2>3. QED
    BY <1>5, <2>1, <2>2
<1>12. \A u \in Threads : u # t /\ pc[u] \in Working => loc[u].entry \in Entries /\ loc[u].entry # e
  BY <1>1, <1>2, <1>6, NotTheirs DEF Mine
<1>13. \A u \in Threads : pc[u] = "publish" => loc[u].token # k
  BY <1>4 DEF CompletionInv, OneEach
<1>14. ASSUME NEW u \in Threads PROVE Relies(u)'
  <2>1. CASE u = t
    <3>1. lease[pool[e].lease].pinned
      BY <1>4 DEF Sound
    <3>2. QED
      BY <1>1, <1>2, <1>4, <1>5, <1>6, <1>7, <1>8, <2>1, <3>1 DEF Relies
  <2>2. CASE u # t
    <3>1. Relies(u) /\ pc'[u] = pc[u] /\ loc'[u] = loc[u]
      BY <1>7, <2>2 DEF CompletionInv
    <3>2. {"publish", "query", "release", "close", "clear"} \subseteq Working
      BY DEF Working, InCall
    <3>3. QED
      BY <1>8, <1>10, <1>11, <1>12, <1>13, <2>2, <3>1, <3>2 DEF Relies
  <2>3. QED
    BY <2>1, <2>2
<1>15. ASSUME NEW s \in Entries PROVE Sound(s)'
  <2>1. Sound(s)
    BY DEF CompletionInv
  <2>2. pool[s].processing => \E u \in Threads : pc'[u] \in Working /\ loc'[u].entry = s
    BY <1>1, <1>6, <1>7, <2>1 DEF Sound
  <2>3. CASE s = e
    BY <1>4, <1>5, <1>8, <2>1, <2>2, <2>3 DEF Sound
  <2>4. CASE s # e
    BY <1>8, <1>11, <2>1, <2>2, <2>4 DEF Sound
  <2>5. QED
    BY <2>3, <2>4
<1>16. ASSUME NEW j \in Tokens PROVE Named(j)'
  <2>1. Named(j)
    BY DEF CompletionInv
  <2>2. CASE j = k
    BY <1>5, <1>10, <2>2 DEF Named
  <2>3. CASE j # k
    <3>1. ASSUME NEW u \in Threads, pc[u] = "publish" PROVE u # t
      BY <1>1, <3>1
    <3>2. QED
      BY <1>5, <1>7, <1>8, <1>10, <2>1, <2>3, <3>1 DEF Named
  <2>4. QED
    BY <2>2, <2>3
<1>17. ASSUME NEW l \in Leases PROVE Ended(l)'
  BY <1>8 DEF CompletionInv, Ended
<1>18. \A u, v \in Threads : u # v /\ pc'[u] = "publish" /\ pc'[v] = "publish" =>
                               loc'[u].token # loc'[v].token
  BY <1>7 DEF CompletionInv, Apart
<1>19. \A u \in Threads, s \in Entries :
         pc'[u] = "publish" /\ pool[s].lease # None => loc'[u].token # pool[s].token
  BY <1>7 DEF CompletionInv, OneEach
<1>20. \A u \in Threads : /\ pc'[u] = pc[u] \/ (pc[u] \in Working /\ pc'[u] \in Working)
                          /\ pc'[u] \in {"create", "publish"} => pc[u] \in {"create", "publish"}
                          /\ loc'[u].entry = loc[u].entry /\ loc'[u].lease = loc[u].lease
  BY <1>1, <1>6, <1>7
<1>21. (buffer.dead => buffer'.dead) /\ (buffer'.dead => \A l \in Leases : ~ lease'[l].pinned)
  BY <1>8 DEF CompletionInv, StaysQuiet
<1>22. UNCHANGED <<pool, pending, rt>>
  BY <1>8
<1>23. QED
  BY <1>9, <1>14, <1>15, <1>16, <1>17, <1>18, <1>19, <1>20, <1>21, <1>22, StillKeeps

-----------------------------------------------------------------------------
(* The end of a lease.                                                     *)

\* Closed marks the buffer dead when it is closing and nothing is pinned.
LEMMA BufferCloses ==
  ASSUME NEW b \in [closing : BOOLEAN, dead : BOOLEAN], NEW leases, NEW z, z = Closed(b, leases)
  PROVE  /\ z \in [closing : BOOLEAN, dead : BOOLEAN]
         /\ z.dead <=> b.dead \/ (b.closing /\ \A l \in Leases : ~ leases[l].pinned)
<1>1. PICK c \in BOOLEAN, d \in BOOLEAN : b = [closing |-> c, dead |-> d]
  OBVIOUS
<1>2. PICK x \in BOOLEAN : x <=> b.dead \/ (b.closing /\ \A l \in Leases : ~ leases[l].pinned)
  OBVIOUS
<1>3. (b.dead \/ (b.closing /\ \A l \in Leases : ~ leases[l].pinned)) = x
  BY <1>1, <1>2
<1>4. z = [b EXCEPT !.dead = x]
  BY <1>3 DEF Closed
<1>5. z = [closing |-> c, dead |-> x]
  BY ONLY <1>1, <1>4
<1>6. QED
  BY <1>2, <1>5

\* A pinned lease that ends is unpinned once, and its content moves on when it is refreshed.
LEMMA UnpinnedOnce ==
  ASSUME Typed, NEW l \in Leases, Ended(l), lease[l].pinned, NEW ok \in BOOLEAN,
         NEW z, z = Unpinned(l, ok)
  PROVE  /\ z \in LeaseRecords /\ z.held = lease[l].held /\ ~ z.pinned /\ z.unpins = 1
         /\ z.initial = lease[l].initial /\ z.deferred = lease[l].deferred
         /\ z.content \in {lease[l].content, lease[l].content + 1}
         /\ l \in Writers /\ lease[l].content = lease[l].initial =>
              z.content = lease[l].content + 1 \/ z.poisoned
<1>1. PICK h \in BOOLEAN, p \in BOOLEAN, u \in 0 .. 2, c \in 0 .. 2, i \in 0 .. 2, d \in -1 .. 2, q \in BOOLEAN :
        lease[l] = [held |-> h, pinned |-> p, unpins |-> u, content |-> c, initial |-> i,
                    deferred |-> d, poisoned |-> q]
  BY DEF Typed
<1>2. u = 0 /\ c \in 0 .. 1
  BY <1>1 DEF Ended
<1>3. PICK w \in BOOLEAN : w <=> l \in Writers /\ c = i
  OBVIOUS
<1>4. PICK n \in 0 .. 2 : n = IF w /\ ok THEN c + 1 ELSE c
  BY <1>2
<1>5. PICK x \in BOOLEAN : x = (w /\ ~ ok)
  OBVIOUS
<1>0. PICK f \in BOOLEAN : f = FALSE
  OBVIOUS
<1>00. PICK m \in 0 .. 2 : m = 1
  OBVIOUS
<1>6. z = [lease[l] EXCEPT !.pinned = f, !.unpins = m, !.content = n, !.poisoned = x]
  <2>1. lease[l].unpins + 1 = 1
    BY <1>1, <1>2
  <2>2. (IF (l \in Writers /\ lease[l].content = lease[l].initial) /\ ok
         THEN lease[l].content + 1 ELSE lease[l].content) = n
    BY <1>1, <1>3, <1>4
  <2>3. ((l \in Writers /\ lease[l].content = lease[l].initial) /\ ~ ok) = x
    <3>1. lease[l].content = c /\ lease[l].initial = i
      BY <1>1
    <3>2. (l \in Writers /\ c = i) = w
      BY <1>3
    <3>3. QED
      BY <1>5, <3>1, <3>2, Zenon
  <2>4. z = [lease[l] EXCEPT !.pinned = FALSE, !.unpins = lease[l].unpins + 1,
               !.content = IF (l \in Writers /\ lease[l].content = lease[l].initial) /\ ok
                           THEN lease[l].content + 1 ELSE lease[l].content,
               !.poisoned = (l \in Writers /\ lease[l].content = lease[l].initial) /\ ~ ok]
    BY DEF Unpinned
  <2>5. QED
    BY <1>0, <1>00, <2>1, <2>2, <2>3, <2>4, Zenon
<1>7. z = [held |-> h, pinned |-> f, unpins |-> m, content |-> n, initial |-> i,
           deferred |-> d, poisoned |-> x]
  <2>1. PICK y1 : y1 = [lease[l] EXCEPT !.pinned = f]
    OBVIOUS
  <2>2. y1 = [held |-> h, pinned |-> f, unpins |-> u, content |-> c, initial |-> i,
              deferred |-> d, poisoned |-> q]
    BY ONLY <1>1, <2>1
  <2>3. PICK y2 : y2 = [y1 EXCEPT !.unpins = m]
    OBVIOUS
  <2>4. y2 = [held |-> h, pinned |-> f, unpins |-> m, content |-> c, initial |-> i,
              deferred |-> d, poisoned |-> q]
    BY ONLY <2>2, <2>3
  <2>5. PICK y3 : y3 = [y2 EXCEPT !.content = n]
    OBVIOUS
  <2>6. y3 = [held |-> h, pinned |-> f, unpins |-> m, content |-> n, initial |-> i,
              deferred |-> d, poisoned |-> q]
    BY ONLY <2>4, <2>5
  <2>7. z = [y3 EXCEPT !.poisoned = x]
    BY <1>6, <2>1, <2>3, <2>5
  <2>8. QED
    BY ONLY <2>6, <2>7
<1>8. z \in LeaseRecords
  BY <1>7 DEF LeaseRecords
<1>9. QED
  BY <1>0, <1>00, <1>1, <1>2, <1>3, <1>4, <1>5, <1>7, <1>8

\* So it has ended, if its holder has given it up.
LEMMA EndEnds ==
  ASSUME Typed, NEW l \in Leases, Ended(l), lease[l].pinned,
         NEW z \in LeaseRecords, ~ z.held, ~ z.pinned, z.unpins = 1,
         z.initial = lease[l].initial, z.deferred = lease[l].deferred,
         z.content \in {lease[l].content, lease[l].content + 1},
         l \in Writers /\ lease[l].content = lease[l].initial =>
           z.content = lease[l].content + 1 \/ z.poisoned,
         lease'[l] = z
  PROVE  Ended(l)'
<1>1. /\ lease[l].content \in 0 .. 2 /\ lease[l].initial \in 0 .. 2 /\ lease[l].deferred \in -1 .. 2
      /\ z.content \in 0 .. 2
  BY DEF Typed, LeaseRecords
<1>2. QED
  BY <1>1 DEF Ended

\* A step of the holder of a lease on it, while it uses it for nothing else.
LEMMA HolderKeeps ==
  ASSUME CompletionConstants, CompletionInv, NEW l \in Leases, lease[l].held, ~ Using(l),
         NEW z \in LeaseRecords, lease' = [lease EXCEPT ![l] = z],
         UNCHANGED <<pool, pending, fence, rt, pc, loc, faults>>,
         Ended(l)', buffer' \in [closing : BOOLEAN, dead : BOOLEAN],
         buffer.dead => buffer'.dead,
         buffer'.dead => \A j \in Leases : ~ lease'[j].pinned
  PROVE  CompletionInv'
<1>1. Typed
  BY DEF CompletionInv
<1>2. /\ lease' \in [Leases -> LeaseRecords] /\ lease'[l] = z
      /\ \A j \in Leases : j # l => lease'[j] = lease[j]
  BY <1>1 DEF Typed, LeaseRecords
<1>3. Typed'
  BY <1>1, <1>2 DEF Typed, LeaseRecords
<1>4. Table' = Table
  BY DEF Table
<1>5. ASSUME NEW s \in Entries, pool[s].lease # None
      PROVE  pool[s].lease # l /\ lease'[pool[s].lease] = lease[pool[s].lease]
  <2>1. pool[s].lease \in Leases
    BY <1>1, <1>5 DEF Typed
  <2>2. pool[s].lease # l
    BY <1>5 DEF CompletionInv, Sound
  <2>3. QED
    BY <1>2, <2>1, <2>2
<1>6. ASSUME NEW u \in Threads PROVE Relies(u)'
  <2>1. Relies(u)
    BY DEF CompletionInv
  <2>2. pc[u] \in {"create", "publish"} => loc[u].lease # l
    BY DEF Using
  <2>3. pc[u] \in {"close", "clear"} => loc[u].entry \in Entries
    BY <2>1 DEF Relies, Working, InCall
  <2>4. QED
    BY <1>2, <1>4, <1>5, <2>1, <2>2, <2>3 DEF Relies
<1>7. ASSUME NEW s \in Entries PROVE Sound(s)'
  <2>1. Sound(s)
    BY DEF CompletionInv
  <2>2. QED
    BY <1>5, <2>1 DEF Sound
<1>8. ASSUME NEW k \in Tokens PROVE Named(k)'
  BY <1>4 DEF CompletionInv, Named
<1>9. ASSUME NEW j \in Leases PROVE Ended(j)'
  <2>1. Ended(j)
    BY DEF CompletionInv
  <2>2. QED
    BY <1>2, <2>1 DEF Ended
<1>10. \A u, v \in Threads : u # v /\ pc'[u] = "publish" /\ pc'[v] = "publish" =>
                               loc'[u].token # loc'[v].token
  BY DEF CompletionInv, Apart
<1>11. \A u \in Threads, s \in Entries :
         pc'[u] = "publish" /\ pool[s].lease # None => loc'[u].token # pool[s].token
  BY DEF CompletionInv, OneEach
<1>12. QED
  BY <1>3, <1>6, <1>7, <1>8, <1>9, <1>10, <1>11, StillKeeps

LEMMA CloseLeaseKeeps ==
  ASSUME CompletionConstants, CompletionInv, NEW t \in Threads, NEW l \in Leases, CloseLease(t, l)
  PROVE  CompletionInv'
<1>1. Typed /\ Ended(l) /\ lease[l].held /\ ~ Using(l) /\ lease[l].pinned
  BY DEF CompletionInv, CloseLease, Ended
<1>2. PICK y : y = Unpinned(l, TRUE)
  OBVIOUS
<1>3. /\ y \in LeaseRecords /\ ~ y.pinned /\ y.unpins = 1
      /\ y.initial = lease[l].initial /\ y.deferred = lease[l].deferred
      /\ y.content \in {lease[l].content, lease[l].content + 1}
      /\ l \in Writers /\ lease[l].content = lease[l].initial =>
           y.content = lease[l].content + 1 \/ y.poisoned
  BY <1>1, <1>2, UnpinnedOnce
<1>4. PICK z : z = [y EXCEPT !.held = FALSE]
  OBVIOUS
<1>5. /\ z \in LeaseRecords /\ ~ z.held /\ z.pinned = y.pinned /\ z.unpins = y.unpins
      /\ z.initial = y.initial /\ z.deferred = y.deferred /\ z.content = y.content
      /\ z.poisoned = y.poisoned
  <2>1. PICK h \in BOOLEAN, p \in BOOLEAN, u \in 0 .. 2, c \in 0 .. 2, i \in 0 .. 2, d \in -1 .. 2, q \in BOOLEAN :
          y = [held |-> h, pinned |-> p, unpins |-> u, content |-> c, initial |-> i,
               deferred |-> d, poisoned |-> q]
    BY <1>3 DEF LeaseRecords
  <2>2. z = [held |-> FALSE, pinned |-> p, unpins |-> u, content |-> c, initial |-> i,
             deferred |-> d, poisoned |-> q]
    BY ONLY <1>4, <2>1
  <2>3. QED
    BY <2>1, <2>2 DEF LeaseRecords
<1>6. lease' = [lease EXCEPT ![l] = z]
  BY <1>2, <1>4 DEF CloseLease
<1>7. lease'[l] = z /\ \A j \in Leases : j # l => lease'[j] = lease[j]
  BY <1>1, <1>6 DEF Typed
<1>8. Ended(l)'
  BY <1>1, <1>3, <1>5, <1>7, EndEnds
<1>9. /\ buffer' \in [closing : BOOLEAN, dead : BOOLEAN]
      /\ buffer'.dead <=> buffer.dead \/ (buffer.closing /\ \A j \in Leases : ~ lease'[j].pinned)
  <2>1. buffer' = Closed(buffer, lease')
    BY DEF CloseLease
  <2>2. buffer \in [closing : BOOLEAN, dead : BOOLEAN]
    BY <1>1 DEF Typed
  <2>3. QED
    BY <2>1, <2>2, BufferCloses
<1>10. buffer'.dead => \A j \in Leases : ~ lease'[j].pinned
  BY <1>3, <1>5, <1>7, <1>9 DEF CompletionInv, StaysQuiet
<1>11. UNCHANGED <<pool, pending, fence, rt, pc, loc, faults>>
  BY DEF CloseLease
<1>12. QED
  BY <1>1, <1>5, <1>6, <1>8, <1>9, <1>10, <1>11, HolderKeeps

LEMMA WriteKeeps ==
  ASSUME CompletionConstants, CompletionInv, NEW t \in Threads, NEW l \in Leases, Write(t, l)
  PROVE  CompletionInv'
<1>1. Typed /\ Ended(l) /\ lease[l].held /\ ~ Using(l) /\ lease[l].pinned /\ lease[l].content = 0
  BY DEF CompletionInv, Write, Ended
<1>2. PICK n \in 0 .. 2 : n = lease[l].content + 1
  BY <1>1
<1>3. PICK z : z = [lease[l] EXCEPT !.content = n]
  OBVIOUS
<1>4. /\ z \in LeaseRecords /\ z.held = lease[l].held /\ z.pinned = lease[l].pinned
      /\ z.unpins = lease[l].unpins /\ z.initial = lease[l].initial
      /\ z.deferred = lease[l].deferred /\ z.content = n
  <2>1. PICK h \in BOOLEAN, p \in BOOLEAN, u \in 0 .. 2, c \in 0 .. 2, i \in 0 .. 2, d \in -1 .. 2, q \in BOOLEAN :
          lease[l] = [held |-> h, pinned |-> p, unpins |-> u, content |-> c, initial |-> i,
                      deferred |-> d, poisoned |-> q]
    BY <1>1 DEF Typed
  <2>2. z = [held |-> h, pinned |-> p, unpins |-> u, content |-> n, initial |-> i,
             deferred |-> d, poisoned |-> q]
    BY ONLY <1>3, <2>1
  <2>3. QED
    BY <2>1, <2>2 DEF LeaseRecords
<1>5. lease' = [lease EXCEPT ![l] = z]
  BY <1>2, <1>3 DEF Write
<1>6. lease'[l] = z /\ \A j \in Leases : j # l => lease'[j] = lease[j]
  BY <1>1, <1>5 DEF Typed
<1>7. Ended(l)'
  <2>1. lease[l].initial \in 0 .. 2 /\ lease[l].deferred = -1 /\ lease[l].unpins = 0
    BY <1>1 DEF Typed, Ended
  <2>2. lease[l].initial <= n /\ lease[l].initial <= 1 /\ n = 1
    BY <1>1, <1>2, <2>1 DEF Ended
  <2>3. /\ lease'[l].pinned /\ lease'[l].unpins = 0 /\ lease'[l].content = 1
        /\ lease'[l].deferred = -1 /\ lease'[l].initial <= 1
    BY <1>1, <1>4, <1>6, <2>1, <2>2
  <2>4. QED
    BY <2>3 DEF Ended
<1>8. /\ UNCHANGED <<pool, pending, fence, rt, pc, loc, faults>>
      /\ buffer' = buffer /\ buffer' \in [closing : BOOLEAN, dead : BOOLEAN]
  BY <1>1 DEF Write, Typed
<1>9. buffer'.dead => \A j \in Leases : ~ lease'[j].pinned
  BY <1>1, <1>8 DEF CompletionInv, StaysQuiet
<1>10. QED
  BY <1>1, <1>4, <1>5, <1>7, <1>8, <1>9, HolderKeeps

LEMMA CloseBufferKeeps ==
  ASSUME CompletionConstants, CompletionInv, CloseBuffer
  PROVE  CompletionInv'
<1>1. Typed /\ StaysQuiet
  BY DEF CompletionInv
<1>2. PICK b \in [closing : BOOLEAN, dead : BOOLEAN] : b.dead = buffer.dead /\ buffer' = Closed(b, lease)
  <2>1. PICK c \in BOOLEAN, d \in BOOLEAN : buffer = [closing |-> c, dead |-> d]
    BY <1>1 DEF Typed
  <2>2. PICK x \in BOOLEAN : x = TRUE
    OBVIOUS
  <2>3. PICK b : b = [buffer EXCEPT !.closing = x]
    OBVIOUS
  <2>4. b = [closing |-> x, dead |-> d]
    BY ONLY <2>1, <2>3
  <2>5. buffer' = Closed(b, lease)
    BY <2>2, <2>3 DEF CloseBuffer
  <2>6. QED
    BY <2>1, <2>4, <2>5
<1>3. /\ buffer' \in [closing : BOOLEAN, dead : BOOLEAN]
      /\ buffer'.dead <=> b.dead \/ (b.closing /\ \A l \in Leases : ~ lease[l].pinned)
  BY <1>2, BufferCloses
<1>4. UNCHANGED <<pool, pending, lease, fence, rt, pc, loc, faults>> /\ Table' = Table
  BY DEF CloseBuffer, Table
<1>5. Typed'
  BY <1>1, <1>3, <1>4 DEF Typed
<1>6. (buffer.dead => buffer'.dead) /\ (buffer'.dead => \A l \in Leases : ~ lease'[l].pinned)
  BY <1>1, <1>2, <1>3, <1>4 DEF StaysQuiet
<1>7. \A u \in Threads : Relies(u)'
  BY <1>4 DEF CompletionInv, Relies
<1>8. \A s \in Entries : Sound(s)'
  BY <1>4 DEF CompletionInv, Sound
<1>9. \A k \in Tokens : Named(k)'
  BY <1>4 DEF CompletionInv, Named
<1>10. \A l \in Leases : Ended(l)'
  BY <1>4 DEF CompletionInv, Ended
<1>11. \A u, v \in Threads : u # v /\ pc'[u] = "publish" /\ pc'[v] = "publish" =>
                               loc'[u].token # loc'[v].token
  BY <1>4 DEF CompletionInv, Apart
<1>12. \A u \in Threads, s \in Entries :
         pc'[u] = "publish" /\ pool[s].lease # None => loc'[u].token # pool[s].token
  BY <1>4 DEF CompletionInv, OneEach
<1>13. QED
  BY <1>4, <1>5, <1>6, <1>7, <1>8, <1>9, <1>10, <1>11, <1>12, StillKeeps

\* A fence that completes is still the backend's.
LEMMA FenceCompletesKeeps ==
  ASSUME CompletionConstants, CompletionInv, NEW k \in Tokens, FenceCompletes(k)
  PROVE  CompletionInv'
<1>1. Typed /\ fence[k] = "pending" /\ fence' = [fence EXCEPT ![k] = "complete"]
      /\ UNCHANGED <<pool, pending, lease, rt, buffer, pc, loc, faults>>
  BY DEF CompletionInv, FenceCompletes
<1>2. /\ fence' \in [Tokens -> {"none", "pending", "complete", "released", "abandoned"}]
      /\ fence'[k] = "complete" /\ \A j \in Tokens : j # k => fence'[j] = fence[j]
  BY <1>1 DEF Typed
<1>3. Typed' /\ Table' = Table
  BY <1>1, <1>2 DEF Typed, Table
<1>4. ASSUME NEW s \in Entries, pool[s].lease # None
      PROVE  /\ pool[s].token \in Tokens
             /\ \/ fence'[pool[s].token] = fence[pool[s].token]
                \/ fence[pool[s].token] = "pending" /\ fence'[pool[s].token] = "complete"
  <2>1. pool[s].token # None
    BY <1>4 DEF CompletionInv, Sound
  <2>2. QED
    BY <1>1, <1>2, <2>1 DEF Typed
<1>5. ASSUME NEW u \in Threads PROVE Relies(u)'
  <2>1. Relies(u)
    BY DEF CompletionInv
  <2>2. pc[u] \in Working => loc[u].entry \in Entries
    BY <2>1 DEF Relies
  <2>3. {"release", "close", "clear"} \subseteq Working
    BY DEF Working, InCall
  <2>4. /\ pc[u] = "release" => pool[loc[u].entry].lease # None
        /\ pc[u] \in {"close", "clear"} => pool[loc[u].entry].lease # None
    BY <2>1 DEF Relies
  <2>5. QED
    BY <1>1, <1>3, <1>4, <2>1, <2>2, <2>3, <2>4 DEF Relies
<1>6. ASSUME NEW s \in Entries PROVE Sound(s)'
  <2>1. Sound(s)
    BY DEF CompletionInv
  <2>2. QED
    BY <1>1, <1>4, <2>1 DEF Sound
<1>7. ASSUME NEW j \in Tokens PROVE Named(j)'
  <2>1. Named(j)
    BY DEF CompletionInv
  <2>2. QED
    BY <1>1, <1>2, <1>3, <2>1 DEF Named
<1>8. \A l \in Leases : Ended(l)'
  BY <1>1 DEF CompletionInv, Ended
<1>9. (buffer.dead => buffer'.dead) /\ (buffer'.dead => \A l \in Leases : ~ lease'[l].pinned)
  BY <1>1 DEF CompletionInv, StaysQuiet
<1>10. \A u, v \in Threads : u # v /\ pc'[u] = "publish" /\ pc'[v] = "publish" =>
                               loc'[u].token # loc'[v].token
  BY <1>1 DEF CompletionInv, Apart
<1>11. \A u \in Threads, s \in Entries :
         pc'[u] = "publish" /\ pool[s].lease # None => loc'[u].token # pool[s].token
  BY <1>1 DEF CompletionInv, OneEach
<1>12. QED
  BY <1>1, <1>3, <1>5, <1>6, <1>7, <1>8, <1>9, <1>10, <1>11, StillKeeps

\* The thread that has the entry ends its lease; the others rely on other leases.
LEMMA EndDeferredKeeps ==
  ASSUME CompletionConstants, CompletionInv, NEW t \in Threads, EndDeferred(t)
  PROVE  CompletionInv'
<1>1. Typed /\ Relies(t) /\ IsLocal(loc[t]) /\ pc[t] = "close" /\ MaxFaults \in Nat
  BY LocalsTyped DEF CompletionInv, EndDeferred, CompletionConstants
<1>2. PICK e \in Entries : e = loc[t].entry
  BY <1>1 DEF Relies, Working, InCall
<1>3. /\ pool[e].lease # None /\ pool[e].occupied /\ pool[e].processing
      /\ fence[pool[e].token] = "released" /\ lease[pool[e].lease].pinned /\ Sound(e)
  BY <1>1, <1>2 DEF Relies, CompletionInv, Working, InCall
<1>4. PICK l \in Leases : l = pool[e].lease
  BY <1>1, <1>3 DEF Typed
<1>5. lease[l].pinned /\ ~ lease[l].held /\ Ended(l)
  BY <1>3, <1>4 DEF Sound, CompletionInv
<1>6. PICK ok \in BOOLEAN, local \in {loc[t], [Idle EXCEPT !.entry = loc[t].entry]} :
        End(l, ok) /\ Goto(t, "clear", local)
  BY <1>2, <1>4 DEF EndDeferred
<1>7. faults' \in 0 .. MaxFaults /\ UNCHANGED <<pool, pending, fence, rt>>
  <2>1. faults \in 0 .. MaxFaults
    BY <1>1 DEF Typed
  <2>2. faults' = faults \/ (faults < MaxFaults /\ faults' = faults + 1)
    BY DEF EndDeferred, Fault
  <2>3. faults' \in 0 .. MaxFaults
    BY <1>1, <2>1, <2>2
  <2>4. QED
    BY <2>3 DEF EndDeferred
<1>8. IsLocal(local) /\ local.entry = e /\ (local.shutdown => rt.shutting_down)
  <2>1. loc[t].shutdown => rt.shutting_down
    BY <1>1 DEF Relies
  <2>2. PICK other : other = [Idle EXCEPT !.entry = e]
    OBVIOUS
  <2>3. IsLocal(other) /\ other.entry = e /\ other.shutdown = FALSE
    BY <2>2, IdleLocal, EntrySet
  <2>4. QED
    BY <1>1, <1>2, <1>6, <2>1, <2>2, <2>3
<1>9. {"close", "clear"} \subseteq Working /\ {"close", "clear"} \subseteq InCall
      /\ "clear" \in Labels
  BY DEF Working, InCall, Labels
<1>10. /\ pc' \in [Threads -> Labels]
       /\ loc' = [u \in Threads |->
                   [entry |-> loc'[u].entry, lease |-> loc'[u].lease, token |-> loc'[u].token,
                    queue |-> loc'[u].queue, shutdown |-> loc'[u].shutdown]]
       /\ pc'[t] = "clear" /\ loc'[t] = local
       /\ \A u \in Threads : u # t => pc'[u] = pc[u] /\ loc'[u] = loc[u]
  BY <1>1, <1>6, <1>8, <1>9, Moves
<1>11. PICK z : z = Unpinned(l, ok)
  OBVIOUS
<1>12. /\ z \in LeaseRecords /\ z.held = lease[l].held /\ ~ z.pinned /\ z.unpins = 1
       /\ z.initial = lease[l].initial /\ z.deferred = lease[l].deferred
       /\ z.content \in {lease[l].content, lease[l].content + 1}
       /\ l \in Writers /\ lease[l].content = lease[l].initial =>
            z.content = lease[l].content + 1 \/ z.poisoned
  BY <1>1, <1>5, <1>11, UnpinnedOnce
<1>13. lease' = [lease EXCEPT ![l] = z] /\ buffer' = Closed(buffer, lease')
  BY <1>6, <1>11 DEF End
<1>14. /\ lease' \in [Leases -> LeaseRecords] /\ lease'[l] = z
       /\ \A j \in Leases : j # l => lease'[j] = lease[j]
  BY <1>1, <1>12, <1>13 DEF Typed, LeaseRecords
<1>15. /\ buffer' \in [closing : BOOLEAN, dead : BOOLEAN]
       /\ buffer'.dead <=> buffer.dead \/ (buffer.closing /\ \A j \in Leases : ~ lease'[j].pinned)
  <2>1. buffer \in [closing : BOOLEAN, dead : BOOLEAN]
    BY <1>1 DEF Typed
  <2>2. QED
    BY <1>13, <2>1, BufferCloses
<1>16. (buffer.dead => buffer'.dead) /\ (buffer'.dead => \A j \in Leases : ~ lease'[j].pinned)
  BY <1>12, <1>14, <1>15 DEF CompletionInv, StaysQuiet
<1>17. Typed'
  BY <1>1, <1>7, <1>10, <1>14, <1>15 DEF Typed, LeaseRecords
<1>18. Table' = Table
  BY <1>7 DEF Table
<1>19. ASSUME NEW s \in Entries, pool[s].lease # None, s # e
       PROVE  lease'[pool[s].lease] = lease[pool[s].lease]
  <2>1. pool[s].lease # l /\ pool[s].lease \in Leases
    BY <1>1, <1>3, <1>4, <1>19 DEF CompletionInv, OneEach, Typed
  <2>2. QED
    BY <1>14, <2>1
<1>20. \A u \in Threads : u # t /\ pc[u] \in Working => loc[u].entry \in Entries /\ loc[u].entry # e
  BY <1>1, <1>2, <1>9, NotTheirs DEF Mine
<1>21. ASSUME NEW u \in Threads PROVE Relies(u)'
  <2>1. CASE u = t
    BY <1>3, <1>4, <1>7, <1>8, <1>9, <1>10, <1>12, <1>14, <2>1 DEF Relies
  <2>2. CASE u # t
    <3>1. Relies(u) /\ pc'[u] = pc[u] /\ loc'[u] = loc[u]
      BY <1>10, <2>2 DEF CompletionInv
    <3>2. pc[u] \in {"create", "publish"} => loc[u].lease # l
      BY <1>5, <3>1 DEF Relies
    <3>3. {"close", "clear"} \subseteq Working
      BY DEF Working, InCall
    <3>4. QED
      BY <1>7, <1>14, <1>18, <1>19, <1>20, <2>2, <3>1, <3>2, <3>3 DEF Relies
  <2>3. QED
    BY <2>1, <2>2
<1>22. ASSUME NEW s \in Entries PROVE Sound(s)'
  <2>1. Sound(s)
    BY DEF CompletionInv
  <2>2. pool[s].processing => \E u \in Threads : pc'[u] \in Working /\ loc'[u].entry = s
    BY <1>2, <1>8, <1>9, <1>10, <2>1 DEF Sound
  <2>3. CASE s = e
    BY <1>3, <1>4, <1>5, <1>7, <1>12, <1>14, <2>1, <2>2, <2>3 DEF Sound
  <2>4. CASE s # e
    BY <1>7, <1>19, <2>1, <2>2, <2>4 DEF Sound
  <2>5. QED
    BY <2>3, <2>4
<1>23. ASSUME NEW k \in Tokens PROVE Named(k)'
  <2>1. Named(k)
    BY DEF CompletionInv
  <2>2. \A u \in Threads : pc[u] = "publish" => pc'[u] = "publish" /\ loc'[u].token = loc[u].token
    BY <1>1, <1>10
  <2>3. QED
    BY <1>7, <1>18, <2>1, <2>2 DEF Named
<1>24. ASSUME NEW j \in Leases PROVE Ended(j)'
  <2>1. CASE j = l
    BY <1>1, <1>5, <1>12, <1>14, <2>1, EndEnds
  <2>2. CASE j # l
    <3>1. Ended(j)
      BY DEF CompletionInv
    <3>2. QED
      BY <1>14, <2>2, <3>1 DEF Ended
  <2>3. QED
    BY <2>1, <2>2
<1>25. \A u, v \in Threads : u # v /\ pc'[u] = "publish" /\ pc'[v] = "publish" =>
                               loc'[u].token # loc'[v].token
  BY <1>10 DEF CompletionInv, Apart
<1>26. \A u \in Threads, s \in Entries :
         pc'[u] = "publish" /\ pool[s].lease # None => loc'[u].token # pool[s].token
  BY <1>10 DEF CompletionInv, OneEach
<1>27. \A u \in Threads : /\ pc'[u] = pc[u] \/ (pc[u] \in Working /\ pc'[u] \in Working)
                          /\ pc'[u] \in {"create", "publish"} => pc[u] \in {"create", "publish"}
                          /\ loc'[u].entry = loc[u].entry
                          /\ loc'[u].lease = loc[u].lease \/ pc[u] = "close"
  BY <1>1, <1>2, <1>8, <1>9, <1>10
<1>28. UNCHANGED <<pool, pending, rt>>
  BY <1>7
<1>29. QED
  BY <1>16, <1>17, <1>21, <1>22, <1>23, <1>24, <1>25, <1>26, <1>27, <1>28, StillKeeps

-----------------------------------------------------------------------------
(* Publish hands a lease over: from its holder to the entry, with the fence. *)

\* What becomes of the entry and of the lease.
LEMMA Published ==
  ASSUME CompletionConstants, CompletionInv, NEW t \in Threads, Publish(t)
  PROVE  \E e \in Entries, l \in Leases, x \in EntryRecords, z \in LeaseRecords :
           /\ e = loc[t].entry /\ l = loc[t].lease
           /\ pool' = [pool EXCEPT ![e] = x]
           /\ x.occupied /\ ~ x.processing /\ ~ x.proven /\ x.token = loc[t].token /\ x.lease = l
           /\ lease' = [lease EXCEPT ![l] = z]
           /\ ~ z.held /\ z.pinned = lease[l].pinned /\ z.unpins = lease[l].unpins
           /\ z.content = lease[l].content /\ z.initial = Baseline(l)
           /\ z.deferred = lease[l].content
<1>1. Typed /\ Relies(t) /\ pc[t] = "publish"
  BY DEF CompletionInv, Publish
<1>2. PICK e \in Entries : e = loc[t].entry
  BY <1>1 DEF Relies, Working, InCall
<1>3. PICK l \in Leases : l = loc[t].lease
  BY <1>1 DEF Relies
<1>4. PICK k \in Tokens : k = loc[t].token
  BY <1>1 DEF Relies, Table
<1>5. pool[e].occupied /\ ~ pool[e].proven /\ pool[e].lease = None /\ pool[e] \in EntryRecords
  BY <1>1, <1>2 DEF Relies, CompletionInv, Sound, Typed, EntryRecords, Working, InCall
<1>6. PICK f \in BOOLEAN : f = FALSE
  OBVIOUS
<1>7. PICK x \in EntryRecords :
        /\ x = [pool[e] EXCEPT !.token = k, !.lease = l, !.processing = f]
        /\ x.occupied = pool[e].occupied /\ x.processing = f /\ x.proven = pool[e].proven
        /\ x.token = k /\ x.lease = l
  <2>1. PICK o \in BOOLEAN, r \in BOOLEAN, v \in BOOLEAN, j \in Tokens \cup {None}, m \in Leases \cup {None} :
          pool[e] = [occupied |-> o, processing |-> r, proven |-> v, token |-> j, lease |-> m]
    BY <1>5 DEF EntryRecords
  <2>2. PICK y1 : y1 = [pool[e] EXCEPT !.token = k]
    OBVIOUS
  <2>3. y1 = [occupied |-> o, processing |-> r, proven |-> v, token |-> k, lease |-> m]
    BY ONLY <2>1, <2>2
  <2>4. PICK y2 : y2 = [y1 EXCEPT !.lease = l]
    OBVIOUS
  <2>5. y2 = [occupied |-> o, processing |-> r, proven |-> v, token |-> k, lease |-> l]
    BY ONLY <2>3, <2>4
  <2>6. PICK y3 : y3 = [y2 EXCEPT !.processing = f]
    OBVIOUS
  <2>7. y3 = [occupied |-> o, processing |-> f, proven |-> v, token |-> k, lease |-> l]
    BY ONLY <2>5, <2>6
  <2>8. y3 = [pool[e] EXCEPT !.token = k, !.lease = l, !.processing = f]
    BY <2>2, <2>4, <2>6
  <2>9. y3 \in EntryRecords
    BY <2>7 DEF EntryRecords
  <2>10. QED
    BY <2>1, <2>7, <2>8, <2>9
<1>8. pool' = [pool EXCEPT ![e] = x]
  BY <1>2, <1>3, <1>4, <1>6, <1>7 DEF Publish
<1>9. lease[l] \in LeaseRecords
  BY <1>1 DEF Typed, LeaseRecords
<1>10. PICK i \in 0 .. 2 : i = Baseline(l)
  BY <1>9 DEF Baseline, LeaseRecords
<1>11. PICK d \in -1 .. 2 : d = lease[l].content
  BY <1>9 DEF LeaseRecords
<1>12. PICK z \in LeaseRecords :
         /\ z = [lease[l] EXCEPT !.held = f, !.initial = i, !.deferred = d]
         /\ z.held = f /\ z.pinned = lease[l].pinned /\ z.unpins = lease[l].unpins
         /\ z.content = lease[l].content /\ z.initial = i /\ z.deferred = d
  <2>1. PICK h \in BOOLEAN, p \in BOOLEAN, u \in 0 .. 2, c \in 0 .. 2, a \in 0 .. 2, b \in -1 .. 2, q \in BOOLEAN :
          lease[l] = [held |-> h, pinned |-> p, unpins |-> u, content |-> c, initial |-> a,
                      deferred |-> b, poisoned |-> q]
    BY <1>9 DEF LeaseRecords
  <2>2. PICK y1 : y1 = [lease[l] EXCEPT !.held = f]
    OBVIOUS
  <2>3. y1 = [held |-> f, pinned |-> p, unpins |-> u, content |-> c, initial |-> a,
              deferred |-> b, poisoned |-> q]
    BY ONLY <2>1, <2>2
  <2>4. PICK y2 : y2 = [y1 EXCEPT !.initial = i]
    OBVIOUS
  <2>5. y2 = [held |-> f, pinned |-> p, unpins |-> u, content |-> c, initial |-> i,
              deferred |-> b, poisoned |-> q]
    BY ONLY <2>3, <2>4
  <2>6. PICK y3 : y3 = [y2 EXCEPT !.deferred = d]
    OBVIOUS
  <2>7. y3 = [held |-> f, pinned |-> p, unpins |-> u, content |-> c, initial |-> i,
              deferred |-> d, poisoned |-> q]
    BY ONLY <2>5, <2>6
  <2>8. y3 = [lease[l] EXCEPT !.held = f, !.initial = i, !.deferred = d]
    BY <2>2, <2>4, <2>6
  <2>9. y3 \in LeaseRecords
    BY <2>7 DEF LeaseRecords
  <2>10. QED
    BY <2>1, <2>7, <2>8, <2>9
<1>13. lease' = [lease EXCEPT ![l] = z]
  <2>1. lease' = [lease EXCEPT ![l].held = FALSE, ![l].initial = Baseline(l),
                               ![l].deferred = lease[l].content]
    BY <1>3 DEF Publish
  <2>2. lease' = [lease EXCEPT ![l] = [lease[l] EXCEPT !.held = FALSE, !.initial = Baseline(l),
                                                       !.deferred = lease[l].content]]
    BY <1>1, <2>1 DEF Typed
  <2>3. QED
    BY <1>6, <1>10, <1>11, <1>12, <2>2
<1>14. /\ x.occupied /\ ~ x.processing /\ ~ x.proven /\ x.token = loc[t].token /\ x.lease = l
       /\ ~ z.held /\ z.pinned = lease[l].pinned /\ z.unpins = lease[l].unpins
       /\ z.content = lease[l].content /\ z.initial = Baseline(l) /\ z.deferred = lease[l].content
  BY <1>4, <1>5, <1>6, <1>7, <1>10, <1>11, <1>12
<1>15. QED
  BY <1>2, <1>3, <1>8, <1>13, <1>14

LEMMA PublishKeeps ==
  ASSUME CompletionConstants, CompletionInv, NEW t \in Threads, Publish(t)
  PROVE  CompletionInv'
<1>1. Typed /\ Relies(t) /\ IsLocal(loc[t]) /\ pc[t] = "publish"
  BY LocalsTyped DEF CompletionInv, Publish
<1>2. PICK e \in Entries, l \in Leases, x \in EntryRecords, z \in LeaseRecords :
           /\ e = loc[t].entry /\ l = loc[t].lease
           /\ pool' = [pool EXCEPT ![e] = x]
           /\ x.occupied /\ ~ x.processing /\ ~ x.proven /\ x.token = loc[t].token /\ x.lease = l
           /\ lease' = [lease EXCEPT ![l] = z]
           /\ ~ z.held /\ z.pinned = lease[l].pinned /\ z.unpins = lease[l].unpins
           /\ z.content = lease[l].content /\ z.initial = Baseline(l)
           /\ z.deferred = lease[l].content
  BY Published
<1>3. PICK k : k = loc[t].token
  OBVIOUS
<1>4. /\ pool[e].occupied /\ pool[e].processing /\ pool[e].lease = None /\ pool[e].token = None
      /\ lease[l].held /\ k \in Table /\ k \in Tokens /\ k # None /\ l # None
  <2>1. pool[e].occupied /\ pool[e].processing /\ pool[e].lease = None /\ lease[l].held /\ k \in Table
    BY <1>1, <1>2, <1>3 DEF Relies, Working, InCall
  <2>2. Sound(e)
    BY DEF CompletionInv
  <2>3. QED
    BY <2>1, <2>2, NoneIsNoToken DEF Sound, Table
<1>5. /\ lease[l].pinned /\ lease[l].unpins = 0 /\ lease[l].content \in 0 .. 1
      /\ lease[l].initial \in 0 .. 1 /\ lease[l].initial <= lease[l].content
  <2>1. Ended(l) /\ lease[l].content \in 0 .. 2 /\ lease[l].initial \in 0 .. 2
    BY <1>1 DEF CompletionInv, Typed
  <2>2. QED
    BY <1>4, <2>1 DEF Ended
<1>6. /\ UNCHANGED <<fence, rt, buffer, faults>> /\ Goto(t, "leave", Idle) /\ pending' = pending + 1
      /\ Table' = Table
  BY DEF Publish, PendingAfterPublish, Table
<1>7. /\ "publish" \in Working /\ "publish" \in InCall /\ "leave" \in InCall /\ "leave" \in Labels
      /\ "leave" \notin Working
  BY DEF Working, InCall, Labels
<1>8. /\ pc' \in [Threads -> Labels]
      /\ loc' = [u \in Threads |->
                  [entry |-> loc'[u].entry, lease |-> loc'[u].lease, token |-> loc'[u].token,
                   queue |-> loc'[u].queue, shutdown |-> loc'[u].shutdown]]
      /\ pc'[t] = "leave" /\ loc'[t] = Idle
      /\ \A u \in Threads : u # t => pc'[u] = pc[u] /\ loc'[u] = loc[u]
  BY <1>1, <1>6, <1>7, IdleLocal, Moves
<1>9. /\ pool' \in [Entries -> EntryRecords] /\ pool'[e] = x
      /\ \A s \in Entries : s # e => pool'[s] = pool[s]
  BY <1>1, <1>2 DEF Typed, EntryRecords
<1>10. /\ lease' \in [Leases -> LeaseRecords] /\ lease'[l] = z
       /\ \A j \in Leases : j # l => lease'[j] = lease[j]
  BY <1>1, <1>2 DEF Typed, LeaseRecords
<1>11. Typed'
  <2>1. pending' \in Nat
    BY <1>1, <1>6 DEF Typed
  <2>2. QED
    BY <1>1, <1>6, <1>8, <1>9, <1>10, <2>1 DEF Typed, EntryRecords, LeaseRecords
<1>12. ASSUME NEW s \in Entries, pool[s].lease # None
       PROVE  /\ s # e /\ pool[s].lease # l /\ pool[s].token # k
              /\ lease'[pool[s].lease] = lease[pool[s].lease]
  <2>1. Sound(s) /\ pool[s].lease \in Leases /\ s # e
    BY <1>1, <1>4, <1>12 DEF CompletionInv, Typed
  <2>2. pool[s].lease # l
    BY <1>4, <1>12, <2>1 DEF Sound
  <2>3. pool[s].token # k
    BY <1>1, <1>3, <1>12 DEF CompletionInv, OneEach
  <2>4. QED
    BY <1>10, <2>1, <2>2, <2>3
<1>13. \A u \in Threads : u # t /\ pc[u] \in Working => loc[u].entry \in Entries /\ loc[u].entry # e
  BY <1>1, <1>2, <1>7, NotTheirs DEF Mine
<1>14. \A u \in Threads : u # t => /\ pc[u] \in {"create", "publish"} => loc[u].lease # l
                                   /\ pc[u] = "publish" => loc[u].token # k
  BY <1>1, <1>2, <1>3 DEF CompletionInv, Apart
<1>15. ASSUME NEW u \in Threads PROVE Relies(u)'
  <2>1. CASE u = t
    BY <1>7, <1>8, <2>1, IdleLocal DEF Relies
  <2>2. CASE u # t
    <3>1. Relies(u) /\ pc'[u] = pc[u] /\ loc'[u] = loc[u]
      BY <1>8, <2>2 DEF CompletionInv
    <3>2. pc[u] \in Working => pool'[loc[u].entry] = pool[loc[u].entry]
      BY <1>9, <1>13, <2>2
    <3>3. {"create", "publish", "query", "release", "close", "clear"} \subseteq Working
      BY DEF Working, InCall
    <3>4. pc[u] \in {"create", "publish"} => lease'[loc[u].lease] = lease[loc[u].lease]
      BY <1>10, <1>14, <2>2, <3>1 DEF Relies
    <3>5. pc[u] \in {"close", "clear"} =>
            lease'[pool[loc[u].entry].lease] = lease[pool[loc[u].entry].lease]
      BY <1>12, <1>13, <2>2, <3>1, <3>3 DEF Relies
    <3>6. QED
      BY <1>6, <3>1, <3>2, <3>3, <3>4, <3>5 DEF Relies
  <2>3. QED
    BY <2>1, <2>2
<1>16. ASSUME NEW u \in Threads, NEW v \in Threads, u # v PROVE Apart(u, v)'
  <2>1. Apart(u, v)
    BY <1>16 DEF CompletionInv
  <2>2. QED
    BY <1>7, <1>8, <2>1 DEF Apart
<1>17. ASSUME NEW s \in Entries PROVE Sound(s)'
  <2>1. Sound(s)
    BY DEF CompletionInv
  <2>2. CASE s = e
    <3>1. fence[k] \in {"pending", "complete"} /\ z.deferred # -1 /\ z.pinned
      BY <1>2, <1>4, <1>5 DEF Table
    <3>2. QED
      BY <1>2, <1>3, <1>4, <1>6, <1>9, <1>10, <2>2, <3>1 DEF Sound
  <2>3. CASE s # e
    <3>1. pool[s].processing => \E u \in Threads : pc'[u] \in Working /\ loc'[u].entry = s
      BY <1>2, <1>8, <2>1, <2>3 DEF Sound
    <3>2. QED
      BY <1>6, <1>9, <1>12, <2>1, <2>3, <3>1 DEF Sound
  <2>4. QED
    BY <2>2, <2>3
<1>18. OneEach'
  <2>1. ASSUME NEW s \in Entries, NEW r \in Entries, s # r, pool'[s].lease # None, pool'[r].lease # None
        PROVE  pool'[s].lease # pool'[r].lease /\ pool'[s].token # pool'[r].token
    <3>1. CASE s # e /\ r # e
      BY <1>9, <2>1, <3>1 DEF CompletionInv, OneEach
    <3>2. CASE s = e
      BY <1>2, <1>3, <1>9, <1>12, <2>1, <3>2
    <3>3. CASE r = e
      BY <1>2, <1>3, <1>9, <1>12, <2>1, <3>3
    <3>4. QED
      BY <3>1, <3>2, <3>3
  <2>2. ASSUME NEW u \in Threads, NEW s \in Entries, pc'[u] = "publish", pool'[s].lease # None
        PROVE  loc'[u].token # pool'[s].token
    <3>1. u # t /\ pc[u] = "publish" /\ loc'[u] = loc[u]
      BY <1>8, <2>2
    <3>2. CASE s = e
      BY <1>2, <1>3, <1>9, <1>14, <3>1, <3>2
    <3>3. CASE s # e
      BY <1>9, <2>2, <3>1, <3>3 DEF CompletionInv, OneEach
    <3>4. QED
      BY <3>2, <3>3
  <2>3. QED
    BY <2>1, <2>2 DEF OneEach
<1>19. ASSUME NEW j \in Tokens PROVE Named(j)'
  <2>1. Named(j)
    BY DEF CompletionInv
  <2>2. CASE j = k
    BY <1>2, <1>3, <1>6, <1>9, <2>1, <2>2 DEF Named
  <2>3. CASE j # k
    <3>1. ASSUME NEW s \in Entries, pool[s].token = j PROVE pool'[s].token = j
      BY <1>4, <1>9, <3>1, NoneIsNoToken
    <3>2. ASSUME NEW u \in Threads, pc[u] = "publish", loc[u].token = j
          PROVE  pc'[u] = "publish" /\ loc'[u].token = j
      BY <1>3, <1>8, <2>3, <3>2
    <3>3. QED
      BY <1>6, <2>1, <3>1, <3>2 DEF Named
  <2>4. QED
    BY <2>2, <2>3
<1>20. ASSUME NEW j \in Leases PROVE Ended(j)'
  <2>1. CASE j = l
    <3>1. /\ ~ lease'[l].held /\ lease'[l].pinned /\ lease'[l].unpins = 0
          /\ lease'[l].content = lease[l].content /\ lease'[l].deferred = lease[l].content
          /\ lease'[l].initial = IF l \in Writers THEN lease[l].content ELSE lease[l].initial
      BY <1>2, <1>5, <1>10 DEF Baseline
    <3>2. QED
      BY <1>5, <2>1, <3>1 DEF Ended
  <2>2. CASE j # l
    <3>1. Ended(j)
      BY DEF CompletionInv
    <3>2. QED
      BY <1>10, <2>2, <3>1 DEF Ended
  <2>3. QED
    BY <2>1, <2>2
<1>21. StaysQuiet'
  <2>1. ~ buffer.dead
    BY <1>5 DEF CompletionInv, StaysQuiet
  <2>2. ~ rt.complete /\ \A u \in Threads : pc[u] # "finish"
    BY <1>4 DEF CompletionInv, StaysQuiet
  <2>3. \A u \in Threads : pc'[u] # "finish"
    BY <1>8, <2>2
  <2>4. QED
    BY <1>6, <2>1, <2>2, <2>3 DEF StaysQuiet
<1>22. Counted'
  <2>1. Cardinality(Calls') = Cardinality(Calls) + (IF "leave" \in InCall THEN 1 ELSE 0)
                                                 - (IF pc[t] \in InCall THEN 1 ELSE 0)
    BY <1>1, <1>6, <1>7, CallsCounted DEF Goto
  <2>2. Cardinality(Answering') =
          Cardinality(Answering) + (IF x.lease # None THEN 1 ELSE 0)
                                 - (IF pool[e].lease # None THEN 1 ELSE 0)
    BY <1>1, <1>2, AnsweringCounted
  <2>3. Cardinality(Calls) \in Nat /\ Cardinality(Answering) \in Nat
    BY FiniteCounts DEF CompletionConstants
  <2>4. rt.in_flight = Cardinality(Calls) /\ pending = Cardinality(Answering)
    BY DEF CompletionInv, Counted, Calls, Answering
  <2>5. rt'.in_flight = Cardinality(Calls')
    BY <1>1, <1>6, <1>7, <2>1, <2>3, <2>4
  <2>6. pending' = Cardinality(Answering')
    BY <1>2, <1>4, <1>6, <2>2, <2>3, <2>4
  <2>7. QED
    BY <2>5, <2>6 DEF Counted, Calls, Answering
<1>23. QED
  BY <1>11, <1>15, <1>16, <1>17, <1>18, <1>19, <1>20, <1>21, <1>22 DEF CompletionInv

-----------------------------------------------------------------------------
(* The invariant holds at first, and every step keeps it.                  *)

LEMMA InitCompletion ==
  ASSUME CompletionConstants, Init
  PROVE  CompletionInv
<1>1. PICK first \in LeaseRecords :
        /\ lease = [l \in Leases |-> first]
        /\ first.held /\ first.pinned /\ first.unpins = 0 /\ first.content = 0
        /\ first.initial = 0 /\ first.deferred = -1 /\ ~ first.poisoned
  <2>1. PICK z : z = [held |-> TRUE, pinned |-> TRUE, unpins |-> 0, content |-> 0,
                      initial |-> 0, deferred |-> -1, poisoned |-> FALSE]
    OBVIOUS
  <2>2. z \in LeaseRecords
    BY <2>1 DEF LeaseRecords
  <2>3. lease = [l \in Leases |-> z]
    BY <2>1 DEF Init
  <2>4. QED
    BY <2>1, <2>2, <2>3
<1>2. /\ \A s \in Entries : pool[s] = EmptyEntry /\ pool[s] \in EntryRecords
      /\ pool \in [Entries -> EntryRecords]
  BY EntriesTyped DEF Init
<1>3. /\ rt \in RuntimeRecords /\ ~ rt.shutting_down /\ ~ rt.complete /\ rt.in_flight = 0
      /\ buffer \in [closing : BOOLEAN, dead : BOOLEAN] /\ ~ buffer.dead
  BY DEF Init, RuntimeRecords
<1>4. \A t \in Threads : pc[t] = "idle" /\ loc[t] = Idle
  BY DEF Init
<1>5. "idle" \in Labels /\ "idle" \notin InCall /\ "idle" \notin Working
  BY DEF Labels, InCall, Working
<1>6. Typed
  <2>1. pc \in [Threads -> Labels] /\ pending \in Nat /\ faults \in 0 .. MaxFaults
    BY <1>5 DEF Init, CompletionConstants
  <2>2. fence \in [Tokens -> {"none", "pending", "complete", "released", "abandoned"}]
    BY DEF Init
  <2>3. loc = [t \in Threads |->
                [entry |-> loc[t].entry, lease |-> loc[t].lease, token |-> loc[t].token,
                 queue |-> loc[t].queue, shutdown |-> loc[t].shutdown]]
    BY IdleLocal DEF Init, IsLocal
  <2>4. QED
    BY <1>1, <1>2, <1>3, <2>1, <2>2, <2>3 DEF Typed, LeaseRecords, EntryRecords, RuntimeRecords
<1>7. ASSUME NEW t \in Threads PROVE Relies(t)
  BY <1>4, <1>5, IdleLocal DEF Relies
<1>8. \A t, u \in Threads : t # u => Apart(t, u)
  BY <1>4, <1>5 DEF Apart
<1>9. \A s \in Entries : Sound(s)
  BY <1>2, EntriesTyped DEF Sound
<1>10. OneEach
  BY <1>2, <1>4, EntriesTyped DEF OneEach
<1>11. \A k \in Tokens : Named(k)
  BY DEF Init, Named, Table
<1>12. \A l \in Leases : Ended(l)
  BY <1>1 DEF Ended
<1>13. StaysQuiet
  BY <1>3, <1>4 DEF StaysQuiet
<1>14. Counted
  <2>1. Calls = {} /\ Answering = {}
    BY <1>2, <1>4, <1>5, EntriesTyped DEF Calls, Answering
  <2>2. pending = 0 /\ Cardinality({}) = 0
    BY FS_EmptySet DEF Init
  <2>3. QED
    BY <1>3, <2>1, <2>2 DEF Counted, Calls, Answering
<1>15. QED
  BY <1>6, <1>7, <1>8, <1>9, <1>10, <1>11, <1>12, <1>13, <1>14 DEF CompletionInv

LEMMA NextCompletion ==
  ASSUME CompletionConstants, CompletionInv, [Next]_vars
  PROVE  CompletionInv'
<1>1. ASSUME NEW t \in Threads, Start(t) PROVE CompletionInv'
  BY <1>1, DeferKeeps, CloseLeaseKeeps, WriteKeeps, PollReadyKeeps, ShutdownKeeps DEF Start
<1>2. ASSUME NEW t \in Threads, Step(t) PROVE CompletionInv'
  BY <1>2, CreateCompletionKeeps, CreateFailsKeeps, PublishKeeps, LeaveKeeps, TakeKeeps, QueryKeeps,
     QueryFailsKeeps, ReleaseCompletionKeeps, ReleaseFailsKeeps, EndDeferredKeeps, ClearKeeps,
     DrainKeeps, CheckShutdownKeeps, FinishKeeps DEF Step
<1>3. CASE CloseBuffer
  BY <1>3, CloseBufferKeeps
<1>4. ASSUME NEW k \in Tokens, FenceCompletes(k) PROVE CompletionInv'
  BY <1>4, FenceCompletesKeeps
<1>5. CASE UNCHANGED vars
  <2>1. UNCHANGED <<pool, pending, lease, fence, rt, buffer, pc, loc, faults>> /\ Table' = Table
    BY <1>5 DEF vars, Table
  <2>2. Typed' /\ OneEach' /\ StaysQuiet' /\ Counted'
    BY <2>1 DEF CompletionInv, Typed, OneEach, StaysQuiet, Counted
  <2>3. \A t \in Threads : Relies(t)'
    BY <2>1 DEF CompletionInv, Relies
  <2>4. \A t, u \in Threads : t # u => Apart(t, u)'
    BY <2>1 DEF CompletionInv, Apart
  <2>5. \A s \in Entries : Sound(s)'
    BY <2>1 DEF CompletionInv, Sound
  <2>6. \A k \in Tokens : Named(k)'
    BY <2>1 DEF CompletionInv, Named
  <2>7. \A l \in Leases : Ended(l)'
    BY <2>1 DEF CompletionInv, Ended
  <2>8. QED
    BY <2>2, <2>3, <2>4, <2>5, <2>6, <2>7 DEF CompletionInv
<1>6. QED
  BY <1>1, <1>2, <1>3, <1>4, <1>5 DEF Next

\* Whatever the threads, the holders of leases, the backend and a shutdown do, the invariant holds.
THEOREM CompletionInvariance ==
  ASSUME CompletionConstants
  PROVE  Spec => []CompletionInv
<1>1. Init => CompletionInv
  BY InitCompletion
<1>2. CompletionInv /\ [Next]_vars => CompletionInv'
  BY NextCompletion
<1>3. QED
  BY <1>1, <1>2, PTL DEF Spec

-----------------------------------------------------------------------------
(* What follows from it.                                                   *)

\* A deferred lease keeps its chunk pinned until its fence is complete and released
\* (poll_completion).
THEOREM DeferredStaysPinned ==
  ASSUME CompletionConstants
  PROVE  Spec => []PinnedUntilComplete
<1>1. CompletionInv => PinnedUntilComplete
  BY DEF CompletionInv, Named, Sound, PinnedUntilComplete
<1>2. QED
  BY <1>1, CompletionInvariance, PTL

\* Every lease is ended once, by its holder or by one of the pollers (Lease::close).
THEOREM LeasesEndOnce ==
  ASSUME CompletionConstants
  PROVE  Spec => []EndedOnce
<1>1. ASSUME CompletionInv, NEW l \in Leases
      PROVE  /\ lease[l].unpins <= 1 /\ (lease[l].pinned <=> lease[l].unpins = 0)
             /\ ~ (lease[l].held /\ Deferred(l))
  <2>1. Ended(l) /\ \A s \in Entries : Sound(s)
    BY <1>1 DEF CompletionInv
  <2>2. lease[l].unpins <= 1 /\ (lease[l].pinned <=> lease[l].unpins = 0)
    BY <2>1 DEF Ended
  <2>3. ASSUME NEW s \in Entries, pool[s].lease = l PROVE ~ lease[l].held
    BY <1>1, <2>1, <2>3, NoneIsNoToken DEF Sound
  <2>4. QED
    BY <2>2, <2>3 DEF Deferred
<1>2. CompletionInv => EndedOnce
  BY <1>1 DEF EndedOnce
<1>3. QED
  BY <1>2, CompletionInvariance, PTL

\* The pending count is that of the deferred leases, and an entry that is being processed has one
\* thread at work on it (poll_completion).
THEOREM PoolStaysExact ==
  ASSUME CompletionConstants
  PROVE  Spec => []PoolExact
<1>1. ASSUME CompletionInv, NEW s \in Entries, pool[s].processing
      PROVE  Cardinality({t \in Threads : loc[t].entry = s /\ pc[t] # "leave"}) = 1
  <2>1. PICK o \in Threads : pc[o] \in Working /\ loc[o].entry = s
    BY <1>1 DEF CompletionInv, Sound
  <2>2. ASSUME NEW t \in Threads, loc[t].entry = s, pc[t] # "leave" PROVE t = o
    <3>1. s # 0
      BY DEF Entries
    <3>2. pc[t] \in InCall
      BY <1>1, <2>2, <3>1 DEF CompletionInv, Relies
    <3>3. pc[t] \in Working
      BY <2>2, <3>2 DEF Working
    <3>4. QED
      BY <1>1, <2>1, <2>2, <3>3 DEF CompletionInv, Apart
  <2>3. pc[o] # "leave"
    BY <2>1 DEF Working
  <2>4. {t \in Threads : loc[t].entry = s /\ pc[t] # "leave"} = {o}
    BY <2>1, <2>2, <2>3
  <2>5. QED
    BY <2>4, FS_Singleton
<1>2. CompletionInv => PoolExact
  BY <1>1 DEF CompletionInv, Counted, PoolExact
<1>3. QED
  BY <1>2, CompletionInvariance, PTL

\* A fence that is not released has an entry or a thread that names it (Lease::defer).
THEOREM NoFenceLost ==
  ASSUME CompletionConstants
  PROVE  Spec => []FencesKnown
<1>1. CompletionInv => FencesKnown
  BY DEF CompletionInv, Named, FencesKnown, Table
<1>2. QED
  BY <1>1, CompletionInvariance, PTL

\* The content of a chunk written through a deferred lease has moved on when the lease has ended,
\* or the chunk is poisoned (Lease::defer).
THEOREM WritesRefresh ==
  ASSUME CompletionConstants
  PROVE  Spec => []DeferredWritesRefresh
<1>1. ASSUME CompletionInv, NEW l \in Writers, lease[l].unpins > 0, lease[l].deferred # -1
      PROVE  lease[l].content > lease[l].deferred \/ lease[l].poisoned
  <2>1. l \in Leases
    BY DEF CompletionConstants
  <2>2. Ended(l)
    BY <1>1, <2>1 DEF CompletionInv
  <2>3. ~ lease[l].pinned
    BY <1>1, <2>2 DEF Ended
  <2>4. QED
    BY <1>1, <2>2, <2>3 DEF Ended
<1>2. CompletionInv => DeferredWritesRefresh
  BY <1>1 DEF DeferredWritesRefresh
<1>3. QED
  BY <1>2, CompletionInvariance, PTL

\* A completed shutdown leaves no deferred lease, no pin and no fence behind (Runtime::shutdown).
THEOREM ShutdownLeavesNothing ==
  ASSUME CompletionConstants
  PROVE  Spec => []ShutdownIsClean
<1>1. ASSUME CompletionInv, rt.complete
      PROVE  /\ \A s \in Entries : ~ pool[s].occupied
             /\ \A l \in Leases : ~ lease[l].pinned
             /\ \A k \in Tokens : fence[k] \in {"none", "released"}
  <2>1. \A s \in Entries : ~ pool[s].occupied /\ pool[s] = EmptyEntry
    BY <1>1 DEF CompletionInv, StaysQuiet, Sound
  <2>2. \A l \in Leases : ~ lease[l].pinned
    BY <1>1 DEF CompletionInv, StaysQuiet
  <2>3. \A t \in Threads : pc[t] # "publish"
    BY <1>1, <2>1 DEF CompletionInv, Relies, Working, InCall
  <2>4. ASSUME NEW k \in Tokens PROVE k \notin Table /\ fence[k] # "abandoned"
    <3>1. Named(k) /\ k # None
      BY <1>1, NoneIsNoToken DEF CompletionInv
    <3>2. QED
      BY <2>1, <2>3, <3>1, EntriesTyped DEF Named
  <2>5. \A k \in Tokens : fence[k] \in {"none", "pending", "complete", "released", "abandoned"}
    BY <1>1 DEF CompletionInv, Typed
  <2>6. \A k \in Tokens : fence[k] \in {"none", "released"}
    BY <2>4, <2>5 DEF Table
  <2>7. QED
    BY <2>1, <2>2, <2>6
<1>2. CompletionInv => ShutdownIsClean
  BY <1>1 DEF ShutdownIsClean
<1>3. QED
  BY <1>2, CompletionInvariance, PTL

-----------------------------------------------------------------------------
(* The table of fences of the backend is never full when one is asked for. *)

\* The entry that stands for a fence: the one that names it, or its creator's.
StandsFor(s, k) ==
  \/ pool[s].token = k
  \/ \E u \in Threads : pc[u] = "publish" /\ loc[u].token = k /\ loc[u].entry = s

\* Every fence has one, and it is not that of a thread that has not asked yet.
LEMMA FenceHasEntry ==
  ASSUME CompletionConstants, CompletionInv, NEW t \in Threads, pc[t] = "create", NEW k \in Table
  PROVE  \E s \in Entries \ {loc[t].entry} : StandsFor(s, k)
<1>1. k \in Tokens /\ Named(k) /\ k # None
  BY NoneIsNoToken DEF Table, CompletionInv
<1>2. loc[t].entry \in Entries /\ pool[loc[t].entry].lease = None /\ pool[loc[t].entry].token = None
  BY DEF CompletionInv, Relies, Sound, Working, InCall
<1>3. ASSUME NEW s \in Entries, pool[s].token = k
      PROVE  s # loc[t].entry /\ StandsFor(s, k)
  BY <1>1, <1>2, <1>3 DEF StandsFor
<1>4. ASSUME NEW u \in Threads, pc[u] = "publish", loc[u].token = k
      PROVE  loc[u].entry \in Entries \ {loc[t].entry} /\ StandsFor(loc[u].entry, k)
  <2>1. {"create", "publish"} \subseteq Working
    BY DEF Working, InCall
  <2>2. loc[u].entry \in Entries /\ u # t
    BY <1>4, <2>1 DEF CompletionInv, Relies
  <2>3. loc[u].entry # loc[t].entry
    BY <1>4, <2>1, <2>2 DEF CompletionInv, Apart
  <2>4. QED
    BY <1>4, <2>2, <2>3 DEF StandsFor
<1>5. QED
  BY <1>1, <1>3, <1>4 DEF Named

\* No entry stands for two.
LEMMA EntryHasOneFence ==
  ASSUME CompletionConstants, CompletionInv, NEW s \in Entries, NEW k \in Table, NEW j \in Table,
         StandsFor(s, k), StandsFor(s, j)
  PROVE  k = j
<1>1. k # None /\ j # None
  BY NoneIsNoToken
<1>2. ASSUME NEW u \in Threads, pc[u] = "publish", loc[u].entry = s PROVE pool[s].token = None
  BY <1>2 DEF CompletionInv, Relies, Sound
<1>3. ASSUME NEW u \in Threads, NEW v \in Threads, pc[u] = "publish", pc[v] = "publish",
             loc[u].entry = s, loc[v].entry = s
      PROVE  u = v
  BY <1>3 DEF CompletionInv, Apart, Working, InCall
<1>4. QED
  BY <1>1, <1>2, <1>3 DEF StandsFor

\* The runtime never asks for a fence the table has no room for, nor about one that is not there
\* (CudaVmmBackend::create_completion, query_completion).
THEOREM FencesAlwaysServed ==
  ASSUME CompletionConstants
  PROVE  Spec => []FencesServed
<1>1. ASSUME CompletionInv, NEW t \in Threads, pc[t] = "create"
      PROVE  Cardinality(Table) < PoolSize
  <2>1. PICK rest : rest = Entries \ {loc[t].entry}
    OBVIOUS
  <2>2. IsFiniteSet(rest) /\ Cardinality(rest) = PoolSize - 1 /\ PoolSize \in Nat
    <3>1. PoolSize \in Nat /\ IsFiniteSet(Entries) /\ Cardinality(Entries) = PoolSize
      BY FS_Interval DEF CompletionConstants, Entries
    <3>2. loc[t].entry \in Entries
      BY <1>1 DEF CompletionInv, Relies, Working, InCall
    <3>3. QED
      BY <2>1, <3>1, <3>2, FS_RemoveElement
  <2>3. PICK f : f = [k \in Table |-> CHOOSE s \in rest : StandsFor(s, k)]
    OBVIOUS
  <2>4. ASSUME NEW k \in Table PROVE f[k] \in rest /\ StandsFor(f[k], k)
    BY <1>1, <2>1, <2>3, FenceHasEntry
  <2>5. ASSUME NEW k \in Table, NEW j \in Table, f[k] = f[j] PROVE k = j
    BY <1>1, <2>1, <2>4, <2>5, EntryHasOneFence
  <2>6. f \in Injection(Table, rest)
    BY <2>3, <2>4, <2>5 DEF Injection, IsInjective
  <2>7. IsFiniteSet(Table) /\ Cardinality(Table) <= Cardinality(rest)
    BY <2>2, <2>6, FS_Injection
  <2>8. Cardinality(Table) \in Nat
    BY <2>7, FS_CardinalityType
  <2>9. QED
    BY <2>2, <2>7, <2>8
<1>2. ASSUME CompletionInv, NEW t \in Threads, pc[t] \in {"query", "release"}
      PROVE  loc[t].token \in Table
  BY <1>2 DEF CompletionInv, Relies
<1>3. CompletionInv => FencesServed
  BY <1>1, <1>2 DEF FencesServed
<1>4. QED
  BY <1>3, CompletionInvariance, PTL

-----------------------------------------------------------------------------
\* The counters stay within the number of threads and the size of the pool.
THEOREM CompletionTypes ==
  ASSUME CompletionConstants
  PROVE  Spec => []TypeOK
<1>1. ASSUME CompletionInv PROVE TypeOK
  <2>1. pending = Cardinality(Answering) /\ rt.in_flight = Cardinality(Calls)
    BY <1>1 DEF CompletionInv, Counted, Answering, Calls
  <2>2. pending \in 0 .. PoolSize
    BY <2>1, FiniteCounts
  <2>3. rt.in_flight \in 0 .. Cardinality(Threads)
    <3>1. Cardinality(Threads) \in Nat
      BY FS_CardinalityType DEF CompletionConstants
    <3>2. QED
      BY <2>1, <3>1, FiniteCounts
  <2>4. QED
    BY <1>1, <2>2, <2>3 DEF CompletionInv, Typed, TypeOK
<1>2. QED
  BY <1>1, CompletionInvariance, PTL

\* All of it together: what the run of the pool checks on a small instance holds for every number
\* of threads, leases and fences and every size of the pool.
THEOREM CompletionsAreSafe ==
  ASSUME CompletionConstants
  PROVE  Spec => []CompletionsSafe
<1>1. /\ CompletionInv /\ TypeOK /\ PinnedUntilComplete /\ EndedOnce /\ PoolExact
      /\ FencesKnown /\ FencesServed /\ DeferredWritesRefresh /\ ShutdownIsClean
      => CompletionsSafe
  BY DEF CompletionsSafe
<1>2. QED
  BY <1>1, CompletionInvariance, CompletionTypes, DeferredStaysPinned, LeasesEndOnce, PoolStaysExact, NoFenceLost,
     FencesAlwaysServed, WritesRefresh, ShutdownLeavesNothing, PTL
=============================================================================
