------------------------------ MODULE PolicyOps ------------------------------
(***************************************************************************)
(* The arithmetic of the residency policy: what it remembers of a chunk,   *)
(* how hot the chunk is, how pressed the GPU tier is, whether a chunk is a  *)
(* candidate and which of two candidates goes first.  Every operator is a  *)
(* pure function of its arguments, as in policy.cpp.                       *)
(***************************************************************************)
EXTENDS Integers, Sequences, FiniteSetsExt

CONSTANTS
  MaxWord,      \* the largest 64-bit word
  Basis,        \* 10000, the basis points of a whole
  Block,        \* 4096, the bytes of a cost block
  FrequencyCap  \* 16, where recent_frequency and its shift stop

ASSUME PolicyAssumption ==
  /\ {Basis, Block, FrequencyCap, MaxWord} \subseteq Nat \ {0}
  /\ Basis * Basis + Basis <= MaxWord

\* A default-constructed identity, and the content tag of no content.
None == <<>>
NoContent == -1

\* enum Temperature, Pressure: the code compares them as numbers.
Hot == 0
Warm == 1
Cold == 2
Normal == 0
Soft == 1
Hard == 2
Critical == 3

States == {"gpu_raw", "gpu_compressed", "host_raw", "host_compressed"}
OnGpu(state) == state \in {"gpu_raw", "gpu_compressed"}
IsRaw(state) == state \in {"gpu_raw", "host_raw"}

\* Mutant: the sum leaves the word.
SaturatingAdd_Unbounded(a, b) == a + b

SaturatingAdd(a, b) == Min({a + b, MaxWord})

\* validate
ValidTuning(t) ==
  /\ t.strategy \in {"adaptive", "oldest_unpinned"}
  /\ t.minimum_savings_basis_points <= Basis
  /\ t.hot_epochs < t.warm_epochs
  /\ t.frequency_window > 0
  /\ t.hot_frequency \in 1 .. FrequencyCap
  /\ t.reevaluate_epochs > 0
  /\ t.thrash_window > 0
  /\ t.thrash_transition_count >= 2
  /\ t.maximum_candidates > 0
  /\ t.maximum_transitions > 0

Age(now, then) == IF now >= then THEN now - then ELSE 0

\* Mutant: an idle window adds to the frequency.
Frequency_Grows(m, now, t) ==
  m.recent_frequency + Age(now, m.last_access_epoch) \div t.frequency_window

\* recent_frequency halves with every window that passes without an access.
Frequency(m, now, t) ==
  LET windows == Age(now, m.last_access_epoch) \div t.frequency_window
  IN IF windows >= FrequencyCap THEN 0 ELSE m.recent_frequency \div 2^windows

Heat(m, now, t) ==
  LET elapsed == Age(now, m.last_access_epoch)
  IN IF \/ elapsed <= t.hot_epochs
        \/ elapsed <= t.warm_epochs /\ Frequency(m, now, t) >= t.hot_frequency
       THEN Hot
       ELSE IF elapsed <= t.warm_epochs THEN Warm ELSE Cold

\* Mutant: the migration reserve is not set aside.
PressureOf_WholeLimit(charged, soft, hard, reserve, required) ==
  LET high == hard - (hard - Min({soft, hard})) \div 4
  IN IF charged >= hard \/ required > hard - charged THEN Critical
     ELSE IF charged >= high THEN Hard
     ELSE IF charged > Min({soft, hard}) THEN Soft ELSE Normal

PressureOf(charged, soft, hard, reserve, required) ==
  LET normal    == hard - reserve
      softValue == Min({soft, normal})
      high      == normal - (normal - softValue) \div 4
  IN IF \/ reserve > hard
        \/ charged >= hard
        \/ charged > normal
        \/ required > normal - charged
       THEN Critical
       ELSE IF charged >= high THEN Hard
       ELSE IF charged > softValue THEN Soft ELSE Normal

\* Unsigned arithmetic wraps around.
Wrap(n) == n % (MaxWord + 1)

\* Mutant: the share to save is computed in one product.
RatioSaving_OneProduct(raw, points) == (Wrap(raw * points) + Basis - 1) \div Basis

\* The share of raw to be saved, rounded up, with no product beyond the word.
RatioSaving(raw, points) ==
  Wrap(Wrap((raw \div Basis) * points)
         + Wrap((raw % Basis) * points + Basis - 1) \div Basis)

\* <<>> when no compressed size would be worth it, else <<the largest one that is>>.
CompressionLimit(raw, t) ==
  LET saving == Max({1, t.minimum_savings_bytes,
                     RatioSaving(raw, t.minimum_savings_basis_points)})
  IN IF t.minimum_savings_basis_points > Basis \/ saving >= raw
       THEN <<>> ELSE <<raw - saving>>

\* Mutant: the last, partial block is free.
Cost_RoundsDown(bytes, perBlock) == Min({(bytes \div Block) * perBlock, MaxWord})

\* checked_mul fails beyond the word, and the cost is then the largest one.
Cost(bytes, perBlock) ==
  LET blocks == bytes \div Block + (IF bytes % Block = 0 THEN 0 ELSE 1)
  IN Min({blocks * perBlock, MaxWord})

-----------------------------------------------------------------------------
\* struct Metadata, without the counters that only feed reports.
NewMetadata ==
  [content |-> NoContent, raw_charge |-> 0, compressed_charge |-> 0,
   last_access_epoch |-> 0, last_transition_epoch |-> 0, raw_since |-> 0, retry_after |-> 0,
   last_attempt_cycle |-> 0, last_fallback_cycle |-> 0, stale_rejection_cycle |-> 0,
   transition_window_start |-> 0, thrash_until |-> 0,
   recent_frequency |-> 0, window_transitions |-> 0,
   observed_state |-> "gpu_raw", compressibility |-> "unknown",
   initialized |-> FALSE, last_attempt_failed |-> FALSE]

\* First sight of a chunk.
Initialize(m, state, now) ==
  IF m.initialized THEN m
  ELSE [m EXCEPT !.initialized = TRUE, !.raw_since = now,
                 !.last_transition_epoch = now, !.observed_state = state]

\* Mutant: what was learnt about the old content is kept.
ForgetContent_Kept(m, content) == [m EXCEPT !.content = content]

\* A new content says nothing of how the old one compressed.
ForgetContent(m, content) ==
  IF m.content = content THEN m
  ELSE [m EXCEPT !.content = content, !.compressibility = "unknown",
                 !.compressed_charge = 0, !.retry_after = 0, !.last_attempt_failed = FALSE]

\* The chunk has been moved by somebody else since it was last seen.
NoticeMove(m, state, now) ==
  IF m.observed_state = state THEN m
  ELSE [m EXCEPT !.observed_state = state, !.last_transition_epoch = now,
                 !.raw_since = IF state = "gpu_raw" THEN now ELSE @]

Observe(m, snap, rawCharge, now) ==
  NoticeMove([ForgetContent(Initialize(m, snap.state, now), snap.content)
                EXCEPT !.raw_charge = rawCharge], snap.state, now)

Access(m, now, t) ==
  [m EXCEPT !.recent_frequency = Min({FrequencyCap, Frequency(m, now, t) + 1}),
            !.last_access_epoch = now]

\* A committed transition, counted in its window; too many of them start a hold.
Transition(m, destination, now, t) ==
  LET fresh  == Age(now, m.transition_window_start) > t.thrash_window
      number == (IF fresh THEN 0 ELSE m.window_transitions) + 1
      thrash == number >= t.thrash_transition_count
  IN [m EXCEPT
        !.transition_window_start = IF fresh \/ thrash THEN now ELSE @,
        !.window_transitions = IF thrash THEN 0 ELSE number,
        !.thrash_until = IF thrash THEN SaturatingAdd(now, t.thrash_hold_epochs) ELSE @,
        !.last_transition_epoch = now,
        !.observed_state = destination,
        !.raw_since = IF destination = "gpu_raw" THEN now ELSE @]

CompressionResult(m, compressed, now, t) ==
  LET limit == CompressionLimit(m.raw_charge, t)
  IN [m EXCEPT
        !.compressed_charge = compressed,
        !.last_attempt_failed = FALSE,
        !.compressibility =
          IF compressed >= m.raw_charge THEN "incompressible"
          ELSE IF limit = <<>> \/ compressed > limit[1]
            THEN "poorly_compressible" ELSE "compressible",
        !.retry_after = SaturatingAdd(now, t.reevaluate_epochs)]

-----------------------------------------------------------------------------
Keep == [action |-> "keep"]

\* A chunk nobody uses, on the GPU, with nothing left to clean up.
Movable(snap) ==
  /\ snap.lifecycle = "live"
  /\ ~snap.in_use
  /\ snap.cleanup = 0
  /\ OnGpu(snap.state)

\* Mutant: the cooldown after a transition is forgotten.
Resting_NoCooldown(m, now, pressure, t) ==
  \/ now < m.thrash_until
  \/ m.last_attempt_failed /\ now < m.retry_after
  \/ Heat(m, now, t) = Hot /\ pressure = Soft

\* What keeps the adaptive strategy away from a movable chunk.
Resting(m, now, pressure, t) ==
  \/ now < m.thrash_until
  \/ m.last_attempt_failed /\ now < m.retry_after
  \/ Age(now, m.last_transition_epoch) < t.transition_cooldown
  \/ Heat(m, now, t) = Hot /\ pressure = Soft

\* Whether a compression is worth trying.
Compressible(m, snap, now, t) ==
  /\ snap.state = "gpu_raw"
  /\ CompressionLimit(snap.charge, t) # <<>>
  /\ \/ t.strategy = "oldest_unpinned"
     \/ /\ Age(now, m.raw_since) >= t.minimum_raw_epochs
        /\ ~(/\ m.compressibility \in {"incompressible", "poorly_compressible"}
             /\ now < m.retry_after)

ExpectedSaving(m) ==
  IF m.compressed_charge # 0 /\ m.compressed_charge < m.raw_charge
    THEN m.raw_charge - m.compressed_charge
    ELSE m.raw_charge \div 2

Propose(m, snap, id, pressure, now, mode, t, fallback) ==
  IF \/ mode = "disabled"
     \/ pressure = Normal
     \/ ~Movable(snap)
     \/ t.strategy # "oldest_unpinned" /\ Resting(m, now, pressure, t)
     \/ fallback /\ mode # "gpu_resident_with_host_fallback"
     \/ ~fallback /\ ~Compressible(m, snap, now, t)
    THEN Keep
    ELSE [action               |-> IF fallback THEN "host_fallback" ELSE "compress_gpu",
          expected_saved_bytes |-> IF fallback THEN snap.charge ELSE ExpectedSaving(m),
          restore_cost         |-> Cost(m.raw_charge, t.restore_cost_per_block),
          frequency            |-> Frequency(m, now, t),
          temperature          |-> Heat(m, now, t),
          last_access          |-> m.last_access_epoch,
          id                   |-> id]

\* std::tuple's operator <
LexLess(a, b) ==
  \E i \in 1 .. Len(a) : a[i] < b[i] /\ \A j \in 1 .. i - 1 : a[j] = b[j]

\* Mutant: the savings are compared whatever the frequencies are.
Preferred_SavingsFirst(candidate, current, strategy) ==
  \/ candidate.expected_saved_bytes > current.expected_saved_bytes
  \/ candidate.frequency < current.frequency

\* Colder first, then less used, then more to save, then cheaper to bring back, then
\* older; an id, the pair of a buffer's and a chunk's number, breaks every tie.
Preferred(candidate, current, strategy) ==
  LET tie(p) == <<p.last_access, p.id[1], p.id[2]>>
      key(p) == <<Cold - p.temperature, p.frequency,
                  MaxWord - p.expected_saved_bytes, p.restore_cost>> \o tie(p)
  IN /\ candidate.action # "keep"
     /\ \/ current.action = "keep"
        \/ IF strategy = "oldest_unpinned"
             THEN LexLess(tie(candidate), tie(current))
             ELSE LexLess(key(candidate), key(current))
=============================================================================
