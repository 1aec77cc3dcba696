----------------------------- MODULE PolicyLaws -----------------------------
(***************************************************************************)
(* The policy's arithmetic against what it is meant to compute.  A state   *)
(* is one input of one operator; a step draws another one.                 *)
(***************************************************************************)
EXTENDS PolicyOps

CONSTANTS
  Words,   \* the byte counts, epochs and costs that are tried
  Tunings  \* the configurations that are tried

\* What the constants must satisfy.
LawConstants == \A t \in Tunings : ValidTuning(t)

VARIABLE input

Small == {w \in Words : w <= 1}

\* Candidates that differ in every field the order looks at.
Proposals(id) ==
  [action : {"compress_gpu"}, temperature : {Warm, Cold}, frequency : Small,
   expected_saved_bytes : Small, restore_cost : Small, last_access : Small, id : {id}]

Inputs ==
  [law : {"order"}, a : Proposals(<<1, 2>>), b : Proposals(<<2, 1>>), c : Proposals(<<2, 2>>),
   strategy : {"adaptive", "oldest_unpinned"}]
  \cup [law : {"pressure"}, charged : Words, more : Small, soft : Words, hard : Words,
        reserve : Words, required : Words]
  \cup [law : {"limit"}, raw : Words, t : Tunings]
  \cup [law : {"cost"}, bytes : Words, per : Words]
  \cup [law : {"cooling"}, now : Words, later : Words, last : Words, recent : 0 .. FrequencyCap,
        t : Tunings]

Init == input \in Inputs
Next == input' = input
Spec == Init /\ [][Next]_input

-----------------------------------------------------------------------------
\* The choice of a victim does not depend on the order of the scan: preferred is a
\* strict total order on the candidates of different chunks (select_candidate folds it
\* over whatever order the registry has).
PreferredIsAnOrder ==
  input.law = "order" =>
    LET before(p, q) == Preferred(p, q, input.strategy)
    IN /\ ~before(input.a, input.a)
       /\ before(input.a, input.b) # before(input.b, input.a)
       /\ before(input.a, input.b) /\ before(input.b, input.c) => before(input.a, input.c)

\* Pressure is critical exactly when a normal reservation of the required bytes would be
\* refused, and charging more never lowers it (pressure against BudgetLedger::reserve).
PressureFollowsAdmission ==
  input.law = "pressure" =>
    LET at(n)  == PressureOf(n, input.soft, input.hard, input.reserve, input.required)
        admits == /\ input.charged + input.required <= input.hard - input.reserve
                  /\ input.charged < input.hard
    IN /\ at(input.charged) = Critical <=> ~admits
       /\ at(input.charged) <= at(input.charged + input.more)

\* The ceiling given to a compression is the largest charge that saves the configured
\* share and amount, computed without a product that leaves the word
\* (the comment in compression_limit: "avoids raw * basis_points overflow").
LimitIsExact ==
  input.law = "limit" =>
    LET enough(n) == /\ input.raw - n >= Max({1, input.t.minimum_savings_bytes})
                     /\ (input.raw - n) * Basis
                          >= input.raw * input.t.minimum_savings_basis_points
        worth     == {n \in 1 .. input.raw : enough(n)}
    IN CompressionLimit(input.raw, input.t) = IF worth = {} THEN <<>> ELSE <<Max(worth)>>

\* A cost is what its blocks cost, a started block being whole, and sticks at the top.
CostIsExact ==
  input.law = "cost" =>
    Cost(input.bytes, input.per)
      = Min({MaxWord, input.per * Min({n \in 0 .. input.bytes : n * Block >= input.bytes})})

\* A chunk that is not accessed only cools down: its frequency and its temperature never
\* rise with the epoch, whatever windows and thresholds are configured.
IdleChunksCool ==
  input.law = "cooling" /\ input.now <= input.later =>
    LET m == [recent_frequency |-> input.recent, last_access_epoch |-> input.last]
    IN /\ Frequency(m, input.later, input.t) <= Frequency(m, input.now, input.t)
       /\ Heat(m, input.later, input.t) >= Heat(m, input.now, input.t)
=============================================================================
