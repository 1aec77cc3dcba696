------------------------------ MODULE MCReclaim ------------------------------
(* Raw chunks of 3 in a GPU tier whose normal limit is 6 or 7: two fit, a third *)
(* once one of them is compressed.                                              *)
EXTENDS Reclaim, TLC

CONSTANTS Cooldown, Candidates, Transitions, Length

MCOrder == [i \in 1 .. Length |-> <<i, 1>>]

MCTuning ==
  [minimum_savings_bytes |-> 1, minimum_savings_basis_points |-> 0,
   hot_epochs |-> 0, warm_epochs |-> 2, frequency_window |-> 1, hot_frequency |-> 2,
   minimum_raw_epochs |-> 0, transition_cooldown |-> Cooldown, reevaluate_epochs |-> 2,
   thrash_window |-> 2, thrash_transition_count |-> 2, thrash_hold_epochs |-> 1,
   maximum_candidates |-> Candidates, maximum_transitions |-> Transitions,
   restore_cost_per_block |-> 1, strategy |-> "adaptive"]
=============================================================================
