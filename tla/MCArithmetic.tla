---------------------------- MODULE MCArithmetic ----------------------------
(* The arithmetic of the library in one run; part says what runs: the calls of *)
(* the budget ledger (MCBudgetLedger), or the inputs of the arithmetic of      *)
(* policy.cpp and of the layout of buffers and codec jobs.                     *)
EXTENDS MCBudgetLedger

VARIABLES part, arithmetic, layout

arithmeticVars == <<part, vars, arithmetic, layout>>

Two == 2
Three == 3
Four == 4
Nine == 9
Twelve == 12

\* A word of 12 with three basis points to the whole and blocks of two bytes.
LawWords == 0 .. 7
LawTunings ==
  { t \in [minimum_savings_bytes : {0, 2}, minimum_savings_basis_points : 0 .. 3,
           hot_epochs : 0 .. 1, warm_epochs : {1, 3}, frequency_window : 1 .. 2,
           hot_frequency : 1 .. 2, minimum_raw_epochs : {1}, transition_cooldown : {1},
           reevaluate_epochs : {1}, thrash_window : {1}, thrash_transition_count : {2},
           thrash_hold_epochs : {1}, maximum_candidates : {1}, maximum_transitions : {1},
           restore_cost_per_block : {1}, strategy : {"adaptive"}] : t.hot_epochs < t.warm_epochs }

Law == INSTANCE PolicyLaws WITH
  input <- arithmetic, MaxWord <- Twelve, Basis <- Three, Block <- Two, FrequencyCap <- Three,
  Words <- LawWords, Tunings <- LawTunings

\* Sizes up to 6, and a word in which their sums and products still overflow.
LayoutSizes == 0 .. 6

Layouts == INSTANCE Layout WITH
  input <- layout, MaxWord <- Nine, Sizes <- LayoutSizes, MetadataSize <- Two,
  MetadataAlign <- Two, MaxChunk <- Four

ASSUME ArithmeticAssumption == Law!LawConstants /\ Layouts!LayoutConstants

NoInput == [law |-> "none"]

ArithmeticInit ==
  /\ Init
  /\ \/ part = "ledger" /\ arithmetic = NoInput /\ layout = NoInput
     \/ part = "policy" /\ Law!Init /\ layout = NoInput
     \/ part = "layout" /\ Layouts!Init /\ arithmetic = NoInput

ArithmeticNext ==
  \/ part = "ledger" /\ Next /\ UNCHANGED <<part, arithmetic, layout>>
  \/ part = "policy" /\ Law!Next /\ UNCHANGED <<part, vars, layout>>
  \/ part = "layout" /\ Layouts!Next /\ UNCHANGED <<part, vars, arithmetic>>

ArithmeticSpec == ArithmeticInit /\ [][ArithmeticNext]_arithmeticVars

\* The fixed-width arithmetic computes what it is meant to, up to the end of the word.  Policy:
\* victims are strictly ordered, pressure follows admission, limits and costs are exact, and
\* a chunk nobody accesses cools down.  Layout: chunks partition a buffer, spans and copies
\* are exact, an accepted configuration or device is usable, and a codec's workspace holds its
\* job.
ArithmeticIsExact ==
  /\ part = "policy" =>
       /\ Law!PreferredIsAnOrder /\ Law!PressureFollowsAdmission /\ Law!LimitIsExact
       /\ Law!CostIsExact /\ Law!IdleChunksCool
  /\ part = "layout" =>
       /\ Layouts!ChunkIsLeastMultiple /\ Layouts!ValidIsUsable /\ Layouts!ChunksPartition
       /\ Layouts!SpanIsExact /\ Layouts!CopiesAreExact /\ Layouts!PlanHolds
       /\ Layouts!DeviceIsUsable
=============================================================================
