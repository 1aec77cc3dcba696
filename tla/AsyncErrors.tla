----------------------------- MODULE AsyncErrors -----------------------------
(***************************************************************************)
(* AsyncErrorChannel: a ring of error records.  Every operation of the     *)
(* class holds its mutex from the first line to the last, so each is one   *)
(* action; any thread of the runtime may call any of them at any time.     *)
(* The counters are 64-bit words that saturate: MaxWord is their top.      *)
(***************************************************************************)
EXTENDS Naturals, Sequences, FiniteSetsExt

CONSTANTS
  Errors,   \* the values an Error can take
  Capacity, \* capacity_, clamped to 1 .. max_async_error_capacity
  MaxWord,  \* the largest value of a counter
  MaxDiagnostics \* bound on the calls of RecordDiagnosticFailure

\* The runs that instantiate this module assume it of the constants.
ChannelConstants == Capacity \in Nat \ {0} /\ MaxWord \in Nat \ {0} /\ Errors # {}

VARIABLES
  records,       \* records_, the slots of the ring
  head,          \* head_
  count,         \* count_
  first,         \* first_: <<>> or the first record
  next_sequence, \* next_sequence_
  stats,         \* produced_, coalesced_, dropped_, diagnostic_text_failures_
  delivered      \* history of poll: how many records and repetitions it returned, the
                 \* error of the first and the sequence number of the last

vars == <<records, head, count, first, next_sequence, stats, delivered>>

Slots == 0 .. Capacity - 1

Records ==
  [error : Errors, sequence : 0 .. MaxWord, repeat_count : 0 .. MaxWord]

\* The value-initialised element of the std::array; its error is arbitrary.
EmptyRecord == [error |-> CHOOSE e \in Errors : TRUE, sequence |-> 0, repeat_count |-> 0]

TypeOK ==
  /\ records \in [Slots -> Records]
  /\ head \in Slots
  /\ count \in 0 .. Capacity
  /\ first \in {<<>>} \cup {<<r>> : r \in Records}
  /\ next_sequence \in 1 .. MaxWord
  /\ stats \in [produced : 0 .. MaxWord, coalesced : 0 .. MaxWord,
                dropped : 0 .. MaxWord, diagnostic : 0 .. MaxWord]
  /\ delivered \in [records : 0 .. MaxWord, repeats : 0 .. MaxWord,
                    first : {<<>>} \cup {<<e>> : e \in Errors}, last : 0 .. MaxWord]

Init ==
  /\ records = [s \in Slots |-> EmptyRecord]
  /\ head = 0
  /\ count = 0
  /\ first = <<>>
  /\ next_sequence = 1
  /\ stats = [produced |-> 0, coalesced |-> 0, dropped |-> 0, diagnostic |-> 0]
  /\ delivered = [records |-> 0, repeats |-> 0, first |-> <<>>, last |-> 0]

\* Mutant: the counter wraps around.
SaturatingIncrement_Wraps(n) == (n + 1) % (MaxWord + 1)

SaturatingIncrement(n) == IF n = MaxWord THEN n ELSE n + 1

\* Mutant: the ring's end is forgotten by one.
Slot_Short(i) == IF Capacity = 1 THEN 0 ELSE (head + i) % (Capacity - 1)

\* The slot of the i-th retained record, from 0.
Slot(i) == (head + i) % Capacity

\* Mutant: the newest record is not looked at.
Retained_NotNewest(e) == {i \in 0 .. count - 2 : records[Slot(i)].error = e}

\* The positions whose record push would coalesce with.
Retained(e) == {i \in 0 .. count - 1 : records[Slot(i)].error = e}

\* Mutant: the last error replaces the first one.
RememberFirst_Last(candidate) == first' = <<candidate>>

RememberFirst(candidate) == first' = IF first = <<>> THEN <<candidate>> ELSE first

\* The loop of push stops at the first equal record.
Coalesce(e) ==
  /\ Retained(e) # {}
  /\ LET slot == Slot(Min(Retained(e)))
     IN records' = [records EXCEPT ![slot].repeat_count = SaturatingIncrement(@)]
  /\ stats' = [stats EXCEPT !.produced = SaturatingIncrement(@),
                            !.coalesced = SaturatingIncrement(@)]
  /\ count' = count

\* Mutant: a report that finds the ring full is not counted.
Drop_Uncounted(e) ==
  /\ Retained(e) = {}
  /\ count = Capacity
  /\ stats' = [stats EXCEPT !.produced = SaturatingIncrement(@)]
  /\ UNCHANGED <<records, count>>

Drop(e) ==
  /\ Retained(e) = {}
  /\ count = Capacity
  /\ stats' = [stats EXCEPT !.produced = SaturatingIncrement(@),
                            !.dropped = SaturatingIncrement(@)]
  /\ UNCHANGED <<records, count>>

Admit(e, candidate) ==
  /\ Retained(e) = {}
  /\ count < Capacity
  /\ records' = [records EXCEPT ![Slot(count)] = candidate]
  /\ count' = count + 1
  /\ stats' = [stats EXCEPT !.produced = SaturatingIncrement(@)]

Push(e) ==
  LET candidate == [error |-> e, sequence |-> next_sequence, repeat_count |-> 1] IN
  /\ next_sequence' = SaturatingIncrement(next_sequence)
  /\ RememberFirst(candidate)
  /\ Coalesce(e) \/ Drop(e) \/ Admit(e, candidate)
  /\ UNCHANGED <<head, delivered>>

\* What the reader has seen once it is handed r.
Delivered(r) ==
  [records |-> SaturatingIncrement(delivered.records),
   repeats |-> Min({delivered.repeats + r.repeat_count, MaxWord}),
   first   |-> IF delivered.first = <<>> THEN <<r.error>> ELSE delivered.first,
   last    |-> r.sequence]

\* An empty ring returns nothing and changes nothing.
Poll ==
  /\ count > 0
  /\ delivered' = Delivered(records[head])
  /\ head' = (head + 1) % Capacity
  /\ count' = count - 1
  /\ UNCHANGED <<records, first, next_sequence, stats>>

RecordDiagnosticFailure ==
  /\ stats.diagnostic < MaxDiagnostics
  /\ stats' = [stats EXCEPT !.diagnostic = SaturatingIncrement(@)]
  /\ UNCHANGED <<records, head, count, first, next_sequence, delivered>>

Next ==
  \/ \E e \in Errors : Push(e)
  \/ Poll
  \/ RecordDiagnosticFailure

Spec == Init /\ [][Next]_vars

-----------------------------------------------------------------------------
\* What is in the ring, oldest first.
Contents == [i \in 1 .. count |-> records[Slot(i - 1)]]

\* No counter has reached its top.
Exact == stats.produced < MaxWord

\* No report is lost without a trace: until a counter sticks, the reports are the
\* ones delivered or still retained, with their repetitions, and the ones counted as
\* dropped; and the coalesced ones are the repetitions (push, poll).
EveryReportAccounted ==
  Exact =>
    LET repeats == MapThenFoldSet(+, delivered.repeats,
                     LAMBDA i : Contents[i].repeat_count, LAMBDA S : CHOOSE i \in S : TRUE,
                     1 .. count)
    IN /\ stats.produced = repeats + stats.dropped
       /\ stats.coalesced = repeats - delivered.records - count

\* The reader sees errors in the order in which they first occurred, across any mix of
\* pushes, coalescing and polls (the ring arithmetic of push and poll).
HandedInOrder ==
  Exact =>
    /\ \A i \in 1 .. count : delivered.last < Contents[i].sequence
    /\ \A i, j \in 1 .. count : i < j => Contents[i].sequence < Contents[j].sequence

\* A burst of failures does not hide the first: whatever first() keeps is the oldest
\* record of the ring until the reader has been handed it (push sets first_ once).
FirstIsHanded ==
  first # <<>> =>
    /\ first[1].sequence = 1
    /\ IF delivered.first = <<>>
         THEN count > 0 /\ Contents[1].error = first[1].error
         ELSE delivered.first[1] = first[1].error

\* No two retained records are of one error: push coalesces whatever it still finds.
ErrorsDistinct ==
  \A i, j \in 0 .. count - 1 : i # j => records[Slot(i)].error # records[Slot(j)].error

\* Until a counter sticks, the records are numbered in the order of the ring, after what
\* the reader has and before the next one.
Sequenced ==
  Exact =>
    /\ next_sequence = stats.produced + 1
    /\ delivered.last < next_sequence
    /\ \A i \in 0 .. count - 1 :
         delivered.last < records[Slot(i)].sequence /\ records[Slot(i)].sequence < next_sequence
    /\ \A i, j \in 0 .. count - 1 :
         i < j => records[Slot(i)].sequence < records[Slot(j)].sequence

\* Before the first report there is nothing; from then on first_ is what the reader got
\* first, or what it will get first.
FirstKept ==
  IF first = <<>>
    THEN next_sequence = 1 /\ count = 0 /\ delivered.first = <<>>
    ELSE /\ first[1].sequence = 1
         /\ IF delivered.first = <<>>
              THEN count > 0 /\ records[Slot(0)].error = first[1].error
              ELSE delivered.first[1] = first[1].error

\* The inductive invariant of the channel.
ChannelInv == TypeOK /\ ErrorsDistinct /\ Sequenced /\ FirstKept

\* A counter never goes back: what a monitor computes from two calls of stats() is
\* never negative, even when a counter is at its top.
StatsMonotone == [][\A k \in DOMAIN stats : stats'[k] >= stats[k]]_vars

\* The ring implements the bounded log of distinct errors.
Log == INSTANCE AsyncErrorLog WITH
  queue  <- [i \in 1 .. count |->
               [error |-> Contents[i].error, repeat_count |-> Contents[i].repeat_count]],
  first  <- [i \in DOMAIN first |-> first[i].error],
  lost   <- stats.dropped,
  Report <- SaturatingIncrement

\* Every behaviour of the ring is one of the abstract log: records are handed over in
\* order and whole, equal errors are merged while retained, and only a full ring of
\* other errors loses a report; and no counter goes back.
ImplementsLog == Log!LogSpec /\ StatsMonotone
=============================================================================
