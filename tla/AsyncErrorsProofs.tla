------------------------- MODULE AsyncErrorsProofs --------------------------
(***************************************************************************)
(* Proofs about AsyncErrors, for every capacity, every set of errors and   *)
(* every word size: the ring arithmetic never mixes records up, nothing    *)
(* hides the first error, and the ring implements the bounded log.         *)
(***************************************************************************)
EXTENDS AsyncErrors, Integers, SequenceTheorems, WellFoundedInduction, TLAPS

\* A set of naturals has a least element: the position at which push stops its search.
LEMMA MinOfNats ==
  ASSUME NEW T, T \subseteq Nat, T # {}
  PROVE  Min(T) \in T /\ \A y \in T : Min(T) <= y
<1>1. PICK x \in T : \A y \in T : ~ (<<y, x>> \in OpToRel(<, Nat))
  BY NatLessThanWellFounded, WFMin
<1>2. ASSUME NEW y \in T PROVE x <= y
  <2>1. <<y, x>> \in Nat \X Nat /\ <<y, x>> \notin OpToRel(<, Nat)
    BY <1>1
  <2>2. ~ (y < x)
    BY <2>1 DEF OpToRel
  <2>3. x \in Nat /\ y \in Nat
    OBVIOUS
  <2>4. QED
    BY <2>2, <2>3
<1>3. QED
  BY <1>2 DEF Min

\* A counter advances, or sticks at its top.
LEMMA Saturates ==
  ASSUME ChannelConstants, NEW n \in 0 .. MaxWord
  PROVE  /\ SaturatingIncrement(n) \in 0 .. MaxWord
         /\ SaturatingIncrement(n) >= n
         /\ n < MaxWord => SaturatingIncrement(n) = n + 1
BY DEF ChannelConstants, SaturatingIncrement

\* A position of the ring of C slots whose head is h, without the remainder.
LEMMA RingPosition ==
  ASSUME NEW C \in Nat \ {0}, NEW h \in 0 .. C - 1, NEW i \in 0 .. C
  PROVE  (h + i) % C = IF h + i < C THEN h + i ELSE h + i - C
<1>1. CASE h + i < C
  BY <1>1
<1>2. CASE h + i >= C
  BY <1>2
<1>3. QED
  BY <1>1, <1>2

\* The slots of the ring.
LEMMA SlotIs ==
  ASSUME ChannelConstants, TypeOK, NEW i \in 0 .. Capacity
  PROVE  Slot(i) = IF head + i < Capacity THEN head + i ELSE head + i - Capacity
BY RingPosition DEF ChannelConstants, TypeOK, Slots, Slot

\* Positions within the ring have slots of their own.
LEMMA SlotsDiffer ==
  ASSUME ChannelConstants, TypeOK, NEW i \in 0 .. Capacity - 1, NEW j \in 0 .. Capacity - 1
  PROVE  /\ Slot(i) \in Slots
         /\ i # j => Slot(i) # Slot(j)
<1>1. Capacity \in Nat \ {0} /\ head \in 0 .. Capacity - 1
  BY DEF ChannelConstants, TypeOK, Slots
<1>2. Slot(i) = IF head + i < Capacity THEN head + i ELSE head + i - Capacity
  BY <1>1, SlotIs
<1>3. Slot(j) = IF head + j < Capacity THEN head + j ELSE head + j - Capacity
  BY <1>1, SlotIs
<1>4. QED
  BY <1>1, <1>2, <1>3 DEF Slots

\* A record of the ring is a Record.
LEMMA RetainedRecord ==
  ASSUME ChannelConstants, TypeOK, NEW i \in 0 .. Capacity - 1
  PROVE  records[Slot(i)] \in Records
BY SlotsDiffer DEF TypeOK

\* The head advances: what was second is first.
LEMMA SlotMoves ==
  ASSUME ChannelConstants, TypeOK, Poll, NEW i \in 0 .. Capacity - 1
  PROVE  /\ head' \in Slots
         /\ Slot(i)' = Slot(i + 1)
<1>1. Capacity \in Nat \ {0} /\ head \in 0 .. Capacity - 1 /\ 1 \in 0 .. Capacity
  BY DEF ChannelConstants, TypeOK, Slots
<1>2. head' = IF head + 1 < Capacity THEN head + 1 ELSE head + 1 - Capacity
  BY <1>1, RingPosition DEF Poll
<1>3. head' \in 0 .. Capacity - 1
  BY <1>1, <1>2
<1>4. (head' + i) % Capacity = IF head' + i < Capacity THEN head' + i ELSE head' + i - Capacity
  <2>1. \A h \in 0 .. Capacity - 1 :
          (h + i) % Capacity = IF h + i < Capacity THEN h + i ELSE h + i - Capacity
    <3>1. i \in 0 .. Capacity
      BY <1>1
    <3>2. QED
      BY <1>1, <3>1, RingPosition
  <2>2. QED
    BY <1>3, <2>1
<1>5. Slot(i + 1) = IF head + (i + 1) < Capacity THEN head + (i + 1) ELSE head + (i + 1) - Capacity
  BY <1>1, SlotIs
<1>6. (head' + i) % Capacity = Slot(i + 1)
  BY ONLY <1>1, <1>2, <1>4, <1>5, i \in 0 .. Capacity - 1
<1>7. QED
  BY <1>3, <1>6 DEF Slots, Slot

-----------------------------------------------------------------------------
\* Coalesce raises the count of one retained record and nothing else of the ring.
LEMMA CoalesceShape ==
  ASSUME ChannelConstants, TypeOK, NEW e \in Errors, Coalesce(e)
  PROVE  \E k \in 0 .. count - 1 :
           /\ records[Slot(k)].error = e
           /\ records' = [records EXCEPT ![Slot(k)].repeat_count = SaturatingIncrement(@)]
<1>1. count \in Nat
  BY DEF TypeOK, ChannelConstants
<1>2. Retained(e) \subseteq Nat /\ Retained(e) # {}
  BY <1>1 DEF Retained, Coalesce
<1>3. Min(Retained(e)) \in Retained(e)
  BY <1>2, MinOfNats
<1>4. QED
  BY <1>3 DEF Retained, Coalesce

\* So every slot keeps its error and its number.
LEMMA CoalesceKeeps ==
  ASSUME ChannelConstants, TypeOK, NEW e \in Errors, Coalesce(e)
  PROVE  /\ records' \in [Slots -> Records]
         /\ \A s \in Slots : /\ records'[s].error = records[s].error
                             /\ records'[s].sequence = records[s].sequence
<1>1. PICK k \in 0 .. count - 1 :
        records' = [records EXCEPT ![Slot(k)].repeat_count = SaturatingIncrement(@)]
  BY CoalesceShape
<1>2. Slot(k) \in Slots
  BY SlotsDiffer DEF TypeOK, ChannelConstants
<1>3. records \in [Slots -> Records]
  BY DEF TypeOK
<1>4. SaturatingIncrement(records[Slot(k)].repeat_count) \in 0 .. MaxWord
  BY <1>2, <1>3, Saturates DEF Records
<1>5. QED
  BY <1>1, <1>2, <1>3, <1>4 DEF Records

\* Admit puts the candidate behind the others, which stay as they are.
LEMMA AdmitKeeps ==
  ASSUME ChannelConstants, TypeOK, NEW e \in Errors, NEW r \in Records, Admit(e, r)
  PROVE  /\ records' \in [Slots -> Records]
         /\ count \in 0 .. Capacity - 1
         /\ count' = count + 1
         /\ records'[Slot(count)] = r
         /\ \A i \in 0 .. count - 1 : records'[Slot(i)] = records[Slot(i)]
<1>1. count \in 0 .. Capacity - 1
  BY DEF Admit, TypeOK, ChannelConstants
<1>2. Slot(count) \in Slots /\ \A i \in 0 .. count - 1 : Slot(i) \in Slots /\ Slot(i) # Slot(count)
  BY <1>1, SlotsDiffer DEF ChannelConstants
<1>3. records \in [Slots -> Records] /\ records' = [records EXCEPT ![Slot(count)] = r]
  BY DEF TypeOK, Admit
<1>4. QED
  BY <1>1, <1>2, <1>3 DEF Admit

\* The candidate of a push.
Candidate(e) == [error |-> e, sequence |-> next_sequence, repeat_count |-> 1]

\* What every push does, whatever becomes of the report.
LEMMA PushShape ==
  ASSUME ChannelConstants, TypeOK, NEW e \in Errors, Push(e)
  PROVE  /\ Candidate(e) \in Records
         /\ Coalesce(e) \/ Drop(e) \/ Admit(e, Candidate(e))
         /\ next_sequence' = SaturatingIncrement(next_sequence)
         /\ next_sequence' \in 1 .. MaxWord
         /\ first' = IF first = <<>> THEN <<Candidate(e)>> ELSE first
         /\ head' = head /\ delivered' = delivered
         /\ \A i : Slot(i)' = Slot(i)
<1>1. next_sequence \in 1 .. MaxWord /\ 1 \in 0 .. MaxWord
  BY DEF TypeOK, ChannelConstants
<1>2. Candidate(e) \in Records
  BY <1>1 DEF Candidate, Records
<1>3. SaturatingIncrement(next_sequence) \in 1 .. MaxWord
  BY <1>1 DEF SaturatingIncrement, ChannelConstants
<1>4. QED
  BY <1>2, <1>3 DEF Push, Candidate, RememberFirst, Slot

\* The counters of a push.
LEMMA PushCounts ==
  ASSUME ChannelConstants, TypeOK, NEW e \in Errors, Push(e)
  PROVE  /\ stats' \in [produced : 0 .. MaxWord, coalesced : 0 .. MaxWord,
                        dropped : 0 .. MaxWord, diagnostic : 0 .. MaxWord]
         /\ stats'.produced = SaturatingIncrement(stats.produced)
         /\ \A k \in DOMAIN stats : stats'[k] >= stats[k]
<1>1. stats \in [produced : 0 .. MaxWord, coalesced : 0 .. MaxWord,
                 dropped : 0 .. MaxWord, diagnostic : 0 .. MaxWord]
  BY DEF TypeOK
<1>2. \A k \in {"produced", "coalesced", "dropped"} :
        /\ SaturatingIncrement(stats[k]) \in 0 .. MaxWord
        /\ SaturatingIncrement(stats[k]) >= stats[k]
  BY <1>1, Saturates
<1>0. DOMAIN stats = {"produced", "coalesced", "dropped", "diagnostic"}
      /\ MaxWord \in Nat /\ \A k \in DOMAIN stats : stats[k] \in 0 .. MaxWord
  BY <1>1 DEF ChannelConstants
<1>3. CASE Coalesce(e)
  <2>1. /\ stats'["produced"] = SaturatingIncrement(stats["produced"])
        /\ stats'["coalesced"] = SaturatingIncrement(stats["coalesced"])
        /\ stats'["dropped"] = stats["dropped"]
        /\ stats'["diagnostic"] = stats["diagnostic"]
    BY <1>1, <1>3 DEF Coalesce
  <2>2. stats' = [stats EXCEPT !.produced = SaturatingIncrement(@),
                               !.coalesced = SaturatingIncrement(@)]
    BY <1>3 DEF Coalesce
  <2>3. /\ SaturatingIncrement(stats.produced) \in 0 .. MaxWord
        /\ SaturatingIncrement(stats.coalesced) \in 0 .. MaxWord
    BY <1>2
  <2>4. stats' \in [produced : 0 .. MaxWord, coalesced : 0 .. MaxWord,
                    dropped : 0 .. MaxWord, diagnostic : 0 .. MaxWord]
    BY ONLY <1>1, <2>2, <2>3
  <2>5. \A k \in DOMAIN stats : stats'[k] >= stats[k]
    BY ONLY <1>0, <1>2, <2>1
  <2>6. stats'.produced = SaturatingIncrement(stats.produced)
    BY <2>1
  <2>7. QED
    BY <2>4, <2>5, <2>6
<1>4. CASE Drop(e)
  <2>1. /\ stats'["produced"] = SaturatingIncrement(stats["produced"])
        /\ stats'["coalesced"] = stats["coalesced"]
        /\ stats'["dropped"] = SaturatingIncrement(stats["dropped"])
        /\ stats'["diagnostic"] = stats["diagnostic"]
    BY <1>1, <1>4 DEF Drop
  <2>2. stats' = [stats EXCEPT !.produced = SaturatingIncrement(@),
                               !.dropped = SaturatingIncrement(@)]
    BY <1>4 DEF Drop
  <2>3. /\ SaturatingIncrement(stats.produced) \in 0 .. MaxWord
        /\ SaturatingIncrement(stats.dropped) \in 0 .. MaxWord
    BY <1>2
  <2>4. stats' \in [produced : 0 .. MaxWord, coalesced : 0 .. MaxWord,
                    dropped : 0 .. MaxWord, diagnostic : 0 .. MaxWord]
    BY ONLY <1>1, <2>2, <2>3
  <2>5. \A k \in DOMAIN stats : stats'[k] >= stats[k]
    BY ONLY <1>0, <1>2, <2>1
  <2>6. stats'.produced = SaturatingIncrement(stats.produced)
    BY <2>1
  <2>7. QED
    BY <2>4, <2>5, <2>6
<1>5. CASE Admit(e, Candidate(e))
  <2>1. /\ stats'["produced"] = SaturatingIncrement(stats["produced"])
        /\ stats'["coalesced"] = stats["coalesced"]
        /\ stats'["dropped"] = stats["dropped"]
        /\ stats'["diagnostic"] = stats["diagnostic"]
    BY <1>1, <1>5 DEF Admit
  <2>2. stats' = [stats EXCEPT !.produced = SaturatingIncrement(@)]
    BY <1>5 DEF Admit
  <2>3. QED
    BY <1>0, <1>1, <1>2, <2>1, <2>2
<1>6. QED
  BY <1>3, <1>4, <1>5, PushShape

-----------------------------------------------------------------------------
\* The initial ring satisfies the invariant.
LEMMA InitChannel ==
  ASSUME ChannelConstants, Init
  PROVE  ChannelInv
<1>1. Capacity \in Nat \ {0} /\ MaxWord \in Nat \ {0} /\ EmptyRecord.error \in Errors
  BY DEF ChannelConstants, EmptyRecord
<1>2. EmptyRecord \in Records
  BY <1>1 DEF EmptyRecord, Records
<1>3. records \in [Slots -> Records] /\ head \in Slots
  BY <1>1, <1>2 DEF Init, Slots
<1>4. TypeOK
  BY <1>1, <1>3 DEF Init, TypeOK
<1>5. ErrorsDistinct /\ Sequenced /\ FirstKept
  BY DEF Init, ErrorsDistinct, Sequenced, FirstKept
<1>6. QED
  BY <1>4, <1>5 DEF ChannelInv

\* A push keeps the types.
LEMMA PushTypes ==
  ASSUME ChannelConstants, TypeOK, NEW e \in Errors, Push(e)
  PROVE  TypeOK'
<1>1. first' \in {<<>>} \cup {<<r>> : r \in Records}
  BY PushShape DEF TypeOK
<1>2. records' \in [Slots -> Records] /\ count' \in 0 .. Capacity
  <2>1. CASE Coalesce(e)
    BY <2>1, CoalesceKeeps DEF TypeOK, Coalesce
  <2>2. CASE Drop(e)
    BY <2>2 DEF TypeOK, Drop
  <2>3. CASE Admit(e, Candidate(e))
    BY <2>3, AdmitKeeps, PushShape DEF ChannelConstants
  <2>4. QED
    BY <2>1, <2>2, <2>3, PushShape
<1>3. QED
  BY <1>1, <1>2, PushShape, PushCounts DEF TypeOK

\* A push never makes a second record of an error that is still retained.
LEMMA PushDistinct ==
  ASSUME ChannelConstants, TypeOK, ErrorsDistinct, NEW e \in Errors, Push(e)
  PROVE  ErrorsDistinct'
<1>1. count \in 0 .. Capacity /\ Capacity \in Nat /\ \A i : Slot(i)' = Slot(i)
  BY PushShape DEF TypeOK, ChannelConstants
<1>2. \A i \in 0 .. count - 1 : Slot(i) \in Slots
  BY <1>1, SlotsDiffer
<1>3. CASE Coalesce(e)
  <2>1. count' = count /\ \A s \in Slots : records'[s].error = records[s].error
    BY <1>3, CoalesceKeeps DEF Coalesce
  <2>2. QED
    BY <1>1, <1>2, <2>1 DEF ErrorsDistinct
<1>4. CASE Drop(e)
  BY <1>1, <1>4 DEF Drop, ErrorsDistinct
<1>5. CASE Admit(e, Candidate(e))
  <2>1. /\ count' = count + 1 /\ records'[Slot(count)] = Candidate(e)
        /\ \A i \in 0 .. count - 1 : records'[Slot(i)] = records[Slot(i)]
    BY <1>5, AdmitKeeps, PushShape
  <2>2. Candidate(e).error = e
    BY DEF Candidate
  <2>3. \A i \in 0 .. count - 1 : records[Slot(i)].error # e
    BY <1>5 DEF Admit, Retained
  <2>4. QED
    BY <1>1, <2>1, <2>2, <2>3 DEF ErrorsDistinct
<1>6. QED
  BY <1>3, <1>4, <1>5, PushShape

\* A push numbers its record after all the others.
LEMMA PushSequenced ==
  ASSUME ChannelConstants, TypeOK, Sequenced, NEW e \in Errors, Push(e)
  PROVE  Sequenced'
<1>1. SUFFICES ASSUME Exact' PROVE Sequenced'
  BY DEF Sequenced
<1>2. count \in 0 .. Capacity /\ Capacity \in Nat /\ (\A i : Slot(i)' = Slot(i)) /\ delivered' = delivered
  BY PushShape DEF TypeOK, ChannelConstants
<1>3. \A i \in 0 .. count - 1 : Slot(i) \in Slots /\ records[Slot(i)].sequence \in Nat
  BY <1>2, SlotsDiffer, RetainedRecord DEF Records
<1>4. /\ Exact /\ stats'.produced = stats.produced + 1
      /\ stats.produced \in Nat /\ stats.produced + 1 < MaxWord
      /\ MaxWord \in Nat
  <2>1. stats.produced \in 0 .. MaxWord /\ MaxWord \in Nat
    BY DEF TypeOK, ChannelConstants
  <2>2. stats'.produced = SaturatingIncrement(stats.produced) /\ stats'.produced < MaxWord
    BY <1>1, PushCounts DEF Exact
  <2>3. QED
    BY <2>1, <2>2 DEF Exact, SaturatingIncrement
<1>5. next_sequence = stats.produced + 1 /\ next_sequence' = next_sequence + 1
  <2>1. next_sequence = stats.produced + 1
    BY <1>4 DEF Sequenced
  <2>2. QED
    BY <1>4, <2>1, PushShape DEF SaturatingIncrement
<1>6. delivered.last \in Nat /\ delivered.last < next_sequence
  BY <1>4 DEF TypeOK, Sequenced
<1>7. \A i \in 0 .. count - 1 :
        delivered.last < records[Slot(i)].sequence /\ records[Slot(i)].sequence < next_sequence
  BY <1>4 DEF Sequenced
<1>8. \A i, j \in 0 .. count - 1 : i < j => records[Slot(i)].sequence < records[Slot(j)].sequence
  BY <1>4 DEF Sequenced
<1>9. CASE Coalesce(e)
  <2>1. count' = count /\ \A s \in Slots : records'[s].sequence = records[s].sequence
    BY <1>9, CoalesceKeeps DEF Coalesce
  <2>2. QED
    BY <1>2, <1>3, <1>4, <1>5, <1>6, <1>7, <1>8, <2>1 DEF Sequenced
<1>10. CASE Drop(e)
  BY <1>2, <1>3, <1>4, <1>5, <1>6, <1>7, <1>8, <1>10 DEF Drop, Sequenced
<1>11. CASE Admit(e, Candidate(e))
  <2>1. /\ count' = count + 1 /\ records'[Slot(count)].sequence = next_sequence
        /\ \A i \in 0 .. count - 1 : records'[Slot(i)] = records[Slot(i)]
    BY <1>11, AdmitKeeps, PushShape DEF Candidate
  <2>2. \A i \in 0 .. count :
          delivered.last < records'[Slot(i)].sequence /\ records'[Slot(i)].sequence < next_sequence'
    BY <1>2, <1>3, <1>4, <1>5, <1>6, <1>7, <2>1
  <2>3. \A i, j \in 0 .. count : i < j => records'[Slot(i)].sequence < records'[Slot(j)].sequence
    BY <1>2, <1>3, <1>7, <1>8, <2>1
  <2>4. QED
    BY <1>2, <1>4, <1>5, <1>6, <2>1, <2>2, <2>3 DEF Sequenced
<1>12. QED
  BY <1>9, <1>10, <1>11, PushShape

\* The first push sets first_ to its own record, which is retained; no other replaces it.
LEMMA PushFirst ==
  ASSUME ChannelConstants, TypeOK, FirstKept, NEW e \in Errors, Push(e)
  PROVE  FirstKept'
<1>1. count \in 0 .. Capacity /\ Capacity \in Nat \ {0} /\ (\A i : Slot(i)' = Slot(i)) /\ delivered' = delivered
  BY PushShape DEF TypeOK, ChannelConstants
<1>2. CASE first = <<>>
  <2>1. next_sequence = 1 /\ count = 0 /\ delivered.first = <<>>
    BY <1>2 DEF FirstKept
  <2>2. Admit(e, Candidate(e))
    BY <1>1, <2>1, PushShape DEF Coalesce, Drop, Retained
  <2>3. count' = 1 /\ records'[Slot(0)] = Candidate(e)
    BY <2>1, <2>2, AdmitKeeps, PushShape
  <2>4. first' = <<Candidate(e)>>
    BY <1>2, PushShape
  <2>5. Candidate(e).sequence = 1
    BY <2>1 DEF Candidate
  <2>6. QED
    BY <1>1, <2>1, <2>3, <2>4, <2>5 DEF FirstKept
<1>3. CASE first # <<>>
  <2>1. first' = first
    BY <1>3, PushShape
  <2>2. CASE delivered.first # <<>>
    BY <1>1, <1>3, <2>1, <2>2 DEF FirstKept
  <2>3. CASE delivered.first = <<>>
    <3>1. count > 0 /\ records[Slot(0)].error = first[1].error /\ first[1].sequence = 1
      BY <1>3, <2>3 DEF FirstKept
    <3>2. Slot(0) \in Slots /\ 0 \in 0 .. count - 1
      BY <1>1, <3>1, SlotsDiffer
    <3>3. count' > 0 /\ records'[Slot(0)].error = records[Slot(0)].error
      <4>1. CASE Coalesce(e)
        BY <3>1, <3>2, <4>1, CoalesceKeeps DEF Coalesce
      <4>2. CASE Drop(e)
        BY <3>1, <4>2 DEF Drop
      <4>3. CASE Admit(e, Candidate(e))
        BY <1>1, <3>1, <3>2, <4>3, AdmitKeeps, PushShape
      <4>4. QED
        BY <4>1, <4>2, <4>3, PushShape
    <3>4. QED
      BY <1>1, <1>3, <2>1, <2>3, <3>1, <3>3 DEF FirstKept
  <2>4. QED
    BY <2>2, <2>3
<1>4. QED
  BY <1>2, <1>3

-----------------------------------------------------------------------------
\* Reading a record never overflows what the reader has counted.
LEMMA PollTypes ==
  ASSUME ChannelConstants, TypeOK, Poll
  PROVE  TypeOK'
<1>1. Capacity \in Nat \ {0} /\ MaxWord \in Nat \ {0} /\ count \in 0 .. Capacity /\ count > 0
  BY DEF TypeOK, ChannelConstants, Poll
<1>2. head' \in Slots /\ count' \in 0 .. Capacity
  BY <1>1, SlotMoves DEF Poll
<1>3. records[head] \in Records /\ records[head].sequence \in 0 .. MaxWord
      /\ records[head].repeat_count \in 0 .. MaxWord /\ records[head].error \in Errors
  BY DEF TypeOK, Records
<1>4. /\ delivered.records \in 0 .. MaxWord /\ delivered.repeats \in 0 .. MaxWord
      /\ delivered.first \in {<<>>} \cup {<<e>> : e \in Errors}
  BY DEF TypeOK
<1>5. Min({delivered.repeats + records[head].repeat_count, MaxWord}) \in 0 .. MaxWord
  <2>1. delivered.repeats + records[head].repeat_count \in Nat
    BY <1>1, <1>3, <1>4
  <2>2. {delivered.repeats + records[head].repeat_count, MaxWord} \subseteq Nat
    BY <1>1, <2>1
  <2>3. QED
    BY <1>1, <2>1, <2>2, MinOfNats
<1>6. SaturatingIncrement(delivered.records) \in 0 .. MaxWord
  BY <1>4, Saturates
<1>7. delivered' \in [records : 0 .. MaxWord, repeats : 0 .. MaxWord,
                      first : {<<>>} \cup {<<e>> : e \in Errors}, last : 0 .. MaxWord]
  BY <1>3, <1>4, <1>5, <1>6 DEF Poll, Delivered
<1>8. QED
  BY <1>2, <1>7 DEF TypeOK, Poll

\* What is left after a poll is what was behind the head.
LEMMA PollShifts ==
  ASSUME ChannelConstants, TypeOK, Poll
  PROVE  /\ count \in 1 .. Capacity /\ count' = count - 1 /\ records' = records
         /\ Slot(0) = head
         /\ \A i \in 0 .. count' - 1 : i + 1 \in 0 .. count - 1 /\ Slot(i)' = Slot(i + 1)
<1>1. Capacity \in Nat \ {0} /\ head \in 0 .. Capacity - 1 /\ count \in 1 .. Capacity /\ count' = count - 1
  BY DEF TypeOK, ChannelConstants, Poll, Slots
<1>2. Slot(0) = head
  BY <1>1, SlotIs
<1>3. ASSUME NEW i \in 0 .. count' - 1
      PROVE  i + 1 \in 0 .. count - 1 /\ Slot(i)' = Slot(i + 1)
  <2>1. i \in 0 .. Capacity - 1 /\ i + 1 \in 0 .. count - 1
    BY <1>1
  <2>2. QED
    BY <2>1, SlotMoves
<1>4. QED
  BY <1>1, <1>2, <1>3 DEF Poll

\* Polling keeps the errors distinct.
LEMMA PollDistinct ==
  ASSUME ChannelConstants, TypeOK, ErrorsDistinct, Poll
  PROVE  ErrorsDistinct'
<1>1. SUFFICES ASSUME NEW i \in 0 .. count' - 1, NEW j \in 0 .. count' - 1, i # j
               PROVE  records'[Slot(i)'].error # records'[Slot(j)'].error
  BY DEF ErrorsDistinct
<1>2. i + 1 # j + 1
  BY <1>1
<1>3. QED
  BY <1>2, PollShifts DEF ErrorsDistinct

\* Polling hands over the record with the lowest number.
LEMMA PollSequenced ==
  ASSUME ChannelConstants, TypeOK, Sequenced, Poll
  PROVE  Sequenced'
<1>1. SUFFICES ASSUME Exact PROVE Sequenced'
  BY DEF Sequenced, Exact, Poll
<1>2. /\ next_sequence = stats.produced + 1
      /\ \A i \in 0 .. count - 1 : records[Slot(i)].sequence < next_sequence
      /\ \A i, j \in 0 .. count - 1 : i < j => records[Slot(i)].sequence < records[Slot(j)].sequence
  BY <1>1 DEF Sequenced
<1>3. delivered'.last = records[Slot(0)].sequence
  BY PollShifts DEF Poll, Delivered
<1>4. count \in Nat /\ count > 0 /\ 0 \in 0 .. count - 1
  BY PollShifts DEF ChannelConstants
<1>5. next_sequence' = next_sequence /\ stats' = stats /\ records' = records
  BY DEF Poll
<1>6. ASSUME NEW i \in 0 .. count' - 1
      PROVE  delivered'.last < records'[Slot(i)'].sequence /\ records'[Slot(i)'].sequence < next_sequence'
  <2>1. i + 1 \in 0 .. count - 1 /\ Slot(i)' = Slot(i + 1) /\ 0 < i + 1
    BY PollShifts
  <2>2. QED
    BY <1>2, <1>3, <1>4, <1>5, <2>1
<1>7. ASSUME NEW i \in 0 .. count' - 1, NEW j \in 0 .. count' - 1, i < j
      PROVE  records'[Slot(i)'].sequence < records'[Slot(j)'].sequence
  <2>1. i + 1 < j + 1
    BY <1>7
  <2>2. QED
    BY <1>2, <1>5, <2>1, PollShifts
<1>8. QED
  BY <1>2, <1>3, <1>4, <1>5, <1>6, <1>7 DEF Sequenced

\* The first record the reader gets is of the error first_ keeps.
LEMMA PollFirst ==
  ASSUME ChannelConstants, TypeOK, FirstKept, Poll
  PROVE  FirstKept'
<1>1. first # <<>> /\ first' = first /\ count \in Nat /\ count > 0
  BY PollShifts DEF Poll, FirstKept, ChannelConstants
<1>2. delivered'.first = IF delivered.first = <<>> THEN <<records[Slot(0)].error>> ELSE delivered.first
  BY PollShifts DEF Poll, Delivered
<1>3. QED
  BY <1>1, <1>2 DEF FirstKept

\* Every step keeps the invariant.
LEMMA NextChannel ==
  ASSUME ChannelConstants, ChannelInv, [Next]_vars
  PROVE  ChannelInv'
<1>1. ASSUME NEW e \in Errors, Push(e) PROVE ChannelInv'
  BY <1>1, PushTypes, PushDistinct, PushSequenced, PushFirst DEF ChannelInv
<1>2. CASE Poll
  BY <1>2, PollTypes, PollDistinct, PollSequenced, PollFirst DEF ChannelInv
<1>3. CASE RecordDiagnosticFailure
  <2>1. stats' \in [produced : 0 .. MaxWord, coalesced : 0 .. MaxWord,
                    dropped : 0 .. MaxWord, diagnostic : 0 .. MaxWord]
        /\ stats'.produced = stats.produced
    BY <1>3, Saturates DEF ChannelInv, TypeOK, RecordDiagnosticFailure
  <2>2. TypeOK'
    BY <1>3, <2>1 DEF ChannelInv, TypeOK, RecordDiagnosticFailure
  <2>3. Sequenced'
    BY <1>3, <2>1 DEF ChannelInv, Sequenced, Exact, Slot, RecordDiagnosticFailure
  <2>4. ErrorsDistinct' /\ FirstKept'
    BY <1>3 DEF ChannelInv, ErrorsDistinct, FirstKept, Slot, RecordDiagnosticFailure
  <2>5. QED
    BY <2>2, <2>3, <2>4 DEF ChannelInv
<1>4. CASE UNCHANGED vars
  BY <1>4 DEF vars, ChannelInv, TypeOK, ErrorsDistinct, Sequenced, Exact, FirstKept, Slot
<1>5. QED
  BY <1>1, <1>2, <1>3, <1>4 DEF Next

\* The channel's invariant holds for every capacity, word and set of errors: the ring is
\* well formed, retains each error once and numbers them in order (push, poll).
THEOREM ChannelInvariance == ASSUME ChannelConstants PROVE Spec => []ChannelInv
<1>1. Init => ChannelInv
  BY InitChannel
<1>2. ChannelInv /\ [Next]_vars => ChannelInv'
  BY NextChannel
<1>3. QED
  BY <1>1, <1>2, PTL DEF Spec

\* What Contents shows at i is the record at position i - 1 of the ring.
LEMMA ContentsAt ==
  ASSUME ChannelConstants, TypeOK, NEW i \in 1 .. count
  PROVE  Contents[i] = records[Slot(i - 1)] /\ i - 1 \in 0 .. count - 1
BY DEF Contents, TypeOK, ChannelConstants

\* Until a counter sticks, poll hands the errors over in the order in which they first
\* occurred.
THEOREM ErrorsInOrder == ASSUME ChannelConstants PROVE Spec => []HandedInOrder
<1>1. ChannelInv => HandedInOrder
  <2>1. SUFFICES ASSUME ChannelInv, Exact
                 PROVE  /\ \A i \in 1 .. count : delivered.last < Contents[i].sequence
                        /\ \A i, j \in 1 .. count : i < j => Contents[i].sequence < Contents[j].sequence
    BY DEF HandedInOrder
  <2>2. ASSUME NEW i \in 1 .. count, NEW j \in 1 .. count, i < j
        PROVE  i - 1 < j - 1
    BY <2>2
  <2>3. QED
    BY <2>1, <2>2, ContentsAt DEF ChannelInv, Sequenced
<1>2. QED
  BY <1>1, ChannelInvariance, PTL

\* A burst of failures never hides the first one: first() keeps the error that the reader
\* was handed first, or will be handed next.
THEOREM FirstErrorIsHanded == ASSUME ChannelConstants PROVE Spec => []FirstIsHanded
<1>1. ChannelInv => FirstIsHanded
  <2>1. SUFFICES ASSUME ChannelInv, first # <<>>, delivered.first = <<>>, count > 0
                 PROVE  Contents[1].error = records[Slot(0)].error
    BY DEF ChannelInv, FirstKept, FirstIsHanded
  <2>2. 1 \in 1 .. count
    BY <2>1 DEF ChannelInv, TypeOK, ChannelConstants
  <2>3. QED
    BY <2>1, <2>2, ContentsAt DEF ChannelInv
<1>2. QED
  BY <1>1, ChannelInvariance, PTL

\* No counter of stats() ever goes back, even at the top of its word.
THEOREM StatsNeverGoBack == ASSUME ChannelConstants PROVE Spec => StatsMonotone
<1>1. ASSUME ChannelInv, [Next]_vars
      PROVE  [\A k \in DOMAIN stats : stats'[k] >= stats[k]]_vars
  <2>1. /\ DOMAIN stats = {"produced", "coalesced", "dropped", "diagnostic"}
        /\ MaxWord \in Nat /\ \A k \in DOMAIN stats : stats[k] \in 0 .. MaxWord
    BY <1>1 DEF ChannelInv, TypeOK, ChannelConstants
  <2>2. CASE \E e \in Errors : Push(e)
    BY <1>1, <2>2, PushCounts DEF ChannelInv
  <2>3. CASE Poll
    BY <2>1, <2>3 DEF Poll
  <2>4. CASE RecordDiagnosticFailure
    <3>1. /\ stats'["produced"] = stats["produced"] /\ stats'["coalesced"] = stats["coalesced"]
          /\ stats'["dropped"] = stats["dropped"]
          /\ stats'["diagnostic"] = SaturatingIncrement(stats["diagnostic"])
      BY <1>1, <2>4 DEF RecordDiagnosticFailure, ChannelInv, TypeOK
    <3>2. SaturatingIncrement(stats["diagnostic"]) >= stats["diagnostic"]
      BY <2>1, Saturates
    <3>3. \A k \in DOMAIN stats : stats'[k] >= stats[k]
      BY ONLY <2>1, <3>1, <3>2
    <3>4. QED
      BY <3>3
  <2>5. CASE UNCHANGED vars
    BY <2>5
  <2>6. QED
    BY <1>1, <2>2, <2>3, <2>4, <2>5 DEF Next
<1>2. ChannelInv /\ [Next]_vars => [\A k \in DOMAIN stats : stats'[k] >= stats[k]]_vars
  BY <1>1
<1>3. QED
  BY <1>2, ChannelInvariance, PTL DEF Spec, StatsMonotone

-----------------------------------------------------------------------------
\* A record of the ring as the log has it, and the queue and the first error of the log.
Entry(r) == [error |-> r.error, repeat_count |-> r.repeat_count]

Entries == [error : Errors, repeat_count : 0 .. MaxWord]

Queue == [i \in 1 .. count |-> [error |-> Contents[i].error, repeat_count |-> Contents[i].repeat_count]]

FirstError == [i \in DOMAIN first |-> first[i].error]

\* The queue of the log is the ring read from its head.
LEMMA QueueIs ==
  ASSUME ChannelConstants, TypeOK
  PROVE  /\ Queue \in Seq(Entries)
         /\ Len(Queue) = count
         /\ count \in 0 .. Capacity /\ Capacity \in Nat
         /\ \A i \in 1 .. count : Queue[i] = Entry(records[Slot(i - 1)])
<1>1. count \in 0 .. Capacity /\ Capacity \in Nat
  BY DEF TypeOK, ChannelConstants
<1>2. ASSUME NEW i \in 1 .. count
      PROVE  Queue[i] = Entry(records[Slot(i - 1)]) /\ Queue[i] \in Entries
  <2>1. Contents[i] = records[Slot(i - 1)] /\ i - 1 \in 0 .. Capacity - 1
    BY <1>1, ContentsAt
  <2>2. records[Slot(i - 1)] \in Records
    BY <2>1, RetainedRecord
  <2>3. QED
    BY <2>1, <2>2 DEF Queue, Entry, Entries, Records
<1>3. Queue \in [1 .. count -> Entries]
  BY <1>2 DEF Queue
<1>4. QED
  BY <1>1, <1>2, <1>3

\* The same, as a predicate of a state and after a step.
QueueIsRing ==
  /\ Queue \in Seq(Entries)
  /\ Len(Queue) = count
  /\ \A i \in 1 .. count : Queue[i] = Entry(records[Slot(i - 1)])

LEMMA QueueNext == ASSUME ChannelConstants PROVE TypeOK' => QueueIsRing'
<1>1. TypeOK => QueueIsRing
  BY QueueIs DEF QueueIsRing
<1>2. QED
  BY <1>1, PTL

LEMMA QueueBecomes ==
  ASSUME ChannelConstants, TypeOK'
  PROVE  /\ Queue' \in Seq(Entries)
         /\ Len(Queue') = count'
         /\ \A i \in 1 .. count' : Queue'[i] = Entry(records'[Slot(i - 1)'])
BY QueueNext DEF QueueIsRing

\* push remembers the first error in both.
LEMMA PushRemembers ==
  ASSUME ChannelConstants, TypeOK, NEW e \in Errors, Push(e)
  PROVE  FirstError' = IF FirstError = <<>> THEN <<e>> ELSE FirstError
<1>1. CASE first = <<>>
  <2>1. first' = <<Candidate(e)>>
    BY <1>1, PushShape
  <2>2. FirstError = <<>>
    BY <1>1 DEF FirstError
  <2>3. FirstError' = <<e>>
    BY <2>1 DEF FirstError, Candidate
  <2>4. QED
    BY <2>2, <2>3
<1>2. CASE first # <<>>
  <2>1. PICK r \in Records : first = <<r>>
    BY <1>2 DEF TypeOK
  <2>2. FirstError = <<r.error>>
    BY <2>1 DEF FirstError
  <2>3. FirstError' = FirstError
    BY <1>2, PushShape DEF FirstError
  <2>4. QED
    BY <2>2, <2>3
<1>3. QED
  BY <1>1, <1>2

\* A report of an error that is retained is one more repetition in the queue.
LEMMA CoalesceRepeats ==
  ASSUME ChannelConstants, TypeOK, NEW e \in Errors, Push(e), Coalesce(e)
  PROVE  \E i \in 1 .. Len(Queue) :
           /\ Queue[i].error = e
           /\ Queue' = [Queue EXCEPT ![i].repeat_count = SaturatingIncrement(@)]
<1>1. PICK k \in 0 .. count - 1 :
        /\ records[Slot(k)].error = e
        /\ records' = [records EXCEPT ![Slot(k)].repeat_count = SaturatingIncrement(@)]
  BY CoalesceShape
<1>2. /\ Queue \in Seq(Entries) /\ Len(Queue) = count /\ count \in 0 .. Capacity /\ Capacity \in Nat
      /\ \A i \in 1 .. count : Queue[i] = Entry(records[Slot(i - 1)])
  BY QueueIs
<1>3. /\ Queue' \in Seq(Entries) /\ Len(Queue') = count
      /\ \A i \in 1 .. count : Queue'[i] = Entry(records'[Slot(i - 1)])
  <2>1. TypeOK' /\ count' = count /\ \A i : Slot(i)' = Slot(i)
    BY PushTypes, PushShape DEF Coalesce
  <2>2. TypeOK' => /\ Queue' \in Seq(Entries) /\ Len(Queue') = count'
                   /\ \A i \in 1 .. count' : Queue'[i] = Entry(records'[Slot(i - 1)'])
    BY QueueBecomes
  <2>3. QED
    BY <2>1, <2>2
<1>4. k + 1 \in 1 .. count /\ (k + 1) - 1 = k
  BY <1>2
<1>5. Queue[k + 1] = Entry(records[Slot(k)])
  BY <1>2, <1>4
<1>6. records \in [Slots -> Records] /\ Slot(k) \in Slots /\ records[Slot(k)] \in Records
  BY <1>2, SlotsDiffer, RetainedRecord DEF TypeOK
<1>7. ASSUME NEW i \in 1 .. count, i # k + 1 PROVE Queue'[i] = Queue[i]
  <2>1. i - 1 \in 0 .. Capacity - 1 /\ k \in 0 .. Capacity - 1 /\ i - 1 # k
    BY <1>2, <1>7
  <2>2. Slot(i - 1) # Slot(k) /\ Slot(i - 1) \in Slots
    BY <2>1, SlotsDiffer
  <2>3. records'[Slot(i - 1)] = records[Slot(i - 1)]
    BY <1>1, <1>6, <2>2
  <2>4. QED
    BY <1>2, <1>3, <2>3
<1>8. Queue'[k + 1] = [Queue[k + 1] EXCEPT !.repeat_count = SaturatingIncrement(@)]
  <2>1. records'[Slot(k)] = [records[Slot(k)] EXCEPT !.repeat_count = SaturatingIncrement(@)]
    BY <1>1, <1>6
  <2>2. Entry(records'[Slot(k)]) = [Entry(records[Slot(k)]) EXCEPT !.repeat_count = SaturatingIncrement(@)]
    BY <1>6, <2>1 DEF Entry, Records
  <2>3. Queue'[k + 1] = Entry(records'[Slot(k)])
    BY <1>3, <1>4
  <2>4. QED
    BY <1>5, <2>2, <2>3
<1>9. Queue' = [Queue EXCEPT ![k + 1].repeat_count = SaturatingIncrement(@)]
  <2>1. Queue \in [1 .. count -> Entries] /\ Queue' \in [1 .. count -> Entries]
    BY <1>2, <1>3
  <2>2. QED
    BY <1>4, <1>7, <1>8, <2>1
<1>10. Queue[k + 1].error = e
  BY <1>1, <1>5 DEF Entry
<1>11. QED
  BY <1>2, <1>4, <1>9, <1>10

\* An error is in the queue when push finds it in the ring.
LEMMA RetainedIsQueued ==
  ASSUME ChannelConstants, TypeOK, NEW e \in Errors, Retained(e) = {}
  PROVE  \A i \in 1 .. Len(Queue) : Queue[i].error # e
<1>1. SUFFICES ASSUME NEW i \in 1 .. count PROVE Queue[i].error # e
  BY QueueIs
<1>2. i - 1 \in 0 .. count - 1 /\ Queue[i] = Entry(records[Slot(i - 1)])
  BY QueueIs
<1>3. records[Slot(i - 1)].error # e
  BY <1>2 DEF Retained
<1>4. QED
  BY <1>2, <1>3 DEF Entry

\* A report that finds room is appended to the queue.
LEMMA AdmitAppends ==
  ASSUME ChannelConstants, TypeOK, NEW e \in Errors, Push(e), Admit(e, Candidate(e))
  PROVE  Queue' = Append(Queue, [error |-> e, repeat_count |-> 1])
<1>1. /\ Queue \in Seq(Entries) /\ Len(Queue) = count /\ count \in Nat
      /\ \A i \in 1 .. count : Queue[i] = Entry(records[Slot(i - 1)])
  BY QueueIs
<1>2. /\ count' = count + 1 /\ records'[Slot(count)] = Candidate(e)
      /\ \A i \in 0 .. count - 1 : records'[Slot(i)] = records[Slot(i)]
      /\ \A i : Slot(i)' = Slot(i)
  BY AdmitKeeps, PushShape
<1>3. /\ Queue' \in Seq(Entries) /\ Len(Queue') = count + 1
      /\ \A i \in 1 .. count + 1 : Queue'[i] = Entry(records'[Slot(i - 1)])
  BY <1>2, PushTypes, QueueBecomes
<1>4. Queue'[count + 1] = [error |-> e, repeat_count |-> 1]
  <2>1. count + 1 \in 1 .. count + 1 /\ (count + 1) - 1 = count
    BY <1>1
  <2>2. QED
    BY <1>2, <1>3, <2>1 DEF Entry, Candidate
<1>5. ASSUME NEW i \in 1 .. count PROVE Queue'[i] = Queue[i]
  <2>1. i \in 1 .. count + 1 /\ i - 1 \in 0 .. count - 1
    BY <1>1
  <2>2. QED
    BY <1>1, <1>2, <1>3, <2>1
<1>6. [error |-> e, repeat_count |-> 1] \in Entries
  BY DEF Entries, ChannelConstants
<1>7. Append(Queue, [error |-> e, repeat_count |-> 1]) \in Seq(Entries)
  BY <1>1, <1>6
<1>8. QED
  BY <1>1, <1>3, <1>4, <1>5, <1>6, <1>7, SeqEqual

\* poll takes the head of the queue.
LEMMA PollTakes ==
  ASSUME ChannelConstants, TypeOK, Poll
  PROVE  Queue # <<>> /\ Queue' = Tail(Queue) /\ FirstError' = FirstError
<1>1. /\ Queue \in Seq(Entries) /\ Len(Queue) = count /\ count \in Nat
      /\ \A i \in 1 .. count : Queue[i] = Entry(records[Slot(i - 1)])
  BY QueueIs
<1>2. /\ count > 0 /\ count' = count - 1 /\ records' = records
      /\ \A i \in 0 .. count' - 1 : i + 1 \in 0 .. count - 1 /\ Slot(i)' = Slot(i + 1)
  BY <1>1, PollShifts
<1>3. /\ Queue' \in Seq(Entries) /\ Len(Queue') = count - 1
      /\ \A i \in 1 .. count' : Queue'[i] = Entry(records'[Slot(i - 1)'])
  BY <1>2, PollTypes, QueueBecomes
<1>4. Queue # <<>>
  BY <1>1, <1>2, EmptySeq
<1>5. /\ Tail(Queue) \in Seq(Entries) /\ Len(Tail(Queue)) = count - 1
      /\ \A i \in 1 .. count - 1 : Tail(Queue)[i] = Queue[i + 1]
  BY <1>1, <1>4, HeadTailProperties
<1>6. ASSUME NEW i \in 1 .. count - 1 PROVE Queue'[i] = Tail(Queue)[i]
  <2>1. i - 1 \in 0 .. count' - 1 /\ i + 1 \in 1 .. count /\ (i - 1) + 1 = i /\ (i + 1) - 1 = i
    BY <1>1, <1>2
  <2>2. Slot(i - 1)' = Slot(i)
    BY <1>2, <2>1
  <2>3. Queue'[i] = Entry(records[Slot(i)])
    BY <1>2, <1>3, <2>2
  <2>4. Queue[i + 1] = Entry(records[Slot(i)])
    BY <1>1, <2>1
  <2>5. QED
    BY <1>5, <2>3, <2>4
<1>7. Queue' = Tail(Queue)
  BY <1>3, <1>5, <1>6, SeqEqual
<1>8. FirstError' = FirstError
  BY DEF FirstError, Poll
<1>9. QED
  BY <1>4, <1>7, <1>8

\* A report that is dropped, a diagnostic failure or a stutter leaves the queue.
LEMMA QueueStays ==
  ASSUME UNCHANGED <<records, head, count>>
  PROVE  Queue' = Queue
BY DEF Queue, Contents, Slot

\* Every step of the ring is a step of the log, or none.
LEMMA StepLogs ==
  ASSUME ChannelConstants, ChannelInv, [Next]_vars
  PROVE  [Log!LogNext]_(Log!logVars)
<1>1. ASSUME NEW e \in Errors, Push(e) PROVE Log!LogNext
  <2>1. TypeOK /\ Len(Queue) = count
    BY QueueIs DEF ChannelInv
  <2>2. Log!Remember(e)
    BY <1>1, <2>1, PushRemembers DEF Log!Remember, FirstError
  <2>3. CASE Coalesce(e)
    <3>1. stats'.dropped = stats.dropped
      BY <2>1, <2>3 DEF Coalesce, TypeOK
    <3>2. Log!Again(e)
      BY <1>1, <2>1, <2>3, <3>1, CoalesceRepeats DEF Log!Again, Queue
    <3>3. QED
      BY <2>2, <3>2 DEF Log!LogNext
  <2>4. CASE Drop(e)
    <3>1. stats'.dropped = SaturatingIncrement(stats.dropped) /\ count = Capacity
      BY <2>1, <2>4 DEF Drop, TypeOK
    <3>2. Queue' = Queue
      BY <1>1, <2>1, <2>4, PushShape, QueueStays DEF Drop
    <3>3. \A i \in 1 .. Len(Queue) : Queue[i].error # e
      BY <2>1, <2>4, RetainedIsQueued DEF Drop
    <3>4. Log!New(e)
      BY <2>1, <3>1, <3>2, <3>3 DEF Log!New, Queue
    <3>5. QED
      BY <2>2, <3>4 DEF Log!LogNext
  <2>5. CASE Admit(e, Candidate(e))
    <3>1. stats'.dropped = stats.dropped /\ count < Capacity
      BY <2>1, <2>5 DEF Admit, TypeOK
    <3>2. Queue' = Append(Queue, [error |-> e, repeat_count |-> 1])
      BY <1>1, <2>1, <2>5, AdmitAppends
    <3>3. \A i \in 1 .. Len(Queue) : Queue[i].error # e
      BY <2>1, <2>5, RetainedIsQueued DEF Admit
    <3>4. Log!New(e)
      BY <2>1, <3>1, <3>2, <3>3 DEF Log!New, Queue
    <3>5. QED
      BY <2>2, <3>4 DEF Log!LogNext
  <2>6. QED
    BY <1>1, <2>1, <2>3, <2>4, <2>5, PushShape
<1>2. CASE Poll
  <2>1. Queue # <<>> /\ Queue' = Tail(Queue) /\ FirstError' = FirstError
    BY <1>2, PollTakes DEF ChannelInv
  <2>2. stats' = stats
    BY <1>2 DEF Poll
  <2>3. Log!Take
    BY <2>1, <2>2 DEF Log!Take, Queue, FirstError
  <2>4. QED
    BY <2>3 DEF Log!LogNext
<1>3. CASE RecordDiagnosticFailure
  <2>1. stats'.dropped = stats.dropped
    BY <1>3 DEF RecordDiagnosticFailure, ChannelInv, TypeOK
  <2>2. Queue' = Queue /\ FirstError' = FirstError
    BY <1>3, QueueStays DEF RecordDiagnosticFailure, FirstError
  <2>3. QED
    BY <2>1, <2>2 DEF Log!logVars, Queue, FirstError
<1>4. CASE UNCHANGED vars
  <2>1. Queue' = Queue /\ FirstError' = FirstError /\ stats' = stats
    BY <1>4, QueueStays DEF vars, FirstError
  <2>2. QED
    BY <2>1 DEF Log!logVars, Queue, FirstError
<1>5. QED
  BY <1>1, <1>2, <1>3, <1>4 DEF Next

\* The ring implements the bounded log of distinct errors: records are handed over whole
\* and in order, equal errors are merged while retained, the first one is kept, and only a
\* full ring of other errors loses a report, which it counts; and no counter goes back
\* (push, poll, first, stats).
THEOREM RingImplementsLog == ASSUME ChannelConstants PROVE Spec => ImplementsLog
<1>1. Init => Log!LogInit
  <2>1. ASSUME Init PROVE Queue = <<>> /\ FirstError = <<>> /\ stats.dropped = 0
    BY <2>1 DEF Init, Queue, FirstError
  <2>2. QED
    BY <2>1 DEF Log!LogInit, Queue, FirstError
<1>2. ChannelInv /\ [Next]_vars => [Log!LogNext]_(Log!logVars)
  BY StepLogs
<1>3. Spec => Log!LogSpec
  BY <1>1, <1>2, ChannelInvariance, PTL DEF Spec, Log!LogSpec
<1>4. Spec => StatsMonotone
  BY StatsNeverGoBack
<1>5. QED
  BY <1>3, <1>4 DEF ImplementsLog
=============================================================================
