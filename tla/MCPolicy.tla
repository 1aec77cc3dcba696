------------------------------ MODULE MCPolicy ------------------------------
(* The policy in one run; part says what runs.  The extended Reclaim ("admit") *)
(* has three chunks, two of them present, in a GPU tier that holds two raw     *)
(* ones, room for the third once one is compressed, and a scan that is cut off *)
(* after three inspections; migrations may fail.  Faulty has two chunks and a  *)
(* scan that sees all of both passes, with writes, debt, poison, closes and    *)
(* shutdown.                                                                   *)
EXTENDS MCReclaim

CONSTANTS FaultyLength, FaultyCandidates

VARIABLES part, fChunk, fMeta, fRt, fCall, fSeen

faultyVars == <<fChunk, fMeta, fRt, fCall, fSeen>>
policyVars == <<part, vars, faultyVars>>

One == 1
Two == 2
Four == 4
Seven == 7
FaultyOrder == [i \in 1 .. FaultyLength |-> <<i, 1>>]
FaultyTuning == [MCTuning EXCEPT !.maximum_candidates = FaultyCandidates]
FaultyCharges == {1, 3}
FaultyTargets == {2}
FaultyFaults == {"debt", "poison", "shutdown", "close"}

Faulty == INSTANCE Reclaim WITH
  chunk <- fChunk, meta <- fMeta, rt <- fRt, call <- fCall, seen <- fSeen,
  MaxWord <- Two, Order <- FaultyOrder, Present <- Two, Tuning <- FaultyTuning,
  HardLimit <- Seven, MigrationReserve <- One, SoftTarget <- Four,
  CompressedCharges <- FaultyCharges, Targets <- FaultyTargets, Faults <- FaultyFaults,
  MaxContent <- One, MaxCycle <- Two

PolicyInit ==
  /\ Init /\ Faulty!Init
  /\ part \in {"admit", "faulty"}

PolicyNext ==
  \/ part = "admit" /\ Next /\ UNCHANGED <<part, faultyVars>>
  \/ part = "faulty" /\ Faulty!Next /\ UNCHANGED <<part, vars>>

\* As in Reclaim: the thread that holds the gate runs on.
PolicyFairness ==
  WF_policyVars(\/ part = "admit" /\ Holder /\ UNCHANGED <<part, faultyVars>>
                \/ part = "faulty" /\ Faulty!Holder /\ UNCHANGED <<part, vars>>)

PolicySpec == PolicyInit /\ [][PolicyNext]_policyVars /\ PolicyFairness

\* A reclaim stays within its bounds, tries a chunk once per pass, and leaves a chunk that was
\* stale once alone for the rest of the cycle, in the fallback pass too.
CycleSafe ==
  /\ part = "admit" => CycleBounded /\ StaleStaysOut
  /\ part = "faulty" => Faulty!TypeOK /\ Faulty!CycleBounded /\ Faulty!StaleStaysOut

\* Every eviction is justified: the host is used only when nothing could be compressed any
\* more, and no chunk is moved again within its cooldown.
EvictionsJustified == FallbackIsLast /\ CooldownKept /\ Faulty!FallbackIsLast /\ Faulty!CooldownKept

\* Every reclaim comes to its end, with failing migrations and with poison, debt, closes and
\* shutdown.
Reclaiming == call.pc # "idle" \/ fCall.pc # "idle"

ReclaimsEnd == Reclaiming ~> ~Reclaiming
=============================================================================
