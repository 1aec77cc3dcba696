------------------------------ MODULE Residency ------------------------------
(***************************************************************************)
(* The residency session (src/core/multi_chunk_residency_smoke.cpp): N     *)
(* private owners of one chunk each compress and retain their chunk, a     *)
(* snapshot proves that all are resident compressed at once, and they are  *)
(* restored one at a time.  The session drives the backend and the ledger  *)
(* directly and corroborates one with the other after every step; its      *)
(* report is the only thing that leaves the process, so the report must be *)
(* right also when a step is refused or the process is stopped.            *)
(*                                                                         *)
(* One step is one backend call and the code up to the next one.  A call   *)
(* succeeds, is refused ("early": before it read the stored bytes, "late": *)
(* after), answers with a contract violation, or ends the process (the     *)
(* backend's fatal).  The ledger is BudgetLedgerOps with the session's cap *)
(* on the GPU and no host tier.                                            *)
(***************************************************************************)
EXTENDS BudgetLedgerOps, FiniteSets, FiniteSetsExt

CONSTANTS
  N,            \* m10_chunk_count
  Unit,         \* allocation granularity
  Logical,      \* m10_logical_payload, in the same bytes as Unit
  OutputBound,  \* admission.compression.output_charge
  EncodeCharge, \* admission.compression.workspace_charge
  DecodeCharge, \* admission.decompression.workspace_charge
  StoredSizes,  \* the sizes the codec may produce
  MaxRot        \* how many resident copies the device may damage

VARIABLES
  pc, c,      \* the next step, and the chunk it is about
  scan, then, \* corroborate_retained: the next chunk, and where it returns
  todo,       \* the releases still to do, in order
  owners,     \* ChunkOwner of every chunk
  led,        \* ledger_
  dev,        \* the backend: charges, bytes, addresses, first_error, stats
  report,     \* MultiChunkResidencySmokeReport
  peak,       \* stage_peak_
  returned,   \* what the last read of a restored chunk gave, per chunk
  rots        \* damage done so far

vars == <<pc, c, scan, then, todo, owners, led, dev, report, peak, returned, rots>>

Chunks == 1 .. N
Slots == {"raw", "compressed", "encode_workspace", "compaction", "restored", "decode_workspace"}
Workspaces == {"encode_workspace", "compaction", "decode_workspace"}
Private == {"compressed"} \cup Workspaces \* mapped at an address the backend owns
Cap == HardLimit["gpu"]
Bad == -1 \* a CRC that is not the stored one

RoundUp(n) == ((n + Unit - 1) \div Unit) * Unit
Raw == RoundUp(Logical)

\* admit_compression: both raw copies, both outputs and both workspaces at once.
PlanPeak == 2 * Raw + 2 * OutputBound + EncodeCharge + DecodeCharge

\* The backend was created, so its plan was admitted under the cap.
ASSUME ResidencyAssumption ==
  /\ N \in Nat \ {0} /\ Unit \in Nat \ {0} /\ Logical \in Nat \ {0}
  /\ \A n \in {OutputBound, EncodeCharge, DecodeCharge} : n \in Nat \ {0} /\ n % Unit = 0
  /\ StoredSizes \subseteq 1 .. OutputBound
  /\ PlanPeak <= Cap /\ MigrationReserve["gpu"] = 0 /\ HardLimit["host"] = 0
  /\ MaxRot \in Nat

Bound(s) ==
  [raw |-> Raw, restored |-> Raw, compressed |-> OutputBound, compaction |-> OutputBound,
   encode_workspace |-> EncodeCharge, decode_workspace |-> DecodeCharge][s]

Bucket(s) == IF s \in Workspaces THEN "workspace" ELSE "staging"

Ownerships == {"none", "staging", "committed", "cleanup_debt"}
Authorities == {"none", "gpu_raw", "gpu_compressed", "restored_raw"}

NoOwner ==
  [charge |-> [s \in Slots |-> 0], own |-> [s \in Slots |-> "none"],
   tokens |-> [s \in Slots |-> InactiveToken], addr |-> [a \in {0, 1} |-> FALSE],
   authority |-> "none"]

\* MultiChunkResidencyChunkReport, without the fields that repeat another one.
NoRecord ==
  [raw_charge |-> 0, stored |-> 0, compressed_charge |-> 0, crcE |-> 0, crcA |-> 0,
   enc |-> FALSE, dec |-> FALSE, source_verified |-> FALSE, corroborated |-> FALSE,
   saved |-> FALSE, compacted |-> FALSE, at_snapshot |-> FALSE, round_trip |-> FALSE,
   cleaned |-> FALSE]

NoAudit == [crcE |-> 0, crcA |-> 0, enc |-> FALSE, dec |-> FALSE] \* GpuCodecAudit

NoFinal == [resources |-> 0, va |-> 0, budget |-> 0, unmaterialized |-> 0, workspace |-> 0,
            compaction |-> 0, raw |-> 0, compressed |-> 0]

NoReport ==
  [result |-> "planned", error |-> "none", chunks |-> [k \in Chunks |-> NoRecord],
   codec |-> NoAudit, peak |-> 0, proven |-> FALSE, events |-> 0, known |-> FALSE,
   verified |-> FALSE, final |-> NoFinal]

NoDevice ==
  [store |-> [k \in Chunks, s \in Slots |-> 0], bytes |-> [k \in Chunks, s \in Slots |-> "none"],
   meta |-> [k \in Chunks |-> 0], ranges |-> 0, leaked |-> 0, first_error |-> FALSE, comp |-> 0, decomp |-> 0]

Init ==
  /\ pc = "start" /\ c = 1 /\ scan = 1 /\ then = "none" /\ todo = <<>>
  /\ owners = [k \in Chunks |-> NoOwner]
  /\ led = [t \in Tiers |-> EmptyCounters]
  /\ dev = NoDevice /\ report = NoReport /\ peak = 0
  /\ returned = [k \in Chunks |-> "none"] /\ rots = 0

(***************************************************************************)
(* What the backend and the ledger say of themselves.                      *)
(***************************************************************************)
ChargeOf(store) == MapThenSumSet(LAMBDA r : store[r], Chunks \X Slots)
OwnedCharge == ChargeOf(dev.store)
OwnedResources == Cardinality({r \in Chunks \X Slots : dev.store[r] # 0})
\* Public ranges, and a private one for every resource that is not at a public address.
OwnedAddresses ==
  dev.ranges + dev.leaked + Cardinality({r \in Chunks \X Private : dev.store[r] # 0})
Charged == Total(led["gpu"])
Unmaterialized == led["gpu"].reserved

\* corroborate_accounting
Agree(store, counters) ==
  /\ Total(counters) >= counters.reserved
  /\ Total(counters) - counters.reserved = ChargeOf(store)
  /\ Total(counters) <= Cap

AccountingOk == Agree(dev.store, led["gpu"])

\* compressed_mask
Retained == {k \in Chunks : owners[k].authority = "gpu_compressed"}

\* failure: unsupported is the one error with a result of its own.
Failed(r, code) ==
  [r EXCEPT !.error = code, !.result = IF code = "unsupported" THEN "unsupported" ELSE "failed"]

EventsMax == 4 * N + 3 \* the length of the report's event array

\* snapshot_final
Final ==
  LET Present(slots) == Cardinality({r \in Chunks \X slots : owners[r[1]].charge[r[2]] # 0})
  IN [resources |-> OwnedResources, va |-> OwnedAddresses, budget |-> Charged,
      unmaterialized |-> Unmaterialized,
      workspace |-> Present({"encode_workspace", "decode_workspace"}),
      compaction |-> Present({"compaction"}), raw |-> Present({"raw", "restored"}),
      compressed |-> Present({"compressed"})]

Snapshot(r) ==
  [r EXCEPT !.final = Final, !.known = OwnedCharge + Unmaterialized = Charged]

\* finalize_multi_chunk_residency_smoke_failure, run by the terminate handler.
Finalized(r, fatal) ==
  [r EXCEPT !.result = "failed", !.known = @ /\ ~fatal /\ r.error # "none",
            !.error = IF fatal THEN "fatal" ELSE IF @ = "none" THEN "contract" ELSE @]

\* Mutant: stop takes the snapshot whatever the error says about the backend.
Stopped_AlwaysKnown(r, code) == Finalized(Snapshot(Failed(r, code)), FALSE)

\* stop: the counts are reported only when the error leaves them certain.
Stopped(r, code) ==
  Finalized(IF code \in {"ambiguous", "contract"}
              THEN [Failed(r, code) EXCEPT !.known = FALSE]
              ELSE Snapshot(Failed(r, code)), FALSE)

\* Where the process ends: contract(), and the backend's fatal.
Contract == pc' = "contract" /\ report' = Finalized([Failed(report, "contract") EXCEPT !.known = FALSE], FALSE)
Fatal == pc' = "terminated" /\ report' = Finalized(report, TRUE)

LedgerStop == pc' = "ledger_refused" /\ report' = Stopped(report, "refused") \* require

\* A refused call whose error becomes the session's: run returns and finish follows.  Only a
\* corroboration, which precedes the read of any byte, answers with a contract violation.
Refused(r, out) ==
  /\ pc' = "finish"
  /\ \E code \in (IF out = "early" THEN {"refused", "contract"} ELSE {"refused"}) :
       report' = Failed(r, code)

ResourceCap ==
  pc' = "finish" /\ report' = [Failed(report, "unsupported") EXCEPT !.result = "resource_cap"]

\* A step that ends in corroborate_accounting, with the charges it leaves.
Settled(store, label, r) ==
  IF Agree(store, led'["gpu"]) THEN pc' = label /\ report' = r ELSE Contract

\* event, which is a contract failure when the array is full.
Noted(label, r) ==
  IF r.events = EventsMax THEN Contract
  ELSE pc' = label /\ report' = [r EXCEPT !.events = @ + 1]

Outcomes == {"ok", "early", "late"}

Intact(k, s) == dev.bytes[k, s] = "payload"

\* read_all of a compressed resource leaves both CRCs in the audit.
Audited(audit, k, s, out) ==
  IF out = "early" THEN audit
  ELSE [audit EXCEPT !.crcE = k, !.crcA = IF Intact(k, s) THEN k ELSE Bad]

\* capture_codec and capture_stored_crc
CaptureCodec(r, k, audit) ==
  [r EXCEPT !.codec = audit,
            !.chunks[k] = [@ EXCEPT !.crcE = audit.crcE, !.crcA = audit.crcA,
                                    !.enc = audit.enc, !.dec = audit.dec]]

CaptureStoredCrc(r, k, audit) ==
  [r EXCEPT !.codec = audit, !.chunks[k].crcE = audit.crcE, !.chunks[k].crcA = audit.crcA]

\* Mutant: the audit keeps what the chunk before left in it.
Preset_Borrows(audit, rec) == audit

\* The audit starts from the chunk's own last observation.
Preset(audit, rec) == [audit EXCEPT !.crcE = rec.crcE, !.crcA = rec.crcA]

SameCharge(k, s) == owners[k].charge[s] = dev.store[k, s] \* corroborate

(***************************************************************************)
(* run_multi_chunk_residency_smoke up to run().                            *)
(***************************************************************************)
Start ==
  /\ pc = "start"
  /\ \/ /\ pc' = "scan" /\ then' = "admit_compress" /\ UNCHANGED report
     \/ /\ pc' = "ended" /\ UNCHANGED then
        /\ \/ report' = [Failed(report, "refused") EXCEPT !.result = "preflight_rejected"]
           \/ report' = [report EXCEPT !.known = TRUE] \* not acknowledged
           \/ \E code \in {"unsupported", "refused"} :
                report' = [Failed(report, code) EXCEPT !.known = TRUE]
           \/ report' = [Failed(report, "unsupported") EXCEPT !.result = "resource_cap",
                                                              !.known = TRUE]
     \/ /\ pc' = "terminated" /\ UNCHANGED then
        /\ report' = Finalized(Failed(report, "contract"), FALSE)
     \/ /\ pc' = "finish" /\ report' = Failed(report, "out_of_host_memory") /\ UNCHANGED then
  /\ UNCHANGED <<c, scan, todo, owners, led, dev, peak, returned, rots>>

(***************************************************************************)
(* corroborate_retained                                                    *)
(***************************************************************************)
ScanChunk ==
  /\ pc = "scan"
  /\ \E k \in Retained :
       /\ k >= scan /\ \A j \in Retained : j >= scan => k <= j
       /\ IF /\ SameCharge(k, "compressed") /\ owners[k].own["compressed"] = "committed"
             /\ owners[k].charge["compressed"] = report.chunks[k].compressed_charge
             /\ dev.meta[k] = report.chunks[k].stored
            THEN \E out \in Outcomes :
                   LET r == CaptureStoredCrc(report, k,
                              Audited(Preset(report.codec, report.chunks[k]), k, "compressed", out))
                   IN /\ out = "ok" => Intact(k, "compressed")
                      /\ IF out = "ok" THEN pc' = pc /\ report' = r /\ scan' = k + 1
                                       ELSE Refused(r, out) /\ UNCHANGED scan
            ELSE Contract /\ UNCHANGED scan
  /\ UNCHANGED <<c, then, todo, owners, led, dev, peak, returned, rots>>

ScanDone ==
  /\ pc = "scan" /\ \A k \in Retained : k < scan
  /\ IF AccountingOk THEN pc' = then /\ UNCHANGED report ELSE Contract
  /\ UNCHANGED <<c, scan, then, todo, owners, led, dev, peak, returned, rots>>

(***************************************************************************)
(* reserve_compression and reserve_restoration: admit_stage, the ledger's  *)
(* reservation of every resource of the stage, the event, the audit.  All  *)
(* requests are normal and of one tier, so one request of their sum stands *)
(* for them.                                                               *)
(***************************************************************************)
\* Mutant: the report keeps the last stage's peak.
Raised_Last(old, new) == new

Raised(old, new) == IF new > old THEN new ELSE old

ReserveStage(stage, slots, audit) ==
  LET req == <<[tier |-> "gpu", bucket |-> "staging", amount |-> stage, admission |-> "normal"]>>
      admitted == OwnedCharge + stage
      r == [report EXCEPT !.peak = Raised(@, admitted)]
  IN IF admitted > Cap THEN ResourceCap /\ UNCHANGED <<owners, led, peak>>
     ELSE /\ peak' = admitted
          /\ IF ReserveOk(led, req)
               THEN /\ led' = Reserve(led, req)
                    /\ owners' = [owners EXCEPT ![c].tokens = [s \in Slots |->
                         IF s \in slots THEN [active |-> TRUE, tier |-> "gpu",
                                              bucket |-> Bucket(s), remaining |-> Bound(s)]
                                        ELSE @[s]]]
                    /\ Noted(IF "raw" \in slots THEN "address0" ELSE "address1",
                             [r EXCEPT !.codec = audit])
               ELSE Refused(r, "late") /\ UNCHANGED <<owners, led>>

ReserveCompression == ReserveStage(PlanPeak, Slots, NoAudit) \* begin_compression_audit

ReserveRestoration ==
  IF report.proven /\ \A k \in Chunks, s \in {"restored", "decode_workspace"} : owners[k].charge[s] = 0
    THEN ReserveStage(Raw + DecodeCharge, {"restored", "decode_workspace"},
                  [Preset(report.codec, report.chunks[c]) EXCEPT !.enc = report.chunks[c].enc,
                                                                 !.dec = FALSE])
    ELSE Contract /\ UNCHANGED <<owners, led, peak>>

Admit ==
  /\ \/ pc = "admit_compress" /\ ReserveCompression
     \/ pc = "admit_restore" /\ ReserveRestoration
  /\ UNCHANGED <<c, scan, then, todo, dev, returned, rots>>

(***************************************************************************)
(* reserve_address; representation and workspace, which admit_allocation,  *)
(* allocate and adopt.  A refused allocation whose unwinding could not     *)
(* free its private range leaves the range and first_error behind.         *)
(***************************************************************************)
Address ==
  /\ pc \in {"address0", "address1"}
  /\ LET a == IF pc = "address0" THEN 0 ELSE 1
     IN \/ /\ dev' = [dev EXCEPT !.ranges = @ + 1]
           /\ owners' = [owners EXCEPT ![c].addr[a] = TRUE]
           /\ pc' = (IF a = 0 THEN "raw" ELSE "restored") /\ UNCHANGED report
        \/ Refused(report, "late") /\ UNCHANGED <<dev, owners>>
  /\ UNCHANGED <<c, scan, then, todo, led, peak, returned, rots>>

AfterAllocate(s) ==
  [raw |-> "write", compressed |-> "encode_workspace", encode_workspace |-> "prepare",
   compaction |-> "encode", restored |-> "decode_workspace", decode_workspace |-> "decode"][s]

Adopted(token, charge) ==
  ReleaseReservation(Materialize(led, token, charge), MaterializedToken(token, charge))

Adopt(s, charge) ==
  LET token == owners[c].tokens[s]
      ledger == Adopted(token, charge)
  IN IF ~MaterializeOk(led, token, charge) THEN LedgerStop /\ UNCHANGED <<dev, owners, led>>
     ELSE /\ dev' = [dev EXCEPT !.store[c, s] = charge]
          /\ led' = IF s = "raw" THEN CommitInitial(ledger, "gpu", charge) ELSE ledger
          /\ owners' = [owners EXCEPT
               ![c].charge[s] = charge, ![c].tokens[s] = InactiveToken,
               ![c].own[s] = IF s = "raw" THEN "committed" ELSE "staging",
               ![c].authority = IF s = "raw" THEN "gpu_raw" ELSE @]
          /\ Settled(dev'.store, AfterAllocate(s), report)

Allocate ==
  /\ pc \in Slots
  /\ LET charge == IF pc = "compaction" THEN RoundUp(dev.meta[c]) ELSE Bound(pc)
     IN IF ~AccountingOk THEN Contract /\ UNCHANGED <<dev, owners, led>>
        ELSE IF OwnedCharge + charge > Cap THEN ResourceCap /\ UNCHANGED <<dev, owners, led>>
        ELSE IF OwnedCharge + charge > peak THEN Contract /\ UNCHANGED <<dev, owners, led>>
        ELSE \/ Adopt(pc, charge)
             \/ /\ Refused(report, "early")
                /\ \/ UNCHANGED dev
                   \/ pc \in Private /\ dev' = [dev EXCEPT !.leaked = @ + 1, !.first_error = TRUE]
                /\ UNCHANGED <<owners, led>>
  /\ UNCHANGED <<c, scan, then, todo, peak, returned, rots>>

(***************************************************************************)
(* initialize_raw after its allocation: the payload is written, read back  *)
(* and becomes the baseline.                                               *)
(***************************************************************************)
WriteSource ==
  /\ pc = "write"
  /\ \/ /\ dev' = [dev EXCEPT !.bytes[c, "raw"] = "payload"]
        /\ IF SameCharge(c, "raw") THEN pc' = "check_source" /\ UNCHANGED report ELSE Contract
     \/ Refused(report, "early") /\ UNCHANGED dev
  /\ UNCHANGED <<c, scan, then, todo, owners, led, peak, returned, rots>>

CheckSource ==
  /\ pc = "check_source"
  /\ \E out \in Outcomes :
       /\ out = "ok" => Intact(c, "raw")
       /\ IF out # "ok" THEN Refused(report, out)
          ELSE IF ~AccountingOk THEN Contract
          ELSE /\ pc' = "compressed"
               /\ report' = [report EXCEPT !.chunks[c].source_verified = TRUE,
                                           !.chunks[c].raw_charge = dev.store[c, "raw"]]
  /\ UNCHANGED <<c, scan, then, todo, owners, led, dev, peak, returned, rots>>

(***************************************************************************)
(* compress_chunk: prepare_transfer, transfer and reconcile.               *)
(***************************************************************************)
Prepare ==
  /\ pc = "prepare"
  /\ \/ /\ Intact(c, "raw")
        /\ \E stored \in StoredSizes :
             dev' = [dev EXCEPT !.bytes[c, "compressed"] = "payload", !.meta[c] = stored,
                                !.comp = @ + 1]
        /\ pc' = "compaction"
        /\ report' = CaptureCodec(report, c, [crcE |-> c, crcA |-> c, enc |-> TRUE, dec |-> FALSE])
     \/ /\ \E out \in {"early", "late"} :
             Refused(CaptureCodec(report, c, [report.codec EXCEPT !.enc = @ \/ out = "late"]), out)
        /\ UNCHANGED dev
  /\ UNCHANGED <<c, scan, then, todo, owners, led, peak, returned, rots>>

\* The backings of the output and of the compaction target are exchanged.
Exchanged(f) == [f EXCEPT ![c, "compressed"] = f[c, "compaction"], ![c, "compaction"] = f[c, "compressed"]]

\* Mutant: the owner's record of the compaction target keeps its charge.
Reconciled_KeepsTarget(charge) == [charge EXCEPT !["compressed"] = charge["compaction"]]

Reconciled(charge) ==
  [charge EXCEPT !["compressed"] = charge["compaction"], !["compaction"] = charge["compressed"]]

Encode ==
  /\ pc = "encode"
  /\ LET bound == owners[c].charge["compressed"]
         exact == owners[c].charge["compaction"]
         good == Audited(report.codec, c, "compressed", "ok")
         r == CaptureCodec(report, c, good)
     IN \/ /\ Intact(c, "raw") /\ Intact(c, "compressed")
           /\ IF ExchangeCompactionOk(led, "gpu", bound, exact)
                THEN /\ dev' = [dev EXCEPT !.store = Exchanged(@)]
                     /\ led' = ExchangeCompaction(led, "gpu", bound, exact)
                     /\ owners' = [owners EXCEPT ![c].charge = Reconciled(@)]
                     /\ IF \A s \in {"compaction", "compressed"} :
                             owners'[c].charge[s] = dev'.store[c, s]
                          THEN Settled(dev'.store, "verify_encoded",
                                 [r EXCEPT !.chunks[c] = [@ EXCEPT !.compacted = TRUE,
                                    !.stored = dev.meta[c], !.compressed_charge = exact]])
                          ELSE Contract
                ELSE LedgerStop /\ UNCHANGED <<dev, led, owners>>
        \/ /\ \E out \in {"early", "late"} :
                Refused(CaptureCodec(report, c, Audited(report.codec, c, "compressed", out)), out)
           /\ UNCHANGED <<dev, led, owners>>
  /\ UNCHANGED <<c, scan, then, todo, peak, returned, rots>>

\* verify_transfer of the output against the raw source.
VerifyEncoded ==
  /\ pc = "verify_encoded"
  /\ \E out \in Outcomes :
       LET r == CaptureStoredCrc(report, c, Audited(report.codec, c, "compressed", out))
       IN /\ out = "ok" => Intact(c, "raw") /\ Intact(c, "compressed")
          /\ IF out = "ok" THEN pc' = "judge" /\ report' = r ELSE Refused(r, out)
  /\ UNCHANGED <<c, scan, then, todo, owners, led, dev, peak, returned, rots>>

(***************************************************************************)
(* commit_transition, and the releases that follow it.                     *)
(***************************************************************************)
CommitTransition(dst, src, authority, r, items) ==
  LET d == owners[c].charge[dst]
      o == owners[c].charge[src]
  IN IF owners[c].own[dst] # "staging" \/ owners[c].own[src] # "committed"
       THEN Contract /\ UNCHANGED <<owners, led, todo>>
     ELSE IF ~CommitAndRetireOk(led, "gpu", d, "gpu", o)
       THEN LedgerStop /\ UNCHANGED <<owners, led, todo>>
     ELSE /\ led' = CommitAndRetire(led, "gpu", d, "gpu", o)
          /\ owners' = [owners EXCEPT ![c].own[dst] = "committed", ![c].own[src] = "cleanup_debt",
                                      ![c].authority = authority]
          /\ todo' = [i \in 1 .. Len(items) |-> <<c, items[i]>>]
          /\ Settled(dev.store, "release", r)

\* saves_physical_unit
SavesUnit(raw, compressed) == compressed # 0 /\ compressed < raw /\ raw - compressed >= Unit

\* Mutant: the source is released as a workspace is, and the output with it.
AfterCompression_DropsOutput == <<"encode_workspace", "compaction", "compressed", "raw", "tokens", "address0">>

AfterCompression == <<"encode_workspace", "compaction", "raw", "tokens", "address0">>

\* verify_authoritative of the output, what it saves, and the commit.
Judge ==
  /\ pc = "judge"
  /\ \E out \in Outcomes :
       LET k == report.chunks[c]
           saved == SavesUnit(k.raw_charge, k.compressed_charge)
           r == [CaptureStoredCrc(report, c, Audited(report.codec, c, "compressed", out))
                   EXCEPT !.chunks[c].corroborated = out = "ok", !.chunks[c].saved = out = "ok" /\ saved]
       IN /\ out = "ok" => Intact(c, "compressed")
          /\ IF out # "ok" THEN Refused(r, out) /\ UNCHANGED <<owners, led, todo, then>>
             ELSE IF ~k.enc \/ r.chunks[c].crcE # r.chunks[c].crcA \/ r.chunks[c].crcE # c
               THEN Contract /\ UNCHANGED <<owners, led, todo, then>>
             ELSE IF k.stored >= Logical \/ ~saved
               THEN /\ pc' = "finish" /\ UNCHANGED <<owners, led, todo, then>>
                    /\ report' = [r EXCEPT !.result = IF k.stored >= Logical
                                     THEN "compression_not_beneficial" ELSE "no_physical_savings"]
             ELSE /\ CommitTransition("compressed", "raw", "gpu_compressed", r, AfterCompression)
                  /\ then' = "retained"
  /\ UNCHANGED <<c, scan, dev, peak, returned, rots>>

Retain ==
  /\ pc = "retained"
  /\ Noted("scan", report) /\ scan' = 1
  /\ IF c < N THEN c' = c + 1 /\ then' = "admit_compress" ELSE c' = 1 /\ then' = "snapshot"
  /\ UNCHANGED <<todo, owners, led, dev, peak, returned, rots>>

(***************************************************************************)
(* residency_snapshot: every chunk compressed, and nothing else, is what   *)
(* the backend owns and the ledger has committed.                          *)
(***************************************************************************)
SnapshotHolds ==
  /\ Retained = Chunks
  /\ \A k \in Chunks, s \in Slots \ {"compressed"} : owners[k].charge[s] = 0
  /\ LET total == MapThenSumSet(LAMBDA k : report.chunks[k].compressed_charge, Chunks)
     IN total = OwnedCharge /\ total = Charged /\ total = led["gpu"].committed
  /\ OwnedResources = N /\ Unmaterialized = 0

\* calculate_multi_chunk_residency_totals
TotalsOk ==
  /\ \A k \in Chunks : report.chunks[k].corroborated
  /\ \A k \in Chunks : SavesUnit(report.chunks[k].raw_charge, report.chunks[k].compressed_charge)

TakeSnapshot ==
  /\ pc = "snapshot"
  /\ IF ~TotalsOk THEN Refused(report, "late")
     ELSE IF ~SnapshotHolds THEN Contract
     ELSE Noted("scan", [report EXCEPT !.proven = TRUE,
                           !.chunks = [k \in Chunks |-> [@[k] EXCEPT !.at_snapshot = TRUE]]])
  /\ scan' = 1 /\ then' = "admit_restore"
  /\ UNCHANGED <<c, todo, owners, led, dev, peak, returned, rots>>

(***************************************************************************)
(* restore_chunk                                                           *)
(***************************************************************************)
Decode ==
  /\ pc = "decode"
  /\ \E out \in Outcomes, launched \in BOOLEAN :
       LET audit == [Audited(report.codec, c, "compressed", out) EXCEPT !.dec = launched]
           r == CaptureCodec(report, c, audit)
       IN /\ launched => out # "early" /\ Intact(c, "compressed")
          /\ IF out = "ok"
               THEN /\ launched
                    /\ dev' = [dev EXCEPT !.bytes[c, "restored"] = "payload", !.decomp = @ + 1]
                    /\ IF SameCharge(c, "restored") /\ AccountingOk
                         THEN pc' = "verify_decoded" /\ report' = r ELSE Contract
               ELSE Refused(r, out) /\ UNCHANGED dev
  /\ UNCHANGED <<c, scan, then, todo, owners, led, peak, returned, rots>>

VerifyDecoded ==
  /\ pc = "verify_decoded"
  /\ \E out \in Outcomes :
       LET r == CaptureStoredCrc(report, c, Audited(report.codec, c, "compressed", out))
       IN /\ out = "ok" => Intact(c, "compressed") /\ Intact(c, "restored")
          /\ IF out = "ok" THEN pc' = "read_back" /\ report' = r ELSE Refused(r, out)
  /\ UNCHANGED <<c, scan, then, todo, owners, led, dev, peak, returned, rots>>

\* Mutant: only the CRCs of the stored bytes are compared, not the bytes that came back.
RoundTripOk_StoredOnly(rec, bytes) == rec.crcA = rec.crcE /\ rec.dec

RoundTripOk(rec, bytes) == bytes = "payload" /\ rec.crcA = rec.crcE /\ rec.dec

AfterRestoration == <<"decode_workspace", "compressed", "restored", "tokens", "address1", "done">>

ReadBack ==
  /\ pc = "read_back"
  /\ \/ /\ returned' = [returned EXCEPT ![c] = dev.bytes[c, "restored"]]
        /\ IF RoundTripOk(report.chunks[c], dev.bytes[c, "restored"])
             THEN /\ CommitTransition("restored", "compressed", "restored_raw",
                                      [report EXCEPT !.chunks[c].round_trip = TRUE], AfterRestoration)
                  /\ then' = "restored_chunk"
             ELSE Refused(report, "late") /\ UNCHANGED <<owners, led, todo, then>>
     \/ Refused(report, "late") /\ UNCHANGED <<owners, led, todo, then, returned>>
  /\ UNCHANGED <<c, scan, dev, peak, rots>>

\* The next chunk, or the end of run(): every chunk was compressed and restored once.
Restored ==
  /\ pc = "restored_chunk"
  /\ IF c < N THEN Noted("scan", report) /\ scan' = 1 /\ c' = c + 1 /\ then' = "admit_restore"
     ELSE /\ UNCHANGED <<c, scan, then>>
          /\ IF /\ dev.comp = N /\ dev.decomp = N
                /\ \A k \in Chunks : LET rec == report.chunks[k]
                                     IN rec.round_trip /\ rec.saved /\ rec.at_snapshot
               THEN Noted("finish", [report EXCEPT !.verified = TRUE])
               ELSE Contract
  /\ UNCHANGED <<todo, owners, led, dev, peak, returned, rots>>

(***************************************************************************)
(* release, release_reservations, release_address: the head of todo.       *)
(***************************************************************************)
\* The bytes move to the ledger's cleanup debt before the backend is asked.
Retired(k, s) ==
  LET amount == owners[k].charge[s]
  IN CASE owners[k].own[s] = "committed" -> RetireCommitted(led, "gpu", amount)
       [] owners[k].own[s] = "staging" -> MoveToDebt(led, "gpu", Bucket(s), amount)
       [] OTHER -> led

RetiredOk(k, s) ==
  LET amount == owners[k].charge[s]
  IN CASE owners[k].own[s] = "committed" -> RetireCommittedOk(led, "gpu", amount)
       [] owners[k].own[s] = "staging" -> MoveToDebtOk(led, "gpu", Bucket(s), amount)
       [] OTHER -> ReleaseCleanupDebtOk(led, "gpu", amount)

\* stop: the snapshot is taken in the state the failed call left.
Stopping(code) == pc' = "stop" /\ report' = Failed(report, code)

Release(k, s) ==
  LET ledger == Retired(k, s)
  IN IF owners[k].charge[s] = 0
       THEN todo' = Tail(todo) /\ UNCHANGED <<pc, owners, led, dev, report>>
     ELSE IF ~RetiredOk(k, s) THEN LedgerStop /\ UNCHANGED <<todo, owners, led, dev>>
     ELSE \/ \E leaks \in BOOLEAN :
               /\ leaks => s \in Private
               /\ dev' = [dev EXCEPT !.store[k, s] = 0, !.bytes[k, s] = "none",
                                     !.leaked = @ + (IF leaks THEN 1 ELSE 0),
                                     !.first_error = @ \/ leaks]
               /\ led' = ReleaseCleanupDebt(ledger, "gpu", owners[k].charge[s])
               /\ owners' = [owners EXCEPT ![k].charge[s] = 0, ![k].own[s] = "cleanup_debt"]
               /\ todo' = Tail(todo)
               /\ IF dev'.first_error THEN Stopping("refused") ELSE Settled(dev'.store, "release", report)
          \/ /\ led' = ledger
             /\ owners' = [owners EXCEPT ![k].own[s] = "cleanup_debt"]
             /\ Stopping("refused") /\ UNCHANGED <<todo, dev>>

\* Mutant: the tokens stay active and are released again by the final cleanup.
ReleaseTokens_KeepsActive(k) ==
  LET active == {s \in Slots : owners[k].tokens[s].active}
  IN /\ led' = [led EXCEPT !["gpu"].reserved =
                  @ - MapThenSumSet(LAMBDA s : owners[k].tokens[s].remaining, active)]
     /\ UNCHANGED owners

ReleaseTokens(k) ==
  LET active == {s \in Slots : owners[k].tokens[s].active}
  IN /\ led' = [led EXCEPT !["gpu"].reserved =
                  @ - MapThenSumSet(LAMBDA s : owners[k].tokens[s].remaining, active)]
     /\ owners' = [owners EXCEPT ![k].tokens = [s \in Slots |-> InactiveToken]]

ReleaseAddress(k, a) ==
  \/ /\ dev' = [dev EXCEPT !.ranges = @ - (IF owners[k].addr[a] THEN 1 ELSE 0)]
     /\ owners' = [owners EXCEPT ![k].addr[a] = FALSE]
     /\ todo' = Tail(todo) /\ UNCHANGED <<pc, report>>
  \/ owners[k].addr[a] /\ Stopping("refused") /\ UNCHANGED <<dev, owners, todo>>

ReleaseNext ==
  /\ pc = "release" /\ todo # <<>>
  /\ LET k == Head(todo)[1]
         item == Head(todo)[2]
     IN \/ item \in Slots /\ Release(k, item)
        \/ item = "tokens" /\ ReleaseTokens(k) /\ todo' = Tail(todo) /\ UNCHANGED <<pc, dev, report>>
        \/ item = "address0" /\ ReleaseAddress(k, 0) /\ UNCHANGED led
        \/ item = "address1" /\ ReleaseAddress(k, 1) /\ UNCHANGED led
        \/ /\ item = "done"
           /\ owners' = [owners EXCEPT ![k].authority = "none"]
           /\ report' = [report EXCEPT !.chunks[k].cleaned = TRUE]
           /\ todo' = Tail(todo) /\ UNCHANGED <<pc, led, dev>>
  /\ UNCHANGED <<c, scan, then, peak, returned, rots>>

Released ==
  /\ pc = "release" /\ todo = <<>>
  /\ IF then = "shutdown" THEN pc' = then /\ UNCHANGED scan ELSE pc' = "scan" /\ scan' = 1
  /\ UNCHANGED <<c, then, todo, owners, led, dev, report, peak, returned, rots>>

(***************************************************************************)
(* finish, in the session's destructor, and stop.                          *)
(***************************************************************************)
CleanupOf(k) ==
  LET items == <<"encode_workspace", "decode_workspace", "compaction", "compressed", "restored",
                 "raw", "tokens", "address0", "address1", "done">>
  IN [i \in 1 .. Len(items) |-> <<k, items[i]>>]

Cleanup[k \in 0 .. N] == IF k = 0 THEN <<>> ELSE Cleanup[k - 1] \o CleanupOf(k)

\* Mutant: finished_ is not set, and the cleanup runs again.
Finish_Unfinished ==
  /\ pc = "finish"
  /\ IF report.error = "contract" THEN Stopping(report.error) /\ UNCHANGED <<todo, then>>
     ELSE pc' = "release" /\ todo' = Cleanup[N] /\ then' = "finish" /\ UNCHANGED report
  /\ UNCHANGED <<c, scan, owners, led, dev, peak, returned, rots>>

Finish ==
  /\ pc = "finish"
  /\ IF report.error = "contract" THEN Stopping(report.error) /\ UNCHANGED <<todo, then>>
     ELSE IF dev.first_error THEN Stopping("refused") /\ UNCHANGED <<todo, then>>
     ELSE pc' = "release" /\ todo' = Cleanup[N] /\ then' = "shutdown" /\ UNCHANGED report
  /\ UNCHANGED <<c, scan, owners, led, dev, peak, returned, rots>>

Shutdown ==
  /\ pc = "shutdown"
  /\ \/ LET r == Snapshot(report)
        IN IF ~r.known \/ r.final.resources # 0 \/ r.final.va # 0 \/ r.final.budget # 0
               \/ r.events = EventsMax \/ (r.verified /\ (~r.proven \/ r.error # "none"))
             THEN Contract
           ELSE IF r.verified
             THEN Noted("ended", [r EXCEPT !.events = @ + 1, !.result = "passed"])
             ELSE Noted("ended", r)
     \/ Stopping("refused")
  /\ UNCHANGED <<c, scan, then, todo, owners, led, dev, peak, returned, rots>>

Stop ==
  /\ pc = "stop"
  /\ pc' = "terminated" /\ report' = Stopped(report, report.error)
  /\ UNCHANGED <<c, scan, then, todo, owners, led, dev, peak, returned, rots>>

Ends == {"ended", "terminated", "denied", "contract", "ledger_refused"}

\* Any call may end the process from inside the backend: reject_ambiguity, or a codec that
\* was started and cannot be proved to have finished.
BackendFatal ==
  /\ pc \notin Ends \cup {"start", "stop", "finish"}
  /\ Fatal
  /\ UNCHANGED <<c, scan, then, todo, owners, led, dev, peak, returned, rots>>

\* corroborate asks allocation(), and a refused answer is a contract failure.
QueryDenied ==
  /\ pc \in {"scan", "write", "encode", "decode"}
  /\ pc = "scan" => \E k \in Retained : k >= scan
  /\ pc' = "denied"
  /\ report' = Finalized([Failed(report, "contract") EXCEPT !.known = FALSE], FALSE)
  /\ UNCHANGED <<c, scan, then, todo, owners, led, dev, peak, returned, rots>>

\* The device damages a copy that holds the payload.
Rot ==
  /\ pc \notin Ends /\ rots < MaxRot
  /\ \E k \in Chunks, s \in {"raw", "compressed", "restored"} :
       /\ Intact(k, s)
       /\ dev' = [dev EXCEPT !.bytes[k, s] = "damaged"]
  /\ rots' = rots + 1
  /\ UNCHANGED <<pc, c, scan, then, todo, owners, led, report, peak, returned>>

Step ==
  \/ Start \/ ScanChunk \/ ScanDone \/ Admit \/ Address \/ Allocate
  \/ WriteSource \/ CheckSource \/ Prepare \/ Encode \/ VerifyEncoded \/ Judge \/ Retain
  \/ TakeSnapshot \/ Decode \/ VerifyDecoded \/ ReadBack \/ Restored
  \/ ReleaseNext \/ Released \/ Finish \/ Shutdown \/ Stop \/ BackendFatal \/ QueryDenied

Ended == pc \in Ends /\ UNCHANGED vars

Next == Step \/ Rot \/ Ended

Spec == Init /\ [][Next]_vars

(***************************************************************************)
(* Properties                                                              *)
(***************************************************************************)
Results == {"planned", "preflight_rejected", "unsupported", "failed", "resource_cap",
            "compression_not_beneficial", "no_physical_savings", "passed"}

\* Every piece of the session's state has its type; charges stay words of the ledger.
TypeOK ==
  /\ pc \in Ends \cup Slots \cup {"start", "scan", "admit_compress", "admit_restore", "address0",
       "address1", "write", "check_source", "prepare", "encode", "verify_encoded", "judge",
       "retained", "snapshot", "decode", "verify_decoded", "read_back", "restored_chunk",
       "release", "finish", "shutdown", "stop"}
  /\ c \in Chunks /\ scan \in 1 .. N + 1 /\ rots \in 0 .. MaxRot
  /\ led \in Ledgers
  /\ \A k \in Chunks : /\ owners[k].charge \in [Slots -> Word]
                       /\ owners[k].own \in [Slots -> Ownerships]
                       /\ owners[k].tokens \in [Slots -> ReservationTokens]
                       /\ owners[k].authority \in Authorities
  /\ report.result \in Results /\ report.events \in 0 .. EventsMax
  /\ dev.ranges \in 0 .. 2 * N /\ dev.leaked \in 0 .. 1 /\ peak \in 0 .. Cap

\* contract() is never reached, and require() never stops on the ledger, unless the backend
\* gave cause: the ledger and the backend agree at every corroboration, no allocation exceeds
\* the stage's admitted peak, every owner's record matches the resource, and the event array
\* is large enough for every path.
ContractNeverBroken == pc \notin {"contract", "ledger_refused"}

\* The peak the report admits bounds what the ledger was ever charged with, whatever the
\* stages returned; it is the number the report's reader compares with the cap.
PeakReported ==
  /\ led["gpu"].peak_charged <= report.peak
  /\ report.peak <= Cap

\* "passed" is published only when every chunk's bytes came back as they were written after
\* all had been resident compressed together, no error was met, and neither the backend nor
\* the ledger holds anything.
PassedIsProven ==
  report.result = "passed" =>
    /\ \A k \in Chunks : returned[k] = "payload" /\ report.chunks[k].at_snapshot
    /\ report.error = "none" /\ report.known
    /\ OwnedResources = 0 /\ OwnedAddresses = 0 /\ Charged = 0

\* From the moment a chunk's source is verified until its round trip is, and until the session
\* starts its final cleanup, the backend owns a representation that was given its bytes.
AlwaysACopy ==
  \A k \in Chunks :
    report.chunks[k].source_verified /\ ~report.chunks[k].round_trip /\ then # "shutdown" =>
      \E s \in {"raw", "compressed", "restored"} : dev.bytes[k, s] # "none"

\* The CRCs in a chunk's report are observations of that chunk: "rather than borrowing another
\* chunk's audit values", on the error paths too.
AuditIsOwn ==
  \A k \in Chunks : report.chunks[k].crcE \in {0, k} /\ report.chunks[k].crcA \in {0, k, Bad}

\* Counts the report calls known are true when the process ends, whichever way it ends: the
\* resources by kind add up to what the backend owns, and the budget to its charge and the
\* reservations; and they are not called known after the backend broke its contract.
FinalReportTrue ==
  pc \in Ends /\ report.known =>
    LET f == report.final
    IN /\ report.error \notin {"contract", "fatal"}
       /\ f.resources = OwnedResources
       /\ f.raw + f.compressed + f.workspace + f.compaction = OwnedResources
       /\ f.va = OwnedAddresses
       /\ f.budget = OwnedCharge + Unmaterialized
=============================================================================
