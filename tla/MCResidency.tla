----------------------------- MODULE MCResidency -----------------------------
(***************************************************************************)
(* Residency on four chunks of three units each.  The codec may produce   *)
(* one or two units (which save), three (no physical saving) or more than  *)
(* the payload; the cap admits a further operation while at most four      *)
(* units are retained, so the fourth one is sometimes refused.             *)
(***************************************************************************)
EXTENDS Residency

SessionLimit == [gpu |-> 40, host |-> 0]
SessionReserve == [gpu |-> 0, host |-> 0]

\* The session and its backend agree about every charge at every step, within the admitted
\* peak, and the ledger never refuses what the session does.
Corroborated == TypeOK /\ ContractNeverBroken /\ PeakReported

\* What the session reports is true, whichever way it ends: "passed" is proven, every CRC is
\* an observation of its own chunk, and the final counts are those of backend and ledger.
ReportIsTrue == PassedIsProven /\ AuditIsOwn /\ FinalReportTrue
=============================================================================
