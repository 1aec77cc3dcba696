------------------------------ MODULE MCBackends ------------------------------
(* Three small components in one run; part says which runs.  The channel,      *)
(* which is extended, takes reports of three kinds of error in a ring of two   *)
(* whose counters stick at MaxWord; Mock has one chunk, its copies, and the    *)
(* corruptions of payload and metadata, or (copies) one resource more, so that *)
(* a compressed copy can be made from a compressed one; Codec launches up to   *)
(* four jobs in two areas, so that jobs share one and also alternate.          *)
EXTENDS AsyncErrors

CONSTANTS
  Ids, Places, ReservationMax, States, Values, CodecSize, Logical, Bound, Corruptions,
  MaxGeneration, MaxFaults, None, MaxJobs, Areas

VARIABLES
  part,
  gStream, gPending, gComplete, gJob, gQueue, gMemory, gSample, gTimed, gJobs, gTaken,
  gAttempts, gAnswer, gAlive,
  mRes, mNextId, mReservations, mNextPlace, mAuthority, mTold, mTruth, mReply, mFaults

codecVars == <<gStream, gPending, gComplete, gJob, gQueue, gMemory, gSample, gTimed, gJobs,
               gTaken, gAttempts, gAnswer, gAlive>>
mockVars == <<mRes, mNextId, mReservations, mNextPlace, mAuthority, mTold, mTruth, mReply,
              mFaults>>
backendVars == <<part, vars, codecVars, mockVars>>

\* Zeros compress well, anything else does not.
MCCodecSize == [v \in Values |-> IF v = 0 THEN 1 ELSE 3]

Codec == INSTANCE GpuCodec WITH
  stream <- gStream, pending <- gPending, complete <- gComplete, job <- gJob, queue <- gQueue,
  memory <- gMemory, sample <- gSample, timed <- gTimed, jobs <- gJobs, taken <- gTaken,
  attempts <- gAttempts, answer <- gAnswer, alive <- gAlive

Mock == INSTANCE MockBackend WITH
  res <- mRes, nextId <- mNextId, reservations <- mReservations, nextPlace <- mNextPlace,
  authority <- mAuthority, told <- mTold, truth <- mTruth, reply <- mReply, faults <- mFaults

ASSUME BackendsAssumption ==
  ChannelConstants /\ Codec!CodecConstants /\ Mock!MockConstants

CodecRests ==
  /\ gStream = None /\ gPending = None /\ gComplete = None /\ gJob = None /\ gQueue = None
  /\ gMemory = None /\ gSample = None /\ gTimed = None /\ gJobs = None /\ gTaken = None
  /\ gAttempts = None /\ gAnswer = None /\ gAlive = None

BackendsInit ==
  /\ Init /\ Mock!Init
  /\ \/ part \in {"mock", "copies", "channel"} /\ CodecRests
     \/ part = "codec" /\ Codec!Init

\* The states each part of the mock uses; the module asks no more of one than whether it is
\* raw, and where the first copy is placed.
PartStates ==
  {"gpu_raw", "workspace"} \cup
    IF part = "mock" THEN {"gpu_compressed", "host_raw"} ELSE {"host_compressed"}

\* What each part leaves out: a fourth resource, or all that is not about copies.
InPart ==
  /\ \A r \in Ids : mRes'[r] # None => mRes'[r].state \in PartStates
  /\ part = "mock" => mNextId' <= 4
  /\ part = "copies" =>
       /\ mReply'.what \notin {"corrupt", "release", "unreserve"} /\ mNextPlace' <= 2
       /\ mFaults' # mFaults => mReply'.what = "transfer"

BackendsNext ==
  \/ part \in {"mock", "copies"} /\ Mock!Next /\ InPart /\ UNCHANGED <<part, vars, codecVars>>
  \/ part = "codec" /\ Codec!Next /\ UNCHANGED <<part, vars, mockVars>>
  \/ part = "channel" /\ Next /\ UNCHANGED <<part, codecVars, mockVars>>

BackendsSpec == BackendsInit /\ [][BackendsNext]_backendVars

\* A client of the mock is never handed bytes or charges that are not genuine, nor a place
\* that is not its own, whatever was corrupted or went wrong before.
ClientIsSafe ==
  Mock!TypeOK /\ Mock!AcceptedIsGenuine /\ Mock!PlacedInReservation /\ Mock!AdoptedAsDescribed

\* The mock keeps the contract of StorageBackend, and its failed transfers leave every charge.
KeepsContract == Mock!ImplementsContract /\ Mock!ErrorsKeepCharges

\* A codec result is the outcome of the job launched last; no work is left on a destroyed
\* stream; a queued publication reads the host buffer of its own job; and every launch is
\* timed once.
CodecKeepsJobsApart ==
  part = "codec" =>
    /\ Codec!TypeOK /\ Codec!ResultIsOwn /\ Codec!QuietAfterClose /\ Codec!HostCopyStable
    /\ Codec!SampledOnce

\* Every report is delivered, retained or counted as dropped, in order, and the first one is
\* never hidden.
ReportsAccounted == ChannelInv /\ EveryReportAccounted /\ HandedInOrder /\ FirstIsHanded
=============================================================================
