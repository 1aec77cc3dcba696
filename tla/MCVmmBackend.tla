----------------------------- MODULE MCVmmBackend -----------------------------
(* The CUDA backend twice in one run; part says which.  The extended one       *)
(* ("main") compresses and restores a chunk in a few granules of memory; Close *)
(* has three resources only, but writes them, and lets everything go again.    *)
EXTENDS VmmBackend

CONSTANTS CloseIds, CloseValues

VARIABLES part, kRes, kNextId, kAddresses, kPrivates, kContext, kAt, kOp, kLife, kDrv, kPhys, kFaults

closeVars == <<kRes, kNextId, kAddresses, kPrivates, kContext, kAt, kOp, kLife, kDrv, kPhys, kFaults>>
backendVars == <<part, vars, closeVars>>

Three == 3
One == 1
Yes == TRUE

Close == INSTANCE VmmBackend WITH
  res <- kRes, nextId <- kNextId, addresses <- kAddresses, privates <- kPrivates,
  context <- kContext, at <- kAt, op <- kOp, life <- kLife, drv <- kDrv, phys <- kPhys,
  faults <- kFaults,
  Ids <- CloseIds, SlotCount <- Three, Values <- CloseValues, Closes <- Yes, MaxContent <- One

ASSUME BackendAssumption == VmmConstants /\ Close!VmmConstants

BackendInit ==
  /\ Init /\ Close!Init
  /\ part \in {"main", "close"}

InClose(A) == part = "close" /\ A /\ UNCHANGED <<part, vars>>

BackendNext ==
  \/ part = "main" /\ Next /\ UNCHANGED <<part, closeVars>>
  \/ InClose(Close!Next)

\* As in VmmBackend: an operation that has begun goes on, and a client that lets go does not
\* give up.
BackendFairness ==
  /\ WF_backendVars(InClose(Close!Proceed))
  /\ WF_backendVars(InClose(kLife = "closing" /\ Close!LetGo))

BackendSpec == BackendInit /\ [][BackendNext]_backendVars /\ BackendFairness

\* What the CUDA backend believes it owns is what the driver holds, at every driver call and
\* after every refusal, and a charge is the physical memory behind it.
OwnershipKept == TypeOK /\ OwnershipExact /\ ChargeIsPhysical /\ AttestedBytes

\* The same while everything is written, released and shut down or destroyed; and nothing is
\* left in the driver when the primary context is given back.
ClosingSafe ==
  /\ Close!TypeOK /\ Close!OwnershipExact /\ Close!ChargeIsPhysical /\ Close!AttestedBytes
  /\ Close!NothingOutlivesContext

\* A client that goes on releasing gets its backend shut down, whatever is refused on the way.
ClosingEnds == Close!CloseEnds
=============================================================================
