--------------------------- MODULE StorageContract ---------------------------
(***************************************************************************)
(* What StorageBackend promises the runtime about the resources it owns    *)
(* (the contract the Transaction module builds on), without bytes, driver  *)
(* calls or faults.  A failed call is a step that changes nothing, or one  *)
(* that spoils only the private destination of a transfer.                 *)
(***************************************************************************)
EXTENDS Integers

CONSTANTS Ids, None

VARIABLES
  owned, \* the resources: kind, charge, adopted, content; None when not owned
  used   \* the identities that have been given out

cvars == <<owned, used>>

CInit ==
  /\ owned = [r \in Ids |-> None]
  /\ used = {}

Owns(r) == owned[r] # None

\* A new resource has an identity that was never used, and is not adopted.
CAllocate(r) ==
  /\ r \notin used
  /\ used' = used \cup {r}
  /\ owned'[r] # None /\ ~owned'[r].adopted
  /\ owned' = [owned EXCEPT ![r] = owned'[r]]

\* Adoption keeps the description, exactly.
CAdopt(r) ==
  /\ Owns(r) /\ ~owned[r].adopted
  /\ owned' = [owned EXCEPT ![r].adopted = TRUE]
  /\ UNCHANGED used

\* The bytes of a private destination change, no charge does.
CPopulate(d) ==
  /\ Owns(d) /\ owned[d].adopted
  /\ owned'[d] # None
  /\ owned' = [owned EXCEPT ![d].content = owned'[d].content]
  /\ UNCHANGED used

\* The destination takes a smaller charge; a compaction target takes the old one.
CTransfer(d, k) ==
  /\ Owns(d) /\ owned[d].adopted
  /\ owned'[d] # None
  /\ owned'[d].charge <= owned[d].charge
  /\ IF k = d
       THEN owned' = [owned EXCEPT ![d].charge = owned'[d].charge, ![d].content = owned'[d].content]
       ELSE /\ Owns(k) /\ owned[k].adopted /\ owned[k].kind = "workspace"
            /\ owned' = [owned EXCEPT ![d].charge = owned[k].charge, ![k].charge = owned[d].charge]
  /\ UNCHANGED used

\* A release takes the whole resource, and it never comes back.
CRelease(r) ==
  /\ Owns(r)
  /\ owned' = [owned EXCEPT ![r] = None]
  /\ UNCHANGED used

\* A step is about the resources it changes.
Changed == {r \in Ids : owned'[r] # owned[r]}

CNext ==
  \E r \in Changed :
    \/ CAllocate(r) \/ CAdopt(r) \/ CPopulate(r) \/ CRelease(r)
    \/ \E k \in Changed : CTransfer(r, k)

Contract == CInit /\ [][CNext]_cvars
=============================================================================
