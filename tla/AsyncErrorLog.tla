---------------------------- MODULE AsyncErrorLog ----------------------------
(***************************************************************************)
(* What the async error channel promises its reader: a bounded queue of    *)
(* distinct errors in the order of their first occurrence, each with the   *)
(* number of times it was reported, the very first error, which is kept    *)
(* for ever, and a count of the reports that found no room.                *)
(***************************************************************************)
EXTENDS Naturals, Sequences

CONSTANTS
  Errors,   \* the values an Error can take
  Capacity, \* how many distinct errors are retained
  Report(_) \* how a counter advances: it may stick at the top of its range

VARIABLES
  queue, \* the retained records, oldest first
  first, \* <<>> or the first error ever reported
  lost   \* the reports that were dropped

logVars == <<queue, first, lost>>

LogInit ==
  /\ queue = <<>>
  /\ first = <<>>
  /\ lost = 0

Remember(e) == first' = IF first = <<>> THEN <<e>> ELSE first

Again(e) ==
  \E i \in 1 .. Len(queue) :
    /\ queue[i].error = e
    /\ queue' = [queue EXCEPT ![i].repeat_count = Report(@)]
    /\ lost' = lost

New(e) ==
  /\ \A i \in 1 .. Len(queue) : queue[i].error # e
  /\ \/ /\ Len(queue) < Capacity
        /\ queue' = Append(queue, [error |-> e, repeat_count |-> 1])
        /\ lost' = lost
     \/ /\ Len(queue) = Capacity
        /\ queue' = queue
        /\ lost' = Report(lost)

Take ==
  /\ queue # <<>>
  /\ queue' = Tail(queue)
  /\ UNCHANGED <<first, lost>>

LogNext ==
  \/ \E e \in Errors : Remember(e) /\ (Again(e) \/ New(e))
  \/ Take

LogSpec == LogInit /\ [][LogNext]_logVars
=============================================================================
