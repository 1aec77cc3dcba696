------------------------------- MODULE GpuCodec -------------------------------
(***************************************************************************)
(* The GPU codec adapter (src/backends/nvcomp/nvcomp_lz4_api.cpp) under    *)
(* its timing decorator (src/backends/cuda_vmm/timed_codec.cpp), and the   *)
(* stream it owns.  The device works the stream's queue off on its own:    *)
(* a job is published to the device by copying the adapter's host buffer,  *)
(* which the copy reads when it runs, and then coded.  A call that fails   *)
(* after its first enqueue does not say whether the work is on the stream. *)
(* Callers may call in any order; the context may not be the current one.  *)
(***************************************************************************)
EXTENDS Naturals, Sequences

CONSTANTS
  MaxJobs, \* bound: launches that reach the stream
  Areas,   \* where a job's metadata may lie on the device
  None

\* What the constants must satisfy.
CodecConstants == MaxJobs \in Nat \ {0} /\ Areas # {}

VARIABLES
  stream,   \* stream_ is owned
  pending,  \* pending_
  complete, \* complete_
  job,      \* job_: the host buffer, None before the first launch
  queue,    \* the work on the stream, oldest first
  memory,   \* what the device's metadata areas hold
  sample,   \* the decorator's sample_ is running
  timed,    \* how many samples it has recorded
  jobs,     \* launches that reached the stream; their numbers identify jobs
  taken,    \* the last job whose launch was accepted
  attempts, \* launches called
  answer,   \* the last call's answer
  alive     \* the adapter has not been destroyed

vars == <<stream, pending, complete, job, queue, memory, sample, timed, jobs, taken, attempts, answer, alive>>

Jobs == [id : 1 .. MaxJobs, area : Areas]
NoAnswer == [ok |-> FALSE, of |-> None, saw |-> None]
Refused == answer' = NoAnswer
Accepted == answer' = [NoAnswer EXCEPT !.ok = TRUE]

Init ==
  /\ stream = FALSE /\ pending = FALSE /\ complete = FALSE /\ job = None
  /\ queue = <<>> /\ memory = [a \in Areas |-> None]
  /\ sample = FALSE /\ timed = 0 /\ jobs = 0 /\ taken = 0 /\ attempts = 0
  /\ answer = NoAnswer /\ alive = TRUE

\* initialize: a stream that is refused leaves none; a second call is busy.
Initialize ==
  /\ alive
  /\ \/ ~stream /\ stream' = TRUE /\ Accepted
     \/ Refused /\ UNCHANGED stream
  /\ UNCHANGED <<pending, complete, job, queue, memory, sample, timed, jobs, taken, attempts, alive>>

\* Mutant: a launch does not look at the job before.
LaunchReady_Overlaps == stream

LaunchReady == stream /\ ~pending

\* What a launch may leave on the stream: both pieces of work when it succeeds, and any
\* prefix of them when one of the two enqueues reports an error.
Work(j) == <<[kind |-> "publish", area |-> j.area, id |-> j.id],
             [kind |-> "code", area |-> j.area, id |-> j.id]>>

\* sample_.emplace ends the sample that was running, if there was one.
Emplaced == IF sample THEN timed + 1 ELSE timed

\* Mutant: pending is set after the launch, when it is known to have succeeded.
Submitted_Late(ok) == pending' = ok /\ complete' = FALSE

\* Set before the first enqueue: "an error cannot prove that nothing is in flight".
Submitted(ok) == pending' = TRUE /\ complete' = FALSE

Launch ==
  /\ alive /\ attempts < 2 * MaxJobs
  /\ attempts' = attempts + 1
  /\ \/ /\ LaunchReady /\ jobs < MaxJobs
        /\ \E area \in Areas, sent \in 0 .. 2, ok \in BOOLEAN :
             /\ ok => sent = 2
             /\ jobs' = jobs + 1
             /\ job' = [id |-> jobs + 1, area |-> area]
             /\ queue' = queue \o SubSeq(Work(job'), 1, sent)
             /\ Submitted(ok)
             /\ taken' = IF ok THEN jobs + 1 ELSE taken
             /\ IF ok THEN Accepted /\ sample' = TRUE /\ timed' = Emplaced
                      ELSE Refused /\ sample' = FALSE /\ timed' = Emplaced + 1
     \/ /\ Refused /\ sample' = FALSE /\ timed' = Emplaced + 1
        /\ UNCHANGED <<jobs, taken, job, queue, pending, complete>>
  /\ UNCHANGED <<stream, memory, alive>>

\* Mutant: the sample is dropped without being recorded.
ResetSample_Forgets == sample' = FALSE /\ UNCHANGED timed

\* sample_.reset
ResetSample == sample' = FALSE /\ timed' = Emplaced

\* Mutant: another stream is waited for.
StreamDone_OfAnother == TRUE

StreamDone == queue = <<>>

\* synchronize returns when the stream is empty, or with an error at any time.
Synchronize ==
  /\ alive
  /\ \/ /\ stream /\ pending /\ StreamDone
        /\ pending' = FALSE /\ complete' = TRUE /\ Accepted /\ UNCHANGED <<sample, timed>>
     \/ Refused /\ ResetSample /\ UNCHANGED <<pending, complete>>
  /\ UNCHANGED <<stream, job, queue, memory, jobs, taken, attempts, alive>>

ResultReady == complete /\ ~pending

\* result reads the device's copy of the metadata, which carries the job's outcome.
Result ==
  /\ alive
  /\ \/ /\ ResultReady
        /\ answer' = [ok |-> TRUE, of |-> job.id, saw |-> memory[job.area]]
     \/ Refused
  /\ ResetSample
  /\ UNCHANGED <<stream, pending, complete, job, queue, memory, jobs, taken, attempts, alive>>

\* Mutant: shutdown destroys the stream without asking for the job on it.
Closable_Busy == stream

Closable == stream /\ ~pending

Shutdown ==
  /\ alive
  /\ \/ Closable /\ stream' = FALSE /\ complete' = FALSE /\ Accepted
     \/ ~stream /\ Accepted /\ UNCHANGED <<stream, complete>>
     \/ stream /\ Refused /\ UNCHANGED <<stream, complete>>
  /\ UNCHANGED <<pending, job, queue, memory, sample, timed, jobs, taken, attempts, alive>>

\* The destructor terminates the process while the stream is owned; else a running sample ends.
Destroy ==
  /\ alive /\ ~stream
  /\ alive' = FALSE /\ ResetSample
  /\ UNCHANGED <<stream, pending, complete, job, queue, memory, jobs, taken, attempts, answer>>

\* The device takes the oldest work.  A publication copies what the host buffer holds now.
Device ==
  /\ queue # <<>>
  /\ LET w == Head(queue)
     IN memory' = [memory EXCEPT ![w.area] =
          IF w.kind = "publish" THEN [id |-> job.id, done |-> FALSE]
          ELSE IF @ = None THEN @ ELSE [@ EXCEPT !.done = TRUE]]
  /\ queue' = Tail(queue)
  /\ UNCHANGED <<stream, pending, complete, job, sample, timed, jobs, taken, attempts, answer, alive>>

Destroyed == ~alive /\ UNCHANGED vars

Next ==
  \/ Initialize \/ Launch \/ Synchronize \/ Result \/ Shutdown \/ Destroy \/ Device \/ Destroyed

Spec == Init /\ [][Next]_vars

(***************************************************************************)
(* Properties                                                              *)
(***************************************************************************)
\* The adapter's state has its type, and never more than one job's work is on the stream.
TypeOK ==
  /\ {stream, pending, complete, sample, alive} \subseteq BOOLEAN
  /\ job \in Jobs \cup {None}
  /\ Len(queue) <= 2
  /\ \A a \in Areas : memory[a] \in [id : 1 .. MaxJobs, done : BOOLEAN] \cup {None}
  /\ jobs \in 0 .. MaxJobs /\ attempts \in 0 .. 2 * MaxJobs /\ timed \in 0 .. attempts

\* A result is the outcome of the job launched last, and that job's coding had run: never the
\* outcome of an earlier job in the same area, nor metadata just published.  (After a launch
\* that was refused the adapter promises nothing, and the backend ends the process.)
ResultIsOwn ==
  answer.ok /\ answer.of = taken /\ taken = jobs /\ taken # 0 => answer.saw = [id |-> answer.of, done |-> TRUE]

\* No work is left on a stream that was destroyed, although an enqueue that failed may have
\* put some there: shutdown and the destructor refuse until completion is proved.
QuietAfterClose == ~stream => queue = <<>>

\* The host buffer a queued publication will read still belongs to the publication's job.
HostCopyStable ==
  \A i \in DOMAIN queue : queue[i].kind = "publish" => job # None /\ job.id = queue[i].id

\* The decorator records every launch exactly once, whatever failed on the way.
SampledOnce == timed + (IF sample THEN 1 ELSE 0) = attempts
===============================================================================
