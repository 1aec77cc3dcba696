------------------------------ MODULE VmmBackend ------------------------------
(***************************************************************************)
(* CudaVmmBackend: the resources, address reservations and completions the *)
(* backend believes it owns, next to what the CUDA driver really holds.    *)
(* The backend's mutex is held during an operation, so one operation runs  *)
(* at a time; each of its driver calls is an action, which succeeds, is    *)
(* refused without an effect, or has an unknown effect and ends the        *)
(* process.  Sizes are counted in allocation granules.  Stored bytes are   *)
(* a value with the form it is stored in; a CRC stands for the bytes it    *)
(* was computed from.                                                      *)
(***************************************************************************)
EXTENDS Integers, FiniteSetsExt

CONSTANTS
  Ids,          \* the identities the backend may give out: 1 .. n
  SlotCount,    \* how many resources fit the table
  BufferCount,  \* how many public reservations fit theirs
  Vas,          \* virtual ranges the driver can give out: 1 .. n
  Values,       \* logical bytes of a chunk, 0 for zeros
  RawCharge,    \* allocation_bound of gpu_raw
  BoundCharge,  \* allocation_bound of gpu_compressed: the output bound of the codec
  Workspaces,   \* the charges a client asks workspaces for
  PhysicalCap,  \* physical_cap_
  Closes,       \* whether the client goes on to close or destroy the backend
  MaxContent,   \* bound on the generations of a content
  MaxFaults,    \* bound on refused calls and bad copies
  None

\* What the constants must satisfy.
VmmConstants ==
  /\ Ids = 1 .. Cardinality(Ids) /\ Vas = 1 .. Cardinality(Vas)
  /\ Cardinality(Vas) >= BufferCount + Cardinality(Ids) + MaxFaults
  /\ 0 \in Values
  /\ {RawCharge, BoundCharge} \cup Workspaces \subseteq Nat \ {0}

VARIABLES
  res,       \* resources_: by identity, None for an empty slot
  nextId,    \* next_resource_id_
  addresses, \* addresses_: the public reservations
  privates,  \* private_addresses_
  context,   \* context_, stream_initialized_
  at, op,    \* where the running operation is, and its arguments
  life,      \* "created", "open", "closing" (the client lets go), "gone", "fatal"
  drv,       \* the driver: reserved ranges, mappings, access, primary context, stream
  phys,      \* the driver: physical allocations, their size and bytes
  faults

vars == <<res, nextId, addresses, privates, context, at, op, life, drv, phys, faults>>
backend == <<res, nextId, addresses, privates, context>>
driver == <<drv, phys>>

-----------------------------------------------------------------------------
Handles == Ids

Stored(form, v) == [form |-> form, value |-> v]
Garbage == Stored("none", 0)

\* What a copy or a codec leaves behind that goes wrong: raw bytes are always some value.
Noise == -1
Spoiled(kind) == IF kind = "raw" THEN Stored("raw", Noise) ELSE Garbage

Live == {r \in Ids : res[r] # None}
Charged(S) == MapThenSumSet(LAMBDA r : res[r].charge, S)
IsRepresentation(r) == res[r].kind \in {"raw", "lz4"}
Mapped(r) == res[r].state \in {"mapped_no_access", "mapped_rw"}

\* What the driver holds at the address of a resource.
BytesOf(r) == phys[res[r].handle].bytes

\* read_all: the stored CRC is checked before anything is decoded.
Readable(r) ==
  /\ IsRepresentation(r)
  /\ res[r].stored.form = res[r].kind
  /\ BytesOf(r) = res[r].stored

\* Mutant: that the bytes can be read is enough.
Verifies_Decodable(r) == IsRepresentation(r) /\ BytesOf(r).form = res[r].kind

\* verify_locked: the logical CRC too.
Verifies(r) == Readable(r) /\ BytesOf(r).value = res[r].crc

\* corroborate: the mapping has read-write access and is the handle's.
Corroborated(r) ==
  /\ res[r].state = "mapped_rw"
  /\ drv.mapping[res[r].va] = res[r].handle /\ res[r].va \in drv.access

Fault == faults < MaxFaults /\ faults' = faults + 1
Sound == faults' = faults

Idle == [mode |-> "none"]
Done == at' = "idle" /\ op' = Idle
Call(label, o) == at' = label /\ op' = o
Ready == at = "idle" /\ life \in {"open", "closing"} /\ context.retained

Init ==
  /\ res = [r \in Ids |-> None]
  /\ nextId = 1
  /\ addresses = {} /\ privates = {}
  /\ context = [retained |-> FALSE, stream |-> FALSE]
  /\ at = "retain" /\ op = Idle
  /\ life = "created"
  /\ drv = [reserved |-> {}, mapping |-> [a \in Vas |-> None], access |-> {},
            context |-> FALSE, stream |-> FALSE]
  /\ phys = [h \in Handles |-> None]
  /\ faults = 0

\* fatal: an answer that leaves the ownership unknown ends the process at once, and so
\* does a call that is refused while the backend cleans up for itself.
Fatal ==
  /\ at # "idle"
  /\ Fault
  /\ life' = "fatal" /\ Done
  /\ UNCHANGED <<backend, driver>>

-----------------------------------------------------------------------------
(* probe: the last steps of create.                                        *)

RetainPrimary ==
  /\ at = "retain"
  /\ drv' = [drv EXCEPT !.context = TRUE]
  /\ context' = [context EXCEPT !.retained = TRUE]
  /\ Call("stream", Idle)
  /\ Sound
  /\ UNCHANGED <<res, nextId, addresses, privates, life, phys>>

RetainRefused ==
  /\ at = "retain"
  /\ Fault
  /\ life' = "gone" /\ Done
  /\ UNCHANGED <<backend, driver>>

InitializeStream ==
  /\ at = "stream"
  /\ drv' = [drv EXCEPT !.stream = TRUE]
  /\ context' = [context EXCEPT !.stream = TRUE]
  /\ life' = "open" /\ Done
  /\ Sound
  /\ UNCHANGED <<res, nextId, addresses, privates, phys>>

\* The half-made backend is destroyed, which gives the context back.
StreamRefused ==
  /\ at = "stream"
  /\ Fault
  /\ Call("destroy", [mode |-> "destroy"])
  /\ UNCHANGED <<backend, driver, life>>

-----------------------------------------------------------------------------
(* Address reservations.                                                   *)

\* The names of ranges and handles mean nothing, as long as the driver gives out none that
\* is in use: the public ranges are numbered from the top, the private ones and the
\* handles like the resources they are for.
PublicName == Max(Vas \ drv.reserved)
PrivateName == Min({a \in Vas \ drv.reserved : a >= nextId})

DriverReserve(a) == drv' = [drv EXCEPT !.reserved = @ \cup {a}]

ReserveAddressSpace(a) ==
  /\ Ready /\ life = "open"
  /\ Cardinality(addresses) < BufferCount
  /\ a = PublicName /\ DriverReserve(a)
  /\ addresses' = addresses \cup {a}
  /\ Sound
  /\ UNCHANGED <<res, nextId, privates, context, at, op, life, phys>>

\* Mutant: what lies in the range is not looked at.
Vacant_Always(a) == TRUE

\* Busy as long as a resource is placed in the range.
Vacant(a) == \A r \in Live : res[r].place # a

ReleaseAddressSpace(a) ==
  /\ Ready
  /\ a \in addresses /\ Vacant(a)
  /\ \/ /\ drv' = [drv EXCEPT !.reserved = @ \ {a}]
        /\ addresses' = addresses \ {a}
        /\ Sound
     \/ Fault /\ UNCHANGED <<drv, addresses>>
  /\ UNCHANGED <<res, nextId, privates, context, at, op, life, phys>>

-----------------------------------------------------------------------------
(* allocate_storage: raw at its place, anything else in a private range.   *)

\* Mutant: the cap is compared with what is already there only.
WithinCap_Before(n) == Charged(Live) <= PhysicalCap

WithinCap(n) == Charged(Live) + n <= PhysicalCap

Allocate(kind, n, place) ==
  /\ Ready /\ life = "open"
  /\ kind = "raw" => place \in addresses /\ Vacant(place)
  /\ WithinCap(n)
  /\ Cardinality(Live) < SlotCount /\ nextId \in Ids
  /\ LET o == [mode |-> "allocate", kind |-> kind, charge |-> n, place |-> place,
               va |-> place]
     IN Call(IF kind = "raw" THEN "create" ELSE "reserve", o)
  /\ Sound
  /\ UNCHANGED <<backend, driver, life>>

ReservePrivate(a) ==
  /\ at = "reserve"
  /\ a = PrivateName /\ DriverReserve(a)
  /\ privates' = privates \cup {a}
  /\ Call("create", [op EXCEPT !.va = a])
  /\ Sound
  /\ UNCHANGED <<res, nextId, addresses, context, life, phys>>

ReserveRefused ==
  /\ at = "reserve"
  /\ Fault /\ Done
  /\ UNCHANGED <<backend, driver, life>>

\* Mutant: the counter stays where it is.
Following_Same(id) == id

\* Identities are never given out twice.
Following(id) == id + 1

\* From here on the backend owns the resource; it is not mapped yet.
CreatePhysical(h) ==
  /\ at = "create"
  /\ h = nextId
  /\ phys' = [phys EXCEPT ![h] = [size |-> op.charge, bytes |-> Garbage]]
  /\ res' = [res EXCEPT ![nextId] =
       [kind |-> op.kind, state |-> "physical_created", handle |-> h, va |-> op.va,
        place |-> op.place, charge |-> op.charge, adopted |-> FALSE, prepared |-> FALSE,
        pages |-> 0, content |-> 0,
        stored |-> IF op.kind = "raw" THEN Stored("raw", 0) ELSE Garbage,
        crc |-> 0, good |-> None]]
  /\ nextId' = Following(nextId)
  /\ Call("map", [mode |-> "allocate", id |-> nextId, va |-> op.va])
  /\ Sound
  /\ UNCHANGED <<addresses, privates, context, life, drv>>

\* Mutant: the private range is forgotten.
CreateRefused_Leaks ==
  /\ at = "create"
  /\ Fault
  /\ privates' = privates \ {op.va} /\ Done
  /\ UNCHANGED <<res, nextId, addresses, context, driver, life>>

CreateRefused ==
  /\ at = "create"
  /\ Fault
  /\ IF op.kind = "raw" THEN Done ELSE Call("free", [mode |-> "allocate", va |-> op.va])
  /\ UNCHANGED <<backend, driver, life>>

Map ==
  /\ at = "map"
  /\ drv' = [drv EXCEPT !.mapping[op.va] = res[op.id].handle]
  /\ res' = [res EXCEPT ![op.id].state = "mapped_no_access"]
  /\ Call("access", op)
  /\ Sound
  /\ UNCHANGED <<nextId, addresses, privates, context, life, phys>>

SetAccess ==
  /\ at = "access"
  /\ drv' = [drv EXCEPT !.access = @ \cup {op.va}]
  /\ res' = [res EXCEPT ![op.id].state = "mapped_rw"]
  /\ IF res[op.id].kind = "raw" THEN Call("fill", op) ELSE Done
  /\ Sound
  /\ UNCHANGED <<nextId, addresses, privates, context, life, phys>>

\* The initial bytes are written and read back; a copy may go wrong.
Fill ==
  /\ at = "fill"
  /\ \/ /\ phys' = [phys EXCEPT ![res[op.id].handle].bytes = res[op.id].stored]
        /\ res' = [res EXCEPT ![op.id].good = res[op.id].crc]
        /\ Done /\ Sound
     \/ /\ Fault
        /\ Call("unmap", op)
        /\ UNCHANGED <<phys, res>>
  /\ UNCHANGED <<nextId, addresses, privates, context, life, drv>>

\* cleanup_failure: everything that was made so far is taken back.
MapRefused ==
  /\ at \in {"map", "access"}
  /\ Fault
  /\ Call(IF Mapped(op.id) THEN "unmap" ELSE "release", op)
  /\ UNCHANGED <<backend, driver, life>>

-----------------------------------------------------------------------------
(* release_locked.                                                         *)

Release(r) ==
  /\ Ready
  /\ r \in Live
  /\ Call(IF Mapped(r) THEN "unmap" ELSE "release", [mode |-> "release", id |-> r, va |-> res[r].va])
  /\ Sound
  /\ UNCHANGED <<backend, driver, life>>

\* Mutant: that the range is no longer mapped is not recorded.
Unmapped_Forgotten(r) == res[r]

Unmapped(r) == [res[r] EXCEPT !.state = "physical_created"]

Unmap ==
  /\ at = "unmap"
  /\ drv.mapping[op.va] # None
  /\ drv' = [drv EXCEPT !.mapping[op.va] = None, !.access = @ \ {op.va}]
  /\ res' = [res EXCEPT ![op.id] = Unmapped(op.id)]
  /\ Call("release", op)
  /\ Sound
  /\ UNCHANGED <<nextId, addresses, privates, context, life, phys>>

\* The destructor goes on with the next owner.
Resume == IF op.mode = "destroy" THEN Call("destroy", [mode |-> "destroy"]) ELSE Done

ReleaseHandle ==
  /\ at = "release"
  /\ phys' = [phys EXCEPT ![res[op.id].handle] = None]
  /\ res' = [res EXCEPT ![op.id] = None]
  /\ IF op.va \in privates THEN Call("free", op) ELSE Resume
  /\ Sound
  /\ UNCHANGED <<nextId, addresses, privates, context, life, drv>>

\* The client's release may be tried again; a clean-up that is refused is fatal (see Fatal).
ReleaseRefused ==
  /\ at \in {"unmap", "release"} /\ op.mode = "release"
  /\ Fault /\ Done
  /\ UNCHANGED <<backend, driver, life>>

FreePrivate ==
  /\ at = "free"
  /\ drv' = [drv EXCEPT !.reserved = @ \ {op.va}]
  /\ privates' = privates \ {op.va}
  /\ Resume
  /\ Sound
  /\ UNCHANGED <<res, nextId, addresses, context, life, phys>>

\* The range stays in the table, for shutdown to try again.
FreeRefused ==
  /\ at = "free"
  /\ Fault
  /\ Resume
  /\ UNCHANGED <<backend, driver, life>>

-----------------------------------------------------------------------------
(* Adoption, and the transfers of adopted resources.                       *)

Adopt(r) ==
  /\ Ready /\ life = "open"
  /\ r \in Live /\ ~res[r].adopted
  /\ Corroborated(r)
  /\ res[r].kind = "raw" => Verifies(r)
  /\ res' = [res EXCEPT ![r].adopted = TRUE]
  /\ Sound
  /\ UNCHANGED <<nextId, addresses, privates, context, at, op, life, driver>>

\* What prepare_transfer and transfer ask of their operands.
Operands(s, d, w) ==
  /\ {s, d, w} \subseteq Live /\ Cardinality({s, d, w}) = 3
  /\ \A r \in {s, d, w} : res[r].adopted
  /\ IsRepresentation(s) /\ IsRepresentation(d) /\ res[w].kind = "workspace"

\* execute_codec up to the launch: the source is read and checked before it.
Launch(s, d, w) ==
  /\ Ready /\ life = "open"
  /\ Operands(s, d, w)
  /\ {res[s].kind, res[d].kind} = {"raw", "lz4"}
  /\ ~res[d].prepared
  /\ Verifies(s)
  /\ Call("codec", [mode |-> "codec", src |-> s, dst |-> d])
  /\ Sound
  /\ UNCHANGED <<backend, driver, life>>

\* Mutant: the reference decoder's verdict is not waited for.
Accepted_Always(bytes, expected, kind) == TRUE

\* The output is decoded and compared with the source byte by byte.
Accepted(bytes, expected, kind) == bytes = Stored(kind, expected)

\* execute_codec once the stream is synchronized: the destination's bytes have been
\* overwritten; metadata and content are published only when the output is accepted.
Synchronize(n) ==
  LET d == op.dst
      s == op.src
  IN
  /\ at = "codec"
  /\ \E bytes \in {Stored(res[d].kind, BytesOf(s).value), Spoiled(res[d].kind)} :
       /\ phys' = [phys EXCEPT ![res[d].handle].bytes = bytes]
       /\ IF bytes = Spoiled(res[d].kind) THEN Fault ELSE Sound
       /\ IF Accepted(bytes, BytesOf(s).value, res[d].kind)
            THEN res' = [res EXCEPT ![d] =
                   [@ EXCEPT !.stored = bytes, !.crc = res[s].crc, !.content = res[s].content,
                             !.pages = n, !.prepared = (res[d].kind = "lz4"),
                             !.good = res[s].crc]]
            ELSE res' = [res EXCEPT ![d].good = None]
  /\ Done
  /\ UNCHANGED <<nextId, addresses, privates, context, life, drv>>

\* Mutant: the table entries are exchanged whole.
Exchanged_Entries(d, k) ==
  [res EXCEPT ![d] = [res[k] EXCEPT !.prepared = FALSE], ![k] = res[d]]

\* The backing of two resources is exchanged, their identities stay.
Exchanged(d, k) ==
  [res EXCEPT ![d] = [@ EXCEPT !.handle = res[k].handle, !.va = res[k].va, !.state = res[k].state,
                               !.charge = res[k].charge, !.prepared = FALSE],
              ![k] = [@ EXCEPT !.handle = res[d].handle, !.va = res[d].va, !.state = res[d].state,
                               !.charge = res[d].charge]]

\* transfer of a prepared destination into its compaction target.
Compact(s, d, w, k) ==
  /\ Ready /\ life = "open"
  /\ Operands(s, d, w) /\ res[d].kind = "lz4" /\ res[d].prepared
  /\ k \in Live \ {s, d, w} /\ res[k].adopted /\ res[k].kind = "workspace"
  /\ res[k].charge <= res[d].charge /\ res[d].pages <= res[k].charge
  /\ Verifies(s) /\ Corroborated(k)
  /\ \E bytes \in {BytesOf(d), Garbage} :
       /\ phys' = [phys EXCEPT ![res[k].handle].bytes = bytes]
       /\ IF bytes = Garbage THEN Fault ELSE Sound
       /\ res' = IF Accepted(bytes, BytesOf(s).value, "lz4") THEN Exchanged(d, k) ELSE res
  /\ UNCHANGED <<nextId, addresses, privates, context, at, op, life, drv>>

-----------------------------------------------------------------------------
(* Writes of raw resources.                                                *)

Writable(r) ==
  /\ Ready /\ life = "open"
  /\ r \in Live /\ res[r].adopted /\ res[r].kind = "raw" /\ res[r].state = "mapped_rw"

\* The holder of a writable lease writes from the device; no CRC follows.
DeviceWrite(r, v) ==
  /\ Writable(r)
  /\ res[r].content < MaxContent
  /\ phys' = [phys EXCEPT ![res[r].handle].bytes = Stored("raw", v)]
  /\ res' = [res EXCEPT ![r].good = None]
  /\ Sound
  /\ UNCHANGED <<nextId, addresses, privates, context, at, op, life, drv>>

Attest(r, v) ==
  res' = [res EXCEPT ![r] = [@ EXCEPT !.stored = Stored("raw", v), !.crc = v, !.good = v,
                                      !.content = @ + 1]]

\* write_content at the end of the lease: both CRCs are computed from what is there.
WriteContent(r) ==
  /\ Writable(r)
  /\ res[r].content < MaxContent
  /\ Attest(r, BytesOf(r).value)
  /\ Sound
  /\ UNCHANGED <<nextId, addresses, privates, context, at, op, life, driver>>

\* write_bytes: checked, merged, written and read back.
WriteBytes(r, v) ==
  /\ Writable(r)
  /\ res[r].content < MaxContent
  /\ Verifies(r)
  /\ \/ /\ phys' = [phys EXCEPT ![res[r].handle].bytes = Stored("raw", v)]
        /\ Attest(r, v)
        /\ Sound
     \/ /\ Fault
        /\ phys' = [phys EXCEPT ![res[r].handle].bytes = Spoiled("raw")]
        /\ res' = [res EXCEPT ![r].good = None]
  /\ UNCHANGED <<nextId, addresses, privates, context, at, op, life, drv>>

-----------------------------------------------------------------------------
(* shutdown and the destructor.                                            *)

\* The client starts to let everything go.
BeginClose ==
  /\ Closes
  /\ at = "idle" /\ life = "open"
  /\ life' = "closing"
  /\ Sound
  /\ UNCHANGED <<backend, at, op, driver>>

\* Mutant: the resources are not looked at.
Unowned_AddressesOnly == addresses = {}

Unowned == Live = {} /\ addresses = {}

Shutdown ==
  /\ Ready /\ life = "closing"
  /\ Unowned
  /\ Call("finish", [mode |-> "shutdown"])
  /\ Sound
  /\ UNCHANGED <<backend, driver, life>>

\* The private ranges first, then the stream, then the context; each step that is done
\* is not done again by the next shutdown.
FinishPrivate(a) ==
  /\ at = "finish"
  /\ a \in privates
  /\ privates' = privates \ {a}
  /\ drv' = [drv EXCEPT !.reserved = @ \ {a}]
  /\ Sound
  /\ UNCHANGED <<res, nextId, addresses, context, at, op, life, phys>>

FinishStream ==
  /\ at = "finish"
  /\ privates = {} /\ context.stream
  /\ context' = [context EXCEPT !.stream = FALSE]
  /\ drv' = [drv EXCEPT !.stream = FALSE]
  /\ Sound
  /\ UNCHANGED <<res, nextId, addresses, privates, at, op, life, phys>>

FinishContext ==
  /\ at = "finish"
  /\ privates = {} /\ ~context.stream
  /\ context' = [context EXCEPT !.retained = FALSE]
  /\ drv' = [drv EXCEPT !.context = FALSE]
  /\ life' = "gone" /\ Done
  /\ Sound
  /\ UNCHANGED <<res, nextId, addresses, privates, phys>>

FinishRefused ==
  /\ at = "finish" /\ op.mode = "shutdown"
  /\ Fault /\ Done
  /\ UNCHANGED <<backend, driver, life>>

\* The destructor releases what is left; whatever is refused now is fatal.
Destroy ==
  /\ Closes
  /\ at = "idle" /\ life \in {"open", "closing"}
  /\ Call("destroy", [mode |-> "destroy"])
  /\ Sound
  /\ UNCHANGED <<backend, driver, life>>

DestroyResource(r) ==
  /\ at = "destroy"
  /\ r \in Live
  /\ Call(IF Mapped(r) THEN "unmap" ELSE "release", [mode |-> "destroy", id |-> r, va |-> res[r].va])
  /\ Sound
  /\ UNCHANGED <<backend, driver, life>>

DestroyAddress(a) ==
  /\ at = "destroy"
  /\ Live = {} /\ a \in addresses
  /\ addresses' = addresses \ {a}
  /\ drv' = [drv EXCEPT !.reserved = @ \ {a}]
  /\ Sound
  /\ UNCHANGED <<res, nextId, privates, context, at, op, life, phys>>

DestroyRest ==
  /\ at = "destroy"
  /\ Unowned
  /\ Call("finish", op)
  /\ Sound
  /\ UNCHANGED <<backend, driver, life>>

-----------------------------------------------------------------------------
\* The rest of an operation that has begun.
Proceed ==
  \/ RetainPrimary \/ RetainRefused \/ InitializeStream \/ StreamRefused
  \/ \E a \in Vas : ReservePrivate(a)
  \/ ReserveRefused
  \/ \E h \in Handles : CreatePhysical(h)
  \/ CreateRefused \/ Map \/ SetAccess \/ MapRefused \/ Fill
  \/ Unmap \/ ReleaseHandle \/ ReleaseRefused \/ FreePrivate \/ FreeRefused
  \/ \E n \in Workspaces \cup {BoundCharge} : Synchronize(n)
  \/ \E a \in Vas : FinishPrivate(a) \/ DestroyAddress(a)
  \/ FinishStream \/ FinishContext \/ FinishRefused
  \/ \E r \in Ids : DestroyResource(r)
  \/ DestroyRest

\* The client lets go of what it has.
LetGo ==
  \/ \E r \in Ids : Release(r)
  \/ \E a \in Vas : ReleaseAddressSpace(a)
  \/ Shutdown

Use ==
  \/ \E a \in Vas : ReserveAddressSpace(a) \/ Allocate("raw", RawCharge, a)
  \/ Allocate("lz4", BoundCharge, None)
  \/ \E n \in Workspaces : Allocate("workspace", n, None)
  \/ \E r \in Ids : Adopt(r) \/ WriteContent(r) \/ \E v \in Values : v # 0 /\ (DeviceWrite(r, v) \/ WriteBytes(r, v))
  \/ \E s, d, w \in Ids : Launch(s, d, w) \/ \E k \in Ids : Compact(s, d, w, k)

Next == Proceed \/ LetGo \/ Use \/ BeginClose \/ Destroy \/ Fatal

\* An operation that has begun goes on, and a client that lets go does not give up.
Fairness == WF_vars(Proceed) /\ WF_vars(life = "closing" /\ LetGo)

Spec == Init /\ [][Next]_vars /\ Fairness

-----------------------------------------------------------------------------
Resource ==
  [kind : {"raw", "lz4", "workspace"}, state : {"physical_created", "mapped_no_access", "mapped_rw"},
   handle : Handles, va : Vas, place : Vas \cup {None}, charge : {RawCharge, BoundCharge} \cup Workspaces,
   adopted : BOOLEAN, prepared : BOOLEAN, pages : 0 .. BoundCharge, content : 0 .. MaxContent,
   stored : [form : {"none", "raw", "lz4"}, value : Values \cup {Noise}],
   crc : Values \cup {Noise}, good : Values \cup {Noise, None}]

TypeOK ==
  /\ \A r \in Live : res[r] \in Resource
  /\ Live \subseteq 1 .. nextId - 1
  /\ addresses \cup privates \subseteq Vas
  /\ life \in {"created", "open", "closing", "gone", "fatal"}
  /\ faults \in 0 .. MaxFaults

Alive == life # "fatal"

\* The tables say exactly what the driver holds, at every driver call and after every
\* refusal: each physical handle, mapping and range has one owner, nothing is leaked and
\* nothing is owned twice, also when compaction has exchanged the backing of two resources.
OwnershipExact ==
  Alive =>
    /\ drv.reserved = addresses \cup privates /\ addresses \cap privates = {}
    /\ {h \in Handles : phys[h] # None} = {res[r].handle : r \in Live}
    /\ \A r, q \in Live : r # q => res[r].handle # res[q].handle /\ res[r].va # res[q].va
    /\ \A a \in Vas : drv.mapping[a] =
         IF \E r \in Live : Mapped(r) /\ res[r].va = a
           THEN res[CHOOSE r \in Live : res[r].va = a].handle ELSE None
    /\ drv.access = {res[r].va : r \in {q \in Live : res[q].state = "mapped_rw"}}

\* What a resource is charged is the physical memory behind it, and all of it together
\* stays within the admitted cap (allocate_storage, transfer's exchange).
ChargeIsPhysical ==
  Alive =>
    /\ \A r \in Live : res[r].charge = phys[res[r].handle].size
    /\ Charged(Live) <= PhysicalCap

\* The CRCs of a resource attest the bytes that are really behind it: whatever the codec,
\* a copy or a read-back gets wrong is never published, and an exchange of the backing
\* carries the bytes along (execute_codec, transfer, write_bytes).
AttestedBytes ==
  Alive => \A r \in Live :
    res[r].good # None /\ res[r].state = "mapped_rw"
      => /\ res[r].stored = Stored(res[r].kind, res[r].good) /\ res[r].crc = res[r].good
         /\ BytesOf(r) = res[r].stored

\* The primary context goes last: no physical memory, mapping, range or stream is left in
\* the driver when it is given back (shutdown, and the destructor of a half-made backend).
NothingOutlivesContext ==
  Alive /\ ~drv.context =>
    /\ \A h \in Handles : phys[h] = None
    /\ drv.reserved = {} /\ ~drv.stream /\ ~context.retained

\* A client that goes on releasing gets the backend shut down, however many releases,
\* frees and shutdowns are refused on the way: none of them leaves a resource that can no
\* longer be released (release_locked, free_private_address, shutdown).
CloseEnds == life = "closing" ~> life \in {"gone", "fatal"}

Kept(r) ==
  IF res[r] = None THEN None
  ELSE [kind |-> IF IsRepresentation(r) THEN "representation" ELSE "workspace",
        charge |-> res[r].charge, adopted |-> res[r].adopted, content |-> res[r].content]

Store == INSTANCE StorageContract WITH
  owned <- [r \in Ids |-> Kept(r)], used <- 1 .. nextId - 1

\* The backend keeps the contract of StorageBackend: fresh identities, adoption without
\* change, charges that only a completed transfer moves, release of whole resources.
ImplementsContract == Store!Contract
=============================================================================
