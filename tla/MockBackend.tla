------------------------------ MODULE MockBackend ------------------------------
(***************************************************************************)
(* MockBackend: the storage backend the runtime is tested with.  It keeps  *)
(* real bytes, compresses them, and lies or fails on request.  Every       *)
(* method runs under the backend's mutex, so one method is one action; its *)
(* client is the coordinator, which populates private destinations from    *)
(* the authoritative copy of one chunk and moves the authority once a      *)
(* transfer has been verified.  Bytes are a value with the damage done to  *)
(* it; a CRC stands for the bytes it was computed from; sizes are counted  *)
(* in granules.                                                            *)
(***************************************************************************)
EXTENDS Integers, FiniteSetsExt

CONSTANTS
  Ids,            \* the identities the backend may give out: 1 .. n
  Places,         \* addresses it may reserve: 1 .. n, one chunk each
  ReservationMax, \* size of reservations_
  States,         \* the representations in use
  Values,         \* logical contents of the chunk, 0 for zeros
  CodecSize,      \* the compressed size of each value
  Logical,        \* the logical size of the chunk
  Bound,          \* maximum_compressed_size, which is also the workspace bound
  Corruptions,    \* the corruptions a test may ask for
  MaxGeneration,  \* bound on writes
  MaxFaults,      \* bound on injected failures and corruptions
  None

AllStates == {"gpu_raw", "gpu_compressed", "host_raw", "host_compressed"}

\* What the constants must satisfy.
MockConstants ==
  /\ Ids = 1 .. Cardinality(Ids) /\ Places = 1 .. Cardinality(Places)
  /\ States \subseteq AllStates
  /\ 0 \in Values /\ \A v \in Values : CodecSize[v] \in 1 .. Bound
  /\ Logical \in 1 .. Bound

VARIABLES
  res,          \* resources_
  nextId,       \* next_resource_id_
  reservations, \* reservations_
  nextPlace,    \* next_device_address_
  authority,    \* client: the resource the chunk's content is served from
  told,         \* client: whether it was told the truth about a resource it allocated
  truth,        \* history: the bytes that were written under each generation
  reply,        \* the last answer
  faults

vars == <<res, nextId, reservations, nextPlace, authority, told, truth, reply, faults>>
tables == <<res, nextId, reservations, nextPlace>>
client == <<authority, told, truth>>

-----------------------------------------------------------------------------
IsRaw(state) == state \in {"gpu_raw", "host_raw"}
EncodingFor(state) == IF IsRaw(state) THEN "raw" ELSE "lz4"

\* Corruption is by exclusive or: the same one twice is none.
Xor(A, B) == (A \ B) \cup (B \ A)

\* Logical bytes, and what is stored: them, or their encoding, which can be damaged too.
Plain(v, d) == [value |-> v, damage |-> d]
Raw(p) == [form |-> "raw", plain |-> p, damage |-> {}]
Lz4(p) == [form |-> "lz4", plain |-> p, damage |-> {}]
Junk == [value |-> -1, damage |-> {}]
Zeros == Raw(Plain(0, {}))

\* The CRC of the first n of them.
Crc(bytes, n) == [of |-> bytes, size |-> n, flip |-> {}]

ContentTag(g) == [generation |-> g, flip |-> {}]

Live == {r \in Ids : res[r] # None}
IsRepresentation(r) == res[r].state # "workspace"
Owned(r) == r \in Live

Fault == faults < MaxFaults /\ faults' = faults + 1
Sound == faults' = faults

Answer(what, good) == reply' = [what |-> what, ok |-> good, to |-> None]
Fails(what) == Fault /\ Answer(what, FALSE)

Init ==
  /\ res = [r \in Ids |-> None] /\ nextId = 1
  /\ reservations = {} /\ nextPlace = 1
  /\ authority = None
  /\ told = [r \in Ids |-> "nothing"]
  /\ truth = [g \in {0} |-> Plain(0, {})]
  /\ reply = [what |-> "nothing", ok |-> TRUE, to |-> None]
  /\ faults = 0

-----------------------------------------------------------------------------
(* Addresses: never given out twice, never released under a resource.      *)

ReserveAddressSpace ==
  /\ \/ /\ Cardinality(reservations) < ReservationMax /\ nextPlace \in Places
        /\ reservations' = reservations \cup {nextPlace}
        /\ nextPlace' = nextPlace + 1
        /\ Sound /\ Answer("reserve", TRUE)
     \/ Fails("reserve") /\ UNCHANGED <<reservations, nextPlace>>
  /\ UNCHANGED <<res, nextId, client>>

\* Mutant: what lies in the range is not looked at.
Vacant_Always(a) == TRUE

Vacant(a) == \A r \in Live : res[r].place # a

ReleaseAddressSpace(a) ==
  /\ a \in reservations /\ Vacant(a)
  /\ \/ /\ reservations' = reservations \ {a}
        /\ Sound /\ Answer("unreserve", TRUE)
     \/ Fails("unreserve") /\ UNCHANGED reservations
  /\ UNCHANGED <<res, nextId, nextPlace, client>>

-----------------------------------------------------------------------------
(* allocate, for representations and workspaces.                           *)

\* computed_charge
ComputedCharge(state) == IF IsRaw(state) THEN Logical ELSE Bound

NewResource(state, charge, place, content) ==
  [state |-> state, charge |-> charge, place |-> place, adopted |-> FALSE,
   content |-> content, encoding |-> EncodingFor(state),
   logical |-> Logical, stored |-> IF IsRaw(state) THEN Logical ELSE 0,
   crc |-> IF IsRaw(state) THEN Crc(Zeros.plain, Logical) ELSE Crc(Junk, 0),
   storedCrc |-> IF IsRaw(state) THEN Crc(Zeros, Logical) ELSE Crc(Junk, 0),
   bytes |-> Zeros, room |-> charge]

\* The description that goes with a new resource may be false (provisional_*_mismatch);
\* the resource exists all the same.
Insert(r) ==
  /\ nextId \in Ids
  /\ res' = [res EXCEPT ![nextId] = r]
  /\ nextId' = nextId + 1
  /\ \/ told' = [told EXCEPT ![nextId] = "truth"] /\ Sound
     \/ told' = [told EXCEPT ![nextId] = "lie"] /\ Fault
  /\ Answer("allocate", TRUE)

\* Refused; or the answer names no resource, or one that exists already.
AllocateFails == Fails("allocate") /\ UNCHANGED <<tables, client>>

\* The first copy is written where it will stay; the others are private destinations for
\* the current content.
AllocateRepresentation(state, place) ==
  /\ IF state = "gpu_raw" THEN place \in reservations /\ Vacant(place) ELSE place = None
  /\ authority # None \/ (state = "gpu_raw" /\ nextId = 1)
  /\ Insert(NewResource(state, ComputedCharge(state), place, ContentTag(Max(DOMAIN truth))))
  /\ UNCHANGED <<reservations, nextPlace, authority, truth>>

AllocateWorkspace ==
  /\ authority # None /\ \A r \in Live : IsRepresentation(r)
  /\ Insert([NewResource("workspace", Bound, None, ContentTag(0)) EXCEPT !.encoding = "raw"])
  /\ UNCHANGED <<reservations, nextPlace, authority, truth>>

\* Mutant: the description is taken as it comes.
Described_Any(r) == TRUE

\* adopt_allocation compares every field with what is stored.
Described(r) == told[r] = "truth"

Adopt(r) ==
  /\ Owned(r) /\ ~res[r].adopted
  /\ \/ /\ Described(r)
        /\ res' = [res EXCEPT ![r].adopted = TRUE]
        /\ authority' = IF authority = None /\ r = 1 THEN r ELSE authority
        /\ Sound /\ Answer("adopt", TRUE)
     \/ Fails("adopt") /\ UNCHANGED <<res, authority>>
  /\ UNCHANGED <<nextId, reservations, nextPlace, told, truth>>

-----------------------------------------------------------------------------
(* logical_bytes and verify_locked.                                        *)

\* What the codec makes of the stored bytes: from damaged ones, an error or junk.
Decompressed(x) ==
  IF /\ x.bytes.form = "lz4" /\ x.bytes.damage = {}
     /\ x.stored = CodecSize[x.bytes.plain.value] /\ x.logical = Logical
    THEN x.bytes.plain ELSE Junk

StoredIntact(x) == x.stored <= x.room /\ Crc(x.bytes, x.stored) = x.storedCrc

\* The room of workspace w, None for no workspace.
Room(w) == IF w = None THEN 0 ELSE res[w].room

Readable(x, w) ==
  /\ StoredIntact(x)
  /\ IF IsRaw(x.state)
       THEN x.encoding = "raw" /\ x.stored = x.logical /\ x.room >= x.logical
       ELSE /\ x.encoding = "lz4" /\ x.stored <= x.charge /\ Room(w) >= x.logical
            /\ Decompressed(x) # Junk

LogicalBytes(x) == IF IsRaw(x.state) THEN x.bytes.plain ELSE Decompressed(x)

\* Mutant: the tag is not compared.
VerifyLocked_AnyTag(x, tag, w) ==
  /\ x.encoding = EncodingFor(x.state)
  /\ Readable(x, w)
  /\ Crc(LogicalBytes(x), x.logical) = x.crc

VerifyLocked(x, tag, w) ==
  /\ x.content = tag /\ x.encoding = EncodingFor(x.state)
  /\ Readable(x, w)
  /\ Crc(LogicalBytes(x), x.logical) = x.crc

-----------------------------------------------------------------------------
(* transfer: the destination is written over in place; only the last step, *)
(* compaction, which can no longer fail, changes what it is charged.       *)

\* Mutant: the CRC is taken from the source's bytes as they are now.
Headed_Recomputed(s, d) ==
  [res[d] EXCEPT !.content = res[s].content, !.logical = res[s].logical,
                 !.crc = Crc(LogicalBytes(res[s]), res[s].logical)]

\* What is written before anything can fail.
Headed(s, d) == [res[d] EXCEPT !.content = res[s].content, !.logical = res[s].logical,
                               !.crc = res[s].crc]

\* compact_compressed: room for the result is found in the workspace, before the charge.
CanCompact(stored, d, w) ==
  /\ w # None
  /\ stored <= res[d].room /\ stored <= res[w].room

\* Mutant: charged as soon as the bytes are there.
Encoded_Charged(x, bytes, stored) ==
  [x EXCEPT !.encoding = "lz4", !.bytes = bytes, !.charge = stored]

\* The destination between the codec and compaction.
Encoded(x, bytes, stored) == [x EXCEPT !.encoding = "lz4", !.bytes = bytes]

\* Mutant: both backings stay charged.
Compacted_Both(x, stored) ==
  [x EXCEPT !.charge = @ + stored, !.room = stored, !.stored = stored]

Compacted(x, stored) ==
  [x EXCEPT !.charge = stored, !.room = stored, !.stored = stored]

\* A finished destination; corrupt_content damages it after its CRC was taken.
Finish(x, d, w, swaps) ==
  \E damage \in {{}, {"flip"}} :
    /\ res' = [r \in Ids |->
         IF r = d THEN [x EXCEPT !.storedCrc = Crc(x.bytes, x.stored),
                                 !.bytes = IF damage = {} THEN @
                                   ELSE IF @.form = "raw" THEN [@ EXCEPT !.plain.damage = Xor(@, damage)]
                                   ELSE [@ EXCEPT !.damage = Xor(@, damage)]]
         ELSE IF r = w /\ swaps THEN [res[w] EXCEPT !.room = res[d].room]
         ELSE res[r]]
    /\ IF damage = {} THEN Sound ELSE Fault
    /\ Answer("transfer", TRUE)

\* The bytes source s is encoded with; the codec reads it without looking at its CRC.
Payload(s) == IF IsRaw(res[s].state) THEN Lz4(res[s].bytes.plain) ELSE res[s].bytes
PayloadSize(s) ==
  IF IsRaw(res[s].state) THEN CodecSize[res[s].bytes.plain.value] ELSE res[s].stored

CopyRaw(s, d) ==
  [Headed(s, d) EXCEPT !.bytes = Raw(LogicalBytes(res[s])), !.encoding = "raw",
                       !.stored = res[s].logical]

\* An error leaves the destination as far as it got, its stored CRC as it was.
TransferStops(d, x) ==
  /\ res' = [res EXCEPT ![d] = x]
  /\ Answer("transfer", FALSE)

\* The codec works in the destination's own bytes: refused, it leaves some of left there.
RefusedByCodec(s, d, left) ==
  \E bytes \in left \cup {res[d].bytes} : TransferStops(d, [Headed(s, d) EXCEPT !.bytes = bytes])

\* An encoding that is not complete.
Torn(s) == [Payload(s) EXCEPT !.damage = @ \cup {"torn"}]

\* From damaged bytes the codec makes an error or junk of the right size; an output that is
\* complete may still be refused (decompression_size_mismatch).
ToRaw(s, d, w) ==
  \/ /\ IsRaw(res[s].state)
     /\ \/ Fault /\ TransferStops(d, Headed(s, d))  \* raw_copy
        \/ Finish(CopyRaw(s, d), d, w, FALSE)
  \/ ~IsRaw(res[s].state) /\ w = None /\ Sound /\ TransferStops(d, Headed(s, d))
  \/ /\ ~IsRaw(res[s].state) /\ w # None
     /\ \/ Fault /\ TransferStops(d, Headed(s, d))  \* decompression
        \/ Fault /\ TransferStops(d, [Headed(s, d) EXCEPT !.bytes = Raw(LogicalBytes(res[s]))])
        \/ /\ Decompressed(res[s]) = Junk
           /\ Sound /\ RefusedByCodec(s, d, {Raw(Junk), Raw(res[s].bytes.plain)})
        \/ Finish(CopyRaw(s, d), d, w, FALSE)

\* The codec may refuse a room below its bound; a copy is refused one that is too small.
ToCompressed(s, d, w) ==
  LET size == PayloadSize(s)
      x == Encoded(Headed(s, d), Payload(s), size)
  IN \/ Fault /\ TransferStops(d, Headed(s, d))  \* compression, compressed_copy
     \/ /\ IsRaw(res[s].state) /\ res[d].room < Bound
        /\ Sound /\ RefusedByCodec(s, d, {Torn(s)})
     \/ ~IsRaw(res[s].state) /\ size > res[d].room /\ Sound /\ TransferStops(d, Headed(s, d))
     \/ /\ size <= res[d].room
        /\ IF CanCompact(size, d, w) THEN Fault ELSE Sound
        /\ TransferStops(d, x)
     \/ /\ CanCompact(size, d, w)
        /\ Finish(Compacted(x, size), d, w, TRUE)

\* The source is within its bytes: verify_authoritative has refused it otherwise.
InBounds(s) == res[s].stored \in 1 .. res[s].room /\ res[s].logical = Logical

Transfer(s, d, w) ==
  /\ s = authority /\ d # s /\ InBounds(s)
  /\ \A r \in {d, w} \cap Live : res[r].adopted
  /\ \/ Fails("transfer") /\ UNCHANGED res  \* ambiguous_transfer, transfer
     \/ /\ Owned(d) /\ IsRepresentation(d)
        /\ w # None => Owned(w) /\ ~IsRepresentation(w)
        /\ IF IsRaw(res[d].state) THEN ToRaw(s, d, w) ELSE ToCompressed(s, d, w)
  /\ UNCHANGED <<nextId, reservations, nextPlace, client>>

\* What verify_transfer compares once the destination verifies by itself.
Same(s, d, w) ==
  LET x == res[s]
      y == res[d]
  IN CASE IsRaw(x.state) = IsRaw(y.state) ->
            /\ x.logical = y.logical /\ x.stored = y.stored /\ x.crc = y.crc
            /\ ~IsRaw(x.state) => x.encoding = y.encoding
            /\ x.bytes = y.bytes
       [] OTHER ->
            LET raw == IF IsRaw(x.state) THEN x ELSE y
                encoded == IF IsRaw(x.state) THEN y ELSE x
            IN /\ Room(w) >= encoded.logical
               /\ Decompressed(encoded) = raw.bytes.plain
               /\ Crc(Decompressed(encoded), encoded.logical) = encoded.crc

\* The coordinator commits to what was accepted.
VerifyTransfer(d, w, tag) ==
  /\ authority # None /\ d # authority /\ Owned(d) /\ IsRepresentation(d) /\ res[d].adopted
  /\ InBounds(authority)
  /\ w # None => Owned(w) /\ ~IsRepresentation(w)
  /\ \/ /\ VerifyLocked(res[d], tag, w) /\ Same(authority, d, w)
        /\ authority' = d
        /\ reply' = [what |-> "verify_transfer", ok |-> TRUE, to |-> tag] /\ Sound
     \/ Fails("verify_transfer") /\ UNCHANGED authority
     \/ /\ ~(VerifyLocked(res[d], tag, w) /\ Same(authority, d, w))
        /\ Answer("verify_transfer", FALSE) /\ Sound /\ UNCHANGED authority
  /\ UNCHANGED <<tables, told, truth>>

-----------------------------------------------------------------------------
(* Writes, which take new CRCs from whatever the bytes have become.        *)

WriteBytes(v) ==
  LET r == authority
      p == Plain(v, res[r].bytes.plain.damage)
      g == res[r].content.generation + 1
  IN
  /\ r # None /\ IsRaw(res[r].state)
  /\ res[r].content = ContentTag(Max(DOMAIN truth)) /\ res[r].logical = Logical
  /\ \/ /\ g <= MaxGeneration
        /\ res' = [res EXCEPT ![r] = [@ EXCEPT !.bytes = Raw(p), !.crc = Crc(p, Logical),
                                               !.storedCrc = Crc(Raw(p), Logical),
                                               !.content = ContentTag(g)]]
        /\ truth' = [k \in DOMAIN truth \cup {g} |-> IF k = g THEN p ELSE truth[k]]
        /\ Sound /\ Answer("write", TRUE)
     \/ Fails("write") /\ UNCHANGED <<res, truth>>
  /\ UNCHANGED <<nextId, reservations, nextPlace, authority, told>>

\* write_content at the end of a lease: only the tag moves on.
WriteContent ==
  LET r == authority
      g == res[r].content.generation + 1
  IN
  /\ r # None /\ res[r].state = "gpu_raw"
  /\ res[r].content = ContentTag(Max(DOMAIN truth))
  /\ \/ /\ g <= MaxGeneration
        /\ res' = [res EXCEPT ![r].content = ContentTag(g)]
        /\ truth' = [k \in DOMAIN truth \cup {g} |-> truth[Min({k, g - 1})]]
        /\ Sound /\ Answer("write", TRUE)
     \/ Fails("write") /\ UNCHANGED <<res, truth>>
  /\ UNCHANGED <<nextId, reservations, nextPlace, authority, told>>

\* A refused release, or one that claims success (false_release_success), changes nothing.
Release(r) ==
  /\ Owned(r)
  /\ r = authority => Live = {r}
  /\ \/ /\ res' = [res EXCEPT ![r] = None]
        /\ authority' = IF r = authority THEN None ELSE authority
        /\ Sound /\ Answer("release", TRUE)
     \/ \E good \in BOOLEAN : Fault /\ Answer("release", good) /\ UNCHANGED <<res, authority>>
  /\ UNCHANGED <<nextId, reservations, nextPlace, told, truth>>

\* corrupt: one field at a time.
Corrupted(x, c) ==
  CASE c = "payload" ->
         IF x.bytes.form = "raw" THEN [x EXCEPT !.bytes.plain.damage = Xor(@, {"flip"})]
         ELSE [x EXCEPT !.bytes.damage = Xor(@, {"flip"})]
    [] c = "payload_multiple_bits" ->
         IF x.bytes.form = "raw" THEN [x EXCEPT !.bytes.plain.damage = Xor(@, {"many"})]
         ELSE [x EXCEPT !.bytes.damage = Xor(@, {"many"})]
    [] c = "truncate_payload" -> [x EXCEPT !.stored = @ - 1]
    [] c = "append_payload" -> [x EXCEPT !.stored = @ + 1]
    [] c = "logical_size" -> [x EXCEPT !.logical = @ + 1]
    [] c = "stored_size" -> [x EXCEPT !.stored = x.charge + 1]
    [] c = "crc32c" -> [x EXCEPT !.crc.flip = Xor(@, {"flip"})]
    [] c = "encoding" -> [x EXCEPT !.encoding = IF @ = "raw" THEN "lz4" ELSE "raw"]
    [] c = "content_tag" -> [x EXCEPT !.content.flip = Xor(@, {"flip"})]

Corrupt(r, c) ==
  /\ Owned(r) /\ IsRepresentation(r) /\ res[r].adopted
  /\ c \in {"payload", "payload_multiple_bits", "truncate_payload"} => res[r].stored # 0
  /\ res' = [res EXCEPT ![r] = Corrupted(res[r], c)]
  /\ Fault /\ Answer("corrupt", TRUE)
  /\ UNCHANGED <<nextId, reservations, nextPlace, client>>

-----------------------------------------------------------------------------
Next ==
  \/ ReserveAddressSpace \/ AllocateFails \/ AllocateWorkspace \/ WriteContent
  \/ \E a \in Places : ReleaseAddressSpace(a)
  \/ \E state \in States, a \in Places \cup {None} : AllocateRepresentation(state, a)
  \/ \E r \in Ids : Adopt(r) \/ Release(r) \/ \E c \in Corruptions : Corrupt(r, c)
  \/ \E s, d \in Ids, w \in Ids \cup {None} : Transfer(s, d, w)
  \/ \E d \in Ids, w \in Ids \cup {None}, g \in DOMAIN truth : VerifyTransfer(d, w, ContentTag(g))
  \/ \E v \in Values : WriteBytes(v)

Spec == Init /\ [][Next]_vars

-----------------------------------------------------------------------------
TypeOK ==
  /\ Live \subseteq 1 .. nextId - 1
  /\ \A r \in Live :
       /\ res[r].state \in AllStates \cup {"workspace"}
       /\ res[r].charge \in 1 .. Bound /\ res[r].room \in 1 .. Bound
       /\ res[r].stored \in 0 .. Bound + MaxFaults
       /\ res[r].encoding \in {"raw", "lz4"}
       /\ res[r].content.generation \in DOMAIN truth
  /\ reservations \subseteq 1 .. nextPlace - 1
  /\ authority # None => Owned(authority) /\ res[authority].adopted
  /\ faults \in 0 .. MaxFaults

\* What verify_transfer accepts decodes to the bytes that were written under the expected
\* tag, whatever was corrupted in source or destination before, between or after the
\* copies, and whatever a failed transfer left in the destination.
AcceptedIsGenuine ==
  reply.what = "verify_transfer" /\ reply.ok =>
    LogicalBytes(res[authority]) = truth[reply.to.generation]

\* "All error returns precede compaction": a transfer that fails leaves every charge, and
\* the storage behind it, as it was.
ErrorsKeepCharges ==
  [][reply'.what = "transfer" /\ ~reply'.ok
       => \A r \in Live : res'[r].charge = res[r].charge /\ res'[r].room = res[r].room]_vars

\* A resource placed at a public address lies in a reservation that is still held, and no
\* two share one (allocate, release_address_space).
PlacedInReservation ==
  \A r \in Live : res[r].place # None =>
    /\ res[r].place \in reservations
    /\ \A q \in Live \ {r} : res[q].place # res[r].place

\* A resource that was described falsely is never adopted, so no charge but the true one
\* enters the client's books (provisional_descriptor, adopt_allocation).
AdoptedAsDescribed == \A r \in Live : res[r].adopted => told[r] = "truth"

Kept(r) ==
  IF res[r] = None THEN None
  ELSE [kind |-> IF IsRepresentation(r) THEN "representation" ELSE "workspace",
        charge |-> res[r].charge, adopted |-> res[r].adopted, content |-> res[r].content]

Store == INSTANCE StorageContract WITH
  owned <- [r \in Ids |-> Kept(r)], used <- 1 .. nextId - 1

\* The mock keeps the contract of StorageBackend, with every fault it can be told to have.
ImplementsContract == Store!Contract
=============================================================================
