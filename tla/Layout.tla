-------------------------------- MODULE Layout --------------------------------
(***************************************************************************)
(* The arithmetic that lays a buffer out in chunks and a codec job out in  *)
(* its workspace: validate_config, choose_chunk_size, chunk_span, the      *)
(* offsets of Runtime::allocate and of Lease::read and write               *)
(* (src/core/runtime.cpp), make_gpu_compression_plan                       *)
(* (src/backends/cuda_vmm/gpu_compression.cpp), and what the CUDA backend  *)
(* makes of a device and promises of charges (cuda_vmm_backend.cpp), on    *)
(* words that end at MaxWord.  A state is one input of one operator.       *)
(***************************************************************************)
EXTENDS Integers, FiniteSetsExt, Functions

CONSTANTS
  MaxWord,      \* the largest value of the integer type
  Sizes,        \* the sizes, offsets and granularities that are tried
  MetadataSize, \* sizeof(GpuBatchMetadata)
  MetadataAlign, \* alignof(GpuBatchMetadata)
  MaxChunk      \* gpu_lz4_max_chunk

\* What the constants must satisfy.
LayoutConstants ==
  /\ MaxWord \in Nat /\ Sizes \subseteq 0 .. MaxWord
  /\ MetadataSize \in 1 .. MaxWord /\ MetadataAlign \in 1 .. MaxWord
  /\ MaxChunk \in 2 .. MaxWord

VARIABLE input

Word == 0 .. MaxWord
Error == -1

(***************************************************************************)
(* checked.hpp: a result is a word or an error, and errors propagate.      *)
(***************************************************************************)
Checked(n) == IF n \in Word THEN n ELSE Error
Add(a, b) == IF Error \in {a, b} THEN Error ELSE Checked(a + b)
Mul(a, b) == IF Error \in {a, b} THEN Error ELSE Checked(a * b)

AlignUp(n, align) ==
  IF n = Error \/ align = 0 THEN Error
  ELSE IF n % align = 0 THEN n ELSE Checked(n + (align - (n % align)))

(***************************************************************************)
(* The chunk size                                                          *)
(***************************************************************************)
\* greatest_common_divisor
Gcd[l \in Word, r \in Word] == IF r = 0 THEN l ELSE Gcd[r, l % r]

\* Mutant: the product without the division.
Lcm_Product(l, r) == IF l = 0 \/ r = 0 THEN Error ELSE Mul(l, r)

Lcm(l, r) == IF l <= 0 \/ r <= 0 THEN Error ELSE Mul(l \div Gcd[l, r], r)

ChooseChunkSize(preferred, caps) ==
  IF preferred # <<>> THEN preferred[1]
  ELSE Lcm(Lcm(caps.reservation, caps.mapping), caps.allocation)

TierDisabled(b) == b.hard = 0 /\ b.soft = 0 /\ b.reserve = 0

\* Mutant: a tier without a limit passes when its target and reserve are set.
TierOk_NoLimit(b, allowDisabled) ==
  IF TierDisabled(b) THEN allowDisabled ELSE b.hard = 0 \/ (b.soft <= b.hard /\ b.reserve <= b.hard)

TierOk(b, allowDisabled) ==
  IF TierDisabled(b) THEN allowDisabled
  ELSE b.hard # 0 /\ b.soft <= b.hard /\ b.reserve <= b.hard

\* validate_config after policy::validate, without the range checks of the pool, the error
\* ring and two optional capabilities, which no other field enters.
ValidConfig(config, caps) ==
  LET chunk == ChooseChunkSize(config.preferred, caps)
      host == ~TierDisabled(config.host)
  IN /\ config.fallback => host /\ caps.host_tier
     /\ TierOk(config.gpu, FALSE) /\ TierOk(config.host, TRUE)
     /\ host => caps.host_tier
     /\ config.requires_host => host /\ caps.host_tier
     /\ caps.reservation # 0 /\ caps.mapping # 0 /\ caps.allocation # 0
     /\ chunk > 0
     /\ caps.maximum # 0 => chunk <= caps.maximum
     /\ \A g \in {caps.reservation, caps.mapping, caps.allocation} : chunk % g = 0

(***************************************************************************)
(* Runtime::allocate: how many chunks, where, how long, in what span.      *)
(***************************************************************************)
\* Mutant: the last, shorter chunk is forgotten.
ChunkCount_Floor(size, chunk) == size \div chunk

ChunkCount(size, chunk) ==
  LET numerator == Add(size, chunk - 1)
  IN IF numerator = Error THEN Error ELSE numerator \div chunk

AddressSpan(size, chunk) == AlignUp(size, chunk)
OffsetOf(i, chunk) == Mul(i, chunk)
LengthOf(i, size, chunk) == Min({size - OffsetOf(i, chunk), chunk})

(***************************************************************************)
(* chunk_span: the first and the last chunk of a range                     *)
(***************************************************************************)
\* Mutant: a range that ends where a chunk starts takes that chunk too.
LastChunk_Inclusive(end, chunk) == end \div chunk

LastChunk(end, chunk) == (end - 1) \div chunk

ChunkSpan(size, chunk, offset, length) ==
  LET end == Add(offset, length)
  IN IF length = 0 \/ end = Error \/ end > size THEN <<>>
     ELSE <<offset \div chunk, LastChunk(end, chunk)>>

(***************************************************************************)
(* Lease::read and Lease::write: one copy per chunk of the lease that      *)
(* meets the request; <<>> stands for a request outside the lease.         *)
(***************************************************************************)
\* Mutant: the copy starts at the chunk, not at the request.
CopyBegin_Chunk(absolute, chunkOffset) == chunkOffset

CopyBegin(absolute, chunkOffset) == Max({absolute, chunkOffset})

Copies(size, chunk, offset, length, at, count) ==
  LET span == ChunkSpan(size, chunk, offset, length)
      absolute == Add(offset, at)
      end == Add(absolute, count)
      from(i) == CopyBegin(absolute, OffsetOf(i, chunk))
      to(i) == Min({end, OffsetOf(i, chunk) + LengthOf(i, size, chunk)})
  IN { [chunk |-> i, inner |-> from(i) - OffsetOf(i, chunk), outer |-> from(i) - absolute,
        count |-> to(i) - from(i)] : i \in {j \in span[1] .. span[2] : from(j) < to(j)} }

(***************************************************************************)
(* make_gpu_compression_plan of a job that is not empty.  The common       *)
(* multiple of powers of two is the largest of them.                       *)
(***************************************************************************)
SingleBit(n) == \E k \in 0 .. n : 2 ^ k = n

\* Mutant: the temporary area follows the metadata directly.
TemporaryOffset_Packed(align) == MetadataSize

TemporaryOffset(align) == AlignUp(MetadataSize, align)

Plan(req, granularity) ==
  LET alignments == {req.input, req.output, req.temporary, MetadataAlign}
      output == AlignUp(req.bound, granularity)
      offset == TemporaryOffset(req.temporary)
      workspace == AlignUp(Add(offset, req.bytes), granularity)
  IN IF \/ \E a \in alignments \cup {granularity} : ~SingleBit(a)
        \/ req.bound = 0 \/ Error \in {output, offset, workspace}
       THEN <<>>
       ELSE <<[output |-> output, offset |-> offset, workspace |-> workspace,
               alignment |-> Max(alignments \cup {granularity})]>>

(***************************************************************************)
(* The CUDA backend's bounds.  backend is what CudaVmmBackend keeps of its *)
(* device: whether it has a codec, the allocation granularity, the         *)
(* alignment the codec was found to need, whether the context is retained, *)
(* and the admitted plans of the one chunk size it was admitted for (0 for *)
(* any size).                                                              *)
(***************************************************************************)
Directions == {"compress", "decompress"}

\* GpuCompression::requirements: a job of a shorter chunk may need another alignment.
Requirements(codec, size) ==
  LET align == IF size = MaxChunk THEN codec.large ELSE codec.small
  IN [bound |-> size, bytes |-> codec.bytes, input |-> align, output |-> 1, temporary |-> align]

CompressionPlan(backend, direction, size) ==
  LET plan == Plan(Requirements(backend.codec, size), backend.granularity)
      misaligned == IF plan = <<>> THEN FALSE
                    ELSE backend.ready /\ plan[1].alignment > backend.alignment
  IN IF ~backend.compression \/ size > MaxChunk THEN <<>>
     ELSE IF backend.planned # 0
          THEN IF size = backend.planned THEN backend.plans[direction] ELSE <<>>
          ELSE IF misaligned THEN <<>> ELSE plan

AllocationBound(backend, state, size) ==
  LET plan == CompressionPlan(backend, "compress", size)
  IN IF state = "gpu_compressed" /\ backend.compression
       THEN IF plan = <<>> THEN Error ELSE plan[1].output
     ELSE IF state # "gpu_raw" \/ (backend.compression /\ size > MaxChunk) \/ size = 0 THEN Error
     ELSE AlignUp(size, backend.granularity)

OnGpu(state) == state \in {"gpu_raw", "gpu_compressed"}

WorkspaceBound(backend, source, destination, size) ==
  LET direction == IF destination = "gpu_raw" THEN "decompress" ELSE "compress"
      plan == CompressionPlan(backend, direction, size)
  IN IF ~OnGpu(source) \/ ~OnGpu(destination) \/ source = destination \/ plan = <<>> THEN Error
     ELSE plan[1].workspace

CompactionBound(backend, destination, size) ==
  IF destination = "gpu_compressed" /\ backend.compression
  THEN AllocationBound(backend, destination, size) ELSE 0

\* What allocate_workspace allocates.
IsWorkspace(backend, tier, charge) ==
  backend.compression /\ tier = "gpu" /\ charge # 0 /\ charge % backend.granularity = 0

\* admit_compression: a compression and a restoration of the same chunk at once.
Peak(backend, size) ==
  LET raw == AllocationBound(backend, "gpu_raw", size)
      plans == [d \in Directions |-> CompressionPlan(backend, d, size)]
      twice(n) == Add(n, n)
  IN IF raw = Error \/ <<>> \in {plans[d] : d \in Directions} THEN Error
     ELSE Add(Add(twice(raw), twice(plans["compress"][1].output)),
              Add(plans["compress"][1].workspace, plans["decompress"][1].workspace))

\* Mutant: the mapping granularity ignores the codec.
MappingGranularity_Device(device, alignment) == device.minimum

MappingGranularity(device, alignment) == Max({device.minimum, alignment})

\* probe: <<>> for a device that is refused.  Supported stands for the driver's answers, its
\* version, the compute mode, unified addressing and virtual memory management; admission
\* asks for the plans of one chunk size under a cap.
Probe(device) ==
  LET blank == [compression |-> device.compression, granularity |-> device.minimum,
                codec |-> device.codec, alignment |-> 0, ready |-> FALSE, planned |-> 0,
                plans |-> [d \in Directions |-> <<>>]]
      admitted == device.admitted
      size == IF admitted # 0 THEN admitted ELSE MaxChunk
      plans == [d \in Directions |-> CompressionPlan(blank, d, size)]
      planned == \A d \in Directions : plans[d] # <<>>
      capabilities(alignment) ==
        [reservation |-> device.page, mapping |-> MappingGranularity(device, alignment),
         allocation |-> device.minimum, maximum |-> IF device.compression THEN MaxChunk ELSE 0,
         host_tier |-> FALSE]
      accepted(alignment) ==
        <<[capabilities |-> capabilities(alignment),
           backend |-> [blank EXCEPT !.alignment = alignment, !.ready = TRUE,
                          !.planned = admitted, !.plans = IF admitted # 0 THEN plans ELSE @]]>>
  IN IF \/ ~device.supported \/ ~SingleBit(device.minimum) \/ ~SingleBit(device.page)
        \/ device.compression /\ ~planned
        \/ admitted # 0 /\ (~device.compression \/ Peak(blank, admitted) \notin 0 .. device.cap)
       THEN <<>>
     ELSE accepted(IF device.compression
                   THEN Max({plans[d][1].alignment : d \in Directions}) ELSE 0)

\* Runtime::create_backend: the policy needs a codec.
CreateAccepts(config, probed, policy) ==
  ValidConfig(config, probed.capabilities) /\ (policy => probed.backend.compression)

(***************************************************************************)
(* Inputs                                                                  *)
(***************************************************************************)
Small == {n \in Sizes : n <= 2}
Bits == {n \in Sizes : SingleBit(n)}
Budgets == [hard : Small, soft : Small, reserve : Small]
Grains == [reservation : Sizes, mapping : Sizes, allocation : Sizes, maximum : {0, Max(Sizes)},
           host_tier : BOOLEAN]

Inputs ==
  [law : {"chunk"}, preferred : {<<>>} \cup {<<n>> : n \in Sizes}, caps : Grains]
  \cup [law : {"config"}, gpu : Budgets, host : Budgets, fallback : BOOLEAN, host_tier : BOOLEAN,
        requires_host : BOOLEAN]
  \cup [law : {"buffer"}, size : Sizes \ {0}, chunk : Sizes \ {0}]
  \cup [law : {"span"}, size : Sizes \ {0}, chunk : Sizes \ {0}, offset : Sizes, length : Sizes]
  \cup [law : {"copy"}, size : Sizes \ {0}, chunk : {n \in Sizes : n \in 1 .. 4}, offset : Sizes,
        length : Sizes, at : Sizes, count : Sizes]
  \cup [law : {"plan"}, granularity : Sizes,
        req : [bound : Sizes, bytes : Sizes, input : Bits, output : Small, temporary : Bits]]
  \cup [law : {"device"}, minimum : Sizes, page : Bits, supported : BOOLEAN, compression : BOOLEAN,
        admitted : {0, 1, MaxChunk}, cap : {Max(Sizes), MaxWord}, policy : BOOLEAN,
        codec : [bytes : Small, large : Bits, small : Bits]]

Init == input \in Inputs
Next == UNCHANGED input
Spec == Init /\ [][Next]_input

(***************************************************************************)
(* Properties                                                              *)
(***************************************************************************)
ConfigOf(preferred) ==
  [preferred |-> preferred, gpu |-> [hard |-> 1, soft |-> 1, reserve |-> 0],
   host |-> [hard |-> 0, soft |-> 0, reserve |-> 0], fallback |-> FALSE, requires_host |-> FALSE]

\* A chunk size that is accepted fits every granularity; without a preference the smallest such
\* size is chosen, and it is refused only when that size leaves the word or the device's limit.
ChunkIsLeastMultiple ==
  input.law = "chunk" =>
    LET caps == input.caps
        fits(n) == \A g \in {caps.reservation, caps.mapping, caps.allocation} : g # 0 /\ n % g = 0
        usable == {n \in 1 .. (IF caps.maximum = 0 THEN MaxWord ELSE caps.maximum) : fits(n)}
        chosen == ChooseChunkSize(input.preferred, caps)
        valid == ValidConfig(ConfigOf(input.preferred), caps)
    IN IF input.preferred = <<>>
         THEN valid <=> (usable # {} /\ chosen = Min(usable))
         ELSE valid <=> input.preferred[1] \in usable

\* An accepted configuration gives the ledger a GPU limit, a reserve inside it, and a host
\* tier exactly where the fallback or the caller needs one: the two tier checks complement
\* each other, since one asks for all three numbers and the other for the limit.
ValidIsUsable ==
  input.law = "config" =>
    LET caps == [reservation |-> 1, mapping |-> 1, allocation |-> 1, maximum |-> 0,
                 host_tier |-> input.host_tier]
        config == [preferred |-> <<1>>, gpu |-> input.gpu, host |-> input.host,
                   fallback |-> input.fallback, requires_host |-> input.requires_host]
    IN ValidConfig(config, caps) =>
         /\ input.gpu.hard > 0 /\ input.gpu.reserve <= input.gpu.hard
         /\ input.host.reserve <= input.host.hard
         /\ input.fallback \/ input.requires_host => input.host.hard > 0 /\ input.host_tier
         /\ input.host.hard > 0 => input.host_tier

\* The chunks of a buffer partition its bytes, each inside the reserved span and none empty;
\* allocate gives up only when the span leaves the word.
ChunksPartition ==
  input.law = "buffer" =>
    LET n == ChunkCount(input.size, input.chunk)
        span == AddressSpan(input.size, input.chunk)
        chunks == 0 .. n - 1
        bytes(i) == OffsetOf(i, input.chunk)
                      .. OffsetOf(i, input.chunk) + LengthOf(i, input.size, input.chunk) - 1
    IN IF n = Error \/ span = Error
         THEN input.size + input.chunk - 1 > MaxWord
         ELSE /\ span = n * input.chunk
              /\ UNION {bytes(i) : i \in chunks} = 0 .. input.size - 1
              /\ \A i \in chunks : bytes(i) # {}
              /\ \A i, j \in chunks : i # j => bytes(i) \cap bytes(j) = {}

\* chunk_span answers with exactly the chunks that hold a byte of the range, and refuses
\* exactly the ranges that are empty or not inside the buffer.
SpanIsExact ==
  input.law = "span" =>
    LET range == input.offset .. input.offset + input.length - 1
        span == ChunkSpan(input.size, input.chunk, input.offset, input.length)
        touched == {i \in 0 .. input.size : \E b \in range : b \div input.chunk = i}
    IN IF range = {} \/ ~(range \subseteq 0 .. input.size - 1)
         THEN span = <<>> ELSE span[1] .. span[2] = touched

\* A request inside a lease copies every byte of the caller's span exactly once, from or to
\* the byte of the chunk that holds it, and stays inside the chunk.
CopiesAreExact ==
  input.law = "copy" /\ ChunkSpan(input.size, input.chunk, input.offset, input.length) # <<>>
                     /\ input.at + input.count <= input.length =>
    LET copies == Copies(input.size, input.chunk, input.offset, input.length, input.at, input.count)
    IN /\ \A i \in 0 .. input.count - 1 :
            \E c \in copies :
              /\ i \in c.outer .. c.outer + c.count - 1
              /\ OffsetOf(c.chunk, input.chunk) + c.inner + (i - c.outer)
                   = input.offset + input.at + i
              /\ \A d \in copies \ {c} : i \notin d.outer .. d.outer + d.count - 1
       /\ \A c \in copies : /\ c.outer >= 0 /\ c.outer + c.count <= input.count
                            /\ c.inner + c.count <= LengthOf(c.chunk, input.size, input.chunk)

\* A workspace holds the metadata and, aligned as the codec asks, the temporary area; the
\* charges are whole allocations, with less than one to spare.
PlanHolds ==
  input.law = "plan" =>
    LET g == input.granularity
        plan == Plan(input.req, g)
    IN plan # <<>> =>
         LET p == plan[1]
         IN /\ p.offset >= MetadataSize /\ p.offset % input.req.temporary = 0
            /\ p.workspace % g = 0 /\ p.output % g = 0
            /\ p.workspace - (p.offset + input.req.bytes) \in 0 .. g - 1
            /\ p.output - input.req.bound \in 0 .. g - 1
            /\ \A a \in {g, input.req.input, input.req.output, input.req.temporary, MetadataAlign} :
                 p.alignment % a = 0

\* A device that is accepted gives a usable backend: the runtime's own choice of a chunk size
\* is refused only where the codec's limit is smaller, every chunk of an accepted size starts
\* where each plan the backend will ever give needs it, and what the bounds promise can be
\* allocated: a raw chunk fits its bound, a workspace bound is a workspace, and an admitted
\* migration stays under the cap in either direction.
DeviceIsUsable ==
  input.law = "device" => \A p \in Range(Probe(input)) :
    LET caps == p.capabilities
        grains == {caps.reservation, caps.mapping, caps.allocation}
        accepts(preferred) == CreateAccepts(ConfigOf(preferred), p, input.policy)
        charge(from, to, n) ==
          AllocationBound(p.backend, from, n) + AllocationBound(p.backend, to, n)
            + WorkspaceBound(p.backend, from, to, n) + CompactionBound(p.backend, to, n)
    IN /\ accepts(<<>>) <=> /\ input.policy => input.compression
                            /\ caps.maximum # 0 => Max(grains) <= caps.maximum
       /\ \A n \in 1 .. MaxChunk, d \in Directions :
            LET plan == CompressionPlan(p.backend, d, n)
            IN plan # <<>> =>
                 /\ \A size \in Sizes : accepts(<<size>>) => size % plan[1].alignment = 0
                 /\ AllocationBound(p.backend, "gpu_raw", n) >= n
                 /\ IsWorkspace(p.backend, "gpu", plan[1].workspace)
                 /\ n = input.admitted =>
                      /\ charge("gpu_raw", "gpu_compressed", n) <= input.cap
                      /\ charge("gpu_compressed", "gpu_raw", n) <= input.cap
=============================================================================
