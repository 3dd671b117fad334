---------------------------- MODULE HostTransfers ----------------------------
(***************************************************************************)
(* What one executor thread does to load an object into pinned memory      *)
(* (StorageManager._load_into_pool), and what the layer stream of a        *)
(* request then copies out of it.  Threads share the pool: memory objects  *)
(* are acquired in groups that may come back incomplete, converted to the  *)
(* layout of the host buffers, and released by whichever handler an        *)
(* exception passes, if it passes one.                                     *)
(*                                                                         *)
(* A memory object is a region <<layer, chunk>> of a load, where Whole     *)
(* stands for all the chunks; its content is the sequence of source tokens *)
(* written to it.                                                          *)
(***************************************************************************)
EXTENDS KVLayouts, ReusePlanning, FiniteSetsExt, Functions

CONSTANTS
  Loads,         \* executions of _load_into_pool
  Layers,        \* expected_layers
  Backends,      \* the storage backends in use
  Objects,       \* the cached objects that may be loaded
  Prompts,       \* the prompts of requests
  HostChunks,    \* values of the pool's chunk_size_tokens
  Minimum,       \* minimum_reuse_tokens
  Capacity       \* the tokens of one layer that the pool has room for

ASSUME TransferAssumption ==
  /\ Layers \in Nat \ {0}
  /\ Backends \subseteq {"raw_block", "local_disk"}
  /\ HostChunks \subseteq Nat \ {0}
  /\ Minimum \in Nat \ {0}
  /\ Capacity \in Nat

\* CacheObjectMetadata validates what the catalog holds.
ASSUME ObjectAssumption ==
  \A o \in Objects :
    /\ o.tokens \in Seq(Range(o.tokens)) \ {<<>>}
    /\ o.marker \in Seq(Range(o.marker)) \ {<<>>}
    /\ o.chunk \in Nat \ {0}
    /\ o.digests \in BOOLEAN
    /\ o.position \in Nat

ASSUME PromptAssumption == \A prompt \in Prompts : prompt \in Seq(Range(prompt))

VARIABLES
  pool,       \* configuration: storage backend, host layout, host chunk size, object
  step,       \* where each load is
  refs,       \* the reference count of each memory object
  held,       \* the regions a load has a Python reference to
  lost,       \* (history) those whose last reference an exception dropped, unreleased
  content,    \* what was written to them
  request     \* the request that uses a loaded copy

transferVars == <<pool, step, refs, held, lost, content, request>>


object == pool.object
tokens == TokenCount(object)
chunks == FixedSize(tokens, pool.chunk)

Whole == -1
layerIds == 0 .. Layers - 1
Group(k) == layerIds \X {k}
RegionIds == layerIds \X (-1 .. tokens - 1)
ChunkRegions == layerIds \X DOMAIN chunks

SizeOf(region) ==
  IF region[2] = Whole THEN tokens ELSE chunks[region[2]].end - chunks[region[2]].start

\* "raising": an exception is on its way to a handler that releases what is held.
Steps == {"validate", "acquire", "read", "arrange", "convert", "record",
          "ready", "raising", "failed", "released"}

Nothing == [r \in {} |-> <<>>]
NoRequest == [phase |-> "none"]

TransferInit ==
  /\ pool \in [backend : Backends, layout : SingleLayer,
               chunk : HostChunks, object : Objects]
  /\ step = [l \in Loads |-> "validate"]
  /\ refs = [l \in Loads |-> [r \in RegionIds |-> 0]]
  /\ held = [l \in Loads |-> {}]
  /\ lost = [l \in Loads |-> {}]
  /\ content = [l \in Loads |-> Nothing]
  /\ request = NoRequest

Goto(l, s) == step' = [step EXCEPT ![l] = s]

------------------------------------------------------------------------------
(* The pool.                                                               *)

Allocated == {o \in Loads \X RegionIds : refs[o[1]][o[2]] > 0}
Used == MapThenSumSet(LAMBDA o : SizeOf(o[2]), Allocated)
Fits(regions) == Used + MapThenSumSet(SizeOf, regions) <= Capacity

Counted(l, regions, n) ==
  refs' = [refs EXCEPT ![l] = [r \in RegionIds |-> @[r] + IF r \in regions THEN n ELSE 0]]

\* batched_allocate: the whole group, or a part of it, which the caller releases.
Allocate(l, wanted, next) ==
  \E got \in SUBSET wanted :
    /\ Fits(got)
    /\ Counted(l, got, 1)
    /\ held' = [held EXCEPT ![l] = @ \cup got]
    /\ Goto(l, IF got = wanted THEN next ELSE "raising")

\* release, _release_memory_objects
ReleaseRegions(l, regions) ==
  /\ Counted(l, regions, -1)
  /\ held' = [held EXCEPT ![l] = @ \ regions]

------------------------------------------------------------------------------
(* The transfers.                                                          *)

\* An open container of the catalog's generation, or an error; a local disk has none.
Validate(l) ==
  /\ step[l] = "validate"
  /\ \/ pool.backend = "raw_block" /\ step' \in {[step EXCEPT ![l] = "acquire"],
                                                  [step EXCEPT ![l] = "failed"]}
     \/ pool.backend = "local_disk" /\ Goto(l, "read")
  /\ UNCHANGED <<pool, refs, held, lost, content, request>>

\* acquire_persistent
Acquire(l) ==
  /\ step[l] = "acquire"
  /\ Allocate(l, Group(Whole), "read")
  /\ UNCHANGED <<pool, lost, content, request>>

Filled == [r \in Group(Whole) |-> [i \in 1 .. tokens |-> <<r[1], i - 1>>]]

\* RawExtentTransfer.load: an incomplete result releases the regions, an exception
\* of read_into, or of the count it checks, does not.
ReadExtents(l) ==
  /\ step[l] = "read"
  /\ pool.backend = "raw_block"
  /\ \/ /\ Goto(l, "arrange")
        /\ content' = [content EXCEPT ![l] = Filled]
        /\ UNCHANGED <<held, lost>>
     \/ Goto(l, "raising") /\ UNCHANGED <<held, lost, content>>
     \/ /\ Goto(l, "failed")
        /\ held' = [held EXCEPT ![l] = {}]
        /\ lost' = [lost EXCEPT ![l] = held[l]]
        /\ UNCHANGED content
  /\ UNCHANGED <<pool, refs, request>>

\* LMCache allocates the layers it reads.  An exception outside the loop's handler
\* (starting the reads, pairing them with the keys, unpinning the keys) loses every
\* layer that was read.  Otherwise those that could not be unpinned are lost, and
\* the others released unless they are all.
ReadLayerObjects(l) ==
  /\ step[l] = "read"
  /\ pool.backend = "local_disk"
  /\ \E read \in SUBSET Group(Whole) : \E results \in SUBSET read :
       /\ Fits(read)
       /\ Counted(l, read, 1)
       /\ \/ /\ lost' = [lost EXCEPT ![l] = read]
             /\ Goto(l, "failed")
             /\ UNCHANGED <<held, content>>
          \/ /\ lost' = [lost EXCEPT ![l] = read \ results]
             /\ held' = [held EXCEPT ![l] = results]
             /\ content' = [content EXCEPT ![l] = Filled]
             /\ Goto(l, IF results = Group(Whole) THEN "arrange" ELSE "raising")
  /\ UNCHANGED <<pool, request>>

\* arrange_loaded_layers: whole layers stay as they are, chunks are acquired first,
\* the next chunk of every layer at a time.
NextChunk(l) ==
  CHOOSE k \in DOMAIN chunks : Group(k) \cap held[l] = {} /\ \A j \in 0 .. k - 1 : Group(j) \subseteq held[l]

Arrange(l) ==
  /\ step[l] = "arrange"
  /\ IF pool.layout = "packed_chunks_single_layer"
     THEN Goto(l, "record") /\ UNCHANGED <<refs, held>>
     ELSE Allocate(l, Group(NextChunk(l)),
            IF NextChunk(l) + 1 \in DOMAIN chunks THEN "arrange" ELSE "convert")
  /\ UNCHANGED <<pool, lost, content, request>>

\* (variant) the whole layers are dropped without being released
ConvertKeepsSources(l) ==
  /\ step[l] = "convert"
  /\ Goto(l, "record")
  /\ content' = [content EXCEPT ![l] =
       [r \in ChunkRegions |->
          Slice(content[l][<<r[1], Whole>>], chunks[r[2]].start, chunks[r[2]].end)]]
  /\ held' = [held EXCEPT ![l] = @ \ Group(Whole)]
  /\ UNCHANGED <<pool, refs, lost, request>>

\* Every chunk gets its part of the whole layer, and the whole layers are released,
\* also when a copy raises.
Convert(l) ==
  /\ step[l] = "convert"
  /\ \/ /\ Goto(l, "record")
        /\ content' = [content EXCEPT ![l] =
             [r \in ChunkRegions |->
                Slice(content[l][<<r[1], Whole>>], chunks[r[2]].start, chunks[r[2]].end)]]
        /\ ReleaseRegions(l, Group(Whole))
     \/ Goto(l, "raising") /\ UNCHANGED <<refs, held, content>>
  /\ UNCHANGED <<pool, lost, request>>

\* record_ssd saves the profile, which may fail.
Record(l) ==
  /\ step[l] = "record"
  /\ step' \in {[step EXCEPT ![l] = "ready"], [step EXCEPT ![l] = "raising"]}
  /\ UNCHANGED <<pool, refs, held, lost, content, request>>

Unwind(l) ==
  /\ step[l] = "raising"
  /\ ReleaseRegions(l, held[l])
  /\ Goto(l, "failed")
  /\ content' = [content EXCEPT ![l] = Nothing]
  /\ UNCHANGED <<pool, lost, request>>

\* StorageManager._release_buffers of a loaded group.
GiveBack(l) ==
  /\ step[l] = "ready"
  /\ ReleaseRegions(l, held[l])
  /\ Goto(l, "released")
  /\ content' = [content EXCEPT ![l] = Nothing]
  /\ UNCHANGED <<pool, lost, request>>

------------------------------------------------------------------------------
(* A request that uses the copy.  Binding and planning read the catalog    *)
(* only; they are done here when the copy is ready.                        *)

Authenticate(l, prompt) ==
  /\ request.phase = "none"
  /\ step[l] = "ready"
  /\ Located(prompt, object) # NoPrefix
  /\ request' = [phase |-> "bound", load |-> l, prompt |-> prompt,
                 prefix |-> Located(prompt, object)]
  /\ UNCHANGED <<pool, step, refs, held, lost, content>>

Prepare(strategy, calibration) ==
  /\ request.phase = "bound"
  /\ calibration \in CalibrationTokens(strategy, request.prefix.end - request.prefix.start)
  /\ ~TooShort(request.prefix, calibration, Minimum)
  /\ request' = [phase |-> "planned", load |-> request.load, prompt |-> request.prompt,
                 plan |-> Plan(request.prefix, object, strategy, calibration)]
  /\ UNCHANGED <<pool, step, refs, held, lost, content>>

\* The slices of a layer that the plan needs, and where each begins and ends in the
\* prompt (_LMCacheCSKLayerStream.__init__).
LayerSlices == Slices(Regions(pool.layout, chunks, 1), 0)

Needed(plan) ==
  {s \in Range(LayerSlices) : plan.segmentStart + s.start < plan.reuseEnd}

\* (variant) every slice is copied to its end
EndsUncut(plan, slice) == plan.segmentStart + slice.end

Ends(plan, slice) == Least(plan.segmentStart + slice.end, plan.reuseEnd)

\* The memory object of a slice.
SourceOf(l, layer, slice) ==
  content[l][<<layer, IF pool.layout = "packed_chunks_single_layer" THEN Whole
                      ELSE slice.chunkStart>>]

\* batched_to_gpu: each slice is written to its interval of prompt positions, the
\* tokens with the positions they were cached at.
Covers(plan, slice) == plan.segmentStart + slice.start .. Ends(plan, slice) - 1

Staged(l, layer, plan) ==
  [p \in UNION {Covers(plan, s) : s \in Needed(plan)} |->
     LET s == CHOOSE s \in Needed(plan) : p \in Covers(plan, s)
         offset == p - (plan.segmentStart + s.start)
     IN [token |-> SourceOf(l, layer, s)[offset + 1],
         position |-> SourcePosition(plan) + s.start + offset]]

StageLayer(layer) ==
  /\ request.phase = "planned"
  /\ step[request.load] = "ready"
  /\ request' = [phase |-> "staged", load |-> request.load, prompt |-> request.prompt,
                 plan |-> request.plan, layer |-> layer,
                 staged |-> Staged(request.load, layer, request.plan)]
  /\ UNCHANGED <<pool, step, refs, held, lost, content>>

------------------------------------------------------------------------------

LoadStep(l) ==
  \/ Validate(l) \/ Acquire(l) \/ ReadExtents(l) \/ ReadLayerObjects(l)
  \/ Arrange(l) \/ Convert(l) \/ Record(l) \/ Unwind(l) \/ GiveBack(l)

TransferNext ==
  \/ \E l \in Loads : LoadStep(l)
  \/ \E l \in Loads, prompt \in Prompts : Authenticate(l, prompt)
  \/ \E strategy \in Strategies, c \in 0 .. tokens : Prepare(strategy, c)
  \/ \E layer \in layerIds : StageLayer(layer)

TransferSpec == TransferInit /\ [][TransferNext]_transferVars

------------------------------------------------------------------------------
(* Properties                                                              *)

\* pool.py, raw_extents.py, local_disk.py: every memory object is held by the load
\* that acquired it until it is released, once, or by nobody from then on.  Only an
\* exception of the read loses any: all the layers of a raw read, or of a local disk
\* those it had read; what arranges them, and the request, lose none.
RegionsAccounted ==
  \A l \in Loads :
    /\ held[l] \cap lost[l] = {}
    /\ \A r \in RegionIds : refs[l][r] = IF r \in held[l] \cup lost[l] THEN 1 ELSE 0
    /\ step[l] \in {"validate", "acquire", "failed", "released"} => held[l] = {}
    /\ step[l] = "ready" =>
         held[l] = IF pool.layout = "chunk_single_layer" THEN ChunkRegions ELSE Group(Whole)
    /\ step[l] \notin {"raising", "failed"} => lost[l] = {}
    /\ lost[l] \subseteq Group(Whole)
    /\ pool.backend = "raw_block" => lost[l] \in {{}, Group(Whole)}

\* authentication.py locate_authenticated_skill_prefix against its definition: the
\* last occurrence of the marker, and the longest prefix of the object that follows
\* there and is complete or ends with a chunk.
LongestPrefixFound ==
  request.phase = "bound" =>
    LET start == request.prefix.start
        prompt == request.prompt
        Matches(n) ==
          /\ start + n <= Len(prompt)
          /\ Slice(prompt, start, start + n) = Slice(object.tokens, 0, n)
        Eligible == {n \in 1 .. tokens : n = tokens \/ (object.digests /\ n % object.chunk = 0)}
    IN /\ \A s \in start + 1 .. Len(prompt) - Len(object.marker) :
            Slice(prompt, s, s + Len(object.marker)) # object.marker
       /\ request.prefix.end - start \in Eligible
       /\ Matches(request.prefix.end - start)
       /\ \A n \in Eligible : Matches(n) => n <= request.prefix.end - start

\* request_manager.py prepare_reuse, layouts/base.py, planner.py: nothing that is
\* built from an authenticated prefix and a loaded copy is refused by its constructor;
\* none of them is guarded by a handler.
NothingRefused ==
  /\ request.phase = "bound" =>
       \A strategy \in Strategies :
         \A c \in CalibrationTokens(strategy, request.prefix.end - request.prefix.start) :
           TooShort(request.prefix, c, Minimum) \/ PlanOK(Plan(request.prefix, object, strategy, c))
  /\ request.phase = "planned" =>
       \A layout \in Layouts : LayoutAccepted(layout, tokens, pool.chunk, Layers)
  /\ request.phase = "planned" /\ step[request.load] = "ready" =>
       \A layer \in layerIds : \A s \in Range(LayerSlices) :
         Len(SourceOf(request.load, layer, s)) = s.end - s.start

\* From the prompt to the staging buffer: exactly the positions to calibrate and to
\* reuse are staged, each with the same layer's source token of the same offset and
\* with that token's own position, and up to it the prompt is the object's.
StagedIsRight ==
  request.phase = "staged" =>
    LET plan == request.plan
        Offset(p) == p - plan.segmentStart
    IN /\ DOMAIN request.staged = plan.calibrationStart .. plan.reuseEnd - 1
       /\ \A p \in DOMAIN request.staged :
            /\ request.staged[p] = [token |-> <<request.layer, Offset(p)>>,
                                    position |-> object.position + Offset(p)]
            /\ Slice(request.prompt, plan.segmentStart, p + 1)
                 = Slice(object.tokens, 0, Offset(p) + 1)

\* storage/manager.py close: when no load is under way and none is in use, nothing
\* of the pool is allocated.
AllAllocationsReturn ==
  (\A l \in Loads : step[l] \in {"failed", "released"}) => Allocated = {}
==============================================================================
