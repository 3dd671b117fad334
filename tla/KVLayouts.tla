------------------------------ MODULE KVLayouts ------------------------------
(***************************************************************************)
(* How the tokens of a skill are cut into chunks, how the chunks of all    *)
(* layers are grouped into regions, and what one layer copies from them.   *)
(* Token intervals are half open.  Chunks, layers and tokens count from    *)
(* zero.                                                                   *)
(***************************************************************************)
EXTENDS Integers, FiniteSets, Sequences

Least(a, b) == IF a <= b THEN a ELSE b

CeilDiv(n, c) == (n + c - 1) \div c

------------------------------------------------------------------------------
(* Chunks.                                                                 *)

ChunkCount(n, c) == CeilDiv(n, c)

\* build_fixed_size_plan
FixedSize(n, c) ==
  [k \in 0 .. ChunkCount(n, c) - 1 |->
     [start |-> k * c, end |-> Least(k * c + c, n)]]

\* SkillChunkPlan accepts the chunks: non-empty, without gaps, up to the last token.
ChunkPlanOK(n, chunks) ==
  /\ n > 0
  /\ DOMAIN chunks # {}
  /\ \A k \in DOMAIN chunks : chunks[k].start < chunks[k].end
  /\ chunks[0].start = 0
  /\ \A k \in DOMAIN chunks \ {0} : chunks[k].start = chunks[k - 1].end
  /\ chunks[Cardinality(DOMAIN chunks) - 1].end = n

------------------------------------------------------------------------------
(* Regions: contiguous memory over an interval of chunks and of layers.    *)

Layouts ==
  {"chunk_all_layers", "chunk_single_layer",
   "packed_chunks_single_layer", "packed_chunks_all_layers"}

\* The layouts whose objects hold one layer only.
SingleLayer == {"chunk_single_layer", "packed_chunks_single_layer"}

Region(chunks, firstChunk, endChunk, firstLayer, endLayer) ==
  [chunkStart |-> firstChunk, chunkEnd |-> endChunk,
   layerStart |-> firstLayer, layerEnd |-> endLayer,
   start |-> chunks[firstChunk].start, end |-> chunks[endChunk - 1].end]

\* build_layout of each of the layouts.
Regions(layout, chunks, layers) ==
  LET count == Cardinality(DOMAIN chunks)
      perChunk == {<<k, k + 1>> : k \in 0 .. count - 1}
      perLayer == {<<l, l + 1>> : l \in 0 .. layers - 1}
      chunkSpans == IF layout \in {"chunk_all_layers", "chunk_single_layer"}
                    THEN perChunk ELSE {<<0, count>>}
      layerSpans == IF layout \in SingleLayer THEN perLayer ELSE {<<0, layers>>}
  IN {Region(chunks, c[1], c[2], l[1], l[2]) : c \in chunkSpans, l \in layerSpans}

\* KVLayoutPlan accepts the regions: every chunk of every layer is in one of them.
LayoutPlanOK(regions, chunks, layers) ==
  \A k \in DOMAIN chunks, l \in 0 .. layers - 1 :
    Cardinality({r \in regions : /\ k \in r.chunkStart .. r.chunkEnd - 1
                                 /\ l \in r.layerStart .. r.layerEnd - 1}) = 1

------------------------------------------------------------------------------
(* The source slices of one layer.                                         *)

\* In the order of their chunks.
Slices(regions, l) ==
  LET sources == {r \in regions : l \in r.layerStart .. r.layerEnd - 1}
      Before(r) == Cardinality({s \in sources : s.chunkStart < r.chunkStart})
  IN [i \in 1 .. Cardinality(sources) |-> CHOOSE r \in sources : Before(r) = i - 1]

\* H2DTransferPlan accepts the slices: they cover the tokens, and each chunk once.
TransferPlanOK(slices, n) ==
  /\ slices # <<>>
  /\ \A i \in 1 .. Len(slices) :
       slices[i].start = IF i = 1 THEN 0 ELSE slices[i - 1].end
  /\ \A i \in 2 .. Len(slices) : slices[i].chunkStart = slices[i - 1].chunkEnd
  /\ slices[Len(slices)].end = n

\* No constructor refuses what the planner builds; bind_layer_buffers takes the chunk
\* size from the first chunk and wants the same chunks again.
LayoutAccepted(layout, n, c, layers) ==
  LET chunks == FixedSize(n, c)
      regions == Regions(layout, chunks, layers)
  IN /\ ChunkPlanOK(n, chunks)
     /\ FixedSize(n, chunks[0].end - chunks[0].start) = chunks
     /\ LayoutPlanOK(regions, chunks, layers)
     /\ \A l \in 0 .. layers - 1 : TransferPlanOK(Slices(regions, l), n)
==============================================================================
