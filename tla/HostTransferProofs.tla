-------------------------- MODULE HostTransferProofs --------------------------
(***************************************************************************)
(* What the runs of HostTransfers show on three small objects, for every   *)
(* object, prompt, chunk size, number of layers and capacity.              *)
(*                                                                         *)
(* RegionsHeldOnce rests on what a load holds at each place (HeldInv).     *)
(* The other three read a request: what it is bound to and planned from is *)
(* the located prefix of its prompt (RequestInv), and what its copy        *)
(* contains is what was read (ContentInv).  The rest are facts about the   *)
(* operators: which prefix is located, how tokens are cut into chunks and  *)
(* chunks into regions, and what the slices of a layer cover.              *)
(*                                                                         *)
(* The loops of the code are operators without recursion here: the first   *)
(* chunk that differs and the newest marker are least and greatest         *)
(* elements, which exist because inclusion of finite sets is well founded  *)
(* (LeastNat), and the sorted regions are placed by how many begin before. *)
(***************************************************************************)
EXTENDS HostTransfers, FiniteSetTheorems, SequenceTheorems, TLAPS

------------------------------------------------------------------------------
(* Chunks.                                                                 *)

LEMMA ProductMonotone ==
  ASSUME NEW a \in Nat, NEW b \in Nat, NEW c \in Nat, a <= b
  PROVE  a * c <= b * c
OBVIOUS

LEMMA MultipleOf ==
  ASSUME NEW a \in Nat, NEW c \in Nat \ {0}
  PROVE  (a * c) % c = 0
<1> DEFINE q == (a * c) \div c  r == (a * c) % c
<1>1. q \in Int /\ r \in 0 .. c - 1 /\ a * c = q * c + r
  OBVIOUS
<1>2. (a - q) * c = r
  BY <1>1
<1>3. a - q = 0
  BY <1>1, <1>2
<1> QED
  BY <1>1, <1>2, <1>3

\* There are as many chunks as it takes to cover the tokens, and no more.
LEMMA CeilDivBounds ==
  ASSUME NEW n \in Nat \ {0}, NEW c \in Nat \ {0}
  PROVE  /\ CeilDiv(n, c) \in 1 .. n
         /\ (CeilDiv(n, c) - 1) * c < n
         /\ n <= CeilDiv(n, c) * c
<1> DEFINE q == CeilDiv(n, c)
<1>1. q \in Int /\ q * c <= n + c - 1 /\ n + c - 1 < q * c + c
  BY DEF CeilDiv
<1> QED
  BY <1>1

\* How many chunks of the host layout an object has.
ChunksOf == ChunkCount(tokens, pool.chunk)

PoolTyped ==
  pool \in [backend : Backends, layout : SingleLayer,
            chunk : HostChunks, object : Objects]

\* The chunks of a loaded object, counted from zero.
LEMMA ChunksCounted ==
  ASSUME PoolTyped
  PROVE  /\ tokens \in Nat \ {0} /\ pool.chunk \in Nat \ {0}
         /\ ChunksOf \in 1 .. tokens
         /\ DOMAIN chunks = 0 .. ChunksOf - 1
<1>1. tokens \in Nat \ {0} /\ pool.chunk \in Nat \ {0}
  <2>1. object \in Objects /\ pool.chunk \in HostChunks
    BY DEF PoolTyped, object
  <2>2. object.tokens \in Seq(Range(object.tokens)) \ {<<>>}
    BY <2>1, ObjectAssumption
  <2> QED
    BY <2>1, <2>2, TransferAssumption, EmptySeq DEF tokens, TokenCount
<1> QED
  BY <1>1, CeilDivBounds DEF ChunksOf, ChunkCount, chunks, FixedSize

------------------------------------------------------------------------------
(* The memory objects of a load.                                           *)

\* The chunks a load holds while it acquires them: the first n of every layer.
ChunksUpTo(n) == layerIds \X (0 .. n - 1)

\* What a load holds, at each place of it.
Holds(l) ==
  /\ step[l] \in {"validate", "acquire", "failed", "released"} => held[l] = {}
  /\ step[l] = "acquire" => pool.backend = "raw_block"
  /\ step[l] = "read" =>
       held[l] = IF pool.backend = "raw_block" THEN Group(Whole) ELSE {}
  /\ step[l] = "arrange" =>
       \E n \in 0 .. ChunksOf - 1 :
         /\ held[l] = Group(Whole) \cup ChunksUpTo(n)
         /\ pool.layout = "packed_chunks_single_layer" => n = 0
  /\ step[l] = "convert" =>
       /\ pool.layout = "chunk_single_layer"
       /\ held[l] = Group(Whole) \cup ChunkRegions
  /\ step[l] \in {"record", "ready"} =>
       held[l] = IF pool.layout = "chunk_single_layer" THEN ChunkRegions ELSE Group(Whole)

\* What a load has lost, at each place of it.
Loses(l) ==
  /\ held[l] \cap lost[l] = {}
  /\ lost[l] \subseteq Group(Whole)
  /\ step[l] \notin {"raising", "failed"} => lost[l] = {}
  /\ pool.backend = "raw_block" => lost[l] \in {{}, Group(Whole)}

\* A memory object is counted while a load holds it, and for ever once it is lost.
CountedOnce ==
  refs = [l \in Loads |->
            [r \in RegionIds |-> IF r \in held[l] \cup lost[l] THEN 1 ELSE 0]]

HeldInv ==
  /\ PoolTyped
  /\ step \in [Loads -> Steps]
  /\ held \in [Loads -> SUBSET RegionIds]
  /\ lost \in [Loads -> SUBSET RegionIds]
  /\ CountedOnce
  /\ \A l \in Loads : Holds(l) /\ Loses(l)

\* The whole layers and the chunks are memory objects of the pool.
LEMMA GroupsAreRegions ==
  ASSUME PoolTyped
  PROVE  /\ Group(Whole) \subseteq RegionIds
         /\ \A k \in 0 .. ChunksOf - 1 : Group(k) \subseteq RegionIds
         /\ ChunkRegions = ChunksUpTo(ChunksOf)
BY ChunksCounted DEF Group, RegionIds, ChunkRegions, ChunksUpTo, Whole

\* A chunk more of every layer.
LEMMA NextChunkIs ==
  ASSUME PoolTyped, NEW l \in Loads, NEW n \in 0 .. ChunksOf - 1,
         held[l] = Group(Whole) \cup ChunksUpTo(n)
  PROVE  /\ NextChunk(l) = n
         /\ held[l] \cap Group(n) = {}
         /\ held[l] \cup Group(n) = Group(Whole) \cup ChunksUpTo(n + 1)
         /\ n + 1 \in DOMAIN chunks <=> n + 1 < ChunksOf
<1>1. DOMAIN chunks = 0 .. ChunksOf - 1 /\ ChunksOf \in Nat
  BY ChunksCounted
<1>2. 0 \in layerIds
  BY TransferAssumption DEF layerIds
<1>3. /\ held[l] \cap Group(n) = {}
      /\ held[l] \cup Group(n) = Group(Whole) \cup ChunksUpTo(n + 1)
  BY DEF Group, ChunksUpTo, Whole
<1>4. Group(n) \cap held[l] = {} /\ \A j \in 0 .. n - 1 : Group(j) \subseteq held[l]
  BY <1>3 DEF Group, ChunksUpTo
<1>5. ASSUME NEW k \in DOMAIN chunks, Group(k) \cap held[l] = {},
             \A j \in 0 .. k - 1 : Group(j) \subseteq held[l]
      PROVE  k = n
  <2>1. <<0, k>> \in Group(k) /\ <<0, n>> \in Group(n)
    BY <1>2 DEF Group
  <2>2. CASE k < n
    BY <1>1, <1>2, <1>5, <2>1, <2>2 DEF Group, ChunksUpTo
  <2>3. CASE n < k
    BY <1>1, <1>3, <1>5, <2>1, <2>3
  <2> QED
    BY <1>1, <2>2, <2>3
<1>6. NextChunk(l) = n
  BY <1>1, <1>4, <1>5 DEF NextChunk
<1> QED
  BY <1>1, <1>3, <1>6

\* What a group that comes back, or is released, does to the counts.
LEMMA CountedAre ==
  ASSUME HeldInv, NEW l \in Loads, NEW regions \in SUBSET RegionIds, UNCHANGED pool,
         NEW n \in {1, -1}, Counted(l, regions, n),
         \A k \in Loads \ {l} : held'[k] = held[k] /\ lost'[k] = lost[k],
         n = 1 => /\ regions \cap (held[l] \cup lost[l]) = {}
                  /\ held'[l] \cup lost'[l] = held[l] \cup lost[l] \cup regions,
         n = -1 => /\ regions \subseteq held[l] \cup lost[l]
                   /\ held'[l] \cup lost'[l] = (held[l] \cup lost[l]) \ regions
  PROVE  CountedOnce'
<1>0. refs = [k \in Loads |->
                [r \in RegionIds |-> IF r \in held[k] \cup lost[k] THEN 1 ELSE 0]]
  BY DEF HeldInv, CountedOnce
<1>1. RegionIds' = RegionIds
  BY DEF RegionIds, tokens, object
<1>2. refs' = [refs EXCEPT ![l] =
                 [r \in RegionIds |-> refs[l][r] + IF r \in regions THEN n ELSE 0]]
  BY DEF Counted
<1>3. \A r \in RegionIds :
        refs[l][r] + (IF r \in regions THEN n ELSE 0)
          = IF r \in held'[l] \cup lost'[l] THEN 1 ELSE 0
  <2>1. \A r \in RegionIds : refs[l][r] = IF r \in held[l] \cup lost[l] THEN 1 ELSE 0
    BY <1>0
  <2>2. CASE n = 1
    BY <2>1, <2>2
  <2>3. CASE n = -1
    BY <2>1, <2>3
  <2> QED
    BY <2>2, <2>3
<1> QED
  BY <1>0, <1>1, <1>2, <1>3 DEF CountedOnce

\* A step of one load that accounts for what it acquires, releases or loses.
Moves(l) ==
  /\ UNCHANGED pool
  /\ \E s \in Steps : step' = [step EXCEPT ![l] = s]
  /\ \E regions \in SUBSET RegionIds : held' = [held EXCEPT ![l] = regions]
  /\ \E regions \in SUBSET RegionIds : lost' = [lost EXCEPT ![l] = regions]
  /\ CountedOnce'
  /\ Holds(l)' /\ Loses(l)'

LEMMA MovesKeep ==
  ASSUME HeldInv, NEW l \in Loads, Moves(l)
  PROVE  HeldInv'
<1>0. /\ step \in [Loads -> Steps] /\ held \in [Loads -> SUBSET RegionIds]
      /\ lost \in [Loads -> SUBSET RegionIds]
  BY DEF HeldInv
<1>1. RegionIds' = RegionIds
  BY DEF Moves, RegionIds, tokens, object
<1>2. /\ PoolTyped' /\ step' \in [Loads -> Steps]
      /\ held' \in [Loads -> SUBSET RegionIds'] /\ lost' \in [Loads -> SUBSET RegionIds']
  BY <1>0, <1>1 DEF HeldInv, Moves, PoolTyped
<1>3. ASSUME NEW k \in Loads PROVE Holds(k)' /\ Loses(k)'
  <2>1. CASE k = l
    BY <2>1 DEF Moves
  <2>2. CASE k # l
    <3>1. /\ Holds(k) /\ Loses(k) /\ held'[k] = held[k] /\ lost'[k] = lost[k]
          /\ step'[k] = step[k] /\ pool' = pool
      BY <1>0, <2>2 DEF HeldInv, Moves
    <3>2. ChunksOf' = ChunksOf /\ ChunkRegions' = ChunkRegions
      BY <3>1 DEF ChunksOf, ChunkRegions, chunks, tokens, object
    <3> QED
      BY <3>1, <3>2 DEF Holds, Loses, Group, ChunksUpTo
  <2> QED
    BY <2>1, <2>2
<1> QED
  BY <1>2, <1>3 DEF HeldInv, Moves

\* Where a load goes on with what it holds, it has lost nothing.
LEMMA NothingLost ==
  ASSUME HeldInv, NEW l \in Loads, step[l] \notin {"raising", "failed"}
  PROVE  lost[l] = {}
BY DEF HeldInv, Loses

\* A step that loses nothing.
LEMMA KeepsLost ==
  ASSUME HeldInv, NEW l \in Loads, UNCHANGED <<pool, lost>>,
         held'[l] \cap lost[l] = {},
         step'[l] \notin {"raising", "failed"} => lost[l] = {}
  PROVE  /\ Loses(l)'
         /\ \E regions \in SUBSET RegionIds : lost' = [lost EXCEPT ![l] = regions]
<1>1. /\ lost \in [Loads -> SUBSET RegionIds] /\ lost' = [lost EXCEPT ![l] = lost[l]]
      /\ lost[l] \in SUBSET RegionIds
  BY DEF HeldInv
<1>2. Loses(l)'
  BY DEF HeldInv, Loses, Group
<1> QED
  BY <1>1, <1>2

\* A group is acquired as a whole, or what came of it is on its way back.
LEMMA AllocateMoves ==
  ASSUME HeldInv, NEW l \in Loads, NEW wanted \in SUBSET RegionIds, NEW next \in Steps,
         step[l] \notin {"raising", "failed"},
         held[l] \cap wanted = {}, Allocate(l, wanted, next), UNCHANGED <<pool, lost>>,
         held'[l] = held[l] \cup wanted /\ step'[l] = next => Holds(l)'
  PROVE  HeldInv'
<1>1. PICK got \in SUBSET wanted :
        /\ Counted(l, got, 1)
        /\ held' = [held EXCEPT ![l] = @ \cup got]
        /\ Goto(l, IF got = wanted THEN next ELSE "raising")
  BY DEF Allocate
<1>2. /\ step \in [Loads -> Steps] /\ held \in [Loads -> SUBSET RegionIds]
      /\ lost[l] = {}
  BY NothingLost DEF HeldInv
<1>3. /\ held'[l] = held[l] \cup got /\ \A k \in Loads \ {l} : held'[k] = held[k]
      /\ held'[l] \in SUBSET RegionIds
  BY <1>1, <1>2
<1>4. CountedOnce'
  BY <1>1, <1>2, <1>3, CountedAre
<1>5. Holds(l)'
  <2>1. CASE got = wanted
    BY <1>1, <1>2, <2>1 DEF Goto
  <2>2. CASE got # wanted
    BY <1>1, <1>2, <2>2 DEF Goto, Holds
  <2> QED
    BY <2>1, <2>2
<1>6. /\ Loses(l)'
      /\ \E regions \in SUBSET RegionIds : lost' = [lost EXCEPT ![l] = regions]
  BY <1>2, KeepsLost
<1>7. Moves(l)
  <2>1. \E s \in Steps : step' = [step EXCEPT ![l] = s]
    BY <1>1 DEF Goto, Steps
  <2>2. \E regions \in SUBSET RegionIds : held' = [held EXCEPT ![l] = regions]
    BY <1>1, <1>2, <1>3
  <2> QED
    BY <1>4, <1>5, <1>6, <2>1, <2>2 DEF Moves
<1> QED
  BY <1>7, MovesKeep

\* A step that acquires, releases and loses nothing.
LEMMA QuietMoves ==
  ASSUME HeldInv, NEW l \in Loads, UNCHANGED <<pool, refs, held, lost>>, Holds(l)',
         step[l] \notin {"raising", "failed"},
         \E s \in Steps : step' = [step EXCEPT ![l] = s]
  PROVE  HeldInv'
<1>1. held \in [Loads -> SUBSET RegionIds] /\ held' = [held EXCEPT ![l] = held[l]]
  BY DEF HeldInv
<1>2. CountedOnce'
  BY DEF HeldInv, CountedOnce, RegionIds, tokens, object
<1>3. lost[l] = {}
  BY NothingLost
<1>4. /\ Loses(l)'
      /\ \E regions \in SUBSET RegionIds : lost' = [lost EXCEPT ![l] = regions]
  BY <1>3, KeepsLost
<1>5. Moves(l)
  BY <1>1, <1>2, <1>4 DEF Moves
<1> QED
  BY <1>5, MovesKeep

LEMMA ReleaseMoves ==
  ASSUME HeldInv, NEW l \in Loads, NEW regions \in SUBSET held[l], ReleaseRegions(l, regions),
         UNCHANGED <<pool, lost>>, Holds(l)', \E s \in Steps : step' = [step EXCEPT ![l] = s],
         step'[l] \notin {"raising", "failed"} => lost[l] = {}
  PROVE  HeldInv'
<1>1. /\ held \in [Loads -> SUBSET RegionIds] /\ held' = [held EXCEPT ![l] = held[l] \ regions]
      /\ held[l] \cap lost[l] = {}
  BY DEF HeldInv, ReleaseRegions, Loses
<1>2. /\ held'[l] = held[l] \ regions /\ \A k \in Loads \ {l} : held'[k] = held[k]
      /\ held'[l] \in SUBSET RegionIds /\ regions \in SUBSET RegionIds
  BY <1>1
<1>3. CountedOnce'
  <2>1. Counted(l, regions, -1)
    BY DEF ReleaseRegions
  <2>2. held'[l] \cup lost'[l] = (held[l] \cup lost[l]) \ regions
    BY <1>1, <1>2
  <2> QED
    BY <1>2, <2>1, <2>2, CountedAre
<1>4. /\ Loses(l)'
      /\ \E r \in SUBSET RegionIds : lost' = [lost EXCEPT ![l] = r]
  BY <1>1, <1>2, KeepsLost
<1>5. Moves(l)
  BY <1>1, <1>2, <1>3, <1>4 DEF Moves
<1> QED
  BY <1>5, MovesKeep

\* What the regions of a load are is fixed with the pool.
LEMMA PoolFixes ==
  ASSUME UNCHANGED pool
  PROVE  /\ ChunksOf' = ChunksOf /\ ChunkRegions' = ChunkRegions
BY DEF ChunksOf, ChunkRegions, chunks, tokens, object

LEMMA LoadKeepsHeld ==
  ASSUME HeldInv, NEW l \in Loads, LoadStep(l)
  PROVE  HeldInv'
<1>0. /\ PoolTyped /\ Holds(l) /\ step \in [Loads -> Steps]
      /\ held \in [Loads -> SUBSET RegionIds]
      /\ pool.backend \in {"raw_block", "local_disk"} /\ pool.layout \in SingleLayer
      /\ Group(Whole) \subseteq RegionIds /\ lost \in [Loads -> SUBSET RegionIds]
      /\ ChunksOf \in Nat \ {0}
  <2>1. /\ PoolTyped /\ Holds(l) /\ step \in [Loads -> Steps]
        /\ held \in [Loads -> SUBSET RegionIds] /\ lost \in [Loads -> SUBSET RegionIds]
    BY DEF HeldInv
  <2>2. pool.backend \in {"raw_block", "local_disk"} /\ pool.layout \in SingleLayer
    BY <2>1, TransferAssumption DEF PoolTyped
  <2>3. Group(Whole) \subseteq RegionIds /\ ChunksOf \in Nat \ {0}
    BY <2>1, GroupsAreRegions, ChunksCounted
  <2> QED
    BY <2>1, <2>2, <2>3
<1>01. UNCHANGED pool
  BY DEF LoadStep, Validate, Acquire, ReadExtents, ReadLayerObjects, Arrange, Convert, Record,
         Unwind, GiveBack
<1>1. CASE Validate(l)
  <2>1. \E s \in {"acquire", "failed", "read"} :
          /\ step' = [step EXCEPT ![l] = s]
          /\ s = "acquire" => pool.backend = "raw_block"
          /\ s = "read" => pool.backend = "local_disk"
    BY <1>1 DEF Validate, Goto
  <2>2. held[l] = {} /\ UNCHANGED <<refs, held, lost>> /\ step[l] = "validate"
    BY <1>0, <1>1 DEF Validate, Holds
  <2>3. Holds(l)'
    BY <1>0, <1>01, <2>1, <2>2 DEF Holds
  <2> QED
    BY <1>01, <2>1, <2>2, <2>3, QuietMoves DEF Steps
<1>2. CASE Acquire(l)
  <2>1. /\ held[l] = {} /\ pool.backend = "raw_block" /\ Allocate(l, Group(Whole), "read")
        /\ step[l] = "acquire" /\ UNCHANGED lost
    BY <1>0, <1>2 DEF Acquire, Holds
  <2>2. held'[l] = held[l] \cup Group(Whole) /\ step'[l] = "read" => Holds(l)'
    BY <1>01, <2>1 DEF Holds, Group
  <2> QED
    BY <1>0, <1>01, <2>1, <2>2, AllocateMoves DEF Steps
<1>3. CASE ReadExtents(l)
  <2>1. /\ held[l] = Group(Whole) /\ pool.backend = "raw_block" /\ UNCHANGED refs
        /\ step[l] = "read" /\ lost[l] = {}
    BY <1>0, <1>3, NothingLost DEF ReadExtents, Holds
  <2>2. CASE \E s \in {"arrange", "raising"} : Goto(l, s) /\ UNCHANGED <<held, lost>>
    <3>1. \E s \in {"arrange", "raising"} : step' = [step EXCEPT ![l] = s]
      BY <2>2 DEF Goto
    <3>2. held[l] = Group(Whole) \cup ChunksUpTo(0)
      BY <2>1 DEF ChunksUpTo
    <3>3. \E n \in 0 .. ChunksOf - 1 :
            /\ held[l] = Group(Whole) \cup ChunksUpTo(n)
            /\ pool.layout = "packed_chunks_single_layer" => n = 0
      BY <1>0, <3>2
    <3>4. Holds(l)'
      BY <1>0, <1>01, <2>1, <2>2, <3>1, <3>3, PoolFixes DEF Holds, Group, ChunksUpTo
    <3> QED
      BY <1>01, <2>1, <2>2, <3>1, <3>4, QuietMoves DEF Steps
  <2>3. CASE /\ Goto(l, "failed")
             /\ held' = [held EXCEPT ![l] = {}] /\ lost' = [lost EXCEPT ![l] = held[l]]
    <3>1. /\ step'[l] = "failed" /\ held'[l] = {} /\ lost'[l] = Group(Whole)
          /\ \A k \in Loads \ {l} : held'[k] = held[k] /\ lost'[k] = lost[k]
      BY <1>0, <2>1, <2>3 DEF Goto
    <3>2. CountedOnce'
      <4>1. RegionIds' = RegionIds
        BY <1>01 DEF RegionIds, tokens, object
      <4>2. \A k \in Loads : held'[k] \cup lost'[k] = held[k] \cup lost[k]
        BY <2>1, <3>1
      <4> QED
        BY <2>1, <4>1, <4>2 DEF HeldInv, CountedOnce
    <3>3. Holds(l)' /\ Loses(l)'
      BY <3>1 DEF Holds, Loses, Group
    <3>4. Moves(l)
      BY <1>0, <1>01, <2>1, <2>3, <3>2, <3>3 DEF Moves, Goto, Steps
    <3> QED
      BY <3>4, MovesKeep
  <2> QED
    BY <1>3, <2>2, <2>3 DEF ReadExtents
<1>4. CASE ReadLayerObjects(l)
  <2>1. held[l] = {} /\ lost[l] = {} /\ pool.backend = "local_disk"
    BY <1>0, <1>4, NothingLost DEF ReadLayerObjects, Holds
  <2>2. PICK read \in SUBSET Group(Whole), results \in SUBSET Group(Whole) :
          /\ results \subseteq read
          /\ Counted(l, read, 1)
          /\ \/ /\ lost' = [lost EXCEPT ![l] = read]
                /\ Goto(l, "failed") /\ UNCHANGED held
             \/ /\ lost' = [lost EXCEPT ![l] = read \ results]
                /\ held' = [held EXCEPT ![l] = results]
                /\ Goto(l, IF results = Group(Whole) THEN "arrange" ELSE "raising")
    BY <1>4 DEF ReadLayerObjects
  <2>3. /\ \E s \in Steps : step' = [step EXCEPT ![l] = s]
        /\ \E regions \in SUBSET RegionIds : held' = [held EXCEPT ![l] = regions]
        /\ \E regions \in SUBSET RegionIds : lost' = [lost EXCEPT ![l] = regions]
    <3>1. held' = [held EXCEPT ![l] = results] \/ held' = [held EXCEPT ![l] = {}]
      BY <1>0, <2>1, <2>2
    <3>2. \E s \in {"failed", "arrange", "raising"} : step' = [step EXCEPT ![l] = s]
      BY <2>2 DEF Goto
    <3>3. lost' = [lost EXCEPT ![l] = read] \/ lost' = [lost EXCEPT ![l] = read \ results]
      BY <2>2
    <3> QED
      BY <1>0, <3>1, <3>2, <3>3 DEF Steps
  <2>4. /\ held'[l] \cup lost'[l] = read /\ held'[l] \cap lost'[l] = {}
        /\ lost'[l] \subseteq read
        /\ \A k \in Loads \ {l} : held'[k] = held[k] /\ lost'[k] = lost[k]
    BY <1>0, <2>1, <2>2
  <2>5. \/ step'[l] = "failed" /\ held'[l] = {}
        \/ step'[l] = "raising"
        \/ step'[l] = "arrange" /\ held'[l] = Group(Whole) /\ lost'[l] = {}
    BY <1>0, <2>1, <2>2 DEF Goto
  <2>6. CountedOnce'
    BY <1>0, <1>01, <2>1, <2>2, <2>4, CountedAre
  <2>7. Holds(l)'
    <3>1. Group(Whole) = Group(Whole) \cup ChunksUpTo(0) /\ 0 \in 0 .. ChunksOf - 1
      BY <1>0 DEF ChunksUpTo
    <3> QED
      BY <1>0, <1>01, <2>5, <3>1, PoolFixes DEF Holds, Group, ChunksUpTo
  <2>8. Loses(l)'
    BY <1>01, <2>1, <2>4, <2>5 DEF Loses, Group
  <2>9. Moves(l)
    BY <1>01, <2>3, <2>6, <2>7, <2>8 DEF Moves
  <2> QED
    BY <2>9, MovesKeep
<1>5. CASE Arrange(l)
  <2>1. PICK n \in 0 .. ChunksOf - 1 :
          /\ held[l] = Group(Whole) \cup ChunksUpTo(n)
          /\ pool.layout = "packed_chunks_single_layer" => n = 0
    BY <1>0, <1>5 DEF Arrange, Holds
  <2>0. step[l] = "arrange" /\ UNCHANGED lost
    BY <1>5 DEF Arrange
  <2>2. CASE pool.layout = "packed_chunks_single_layer"
    <3>1. step' = [step EXCEPT ![l] = "record"] /\ UNCHANGED <<refs, held>>
      BY <1>5, <2>2 DEF Arrange, Goto
    <3>2. held[l] = Group(Whole)
      BY <2>1, <2>2 DEF ChunksUpTo
    <3>3. Holds(l)'
      BY <1>0, <1>01, <2>2, <3>1, <3>2 DEF Holds, Group
    <3> QED
      BY <1>01, <2>0, <3>1, <3>3, QuietMoves DEF Steps
  <2>3. CASE pool.layout # "packed_chunks_single_layer"
    <3> DEFINE next == IF n + 1 < ChunksOf THEN "arrange" ELSE "convert"
    <3>1. /\ NextChunk(l) = n /\ held[l] \cap Group(n) = {}
          /\ held[l] \cup Group(n) = Group(Whole) \cup ChunksUpTo(n + 1)
          /\ n + 1 \in DOMAIN chunks <=> n + 1 < ChunksOf
      BY <1>0, <2>1, NextChunkIs
    <3>2. Allocate(l, Group(n), next)
      BY <1>5, <2>3, <3>1 DEF Arrange
    <3>3. Group(n) \subseteq RegionIds /\ ChunkRegions = ChunksUpTo(ChunksOf)
      BY <1>0, GroupsAreRegions
    <3>4. pool.layout = "chunk_single_layer"
      BY <1>0, <2>3 DEF SingleLayer
    <3>5. held'[l] = held[l] \cup Group(n) /\ step'[l] = next => Holds(l)'
      <4>1. CASE n + 1 < ChunksOf
        <5>1. n + 1 \in 0 .. ChunksOf - 1
          BY <1>0, <4>1
        <5> QED
          BY <1>01, <3>1, <3>4, <4>1, <5>1, PoolFixes DEF Holds, Group, ChunksUpTo
      <4>2. CASE ~(n + 1 < ChunksOf)
        <5>1. n + 1 = ChunksOf
          BY <1>0, <4>2
        <5> QED
          BY <1>01, <3>1, <3>3, <3>4, <4>2, <5>1, PoolFixes DEF Holds, Group
      <4> QED
        BY <4>1, <4>2
    <3> QED
      BY <1>01, <2>0, <3>1, <3>2, <3>3, <3>5, AllocateMoves DEF Steps
  <2> QED
    BY <2>2, <2>3
<1>6. CASE Convert(l)
  <2>1. /\ pool.layout = "chunk_single_layer" /\ held[l] = Group(Whole) \cup ChunkRegions
        /\ step[l] = "convert" /\ UNCHANGED lost /\ lost[l] = {}
    BY <1>0, <1>6, NothingLost DEF Convert, Holds
  <2>2. CASE Goto(l, "raising") /\ UNCHANGED <<refs, held, content>>
    <3>1. Holds(l)'
      BY <1>0, <2>2 DEF Goto, Holds
    <3> QED
      BY <1>01, <2>1, <2>2, <3>1, QuietMoves DEF Goto, Steps
  <2>3. CASE Goto(l, "record") /\ ReleaseRegions(l, Group(Whole))
    <3>1. held'[l] = ChunkRegions
      <4>1. Group(Whole) \cap ChunkRegions = {}
        BY <1>0, GroupsAreRegions DEF Group, ChunksUpTo, Whole
      <4>2. held'[l] = held[l] \ Group(Whole)
        BY <1>0, <2>3 DEF ReleaseRegions
      <4> QED
        BY <2>1, <4>1, <4>2
    <3>2. Holds(l)'
      BY <1>0, <1>01, <2>1, <2>3, <3>1, PoolFixes DEF Goto, Holds
    <3> QED
      BY <1>01, <2>1, <2>3, <3>2, ReleaseMoves DEF Goto, Steps
  <2> QED
    BY <1>6, <2>2, <2>3 DEF Convert
<1>7. CASE Record(l)
  <2>1. /\ \E s \in {"ready", "raising"} : step' = [step EXCEPT ![l] = s]
        /\ step[l] = "record" /\ UNCHANGED <<refs, held, lost>>
    BY <1>7 DEF Record
  <2>2. Holds(l)'
    BY <1>0, <1>01, <2>1, PoolFixes DEF Holds, Group
  <2> QED
    BY <1>01, <2>1, <2>2, QuietMoves DEF Steps
<1>8. CASE Unwind(l) \/ GiveBack(l)
  <2>1. /\ ReleaseRegions(l, held[l]) /\ UNCHANGED lost
        /\ \E s \in {"failed", "released"} : step' = [step EXCEPT ![l] = s]
        /\ step' = [step EXCEPT ![l] = "released"] => lost[l] = {}
    BY <1>0, <1>8, NothingLost DEF Unwind, GiveBack, Goto
  <2>2. held'[l] = {}
    BY <1>0, <2>1 DEF ReleaseRegions
  <2>3. Holds(l)'
    BY <1>0, <1>01, <2>1, <2>2 DEF Holds
  <2> QED
    BY <1>01, <2>1, <2>3, ReleaseMoves DEF Steps
<1> QED
  BY <1>1, <1>2, <1>3, <1>4, <1>5, <1>6, <1>7, <1>8 DEF LoadStep

LEMMA InitHeld ==
  ASSUME TransferInit
  PROVE  HeldInv
<1>1. \A l \in Loads : Holds(l)
  BY DEF TransferInit, Holds
<1>2. \A l \in Loads : Loses(l)
  BY DEF TransferInit, Loses
<1> QED
  BY <1>1, <1>2 DEF TransferInit, HeldInv, PoolTyped, Steps, CountedOnce

LEMMA StepHeld ==
  ASSUME HeldInv, [TransferNext]_transferVars
  PROVE  HeldInv'
<1>1. CASE UNCHANGED <<pool, step, refs, held, lost>>
  <2>1. RegionIds' = RegionIds /\ ChunksOf' = ChunksOf /\ ChunkRegions' = ChunkRegions
    BY <1>1, PoolFixes DEF RegionIds, tokens, object
  <2>2. PoolTyped' /\ CountedOnce'
    BY <1>1, <2>1 DEF HeldInv, PoolTyped, CountedOnce
  <2>3. ASSUME NEW l \in Loads PROVE Holds(l)' /\ Loses(l)'
    <3>1. Holds(l) /\ Loses(l)
      BY DEF HeldInv
    <3> QED
      BY <1>1, <2>1, <3>1 DEF Holds, Loses, Group, ChunksUpTo
  <2> QED
    BY <1>1, <2>1, <2>2, <2>3 DEF HeldInv
<1>2. ASSUME NEW l \in Loads, LoadStep(l) PROVE HeldInv'
  BY <1>2, LoadKeepsHeld
<1> QED
  BY <1>1, <1>2 DEF TransferNext, transferVars, Authenticate, Prepare, StageLayer

\* Each place of _load_into_pool has the memory objects it should, and each is counted
\* as often as it is held.
THEOREM HeldInvariant == TransferSpec => []HeldInv
<1> QED
  BY InitHeld, StepHeld, PTL DEF TransferSpec

\* Every memory object a load acquires is counted once while the load holds it, and not
\* after, unless the read lost it: then it stays counted and no load holds it.  Only an
\* exception of the read loses any, all the layers of a raw read, or those that a local
\* disk had read (raw_extents.py load, local_disk.py read_layer_objects); arranging,
\* converting, recording and giving back lose none (pool.py, manager.py).
THEOREM RegionsHeldOnce == TransferSpec => []RegionsAccounted
<1>1. ASSUME HeldInv PROVE RegionsAccounted
  BY <1>1 DEF HeldInv, Holds, Loses, CountedOnce, RegionsAccounted
<1> QED
  BY <1>1, HeldInvariant, PTL

------------------------------------------------------------------------------
(* Least elements and slices.                                              *)

\* The well-founded relation of the library is the inclusion of finite sets, here of
\* the naturals below a number.
LEMMA LeastNat ==
  ASSUME NEW S, S \subseteq Nat, S # {}
  PROVE  \E n \in S : \A m \in S : n <= m
<1> DEFINE T == {0 .. n - 1 : n \in S}
<1>1. T \subseteq FiniteSubsetsOf(Nat) /\ T # {}
  <2>1. \A n \in S : IsFiniteSet(0 .. n - 1) /\ 0 .. n - 1 \subseteq Nat
    BY FS_Interval
  <2> QED
    BY <2>1 DEF FiniteSubsetsOf
<1>2. PICK I \in T : \A J \in T : ~ (<<J, I>> \in StrictSubsetOrdering(Nat))
  <2> HIDE DEF T
  <2>1. IsWellFoundedOn(StrictSubsetOrdering(Nat), FiniteSubsetsOf(Nat))
    BY FS_StrictSubsetOrderingWellFounded
  <2> QED
    BY <1>1, <2>1, WFMin
<1>3. PICK n \in S : I = 0 .. n - 1
  BY <1>2
<1>4. ASSUME NEW m \in S, m < n
      PROVE  FALSE
  <2>1. 0 .. m - 1 \subseteq 0 .. n - 1 /\ m \in 0 .. n - 1 /\ m \notin 0 .. m - 1
    BY <1>4
  <2>2. <<0 .. m - 1, 0 .. n - 1>> \in StrictSubsetOrdering(Nat)
    BY <2>1 DEF StrictSubsetOrdering
  <2> QED
    BY <1>2, <1>3, <2>2
<1> QED
  BY <1>4

LEMMA GreatestUpTo ==
  ASSUME NEW top \in Int, NEW S \in SUBSET (0 .. top), S # {}
  PROVE  \E n \in S : \A m \in S : m <= n
<1> DEFINE D == {d \in Nat : top - d \in S}
<1>1. D # {}
  <2>1. PICK s \in S : TRUE
    OBVIOUS
  <2>2. top - s \in Nat /\ top - (top - s) = s
    BY <2>1
  <2> QED
    BY <2>2
<1>2. PICK d \in D : \A e \in D : d <= e
  <2> D \subseteq Nat
    OBVIOUS
  <2> HIDE DEF D
  <2> QED
    BY <1>1, LeastNat
<1>3. ASSUME NEW m \in S PROVE m <= top - d
  <2>1. top - m \in Nat /\ top - (top - m) = m
    OBVIOUS
  <2>2. d <= top - m
    BY <1>2, <2>1
  <2> QED
    BY <1>2, <2>2
<1> QED
  BY <1>2, <1>3

\* n tokens from a on in p are those from b on in q.
SameTokens(p, a, q, b, n) == \A i \in 1 .. n : p[a + i] = q[b + i]

\* Two slices are equal exactly if their elements are.
LEMMA SlicesEqual ==
  ASSUME NEW P, NEW Q, NEW p \in Seq(P), NEW q \in Seq(Q),
         NEW a \in Nat, NEW b \in Nat, NEW n \in Nat,
         a + n <= Len(p), b + n <= Len(q)
  PROVE  Slice(p, a, a + n) = Slice(q, b, b + n) <=> SameTokens(p, a, q, b, n)
<1> DEFINE V == P \cup Q
<1>1. /\ \A i \in a + 1 .. a + n : p[i] \in V
      /\ \A i \in b + 1 .. b + n : q[i] \in V
  BY ElementOfSeq
<1>2. /\ Slice(p, a, a + n) \in Seq(V) /\ Len(Slice(p, a, a + n)) = n
      /\ \A i \in 1 .. n : Slice(p, a, a + n)[i] = p[a + i]
  <2> HIDE DEF V
  <2>1. /\ SubSeq(p, a + 1, a + n) \in Seq(V)
        /\ Len(SubSeq(p, a + 1, a + n)) = IF a + 1 <= a + n THEN a + n - (a + 1) + 1 ELSE 0
        /\ \A i \in 1 .. a + n - (a + 1) + 1 : SubSeq(p, a + 1, a + n)[i] = p[a + 1 + i - 1]
    BY <1>1, SubSeqProperties
  <2> QED
    BY <2>1 DEF Slice
<1>3. /\ Slice(q, b, b + n) \in Seq(V) /\ Len(Slice(q, b, b + n)) = n
      /\ \A i \in 1 .. n : Slice(q, b, b + n)[i] = q[b + i]
  <2> HIDE DEF V
  <2>1. /\ SubSeq(q, b + 1, b + n) \in Seq(V)
        /\ Len(SubSeq(q, b + 1, b + n)) = IF b + 1 <= b + n THEN b + n - (b + 1) + 1 ELSE 0
        /\ \A i \in 1 .. b + n - (b + 1) + 1 : SubSeq(q, b + 1, b + n)[i] = q[b + 1 + i - 1]
    BY <1>1, SubSeqProperties
  <2> QED
    BY <2>1 DEF Slice
<1>4. Slice(p, a, a + n) = Slice(q, b, b + n)
        <=> \A i \in 1 .. n : Slice(p, a, a + n)[i] = Slice(q, b, b + n)[i]
  <2> HIDE DEF V
  <2> QED
    BY <1>2, <1>3, SeqEqual
<1> QED
  BY <1>2, <1>3, <1>4 DEF SameTokens

------------------------------------------------------------------------------
(* locate_authenticated_skill_prefix                                       *)

ObjectOK(o) ==
  /\ o.tokens \in Seq(Range(o.tokens)) \ {<<>>}
  /\ o.marker \in Seq(Range(o.marker)) \ {<<>>}
  /\ o.chunk \in Nat \ {0}
  /\ o.digests \in BOOLEAN
  /\ o.position \in Nat

\* The first n tokens of the object stand in the prompt at the start.
Agree(prompt, o, start, n) ==
  /\ start + n <= Len(prompt)
  /\ \A i \in 1 .. n : prompt[start + i] = o.tokens[i]

\* The newest marker is one, and no later place has one.
LEMMA NewestIs ==
  ASSUME NEW P, NEW M, NEW prompt \in Seq(P), NEW marker \in Seq(M),
         MarkerStarts(prompt, marker) # {}
  PROVE  /\ NewestMarker(prompt, marker) \in 0 .. Len(prompt) - Len(marker)
         /\ \A s \in NewestMarker(prompt, marker) + 1 .. Len(prompt) - Len(marker) :
              Slice(prompt, s, s + Len(marker)) # marker
<1>1. Len(prompt) \in Nat /\ Len(marker) \in Nat
  BY LenProperties
<1>2. MarkerStarts(prompt, marker) \subseteq 0 .. Len(prompt) - Len(marker)
  BY DEF MarkerStarts
<1>3. \E s \in MarkerStarts(prompt, marker) : \A t \in MarkerStarts(prompt, marker) : t <= s
  <2> DEFINE top == Len(prompt) - Len(marker)
             starts == MarkerStarts(prompt, marker)
  <2>1. top \in Int /\ starts \in SUBSET (0 .. top) /\ starts # {}
    BY <1>1, <1>2
  <2> HIDE DEF top, starts
  <2>2. \E s \in starts : \A t \in starts : t <= s
    BY <2>1, GreatestUpTo
  <2> QED
    BY <2>2 DEF starts
<1>4. /\ NewestMarker(prompt, marker) \in MarkerStarts(prompt, marker)
      /\ \A t \in MarkerStarts(prompt, marker) : t <= NewestMarker(prompt, marker)
  BY <1>3 DEF NewestMarker
<1>5. NewestMarker(prompt, marker) \in 0 .. Len(prompt) - Len(marker)
  BY <1>2, <1>4
<1>6. ASSUME NEW s \in NewestMarker(prompt, marker) + 1 .. Len(prompt) - Len(marker),
             Slice(prompt, s, s + Len(marker)) = marker
      PROVE  FALSE
  <2>1. s \in 0 .. Len(prompt) - Len(marker) /\ NewestMarker(prompt, marker) < s
    BY <1>1, <1>5
  <2>2. s \in MarkerStarts(prompt, marker)
    BY <1>6, <2>1 DEF MarkerStarts
  <2> QED
    BY <1>1, <1>4, <1>5, <2>1, <2>2
<1> QED
  BY <1>5, <1>6

LEMMA ObjectsOK ==
  ASSUME NEW o \in Objects
  PROVE  /\ ObjectOK(o)
         /\ TokenCount(o) \in Nat \ {0}
         /\ o.chunk \in Nat \ {0}
<1>1. ObjectOK(o)
  BY ObjectAssumption DEF ObjectOK
<1> QED
  BY <1>1, EmptySeq DEF ObjectOK, TokenCount

\* A slice of the prompt is the object's exactly if the tokens agree.
LEMMA AgreeIs ==
  ASSUME NEW prompt \in Prompts, NEW o \in Objects, NEW start \in Nat,
         NEW n \in 0 .. TokenCount(o)
  PROVE  Agree(prompt, o, start, n)
           <=> /\ start + n <= Len(prompt)
               /\ Slice(prompt, start, start + n) = Slice(o.tokens, 0, n)
<1>1. /\ prompt \in Seq(Range(prompt)) /\ o.tokens \in Seq(Range(o.tokens))
      /\ TokenCount(o) \in Nat
  BY PromptAssumption, ObjectsOK DEF ObjectOK
<1>2. ASSUME start + n <= Len(prompt)
      PROVE  Slice(prompt, start, start + n) = Slice(o.tokens, 0, 0 + n)
               <=> \A i \in 1 .. n : prompt[start + i] = o.tokens[0 + i]
  <2>1. n \in Nat /\ 0 + n <= Len(o.tokens)
    BY <1>1 DEF TokenCount
  <2> DEFINE q == o.tokens  P == Range(prompt)  Q == Range(q)
  <2>2. prompt \in Seq(P) /\ q \in Seq(Q) /\ 0 + n <= Len(q)
    BY <1>1, <2>1
  <2> HIDE DEF q, P, Q
  <2>3. Slice(prompt, start, start + n) = Slice(q, 0, 0 + n)
          <=> SameTokens(prompt, start, q, 0, n)
    BY <1>2, <2>1, <2>2, 0 \in Nat, SlicesEqual
  <2> QED
    BY <2>3 DEF q, SameTokens
<1>3. (\A i \in 1 .. n : prompt[start + i] = o.tokens[0 + i])
        <=> (\A i \in 1 .. n : prompt[start + i] = o.tokens[i])
  OBVIOUS
<1>4. n \in Nat /\ 0 + n = n
  BY <1>1
<1> QED
  BY <1>2, <1>3, <1>4 DEF Agree

LEMMA ChunkMatchIs ==
  ASSUME NEW prompt \in Prompts, NEW o \in Objects, NEW start \in Nat, NEW k \in Nat,
         k * o.chunk + o.chunk <= TokenCount(o)
  PROVE  ChunkMatches(prompt, o, start, k)
           <=> /\ start + (k * o.chunk + o.chunk) <= Len(prompt)
               /\ \A i \in 1 .. o.chunk :
                    prompt[start + k * o.chunk + i] = o.tokens[k * o.chunk + i]
<1> DEFINE from == k * o.chunk
<1>1. /\ prompt \in Seq(Range(prompt)) /\ o.tokens \in Seq(Range(o.tokens))
      /\ o.chunk \in Nat /\ from \in Nat /\ from + o.chunk <= Len(o.tokens)
  BY PromptAssumption, ObjectsOK DEF ObjectOK, TokenCount
<1>2. ChunkMatches(prompt, o, start, k)
        <=> /\ start + (from + o.chunk) <= Len(prompt)
            /\ Slice(prompt, start + from, start + (from + o.chunk))
                 = Slice(o.tokens, from, from + o.chunk)
  BY DEF ChunkMatches
<1> HIDE DEF from
<1>3. ASSUME start + (from + o.chunk) <= Len(prompt)
      PROVE  Slice(prompt, start + from, start + (from + o.chunk))
               = Slice(o.tokens, from, from + o.chunk)
               <=> \A i \in 1 .. o.chunk : prompt[start + from + i] = o.tokens[from + i]
  <2>1. start + from \in Nat /\ start + from + o.chunk <= Len(prompt)
        /\ start + from + o.chunk = start + (from + o.chunk)
    BY <1>1, <1>3
  <2>2. Slice(prompt, start + from, start + from + o.chunk)
          = Slice(o.tokens, from, from + o.chunk)
          <=> \A i \in 1 .. o.chunk : prompt[start + from + i] = o.tokens[from + i]
    <3> DEFINE q == o.tokens  P == Range(prompt)  Q == Range(q)  a == start + from  n == o.chunk
    <3>1. /\ prompt \in Seq(P) /\ q \in Seq(Q) /\ a \in Nat /\ from \in Nat /\ n \in Nat
          /\ a + n <= Len(prompt) /\ from + n <= Len(q)
      BY <1>1, <2>1
    <3> HIDE DEF q, P, Q, a, n
    <3>2. Slice(prompt, a, a + n) = Slice(q, from, from + n)
            <=> SameTokens(prompt, a, q, from, n)
      BY <3>1, SlicesEqual
    <3> QED
      BY <3>2 DEF q, a, n, SameTokens
  <2> QED
    BY <2>1, <2>2
<1> QED
  BY <1>2, <1>3 DEF from

\* Chunks that match one after the other are tokens that agree.
LEMMA MatchedAgree ==
  ASSUME NEW prompt \in Prompts, NEW o \in Objects, NEW start \in 0 .. Len(prompt),
         NEW n \in Nat, n * o.chunk <= TokenCount(o)
  PROVE  Agree(prompt, o, start, n * o.chunk)
           <=> \A k \in 0 .. n - 1 : ChunkMatches(prompt, o, start, k)
<1> DEFINE c == o.chunk
<1>0. c \in Nat \ {0} /\ TokenCount(o) \in Nat /\ Len(prompt) \in Nat
  BY ObjectsOK, PromptAssumption, LenProperties
<1>1. ASSUME NEW k \in 0 .. n - 1
      PROVE  k * c + c <= n * c /\ k * c \in Nat
  BY <1>0
<1>2. ASSUME NEW k \in 0 .. n - 1
      PROVE  ChunkMatches(prompt, o, start, k)
               <=> /\ start + (k * c + c) <= Len(prompt)
                   /\ \A i \in 1 .. c : prompt[start + k * c + i] = o.tokens[k * c + i]
  <2>1. k \in Nat /\ k * c + c <= TokenCount(o)
    BY <1>0, <1>1
  <2> QED
    BY <2>1, ChunkMatchIs
<1> HIDE DEF c
<1>3. ASSUME Agree(prompt, o, start, n * c), NEW k \in 0 .. n - 1
      PROVE  ChunkMatches(prompt, o, start, k)
  <2>1. start + (k * c + c) <= Len(prompt)
    BY <1>0, <1>1, <1>3 DEF Agree
  <2>2. ASSUME NEW i \in 1 .. c
        PROVE  prompt[start + k * c + i] = o.tokens[k * c + i]
    <3>1. k * c + i \in 1 .. n * c /\ start + (k * c + i) = start + k * c + i
      BY <1>0, <1>1
    <3> QED
      BY <1>3, <3>1 DEF Agree
  <2> QED
    BY <1>2, <2>1, <2>2
<1>4. ASSUME \A k \in 0 .. n - 1 : ChunkMatches(prompt, o, start, k)
      PROVE  Agree(prompt, o, start, n * c)
  <2>1. start + n * c <= Len(prompt)
    <3>1. CASE n = 0
      BY <1>0, <3>1
    <3>2. CASE n # 0
      <4>1. n - 1 \in 0 .. n - 1 /\ (n - 1) * c + c = n * c
        BY <1>0, <3>2
      <4> QED
        BY <1>2, <1>4, <4>1
    <3> QED
      BY <3>1, <3>2
  <2>2. ASSUME NEW i \in 1 .. n * c
        PROVE  prompt[start + i] = o.tokens[i]
    <3> DEFINE k == (i - 1) \div c
               j == i - k * c
    <3>1. k \in Int /\ k * c <= i - 1 /\ i - 1 < k * c + c
      BY <1>0
    <3>2. k \in 0 .. n - 1
      BY <1>0, <3>1
    <3>3. j \in 1 .. c /\ k * c + j = i /\ start + k * c + j = start + i
      BY <1>0, <3>1
    <3> HIDE DEF k, j
    <3> QED
      BY <1>2, <1>4, <3>2, <3>3
  <2> QED
    BY <2>1, <2>2 DEF Agree
<1> QED
  BY <1>3, <1>4 DEF c

\* The digests stand for the prefixes that end with a complete chunk.
LEMMA DigestsAre ==
  ASSUME NEW o \in Objects
  PROVE  /\ DigestCount(o) \in Nat
         /\ DigestCount(o) * o.chunk <= TokenCount(o)
         /\ ~o.digests => DigestCount(o) = 0
         /\ o.digests => \A n \in 1 .. TokenCount(o) :
              n % o.chunk = 0 => \E k \in 1 .. DigestCount(o) : n = k * o.chunk
<1> DEFINE c == o.chunk  t == TokenCount(o)
<1>0. c \in Nat \ {0} /\ t \in Nat
  BY ObjectsOK
<1>1. t \div c \in Nat /\ (t \div c) * c <= t /\ t < (t \div c) * c + c
  BY <1>0
<1>2. DigestCount(o) = IF o.digests THEN t \div c ELSE 0
  BY DEF DigestCount
<1>3. ASSUME NEW n \in 1 .. t, n % c = 0
      PROVE  \E k \in 1 .. t \div c : n = k * c
  <2>1. n \div c \in Int /\ n = (n \div c) * c
    BY <1>0, <1>3
  <2>2. n \div c >= 1
    BY <1>0, <2>1
  <2>3. n \div c <= t \div c
    BY <1>0, <1>1, <2>1
  <2> QED
    BY <1>1, <2>1, <2>2, <2>3
<1> QED
  BY <1>0, <1>1, <1>2, <1>3

\* The comparison stops at the first chunk that differs.
LEMMA MatchedIs ==
  ASSUME NEW prompt \in Prompts, NEW o \in Objects, NEW start \in Nat
  PROVE  /\ MatchedChunks(prompt, o, start) \in 0 .. DigestCount(o)
         /\ \A k \in 0 .. MatchedChunks(prompt, o, start) - 1 : ChunkMatches(prompt, o, start, k)
         /\ \/ MatchedChunks(prompt, o, start) = DigestCount(o)
            \/ ~ChunkMatches(prompt, o, start, MatchedChunks(prompt, o, start))
<1> DEFINE D == DigestCount(o)
           Differs(n) == n = D \/ ~ChunkMatches(prompt, o, start, n)
           Stops == {n \in 0 .. D : Differs(n)}
<1>1. D \in Nat
  BY DigestsAre
<1>2. Stops \subseteq Nat /\ D \in Stops
  BY <1>1
<1>3. PICK n \in Stops : \A m \in Stops : n <= m
  <2> HIDE DEF Stops
  <2> QED
    BY <1>2, LeastNat
<1>4. ASSUME NEW k \in 0 .. n - 1
      PROVE  ChunkMatches(prompt, o, start, k)
  BY <1>1, <1>3, <1>4
<1>5. \E m \in 0 .. D : /\ \A k \in 0 .. m - 1 : ChunkMatches(prompt, o, start, k)
                        /\ m = D \/ ~ChunkMatches(prompt, o, start, m)
  BY <1>3, <1>4
<1> QED
  BY <1>5 DEF MatchedChunks

\* What locate_authenticated_skill_prefix promises of a prefix it returns.
Longest(prompt, o, prefix) ==
  LET start == prefix.start
      n == prefix.end - start
      Eligible == {m \in 1 .. TokenCount(o) : m = TokenCount(o) \/ (o.digests /\ m % o.chunk = 0)}
  IN /\ start \in 0 .. Len(prompt) - Len(o.marker)
     /\ \A s \in start + 1 .. Len(prompt) - Len(o.marker) :
          Slice(prompt, s, s + Len(o.marker)) # o.marker
     /\ n \in Eligible
     /\ prefix.end = start + n
     /\ Agree(prompt, o, start, n)
     /\ \A m \in Eligible : Agree(prompt, o, start, m) => m <= n

\* The digest of the whole object is compared with as many tokens of the prompt.
LEMMA ExactIs ==
  ASSUME NEW prompt \in Prompts, NEW o \in Objects, NEW start \in Nat
  PROVE  ExactAt(prompt, o, start) <=> Agree(prompt, o, start, TokenCount(o))
<1>1. TokenCount(o) \in Nat /\ o.tokens \in Seq(Range(o.tokens))
  BY ObjectsOK DEF ObjectOK
<1>2. Slice(o.tokens, 0, TokenCount(o)) = o.tokens
  <2>1. Slice(o.tokens, 0, TokenCount(o)) = SubSeq(o.tokens, 1, Len(o.tokens))
    BY DEF Slice, TokenCount
  <2> QED
    BY <1>1, <2>1, SubSeqFull
<1> QED
  BY <1>1, <1>2, AgreeIs DEF ExactAt

\* The exact comparison, then the comparison by chunks, find the longest prefix.
LEMMA LocatedIsLongest ==
  ASSUME NEW prompt \in Prompts, NEW o \in Objects, Located(prompt, o) # NoPrefix
  PROVE  Longest(prompt, o, Located(prompt, o))
<1> DEFINE start == NewestMarker(prompt, o.marker)
           matched == MatchedChunks(prompt, o, start)
           t == TokenCount(o)
           c == o.chunk
           Eligible == {m \in 1 .. t : m = t \/ (o.digests /\ m % c = 0)}
<1>0. /\ prompt \in Seq(Range(prompt)) /\ o.marker \in Seq(Range(o.marker))
      /\ t \in Nat \ {0} /\ c \in Nat \ {0}
      /\ Len(prompt) \in Nat /\ Len(o.marker) \in Nat
  BY PromptAssumption, ObjectsOK, LenProperties DEF ObjectOK
<1>1. MarkerStarts(prompt, o.marker) # {}
  BY DEF Located
<1>2. /\ start \in 0 .. Len(prompt) - Len(o.marker)
      /\ \A s \in start + 1 .. Len(prompt) - Len(o.marker) :
           Slice(prompt, s, s + Len(o.marker)) # o.marker
  <2> DEFINE marker == o.marker
  <2>1. marker \in Seq(Range(o.marker))
    BY <1>0
  <2>2. /\ NewestMarker(prompt, marker) \in 0 .. Len(prompt) - Len(marker)
        /\ \A s \in NewestMarker(prompt, marker) + 1 .. Len(prompt) - Len(marker) :
             Slice(prompt, s, s + Len(marker)) # marker
    <3> HIDE DEF marker
    <3> QED
      BY <1>0, <1>1, <2>1, NewestIs DEF marker
  <2> QED
    BY <2>2
<1>3. start \in Nat /\ start \in 0 .. Len(prompt)
  BY <1>0, <1>2
<1>4. ExactAt(prompt, o, start) <=> Agree(prompt, o, start, t)
  BY <1>3, ExactIs
<1>5. /\ Located(prompt, o).start = start
      /\ Located(prompt, o).end = start + IF ExactAt(prompt, o, start) THEN t ELSE matched * c
      /\ ExactAt(prompt, o, start) \/ matched # 0
  BY <1>1 DEF Located
<1> HIDE DEF start
<1>6. CASE ExactAt(prompt, o, start)
  <2>1. Located(prompt, o).end - Located(prompt, o).start = t
    BY <1>0, <1>3, <1>5, <1>6
  <2>2. t \in Eligible /\ \A m \in Eligible : m <= t
    BY <1>0
  <2> QED
    BY <1>2, <1>4, <1>5, <1>6, <2>1, <2>2 DEF Longest
<1>7. CASE ~ExactAt(prompt, o, start)
  <2>1. /\ matched \in 1 .. DigestCount(o)
        /\ \A k \in 0 .. matched - 1 : ChunkMatches(prompt, o, start, k)
        /\ matched = DigestCount(o) \/ ~ChunkMatches(prompt, o, start, matched)
    BY <1>3, <1>5, <1>7, MatchedIs
  <2>2. /\ DigestCount(o) \in Nat /\ DigestCount(o) * c <= t
        /\ ~o.digests => DigestCount(o) = 0
        /\ o.digests => \A m \in 1 .. t :
             m % c = 0 => \E k \in 1 .. DigestCount(o) : m = k * c
    BY DigestsAre
  <2>3. o.digests
    BY <2>1, <2>2 DEF ObjectOK
  <2> HIDE DEF matched, t, c
  <2>4. matched * c \in 1 .. t /\ (matched * c) % c = 0
    <3>1. matched \in Nat /\ 1 <= matched /\ matched <= DigestCount(o)
      BY <2>1, <2>2
    <3>2. c <= matched * c /\ matched * c <= DigestCount(o) * c
      <4>1. 1 * c <= matched * c /\ 1 * c = c /\ matched * c \in Nat
        BY <1>0, <3>1, ProductMonotone
      <4>2. matched * c <= DigestCount(o) * c
        BY <1>0, <2>2, <3>1, ProductMonotone
      <4> QED
        BY <4>1, <4>2
    <3>3. (matched * c) % c = 0
      BY <1>0, <3>1, MultipleOf
    <3>4. matched * c \in Nat /\ DigestCount(o) * c \in Nat
      BY <1>0, <2>2, <3>1
    <3> HIDE DEF Eligible
    <3> QED
      BY <1>0, <2>2, <3>2, <3>3, <3>4
  <2>5. Agree(prompt, o, start, matched * c)
    BY <1>3, <2>1, <2>4, MatchedAgree DEF t, c
  <2>6. ASSUME NEW m \in Eligible, Agree(prompt, o, start, m)
        PROVE  m <= matched * c
    <3>1. m # t
      BY <1>4, <1>7, <2>6
    <3>2. PICK k \in 1 .. DigestCount(o) : m = k * c
      BY <2>2, <2>3, <3>1
    <3>3. \A j \in 0 .. k - 1 : ChunkMatches(prompt, o, start, j)
      <4>1. k \in Nat /\ k * c <= t
        BY <2>2, <3>2, <1>0
      <4> QED
        BY <1>3, <2>6, <3>2, <4>1, MatchedAgree DEF t, c
    <3>4. k <= matched
      BY <2>1, <2>2, <3>3
    <3> QED
      BY <1>0, <2>1, <3>2, <3>4
  <2>7. /\ Located(prompt, o).end = start + matched * c
        /\ Located(prompt, o).end - Located(prompt, o).start = matched * c
    BY <1>3, <1>5, <1>7, <2>4
  <2>8. matched * c \in Eligible
    BY <2>3, <2>4
  <2> QED
    BY <1>2, <1>5, <2>5, <2>6, <2>7, <2>8 DEF Longest, t, c
<1> QED
  BY <1>6, <1>7

------------------------------------------------------------------------------
(* The request.                                                            *)

\* A request is bound to what was located in its prompt, and planned from that.
PlannedFrom(prefix, plan) ==
  \E strategy \in Strategies, c \in 0 .. tokens :
    /\ c \in CalibrationTokens(strategy, prefix.end - prefix.start)
    /\ ~TooShort(prefix, c, Minimum)
    /\ plan = Plan(prefix, object, strategy, c)

RequestInv ==
  /\ request.phase \in {"none", "bound", "planned", "staged"}
  /\ request.phase # "none" => request.prompt \in Prompts
                               /\ Located(request.prompt, object) # NoPrefix
  /\ request.phase \in {"bound", "planned"} => request.load \in Loads
  /\ request.phase = "bound" => request.prefix = Located(request.prompt, object)
  /\ request.phase \in {"planned", "staged"} =>
       PlannedFrom(Located(request.prompt, object), request.plan)
  /\ request.phase = "staged" => request.layer \in layerIds

LEMMA StepRequest ==
  ASSUME RequestInv, [TransferNext]_transferVars
  PROVE  RequestInv' /\ pool' = pool
<1>0. pool' = pool
  BY DEF TransferNext, transferVars, Authenticate, Prepare, StageLayer, LoadStep, Validate, Acquire,
         ReadExtents, ReadLayerObjects, Arrange, Convert, Record, Unwind, GiveBack
<1>1. CASE UNCHANGED <<pool, request>>
  BY <1>1 DEF RequestInv, PlannedFrom, tokens, object
<1>2. ASSUME NEW l \in Loads, NEW prompt \in Prompts, Authenticate(l, prompt)
      PROVE  RequestInv'
  BY <1>2 DEF RequestInv, Authenticate, object
<1>3. ASSUME NEW strategy \in Strategies, NEW c \in 0 .. tokens, Prepare(strategy, c)
      PROVE  RequestInv'
  <2>1. /\ request.phase = "bound" /\ request.prefix = Located(request.prompt, object)
        /\ Located(request.prompt, object) # NoPrefix
        /\ request.prompt \in Prompts /\ request.load \in Loads
    BY <1>3 DEF Prepare, RequestInv
  <2>2. PlannedFrom(request.prefix, Plan(request.prefix, object, strategy, c))
    BY <1>3 DEF Prepare, PlannedFrom
  <2>3. /\ request'.phase = "planned" /\ request'.load = request.load
        /\ request'.prompt = request.prompt
        /\ request'.plan = Plan(request.prefix, object, strategy, c)
    BY <1>3 DEF Prepare
  <2> QED
    BY <1>0, <2>1, <2>2, <2>3 DEF RequestInv, PlannedFrom, object, tokens
<1>4. ASSUME NEW layer \in layerIds, StageLayer(layer)
      PROVE  RequestInv'
  BY <1>0, <1>4 DEF RequestInv, StageLayer, PlannedFrom, object, tokens, layerIds
<1>5. ASSUME NEW l \in Loads, LoadStep(l)
      PROVE  UNCHANGED <<pool, request>>
  BY <1>5 DEF LoadStep, Validate, Acquire, ReadExtents, ReadLayerObjects, Arrange, Convert,
              Record, Unwind, GiveBack
<1> QED
  BY <1>0, <1>1, <1>2, <1>3, <1>4, <1>5 DEF TransferNext, transferVars

\* A request keeps the prefix that was located for it.
LEMMA RequestInvariant == TransferSpec => [](PoolTyped /\ RequestInv)
<1>1. TransferInit => PoolTyped /\ RequestInv
  BY DEF TransferInit, NoRequest, PoolTyped, RequestInv
<1>2. PoolTyped /\ RequestInv /\ [TransferNext]_transferVars => PoolTyped' /\ RequestInv'
  <2>1. ASSUME PoolTyped, RequestInv, [TransferNext]_transferVars
        PROVE  PoolTyped' /\ RequestInv'
    BY <2>1, StepRequest DEF PoolTyped
  <2> QED
    BY <2>1
<1> QED
  BY <1>1, <1>2, PTL DEF TransferSpec

\* The prefix a request is bound to begins at the last marker of its prompt and is the
\* longest part of the object that is there and ends with a chunk or the object
\* (authentication.py locate_authenticated_skill_prefix), for every prompt and object.
THEOREM BoundToLongest == TransferSpec => []LongestPrefixFound
<1>1. ASSUME PoolTyped, RequestInv, request.phase = "bound"
      PROVE  LongestPrefixFound
  <2> DEFINE prompt == request.prompt
             prefix == request.prefix
             start == prefix.start
             n == prefix.end - start
             Eligible == {m \in 1 .. tokens : m = tokens \/ (object.digests /\ m % object.chunk = 0)}
             Matches(m) == /\ start + m <= Len(prompt)
                           /\ Slice(prompt, start, start + m) = Slice(object.tokens, 0, m)
  <2>1. object \in Objects /\ prompt \in Prompts
    BY <1>1 DEF PoolTyped, RequestInv, object
  <2>2. Longest(prompt, object, prefix)
    BY <1>1, <2>1, LocatedIsLongest DEF RequestInv
  <2>3. /\ start \in 0 .. Len(prompt) - Len(object.marker)
        /\ \A s \in start + 1 .. Len(prompt) - Len(object.marker) :
             Slice(prompt, s, s + Len(object.marker)) # object.marker
        /\ n \in Eligible /\ Agree(prompt, object, start, n)
        /\ \A m \in Eligible : Agree(prompt, object, start, m) => m <= n
    BY <2>2 DEF Longest, tokens
  <2>4. start \in Nat /\ tokens \in Nat \ {0}
    BY <2>1, <2>3, ObjectsOK DEF tokens
  <2>5. ASSUME NEW m \in Eligible
        PROVE  Agree(prompt, object, start, m) <=> Matches(m)
    <3>1. m \in 0 .. TokenCount(object)
      BY <2>4 DEF tokens
    <3> QED
      BY <2>1, <2>4, <3>1, AgreeIs
  <2>6. Matches(n) /\ \A m \in Eligible : Matches(m) => m <= n
    BY <2>3, <2>5
  <2> QED
    BY <2>3, <2>6 DEF LongestPrefixFound
<1>2. PoolTyped /\ RequestInv => LongestPrefixFound
  BY <1>1 DEF LongestPrefixFound
<1> QED
  BY <1>2, RequestInvariant, PTL

\* Every plan made from an authenticated prefix is a valid one, if it is not too short.
LEMMA PlansOK ==
  ASSUME NEW prompt \in Prompts, NEW o \in Objects, NEW prefix, Longest(prompt, o, prefix),
         NEW strategy \in Strategies,
         NEW c \in CalibrationTokens(strategy, prefix.end - prefix.start),
         ~TooShort(prefix, c, Minimum)
  PROVE  /\ PlanOK(Plan(prefix, o, strategy, c))
         /\ c \in 0 .. TokenCount(o)
<1>1. /\ TokenCount(o) \in Nat \ {0} /\ o.position \in Nat /\ Minimum \in Nat \ {0}
      /\ Len(prompt) \in Nat /\ Len(o.marker) \in Nat
  BY ObjectsOK, TransferAssumption, PromptAssumption, LenProperties DEF ObjectOK
<1> DEFINE start == prefix.start  n == prefix.end - start
<1>2. start \in Nat /\ n \in 1 .. TokenCount(o) /\ prefix.end = start + n
  <2>1. /\ start \in 0 .. Len(prompt) - Len(o.marker) /\ prefix.end = start + n
        /\ n \in 1 .. TokenCount(o)
    BY DEF Longest
  <2> QED
    BY <1>1, <2>1
<1>3. /\ c \in 0 .. n
      /\ strategy = "ratio_prefix" <=> 0 < c
  BY <1>1, <1>2 DEF CalibrationTokens
<1>4. n - c >= Minimum
  BY <1>1, <1>2, <1>3 DEF TooShort
<1> DEFINE plan == Plan(prefix, o, strategy, c)
<1>5. /\ plan.strategy = strategy
      /\ plan.segmentStart = start /\ plan.segmentEnd = start + n
      /\ plan.calibrationStart = start /\ plan.calibrationEnd = start + c
      /\ plan.reuseStart = start + c /\ plan.reuseEnd = start + n
      /\ plan.sourceStart = o.position + c /\ plan.sourceEnd = o.position + n
      /\ plan.sourceTokens = TokenCount(o)
  BY <1>2 DEF Plan
<1> HIDE DEF plan, start, n
<1>6. SourcePosition(plan) = o.position
  BY <1>1, <1>2, <1>3, <1>5 DEF SourcePosition
<1>7. PlanOK(plan)
  <2>1. start < start + c <=> 0 < c
    BY <1>2, <1>3
  <2>2. c < n
    BY <1>1, <1>2, <1>3, <1>4
  <2> QED
    BY <1>1, <1>2, <1>3, <1>5, <1>6, <2>1, <2>2 DEF PlanOK
<1> QED
  BY <1>1, <1>2, <1>3, <1>7 DEF plan

------------------------------------------------------------------------------
(* Layouts.                                                                *)

InOrder(S) ==
  [i \in 1 .. Cardinality(S) |->
     CHOOSE r \in S : Cardinality({s \in S : s.chunkStart < r.chunkStart}) = i - 1]

\* A sequence of regions that begin one chunk after the other is the sorted sequence of
\* its elements.
LEMMA InChunkOrder ==
  ASSUME NEW w \in Nat, NEW T, NEW G \in [1 .. w -> T],
         \A i \in 1 .. w : G[i].chunkStart = i - 1,
         NEW S, S = {G[i] : i \in 1 .. w}
  PROVE  /\ Cardinality(S) = w
         /\ InOrder(S) = G
<1> DEFINE Before(r) == {s \in S : s.chunkStart < r.chunkStart}
<1>1. ASSUME NEW m \in 0 .. w
      PROVE  Cardinality({G[i] : i \in 1 .. m}) = m
  <2> DEFINE f == [i \in 1 .. m |-> G[i]]
             R == {G[i] : i \in 1 .. m}
  <2>1. f \in Bijection(1 .. m, R)
    <3>1. ASSUME NEW i \in 1 .. m, NEW j \in 1 .. m, f[i] = f[j]
          PROVE  i = j
      <4>1. i \in 1 .. w /\ j \in 1 .. w /\ G[i] = G[j]
        BY <3>1
      <4>2. G[i].chunkStart = i - 1 /\ G[j].chunkStart = j - 1
        BY <4>1
      <4> QED
        BY <4>1, <4>2
    <3> QED
      BY <3>1 DEF Bijection, Injection, Surjection, IsInjective
  <2>2. IsFiniteSet(1 .. m) /\ Cardinality(1 .. m) = m
    BY FS_Interval
  <2>3. ExistsBijection(1 .. m, R)
    BY <2>1 DEF ExistsBijection
  <2> HIDE DEF R
  <2>4. Cardinality(R) = m
    BY <2>2, <2>3, FS_Bijection
  <2> QED
    BY <2>4 DEF R
<1>2. Cardinality(S) = w
  BY <1>1
<1>3. ASSUME NEW i \in 1 .. w
      PROVE  Cardinality(Before(G[i])) = i - 1
  <2>1. Before(G[i]) = {G[j] : j \in 1 .. i - 1}
    OBVIOUS
  <2>2. i - 1 \in 0 .. w
    OBVIOUS
  <2> QED
    BY <1>1, <2>1, <2>2
<1>4. ASSUME NEW i \in 1 .. w
      PROVE  (CHOOSE r \in S : Cardinality(Before(r)) = i - 1) = G[i]
  <2>1. G[i] \in S /\ Cardinality(Before(G[i])) = i - 1
    BY <1>3
  <2>2. ASSUME NEW r \in S, Cardinality(Before(r)) = i - 1
        PROVE  r = G[i]
    <3>1. PICK j \in 1 .. w : r = G[j]
      OBVIOUS
    <3>2. Cardinality(Before(r)) = j - 1
      BY <1>3, <3>1
    <3> QED
      BY <2>2, <3>1, <3>2
  <2> HIDE DEF Before
  <2> QED
    BY <2>1, <2>2
<1> QED
  BY <1>2, <1>4 DEF InOrder

\* The chunks of n tokens: they begin at the multiples of the size, and the last ends
\* with the tokens.
LEMMA ChunksAre ==
  ASSUME NEW n \in Nat \ {0}, NEW c \in Nat \ {0}
  PROVE  /\ CeilDiv(n, c) \in 1 .. n
         /\ DOMAIN FixedSize(n, c) = 0 .. CeilDiv(n, c) - 1
         /\ \A k \in 0 .. CeilDiv(n, c) - 1 :
              /\ FixedSize(n, c)[k].start = k * c
              /\ FixedSize(n, c)[k].end = IF k = CeilDiv(n, c) - 1 THEN n ELSE k * c + c
              /\ k * c \in Nat /\ k * c < FixedSize(n, c)[k].end
              /\ FixedSize(n, c)[k].end <= n
<1> DEFINE q == CeilDiv(n, c)
<1>1. q \in 1 .. n /\ (q - 1) * c < n /\ n <= q * c
  BY CeilDivBounds
<1>2. DOMAIN FixedSize(n, c) = 0 .. q - 1
  BY DEF FixedSize, ChunkCount
<1>3. ASSUME NEW k \in 0 .. q - 1
      PROVE  /\ FixedSize(n, c)[k].start = k * c
             /\ FixedSize(n, c)[k].end = Least(k * c + c, n)
  BY DEF FixedSize, ChunkCount
<1> HIDE DEF q
<1>4. ASSUME NEW k \in 0 .. q - 1
      PROVE  /\ k * c \in Nat /\ k * c < n
             /\ k # q - 1 => k * c + c < n
             /\ k = q - 1 => n <= k * c + c
  <2>1. k \in Nat /\ q - 1 \in Nat /\ k <= q - 1 /\ k * c \in Nat
    BY <1>1
  <2>2. k * c <= (q - 1) * c
    BY <2>1, ProductMonotone
  <2>3. CASE k = q - 1
    <3>1. k * c + c = q * c
      BY <1>1, <2>3
    <3> QED
      BY <1>1, <2>1, <2>2, <2>3, <3>1
  <2>4. CASE k # q - 1
    <3>1. k + 1 \in Nat /\ k + 1 <= q - 1 /\ (k + 1) * c = k * c + c
      BY <2>1, <2>4
    <3>2. (k + 1) * c <= (q - 1) * c
      BY <2>1, <3>1, ProductMonotone
    <3> QED
      BY <1>1, <2>1, <2>2, <2>4, <3>1, <3>2
  <2> QED
    BY <2>3, <2>4
<1>5. ASSUME NEW k \in 0 .. q - 1
      PROVE  /\ Least(k * c + c, n) = IF k = q - 1 THEN n ELSE k * c + c
             /\ k * c < Least(k * c + c, n) /\ Least(k * c + c, n) <= n
  BY <1>4 DEF Least
<1> QED
  BY <1>1, <1>2, <1>3, <1>4, <1>5 DEF q

\* The intervals of chunks and of layers that the regions of a layout lie over: the i-th
\* begins with chunk i - 1, and one of them has layer l.
ByChunk == {"chunk_all_layers", "chunk_single_layer"}
SpanCount(layout, count) == IF layout \in ByChunk THEN count ELSE 1
SpanEnd(layout, count, i) == IF layout \in ByChunk THEN i ELSE count
LayerFrom(layout, l) == IF layout \in SingleLayer THEN l ELSE 0
LayerTo(layout, layers, l) == IF layout \in SingleLayer THEN l + 1 ELSE layers

\* The regions that have layer l, in order.
OfLayer(layout, n, c, layers, l) ==
  [i \in 1 .. SpanCount(layout, CeilDiv(n, c)) |->
     Region(FixedSize(n, c), i - 1, SpanEnd(layout, CeilDiv(n, c), i),
            LayerFrom(layout, l), LayerTo(layout, layers, l))]

\* The regions with a given layer are those that OfLayer lists.
LEMMA RegionsAre ==
  ASSUME NEW layout \in Layouts, NEW n \in Nat \ {0}, NEW c \in Nat \ {0},
         NEW layers \in Nat \ {0}, NEW l \in 0 .. layers - 1
  PROVE  {r \in Regions(layout, FixedSize(n, c), layers) : l \in r.layerStart .. r.layerEnd - 1}
           = {OfLayer(layout, n, c, layers, l)[i] : i \in 1 .. SpanCount(layout, CeilDiv(n, c))}
<1> DEFINE chs == FixedSize(n, c)
           q == CeilDiv(n, c)
           w == SpanCount(layout, q)
           chunkSpans == {<<i - 1, SpanEnd(layout, q, i)>> : i \in 1 .. w}
           layerSpans == {<<LayerFrom(layout, k), LayerTo(layout, layers, k)>> : k \in 0 .. layers - 1}
<1>1. q \in Nat \ {0} /\ Cardinality(DOMAIN chs) = q
  <2>1. q \in 1 .. n /\ DOMAIN chs = 0 .. q - 1
    BY ChunksAre
  <2>2. q - 1 \in Int /\ 0 \in Int
    BY <2>1
  <2> HIDE DEF q, chs
  <2> QED
    BY <2>1, <2>2, FS_Interval
<1> HIDE DEF q, chs
<1>2. {<<k, k + 1>> : k \in 0 .. q - 1} = {<<i - 1, i>> : i \in 1 .. q}
  <2>1. \A k \in 0 .. q - 1 : k + 1 \in 1 .. q /\ <<k, k + 1>> = <<k + 1 - 1, k + 1>>
    BY <1>1
  <2>2. \A i \in 1 .. q : i - 1 \in 0 .. q - 1 /\ <<i - 1, i>> = <<i - 1, i - 1 + 1>>
    BY <1>1
  <2> QED
    BY <2>1, <2>2
<1>3. chunkSpans = IF layout \in ByChunk THEN {<<k, k + 1>> : k \in 0 .. q - 1} ELSE {<<0, q>>}
  BY <1>1, <1>2 DEF SpanCount, SpanEnd
<1>4. layerSpans = IF layout \in SingleLayer THEN {<<k, k + 1>> : k \in 0 .. layers - 1}
                   ELSE {<<0, layers>>}
  BY DEF LayerFrom, LayerTo
<1>5. Regions(layout, chs, layers)
        = {Region(chs, s[1], s[2], t[1], t[2]) : s \in chunkSpans, t \in layerSpans}
  BY <1>1, <1>3, <1>4 DEF Regions, ByChunk
<1>6. ASSUME NEW k \in 0 .. layers - 1,
             l \in LayerFrom(layout, k) .. LayerTo(layout, layers, k) - 1
      PROVE  /\ LayerFrom(layout, k) = LayerFrom(layout, l)
             /\ LayerTo(layout, layers, k) = LayerTo(layout, layers, l)
  BY <1>6 DEF LayerFrom, LayerTo
<1>7. l \in LayerFrom(layout, l) .. LayerTo(layout, layers, l) - 1
  BY DEF LayerFrom, LayerTo
<1> DEFINE G == OfLayer(layout, n, c, layers, l)
           S == {r \in Regions(layout, chs, layers) : l \in r.layerStart .. r.layerEnd - 1}
<1>8. \A i \in 1 .. w :
        G[i] = Region(chs, i - 1, SpanEnd(layout, q, i), LayerFrom(layout, l), LayerTo(layout, layers, l))
  BY DEF OfLayer, q, chs
<1> HIDE DEF G
<1>9. ASSUME NEW i \in 1 .. w
      PROVE  G[i] \in S
  <2>1. <<i - 1, SpanEnd(layout, q, i)>> \in chunkSpans
        /\ <<LayerFrom(layout, l), LayerTo(layout, layers, l)>> \in layerSpans
    OBVIOUS
  <2> HIDE DEF chunkSpans, layerSpans
  <2>2. G[i] \in Regions(layout, chs, layers)
    BY <1>5, <1>8, <2>1
  <2>3. G[i].layerStart = LayerFrom(layout, l) /\ G[i].layerEnd = LayerTo(layout, layers, l)
    <3>1. G[i] = Region(chs, i - 1, SpanEnd(layout, q, i), LayerFrom(layout, l),
                        LayerTo(layout, layers, l))
      BY <1>8
    <3> QED
      BY <3>1 DEF Region
  <2> QED
    BY <1>7, <2>2, <2>3
<1>10. ASSUME NEW r \in S
       PROVE  \E i \in 1 .. w : r = G[i]
  <2>1. PICK s \in chunkSpans, t \in layerSpans : r = Region(chs, s[1], s[2], t[1], t[2])
    <3> HIDE DEF chunkSpans, layerSpans
    <3> QED
      BY <1>5
  <2>2. PICK i \in 1 .. w : s = <<i - 1, SpanEnd(layout, q, i)>>
    OBVIOUS
  <2>3. PICK k \in 0 .. layers - 1 : t = <<LayerFrom(layout, k), LayerTo(layout, layers, k)>>
    OBVIOUS
  <2>4. r = Region(chs, i - 1, SpanEnd(layout, q, i), LayerFrom(layout, k), LayerTo(layout, layers, k))
    BY <2>1, <2>2, <2>3
  <2>5. l \in LayerFrom(layout, k) .. LayerTo(layout, layers, k) - 1
    BY <2>4 DEF Region
  <2> QED
    BY <1>6, <1>8, <2>4, <2>5
<1>11. S = {G[i] : i \in 1 .. w}
  <2> HIDE DEF S, w
  <2> QED
    BY <1>9, <1>10
<1> QED
  BY <1>11 DEF G, q, chs

\* What a layer copies are its regions, in order: the first begins with the first token,
\* each begins where the one before it ends, and the last ends with the tokens.
CutInOrder(slices, layout, n, c) ==
  /\ SpanCount(layout, CeilDiv(n, c)) \in 1 .. n
  /\ \A i \in 1 .. SpanCount(layout, CeilDiv(n, c)) :
       /\ slices[i].chunkStart = i - 1
       /\ slices[i].chunkEnd = SpanEnd(layout, CeilDiv(n, c), i)
       /\ slices[i].start = (i - 1) * c
       /\ slices[i].end = IF i = SpanCount(layout, CeilDiv(n, c)) THEN n ELSE i * c
       /\ (i - 1) * c \in Nat /\ slices[i].start < slices[i].end /\ slices[i].end <= n

LEMMA SlicesAre ==
  ASSUME NEW layout \in Layouts, NEW n \in Nat \ {0}, NEW c \in Nat \ {0},
         NEW layers \in Nat \ {0}, NEW l \in 0 .. layers - 1
  PROVE  /\ Slices(Regions(layout, FixedSize(n, c), layers), l) = OfLayer(layout, n, c, layers, l)
         /\ CutInOrder(OfLayer(layout, n, c, layers, l), layout, n, c)
<1> DEFINE chs == FixedSize(n, c)
           q == CeilDiv(n, c)
           w == SpanCount(layout, q)
           G == OfLayer(layout, n, c, layers, l)
           S == {r \in Regions(layout, chs, layers) : l \in r.layerStart .. r.layerEnd - 1}
<1>1. /\ q \in 1 .. n
      /\ \A k \in 0 .. q - 1 :
           /\ chs[k].start = k * c
           /\ chs[k].end = IF k = q - 1 THEN n ELSE k * c + c
           /\ k * c \in Nat /\ k * c < chs[k].end /\ chs[k].end <= n
  BY ChunksAre
<1>2. S = {G[i] : i \in 1 .. w}
  BY RegionsAre
<1>3. DOMAIN G = 1 .. w /\ \A i \in 1 .. w :
        G[i] = Region(chs, i - 1, SpanEnd(layout, q, i), LayerFrom(layout, l), LayerTo(layout, layers, l))
  BY DEF OfLayer
<1>30. G = [i \in 1 .. w |-> G[i]]
  BY DEF OfLayer
<1> HIDE DEF G, chs, q
<1>4. w \in 1 .. q /\ w \in 1 .. n
  BY <1>1 DEF SpanCount
<1> HIDE DEF w
<1>5. ASSUME NEW i \in 1 .. w
      PROVE  /\ G[i].chunkStart = i - 1
             /\ G[i].chunkEnd = SpanEnd(layout, q, i)
             /\ G[i].start = chs[i - 1].start
             /\ G[i].end = chs[SpanEnd(layout, q, i) - 1].end
  <2>1. G[i] = Region(chs, i - 1, SpanEnd(layout, q, i), LayerFrom(layout, l), LayerTo(layout, layers, l))
    BY <1>3
  <2> QED
    BY <2>1 DEF Region
<1>6. ASSUME NEW i \in 1 .. w
      PROVE  /\ SpanEnd(layout, q, i) \in i .. q
             /\ i # w => SpanEnd(layout, q, i) = i
             /\ i = w => SpanEnd(layout, q, i) = q
  BY <1>1, <1>4 DEF w, SpanEnd, SpanCount
<1>7. ASSUME NEW i \in 1 .. w
      PROVE  /\ G[i].start = (i - 1) * c
             /\ G[i].end = IF i = w THEN n ELSE i * c
             /\ (i - 1) * c \in Nat /\ G[i].start < G[i].end /\ G[i].end <= n
  <2>1. i - 1 \in 0 .. q - 1 /\ SpanEnd(layout, q, i) - 1 \in 0 .. q - 1
    BY <1>1, <1>4, <1>6
  <2>2. /\ G[i].start = (i - 1) * c /\ (i - 1) * c \in Nat
        /\ chs[i - 1].end \in Nat /\ (i - 1) * c < chs[i - 1].end /\ chs[i - 1].end <= n
    BY <1>1, <1>5, <2>1
  <2>3. CASE i = w
    <3>1. G[i].end = n
      BY <1>1, <1>5, <1>6, <2>1, <2>3
    <3> QED
      BY <2>2, <2>3, <3>1, <1>1
  <2>4. CASE i # w
    <3>1. i - 1 # q - 1 /\ SpanEnd(layout, q, i) = i
      BY <1>1, <1>4, <1>6, <2>4
    <3>2. (i - 1) * c + c = i * c
      BY <1>4
    <3>3. G[i].end = i * c
      BY <1>1, <1>5, <2>1, <3>1, <3>2
    <3> QED
      BY <1>5, <2>2, <2>4, <3>1, <3>3
  <2> QED
    BY <2>3, <2>4
<1>8. Slices(Regions(layout, chs, layers), l) = G
  <2>1. /\ w \in Nat /\ G \in [1 .. w -> S]
        /\ \A i \in 1 .. w : G[i].chunkStart = i - 1
    BY <1>2, <1>30, <1>4, <1>5
  <2>2. InOrder(S) = G
    <3> HIDE DEF S
    <3> QED
      BY <1>2, <2>1, InChunkOrder
  <2> QED
    BY <2>2 DEF Slices, InOrder
<1> QED
  BY <1>4, <1>5, <1>7, <1>8 DEF CutInOrder, G, chs, q, w

\* Which regions hold a chunk of a layer: the one over it.
LEMMA CoveredOnce ==
  ASSUME NEW layout \in Layouts, NEW n \in Nat \ {0}, NEW c \in Nat \ {0},
         NEW layers \in Nat \ {0}
  PROVE  LayoutPlanOK(Regions(layout, FixedSize(n, c), layers), FixedSize(n, c), layers)
<1> DEFINE chs == FixedSize(n, c)
           q == CeilDiv(n, c)
           w == SpanCount(layout, q)
           regions == Regions(layout, chs, layers)
<1>1. q \in 1 .. n /\ DOMAIN chs = 0 .. q - 1
  BY ChunksAre
<1>2. ASSUME NEW k \in 0 .. q - 1, NEW l \in 0 .. layers - 1
      PROVE  Cardinality({r \in regions : /\ k \in r.chunkStart .. r.chunkEnd - 1
                                          /\ l \in r.layerStart .. r.layerEnd - 1}) = 1
  <2> DEFINE G == OfLayer(layout, n, c, layers, l)
             S == {r \in regions : l \in r.layerStart .. r.layerEnd - 1}
             i == IF layout \in ByChunk THEN k + 1 ELSE 1
  <2>1. S = {G[j] : j \in 1 .. w}
    BY RegionsAre
  <2>2. ASSUME NEW j \in 1 .. w
        PROVE  G[j].chunkStart = j - 1 /\ G[j].chunkEnd = SpanEnd(layout, q, j)
    <3>1. CutInOrder(G, layout, n, c)
      BY SlicesAre
    <3> QED
      BY <3>1 DEF CutInOrder
  <2> HIDE DEF G, q, regions
  <2>3. i \in 1 .. w /\ k \in i - 1 .. SpanEnd(layout, q, i) - 1
    BY <1>1 DEF SpanCount, SpanEnd
  <2>4. ASSUME NEW j \in 1 .. w, k \in j - 1 .. SpanEnd(layout, q, j) - 1
        PROVE  j = i
    BY <1>1, <2>4 DEF SpanCount, SpanEnd
  <2> HIDE DEF w, i
  <2>5. {r \in S : k \in r.chunkStart .. r.chunkEnd - 1} = {G[i]}
    <3>1. G[i] \in S /\ k \in G[i].chunkStart .. G[i].chunkEnd - 1
      BY <2>1, <2>2, <2>3
    <3>2. ASSUME NEW r \in S, k \in r.chunkStart .. r.chunkEnd - 1
          PROVE  r = G[i]
      <4>1. PICK j \in 1 .. w : r = G[j]
        BY <2>1
      <4> QED
        BY <2>2, <2>4, <3>2, <4>1
    <3> HIDE DEF S
    <3> QED
      BY <3>1, <3>2
  <2>6. {r \in regions : /\ k \in r.chunkStart .. r.chunkEnd - 1
                         /\ l \in r.layerStart .. r.layerEnd - 1}
          = {r \in S : k \in r.chunkStart .. r.chunkEnd - 1}
    OBVIOUS
  <2> QED
    BY <2>5, <2>6, FS_Singleton
<1> HIDE DEF q, chs
<1> QED
  BY <1>1, <1>2 DEF LayoutPlanOK, chs

\* The chunks are a valid plan, and the size of the first one gives the same chunks.
LEMMA ChunkPlansOK ==
  ASSUME NEW n \in Nat \ {0}, NEW c \in Nat \ {0}
  PROVE  /\ ChunkPlanOK(n, FixedSize(n, c))
         /\ FixedSize(n, FixedSize(n, c)[0].end - FixedSize(n, c)[0].start) = FixedSize(n, c)
<1> DEFINE chs == FixedSize(n, c)
           q == CeilDiv(n, c)
<1>1. /\ q \in 1 .. n /\ DOMAIN chs = 0 .. q - 1
      /\ \A k \in 0 .. q - 1 :
           /\ chs[k].start = k * c
           /\ chs[k].end = IF k = q - 1 THEN n ELSE k * c + c
           /\ k * c \in Nat /\ k * c < chs[k].end /\ chs[k].end <= n
  BY ChunksAre
<1>2. chs[0].start = 0
  BY <1>1
<1>3. ChunkPlanOK(n, chs)
  <2> HIDE DEF q, chs
  <2>1. Cardinality(DOMAIN chs) = q
    <3>1. Cardinality(0 .. q - 1) = q
      BY <1>1, FS_Interval
    <3> QED
      BY <1>1, <3>1
  <2>2. ASSUME NEW k \in (0 .. q - 1) \ {0}
        PROVE  chs[k].start = chs[k - 1].end
    <3>1. k - 1 \in 0 .. q - 1 /\ k - 1 # q - 1 /\ (k - 1) * c + c = k * c
      BY <1>1
    <3> QED
      BY <1>1, <3>1
  <2>3. \A k \in 0 .. q - 1 : chs[k].start < chs[k].end
    BY <1>1
  <2>4. chs[q - 1].end = n /\ 0 .. q - 1 # {}
    BY <1>1
  <2> QED
    <3>1. DOMAIN chs = 0 .. q - 1
      BY <1>1
    <3> QED
      BY <1>2, <2>1, <2>2, <2>3, <2>4, <3>1 DEF ChunkPlanOK
<1>4. FixedSize(n, chs[0].end - chs[0].start) = chs
  <2>1. CASE q = 1
    <3>1. chs[0].end = n
      BY <1>1, <2>1
    <3>2. CeilDiv(n, n) = 1
      <4>1. CeilDiv(n, n) \in 1 .. n /\ (CeilDiv(n, n) - 1) * n < n
        BY CeilDivBounds
      <4>2. ASSUME CeilDiv(n, n) # 1 PROVE FALSE
        <5>1. CeilDiv(n, n) - 1 \in Nat /\ 1 <= CeilDiv(n, n) - 1
          BY <4>1, <4>2
        <5>2. 1 * n <= (CeilDiv(n, n) - 1) * n
          BY <5>1, ProductMonotone
        <5> QED
          BY <4>1, <5>1, <5>2
      <4> QED
        BY <4>2
    <3>3. n <= c
      <4>1. n <= q * c
        BY CeilDivBounds
      <4> QED
        BY <2>1, <4>1
    <3>4. FixedSize(n, n) = [k \in {0} |-> [start |-> 0, end |-> n]]
      BY <3>2 DEF FixedSize, ChunkCount, Least
    <3>5. chs = [k \in {0} |-> [start |-> 0, end |-> n]]
      BY <2>1, <3>3 DEF FixedSize, ChunkCount, Least
    <3> QED
      BY <1>2, <3>1, <3>4, <3>5
  <2>2. CASE q # 1
    <3>1. chs[0].end = 0 * c + c
      BY <1>1, <2>2
    <3> QED
      BY <1>2, <3>1
  <2> QED
    BY <2>1, <2>2
<1> QED
  BY <1>3, <1>4

LEMMA TransferPlansOK ==
  ASSUME NEW layout \in Layouts, NEW n \in Nat \ {0}, NEW c \in Nat \ {0},
         NEW layers \in Nat \ {0}, NEW l \in 0 .. layers - 1
  PROVE  TransferPlanOK(Slices(Regions(layout, FixedSize(n, c), layers), l), n)
<1> DEFINE slices == Slices(Regions(layout, FixedSize(n, c), layers), l)
           q == CeilDiv(n, c)
           w == SpanCount(layout, q)
<1>1. /\ slices = OfLayer(layout, n, c, layers, l) /\ w \in 1 .. n
      /\ \A i \in 1 .. w :
           /\ slices[i].chunkStart = i - 1
           /\ slices[i].chunkEnd = SpanEnd(layout, q, i)
           /\ slices[i].start = (i - 1) * c
           /\ slices[i].end = IF i = w THEN n ELSE i * c
  <2>1. slices = OfLayer(layout, n, c, layers, l) /\ CutInOrder(slices, layout, n, c)
    BY SlicesAre
  <2> HIDE DEF slices
  <2> QED
    BY <2>1 DEF CutInOrder
<1>2. q \in 1 .. n /\ w \in {1, q} /\ (layout \notin ByChunk => w = 1)
  BY ChunksAre DEF SpanCount
<1>3. slices = [i \in 1 .. w |-> slices[i]]
  BY <1>1 DEF OfLayer
<1> HIDE DEF slices, w, q
<1>4. Len(slices) = w /\ slices # <<>>
  <2> DEFINE T == {slices[i] : i \in 1 .. w}
  <2>1. slices \in [1 .. w -> T] /\ w \in Nat
    BY <1>1, <1>3
  <2>2. slices \in Seq(T)
    BY <2>1, SeqDef
  <2>3. Len(slices) = w
    BY <2>1, <2>2
  <2> QED
    BY <1>1, <2>3, EmptySeq
<1>5. ASSUME NEW i \in 1 .. w
      PROVE  slices[i].start = IF i = 1 THEN 0 ELSE slices[i - 1].end
  <2>1. CASE i = 1
    BY <1>1, <2>1
  <2>2. CASE i # 1
    <3>1. i - 1 \in 1 .. w /\ i - 1 # w
      BY <1>1, <2>2
    <3> QED
      BY <1>1, <2>2, <3>1
  <2> QED
    BY <2>1, <2>2
<1>6. ASSUME NEW i \in 2 .. w
      PROVE  slices[i].chunkStart = slices[i - 1].chunkEnd
  <2>1. i - 1 \in 1 .. w /\ i \in 1 .. w
    BY <1>1
  <2>2. layout \in ByChunk
    BY <1>2
  <2> QED
    BY <1>1, <2>1, <2>2 DEF SpanEnd
<1>7. slices[w].end = n
  BY <1>1
<1> QED
  BY <1>4, <1>5, <1>6, <1>7 DEF TransferPlanOK, slices

\* Every layout of every object, cut into chunks of any size, is accepted by the
\* constructors and by the check of the buffers that are bound to it.
LEMMA LayoutsAccepted ==
  ASSUME NEW layout \in Layouts, NEW n \in Nat \ {0}, NEW c \in Nat \ {0},
         NEW layers \in Nat \ {0}
  PROVE  LayoutAccepted(layout, n, c, layers)
BY ChunkPlansOK, CoveredOnce, TransferPlansOK DEF LayoutAccepted

------------------------------------------------------------------------------
(* What is in the memory objects.                                          *)

\* The chunks of every layer, cut from whole layers that hold what was read.
Cut == [r \in ChunkRegions |->
          Slice(Filled[<<r[1], Whole>>], chunks[r[2]].start, chunks[r[2]].end)]

Contains(l) ==
  /\ step[l] \in {"arrange", "convert"} => content[l] = Filled
  /\ step[l] \in {"record", "ready"} =>
       content[l] = IF pool.layout = "chunk_single_layer" THEN Cut ELSE Filled

ContentInv ==
  /\ HeldInv
  /\ content = [l \in Loads |-> content[l]]
  /\ \A l \in Loads : Contains(l)

LEMMA PoolKeeps ==
  ASSUME UNCHANGED pool
  PROVE  Filled' = Filled /\ Cut' = Cut
BY DEF Filled, Cut, ChunkRegions, chunks, tokens, object, Group

LEMMA StepContent ==
  ASSUME ContentInv, [TransferNext]_transferVars, HeldInv'
  PROVE  ContentInv'
<1>0. /\ step \in [Loads -> Steps] /\ content = [l \in Loads |-> content[l]]
      /\ \A l \in Loads : Contains(l) /\ Holds(l)
      /\ pool.layout \in SingleLayer
  BY DEF ContentInv, HeldInv, PoolTyped
<1>1. CASE UNCHANGED <<pool, step, content>>
  BY <1>1, PoolKeeps DEF ContentInv, Contains
<1>2. ASSUME NEW l \in Loads, LoadStep(l)
      PROVE  ContentInv'
  <2>1. /\ UNCHANGED pool
        /\ \E s : step' = [step EXCEPT ![l] = s]
        /\ content' = content \/ \E f : content' = [content EXCEPT ![l] = f]
    BY <1>2 DEF LoadStep, Validate, Acquire, ReadExtents, ReadLayerObjects, Allocate, Arrange,
                Convert, Record, Unwind, GiveBack, Goto
  <2>2. /\ content' = [k \in Loads |-> content'[k]]
        /\ \A k \in Loads \ {l} : step'[k] = step[k] /\ content'[k] = content[k]
    BY <1>0, <2>1
  <2>3. Contains(l)'
    <3>1. CASE Validate(l) \/ Acquire(l)
      <4>1. step'[l] \in {"acquire", "failed", "read", "raising"}
        BY <1>0, <3>1 DEF Validate, Acquire, Allocate, Goto
      <4> QED
        BY <4>1 DEF Contains
    <3>2. CASE ReadExtents(l)
      <4>1. \/ step'[l] = "arrange" /\ content'[l] = Filled
            \/ step'[l] \in {"raising", "failed"}
        BY <1>0, <3>2 DEF ReadExtents, Goto
      <4> QED
        BY <2>1, <4>1, PoolKeeps DEF Contains
    <3>3. CASE ReadLayerObjects(l)
      <4>1. \/ step'[l] \in {"arrange", "raising"} /\ content'[l] = Filled
            \/ step'[l] = "failed"
        BY <1>0, <3>3 DEF ReadLayerObjects, Goto
      <4> QED
        BY <2>1, <4>1, PoolKeeps DEF Contains
    <3>4. CASE Arrange(l)
      <4>1. step[l] = "arrange" /\ content[l] = Filled /\ content'[l] = Filled
        BY <1>0, <3>4 DEF Arrange, Contains
      <4>2. step'[l] = "record" => pool.layout = "packed_chunks_single_layer"
        BY <1>0, <3>4 DEF Arrange, Allocate, Goto
      <4>3. step'[l] \in {"arrange", "convert", "record", "raising"}
        BY <1>0, <3>4 DEF Arrange, Allocate, Goto
      <4> QED
        BY <2>1, <4>1, <4>2, <4>3, PoolKeeps DEF Contains
    <3>5. CASE Convert(l)
      <4>1. step[l] = "convert" /\ content[l] = Filled /\ pool.layout = "chunk_single_layer"
        BY <1>0, <3>5 DEF Convert, Contains, Holds
      <4>2. \/ step'[l] = "record" /\ content'[l] = Cut
            \/ step'[l] = "raising"
        BY <1>0, <3>5, <4>1 DEF Convert, Goto, Cut
      <4> QED
        BY <2>1, <4>1, <4>2, PoolKeeps DEF Contains
    <3>6. CASE Record(l)
      <4>1. step[l] = "record" /\ step'[l] \in {"ready", "raising"} /\ content'[l] = content[l]
        BY <1>0, <3>6 DEF Record
      <4> QED
        BY <1>0, <2>1, <4>1, PoolKeeps DEF Contains
    <3>7. CASE Unwind(l) \/ GiveBack(l)
      <4>1. step'[l] \in {"failed", "released"}
        BY <1>0, <3>7 DEF Unwind, GiveBack, Goto
      <4> QED
        BY <4>1 DEF Contains
    <3> QED
      BY <1>2, <3>1, <3>2, <3>3, <3>4, <3>5, <3>6, <3>7 DEF LoadStep
  <2>4. ASSUME NEW k \in Loads \ {l} PROVE Contains(k)'
    BY <1>0, <2>1, <2>2, PoolKeeps DEF Contains
  <2> QED
    BY <2>2, <2>3, <2>4 DEF ContentInv
<1> QED
  BY <1>1, <1>2 DEF TransferNext, transferVars, Authenticate, Prepare, StageLayer

\* What is recorded of a load was read, and cut if the layout wants chunks.
LEMMA ContentInvariant == TransferSpec => []ContentInv
<1>1. TransferInit => ContentInv
  <2>1. ASSUME TransferInit PROVE ContentInv
    BY <2>1, InitHeld DEF TransferInit, ContentInv, Contains
  <2> QED
    BY <2>1
<1>2. ContentInv /\ [TransferNext]_transferVars => ContentInv'
  <2>1. ASSUME ContentInv, [TransferNext]_transferVars PROVE ContentInv'
    <3>1. HeldInv'
      BY <2>1, StepHeld DEF ContentInv
    <3> QED
      BY <2>1, <3>1, StepContent
  <2> QED
    BY <2>1
<1> QED
  BY <1>1, <1>2, PTL DEF TransferSpec

\* A slice of a loaded layer is as long as its interval of tokens, and holds these tokens
\* of the layer.
LEMMA SourceIs ==
  ASSUME ContentInv, NEW l \in Loads, step[l] = "ready", NEW layer \in layerIds,
         NEW s \in Range(LayerSlices)
  PROVE  /\ Len(SourceOf(l, layer, s)) = s.end - s.start
         /\ \A i \in 1 .. s.end - s.start :
              SourceOf(l, layer, s)[i] = <<layer, s.start + i - 1>>
<1>0. /\ PoolTyped /\ Contains(l) /\ pool.layout \in SingleLayer
      /\ tokens \in Nat \ {0} /\ pool.chunk \in Nat \ {0}
      /\ DOMAIN chunks = 0 .. ChunksOf - 1 /\ ChunksOf \in 1 .. tokens
  BY ChunksCounted DEF ContentInv, HeldInv, PoolTyped
<1> DEFINE F == [i \in 1 .. tokens |-> <<layer, i - 1>>]
           T == layerIds \X Int
           G == OfLayer(pool.layout, tokens, pool.chunk, 1, 0)
           w == SpanCount(pool.layout, ChunksOf)
<1>1. F \in Seq(T) /\ Len(F) = tokens /\ \A i \in 1 .. tokens : F[i] = <<layer, i - 1>>
  <2>1. F \in [1 .. tokens -> T] /\ tokens \in Nat
    BY <1>0 DEF layerIds
  <2> QED
    BY <2>1, SeqDef
<1>2. LayerSlices = G /\ CutInOrder(G, pool.layout, tokens, pool.chunk)
  <2>1. pool.layout \in Layouts /\ 1 \in Nat \ {0} /\ 0 \in 0 .. 1 - 1
    BY <1>0 DEF SingleLayer, Layouts
  <2> QED
    BY <1>0, <2>1, SlicesAre DEF LayerSlices, chunks
<1>3. PICK k \in 1 .. w : s = G[k]
  BY <1>2 DEF Range, OfLayer, ChunksOf, ChunkCount
<1>4. /\ s.chunkStart = k - 1 /\ s.start = (k - 1) * pool.chunk
      /\ s.end = IF k = w THEN tokens ELSE k * pool.chunk
      /\ s.start \in Nat /\ s.end \in Nat /\ s.start < s.end /\ s.end <= tokens
      /\ s.end = chunks[SpanEnd(pool.layout, ChunksOf, k) - 1].end
      /\ s.start = chunks[k - 1].start
      /\ w \in 1 .. tokens
  <2>1. s = Region(chunks, k - 1, SpanEnd(pool.layout, ChunksOf, k),
                   LayerFrom(pool.layout, 0), LayerTo(pool.layout, 1, 0))
    BY <1>3 DEF OfLayer, ChunksOf, ChunkCount, chunks
  <2>2. /\ s.end = chunks[SpanEnd(pool.layout, ChunksOf, k) - 1].end
        /\ s.start = chunks[k - 1].start
    BY <2>1 DEF Region
  <2> HIDE DEF G
  <2>3. w = SpanCount(pool.layout, CeilDiv(tokens, pool.chunk))
    BY DEF ChunksOf, ChunkCount
  <2> HIDE DEF w
  <2>4. /\ G[k].chunkStart = k - 1 /\ G[k].start = (k - 1) * pool.chunk
        /\ G[k].end = IF k = w THEN tokens ELSE k * pool.chunk
        /\ (k - 1) * pool.chunk \in Nat /\ G[k].start < G[k].end /\ G[k].end <= tokens
        /\ w \in 1 .. tokens
    BY <1>2, <2>3 DEF CutInOrder
  <2>5. G[k].end \in Nat
    BY <1>0, <2>4
  <2> QED
    BY <1>3, <2>2, <2>4, <2>5
<1>5. SourceOf(l, layer, s) = SubSeq(F, s.start + 1, s.end)
  <2>1. Filled[<<layer, Whole>>] = F
    BY DEF Filled, Group
  <2>2. CASE pool.layout = "packed_chunks_single_layer"
    <3>1. s.start = 0 /\ s.end = tokens
      <4>1. w = 1 /\ k = 1
        BY <2>2 DEF SpanCount, ByChunk
      <4> QED
        BY <1>0, <1>4, <4>1
    <3>2. SourceOf(l, layer, s) = F
      BY <1>0, <2>1, <2>2 DEF SourceOf, Contains
    <3> HIDE DEF F, T
    <3>3. SubSeq(F, 1, Len(F)) = F
      BY <1>1, SubSeqFull
    <3>4. s.start + 1 = 1 /\ s.end = Len(F)
      BY <1>1, <3>1
    <3> QED
      BY <3>2, <3>3, <3>4
  <2>3. CASE pool.layout = "chunk_single_layer"
    <3>1. w = ChunksOf /\ SpanEnd(pool.layout, ChunksOf, k) = k
      BY <2>3 DEF SpanCount, SpanEnd, ByChunk
    <3>2. <<layer, k - 1>> \in ChunkRegions
      BY <1>0, <3>1 DEF ChunkRegions
    <3>3. SourceOf(l, layer, s) = Cut[<<layer, k - 1>>]
      BY <1>0, <1>4, <2>3 DEF SourceOf, Contains
    <3>4. Cut[<<layer, k - 1>>] = Slice(F, chunks[k - 1].start, chunks[k - 1].end)
      BY <2>1, <3>2 DEF Cut
    <3> QED
      BY <1>4, <3>1, <3>3, <3>4 DEF Slice
  <2> QED
    BY <1>0, <2>2, <2>3 DEF SingleLayer
<1> HIDE DEF F, G, w
<1>6. /\ Len(SubSeq(F, s.start + 1, s.end)) = s.end - s.start
      /\ \A i \in 1 .. s.end - s.start : SubSeq(F, s.start + 1, s.end)[i] = F[s.start + i]
  <2> DEFINE a == s.start  b == s.end
  <2>1. a \in Nat /\ b \in Int /\ a < b /\ b <= tokens
    BY <1>0, <1>4
  <2> HIDE DEF a, b, T
  <2>2. \A i \in a + 1 .. b : F[i] \in T
    BY <1>0, <1>1, <2>1, ElementOfSeq
  <2>3. /\ Len(SubSeq(F, a + 1, b)) = IF a + 1 <= b THEN b - (a + 1) + 1 ELSE 0
        /\ \A i \in 1 .. b - (a + 1) + 1 : SubSeq(F, a + 1, b)[i] = F[a + 1 + i - 1]
    <3>1. a + 1 \in Int
      BY <2>1
    <3> QED
      BY <2>1, <2>2, <3>1, SubSeqProperties
  <2>4. /\ Len(SubSeq(F, a + 1, b)) = b - a
        /\ \A i \in 1 .. b - a : SubSeq(F, a + 1, b)[i] = F[a + i]
    <3>1. b - (a + 1) + 1 = b - a /\ a + 1 <= b
      BY <2>1
    <3>2. Len(SubSeq(F, a + 1, b)) = b - a
      BY <2>3, <3>1
    <3>3. ASSUME NEW i \in 1 .. b - a
          PROVE  SubSeq(F, a + 1, b)[i] = F[a + i]
      <4>1. a + 1 + i - 1 = a + i /\ i \in 1 .. b - (a + 1) + 1
        BY <2>1, <3>1
      <4>2. SubSeq(F, a + 1, b)[i] = F[a + 1 + i - 1]
        BY <2>3, <4>1
      <4> QED
        BY <4>1, <4>2
    <3> QED
      BY <3>2, <3>3
  <2> QED
    BY <2>4 DEF a, b
<1>7. ASSUME NEW i \in 1 .. s.end - s.start
      PROVE  F[s.start + i] = <<layer, s.start + i - 1>>
  <2> DEFINE a == s.start  b == s.end
  <2>1. a \in Nat /\ b \in Nat /\ b <= tokens /\ tokens \in Nat /\ i \in 1 .. b - a
    BY <1>0, <1>4
  <2>2. F[a + i] = <<layer, a + i - 1>>
    <3> HIDE DEF a, b
    <3>1. a + i \in 1 .. tokens
      BY <2>1
    <3>2. \A j \in 1 .. tokens : F[j] = <<layer, j - 1>>
      BY <1>1
    <3> QED
      BY <2>1, <3>1, <3>2
  <2> QED
    BY <2>2
<1> QED
  BY <1>5, <1>6, <1>7

\* Nothing that is built from an authenticated prefix and a loaded copy is refused by
\* its constructor: the plan (runtime/base.py ReusePlan.validate), the chunks, regions and
\* slices of every layout (layouts/base.py, planner.py), and the size check of each
\* memory object (worker.py _bind_layer). prepare_reuse and the layer stream have no
\* handler for these errors.
THEOREM ConstructorsAccept == TransferSpec => []NothingRefused
<1>1. ASSUME ContentInv, RequestInv
      PROVE  NothingRefused
  <2>0. object \in Objects /\ tokens \in Nat \ {0} /\ pool.chunk \in Nat \ {0} /\ PoolTyped
    BY <1>1, ChunksCounted DEF ContentInv, HeldInv, PoolTyped, object
  <2>1. ASSUME request.phase = "bound", NEW strategy \in Strategies,
               NEW c \in CalibrationTokens(strategy, request.prefix.end - request.prefix.start)
        PROVE  \/ TooShort(request.prefix, c, Minimum)
               \/ PlanOK(Plan(request.prefix, object, strategy, c))
    <3>1. request.prompt \in Prompts /\ Longest(request.prompt, object, request.prefix)
      BY <1>1, <2>0, <2>1, LocatedIsLongest DEF RequestInv
    <3> QED
      BY <2>0, <2>1, <3>1, PlansOK
  <2>2. ASSUME NEW layout \in Layouts
        PROVE  LayoutAccepted(layout, tokens, pool.chunk, Layers)
    BY <2>0, LayoutsAccepted, TransferAssumption
  <2>3. ASSUME request.phase = "planned", step[request.load] = "ready", NEW layer \in layerIds,
               NEW s \in Range(LayerSlices)
        PROVE  Len(SourceOf(request.load, layer, s)) = s.end - s.start
    BY <1>1, <2>3, SourceIs DEF RequestInv
  <2> QED
    BY <2>1, <2>2, <2>3 DEF NothingRefused
<1>2. ContentInv /\ RequestInv => NothingRefused
  BY <1>1
<1> QED
  BY <1>2, ContentInvariant, RequestInvariant, PTL

\* The slices a plan needs cover its positions, and reach no further.
LEMMA NeededCover ==
  ASSUME PoolTyped, NEW plan, NEW n \in 1 .. tokens, plan.segmentStart \in Nat,
         plan.reuseEnd = plan.segmentStart + n
  PROVE  UNION {Covers(plan, s) : s \in Needed(plan)} = plan.segmentStart .. plan.reuseEnd - 1
<1> DEFINE G == OfLayer(pool.layout, tokens, pool.chunk, 1, 0)
           w == SpanCount(pool.layout, ChunksOf)
           first == plan.segmentStart
           c == pool.chunk
<1>0. /\ pool.layout \in SingleLayer /\ tokens \in Nat \ {0} /\ c \in Nat \ {0}
      /\ ChunksOf \in 1 .. tokens /\ tokens <= ChunksOf * c
      /\ n \in Nat /\ first \in Nat /\ plan.reuseEnd = first + n
  <2>1. /\ pool.layout \in SingleLayer /\ tokens \in Nat \ {0} /\ c \in Nat \ {0}
        /\ ChunksOf \in 1 .. tokens
    BY ChunksCounted DEF PoolTyped
  <2>2. tokens <= ChunksOf * c
    BY <2>1, CeilDivBounds DEF ChunksOf, ChunkCount
  <2> QED
    BY <2>1, <2>2
<1>1. LayerSlices = G /\ CutInOrder(G, pool.layout, tokens, c)
  <2>1. pool.layout \in Layouts /\ 1 \in Nat \ {0} /\ 0 \in 0 .. 1 - 1
    BY <1>0 DEF SingleLayer, Layouts
  <2> QED
    BY <1>0, <2>1, SlicesAre DEF LayerSlices, chunks
<1>2. Range(LayerSlices) = {G[i] : i \in 1 .. w}
  BY <1>1 DEF Range, OfLayer, ChunksOf, ChunkCount
<1> HIDE DEF G
<1>3. /\ w \in 1 .. tokens
      /\ \A i \in 1 .. w :
           /\ G[i].start = (i - 1) * c /\ G[i].start \in Nat
           /\ G[i].end = IF i = w THEN tokens ELSE i * c
           /\ G[i].start < G[i].end /\ G[i].end <= tokens /\ G[i].end \in Nat
  <2>1. w = SpanCount(pool.layout, CeilDiv(tokens, c))
    BY DEF ChunksOf, ChunkCount
  <2> HIDE DEF w
  <2>2. \A i \in 1 .. w : i * c \in Nat
    BY <1>0
  <2> QED
    BY <1>0, <1>1, <2>1, <2>2 DEF CutInOrder
<1>4. Needed(plan) = {s \in {G[i] : i \in 1 .. w} : first + s.start < first + n}
  BY <1>0, <1>2 DEF Needed
<1>5. ASSUME NEW i \in 1 .. w
      PROVE  Covers(plan, G[i]) = first + G[i].start .. Least(first + G[i].end, first + n) - 1
  BY <1>0 DEF Covers, Ends
<1>6. ASSUME NEW p \in first .. first + n - 1
      PROVE  \E s \in Needed(plan) : p \in Covers(plan, s)
  <2> DEFINE d == p - first
  <2>1. d \in 0 .. n - 1 /\ p = first + d
    BY <1>0
  <2>2. PICK i \in 1 .. w : G[i].start <= d /\ d < G[i].end
    <3>1. CASE w = 1
      <4>1. G[1].start = 0 /\ G[1].end = tokens
        <5>1. (1 - 1) * c = 0 /\ 1 \in 1 .. w
          BY <1>0, <3>1
        <5> QED
          BY <1>3, <3>1, <5>1
      <4> QED
        BY <1>0, <2>1, <3>1, <4>1
    <3>2. CASE w # 1
      <4>1. w = ChunksOf
        BY <3>2 DEF SpanCount
      <4> DEFINE k == d \div c
      <4>2. k \in Nat /\ k * c <= d /\ d < k * c + c
        BY <1>0, <2>1
      <4> HIDE DEF k, d, w
      <4>3. k < ChunksOf
        <5>1. ASSUME ChunksOf <= k PROVE FALSE
          <6>1. ChunksOf * c <= k * c
            BY <1>0, <4>2, <5>1, ProductMonotone
          <6> QED
            BY <1>0, <2>1, <4>2, <6>1
        <5> QED
          BY <1>0, <4>2, <5>1
      <4>4. k + 1 \in 1 .. w /\ (k + 1 - 1) * c = k * c /\ (k + 1) * c = k * c + c
        BY <1>0, <4>1, <4>2, <4>3
      <4>5. G[k + 1].start = k * c /\ G[k + 1].end \in {tokens, k * c + c}
        <5> DEFINE i == k + 1
        <5>1. i \in 1 .. w /\ (i - 1) * c = k * c /\ i * c = k * c + c
          BY <1>0, <4>2, <4>4
        <5> HIDE DEF i
        <5>2. G[i].start = (i - 1) * c /\ G[i].end = IF i = w THEN tokens ELSE i * c
          BY <1>3, <5>1
        <5> QED
          BY <5>1, <5>2 DEF i
      <4>6. d < tokens
        BY <1>0, <2>1
      <4> QED
        BY <4>2, <4>4, <4>5, <4>6
    <3> QED
      BY <3>1, <3>2
  <2> HIDE DEF d, w
  <2>3. G[i] \in Needed(plan)
    BY <1>0, <1>3, <1>4, <2>1, <2>2
  <2>4. p \in Covers(plan, G[i])
    <3>1. Least(first + G[i].end, first + n) > p
      BY <1>0, <1>3, <2>1, <2>2 DEF Least
    <3>2. Least(first + G[i].end, first + n) \in Int
      BY <1>0, <1>3 DEF Least
    <3>3. G[i].start \in Nat /\ first + G[i].start <= p /\ p \in Int
      BY <1>0, <1>3, <2>1, <2>2
    <3>4. p \in first + G[i].start .. Least(first + G[i].end, first + n) - 1
      BY <1>0, <3>1, <3>2, <3>3
    <3> QED
      BY <1>5, <3>4
  <2> QED
    BY <2>3, <2>4
<1>7. ASSUME NEW s \in Needed(plan), NEW p \in Covers(plan, s)
      PROVE  p \in first .. first + n - 1
  <2>1. PICK i \in 1 .. w : s = G[i]
    BY <1>4
  <2> HIDE DEF w
  <2>2. /\ Least(first + G[i].end, first + n) <= first + n
        /\ Least(first + G[i].end, first + n) \in Int
    BY <1>0, <1>3 DEF Least
  <2>3. p \in first + G[i].start .. Least(first + G[i].end, first + n) - 1 /\ G[i].start \in Nat
    BY <1>3, <1>5, <1>7, <2>1
  <2> QED
    BY <1>0, <2>2, <2>3
<1> HIDE DEF w
<1> QED
  BY <1>0, <1>6, <1>7

\* A slice lies within the tokens of the object.
LEMMA SliceBounds ==
  ASSUME PoolTyped, NEW s \in Range(LayerSlices)
  PROVE  s.start \in Nat /\ s.end \in Nat /\ s.start < s.end /\ s.end <= tokens
<1> DEFINE G == OfLayer(pool.layout, tokens, pool.chunk, 1, 0)
           w == SpanCount(pool.layout, CeilDiv(tokens, pool.chunk))
<1>1. tokens \in Nat \ {0} /\ pool.chunk \in Nat \ {0} /\ pool.layout \in Layouts
  BY ChunksCounted DEF PoolTyped, SingleLayer, Layouts
<1>2. LayerSlices = G /\ CutInOrder(G, pool.layout, tokens, pool.chunk)
  <2>1. 1 \in Nat \ {0} /\ 0 \in 0 .. 1 - 1
    OBVIOUS
  <2> QED
    BY <1>1, <2>1, SlicesAre DEF LayerSlices, chunks
<1>3. PICK i \in 1 .. w : s = G[i]
  BY <1>2 DEF Range, OfLayer
<1> HIDE DEF G
<1>4. /\ w \in 1 .. tokens
      /\ G[i].start = (i - 1) * pool.chunk /\ (i - 1) * pool.chunk \in Nat
      /\ G[i].end = IF i = w THEN tokens ELSE i * pool.chunk
      /\ G[i].start < G[i].end /\ G[i].end <= tokens
  BY <1>2 DEF CutInOrder
<1>5. i * pool.chunk \in Nat
  BY <1>1
<1> HIDE DEF w
<1> QED
  BY <1>1, <1>3, <1>4, <1>5

\* What a plan says of the prompt: its segment begins where the prefix was located, what
\* it reuses ends with the prefix, and so far the prompt is the object's.
LEMMA PlanCovers ==
  ASSUME NEW prompt \in Prompts, object \in Objects, Located(prompt, object) # NoPrefix,
         NEW plan, PlannedFrom(Located(prompt, object), plan)
  PROVE  \E n \in 1 .. tokens :
           /\ plan.segmentStart \in Nat /\ plan.calibrationStart = plan.segmentStart
           /\ plan.reuseEnd = plan.segmentStart + n
           /\ SourcePosition(plan) = object.position
           /\ Agree(prompt, object, plan.segmentStart, n)
<1> DEFINE prefix == Located(prompt, object)
           n == prefix.end - prefix.start
<1>1. Longest(prompt, object, prefix)
  BY LocatedIsLongest
<1> HIDE DEF prefix
<1>2. PICK strategy \in Strategies, c \in 0 .. tokens : plan = Plan(prefix, object, strategy, c)
  BY DEF PlannedFrom, prefix
<1>3. /\ prefix.start \in 0 .. Len(prompt) - Len(object.marker)
      /\ n \in 1 .. tokens /\ prefix.end = prefix.start + n
      /\ Agree(prompt, object, prefix.start, n)
  BY <1>1 DEF Longest, tokens
<1>4. /\ prefix.start \in Nat /\ c \in Int /\ object.position \in Nat
  BY <1>3, ObjectsOK DEF ObjectOK
<1>5. /\ plan.segmentStart = prefix.start /\ plan.calibrationStart = prefix.start
      /\ plan.reuseEnd = prefix.end
      /\ plan.sourceStart = object.position + c /\ plan.reuseStart = prefix.start + c
  BY <1>2 DEF Plan
<1>6. SourcePosition(plan) = object.position
  <2>1. SourcePosition(plan) = plan.sourceStart - (plan.reuseStart - plan.segmentStart)
    BY DEF SourcePosition
  <2> QED
    BY <1>4, <1>5, <2>1
<1> HIDE DEF n
<1>7. plan.reuseEnd = plan.segmentStart + n
  BY <1>3, <1>5
<1>8. Agree(prompt, object, plan.segmentStart, n)
  BY <1>3, <1>5
<1> QED
  BY <1>3, <1>4, <1>5, <1>6, <1>7, <1>8

\* The tokens staged for a layer, and the positions they were cached at.
LEMMA StagedIs ==
  ASSUME ContentInv, NEW l \in Loads, step[l] = "ready", NEW layer \in layerIds,
         NEW plan, NEW n \in 1 .. tokens, plan.segmentStart \in Nat,
         plan.reuseEnd = plan.segmentStart + n, SourcePosition(plan) = object.position
  PROVE  Staged(l, layer, plan)
           = [p \in plan.segmentStart .. plan.reuseEnd - 1 |->
                [token |-> <<layer, p - plan.segmentStart>>,
                 position |-> object.position + (p - plan.segmentStart)]]
<1> DEFINE first == plan.segmentStart
           Slots == first .. plan.reuseEnd - 1
<1>0. /\ PoolTyped /\ object.position \in Nat /\ first \in Nat
      /\ n \in Nat /\ plan.reuseEnd = first + n
  <2>1. PoolTyped /\ object \in Objects
    BY DEF ContentInv, HeldInv, PoolTyped, object
  <2> QED
    BY <2>1, ObjectsOK, ChunksCounted DEF ObjectOK
<1>1. UNION {Covers(plan, s) : s \in Needed(plan)} = Slots
  BY <1>0, NeededCover
<1>2. ASSUME NEW p \in Slots
      PROVE  LET s == CHOOSE s \in Needed(plan) : p \in Covers(plan, s)
                 offset == p - (first + s.start)
             IN [token |-> SourceOf(l, layer, s)[offset + 1],
                 position |-> SourcePosition(plan) + s.start + offset]
                = [token |-> <<layer, p - first>>, position |-> object.position + (p - first)]
  <2> DEFINE s == CHOOSE s \in Needed(plan) : p \in Covers(plan, s)
             offset == p - (first + s.start)
  <2>1. \E r \in Needed(plan) : p \in Covers(plan, r)
    <3> HIDE DEF Slots
    <3> QED
      BY <1>1
  <2>2. s \in Needed(plan) /\ p \in Covers(plan, s)
    BY <2>1
  <2> HIDE DEF s
  <2>3. s \in Range(LayerSlices)
    BY <2>2 DEF Needed
  <2>4. s.start \in Nat /\ s.end \in Nat
    BY <1>0, <2>3, SliceBounds
  <2>5. p \in Int /\ first + s.start <= p /\ p < first + s.end
    BY <1>0, <2>2, <2>4 DEF Covers, Ends, Least
  <2>6. offset + 1 \in 1 .. s.end - s.start
    BY <1>0, <2>4, <2>5
  <2>7. SourceOf(l, layer, s)[offset + 1] = <<layer, s.start + (offset + 1) - 1>>
    BY <2>3, <2>6, SourceIs
  <2>8. /\ s.start + (offset + 1) - 1 = p - first
        /\ SourcePosition(plan) + s.start + offset = object.position + (p - first)
    BY <1>0, <2>4, <2>5
  <2> QED
    BY <2>7, <2>8 DEF s
<1> HIDE DEF Slots
<1>3. Staged(l, layer, plan)
        = [p \in Slots |->
             LET s == CHOOSE s \in Needed(plan) : p \in Covers(plan, s)
                 offset == p - (first + s.start)
             IN [token |-> SourceOf(l, layer, s)[offset + 1],
                 position |-> SourcePosition(plan) + s.start + offset]]
  BY <1>1 DEF Staged
<1> QED
  BY <1>2, <1>3 DEF Slots

\* Staging a layer stages what it should.
LEMMA StageIsRight ==
  ASSUME ContentInv, RequestInv, NEW layer \in layerIds, StageLayer(layer)
  PROVE  StagedIsRight'
<1> DEFINE prompt == request.prompt
           plan == request.plan
           first == plan.segmentStart
<1>1. /\ pool' = pool /\ request.load \in Loads /\ step[request.load] = "ready"
      /\ object \in Objects /\ prompt \in Prompts /\ Located(prompt, object) # NoPrefix
      /\ PlannedFrom(Located(prompt, object), plan)
      /\ tokens \in Nat \ {0} /\ tokens = TokenCount(object)
  <2>1. PoolTyped /\ request.phase = "planned"
    BY DEF ContentInv, HeldInv, StageLayer
  <2> QED
    BY <2>1, ChunksCounted DEF StageLayer, RequestInv, PoolTyped, object, tokens
<1>2. /\ request'.layer = layer /\ request'.prompt = prompt /\ request'.plan = plan
      /\ request'.staged = Staged(request.load, layer, plan)
      /\ object' = object
  BY DEF StageLayer, object
<1>3. PICK n \in 1 .. tokens :
        /\ first \in Nat /\ plan.calibrationStart = first /\ plan.reuseEnd = first + n
        /\ SourcePosition(plan) = object.position /\ Agree(prompt, object, first, n)
  BY <1>1, PlanCovers
<1>4. Staged(request.load, layer, plan)
        = [p \in first .. plan.reuseEnd - 1 |->
             [token |-> <<layer, p - first>>, position |-> object.position + (p - first)]]
  BY <1>1, <1>3, StagedIs
<1>5. ASSUME NEW p \in first .. plan.reuseEnd - 1
      PROVE  Slice(prompt, first, p + 1) = Slice(object.tokens, 0, p - first + 1)
  <2> DEFINE m == p - first + 1
  <2>1. m \in 1 .. n /\ m \in 0 .. TokenCount(object) /\ first + m = p + 1
    BY <1>1, <1>3
  <2> HIDE DEF m
  <2>2. Agree(prompt, object, first, m)
    <3>1. first + m <= Len(prompt)
      <4>1. Len(prompt) \in Nat
        BY <1>1, PromptAssumption, LenProperties
      <4> QED
        BY <1>1, <1>3, <2>1, <4>1 DEF Agree
    <3>2. \A i \in 1 .. m : i \in 1 .. n
      BY <1>1, <2>1
    <3> QED
      BY <1>3, <3>1, <3>2 DEF Agree
  <2>3. Slice(prompt, first, first + m) = Slice(object.tokens, 0, m)
    BY <1>1, <1>3, <2>1, <2>2, AgreeIs
  <2> QED
    BY <2>1, <2>3 DEF m
<1> HIDE DEF prompt, plan, first
<1>6. /\ DOMAIN Staged(request.load, layer, plan) = plan.calibrationStart .. plan.reuseEnd - 1
      /\ \A p \in first .. plan.reuseEnd - 1 :
           Staged(request.load, layer, plan)[p]
             = [token |-> <<layer, p - first>>, position |-> object.position + (p - first)]
  BY <1>3, <1>4
<1> QED
  BY <1>2, <1>3, <1>5, <1>6 DEF StagedIsRight, first

LEMMA StepStaged ==
  ASSUME ContentInv, RequestInv, StagedIsRight, [TransferNext]_transferVars
  PROVE  StagedIsRight'
<1>1. pool' = pool
  BY StepRequest
<1>2. CASE UNCHANGED request
  BY <1>1, <1>2 DEF StagedIsRight, object
<1>3. ASSUME NEW layer \in layerIds, StageLayer(layer) PROVE StagedIsRight'
  BY <1>3, StageIsRight
<1>4. ASSUME request'.phase \in {"bound", "planned"} PROVE StagedIsRight'
  BY <1>4 DEF StagedIsRight
<1>5. ASSUME NEW l \in Loads, LoadStep(l) PROVE UNCHANGED request
  BY <1>5 DEF LoadStep, Validate, Acquire, ReadExtents, ReadLayerObjects, Arrange, Convert,
              Record, Unwind, GiveBack
<1>6. ASSUME NEW l \in Loads, NEW prompt \in Prompts, Authenticate(l, prompt)
      PROVE  request'.phase = "bound"
  BY <1>6 DEF Authenticate
<1>7. ASSUME NEW strategy \in Strategies, NEW c \in 0 .. tokens, Prepare(strategy, c)
      PROVE  request'.phase = "planned"
  BY <1>7 DEF Prepare
<1> QED
  BY <1>2, <1>3, <1>4, <1>5, <1>6, <1>7 DEF TransferNext, transferVars

\* The layer stream stages exactly the positions to calibrate and to reuse, each with the
\* token of the same layer that was cached for it and with the position it was cached at,
\* and up to there the prompt is the object's (worker.py, per_object_copy.py); for every
\* object, chunk size, layout and number of layers.
THEOREM StagesTheRightTokens == TransferSpec => []StagedIsRight
<1>1. TransferInit => StagedIsRight
  BY DEF TransferInit, NoRequest, StagedIsRight
<1>2. /\ ContentInv /\ RequestInv /\ StagedIsRight /\ [TransferNext]_transferVars
      => StagedIsRight'
  BY StepStaged
<1> QED
  BY <1>1, <1>2, ContentInvariant, RequestInvariant, PTL DEF TransferSpec
==============================================================================
