-------------------------- MODULE OfflineBuildProofs --------------------------
(***************************************************************************)
(* Proofs about OfflineBuild for every number of skills, contents, chunk   *)
(* sizes, slots, saves and kills.  The invariant has three parts: the      *)
(* types, what is stored where, and which record is where.                 *)
(***************************************************************************)
EXTENDS OfflineBuild, FiniteSetTheorems, TLAPS

Keys == Names \X Versions

Record ==
  [name : Names, version : Versions, chunk : Chunks, n : Nat \ {0}, id : CacheIds]

PublishedObject ==
  [name : Names, version : Versions, chunk : Chunks, n : Nat, slot : Slots, active : BOOLEAN]

Configuration ==
  [backend : {"raw_block", "local_disk"}, retain : BOOLEAN, name : [CacheIds -> Names]]

Places ==
  {"idle", "initialize", "sidecar", "recover", "quarantine", "unlink first", "start", "serve",
   "record", "finalize", "unlink last"}

RunRecord ==
  [pc : Places, overwrite : BOOLEAN, chunk : Chunks \cup {0}, next : Nat,
   record : Record \cup {NoRecord}]

BuildTypeOK ==
  /\ config \in Configuration
  /\ run \in RunRecord
  /\ run.pc # "idle" => run.chunk \in Chunks
  /\ content \in [Slots -> Keys \cup {NoKey}]
  /\ pending \in [CacheIds -> Record \cup {NoRecord}]
  /\ saved \subseteq Record
  /\ IsFiniteSet(saved)
  /\ catalog \subseteq PublishedObject

------------------------------------------------------------------------------
\* An index says where keys are, and they are there.
Truthful(f) ==
  /\ DOMAIN f \subseteq Keys
  /\ \A k \in DOMAIN f : f[k] \in Slots /\ content[f[k]] = k

\* What was checkpointed stays where it is.
Keeps(f) == \A k \in DOMAIN checkpoint : k \in DOMAIN f /\ f[k] = checkpoint[k]

Stored ==
  /\ Truthful(checkpoint)
  /\ server = "up" => Truthful(index) /\ Keeps(index)
  /\ \A o \in catalog : <<Key(o), o.slot>> \in loadable
  /\ \A at \in loadable : at[1] \in DOMAIN checkpoint /\ checkpoint[at[1]] = at[2]

------------------------------------------------------------------------------
\* n counts the records.
Numbered ==
  /\ \A s \in saved : s.n <= Cardinality(saved)
  /\ \A o \in catalog : o.n <= Cardinality(saved)
  /\ At("record") => run.record \in Record /\ run.record.n = Cardinality(saved) + 1

OneEach == \A o, p \in catalog : Owner(o) = Owner(p) => o = p

\* What waits is not older than what is published.
PendingIsNewer ==
  /\ Pending \subseteq saved
  /\ \A r \in Pending, o \in catalog : Owner(o) = Owner(r) => o.n <= r.n

UnlinksPublished ==
  At("unlink first") \/ At("unlink last") =>
    \A r \in Pending : \E o \in catalog : Owner(o) = Owner(r) /\ o.n >= r.n

\* No record is written over another.
RoomForRecord ==
  /\ At("start") => Pending = {}
  /\ At("serve") => \A i \in CacheIds : i >= run.next => pending[i] = NoRecord
  /\ At("record") => \A i \in CacheIds : i >= run.record.id => pending[i] = NoRecord
  /\ At("record") => run.next = run.record.id + 1

Accounted ==
  /\ Numbered
  /\ OneEach
  /\ PendingIsNewer
  /\ UnlinksPublished
  /\ RoomForRecord
  /\ NothingForgotten

BuildInv == BuildTypeOK /\ Stored /\ Accounted

------------------------------------------------------------------------------
(* Types                                                                   *)

LEMMA RunGoes ==
  ASSUME NEW r \in RunRecord, NEW pc \in Places
  PROVE  [r EXCEPT !.pc = pc] \in RunRecord /\ [r EXCEPT !.pc = pc].chunk = r.chunk
  BY DEF RunRecord

LEMMA RunGoesOn ==
  ASSUME NEW r \in RunRecord, NEW next \in Nat
  PROVE  /\ [r EXCEPT !.next = next] \in RunRecord
         /\ [r EXCEPT !.next = next].chunk = r.chunk
         /\ [r EXCEPT !.next = next].pc = r.pc
  BY DEF RunRecord

LEMMA RunServes ==
  ASSUME NEW r \in RunRecord, NEW pc \in Places, NEW next \in Nat
  PROVE  /\ [r EXCEPT !.pc = pc, !.next = next] \in RunRecord
         /\ [r EXCEPT !.pc = pc, !.next = next].chunk = r.chunk
  BY DEF RunRecord

LEMMA RunRecords ==
  ASSUME NEW r \in RunRecord, NEW pc \in Places, NEW rec \in Record \cup {NoRecord}
  PROVE  /\ [r EXCEPT !.pc = pc, !.record = rec] \in RunRecord
         /\ [r EXCEPT !.pc = pc, !.record = rec].chunk = r.chunk
  BY DEF RunRecord

LEMMA IdleRuns == Idle \in RunRecord
<1>1. 0 \in Nat /\ "idle" \in Places
  BY DEF Places
<1>2. QED  BY <1>1 DEF Idle, RunRecord

LEMMA Amended ==
  ASSUME NEW o \in PublishedObject, NEW c \in Chunks
  PROVE  /\ [o EXCEPT !.chunk = c] \in PublishedObject
         /\ [o EXCEPT !.active = FALSE] \in PublishedObject
         /\ LET p == [o EXCEPT !.chunk = c]
            IN p.name = o.name /\ p.version = o.version /\ p.n = o.n /\ p.slot = o.slot
         /\ LET p == [o EXCEPT !.active = FALSE]
            IN p.name = o.name /\ p.version = o.version /\ p.n = o.n /\ p.slot = o.slot
  BY DEF PublishedObject

LEMMA TypesHoldFirst == BuildInit => BuildTypeOK
<1> SUFFICES ASSUME BuildInit PROVE BuildTypeOK
  OBVIOUS
<1>1. config \in Configuration
  BY DEF BuildInit, Configuration
<1>2. run \in RunRecord /\ run.pc = "idle"
  BY IdleRuns DEF BuildInit, Idle
<1>3. content \in [Slots -> Keys \cup {NoKey}] /\ pending \in [CacheIds -> Record \cup {NoRecord}]
  BY DEF BuildInit
<1>4. saved \subseteq Record /\ IsFiniteSet(saved) /\ catalog \subseteq PublishedObject
  BY FS_EmptySet DEF BuildInit
<1>5. QED  BY <1>1, <1>2, <1>3, <1>4 DEF BuildTypeOK

\* Where only pc of the run changes, and nothing else the types are about.
LEMMA GotoTyped ==
  ASSUME BuildTypeOK, NEW pc \in Places, Goto(pc), run.pc # "idle",
         UNCHANGED <<config, content, pending, saved, catalog>>
  PROVE  BuildTypeOK'
<1>1. run' \in RunRecord /\ run'.chunk \in Chunks
  BY RunGoes DEF BuildTypeOK, Goto
<1>2. QED  BY <1>1 DEF BuildTypeOK

LEMMA ExitTyped ==
  ASSUME BuildTypeOK, Exit, UNCHANGED <<config, content, pending, saved, catalog>>
  PROVE  BuildTypeOK'
<1>1. run' \in RunRecord /\ run'.pc = "idle"
  BY IdleRuns DEF Exit, Idle
<1>2. QED  BY <1>1 DEF BuildTypeOK

\* The actions that go on, or end the run, and change nothing else of the types.
Moves ==
  \/ CreateContainer \/ PublishSidecar \/ InitializeExisting \/ NothingPending \/ Unlinked
  \/ Refuse \/ StartQuarantine \/ Quarantined \/ StartFails \/ RunDies

LEMMA MovesTyped ==
  ASSUME BuildTypeOK, Moves
  PROVE  BuildTypeOK'
<1>1. UNCHANGED <<config, content, pending, saved, catalog>>
  BY DEF Moves, CreateContainer, PublishSidecar, InitializeExisting, NothingPending, Unlinked,
         Refuse, StartQuarantine, Quarantined, StartFails, RunDies, storeVars, recordVars,
         catalogVars
<1>2. Exit \/ (run.pc # "idle" /\ \E pc \in {"sidecar", "recover", "start", "quarantine"} : Goto(pc))
  BY DEF Moves, CreateContainer, PublishSidecar, InitializeExisting, NothingPending, Unlinked,
         Refuse, StartQuarantine, Quarantined, StartFails, RunDies, At, AfterFinalize, Finalizing,
         Quarantines
<1>3. {"sidecar", "recover", "start", "quarantine"} \subseteq Places
  BY DEF Places
<1>4. QED  BY <1>1, <1>2, <1>3, ExitTyped, GotoTyped

LEMMA StartRunTyped ==
  ASSUME BuildTypeOK, NEW overwrite \in BOOLEAN, NEW chunk \in Chunks, StartRun(overwrite, chunk)
  PROVE  BuildTypeOK'
<1>0. "initialize" \in Places
  BY DEF Places
<1>1. [Idle EXCEPT !.pc = "initialize", !.overwrite = overwrite, !.chunk = chunk] \in RunRecord
  BY <1>0, IdleRuns DEF RunRecord
<1>2. [Idle EXCEPT !.pc = "initialize", !.overwrite = overwrite, !.chunk = chunk].chunk = chunk
  BY IdleRuns DEF RunRecord
<1>3. QED  BY <1>1, <1>2 DEF BuildTypeOK, StartRun, storeVars, recordVars, catalogVars

LEMMA PendingTyped ==
  ASSUME BuildTypeOK, NEW r \in Pending
  PROVE  r \in Record
  BY DEF BuildTypeOK, Pending

LEMMA ObjectTyped ==
  ASSUME BuildTypeOK, Stored, ~Missing, NEW r \in Pending
  PROVE  /\ Object(r) \in PublishedObject
         /\ Object(r).name = r.name /\ Object(r).version = r.version /\ Object(r).n = r.n
         /\ Object(r).slot = checkpoint[Key(r)] /\ Key(r) \in DOMAIN checkpoint
<1>1. r \in Record
  BY PendingTyped
<1>2. Key(r) \in DOMAIN checkpoint
  BY DEF Missing
<1>3. checkpoint[Key(r)] \in Slots
  BY <1>2 DEF Stored, Truthful
<1>4. QED  BY <1>1, <1>2, <1>3 DEF Object, Record, PublishedObject

LEMMA SnapshotTyped ==
  ASSUME BuildTypeOK, Stored, ~Missing
  PROVE  Snapshot \subseteq PublishedObject
  BY ObjectTyped DEF Snapshot, Retained, BuildTypeOK

LEMMA PublishTyped ==
  ASSUME BuildTypeOK, Stored, PublishObjects
  PROVE  BuildTypeOK'
<1>1. catalog' \subseteq PublishedObject
  BY SnapshotTyped DEF PublishObjects, Refused
<1>2. run' \in RunRecord /\ run'.chunk = run.chunk /\ run.pc # "idle"
  <2>1. {"unlink first", "unlink last"} \subseteq Places
    BY DEF Places
  <2>2. Goto("unlink first") \/ Goto("unlink last")
    BY DEF PublishObjects
  <2>3. run.pc # "idle" /\ run \in RunRecord
    BY DEF PublishObjects, Finalizing, At, BuildTypeOK
  <2>4. QED  BY <2>1, <2>2, <2>3, RunGoes DEF Goto
<1>3. QED  BY <1>1, <1>2 DEF PublishObjects, BuildTypeOK, storeVars, recordVars

LEMMA PendingRemovedTyped ==
  ASSUME BuildTypeOK, NEW i \in CacheIds, UnlinkPending(i) \/ QuarantinePending(i)
  PROVE  BuildTypeOK'
<1>1. [pending EXCEPT ![i] = NoRecord] \in [CacheIds -> Record \cup {NoRecord}]
  BY DEF BuildTypeOK
<1>2. QED
  BY <1>1 DEF UnlinkPending, QuarantinePending, BuildTypeOK, storeVars, catalogVars

LEMMA StartServerTyped ==
  ASSUME BuildTypeOK, StartServer
  PROVE  BuildTypeOK'
<1>1. run' \in RunRecord /\ run'.chunk = run.chunk /\ run.pc # "idle"
  <2>1. 1 \in Nat /\ "serve" \in Places
    BY DEF Places
  <2>2. run \in RunRecord
    BY DEF BuildTypeOK
  <2>3. QED  BY <2>1, <2>2, RunServes DEF StartServer, At
<1>2. QED  BY <1>1 DEF StartServer, BuildTypeOK, recordVars, catalogVars

LEMMA SkipTyped ==
  ASSUME BuildTypeOK, NEW i \in CacheIds, NEW version \in Versions, SkipOrReindex(i, version)
  PROVE  BuildTypeOK'
<1>1. run' \in RunRecord /\ run'.chunk = run.chunk /\ run'.pc = run.pc /\ run.pc # "idle"
  <2>1. i + 1 \in Nat
    BY BuildAssumption DEF CacheIds
  <2>2. run \in RunRecord
    BY DEF BuildTypeOK
  <2>3. QED  BY <2>1, <2>2, RunGoesOn DEF SkipOrReindex, At
<1>2. catalog' \subseteq PublishedObject
  BY <1>1, Amended DEF SkipOrReindex, At, BuildTypeOK
<1>3. QED  BY <1>1, <1>2 DEF SkipOrReindex, BuildTypeOK, storeVars, recordVars

\* The record Prefill makes.
Made(i, version) ==
  [name |-> config.name[i], version |-> version, chunk |-> run.chunk,
   n |-> Cardinality(saved) + 1, id |-> i]

LEMMA MadeTyped ==
  ASSUME BuildTypeOK, run.pc # "idle", NEW i \in CacheIds, NEW version \in Versions
  PROVE  Made(i, version) \in Record /\ Key(Made(i, version)) \in Keys
<1>1. Cardinality(saved) + 1 \in Nat \ {0}
  BY FS_CardinalityType DEF BuildTypeOK
<1>2. config.name[i] \in Names
  BY DEF BuildTypeOK, Configuration
<1>3. run.chunk \in Chunks
  BY DEF BuildTypeOK
<1>4. Made(i, version) \in Record
  BY <1>1, <1>2, <1>3 DEF Made, Record
<1>5. QED  BY <1>2, <1>4 DEF Made, Key, Keys

LEMMA PrefillTyped ==
  ASSUME BuildTypeOK, NEW i \in CacheIds, NEW version \in Versions, Prefill(i, version)
  PROVE  BuildTypeOK'
<1> DEFINE r == Made(i, version)
<1>1. r \in Record /\ Key(r) \in Keys
  BY MadeTyped DEF Prefill, At
<1>2. run' \in RunRecord /\ run'.chunk = run.chunk /\ run.pc # "idle"
  <2>1. i + 1 \in Nat /\ "record" \in Places
    BY BuildAssumption DEF CacheIds, Places
  <2>2. run \in RunRecord
    BY DEF BuildTypeOK
  <2>3. run' = [run EXCEPT !.pc = "record", !.next = i + 1, !.record = r] /\ run.pc # "idle"
    BY DEF Prefill, Made, At
  <2>4. QED  BY <1>1, <2>1, <2>2, <2>3 DEF RunRecord
<1>3. content' \in [Slots -> Keys \cup {NoKey}]
  <2>1. content' = content \/ \E s \in Slots : content' = [content EXCEPT ![s] = Key(r)]
    BY DEF Prefill, Made, FreeSlots
  <2>2. QED  BY <1>1, <2>1 DEF BuildTypeOK
<1>4. QED  BY <1>2, <1>3 DEF Prefill, BuildTypeOK, recordVars, catalogVars

LEMMA WriteRecordTyped ==
  ASSUME BuildTypeOK, Numbered, WriteRecord
  PROVE  BuildTypeOK'
<1>1. run.record \in Record /\ run.pc # "idle"
  BY DEF Numbered, WriteRecord, At
<1>2. run' \in RunRecord /\ run'.chunk = run.chunk
  <2>1. "serve" \in Places /\ NoRecord \in Record \cup {NoRecord} /\ run \in RunRecord
    BY DEF Places, BuildTypeOK
  <2>2. QED  BY <2>1, RunRecords DEF WriteRecord
<1>3. pending' \in [CacheIds -> Record \cup {NoRecord}]
  BY <1>1 DEF WriteRecord, BuildTypeOK
<1>4. saved' \subseteq Record /\ IsFiniteSet(saved')
  BY <1>1, FS_AddElement DEF WriteRecord, BuildTypeOK
<1>5. QED  BY <1>1, <1>2, <1>3, <1>4 DEF WriteRecord, BuildTypeOK, storeVars, catalogVars

LEMMA StopServerTyped ==
  ASSUME BuildTypeOK, StopServer
  PROVE  BuildTypeOK'
<1>1. run' \in RunRecord /\ run'.chunk = run.chunk /\ run.pc # "idle"
  <2>1. "finalize" \in Places /\ 0 \in Nat /\ NoRecord \in Record \cup {NoRecord}
    BY DEF Places
  <2>2. run \in RunRecord
    BY DEF BuildTypeOK
  <2>3. run' = [run EXCEPT !.pc = "finalize", !.next = 0, !.record = NoRecord] /\ run.pc # "idle"
    BY DEF StopServer, At
  <2>4. QED  BY <2>1, <2>2, <2>3 DEF RunRecord
<1>2. QED  BY <1>1 DEF StopServer, BuildTypeOK, recordVars, catalogVars

LEMMA InvalidateTyped ==
  ASSUME BuildTypeOK, NEW o \in catalog, Invalidate(o)
  PROVE  BuildTypeOK'
<1>1. [o EXCEPT !.active = FALSE] \in PublishedObject
  BY DEF BuildTypeOK, PublishedObject
<1>2. catalog' \subseteq PublishedObject
  BY <1>1 DEF Invalidate, BuildTypeOK
<1>3. QED  BY <1>2 DEF Invalidate, BuildTypeOK, storeVars, recordVars

LEMMA TypesKept ==
  ASSUME BuildInv, [BuildNext]_buildVars
  PROVE  BuildTypeOK'
<1> USE DEF BuildInv, Accounted
<1>1. CASE Moves
  BY <1>1, MovesTyped
<1>2. CASE \E overwrite \in BOOLEAN, chunk \in Chunks : StartRun(overwrite, chunk)
  BY <1>2, StartRunTyped
<1>3. CASE PublishObjects \/ StartServer \/ WriteRecord \/ StopServer
  BY <1>3, PublishTyped, StartServerTyped, WriteRecordTyped, StopServerTyped
<1>4. CASE \E i \in CacheIds : UnlinkPending(i) \/ QuarantinePending(i)
  BY <1>4, PendingRemovedTyped
<1>5. CASE \E i \in CacheIds, version \in Versions :
             SkipOrReindex(i, version) \/ Prefill(i, version)
  BY <1>5, SkipTyped, PrefillTyped
<1>6. CASE \E o \in catalog : Invalidate(o)
  BY <1>6, InvalidateTyped
<1>7. CASE ServerDies \/ UNCHANGED buildVars
  BY <1>7 DEF ServerDies, BuildTypeOK, buildVars, storeVars, recordVars, catalogVars
<1>8. QED  BY <1>1, <1>2, <1>3, <1>4, <1>5, <1>6, <1>7 DEF BuildNext, Moves

------------------------------------------------------------------------------
(* What is stored where                                                    *)

LEMMA StoredFirst == BuildInit => Stored
  BY DEF BuildInit, Stored, Truthful, Empty

LEMMA SameStored ==
  ASSUME Stored, UNCHANGED <<server, index, checkpoint, content, catalog, loadable>>
  PROVE  Stored'
  BY DEF Stored, Truthful, Keeps, Key

LEMMA PublishStores ==
  ASSUME BuildTypeOK, Stored, PublishObjects
  PROVE  Stored'
<1>1. \A o \in Retained : <<Key(o), o.slot>> \in loadable
  BY DEF Retained, Stored
<1>2. \A r \in Pending : /\ Key(Object(r)) \in DOMAIN checkpoint
                         /\ checkpoint[Key(Object(r))] = Object(r).slot
  BY ObjectTyped DEF PublishObjects, Refused, Key
<1>3. catalog' = Snapshot /\ loadable' = loadable \cup {<<Key(o), o.slot>> : o \in Snapshot}
  BY DEF PublishObjects, Key
<1>4. \A o \in catalog' : <<Key(o), o.slot>> \in loadable'
  BY <1>3
<1>5. \A at \in loadable' : at[1] \in DOMAIN checkpoint /\ checkpoint[at[1]] = at[2]
  <2> SUFFICES ASSUME NEW o \in Snapshot
               PROVE  Key(o) \in DOMAIN checkpoint /\ checkpoint[Key(o)] = o.slot
    BY <1>3 DEF Stored
  <2>1. CASE o \in Retained
    BY <2>1, <1>1 DEF Stored
  <2>2. CASE o \in {Object(r) : r \in Pending}
    BY <2>2, <1>2
  <2>3. QED  BY <2>1, <2>2 DEF Snapshot
<1>6. QED  BY <1>4, <1>5 DEF PublishObjects, Stored, Truthful, Keeps, Key, storeVars

LEMMA StartServerStores ==
  ASSUME Stored, StartServer
  PROVE  Stored'
  BY DEF StartServer, Stored, Truthful, Keeps, Key, catalogVars

\* One object is put in the place of another that is stored in the same slot.
LEMMA AmendStores ==
  ASSUME Stored, NEW o \in catalog, NEW p, p.name = o.name, p.version = o.version, p.slot = o.slot,
         catalog' = (catalog \ {o}) \cup {p},
         UNCHANGED <<server, index, checkpoint, content, loadable>>
  PROVE  Stored'
<1>1. \A q \in catalog' : <<Key(q), q.slot>> \in loadable
  BY DEF Stored, Key
<1>2. QED  BY <1>1 DEF Stored, Truthful, Keeps, Key

LEMMA SkipStores ==
  ASSUME BuildTypeOK, Stored, NEW i \in CacheIds, NEW version \in Versions,
         SkipOrReindex(i, version)
  PROVE  Stored'
<1>1. PICK o \in catalog : catalog' = (catalog \ {o}) \cup {[o EXCEPT !.chunk = run.chunk]}
  BY DEF SkipOrReindex
<1>2. o \in PublishedObject /\ run.chunk \in Chunks
  BY DEF BuildTypeOK, SkipOrReindex, At
<1>3. UNCHANGED <<server, index, checkpoint, content, loadable>>
  BY DEF SkipOrReindex, storeVars
<1>4. QED  BY <1>1, <1>2, <1>3, Amended, AmendStores

LEMMA InvalidateStores ==
  ASSUME BuildTypeOK, Stored, NEW o \in catalog, Invalidate(o)
  PROVE  Stored'
<1>1. LET p == [o EXCEPT !.active = FALSE]
      IN p.name = o.name /\ p.version = o.version /\ p.slot = o.slot
  BY DEF BuildTypeOK, PublishedObject
<1>2. catalog' = (catalog \ {o}) \cup {[o EXCEPT !.active = FALSE]}
  BY DEF Invalidate
<1>3. UNCHANGED <<server, index, checkpoint, content, loadable>>
  BY DEF Invalidate, storeVars
<1>4. QED  BY <1>1, <1>2, <1>3, AmendStores

\* A key that is saved gets a slot no other key of the index has.
LEMMA PrefillStores ==
  ASSUME BuildTypeOK, Stored, NEW i \in CacheIds, NEW version \in Versions, Prefill(i, version)
  PROVE  Stored'
<1> DEFINE key == Key(Made(i, version))
<1>1. key \in Keys
  BY MadeTyped DEF Prefill, At
<1>2. Truthful(index) /\ Keeps(index) /\ server = "up"
  BY DEF Prefill, Stored
<1>3. UNCHANGED <<server, checkpoint, catalog, loadable>>
  BY DEF Prefill, catalogVars
<1>4. CASE UNCHANGED <<index, content>>
  BY <1>3, <1>4, SameStored
<1>5. CASE ~UNCHANGED <<index, content>>
  <2>1. PICK s \in FreeSlots(key) :
          /\ index' = [k \in DOMAIN index \cup {key} |-> IF k = key THEN s ELSE index[k]]
          /\ content' = [content EXCEPT ![s] = key]
          /\ key \notin DOMAIN index
    BY <1>5 DEF Prefill, Made
  <2>2. s \in Slots
    BY DEF FreeSlots
  <2>3. \A k \in DOMAIN index : index[k] # s
    <3> SUFFICES ASSUME NEW k \in DOMAIN index, index[k] = s PROVE FALSE
      OBVIOUS
    <3>1. content[s] = k /\ k \in Keys /\ k # key
      BY <1>2, <2>1 DEF Truthful
    <3>2. s \in {index[j] : j \in DOMAIN index}
      OBVIOUS
    <3>3. content[s] = key \/ content[s] = NoKey
      BY <2>1, <3>2 DEF FreeSlots
    <3>4. NoKey \notin Keys
      BY DEF NoKey, Keys
    <3>5. QED  BY <3>1, <3>3, <3>4
  <2>4. \A t \in Slots : content'[t] = IF t = s THEN key ELSE content[t]
    BY <2>1, <2>2 DEF BuildTypeOK
  <2>5. Truthful(index)'
    BY <1>1, <1>2, <2>1, <2>2, <2>3, <2>4 DEF Truthful
  <2>6. Keeps(index)'
    BY <1>2, <1>3, <2>1 DEF Keeps
  <2>7. Truthful(checkpoint)'
    BY <1>2, <1>3, <2>2, <2>3, <2>4 DEF Stored, Truthful, Keeps
  <2>8. QED  BY <1>3, <2>5, <2>6, <2>7 DEF Stored, Key
<1>6. QED  BY <1>4, <1>5

\* Whatever remains of an index, what was checkpointed remains.
LEMMA RemainsStored ==
  ASSUME Stored, server = "up", NEW stopped \in BOOLEAN, NEW c \in MayRemain(stopped)
  PROVE  Truthful(c) /\ Keeps(c)
<1>1. Truthful(index) /\ Keeps(index) /\ Truthful(checkpoint)
  BY DEF Stored
<1>2. CASE c = checkpoint \/ c = index
  BY <1>1, <1>2 DEF Keeps
<1>3. CASE \E K \in SUBSET DOMAIN index : c = [k \in DOMAIN checkpoint \cup K |-> index[k]]
  BY <1>1, <1>3 DEF Truthful, Keeps
<1>4. QED  BY <1>2, <1>3 DEF MayRemain

LEMMA ServerEndStores ==
  ASSUME Stored, server' = "down", UNCHANGED <<content, catalog, loadable>>,
         Truthful(checkpoint'), Keeps(checkpoint')
  PROVE  Stored'
<1>1. Truthful(checkpoint)'
  BY DEF Truthful
<1>2. QED  BY <1>1 DEF Stored, Keeps, Key

LEMMA StopStores ==
  ASSUME Stored, StopServer \/ ServerDies \/ RunDies
  PROVE  Stored'
<1>1. server' = "down" /\ UNCHANGED <<content, catalog, loadable>>
  BY DEF StopServer, ServerDies, RunDies, catalogVars
<1>2. \/ checkpoint' = checkpoint
      \/ server = "up" /\ checkpoint' \in MayRemain(TRUE) \cup MayRemain(FALSE)
  BY DEF StopServer, ServerDies, RunDies
<1>3. Truthful(checkpoint') /\ Keeps(checkpoint')
  BY <1>2, RemainsStored DEF Stored, Keeps
<1>4. QED  BY <1>1, <1>3, ServerEndStores

LEMMA StoreKept ==
  ASSUME BuildInv, [BuildNext]_buildVars
  PROVE  Stored'
<1>1. BuildTypeOK /\ Stored
  BY DEF BuildInv
<1>2. CASE Moves /\ ~RunDies
  <2>1. UNCHANGED <<server, index, checkpoint, content, catalog, loadable>>
    BY <1>2 DEF Moves, CreateContainer, PublishSidecar, InitializeExisting, NothingPending,
       Unlinked, Refuse, StartQuarantine, Quarantined, StartFails, storeVars, catalogVars
  <2>2. QED  BY <1>1, <2>1, SameStored
<1>3. CASE \/ \E overwrite \in BOOLEAN, chunk \in Chunks : StartRun(overwrite, chunk)
           \/ \E i \in CacheIds : UnlinkPending(i) \/ QuarantinePending(i)
           \/ WriteRecord \/ UNCHANGED buildVars
  <2>1. UNCHANGED <<server, index, checkpoint, content, catalog, loadable>>
    BY <1>3 DEF StartRun, UnlinkPending, QuarantinePending, WriteRecord, buildVars, storeVars,
       catalogVars
  <2>2. QED  BY <1>1, <2>1, SameStored
<1>4. CASE PublishObjects \/ StartServer \/ StopServer \/ ServerDies \/ RunDies
  BY <1>1, <1>4, PublishStores, StartServerStores, StopStores
<1>5. CASE \E i \in CacheIds, version \in Versions :
             SkipOrReindex(i, version) \/ Prefill(i, version)
  BY <1>1, <1>5, SkipStores, PrefillStores
<1>6. CASE \E o \in catalog : Invalidate(o)
  BY <1>1, <1>6, InvalidateStores
<1>7. QED  BY <1>2, <1>3, <1>4, <1>5, <1>6 DEF BuildNext, Moves

------------------------------------------------------------------------------
(* Which record is where                                                   *)

LEMMA AccountedFirst == BuildInit => Accounted
<1> SUFFICES ASSUME BuildInit PROVE Accounted
  OBVIOUS
<1>1. Pending = {}
  BY DEF BuildInit, Pending
<1>2. saved = {} /\ catalog = {} /\ run.pc = "idle"
  BY DEF BuildInit, Idle
<1>3. QED
  BY <1>1, <1>2 DEF Accounted, Numbered, OneEach, PendingIsNewer, UnlinksPublished, RoomForRecord,
     NothingForgotten, At

\* The run goes where nothing is asked of the records, or only that none waits.
LEMMA QuietAccounts ==
  ASSUME Accounted, UNCHANGED <<config, pending, saved, quarantined, catalog>>,
         run'.pc \in {"idle", "initialize", "sidecar", "recover", "quarantine", "start", "finalize"},
         run'.pc = "start" => Pending = {}
  PROVE  Accounted'
<1>1. Pending' = Pending
  BY DEF Pending
<1>2. (\A s \in saved : s.n <= Cardinality(saved))' /\ (\A o \in catalog : o.n <= Cardinality(saved))'
  BY DEF Accounted, Numbered
<1>3. Numbered' /\ UnlinksPublished' /\ RoomForRecord'
  BY <1>1, <1>2 DEF Numbered, UnlinksPublished, RoomForRecord, At
<1>4. OneEach' /\ PendingIsNewer' /\ NothingForgotten'
  BY <1>1 DEF Accounted, OneEach, PendingIsNewer, NothingForgotten, Owner
<1>5. QED  BY <1>3, <1>4 DEF Accounted

LEMMA MovesAccount ==
  ASSUME BuildInv, Moves
  PROVE  Accounted'
<1>1. UNCHANGED <<config, pending, saved, quarantined, catalog>>
  BY DEF Moves, CreateContainer, PublishSidecar, InitializeExisting, NothingPending, Unlinked,
         Refuse, StartQuarantine, Quarantined, StartFails, RunDies, storeVars, recordVars,
         catalogVars
<1>2. \/ Exit
      \/ \E pc \in {"sidecar", "recover", "quarantine"} : Goto(pc)
      \/ Goto("start") /\ Pending = {}
  BY DEF Moves, CreateContainer, PublishSidecar, InitializeExisting, NothingPending, Unlinked,
         Refuse, StartQuarantine, Quarantined, StartFails, RunDies, AfterFinalize
<1>3. run \in RunRecord
  BY DEF BuildInv, BuildTypeOK
<1>4. \/ run'.pc \in {"idle", "sidecar", "recover", "quarantine"}
      \/ run'.pc = "start" /\ Pending = {}
  BY <1>2, <1>3 DEF Exit, Idle, Goto, RunRecord
<1>5. QED  BY <1>1, <1>4, QuietAccounts DEF BuildInv

LEMMA StopsAccount ==
  ASSUME BuildInv,
         StopServer \/ \E overwrite \in BOOLEAN, chunk \in Chunks : StartRun(overwrite, chunk)
  PROVE  Accounted'
<1>1. UNCHANGED <<config, pending, saved, quarantined, catalog>>
  BY DEF StopServer, StartRun, storeVars, recordVars, catalogVars
<1>2. run \in RunRecord
  BY DEF BuildInv, BuildTypeOK
<1>3. CASE StopServer
  <2>1. run'.pc = "finalize"
    BY <1>2, <1>3 DEF StopServer, RunRecord
  <2>2. QED  BY <1>1, <2>1, QuietAccounts DEF BuildInv
<1>4. CASE \E overwrite \in BOOLEAN, chunk \in Chunks : StartRun(overwrite, chunk)
  <2>1. run'.pc = "initialize"
    BY <1>4, IdleRuns DEF StartRun, RunRecord
  <2>2. QED  BY <1>1, <2>1, QuietAccounts DEF BuildInv
<1>5. QED  BY <1>3, <1>4

LEMMA SameAccounts ==
  ASSUME Accounted, UNCHANGED <<config, run, pending, saved, quarantined, catalog>>
  PROVE  Accounted'
<1>1. Pending' = Pending
  BY DEF Pending
<1>2. Numbered' /\ UnlinksPublished' /\ RoomForRecord'
  BY <1>1 DEF Accounted, Numbered, UnlinksPublished, RoomForRecord, At, Owner
<1>3. OneEach' /\ PendingIsNewer' /\ NothingForgotten'
  BY <1>1 DEF Accounted, OneEach, PendingIsNewer, NothingForgotten, Owner
<1>4. QED  BY <1>2, <1>3 DEF Accounted

LEMMA StartServerAccounts ==
  ASSUME BuildInv, StartServer
  PROVE  Accounted'
<1>1. UNCHANGED <<config, pending, saved, quarantined, catalog>>
  BY DEF StartServer, recordVars, catalogVars
<1>2. run'.pc = "serve"
  BY DEF StartServer, BuildInv, BuildTypeOK, RunRecord
<1>3. Pending = {} /\ Pending' = Pending
  BY <1>1 DEF StartServer, BuildInv, Accounted, RoomForRecord, Pending
<1>4. \A i \in CacheIds : pending'[i] = NoRecord
  BY <1>1, <1>3 DEF Pending
<1>5. RoomForRecord'
  BY <1>2, <1>3, <1>4 DEF RoomForRecord, At
<1>6. (\A s \in saved : s.n <= Cardinality(saved))' /\ (\A o \in catalog : o.n <= Cardinality(saved))'
  BY <1>1 DEF BuildInv, Accounted, Numbered
<1>7. Numbered' /\ UnlinksPublished'
  BY <1>2, <1>6 DEF Numbered, UnlinksPublished, At
<1>8. OneEach' /\ PendingIsNewer' /\ NothingForgotten'
  BY <1>1, <1>3 DEF BuildInv, Accounted, OneEach, PendingIsNewer, NothingForgotten, Owner
<1>9. QED  BY <1>5, <1>7, <1>8 DEF Accounted

\* The object of a record belongs to the owner of the record.
LEMMA ObjectOwner ==
  ASSUME BuildTypeOK, Stored, ~Missing, NEW r \in Pending
  PROVE  Owner(Object(r)) = Owner(r) /\ Object(r).n = r.n
  BY ObjectTyped DEF Owner

LEMMA NumbersTyped ==
  ASSUME BuildTypeOK
  PROVE  /\ Cardinality(saved) \in Nat
         /\ \A s \in saved : s.n \in Nat
         /\ \A r \in Pending : r.n \in Nat
         /\ \A o \in catalog : o.n \in Nat
<1>1. Cardinality(saved) \in Nat
  BY FS_CardinalityType DEF BuildTypeOK
<1>2. QED  BY <1>1, PendingTyped DEF BuildTypeOK, Record, PublishedObject

LEMMA PublishAccounts ==
  ASSUME BuildInv, PublishObjects
  PROVE  Accounted'
<1> USE DEF BuildInv
<1>1. /\ BuildTypeOK /\ Stored /\ ~Missing
      /\ \A r, s \in Pending : Owner(r) = Owner(s) => r = s
      /\ catalog' = Snapshot /\ UNCHANGED <<config, pending, saved, quarantined>>
  BY DEF PublishObjects, Refused, recordVars
<1>2. run'.pc \in {"unlink first", "unlink last"}
  BY DEF PublishObjects, Goto, BuildTypeOK, RunRecord
<1>3. Pending' = Pending /\ \A r : Owner(r)' = Owner(r)
  BY <1>1 DEF Pending, Owner
<1>4. \A r \in Pending : Owner(Object(r)) = Owner(r) /\ Object(r).n = r.n
  BY <1>1, ObjectOwner
<1>5. /\ \A o \in Snapshot : o \in Retained \/ \E r \in Pending : o = Object(r)
      /\ \A o \in Retained : o \in catalog /\ \A r \in Pending : Owner(o) # Owner(r)
      /\ \A o \in catalog : o \in Retained \/ \E r \in Pending : Owner(o) = Owner(r)
      /\ \A r \in Pending : Object(r) \in Snapshot
      /\ Retained \subseteq Snapshot
  BY DEF Snapshot, Retained, Owners
<1>6. Numbered'
  <2>1. (\A s \in saved : s.n <= Cardinality(saved))'
    BY <1>1 DEF Accounted, Numbered
  <2>2. (\A o \in catalog : o.n <= Cardinality(saved))'
    BY <1>1, <1>4, <1>5 DEF Accounted, Numbered, PendingIsNewer
  <2>3. QED  BY <1>2, <2>1, <2>2 DEF Numbered, At
<1>7. OneEach'
  <2> SUFFICES ASSUME NEW o \in Snapshot, NEW p \in Snapshot, Owner(o) = Owner(p) PROVE o = p
    BY <1>1, <1>3 DEF OneEach
  <2>1. CASE o \in Retained /\ p \in Retained
    BY <2>1, <1>5 DEF Accounted, OneEach
  <2>2. CASE o \in Retained /\ p \notin Retained
    BY <2>2, <1>4, <1>5
  <2>3. CASE o \notin Retained /\ p \in Retained
    BY <2>3, <1>4, <1>5
  <2>4. CASE o \notin Retained /\ p \notin Retained
    BY <2>4, <1>1, <1>4, <1>5
  <2>5. QED  BY <2>1, <2>2, <2>3, <2>4
<1>8. PendingIsNewer'
  <2> SUFFICES ASSUME NEW r \in Pending, NEW o \in Snapshot, Owner(o) = Owner(r) PROVE o.n <= r.n
    BY <1>1, <1>3 DEF PendingIsNewer, Accounted
  <2>1. PICK s \in Pending : o = Object(s)
    BY <1>5
  <2>2. s = r
    BY <2>1, <1>1, <1>4
  <2>3. QED  BY <2>1, <2>2, <1>1, <1>4, NumbersTyped
<1>9. UnlinksPublished'
  <2> SUFFICES ASSUME NEW r \in Pending PROVE \E o \in Snapshot : Owner(o) = Owner(r) /\ o.n >= r.n
    BY <1>1, <1>3 DEF UnlinksPublished
  <2>1. Owner(Object(r)) = Owner(r) /\ Object(r).n >= r.n
    BY <1>1, <1>4, NumbersTyped
  <2>2. QED  BY <2>1, <1>5
<1>10. RoomForRecord'
  BY <1>2 DEF RoomForRecord, At
<1>11. NothingForgotten'
  <2> SUFFICES ASSUME NEW r \in saved, r \notin Pending \cup quarantined
               PROVE  \E o \in Snapshot : Owner(o) = Owner(r) /\ o.n >= r.n
    BY <1>1, <1>3 DEF NothingForgotten
  <2>1. PICK o \in catalog : Owner(o) = Owner(r) /\ o.n >= r.n
    BY DEF Accounted, NothingForgotten
  <2>2. CASE o \in Retained
    BY <2>1, <2>2, <1>5
  <2>3. CASE o \notin Retained
    <3>1. PICK s \in Pending : Owner(o) = Owner(s)
      BY <2>3, <1>5
    <3>2. o.n <= s.n
      BY <3>1 DEF Accounted, PendingIsNewer
    <3>3. Owner(Object(s)) = Owner(r) /\ Object(s).n >= r.n
      BY <2>1, <3>1, <3>2, <1>1, <1>4, NumbersTyped
    <3>4. QED  BY <3>3, <1>5
  <2>4. QED  BY <2>2, <2>3
<1>12. QED  BY <1>6, <1>7, <1>8, <1>9, <1>10, <1>11 DEF Accounted

\* A record is taken from those that wait, where that is accounted for.
LEMMA RemovedAccounts ==
  ASSUME BuildInv, NEW i \in CacheIds, UnlinkPending(i) \/ QuarantinePending(i)
  PROVE  Accounted'
<1>1. /\ pending' = [pending EXCEPT ![i] = NoRecord] /\ pending[i] # NoRecord
      /\ UNCHANGED <<config, run, saved, catalog>>
  BY DEF UnlinkPending, QuarantinePending, First, storeVars, catalogVars
<1>2. pending \in [CacheIds -> Record \cup {NoRecord}]
  BY DEF BuildInv, BuildTypeOK
<1>3. /\ \A j \in CacheIds : pending'[j] = IF j = i THEN NoRecord ELSE pending[j]
      /\ pending[i] \in Pending /\ Pending' \subseteq Pending
      /\ \A r \in Pending : r = pending[i] \/ r \in Pending'
  BY <1>1, <1>2 DEF Pending
<1>4. Numbered' /\ OneEach'
  BY <1>1 DEF BuildInv, Accounted, Numbered, OneEach, At, Owner
<1>5. PendingIsNewer' /\ UnlinksPublished'
  BY <1>1, <1>3 DEF BuildInv, Accounted, PendingIsNewer, UnlinksPublished, At, Owner
<1>6. RoomForRecord'
  BY <1>1, <1>3 DEF BuildInv, Accounted, RoomForRecord, At
<1>7. NothingForgotten'
  <2>1. CASE UnlinkPending(i)
    <3>1. \E o \in catalog : Owner(o) = Owner(pending[i]) /\ o.n >= pending[i].n
      BY <2>1, <1>3 DEF UnlinkPending, BuildInv, Accounted, UnlinksPublished
    <3>2. quarantined' = quarantined
      BY <2>1 DEF UnlinkPending
    <3>3. QED  BY <3>1, <3>2, <1>1, <1>3 DEF BuildInv, Accounted, NothingForgotten, Owner
  <2>2. CASE QuarantinePending(i)
    <3>1. quarantined' = quarantined \cup {pending[i]}
      BY <2>2 DEF QuarantinePending
    <3>2. QED  BY <3>1, <1>1, <1>3 DEF BuildInv, Accounted, NothingForgotten, Owner
  <2>3. QED  BY <2>1, <2>2
<1>8. QED  BY <1>4, <1>5, <1>6, <1>7 DEF Accounted

\* An object is put in the place of another with the same owner and number.
LEMMA AmendAccounts ==
  ASSUME Accounted, NEW o \in catalog, NEW p,
         p.name = o.name, p.version = o.version, p.n = o.n,
         catalog' = (catalog \ {o}) \cup {p},
         UNCHANGED <<config, pending, saved, quarantined>>,
         run'.pc = run.pc, run'.pc \notin {"record"}, RoomForRecord'
  PROVE  Accounted'
<1>1. Pending' = Pending /\ \A r : Owner(r)' = Owner(r)
  BY DEF Pending, Owner
<1>2. Owner(p) = Owner(o)
  BY DEF Owner
<1>3. (\A s \in saved : s.n <= Cardinality(saved))' /\ (\A q \in catalog : q.n <= Cardinality(saved))'
  BY DEF Accounted, Numbered
<1>4. Numbered'
  BY <1>3 DEF Numbered, At
<1>5. OneEach'
  BY <1>1, <1>2 DEF Accounted, OneEach
<1>6. PendingIsNewer' /\ UnlinksPublished' /\ NothingForgotten'
  BY <1>1, <1>2 DEF Accounted, PendingIsNewer, UnlinksPublished, NothingForgotten, At
<1>7. QED  BY <1>4, <1>5, <1>6 DEF Accounted

LEMMA SkipAccounts ==
  ASSUME BuildInv, NEW i \in CacheIds, NEW version \in Versions, SkipOrReindex(i, version)
  PROVE  Accounted'
<1>1. PICK o \in catalog : catalog' = (catalog \ {o}) \cup {[o EXCEPT !.chunk = run.chunk]}
  BY DEF SkipOrReindex
<1>2. o \in PublishedObject /\ run.chunk \in Chunks /\ run \in RunRecord
  BY DEF BuildInv, BuildTypeOK, SkipOrReindex, At
<1>3. run.pc = "serve" /\ run'.pc = "serve" /\ run'.next = i + 1 /\ i = run.next
  BY <1>2 DEF SkipOrReindex, At, RunRecord
<1>4. UNCHANGED <<config, pending, saved, quarantined>>
  BY DEF SkipOrReindex, recordVars
<1>5. RoomForRecord'
  <2>1. \A j \in CacheIds : j >= i => pending[j] = NoRecord
    BY <1>3 DEF BuildInv, Accounted, RoomForRecord, At
  <2>2. \A j \in CacheIds : j >= i + 1 => j >= i
    BY BuildAssumption DEF CacheIds
  <2>3. QED  BY <1>3, <1>4, <2>1, <2>2 DEF RoomForRecord, At
<1>6. QED  BY <1>1, <1>2, <1>3, <1>4, <1>5, Amended, AmendAccounts DEF BuildInv

LEMMA InvalidateAccounts ==
  ASSUME BuildInv, NEW o \in catalog, Invalidate(o)
  PROVE  Accounted'
<1>1. LET p == [o EXCEPT !.active = FALSE]
      IN p.name = o.name /\ p.version = o.version /\ p.n = o.n
  BY DEF BuildInv, BuildTypeOK, PublishedObject
<1>2. /\ catalog' = (catalog \ {o}) \cup {[o EXCEPT !.active = FALSE]}
      /\ UNCHANGED <<config, run, pending, saved, quarantined>> /\ run.pc = "idle"
  BY DEF Invalidate, recordVars, At
<1>3. RoomForRecord'
  BY <1>2 DEF RoomForRecord, At
<1>4. QED  BY <1>1, <1>2, <1>3, AmendAccounts DEF BuildInv

LEMMA PrefillAccounts ==
  ASSUME BuildInv, NEW i \in CacheIds, NEW version \in Versions, Prefill(i, version)
  PROVE  Accounted'
<1> DEFINE r == Made(i, version)
<1>1. UNCHANGED <<config, pending, saved, quarantined, catalog>>
  BY DEF Prefill, recordVars, catalogVars
<1>2. r \in Record /\ r.n = Cardinality(saved) + 1 /\ r.id = i
  BY MadeTyped DEF BuildInv, Prefill, At, Made
<1>3. run' = [run EXCEPT !.pc = "record", !.next = i + 1, !.record = r] /\ run.pc = "serve"
      /\ run.next = i
  BY DEF Prefill, Made, At
<1>4. run'.pc = "record" /\ run'.record = r /\ run'.next = i + 1
  BY <1>3 DEF BuildInv, BuildTypeOK, RunRecord
<1>5. Pending' = Pending
  BY <1>1 DEF Pending
<1>6. (\A s \in saved : s.n <= Cardinality(saved))' /\ (\A o \in catalog : o.n <= Cardinality(saved))'
  BY <1>1 DEF BuildInv, Accounted, Numbered
<1>7. Numbered'
  BY <1>1, <1>2, <1>4, <1>6 DEF Numbered
<1>8. UnlinksPublished'
  BY <1>4 DEF UnlinksPublished, At
<1>9. RoomForRecord'
  BY <1>1, <1>2, <1>3, <1>4, <1>5 DEF BuildInv, Accounted, RoomForRecord, At
<1>10. OneEach' /\ PendingIsNewer' /\ NothingForgotten'
  BY <1>1, <1>5 DEF BuildInv, Accounted, OneEach, PendingIsNewer, NothingForgotten, Owner
<1>11. QED  BY <1>7, <1>8, <1>9, <1>10 DEF Accounted

LEMMA WriteAccounts ==
  ASSUME BuildInv, WriteRecord
  PROVE  Accounted'
<1> DEFINE r == run.record
<1>1. /\ run.pc = "record" /\ pending' = [pending EXCEPT ![r.id] = r]
      /\ saved' = saved \cup {r} /\ UNCHANGED <<config, quarantined, catalog>>
  BY DEF WriteRecord, At, catalogVars
<1>2. r \in Record /\ r.n = Cardinality(saved) + 1 /\ r.id \in CacheIds
  BY <1>1 DEF BuildInv, Accounted, Numbered, At, Record
<1>3. run'.pc = "serve" /\ run'.next = run.next
  BY DEF WriteRecord, BuildInv, BuildTypeOK, RunRecord
<1>4. pending[r.id] = NoRecord /\ run.next = r.id + 1
  <2>1. r.id >= r.id
    BY <1>2, BuildAssumption DEF CacheIds
  <2>2. QED  BY <1>1, <1>2, <2>1 DEF BuildInv, Accounted, RoomForRecord, At
<1>5. \A j \in CacheIds : pending'[j] = IF j = r.id THEN r ELSE pending[j]
  BY <1>1 DEF BuildInv, BuildTypeOK
<1>6. Pending' = Pending \cup {r}
  <2>1. r # NoRecord
    BY <1>2 DEF Record, NoRecord
  <2>2. QED  BY <2>1, <1>2, <1>4, <1>5 DEF Pending
<1>7. r \notin saved /\ Cardinality(saved') = Cardinality(saved) + 1
  <2>1. r \notin saved
    BY <1>2, NumbersTyped DEF BuildInv, Accounted, Numbered
  <2>2. QED  BY <2>1, <1>1, FS_AddElement DEF BuildInv, BuildTypeOK
<1>8. Numbered'
  <2>1. (\A s \in saved : s.n <= Cardinality(saved))'
    BY <1>1, <1>2, <1>7, NumbersTyped DEF BuildInv, Accounted, Numbered
  <2>2. (\A o \in catalog : o.n <= Cardinality(saved))'
    BY <1>1, <1>7, NumbersTyped DEF BuildInv, Accounted, Numbered
  <2>3. QED  BY <1>3, <2>1, <2>2 DEF Numbered, At
<1>9. OneEach' /\ UnlinksPublished'
  BY <1>1, <1>3 DEF BuildInv, Accounted, OneEach, UnlinksPublished, At, Owner
<1>10. PendingIsNewer'
  <2>1. (Pending \subseteq saved)'
    BY <1>1, <1>6 DEF BuildInv, Accounted, PendingIsNewer
  <2>2. \A o \in catalog : o.n <= r.n
    BY <1>2, NumbersTyped DEF BuildInv, Accounted, Numbered
  <2>3. QED  BY <2>1, <2>2, <1>1, <1>6 DEF BuildInv, Accounted, PendingIsNewer, Owner
<1>11. RoomForRecord'
  <2>1. \A j \in CacheIds : j >= run.next => j >= r.id /\ j # r.id
    BY <1>2, <1>4, BuildAssumption DEF CacheIds
  <2>2. \A j \in CacheIds : j >= run.next => pending'[j] = NoRecord
    BY <2>1, <1>1, <1>5 DEF BuildInv, Accounted, RoomForRecord, At
  <2>3. QED  BY <2>2, <1>3 DEF RoomForRecord, At
<1>12. NothingForgotten'
  BY <1>1, <1>6 DEF BuildInv, Accounted, NothingForgotten, Owner
<1>13. QED  BY <1>8, <1>9, <1>10, <1>11, <1>12 DEF Accounted

LEMMA AccountKept ==
  ASSUME BuildInv, [BuildNext]_buildVars
  PROVE  Accounted'
<1>1. CASE Moves
  BY <1>1, MovesAccount
<1>2. CASE StopServer \/ \E overwrite \in BOOLEAN, chunk \in Chunks : StartRun(overwrite, chunk)
  BY <1>2, StopsAccount
<1>3. CASE PublishObjects \/ StartServer \/ WriteRecord
  BY <1>3, PublishAccounts, StartServerAccounts, WriteAccounts
<1>4. CASE \E i \in CacheIds : UnlinkPending(i) \/ QuarantinePending(i)
  BY <1>4, RemovedAccounts
<1>5. CASE \E i \in CacheIds, version \in Versions :
             SkipOrReindex(i, version) \/ Prefill(i, version)
  BY <1>5, SkipAccounts, PrefillAccounts
<1>6. CASE \E o \in catalog : Invalidate(o)
  BY <1>6, InvalidateAccounts
<1>7. CASE ServerDies \/ UNCHANGED buildVars
  <2>1. UNCHANGED <<config, run, pending, saved, quarantined, catalog>>
    BY <1>7 DEF ServerDies, buildVars, recordVars, catalogVars
  <2>2. QED  BY <2>1, SameAccounts DEF BuildInv
<1>8. QED  BY <1>1, <1>2, <1>3, <1>4, <1>5, <1>6, <1>7 DEF BuildNext, Moves

------------------------------------------------------------------------------
(* The theorems                                                            *)

\* The pipeline keeps the invariant, whatever is killed when.
THEOREM BuildInvariant == BuildSpec => []BuildInv
<1>1. BuildInit => BuildInv
  BY TypesHoldFirst, StoredFirst, AccountedFirst DEF BuildInv
<1>2. BuildInv /\ [BuildNext]_buildVars => BuildInv'
  BY TypesKept, StoreKept, AccountKept DEF BuildInv
<1>3. QED  BY <1>1, <1>2, PTL DEF BuildSpec

\* publish_objects, manage_raw_catalog.py: what was ever published is where its extents
\* say, and every index on disk has its slot, so that no later server gives it away.
THEOREM PublishedStored == BuildSpec => []PublishedIsStored
<1>1. BuildInv => PublishedIsStored
  BY DEF BuildInv, Stored, Truthful, PublishedIsStored
<1>2. QED  BY <1>1, BuildInvariant, PTL

\* run.sh 181-191: a record that was written is pending, published, superseded or set
\* aside, whatever is killed between its prefill and its publication.
THEOREM RecordsAccountedFor == BuildSpec => []NothingForgotten
<1>1. BuildInv => NothingForgotten
  BY DEF BuildInv, Accounted
<1>2. QED  BY <1>1, BuildInvariant, PTL

------------------------------------------------------------------------------
(* The catalog as its readers see it                                       *)

\* What a reader is promised of an object: where it is stored is left out.
Summary(o) ==
  [name |-> o.name, version |-> o.version, chunk |-> o.chunk, n |-> o.n, active |-> o.active]

Published == {Summary(o) : o \in catalog}

LEMMA SummaryOwner ==
  ASSUME NEW o
  PROVE  Promise!Owner(Summary(o)) = Owner(o) /\ Promise!Owner(o) = Owner(o)
  BY DEF Promise!Owner, Owner, Summary

LEMMA SameCatalog ==
  ASSUME UNCHANGED <<config, saved, catalog>>
  PROVE  UNCHANGED Promise!catalogVars
  BY DEF Promise!catalogVars

LEMMA WriteSaves ==
  ASSUME BuildInv, WriteRecord
  PROVE  Promise!CatalogNext
<1> DEFINE r == run.record
<1>1. saved' = saved \cup {r} /\ UNCHANGED <<config, catalog>> /\ run.pc = "record"
  BY DEF WriteRecord, At, catalogVars
<1>2. r \in Record /\ r.n = Cardinality(saved) + 1
  BY <1>1 DEF BuildInv, Accounted, Numbered, At
<1>3. Promise!SkillRecord(r)
  BY <1>2 DEF Promise!SkillRecord, Record
<1>4. \A s \in saved : s.n < r.n
  BY <1>2, NumbersTyped DEF BuildInv, Accounted, Numbered
<1>5. Promise!Save(r)
  BY <1>1, <1>3, <1>4 DEF Promise!Save
<1>6. r \in saved'
  BY <1>1
<1>7. QED  BY <1>5, <1>6 DEF Promise!CatalogNext

LEMMA PublishPublishes ==
  ASSUME BuildInv, PublishObjects
  PROVE  Promise!CatalogNext
<1> USE DEF BuildInv
<1>1. /\ BuildTypeOK /\ Stored /\ ~Missing /\ Pending # {}
      /\ \A r, s \in Pending : Owner(r) = Owner(s) => r = s
      /\ catalog' = Snapshot /\ UNCHANGED <<config, saved>>
  BY DEF PublishObjects, Refused, recordVars
<1>2. \A r, s \in Pending : Promise!Owner(r) = Promise!Owner(s) => r = s
  BY <1>1, SummaryOwner
<1>3. \A r \in Pending, o \in Published : Promise!Owner(o) = Promise!Owner(r) => o.n <= r.n
  <2> SUFFICES ASSUME NEW r \in Pending, NEW o \in catalog, Owner(o) = Owner(r)
               PROVE  Summary(o).n <= r.n
    BY SummaryOwner DEF Published
  <2>1. o.n <= r.n
    BY DEF Accounted, PendingIsNewer
  <2>2. QED  BY <2>1 DEF Summary
<1> DEFINE Fresh(r) == [name |-> r.name, version |-> r.version, chunk |-> r.chunk, n |-> r.n,
                        active |-> TRUE]
<1>4. Published' = {Summary(o) : o \in Retained} \cup {Fresh(r) : r \in Pending}
  <2>1. \A r \in Pending : Summary(Object(r)) = Fresh(r)
    BY DEF Summary, Object
  <2>2. Published' = {Summary(o) : o \in Snapshot}
    BY <1>1 DEF Published, Summary
  <2>3. QED  BY <2>1, <2>2 DEF Snapshot
<1>5. {Summary(o) : o \in Retained} =
        {o \in Published : Promise!Owner(o) \notin Promise!Owners(Pending)}
  BY SummaryOwner DEF Retained, Published, Owners, Promise!Owners
<1>6. Promise!Publish(Pending)
  BY <1>1, <1>2, <1>3, <1>4, <1>5 DEF Promise!Publish, Published, Summary
<1>7. Pending \in SUBSET saved
  BY DEF Accounted, PendingIsNewer
<1>8. \E batch \in SUBSET saved : Promise!Publish(batch)
  BY <1>6, <1>7 DEF Promise!Publish
<1>9. QED  BY <1>8 DEF Promise!CatalogNext

LEMMA AmendAmends ==
  ASSUME BuildInv, NEW o \in catalog, NEW p,
         Summary(p) \in {[Summary(o) EXCEPT !.chunk = c] : c \in Chunks} \cup
                          {[Summary(o) EXCEPT !.active = FALSE]},
         catalog' = (catalog \ {o}) \cup {p}, UNCHANGED <<config, saved>>
  PROVE  Promise!CatalogNext
<1>1. \A q \in catalog : Summary(q) = Summary(o) => q = o
  BY SummaryOwner DEF BuildInv, Accounted, OneEach
<1>2. Published' = (Published \ {Summary(o)}) \cup {Summary(p)}
  BY <1>1 DEF Published, Summary
<1>3. Promise!Amend(Summary(o), Summary(p))
  BY <1>2 DEF Promise!Amend, Published, Summary
<1>4. Summary(o) \in Published /\ Summary(p) \in Published'
  BY <1>2 DEF Published
<1>5. QED  BY <1>3, <1>4 DEF Promise!CatalogNext, Published, Summary

LEMMA SkipAmends ==
  ASSUME BuildInv, NEW i \in CacheIds, NEW version \in Versions, SkipOrReindex(i, version)
  PROVE  Promise!CatalogNext
<1>1. PICK o \in catalog : catalog' = (catalog \ {o}) \cup {[o EXCEPT !.chunk = run.chunk]}
  BY DEF SkipOrReindex
<1>2. o \in PublishedObject /\ run.chunk \in Chunks
  BY DEF BuildInv, BuildTypeOK, SkipOrReindex, At
<1>3. Summary([o EXCEPT !.chunk = run.chunk]) = [Summary(o) EXCEPT !.chunk = run.chunk]
  BY <1>2 DEF Summary, PublishedObject
<1>4. UNCHANGED <<config, saved>>
  BY DEF SkipOrReindex, recordVars
<1>5. QED  BY <1>1, <1>2, <1>3, <1>4, AmendAmends

LEMMA SummaryActive ==
  ASSUME NEW o, NEW active
  PROVE  [Summary(o) EXCEPT !.active = active] =
           [name |-> o.name, version |-> o.version, chunk |-> o.chunk, n |-> o.n, active |-> active]
  BY DEF Summary

LEMMA InvalidateAmends ==
  ASSUME BuildInv, NEW o \in catalog, Invalidate(o)
  PROVE  Promise!CatalogNext
<1>1. Summary([o EXCEPT !.active = FALSE]) = [Summary(o) EXCEPT !.active = FALSE]
  <2>1. o \in PublishedObject
    BY DEF BuildInv, BuildTypeOK
  <2> DEFINE p == [o EXCEPT !.active = FALSE]
  <2>2. p.name = o.name /\ p.version = o.version /\ p.chunk = o.chunk /\ p.n = o.n
    BY <2>1 DEF PublishedObject
  <2>3. p.active = FALSE
    BY <2>1, Zenon DEF PublishedObject
  <2>4. Summary(p) = [name |-> o.name, version |-> o.version, chunk |-> o.chunk, n |-> o.n,
                      active |-> FALSE]
    BY <2>2, <2>3, Zenon DEF Summary
  <2>5. [Summary(o) EXCEPT !.active = FALSE] =
          [name |-> o.name, version |-> o.version, chunk |-> o.chunk, n |-> o.n, active |-> FALSE]
    BY SummaryActive, Zenon
  <2>6. QED  BY <2>4, <2>5, Zenon
<1>2. catalog' = (catalog \ {o}) \cup {[o EXCEPT !.active = FALSE]} /\ UNCHANGED <<config, saved>>
  BY DEF Invalidate, recordVars
<1>3. QED  BY <1>1, <1>2, AmendAmends

LEMMA StepImplements ==
  ASSUME BuildInv, [BuildNext]_buildVars
  PROVE  [Promise!CatalogNext]_(Promise!catalogVars)
<1>1. CASE Moves \/ StartServer \/ StopServer \/ ServerDies \/ UNCHANGED buildVars
  <2>1. UNCHANGED <<config, saved, catalog>>
    BY <1>1 DEF Moves, CreateContainer, PublishSidecar, InitializeExisting, NothingPending,
       Unlinked, Refuse, StartQuarantine, Quarantined, StartFails, RunDies, StartServer,
       StopServer, ServerDies, buildVars, recordVars, catalogVars
  <2>2. QED  BY <2>1, SameCatalog
<1>2. CASE \/ \E overwrite \in BOOLEAN, chunk \in Chunks : StartRun(overwrite, chunk)
           \/ \E i \in CacheIds : UnlinkPending(i) \/ QuarantinePending(i)
           \/ \E i \in CacheIds, version \in Versions : Prefill(i, version)
  <2>1. UNCHANGED <<config, saved, catalog>>
    BY <1>2 DEF StartRun, UnlinkPending, QuarantinePending, Prefill, recordVars, catalogVars
  <2>2. QED  BY <2>1, SameCatalog
<1>3. CASE PublishObjects \/ WriteRecord
  BY <1>3, PublishPublishes, WriteSaves
<1>4. CASE \E i \in CacheIds, version \in Versions : SkipOrReindex(i, version)
  BY <1>4, SkipAmends
<1>5. CASE \E o \in catalog : Invalidate(o)
  BY <1>5, InvalidateAmends
<1>6. QED  BY <1>1, <1>2, <1>3, <1>4, <1>5 DEF BuildNext, Moves

\* manage_raw_catalog.py publishes as its readers expect: a reader that opens the catalog
\* at any time finds whole batches of records, none replaced by an older one.
THEOREM BuildImplementsCatalog == BuildSpec => ImplementsCatalog
<1>1. BuildInit => Promise!CatalogInit
  BY DEF BuildInit, Promise!CatalogInit
<1>2. BuildInv /\ [BuildNext]_buildVars => [Promise!CatalogNext]_(Promise!catalogVars)
  BY StepImplements
<1>3. QED
  BY <1>1, <1>2, BuildInvariant, PTL DEF BuildSpec, ImplementsCatalog, Promise!CatalogSpec
==============================================================================
