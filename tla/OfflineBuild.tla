----------------------------- MODULE OfflineBuild -----------------------------
(***************************************************************************)
(* The pipeline that fills a skill pool: run.sh initialises the pool,      *)
(* publishes what an earlier run left behind, starts a server, has it save *)
(* the keys and values of each skill, writes a pending record for each,    *)
(* stops the server and publishes the records as one catalog.  A process   *)
(* may be killed between any two steps; files are replaced atomically and  *)
(* stay.  The server keeps the slots of the keys it saved in memory and    *)
(* writes this index to disk when it is stopped in time.                   *)
(***************************************************************************)
EXTENDS Integers, FiniteSets

CONSTANTS
  Rows,         \* number of skills run.sh goes through, in the order of their cache ids
  Names, Versions, Chunks,
  Slots,        \* places of the store, each for all layers of a skill
  MaxSaves,     \* bound on the records written
  MaxKills      \* bound on the processes killed

ASSUME BuildAssumption ==
  /\ Rows \in Nat
  /\ MaxSaves \in Nat
  /\ MaxKills \in Nat

VARIABLES
  config,       \* config.py: backend, retain, and the skill name of each cache id
  run,          \* where run.sh is, and its settings
  container,    \* the raw file and its generation sidecar
  server,       \* whether the server runs
  index,        \* its slots, by key
  checkpoint,   \* the index on disk
  content,      \* what the slots hold
  pending,      \* the pending record of each cache id
  catalog,      \* catalog.json, the objects
  loadable,     \* history: where readers may look for keys that were ever published
  saved,        \* history: all records written
  quarantined,  \* the records moved to .failed
  kills

storeVars == <<container, server, index, checkpoint, content>>
catalogVars == <<catalog, loadable>>
recordVars == <<pending, saved, quarantined>>
buildVars == <<config, run, storeVars, recordVars, catalogVars, kills>>

CacheIds == 1..Rows

NoRecord == [n |-> 0]
NoKey == <<>>
Idle == [pc |-> "idle", overwrite |-> FALSE, chunk |-> 0, next |-> 0, record |-> NoRecord]

\* process_exact_tokens: equal texts of a skill have equal keys.
Key(r) == <<r.name, r.version>>

Empty == [k \in {} |-> 0]

BuildInit ==
  /\ config \in {c \in [backend : {"raw_block", "local_disk"}, retain : BOOLEAN,
                        name : [CacheIds -> Names]] :
                   c.backend = "local_disk" => ~c.retain}
  /\ run = Idle
  /\ container = "absent"
  /\ server = "down"
  /\ index = Empty
  /\ checkpoint = Empty
  /\ content = [s \in Slots |-> NoKey]
  /\ pending = [i \in CacheIds |-> NoRecord]
  /\ catalog = {}
  /\ loadable = {}
  /\ saved = {}
  /\ quarantined = {}
  /\ kills = 0

At(pc) == run.pc = pc
Goto(pc) == run' = [run EXCEPT !.pc = pc]
Exit == run' = Idle

Raw == config.backend = "raw_block"

------------------------------------------------------------------------------
(* initialize                                                              *)

StartRun(overwrite, chunk) ==
  /\ At("idle")
  /\ run' = [Idle EXCEPT !.pc = "initialize", !.overwrite = overwrite, !.chunk = chunk]
  /\ UNCHANGED <<config, storeVars, recordVars, catalogVars, kills>>

CreateContainer ==
  /\ At("initialize")
  /\ Raw /\ container = "absent"
  /\ container' = "file"
  /\ Goto("sidecar")
  /\ UNCHANGED <<config, server, index, checkpoint, content, recordVars, catalogVars, kills>>

PublishSidecar ==
  /\ At("sidecar")
  /\ container' = "ready"
  /\ Goto("recover")
  /\ UNCHANGED <<config, server, index, checkpoint, content, recordVars, catalogVars, kills>>

\* A raw file without its sidecar is refused, and will be for ever.
InitializeExisting ==
  /\ At("initialize")
  /\ Raw => container # "absent"
  /\ IF Raw /\ container = "file" THEN Exit ELSE Goto("recover")
  /\ UNCHANGED <<config, storeVars, recordVars, catalogVars, kills>>

------------------------------------------------------------------------------
(* finalize, before the server is started and after it is stopped.         *)

Finalizing == At("recover") \/ At("finalize")
AfterFinalize == IF At("recover") THEN Goto("start") ELSE Exit

Pending == {pending[i] : i \in CacheIds} \ {NoRecord}

Owner(r) == IF config.retain THEN <<r.name, r.version>> ELSE <<r.name>>
Owners(records) == {Owner(r) : r \in records}

\* entry_offset of a layer, or the file of it, is missing: the index on disk does not
\* have the key.
Missing == \E r \in Pending : Key(r) \notin DOMAIN checkpoint

Object(r) ==
  [name |-> r.name, version |-> r.version, chunk |-> r.chunk, n |-> r.n,
   slot |-> checkpoint[Key(r)], active |-> TRUE]

\* (variant) the catalog gets this batch only
RetainedNothing == {}

\* The objects whose owners the batch does not replace.
Retained == {o \in catalog : Owner(o) \notin Owners(Pending)}

Snapshot == Retained \cup {Object(r) : r \in Pending}

\* Two snapshots are written alike: n is not in the file.
Alike(S, T) == {[o EXCEPT !.n = 0] : o \in S} = {[o EXCEPT !.n = 0] : o \in T}

\* publish_objects raises: a layer is missing, two records have one owner, or a snapshot
\* that differs from the catalog retains an invalid object, which the staging manager
\* does not take.
Refused ==
  \/ Missing
  \/ \E r, s \in Pending : r # s /\ Owner(r) = Owner(s)
  \/ ~Alike(Snapshot, catalog) /\ \E o \in Retained : ~o.active

NothingPending ==
  /\ Finalizing
  /\ Pending = {}
  /\ AfterFinalize
  /\ UNCHANGED <<config, storeVars, recordVars, catalogVars, kills>>

\* The catalog is staged in a file of its own, verified, and replaced.
PublishObjects ==
  /\ Finalizing
  /\ Pending # {}
  /\ ~Refused
  /\ catalog' = Snapshot
  /\ loadable' = loadable \cup {<<Key(o), o.slot>> : o \in catalog'}
  /\ Goto(IF At("recover") THEN "unlink first" ELSE "unlink last")
  /\ UNCHANGED <<config, storeVars, recordVars, kills>>

First(i) == pending[i] # NoRecord /\ \A j \in 1..(i - 1) : pending[j] = NoRecord

UnlinkPending(i) ==
  /\ At("unlink first") \/ At("unlink last")
  /\ First(i)
  /\ pending' = [pending EXCEPT ![i] = NoRecord]
  /\ UNCHANGED <<config, run, storeVars, saved, quarantined, catalogVars, kills>>

Unlinked ==
  /\ At("unlink first") \/ At("unlink last")
  /\ Pending = {}
  /\ IF At("unlink first") THEN Goto("start") ELSE Exit
  /\ UNCHANGED <<config, storeVars, recordVars, catalogVars, kills>>

\* RawOffsetNotFoundError with --quarantine-unrecoverable: before the server starts,
\* if records are overwritten.
Quarantines == At("recover") /\ Raw /\ run.overwrite /\ Missing

\* (variant) the records are unlinked whether they were published or not
RefuseUnlinks ==
  /\ Finalizing
  /\ Pending # {}
  /\ ~Quarantines
  /\ Exit
  /\ pending' = [i \in CacheIds |-> NoRecord]
  /\ UNCHANGED <<config, storeVars, saved, quarantined, catalogVars, kills>>

\* Publication raised, or a file could not be written: run.sh ends.
Refuse ==
  /\ Finalizing
  /\ Pending # {}
  /\ ~Quarantines
  /\ Exit
  /\ UNCHANGED <<config, storeVars, recordVars, catalogVars, kills>>

StartQuarantine ==
  /\ Quarantines
  /\ Goto("quarantine")
  /\ UNCHANGED <<config, storeVars, recordVars, catalogVars, kills>>

QuarantinePending(i) ==
  /\ At("quarantine")
  /\ First(i)
  /\ pending' = [pending EXCEPT ![i] = NoRecord]
  /\ quarantined' = quarantined \cup {pending[i]}
  /\ UNCHANGED <<config, run, storeVars, saved, catalogVars, kills>>

Quarantined ==
  /\ At("quarantine")
  /\ Pending = {}
  /\ Goto("start")
  /\ UNCHANGED <<config, storeVars, recordVars, catalogVars, kills>>

------------------------------------------------------------------------------
(* The server and the prefills.                                            *)

\* (variant) load_checkpoint_on_init is off
StartServerFresh ==
  /\ At("start")
  /\ run' = [run EXCEPT !.pc = "serve", !.next = 1]
  /\ server' = "up"
  /\ index' = IF Raw THEN Empty ELSE checkpoint
  /\ UNCHANGED <<config, container, checkpoint, content, recordVars, catalogVars, kills>>

StartServer ==
  /\ At("start")
  /\ run' = [run EXCEPT !.pc = "serve", !.next = 1]
  /\ server' = "up"
  /\ index' = checkpoint
  /\ UNCHANGED <<config, container, checkpoint, content, recordVars, catalogVars, kills>>

\* lmcache-config fails, or the server does not answer in time.
StartFails ==
  /\ At("start")
  /\ Exit
  /\ UNCHANGED <<config, storeVars, recordVars, catalogVars, kills>>

Identical(o, name, version) == o.active /\ o.name = name /\ o.version = version

\* What the catalog has already is skipped, or only its chunks are configured anew.
SkipOrReindex(i, version) ==
  /\ At("serve")
  /\ i = run.next
  /\ ~run.overwrite
  /\ \E o \in catalog :
       /\ Identical(o, config.name[i], version)
       /\ catalog' = (catalog \ {o}) \cup {[o EXCEPT !.chunk = run.chunk]}
  /\ run' = [run EXCEPT !.next = i + 1]
  /\ UNCHANGED <<config, storeVars, recordVars, loadable, kills>>

\* Where a key may be saved: an unused slot, or a file of its own.
FreeSlots(key) ==
  IF Raw THEN Slots \ {index[k] : k \in DOMAIN index}
  ELSE {s \in Slots : content[s] = key \/ (content[s] = NoKey /\ \A t \in Slots : content[t] # key)}

\* The request is answered; the layers were saved unless the store had no place.  A key
\* that has a slot keeps it.
Prefill(i, version) ==
  LET r == [name |-> config.name[i], version |-> version, chunk |-> run.chunk,
            n |-> Cardinality(saved) + 1, id |-> i]
  IN /\ At("serve")
     /\ i = run.next
     /\ server = "up"
     /\ Cardinality(saved) < MaxSaves
     /\ run.overwrite \/ \A o \in catalog : ~Identical(o, r.name, version)
     /\ run' = [run EXCEPT !.pc = "record", !.next = i + 1, !.record = r]
     /\ \/ UNCHANGED <<index, content>>
        \/ /\ Key(r) \notin DOMAIN index
           /\ \E s \in FreeSlots(Key(r)) :
                /\ index' = [k \in DOMAIN index \cup {Key(r)} |->
                               IF k = Key(r) THEN s ELSE index[k]]
                /\ content' = [content EXCEPT ![s] = Key(r)]
     /\ UNCHANGED <<config, container, server, checkpoint, recordVars, catalogVars, kills>>

WriteRecord ==
  /\ At("record")
  /\ pending' = [pending EXCEPT ![run.record.id] = run.record]
  /\ saved' = saved \cup {run.record}
  /\ run' = [run EXCEPT !.pc = "serve", !.record = NoRecord]
  /\ UNCHANGED <<config, storeVars, quarantined, catalogVars, kills>>

\* What is on disk when the server has ended: of raw slots the index if there was time
\* to write it, of files whatever was written.
MayRemain(stopped) ==
  IF Raw THEN {checkpoint} \cup (IF stopped THEN {index} ELSE {})
  ELSE {[k \in DOMAIN checkpoint \cup K |-> index[k]] : K \in SUBSET DOMAIN index}

\* After the last skill, or the first that failed, even between its prefill and its record.
StopServer ==
  /\ At("serve") \/ At("record")
  /\ run' = [run EXCEPT !.pc = "finalize", !.next = 0, !.record = NoRecord]
  /\ server' = "down"
  /\ checkpoint' \in IF server = "up" THEN MayRemain(TRUE) ELSE {checkpoint}
  /\ index' = Empty
  /\ UNCHANGED <<config, container, content, recordVars, catalogVars, kills>>

ServerDies ==
  /\ server = "up"
  /\ kills < MaxKills
  /\ kills' = kills + 1
  /\ server' = "down"
  /\ checkpoint' \in MayRemain(FALSE)
  /\ index' = Empty
  /\ UNCHANGED <<config, run, container, content, recordVars, catalogVars>>

\* run.sh and everything it started, at once.
RunDies ==
  /\ ~At("idle")
  /\ kills < MaxKills
  /\ kills' = kills + 1
  /\ Exit
  /\ server' = "down"
  /\ checkpoint' \in IF server = "up" THEN MayRemain(FALSE) ELSE {checkpoint}
  /\ index' = Empty
  /\ UNCHANGED <<config, container, content, recordVars, catalogVars>>

------------------------------------------------------------------------------
(* Other users of the catalog.                                             *)

\* invalidate_object, while no run changes the catalog.
Invalidate(o) ==
  /\ At("idle")
  /\ catalog' = (catalog \ {o}) \cup {[o EXCEPT !.active = FALSE]}
  /\ UNCHANGED <<config, run, storeVars, recordVars, loadable, kills>>

BuildNext ==
  \/ \E overwrite \in BOOLEAN, chunk \in Chunks : StartRun(overwrite, chunk)
  \/ CreateContainer \/ PublishSidecar \/ InitializeExisting
  \/ NothingPending \/ PublishObjects \/ Unlinked \/ Refuse
  \/ StartQuarantine \/ Quarantined
  \/ \E i \in CacheIds : UnlinkPending(i) \/ QuarantinePending(i)
  \/ StartServer \/ StartFails \/ StopServer \/ ServerDies \/ RunDies \/ WriteRecord
  \/ \E i \in CacheIds, version \in Versions : SkipOrReindex(i, version) \/ Prefill(i, version)
  \/ \E o \in catalog : Invalidate(o)

BuildSpec == BuildInit /\ [][BuildNext]_buildVars

------------------------------------------------------------------------------
(* Properties                                                              *)

\* publish_objects, manage_raw_catalog.py: every object that is or was published, and
\* that a service may have loaded, is still where its extents say, and the next server
\* knows that its slot is taken.
PublishedIsStored ==
  \A at \in loadable \cup {<<Key(o), o.slot>> : o \in catalog} :
    /\ content[at[2]] = at[1]
    /\ at[1] \in DOMAIN checkpoint
    /\ checkpoint[at[1]] = at[2]

\* run.sh 181-191: whatever was killed, a record that was written is published, was
\* replaced by a later one of the same owner, waits to be published, or was set aside.
NothingForgotten ==
  \A r \in saved :
    \/ r \in Pending \cup quarantined
    \/ \E o \in catalog : Owner(o) = Owner(r) /\ o.n >= r.n

\* The catalog changes as its readers expect: by whole batches that leave other
\* owners' objects alone and never put an older record in place of a newer one.
Promise == INSTANCE SkillCatalog WITH
  retain <- config.retain,
  published <- {[name |-> o.name, version |-> o.version, chunk |-> o.chunk, n |-> o.n,
                 active |-> o.active] : o \in catalog}
ImplementsCatalog == Promise!CatalogSpec
==============================================================================
