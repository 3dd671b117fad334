------------------------ MODULE SchedulerCoordinator -------------------------
(***************************************************************************)
(* SchedulerReuseCoordinator and PlanTransportCoordinator in the scheduler *)
(* process, the connector's hand-over to the workers, and the vLLM engine  *)
(* that calls them.  The engine is external: a step schedules prefills,    *)
(* executes them on all ranks, and processes the output; scheduling in     *)
(* advance of the output is refused (async_scheduling).  The scheduler is  *)
(* one thread, blocked while a control call runs, and what happens at one  *)
(* rank commutes with what the call does at another, so a handler is one   *)
(* step with all its calls.                                                *)
(*                                                                         *)
(* A block of the cache is a pair of its place in the prompt and a copy:   *)
(* tables share a block at one place of equal prompts only.                *)
(***************************************************************************)
EXTENDS RankControl

CONSTANTS
  PromptTokens,      \* length of every prompt
  CalibrationStart,  \* the plan's calibration_start: the boundary
  ReuseEnd,          \* the plan's reuse_end
  BlockSize,
  Copies             \* the blocks there are for each place of a prompt

ASSUME PlanAssumption ==
  /\ BlockSize \in Nat \ {0}
  /\ CalibrationStart \in Nat \ {0}
  /\ ReuseEnd \in Nat
  /\ PromptTokens \in Nat
  /\ Copies \in Nat
  /\ CalibrationStart < ReuseEnd
  /\ ReuseEnd < PromptTokens

VARIABLES
  state,       \* _states; phase "none" when there is no entry
  prepared,    \* PlanTransportCoordinator._prepared
  transported, \* PlanTransportCoordinator._active
  pending,     \* CSKCacheConnectorV1._pending_worker_requests
  engine,      \* what the engine is doing: schedule or execute
  request,     \* the engine's view of each request
  job,         \* the work of each rank on a request handed over in this step
  blocks,      \* the copy that each request's table has at each place
  fetched,     \* the blocks that LMCache is to fill in this step
  began        \* (history) the requests that left the queue in this step

schedulerVars == <<state, prepared, transported, pending>>
cacheVars == <<blocks, fetched, began>>
engineVars == <<engine, request, job, cacheVars>>
coordinationVars == <<controlVars, schedulerVars, engineVars>>

Phases == {"none", "initial", "waiting", "activated", "fallback"}
Leases == {"scheduler", "worker", "released"}
Answers == {"none", "ready", "fallback"}
States == [phase : Phases, lease : Leases, readiness : Answers]

\* external: tokens beyond the boundary count as computed without having been.
\* installed: the ranks that wrote them.
Stages == {"new", "queued", "running", "held", "granted", "done"}
EngineRequests ==
  [stage : Stages, computed : 0 .. PromptTokens, scheduled : BOOLEAN,
   external : BOOLEAN, installed : SUBSET Ranks]

JobStates == {"none", "todo", "ok", "failed"}

NoState == [phase |-> "none", lease |-> "released", readiness |-> "none"]
Registered == [phase |-> "initial", lease |-> "scheduler", readiness |-> "none"]

Arriving ==
  [stage |-> "new", computed |-> 0, scheduled |-> FALSE,
   external |-> FALSE, installed |-> {}]

Idle == [k \in Ranks |-> "none"]

NoBlock == 0
Places == 0 .. (PromptTokens - 1) \div BlockSize
NoTable == [i \in Places |-> NoBlock]

CoordinatorInit ==
  /\ ControlInit
  /\ state = [r \in Requests |-> NoState]
  /\ prepared = {}
  /\ transported = {}
  /\ pending = {}
  /\ engine = "schedule"
  /\ request = [r \in Requests |-> Arriving]
  /\ job = [r \in Requests |-> Idle]
  /\ blocks = [r \in Requests |-> NoTable]
  /\ fetched = {}
  /\ began = {}

Scheduling == engine = "schedule"

InStage(r, stages) == request[r].stage \in stages /\ ~request[r].scheduled

\* PlanTransportCoordinator._forget
Forget(r) ==
  /\ prepared' = prepared \ {r}
  /\ transported' = transported \ {r}

(***************************************************************************)
(* _release_scheduler_lease, with s the request's state before it: the     *)
(* lease is given up only when every rank said so.                         *)
(***************************************************************************)
OwnsLease(r) == state[r].lease = "scheduler"

\* (variant) the lease counts as released whatever the call said
LeaseAfterAlways(o) == "released"

LeaseAfter(o) == IF o.heard THEN "released" ELSE "scheduler"

ReleaseLease(r, s) ==
  IF OwnsLease(r)
  THEN \E o \in Outcomes :
         /\ Call("release", o, r)
         /\ Forget(r)
         /\ state' = [state EXCEPT ![r] = [s EXCEPT !.lease = LeaseAfter(o)]]
  ELSE /\ state' = [state EXCEPT ![r] = s]
       /\ UNCHANGED <<controlVars, prepared, transported>>

------------------------------------------------------------------------------
(* register                                                                *)

\* An engine that schedules in advance is not supported: cancel the ticket.
RegisterUnsupported(r) ==
  /\ Scheduling
  /\ InStage(r, {"new"})
  /\ late' = late \cup Submitted("cancel", r)
  /\ request' = [request EXCEPT ![r].stage = "queued"]
  /\ Forget(r)
  /\ UNCHANGED <<ticket, faults, state, pending, engine, job, cacheVars>>

\* The ranks plan; without the same plan from all of them the ticket is cancelled.
Register(r) ==
  /\ Scheduling
  /\ InStage(r, {"new"})
  /\ request' = [request EXCEPT ![r].stage = "queued"]
  /\ \E o \in Outcomes, command \in {"prepare", "decline"} :
       IF PlanFromAll(ticket, o, command, r)
       THEN /\ Call(command, o, r)
            /\ prepared' = prepared \cup {r}
            /\ state' = [state EXCEPT ![r] = Registered]
            /\ UNCHANGED transported
       ELSE /\ faults + Timeouts(o) <= MaxFaults
            /\ ticket' = After(ticket, o.reached, command, r)
            /\ late' = late \cup Postponed(o, command, r) \cup Submitted("cancel", r)
            /\ faults' = faults + Timeouts(o)
            /\ Forget(r)
            /\ UNCHANGED state
  /\ UNCHANGED <<pending, engine, job, cacheVars>>

------------------------------------------------------------------------------
(* The engine's block tables (external)                                    *)

Taken(i, c) == \E r \in Requests : blocks[r][i] = c

\* A free block; the least copy stands for any.
Fresh(i) == {c \in 1 .. Copies : ~Taken(i, c) /\ \A d \in 1 .. c - 1 : Taken(i, d)}

\* A block found in the prefix cache: nobody's, or one that another request has filled.
Cached(r, i) ==
  Fresh(i) \cup
    {blocks[q][i] : q \in {q \in Requests \ {r} : /\ blocks[q][i] # NoBlock
                                                /\ (i + 1) * BlockSize <= request[q].computed}}

\* Room for n tokens, of which the first blocks may be found.
Tables(r, found, n) ==
  {table \in [Places -> 0 .. Copies] :
     \A i \in Places :
       table[i] \in IF blocks[r][i] # NoBlock \/ i * BlockSize >= n THEN {blocks[r][i]}
                   ELSE IF i < found THEN Cached(r, i) ELSE Fresh(i)}

BlocksOf(r, places) ==
  {<<i, blocks[r][i]>> : i \in {i \in places \cap Places : blocks[r][i] # NoBlock}}

------------------------------------------------------------------------------
(* limit_prefill                                                           *)

\* A queued request may find a prefix of the prompt computed: whole blocks in the
\* engine's cache, and what follows them in LMCache.
Starts(r) ==
  IF request[r].stage = "queued" THEN 0 .. PromptTokens - 1 ELSE {request[r].computed}

Begins(r, start, n) ==
  /\ request[r].stage = "queued"
  /\ began' = began \cup {r}
  /\ \E found \in 0 .. start \div BlockSize : \E table \in Tables(r, found, n) :
       /\ blocks' = [blocks EXCEPT ![r] = table]
       /\ fetched' = fetched \cup
            {<<i, table[i]>> : i \in {i \in Places : found <= i /\ i * BlockSize < start}}

GoesOn(r, n) ==
  /\ request[r].stage # "queued"
  /\ \E table \in Tables(r, 0, n) : blocks' = [blocks EXCEPT ![r] = table]
  /\ UNCHANGED <<fetched, began>>

Computes(r, start, n) ==
  /\ request' = [request EXCEPT ![r].stage = "running", ![r].scheduled = TRUE,
                                ![r].computed = n]
  /\ Begins(r, start, n) \/ GoesOn(r, n)

MayPrefill(r) == Scheduling /\ InStage(r, {"queued", "running"})

\* Below the boundary the scheduled tokens are cut off there.
PrefillToBoundary(r) ==
  /\ MayPrefill(r)
  /\ state[r].phase = "initial"
  /\ \E start \in Starts(r) :
       /\ start < CalibrationStart
       /\ \E n \in start + 1 .. CalibrationStart : Computes(r, start, n)
  /\ UNCHANGED <<controlVars, schedulerVars, engine, job>>

\* (variant) a request found beyond the boundary still waits for its grant
PrefillPastBoundaryKept(r) ==
  /\ MayPrefill(r)
  /\ state[r].phase = "initial"
  /\ \E start \in Starts(r) :
       /\ start >= CalibrationStart
       /\ \E n \in start + 1 .. PromptTokens : Computes(r, start, n)
  /\ UNCHANGED <<controlVars, schedulerVars, engine, job>>

PrefillPastBoundary(r) ==
  /\ MayPrefill(r)
  /\ state[r].phase = "initial"
  /\ \E start \in Starts(r) :
       /\ start >= CalibrationStart
       /\ \E n \in start + 1 .. PromptTokens : Computes(r, start, n)
  /\ ReleaseLease(r, [state[r] EXCEPT !.phase = "fallback"])
  /\ UNCHANGED <<pending, engine, job>>

Prefill(r) ==
  /\ MayPrefill(r)
  /\ state[r].phase # "initial"
  /\ \E start \in Starts(r) : \E n \in start + 1 .. PromptTokens : Computes(r, start, n)
  /\ UNCHANGED <<controlVars, schedulerVars, engine, job>>

\* External: the engine takes a running request's blocks; it starts over.
Preempt(r) ==
  /\ Scheduling
  /\ InStage(r, {"running"})
  /\ request' = [request EXCEPT ![r] = [Arriving EXCEPT !.stage = "queued"]]
  /\ blocks' = [blocks EXCEPT ![r] = NoTable]
  /\ UNCHANGED <<controlVars, schedulerVars, engine, job, fetched, began>>

------------------------------------------------------------------------------
(* poll, activate and the allocation                                       *)

Held(r) == Scheduling /\ InStage(r, {"held"}) /\ state[r].phase = "waiting"

\* One poll: whether all answers came, and the ranks for which reuse does not pay.
PollOnce(r, heard, unpaid) ==
  LET answers == {RankReadiness(Unprofitable(unpaid, r)[k][r]) : k \in Ranks}
      readiness == CombinedReadiness(answers, heard)
  IN /\ Held(r)
     /\ state[r].readiness = "none"
     /\ ~heard => faults < MaxFaults
     /\ faults' = IF heard THEN faults ELSE faults + 1
     /\ ticket' = Unprofitable(unpaid, r)
     /\ state' = [state EXCEPT ![r].readiness =
                    IF readiness = "loading" THEN "none" ELSE readiness]
     /\ UNCHANGED <<late, prepared, transported, pending, engineVars>>

Poll(r) == \E heard \in BOOLEAN, unpaid \in SUBSET Ranks : PollOnce(r, heard, unpaid)

Reset(r) == [state[r] EXCEPT !.readiness = "none"]

ActivationValid(r) ==
  /\ state[r].readiness = "ready"
  /\ request[r].computed = CalibrationStart

\* (variant) the transport does not keep the activated plan for the allocation
ActivateUntransported(r) ==
  /\ Held(r)
  /\ state[r].readiness # "none"
  /\ ActivationValid(r)
  /\ \E o \in Outcomes :
       /\ PlanFromAll(ticket, o, "activate", r)
       /\ Call("activate", o, r)
  /\ state' = [state EXCEPT ![r] = [Reset(r) EXCEPT !.phase = "activated"]]
  /\ prepared' = prepared \ {r}
  /\ request' = [request EXCEPT ![r].stage = "granted"]
  /\ UNCHANGED <<transported, pending, engine, job, cacheVars>>

\* (variant) activates once one rank has answered with its plan
ActivateAny(r) ==
  /\ Held(r)
  /\ state[r].readiness # "none"
  /\ ActivationValid(r)
  /\ \E o \in Outcomes :
       /\ \E k \in o.reached : Grants("activate", ticket[k][r])
       /\ Call("activate", o, r)
  /\ state' = [state EXCEPT ![r] = [Reset(r) EXCEPT !.phase = "activated"]]
  /\ prepared' = prepared \ {r}
  /\ transported' = transported \cup {r}
  /\ request' = [request EXCEPT ![r].stage = "granted"]
  /\ UNCHANGED <<pending, engine, job, cacheVars>>

\* Every rank activated and all said so.
Activate(r) ==
  /\ Held(r)
  /\ state[r].readiness # "none"
  /\ ActivationValid(r)
  /\ \E o \in Outcomes :
       /\ PlanFromAll(ticket, o, "activate", r)
       /\ Call("activate", o, r)
  /\ state' = [state EXCEPT ![r] = [Reset(r) EXCEPT !.phase = "activated"]]
  /\ prepared' = prepared \ {r}
  /\ transported' = transported \cup {r}
  /\ request' = [request EXCEPT ![r].stage = "granted"]
  /\ UNCHANGED <<pending, engine, job, cacheVars>>

\* The call was made and did not give the plan: some ranks may be active.
\* prepared is dropped by activate, and again by the release.
ActivationFails(r) ==
  /\ Held(r)
  /\ state[r].readiness # "none"
  /\ ActivationValid(r)
  /\ \E o, second \in Outcomes :
       /\ ~PlanFromAll(ticket, o, "activate", r)
       /\ CallThenRelease("activate", o, r, second)
       /\ state' = [state EXCEPT ![r] =
            [Reset(r) EXCEPT !.phase = "fallback", !.lease = LeaseAfter(second)]]
  /\ Forget(r)
  /\ request' = [request EXCEPT ![r].stage = "running"]
  /\ UNCHANGED <<pending, engine, job, cacheVars>>

ActivationRefused(r) ==
  /\ Held(r)
  /\ state[r].readiness # "none"
  /\ ~ActivationValid(r)
  /\ ReleaseLease(r, [Reset(r) EXCEPT !.phase = "fallback"])
  /\ request' = [request EXCEPT ![r].stage = "running"]
  /\ UNCHANGED <<pending, engine, job, cacheVars>>

AllocationFailed(r) ==
  /\ Scheduling
  /\ InStage(r, {"granted"})
  /\ state[r].phase = "activated"
  /\ ReleaseLease(r, [state[r] EXCEPT !.phase = "fallback"])
  /\ request' = [request EXCEPT ![r].stage = "running"]
  /\ UNCHANGED <<pending, engine, job, cacheVars>>

\* bind_allocation does not raise and neither does handoff_to_worker.
HandoffOK(r) ==
  /\ r \in transported
  /\ state[r].phase = "activated"
  /\ state[r].lease = "scheduler"

(***************************************************************************)
(* update_state_after_alloc and handoff_to_worker.  The reused tokens      *)
(* count as computed from now on, and the rest may be scheduled as well.   *)
(***************************************************************************)
Allocate(r) ==
  /\ Scheduling
  /\ InStage(r, {"granted"})
  /\ HandoffOK(r)
  /\ transported' = transported \ {r}
  /\ pending' = pending \cup {r}
  /\ state' = [state EXCEPT ![r].lease = "worker"]
  /\ \E n \in ReuseEnd + 1 .. PromptTokens :
       /\ request' = [request EXCEPT ![r] =
            [stage |-> "running", computed |-> n, scheduled |-> TRUE,
             external |-> TRUE, installed |-> {}]]
       /\ \E table \in Tables(r, 0, n) : blocks' = [blocks EXCEPT ![r] = table]
  /\ UNCHANGED <<controlVars, prepared, engine, job, fetched, began>>

------------------------------------------------------------------------------
(* The step: build_connector_meta, the workers, the output                 *)

StartStep ==
  /\ Scheduling
  /\ \E r \in Requests : request[r].scheduled
  /\ \A r \in Requests : request[r].stage # "granted"
  /\ engine' = "execute"
  /\ pending' = {}
  /\ job' = [r \in Requests |-> [k \in Ranks |-> IF r \in pending THEN "todo" ELSE "none"]]
  /\ UNCHANGED <<controlVars, state, prepared, transported, request, cacheVars>>

\* (variant) success leaves the ticket to somebody else
WorkerInstallsOnly(k, r) ==
  /\ job[r][k] = "todo"
  /\ ticket[k][r].binding = "active"
  /\ job' = [job EXCEPT ![r][k] = "ok"]
  /\ request' = [request EXCEPT ![r].installed = @ \cup {k}]
  /\ UNCHANGED <<controlVars, schedulerVars, engine, cacheVars>>

\* _execute_csk_requests at one rank: success releases the ticket,
WorkerInstalls(k, r) ==
  /\ job[r][k] = "todo"
  /\ ticket[k][r].binding = "active"
  /\ job' = [job EXCEPT ![r][k] = "ok"]
  /\ request' = [request EXCEPT ![r].installed = @ \cup {k}]
  /\ SetTicket(k, r, End(ticket[k][r]))
  /\ UNCHANGED <<late, faults, schedulerVars, engine, cacheVars>>

\* and any exception cancels it and reports the blocks.
WorkerFails(k, r) ==
  /\ job[r][k] = "todo"
  /\ job' = [job EXCEPT ![r][k] = "failed"]
  /\ SetTicket(k, r, End(ticket[k][r]))
  /\ UNCHANGED <<late, faults, schedulerVars, engine, request, cacheVars>>

\* update_state_after_alloc: what a worker reports for a request it failed on.
\* (variant) all the blocks up to the end of the range
FailedBlocksFromStart(r) ==
  BlocksOf(r, 0 .. (ReuseEnd + BlockSize - 1) \div BlockSize - 1)

FailedBlocks(r) ==
  BlocksOf(r, CalibrationStart \div BlockSize .. (ReuseEnd + BlockSize - 1) \div BlockSize - 1)

FailedSomewhere == {r \in Requests : \E k \in Ranks : job[r][k] = "failed"}

\* The reports of all ranks.
\* (variant) the blocks of one failed request replace those of another
ReportedLast ==
  IF FailedSomewhere = {} THEN {} ELSE FailedBlocks(CHOOSE r \in FailedSomewhere : TRUE)

Reported == UNION {FailedBlocks(r) : r \in FailedSomewhere}

\* consume_invalid_blocks
Reserved(r) ==
  BlocksOf(r, CalibrationStart \div BlockSize .. (ReuseEnd + BlockSize - 1) \div BlockSize - 1)

FailedRequests(invalid) ==
  {r \in Requests : state[r].phase = "activated" /\ Reserved(r) \cap invalid # {}}

Consumed(invalid) == UNION {Reserved(r) : r \in FailedRequests(invalid)}

\* External: who holds any other invalid block computes again from the start.
Rewound(invalid) ==
  {r \in Requests : BlocksOf(r, Places) \cap (invalid \ Consumed(invalid)) # {}}

\* (variant) recomputes from the first block that lies in the range entirely
RecomputeFromRoundedUp ==
  ((CalibrationStart + BlockSize - 1) \div BlockSize) * BlockSize

RecomputeFrom == (CalibrationStart \div BlockSize) * BlockSize

ComputedAfter(r, invalid) ==
  IF r \in Rewound(invalid) THEN 0
  ELSE IF r \in FailedRequests(invalid) THEN RecomputeFrom
  ELSE request[r].computed

\* reaches_calibration_boundary
AtBoundary(invalid) ==
  {r \in Requests : /\ state[r].phase = "initial"
                    /\ request[r].scheduled
                    /\ ComputedAfter(r, invalid) = CalibrationStart}

StateAfterOutput(r, invalid) ==
  IF r \in FailedRequests(invalid)
  THEN [state[r] EXCEPT !.phase = "fallback", !.lease = "released"]
  ELSE IF r \in AtBoundary(invalid) THEN [state[r] EXCEPT !.phase = "waiting"]
  ELSE state[r]

RequestAfterOutput(r, invalid) ==
  [request[r] EXCEPT
     !.scheduled = FALSE,
     !.stage = IF r \in AtBoundary(invalid) THEN "held" ELSE @,
     !.computed = ComputedAfter(r, invalid),
     !.external = @ /\ ComputedAfter(r, invalid) > CalibrationStart]

UpdateFromOutput ==
  /\ engine = "execute"
  /\ \A r \in Requests, k \in Ranks : job[r][k] # "todo"
  /\ \E errors \in SUBSET fetched :
       LET invalid == errors \cup Reported
       IN /\ state' = [r \in Requests |-> StateAfterOutput(r, invalid)]
          /\ request' = [r \in Requests |-> RequestAfterOutput(r, invalid)]
  /\ job' = [r \in Requests |-> Idle]
  /\ engine' = "schedule"
  /\ fetched' = {}
  /\ began' = {}
  /\ UNCHANGED <<controlVars, prepared, transported, pending, blocks>>

------------------------------------------------------------------------------
(* finish: the request ended or was aborted; its state is dropped.         *)

\* (variant) drops the state without giving up the lease
FinishDrops(r) ==
  /\ Scheduling
  /\ InStage(r, {"queued", "running", "held"})
  /\ state' = [state EXCEPT ![r] = NoState]
  /\ request' = [request EXCEPT ![r] = [Arriving EXCEPT !.stage = "done"]]
  /\ blocks' = [blocks EXCEPT ![r] = NoTable]
  /\ UNCHANGED <<controlVars, prepared, transported, pending, engine, job, fetched, began>>

Finish(r) ==
  /\ Scheduling
  /\ InStage(r, {"queued", "running", "held"})
  /\ IF OwnsLease(r)
     THEN /\ \E o \in Outcomes : Call("release", o, r)
          /\ Forget(r)
     ELSE UNCHANGED <<controlVars, prepared, transported>>
  /\ state' = [state EXCEPT ![r] = NoState]
  /\ request' = [request EXCEPT ![r] = [Arriving EXCEPT !.stage = "done"]]
  /\ blocks' = [blocks EXCEPT ![r] = NoTable]
  /\ UNCHANGED <<pending, engine, job, fetched, began>>

------------------------------------------------------------------------------

RequestStep(r) ==
  \/ RegisterUnsupported(r) \/ Register(r)
  \/ PrefillToBoundary(r) \/ PrefillPastBoundary(r) \/ Prefill(r) \/ Preempt(r)
  \/ Poll(r) \/ Activate(r) \/ ActivationFails(r) \/ ActivationRefused(r)
  \/ AllocationFailed(r) \/ Allocate(r)
  \/ Finish(r)

WorkStep == \E k \in Ranks, r \in Requests : WorkerInstalls(k, r) \/ WorkerFails(k, r)

\* Nothing is left to do: every request is gone and every message arrived.
Drained ==
  /\ \A r \in Requests : request[r].stage = "done"
  /\ late = {}
  /\ UNCHANGED coordinationVars

CoordinatorNext ==
  \/ \E r \in Requests : RequestStep(r)
  \/ StartStep
  \/ WorkStep
  \/ UpdateFromOutput
  \/ RankStep /\ UNCHANGED <<schedulerVars, engineVars>>
  \/ Drained

(***************************************************************************)
(* A read ends, a queued command is executed or lost, a step that started  *)
(* is executed and its output processed, and the engine's loop comes back  *)
(* to a request it holds: strongly fair, as other requests' steps come in  *)
(* between.  Nothing forces a fault, a prefill or an end of a request.     *)
(***************************************************************************)
Fairness ==
  /\ \A k \in Ranks, r \in Requests :
       /\ WF_coordinationVars((HostReady(k, r) \/ HostFailed(k, r)) /\ UNCHANGED <<schedulerVars, engineVars>>)
       /\ WF_coordinationVars(WorkerInstalls(k, r) \/ WorkerFails(k, r))
       /\ \A c \in Commands :
            WF_coordinationVars(Deliver([rank |-> k, command |-> c, request |-> r])
                                /\ UNCHANGED <<schedulerVars, engineVars>>)
  /\ WF_coordinationVars(StartStep)
  /\ WF_coordinationVars(UpdateFromOutput)
  /\ \A r \in Requests :
       /\ SF_coordinationVars(PollOnce(r, TRUE, {}))
       /\ SF_coordinationVars(Activate(r) \/ ActivationFails(r) \/ ActivationRefused(r))
       /\ SF_coordinationVars(Allocate(r) \/ AllocationFailed(r))

CoordinatorSpec == CoordinatorInit /\ [][CoordinatorNext]_coordinationVars /\ Fairness

------------------------------------------------------------------------------
(* Properties                                                              *)

\* The workers have yet to execute the request, or their output to be processed.
HandedOver(r) == r \in pending \/ \E k \in Ranks : job[r][k] # "none"

\* Types of the scheduler's and the ranks' state.
CoordinatorTypeOK ==
  /\ ticket \in [Ranks -> [Requests -> Ticket]]
  /\ late \subseteq Message
  /\ faults \in 0 .. MaxFaults
  /\ state \in [Requests -> States]
  /\ prepared \subseteq Requests /\ transported \subseteq Requests /\ pending \subseteq Requests
  /\ engine \in {"schedule", "execute"}
  /\ request \in [Requests -> EngineRequests]
  /\ job \in [Requests -> [Ranks -> JobStates]]
  /\ blocks \in [Requests -> [Places -> 0 .. Copies]]
  /\ fetched \subseteq Places \X (1 .. Copies)
  /\ began \subseteq Requests

\* consume_invalid_blocks: once the output of a step is processed, tokens that
\* count as computed without having been are in the cache of every rank.
NoHole ==
  \A r \in Requests :
    request[r].external /\ ~HandedOver(r) => request[r].installed = Ranks

\* _release_scheduler_lease: a lease the scheduler records as released was ended
\* by every rank, whatever got lost before.
ReleasedIsEnded ==
  \A r \in Requests : state[r].phase # "none" /\ state[r].lease = "released" =>
    \A k \in Ranks : ticket[k][r].binding = "ended"

\* handoff_to_worker: the scheduler does not release a lease it handed over, so
\* when the step is over the workers have, all of them, also where one failed.
WorkersGiveBack ==
  \A r \in Requests : state[r].lease = "worker" /\ ~HandedOver(r) =>
    \A k \in Ranks : ticket[k][r].binding = "ended"

\* handoff_to_worker and bind_allocation raise when called for a request that
\* is not theirs: the allocation of a granted request never makes them.
HandoffNeverRaises ==
  \A r \in Requests : request[r].stage = "granted" => HandoffOK(r)

\* query_csk_readiness: no activation is tried on an answer that was ready while a
\* rank still read: what every rank said stays so, or its ticket has ended.
ReadyEverywhere ==
  \A r \in Requests : state[r].readiness = "ready" =>
    \A k \in Ranks : \/ ticket[k][r].planned /\ ticket[k][r].host = "ready"
                     \/ ticket[k][r].binding = "ended"

\* activate: the scheduler records the grant only when every rank holds an active
\* ticket, although the call may have reached some of them only.  (A deadline may
\* end a ticket later: the worker then fails and reports the blocks.)
GrantNeedsAllRanks ==
  [][\A r \in Requests :
       state[r].phase # "activated" /\ state'[r].phase = "activated" =>
         \A k \in Ranks : ticket'[k][r].binding = "active"]_coordinationVars

\* consume_invalid_blocks: blocks are matched to requests by id only, and requests
\* share blocks.  An output that revokes a request's reuse, or makes it compute again,
\* does so because a rank failed on this request, or it began in this step (and found
\* blocks that another failed on, or LMCache could not fill).  A request that goes on,
\* or was handed over with another that failed, is left alone.
OthersUndisturbed ==
  [][\A r \in Requests :
       /\ engine = "execute"
       /\ \/ state'[r].phase = "fallback" /\ state[r].phase # "fallback"
          \/ request'[r].computed < request[r].computed
       => r \in began \/ \E k \in Ranks : job[r][k] = "failed"]_coordinationVars

\* poll: a request held at the boundary is decided or finished.
HeldIsDecided ==
  \A r \in Requests : (request[r].stage = "held") ~> (request[r].stage # "held")

\* finish: when the request is gone, its tickets end on every rank, unless a call
\* timed out or a command was lost (a ticket then waits for its deadline).
FinishedLetsGo ==
  \A r \in Requests : (request[r].stage = "done") ~>
    \/ \A k \in Ranks : ticket[k][r].binding = "ended"
    \/ faults > 0

\* The scheduler implements the abstract prefill: a request stops at the boundary,
\* is granted once at most, and recomputes what was revoked.
Decision(r) ==
  CASE request[r].stage = "done" -> "over"
    [] request[r].stage # "done" /\ state[r].phase = "none" -> "plain"
    [] state[r].phase = "initial" -> "open"
    [] state[r].phase = "waiting" -> "held"
    [] state[r].phase = "activated" /\ state[r].lease = "scheduler" -> "granted"
    [] state[r].phase = "activated" /\ state[r].lease # "scheduler" /\ HandedOver(r) -> "skipped"
    [] state[r].phase = "activated" /\ state[r].lease # "scheduler" /\ ~HandedOver(r) -> "settled"
    [] OTHER -> "refused"

Abstract ==
  INSTANCE PrefillReuse WITH
    Boundary <- CalibrationStart,
    decision <- [r \in Requests |-> Decision(r)],
    computed <- [r \in Requests |-> request[r].computed]

ImplementsPrefill == Abstract!PrefillSpec

\* Whatever is lost, late or out of order, each rank's tickets take only steps of
\* the ticket lifecycle, which the ReuseManager's tickets implement as well.
Lifecycle(k) ==
  INSTANCE TicketLifecycle WITH
    Tickets <- Requests,
    NoRequest <- "nobody",
    phase <- [r \in Requests |->
      CASE ticket[k][r].binding = "verified" -> "issued"
        [] ticket[k][r].binding = "active" -> "engaged"
        [] OTHER -> "ended"],
    filled <- [r \in Requests |->
      CASE ticket[k][r].host = "loading" -> "busy"
        [] ticket[k][r].host = "ready" -> "full"
        [] OTHER -> "broken"],
    claim <- [r \in Requests |-> r]

RanksKeepLifecycle ==
  [][\A k \in Ranks : Lifecycle(k)!LifecycleNext \/ ticket'[k] = ticket[k]]_ticket
==============================================================================
