----------------------------- MODULE ReuseManager -----------------------------
(***************************************************************************)
(* One rank's RequestManager over its StorageManager and MetadataManager:  *)
(* control calls from the serving engine, the executor that reads host     *)
(* copies, the worker that streams an activated copy to the GPU, and the   *)
(* shutdown.                                                               *)
(*                                                                         *)
(* Every RequestManager method holds the manager's lock to its end, so at  *)
(* most one is under way; op says which and how far it got.  Its metadata  *)
(* and storage calls are steps of their own wherever the executor or       *)
(* close(), which run without that lock, may step in between.  Calls that  *)
(* change state through one storage or metadata call only are one step.    *)
(***************************************************************************)
EXTENDS HostLoads

CONSTANTS
  Expiring,    \* tickets have a deadline (ticket_ttl_seconds is not None)
  Closing      \* the manager may be closed

ASSUME ManagerAssumption == Expiring \in BOOLEAN /\ Closing \in BOOLEAN

VARIABLES
  op,          \* the method that holds RequestManager._lock
  rmClosed,    \* RequestManager._closed
  work         \* the activated ticket in the hands of scheduler and worker

managerVars == <<op, rmClosed, work>>
vars == <<runtime, ticketByRequest, load, io, pool, resident, storageClosed,
          closer, op, rmClosed, work>>

Calls == {"select", "poll", "inspect", "authenticate", "prepare", "query", "activate"}
Steps == {"sweep", "decide", "create", "submit", "hit", "enqueue", "commit", "abort"}

\* The calls that name the request they are made for.
RequestCalls == {"authenticate", "prepare", "query", "activate"}

Idle == [call |-> "none", ticket |-> NoTicket, request |-> NoRequest,
         sweep |-> {}, step |-> "idle"]

\* lease: who answers for an activated ticket.  group: the buffers a layer copy
\* in flight reads.  landed: layers whose copy has completed.
NoWork == [lease |-> "none", group |-> NoTicket, landed |-> 0]

ManagerInit ==
  /\ op = Idle
  /\ rmClosed = FALSE
  /\ work = [t \in Tickets |-> NoWork]

\* StorageManager._lock, when its holder is not in the middle of a step.
StorageLockFree ==
  /\ closer.pc # "detached"
  /\ op.step \notin {"hit", "enqueue"}

Done == op' = Idle
GoTo(step) == op' = [op EXCEPT !.step = step]

\* The method that is at this step for this ticket.
At(call, step, t) == op.call = call /\ op.step = step /\ op.ticket = t

\* SchedulerReuseCoordinator, the caller, is one thread: it polls readiness only
\* until it activates, and sends neither cancel nor release once the worker has the
\* lease (_release_scheduler_lease).  Nothing in the manager enforces either.
CallerMayQuery(t) == work[t].lease = "none"

\* (variant) the caller does not look at the lease
CallerMayAlwaysEnd(t) == TRUE

CallerMayEnd(t) == work[t].lease \notin {"worker", "failed"}

------------------------------------------------------------------------------
(* Entering a method that applies deadline cleanup: _expire_locked.        *)

\* A closed manager returns at once from every such method but poll.
Begin(call, t, r) ==
  /\ op = Idle
  /\ call = "poll" \/ ~rmClosed
  /\ call = "query" => CallerMayQuery(t)
  /\ r \in IF call \in RequestCalls THEN Requests ELSE {NoRequest}
  /\ \E overdue \in SUBSET {u \in Tickets : Expiring /\ Live(u)} :
       /\ Expire(overdue)
       /\ op' = [call |-> call, ticket |-> t, request |-> r, sweep |-> overdue,
                 step |-> IF overdue = {} THEN "decide" ELSE "sweep"]
  /\ UNCHANGED <<load, io, pool, resident, storageClosed, closer, rmClosed, work>>

\* (variant) ends the expired tickets but leaves their loads
SweepForgets(t) ==
  /\ op.step = "sweep"
  /\ t \in op.sweep
  /\ StorageLockFree
  /\ op' = [op EXCEPT !.sweep = @ \ {t},
                      !.step = IF op.sweep = {t} THEN "decide" ELSE "sweep"]
  /\ UNCHANGED <<tableVars, hostVars, rmClosed, work>>

\* cancel_host_load of each ticket that expired; a load that completed since the
\* sweep has been given back already (KeyError).
Sweep(t) ==
  /\ op.step = "sweep"
  /\ t \in op.sweep
  /\ StorageLockFree
  /\ IF load[t].present THEN CancelHostLoad(t) ELSE UNCHANGED <<tableVars, hostVars>>
  /\ op' = [op EXCEPT !.sweep = @ \ {t},
                      !.step = IF op.sweep = {t} THEN "decide" ELSE "sweep"]
  /\ UNCHANGED <<rmClosed, work>>

\* RequestManager.cancel, also as the method that gives up calls it.
CancelTicket(t) ==
  /\ StorageLockFree
  /\ IF load[t].present THEN CancelHostLoad(t)
     ELSE /\ IF Live(t) THEN Fallback(t) ELSE UNCHANGED tableVars
          /\ UNCHANGED hostVars

Abort(t) ==
  /\ op.step = "abort"
  /\ op.ticket = t
  /\ CancelTicket(t)
  /\ Done
  /\ UNCHANGED <<rmClosed, work>>

------------------------------------------------------------------------------
(* What a method decides from the state it reads (get_runtime): the step   *)
(* it goes to next, or to return with nothing changed.                     *)

\* The catalog may not resolve the skill; a known ticket is never reloaded.
SelectVerdicts(t) == {"return"} \cup IF Known(t) THEN {} ELSE {"create"}

\* The Tool result may be the expected one or not.
InspectVerdicts(t) ==
  IF runtime[t].binding = "unbound" THEN {"commit", "abort"} ELSE {"return"}

\* The prompt may hold an authentic prefix or not.
AuthenticateVerdicts(t) ==
  IF runtime[t].binding = "observed" THEN {"commit", "abort"} ELSE {"return"}

\* The policy may find the range too short, with or without a plan on record.
PrepareVerdicts(t, r) ==
  IF ~(runtime[t].binding = "verified" /\ runtime[t].request = r) THEN {"return"}
  ELSE IF runtime[t].plan = NoPlan THEN {"commit", "abort"} ELSE {"return", "abort"}

\* The readiness query only replies, unless the reuse would not pay.
QueryVerdicts(t, r) ==
  {"return"} \cup
  IF /\ Live(t)
     /\ runtime[t].request = r
     /\ runtime[t].plan # NoPlan
     /\ load[t].present
  THEN {"abort"} ELSE {}

ActivateVerdicts(t, r) ==
  IF /\ runtime[t].request = r
     /\ runtime[t].plan # NoPlan
     /\ runtime[t].binding = "verified"
     /\ runtime[t].host = "ready"
  THEN {"commit"} ELSE {"return"}

Verdicts ==
  CASE op.call = "select" -> SelectVerdicts(op.ticket)
    [] op.call = "poll" -> {"return"}
    [] op.call = "inspect" -> InspectVerdicts(op.ticket)
    [] op.call = "authenticate" -> AuthenticateVerdicts(op.ticket)
    [] op.call = "prepare" -> PrepareVerdicts(op.ticket, op.request)
    [] op.call = "query" -> QueryVerdicts(op.ticket, op.request)
    [] op.call = "activate" -> ActivateVerdicts(op.ticket, op.request)

Decide ==
  /\ op.step = "decide"
  /\ \E verdict \in Verdicts :
       IF verdict = "return" THEN Done ELSE GoTo(verdict)
  /\ UNCHANGED <<runtime, ticketByRequest, hostVars, rmClosed, work>>

------------------------------------------------------------------------------
(* What it then does.  The executor may have ended the ticket meanwhile,   *)
(* so every metadata call checks the state again and may refuse.           *)

SelectCreates(t) ==
  /\ At("select", "create", t)
  /\ \E o \in Objects : CreateTicket(t, o)
  /\ GoTo("submit")
  /\ UNCHANGED <<hostVars, rmClosed, work>>

SelectSubmits(t) ==
  /\ At("select", "submit", t)
  /\ StorageLockFree
  /\ \/ SubmitHit(t) /\ GoTo("hit")
     \/ SubmitMiss(t) /\ GoTo("enqueue")
     \/ SubmitRefused(t) /\ Done
  /\ UNCHANGED <<rmClosed, work>>

SelectFinishes(t) ==
  /\ \/ At("select", "hit", t) /\ SubmitHitReady(t)
     \/ At("select", "enqueue", t) /\ (Enqueue(t) \/ EnqueueFails(t))
  /\ Done
  /\ UNCHANGED <<rmClosed, work>>

InspectCommits(t) ==
  /\ At("inspect", "commit", t)
  /\ IF MarkObservationOK(t) THEN MarkObservation(t) ELSE UNCHANGED tableVars
  /\ Done
  /\ UNCHANGED <<hostVars, rmClosed, work>>

AuthenticateCommits(t) ==
  /\ At("authenticate", "commit", t)
  /\ IF BindRequestOK(t, op.request)
     THEN BindRequest(t, op.request) /\ Done
     ELSE UNCHANGED tableVars /\ GoTo("abort")
  /\ UNCHANGED <<hostVars, rmClosed, work>>

PrepareCommits(t) ==
  /\ At("prepare", "commit", t)
  /\ \E p \in Plans :
       IF SetReusePlanOK(t, op.request, p)
       THEN SetReusePlan(t, op.request, p) /\ Done
       ELSE UNCHANGED tableVars /\ GoTo("abort")
  /\ UNCHANGED <<hostVars, rmClosed, work>>

\* The plan goes back to the scheduler, which owns the lease from here.
ActivateCommits(t) ==
  /\ At("activate", "commit", t)
  /\ IF ActivateOK(t)
     THEN Activate(t) /\ work' = [work EXCEPT ![t].lease = "scheduler"]
     ELSE UNCHANGED <<tableVars, work>>
  /\ Done
  /\ UNCHANGED <<hostVars, rmClosed>>

------------------------------------------------------------------------------
(* Methods without deadline cleanup, one step each.                        *)

GiveUpLease(t) ==
  work' = [work EXCEPT ![t].lease = IF @ = "scheduler" THEN "ended" ELSE @]

Cancel(t) ==
  /\ op = Idle
  /\ Known(t)
  /\ CallerMayEnd(t)
  /\ CancelTicket(t)
  /\ GiveUpLease(t)
  /\ UNCHANGED <<op, rmClosed>>

\* RequestManager.release; a ticket without a load is released as metadata only.
ReleaseTicket(t) ==
  /\ StorageLockFree
  /\ IF load[t].present THEN ReleaseHostLoad(t) ELSE Release(t) /\ UNCHANGED hostVars

ReleaseCall(t) ==
  /\ op = Idle
  /\ CallerMayEnd(t)
  /\ ReleaseTicket(t)
  /\ GiveUpLease(t)
  /\ UNCHANGED <<op, rmClosed>>

------------------------------------------------------------------------------
(* The worker: _execute_csk_requests on the engine's main thread.          *)

\* handoff_to_worker, and the request reaches start_load_kv.
Handoff(t) ==
  /\ work[t].lease = "scheduler"
  /\ closer.pc = "idle"
  /\ work' = [work EXCEPT ![t].lease = "worker"]
  /\ UNCHANGED <<runtime, ticketByRequest, hostVars, op, rmClosed>>

\* (variant) submits one layer too many
FetchLayerBeyond(t) ==
  /\ work[t].lease = "worker"
  /\ work[t].group = NoTicket
  /\ work[t].landed <= Layers
  /\ op = Idle
  /\ ~rmClosed
  /\ runtime[t].binding = "active"
  /\ load[t].group # NoTicket
  /\ StorageLockFree
  /\ work' = [work EXCEPT ![t].group = load[t].group]
  /\ UNCHANGED <<runtime, ticketByRequest, hostVars, op, rmClosed>>

\* submit_layer: get_active_layer_buffer hands out the ticket's group and the
\* copy of one layer starts.
FetchLayer(t) ==
  /\ work[t].lease = "worker"
  /\ work[t].group = NoTicket
  /\ work[t].landed < Layers
  /\ op = Idle
  /\ ~rmClosed
  /\ runtime[t].binding = "active"
  /\ runtime[t].host = "ready"
  /\ load[t].group # NoTicket
  /\ StorageLockFree
  /\ work' = [work EXCEPT ![t].group = load[t].group]
  /\ UNCHANGED <<runtime, ticketByRequest, hostVars, op, rmClosed>>

\* wait_layer
LayerLands(t) ==
  /\ work[t].group # NoTicket
  /\ work' = [work EXCEPT ![t].group = NoTicket, ![t].landed = @ + 1]
  /\ UNCHANGED <<runtime, ticketByRequest, hostVars, op, rmClosed>>

\* The next layer of the table is marked loaded once it has landed, corrected
\* once it is loaded.  A call the ticket is no longer active for raises: WorkerFails.
MarkProgress(t) ==
  /\ work[t].lease = "worker"
  /\ op = Idle
  /\ \/ /\ runtime[t].loaded + 1 < work[t].landed
        /\ MarkLayerLoaded(t, runtime[t].loaded + 1)
     \/ MarkLayerCorrected(t, runtime[t].corrected + 1)
  /\ UNCHANGED <<hostVars, op, rmClosed, work>>

WorkerSucceeds(t) ==
  /\ work[t].lease = "worker"
  /\ work[t].landed = Layers
  /\ runtime[t].corrected = Layers - 1
  /\ op = Idle
  /\ ReleaseTicket(t)
  /\ work' = [work EXCEPT ![t].lease = "ended"]
  /\ UNCHANGED <<op, rmClosed>>

\* Any exception, the manager's refusals included: stream.abort() waits for the
\* device, then the ticket is cancelled.
WorkerFails(t) ==
  /\ work[t].lease = "worker"
  /\ work' = [work EXCEPT ![t].lease = "failed", ![t].group = NoTicket]
  /\ UNCHANGED <<runtime, ticketByRequest, hostVars, op, rmClosed>>

WorkerCancels(t) ==
  /\ work[t].lease = "failed"
  /\ op = Idle
  /\ CancelTicket(t)
  /\ work' = [work EXCEPT ![t].lease = "ended"]
  /\ UNCHANGED <<op, rmClosed>>

------------------------------------------------------------------------------
(* Shutdown, on the engine's main thread: no worker is executing.          *)

CloseManager ==
  /\ Closing
  /\ op = Idle
  /\ ~rmClosed
  /\ \A t \in Tickets : work[t].lease \notin {"worker", "failed"}
  /\ rmClosed' = TRUE
  /\ closer' = CloserAt("entered", {})
  /\ UNCHANGED <<runtime, ticketByRequest, load, io, pool, resident, storageClosed,
                 op, work>>

CloserStep ==
  /\ closer.pc = "detached" \/ StorageLockFree
  /\ CloseStep
  /\ UNCHANGED managerVars

\* The executor's threads; the completion callback takes the storage lock.
IOStep(t) ==
  /\ \/ ReadStarts(t) \/ ReadSucceeds(t) \/ ReadFails(t)
     \/ StorageLockFree /\ CompleteLoad(t)
  /\ UNCHANGED managerVars

------------------------------------------------------------------------------

OpStep(t) ==
  \/ Sweep(t) \/ Abort(t)
  \/ SelectCreates(t) \/ SelectSubmits(t) \/ SelectFinishes(t)
  \/ InspectCommits(t) \/ AuthenticateCommits(t) \/ PrepareCommits(t)
  \/ ActivateCommits(t)

WorkerStep(t) ==
  \/ FetchLayer(t) \/ LayerLands(t) \/ MarkProgress(t)
  \/ WorkerSucceeds(t) \/ WorkerFails(t) \/ WorkerCancels(t)

CallStep(t) ==
  \/ \E call \in Calls, r \in Requests \cup {NoRequest} : Begin(call, t, r)
  \/ Cancel(t) \/ ReleaseCall(t) \/ Handoff(t)

Next ==
  \/ \E t \in Tickets : CallStep(t) \/ OpStep(t) \/ WorkerStep(t) \/ IOStep(t)
  \/ Decide
  \/ CloseManager
  \/ CloserStep

Init == TableInit /\ HostInit /\ ManagerInit

\* A method that began, a submitted read, an executing worker and a close() that
\* began are threads that keep running; nobody has to call anything.
Fairness ==
  /\ WF_vars(Decide \/ \E t \in Tickets : OpStep(t))
  /\ \A t \in Tickets : WF_vars(IOStep(t)) /\ WF_vars(WorkerStep(t))
  /\ WF_vars(CloserStep)

Safe == Init /\ [][Next]_vars
Spec == Safe /\ Fairness

------------------------------------------------------------------------------
(* Safety.                                                                 *)

ReuseTypeOK ==
  /\ TableTypeOK
  /\ load \in [Tickets -> [present : BOOLEAN, group : Tickets \cup {NoTicket},
                           hit : BOOLEAN]]
  /\ io \in [Tickets -> IOStates]
  /\ pool \in [Tickets -> PoolStates]
  /\ resident \in Tickets \cup {NoTicket}
  /\ storageClosed \in BOOLEAN
  /\ closer \in [pc : {"idle", "entered", "cancelling", "detached", "done"},
                 todo : SUBSET Tickets, ticket : Tickets \cup {NoTicket},
                 group : Tickets \cup {NoTicket}, live : BOOLEAN]
  /\ op \in [call : Calls \cup {"none"}, ticket : Tickets \cup {NoTicket},
             request : Requests \cup {NoRequest}, sweep : SUBSET Tickets,
             step : Steps \cup {"idle"}]
  /\ rmClosed \in BOOLEAN
  /\ work \in [Tickets -> [lease : {"none", "scheduler", "worker", "failed", "ended"},
                           group : Tickets \cup {NoTicket}, landed : 0 .. Layers]]

\* The hands a group is in: a finished read whose callback has not run, the load
\* that owns it, the manager that retains it, the thread inside close().
One(b) == IF b THEN 1 ELSE 0

Holders(g) ==
  One(io[g] = "read") + One(resident = g) + One(closer.group = g)
    + Cardinality({t \in Tickets : load[t].present /\ g \in Taken(t)})

\* Pinned buffers are neither leaked nor returned twice: whatever order reads,
\* cancellations, expiries, releases and evictions took, every group acquired from
\* the pool is in exactly one pair of hands until it is back (_take_loaded_buffers,
\* _complete_host_load, release_host_load, close).
EveryGroupHasOneHolder ==
  \A g \in Tickets :
    /\ pool[g] # "returned twice"
    /\ Holders(g) = One(pool[g] = "held")

\* A live ticket that says ready has its buffers (get_ready_buffers), one that says
\* loading has a read under way that will complete it.
HostStateMatchesLoad ==
  \A t \in Tickets : Live(t) /\ closer.ticket # t =>
    /\ runtime[t].host = "ready" =>
         load[t].present /\ load[t].group # NoTicket /\ pool[load[t].group] = "held"
    /\ runtime[t].host = "loading" =>
         /\ load[t].present
         /\ \/ io[t] \in {"queued", "reading", "read", "broken"}
            \/ op.ticket = t /\ op.step \in {"hit", "enqueue"}

\* No layer copy reads from buffers that went back to the pool.
CopiesReadHeldBuffers ==
  \A t \in Tickets : work[t].group # NoTicket => pool[work[t].group] = "held"

\* A load that shares the retained group (resident_hit) shares a group that is still
\* retained: no eviction or release gave it away, and no read is recorded beside it.
HitsShareResident ==
  \A t \in Tickets :
    /\ load[t].hit => load[t].group = resident
    /\ load[t].present /\ ~load[t].hit => resident = NoTicket \/ ~Retain

\* When close() returns, the pool has every group back (storage/manager.py close).
CloseReturnsEverything ==
  closer.pc = "done" => \A g \in Tickets : pool[g] # "held"

------------------------------------------------------------------------------
(* Refinement and liveness.                                                *)

\* The manager uses the runtime table through its methods only, one at a time: what
\* is proved of the table holds of the whole.
ImplementsTable == TableSpec

\* A load that started ends, one way or another.
LoadSettles ==
  \A t \in Tickets : Live(t) /\ runtime[t].host = "loading"
                       ~> ~Live(t) \/ runtime[t].host = "ready"

\* The buffers of an ended ticket are back in the pool for good, unless retained,
\* although its read may have been anywhere when the ticket ended.
EndedGiveBack ==
  \A t \in Tickets : runtime[t].binding \in Terminal
                       ~> [](pool[t] = "held" => resident = t)

\* close() comes to its end, with reads in every stage when it begins.
CloseReturns == rmClosed ~> closer.pc = "done"

==============================================================================
