----------------------------- MODULE TicketTable -----------------------------
(***************************************************************************)
(* The runtime half of MetadataManager: one RuntimeReuseState per ticket   *)
(* and the index from a bound request to its ticket.  Every operator below *)
(* is one method; a method runs under the manager's lock from its first    *)
(* read to its last write, so it is one step.  XOK is the condition under  *)
(* which method X returns; where it does not hold the method raises        *)
(* ValueError and changes nothing.                                         *)
(***************************************************************************)
EXTENDS Integers

CONSTANTS
  Tickets,     \* structured tool-call identifiers
  Requests,    \* vLLM request identifiers
  Objects,     \* active cache objects of the persistent catalog
  Plans,       \* reuse plans a policy can produce for one binding
  Layers,      \* expected_layers, the model depth
  NoRequest, NoObject, NoPlan, NoTicket

ASSUME TableAssumption ==
  /\ Layers \in Nat \ {0}
  /\ NoRequest \notin Requests
  /\ NoObject \notin Objects
  /\ NoPlan \notin Plans
  /\ NoTicket \notin Tickets

VARIABLES
  runtime,           \* _runtime_by_ticket
  ticketByRequest    \* _ticket_by_request

tableVars == <<runtime, ticketByRequest>>

HostStates == {"not_started", "loading", "ready", "failed"}
BindingStates == {"unbound", "observed", "verified", "active", "fallback", "released"}
Terminal == {"fallback", "released"}

\* A ticket the dictionary does not hold has the binding "absent".
Runtime ==
  [object : Objects \cup {NoObject}, host : HostStates,
   binding : BindingStates \cup {"absent"}, request : Requests \cup {NoRequest},
   plan : Plans \cup {NoPlan}, loaded : -1 .. Layers - 1, corrected : -1 .. Layers - 1]

\* The state create_ticket builds: nothing loaded, nothing bound.
Fresh(object, binding) ==
  [object |-> object, host |-> "not_started", binding |-> binding,
   request |-> NoRequest, plan |-> NoPlan, loaded |-> -1, corrected |-> -1]

Unissued == Fresh(NoObject, "absent")

Known(t) == runtime[t].binding # "absent"

\* _require_live
Live(t) == runtime[t].binding \notin Terminal \cup {"absent"}

\* _store_runtime, with the state the method built by state.updated(...)
Store(t, state) == runtime' = [runtime EXCEPT ![t] = state]

TableInit ==
  /\ runtime = [t \in Tickets |-> Unissued]
  /\ ticketByRequest = [r \in Requests |-> NoTicket]

------------------------------------------------------------------------------
(* SkillAction and the host load.                                          *)

CreateTicket(t, o) ==
  /\ ~Known(t)
  /\ Store(t, Fresh(o, "unbound"))
  /\ UNCHANGED ticketByRequest

StartHostLoadOK(t) == Live(t) /\ runtime[t].host = "not_started"

StartHostLoad(t) ==
  /\ StartHostLoadOK(t)
  /\ Store(t, [runtime[t] EXCEPT !.host = "loading"])
  /\ UNCHANGED ticketByRequest

\* (variant) a late completion is not checked against a terminal ticket
MarkHostReadyLate(t) == runtime[t].host = "loading"

MarkHostReadyOK(t) == Live(t) /\ runtime[t].host = "loading"

MarkHostReady(t) ==
  /\ MarkHostReadyOK(t)
  /\ Store(t, [runtime[t] EXCEPT !.host = "ready"])
  /\ UNCHANGED ticketByRequest

MarkHostFailedOK(t) == Live(t) /\ runtime[t].host \in {"not_started", "loading"}

MarkHostFailed(t) ==
  /\ MarkHostFailedOK(t)
  /\ Store(t, [runtime[t] EXCEPT !.host = "failed", !.binding = "fallback"])
  /\ UNCHANGED ticketByRequest

------------------------------------------------------------------------------
(* Observation, authentication, planning and activation.                   *)

MarkObservationOK(t) == runtime[t].binding \in {"unbound", "observed"}

MarkObservation(t) ==
  /\ MarkObservationOK(t)
  /\ Store(t, [runtime[t] EXCEPT !.binding = "observed"])
  /\ UNCHANGED ticketByRequest

\* (variant) binds without looking the request up first
BindRequestUnchecked(t, r) == runtime[t].binding = "observed"

BindRequestOK(t, r) ==
  /\ runtime[t].binding = "observed"
  /\ ticketByRequest[r] = NoTicket

BindRequest(t, r) ==
  /\ BindRequestOK(t, r)
  /\ Store(t, [runtime[t] EXCEPT !.request = r, !.binding = "verified"])
  /\ ticketByRequest' = [ticketByRequest EXCEPT ![r] = t]

\* Registering the plan the ticket already has returns; another plan raises.
SetReusePlanOK(t, r, p) ==
  /\ runtime[t].binding = "verified"
  /\ runtime[t].request = r
  /\ runtime[t].plan \in {NoPlan, p}

SetReusePlan(t, r, p) ==
  /\ SetReusePlanOK(t, r, p)
  /\ Store(t, [runtime[t] EXCEPT !.plan = p])
  /\ UNCHANGED ticketByRequest

\* With require_complete_host_load, as the one caller has it.
ActivateOK(t) == runtime[t].binding = "verified" /\ runtime[t].host = "ready"

\* The method does not look at the plan: RequestManager does (activate_reuse).
Activate(t) ==
  /\ ActivateOK(t)
  /\ Store(t, [runtime[t] EXCEPT !.binding = "active"])
  /\ UNCHANGED ticketByRequest

------------------------------------------------------------------------------
(* Layer progress of the worker.                                           *)

MarkLayerLoadedOK(t, layer) ==
  /\ runtime[t].binding = "active"
  /\ layer = runtime[t].loaded + 1
  /\ layer < Layers

\* (variant) records the count of loaded layers instead of the last index
MarkLayerLoadedCount(t, layer) ==
  /\ MarkLayerLoadedOK(t, layer)
  /\ Store(t, [runtime[t] EXCEPT !.loaded = layer + 1])
  /\ UNCHANGED ticketByRequest

MarkLayerLoaded(t, layer) ==
  /\ MarkLayerLoadedOK(t, layer)
  /\ Store(t, [runtime[t] EXCEPT !.loaded = layer])
  /\ UNCHANGED ticketByRequest

\* (variant) corrects a layer that is not loaded yet
MarkLayerCorrectedEarly(t, layer) ==
  /\ runtime[t].binding = "active"
  /\ layer = runtime[t].corrected + 1
  /\ layer < Layers

MarkLayerCorrectedOK(t, layer) ==
  /\ runtime[t].binding = "active"
  /\ layer = runtime[t].corrected + 1
  /\ layer < Layers
  /\ layer <= runtime[t].loaded

MarkLayerCorrected(t, layer) ==
  /\ MarkLayerCorrectedOK(t, layer)
  /\ Store(t, [runtime[t] EXCEPT !.corrected = layer])
  /\ UNCHANGED ticketByRequest

------------------------------------------------------------------------------
(* The ends of a ticket.                                                   *)

FallbackOK(t) == Live(t)

Fallback(t) ==
  /\ FallbackOK(t)
  /\ Store(t, [runtime[t] EXCEPT !.binding = "fallback"])
  /\ UNCHANGED ticketByRequest

(***************************************************************************)
(* The sweep ends every live ticket whose deadline has passed, the active  *)
(* ones included.  Deadlines are wall-clock values (time.time_ns), so any  *)
(* set of live tickets may be the overdue one.  The request index keeps    *)
(* the entries of the tickets it ends.                                     *)
(***************************************************************************)
Expire(overdue) ==
  /\ \A t \in overdue : Live(t)
  /\ runtime' = [t \in Tickets |->
       IF t \in overdue THEN [runtime[t] EXCEPT !.binding = "fallback"] ELSE runtime[t]]
  /\ UNCHANGED ticketByRequest

\* (variant) ends the ticket but leaves its request indexed
ReleaseKeepingIndex(t) ==
  /\ Known(t)
  /\ Store(t, [runtime[t] EXCEPT !.binding = "released"])
  /\ UNCHANGED ticketByRequest

\* Releasing a released ticket returns its state unchanged.
Release(t) ==
  /\ Known(t)
  /\ Store(t, [runtime[t] EXCEPT !.binding = "released"])
  /\ ticketByRequest' =
       [r \in Requests |->
          IF runtime[t].binding # "released" /\ r = runtime[t].request
          THEN NoTicket ELSE ticketByRequest[r]]

------------------------------------------------------------------------------
(* Any caller, any order: the table on its own.                            *)

TableStep(t) ==
  \/ \E o \in Objects : CreateTicket(t, o)
  \/ StartHostLoad(t)
  \/ MarkHostReady(t)
  \/ MarkHostFailed(t)
  \/ MarkObservation(t)
  \/ \E r \in Requests : BindRequest(t, r)
  \/ \E r \in Requests, p \in Plans : SetReusePlan(t, r, p)
  \/ Activate(t)
  \/ \E layer \in 0 .. Layers - 1 :
       MarkLayerLoaded(t, layer) \/ MarkLayerCorrected(t, layer)
  \/ Fallback(t)
  \/ Release(t)

TableNext ==
  \/ \E t \in Tickets : TableStep(t)
  \/ \E overdue \in SUBSET Tickets : Expire(overdue)

TableSpec == TableInit /\ [][TableNext]_tableVars

------------------------------------------------------------------------------
(* What the table guarantees.                                              *)

TableTypeOK ==
  /\ runtime \in [Tickets -> Runtime]
  /\ ticketByRequest \in [Requests -> Tickets \cup {NoTicket}]

\* The request index (_ticket_by_request) and the request_id of the tickets say
\* the same thing: an entry lives from bind_request until release, through a
\* fallback or an expiry, so no request is ever shared by two unreleased tickets.
IndexMatchesBindings ==
  \A r \in Requests, t \in Tickets :
    ticketByRequest[r] = t
      <=> runtime[t].request = r /\ runtime[t].binding # "released"

\* Whatever order I/O, authentication and planning took, an active ticket
\* (activate) has its complete host copy and its request, and the layers it
\* corrected are layers it loaded (mark_layer_corrected).
Complete(state) ==
  /\ state.binding = "active" => state.host = "ready" /\ state.request # NoRequest
  /\ state.corrected <= state.loaded

ActiveIsComplete == \A t \in Tickets : Complete(runtime[t])

\* A ticket that fell back or was released is audit state: a late completion,
\* bind or progress call (_require_live, _require_active) changes nothing of it,
\* and its only way on is from fallback to released.
TerminalFrozen ==
  [][\A t \in Tickets : runtime[t].binding \in Terminal =>
       /\ runtime'[t].binding \in {runtime[t].binding, "released"}
       /\ runtime'[t] = [runtime[t] EXCEPT !.binding = runtime'[t].binding]]_tableVars

\* How far a ticket got determines which of its fields are set: the shape of
\* RuntimeReuseState that every method relies on.  A failed load has already
\* ended its ticket, only an active ticket made layer progress, and a plan is
\* never left on a ticket without its request.
WellShaped(state) ==
  /\ state.binding = "absent" => state = Unissued
  /\ state.binding # "absent" => state.object # NoObject
  /\ state.binding \in {"unbound", "observed"} => state.request = NoRequest
  /\ state.binding \in {"verified", "active"} => state.request # NoRequest
  /\ state.host = "failed" => state.binding \in Terminal
  /\ state.plan # NoPlan => state.request # NoRequest
  /\ state.loaded >= 0 => state.binding \in Terminal \cup {"active"}

BindingShape == \A t \in Tickets : WellShaped(runtime[t])

TableInv == TableTypeOK /\ IndexMatchesBindings /\ ActiveIsComplete /\ BindingShape

------------------------------------------------------------------------------
(* The table implements the ticket lifecycle.                              *)

PhaseOf(binding) ==
  CASE binding = "absent" -> "absent"
    [] binding \in {"unbound", "observed", "verified"} -> "issued"
    [] binding = "active" -> "engaged"
    [] binding = "fallback" -> "ended"
    [] binding = "released" -> "retired"

FilledOf(host) ==
  CASE host = "not_started" -> "none"
    [] host = "loading" -> "busy"
    [] host = "ready" -> "full"
    [] host = "failed" -> "broken"

Lifecycle == INSTANCE TicketLifecycle WITH
  phase <- [t \in Tickets |-> PhaseOf(runtime[t].binding)],
  filled <- [t \in Tickets |-> FilledOf(runtime[t].host)],
  claim <- [t \in Tickets |-> runtime[t].request]

\* Every behaviour of the table is one the lifecycle allows: filling and claiming
\* commute, engagement needs both, and an ended ticket stays ended.
ImplementsLifecycle == Lifecycle!LifecycleSpec
==============================================================================
