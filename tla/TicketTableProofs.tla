-------------------------- MODULE TicketTableProofs --------------------------
(***************************************************************************)
(* Theorems about TicketTable for any sets of tickets, requests, objects   *)
(* and plans and any model depth: TableInv is inductive, so the invariants *)
(* hold in every reachable state, and each method is one step of           *)
(* TicketLifecycle or invisible to it.                                     *)
(***************************************************************************)
EXTENDS TicketTable, TLAPS

\* The names of the states, as facts: the two enumerations stay opaque elsewhere.
LEMMA StateNames ==
  /\ "not_started" \in HostStates /\ "loading" \in HostStates
  /\ "ready" \in HostStates /\ "failed" \in HostStates
  /\ "unbound" \in BindingStates /\ "observed" \in BindingStates
  /\ "verified" \in BindingStates /\ "active" \in BindingStates
  /\ "fallback" \in BindingStates /\ "released" \in BindingStates
BY DEF HostStates, BindingStates

\* What is stored for one ticket decides the invariant, as long as the request
\* index and the ticket's place in it do not change.
LEMMA StoreKeepsInv ==
  ASSUME TableInv, NEW t \in Tickets, NEW s \in Runtime,
         Store(t, s), UNCHANGED ticketByRequest,
         s.request = runtime[t].request,
         s.binding # "released", runtime[t].binding # "released",
         WellShaped(s), Complete(s)
  PROVE  TableInv'
<1>1. runtime'[t] = s /\ \A u \in Tickets \ {t} : runtime'[u] = runtime[u]
  BY DEF TableInv, TableTypeOK, Store
<1>2. TableTypeOK'
  BY DEF TableInv, TableTypeOK, Store
<1>3. \A u \in Tickets : WellShaped(runtime'[u]) /\ Complete(runtime'[u])
  BY <1>1 DEF TableInv, BindingShape, ActiveIsComplete
<1>4. IndexMatchesBindings'
  BY <1>1 DEF TableInv, IndexMatchesBindings
<1> QED
  BY <1>2, <1>3, <1>4 DEF TableInv, BindingShape, ActiveIsComplete

LEMMA InitInv == TableInit => TableInv
<1> SUFFICES ASSUME TableInit PROVE TableInv
  OBVIOUS
<1>1. Unissued \in Runtime
  BY TableAssumption, StateNames DEF Unissued, Fresh, Runtime
<1>2. TableTypeOK
  BY <1>1 DEF TableInit, TableTypeOK
<1>3. WellShaped(Unissued) /\ Complete(Unissued)
  BY DEF WellShaped, Complete, Unissued, Fresh
<1>4. IndexMatchesBindings
  BY TableAssumption DEF TableInit, IndexMatchesBindings, Unissued, Fresh
<1> QED
  BY <1>2, <1>3, <1>4 DEF TableInit, TableInv, BindingShape, ActiveIsComplete

\* The methods that store one new state and leave the request index alone.
LEMMA StoringStepInv ==
  ASSUME TableInv, NEW t \in Tickets
  PROVE  /\ \A o \in Objects : CreateTicket(t, o) => TableInv'
         /\ StartHostLoad(t) => TableInv'
         /\ MarkHostReady(t) => TableInv'
         /\ MarkHostFailed(t) => TableInv'
         /\ MarkObservation(t) => TableInv'
         /\ \A r \in Requests, p \in Plans : SetReusePlan(t, r, p) => TableInv'
         /\ Activate(t) => TableInv'
         /\ \A l \in 0 .. Layers - 1 : MarkLayerLoaded(t, l) => TableInv'
         /\ \A l \in 0 .. Layers - 1 : MarkLayerCorrected(t, l) => TableInv'
         /\ Fallback(t) => TableInv'
<1> DEFINE now == runtime[t]
<1>0. now \in Runtime /\ WellShaped(now) /\ Complete(now)
  BY DEF TableInv, TableTypeOK, BindingShape, ActiveIsComplete
<1> USE TableAssumption, StateNames
<1>1. ASSUME NEW o \in Objects, CreateTicket(t, o) PROVE TableInv'
  <2> DEFINE new == Fresh(o, "unbound")
  <2>1. now = Unissued
    BY <1>0, <1>1 DEF CreateTicket, Known, WellShaped
  <2>2. new \in Runtime /\ WellShaped(new) /\ Complete(new)
    BY DEF Fresh, Runtime, WellShaped, Complete
  <2>3. new.request = now.request /\ new.binding # "released" /\ now.binding # "released"
    BY <2>1 DEF Fresh, Unissued
  <2> QED
    BY <1>1, <2>2, <2>3, StoreKeepsInv DEF CreateTicket
<1>2. ASSUME StartHostLoad(t) PROVE TableInv'
  <2> DEFINE new == [now EXCEPT !.host = "loading"]
  <2>1. /\ new \in Runtime /\ WellShaped(new) /\ Complete(new)
        /\ new.request = now.request /\ new.binding # "released" /\ now.binding # "released"
    BY <1>0, <1>2 DEF StartHostLoad, StartHostLoadOK, Live, Terminal, Runtime, WellShaped, Complete
  <2> QED
    BY <1>2, <2>1, StoreKeepsInv DEF StartHostLoad
<1>3. ASSUME MarkHostReady(t) PROVE TableInv'
  <2> DEFINE new == [now EXCEPT !.host = "ready"]
  <2>1. /\ new \in Runtime /\ WellShaped(new) /\ Complete(new)
        /\ new.request = now.request /\ new.binding # "released" /\ now.binding # "released"
    BY <1>0, <1>3 DEF MarkHostReady, MarkHostReadyOK, Live, Terminal, Runtime, WellShaped, Complete
  <2> QED
    BY <1>3, <2>1, StoreKeepsInv DEF MarkHostReady
<1>4. ASSUME MarkHostFailed(t) PROVE TableInv'
  <2> DEFINE new == [now EXCEPT !.host = "failed", !.binding = "fallback"]
  <2>1. /\ new \in Runtime /\ WellShaped(new) /\ Complete(new)
        /\ new.request = now.request /\ new.binding # "released" /\ now.binding # "released"
    BY <1>0, <1>4 DEF MarkHostFailed, MarkHostFailedOK, Live, Terminal, Runtime, WellShaped, Complete
  <2> QED
    BY <1>4, <2>1, StoreKeepsInv DEF MarkHostFailed
<1>5. ASSUME MarkObservation(t) PROVE TableInv'
  <2> DEFINE new == [now EXCEPT !.binding = "observed"]
  <2>1. /\ new \in Runtime /\ WellShaped(new) /\ Complete(new)
        /\ new.request = now.request /\ new.binding # "released" /\ now.binding # "released"
    BY <1>0, <1>5 DEF MarkObservation, MarkObservationOK, Runtime, WellShaped, Complete, Terminal
  <2> QED
    BY <1>5, <2>1, StoreKeepsInv DEF MarkObservation
<1>6. ASSUME NEW r \in Requests, NEW p \in Plans, SetReusePlan(t, r, p) PROVE TableInv'
  <2> DEFINE new == [now EXCEPT !.plan = p]
  <2>1. /\ new \in Runtime /\ WellShaped(new) /\ Complete(new)
        /\ new.request = now.request /\ new.binding # "released" /\ now.binding # "released"
    BY <1>0, <1>6 DEF SetReusePlan, SetReusePlanOK, Runtime, WellShaped, Complete, Terminal
  <2> QED
    BY <1>6, <2>1, StoreKeepsInv DEF SetReusePlan
<1>7. ASSUME Activate(t) PROVE TableInv'
  <2> DEFINE new == [now EXCEPT !.binding = "active"]
  <2>1. /\ new \in Runtime /\ WellShaped(new) /\ Complete(new)
        /\ new.request = now.request /\ new.binding # "released" /\ now.binding # "released"
    BY <1>0, <1>7 DEF Activate, ActivateOK, Runtime, WellShaped, Complete, Terminal
  <2> QED
    BY <1>7, <2>1, StoreKeepsInv DEF Activate
<1>8. ASSUME NEW l \in 0 .. Layers - 1, MarkLayerLoaded(t, l) PROVE TableInv'
  <2> DEFINE new == [now EXCEPT !.loaded = l]
  <2>1. /\ new \in Runtime /\ WellShaped(new) /\ Complete(new)
        /\ new.request = now.request /\ new.binding # "released" /\ now.binding # "released"
    BY <1>0, <1>8 DEF MarkLayerLoaded, MarkLayerLoadedOK, Runtime, WellShaped, Complete, Terminal
  <2> QED
    BY <1>8, <2>1, StoreKeepsInv DEF MarkLayerLoaded
<1>9. ASSUME NEW l \in 0 .. Layers - 1, MarkLayerCorrected(t, l) PROVE TableInv'
  <2> DEFINE new == [now EXCEPT !.corrected = l]
  <2>1. /\ new \in Runtime /\ WellShaped(new) /\ Complete(new)
        /\ new.request = now.request /\ new.binding # "released" /\ now.binding # "released"
    BY <1>0, <1>9 DEF MarkLayerCorrected, MarkLayerCorrectedOK, Runtime, WellShaped, Complete, Terminal
  <2> QED
    BY <1>9, <2>1, StoreKeepsInv DEF MarkLayerCorrected
<1>10. ASSUME Fallback(t) PROVE TableInv'
  <2> DEFINE new == [now EXCEPT !.binding = "fallback"]
  <2>1. /\ new \in Runtime /\ WellShaped(new) /\ Complete(new)
        /\ new.request = now.request /\ new.binding # "released" /\ now.binding # "released"
    BY <1>0, <1>10 DEF Fallback, FallbackOK, Live, Runtime, WellShaped, Complete, Terminal
  <2> QED
    BY <1>10, <2>1, StoreKeepsInv DEF Fallback
<1> QED
  BY <1>1, <1>2, <1>3, <1>4, <1>5, <1>6, <1>7, <1>8, <1>9, <1>10

LEMMA BindInv ==
  ASSUME TableInv, NEW t \in Tickets, NEW r \in Requests, BindRequest(t, r)
  PROVE  TableInv'
<1> DEFINE now == runtime[t]
           new == [now EXCEPT !.request = r, !.binding = "verified"]
<1>0. now \in Runtime /\ WellShaped(now) /\ Complete(now)
  BY DEF TableInv, TableTypeOK, BindingShape, ActiveIsComplete
<1>1. now.binding = "observed" /\ now.request = NoRequest /\ ticketByRequest[r] = NoTicket
  BY <1>0 DEF BindRequest, BindRequestOK, WellShaped
<1>2. new \in Runtime /\ WellShaped(new) /\ Complete(new)
  BY <1>0, <1>1, TableAssumption, StateNames DEF Runtime, WellShaped, Complete, Terminal
<1>3. runtime'[t] = new /\ \A u \in Tickets \ {t} : runtime'[u] = runtime[u]
  BY DEF BindRequest, Store, TableInv, TableTypeOK
<1>4. TableTypeOK'
  BY <1>2 DEF BindRequest, Store, TableInv, TableTypeOK
<1>5. \A u \in Tickets : WellShaped(runtime'[u]) /\ Complete(runtime'[u])
  BY <1>2, <1>3 DEF TableInv, BindingShape, ActiveIsComplete
<1>6. IndexMatchesBindings'
  <2> SUFFICES ASSUME NEW q \in Requests, NEW u \in Tickets
               PROVE  ticketByRequest'[q] = u
                        <=> runtime'[u].request = q /\ runtime'[u].binding # "released"
    BY DEF IndexMatchesBindings
  <2>1. ticketByRequest' = [ticketByRequest EXCEPT ![r] = t]
    BY DEF BindRequest
  <2>2. new.request = r /\ new.binding = "verified"
    BY <1>0 DEF Runtime
  <2>3. /\ ticketByRequest'[q] = IF q = r THEN t ELSE ticketByRequest[q]
        /\ ticketByRequest[q] = u <=> runtime[u].request = q /\ runtime[u].binding # "released"
    BY <2>1 DEF TableInv, TableTypeOK, IndexMatchesBindings
  <2>4. ~ (runtime[u].request = r /\ runtime[u].binding # "released")
    BY <1>1, TableAssumption DEF TableInv, IndexMatchesBindings
  <2>5. CASE u = t
    BY <1>1, <1>3, <2>2, <2>3, <2>4, <2>5, TableAssumption
  <2>6. CASE u # t
    BY <1>3, <2>3, <2>4, <2>6
  <2> QED
    BY <2>5, <2>6
<1> QED
  BY <1>4, <1>5, <1>6 DEF TableInv, BindingShape, ActiveIsComplete

LEMMA ReleaseInv ==
  ASSUME TableInv, NEW t \in Tickets, Release(t)
  PROVE  TableInv'
<1> DEFINE now == runtime[t]
           new == [now EXCEPT !.binding = "released"]
<1>0. now \in Runtime /\ WellShaped(now) /\ Complete(now)
  BY DEF TableInv, TableTypeOK, BindingShape, ActiveIsComplete
<1>1. new \in Runtime /\ WellShaped(new) /\ Complete(new)
  BY <1>0, TableAssumption, StateNames
  DEF Release, Known, Runtime, WellShaped, Complete, Terminal
<1>2. runtime'[t] = new /\ \A u \in Tickets \ {t} : runtime'[u] = runtime[u]
  BY DEF Release, Store, TableInv, TableTypeOK
<1>3. TableTypeOK'
  BY <1>1 DEF Release, Store, TableInv, TableTypeOK
<1>4. \A u \in Tickets : WellShaped(runtime'[u]) /\ Complete(runtime'[u])
  BY <1>1, <1>2 DEF TableInv, BindingShape, ActiveIsComplete
<1>5. IndexMatchesBindings'
  <2> SUFFICES ASSUME NEW q \in Requests, NEW u \in Tickets
               PROVE  ticketByRequest'[q] = u
                        <=> runtime'[u].request = q /\ runtime'[u].binding # "released"
    BY DEF IndexMatchesBindings
  <2>1. ticketByRequest'[q] = IF now.binding # "released" /\ q = now.request
                              THEN NoTicket ELSE ticketByRequest[q]
    BY DEF Release
  <2>2. new.request = now.request /\ new.binding = "released"
    BY <1>0 DEF Runtime
  <2>3. ticketByRequest[q] = u <=> runtime[u].request = q /\ runtime[u].binding # "released"
    BY DEF TableInv, IndexMatchesBindings
  <2>4. ticketByRequest[q] = t <=> now.request = q /\ now.binding # "released"
    BY DEF TableInv, IndexMatchesBindings
  <2> QED
    BY <1>2, <2>1, <2>2, <2>3, <2>4, TableAssumption
<1> QED
  BY <1>3, <1>4, <1>5 DEF TableInv, BindingShape, ActiveIsComplete

LEMMA ExpireInv ==
  ASSUME TableInv, NEW overdue \in SUBSET Tickets, Expire(overdue)
  PROVE  TableInv'
<1>1. ASSUME NEW u \in Tickets
      PROVE  /\ runtime'[u] \in Runtime /\ WellShaped(runtime'[u]) /\ Complete(runtime'[u])
             /\ runtime'[u].request = runtime[u].request
             /\ runtime'[u].binding = "released" <=> runtime[u].binding = "released"
  <2> DEFINE now == runtime[u]
             new == [now EXCEPT !.binding = "fallback"]
  <2>0. now \in Runtime /\ WellShaped(now) /\ Complete(now)
    BY DEF TableInv, TableTypeOK, BindingShape, ActiveIsComplete
  <2>1. CASE u \in overdue
    <3>1. runtime'[u] = new /\ now.binding \notin Terminal \cup {"absent"}
      BY <2>1 DEF Expire, Live
    <3>2. new \in Runtime /\ WellShaped(new) /\ Complete(new)
      BY <2>0, <3>1, TableAssumption, StateNames
      DEF Runtime, WellShaped, Complete, Terminal
    <3> QED
      BY <2>0, <3>1, <3>2 DEF Runtime, Terminal
  <2>2. CASE u \notin overdue
    BY <2>0, <2>2 DEF Expire
  <2> QED
    BY <2>1, <2>2
<1>2. TableTypeOK'
  BY <1>1 DEF Expire, TableInv, TableTypeOK
<1>3. IndexMatchesBindings'
  BY <1>1 DEF Expire, TableInv, IndexMatchesBindings
<1> QED
  BY <1>1, <1>2, <1>3 DEF TableInv, BindingShape, ActiveIsComplete

\* TableInv is inductive: one case per method, and the stuttering step.
LEMMA StepInv == TableInv /\ [TableNext]_tableVars => TableInv'
<1> SUFFICES ASSUME TableInv, [TableNext]_tableVars PROVE TableInv'
  OBVIOUS
<1>1. ASSUME NEW t \in Tickets, TableStep(t) PROVE TableInv'
  BY <1>1, StoringStepInv, BindInv, ReleaseInv DEF TableStep
<1>2. ASSUME NEW overdue \in SUBSET Tickets, Expire(overdue) PROVE TableInv'
  BY <1>2, ExpireInv
<1>3. CASE UNCHANGED tableVars
  BY <1>3 DEF tableVars, TableInv, TableTypeOK, IndexMatchesBindings,
     BindingShape, ActiveIsComplete
<1> QED
  BY <1>1, <1>2, <1>3 DEF TableNext

\* Every state the runtime table reaches has the full invariant: typed states, the
\* request index in step with the bindings, complete active tickets, shaped states.
THEOREM TableInvariant == TableSpec => []TableInv
<1>1. TableInit => TableInv
  BY InitInv
<1>2. TableInv /\ [TableNext]_tableVars => TableInv'
  BY StepInv
<1> QED
  BY <1>1, <1>2, PTL DEF TableSpec

\* Type correctness of the runtime table (RuntimeReuseState and the request index).
THEOREM TableTyped == TableSpec => []TableTypeOK
<1>1. TableInv => TableTypeOK
  BY DEF TableInv
<1> QED
  BY <1>1, TableInvariant, PTL

\* bind_request, fallback, expire and release keep the request index and the
\* tickets' request_id in agreement, for any number of tickets and requests.
THEOREM IndexAgrees == TableSpec => []IndexMatchesBindings
<1>1. TableInv => IndexMatchesBindings
  BY DEF TableInv
<1> QED
  BY <1>1, TableInvariant, PTL

\* No interleaving of the methods activates a ticket without its host copy and its
\* request, or corrects a layer that was not loaded.
THEOREM ActiveComplete == TableSpec => []ActiveIsComplete
<1>1. TableInv => ActiveIsComplete
  BY DEF TableInv
<1> QED
  BY <1>1, TableInvariant, PTL

\* What TerminalFrozen asks of one ticket over one step.
Frozen(t) ==
  runtime[t].binding \in Terminal =>
    /\ runtime'[t].binding \in {runtime[t].binding, "released"}
    /\ runtime'[t] = [runtime[t] EXCEPT !.binding = runtime'[t].binding]

\* Keeping the whole state of a ticket freezes it.
LEMMA SameIsFrozen ==
  ASSUME TableTypeOK, NEW t \in Tickets, runtime'[t] = runtime[t]
  PROVE  Frozen(t)
<1>1. runtime[t] \in Runtime
  BY DEF TableTypeOK
<1>2. runtime[t] = [runtime[t] EXCEPT !.binding = runtime[t].binding]
  BY <1>1 DEF Runtime
<1> QED
  BY <1>2 DEF Frozen

\* Only release stores into a terminal ticket; every other method's guard fails.
LEMMA StepFrozen ==
  ASSUME TableTypeOK, NEW t \in Tickets, NEW u \in Tickets, TableStep(u)
  PROVE  Frozen(t)
<1>1. CASE u # t
  <2>1. PICK s : Store(u, s)
    BY DEF TableStep, CreateTicket, StartHostLoad, MarkHostReady, MarkHostFailed,
       MarkObservation, BindRequest, SetReusePlan, Activate, MarkLayerLoaded,
       MarkLayerCorrected, Fallback, Release
  <2>2. runtime'[t] = runtime[t]
    BY <1>1, <2>1 DEF Store, TableTypeOK
  <2> QED
    BY <2>2, SameIsFrozen
<1>2. CASE u = t /\ Release(t)
  <2>1. runtime[t] \in Runtime
    BY DEF TableTypeOK
  <2>2. runtime'[t] = [runtime[t] EXCEPT !.binding = "released"]
    BY <1>2 DEF Release, Store, TableTypeOK
  <2>3. runtime'[t].binding = "released"
    BY <2>1, <2>2 DEF Runtime
  <2> QED
    BY <2>2, <2>3 DEF Frozen
<1>3. CASE u = t /\ ~Release(t)
  <2>1. runtime[t].binding \notin Terminal
    BY <1>3 DEF TableStep, CreateTicket, Known, StartHostLoad, StartHostLoadOK,
       MarkHostReady, MarkHostReadyOK, MarkHostFailed, MarkHostFailedOK, Live,
       MarkObservation, MarkObservationOK, BindRequest, BindRequestOK, SetReusePlan,
       SetReusePlanOK, Activate, ActivateOK, MarkLayerLoaded, MarkLayerLoadedOK,
       MarkLayerCorrected, MarkLayerCorrectedOK, Fallback, FallbackOK, Terminal
  <2> QED
    BY <2>1 DEF Frozen
<1> QED
  BY <1>1, <1>2, <1>3

LEMMA NextFrozen ==
  ASSUME TableInv, [TableNext]_tableVars, NEW t \in Tickets
  PROVE  Frozen(t)
<1>0. TableTypeOK
  BY DEF TableInv
<1>1. CASE \E u \in Tickets : TableStep(u)
  BY <1>0, <1>1, StepFrozen
<1>2. CASE \E overdue \in SUBSET Tickets : Expire(overdue)
  <2>1. runtime[t].binding \in Terminal => runtime'[t] = runtime[t]
    BY <1>2 DEF Expire, Live
  <2> QED
    BY <1>0, <2>1, SameIsFrozen DEF Frozen
<1>3. CASE UNCHANGED tableVars
  BY <1>0, <1>3, SameIsFrozen DEF tableVars
<1> QED
  BY <1>1, <1>2, <1>3 DEF TableNext

\* A ticket that fell back or was released never changes again, but for its
\* release: no late completion, bind, plan or progress call reaches it.
THEOREM EndedTicketsFrozen == TableSpec => TerminalFrozen
<1>1. TableInv /\ [TableNext]_tableVars => [\A t \in Tickets : Frozen(t)]_tableVars
  BY NextFrozen
<1> QED
  BY <1>1, TableInvariant, PTL DEF TableSpec, TerminalFrozen, Frozen

------------------------------------------------------------------------------
(* The table implements the lifecycle, which only sees the binding, the    *)
(* host state and the request of a ticket.                                 *)

phaseBar == [t \in Tickets |-> PhaseOf(runtime[t].binding)]
filledBar == [t \in Tickets |-> FilledOf(runtime[t].host)]
claimBar == [t \in Tickets |-> runtime[t].request]

\* A stored state shows at its own ticket and nowhere else.
LEMMA StoreShows ==
  ASSUME TableInv, NEW t \in Tickets, NEW s, Store(t, s)
  PROVE  /\ phaseBar' = [phaseBar EXCEPT ![t] = PhaseOf(s.binding)]
         /\ filledBar' = [filledBar EXCEPT ![t] = FilledOf(s.host)]
         /\ claimBar' = [claimBar EXCEPT ![t] = s.request]
BY DEF TableInv, TableTypeOK, Store, phaseBar, filledBar, claimBar

\* The lifecycle's names for the states are as distinct as the table's.
LEMMA Names ==
  /\ PhaseOf("absent") = "absent" /\ PhaseOf("unbound") = "issued"
  /\ PhaseOf("observed") = "issued" /\ PhaseOf("verified") = "issued"
  /\ PhaseOf("active") = "engaged" /\ PhaseOf("fallback") = "ended"
  /\ PhaseOf("released") = "retired"
  /\ FilledOf("not_started") = "none" /\ FilledOf("loading") = "busy"
  /\ FilledOf("ready") = "full" /\ FilledOf("failed") = "broken"
BY DEF PhaseOf, FilledOf

LEMMA InitMaps == TableInit => Lifecycle!LifecycleInit
BY Names DEF TableInit, Unissued, Fresh, Lifecycle!LifecycleInit

\* A field of the three that the stored state keeps is unchanged in the lifecycle.
LEMMA KeepsShown ==
  ASSUME TableInv, NEW t \in Tickets, NEW s, Store(t, s)
  PROVE  /\ PhaseOf(s.binding) = PhaseOf(runtime[t].binding) => phaseBar' = phaseBar
         /\ s.host = runtime[t].host => filledBar' = filledBar
         /\ s.request = runtime[t].request => claimBar' = claimBar
<1>1. /\ phaseBar = [phaseBar EXCEPT ![t] = phaseBar[t]]
      /\ filledBar = [filledBar EXCEPT ![t] = filledBar[t]]
      /\ claimBar = [claimBar EXCEPT ![t] = claimBar[t]]
  BY DEF phaseBar, filledBar, claimBar
<1>2. /\ PhaseOf(runtime[t].binding) = phaseBar[t]
      /\ FilledOf(runtime[t].host) = filledBar[t]
      /\ runtime[t].request = claimBar[t]
  BY DEF phaseBar, filledBar, claimBar
<1> QED
  BY <1>1, <1>2, StoreShows

LEMMA Invisible ==
  ASSUME TableInv, NEW t \in Tickets, NEW s, Store(t, s),
         PhaseOf(s.binding) = PhaseOf(runtime[t].binding),
         s.host = runtime[t].host, s.request = runtime[t].request
  PROVE  UNCHANGED Lifecycle!lifecycleVars
<1>1. phaseBar' = phaseBar /\ filledBar' = filledBar /\ claimBar' = claimBar
  BY KeepsShown
<1> QED
  BY <1>1 DEF phaseBar, filledBar, claimBar, Lifecycle!lifecycleVars

LEMMA CreateMaps ==
  ASSUME TableInv, NEW t \in Tickets, NEW o \in Objects, CreateTicket(t, o)
  PROVE Lifecycle!Issue(t)
<1>1. runtime[t] = Unissued
  BY DEF CreateTicket, Known, TableInv, BindingShape, WellShaped
<1>2. Store(t, Fresh(o, "unbound"))
  BY DEF CreateTicket
<1>3. /\ phaseBar' = [phaseBar EXCEPT ![t] = "issued"]
      /\ filledBar' = [filledBar EXCEPT ![t] = "none"]
      /\ claimBar' = [claimBar EXCEPT ![t] = NoRequest]
  BY <1>2, StoreShows, Names DEF Fresh
<1>4. phaseBar[t] = "absent" /\ filledBar[t] = "none" /\ claimBar[t] = NoRequest
  BY <1>1, Names DEF phaseBar, filledBar, claimBar, Unissued, Fresh
<1>5. filledBar' = filledBar /\ claimBar' = claimBar
  BY <1>3, <1>4 DEF filledBar, claimBar
<1> QED
  BY <1>3, <1>4, <1>5 DEF phaseBar, filledBar, claimBar, Lifecycle!Issue

\* A live ticket is an open one of the lifecycle.
LEMMA LiveIsOpen ==
  ASSUME TableInv, NEW t \in Tickets, Live(t)
  PROVE  phaseBar[t] \in {"issued", "engaged"}
<1>1. runtime[t].binding \in {"unbound", "observed", "verified", "active"}
  BY DEF TableInv, TableTypeOK, Runtime, Live, Terminal, BindingStates
<1> QED
  BY <1>1, Names DEF phaseBar

\* The host load: one start, then one completion or one failure.
LEMMA LoadMaps ==
  ASSUME TableInv, NEW t \in Tickets
  PROVE  /\ StartHostLoad(t) => Lifecycle!Fill(t)
         /\ MarkHostReady(t) => Lifecycle!Fill(t)
         /\ MarkHostFailed(t) => Lifecycle!Break(t)
<1>1. ASSUME StartHostLoad(t) PROVE Lifecycle!Fill(t)
  <2>1. phaseBar[t] \in {"issued", "engaged"} /\ filledBar[t] = "none"
    BY <1>1, LiveIsOpen, Names DEF StartHostLoad, StartHostLoadOK, filledBar
  <2>2. /\ filledBar' = [filledBar EXCEPT ![t] = "busy"]
        /\ phaseBar' = phaseBar /\ claimBar' = claimBar
    <3> DEFINE s == [runtime[t] EXCEPT !.host = "loading"]
    <3>1. s.binding = runtime[t].binding /\ s.host = "loading" /\ s.request = runtime[t].request
      BY DEF TableInv, TableTypeOK, Runtime
    <3>2. Store(t, s)
      BY <1>1 DEF StartHostLoad
    <3> HIDE DEF s
    <3> QED
      BY <3>1, <3>2, StoreShows, KeepsShown, Names
  <2> QED
    BY <2>1, <2>2 DEF phaseBar, filledBar, claimBar, Lifecycle!Fill, Lifecycle!Open
<1>2. ASSUME MarkHostReady(t) PROVE Lifecycle!Fill(t)
  <2>1. phaseBar[t] \in {"issued", "engaged"} /\ filledBar[t] = "busy"
    BY <1>2, LiveIsOpen, Names DEF MarkHostReady, MarkHostReadyOK, filledBar
  <2>2. /\ filledBar' = [filledBar EXCEPT ![t] = "full"]
        /\ phaseBar' = phaseBar /\ claimBar' = claimBar
    <3> DEFINE s == [runtime[t] EXCEPT !.host = "ready"]
    <3>1. s.binding = runtime[t].binding /\ s.host = "ready" /\ s.request = runtime[t].request
      BY DEF TableInv, TableTypeOK, Runtime
    <3>2. Store(t, s)
      BY <1>2 DEF MarkHostReady
    <3> HIDE DEF s
    <3> QED
      BY <3>1, <3>2, StoreShows, KeepsShown, Names
  <2> QED
    BY <2>1, <2>2 DEF phaseBar, filledBar, claimBar, Lifecycle!Fill, Lifecycle!Open
<1>3. ASSUME MarkHostFailed(t) PROVE Lifecycle!Break(t)
  <2>1. phaseBar[t] \in {"issued", "engaged"} /\ filledBar[t] \in {"none", "busy"}
    BY <1>3, LiveIsOpen, Names DEF MarkHostFailed, MarkHostFailedOK, filledBar
  <2>2. /\ filledBar' = [filledBar EXCEPT ![t] = "broken"]
        /\ phaseBar' = [phaseBar EXCEPT ![t] = "ended"]
        /\ claimBar' = claimBar
    <3> DEFINE s == [runtime[t] EXCEPT !.host = "failed", !.binding = "fallback"]
    <3>1. s.binding = "fallback" /\ s.host = "failed" /\ s.request = runtime[t].request
      BY DEF TableInv, TableTypeOK, Runtime
    <3>2. Store(t, s)
      BY <1>3 DEF MarkHostFailed
    <3> HIDE DEF s
    <3> QED
      BY <3>1, <3>2, StoreShows, KeepsShown, Names
  <2> QED
    BY <2>1, <2>2 DEF phaseBar, filledBar, claimBar, Lifecycle!Break, Lifecycle!Open
<1> QED
  BY <1>1, <1>2, <1>3

\* bind_request looks the request up in the index; that no unreleased ticket
\* holds it follows from the index agreeing with the bindings.
LEMMA BindMaps ==
  ASSUME TableInv, NEW t \in Tickets, NEW r \in Requests, BindRequest(t, r)
  PROVE  Lifecycle!Claim(t, r)
<1>1. /\ runtime[t].binding = "observed" /\ runtime[t].request = NoRequest
      /\ ticketByRequest[r] = NoTicket
  BY DEF BindRequest, BindRequestOK, TableInv, BindingShape, WellShaped
<1>2. phaseBar[t] = "issued" /\ claimBar[t] = NoRequest
  BY <1>1, Names DEF phaseBar, claimBar
<1>3. ASSUME NEW u \in Tickets, runtime[u].request = r, phaseBar[u] # "retired"
      PROVE  FALSE
  <2>1. runtime[u].binding # "released"
    BY <1>3, Names DEF phaseBar
  <2> QED
    BY <1>1, <1>3, <2>1, TableAssumption DEF TableInv, IndexMatchesBindings
<1>4. /\ claimBar' = [claimBar EXCEPT ![t] = r]
      /\ phaseBar' = [phaseBar EXCEPT ![t] = "issued"]
      /\ filledBar' = filledBar
  <2> DEFINE s == [runtime[t] EXCEPT !.request = r, !.binding = "verified"]
  <2>1. s.binding = "verified" /\ s.host = runtime[t].host /\ s.request = r
    BY DEF TableInv, TableTypeOK, Runtime
  <2>2. Store(t, s)
    BY DEF BindRequest
  <2> HIDE DEF s
  <2> QED
    BY <2>1, <2>2, StoreShows, KeepsShown, Names
<1>5. phaseBar' = phaseBar
  BY <1>2, <1>4 DEF phaseBar
<1> QED
  BY <1>2, <1>3, <1>4, <1>5
  DEF phaseBar, filledBar, claimBar, Lifecycle!Claim, Lifecycle!Held

LEMMA ActivateMaps ==
  ASSUME TableInv, NEW t \in Tickets, Activate(t)
  PROVE  Lifecycle!Engage(t)
<1>1. /\ runtime[t].binding = "verified" /\ runtime[t].host = "ready"
      /\ runtime[t].request # NoRequest
  BY DEF Activate, ActivateOK, TableInv, BindingShape, WellShaped
<1>2. phaseBar[t] = "issued" /\ filledBar[t] = "full" /\ claimBar[t] # NoRequest
  BY <1>1, Names DEF phaseBar, filledBar, claimBar
<1>3. /\ phaseBar' = [phaseBar EXCEPT ![t] = "engaged"]
      /\ filledBar' = filledBar /\ claimBar' = claimBar
  <2> DEFINE s == [runtime[t] EXCEPT !.binding = "active"]
  <2>1. s.binding = "active" /\ s.host = runtime[t].host /\ s.request = runtime[t].request
    BY DEF TableInv, TableTypeOK, Runtime
  <2>2. Store(t, s)
    BY DEF Activate
  <2> HIDE DEF s
  <2> QED
    BY <2>1, <2>2, StoreShows, KeepsShown, Names
<1> QED
  BY <1>2, <1>3 DEF phaseBar, filledBar, claimBar, Lifecycle!Engage

\* fallback ends one ticket, the deadline sweep a set of them.
LEMMA EndMaps ==
  ASSUME TableInv, NEW S \in SUBSET Tickets, \A t \in S : Live(t),
         \A t \in Tickets : runtime'[t] =
           IF t \in S THEN [runtime[t] EXCEPT !.binding = "fallback"] ELSE runtime[t]
  PROVE  Lifecycle!End(S)
<1>1. \A t \in S : phaseBar[t] \in {"issued", "engaged"}
  BY LiveIsOpen
<1>2. ASSUME NEW t \in Tickets
      PROVE  /\ runtime'[t].binding = IF t \in S THEN "fallback" ELSE runtime[t].binding
             /\ runtime'[t].host = runtime[t].host
             /\ runtime'[t].request = runtime[t].request
  <2>1. runtime[t] \in Runtime
    BY DEF TableInv, TableTypeOK
  <2>2. runtime'[t] = IF t \in S THEN [runtime[t] EXCEPT !.binding = "fallback"] ELSE runtime[t]
    OBVIOUS
  <2>3. CASE t \in S
    <3>1. runtime'[t] = [runtime[t] EXCEPT !.binding = "fallback"]
      BY <2>2, <2>3
    <3> QED
      BY <2>1, <2>3, <3>1 DEF Runtime
  <2>4. CASE t \notin S
    BY <2>2, <2>4
  <2> QED
    BY <2>3, <2>4
<1>3. /\ phaseBar' = [t \in Tickets |-> IF t \in S THEN "ended" ELSE phaseBar[t]]
      /\ filledBar' = filledBar /\ claimBar' = claimBar
  BY <1>2, Names DEF phaseBar, filledBar, claimBar
<1> QED
  BY <1>1, <1>3 DEF phaseBar, filledBar, claimBar, Lifecycle!End, Lifecycle!Open

\* The first release retires the ticket; a repeated one changes nothing.
LEMMA ReleaseMaps ==
  ASSUME TableInv, NEW t \in Tickets, Release(t)
  PROVE  Lifecycle!Retire(t) \/ UNCHANGED Lifecycle!lifecycleVars
<1>1. Store(t, [runtime[t] EXCEPT !.binding = "released"])
  BY DEF Release
<1>2. /\ phaseBar' = [phaseBar EXCEPT ![t] = "retired"]
      /\ filledBar' = filledBar /\ claimBar' = claimBar
  <2> DEFINE s == [runtime[t] EXCEPT !.binding = "released"]
  <2>1. s.binding = "released" /\ s.host = runtime[t].host /\ s.request = runtime[t].request
    BY DEF TableInv, TableTypeOK, Runtime
  <2>2. Store(t, s)
    BY <1>1
  <2> HIDE DEF s
  <2> QED
    BY <2>1, <2>2, StoreShows, KeepsShown, Names
<1>3. CASE runtime[t].binding = "released"
  <2>1. phaseBar[t] = "retired"
    BY <1>3, Names DEF phaseBar
  <2>2. phaseBar' = phaseBar
    BY <1>2, <2>1 DEF phaseBar
  <2> QED
    BY <1>2, <2>2 DEF phaseBar, filledBar, claimBar, Lifecycle!lifecycleVars
<1>4. CASE runtime[t].binding # "released"
  <2>1. runtime[t].binding \in {"unbound", "observed", "verified", "active", "fallback"}
    BY <1>4 DEF Release, Known, TableInv, TableTypeOK, Runtime, BindingStates
  <2>2. phaseBar[t] \in {"issued", "engaged", "ended"}
    BY <2>1, Names DEF phaseBar
  <2> QED
    BY <1>2, <2>2 DEF phaseBar, filledBar, claimBar, Lifecycle!Retire
<1> QED
  BY <1>3, <1>4

\* Observation, planning and layer progress are the table's own business.
LEMMA InvisibleSteps ==
  ASSUME TableInv, NEW t \in Tickets,
         \/ MarkObservation(t)
         \/ \E r \in Requests, p \in Plans : SetReusePlan(t, r, p)
         \/ \E l \in 0 .. Layers - 1 : MarkLayerLoaded(t, l) \/ MarkLayerCorrected(t, l)
  PROVE  UNCHANGED Lifecycle!lifecycleVars
<1> DEFINE now == runtime[t]
<1>0. now \in Runtime
  BY DEF TableInv, TableTypeOK
<1>1. ASSUME MarkObservation(t) PROVE UNCHANGED Lifecycle!lifecycleVars
  <2> DEFINE s == [now EXCEPT !.binding = "observed"]
  <2>1. /\ PhaseOf(s.binding) = PhaseOf(now.binding)
        /\ s.host = now.host /\ s.request = now.request
    BY <1>0, <1>1, Names DEF Runtime, MarkObservation, MarkObservationOK
  <2>2. Store(t, s)
    BY <1>1 DEF MarkObservation
  <2> HIDE DEF s
  <2> QED
    BY <2>1, <2>2, Invisible
<1>2. ASSUME NEW r \in Requests, NEW p \in Plans, SetReusePlan(t, r, p)
      PROVE  UNCHANGED Lifecycle!lifecycleVars
  <2> DEFINE s == [now EXCEPT !.plan = p]
  <2>1. /\ PhaseOf(s.binding) = PhaseOf(now.binding)
        /\ s.host = now.host /\ s.request = now.request
    BY <1>0 DEF Runtime
  <2>2. Store(t, s)
    BY <1>2 DEF SetReusePlan
  <2> HIDE DEF s
  <2> QED
    BY <2>1, <2>2, Invisible
<1>3. ASSUME NEW l \in 0 .. Layers - 1, MarkLayerLoaded(t, l)
      PROVE  UNCHANGED Lifecycle!lifecycleVars
  <2> DEFINE s == [now EXCEPT !.loaded = l]
  <2>1. /\ PhaseOf(s.binding) = PhaseOf(now.binding)
        /\ s.host = now.host /\ s.request = now.request
    BY <1>0 DEF Runtime
  <2>2. Store(t, s)
    BY <1>3 DEF MarkLayerLoaded
  <2> HIDE DEF s
  <2> QED
    BY <2>1, <2>2, Invisible
<1>4. ASSUME NEW l \in 0 .. Layers - 1, MarkLayerCorrected(t, l)
      PROVE  UNCHANGED Lifecycle!lifecycleVars
  <2> DEFINE s == [now EXCEPT !.corrected = l]
  <2>1. /\ PhaseOf(s.binding) = PhaseOf(now.binding)
        /\ s.host = now.host /\ s.request = now.request
    BY <1>0 DEF Runtime
  <2>2. Store(t, s)
    BY <1>4 DEF MarkLayerCorrected
  <2> HIDE DEF s
  <2> QED
    BY <2>1, <2>2, Invisible
<1> QED
  BY <1>1, <1>2, <1>3, <1>4

LEMMA StepMaps ==
  TableInv /\ [TableNext]_tableVars => [Lifecycle!LifecycleNext]_(Lifecycle!lifecycleVars)
<1> SUFFICES ASSUME TableInv, [TableNext]_tableVars
             PROVE  Lifecycle!LifecycleNext \/ UNCHANGED Lifecycle!lifecycleVars
  OBVIOUS
<1>1. ASSUME NEW t \in Tickets, TableStep(t)
      PROVE  Lifecycle!LifecycleNext \/ UNCHANGED Lifecycle!lifecycleVars
  <2>1. CASE \E o \in Objects : CreateTicket(t, o)
    BY <2>1, CreateMaps DEF Lifecycle!LifecycleNext
  <2>2. CASE StartHostLoad(t) \/ MarkHostReady(t) \/ MarkHostFailed(t)
    BY <2>2, LoadMaps DEF Lifecycle!LifecycleNext
  <2>3. CASE \E r \in Requests : BindRequest(t, r)
    BY <2>3, BindMaps DEF Lifecycle!LifecycleNext
  <2>4. CASE Activate(t)
    BY <2>4, ActivateMaps DEF Lifecycle!LifecycleNext
  <2>5. CASE Fallback(t)
    <3>1. \A u \in Tickets : runtime'[u] =
            IF u \in {t} THEN [runtime[u] EXCEPT !.binding = "fallback"] ELSE runtime[u]
      BY <2>5 DEF Fallback, Store, TableInv, TableTypeOK
    <3>2. Live(t)
      BY <2>5 DEF Fallback, FallbackOK
    <3> DEFINE S == {t}
    <3>3. S \in SUBSET Tickets
      OBVIOUS
    <3>4. Lifecycle!End(S)
      BY <3>1, <3>2, <3>3, EndMaps
    <3> QED
      BY <3>3, <3>4 DEF Lifecycle!LifecycleNext
  <2>6. CASE Release(t)
    BY <2>6, ReleaseMaps DEF Lifecycle!LifecycleNext
  <2>7. CASE \/ MarkObservation(t)
             \/ \E r \in Requests, p \in Plans : SetReusePlan(t, r, p)
             \/ \E l \in 0 .. Layers - 1 : MarkLayerLoaded(t, l) \/ MarkLayerCorrected(t, l)
    BY <2>7, InvisibleSteps
  <2> QED
    BY <1>1, <2>1, <2>2, <2>3, <2>4, <2>5, <2>6, <2>7 DEF TableStep
<1>2. ASSUME NEW overdue \in SUBSET Tickets, Expire(overdue)
      PROVE  Lifecycle!LifecycleNext
  <2>1. Lifecycle!End(overdue)
    BY <1>2, EndMaps DEF Expire
  <2> QED
    BY <2>1 DEF Lifecycle!LifecycleNext
<1>3. CASE UNCHANGED tableVars
  BY <1>3 DEF tableVars, Lifecycle!lifecycleVars
<1> QED
  BY <1>1, <1>2, <1>3 DEF TableNext

\* For any number of tickets, requests, plans and layers, the methods of the
\* runtime table in any order are a behaviour of the ticket lifecycle.
THEOREM TableImplementsLifecycle == TableSpec => ImplementsLifecycle
<1>1. TableInit => Lifecycle!LifecycleInit
  BY InitMaps
<1>2. TableInv /\ [TableNext]_tableVars
        => [Lifecycle!LifecycleNext]_(Lifecycle!lifecycleVars)
  BY StepMaps
<1> QED
  BY <1>1, <1>2, TableInvariant, PTL
  DEF TableSpec, ImplementsLifecycle, Lifecycle!LifecycleSpec

==============================================================================
