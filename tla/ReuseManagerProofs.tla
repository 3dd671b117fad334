-------------------------- MODULE ReuseManagerProofs --------------------------
(***************************************************************************)
(* The manager of ReuseManager uses the runtime table through its methods  *)
(* only, for any number of tickets, requests, objects, layers and executor *)
(* threads, with or without deadlines, retention and shutdown.  So what    *)
(* TicketTableProofs shows of the table alone holds of the whole.          *)
(*                                                                         *)
(* The invariant carries the table's own and, beside the types, what the   *)
(* steps of a method rely on: a method under way has a name, one made for  *)
(* a request has it, close() in the middle of a cancellation has its       *)
(* ticket, and a copy in flight is of one of the Layers layers.            *)
(***************************************************************************)
EXTENDS ReuseManager, TicketTableProofs

HostTyped ==
  /\ load \in [Tickets -> [present : BOOLEAN, group : Tickets \cup {NoTicket},
                           hit : BOOLEAN]]
  /\ io \in [Tickets -> IOStates]
  /\ pool \in [Tickets -> PoolStates]
  /\ resident \in Tickets \cup {NoTicket}
  /\ storageClosed \in BOOLEAN
  /\ closer \in [pc : {"idle", "entered", "cancelling", "detached", "done"},
                 todo : SUBSET Tickets, ticket : Tickets \cup {NoTicket},
                 group : Tickets \cup {NoTicket}, live : BOOLEAN]
  /\ closer.pc = "detached" => closer.ticket \in Tickets

OpTyped ==
  /\ op \in [call : Calls \cup {"none"}, ticket : Tickets \cup {NoTicket},
             request : Requests \cup {NoRequest}, sweep : SUBSET Tickets,
             step : Steps \cup {"idle"}]
  /\ op.step # "idle" => op.call \in Calls
  /\ op.call \in RequestCalls => op.request \in Requests

WorkTyped ==
  /\ rmClosed \in BOOLEAN
  /\ work \in [Tickets -> [lease : {"none", "scheduler", "worker", "failed", "ended"},
                           group : Tickets \cup {NoTicket}, landed : 0 .. Layers]]
  /\ \A t \in Tickets : work[t].group # NoTicket => work[t].landed < Layers

ReuseInv == TableInv /\ HostTyped /\ OpTyped /\ WorkTyped

------------------------------------------------------------------------------
(* Every step is a method of the table or leaves it alone.                 *)

CallsTable(t) == TableStep(t) \/ UNCHANGED tableVars

LEMMA EndingsCallTable ==
  ASSUME NEW t \in Tickets
  PROVE  /\ CancelTicket(t) => CallsTable(t)
         /\ ReleaseTicket(t) => CallsTable(t)
         /\ load[t].present /\ CancelHostLoad(t) => CallsTable(t)
BY DEF CancelTicket, ReleaseTicket, CancelHostLoad, ReleaseHostLoad,
   CallsTable, TableStep, tableVars

LEMMA IOCallsTable ==
  ASSUME NEW t \in Tickets, IOStep(t)
  PROVE  CallsTable(t)
BY DEF IOStep, ReadStarts, ReadSucceeds, ReadFails, CompleteLoad, CompleteDetached,
   CompleteBroken, CompleteRead, CallsTable, TableStep, tableVars

LEMMA CloserCallsTable ==
  ASSUME HostTyped, CloserStep
  PROVE  [TableNext]_tableVars
<1>1. CASE CloseStorage
  BY <1>1 DEF CloseStorage, tableVars
<1>2. ASSUME NEW t \in Tickets, CloseDetaches(t) \/ CloseSkips(t)
      PROVE  UNCHANGED tableVars
  BY <1>2 DEF CloseDetaches, CloseSkips, tableVars
<1>3. CASE CloseEnds
  <2>1. closer.ticket \in Tickets
    BY <1>3 DEF CloseEnds, HostTyped
  <2>2. CallsTable(closer.ticket)
    BY <1>3, <2>1 DEF CloseEnds, CallsTable, TableStep, tableVars
  <2> QED
    BY <2>1, <2>2 DEF CallsTable, TableNext
<1>4. CASE CloseCollects
  BY <1>4 DEF CloseCollects, Collect, tableVars
<1> QED
  BY <1>1, <1>2, <1>3, <1>4 DEF CloserStep, CloseStep

LEMMA OpCallsTable ==
  ASSUME OpTyped, NEW t \in Tickets, OpStep(t)
  PROVE  CallsTable(t)
<1>1. CASE Sweep(t)
  BY <1>1, EndingsCallTable DEF Sweep, CallsTable
<1>2. CASE Abort(t)
  BY <1>2, EndingsCallTable DEF Abort
<1>3. CASE SelectCreates(t)
  BY <1>3 DEF SelectCreates, CallsTable, TableStep
<1>4. CASE SelectSubmits(t)
  BY <1>4 DEF SelectSubmits, SubmitHit, SubmitMiss, SubmitRefused, CallsTable, TableStep
<1>5. CASE SelectFinishes(t)
  BY <1>5 DEF SelectFinishes, SubmitHitReady, Enqueue, EnqueueFails, CallsTable,
     TableStep, tableVars
<1>6. CASE InspectCommits(t)
  BY <1>6 DEF InspectCommits, CallsTable, TableStep
<1>7. CASE AuthenticateCommits(t)
  <2>1. op.request \in Requests
    BY <1>7 DEF AuthenticateCommits, At, OpTyped, RequestCalls
  <2> QED
    BY <1>7, <2>1 DEF AuthenticateCommits, CallsTable, TableStep
<1>8. CASE PrepareCommits(t)
  <2>1. op.request \in Requests
    BY <1>8 DEF PrepareCommits, At, OpTyped, RequestCalls
  <2> QED
    BY <1>8, <2>1 DEF PrepareCommits, CallsTable, TableStep
<1>9. CASE ActivateCommits(t)
  BY <1>9 DEF ActivateCommits, CallsTable, TableStep
<1> QED
  BY <1>1, <1>2, <1>3, <1>4, <1>5, <1>6, <1>7, <1>8, <1>9 DEF OpStep

LEMMA WorkerCallsTable ==
  ASSUME TableTypeOK, NEW t \in Tickets, WorkerStep(t)
  PROVE  CallsTable(t)
<1>1. CASE FetchLayer(t) \/ LayerLands(t) \/ WorkerFails(t)
  BY <1>1 DEF FetchLayer, LayerLands, WorkerFails, CallsTable, tableVars
<1>2. CASE MarkProgress(t)
  <2>1. /\ MarkLayerLoaded(t, runtime[t].loaded + 1)
              => runtime[t].loaded + 1 \in 0 .. Layers - 1
        /\ MarkLayerCorrected(t, runtime[t].corrected + 1)
              => runtime[t].corrected + 1 \in 0 .. Layers - 1
    BY TableAssumption DEF TableTypeOK, Runtime, MarkLayerLoaded, MarkLayerLoadedOK,
       MarkLayerCorrected, MarkLayerCorrectedOK
  <2> QED
    BY <1>2, <2>1 DEF MarkProgress, CallsTable, TableStep
<1>3. CASE WorkerSucceeds(t)
  BY <1>3, EndingsCallTable DEF WorkerSucceeds
<1>4. CASE WorkerCancels(t)
  BY <1>4, EndingsCallTable DEF WorkerCancels
<1> QED
  BY <1>1, <1>2, <1>3, <1>4 DEF WorkerStep

LEMMA CallCallsTable ==
  ASSUME NEW t \in Tickets, CallStep(t)
  PROVE  [TableNext]_tableVars
<1>1. ASSUME NEW call \in Calls, NEW r \in Requests \cup {NoRequest}, Begin(call, t, r)
      PROVE  TableNext
  <2>1. PICK overdue \in SUBSET {u \in Tickets : Expiring /\ Live(u)} : Expire(overdue)
    BY <1>1 DEF Begin
  <2>2. overdue \in SUBSET Tickets
    OBVIOUS
  <2> QED
    BY <2>1, <2>2 DEF TableNext
<1>2. CASE Cancel(t)
  BY <1>2, EndingsCallTable DEF Cancel, CallsTable, TableNext
<1>3. CASE ReleaseCall(t)
  BY <1>3, EndingsCallTable DEF ReleaseCall, CallsTable, TableNext
<1>4. CASE Handoff(t)
  BY <1>4 DEF Handoff, tableVars
<1> QED
  BY <1>1, <1>2, <1>3, <1>4 DEF CallStep

LEMMA StepCallsTable ==
  ASSUME ReuseInv, [Next]_vars
  PROVE  [TableNext]_tableVars
<1>0. TableTypeOK /\ HostTyped /\ OpTyped
  BY DEF ReuseInv, TableInv
<1>1. ASSUME NEW t \in Tickets, CallStep(t) \/ OpStep(t) \/ WorkerStep(t) \/ IOStep(t)
      PROVE  [TableNext]_tableVars
  BY <1>0, <1>1, CallCallsTable, OpCallsTable, WorkerCallsTable, IOCallsTable
  DEF CallsTable, TableNext
<1>2. CASE Decide
  BY <1>2 DEF Decide, tableVars
<1>3. CASE CloseManager
  BY <1>3 DEF CloseManager, tableVars
<1>4. CASE CloserStep
  BY <1>0, <1>4, CloserCallsTable
<1>5. CASE UNCHANGED vars
  BY <1>5 DEF vars, tableVars
<1> QED
  BY <1>1, <1>2, <1>3, <1>4, <1>5 DEF Next

------------------------------------------------------------------------------
(* Types of the host loads.                                                *)

\* What a load is, a record of _loads_by_ticket or its absence.
Loads == [present : BOOLEAN, group : Tickets \cup {NoTicket}, hit : BOOLEAN]

LEMMA LoadPieces ==
  ASSUME HostTyped, NEW t \in Tickets
  PROVE  /\ NoLoad \in Loads
         /\ \A g \in Tickets \cup {NoTicket}, b \in BOOLEAN : LoadOf(g, b) \in Loads
         /\ Detach(t) => load' \in [Tickets -> Loads]
         /\ \A S : Returned(S) => pool' \in [Tickets -> PoolStates]
         /\ Taken(t) \subseteq Tickets
<1>1. NoLoad \in Loads
  BY DEF NoLoad, Loads
<1>2. \A g \in Tickets \cup {NoTicket}, b \in BOOLEAN : LoadOf(g, b) \in Loads
  BY DEF LoadOf, Loads
<1>3. Detach(t) => load' \in [Tickets -> Loads]
  BY <1>1 DEF Detach, HostTyped, Loads
<1>4. ASSUME NEW S, Returned(S) PROVE pool' \in [Tickets -> PoolStates]
  BY <1>4 DEF Returned, HostTyped, PoolStates
<1>5. Taken(t) \subseteq Tickets
  BY DEF Taken, HostTyped
<1> QED
  BY <1>1, <1>2, <1>3, <1>4, <1>5

LEMMA SubmitTyped ==
  ASSUME HostTyped, NEW t \in Tickets,
         SubmitHit(t) \/ SubmitMiss(t) \/ SubmitRefused(t) \/ SubmitHitReady(t)
           \/ Enqueue(t) \/ EnqueueFails(t)
  PROVE  HostTyped'
<1>1. CASE SubmitHit(t)
  <2>1. LoadOf(resident, TRUE) \in Loads
    BY LoadPieces DEF HostTyped
  <2> QED
    BY <1>1, <2>1 DEF SubmitHit, HostTyped, Loads
<1>2. CASE SubmitMiss(t)
  <2>1. LoadOf(NoTicket, FALSE) \in Loads /\ pool' \in [Tickets -> PoolStates]
    BY <1>2, LoadPieces DEF SubmitMiss
  <2> QED
    BY <1>2, <2>1 DEF SubmitMiss, HostTyped, Loads
<1>3. CASE SubmitRefused(t) \/ SubmitHitReady(t)
  BY <1>3 DEF SubmitRefused, SubmitHitReady, hostVars, HostTyped
<1>4. CASE Enqueue(t)
  BY <1>4 DEF Enqueue, HostTyped, IOStates
<1>5. CASE EnqueueFails(t)
  BY <1>5, LoadPieces DEF EnqueueFails, HostTyped, Loads
<1> QED
  BY <1>1, <1>2, <1>3, <1>4, <1>5

LEMMA EndingsTyped ==
  ASSUME HostTyped, NEW t \in Tickets, CancelHostLoad(t) \/ ReleaseHostLoad(t)
  PROVE  HostTyped'
<1>1. load' \in [Tickets -> Loads] /\ pool' \in [Tickets -> PoolStates]
  BY LoadPieces DEF CancelHostLoad, ReleaseHostLoad
<1>2. CASE CancelHostLoad(t)
  BY <1>1, <1>2 DEF CancelHostLoad, HostTyped, Loads
<1>3. CASE ReleaseHostLoad(t)
  BY <1>1, <1>3 DEF ReleaseHostLoad, HostTyped, Loads
<1> QED
  BY <1>2, <1>3

LEMMA IOTyped ==
  ASSUME HostTyped, NEW t \in Tickets, IOStep(t)
  PROVE  HostTyped'
<1>1. CASE ReadStarts(t) \/ ReadSucceeds(t) \/ ReadFails(t)
  BY <1>1 DEF ReadStarts, ReadSucceeds, ReadFails, HostTyped, IOStates, PoolStates
<1>2. CASE CompleteLoad(t)
  <2>1. /\ load' \in [Tickets -> Loads]
        /\ pool' \in [Tickets -> PoolStates]
    <3>1. CASE CompleteDetached(t)
      BY <3>1, LoadPieces DEF CompleteDetached, HostTyped, Loads
    <3>2. CASE CompleteBroken(t)
      BY <3>2, LoadPieces DEF CompleteBroken, HostTyped
    <3>3. CASE CompleteRead(t)
      <4>1. LoadOf(t, load[t].hit) \in Loads
        BY LoadPieces DEF HostTyped
      <4> QED
        BY <3>3, <4>1, LoadPieces DEF CompleteRead, HostTyped, Loads
    <3> QED
      BY <1>2, <3>1, <3>2, <3>3 DEF CompleteLoad
  <2>2. io' \in [Tickets -> IOStates]
    BY <1>2 DEF CompleteLoad, HostTyped, IOStates
  <2> QED
    BY <1>2, <2>1, <2>2 DEF CompleteLoad, HostTyped, Loads
<1> QED
  BY <1>1, <1>2 DEF IOStep

LEMMA CloseTyped ==
  ASSUME HostTyped, CloseStep
  PROVE  HostTyped'
<1>1. CASE CloseStorage
  BY <1>1 DEF CloseStorage, CloserAt, HostTyped
<1>2. ASSUME NEW t \in Tickets, CloseDetaches(t)
      PROVE  HostTyped'
  <2>1. load' \in [Tickets -> Loads]
    BY <1>2, LoadPieces DEF CloseDetaches
  <2>2. Live(t) \in BOOLEAN
    BY DEF Live
  <2>3. (IF Taken(t) = {} THEN NoTicket ELSE load[t].group) \in Tickets \cup {NoTicket}
    BY DEF HostTyped
  <2> QED
    BY <1>2, <2>1, <2>2, <2>3 DEF CloseDetaches, HostTyped, Loads
<1>3. ASSUME NEW t \in Tickets, CloseSkips(t)
      PROVE  HostTyped'
  BY <1>3 DEF CloseSkips, HostTyped
<1>4. CASE CloseEnds
  <2>1. pool' \in [Tickets -> PoolStates]
    <3>1. PICK t \in Tickets : TRUE
      BY <1>4 DEF CloseEnds, HostTyped
    <3> QED
      BY <1>4, <3>1, LoadPieces DEF CloseEnds, HostTyped
  <2> QED
    BY <1>4, <2>1 DEF CloseEnds, CloserAt, HostTyped
<1>5. CASE CloseCollects
  <2>1. NoLoad \in Loads
    BY DEF NoLoad, Loads
  <2>2. pool' \in [Tickets -> PoolStates]
    BY <1>5 DEF CloseCollects, Collect, Returned, HostTyped, PoolStates
  <2> QED
    BY <1>5, <2>1, <2>2 DEF CloseCollects, Collect, CloserAt, HostTyped, Loads
<1> QED
  BY <1>1, <1>2, <1>3, <1>4, <1>5 DEF CloseStep

LEMMA CancelTyped ==
  ASSUME HostTyped, NEW t \in Tickets, CancelTicket(t) \/ ReleaseTicket(t)
  PROVE  HostTyped'
BY EndingsTyped DEF CancelTicket, ReleaseTicket, hostVars, HostTyped

LEMMA StepHostTyped ==
  ASSUME HostTyped, [Next]_vars
  PROVE  HostTyped'
<1>1. UNCHANGED hostVars => HostTyped'
  BY DEF hostVars, HostTyped
<1>2. ASSUME NEW t \in Tickets, CallStep(t)
      PROVE  HostTyped'
  BY <1>1, <1>2, CancelTyped DEF CallStep, Begin, Cancel, ReleaseCall, Handoff, hostVars
<1>3. ASSUME NEW t \in Tickets, OpStep(t)
      PROVE  HostTyped'
  <2>1. CASE Sweep(t) \/ Abort(t)
    BY <1>1, <2>1, CancelTyped, EndingsTyped DEF Sweep, Abort
  <2>2. CASE SelectSubmits(t) \/ SelectFinishes(t)
    BY <2>2, SubmitTyped DEF SelectSubmits, SelectFinishes
  <2>3. CASE SelectCreates(t) \/ InspectCommits(t) \/ AuthenticateCommits(t)
               \/ PrepareCommits(t) \/ ActivateCommits(t)
    BY <1>1, <2>3 DEF SelectCreates, InspectCommits, AuthenticateCommits,
       PrepareCommits, ActivateCommits
  <2> QED
    BY <1>3, <2>1, <2>2, <2>3 DEF OpStep
<1>4. ASSUME NEW t \in Tickets, WorkerStep(t)
      PROVE  HostTyped'
  BY <1>1, <1>4, CancelTyped DEF WorkerStep, FetchLayer, LayerLands, MarkProgress,
     WorkerSucceeds, WorkerFails, WorkerCancels
<1>5. CASE Decide
  BY <1>1, <1>5 DEF Decide
<1>6. CASE CloseManager
  BY <1>6 DEF CloseManager, CloserAt, HostTyped
<1>7. CASE CloserStep
  BY <1>7, CloseTyped DEF CloserStep
<1>8. CASE UNCHANGED vars
  BY <1>1, <1>8 DEF vars, hostVars
<1> QED
  BY <1>2, <1>3, <1>4, <1>5, <1>6, <1>7, <1>8, IOTyped DEF Next

------------------------------------------------------------------------------
(* The method under way and the work in flight.                            *)

LEMMA GoingTyped ==
  ASSUME OpTyped
  PROVE  /\ Done => OpTyped'
         /\ \A step \in Steps : op.call \in Calls /\ GoTo(step) => OpTyped'
         /\ UNCHANGED op => OpTyped'
<1>1. Done => OpTyped'
  BY DEF Done, Idle, OpTyped, Calls, RequestCalls, Steps
<1>2. ASSUME NEW step \in Steps, op.call \in Calls, GoTo(step) PROVE OpTyped'
  BY <1>2 DEF GoTo, OpTyped
<1>3. UNCHANGED op => OpTyped'
  BY DEF OpTyped
<1> QED
  BY <1>1, <1>2, <1>3

LEMMA BeginTyped ==
  ASSUME OpTyped, NEW call \in Calls, NEW t \in Tickets,
         NEW r \in Requests \cup {NoRequest}, Begin(call, t, r)
  PROVE  OpTyped'
<1>1. PICK overdue \in SUBSET {u \in Tickets : Expiring /\ Live(u)} :
        op' = [call |-> call, ticket |-> t, request |-> r, sweep |-> overdue,
               step |-> IF overdue = {} THEN "decide" ELSE "sweep"]
  BY DEF Begin
<1>2. call \in RequestCalls => r \in Requests
  BY DEF Begin
<1>3. (IF overdue = {} THEN "decide" ELSE "sweep") \in Steps
  BY DEF Steps
<1>4. overdue \in SUBSET Tickets
  OBVIOUS
<1> QED
  BY <1>1, <1>2, <1>3, <1>4 DEF OpTyped

LEMMA DecideTyped ==
  ASSUME OpTyped, Decide
  PROVE  OpTyped'
<1>1. op.call \in Calls
  BY DEF Decide, OpTyped
<1>2. Verdicts \subseteq Steps \cup {"return"}
  BY <1>1 DEF Calls, Steps, Verdicts, SelectVerdicts, InspectVerdicts,
     AuthenticateVerdicts, PrepareVerdicts, QueryVerdicts, ActivateVerdicts
<1>3. PICK verdict \in Verdicts : IF verdict = "return" THEN Done ELSE GoTo(verdict)
  BY DEF Decide
<1> QED
  BY <1>1, <1>2, <1>3, GoingTyped

LEMMA OpStepTyped ==
  ASSUME OpTyped, NEW t \in Tickets, OpStep(t)
  PROVE  OpTyped'
<1>0. {"create", "submit", "hit", "enqueue", "commit", "abort"} \subseteq Steps
  BY DEF Steps
<1>1. CASE Sweep(t)
  <2>1. op.call \in Calls
    BY <1>1 DEF Sweep, OpTyped
  <2>2. (IF op.sweep = {t} THEN "decide" ELSE "sweep") \in Steps
    BY DEF Steps
  <2>3. op.sweep \ {t} \in SUBSET Tickets
    BY DEF OpTyped
  <2> QED
    BY <1>1, <2>1, <2>2, <2>3 DEF Sweep, OpTyped
<1>2. CASE Abort(t)
  BY <1>2, GoingTyped DEF Abort
<1>3. CASE SelectCreates(t)
  <2>1. op.call \in Calls /\ GoTo("submit")
    BY <1>3 DEF SelectCreates, At, Calls
  <2> QED
    BY <1>0, <2>1, GoingTyped
<1>4. CASE SelectSubmits(t)
  <2>1. op.call \in Calls /\ (GoTo("hit") \/ GoTo("enqueue") \/ Done)
    BY <1>4 DEF SelectSubmits, At, Calls
  <2> QED
    BY <1>0, <2>1, GoingTyped
<1>5. CASE SelectFinishes(t) \/ InspectCommits(t) \/ ActivateCommits(t)
  BY <1>5, GoingTyped DEF SelectFinishes, InspectCommits, ActivateCommits
<1>6. CASE AuthenticateCommits(t) \/ PrepareCommits(t)
  <2>1. op.call \in Calls /\ (Done \/ GoTo("abort"))
    BY <1>6 DEF AuthenticateCommits, PrepareCommits, At, Calls
  <2> QED
    BY <1>0, <2>1, GoingTyped
<1> QED
  BY <1>1, <1>2, <1>3, <1>4, <1>5, <1>6 DEF OpStep

LEMMA StepOpTyped ==
  ASSUME OpTyped, [Next]_vars
  PROVE  OpTyped'
<1>1. ASSUME NEW t \in Tickets, CallStep(t)
      PROVE  OpTyped'
  BY <1>1, BeginTyped, GoingTyped DEF CallStep, Cancel, ReleaseCall, Handoff
<1>2. ASSUME NEW t \in Tickets, WorkerStep(t) \/ IOStep(t)
      PROVE  UNCHANGED op
  BY <1>2 DEF WorkerStep, FetchLayer, LayerLands, MarkProgress, WorkerSucceeds,
     WorkerFails, WorkerCancels, IOStep, managerVars
<1>3. CloseManager \/ CloserStep \/ UNCHANGED vars => UNCHANGED op
  BY DEF CloseManager, CloserStep, managerVars, vars
<1> QED
  BY <1>1, <1>2, <1>3, DecideTyped, OpStepTyped, GoingTyped DEF Next

LEMMA WorkerTyped ==
  ASSUME WorkTyped, HostTyped, NEW t \in Tickets, WorkerStep(t)
  PROVE  WorkTyped'
<1>1. CASE FetchLayer(t)
  <2>1. load[t].group \in Tickets \cup {NoTicket} /\ work[t].landed < Layers
    BY <1>1 DEF FetchLayer, HostTyped
  <2> QED
    BY <1>1, <2>1 DEF FetchLayer, WorkTyped
<1>2. CASE LayerLands(t)
  <2>1. work[t].landed + 1 \in 0 .. Layers
    BY <1>2, TableAssumption DEF LayerLands, WorkTyped
  <2> QED
    BY <1>2, <2>1 DEF LayerLands, WorkTyped
<1>3. CASE MarkProgress(t)
  BY <1>3 DEF MarkProgress, WorkTyped
<1>4. CASE WorkerSucceeds(t) \/ WorkerCancels(t)
  BY <1>4 DEF WorkerSucceeds, WorkerCancels, WorkTyped
<1>5. CASE WorkerFails(t)
  BY <1>5 DEF WorkerFails, WorkTyped
<1> QED
  BY <1>1, <1>2, <1>3, <1>4, <1>5 DEF WorkerStep

LEMMA StepWorkTyped ==
  ASSUME WorkTyped, HostTyped, [Next]_vars
  PROVE  WorkTyped'
<1>1. UNCHANGED <<rmClosed, work>> => WorkTyped'
  BY DEF WorkTyped
<1>2. ASSUME NEW t \in Tickets, CallStep(t)
      PROVE  WorkTyped'
  <2>1. CASE \E call \in Calls, r \in Requests \cup {NoRequest} : Begin(call, t, r)
    BY <1>1, <2>1 DEF Begin
  <2>2. CASE Cancel(t) \/ ReleaseCall(t)
    BY <2>2 DEF Cancel, ReleaseCall, GiveUpLease, WorkTyped
  <2>3. CASE Handoff(t)
    BY <2>3 DEF Handoff, WorkTyped
  <2> QED
    BY <1>2, <2>1, <2>2, <2>3 DEF CallStep
<1>3. ASSUME NEW t \in Tickets, OpStep(t)
      PROVE  WorkTyped'
  <2>1. CASE ActivateCommits(t)
    BY <2>1 DEF ActivateCommits, WorkTyped
  <2>2. CASE ~ActivateCommits(t)
    BY <1>1, <1>3, <2>2 DEF OpStep, Sweep, Abort, SelectCreates, SelectSubmits,
       SelectFinishes, InspectCommits, AuthenticateCommits, PrepareCommits
  <2> QED
    BY <2>1, <2>2
<1>4. ASSUME NEW t \in Tickets, IOStep(t)
      PROVE  WorkTyped'
  BY <1>1, <1>4 DEF IOStep, managerVars
<1>5. CASE CloseManager
  BY <1>5 DEF CloseManager, WorkTyped
<1>6. CASE Decide \/ CloserStep \/ UNCHANGED vars
  BY <1>1, <1>6 DEF Decide, CloserStep, managerVars, vars
<1> QED
  BY <1>2, <1>3, <1>4, <1>5, <1>6, WorkerTyped DEF Next

------------------------------------------------------------------------------

LEMMA InitReuseInv == Init => ReuseInv
<1> SUFFICES ASSUME Init PROVE ReuseInv
  OBVIOUS
<1>1. TableInv
  BY InitInv DEF Init
<1>2. HostTyped
  BY DEF Init, HostInit, HostTyped, NoLoad, IOStates, PoolStates, CloserAt
<1>3. OpTyped
  BY DEF Init, ManagerInit, Idle, OpTyped, Calls, RequestCalls, Steps
<1>4. WorkTyped
  <2>1. 0 \in 0 .. Layers
    BY TableAssumption
  <2>2. NoWork \in [lease : {"none", "scheduler", "worker", "failed", "ended"},
                    group : Tickets \cup {NoTicket}, landed : 0 .. Layers]
    BY <2>1 DEF NoWork
  <2>3. NoWork.group = NoTicket
    BY DEF NoWork
  <2> QED
    BY <2>2, <2>3 DEF Init, ManagerInit, WorkTyped
<1> QED
  BY <1>1, <1>2, <1>3, <1>4 DEF ReuseInv

LEMMA StepReuseInv == ReuseInv /\ [Next]_vars => ReuseInv'
<1> SUFFICES ASSUME ReuseInv, [Next]_vars PROVE ReuseInv'
  OBVIOUS
<1>1. TableInv'
  BY StepCallsTable, StepInv DEF ReuseInv
<1> QED
  BY <1>1, StepHostTyped, StepOpTyped, StepWorkTyped DEF ReuseInv

LEMMA ReuseInvariant == Safe => []ReuseInv
<1> QED
  BY InitReuseInv, StepReuseInv, PTL DEF Safe

\* Type correctness of one rank's manager, host loads, runtime table, worker and
\* shutdown (RequestManager, StorageManager, MetadataManager); in particular a worker
\* never fetches more layers than the model has (get_active_layer_buffer).
THEOREM ReuseTyped == Safe => []ReuseTypeOK
<1>1. ReuseInv => ReuseTypeOK
  BY DEF ReuseInv, TableInv, HostTyped, OpTyped, WorkTyped, ReuseTypeOK
<1> QED
  BY <1>1, ReuseInvariant, PTL

\* Whatever control calls, reads, the worker and close() do, and wherever they
\* interrupt one another, the runtime table sees only its own methods, one at a time.
THEOREM ManagerImplementsTable == Safe => ImplementsTable
<1>1. Init => TableInit
  BY DEF Init
<1>2. ReuseInv /\ [Next]_vars => [TableNext]_tableVars
  BY StepCallsTable
<1> QED
  BY <1>1, <1>2, ReuseInvariant, PTL DEF Safe, ImplementsTable, TableSpec

\* Therefore a request belongs to at most one unreleased ticket of the rank and the
\* index of the table finds it (get_runtime_for_request), under all interleavings.
THEOREM ManagerIndexAgrees == Safe => []IndexMatchesBindings
<1> QED
  BY ManagerImplementsTable, IndexAgrees, PTL DEF ImplementsTable

\* Therefore an active ticket has a ready host copy, and its layers are corrected
\* only after they were loaded, under all interleavings.
THEOREM ManagerActiveComplete == Safe => []ActiveIsComplete
<1> QED
  BY ManagerImplementsTable, ActiveComplete, PTL DEF ImplementsTable

\* Therefore a ticket that ended never comes back: a late completion, commit or
\* progress call changes nothing of it.
THEOREM ManagerEndedFrozen == Safe => TerminalFrozen
<1> QED
  BY ManagerImplementsTable, EndedTicketsFrozen, PTL DEF ImplementsTable
==============================================================================
