-------------------------- MODULE SchedulerRefinement ---------------------------
(***************************************************************************)
(* Proofs that SchedulerCoordinator keeps two promises for any number of   *)
(* requests, ranks and faults: every rank's tickets go through the         *)
(* lifecycle of a ticket (TicketLifecycle), and the prefill of a request   *)
(* goes as PrefillReuse says.  Both rest on CoordinatorInv.                *)
(***************************************************************************)
EXTENDS SchedulerCoordinatorProofs

------------------------------------------------------------------------------
(* Every rank's tickets keep the lifecycle of a ticket.                    *)

\* What a step may do to a ticket.
Lives(s, t) ==
  \/ t.host = s.host /\ t.binding = s.binding
  \/ t.host = s.host /\ s.binding # "ended" /\ t.binding = "ended"
  \/ t.host = s.host /\ s.host = "ready" /\ s.binding = "verified" /\ t.binding = "active"
  \/ s.host = "loading" /\ s.binding = "verified" /\ t.host = "ready" /\ t.binding = "verified"
  \/ s.host = "loading" /\ s.binding = "verified" /\ t.host = "failed" /\ t.binding = "ended"

OneLives(r) ==
  /\ ticket \in TicketTables
  /\ ticket' \in TicketTables
  /\ \A k \in Ranks :
       /\ \A q \in Requests : q # r => ticket'[k][q] = ticket[k][q]
       /\ Lives(ticket[k][r], ticket'[k][r])

LEMMA HandleLives ==
  ASSUME NEW s \in Ticket, NEW c \in Commands
  PROVE  Lives(s, Handle(c, s))
<1>1. CASE c = "prepare"
  BY <1>1 DEF Handle, Ticket, Lives
<1>2. CASE c = "activate"
  BY <1>2 DEF Handle, Activates, Ticket, Lives
<1>3. CASE c \in {"decline", "release", "cancel"}
  BY <1>3 DEF Handle, End, Ticket, Lives
<1>4. QED  BY <1>1, <1>2, <1>3 DEF Commands

LEMMA AfterLives ==
  ASSUME ticket \in TicketTables, NEW S \in SUBSET Ranks, NEW c \in Commands, NEW r \in Requests,
         ticket' = After(ticket, S, c, r)
  PROVE  OneLives(r)
<1>1. ticket' \in TicketTables
  BY AfterTyped
<1>2. ASSUME NEW k \in Ranks
      PROVE  /\ \A q \in Requests : q # r => ticket'[k][q] = ticket[k][q]
             /\ ticket'[k][r] = ticket[k][r] \/ ticket'[k][r] = Handle(c, ticket[k][r])
  BY AfterTyped
<1>3. ASSUME NEW k \in Ranks PROVE Lives(ticket[k][r], ticket'[k][r])
  <2>1. ticket[k][r] \in Ticket
    BY DEF TicketTables
  <2>2. Lives(ticket[k][r], ticket[k][r])
    BY DEF Lives
  <2>3. Lives(ticket[k][r], Handle(c, ticket[k][r]))
    BY <2>1, HandleLives
  <2>4. QED  BY <1>2, <2>2, <2>3
<1>4. QED  BY <1>1, <1>2, <1>3 DEF OneLives

\* The release that follows a failed activation ends what the activation left.
LEMMA ReleasedLives ==
  ASSUME NEW s \in Ticket, NEW t \in Ticket, Lives(s, t), t.host = s.host
  PROVE  Lives(s, Handle("release", t))
<1>1. Handle("release", t).host = s.host /\ Handle("release", t).binding = "ended"
  BY DEF Handle, End, Ticket
<1>2. QED  BY <1>1 DEF Lives

LEMMA CallThenReleaseLives ==
  ASSUME ticket \in TicketTables, NEW o \in Outcomes, NEW second \in Outcomes,
         NEW r \in Requests, CallThenRelease("activate", o, r, second)
  PROVE  OneLives(r)
<1> DEFINE middle == After(ticket, o.reached, "activate", r)
<1>1. "activate" \in Commands /\ "release" \in Commands
  BY DEF Commands
<1>2. /\ middle \in TicketTables
      /\ \A k \in Ranks, q \in Requests :
           middle[k][q] = IF k \in o.reached /\ q = r THEN Handle("activate", ticket[k][r])
                          ELSE ticket[k][q]
  BY <1>1, OutcomeTyped, AfterTyped
<1>3. ticket' = After(middle, second.reached, "release", r)
  BY DEF CallThenRelease
<1> HIDE DEF middle
<1>4. /\ ticket' \in TicketTables
      /\ \A k \in Ranks, q \in Requests :
           ticket'[k][q] = IF k \in second.reached /\ q = r THEN Handle("release", middle[k][r])
                           ELSE middle[k][q]
  BY <1>1, <1>2, <1>3, OutcomeTyped, AfterTyped
<1>5. ASSUME NEW k \in Ranks PROVE Lives(ticket[k][r], ticket'[k][r])
  <2>1. ticket[k][r] \in Ticket /\ middle[k][r] \in Ticket
    BY <1>2 DEF TicketTables
  <2>2. Lives(ticket[k][r], ticket[k][r])
    BY DEF Lives
  <2>3. Lives(ticket[k][r], middle[k][r])
    BY <1>1, <1>2, <2>1, <2>2, HandleLives
  <2>4. Handle("activate", ticket[k][r]).host = ticket[k][r].host
    BY <2>1 DEF Handle, Ticket
  <2>5. middle[k][r].host = ticket[k][r].host
    BY <1>2, <2>4
  <2>6. Lives(ticket[k][r], Handle("release", middle[k][r]))
    BY <2>1, <2>3, <2>5, ReleasedLives
  <2>7. QED  BY <1>4, <2>3, <2>6
<1>6. \A k \in Ranks, q \in Requests : q # r => ticket'[k][q] = ticket[k][q]
  BY <1>2, <1>4
<1>7. QED  BY <1>4, <1>5, <1>6 DEF OneLives

LEMMA SetTicketLives ==
  ASSUME ticket \in TicketTables, NEW k \in Ranks, NEW r \in Requests, NEW t \in Ticket,
         Lives(ticket[k][r], t), SetTicket(k, r, t)
  PROVE  OneLives(r)
<1>1. ticket' = [ticket EXCEPT ![k] = [ticket[k] EXCEPT ![r] = t]]
  BY DEF SetTicket
<1>2. [ticket[k] EXCEPT ![r] = t] \in [Requests -> Ticket]
  BY DEF TicketTables
<1>3. ticket' \in TicketTables
  BY <1>1, <1>2 DEF TicketTables
<1>4. \A i \in Ranks, q \in Requests :
        ticket'[i][q] = IF i = k /\ q = r THEN t ELSE ticket[i][q]
  BY <1>1 DEF TicketTables
<1>5. \A i \in Ranks : Lives(ticket[i][r], ticket[i][r])
  BY DEF Lives
<1>6. QED  BY <1>3, <1>4, <1>5 DEF OneLives

LEMMA UnprofitableLives ==
  ASSUME RequestsTypeOK, NEW S \in SUBSET Ranks, NEW r \in Requests,
         ticket' = Unprofitable(S, r)
  PROVE  OneLives(r)
<1>1. ticket \in TicketTables /\ \A k \in Ranks : ticket[k][r] \in Ticket
  BY DEF RequestsTypeOK, TicketTables
<1>2. \A k \in Ranks : [ticket[k] EXCEPT ![r] = End(@)] \in [Requests -> Ticket]
  BY <1>1, EndTyped DEF TicketTables
<1>3. ticket' \in TicketTables
  BY <1>1, <1>2 DEF Unprofitable, TicketTables
<1>4. \A k \in Ranks, q \in Requests :
        ticket'[k][q] = ticket[k][q] \/ (q = r /\ ticket'[k][q] = End(ticket[k][r]))
  BY <1>1 DEF Unprofitable, TicketTables
<1>5. \A k \in Ranks : Lives(ticket[k][r], ticket[k][r]) /\ Lives(ticket[k][r], End(ticket[k][r]))
  BY <1>1, EndTyped DEF Lives
<1>6. QED  BY <1>1, <1>3, <1>4, <1>5 DEF OneLives

LEMMA RanksLive ==
  ASSUME RequestsTypeOK, RankStep
  PROVE  ticket' = ticket \/ \E r \in Requests : OneLives(r)
<1>1. ticket \in TicketTables /\ \A k \in Ranks, r \in Requests : ticket[k][r] \in Ticket
  BY DEF RequestsTypeOK, TicketTables
<1>2. ASSUME NEW k \in Ranks, NEW r \in Requests, HostReady(k, r) PROVE OneLives(r)
  <2> DEFINE t == [ticket[k][r] EXCEPT !.host = "ready"]
  <2>1. t \in Ticket /\ Lives(ticket[k][r], t)
    BY <1>1, <1>2 DEF HostReady, Ticket, Lives
  <2>2. SetTicket(k, r, t)
    BY <1>2 DEF HostReady
  <2> HIDE DEF t
  <2>3. QED  BY <1>1, <2>1, <2>2, SetTicketLives
<1>3. ASSUME NEW k \in Ranks, NEW r \in Requests, HostFailed(k, r) PROVE OneLives(r)
  <2> DEFINE t == End([ticket[k][r] EXCEPT !.host = "failed"])
  <2>1. t \in Ticket /\ Lives(ticket[k][r], t)
    BY <1>1, <1>3 DEF HostFailed, End, Ticket, Lives
  <2>2. SetTicket(k, r, t)
    BY <1>3 DEF HostFailed
  <2> HIDE DEF t
  <2>3. QED  BY <1>1, <2>1, <2>2, SetTicketLives
<1>4. ASSUME NEW k \in Ranks, NEW r \in Requests, Expires(k, r) PROVE OneLives(r)
  <2>1. End(ticket[k][r]) \in Ticket /\ Lives(ticket[k][r], End(ticket[k][r]))
    BY <1>1, EndTyped DEF Lives
  <2>2. SetTicket(k, r, End(ticket[k][r]))
    BY <1>4 DEF Expires
  <2>3. QED  BY <1>1, <2>1, <2>2, SetTicketLives
<1>5. ASSUME NEW m \in late, Deliver(m) PROVE OneLives(m.request) /\ m.request \in Requests
  <2>1. {m.rank} \in SUBSET Ranks /\ m.command \in Commands /\ m.request \in Requests
    BY DEF RequestsTypeOK, Message
  <2>2. ticket' = After(ticket, {m.rank}, m.command, m.request)
    BY <1>5 DEF Deliver
  <2>3. QED  BY <1>1, <2>1, <2>2, AfterLives
<1>6. ASSUME NEW m \in late, Lose(m) PROVE ticket' = ticket
  BY <1>6 DEF Lose
<1>7. QED  BY <1>2, <1>3, <1>4, <1>5, <1>6 DEF RankStep

LEMMA CallLives ==
  ASSUME RequestsTypeOK, NEW c \in Commands, NEW o \in Outcomes, NEW r \in Requests,
         ticket' = After(ticket, o.reached, c, r)
  PROVE  OneLives(r)
  BY OutcomeTyped, AfterLives DEF RequestsTypeOK, TicketTables

LEMMA RequestLives ==
  ASSUME RequestsInv, NEW r \in Requests, RequestStep(r)
  PROVE  ticket' = ticket \/ OneLives(r)
<1>1. RequestsTypeOK /\ ticket \in TicketTables
  BY DEF RequestsInv, RequestsTypeOK, TicketTables
<1>2. CASE \/ RegisterUnsupported(r) \/ PrefillToBoundary(r) \/ Prefill(r) \/ Preempt(r)
           \/ Allocate(r)
  BY <1>2 DEF RegisterUnsupported, PrefillToBoundary, Prefill, Preempt, Allocate, controlVars
<1>3. CASE Register(r)
  <2>1. PICK o \in Outcomes, c \in {"prepare", "decline"} : ticket' = After(ticket, o.reached, c, r)
    BY <1>3 DEF Register, Call
  <2>2. QED  BY <1>1, <2>1, CallLives DEF Commands
<1>4. CASE PrefillPastBoundary(r) \/ ActivationRefused(r) \/ AllocationFailed(r) \/ Finish(r)
  <2>1. \/ ticket' = ticket
        \/ \E o \in Outcomes : Call("release", o, r)
    BY <1>4 DEF PrefillPastBoundary, ActivationRefused, AllocationFailed, Finish, ReleaseLease,
       controlVars
  <2>2. \/ ticket' = ticket
        \/ \E o \in Outcomes : ticket' = After(ticket, o.reached, "release", r)
    BY <2>1 DEF Call
  <2>3. QED  BY <1>1, <2>2, CallLives DEF Commands
<1>5. CASE Poll(r)
  <2>1. PICK S \in SUBSET Ranks : ticket' = Unprofitable(S, r)
    BY <1>5 DEF Poll, PollOnce
  <2>2. QED  BY <1>1, <2>1, UnprofitableLives
<1>6. CASE Activate(r)
  <2>1. PICK o \in Outcomes : ticket' = After(ticket, o.reached, "activate", r)
    BY <1>6 DEF Activate, Call
  <2>2. QED  BY <1>1, <2>1, CallLives DEF Commands
<1>7. CASE ActivationFails(r)
  BY <1>1, <1>7, CallThenReleaseLives DEF ActivationFails
<1>8. QED  BY <1>2, <1>3, <1>4, <1>5, <1>6, <1>7 DEF RequestStep

LEMMA TicketsLive ==
  ASSUME RequestsInv, [CoordinatorNext]_coordinationVars
  PROVE  ticket' = ticket \/ \E r \in Requests : OneLives(r)
<1>1. RequestsTypeOK /\ ticket \in TicketTables
  BY DEF RequestsInv, RequestsTypeOK, TicketTables
<1>2. CASE \E r \in Requests : RequestStep(r)
  BY <1>2, RequestLives
<1>3. CASE StartStep \/ UpdateFromOutput \/ Drained \/ UNCHANGED coordinationVars
  BY <1>3 DEF StartStep, UpdateFromOutput, Drained, coordinationVars, controlVars
<1>4. CASE WorkStep
  <2>1. PICK k \in Ranks, r \in Requests : SetTicket(k, r, End(ticket[k][r]))
    BY <1>4 DEF WorkStep, WorkerInstalls, WorkerFails
  <2>2. ticket[k][r] \in Ticket
    BY <1>1 DEF TicketTables
  <2>3. End(ticket[k][r]) \in Ticket /\ Lives(ticket[k][r], End(ticket[k][r]))
    BY <2>2, EndTyped DEF Lives
  <2>4. QED  BY <1>1, <2>1, <2>3, SetTicketLives
<1>5. CASE RankStep
  BY <1>1, <1>5, RanksLive
<1>6. QED  BY <1>2, <1>3, <1>4, <1>5 DEF CoordinatorNext

LEMMA LivesInLifecycle ==
  ASSUME "nobody" \notin Requests, NEW r \in Requests, OneLives(r), NEW k \in Ranks
  PROVE  Lifecycle(k)!LifecycleNext
<1> DEFINE s == ticket[k][r]
           t == ticket'[k][r]
<1>1. /\ Lives(s, t) /\ s \in Ticket /\ t \in Ticket
      /\ \A q \in Requests : q # r => ticket'[k][q] = ticket[k][q]
  BY DEF OneLives, TicketTables
<1>2. CASE t.host = s.host /\ t.binding = s.binding
  <2>1. Lifecycle(k)!End({})
    BY <1>1, <1>2 DEF Lifecycle!End, Lifecycle!Open
  <2>2. QED  BY <2>1 DEF Lifecycle!LifecycleNext
<1>3. CASE t.host = s.host /\ s.binding # "ended" /\ t.binding = "ended"
  <2>1. Lifecycle(k)!End({r})
    BY <1>1, <1>3 DEF Lifecycle!End, Lifecycle!Open, Ticket
  <2>2. QED  BY <2>1 DEF Lifecycle!LifecycleNext
<1>4. CASE t.host = s.host /\ s.host = "ready" /\ s.binding = "verified" /\ t.binding = "active"
  <2>1. Lifecycle(k)!Engage(r)
    BY <1>1, <1>4 DEF Lifecycle!Engage
  <2>2. QED  BY <2>1 DEF Lifecycle!LifecycleNext
<1>5. CASE s.host = "loading" /\ s.binding = "verified" /\ t.host = "ready" /\ t.binding = "verified"
  <2>1. Lifecycle(k)!Fill(r)
    BY <1>1, <1>5 DEF Lifecycle!Fill, Lifecycle!Open
  <2>2. QED  BY <2>1 DEF Lifecycle!LifecycleNext
<1>6. CASE s.host = "loading" /\ s.binding = "verified" /\ t.host = "failed" /\ t.binding = "ended"
  <2>1. Lifecycle(k)!Break(r)
    BY <1>1, <1>6 DEF Lifecycle!Break, Lifecycle!Open
  <2>2. QED  BY <2>1 DEF Lifecycle!LifecycleNext
<1>7. QED  BY <1>1, <1>2, <1>3, <1>4, <1>5, <1>6 DEF Lives

\* Whatever is lost, late or out of order, the tickets of each rank go through the
\* lifecycle of a ticket.  A request is not the value that stands for no request.
THEOREM RanksKeepTheLifecycle ==
  ASSUME "nobody" \notin Requests
  PROVE  CoordinatorSpec => RanksKeepLifecycle
<1> DEFINE Kept == \A k \in Ranks : Lifecycle(k)!LifecycleNext \/ ticket'[k] = ticket[k]
<1>1. CoordinatorInv /\ [CoordinatorNext]_coordinationVars => Kept
  BY TicketsLive, LivesInLifecycle DEF CoordinatorInv
<1>2. CoordinatorInv /\ [CoordinatorNext]_coordinationVars => [Kept]_ticket
  BY <1>1
<1>3. QED  BY <1>2, CoordinatorInvariant, PTL DEF CoordinatorSpec, RanksKeepLifecycle

------------------------------------------------------------------------------
(* The prefill of a request: what each step does to its decision.          *)

DecisionTable ==
  \A r \in Requests :
    /\ request[r].stage = "done" => Decision(r) = "over"
    /\ request[r].stage # "done" /\ state[r].phase = "none" => Decision(r) = "plain"
    /\ state[r].phase = "initial" => Decision(r) = "open"
    /\ state[r].phase = "waiting" => Decision(r) = "held"
    /\ state[r].phase = "activated" /\ state[r].lease = "scheduler" => Decision(r) = "granted"
    /\ state[r].phase = "activated" /\ HandedOver(r) => Decision(r) = "skipped"
    /\ state[r].phase = "activated" /\ state[r].lease = "worker" /\ ~HandedOver(r)
         => Decision(r) = "settled"
    /\ state[r].phase = "fallback" => Decision(r) = "refused"

LEMMA DecisionIs == RequestsInv => DecisionTable
<1>1. ASSUME RequestsInv, NEW r \in Requests
      PROVE  /\ PhaseFits(r) /\ state[r].phase \in Phases
             /\ HandedOver(r) => state[r].lease = "worker"
  <2>1. PhaseFits(r) /\ state[r].phase \in Phases
    BY <1>1 DEF RequestsInv, RequestFits, RequestsTypeOK, States
  <2>2. HandedOver(r) => state[r].lease = "worker"
    BY <1>1 DEF RequestsInv, RequestFits, HandoverFits, HandedOver, Working
  <2>3. QED  BY <2>1, <2>2
<1>2. QED  BY <1>1 DEF DecisionTable, Decision, PhaseFits, Phases

LEMMA DecisionNext == RequestsInv' => DecisionTable'
<1>1. QED  BY DecisionIs, PTL

\* A request that is not in the schedule was not handed over.
LEMMA NotHandedOver ==
  ASSUME RequestsInv, NEW r \in Requests, ~request[r].scheduled
  PROVE  ~HandedOver(r)
  BY DEF RequestsInv, RequestFits, HandoverFits, HandedOver, Working

\* What a step does to one request, the others kept.
Kept(q) == Decision(q)' = Decision(q) /\ request'[q].computed = request[q].computed

Moves(r, from, to) ==
  /\ Decision(r) \in from
  /\ Decision(r)' = to
  /\ \A q \in Requests : q # r => Kept(q)

LEMMA Decides ==
  ASSUME NEW r \in Requests, NEW from, NEW to, Moves(r, from, to)
  PROVE  Abstract!Decide(r, from, to)
  BY DEF Moves, Kept, Abstract!Decide

LEMMA Recounts ==
  ASSUME NEW r \in Requests, \A q \in Requests : q # r => Kept(q)
  PROVE  [q \in Requests |-> request[q].computed]' =
           [[q \in Requests |-> request[q].computed] EXCEPT ![r] = request'[r].computed]
  BY DEF Kept

LEMMA NothingMoves ==
  ASSUME \A q \in Requests : Kept(q)
  PROVE  UNCHANGED Abstract!prefillVars
  BY DEF Kept, Abstract!prefillVars

\* An action of one request leaves the others as they are.
LEMMA OthersKept ==
  ASSUME RequestsInv, NEW r \in Requests, RequestStep(r)
  PROVE  \A q \in Requests : q # r => Kept(q)
<1> SUFFICES ASSUME NEW q \in Requests, q # r PROVE Kept(q)
  OBVIOUS
<1>1. Alone(q)
  BY OthersAlone
<1>2. QED  BY <1>1 DEF Alone, Kept, Decision, HandedOver

LEMMA Stutters ==
  ASSUME RequestsInv, NEW r \in Requests, RequestStep(r), Kept(r)
  PROVE  UNCHANGED Abstract!prefillVars
<1>1. \A q \in Requests : Kept(q)
  BY OthersKept
<1>2. QED  BY <1>1, NothingMoves

\* The actions that decide nothing.
LEMMA QuietStutter ==
  ASSUME RequestsInv, RequestsInv', NEW r \in Requests, RequestStep(r),
         state'[r].phase = state[r].phase, state'[r].lease = state[r].lease,
         request'[r].stage # "done" <=> request[r].stage # "done",
         HandedOver(r)' <=> HandedOver(r), request'[r].computed = request[r].computed
  PROVE  UNCHANGED Abstract!prefillVars
<1>1. Decision(r)' = Decision(r)
  BY DEF Decision
<1>2. QED  BY <1>1, Stutters DEF Kept

LEMMA RegisterImplements ==
  ASSUME RequestsInv, RequestsInv', NEW r \in Requests,
         RegisterUnsupported(r) \/ Register(r)
  PROVE  Abstract!Enter(r) \/ UNCHANGED Abstract!prefillVars
<1>1. /\ request[r].stage = "new" /\ UNCHANGED <<pending, engine, job>>
      /\ request' = [request EXCEPT ![r].stage = "queued"]
      /\ RequestStep(r) /\ ~request[r].scheduled
  BY DEF RegisterUnsupported, Register, InStage, RequestStep
<1>2. request'[r].stage = "queued" /\ request'[r].computed = request[r].computed
  BY <1>1, Restaged DEF Stages
<1>3. HandedOver(r)' <=> HandedOver(r)
  BY <1>1 DEF HandedOver
<1>4. state[r].phase = "none"
  <2>1. RequestFits(r) /\ state[r].phase \in Phases
    BY DEF RequestsInv, RequestsTypeOK, States
  <2>2. QED  BY <1>1, <2>1 DEF RequestFits, PhaseFits, Phases
<1>5. \/ UNCHANGED state
      \/ state' = [state EXCEPT ![r] = Registered]
  BY DEF RegisterUnsupported, Register
<1>6. CASE UNCHANGED state
  BY <1>1, <1>2, <1>3, <1>6, QuietStutter
<1>7. CASE state' = [state EXCEPT ![r] = Registered]
  <2>1. state'[r].phase = "initial"
    BY <1>7 DEF Registered, RequestsInv, RequestsTypeOK
  <2>2. Decision(r) = "plain" /\ Decision(r)' = "open"
    BY <1>1, <1>4, <2>1, DecisionIs, DecisionNext DEF DecisionTable
  <2>3. \A q \in Requests : q # r => Kept(q)
    BY <1>1, OthersKept
  <2>4. Abstract!Decide(r, {"plain"}, "open")
    BY <2>2, <2>3, Decides DEF Moves
  <2>5. \A q \in Requests : request'[q].computed = request[q].computed
    BY <1>2, <2>3 DEF Kept
  <2>6. QED  BY <2>4, <2>5 DEF Abstract!Enter
<1>8. QED  BY <1>5, <1>6, <1>7

\* A request that computes from where it is.
LEMMA ComputesCounted ==
  ASSUME RequestsInv, NEW r \in Requests, NEW start,
         NEW n \in 0 .. PromptTokens, Computes(r, start, n)
  PROVE  request'[r].computed = n /\ request'[r].stage = "running"
  BY DEF Computes, RequestsInv, RequestsTypeOK, EngineRequests

LEMMA PrefillImplements ==
  ASSUME RequestsInv, RequestsInv', NEW r \in Requests,
         PrefillToBoundary(r) \/ Prefill(r)
  PROVE  \E n \in 0 .. PromptTokens : Abstract!Compute(r, n)
<1>1. PICK start \in Starts(r), n \in 0 .. PromptTokens :
        Computes(r, start, n) /\ (state[r].phase = "initial" => n <= CalibrationStart)
  BY StartsTyped, PlanAssumption DEF PrefillToBoundary, Prefill
<1>2. /\ MayPrefill(r) /\ UNCHANGED <<state, pending, job>> /\ RequestStep(r)
      /\ request[r].stage \in {"queued", "running"} /\ ~request[r].scheduled
  BY DEF PrefillToBoundary, Prefill, schedulerVars, RequestStep, MayPrefill, InStage
<1>3. request'[r].computed = n /\ request'[r].stage = "running"
  BY <1>1, ComputesCounted
<1>4. ~HandedOver(r)
  BY <1>2, NotHandedOver
<1>5. HandedOver(r)' <=> HandedOver(r)
  BY <1>2 DEF HandedOver
<1>6. Decision(r)' = Decision(r)
  BY <1>2, <1>3, <1>5 DEF Decision
<1>7. \/ Decision(r) = "open" /\ n <= CalibrationStart
      \/ Decision(r) \in {"plain", "refused", "settled"}
  <2>1. RequestFits(r) /\ state[r].phase \in Phases
    BY DEF RequestsInv, RequestsTypeOK, States
  <2>2. state[r].phase # "waiting" /\ (state[r].phase = "activated" => state[r].lease = "worker")
    BY <1>2, <2>1 DEF RequestFits, PhaseFits
  <2>3. CASE state[r].phase = "initial"
    BY <1>1, <2>3, DecisionIs DEF DecisionTable
  <2>4. CASE state[r].phase # "initial"
    BY <1>2, <1>4, <2>1, <2>2, <2>4, DecisionIs DEF DecisionTable, Phases
  <2>5. QED  BY <2>3, <2>4
<1>8. \A q \in Requests : q # r => Kept(q)
  BY <1>2, OthersKept
<1>9. \A q \in Requests : Decision(q)' = Decision(q)
  BY <1>6, <1>8 DEF Kept
<1>10. QED  BY <1>3, <1>7, <1>8, <1>9, Recounts DEF Abstract!Compute

LEMMA PreemptImplements ==
  ASSUME RequestsInv, RequestsInv', NEW r \in Requests, Preempt(r)
  PROVE  Abstract!Compute(r, 0)
<1>1. /\ UNCHANGED <<state, pending, job>> /\ RequestStep(r)
      /\ request[r].stage = "running" /\ ~request[r].scheduled
      /\ request' = [request EXCEPT ![r] = [Arriving EXCEPT !.stage = "queued"]]
  BY DEF Preempt, schedulerVars, RequestStep, InStage
<1>2. request'[r].stage = "queued" /\ request'[r].computed = 0
  BY <1>1 DEF Arriving, RequestsInv, RequestsTypeOK
<1>3. ~HandedOver(r)
  BY <1>1, NotHandedOver
<1>4. HandedOver(r)' <=> HandedOver(r)
  BY <1>1 DEF HandedOver
<1>5. Decision(r)' = Decision(r)
  BY <1>1, <1>2, <1>4 DEF Decision
<1>6. Decision(r) \in {"open", "plain", "refused", "settled"}
  <2>1. RequestFits(r) /\ state[r].phase \in Phases
    BY DEF RequestsInv, RequestsTypeOK, States
  <2>2. state[r].phase # "waiting" /\ (state[r].phase = "activated" => state[r].lease = "worker")
    BY <1>1, <2>1 DEF RequestFits, PhaseFits
  <2>3. QED  BY <1>1, <1>3, <2>1, <2>2, DecisionIs DEF DecisionTable, Phases
<1>7. \A q \in Requests : q # r => Kept(q)
  BY <1>1, OthersKept
<1>8. \A q \in Requests : Decision(q)' = Decision(q)
  BY <1>5, <1>7 DEF Kept
<1>9. 0 <= CalibrationStart
  BY PlanAssumption
<1>10. QED  BY <1>2, <1>6, <1>7, <1>8, <1>9, Recounts DEF Abstract!Compute

\* A decision that leaves the count alone.
LEMMA Uncounted ==
  ASSUME NEW r \in Requests, \A q \in Requests : q # r => Kept(q),
         request'[r].computed = request[r].computed
  PROVE  [q \in Requests |-> request[q].computed]' = [q \in Requests |-> request[q].computed]
  BY DEF Kept

\* A request found beyond the boundary.
LEMMA TooLateImplements ==
  ASSUME RequestsInv, RequestsInv', NEW r \in Requests, PrefillPastBoundary(r)
  PROVE  \E n \in 0 .. PromptTokens : Abstract!TooLate(r, n)
<1> DEFINE s == [state[r] EXCEPT !.phase = "fallback"]
<1>1. PICK start \in Starts(r), n \in 0 .. PromptTokens : Computes(r, start, n)
  BY StartsTyped, PlanAssumption DEF PrefillPastBoundary
<1>2. ReleaseLease(r, s) /\ state[r].phase = "initial" /\ RequestStep(r)
  BY DEF PrefillPastBoundary, RequestStep
<1>3. state'[r].phase = "fallback"
  <2>1. state \in [Requests -> States]
    BY DEF RequestsInv, RequestsTypeOK
  <2>2. QED  BY <1>2, <2>1 DEF ReleaseLease, States
<1>4. request'[r].computed = n
  BY <1>1, ComputesCounted
<1>5. Decision(r) = "open" /\ Decision(r)' = "refused"
  BY <1>2, <1>3, DecisionIs, DecisionNext DEF DecisionTable
<1>6. \A q \in Requests : q # r => Kept(q)
  BY <1>2, OthersKept
<1>7. Abstract!Decide(r, {"open"}, "refused")
  BY <1>5, <1>6, Decides DEF Moves
<1>8. QED  BY <1>4, <1>6, <1>7, Recounts DEF Abstract!TooLate

LEMMA PollImplements ==
  ASSUME RequestsInv, RequestsInv', NEW r \in Requests, Poll(r)
  PROVE  UNCHANGED Abstract!prefillVars
<1>1. RequestStep(r) /\ UNCHANGED <<pending, job, request>>
  BY DEF RequestStep, Poll, PollOnce, engineVars
<1>2. PICK a \in Answers : state' = [state EXCEPT ![r].readiness = a]
  BY DEF Poll, PollOnce, CombinedReadiness, Answers
<1>3. state'[r].phase = state[r].phase /\ state'[r].lease = state[r].lease
  BY <1>2 DEF RequestsInv, RequestsTypeOK, States
<1>4. HandedOver(r)' <=> HandedOver(r)
  BY <1>1 DEF HandedOver
<1>5. QED  BY <1>1, <1>3, <1>4, QuietStutter

LEMMA GrantImplements ==
  ASSUME RequestsInv, RequestsInv', NEW r \in Requests, Activate(r)
  PROVE  Abstract!Grant(r)
<1>1. /\ Held(r) /\ request[r].computed = CalibrationStart /\ RequestStep(r)
      /\ state' = [state EXCEPT ![r] = [Reset(r) EXCEPT !.phase = "activated"]]
      /\ request' = [request EXCEPT ![r].stage = "granted"]
  BY DEF Activate, ActivationValid, RequestStep
<1>2. state[r].phase = "waiting" /\ state[r].lease = "scheduler" /\ state[r] \in States
  BY <1>1, HeldWaits
<1>3. state'[r].phase = "activated" /\ state'[r].lease = "scheduler"
  BY <1>1, <1>2 DEF Reset, States, RequestsInv, RequestsTypeOK
<1>4. request'[r].computed = request[r].computed
  BY <1>1, Restaged DEF Stages
<1>5. Decision(r) = "held" /\ Decision(r)' = "granted"
  BY <1>2, <1>3, DecisionIs, DecisionNext DEF DecisionTable
<1>6. \A q \in Requests : q # r => Kept(q)
  BY <1>1, OthersKept
<1>7. Abstract!Decide(r, {"held"}, "granted")
  BY <1>5, <1>6, Decides DEF Moves
<1>8. QED  BY <1>1, <1>4, <1>6, <1>7, Uncounted DEF Abstract!Grant

\* The ways to be refused.
LEMMA RefuseImplements ==
  ASSUME RequestsInv, RequestsInv', NEW r \in Requests,
         ActivationFails(r) \/ ActivationRefused(r) \/ AllocationFailed(r)
  PROVE  Abstract!Refuse(r)
<1>1. RequestStep(r) /\ request' = [request EXCEPT ![r].stage = "running"]
  BY DEF ActivationFails, ActivationRefused, AllocationFailed, RequestStep
<1>2. request'[r].computed = request[r].computed
  BY <1>1, Restaged DEF Stages
<1>3. state \in [Requests -> States] /\ RequestFits(r)
  BY DEF RequestsInv, RequestsTypeOK
<1>4. Decision(r) \in {"held", "granted"} /\ state'[r].phase = "fallback"
  <2>1. CASE ActivationFails(r)
    <3>1. state'[r].phase = "fallback"
      BY <1>3, <2>1 DEF ActivationFails, Reset, States
    <3>2. state[r].phase = "waiting"
      BY <2>1 DEF ActivationFails, Held
    <3>3. QED  BY <3>1, <3>2, DecisionIs DEF DecisionTable
  <2>2. CASE ActivationRefused(r)
    <3>1. state'[r].phase = "fallback"
      BY <1>3, <2>2 DEF ActivationRefused, Reset, ReleaseLease, States
    <3>2. state[r].phase = "waiting"
      BY <2>2 DEF ActivationRefused, Held
    <3>3. QED  BY <3>1, <3>2, DecisionIs DEF DecisionTable
  <2>3. CASE AllocationFailed(r)
    <3>1. state'[r].phase = "fallback"
      BY <1>3, <2>3 DEF AllocationFailed, ReleaseLease, States
    <3>2. state[r].phase = "activated" /\ state[r].lease = "scheduler"
      BY <1>3, <2>3 DEF AllocationFailed, InStage, RequestFits, StageFits
    <3>3. QED  BY <3>1, <3>2, DecisionIs DEF DecisionTable
  <2>4. QED  BY <2>1, <2>2, <2>3
<1>5. Decision(r)' = "refused"
  BY <1>4, DecisionNext DEF DecisionTable
<1>6. \A q \in Requests : q # r => Kept(q)
  BY <1>1, OthersKept
<1>7. Abstract!Decide(r, {"held", "granted"}, "refused")
  BY <1>4, <1>5, <1>6, Decides DEF Moves
<1>8. QED  BY <1>2, <1>6, <1>7, Uncounted DEF Abstract!Refuse

LEMMA SkipImplements ==
  ASSUME RequestsInv, RequestsInv', NEW r \in Requests, Allocate(r)
  PROVE  \E n \in 0 .. PromptTokens : Abstract!Skip(r, n)
<1>1. /\ HandoffOK(r) /\ pending' = pending \cup {r} /\ RequestStep(r)
      /\ state' = [state EXCEPT ![r].lease = "worker"]
  BY DEF Allocate, RequestStep
<1>2. PICK n \in ReuseEnd + 1 .. PromptTokens :
        request' = [request EXCEPT ![r] =
          [stage |-> "running", computed |-> n, scheduled |-> TRUE,
           external |-> TRUE, installed |-> {}]]
  BY DEF Allocate
<1>3. request'[r].computed = n
  BY <1>2 DEF RequestsInv, RequestsTypeOK
<1>4. n \in 0 .. PromptTokens /\ n >= ReuseEnd
  BY PlanAssumption
<1>5. state'[r].phase = state[r].phase
  BY <1>1 DEF RequestsInv, RequestsTypeOK, States
<1>6. HandedOver(r)'
  BY <1>1 DEF HandedOver
<1>7. Decision(r) = "granted" /\ Decision(r)' = "skipped"
  BY <1>1, <1>5, <1>6, DecisionIs, DecisionNext DEF HandoffOK, DecisionTable
<1>8. \A q \in Requests : q # r => Kept(q)
  BY <1>1, OthersKept
<1>9. Abstract!Decide(r, {"granted"}, "skipped")
  BY <1>7, <1>8, Decides DEF Moves
<1>10. Abstract!Skip(r, n)
  BY <1>3, <1>4, <1>8, <1>9, Recounts DEF Abstract!Skip
<1>11. QED  BY <1>4, <1>10

LEMMA FinishImplements ==
  ASSUME RequestsInv, RequestsInv', NEW r \in Requests, Finish(r)
  PROVE  Abstract!Leave(r)
<1>1. /\ RequestStep(r) /\ request[r].stage \in {"queued", "running", "held"}
      /\ ~request[r].scheduled
      /\ request' = [request EXCEPT ![r] = [Arriving EXCEPT !.stage = "done"]]
  BY DEF Finish, InStage, RequestStep
<1>2. request'[r].stage = "done" /\ request'[r].computed = 0
  BY <1>1 DEF Arriving, RequestsInv, RequestsTypeOK
<1>3. ~HandedOver(r)
  BY <1>1, NotHandedOver
<1>4. Decision(r)' = "over"
  BY <1>2, DecisionNext DEF DecisionTable
<1>5. Decision(r) \in {"plain", "open", "held", "refused", "settled"}
  <2>1. RequestFits(r) /\ state[r].phase \in Phases
    BY DEF RequestsInv, RequestsTypeOK, States
  <2>2. state[r].phase = "activated" => state[r].lease = "worker"
    BY <1>1, <2>1 DEF RequestFits, PhaseFits
  <2>3. QED  BY <1>1, <1>3, <2>1, <2>2, DecisionIs DEF DecisionTable, Phases
<1>6. \A q \in Requests : q # r => Kept(q)
  BY <1>1, OthersKept
<1>7. Abstract!Decide(r, {"plain", "open", "held", "refused", "settled"}, "over")
  BY <1>4, <1>5, <1>6, Decides DEF Moves
<1>8. QED  BY <1>2, <1>6, <1>7, Recounts DEF Abstract!Leave

LEMMA RequestStepImplements ==
  ASSUME RequestsInv, NEW r \in Requests, RequestStep(r)
  PROVE  Abstract!PrefillNext \/ UNCHANGED Abstract!prefillVars
<1>1. RequestsInv'
  BY RequestStepKeeps
<1>2. CASE RegisterUnsupported(r) \/ Register(r)
  BY <1>1, <1>2, RegisterImplements DEF Abstract!PrefillNext
<1>3. CASE PrefillToBoundary(r) \/ Prefill(r)
  BY <1>1, <1>3, PrefillImplements DEF Abstract!PrefillNext
<1>4. CASE PrefillPastBoundary(r)
  BY <1>1, <1>4, TooLateImplements DEF Abstract!PrefillNext
<1>5. CASE Preempt(r)
  <2>1. 0 \in 0 .. PromptTokens
    BY PlanAssumption
  <2>2. QED  BY <1>1, <1>5, <2>1, PreemptImplements DEF Abstract!PrefillNext
<1>6. CASE Poll(r)
  BY <1>1, <1>6, PollImplements
<1>7. CASE Activate(r)
  BY <1>1, <1>7, GrantImplements DEF Abstract!PrefillNext
<1>8. CASE ActivationFails(r) \/ ActivationRefused(r) \/ AllocationFailed(r)
  BY <1>1, <1>8, RefuseImplements DEF Abstract!PrefillNext
<1>9. CASE Allocate(r)
  BY <1>1, <1>9, SkipImplements DEF Abstract!PrefillNext
<1>10. CASE Finish(r)
  BY <1>1, <1>10, FinishImplements DEF Abstract!PrefillNext
<1>11. QED
  BY <1>2, <1>3, <1>4, <1>5, <1>6, <1>7, <1>8, <1>9, <1>10 DEF RequestStep

------------------------------------------------------------------------------
(* The steps of the engine and of the ranks                                *)

LEMMA StartStepImplements ==
  ASSUME RequestsInv, StartStep
  PROVE  UNCHANGED Abstract!prefillVars
<1>1. /\ engine = "schedule" /\ pending' = {} /\ UNCHANGED <<state, request>>
      /\ job' = [r \in Requests |-> [k \in Ranks |-> IF r \in pending THEN "todo" ELSE "none"]]
  BY DEF StartStep, Scheduling
<1>2. ASSUME NEW r \in Requests PROVE Kept(r)
  <2>1. \A k \in Ranks : job[r][k] = "none"
    BY <1>1 DEF RequestsInv, RequestFits, HandoverFits
  <2>2. HandedOver(r) <=> r \in pending
    BY <2>1 DEF HandedOver
  <2>3. HandedOver(r)' <=> r \in pending
    BY <1>1, ControlAssumption DEF HandedOver
  <2>4. QED  BY <1>1, <2>2, <2>3 DEF Kept, Decision
<1>3. QED  BY <1>2, NothingMoves

LEMMA WorkImplements ==
  ASSUME RequestsInv, NEW k \in Ranks, NEW r \in Requests,
         WorkerInstalls(k, r) \/ WorkerFails(k, r)
  PROVE  UNCHANGED Abstract!prefillVars
<1>1. job \in [Requests -> [Ranks -> JobStates]] /\ request \in [Requests -> EngineRequests]
  BY DEF RequestsInv, RequestsTypeOK
<1>2. /\ job[r][k] = "todo" /\ UNCHANGED <<state, pending>>
      /\ \E result \in {"ok", "failed"} : job' = [job EXCEPT ![r][k] = result]
  BY DEF WorkerInstalls, WorkerFails, schedulerVars
<1>3. ASSUME NEW q \in Requests
      PROVE  request'[q].stage = request[q].stage /\ request'[q].computed = request[q].computed
  BY <1>1 DEF WorkerInstalls, WorkerFails, EngineRequests
<1>4. ASSUME NEW q \in Requests PROVE HandedOver(q)' <=> HandedOver(q)
  BY <1>1, <1>2 DEF HandedOver
<1>5. ASSUME NEW q \in Requests PROVE Kept(q)
  BY <1>2, <1>3, <1>4 DEF Kept, Decision
<1>6. QED  BY <1>5, NothingMoves

\* update_from_output decides the whole batch: who reached the boundary is held, who
\* was handed over settles, whoever has an invalid block in its range is revoked, and
\* who has another one starts over.
LEMMA OutputDecides ==
  ASSUME RequestsInv, BlocksInv, RequestsInv', UpdateFromOutput, NEW errors \in SUBSET fetched,
         state' = [q \in Requests |-> StateAfterOutput(q, errors \cup Reported)],
         request' = [q \in Requests |-> RequestAfterOutput(q, errors \cup Reported)],
         NEW r \in Requests
  PROVE  LET held == AtBoundary(errors \cup Reported)
             revoked == FailedRequests(errors \cup Reported)
             again == Rewound(errors \cup Reported)
         IN /\ r \in held => /\ Decision(r) = "open" /\ request[r].computed = CalibrationStart
                             /\ Decision(r)' = "held" /\ r \notin again
            /\ r \in revoked => Decision(r) \in {"skipped", "settled"} /\ Decision(r)' = "refused"
            /\ r \in again => Decision(r) \in {"plain", "open", "refused", "settled"}
            /\ r \notin revoked /\ Decision(r) = "skipped" => Decision(r)' = "settled"
            /\ r \notin held \cup revoked /\ Decision(r) # "skipped" => Decision(r)' = Decision(r)
            /\ request'[r].computed = IF r \in again THEN 0
                                      ELSE IF r \in revoked THEN RecomputeFrom
                                      ELSE request[r].computed
<1> DEFINE invalid == errors \cup Reported
           held == AtBoundary(invalid)
           revoked == FailedRequests(invalid)
           again == Rewound(invalid)
<1>1. /\ engine = "execute" /\ UNCHANGED pending
      /\ state'[r] = StateAfterOutput(r, invalid) /\ request'[r] = RequestAfterOutput(r, invalid)
      /\ \A k \in Ranks : job'[r][k] = "none" /\ job[r][k] # "todo"
  BY DEF UpdateFromOutput, Idle
<1>2. state[r] \in States /\ request[r] \in EngineRequests /\ RequestFits(r)
      /\ state[r].phase \in Phases
  BY DEF RequestsInv, RequestsTypeOK, States
<1>3. r \in revoked => state[r].phase = "activated" /\ state[r].lease = "worker"
  <2>1. \A k \in Ranks : job[r][k] # "todo"
    BY <1>1
  <2>2. \A q \in Requests : q \in FailedRequests(invalid)
          /\ (\A k \in Ranks : job[q][k] # "todo") => state[q].lease = "worker"
    BY FailureIsOver
  <2>3. QED  BY <2>1, <2>2 DEF FailedRequests
<1>4. r \in again => /\ request[r].stage = "running" /\ ~HandedOver(r)
  <2>1. \A q \in Requests : q \in Rewound(invalid) => q \in began
    BY RewoundBegan
  <2>2. QED  BY <1>2, <2>1 DEF BlocksInv, BlocksFit, BeganFits, RequestFits, StageFits
<1> HIDE DEF invalid
<1>5. ~HandedOver(r)'
  <2>1. r \notin pending
    BY <1>1, <1>2 DEF RequestFits, HandoverFits
  <2>2. QED  BY <1>1, <2>1 DEF HandedOver
<1>6. r \in held => /\ r \notin revoked /\ r \notin again /\ state[r].phase = "initial"
                    /\ request[r].computed = CalibrationStart
  BY PlanAssumption DEF AtBoundary, FailedRequests, ComputedAfter
<1>7. /\ request'[r].stage = (IF r \in held THEN "held" ELSE request[r].stage)
      /\ request'[r].computed = IF r \in again THEN 0
                                ELSE IF r \in revoked THEN RecomputeFrom
                                ELSE request[r].computed
  BY <1>1, <1>2 DEF RequestAfterOutput, EngineRequests, ComputedAfter
<1>8. r \in held => Decision(r) = "open" /\ Decision(r)' = "held"
  <2> SUFFICES ASSUME r \in held PROVE Decision(r) = "open" /\ Decision(r)' = "held"
    OBVIOUS
  <2>1. state'[r].phase = "waiting"
    BY <1>1, <1>2, <1>6 DEF StateAfterOutput, States
  <2>2. QED  BY <1>6, <2>1, DecisionIs, DecisionNext DEF DecisionTable
<1>9. r \in revoked => Decision(r) \in {"skipped", "settled"} /\ Decision(r)' = "refused"
  <2> SUFFICES ASSUME r \in revoked
               PROVE  Decision(r) \in {"skipped", "settled"} /\ Decision(r)' = "refused"
    OBVIOUS
  <2>1. state'[r].phase = "fallback"
    BY <1>1, <1>2 DEF StateAfterOutput, States
  <2>2. QED  BY <1>3, <2>1, DecisionIs, DecisionNext DEF DecisionTable
<1>10. r \in again => Decision(r) \in {"plain", "open", "refused", "settled"}
  <2> SUFFICES ASSUME r \in again
               PROVE  Decision(r) \in {"plain", "open", "refused", "settled"}
    OBVIOUS
  <2>1. /\ state[r].phase # "waiting"
        /\ state[r].phase = "activated" => state[r].lease = "worker"
    BY <1>2, <1>4 DEF RequestFits, PhaseFits
  <2>2. QED  BY <1>2, <1>4, <2>1, DecisionIs DEF DecisionTable, Phases
<1>11. r \notin revoked /\ r \notin held => UNCHANGED <<state[r], request[r].stage>>
  BY <1>1, <1>7 DEF StateAfterOutput
<1>12. r \notin revoked /\ Decision(r) = "skipped" => Decision(r)' = "settled"
  <2> SUFFICES ASSUME r \notin revoked, Decision(r) = "skipped" PROVE Decision(r)' = "settled"
    OBVIOUS
  <2>1. state[r].phase = "activated" /\ state[r].lease # "scheduler"
    BY <1>2 DEF Decision, Phases
  <2>2. state[r].lease = "worker"
    BY <1>2, <2>1 DEF RequestFits, PhaseFits
  <2>3. state'[r].phase = "activated" /\ state'[r].lease = "worker"
    BY <1>8, <1>11, <2>1, <2>2
  <2>4. QED  BY <1>5, <2>3, DecisionNext DEF DecisionTable
<1>13. r \notin held \cup revoked /\ Decision(r) # "skipped" => Decision(r)' = Decision(r)
  <2> SUFFICES ASSUME r \notin held, r \notin revoked, Decision(r) # "skipped"
               PROVE  Decision(r)' = Decision(r)
    OBVIOUS
  <2>1. UNCHANGED <<state[r], request[r].stage>>
    BY <1>11
  <2>2. CASE state[r].phase = "activated"
    <3>1. ~HandedOver(r)
      BY <2>2, DecisionIs DEF DecisionTable
    <3>2. QED  BY <1>5, <2>1, <3>1 DEF Decision
  <2>3. CASE state[r].phase # "activated"
    BY <1>2, <2>1, <2>3, DecisionIs, DecisionNext DEF DecisionTable, Phases
  <2>4. QED  BY <2>2, <2>3
<1>14. QED  BY <1>6, <1>7, <1>8, <1>9, <1>10, <1>12, <1>13 DEF invalid

LEMMA OutputImplements ==
  ASSUME RequestsInv, BlocksInv, UpdateFromOutput
  PROVE  Abstract!PrefillNext
<1>1. PICK errors \in SUBSET fetched :
        /\ state' = [q \in Requests |-> StateAfterOutput(q, errors \cup Reported)]
        /\ request' = [q \in Requests |-> RequestAfterOutput(q, errors \cup Reported)]
  BY DEF UpdateFromOutput
<1> DEFINE invalid == errors \cup Reported
<1>2. PICK held \in SUBSET Requests : held = AtBoundary(invalid)
  BY DEF AtBoundary
<1>3. PICK revoked \in SUBSET Requests : revoked = FailedRequests(invalid)
  BY DEF FailedRequests
<1>4. PICK settled \in SUBSET Requests :
        settled = {r \in Requests : Decision(r) = "skipped"} \ FailedRequests(invalid)
  OBVIOUS
<1>5. PICK again \in SUBSET Requests : again = Rewound(invalid)
  BY DEF Rewound
<1>6. RequestsInv'
  BY UpdateKeeps
<1>7. ASSUME NEW r \in Requests
      PROVE  /\ r \in held => Decision(r) = "open" /\ request[r].computed = CalibrationStart
             /\ r \in held => r \notin again
             /\ r \in settled => Decision(r) = "skipped"
             /\ r \in revoked => Decision(r) \in {"skipped", "settled"}
             /\ r \in again => Decision(r) \in {"plain", "open", "refused", "settled"}
             /\ Decision(r)' = (CASE r \in held -> "held" [] r \in settled -> "settled"
                                  [] r \in revoked -> "refused" [] OTHER -> Decision(r))
             /\ request'[r].computed = IF r \in again THEN 0
                                       ELSE IF r \in revoked THEN RecomputeFrom
                                       ELSE request[r].computed
  BY <1>1, <1>2, <1>3, <1>4, <1>5, <1>6, OutputDecides
<1>8. settled \cap revoked = {} /\ held \cap again = {}
  BY <1>3, <1>4, <1>7
<1>9. RecomputeFrom \in 0 .. CalibrationStart
  BY RecomputesEnough
<1>10. Abstract!Land(held, settled, revoked, again)
  BY <1>7, <1>8, <1>9 DEF Abstract!Land
<1>11. QED  BY <1>10 DEF Abstract!PrefillNext

LEMMA StepImplements ==
  ASSUME RequestsInv, BlocksInv, [CoordinatorNext]_coordinationVars
  PROVE  [Abstract!PrefillNext]_(Abstract!prefillVars)
<1>1. CASE \E r \in Requests : RequestStep(r)
  BY <1>1, RequestStepImplements
<1>2. CASE StartStep
  BY <1>2, StartStepImplements
<1>3. CASE WorkStep
  BY <1>3, WorkImplements DEF WorkStep
<1>4. CASE UpdateFromOutput
  BY <1>4, OutputImplements
<1>5. CASE UNCHANGED <<schedulerVars, engineVars>>
  <2>1. \A r \in Requests : Kept(r)
    BY <1>5 DEF Kept, Decision, HandedOver, schedulerVars, engineVars
  <2>2. QED  BY <2>1, NothingMoves
<1>6. QED
  BY <1>1, <1>2, <1>3, <1>4, <1>5 DEF CoordinatorNext, Drained, coordinationVars

\* The scheduler, the control channel, the workers and the engine together take a prefill
\* only through the steps PrefillReuse allows: held at the boundary until decided, granted
\* at most once, and computed again from the boundary when the grant is revoked.
THEOREM CoordinatorImplementsPrefill == CoordinatorSpec => ImplementsPrefill
<1>1. CoordinatorInit => Abstract!PrefillInit
  BY DEF CoordinatorInit, Abstract!PrefillInit, Decision, NoState, Arriving
<1>2. CoordinatorInv /\ [CoordinatorNext]_coordinationVars
        => [Abstract!PrefillNext]_(Abstract!prefillVars)
  BY StepImplements DEF CoordinatorInv
<1>3. QED
  BY <1>1, <1>2, CoordinatorInvariant, PTL DEF CoordinatorSpec, ImplementsPrefill,
     Abstract!PrefillSpec
==============================================================================
