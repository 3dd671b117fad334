------------------------ MODULE SchedulerCoordinatorProofs --------------------
(***************************************************************************)
(* Proofs about SchedulerCoordinator for any number of requests, ranks and *)
(* faults, any plan and any block size.  The invariant has two parts.      *)
(* RequestsInv speaks of one request at a time: how the scheduler's phase  *)
(* and lease go with the engine's stage, with what was handed to the       *)
(* workers, and with the tickets of the ranks.  BlocksInv speaks of the    *)
(* requests together: who may share which block of the cache.  It is why   *)
(* a failure that is matched by block ids is its request's.                *)
(***************************************************************************)
EXTENDS SchedulerCoordinator, TLAPS

Over(r) == \A k \in Ranks : ticket[k][r].binding = "ended"

Working(r) == \E k \in Ranks : job[r][k] # "none"

\* The phase, the lease and the engine's stage of a request.
PhaseFits(r) ==
  /\ state[r].phase = "none" => state[r].lease = "released"
  /\ state[r].phase = "initial" =>
       state[r].lease = "scheduler" /\ request[r].stage \in {"queued", "running"}
  /\ state[r].phase = "waiting" => state[r].lease = "scheduler" /\ request[r].stage = "held"
  /\ request[r].stage = "held" => state[r].phase = "waiting"
  /\ state[r].phase = "activated" =>
       \/ state[r].lease = "scheduler" /\ request[r].stage = "granted"
       \/ state[r].lease = "worker" /\ request[r].stage \in {"queued", "running"}
  /\ state[r].phase = "fallback" =>
       state[r].lease # "worker" /\ request[r].stage \in {"queued", "running"}
  /\ state[r].readiness # "none" => state[r].phase = "waiting"

StageFits(r) ==
  /\ request[r].scheduled => request[r].stage = "running"
  /\ request[r].external => state[r].lease = "worker"
  /\ request[r].stage = "granted" =>
       /\ state[r].phase = "activated" /\ state[r].lease = "scheduler"
       /\ r \in transported

\* What was handed over.
HandoverFits(r) ==
  /\ r \in pending => engine = "schedule" /\ state[r].lease = "worker" /\ request[r].scheduled
  /\ engine = "schedule" => \A k \in Ranks : job[r][k] = "none"
  /\ Working(r) =>
       /\ state[r].lease = "worker"
       /\ request[r].scheduled
       /\ \A k \in Ranks : job[r][k] # "none"
  /\ \A k \in Ranks :
       /\ job[r][k] = "ok" => k \in request[r].installed
       /\ job[r][k] \in {"ok", "failed"} => ticket[k][r].binding = "ended"
  /\ request[r].external /\ ~HandedOver(r) => request[r].installed = Ranks

LeaseFits(r) ==
  /\ state[r].phase # "none" /\ state[r].lease = "released" => Over(r)
  /\ state[r].lease = "worker" /\ ~HandedOver(r) => Over(r)
  /\ state[r].readiness = "ready" =>
       \A k \in Ranks : \/ ticket[k][r].planned /\ ticket[k][r].host = "ready"
                        \/ ticket[k][r].binding = "ended"

RequestFits(r) == PhaseFits(r) /\ StageFits(r) /\ HandoverFits(r) /\ LeaseFits(r)

RequestsTypeOK ==
  /\ ticket \in [Ranks -> [Requests -> Ticket]]
  /\ late \subseteq Message
  /\ faults \in 0 .. MaxFaults
  /\ state \in [Requests -> States]
  /\ prepared \subseteq Requests /\ transported \subseteq Requests /\ pending \subseteq Requests
  /\ engine \in {"schedule", "execute"}
  /\ request \in [Requests -> EngineRequests]
  /\ job \in [Requests -> [Ranks -> JobStates]]

RequestsInv ==
  /\ RequestsTypeOK
  /\ \A r \in Requests : RequestFits(r)

------------------------------------------------------------------------------
(* The block tables: why a failure matched by block ids is its request's.   *)

First == CalibrationStart \div BlockSize

\* Reuse of the request is possible and its range is not yet handed over.
Undecided(r) ==
  \/ state[r].phase \in {"initial", "waiting"}
  \/ state[r].phase = "activated" /\ state[r].lease = "scheduler"

\* A request that began in this step is scheduled, and has nothing handed over.
BeganFits(r) == r \in began => request[r].scheduled /\ ~HandedOver(r)

EmptyFits(r) ==
  request[r].stage \in {"new", "queued", "done"} =>
    request[r].computed = 0 /\ \A i \in Places : blocks[r][i] = NoBlock

\* Only a request that began in this step has blocks that LMCache is to fill.
FetchedFits(r) == \A i \in Places : <<i, blocks[r][i]>> \in fetched => r \in began

SharesAt(r, q, i) == blocks[r][i] # NoBlock /\ blocks[q][i] = blocks[r][i]

\* From the boundary on nobody shares a block of an undecided request,
OwnFits(r) ==
  Undecided(r) =>
    /\ request[r].computed <= CalibrationStart
    /\ \A q \in Requests, i \in Places : q # r /\ i >= First => ~SharesAt(r, q, i)

\* and only requests that began in this step share one that was handed over.
HandedFits(r) ==
  HandedOver(r) =>
    /\ blocks[r][First] # NoBlock
    /\ \A q \in Requests, i \in Places : q # r /\ i >= First /\ SharesAt(r, q, i) => q \in began

BlocksFit(r) ==
  BeganFits(r) /\ EmptyFits(r) /\ FetchedFits(r) /\ OwnFits(r) /\ HandedFits(r)

FetchedHeld ==
  \A i \in Places, c \in 1 .. Copies :
    <<i, c>> \in fetched => \E r \in began : blocks[r][i] = c

BlocksTypeOK ==
  /\ blocks \in [Requests -> [Places -> 0 .. Copies]]
  /\ fetched \subseteq Places \X (1 .. Copies)
  /\ began \subseteq Requests

BlocksInv ==
  /\ BlocksTypeOK
  /\ FetchedHeld
  /\ \A r \in Requests : BlocksFit(r)

CoordinatorInv == RequestsInv /\ BlocksInv

------------------------------------------------------------------------------
(* The tickets of the ranks                                                *)

TicketTables == [Ranks -> [Requests -> Ticket]]

\* What no step undoes.
Tame(s, t) ==
  /\ s.binding = "ended" => t.binding = "ended"
  /\ s.planned => t.planned
  /\ s.host = "ready" => t.host = "ready"

\* What every step does to the variables of the control channel.
ControlMoves ==
  /\ ticket' \in TicketTables
  /\ \A k \in Ranks, r \in Requests : Tame(ticket[k][r], ticket'[k][r])
  /\ late' \subseteq Message
  /\ faults' \in 0 .. MaxFaults

LEMMA EndTyped ==
  ASSUME NEW s \in Ticket
  PROVE  End(s) \in Ticket /\ End(s).binding = "ended" /\ Tame(s, End(s)) /\ End(s).host = s.host
  BY DEF Ticket, End, Tame

LEMMA HandleTyped ==
  ASSUME NEW s \in Ticket, NEW c \in Commands
  PROVE  /\ Handle(c, s) \in Ticket
         /\ Tame(s, Handle(c, s))
         /\ c = "release" => Handle(c, s).binding = "ended"
         /\ c = "activate" /\ Grants(c, s) => Handle(c, s).binding = "active"
<1>1. CASE c = "prepare"
  BY <1>1 DEF Handle, Ticket, Tame
<1>2. CASE c = "activate"
  BY <1>2 DEF Handle, Grants, Activates, Ticket, Tame
<1>3. CASE c \in {"decline", "release", "cancel"}
  BY <1>3, EndTyped DEF Handle, Ticket, Tame
<1>4. QED  BY <1>1, <1>2, <1>3 DEF Commands

LEMMA AfterTyped ==
  ASSUME NEW tickets \in TicketTables, NEW S \in SUBSET Ranks, NEW c \in Commands,
         NEW r \in Requests
  PROVE  /\ After(tickets, S, c, r) \in TicketTables
         /\ \A k \in Ranks, q \in Requests :
              After(tickets, S, c, r)[k][q] =
                IF k \in S /\ q = r THEN Handle(c, tickets[k][r]) ELSE tickets[k][q]
<1>1. \A k \in Ranks : tickets[k] \in [Requests -> Ticket] /\ Handle(c, tickets[k][r]) \in Ticket
  BY HandleTyped DEF TicketTables
<1>2. \A k \in Ranks : [tickets[k] EXCEPT ![r] = Handle(c, @)] \in [Requests -> Ticket]
  BY <1>1
<1>3. QED  BY <1>1, <1>2 DEF After, TicketTables

LEMMA AfterTame ==
  ASSUME NEW tickets \in TicketTables, NEW S \in SUBSET Ranks, NEW c \in Commands,
         NEW r \in Requests, NEW k \in Ranks, NEW q \in Requests
  PROVE  Tame(tickets[k][q], After(tickets, S, c, r)[k][q])
<1>1. tickets[k][q] \in Ticket /\ tickets[k][r] \in Ticket
  BY DEF TicketTables
<1>2. Tame(tickets[k][q], tickets[k][q])
  BY DEF Tame
<1>3. Tame(tickets[k][r], Handle(c, tickets[k][r]))
  BY <1>1, HandleTyped
<1>4. CASE k \in S /\ q = r
  BY <1>3, <1>4, AfterTyped
<1>5. CASE ~(k \in S /\ q = r)
  BY <1>2, <1>5, AfterTyped
<1>6. QED  BY <1>4, <1>5

LEMMA OutcomeTyped ==
  ASSUME NEW o \in Outcomes
  PROVE  /\ o.reached \in SUBSET Ranks /\ o.later \in SUBSET Ranks
         /\ o.heard => o.reached = Ranks
         /\ Timeouts(o) \in {0, 1}
  BY DEF Outcomes, Timeouts

LEMMA PostponedTyped ==
  ASSUME NEW o, o.later \subseteq Ranks, NEW c \in Commands, NEW r \in Requests
  PROVE  Postponed(o, c, r) \subseteq Message
  BY DEF Postponed, Message

LEMMA CallMoves ==
  ASSUME RequestsTypeOK, NEW c \in Commands, NEW o \in Outcomes, NEW r \in Requests,
         Call(c, o, r)
  PROVE  /\ ControlMoves
         /\ \A k \in o.reached : ticket'[k][r] = Handle(c, ticket[k][r])
<1>1. ticket \in TicketTables /\ late \subseteq Message /\ faults \in 0 .. MaxFaults
  BY DEF RequestsTypeOK, TicketTables
<1>2. ticket' = After(ticket, o.reached, c, r)
  BY DEF Call
<1>3. ticket' \in TicketTables /\ \A k \in Ranks, q \in Requests : Tame(ticket[k][q], ticket'[k][q])
  BY <1>1, <1>2, OutcomeTyped, AfterTyped, AfterTame
<1>4. late' \subseteq Message
  BY <1>1, OutcomeTyped, PostponedTyped DEF Call
<1>5. faults' \in 0 .. MaxFaults
  BY <1>1, OutcomeTyped, ControlAssumption DEF Call
<1>6. \A k \in o.reached : ticket'[k][r] = Handle(c, ticket[k][r])
  BY <1>1, <1>2, OutcomeTyped, AfterTyped
<1>7. QED  BY <1>3, <1>4, <1>5, <1>6 DEF ControlMoves

LEMMA TameTwice ==
  ASSUME NEW s, NEW t, NEW u, Tame(s, t), Tame(t, u)
  PROVE  Tame(s, u)
  BY DEF Tame

\* A release that every rank executed ends the ticket everywhere.
LEMMA CallThenReleaseMoves ==
  ASSUME RequestsTypeOK, NEW c \in Commands, NEW o \in Outcomes, NEW second \in Outcomes,
         NEW r \in Requests, CallThenRelease(c, o, r, second)
  PROVE  /\ ControlMoves
         /\ second.heard => Over(r)'
<1> DEFINE middle == After(ticket, o.reached, c, r)
<1>1. ticket \in TicketTables /\ late \subseteq Message /\ faults \in 0 .. MaxFaults
      /\ "release" \in Commands
  BY DEF RequestsTypeOK, TicketTables, Commands
<1>2. middle \in TicketTables /\ \A k \in Ranks, q \in Requests : Tame(ticket[k][q], middle[k][q])
  BY <1>1, OutcomeTyped, AfterTyped, AfterTame
<1>3. ticket' = After(middle, second.reached, "release", r)
  BY DEF CallThenRelease
<1> HIDE DEF middle
<1>4. ticket' \in TicketTables /\ \A k \in Ranks, q \in Requests : Tame(middle[k][q], ticket'[k][q])
  BY <1>1, <1>2, <1>3, OutcomeTyped, AfterTyped, AfterTame
<1>5. \A k \in Ranks, q \in Requests : Tame(ticket[k][q], ticket'[k][q])
  BY <1>2, <1>4, TameTwice
<1>6. late' \subseteq Message
  BY <1>1, OutcomeTyped, PostponedTyped DEF CallThenRelease
<1>7. faults' \in 0 .. MaxFaults
  BY <1>1, OutcomeTyped, ControlAssumption DEF CallThenRelease
<1>8. ASSUME second.heard, NEW k \in Ranks PROVE ticket'[k][r].binding = "ended"
  <2>1. k \in second.reached /\ middle[k][r] \in Ticket
    BY <1>2, <1>8, OutcomeTyped DEF TicketTables
  <2>2. ticket'[k][r] = Handle("release", middle[k][r])
    BY <1>1, <1>2, <1>3, <2>1, OutcomeTyped, AfterTyped
  <2>3. QED  BY <1>1, <2>1, <2>2, HandleTyped
<1>9. QED  BY <1>4, <1>5, <1>6, <1>7, <1>8 DEF ControlMoves, Over

LEMMA SameControl ==
  ASSUME RequestsTypeOK, UNCHANGED ticket, late' \subseteq Message, faults' \in 0 .. MaxFaults
  PROVE  ControlMoves
  BY DEF ControlMoves, RequestsTypeOK, TicketTables, Tame

LEMMA SetTicketMoves ==
  ASSUME RequestsTypeOK, NEW k \in Ranks, NEW r \in Requests, NEW t \in Ticket,
         Tame(ticket[k][r], t), SetTicket(k, r, t), UNCHANGED <<late, faults>>
  PROVE  ControlMoves /\ ticket'[k][r] = t
<1>1. ticket \in TicketTables
  BY DEF RequestsTypeOK, TicketTables
<1>2. ticket' = [ticket EXCEPT ![k] = [ticket[k] EXCEPT ![r] = t]]
  BY DEF SetTicket
<1>3. [ticket[k] EXCEPT ![r] = t] \in [Requests -> Ticket]
  BY <1>1 DEF TicketTables
<1>4. ticket' \in TicketTables
  BY <1>1, <1>2, <1>3 DEF TicketTables
<1>5. \A i \in Ranks, q \in Requests :
        ticket'[i][q] = IF i = k /\ q = r THEN t ELSE ticket[i][q]
  BY <1>1, <1>2 DEF TicketTables
<1>6. \A i \in Ranks, q \in Requests : Tame(ticket[i][q], ticket'[i][q])
  BY <1>5 DEF Tame
<1>7. QED  BY <1>4, <1>5, <1>6 DEF ControlMoves, RequestsTypeOK

LEMMA UnprofitableMoves ==
  ASSUME RequestsTypeOK, NEW S \in SUBSET Ranks, NEW r \in Requests,
         ticket' = Unprofitable(S, r), UNCHANGED late, faults' \in 0 .. MaxFaults
  PROVE  ControlMoves
<1>1. ticket \in TicketTables
  BY DEF RequestsTypeOK, TicketTables
<1>2. \A k \in Ranks : ticket[k][r] \in Ticket /\ End(ticket[k][r]) \in Ticket
  BY <1>1, EndTyped DEF TicketTables
<1>3. \A k \in Ranks : [ticket[k] EXCEPT ![r] = End(@)] \in [Requests -> Ticket]
  BY <1>1, <1>2 DEF TicketTables
<1>4. ticket' \in TicketTables
  BY <1>1, <1>3 DEF Unprofitable, TicketTables
<1>5. \A k \in Ranks, q \in Requests :
        ticket'[k][q] = ticket[k][q] \/ (q = r /\ ticket'[k][q] = End(ticket[k][r]))
  BY <1>1 DEF Unprofitable, TicketTables
<1>6. \A k \in Ranks, q \in Requests : Tame(ticket[k][q], ticket'[k][q])
  BY <1>2, <1>5, EndTyped DEF Tame
<1>7. QED  BY <1>4, <1>6 DEF ControlMoves, RequestsTypeOK

LEMMA RankStepMoves ==
  ASSUME RequestsTypeOK, RankStep
  PROVE  ControlMoves
<1>1. \A k \in Ranks, r \in Requests : ticket[k][r] \in Ticket
  BY DEF RequestsTypeOK
<1>2. ASSUME NEW k \in Ranks, NEW r \in Requests, HostReady(k, r) PROVE ControlMoves
  <2> DEFINE t == [ticket[k][r] EXCEPT !.host = "ready"]
  <2>1. t \in Ticket /\ Tame(ticket[k][r], t)
    BY <1>1, <1>2 DEF HostReady, Ticket, Tame
  <2>2. SetTicket(k, r, t) /\ UNCHANGED <<late, faults>>
    BY <1>2 DEF HostReady
  <2> HIDE DEF t
  <2>3. QED  BY <2>1, <2>2, SetTicketMoves
<1>3. ASSUME NEW k \in Ranks, NEW r \in Requests, HostFailed(k, r) PROVE ControlMoves
  <2> DEFINE t == End([ticket[k][r] EXCEPT !.host = "failed"])
  <2>1. t \in Ticket /\ Tame(ticket[k][r], t)
    BY <1>1, <1>3 DEF HostFailed, Ticket, Tame, End
  <2>2. SetTicket(k, r, t) /\ UNCHANGED <<late, faults>>
    BY <1>3 DEF HostFailed
  <2> HIDE DEF t
  <2>3. QED  BY <2>1, <2>2, SetTicketMoves
<1>4. ASSUME NEW k \in Ranks, NEW r \in Requests, Expires(k, r) PROVE ControlMoves
  <2>1. End(ticket[k][r]) \in Ticket /\ Tame(ticket[k][r], End(ticket[k][r]))
    BY <1>1, EndTyped
  <2>2. SetTicket(k, r, End(ticket[k][r])) /\ UNCHANGED <<late, faults>>
    BY <1>4 DEF Expires
  <2>3. QED  BY <2>1, <2>2, SetTicketMoves
<1>5. ASSUME NEW m \in late, Deliver(m) PROVE ControlMoves
  <2>1. m \in Message /\ {m.rank} \in SUBSET Ranks /\ m.command \in Commands /\ m.request \in Requests
    BY DEF RequestsTypeOK, Message
  <2>2. ticket \in TicketTables /\ ticket' = After(ticket, {m.rank}, m.command, m.request)
    BY <1>5 DEF Deliver, RequestsTypeOK, TicketTables
  <2>3. ticket' \in TicketTables /\ \A k \in Ranks, q \in Requests : Tame(ticket[k][q], ticket'[k][q])
    BY <2>1, <2>2, AfterTyped, AfterTame
  <2>4. late' \subseteq Message /\ faults' \in 0 .. MaxFaults
    BY <1>5 DEF Deliver, RequestsTypeOK
  <2>5. QED  BY <2>3, <2>4 DEF ControlMoves
<1>6. ASSUME NEW m \in late, Lose(m) PROVE ControlMoves
  <2>1. UNCHANGED ticket /\ late' \subseteq Message /\ faults' \in 0 .. MaxFaults
    BY <1>6, ControlAssumption DEF Lose, RequestsTypeOK
  <2>2. QED  BY <2>1, SameControl
<1>7. QED  BY <1>2, <1>3, <1>4, <1>5, <1>6 DEF RankStep

------------------------------------------------------------------------------
(* One request and the others                                              *)

\* The variables hold of request q what they held, and its tickets at most go on.
Alone(q) ==
  /\ UNCHANGED <<state[q], request[q], job[q], engine>>
  /\ q \in transported' <=> q \in transported
  /\ q \in pending' <=> q \in pending

LEMMA AloneFits ==
  ASSUME ControlMoves, NEW q \in Requests, RequestFits(q), Alone(q)
  PROVE  RequestFits(q)'
<1>1. UNCHANGED <<state[q], request[q], job[q], engine>> /\ PhaseFits(q)'
  BY DEF Alone, RequestFits, PhaseFits
<1>2. StageFits(q)'
  BY <1>1 DEF Alone, RequestFits, StageFits
<1>3. \A k \in Ranks : Tame(ticket[k][q], ticket'[k][q])
  BY DEF ControlMoves
<1>4. (HandedOver(q)' <=> HandedOver(q)) /\ (Over(q) => Over(q)')
  BY <1>1, <1>3 DEF Alone, HandedOver, Over, Tame
<1>5. HandoverFits(q)'
  BY <1>1, <1>3, <1>4 DEF Alone, RequestFits, HandoverFits, Working, Tame
<1>6. LeaseFits(q)'
  BY <1>1, <1>3, <1>4 DEF RequestFits, LeaseFits, Tame
<1>7. QED  BY <1>1, <1>2, <1>5, <1>6 DEF RequestFits

\* An action of request r, which leaves the others alone.
SchedulerTypes ==
  /\ state \in [Requests -> States]
  /\ prepared \subseteq Requests /\ transported \subseteq Requests /\ pending \subseteq Requests
  /\ engine \in {"schedule", "execute"}
  /\ request \in [Requests -> EngineRequests]
  /\ job \in [Requests -> [Ranks -> JobStates]]

LEMMA StepOf ==
  ASSUME RequestsInv, NEW r \in Requests, ControlMoves, SchedulerTypes',
         \A q \in Requests : q # r => Alone(q), RequestFits(r)'
  PROVE  RequestsInv'
<1>1. RequestsTypeOK'
  BY DEF ControlMoves, SchedulerTypes, RequestsTypeOK, TicketTables
<1>2. \A q \in Requests : RequestFits(q)'
  BY AloneFits DEF RequestsInv
<1>3. QED  BY <1>1, <1>2 DEF RequestsInv

LEMMA TypesOf ==
  ASSUME RequestsInv
  PROVE  SchedulerTypes /\ RequestsTypeOK
  BY DEF RequestsInv, RequestsTypeOK, SchedulerTypes

------------------------------------------------------------------------------
(* The actions of the scheduler                                            *)

\* A lease is recorded as released only when every rank ended the ticket.
LEMMA ReleaseGivesUp ==
  ASSUME RequestsInv, NEW r \in Requests, NEW s \in States, s.lease = "scheduler",
         OwnsLease(r), ReleaseLease(r, s)
  PROVE  /\ ControlMoves
         /\ state' \in [Requests -> States]
         /\ \A q \in Requests : q # r => state'[q] = state[q]
         /\ state'[r].phase = s.phase /\ state'[r].readiness = s.readiness
         /\ state'[r].lease \in {"scheduler", "released"}
         /\ state'[r].lease = "released" => Over(r)'
         /\ Forget(r)
<1>1. PICK o \in Outcomes :
        /\ Call("release", o, r)
        /\ Forget(r)
        /\ state' = [state EXCEPT ![r] = [s EXCEPT !.lease = LeaseAfter(o)]]
  BY DEF ReleaseLease
<1>2. RequestsTypeOK /\ state \in [Requests -> States] /\ "release" \in Commands
  BY DEF RequestsInv, RequestsTypeOK, Commands
<1>3. ControlMoves /\ \A k \in o.reached : ticket'[k][r] = Handle("release", ticket[k][r])
  BY <1>1, <1>2, CallMoves
<1>4. LeaseAfter(o) \in {"scheduler", "released"} /\ (LeaseAfter(o) = "released" => o.heard)
  BY DEF LeaseAfter
<1>5. o.heard => Over(r)'
  <2>1. \A k \in Ranks : ticket[k][r] \in Ticket
    BY <1>2 DEF RequestsTypeOK
  <2>2. \A k \in Ranks : Handle("release", ticket[k][r]).binding = "ended"
    BY <1>2, <2>1, HandleTyped
  <2>3. QED  BY <1>3, <2>2, OutcomeTyped DEF Over
<1>6. LET t == [s EXCEPT !.lease = LeaseAfter(o)]
      IN /\ t \in States /\ t.phase = s.phase /\ t.readiness = s.readiness
         /\ t.lease = LeaseAfter(o)
  BY <1>4 DEF States, Leases
<1>7. QED  BY <1>1, <1>2, <1>3, <1>4, <1>5, <1>6

LEMMA Forgets ==
  ASSUME RequestsInv, NEW r \in Requests, Forget(r)
  PROVE  /\ prepared' \subseteq Requests /\ transported' \subseteq Requests
         /\ \A q \in Requests : q # r => (q \in transported' <=> q \in transported)
  BY DEF Forget, RequestsInv, RequestsTypeOK

\* A request whose lease the scheduler holds gives up reuse.
LEMMA FallsBack ==
  ASSUME RequestsInv, NEW r \in Requests, Scheduling, state[r].lease = "scheduler",
         ControlMoves, SchedulerTypes', \A q \in Requests : q # r => Alone(q),
         state'[r].phase = "fallback", state'[r].readiness = "none",
         state'[r].lease \in {"scheduler", "released"},
         state'[r].lease = "released" => Over(r)',
         request'[r].stage = "running", request'[r].external = request[r].external,
         UNCHANGED <<pending, engine, job>>
  PROVE  RequestsInv'
<1>1. RequestFits(r)
  BY DEF RequestsInv
<1>2. PhaseFits(r)'
  BY DEF PhaseFits
<1>3. ~request'[r].external /\ r \notin pending' /\ \A k \in Ranks : job'[r][k] = "none"
  BY <1>1 DEF RequestFits, StageFits, HandoverFits, Scheduling
<1>4. StageFits(r)' /\ HandoverFits(r)' /\ LeaseFits(r)'
  BY <1>3 DEF StageFits, HandoverFits, LeaseFits, Working
<1>5. QED  BY <1>2, <1>4, StepOf DEF RequestFits

LEMMA ComputesTyped ==
  ASSUME RequestsInv, NEW r \in Requests, NEW start, NEW n \in 0 .. PromptTokens,
         Computes(r, start, n)
  PROVE  /\ request' \in [Requests -> EngineRequests]
         /\ \A q \in Requests : q # r => request'[q] = request[q]
         /\ request'[r].stage = "running" /\ request'[r].scheduled
         /\ request'[r].external = request[r].external
         /\ request'[r].installed = request[r].installed
<1>1. request \in [Requests -> EngineRequests]
  BY DEF RequestsInv, RequestsTypeOK
<1>2. LET t == [request[r] EXCEPT !.stage = "running", !.scheduled = TRUE, !.computed = n]
      IN /\ t \in EngineRequests /\ t.stage = "running" /\ t.scheduled
         /\ t.external = request[r].external /\ t.installed = request[r].installed
  BY <1>1 DEF EngineRequests, Stages
<1>3. request' = [request EXCEPT ![r] =
                    [request[r] EXCEPT !.stage = "running", !.scheduled = TRUE, !.computed = n]]
  BY <1>1 DEF Computes
<1>4. QED  BY <1>1, <1>2, <1>3

\* Where a request begins to compute.
LEMMA StartsTyped ==
  ASSUME RequestsInv, NEW r \in Requests
  PROVE  Starts(r) \subseteq 0 .. PromptTokens
<1>1. request[r].computed \in 0 .. PromptTokens
  BY DEF RequestsInv, RequestsTypeOK, EngineRequests
<1>2. QED  BY <1>1, PlanAssumption DEF Starts

LEMMA PrefillKeeps ==
  ASSUME RequestsInv, NEW r \in Requests, PrefillToBoundary(r) \/ Prefill(r)
  PROVE  RequestsInv'
<1>1. PICK start \in Starts(r), n \in 0 .. PromptTokens : Computes(r, start, n)
  BY StartsTyped, PlanAssumption DEF PrefillToBoundary, Prefill
<1>2. UNCHANGED <<controlVars, schedulerVars, engine, job>> /\ MayPrefill(r)
  BY DEF PrefillToBoundary, Prefill
<1>3. ControlMoves
  BY <1>2, SameControl DEF controlVars, RequestsInv, RequestsTypeOK
<1>4. SchedulerTypes' /\ \A q \in Requests : q # r => Alone(q)
  BY <1>1, <1>2, ComputesTyped, TypesOf DEF SchedulerTypes, schedulerVars, Alone
<1>5. RequestFits(r)
  BY DEF RequestsInv
<1>6. UNCHANGED <<state[r], job[r], engine, pending, transported, ticket>>
  BY <1>2 DEF schedulerVars, controlVars
<1>7. request[r].stage \in {"queued", "running"}
  BY <1>2 DEF MayPrefill, InStage
<1>8. PhaseFits(r)' /\ StageFits(r)'
  BY <1>1, <1>5, <1>6, <1>7, ComputesTyped DEF RequestFits, PhaseFits, StageFits
<1>9. HandoverFits(r)' /\ LeaseFits(r)'
  BY <1>1, <1>5, <1>6, ComputesTyped
  DEF RequestFits, HandoverFits, LeaseFits, Working, HandedOver, Over
<1>10. QED  BY <1>3, <1>4, <1>8, <1>9, StepOf DEF RequestFits

LEMMA PrefillPastKeeps ==
  ASSUME RequestsInv, NEW r \in Requests, PrefillPastBoundary(r)
  PROVE  RequestsInv'
<1> DEFINE s == [state[r] EXCEPT !.phase = "fallback"]
<1>1. PICK start \in Starts(r), n \in 0 .. PromptTokens : Computes(r, start, n)
  BY StartsTyped, PlanAssumption DEF PrefillPastBoundary
<1>2. /\ ReleaseLease(r, s) /\ UNCHANGED <<pending, engine, job>>
      /\ MayPrefill(r) /\ state[r].phase = "initial"
  BY DEF PrefillPastBoundary
<1>3. RequestFits(r) /\ state[r] \in States
  BY DEF RequestsInv, RequestsTypeOK
<1>4. state[r].lease = "scheduler" /\ state[r].readiness = "none" /\ OwnsLease(r)
  BY <1>2, <1>3 DEF RequestFits, PhaseFits, OwnsLease
<1>5. s \in States /\ s.lease = "scheduler" /\ s.phase = "fallback" /\ s.readiness = "none"
  BY <1>3, <1>4 DEF States, Phases
<1> HIDE DEF s
<1>6. SchedulerTypes' /\ \A q \in Requests : q # r => Alone(q)
  BY <1>1, <1>2, <1>4, <1>5, ReleaseGivesUp, Forgets, ComputesTyped, TypesOf
  DEF SchedulerTypes, Alone
<1>7. Scheduling
  BY <1>2 DEF MayPrefill
<1>8. QED  BY <1>1, <1>2, <1>4, <1>5, <1>6, <1>7, ReleaseGivesUp, ComputesTyped, FallsBack

\* A step of the engine takes the request to another stage, and changes nothing else of it.
LEMMA Restaged ==
  ASSUME RequestsInv, NEW r \in Requests, NEW stage \in Stages,
         request' = [request EXCEPT ![r].stage = stage]
  PROVE  /\ request' \in [Requests -> EngineRequests]
         /\ \A q \in Requests : q # r => request'[q] = request[q]
         /\ request'[r].stage = stage
         /\ request'[r].scheduled = request[r].scheduled
         /\ request'[r].computed = request[r].computed
         /\ request'[r].external = request[r].external
         /\ request'[r].installed = request[r].installed
<1>1. request \in [Requests -> EngineRequests]
  BY DEF RequestsInv, RequestsTypeOK
<1>2. LET t == [request[r] EXCEPT !.stage = stage]
      IN /\ t \in EngineRequests /\ t.stage = stage /\ t.scheduled = request[r].scheduled
         /\ t.computed = request[r].computed
         /\ t.external = request[r].external /\ t.installed = request[r].installed
  BY <1>1 DEF EngineRequests
<1>3. QED  BY <1>1, <1>2

LEMMA RegisterUnsupportedKeeps ==
  ASSUME RequestsInv, NEW r \in Requests, RegisterUnsupported(r)
  PROVE  RequestsInv'
<1>1. UNCHANGED <<ticket, faults, state, pending, engine, job>> /\ Forget(r)
      /\ request[r].stage = "new" /\ late' = late \cup Submitted("cancel", r)
  BY DEF RegisterUnsupported, InStage
<1>2. request' = [request EXCEPT ![r].stage = "queued"] /\ "queued" \in Stages
  BY DEF RegisterUnsupported, Stages
<1>3. ControlMoves
  <2>1. "cancel" \in Commands
    BY DEF Commands
  <2>2. Submitted("cancel", r) \subseteq Message
    BY <2>1, PostponedTyped DEF Submitted
  <2>3. QED  BY <1>1, <2>2, SameControl DEF RequestsInv, RequestsTypeOK
<1>4. SchedulerTypes' /\ \A q \in Requests : q # r => Alone(q)
  BY <1>1, <1>2, Forgets, Restaged, TypesOf DEF SchedulerTypes, Alone
<1>5. RequestFits(r)
  BY DEF RequestsInv
<1>6. state[r].phase = "none" /\ ~request[r].scheduled /\ ~request[r].external
  <2>1. state[r].phase \in Phases
    BY DEF RequestsInv, RequestsTypeOK, States
  <2>2. QED  BY <1>1, <1>5, <2>1 DEF RequestFits, PhaseFits, StageFits, Phases
<1>7. PhaseFits(r)' /\ StageFits(r)'
  BY <1>1, <1>2, <1>5, <1>6, Restaged DEF RequestFits, PhaseFits, StageFits
<1>8. HandoverFits(r)' /\ LeaseFits(r)'
  BY <1>1, <1>2, <1>5, <1>6, Restaged
  DEF RequestFits, HandoverFits, LeaseFits, Working, HandedOver, Over
<1>9. QED  BY <1>3, <1>4, <1>7, <1>8, StepOf DEF RequestFits

\* One rank's plan is missing: the call still may have reached some.
LEMMA CallHalfMoves ==
  ASSUME RequestsTypeOK, NEW c \in Commands, NEW o \in Outcomes, NEW r \in Requests,
         faults + Timeouts(o) <= MaxFaults,
         ticket' = After(ticket, o.reached, c, r),
         late' = late \cup Postponed(o, c, r) \cup Submitted("cancel", r),
         faults' = faults + Timeouts(o)
  PROVE  ControlMoves
<1>1. ticket \in TicketTables /\ late \subseteq Message /\ faults \in 0 .. MaxFaults
      /\ "cancel" \in Commands
  BY DEF RequestsTypeOK, TicketTables, Commands
<1>2. ticket' \in TicketTables /\ \A k \in Ranks, q \in Requests : Tame(ticket[k][q], ticket'[k][q])
  BY <1>1, OutcomeTyped, AfterTyped, AfterTame
<1>3. Postponed(o, c, r) \subseteq Message
  BY OutcomeTyped, PostponedTyped
<1>4. Submitted("cancel", r) \subseteq Message
  BY <1>1, PostponedTyped DEF Submitted
<1>5. faults' \in 0 .. MaxFaults
  BY <1>1, OutcomeTyped, ControlAssumption
<1>6. QED  BY <1>1, <1>2, <1>3, <1>4, <1>5 DEF ControlMoves

LEMMA RegisterKeeps ==
  ASSUME RequestsInv, NEW r \in Requests, Register(r)
  PROVE  RequestsInv'
<1>1. UNCHANGED <<pending, engine, job>> /\ request[r].stage = "new" /\ Scheduling
  BY DEF Register, InStage
<1>2. request' = [request EXCEPT ![r].stage = "queued"] /\ "queued" \in Stages
  BY DEF Register, Stages
<1>3. RequestFits(r) /\ RequestsTypeOK
  BY DEF RequestsInv
<1>4. /\ state[r].phase = "none" /\ state[r].readiness = "none" /\ state[r].lease = "released"
      /\ ~request[r].scheduled /\ ~request[r].external
  <2>1. state[r].phase \in Phases
    BY DEF RequestsInv, RequestsTypeOK, States
  <2>2. QED  BY <1>1, <1>3, <2>1 DEF RequestFits, PhaseFits, StageFits, Phases
<1>5. r \notin pending /\ \A k \in Ranks : job[r][k] = "none"
  BY <1>1, <1>3, <1>4 DEF RequestFits, HandoverFits, Scheduling
<1>6. PICK o \in Outcomes, command \in {"prepare", "decline"} :
        IF PlanFromAll(ticket, o, command, r)
        THEN /\ Call(command, o, r)
             /\ prepared' = prepared \cup {r}
             /\ state' = [state EXCEPT ![r] = Registered]
             /\ UNCHANGED transported
        ELSE /\ faults + Timeouts(o) <= MaxFaults
             /\ ticket' = After(ticket, o.reached, command, r)
             /\ late' = late \cup Postponed(o, command, r) \cup Submitted("cancel", r)
             /\ faults' = faults + Timeouts(o)
             /\ Forget(r)
             /\ UNCHANGED state
  BY DEF Register
<1>7. command \in Commands
  BY DEF Commands
<1>8. CASE PlanFromAll(ticket, o, command, r)
  <2>1. /\ Call(command, o, r) /\ prepared' = prepared \cup {r}
        /\ state' = [state EXCEPT ![r] = Registered] /\ UNCHANGED transported
    BY <1>6, <1>8
  <2>2. ControlMoves
    BY <1>3, <1>7, <2>1, CallMoves
  <2>3. Registered \in States /\ Registered.phase = "initial" /\ Registered.lease = "scheduler"
        /\ Registered.readiness = "none"
    BY DEF Registered, States, Phases, Leases, Answers
  <2>4. state' \in [Requests -> States] /\ state'[r] = Registered
        /\ \A q \in Requests : q # r => state'[q] = state[q]
    BY <1>3, <2>1, <2>3 DEF RequestsTypeOK
  <2>5. SchedulerTypes' /\ \A q \in Requests : q # r => Alone(q)
    BY <1>1, <1>2, <2>1, <2>4, Restaged, TypesOf DEF SchedulerTypes, Alone
  <2>6. PhaseFits(r)' /\ StageFits(r)'
    BY <1>2, <1>4, <2>3, <2>4, Restaged DEF PhaseFits, StageFits
  <2>7. HandoverFits(r)' /\ LeaseFits(r)'
    BY <1>1, <1>2, <1>4, <1>5, <2>3, <2>4, Restaged DEF HandoverFits, LeaseFits, Working
  <2>8. QED  BY <2>2, <2>5, <2>6, <2>7, StepOf DEF RequestFits
<1>9. CASE ~PlanFromAll(ticket, o, command, r)
  <2>1. Forget(r) /\ UNCHANGED state
    BY <1>6, <1>9
  <2>2. ControlMoves
    BY <1>3, <1>6, <1>7, <1>9, CallHalfMoves
  <2>3. SchedulerTypes' /\ \A q \in Requests : q # r => Alone(q)
    BY <1>1, <1>2, <2>1, Forgets, Restaged, TypesOf DEF SchedulerTypes, Alone
  <2>4. PhaseFits(r)' /\ StageFits(r)'
    BY <1>2, <1>3, <1>4, <2>1, Restaged DEF RequestFits, PhaseFits, StageFits
  <2>5. HandoverFits(r)' /\ LeaseFits(r)'
    BY <1>1, <1>2, <1>4, <1>5, <2>1, Restaged DEF HandoverFits, LeaseFits, Working
  <2>6. QED  BY <2>2, <2>3, <2>4, <2>5, StepOf DEF RequestFits
<1>10. QED  BY <1>8, <1>9

\* A request that leaves the schedule, to wait in the queue or for good.
LEMMA LeavingTyped ==
  ASSUME NEW stage \in Stages
  PROVE  LET t == [Arriving EXCEPT !.stage = stage]
         IN /\ t \in EngineRequests /\ t.stage = stage
            /\ ~t.scheduled /\ ~t.external
<1>1. 0 \in 0 .. PromptTokens
  BY PlanAssumption
<1>2. QED  BY <1>1 DEF Arriving, EngineRequests, Stages

LEMMA PreemptKeeps ==
  ASSUME RequestsInv, NEW r \in Requests, Preempt(r)
  PROVE  RequestsInv'
<1> DEFINE t == [Arriving EXCEPT !.stage = "queued"]
<1>1. /\ UNCHANGED <<controlVars, schedulerVars, engine, job>> /\ Scheduling
      /\ request[r].stage = "running" /\ ~request[r].scheduled
      /\ request' = [request EXCEPT ![r] = t]
  BY DEF Preempt, InStage
<1>2. t \in EngineRequests /\ t.stage = "queued" /\ ~t.scheduled /\ ~t.external
  <2>1. "queued" \in Stages
    BY DEF Stages
  <2>2. QED  BY <2>1, LeavingTyped
<1> HIDE DEF t
<1>3. request' \in [Requests -> EngineRequests] /\ request'[r] = t
      /\ \A q \in Requests : q # r => request'[q] = request[q]
  BY <1>1, <1>2 DEF RequestsInv, RequestsTypeOK
<1>4. ControlMoves
  BY <1>1, SameControl DEF controlVars, RequestsInv, RequestsTypeOK
<1>5. SchedulerTypes' /\ \A q \in Requests : q # r => Alone(q)
  BY <1>1, <1>3, TypesOf DEF SchedulerTypes, schedulerVars, Alone
<1>6. RequestFits(r) /\ UNCHANGED <<state[r], job[r], engine, pending, transported, ticket>>
  BY <1>1 DEF RequestsInv, schedulerVars, controlVars
<1>7. PhaseFits(r)' /\ StageFits(r)'
  BY <1>1, <1>2, <1>3, <1>6 DEF RequestFits, PhaseFits, StageFits
<1>8. HandoverFits(r)' /\ LeaseFits(r)'
  BY <1>1, <1>2, <1>3, <1>6
  DEF RequestFits, HandoverFits, LeaseFits, Working, HandedOver, Over, Scheduling
<1>9. QED  BY <1>4, <1>5, <1>7, <1>8, StepOf DEF RequestFits

\* The answers of the ranks are ready together only when each of them is.
LEMMA AllReady ==
  ASSUME NEW T, NEW heard \in BOOLEAN, NEW r \in Requests,
         CombinedReadiness({RankReadiness(T[k][r]) : k \in Ranks}, heard) = "ready",
         NEW k \in Ranks
  PROVE  T[k][r].planned /\ T[k][r].host = "ready"
<1>1. RankReadiness(T[k][r]) \in {RankReadiness(T[j][r]) : j \in Ranks}
  OBVIOUS
<1>2. RankReadiness(T[k][r]) \notin {"fallback", "loading"}
  BY <1>1 DEF CombinedReadiness
<1>3. QED  BY <1>2 DEF RankReadiness

LEMMA PollKeeps ==
  ASSUME RequestsInv, NEW r \in Requests, Poll(r)
  PROVE  RequestsInv'
<1>1. PICK heard \in BOOLEAN, unpaid \in SUBSET Ranks : PollOnce(r, heard, unpaid)
  BY DEF Poll
<1> DEFINE answers == {RankReadiness(Unprofitable(unpaid, r)[k][r]) : k \in Ranks}
           answer == CombinedReadiness(answers, heard)
           known == IF answer = "loading" THEN "none" ELSE answer
<1>2. /\ Held(r)
      /\ ~heard => faults < MaxFaults
      /\ faults' = IF heard THEN faults ELSE faults + 1
      /\ ticket' = Unprofitable(unpaid, r)
      /\ state' = [state EXCEPT ![r].readiness = known]
      /\ UNCHANGED <<late, prepared, transported, pending, engineVars>>
  BY <1>1 DEF PollOnce
<1>3. known \in Answers /\ (known = "ready" => answer = "ready")
  BY DEF CombinedReadiness, Answers
<1>4. known = "ready" => \A k \in Ranks : ticket'[k][r].planned /\ ticket'[k][r].host = "ready"
  BY <1>2, <1>3, AllReady
<1> HIDE DEF answers, answer, known
<1>5. ControlMoves
  <2>1. faults' \in 0 .. MaxFaults
    BY <1>2, ControlAssumption DEF RequestsInv, RequestsTypeOK
  <2>2. QED  BY <1>2, <2>1, UnprofitableMoves DEF RequestsInv
<1>6. /\ state' \in [Requests -> States] /\ \A q \in Requests : q # r => state'[q] = state[q]
      /\ state'[r].phase = state[r].phase /\ state'[r].lease = state[r].lease
      /\ state'[r].readiness = known
  BY <1>2, <1>3 DEF RequestsInv, RequestsTypeOK, States
<1>7. UNCHANGED <<request, job, engine, pending, transported, prepared>>
  BY <1>2 DEF engineVars
<1>8. SchedulerTypes' /\ \A q \in Requests : q # r => Alone(q)
  BY <1>6, <1>7, TypesOf DEF SchedulerTypes, Alone
<1>9. RequestFits(r) /\ state[r].phase = "waiting"
  BY <1>2 DEF RequestsInv, Held
<1>10. PhaseFits(r)' /\ StageFits(r)'
  BY <1>6, <1>7, <1>9 DEF RequestFits, PhaseFits, StageFits
<1>11. \A k \in Ranks : Tame(ticket[k][r], ticket'[k][r])
  BY <1>5 DEF ControlMoves
<1>12. HandoverFits(r)'
  BY <1>6, <1>7, <1>9, <1>11 DEF RequestFits, HandoverFits, Working, HandedOver, Tame
<1>13. LeaseFits(r)'
  BY <1>4, <1>6, <1>9 DEF RequestFits, PhaseFits, LeaseFits
<1>14. QED  BY <1>5, <1>8, <1>10, <1>12, <1>13, StepOf DEF RequestFits

LEMMA HeldWaits ==
  ASSUME RequestsInv, NEW r \in Requests, Held(r)
  PROVE  /\ RequestFits(r) /\ state[r] \in States /\ Scheduling
         /\ state[r].phase = "waiting" /\ state[r].lease = "scheduler" /\ OwnsLease(r)
         /\ ~request[r].scheduled /\ ~request[r].external /\ request[r].stage = "held"
         /\ r \notin pending /\ \A k \in Ranks : job[r][k] = "none"
<1>1. RequestFits(r) /\ state[r] \in States
  BY DEF RequestsInv, RequestsTypeOK
<1>2. Scheduling /\ request[r].stage = "held" /\ state[r].phase = "waiting"
  BY DEF Held, InStage
<1>3. state[r].lease = "scheduler"
  BY <1>1, <1>2 DEF RequestFits, PhaseFits
<1>4. QED
  BY <1>1, <1>2, <1>3 DEF RequestFits, StageFits, HandoverFits, OwnsLease, Scheduling

\* The state of a request that is decided.
LEMMA DecidedPhase ==
  ASSUME NEW s \in States, NEW phase \in Phases
  PROVE  LET t == [[s EXCEPT !.readiness = "none"] EXCEPT !.phase = phase]
         IN t \in States /\ t.phase = phase /\ t.lease = s.lease /\ t.readiness = "none"
  BY DEF States, Answers

LEMMA ActivateKeeps ==
  ASSUME RequestsInv, NEW r \in Requests, Activate(r)
  PROVE  RequestsInv' /\ \A k \in Ranks : ticket'[k][r].binding = "active"
<1> DEFINE t == [Reset(r) EXCEPT !.phase = "activated"]
<1>1. PICK o \in Outcomes : PlanFromAll(ticket, o, "activate", r) /\ Call("activate", o, r)
  BY DEF Activate
<1>2. /\ Held(r) /\ state' = [state EXCEPT ![r] = t] /\ prepared' = prepared \ {r}
      /\ transported' = transported \cup {r}
      /\ request' = [request EXCEPT ![r].stage = "granted"]
      /\ UNCHANGED <<pending, engine, job>>
  BY DEF Activate
<1>3. "activate" \in Commands /\ "granted" \in Stages /\ "activated" \in Phases
  BY DEF Commands, Stages, Phases
<1>4. ControlMoves /\ \A k \in o.reached : ticket'[k][r] = Handle("activate", ticket[k][r])
  BY <1>1, <1>3, CallMoves DEF RequestsInv
<1>5. \A k \in Ranks : ticket'[k][r].binding = "active"
  <2> SUFFICES ASSUME NEW k \in Ranks PROVE ticket'[k][r].binding = "active"
    OBVIOUS
  <2>1. k \in o.reached /\ Grants("activate", ticket[k][r])
    BY <1>1, OutcomeTyped DEF PlanFromAll
  <2>2. ticket[k][r] \in Ticket
    BY DEF RequestsInv, RequestsTypeOK
  <2>3. QED  BY <1>3, <1>4, <2>1, <2>2, HandleTyped
<1>6. t \in States /\ t.phase = "activated" /\ t.lease = "scheduler" /\ t.readiness = "none"
  BY <1>2, <1>3, HeldWaits, DecidedPhase DEF Reset
<1> HIDE DEF t
<1>7. /\ state' \in [Requests -> States] /\ state'[r] = t
      /\ \A q \in Requests : q # r => state'[q] = state[q]
  BY <1>2, <1>6 DEF RequestsInv, RequestsTypeOK
<1>8. SchedulerTypes' /\ \A q \in Requests : q # r => Alone(q)
  BY <1>2, <1>3, <1>7, Restaged, TypesOf DEF SchedulerTypes, Alone
<1>9. /\ request'[r].stage = "granted" /\ ~request'[r].scheduled /\ ~request'[r].external
      /\ r \in transported' /\ r \notin pending' /\ \A k \in Ranks : job'[r][k] = "none"
  <2>1. /\ ~request[r].scheduled /\ ~request[r].external
        /\ r \notin pending /\ \A k \in Ranks : job[r][k] = "none"
    BY <1>2, HeldWaits
  <2>2. /\ request'[r].stage = "granted" /\ request'[r].scheduled = request[r].scheduled
        /\ request'[r].external = request[r].external
    BY <1>2, <1>3, Restaged
  <2>3. QED  BY <1>2, <2>1, <2>2
<1>10. PhaseFits(r)' /\ StageFits(r)'
  BY <1>6, <1>7, <1>9 DEF PhaseFits, StageFits
<1>11. HandoverFits(r)' /\ LeaseFits(r)'
  BY <1>6, <1>7, <1>9 DEF HandoverFits, LeaseFits, Working
<1>12. QED  BY <1>4, <1>5, <1>8, <1>10, <1>11, StepOf DEF RequestFits

LEMMA ActivationFailsKeeps ==
  ASSUME RequestsInv, NEW r \in Requests, ActivationFails(r)
  PROVE  RequestsInv'
<1>1. /\ Held(r) /\ Forget(r) /\ request' = [request EXCEPT ![r].stage = "running"]
      /\ UNCHANGED <<pending, engine, job>> /\ "running" \in Stages /\ "fallback" \in Phases
      /\ "activate" \in Commands
  BY DEF ActivationFails, Stages, Phases, Commands
<1>2. PICK o \in Outcomes, second \in Outcomes :
        /\ CallThenRelease("activate", o, r, second)
        /\ state' = [state EXCEPT ![r] =
             [Reset(r) EXCEPT !.phase = "fallback", !.lease = LeaseAfter(second)]]
  BY DEF ActivationFails
<1>3. ControlMoves /\ (second.heard => Over(r)')
  BY <1>1, <1>2, CallThenReleaseMoves DEF RequestsInv
<1>4. LeaseAfter(second) \in {"scheduler", "released"}
      /\ (LeaseAfter(second) = "released" => second.heard)
  BY DEF LeaseAfter
<1> DEFINE t == [Reset(r) EXCEPT !.phase = "fallback", !.lease = LeaseAfter(second)]
<1>5. /\ t \in States /\ t.phase = "fallback" /\ t.lease = LeaseAfter(second)
      /\ t.readiness = "none"
  <2>1. LeaseAfter(second) \in Leases
    BY <1>4 DEF Leases
  <2>2. state[r] \in States
    BY <1>1, HeldWaits
  <2>3. QED  BY <1>1, <2>1, <2>2 DEF Reset, States, Answers
<1>6. state' = [state EXCEPT ![r] = t]
  BY <1>2
<1> HIDE DEF t
<1>7. /\ state' \in [Requests -> States] /\ state'[r] = t
      /\ \A q \in Requests : q # r => state'[q] = state[q]
  BY <1>5, <1>6 DEF RequestsInv, RequestsTypeOK
<1>8. SchedulerTypes' /\ \A q \in Requests : q # r => Alone(q)
  BY <1>1, <1>7, Forgets, Restaged, TypesOf DEF SchedulerTypes, Alone
<1>9. Scheduling /\ state[r].lease = "scheduler"
  BY <1>1, HeldWaits
<1>10. request'[r].stage = "running" /\ request'[r].external = request[r].external
  BY <1>1, Restaged
<1>11. QED
  BY <1>1, <1>3, <1>4, <1>5, <1>7, <1>8, <1>9, <1>10, FallsBack

LEMMA ActivationRefusedKeeps ==
  ASSUME RequestsInv, NEW r \in Requests, ActivationRefused(r)
  PROVE  RequestsInv'
<1> DEFINE s == [Reset(r) EXCEPT !.phase = "fallback"]
<1>1. /\ Held(r) /\ ReleaseLease(r, s) /\ request' = [request EXCEPT ![r].stage = "running"]
      /\ UNCHANGED <<pending, engine, job>> /\ "running" \in Stages /\ "fallback" \in Phases
  BY DEF ActivationRefused, Stages, Phases
<1>2. s \in States /\ s.phase = "fallback" /\ s.lease = "scheduler" /\ s.readiness = "none"
  BY <1>1, HeldWaits, DecidedPhase DEF Reset
<1> HIDE DEF s
<1>3. Scheduling /\ state[r].lease = "scheduler" /\ OwnsLease(r)
  BY <1>1, HeldWaits
<1>4. /\ ControlMoves /\ Forget(r) /\ state' \in [Requests -> States]
      /\ \A q \in Requests : q # r => state'[q] = state[q]
      /\ state'[r].phase = "fallback" /\ state'[r].readiness = "none"
      /\ state'[r].lease \in {"scheduler", "released"}
      /\ state'[r].lease = "released" => Over(r)'
  BY <1>1, <1>2, <1>3, ReleaseGivesUp
<1>5. /\ request' \in [Requests -> EngineRequests]
      /\ \A q \in Requests : q # r => request'[q] = request[q]
      /\ request'[r].stage = "running" /\ request'[r].external = request[r].external
  BY <1>1, Restaged
<1>6. SchedulerTypes' /\ \A q \in Requests : q # r => Alone(q)
  BY <1>1, <1>4, <1>5, Forgets, TypesOf DEF SchedulerTypes, Alone
<1>7. QED  BY <1>1, <1>3, <1>4, <1>5, <1>6, FallsBack

LEMMA AllocationFailedKeeps ==
  ASSUME RequestsInv, NEW r \in Requests, AllocationFailed(r)
  PROVE  RequestsInv'
<1> DEFINE s == [state[r] EXCEPT !.phase = "fallback"]
<1>1. /\ Scheduling /\ ReleaseLease(r, s) /\ request' = [request EXCEPT ![r].stage = "running"]
      /\ UNCHANGED <<pending, engine, job>> /\ "running" \in Stages /\ "fallback" \in Phases
      /\ request[r].stage = "granted" /\ state[r].phase = "activated"
  BY DEF AllocationFailed, InStage, Stages, Phases
<1>2. RequestFits(r) /\ state[r] \in States
  BY DEF RequestsInv, RequestsTypeOK
<1>3. state[r].lease = "scheduler" /\ state[r].readiness = "none" /\ OwnsLease(r)
  BY <1>1, <1>2 DEF RequestFits, PhaseFits, StageFits, OwnsLease
<1>4. s \in States /\ s.phase = "fallback" /\ s.lease = "scheduler" /\ s.readiness = "none"
  BY <1>1, <1>2, <1>3 DEF States
<1> HIDE DEF s
<1>5. Scheduling /\ state[r].lease = "scheduler" /\ OwnsLease(r)
  BY <1>1, <1>3
<1>6. /\ ControlMoves /\ Forget(r) /\ state' \in [Requests -> States]
      /\ \A q \in Requests : q # r => state'[q] = state[q]
      /\ state'[r].phase = "fallback" /\ state'[r].readiness = "none"
      /\ state'[r].lease \in {"scheduler", "released"}
      /\ state'[r].lease = "released" => Over(r)'
  BY <1>1, <1>4, <1>5, ReleaseGivesUp
<1>7. /\ request' \in [Requests -> EngineRequests]
      /\ \A q \in Requests : q # r => request'[q] = request[q]
      /\ request'[r].stage = "running" /\ request'[r].external = request[r].external
  BY <1>1, Restaged
<1>8. SchedulerTypes' /\ \A q \in Requests : q # r => Alone(q)
  BY <1>1, <1>6, <1>7, Forgets, TypesOf DEF SchedulerTypes, Alone
<1>9. QED  BY <1>1, <1>5, <1>6, <1>7, <1>8, FallsBack

LEMMA AllocateKeeps ==
  ASSUME RequestsInv, NEW r \in Requests, Allocate(r)
  PROVE  RequestsInv'
<1>1. /\ Scheduling /\ request[r].stage = "granted" /\ HandoffOK(r)
      /\ transported' = transported \ {r} /\ pending' = pending \cup {r}
      /\ state' = [state EXCEPT ![r].lease = "worker"]
      /\ UNCHANGED <<controlVars, prepared, engine, job>>
  BY DEF Allocate, InStage
<1>2. PICK n \in ReuseEnd + 1 .. PromptTokens :
        request' = [request EXCEPT ![r] =
          [stage |-> "running", computed |-> n, scheduled |-> TRUE,
           external |-> TRUE, installed |-> {}]]
  BY DEF Allocate
<1> DEFINE t == [stage |-> "running", computed |-> n, scheduled |-> TRUE,
                 external |-> TRUE, installed |-> {}]
<1>3. t \in EngineRequests /\ t.stage = "running" /\ t.scheduled /\ t.external
  <2>1. n \in 0 .. PromptTokens
    BY PlanAssumption
  <2>2. QED  BY <2>1 DEF EngineRequests, Stages
<1> HIDE DEF t
<1>4. request' \in [Requests -> EngineRequests] /\ request'[r] = t
      /\ \A q \in Requests : q # r => request'[q] = request[q]
  BY <1>2, <1>3 DEF RequestsInv, RequestsTypeOK, t
<1>5. /\ state' \in [Requests -> States] /\ \A q \in Requests : q # r => state'[q] = state[q]
      /\ state'[r].phase = state[r].phase /\ state'[r].lease = "worker"
      /\ state'[r].readiness = state[r].readiness
  BY <1>1 DEF RequestsInv, RequestsTypeOK, States, Leases
<1>6. ControlMoves
  BY <1>1, SameControl DEF controlVars, RequestsInv, RequestsTypeOK
<1>7. SchedulerTypes' /\ \A q \in Requests : q # r => Alone(q)
  BY <1>1, <1>4, <1>5, TypesOf DEF SchedulerTypes, Alone
<1>8. RequestFits(r) /\ state[r].phase = "activated"
  BY <1>1 DEF RequestsInv, HandoffOK
<1>9. \A k \in Ranks : job[r][k] = "none"
  BY <1>1, <1>8 DEF RequestFits, HandoverFits, Scheduling
<1>10. PhaseFits(r)' /\ StageFits(r)'
  BY <1>3, <1>4, <1>5, <1>8 DEF RequestFits, PhaseFits, StageFits
<1>11. r \in pending'
  BY <1>1
<1>12. HandoverFits(r)' /\ LeaseFits(r)'
  BY <1>1, <1>3, <1>4, <1>5, <1>8, <1>9, <1>11
  DEF RequestFits, PhaseFits, HandoverFits, LeaseFits, Working, HandedOver, Scheduling
<1>13. QED  BY <1>6, <1>7, <1>10, <1>12, StepOf DEF RequestFits

LEMMA FinishKeeps ==
  ASSUME RequestsInv, NEW r \in Requests, Finish(r)
  PROVE  RequestsInv'
<1> DEFINE t == [Arriving EXCEPT !.stage = "done"]
<1>1. /\ Scheduling /\ request[r].stage \in {"queued", "running", "held"}
      /\ ~request[r].scheduled
      /\ state' = [state EXCEPT ![r] = NoState] /\ request' = [request EXCEPT ![r] = t]
      /\ UNCHANGED <<pending, engine, job>>
  BY DEF Finish, InStage
<1>2. \/ Forget(r) /\ \E o \in Outcomes : Call("release", o, r)
      \/ UNCHANGED <<controlVars, prepared, transported>>
  BY DEF Finish
<1>3. ControlMoves
  <2>1. CASE \E o \in Outcomes : Call("release", o, r)
    BY <2>1, CallMoves DEF RequestsInv, Commands
  <2>2. CASE UNCHANGED <<controlVars, prepared, transported>>
    BY <2>2, SameControl DEF controlVars, RequestsInv, RequestsTypeOK
  <2>3. QED  BY <1>2, <2>1, <2>2
<1>4. t \in EngineRequests /\ t.stage = "done" /\ ~t.scheduled /\ ~t.external
  <2>1. "done" \in Stages
    BY DEF Stages
  <2>2. QED  BY <2>1, LeavingTyped
<1> HIDE DEF t
<1>5. request' \in [Requests -> EngineRequests] /\ request'[r] = t
      /\ \A q \in Requests : q # r => request'[q] = request[q]
  BY <1>1, <1>4 DEF RequestsInv, RequestsTypeOK
<1>6. NoState \in States /\ NoState.phase = "none" /\ NoState.lease = "released"
      /\ NoState.readiness = "none"
  BY DEF NoState, States, Phases, Leases, Answers
<1>7. /\ state' \in [Requests -> States] /\ state'[r] = NoState
      /\ \A q \in Requests : q # r => state'[q] = state[q]
  BY <1>1, <1>6 DEF RequestsInv, RequestsTypeOK
<1>8. /\ prepared' \subseteq Requests /\ transported' \subseteq Requests
      /\ \A q \in Requests : q # r => (q \in transported' <=> q \in transported)
  BY <1>2, Forgets DEF RequestsInv, RequestsTypeOK
<1>9. SchedulerTypes' /\ \A q \in Requests : q # r => Alone(q)
  BY <1>1, <1>5, <1>7, <1>8, TypesOf DEF SchedulerTypes, Alone
<1>10. r \notin pending' /\ \A k \in Ranks : job'[r][k] = "none"
  BY <1>1 DEF RequestsInv, RequestFits, HandoverFits, Scheduling
<1>11. PhaseFits(r)' /\ StageFits(r)'
  BY <1>4, <1>5, <1>6, <1>7 DEF PhaseFits, StageFits
<1>12. HandoverFits(r)' /\ LeaseFits(r)'
  BY <1>1, <1>4, <1>5, <1>6, <1>7, <1>10 DEF HandoverFits, LeaseFits, Working
<1>13. QED  BY <1>3, <1>9, <1>11, <1>12, StepOf DEF RequestFits

------------------------------------------------------------------------------
(* The step of the engine                                                  *)

LEMMA StartStepKeeps ==
  ASSUME RequestsInv, StartStep
  PROVE  RequestsInv'
<1>1. /\ engine = "schedule" /\ engine' = "execute" /\ pending' = {}
      /\ job' = [r \in Requests |-> [k \in Ranks |-> IF r \in pending THEN "todo" ELSE "none"]]
      /\ UNCHANGED <<controlVars, state, prepared, transported, request>>
  BY DEF StartStep, Scheduling
<1>2. RequestsTypeOK'
  <2>1. job' \in [Requests -> [Ranks -> JobStates]]
    BY <1>1 DEF JobStates
  <2>2. QED  BY <1>1, <2>1 DEF RequestsInv, RequestsTypeOK, controlVars
<1>3. ASSUME NEW r \in Requests PROVE RequestFits(r)'
  <2>1. RequestFits(r) /\ UNCHANGED <<state[r], request[r], ticket, transported>>
    BY <1>1 DEF RequestsInv, controlVars
  <2>2. \A k \in Ranks : job[r][k] = "none"
    BY <1>1, <2>1 DEF RequestFits, HandoverFits
  <2>3. \A k \in Ranks : job'[r][k] = IF r \in pending THEN "todo" ELSE "none"
    BY <1>1
  <2>4. PhaseFits(r)' /\ StageFits(r)'
    BY <2>1 DEF RequestFits, PhaseFits, StageFits
  <2>5. HandedOver(r) <=> r \in pending
    BY <2>2 DEF HandedOver
  <2>6. HandedOver(r)' <=> r \in pending
    BY <1>1, <2>3, ControlAssumption DEF HandedOver
  <2>7. Working(r)' => r \in pending
    BY <2>3 DEF Working
  <2>8. HandoverFits(r)'
    BY <1>1, <2>1, <2>3, <2>5, <2>6, <2>7 DEF RequestFits, HandoverFits
  <2>9. LeaseFits(r)'
    BY <2>1, <2>5, <2>6 DEF RequestFits, LeaseFits, Over
  <2>10. QED  BY <2>4, <2>8, <2>9 DEF RequestFits
<1>4. QED  BY <1>2, <1>3 DEF RequestsInv

\* A worker's result for a request: it goes with the end of the ticket.
LEMMA WorkerReports ==
  ASSUME RequestsInv, NEW k \in Ranks, NEW r \in Requests, NEW result \in {"ok", "failed"},
         job[r][k] = "todo", job' = [job EXCEPT ![r][k] = result],
         SetTicket(k, r, End(ticket[k][r])), UNCHANGED <<late, faults, schedulerVars, engine>>,
         request' \in [Requests -> EngineRequests],
         \A q \in Requests : q # r => request'[q] = request[q],
         request'[r].stage = request[r].stage, request'[r].scheduled = request[r].scheduled,
         request'[r].external = request[r].external,
         request[r].installed \subseteq request'[r].installed,
         result = "ok" => k \in request'[r].installed
  PROVE  RequestsInv'
<1>1. RequestsTypeOK /\ RequestFits(r) /\ ticket[k][r] \in Ticket
  BY DEF RequestsInv, RequestsTypeOK
<1>2. ControlMoves /\ ticket'[k][r].binding = "ended"
  BY <1>1, EndTyped, SetTicketMoves
<1>3. /\ job' \in [Requests -> [Ranks -> JobStates]]
      /\ \A q \in Requests : q # r => job'[q] = job[q]
      /\ \A i \in Ranks : job'[r][i] = IF i = k THEN result ELSE job[r][i]
  BY <1>1 DEF RequestsTypeOK, JobStates
<1>4. UNCHANGED <<state, prepared, transported, pending, engine>>
  BY DEF schedulerVars
<1>5. SchedulerTypes' /\ \A q \in Requests : q # r => Alone(q)
  BY <1>3, <1>4, TypesOf DEF SchedulerTypes, Alone
<1>6. PhaseFits(r)' /\ StageFits(r)'
  BY <1>1, <1>4 DEF RequestFits, PhaseFits, StageFits
<1>7. Working(r) /\ Working(r)' /\ HandedOver(r) /\ HandedOver(r)'
  BY <1>3 DEF Working, HandedOver
<1>8. \A i \in Ranks : Tame(ticket[i][r], ticket'[i][r])
  BY <1>2 DEF ControlMoves
<1>9. HandoverFits(r)'
  BY <1>1, <1>2, <1>3, <1>4, <1>7, <1>8 DEF RequestFits, HandoverFits, Working, Tame
<1>10. LeaseFits(r)'
  BY <1>1, <1>4, <1>7, <1>8 DEF RequestFits, LeaseFits, Over, Tame
<1>11. QED  BY <1>2, <1>5, <1>6, <1>9, <1>10, StepOf DEF RequestFits

LEMMA WorkStepKeeps ==
  ASSUME RequestsInv, NEW k \in Ranks, NEW r \in Requests,
         WorkerInstalls(k, r) \/ WorkerFails(k, r)
  PROVE  RequestsInv'
<1>1. request \in [Requests -> EngineRequests]
  BY DEF RequestsInv, RequestsTypeOK
<1>2. CASE WorkerInstalls(k, r)
  <2> DEFINE t == [request[r] EXCEPT !.installed = @ \cup {k}]
  <2>1. /\ t \in EngineRequests /\ t.stage = request[r].stage
        /\ t.scheduled = request[r].scheduled /\ t.external = request[r].external
        /\ t.installed = request[r].installed \cup {k}
    BY <1>1 DEF EngineRequests
  <2>2. request' = [request EXCEPT ![r] = t]
    BY <1>1, <1>2 DEF WorkerInstalls
  <2> HIDE DEF t
  <2>3. /\ request' \in [Requests -> EngineRequests] /\ request'[r] = t
        /\ \A q \in Requests : q # r => request'[q] = request[q]
    BY <1>1, <2>1, <2>2
  <2>4. /\ job[r][k] = "todo" /\ job' = [job EXCEPT ![r][k] = "ok"]
        /\ SetTicket(k, r, End(ticket[k][r])) /\ UNCHANGED <<late, faults, schedulerVars, engine>>
    BY <1>2 DEF WorkerInstalls
  <2>5. QED  BY <2>1, <2>3, <2>4, WorkerReports
<1>3. CASE WorkerFails(k, r)
  <2>1. /\ job[r][k] = "todo" /\ job' = [job EXCEPT ![r][k] = "failed"]
        /\ SetTicket(k, r, End(ticket[k][r]))
        /\ UNCHANGED <<late, faults, schedulerVars, engine, request>>
    BY <1>3 DEF WorkerFails
  <2>2. QED  BY <1>1, <2>1, WorkerReports
<1>4. QED  BY <1>2, <1>3

\* Recomputation starts at a block, at or before the boundary.
LEMMA RecomputesEnough == RecomputeFrom \in 0 .. CalibrationStart
<1>1. CalibrationStart \in Nat /\ BlockSize \in Nat \ {0}
  BY PlanAssumption
<1>2. QED  BY <1>1 DEF RecomputeFrom

------------------------------------------------------------------------------
(* Failures are matched to requests by block ids                           *)

LEMMA DivAtMost ==
  ASSUME NEW a \in Nat, NEW b \in Nat \ {0}, NEW q \in Nat
  PROVE  q * b <= a <=> q <= a \div b
<1> DEFINE d == a \div b
<1>1. d \in Nat /\ d * b <= a /\ a < d * b + b
  OBVIOUS
<1>2. ASSUME q <= d PROVE q * b <= d * b
  BY <1>1, <1>2
<1>3. ASSUME d + 1 <= q PROVE d * b + b <= q * b
  BY <1>1, <1>3
<1> HIDE DEF d
<1>4. q * b \in Nat /\ d * b \in Nat
  BY <1>1
<1>5. QED  BY <1>1, <1>2, <1>3, <1>4 DEF d

\* The boundary's block is one of the reserved ones.
LEMMA FirstReserved ==
  /\ First \in Nat /\ First \in Places
  /\ First \in CalibrationStart \div BlockSize .. (ReuseEnd + BlockSize - 1) \div BlockSize - 1
  /\ First * BlockSize <= CalibrationStart
<1>1. /\ CalibrationStart \in Nat /\ BlockSize \in Nat \ {0} /\ ReuseEnd \in Nat
      /\ PromptTokens \in Nat /\ CalibrationStart < ReuseEnd /\ ReuseEnd < PromptTokens
  BY PlanAssumption
<1>2. First \in Nat
  BY <1>1 DEF First
<1>3. First * BlockSize <= CalibrationStart /\ First * BlockSize \in Nat
  BY <1>1, <1>2, DivAtMost DEF First
<1>4. First <= (PromptTokens - 1) \div BlockSize
  BY <1>1, <1>2, <1>3, DivAtMost
<1>5. (First + 1) * BlockSize <= ReuseEnd + BlockSize - 1
  BY <1>1, <1>2, <1>3
<1>6. First + 1 <= (ReuseEnd + BlockSize - 1) \div BlockSize
  BY <1>1, <1>2, <1>5, DivAtMost
<1>7. (PromptTokens - 1) \div BlockSize \in Nat /\ (ReuseEnd + BlockSize - 1) \div BlockSize \in Nat
  BY <1>1
<1>8. First \in Places
  BY <1>2, <1>4, <1>7 DEF Places
<1>9. First \in First .. (ReuseEnd + BlockSize - 1) \div BlockSize - 1
  BY <1>2, <1>6, <1>7
<1>10. QED  BY <1>2, <1>3, <1>8, <1>9 DEF First

LEMMA InBlocksOf ==
  ASSUME NEW r \in Requests, NEW places, NEW b
  PROVE  b \in BlocksOf(r, places) <=>
           \E i \in places \cap Places : blocks[r][i] # NoBlock /\ b = <<i, blocks[r][i]>>
  BY DEF BlocksOf

\* What a rank fails on goes back to the request it belongs to.
LEMMA FailureIsReported ==
  ASSUME RequestsInv, BlocksInv, NEW errors, NEW r \in Requests, NEW k \in Ranks,
         job[r][k] = "failed"
  PROVE  r \in FailedRequests(errors \cup Reported)
<1>1. HandedOver(r) /\ Working(r)
  BY DEF HandedOver, Working
<1>2. state[r].phase = "activated"
  <2>1. state[r].phase \in Phases /\ RequestFits(r)
    BY DEF RequestsInv, RequestsTypeOK, States
  <2>2. QED  BY <1>1, <2>1 DEF RequestFits, HandoverFits, PhaseFits, Phases
<1>3. blocks[r][First] # NoBlock
  BY <1>1 DEF BlocksInv, BlocksFit, HandedFits
<1>4. <<First, blocks[r][First]>> \in Reserved(r)
  BY <1>3, FirstReserved, InBlocksOf DEF Reserved
<1>5. r \in FailedSomewhere
  BY DEF FailedSomewhere
<1>6. FailedBlocks(r) = Reserved(r)
  BY DEF FailedBlocks, Reserved
<1>7. <<First, blocks[r][First]>> \in Reported
  BY <1>4, <1>5, <1>6 DEF Reported
<1>8. QED  BY <1>2, <1>4, <1>7 DEF FailedRequests

\* Where a block of the reserved range that is invalid comes from.
LEMMA FailureIsOwn ==
  ASSUME RequestsInv, BlocksInv, NEW errors \in SUBSET fetched, NEW r \in Requests,
         r \in FailedRequests(errors \cup Reported)
  PROVE  r \in began \/ \E k \in Ranks : job[r][k] = "failed"
<1>1. PICK b \in Reserved(r) : b \in errors \cup Reported
  BY DEF FailedRequests
<1>2. PICK i \in Places : /\ i >= First /\ blocks[r][i] # NoBlock /\ b = <<i, blocks[r][i]>>
  BY <1>1, InBlocksOf, FirstReserved, PlanAssumption DEF Reserved, First, Places
<1>3. CASE b \in errors
  BY <1>2, <1>3 DEF BlocksInv, BlocksFit, FetchedFits
<1>4. CASE b \in Reported
  <2>1. PICK q \in FailedSomewhere : b \in FailedBlocks(q)
    BY <1>4 DEF Reported
  <2>2. q \in Requests /\ \E k \in Ranks : job[q][k] = "failed"
    BY <2>1 DEF FailedSomewhere
  <2>3. PICK j \in Places : blocks[q][j] # NoBlock /\ b = <<j, blocks[q][j]>>
    BY <2>1, <2>2, InBlocksOf DEF FailedBlocks
  <2>4. SharesAt(q, r, i)
    BY <1>2, <2>3 DEF SharesAt
  <2>5. HandedOver(q)
    BY <2>2 DEF HandedOver
  <2>6. CASE q = r
    BY <2>2, <2>6
  <2>7. CASE q # r
    BY <1>2, <2>2, <2>4, <2>5, <2>7 DEF BlocksInv, BlocksFit, HandedFits
  <2>8. QED  BY <2>6, <2>7
<1>5. QED  BY <1>1, <1>3, <1>4

\* The invalid blocks that nobody's reuse accounts for are LMCache's.
LEMMA RewoundBegan ==
  ASSUME RequestsInv, BlocksInv, NEW errors \in SUBSET fetched, NEW r \in Requests,
         r \in Rewound(errors \cup Reported)
  PROVE  r \in began
<1> DEFINE invalid == errors \cup Reported
<1>1. PICK b \in BlocksOf(r, Places) : b \in invalid /\ b \notin Consumed(invalid)
  BY DEF Rewound
<1>2. b \notin Reported
  <2> SUFFICES ASSUME b \in Reported PROVE FALSE
    OBVIOUS
  <2>1. PICK q \in FailedSomewhere : b \in FailedBlocks(q)
    BY DEF Reported
  <2>2. q \in FailedRequests(invalid)
    BY <2>1, FailureIsReported DEF FailedSomewhere
  <2>3. b \in Reserved(q)
    BY <2>1 DEF FailedBlocks, Reserved
  <2>4. QED  BY <1>1, <2>2, <2>3 DEF Consumed
<1>3. b \in fetched
  BY <1>1, <1>2
<1>4. PICK i \in Places : b = <<i, blocks[r][i]>>
  BY <1>1, InBlocksOf
<1>5. QED  BY <1>3, <1>4 DEF BlocksInv, BlocksFit, FetchedFits

\* A request whose reuse is revoked had it handed over, and its tickets have ended.
LEMMA FailureIsOver ==
  ASSUME RequestsInv, BlocksInv, NEW errors \in SUBSET fetched, NEW r \in Requests,
         r \in FailedRequests(errors \cup Reported),
         \A k \in Ranks : job[r][k] # "todo"
  PROVE  state[r].lease = "worker" /\ Over(r)
<1>1. RequestFits(r) /\ state[r].phase = "activated" /\ BeganFits(r)
  BY DEF RequestsInv, FailedRequests, BlocksInv, BlocksFit
<1>2. CASE r \in began
  <2>1. request[r].scheduled /\ ~HandedOver(r)
    BY <1>1, <1>2 DEF BeganFits
  <2>2. state[r].lease = "worker"
    BY <1>1, <2>1 DEF RequestFits, PhaseFits, StageFits
  <2>3. QED  BY <1>1, <2>1, <2>2 DEF RequestFits, LeaseFits
<1>3. CASE \E k \in Ranks : job[r][k] = "failed"
  <2>1. Working(r)
    BY <1>3 DEF Working
  <2>2. state[r].lease = "worker" /\ \A k \in Ranks : job[r][k] # "none"
    BY <1>1, <2>1 DEF RequestFits, HandoverFits
  <2>3. \A k \in Ranks : job[r][k] \in {"ok", "failed"}
    BY <2>2 DEF RequestsInv, RequestsTypeOK, JobStates
  <2>4. QED  BY <1>1, <2>2, <2>3 DEF RequestFits, HandoverFits, Over
<1>4. QED  BY <1>2, <1>3, FailureIsOwn

LEMMA UpdateKeeps ==
  ASSUME RequestsInv, BlocksInv, UpdateFromOutput
  PROVE  RequestsInv'
<1>1. PICK errors \in SUBSET fetched :
        /\ state' = [r \in Requests |-> StateAfterOutput(r, errors \cup Reported)]
        /\ request' = [r \in Requests |-> RequestAfterOutput(r, errors \cup Reported)]
  BY DEF UpdateFromOutput
<1>2. /\ engine = "execute" /\ engine' = "schedule"
      /\ \A r \in Requests, k \in Ranks : job[r][k] # "todo"
      /\ job' = [r \in Requests |-> Idle]
      /\ UNCHANGED <<controlVars, prepared, transported, pending>>
  BY DEF UpdateFromOutput
<1> DEFINE invalid == errors \cup Reported
<1>3. RequestsTypeOK
  BY DEF RequestsInv
<1>4. ASSUME NEW r \in Requests
      PROVE  /\ ComputedAfter(r, invalid) \in 0 .. PromptTokens
             /\ r \in FailedRequests(invalid) \/ r \in Rewound(invalid) =>
                  ~(ComputedAfter(r, invalid) > CalibrationStart)
             /\ r \in AtBoundary(invalid) => r \notin FailedRequests(invalid)
  <2>1. RecomputeFrom \in 0 .. CalibrationStart /\ request[r].computed \in 0 .. PromptTokens
    BY <1>3, RecomputesEnough DEF RequestsTypeOK, EngineRequests
  <2>2. r \in AtBoundary(invalid) => r \notin FailedRequests(invalid)
    BY DEF AtBoundary, FailedRequests
  <2>3. QED  BY <2>1, <2>2, PlanAssumption DEF ComputedAfter
<1>5. ASSUME NEW r \in Requests
      PROVE  LET t == RequestAfterOutput(r, invalid)
             IN /\ t \in EngineRequests /\ ~t.scheduled
                /\ t.stage = IF r \in AtBoundary(invalid) THEN "held" ELSE request[r].stage
                /\ t.external => /\ request[r].external
                                 /\ r \notin FailedRequests(invalid) /\ r \notin Rewound(invalid)
                /\ t.installed = request[r].installed
  BY <1>3, <1>4 DEF RequestsTypeOK, RequestAfterOutput, EngineRequests, Stages
<1>6. ASSUME NEW r \in Requests PROVE StateAfterOutput(r, invalid) \in States
  BY <1>3 DEF RequestsTypeOK, StateAfterOutput, States, Phases, Leases
<1>7. \A r \in Requests : r \in FailedRequests(invalid) => state[r].lease = "worker" /\ Over(r)
  BY <1>2, FailureIsOver
<1>8. \A r \in Requests, k \in Ranks : job[r][k] = "failed" => r \in FailedRequests(invalid)
  BY FailureIsReported
<1>9. /\ \A r \in Requests : state'[r] = StateAfterOutput(r, invalid)
      /\ \A r \in Requests : request'[r] = RequestAfterOutput(r, invalid)
      /\ request' \in [Requests -> EngineRequests] /\ state' \in [Requests -> States]
  BY <1>1, <1>5, <1>6
<1> HIDE DEF invalid
<1>10. RequestsTypeOK'
  <2>1. Idle \in [Ranks -> JobStates]
    BY DEF Idle, JobStates
  <2>2. QED  BY <1>2, <1>3, <1>9, <2>1 DEF RequestsTypeOK, controlVars
<1>11. ASSUME NEW r \in Requests PROVE RequestFits(r)'
  <2>1. RequestFits(r) /\ r \notin pending /\ r \notin pending'
        /\ UNCHANGED <<ticket, transported>>
    BY <1>2 DEF RequestsInv, RequestFits, HandoverFits, controlVars
  <2>2. state'[r] = StateAfterOutput(r, invalid) /\ request'[r] = RequestAfterOutput(r, invalid)
        /\ \A k \in Ranks : job'[r][k] = "none"
    BY <1>2, <1>9 DEF Idle
  <2>3. ~HandedOver(r)' /\ ~Working(r)'
    BY <2>1, <2>2 DEF HandedOver, Working
  <2>4. Working(r) => /\ \A k \in Ranks : job[r][k] \in {"ok", "failed"}
                      /\ Over(r)
    <3> SUFFICES ASSUME Working(r)
                 PROVE  /\ \A k \in Ranks : job[r][k] \in {"ok", "failed"}
                        /\ Over(r)
      OBVIOUS
    <3>1. \A k \in Ranks : job[r][k] # "none"
      BY <2>1 DEF RequestFits, HandoverFits
    <3>2. \A k \in Ranks : job[r][k] \in JobStates
      BY <1>3 DEF RequestsTypeOK
    <3>3. \A k \in Ranks : job[r][k] \in {"ok", "failed"}
      BY <1>2, <3>1, <3>2 DEF JobStates
    <3>4. QED  BY <2>1, <3>3 DEF RequestFits, HandoverFits, Over
  <2>5. CASE r \in FailedRequests(invalid)
    <3>1. state[r].phase = "activated" /\ state[r].lease = "worker" /\ Over(r)
          /\ r \notin AtBoundary(invalid)
      BY <1>7, <2>5 DEF FailedRequests, AtBoundary
    <3>2. /\ state'[r].phase = "fallback" /\ state'[r].lease = "released"
          /\ state'[r].readiness = "none"
      BY <1>3, <2>1, <2>2, <2>5, <3>1
      DEF StateAfterOutput, RequestFits, PhaseFits, RequestsTypeOK, States, Answers
    <3>3. /\ ~request'[r].scheduled /\ ~request'[r].external
          /\ request'[r].stage = request[r].stage
      BY <1>5, <2>2, <2>5, <3>1 DEF invalid
    <3>4. request[r].stage \in {"queued", "running"}
      BY <2>1, <3>1 DEF RequestFits, PhaseFits
    <3>5. PhaseFits(r)' /\ StageFits(r)'
      BY <3>2, <3>3, <3>4 DEF PhaseFits, StageFits
    <3>6. Over(r)'
      BY <2>1, <3>1 DEF Over
    <3>7. HandoverFits(r)' /\ LeaseFits(r)'
      BY <2>1, <2>2, <2>3, <3>2, <3>3, <3>6 DEF HandoverFits, LeaseFits
    <3>8. QED  BY <3>5, <3>7 DEF RequestFits
  <2>6. CASE r \in AtBoundary(invalid)
    <3>1. state[r].phase = "initial" /\ r \notin FailedRequests(invalid)
      BY <2>6 DEF AtBoundary, FailedRequests
    <3>2. state[r].lease = "scheduler" /\ state[r].readiness = "none" /\ ~request[r].external
      BY <2>1, <3>1 DEF RequestFits, PhaseFits, StageFits
    <3>3. /\ state'[r].phase = "waiting" /\ state'[r].lease = "scheduler"
          /\ state'[r].readiness = "none"
      BY <1>3, <2>2, <2>6, <3>1, <3>2 DEF StateAfterOutput, RequestsTypeOK, States, Phases
    <3>4. request'[r].stage = "held" /\ ~request'[r].scheduled /\ ~request'[r].external
      BY <1>5, <2>2, <2>6, <3>2 DEF invalid
    <3>5. PhaseFits(r)' /\ StageFits(r)'
      BY <3>3, <3>4 DEF PhaseFits, StageFits
    <3>6. HandoverFits(r)' /\ LeaseFits(r)'
      BY <2>1, <2>2, <2>3, <3>3, <3>4 DEF HandoverFits, LeaseFits
    <3>7. QED  BY <3>5, <3>6 DEF RequestFits
  <2>7. CASE r \notin FailedRequests(invalid) /\ r \notin AtBoundary(invalid)
    <3>1. state'[r] = state[r]
      BY <2>2, <2>7 DEF StateAfterOutput
    <3>2. /\ ~request'[r].scheduled /\ request'[r].stage = request[r].stage
          /\ request'[r].external => request[r].external
          /\ request'[r].installed = request[r].installed
      BY <1>5, <2>2, <2>7 DEF invalid
    <3>3. PhaseFits(r)' /\ StageFits(r)'
      BY <2>1, <3>1, <3>2 DEF RequestFits, PhaseFits, StageFits
    <3>4. ~HandedOver(r) <=> ~Working(r)
      BY <2>1 DEF HandedOver, Working
    <3>5. Working(r) => \A k \in Ranks : job[r][k] = "ok"
      BY <1>8, <2>4, <2>7
    <3>6. request[r].external => request[r].installed = Ranks
      <4>1. CASE ~Working(r)
        BY <2>1, <3>4, <4>1 DEF RequestFits, HandoverFits
      <4>2. CASE Working(r)
        <5>1. Ranks \subseteq request[r].installed
          BY <2>1, <3>5, <4>2 DEF RequestFits, HandoverFits
        <5>2. request[r].installed \subseteq Ranks
          BY <1>3 DEF RequestsTypeOK, EngineRequests
        <5>3. QED  BY <5>1, <5>2
      <4>3. QED  BY <4>1, <4>2
    <3>7. state[r].lease = "worker" => Over(r)
      BY <2>1, <2>4, <3>4 DEF RequestFits, LeaseFits
    <3>8. HandoverFits(r)'
      BY <2>1, <2>2, <2>3, <3>2, <3>6 DEF HandoverFits
    <3>9. LeaseFits(r)'
      BY <2>1, <3>1, <3>7 DEF RequestFits, LeaseFits, Over
    <3>10. QED  BY <3>3, <3>8, <3>9 DEF RequestFits
  <2>8. QED  BY <2>5, <2>6, <2>7
<1>12. QED  BY <1>10, <1>11 DEF RequestsInv

\* The control channel and the ranks move on their own.
LEMMA RanksKeep ==
  ASSUME RequestsInv, ControlMoves, UNCHANGED <<schedulerVars, engineVars>>
  PROVE  RequestsInv'
<1>1. \A q \in Requests : Alone(q)
  BY DEF Alone, schedulerVars, engineVars
<1>2. \A q \in Requests : RequestFits(q)'
  BY <1>1, AloneFits DEF RequestsInv
<1>3. RequestsTypeOK'
  BY DEF RequestsInv, RequestsTypeOK, ControlMoves, TicketTables, schedulerVars, engineVars
<1>4. QED  BY <1>2, <1>3 DEF RequestsInv

LEMMA StillKeeps ==
  ASSUME RequestsInv, UNCHANGED coordinationVars
  PROVE  RequestsInv'
<1>1. ControlMoves
  BY SameControl DEF coordinationVars, controlVars, RequestsInv, RequestsTypeOK
<1>2. QED  BY <1>1, RanksKeep DEF coordinationVars

LEMMA RequestStepKeeps ==
  ASSUME RequestsInv, NEW r \in Requests, RequestStep(r)
  PROVE  RequestsInv'
<1>1. CASE RegisterUnsupported(r) \/ Register(r)
  BY <1>1, RegisterUnsupportedKeeps, RegisterKeeps
<1>2. CASE PrefillToBoundary(r) \/ PrefillPastBoundary(r) \/ Prefill(r) \/ Preempt(r)
  BY <1>2, PrefillKeeps, PrefillPastKeeps, PreemptKeeps
<1>3. CASE Poll(r) \/ Activate(r) \/ ActivationFails(r) \/ ActivationRefused(r)
  BY <1>3, PollKeeps, ActivateKeeps, ActivationFailsKeeps, ActivationRefusedKeeps
<1>4. CASE AllocationFailed(r) \/ Allocate(r) \/ Finish(r)
  BY <1>4, AllocationFailedKeeps, AllocateKeeps, FinishKeeps
<1>5. QED  BY <1>1, <1>2, <1>3, <1>4 DEF RequestStep

LEMMA RequestsKept ==
  ASSUME RequestsInv, BlocksInv, [CoordinatorNext]_coordinationVars
  PROVE  RequestsInv'
<1>1. CASE \E r \in Requests : RequestStep(r)
  BY <1>1, RequestStepKeeps
<1>2. CASE StartStep \/ UpdateFromOutput
  BY <1>2, StartStepKeeps, UpdateKeeps
<1>3. CASE WorkStep
  BY <1>3, WorkStepKeeps DEF WorkStep
<1>4. CASE RankStep /\ UNCHANGED <<schedulerVars, engineVars>>
  BY <1>4, RankStepMoves, RanksKeep DEF RequestsInv
<1>5. CASE Drained \/ UNCHANGED coordinationVars
  BY <1>5, StillKeeps DEF Drained
<1>6. QED  BY <1>1, <1>2, <1>3, <1>4, <1>5 DEF CoordinatorNext

LEMMA RequestsFirst == CoordinatorInit => RequestsInv
<1> SUFFICES ASSUME CoordinatorInit PROVE RequestsInv
  OBVIOUS
<1>1. RequestsTypeOK
  <2>1. Authenticated \in Ticket
    BY DEF Authenticated, Ticket
  <2>2. NoState \in States
    BY DEF NoState, States, Phases, Leases, Answers
  <2>3. Arriving \in EngineRequests
    BY PlanAssumption DEF Arriving, EngineRequests, Stages
  <2>4. Idle \in [Ranks -> JobStates]
    BY DEF Idle, JobStates
  <2>5. QED
    BY <2>1, <2>2, <2>3, <2>4, ControlAssumption
    DEF CoordinatorInit, ControlInit, RequestsTypeOK
<1>2. ASSUME NEW r \in Requests PROVE RequestFits(r)
  <2>1. /\ state[r] = NoState /\ request[r] = Arriving /\ r \notin pending
        /\ \A k \in Ranks : job[r][k] = "none"
    BY DEF CoordinatorInit, Idle
  <2>2. PhaseFits(r) /\ StageFits(r)
    BY <2>1 DEF PhaseFits, StageFits, NoState, Arriving
  <2>3. HandoverFits(r) /\ LeaseFits(r)
    BY <2>1 DEF HandoverFits, LeaseFits, Working, NoState, Arriving
  <2>4. QED  BY <2>2, <2>3 DEF RequestFits
<1>3. QED  BY <1>1, <1>2 DEF RequestsInv

\* An action of one request.
LEMMA OthersAlone ==
  ASSUME RequestsInv, NEW q \in Requests, RequestStep(q)
  PROVE  \A r \in Requests : r # q => Alone(r)
<1>1. /\ state \in [Requests -> States] /\ request \in [Requests -> EngineRequests]
      /\ UNCHANGED <<job, engine>>
  BY DEF RequestsInv, RequestsTypeOK, RequestStep, RegisterUnsupported, Register,
     PrefillToBoundary, PrefillPastBoundary, Prefill, Preempt, Poll, PollOnce, Activate,
     ActivationFails, ActivationRefused, AllocationFailed, Allocate, Finish, engineVars
<1>2. \A r \in Requests : r # q => request'[r] = request[r]
  BY <1>1 DEF RequestStep, RegisterUnsupported, Register, PrefillToBoundary, PrefillPastBoundary,
     Prefill, Computes, Preempt, Poll, PollOnce, Activate, ActivationFails, ActivationRefused,
     AllocationFailed, Allocate, Finish, engineVars
<1>3. \A r \in Requests : r # q => state'[r] = state[r]
  BY <1>1 DEF RequestStep, RegisterUnsupported, Register, PrefillToBoundary, PrefillPastBoundary,
     Prefill, Preempt, Poll, PollOnce, Activate, ActivationFails, ActivationRefused,
     AllocationFailed, Allocate, Finish, schedulerVars, ReleaseLease
<1>4. \A r \in Requests : r # q => (r \in transported' <=> r \in transported)
  BY DEF RequestStep, RegisterUnsupported, Register, PrefillToBoundary, PrefillPastBoundary,
     Prefill, Preempt, Poll, PollOnce, Activate, ActivationFails, ActivationRefused,
     AllocationFailed, Allocate, Finish, schedulerVars, ReleaseLease, Forget
<1>5. \A r \in Requests : r # q => (r \in pending' <=> r \in pending)
  BY DEF RequestStep, RegisterUnsupported, Register, PrefillToBoundary, PrefillPastBoundary,
     Prefill, Preempt, Poll, PollOnce, Activate, ActivationFails, ActivationRefused,
     AllocationFailed, Allocate, Finish, schedulerVars
<1>6. QED  BY <1>1, <1>2, <1>3, <1>4, <1>5 DEF Alone

------------------------------------------------------------------------------
(* The block tables                                                        *)

\* What the engine may write into a request's table at one place.
Written(q, i, c) ==
  \/ c = NoBlock \/ c = blocks[q][i] \/ c \in Fresh(i)

Found(q, i, c) ==
  c # NoBlock /\ \E p \in Requests \ {q} :
    c = blocks[p][i] /\ (i + 1) * BlockSize <= request[p].computed

LEMMA TablesWritten ==
  ASSUME NEW r \in Requests, NEW found \in Nat, NEW n \in Nat, NEW table \in Tables(r, found, n),
         NEW i \in Places
  PROVE  /\ table \in [Places -> 0 .. Copies]
         /\ Written(r, i, table[i]) \/ (i < found /\ Found(r, i, table[i]))
         /\ blocks[r][i] = NoBlock /\ i >= found /\ i * BlockSize < n => table[i] \in Fresh(i)
         /\ i * BlockSize < n => table[i] # NoBlock
<1>1. /\ i \in Nat /\ BlockSize \in Nat /\ i * BlockSize \in Nat
      /\ table \in [Places -> 0 .. Copies]
  BY PlanAssumption DEF Places, Tables
<1>2. table[i] \in IF blocks[r][i] # NoBlock \/ i * BlockSize >= n THEN {blocks[r][i]}
                   ELSE IF i < found THEN Cached(r, i) ELSE Fresh(i)
  BY DEF Tables
<1>3. \A c \in Fresh(i) : c # NoBlock
  BY DEF Fresh, NoBlock
<1>4. \A c \in Cached(r, i) : c \in Fresh(i) \/ Found(r, i, c)
  BY DEF Cached, Found
<1>5. \A c : Found(r, i, c) => c # NoBlock
  BY DEF Found
<1> HIDE DEF Fresh, Cached, Found
<1>6. CASE blocks[r][i] # NoBlock \/ i * BlockSize >= n
  BY <1>1, <1>2, <1>6 DEF Written
<1>7. CASE blocks[r][i] = NoBlock /\ ~(i * BlockSize >= n) /\ i < found
  BY <1>1, <1>2, <1>3, <1>4, <1>5, <1>7 DEF Written
<1>8. CASE blocks[r][i] = NoBlock /\ ~(i * BlockSize >= n) /\ ~(i < found)
  BY <1>1, <1>2, <1>3, <1>8 DEF Written
<1>9. QED  BY <1>1, <1>6, <1>7, <1>8

\* A block beyond the boundary is found at nobody who is still below it.
LEMMA FoundBelow ==
  ASSUME NEW i \in Places, NEW n \in 0 .. CalibrationStart, (i + 1) * BlockSize <= n
  PROVE  ~(i >= First)
<1>1. CalibrationStart \in Nat /\ BlockSize \in Nat \ {0} /\ i \in Nat
  BY PlanAssumption DEF Places
<1>2. (i + 1) * BlockSize \in Nat
  BY <1>1
<1>3. (i + 1) * BlockSize <= CalibrationStart
  BY <1>1, <1>2
<1>4. i + 1 <= First
  BY <1>1, <1>3, DivAtMost DEF First
<1>5. QED  BY <1>1, <1>4, FirstReserved

LEMMA StartsBelow ==
  ASSUME NEW start \in 0 .. CalibrationStart, NEW found \in 0 .. start \div BlockSize
  PROVE  found \in Nat /\ found <= First
<1>1. CalibrationStart \in Nat /\ BlockSize \in Nat \ {0} /\ start \in Nat
  BY PlanAssumption
<1>2. found \in Nat /\ found <= start \div BlockSize
  BY <1>1
<1>3. found * BlockSize <= start
  BY <1>1, <1>2, DivAtMost
<1>4. found * BlockSize \in Nat
  BY <1>1, <1>2
<1>5. found * BlockSize <= CalibrationStart
  BY <1>1, <1>3, <1>4
<1>6. QED  BY <1>1, <1>2, <1>5, DivAtMost DEF First

\* Only r's table changes, in one of the ways the engine has.
LEMMA TableStep ==
  ASSUME RequestsInv, BlocksInv, NEW q \in Requests, Scheduling, ~request[q].scheduled,
         \A p \in Requests : p # q => Alone(p),
         NEW table \in [Places -> 0 .. Copies], blocks' = [blocks EXCEPT ![q] = table],
         \/ UNCHANGED <<began, fetched>>
         \/ /\ began' = began \cup {q} /\ fetched \subseteq fetched'
            /\ \A b \in fetched' \ fetched :
                 \E i \in Places : b = <<i, table[i]>> /\ table[i] \in Fresh(i),
         \A i \in Places :
           Written(q, i, table[i]) \/ (q \in began' /\ Found(q, i, table[i])),
         q \in began' => request'[q].scheduled /\ ~HandedOver(q)',
         EmptyFits(q)',
         Undecided(q)' => Undecided(q) /\ request'[q].computed <= CalibrationStart,
         HandedOver(q)' => Undecided(q) /\ table[First] # NoBlock,
         Undecided(q)' \/ HandedOver(q)' => \A i \in Places : i >= First => Written(q, i, table[i])
  PROVE  BlocksInv'
<1>1. /\ blocks \in [Requests -> [Places -> 0 .. Copies]]
      /\ fetched \subseteq Places \X (1 .. Copies) /\ began \subseteq Requests
      /\ FetchedHeld /\ \A p \in Requests : BlocksFit(p)
  BY DEF BlocksInv, BlocksTypeOK
<1>2. blocks'[q] = table /\ \A p \in Requests : p # q => blocks'[p] = blocks[p]
  BY <1>1
<1>3. \A i \in Places : /\ \A c \in Fresh(i) : c \in 1 .. Copies
                        /\ \A c \in Fresh(i), p \in Requests : blocks[p][i] # c
  BY DEF Fresh, Taken
<1>4. began \subseteq began' /\ began' \subseteq began \cup {q} /\ fetched \subseteq fetched'
  OBVIOUS
<1>5. \A i \in Places : \A c : <<i, c>> \in fetched' =>
        \/ <<i, c>> \in fetched
        \/ q \in began' /\ c = table[i] /\ c \in Fresh(i)
  <2> SUFFICES ASSUME NEW i \in Places, NEW c, <<i, c>> \in fetched', <<i, c>> \notin fetched
               PROVE  q \in began' /\ c = table[i] /\ c \in Fresh(i)
    OBVIOUS
  <2>1. PICK j \in Places : <<i, c>> = <<j, table[j]>> /\ table[j] \in Fresh(j)
    OBVIOUS
  <2>2. QED  BY <2>1
<1>6. q \notin began
  BY <1>1 DEF BlocksFit, BeganFits
<1>7. BlocksTypeOK'
  <2>1. blocks' \in [Requests -> [Places -> 0 .. Copies]]
    BY <1>1
  <2>2. fetched' \subseteq Places \X (1 .. Copies)
    BY <1>1, <1>3
  <2>3. QED  BY <1>1, <1>4, <2>1, <2>2 DEF BlocksTypeOK
<1>8. FetchedHeld'
  <2> SUFFICES ASSUME NEW i \in Places, NEW c \in 1 .. Copies, <<i, c>> \in fetched'
               PROVE  \E p \in began' : blocks'[p][i] = c
    BY DEF FetchedHeld
  <2>1. CASE <<i, c>> \in fetched
    BY <1>1, <1>2, <1>4, <1>6, <2>1 DEF FetchedHeld
  <2>2. CASE q \in began' /\ c = table[i]
    BY <1>2, <2>2
  <2>3. QED  BY <1>5, <2>1, <2>2
<1> HIDE DEF Fresh
<1>9. ASSUME NEW p \in Requests, p # q PROVE BlocksFit(p)'
  <2>1. BlocksFit(p) /\ Alone(p) /\ blocks'[p] = blocks[p]
    BY <1>1, <1>2, <1>9
  <2>2. /\ UNCHANGED <<state[p], request[p]>>
        /\ HandedOver(p)' <=> HandedOver(p)
        /\ Undecided(p)' <=> Undecided(p)
    BY <2>1 DEF Alone, HandedOver, Undecided
  <2>3. p \in began' <=> p \in began
    BY <1>4, <1>9
  <2>4. BeganFits(p)' /\ EmptyFits(p)'
    BY <2>1, <2>2, <2>3 DEF BlocksFit, BeganFits, EmptyFits
  <2>5. FetchedFits(p)'
    <3> SUFFICES ASSUME NEW i \in Places, <<i, blocks[p][i]>> \in fetched'
                 PROVE  p \in began'
      BY <2>1 DEF FetchedFits
    <3>1. <<i, blocks[p][i]>> \in fetched
      BY <1>3, <1>5
    <3>2. QED  BY <2>1, <2>3, <3>1 DEF BlocksFit, FetchedFits
  <2>6. OwnFits(p)'
    <3> SUFFICES ASSUME Undecided(p)
                 PROVE  /\ request[p].computed <= CalibrationStart
                        /\ \A r \in Requests, i \in Places : r # p /\ i >= First => ~SharesAt(p, r, i)'
      BY <2>2 DEF OwnFits
    <3>1. /\ request[p].computed <= CalibrationStart
          /\ \A r \in Requests, i \in Places : r # p /\ i >= First => ~SharesAt(p, r, i)
      BY <2>1 DEF BlocksFit, OwnFits
    <3>2. ASSUME NEW i \in Places, i >= First, blocks[p][i] # NoBlock, table[i] = blocks[p][i]
          PROVE  FALSE
      <4>1. table[i] # blocks[q][i] /\ table[i] \notin Fresh(i)
        BY <1>3, <1>9, <3>1, <3>2 DEF SharesAt
      <4>2. PICK o \in Requests \ {q} :
              table[i] = blocks[o][i] /\ (i + 1) * BlockSize <= request[o].computed
        BY <3>2, <4>1 DEF Written, Found
      <4>3. o = p
        BY <3>1, <3>2, <4>2 DEF SharesAt
      <4>4. request[p].computed \in 0 .. CalibrationStart
        BY <3>1, PlanAssumption DEF RequestsInv, RequestsTypeOK, EngineRequests
      <4>5. QED  BY <3>2, <4>2, <4>3, <4>4, FoundBelow
    <3>3. ASSUME NEW r \in Requests, NEW i \in Places, r # p, i >= First, SharesAt(p, r, i)'
          PROVE  FALSE
      <4>1. blocks[p][i] # NoBlock /\ blocks'[r][i] = blocks[p][i]
        BY <2>1, <3>3 DEF SharesAt, NoBlock
      <4>2. CASE r = q
        BY <1>2, <3>2, <3>3, <4>1, <4>2
      <4>3. CASE r # q
        BY <1>2, <3>1, <3>3, <4>1, <4>3 DEF SharesAt
      <4>4. QED  BY <4>2, <4>3
    <3>4. QED  BY <3>1, <3>3
  <2>7. HandedFits(p)'
    <3> SUFFICES ASSUME HandedOver(p)
                 PROVE  /\ blocks[p][First] # NoBlock
                        /\ \A r \in Requests, i \in Places :
                             r # p /\ i >= First /\ SharesAt(p, r, i)' => r \in began'
      BY <2>1, <2>2 DEF HandedFits, First, NoBlock
    <3>1. /\ blocks[p][First] # NoBlock
          /\ \A r \in Requests, i \in Places : r # p /\ i >= First /\ SharesAt(p, r, i) => r \in began
      BY <2>1 DEF BlocksFit, HandedFits
    <3>2. ASSUME NEW r \in Requests, NEW i \in Places, r # p, i >= First, SharesAt(p, r, i)'
          PROVE  r \in began'
      <4>1. blocks[p][i] # NoBlock /\ blocks'[r][i] = blocks[p][i]
        BY <2>1, <3>2 DEF SharesAt, NoBlock
      <4>2. CASE r # q
        BY <1>2, <1>4, <3>1, <3>2, <4>1, <4>2 DEF SharesAt
      <4>3. CASE r = q
        <5>1. table[i] = blocks[p][i] /\ table[i] \notin Fresh(i)
          BY <1>2, <1>3, <4>1, <4>3
        <5>2. CASE table[i] = blocks[q][i]
          BY <1>4, <3>1, <3>2, <4>1, <4>3, <5>1, <5>2 DEF SharesAt
        <5>3. CASE Found(q, i, table[i]) /\ q \in began'
          BY <4>3, <5>3
        <5>4. QED  BY <4>1, <5>1, <5>2, <5>3 DEF Written
      <4>4. QED  BY <4>2, <4>3
    <3>3. QED  BY <3>1, <3>2
  <2>8. QED  BY <2>4, <2>5, <2>6, <2>7 DEF BlocksFit
<1>10. BlocksFit(q)'
  <2>1. BlocksFit(q)
    BY <1>1
  <2>2. BeganFits(q)'
    BY DEF BeganFits
  <2>3. FetchedFits(q)'
    <3> SUFFICES ASSUME NEW i \in Places, <<i, table[i]>> \in fetched', q \notin began'
                 PROVE  FALSE
      BY <1>2 DEF FetchedFits
    <3>1. <<i, table[i]>> \in fetched
      BY <1>5
    <3>2. table[i] \in 1 .. Copies
      BY <1>1, <3>1
    <3>3. PICK p \in began : blocks[p][i] = table[i]
      BY <1>1, <3>1, <3>2 DEF FetchedHeld
    <3>4. table[i] \notin Fresh(i)
      BY <1>1, <1>3, <3>3
    <3>5. table[i] = blocks[q][i]
      BY <3>2, <3>4 DEF Written, NoBlock
    <3>6. QED  BY <1>6, <2>1, <3>1, <3>5 DEF BlocksFit, FetchedFits
  <2>4. ASSUME Undecided(q), NEW r \in Requests, NEW i \in Places, r # q, i >= First,
               Written(q, i, table[i]), SharesAt(q, r, i)'
        PROVE  FALSE
    <3>1. table[i] # NoBlock /\ blocks[r][i] = table[i]
      BY <1>2, <2>4 DEF SharesAt, NoBlock
    <3>2. table[i] \notin Fresh(i)
      BY <1>3, <3>1
    <3>3. table[i] = blocks[q][i]
      BY <2>4, <3>1, <3>2 DEF Written
    <3>4. QED  BY <2>1, <2>4, <3>1, <3>3 DEF BlocksFit, OwnFits, SharesAt
  <2>5. OwnFits(q)'
    BY <2>4 DEF OwnFits, First
  <2>6. HandedFits(q)'
    BY <1>2, <2>4 DEF HandedFits, First, NoBlock
  <2>7. QED  BY <2>2, <2>3, <2>5, <2>6 DEF BlocksFit
<1>11. QED  BY <1>7, <1>8, <1>9, <1>10 DEF BlocksInv

\* A step that leaves the tables alone.
Empties == {"new", "queued", "done"}

Steady(r) ==
  /\ request[r].scheduled => request'[r].scheduled
  /\ request'[r].computed = request[r].computed
  /\ request'[r].stage \in Empties => request[r].stage \in Empties
  /\ HandedOver(r)' => HandedOver(r)
  /\ Undecided(r)' => Undecided(r) \/ request[r].stage \in Empties

LEMMA TablesSame ==
  ASSUME BlocksInv, UNCHANGED cacheVars, \A r \in Requests : Steady(r)
  PROVE  BlocksInv'
<1>1. UNCHANGED <<blocks, fetched, began>>
  BY DEF cacheVars
<1>2. BlocksTypeOK' /\ FetchedHeld'
  BY <1>1 DEF BlocksInv, BlocksTypeOK, FetchedHeld
<1>3. ASSUME NEW r \in Requests PROVE BlocksFit(r)'
  <2>1. Steady(r) /\ BlocksFit(r)
    BY DEF BlocksInv
  <2>2. BeganFits(r)' /\ EmptyFits(r)' /\ FetchedFits(r)'
    BY <1>1, <2>1 DEF BlocksFit, BeganFits, EmptyFits, FetchedFits, Steady, Empties
  <2>3. HandedFits(r)'
    BY <1>1, <2>1 DEF BlocksFit, HandedFits, SharesAt, Steady, First, NoBlock
  <2>4. ASSUME Undecided(r)'
        PROVE  /\ request[r].computed <= CalibrationStart
               /\ \A q \in Requests, i \in Places : q # r /\ i >= First => ~SharesAt(r, q, i)
    <3>1. CASE Undecided(r)
      BY <2>1, <3>1 DEF BlocksFit, OwnFits
    <3>2. CASE request[r].stage \in Empties
      <4>1. request[r].computed = 0 /\ \A i \in Places : blocks[r][i] = NoBlock
        BY <2>1, <3>2 DEF BlocksFit, EmptyFits, Empties
      <4>2. QED  BY <4>1, PlanAssumption DEF SharesAt
    <3>3. QED  BY <2>1, <2>4, <3>1, <3>2 DEF Steady
  <2>5. OwnFits(r)'
    BY <1>1, <2>1, <2>4 DEF OwnFits, SharesAt, Steady, First, NoBlock
  <2>6. QED  BY <2>2, <2>3, <2>5 DEF BlocksFit
<1>4. QED  BY <1>2, <1>3 DEF BlocksInv

LEMMA AloneSteady ==
  ASSUME NEW r \in Requests, Alone(r)
  PROVE  Steady(r)
  BY DEF Alone, Steady, HandedOver, Undecided

\* An undecided or a new request goes to another stage of the engine.
LEMMA StageSteady ==
  ASSUME RequestsInv, NEW r \in Requests, NEW stage \in Stages,
         request' = [request EXCEPT ![r].stage = stage], UNCHANGED <<pending, job>>,
         stage \in Empties => request[r].stage \in Empties,
         Undecided(r) \/ request[r].stage \in Empties
  PROVE  Steady(r)
  BY Restaged DEF Steady, HandedOver

LEMMA StagesKeepBlocks ==
  ASSUME RequestsInv, BlocksInv, NEW r \in Requests,
         \/ RegisterUnsupported(r) \/ Register(r) \/ Poll(r) \/ Activate(r)
         \/ ActivationFails(r) \/ ActivationRefused(r) \/ AllocationFailed(r)
  PROVE  BlocksInv'
<1>1. \A q \in Requests : q # r => Steady(q)
  BY OthersAlone, AloneSteady DEF RequestStep
<1>2. {"queued", "granted", "running"} \subseteq Stages
  BY DEF Stages
<1>3. RequestFits(r)
  BY DEF RequestsInv
<1>4. CASE RegisterUnsupported(r) \/ Register(r)
  <2>1. /\ request[r].stage \in Empties /\ request' = [request EXCEPT ![r].stage = "queued"]
        /\ UNCHANGED <<pending, job, cacheVars>>
    BY <1>4 DEF RegisterUnsupported, Register, InStage, Empties
  <2>2. QED  BY <1>1, <1>2, <2>1, StageSteady, TablesSame
<1>5. CASE Poll(r)
  <2>1. Undecided(r) /\ UNCHANGED <<request, pending, job, cacheVars>>
    BY <1>5 DEF Poll, PollOnce, Held, engineVars, Undecided
  <2>2. Steady(r)
    BY <2>1 DEF Steady, HandedOver
  <2>3. QED  BY <1>1, <2>1, <2>2, TablesSame
<1>6. CASE Activate(r) \/ ActivationFails(r) \/ ActivationRefused(r) \/ AllocationFailed(r)
  <2>1. Undecided(r)
    BY <1>3, <1>6 DEF Activate, ActivationFails, ActivationRefused, AllocationFailed, Held,
       InStage, Undecided, RequestFits, StageFits
  <2>2. PICK stage \in {"granted", "running"} : request' = [request EXCEPT ![r].stage = stage]
    BY <1>6 DEF Activate, ActivationFails, ActivationRefused, AllocationFailed
  <2>3. UNCHANGED <<pending, job, cacheVars>>
    BY <1>6 DEF Activate, ActivationFails, ActivationRefused, AllocationFailed
  <2>4. stage \in Stages /\ stage \notin Empties
    BY <1>2 DEF Empties
  <2>5. Steady(r)
    BY <2>1, <2>2, <2>3, <2>4, StageSteady
  <2>6. QED  BY <1>1, <2>3, <2>5, TablesSame
<1>7. QED  BY <1>4, <1>5, <1>6

LEMMA UnscheduledIsFree ==
  ASSUME RequestsInv, BlocksInv, NEW r \in Requests, ~request[r].scheduled
  PROVE  ~HandedOver(r) /\ r \notin began
  BY DEF RequestsInv, RequestFits, HandoverFits, HandedOver, Working, BlocksInv, BlocksFit, BeganFits

\* What a prefill writes.
LEMMA ComputesWrites ==
  ASSUME RequestsInv, BlocksInv, NEW r \in Requests, InStage(r, {"queued", "running"}),
         NEW start \in Starts(r), NEW n \in start + 1 .. PromptTokens, Computes(r, start, n)
  PROVE  \E table \in [Places -> 0 .. Copies] :
           /\ blocks' = [blocks EXCEPT ![r] = table]
           /\ \/ UNCHANGED <<began, fetched>>
              \/ /\ began' = began \cup {r} /\ fetched \subseteq fetched'
                 /\ \A b \in fetched' \ fetched :
                      \E i \in Places : b = <<i, table[i]>> /\ table[i] \in Fresh(i)
           /\ \A i \in Places :
                Written(r, i, table[i]) \/ (r \in began' /\ Found(r, i, table[i]))
           /\ n <= CalibrationStart => \A i \in Places : i >= First => Written(r, i, table[i])
<1>1. start \in Nat /\ n \in Nat /\ start < n
  BY StartsTyped, PlanAssumption
<1>2. CASE Begins(r, start, n)
  <2>0. PICK found \in 0 .. start \div BlockSize : \E table \in Tables(r, found, n) :
          /\ blocks' = [blocks EXCEPT ![r] = table]
          /\ fetched' = fetched \cup
               {<<i, table[i]>> : i \in {i \in Places : found <= i /\ i * BlockSize < start}}
    BY <1>2 DEF Begins
  <2>1. PICK table \in Tables(r, found, n) :
          /\ blocks' = [blocks EXCEPT ![r] = table]
          /\ fetched' = fetched \cup
               {<<i, table[i]>> : i \in {i \in Places : found <= i /\ i * BlockSize < start}}
    BY <2>0
  <2>2. request[r].stage = "queued" /\ began' = began \cup {r}
    BY <1>2 DEF Begins
  <2>3. found \in Nat
    BY <1>1, PlanAssumption
  <2>4. \A i \in Places : blocks[r][i] = NoBlock
    BY <2>2 DEF BlocksInv, BlocksFit, EmptyFits
  <2>5. table \in [Places -> 0 .. Copies]
    BY DEF Tables
  <2>6. ASSUME NEW i \in Places
        PROVE  /\ Written(r, i, table[i]) \/ (i < found /\ Found(r, i, table[i]))
               /\ i >= found /\ i * BlockSize < n => table[i] \in Fresh(i)
    BY <1>1, <2>3, <2>4, TablesWritten
  <2>7. ASSUME NEW b \in fetched' \ fetched
        PROVE  \E i \in Places : b = <<i, table[i]>> /\ table[i] \in Fresh(i)
    <3>1. PICK i \in Places : b = <<i, table[i]>> /\ found <= i /\ i * BlockSize < start
      BY <2>1, <2>7
    <3>2. i \in Nat /\ i * BlockSize \in Nat
      BY PlanAssumption DEF Places
    <3>3. i >= found /\ i * BlockSize < n
      BY <1>1, <2>3, <3>1, <3>2
    <3>4. QED  BY <2>6, <3>1, <3>3
  <2>8. ASSUME n <= CalibrationStart, NEW i \in Places, i >= First
        PROVE  Written(r, i, table[i])
    <3>1. start \in 0 .. CalibrationStart
      BY <1>1, <2>8, PlanAssumption
    <3>2. found <= First /\ First \in Nat /\ i \in Nat
      BY <3>1, StartsBelow, FirstReserved DEF Places
    <3>3. ~(i < found)
      BY <2>3, <2>8, <3>2
    <3>4. QED  BY <2>6, <3>3
  <2>9. \A i \in Places : Written(r, i, table[i]) \/ (r \in began' /\ Found(r, i, table[i]))
    BY <2>2, <2>6
  <2>10. QED  BY <2>1, <2>2, <2>5, <2>7, <2>8, <2>9
<1>3. CASE GoesOn(r, n)
  <2>1. PICK table \in Tables(r, 0, n) : blocks' = [blocks EXCEPT ![r] = table]
    BY <1>3 DEF GoesOn
  <2>2. table \in [Places -> 0 .. Copies]
    BY DEF Tables
  <2>3. \A i \in Places : Written(r, i, table[i])
    BY <1>1, TablesWritten DEF Places
  <2>4. QED  BY <1>3, <2>1, <2>2, <2>3 DEF GoesOn
<1>4. QED  BY <1>2, <1>3 DEF Computes

LEMMA PrefillsKeepBlocks ==
  ASSUME RequestsInv, BlocksInv, NEW r \in Requests,
         PrefillToBoundary(r) \/ PrefillPastBoundary(r) \/ Prefill(r)
  PROVE  BlocksInv'
<1>1. \A q \in Requests : q # r => Alone(q)
  BY OthersAlone DEF RequestStep
<1>2. /\ Scheduling /\ InStage(r, {"queued", "running"}) /\ UNCHANGED <<pending, engine, job>>
  BY DEF PrefillToBoundary, PrefillPastBoundary, Prefill, MayPrefill, schedulerVars
<1>0. PICK start \in Starts(r) : \E n \in start + 1 .. PromptTokens :
        /\ Computes(r, start, n)
        /\ PrefillToBoundary(r) => n <= CalibrationStart
  <2>1. Starts(r) \subseteq Nat
    BY StartsTyped
  <2>2. CASE PrefillToBoundary(r)
    <3>1. PICK start \in Starts(r) : \E n \in start + 1 .. CalibrationStart : Computes(r, start, n)
      BY <2>2 DEF PrefillToBoundary
    <3>2. PICK n \in start + 1 .. CalibrationStart : Computes(r, start, n)
      BY <3>1
    <3>3. n \in start + 1 .. PromptTokens /\ n <= CalibrationStart
      BY <2>1, <3>2, PlanAssumption
    <3>4. QED  BY <3>2, <3>3
  <2>3. CASE ~PrefillToBoundary(r)
    BY <2>3 DEF PrefillPastBoundary, Prefill
  <2>4. QED  BY <2>2, <2>3
<1>3. PICK n \in start + 1 .. PromptTokens :
        /\ Computes(r, start, n)
        /\ PrefillToBoundary(r) => n <= CalibrationStart
  BY <1>0
<1>4. n \in 0 .. PromptTokens
  BY StartsTyped, PlanAssumption
<1>5. /\ request'[r].stage = "running" /\ request'[r].scheduled /\ request'[r].computed = n
  <2>1. request'[r].stage = "running" /\ request'[r].scheduled
    BY <1>3, <1>4, ComputesTyped
  <2>2. request'[r].computed = n
    BY <1>3 DEF Computes, RequestsInv, RequestsTypeOK, EngineRequests
  <2>3. QED  BY <2>1, <2>2
<1>6. PICK table \in [Places -> 0 .. Copies] :
        /\ blocks' = [blocks EXCEPT ![r] = table]
        /\ \/ UNCHANGED <<began, fetched>>
           \/ /\ began' = began \cup {r} /\ fetched \subseteq fetched'
              /\ \A b \in fetched' \ fetched :
                   \E i \in Places : b = <<i, table[i]>> /\ table[i] \in Fresh(i)
        /\ \A i \in Places : Written(r, i, table[i]) \/ (r \in began' /\ Found(r, i, table[i]))
        /\ n <= CalibrationStart => \A i \in Places : i >= First => Written(r, i, table[i])
  BY <1>2, <1>3, ComputesWrites
<1>7. ~request[r].scheduled /\ ~HandedOver(r)' /\ RequestFits(r)
  BY <1>2, UnscheduledIsFree DEF InStage, HandedOver, RequestsInv
<1>8. Undecided(r)' => Undecided(r) /\ n <= CalibrationStart
  <2>1. CASE PrefillToBoundary(r)
    BY <1>3, <2>1 DEF PrefillToBoundary, Undecided
  <2>2. CASE Prefill(r)
    <3>1. state' = state /\ state[r].phase # "initial" /\ request[r].stage \in {"queued", "running"}
      BY <2>2 DEF Prefill, schedulerVars, MayPrefill, InStage
    <3>2. QED  BY <1>7, <3>1 DEF RequestFits, PhaseFits, Undecided
  <2>3. CASE PrefillPastBoundary(r)
    <3>1. state'[r].phase = "fallback"
      <4>1. state \in [Requests -> States]
        BY DEF RequestsInv, RequestsTypeOK
      <4>2. QED  BY <2>3, <4>1 DEF PrefillPastBoundary, ReleaseLease, States
    <3>2. QED  BY <3>1 DEF Undecided
  <2>4. QED  BY <2>1, <2>2, <2>3
<1>9. EmptyFits(r)'
  BY <1>5 DEF EmptyFits
<1>10. QED
  BY <1>1, <1>2, <1>5, <1>6, <1>7, <1>8, <1>9, TableStep

\* The request gives its blocks back.
LEMMA LeavingKeepsBlocks ==
  ASSUME RequestsInv, BlocksInv, NEW r \in Requests, Preempt(r) \/ Finish(r)
  PROVE  BlocksInv'
<1>1. \A q \in Requests : q # r => Alone(q)
  BY OthersAlone DEF RequestStep
<1>2. /\ Scheduling /\ ~request[r].scheduled /\ blocks' = [blocks EXCEPT ![r] = NoTable]
      /\ UNCHANGED <<pending, engine, job, fetched, began>>
  BY DEF Preempt, Finish, InStage, schedulerVars
<1>3. NoTable \in [Places -> 0 .. Copies] /\ \A i \in Places : NoTable[i] = NoBlock
  BY PlanAssumption DEF NoTable, NoBlock
<1>4. ~HandedOver(r)' /\ r \notin began'
  BY <1>2, UnscheduledIsFree DEF HandedOver
<1>5. request'[r].computed = 0
  BY DEF Preempt, Finish, Arriving, RequestsInv, RequestsTypeOK
<1>6. Undecided(r)' => Undecided(r) /\ request'[r].computed <= CalibrationStart
  <2>1. CASE Preempt(r)
    BY <1>5, <2>1, PlanAssumption DEF Preempt, schedulerVars, Undecided
  <2>2. CASE Finish(r)
    <3>1. state'[r].phase = "none"
      BY <2>2 DEF Finish, NoState, RequestsInv, RequestsTypeOK
    <3>2. QED  BY <3>1 DEF Undecided
  <2>3. QED  BY <2>1, <2>2
<1>7. EmptyFits(r)'
  BY <1>2, <1>3, <1>5 DEF EmptyFits, BlocksInv, BlocksTypeOK, NoBlock
<1>8. \A i \in Places : Written(r, i, NoTable[i])
  BY <1>3 DEF Written
<1>9. QED
  BY <1>1, <1>2, <1>3, <1>4, <1>6, <1>7, <1>8, TableStep

LEMMA AllocateKeepsBlocks ==
  ASSUME RequestsInv, BlocksInv, NEW r \in Requests, Allocate(r)
  PROVE  BlocksInv'
<1>1. \A q \in Requests : q # r => Alone(q)
  BY OthersAlone DEF RequestStep
<1>2. PICK n \in ReuseEnd + 1 .. PromptTokens :
        /\ request' = [request EXCEPT ![r] =
             [stage |-> "running", computed |-> n, scheduled |-> TRUE,
              external |-> TRUE, installed |-> {}]]
        /\ \E table \in Tables(r, 0, n) : blocks' = [blocks EXCEPT ![r] = table]
  BY DEF Allocate
<1> PICK table \in Tables(r, 0, n) : blocks' = [blocks EXCEPT ![r] = table]
  BY <1>2
<1>3. /\ Scheduling /\ ~request[r].scheduled /\ request[r].stage = "granted"
      /\ UNCHANGED <<fetched, began>> /\ state' = [state EXCEPT ![r].lease = "worker"]
  BY DEF Allocate, InStage
<1>4. Undecided(r) /\ r \notin began'
  BY <1>3, UnscheduledIsFree DEF RequestsInv, RequestFits, StageFits, Undecided
<1>5. n \in Nat /\ CalibrationStart < n
  BY PlanAssumption
<1>6. table \in [Places -> 0 .. Copies]
  BY DEF Tables
<1>7. \A i \in Places : Written(r, i, table[i])
  BY <1>5, TablesWritten DEF Places
<1>8. table[First] # NoBlock
  <2>1. First * BlockSize < n /\ First \in Places
    <3>1. First * BlockSize \in Nat /\ CalibrationStart \in Nat
      BY FirstReserved, PlanAssumption
    <3>2. QED  BY <1>5, <3>1, FirstReserved
  <2>2. QED  BY <1>5, <2>1, TablesWritten
<1>9. ~Undecided(r)'
  BY <1>3, <1>4
  DEF RequestsInv, RequestsTypeOK, RequestFits, StageFits, States, Undecided
<1>10. EmptyFits(r)'
  BY <1>2 DEF EmptyFits, RequestsInv, RequestsTypeOK
<1>11. QED
  BY <1>1, <1>2, <1>3, <1>4, <1>6, <1>7, <1>8, <1>9, <1>10, TableStep

\* The workers, and the rest of the system.
LEMMA ExecutionKeepsBlocks ==
  ASSUME RequestsInv, BlocksInv,
         \/ StartStep \/ WorkStep \/ Drained
         \/ RankStep /\ UNCHANGED <<schedulerVars, engineVars>>
         \/ UNCHANGED coordinationVars
  PROVE  BlocksInv'
<1>1. CASE StartStep
  <2>1. /\ UNCHANGED <<state, request, cacheVars>> /\ pending' = {}
        /\ job' = [r \in Requests |-> [k \in Ranks |-> IF r \in pending THEN "todo" ELSE "none"]]
    BY <1>1 DEF StartStep
  <2>2. ASSUME NEW r \in Requests PROVE HandedOver(r)' => HandedOver(r)
    BY <2>1 DEF HandedOver
  <2>3. \A r \in Requests : Steady(r)
    BY <2>1, <2>2 DEF Steady, Undecided
  <2>4. QED  BY <2>1, <2>3, TablesSame
<1>2. CASE WorkStep
  <2>1. PICK k \in Ranks, r \in Requests : WorkerInstalls(k, r) \/ WorkerFails(k, r)
    BY <1>2 DEF WorkStep
  <2>2. UNCHANGED <<state, pending, cacheVars>> /\ job[r][k] = "todo"
    BY <2>1 DEF WorkerInstalls, WorkerFails, schedulerVars
  <2>3. ASSUME NEW q \in Requests PROVE HandedOver(q)' => HandedOver(q)
    <3>1. CASE q = r
      BY <2>2, <3>1 DEF HandedOver
    <3>2. CASE q # r
      <4>1. job'[q] = job[q]
        BY <2>1, <3>2 DEF WorkerInstalls, WorkerFails, RequestsInv, RequestsTypeOK
      <4>2. QED  BY <2>2, <4>1 DEF HandedOver
    <3>3. QED  BY <3>1, <3>2
  <2>4. ASSUME NEW q \in Requests
        PROVE  /\ request'[q].scheduled = request[q].scheduled
               /\ request'[q].computed = request[q].computed
               /\ request'[q].stage = request[q].stage
    <3>1. request \in [Requests -> EngineRequests]
      BY DEF RequestsInv, RequestsTypeOK
    <3>2. CASE WorkerInstalls(k, r)
      BY <3>1, <3>2 DEF WorkerInstalls, EngineRequests
    <3>3. CASE WorkerFails(k, r)
      BY <3>3 DEF WorkerFails
    <3>4. QED  BY <2>1, <3>2, <3>3
  <2>5. \A q \in Requests : Steady(q)
    BY <2>2, <2>3, <2>4 DEF Steady, Undecided
  <2>6. QED  BY <2>2, <2>5, TablesSame
<1>3. CASE \/ Drained
           \/ RankStep /\ UNCHANGED <<schedulerVars, engineVars>>
           \/ UNCHANGED coordinationVars
  <2>1. UNCHANGED <<schedulerVars, engineVars>>
    BY <1>3 DEF Drained, coordinationVars
  <2>2. UNCHANGED cacheVars /\ \A r \in Requests : Alone(r)
    BY <2>1 DEF schedulerVars, engineVars, Alone
  <2>3. QED  BY <2>2, AloneSteady, TablesSame
<1>4. QED  BY <1>1, <1>2, <1>3

\* The output of the step: nothing is being filled any more.
LEMMA OutputKeepsBlocks ==
  ASSUME RequestsInv, BlocksInv, UpdateFromOutput
  PROVE  BlocksInv'
<1>1. PICK errors \in SUBSET fetched :
        /\ state' = [r \in Requests |-> StateAfterOutput(r, errors \cup Reported)]
        /\ request' = [r \in Requests |-> RequestAfterOutput(r, errors \cup Reported)]
  BY DEF UpdateFromOutput
<1>2. /\ job' = [r \in Requests |-> Idle] /\ UNCHANGED <<pending, blocks>>
      /\ fetched' = {} /\ began' = {} /\ engine = "execute"
  BY DEF UpdateFromOutput
<1> DEFINE invalid == errors \cup Reported
<1>3. BlocksTypeOK' /\ FetchedHeld'
  BY <1>2 DEF BlocksInv, BlocksTypeOK, FetchedHeld
<1>4. ASSUME NEW r \in Requests PROVE BlocksFit(r)'
  <2>1. RequestFits(r) /\ BlocksFit(r) /\ state[r] \in States /\ request[r] \in EngineRequests
    BY DEF RequestsInv, RequestsTypeOK, BlocksInv
  <2>2. state'[r] = StateAfterOutput(r, invalid) /\ request'[r] = RequestAfterOutput(r, invalid)
    BY <1>1
  <2> HIDE DEF invalid
  <2>3. ~HandedOver(r)'
    BY <1>2, <2>1 DEF HandedOver, Idle, RequestFits, HandoverFits
  <2>4. BeganFits(r)' /\ FetchedFits(r)' /\ HandedFits(r)'
    BY <1>2, <2>3 DEF BeganFits, FetchedFits, HandedFits
  <2>5. /\ request'[r].computed = ComputedAfter(r, invalid)
        /\ request'[r].stage = IF r \in AtBoundary(invalid) THEN "held" ELSE request[r].stage
    BY <2>1, <2>2 DEF RequestAfterOutput, EngineRequests
  <2>6. EmptyFits(r)'
    <3> SUFFICES ASSUME request'[r].stage \in Empties
                 PROVE  request'[r].computed = 0 /\ \A i \in Places : blocks[r][i] = NoBlock
      BY <1>2 DEF EmptyFits, Empties, NoBlock
    <3>1. request[r].computed = 0 /\ \A i \in Places : blocks[r][i] = NoBlock
      BY <2>1, <2>5 DEF BlocksFit, EmptyFits, Empties
    <3>2. Reserved(r) = {}
      BY <3>1 DEF Reserved, BlocksOf
    <3>3. r \notin FailedRequests(invalid)
      BY <3>2 DEF FailedRequests
    <3>4. QED  BY <2>5, <3>1, <3>3 DEF ComputedAfter
  <2>7. OwnFits(r)'
    <3> SUFFICES ASSUME Undecided(r)'
                 PROVE  /\ request'[r].computed <= CalibrationStart
                        /\ \A q \in Requests, i \in Places : q # r /\ i >= First => ~SharesAt(r, q, i)
      BY <1>2 DEF OwnFits, SharesAt, First, NoBlock
    <3>1. r \notin FailedRequests(invalid)
      BY <2>1, <2>2 DEF StateAfterOutput, States, Undecided
    <3>2. Undecided(r)
      BY <2>2, <3>1 DEF StateAfterOutput, AtBoundary, Undecided
    <3>3. /\ request[r].computed <= CalibrationStart
          /\ \A q \in Requests, i \in Places : q # r /\ i >= First => ~SharesAt(r, q, i)
      BY <2>1, <3>2 DEF BlocksFit, OwnFits
    <3>4. QED  BY <2>5, <3>1, <3>3, PlanAssumption DEF ComputedAfter
  <2>8. QED  BY <2>4, <2>6, <2>7 DEF BlocksFit
<1>5. QED  BY <1>3, <1>4 DEF BlocksInv

LEMMA StepKeeps ==
  ASSUME CoordinatorInv, [CoordinatorNext]_coordinationVars
  PROVE  CoordinatorInv'
<1>1. RequestsInv /\ BlocksInv /\ RequestsInv'
  BY RequestsKept DEF CoordinatorInv
<1>2. CASE \E r \in Requests : RequestStep(r)
  BY <1>1, <1>2, StagesKeepBlocks, PrefillsKeepBlocks, LeavingKeepsBlocks, AllocateKeepsBlocks
  DEF RequestStep, CoordinatorInv
<1>3. CASE UpdateFromOutput
  BY <1>1, <1>3, OutputKeepsBlocks DEF CoordinatorInv
<1>4. CASE \/ StartStep \/ WorkStep \/ Drained
           \/ RankStep /\ UNCHANGED <<schedulerVars, engineVars>>
           \/ UNCHANGED coordinationVars
  BY <1>1, <1>4, ExecutionKeepsBlocks DEF CoordinatorInv
<1>5. QED  BY <1>2, <1>3, <1>4 DEF CoordinatorNext

LEMMA FitsFirst == CoordinatorInit => CoordinatorInv
<1> SUFFICES ASSUME CoordinatorInit PROVE CoordinatorInv
  OBVIOUS
<1>1. RequestsInv
  BY RequestsFirst
<1>2. /\ blocks = [r \in Requests |-> NoTable] /\ fetched = {} /\ began = {}
      /\ state = [r \in Requests |-> NoState] /\ request = [r \in Requests |-> Arriving]
      /\ pending = {} /\ job = [r \in Requests |-> Idle]
  BY DEF CoordinatorInit
<1>3. NoTable \in [Places -> 0 .. Copies] /\ \A i \in Places : NoTable[i] = NoBlock
  BY PlanAssumption DEF NoTable, NoBlock
<1>4. BlocksTypeOK /\ FetchedHeld
  BY <1>2, <1>3 DEF BlocksTypeOK, FetchedHeld
<1>5. ASSUME NEW r \in Requests PROVE BlocksFit(r)
  <2>1. ~HandedOver(r) /\ ~Undecided(r)
    BY <1>2 DEF HandedOver, Idle, Undecided, NoState
  <2>2. EmptyFits(r)
    BY <1>2, <1>3 DEF EmptyFits, Arriving
  <2>3. QED  BY <1>2, <2>1, <2>2 DEF BlocksFit, BeganFits, FetchedFits, OwnFits, HandedFits
<1>6. QED  BY <1>1, <1>4, <1>5 DEF CoordinatorInv, BlocksInv

------------------------------------------------------------------------------
(* The theorems about states                                               *)

\* Whatever the control channel loses or delays, and wherever a rank fails.
THEOREM CoordinatorInvariant == CoordinatorSpec => []CoordinatorInv
<1>1. QED  BY FitsFirst, StepKeeps, PTL DEF CoordinatorSpec

\* consume_invalid_blocks: after any step of the engine with any batch, tokens count as
\* computed on all ranks, and in the cache of all ranks, or not at all.
THEOREM NoHoleLeft == CoordinatorSpec => []NoHole
<1>1. CoordinatorInv => NoHole
  BY DEF CoordinatorInv, RequestsInv, RequestFits, HandoverFits, NoHole
<1>2. QED  BY <1>1, CoordinatorInvariant, PTL

\* _release_scheduler_lease: a recorded release is one at every rank.
THEOREM ReleasedEverywhere == CoordinatorSpec => []ReleasedIsEnded
<1>1. CoordinatorInv => ReleasedIsEnded
  BY DEF CoordinatorInv, RequestsInv, RequestFits, LeaseFits, Over, ReleasedIsEnded
<1>2. QED  BY <1>1, CoordinatorInvariant, PTL

\* handoff_to_worker: what the workers were lent they gave back when the step is over.
THEOREM WorkersLetGo == CoordinatorSpec => []WorkersGiveBack
<1>1. CoordinatorInv => WorkersGiveBack
  BY DEF CoordinatorInv, RequestsInv, RequestFits, LeaseFits, Over, WorkersGiveBack
<1>2. QED  BY <1>1, CoordinatorInvariant, PTL

\* handoff_to_worker, bind_allocation: their exceptions cannot happen.
THEOREM HandoffSafe == CoordinatorSpec => []HandoffNeverRaises
<1>1. CoordinatorInv => HandoffNeverRaises
  BY DEF CoordinatorInv, RequestsInv, RequestFits, StageFits, HandoffNeverRaises, HandoffOK
<1>2. QED  BY <1>1, CoordinatorInvariant, PTL

\* query_csk_readiness: ready is ready at every rank, until its ticket ends.
THEOREM ReadyStays == CoordinatorSpec => []ReadyEverywhere
<1>1. CoordinatorInv => ReadyEverywhere
  BY DEF CoordinatorInv, RequestsInv, RequestFits, LeaseFits, ReadyEverywhere
<1>2. QED  BY <1>1, CoordinatorInvariant, PTL

------------------------------------------------------------------------------
(* The theorems about steps                                                *)

\* Who sets a phase.
LEMMA PhaseMoves ==
  ASSUME CoordinatorInv, NEW r \in Requests, [CoordinatorNext]_coordinationVars,
         state'[r].phase # state[r].phase
  PROVE  \/ Activate(r)
         \/ state'[r].phase \in {"none", "initial", "waiting"}
         \/ state'[r].phase = "fallback" /\ state[r].lease = "scheduler"
         \/ UpdateFromOutput
<1>1. state \in [Requests -> States] /\ RequestFits(r)
  BY DEF CoordinatorInv, RequestsInv, RequestsTypeOK
<1>2. CASE RequestStep(r)
  <2>1. CASE RegisterUnsupported(r) \/ PrefillToBoundary(r) \/ Prefill(r) \/ Preempt(r)
    BY <2>1 DEF RegisterUnsupported, PrefillToBoundary, Prefill, Preempt, schedulerVars
  <2>2. CASE Register(r) \/ Finish(r)
    BY <1>1, <2>2 DEF Register, Finish, Registered, NoState
  <2>3. CASE Poll(r) \/ Allocate(r)
    BY <1>1, <2>3 DEF Poll, PollOnce, Allocate, States
  <2>4. CASE ActivationFails(r)
    BY <1>1, <2>4 DEF ActivationFails, Held, RequestFits, PhaseFits, Reset, States
  <2>5. CASE PrefillPastBoundary(r)
    <3>1. state[r].lease = "scheduler"
      BY <1>1, <2>5 DEF PrefillPastBoundary, RequestFits, PhaseFits
    <3>2. state'[r].phase = "fallback"
      BY <1>1, <2>5 DEF PrefillPastBoundary, ReleaseLease, States
    <3>3. QED  BY <3>1, <3>2
  <2>6. CASE ActivationRefused(r)
    <3>1. state[r].lease = "scheduler"
      BY <1>1, <2>6 DEF ActivationRefused, Held, RequestFits, PhaseFits
    <3>2. state'[r].phase = "fallback"
      BY <1>1, <2>6 DEF ActivationRefused, Reset, ReleaseLease, States
    <3>3. QED  BY <3>1, <3>2
  <2>7. CASE AllocationFailed(r)
    <3>1. state[r].lease = "scheduler"
      BY <1>1, <2>7 DEF AllocationFailed, InStage, RequestFits, StageFits
    <3>2. state'[r].phase = "fallback"
      BY <1>1, <2>7 DEF AllocationFailed, ReleaseLease, States
    <3>3. QED  BY <3>1, <3>2
  <2>8. QED  BY <1>2, <2>1, <2>2, <2>3, <2>4, <2>5, <2>6, <2>7 DEF RequestStep
<1>3. CASE \E q \in Requests : q # r /\ RequestStep(q)
  BY <1>3, OthersAlone DEF Alone, CoordinatorInv
<1>4. CASE UpdateFromOutput
  BY <1>4
<1>5. CASE ~UpdateFromOutput /\ ~(\E q \in Requests : RequestStep(q))
  BY <1>5
  DEF CoordinatorNext, StartStep, WorkStep, WorkerInstalls, WorkerFails, Drained, coordinationVars,
      schedulerVars
<1>6. QED  BY <1>2, <1>3, <1>4, <1>5

\* activate: a grant is recorded only when every rank holds an active ticket, for any
\* number of ranks and whatever the call and its predecessors lost.
THEOREM GrantsEverywhere == CoordinatorSpec => GrantNeedsAllRanks
<1> DEFINE Granted ==
      \A r \in Requests :
        state[r].phase # "activated" /\ state'[r].phase = "activated" =>
          \A k \in Ranks : ticket'[k][r].binding = "active"
<1>1. CoordinatorInv /\ [CoordinatorNext]_coordinationVars => Granted
  <2> SUFFICES ASSUME CoordinatorInv, [CoordinatorNext]_coordinationVars, NEW r \in Requests,
                      state[r].phase # "activated", state'[r].phase = "activated"
               PROVE  \A k \in Ranks : ticket'[k][r].binding = "active"
    OBVIOUS
  <2>1. ~UpdateFromOutput
    <3>1. SUFFICES ASSUME UpdateFromOutput PROVE FALSE
      OBVIOUS
    <3>2. PICK invalid : state' = [q \in Requests |-> StateAfterOutput(q, invalid)]
      BY <3>1 DEF UpdateFromOutput
    <3>3. state[r] \in States
      BY DEF CoordinatorInv, RequestsInv, RequestsTypeOK
    <3>4. StateAfterOutput(r, invalid).phase \in {"fallback", "waiting", state[r].phase}
      BY <3>3 DEF StateAfterOutput, States
    <3>5. QED  BY <3>2, <3>4
  <2>2. QED  BY <2>1, PhaseMoves, ActivateKeeps DEF CoordinatorInv
<1>2. CoordinatorInv /\ [CoordinatorNext]_coordinationVars => [Granted]_coordinationVars
  BY <1>1
<1>3. QED  BY <1>2, CoordinatorInvariant, PTL DEF CoordinatorSpec, GrantNeedsAllRanks

\* consume_invalid_blocks: matching blocks by id only, an output revokes the reuse of a
\* request, or makes it compute again, only if a rank failed on it or it began in this
\* step: for any tables that the engine may build, however the requests share blocks.
THEOREM BatchUndisturbed == CoordinatorSpec => OthersUndisturbed
<1> DEFINE Undisturbed ==
      \A r \in Requests :
        /\ engine = "execute"
        /\ \/ state'[r].phase = "fallback" /\ state[r].phase # "fallback"
           \/ request'[r].computed < request[r].computed
        => r \in began \/ \E k \in Ranks : job[r][k] = "failed"
<1>1. CoordinatorInv /\ [CoordinatorNext]_coordinationVars => Undisturbed
  <2> SUFFICES ASSUME CoordinatorInv, [CoordinatorNext]_coordinationVars, NEW r \in Requests,
                      engine = "execute",
                      \/ state'[r].phase = "fallback" /\ state[r].phase # "fallback"
                      \/ request'[r].computed < request[r].computed
               PROVE  r \in began \/ \E k \in Ranks : job[r][k] = "failed"
    OBVIOUS
  <2>1. RequestsInv /\ BlocksInv /\ request[r].computed \in Nat
    BY DEF CoordinatorInv, RequestsInv, RequestsTypeOK, EngineRequests
  <2>2. UpdateFromOutput
    <3>1. ~(\E q \in Requests : RequestStep(q)) /\ ~StartStep
      BY DEF RequestStep, RegisterUnsupported, Register, PrefillToBoundary, PrefillPastBoundary,
         Prefill, MayPrefill, Preempt, Poll, PollOnce, Activate, ActivationFails,
         ActivationRefused, Held, AllocationFailed, Allocate, Finish, StartStep, Scheduling
    <3>2. WorkStep => state' = state /\ request'[r].computed = request[r].computed
      <4>1. ASSUME NEW k \in Ranks, NEW q \in Requests, WorkerInstalls(k, q) \/ WorkerFails(k, q)
            PROVE  state' = state /\ request'[r].computed = request[r].computed
        BY <2>1, <4>1 DEF WorkerInstalls, WorkerFails, schedulerVars, RequestsInv, RequestsTypeOK,
           EngineRequests
      <4>2. QED  BY <4>1 DEF WorkStep
    <3>3. UNCHANGED <<schedulerVars, engineVars>> => state' = state /\ request' = request
      BY DEF schedulerVars, engineVars
    <3>4. UNCHANGED coordinationVars => UNCHANGED <<schedulerVars, engineVars>>
      BY DEF coordinationVars
    <3>5. QED  BY <2>1, <3>1, <3>2, <3>3, <3>4 DEF CoordinatorNext, Drained
  <2>3. PICK errors \in SUBSET fetched :
          /\ state' = [q \in Requests |-> StateAfterOutput(q, errors \cup Reported)]
          /\ request' = [q \in Requests |-> RequestAfterOutput(q, errors \cup Reported)]
    BY <2>2 DEF UpdateFromOutput
  <2>4. r \in FailedRequests(errors \cup Reported) \/ r \in Rewound(errors \cup Reported)
    <3> DEFINE invalid == errors \cup Reported
    <3>1. state'[r] = StateAfterOutput(r, invalid) /\ request'[r] = RequestAfterOutput(r, invalid)
      BY <2>3
    <3> HIDE DEF invalid
    <3> SUFFICES ASSUME r \notin FailedRequests(invalid), r \notin Rewound(invalid) PROVE FALSE
      BY DEF invalid
    <3>2. request[r] \in EngineRequests /\ state[r] \in States
      BY <2>1 DEF RequestsInv, RequestsTypeOK
    <3>3. request'[r].computed = request[r].computed
      BY <3>1, <3>2 DEF RequestAfterOutput, ComputedAfter, EngineRequests
    <3>4. state'[r] = state[r] \/ state'[r].phase = "waiting"
      BY <3>1, <3>2 DEF StateAfterOutput, States
    <3>5. QED  BY <2>1, <3>3, <3>4
  <2>5. QED  BY <2>1, <2>4, FailureIsOwn, RewoundBegan
<1>2. CoordinatorInv /\ [CoordinatorNext]_coordinationVars => [Undisturbed]_coordinationVars
  BY <1>1
<1>3. QED  BY <1>2, CoordinatorInvariant, PTL DEF CoordinatorSpec, OthersUndisturbed
==============================================================================
