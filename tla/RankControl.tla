----------------------------- MODULE RankControl -----------------------------
(***************************************************************************)
(* The control RPC from the scheduler to every rank, and what a rank       *)
(* answers.  A rank is the ReuseManager of that worker, seen through the   *)
(* commands of _execute_runtime_control: of a request's ticket only the    *)
(* host copy, the binding and whether it has a plan can be told apart.     *)
(* A request has at most one ticket (TicketTable!IndexMatchesBindings), so *)
(* a ticket bears the name of its request.  The plan is the same on every  *)
(* rank, computed from the same catalog, policy and prompt.                *)
(*                                                                         *)
(* A synchronous call waits for every rank and answers only when all       *)
(* replies came and are equal.  When it times out some ranks have          *)
(* executed it, some will execute it later, others never.                  *)
(***************************************************************************)
EXTENDS Integers, FiniteSets

CONSTANTS
  Requests,    \* requests with a verified ticket
  Ranks,       \* worker processes
  MaxFaults,   \* bound: control calls that time out, messages that are lost
  Expiring     \* tickets have a deadline (csk_prefetch_handle_ttl_seconds)

ASSUME ControlAssumption ==
  /\ Ranks # {}
  /\ IsFiniteSet(Ranks)
  /\ MaxFaults \in Nat
  /\ Expiring \in BOOLEAN

VARIABLES
  ticket,   \* the runtime state of each request's ticket on each rank
  late,     \* commands a rank will execute without anybody waiting
  faults    \* faults so far

controlVars == <<ticket, late, faults>>

\* "decline" is a prepare whose reusable suffix turns out too short: the rank
\* ends the ticket instead of planning.
Commands == {"prepare", "decline", "activate", "release", "cancel"}

Ticket ==
  [host : {"loading", "ready", "failed"},
   binding : {"verified", "active", "ended"},
   planned : BOOLEAN]

Message == [rank : Ranks, command : Commands, request : Requests]

\* Every rank authenticated the request: the frontend sends it on only then.
Authenticated == [host |-> "loading", binding |-> "verified", planned |-> FALSE]

ControlInit ==
  /\ ticket = [k \in Ranks |-> [r \in Requests |-> Authenticated]]
  /\ late = {}
  /\ faults = 0

------------------------------------------------------------------------------
(* What a rank does with a command, and whether it answers with the plan.  *)

End(s) == [s EXCEPT !.binding = "ended"]

\* (variant) a late activation revives an ended ticket
ActivatesAgain(s) == s.planned /\ s.host = "ready"

Activates(s) ==
  \/ s.binding = "active"
  \/ s.binding = "verified" /\ s.planned /\ s.host = "ready"

\* Repeating a command changes nothing, and an ended ticket stays ended.
Handle(command, s) ==
  CASE command = "prepare" /\ s.binding = "verified" -> [s EXCEPT !.planned = TRUE]
    [] command = "activate" /\ Activates(s) -> [s EXCEPT !.binding = "active"]
    [] command = "decline" /\ s.binding = "verified" -> End(s)
    [] command \in {"release", "cancel"} -> End(s)
    [] OTHER -> s

Grants(command, s) ==
  \/ command = "prepare" /\ s.binding = "verified"
  \/ command = "activate" /\ Activates(s)

\* The tickets after the ranks in S executed the command.
After(tickets, S, command, r) ==
  [k \in Ranks |->
     IF k \in S THEN [tickets[k] EXCEPT ![r] = Handle(command, @)] ELSE tickets[k]]

------------------------------------------------------------------------------
(* Synchronous calls.                                                      *)

\* How one call may go: who executed it, who will, and whether the answers came.
Outcomes ==
  {o \in [reached : SUBSET Ranks, later : SUBSET Ranks, heard : BOOLEAN] :
     /\ o.reached \cap o.later = {}
     /\ o.heard => o.reached = Ranks}

Timeouts(o) == IF o.heard THEN 0 ELSE 1

Postponed(o, command, r) ==
  {[rank |-> k, command |-> command, request |-> r] : k \in o.later}

\* submit_external_control: queued for every rank, nobody waits.
Submitted(command, r) == Postponed([later |-> Ranks], command, r)

\* execute_external_control answers with the plan only if all ranks do.
PlanFromAll(tickets, o, command, r) ==
  o.heard /\ \A k \in Ranks : Grants(command, tickets[k][r])

\* One handler makes a call and perhaps a second one with another command.
Call(command, o, r) ==
  /\ faults + Timeouts(o) <= MaxFaults
  /\ ticket' = After(ticket, o.reached, command, r)
  /\ late' = late \cup Postponed(o, command, r)
  /\ faults' = faults + Timeouts(o)

CallThenRelease(command, o, r, second) ==
  /\ faults + Timeouts(o) + Timeouts(second) <= MaxFaults
  /\ ticket' = After(After(ticket, o.reached, command, r), second.reached, "release", r)
  /\ late' = late \cup Postponed(o, command, r) \cup Postponed(second, "release", r)
  /\ faults' = faults + Timeouts(o) + Timeouts(second)

(***************************************************************************)
(* query_csk_readiness asks every rank and combines the answers itself.    *)
(* The ranks in S find that reuse does not pay and end their ticket.       *)
(***************************************************************************)
\* (variant) a rank whose read failed still reports that it is loading
RankReadinessUnaware(s) ==
  IF s.host = "ready" THEN "ready" ELSE "loading"

RankReadiness(s) ==
  IF s.binding = "ended" \/ s.host = "failed" \/ ~s.planned THEN "fallback"
  ELSE IF s.host = "ready" THEN "ready" ELSE "loading"

Unprofitable(S, r) ==
  [k \in Ranks |->
     IF k \in S /\ RankReadiness(ticket[k][r]) # "fallback"
     THEN [ticket[k] EXCEPT ![r] = End(@)] ELSE ticket[k]]

\* (variant) ready as soon as one rank is
CombinedReadinessAny(answers, heard) ==
  IF ~heard THEN "fallback"
  ELSE IF "ready" \in answers THEN "ready"
  ELSE IF "fallback" \in answers THEN "fallback"
  ELSE "loading"

CombinedReadiness(answers, heard) ==
  IF ~heard \/ "fallback" \in answers THEN "fallback"
  ELSE IF "loading" \in answers THEN "loading"
  ELSE "ready"

------------------------------------------------------------------------------
(* What happens at a rank on its own.                                      *)

SetTicket(k, r, s) == ticket' = [ticket EXCEPT ![k][r] = s]

\* The host read of the object completes; too late for an ended ticket.
HostReady(k, r) ==
  /\ ticket[k][r].host = "loading"
  /\ ticket[k][r].binding = "verified"
  /\ SetTicket(k, r, [ticket[k][r] EXCEPT !.host = "ready"])
  /\ UNCHANGED <<late, faults>>

HostFailed(k, r) ==
  /\ ticket[k][r].host = "loading"
  /\ ticket[k][r].binding = "verified"
  /\ SetTicket(k, r, End([ticket[k][r] EXCEPT !.host = "failed"]))
  /\ UNCHANGED <<late, faults>>

\* The deadline passes and a control call for any ticket sweeps this one.
Expires(k, r) ==
  /\ Expiring
  /\ ticket[k][r].binding # "ended"
  /\ SetTicket(k, r, End(ticket[k][r]))
  /\ UNCHANGED <<late, faults>>

\* A queued command is executed, in any order with the others.
Deliver(m) ==
  /\ m \in late
  /\ ticket' = After(ticket, {m.rank}, m.command, m.request)
  /\ late' = late \ {m}
  /\ UNCHANGED faults

Lose(m) ==
  /\ m \in late
  /\ faults < MaxFaults
  /\ late' = late \ {m}
  /\ faults' = faults + 1
  /\ UNCHANGED ticket

RankStep ==
  \/ \E k \in Ranks, r \in Requests : HostReady(k, r) \/ HostFailed(k, r) \/ Expires(k, r)
  \/ \E m \in late : Deliver(m) \/ Lose(m)
==============================================================================
