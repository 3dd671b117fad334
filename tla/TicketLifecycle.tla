--------------------------- MODULE TicketLifecycle ---------------------------
(***************************************************************************)
(* What one reuse ticket promises the serving engine, with no managers,    *)
(* locks, threads or buffers.                                              *)
(*                                                                         *)
(* A ticket is issued for one cache object.  Filling the host copy and     *)
(* claiming the ticket for one request advance independently, in either    *)
(* order.  Only a ticket that is both filled and claimed may be engaged,   *)
(* i.e. may write KV into the GPU cache.  A ticket that ends never comes   *)
(* back, and its fill outcome is final from then on.  A request is held by *)
(* at most one ticket until that ticket is retired.                        *)
(***************************************************************************)
CONSTANTS Tickets, Requests, NoRequest

VARIABLES
  phase,     \* absent, issued, engaged, ended or retired, per ticket
  filled,    \* none, busy, full or broken, per ticket
  claim      \* the request that holds the ticket, or NoRequest

lifecycleVars == <<phase, filled, claim>>

Open(t) == phase[t] \in {"issued", "engaged"}

Held(r) == \E t \in Tickets : claim[t] = r /\ phase[t] # "retired"

LifecycleInit ==
  /\ phase = [t \in Tickets |-> "absent"]
  /\ filled = [t \in Tickets |-> "none"]
  /\ claim = [t \in Tickets |-> NoRequest]

Issue(t) ==
  /\ phase[t] = "absent"
  /\ phase' = [phase EXCEPT ![t] = "issued"]
  /\ UNCHANGED <<filled, claim>>

\* The fill makes progress, and only for a ticket that is still open.
Fill(t) ==
  /\ Open(t)
  /\ \/ /\ filled[t] = "none"
        /\ filled' = [filled EXCEPT ![t] = "busy"]
     \/ /\ filled[t] \in {"none", "busy"}
        /\ filled' = [filled EXCEPT ![t] = "full"]
  /\ UNCHANGED <<phase, claim>>

\* A broken fill ends its ticket in the same step.
Break(t) ==
  /\ Open(t)
  /\ filled[t] \in {"none", "busy"}
  /\ filled' = [filled EXCEPT ![t] = "broken"]
  /\ phase' = [phase EXCEPT ![t] = "ended"]
  /\ UNCHANGED claim

Claim(t, r) ==
  /\ phase[t] = "issued"
  /\ claim[t] = NoRequest
  /\ ~Held(r)
  /\ claim' = [claim EXCEPT ![t] = r]
  /\ UNCHANGED <<phase, filled>>

Engage(t) ==
  /\ phase[t] = "issued"
  /\ filled[t] = "full"
  /\ claim[t] # NoRequest
  /\ phase' = [phase EXCEPT ![t] = "engaged"]
  /\ UNCHANGED <<filled, claim>>

\* One step may end several tickets: a deadline sweep does.
End(S) ==
  /\ \A t \in S : Open(t)
  /\ phase' = [t \in Tickets |-> IF t \in S THEN "ended" ELSE phase[t]]
  /\ UNCHANGED <<filled, claim>>

Retire(t) ==
  /\ phase[t] \in {"issued", "engaged", "ended"}
  /\ phase' = [phase EXCEPT ![t] = "retired"]
  /\ UNCHANGED <<filled, claim>>

LifecycleNext ==
  \/ \E t \in Tickets :
       \/ Issue(t) \/ Fill(t) \/ Break(t) \/ Engage(t) \/ Retire(t)
       \/ \E r \in Requests : Claim(t, r)
  \/ \E S \in SUBSET Tickets : End(S)

LifecycleSpec == LifecycleInit /\ [][LifecycleNext]_lifecycleVars
==============================================================================
