---------------------------- MODULE PrefillReuse -----------------------------
(***************************************************************************)
(* What reuse promises the prefill of one request, with no ranks, tickets, *)
(* calls or leases.                                                        *)
(*                                                                         *)
(* The prompt is computed in order.  A request that may reuse stops at the *)
(* boundary until it is decided: granted, it skips the reused range at     *)
(* once; refused, it computes on.  A grant is given once.  It settles, or  *)
(* it is revoked, also when it has settled and the request started over,   *)
(* and then every token from the boundary on is computed again.            *)
(***************************************************************************)
EXTENDS Integers

CONSTANTS Requests, Boundary, ReuseEnd, PromptTokens

VARIABLES
  decision,   \* plain, open, held, granted, skipped, settled, refused or over
  computed    \* tokens that count as computed

prefillVars == <<decision, computed>>

Decide(r, from, to) ==
  /\ decision[r] \in from
  /\ decision' = [decision EXCEPT ![r] = to]

PrefillInit ==
  /\ decision = [r \in Requests |-> "plain"]
  /\ computed = [r \in Requests |-> 0]

Enter(r) == Decide(r, {"plain"}, "open") /\ UNCHANGED computed

\* An open request computes up to the boundary, any other to the end.  It may
\* start over, and find part of the prompt computed already.
Compute(r, n) ==
  /\ \/ decision[r] = "open" /\ n <= Boundary
     \/ decision[r] \in {"plain", "refused", "settled"}
  /\ computed' = [computed EXCEPT ![r] = n]
  /\ UNCHANGED decision

\* It was found beyond the boundary: too late to reuse.
TooLate(r, n) ==
  /\ Decide(r, {"open"}, "refused")
  /\ computed' = [computed EXCEPT ![r] = n]

Refuse(r) == Decide(r, {"held", "granted"}, "refused") /\ UNCHANGED computed

Grant(r) ==
  /\ Decide(r, {"held"}, "granted")
  /\ computed[r] = Boundary
  /\ UNCHANGED computed

Skip(r, n) ==
  /\ Decide(r, {"granted"}, "skipped")
  /\ n >= ReuseEnd
  /\ computed' = [computed EXCEPT ![r] = n]

\* The end of an engine step decides several requests at once; others start over.
Land(held, settled, revoked, again) ==
  /\ \A r \in held : decision[r] = "open" /\ computed[r] = Boundary
  /\ \A r \in settled : decision[r] = "skipped"
  /\ \A r \in revoked : decision[r] \in {"skipped", "settled"}
  /\ \A r \in again : decision[r] \in {"plain", "open", "refused", "settled"}
  /\ settled \cap revoked = {} /\ held \cap again = {}
  /\ decision' = [r \in Requests |->
       CASE r \in held -> "held" [] r \in settled -> "settled"
         [] r \in revoked -> "refused" [] OTHER -> decision[r]]
  /\ \E n \in 0 .. Boundary :
       computed' = [r \in Requests |-> IF r \in again THEN 0
                                       ELSE IF r \in revoked THEN n ELSE computed[r]]

Leave(r) ==
  /\ Decide(r, {"plain", "open", "held", "refused", "settled"}, "over")
  /\ computed' = [computed EXCEPT ![r] = 0]

PrefillNext ==
  \/ \E r \in Requests :
       \/ Enter(r) \/ Refuse(r) \/ Grant(r) \/ Leave(r)
       \/ \E n \in 0 .. PromptTokens : Compute(r, n) \/ TooLate(r, n) \/ Skip(r, n)
  \/ \E held, settled, revoked, again \in SUBSET Requests : Land(held, settled, revoked, again)

PrefillSpec == PrefillInit /\ [][PrefillNext]_prefillVars
==============================================================================
