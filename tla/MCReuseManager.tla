---------------------------- MODULE MCReuseManager ----------------------------
(***************************************************************************)
(* TLC instances of ReuseManager: two tickets on one executor thread, so   *)
(* that a queued read waits behind another one.                            *)
(***************************************************************************)
EXTENDS ReuseManager, TLC

CONSTANTS t1, t2, r1, o1, o2, p1

TwoTickets == {t1, t2}
OneRequest == {r1}
OneObject == {o1}
TwoObjects == {o1, o2}
OnePlan == {p1}

==============================================================================
