---------------------------- MODULE MCTicketTable ----------------------------
(***************************************************************************)
(* TLC instance of TicketTable: two tickets that may compete for the same  *)
(* request, three layers, so that loading can run ahead of correcting.     *)
(***************************************************************************)
EXTENDS TicketTable, TLC

CONSTANTS t1, t2, r1, r2, o1, p1, p2

MCTickets == {t1, t2}
MCRequests == {r1, r2}
MCObjects == {o1}
MCPlans == {p1, p2}

==============================================================================
