------------------------------ MODULE HostLoads ------------------------------
(***************************************************************************)
(* StorageManager: the host loads of the tickets, the executor that reads  *)
(* them into pinned buffers, the retained group and close().               *)
(*                                                                         *)
(* A buffer group is the tuple of pinned buffers one physical read fills;  *)
(* a ticket reads at most once, so a group is named by the ticket that     *)
(* read it.  A method is one step when it holds the storage lock from its  *)
(* first effect to its last.  Buffers handed back after the lock is left   *)
(* are reachable from that thread alone, so their return is part of the    *)
(* step.  Two methods are split where another thread can tell: a submit    *)
(* between its two metadata updates, and the cancellation close() makes    *)
(* without the RequestManager's lock, between reading and ending a ticket. *)
(***************************************************************************)
EXTENDS TicketTable, FiniteSets

CONSTANTS
  MaxInflight,   \* max_inflight_loads, the executor's threads
  Retain         \* retain_last_host_object

ASSUME HostAssumption ==
  /\ MaxInflight \in Nat \ {0}
  /\ Retain \in BOOLEAN

VARIABLES
  load,          \* _loads_by_ticket
  io,            \* the future of each ticket's read
  pool,          \* what became of each buffer group
  resident,      \* _resident_memory_objects, or NoTicket
  storageClosed, \* _closed
  closer         \* the thread inside close()

hostVars == <<load, io, pool, resident, storageClosed, closer>>

NoLoad == [present |-> FALSE, group |-> NoTicket, hit |-> FALSE]
LoadOf(group, hit) == [present |-> TRUE, group |-> group, hit |-> hit]

IOStates == {"idle", "queued", "reading", "read", "broken", "done"}
PoolStates == {"unused", "held", "returned", "returned twice"}

\* Where close() is: the tickets it still has to cancel, and of the one it is
\* cancelling the buffers it took and whether get_runtime said it was live.
CloserAt(pc, todo) ==
  [pc |-> pc, todo |-> todo, ticket |-> NoTicket, group |-> NoTicket, live |-> FALSE]

NoLoads == \A t \in Tickets : ~load[t].present

HostInit ==
  /\ load = [t \in Tickets |-> NoLoad]
  /\ io = [t \in Tickets |-> "idle"]
  /\ pool = [g \in Tickets |-> "unused"]
  /\ resident = NoTicket
  /\ storageClosed = FALSE
  /\ closer = CloserAt("idle", {})

\* _release_buffers of every group in S: the second return of a group is the bug
\* the pool cannot repair.
Returned(S) ==
  pool' = [g \in Tickets |->
             IF g \notin S THEN pool[g]
             ELSE IF pool[g] = "held" THEN "returned" ELSE "returned twice"]

\* _take_loaded_buffers: the group an owning (not sharing) load has, if any.
Taken(t) == IF load[t].hit THEN {} ELSE {load[t].group} \ {NoTicket}

\* _loads_by_ticket.pop(ticket)
Detach(t) == load' = [load EXCEPT ![t] = NoLoad]

------------------------------------------------------------------------------
(* submit_host_load, called right after create_ticket.                     *)

MaySubmit(t) ==
  /\ ~storageClosed
  /\ ~load[t].present
  /\ Retain => NoLoads

ResidentHit(t) ==
  /\ Retain
  /\ resident # NoTicket
  /\ runtime[resident].object = runtime[t].object

\* The retained group holds this object: share it, no read.
SubmitHit(t) ==
  /\ MaySubmit(t)
  /\ ResidentHit(t)
  /\ load' = [load EXCEPT ![t] = LoadOf(resident, TRUE)]
  /\ StartHostLoad(t)
  /\ UNCHANGED <<io, pool, resident, storageClosed, closer>>

SubmitHitReady(t) ==
  /\ MarkHostReady(t)
  /\ UNCHANGED hostVars

\* (variant) gives the retained group back but still remembers it
SubmitMissRemembers(t) ==
  /\ MaySubmit(t)
  /\ ~ResidentHit(t)
  /\ Returned({resident} \ {NoTicket})
  /\ load' = [load EXCEPT ![t] = LoadOf(NoTicket, FALSE)]
  /\ StartHostLoad(t)
  /\ UNCHANGED <<io, resident, storageClosed, closer>>

\* A retained group of another object is given back first.
SubmitMiss(t) ==
  /\ MaySubmit(t)
  /\ ~ResidentHit(t)
  /\ Returned({resident} \ {NoTicket})
  /\ resident' = NoTicket
  /\ load' = [load EXCEPT ![t] = LoadOf(NoTicket, FALSE)]
  /\ StartHostLoad(t)
  /\ UNCHANGED <<io, storageClosed, closer>>

Enqueue(t) ==
  /\ io' = [io EXCEPT ![t] = "queued"]
  /\ UNCHANGED <<runtime, ticketByRequest, load, pool, resident, storageClosed, closer>>

\* executor.submit raised: the ticket ends without a load.
EnqueueFails(t) ==
  /\ Detach(t)
  /\ MarkHostFailed(t)
  /\ UNCHANGED <<io, pool, resident, storageClosed, closer>>

\* Everything submit_host_load refuses before it records a load (an invalid
\* object or container, a closed manager, retain mode with a load alive): the
\* RequestManager's _submit_host_load ends the ticket.
SubmitRefused(t) ==
  /\ MarkHostFailed(t)
  /\ UNCHANGED hostVars

------------------------------------------------------------------------------
(* The executor: _load_into_pool and its done callback.                    *)

Busy == {t \in Tickets : io[t] \in {"reading", "read", "broken"}}

\* The order of the queue is abstracted: any queued read may be the next.
ReadStarts(t) ==
  /\ io[t] = "queued"
  /\ Cardinality(Busy) < MaxInflight
  /\ io' = [io EXCEPT ![t] = "reading"]
  /\ UNCHANGED <<runtime, ticketByRequest, load, pool, resident, storageClosed, closer>>

ReadSucceeds(t) ==
  /\ io[t] = "reading"
  /\ io' = [io EXCEPT ![t] = "read"]
  /\ pool' = [pool EXCEPT ![t] = "held"]
  /\ UNCHANGED <<runtime, ticketByRequest, load, resident, storageClosed, closer>>

\* No buffers in the pool, a read error, a wrong length.  The callback gets an
\* exception and no buffers; what the transfer acquired before it raised is
\* HostTransfers' concern.
ReadFails(t) ==
  /\ io[t] = "reading"
  /\ io' = [io EXCEPT ![t] = "broken"]
  /\ UNCHANGED <<runtime, ticketByRequest, load, pool, resident, storageClosed, closer>>

\* (variant) a completion without a load has nothing to do
CompleteDetachedLeaks(t) ==
  /\ io[t] \in {"read", "broken"}
  /\ ~load[t].present
  /\ UNCHANGED <<runtime, ticketByRequest, load, pool>>

\* The load was cancelled, expired or released while it was being read.
CompleteDetached(t) ==
  /\ io[t] \in {"read", "broken"}
  /\ ~load[t].present
  /\ Returned(IF io[t] = "read" THEN {t} ELSE {})
  /\ UNCHANGED <<runtime, ticketByRequest, load>>

\* (variant) forgets the load without failing the ticket
CompleteBrokenSilently(t) ==
  /\ io[t] = "broken"
  /\ load[t].present
  /\ Detach(t)
  /\ UNCHANGED <<tableVars, pool>>

CompleteBroken(t) ==
  /\ io[t] = "broken"
  /\ load[t].present
  /\ Detach(t)
  /\ IF MarkHostFailedOK(t) THEN MarkHostFailed(t) ELSE UNCHANGED tableVars
  /\ UNCHANGED pool

\* (variant) publishes readiness without asking the table
CompleteReadUnchecked(t) ==
  /\ io[t] = "read"
  /\ load[t].present
  /\ load' = [load EXCEPT ![t] = LoadOf(t, load[t].hit)]
  /\ Store(t, [runtime[t] EXCEPT !.host = "ready"])
  /\ UNCHANGED <<ticketByRequest, pool>>

\* The ticket may have ended while its load was still recorded: an expiry runs
\* without the storage lock.
CompleteRead(t) ==
  /\ io[t] = "read"
  /\ load[t].present
  /\ IF MarkHostReadyOK(t)
     THEN /\ load' = [load EXCEPT ![t] = LoadOf(t, load[t].hit)]
          /\ MarkHostReady(t)
          /\ UNCHANGED pool
     ELSE /\ Detach(t)
          /\ Returned({t})
          /\ UNCHANGED tableVars

\* _complete_host_load
CompleteLoad(t) ==
  /\ CompleteDetached(t) \/ CompleteBroken(t) \/ CompleteRead(t)
  /\ io' = [io EXCEPT ![t] = "done"]
  /\ UNCHANGED <<resident, storageClosed, closer>>

------------------------------------------------------------------------------
(* cancel_host_load and release_host_load, under the RequestManager's lock. *)

\* (variant) gives the buffers back but leaves the ticket going
CancelHostLoadOnly(t) ==
  /\ load[t].present
  /\ Detach(t)
  /\ Returned(Taken(t))
  /\ UNCHANGED <<tableVars, io, resident, storageClosed, closer>>

CancelHostLoad(t) ==
  /\ load[t].present
  /\ Detach(t)
  /\ Returned(Taken(t))
  /\ IF Live(t) THEN Fallback(t) ELSE UNCHANGED tableVars
  /\ UNCHANGED <<io, resident, storageClosed, closer>>

\* In retain mode the group of the last released ticket stays, and a group it
\* replaces is given back.
ReleaseHostLoad(t) ==
  /\ load[t].present
  /\ Detach(t)
  /\ Release(t)
  /\ IF Retain /\ load[t].group # NoTicket /\ ~load[t].hit
     THEN /\ resident' = load[t].group
          /\ Returned({resident} \ {NoTicket})
     ELSE /\ Returned(Taken(t))
          /\ UNCHANGED resident
  /\ UNCHANGED <<io, storageClosed, closer>>

------------------------------------------------------------------------------
(* close: one thread, which takes the storage lock for each ticket anew.   *)

CloseStorage ==
  /\ closer.pc = "entered"
  /\ storageClosed' = TRUE
  /\ closer' = CloserAt("cancelling", {t \in Tickets : load[t].present})
  /\ UNCHANGED <<runtime, ticketByRequest, load, io, pool, resident>>

\* cancel_host_load up to get_runtime; the storage lock stays held.
CloseDetaches(t) ==
  /\ closer.pc = "cancelling"
  /\ t \in closer.todo
  /\ load[t].present
  /\ Detach(t)
  /\ closer' = [pc |-> "detached", todo |-> closer.todo \ {t}, ticket |-> t,
                group |-> IF Taken(t) = {} THEN NoTicket ELSE load[t].group,
                live |-> Live(t)]
  /\ UNCHANGED <<runtime, ticketByRequest, io, pool, resident, storageClosed>>

\* KeyError: the load went away after the snapshot.
CloseSkips(t) ==
  /\ closer.pc = "cancelling"
  /\ t \in closer.todo
  /\ ~load[t].present
  /\ closer' = [closer EXCEPT !.todo = @ \ {t}]
  /\ UNCHANGED <<runtime, ticketByRequest, load, io, pool, resident, storageClosed>>

\* The rest of cancel_host_load.  fallback raises ValueError when the ticket has
\* ended since get_runtime; close() ignores it and the buffers taken are dropped.
CloseEnds ==
  /\ closer.pc = "detached"
  /\ IF closer.live /\ ~FallbackOK(closer.ticket)
     THEN UNCHANGED <<runtime, ticketByRequest, pool>>
     ELSE /\ Returned({closer.group} \ {NoTicket})
          /\ IF closer.live THEN Fallback(closer.ticket) ELSE UNCHANGED tableVars
  /\ closer' = CloserAt("cancelling", closer.todo)
  /\ UNCHANGED <<load, io, resident, storageClosed>>

\* The loads still recorded and the retained group go back together.
Collect(groups) ==
  /\ Returned(groups)
  /\ load' = [t \in Tickets |-> NoLoad]
  /\ resident' = NoTicket
  /\ closer' = CloserAt("done", {})
  /\ UNCHANGED <<runtime, ticketByRequest, io, storageClosed>>

Leftovers == {g \in Tickets : g = resident \/ \E t \in Tickets : g \in Taken(t)}

\* (variant) does not wait for the reads that are under way
CloseCollectsEarly ==
  /\ closer.pc = "cancelling"
  /\ closer.todo = {}
  /\ Collect(Leftovers)

\* (variant) waits for reads nobody submitted
CloseCollectsNever ==
  /\ closer.pc = "cancelling"
  /\ closer.todo = {}
  /\ \A t \in Tickets : io[t] = "done"
  /\ Collect(Leftovers)

\* executor.shutdown(wait=True) has returned; what is left is collected.
CloseCollects ==
  /\ closer.pc = "cancelling"
  /\ closer.todo = {}
  /\ \A t \in Tickets : io[t] \in {"idle", "done"}
  /\ Collect(Leftovers)

CloseStep ==
  \/ CloseStorage
  \/ \E t \in Tickets : CloseDetaches(t) \/ CloseSkips(t)
  \/ CloseEnds
  \/ CloseCollects

==============================================================================
