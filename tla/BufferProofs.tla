---------------------------- MODULE BufferProofs ----------------------------
(***************************************************************************)
(* The pinned buffers of ReuseManager: every group acquired from the pool  *)
(* has one owner until it is back, and close() gets all of them back; who  *)
(* may read them, which are the loads that share a group and the layer     *)
(* copies of the worker; and what the runtime table says of them.          *)
(*                                                                         *)
(* All of it needs that nobody ends a ticket between the two metadata      *)
(* calls of a cancellation close() makes.  A deadline can (poll), so the   *)
(* theorems are about managers that have deadlines or are closed, not      *)
(* both, and CopiesHeld about managers without deadlines.                  *)
(*                                                                         *)
(* That a group has one owner is not inductive.  It rests on the life of a *)
(* read: a group exists from its read on, the read of a ticket is          *)
(* submitted once (ReadsOnce), so a group is never acquired again under an *)
(* owner it already has; and on the storage lock, which close() holds over *)
(* the pair of calls (ClosesInOrder).                                      *)
(***************************************************************************)
EXTENDS ReuseManagerProofs, FiniteSetTheorems

ExpiresOrCloses == ~(Expiring /\ Closing)

\* The load of the ticket has buffers and does not share them.
Owns(t) == load[t].present /\ ~load[t].hit /\ load[t].group # NoTicket

\* The hands a group may be in exclude one another, and outside them it is not held.
OneOwner(t) ==
  /\ load[t].present \/ load[t] = NoLoad
  /\ Owns(t) => load[t].group = t /\ io[t] = "done" /\ resident # t /\ closer.group # t
  /\ resident = t => io[t] = "done" /\ closer.group # t
  /\ closer.group = t => io[t] = "done" /\ closer.pc = "detached"
  /\ pool[t] = "held" <=> io[t] = "read" \/ resident = t \/ closer.group = t \/ Owns(t)
  /\ pool[t] # "returned twice"

GroupsOwned == \A t \in Tickets : OneOwner(t)

\* A read belongs to an issued ticket, and a shared group is not read.
ReadsOnce ==
  \A t \in Tickets :
    /\ load[t].hit => io[t] = "idle"
    /\ io[t] # "idle" \/ load[t].present => Known(t)

\* What select_skill may still rely on at each of its steps.
SubmitsOnce ==
  /\ op.step # "idle" => op.ticket \in Tickets
  /\ op.step \in {"create", "submit", "enqueue"} => io[op.ticket] = "idle"
  /\ op.step = "enqueue" => load[op.ticket] = LoadOf(NoTicket, FALSE)
  /\ op.step \in {"hit", "enqueue"} => closer.pc # "detached"

ClosesInOrder ==
  /\ closer.pc # "idle" => rmClosed /\ Closing
  /\ closer.pc \in {"cancelling", "detached", "done"} => storageClosed
  /\ closer.pc = "detached" /\ closer.live => Live(closer.ticket)
  /\ closer.pc = "done" =>
       \A t \in Tickets : resident # t /\ ~load[t].present /\ io[t] \in {"idle", "done"}

BufferInv == ReuseInv /\ GroupsOwned /\ ReadsOnce /\ SubmitsOnce /\ ClosesInOrder

------------------------------------------------------------------------------
(* What the pieces of the storage methods do.                              *)

LEMMA LoadFields ==
  /\ ~NoLoad.present /\ ~NoLoad.hit /\ NoLoad.group = NoTicket
  /\ \A g : /\ LoadOf(g, TRUE).present /\ LoadOf(g, TRUE).hit
            /\ LoadOf(g, FALSE).present /\ ~LoadOf(g, FALSE).hit
            /\ LoadOf(g, TRUE).group = g /\ LoadOf(g, FALSE).group = g
BY DEF NoLoad, LoadOf

LEMMA DetachDoes ==
  ASSUME HostTyped, NEW t \in Tickets, Detach(t)
  PROVE  \A u \in Tickets : load'[u] = IF u = t THEN NoLoad ELSE load[u]
BY DEF Detach, HostTyped

LEMMA TakenIs ==
  ASSUME HostTyped, GroupsOwned, NEW t \in Tickets
  PROVE  Taken(t) = IF Owns(t) THEN {t} ELSE {}
<1>1. CASE Owns(t)
  <2>1. ~load[t].hit /\ load[t].group = t /\ t # NoTicket
    BY <1>1, TableAssumption DEF Owns, GroupsOwned, OneOwner
  <2> QED
    BY <1>1, <2>1 DEF Taken
<1>2. CASE ~Owns(t)
  <2>1. load[t].hit \/ load[t].group = NoTicket
    <3> QED
      BY <1>2, LoadFields DEF Owns, GroupsOwned, OneOwner, HostTyped
  <2> QED
    BY <1>2, <2>1 DEF Taken
<1> QED
  BY <1>1, <1>2

\* Giving back groups that are held, and only those, leaves nothing returned twice.
LEMMA ReturnedDoes ==
  ASSUME HostTyped, GroupsOwned, NEW S, Returned(S),
         \A g \in S : g \in Tickets /\ pool[g] = "held"
  PROVE  \A g \in Tickets : /\ pool'[g] # "returned twice"
                            /\ pool'[g] = "held" <=> pool[g] = "held" /\ g \notin S
BY DEF Returned, HostTyped, GroupsOwned, OneOwner

------------------------------------------------------------------------------
(* One owner per group.                                                    *)

LEMMA SubmitOwned ==
  ASSUME HostTyped, GroupsOwned, NEW t \in Tickets, io[t] = "idle",
         SubmitHit(t) \/ SubmitMiss(t)
  PROVE  GroupsOwned'
<1> SUFFICES ASSUME NEW u \in Tickets PROVE OneOwner(u)'
  BY DEF GroupsOwned
<1>0. OneOwner(u) /\ ~load[t].present
  BY DEF GroupsOwned, SubmitHit, SubmitMiss, MaySubmit
<1>1. CASE SubmitHit(t)
  <2>1. load'[u] = IF u = t THEN LoadOf(resident, TRUE) ELSE load[u]
    BY <1>1 DEF SubmitHit, HostTyped
  <2>2. ~Owns(t) /\ (Owns(u)' <=> Owns(u))
    BY <1>0, <2>1, LoadFields DEF Owns
  <2>3. UNCHANGED <<io, pool, resident, closer>>
    BY <1>1 DEF SubmitHit
  <2> QED
    BY <1>0, <2>1, <2>2, <2>3, LoadFields DEF OneOwner
<1>2. CASE SubmitMiss(t)
  <2>1. load'[u] = IF u = t THEN LoadOf(NoTicket, FALSE) ELSE load[u]
    BY <1>2 DEF SubmitMiss, HostTyped
  <2>2. ~Owns(t) /\ (Owns(u)' <=> Owns(u))
    BY <1>0, <2>1, LoadFields DEF Owns
  <2>3. /\ pool'[u] # "returned twice"
        /\ pool'[u] = "held" <=> pool[u] = "held" /\ u # resident
    <3> DEFINE S == {resident} \ {NoTicket}
    <3>1. \A g \in S : g \in Tickets /\ pool[g] = "held"
      <4>1. \A g \in S : g \in Tickets /\ g = resident
        BY DEF HostTyped
      <4> QED
        BY <4>1 DEF GroupsOwned, OneOwner
    <3>2. Returned(S) /\ (u \in S <=> u = resident)
      BY <1>2, TableAssumption DEF SubmitMiss
    <3> HIDE DEF S
    <3> QED
      BY <3>1, <3>2, ReturnedDoes
  <2>4. resident' # u /\ UNCHANGED <<io, closer>>
    BY <1>2, TableAssumption DEF SubmitMiss
  <2>5. (load[u].present \/ load[u] = NoLoad)'
    BY <1>0, <2>1, LoadFields DEF OneOwner
  <2>6. Owns(u)' => load'[u].group = u
    BY <1>0, <2>1, <2>2 DEF OneOwner
  <2> QED
    BY <1>0, <2>2, <2>3, <2>4, <2>5, <2>6 DEF OneOwner
<1> QED
  BY <1>1, <1>2

LEMMA EnqueueOwned ==
  ASSUME HostTyped, GroupsOwned, NEW t \in Tickets, io[t] = "idle",
         load[t] = LoadOf(NoTicket, FALSE), Enqueue(t) \/ EnqueueFails(t)
  PROVE  GroupsOwned'
<1> SUFFICES ASSUME NEW u \in Tickets PROVE OneOwner(u)'
  BY DEF GroupsOwned
<1>0. OneOwner(u) /\ OneOwner(t)
  BY DEF GroupsOwned
<1>1. CASE Enqueue(t)
  <2>1. Owns(u)' <=> Owns(u)
    BY <1>1 DEF Enqueue, Owns
  <2>2. io'[u] = IF u = t THEN "queued" ELSE io[u]
    BY <1>1 DEF Enqueue, HostTyped
  <2>3. UNCHANGED <<load, pool, resident, closer>>
    BY <1>1 DEF Enqueue
  <2> QED
    BY <1>0, <2>1, <2>2, <2>3 DEF OneOwner
<1>2. CASE EnqueueFails(t)
  <2>1. load'[u] = IF u = t THEN NoLoad ELSE load[u]
    BY <1>2, DetachDoes DEF EnqueueFails
  <2>2. Owns(u)' <=> Owns(u)
    BY <2>1, LoadFields DEF Owns
  <2> QED
    BY <1>0, <1>2, <2>1, <2>2, LoadFields DEF EnqueueFails, OneOwner
<1> QED
  BY <1>1, <1>2

LEMMA IOOwned ==
  ASSUME HostTyped, GroupsOwned, ReadsOnce, NEW t \in Tickets, IOStep(t)
  PROVE  GroupsOwned'
<1> SUFFICES ASSUME NEW u \in Tickets PROVE OneOwner(u)'
  BY DEF GroupsOwned
<1>0. OneOwner(u) /\ OneOwner(t)
  BY DEF GroupsOwned
<1>1. CASE ReadStarts(t) \/ ReadSucceeds(t) \/ ReadFails(t)
  <2>1. Owns(u)' <=> Owns(u)
    BY <1>1 DEF ReadStarts, ReadSucceeds, ReadFails, Owns
  <2>2. /\ io[t] \in {"queued", "reading"}
        /\ u # t => io'[u] = io[u] /\ pool'[u] = pool[u]
        /\ io'[t] # "done"
        /\ pool'[t] = IF io'[t] = "read" THEN "held" ELSE pool[t]
    BY <1>1 DEF ReadStarts, ReadSucceeds, ReadFails, HostTyped
  <2>3. UNCHANGED <<load, resident, closer>>
    BY <1>1 DEF ReadStarts, ReadSucceeds, ReadFails
  <2> QED
    BY <1>0, <2>1, <2>2, <2>3 DEF OneOwner
<1>2. CASE CompleteLoad(t)
  <2>1. /\ io[t] \in {"read", "broken"} /\ UNCHANGED <<resident, closer>>
        /\ io'[u] = IF u = t THEN "done" ELSE io[u]
    BY <1>2 DEF CompleteLoad, CompleteDetached, CompleteBroken, CompleteRead, HostTyped
  <2>2. ~Owns(t) /\ resident # t /\ closer.group # t /\ (pool[t] = "held" <=> io[t] = "read")
    BY <1>0, <2>1 DEF OneOwner
  <2>3. CASE \/ CompleteDetached(t) \/ CompleteBroken(t)
             \/ CompleteRead(t) /\ Detach(t) /\ Returned({t})
    <3>1. load'[u] = load[u] \/ (u = t /\ load'[u] = NoLoad)
      <4>1. UNCHANGED load \/ Detach(t)
        BY <2>3 DEF CompleteDetached, CompleteBroken
      <4> QED
        BY <4>1, DetachDoes
    <3>2. Owns(u)' <=> Owns(u)
      BY <2>2, <3>1, LoadFields DEF Owns
    <3>3. /\ pool'[u] # "returned twice"
          /\ pool'[u] = "held" <=> pool[u] = "held" /\ u # t
      <4>1. CASE CompleteBroken(t)
        BY <1>0, <2>2, <4>1 DEF CompleteBroken, OneOwner
      <4>2. CASE CompleteDetached(t) /\ io[t] = "broken"
        <5>1. pool'[u] = pool[u]
          BY <4>2 DEF CompleteDetached, Returned
        <5> QED
          BY <1>0, <2>2, <4>2, <5>1 DEF OneOwner
      <4>3. CASE Returned({t}) /\ io[t] = "read"
        BY <2>2, <4>3, ReturnedDoes
      <4> QED
        BY <2>1, <2>3, <4>1, <4>2, <4>3 DEF CompleteDetached, CompleteRead
    <3>4. (load[u].present \/ load[u] = NoLoad)'
      BY <1>0, <3>1 DEF OneOwner
    <3>5. Owns(u)' => u # t /\ load'[u] = load[u]
      BY <2>2, <3>1, <3>2, LoadFields DEF Owns
    <3> QED
      BY <1>0, <2>1, <2>2, <3>2, <3>3, <3>4, <3>5 DEF OneOwner
  <2>4. CASE /\ CompleteRead(t) /\ UNCHANGED pool
             /\ load' = [load EXCEPT ![t] = LoadOf(t, load[t].hit)]
    <3>1. load[t].present /\ ~load[t].hit /\ io[t] = "read"
      BY <2>4 DEF CompleteRead, ReadsOnce
    <3>2. load'[u] = IF u = t THEN LoadOf(t, FALSE) ELSE load[u]
      BY <2>4, <3>1 DEF HostTyped
    <3>3. Owns(u)' <=> Owns(u) \/ u = t
      BY <3>1, <3>2, LoadFields, TableAssumption DEF Owns
    <3>4. (load[u].present \/ load[u] = NoLoad)' /\ (Owns(u)' => load'[u].group = u)
      BY <1>0, <3>2, <3>3, LoadFields DEF OneOwner
    <3> QED
      BY <1>0, <2>1, <2>2, <2>4, <3>1, <3>3, <3>4 DEF OneOwner
  <2> QED
    BY <1>2, <2>3, <2>4 DEF CompleteLoad, CompleteRead
<1> QED
  BY <1>1, <1>2 DEF IOStep

\* Detaching a load and returning what it owned: what cancel_host_load does.
LEMMA DetachedOwned ==
  ASSUME HostTyped, GroupsOwned, NEW t \in Tickets, Detach(t), Returned(Taken(t)),
         UNCHANGED <<io, resident, closer>>
  PROVE  GroupsOwned'
<1> SUFFICES ASSUME NEW u \in Tickets PROVE OneOwner(u)'
  BY DEF GroupsOwned
<1>0. OneOwner(u) /\ OneOwner(t)
  BY DEF GroupsOwned
<1>1. load'[u] = IF u = t THEN NoLoad ELSE load[u]
  BY DetachDoes
<1>2. Owns(u)' <=> Owns(u) /\ u # t
  BY <1>1, LoadFields DEF Owns
<1>3. Taken(t) = IF Owns(t) THEN {t} ELSE {}
  BY TakenIs
<1>4. Owns(t) => pool[t] = "held" /\ io[t] # "read"
  BY <1>0 DEF OneOwner
<1>5. /\ pool'[u] # "returned twice"
      /\ pool'[u] = "held" <=> pool[u] = "held" /\ ~(Owns(t) /\ u = t)
  <2>1. \A g \in Taken(t) : g \in Tickets /\ pool[g] = "held"
    BY <1>3, <1>4
  <2>2. u \in Taken(t) <=> Owns(t) /\ u = t
    BY <1>3
  <2> QED
    BY <2>1, <2>2, ReturnedDoes
<1>6. (load[u].present \/ load[u] = NoLoad)'
  BY <1>0, <1>1 DEF OneOwner
<1>7. Owns(u)' => load'[u] = load[u]
  BY <1>1, <1>2
<1> QED
  BY <1>0, <1>2, <1>4, <1>5, <1>6, <1>7 DEF OneOwner

LEMMA ReleasedOwned ==
  ASSUME HostTyped, GroupsOwned, NEW t \in Tickets, ReleaseHostLoad(t)
  PROVE  GroupsOwned'
<1>1. CASE ~(Retain /\ load[t].group # NoTicket /\ ~load[t].hit)
  BY <1>1, DetachedOwned DEF ReleaseHostLoad
<1>2. CASE Retain /\ load[t].group # NoTicket /\ ~load[t].hit
  <2> SUFFICES ASSUME NEW u \in Tickets PROVE OneOwner(u)'
    BY DEF GroupsOwned
  <2>0. OneOwner(u) /\ OneOwner(t)
    BY DEF GroupsOwned
  <2>1. load'[u] = IF u = t THEN NoLoad ELSE load[u]
    BY DetachDoes DEF ReleaseHostLoad
  <2>2. Owns(u)' <=> Owns(u) /\ u # t
    BY <2>1, LoadFields DEF Owns
  <2>3. Owns(t)
    BY <1>2 DEF Owns, ReleaseHostLoad
  <2>4. resident' = t /\ UNCHANGED <<io, closer>>
    <3>1. load[t].group = t
      BY <2>0, <2>3 DEF OneOwner
    <3> QED
      BY <1>2, <3>1 DEF ReleaseHostLoad
  <2>5. /\ pool'[u] # "returned twice"
        /\ pool'[u] = "held" <=> pool[u] = "held" /\ u # resident
    <3> DEFINE S == {resident} \ {NoTicket}
    <3>1. \A g \in S : g \in Tickets /\ pool[g] = "held"
      <4>1. \A g \in S : g \in Tickets /\ g = resident
        BY DEF HostTyped
      <4> QED
        BY <4>1 DEF GroupsOwned, OneOwner
    <3>2. Returned(S) /\ (u \in S <=> u = resident)
      BY <1>2, TableAssumption DEF ReleaseHostLoad
    <3> HIDE DEF S
    <3> QED
      BY <3>1, <3>2, ReturnedDoes
  <2>6. (load[u].present \/ load[u] = NoLoad)'
    BY <2>0, <2>1 DEF OneOwner
  <2>7. Owns(u)' => load'[u] = load[u]
    BY <2>1, <2>2
  <2>8. u # t => OneOwner(u)'
    BY <2>0, <2>2, <2>3, <2>4, <2>5, <2>6, <2>7 DEF OneOwner
  <2>9. u = t => OneOwner(u)'
    BY <2>0, <2>2, <2>3, <2>4, <2>5, <2>6 DEF OneOwner
  <2> QED
    BY <2>8, <2>9
<1> QED
  BY <1>1, <1>2

\* The steps of close() that touch buffers.  CloseEnds needs that the ticket is
\* still live when get_runtime said so.
LEMMA CloseOwned ==
  ASSUME HostTyped, GroupsOwned, CloseStep,
         closer.pc = "detached" /\ closer.live => Live(closer.ticket)
  PROVE  GroupsOwned'
<1> SUFFICES ASSUME NEW u \in Tickets PROVE OneOwner(u)'
  BY DEF GroupsOwned
<1>0. OneOwner(u)
  BY DEF GroupsOwned
<1>1. CASE CloseStorage \/ \E t \in Tickets : CloseSkips(t)
  <2>1. /\ closer.pc # "detached"
        /\ closer'.group = closer.group \/ closer'.group = NoTicket
    BY <1>1 DEF CloseStorage, CloseSkips, CloserAt, HostTyped
  <2>2. UNCHANGED <<load, io, pool, resident>>
    BY <1>1 DEF CloseStorage, CloseSkips
  <2>3. Owns(u)' <=> Owns(u)
    BY <2>2 DEF Owns
  <2> QED
    BY <1>0, <2>1, <2>2, <2>3, TableAssumption DEF OneOwner
<1>2. ASSUME NEW t \in Tickets, CloseDetaches(t)
      PROVE  OneOwner(u)'
  <2>0. OneOwner(t)
    BY DEF GroupsOwned
  <2>1. load'[u] = IF u = t THEN NoLoad ELSE load[u]
    BY <1>2, DetachDoes DEF CloseDetaches
  <2>2. Owns(u)' <=> Owns(u) /\ u # t
    BY <2>1, LoadFields DEF Owns
  <2>3. closer'.pc = "detached" /\ closer'.group = IF Owns(t) THEN t ELSE NoTicket
    <3>1. Owns(t) => load[t].group = t
      BY <2>0 DEF OneOwner
    <3>2. Taken(t) = IF Owns(t) THEN {t} ELSE {}
      BY TakenIs
    <3> QED
      BY <1>2, <3>1, <3>2 DEF CloseDetaches
  <2>4. UNCHANGED <<io, pool, resident>> /\ closer.pc # "detached"
    BY <1>2 DEF CloseDetaches
  <2>5. (load[u].present \/ load[u] = NoLoad)'
    BY <1>0, <2>1 DEF OneOwner
  <2>6. Owns(u)' => load'[u] = load[u]
    BY <2>1, <2>2
  <2>7. u # t => OneOwner(u)'
    BY <1>0, <2>2, <2>3, <2>4, <2>5, <2>6, TableAssumption DEF OneOwner
  <2>8. u = t => OneOwner(u)'
    BY <2>0, <2>2, <2>3, <2>4, <2>5, TableAssumption DEF OneOwner
  <2> QED
    BY <2>7, <2>8
<1>3. CASE CloseEnds
  <2>1. UNCHANGED <<load, io, resident>> /\ closer'.group = NoTicket
    BY <1>3 DEF CloseEnds, CloserAt
  <2>2. Owns(u)' <=> Owns(u)
    BY <2>1 DEF Owns
  <2>3. /\ pool'[u] # "returned twice"
        /\ pool'[u] = "held" <=> pool[u] = "held" /\ u # closer.group
    <3> DEFINE S == {closer.group} \ {NoTicket}
    <3>1. \A g \in S : g \in Tickets /\ pool[g] = "held"
      <4>1. \A g \in S : g \in Tickets /\ g = closer.group
        BY DEF HostTyped
      <4> QED
        BY <4>1 DEF GroupsOwned, OneOwner
    <3>2. Returned(S) /\ (u \in S <=> u = closer.group)
      BY <1>3, TableAssumption DEF CloseEnds, FallbackOK
    <3> HIDE DEF S
    <3> QED
      BY <3>1, <3>2, ReturnedDoes
  <2> QED
    BY <1>0, <2>1, <2>2, <2>3, TableAssumption DEF OneOwner
<1>4. CASE CloseCollects
  <2>1. /\ load'[u] = NoLoad /\ resident' = NoTicket /\ closer'.group = NoTicket
        /\ UNCHANGED io /\ io[u] # "read" /\ closer.pc = "cancelling"
    BY <1>4 DEF CloseCollects, Collect, CloserAt
  <2>2. ~Owns(u)'
    BY <2>1, LoadFields DEF Owns
  <2>3. \A g \in Tickets : g \in Leftovers <=> Owns(g) \/ resident = g
    <3>1. ASSUME NEW t \in Tickets, NEW g
          PROVE  g \in Taken(t) <=> Owns(t) /\ g = t
      BY TakenIs
    <3>2. \A g \in Tickets : (\E t \in Tickets : g \in Taken(t)) <=> Owns(g)
      BY Zenon, <3>1
    <3> QED
      BY <3>2 DEF Leftovers
  <2>4. Leftovers \subseteq Tickets
    BY DEF Leftovers
  <2>5. \A g \in Leftovers : g \in Tickets /\ pool[g] = "held"
    BY <2>3, <2>4 DEF GroupsOwned, OneOwner
  <2>6. /\ pool'[u] # "returned twice"
        /\ pool'[u] = "held" <=> pool[u] = "held" /\ u \notin Leftovers
    BY <1>4, <2>5, ReturnedDoes DEF CloseCollects, Collect
  <2>7. pool'[u] # "held"
    BY <1>0, <2>1, <2>3, <2>6, TableAssumption DEF OneOwner
  <2> QED
    BY <2>1, <2>2, <2>6, <2>7, TableAssumption DEF OneOwner
<1> QED
  BY <1>1, <1>2, <1>3, <1>4 DEF CloseStep

LEMMA HostUnchangedOwned ==
  ASSUME GroupsOwned, UNCHANGED hostVars
  PROVE  GroupsOwned'
<1> SUFFICES ASSUME NEW u \in Tickets PROVE OneOwner(u)'
  BY DEF GroupsOwned
<1>1. OneOwner(u) /\ (Owns(u)' <=> Owns(u))
  BY DEF GroupsOwned, Owns, hostVars
<1> QED
  BY <1>1 DEF OneOwner, hostVars

LEMMA CancelOwned ==
  ASSUME HostTyped, GroupsOwned, NEW t \in Tickets, CancelTicket(t) \/ ReleaseTicket(t)
  PROVE  GroupsOwned'
<1>1. CASE CancelHostLoad(t)
  BY <1>1, DetachedOwned DEF CancelHostLoad
<1>2. CASE ReleaseHostLoad(t)
  BY <1>2, ReleasedOwned
<1>3. CASE UNCHANGED hostVars
  BY <1>3, HostUnchangedOwned
<1> QED
  BY <1>1, <1>2, <1>3 DEF CancelTicket, ReleaseTicket

LEMMA StepGroupsOwned ==
  ASSUME BufferInv, [Next]_vars
  PROVE  GroupsOwned'
<1>0. HostTyped /\ GroupsOwned /\ ReadsOnce /\ SubmitsOnce /\ ClosesInOrder
  BY DEF BufferInv, ReuseInv
<1>1. UNCHANGED hostVars => GroupsOwned'
  BY <1>0, HostUnchangedOwned
<1>2. ASSUME NEW t \in Tickets, CallStep(t)
      PROVE  GroupsOwned'
  BY <1>0, <1>1, <1>2, CancelOwned
  DEF CallStep, Begin, Cancel, ReleaseCall, Handoff, hostVars
<1>3. ASSUME NEW t \in Tickets, OpStep(t)
      PROVE  GroupsOwned'
  <2>1. CASE Sweep(t)
    <3>1. CancelHostLoad(t) => GroupsOwned'
      BY <1>0, DetachedOwned DEF CancelHostLoad
    <3> QED
      BY <1>1, <2>1, <3>1 DEF Sweep
  <2>2. CASE Abort(t)
    BY <1>0, <2>2, CancelOwned DEF Abort
  <2>3. CASE SelectSubmits(t)
    <3>1. io[t] = "idle"
      BY <1>0, <2>3 DEF SelectSubmits, At, SubmitsOnce
    <3> QED
      BY <1>0, <1>1, <2>3, <3>1, SubmitOwned DEF SelectSubmits, SubmitRefused
  <2>4. CASE SelectFinishes(t)
    <3>1. CASE At("select", "hit", t) /\ SubmitHitReady(t)
      BY <1>1, <3>1 DEF SubmitHitReady
    <3>2. CASE At("select", "enqueue", t) /\ (Enqueue(t) \/ EnqueueFails(t))
      <4>1. io[t] = "idle" /\ load[t] = LoadOf(NoTicket, FALSE)
        BY <1>0, <3>2 DEF At, SubmitsOnce
      <4> QED
        BY <1>0, <3>2, <4>1, EnqueueOwned
    <3> QED
      BY <2>4, <3>1, <3>2 DEF SelectFinishes
  <2>5. CASE SelectCreates(t) \/ InspectCommits(t) \/ AuthenticateCommits(t)
               \/ PrepareCommits(t) \/ ActivateCommits(t)
    BY <1>1, <2>5 DEF SelectCreates, InspectCommits, AuthenticateCommits,
       PrepareCommits, ActivateCommits
  <2> QED
    BY <1>3, <2>1, <2>2, <2>3, <2>4, <2>5 DEF OpStep
<1>4. ASSUME NEW t \in Tickets, WorkerStep(t)
      PROVE  GroupsOwned'
  BY <1>0, <1>1, <1>4, CancelOwned DEF WorkerStep, FetchLayer, LayerLands, MarkProgress,
     WorkerSucceeds, WorkerFails, WorkerCancels
<1>5. ASSUME NEW t \in Tickets, IOStep(t)
      PROVE  GroupsOwned'
  BY <1>0, <1>5, IOOwned
<1>6. CASE Decide \/ UNCHANGED vars
  BY <1>1, <1>6 DEF Decide, vars, hostVars
<1>7. CASE CloseManager
  <2>1. closer'.group = NoTicket /\ closer.pc = "idle"
    BY <1>0, <1>7 DEF CloseManager, CloserAt, ClosesInOrder
  <2>2. UNCHANGED <<load, io, pool, resident>>
    BY <1>7 DEF CloseManager
  <2> SUFFICES ASSUME NEW u \in Tickets PROVE OneOwner(u)'
    BY DEF GroupsOwned
  <2>3. OneOwner(u) /\ (Owns(u)' <=> Owns(u))
    BY <1>0, <2>2 DEF GroupsOwned, Owns
  <2> QED
    BY <2>1, <2>2, <2>3, TableAssumption DEF OneOwner
<1>8. CASE CloserStep
  BY <1>0, <1>8, CloseOwned DEF CloserStep, ClosesInOrder
<1> QED
  BY <1>2, <1>3, <1>4, <1>5, <1>6, <1>7, <1>8 DEF Next

------------------------------------------------------------------------------
(* A ticket's read is submitted once.                                      *)

LEMMA KnownStays ==
  ASSUME TableTypeOK, [TableNext]_tableVars, NEW t \in Tickets, Known(t)
  PROVE  Known(t)'
<1>1. ASSUME NEW u \in Tickets, TableStep(u)
      PROVE  Known(t)'
  <2>0. runtime[u] \in Runtime
    BY DEF TableTypeOK
  <2>1. PICK state : /\ runtime' = [runtime EXCEPT ![u] = state]
                     /\ state.binding # "absent" \/ state.binding = runtime[u].binding
    <3>1. CASE \E o \in Objects : CreateTicket(u, o)
      BY <3>1 DEF CreateTicket, Store, Fresh
    <3>2. CASE StartHostLoad(u) \/ MarkHostReady(u) \/ MarkHostFailed(u)
                 \/ MarkObservation(u) \/ Activate(u) \/ Fallback(u) \/ Release(u)
      BY <2>0, <3>2 DEF StartHostLoad, MarkHostReady, MarkHostFailed, MarkObservation,
         Activate, Fallback, Release, Store, Runtime
    <3>3. CASE \/ \E r \in Requests : BindRequest(u, r)
               \/ \E r \in Requests, p \in Plans : SetReusePlan(u, r, p)
               \/ \E layer \in 0 .. Layers - 1 :
                    MarkLayerLoaded(u, layer) \/ MarkLayerCorrected(u, layer)
      BY <2>0, <3>3 DEF BindRequest, SetReusePlan, MarkLayerLoaded, MarkLayerCorrected,
         Store, Runtime
    <3> QED
      BY <1>1, <3>1, <3>2, <3>3 DEF TableStep
  <2> QED
    BY <2>1 DEF Known, TableTypeOK
<1>2. ASSUME NEW overdue \in SUBSET Tickets, Expire(overdue)
      PROVE  Known(t)'
  BY <1>2 DEF Expire, Known, TableTypeOK, Runtime
<1>3. CASE UNCHANGED tableVars
  BY <1>3 DEF tableVars, Known
<1> QED
  BY <1>1, <1>2, <1>3 DEF TableNext

\* Cancelling or releasing a ticket only forgets loads.
LEMMA EndingsForget ==
  ASSUME HostTyped, NEW t \in Tickets,
         \/ CancelTicket(t) \/ ReleaseTicket(t)
         \/ load[t].present /\ CancelHostLoad(t)
  PROVE  /\ UNCHANGED <<io, storageClosed, closer>>
         /\ \A u \in Tickets : load'[u] \in {load[u], NoLoad}
         /\ StorageLockFree \/ CancelHostLoad(t)
         /\ resident' = resident \/ load[t].present
<1>1. CASE CancelHostLoad(t) \/ ReleaseHostLoad(t)
  BY <1>1, DetachDoes DEF CancelHostLoad, ReleaseHostLoad, CancelTicket, ReleaseTicket
<1>2. CASE UNCHANGED hostVars
  BY <1>2 DEF hostVars, CancelTicket, ReleaseTicket
<1> QED
  BY <1>1, <1>2 DEF CancelTicket, ReleaseTicket

LEMMA StepReadsOnce ==
  ASSUME BufferInv, [Next]_vars
  PROVE  ReadsOnce'
<1>0. HostTyped /\ ReadsOnce /\ SubmitsOnce /\ TableTypeOK
  BY DEF BufferInv, ReuseInv, TableInv
<1> SUFFICES ASSUME NEW u \in Tickets
             PROVE  /\ load'[u].hit => io'[u] = "idle"
                    /\ io'[u] # "idle" \/ load'[u].present => Known(u)'
  BY DEF ReadsOnce
<1>1. Known(u) => Known(u)'
  BY <1>0, StepCallsTable, KnownStays DEF BufferInv
<1>2. /\ load[u].hit => io[u] = "idle"
      /\ io[u] # "idle" \/ load[u].present => Known(u)
  BY <1>0 DEF ReadsOnce
<1> DEFINE Goal == /\ load'[u].hit => io'[u] = "idle"
                   /\ io'[u] # "idle" \/ load'[u].present => Known(u)'
\* Steps that submit, read or complete nothing of u.
<1>3. load'[u] \in {load[u], NoLoad} /\ io'[u] = io[u] => Goal
  BY <1>1, <1>2, LoadFields
<1>4. UNCHANGED hostVars => Goal
  BY <1>1, <1>2 DEF hostVars
<1> HIDE DEF Goal
<1>5. ASSUME NEW t \in Tickets, CallStep(t)
      PROVE  Goal
  BY <1>0, <1>3, <1>4, <1>5, EndingsForget
  DEF CallStep, Begin, Cancel, ReleaseCall, Handoff, hostVars
<1>6. ASSUME NEW t \in Tickets, OpStep(t)
      PROVE  Goal
  <2>1. CASE Sweep(t) \/ Abort(t)
    BY <1>0, <1>3, <1>4, <2>1, EndingsForget DEF Sweep, Abort
  <2>2. CASE SelectSubmits(t)
    <3>1. io[t] = "idle"
      BY <1>0, <2>2 DEF SelectSubmits, At, SubmitsOnce
    <3>2. CASE SubmitHit(t) \/ SubmitMiss(t)
      <4>1. UNCHANGED io
        BY <3>2 DEF SubmitHit, SubmitMiss
      <4>2. u # t => load'[u] = load[u]
        <5>1. CASE SubmitHit(t)
          BY <1>0, <5>1 DEF SubmitHit, HostTyped
        <5>2. CASE SubmitMiss(t)
          BY <1>0, <5>2 DEF SubmitMiss, HostTyped
        <5> QED
          BY <3>2, <5>1, <5>2
      <4>3. Known(t)
        BY <3>2 DEF SubmitHit, SubmitMiss, StartHostLoad, StartHostLoadOK, Live, Known
      <4>4. CASE u = t
        BY <1>1, <3>1, <4>1, <4>3, <4>4 DEF Goal
      <4>5. CASE u # t
        BY <1>3, <4>1, <4>2, <4>5
      <4> QED
        BY <4>4, <4>5
    <3>3. CASE SubmitRefused(t)
      BY <1>4, <3>3 DEF SubmitRefused
    <3> QED
      BY <2>2, <3>2, <3>3 DEF SelectSubmits
  <2>3. CASE SelectFinishes(t)
    <3>1. CASE SubmitHitReady(t)
      BY <1>4, <3>1 DEF SubmitHitReady
    <3>2. CASE At("select", "enqueue", t) /\ Enqueue(t)
      <4>1. load[t] = LoadOf(NoTicket, FALSE)
        BY <1>0, <3>2 DEF At, SubmitsOnce
      <4>2. UNCHANGED load /\ (u # t => io'[u] = io[u])
        BY <3>2 DEF Enqueue, HostTyped
      <4> QED
        BY <1>1, <1>2, <1>3, <4>1, <4>2, LoadFields DEF Goal
    <3>3. CASE EnqueueFails(t)
      BY <1>0, <1>3, <3>3, DetachDoes DEF EnqueueFails
    <3> QED
      BY <2>3, <3>1, <3>2, <3>3 DEF SelectFinishes
  <2>4. CASE SelectCreates(t) \/ InspectCommits(t) \/ AuthenticateCommits(t)
               \/ PrepareCommits(t) \/ ActivateCommits(t)
    BY <1>4, <2>4 DEF SelectCreates, InspectCommits, AuthenticateCommits,
       PrepareCommits, ActivateCommits
  <2> QED
    BY <1>6, <2>1, <2>2, <2>3, <2>4 DEF OpStep
<1>7. ASSUME NEW t \in Tickets, WorkerStep(t)
      PROVE  Goal
  BY <1>0, <1>3, <1>4, <1>7, EndingsForget
  DEF WorkerStep, FetchLayer, LayerLands, MarkProgress, WorkerSucceeds, WorkerFails,
      WorkerCancels
<1>8. ASSUME NEW t \in Tickets, IOStep(t)
      PROVE  Goal
  <2>1. io[t] # "idle" /\ (u # t => io'[u] = io[u])
    <3>1. CASE ReadStarts(t) \/ ReadSucceeds(t) \/ ReadFails(t)
      BY <1>0, <3>1 DEF ReadStarts, ReadSucceeds, ReadFails, HostTyped
    <3>2. CASE CompleteLoad(t)
      BY <1>0, <3>2 DEF CompleteLoad, CompleteDetached, CompleteBroken, CompleteRead,
         HostTyped
    <3> QED
      BY <1>8, <3>1, <3>2 DEF IOStep
  <2>2. load[t].hit = FALSE /\ Known(t)
    BY <1>0, <2>1 DEF ReadsOnce, HostTyped
  <2>3. \/ UNCHANGED load \/ Detach(t)
        \/ load' = [load EXCEPT ![t] = LoadOf(t, FALSE)]
    BY <1>8, <2>2 DEF IOStep, ReadStarts, ReadSucceeds, ReadFails,
       CompleteLoad, CompleteDetached, CompleteBroken, CompleteRead
  <2>4. load'[u] \in {load[u], NoLoad} \/ (u = t /\ load'[u] = LoadOf(t, FALSE))
    BY <1>0, <2>3, DetachDoes DEF HostTyped
  <2>5. CASE u # t
    BY <1>3, <2>1, <2>4, <2>5
  <2>6. CASE u = t
    <3>1. ~load'[u].hit
      BY <2>2, <2>4, <2>6, LoadFields
    <3> QED
      BY <1>1, <2>2, <2>6, <3>1 DEF Goal
  <2> QED
    BY <2>5, <2>6
<1>9. CASE Decide \/ UNCHANGED vars
  <2>1. UNCHANGED hostVars
    BY <1>9 DEF Decide, vars, hostVars
  <2> QED
    BY <1>4, <2>1 DEF Goal
<1>10. CASE CloseManager
  <2>1. load'[u] = load[u] /\ io'[u] = io[u]
    BY <1>10 DEF CloseManager
  <2> QED
    BY <1>3, <2>1 DEF Goal
<1>11. CASE CloserStep
  <2>1. io'[u] = io[u]
    BY <1>11 DEF CloserStep, CloseStep, CloseStorage, CloseDetaches,
       CloseSkips, CloseEnds, CloseCollects, Collect
  <2>2. \/ UNCHANGED load \/ load' = [t \in Tickets |-> NoLoad]
        \/ \E t \in Tickets : Detach(t)
    BY <1>11 DEF CloserStep, CloseStep, CloseStorage, CloseDetaches,
       CloseSkips, CloseEnds, CloseCollects, Collect
  <2>3. load'[u] \in {load[u], NoLoad}
    BY <1>0, <2>2, DetachDoes
  <2> QED
    BY <1>3, <2>1, <2>3 DEF Goal
<1> QED
  BY <1>5, <1>6, <1>7, <1>8, <1>9, <1>10, <1>11 DEF Next, Goal

\* A step of another thread does not disturb what a method under way relies on.
LEMMA SubmitsElsewhere ==
  ASSUME SubmitsOnce, UNCHANGED op,
         \A u \in Tickets : io[u] = "idle" => io'[u] = "idle",
         op.step = "enqueue" => load'[op.ticket] = load[op.ticket],
         op.step \in {"hit", "enqueue"} => closer'.pc = closer.pc
  PROVE  SubmitsOnce'
BY DEF SubmitsOnce

LEMMA StepSubmitsOnce ==
  ASSUME BufferInv, [Next]_vars
  PROVE  SubmitsOnce'
<1>0. HostTyped /\ OpTyped /\ ReadsOnce /\ SubmitsOnce
  BY DEF BufferInv, ReuseInv
<1>1. CASE op'.step \in {"idle", "sweep", "decide", "commit", "abort"}
           /\ (op'.step # "idle" => op'.ticket \in Tickets)
  BY <1>1 DEF SubmitsOnce
<1>2. CASE UNCHANGED <<op, load, io, closer>>
  BY <1>0, <1>2 DEF SubmitsOnce
<1>3. Done => SubmitsOnce'
  BY <1>1 DEF Done, Idle
<1>4. ASSUME NEW t \in Tickets, CallStep(t)
      PROVE  SubmitsOnce'
  <2>1. CASE \E call \in Calls, r \in Requests \cup {NoRequest} : Begin(call, t, r)
    BY <1>1, <2>1 DEF Begin
  <2>2. CASE Cancel(t) \/ ReleaseCall(t)
    <3>1. UNCHANGED op /\ op.step = "idle"
      BY <2>2 DEF Cancel, ReleaseCall, Idle
    <3> QED
      BY <1>1, <3>1
  <2>3. CASE Handoff(t)
    BY <1>2, <2>3 DEF Handoff, hostVars
  <2> QED
    BY <1>4, <2>1, <2>2, <2>3 DEF CallStep
<1>5. ASSUME NEW t \in Tickets, OpStep(t)
      PROVE  SubmitsOnce'
  <2>1. CASE Sweep(t)
    <3>1. op'.ticket = op.ticket /\ op'.step \in {"sweep", "decide"}
      BY <1>0, <2>1 DEF Sweep, OpTyped
    <3>2. op.ticket \in Tickets
      BY <1>0, <2>1 DEF Sweep, SubmitsOnce
    <3> QED
      BY <1>1, <3>1, <3>2
  <2>2. CASE Abort(t) \/ SelectFinishes(t) \/ InspectCommits(t) \/ ActivateCommits(t)
    BY <1>3, <2>2 DEF Abort, SelectFinishes, InspectCommits, ActivateCommits
  <2>3. CASE AuthenticateCommits(t) \/ PrepareCommits(t)
    <3>1. Done \/ (GoTo("abort") /\ op.ticket = t)
      BY <2>3 DEF AuthenticateCommits, PrepareCommits, At
    <3>2. CASE GoTo("abort") /\ op.ticket = t
      <4>1. op'.step = "abort" /\ op'.ticket = t
        BY <1>0, <3>2 DEF GoTo, OpTyped
      <4> QED
        BY <1>1, <4>1
    <3> QED
      BY <1>3, <3>1, <3>2
  <2>4. CASE SelectCreates(t)
    <3>1. op'.step = "submit" /\ op'.ticket = t /\ io'[t] = "idle"
      BY <1>0, <2>4 DEF SelectCreates, At, GoTo, OpTyped, SubmitsOnce, hostVars
    <3> QED
      BY <3>1 DEF SubmitsOnce
  <2>5. CASE SelectSubmits(t)
    <3>0. /\ op.step = "submit" /\ op.ticket = t /\ io[t] = "idle"
          /\ closer.pc # "detached"
      BY <1>0, <2>5 DEF SelectSubmits, At, SubmitsOnce, StorageLockFree
    <3>1. CASE SubmitHit(t) /\ GoTo("hit")
      <4>1. op'.step = "hit" /\ op'.ticket = t /\ UNCHANGED closer
        BY <1>0, <3>0, <3>1 DEF SubmitHit, GoTo, OpTyped
      <4> QED
        BY <3>0, <4>1 DEF SubmitsOnce
    <3>2. CASE SubmitMiss(t) /\ GoTo("enqueue")
      <4>1. op'.step = "enqueue" /\ op'.ticket = t /\ UNCHANGED <<io, closer>>
        BY <1>0, <3>0, <3>2 DEF SubmitMiss, GoTo, OpTyped
      <4>2. load'[t] = LoadOf(NoTicket, FALSE)
        BY <1>0, <3>2 DEF SubmitMiss, HostTyped
      <4> QED
        BY <3>0, <4>1, <4>2 DEF SubmitsOnce
    <3> QED
      BY <1>3, <2>5, <3>1, <3>2 DEF SelectSubmits
  <2> QED
    BY <1>5, <2>1, <2>2, <2>3, <2>4, <2>5 DEF OpStep
<1>6. ASSUME NEW t \in Tickets, WorkerStep(t)
      PROVE  SubmitsOnce'
  <2>1. CASE MarkProgress(t) \/ FetchLayer(t) \/ LayerLands(t) \/ WorkerFails(t)
    BY <1>2, <2>1 DEF MarkProgress, FetchLayer, LayerLands, WorkerFails, hostVars
  <2>2. CASE WorkerSucceeds(t) \/ WorkerCancels(t)
    <3>1. UNCHANGED op /\ op.step = "idle"
      BY <2>2 DEF WorkerSucceeds, WorkerCancels, Idle
    <3> QED
      BY <1>1, <3>1
  <2> QED
    BY <1>6, <2>1, <2>2 DEF WorkerStep
<1>7. ASSUME NEW t \in Tickets, IOStep(t)
      PROVE  SubmitsOnce'
  <2>1. UNCHANGED <<op, closer>>
    BY <1>7 DEF IOStep, managerVars, ReadStarts, ReadSucceeds, ReadFails, CompleteLoad
  <2>2. op.step = "enqueue" => UNCHANGED load
    BY <1>7 DEF IOStep, ReadStarts, ReadSucceeds, ReadFails, StorageLockFree
  <2>3. \A u \in Tickets : io[u] = "idle" => io'[u] = "idle"
    <3>1. PICK state : io[t] # "idle" /\ io' = [io EXCEPT ![t] = state]
      BY <1>7 DEF IOStep, ReadStarts, ReadSucceeds, ReadFails, CompleteLoad,
         CompleteDetached, CompleteBroken, CompleteRead
    <3> QED
      BY <1>0, <3>1 DEF HostTyped
  <2> QED
    BY <1>0, <2>1, <2>2, <2>3, SubmitsElsewhere
<1>8. CASE Decide
  <2>1. PICK verdict \in Verdicts :
               IF verdict = "return" THEN Done ELSE GoTo(verdict)
    BY <1>8 DEF Decide
  <2>2. op.ticket \in Tickets /\ op.call \in Calls /\ UNCHANGED <<load, io, closer>>
    BY <1>0, <1>8 DEF Decide, SubmitsOnce, OpTyped, hostVars
  <2>3. verdict \in {"return", "create", "commit", "abort"}
    BY <2>2 DEF Verdicts, SelectVerdicts, InspectVerdicts, AuthenticateVerdicts,
       PrepareVerdicts, QueryVerdicts, ActivateVerdicts, Calls
  <2>4. verdict = "create" => ~Known(op.ticket)
    BY <2>2 DEF Verdicts, SelectVerdicts, InspectVerdicts, AuthenticateVerdicts,
       PrepareVerdicts, QueryVerdicts, ActivateVerdicts, Calls
  <2>5. CASE verdict = "return"
    BY <1>3, <2>1, <2>5
  <2>6. CASE verdict # "return"
    <3>1. op'.step = verdict /\ op'.ticket = op.ticket
      BY <1>0, <2>1, <2>6 DEF GoTo, OpTyped
    <3>2. CASE verdict = "create"
      <4>1. io'[op.ticket] = "idle"
        BY <1>0, <2>2, <2>4, <3>2 DEF ReadsOnce
      <4> QED
        BY <2>2, <3>1, <3>2, <4>1 DEF SubmitsOnce
    <3> QED
      BY <1>1, <2>2, <2>3, <2>6, <3>1, <3>2
  <2> QED
    BY <2>5, <2>6
<1>9. CASE CloseManager
  <2>1. UNCHANGED op /\ op.step = "idle"
    BY <1>9 DEF CloseManager, Idle
  <2> QED
    BY <1>1, <2>1
<1>10. CASE CloserStep
  <2>1. UNCHANGED <<op, io>>
    BY <1>10 DEF CloserStep, managerVars, CloseStep, CloseStorage, CloseDetaches,
       CloseSkips, CloseEnds, CloseCollects, Collect
  <2>2. op.step \notin {"hit", "enqueue"}
    BY <1>0, <1>10 DEF CloserStep, StorageLockFree, SubmitsOnce
  <2> QED
    BY <1>0, <2>1, <2>2 DEF SubmitsOnce
<1>11. CASE UNCHANGED vars
  BY <1>2, <1>11 DEF vars
<1> QED
  BY <1>4, <1>5, <1>6, <1>7, <1>8, <1>9, <1>10, <1>11 DEF Next

------------------------------------------------------------------------------
(* close().                                                                *)

\* The calls of the table that end no ticket.
LEMMA GoingOn ==
  ASSUME TableTypeOK, NEW t \in Tickets, NEW u \in Tickets, Live(u),
         \/ \E o \in Objects : CreateTicket(t, o)
         \/ MarkObservation(t)
         \/ \E r \in Requests : BindRequest(t, r)
         \/ \E r \in Requests, p \in Plans : SetReusePlan(t, r, p)
         \/ Activate(t)
         \/ \E layer : MarkLayerLoaded(t, layer) \/ MarkLayerCorrected(t, layer)
         \/ UNCHANGED tableVars
  PROVE  Live(u)'
<1>0. runtime[t] \in Runtime
  BY DEF TableTypeOK
<1>1. CASE \/ MarkObservation(t) \/ \E r \in Requests : BindRequest(t, r)
           \/ Activate(t)
  <2>1. /\ u # t => runtime'[u] = runtime[u]
        /\ runtime'[t].binding \in {"observed", "verified", "active"}
    <3>1. CASE MarkObservation(t)
      BY <1>0, <3>1 DEF MarkObservation, Store, Runtime, TableTypeOK
    <3>2. CASE \E r \in Requests : BindRequest(t, r)
      <4>1. PICK r \in Requests : runtime' =
              [runtime EXCEPT ![t] = [runtime[t] EXCEPT !.request = r, !.binding = "verified"]]
        BY <3>2 DEF BindRequest, Store
      <4> QED
        BY <1>0, <4>1 DEF Runtime, TableTypeOK
    <3>3. CASE Activate(t)
      BY <1>0, <3>3 DEF Activate, Store, Runtime, TableTypeOK
    <3> QED
      BY <1>1, <3>1, <3>2, <3>3
  <2> QED
    BY <2>1 DEF Live, Terminal
<1>2. CASE \/ \E r \in Requests, p \in Plans : SetReusePlan(t, r, p)
           \/ \E layer : MarkLayerLoaded(t, layer) \/ MarkLayerCorrected(t, layer)
  <2>1. PICK state : /\ runtime' = [runtime EXCEPT ![t] = state]
                     /\ state.binding = runtime[t].binding
    BY <1>0, <1>2 DEF SetReusePlan, MarkLayerLoaded, MarkLayerCorrected, Store, Runtime
  <2> QED
    BY <2>1 DEF Live, TableTypeOK
<1>3. CASE \E o \in Objects : CreateTicket(t, o)
  <2>1. t # u /\ (\E state : runtime' = [runtime EXCEPT ![t] = state])
    BY <1>3 DEF CreateTicket, Store, Known, Live
  <2> QED
    BY <2>1 DEF Live, TableTypeOK
<1>4. CASE UNCHANGED tableVars
  BY <1>4 DEF tableVars, Live
<1> QED
  BY <1>1, <1>2, <1>3, <1>4

\* While close() holds the storage lock nobody else ends a ticket, unless by a deadline.
LEMMA LiveStays ==
  ASSUME BufferInv, [Next]_vars, ExpiresOrCloses,
         closer.pc = "detached", closer'.pc = "detached",
         NEW u \in Tickets, Live(u)
  PROVE  Live(u)'
<1>0. /\ HostTyped /\ SubmitsOnce /\ TableTypeOK /\ ~Expiring
      /\ ~StorageLockFree /\ op.step \notin {"hit", "enqueue"}
  BY DEF BufferInv, ReuseInv, TableInv, ClosesInOrder, ExpiresOrCloses, SubmitsOnce,
     StorageLockFree
<1>1. UNCHANGED tableVars => Live(u)'
  BY DEF tableVars, Live
<1>2. ASSUME NEW t \in Tickets, CallStep(t)
      PROVE  Live(u)'
  <2>1. ASSUME NEW call \in Calls, NEW r \in Requests \cup {NoRequest}, Begin(call, t, r)
        PROVE  Live(u)'
    <3>1. Expire({})
      <4>1. PICK overdue \in SUBSET {v \in Tickets : Expiring /\ Live(v)} : Expire(overdue)
        BY <2>1 DEF Begin
      <4>2. overdue = {}
        BY <1>0, <4>1
      <4> QED
        BY <4>1, <4>2
    <3> QED
      BY <3>1 DEF Expire, Live
  <2>2. CASE Handoff(t)
    BY <1>1, <2>2 DEF Handoff, tableVars
  <2> QED
    BY <1>0, <1>2, <2>1, <2>2
    DEF CallStep, Cancel, ReleaseCall, CancelTicket, ReleaseTicket
<1>3. ASSUME NEW t \in Tickets, OpStep(t)
      PROVE  Live(u)'
  <2>1. CASE Sweep(t) \/ Abort(t) \/ SelectSubmits(t) \/ SelectFinishes(t)
    BY <1>0, <2>1 DEF Sweep, Abort, CancelTicket, SelectSubmits, SelectFinishes, At
  <2>2. CASE SelectCreates(t) \/ InspectCommits(t) \/ ActivateCommits(t)
    <3>1. \/ \E o \in Objects : CreateTicket(t, o)
          \/ MarkObservation(t) \/ Activate(t) \/ UNCHANGED tableVars
      BY <2>2 DEF SelectCreates, InspectCommits, ActivateCommits, tableVars
    <3> QED
      BY <1>0, <3>1, GoingOn
  <2>3. CASE AuthenticateCommits(t)
    <3>1. CASE BindRequest(t, op.request) /\ BindRequestOK(t, op.request)
      <4>1. op.request \in Requests
        BY <2>3 DEF AuthenticateCommits, At, BufferInv, ReuseInv, OpTyped, RequestCalls
      <4> QED
        BY <1>0, <3>1, <4>1, GoingOn
    <3> QED
      BY <1>1, <2>3, <3>1 DEF AuthenticateCommits
  <2>4. CASE PrepareCommits(t)
    <3>1. ASSUME NEW p \in Plans, SetReusePlan(t, op.request, p)
          PROVE  Live(u)'
      <4>1. op.request \in Requests
        BY <2>4 DEF PrepareCommits, At, BufferInv, ReuseInv, OpTyped, RequestCalls
      <4> QED
        BY <1>0, <3>1, <4>1, GoingOn
    <3> QED
      BY <1>1, <2>4, <3>1 DEF PrepareCommits
  <2> QED
    BY <1>3, <2>1, <2>2, <2>3, <2>4 DEF OpStep
<1>4. ASSUME NEW t \in Tickets, WorkerStep(t)
      PROVE  Live(u)'
  <2>1. CASE MarkProgress(t)
    BY <1>0, <2>1, GoingOn DEF MarkProgress
  <2>2. CASE FetchLayer(t) \/ LayerLands(t) \/ WorkerFails(t)
    BY <1>1, <2>2 DEF FetchLayer, LayerLands, WorkerFails, tableVars
  <2> QED
    BY <1>0, <1>4, <2>1, <2>2
    DEF WorkerStep, WorkerSucceeds, WorkerCancels, CancelTicket, ReleaseTicket
<1>5. ASSUME NEW t \in Tickets, IOStep(t)
      PROVE  Live(u)'
  BY <1>0, <1>1, <1>5 DEF IOStep, ReadStarts, ReadSucceeds, ReadFails, tableVars
<1>6. CASE Decide \/ CloseManager \/ UNCHANGED vars
  BY <1>1, <1>6 DEF Decide, CloseManager, vars, tableVars
<1>7. CASE CloserStep
  BY <1>0, <1>7 DEF CloserStep, CloseStep, CloseStorage, CloseDetaches, CloseSkips,
     CloseEnds, CloseCollects, CloserAt
<1> QED
  BY <1>2, <1>3, <1>4, <1>5, <1>6, <1>7 DEF Next

\* Only the closing thread moves through close().
LEMMA CloserMoves ==
  ASSUME [Next]_vars
  PROVE  \/ closer' = closer /\ storageClosed' = storageClosed
         \/ CloseManager \/ CloserStep
<1>1. ASSUME NEW t \in Tickets, CallStep(t)
      PROVE  closer' = closer /\ storageClosed' = storageClosed
  BY <1>1 DEF CallStep, Begin, Cancel, ReleaseCall, Handoff, CancelTicket, ReleaseTicket,
     CancelHostLoad, ReleaseHostLoad, hostVars
<1>2. ASSUME NEW t \in Tickets, OpStep(t)
      PROVE  closer' = closer /\ storageClosed' = storageClosed
  <2>1. CASE Sweep(t) \/ Abort(t)
    BY <2>1 DEF Sweep, Abort, CancelTicket, CancelHostLoad, hostVars
  <2>2. CASE SelectSubmits(t) \/ SelectFinishes(t)
    BY <2>2 DEF SelectSubmits, SelectFinishes, SubmitHit, SubmitMiss, SubmitRefused,
       SubmitHitReady, Enqueue, EnqueueFails, hostVars
  <2>3. CASE SelectCreates(t) \/ InspectCommits(t) \/ AuthenticateCommits(t)
               \/ PrepareCommits(t) \/ ActivateCommits(t)
    BY <2>3 DEF SelectCreates, InspectCommits, AuthenticateCommits, PrepareCommits,
       ActivateCommits, hostVars
  <2> QED
    BY <1>2, <2>1, <2>2, <2>3 DEF OpStep
<1>3. ASSUME NEW t \in Tickets, WorkerStep(t)
      PROVE  closer' = closer /\ storageClosed' = storageClosed
  BY <1>3 DEF WorkerStep, FetchLayer, LayerLands, MarkProgress, WorkerSucceeds,
     WorkerFails, WorkerCancels, CancelTicket, ReleaseTicket, CancelHostLoad,
     ReleaseHostLoad, hostVars
<1>4. ASSUME NEW t \in Tickets, IOStep(t)
      PROVE  closer' = closer /\ storageClosed' = storageClosed
  BY <1>4 DEF IOStep, ReadStarts, ReadSucceeds, ReadFails, CompleteLoad
<1>5. CASE Decide \/ UNCHANGED vars
  BY <1>5 DEF Decide, vars, hostVars
<1> QED
  BY <1>1, <1>2, <1>3, <1>4, <1>5 DEF Next

\* Nothing submits, reads, keeps or completes once close() has collected.
LEMMA CollectedStays ==
  ASSUME BufferInv, [Next]_vars, closer.pc = "done", closer'.pc = "done",
         NEW u \in Tickets
  PROVE  resident' # u /\ ~load'[u].present /\ io'[u] \in {"idle", "done"}
<1>0. /\ HostTyped /\ SubmitsOnce /\ storageClosed /\ rmClosed /\ resident # u
      /\ \A t \in Tickets : ~load[t].present /\ io[t] \in {"idle", "done"}
  BY DEF BufferInv, ReuseInv, ClosesInOrder
<1>2. ASSUME NEW t \in Tickets, CallStep(t)
      PROVE  UNCHANGED <<load, io, resident>>
  BY <1>0, <1>2 DEF CallStep, Begin, Cancel, ReleaseCall, Handoff, CancelTicket,
     ReleaseTicket, hostVars
<1>3. ASSUME NEW t \in Tickets, OpStep(t)
      PROVE  UNCHANGED <<load, io, resident>>
  <2>1. CASE Sweep(t) \/ Abort(t)
    BY <1>0, <2>1 DEF Sweep, Abort, CancelTicket, hostVars
  <2>2. CASE SelectSubmits(t)
    BY <1>0, <2>2 DEF SelectSubmits, SubmitHit, SubmitMiss, MaySubmit, SubmitRefused,
       hostVars
  <2>3. CASE SelectFinishes(t)
    <3>1. ~At("select", "enqueue", t)
      BY <1>0, LoadFields DEF SubmitsOnce, At
    <3> QED
      BY <2>3, <3>1 DEF SelectFinishes, SubmitHitReady, hostVars
  <2>4. CASE SelectCreates(t) \/ InspectCommits(t) \/ AuthenticateCommits(t)
               \/ PrepareCommits(t) \/ ActivateCommits(t)
    BY <2>4 DEF SelectCreates, InspectCommits, AuthenticateCommits, PrepareCommits,
       ActivateCommits, hostVars
  <2> QED
    BY <1>3, <2>1, <2>2, <2>3, <2>4 DEF OpStep
<1>4. ASSUME NEW t \in Tickets, WorkerStep(t)
      PROVE  UNCHANGED <<load, io, resident>>
  BY <1>0, <1>4 DEF WorkerStep, FetchLayer, LayerLands, MarkProgress, WorkerSucceeds,
     WorkerFails, WorkerCancels, CancelTicket, ReleaseTicket, hostVars
<1>5. ASSUME NEW t \in Tickets, IOStep(t)
      PROVE  FALSE
  BY <1>0, <1>5 DEF IOStep, ReadStarts, ReadSucceeds, ReadFails, CompleteLoad,
     CompleteDetached, CompleteBroken, CompleteRead
<1>6. CASE Decide \/ CloseManager \/ UNCHANGED vars
  <2>1. UNCHANGED <<load, io, resident>>
    BY <1>6 DEF Decide, CloseManager, vars, hostVars
  <2> QED
    BY <1>0, <2>1
<1>7. CASE CloserStep
  BY <1>0, <1>7 DEF CloserStep, CloseStep, CloseStorage, CloseDetaches, CloseSkips,
     CloseEnds, CloseCollects
<1>8. CASE UNCHANGED <<load, io, resident>>
  BY <1>0, <1>8
<1> QED
  BY <1>2, <1>3, <1>4, <1>5, <1>6, <1>7, <1>8 DEF Next

LEMMA StepClosesInOrder ==
  ASSUME BufferInv, [Next]_vars, ExpiresOrCloses
  PROVE  ClosesInOrder'
<1>0. HostTyped /\ ClosesInOrder
  BY DEF BufferInv, ReuseInv
<1>1. (closer.pc # "idle" => rmClosed /\ Closing)'
  <2>1. rmClosed => rmClosed'
    BY DEF Next, CallStep, OpStep, WorkerStep, IOStep, Begin, Cancel, ReleaseCall, Handoff,
       Sweep, Abort, SelectCreates, SelectSubmits, SelectFinishes, InspectCommits,
       AuthenticateCommits, PrepareCommits, ActivateCommits, FetchLayer, LayerLands,
       MarkProgress, WorkerSucceeds, WorkerFails, WorkerCancels, Decide, CloseManager,
       CloserStep, managerVars, vars
  <2>2. CASE CloseManager
    BY <2>2 DEF CloseManager
  <2>3. CASE CloserStep
    BY <1>0, <2>1, <2>3 DEF ClosesInOrder, CloserStep, CloseStep, CloseStorage,
       CloseDetaches, CloseSkips, CloseEnds, CloseCollects
  <2> QED
    BY <1>0, <2>1, <2>2, <2>3, CloserMoves DEF ClosesInOrder
<1>2. (closer.pc \in {"cancelling", "detached", "done"} => storageClosed)'
  <2>1. CASE CloseManager
    BY <2>1 DEF CloseManager, CloserAt
  <2>2. CASE CloserStep
    BY <1>0, <2>2 DEF ClosesInOrder, CloserStep, CloseStep, CloseStorage,
       CloseDetaches, CloseSkips, CloseEnds, CloseCollects, Collect
  <2> QED
    BY <1>0, <2>1, <2>2, CloserMoves DEF ClosesInOrder
<1>3. (closer.pc = "detached" /\ closer.live => Live(closer.ticket))'
  <2>1. CASE closer' = closer
    <3> SUFFICES ASSUME closer.pc = "detached", closer.live
                 PROVE  Live(closer.ticket)'
      BY <2>1
    <3>1. closer.ticket \in Tickets /\ Live(closer.ticket)
      BY <1>0 DEF HostTyped, ClosesInOrder
    <3> QED
      BY <2>1, <3>1, LiveStays
  <2>2. CASE CloseManager
    BY <2>2 DEF CloseManager, CloserAt
  <2>3. CASE CloserStep
    <3>1. ASSUME NEW t \in Tickets, CloseDetaches(t)
          PROVE  (closer.live => Live(closer.ticket))'
      <4>1. closer'.live = Live(t) /\ closer'.ticket = t /\ UNCHANGED runtime
        BY <3>1 DEF CloseDetaches
      <4> QED
        BY <4>1 DEF Live
    <3>2. ASSUME NEW t \in Tickets, CloseSkips(t)
          PROVE  closer'.pc = "cancelling"
      BY <1>0, <3>2 DEF CloseSkips, HostTyped
    <3>3. CASE CloseStorage \/ CloseEnds \/ CloseCollects
      BY <3>3 DEF CloseStorage, CloseEnds, CloseCollects, Collect, CloserAt
    <3> QED
      BY <2>3, <3>1, <3>2, <3>3 DEF CloserStep, CloseStep
  <2> QED
    BY <2>1, <2>2, <2>3, CloserMoves
<1>4. ASSUME closer'.pc = "done", NEW u \in Tickets
      PROVE  resident' # u /\ ~load'[u].present /\ io'[u] \in {"idle", "done"}
  <2>1. CASE closer.pc = "done"
    BY <1>4, <2>1, CollectedStays
  <2>2. CASE closer.pc # "done"
    <3>1. CloseCollects
      <4>1. CloserStep
        <5>1. CASE CloseManager
          <6>1. closer'.pc = "entered"
            BY <5>1 DEF CloseManager, CloserAt
          <6> QED
            BY <1>4, <6>1
        <5>2. CASE closer' = closer
          BY <1>4, <2>2, <5>2
        <5> QED
          BY <5>1, <5>2, CloserMoves
      <4>2. ASSUME NEW t \in Tickets, CloseSkips(t)
            PROVE  closer'.pc = "cancelling"
        BY <1>0, <4>2 DEF CloseSkips, HostTyped
      <4>3. ASSUME NEW t \in Tickets, CloseDetaches(t)
            PROVE  closer'.pc = "detached"
        BY <4>3 DEF CloseDetaches
      <4>4. CASE CloseStorage \/ CloseEnds
        <5>1. closer'.pc = "cancelling"
          BY <4>4 DEF CloseStorage, CloseEnds, CloserAt
        <5> QED
          BY <1>4, <5>1
      <4>5. ~(\E t \in Tickets : CloseDetaches(t) \/ CloseSkips(t))
        BY <1>4, <4>2, <4>3
      <4> QED
        BY <4>1, <4>4, <4>5 DEF CloserStep, CloseStep
    <3>2. load'[u] = NoLoad /\ resident' = NoTicket /\ io'[u] = io[u]
          /\ io[u] \in {"idle", "done"}
      BY <3>1 DEF CloseCollects, Collect
    <3> QED
      BY <3>2, LoadFields, TableAssumption
  <2> QED
    BY <2>1, <2>2
<1> QED
  BY <1>1, <1>2, <1>3, <1>4 DEF ClosesInOrder

------------------------------------------------------------------------------
(* The invariant and what it says of the buffers.                          *)

LEMMA InitBufferInv == Init => BufferInv
<1> SUFFICES ASSUME Init PROVE BufferInv
  OBVIOUS
<1>1. ReuseInv
  BY InitReuseInv
<1>2. /\ op.step = "idle" /\ closer.pc = "idle" /\ closer.group = NoTicket
      /\ resident = NoTicket
      /\ \A t \in Tickets : load[t] = NoLoad /\ io[t] = "idle" /\ pool[t] = "unused"
  BY DEF Init, HostInit, ManagerInit, Idle, CloserAt
<1>3. GroupsOwned
  <2> SUFFICES ASSUME NEW t \in Tickets PROVE OneOwner(t)
    BY DEF GroupsOwned
  <2>1. ~Owns(t)
    BY <1>2, LoadFields DEF Owns
  <2> QED
    BY <1>2, <2>1, TableAssumption DEF OneOwner
<1>4. ReadsOnce
  BY <1>2, LoadFields DEF ReadsOnce
<1>5. SubmitsOnce
  BY <1>2 DEF SubmitsOnce
<1>6. ClosesInOrder
  BY <1>2 DEF ClosesInOrder
<1> QED
  BY <1>1, <1>3, <1>4, <1>5, <1>6 DEF BufferInv

LEMMA StepBufferInv ==
  ASSUME ExpiresOrCloses
  PROVE  BufferInv /\ [Next]_vars => BufferInv'
<1> SUFFICES ASSUME BufferInv, [Next]_vars PROVE BufferInv'
  OBVIOUS
<1>1. ReuseInv'
  BY StepReuseInv DEF BufferInv
<1> QED
  BY <1>1, StepGroupsOwned, StepReadsOnce, StepSubmitsOnce, StepClosesInOrder
  DEF BufferInv

LEMMA BufferInvariant ==
  ASSUME ExpiresOrCloses
  PROVE  Safe => []BufferInv
<1>1. BufferInv /\ [Next]_vars => BufferInv'
  BY StepBufferInv
<1> QED
  BY <1>1, InitBufferInv, PTL DEF Safe

LEMMA CountedHolders ==
  ASSUME BufferInv, NEW g \in Tickets
  PROVE  Holders(g) = One(pool[g] = "held")
<1>0. HostTyped /\ GroupsOwned /\ OneOwner(g)
  BY DEF BufferInv, ReuseInv, GroupsOwned
<1> DEFINE Carriers(h) == {t \in Tickets : load[t].present /\ h \in Taken(t)}
<1>1. Carriers(g) = IF Owns(g) THEN {g} ELSE {}
  <2>1. ASSUME NEW t \in Tickets
        PROVE  load[t].present /\ g \in Taken(t) <=> Owns(t) /\ t = g
    <3>1. Taken(t) = IF Owns(t) THEN {t} ELSE {}
      BY <1>0, TakenIs
    <3> QED
      BY <3>1 DEF Owns
  <2> QED
    BY <2>1
<1>2. Cardinality(Carriers(g)) = IF Owns(g) THEN 1 ELSE 0
  <2>1. Cardinality({g}) = 1 /\ Cardinality({}) = 0
    BY FS_Singleton, FS_EmptySet
  <2> QED
    BY <1>1, <2>1
<1>3. Holders(g) = One(io[g] = "read") + One(resident = g) + One(closer.group = g)
                     + (IF Owns(g) THEN 1 ELSE 0)
  BY <1>2 DEF Holders
<1> HIDE DEF Carriers
<1>4. /\ io[g] = "read" => resident # g /\ closer.group # g /\ ~Owns(g)
      /\ resident = g => closer.group # g /\ ~Owns(g)
      /\ closer.group = g => ~Owns(g)
      /\ pool[g] = "held" <=> io[g] = "read" \/ resident = g \/ closer.group = g \/ Owns(g)
  BY <1>0 DEF OneOwner
<1> QED
  BY <1>3, <1>4 DEF One

\* Every group a read acquired is in exactly one pair of hands until it is back in
\* the pool, and is given back once: for any number of tickets, executor threads and
\* layers, retaining or not, unless deadlines and close() come together.
THEOREM OneHolder ==
  ASSUME ExpiresOrCloses
  PROVE  Safe => []EveryGroupHasOneHolder
<1>1. BufferInv => EveryGroupHasOneHolder
  <2> SUFFICES ASSUME BufferInv, NEW g \in Tickets
               PROVE  pool[g] # "returned twice" /\ Holders(g) = One(pool[g] = "held")
    BY DEF EveryGroupHasOneHolder
  <2>1. pool[g] # "returned twice"
    BY DEF BufferInv, GroupsOwned, OneOwner
  <2> QED
    BY <2>1, CountedHolders
<1> QED
  BY <1>1, BufferInvariant, PTL

\* When close() returns the pool has every group back, wherever the reads were when
\* it began: for any number of tickets and executor threads, unless tickets expire.
THEOREM CloseCollectsAll ==
  ASSUME ExpiresOrCloses
  PROVE  Safe => []CloseReturnsEverything
<1>1. BufferInv => CloseReturnsEverything
  <2> SUFFICES ASSUME BufferInv, closer.pc = "done", NEW g \in Tickets
               PROVE  pool[g] # "held"
    BY DEF CloseReturnsEverything
  <2>1. OneOwner(g) /\ ClosesInOrder
    BY DEF BufferInv, GroupsOwned
  <2>2. resident # g /\ ~Owns(g) /\ io[g] \in {"idle", "done"}
    BY <2>1 DEF ClosesInOrder, Owns
  <2>3. closer.group # g
    BY <2>1 DEF OneOwner
  <2> QED
    BY <2>1, <2>2, <2>3 DEF OneOwner
<1> QED
  BY <1>1, BufferInvariant, PTL

------------------------------------------------------------------------------
(* The retained group and the loads that share it.                         *)

\* Beside a retained group the only load is one that shares it.
SharesResident ==
  /\ Retain => \A t, u \in Tickets : load[t].present /\ load[u].present => t = u
  /\ ~Retain => resident = NoTicket
  /\ \A t \in Tickets : load[t].hit => Retain /\ load[t].group = resident
  /\ \A t \in Tickets : load[t].present /\ ~load[t].hit => resident = NoTicket

\* The load of the ticket gets the group its read filled.
Fills(t) ==
  /\ io[t] = "read" /\ load[t].present
  /\ load' = [load EXCEPT ![t] = LoadOf(t, FALSE)]
  /\ UNCHANGED resident

\* Loads are forgotten, nothing else.
Forgets == UNCHANGED resident /\ \A u \in Tickets : load'[u] \in {load[u], NoLoad}

\* close() has collected.
Collects == resident' = NoTicket /\ \A u \in Tickets : load'[u] = NoLoad

LEMMA StorageMoves ==
  ASSUME BufferInv, [Next]_vars
  PROVE  \/ Forgets \/ Collects
         \/ \E t \in Tickets : SubmitHit(t) \/ SubmitMiss(t) \/ Fills(t) \/ ReleaseHostLoad(t)
<1>0. HostTyped /\ ReadsOnce
  BY DEF BufferInv, ReuseInv
<1>1. UNCHANGED hostVars => Forgets
  BY DEF Forgets, hostVars
<1>2. ASSUME NEW t \in Tickets, CancelHostLoad(t) \/ EnqueueFails(t)
      PROVE  Forgets
  BY <1>0, <1>2, DetachDoes DEF CancelHostLoad, EnqueueFails, Forgets
<1>3. ASSUME NEW t \in Tickets, CallStep(t)
      PROVE  Forgets \/ ReleaseHostLoad(t)
  BY <1>1, <1>2, <1>3 DEF CallStep, Begin, Cancel, ReleaseCall, Handoff, CancelTicket,
     ReleaseTicket, hostVars
<1>4. ASSUME NEW t \in Tickets, OpStep(t)
      PROVE  Forgets \/ SubmitHit(t) \/ SubmitMiss(t)
  <2>1. CASE Sweep(t) \/ Abort(t)
    BY <1>1, <1>2, <2>1 DEF Sweep, Abort, CancelTicket
  <2>2. CASE SelectSubmits(t)
    BY <1>1, <2>2 DEF SelectSubmits, SubmitRefused
  <2>3. CASE SelectFinishes(t)
    BY <1>1, <1>2, <2>3 DEF SelectFinishes, SubmitHitReady, Enqueue, Forgets
  <2>4. CASE SelectCreates(t) \/ InspectCommits(t) \/ AuthenticateCommits(t)
               \/ PrepareCommits(t) \/ ActivateCommits(t)
    BY <1>1, <2>4 DEF SelectCreates, InspectCommits, AuthenticateCommits,
       PrepareCommits, ActivateCommits
  <2> QED
    BY <1>4, <2>1, <2>2, <2>3, <2>4 DEF OpStep
<1>5. ASSUME NEW t \in Tickets, WorkerStep(t)
      PROVE  Forgets \/ ReleaseHostLoad(t)
  BY <1>1, <1>2, <1>5 DEF WorkerStep, FetchLayer, LayerLands, MarkProgress,
     WorkerSucceeds, WorkerFails, WorkerCancels, CancelTicket, ReleaseTicket
<1>6. ASSUME NEW t \in Tickets, IOStep(t)
      PROVE  Forgets \/ Fills(t)
  <2>1. UNCHANGED resident
    BY <1>6 DEF IOStep, ReadStarts, ReadSucceeds, ReadFails, CompleteLoad
  <2>2. UNCHANGED load \/ Detach(t)
          \/ (CompleteRead(t) /\ load' = [load EXCEPT ![t] = LoadOf(t, load[t].hit)])
    BY <1>6 DEF IOStep, ReadStarts, ReadSucceeds, ReadFails, CompleteLoad,
       CompleteDetached, CompleteBroken, CompleteRead
  <2>3. CASE CompleteRead(t) /\ load' = [load EXCEPT ![t] = LoadOf(t, load[t].hit)]
    <3>1. io[t] = "read" /\ load[t].present /\ load[t].hit = FALSE
      BY <1>0, <2>3 DEF CompleteRead, ReadsOnce, HostTyped
    <3> QED
      BY <2>1, <2>3, <3>1 DEF Fills
  <2> QED
    BY <1>0, <2>1, <2>2, <2>3, DetachDoes DEF Forgets
<1>7. CASE Decide \/ CloseManager \/ UNCHANGED vars
  BY <1>7 DEF Decide, CloseManager, vars, hostVars, Forgets
<1>8. CASE CloserStep
  <2>1. CASE CloseCollects
    BY <2>1 DEF CloseCollects, Collect, Collects
  <2>2. CASE ~CloseCollects
    <3>1. UNCHANGED resident /\ (UNCHANGED load \/ \E t \in Tickets : Detach(t))
      BY <1>8, <2>2 DEF CloserStep, CloseStep, CloseStorage, CloseDetaches, CloseSkips,
         CloseEnds
    <3> QED
      BY <1>0, <3>1, DetachDoes DEF Forgets
  <2> QED
    BY <2>1, <2>2
<1> QED
  BY <1>3, <1>4, <1>5, <1>6, <1>7, <1>8 DEF Next

LEMMA StepSharesResident ==
  ASSUME BufferInv, SharesResident, [Next]_vars
  PROVE  SharesResident'
<1>0. HostTyped /\ GroupsOwned /\ ReadsOnce
  BY DEF BufferInv, ReuseInv
<1>1. CASE Forgets
  BY <1>1, LoadFields DEF Forgets, SharesResident
<1>2. CASE Collects
  BY <1>2, LoadFields DEF Collects, SharesResident
<1>3. ASSUME NEW t \in Tickets, SubmitHit(t)
      PROVE  SharesResident'
  <2>1. \A u \in Tickets : load'[u] = IF u = t THEN LoadOf(resident, TRUE) ELSE load[u]
    BY <1>0, <1>3 DEF SubmitHit, HostTyped
  <2>2. Retain /\ UNCHANGED resident /\ \A u \in Tickets : ~load[u].present
    BY <1>3 DEF SubmitHit, MaySubmit, ResidentHit, NoLoads
  <2>3. \A u \in Tickets \ {t} : load'[u] = NoLoad
    <3>1. \A u \in Tickets : load[u].present \/ load[u] = NoLoad
      BY <1>0 DEF GroupsOwned, OneOwner
    <3> QED
      BY <2>1, <2>2, <3>1
  <2>4. load'[t].hit /\ load'[t].group = resident
    BY <2>1, LoadFields
  <2> QED
    BY <2>2, <2>3, <2>4, LoadFields DEF SharesResident
<1>4. ASSUME NEW t \in Tickets, SubmitMiss(t)
      PROVE  SharesResident'
  <2>1. \A u \in Tickets : load'[u] = IF u = t THEN LoadOf(NoTicket, FALSE) ELSE load[u]
    BY <1>0, <1>4 DEF SubmitMiss, HostTyped
  <2>2. resident' = NoTicket /\ (Retain => \A u \in Tickets : ~load[u].present)
    BY <1>4 DEF SubmitMiss, MaySubmit, NoLoads
  <2>3. \A u \in Tickets : ~load[u].hit
    <3>1. \A u \in Tickets : load[u].present \/ load[u] = NoLoad
      BY <1>0 DEF GroupsOwned, OneOwner
    <3> QED
      BY <2>2, <3>1, LoadFields DEF SharesResident
  <2> QED
    BY <2>1, <2>2, <2>3, LoadFields DEF SharesResident
<1>5. ASSUME NEW t \in Tickets, Fills(t)
      PROVE  SharesResident'
  <2>1. \A u \in Tickets : load'[u] = IF u = t THEN LoadOf(t, FALSE) ELSE load[u]
    BY <1>0, <1>5 DEF Fills, HostTyped
  <2>2. load[t].present /\ ~load[t].hit /\ UNCHANGED resident
    BY <1>0, <1>5 DEF Fills, ReadsOnce
  <2>3. load'[t].present /\ ~load'[t].hit /\ \A u \in Tickets \ {t} : load'[u] = load[u]
    BY <2>1, LoadFields
  <2> QED
    BY <2>2, <2>3 DEF SharesResident
<1>6. ASSUME NEW t \in Tickets, ReleaseHostLoad(t)
      PROVE  SharesResident'
  <2>1. load[t].present /\ \A u \in Tickets : load'[u] = IF u = t THEN NoLoad ELSE load[u]
    BY <1>0, <1>6, DetachDoes DEF ReleaseHostLoad
  <2>2. CASE UNCHANGED resident
    BY <2>1, <2>2, LoadFields DEF SharesResident
  <2>3. CASE Retain
    <3>1. \A u \in Tickets : load[u].present \/ load[u] = NoLoad
      BY <1>0 DEF GroupsOwned, OneOwner
    <3>2. \A u \in Tickets : load'[u] = NoLoad
      BY <2>1, <2>3, <3>1 DEF SharesResident
    <3> QED
      BY <2>3, <3>2, LoadFields DEF SharesResident
  <2> QED
    BY <1>6, <2>2, <2>3 DEF ReleaseHostLoad
<1> QED
  BY <1>1, <1>2, <1>3, <1>4, <1>5, <1>6, StorageMoves

------------------------------------------------------------------------------
(* What the runtime table says of a host copy, and the copy.               *)

UnderWay == {"queued", "reading", "read", "broken"}
Submitting == {"hit", "enqueue"}

SubmitsLoad(t) == op.ticket = t /\ op.step \in Submitting

HasCopy(t) ==
  (Live(t) /\ closer.ticket # t) =>
    /\ runtime[t].host = "ready" => load[t].present /\ load[t].group # NoTicket
    /\ runtime[t].host = "loading" =>
         load[t].present /\ (io[t] \in UnderWay \/ SubmitsLoad(t))

\* No read is under way for a live ticket that is ready.
ReadyAfterRead(t) == Live(t) /\ io[t] \in UnderWay => runtime[t].host # "ready"

CopiesTold == \A t \in Tickets : HasCopy(t) /\ ReadyAfterRead(t)

\* What a submit relies on between its two metadata updates.
SubmitsLoading ==
  /\ op.step \in Submitting => runtime[op.ticket].host = "loading"
  /\ op.step = "hit" => load[op.ticket].hit /\ load[op.ticket].group # NoTicket

\* The ticket close() is cancelling, and those it still has to.
CloserCancels ==
  /\ closer.pc # "detached" => closer.ticket = NoTicket
  /\ closer.pc = "detached" /\ ~closer.live => runtime[closer.ticket].binding \in Terminal
  /\ closer.pc \in {"cancelling", "detached"} =>
       \A t \in Tickets : load[t].present => t \in closer.todo

HostInv == BufferInv /\ SharesResident /\ CopiesTold /\ SubmitsLoading /\ CloserCancels

Told(t) == HasCopy(t) /\ ReadyAfterRead(t)

\* A step that does not touch what is said of the ticket (the other steps end it).
Untouched(t) ==
  /\ Live(t)' => Live(t) /\ runtime'[t].host = runtime[t].host
  /\ load'[t] = load[t] /\ io'[t] = io[t]
  /\ closer.ticket = t => closer'.ticket = t
  /\ SubmitsLoad(t) => SubmitsLoad(t)'

LEMMA UntouchedTold ==
  ASSUME NEW t \in Tickets, Told(t), Untouched(t) \/ ~Live(t)'
  PROVE  Told(t)'
BY DEF Told, HasCopy, ReadyAfterRead, Untouched

\* Ending a ticket leaves the others alone.
LEMMA EndingsEnd ==
  ASSUME TableTypeOK, HostTyped, NEW t \in Tickets,
         \/ CancelTicket(t) \/ ReleaseTicket(t)
         \/ load[t].present /\ CancelHostLoad(t)
  PROVE  /\ ~Live(t)' /\ UNCHANGED <<io, closer>>
         /\ \A u \in Tickets \ {t} : runtime'[u] = runtime[u] /\ load'[u] = load[u]
<1>0. runtime[t] \in Runtime
  BY DEF TableTypeOK
<1>1. UNCHANGED <<io, closer>> /\ \A u \in Tickets \ {t} : load'[u] = load[u]
  <2>1. CASE Detach(t) /\ UNCHANGED <<io, closer>>
    BY <2>1, DetachDoes
  <2>2. CASE UNCHANGED hostVars
    BY <2>2 DEF hostVars
  <2> QED
    BY <2>1, <2>2 DEF CancelTicket, ReleaseTicket, CancelHostLoad, ReleaseHostLoad
<1>2. (Live(t) /\ Fallback(t)) \/ (~Live(t) /\ UNCHANGED tableVars) \/ Release(t)
  BY DEF CancelTicket, ReleaseTicket, CancelHostLoad, ReleaseHostLoad
<1>3. CASE ~Live(t) /\ UNCHANGED tableVars
  BY <1>1, <1>3 DEF tableVars, Live
<1>4. CASE Fallback(t) \/ Release(t)
  <2>1. PICK b \in Terminal : runtime' = [runtime EXCEPT ![t] = [runtime[t] EXCEPT !.binding = b]]
    BY <1>4 DEF Fallback, Release, Store, Terminal
  <2>2. runtime'[t].binding = b /\ \A u \in Tickets \ {t} : runtime'[u] = runtime[u]
    BY <1>0, <2>1 DEF TableTypeOK, Runtime
  <2> QED
    BY <1>1, <2>2 DEF Live
<1> QED
  BY <1>2, <1>3, <1>4

\* A method of the table that stores into one ticket.
LEMMA StoresTell ==
  ASSUME TableTypeOK, NEW t \in Tickets
  PROVE  /\ StartHostLoad(t) =>
              /\ runtime'[t].host = "loading" /\ Live(t)
              /\ \A u \in Tickets \ {t} : runtime'[u] = runtime[u]
         /\ MarkHostReady(t) =>
              /\ runtime'[t].host = "ready" /\ runtime[t].host = "loading" /\ Live(t)
              /\ \A u \in Tickets \ {t} : runtime'[u] = runtime[u]
         /\ MarkHostFailed(t) =>
              ~Live(t)' /\ \A u \in Tickets \ {t} : runtime'[u] = runtime[u]
         /\ (\E o \in Objects : CreateTicket(t, o)) =>
              /\ runtime'[t].host = "not_started"
              /\ \A u \in Tickets \ {t} : runtime'[u] = runtime[u]
<1>0. runtime[t] \in Runtime
  BY DEF TableTypeOK
<1>1. StartHostLoad(t) => /\ runtime'[t].host = "loading" /\ Live(t)
                          /\ \A u \in Tickets \ {t} : runtime'[u] = runtime[u]
  BY <1>0 DEF StartHostLoad, StartHostLoadOK, Store, Runtime, TableTypeOK
<1>2. MarkHostReady(t) =>
        /\ runtime'[t].host = "ready" /\ runtime[t].host = "loading" /\ Live(t)
        /\ \A u \in Tickets \ {t} : runtime'[u] = runtime[u]
  BY <1>0 DEF MarkHostReady, MarkHostReadyOK, Store, Runtime, TableTypeOK
<1>3. MarkHostFailed(t) =>
        runtime'[t].binding = "fallback" /\ \A u \in Tickets \ {t} : runtime'[u] = runtime[u]
  BY <1>0 DEF MarkHostFailed, Store, Runtime, TableTypeOK
<1>4. (\E o \in Objects : CreateTicket(t, o)) =>
        /\ runtime'[t].host = "not_started"
        /\ \A u \in Tickets \ {t} : runtime'[u] = runtime[u]
  BY <1>0 DEF CreateTicket, Fresh, Store, TableTypeOK
<1> QED
  BY <1>1, <1>2, <1>3, <1>4 DEF Live, Terminal

\* What a method commits says nothing of the host copy, and brings no ticket back.
LEMMA CommitsTell ==
  ASSUME TableTypeOK, NEW t \in Tickets,
         \/ MarkObservation(t)
         \/ \E r \in Requests : BindRequest(t, r)
         \/ \E r \in Requests, p \in Plans : SetReusePlan(t, r, p)
         \/ Activate(t)
         \/ \E layer : MarkLayerLoaded(t, layer) \/ MarkLayerCorrected(t, layer)
         \/ UNCHANGED tableVars,
         NEW u \in Tickets
  PROVE  runtime'[u].host = runtime[u].host /\ (Live(u)' => Live(u))
<1>0. runtime[t] \in Runtime
  BY DEF TableTypeOK
<1>1. CASE UNCHANGED tableVars
  BY <1>1 DEF tableVars, Live
<1>2. CASE ~ UNCHANGED tableVars
  <2>1. PICK state : /\ runtime' = [runtime EXCEPT ![t] = state]
                     /\ state.host = runtime[t].host
                     /\ Live(t)
    <3>1. CASE MarkObservation(t) \/ Activate(t)
      BY <1>0, <3>1 DEF MarkObservation, MarkObservationOK, Activate, ActivateOK, Store,
         Runtime, Live, Terminal
    <3>2. CASE \/ \E r \in Requests : BindRequest(t, r)
               \/ \E r \in Requests, p \in Plans : SetReusePlan(t, r, p)
      BY <1>0, <3>2 DEF BindRequest, BindRequestOK, SetReusePlan, SetReusePlanOK, Store,
         Runtime, Live, Terminal
    <3>3. CASE \E layer : MarkLayerLoaded(t, layer) \/ MarkLayerCorrected(t, layer)
      BY <1>0, <3>3 DEF MarkLayerLoaded, MarkLayerLoadedOK, MarkLayerCorrected,
         MarkLayerCorrectedOK, Store, Runtime, Live, Terminal
    <3> QED
      BY <1>2, <3>1, <3>2, <3>3
  <2> QED
    BY <2>1 DEF TableTypeOK, Live
<1> QED
  BY <1>1, <1>2

LEMMA ExpiryTells ==
  ASSUME TableTypeOK, NEW overdue \in SUBSET Tickets, Expire(overdue), NEW u \in Tickets
  PROVE  runtime'[u].host = runtime[u].host /\ (Live(u)' => Live(u))
<1>1. runtime[u] \in Runtime
  BY DEF TableTypeOK
<1>2. CASE u \in overdue
  <2>1. runtime'[u] = [runtime[u] EXCEPT !.binding = "fallback"]
    BY <1>2 DEF Expire
  <2> QED
    BY <1>1, <2>1 DEF Live, Terminal, Runtime
<1>3. CASE u \notin overdue
  BY <1>3 DEF Expire, Live
<1> QED
  BY <1>2, <1>3

LEMMA CallsTell ==
  ASSUME HostInv, NEW t \in Tickets, CallStep(t), NEW u \in Tickets
  PROVE  Untouched(u) \/ ~Live(u)'
<1>0. TableTypeOK /\ HostTyped
  BY DEF HostInv, BufferInv, ReuseInv, TableInv
<1>1. CASE Handoff(t)
  BY <1>1 DEF Handoff, hostVars, Untouched, Live, SubmitsLoad
<1>2. CASE ~Handoff(t)
  <2>1. op = Idle
    BY <1>2 DEF CallStep, Begin, Cancel, ReleaseCall
  <2>2. ~SubmitsLoad(u)
    BY <2>1 DEF SubmitsLoad, Submitting, Idle
  <2>3. CASE \E call \in Calls, r \in Requests \cup {NoRequest} : Begin(call, t, r)
    <3>1. PICK overdue \in SUBSET Tickets : Expire(overdue)
      BY <2>3 DEF Begin
    <3>2. UNCHANGED <<load, io, closer>>
      BY <2>3 DEF Begin
    <3> QED
      BY <1>0, <2>2, <3>1, <3>2, ExpiryTells DEF Untouched
  <2>4. CASE Cancel(t) \/ ReleaseCall(t)
    BY <1>0, <2>2, <2>4, EndingsEnd DEF Cancel, ReleaseCall, Untouched, Live
  <2> QED
    BY <1>2, <2>3, <2>4 DEF CallStep
<1> QED
  BY <1>1, <1>2

LEMMA SubmitTells ==
  ASSUME HostInv, NEW t \in Tickets, SelectSubmits(t), NEW u \in Tickets
  PROVE  Told(u)'
<1>0. /\ TableTypeOK /\ HostTyped /\ OpTyped /\ SubmitsOnce /\ Told(u)
      /\ op.step = "submit" /\ op.ticket = t
  BY DEF HostInv, BufferInv, ReuseInv, TableInv, CopiesTold, Told, SelectSubmits, At
<1>1. ~SubmitsLoad(u)
  BY <1>0 DEF SubmitsLoad, Submitting
<1>2. CASE SubmitRefused(t)
  BY <1>0, <1>1, <1>2, UntouchedTold, StoresTell DEF SubmitRefused, hostVars, Untouched, Live
<1>3. CASE (SubmitHit(t) /\ GoTo("hit")) \/ (SubmitMiss(t) /\ GoTo("enqueue"))
  <2>1. SubmitsLoad(t)'
    BY <1>0, <1>3 DEF GoTo, OpTyped, SubmitsLoad, Submitting
  <2>2. StartHostLoad(t) /\ UNCHANGED <<io, closer>>
    BY <1>3 DEF SubmitHit, SubmitMiss
  <2>3. CASE u # t
    <3>1. load'[u] = load[u]
      <4>1. CASE SubmitHit(t)
        BY <1>0, <2>3, <4>1 DEF SubmitHit, HostTyped
      <4>2. CASE SubmitMiss(t)
        BY <1>0, <2>3, <4>2 DEF SubmitMiss, HostTyped
      <4> QED
        BY <1>3, <4>1, <4>2
    <3> QED
      BY <1>0, <1>1, <2>2, <2>3, <3>1, UntouchedTold, StoresTell DEF Untouched, Live
  <2>4. CASE u = t
    <3>1. load'[t].present
      <4>1. CASE SubmitHit(t)
        BY <1>0, <4>1, LoadFields DEF SubmitHit, HostTyped
      <4>2. CASE SubmitMiss(t)
        BY <1>0, <4>2, LoadFields DEF SubmitMiss, HostTyped
      <4> QED
        BY <1>3, <4>1, <4>2
    <3>2. runtime'[t].host = "loading"
      BY <1>0, <2>2, StoresTell
    <3> QED
      BY <2>1, <2>4, <3>1, <3>2 DEF Told, HasCopy, ReadyAfterRead
  <2> QED
    BY <2>3, <2>4
<1> QED
  BY <1>2, <1>3 DEF SelectSubmits

LEMMA FinishTells ==
  ASSUME HostInv, NEW t \in Tickets, SelectFinishes(t), NEW u \in Tickets
  PROVE  Told(u)'
<1>0. /\ TableTypeOK /\ HostTyped /\ OpTyped /\ SubmitsOnce /\ ReadsOnce /\ Told(u)
      /\ GroupsOwned /\ SubmitsLoading /\ op.ticket = t
  BY DEF HostInv, BufferInv, ReuseInv, TableInv, CopiesTold, Told, SelectFinishes, At
<1>1. u # t => ~SubmitsLoad(u)
  BY <1>0 DEF SubmitsLoad
<1>2. CASE op.step = "hit" /\ SubmitHitReady(t)
  <2>1. MarkHostReady(t) /\ UNCHANGED <<load, io, closer>>
    BY <1>2 DEF SubmitHitReady, hostVars
  <2>2. CASE u # t
    BY <1>0, <1>1, <2>1, <2>2, UntouchedTold, StoresTell DEF Untouched, Live
  <2>3. CASE u = t
    <3>1. load[t].hit /\ load[t].group # NoTicket
      BY <1>0, <1>2 DEF SubmitsLoading
    <3>2. load[t].present /\ io[t] = "idle"
      BY <1>0, <3>1, LoadFields DEF GroupsOwned, OneOwner, ReadsOnce
    <3>3. runtime'[t].host = "ready"
      BY <1>0, <2>1, StoresTell
    <3> QED
      BY <2>1, <2>3, <3>1, <3>2, <3>3 DEF Told, HasCopy, ReadyAfterRead, UnderWay
  <2> QED
    BY <2>2, <2>3
<1>3. CASE op.step = "enqueue" /\ Enqueue(t)
  <2>1. UNCHANGED <<runtime, load, closer>> /\ io' = [io EXCEPT ![t] = "queued"]
    BY <1>3 DEF Enqueue
  <2>2. CASE u # t
    BY <1>0, <1>1, <2>1, <2>2, UntouchedTold DEF Untouched, Live, HostTyped
  <2>3. CASE u = t
    <3>1. load[t] = LoadOf(NoTicket, FALSE) /\ runtime[t].host = "loading"
      BY <1>0, <1>3 DEF SubmitsLoading, SubmitsOnce, Submitting
    <3>2. load[t].present
      BY <3>1, LoadFields
    <3>3. io'[t] = "queued"
      BY <1>0, <2>1 DEF HostTyped
    <3> QED
      BY <2>1, <2>3, <3>1, <3>2, <3>3 DEF Told, HasCopy, ReadyAfterRead, UnderWay
  <2> QED
    BY <2>2, <2>3
<1>4. CASE EnqueueFails(t)
  <2>1. /\ ~Live(t)' /\ UNCHANGED <<io, closer>>
        /\ \A v \in Tickets \ {t} : runtime'[v] = runtime[v] /\ load'[v] = load[v]
    BY <1>0, <1>4, StoresTell, DetachDoes DEF EnqueueFails
  <2> QED
    BY <1>0, <1>1, <2>1, UntouchedTold DEF Untouched, Live
<1> QED
  BY <1>2, <1>3, <1>4 DEF SelectFinishes, At

LEMMA OpTells ==
  ASSUME HostInv, NEW t \in Tickets, OpStep(t), NEW u \in Tickets
  PROVE  Told(u)'
<1>0. TableTypeOK /\ HostTyped /\ OpTyped /\ Told(u)
  BY DEF HostInv, BufferInv, ReuseInv, TableInv, CopiesTold, Told
<1>1. CASE SelectSubmits(t)
  BY <1>1, SubmitTells
<1>2. CASE SelectFinishes(t)
  BY <1>2, FinishTells
<1>3. CASE ~SelectSubmits(t) /\ ~SelectFinishes(t)
  <2>1. ~SubmitsLoad(u)
    BY <1>3 DEF OpStep, Sweep, Abort, SelectCreates, InspectCommits, AuthenticateCommits,
       PrepareCommits, ActivateCommits, At, SubmitsLoad, Submitting
  <2>2. CASE Sweep(t) \/ Abort(t)
    <3>1. CASE CancelTicket(t) \/ (load[t].present /\ CancelHostLoad(t))
      BY <1>0, <2>1, <3>1, EndingsEnd, UntouchedTold DEF Untouched, Live
    <3>2. CASE UNCHANGED <<tableVars, hostVars>>
      BY <1>0, <2>1, <3>2, UntouchedTold DEF tableVars, hostVars, Untouched, Live
    <3> QED
      BY <2>2, <3>1, <3>2 DEF Sweep, Abort
  <2>3. CASE SelectCreates(t)
    <3>1. UNCHANGED <<load, io, closer>>
      BY <2>3 DEF SelectCreates, hostVars
    <3>2. /\ runtime'[t].host = "not_started"
          /\ \A v \in Tickets \ {t} : runtime'[v] = runtime[v]
      BY <1>0, <2>3, StoresTell DEF SelectCreates
    <3>3. CASE u # t
      BY <1>0, <2>1, <3>1, <3>2, <3>3, UntouchedTold DEF Untouched, Live
    <3>4. CASE u = t
      BY <3>2, <3>4 DEF Told, HasCopy, ReadyAfterRead
    <3> QED
      BY <3>3, <3>4
  <2>4. CASE InspectCommits(t) \/ AuthenticateCommits(t) \/ PrepareCommits(t)
               \/ ActivateCommits(t)
    <3>1. UNCHANGED <<load, io, closer>>
      BY <2>4 DEF InspectCommits, AuthenticateCommits, PrepareCommits, ActivateCommits,
         hostVars
    <3>2. runtime'[u].host = runtime[u].host /\ (Live(u)' => Live(u))
      <4>1. CASE InspectCommits(t) \/ ActivateCommits(t)
        BY <1>0, <4>1, CommitsTell DEF InspectCommits, ActivateCommits, tableVars
      <4>2. CASE AuthenticateCommits(t) \/ PrepareCommits(t)
        <5>1. op.request \in Requests
          BY <1>0, <4>2 DEF AuthenticateCommits, PrepareCommits, At, OpTyped, RequestCalls
        <5>2. CASE AuthenticateCommits(t)
          BY <1>0, <5>1, <5>2, CommitsTell DEF AuthenticateCommits
        <5>3. CASE PrepareCommits(t)
          BY <1>0, <5>1, <5>3, CommitsTell DEF PrepareCommits
        <5> QED
          BY <4>2, <5>2, <5>3
      <4> QED
        BY <2>4, <4>1, <4>2
    <3> QED
      BY <1>0, <2>1, <3>1, <3>2, UntouchedTold DEF Untouched
  <2> QED
    BY <1>3, <2>2, <2>3, <2>4 DEF OpStep
<1> QED
  BY <1>1, <1>2, <1>3

LEMMA WorkerTells ==
  ASSUME HostInv, NEW t \in Tickets, WorkerStep(t), NEW u \in Tickets
  PROVE  Untouched(u) \/ ~Live(u)'
<1>0. TableTypeOK /\ HostTyped
  BY DEF HostInv, BufferInv, ReuseInv, TableInv
<1>1. CASE FetchLayer(t) \/ LayerLands(t) \/ WorkerFails(t)
  BY <1>1 DEF FetchLayer, LayerLands, WorkerFails, hostVars, Untouched, Live, SubmitsLoad
<1>2. CASE MarkProgress(t)
  <2>1. runtime'[u].host = runtime[u].host /\ (Live(u)' => Live(u))
    BY <1>0, <1>2, CommitsTell DEF MarkProgress
  <2> QED
    BY <1>2, <2>1 DEF MarkProgress, hostVars, Untouched, SubmitsLoad
<1>3. CASE WorkerSucceeds(t) \/ WorkerCancels(t)
  <2>1. ~SubmitsLoad(u)
    BY <1>3 DEF WorkerSucceeds, WorkerCancels, SubmitsLoad, Submitting, Idle
  <2> QED
    BY <1>0, <1>3, <2>1, EndingsEnd DEF WorkerSucceeds, WorkerCancels, Untouched, Live
<1> QED
  BY <1>1, <1>2, <1>3 DEF WorkerStep

LEMMA IOTells ==
  ASSUME HostInv, NEW t \in Tickets, IOStep(t), NEW u \in Tickets
  PROVE  Told(u)'
<1>0. /\ TableTypeOK /\ BindingShape /\ HostTyped /\ Told(u) /\ Told(t)
      /\ UNCHANGED <<closer, op>>
  BY DEF HostInv, BufferInv, ReuseInv, TableInv, CopiesTold, Told, IOStep, ReadStarts,
     ReadSucceeds, ReadFails, CompleteLoad, managerVars
<1>1. CASE ReadStarts(t) \/ ReadSucceeds(t) \/ ReadFails(t)
  <2>1. /\ UNCHANGED <<runtime, load>> /\ io[t] \in UnderWay /\ io'[t] \in UnderWay
        /\ u # t => io'[u] = io[u]
    BY <1>0, <1>1 DEF ReadStarts, ReadSucceeds, ReadFails, UnderWay, HostTyped
  <2> QED
    BY <1>0, <2>1 DEF Told, HasCopy, ReadyAfterRead, Live, SubmitsLoad
<1>2. CASE CompleteLoad(t)
  <2>0. /\ io[t] \in {"read", "broken"} /\ io'[t] = "done"
        /\ u # t => io'[u] = io[u]
    BY <1>0, <1>2 DEF CompleteLoad, CompleteDetached, CompleteBroken, CompleteRead, HostTyped
  <2>1. Live(t) => runtime[t].host \in {"not_started", "loading"}
    BY <1>0, <2>0 DEF TableTypeOK, Runtime, HostStates, BindingShape, WellShaped, Live,
       Told, ReadyAfterRead, UnderWay
  <2>2. CASE u # t
    <3>1. load'[u] = load[u]
      BY <1>0, <1>2, <2>2, DetachDoes DEF CompleteLoad, CompleteDetached, CompleteBroken,
         CompleteRead, HostTyped
    <3>2. runtime'[u] = runtime[u]
      BY <1>0, <1>2, <2>2, StoresTell DEF CompleteLoad, CompleteDetached, CompleteBroken,
         CompleteRead, tableVars
    <3> QED
      BY <1>0, <2>0, <2>2, <3>1, <3>2, UntouchedTold DEF Untouched, Live, SubmitsLoad
  <2>3. CASE u = t /\ CompleteDetached(t)
    BY <1>0, <2>0, <2>1, <2>3 DEF CompleteDetached, Told, HasCopy, ReadyAfterRead, Live,
       UnderWay
  <2>4. CASE u = t /\ CompleteBroken(t)
    <3>1. ~Live(t)'
      BY <1>0, <2>1, <2>4, StoresTell DEF CompleteBroken, MarkHostFailedOK, tableVars, Live
    <3> QED
      BY <1>0, <2>4, <3>1, UntouchedTold
  <2>5. CASE u = t /\ CompleteRead(t)
    <3>1. CASE MarkHostReadyOK(t)
      <4>1. load'[t] \in {LoadOf(t, TRUE), LoadOf(t, FALSE)} /\ MarkHostReady(t)
        BY <1>0, <2>5, <3>1 DEF CompleteRead, HostTyped
      <4>2. load'[t].present /\ load'[t].group = t /\ runtime'[t].host = "ready"
        BY <1>0, <4>1, StoresTell, LoadFields
      <4> QED
        BY <2>0, <2>5, <4>2, TableAssumption DEF Told, HasCopy, ReadyAfterRead, UnderWay
    <3>2. CASE ~MarkHostReadyOK(t)
      <4>1. UNCHANGED runtime /\ (Live(t) => runtime[t].host = "not_started")
        BY <2>1, <2>5, <3>2 DEF CompleteRead, MarkHostReadyOK, tableVars
      <4> QED
        BY <2>5, <4>1 DEF Told, HasCopy, ReadyAfterRead, Live
    <3> QED
      BY <3>1, <3>2
  <2> QED
    BY <1>2, <2>2, <2>3, <2>4, <2>5 DEF CompleteLoad
<1> QED
  BY <1>1, <1>2 DEF IOStep

LEMMA CloserTells ==
  ASSUME HostInv, CloserStep, NEW u \in Tickets
  PROVE  Told(u)'
<1>0. /\ TableTypeOK /\ HostTyped /\ Told(u) /\ CloserCancels /\ UNCHANGED op
  BY DEF HostInv, BufferInv, ReuseInv, TableInv, CopiesTold, Told, CloserStep, managerVars
<1>1. SubmitsLoad(u) => SubmitsLoad(u)'
  BY <1>0 DEF SubmitsLoad
<1>2. CASE CloseStorage \/ \E t \in Tickets : CloseSkips(t)
  <2>1. UNCHANGED <<runtime, load, io>> /\ closer.pc # "detached"
    BY <1>2 DEF CloseStorage, CloseSkips
  <2>2. closer.ticket # u
    BY <1>0, <2>1, TableAssumption DEF CloserCancels
  <2> QED
    BY <1>0, <1>1, <2>1, <2>2, UntouchedTold DEF Untouched, Live
<1>3. ASSUME NEW t \in Tickets, CloseDetaches(t)
      PROVE  Told(u)'
  <2>1. /\ UNCHANGED <<runtime, io>> /\ closer.pc # "detached" /\ closer'.ticket = t
        /\ u # t => load'[u] = load[u]
    BY <1>0, <1>3, DetachDoes DEF CloseDetaches
  <2>2. closer.ticket # u
    BY <1>0, <2>1, TableAssumption DEF CloserCancels
  <2>3. CASE u # t
    BY <1>0, <1>1, <2>1, <2>2, <2>3, UntouchedTold DEF Untouched, Live
  <2>4. CASE u = t
    BY <1>0, <2>1, <2>4 DEF Told, HasCopy, ReadyAfterRead, Live
  <2> QED
    BY <2>3, <2>4
<1>4. CASE CloseEnds
  <2>1. PICK c \in Tickets : c = closer.ticket
    BY <1>0, <1>4 DEF CloseEnds, HostTyped
  <2>2. UNCHANGED <<load, io>>
    BY <1>4 DEF CloseEnds
  <2>3. ~Live(c)' /\ (u # c => runtime'[u] = runtime[u])
    <3>1. CASE Fallback(c)
      <4>1. runtime[c] \in Runtime
        BY <1>0, <2>1 DEF TableTypeOK
      <4>2. runtime'[c].binding = "fallback" /\ (u # c => runtime'[u] = runtime[u])
        BY <1>0, <2>1, <3>1, <4>1 DEF Fallback, Store, TableTypeOK, Runtime
      <4> QED
        BY <4>2 DEF Live, Terminal
    <3>2. CASE UNCHANGED runtime /\ ~Live(c)
      BY <3>2 DEF Live
    <3>3. ~closer.live => ~Live(c)
      BY <1>0, <1>4, <2>1 DEF CloserCancels, CloseEnds, Live
    <3> QED
      BY <1>4, <2>1, <3>1, <3>2, <3>3 DEF CloseEnds, FallbackOK, tableVars
  <2>4. CASE u = c
    BY <1>0, <2>3, <2>4, UntouchedTold
  <2>5. CASE u # c
    BY <1>0, <1>1, <2>1, <2>2, <2>3, <2>5, UntouchedTold DEF Untouched, Live
  <2> QED
    BY <2>4, <2>5
<1>5. CASE CloseCollects
  <2>1. /\ ~load[u].present /\ closer.ticket # u
    BY <1>0, <1>5, TableAssumption DEF CloseCollects, CloserCancels
  <2>2. UNCHANGED <<runtime, io>>
    BY <1>5 DEF CloseCollects, Collect
  <2> QED
    BY <1>0, <2>1, <2>2 DEF Told, HasCopy, ReadyAfterRead, Live
<1> QED
  BY <1>2, <1>3, <1>4, <1>5 DEF CloserStep, CloseStep

LEMMA StepCopiesTold ==
  ASSUME HostInv, [Next]_vars
  PROVE  CopiesTold'
<1> SUFFICES ASSUME NEW u \in Tickets PROVE Told(u)'
  BY DEF CopiesTold, Told
<1>0. Told(u) /\ HostTyped /\ ClosesInOrder /\ CloserCancels
  BY DEF HostInv, BufferInv, ReuseInv, CopiesTold, Told
<1>1. ASSUME NEW t \in Tickets, CallStep(t) \/ OpStep(t) \/ WorkerStep(t) \/ IOStep(t)
      PROVE  Told(u)'
  BY <1>0, <1>1, CallsTell, OpTells, WorkerTells, IOTells, UntouchedTold
<1>2. CASE Decide
  BY <1>0, <1>2, UntouchedTold DEF Decide, hostVars, Untouched, Live, SubmitsLoad, Submitting
<1>3. CASE CloseManager
  <2>1. closer.ticket # u
    BY <1>0, <1>3, TableAssumption DEF CloseManager, ClosesInOrder, CloserCancels
  <2> QED
    BY <1>0, <1>3, <2>1, UntouchedTold DEF CloseManager, Untouched, Live, SubmitsLoad
<1>4. CASE CloserStep
  BY <1>4, CloserTells
<1>5. CASE UNCHANGED vars
  BY <1>0, <1>5, UntouchedTold DEF vars, Untouched, Live, SubmitsLoad
<1> QED
  BY <1>1, <1>2, <1>3, <1>4, <1>5 DEF Next

\* Between the two updates of a submit nobody else touches the table or a load.
LEMMA SubmitAlone ==
  ASSUME BufferInv, [Next]_vars, op.step \in Submitting
  PROVE  op' = Idle \/ UNCHANGED <<runtime, load, op>>
<1>0. /\ SubmitsOnce /\ op # Idle /\ ~StorageLockFree
      /\ op.step \notin {"sweep", "decide", "create", "submit", "commit", "abort"}
  BY DEF BufferInv, Idle, StorageLockFree, Submitting
<1>1. ASSUME NEW t \in Tickets, CallStep(t)
      PROVE  UNCHANGED <<runtime, load, op>>
  BY <1>0, <1>1 DEF CallStep, Begin, Cancel, ReleaseCall, Handoff, hostVars
<1>2. ASSUME NEW t \in Tickets, OpStep(t)
      PROVE  op' = Idle
  BY <1>0, <1>2 DEF OpStep, Sweep, Abort, SelectCreates, SelectSubmits, SelectFinishes,
     InspectCommits, AuthenticateCommits, PrepareCommits, ActivateCommits, At, Done
<1>3. ASSUME NEW t \in Tickets, WorkerStep(t)
      PROVE  UNCHANGED <<runtime, load, op>>
  BY <1>0, <1>3 DEF WorkerStep, FetchLayer, LayerLands, MarkProgress, WorkerSucceeds,
     WorkerFails, WorkerCancels, hostVars
<1>4. ASSUME NEW t \in Tickets, IOStep(t)
      PROVE  UNCHANGED <<runtime, load, op>>
  BY <1>0, <1>4 DEF IOStep, ReadStarts, ReadSucceeds, ReadFails, managerVars
<1>5. ~CloserStep
  BY <1>0 DEF CloserStep, SubmitsOnce, Submitting
<1> QED
  BY <1>0, <1>1, <1>2, <1>3, <1>4, <1>5 DEF Next, Decide, CloseManager, vars, hostVars

\* A submit begins with select_skill only.
LEMMA SubmitBegins ==
  ASSUME OpTyped, [Next]_vars, op.step \notin Submitting, op'.step \in Submitting
  PROVE  \E t \in Tickets : SelectSubmits(t) /\ op'.ticket = t
<1>0. Idle.step = "idle" /\ op' # op
  BY DEF Idle
<1>1. ASSUME NEW t \in Tickets, OpStep(t)
      PROVE  SelectSubmits(t) /\ op'.ticket = t
  <2>1. ~Sweep(t)
    BY DEF Sweep, OpTyped, Submitting
  <2>2. ~Done /\ ~GoTo("abort") /\ ~GoTo("submit")
    BY <1>0 DEF Done, GoTo, OpTyped, Submitting
  <2>3. SelectSubmits(t)
    BY <1>1, <2>1, <2>2 DEF OpStep, Abort, SelectCreates, SelectFinishes, InspectCommits,
       AuthenticateCommits, PrepareCommits, ActivateCommits
  <2> QED
    BY <2>2, <2>3 DEF SelectSubmits, At, GoTo, OpTyped
<1>2. ASSUME NEW t \in Tickets, CallStep(t) \/ WorkerStep(t) \/ IOStep(t)
      PROVE  FALSE
  BY <1>0, <1>2 DEF CallStep, Begin, Cancel, ReleaseCall, Handoff, WorkerStep, FetchLayer,
     LayerLands, MarkProgress, WorkerSucceeds, WorkerFails, WorkerCancels, IOStep,
     managerVars, Submitting
<1>3. ~Decide
  <2> SUFFICES ASSUME Decide PROVE FALSE
    OBVIOUS
  <2>1. PICK verdict \in Verdicts : IF verdict = "return" THEN Done ELSE GoTo(verdict)
    BY DEF Decide
  <2>2. verdict \in {"return", "create", "commit", "abort"}
    BY DEF Decide, OpTyped, Verdicts, SelectVerdicts, InspectVerdicts,
       AuthenticateVerdicts, PrepareVerdicts, QueryVerdicts, ActivateVerdicts, Calls
  <2> QED
    BY <1>0, <2>1, <2>2 DEF Done, GoTo, OpTyped, Submitting
<1> QED
  BY <1>0, <1>1, <1>2, <1>3 DEF Next, CloseManager, CloserStep, managerVars, vars

LEMMA StepSubmitsLoading ==
  ASSUME HostInv, [Next]_vars
  PROVE  SubmitsLoading'
<1>0. BufferInv /\ OpTyped /\ HostTyped /\ TableTypeOK /\ SubmitsLoading
  BY DEF HostInv, BufferInv, ReuseInv, TableInv
<1>1. CASE op'.step \notin Submitting
  BY <1>1 DEF SubmitsLoading, Submitting
<1>2. CASE op'.step \in Submitting /\ op.step \in Submitting
  <2>1. UNCHANGED <<runtime, load, op>>
    BY <1>0, <1>2, SubmitAlone DEF Idle, Submitting
  <2> QED
    BY <1>0, <2>1 DEF SubmitsLoading
<1>3. CASE op'.step \in Submitting /\ op.step \notin Submitting
  <2>1. PICK t \in Tickets : SelectSubmits(t) /\ op'.ticket = t
    BY <1>0, <1>3, SubmitBegins
  <2>2. CASE SubmitHit(t) /\ GoTo("hit")
    <3>1. runtime'[t].host = "loading"
      BY <1>0, <2>2, StoresTell DEF SubmitHit
    <3>2. load'[t] = LoadOf(resident, TRUE) /\ resident # NoTicket
      BY <1>0, <2>2 DEF SubmitHit, ResidentHit, HostTyped
    <3> QED
      BY <2>1, <3>1, <3>2, LoadFields DEF SubmitsLoading
  <2>3. CASE SubmitMiss(t) /\ GoTo("enqueue")
    <3>1. runtime'[t].host = "loading"
      BY <1>0, <2>3, StoresTell DEF SubmitMiss
    <3>2. op'.step = "enqueue"
      BY <1>0, <2>3 DEF GoTo, OpTyped
    <3> QED
      BY <2>1, <3>1, <3>2 DEF SubmitsLoading
  <2>4. ~Done
    BY <1>3 DEF Done, Idle, Submitting
  <2> QED
    BY <2>1, <2>2, <2>3, <2>4 DEF SelectSubmits
<1> QED
  BY <1>1, <1>2, <1>3

LEMMA StepCloserCancels ==
  ASSUME HostInv, [Next]_vars
  PROVE  CloserCancels'
<1>0. /\ BufferInv /\ HostTyped /\ TableInv /\ ReadsOnce /\ ClosesInOrder /\ CloserCancels
      /\ GroupsOwned
  BY DEF HostInv, BufferInv, ReuseInv
<1>1. CASE closer' = closer /\ storageClosed' = storageClosed
  <2>1. (closer.pc # "detached" => closer.ticket = NoTicket)'
    BY <1>0, <1>1 DEF CloserCancels
  <2>2. (closer.pc = "detached" /\ ~closer.live => runtime[closer.ticket].binding \in Terminal)'
    <3> SUFFICES ASSUME closer.pc = "detached", ~closer.live
                 PROVE  runtime'[closer.ticket].binding \in Terminal
      BY <1>1
    <3>1. closer.ticket \in Tickets /\ runtime[closer.ticket].binding \in Terminal
      BY <1>0 DEF HostTyped, CloserCancels
    <3>2. Frozen(closer.ticket)
      BY <1>0, <3>1, StepCallsTable, NextFrozen DEF BufferInv
    <3> QED
      BY <3>1, <3>2 DEF Frozen, Terminal
  <2>3. ASSUME closer.pc \in {"cancelling", "detached"}, NEW u \in Tickets, load'[u].present
        PROVE  u \in closer.todo
    <3>1. storageClosed
      BY <1>0, <2>3 DEF ClosesInOrder
    <3>2. load[u].present
      <4>1. CASE Forgets \/ Collects
        BY <2>3, <4>1, LoadFields DEF Forgets, Collects
      <4>2. ASSUME NEW t \in Tickets, Fills(t) \/ ReleaseHostLoad(t)
            PROVE  load[u].present
        <5>1. load[t].present /\ (u # t => load'[u] = load[u])
          BY <1>0, <4>2, DetachDoes DEF Fills, ReleaseHostLoad, HostTyped
        <5> QED
          BY <2>3, <5>1
      <4>3. ~(\E t \in Tickets : SubmitHit(t) \/ SubmitMiss(t))
        BY <3>1 DEF SubmitHit, SubmitMiss, MaySubmit
      <4> QED
        BY <1>0, <4>1, <4>2, <4>3, StorageMoves
    <3> QED
      BY <1>0, <2>3, <3>2 DEF CloserCancels
  <2> QED
    BY <1>1, <2>1, <2>2, <2>3 DEF CloserCancels
<1>2. CASE CloseManager
  BY <1>2 DEF CloseManager, CloserAt, CloserCancels
<1>3. CASE CloserStep
  <2>1. CASE CloseStorage
    BY <2>1 DEF CloseStorage, CloserAt, CloserCancels
  <2>2. ASSUME NEW t \in Tickets, CloseDetaches(t)
        PROVE  CloserCancels'
    <3>1. /\ closer'.pc = "detached" /\ closer'.ticket = t /\ closer'.todo = closer.todo \ {t}
          /\ closer'.live = Live(t) /\ closer.pc = "cancelling" /\ load[t].present
          /\ UNCHANGED runtime
          /\ \A u \in Tickets : load'[u] = IF u = t THEN NoLoad ELSE load[u]
      BY <1>0, <2>2, DetachDoes DEF CloseDetaches
    <3>2. Known(t)
      BY <1>0, <3>1 DEF ReadsOnce
    <3>3. ~closer'.live => runtime'[t].binding \in Terminal
      BY <3>1, <3>2 DEF Live, Known
    <3>4. ASSUME NEW u \in Tickets, load'[u].present
          PROVE  u \in closer'.todo
      BY <1>0, <3>1, <3>4, LoadFields DEF CloserCancels
    <3> QED
      BY <3>1, <3>3, <3>4 DEF CloserCancels
  <2>3. ASSUME NEW t \in Tickets, CloseSkips(t)
        PROVE  CloserCancels'
    <3>1. /\ closer'.pc = "cancelling" /\ closer.pc = "cancelling" /\ ~load[t].present
          /\ closer'.ticket = closer.ticket /\ closer'.todo = closer.todo \ {t}
          /\ UNCHANGED load
      BY <1>0, <2>3 DEF CloseSkips, HostTyped
    <3> QED
      BY <1>0, <3>1 DEF CloserCancels
  <2>4. CASE CloseEnds
    <3>1. /\ closer'.pc = "cancelling" /\ closer'.ticket = NoTicket
          /\ closer'.todo = closer.todo /\ closer.pc = "detached" /\ UNCHANGED load
      BY <2>4 DEF CloseEnds, CloserAt
    <3> QED
      BY <1>0, <3>1 DEF CloserCancels
  <2>5. CASE CloseCollects
    BY <2>5 DEF CloseCollects, Collect, CloserAt, CloserCancels
  <2> QED
    BY <1>3, <2>1, <2>2, <2>3, <2>4, <2>5 DEF CloserStep, CloseStep
<1> QED
  BY <1>1, <1>2, <1>3, CloserMoves

LEMMA InitHostInv == Init => HostInv
<1> SUFFICES ASSUME Init PROVE HostInv
  OBVIOUS
<1>1. BufferInv
  BY InitBufferInv
<1>2. /\ op.step = "idle" /\ closer.pc = "idle" /\ closer.ticket = NoTicket
      /\ resident = NoTicket
      /\ \A t \in Tickets : load[t] = NoLoad /\ io[t] = "idle" /\ ~Live(t)
  BY DEF Init, TableInit, HostInit, ManagerInit, Idle, CloserAt, Unissued, Fresh, Live
<1>3. SharesResident
  BY <1>2, LoadFields DEF SharesResident
<1>4. CopiesTold
  BY <1>2 DEF CopiesTold, HasCopy, ReadyAfterRead
<1>5. SubmitsLoading
  BY <1>2 DEF SubmitsLoading, Submitting
<1>6. CloserCancels
  BY <1>2 DEF CloserCancels
<1> QED
  BY <1>1, <1>3, <1>4, <1>5, <1>6 DEF HostInv

LEMMA StepHostInv ==
  ASSUME ExpiresOrCloses
  PROVE  HostInv /\ [Next]_vars => HostInv'
<1> SUFFICES ASSUME HostInv, [Next]_vars PROVE HostInv'
  OBVIOUS
<1>1. BufferInv'
  BY StepBufferInv DEF HostInv
<1> QED
  BY <1>1, StepSharesResident, StepCopiesTold, StepSubmitsLoading, StepCloserCancels
  DEF HostInv

LEMMA HostInvariant ==
  ASSUME ExpiresOrCloses
  PROVE  Safe => []HostInv
<1>1. HostInv /\ [Next]_vars => HostInv'
  BY StepHostInv
<1> QED
  BY <1>1, InitHostInv, PTL DEF Safe

\* The group of a recorded load is in the pool's books as held.
LEMMA LoadedIsHeld ==
  ASSUME HostInv, NEW t \in Tickets, load[t].present, load[t].group # NoTicket
  PROVE  load[t].group \in Tickets /\ pool[load[t].group] = "held"
<1>0. HostTyped /\ GroupsOwned /\ SharesResident /\ load[t].group \in Tickets
  BY DEF HostInv, BufferInv, ReuseInv, HostTyped
<1>1. CASE load[t].hit
  <2>1. load[t].group = resident
    BY <1>0, <1>1 DEF SharesResident
  <2> QED
    BY <1>0, <2>1 DEF GroupsOwned, OneOwner
<1>2. CASE ~load[t].hit
  <2>1. Owns(t)
    BY <1>2 DEF Owns
  <2> QED
    BY <1>0, <2>1 DEF GroupsOwned, OneOwner
<1> QED
  BY <1>1, <1>2

\* A request that finds the retained copy of its object (resident_hit) shares a group
\* that is still retained, whatever was evicted, released or read meanwhile: for any
\* number of tickets and executor threads, unless deadlines and close() come together.
THEOREM HitsShare ==
  ASSUME ExpiresOrCloses
  PROVE  Safe => []HitsShareResident
<1>1. HostInv => HitsShareResident
  BY DEF HostInv, SharesResident, HitsShareResident
<1> QED
  BY <1>1, HostInvariant, PTL

\* What the runtime table tells the scheduler of a live ticket's host copy is true of
\* the storage side: ready means that its buffers are there and held (get_ready_buffers),
\* loading that a read will complete it or that its submit is not over.
THEOREM HostStateTold ==
  ASSUME ExpiresOrCloses
  PROVE  Safe => []HostStateMatchesLoad
<1>1. HostInv => HostStateMatchesLoad
  <2> SUFFICES ASSUME HostInv, NEW t \in Tickets, Live(t), closer.ticket # t
               PROVE  /\ runtime[t].host = "ready" =>
                           load[t].present /\ load[t].group # NoTicket
                             /\ pool[load[t].group] = "held"
                      /\ runtime[t].host = "loading" =>
                           /\ load[t].present
                           /\ \/ io[t] \in {"queued", "reading", "read", "broken"}
                              \/ op.ticket = t /\ op.step \in {"hit", "enqueue"}
    BY DEF HostStateMatchesLoad
  <2>1. HasCopy(t)
    BY DEF HostInv, CopiesTold
  <2> QED
    BY <2>1, LoadedIsHeld DEF HasCopy, SubmitsLoad, UnderWay, Submitting
<1> QED
  BY <1>1, HostInvariant, PTL

------------------------------------------------------------------------------
(* The layer copies of the worker.                                         *)
(*                                                                         *)
(* The manager does not look whether a worker reads from the buffers it    *)
(* gives back.  It need not: nobody answers for a ticket before it is      *)
(* active, a method that gives a ticket up decides so only while nobody    *)
(* does, the caller ends no ticket that the worker has, and close() begins *)
(* when no worker executes.  A deadline asks nobody, so this is about      *)
(* tickets without one.                                                    *)

CopyLeased(t) ==
  work[t].group # NoTicket =>
    work[t].lease = "worker" /\ load[t].present /\ load[t].group = work[t].group

Early == {"absent", "unbound", "observed", "verified"}

LeasedLate(t) == runtime[t].binding \in Early => work[t].lease = "none"

GivesUpUnleased ==
  /\ op.step # "sweep"
  /\ op.step \in {"commit", "abort"} \/ (op.step = "decide" /\ op.call = "query") =>
       work[op.ticket].lease = "none"

ClosesUnleased ==
  closer.pc # "idle" => \A t \in Tickets : work[t].lease \notin {"worker", "failed"}

CopyInv ==
  /\ HostInv
  /\ \A t \in Tickets : CopyLeased(t) /\ LeasedLate(t)
  /\ GivesUpUnleased
  /\ ClosesUnleased

\* What an active ticket was, it is not again.
LEMMA EarlyBefore ==
  ASSUME TableInv, [TableNext]_tableVars, NEW u \in Tickets, runtime'[u].binding \in Early
  PROVE  runtime[u].binding \in Early
<1>0. TableTypeOK /\ Frozen(u)
  BY NextFrozen DEF TableInv
<1>1. runtime[u].binding \notin Terminal
  BY <1>0 DEF Frozen, Terminal, Early
<1>2. ASSUME runtime[u].binding = "active" PROVE FALSE
  <2>1. ASSUME NEW t \in Tickets, TableStep(t)
        PROVE  FALSE
    <3>0. runtime[t] \in Runtime
      BY <1>0 DEF TableTypeOK
    <3>1. PICK state : /\ runtime' = [runtime EXCEPT ![t] = state]
                       /\ state.binding \in {"active", "fallback", "released"}
                            \/ runtime[t].binding # "active"
      <4>1. CASE \/ \E o \in Objects : CreateTicket(t, o)
                 \/ MarkObservation(t) \/ Activate(t)
                 \/ \E r \in Requests : BindRequest(t, r)
                 \/ \E r \in Requests, p \in Plans : SetReusePlan(t, r, p)
        BY <4>1 DEF CreateTicket, Known, MarkObservation, MarkObservationOK, Activate,
           ActivateOK, BindRequest, BindRequestOK, SetReusePlan, SetReusePlanOK, Store
      <4>2. CASE StartHostLoad(t) \/ MarkHostReady(t) \/ MarkHostFailed(t)
        BY <3>0, <4>2 DEF StartHostLoad, MarkHostReady, MarkHostFailed, Store, Runtime
      <4>3. CASE \E layer \in 0 .. Layers - 1 :
                   MarkLayerLoaded(t, layer) \/ MarkLayerCorrected(t, layer)
        BY <3>0, <4>3 DEF MarkLayerLoaded, MarkLayerLoadedOK, MarkLayerCorrected,
           MarkLayerCorrectedOK, Store, Runtime
      <4>4. CASE Fallback(t) \/ Release(t)
        BY <3>0, <4>4 DEF Fallback, Release, Store, Runtime
      <4> QED
        BY <2>1, <4>1, <4>2, <4>3, <4>4 DEF TableStep
    <3> QED
      BY <1>0, <1>2, <3>1 DEF TableTypeOK, Early
  <2>2. ASSUME NEW overdue \in SUBSET Tickets, Expire(overdue)
        PROVE  FALSE
    <3>1. runtime[u] \in Runtime
      BY <1>0 DEF TableTypeOK
    <3>2. runtime'[u].binding \in {"active", "fallback"}
      BY <1>2, <2>2, <3>1 DEF Expire, Runtime
    <3> QED
      BY <3>2 DEF Early
  <2> QED
    BY <1>2, <2>1, <2>2 DEF TableNext, tableVars, Early
<1> QED
  BY <1>0, <1>1, <1>2 DEF TableTypeOK, Runtime, BindingStates, Terminal, Early

\* Who may answer for a ticket after a step.
LEMMA LeaseMoves ==
  ASSUME WorkTyped, [Next]_vars, NEW u \in Tickets
  PROVE  /\ work[u].lease = "none" /\ work'[u].lease # "none" =>
              Activate(u) /\ op' = Idle
         /\ work'[u].lease \in {"worker", "failed"} =>
              \/ work[u].lease \in {"worker", "failed"}
              \/ closer.pc = "idle" /\ UNCHANGED closer
<1>1. CASE UNCHANGED work
  BY <1>1
<1>2. ASSUME NEW t \in Tickets, CallStep(t), ~ UNCHANGED work
      PROVE  /\ work[u].lease = "none" => work'[u].lease = "none"
             /\ work'[u].lease \in {"worker", "failed"} =>
                  \/ work[u].lease \in {"worker", "failed"}
                  \/ closer.pc = "idle" /\ UNCHANGED closer
  <2>1. CASE Cancel(t) \/ ReleaseCall(t)
    BY <2>1 DEF Cancel, ReleaseCall, GiveUpLease, WorkTyped
  <2>2. CASE Handoff(t)
    BY <2>2 DEF Handoff, hostVars, WorkTyped
  <2> QED
    BY <1>2, <2>1, <2>2 DEF CallStep, Begin
<1>3. ASSUME NEW t \in Tickets, OpStep(t), ~ UNCHANGED work
      PROVE  /\ work[u].lease = "none" /\ work'[u].lease # "none" => Activate(u) /\ op' = Idle
             /\ work'[u].lease \in {"worker", "failed"} => work[u].lease \in {"worker", "failed"}
  <2>1. ActivateCommits(t) /\ Activate(t) /\ work' = [work EXCEPT ![t].lease = "scheduler"]
    BY <1>3 DEF OpStep, Sweep, Abort, SelectCreates, SelectSubmits, SelectFinishes,
       InspectCommits, AuthenticateCommits, PrepareCommits, ActivateCommits
  <2> QED
    BY <2>1 DEF ActivateCommits, Done, WorkTyped
<1>4. ASSUME NEW t \in Tickets, WorkerStep(t)
      PROVE  /\ work[u].lease = "none" => work'[u].lease = "none"
             /\ work'[u].lease \in {"worker", "failed"} => work[u].lease \in {"worker", "failed"}
  <2>1. CASE FetchLayer(t) \/ LayerLands(t)
    BY <2>1 DEF FetchLayer, LayerLands, WorkTyped
  <2>2. CASE MarkProgress(t)
    BY <2>2 DEF MarkProgress
  <2>3. CASE WorkerFails(t)
    BY <2>3 DEF WorkerFails, WorkTyped
  <2>4. CASE WorkerSucceeds(t) \/ WorkerCancels(t)
    BY <2>4 DEF WorkerSucceeds, WorkerCancels, WorkTyped
  <2> QED
    BY <1>4, <2>1, <2>2, <2>3, <2>4 DEF WorkerStep
<1>5. (\E t \in Tickets : IOStep(t)) \/ Decide \/ CloseManager \/ CloserStep
        \/ UNCHANGED vars => UNCHANGED work
  BY DEF IOStep, Decide, CloseManager, CloserStep, managerVars, vars
<1> QED
  BY <1>1, <1>2, <1>3, <1>4, <1>5 DEF Next

\* A load the worker copies from stays, unless it is the worker who lets go.
LEMMA CopiedStays ==
  ASSUME CopyInv, [Next]_vars, NEW u \in Tickets, work[u].group # NoTicket
  PROVE  load'[u] = load[u]
<1>0. /\ HostTyped /\ TableTypeOK /\ WorkTyped /\ GroupsOwned /\ ReadsOnce /\ SubmitsOnce
      /\ GivesUpUnleased /\ ClosesUnleased
      /\ work[u].lease = "worker" /\ load[u].present /\ load[u].group # NoTicket
  BY DEF CopyInv, HostInv, BufferInv, ReuseInv, TableInv, CopyLeased
<1>1. UNCHANGED hostVars => load'[u] = load[u]
  BY DEF hostVars
<1>2. ASSUME NEW t \in Tickets, CallStep(t)
      PROVE  load'[u] = load[u]
  BY <1>0, <1>1, <1>2, EndingsEnd DEF CallStep, Begin, Cancel, ReleaseCall, Handoff,
     CallerMayEnd
<1>3. ASSUME NEW t \in Tickets, OpStep(t)
      PROVE  load'[u] = load[u]
  <2>1. CASE Sweep(t)
    BY <1>0, <2>1 DEF Sweep, GivesUpUnleased
  <2>2. CASE Abort(t)
    BY <1>0, <2>2, EndingsEnd DEF Abort, GivesUpUnleased
  <2>3. CASE SelectSubmits(t)
    <3>1. CASE SubmitHit(t)
      BY <1>0, <3>1 DEF SubmitHit, MaySubmit, HostTyped
    <3>2. CASE SubmitMiss(t)
      BY <1>0, <3>2 DEF SubmitMiss, MaySubmit, HostTyped
    <3> QED
      BY <1>1, <2>3, <3>1, <3>2 DEF SelectSubmits, SubmitRefused
  <2>4. CASE SelectFinishes(t)
    <3>1. CASE At("select", "enqueue", t) /\ EnqueueFails(t)
      <4>0. load[t] = LoadOf(NoTicket, FALSE)
        BY <1>0, <3>1 DEF At, SubmitsOnce
      <4>1. u # t
        BY <1>0, <4>0, LoadFields
      <4> QED
        BY <1>0, <3>1, <4>1, DetachDoes DEF EnqueueFails
    <3> QED
      BY <1>1, <2>4, <3>1 DEF SelectFinishes, SubmitHitReady, Enqueue
  <2>5. CASE SelectCreates(t) \/ InspectCommits(t) \/ AuthenticateCommits(t)
               \/ PrepareCommits(t) \/ ActivateCommits(t)
    BY <1>1, <2>5 DEF SelectCreates, InspectCommits, AuthenticateCommits,
       PrepareCommits, ActivateCommits
  <2> QED
    BY <1>3, <2>1, <2>2, <2>3, <2>4, <2>5 DEF OpStep
<1>4. ASSUME NEW t \in Tickets, WorkerStep(t)
      PROVE  load'[u] = load[u]
  <2>1. CASE FetchLayer(t) \/ LayerLands(t) \/ MarkProgress(t) \/ WorkerFails(t)
    BY <1>1, <2>1 DEF FetchLayer, LayerLands, MarkProgress, WorkerFails
  <2>2. CASE WorkerSucceeds(t)
    <3>1. t # u
      BY <1>0, <2>2, TableAssumption DEF WorkerSucceeds, WorkTyped
    <3> QED
      BY <1>0, <2>2, <3>1, EndingsEnd DEF WorkerSucceeds
  <2>3. CASE WorkerCancels(t)
    BY <1>0, <2>3, EndingsEnd DEF WorkerCancels
  <2> QED
    BY <1>4, <2>1, <2>2, <2>3 DEF WorkerStep
<1>5. ASSUME NEW t \in Tickets, IOStep(t)
      PROVE  load'[u] = load[u]
  <2>1. CASE ReadStarts(t) \/ ReadSucceeds(t) \/ ReadFails(t)
    BY <2>1 DEF ReadStarts, ReadSucceeds, ReadFails
  <2>2. CASE CompleteLoad(t)
    <3>1. io[t] \in {"read", "broken"}
      BY <2>2 DEF CompleteLoad, CompleteDetached, CompleteBroken, CompleteRead
    <3>2. io[u] \in {"idle", "done"}
      BY <1>0 DEF GroupsOwned, OneOwner, Owns, ReadsOnce
    <3>3. UNCHANGED load \/ Detach(t) \/ \E l : load' = [load EXCEPT ![t] = l]
      BY <2>2 DEF CompleteLoad, CompleteDetached, CompleteBroken, CompleteRead
    <3> QED
      BY <1>0, <3>1, <3>2, <3>3, DetachDoes DEF HostTyped
  <2> QED
    BY <1>5, <2>1, <2>2 DEF IOStep
<1>6. ~CloserStep
  BY <1>0 DEF ClosesUnleased, CloserStep, CloseStep, CloseStorage, CloseDetaches,
     CloseSkips, CloseEnds, CloseCollects
<1>7. CASE Decide \/ CloseManager \/ UNCHANGED vars
  BY <1>1, <1>7 DEF Decide, CloseManager, vars
<1> QED
  BY <1>2, <1>3, <1>4, <1>5, <1>6, <1>7 DEF Next

LEMMA StepCopyLeased ==
  ASSUME CopyInv, [Next]_vars, NEW u \in Tickets
  PROVE  CopyLeased(u)'
<1>0. /\ HostTyped /\ WorkTyped /\ GroupsOwned /\ CopyLeased(u) /\ GivesUpUnleased
      /\ LeasedLate(u)
  BY DEF CopyInv, HostInv, BufferInv, ReuseInv
<1>1. CASE work'[u] = work[u]
  BY <1>0, <1>1, CopiedStays DEF CopyLeased
<1>2. CASE work'[u].group = NoTicket
  BY <1>2 DEF CopyLeased
<1>3. ASSUME NEW t \in Tickets, CallStep(t)
      PROVE  CopyLeased(u)'
  <2>1. work'[u] = work[u] \/ work'[u].group = NoTicket
    <3>1. CASE \E call \in Calls, r \in Requests \cup {NoRequest} : Begin(call, t, r)
      BY <3>1 DEF Begin
    <3>2. CASE Cancel(t) \/ ReleaseCall(t)
      BY <1>0, <3>2 DEF Cancel, ReleaseCall, CallerMayEnd, GiveUpLease, CopyLeased, WorkTyped
    <3>3. CASE Handoff(t)
      BY <1>0, <3>3 DEF Handoff, CopyLeased, WorkTyped
    <3> QED
      BY <1>3, <3>1, <3>2, <3>3 DEF CallStep
  <2> QED
    BY <1>1, <1>2, <2>1
<1>4. ASSUME NEW t \in Tickets, OpStep(t)
      PROVE  CopyLeased(u)'
  <2>1. CASE ActivateCommits(t)
    <3>1. work'[u] = work[u] \/ work'[u].group = NoTicket
      BY <1>0, <2>1 DEF ActivateCommits, At, GivesUpUnleased, CopyLeased, WorkTyped
    <3> QED
      BY <1>1, <1>2, <3>1
  <2>2. CASE ~ActivateCommits(t)
    BY <1>1, <1>4, <2>2 DEF OpStep, Sweep, Abort, SelectCreates, SelectSubmits,
       SelectFinishes, InspectCommits, AuthenticateCommits, PrepareCommits
  <2> QED
    BY <2>1, <2>2
<1>5. ASSUME NEW t \in Tickets, WorkerStep(t)
      PROVE  CopyLeased(u)'
  <2>1. CASE t # u
    <3>1. work'[u] = work[u]
      BY <1>0, <1>5, <2>1 DEF WorkerStep, FetchLayer, LayerLands, MarkProgress,
         WorkerSucceeds, WorkerFails, WorkerCancels, WorkTyped
    <3> QED
      BY <1>1, <3>1
  <2>2. CASE t = u /\ FetchLayer(u)
    <3>1. /\ work'[u].group = load[u].group /\ work'[u].lease = "worker"
          /\ load[u].group # NoTicket /\ UNCHANGED load
      BY <1>0, <2>2 DEF FetchLayer, hostVars, WorkTyped
    <3>2. load[u].present
      BY <1>0, <3>1, LoadFields DEF GroupsOwned, OneOwner
    <3> QED
      BY <3>1, <3>2 DEF CopyLeased
  <2>3. CASE t = u /\ (LayerLands(u) \/ WorkerFails(u))
    <3>1. work'[u].group = NoTicket
      BY <1>0, <2>3 DEF LayerLands, WorkerFails, WorkTyped
    <3> QED
      BY <1>2, <3>1
  <2>4. CASE MarkProgress(t)
    BY <1>1, <2>4 DEF MarkProgress
  <2>5. CASE t = u /\ WorkerSucceeds(u)
    <3>1. work'[u].group = NoTicket
      BY <1>0, <2>5, TableAssumption DEF WorkerSucceeds, WorkTyped
    <3> QED
      BY <1>2, <3>1
  <2>6. CASE t = u /\ WorkerCancels(u)
    <3>1. work'[u].group = NoTicket
      BY <1>0, <2>6 DEF WorkerCancels, CopyLeased, WorkTyped
    <3> QED
      BY <1>2, <3>1
  <2> QED
    BY <1>5, <2>1, <2>2, <2>3, <2>4, <2>5, <2>6 DEF WorkerStep
<1>6. (\E t \in Tickets : IOStep(t)) \/ Decide \/ CloseManager \/ CloserStep
        \/ UNCHANGED vars => work'[u] = work[u]
  BY DEF IOStep, Decide, CloseManager, CloserStep, managerVars, vars
<1> QED
  BY <1>1, <1>3, <1>4, <1>5, <1>6 DEF Next

LEMMA StepLeasedLate ==
  ASSUME CopyInv, [Next]_vars, NEW u \in Tickets
  PROVE  LeasedLate(u)'
<1>0. ReuseInv /\ TableInv /\ WorkTyped /\ LeasedLate(u)
  BY DEF CopyInv, HostInv, BufferInv, ReuseInv
<1> SUFFICES ASSUME runtime'[u].binding \in Early PROVE work'[u].lease = "none"
  BY DEF LeasedLate
<1>1. work[u].lease = "none"
  BY <1>0, StepCallsTable, EarlyBefore DEF LeasedLate
<1>2. ~Activate(u)
  <2> SUFFICES ASSUME Activate(u) PROVE FALSE
    OBVIOUS
  <2>1. runtime[u] \in Runtime
    BY <1>0 DEF TableInv, TableTypeOK
  <2>2. runtime'[u].binding = "active"
    BY <1>0, <2>1 DEF Activate, Store, TableInv, TableTypeOK, Runtime
  <2> QED
    BY <2>2 DEF Early
<1> QED
  BY <1>0, <1>1, <1>2, LeaseMoves

LEMMA StepGivesUpUnleased ==
  ASSUME CopyInv, [Next]_vars, ~Expiring
  PROVE  GivesUpUnleased'
<1>0. /\ OpTyped /\ WorkTyped /\ SubmitsOnce /\ GivesUpUnleased
      /\ \A t \in Tickets : LeasedLate(t)
  BY DEF CopyInv, HostInv, BufferInv, ReuseInv
<1>1. CASE op' = Idle
  BY <1>1 DEF Idle, GivesUpUnleased
\* Nobody answers for the ticket of a method that goes on, if nobody did.
<1>2. ASSUME op' # Idle, op'.ticket = op.ticket, op.step # "idle", op'.step # "sweep",
             work[op.ticket].lease = "none"
      PROVE  GivesUpUnleased'
  <2>1. op.ticket \in Tickets
    BY <1>0, <1>2 DEF SubmitsOnce
  <2>2. work'[op.ticket].lease = "none"
    BY <1>0, <1>2, <2>1, LeaseMoves
  <2> QED
    BY <1>2, <2>2 DEF GivesUpUnleased
<1>3. CASE UNCHANGED op
  <2>1. CASE op.step \in {"commit", "abort"} \/ (op.step = "decide" /\ op.call = "query")
    BY <1>0, <1>1, <1>2, <1>3, <2>1 DEF GivesUpUnleased
  <2>2. CASE ~(op.step \in {"commit", "abort"} \/ (op.step = "decide" /\ op.call = "query"))
    BY <1>0, <1>3, <2>2 DEF GivesUpUnleased
  <2> QED
    BY <2>1, <2>2
<1>4. ASSUME NEW t \in Tickets, CallStep(t)
      PROVE  GivesUpUnleased'
  <2>1. ASSUME NEW call \in Calls, NEW r \in Requests \cup {NoRequest}, Begin(call, t, r)
        PROVE  GivesUpUnleased'
    <3>1. op' = [call |-> call, ticket |-> t, request |-> r, sweep |-> {}, step |-> "decide"]
      <4>1. PICK overdue \in SUBSET {u \in Tickets : Expiring /\ Live(u)} :
              op' = [call |-> call, ticket |-> t, request |-> r, sweep |-> overdue,
                     step |-> IF overdue = {} THEN "decide" ELSE "sweep"]
        BY <2>1 DEF Begin
      <4>2. overdue = {}
        BY <4>1
      <4> QED
        BY <4>1, <4>2
    <3>2. (call = "query" => work[t].lease = "none") /\ UNCHANGED work
      BY <2>1 DEF Begin, CallerMayQuery
    <3> QED
      BY <3>1, <3>2 DEF GivesUpUnleased
  <2> QED
    BY <1>3, <1>4, <2>1 DEF CallStep, Cancel, ReleaseCall, Handoff
<1>5. ASSUME NEW t \in Tickets, OpStep(t)
      PROVE  GivesUpUnleased'
  <2>1. CASE Sweep(t)
    BY <1>0, <2>1 DEF Sweep, GivesUpUnleased
  <2>2. CASE Done
    BY <1>1, <2>2 DEF Done
  <2>3. CASE GoTo("abort") /\ op.step = "commit"
    <3>1. op'.ticket = op.ticket /\ op'.step = "abort" /\ op' # Idle
      BY <1>0, <2>3 DEF GoTo, OpTyped, Idle
    <3> QED
      BY <1>0, <1>2, <2>3, <3>1 DEF GivesUpUnleased
  <2>4. CASE GoTo("submit") \/ GoTo("hit") \/ GoTo("enqueue")
    BY <1>0, <2>4 DEF GoTo, OpTyped, GivesUpUnleased
  <2> QED
    BY <1>5, <2>1, <2>2, <2>3, <2>4 DEF OpStep, Abort, SelectCreates, SelectSubmits,
       SelectFinishes, InspectCommits, AuthenticateCommits, PrepareCommits,
       ActivateCommits, At
<1>6. CASE Decide
  <2>1. PICK verdict \in Verdicts : IF verdict = "return" THEN Done ELSE GoTo(verdict)
    BY <1>6 DEF Decide
  <2>2. /\ op.step = "decide" /\ op.ticket \in Tickets /\ op.call \in Calls
    BY <1>0, <1>6 DEF Decide, SubmitsOnce, OpTyped
  <2>3. verdict \in {"return", "create"} \/ work[op.ticket].lease = "none"
    <3>1. \/ verdict \in {"return", "create"} \/ op.call = "query"
          \/ runtime[op.ticket].binding \in Early
      BY <2>2 DEF Verdicts, SelectVerdicts, InspectVerdicts, AuthenticateVerdicts,
         PrepareVerdicts, QueryVerdicts, ActivateVerdicts, Calls, Early
    <3> QED
      BY <1>0, <2>2, <3>1 DEF GivesUpUnleased, LeasedLate
  <2>4. verdict \in {"return", "create", "commit", "abort"}
    BY <2>2 DEF Verdicts, SelectVerdicts, InspectVerdicts, AuthenticateVerdicts,
       PrepareVerdicts, QueryVerdicts, ActivateVerdicts, Calls
  <2>5. CASE verdict = "return"
    BY <1>1, <2>1, <2>5 DEF Done
  <2>6. CASE verdict # "return"
    <3>1. op'.step = verdict /\ op'.ticket = op.ticket /\ op' # Idle
      BY <1>0, <2>1, <2>4, <2>6 DEF GoTo, OpTyped, Idle
    <3>2. CASE verdict = "create"
      BY <3>1, <3>2 DEF GivesUpUnleased
    <3>3. CASE verdict # "create"
      BY <1>2, <2>2, <2>3, <2>4, <2>6, <3>1, <3>3
    <3> QED
      BY <3>2, <3>3
  <2> QED
    BY <2>5, <2>6
<1>7. (\E t \in Tickets : WorkerStep(t) \/ IOStep(t)) \/ CloseManager \/ CloserStep
        \/ UNCHANGED vars => UNCHANGED op
  BY DEF WorkerStep, FetchLayer, LayerLands, MarkProgress, WorkerSucceeds, WorkerFails,
     WorkerCancels, IOStep, CloseManager, CloserStep, managerVars, vars
<1> QED
  BY <1>3, <1>4, <1>5, <1>6, <1>7 DEF Next

LEMMA StepClosesUnleased ==
  ASSUME CopyInv, [Next]_vars
  PROVE  ClosesUnleased'
<1>0. WorkTyped /\ ClosesUnleased
  BY DEF CopyInv, HostInv, BufferInv, ReuseInv
<1> SUFFICES ASSUME closer'.pc # "idle", NEW t \in Tickets
             PROVE  work'[t].lease \notin {"worker", "failed"}
  BY DEF ClosesUnleased
<1>1. CASE CloseManager
  BY <1>1 DEF CloseManager
<1>2. CASE ~CloseManager
  <2>1. closer.pc # "idle"
    BY <1>2, CloserMoves DEF CloserStep, CloseStep, CloseStorage, CloseDetaches,
       CloseSkips, CloseEnds, CloseCollects
  <2> QED
    BY <1>0, <2>1, LeaseMoves DEF ClosesUnleased
<1> QED
  BY <1>1, <1>2

LEMMA CopyInvariant ==
  ASSUME ~Expiring
  PROVE  Safe => []CopyInv
<1>0. ExpiresOrCloses
  BY DEF ExpiresOrCloses
<1>1. Init => CopyInv
  <2> SUFFICES ASSUME Init PROVE CopyInv
    OBVIOUS
  <2>1. /\ op.step = "idle" /\ closer.pc = "idle"
        /\ \A t \in Tickets : work[t] = NoWork
    BY DEF Init, HostInit, ManagerInit, Idle, CloserAt
  <2> QED
    BY <2>1, InitHostInv DEF CopyInv, CopyLeased, LeasedLate, GivesUpUnleased,
       ClosesUnleased, NoWork
<1>2. CopyInv /\ [Next]_vars => CopyInv'
  <2> SUFFICES ASSUME CopyInv, [Next]_vars PROVE CopyInv'
    OBVIOUS
  <2>1. HostInv'
    BY <1>0, StepHostInv DEF CopyInv
  <2> QED
    BY <2>1, StepCopyLeased, StepLeasedLate, StepGivesUpUnleased, StepClosesUnleased
    DEF CopyInv
<1> QED
  BY <1>1, <1>2, PTL DEF Safe

\* A worker never copies a layer from buffers that went back to the pool
\* (get_active_layer_buffer, submit_layer), whatever the scheduler cancels or releases
\* and wherever close() begins: for any number of tickets, layers and executor threads,
\* retaining or not, unless tickets have deadlines (for those it is false).
THEOREM CopiesHeld ==
  ASSUME ~Expiring
  PROVE  Safe => []CopiesReadHeldBuffers
<1>1. CopyInv => CopiesReadHeldBuffers
  <2> SUFFICES ASSUME CopyInv, NEW t \in Tickets, work[t].group # NoTicket
               PROVE  pool[work[t].group] = "held"
    BY DEF CopiesReadHeldBuffers
  <2>1. load[t].present /\ load[t].group = work[t].group
    BY DEF CopyInv, CopyLeased
  <2> QED
    BY <2>1, LoadedIsHeld DEF CopyInv
<1> QED
  BY <1>1, CopyInvariant, PTL
==============================================================================
