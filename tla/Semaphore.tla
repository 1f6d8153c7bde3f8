----------------------------- MODULE Semaphore -----------------------------
(***************************************************************************)
(* The admission semaphore (src/semaphore.js).  acquire() takes a free     *)
(* slot or queues a waiter; release() hands the slot to the waiter at the  *)
(* head of the queue without touching the count, so an agent admitted that *)
(* way has not run yet when a newcomer reads the count.                    *)
(***************************************************************************)
EXTENDS Naturals, Sequences, FiniteSets, SequencesExt

CONSTANTS Agents, Limit

ASSUME LimitAssumption == Limit \in Nat \ {0}
ASSUME AgentsAssumption == IsFiniteSet(Agents)

VARIABLES
    active,   \* the slots counted as taken
    queue,    \* agents waiting, in order
    holders   \* agents whose acquire() is fulfilled and not released

semVars == <<active, queue, holders>>

SemTypeOK ==
    /\ active \in Nat
    /\ queue \in Seq(Agents)
    /\ holders \subseteq Agents

SemInit == active = 0 /\ queue = <<>> /\ holders = {}

Waiting == ToSet(queue)

\* A slip: one slot is never used.
HasFreeSlot_OneLess == active + 1 < Limit

HasFreeSlot == active < Limit

\* acquire(): a is outside.
Acquire(a) ==
    /\ a \notin holders /\ a \notin Waiting
    /\ IF HasFreeSlot
       THEN active' = active + 1 /\ holders' = holders \cup {a} /\ UNCHANGED queue
       ELSE queue' = Append(queue, a) /\ UNCHANGED <<active, holders>>

\* A slip: the count is lowered although the slot was handed on.
HandOff_Decrement == active' = active - 1

HandOff == UNCHANGED active

Rest_Kept == queue

Heir == Head(queue)
Rest == Tail(queue)
SomeoneWaits == queue # <<>>

\* release() by the holder a.
Release(a) ==
    /\ a \in holders
    /\ IF SomeoneWaits
       THEN /\ HandOff
            /\ holders' = (holders \ {a}) \cup {Heir}
            /\ queue' = Rest
       ELSE /\ active' = active - 1
            /\ holders' = holders \ {a}
            /\ UNCHANGED queue

SemNext == \E a \in Agents : Acquire(a) \/ Release(a)

SemSpec == SemInit /\ [][SemNext]_semVars
-----------------------------------------------------------------------------
(* Properties *)

\* The count is the number of agents really admitted, and never above the limit,
\* whichever way the slots changed hands.
NoOverAdmission == active = Cardinality(holders) /\ active <= Limit

\* Nobody waits while a slot is free, so a newcomer cannot overtake the queue.
NoIdleSlot == queue # <<>> => active = Limit

\* An agent waits at most once and never for a slot it holds.
WaitersDistinct == IsInjective(queue) /\ Waiting \cap holders = {}

\* The slots are neither over-admitted nor idle, and each is wanted or held once.
SlotsExact == NoOverAdmission /\ NoIdleSlot /\ WaitersDistinct

\* The queue is first come, first served: of two waiters the earlier is never
\* admitted after the later.
FirstComeFirstServed ==
    [][\A i, j \in DOMAIN queue :
          i < j /\ queue[j] \in holders' => queue[i] \in holders']_semVars
=============================================================================
