------------------------ MODULE RunLifecycle_proofs ------------------------
(***************************************************************************)
(* What holds of the admission semaphore for every set of agents and every *)
(* limit, and of the run that uses it for every number of questions and    *)
(* every budget.                                                           *)
(*                                                                         *)
(* SemInv is inductive: the count alone does not tell that a slot handed   *)
(* on had a holder, nor the holders that nobody waits for a free slot, so  *)
(* the three invariants of the semaphore are proved together.  The         *)
(* properties of the run are not inductive as they stand either: that      *)
(* nothing outlives the end record needs that a closing run admits nobody  *)
(* (Closed) and that whoever holds or awaits a slot is in flight           *)
(* (SlotsInFlight); the bound of the overshoot needs the same and SemInv.  *)
(***************************************************************************)
EXTENDS RunLifecycle, FiniteSetTheorems, SequenceTheorems, TLAPS

SemInv ==
    /\ SemTypeOK
    /\ IsFiniteSet(holders)
    /\ NoOverAdmission
    /\ NoIdleSlot
    /\ WaitersDistinct
-----------------------------------------------------------------------------
(* The semaphore: the queue as a sequence *)

\* Appending a new element keeps the elements distinct and adds just that one.
LEMMA AppendDistinct ==
    ASSUME NEW S, NEW s \in Seq(S), NEW x \in S, x \notin ToSet(s), IsInjective(s)
    PROVE  /\ IsInjective(Append(s, x))
           /\ ToSet(Append(s, x)) = ToSet(s) \cup {x}
<1>1. /\ Append(s, x) \in Seq(S)
      /\ Len(Append(s, x)) = Len(s) + 1
      /\ DOMAIN Append(s, x) = 1..(Len(s) + 1)
      /\ \A i \in 1..Len(s) : Append(s, x)[i] = s[i]
      /\ Append(s, x)[Len(s) + 1] = x
  OBVIOUS
<1>2. DOMAIN s = 1..Len(s) /\ Len(s) \in Nat
  OBVIOUS
<1>3. ToSet(Append(s, x)) = ToSet(s) \cup {x}
  BY <1>1, <1>2 DEF ToSet
<1>4. \A i \in 1..Len(s) : s[i] # x
  BY <1>2 DEF ToSet
<1>5. IsInjective(Append(s, x))
  BY <1>1, <1>2, <1>4 DEF IsInjective
<1> QED
  BY <1>3, <1>5

\* The tail of a sequence of distinct elements has all of them but the head.
LEMMA TailDistinct ==
    ASSUME NEW S, NEW s \in Seq(S), s # <<>>, IsInjective(s)
    PROVE  /\ IsInjective(Tail(s))
           /\ ToSet(Tail(s)) = ToSet(s) \ {Head(s)}
           /\ Head(s) \in ToSet(s)
<1>1. /\ Tail(s) \in Seq(S)
      /\ Len(s) \in Nat /\ Len(s) > 0
      /\ DOMAIN s = 1..Len(s)
      /\ DOMAIN Tail(s) = 1..(Len(s) - 1)
      /\ \A i \in 1..(Len(s) - 1) : Tail(s)[i] = s[i + 1]
      /\ Head(s) = s[1]
  OBVIOUS
<1>2. IsInjective(Tail(s))
  BY <1>1 DEF IsInjective
<1>3. Head(s) \in ToSet(s)
  BY <1>1 DEF ToSet
<1>4. ToSet(Tail(s)) \subseteq ToSet(s) \ {Head(s)}
  BY <1>1 DEF ToSet, IsInjective
<1>5. ASSUME NEW e \in ToSet(s) \ {Head(s)}
      PROVE  e \in ToSet(Tail(s))
  <2>1. PICK i \in 1..Len(s) : s[i] = e
    BY <1>1 DEF ToSet
  <2>2. i # 1
    BY <2>1, <1>1
  <2>3. i - 1 \in DOMAIN Tail(s) /\ Tail(s)[i - 1] = e
    BY <2>1, <2>2, <1>1
  <2> QED
    BY <2>3 DEF ToSet
<1> QED
  BY <1>2, <1>3, <1>4, <1>5
-----------------------------------------------------------------------------
(* The semaphore: the inductive invariant *)

\* A new semaphore has nobody admitted and nobody waiting.
LEMMA SemInitInv == SemInit => SemInv
<1> SUFFICES ASSUME SemInit PROVE SemInv
  OBVIOUS
<1>1. Cardinality({}) = 0 /\ IsFiniteSet({})
  BY FS_EmptySet
<1>2. ToSet(<<>>) = {} /\ IsInjective(<<>>)
  BY DEF ToSet, IsInjective
<1> QED
  BY <1>1, <1>2, LimitAssumption
     DEF SemInit, SemInv, SemTypeOK, NoOverAdmission, NoIdleSlot, WaitersDistinct, Waiting

\* acquire() takes a slot that is free or waits because none is.
LEMMA AcquireInv ==
    ASSUME SemInv, NEW a \in Agents, Acquire(a)
    PROVE  SemInv'
<1> USE DEF SemInv, SemTypeOK, NoOverAdmission, NoIdleSlot, WaitersDistinct, Waiting
<1>1. CASE HasFreeSlot
  <2>1. active' = active + 1 /\ holders' = holders \cup {a} /\ queue' = queue
    BY <1>1 DEF Acquire
  <2>2. queue = <<>>
    BY <1>1, LimitAssumption DEF HasFreeSlot
  <2>3. /\ IsFiniteSet(holders')
        /\ Cardinality(holders') = Cardinality(holders) + 1
    BY <2>1, FS_AddElement DEF Acquire
  <2>4. ToSet(queue') = {} /\ IsInjective(queue')
    BY <2>1, <2>2 DEF ToSet, IsInjective
  <2>5. active' <= Limit
    BY <1>1, <2>1, LimitAssumption DEF HasFreeSlot
  <2> QED
    BY <2>1, <2>2, <2>3, <2>4, <2>5
<1>2. CASE ~HasFreeSlot
  <2>1. active' = active /\ holders' = holders /\ queue' = Append(queue, a)
    BY <1>2 DEF Acquire
  <2>2. a \notin ToSet(queue) /\ a \notin holders
    BY DEF Acquire
  <2>3. /\ IsInjective(queue')
        /\ ToSet(queue') = ToSet(queue) \cup {a}
    BY <2>1, <2>2, AppendDistinct
  <2>4. active' = Limit
    BY <1>2, <2>1, LimitAssumption DEF HasFreeSlot
  <2> QED
    BY <2>1, <2>2, <2>3, <2>4
<1> QED
  BY <1>1, <1>2

\* release() hands the slot on, or frees one that nobody waits for.
LEMMA ReleaseInv ==
    ASSUME SemInv, NEW a \in Agents, Release(a)
    PROVE  SemInv'
<1> USE DEF SemInv, SemTypeOK, NoOverAdmission, NoIdleSlot, WaitersDistinct, Waiting
<1>0. a \in holders
  BY DEF Release
<1>1. /\ IsFiniteSet(holders \ {a})
      /\ Cardinality(holders \ {a}) = Cardinality(holders) - 1
  BY <1>0, FS_RemoveElement
<1>2. CASE SomeoneWaits
  <2>1. /\ active' = active
        /\ holders' = (holders \ {a}) \cup {Head(queue)}
        /\ queue' = Tail(queue)
    BY <1>2 DEF Release, HandOff, Heir, Rest
  <2>2. queue # <<>>
    BY <1>2 DEF SomeoneWaits
  <2>3. /\ IsInjective(queue')
        /\ ToSet(queue') = ToSet(queue) \ {Head(queue)}
        /\ Head(queue) \in ToSet(queue)
    BY <2>1, <2>2, TailDistinct
  <2>4. Head(queue) \in Agents /\ Head(queue) \notin holders
    BY <2>2, <2>3
  <2>5. /\ IsFiniteSet(holders')
        /\ Cardinality(holders') = Cardinality(holders)
    <3>1. Cardinality(holders') = Cardinality(holders \ {a}) + 1
          /\ IsFiniteSet(holders')
      BY <2>1, <2>4, <1>1, FS_AddElement
    <3>2. Cardinality(holders) \in Nat
      BY FS_CardinalityType
    <3> QED
      BY <3>1, <3>2, <1>1
  <2>6. queue' \in Seq(Agents)
    BY <2>1, <2>2
  <2>7. active' = Limit
    BY <2>1, <2>2
  <2> QED
    BY <2>1, <2>3, <2>4, <2>5, <2>6, <2>7
<1>3. CASE ~SomeoneWaits
  <2>1. active' = active - 1 /\ holders' = holders \ {a} /\ queue' = queue
    BY <1>3 DEF Release
  <2>2. queue = <<>>
    BY <1>3 DEF SomeoneWaits
  <2>3. Cardinality(holders \ {a}) \in Nat
    BY <1>1, FS_CardinalityType
  <2>4. active' \in Nat /\ active' = Cardinality(holders') /\ active' <= Limit
    BY <2>1, <2>3, <1>1, LimitAssumption
  <2>5. ToSet(queue') = {} /\ IsInjective(queue')
    BY <2>1, <2>2 DEF ToSet, IsInjective
  <2> QED
    BY <2>1, <2>2, <2>4, <2>5, <1>1
<1> QED
  BY <1>2, <1>3

\* The invariant is inductive.
LEMMA SemNextInv == SemInv /\ [SemNext]_semVars => SemInv'
<1> SUFFICES ASSUME SemInv, [SemNext]_semVars PROVE SemInv'
  OBVIOUS
<1>1. CASE SemNext
  BY <1>1, AcquireInv, ReleaseInv DEF SemNext
<1>2. CASE UNCHANGED semVars
  BY <1>2 DEF semVars, SemInv, SemTypeOK, NoOverAdmission, NoIdleSlot, WaitersDistinct,
              Waiting
<1> QED
  BY <1>1, <1>2
-----------------------------------------------------------------------------
(* The semaphore: what it promises *)

\* Every state of the semaphore satisfies the inductive invariant.
THEOREM SemaphoreInvariant == SemSpec => []SemInv
<1>1. SemInit => SemInv
  BY SemInitInv
<1>2. SemInv /\ [SemNext]_semVars => SemInv'
  BY SemNextInv
<1> QED
  BY <1>1, <1>2, PTL DEF SemSpec

\* The variables keep their types, the count of slots a natural number.
THEOREM SemaphoreTypes == SemSpec => []SemTypeOK
<1>1. SemInv => SemTypeOK
  BY DEF SemInv
<1> QED
  BY <1>1, SemaphoreInvariant, PTL

\* No more agents than the limit are admitted at once, the count is theirs, nobody
\* waits while a slot is free, waits twice, or waits for a slot it holds.
THEOREM SemaphoreSlots == SemSpec => []SlotsExact
<1>1. SemInv => SlotsExact
  BY DEF SemInv, SlotsExact
<1> QED
  BY <1>1, SemaphoreInvariant, PTL

\* No release admits a later waiter ahead of an earlier one.
THEOREM SemaphoreOrder == SemSpec => FirstComeFirstServed
<1> DEFINE InOrder == \A i, j \in DOMAIN queue :
                        i < j /\ queue[j] \in holders' => queue[i] \in holders'
<1>1. SemInv /\ [SemNext]_semVars => [InOrder]_semVars
  <2> SUFFICES ASSUME SemInv, SemNext PROVE InOrder
    OBVIOUS
  <2>1. PICK a \in Agents : Acquire(a) \/ Release(a)
    BY DEF SemNext
  <2>2. IsInjective(queue) /\ \A k \in DOMAIN queue : queue[k] \notin holders
    BY DEF SemInv, WaitersDistinct, Waiting, ToSet
  <2>3. CASE Acquire(a)
    BY <2>2, <2>3 DEF Acquire, Waiting, ToSet
  <2>4. CASE Release(a)
    <3>1. \A k \in DOMAIN queue : queue[k] \in holders' => k = 1
      BY <2>2, <2>4 DEF Release, SomeoneWaits, Heir, IsInjective, SemInv, SemTypeOK
    <3>2. DOMAIN queue = 1..Len(queue) /\ Len(queue) \in Nat
      BY DEF SemInv, SemTypeOK
    <3> QED
      BY <3>1, <3>2
  <2> QED
    BY <2>1, <2>3, <2>4
<1> QED
  BY <1>1, SemaphoreInvariant, PTL DEF SemSpec, FirstComeFirstServed
-----------------------------------------------------------------------------
(* The run *)

\* A slot is held or awaited by an agent in flight; a live agent holds one.
SlotsInFlight ==
    /\ holders \subseteq InFlight
    /\ Waiting \subseteq {a \in Agents : agent[a] = "queued"}
    /\ LiveJobs \subseteq holders

\* From where the end record can be written nobody is admitted, and once it is
\* nobody is in flight.
Closed ==
    /\ pc \in {"closing", "failing", "ended"} => finishing
    /\ pc = "ended" => InFlight = {}
    /\ endRecord = None <=> pc # "ended"
    /\ ~late

\* The workflow failed exactly if the catch block was entered for it.
FailedIsKnown ==
    /\ pc = "failing" => failed
    /\ pc \in {"executing", "draining", "drained", "closing"} => ~failed

RunInv ==
    /\ TypeOK
    /\ SemInv
    /\ SlotsInFlight
    /\ Closed
    /\ FailedIsKnown
    /\ CancelledRunEndsInterrupted
    /\ OvershootBounded
-----------------------------------------------------------------------------
(* The bound *)

Bound == (IF Budget = 0 THEN 0 ELSE Budget - 1) + MaxCost * Limit

\* Spending at a fixed price grows with the number of agents.
LEMMA TimesMonotonic ==
    ASSUME NEW m \in Nat, NEW j \in Nat, NEW k \in Nat, j <= k
    PROVE  m * j <= m * k /\ m * j \in Nat /\ m * k \in Nat
  OBVIOUS

\* One agent fewer spends one price less.
LEMMA TimesLess ==
    ASSUME NEW m \in Nat, NEW j \in Nat, j > 0
    PROVE  m * (j - 1) = m * j - m /\ m * j \in Nat
  OBVIOUS

\* The agents live at once are finitely many, at most one per slot.
LEMMA LiveWithinLimit ==
    ASSUME SemInv, SlotsInFlight
    PROVE  /\ IsFiniteSet(LiveJobs)
           /\ Cardinality(LiveJobs) \in Nat
           /\ Cardinality(LiveJobs) <= Limit
<1>1. /\ IsFiniteSet(LiveJobs)
      /\ Cardinality(LiveJobs) <= Cardinality(holders)
  BY FS_Subset DEF SemInv, SlotsInFlight
<1>2. Cardinality(LiveJobs) \in Nat /\ Cardinality(holders) \in Nat
  BY <1>1, FS_CardinalityType DEF SemInv
<1>3. Cardinality(holders) <= Limit
  BY DEF SemInv, NoOverAdmission
<1> QED
  BY <1>1, <1>2, <1>3, LimitAssumption

\* If nobody new is live and nothing more was spent the bound still holds.
LEMMA NobodyNewIsLive ==
    ASSUME TypeOK, SemInv, SlotsInFlight, OvershootBounded,
           LiveJobs' \subseteq LiveJobs, spent' = spent
    PROVE  OvershootBounded'
<1>1. /\ IsFiniteSet(LiveJobs) /\ Cardinality(LiveJobs) \in Nat
  BY LiveWithinLimit
<1>2. /\ Cardinality(LiveJobs') \in Nat
      /\ Cardinality(LiveJobs') <= Cardinality(LiveJobs)
  BY <1>1, FS_Subset, FS_CardinalityType
<1>3. /\ MaxCost * Cardinality(LiveJobs') <= MaxCost * Cardinality(LiveJobs)
      /\ MaxCost * Cardinality(LiveJobs') \in Nat
      /\ MaxCost * Cardinality(LiveJobs) \in Nat
  BY <1>1, <1>2, TimesMonotonic, BudgetAssumption
<1>4. Bound \in Nat
  BY BudgetAssumption, LimitAssumption DEF Bound
<1>5. spent + MaxCost * Cardinality(LiveJobs) <= Bound /\ spent \in Nat
  BY DEF OvershootBounded, Bound, TypeOK
<1>6. spent' + MaxCost * Cardinality(LiveJobs') <= Bound
  BY <1>3, <1>4, <1>5
<1> QED
  BY <1>6 DEF OvershootBounded, Bound

\* An action that touches neither the slots nor the agents nor the spending.
LEMMA AgentsUnmoved ==
    ASSUME RunInv, UNCHANGED <<semVars, agent, spent>>
    PROVE  /\ SemInv' /\ SlotsInFlight' /\ OvershootBounded'
           /\ InFlight' = InFlight /\ LiveJobs' = LiveJobs
<1>1. SemInv'
  BY SemNextInv DEF RunInv
<1>2. InFlight' = InFlight /\ LiveJobs' = LiveJobs
  BY DEF InFlight, LiveJobs
<1>3. SlotsInFlight'
  BY <1>2 DEF RunInv, SlotsInFlight, Waiting, semVars
<1>4. OvershootBounded'
  BY <1>2 DEF RunInv, OvershootBounded
<1> QED
  BY <1>1, <1>2, <1>3, <1>4
-----------------------------------------------------------------------------
(* Every step preserves the invariant *)

\* A run begins with nobody in flight and nothing recorded.
LEMMA InitRunInv == Init => RunInv
<1> SUFFICES ASSUME Init PROVE RunInv
  OBVIOUS
<1>1. SemInv
  BY SemInitInv DEF Init
<1>2. TypeOK
  BY <1>1, BudgetAssumption DEF Init, TypeOK, SemInv, None
<1>3. LiveJobs = {} /\ holders = {} /\ Waiting = {}
  BY DEF Init, LiveJobs, SemInit, Waiting, ToSet
<1>4. SlotsInFlight /\ Closed /\ FailedIsKnown /\ CancelledRunEndsInterrupted
  BY <1>3 DEF Init, SlotsInFlight, Closed, FailedIsKnown, CancelledRunEndsInterrupted,
              Ended, None
<1>5. OvershootBounded
  <2>1. Cardinality(LiveJobs) = 0
    BY <1>3, FS_EmptySet
  <2>2. MaxCost * 0 = 0 /\ MaxCost * Limit \in Nat
    BY BudgetAssumption, LimitAssumption
  <2> QED
    BY <2>1, <2>2, BudgetAssumption DEF OvershootBounded, Init
<1> QED
  BY <1>1, <1>2, <1>4, <1>5 DEF RunInv

\* Asking and answering move no agent; an answer is journaled before the end.
LEMMA QuestionSteps ==
    ASSUME RunInv, NEW q \in Questions, Ask(q) \/ Answer(q)
    PROVE  RunInv'
<1>1. UNCHANGED <<semVars, agent, spent, aborted, finishing, pc, failed, endRecord>>
  BY DEF Ask, Answer, AppendRecord, journal
<1>2. SemInv' /\ SlotsInFlight' /\ OvershootBounded' /\ InFlight' = InFlight
  BY <1>1, AgentsUnmoved
<1>3. TypeOK'
  <2>1. SemTypeOK'
    BY <1>2 DEF SemInv
  <2>2. CASE Ask(q)
    BY <2>1, <2>2 DEF RunInv, TypeOK, Ask, Working, journal, None
  <2>3. CASE Answer(q)
    BY <2>1, <2>3 DEF RunInv, TypeOK, Answer, AppendRecord, None
  <2> QED
    BY <2>2, <2>3
<1>4. Closed'
  <2>1. ~late'
    BY DEF Ask, Answer, AppendRecord, journal, RunInv, Closed
  <2> QED
    BY <1>1, <1>2, <2>1 DEF RunInv, Closed
<1>5. FailedIsKnown' /\ CancelledRunEndsInterrupted'
  BY <1>1 DEF RunInv, FailedIsKnown, CancelledRunEndsInterrupted, Ended
<1> QED
  BY <1>2, <1>3, <1>4, <1>5 DEF RunInv

\* A cancellation marks agents and rejects questions, nothing else.
LEMMA CancelSteps ==
    ASSUME RunInv, Abort \/ \E a \in Agents : CancelAgent(a)
    PROVE  RunInv'
<1>1. /\ UNCHANGED <<semVars, agent, spent, finishing, pc, failed, endRecord, late>>
      /\ pc # "ended"
  BY DEF Abort, CancelAgent, journal
<1>2. SemInv' /\ SlotsInFlight' /\ OvershootBounded' /\ InFlight' = InFlight
  BY <1>1, AgentsUnmoved
<1>3. TypeOK'
  <2>1. SemTypeOK'
    BY <1>2 DEF SemInv
  <2>2. CASE Abort
    BY <2>1, <2>2 DEF RunInv, TypeOK, Abort, RejectQuestions, LiveJobs, journal, None
  <2>3. CASE \E a \in Agents : CancelAgent(a)
    BY <2>1, <2>3 DEF RunInv, TypeOK, CancelAgent, journal, None
  <2> QED
    BY <2>2, <2>3
<1>4. Closed' /\ FailedIsKnown' /\ CancelledRunEndsInterrupted'
  BY <1>1, <1>2
     DEF RunInv, Closed, FailedIsKnown, CancelledRunEndsInterrupted, Ended
<1> QED
  BY <1>2, <1>3, <1>4 DEF RunInv

\* The way to the end closes the lifecycle before the last drain.
LEMMA ClosingSteps ==
    ASSUME RunInv, WorkflowReturns \/ WorkflowThrows \/ DrainReturns \/ CloseLifecycle
    PROVE  RunInv'
<1> USE DEF WorkflowReturns, WorkflowThrows, EnterFailing, DrainReturns, CloseLifecycle,
            Working, journal
<1>1. /\ UNCHANGED <<semVars, agent, spent, aborted, question, blockedOn, askedLate,
                     endRecord, late>>
      /\ pc # "ended" /\ pc' # "ended"
  OBVIOUS
<1>2. SemInv' /\ SlotsInFlight' /\ OvershootBounded'
  BY <1>1, AgentsUnmoved
<1>3. TypeOK'
  <2>1. SemTypeOK'
    BY <1>2 DEF SemInv
  <2>2. cancelled' \subseteq Agents /\ finishing' \in BOOLEAN /\ failed' \in BOOLEAN
    BY DEF RunInv, TypeOK, LiveJobs
  <2>3. pc' \in {"draining", "drained", "closing", "failing"}
    OBVIOUS
  <2> QED
    BY <1>1, <2>1, <2>2, <2>3 DEF RunInv, TypeOK
<1>4. Closed'
  BY <1>1 DEF RunInv, Closed
<1>5. FailedIsKnown' /\ CancelledRunEndsInterrupted'
  BY <1>1 DEF RunInv, FailedIsKnown, CancelledRunEndsInterrupted, Ended
<1> QED
  BY <1>2, <1>3, <1>4, <1>5 DEF RunInv

\* The end record is written when nobody is in flight, and says how the run ended.
LEMMA EndStep ==
    ASSUME RunInv, End
    PROVE  RunInv'
<1> USE DEF End
<1>1. UNCHANGED <<semVars, agent, cancelled, spent, question, blockedOn, aborted, failed,
                  askedLate>>
  OBVIOUS
<1>2. SemInv' /\ SlotsInFlight' /\ OvershootBounded' /\ InFlight' = InFlight
  BY <1>1, AgentsUnmoved
<1>3. /\ pc \in {"closing", "failing"} /\ pc' = "ended" /\ finishing' = TRUE
      /\ InFlight = {}
      /\ late' = FALSE
      /\ endRecord = None
  BY DEF Quiet, RunInv, Closed
<1>4. endRecord' = IF aborted THEN "interrupted"
                   ELSE IF failed THEN "failed" ELSE "completed"
  BY <1>3 DEF EndsCompleted, RunInv, FailedIsKnown
<1>5. TypeOK'
  <2>1. SemTypeOK'
    BY <1>2 DEF SemInv
  <2> QED
    BY <1>1, <1>3, <1>4, <2>1 DEF RunInv, TypeOK
<1>6. Closed' /\ FailedIsKnown'
  BY <1>2, <1>3, <1>4 DEF Closed, FailedIsKnown, None
<1>7. CancelledRunEndsInterrupted'
  BY <1>1, <1>4 DEF CancelledRunEndsInterrupted
<1> QED
  BY <1>2, <1>5, <1>6, <1>7 DEF RunInv

\* agent(): a newcomer is refused or joins the semaphore.
LEMMA CallStep ==
    ASSUME RunInv, NEW a \in Agents, Call(a)
    PROVE  RunInv'
<1>1. /\ agent[a] = "idle"
      /\ UNCHANGED <<cancelled, spent, question, blockedOn, aborted, finishing, pc,
                     failed, endRecord, late, askedLate>>
  BY DEF Call, journal
<1>2. SemInv'
  BY AcquireInv, SemNextInv DEF Call, RunInv
<1>3. TypeOK'
  <2>1. agent' \in [Agents -> {"idle", "queued", "running"} \cup Settled]
    BY DEF Call, RunInv, TypeOK, Settled
  <2>2. SemTypeOK'
    BY <1>2 DEF SemInv
  <2> QED
    BY <1>1, <2>1, <2>2 DEF RunInv, TypeOK
<1>4. LiveJobs' = LiveJobs /\ InFlight \subseteq InFlight'
  BY <1>1 DEF Call, LiveJobs, InFlight, RunInv, TypeOK
<1>5. OvershootBounded'
  BY <1>1, <1>4, NobodyNewIsLive DEF RunInv
<1>6. SlotsInFlight'
  <2>1. CASE Refuses
    <3>1. UNCHANGED semVars /\ agent' = [agent EXCEPT ![a] = "refused"]
      BY <2>1 DEF Call
    <3>2. a \notin Waiting
      BY <1>1 DEF RunInv, SlotsInFlight
    <3>3. Waiting' = Waiting /\ holders' = holders
      BY <3>1 DEF Waiting, semVars
    <3> QED
      BY <1>4, <3>1, <3>2, <3>3 DEF RunInv, TypeOK, SlotsInFlight
  <2>2. CASE ~Refuses
    <3>1. Acquire(a) /\ agent' = [agent EXCEPT ![a] = "queued"]
      BY <2>2 DEF Call
    <3>2. a \in InFlight' /\ agent'[a] = "queued"
      BY <3>1 DEF RunInv, TypeOK, InFlight
    <3>3. holders' \subseteq holders \cup {a} /\ holders \subseteq holders'
      BY <3>1 DEF Acquire
    <3>4. Waiting' \subseteq Waiting \cup {a}
      <4>1. queue' = queue \/ queue' = Append(queue, a)
        BY <3>1 DEF Acquire
      <4>2. a \notin Waiting /\ queue \in Seq(Agents) /\ IsInjective(queue)
        BY <3>1 DEF Acquire, RunInv, SemInv, SemTypeOK, WaitersDistinct
      <4>3. ToSet(Append(queue, a)) = ToSet(queue) \cup {a}
        BY <4>2, AppendDistinct DEF Waiting
      <4>4. CASE queue' = queue
        BY <4>4, Zenon DEF Waiting
      <4>5. CASE queue' = Append(queue, a)
        <5>1. Waiting' = ToSet(Append(queue, a))
          BY <4>5, Zenon DEF Waiting, ToSet
        <5> QED
          BY <4>3, <5>1 DEF Waiting
      <4> QED
        BY <4>1, <4>4, <4>5
    <3>5. \A b \in Waiting : agent'[b] = "queued"
      BY <3>1, <1>1 DEF RunInv, TypeOK, SlotsInFlight
    <3> QED
      BY <1>4, <3>2, <3>3, <3>4, <3>5 DEF RunInv, SlotsInFlight
  <2> QED
    BY <2>1, <2>2
<1>7. Closed'
  <2>1. pc = "ended" => InFlight' = InFlight
    BY <1>1 DEF Call, Refuses, RunInv, Closed, TypeOK, InFlight
  <2> QED
    BY <1>1, <2>1 DEF RunInv, Closed
<1>8. FailedIsKnown' /\ CancelledRunEndsInterrupted'
  BY <1>1 DEF RunInv, FailedIsKnown, CancelledRunEndsInterrupted, Ended
<1> QED
  BY <1>2, <1>3, <1>5, <1>6, <1>7, <1>8 DEF RunInv

\* The budget is looked at again once the slot is granted: what is spent by then
\* is below it, and every live agent holds a slot.
LEMMA AdmitStep ==
    ASSUME RunInv, NEW a \in Agents, Admit(a)
    PROVE  RunInv'
<1>1. /\ agent[a] = "queued" /\ a \in holders
      /\ ~finishing /\ spent < Budget
      /\ agent' = [agent EXCEPT ![a] = "running"]
      /\ UNCHANGED <<semVars, cancelled, spent, question, blockedOn, aborted, finishing,
                     pc, failed, endRecord, askedLate>>
  BY DEF Admit, Admissible, Refuses, BudgetLeft, AppendRecord
<1>2. SemInv'
  BY <1>1, SemNextInv DEF RunInv
<1>3. pc # "ended"
  BY <1>1 DEF RunInv, Closed
<1>4. late' = FALSE
  BY <1>3 DEF Admit, AppendRecord, RunInv, Closed
<1>5. TypeOK'
  <2>1. agent' \in [Agents -> {"idle", "queued", "running"} \cup Settled]
    BY <1>1 DEF RunInv, TypeOK
  <2>2. SemTypeOK'
    BY <1>2 DEF SemInv
  <2> QED
    BY <1>1, <1>4, <2>1, <2>2 DEF RunInv, TypeOK
<1>6. InFlight' = InFlight /\ LiveJobs' = LiveJobs \cup {a}
  BY <1>1 DEF InFlight, LiveJobs, RunInv, TypeOK
<1>7. SlotsInFlight'
  <2>1. a \notin Waiting /\ Waiting' = Waiting /\ holders' = holders
    BY <1>1 DEF RunInv, SemInv, WaitersDistinct, Waiting, semVars
  <2> QED
    BY <1>1, <1>6, <2>1 DEF RunInv, SlotsInFlight, TypeOK
<1>8. Closed' /\ FailedIsKnown' /\ CancelledRunEndsInterrupted'
  BY <1>1, <1>3, <1>4
     DEF RunInv, Closed, FailedIsKnown, CancelledRunEndsInterrupted, Ended
<1>9. OvershootBounded'
  <2>1. Cardinality(LiveJobs') \in Nat /\ Cardinality(LiveJobs') <= Limit
    <3>1. LiveJobs' \subseteq holders /\ IsFiniteSet(holders)
      BY <1>1, <1>6 DEF RunInv, SemInv, SlotsInFlight
    <3>2. /\ IsFiniteSet(LiveJobs') /\ Cardinality(LiveJobs') \in Nat
          /\ Cardinality(LiveJobs') <= Cardinality(holders)
          /\ Cardinality(holders) \in Nat
      BY <3>1, FS_Subset, FS_CardinalityType
    <3>3. Cardinality(holders) <= Limit
      BY DEF RunInv, SemInv, NoOverAdmission
    <3> QED
      BY <3>2, <3>3, LimitAssumption
  <2>2. MaxCost * Cardinality(LiveJobs') <= MaxCost * Limit
        /\ MaxCost * Cardinality(LiveJobs') \in Nat /\ MaxCost * Limit \in Nat
    BY <2>1, TimesMonotonic, BudgetAssumption, LimitAssumption
  <2>3. spent \in Nat /\ spent <= Budget - 1 /\ Budget # 0
    BY <1>1, BudgetAssumption DEF RunInv, TypeOK
  <2>4. spent' + MaxCost * Cardinality(LiveJobs') <= (Budget - 1) + MaxCost * Limit
    BY <1>1, <2>2, <2>3, BudgetAssumption
  <2> QED
    BY <2>3, <2>4 DEF OvershootBounded
<1> QED
  BY <1>2, <1>5, <1>7, <1>8, <1>9 DEF RunInv

\* What a release does to the slots, whoever gets the one that is given back.
LEMMA ReleaseSlots ==
    ASSUME SemInv, NEW a \in Agents, Release(a)
    PROVE  /\ a \in holders /\ a \notin holders'
           /\ holders' \subseteq (holders \ {a}) \cup Waiting
           /\ holders \ {a} \subseteq holders'
           /\ Waiting' \subseteq Waiting
<1>1. /\ queue \in Seq(Agents) /\ IsInjective(queue) /\ Waiting \cap holders = {}
  BY DEF SemInv, SemTypeOK, WaitersDistinct
<1>2. CASE SomeoneWaits
  <2>1. /\ queue # <<>> /\ queue' = Tail(queue)
        /\ holders' = (holders \ {a}) \cup {Head(queue)}
    BY <1>2 DEF Release, SomeoneWaits, Rest, Heir
  <2>2. Waiting' = Waiting \ {Head(queue)} /\ Head(queue) \in Waiting
    BY <1>1, <2>1, TailDistinct DEF Waiting
  <2> QED
    BY <1>1, <2>1, <2>2 DEF Release
<1>3. CASE ~SomeoneWaits
  BY <1>3 DEF Release, Waiting
<1> QED
  BY <1>2, <1>3

\* An agent in flight that holds a slot leaves for good and gives the slot back.
LEMMA LeaveSlots ==
    ASSUME RunInv, NEW a \in Agents, Release(a),
           NEW how \in Settled, agent' = [agent EXCEPT ![a] = how]
    PROVE  /\ SemInv' /\ SlotsInFlight'
           /\ agent' \in [Agents -> {"idle", "queued", "running"} \cup Settled]
           /\ LiveJobs' = LiveJobs \ {a} /\ InFlight' = InFlight \ {a}
<1>1. SemInv'
  BY ReleaseInv DEF RunInv
<1>2. how \notin {"idle", "queued", "running"}
  BY DEF Settled
<1>3. agent' \in [Agents -> {"idle", "queued", "running"} \cup Settled]
  BY DEF RunInv, TypeOK
<1>4. LiveJobs' = LiveJobs \ {a} /\ InFlight' = InFlight \ {a}
  BY <1>2 DEF RunInv, TypeOK, LiveJobs, InFlight
<1>5. /\ a \in holders /\ a \notin holders'
      /\ holders' \subseteq (holders \ {a}) \cup Waiting
      /\ holders \ {a} \subseteq holders'
      /\ Waiting' \subseteq Waiting
  BY ReleaseSlots DEF RunInv
<1>6. a \notin Waiting
  BY <1>5 DEF RunInv, SemInv, WaitersDistinct
<1>7. \A b \in Waiting : agent[b] = "queued" /\ agent'[b] = "queued" /\ b \in InFlight
  BY <1>6 DEF RunInv, TypeOK, SlotsInFlight, InFlight
<1>8. holders' \subseteq InFlight'
  BY <1>4, <1>5, <1>6, <1>7 DEF RunInv, SlotsInFlight
<1>9. Waiting' \subseteq {b \in Agents : agent'[b] = "queued"}
  BY <1>5, <1>7 DEF RunInv, SlotsInFlight
<1>10. LiveJobs' \subseteq holders'
  BY <1>4, <1>5 DEF RunInv, SlotsInFlight
<1>11. SlotsInFlight'
  BY <1>8, <1>9, <1>10 DEF SlotsInFlight
<1> QED
  BY <1>1, <1>3, <1>4, <1>11

\* An agent refused after it got its slot gives the slot back.
LEMMA RefuseStep ==
    ASSUME RunInv, NEW a \in Agents, RefuseAdmission(a)
    PROVE  RunInv'
<1>1. /\ agent' = [agent EXCEPT ![a] = "refused"] /\ "refused" \in Settled
      /\ Release(a) /\ agent[a] = "queued"
      /\ UNCHANGED <<cancelled, spent, question, blockedOn, aborted, finishing, pc,
                     failed, endRecord, late, askedLate>>
  BY DEF RefuseAdmission, Settled, journal
<1>2. /\ SemInv' /\ SlotsInFlight'
      /\ agent' \in [Agents -> {"idle", "queued", "running"} \cup Settled]
      /\ LiveJobs' = LiveJobs \ {a} /\ InFlight' = InFlight \ {a}
  BY <1>1, LeaveSlots
<1>3. TypeOK'
  BY <1>1, <1>2 DEF RunInv, TypeOK, SemInv
<1>4. Closed' /\ FailedIsKnown' /\ CancelledRunEndsInterrupted'
  BY <1>1, <1>2 DEF RunInv, Closed, FailedIsKnown, CancelledRunEndsInterrupted, Ended
<1>5. OvershootBounded'
  BY <1>1, <1>2, NobodyNewIsLive DEF RunInv
<1> QED
  BY <1>2, <1>3, <1>4, <1>5 DEF RunInv

\* What an agent spends it was entitled to while it was live.
LEMMA FinishStep ==
    ASSUME RunInv, NEW a \in Agents, Finish(a)
    PROVE  RunInv'
<1>1. PICK how \in {"done", "failed"}, cost \in 0..MaxCost :
        agent' = [agent EXCEPT ![a] = how] /\ spent' = spent + cost
  BY DEF Finish
<1>2. /\ agent[a] = "running" /\ Release(a) /\ how \in Settled
      /\ UNCHANGED <<cancelled, question, blockedOn, aborted, finishing, pc, failed,
                     endRecord, askedLate>>
  BY DEF Finish, AppendRecord, Settled
<1>3. a \in LiveJobs /\ a \in InFlight
  BY <1>2 DEF LiveJobs, InFlight
<1>4. /\ SemInv' /\ SlotsInFlight'
      /\ agent' \in [Agents -> {"idle", "queued", "running"} \cup Settled]
      /\ LiveJobs' = LiveJobs \ {a} /\ InFlight' = InFlight \ {a}
  BY <1>1, <1>2, LeaveSlots
<1>5. pc # "ended"
  BY <1>3 DEF RunInv, Closed
<1>6. late' = FALSE
  BY <1>5 DEF Finish, AppendRecord, RunInv, Closed
<1>7. TypeOK'
  <2>1. spent' \in Nat
    BY <1>1, BudgetAssumption DEF RunInv, TypeOK
  <2> QED
    BY <1>2, <1>4, <1>6, <2>1 DEF RunInv, TypeOK, SemInv
<1>8. Closed' /\ FailedIsKnown' /\ CancelledRunEndsInterrupted'
  BY <1>2, <1>4, <1>5, <1>6
     DEF RunInv, Closed, FailedIsKnown, CancelledRunEndsInterrupted, Ended
<1>9. OvershootBounded'
  <2>1. IsFiniteSet(LiveJobs) /\ Cardinality(LiveJobs) \in Nat
    BY LiveWithinLimit DEF RunInv
  <2>2. Cardinality(LiveJobs') = Cardinality(LiveJobs) - 1 /\ Cardinality(LiveJobs) > 0
    <3>1. Cardinality(LiveJobs') = Cardinality(LiveJobs) - 1
      BY <1>3, <1>4, <2>1, FS_RemoveElement
    <3>2. Cardinality(LiveJobs) # 0
      BY <1>3, <2>1, FS_EmptySet
    <3> QED
      BY <2>1, <3>1, <3>2
  <2>3. MaxCost * Cardinality(LiveJobs') = MaxCost * Cardinality(LiveJobs) - MaxCost
        /\ MaxCost * Cardinality(LiveJobs) \in Nat
    BY <2>1, <2>2, TimesLess, BudgetAssumption
  <2>4. Bound \in Nat /\ spent \in Nat
    BY BudgetAssumption, LimitAssumption DEF Bound, RunInv, TypeOK
  <2>5. spent + MaxCost * Cardinality(LiveJobs) <= Bound
    BY DEF RunInv, OvershootBounded, Bound
  <2>6. spent' + MaxCost * Cardinality(LiveJobs') <= Bound
    BY <1>1, <2>3, <2>4, <2>5, BudgetAssumption
  <2> QED
    BY <2>6 DEF OvershootBounded, Bound
<1> QED
  BY <1>4, <1>7, <1>8, <1>9 DEF RunInv

\* Whatever happens outside the run changes nothing of it.
LEMMA StutterStep ==
    ASSUME RunInv, UNCHANGED vars
    PROVE  RunInv'
<1>1. SemInv' /\ SlotsInFlight' /\ OvershootBounded' /\ InFlight' = InFlight
  BY AgentsUnmoved DEF vars, runVars
<1>2. TypeOK'
  BY <1>1 DEF RunInv, TypeOK, SemInv, vars, runVars
<1>3. Closed' /\ FailedIsKnown' /\ CancelledRunEndsInterrupted'
  BY <1>1 DEF RunInv, Closed, FailedIsKnown, CancelledRunEndsInterrupted, Ended, vars, runVars
<1> QED
  BY <1>1, <1>2, <1>3 DEF RunInv

\* The invariant is inductive.
LEMMA NextRunInv == RunInv /\ [Next]_vars => RunInv'
<1> SUFFICES ASSUME RunInv, [Next]_vars PROVE RunInv'
  OBVIOUS
<1>1. CASE \E a \in Agents : Call(a) \/ Finish(a)
  BY <1>1, CallStep, FinishStep
<1>2. CASE AgentStep
  BY <1>2, AdmitStep, RefuseStep DEF AgentStep
<1>3. CASE (\E q \in Questions : Ask(q)) \/ Operator
  BY <1>3, QuestionSteps, CancelSteps DEF Operator
<1>4. CASE WorkflowSettles \/ EngineStep
  BY <1>4, ClosingSteps, EndStep DEF WorkflowSettles, EngineStep
<1>5. CASE UNCHANGED vars
  BY <1>5, StutterStep
<1> QED
  BY <1>1, <1>2, <1>3, <1>4, <1>5 DEF Next
-----------------------------------------------------------------------------
(* What a reader should know of *)

\* Every state of a run satisfies the inductive invariant.
THEOREM RunInvariant == Spec => []RunInv
<1>1. Init => RunInv
  BY InitRunInv
<1>2. RunInv /\ [Next]_vars => RunInv'
  BY NextRunInv
<1> QED
  BY <1>1, <1>2, PTL DEF Spec

\* The variables keep their types.
THEOREM RunTypes == Spec => []TypeOK
<1>1. RunInv => TypeOK
  BY DEF RunInv
<1> QED
  BY <1>1, RunInvariant, PTL

\* The end record is the last record of the attempt and nobody is left behind it.
THEOREM EndIsLast == Spec => []NothingOutlivesTheEnd
<1>1. RunInv => NothingOutlivesTheEnd
  <2> SUFFICES ASSUME RunInv PROVE NothingOutlivesTheEnd
    OBVIOUS
  <2>1. ~late /\ (Ended => InFlight = {})
    BY DEF RunInv, Closed, Ended
  <2>2. InFlight = {} => active = 0
    BY FS_EmptySet DEF RunInv, SlotsInFlight, SemInv, NoOverAdmission
  <2> QED
    BY <2>1, <2>2 DEF NothingOutlivesTheEnd
<1> QED
  BY <1>1, RunInvariant, PTL

\* A run that was cancelled before its end ends interrupted.
THEOREM CancelledEnds == Spec => []CancelledRunEndsInterrupted
<1>1. RunInv => CancelledRunEndsInterrupted
  BY DEF RunInv
<1> QED
  BY <1>1, RunInvariant, PTL

\* The budget is overshot by less than one agent's spending per slot.
THEOREM BudgetOvershoot == Spec => []OvershootBounded
<1>1. RunInv => OvershootBounded
  BY DEF RunInv
<1> QED
  BY <1>1, RunInvariant, PTL

\* Once the run is cancelled or closing no agent becomes live.
THEOREM ClosedAdmitsNobody == Spec => NothingStartsOnceClosed
<1>1. RunInv /\ [Next]_vars => [Refuses => LiveJobs' \subseteq LiveJobs]_vars
  <2> SUFFICES ASSUME RunInv, Next, Refuses PROVE LiveJobs' \subseteq LiveJobs
    OBVIOUS
  <2>1. ASSUME NEW a \in Agents, Call(a) \/ Finish(a)
        PROVE  LiveJobs' \subseteq LiveJobs
    BY <2>1 DEF Call, Finish, LiveJobs, RunInv, TypeOK
  <2>2. ASSUME NEW a \in Agents, Admit(a) \/ RefuseAdmission(a)
        PROVE  LiveJobs' \subseteq LiveJobs
    BY <2>2 DEF Admit, Admissible, RefuseAdmission, LiveJobs, RunInv, TypeOK
  <2>3. CASE (\E q \in Questions : Ask(q)) \/ Operator
    BY <2>3 DEF Ask, Operator, Abort, CancelAgent, Answer, LiveJobs
  <2>4. CASE WorkflowSettles \/ EngineStep
    BY <2>4 DEF WorkflowSettles, WorkflowReturns, WorkflowThrows, EngineStep, DrainReturns,
                CloseLifecycle, End, LiveJobs
  <2> QED
    BY <2>1, <2>2, <2>3, <2>4 DEF Next, AgentStep
<1> QED
  BY <1>1, RunInvariant, PTL DEF Spec, NothingStartsOnceClosed

\* A run uses its semaphore as the semaphore's own specification says: every step
\* of a run is a step of the semaphore or leaves it alone.
THEOREM RunUsesSemaphore == Spec => SemSpec
<1>1. Init => SemInit
  BY DEF Init
<1>2. [Next]_vars => [SemNext]_semVars
  <2> SUFFICES ASSUME Next PROVE SemNext \/ UNCHANGED semVars
    BY DEF vars
  <2>1. ASSUME NEW a \in Agents, Call(a) \/ Finish(a) \/ Admit(a) \/ RefuseAdmission(a)
        PROVE  SemNext \/ UNCHANGED semVars
    BY <2>1 DEF Call, Finish, Admit, RefuseAdmission, SemNext
  <2>2. CASE (\E q \in Questions : Ask(q)) \/ Operator
    BY <2>2 DEF Ask, Operator, Abort, CancelAgent, Answer
  <2>3. CASE WorkflowSettles \/ EngineStep
    BY <2>3 DEF WorkflowSettles, WorkflowReturns, WorkflowThrows, EngineStep, DrainReturns,
                CloseLifecycle, End
  <2> QED
    BY <2>1, <2>2, <2>3 DEF Next, AgentStep
<1> QED
  BY <1>1, <1>2, PTL DEF Spec, SemSpec
-----------------------------------------------------------------------------
(* Nobody waits for nobody: the argument of CancelledRunEndsUnlessAsking, but *)
(* for fairness                                                               *)

\* The run itself can go on: the engine has a step to take, or the workflow runs.
CanGoOn ==
    \/ \E a \in Agents : agent[a] = "queued" /\ a \in holders
    \/ Working
    \/ pc = "drained"
    \/ pc \in {"draining", "closing", "failing"} /\ InFlight = {}

\* A run that cannot waits for a provider or for its operator.
NoDeadlock == ~Ended => CanGoOn \/ LiveJobs # {} \/ blockedOn # None

\* A cancelled one waits for the operator no more, and only for agents that were told so.
CancelledGoesOn == aborted /\ ~askedLate /\ ~Ended => CanGoOn \/ LiveJobs \cap cancelled # {}

\* Nobody in flight was forgotten by the semaphore; a cancellation reached everybody.
Reached ==
    /\ InFlight \subseteq holders \cup Waiting
    /\ aborted => LiveJobs \subseteq cancelled
    /\ aborted /\ ~askedLate => blockedOn = None

LEMMA NobodyForgotten ==
    ASSUME RunInv, Reached, NEW a \in Agents, Call(a) \/ Admit(a) \/ RefuseAdmission(a) \/ Finish(a)
    PROVE  InFlight' \subseteq holders' \cup Waiting'
<1>0. /\ agent \in [Agents -> {"idle", "queued", "running"} \cup Settled]
      /\ queue \in Seq(Agents) /\ IsInjective(queue)
  BY DEF RunInv, TypeOK, SemInv, SemTypeOK, WaitersDistinct
<1>1. CASE Call(a)
  <2>1. CASE UNCHANGED semVars /\ agent' = [agent EXCEPT ![a] = "refused"]
    BY <1>0, <2>1 DEF Reached, InFlight, semVars, Waiting
  <2>2. CASE Acquire(a) /\ agent' = [agent EXCEPT ![a] = "queued"]
    <3>1. InFlight' \subseteq InFlight \cup {a}
      BY <1>0, <2>2 DEF InFlight
    <3>2. holders \cup Waiting \cup {a} \subseteq holders' \cup Waiting'
      <4>1. CASE HasFreeSlot
        BY <2>2, <4>1 DEF Acquire, Waiting
      <4>2. CASE ~HasFreeSlot
        <5>1. queue' = Append(queue, a) /\ UNCHANGED holders /\ a \notin ToSet(queue)
          BY <2>2, <4>2 DEF Acquire, Waiting
        <5>2. ToSet(queue') = ToSet(queue) \cup {a}
          BY <1>0, <5>1, AppendDistinct
        <5> QED
          BY <5>1, <5>2 DEF Waiting
      <4> QED
        BY <4>1, <4>2
    <3> QED
      BY <3>1, <3>2 DEF Reached
  <2> QED
    BY <1>1, <2>1, <2>2 DEF Call
<1>2. CASE Admit(a)
  <2>1. InFlight' \subseteq InFlight
    BY <1>0, <1>2 DEF Admit, InFlight
  <2> QED
    BY <1>2, <2>1 DEF Admit, Reached, semVars, Waiting
<1>3. CASE RefuseAdmission(a) \/ Finish(a)
  <2>1. PICK how \in Settled : agent' = [agent EXCEPT ![a] = how]
    BY <1>3 DEF RefuseAdmission, Finish, Settled
  <2>2. Release(a)
    BY <1>3 DEF RefuseAdmission, Finish
  <2>3. InFlight' = InFlight \ {a}
    BY <2>1, <2>2, LeaveSlots
  <2>4. (holders \cup Waiting) \ {a} \subseteq holders' \cup Waiting'
    <3>1. CASE SomeoneWaits
      BY <1>0, <2>2, <3>1, TailDistinct DEF Release, SomeoneWaits, Waiting, Heir, Rest
    <3>2. CASE ~SomeoneWaits
      BY <2>2, <3>2 DEF Release, Waiting
    <3> QED
      BY <3>1, <3>2
  <2> QED
    BY <2>3, <2>4 DEF Reached
<1> QED
  BY <1>1, <1>2, <1>3

LEMMA ReachedStep == RunInv /\ Reached /\ [Next]_vars => Reached'
<1> SUFFICES ASSUME RunInv, Reached, [Next]_vars PROVE Reached'
  OBVIOUS
<1>0. agent \in [Agents -> {"idle", "queued", "running"} \cup Settled]
  BY DEF RunInv, TypeOK
<1>1. ASSUME NEW a \in Agents, Call(a) \/ Admit(a) \/ RefuseAdmission(a) \/ Finish(a) PROVE Reached'
  <2>1. InFlight' \subseteq holders' \cup Waiting'
    BY <1>1, NobodyForgotten
  <2>2. /\ UNCHANGED <<cancelled, aborted, askedLate, blockedOn>>
        /\ aborted => LiveJobs' \subseteq LiveJobs
    BY <1>0, <1>1 DEF Call, Admit, Admissible, Refuses, RefuseAdmission, Finish, LiveJobs
  <2> QED
    BY <2>1, <2>2 DEF Reached
<1>2. CASE ((\E q \in Questions : Ask(q)) \/ Operator \/ WorkflowSettles \/ EngineStep \/ UNCHANGED vars)
  <2>1. UNCHANGED <<semVars, agent>>
    BY <1>2 DEF Ask, Operator, Abort, CancelAgent, Answer, WorkflowSettles, WorkflowReturns, WorkflowThrows,
                EngineStep, DrainReturns, CloseLifecycle, End, vars, runVars
  <2>2. InFlight' = InFlight /\ LiveJobs' = LiveJobs /\ holders' = holders /\ Waiting' = Waiting
    BY <2>1 DEF InFlight, LiveJobs, semVars, Waiting
  <2>3. (aborted => LiveJobs \subseteq cancelled) => (aborted' => LiveJobs \subseteq cancelled')
    BY <1>2 DEF Ask, Operator, Abort, CancelAgent, Answer, WorkflowSettles, WorkflowReturns, WorkflowThrows,
                EnterFailing, EngineStep, DrainReturns, CloseLifecycle, End, vars, runVars
  <2>4. aborted' /\ ~askedLate' => blockedOn' = None
    BY <1>2 DEF Reached, Ask, Operator, Abort, RejectQuestions, CancelAgent, Answer, WorkflowSettles,
                WorkflowReturns, WorkflowThrows, EngineStep, DrainReturns, CloseLifecycle, End, vars, runVars
  <2> QED
    BY <2>2, <2>3, <2>4 DEF Reached
<1> QED
  BY <1>1, <1>2 DEF Next, AgentStep

LEMMA ReachedAlways == Spec => [](RunInv /\ Reached)
<1>1. Init => Reached
  BY DEF Init, Reached, InFlight, LiveJobs
<1> QED
  BY <1>1, ReachedStep, RunInvariant, PTL DEF Spec

\* Somebody in flight is live, or has the slot it asked for: the queue is only long
\* when all slots are taken.
LEMMA SomebodyHolds ==
    ASSUME RunInv, Reached, InFlight # {}
    PROVE  LiveJobs # {} \/ \E a \in Agents : agent[a] = "queued" /\ a \in holders
<1>1. PICK a \in InFlight : TRUE
  OBVIOUS
<1>2. CASE holders # {}
  BY <1>2 DEF RunInv, SlotsInFlight, InFlight, LiveJobs
<1>3. CASE holders = {}
  <2>1. a \in Waiting
    BY <1>1, <1>3 DEF Reached
  <2>2. queue # <<>>
    BY <2>1 DEF Waiting, ToSet
  <2>3. active = Limit /\ active = 0
    BY <1>3, <2>2, FS_EmptySet DEF RunInv, SemInv, NoIdleSlot, NoOverAdmission
  <2> QED
    BY <2>3, LimitAssumption
<1> QED
  BY <1>2, <1>3

\* As long as a run has not ended, the engine or the workflow has a step to take, or a
\* provider works, or a question is pending: queue, slots and drain do not wait for each other.
THEOREM RunNeverDeadlocks == Spec => []NoDeadlock
<1>1. RunInv /\ Reached => NoDeadlock
  <2> SUFFICES ASSUME RunInv, Reached, ~Ended, ~CanGoOn, blockedOn = None PROVE LiveJobs # {}
    BY DEF NoDeadlock
  <2>1. InFlight # {}
    BY DEF CanGoOn, Ended, Working, RunInv, TypeOK
  <2> QED
    BY <2>1, SomebodyHolds DEF CanGoOn
<1> QED
  BY <1>1, ReachedAlways, PTL

\* A cancelled run waits for nothing but agents that were cancelled with it, unless its
\* workflow asks again.
THEOREM CancelledRunGoesOn == Spec => []CancelledGoesOn
<1>1. RunInv /\ Reached => CancelledGoesOn
  <2> SUFFICES ASSUME RunInv, Reached, aborted, ~askedLate, ~Ended, ~CanGoOn PROVE LiveJobs \cap cancelled # {}
    BY DEF CancelledGoesOn
  <2>1. blockedOn = None /\ LiveJobs \subseteq cancelled
    BY DEF Reached
  <2>2. InFlight # {}
    BY <2>1 DEF CanGoOn, Ended, Working, RunInv, TypeOK
  <2>3. LiveJobs # {}
    BY <2>2, SomebodyHolds DEF CanGoOn
  <2> QED
    BY <2>1, <2>3
<1> QED
  BY <1>1, ReachedAlways, PTL
=============================================================================
