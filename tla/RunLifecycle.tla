---------------------------- MODULE RunLifecycle ----------------------------
(***************************************************************************)
(* One engine process runs one workflow (src/engine.js, runWorkflow from   *)
(* the first call of the workflow function to the terminal record): the    *)
(* workflow calls agent() and ask(), agents pass the semaphore and the     *)
(* budget check, an operator answers, cancels an agent or the run, and the *)
(* engine drains what is in flight, closes the lifecycle and journals the  *)
(* end record.                                                             *)
(*                                                                         *)
(* An agent's own work is one step from admission to its result (module    *)
(* AgentJob); a question blocks the workflow until it is answered.  The    *)
(* workflow is any code: it may call agents and ask at any time, also from *)
(* detached callbacks after its function returned, and catch any error.    *)
(***************************************************************************)
EXTENDS Semaphore

CONSTANTS Questions, Budget, MaxCost

ASSUME BudgetAssumption == Budget \in Nat /\ MaxCost \in Nat

VARIABLES
    agent,      \* agent -> "idle", "queued", "running" or how it ended
    cancelled,  \* running agents that were cancelled
    spent,      \* usageTotal.output: charged when an agent ends
    question,   \* question -> "unasked", "pending" or how it ended
    blockedOn,  \* the question the workflow awaits, if any
    aborted,
    finishing,  \* the lifecycle is closing: nothing is admitted any more
    pc,         \* where runWorkflow is parked
    failed,     \* the workflow function threw
    endRecord,  \* the status of the journaled end record, or None
    late,       \* some record was appended after the end record
    askedLate   \* history: the workflow asked a question after the abort

runVars == <<agent, cancelled, spent, question, blockedOn, aborted, finishing,
             pc, failed, endRecord, late, askedLate>>
vars == <<semVars, runVars>>

None == "none"
Settled == {"done", "failed", "refused"}

\* pc: "executing"  the workflow function runs
\*     "draining"   the first drain()          "drained"  it returned
\*     "closing"    the drain() after finishing was set
\*     "failing"    the drain() of the catch block
\*     "ended"      the end record is journaled, the control socket closed
TypeOK ==
    /\ SemTypeOK
    /\ agent \in [Agents -> {"idle", "queued", "running"} \cup Settled]
    /\ cancelled \subseteq Agents
    /\ spent \in Nat
    /\ question \in [Questions -> {"unasked", "pending", "answered", "rejected"}]
    /\ blockedOn \in {None} \cup {q \in Questions : question[q] = "pending"}
    /\ {aborted, finishing, failed} \subseteq BOOLEAN
    /\ pc \in {"executing", "draining", "drained", "closing", "failing", "ended"}
    /\ endRecord \in {None, "completed", "failed", "interrupted"}
    /\ {late, askedLate} \subseteq BOOLEAN

Init ==
    /\ SemInit
    /\ agent = [a \in Agents |-> "idle"]
    /\ cancelled = {} /\ spent = 0
    /\ question = [q \in Questions |-> "unasked"]
    /\ blockedOn = None
    /\ aborted = FALSE /\ finishing = FALSE
    /\ pc = "executing" /\ failed = FALSE
    /\ endRecord = None /\ late = FALSE /\ askedLate = FALSE

journal == <<endRecord, late>>

\* journal.append() of a started, result or answer record.
AppendRecord == late' = (late \/ endRecord # None) /\ UNCHANGED endRecord

\* `live`: the agents whose job exists.  `inFlight`: those whose call is pending.
LiveJobs == {a \in Agents : agent[a] = "running"}
InFlight == {a \in Agents : agent[a] \in {"queued", "running"}}
-----------------------------------------------------------------------------
(* Agents *)

\* agent() and, again after the semaphore, its admission refuse a run that is
\* aborted or closing.
Refuses == aborted \/ finishing

\* The workflow, or code it left behind, calls agent().
Call(a) ==
    /\ agent[a] = "idle"
    /\ \/ /\ Refuses
          /\ agent' = [agent EXCEPT ![a] = "refused"]
          /\ UNCHANGED semVars
       \/ /\ ~Refuses
          /\ agent' = [agent EXCEPT ![a] = "queued"]
          /\ Acquire(a)
    /\ UNCHANGED <<cancelled, spent, question, blockedOn, aborted, finishing,
                   pc, failed, journal, askedLate>>

\* A slip: the budget is not looked at again once a slot is granted.
BudgetLeft_Ignored == TRUE

BudgetLeft == spent < Budget

Admissible == ~Refuses /\ BudgetLeft

\* The slot is granted and the agent's body resumes: it is refused before it
\* exists, or journaled as started and live.
Admit(a) ==
    /\ agent[a] = "queued" /\ a \in holders
    /\ Admissible
    /\ agent' = [agent EXCEPT ![a] = "running"]
    /\ AppendRecord
    /\ UNCHANGED <<semVars, cancelled, spent, question, blockedOn, aborted,
                   finishing, pc, failed, askedLate>>

RefuseAdmission(a) ==
    /\ agent[a] = "queued" /\ a \in holders
    /\ ~Admissible
    /\ agent' = [agent EXCEPT ![a] = "refused"]
    /\ Release(a)
    /\ UNCHANGED <<cancelled, spent, question, blockedOn, aborted, finishing,
                   pc, failed, journal, askedLate>>

\* The job settles: its usage is charged whatever the outcome, its result is
\* journaled, it leaves `live` and returns its slot.  A cancelled job fails.
Finish(a) ==
    /\ agent[a] = "running"
    /\ \E outcome \in {"done", "failed"}, cost \in 0..MaxCost :
          /\ a \in cancelled => outcome = "failed"
          /\ agent' = [agent EXCEPT ![a] = outcome]
          /\ spent' = spent + cost
    /\ AppendRecord
    /\ Release(a)
    /\ UNCHANGED <<cancelled, question, blockedOn, aborted, finishing, pc, failed, askedLate>>
-----------------------------------------------------------------------------
(* Questions *)

Working == pc = "executing" /\ blockedOn = None

\* ask(): a question id is used once.  Nothing here looks at the abort.
Ask(q) ==
    /\ Working /\ question[q] = "unasked"
    /\ question' = [question EXCEPT ![q] = "pending"]
    /\ blockedOn' = q
    /\ askedLate' = (askedLate \/ aborted)
    /\ UNCHANGED <<semVars, agent, cancelled, spent, aborted, finishing, pc,
                   failed, journal>>

\* The operator answers a question that is in pendingQuestions; a rejected one
\* is still listed there.
Answer(q) ==
    /\ pc # "ended" /\ question[q] \in {"pending", "rejected"}
    /\ question' = [question EXCEPT ![q] = "answered"]
    /\ blockedOn' = IF blockedOn = q THEN None ELSE blockedOn
    /\ AppendRecord
    /\ UNCHANGED <<semVars, agent, cancelled, spent, aborted, finishing, pc, failed, askedLate>>
-----------------------------------------------------------------------------
(* Cancelling *)

CancelAgent(a) ==
    /\ pc # "ended" /\ a \in LiveJobs
    /\ cancelled' = cancelled \cup {a}
    /\ UNCHANGED <<semVars, agent, spent, question, blockedOn, aborted,
                   finishing, pc, failed, journal, askedLate>>

\* A slip: the pending questions are left alone.
RejectQuestions_Forgotten == UNCHANGED <<question, blockedOn>>

RejectQuestions ==
    /\ question' = [q \in Questions |->
                      IF question[q] = "pending" THEN "rejected" ELSE question[q]]
    /\ blockedOn' = None

\* abortRun(): the run is cancelled over the control socket or by a signal.
\* Only the first call acts.
Abort ==
    /\ pc # "ended" /\ ~aborted
    /\ aborted' = TRUE
    /\ cancelled' = cancelled \cup LiveJobs
    /\ RejectQuestions
    /\ UNCHANGED <<semVars, agent, spent, finishing, pc, failed, journal, askedLate>>
-----------------------------------------------------------------------------
(* The workflow function settles; the engine drains and ends *)

WorkflowReturns ==
    /\ Working
    /\ pc' = "draining"
    /\ UNCHANGED <<semVars, agent, cancelled, spent, question, blockedOn,
                   aborted, finishing, failed, journal, askedLate>>

\* The catch block: close the lifecycle, cancel what is live, drain.
EnterFailing ==
    /\ finishing' = TRUE
    /\ cancelled' = cancelled \cup LiveJobs
    /\ pc' = "failing"

WorkflowThrows ==
    /\ Working
    /\ failed' = TRUE
    /\ EnterFailing
    /\ UNCHANGED <<semVars, agent, spent, question, blockedOn, aborted, journal, askedLate>>

\* drain() looks again after every settlement; what it returns to runs later.
DrainReturns ==
    /\ pc = "draining" /\ InFlight = {}
    /\ pc' = "drained"
    /\ UNCHANGED <<semVars, agent, cancelled, spent, question, blockedOn,
                   aborted, finishing, failed, journal, askedLate>>

CloseLifecycle ==
    /\ pc = "drained"
    /\ finishing' = TRUE
    /\ pc' = "closing"
    /\ UNCHANGED <<semVars, agent, cancelled, spent, question, blockedOn,
                   aborted, failed, journal, askedLate>>

\* A slip: what joined while the lifecycle closed is not waited for.
Quiet_Assumed == TRUE

Quiet == InFlight = {}

EndsCompleted == pc = "closing" /\ ~aborted

\* The end record, and in the same segment the control socket closes.
End ==
    /\ pc \in {"closing", "failing"} /\ Quiet
    /\ \/ /\ EndsCompleted
          /\ endRecord' = "completed"
       \/ /\ ~EndsCompleted
          /\ endRecord' = IF aborted THEN "interrupted" ELSE "failed"
    /\ finishing' = TRUE
    /\ late' = (late \/ endRecord # None)
    /\ pc' = "ended"
    /\ UNCHANGED <<semVars, agent, cancelled, spent, question, blockedOn,
                   aborted, failed, askedLate>>
-----------------------------------------------------------------------------
AgentStep == \E a \in Agents : Admit(a) \/ RefuseAdmission(a)
WorkflowSettles == WorkflowReturns \/ WorkflowThrows
EngineStep == DrainReturns \/ CloseLifecycle \/ End
Operator == Abort \/ (\E a \in Agents : CancelAgent(a)) \/ (\E q \in Questions : Answer(q))

Next ==
    \/ \E a \in Agents : Call(a) \/ Finish(a)
    \/ \E q \in Questions : Ask(q)
    \/ AgentStep \/ WorkflowSettles \/ EngineStep \/ Operator

\* Continuations run; a cancelled job settles (Settles of AgentJob); the
\* workflow's own code is finite.  Nothing promises an answer from the operator.
Spec ==
    /\ Init /\ [][Next]_vars
    /\ WF_vars(AgentStep) /\ WF_vars(EngineStep) /\ WF_vars(WorkflowSettles)
    /\ \A a \in Agents : WF_vars(a \in cancelled /\ Finish(a))
-----------------------------------------------------------------------------
(* Properties *)

Ended == pc = "ended"
\* The end record is the last of the attempt: no agent that joined late, no
\* answer and no settling job journals past it, and nobody is left behind it.
NothingOutlivesTheEnd == ~late /\ (Ended => InFlight = {} /\ active = 0)

\* A run whose cancellation was acknowledged ends interrupted, never completed
\* nor failed, wherever the cancellation fell in the drain.
CancelledRunEndsInterrupted ==
    Ended => endRecord =
                IF aborted THEN "interrupted" ELSE IF failed THEN "failed" ELSE "completed"

\* The budget is advisory, but the overshoot is bounded: what the admitted agents
\* can still spend never passes the last token below the budget by more than one
\* agent per slot.
OvershootBounded ==
    spent + MaxCost * Cardinality(LiveJobs)
        <= (IF Budget = 0 THEN 0 ELSE Budget - 1) + MaxCost * Limit

\* No agent starts after the run was cancelled or its lifecycle closed.
NothingStartsOnceClosed == [][Refuses => LiveJobs' \subseteq LiveJobs]_vars

\* A cancelled run ends, whatever it was waiting for when it was cancelled, as
\* long as its workflow does not go on to ask another question.
CancelledRunEndsUnlessAsking == aborted ~> (Ended \/ askedLate)

\* "flowition cancel <runId> | Cancel the run" (README.md): it ends.
CancelledRunEnds == aborted ~> Ended
=============================================================================
