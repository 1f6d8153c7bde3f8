--------------------------- MODULE SteeringReplay ---------------------------
(***************************************************************************)
(* Steering mail of one agent across interruptions and resumes of its run  *)
(* (AgentJob.send of src/agent-proc.js with Journal.load of                *)
(* src/journal.js and the sends of src/engine.js).  The workflow is        *)
(* re-executed from its start by every engine, and so are its sends; the   *)
(* journal tells a send that was accepted before the interruption from a   *)
(* new one by sender, call site, text and ordinal.  Mail the workflow      *)
(* meant once must reach the provider's session, and not twice.            *)
(*                                                                         *)
(* A message is its `mail` record, the journal's records and the mailbox   *)
(* are sets: order, write failures and cancellation are in AgentJob.       *)
(* pc says where the engine, and the agent in it, stand:                   *)
(*   "off"       no engine            "waiting"  the agent is not admitted *)
(*   "ready"     the job is being made "turn"    the provider works        *)
(*   "between"   a turn fulfilled     "thrown"   a turn or execute() threw *)
(*   "returned"  execute() fulfilled, its result is not journaled          *)
(*   "settled"   the result record is journaled                            *)
(*   "cached"    the engine found the completed result of an earlier one   *)
(***************************************************************************)
EXTENDS Naturals, Sequences, FiniteSets, SequencesExt

CONSTANTS
    Sites,       \* call sites of the workflow: [sender, callsite]
    Handles,     \* those that send through the handle spawn() returned
    Program,     \* site -> the texts it sends, in order
    None,        \* a sender or call site that is not known
    MaxOperator, \* bound: messages of the operator
    MaxEngines   \* bound: engines started for the run

ASSUME SitesAssumption ==
    /\ Handles \subseteq Sites
    /\ \A s \in Sites : s = [sender |-> s.sender, callsite |-> s.callsite]
    /\ MaxOperator \in Nat /\ MaxEngines \in Nat

VARIABLES
    \* the journal
    mail,        \* `mail` records: [site, seq, text, send, copy]; `send` says which
                 \* send it was, `copy` tells equal ones apart
    done,        \* messages with a `mail-done` record
    dropped,     \* those whose record says dropped
    session,     \* a `session` record exists
    result,      \* the last result record
    \* the provider
    heard,       \* what fulfilled turns brought into the session a resume continues
    left,        \* history: what fulfilled turns brought into threads it left for new ones
    moved,       \* it left one in the running turn
    \* the engine
    pc, engines,
    next,        \* site -> how many of its sends were executed
    queued,      \* the handle's sends that wait for the job
    sendSeq,     \* [sender, callsite] -> wfSendSeq
    delivered, restored, \* what re-sends are absorbed by: messages
    mailQueue, carried,  \* carried: pendingDelivery and liveDelivered
    sessionless,
    acked,       \* history: the sends this engine acknowledged
    declared     \* history: the messages this engine declared dropped

journal == <<mail, done, dropped, session, result>>
mailbox == <<mailQueue, carried, sessionless>>
provider == <<heard, left, moved>>
replay  == <<sendSeq, delivered, restored>>
flow    == <<pc, engines, next, queued>>
history == <<acked, declared>>
vars    == <<journal, provider, flow, replay, mailbox, history>>

Texts    == UNION {ToSet(Program[s]) : s \in Sites}
Operator == [sender |-> None, callsite |-> None, source |-> "operator"]

InLive   == {"ready", "turn", "between", "thrown", "returned"}
HasJob   == InLive \cup {"settled"}

TypeOK ==
    /\ \A m \in mail : m.site \in Sites \cup {Operator} /\ m.seq \in Nat
    /\ dropped \subseteq done /\ done \subseteq mail
    /\ session \in BOOLEAN /\ result \in {None, "failed", "completed"}
    /\ heard \cup left \subseteq mail /\ (moved => pc = "turn")
    /\ pc \in {"off", "waiting", "cached"} \cup HasJob /\ engines \in 0..MaxEngines
    /\ \A s \in Sites : next[s] \in 0..Len(Program[s]) /\ sendSeq[s] \in 0..next[s]
    /\ delivered \cup restored \subseteq mail
    /\ carried # {} => pc = "turn"
    /\ sessionless # {} => pc \in {"between", "thrown", "returned", "settled"} /\ ~session

Init ==
    /\ mail = {} /\ done = {} /\ dropped = {} /\ session = FALSE /\ result = None
    /\ heard = {} /\ left = {} /\ moved = FALSE
    /\ pc = "off" /\ engines = 0
    /\ next = [s \in Sites |-> 0] /\ queued = <<>>
    /\ sendSeq = [s \in Sites |-> 0] /\ delivered = {} /\ restored = {}
    /\ mailQueue = {} /\ carried = {} /\ sessionless = {}
    /\ acked = {} /\ declared = {}
-----------------------------------------------------------------------------
(* AgentJob.send() *)

\* wfMailKey, and the keys a send looks for: as it is, as records without a call
\* site, without a sender, without an ordinal would have it.
Key(r) == <<r.site.sender, r.site.callsite, r.seq, r.text>>
KeysOf(s, n, t) ==
    << <<s.sender, s.callsite, n, t>>, <<s.sender, None, n, t>>,
       <<None, None, n, t>>, <<None, None, None, t>> >>

\* The first of the keys the multiset has, and one message that has it.
Matches(ms, s, n, t) ==
    LET hits == {k \in 1..4 : \E m \in ms : Key(m) = KeysOf(s, n, t)[k]}
    IN  {m \in ms : \E k \in hits : /\ Key(m) = KeysOf(s, n, t)[k]
                                    /\ \A j \in hits : k <= j}

Consume(ms, s, n, t) == ms \ {CHOOSE m \in Matches(ms, s, n, t) : TRUE}

\* A slip: execute() returns without closing the acceptance.
Accepts_UntilSealed == pc \in InLive

Accepts == pc \in InLive \ {"returned"}

\* A new record; into the running turn when the adapter takes it, else the queue.
Accept(record) ==
    /\ LET like == {k \in mail : record = [k EXCEPT !.copy = 0]}
           m    == [record EXCEPT !.copy = Cardinality(like)]
       IN  /\ mail' = mail \cup {m}
           /\ \/ pc = "turn" /\ carried' = carried \cup {m} /\ UNCHANGED mailQueue
              \/ mailQueue' = mailQueue \cup {m} /\ UNCHANGED carried
    /\ UNCHANGED <<done, dropped, session, result, provider, sessionless>>

\* A send of the workflow while the job exists: absorbed by what was delivered, by
\* what was restored, dropped by a settled job, or accepted.
WorkflowSend(s, i) ==
    LET n == sendSeq[s] + 1
        t == Program[s][i]
    IN  /\ sendSeq' = [sendSeq EXCEPT ![s] = n]
        /\ \/ /\ Matches(delivered, s, n, t) # {}
              /\ delivered' = Consume(delivered, s, n, t)
              /\ acked' = acked \cup {<<s, i>>}
              /\ UNCHANGED <<restored, journal, provider, mailbox>>
           \/ /\ Matches(delivered, s, n, t) = {} /\ Matches(restored, s, n, t) # {}
              /\ restored' = Consume(restored, s, n, t)
              /\ acked' = acked \cup {<<s, i>>}
              /\ UNCHANGED <<delivered, journal, provider, mailbox>>
           \/ /\ Matches(delivered \cup restored, s, n, t) = {}
              /\ IF Accepts
                 THEN /\ Accept([site |-> s, seq |-> n, text |-> t, send |-> <<s, i>>, copy |-> 0])
                      /\ acked' = acked \cup {<<s, i>>}
                 ELSE UNCHANGED <<journal, provider, mailbox, acked>>
              /\ UNCHANGED <<delivered, restored>>

\* send() of the operator, over the control socket.
OperatorSend(t) ==
    /\ pc \in InLive \ {"ready"}
    /\ Cardinality({m \in mail : m.site = Operator}) < MaxOperator
    /\ Accepts
    /\ Accept([site |-> Operator, seq |-> 0, text |-> t, send |-> <<Operator, 0>>, copy |-> 0])
    /\ UNCHANGED <<flow, replay, history>>
-----------------------------------------------------------------------------
(* The workflow's sends *)

\* The workflow runs between segments of the engine: not while a job is being made.
Following(s) ==
    /\ pc \notin {"off", "ready"}
    /\ next[s] < Len(Program[s]) /\ next' = [next EXCEPT ![s] = @ + 1]

\* sendTo() finds the job in `live`; without one it returns false and leaves no
\* trace.
SendTo(s) ==
    /\ s \in Sites \ Handles
    /\ Following(s)
    /\ \/ pc \in InLive /\ WorkflowSend(s, next[s] + 1)
       \/ pc \notin InLive /\ UNCHANGED <<journal, provider, replay, mailbox, acked>>
    /\ UNCHANGED <<pc, engines, queued, declared>>

\* The handle's send(): before the job exists the message is kept for it, after the
\* agent was replayed from its result it is dropped.
HandleSend(s) ==
    /\ s \in Handles
    /\ Following(s)
    /\ \/ pc \in HasJob /\ WorkflowSend(s, next[s] + 1) /\ UNCHANGED queued
       \/ /\ pc = "waiting"
          /\ queued' = Append(queued, <<s, next[s] + 1>>)
          /\ UNCHANGED <<journal, provider, replay, mailbox, acked>>
       \/ pc = "cached" /\ UNCHANGED <<queued, journal, provider, replay, mailbox, acked>>
    /\ UNCHANGED <<pc, engines, declared>>

\* onJob(): what the handle kept is sent before the job runs.
Flush ==
    /\ pc = "ready" /\ queued # <<>>
    /\ WorkflowSend(Head(queued)[1], Head(queued)[2])
    /\ queued' = Tail(queued)
    /\ UNCHANGED <<pc, engines, next, declared>>
-----------------------------------------------------------------------------
(* Engines *)

Workflows(ms) == {m \in ms : m.site # Operator}

\* Slips: a drop leaves the message pending, or counts as a delivery; restored mail
\* is not absorbed.
LoadPending_Dropped == mail \ (done \ dropped)
LoadDelivered_Dropped == Workflows(done)
LoadRestored_Forgotten == {}

LoadPending == mail \ done
LoadDelivered == Workflows(done \ dropped)
LoadRestored == Workflows(LoadPending)

\* runWorkflow(): Journal.load, then the workflow from its start.
Start ==
    /\ pc = "off" /\ engines < MaxEngines
    /\ pc' = IF result = "completed" THEN "cached" ELSE "waiting"
    /\ engines' = engines + 1
    /\ next' = [s \in Sites |-> 0] /\ queued' = <<>>
    /\ acked' = {} /\ declared' = {}
    /\ UNCHANGED <<journal, provider, replay, mailbox>>

\* The agent is admitted and its job constructed.
Admit ==
    /\ pc = "waiting"
    /\ pc' = "ready"
    /\ sendSeq' = [s \in Sites |-> 0]
    /\ mailQueue' = LoadPending
    /\ delivered' = LoadDelivered
    /\ restored' = LoadRestored
    /\ UNCHANGED <<journal, provider, engines, next, queued, carried, sessionless, history>>

\* What an engine's memory held is gone.
Gone ==
    /\ pc' = "off"
    /\ mailQueue' = {} /\ carried' = {} /\ sessionless' = {}
    /\ delivered' = {} /\ restored' = {} /\ queued' = <<>>
    /\ sendSeq' = [s \in Sites |-> 0] /\ next' = [s \in Sites |-> 0]
    /\ acked' = {} /\ declared' = {}
    /\ moved' = FALSE
    /\ UNCHANGED engines

\* The engine dies, or ends its run, between two segments.
Stop ==
    /\ pc # "off"
    /\ Gone
    /\ UNCHANGED <<journal, heard, left>>
-----------------------------------------------------------------------------
(* Turns, as far as sessions and records go *)

\* A turn continues the session that is known, or begins one.
BeginTurn(ms) ==
    /\ pc' = "turn"
    /\ carried' = ms /\ mailQueue' = mailQueue \ ms
    /\ heard' = IF session THEN heard ELSE {}
    /\ UNCHANGED <<journal, left, moved, engines, next, queued, replay, sessionless, history>>

Execute ==
    /\ \/ pc = "ready" /\ queued = <<>>
       \/ pc = "thrown" /\ sessionless = {}
    /\ BeginTurn({})

\* A session is assigned before the first turn, or reported during one: the first,
\* or a new thread in place of the one that is known.  The new thread may continue
\* the history of the old, or begin without it.
SessionEvent ==
    /\ session' = TRUE
    /\ \/ pc = "ready" /\ ~session /\ heard' = {} /\ UNCHANGED <<left, moved>>
       \/ pc = "turn" /\ UNCHANGED provider
       \/ pc = "turn" /\ session /\ heard' = {} /\ left' = left \cup heard /\ moved' = TRUE
    /\ UNCHANGED <<mail, done, dropped, result, flow, replay, mailbox, history>>

\* Slips: what a turn delivered is marked done although no session is known, or
\* stashed although it is marked.
RecordDelivery_Always ==
    /\ done' = done \cup carried
    /\ UNCHANGED sessionless
RecordDelivery ==
    IF session
    THEN done' = done \cup carried /\ UNCHANGED sessionless
    ELSE sessionless' = sessionless \cup carried /\ UNCHANGED done

\* The provider has worked on what the turn carried.  Of that, what it took in a
\* thread it then left need not be in the new one.
Taken ==
    \E ms \in SUBSET carried :
        /\ ~moved => ms = {}
        /\ heard' = heard \cup (carried \ ms) /\ left' = left \cup ms

TurnFulfils ==
    /\ pc = "turn"
    /\ pc' = "between"
    /\ Taken
    /\ RecordDelivery
    /\ carried' = {} /\ moved' = FALSE
    /\ UNCHANGED <<mail, dropped, session, result, engines, next, queued, replay,
                   mailQueue, history>>

\* The engine dies between the `mail-done` records of a turn.
TurnFulfilsTorn ==
    /\ pc = "turn" /\ session
    /\ Taken
    /\ \E ms \in SUBSET carried : done' = done \cup ms
    /\ Gone
    /\ UNCHANGED <<mail, dropped, session, result>>

\* A slip: the mail of a turn that failed is taken for delivered.
Requeued_Not == mailQueue

Requeued == mailQueue \cup carried

TurnRejects ==
    /\ pc = "turn"
    /\ pc' = "thrown"
    /\ mailQueue' = Requeued
    /\ carried' = {} /\ moved' = FALSE
    /\ UNCHANGED <<journal, heard, left, engines, next, queued, replay, sessionless, history>>

\* Queued mail rides a follow-up turn; a corrective turn carries none.
FollowUp ==
    /\ pc = "between" /\ session
    /\ \/ mailQueue # {} /\ BeginTurn(mailQueue)
       \/ BeginTurn({})

\* The acceptance closes in the segment that looks at the queue for the last time.
Returning == pc = "between" /\ (mailQueue = {} \/ ~session)

Return ==
    /\ Returning
    /\ pc' = "returned"
    /\ done' = done \cup mailQueue /\ dropped' = dropped \cup mailQueue
    /\ declared' = declared \cup mailQueue
    /\ mailQueue' = {}
    /\ UNCHANGED <<mail, session, result, provider, engines, next, queued, replay,
                   carried, sessionless, acked>>

\* The engine dies between the records of what was dropped.
ReturnTorn ==
    /\ Returning
    /\ \E ms \in SUBSET mailQueue : done' = done \cup ms /\ dropped' = dropped \cup ms
    /\ Gone
    /\ UNCHANGED <<mail, session, result, heard, left>>

SchemaInvalid ==
    /\ pc = "between"
    /\ pc' = "thrown"
    /\ UNCHANGED <<journal, provider, engines, next, queued, replay, mailbox, history>>

\* The engine journals the result, then what was delivered without a session.
Seal ==
    /\ pc = "returned"
    /\ pc' = "settled"
    /\ result' = "completed"
    /\ done' = done \cup sessionless
    /\ UNCHANGED <<mail, dropped, session, provider, engines, next, queued, replay,
                   mailbox, history>>

\* A slip: the records come before the result.
SealTorn_RecordsFirst ==
    /\ pc = "returned"
    /\ \E ms \in SUBSET sessionless : done' = done \cup ms
    /\ Gone
    /\ UNCHANGED <<mail, dropped, session, result, heard, left>>

\* The engine dies after the result, before it has recorded all of that.
SealTorn ==
    /\ pc = "returned"
    /\ result' = "completed"
    /\ \E ms \in SUBSET sessionless : done' = done \cup ms
    /\ Gone
    /\ UNCHANGED <<mail, dropped, session, heard, left>>

Fail ==
    /\ pc = "thrown"
    /\ pc' = "settled"
    /\ result' = "failed"
    /\ UNCHANGED <<mail, done, dropped, session, provider, engines, next, queued, replay,
                   mailbox, history>>
-----------------------------------------------------------------------------
Sending == (\E s \in Sites : SendTo(s) \/ HandleSend(s)) \/ Flush
                \/ \E t \in Texts : OperatorSend(t)
Turning == Execute \/ SessionEvent \/ TurnFulfils \/ TurnRejects \/ FollowUp
               \/ Return \/ SchemaInvalid \/ Seal \/ Fail
Dying == Stop \/ TurnFulfilsTorn \/ ReturnTorn \/ SealTorn

Next == Start \/ Admit \/ Sending \/ Turning \/ Dying

Spec == Init /\ [][Next]_vars
-----------------------------------------------------------------------------
(* Properties *)

CountOf(t, ms) == Cardinality({m \in Workflows(ms) : m.text = t})
AckedOf(t) == Cardinality({l \in acked : Program[l[1]][l[2]] = t})

\* Suppression never costs a message: of every text the journal holds, for this
\* agent, as many messages, delivered or still to be delivered, as sends of it were
\* acknowledged.  Two sends are never absorbed by one message, and none by a
\* message an earlier engine dropped.
AcksAreCovered ==
    \A t \in Texts : AckedOf(t) <= CountOf(t, mail \ (dropped \ declared))

\* "Resume continues the SAME provider thread and the mail is already in it"
\* (src/agent-proc.js, runTurn): a message that counts as delivered is in the session
\* a resume continues.  A provider that goes on in a new thread refutes it.
DoneIsInSession ==
    result # "completed" =>
        \A m \in done \ dropped : session /\ m \in heard

\* What the records do keep: a message that counts as delivered is in the session a
\* resume continues, or was taken by a thread that the provider left for a new one.
\* What a session that cannot be continued has read does not count.
DoneIsInSessionUnlessLeft ==
    result # "completed" =>
        \A m \in done \ dropped : session /\ m \in heard \cup left

\* No accepted message is stranded: while a job may still deliver it, it is in one
\* of the job's hands, or recorded; and an agent that completed, whose job no resume
\* constructs again, has left nothing unrecorded that its provider had not read.
NothingStranded ==
    /\ pc \in InLive =>
           \A m \in mail : m \in done \cup mailQueue \cup carried \cup sessionless
    /\ result = "completed" => mail \ done \subseteq heard

\* A message that counts as delivered, or was declared dropped, is not delivered
\* again, whatever was restored and whatever failed.
DoneNotRepeated == done \cap (mailQueue \cup carried) = {}

SentThroughHandle(m) == m.site \in Handles

\* "Each call site replays its sends in order under re-execution" (src/agent-proc.js):
\* what is sent through a handle has the same place in every execution, so a send
\* is accepted once, unless it was dropped, and absorbed only by itself.
HandleSendsAreTheirOwn ==
    /\ \A l \in acked : l[1] \in Handles => \E m \in mail : m.send = l
    /\ \A m, k \in mail \ dropped :
          SentThroughHandle(m) /\ m.send = k.send => m = k
=============================================================================
