------------------------------ MODULE AgentJob ------------------------------
(***************************************************************************)
(* The life of one agent (src/agent-proc.js, class AgentJob, together with *)
(* the lines of src/engine.js that run it): steering mail is accepted and  *)
(* journaled while the agent waits, works, retries and follows up, and     *)
(* every accepted message must reach the provider session, be handed back  *)
(* to the queue, or be recorded as dropped.                                *)
(*                                                                         *)
(* A message is its acceptance number 1..mailed: the journal holds a       *)
(* `mail` record for exactly these.  `restored` of them come from the      *)
(* journal of an interrupted run.  A provider turn is the span in which    *)
(* pc = "turn"; what happens inside the provider process is abstracted to  *)
(* the choices this module leaves open (module ProcessTurn has it).        *)
(*                                                                         *)
(* JavaScript runs one segment at a time, so an action is one segment      *)
(* between two awaits.  pc names the await the job is parked at:           *)
(*   "new"       constructed, execute() not called yet                     *)
(*   "turn"      runTurn() awaits the provider                             *)
(*   "resolved"  the turn fulfilled, execute() has not resumed yet         *)
(*   "thrown"    the turn or execute() rejected, the engine has not seen it *)
(*   "returned"  execute() fulfilled, the engine has not resumed yet       *)
(*   "completed", "failed"   the result record is journaled, job settled   *)
(***************************************************************************)
EXTENDS Naturals, Sequences, FiniteSets, SequencesExt

CONSTANTS
    Profiles,     \* the kinds of adapter an agent may use
    MaxMail,      \* bound: messages ever accepted for this agent
    MaxRestored   \* bound: how many of them a resumed run starts with

\* What of an adapter's contract the mail protocol depends on.  Every adapter
\* of the repository has caps.resume = true, so it is not a field.
Profile == [direct : BOOLEAN, keepOpen : BOOLEAN, selfSession : BOOLEAN]

ASSUME ProfilesAssumption ==
    /\ Profiles \subseteq Profile
    /\ \A p \in Profiles : p.direct => ~p.keepOpen
ASSUME BoundsAssumption == MaxMail \in Nat /\ MaxRestored \in 0..MaxMail

VARIABLES
    profile,     \* the adapter of this agent, fixed at construction
    restored,    \* how many messages came from the journal, fixed
    mailed,      \* messages accepted so far: `mail` records 1..mailed
    done,        \* messages with a `mail-done` record
    dropped,     \* messages with a `mail-done` record marked dropped
    mailQueue,   \* accepted, waiting for a turn
    pendingDelivery, \* carried by the prompt of the running turn
    liveDelivered,   \* injected into the running turn
    sessionlessDelivered, \* delivered by a turn that has no session to resume
    waiter,      \* a direct adapter is parked in waitMail()
    stdinOpen,   \* liveWrite can still inject into the child process
    session,     \* a provider session id is known
    cancelled,
    settled,
    schemaRetries, \* corrective turns of the running execute()
    attempt,     \* which execute() of the engine is running
    retryable,   \* the thrown error invites a second execute()
    outOfOrder,  \* history: a live message overtook queued ones, or its write broke
    pc

\* The adapter and the restored mail are fixed when the job is constructed.
fixed   == <<profile, restored>>
holders == <<mailQueue, pendingDelivery, liveDelivered, sessionlessDelivered>>
records == <<mailed, done, dropped>>
control == <<cancelled, settled, schemaRetries, attempt, retryable, pc>>
turnIO  == <<waiter, stdinOpen, session, outOfOrder>>
vars    == <<fixed, holders, records, control, turnIO>>

Mail == 1..MaxMail
Live == {"new", "turn", "resolved", "thrown", "returned"}

TypeOK ==
    /\ profile \in Profiles
    /\ restored \in 0..MaxRestored
    /\ mailed \in restored..MaxMail
    /\ done \subseteq 1..mailed /\ dropped \subseteq 1..mailed
    /\ mailQueue \in Seq(1..mailed) /\ pendingDelivery \in Seq(1..mailed)
    /\ liveDelivered \in Seq(1..mailed) /\ sessionlessDelivered \in Seq(1..mailed)
    /\ {waiter, stdinOpen, session, cancelled, settled, retryable, outOfOrder} \subseteq BOOLEAN
    /\ schemaRetries \in 0..1 /\ attempt \in 1..2
    /\ pc \in Live \cup {"completed", "failed"}

\* A resumed agent may or may not have a journaled session; an adapter with
\* selfSession is given one up front.
Init ==
    /\ profile \in Profiles
    /\ restored \in 0..MaxRestored
    /\ mailed = restored /\ done = {} /\ dropped = {}
    /\ mailQueue = [i \in 1..restored |-> i]
    /\ pendingDelivery = <<>> /\ liveDelivered = <<>> /\ sessionlessDelivered = <<>>
    /\ waiter = FALSE /\ stdinOpen = FALSE /\ outOfOrder = FALSE
    /\ session \in {s \in BOOLEAN : profile.selfSession => s}
    /\ cancelled = FALSE /\ settled = FALSE
    /\ schemaRetries = 0 /\ attempt = 1 /\ retryable = FALSE
    /\ pc = "new"
-----------------------------------------------------------------------------
(* Accepting mail *)

\* liveWrite injects; when it is closed, or its write throws at once, the
\* message goes to a parked waiter, else to the queue.
Place(m) ==
    \/ /\ pc = "turn" /\ stdinOpen
       /\ liveDelivered' = Append(liveDelivered, m)
       /\ outOfOrder' = (outOfOrder \/ mailQueue # <<>>)
       /\ UNCHANGED <<mailQueue, waiter>>
    \/ /\ waiter
       /\ liveDelivered' = Append(liveDelivered, m)
       /\ waiter' = FALSE
       /\ UNCHANGED <<mailQueue, outOfOrder>>
    \/ /\ ~waiter
       /\ mailQueue' = Append(mailQueue, m)
       /\ outOfOrder' = (outOfOrder \/ stdinOpen)
       /\ UNCHANGED <<liveDelivered, waiter>>

\* send(): a settled agent accepts nothing ('dropped', no record, no change).
Send ==
    /\ mailed < MaxMail
    /\ ~settled
    /\ mailed' = mailed + 1
    /\ Place(mailed + 1)
    /\ UNCHANGED <<fixed, control, done, dropped, pendingDelivery,
                   sessionlessDelivered, stdinOpen, session>>

\* A slip: the failed write stays counted as live.
Undone_Kept(i) == liveDelivered

Undone(i) == RemoveAt(liveDelivered, i)

\* A live write that was accepted fails later: undo it and put the message
\* back at the FRONT of the queue.
WriteFails ==
    /\ pc = "turn" /\ profile.keepOpen
    /\ \E i \in DOMAIN liveDelivered :
          /\ liveDelivered' = Undone(i)
          /\ mailQueue' = <<liveDelivered[i]>> \o mailQueue
    /\ outOfOrder' = TRUE
    /\ UNCHANGED <<fixed, records, control, pendingDelivery,
                   sessionlessDelivered, waiter, stdinOpen, session>>

\* stdin ends: the turn's result was parsed, or the pipe raised 'error'.
StdinCloses ==
    /\ stdinOpen /\ stdinOpen' = FALSE
    /\ UNCHANGED <<fixed, holders, records, control, waiter, session, outOfOrder>>
-----------------------------------------------------------------------------
(* A direct adapter asks for mail *)

\* Once cancelled, waitMail() answers '__cancelled__' at once and registers
\* nothing; otherwise it takes the queue's head or parks.
MayWait == ~cancelled

WaitMail ==
    /\ pc = "turn" /\ profile.direct /\ ~waiter
    /\ MayWait
    /\ \/ /\ mailQueue # <<>>
          /\ liveDelivered' = Append(liveDelivered, Head(mailQueue))
          /\ mailQueue' = Tail(mailQueue)
          /\ UNCHANGED waiter
       \/ /\ mailQueue = <<>>
          /\ waiter' = TRUE
          /\ UNCHANGED <<mailQueue, liveDelivered>>
    /\ UNCHANGED <<fixed, records, control, pendingDelivery,
                   sessionlessDelivered, stdinOpen, session, outOfOrder>>

\* A slip: the parked waiter is forgotten.
ReleaseWaiters_Forgotten == UNCHANGED waiter

ReleaseWaiters == waiter' = FALSE

\* cancel(): closes the waiter list and releases a waiter that is parked (a
\* child process is killed, so its turn ends).
Cancel ==
    /\ pc \in Live \ {"new"}
    /\ cancelled' = TRUE
    /\ ReleaseWaiters
    /\ UNCHANGED <<fixed, holders, records, stdinOpen, session, outOfOrder,
                   settled, schemaRetries, attempt, retryable, pc>>
-----------------------------------------------------------------------------
(* Turns *)

\* A turn begins: liveDelivered is emptied, a keep-open child accepts writes.
BeginTurn ==
    /\ pc' = "turn"
    /\ liveDelivered' = <<>>
    /\ stdinOpen' = profile.keepOpen

\* execute() is entered for the first time.
Execute ==
    /\ pc = "new"
    /\ BeginTurn
    /\ UNCHANGED <<fixed, records, mailQueue, pendingDelivery,
                   sessionlessDelivered, waiter, session, outOfOrder,
                   cancelled, settled, schemaRetries, attempt, retryable>>

\* The provider announces a session id.
SessionEvent ==
    /\ pc = "turn" /\ ~session /\ session' = TRUE
    /\ UNCHANGED <<fixed, holders, records, control, waiter, stdinOpen, outOfOrder>>

\* What a failed turn hands back, in acceptance order, ahead of the queue.
\* A slip: the live batch of a failed turn is forgotten.
Requeued_LiveForgotten == pendingDelivery \o mailQueue

\* A slip: the live batch goes to the back of the queue.
Requeued_LiveLast == pendingDelivery \o mailQueue \o liveDelivered

Requeued == pendingDelivery \o liveDelivered \o mailQueue

\* A slip: a delivery is journaled whether or not the session can be resumed.
RecordDelivery_Always(delivered) ==
    done' = done \cup ToSet(delivered) /\ UNCHANGED sessionlessDelivered

\* The delivery of a fulfilled turn is journaled only if its session can be
\* resumed; otherwise it is stashed until the result record exists.
RecordDelivery(delivered) ==
    IF session
    THEN /\ done' = done \cup ToSet(delivered)
         /\ UNCHANGED sessionlessDelivered
    ELSE /\ sessionlessDelivered' = sessionlessDelivered \o delivered
         /\ UNCHANGED done

\* The turn fulfils.  A keep-open turn may give back the last k live messages,
\* which its process left unanswered; the rest counts as delivered.
TurnFulfils ==
    /\ pc = "turn" /\ ~waiter /\ ~cancelled
    /\ \E k \in 0..Len(liveDelivered) :
          LET answered == Len(liveDelivered) - k IN
          /\ k > 0 => profile.keepOpen
          /\ RecordDelivery(pendingDelivery \o SubSeq(liveDelivered, 1, answered))
          /\ mailQueue' = SubSeq(liveDelivered, answered + 1, Len(liveDelivered)) \o mailQueue
    /\ pendingDelivery' = <<>> /\ liveDelivered' = <<>>
    /\ stdinOpen' = FALSE
    /\ pc' = "resolved"
    /\ UNCHANGED <<fixed, mailed, dropped, waiter, session, outOfOrder,
                   cancelled, settled, schemaRetries, attempt, retryable>>

\* The turn rejects: cancelled, stalled, a provider error, a refused result.
TurnRejects ==
    /\ pc = "turn" /\ ~waiter
    /\ mailQueue' = Requeued
    /\ pendingDelivery' = <<>> /\ liveDelivered' = <<>>
    /\ stdinOpen' = FALSE
    /\ retryable' \in BOOLEAN
    /\ pc' = "thrown"
    /\ UNCHANGED <<fixed, records, sessionlessDelivered, waiter, session,
                   outOfOrder, cancelled, settled, schemaRetries, attempt>>
-----------------------------------------------------------------------------
(* execute() resumes after a fulfilled turn *)

CanFollowUp == session

RetriesLeft == schemaRetries < 1

\* The structured output is invalid: one corrective turn, then failure.
SchemaRetry ==
    /\ pc = "resolved"
    /\ RetriesLeft /\ CanFollowUp /\ ~cancelled
    /\ schemaRetries' = schemaRetries + 1
    /\ BeginTurn
    /\ UNCHANGED <<fixed, records, mailQueue, pendingDelivery,
                   sessionlessDelivered, waiter, session, outOfOrder,
                   cancelled, settled, attempt, retryable>>

SchemaInvalid ==
    /\ pc = "resolved"
    /\ ~RetriesLeft \/ ~CanFollowUp \/ cancelled
    /\ retryable' = FALSE
    /\ pc' = "thrown"
    /\ UNCHANGED <<fixed, holders, records, turnIO,
                   cancelled, settled, schemaRetries, attempt>>

\* A slip: an agent that needed a corrective turn takes no follow-up.
OwesFollowUp_Once == mailQueue # <<>> /\ CanFollowUp /\ ~cancelled /\ schemaRetries = 0

\* Mail arrived while the turn ran: the whole queue rides a follow-up turn.
OwesFollowUp == mailQueue # <<>> /\ CanFollowUp /\ ~cancelled

FollowUp ==
    /\ pc = "resolved" /\ OwesFollowUp
    /\ pendingDelivery' = mailQueue
    /\ mailQueue' = <<>>
    /\ BeginTurn
    /\ UNCHANGED <<fixed, records, sessionlessDelivered, waiter, session,
                   outOfOrder, cancelled, settled, schemaRetries, attempt, retryable>>

\* Nothing more to do: undeliverable mail is recorded as dropped and the agent
\* stops accepting mail, in this same segment.
StopAccepting == settled' = TRUE

Return ==
    /\ pc = "resolved" /\ ~OwesFollowUp
    /\ dropped' = dropped \cup ToSet(mailQueue)
    /\ mailQueue' = <<>>
    /\ StopAccepting
    /\ pc' = "returned"
    /\ UNCHANGED <<fixed, mailed, done, pendingDelivery, liveDelivered,
                   sessionlessDelivered, turnIO, cancelled, schemaRetries,
                   attempt, retryable>>
-----------------------------------------------------------------------------
(* The engine sees the outcome of execute() *)

\* The completed result record is journaled, then the mail it made durable.
Seal ==
    /\ pc = "returned"
    /\ done' = done \cup ToSet(sessionlessDelivered)
    /\ pc' = "completed"
    /\ UNCHANGED <<fixed, holders, mailed, dropped, turnIO, cancelled, settled,
                   schemaRetries, attempt, retryable>>

\* A slip: the number of attempts is not limited.
MayRetry_Forever == retryable /\ ~cancelled

\* A retryable error runs execute() once more on the same job.
MayRetry == retryable /\ ~cancelled /\ attempt = 1

Retry ==
    /\ pc = "thrown" /\ MayRetry
    /\ attempt' = 2 /\ schemaRetries' = 0
    /\ BeginTurn
    /\ UNCHANGED <<fixed, records, mailQueue, pendingDelivery,
                   sessionlessDelivered, waiter, session, outOfOrder,
                   cancelled, settled, retryable>>

\* Any other error is the agent's outcome; its mail stays pending in the
\* journal for the next run.
Fail ==
    /\ pc = "thrown" /\ ~MayRetry
    /\ settled' = TRUE
    /\ pc' = "failed"
    /\ UNCHANGED <<fixed, holders, records, turnIO, cancelled, schemaRetries,
                   attempt, retryable>>
-----------------------------------------------------------------------------
TurnEnds   == TurnFulfils \/ TurnRejects
Resume     == SchemaRetry \/ SchemaInvalid \/ FollowUp \/ Return
EngineStep == Execute \/ Resume \/ Seal \/ Retry \/ Fail

Next ==
    \/ Send \/ WriteFails \/ StdinCloses \/ WaitMail \/ Cancel
    \/ SessionEvent \/ TurnEnds \/ EngineStep

\* The event loop runs every continuation; a turn that nothing blocks ends: a
\* child process exits or is killed by the stall timer or by cancel(), a
\* direct script is finite.  Nothing promises that mail arrives.
Fairness == WF_vars(EngineStep) /\ WF_vars(TurnEnds)

Spec == Init /\ [][Next]_vars /\ Fairness
-----------------------------------------------------------------------------
(* Properties *)

Held == ToSet(pendingDelivery) \cup ToSet(liveDelivered) \cup ToSet(mailQueue)
            \cup ToSet(sessionlessDelivered)

\* No accepted message is ever lost or carried twice: while the agent lives, and
\* when it has failed, a journaled message without a mail-done record is exactly one
\* that some list of the job holds, once (so a retry or a resume carries it), and a
\* completed agent leaves no message open in the journal.
MailAccounted ==
    /\ 1..mailed = done \cup dropped \cup (IF pc = "completed" THEN {} ELSE Held)
    /\ IsInjective(pendingDelivery \o liveDelivered \o mailQueue \o sessionlessDelivered)
    /\ pc # "completed" => Held \cap (done \cup dropped) = {}

\* What the journal says of a message stays true: mail-done is written only when a
\* resume would continue the session that has it, or its result record is there;
\* and acknowledged mail is dropped only where no turn could have carried it, since
\* the agent has no session to follow up in, or was cancelled.
RecordsAreTrue ==
    /\ done # {} => session \/ pc = "completed"
    /\ dropped # {} => ~session \/ cancelled

Ascending(s) == \A i, j \in DOMAIN s : i < j => s[i] < s[j]

\* A follow-up turn applies the messages in the order they were accepted, across
\* requeues and retries, unless a live write broke or a live message overtook
\* mail that was still queued (restored mail, or mail of a first attempt).
FollowUpInOrder == ~outOfOrder => Ascending(pendingDelivery)

\* What cancel() reported happens: a cancelled agent settles, also one that asks for
\* mail after the waiters were released; and an agent that runs in a child process
\* settles whatever its turns do.
Settles == (cancelled \/ ~profile.direct) ~> settled
=============================================================================
