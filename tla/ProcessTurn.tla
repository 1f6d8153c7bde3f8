---------------------------- MODULE ProcessTurn ----------------------------
(***************************************************************************)
(* One turn of an agent whose child process keeps stdin open for steering  *)
(* (src/agent-proc.js, runProcessTurn): messages are injected while the    *)
(* process works, its output is parsed later, and when it is gone the      *)
(* engine decides whether the parsed result stands and which messages it   *)
(* answered.                                                               *)
(*                                                                         *)
(* The process is external; it is modelled as src/agent-proc.js and the    *)
(* fixtures test/fixtures/fake-claude.js and fake-amp.js describe it:      *)
(*   "claude"  a message read while a turn runs joins that turn; one       *)
(*             result per turn; exits when idle at end of stdin            *)
(*   "amp"     every message is a turn of its own; results are flushed     *)
(*             when it exits, idle at end of stdin                         *)
(*   "ampCoalescing"  the regression fake-amp.js can play: messages join   *)
(*             the running turn and the process exits whenever it is idle  *)
(* Message 0 is the prompt, 1..MaxSteer are the steers in acceptance order.*)
(***************************************************************************)
EXTENDS Integers, Sequences, SequencesExt

CONSTANTS Protocols, MaxSteer

ASSUME ProcessTurnAssumption ==
    Protocols \subseteq {"claude", "amp", "ampCoalescing"} /\ MaxSteer \in Nat

VARIABLES
    protocol,
    steered,       \* messages accepted by send() during the turn
    liveDelivered, \* injected
    mailQueue,     \* waiting for a follow-up turn
    outstanding,   \* messages the process has not settled, as the engine counts
    liveSeq,       \* injections so far
    liveSeqAtResult, \* ... when the last result was parsed
    stdinOpen,
    turnResult,    \* "none", "ok" or "error": the last parsed result
    doomed,        \* cancelled, or killed by the stall timer
    outcome,       \* "running", "accepted" or "refused"
    delivered,     \* the messages an accepted turn marks done
    (* the process and its pipes *)
    pipe,          \* written to stdin, unread
    failing,       \* writes whose error callback is still to come
    turn,          \* the messages of the running turn
    answered,      \* the messages of turns that ended
    out,           \* printed, not parsed yet
    alive,
    crashed        \* it ended otherwise than by exiting idle

engine  == <<outstanding, liveSeq, liveSeqAtResult, stdinOpen, turnResult>>
mail    == <<steered, liveDelivered, mailQueue>>
verdict == <<outcome, delivered>>
process == <<turn, answered, alive, crashed>>
turnVars == <<protocol, engine, mail, verdict, doomed, pipe, failing, out, process>>

TurnTypeOK ==
    /\ protocol \in Protocols
    /\ steered \in 0..MaxSteer
    /\ liveDelivered \in Seq(1..steered) /\ mailQueue \in Seq(1..steered)
    /\ outstanding \in -MaxSteer..(MaxSteer + 1)
    /\ stdinOpen => outstanding > 0
    /\ liveSeq \in 0..steered /\ liveSeqAtResult \in 0..liveSeq
    /\ turnResult \in {"none", "ok", "error"}
    /\ outcome \in {"running", "accepted", "refused"}
    /\ delivered \subseteq 1..steered
    /\ pipe \in Seq(0..steered) /\ failing \in Seq(1..steered)
    /\ turn \subseteq 0..steered /\ answered \subseteq 0..steered
    /\ out \in Seq({"ok", "error", "turn-end"})
    /\ {stdinOpen, doomed, alive, crashed} \subseteq BOOLEAN

\* The child is spawned and its prompt is in the pipe.
TurnInit ==
    /\ protocol \in Protocols
    /\ steered = 0 /\ liveDelivered = <<>> /\ mailQueue = <<>>
    /\ outstanding = 1 /\ liveSeq = 0 /\ liveSeqAtResult = 0
    /\ stdinOpen = TRUE /\ turnResult = "none" /\ doomed = FALSE
    /\ outcome = "running" /\ delivered = {}
    /\ pipe = <<0>> /\ failing = <<>> /\ out = <<>>
    /\ turn = {} /\ answered = {} /\ alive = TRUE /\ crashed = FALSE
-----------------------------------------------------------------------------
(* The engine injects *)

\* What send() adds to the counters: nothing once stdin is closed.
Counted == IF stdinOpen THEN 1 ELSE 0

\* send() during the turn: written to stdin while it is open, else queued.
Steer ==
    /\ outcome = "running" /\ steered < MaxSteer
    /\ steered' = steered + 1
    /\ outstanding' = outstanding + Counted
    /\ liveSeq' = liveSeq + Counted
    /\ IF stdinOpen
       THEN /\ liveDelivered' = Append(liveDelivered, steered + 1)
            /\ pipe' = IF alive THEN Append(pipe, steered + 1) ELSE pipe
            /\ failing' = IF alive THEN failing ELSE Append(failing, steered + 1)
            /\ UNCHANGED mailQueue
       ELSE /\ mailQueue' = Append(mailQueue, steered + 1)
            /\ UNCHANGED <<liveDelivered, pipe, failing>>
    /\ UNCHANGED <<protocol, liveSeqAtResult, stdinOpen, turnResult, doomed,
                   verdict, out, process>>

\* A slip: the failed message stays in the live batch.
Undone_Kept(m) == liveDelivered

Undone(m) ==
    IF m \notin ToSet(liveDelivered) THEN liveDelivered
    ELSE RemoveAt(liveDelivered, CHOOSE i \in DOMAIN liveDelivered : liveDelivered[i] = m)

\* The error callback of a write: the message returns to the queue's front,
\* and the stream's 'error' event closes stdin for good.
WriteFails ==
    /\ failing # <<>>
    /\ LET m == Head(failing) IN
          /\ liveDelivered' = Undone(m)
          /\ mailQueue' = <<m>> \o mailQueue
    /\ failing' = Tail(failing)
    /\ outstanding' = outstanding - 1
    /\ stdinOpen' = FALSE
    /\ UNCHANGED <<protocol, steered, liveSeq, liveSeqAtResult, turnResult,
                   doomed, verdict, pipe, out, process>>
-----------------------------------------------------------------------------
(* The engine parses *)

\* A slip: claude's results are counted per message, like amp's turns.
SettleResult_PerMessage ==
    /\ outstanding' = IF protocol = "claude" THEN outstanding - 1 ELSE outstanding
    /\ stdinOpen' = (stdinOpen /\ (protocol = "claude" => outstanding > 1))

\* A claude result settles the whole count and closes stdin.
SettleResult ==
    /\ outstanding' = IF protocol = "claude" THEN 0 ELSE outstanding
    /\ stdinOpen' = (stdinOpen /\ protocol # "claude")

ParseResult ==
    /\ out # <<>> /\ Head(out) \in {"ok", "error"}
    /\ turnResult' = Head(out)
    /\ liveSeqAtResult' = liveSeq
    /\ SettleResult
    /\ out' = Tail(out)
    /\ UNCHANGED <<protocol, mail, liveSeq, doomed, verdict, pipe, failing, process>>

\* Some message is unsettled after this end_turn: stdin stays open.
MoreToCome == outstanding > 1

ParseTurnEnd ==
    /\ out # <<>> /\ Head(out) = "turn-end"
    /\ outstanding' = outstanding - 1
    /\ stdinOpen' = (stdinOpen /\ MoreToCome)
    /\ out' = Tail(out)
    /\ UNCHANGED <<protocol, mail, liveSeq, liveSeqAtResult, turnResult, doomed,
                   verdict, pipe, failing, process>>

\* cancel(), or the stall timer: the child is killed and its turn will reject.
Doom ==
    /\ outcome = "running" /\ ~doomed
    /\ doomed' = TRUE
    /\ UNCHANGED <<protocol, engine, mail, verdict, pipe, failing, out, process>>
-----------------------------------------------------------------------------
(* The child is gone and its output is drained *)

\* A slip: a result stands for every injected message.
Unanswered_None == 0

\* How many messages, the last injected ones, an accepted result leaves open.
Unanswered ==
    IF outstanding <= 0 THEN 0
    ELSE IF outstanding < Len(liveDelivered) THEN outstanding
    ELSE Len(liveDelivered)

Accepts ==
    /\ ~doomed /\ turnResult = "ok"
    /\ outstanding > 0 => liveSeq = liveSeqAtResult

Close ==
    /\ outcome = "running" /\ ~alive /\ out = <<>> /\ failing = <<>>
    /\ IF Accepts
       THEN LET n == Len(liveDelivered) - Unanswered IN
            /\ outcome' = "accepted"
            /\ delivered' = ToSet(SubSeq(liveDelivered, 1, n))
            /\ mailQueue' = SubSeq(liveDelivered, n + 1, Len(liveDelivered)) \o mailQueue
       ELSE /\ outcome' = "refused"
            /\ mailQueue' = liveDelivered \o mailQueue
            /\ UNCHANGED delivered
    /\ liveDelivered' = <<>>
    /\ stdinOpen' = FALSE
    /\ UNCHANGED <<protocol, steered, outstanding, liveSeq, liveSeqAtResult,
                   turnResult, doomed, pipe, failing, out, process>>
-----------------------------------------------------------------------------
(* The child process *)

\* Only a coalescing process reads while it works.
Read ==
    /\ alive /\ pipe # <<>>
    /\ turn # {} => protocol # "amp"
    /\ turn' = turn \cup {Head(pipe)}
    /\ pipe' = Tail(pipe)
    /\ UNCHANGED <<protocol, engine, mail, verdict, doomed, failing, answered,
                   out, alive, crashed>>

\* A turn ends: claude prints its result, amp its end_turn.
FinishTurn ==
    /\ alive /\ turn # {}
    /\ answered' = answered \cup turn
    /\ turn' = {}
    /\ \E e \in IF protocol = "claude" THEN {"ok", "error"} ELSE {"turn-end"} :
          out' = Append(out, e)
    /\ UNCHANGED <<protocol, engine, mail, verdict, doomed, pipe, failing,
                   alive, crashed>>

\* Idle at end of stdin: amp flushes its results and the process is gone.
Exit ==
    /\ alive /\ turn = {} /\ answered # {}
    /\ protocol # "ampCoalescing" => pipe = <<>> /\ ~stdinOpen
    /\ alive' = FALSE
    /\ \E e \in {"ok", "error"} :
          out' = IF protocol = "claude" THEN out ELSE Append(out, e)
    /\ UNCHANGED <<protocol, engine, mail, verdict, doomed, pipe, failing, turn,
                   answered, crashed>>

\* It dies, of itself or killed.
Crash ==
    /\ alive
    /\ alive' = FALSE /\ crashed' = TRUE
    /\ UNCHANGED <<protocol, engine, mail, verdict, doomed, pipe, failing, out,
                   turn, answered>>
-----------------------------------------------------------------------------
EngineStep  == WriteFails \/ ParseResult \/ ParseTurnEnd \/ Close
ProcessStep == FinishTurn \/ Exit \/ (turn = {} /\ Read)
TurnNext == Steer \/ Doom \/ EngineStep \/ Read \/ ProcessStep \/ Crash

\* The event loop handles what arrives; a process that is not hung ends its
\* turns, takes its input and exits at end of stdin; a doomed one is killed.
\* Nothing forces a crash, and the stall timer is not counted on.
TurnSpec ==
    /\ TurnInit /\ [][TurnNext]_turnVars
    /\ WF_turnVars(EngineStep) /\ WF_turnVars(ProcessStep) /\ WF_turnVars(doomed /\ Crash)
-----------------------------------------------------------------------------
(* Properties *)

\* Every steer accepted during the turn is in one place: live or queued while it
\* runs, marked delivered or queued for a follow-up turn when it is over.
SteersAccounted ==
    /\ 1..steered = ToSet(liveDelivered) \cup ToSet(mailQueue) \cup delivered
    /\ IsInjective(liveDelivered \o mailQueue)
    /\ delivered \cap ToSet(mailQueue) = {}

\* "an earlier in-turn result must not stand in for messages that never got
\* answered (they'd be falsely marked delivered)" (src/agent-proc.js): what an
\* accepted turn marks delivered was answered by a turn of the process.
NoFalseDelivery == delivered \subseteq answered

\* ... as far as it holds: always for amp, and for claude unless the process dies
\* in a turn that began after its last result was printed.
NoFalseDeliveryUnlessCrashed == (protocol = "claude" => ~crashed) => NoFalseDelivery

\* A steer consumed into a running turn must not leave stdin open for ever (the
\* process waits for end of stdin, the engine for the process): the turn ends
\* without the stall timer's help.
EveryTurnEnds == <>(outcome # "running")
=============================================================================
