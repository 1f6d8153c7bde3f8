# A TLA+ verification of the flowition engine

flowition runs a workflow file (ordinary JavaScript) that starts coding agents,
asks the operator questions, and can be cancelled, steered, resumed and deleted
while it runs. Everything it decides lands in a directory per run: an
append-only journal, a lock, a control socket, a resume marker, a result. A
viewer server follows that directory and a page follows the viewer. The modules
here model the parts of `src/src/` that make these decisions, and the page's end of
the stream; TLC checks them on small instances, and TLAPS proves the central
invariants for every instance.

## The system

| part | state | operations | hard because |
|---|---|---|---|
| agent job (`agent-proc.js`, `AgentJob`) | mailbox, parked waiters, live deliveries, session, cancelled, settled | `send`, `cancel`, `execute`, `runTurn`, follow-up turns, schema retry; the engine's attempt loop around it | steering, write callbacks, cancellation and the end of a turn interleave; a message must survive a failed turn, a retry, a resume |
| process turn (`runProcessTurn`) | open messages, results seen, stdin, stall timer, verdict | `liveWrite`, `consume`, `endStdin`, `close` handler | messages are written before the process reads them and results are parsed after it prints them |
| semaphore (`semaphore.js`) | count, queue | `acquire`, `release` | direct handoff: the admitted agent has not run yet |
| run lifecycle (`engine.js`, `runWorkflow`) | live jobs, in-flight calls, pending questions, budget, `aborted`, `finishing` | `agent`, `ask`, answer, cancel, `drain`, end | anything may be called at any time, also after the workflow returned |
| durable calls (`agentImpl`, `stepImpl`, `keys.js`, `seed.js`) | keys, counters per branch, results on record, the next agent index | derive a key, look it up, run, seal, fail; `parallel`; take a seed | a crash between the effect and its record; interleavings differ between a run and its resume |
| run lock and control socket (`run-lock.js`, `control.js`) | `run.lock`, claim files, socket | take, take over a dead owner's, probe, bind, release | several processes, any of which may die, one file-system call at a time |
| resume against delete (`run-lock.js`, `run-state.js`, `retention.js`) | marker `.resuming`, its tmp and claims, the run's directory or its trash | install marker, wait, claim, look, sweep, delete, roll back | three kinds of processes, no common lock |
| journal (`journal.js`) | records | append, load, replay | a crash between any two records |
| usage (`agent-proc.js`, `journal.js`) | totals, baselines | charge, replay, crash window | deltas and running totals over attempts and resumes |
| run state reader (`run-state.js`) | none | `derive` | reads a directory that changes under it |
| viewer stream (`viewer/tail.js`, `stream.js`, `snapshot.js`; the page's `sse.ts`, `runStore.ts`) | offsets, pending bytes, cursors, frames on their way, folds | drain, batch, reset, end; connect, retry, fold, poll, revive | files grow while they are read, connections break, records are torn, a run that ended is resumed |
| viewer lifecycle (`viewer/index.js`) | `viewer.lock`, claim files, `viewer.json` | lock, reclaim, discover, bind, publish, close | one viewer per home among processes that may die |

The engine calls an `AgentJob` per agent; the job calls its adapter, which drives
a provider's process; events and usage come back by callback. The operator's
requests enter through the control socket while the workflow runs. Command line,
MCP server and viewer launch a resume by installing the marker and starting an
engine process; `gc` and the viewer delete a run by moving its directory. Command
line, MCP server and viewer read a run's state from its directory, without asking
the engine unless its socket answers. The viewer tails the two logs of a run to
every page that shows it.

What makes each part correct:

* Agent job: every accepted message is delivered once, or given back, or declared
  dropped where no turn could carry it; a cancelled agent settles (`AgentJob`).
* Process turn: no steer counts as delivered that the process did not answer, no
  finished work is refused, no turn waits for ever (`ProcessTurn`).
* Semaphore: neither over-admission nor idle slots nor overtaking (`Semaphore`).
* Run lifecycle: the end record is last and says what happened; a closed run admits
  nobody; the budget's overshoot is bounded; a cancelled run ends (`RunLifecycle`).
* Durable calls: a call has the same key in every execution, whatever the
  interleaving, and finds its own result; one whose completion is on record is never
  repeated; a seed takes only what is final (`DurableCalls`).
* Run lock and socket: one engine, reachable, and a crashed one replaceable (`RunLock`).
* Resume against delete: an accepted resume finds its run (`RunHandoff`).
* Journal: a resume loses no message and no spending and repeats none that it can
  tell (`SteeringReplay`, `UsageReplay`).
* State reader: a live run is told as live, a crash only if there was one, and whoever
  waits is told in the end (`StateReader`).
* Viewer stream: what the page shows is a prefix of what was recorded, each record once
  and in order across reconnects, and in the end all of it (`ViewerStream`, `LogFeed`).
* Viewer lifecycle: one starter at a time, and the viewer that serves is the one on
  record (`ViewerHome`).

What is left out entirely, and why, is listed under `components` in
`PROJECT.json`: user interfaces, argument parsing, request handling, rendering, the
adapters' command lines, the cockpit plugin.

## Modules

| module | models | state and actions |
|---|---|---|
| `AgentJob` | one agent under `agentImpl`, from its first attempt to its result | `mailQueue`, `pendingDelivery`, `liveDelivered`, `sessionlessDelivered` are the job's lists, `waiter` is `mailWaiters`, `pc` the `await` at which `execute` is parked. `Send` is a whole `send()`, `TurnFulfils` and `TurnRejects` the two continuations of `runTurn`, `FollowUp`, `SchemaRetry`, `Return` the loop of `execute`, `Seal`, `Retry`, `Fail` the attempt loop. |
| `ProcessTurn` | one turn of a provider process | `pipe` and `output` are the two pipes between engine and process: a steer is written, read, answered and parsed in four separate steps. `Close` is the continuation at `close`, with the verdict. |
| `Semaphore` | `Semaphore` | `Acquire`, `Release` |
| `RunLifecycle` | `runWorkflow` from the workflow's first call to the end record; EXTENDS `Semaphore` | an agent's work is one step, `Finish`; `DrainReturns`, `CloseLifecycle` and `End` are separate, since the code awaits between them |
| `DurableCalls` | the calls of a workflow over attempts of its run, and another run that takes its results as a seed | `journal` is kept as `Journal.load` reads it back, `prior` is what this attempt has read of it. Each item of a `parallel()` is a task with a branch and its counters; the root goes on when a step rejects, while the other items still run. `agentImpl` and `stepImpl` are a call up to its look-up, `Admit`, `Seal`, `Fail` what follows the awaits, `Crash` any point between. |
| `RunHandoff` | launcher, child engine, reader and delete around one run | one action per file-system call; `where` is the directory (in place, in the trash, gone), `marker` and `claims` the names a mark may have |
| `RunLock` | the take-over of a dead engine's lock and socket by contending engines | one action per file-system or socket call of `acquireRunLock`, `clearStaleSocket` and `serveControl` |
| `SteeringReplay` | the steering mail of one agent across interruptions and resumes | `mail`, `done`, `dropped`, `session`, `result` are the journal's records, `delivered` and `restored` what `Journal.load` makes of them for the next job, `sendSeq` is `wfSendSeq`. Every engine executes the workflow's sends from the start: `HandleSend` through a `spawn()` handle, which `Flush` passes on once the job exists, `SendTo` by key, `OperatorSend` from the socket. `SessionEvent` also replaces a known session by a new thread, with the history of the old one or without. `Stop` ends an engine between any two steps, the `...Torn` actions within the three that append several records. |
| `UsageReplay` | what one agent spent, over turns, retries, provider threads, crashes and resumes | `total` is the provider's running total of a thread, `reported` everything ever reported; `cum`, `chain`, `recorded` are the `usage-cum` records, their chaining and the results' usage. `Construct`, `SessionEvent`, `CumulativeReport`, `EventReport` are the code's four places that move the baseline; `SessionEventTorn` is a crash between the two records of one of them. |
| `StateReader` | `deriveRunState` among engines that start, refuse, run, end and die | one action per look (`LookMarker`, `LookResult`, `Probe`, `LookLock`, ...), one per file the engine writes or clears; `held` records what was true at the moments of the look |
| `ViewerStream` | a run's two files from the engine's append to what the page shows | a file is a sequence of cells, two to a record, so that a read or a death splits one; `Drain` is a poll of the server's tails with all the frames it writes, `StateTick` its decision to end the stream, `Accept` the start of a connection from a cursor; `Receive`, `Settle`, `Drop`, `Reconnect`, `Poll`, `Answer` are the page |
| `LogFeed` | abstract: what following a log promises | a viewer holds a prefix of each log, catches up, starts one over, or takes a snapshot of all |
| `ViewerHome` | the starters of a home's viewer | one action per file-system call of `withHomeLock`, `reclaimLockIfDead`, discovery, publishing and closing |
| `*_proofs` | the theorems about `RunLifecycle` and `Semaphore`, `ProcessTurn` and `UsageReplay` (`ProviderTurn_proofs`), `AgentJob`, `RunHandoff` and `RunLock` (`RunHandoff_proofs`), `SteeringReplay`, `StateReader`, `DurableCalls`, `ViewerHome` and `ViewerStream` (`Viewer_proofs`) | |

Each `MC` module names the instance its configurations give; two of them also state
what a comment or a document says and the code does not keep (below).
A definition marked "A slip" is used
by nothing: it is the definition after it with a plausible error in it, for which TLC
finds the property it is meant to break violated.

## Runs

| run | instance | shows |
|---|---|---|
| `agentjob_mail` | one job of any adapter, four messages, two of them restored from an earlier run, one retry | mail is never lost, doubled, dropped while a turn could carry it, marked done before a turn carried it, or reordered; every cancelled job settles |
| `processturn` | three steers, adapters that end a turn in three ways | each steer is open, undone, answered or given back; what is marked delivered was answered unless the process died in a later turn; the turn ends |
| `runlifecycle` | four agents, two slots, one question, budget 2 | the semaphore neither over-admits nor idles; nothing is journaled past the end record; the budget's overshoot is bounded; a cancelled run ends unless it asks again |
| `durablecalls` | two fan-outs of two items, agents that ask alike, a step about an agent's answer, two attempts, one mailed call, a seed taken meanwhile | every call gets its own result back in whatever order the branches run, what was sealed is never run again, no two agents share an index, a seed holds only what is final |
| `runhandoff` | two resumes, a delete, a reader, an aged marker | an engine owns the run alone; an accepted resume is not deleted but in the two cases the code leaves open; a refusing delete does not cost the resume its run; sweeps of the aged marker do not take the fresh one along; every accepted resume settles |
| `runhandoff_revoked` | two resumes, one delete | without the first of those cases the claim is false (below) |
| `runlock` | three contenders, one crash | a live lock is not destroyed, one engine at most, reachable, and somebody takes over, but for what needs an `Overlap` and a window between two calls |
| `steeringreplay` | a loop that sends the same text twice through a handle, a second call site that sends it with `sendTo()`, one message of the operator, three engines | no acknowledged send is suppressed in vain; mail marked done is in the session a resume continues, short of threads the provider left, and not delivered again; none is stranded, wherever among its appends an engine dies; a handle's sends keep their identity |
| `usagereplay` | three engines, three provider threads, two kinds of provider | a resume finds all that was reported and nothing twice; the budget sees all of it |
| `statereader` | three engines, two announced resumes, a reader that looks and may wait | a run live throughout a look is told as live; "stale" was so at some moment of it; a waiter is told how a run ended that no engine has any more |
| `viewerstream` | an attempt and a resume, two records of the journal that are streamed, a crash that may tear one of them or the first event, one hitch (a broken connection, a failed or late request) | the page's cursor is exact; the page follows the run as `LogFeed` says; it shows everything once the run stands still |
| `viewerhome` | three starters, two crashes, one probe missed | two starters are never between lock and release; the primary viewer is on record; nobody waits for ever for a dead one's lock |

The bounds are the smallest at which the cases of interest occur. Two restored
and two new messages let restored, live and queued mail overlap in every order;
three steers let a result be parsed with one steer answered, one read and one
written; four agents on two slots let two wait. Two launchers let one share, and
clear, the marker of the other; the aged marker and the reader let a sweep meet a
fresh one. Three engines let a resume be interrupted and resumed in its turn, so that
what one absorbed or charged is read again by another; the same text from two places
lets one send be taken for another; three threads let a resumed one be replaced and
the replacement resumed. In `durablecalls` the second fan-out repeats a call of the
first word for word, and a step depends on an agent's answer, so that a key that
forgot its branch, its order or its text finds another call's result. Reads of three
cells split records of two; two records to a batch and one frame on the wire make a
drain flush in the middle and the end of a stream overtake a slow page. Three starters
let two act on what they have read of a third that is dead.

Bounds that stand for no limit of the code are constants named `Max...`: `MaxMail`,
`MaxRestored`, `MaxSteer`, `MaxCost` (the most an agent spends), `MaxCrashes`,
`MaxOperator`, `MaxEngines` and `MaxAttempts` (engines started for one run),
`MaxReport` and `MaxSpend` (tokens of a report, of all), `MaxLaunches`, `MaxMailed`,
`MaxMisses`, `MaxEvents` (events up to which a run writes others than those that open and end
an attempt) and `MaxFacts` (records of the journal but the first), `MaxHitches`, `MaxResumes`. `MaxRead`, `MaxBatch` and `MaxWire` stand for
limits of the code, scaled to cells and frames. `HasAged` puts an aged marker there
before the launch.

`LostOnlyIfMoved` is checked and proved with one delete only, and is claimed for no more:
a second delete may hold the lock for its own look just when the child, whom the first one's
mark sent waiting, makes its last attempt.

### Fairness

A continuation whose promise is settled runs, so engine steps are weakly fair.
A provider process that was killed, or whose stdin is closed, ends: in
`ProcessTurn` the stall timer is fair, in `AgentJob` a cancelled turn settles. The
operator, the workflow's calls and other processes are not fair: nothing
promises that a question is answered or a resume attempted. Processes of
`RunLock`, `RunHandoff` and `ViewerHome` that have begun go on, unless they crash;
nobody has to start, stop or give up.
In `StateReader` the reader's steps and the ageing of marker and heartbeat are weakly
fair; no engine is, so a waiter's promise is about runs that no engine has any more.
In `ViewerStream` the page's steps and its polls are weakly fair: a browser dispatches
what arrived, retries, and `runStore` polls every ten seconds. The server's poll and
its state timer are strongly fair together, since each of them queues its work
whenever the connection has drained, and a slow page makes that happen on and off. Neither
an end of the run nor one of the stream is promised.

### The refinement

`Follows == Feed!FeedSpec` in `ViewerStream` says that the detailed stream implements
`LogFeed`, with the records of each file for `log`, what the page folded for `view`,
and the streams whose tail was overtaken by a rewrite (`misread`) for `overtaken`. A batch maps
to the viewer catching up, a reset or a replay detected by the page to starting one
stream over, a snapshot's answer to a snapshot; what the server reads and sends is a
stutter. A resume that cuts off a torn record, or completes it, is a stutter or a `Record`:
the torn record was never one.

### What the code does not keep

`runhandoff_revoked` shows: two launches may share one marker. The engine of the first
unlinks it when its preflight passes; when it ends, nothing shows the second
launch on its way, and a delete commits, against the comment at `run-lock.js:184`.

TLC refutes these too; each is defined beside the property that holds, and has no run
of its own:

* `ProcessTurn!NoFalseDelivery`: a claude process prints its result, reads a steer
  that was injected before the engine parsed that result, and dies. The result set
  the count of open messages to zero, so the turn is accepted and the steer marked
  done although nothing answered it.
* `RunLifecycle!CancelledRunEnds`, with two questions: cancelling a run rejects the
  questions pending at that moment. A workflow that catches the rejection and asks
  again waits for an answer nobody owes, and cancelling again does nothing.
* `RunLock!OneEngine`, `EngineReachable`, `LiveLockKept` and `SomeoneTakesOver`, each with three
  contenders and no further crash. All four need an `Overlap`: a contender that saw the dead
  lock renames the one the next contender has meanwhile created, so that a third gets past the
  lock beside the second, and is itself turned away. Then a window between two calls does it:
  * `listen()` (`control.js:111`) is bind(2) and then listen(2). The third probes the second's
    socket in between, is refused, discards it and binds its own; the second, listening now,
    finds a file at the path, takes it for its own, and both are engines, the second out of
    reach (`missed`). `ARCHITECTURE.md:337` promises that two engines never execute one run.
  * `release()` (`run-lock.js:84`) reads its lock back and unlinks the name, which by then
    holds the third's lock (`swept`); the comment at line 73 calls it safe.
  * The third finds the second listening, and the second, whose socket the third holds, finds
    nothing at the path and gives up; the third puts the dead socket back and gives up too
    (`withdrawn`): nobody becomes the engine.

  Without a window two engines take a `Crowded` race: three that had the lock, one that was
  turned away, and a second such one or a crash, so five contenders, or four of whom one
  crashes. That it takes no less is proved, and so is that two contenders keep all the claims.
* `SteeringReplay!DoneIsInSession`: `agent-proc.js:277` has it that with a session id a resume
  continues the same thread, in which the mail already is. `handleEvent` accepts another id while one
  is known (line 533) and records it as the session; mail that was marked done in the old thread
  is then in the resumed one only if the provider carried its history over. `DoneIsInSessionUnlessLeft`
  is what remains.
* `MCStateReader!OutcomeIsTrue`: a resume clears its marker (`engine.js:871`) and then
  the last attempt's result (line 872). A reader that has read the old result may find
  the engine neither answering nor, once it has died, holding the lock, and tells an
  outcome that was no longer so; the comment at line 863 promises the contrary.
* `MCViewerStream!EndIsComplete`: `src/docs/frontend/DESIGN.md:1036` takes an `end`
  frame to mean that the stream is complete. The server decides on the reader's
  verdict, the folded events and two quiet seconds, none of them of one moment: the
  journal may hold more than the frame's cursor. For events the page finds out by
  polling; the journal's records beyond an early end it does not fetch, since
  `revived()` compares the events' offset only (`runStore.ts:678`).

Met while modelling, without a definition of their own:

* A `sendTo()` that finds no live job leaves no ordinal, so after a resume the Nth send
  of a call site need not be the original Nth. A call site that sends the same text
  repeatedly may then have a send absorbed by an earlier one's record.
* A send whose call site cannot be resolved makes records that other call sites of the
  same sender may absorb, through the fallback key. The message is then sent again and
  not lost. `HandleSendsAreTheirOwn` is checked with known call sites only, and for
  handles, whose sends wait for the job.
* Usage has two cases in which a running total cannot be attributed, both marked by
  `blurred`: an engine that dies between the zero-reset and the session record of a new
  thread resumes the old thread from zero and charges its total again; a provider that
  opens another thread without naming it is charged against the old thread's baseline.
  `SpendSurvives` and `EngineSeesAll` are stated for all other histories.
* In the window between a rename and the look at what was renamed: an observer that
  sweeps an aged marker can hide a fresh one from a delete (`moved`); a marker's tmp
  that travels into the trash makes launcher and delete both give up; a child that lists
  the trash before, and reads the lock after, the delete's rename gives up on a run that is
  about to be handed back.
* An agent that was queued and never admitted has its index in the events but not in the
  journal, and the next attempt gives that index to another call, while the viewer's fold
  takes an index for the same agent in every attempt (`viewer/fold.js:328`).
* A tail tells a rewritten file by its size (`viewer/tail.js:72`). A torn record that a
  resume cuts off, and writes past before the tail looks, leaves the tail joining
  the torn bytes with new ones. `adrift` holds the streams whose tail is in that state,
  `misread` those of which the page got, or may yet get, what such a tail read: a reset
  that is on its way ends it only if no later one is and the tail behind it is sound.
* A closing viewer reads the record and unlinks it without the lock
  (`viewer/index.js:114`): the record of a successor may go (`robbed`). A viewer too busy
  to answer a probe in time gets a rival. `PrimaryIsOnRecord` is stated for all other
  histories. A starter that dies while it reclaims a lock leaves its claim, and that lock
  is not reclaimed by anybody; waiting for it ends by the time-out only (`LeftClaim`).
* `derive` told "stale" of a run that was none if a second engine took the run within
  the look, or if its engine took the lock after the reader had found it free
  and no heartbeat was there yet. `StaleIsTrue` is stated for the other looks.

## Proofs

The theorems hold for every value of the constants. Each proof module has an
inductive invariant (`SemInv`, `RunInv`, `TurnInv`, `RaceInv`, `LostInv`, `SInv`, `FollowInv`, `IInv` in
the others); one lemma per action or group of actions says that a step keeps it. A module
has the proofs of one or two components; each of those keeps an invariant of its own.

`RunLifecycle_proofs` proves for every finite set of agents and every limit that the
count is the number of holders and stays within the limit, that nobody waits
while a slot is free, waits twice, or waits for a slot it holds, and that the
queue is served in order. The inductive invariant `SemInv` is the conjunction of
the first four with the types: the direct handoff keeps `active = Cardinality(holders)`
only because the heir is not a holder yet (`WaitersDistinct`), and the count's lower bound
follows from that equation. The lemmas about sequences (`ToSet`, `Head`, `Tail`,
`Append` of injective sequences) are stated once.

It proves for every number of agents, questions, budget and
price: type correctness, `NothingOutlivesTheEnd`, `CancelledRunEndsInterrupted`,
`OvershootBounded`, `NothingStartsOnceClosed`, and that a run uses its semaphore as the
semaphore's specification says. The inductive invariant `RunInv` adds to the
properties
* `SemInv`, so that the holders are bounded by the limit;
* `SlotsInFlight`: holders and waiters are the agents in flight, so that an empty
  `InFlight` means no slot is taken;
* `Closed`: from the closing of the lifecycle on, `finishing` holds, so that nothing
  is admitted between the last drain and the end record;
* `FailedIsKnown`: which `pc` a thrown workflow can be at.

`RunNeverDeadlocks` and `CancelledRunGoesOn` are what is left of
`CancelledRunEndsUnlessAsking` without fairness: who is in flight holds a slot or stands in
the queue, and a queue means that all slots are held (`Reached`, `SomebodyHolds`), so a run that
cannot go on waits for a live agent or for the operator, and, once cancelled, for agents only
that were told so. `CanGoOn` is the disjunction of the guards of the fair actions.

`OvershootBounded` is inductive with these because each admission happens below the
budget and there are at most `Limit` live jobs.

`ProviderTurn_proofs` proves of `UsageReplay`, for every set of threads, every number of
engines and tokens: type correctness, `SpendSurvives`, `EngineSeesAll` and `SpendNeverForgotten`. Neither of
the first two is inductive: that a report adds to the chain exactly what it adds to the
job depends on where the baseline stands. `IInv` adds
* `Charges`: the chain's sum is what was reported, and what the results and the live job
  have charged does not exceed it, so that the crash window is the difference;
* `ThreadBaseline`, for running totals: the last record is the total of the thread a
  resume continues, and in a turn the baseline is the total of the thread that runs;
* `EventBaseline`, for deltas: the chain stands at the job's own total, or at a baseline
  which the first report resets;
* `Shape`: a new thread has used nothing and is not the one before, and an engine
  without a job has charged nothing that is not recorded.

`SpendNeverForgotten` needs only the types: results and chain both grow.

Of `ProcessTurn` it proves `SteersAccounted` and `NoFalseDeliveryUnlessCrashed` for every
protocol and any number of steers. The second relates a count to what is in two pipes:
* `Placed`: live, queued and delivered steers are all there are, the live ones in order;
* `InHand`: while the turn runs, the live ones are exactly those that were answered, that
  the process has read, that are in the pipe, or whose write fails, in this order;
* `Settling`: for the adapters that count, the turn ends printed and not parsed, one more,
  and the live steers do not exceed the count and the answered ones. So a count that has
  come to zero leaves none open. It is an inequality since a coalescing process answers
  several at once; claude's verdict rests on a process that went of itself having read all.

`NoStandoff` and `TurnRunsDown` are the safety half of `EveryTurnEnds`. `Open` adds to the
invariant that while amp's stdin is open, its count does not exceed what is unread, in the turn or
printed, so that an idle process with nothing to read or parse has had its stdin closed; and that a
claude process with an answer printed has had its stdin closed or its result is still to be
parsed. `Rank` weighs what is left to do, and each of a turn's steps lowers it.

`AgentJob_proofs` proves `MailAccounted`, `RecordsAreTrue` and `FollowUpInOrder` for every
set of adapters and any number of messages. The four lists of a job are cut, joined
and put in front of each other, so the invariant speaks of them by pairs:
* `Apart`: each list holds a message once, and no two lists hold the same one;
* `Accounted`: what is neither recorded nor dropped is held by some list;
* `InOrder`: the lists are ascending, and what a turn carries comes before what joined
  it, and that before what waits, until a live write has failed;
* `Lists`: which lists are empty at which `pc`, and that a parked waiter means an
  empty queue.

Of `Settles` it proves what needs no fairness: `JobIsNotParked`, and `JobCancelIsFinal`, by which
a cancelled job, which can go on until it is settled, has at most three steps to go.

Its lemmas say what joining, splitting, removing and taking the head do to the set of a
list, to its being without repetition, and to its order.

`RunHandoff_proofs` proves `OwnerIsAlone`, `AcceptedNotDeletedUnlessCleared` and
`ReadersKeepTheHandoff` for any number of launchers, deletes and readers:
* `Locked`: who owns the lock, from which step to which, and that the directory is in
  place exactly when no delete is past its rename. `OwnerIsAlone` follows.
* `AgedIsGone`: once a launcher's mark is on disk, under whatever name, the aged one is
  not the marker any more, so a sweep that ends cannot take a fresh mark along;
* `Watched`: while no engine cleared the marker and no observer moved it, the mark of an accepted
  launch is there, and a delete that had it in its baseline has seen it and does not
  go on. This is the "third ordering" of the comment, stated of single calls.

`LostOnlyIfMoved` is proved with at most one delete (`OneDelete`). `LostInv` adds
* `Holder`: who the lock names is at work, and only a delete takes the directory away, so
  a claim that fails has met an engine or a delete past its lock;
* `Asking`: a child asks about a delete only once one has begun, and comes to its last
  claim only once that one has let go of the lock. With a second delete the last conjunct
  is about two different ones, and the proof ends where the property does.

With any number of deletes two facts remain, the part of `EveryLaunchSettles` that needs no
fairness. Both rest on `AtWork`: whom the lock names has not gone away, and what is not in
its place a delete has moved. `HandoffAsksOfADelete`: a child goes round once more only when a
delete has the lock, and never for a lock left behind. `HandoffFailsForAReason`: its claim fails
only on another launch's engine, or on a delete that has the lock or is done.

Of `RunLock` it proves `LiveLockKeptUnlessSwept` for any number of contenders and crashes.
`RaceInv` has two parts: a contender comes to its rename with no claim in hand, so that no claim
is written over, and with a dead holder in mind, so that what it discards is no living
process's (`DeadSeen`); and a lock is kept from its creation on, before its body is there,
to its release (`LockKept`), unless a release has swept it away.

`WindowsNeedAnOverlap`: no window is hit (`missed`, `swept`, `withdrawn`) before an `Overlap`. A
live process past the lock whose lock is gone from its name lost it to a claim, and the
claimant is turned away, since that lock is not the dead one it saw (`ClaimantIsTurnedAway`);
so two are past the lock only in an overlap (`NoTwo`), and before one nobody meets anybody at
the socket (`Alone`). Two contenders make no overlap: `TwoKeepTheClaims`, with no exception.

`RaceTakesACrowd` says of every race, with any number of contenders and crashes: it is
`Crowded`, or `missed` or `swept`, or there is one engine and it can be reached. The proof
follows the two barriers:
* `Entered`: who writes a lock has no claim in hand and is not turned away, so a contender
  is one of the three or one of the two;
* `OnePlace`: a socket is in one place, at the path or in one prober's claim;
* short of a crowd, three are not on their way to the socket at once (`NoThree`);
* `Served`, short of a crowd: a server that is bound has its socket at the path, or in the claim
  of a prober that will put it back into the path it left free, since a third process would have
  to bind there; and the socket an engine takes for its own is its own.

A crowd once is a crowd for good, and `Few` contenders are none: hence `FewHaveOneEngine` and
`FewReachTheirEngine`, for three contenders with any crashes or four with none. The run
`runlock` is an instance of the first case.

`SomebodyStays` is the part of `TakenOverUnlessWithdrawn` that needs no fairness: while nobody
has crashed, not all contenders are refused, however many there are. By `Hope`, the socket at the
path is nobody's who is out, and when all that came past the lock are out or have just
bound, one of their sockets is there; so whoever is refused leaves another behind. With
fairness, and since each contender ends as the engine or refused, one becomes the engine.

`SteeringReplay_proofs` proves `NothingStranded`, `DoneNotRepeated` and
`DoneIsInSessionUnlessLeft` for every workflow and any number of engines, which may die
between any two appends. Besides what each list holds at each
point (`Accepted`, `Lists`) it needs `Unsaved`: mail delivered without a session is in the
thread whose result the engine is about to record, so that a crash among the records that
follow the result strands nothing unread. It also needs `Numbered`: records that agree in sender, call
site, ordinal and text are told apart by a copy number below their count, so that a newly accepted
message is never taken for one that is marked done.

`AcksAreCovered` needs `Absorbing`: of each text, the acknowledged sends of this engine and
the messages that can still absorb one are together no more than the messages on record.
The property compares sends and messages; the sum is what a step keeps. For
`HandleSendsAreTheirOwn` the theorem has a hypothesis, `KnownSites`: the sender and the call
site of each send are known. `wfCallsite()` may return none, and then records of other call
sites match. Its invariant says that what a handle keeps for its job are
the sends the job has not seen, all of them and in order (`Waiting`), so that the next
send has the next ordinal, and that a message of a later ordinal is still there to absorb it
(`Expected`).

`StateReader_proofs` proves `LiveSeenLive`. `LiveLook`: all that is so of the directory
while the reader looks is on its history; so if the run was live throughout, a reader past the
marker has the engine's lock ahead of it, since an engine clears the announcement only when it holds
the lock, and a released lock with no announcement would not be live.

`StaleIsTrue` has an invariant of its own, `SInv`: what the files say of each other
(`Files`), and what a reader may conclude at each point of a look in which the run was never
stale (`StaleLook`): past the marker, whoever has released the lock has left a result; so
a reader that found no result and then a free lock has looked before any engine came, and
the journal it reads last tells it so.

`DurableCalls_proofs` proves `ReplayAgrees`, `IndexIsOwn`, `SeedIsSealed` and the action
property `SealedIsFinal` for every program of fan-outs, any number of attempts and any order
of their items:
* `Places`: an item's branch and counters are functions of its place in the program, and the
  values it has been given are those of earlier attempts, as far as one has come; so the
  key of a call is the same in each attempt (`KeyOf`), and no two calls share one;
* `Sealed`: what an item was given is sealed under that key, what it will be given again
  is in the journal this attempt has read, and nothing else is sealed;
* `Open`: a call that is under way is not sealed, so what it runs is not run again;
* `Indexes`: the indexes on record and those handed out since are below the next one,
  and one handed out to a queued agent is not yet anybody's.

`Viewer_proofs` proves of `ViewerHome` `OneStarter` and `PrimaryIsOnRecord` for any number of starters
and crashes:
* `Holders`: whoever is between lock and release is named by the lock;
* `Judged`: a lock that is to be reclaimed is that of a process that is gone, and the one
  that is about to unlink it finds it still there;
* `Claims`: a claim, named for one lock, is held by one process;
* `Recorded`: what a starter has found stays on record until it is through, and a starter
  that is to be the primary has no rival.

`HomeLockIsReclaimable` is the safety half of `WaitEnds`: a claim has a process that made it
and retires it, or died (`ClaimsHeld`).

It proves of `ViewerStream`, for every size of read, batch and wire and any number of
records, hitches and resumes, `CursorIsExact` and the refinement `Follows`. The invariant
`FollowInv` says of every stream that is not misread:
* the frames on their way go on from one another (`Link`): each covers exactly the records
  that the file shows between the offset where it starts and its id (`Covers`), or starts
  the stream over; the server's tail goes on from the last (`Reach`), and what it has
  read is the cursor's part and pending cells of which none ends a line (`Tails`);
* the first frame starts where the page stands, or at a `Last-Event-ID` that is behind it
  and before which the file shows nothing (`Level`): that is why the page may take a
  first record behind its cursor for a replay of the whole stream;
* the page shows what its cursor covers (`Shown`), and so does a snapshot (`Asked`).

A misread stream has the first of these from its last reset on (`CleanAt`), unless its tail
is adrift: so it is sound again once that reset arrives. The files keep their complete lines
(`Grows`), so that all of this survives whatever the engine appends and a resume cuts off.
A drain consumes a chunk line by line (`Pushed`), and a page takes a batch record by record
(`Taken`): both are recursive functions, and the lemmas about them (`PushFacts`,
`TakeFacts`) are inductions over a set of naturals (`Climb`). `PageFollows` maps the steps
of the engine to `Record` or to none, a drain to `Overtake` or to none, and the others to
`Show`: what is shown up to a cursor begins what is shown in all (`RecordsBegin`).

Assumed are only facts about the constants, which TLC evaluates in the runs: their
types, that `None`, `Nobody`, `Aged` and `Dead` are no processes, that launchers, deletes and readers
are different (`HandoffAssumption`; each stands for one launch, delete or look, and a process
that makes two of them counts as two), and that
adapters which are called directly keep no stdin open (`ProfilesAssumption`).

Proved and not run: the queue's order (`FirstComeFirstServed`), `NothingStartsOnceClosed`,
`CancelledRunEndsInterrupted`, `SpendNeverForgotten`, the halves of liveness properties named
above, `RaceTakesACrowd`, `WindowsNeedAnOverlap`, `TwoKeepTheClaims`, and the types of `Semaphore`,
`RunLifecycle`, `UsageReplay` and `ViewerStream`. Most modules state a `TypeOK` for the reader; the proofs
have the types they need in their invariants.

Only model-checked: all liveness properties; the prover has no rules for fairness. Of six of
them the part that needs no fairness is proved, that those who wait have something to wait
for that is under way: `Settles`, `EveryTurnEnds`, `CancelledRunEndsUnlessAsking`,
`TakenOverUnlessWithdrawn`, `WaitEnds` and `EveryLaunchSettles` as said above. Of `WaiterIsTold`
and `CatchesUp` nothing of the kind is.

## Not modelled

* Write callbacks of a process's stdin that arrive after the process closed.
* The 1000-agent cap, workspaces, detached questions; pipeline stages, phases, explicit
  keys, `random` and `now`; the hits of a seed in its target run, and chains of seeds.
  Keys are taken to be injective, as hashes are.
* The limit of ten attempts of `acquireRunLock`; reuse of process ids; what closing a server in
  Node does by itself to the name it bound.
* Time: the 30 seconds after which a marker is old are a fact of the instance
  (`HasAged`) or a step of its own (`StateReader`), the 15 seconds a child waits never
  run out.
* The pinning of directories by device and inode in the delete.
* In `SteeringReplay`, the order of mail, failed writes and cancellation, which are in
  `AgentJob`; records of older versions of the journal. In `UsageReplay`, tokens are of
  one kind, and cost, which no chain of totals covers, is left out.
* In `StateReader`, a corrupt result and a bind that is lost; sweeping a marker is one
  step there and in detail in `RunHandoff`.
* In `ViewerStream`, agents' transcripts, runs that are deleted while they are shown,
  malformed cursors, lines over the size limit, and the state frames, which change only
  what is displayed. One page, one run.
* In `ViewerHome`, the rotation of an exposed credential, the tailscale policy, `--stop`,
  and several calls of one process, which queue up before they reach the lock.
* The viewer's fold beyond the events the stream needs: it is a pure function of what was
  read, most of it wording and layout of what is shown; the folds of transcripts
  likewise.
* HTTP, routes, sessions, static files, pages, audit, search; the single-page application
  beyond its stream; the command line, the MCP server, the guide; adapters' command
  lines and the mock; the cockpit plugin. These render, parse and forward. What they do
  that changes a run is modelled where it arrives: a launch in `RunHandoff`, a wait in
  `StateReader`, a steer in `AgentJob`.
