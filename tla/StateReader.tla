------------------------------ MODULE StateReader ------------------------------
(***************************************************************************)
(* What a reader tells of a run from its directory (deriveRunState) while  *)
(* engines come and go: it looks at the resume marker, the result, the     *)
(* control socket, the lock, the heartbeat and the journal one after       *)
(* another, and no two of these looks are one.  An engine writes and       *)
(* clears the same files in an order of its own, may refuse, and may die   *)
(* at any step.  A waiter (result --wait, flowition_result) looks again    *)
(* until it is told an outcome.                                            *)
(*                                                                         *)
(* Sweeping an aged marker is one step here; RunHandoff has it in detail.  *)
(***************************************************************************)
EXTENDS Naturals

CONSTANTS
  MaxAttempts,   \* bound: engines that take the run, one after another
  MaxLaunches    \* bound: resumes that a launcher announces with a marker

ASSUME ReaderAssumption == MaxAttempts \in Nat \ {0} /\ MaxLaunches \in Nat

NoResult == 0

VARIABLES
  disk,       \* the run directory, and where the engine that owns it stands
  launches,
  reader,     \* where the reader stands, what it has read, what it told last
  held        \* history of the look: what was so at some moment of it, how many engines
              \* were at the run, and whether one took the lock after the last look at it

vars == <<disk, launches, reader, held>>

\* liveLockPid: run.lock names a live process.
LockHeld == disk.at # "off"
\* The control socket is served from its bind to its close.
Served == disk.at \in {"bound", "failing", "failed", "cleared", "fresh", "recorded", "running"}
\* A run that could not start has a journal without a meta record: nothing resumes it.
IsResume == disk.journal # "none"

\* A verdict, or the outcome of an attempt.
Says(v) == <<v, NoResult>>
Outcome(n) == <<"outcome", n>>

\* What may be told of the directory at a moment.  A held lock is an engine, a young marker
\* announces one, and a heartbeat stands for one until it is old: the lock may be the only
\* one that knows better.
Truths(d) ==
  LET starting == {Says(x) : x \in {y \in {"starting"} : d.marker = "young"}}
      beating == {Says(x) : x \in {y \in {"running"} : d.beat = "young"}}
  IN IF d.at # "off" THEN {Says("running")} \cup starting
     ELSE IF d.marker = "young" THEN starting
     ELSE IF d.result # NoResult THEN {Outcome(d.result)}
     ELSE IF d.beat # "none" \/ d.journal # "none" THEN {Says("stale")} \cup beating
     ELSE {Says("unknown")}

Start == [pc |-> "marker", again |-> TRUE, result |-> NoResult, beat |-> "none"]

Init ==
  /\ disk = [at |-> "off", n |-> 0, marker |-> "none", result |-> NoResult, beat |-> "none",
             journal |-> "none", socket |-> FALSE]
  /\ launches = 0
  /\ reader = [pc |-> "idle", told |-> Says("nothing")]
  /\ held = [truths |-> {}, engines |-> 0, late |-> FALSE]

Looking == reader.pc \notin {"idle", "returned"}
Becomes(d) ==
  /\ disk' = d /\ held' = [held EXCEPT !.truths = IF Looking THEN @ \cup Truths(d) ELSE @]
  /\ UNCHANGED reader

-----------------------------------------------------------------------------
(* The engine and the clock *)

\* A launcher announces a resume.
Launch ==
  /\ disk.journal = "meta" /\ disk.at = "off" /\ launches < MaxLaunches
  /\ launches' = launches + 1 /\ Becomes([disk EXCEPT !.marker = "young"])

TakeLock ==
  /\ disk.at = "off" /\ disk.n < MaxAttempts
  /\ disk' = [disk EXCEPT !.at = "locked", !.n = @ + 1] /\ UNCHANGED <<launches, reader>>
  /\ held' = IF ~Looking THEN held
             ELSE [truths |-> held.truths \cup Truths(disk'), engines |-> held.engines + 1,
                   late |-> held.late \/ (reader.beat = "none" /\ reader.pc \in {"appeared", "journal"})]

\* The socket is bound, and a launch's marker counts from now.
Bind ==
  /\ disk.at = "locked"
  /\ Becomes([disk EXCEPT !.at = "bound", !.socket = TRUE,
                          !.marker = IF IsResume /\ @ # "none" THEN "young" ELSE @])
  /\ UNCHANGED launches

\* A resume whose validation fails leaves the directory as it was; a fresh run that
\* cannot start records that it failed.
RefuseResume ==
  /\ disk.at = "bound" /\ IsResume
  /\ Becomes([disk EXCEPT !.at = "done", !.socket = FALSE]) /\ UNCHANGED launches
FailFresh ==
  /\ disk.at = "bound" /\ ~IsResume
  /\ Becomes([disk EXCEPT !.at = "failing", !.journal = "failed"]) /\ UNCHANGED launches
RecordFailure ==
  disk.at = "failing" /\ Becomes([disk EXCEPT !.at = "failed", !.result = disk.n]) /\ UNCHANGED launches
CloseFailed ==
  /\ disk.at = "failed"
  /\ Becomes([disk EXCEPT !.at = "done", !.socket = FALSE]) /\ UNCHANGED launches

\* An engine that passed its preflight clears the marker, then the result of the last
\* attempt, and then shows that it is there.
ClearMarker ==
  /\ disk.at = "bound" /\ disk.journal # "failed"
  /\ Becomes([disk EXCEPT !.at = "cleared", !.marker = "none"]) /\ UNCHANGED launches
ClearResult ==
  disk.at = "cleared" /\ Becomes([disk EXCEPT !.at = "fresh", !.result = NoResult]) /\ UNCHANGED launches
WriteMeta ==
  disk.at = "fresh" /\ Becomes([disk EXCEPT !.at = "recorded", !.journal = "meta"]) /\ UNCHANGED launches
Beat ==
  /\ disk.at \in {"recorded", "running"}
  /\ Becomes([disk EXCEPT !.at = "running", !.beat = "young"]) /\ UNCHANGED launches

\* The end: the socket is closed, the result renamed into place, the lock released.
CloseSocket ==
  disk.at = "running" /\ Becomes([disk EXCEPT !.at = "closing", !.socket = FALSE]) /\ UNCHANGED launches
WriteResult ==
  disk.at = "closing" /\ Becomes([disk EXCEPT !.at = "done", !.result = disk.n]) /\ UNCHANGED launches
Release == disk.at = "done" /\ Becomes([disk EXCEPT !.at = "off"]) /\ UNCHANGED launches

\* A dead engine leaves its lock and its socket behind: nobody holds or serves them.
Crash == LockHeld /\ Becomes([disk EXCEPT !.at = "off"]) /\ UNCHANGED launches

MarkerAges ==
  disk.marker = "young" /\ Becomes([disk EXCEPT !.marker = "aged"]) /\ UNCHANGED launches
HeartbeatAges ==
  disk.beat = "young" /\ Becomes([disk EXCEPT !.beat = "old"]) /\ UNCHANGED launches

-----------------------------------------------------------------------------
(* The reader *)

At(p) == reader.pc = p /\ UNCHANGED launches
Goto(p) == reader' = [reader EXCEPT !.pc = p] /\ UNCHANGED <<disk, held>>
Tell(v) ==
  /\ reader' = [pc |-> IF v[1] \in {"outcome", "stale"} THEN "returned" ELSE "idle", told |-> v]
  /\ UNCHANGED <<disk, held>>

\* A probe of the socket: nobody serves it, or the event loop is busy past the time-out.
Answered == Served
Unanswered == TRUE

Look ==
  /\ At("idle")
  /\ reader' = Start /\ UNCHANGED disk
  /\ held' = [truths |-> Truths(disk), engines |-> IF LockHeld THEN 1 ELSE 0, late |-> FALSE]

\* A slip: a marker counts however old it is.
LookMarker_Ageless ==
  /\ At("marker")
  /\ IF disk.marker # "none" THEN Goto("probeStarting") ELSE Goto("result")

\* resumeIsStarting: a young marker; an aged one is swept.
LookMarker ==
  /\ At("marker")
  /\ IF disk.marker = "young" THEN Goto("probeStarting")
     ELSE /\ disk' = [disk EXCEPT !.marker = "none"]
          /\ reader' = [reader EXCEPT !.pc = "result"] /\ UNCHANGED held

ProbeStarting ==
  /\ At("probeStarting")
  /\ (Answered /\ Tell(Says("running"))) \/ (Unanswered /\ Tell(Says("starting")))

LookResult ==
  /\ At("result")
  /\ reader' = [reader EXCEPT !.result = disk.result,
                              !.pc = IF disk.result # NoResult THEN "probeResult" ELSE "beat"]
  /\ UNCHANGED <<disk, held>>

ProbeResult ==
  /\ At("probeResult")
  /\ (disk.socket /\ Answered /\ Tell(Says("running"))) \/ (Unanswered /\ Goto("lockOfResult"))

\* A slip: the terminal file is trusted without a look at the lock.
LookLockOfResult_Trusting == At("lockOfResult") /\ Tell(Outcome(reader.result))

\* The terminal file is not trusted while the lock is held.
LookLockOfResult ==
  /\ At("lockOfResult")
  /\ IF LockHeld THEN Tell(Says("running")) ELSE Tell(Outcome(reader.result))

LookBeat ==
  /\ At("beat")
  /\ reader' = [reader EXCEPT !.beat = disk.beat, !.pc = "probe"]
  /\ UNCHANGED <<disk, held>>

Probe ==
  /\ At("probe")
  /\ \/ Answered /\ Tell(Says("running"))
     \/ Unanswered /\ reader.beat = "young" /\ Tell(Says("running"))
     \/ Unanswered /\ Goto("lock")   \* a heartbeat read young may be old by now

LookLock ==
  /\ At("lock")
  /\ IF LockHeld THEN Tell(Says("running")) ELSE Goto("appeared")

\* A slip: a result that has appeared is not looked for.
Appeared_Never == reader.again /\ FALSE

\* A result that has appeared: derive again, once.
Appeared == reader.again /\ disk.result # NoResult
LookAgain ==
  /\ At("appeared")
  /\ IF Appeared THEN reader' = [Start EXCEPT !.again = FALSE] /\ UNCHANGED <<disk, held>>
     ELSE IF reader.beat # "none" THEN Tell(Says("stale")) ELSE Goto("journal")

LookJournal == At("journal") /\ Tell(Says(IF disk.journal # "none" THEN "stale" ELSE "unknown"))

Engine ==
  \/ Launch \/ TakeLock \/ Bind \/ RefuseResume \/ FailFresh \/ RecordFailure \/ CloseFailed
  \/ ClearMarker \/ ClearResult \/ WriteMeta \/ Beat \/ CloseSocket \/ WriteResult \/ Release \/ Crash

Clock == MarkerAges \/ HeartbeatAges

Read ==
  \/ Look \/ LookMarker \/ ProbeStarting \/ LookResult \/ ProbeResult \/ LookLockOfResult
  \/ LookBeat \/ Probe \/ LookLock \/ LookAgain \/ LookJournal

Next == Engine \/ Clock \/ Read

\* A waiter looks until it is told, and time passes.  No engine owes anybody anything.
Spec == Init /\ [][Next]_vars /\ WF_vars(Read) /\ WF_vars(MarkerAges) /\ WF_vars(HeartbeatAges)

Told == ~Looking /\ held.truths # {}
Live == {Says("running"), Says("starting")}

\* A run that is live, or announced, throughout the look is told as live: whatever the
\* directory still holds of an attempt before, and however busy its engine is.
LiveSeenLive == Told /\ held.truths \subseteq Live => reader.told \in Live

\* "stale" (its waiter gives up on the run) was so at some moment of the look: an engine
\* that ran to its end while the reader was between two reads is not told as a crash.
\* Not so when a second engine takes the run within the look, nor when the only one takes
\* the lock after the reader has found it free and the reader has seen no heartbeat.
StaleIsTrue ==
  Told /\ reader.told = Says("stale") /\ held.engines <= 1 /\ ~held.late
    => Says("stale") \in held.truths

\* Whoever waits for a run that no engine has any more is told how it ended: by an
\* outcome, or that it crashed.
WaiterIsTold ==
  <>[](~LockHeld /\ disk.journal # "none") => <>(reader.pc = "returned")
=============================================================================
