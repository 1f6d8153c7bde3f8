-------------------------- MODULE StateReader_proofs --------------------------
(***************************************************************************)
(* However many engines and launches there are: a run that is live or      *)
(* announced throughout a look is told as live, and one that is told as    *)
(* stale was so at some moment of the look.                                *)
(***************************************************************************)
EXTENDS StateReader, TLAPS

Marks == {"none", "young", "aged"}
Disk == [at : {"off", "locked", "bound", "failing", "failed", "cleared", "fresh", "recorded",
               "running", "closing", "done"},
         n : Nat, marker : Marks, result : Nat, beat : {"none", "young", "old"},
         journal : {"none", "failed", "meta"}, socket : BOOLEAN]

\* Before the reader is past the marker; where it counts on the lock; where it has found
\* the lock free.
First == {"marker", "probeStarting"}
Middle == {"result", "probeResult", "lockOfResult", "beat", "probe", "lock"}
Last == {"appeared", "journal"}
LookType == [pc : First \cup Middle \cup Last, again : BOOLEAN, result : Nat,
             beat : {"none", "young", "old"}]

Types ==
  /\ disk \in Disk
  /\ Looking => reader \in LookType
  /\ ~Looking => reader = [pc |-> reader.pc, told |-> reader.told]

\* A reader that was never told otherwise.
OnlyLive == held.truths \subseteq Live

\* While it looks, what is so of the directory is on the history.  One that has passed the
\* marker has found no announcement, so it was the lock that made the run live, and
\* whoever releases the lock leaves no announcement.
LiveLook ==
  Looking =>
    /\ Truths(disk) \subseteq held.truths
    /\ OnlyLive => /\ reader.again
                   /\ reader.pc \in Middle => LockHeld /\ disk.marker = "none"
                   /\ reader.pc \notin Last

IInv == Types /\ LiveLook /\ LiveSeenLive
-----------------------------------------------------------------------------
\* Only a held lock or an announcement makes a run live.
LEMMA WhyLive ==
  ASSUME NEW d \in Disk, Truths(d) \subseteq Live
  PROVE d.at # "off" \/ d.marker = "young"
<1> SUFFICES ASSUME d.at = "off", d.marker # "young" PROVE FALSE
  OBVIOUS
<1>1. \/ Outcome(d.result) \in Truths(d) \/ Says("stale") \in Truths(d) \/ Says("unknown") \in Truths(d)
  BY DEF Truths
<1>2. Outcome(d.result) \notin Live /\ Says("stale") \notin Live /\ Says("unknown") \notin Live
  BY DEF Live, Says, Outcome
<1> QED
  BY <1>1, <1>2

\* A step of the engine or of the clock, and what it does to a look.
LEMMA DiskStep ==
  ASSUME IInv, NEW d \in Disk, disk' = d, UNCHANGED reader,
         held'.truths = IF Looking THEN held.truths \cup Truths(d) ELSE held.truths,
         disk.marker = "none" /\ LockHeld => d.marker = "none"
  PROVE IInv'
<1>1. Looking' <=> Looking
  BY DEF Looking
<1>2. Types'
  BY <1>1 DEF IInv, Types
<1>3. ASSUME Looking PROVE LiveLook'
  <2>1. Truths(disk)' \subseteq held'.truths
    BY <1>3 DEF Truths
  <2>2. ASSUME OnlyLive'
        PROVE reader.again /\ reader.pc \notin Last /\ (reader.pc \in Middle => LockHeld' /\ d.marker = "none")
    <3>1. OnlyLive
      BY <1>3, <2>2 DEF OnlyLive, Live
    <3>2. Truths(d) \subseteq Live
      BY <1>3, <2>2 DEF OnlyLive, Live
    <3>3. d.at # "off" \/ d.marker = "young"
      BY <3>2, WhyLive
    <3> QED
      BY <1>3, <3>1, <3>3 DEF IInv, LiveLook, LockHeld
  <2> QED
    BY <2>1, <2>2 DEF LiveLook, LockHeld
<1>4. LiveLook'
  BY <1>1, <1>3 DEF LiveLook
<1>5. LiveSeenLive'
  BY <1>1 DEF IInv, LiveSeenLive, Told, Live
<1> QED
  BY <1>2, <1>4, <1>5 DEF IInv

LEMMA EngineStep == IInv /\ (Engine \/ Clock) => IInv'
<1> SUFFICES ASSUME IInv, Engine \/ Clock PROVE IInv'
  OBVIOUS
<1> disk \in Disk
  BY DEF IInv, Types
<1>1. ASSUME NEW d \in Disk, Becomes(d), disk.marker = "none" /\ LockHeld => d.marker = "none"
      PROVE IInv'
  <2>1. held'.truths = IF Looking THEN held.truths \cup Truths(d) ELSE held.truths
    BY <1>1 DEF Becomes
  <2> QED
    BY <1>1, <2>1, DiskStep DEF Becomes
<1>2. CASE TakeLock
  <2>1. disk' \in Disk /\ disk'.marker = disk.marker /\ UNCHANGED reader
    <3>1. disk' = [disk EXCEPT !.at = "locked", !.n = disk.n + 1] /\ UNCHANGED reader
      BY <1>2 DEF TakeLock
    <3>2. disk.n + 1 \in Nat
      BY DEF Disk
    <3> QED
      BY <3>1, <3>2 DEF Disk
  <2>2. held'.truths = IF Looking THEN held.truths \cup Truths(disk') ELSE held.truths
    BY <1>2 DEF TakeLock
  <2> QED
    BY <2>1, <2>2, DiskStep
<1> USE DEF Disk, Marks, LockHeld
<1>3. CASE Launch
  BY <1>1, <1>3 DEF Launch
<1>4. CASE Bind
  BY <1>1, <1>4 DEF Bind
<1>5. CASE RefuseResume \/ FailFresh \/ RecordFailure \/ CloseFailed
  BY <1>1, <1>5 DEF RefuseResume, FailFresh, RecordFailure, CloseFailed
<1>6. CASE ClearMarker \/ ClearResult \/ WriteMeta \/ Beat
  BY <1>1, <1>6 DEF ClearMarker, ClearResult, WriteMeta, Beat, NoResult
<1>7. CASE CloseSocket \/ WriteResult \/ Release \/ Crash
  BY <1>1, <1>7 DEF CloseSocket, WriteResult, Release, Crash
<1>8. CASE MarkerAges \/ HeartbeatAges
  BY <1>1, <1>8 DEF MarkerAges, HeartbeatAges
<1> QED
  BY <1>2, <1>3, <1>4, <1>5, <1>6, <1>7, <1>8 DEF Engine, Clock

\* A step of the reader.
LEMMA ReadStep == IInv /\ Read => IInv'
<1> SUFFICES ASSUME IInv, Read PROVE IInv'
  OBVIOUS
<1> USE DEF IInv, Types
\* The reader goes on, and the directory is as it was, but for an aged marker.
<1>1. ASSUME Looking, reader' \in LookType, UNCHANGED <<disk, held>>,
             OnlyLive => /\ reader'.again
                         /\ reader'.pc \in Middle => LockHeld /\ disk.marker = "none"
                         /\ reader'.pc \notin Last
      PROVE IInv'
  <2>1. Looking'
    BY <1>1 DEF LookType, First, Middle, Last, Looking
  <2> QED
    BY <1>1, <2>1 DEF LiveLook, LiveSeenLive, Told, OnlyLive, LockHeld
\* The reader tells what it has found.
<1>2. ASSUME NEW v, Looking, Tell(v), OnlyLive => v \in Live
      PROVE IInv'
  <2>1. ~Looking' /\ reader' = [pc |-> reader'.pc, told |-> v] /\ UNCHANGED <<disk, held>>
    BY <1>2 DEF Tell, Looking
  <2> QED
    BY <1>2, <2>1 DEF LiveLook, LiveSeenLive, Told, OnlyLive, Live
<1>3. Says("running") \in Live /\ Says("starting") \in Live
  BY DEF Live
<1>4. CASE Look
  <2>1. Looking' /\ reader' = Start /\ UNCHANGED disk /\ held'.truths = Truths(disk)
    BY <1>4 DEF Look, Looking, Start
  <2> QED
    BY <2>1 DEF LiveLook, LiveSeenLive, Told, Looking, Start, LookType, First, Middle, Last, Truths, NoResult
<1> USE DEF Middle, Last
<1>5. CASE LookMarker
  <2>1. Looking /\ reader \in LookType
    BY <1>5 DEF LookMarker, At, Looking
  <2>2. CASE disk.marker = "young"
    BY <1>1, <1>5, <2>1, <2>2 DEF LookMarker, At, Goto, LookType, First, LiveLook
  <2>3. CASE disk.marker # "young"
    <3>1. /\ disk' = [disk EXCEPT !.marker = "none"] /\ UNCHANGED held
          /\ reader' = [reader EXCEPT !.pc = "result"]
      BY <1>5, <2>3 DEF LookMarker
    <3>2. disk' \in Disk /\ reader' \in LookType
      BY <2>1, <3>1 DEF Disk, Marks, LookType
    <3>3. Truths(disk') = Truths(disk)
      BY <2>3, <3>1 DEF Truths, Disk
    <3>4. OnlyLive => LockHeld
      <4> SUFFICES ASSUME OnlyLive PROVE disk.at # "off"
        BY DEF LockHeld
      <4>1. Truths(disk) \subseteq Live
        BY <2>1 DEF LiveLook, OnlyLive
      <4> QED
        BY <2>3, <4>1, WhyLive
    <3>5. Looking'
      BY <2>1, <3>1 DEF Looking, LookType
    <3>6. reader'.pc = "result" /\ reader'.again = reader.again /\ disk'.marker = "none" /\ disk'.at = disk.at
      BY <2>1, <3>1 DEF LookType, Disk
    <3>7. LiveLook'
      BY <2>1, <3>1, <3>3, <3>4, <3>6 DEF LiveLook, OnlyLive, LockHeld, Live, Truths
    <3> QED
      BY <3>2, <3>5, <3>7 DEF LiveSeenLive, Told
  <2> QED
    BY <2>2, <2>3
<1>6. CASE ProbeStarting
  BY <1>2, <1>3, <1>6 DEF ProbeStarting, At, Looking
<1>7. CASE LookResult \/ LookBeat
  <2>1. Looking /\ reader \in LookType
    BY <1>7 DEF LookResult, LookBeat, At, Looking
  <2>2. reader' \in LookType /\ reader'.again = reader.again /\ reader'.pc \in Middle
        /\ reader.pc \in Middle /\ UNCHANGED <<disk, held>>
    BY <1>7, <2>1 DEF LookResult, LookBeat, At, LookType, Disk
  <2> QED
    BY <1>1, <2>1, <2>2 DEF LiveLook
<1>8. CASE ProbeResult \/ Probe
  <2>1. Looking /\ reader \in LookType /\ reader.pc \in Middle
    BY <1>8 DEF ProbeResult, Probe, At, Looking
  <2>2. CASE Tell(Says("running"))
    BY <1>2, <1>3, <2>1, <2>2
  <2>3. CASE Goto("lockOfResult") \/ Goto("lock")
    <3>1. reader' \in LookType /\ reader'.again = reader.again /\ reader'.pc \in Middle
          /\ UNCHANGED <<disk, held>>
      BY <2>1, <2>3 DEF Goto, LookType
    <3> QED
      BY <1>1, <2>1, <3>1 DEF LiveLook
  <2> QED
    BY <1>8, <2>2, <2>3 DEF ProbeResult, Probe
<1>9. CASE LookLockOfResult
  <2>1. Looking /\ (OnlyLive => LockHeld)
    BY <1>9 DEF LookLockOfResult, At, Looking, LiveLook
  <2> QED
    BY <1>2, <1>3, <1>9, <2>1 DEF LookLockOfResult
<1>10. CASE LookLock
  <2>1. Looking /\ reader \in LookType /\ (OnlyLive => LockHeld)
    BY <1>10 DEF LookLock, At, Looking, LiveLook
  <2>2. CASE LockHeld
    BY <1>2, <1>3, <1>10, <2>1, <2>2 DEF LookLock
  <2>3. CASE ~LockHeld
    <3>1. reader' \in LookType /\ UNCHANGED <<disk, held>>
      BY <1>10, <2>1, <2>3 DEF LookLock, Goto, LookType
    <3> QED
      BY <1>1, <2>1, <2>3, <3>1
  <2> QED
    BY <2>2, <2>3
<1>11. CASE LookAgain \/ LookJournal
  <2>1. Looking /\ reader \in LookType /\ ~OnlyLive
    BY <1>11 DEF LookAgain, LookJournal, At, Looking, LiveLook
  <2>2. CASE \E v : Tell(v)
    BY <1>2, <2>1, <2>2
  <2>3. CASE reader' = [Start EXCEPT !.again = FALSE] /\ UNCHANGED <<disk, held>>
    <3>1. reader' \in LookType
      BY <2>3 DEF Start, LookType, First, NoResult
    <3> QED
      BY <1>1, <2>1, <2>3, <3>1
  <2>4. CASE Goto("journal")
    <3>1. reader' \in LookType /\ UNCHANGED <<disk, held>>
      BY <2>1, <2>4 DEF Goto, LookType
    <3> QED
      BY <1>1, <2>1, <3>1
  <2> QED
    BY <1>11, <2>2, <2>3, <2>4 DEF LookAgain, LookJournal
<1> QED
  BY <1>4, <1>5, <1>6, <1>7, <1>8, <1>9, <1>10, <1>11 DEF Read

LEMMA Invariance == Spec => []IInv
<1>1. Init => IInv
  BY DEF Init, IInv, Types, Disk, Marks, Looking, LiveLook, LiveSeenLive, Told, NoResult
<1>2. IInv /\ [Next]_vars => IInv'
  <2>1. IInv /\ UNCHANGED vars => IInv'
    BY DEF vars, IInv, Types, Looking, LiveLook, OnlyLive, LockHeld, LiveSeenLive, Told, Truths, Live
  <2> QED
    BY <2>1, EngineStep, ReadStep DEF Next
<1> QED
  BY <1>1, <1>2, PTL DEF Spec
-----------------------------------------------------------------------------
\* A run that is live, or announced, throughout the look is told as live: whatever the
\* directory still holds of an attempt before, and however busy its engine is.
THEOREM ReaderSeesLive == Spec => []LiveSeenLive
BY Invariance, PTL DEF IInv

-----------------------------------------------------------------------------
(* When "stale" is told *)

\* What the files say of each other, whichever engines have been at the run.
Files ==
  /\ disk.marker # "none" => disk.journal = "meta"
  /\ disk.beat # "none" => disk.journal = "meta"
  /\ disk.at \in {"cleared", "fresh", "recorded", "running", "closing"} => disk.marker = "none"
  /\ disk.at \in {"recorded", "running", "closing"} => disk.journal = "meta"
  /\ disk.at \in {"failing", "failed"} => disk.journal = "failed"
  /\ disk.at # "off" => disk.n > 0

HeldType ==
  /\ held = [truths |-> held.truths, engines |-> held.engines, late |-> held.late]
  /\ held.engines \in Nat /\ held.late \in BOOLEAN

\* A look in which the run was never stale, with one engine at most, and that one in time.
Unseen == Says("stale") \notin held.truths /\ held.engines <= 1 /\ ~held.late

\* Where the reader has found no result.
Past == {"beat", "probe", "lock", "appeared", "journal"}

\* In such a look an engine that is gone has left a result, be there an announcement or not.
\* A reader that found no result, and then the lock free, has missed the engine that was there
\* between, unless there was none: in that case there is no result yet.
StaleLook ==
  Looking =>
    /\ LockHeld => held.engines >= 1
    /\ reader.beat # "none" => disk.beat # "none"
    /\ reader.pc = "journal" => reader.beat = "none"
    /\ Unseen =>
         /\ reader.pc \notin First =>
              /\ ~LockHeld /\ disk.journal # "none" => disk.result # NoResult
              /\ LockHeld /\ disk.marker # "none" => disk.result # NoResult
         /\ reader.pc \in Past /\ held.engines = 0 => ~LockHeld /\ disk.result = NoResult
         /\ reader.pc \in Last => ~LockHeld
         /\ reader.pc = "journal" => disk.result = NoResult
         /\ ~reader.again => ~LockHeld /\ disk.result # NoResult /\ held.engines >= 1 /\ reader.pc \notin Past

SInv == HeldType /\ Files /\ StaleLook /\ StaleIsTrue
-----------------------------------------------------------------------------
\* Where nobody holds or announces the run, only a result tells that it is not stale.
LEMMA WhyStale ==
  ASSUME NEW d \in Disk, Says("stale") \notin Truths(d), d.at = "off", d.marker # "young", d.journal # "none"
  PROVE d.result # NoResult
<1> SUFFICES ASSUME d.result = NoResult PROVE FALSE
  OBVIOUS
<1>1. Says("stale") \in Truths(d)
  BY DEF Truths
<1> QED
  BY <1>1

\* The files stay consistent.
LEMMA FilesStep == IInv /\ Files /\ (Engine \/ Clock) => Files'
<1> SUFFICES ASSUME IInv, Files, Engine \/ Clock PROVE Files'
  OBVIOUS
<1> disk \in Disk
  BY DEF IInv, Types
<1> USE DEF Disk, Marks, Files, Becomes
<1>1. CASE TakeLock
  <2>1. disk' = [disk EXCEPT !.at = "locked", !.n = disk.n + 1]
    BY <1>1 DEF TakeLock
  <2> QED
    BY <2>1
<1>2. CASE Launch
  BY <1>2 DEF Launch
<1>3. CASE Bind
  BY <1>3 DEF Bind, IsResume
<1>4. CASE RefuseResume \/ FailFresh
  BY <1>4 DEF RefuseResume, FailFresh, IsResume
<1>5. CASE RecordFailure \/ CloseFailed
  BY <1>5 DEF RecordFailure, CloseFailed
<1>6. CASE ClearMarker \/ ClearResult
  BY <1>6 DEF ClearMarker, ClearResult
<1>7. CASE WriteMeta \/ Beat
  BY <1>7 DEF WriteMeta, Beat
<1>8. CASE CloseSocket \/ WriteResult \/ Release \/ Crash
  BY <1>8 DEF CloseSocket, WriteResult, Release, Crash, LockHeld
<1>9. CASE MarkerAges \/ HeartbeatAges
  BY <1>9 DEF MarkerAges, HeartbeatAges
<1> QED
  BY <1>1, <1>2, <1>3, <1>4, <1>5, <1>6, <1>7, <1>8, <1>9 DEF Engine, Clock

\* A step that takes no lock.
LEMMA BecomesStale ==
  ASSUME IInv, SInv, NEW d \in Disk, Becomes(d),
         d.at # "off" => disk.at # "off",
         disk.beat # "none" => d.beat # "none",
         disk.at = "off" => d.result = disk.result /\ d.journal = disk.journal,
         disk.at # "off" /\ d.at = "off" => d.marker = disk.marker /\ d.result = disk.result,
         d.at # "off" /\ d.marker # "none" => disk.marker # "none" /\ (disk.result # NoResult => d.result # NoResult)
  PROVE HeldType' /\ StaleLook' /\ StaleIsTrue'
<1>1. /\ disk' = d /\ UNCHANGED reader /\ held'.engines = held.engines /\ held'.late = held.late
      /\ held' = [truths |-> held'.truths, engines |-> held'.engines, late |-> held'.late]
      /\ held'.truths = IF Looking THEN held.truths \cup Truths(d) ELSE held.truths
  BY DEF Becomes, SInv, HeldType
<1>2. HeldType'
  BY <1>1 DEF SInv, HeldType
<1>3. StaleIsTrue'
  <2>1. Says("stale") \in held.truths => Says("stale") \in held'.truths
    BY <1>1
  <2>2. Told' => Told
    BY <1>1 DEF Told, Looking
  <2> QED
    BY <1>1, <2>1, <2>2 DEF SInv, StaleIsTrue
<1>4. ASSUME Looking PROVE StaleLook'
  <2>1. LockHeld' => LockHeld
    BY <1>1 DEF LockHeld
  <2>2. Unseen' => Unseen /\ Says("stale") \notin Truths(d)
    BY <1>1, <1>4 DEF Unseen
  <2>3. ASSUME Unseen', reader.pc \notin First, ~LockHeld', d.journal # "none" PROVE d.result # NoResult
    <3>1. CASE disk.at = "off"
      BY <1>1, <1>4, <2>2, <2>3, <3>1 DEF SInv, StaleLook, LockHeld
    <3>2. CASE disk.at # "off" /\ d.marker = "young"
      BY <1>1, <1>4, <2>2, <2>3, <3>2 DEF SInv, StaleLook, LockHeld
    <3>3. CASE disk.at # "off" /\ d.marker # "young"
      BY <1>1, <2>2, <2>3, <3>3, WhyStale DEF LockHeld
    <3> QED
      BY <3>1, <3>2, <3>3
  <2>4. ASSUME Unseen', reader.pc \notin First, LockHeld', d.marker # "none" PROVE d.result # NoResult
    BY <1>1, <1>4, <2>1, <2>2, <2>4 DEF SInv, StaleLook, LockHeld
  <2>5. ~LockHeld => ~LockHeld' /\ d.result = disk.result
    BY <1>1 DEF LockHeld
  <2>6. Looking => /\ LockHeld => held.engines >= 1
                   /\ reader.beat # "none" => disk.beat # "none"
                   /\ reader.pc = "journal" => reader.beat = "none"
    BY DEF SInv, StaleLook
  <2>7. Unseen => /\ reader.pc \in Past /\ held.engines = 0 => ~LockHeld /\ disk.result = NoResult
                  /\ reader.pc \in Last => ~LockHeld
                  /\ reader.pc = "journal" => disk.result = NoResult
                  /\ ~reader.again => ~LockHeld /\ disk.result # NoResult /\ held.engines >= 1 /\ reader.pc \notin Past
    BY <1>4 DEF SInv, StaleLook
  <2>8. reader.pc = "journal" => reader.pc \in Last
    BY DEF Last
  <2> QED
    BY <1>1, <1>4, <2>1, <2>2, <2>3, <2>4, <2>5, <2>6, <2>7, <2>8 DEF StaleLook
<1>5. Looking' <=> Looking
  BY <1>1 DEF Looking
<1>6. StaleLook'
  BY <1>4, <1>5 DEF StaleLook
<1> QED
  BY <1>2, <1>3, <1>6
\* An engine that takes the lock during the look is the first, and comes before the reader has
\* found the lock free: a second one, or a late one, is what the property excepts.
LEMMA TakeLockStale ==
  ASSUME IInv, SInv, TakeLock
  PROVE HeldType' /\ StaleLook' /\ StaleIsTrue'
<1>1. disk' = [disk EXCEPT !.at = "locked", !.n = disk.n + 1] /\ UNCHANGED reader /\ disk.at = "off" /\ disk \in Disk
  BY DEF TakeLock, IInv, Types
<1>2. /\ disk'.at = "locked" /\ disk'.marker = disk.marker /\ disk'.result = disk.result
      /\ disk'.beat = disk.beat /\ disk'.journal = disk.journal
  BY <1>1 DEF Disk
<1>3. CASE ~Looking
  <2>1. held' = held /\ ~Looking'
    BY <1>1, <1>3 DEF TakeLock, Looking
  <2> QED
    BY <1>1, <1>3, <2>1 DEF SInv, HeldType, StaleLook, StaleIsTrue, Told, Looking
<1>4. CASE Looking
  <2>1. /\ held'.engines = held.engines + 1
        /\ held'.late = (held.late \/ (reader.beat = "none" /\ reader.pc \in Last))
        /\ held'.truths = held.truths \cup Truths(disk')
        /\ held' = [truths |-> held'.truths, engines |-> held'.engines, late |-> held'.late]
    BY <1>4 DEF TakeLock, Last
  <2>2. HeldType' /\ held.engines \in Nat
    BY <2>1 DEF SInv, HeldType
  <2>3. Looking'
    BY <1>1, <1>4 DEF Looking
  <2>4. /\ reader.beat # "none" => disk.beat # "none"
        /\ reader.pc = "journal" => reader.beat = "none"
    BY <1>4 DEF SInv, StaleLook
  <2>5. ASSUME Unseen'
        PROVE /\ reader.pc \notin First /\ disk.marker # "none" => disk.result # NoResult
              /\ reader.pc \notin Last /\ reader.again
    <3>1. Unseen /\ held.engines = 0 /\ ~(reader.beat = "none" /\ reader.pc \in Last)
      <4>1. Says("stale") \notin held'.truths /\ held'.engines <= 1 /\ ~held'.late
        BY <2>5 DEF Unseen
      <4>2. held.engines <= 1 /\ held.engines = 0
        BY <2>1, <2>2, <4>1
      <4>3. ~held.late /\ ~(reader.beat = "none" /\ reader.pc \in Last)
        BY <2>1, <4>1
      <4> QED
        BY <2>1, <4>1, <4>2, <4>3 DEF Unseen
    <3>2. /\ reader.pc \notin First /\ disk.journal # "none" => disk.result # NoResult
          /\ reader.pc \in Past => disk.result = NoResult
          /\ reader.again
      BY <1>1, <1>4, <3>1 DEF SInv, StaleLook, LockHeld
    <3>3. (disk.marker # "none" => disk.journal # "none") /\ (disk.beat # "none" => disk.journal # "none")
      BY DEF SInv, Files
    <3>4. reader.pc \in Last => reader.pc \in Past /\ reader.pc \notin First
      BY DEF Last, Past, First
    <3> QED
      BY <2>4, <3>1, <3>2, <3>3, <3>4
  <2>6. StaleLook'
    <3>1. held'.engines >= 1
      BY <2>1, <2>2
    <3>2. LockHeld' /\ held'.engines # 0
      BY <1>2, <2>1, <2>2 DEF LockHeld
    <3>3. reader.pc = "journal" => reader.pc \in Last
      BY DEF Last
    <3> QED
      BY <1>1, <1>2, <2>4, <2>5, <3>1, <3>2, <3>3 DEF StaleLook
  <2> QED
    BY <2>2, <2>3, <2>6 DEF StaleIsTrue, Told
<1> QED
  BY <1>3, <1>4

LEMMA EngineStale == IInv /\ SInv /\ (Engine \/ Clock) => SInv'
<1> SUFFICES ASSUME IInv, SInv, Engine \/ Clock PROVE SInv'
  OBVIOUS
<1>1. Files'
  BY FilesStep DEF SInv
<1> DEFINE Quiet(d) ==
      /\ d \in Disk
      /\ d.at # "off" => disk.at # "off"
      /\ disk.beat # "none" => d.beat # "none"
      /\ disk.at = "off" => d.result = disk.result /\ d.journal = disk.journal
      /\ disk.at # "off" /\ d.at = "off" => d.marker = disk.marker /\ d.result = disk.result
      /\ d.at # "off" /\ d.marker # "none" => disk.marker # "none" /\ (disk.result # NoResult => d.result # NoResult)
<1>2. ASSUME NEW d, Becomes(d), Quiet(d) PROVE SInv'
  <2> d \in Disk
    BY <1>2
  <2> QED
    BY <1>1, <1>2, BecomesStale DEF SInv
<1> HIDE DEF Quiet
<1>3. CASE TakeLock
  BY <1>1, <1>3, TakeLockStale DEF SInv
<1> disk \in Disk /\ Files
  BY DEF IInv, Types, SInv
<1> USE DEF Disk, Marks, LockHeld, Files, Quiet, NoResult
<1>4. CASE Launch
  BY <1>2, <1>4 DEF Launch
<1>5. CASE Bind
  BY <1>2, <1>5 DEF Bind
<1>6. CASE RefuseResume \/ FailFresh \/ RecordFailure \/ CloseFailed
  BY <1>2, <1>6 DEF RefuseResume, FailFresh, RecordFailure, CloseFailed
<1>7. CASE ClearMarker \/ ClearResult \/ WriteMeta \/ Beat
  BY <1>2, <1>7 DEF ClearMarker, ClearResult, WriteMeta, Beat
<1>8. CASE CloseSocket \/ WriteResult \/ Release \/ Crash
  BY <1>2, <1>8 DEF CloseSocket, WriteResult, Release, Crash
<1>9. CASE MarkerAges \/ HeartbeatAges
  BY <1>2, <1>9 DEF MarkerAges, HeartbeatAges
<1> QED
  BY <1>3, <1>4, <1>5, <1>6, <1>7, <1>8, <1>9 DEF Engine, Clock

LEMMA ReadStale == IInv /\ SInv /\ Read => SInv'
<1> SUFFICES ASSUME IInv, SInv, Read PROVE SInv'
  OBVIOUS
<1>1. disk \in Disk /\ HeldType /\ Files /\ held.engines \in Nat
  BY DEF IInv, Types, SInv, HeldType
<1>2. Looking => Truths(disk) \subseteq held.truths /\ reader \in LookType
  BY DEF IInv, LiveLook, Types
\* The reader goes on.
<1>3. ASSUME Looking, Looking', UNCHANGED <<disk, held>>, StaleLook' PROVE SInv'
  BY <1>1, <1>3 DEF SInv, HeldType, Files, StaleIsTrue, Told
\* It tells something that is not "stale", or that was so.
<1>4. ASSUME NEW v, Looking, Tell(v), v = Says("stale") => ~Unseen PROVE SInv'
  <2>1. ~Looking' /\ reader'.told = v /\ UNCHANGED <<disk, held>>
    BY <1>4 DEF Tell, Looking
  <2> QED
    BY <1>1, <1>4, <2>1 DEF SInv, HeldType, Files, StaleIsTrue, StaleLook, Told, Unseen
<1>5. Says("running") # Says("stale") /\ Says("starting") # Says("stale") /\ Says("unknown") # Says("stale")
      /\ \A n : Outcome(n) # Says("stale")
  BY DEF Says, Outcome
<1>6. CASE Look
  <2>1. /\ Looking' /\ reader' = Start /\ UNCHANGED disk
        /\ held' = [truths |-> Truths(disk), engines |-> IF LockHeld THEN 1 ELSE 0, late |-> FALSE]
    BY <1>6 DEF Look, Looking, Start
  <2>2. reader'.pc = "marker" /\ reader'.again /\ reader'.beat = "none"
    BY <2>1 DEF Start
  <2> QED
    BY <1>1, <2>1, <2>2 DEF SInv, HeldType, Files, StaleLook, StaleIsTrue, Told, First, Last, Past, LockHeld
<1>7. CASE LookMarker
  <2>1. Looking /\ reader \in LookType /\ reader.pc = "marker"
    BY <1>2, <1>7 DEF LookMarker, At, Looking
  <2>2. CASE disk.marker = "young"
    <3>1. /\ UNCHANGED <<disk, held>> /\ reader'.pc = "probeStarting" /\ reader'.again = reader.again
          /\ reader'.beat = reader.beat /\ Looking'
      BY <1>7, <2>1, <2>2 DEF LookMarker, Goto, LookType, Looking
    <3>2. StaleLook'
      BY <2>1, <3>1 DEF SInv, StaleLook, First, Last, Past, LockHeld, Unseen
    <3> QED
      BY <1>3, <2>1, <3>1, <3>2
  <2>3. CASE disk.marker # "young"
    <3>1. /\ disk' = [disk EXCEPT !.marker = "none"] /\ UNCHANGED held
          /\ reader' = [reader EXCEPT !.pc = "result"]
      BY <1>7, <2>3 DEF LookMarker
    <3>2. /\ reader'.pc = "result" /\ reader'.again = reader.again /\ reader'.beat = reader.beat /\ Looking'
          /\ disk'.at = disk.at /\ disk'.n = disk.n /\ disk'.marker = "none" /\ disk'.result = disk.result
          /\ disk'.beat = disk.beat /\ disk'.journal = disk.journal
      BY <1>1, <2>1, <3>1 DEF LookType, Looking, Disk
    <3>3. Unseen /\ ~LockHeld /\ disk.journal # "none" => disk.result # NoResult
      BY <1>1, <1>2, <2>1, <2>3, WhyStale DEF Unseen, LockHeld
    <3>4. StaleLook'
      BY <2>1, <3>1, <3>2, <3>3 DEF SInv, StaleLook, First, Last, Past, LockHeld, Unseen
    <3>5. Files' /\ HeldType'
      BY <1>1, <3>1, <3>2 DEF Files, HeldType
    <3> QED
      BY <3>2, <3>4, <3>5 DEF SInv, StaleIsTrue, Told
  <2> QED
    BY <2>2, <2>3
<1>8. CASE ProbeStarting
  BY <1>4, <1>5, <1>8 DEF ProbeStarting, At, Looking
<1>9. CASE LookResult
  <2>1. Looking /\ reader \in LookType /\ reader.pc = "result"
    BY <1>2, <1>9 DEF LookResult, At, Looking
  <2>2. /\ UNCHANGED <<disk, held>> /\ reader'.again = reader.again /\ reader'.beat = reader.beat /\ Looking'
        /\ reader'.pc = IF disk.result # NoResult THEN "probeResult" ELSE "beat"
    BY <1>9, <2>1 DEF LookResult, LookType, Looking
  <2>3. StaleLook'
    BY <1>1, <2>1, <2>2 DEF SInv, StaleLook, First, Last, Past, LockHeld, Unseen
  <2> QED
    BY <1>3, <2>1, <2>2, <2>3
<1>10. CASE ProbeResult \/ Probe
  <2>1. Looking /\ reader \in LookType /\ reader.pc \in {"probeResult", "probe"}
    BY <1>2, <1>10 DEF ProbeResult, Probe, At, Looking
  <2>2. CASE Tell(Says("running"))
    BY <1>4, <1>5, <2>1, <2>2
  <2>3. CASE (reader.pc = "probeResult" /\ Goto("lockOfResult")) \/ (reader.pc = "probe" /\ Goto("lock"))
    <3>1. /\ UNCHANGED <<disk, held>> /\ reader'.again = reader.again /\ reader'.beat = reader.beat /\ Looking'
          /\ reader'.pc = IF reader.pc = "probe" THEN "lock" ELSE "lockOfResult"
      BY <2>1, <2>3 DEF Goto, LookType, Looking
    <3>2. StaleLook'
      BY <1>1, <2>1, <3>1 DEF SInv, StaleLook, First, Last, Past, LockHeld, Unseen
    <3> QED
      BY <1>3, <2>1, <3>1, <3>2
  <2> QED
    <3>1. CASE ProbeResult
      BY <2>2, <2>3, <3>1 DEF ProbeResult, At
    <3>2. CASE Probe
      BY <2>2, <2>3, <3>2 DEF Probe, At
    <3> QED
      BY <1>10, <3>1, <3>2
<1>11. CASE LookLockOfResult
  <2>1. Looking
    BY <1>11 DEF LookLockOfResult, At, Looking
  <2> QED
    BY <1>4, <1>5, <1>11, <2>1 DEF LookLockOfResult
<1>12. CASE LookBeat
  <2>1. Looking /\ reader \in LookType /\ reader.pc = "beat"
    BY <1>2, <1>12 DEF LookBeat, At, Looking
  <2>2. /\ UNCHANGED <<disk, held>> /\ reader'.again = reader.again /\ reader'.beat = disk.beat /\ Looking'
        /\ reader'.pc = "probe"
    BY <1>12, <2>1 DEF LookBeat, LookType, Looking
  <2>3. StaleLook'
    BY <1>1, <2>1, <2>2 DEF SInv, StaleLook, First, Last, Past, LockHeld, Unseen
  <2> QED
    BY <1>3, <2>1, <2>2, <2>3
<1>13. CASE LookLock
  <2>1. Looking /\ reader \in LookType /\ reader.pc = "lock"
    BY <1>2, <1>13 DEF LookLock, At, Looking
  <2>2. CASE LockHeld
    BY <1>4, <1>5, <1>13, <2>1, <2>2 DEF LookLock
  <2>3. CASE ~LockHeld
    <3>1. /\ UNCHANGED <<disk, held>> /\ reader'.again = reader.again /\ reader'.beat = reader.beat /\ Looking'
          /\ reader'.pc = "appeared"
      BY <1>13, <2>1, <2>3 DEF LookLock, Goto, LookType, Looking
    <3>2. StaleLook'
      BY <1>1, <2>1, <2>3, <3>1 DEF SInv, StaleLook, First, Last, Past, LockHeld, Unseen
    <3> QED
      BY <1>3, <2>1, <3>1, <3>2
  <2> QED
    BY <2>2, <2>3
<1>14. CASE LookAgain
  <2>1. Looking /\ reader \in LookType /\ reader.pc = "appeared"
    BY <1>2, <1>14 DEF LookAgain, At, Looking
  <2>2. Unseen =>
          /\ ~LockHeld /\ reader.again
          /\ disk.journal # "none" => disk.result # NoResult
          /\ disk.result # NoResult => held.engines >= 1
    BY <1>1, <2>1 DEF SInv, StaleLook, First, Last, Past
  <2>3. (reader.beat # "none" => disk.beat # "none") /\ (disk.beat # "none" => disk.journal # "none")
    BY <1>1, <2>1 DEF SInv, StaleLook, Files
  <2>4. CASE Appeared
    <3>1. reader' = [Start EXCEPT !.again = FALSE] /\ UNCHANGED <<disk, held>>
      BY <1>14, <2>4 DEF LookAgain
    <3>2. reader'.pc = "marker" /\ reader'.again = FALSE /\ reader'.beat = "none" /\ Looking'
      BY <3>1 DEF Start, Looking
    <3>3. StaleLook'
      BY <1>1, <2>1, <2>2, <2>4, <3>1, <3>2 DEF SInv, StaleLook, First, Last, Past, LockHeld, Unseen, Appeared
    <3> QED
      BY <1>3, <2>1, <3>1, <3>2, <3>3
  <2>5. CASE ~Appeared /\ reader.beat # "none"
    <3>1. ~Unseen
      BY <2>2, <2>3, <2>5 DEF Appeared
    <3>2. Tell(Says("stale"))
      BY <1>14, <2>5 DEF LookAgain
    <3> QED
      BY <1>4, <2>1, <3>1, <3>2
  <2>6. CASE ~Appeared /\ reader.beat = "none"
    <3>1. /\ UNCHANGED <<disk, held>> /\ reader'.again = reader.again /\ reader'.beat = "none" /\ Looking'
          /\ reader'.pc = "journal"
      BY <1>14, <2>1, <2>6 DEF LookAgain, Goto, LookType, Looking
    <3>2. StaleLook'
      BY <1>1, <2>1, <2>2, <2>6, <3>1 DEF SInv, StaleLook, First, Last, Past, LockHeld, Unseen, Appeared
    <3> QED
      BY <1>3, <2>1, <3>1, <3>2
  <2> QED
    BY <2>4, <2>5, <2>6
<1>15. CASE LookJournal
  <2>1. Looking /\ reader.pc = "journal"
    BY <1>15 DEF LookJournal, At, Looking
  <2>2. Unseen => disk.journal = "none"
    BY <2>1 DEF SInv, StaleLook, First, Last
  <2> QED
    BY <1>4, <1>5, <1>15, <2>1, <2>2 DEF LookJournal
<1> QED
  BY <1>6, <1>7, <1>8, <1>9, <1>10, <1>11, <1>12, <1>13, <1>14, <1>15 DEF Read

LEMMA StaleInvariance == Spec => [](IInv /\ SInv)
<1>1. Init => SInv
  BY DEF Init, SInv, HeldType, Files, StaleLook, StaleIsTrue, Told, Looking
<1>2. IInv /\ SInv /\ [Next]_vars => SInv'
  <2>1. IInv /\ SInv /\ UNCHANGED vars => SInv'
    BY DEF vars, SInv, HeldType, Files, StaleLook, StaleIsTrue, Told, Looking, LockHeld, Unseen
  <2> QED
    BY <2>1, EngineStale, ReadStale DEF Next
<1> QED
  BY <1>1, <1>2, Invariance, PTL DEF Spec

\* "stale" was so at some moment of the look (deriveRunState looks at the lock last but one,
\* and once more at the result): an engine that ran to its end between two of the reader's
\* looks is not told as a crash.
THEOREM ReaderSeesStale == Spec => []StaleIsTrue
BY StaleInvariance, PTL DEF SInv
=============================================================================
