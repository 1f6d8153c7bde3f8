------------------------------ MODULE RunLock ------------------------------
(***************************************************************************)
(* Engines contend for one run (acquireRunLock of src/run-lock.js, then    *)
(* the control socket of src/control.js, which src/engine.js calls the     *)
(* arbiter).  The lock is a file created with wx; one whose writer is dead *)
(* is reclaimed by renaming it, looking at what the rename took and        *)
(* putting it back when it is not the dead lock that was seen.  The socket *)
(* is cleared and bound in the same way, by rename, probe and link.        *)
(*                                                                         *)
(* An action is one file-system or socket call, or calls between which     *)
(* nobody else can make a difference: release() and close() look and then  *)
(* unlink, the probe and the putting back are apart, listen() is bind(2)   *)
(* and then listen(2).  A file is named by the process that created it.  A *)
(* process contends once; a failed attempt is repeated, the limit of ten   *)
(* attempts is left out.                                                   *)
(***************************************************************************)
EXTENDS Naturals, FiniteSets

CONSTANTS
    Procs,      \* engines started for the run
    Dead,       \* the process that crashed while it executed the run
    Nobody,
    MaxCrashes  \* bound: how many of Procs crash

ASSUME RunLockAssumption ==
    Dead \notin Procs /\ Nobody \notin Procs \cup {Dead} /\ MaxCrashes \in Nat

VARIABLES
    lockFile,   \* whose file run.lock is
    claim,      \* process -> the file it renamed to its run.lock.reclaim.*
    observed,   \* process -> the dead holder it read
    written,    \* the lock files that have their body
    sock,       \* whose socket control.sock is
    sockClaim,  \* process -> the socket it renamed to its control.sock.claim.*
    owner,      \* process -> the socket file it takes for its own
    crashed,
    missed,     \* history: a live server's socket was discarded before it listened
    withdrawn,  \* history: a socket was put back whose server had given up meanwhile
    swept,      \* history: a process unlinked a lock, or a socket, that was another's by then
    pc

lockVars == <<lockFile, claim, observed, written>>
sockVars == <<sock, sockClaim, owner>>
mishaps  == <<missed, withdrawn, swept>>
raceVars == <<lockVars, sockVars, crashed, mishaps, pc>>

File == Procs \cup {Dead}

\* pc: "try", "observe", "claim", "verify"   attempts to take the lock
\*     "opened"     run.lock is created, its body not written yet
\*     "locked", "probe", "putback", "bind", "bound", "listening"   on the way to
\*                  the socket
\*     "engine"     both gates passed
\*     "closing", "leaving", "unlock"   giving up the socket, then the lock
\*     "refused", "over"
LockTypeOK ==
    /\ lockFile \in File \cup {Nobody} /\ sock \in File \cup {Nobody}
    /\ claim \in [Procs -> File \cup {Nobody}] /\ sockClaim \in [Procs -> File \cup {Nobody}]
    /\ observed \in [Procs -> File \cup {Nobody}]
    /\ owner \in [Procs -> File \cup {Nobody}]
    /\ written \subseteq File /\ crashed \subseteq File
    /\ missed \in BOOLEAN /\ withdrawn \in BOOLEAN /\ swept \in BOOLEAN
    /\ \A p \in Procs : pc[p] \in {"engine", "closing"} => owner[p] # Nobody
    /\ pc \in [Procs -> {"try", "observe", "claim", "verify", "opened", "locked",
                         "probe", "putback", "bind", "bound", "listening", "engine",
                         "closing", "leaving", "unlock", "refused", "over"}]

\* The dead engine may have crashed before it wrote its lock's body, and with or
\* without a bound socket.
LockInit ==
    /\ lockFile = Dead /\ sock \in {Dead, Nobody}
    /\ written \in SUBSET {Dead}
    /\ claim = [p \in Procs |-> Nobody] /\ sockClaim = [p \in Procs |-> Nobody]
    /\ observed = [p \in Procs |-> Nobody] /\ owner = [p \in Procs |-> Nobody]
    /\ crashed = {Dead} /\ missed = FALSE /\ withdrawn = FALSE /\ swept = FALSE
    /\ pc = [p \in Procs |-> "try"]

Alive(p) == p \notin crashed
Goto(p, at) == pc' = [pc EXCEPT ![p] = at]
-----------------------------------------------------------------------------
(* acquireRunLock() *)

Create(p) ==
    /\ pc[p] = "try"
    /\ \/ lockFile = Nobody /\ lockFile' = p /\ Goto(p, "opened")
       \/ lockFile # Nobody /\ UNCHANGED lockFile /\ Goto(p, "observe")
    /\ UNCHANGED <<claim, observed, written, sockVars, crashed, mishaps>>

\* The body goes to the file, whatever its name is by now.
WriteBody(p) ==
    /\ pc[p] = "opened"
    /\ written' = written \cup {p}
    /\ Goto(p, "locked")
    /\ UNCHANGED <<lockFile, claim, observed, sockVars, crashed, mishaps>>

\* A process that was refused or is over may have exited, and its pid with it.
MayBeGone(f) == f \in crashed \/ (f \in Procs /\ pc[f] \in {"refused", "over"})

\* A dead holder is one whose pid does not live, or a body that stayed unreadable
\* for two seconds: no live process takes that long to write it.
ObserveLock(p) ==
    /\ pc[p] = "observe"
    /\ \/ lockFile = Nobody /\ Goto(p, "try") /\ UNCHANGED observed
       \/ /\ MayBeGone(lockFile)
          /\ observed' = [observed EXCEPT ![p] = lockFile]
          /\ Goto(p, "claim")
       \/ /\ lockFile \in Procs \ crashed
          /\ Goto(p, "refused")
          /\ UNCHANGED observed
    /\ UNCHANGED <<lockFile, claim, written, sockVars, crashed, mishaps>>

RenameLock(p) ==
    /\ pc[p] = "claim"
    /\ \/ lockFile = Nobody /\ Goto(p, "try") /\ UNCHANGED <<lockFile, claim>>
       \/ /\ lockFile # Nobody
          /\ claim' = [claim EXCEPT ![p] = lockFile]
          /\ lockFile' = Nobody
          /\ Goto(p, "verify")
    /\ UNCHANGED <<observed, written, sockVars, crashed, mishaps>>

\* Slips: whatever the rename took counts as the dead lock; two bodies that read
\* the same do not count as the same.
ClaimedTheDead_Assumed(p) == TRUE
ClaimedTheDead_Never(p) == FALSE

\* The same body as was read, or garbage again and old by now.
ClaimedTheDead(p) ==
    IF observed[p] \in written
    THEN claim[p] = observed[p]
    ELSE claim[p] \in crashed \ written

\* The dead lock is discarded and the name tried again; another one is linked
\* back, or left as a claim file when the name is taken.
VerifyClaim(p) ==
    /\ pc[p] = "verify"
    /\ \/ /\ ClaimedTheDead(p)
          /\ claim' = [claim EXCEPT ![p] = Nobody]
          /\ Goto(p, "try")
          /\ UNCHANGED lockFile
       \/ /\ ~ClaimedTheDead(p) /\ lockFile = Nobody
          /\ lockFile' = claim[p]
          /\ claim' = [claim EXCEPT ![p] = Nobody]
          /\ Goto(p, "refused")
       \/ /\ ~ClaimedTheDead(p) /\ lockFile # Nobody
          /\ Goto(p, "refused")
          /\ UNCHANGED <<lockFile, claim>>
    /\ UNCHANGED <<observed, written, sockVars, crashed, mishaps>>

\* release() reads the lock back: only our own body is to be unlinked ...
Ended(p) == IF owner[p] = Nobody THEN "refused" ELSE "over"

ReadOwn(p) ==
    /\ pc[p] = "leaving"
    /\ Goto(p, IF lockFile = p THEN "unlock" ELSE Ended(p))
    /\ UNCHANGED <<lockVars, sockVars, crashed, mishaps>>

\* ... and unlinks the name, whatever lock has it by now.
Unlock(p) ==
    /\ pc[p] = "unlock"
    /\ lockFile' = Nobody
    /\ swept' = (swept \/ lockFile \in Procs \ {p})
    /\ Goto(p, Ended(p))
    /\ UNCHANGED <<claim, observed, written, sockVars, crashed, missed, withdrawn>>
-----------------------------------------------------------------------------
(* serveControl() *)

\* clearStaleSocket(): claim by rename.
RenameSocket(p) ==
    /\ pc[p] = "locked"
    /\ \/ sock = Nobody /\ Goto(p, "bind") /\ UNCHANGED <<sock, sockClaim>>
       \/ /\ sock # Nobody
          /\ sockClaim' = [sockClaim EXCEPT ![p] = sock]
          /\ sock' = Nobody
          /\ Goto(p, "probe")
    /\ UNCHANGED <<lockVars, owner, crashed, mishaps>>

\* A slip: a socket that was there is taken for a dead one.
Answers_Never(s) == FALSE

\* The server behind a socket answers from its listen(2) on, while its process lives
\* and has not closed it; a socket that is only bound refuses the connection.
Answers(s) == Alive(s) /\ s \in Procs /\ pc[s] \in {"listening", "engine", "closing"}

\* What refuses is discarded.
ProbeSocket(p) ==
    /\ pc[p] = "probe"
    /\ \/ /\ ~Answers(sockClaim[p])
          /\ sockClaim' = [sockClaim EXCEPT ![p] = Nobody]
          /\ missed' = (missed \/ \E s \in Procs : sockClaim[p] = s /\ Alive(s) /\ pc[s] = "bound")
          /\ Goto(p, "bind")
       \/ /\ Answers(sockClaim[p])
          /\ Goto(p, "putback")
          /\ UNCHANGED <<sockClaim, missed>>
    /\ UNCHANGED <<lockVars, sock, owner, crashed, withdrawn, swept>>

\* A live server's socket is linked back, or left as a claim file when the path is
\* taken, and we are not the engine.
PutBack(p) ==
    /\ pc[p] = "putback"
    /\ IF sock = Nobody
       THEN sock' = sockClaim[p] /\ sockClaim' = [sockClaim EXCEPT ![p] = Nobody]
       ELSE UNCHANGED <<sock, sockClaim>>
    /\ withdrawn' = (withdrawn \/ ~Answers(sockClaim[p]))
    /\ Goto(p, "leaving")
    /\ UNCHANGED <<lockVars, owner, crashed, missed, swept>>

\* listen(): bind(2) ...
Bind(p) ==
    /\ pc[p] = "bind"
    /\ \/ sock = Nobody /\ sock' = p /\ Goto(p, "bound")
       \/ sock # Nobody /\ UNCHANGED sock /\ Goto(p, "leaving")
    /\ UNCHANGED <<lockVars, sockClaim, owner, crashed, mishaps>>

\* ... then listen(2), on the socket, whatever its name is by now.
Listen(p) ==
    /\ pc[p] = "bound"
    /\ Goto(p, "listening")
    /\ UNCHANGED <<lockVars, sockVars, crashed, mishaps>>

\* The file at the path is taken for our own; without one the server closes.
StillBound == sock # Nobody

Bound(p) ==
    /\ pc[p] = "listening"
    /\ \/ /\ StillBound
          /\ owner' = [owner EXCEPT ![p] = sock]
          /\ Goto(p, "engine")
       \/ ~StillBound /\ UNCHANGED owner /\ Goto(p, "leaving")
    /\ UNCHANGED <<lockVars, sock, sockClaim, crashed, mishaps>>

\* The run ends: close() looks whether the socket is still ours ...
Finish(p) ==
    /\ pc[p] = "engine"
    /\ Goto(p, IF sock = owner[p] THEN "closing" ELSE "leaving")
    /\ UNCHANGED <<lockVars, sockVars, crashed, mishaps>>

\* ... and unlinks the name, whatever socket has it by now.
Close(p) ==
    /\ pc[p] = "closing"
    /\ sock' = Nobody
    /\ swept' = (swept \/ sock \in Procs \ {owner[p]})
    /\ Goto(p, "leaving")
    /\ UNCHANGED <<lockVars, sockClaim, owner, crashed, missed, withdrawn>>

Crash(p) ==
    /\ pc[p] \notin {"refused", "over"} /\ Alive(p)
    /\ Cardinality(crashed \ {Dead}) < MaxCrashes
    /\ crashed' = crashed \cup {p}
    /\ UNCHANGED <<lockVars, sockVars, mishaps, pc>>
-----------------------------------------------------------------------------
TakeLock(p) == Create(p) \/ WriteBody(p) \/ ObserveLock(p) \/ RenameLock(p) \/ VerifyClaim(p)
TakeSocket(p) == RenameSocket(p) \/ ProbeSocket(p) \/ PutBack(p) \/ Bind(p) \/ Listen(p) \/ Bound(p)
LetGo(p) == Close(p) \/ ReadOwn(p) \/ Unlock(p)
Step(p) == Alive(p) /\ (TakeLock(p) \/ TakeSocket(p) \/ LetGo(p))

LockNext == \E p \in Procs : Step(p) \/ (Alive(p) /\ Finish(p)) \/ Crash(p)

LockSpec == LockInit /\ [][LockNext]_raceVars /\ \A p \in Procs : WF_raceVars(Step(p))
-----------------------------------------------------------------------------
(* Properties *)

PastTheLock(p) ==
    Alive(p) /\ pc[p] \in {"locked", "probe", "putback", "bind", "bound", "listening", "engine"}
Engine(p) == Alive(p) /\ pc[p] = "engine"

\* "Two engines can never execute the same run" (ARCHITECTURE.md): what slips
\* past the lock is stopped at the socket.
OneEngine == \A p, q \in Procs : Engine(p) /\ Engine(q) => p = q

\* A contender that stole the lock of a process that runs puts it back or keeps it
\* as a claim file: a live lock is never destroyed.
LiveLockKept ==
    \A p \in Procs : PastTheLock(p) => lockFile = p \/ \E q \in Procs : claim[q] = p

\* The engine can be reached: its socket is at its path or at a prober's claim.
EngineReachable ==
    \A p \in Procs : Engine(p) => sock = p \/ \E q \in Procs : sockClaim[q] = p

\* A crashed run stays recoverable: whatever the crash left behind, one of those
\* who contend becomes its engine, unless that one crashes too.
SomeoneTakesOver ==
    <>((\E p \in Procs : pc[p] \in {"engine", "over"}) \/ crashed # {Dead})

\* Turned away at the lock, or about to be: a claim that is not the dead lock that was
\* seen is never taken for it.
TurnedAway(p) ==
    /\ p \notin written
    /\ \/ pc[p] = "refused"
       \/ /\ pc[p] = "verify"
          /\ claim[p] # observed[p] /\ claim[p] \in written

HadLock(p) == p \in written \/ pc[p] = "opened"

\* Two that had the lock and a third that took it away from one of them: what it takes
\* for two contenders to be past the lock at once.
Overlap == \E p, q, t \in Procs : p # q /\ HadLock(p) /\ HadLock(q) /\ TurnedAway(t)

\* None of the four claims above is kept by the code without exception, and three
\* contenders are enough.  It takes an overlap and one of the windows between two calls:
\* a socket probed between bind(2) and listen(2), or a name that changed hands between the
\* look and the unlink, for two engines or one that nobody reaches ...
OneEngineUnlessSlipped == OneEngine \/ (Overlap /\ (missed \/ swept))

ReachableUnlessSlipped == EngineReachable \/ (Overlap /\ (missed \/ swept))

\* ... release()'s own window for a live lock to be destroyed ...
LiveLockKeptUnlessSwept == LiveLockKept \/ (Overlap /\ swept)

\* ... and a server that gave up between its answer and the link for all to be refused.
TakenOverUnlessWithdrawn ==
    <>(\/ \E p \in Procs : pc[p] \in {"engine", "over"}
       \/ crashed # {Dead}
       \/ Overlap /\ withdrawn)

\* What it takes to get past lock and socket both where no window was hit: three
\* contenders that had the lock, one that was turned away, and a crash or a second one
\* turned away.
Crowded ==
    \E p, q, r \in Procs \cap written : \E t \in Procs :
        /\ p # q /\ q # r /\ p # r
        /\ TurnedAway(t)
        /\ crashed # {Dead} \/ \E u \in Procs \ {t} : TurnedAway(u)
=============================================================================
