------------------------------- MODULE ViewerHome -------------------------------
(***************************************************************************)
(* One viewer for a flowition home: the starters of `flowition viewer`     *)
(* take the home's startup lock, look for a viewer that is on record and   *)
(* answers, and only then bind a port and put themselves on record.  A     *)
(* lock whose owner is gone is reclaimed under a claim file named for that *)
(* very lock.  A viewer that closes takes its own record away, and does so *)
(* without the lock.  Any process may die at any step.                     *)
(*                                                                         *)
(* A process makes one start here.  Calls of one process queue up before   *)
(* they come to the lock (homeQueues).  A probe stands for the challenge   *)
(* and its proof: only a viewer of this home can answer it.                *)
(***************************************************************************)
EXTENDS Naturals, FiniteSets

CONSTANTS
  Starters,     \* the processes
  Nobody,       \* no process
  MaxCrashes,   \* bound: processes that die
  MaxMisses     \* bound: probes that a busy viewer answers too late

ASSUME HomeAssumption == Nobody \notin Starters /\ MaxCrashes \in Nat /\ MaxMisses \in Nat

VARIABLES
  proc,     \* where each process stands; the lock it has seen, the viewer it has found, and
            \* whether it serves as the primary
  lock,     \* viewer.lock: the process it names
  claims,   \* the claim files, each for the lock of one process
  record,   \* viewer.json: the process it names
  tally     \* processes that died, probes missed, records taken away from another viewer

homeVars == <<proc, lock, claims, record, tally>>

Off == [pc |-> "off", seen |-> Nobody, found |-> Nobody, primary |-> FALSE, explicit |-> FALSE]

HomeInit ==
  /\ proc = [p \in Starters |-> Off]
  /\ lock = Nobody /\ claims = {} /\ record = Nobody
  /\ tally = [crashes |-> 0, misses |-> 0, robbed |-> FALSE]

processAlive(p) == proc[p].pc \notin {"off", "dead", "done"}
Listening(p) == proc[p].pc \in {"bound", "published", "serving"}

At(p, pc) == proc[p].pc = pc
Goto(p, pc) == proc' = [proc EXCEPT ![p].pc = pc]

-----------------------------------------------------------------------------
(* The lock *)

Start(p) ==
  /\ At(p, "off")
  /\ \E port \in BOOLEAN : proc' = [proc EXCEPT ![p].pc = "acquire", ![p].explicit = port]
  /\ UNCHANGED <<lock, claims, record, tally>>

\* link(2): the name appears complete, or somebody has it.
tryAcquireLock(p) ==
  /\ At(p, "acquire")
  /\ IF lock = Nobody THEN lock' = p /\ Goto(p, "locked") ELSE lock' = lock /\ Goto(p, "inspect")
  /\ UNCHANGED <<claims, record, tally>>

\* reclaimLockIfDead reads which lock it is, and then asks after its owner.
readLockIdentity(p) ==
  /\ At(p, "inspect")
  /\ proc' = [proc EXCEPT ![p].pc = IF lock = Nobody THEN "acquire" ELSE "judge", ![p].seen = lock]
  /\ UNCHANGED <<lock, claims, record, tally>>

\* A slip: a lock that is never taken from anybody, dead or alive.
Judge_Alive(p) ==
  /\ At(p, "judge")
  /\ Goto(p, "wait")
  /\ UNCHANGED <<lock, claims, record, tally>>

Judge(p) ==
  /\ At(p, "judge")
  /\ Goto(p, IF processAlive(proc[p].seen) THEN "wait" ELSE "claim")
  /\ UNCHANGED <<lock, claims, record, tally>>

\* A slip: a claim that somebody else may hold as well.
Claim_Shared(p) ==
  /\ At(p, "claim")
  /\ claims' = claims \cup {proc[p].seen} /\ Goto(p, "verify")
  /\ UNCHANGED <<lock, record, tally>>

Claim(p) ==
  /\ At(p, "claim")
  /\ IF proc[p].seen \in claims THEN claims' = claims /\ Goto(p, "wait")
     ELSE claims' = claims \cup {proc[p].seen} /\ Goto(p, "verify")
  /\ UNCHANGED <<lock, record, tally>>
Verify(p) ==
  /\ At(p, "verify")
  /\ Goto(p, IF lock = proc[p].seen THEN "unlink" ELSE "retire")
  /\ UNCHANGED <<lock, claims, record, tally>>
\* unlink names a path, whatever is there by now.
Unlink(p) ==
  /\ At(p, "unlink")
  /\ lock' = Nobody /\ Goto(p, "retire")
  /\ UNCHANGED <<claims, record, tally>>
Retire(p) ==
  /\ At(p, "retire")
  /\ claims' = claims \ {proc[p].seen} /\ Goto(p, "acquire")
  /\ UNCHANGED <<lock, record, tally>>

Retry(p) ==
  At(p, "wait") /\ Goto(p, "acquire") /\ UNCHANGED <<lock, claims, record, tally>>
\* The budget is spent: the start is refused.
Timeout(p) ==
  At(p, "wait") /\ Goto(p, "done") /\ UNCHANGED <<lock, claims, record, tally>>

-----------------------------------------------------------------------------
(* Discover, bind, publish: under the lock *)

readRendezvous(p) ==
  /\ At(p, "locked")
  /\ proc' = [proc EXCEPT ![p].pc = IF record = Nobody THEN "bind" ELSE "probe",
                          ![p].found = record, ![p].primary = record = Nobody]
  /\ UNCHANGED <<lock, claims, record, tally>>

\* A viewer that answers is reused, unless the caller wants a port of its own: that one is
\* a secondary.
Answered(p) ==
  /\ At(p, "probe") /\ Listening(proc[p].found)
  /\ Goto(p, IF proc[p].explicit THEN "bind" ELSE "release")
  /\ UNCHANGED <<lock, claims, record, tally>>
Unanswered(p) ==
  /\ At(p, "probe")
  /\ IF Listening(proc[p].found)
       THEN tally.misses < MaxMisses /\ tally' = [tally EXCEPT !.misses = @ + 1]
       ELSE tally' = tally
  /\ proc' = [proc EXCEPT ![p].pc = "bind", ![p].primary = TRUE]
  /\ UNCHANGED <<lock, claims, record>>

\* A port is bound, or none is free.
bind(p) ==
  /\ At(p, "bind")
  /\ Goto(p, "bound") \/ Goto(p, "release")
  /\ UNCHANGED <<lock, claims, record, tally>>

\* A slip: a second viewer on a port of its own records itself as well.
writeRendezvous_Always(p) ==
  /\ At(p, "bound")
  /\ record' = p
  /\ Goto(p, "published")
  /\ UNCHANGED <<lock, claims, tally>>

writeRendezvous(p) ==
  /\ At(p, "bound")
  /\ record' = IF proc[p].primary THEN p ELSE record
  /\ Goto(p, "published")
  /\ UNCHANGED <<lock, claims, tally>>

\* Only a lock of one's own is released.
releaseLock(p) ==
  /\ At(p, "published") \/ At(p, "release")
  /\ lock' = IF lock = p THEN Nobody ELSE lock
  /\ Goto(p, IF At(p, "published") THEN "serving" ELSE "done")
  /\ UNCHANGED <<claims, record, tally>>

-----------------------------------------------------------------------------
(* The end of a viewer: idle, stopped by a signal, or dead *)

\* The listener is down before the record goes.
CloseViewer(p) ==
  /\ At(p, "serving")
  /\ Goto(p, IF proc[p].primary THEN "closing" ELSE "done")
  /\ UNCHANGED <<lock, claims, record, tally>>
removeRendezvous(p) ==
  /\ At(p, "closing")
  /\ Goto(p, IF record = p THEN "unrecord" ELSE "done")
  /\ UNCHANGED <<lock, claims, record, tally>>
Unrecord(p) ==
  /\ At(p, "unrecord")
  /\ record' = Nobody /\ Goto(p, "done")
  /\ tally' = [tally EXCEPT !.robbed = @ \/ record \notin {p, Nobody}]
  /\ UNCHANGED <<lock, claims>>

ViewerDies(p) ==
  /\ processAlive(p) /\ tally.crashes < MaxCrashes
  /\ Goto(p, "dead") /\ tally' = [tally EXCEPT !.crashes = @ + 1]
  /\ UNCHANGED <<lock, claims, record>>

Step(p) ==
  \/ tryAcquireLock(p) \/ readLockIdentity(p) \/ Judge(p) \/ Claim(p) \/ Verify(p) \/ Unlink(p)
  \/ Retire(p) \/ Retry(p) \/ readRendezvous(p) \/ Answered(p) \/ Unanswered(p) \/ bind(p)
  \/ writeRendezvous(p) \/ releaseLock(p) \/ removeRendezvous(p) \/ Unrecord(p)

HomeNext == \E p \in Starters : Start(p) \/ Step(p) \/ Timeout(p) \/ CloseViewer(p) \/ ViewerDies(p)

\* A process that lives goes on.  Nobody has to start one, stop one, or give up.
HomeSpec == HomeInit /\ [][HomeNext]_homeVars /\ \A p \in Starters : WF_homeVars(Step(p))

-----------------------------------------------------------------------------

InSection == {p \in Starters : proc[p].pc \in
  {"locked", "probe", "bind", "bound", "published", "release"}}

\* Two processes are never between lock and release at once: a lock is never taken from an
\* owner that lives, though each contender judges it by what it has read before.
OneStarter == Cardinality(InSection) <= 1

Primaries == {p \in Starters : Listening(p) /\ proc[p].primary}

\* The primary is the one on record, so whoever looks for a viewer finds it, and a second
\* one is not started: unless a viewer was too busy to answer a probe in time, or one that
\* was closing has taken away the record of its successor.
PrimaryIsOnRecord ==
  tally.misses = 0 /\ ~tally.robbed =>
    \A p \in Primaries : proc[p].pc \in {"published", "serving"} => record = p

Waiting(p) == proc[p].pc \in {"acquire", "inspect", "judge", "claim", "verify", "unlink", "retire", "wait"}
LeftClaim == \E p \in Starters :
  proc[p].pc = "dead" /\ proc[p].seen \in claims /\ lock = proc[p].seen

\* A starter gets out of the wait for the lock: one that a dead process has left is
\* reclaimed, unless the one to reclaim it has died in the attempt and left its claim.
WaitEnds == \A p \in Starters : Waiting(p) ~> (~Waiting(p) \/ LeftClaim)
=============================================================================
