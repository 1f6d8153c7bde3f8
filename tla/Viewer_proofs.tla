---------------------------- MODULE Viewer_proofs ----------------------------
(***************************************************************************)
(* The viewer.  However many processes start one, and however many of them *)
(* die: no two are ever between lock and release, and the viewer on record *)
(* is the one that serves.  And however the run is written, its engine     *)
(* dies, and connections break: what a page shows of a stream is exactly   *)
(* what its cursor covers, and the page follows the run as LogFeed         *)
(* promises.                                                               *)
(***************************************************************************)
EXTENDS ViewerHome, ViewerStream, FiniteSetTheorems, SequenceTheorems, WellFoundedInduction, TLAPS

(***************************************************************************)
(* The home: its lock and its record.                                      *)
(***************************************************************************)

Section == {"locked", "probe", "bind", "bound", "published", "release"}
Claiming == {"verify", "unlink", "retire"}
Gone == {"dead", "done"}
PC == {"off", "acquire", "inspect", "judge", "claim", "wait", "serving", "closing", "unrecord"}
        \cup Section \cup Claiming \cup Gone

Process == [pc : PC, seen : Starters \cup {Nobody}, found : Starters \cup {Nobody},
            primary : BOOLEAN, explicit : BOOLEAN]

Types ==
  /\ proc \in [Starters -> Process]
  /\ lock \in Starters \cup {Nobody} /\ record \in Starters \cup {Nobody}
  /\ claims \subseteq Starters
  /\ tally \in [crashes : Nat, misses : Nat, robbed : BOOLEAN]

\* Whoever is in the section has the lock; and the lock names somebody who has started.
Holders ==
  /\ \A p \in Starters : proc[p].pc \in Section => lock = p
  /\ lock # Nobody => proc[lock].pc # "off"

\* A lock that is being judged has an owner that has started; one to be reclaimed has an
\* owner that is gone.
Judged ==
  \A p \in Starters :
    /\ proc[p].pc \in {"judge", "claim"} \cup Claiming => proc[p].seen # Nobody /\ proc[proc[p].seen].pc # "off"
    /\ proc[p].pc \in {"claim"} \cup Claiming => proc[proc[p].seen].pc \in Gone
    /\ proc[p].pc = "unlink" => lock = proc[p].seen

\* A claim is one process's own.
Claims ==
  /\ \A p \in Starters : proc[p].pc \in Claiming => proc[p].seen \in claims
  /\ \A p, q \in Starters :
       proc[p].pc \in Claiming /\ proc[q].pc \in Claiming /\ proc[p].seen = proc[q].seen => p = q

LockInv == Types /\ Holders /\ Judged /\ Claims
-----------------------------------------------------------------------------
LEMMA InitLock == HomeInit => LockInv
BY HomeAssumption DEF HomeInit, Off, LockInv, Types, Holders, Judged, Claims, Process, PC, Section, Claiming, Gone

\* A step of one process keeps the invariant of the lock.
LEMMA LockStep ==
  ASSUME LockInv, NEW p \in Starters, Start(p) \/ Step(p) \/ Timeout(p) \/ CloseViewer(p) \/ ViewerDies(p)
  PROVE LockInv'
<1> USE HomeAssumption DEF LockInv, Types, Process, PC, Section, Claiming, Gone, At, Goto
<1>1. CASE Start(p)
  <2>1. PICK port \in BOOLEAN : proc' = [proc EXCEPT ![p].pc = "acquire", ![p].explicit = port]
    BY <1>1 DEF Start
  <2>2. Types'
    <3>1. [proc[p] EXCEPT !.pc = "acquire", !.explicit = port] \in Process
      <4> proc[p] \in Process
        OBVIOUS
      <4> QED
        OBVIOUS
    <3>2. proc' = [proc EXCEPT ![p] = [proc[p] EXCEPT !.pc = "acquire", !.explicit = port]]
      BY <2>1
    <3> QED
      BY <1>1, <3>1, <3>2 DEF Start
  <2>3. \A q \in Starters : q # p => proc'[q] = proc[q]
    BY <2>1
  <2>4. proc'[p].pc = "acquire" /\ proc[p].pc = "off" /\ proc'[p].seen = proc[p].seen
    BY <1>1, <2>1 DEF Start
  <2> QED
    <3> UNCHANGED <<lock, claims>>
      BY <1>1 DEF Start
    <3> QED
      BY <2>2, <2>3, <2>4 DEF Holders, Judged, Claims
<1>2. CASE tryAcquireLock(p)
  BY <1>2 DEF tryAcquireLock, Holders, Judged, Claims
<1>3. CASE readLockIdentity(p)
  <2>2. Types'
    <3> DEFINE r == [proc[p] EXCEPT !.pc = IF lock = Nobody THEN "acquire" ELSE "judge", !.seen = lock]
    <3>1. r \in Process
      <4> proc[p] \in Process
        OBVIOUS
      <4> QED
        OBVIOUS
    <3>2. proc' = [proc EXCEPT ![p] = r]
      BY <1>3 DEF readLockIdentity
    <3> QED
      BY <1>3, <3>1, <3>2 DEF readLockIdentity
  <2>3. \A q \in Starters : q # p => proc'[q] = proc[q]
    BY <1>3 DEF readLockIdentity
  <2>4. proc[p].pc = "inspect" /\ proc'[p].seen = lock
        /\ proc'[p].pc = IF lock = Nobody THEN "acquire" ELSE "judge"
    BY <1>3 DEF readLockIdentity
  <2> QED
    BY <1>3, <2>2, <2>3, <2>4 DEF readLockIdentity, Holders, Judged, Claims
<1>4. CASE Judge(p)
  BY <1>4 DEF Judge, processAlive, Holders, Judged, Claims
<1>5. CASE Claim(p)
  BY <1>5 DEF Claim, Holders, Judged, Claims
<1>6. CASE Verify(p)
  BY <1>6 DEF Verify, Holders, Judged, Claims
<1>7. CASE Unlink(p)
  BY <1>7 DEF Unlink, Holders, Judged, Claims
<1>8. CASE Retire(p)
  BY <1>8 DEF Retire, Holders, Judged, Claims
<1>9. CASE Retry(p) \/ Timeout(p)
  BY <1>9 DEF Retry, Timeout, Holders, Judged, Claims
<1>10. CASE readRendezvous(p)
  <2>2. Types'
    <3> DEFINE r == [proc[p] EXCEPT !.pc = IF record = Nobody THEN "bind" ELSE "probe",
                                    !.found = record, !.primary = record = Nobody]
    <3>1. r \in Process
      <4> proc[p] \in Process
        OBVIOUS
      <4> QED
        OBVIOUS
    <3>2. proc' = [proc EXCEPT ![p] = r]
      BY <1>10 DEF readRendezvous
    <3> QED
      BY <1>10, <3>1, <3>2 DEF readRendezvous
  <2>3. \A q \in Starters : q # p => proc'[q] = proc[q]
    BY <1>10 DEF readRendezvous
  <2>4. proc[p].pc = "locked" /\ proc'[p].pc \in {"bind", "probe"}
    BY <1>10 DEF readRendezvous
  <2> QED
    BY <1>10, <2>2, <2>3, <2>4 DEF readRendezvous, Holders, Judged, Claims
<1>11. CASE Answered(p) \/ Unanswered(p)
  BY <1>11 DEF Answered, Unanswered, Holders, Judged, Claims
<1>12. CASE bind(p)
  BY <1>12 DEF bind, Holders, Judged, Claims
<1>13. CASE writeRendezvous(p)
  BY <1>13 DEF writeRendezvous, Holders, Judged, Claims
<1>14. CASE releaseLock(p)
  BY <1>14 DEF releaseLock, Holders, Judged, Claims
<1>15. CASE CloseViewer(p)
  BY <1>15 DEF CloseViewer, Holders, Judged, Claims
<1>16. CASE removeRendezvous(p) \/ Unrecord(p)
  <2>2. Types'
    <3>1. CASE removeRendezvous(p)
      BY <3>1 DEF removeRendezvous
    <3>2. CASE Unrecord(p)
      <4>1. (tally.robbed \/ record \notin {p, Nobody}) \in BOOLEAN
        OBVIOUS
      <4>2. tally' \in [crashes : Nat, misses : Nat, robbed : BOOLEAN]
        BY <3>2, <4>1 DEF Unrecord
      <4> QED
        BY <3>2, <4>2 DEF Unrecord
    <3> QED
      BY <1>16, <3>1, <3>2
  <2>3. \A q \in Starters : q # p => proc'[q] = proc[q]
    BY <1>16 DEF removeRendezvous, Unrecord
  <2>4. proc[p].pc \in {"closing", "unrecord"} /\ proc'[p].pc \in {"unrecord", "done"}
        /\ UNCHANGED <<lock, claims>>
    BY <1>16 DEF removeRendezvous, Unrecord
  <2> QED
    BY <2>2, <2>3, <2>4 DEF Holders, Judged, Claims
<1>17. CASE ViewerDies(p)
  BY <1>17 DEF ViewerDies, processAlive, Holders, Judged, Claims
<1> QED
  BY <1>1, <1>2, <1>3, <1>4, <1>5, <1>6, <1>7, <1>8, <1>9, <1>10, <1>11, <1>12, <1>13, <1>14,
     <1>15, <1>16, <1>17 DEF Step
-----------------------------------------------------------------------------
Good == tally.misses = 0 /\ ~tally.robbed
OnDuty(p) == proc[p].primary /\ proc[p].pc \in {"published", "serving"}

\* What a starter has found stays on record until it is through, unless it goes; and the
\* one that is to be the primary has no rival.
Recorded ==
  /\ \A p \in Starters :
       proc[p].pc = "probe" => proc[p].found # Nobody /\ record \in {proc[p].found, Nobody} /\ ~proc[p].primary
  /\ Good =>
       /\ \A p \in Starters :
            proc[p].pc \in {"bind", "bound"} /\ proc[p].primary => \A q \in Starters : ~OnDuty(q)
       /\ \A p \in Starters : OnDuty(p) => record = p

IInv == LockInv /\ Recorded

LEMMA InitInv == HomeInit => IInv
<1> SUFFICES ASSUME HomeInit PROVE Recorded
  BY InitLock DEF IInv
<1> QED
  BY DEF HomeInit, Off, Recorded, OnDuty

\* Whoever keeps away from the record, and from the states in which it matters.
LEMMA Aside ==
  ASSUME Recorded, UNCHANGED <<record, tally>>,
         \A q \in Starters : proc'[q].pc \in {"probe", "bind", "bound", "published", "serving"}
            => proc'[q] = proc[q]
  PROVE Recorded'
BY DEF Recorded, Good, OnDuty

LEMMA RecordStep ==
  ASSUME IInv, NEW p \in Starters, Start(p) \/ Step(p) \/ Timeout(p) \/ CloseViewer(p) \/ ViewerDies(p)
  PROVE Recorded'
<1> USE HomeAssumption DEF IInv, LockInv, Types, Process, At, Goto
<1>1. CASE Start(p)
  <2>1. PICK port \in BOOLEAN : proc' = [proc EXCEPT ![p].pc = "acquire", ![p].explicit = port]
    BY <1>1 DEF Start
  <2>2. \A q \in Starters : IF q = p THEN proc'[q].pc = "acquire" ELSE proc'[q] = proc[q]
    BY <2>1
  <2> QED
    BY <1>1, <2>2, Aside DEF Start
<1>2. CASE \/ tryAcquireLock(p) \/ readLockIdentity(p) \/ Judge(p) \/ Claim(p) \/ Verify(p)
           \/ Unlink(p) \/ Retire(p) \/ Retry(p) \/ Timeout(p) \/ removeRendezvous(p)
  <2>1. UNCHANGED <<record, tally>>
    BY <1>2 DEF tryAcquireLock, readLockIdentity, Judge, Claim, Verify, Unlink, Retire, Retry,
       Timeout, removeRendezvous
  <2>2. \A q \in Starters : q # p => proc'[q] = proc[q]
    BY <1>2 DEF tryAcquireLock, readLockIdentity, Judge, Claim, Verify, Unlink, Retire, Retry,
       Timeout, removeRendezvous
  <2>3. proc'[p].pc \notin {"probe", "bind", "bound", "published", "serving"}
    BY <1>2 DEF tryAcquireLock, readLockIdentity, Judge, Claim, Verify, Unlink, Retire, Retry,
       Timeout, removeRendezvous
  <2> QED
    BY <2>1, <2>2, <2>3, Aside
<1>3. CASE CloseViewer(p)
  BY <1>3, Aside DEF CloseViewer
<1>4. CASE readRendezvous(p)
  <2>1. \A q \in Starters : q # p => proc'[q] = proc[q]
    BY <1>4 DEF readRendezvous
  <2>2. /\ proc'[p].pc = IF record = Nobody THEN "bind" ELSE "probe"
        /\ proc'[p].found = record /\ proc'[p].primary = (record = Nobody)
        /\ UNCHANGED <<record, tally>>
    BY <1>4 DEF readRendezvous
  <2>3. Good' <=> Good
    BY <2>2 DEF Good
  <2>4. CASE record = Nobody
    <3>1. Good => \A q \in Starters : ~OnDuty(q)
      BY <2>4 DEF Recorded
    <3>2. \A q \in Starters : OnDuty(q)' => OnDuty(q)
      BY <2>1, <2>2, <2>4 DEF OnDuty
    <3> QED
      BY <2>1, <2>2, <2>3, <2>4, <3>1, <3>2 DEF Recorded
  <2>5. CASE record # Nobody
    <3>1. ~proc'[p].primary
      BY <2>2, <2>5
    <3>2. \A q \in Starters : OnDuty(q)' <=> OnDuty(q) /\ q # p
      BY <2>1, <2>2, <2>5, <1>4 DEF OnDuty, readRendezvous
    <3> QED
      BY <2>1, <2>2, <2>3, <2>5, <3>1, <3>2 DEF Recorded
  <2> QED
    BY <2>4, <2>5
<1>5. CASE Answered(p)
  <2>1. \A q \in Starters : q # p => proc'[q] = proc[q]
    BY <1>5 DEF Answered
  <2>2. /\ proc[p].pc = "probe" /\ proc'[p].pc \in {"bind", "release"}
        /\ proc'[p].primary = proc[p].primary /\ UNCHANGED <<record, tally>>
    BY <1>5 DEF Answered
  <2> QED
    BY <2>1, <2>2 DEF Recorded, Good, OnDuty
<1>6. CASE Unanswered(p)
  <2>1. \A q \in Starters : q # p => proc'[q] = proc[q]
    BY <1>6 DEF Unanswered
  <2>2. proc[p].pc = "probe" /\ proc'[p].pc = "bind" /\ UNCHANGED record
    BY <1>6 DEF Unanswered
  <2>3. Good' => Good /\ ~Listening(proc[p].found)
    BY <1>6 DEF Unanswered, Good
  <2>4. Good' => \A q \in Starters : ~OnDuty(q)
    BY <2>2, <2>3 DEF Recorded, OnDuty, Listening
  <2>5. \A q \in Starters : proc'[q].pc = "probe" => proc'[q] = proc[q]
    BY <2>1, <2>2
  <2> QED
    BY <2>1, <2>2, <2>3, <2>4, <2>5 DEF Recorded, OnDuty
<1>7. CASE bind(p)
  <2>1. \A q \in Starters : q # p => proc'[q] = proc[q]
    BY <1>7 DEF bind
  <2>2. /\ proc[p].pc = "bind" /\ proc'[p].pc \in {"bound", "release"}
        /\ proc'[p].primary = proc[p].primary /\ UNCHANGED <<record, tally>>
    BY <1>7 DEF bind
  <2> QED
    BY <2>1, <2>2 DEF Recorded, Good, OnDuty
<1>8. CASE writeRendezvous(p)
  <2>1. \A q \in Starters : q # p => proc'[q] = proc[q]
    BY <1>8 DEF writeRendezvous
  <2>2. /\ proc[p].pc = "bound" /\ proc'[p].pc = "published"
        /\ proc'[p].primary = proc[p].primary
        /\ record' = IF proc[p].primary THEN p ELSE record
        /\ UNCHANGED tally
    BY <1>8 DEF writeRendezvous
  <2>3. \A q \in Starters : q # p => proc[q].pc \notin {"probe", "bind", "bound"}
    BY <2>2 DEF Holders, Section
  <2> QED
    BY <2>1, <2>2, <2>3 DEF Recorded, Good, OnDuty
<1>9. CASE releaseLock(p)
  <2>1. \A q \in Starters : q # p => proc'[q] = proc[q]
    BY <1>9 DEF releaseLock
  <2>2. /\ proc'[p].pc = (IF proc[p].pc = "published" THEN "serving" ELSE "done")
        /\ proc'[p].primary = proc[p].primary /\ UNCHANGED <<record, tally>>
    BY <1>9 DEF releaseLock
  <2> QED
    BY <2>1, <2>2 DEF Recorded, Good, OnDuty
<1>10. CASE Unrecord(p)
  <2>1. \A q \in Starters : q # p => proc'[q] = proc[q]
    BY <1>10 DEF Unrecord
  <2>2. /\ proc[p].pc = "unrecord" /\ proc'[p].pc = "done" /\ record' = Nobody
    BY <1>10 DEF Unrecord
  <2>3. Good' => Good /\ record \in {p, Nobody}
    BY <1>10 DEF Unrecord, Good
  <2> QED
    BY <2>1, <2>2, <2>3 DEF Recorded, OnDuty
<1>11. CASE ViewerDies(p)
  <2>1. \A q \in Starters : q # p => proc'[q] = proc[q]
    BY <1>11 DEF ViewerDies
  <2>2. proc'[p].pc = "dead" /\ UNCHANGED record /\ (Good' <=> Good)
    BY <1>11 DEF ViewerDies, Good
  <2> QED
    BY <2>1, <2>2 DEF Recorded, OnDuty
<1> QED
  BY <1>1, <1>2, <1>3, <1>4, <1>5, <1>6, <1>7, <1>8, <1>9, <1>10, <1>11 DEF Step

LEMMA NextInv == IInv /\ [HomeNext]_homeVars => IInv'
<1> SUFFICES ASSUME IInv, [HomeNext]_homeVars PROVE IInv'
  OBVIOUS
<1>1. CASE UNCHANGED homeVars
  BY <1>1 DEF homeVars, IInv, LockInv, Types, Holders, Judged, Claims, Recorded, Good, OnDuty
<1>2. CASE HomeNext
  BY <1>2, LockStep, RecordStep DEF HomeNext, IInv
<1> QED
  BY <1>1, <1>2

LEMMA Invariance == HomeSpec => []IInv
BY InitInv, NextInv, PTL DEF HomeSpec
-----------------------------------------------------------------------------
\* Two starters are never between lock and release at once, though the one judges the
\* other's lock by what it has read before, and a dead one's is taken away by path.
THEOREM HomeOneStarter == HomeSpec => []OneStarter
<1>1. IInv => OneStarter
  <2> SUFFICES ASSUME IInv PROVE OneStarter
    OBVIOUS
  <2>1. CASE lock = Nobody
    <3>1. InSection = {}
      BY <2>1, HomeAssumption DEF IInv, LockInv, Holders, InSection, Section
    <3> QED
      BY <3>1, FS_EmptySet DEF OneStarter
  <2>2. CASE lock # Nobody
    <3>1. InSection \subseteq {lock}
      BY DEF IInv, LockInv, Holders, InSection, Section
    <3>2. IsFiniteSet({lock}) /\ Cardinality({lock}) = 1
      BY FS_Singleton
    <3>3. IsFiniteSet(InSection) /\ Cardinality(InSection) <= Cardinality({lock})
      BY <3>1, <3>2, FS_Subset
    <3> QED
      BY <3>2, <3>3 DEF OneStarter
  <2> QED
    BY <2>1, <2>2
<1> QED
  BY <1>1, Invariance, PTL

\* A primary that serves is on record, so that no other is started: whoever dies, and
\* whatever is closed meanwhile, unless a probe was missed or a record taken from its owner.
THEOREM HomePrimaryIsOnRecord == HomeSpec => []PrimaryIsOnRecord
<1>1. IInv => PrimaryIsOnRecord
  BY DEF IInv, Recorded, Good, OnDuty, PrimaryIsOnRecord, Primaries
<1> QED
  BY <1>1, Invariance, PTL
-----------------------------------------------------------------------------
\* A claim has a process that made it, and that retires it unless it dies.
ClaimsHeld ==
  \A x \in claims : \E q \in Starters : proc[q].seen = x /\ proc[q].pc \in Claiming \cup {"dead"}

\* The lock of a process that is gone may be claimed by anybody, or is being reclaimed, or
\* its reclaimer has died: WaitEnds, but for fairness.
Reclaimable ==
  lock # Nobody /\ ~processAlive(lock) =>
    \/ lock \notin claims
    \/ \E q \in Starters : proc[q].seen = lock /\ proc[q].pc \in Claiming
    \/ LeftClaim

LEMMA ClaimsHeldStep ==
  ASSUME IInv, ClaimsHeld, NEW p \in Starters,
         Start(p) \/ Step(p) \/ Timeout(p) \/ CloseViewer(p) \/ ViewerDies(p)
  PROVE  ClaimsHeld'
<1> USE DEF At, Goto
<1>0. proc \in [Starters -> Process] /\ proc[p] \in Process
  BY DEF IInv, LockInv, Types
<1>1. CASE Claim(p)
  <2>1. CASE proc[p].seen \in claims
    BY <1>0, <1>1, <2>1 DEF Claim, ClaimsHeld, Claiming, Process
  <2>2. CASE proc[p].seen \notin claims
    BY <1>0, <1>1, <2>2 DEF Claim, ClaimsHeld, Claiming, Process
  <2> QED
    BY <2>1, <2>2
<1>2. CASE Retire(p)
  BY <1>0, <1>2 DEF Retire, ClaimsHeld, Claiming, Process
<1>3. CASE UNCHANGED claims
  <2>1. \A q \in Starters \ {p} : proc'[q] = proc[q]
    BY <1>0 DEF Start, Step, tryAcquireLock, readLockIdentity, Judge, Claim, Verify, Unlink, Retire, Retry,
                readRendezvous, Answered, Unanswered, bind, writeRendezvous, releaseLock, removeRendezvous,
                Unrecord, Timeout, CloseViewer, ViewerDies
  <2>2. CASE proc[p].pc \in Claiming /\ ~Retire(p)
    BY <1>0, <1>3, <2>1, <2>2 DEF Start, Step, tryAcquireLock, readLockIdentity, Judge, Claim, Verify, Unlink, Retry,
                readRendezvous, Answered, Unanswered, bind, writeRendezvous, releaseLock, removeRendezvous,
                Unrecord, Timeout, CloseViewer, ViewerDies, ClaimsHeld, Claiming, Process
  <2>3. CASE proc[p].pc \notin Claiming
    <3>1. proc[p].pc # "dead"
      BY DEF Start, Step, tryAcquireLock, readLockIdentity, Judge, Claim, Verify, Unlink, Retire, Retry,
             readRendezvous, Answered, Unanswered, bind, writeRendezvous, releaseLock, removeRendezvous,
             Unrecord, Timeout, CloseViewer, ViewerDies, processAlive
    <3> QED
      BY <1>3, <2>1, <2>3, <3>1 DEF ClaimsHeld
  <2> QED
    BY <1>2, <2>2, <2>3
<1>4. Claim(p) \/ Retire(p) \/ UNCHANGED claims
  BY DEF Start, Step, tryAcquireLock, readLockIdentity, Judge, Verify, Unlink, Retry,
         readRendezvous, Answered, Unanswered, bind, writeRendezvous, releaseLock, removeRendezvous,
         Unrecord, Timeout, CloseViewer, ViewerDies
<1> QED
  BY <1>1, <1>2, <1>3, <1>4

\* The lock of a starter that died, at whatever point, does not keep the others from the
\* home: it is free to be claimed, or somebody alive is taking it away, unless that one has
\* died at it too and left its claim.
THEOREM HomeLockIsReclaimable == HomeSpec => []Reclaimable
<1>1. HomeInit => ClaimsHeld
  BY DEF HomeInit, ClaimsHeld
<1>2. IInv /\ ClaimsHeld /\ [HomeNext]_homeVars => ClaimsHeld'
  <2>1. ClaimsHeld /\ UNCHANGED homeVars => ClaimsHeld'
    BY DEF homeVars, ClaimsHeld
  <2> QED
    BY <2>1, ClaimsHeldStep DEF HomeNext
<1>3. ClaimsHeld => Reclaimable
  BY DEF ClaimsHeld, Reclaimable, LeftClaim
<1> QED
  BY <1>1, <1>2, <1>3, Invariance, PTL DEF HomeSpec

(***************************************************************************)
(* The stream.  The invariant FollowInv says, stream by stream, that every *)
(* frame on its way goes on from the one before it (Link), the first from  *)
(* where the connection started (Origin), and the server's tail from the   *)
(* last (Reach): the records between two offsets are those that the file   *)
(* shows there, all of them, in order (Covers).  A file keeps its complete *)
(* lines (Grows), so what was covered once stays covered, whatever the     *)
(* engine appends, and whatever a resume cuts off.  A stream whose tail    *)
(* was overtaken has none of this until it starts over.                    *)
(***************************************************************************)
Rec == [kind : {"private", "open", "work", "end", "fact"}, n : Nat, by : Nat]
Cell == Rec \X {"body", "newline"}

\* Induction over the naturals, for a set of them.
LEMMA Climb ==
  ASSUME NEW S \in SUBSET Nat, 0 \in S, \A n \in Nat : n \in S => n + 1 \in S
  PROVE  \A n \in Nat : n \in S
<1> DEFINE R == {ss \in Nat \X Nat : ss[1] < ss[2]}
           T == Nat \ S
<1>1. IsWellFoundedOn(R, Nat)
  BY NatLessThanWellFounded DEF OpToRel
<1> HIDE DEF R
<1>2. SUFFICES ASSUME T # {} PROVE FALSE
  OBVIOUS
<1>3. \E x \in T : \A y \in T : ~ (<<y, x>> \in R)
  BY <1>1, <1>2, WFMin, Zenon
<1>4. PICK x \in Nat \ S : \A y \in Nat \ S : ~ (y < x)
  BY <1>3 DEF R
<1>5. x - 1 \in Nat /\ x - 1 \in S
  BY <1>4
<1> QED BY <1>4, <1>5

\* The records that a file shows up to a cell, one cell at a time.
LEMMA RecordsToDef ==
  ASSUME NEW f, Len(f) \in Nat
  PROVE  /\ RecordsTo(f)[0] = << >>
         /\ \A p \in 1..Len(f) : RecordsTo(f)[p] = IF Shows(f, p) THEN Append(RecordsTo(f)[p - 1], f[p][1]) ELSE RecordsTo(f)[p - 1]
<1> DEFINE Def(g, m) == g = [p \in 0..m |-> IF p = 0 THEN << >> ELSE IF Shows(f, p) THEN Append(g[p - 1], f[p][1]) ELSE g[p - 1]]
           S == {m \in Nat : \E g : Def(g, m)}
<1>1. 0 \in S
  <2> Def([p \in 0..0 |-> << >>], 0)
    OBVIOUS
  <2> QED OBVIOUS
<1>2. ASSUME NEW m \in Nat, m \in S PROVE m + 1 \in S
  <2>1. PICK g : Def(g, m)
    BY <1>2
  <2> DEFINE h == [p \in 0..(m + 1) |-> IF p <= m THEN g[p] ELSE IF Shows(f, (m + 1)) THEN Append(g[m], f[(m + 1)][1]) ELSE g[m]]
  <2>2. \A p \in 0..m : h[p] = g[p]
    OBVIOUS
  <2>3. h[m + 1] = IF Shows(f, (m + 1)) THEN Append(h[m], f[(m + 1)][1]) ELSE h[m]
    BY <2>2
  <2>4. \A p \in 0..m : g[p] = IF p = 0 THEN << >> ELSE IF Shows(f, p) THEN Append(g[p - 1], f[p][1]) ELSE g[p - 1]
    BY <2>1
  <2>5. h = [p \in 0..(m + 1) |-> h[p]]
    OBVIOUS
  <2> HIDE DEF h
  <2>6. \A p \in 0..(m + 1) : h[p] = IF p = 0 THEN << >> ELSE IF Shows(f, p) THEN Append(h[p - 1], f[p][1]) ELSE h[p - 1]
    <3> TAKE p \in 0..(m + 1)
    <3>1. CASE p = m + 1
      BY <3>1, <2>3
    <3>2. CASE p \in 0..m
      <4> p = 0 \/ p - 1 \in 0..m
        BY <3>2
      <4> QED BY <3>2, <2>2, <2>4
    <3> QED BY <3>1, <3>2
  <2>7. [p \in 0..(m + 1) |-> h[p]] = [p \in 0..(m + 1) |-> IF p = 0 THEN << >> ELSE IF Shows(f, p) THEN Append(h[p - 1], f[p][1]) ELSE h[p - 1]]
    BY <2>6
  <2>8. Def(h, m + 1)
    <3> HIDE DEF S
    <3> QED BY <2>5, <2>7, Zenon DEF Def
  <2> HIDE DEF Def
  <2> QED BY <2>8
<1> HIDE DEF Def
<1>3. \A m \in Nat : m \in S
  <2> HIDE DEF S
  <2> S \in SUBSET Nat
    BY DEF S
  <2> QED BY <1>1, <1>2, Climb
<1>4. \E g : Def(g, Len(f))
  BY <1>3
<1>5. RecordsTo(f) = CHOOSE g : Def(g, Len(f))
  BY DEF RecordsTo, Def
<1>6. Def(RecordsTo(f), Len(f))
  BY <1>4, <1>5, Zenon
<1>7. RecordsTo(f) = [p \in 0..Len(f) |-> IF p = 0 THEN << >> ELSE IF Shows(f, p) THEN Append(RecordsTo(f)[p - 1], f[p][1]) ELSE RecordsTo(f)[p - 1]]
  BY <1>6, Zenon DEF Def
<1> DEFINE u == RecordsTo(f)
<1>8. u = [p \in 0..Len(f) |-> IF p = 0 THEN << >> ELSE IF Shows(f, p) THEN Append(u[p - 1], f[p][1]) ELSE u[p - 1]]
  BY <1>7, Zenon
<1> HIDE DEF u, S
<1>9. \A p \in 0..Len(f) : u[p] = IF p = 0 THEN << >> ELSE IF Shows(f, p) THEN Append(u[p - 1], f[p][1]) ELSE u[p - 1]
  BY <1>8, Zenon
<1>10. u[0] = << >> /\ \A p \in 1..Len(f) : u[p] = IF Shows(f, p) THEN Append(u[p - 1], f[p][1]) ELSE u[p - 1]
  BY <1>9
<1> QED BY <1>10, Zenon DEF u

\* What a tail has consumed up to a cell.
LEMMA PushedDef ==
  ASSUME NEW d, NEW s, NEW c, NEW b, Len(c) \in Nat
  PROVE  /\ Pushed(d, s, c, b)[0] = d
         /\ \A p \in 1..Len(c) : Pushed(d, s, c, b)[p] = IF EndsLine(c, p) THEN ConsumeLine(Pushed(d, s, c, b)[p - 1], s, c, b, p) ELSE Pushed(d, s, c, b)[p - 1]
<1> DEFINE Def(g, m) == g = [p \in 0..m |-> IF p = 0 THEN d ELSE IF EndsLine(c, p) THEN ConsumeLine(g[p - 1], s, c, b, p) ELSE g[p - 1]]
           S == {m \in Nat : \E g : Def(g, m)}
<1>1. 0 \in S
  <2> Def([p \in 0..0 |-> d], 0)
    OBVIOUS
  <2> QED OBVIOUS
<1>2. ASSUME NEW m \in Nat, m \in S PROVE m + 1 \in S
  <2>1. PICK g : Def(g, m)
    BY <1>2
  <2> DEFINE h == [p \in 0..(m + 1) |-> IF p <= m THEN g[p] ELSE IF EndsLine(c, (m + 1)) THEN ConsumeLine(g[m], s, c, b, (m + 1)) ELSE g[m]]
  <2>2. \A p \in 0..m : h[p] = g[p]
    OBVIOUS
  <2>3. h[m + 1] = IF EndsLine(c, (m + 1)) THEN ConsumeLine(h[m], s, c, b, (m + 1)) ELSE h[m]
    BY <2>2
  <2>4. \A p \in 0..m : g[p] = IF p = 0 THEN d ELSE IF EndsLine(c, p) THEN ConsumeLine(g[p - 1], s, c, b, p) ELSE g[p - 1]
    BY <2>1
  <2>5. h = [p \in 0..(m + 1) |-> h[p]]
    OBVIOUS
  <2> HIDE DEF h
  <2>6. \A p \in 0..(m + 1) : h[p] = IF p = 0 THEN d ELSE IF EndsLine(c, p) THEN ConsumeLine(h[p - 1], s, c, b, p) ELSE h[p - 1]
    <3> TAKE p \in 0..(m + 1)
    <3>1. CASE p = m + 1
      BY <3>1, <2>3
    <3>2. CASE p \in 0..m
      <4> p = 0 \/ p - 1 \in 0..m
        BY <3>2
      <4> QED BY <3>2, <2>2, <2>4
    <3> QED BY <3>1, <3>2
  <2>7. [p \in 0..(m + 1) |-> h[p]] = [p \in 0..(m + 1) |-> IF p = 0 THEN d ELSE IF EndsLine(c, p) THEN ConsumeLine(h[p - 1], s, c, b, p) ELSE h[p - 1]]
    BY <2>6
  <2>8. Def(h, m + 1)
    <3> HIDE DEF S
    <3> QED BY <2>5, <2>7, Zenon DEF Def
  <2> HIDE DEF Def
  <2> QED BY <2>8
<1> HIDE DEF Def
<1>3. \A m \in Nat : m \in S
  <2> HIDE DEF S
  <2> S \in SUBSET Nat
    BY DEF S
  <2> QED BY <1>1, <1>2, Climb
<1>4. \E g : Def(g, Len(c))
  BY <1>3
<1>5. Pushed(d, s, c, b) = CHOOSE g : Def(g, Len(c))
  BY DEF Pushed, Def
<1>6. Def(Pushed(d, s, c, b), Len(c))
  BY <1>4, <1>5, Zenon
<1>7. Pushed(d, s, c, b) = [p \in 0..Len(c) |-> IF p = 0 THEN d ELSE IF EndsLine(c, p) THEN ConsumeLine(Pushed(d, s, c, b)[p - 1], s, c, b, p) ELSE Pushed(d, s, c, b)[p - 1]]
  BY <1>6, Zenon DEF Def
<1> QED BY <1>7

\* What a page has taken of a batch.
LEMMA TakenDef ==
  ASSUME NEW page, NEW xs, Len(xs) \in Nat
  PROVE  /\ Taken(page, xs)[0] = page
         /\ \A p \in 1..Len(xs) : Taken(page, xs)[p] = TakeRecord(Taken(page, xs)[p - 1], xs[p])
<1> DEFINE Def(g, m) == g = [p \in 0..m |-> IF p = 0 THEN page ELSE TakeRecord(g[p - 1], xs[p])]
           S == {m \in Nat : \E g : Def(g, m)}
<1>1. 0 \in S
  <2> Def([p \in 0..0 |-> page], 0)
    OBVIOUS
  <2> QED OBVIOUS
<1>2. ASSUME NEW m \in Nat, m \in S PROVE m + 1 \in S
  <2>1. PICK g : Def(g, m)
    BY <1>2
  <2> DEFINE h == [p \in 0..(m + 1) |-> IF p <= m THEN g[p] ELSE TakeRecord(g[m], xs[(m + 1)])]
  <2>2. \A p \in 0..m : h[p] = g[p]
    OBVIOUS
  <2>3. h[m + 1] = TakeRecord(h[m], xs[(m + 1)])
    BY <2>2
  <2>4. \A p \in 0..m : g[p] = IF p = 0 THEN page ELSE TakeRecord(g[p - 1], xs[p])
    BY <2>1
  <2>5. h = [p \in 0..(m + 1) |-> h[p]]
    OBVIOUS
  <2> HIDE DEF h
  <2>6. \A p \in 0..(m + 1) : h[p] = IF p = 0 THEN page ELSE TakeRecord(h[p - 1], xs[p])
    <3> TAKE p \in 0..(m + 1)
    <3>1. CASE p = m + 1
      BY <3>1, <2>3
    <3>2. CASE p \in 0..m
      <4> p = 0 \/ p - 1 \in 0..m
        BY <3>2
      <4> QED BY <3>2, <2>2, <2>4
    <3> QED BY <3>1, <3>2
  <2>7. [p \in 0..(m + 1) |-> h[p]] = [p \in 0..(m + 1) |-> IF p = 0 THEN page ELSE TakeRecord(h[p - 1], xs[p])]
    BY <2>6
  <2>8. Def(h, m + 1)
    <3> HIDE DEF S
    <3> QED BY <2>5, <2>7, Zenon DEF Def
  <2> HIDE DEF Def
  <2> QED BY <2>8
<1> HIDE DEF Def
<1>3. \A m \in Nat : m \in S
  <2> HIDE DEF S
  <2> S \in SUBSET Nat
    BY DEF S
  <2> QED BY <1>1, <1>2, Climb
<1>4. \E g : Def(g, Len(xs))
  BY <1>3
<1>5. Taken(page, xs) = CHOOSE g : Def(g, Len(xs))
  BY DEF Taken, Def
<1>6. Def(Taken(page, xs), Len(xs))
  BY <1>4, <1>5, Zenon
<1>7. Taken(page, xs) = [p \in 0..Len(xs) |-> IF p = 0 THEN page ELSE TakeRecord(Taken(page, xs)[p - 1], xs[p])]
  BY <1>6, Zenon DEF Def
<1> QED BY <1>7

Text == Seq(Cell)
\* An offset at which a line may start.
LineEnd(f, q) == q = 0 \/ (q \in 1..Len(f) /\ EndsLine(f, q))

\* The last complete line of a file.
LEMMA LastEndFacts ==
  ASSUME NEW f \in Text
  PROVE  /\ LastEnd(f) \in 0..Len(f) /\ LineEnd(f, LastEnd(f))
         /\ \A p \in 1..Len(f) : EndsLine(f, p) => p <= LastEnd(f)
<1> DEFINE E == {0} \cup {p \in DOMAIN f : EndsLine(f, p)}
           S == {m \in Nat : \E x \in E : x <= m /\ \A y \in E : y <= m => y <= x}
<1>1. E \subseteq 0..Len(f) /\ 0 \in E /\ Len(f) \in Nat
  BY DEF Text
<1>2. \A m \in Nat : m \in S
  <2>1. 0 \in S
    BY <1>1
  <2>2. ASSUME NEW m \in Nat, m \in S PROVE m + 1 \in S
    <3>1. CASE m + 1 \in E
      <4> \A y \in E : y <= m + 1 => y <= m + 1
        OBVIOUS
      <4> m + 1 <= m + 1
        OBVIOUS
      <4> HIDE DEF E
      <4> QED BY <3>1
    <3>2. CASE m + 1 \notin E
      <4>1. PICK x \in E : x <= m /\ \A y \in E : y <= m => y <= x
        BY <2>2
      <4> HIDE DEF E
      <4>2. \A y \in E : y <= m + 1 => y <= x
        BY <4>1, <3>2, <1>1
      <4>3. x <= m + 1
        BY <4>1, <1>1
      <4> QED BY <4>2, <4>3
    <3> QED BY <3>1, <3>2
  <2> HIDE DEF S
  <2>3. S \in SUBSET Nat
    BY DEF S
  <2> QED BY <2>1, <2>2, <2>3, Climb
<1>3. \E x \in E : \A y \in E : x >= y
  <2> HIDE DEF E
  <2>1. PICK x \in E : x <= Len(f) /\ \A y \in E : y <= Len(f) => y <= x
    BY <1>1, <1>2
  <2> QED BY <1>1, <2>1
<1>4. LastEnd(f) \in E /\ \A y \in E : LastEnd(f) >= y
  <2>1. LastEnd(f) = CHOOSE x \in E : \A y \in E : x >= y
    BY DEF LastEnd, Max
  <2> HIDE DEF E
  <2> QED BY <1>3, <2>1, Zenon
<1> QED BY <1>1, <1>4 DEF LineEnd, Text

\* What a file shows are records of it.
LEMMA ShowsFacts ==
  ASSUME NEW f \in Text, NEW p \in 1..Len(f)
  PROVE  /\ Shows(f, p) => EndsLine(f, p)
         /\ f[p] \in Cell /\ f[p][1] \in Rec
         /\ Shows(f, p) \in BOOLEAN
BY DEF Shows, Parses, Text, Cell

\* A file shows records.
LEMMA RecordsTyped ==
  ASSUME NEW f \in Text
  PROVE  \A p \in 0..Len(f) : RecordsTo(f)[p] \in Seq(Rec)
<1> DEFINE u == RecordsTo(f)
           S == {m \in Nat : m <= Len(f) => u[m] \in Seq(Rec)}
<1>1. Len(f) \in Nat
  BY DEF Text
<1>2. u[0] = << >> /\ \A p \in 1..Len(f) : u[p] = IF Shows(f, p) THEN Append(u[p - 1], f[p][1]) ELSE u[p - 1]
  BY <1>1, RecordsToDef
<1> HIDE DEF u
<1> HIDE DEF Rec
<1>3. 0 \in S
  <2> << >> \in Seq(Rec)
    OBVIOUS
  <2> QED BY <1>2
<1>4. ASSUME NEW m \in Nat, m \in S PROVE m + 1 \in S
  <2> SUFFICES ASSUME m + 1 <= Len(f) PROVE u[m + 1] \in Seq(Rec)
    OBVIOUS
  <2>1. u[m] \in Seq(Rec) /\ m + 1 \in 1..Len(f)
    BY <1>1, <1>4
  <2>2. f[m + 1][1] \in Rec
    BY <2>1, ShowsFacts
  <2>3. Append(u[m], f[m + 1][1]) \in Seq(Rec)
    BY <2>1, <2>2
  <2>4. u[m + 1] = IF Shows(f, m + 1) THEN Append(u[m], f[m + 1][1]) ELSE u[m]
    BY <2>1, <1>2
  <2> QED BY <2>1, <2>3, <2>4
<1> HIDE DEF S
<1>5. S \in SUBSET Nat
  BY DEF S
<1>6. \A m \in Nat : m \in S
  BY <1>3, <1>4, <1>5, Climb
<1> QED BY <1>1, <1>6 DEF S, u

\* Two files that agree up to a cell show the same up to it.
LEMMA RecordsSame ==
  ASSUME NEW f \in Text, NEW g \in Text, NEW q \in 0..Len(f), q <= Len(g),
         \A p \in 1..q : f[p] = g[p]
  PROVE  /\ \A p \in 1..q : Shows(f, p) = Shows(g, p)
         /\ RecordsTo(f)[q] = RecordsTo(g)[q]
<1> DEFINE u == RecordsTo(f)
           v == RecordsTo(g)
           S == {m \in Nat : m <= q => u[m] = v[m]}
<1>1. Len(f) \in Nat /\ Len(g) \in Nat /\ q \in Nat
  BY DEF Text
<1>2. u[0] = << >> /\ \A p \in 1..Len(f) : u[p] = IF Shows(f, p) THEN Append(u[p - 1], f[p][1]) ELSE u[p - 1]
  BY <1>1, RecordsToDef
<1>3. v[0] = << >> /\ \A p \in 1..Len(g) : v[p] = IF Shows(g, p) THEN Append(v[p - 1], g[p][1]) ELSE v[p - 1]
  BY <1>1, RecordsToDef
<1> HIDE DEF u, v
<1>4. \A p \in 1..q : Shows(f, p) = Shows(g, p)
  <2> TAKE p \in 1..q
  <2>1. f[p] = g[p] /\ (p > 1 => f[p - 1] = g[p - 1]) /\ (p > 2 => f[p - 2] = g[p - 2])
    BY <1>1
  <2> QED BY <2>1, <1>1 DEF Shows, Parses, EndsLine
<1>5. 0 \in S
  BY <1>2, <1>3
<1>6. ASSUME NEW m \in Nat, m \in S PROVE m + 1 \in S
  <2> SUFFICES ASSUME m + 1 <= q PROVE u[m + 1] = v[m + 1]
    OBVIOUS
  <2>1. u[m] = v[m] /\ m + 1 \in 1..Len(f) /\ m + 1 \in 1..Len(g) /\ m + 1 \in 1..q
    BY <1>1, <1>6
  <2>2. f[m + 1] = g[m + 1] /\ Shows(f, m + 1) = Shows(g, m + 1)
    BY <2>1, <1>4
  <2>3. u[m + 1] = IF Shows(f, m + 1) THEN Append(u[m], f[m + 1][1]) ELSE u[m]
    BY <2>1, <1>2
  <2>4. v[m + 1] = IF Shows(g, m + 1) THEN Append(v[m], g[m + 1][1]) ELSE v[m]
    BY <2>1, <1>3
  <2> QED BY <2>1, <2>2, <2>3, <2>4
<1> HIDE DEF S
<1>7. S \in SUBSET Nat
  BY DEF S
<1>8. \A m \in Nat : m \in S
  BY <1>5, <1>6, <1>7, Climb
<1> QED BY <1>1, <1>4, <1>8 DEF S, u, v

\* Where no record is shown, none is added.
LEMMA RecordsGap ==
  ASSUME NEW f \in Text, NEW a \in 0..Len(f), NEW b \in a..Len(f), \A p \in (a + 1)..b : ~Shows(f, p)
  PROVE  RecordsTo(f)[a] = RecordsTo(f)[b]
<1> DEFINE u == RecordsTo(f)
           S == {m \in Nat : a + m <= b => u[a] = u[a + m]}
<1>1. Len(f) \in Nat
  BY DEF Text
<1>2. \A p \in 1..Len(f) : u[p] = IF Shows(f, p) THEN Append(u[p - 1], f[p][1]) ELSE u[p - 1]
  BY <1>1, RecordsToDef
<1> HIDE DEF u
<1>3. 0 \in S
  BY <1>1
<1>4. ASSUME NEW m \in Nat, m \in S PROVE m + 1 \in S
  <2> SUFFICES ASSUME a + (m + 1) <= b PROVE u[a] = u[a + (m + 1)]
    OBVIOUS
  <2>1. u[a] = u[a + m] /\ a + (m + 1) \in (a + 1)..b /\ a + (m + 1) \in 1..Len(f) /\ a + (m + 1) - 1 = a + m
    BY <1>1, <1>4
  <2>2. ~Shows(f, a + (m + 1))
    BY <2>1
  <2>3. u[a + (m + 1)] = u[a + m]
    BY <2>1, <2>2, <1>2
  <2> QED BY <2>1, <2>3
<1> HIDE DEF S
<1>5. S \in SUBSET Nat
  BY DEF S
<1>6. \A m \in Nat : m \in S
  BY <1>3, <1>4, <1>5, Climb
<1>7. b - a \in Nat /\ a + (b - a) = b
  BY <1>1
<1> QED BY <1>6, <1>7 DEF S, u

\* A record adds itself.
LEMMA RecordsStep ==
  ASSUME NEW f \in Text, NEW o \in 1..Len(f), Shows(f, o)
  PROVE  RecordsTo(f)[o] = Append(RecordsTo(f)[o - 1], f[o][1])
<1> DEFINE u == RecordsTo(f)
<1>1. Len(f) \in Nat
  BY DEF Text
<1>2. \A p \in 1..Len(f) : u[p] = IF Shows(f, p) THEN Append(u[p - 1], f[p][1]) ELSE u[p - 1]
  BY <1>1, RecordsToDef
<1> HIDE DEF u
<1>3. u[o] = Append(u[o - 1], f[o][1])
  BY <1>2
<1> QED BY <1>3 DEF u

\* Nothing is shown before the first cell.
LEMMA RecordsZero ==
  ASSUME NEW f \in Text
  PROVE  RecordsTo(f)[0] = << >>
BY RecordsToDef DEF Text

\* What a file shows is what its complete lines show.
LEMMA RecordsComplete ==
  ASSUME NEW f \in Text
  PROVE  Records(f) = RecordsTo(f)[LastEnd(f)]
<1>1. Len(f) \in Nat /\ LastEnd(f) \in 0..Len(f)
  BY LastEndFacts DEF Text
<1>2. \A p \in (LastEnd(f) + 1)..Len(f) : ~Shows(f, p)
  BY <1>1, LastEndFacts, ShowsFacts
<1> QED BY <1>1, <1>2, RecordsGap DEF Records

\* A prefix of a file shows what the file shows up to there.
LEMMA RecordsPrefix ==
  ASSUME NEW f \in Text, NEW q \in 0..Len(f)
  PROVE  Records(SubSeq(f, 1, q)) = RecordsTo(f)[q]
<1> DEFINE g == SubSeq(f, 1, q)
<1>1. Len(f) \in Nat /\ q \in Nat
  BY DEF Text
<1>2. g \in Text /\ Len(g) = q /\ \A p \in 1..q : f[p] = g[p]
  BY <1>1 DEF Text
<1> HIDE DEF g
<1>3. q \in 0..Len(g)
  BY <1>1, <1>2
<1>4. RecordsTo(g)[q] = RecordsTo(f)[q]
  BY <1>1, <1>2, <1>3, RecordsSame
<1> QED BY <1>2, <1>4 DEF Records, g

Offsets == [Streams -> Nat]
Item == [s : Streams, o : Nat, r : Rec]
FrameSet ==
  [type : {"batch"}, id : Offsets, data : Seq(Item)] \cup
  [type : {"note", "reset"}, id : Offsets, data : Streams] \cup
  [type : {"end"}, id : Offsets, data : {None}]
Work == [cur : Offsets, batch : Seq(Item), out : Seq(FrameSet), read : Offsets,
         pend : [Streams -> Text], active : BOOLEAN, ended : BOOLEAN, lost : SUBSET Streams]

\* The records of a frame; those of a stream in them; all that the file shows from p to q.
Items(x) == IF x.type = "batch" THEN x.data ELSE << >>
Free(B, s) == \A i \in 1..Len(B) : B[i].s # s
Covers(f, B, s, p, q) ==
  /\ \A i \in 1..Len(B) : B[i].s = s =>
       p < B[i].o /\ B[i].o <= q /\ Shows(f, B[i].o) /\ B[i].r = f[B[i].o][1]
  /\ \A i, j \in 1..Len(B) : i < j /\ B[i].s = s /\ B[j].s = s => B[i].o < B[j].o
  /\ \A o \in (p + 1)..q : Shows(f, o) => \E i \in 1..Len(B) : B[i].s = s /\ B[i].o = o

\* Where a frame starts, when the frames of V are read from offset a on.
From(V, a, s, i) == IF i = 1 THEN a ELSE V[i - 1].id[s]

\* A frame takes a stream on from where it starts to the frame's id, or starts the stream over;
\* the batch before a reset already has the reset's id.
Link(f, V, a, s, i) ==
  \/ Resets(V[i], s) /\ V[i].id[s] = 0
  \/ /\ ~Resets(V[i], s) /\ V[i].id[s] = 0 /\ Free(Items(V[i]), s)
     /\ i < Len(V) /\ Resets(V[i + 1], s)
  \/ /\ ~Resets(V[i], s) /\ LineEnd(f, V[i].id[s]) /\ From(V, a, s, i) <= V[i].id[s]
     /\ Covers(f, Items(V[i]), s, From(V, a, s, i), V[i].id[s])
Clean(f, V, a, s, m) == \A i \in m..Len(V) : Link(f, V, a, s, i)
Reach(f, V, a, s, B, c) ==
  /\ LineEnd(f, c) /\ From(V, a, s, Len(V) + 1) <= c
  /\ Covers(f, B, s, From(V, a, s, Len(V) + 1), c)
ResetsIn(V, s) == {i \in 1..Len(V) : Resets(V[i], s)}

\* The parts of a frame.
LEMMA FrameTyped ==
  ASSUME NEW x \in FrameSet, NEW s \in Streams
  PROVE  x.id \in Offsets /\ x.id[s] \in Nat /\ Items(x) \in Seq(Item)
<1>1. CASE x \in [type : {"batch"}, id : Offsets, data : Seq(Item)]
  BY <1>1 DEF Items, Offsets
<1>2. CASE x \in [type : {"note", "reset"}, id : Offsets, data : Streams] \cup [type : {"end"}, id : Offsets, data : {None}]
  <2> Items(x) = << >>
    BY <1>2 DEF Items
  <2> QED BY <1>2 DEF Offsets
<1> QED BY <1>1, <1>2 DEF FrameSet

\* A link stays when frames are added behind it.
LEMMA LinkKept ==
  ASSUME NEW f, NEW a, NEW s \in Streams, NEW V \in Seq(FrameSet), NEW U \in Seq(FrameSet),
         Len(V) <= Len(U), \A i \in 1..Len(V) : U[i] = V[i],
         NEW i \in 1..Len(V), Link(f, V, a, s, i)
  PROVE  Link(f, U, a, s, i)
<1>1. U[i] = V[i] /\ From(U, a, s, i) = From(V, a, s, i) /\ (i < Len(V) => i < Len(U) /\ U[i + 1] = V[i + 1])
  BY DEF From
<1> QED BY <1>1, Zenon DEF Link

\* A clean wire stays clean behind a frame that goes on from it.
LEMMA Extend ==
  ASSUME NEW f, NEW a, NEW s \in Streams, NEW V \in Seq(FrameSet), NEW x \in FrameSet,
         NEW m \in Nat \ {0}, Clean(f, V, a, s, m), Link(f, Append(V, x), a, s, Len(V) + 1)
  PROVE  Clean(f, Append(V, x), a, s, m)
<1> DEFINE U == Append(V, x)
<1>1. U \in Seq(FrameSet) /\ Len(U) = Len(V) + 1 /\ \A i \in 1..Len(V) : U[i] = V[i]
  OBVIOUS
<1>2. Link(f, U, a, s, Len(V) + 1)
  OBVIOUS
<1> HIDE DEF U
<1> SUFFICES ASSUME NEW i \in m..Len(U) PROVE Link(f, U, a, s, i)
  BY DEF Clean, U
<1>3. CASE i \in 1..Len(V)
  <2> Link(f, V, a, s, i)
    BY <1>3 DEF Clean
  <2> QED BY <1>1, <1>3, LinkKept
<1>4. CASE i = Len(V) + 1
  BY <1>2, <1>4
<1> QED BY <1>1, <1>3, <1>4

\* Nothing covers no cells.
LEMMA CoversNone ==
  ASSUME NEW f, NEW s, NEW q \in Nat
  PROVE  Covers(f, << >>, s, q, q)
BY DEF Covers

\* A drain under way is fine for a stream when all that it wrote, and the batch it fills, go on
\* from one another.
Origin == IF lastId = NoId THEN seen ELSE lastId
Fine(d, s, m) ==
  /\ Clean(file[s], wire \o d.out, Origin[s], s, m)
  /\ Reach(file[s], wire \o d.out, Origin[s], s, d.batch, d.cur[s])

\* A frame put behind what a drain has written.
LEMMA ConcatAppend ==
  ASSUME NEW S, NEW v \in Seq(S), NEW w \in Seq(S), NEW x \in S
  PROVE  /\ v \o w \in Seq(S) /\ Append(w, x) \in Seq(S)
         /\ v \o Append(w, x) = Append(v \o w, x)
OBVIOUS

\* The same, for the wire.
LEMMA SentTyped ==
  ASSUME wire \in Seq(FrameSet), NEW d \in Work, NEW x \in FrameSet
  PROVE  /\ wire \o d.out \in Seq(FrameSet) /\ Append(d.out, x) \in Seq(FrameSet)
         /\ wire \o Append(d.out, x) = Append(wire \o d.out, x)
<1>1. d.out \in Seq(FrameSet)
  BY DEF Work
<1> QED BY <1>1, ConcatAppend

\* Writing one more frame.
LEMMA ResetsAppend ==
  ASSUME NEW V \in Seq(FrameSet), NEW x \in FrameSet, NEW s \in Streams
  PROVE  /\ ~Resets(x, s) => ResetsIn(Append(V, x), s) = ResetsIn(V, s)
         /\ Resets(x, s) => ResetsIn(Append(V, x), s) = ResetsIn(V, s) \cup {Len(V) + 1}
<1> DEFINE U == Append(V, x)
<1>1. Len(U) = Len(V) + 1 /\ Len(V) \in Nat /\ U[Len(V) + 1] = x /\ \A i \in 1..Len(V) : U[i] = V[i]
  OBVIOUS
<1> HIDE DEF U
<1>2. ResetsIn(U, s) = {i \in 1..(Len(V) + 1) : Resets(U[i], s)}
  BY <1>1 DEF ResetsIn
<1>3. \A i \in 1..Len(V) : Resets(U[i], s) <=> Resets(V[i], s)
  BY <1>1
<1>4. Resets(U[Len(V) + 1], s) <=> Resets(x, s)
  BY <1>1
<1> HIDE DEF Resets
<1>5. ~Resets(x, s) => ResetsIn(U, s) = ResetsIn(V, s)
  BY <1>1, <1>2, <1>3, <1>4 DEF ResetsIn
<1>6. Resets(x, s) => ResetsIn(U, s) = ResetsIn(V, s) \cup {Len(V) + 1}
  BY <1>1, <1>2, <1>3, <1>4 DEF ResetsIn
<1> QED BY <1>5, <1>6 DEF U

\* Flushing writes the batch as one frame and leaves everything else.
LEMMA FlushedFacts ==
  ASSUME wire \in Seq(FrameSet), NEW d \in Work, NEW s \in Streams
  PROVE  /\ Flushed(d) \in Work /\ Flushed(d).batch = << >> /\ Flushed(d).cur = d.cur
         /\ Flushed(d).read = d.read /\ Flushed(d).pend = d.pend /\ Flushed(d).lost = d.lost
         /\ ResetsIn(wire \o Flushed(d).out, s) = ResetsIn(wire \o d.out, s)
         /\ d.batch # << >> => LET x == Frame("batch", d.cur, d.batch) IN
              /\ x \in FrameSet /\ Flushed(d).out = Append(d.out, x)
              /\ wire \o Flushed(d).out = Append(wire \o d.out, x)
         /\ d.batch = << >> => Flushed(d) = d
<1> DEFINE x == Frame("batch", d.cur, d.batch)
<1>1. CASE d.batch = << >>
  BY <1>1 DEF Flushed
<1>2. CASE d.batch # << >>
  <2>1. x \in FrameSet /\ ~Resets(x, s)
    BY DEF FrameSet, Frame, Work, Resets
  <2>2. Append(d.out, x) \in Seq(FrameSet) /\ wire \o Append(d.out, x) = Append(wire \o d.out, x)
           /\ wire \o d.out \in Seq(FrameSet)
    BY <2>1, SentTyped
  <2>3. Flushed(d) = [d EXCEPT !.out = Append(d.out, x), !.batch = << >>]
    BY <1>2 DEF Flushed
  <2>4. << >> \in Seq(Item)
    OBVIOUS
  <2> HIDE DEF x
  <2>5. /\ Flushed(d) \in Work /\ Flushed(d).batch = << >> /\ Flushed(d).cur = d.cur
        /\ Flushed(d).read = d.read /\ Flushed(d).pend = d.pend /\ Flushed(d).lost = d.lost
        /\ Flushed(d).out = Append(d.out, x)
    BY <2>2, <2>3, <2>4 DEF Work
  <2>6. ResetsIn(Append(wire \o d.out, x), s) = ResetsIn(wire \o d.out, s)
    BY <2>1, <2>2, ResetsAppend
  <2> QED BY <1>2, <2>1, <2>2, <2>5, <2>6 DEF x
<1> QED BY <1>1, <1>2

\* A frame that takes the stream from where it stands to the cursor is fine.
LEMMA LinkLast ==
  ASSUME NEW f, NEW a, NEW s \in Streams, NEW V \in Seq(FrameSet), NEW x \in FrameSet, NEW B,
         ~Resets(x, s), B = Items(x), Reach(f, V, a, s, B, x.id[s]),
         NEW m \in Nat \ {0}, Clean(f, V, a, s, m)
  PROVE  Clean(f, Append(V, x), a, s, m) /\ Reach(f, Append(V, x), a, s, << >>, x.id[s])
<1> DEFINE U == Append(V, x)
<1>1. U \in Seq(FrameSet) /\ Len(U) = Len(V) + 1 /\ U[Len(V) + 1] = x /\ Len(V) \in Nat
        /\ \A i \in 1..Len(V) : U[i] = V[i]
  OBVIOUS
<1>2. x.id[s] \in Nat
  BY FrameTyped
<1> HIDE DEF U
<1>3. From(U, a, s, Len(V) + 1) = From(V, a, s, Len(V) + 1)
  BY <1>1 DEF From
<1>4. From(U, a, s, Len(U) + 1) = x.id[s]
  BY <1>1 DEF From
<1>5. Link(f, U, a, s, Len(V) + 1)
  BY <1>1, <1>3, Zenon DEF Link, Reach
<1>6. Clean(f, U, a, s, m)
  BY <1>5, Extend DEF U
<1>7. Covers(f, << >>, s, x.id[s], x.id[s])
  BY <1>2, CoversNone
<1>8. Reach(f, U, a, s, << >>, x.id[s])
  BY <1>2, <1>4, <1>7 DEF Reach
<1> QED BY <1>6, <1>8 DEF U

\* A flush is fine when the drain was.
LEMMA FlushedFine ==
  ASSUME wire \in Seq(FrameSet), NEW d \in Work, NEW s \in Streams, NEW m \in Nat \ {0}, Fine(d, s, m)
  PROVE  Fine(Flushed(d), s, m)
<1> DEFINE x == Frame("batch", d.cur, d.batch)
<1>1. CASE d.batch = << >>
  BY <1>1, FlushedFacts
<1>2. CASE d.batch # << >>
  <2>1. x \in FrameSet /\ wire \o Flushed(d).out = Append(wire \o d.out, x)
           /\ Flushed(d).batch = << >> /\ Flushed(d).cur = d.cur
    BY <1>2, FlushedFacts
  <2>2. x.id[s] = d.cur[s] /\ ~Resets(x, s) /\ d.batch = Items(x)
    BY DEF Frame, Resets, Items
  <2>3. wire \o d.out \in Seq(FrameSet)
    BY <2>1, SentTyped
  <2> HIDE DEF x
  <2> QED BY <2>1, <2>2, <2>3, LinkLast DEF Fine
<1> QED BY <1>1, <1>2

\* A system record, but for the reset of the stream itself.
LEMMA SentFacts ==
  ASSUME wire \in Seq(FrameSet), NEW d \in Work, NEW s \in Streams,
         NEW k \in {"note", "reset"}, NEW t \in Streams
  PROVE  LET e == SendSys(d, k, t) IN
         /\ e \in Work /\ e.batch = << >> /\ e.cur = d.cur
         /\ e.read = d.read /\ e.pend = d.pend /\ e.lost = d.lost
         /\ ~(k = "reset" /\ t = s) =>
              /\ ResetsIn(wire \o e.out, s) = ResetsIn(wire \o d.out, s)
              /\ \A m \in Nat \ {0} : Fine(d, s, m) => Fine(e, s, m)
<1> DEFINE g == Flushed(d)
           x == Frame(k, g.cur, t)
           e == SendSys(d, k, t)
<1>1. g \in Work /\ g.batch = << >> /\ g.cur = d.cur /\ g.read = d.read /\ g.pend = d.pend /\ g.lost = d.lost
        /\ ResetsIn(wire \o g.out, s) = ResetsIn(wire \o d.out, s)
  BY FlushedFacts
<1>2. \A m \in Nat \ {0} : Fine(d, s, m) => Fine(g, s, m)
  BY FlushedFine
<1>3. e = [g EXCEPT !.out = Append(g.out, x)]
  BY DEF SendSys
<1> HIDE DEF g
<1>4. x \in FrameSet /\ x.id = g.cur /\ Items(x) = << >> /\ (~(k = "reset" /\ t = s) => ~Resets(x, s))
  <2>1. g.cur \in Offsets
    BY <1>1 DEF Work
  <2> QED BY <2>1 DEF Frame, FrameSet, Items, Resets
<1> HIDE DEF x
<1>5. Append(g.out, x) \in Seq(FrameSet) /\ wire \o Append(g.out, x) = Append(wire \o g.out, x)
        /\ wire \o g.out \in Seq(FrameSet)
  BY <1>1, <1>4, SentTyped
<1> HIDE DEF e
<1>6. e \in Work /\ e.batch = << >> /\ e.cur = d.cur /\ e.read = d.read /\ e.pend = d.pend /\ e.lost = d.lost
        /\ e.out = Append(g.out, x)
  BY <1>1, <1>3, <1>5 DEF Work
<1>7. ASSUME ~(k = "reset" /\ t = s)
      PROVE  /\ ResetsIn(wire \o e.out, s) = ResetsIn(wire \o d.out, s)
             /\ \A m \in Nat \ {0} : Fine(d, s, m) => Fine(e, s, m)
  <2>1. ~Resets(x, s)
    BY <1>4, <1>7
  <2>2. ResetsIn(wire \o e.out, s) = ResetsIn(wire \o d.out, s)
    <3>1. ResetsIn(Append(wire \o g.out, x), s) = ResetsIn(wire \o g.out, s)
      BY <2>1, <1>4, <1>5, ResetsAppend
    <3> QED BY <3>1, <1>1, <1>5, <1>6
  <2>3. ASSUME NEW m \in Nat \ {0}, Fine(d, s, m) PROVE Fine(e, s, m)
    <3>1. Fine(g, s, m)
      BY <1>2, <2>3
    <3>2. /\ Clean(file[s], wire \o g.out, Origin[s], s, m)
          /\ Reach(file[s], wire \o g.out, Origin[s], s, << >>, x.id[s])
      BY <3>1, <1>1, <1>4 DEF Fine
    <3>3. /\ Clean(file[s], Append(wire \o g.out, x), Origin[s], s, m)
          /\ Reach(file[s], Append(wire \o g.out, x), Origin[s], s, << >>, x.id[s])
      BY <3>2, <2>1, <1>4, <1>5, LinkLast
    <3> QED BY <3>3, <1>1, <1>4, <1>5, <1>6 DEF Fine
  <2> QED BY <2>2, <2>3
<1> QED BY <1>6, <1>7 DEF e

\* The records of a batch.
LEMMA ItemTyped ==
  ASSUME NEW B \in Seq(Item), NEW i \in 1..Len(B)
  PROVE  B[i] \in Item /\ B[i].o \in Nat /\ B[i].s \in Streams /\ B[i].r \in Rec
<1>1. B[i] \in Item
  OBVIOUS
<1> QED BY <1>1 DEF Item

\* A batch that covers a stretch covers a longer one with the next record of the file.
LEMMA CoversAppend ==
  ASSUME NEW f, NEW s \in Streams, NEW B \in Seq(Item), NEW x \in Item, NEW p \in Nat, NEW q \in Nat,
         x.s = s, p <= q, q < x.o, Shows(f, x.o), x.r = f[x.o][1], \A o \in (q + 1)..(x.o - 1) : ~Shows(f, o),
         Covers(f, B, s, p, q)
  PROVE  Covers(f, Append(B, x), s, p, x.o)
<1> DEFINE C == Append(B, x)
<1>1. Len(C) = Len(B) + 1 /\ Len(B) \in Nat /\ C[Len(B) + 1] = x /\ \A i \in 1..Len(B) : C[i] = B[i] /\ B[i].o \in Nat
  <2>1. \A i \in 1..Len(B) : B[i].o \in Nat
    BY ItemTyped
  <2> QED BY <2>1
<1>2. x.o \in Nat
  BY DEF Item
<1> HIDE DEF C
<1>3. \A i \in 1..Len(C) : C[i].s = s =>
        p < C[i].o /\ C[i].o <= x.o /\ Shows(f, C[i].o) /\ C[i].r = f[C[i].o][1]
  <2> SUFFICES ASSUME NEW i \in 1..Len(C), C[i].s = s
               PROVE p < C[i].o /\ C[i].o <= x.o /\ Shows(f, C[i].o) /\ C[i].r = f[C[i].o][1]
    OBVIOUS
  <2>1. CASE i = Len(B) + 1
    BY <1>1, <1>2, <2>1
  <2>2. CASE i \in 1..Len(B)
    <3>1. C[i] = B[i] /\ C[i].o \in Nat /\ p < B[i].o /\ B[i].o <= q /\ Shows(f, B[i].o) /\ B[i].r = f[B[i].o][1]
      BY <1>1, <2>2 DEF Covers
    <3> QED BY <3>1, <1>2
  <2> QED BY <1>1, <2>1, <2>2
<1>4. \A i, j \in 1..Len(C) : i < j /\ C[i].s = s /\ C[j].s = s => C[i].o < C[j].o
  <2> SUFFICES ASSUME NEW i \in 1..Len(C), NEW j \in 1..Len(C), i < j, C[i].s = s, C[j].s = s
               PROVE C[i].o < C[j].o
    OBVIOUS
  <2>1. i \in 1..Len(B) /\ C[i] = B[i] /\ B[i].o \in Nat
    BY <1>1
  <2>2. CASE j = Len(B) + 1
    <3>1. B[i].o <= q
      BY <2>1 DEF Covers
    <3> QED BY <1>1, <1>2, <2>1, <2>2, <3>1
  <2>3. CASE j \in 1..Len(B)
    BY <1>1, <2>1, <2>3 DEF Covers
  <2> QED BY <1>1, <2>2, <2>3
<1>5. \A o \in (p + 1)..(x.o) : Shows(f, o) => \E i \in 1..Len(C) : C[i].s = s /\ C[i].o = o
  <2> SUFFICES ASSUME NEW o \in (p + 1)..(x.o), Shows(f, o) PROVE \E i \in 1..Len(C) : C[i].s = s /\ C[i].o = o
    OBVIOUS
  <2>1. CASE o = x.o
    BY <1>1, <2>1
  <2>2. CASE o \in (p + 1)..q
    <3>1. PICK i \in 1..Len(B) : B[i].s = s /\ B[i].o = o
      BY <2>2 DEF Covers
    <3> QED BY <1>1, <3>1
  <2> QED BY <1>2, <2>1, <2>2
<1> QED BY <1>3, <1>4, <1>5 DEF Covers, C

\* A record of the other stream changes nothing.
LEMMA CoversOther ==
  ASSUME NEW f, NEW s \in Streams, NEW B \in Seq(Item), NEW x \in Item, NEW p, NEW q,
         x.s # s, Covers(f, B, s, p, q)
  PROVE  Covers(f, Append(B, x), s, p, q)
<1> DEFINE C == Append(B, x)
<1>1. Len(C) = Len(B) + 1 /\ Len(B) \in Nat /\ C[Len(B) + 1] = x /\ \A i \in 1..Len(B) : C[i] = B[i]
  OBVIOUS
<1> HIDE DEF C
<1>2. \A i \in 1..Len(C) : C[i].s = s => i \in 1..Len(B) /\ C[i] = B[i]
  BY <1>1
<1>3. \A i \in 1..Len(B) : i \in 1..Len(C) /\ C[i] = B[i]
  BY <1>1
<1> QED BY <1>2, <1>3, Zenon DEF Covers, C

\* Nor do cells that show nothing.
LEMMA CoversMove ==
  ASSUME NEW f, NEW s, NEW B \in Seq(Item), NEW p \in Nat, NEW q \in Nat, NEW r \in Nat,
         q <= r, \A o \in (q + 1)..r : ~Shows(f, o), Covers(f, B, s, p, q)
  PROVE  Covers(f, B, s, p, r)
<1>1. \A i \in 1..Len(B) : B[i].s = s =>
        p < B[i].o /\ B[i].o <= r /\ Shows(f, B[i].o) /\ B[i].r = f[B[i].o][1]
  <2> TAKE i \in 1..Len(B)
  <2>1. B[i].o \in Nat
    BY ItemTyped
  <2> QED BY <2>1 DEF Covers
<1>2. \A o \in (p + 1)..r : Shows(f, o) => \E i \in 1..Len(B) : B[i].s = s /\ B[i].o = o
  BY DEF Covers
<1> QED BY <1>1, <1>2 DEF Covers

\* A batch stays free of a stream that is not queued.
LEMMA FreeOther ==
  ASSUME NEW s, NEW B \in Seq(Item), NEW x \in Item, x.s # s, Free(B, s)
  PROVE  Free(Append(B, x), s)
BY DEF Free

\* Where the next frame will start.
LEMMA FromTyped ==
  ASSUME NEW V \in Seq(FrameSet), NEW a \in Nat, NEW s \in Streams
  PROVE  From(V, a, s, Len(V) + 1) \in Nat
<1>1. CASE Len(V) = 0
  BY <1>1 DEF From
<1>2. CASE Len(V) # 0
  <2>1. V[Len(V)] \in FrameSet /\ Len(V) + 1 # 1 /\ (Len(V) + 1) - 1 = Len(V)
    BY <1>2
  <2> QED BY <2>1, FrameTyped DEF From
<1> QED BY <1>1, <1>2

\* What every step of a drain keeps: the types, what it does not touch, and the other stream.
Keeps(d, e, s) ==
  /\ e \in Work /\ e.read = d.read /\ e.pend = d.pend /\ e.lost = d.lost
  /\ \A t \in Streams \ {s} :
       /\ e.cur[t] = d.cur[t]
       /\ ResetsIn(wire \o e.out, t) = ResetsIn(wire \o d.out, t)
       /\ Free(d.batch, t) => Free(e.batch, t)
       /\ \A m \in Nat \ {0} : Fine(d, t, m) => Fine(e, t, m)

\* Steps of a drain compose.
LEMMA KeepsTrans ==
  ASSUME NEW d, NEW e, NEW g, NEW s, Keeps(d, e, s), Keeps(e, g, s)
  PROVE  Keeps(d, g, s)
BY DEF Keeps

Wired == wire \in Seq(FrameSet) /\ seen \in Offsets /\ lastId \in {NoId} \cup Offsets /\ file \in [Streams -> Text]

\* Where the frames of a connection start is an offset.
LEMMA StartTyped ==
  ASSUME Wired, NEW s \in Streams
  PROVE  Origin[s] \in Nat
BY DEF Wired, Origin, Offsets

\* The cursor moves over lines that show nothing.
Moved(d, s, o) == [d EXCEPT !.cur[s] = o]
\* Moving the cursor over cells that show nothing keeps a drain fine.
LEMMA MoveFacts ==
  ASSUME Wired, NEW d \in Work, NEW s \in Streams, NEW o \in Nat
  PROVE  LET e == Moved(d, s, o) IN
         /\ e \in Work /\ Keeps(d, e, s) /\ e.cur = [d.cur EXCEPT ![s] = o] /\ e.out = d.out /\ e.batch = d.batch
         /\ \A m \in Nat \ {0} :
              Fine(d, s, m) /\ d.cur[s] <= o /\ LineEnd(file[s], o)
                /\ (\A p \in (d.cur[s] + 1)..o : ~Shows(file[s], p)) => Fine(e, s, m)
<1> DEFINE e == Moved(d, s, o)
<1>1. e \in Work /\ e.cur = [d.cur EXCEPT ![s] = o] /\ e.out = d.out /\ e.batch = d.batch
        /\ e.read = d.read /\ e.pend = d.pend /\ e.lost = d.lost
  BY DEF Moved, Work, Offsets
<1>2. d.cur \in Offsets /\ d.batch \in Seq(Item) /\ d.out \in Seq(FrameSet)
  BY DEF Work
<1> HIDE DEF e
<1>3. e.cur[s] = o /\ d.cur[s] \in Nat /\ \A t \in Streams \ {s} : e.cur[t] = d.cur[t]
  BY <1>1, <1>2 DEF Offsets
<1>4. ASSUME NEW t \in Streams \ {s}, NEW m \in Nat \ {0}, Fine(d, t, m) PROVE Fine(e, t, m)
  <2>1. e.cur[t] = d.cur[t]
    BY <1>3
  <2> QED BY <1>1, <1>4, <2>1, Zenon DEF Fine
<1>5. Keeps(d, e, s)
  BY <1>1, <1>3, <1>4 DEF Keeps
<1>6. ASSUME NEW m \in Nat \ {0}, Fine(d, s, m), d.cur[s] <= o, LineEnd(file[s], o),
             \A p \in (d.cur[s] + 1)..o : ~Shows(file[s], p)
      PROVE Fine(e, s, m)
  <2> DEFINE V == wire \o d.out
             p0 == From(V, Origin[s], s, Len(V) + 1)
  <2>1. V \in Seq(FrameSet)
    BY <1>2 DEF Wired
  <2>2. Clean(file[s], V, Origin[s], s, m) /\ Reach(file[s], V, Origin[s], s, d.batch, d.cur[s])
    BY <1>6 DEF Fine
  <2> HIDE DEF V
  <2>3. p0 \in Nat
    BY <2>1, StartTyped, FromTyped
  <2>4. p0 <= d.cur[s] /\ Covers(file[s], d.batch, s, p0, d.cur[s])
    BY <2>2 DEF Reach
  <2> HIDE DEF p0
  <2>5. p0 <= o /\ Covers(file[s], d.batch, s, p0, o)
    BY <1>2, <1>3, <1>6, <2>3, <2>4, CoversMove
  <2>6. Reach(file[s], V, Origin[s], s, d.batch, o)
    BY <1>6, <2>5 DEF Reach, p0
  <2> QED BY <2>2, <2>6, <1>1, <1>3, Zenon DEF Fine, V
<1> QED BY <1>1, <1>5, <1>6 DEF e

\* A record is queued.
LEMMA QueueFacts ==
  ASSUME Wired, NEW d \in Work, NEW s \in Streams, NEW o \in Nat, NEW r \in Rec
  PROVE  LET e == QueueRecord(d, s, r, o) IN
         /\ Keeps(d, e, s) /\ e.cur = [d.cur EXCEPT ![s] = o]
         /\ ResetsIn(wire \o e.out, s) = ResetsIn(wire \o d.out, s)
         /\ \A m \in Nat \ {0} :
              Fine(d, s, m) /\ d.cur[s] < o /\ LineEnd(file[s], o) /\ Shows(file[s], o) /\ r = file[s][o][1]
                /\ (\A p \in (d.cur[s] + 1)..(o - 1) : ~Shows(file[s], p)) => Fine(e, s, m)
<1> DEFINE g == IF Len(d.batch) >= MaxBatch THEN Flushed(d) ELSE d
           x == [s |-> s, o |-> o, r |-> r]
           e == QueueRecord(d, s, r, o)
<1>1. /\ g \in Work /\ g.cur = d.cur /\ g.read = d.read /\ g.pend = d.pend /\ g.lost = d.lost
      /\ \A t \in Streams : /\ ResetsIn(wire \o g.out, t) = ResetsIn(wire \o d.out, t)
                            /\ Free(d.batch, t) => Free(g.batch, t)
  <2>1. CASE Len(d.batch) >= MaxBatch
    <3>1. g = Flushed(d)
      BY <2>1
    <3>2. \A t \in Streams : Free(<< >>, t)
      BY DEF Free
    <3> HIDE DEF g
    <3> QED BY <3>1, <3>2, FlushedFacts DEF Wired
  <2>2. CASE ~(Len(d.batch) >= MaxBatch)
    BY <2>2
  <2> QED BY <2>1, <2>2
<1>2. \A t \in Streams : \A m \in Nat \ {0} : Fine(d, t, m) => Fine(g, t, m)
  BY FlushedFine DEF Wired
<1>3. e = [g EXCEPT !.batch = Append(g.batch, x), !.cur[s] = o]
  BY DEF QueueRecord
<1> HIDE DEF g, e
<1>4. x \in Item /\ x.s = s /\ x.o = o /\ x.r = r
  BY DEF Item
<1>5. g.cur \in Offsets /\ g.batch \in Seq(Item) /\ g.out \in Seq(FrameSet)
  BY <1>1 DEF Work
<1> HIDE DEF x
<1>6. Append(g.batch, x) \in Seq(Item) /\ [g.cur EXCEPT ![s] = o] \in Offsets
  BY <1>4, <1>5 DEF Offsets
<1>7. /\ e \in Work /\ e.cur = [d.cur EXCEPT ![s] = o] /\ e.read = d.read /\ e.pend = d.pend
      /\ e.lost = d.lost /\ e.out = g.out /\ e.batch = Append(g.batch, x)
  BY <1>1, <1>3, <1>6 DEF Work
<1>8. e.cur[s] = o /\ d.cur[s] \in Nat /\ \A t \in Streams \ {s} : e.cur[t] = d.cur[t]
  BY <1>1, <1>5, <1>7 DEF Offsets
<1>9. ASSUME NEW t \in Streams \ {s}, NEW m \in Nat \ {0}, Fine(d, t, m) PROVE Fine(e, t, m)
  <2>1. Fine(g, t, m)
    BY <1>2, <1>9
  <2>2. e.cur[t] = g.cur[t] /\ x.s # t
    BY <1>1, <1>4, <1>8
  <2>3. \A p, q : Covers(file[t], g.batch, t, p, q) => Covers(file[t], e.batch, t, p, q)
    BY <1>4, <1>5, <1>7, <2>2, CoversOther
  <2>4. Reach(file[t], wire \o g.out, Origin[t], t, e.batch, e.cur[t])
    BY <2>1, <2>2, <2>3, Zenon DEF Fine, Reach
  <2> QED BY <2>1, <2>4, <1>7, Zenon DEF Fine
<1>10. Keeps(d, e, s)
  <2>1. \A t \in Streams \ {s} : Free(d.batch, t) => Free(e.batch, t)
    BY <1>1, <1>4, <1>5, <1>7, FreeOther
  <2> QED BY <1>1, <1>7, <1>8, <1>9, <2>1 DEF Keeps
<1>11. ASSUME NEW m \in Nat \ {0}, Fine(d, s, m), d.cur[s] < o, LineEnd(file[s], o), Shows(file[s], o),
              r = file[s][o][1], \A p \in (d.cur[s] + 1)..(o - 1) : ~Shows(file[s], p)
       PROVE Fine(e, s, m)
  <2> DEFINE V == wire \o g.out
             p0 == From(V, Origin[s], s, Len(V) + 1)
  <2>1. V \in Seq(FrameSet)
    BY <1>5 DEF Wired
  <2>2. Clean(file[s], V, Origin[s], s, m) /\ Reach(file[s], V, Origin[s], s, g.batch, d.cur[s])
    BY <1>1, <1>2, <1>11 DEF Fine
  <2> HIDE DEF V
  <2>3. p0 \in Nat
    BY <2>1, StartTyped, FromTyped
  <2>4. p0 <= d.cur[s] /\ Covers(file[s], g.batch, s, p0, d.cur[s])
    BY <2>2 DEF Reach
  <2> HIDE DEF p0
  <2>5. p0 <= o
    BY <1>8, <1>11, <2>3, <2>4
  <2>6. Covers(file[s], e.batch, s, p0, x.o)
    <3>1. /\ x.s = s /\ d.cur[s] < x.o /\ Shows(file[s], x.o) /\ x.r = file[s][x.o][1]
          /\ \A p \in (d.cur[s] + 1)..(x.o - 1) : ~Shows(file[s], p)
      BY <1>4, <1>11
    <3>2. Covers(file[s], Append(g.batch, x), s, p0, x.o)
      BY <3>1, <1>4, <1>5, <1>8, <2>3, <2>4, CoversAppend
    <3> QED BY <3>2, <1>7
  <2>7. Reach(file[s], V, Origin[s], s, e.batch, o)
    BY <1>4, <1>11, <2>5, <2>6 DEF Reach, p0
  <2> QED BY <2>2, <2>7, <1>7, <1>8, Zenon DEF Fine, V
<1> QED BY <1>1, <1>7, <1>10, <1>11 DEF e

Matches(f, c, b) == \A i \in 1..Len(c) : b + i <= Len(f) /\ f[b + i] = c[i]

\* A chunk that starts where a line starts shows what the file shows there.
LEMMA ChunkShows ==
  ASSUME NEW f \in Text, NEW c \in Text, NEW b \in Nat, LineEnd(f, b), Matches(f, c, b), NEW p \in 1..Len(c)
  PROVE  /\ EndsLine(f, b + p) <=> EndsLine(c, p)
         /\ Parses(f, b + p) <=> Parses(c, p)
         /\ Shows(f, b + p) <=> Shows(c, p)
<1>1. Len(c) \in Nat /\ p \in Nat /\ p >= 1 /\ p <= Len(c)
  BY DEF Text
<1>2. f[b + p] = c[p]
  BY DEF Matches
<1>3. EndsLine(f, b + p) <=> EndsLine(c, p)
  BY <1>2 DEF EndsLine
<1>4. Parses(f, b + p) <=> Parses(c, p)
  <2>1. CASE p = 1
    <3>1. ~Parses(c, p)
      BY <2>1 DEF Parses
    <3>2. b # 0 => f[b] # Body(f[b + p][1])
      BY DEF LineEnd, EndsLine, Body
    <3>3. ~Parses(f, b + p)
      BY <2>1, <3>2 DEF Parses
    <3> QED BY <3>1, <3>3
  <2>2. CASE p = 2
    <3>1. c[1] = f[b + 1] /\ b + p - 1 = b + 1 /\ p - 1 = 1 /\ b + p - 2 = b
      BY <1>1, <2>2 DEF Matches
    <3>2. b + p = 2 \/ EndsLine(f, b)
      BY <2>2 DEF LineEnd
    <3>3. Parses(c, p) <=> EndsLine(c, p) /\ c[1] = Body(c[p][1])
      BY <2>2, <3>1 DEF Parses
    <3>4. Parses(f, b + p) <=> EndsLine(f, b + p) /\ f[b + 1] = Body(f[b + p][1])
      BY <2>2, <3>1, <3>2 DEF Parses
    <3> QED BY <3>1, <3>3, <3>4, <1>2, <1>3
  <2>3. CASE p > 2
    <3>1. p - 1 \in 1..Len(c) /\ p - 2 \in 1..Len(c) /\ b + p - 1 = b + (p - 1) /\ b + p - 2 = b + (p - 2)
      BY <1>1, <2>3
    <3>2. f[b + p - 1] = c[p - 1] /\ f[b + p - 2] = c[p - 2]
      BY <3>1 DEF Matches
    <3> QED BY <3>2, <1>1, <1>2, <2>3 DEF Parses, EndsLine
  <2> QED BY <1>1, <2>1, <2>2, <2>3
<1> QED BY <1>2, <1>3, <1>4 DEF Shows

\* The stream itself starts over.
LEMMA ResetFacts ==
  ASSUME Wired, NEW d \in Work, NEW s \in Streams, Free(d.batch, s)
  PROVE  LET e == SendSys(Moved(d, s, 0), "reset", s) IN
         /\ Keeps(d, e, s) /\ e.cur[s] = 0
         /\ ResetsIn(wire \o e.out, s) = ResetsIn(wire \o d.out, s) \cup {Len(wire \o e.out)}
         /\ Len(wire \o e.out) > Len(wire \o d.out)
         /\ Fine(e, s, Len(wire \o e.out))
         /\ \A m \in Nat \ {0} : Clean(file[s], wire \o d.out, Origin[s], s, m) => Fine(e, s, m)
<1> DEFINE h == Moved(d, s, 0)
           g == Flushed(h)
           x == Frame("reset", g.cur, s)
           e == SendSys(h, "reset", s)
           V == wire \o d.out
           W == wire \o g.out
           U == wire \o e.out
<1>1. Keeps(d, h, s) /\ h.cur = [d.cur EXCEPT ![s] = 0] /\ h.out = d.out /\ h.batch = d.batch /\ h \in Work
  <2>1. 0 \in Nat
    OBVIOUS
  <2> QED BY <2>1, MoveFacts
<1> HIDE DEF h
<1>2. h.cur[s] = 0
  BY <1>1 DEF Work, Offsets
<1>3. \A t \in Streams \ {s} :
        /\ ResetsIn(wire \o e.out, t) = ResetsIn(wire \o h.out, t)
        /\ \A m \in Nat \ {0} : Fine(h, t, m) => Fine(e, t, m)
  BY <1>1, SentFacts DEF Wired
<1>4. e \in Work /\ e.batch = << >> /\ e.cur = h.cur /\ e.read = h.read /\ e.pend = h.pend /\ e.lost = h.lost
  BY <1>1, SentFacts DEF Wired
<1>5. Keeps(d, e, s)
  <2>1. Keeps(h, e, s)
    BY <1>3, <1>4 DEF Keeps, Free
  <2> QED BY <1>1, <2>1, KeepsTrans
<1>6. g \in Work /\ g.cur = h.cur /\ ResetsIn(W, s) = ResetsIn(V, s)
  BY <1>1, FlushedFacts DEF Wired
<1>7. e = [g EXCEPT !.out = Append(g.out, x)]
  BY DEF SendSys
<1> HIDE DEF g
<1>8. x \in FrameSet /\ x.id[s] = 0 /\ Resets(x, s)
  <2>1. g.cur \in Offsets /\ g.cur[s] = 0
    BY <1>2, <1>6 DEF Work
  <2> QED BY <2>1 DEF Frame, FrameSet, Resets
<1> HIDE DEF x
<1>9. Append(g.out, x) \in Seq(FrameSet) /\ wire \o Append(g.out, x) = Append(W, x) /\ W \in Seq(FrameSet)
  BY <1>6, <1>8, SentTyped DEF Wired
<1> HIDE DEF e
<1>10. e.out = Append(g.out, x)
  BY <1>6, <1>7 DEF Work
<1>11. U = Append(W, x)
  BY <1>9, <1>10
<1>12. V \in Seq(FrameSet)
  BY <1>1 DEF Work, Wired
<1>13. \/ W = V
       \/ \E y \in FrameSet : W = Append(V, y) /\ y.id[s] = 0 /\ Free(Items(y), s) /\ ~Resets(y, s)
  <2>1. CASE h.batch = << >>
    <3> g = h
      BY <2>1, <1>1, FlushedFacts DEF Wired, g
    <3> QED BY <1>1
  <2>2. CASE h.batch # << >>
    <3> DEFINE y == Frame("batch", h.cur, h.batch)
    <3>1. y \in FrameSet /\ W = Append(V, y)
      BY <2>2, <1>1, FlushedFacts DEF Wired, g
    <3>2. y.id[s] = 0 /\ Free(Items(y), s) /\ ~Resets(y, s)
      BY <1>1, <1>2 DEF Frame, Items, Resets
    <3> QED BY <3>1, <3>2
  <2> QED BY <2>1, <2>2
<1>14. U \in Seq(FrameSet) /\ Len(U) = Len(W) + 1 /\ Len(W) \in Nat /\ U[Len(W) + 1] = x
         /\ \A i \in 1..Len(W) : U[i] = W[i]
  BY <1>8, <1>9, <1>11
<1> HIDE DEF U, W, V
<1>15. Len(V) \in Nat /\ Len(W) >= Len(V) /\ \A i \in 1..Len(V) : W[i] = V[i]
  BY <1>12, <1>13
<1>16. Link(file[s], U, Origin[s], s, Len(U))
  BY <1>8, <1>14 DEF Link
<1>17. Reach(file[s], U, Origin[s], s, e.batch, e.cur[s])
  <2>1. From(U, Origin[s], s, Len(U) + 1) = 0
    BY <1>8, <1>14 DEF From
  <2>2. Covers(file[s], << >>, s, 0, 0)
    BY CoversNone
  <2> QED BY <2>1, <2>2, <1>2, <1>4 DEF Reach, LineEnd
<1>18. ASSUME NEW m \in Nat \ {0}, Clean(file[s], V, Origin[s], s, m) PROVE Clean(file[s], U, Origin[s], s, m)
  <2> SUFFICES ASSUME NEW i \in m..Len(U) PROVE Link(file[s], U, Origin[s], s, i)
    BY DEF Clean
  <2>1. CASE i \in 1..Len(V)
    <3>1. Link(file[s], V, Origin[s], s, i)
      BY <1>18, <2>1 DEF Clean
    <3>2. Len(V) <= Len(U) /\ \A k \in 1..Len(V) : U[k] = V[k]
      BY <1>14, <1>15
    <3> QED BY <2>1, <3>1, <3>2, <1>12, <1>14, LinkKept
  <2>2. CASE i = Len(U)
    BY <1>16, <2>2
  <2>3. CASE i \notin 1..Len(V) /\ i # Len(U)
    <3>1. i = Len(V) + 1 /\ Len(W) = Len(V) + 1 /\ W # V
      BY <2>3, <1>12, <1>13, <1>14, <1>15
    <3>2. PICK y \in FrameSet : W = Append(V, y) /\ y.id[s] = 0 /\ Free(Items(y), s) /\ ~Resets(y, s)
      BY <3>1, <1>13
    <3>3. U[i] = y /\ i < Len(U) /\ U[i + 1] = x
      BY <3>1, <3>2, <1>12, <1>14
    <3> QED BY <3>2, <3>3, <1>8 DEF Link
  <2> QED BY <2>1, <2>2, <2>3
<1>19. Clean(file[s], U, Origin[s], s, Len(U))
  BY <1>14, <1>16 DEF Clean
<1>20. ResetsIn(U, s) = ResetsIn(V, s) \cup {Len(U)}
  BY <1>6, <1>8, <1>9, <1>11, <1>14, ResetsAppend
<1>21. Len(U) > Len(V)
  BY <1>14, <1>15
<1>22. \A m \in Nat \ {0} : Clean(file[s], U, Origin[s], s, m) => Fine(e, s, m)
  BY <1>17 DEF Fine, U
<1>23. Fine(e, s, Len(U))
  BY <1>14, <1>19, <1>22
<1>24. e.cur[s] = 0
  BY <1>2, <1>4
<1> QED BY <1>5, <1>18, <1>20, <1>21, <1>22, <1>23, <1>24, Zenon DEF e, h, U, V

\* A line is consumed.
LEMMA LineFacts ==
  ASSUME Wired, NEW d \in Work, NEW s \in Streams, NEW c \in Text, NEW b \in Nat, NEW p \in 1..Len(c)
  PROVE  LET e == ConsumeLine(d, s, c, b, p) IN
         /\ Keeps(d, e, s) /\ e.cur[s] = b + p
         /\ ResetsIn(wire \o e.out, s) = ResetsIn(wire \o d.out, s)
         /\ \A m \in Nat \ {0} :
              Fine(d, s, m) /\ LineEnd(file[s], b) /\ Matches(file[s], c, b) /\ EndsLine(c, p) /\ d.cur[s] < b + p
                /\ (\A q \in (d.cur[s] + 1)..(b + p - 1) : ~Shows(file[s], q)) => Fine(e, s, m)
<1> DEFINE e == ConsumeLine(d, s, c, b, p)
           h == Moved(d, s, b + p)
           Here(m) == Fine(d, s, m) /\ LineEnd(file[s], b) /\ Matches(file[s], c, b) /\ EndsLine(c, p)
                        /\ d.cur[s] < b + p /\ (\A q \in (d.cur[s] + 1)..(b + p - 1) : ~Shows(file[s], q))
<1>1. b + p \in Nat /\ d.cur \in Offsets /\ d.cur[s] \in Nat /\ file[s] \in Text /\ c[p][1] \in Rec
  <2>1. d.cur \in Offsets /\ d.cur[s] \in Nat
    BY DEF Work, Offsets
  <2>2. file[s] \in Text
    BY DEF Wired
  <2>3. b + p \in Nat
    OBVIOUS
  <2>4. c[p][1] \in Rec
    BY ShowsFacts
  <2> QED BY <2>1, <2>2, <2>3, <2>4
<1>2. ASSUME NEW m, Here(m)
      PROVE  /\ LineEnd(file[s], b + p) /\ (Shows(file[s], b + p) <=> Shows(c, p)) /\ file[s][b + p] = c[p]
  <2>1. b + p <= Len(file[s]) /\ file[s][b + p] = c[p]
    BY <1>2 DEF Matches
  <2>2. EndsLine(file[s], b + p) /\ (Shows(file[s], b + p) <=> Shows(c, p))
    BY <1>1, <1>2, ChunkShows
  <2> QED BY <1>1, <2>1, <2>2 DEF LineEnd, Text
<1>3. Keeps(d, h, s) /\ h \in Work /\ h.cur[s] = b + p /\ h.out = d.out
  <2>1. Keeps(d, h, s) /\ h \in Work /\ h.cur = [d.cur EXCEPT ![s] = b + p] /\ h.out = d.out
    BY <1>1, MoveFacts
  <2> HIDE DEF h
  <2> QED BY <2>1, <1>1 DEF Offsets
<1>4. ASSUME NEW m \in Nat \ {0}, Here(m), ~Shows(c, p) PROVE Fine(h, s, m)
  <2>1. \A q \in (d.cur[s] + 1)..(b + p) : ~Shows(file[s], q)
    BY <1>1, <1>2, <1>4
  <2>2. Fine(d, s, m) /\ d.cur[s] <= b + p /\ LineEnd(file[s], b + p)
    BY <1>1, <1>2, <1>4
  <2> QED BY <1>1, <2>1, <2>2, MoveFacts
<1>5. CASE ~Parses(c, p)
  <2>1. e = SendSys(h, "note", s)
    BY <1>5 DEF ConsumeLine, Moved
  <2>2. ~Shows(c, p)
    BY <1>5 DEF Shows
  <2> HIDE DEF h, Here
  <2>3. /\ e \in Work /\ e.batch = << >> /\ e.cur = h.cur /\ e.read = h.read /\ e.pend = h.pend /\ e.lost = h.lost
        /\ ResetsIn(wire \o e.out, s) = ResetsIn(wire \o h.out, s)
        /\ \A m \in Nat \ {0} : Fine(h, s, m) => Fine(e, s, m)
    BY <2>1, <1>3, SentFacts DEF Wired
  <2>4. \A t \in Streams \ {s} :
          /\ ResetsIn(wire \o e.out, t) = ResetsIn(wire \o h.out, t)
          /\ \A m \in Nat \ {0} : Fine(h, t, m) => Fine(e, t, m)
    BY <2>1, <1>3, SentFacts DEF Wired
  <2>5. Keeps(h, e, s)
    BY <2>3, <2>4 DEF Keeps, Free
  <2>6. Keeps(d, e, s)
    BY <1>3, <2>5, KeepsTrans
  <2>7. \A m \in Nat \ {0} : Here(m) => Fine(e, s, m)
    BY <1>4, <2>2, <2>3
  <2> QED BY <1>3, <2>3, <2>6, <2>7 DEF Here
<1>6. CASE Parses(c, p) /\ ~Forwarded(c[p][1])
  <2>1. e = h
    BY <1>6 DEF ConsumeLine, Moved
  <2>2. ~Shows(c, p)
    BY <1>6 DEF Shows
  <2> HIDE DEF h
  <2> QED BY <2>1, <2>2, <1>3, <1>4
<1>7. CASE Parses(c, p) /\ Forwarded(c[p][1])
  <2>1. e = QueueRecord(d, s, c[p][1], b + p)
    BY <1>7 DEF ConsumeLine
  <2>2. Shows(c, p)
    BY <1>7 DEF Shows
  <2> HIDE DEF e, h
  <2>3. Keeps(d, e, s) /\ e.cur = [d.cur EXCEPT ![s] = b + p] /\ ResetsIn(wire \o e.out, s) = ResetsIn(wire \o d.out, s)
    BY <1>1, <2>1, QueueFacts
  <2>4. e.cur[s] = b + p
    BY <1>1, <2>3 DEF Offsets
  <2>5. ASSUME NEW m \in Nat \ {0}, Here(m) PROVE Fine(e, s, m)
    <3>1. LineEnd(file[s], b + p) /\ Shows(file[s], b + p) /\ c[p][1] = file[s][b + p][1]
      BY <1>2, <2>2, <2>5
    <3>2. Fine(d, s, m) /\ d.cur[s] < b + p /\ \A q \in (d.cur[s] + 1)..(b + p - 1) : ~Shows(file[s], q)
      BY <2>5
    <3> HIDE DEF Here
    <3>3. Fine(QueueRecord(d, s, c[p][1], b + p), s, m)
      <4> DEFINE o == b + p
                 r == c[p][1]
                 g == QueueRecord(d, s, r, o)
      <4>1. o \in Nat /\ r \in Rec
        BY <1>1
      <4> HIDE DEF o, r
      <4>2. Fine(d, s, m) /\ d.cur[s] < o /\ LineEnd(file[s], o) /\ Shows(file[s], o) /\ r = file[s][o][1]
                /\ (\A q \in (d.cur[s] + 1)..(o - 1) : ~Shows(file[s], q)) => Fine(g, s, m)
        BY <4>1, QueueFacts
      <4> HIDE DEF g
      <4>3. Fine(g, s, m)
        BY <4>2, <3>1, <3>2 DEF o, r
      <4> QED BY <4>3 DEF g, o, r
    <3> QED BY <2>1, <3>3
  <2>6. \A m \in Nat \ {0} : Here(m) => Fine(e, s, m)
    BY <2>5
  <2> QED BY <2>3, <2>4, <2>6 DEF e
<1> QED BY <1>5, <1>6, <1>7

\* A chunk is consumed line by line, from where the cursor stands.
LEMMA PushFacts ==
  ASSUME Wired, NEW d \in Work, NEW s \in Streams, NEW c \in Text, NEW b \in Nat, d.cur[s] = b
  PROVE  LET e == Push(d, s, c, b) IN
         /\ Keeps(d, e, s) /\ e.cur[s] = b + LastEnd(c)
         /\ ResetsIn(wire \o e.out, s) = ResetsIn(wire \o d.out, s)
         /\ \A m \in Nat \ {0} : Fine(d, s, m) /\ Matches(file[s], c, b) => Fine(e, s, m)
<1> DEFINE u == Pushed(d, s, c, b)
           Cur(e, k) == /\ e.cur[s] \in b..(b + k) /\ (e.cur[s] = b \/ EndsLine(c, e.cur[s] - b))
                        /\ \A q \in 1..k : EndsLine(c, q) => b + q <= e.cur[s]
           Own(e) == /\ ResetsIn(wire \o e.out, s) = ResetsIn(wire \o d.out, s)
                     /\ \A m \in Nat \ {0} : Fine(d, s, m) /\ Matches(file[s], c, b) => Fine(e, s, m)
           Inv(e, k) == Keeps(d, e, s) /\ Cur(e, k) /\ Own(e)
           S == {k \in Nat : k <= Len(c) => Inv(u[k], k)}
<1>1. Len(c) \in Nat /\ file[s] \in Text
  BY DEF Text, Wired
<1>2. u[0] = d /\ \A p \in 1..Len(c) : u[p] = IF EndsLine(c, p) THEN ConsumeLine(u[p - 1], s, c, b, p) ELSE u[p - 1]
  BY <1>1, PushedDef
<1> HIDE DEF u
<1>3. 0 \in S
  <2>1. Keeps(d, d, s) /\ Own(d)
    BY DEF Keeps
  <2>2. Cur(d, 0)
    OBVIOUS
  <2> HIDE DEF Own, Cur
  <2> QED BY <2>1, <2>2, <1>2
<1>4. ASSUME NEW k \in Nat, k \in S PROVE k + 1 \in S
  <2> DEFINE p == k + 1
             e == u[k]
             g == u[k + 1]
  <2> SUFFICES ASSUME p <= Len(c) PROVE Inv(g, p)
    OBVIOUS
  <2>1. Inv(e, k)
    BY <1>1, <1>4
  <2>2. p \in 1..Len(c) /\ p - 1 = k /\ p \in Nat
    BY <1>1
  <2>3. g = IF EndsLine(c, p) THEN ConsumeLine(e, s, c, b, p) ELSE e
    BY <1>2, <2>2
  <2> HIDE DEF e, g
  <2>4. e \in Work /\ e.cur[s] \in b..(b + k)
    BY <2>1 DEF Keeps
  <2>5. CASE ~EndsLine(c, p)
    <3>1. Cur(e, p)
      BY <2>1, <2>5, <2>2
    <3> HIDE DEF Own, Cur
    <3> QED BY <3>1, <2>1, <2>3, <2>5
  <2>6. CASE EndsLine(c, p)
    <3>1. /\ Keeps(e, g, s) /\ g.cur[s] = b + p
          /\ ResetsIn(wire \o g.out, s) = ResetsIn(wire \o e.out, s)
          /\ \A m \in Nat \ {0} :
               Fine(e, s, m) /\ LineEnd(file[s], b) /\ Matches(file[s], c, b) /\ EndsLine(c, p) /\ e.cur[s] < b + p
                 /\ (\A q \in (e.cur[s] + 1)..(b + p - 1) : ~Shows(file[s], q)) => Fine(g, s, m)
      <4> HIDE DEF p
      <4>1. g = ConsumeLine(e, s, c, b, p)
        BY <2>3, <2>6
      <4> QED BY <4>1, <2>2, <2>4, LineFacts
    <3>2. Cur(g, p)
      BY <3>1, <2>2, <2>6
    <3>3. Keeps(d, g, s)
      BY <2>1, <3>1, KeepsTrans
    <3>4. ASSUME NEW m \in Nat \ {0}, Fine(d, s, m), Matches(file[s], c, b) PROVE Fine(g, s, m)
      <4>1. LineEnd(file[s], b)
        BY <3>4 DEF Fine, Reach
      <4>2. Fine(e, s, m)
        BY <2>1, <3>4
      <4>3. \A q \in (e.cur[s] + 1)..(b + p - 1) : ~Shows(file[s], q)
        <5> SUFFICES ASSUME NEW q \in (e.cur[s] + 1)..(b + p - 1), Shows(file[s], q) PROVE FALSE
          OBVIOUS
        <5>1. q - b \in 1..k /\ q - b \in 1..Len(c) /\ b + (q - b) = q
          BY <2>2, <2>4
        <5>2. Shows(c, q - b)
          BY <5>1, <3>4, <4>1, <1>1, ChunkShows
        <5>3. EndsLine(c, q - b)
          BY <5>1, <5>2, ShowsFacts
        <5>4. b + (q - b) <= e.cur[s]
          BY <2>1, <5>1, <5>3
        <5> QED BY <5>1, <5>4, <2>4
      <4>4. e.cur[s] < b + p
        BY <2>2, <2>4
      <4> QED BY <3>1, <3>4, <4>1, <4>2, <4>3, <4>4, <2>6
    <3>5. Own(g)
      BY <2>1, <3>1, <3>4
    <3> HIDE DEF Own, Cur
    <3> QED BY <3>2, <3>3, <3>5
  <2> QED BY <2>5, <2>6
<1> HIDE DEF S
<1>5. S \in SUBSET Nat
  BY DEF S
<1>6. \A k \in Nat : k \in S
  BY <1>3, <1>4, <1>5, Climb
<1> DEFINE e == u[Len(c)]
<1>7. Inv(e, Len(c))
  BY <1>1, <1>6 DEF S
<1> HIDE DEF e
<1>8. e.cur[s] = b + LastEnd(c)
  <2>1. LastEnd(c) \in 0..Len(c) /\ LineEnd(c, LastEnd(c)) /\ \A p \in 1..Len(c) : EndsLine(c, p) => p <= LastEnd(c)
    BY LastEndFacts
  <2>2. Cur(e, Len(c))
    BY <1>7
  <2>3. LastEnd(c) = 0 \/ b + LastEnd(c) <= e.cur[s]
    BY <2>1, <2>2 DEF LineEnd
  <2>4. e.cur[s] = b \/ e.cur[s] - b \in 1..Len(c)
    BY <2>2, <1>1
  <2>5. e.cur[s] = b \/ e.cur[s] - b <= LastEnd(c)
    BY <2>1, <2>2, <2>4
  <2> HIDE DEF Cur
  <2>6. e.cur[s] \in Nat /\ e.cur[s] >= b
    BY <2>2, <1>1 DEF Cur
  <2> QED BY <2>1, <2>3, <2>5, <2>6
<1>9. e = Push(d, s, c, b)
  BY DEF Push, e, u
<1>10. Keeps(d, e, s) /\ Own(e)
  BY <1>7
<1> QED BY <1>8, <1>9, <1>10

\* The tails: what was read is what the cursor covers and the pending cells, none of which ends a line.
Tail1(c, r, p) == r = c + Len(p) /\ \A i \in 1..Len(p) : ~EndsLine(p, i)
Tailed ==
  /\ Wired /\ read \in Offsets /\ cursor \in Offsets /\ pend \in [Streams -> Text]
  /\ \A s \in Streams : Tail1(cursor[s], read[s], pend[s])

\* A drain of one stream leaves the other one alone.
Other(d, e, s) ==
  \A t \in Streams \ {s} :
    /\ e.cur[t] = d.cur[t] /\ e.read[t] = d.read[t] /\ e.pend[t] = d.pend[t] /\ (t \in e.lost <=> t \in d.lost)
    /\ ResetsIn(wire \o e.out, t) = ResetsIn(wire \o d.out, t)
    /\ Free(d.batch, t) => Free(e.batch, t)
    /\ \A m \in Nat \ {0} : Fine(d, t, m) => Fine(e, t, m)

\* One stream is drained: it starts over if the file has shrunk, and a chunk is consumed.
LEMMA DrainedFacts ==
  ASSUME Wired, NEW d \in Work, NEW s \in Streams, NEW at \in Nat, NEW held \in Text, NEW chunk \in Text,
         Len(held) <= at, IF Shrunk(s) THEN at - Len(held) = 0 ELSE d.cur[s] = at - Len(held),
         Free(d.batch, s)
  PROVE  LET e == Drained(d, s, at, held, chunk) IN
         /\ e \in Work /\ Other(d, e, s) /\ Tail1(e.cur[s], e.read[s], e.pend[s])
         /\ e.lost = (IF Shrunk(s) THEN d.lost \ {s} ELSE d.lost) \cup
                       {t \in {s} : held # SubSeq(file[s], at - Len(held) + 1, at)}
         /\ ~Shrunk(s) => ResetsIn(wire \o e.out, s) = ResetsIn(wire \o d.out, s)
         /\ Shrunk(s) /\ Matches(file[s], held \o chunk, at - Len(held)) =>
              \E n \in Nat : /\ n > Len(wire \o d.out)
                             /\ ResetsIn(wire \o e.out, s) = ResetsIn(wire \o d.out, s) \cup {n}
                             /\ Fine(e, s, n)
         /\ Matches(file[s], held \o chunk, at - Len(held)) =>
              \A m \in Nat \ {0} : Fine(d, s, m) => Fine(e, s, m)
<1> DEFINE b == at - Len(held)
           c == held \o chunk
           d1 == IF Shrunk(s) THEN SendSys(Moved(d, s, 0), "reset", s) ELSE d
           d2 == Push(d1, s, c, b)
           e == Drained(d, s, at, held, chunk)
           gone == {t \in {s} : held # SubSeq(file[s], b + 1, at)}
<1>1. c \in Text /\ b \in Nat /\ Len(c) = Len(held) + Len(chunk) /\ Len(held) \in Nat /\ Len(chunk) \in Nat
  BY DEF Text
<1>2. Keeps(d, d, s)
  BY DEF Keeps
<1>3. /\ Keeps(d, d1, s) /\ d1.cur[s] = b
      /\ ~Shrunk(s) => d1 = d
      /\ Shrunk(s) =>
           /\ ResetsIn(wire \o d1.out, s) = ResetsIn(wire \o d.out, s) \cup {Len(wire \o d1.out)}
           /\ Len(wire \o d1.out) > Len(wire \o d.out)
           /\ Fine(d1, s, Len(wire \o d1.out))
      /\ \A m \in Nat \ {0} : Fine(d, s, m) => Fine(d1, s, m)
  <2>1. CASE Shrunk(s)
    <3>1. d1 = SendSys(Moved(d, s, 0), "reset", s)
      BY <2>1
    <3> HIDE DEF d1
    <3>2. /\ Keeps(d, d1, s) /\ d1.cur[s] = 0
          /\ ResetsIn(wire \o d1.out, s) = ResetsIn(wire \o d.out, s) \cup {Len(wire \o d1.out)}
          /\ Len(wire \o d1.out) > Len(wire \o d.out)
          /\ Fine(d1, s, Len(wire \o d1.out))
          /\ \A m \in Nat \ {0} : Clean(file[s], wire \o d.out, Origin[s], s, m) => Fine(d1, s, m)
      BY <3>1, ResetFacts
    <3>3. \A m \in Nat \ {0} : Fine(d, s, m) => Clean(file[s], wire \o d.out, Origin[s], s, m)
      BY DEF Fine
    <3> QED BY <2>1, <3>2, <3>3
  <2>2. CASE ~Shrunk(s)
    <3> d1 = d
      BY <2>2
    <3> QED BY <1>2, <2>2
  <2> QED BY <2>1, <2>2
<1>4. d1 \in Work
  BY <1>3 DEF Keeps
<1> HIDE DEF d1, b, c
<1>5. /\ Keeps(d1, d2, s) /\ d2.cur[s] = b + LastEnd(c)
      /\ ResetsIn(wire \o d2.out, s) = ResetsIn(wire \o d1.out, s)
      /\ \A m \in Nat \ {0} : Fine(d1, s, m) /\ Matches(file[s], c, b) => Fine(d2, s, m)
  BY <1>1, <1>3, <1>4, PushFacts
<1>6. Keeps(d, d2, s) /\ d2 \in Work
  BY <1>3, <1>5, KeepsTrans DEF Keeps
<1>7. e = [d2 EXCEPT !.read[s] = at + Len(chunk),
                !.pend[s] = SubSeq(c, LastEnd(c) + 1, Len(c)),
                !.active = @ \/ chunk # << >> \/ Shrunk(s),
                !.ended = IF s = "e" /\ RunEvents(Records(c)) # << >> THEN Terminal(Records(c)) ELSE @,
                !.lost = (IF Shrunk(s) THEN @ \ {s} ELSE @) \cup gone]
  BY DEF Drained, b, c, d1, Moved
<1>8. /\ at + Len(chunk) \in Nat /\ SubSeq(c, LastEnd(c) + 1, Len(c)) \in Text
      /\ Len(SubSeq(c, LastEnd(c) + 1, Len(c))) = Len(c) - LastEnd(c)
      /\ \A i \in 1..Len(SubSeq(c, LastEnd(c) + 1, Len(c))) :
           SubSeq(c, LastEnd(c) + 1, Len(c))[i] = c[LastEnd(c) + i]
      /\ LastEnd(c) \in 0..Len(c)
  <2>1. LastEnd(c) \in 0..Len(c)
    BY <1>1, LastEndFacts
  <2> DEFINE k == LastEnd(c) + 1
             n == Len(c)
  <2>2. k \in 1..(n + 1) /\ n \in Nat /\ c \in Seq(Cell) /\ at + Len(chunk) \in Nat
    <3>1. c \in Seq(Cell) /\ n \in Nat
      BY <1>1 DEF Text
    <3>2. at + Len(chunk) \in Nat
      BY <1>1
    <3>3. k \in 1..(n + 1)
      BY <2>1, <3>1
    <3> QED BY <3>1, <3>2, <3>3
  <2>3. \A i \in k..n : c[i] \in Cell
    BY <2>2
  <2> HIDE DEF k
  <2>4. /\ SubSeq(c, k, n) \in Seq(Cell)
        /\ Len(SubSeq(c, k, n)) = IF k <= n THEN n - k + 1 ELSE 0
        /\ \A i \in 1..(n - k + 1) : SubSeq(c, k, n)[i] = c[k + i - 1]
    BY <2>2, <2>3, SubSeqProperties
  <2> DEFINE q == SubSeq(c, k, n)
  <2> HIDE DEF q
  <2>5. q \in Seq(Cell) /\ Len(q) = n - LastEnd(c) /\ \A i \in 1..Len(q) : q[i] = c[LastEnd(c) + i]
    <3>1. Len(q) = n - k + 1 /\ n - k + 1 = n - LastEnd(c) /\ \A i \in 1..Len(q) : k + i - 1 = LastEnd(c) + i
      BY <2>1, <2>2, <2>4 DEF q, k
    <3> QED BY <3>1, <2>4 DEF q
  <2> QED BY <2>1, <2>2, <2>5 DEF q, k, Text
<1> HIDE DEF d2, e
<1>9. Terminal(Records(c)) \in BOOLEAN /\ gone \subseteq Streams
  BY DEF Terminal
<1> HIDE DEF gone
<1> DEFINE q == SubSeq(c, LastEnd(c) + 1, Len(c))
<1>10. q \in Text /\ Len(q) = Len(c) - LastEnd(c) /\ \A i \in 1..Len(q) : q[i] = c[LastEnd(c) + i]
  BY <1>8
<1> HIDE DEF q
<1>11. /\ e \in Work /\ e.cur = d2.cur /\ e.batch = d2.batch /\ e.out = d2.out
       /\ e.read = [d2.read EXCEPT ![s] = at + Len(chunk)] /\ e.pend = [d2.pend EXCEPT ![s] = q]
       /\ e.lost = (IF Shrunk(s) THEN d2.lost \ {s} ELSE d2.lost) \cup gone
  <2>1. /\ d2.read \in Offsets /\ d2.pend \in [Streams -> Text] /\ d2.active \in BOOLEAN /\ d2.ended \in BOOLEAN
        /\ d2.lost \in SUBSET Streams /\ d2.cur \in Offsets /\ d2.batch \in Seq(Item) /\ d2.out \in Seq(FrameSet)
    BY <1>6 DEF Work
  <2> DEFINE r2 == [d2.read EXCEPT ![s] = at + Len(chunk)]
             p2 == [d2.pend EXCEPT ![s] = q]
             a2 == d2.active \/ chunk # << >> \/ Shrunk(s)
             t2 == IF s = "e" /\ RunEvents(Records(c)) # << >> THEN Terminal(Records(c)) ELSE d2.ended
             l2 == (IF Shrunk(s) THEN d2.lost \ {s} ELSE d2.lost) \cup gone
  <2>2. r2 \in Offsets /\ p2 \in [Streams -> Text] /\ a2 \in BOOLEAN /\ t2 \in BOOLEAN /\ l2 \in SUBSET Streams
    BY <2>1, <1>8, <1>9, <1>10 DEF Offsets
  <2>3. e = [d2 EXCEPT !.read = r2, !.pend = p2, !.active = a2, !.ended = t2, !.lost = l2]
    BY <1>7, <1>6 DEF q, Work
  <2> HIDE DEF r2, p2, a2, t2, l2
  <2>4. e \in Work /\ e.cur = d2.cur /\ e.batch = d2.batch /\ e.out = d2.out /\ e.read = r2 /\ e.pend = p2 /\ e.lost = l2
    BY <2>2, <2>3, <1>6 DEF Work
  <2> QED BY <2>4 DEF r2, p2, l2
<1>12. e.read[s] = at + Len(chunk) /\ e.pend[s] = q
         /\ \A t \in Streams \ {s} : e.read[t] = d2.read[t] /\ e.pend[t] = d2.pend[t]
  BY <1>11, <1>6 DEF Work, Offsets
<1>13. Tail1(e.cur[s], e.read[s], e.pend[s])
  <2>1. e.read[s] = e.cur[s] + Len(e.pend[s])
    BY <1>1, <1>5, <1>8, <1>10, <1>11, <1>12 DEF b
  <2>2. \A i \in 1..Len(q) : ~EndsLine(q, i)
    <3> TAKE i \in 1..Len(q)
    <3>1. LastEnd(c) + i \in 1..Len(c) /\ LastEnd(c) + i > LastEnd(c) /\ q[i] = c[LastEnd(c) + i]
      BY <1>1, <1>8, <1>10
    <3>2. ~EndsLine(c, LastEnd(c) + i)
      <4>1. EndsLine(c, LastEnd(c) + i) => LastEnd(c) + i <= LastEnd(c)
        BY <3>1, <1>1, LastEndFacts
      <4>2. ~(LastEnd(c) + i <= LastEnd(c))
        BY <1>8
      <4> QED BY <4>1, <4>2
    <3> QED BY <3>1, <3>2 DEF EndsLine
  <2> QED BY <2>1, <2>2, <1>12 DEF Tail1
<1>14. \A t \in Streams : /\ ResetsIn(wire \o e.out, t) = ResetsIn(wire \o d2.out, t)
                          /\ \A m \in Nat \ {0} : Fine(d2, t, m) => Fine(e, t, m)
  BY <1>11, Zenon DEF Fine
<1>15. Other(d, e, s)
  <2>1. \A t \in Streams \ {s} : t \in e.lost <=> t \in d.lost
    BY <1>6, <1>11 DEF Keeps, gone
  <2> QED BY <2>1, <1>6, <1>11, <1>12, <1>14 DEF Keeps, Other
<1>16. e.lost = (IF Shrunk(s) THEN d.lost \ {s} ELSE d.lost) \cup gone
  BY <1>6, <1>11 DEF Keeps
<1>17. ~Shrunk(s) => ResetsIn(wire \o e.out, s) = ResetsIn(wire \o d.out, s)
  BY <1>3, <1>5, <1>14
<1>18. ASSUME Matches(file[s], c, b) PROVE \A m \in Nat \ {0} : Fine(d, s, m) => Fine(e, s, m)
  BY <1>3, <1>5, <1>14, <1>18
<1>19. ASSUME Shrunk(s), Matches(file[s], c, b)
       PROVE \E n \in Nat : /\ n > Len(wire \o d.out)
                            /\ ResetsIn(wire \o e.out, s) = ResetsIn(wire \o d.out, s) \cup {n}
                            /\ Fine(e, s, n)
  <2> DEFINE n == Len(wire \o d1.out)
  <2>1. n \in Nat \ {0} /\ n > Len(wire \o d.out)
    <3>1. d1.out \in Seq(FrameSet) /\ wire \in Seq(FrameSet) /\ d.out \in Seq(FrameSet)
      BY <1>4 DEF Work, Wired
    <3>2. n \in Nat /\ Len(wire \o d.out) \in Nat
      BY <3>1
    <3> QED BY <3>2, <1>3, <1>19
  <2>2. ResetsIn(wire \o e.out, s) = ResetsIn(wire \o d.out, s) \cup {n}
    BY <1>3, <1>5, <1>14, <1>19
  <2>3. Fine(e, s, n)
    BY <1>3, <1>5, <1>14, <1>19, <2>1
  <2> QED BY <2>1, <2>2, <2>3
<1> QED BY <1>11, <1>13, <1>15, <1>16, <1>17, <1>18, <1>19, Zenon DEF e, b, c, gone

\* A piece of a file.
LEMMA SubSeqText ==
  ASSUME NEW f \in Text, NEW k \in Nat, NEW n \in Nat, n <= Len(f)
  PROVE  /\ SubSeq(f, k + 1, n) \in Text
         /\ k <= n => Len(SubSeq(f, k + 1, n)) = n - k
         /\ \A i \in 1..(n - k) : SubSeq(f, k + 1, n)[i] = f[k + i]
<1>1. f \in Seq(Cell) /\ Len(f) \in Nat
  BY DEF Text
<1> DEFINE j == k + 1
<1>2. j \in Nat /\ \A i \in j..n : f[i] \in Cell
  BY <1>1
<1> HIDE DEF j
<1>3. /\ SubSeq(f, j, n) \in Seq(Cell)
      /\ Len(SubSeq(f, j, n)) = IF j <= n THEN n - j + 1 ELSE 0
      /\ \A i \in 1..(n - j + 1) : SubSeq(f, j, n)[i] = f[j + i - 1]
  BY <1>2, SubSeqProperties
<1> DEFINE q == SubSeq(f, j, n)
<1> HIDE DEF q
<1>4. j = k + 1 /\ n - j + 1 = n - k /\ \A i \in 1..(n - k) : j + i - 1 = k + i
  BY DEF j
<1>5. q \in Text /\ (k <= n => Len(q) = n - k) /\ \A i \in 1..(n - k) : q[i] = f[k + i]
  BY <1>3, <1>4 DEF q, Text
<1> QED BY <1>5 DEF q, j

\* What a drain reads, put behind pending cells that are still there, is what the file holds.
LEMMA ChunkMatches ==
  ASSUME NEW f \in Text, NEW at \in Nat, NEW to \in Nat, at <= to, to <= Len(f), NEW held \in Text,
         Len(held) <= at, held = SubSeq(f, at - Len(held) + 1, at)
  PROVE  Matches(f, held \o SubSeq(f, at + 1, to), at - Len(held))
<1> DEFINE chunk == SubSeq(f, at + 1, to)
           b == at - Len(held)
<1>1. Len(held) \in Nat /\ Len(f) \in Nat /\ b \in Nat /\ at <= Len(f)
  BY DEF Text
<1>2. chunk \in Text /\ Len(chunk) = to - at /\ \A i \in 1..(to - at) : chunk[i] = f[at + i]
  BY <1>1, SubSeqText
<1>3. \A i \in 1..(at - b) : SubSeq(f, b + 1, at)[i] = f[b + i]
  BY <1>1, SubSeqText
<1>4. \A i \in 1..Len(held) : held[i] = f[b + i]
  <2>1. held = SubSeq(f, b + 1, at) /\ at - b = Len(held)
    BY <1>1
  <2> QED BY <2>1, <1>3
<1> HIDE DEF chunk
<1>5. /\ Len(held \o chunk) = Len(held) + Len(chunk)
      /\ \A i \in 1..(Len(held) + Len(chunk)) :
           (held \o chunk)[i] = IF i <= Len(held) THEN held[i] ELSE chunk[i - Len(held)]
  BY <1>2, ConcatProperties DEF Text
<1> SUFFICES ASSUME NEW i \in 1..Len(held \o chunk)
             PROVE b + i <= Len(f) /\ f[b + i] = (held \o chunk)[i]
  BY DEF Matches, chunk
<1>6. CASE i <= Len(held)
  BY <1>1, <1>4, <1>5, <1>6
<1>7. CASE i > Len(held)
  <2>1. i - Len(held) \in 1..(to - at) /\ at + (i - Len(held)) = b + i
    BY <1>1, <1>2, <1>5, <1>7
  <2> QED BY <2>1, <1>1, <1>2, <1>5, <1>7
<1> QED BY <1>1, <1>2, <1>5, <1>6, <1>7

\* From which frame on a stream is clean: from the first, unless it is misread; from its last
\* reset, unless the tail was overtaken since.
CleanAt(V, lost, s, m) ==
  \/ m = 1 /\ s \notin misread \cup lost
  \/ m \in ResetsIn(V, s) /\ s \notin lost /\ \A k \in ResetsIn(V, s) : k <= m
Track(d, s) == \A m \in Nat \ {0} : CleanAt(wire \o d.out, d.lost, s, m) => Fine(d, s, m)

\* A drain of one stream keeps its track, whatever the engine did to the file in between.
LEMMA DrainOneFacts ==
  ASSUME Tailed, NEW d \in Work, NEW s \in Streams, d.cur[s] = cursor[s], Free(d.batch, s),
         s \in d.lost => s \in misread, Track(d, s)
  PROVE  LET e == DrainOne(d, s) IN
         e \in Work /\ Other(d, e, s) /\ Tail1(e.cur[s], e.read[s], e.pend[s]) /\ Track(e, s)
<1> DEFINE f == file[s]
           at == IF Shrunk(s) THEN 0 ELSE read[s]
           held == IF Shrunk(s) THEN << >> ELSE pend[s]
           to == IF Size(s) - at < MaxRead THEN Size(s) ELSE at + MaxRead
           chunk == SubSeq(f, at + 1, to)
           e == DrainOne(d, s)
           c == held \o chunk
           b == at - Len(held)
<1>1. f \in Text /\ Len(f) \in Nat /\ read[s] \in Nat /\ cursor[s] \in Nat /\ pend[s] \in Text /\ Len(pend[s]) \in Nat
        /\ read[s] = cursor[s] + Len(pend[s])
  BY DEF Tailed, Wired, Text, Offsets, Tail1
<1>2. at \in Nat /\ held \in Text /\ Len(held) <= at /\ at <= Len(f)
        /\ (IF Shrunk(s) THEN at - Len(held) = 0 ELSE d.cur[s] = at - Len(held))
  <2>1. CASE Shrunk(s)
    <3> << >> \in Text /\ Len(<< >>) = 0
      BY DEF Text
    <3> QED BY <1>1, <2>1
  <2>2. CASE ~Shrunk(s)
    <3>1. read[s] <= Len(f)
      BY <1>1, <2>2 DEF Shrunk, Size
    <3> QED BY <3>1, <1>1, <2>2
  <2> QED BY <2>1, <2>2
<1>3. to \in Nat /\ at <= to /\ to <= Len(f)
  BY <1>1, <1>2, StreamAssumption DEF Size
<1>4. e = Drained(d, s, at, held, chunk)
  BY DEF DrainOne
<1> HIDE DEF at, held, to
<1>5. chunk \in Text
  BY <1>1, <1>2, <1>3, SubSeqText
<1>6. Wired
  BY DEF Tailed
<1>7. held = SubSeq(f, at - Len(held) + 1, at) => Matches(f, c, b)
  BY <1>1, <1>2, <1>3, ChunkMatches
<1> HIDE DEF chunk, f, e
<1>8. /\ e \in Work /\ Other(d, e, s) /\ Tail1(e.cur[s], e.read[s], e.pend[s])
      /\ e.lost = (IF Shrunk(s) THEN d.lost \ {s} ELSE d.lost) \cup
                       {t \in {s} : held # SubSeq(file[s], at - Len(held) + 1, at)}
      /\ ~Shrunk(s) => ResetsIn(wire \o e.out, s) = ResetsIn(wire \o d.out, s)
      /\ Shrunk(s) /\ Matches(file[s], c, b) =>
              \E n \in Nat : /\ n > Len(wire \o d.out)
                             /\ ResetsIn(wire \o e.out, s) = ResetsIn(wire \o d.out, s) \cup {n}
                             /\ Fine(e, s, n)
      /\ Matches(file[s], c, b) => \A m \in Nat \ {0} : Fine(d, s, m) => Fine(e, s, m)
  <2> DEFINE g == Drained(d, s, at, held, chunk)
  <2>1. /\ g \in Work /\ Other(d, g, s) /\ Tail1(g.cur[s], g.read[s], g.pend[s])
        /\ g.lost = (IF Shrunk(s) THEN d.lost \ {s} ELSE d.lost) \cup
                       {t \in {s} : held # SubSeq(file[s], at - Len(held) + 1, at)}
        /\ ~Shrunk(s) => ResetsIn(wire \o g.out, s) = ResetsIn(wire \o d.out, s)
        /\ Shrunk(s) /\ Matches(file[s], held \o chunk, at - Len(held)) =>
              \E n \in Nat : /\ n > Len(wire \o d.out)
                             /\ ResetsIn(wire \o g.out, s) = ResetsIn(wire \o d.out, s) \cup {n}
                             /\ Fine(g, s, n)
        /\ Matches(file[s], held \o chunk, at - Len(held)) =>
              \A m \in Nat \ {0} : Fine(d, s, m) => Fine(g, s, m)
    BY <1>2, <1>5, <1>6, DrainedFacts
  <2>2. e = g
    BY <1>4
  <2> HIDE DEF g
  <2> QED BY <2>1, <2>2
<1> HIDE DEF c, b
<1>9. Track(e, s)
  <2> SUFFICES ASSUME NEW m \in Nat \ {0}, CleanAt(wire \o e.out, e.lost, s, m) PROVE Fine(e, s, m)
    BY DEF Track
  <2>1. s \notin e.lost
    BY DEF CleanAt
  <2>2. Matches(file[s], c, b)
    BY <1>7, <1>8, <2>1 DEF f
  <2>3. CASE ~Shrunk(s)
    <3>1. s \notin d.lost
      BY <1>8, <2>1, <2>3
    <3>2. CleanAt(wire \o d.out, d.lost, s, m)
      BY <3>1, <1>8, <2>3, Zenon DEF CleanAt
    <3> QED BY <3>2, <1>8, <2>2 DEF Track
  <2>4. CASE Shrunk(s)
    <3>1. PICK n \in Nat : /\ n > Len(wire \o d.out)
                           /\ ResetsIn(wire \o e.out, s) = ResetsIn(wire \o d.out, s) \cup {n}
                           /\ Fine(e, s, n)
      BY <1>8, <2>2, <2>4
    <3>2. CASE m = 1 /\ s \notin misread
      <4>1. CleanAt(wire \o d.out, d.lost, s, m)
        BY <3>2 DEF CleanAt
      <4> QED BY <4>1, <1>8, <2>2 DEF Track
    <3>3. CASE m \in ResetsIn(wire \o e.out, s) /\ \A k \in ResetsIn(wire \o e.out, s) : k <= m
      <4>1. n <= m
        BY <3>1, <3>3
      <4>2. m \notin ResetsIn(wire \o d.out, s)
        <5>1. wire \o d.out \in Seq(FrameSet)
          BY <1>6 DEF Work, Wired
        <5>2. Len(wire \o d.out) \in Nat
          BY <5>1
        <5> QED BY <3>1, <4>1, <5>2 DEF ResetsIn
      <4> QED BY <3>1, <3>3, <4>2
    <3> QED BY <3>2, <3>3 DEF CleanAt
  <2> QED BY <2>3, <2>4
<1> QED BY <1>8, <1>9 DEF e

\* A stream that is left alone keeps its track.
LEMMA TrackOther ==
  ASSUME NEW d, NEW e, NEW s, NEW t \in Streams \ {s}, Other(d, e, s), Track(d, t)
  PROVE  Track(e, t)
<1> SUFFICES ASSUME NEW m \in Nat \ {0}, CleanAt(wire \o e.out, e.lost, t, m) PROVE Fine(e, t, m)
  BY DEF Track
<1>1. CleanAt(wire \o d.out, d.lost, t, m)
  BY DEF Other, CleanAt
<1>2. Fine(d, t, m)
  BY <1>1 DEF Track
<1> QED BY <1>2 DEF Other

\* What a drain keeps of both streams.
Sound(d) ==
  /\ d \in Work
  /\ \A s \in Streams : Tail1(d.cur[s], d.read[s], d.pend[s]) /\ Track(d, s)

\* So it does for both streams.
LEMMA GoodStep ==
  ASSUME Tailed, NEW d, Sound(d), NEW s \in Streams, d.cur[s] = cursor[s], Free(d.batch, s),
         s \in d.lost => s \in misread
  PROVE  Sound(DrainOne(d, s)) /\ Other(d, DrainOne(d, s), s)
<1> DEFINE e == DrainOne(d, s)
<1>1. e \in Work /\ Other(d, e, s) /\ Tail1(e.cur[s], e.read[s], e.pend[s]) /\ Track(e, s)
  BY DrainOneFacts DEF Sound
<1> HIDE DEF e
<1>2. \A t \in Streams \ {s} : Tail1(e.cur[t], e.read[t], e.pend[t]) /\ Track(e, t)
  BY <1>1, TrackOther DEF Sound, Other
<1>3. Sound(e)
  BY <1>1, <1>2 DEF Sound
<1> QED BY <1>1, <1>3 DEF e

\* And the flush at the end of the drain.
LEMMA GoodFlush ==
  ASSUME wire \in Seq(FrameSet), NEW d, Sound(d)
  PROVE  Sound(Flushed(d)) /\ Flushed(d).batch = << >>
<1> DEFINE e == Flushed(d)
<1>1. d \in Work
  BY DEF Sound
<1>2. \A s \in Streams :
        /\ e \in Work /\ e.batch = << >> /\ e.cur = d.cur /\ e.read = d.read /\ e.pend = d.pend /\ e.lost = d.lost
        /\ ResetsIn(wire \o e.out, s) = ResetsIn(wire \o d.out, s)
        /\ \A m \in Nat \ {0} : Fine(d, s, m) => Fine(e, s, m)
  BY <1>1, FlushedFacts, FlushedFine
<1>3. "e" \in Streams
  BY DEF Streams
<1> HIDE DEF e
<1>4. \A s \in Streams : Track(e, s)
  BY <1>2 DEF Sound, Track, CleanAt
<1>5. Sound(e) /\ e.batch = << >>
  BY <1>2, <1>3, <1>4 DEF Sound
<1> QED BY <1>5 DEF e

\* What of the page a batch changes.
PageSet == [first : SUBSET Streams, reset : SUBSET Streams, seen : Offsets, view : [Streams -> Seq(Rec)]]

\* The page stands where the frames start; or the frames start over behind it, and have shown
\* nothing yet.
Level(f, a, n, s, fr, rs) ==
  \/ a = n
  \/ s \notin fr /\ s \notin rs /\ LineEnd(f, a) /\ a < n /\ RecordsTo(f)[a] = << >>

\* What a page does with one record.
LEMMA TakeRecordFacts ==
  ASSUME NEW p \in PageSet, NEW x \in Item
  PROVE  LET e == TakeRecord(p, x)
             behind == x.o <= p.seen[x.s]
             replay == x.s \notin p.first /\ x.s \notin p.reset /\ behind IN
         /\ e \in PageSet
         /\ \A t \in Streams \ {x.s} : /\ e.seen[t] = p.seen[t] /\ e.view[t] = p.view[t]
                                       /\ t \in e.first <=> t \in p.first
                                       /\ t \in e.reset <=> t \in p.reset
         /\ ~(x.s \in p.first /\ behind) =>
              /\ x.s \in e.first /\ e.seen[x.s] = x.o
              /\ e.view[x.s] = IF replay THEN <<x.r>> ELSE Append(p.view[x.s], x.r)
<1> DEFINE e == TakeRecord(p, x)
           behind == x.o <= p.seen[x.s]
           replay == x.s \notin p.first /\ x.s \notin p.reset /\ behind
           v == IF replay THEN <<x.r>> ELSE Append(p.view[x.s], x.r)
<1>1. x.s \in Streams /\ x.o \in Nat /\ x.r \in Rec
  BY DEF Item
<1>2. p.first \in SUBSET Streams /\ p.reset \in SUBSET Streams /\ p.seen \in Offsets /\ p.view \in [Streams -> Seq(Rec)]
  BY DEF PageSet
<1>3. p.view[x.s] \in Seq(Rec)
  BY <1>1, <1>2
<1>4. v \in Seq(Rec)
  BY <1>1, <1>3
<1>5. CASE x.s \in p.first /\ behind
  <2> e = p
    BY <1>5 DEF TakeRecord
  <2> QED BY <1>5
<1>6. CASE ~(x.s \in p.first /\ behind)
  <2> DEFINE rs == IF replay THEN p.reset \cup {x.s} ELSE p.reset
  <2>1. e = [p EXCEPT !.first = p.first \cup {x.s}, !.reset = rs, !.seen = [p.seen EXCEPT ![x.s] = x.o],
                      !.view = [p.view EXCEPT ![x.s] = v]]
    BY <1>6 DEF TakeRecord, PageSet
  <2>2. rs \in SUBSET Streams /\ \A t \in Streams \ {x.s} : t \in rs <=> t \in p.reset
    BY <1>1, <1>2
  <2> HIDE DEF rs, v, e
  <2>3. [p.seen EXCEPT ![x.s] = x.o] \in Offsets /\ [p.view EXCEPT ![x.s] = v] \in [Streams -> Seq(Rec)]
    BY <1>1, <1>2, <1>4 DEF Offsets
  <2>4. e \in PageSet /\ e.first = p.first \cup {x.s} /\ e.reset = rs /\ e.seen = [p.seen EXCEPT ![x.s] = x.o]
           /\ e.view = [p.view EXCEPT ![x.s] = v]
    BY <1>1, <1>2, <2>1, <2>2, <2>3 DEF PageSet
  <2>5. \A t \in Streams \ {x.s} : e.seen[t] = p.seen[t] /\ e.view[t] = p.view[t]
    BY <1>2, <2>4 DEF Offsets
  <2>6. e.seen[x.s] = x.o /\ e.view[x.s] = v
    BY <1>1, <1>2, <2>4 DEF Offsets
  <2> QED BY <2>2, <2>4, <2>5, <2>6 DEF e, v
<1> QED BY <1>5, <1>6

\* Between two records of a batch, before the first and behind the last, the file shows nothing.
LEMMA CoversGap ==
  ASSUME NEW f, NEW s, NEW B \in Seq(Item), NEW a \in Nat, NEW q \in Nat, Covers(f, B, s, a, q),
         NEW k \in 1..Len(B), B[k].s = s
  PROVE  /\ (\A i \in 1..(k - 1) : B[i].s # s) => \A o \in (a + 1)..(B[k].o - 1) : ~Shows(f, o)
         /\ \A l \in 1..(k - 1) : B[l].s = s /\ (\A i \in (l + 1)..(k - 1) : B[i].s # s) =>
              B[l].o < B[k].o /\ \A o \in (B[l].o + 1)..(B[k].o - 1) : ~Shows(f, o)
         /\ (\A i \in (k + 1)..Len(B) : B[i].s # s) => \A o \in (B[k].o + 1)..q : ~Shows(f, o)
<1>1. \A i \in 1..Len(B) : B[i].o \in Nat
  BY ItemTyped
<1>2. Len(B) \in Nat
  OBVIOUS
<1>3. a < B[k].o /\ B[k].o <= q
  BY DEF Covers
<1>4. \A o \in (a + 1)..q : Shows(f, o) => \E i \in 1..Len(B) : B[i].s = s /\ B[i].o = o
  BY DEF Covers
<1>5. \A i, j \in 1..Len(B) : i < j /\ B[i].s = s /\ B[j].s = s => B[i].o < B[j].o
  BY DEF Covers
<1>6. ASSUME \A i \in 1..(k - 1) : B[i].s # s, NEW o \in (a + 1)..(B[k].o - 1), Shows(f, o) PROVE FALSE
  <2>1. PICK i \in 1..Len(B) : B[i].s = s /\ B[i].o = o
    BY <1>1, <1>3, <1>4, <1>6
  <2>2. i = k \/ i > k
    BY <1>2, <1>6, <2>1
  <2>3. i > k => B[k].o < B[i].o
    BY <1>5, <2>1
  <2> QED BY <1>1, <1>6, <2>1, <2>2, <2>3
<1>7. ASSUME NEW l \in 1..(k - 1), B[l].s = s, \A i \in (l + 1)..(k - 1) : B[i].s # s
      PROVE  B[l].o < B[k].o /\ \A o \in (B[l].o + 1)..(B[k].o - 1) : ~Shows(f, o)
  <2>1. l \in 1..Len(B) /\ l < k
    BY <1>2
  <2>2. B[l].o < B[k].o /\ a < B[l].o
    BY <1>5, <1>7, <2>1 DEF Covers
  <2>3. ASSUME NEW o \in (B[l].o + 1)..(B[k].o - 1), Shows(f, o) PROVE FALSE
    <3>1. PICK i \in 1..Len(B) : B[i].s = s /\ B[i].o = o
      <4> B[l].o \in Nat /\ B[k].o \in Nat
        BY <1>1, <2>1
      <4> o \in (a + 1)..q
        BY <1>3, <2>2, <2>3
      <4> QED BY <1>4, <2>3
    <3>2. i < l \/ i = l \/ i = k \/ i > k
      BY <1>2, <1>7, <2>1, <3>1
    <3>3. (i > k => B[k].o < B[i].o) /\ (i < l => B[i].o < B[l].o)
      BY <1>5, <1>7, <2>1, <3>1
    <3>4. B[l].o \in Nat /\ B[k].o \in Nat
      BY <1>1, <2>1
    <3> QED BY <2>3, <3>1, <3>2, <3>3, <3>4
  <2> QED BY <2>2, <2>3
<1>8. ASSUME \A i \in (k + 1)..Len(B) : B[i].s # s, NEW o \in (B[k].o + 1)..q, Shows(f, o) PROVE FALSE
  <2>1. PICK i \in 1..Len(B) : B[i].s = s /\ B[i].o = o
    BY <1>1, <1>3, <1>4, <1>8
  <2>2. i = k \/ i < k
    BY <1>2, <1>8, <2>1
  <2>3. i < k => B[i].o < B[k].o
    BY <1>5, <2>1
  <2> QED BY <1>1, <1>8, <2>1, <2>2, <2>3
<1> QED BY <1>6, <1>7, <1>8

\* A page that takes a batch shows what the file shows up to where the batch ends.
LEMMA TakeFacts ==
  ASSUME NEW f \in Text, NEW s \in Streams, NEW B \in Seq(Item), NEW pg \in PageSet,
         NEW a \in Nat, NEW q \in Nat, a <= q, LineEnd(f, q), LineEnd(f, pg.seen[s]),
         pg.view[s] = RecordsTo(f)[pg.seen[s]], Level(f, a, pg.seen[s], s, pg.first, pg.reset),
         Covers(f, B, s, a, q)
  PROVE  LET e == TakeRecords(pg, B)
             n == IF q > e.seen[s] THEN q ELSE e.seen[s] IN
         /\ LineEnd(f, n) /\ e.view[s] = RecordsTo(f)[n] /\ Level(f, q, n, s, e.first, e.reset)
<1> DEFINE u == Taken(pg, B)
           R == RecordsTo(f)
           Same(e) == /\ e.seen[s] = pg.seen[s] /\ e.view[s] = pg.view[s]
                      /\ s \in e.first <=> s \in pg.first
                      /\ s \in e.reset <=> s \in pg.reset
           Before(e, k) == (\A i \in 1..k : B[i].s # s) /\ Same(e)
           After(e, k, l) == /\ B[l].s = s /\ \A i \in (l + 1)..k : B[i].s # s
                             /\ e.seen[s] = B[l].o /\ e.view[s] = R[B[l].o] /\ s \in e.first
           Inv(e, k) == e \in PageSet /\ (Before(e, k) \/ \E l \in 1..k : After(e, k, l))
           S == {k \in Nat : k <= Len(B) => Inv(u[k], k)}
<1>1. Len(B) \in Nat /\ Len(f) \in Nat
  BY DEF Text
<1>2. u[0] = pg /\ \A k \in 1..Len(B) : u[k] = TakeRecord(u[k - 1], B[k])
  BY <1>1, TakenDef
<1>3. q \in 0..Len(f) /\ pg.seen[s] \in 0..Len(f) /\ a \in 0..Len(f)
  BY <1>1 DEF LineEnd
<1>4. \A i \in 1..Len(B) : B[i] \in Item /\ B[i].o \in Nat /\ B[i].s \in Streams /\ B[i].r \in Rec
  BY ItemTyped
<1>5. \A i \in 1..Len(B) : B[i].s = s => a < B[i].o /\ B[i].o <= q /\ Shows(f, B[i].o) /\ B[i].r = f[B[i].o][1]
  BY DEF Covers
<1>6. R[0] = << >>
  BY RecordsZero
<1> HIDE DEF u, R
\* A gap of the file.
<1>7. \A x, y \in 0..Len(f) : x <= y /\ (\A o \in (x + 1)..y : ~Shows(f, o)) => R[x] = R[y]
  <2> TAKE x, y \in 0..Len(f)
  <2> SUFFICES ASSUME x <= y, \A o \in (x + 1)..y : ~Shows(f, o) PROVE R[x] = R[y]
    OBVIOUS
  <2> y \in x..Len(f)
    BY <1>1
  <2> QED BY RecordsGap DEF R
<1>8. 0 \in S
  BY <1>2
<1>9. ASSUME NEW j \in Nat, j \in S PROVE j + 1 \in S
  <2> DEFINE k == j + 1
             p == u[j]
             e == u[k]
             x == B[k]
  <2> SUFFICES ASSUME k <= Len(B) PROVE Inv(e, k)
    OBVIOUS
  <2>1. Inv(p, j) /\ k \in 1..Len(B) /\ k - 1 = j /\ j <= k
    BY <1>1, <1>9
  <2>2. e = TakeRecord(p, x) /\ x \in Item /\ p \in PageSet
    BY <1>2, <1>4, <2>1
  <2> HIDE DEF e, p
  <2>3. /\ e \in PageSet
        /\ \A t \in Streams \ {x.s} : /\ e.seen[t] = p.seen[t] /\ e.view[t] = p.view[t]
                                      /\ t \in e.first <=> t \in p.first
                                      /\ t \in e.reset <=> t \in p.reset
        /\ ~(x.s \in p.first /\ x.o <= p.seen[x.s]) =>
             /\ x.s \in e.first /\ e.seen[x.s] = x.o
             /\ e.view[x.s] = IF x.s \notin p.first /\ x.s \notin p.reset /\ x.o <= p.seen[x.s]
                              THEN <<x.r>> ELSE Append(p.view[x.s], x.r)
    BY <2>2, TakeRecordFacts
  <2>4. CASE x.s # s
    <3>1. /\ e.seen[s] = p.seen[s] /\ e.view[s] = p.view[s]
          /\ s \in e.first <=> s \in p.first
          /\ s \in e.reset <=> s \in p.reset
      BY <2>3, <2>4
    <3>2. CASE Before(p, j)
      <4>1. Before(e, k)
        BY <3>1, <3>2, <2>1, <2>4
      <4> HIDE DEF Before, After
      <4> QED BY <4>1, <2>3
    <3>3. ASSUME NEW l \in 1..j, After(p, j, l) PROVE After(e, k, l)
      BY <3>1, <3>3, <2>1, <2>4
    <3>4. \A l \in 1..j : l \in 1..k
      BY <2>1
    <3> HIDE DEF Before, After
    <3> QED BY <2>1, <2>3, <3>2, <3>3, <3>4
  <2>5. CASE x.s = s
    <3> DEFINE o == B[k].o
    <3>1. o \in Nat /\ a < o /\ o <= q /\ Shows(f, o) /\ x.r = f[o][1] /\ o \in 1..Len(f) /\ o - 1 \in 0..Len(f)
      BY <1>1, <1>3, <1>4, <1>5, <2>1, <2>5
    <3>2. R[o] = Append(R[o - 1], x.r)
      BY <3>1, RecordsStep DEF R
    <3>3. /\ (\A i \in 1..(k - 1) : B[i].s # s) => \A z \in (a + 1)..(o - 1) : ~Shows(f, z)
          /\ \A l \in 1..(k - 1) : B[l].s = s /\ (\A i \in (l + 1)..(k - 1) : B[i].s # s) =>
               B[l].o < o /\ \A z \in (B[l].o + 1)..(o - 1) : ~Shows(f, z)
      <4>1. k \in 1..Len(B) /\ B[k].s = s
        BY <2>1, <2>5
      <4> HIDE DEF k
      <4>2. Covers(f, B, s, a, q) /\ B \in Seq(Item) /\ a \in Nat /\ q \in Nat
        OBVIOUS
      <4> HIDE DEF Inv, S
      <4> QED BY <4>1, <4>2, CoversGap
    <3> HIDE DEF o
    <3>4. x.o = o
      BY DEF o
    <3> HIDE DEF x, k
    <3>5. CASE Before(p, j)
      <4>1. \A z \in (a + 1)..(o - 1) : ~Shows(f, z)
        BY <2>1, <3>3, <3>5
      <4>2. R[a] = R[o - 1]
        <5>1. a \in 0..Len(f) /\ o - 1 \in 0..Len(f) /\ a <= o - 1
          BY <1>3, <3>1
        <5> QED BY <1>7, <4>1, <5>1
      <4>3. p.seen[s] = pg.seen[s] /\ p.view[s] = R[pg.seen[s]] /\ (s \in p.first <=> s \in pg.first)
              /\ (s \in p.reset <=> s \in pg.reset)
        BY <3>5 DEF R
      <4>4. ASSUME a = pg.seen[s] PROVE s \in e.first /\ e.seen[s] = o /\ e.view[s] = R[o]
        <5>1. ~(x.o <= p.seen[x.s])
          BY <2>5, <3>1, <3>4, <4>3, <4>4, <1>3
        <5>2. s \in e.first /\ e.seen[s] = o /\ e.view[s] = Append(p.view[s], x.r)
          BY <2>3, <2>5, <3>4, <5>1
        <5> QED BY <5>2, <3>2, <4>2, <4>3, <4>4
      <4>5. ASSUME s \notin pg.first, s \notin pg.reset, a < pg.seen[s], R[a] = << >>
            PROVE  s \in e.first /\ e.seen[s] = o /\ e.view[s] = R[o]
        <5>1. s \in e.first /\ e.seen[s] = o
                /\ e.view[s] = IF o <= p.seen[s] THEN <<x.r>> ELSE Append(p.view[s], x.r)
          BY <2>3, <2>5, <3>4, <4>3, <4>5
        <5>2. R[o] = <<x.r>>
          BY <3>2, <4>2, <4>5
        <5>3. CASE o <= p.seen[s]
          BY <5>1, <5>2, <5>3
        <5>4. CASE ~(o <= p.seen[s])
          <6>1. pg.seen[s] \in (a + 1)..(o - 1)
            BY <1>3, <3>1, <4>3, <4>5, <5>4
          <6>2. R[a] = R[pg.seen[s]]
            <7>1. \A z \in (a + 1)..(pg.seen[s]) : ~Shows(f, z)
              BY <4>1, <6>1, <1>3, <3>1
            <7>2. a <= pg.seen[s]
              BY <6>1, <1>3
            <7> QED BY <7>1, <7>2, <1>3, <1>7
          <6> QED BY <5>1, <5>2, <5>4, <6>2, <4>3, <4>5
        <5> QED BY <5>3, <5>4
      <4>6. s \in e.first /\ e.seen[s] = o /\ e.view[s] = R[o]
        <5>1. a = pg.seen[s] \/ (s \notin pg.first /\ s \notin pg.reset /\ a < pg.seen[s] /\ R[a] = << >>)
          BY DEF Level, R
        <5> QED BY <5>1, <4>4, <4>5
      <4>7. After(e, k, k)
        BY <4>6, <2>1, <2>5 DEF o, x
      <4> HIDE DEF Before, After
      <4> QED BY <4>7, <2>1, <2>3
    <3>6. ASSUME NEW l \in 1..j, After(p, j, l) PROVE After(e, k, k)
      <4>1. B[l].o < o /\ \A z \in (B[l].o + 1)..(o - 1) : ~Shows(f, z)
        BY <2>1, <3>3, <3>6
      <4>2. B[l].o \in 0..Len(f)
        <5> l \in 1..Len(B)
          BY <2>1, <1>1
        <5> QED BY <1>4, <3>1, <4>1
      <4>3. R[B[l].o] = R[o - 1]
        <5> DEFINE y == B[l].o
        <5> y \in 0..Len(f) /\ o - 1 \in 0..Len(f) /\ y <= o - 1 /\ \A z \in (y + 1)..(o - 1) : ~Shows(f, z)
          BY <3>1, <4>1, <4>2
        <5> HIDE DEF y
        <5> R[y] = R[o - 1]
          BY <1>7
        <5> QED BY DEF y
      <4>4. ~(x.o <= p.seen[x.s])
        BY <2>5, <3>1, <3>4, <3>6, <4>1, <4>2
      <4>5. s \in e.first /\ e.seen[s] = o /\ e.view[s] = Append(p.view[s], x.r)
        BY <2>3, <2>5, <3>4, <4>4
      <4> QED BY <4>3, <4>5, <3>2, <3>6, <2>1, <2>5 DEF o, x
    <3> HIDE DEF Before, After
    <3> QED BY <3>5, <3>6, <2>1, <2>3
  <2> QED BY <2>4, <2>5
<1> HIDE DEF S
<1>10. S \in SUBSET Nat
  BY DEF S
<1>11. \A k \in Nat : k \in S
  BY <1>8, <1>9, <1>10, Climb
<1> DEFINE e == u[Len(B)]
           n == IF q > e.seen[s] THEN q ELSE e.seen[s]
<1>12. Inv(e, Len(B))
  BY <1>1, <1>11 DEF S
<1>13. e = TakeRecords(pg, B)
  BY DEF TakeRecords, u
<1> HIDE DEF e
<1>14. CASE Before(e, Len(B))
  <2>1. \A o \in (a + 1)..q : ~Shows(f, o)
    BY <1>14 DEF Covers
  <2>2. R[a] = R[q]
    BY <1>3, <1>7, <2>1
  <2>3. e.seen[s] = pg.seen[s] /\ e.view[s] = R[pg.seen[s]] /\ (s \in e.first <=> s \in pg.first)
          /\ (s \in e.reset <=> s \in pg.reset)
    BY <1>14 DEF R
  <2>4. ASSUME a = pg.seen[s] PROVE LineEnd(f, n) /\ e.view[s] = R[n] /\ Level(f, q, n, s, e.first, e.reset)
    BY <1>3, <2>2, <2>3, <2>4 DEF Level, R
  <2>5. ASSUME s \notin pg.first, s \notin pg.reset, a < pg.seen[s], R[a] = << >>
        PROVE  LineEnd(f, n) /\ e.view[s] = R[n] /\ Level(f, q, n, s, e.first, e.reset)
    <3>1. CASE q < pg.seen[s]
      BY <1>3, <2>2, <2>3, <2>5, <3>1 DEF Level, R
    <3>2. CASE ~(q < pg.seen[s])
      <4>1. n = q
        BY <1>3, <2>3, <3>2
      <4>2. R[a] = R[pg.seen[s]]
        BY <1>3, <1>7, <2>1, <2>5, <3>2
      <4> QED BY <4>1, <4>2, <2>2, <2>3, <2>5 DEF Level, R
    <3> QED BY <3>1, <3>2
  <2>6. a = pg.seen[s] \/ (s \notin pg.first /\ s \notin pg.reset /\ a < pg.seen[s] /\ R[a] = << >>)
    BY DEF Level, R
  <2> QED BY <2>4, <2>5, <2>6, <1>13 DEF R
<1>15. ASSUME NEW l \in 1..Len(B), After(e, Len(B), l)
       PROVE LineEnd(f, n) /\ e.view[s] = R[n] /\ Level(f, q, n, s, e.first, e.reset)
  <2>1. \A o \in (B[l].o + 1)..q : ~Shows(f, o)
    BY <1>15, CoversGap
  <2>2. B[l].o \in 0..Len(f) /\ B[l].o <= q
    BY <1>3, <1>4, <1>5, <1>15
  <2>3. R[B[l].o] = R[q]
    BY <1>3, <1>7, <2>1, <2>2
  <2>4. n = q
    BY <1>3, <1>15, <2>2
  <2> QED BY <1>15, <2>3, <2>4 DEF Level
<1> QED BY <1>12, <1>13, <1>14, <1>15 DEF R

AskSet == [at : {"answered"}, view : [Streams -> Seq(Rec)], off : Offsets,
           state : {"running", "stale", "completed"}]

RunTypes == /\ file \in [Streams -> Text] /\ resumes \in Nat
            /\ engine \in {"starting", "running", "ending", "done", "crashed"}
ServerTypes == /\ up \in {"down", "fresh", "drained", "live"}
               /\ read \in Offsets /\ cursor \in Offsets /\ pend \in [Streams -> Text]
               /\ ended \in BOOLEAN /\ quiet \in BOOLEAN /\ wire \in Seq(FrameSet)
PageTypes == /\ es \in {"none", "open", "retrying", "closed"}
             /\ lastId \in {NoId} \cup Offsets /\ seen \in Offsets
             /\ first \in SUBSET Streams /\ resetHere \in SUBSET Streams
             /\ status \in {"connecting", "endPending", "ended"}
             /\ view \in [Streams -> Seq(Rec)] /\ base \in Int /\ ask \in {NoAsk} \cup AskSet
HistoryTypes == adrift \subseteq misread /\ misread \subseteq Streams
StreamTypes == RunTypes /\ ServerTypes /\ PageTypes /\ HistoryTypes

\* A connection belongs to an open stream; a page without a snapshot, or at its end, has none.
Phases ==
  /\ up # "down" => es = "open"
  /\ wire # << >> => es = "open"
  /\ base = -1 \/ status = "ended" => es = "none"

Tails == \A s \in Streams : Tail1(cursor[s], read[s], pend[s])

\* What is on its way goes on from where the page stands, and the tail from there.
Served(s) ==
  \A m \in Nat \ {0} : CleanAt(wire, adrift, s, m) =>
    /\ Clean(file[s], wire, Origin[s], s, m)
    /\ up # "down" => Reach(file[s], wire, Origin[s], s, << >>, cursor[s])

\* What a page shows is what its cursor covers.
Standing(s) ==
  \/ Level(file[s], Origin[s], seen[s], s, first, resetHere)
  \/ wire # << >> /\ Resets(wire[1], s) /\ Origin[s] = 0
Shown(s) ==
  /\ LineEnd(file[s], seen[s]) /\ view[s] = RecordsTo(file[s])[seen[s]]
  /\ es # "none" => Standing(s)

\* A snapshot is what its offsets cover.
Asked ==
  ask # NoAsk => \A s \in Streams :
    LineEnd(file[s], ask.off[s]) /\ ask.view[s] = RecordsTo(file[s])[ask.off[s]]

FollowInv ==
  /\ StreamTypes /\ Phases /\ Tails /\ Asked
  /\ \A s \in Streams : Served(s) /\ (s \notin misread => Shown(s))

-----------------------------------------------------------------------------
\* A file keeps its complete lines.
Grows(f, g) == LastEnd(f) <= Len(g) /\ \A p \in 1..LastEnd(f) : g[p] = f[p]

\* What a file shows up to a complete line it shows for good.
LEMMA GrowsFacts ==
  ASSUME NEW f \in Text, NEW g \in Text, Grows(f, g), NEW q, LineEnd(f, q)
  PROVE  /\ LineEnd(g, q) /\ q \in Nat /\ RecordsTo(f)[q] = RecordsTo(g)[q]
         /\ \A p \in 1..q : f[p] = g[p] /\ (Shows(f, p) <=> Shows(g, p))
<1>1. LastEnd(f) \in 0..Len(f) /\ Len(f) \in Nat /\ Len(g) \in Nat
  BY LastEndFacts DEF Text
<1>2. q \in 0..Len(f) /\ q <= LastEnd(f)
  BY <1>1, LastEndFacts DEF LineEnd
<1>3. q <= Len(g) /\ \A p \in 1..q : f[p] = g[p]
  BY <1>1, <1>2 DEF Grows
<1>4. LineEnd(g, q)
  BY <1>1, <1>2, <1>3 DEF LineEnd, EndsLine
<1>5. (\A p \in 1..q : Shows(f, p) = Shows(g, p)) /\ RecordsTo(f)[q] = RecordsTo(g)[q]
  BY <1>2, <1>3, RecordsSame
<1> QED BY <1>2, <1>3, <1>4, <1>5

\* What a batch covers it covers for good.
LEMMA GrowsCovers ==
  ASSUME NEW f \in Text, NEW g \in Text, Grows(f, g), NEW q, LineEnd(f, q), NEW B \in Seq(Item),
         NEW s, NEW p \in Nat, Covers(f, B, s, p, q)
  PROVE  Covers(g, B, s, p, q)
<1>1. q \in Nat /\ \A o \in 1..q : f[o] = g[o] /\ (Shows(f, o) <=> Shows(g, o))
  BY GrowsFacts
<1>2. \A i \in 1..Len(B) : B[i].o \in Nat
  BY ItemTyped
<1>3. \A i \in 1..Len(B) : B[i].s = s =>
        p < B[i].o /\ B[i].o <= q /\ Shows(g, B[i].o) /\ B[i].r = g[B[i].o][1]
  <2> TAKE i \in 1..Len(B)
  <2> HAVE B[i].s = s
  <2>1. p < B[i].o /\ B[i].o <= q /\ Shows(f, B[i].o) /\ B[i].r = f[B[i].o][1]
    BY DEF Covers
  <2>2. B[i].o \in 1..q
    BY <1>1, <1>2, <2>1
  <2> QED BY <1>1, <2>1, <2>2
<1>4. \A o \in (p + 1)..q : Shows(g, o) => \E i \in 1..Len(B) : B[i].s = s /\ B[i].o = o
  <2> TAKE o \in (p + 1)..q
  <2> o \in 1..q
    BY <1>1
  <2> QED BY <1>1 DEF Covers
<1> QED BY <1>3, <1>4 DEF Covers

\* Where a frame starts is an offset.
LEMMA FromNat ==
  ASSUME NEW V \in Seq(FrameSet), NEW a \in Nat, NEW s \in Streams, NEW i \in 1..(Len(V) + 1)
  PROVE  From(V, a, s, i) \in Nat
<1>1. CASE i = 1
  BY <1>1 DEF From
<1>2. CASE i # 1
  <2>1. i - 1 \in 1..Len(V)
    BY <1>2
  <2>2. V[i - 1] \in FrameSet
    BY <2>1
  <2> QED BY <1>2, <2>2, FrameTyped DEF From
<1> QED BY <1>1, <1>2

\* A clean wire stays clean while the file grows.
LEMMA GrowsClean ==
  ASSUME NEW f \in Text, NEW g \in Text, Grows(f, g), NEW V \in Seq(FrameSet), NEW a \in Nat, NEW s \in Streams
  PROVE  /\ \A m \in Nat \ {0} : Clean(f, V, a, s, m) => Clean(g, V, a, s, m)
         /\ \A c : Reach(f, V, a, s, << >>, c) => Reach(g, V, a, s, << >>, c)
<1>1. ASSUME NEW m \in Nat \ {0}, Clean(f, V, a, s, m), NEW i \in m..Len(V) PROVE Link(g, V, a, s, i)
  <2>1. Link(f, V, a, s, i)
    BY <1>1 DEF Clean
  <2>2. i \in 1..Len(V) /\ V[i] \in FrameSet
    BY <1>1
  <2>3. From(V, a, s, i) \in Nat /\ Items(V[i]) \in Seq(Item)
    <3>1. i \in 1..(Len(V) + 1)
      BY <2>2
    <3>2. From(V, a, s, i) \in Nat
      BY <3>1, FromNat
    <3>3. Items(V[i]) \in Seq(Item)
      BY <2>2, FrameTyped
    <3> QED BY <3>2, <3>3
  <2>4. LineEnd(f, V[i].id[s]) /\ Covers(f, Items(V[i]), s, From(V, a, s, i), V[i].id[s])
           => LineEnd(g, V[i].id[s]) /\ Covers(g, Items(V[i]), s, From(V, a, s, i), V[i].id[s])
    BY <2>3, GrowsFacts, GrowsCovers
  <2> QED BY <2>1, <2>4, Zenon DEF Link
<1>2. ASSUME NEW c, Reach(f, V, a, s, << >>, c) PROVE Reach(g, V, a, s, << >>, c)
  <2>1. From(V, a, s, Len(V) + 1) \in Nat
    BY FromTyped
  <2>2. << >> \in Seq(Item)
    OBVIOUS
  <2>3. LineEnd(g, c) /\ Covers(g, << >>, s, From(V, a, s, Len(V) + 1), c)
    BY <1>2, <2>1, <2>2, GrowsFacts, GrowsCovers DEF Reach
  <2> QED BY <1>2, <2>3 DEF Reach
<1> QED BY <1>1, <1>2 DEF Clean

\* So a step that only lets the files grow keeps the invariant.
LEMMA FileStep ==
  ASSUME FollowInv, RunTypes', \A s \in Streams : Grows(file[s], file'[s]),
         UNCHANGED <<server, wire, client, history>>
  PROVE  FollowInv'
<1> USE DEF server, client, history
<1>1. StreamTypes' /\ Phases' /\ Tails'
  BY DEF FollowInv, StreamTypes, ServerTypes, PageTypes, HistoryTypes, Phases, Tails
<1>2. file \in [Streams -> Text] /\ file' \in [Streams -> Text]
  BY DEF FollowInv, StreamTypes, RunTypes
<1>3. Asked'
  <2> SUFFICES ASSUME ask # NoAsk, NEW s \in Streams
               PROVE  LineEnd(file'[s], ask.off[s]) /\ ask.view[s] = RecordsTo(file'[s])[ask.off[s]]
    BY DEF Asked
  <2>1. LineEnd(file[s], ask.off[s]) /\ ask.view[s] = RecordsTo(file[s])[ask.off[s]]
    BY DEF FollowInv, Asked
  <2>2. file[s] \in Text /\ file'[s] \in Text
    BY <1>2
  <2> QED BY <2>1, <2>2, GrowsFacts
<1>4. ASSUME NEW s \in Streams PROVE Served(s)'
  <2>1. Origin' = Origin /\ Origin[s] \in Nat /\ wire' = wire /\ cursor' = cursor /\ up' = up /\ wire \in Seq(FrameSet)
    BY StartTyped DEF Origin, FollowInv, StreamTypes, RunTypes, PageTypes, ServerTypes, Wired
  <2>2. \A m : CleanAt(wire, adrift, s, m)' = CleanAt(wire, adrift, s, m)
    BY DEF CleanAt
  <2>3. file[s] \in Text /\ file'[s] \in Text /\ Grows(file[s], file'[s])
    BY <1>2
  <2>4. Served(s)
    BY DEF FollowInv
  <2>5. /\ \A m \in Nat \ {0} : Clean(file[s], wire, Origin[s], s, m) => Clean(file'[s], wire, Origin[s], s, m)
        /\ \A c : Reach(file[s], wire, Origin[s], s, << >>, c) => Reach(file'[s], wire, Origin[s], s, << >>, c)
    BY <2>1, <2>3, GrowsClean
  <2> QED BY <2>1, <2>2, <2>4, <2>5, Zenon DEF Served
<1>5. ASSUME NEW s \in Streams \ misread PROVE Shown(s)'
  <2>1. Origin' = Origin
    BY DEF Origin
  <2>2. Shown(s)
    BY DEF FollowInv
  <2>3. file[s] \in Text /\ file'[s] \in Text /\ Grows(file[s], file'[s])
    BY <1>2
  <2>4. \A q : LineEnd(file[s], q) => LineEnd(file'[s], q) /\ RecordsTo(file'[s])[q] = RecordsTo(file[s])[q]
    BY <2>3, GrowsFacts
  <2>5. Standing(s) => Standing(s)'
    BY <2>1, <2>4 DEF Standing, Level
  <2> QED BY <2>1, <2>2, <2>4, <2>5 DEF Shown
<1> QED BY <1>1, <1>3, <1>4, <1>5 DEF FollowInv

\* The cells of a line.
LEMMA LineTyped ==
  /\ \A r \in Rec : Line(r) \in Text /\ Len(Line(r)) = 2 /\ Line(r)[1] = <<r, "body">> /\ Line(r)[2] = <<r, "newline">>
                    /\ Body(r) \in Cell /\ Close(r) \in Cell
<1> SUFFICES ASSUME NEW r \in Rec
             PROVE Line(r) \in Text /\ Len(Line(r)) = 2 /\ Line(r)[1] = <<r, "body">> /\ Line(r)[2] = <<r, "newline">>
                    /\ Body(r) \in Cell /\ Close(r) \in Cell
  OBVIOUS
<1>1. Body(r) \in Cell /\ Close(r) \in Cell
  BY DEF Body, Close, Cell
<1> QED BY <1>1 DEF Line, Text, Body, Close

\* The invariant holds at first.
LEMMA InitFollow ==
  Init => FollowInv
<1> SUFFICES ASSUME Init PROVE FollowInv
  OBVIOUS
<1> DEFINE r0 == [kind |-> "private", n |-> 1, by |-> 0]
<1>1. r0 \in Rec /\ Line(r0) \in Text /\ << >> \in Text
  <2> r0 \in Rec
    BY DEF Rec
  <2> QED BY LineTyped DEF Text
<1>2. file \in [Streams -> Text] /\ \A s \in Streams : file[s] \in Text
  <2> file = [s \in Streams |-> IF s = "j" THEN Line(r0) ELSE << >>]
    BY DEF Init
  <2> QED BY <1>1
<1>3. StreamTypes
  <2>1. RunTypes
    BY <1>2 DEF Init, RunTypes
  <2>2. ServerTypes
    <3>1. up = "down" /\ ended \in BOOLEAN /\ quiet \in BOOLEAN /\ wire = << >>
      BY DEF Init
    <3>2. read \in Offsets /\ cursor \in Offsets /\ pend \in [Streams -> Text]
      BY <1>1 DEF Init, Offsets
    <3>3. << >> \in Seq(FrameSet)
      OBVIOUS
    <3> QED BY <3>1, <3>2, <3>3 DEF ServerTypes
  <2>3. PageTypes
    BY DEF Init, PageTypes, Offsets, NoId
  <2>4. HistoryTypes
    BY DEF Init, HistoryTypes
  <2> QED BY <2>1, <2>2, <2>3, <2>4 DEF StreamTypes
<1>4. Phases /\ Asked /\ Tails
  BY DEF Init, Phases, Asked, Tails, Tail1
<1>5. ASSUME NEW s \in Streams PROVE Served(s)
  <2> SUFFICES ASSUME NEW m \in Nat \ {0} PROVE Clean(file[s], wire, Origin[s], s, m) /\ up = "down"
    BY DEF Served
  <2> QED BY DEF Init, Clean
<1>6. ASSUME NEW s \in Streams PROVE Shown(s)
  <2>1. seen[s] = 0 /\ view[s] = << >> /\ es = "none"
    BY DEF Init
  <2>2. RecordsTo(file[s])[0] = << >>
    BY <1>2, RecordsZero
  <2> QED BY <2>1, <2>2 DEF Shown, LineEnd
<1> QED BY <1>3, <1>4, <1>5, <1>6 DEF FollowInv

-----------------------------------------------------------------------------
\* Records can be counted.
LEMMA CountNat ==
  ASSUME RunTypes, NEW s \in Streams
  PROVE  Count(s) \in Nat
<1>1. IsFiniteSet(1..Size(s))
  <2> Size(s) \in Nat
    BY DEF RunTypes, Size, Text
  <2> QED BY FS_Interval
<1> DEFINE T == {file[s][p][1].n : p \in 1..Size(s)}
           g == [p \in 1..Size(s) |-> file[s][p][1].n]
<1>2. g \in Surjection(1..Size(s), T)
  BY DEF Surjection
<1> HIDE DEF g, T
<1>3. IsFiniteSet(T)
  BY <1>1, <1>2, FS_Surjection
<1> QED BY <1>3, FS_CardinalityType DEF Count, T

\* The next record of an engine.
LEMMA NewRecordTyped ==
  ASSUME RunTypes, NEW s \in Streams, NEW k \in {"open", "work", "end", "fact"}
  PROVE  NewRecord(s, k) \in Rec
BY CountNat DEF NewRecord, Rec, RunTypes

\* Cells put behind a file, and a cut that keeps its complete lines.
LEMMA GrowsAppend ==
  ASSUME NEW f \in Text, NEW g \in Text
  PROVE  Grows(f, f \o g) /\ f \o g \in Text
<1>1. LastEnd(f) \in 0..Len(f)
  BY LastEndFacts
<1>2. f \o g \in Text /\ Len(f \o g) = Len(f) + Len(g) /\ \A i \in 1..Len(f) : (f \o g)[i] = f[i]
  BY DEF Text
<1>3. Len(f) \in Nat /\ Len(g) \in Nat
  BY DEF Text
<1> QED BY <1>1, <1>2, <1>3 DEF Grows

\* A file that does not change has grown by nothing.
LEMMA GrowsSelf ==
  ASSUME NEW f \in Text
  PROVE  Grows(f, f)
<1> LastEnd(f) \in 0..Len(f) /\ Len(f) \in Nat
  BY LastEndFacts DEF Text
<1> QED BY DEF Grows

\* A file cut to its last complete line keeps its lines.
LEMMA GrowsCut ==
  ASSUME NEW f \in Text
  PROVE  Grows(f, SubSeq(f, 1, LastEnd(f))) /\ SubSeq(f, 1, LastEnd(f)) \in Text
<1> DEFINE q == LastEnd(f)
<1>1. q \in 0..Len(f) /\ Len(f) \in Nat
  BY LastEndFacts DEF Text
<1> HIDE DEF q
<1>2. SubSeq(f, 1, q) \in Text /\ Len(SubSeq(f, 1, q)) = q /\ \A i \in 1..q : SubSeq(f, 1, q)[i] = f[i]
  BY <1>1 DEF Text
<1> QED BY <1>1, <1>2 DEF Grows, q

\* Appending a cell.
LEMMA OneCell ==
  ASSUME NEW f \in Text, NEW x \in Cell
  PROVE  Append(f, x) = f \o <<x>> /\ <<x>> \in Text
BY DEF Text

\* What an engine's step does to the files.
LEMMA EngineGrows ==
  ASSUME RunTypes, NEW s \in Streams, NEW g \in Text, Grows(file[s], g),
         file' = [file EXCEPT ![s] = g]
  PROVE  file' \in [Streams -> Text] /\ \A t \in Streams : Grows(file[t], file'[t])
<1> file \in [Streams -> Text]
  BY DEF RunTypes
<1>1. file' \in [Streams -> Text] /\ \A t \in Streams : file[t] \in Text /\ file'[t] = IF t = s THEN g ELSE file[t]
  OBVIOUS
<1> QED BY <1>1, GrowsSelf

\* A step that leaves the files alone.
LEMMA StillGrows ==
  ASSUME RunTypes, UNCHANGED file
  PROVE  file' \in [Streams -> Text] /\ \A t \in Streams : Grows(file[t], file'[t])
<1>1. \A t \in Streams : file[t] \in Text
  BY DEF RunTypes
<1> QED BY <1>1, GrowsSelf DEF RunTypes

\* A step that appends a record.
LEMMA AppendGrows ==
  ASSUME RunTypes, NEW s \in Streams, NEW k \in {"open", "work", "end", "fact"}, Append1(s, k)
  PROVE  file' \in [Streams -> Text] /\ \A t \in Streams : Grows(file[t], file'[t])
<1> DEFINE r == NewRecord(s, k)
<1>1. r \in Rec
  BY NewRecordTyped
<1>2. Line(r) \in Text /\ file[s] \in Text
  BY <1>1, LineTyped DEF RunTypes
<1> HIDE DEF r
<1>3. file' = [file EXCEPT ![s] = file[s] \o Line(r)]
  BY DEF Append1, r
<1> QED BY <1>2, <1>3, GrowsAppend, EngineGrows

Engine == Open \/ (\E s \in Streams : Write(s)) \/ End \/ Release \/ Crash \/ Resume

\* No step of an engine takes a complete line away.
LEMMA EngineFiles ==
  ASSUME RunTypes, Engine
  PROVE  RunTypes' /\ \A t \in Streams : Grows(file[t], file'[t])
<1> DEFINE G == file' \in [Streams -> Text] /\ \A t \in Streams : Grows(file[t], file'[t])
<1> HIDE DEF G
<1>1. CASE Open
  <2> G
    BY <1>1, AppendGrows DEF Open, G, Streams
  <2> QED BY <1>1 DEF Open, RunTypes, G
<1>2. ASSUME NEW s \in Streams, Write(s) PROVE RunTypes' /\ \A t \in Streams : Grows(file[t], file'[t])
  <2>1. Append1(s, Kind(s)) /\ Kind(s) \in {"open", "work", "end", "fact"}
    BY <1>2 DEF Write, Kind
  <2> G
    BY <2>1, AppendGrows DEF G
  <2> QED BY <1>2 DEF Write, RunTypes, G
<1>3. CASE End
  <2> G
    BY <1>3, AppendGrows DEF End, G, Streams
  <2> QED BY <1>3 DEF End, RunTypes, G
<1>4. CASE Release
  <2> G
    BY <1>4, StillGrows DEF Release, G
  <2> QED BY <1>4 DEF Release, RunTypes, G
<1>5. CASE Crash
  <2>1. CASE UNCHANGED file
    <3> G
      BY <2>1, StillGrows DEF G
    <3> QED BY <1>5 DEF Crash, RunTypes, G
  <2>2. ASSUME NEW s \in Streams, file' = [file EXCEPT ![s] = Append(@, Body(NewRecord(s, Kind(s))))] PROVE G
    <3> DEFINE x == Body(NewRecord(s, Kind(s)))
    <3>1. Kind(s) \in {"open", "work", "end", "fact"}
      BY DEF Kind
    <3>2. NewRecord(s, Kind(s)) \in Rec
      BY <3>1, NewRecordTyped
    <3>3. x \in Cell /\ file[s] \in Text
      BY <3>2, LineTyped DEF RunTypes
    <3> HIDE DEF x
    <3>4. file' = [file EXCEPT ![s] = Append(file[s], x)]
      BY <2>2 DEF x
    <3>5. file' = [file EXCEPT ![s] = file[s] \o <<x>>] /\ <<x>> \in Text
      BY <3>3, <3>4, OneCell
    <3>6. Grows(file[s], file[s] \o <<x>>) /\ file[s] \o <<x>> \in Text
      BY <3>3, <3>5, GrowsAppend
    <3> QED BY <3>5, <3>6, EngineGrows DEF G
  <2>3. G
    BY <1>5, <2>1, <2>2, StillGrows DEF Crash, G
  <2> QED BY <1>5, <2>3 DEF Crash, RunTypes, G
<1>6. CASE Resume
  <2> DEFINE j == file["j"]
  <2>1. j \in Text /\ "j" \in Streams
    BY DEF RunTypes, Streams
  <2>2. ASSUME UNCHANGED file PROVE G
    BY <2>2, StillGrows DEF G
  <2>3. ASSUME file' = [file EXCEPT !["j"] = SubSeq(j, 1, LastEnd(j))] PROVE G
    <3> HIDE DEF j
    <3>1. Grows(j, SubSeq(j, 1, LastEnd(j))) /\ SubSeq(j, 1, LastEnd(j)) \in Text
      BY <2>1, GrowsCut
    <3> QED BY <2>1, <2>3, <3>1, EngineGrows DEF G, j
  <2>4. ASSUME Torn(j), file' = [file EXCEPT !["j"] = Append(j, Close(j[Len(j)][1]))] PROVE G
    <3> DEFINE x == Close(j[Len(j)][1])
    <3>1. LastEnd(j) \in 0..Len(j) /\ Len(j) \in Nat /\ LastEnd(j) < Len(j)
      BY <2>1, <2>4, LastEndFacts DEF Torn, Text
    <3>2. j[Len(j)] \in Cell
      BY <2>1, <3>1 DEF Text
    <3>3. x \in Cell
      BY <3>2 DEF Cell, Close
    <3> HIDE DEF x
    <3>4. file' = [file EXCEPT !["j"] = Append(j, x)]
      BY <2>4 DEF x
    <3> HIDE DEF j
    <3>5. file' = [file EXCEPT !["j"] = j \o <<x>>] /\ <<x>> \in Text
      BY <2>1, <3>3, <3>4, OneCell
    <3>6. Grows(j, j \o <<x>>) /\ j \o <<x>> \in Text
      BY <2>1, <3>5, GrowsAppend
    <3> QED BY <2>1, <3>5, <3>6, EngineGrows DEF G, j
  <2>5. G
    BY <1>6, <2>2, <2>3, <2>4 DEF Resume
  <2>6. resumes' \in Nat /\ engine' \in {"starting", "running", "ending", "done", "crashed"}
    BY <1>6 DEF Resume, RunTypes
  <2> QED BY <2>5, <2>6 DEF RunTypes, G
<1> QED BY <1>1, <1>2, <1>3, <1>4, <1>5, <1>6 DEF Engine

\* The steps of the engine keep the invariant.
LEMMA EngineFollow ==
  ASSUME FollowInv, Engine
  PROVE  FollowInv'
<1>1. RunTypes
  BY DEF FollowInv, StreamTypes
<1>2. UNCHANGED <<server, wire, client, history>>
  BY DEF Engine, Open, Write, End, Release, Crash, Resume
<1> QED BY <1>1, <1>2, EngineFiles, FileStep

\* What the invariant says of the types.
LEMMA FollowFacts ==
  ASSUME FollowInv
  PROVE  /\ Wired /\ Tailed /\ adrift \subseteq misread /\ misread \subseteq Streams
         /\ \A s \in Streams : file[s] \in Text /\ Origin[s] \in Nat /\ seen[s] \in Nat /\ view[s] \in Seq(Rec)
<1>1. Wired
  BY DEF FollowInv, StreamTypes, RunTypes, ServerTypes, PageTypes, Wired
<1>2. Tailed
  BY <1>1 DEF FollowInv, StreamTypes, ServerTypes, Tails, Tailed
<1>3. \A s \in Streams : Origin[s] \in Nat
  BY <1>1, StartTyped
<1> QED BY <1>1, <1>2, <1>3 DEF FollowInv, StreamTypes, RunTypes, PageTypes, HistoryTypes, Offsets

\* Nothing put behind a sequence.
LEMMA NoConcat ==
  ASSUME NEW S, NEW v \in Seq(S)
  PROVE  v \o << >> = v /\ << >> \in Seq(S) /\ << >> \o v = v
OBVIOUS

\* The drain before it reads anything.
LEMMA DrainStart ==
  ASSUME FollowInv, up # "down",
         NEW d, d = [cur |-> cursor, batch |-> << >>, out |-> << >>, read |-> read, pend |-> pend,
                     active |-> FALSE, ended |-> ended, lost |-> adrift]
  PROVE  Sound(d) /\ \A s \in Streams : Free(d.batch, s)
<1>1. d \in Work
  <2> << >> \in Seq(Item) /\ << >> \in Seq(FrameSet)
    OBVIOUS
  <2> QED BY FollowFacts DEF FollowInv, StreamTypes, ServerTypes, HistoryTypes, Work
<1>2. wire \o d.out = wire
  BY NoConcat DEF FollowInv, StreamTypes, ServerTypes
<1>3. \A s \in Streams : Tail1(d.cur[s], d.read[s], d.pend[s])
  BY DEF FollowInv, Tails
<1>4. ASSUME NEW s \in Streams, NEW m \in Nat \ {0}, CleanAt(wire, adrift, s, m)
      PROVE  Clean(file[s], wire, Origin[s], s, m) /\ Reach(file[s], wire, Origin[s], s, << >>, cursor[s])
  <2> Served(s)
    BY DEF FollowInv
  <2> QED BY <1>4 DEF Served
<1>5. \A s \in Streams : Track(d, s)
  BY <1>2, <1>4 DEF Track, Fine
<1>6. d.batch = << >> /\ Len(d.batch) = 0
  OBVIOUS
<1>7. \A s \in Streams : Free(d.batch, s)
  BY <1>6 DEF Free
<1> QED BY <1>1, <1>3, <1>5, <1>7 DEF Sound

\* A drain of both streams, or of one of them.
LEMMA DrainGood ==
  ASSUME FollowInv, up # "down", NEW d0, Sound(d0), d0.cur = cursor, d0.lost = adrift,
         \A s \in Streams : Free(d0.batch, s), NEW x \in BOOLEAN, NEW y \in BOOLEAN,
         NEW d1, d1 = (IF x THEN DrainOne(d0, "e") ELSE d0),
         NEW d2, d2 = (IF y THEN DrainOne(d1, "j") ELSE d1)
  PROVE  Sound(Flushed(d2)) /\ Flushed(d2).batch = << >>
<1> "e" \in Streams /\ "j" \in Streams /\ "j" \in Streams \ {"e"}
  BY DEF Streams
<1>1. Sound(d1) /\ d1.cur["j"] = cursor["j"] /\ Free(d1.batch, "j") /\ ("j" \in d1.lost => "j" \in misread)
  <2>1. CASE x
    <3>1. Sound(DrainOne(d0, "e")) /\ Other(d0, DrainOne(d0, "e"), "e")
      BY FollowFacts, GoodStep
    <3> QED BY <2>1, <3>1, FollowFacts DEF Other
  <2>2. CASE ~x
    BY <2>2, FollowFacts
  <2> QED BY <2>1, <2>2
<1>2. Sound(d2)
  <2>1. CASE y
    BY <1>1, <2>1, FollowFacts, GoodStep
  <2>2. CASE ~y
    BY <1>1, <2>2
  <2> QED BY <2>1, <2>2
<1> QED BY <1>2, GoodFlush, FollowFacts DEF Wired

\* A drain leaves the first frame where it is.
LEMMA FirstFrame ==
  ASSUME NEW V \in Seq(FrameSet), NEW W \in Seq(FrameSet), V # << >>
  PROVE  V \o W \in Seq(FrameSet) /\ V \o W # << >> /\ (V \o W)[1] = V[1]
OBVIOUS

\* A drain keeps the invariant.
LEMMA DrainFollow ==
  ASSUME FollowInv, NEW ids \in {{"e"}, {"j"}, {"e", "j"}}, Drain(ids)
  PROVE  FollowInv'
<1>1. up # "down" /\ UNCHANGED <<run, hitches, client>>
  BY DEF Drain
<1> DEFINE d0 == [cur |-> cursor, batch |-> << >>, out |-> << >>, read |-> read, pend |-> pend,
                  active |-> FALSE, ended |-> ended, lost |-> adrift]
           d1 == IF "e" \in ids THEN DrainOne(d0, "e") ELSE d0
           d2 == IF "j" \in ids THEN DrainOne(d1, "j") ELSE d1
           d == Flushed(d2)
<1>2. Sound(d) /\ d.batch = << >>
  <2>1. Sound(d0) /\ (\A s \in Streams : Free(d0.batch, s)) /\ d0.cur = cursor /\ d0.lost = adrift
    BY <1>1, DrainStart
  <2> HIDE DEF d0
  <2>2. ("e" \in ids) \in BOOLEAN /\ ("j" \in ids) \in BOOLEAN
    OBVIOUS
  <2> QED BY <1>1, <2>1, <2>2, DrainGood
<1>3. /\ cursor' = d.cur /\ read' = d.read /\ pend' = d.pend /\ ended' = d.ended
      /\ wire' = wire \o d.out /\ quiet' = (quiet /\ ~d.active)
      /\ adrift' = d.lost /\ misread' = misread \cup d.lost
      /\ up' = (IF up = "fresh" THEN "drained" ELSE up)
  BY DEF Drain
<1> HIDE DEF d
<1>4. d \in Work /\ wire \in Seq(FrameSet) /\ wire \o d.out \in Seq(FrameSet)
  <2>1. d \in Work /\ wire \in Seq(FrameSet)
    BY <1>2, FollowFacts DEF Sound, Wired
  <2>2. d.out \in Seq(FrameSet)
    BY <2>1 DEF Work
  <2> QED BY <2>1, <2>2, ConcatAppend
<1>5. StreamTypes'
  <2>1. RunTypes' /\ PageTypes'
    BY <1>1 DEF FollowInv, StreamTypes, RunTypes, PageTypes, run, client
  <2>2. ServerTypes'
    <3>1. up \in {"down", "fresh", "drained", "live"} /\ quiet \in BOOLEAN
      BY DEF FollowInv, StreamTypes, ServerTypes
    <3>2. cursor' \in Offsets /\ read' \in Offsets /\ pend' \in [Streams -> Text] /\ ended' \in BOOLEAN
          /\ d.active \in BOOLEAN
      BY <1>3, <1>4 DEF Work
    <3>3. wire' \in Seq(FrameSet) /\ quiet' \in BOOLEAN /\ up' \in {"down", "fresh", "drained", "live"}
      BY <1>3, <1>4, <3>1, <3>2
    <3> QED BY <3>2, <3>3 DEF ServerTypes
  <2>3. HistoryTypes'
    <3> d.lost \in SUBSET Streams
      BY <1>4 DEF Work
    <3> QED BY <1>3, FollowFacts DEF HistoryTypes
  <2> QED BY <2>1, <2>2, <2>3 DEF StreamTypes
<1>6. Phases'
  BY <1>1, <1>3 DEF FollowInv, Phases, client
<1>7. Tails'
  BY <1>2, <1>3 DEF Tails, Sound
<1>8. Asked'
  BY <1>1 DEF FollowInv, Asked, client, run
<1>9. Origin' = Origin /\ file' = file
  BY <1>1 DEF Origin, client, run
<1>10. ASSUME NEW s \in Streams PROVE Served(s)'
  <2> SUFFICES ASSUME NEW m \in Nat \ {0}, CleanAt(wire, adrift, s, m)'
               PROVE  Clean(file[s], wire, Origin[s], s, m)' /\ Reach(file[s], wire, Origin[s], s, << >>, cursor[s])'
    BY DEF Served
  <2>1. CleanAt(wire \o d.out, d.lost, s, m)
    BY <1>3 DEF CleanAt
  <2>2. Fine(d, s, m)
    BY <1>2, <2>1 DEF Sound, Track
  <2> QED BY <1>2, <1>3, <1>9, <2>2, Zenon DEF Fine
<1>11. ASSUME NEW s \in Streams, s \notin misread' PROVE Shown(s)'
  <2>1. Shown(s)
    BY <1>3, <1>11 DEF FollowInv
  <2>2. ASSUME wire # << >>, Resets(wire[1], s) PROVE wire' # << >> /\ Resets(wire'[1], s)
    <3> d.out \in Seq(FrameSet)
      BY <1>4 DEF Work
    <3> QED BY <1>3, <1>4, <2>2, FirstFrame
  <2>3. Standing(s) => Standing(s)'
    BY <1>1, <1>9, <2>2 DEF Standing, client
  <2> QED BY <1>1, <1>9, <2>1, <2>3 DEF Shown, client
<1> QED BY <1>5, <1>6, <1>7, <1>8, <1>10, <1>11 DEF FollowInv

\* The server writes one more frame, or changes what the wire does not depend on.
LEMMA TickFollow ==
  ASSUME FollowInv, StateTick
  PROVE  FollowInv'
<1> DEFINE x == Frame("end", cursor, None)
<1>1. up # "down" /\ UNCHANGED <<run, read, pend, cursor, quiet, hitches, client, history>>
  BY DEF StateTick
<1>2. \/ wire' = wire /\ up' = "live"
      \/ wire' = Append(wire, x) /\ up' = "down"
  BY DEF StateTick
<1>3. x \in FrameSet /\ x.id = cursor /\ Items(x) = << >> /\ \A s : ~Resets(x, s)
  BY FollowFacts DEF Tailed, FrameSet, Frame, Items, Resets
<1> HIDE DEF x
<1>4. wire \in Seq(FrameSet) /\ Append(wire, x) \in Seq(FrameSet)
  BY <1>3, FollowFacts DEF Wired
<1>5. ended' \in BOOLEAN
  <2> DEFINE F == Terminal(Records(file["e"]))
  <2>1. ended \in BOOLEAN /\ F \in BOOLEAN
    BY DEF FollowInv, StreamTypes, ServerTypes, Terminal
  <2>2. ended' = (ended \/ (Derived = "completed" /\ F))
    BY DEF StateTick
  <2> QED BY <2>1, <2>2
<1>6. StreamTypes' /\ Phases' /\ Tails' /\ Asked' /\ Origin' = Origin /\ file' = file /\ es' = es
  <2>1. RunTypes' /\ PageTypes' /\ HistoryTypes'
    BY <1>1 DEF FollowInv, StreamTypes, RunTypes, PageTypes, HistoryTypes, run, client, history
  <2>2. ServerTypes'
    BY <1>1, <1>2, <1>4, <1>5 DEF FollowInv, StreamTypes, ServerTypes
  <2>3. Phases'
    BY <1>1, <1>2 DEF FollowInv, Phases, client
  <2>4. Tails' /\ Asked'
    BY <1>1 DEF FollowInv, Tails, Asked, run, client
  <2> QED BY <1>1, <2>1, <2>2, <2>3, <2>4 DEF StreamTypes, Origin, run, client
<1>7. ASSUME NEW s \in Streams PROVE Served(s)'
  <2>1. Served(s)
    BY DEF FollowInv
  <2> SUFFICES ASSUME NEW m \in Nat \ {0}, CleanAt(wire, adrift, s, m)'
               PROVE  /\ Clean(file[s], wire, Origin[s], s, m)'
                      /\ up' # "down" => Reach(file[s], wire, Origin[s], s, << >>, cursor[s])'
    BY DEF Served
  <2>2. ResetsIn(wire', s) = ResetsIn(wire, s)
    <3>1. ~Resets(x, s)
      BY <1>3
    <3>2. ResetsIn(Append(wire, x), s) = ResetsIn(wire, s)
      BY <1>3, <1>4, <3>1, ResetsAppend
    <3> QED BY <1>2, <3>2
  <2>3. CleanAt(wire, adrift, s, m)
    BY <1>1, <2>2 DEF CleanAt, history
  <2>4. Clean(file[s], wire, Origin[s], s, m) /\ Reach(file[s], wire, Origin[s], s, << >>, cursor[s])
    BY <1>1, <2>1, <2>3 DEF Served
  <2>5. Clean(file[s], Append(wire, x), Origin[s], s, m)
    BY <1>3, <1>4, <2>4, LinkLast
  <2> QED BY <1>1, <1>2, <1>6, <2>4, <2>5, Zenon
<1>8. ASSUME NEW s \in Streams \ misread PROVE Shown(s)'
  <2>1. Shown(s)
    BY DEF FollowInv
  <2>2. ASSUME wire # << >> PROVE wire' # << >> /\ wire'[1] = wire[1]
    BY <1>2, <1>3, <1>4, <2>2
  <2>3. Standing(s) => Standing(s)'
    BY <1>1, <1>6, <2>2 DEF Standing, client
  <2> QED BY <1>1, <1>6, <2>1, <2>3 DEF Shown, client
<1> QED BY <1>1, <1>6, <1>7, <1>8 DEF FollowInv, history

\* The clock keeps the invariant.
LEMMA TimeFollow ==
  ASSUME FollowInv, TimePasses
  PROVE  FollowInv'
<1>1. UNCHANGED <<run, up, read, pend, cursor, ended, wire, hitches, client, history>> /\ quiet' = TRUE
  BY DEF TimePasses
<1> USE DEF run, client, history
<1>2. StreamTypes' /\ Phases' /\ Tails' /\ Asked'
  BY <1>1 DEF FollowInv, StreamTypes, RunTypes, ServerTypes, PageTypes, HistoryTypes, Phases, Tails, Asked
<1>3. Origin' = Origin
  BY <1>1 DEF Origin
<1>4. \A s \in Streams : Served(s) => Served(s)'
  BY <1>1, <1>3 DEF Served, CleanAt
<1>5. \A s \in Streams : Shown(s) => Shown(s)'
  BY <1>1, <1>3 DEF Shown, Standing
<1> QED BY <1>1, <1>2, <1>4, <1>5 DEF FollowInv

\* A connection that is gone: nothing is on its way, and the page knows of it no more.
LEMMA GoneServed ==
  ASSUME wire' = << >>, up' = "down", NEW s \in Streams
  PROVE  Served(s)'
<1> SUFFICES ASSUME NEW m \in Nat \ {0} PROVE Clean(file[s], wire, Origin[s], s, m)'
  BY DEF Served
<1> QED BY DEF Clean

\* When a connection is lost, what the next one may replay is behind the cursor or starts the stream over.
LEMMA LostStanding ==
  ASSUME FollowInv, UNCHANGED <<file, lastId, seen>>, first' = {}, resetHere' = {}, NEW s \in Streams, Standing(s)
  PROVE  Level(file'[s], Origin'[s], seen'[s], s, first', resetHere')
<1>1. Origin' = Origin
  BY DEF Origin
<1>2. Origin[s] \in Nat /\ seen[s] \in Nat /\ RecordsTo(file[s])[0] = << >>
  BY FollowFacts, RecordsZero
<1> QED BY <1>1, <1>2 DEF Standing, Level, LineEnd

\* A lost connection keeps the invariant.
LEMMA LostFollow ==
  ASSUME FollowInv, es = "open", UNCHANGED <<run, read, pend, cursor, ended, quiet, history>>,
         up' = "down", wire' = << >>, Lost
  PROVE  FollowInv'
<1> USE DEF run, history
<1>1. StreamTypes' /\ Phases' /\ Tails' /\ Asked'
  <2>1. RunTypes' /\ HistoryTypes'
    BY DEF FollowInv, StreamTypes, RunTypes, HistoryTypes
  <2>2. ServerTypes'
    <3> << >> \in Seq(FrameSet)
      OBVIOUS
    <3> QED BY DEF FollowInv, StreamTypes, ServerTypes
  <2>3. PageTypes'
    BY DEF FollowInv, StreamTypes, PageTypes, Lost
  <2>4. Phases' /\ Tails' /\ Asked'
    BY DEF FollowInv, Phases, Tails, Asked, Lost
  <2> QED BY <2>1, <2>2, <2>3, <2>4 DEF StreamTypes
<1>2. \A s \in Streams : Served(s)'
  BY GoneServed
<1>3. ASSUME NEW s \in Streams \ misread PROVE Shown(s)'
  <2>1. Shown(s) /\ Standing(s)
    BY DEF FollowInv, Shown
  <2>2. Standing(s)'
    BY <2>1, LostStanding DEF Lost, Standing
  <2> QED BY <2>1, <2>2 DEF Shown, Lost
<1> QED BY <1>1, <1>2, <1>3 DEF FollowInv

\* It breaks.
LEMMA DropFollow ==
  ASSUME FollowInv, Drop
  PROVE  FollowInv'
BY LostFollow DEF Drop

\* The server ends it.
LEMMA ServerClosesFollow ==
  ASSUME FollowInv, ServerCloses
  PROVE  FollowInv'
BY LostFollow DEF ServerCloses, server

\* The page ends it.
LEMMA SettleFollow ==
  ASSUME FollowInv, Settle
  PROVE  FollowInv'
<1> USE DEF run, history, Settle
<1>1. StreamTypes' /\ Phases' /\ Tails' /\ Asked'
  <2>1. RunTypes' /\ HistoryTypes'
    BY DEF FollowInv, StreamTypes, RunTypes, HistoryTypes
  <2>2. ServerTypes'
    <3> << >> \in Seq(FrameSet)
      OBVIOUS
    <3> QED BY DEF FollowInv, StreamTypes, ServerTypes
  <2>3. PageTypes'
    BY DEF FollowInv, StreamTypes, PageTypes
  <2>4. Phases' /\ Tails' /\ Asked'
    BY DEF FollowInv, Phases, Tails, Asked
  <2> QED BY <2>1, <2>2, <2>3, <2>4 DEF StreamTypes
<1>2. \A s \in Streams : Served(s)'
  BY GoneServed
<1>3. ASSUME NEW s \in Streams \ misread PROVE Shown(s)'
  BY DEF FollowInv, Shown
<1> QED BY <1>1, <1>2, <1>3 DEF FollowInv

-----------------------------------------------------------------------------
\* A snapshot is exact.
LEMMA PollFollow ==
  ASSUME FollowInv, Poll
  PROVE  FollowInv'
<1> DEFINE a == [at |-> "answered", view |-> [s \in Streams |-> Records(file[s])],
                 off |-> [s \in Streams |-> LastEnd(file[s])], state |-> Derived]
<1>1. /\ UNCHANGED <<run, server, wire, es, lastId, seen, first, resetHere, status, view, base, history>>
      /\ ask' = a
  BY DEF Poll
<1>2. \A s \in Streams : /\ file[s] \in Text /\ LastEnd(file[s]) \in 0..Len(file[s]) /\ Len(file[s]) \in Nat
                         /\ LineEnd(file[s], LastEnd(file[s]))
                         /\ Records(file[s]) = RecordsTo(file[s])[LastEnd(file[s])]
                         /\ Records(file[s]) \in Seq(Rec)
  <2> TAKE s \in Streams
  <2>1. file[s] \in Text
    BY FollowFacts
  <2>2. Len(file[s]) \in Nat
    BY <2>1 DEF Text
  <2> QED BY <2>1, <2>2, LastEndFacts, RecordsComplete, RecordsTyped
<1>3. Derived \in {"running", "stale", "completed"}
  BY DEF FollowInv, StreamTypes, RunTypes, Derived
<1>4. /\ a \in AskSet /\ \A s \in Streams : a.off[s] = LastEnd(file[s]) /\ a.view[s] = Records(file[s])
  <2>1. [s \in Streams |-> Records(file[s])] \in [Streams -> Seq(Rec)]
    BY <1>2
  <2>2. [s \in Streams |-> LastEnd(file[s])] \in Offsets
    BY <1>2 DEF Offsets
  <2> QED BY <1>3, <2>1, <2>2 DEF AskSet
<1> HIDE DEF a
<1> USE DEF run, server, history
<1>5. StreamTypes' /\ Phases' /\ Tails'
  BY <1>1, <1>4 DEF FollowInv, StreamTypes, RunTypes, ServerTypes, PageTypes, HistoryTypes, Phases, Tails
<1>6. Asked'
  BY <1>1, <1>2, <1>4 DEF Asked
<1>7. Origin' = Origin
  BY <1>1 DEF Origin
<1>8. \A s \in Streams : Served(s) => Served(s)'
  BY <1>1, <1>7 DEF Served, CleanAt
<1>9. \A s \in Streams : Shown(s) => Shown(s)'
  BY <1>1, <1>7 DEF Shown, Standing
<1> QED BY <1>1, <1>5, <1>6, <1>8, <1>9 DEF FollowInv

\* An answer that is not used.
LEMMA AskGone ==
  ASSUME FollowInv, ask' = NoAsk,
         UNCHANGED <<run, server, wire, es, lastId, seen, first, resetHere, status, view, base, history>>
  PROVE  FollowInv'
<1> USE DEF run, server, history
<1>1. StreamTypes' /\ Phases' /\ Tails' /\ Asked'
  BY DEF FollowInv, StreamTypes, RunTypes, ServerTypes, PageTypes, HistoryTypes, Phases, Tails, Asked
<1>2. Origin' = Origin
  BY DEF Origin
<1>3. \A s \in Streams : Served(s) => Served(s)'
  BY <1>2 DEF Served, CleanAt
<1>4. \A s \in Streams : Shown(s) => Shown(s)'
  BY <1>2 DEF Shown, Standing
<1> QED BY <1>1, <1>3, <1>4 DEF FollowInv

\* A request that fails.
LEMMA FailFollow ==
  ASSUME FollowInv, RequestFails
  PROVE  FollowInv'
BY AskGone DEF RequestFails

\* Resumes can be counted.
LEMMA ResumedNat ==
  ASSUME NEW v \in Seq(Rec)
  PROVE  Resumed(v) \in Nat
<1>1. IsFiniteSet(1..Len(v)) /\ DOMAIN v = 1..Len(v)
  BY FS_Interval
<1>2. IsFiniteSet({k \in DOMAIN v : v[k].kind = "open"})
  BY <1>1, FS_Subset
<1> QED BY <1>2, FS_CardinalityType DEF Resumed

\* A page seeded with a snapshot stands where the snapshot does.
LEMMA AnswerFollow ==
  ASSUME FollowInv, Answer
  PROVE  FollowInv'
<1>1. ask \in AskSet /\ ask # NoAsk
  BY DEF Answer, FollowInv, StreamTypes, PageTypes, NoAsk
<1>2. CASE ~(base = -1 \/ (status = "ended" /\ Revived(ask)))
  BY <1>2, AskGone DEF Answer
<1>3. CASE base = -1 \/ (status = "ended" /\ Revived(ask))
  <2>1. /\ UNCHANGED <<run, server, wire, hitches>> /\ ask' = NoAsk
        /\ view' = ask.view /\ seen' = ask.off /\ base' = Resumed(ask.view["e"])
        /\ es' = "closed" /\ status' = "connecting" /\ lastId' = NoId
        /\ first' = {} /\ resetHere' = {} /\ adrift' = {} /\ misread' = {}
    BY <1>3 DEF Answer
  <2>2. es = "none" /\ up = "down" /\ wire = << >>
    BY <1>3 DEF FollowInv, Phases
  <2>3. ask.view \in [Streams -> Seq(Rec)] /\ ask.off \in Offsets
    BY <1>1 DEF AskSet
  <2>4. Resumed(ask.view["e"]) \in Nat
    BY <2>3, ResumedNat DEF Streams
  <2>5. StreamTypes'
    <3>1. RunTypes' /\ ServerTypes' /\ HistoryTypes'
      BY <2>1 DEF FollowInv, StreamTypes, RunTypes, ServerTypes, HistoryTypes, run, server
    <3>2. PageTypes'
      BY <2>1, <2>3, <2>4 DEF PageTypes
    <3> QED BY <3>1, <3>2 DEF StreamTypes
  <2>6. Phases' /\ Tails' /\ Asked'
    BY <2>1, <2>2, <2>4 DEF FollowInv, Phases, Tails, Asked, server
  <2>7. \A s \in Streams : Served(s)'
    BY <2>1, <2>2, GoneServed DEF server
  <2>8. Origin' = seen'
    BY <2>1 DEF Origin
  <2>9. ASSUME NEW s \in Streams PROVE Shown(s)'
    <3>1. LineEnd(file[s], ask.off[s]) /\ ask.view[s] = RecordsTo(file[s])[ask.off[s]]
      BY <1>1 DEF FollowInv, Asked
    <3> QED BY <2>1, <2>8, <3>1 DEF Shown, Standing, Level, run
  <2> QED BY <2>5, <2>6, <2>7, <2>9 DEF FollowInv
<1> QED BY <1>2, <1>3

-----------------------------------------------------------------------------
\* The frames that a connection starts with.
LEMMA AcceptWire ==
  ASSUME NEW at \in Offsets, NEW over \in SUBSET Streams, NEW V,
         V = (IF "e" \in over THEN <<Frame("reset", at, "e")>> ELSE << >>)
               \o (IF "j" \in over THEN <<Frame("reset", at, "j")>> ELSE << >>)
  PROVE  /\ V \in Seq(FrameSet)
         /\ \A i \in 1..Len(V) : /\ V[i].id = at /\ Items(V[i]) = << >>
                                 /\ \A s \in Streams : Resets(V[i], s) => s \in over
<1> DEFINE e == Frame("reset", at, "e")
           j == Frame("reset", at, "j")
           Fit(x) == /\ x.id = at /\ Items(x) = << >>
                     /\ \A s \in Streams : Resets(x, s) => s \in over
<1>1. /\ e \in FrameSet /\ ("e" \in over => Fit(e))
      /\ j \in FrameSet /\ ("j" \in over => Fit(j))
  BY DEF Frame, FrameSet, Items, Resets, Streams
<1>2. V = (IF "e" \in over THEN <<e>> ELSE << >>) \o (IF "j" \in over THEN <<j>> ELSE << >>)
  OBVIOUS
<1> HIDE DEF e, j, Fit
<1>3. V \in Seq(FrameSet) /\ \A i \in 1..Len(V) : (V[i] = e /\ "e" \in over) \/ (V[i] = j /\ "j" \in over)
  <2>1. CASE "e" \in over /\ "j" \in over
    <3>1. V = <<e>> \o <<j>>
      BY <1>2, <2>1
    <3>2. <<e>> \o <<j>> \in Seq(FrameSet) /\ Len(<<e>> \o <<j>>) = 2
          /\ (<<e>> \o <<j>>)[1] = e /\ (<<e>> \o <<j>>)[2] = j
      BY <1>1
    <3> QED BY <2>1, <3>1, <3>2
  <2>2. CASE "e" \in over /\ "j" \notin over
    <3> V = <<e>>
      BY <1>2, <2>2
    <3> QED BY <1>1, <2>2
  <2>3. CASE "e" \notin over /\ "j" \in over
    <3> V = <<j>>
      BY <1>2, <2>3
    <3> QED BY <1>1, <2>3
  <2>4. CASE "e" \notin over /\ "j" \notin over
    <3> V = << >>
      BY <1>2, <2>4
    <3> QED OBVIOUS
  <2> QED BY <2>1, <2>2, <2>3, <2>4
<1>4. \A i \in 1..Len(V) : Fit(V[i])
  BY <1>1, <1>3, Zenon
<1> QED BY <1>3, <1>4 DEF Fit

\* A new connection goes on from the cursor it carries, or starts over the streams it is past.
LEMMA ReconnectFollow ==
  ASSUME FollowInv, Reconnect
  PROVE  FollowInv'
<1> DEFINE c == IF es = "retrying" /\ lastId # NoId THEN lastId ELSE seen
           over == {s \in Streams : c[s] > Size(s)}
           at == [s \in Streams |-> IF s \in over THEN 0 ELSE c[s]]
<1>1. /\ es \in {"retrying", "closed"} /\ es' = "open"
      /\ lastId' = (IF es = "retrying" THEN lastId ELSE NoId) /\ first' = {} /\ resetHere' = {}
      /\ UNCHANGED <<run, hitches, seen, status, view, base, ask>>
  BY DEF Reconnect
<1>2. Accept(c)
  BY DEF Reconnect
<1>3. /\ up' = "fresh" /\ read' = at /\ cursor' = at
      /\ pend' = [s \in Streams |-> << >>] /\ ended' = FALSE /\ quiet' = FALSE
      /\ adrift' = {} /\ misread' = misread
      /\ wire' = (IF "e" \in over THEN <<Frame("reset", at, "e")>> ELSE << >>)
                   \o (IF "j" \in over THEN <<Frame("reset", at, "j")>> ELSE << >>)
  BY <1>2 DEF Accept
<1>4. c \in Offsets /\ Origin' = c /\ at \in Offsets /\ over \in SUBSET Streams
  <2>1. c \in Offsets
    BY FollowFacts DEF Wired
  <2>2. Origin' = c
    BY <1>1 DEF Origin
  <2>3. at \in Offsets
    BY <2>1 DEF Offsets
  <2> QED BY <2>1, <2>2, <2>3
<1>5. \A s \in Streams : at[s] = (IF s \in over THEN 0 ELSE c[s]) /\ at[s] \in Nat /\ c[s] \in Nat
                         /\ (s \in over <=> c[s] > Len(file[s]))
  BY <1>4 DEF Offsets, Size
<1> HIDE DEF at, over
<1>6. /\ wire' \in Seq(FrameSet)
      /\ \A i \in 1..Len(wire') : /\ wire'[i].id = at /\ Items(wire'[i]) = << >>
                                  /\ \A s \in Streams : Resets(wire'[i], s) => s \in over
  BY <1>3, <1>4, AcceptWire
<1>7. StreamTypes'
  <2>1. RunTypes' /\ HistoryTypes'
    BY <1>1, <1>3 DEF FollowInv, StreamTypes, RunTypes, HistoryTypes, run
  <2>2. ServerTypes'
    <3> << >> \in Text
      BY DEF Text
    <3> QED BY <1>3, <1>4, <1>6 DEF ServerTypes
  <2>3. PageTypes'
    <3>1. lastId' \in {NoId} \cup Offsets
      BY <1>1, FollowFacts DEF Wired
    <3> QED BY <1>1, <3>1 DEF FollowInv, StreamTypes, PageTypes
  <2> QED BY <2>1, <2>2, <2>3 DEF StreamTypes
<1>8. Phases' /\ Asked'
  BY <1>1 DEF FollowInv, Phases, Asked, run
<1>9. Tails'
  <2>1. \A s \in Streams : read'[s] = at[s] /\ cursor'[s] = at[s] /\ pend'[s] = << >> /\ at[s] \in Nat
    BY <1>3, <1>5
  <2>2. \A s \in Streams : Tail1(cursor'[s], read'[s], pend'[s])
    BY <2>1 DEF Tail1
  <2> QED BY <2>2 DEF Tails
<1>10. ASSUME NEW s \in Streams \ misread
       PROVE  Shown(s)' /\ LineEnd(file[s], c[s]) /\ s \notin over
  <2>1. Shown(s) /\ es # "none" /\ Standing(s) /\ LineEnd(file[s], seen[s])
    BY <1>1 DEF FollowInv, Shown
  <2>2. LineEnd(file[s], c[s]) /\ Level(file[s], c[s], seen[s], s, {}, {})
    <3>1. CASE c = seen
      BY <2>1, <3>1 DEF Level
    <3>2. CASE c # seen
      <4>1. UNCHANGED <<file, lastId, seen>>
        BY <1>1, <3>2 DEF run
      <4>2. Level(file'[s], Origin'[s], seen'[s], s, {}, {})
        BY <1>1, <2>1, <4>1, LostStanding
      <4>3. Level(file[s], c[s], seen[s], s, {}, {})
        BY <1>4, <4>1, <4>2
      <4> QED BY <2>1, <4>3 DEF Level
    <3> QED BY <3>1, <3>2
  <2>3. s \notin over
    BY <1>5, <2>2 DEF LineEnd
  <2>4. Shown(s)'
    BY <1>1, <1>4, <2>1, <2>2 DEF Shown, Standing, run
  <2> QED BY <2>2, <2>3, <2>4
<1>11. ASSUME NEW s \in Streams PROVE Served(s)'
  <2> DEFINE W == wire'
             f == file[s]
             a == c[s]
  <2> SUFFICES ASSUME NEW m \in Nat \ {0}, CleanAt(wire, adrift, s, m)'
               PROVE  Clean(f, W, a, s, m) /\ Reach(f, W, a, s, << >>, at[s])
    BY <1>1, <1>3, <1>4 DEF Served, run
  <2>1. (m = 1 /\ s \notin misread) \/ m \in ResetsIn(W, s)
    BY <1>3 DEF CleanAt
  <2>2. W \in Seq(FrameSet) /\ Len(W) \in Nat
    BY <1>6
  <2> HIDE DEF W
  <2>3. m \in ResetsIn(W, s) => m \in 1..Len(W) /\ Resets(W[m], s) /\ s \in over
    BY <1>6 DEF ResetsIn, W
  <2>4. LineEnd(f, at[s])
    <3>1. CASE s \notin misread
      BY <1>5, <1>10, <3>1
    <3>2. CASE m \in ResetsIn(W, s)
      BY <1>5, <2>3, <3>2 DEF LineEnd
    <3> QED BY <2>1, <3>1, <3>2
  <2>5. \A i \in 1..(Len(W) + 1) : i > 1 => From(W, a, s, i) = at[s]
    <3> TAKE i \in 1..(Len(W) + 1)
    <3> HAVE i > 1
    <3> i - 1 \in 1..Len(W)
      BY <2>2
    <3> QED BY <1>6, <2>2 DEF From, W
  <2>6. m = 1 /\ s \notin misread => From(W, a, s, 1) = at[s]
    BY <1>5, <1>10 DEF From
  <2>7. Covers(f, << >>, s, at[s], at[s]) /\ at[s] \in Nat
    BY <1>5, CoversNone
  <2>8. ASSUME NEW i \in m..Len(W) PROVE Link(f, W, a, s, i)
    <3>1. i \in 1..Len(W) /\ W[i].id = at /\ Items(W[i]) = << >> /\ (Resets(W[i], s) => s \in over)
      BY <1>6, <2>2 DEF W
    <3>2. CASE Resets(W[i], s)
      BY <1>5, <3>1, <3>2 DEF Link
    <3>3. CASE ~Resets(W[i], s)
      <4>1. From(W, a, s, i) = at[s]
        <5>1. CASE i > 1
          BY <2>5, <3>1, <5>1
        <5>2. CASE i = 1
          <6> m = 1
            BY <5>2
          <6> QED BY <2>1, <2>3, <2>6, <3>3, <5>2
        <5> QED BY <3>1, <5>1, <5>2
      <4> QED BY <2>4, <2>7, <3>1, <3>3, <4>1 DEF Link
    <3> QED BY <3>2, <3>3
  <2>9. From(W, a, s, Len(W) + 1) = at[s]
    <3>1. CASE Len(W) = 0
      <4> m = 1 /\ s \notin misread
        BY <2>1, <2>3, <3>1
      <4> QED BY <2>6, <3>1
    <3>2. CASE Len(W) > 0
      BY <2>2, <2>5, <3>2
    <3> QED BY <2>2, <3>1, <3>2
  <2> QED BY <2>4, <2>7, <2>8, <2>9 DEF Clean, Reach
<1> QED BY <1>3, <1>7, <1>8, <1>9, <1>10, <1>11 DEF FollowInv

\* A batch leaves a stream alone of which it has no record.
LEMMA TakeTyped ==
  ASSUME NEW s \in Streams, NEW B \in Seq(Item), NEW pg \in PageSet
  PROVE  LET e == TakeRecords(pg, B) IN
         /\ e \in PageSet
         /\ Free(B, s) => /\ e.seen[s] = pg.seen[s] /\ e.view[s] = pg.view[s]
                          /\ s \in e.first <=> s \in pg.first
                          /\ s \in e.reset <=> s \in pg.reset
<1> DEFINE u == Taken(pg, B)
           Same(e) == /\ e.seen[s] = pg.seen[s] /\ e.view[s] = pg.view[s]
                      /\ s \in e.first <=> s \in pg.first
                      /\ s \in e.reset <=> s \in pg.reset
           Inv(e) == e \in PageSet /\ (Free(B, s) => Same(e))
           S == {k \in Nat : k <= Len(B) => Inv(u[k])}
<1>1. Len(B) \in Nat
  OBVIOUS
<1>2. u[0] = pg /\ \A k \in 1..Len(B) : u[k] = TakeRecord(u[k - 1], B[k])
  BY <1>1, TakenDef
<1>3. 0 \in S
  BY <1>2
<1> HIDE DEF u
<1>4. ASSUME NEW j \in Nat, j \in S PROVE j + 1 \in S
  <2> DEFINE k == j + 1
             p == u[j]
             e == u[k]
             x == B[k]
  <2> SUFFICES ASSUME k <= Len(B) PROVE Inv(e)
    OBVIOUS
  <2>1. Inv(p) /\ k \in 1..Len(B) /\ k - 1 = j
    BY <1>1, <1>4
  <2>2. e = TakeRecord(p, x) /\ x \in Item /\ p \in PageSet
    BY <1>2, <2>1
  <2> HIDE DEF e, p
  <2>3. /\ e \in PageSet
        /\ \A t \in Streams \ {x.s} : /\ e.seen[t] = p.seen[t] /\ e.view[t] = p.view[t]
                                      /\ t \in e.first <=> t \in p.first
                                      /\ t \in e.reset <=> t \in p.reset
    BY <2>2, TakeRecordFacts
  <2>4. Free(B, s) => x.s # s
    BY <2>1 DEF Free
  <2> QED BY <2>1, <2>3, <2>4
<1> HIDE DEF Inv
<1>5. \A k \in Nat : k \in S
  <2> HIDE DEF S
  <2>1. S \in SUBSET Nat
    BY DEF S
  <2> QED BY <1>3, <1>4, <2>1, Climb
<1>6. Inv(u[Len(B)])
  BY <1>1, <1>5
<1> QED BY <1>6 DEF Inv, u, TakeRecords

\* The kinds of frames.
LEMMA FrameKinds ==
  ASSUME NEW x \in FrameSet
  PROVE  \/ /\ x.type = "batch" /\ x.data \in Seq(Item) /\ Items(x) = x.data
            /\ \A s \in Streams : ~Resets(x, s)
         \/ x.type = "note" /\ Items(x) = << >> /\ \A s \in Streams : ~Resets(x, s)
         \/ /\ x.type = "reset" /\ x.data \in Streams /\ Items(x) = << >>
            /\ \A s \in Streams : Resets(x, s) <=> s = x.data
         \/ x.type = "end" /\ Items(x) = << >> /\ \A s \in Streams : ~Resets(x, s)
BY DEF FrameSet, Items, Resets

\* What is left on its way once the first frame has arrived.
LEMMA TailFacts ==
  ASSUME NEW W \in Seq(FrameSet), W # << >>
  PROVE  /\ Head(W) = W[1] /\ W[1] \in FrameSet /\ Tail(W) \in Seq(FrameSet) /\ Len(W) \in Nat \ {0}
         /\ Len(Tail(W)) = Len(W) - 1 /\ \A i \in 1..(Len(W) - 1) : Tail(W)[i] = W[i + 1]
OBVIOUS

\* What follows the first frame goes on from where that one ends.
LEMMA TailLinks ==
  ASSUME NEW W \in Seq(FrameSet), W # << >>, NEW f, NEW a, NEW s \in Streams, NEW m \in Nat \ {0}, NEW n \in 1..(m + 1),
         Clean(f, W, a, s, n)
  PROVE  /\ Clean(f, Tail(W), W[1].id[s], s, m)
         /\ \A c : Reach(f, W, a, s, << >>, c) => Reach(f, Tail(W), W[1].id[s], s, << >>, c)
<1> DEFINE T == Tail(W)
           b == W[1].id[s]
<1>1. /\ T \in Seq(FrameSet) /\ Len(W) \in Nat \ {0} /\ Len(T) = Len(W) - 1
      /\ \A i \in 1..(Len(W) - 1) : T[i] = W[i + 1]
  BY TailFacts
<1> HIDE DEF T
<1>2. ASSUME NEW i \in 1..Len(W) PROVE From(T, b, s, i) = From(W, a, s, i + 1)
  <2>1. CASE i = 1
    BY <2>1 DEF From
  <2>2. CASE i # 1
    <3>1. T[i - 1] = W[i]
      <4> i - 1 \in 1..(Len(W) - 1)
        BY <1>1, <2>2
      <4> QED BY <1>1
    <3>2. i + 1 # 1 /\ (i + 1) - 1 = i
      BY <2>2
    <3> QED BY <2>2, <3>1, <3>2 DEF From
  <2> QED BY <2>1, <2>2
<1>3. ASSUME NEW i \in m..Len(T) PROVE Link(f, T, b, s, i)
  <2>1. i + 1 \in n..Len(W) /\ i \in 1..(Len(W) - 1) /\ i \in 1..Len(W)
    BY <1>1
  <2>2. Link(f, W, a, s, i + 1)
    BY <2>1 DEF Clean
  <2>3. T[i] = W[i + 1] /\ From(T, b, s, i) = From(W, a, s, i + 1)
    BY <1>1, <1>2, <2>1
  <2>4. i + 1 < Len(W) => i < Len(T) /\ T[i + 1] = W[(i + 1) + 1]
    <3> HAVE i + 1 < Len(W)
    <3> i + 1 \in 1..(Len(W) - 1) /\ i < Len(T)
      BY <1>1, <2>1
    <3> QED BY <1>1
  <2> QED BY <2>2, <2>3, <2>4, Zenon DEF Link
<1>4. From(T, b, s, Len(T) + 1) = From(W, a, s, Len(W) + 1)
  <2> Len(T) + 1 = Len(W) /\ Len(W) \in 1..Len(W)
    BY <1>1
  <2> QED BY <1>2
<1>5. Clean(f, T, b, s, m)
  BY <1>3 DEF Clean
<1>6. \A c : Reach(f, W, a, s, << >>, c) => Reach(f, T, b, s, << >>, c)
  BY <1>4, Zenon DEF Reach
<1> QED BY <1>5, <1>6 DEF T

\* Every frame has an id.
LEMMA IdNoId ==
  ASSUME NEW x \in Offsets
  PROVE  x # NoId
<1> DOMAIN x = Streams /\ "e" \in Streams
  BY DEF Offsets, Streams
<1> DOMAIN NoId = {}
  BY DEF NoId
<1> QED OBVIOUS

\* The page with a frame that has arrived.
Paged == [first |-> first, reset |-> resetHere, seen |-> seen, view |-> view]
Told(x, s, n) ==
  /\ view'[s] = n.view[s] /\ seen'[s] = (IF x.id[s] > n.seen[s] THEN x.id[s] ELSE n.seen[s])
  /\ (s \in first' <=> s \in n.first) /\ (s \in resetHere' <=> s \in n.reset)

\* A cursor never moves back.
LEMMA MergeFacts ==
  ASSUME NEW c \in Offsets, NEW d \in Offsets
  PROVE  /\ Merge(c, d) \in Offsets
         /\ \A s \in Streams : Merge(c, d)[s] = IF d[s] > c[s] THEN d[s] ELSE c[s]
BY DEF Merge, Offsets

\* What a frame does to the page: a batch is taken, a reset empties its stream, and the cursor
\* moves to the frame's id.
LEMMA FrameEffect ==
  ASSUME FollowInv, Receive, NEW x, x = Head(wire)
  PROVE  /\ x = wire[1] /\ x \in FrameSet /\ wire # << >> /\ es = "open"
         /\ first' \in SUBSET Streams /\ resetHere' \in SUBSET Streams
         /\ seen' \in Offsets /\ view' \in [Streams -> Seq(Rec)]
         /\ \/ es' = es /\ status' \in {status, "endPending"}
            \/ es' = "none" /\ status' = "ended"
         /\ \A s \in Streams :
              /\ Resets(x, s) => seen'[s] = 0 /\ view'[s] = << >>
              /\ ~Resets(x, s) => Told(x, s, TakeRecords(Paged, Items(x)))
<1>1. wire \in Seq(FrameSet) /\ wire # << >> /\ es = "open" /\ Paged \in PageSet /\ seen \in Offsets
      /\ first \in SUBSET Streams /\ resetHere \in SUBSET Streams /\ view \in [Streams -> Seq(Rec)]
  BY DEF FollowInv, StreamTypes, ServerTypes, PageTypes, Receive, Paged, PageSet
<1>2. x = wire[1] /\ x \in FrameSet
  BY <1>1, TailFacts
<1>3. x.id \in Offsets
  BY <1>2, FrameTyped DEF Streams
<1>4. TakeRecords(Paged, << >>) = Paged
  BY TakenDef DEF TakeRecords
<1>5. CASE x.type = "batch"
  <2> DEFINE p == TakeRecords(Paged, x.data)
  <2>1. TakeBatch(x)
    BY <1>5 DEF Receive
  <2>2. /\ first' = p.first /\ resetHere' = p.reset /\ view' = p.view
        /\ seen' = Merge(p.seen, x.id) /\ UNCHANGED <<status, es>>
    BY <2>1 DEF TakeBatch, Paged
  <2>3. Items(x) = x.data /\ x.data \in Seq(Item) /\ \A s \in Streams : ~Resets(x, s)
    BY <1>2, <1>5, FrameKinds
  <2>4. p \in PageSet
    BY <1>1, <2>3, TakeTyped DEF Streams
  <2> HIDE DEF p
  <2>5. p.first \in SUBSET Streams /\ p.reset \in SUBSET Streams /\ p.seen \in Offsets /\ p.view \in [Streams -> Seq(Rec)]
    BY <2>4 DEF PageSet
  <2>6. \A s \in Streams : Told(x, s, p)
    BY <1>3, <2>2, <2>5, MergeFacts DEF Told
  <2>7. seen' \in Offsets
    BY <1>3, <2>2, <2>5, MergeFacts
  <2> QED BY <1>1, <1>2, <2>2, <2>3, <2>5, <2>6, <2>7 DEF p
<1>6. CASE x.type # "batch"
  <2>1. TakeSys(x)
    BY <1>6 DEF Receive
  <2>2. \/ es' = es /\ status' \in {status, "endPending"}
        \/ es' = "none" /\ status' = "ended"
    BY <2>1 DEF TakeSys
  <2>3. CASE x.type = "reset"
    <3>1. x.data \in Streams /\ Items(x) = << >> /\ \A s \in Streams : Resets(x, s) <=> s = x.data
      BY <1>2, <2>3, FrameKinds
    <3>2. /\ first' = first \cup {x.data} /\ resetHere' = resetHere \cup {x.data}
          /\ seen' = [Merge(seen, x.id) EXCEPT ![x.data] = 0]
          /\ view' = [view EXCEPT ![x.data] = << >>]
      BY <2>1, <2>3 DEF TakeSys
    <3>3. Merge(seen, x.id) \in Offsets
      BY <1>1, <1>3, MergeFacts
    <3>4. seen' \in Offsets /\ view' \in [Streams -> Seq(Rec)] /\ first' \in SUBSET Streams /\ resetHere' \in SUBSET Streams
      <4> << >> \in Seq(Rec)
        OBVIOUS
      <4> QED BY <1>1, <3>1, <3>2, <3>3 DEF Offsets
    <3>5. seen'[x.data] = 0 /\ view'[x.data] = << >>
      BY <1>1, <3>1, <3>2, <3>3 DEF Offsets
    <3>6. ASSUME NEW s \in Streams, s # x.data PROVE Told(x, s, Paged)
      <4>1. seen'[s] = Merge(seen, x.id)[s] /\ view'[s] = view[s]
        BY <1>1, <3>2, <3>3, <3>6 DEF Offsets
      <4>2. Merge(seen, x.id)[s] = IF x.id[s] > seen[s] THEN x.id[s] ELSE seen[s]
        BY <1>1, <1>3, MergeFacts
      <4> QED BY <3>2, <3>6, <4>1, <4>2 DEF Told, Paged
    <3> QED BY <1>1, <1>2, <1>4, <2>2, <3>1, <3>4, <3>5, <3>6
  <2>4. CASE x.type # "reset"
    <3>1. Items(x) = << >> /\ \A s \in Streams : ~Resets(x, s)
      BY <1>2, <1>6, <2>4, FrameKinds
    <3>2. seen' = Merge(seen, x.id) /\ UNCHANGED <<first, resetHere, view>>
      BY <2>1, <2>4 DEF TakeSys
    <3>3. seen' \in Offsets /\ \A s \in Streams : seen'[s] = IF x.id[s] > seen[s] THEN x.id[s] ELSE seen[s]
      BY <1>1, <1>3, <3>2, MergeFacts
    <3>4. \A s \in Streams : Told(x, s, Paged)
      BY <3>2, <3>3 DEF Told, Paged
    <3> QED BY <1>1, <1>2, <1>4, <2>2, <3>1, <3>2, <3>3, <3>4
  <2> QED BY <2>3, <2>4
<1> QED BY <1>5, <1>6

\* A stream that is not misread, or no longer: the frame that arrives goes on from where the page stands.
LEMMA FirstLink ==
  ASSUME FollowInv, Receive, NEW s \in Streams, s \notin misread'
  PROVE  Link(file[s], wire, Origin[s], s, 1) /\ (s \in misread => Resets(wire[1], s)) /\ CleanAt(wire, adrift, s, 1)
<1>1. wire \in Seq(FrameSet) /\ wire # << >> /\ misread' = {t \in misread : ~StartsClean(t)} /\ Head(wire) = wire[1]
      /\ 1 \in 1..Len(wire)
  BY FollowFacts, TailFacts DEF Receive, Wired
<1>2. CASE s \notin misread
  <2>1. CleanAt(wire, adrift, s, 1)
    BY <1>2, FollowFacts DEF CleanAt
  <2>2. Clean(file[s], wire, Origin[s], s, 1)
    BY <2>1 DEF FollowInv, Served
  <2> QED BY <1>1, <1>2, <2>1, <2>2 DEF Clean
<1>3. CASE s \in misread
  <2>1. Resets(wire[1], s) /\ s \notin adrift /\ \A i \in 2..Len(wire) : ~Resets(wire[i], s)
    BY <1>1, <1>3 DEF StartsClean
  <2>2. 1 \in ResetsIn(wire, s) /\ \A k \in ResetsIn(wire, s) : k <= 1
    BY <1>1, <2>1 DEF ResetsIn
  <2>3. CleanAt(wire, adrift, s, 1)
    BY <2>1, <2>2 DEF CleanAt
  <2>4. Clean(file[s], wire, Origin[s], s, 1)
    BY <2>3 DEF FollowInv, Served
  <2> QED BY <1>1, <2>1, <2>3, <2>4 DEF Clean
<1> QED BY <1>2, <1>3

\* What is left on its way goes on from the frame that has arrived.
LEMMA ReceiveServed ==
  ASSUME FollowInv, Receive, es' # "none", NEW s \in Streams
  PROVE  Served(s)'
<1> DEFINE T == Tail(wire)
           x == wire[1]
<1>1. wire \in Seq(FrameSet) /\ wire # << >> /\ Head(wire) = x /\ x \in FrameSet /\ Len(wire) \in Nat
      /\ Len(T) = Len(wire) - 1 /\ \A i \in 1..(Len(wire) - 1) : T[i] = wire[i + 1]
  BY FollowFacts, TailFacts DEF Receive, Wired
<1>2. x.id # NoId
  BY <1>1, FrameTyped, IdNoId DEF Streams
<1>3. /\ wire' = T /\ up' = up /\ lastId' = x.id /\ UNCHANGED <<run, cursor, adrift>>
      /\ Origin' = x.id
  BY <1>1, <1>2 DEF Receive, Origin
<1> SUFFICES ASSUME NEW m \in Nat \ {0}, CleanAt(wire, adrift, s, m)'
             PROVE  /\ Clean(file[s], T, x.id[s], s, m)
                    /\ up # "down" => Reach(file[s], T, x.id[s], s, << >>, cursor[s])
  BY <1>3 DEF Served, run
<1>4. PICK n \in 1..(m + 1) : CleanAt(wire, adrift, s, n)
  <2>1. CASE m = 1 /\ s \notin misread'
    <3> CleanAt(wire, adrift, s, 1) /\ 1 \in 1..(m + 1)
      BY <2>1, FirstLink
    <3> QED OBVIOUS
  <2>2. CASE m \in ResetsIn(wire', s) /\ s \notin adrift' /\ \A k \in ResetsIn(wire', s) : k <= m
    <3>1. m \in ResetsIn(T, s) /\ s \notin adrift /\ \A k \in ResetsIn(T, s) : k <= m
      BY <1>3, <2>2
    <3> HIDE DEF T
    <3>2. m + 1 \in ResetsIn(wire, s)
      BY <1>1, <3>1 DEF ResetsIn
    <3>3. ASSUME NEW k \in ResetsIn(wire, s) PROVE k <= m + 1
      <4>1. k \in 1..Len(wire) /\ Resets(wire[k], s)
        BY <3>3 DEF ResetsIn
      <4>2. CASE k = 1
        BY <4>2
      <4>3. CASE k # 1
        <5>1. k - 1 \in 1..Len(T) /\ T[k - 1] = wire[k]
          <6> k - 1 \in 1..(Len(wire) - 1) /\ (k - 1) + 1 = k
            BY <1>1, <4>1, <4>3
          <6> QED BY <1>1
        <5>2. k - 1 \in ResetsIn(T, s)
          BY <4>1, <5>1 DEF ResetsIn
        <5>3. k - 1 <= m
          BY <3>1, <5>2
        <5> QED BY <4>1, <5>3
      <4> QED BY <4>2, <4>3
    <3>4. CleanAt(wire, adrift, s, m + 1)
      BY <3>1, <3>2, <3>3 DEF CleanAt
    <3> QED BY <3>4
  <2> QED BY <2>1, <2>2 DEF CleanAt
<1>5. /\ Clean(file[s], wire, Origin[s], s, n)
      /\ up # "down" => Reach(file[s], wire, Origin[s], s, << >>, cursor[s])
  <2> n \in Nat \ {0}
    OBVIOUS
  <2> QED BY <1>4 DEF FollowInv, Served
<1> QED BY <1>1, <1>5, TailLinks

\* The page shows what its cursor covers, once the frame has arrived.
LEMMA ReceiveShown ==
  ASSUME FollowInv, Receive, NEW s \in Streams, s \notin misread'
  PROVE  Shown(s)'
<1> DEFINE x == wire[1]
           pg == Paged
           e == TakeRecords(pg, Items(x))
           f == file[s]
<1>1. /\ x \in FrameSet /\ wire \in Seq(FrameSet) /\ wire # << >> /\ Head(wire) = x /\ es = "open"
      /\ Len(wire) \in Nat /\ Tail(wire) \in Seq(FrameSet)
      /\ Len(Tail(wire)) = Len(wire) - 1 /\ \A i \in 1..(Len(wire) - 1) : Tail(wire)[i] = wire[i + 1]
  BY FollowFacts, TailFacts DEF Receive, Wired
<1>2. /\ Resets(x, s) => seen'[s] = 0 /\ view'[s] = << >>
      /\ ~Resets(x, s) => Told(x, s, e)
  BY <1>1, FrameEffect
<1>3. Link(f, wire, Origin[s], s, 1) /\ (s \in misread => Resets(x, s))
  BY FirstLink
<1>4. x.id \in Offsets /\ x.id[s] \in Nat /\ Items(x) \in Seq(Item) /\ x.id # NoId
  BY <1>1, FrameTyped, IdNoId
<1>5. Origin' = x.id /\ file' = file /\ wire' = (IF es' = "none" THEN << >> ELSE Tail(wire))
  BY <1>1, <1>4 DEF Receive, Origin, run
<1>6. f \in Text /\ Origin[s] \in Nat /\ RecordsTo(f)[0] = << >>
  BY FollowFacts, RecordsZero
<1>7. CASE Resets(x, s)
  <2>1. x.id[s] = 0
    BY <1>3, <1>7 DEF Link
  <2>2. Level(file'[s], Origin'[s], seen'[s], s, first', resetHere')
    BY <1>2, <1>5, <1>7, <2>1 DEF Level
  <2> QED BY <1>2, <1>5, <1>6, <1>7, <2>2 DEF Shown, Standing, LineEnd
<1>8. CASE ~Resets(x, s)
  <2>1. s \notin misread /\ Shown(s) /\ Told(x, s, e)
    BY <1>2, <1>3, <1>8 DEF FollowInv
  <2>2. LineEnd(f, seen[s]) /\ view[s] = RecordsTo(f)[seen[s]] /\ Level(f, Origin[s], seen[s], s, first, resetHere)
    BY <1>1, <1>8, <2>1 DEF Shown, Standing
  <2>3. pg \in PageSet /\ pg.seen = seen /\ pg.view = view /\ pg.first = first /\ pg.reset = resetHere
    BY DEF FollowInv, StreamTypes, PageTypes, Paged, PageSet
  <2>4. e \in PageSet /\ e.seen[s] \in Nat
    <3>1. e \in PageSet
      BY <1>4, <2>3, TakeTyped
    <3> HIDE DEF e
    <3> QED BY <3>1 DEF PageSet, Offsets
  <2> HIDE DEF pg
  <2>5. CASE x.id[s] = 0 /\ Free(Items(x), s) /\ 1 < Len(wire) /\ Resets(wire[2], s)
    <3>1. e.seen[s] = seen[s] /\ e.view[s] = view[s]
      BY <1>4, <2>3, <2>5, TakeTyped
    <3>2. seen'[s] = seen[s] /\ view'[s] = view[s]
      BY <2>1, <2>4, <2>5, <3>1 DEF Told
    <3>3. es' # "none" => wire' # << >> /\ Resets(wire'[1], s)
      <4>1. 1 \in 1..(Len(wire) - 1) /\ 1 + 1 = 2
        BY <1>1, <2>5
      <4>2. Tail(wire)[1] = wire[2]
        BY <1>1, <4>1
      <4>3. Tail(wire) # << >>
        <5>1. Len(Tail(wire)) # 0
          BY <1>1, <2>5
        <5>2. Len(<< >>) = 0
          OBVIOUS
        <5> QED BY <5>1, <5>2, Zenon
      <4> QED BY <1>5, <2>5, <4>2, <4>3
    <3> QED BY <1>5, <2>2, <2>5, <3>2, <3>3 DEF Shown, Standing
  <2>6. CASE /\ LineEnd(f, x.id[s]) /\ From(wire, Origin[s], s, 1) <= x.id[s]
             /\ Covers(f, Items(x), s, From(wire, Origin[s], s, 1), x.id[s])
    <3> DEFINE q == x.id[s]
               n == IF q > e.seen[s] THEN q ELSE e.seen[s]
    <3>1. From(wire, Origin[s], s, 1) = Origin[s]
      BY DEF From
    <3> HIDE DEF x
    <3>2. LineEnd(f, n) /\ e.view[s] = RecordsTo(f)[n] /\ Level(f, q, n, s, e.first, e.reset)
      BY <1>4, <1>6, <2>2, <2>3, <2>6, <3>1, TakeFacts
    <3>3. seen'[s] = n /\ view'[s] = e.view[s] /\ (s \in first' <=> s \in e.first) /\ (s \in resetHere' <=> s \in e.reset)
      BY <2>1 DEF Told
    <3> HIDE DEF n, e
    <3>4. Level(f, q, n, s, first', resetHere')
      BY <3>2, <3>3 DEF Level
    <3> QED BY <1>5, <3>2, <3>3, <3>4 DEF Shown, Standing
  <2> QED BY <1>3, <1>8, <2>5, <2>6 DEF Link
<1> QED BY <1>7, <1>8

\* A frame that arrives keeps the invariant.
LEMMA ReceiveFollow ==
  ASSUME FollowInv, Receive
  PROVE  FollowInv'
<1> DEFINE x == Head(wire)
<1>1. /\ x = wire[1] /\ x \in FrameSet /\ wire # << >> /\ es = "open"
      /\ first' \in SUBSET Streams /\ resetHere' \in SUBSET Streams
      /\ seen' \in Offsets /\ view' \in [Streams -> Seq(Rec)]
      /\ \/ es' = es /\ status' \in {status, "endPending"}
         \/ es' = "none" /\ status' = "ended"
  BY FrameEffect
<1>2. /\ lastId' = x.id /\ wire' = (IF es' = "none" THEN << >> ELSE Tail(wire))
      /\ up' = (IF es' = "none" THEN "down" ELSE up)
      /\ misread' = {s \in misread : ~StartsClean(s)}
      /\ UNCHANGED <<run, read, pend, cursor, ended, quiet, hitches, base, ask, adrift>>
  BY DEF Receive
<1>3. x.id \in Offsets
  BY <1>1, FrameTyped DEF Streams
<1> HIDE DEF x
<1>4. wire' \in Seq(FrameSet)
  <2> wire \in Seq(FrameSet) /\ << >> \in Seq(FrameSet)
    BY FollowFacts DEF Wired
  <2> QED BY <1>1, <1>2, TailFacts
<1>5. StreamTypes'
  <2>1. RunTypes' /\ ServerTypes'
    BY <1>2, <1>4 DEF FollowInv, StreamTypes, RunTypes, ServerTypes, run
  <2>2. PageTypes'
    BY <1>1, <1>2, <1>3 DEF FollowInv, StreamTypes, PageTypes
  <2>3. HistoryTypes'
    BY <1>2 DEF FollowInv, StreamTypes, HistoryTypes, StartsClean
  <2> QED BY <2>1, <2>2, <2>3 DEF StreamTypes
<1>6. Phases'
  BY <1>1, <1>2 DEF FollowInv, Phases
<1>7. Tails' /\ Asked'
  BY <1>2 DEF FollowInv, Tails, Asked, run
<1>8. ASSUME NEW s \in Streams PROVE Served(s)'
  <2>1. CASE es' = "none"
    BY <1>2, <2>1, GoneServed
  <2>2. CASE es' # "none"
    BY <2>2, ReceiveServed
  <2> QED BY <2>1, <2>2
<1> QED BY <1>5, <1>6, <1>7, <1>8, ReceiveShown DEF FollowInv

\* No step breaks the invariant.
LEMMA FollowInductive == Spec => []FollowInv
<1>1. FollowInv /\ [Next]_vars => FollowInv'
  <2> SUFFICES ASSUME FollowInv, [Next]_vars PROVE FollowInv'
    OBVIOUS
  <2>1. CASE Engine
    BY <2>1, EngineFollow
  <2>2. ASSUME NEW ids \in {{"e"}, {"j"}, {"e", "j"}}, Drain(ids) PROVE FollowInv'
    BY <2>2, DrainFollow
  <2>3. CASE StateTick
    BY <2>3, TickFollow
  <2>4. CASE TimePasses
    BY <2>4, TimeFollow
  <2>5. CASE Receive
    BY <2>5, ReceiveFollow
  <2>6. CASE Settle
    BY <2>6, SettleFollow
  <2>7. CASE ServerCloses
    BY <2>7, ServerClosesFollow
  <2>8. CASE Reconnect
    BY <2>8, ReconnectFollow
  <2>9. CASE Drop
    BY <2>9, DropFollow
  <2>10. CASE Poll
    BY <2>10, PollFollow
  <2>11. CASE Answer
    BY <2>11, AnswerFollow
  <2>12. CASE RequestFails
    BY <2>12, FailFollow
  <2>13. CASE UNCHANGED vars
    <3> USE <2>13 DEF vars, run, server, client, history
    <3>1. StreamTypes' /\ Phases' /\ Tails' /\ Asked' /\ Origin' = Origin
      BY DEF FollowInv, StreamTypes, RunTypes, ServerTypes, PageTypes, HistoryTypes, Phases, Tails, Asked, Origin
    <3>2. \A s \in Streams : Served(s) => Served(s)'
      BY <3>1 DEF Served, CleanAt
    <3>3. \A s \in Streams : Shown(s) => Shown(s)'
      BY <3>1 DEF Shown, Standing
    <3> QED BY <3>1, <3>2, <3>3 DEF FollowInv
  <2> QED
    BY <2>1, <2>2, <2>3, <2>4, <2>5, <2>6, <2>7, <2>8, <2>9, <2>10, <2>11, <2>12, <2>13
    DEF Next, Page, Asking, Engine
<1> QED BY <1>1, InitFollow, PTL DEF Spec

\* Whatever connection is dropped, wherever the next one starts and whatever the engine wrote
\* meanwhile: the page's cursor is exact (ClientStream's cursor, StreamConnection's frame ids).
THEOREM PageIsExact == Spec => []CursorIsExact
<1>1. FollowInv => CursorIsExact
  <2> SUFFICES ASSUME FollowInv, NEW s \in Streams \ misread
               PROVE  seen[s] <= Size(s) /\ view[s] = Records(SubSeq(file[s], 1, seen[s]))
    BY DEF CursorIsExact
  <2>1. LineEnd(file[s], seen[s]) /\ view[s] = RecordsTo(file[s])[seen[s]] /\ file[s] \in Text
    BY FollowFacts DEF FollowInv, Shown
  <2>2. seen[s] \in 0..Len(file[s])
    BY <2>1 DEF LineEnd, Text
  <2> QED BY <2>1, <2>2, RecordsPrefix DEF Size
<1> QED BY <1>1, FollowInductive, PTL

\* Every variable of the stream keeps its type.
THEOREM StreamTyped == Spec => []TypeOK
<1>1. FollowInv => TypeOK
  <2> SUFFICES ASSUME FollowInv PROVE TypeOK
    OBVIOUS
  <2>1. status = "ended" => es = "none" /\ up = "down"
    BY DEF FollowInv, Phases
  <2> QED BY <2>1 DEF FollowInv, StreamTypes, RunTypes, ServerTypes, PageTypes, HistoryTypes, Phases, Offsets, TypeOK
<1> QED BY <1>1, FollowInductive, PTL

-----------------------------------------------------------------------------
\* Prefixes, cell by cell.
LEMMA PrefixIs ==
  ASSUME NEW S, NEW v \in Seq(S), NEW w \in Seq(S)
  PROVE  Feed!IsPrefix(v, w) <=> Len(v) <= Len(w) /\ \A i \in 1..Len(v) : v[i] = w[i]
<1>1. Len(v) \in Nat /\ Len(w) \in Nat
  OBVIOUS
<1>2. Len(v) <= Len(w) =>
        /\ SubSeq(v, 1, Len(v)) \in Seq(S) /\ Len(SubSeq(v, 1, Len(v))) = Len(v)
        /\ SubSeq(w, 1, Len(v)) \in Seq(S) /\ Len(SubSeq(w, 1, Len(v))) = Len(v)
        /\ \A i \in 1..Len(v) : SubSeq(v, 1, Len(v))[i] = v[i] /\ SubSeq(w, 1, Len(v))[i] = w[i]
  BY <1>1
<1>3. ASSUME Len(v) <= Len(w), \A i \in 1..Len(v) : v[i] = w[i] PROVE SubSeq(v, 1, Len(v)) = SubSeq(w, 1, Len(v))
  BY <1>1, <1>3
<1>4. ASSUME Len(v) <= Len(w), SubSeq(v, 1, Len(v)) = SubSeq(w, 1, Len(v)), NEW i \in 1..Len(v) PROVE v[i] = w[i]
  BY <1>2, <1>4
<1> QED BY <1>3, <1>4 DEF Feed!IsPrefix

\* What a file shows up to a cell begins what it shows in all.
LEMMA RecordsBegin ==
  ASSUME NEW f \in Text, NEW a \in 0..Len(f)
  PROVE  Feed!IsPrefix(RecordsTo(f)[a], Records(f))
<1> DEFINE R == RecordsTo(f)
           Pre(v, w) == Len(v) <= Len(w) /\ \A i \in 1..Len(v) : v[i] = w[i]
           S == {n \in Nat : a <= n /\ n <= Len(f) => Pre(R[a], R[n])}
<1>1. Len(f) \in Nat /\ \A p \in 0..Len(f) : R[p] \in Seq(Rec)
  BY RecordsTyped DEF Text
<1>2. \A p \in 1..Len(f) : R[p] = IF Shows(f, p) THEN Append(R[p - 1], f[p][1]) ELSE R[p - 1]
  BY <1>1, RecordsToDef
<1>3. \A p \in 1..Len(f) : f[p][1] \in Rec
  BY ShowsFacts
<1> HIDE DEF R
<1>4. \A n \in Nat : n \in S
  <2>1. 0 \in S
    <3> SUFFICES ASSUME a <= 0 PROVE Pre(R[a], R[0])
      BY DEF S
    <3> a = 0
      OBVIOUS
    <3> R[0] \in Seq(Rec)
      BY <1>1
    <3> QED OBVIOUS
  <2>2. ASSUME NEW n \in Nat, n \in S PROVE n + 1 \in S
    <3> SUFFICES ASSUME a <= n + 1, n + 1 <= Len(f) PROVE Pre(R[a], R[n + 1])
      BY DEF S
    <3>1. R[a] \in Seq(Rec) /\ R[n + 1] \in Seq(Rec) /\ R[n] \in Seq(Rec) /\ n + 1 \in 1..Len(f)
      BY <1>1
    <3>2. CASE a = n + 1
      BY <3>1, <3>2
    <3>3. CASE a # n + 1
      <4>1. Pre(R[a], R[n])
        BY <2>2, <3>3
      <4>2. (n + 1) - 1 = n
        OBVIOUS
      <4>3. R[n + 1] = R[n] \/ R[n + 1] = Append(R[n], f[n + 1][1])
        BY <1>2, <3>1, <4>2
      <4>4. f[n + 1][1] \in Rec
        BY <1>3, <3>1
      <4>5. Pre(R[n], R[n + 1])
        BY <3>1, <4>3, <4>4
      <4> QED BY <3>1, <4>1, <4>5
    <3> QED BY <3>2, <3>3
  <2> HIDE DEF S
  <2>3. S \in SUBSET Nat
    BY DEF S
  <2> QED BY <2>1, <2>2, <2>3, Climb
<1>5. Pre(R[a], R[Len(f)])
  BY <1>1, <1>4
<1> QED BY <1>1, <1>5, PrefixIs DEF R, Records

\* The items of the abstract feed are the records of the files.
LEMMA ItemsAreRecords == ItemsOfFeed = Rec
BY DEF ItemsOfFeed, Rec

\* The abstract log: what the files show.
Logs == [s \in Streams |-> Records(file[s])]

\* The logs that files show.
LEMMA LogsTyped ==
  ASSUME NEW g \in [Streams -> Text]
  PROVE  [s \in Streams |-> Records(g[s])] \in [Streams -> Seq(Rec)]
<1> \A s \in Streams : Records(g[s]) \in Seq(Rec)
  <2> TAKE s \in Streams
  <2> g[s] \in Text /\ Len(g[s]) \in Nat
    BY DEF Text
  <2> QED BY RecordsTyped DEF Records
<1> QED OBVIOUS

\* The initial states are those of the feed.
LEMMA InitFeed == Init => Feed!FeedInit
<1> SUFFICES ASSUME Init PROVE Feed!FeedInit
  OBVIOUS
<1> DEFINE r == [kind |-> "private", n |-> 1, by |-> 0]
           f == Line(r)
<1>1. /\ file["j"] = f /\ file["e"] = << >> /\ r \in Rec
  BY DEF Init, Streams, Rec
<1>2. f \in Text /\ Len(f) = 2 /\ f[1] = <<r, "body">> /\ f[2] = <<r, "newline">>
  BY <1>1, LineTyped
<1> HIDE DEF f
<1>3. \A p \in 1..2 : ~Shows(f, p)
  <2>1. ~Shows(f, 1)
    BY <1>2 DEF Shows, Parses, EndsLine
  <2>2. ~Shows(f, 2)
    BY <1>2 DEF Shows, Forwarded
  <2> QED BY <2>1, <2>2
<1>4. RecordsTo(f)[0] = RecordsTo(f)[2]
  <2> 0 \in 0..Len(f) /\ 2 \in 0..Len(f)
    BY <1>2
  <2> \A p \in (0 + 1)..2 : ~Shows(f, p)
    BY <1>3
  <2> QED BY <1>2, RecordsGap
<1>5. Records(f) = << >>
  BY <1>2, <1>4, RecordsZero DEF Records
<1>6. Records(<< >>) = << >>
  <2> << >> \in Text /\ Len(<< >>) = 0
    BY DEF Text
  <2> QED BY RecordsZero DEF Records
<1>7. \A s \in Streams : Records(file[s]) = << >>
  BY <1>1, <1>5, <1>6 DEF Streams
<1> QED BY <1>7 DEF Init, Feed!FeedInit

\* An engine writes to one file at a time.
LEMMA EngineOne ==
  ASSUME RunTypes, Engine
  PROVE  \E s \in Streams : \A t \in Streams \ {s} : file'[t] = file[t]
<1> "e" \in Streams /\ "j" \in Streams /\ file \in [Streams -> Text]
  BY DEF Streams, RunTypes
<1>1. file' = file \/ \E s \in Streams : \E g : file' = [file EXCEPT ![s] = g]
  BY Zenon DEF Engine, Open, Write, End, Release, Crash, Resume, Append1
<1>2. CASE file' = file
  BY <1>2
<1>3. ASSUME NEW s \in Streams, NEW g, file' = [file EXCEPT ![s] = g]
      PROVE  \A t \in Streams \ {s} : file'[t] = file[t]
  BY <1>3
<1> QED BY <1>1, <1>2, <1>3

\* A step of the engine extends one log, or is no step of the feed.
LEMMA EngineFeed ==
  ASSUME FollowInv, FollowInv', Engine
  PROVE  [Feed!FeedNext]_(Feed!feedVars)
<1>1. RunTypes /\ file \in [Streams -> Text] /\ file' \in [Streams -> Text] /\ UNCHANGED <<view, misread>>
  BY DEF FollowInv, StreamTypes, RunTypes, Engine, Open, Write, End, Release, Crash, Resume, client, history
<1>2. \A t \in Streams : Grows(file[t], file'[t])
  BY <1>1, EngineFiles
<1>3. Logs \in [Streams -> Seq(Rec)] /\ Logs' \in [Streams -> Seq(Rec)]
  BY <1>1, LogsTyped DEF Logs
<1>4. ASSUME NEW t \in Streams PROVE Feed!IsPrefix(Logs[t], Logs'[t])
  <2> DEFINE f == file[t]
             g == file'[t]
  <2>1. f \in Text /\ g \in Text /\ Grows(f, g) /\ Len(g) \in Nat
    BY <1>1, <1>2 DEF Text
  <2>2. Logs[t] = Records(f) /\ Logs'[t] = Records(g)
    BY DEF Logs
  <2> HIDE DEF f, g
  <2>3. LineEnd(f, LastEnd(f)) /\ LastEnd(f) \in 0..Len(g)
    BY <2>1, LastEndFacts DEF Grows, Text
  <2>4. Records(f) = RecordsTo(g)[LastEnd(f)]
    BY <2>1, <2>3, GrowsFacts, RecordsComplete
  <2> QED BY <2>1, <2>2, <2>3, <2>4, RecordsBegin
<1>5. PICK s \in Streams : \A t \in Streams \ {s} : file'[t] = file[t]
  BY <1>1, EngineOne
<1>6. \A t \in Streams \ {s} : Logs'[t] = Logs[t]
  BY <1>5 DEF Logs
<1>7. CASE Logs'[s] = Logs[s]
  <2> Logs' = Logs
    BY <1>3, <1>6, <1>7
  <2> QED BY <1>1 DEF Feed!feedVars, Logs
<1>8. CASE Logs'[s] # Logs[s]
  <2>1. Feed!IsStrictPrefix(Logs[s], Logs'[s])
    BY <1>4, <1>8 DEF Feed!IsStrictPrefix
  <2>2. Feed!Record(s)
    BY <1>1, <1>3, <1>6, <2>1, ItemsAreRecords DEF Feed!Record, Logs
  <2> QED BY <2>2 DEF Feed!FeedNext
<1> QED BY <1>7, <1>8

\* What does not touch the files is a view going on.
LEMMA ShowFeed ==
  ASSUME FollowInv', UNCHANGED file, misread' \subseteq misread
  PROVE  Feed!FeedNext
<1>1. view' \in [Streams -> Seq(Rec)]
  BY DEF FollowInv, StreamTypes, PageTypes
<1>2. ASSUME NEW s \in Streams \ misread' PROVE Feed!IsPrefix(view'[s], Records(file[s]))
  <2>1. LineEnd(file'[s], seen'[s]) /\ view'[s] = RecordsTo(file'[s])[seen'[s]] /\ file'[s] \in Text
    BY DEF FollowInv, Shown, StreamTypes, RunTypes
  <2>2. seen'[s] \in 0..Len(file'[s])
    BY <2>1 DEF LineEnd, Text
  <2> QED BY <2>1, <2>2, RecordsBegin
<1>3. Feed!Show
  BY <1>1, <1>2, ItemsAreRecords DEF Feed!Show
<1> QED BY <1>3 DEF Feed!FeedNext

\* The stream and the page implement the abstract feed: every step is one of its steps, or none.
THEOREM PageFollows == Spec => Follows
<1>1. FollowInv /\ FollowInv' /\ [Next]_vars => [Feed!FeedNext]_(Feed!feedVars)
  <2> SUFFICES ASSUME FollowInv, FollowInv', [Next]_vars PROVE [Feed!FeedNext]_(Feed!feedVars)
    OBVIOUS
  <2>1. CASE Engine
    BY <2>1, EngineFeed
  <2>2. ASSUME NEW ids \in {{"e"}, {"j"}, {"e", "j"}}, Drain(ids) PROVE Feed!FeedNext
    <3>1. UNCHANGED <<file, view>> /\ misread \subseteq misread'
      BY <2>2 DEF Drain, run, client
    <3>2. misread' \subseteq Streams
      BY DEF FollowInv, StreamTypes, HistoryTypes
    <3> QED BY <3>1, <3>2 DEF Feed!FeedNext, Feed!Overtake
  <2>3. CASE Receive
    <3>1. UNCHANGED file /\ misread' \subseteq misread
      BY <2>3 DEF Receive, run
    <3> QED BY <3>1, ShowFeed
  <2>4. CASE Answer
    <3>1. UNCHANGED file /\ misread' \subseteq misread
      BY <2>4 DEF Answer, run, history
    <3> QED BY <3>1, ShowFeed
  <2>5. CASE StateTick \/ TimePasses \/ Settle \/ ServerCloses \/ Reconnect \/ Drop \/ Poll \/ RequestFails \/ UNCHANGED vars
    <3>1. UNCHANGED file /\ misread' \subseteq misread
      BY <2>5 DEF StateTick, TimePasses, Settle, ServerCloses, Reconnect, Accept, Drop, Poll, RequestFails, run, history, vars
    <3> QED BY <3>1, ShowFeed
  <2> QED BY <2>1, <2>2, <2>3, <2>4, <2>5 DEF Next, Page, Asking, Engine
<1> QED BY <1>1, InitFeed, FollowInductive, PTL DEF Spec, Follows, Feed!FeedSpec
=============================================================================
