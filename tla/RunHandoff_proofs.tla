-------------------------- MODULE RunHandoff_proofs --------------------------
(***************************************************************************)
(* For every number of launches, deletes and observers: an engine owns its *)
(* run alone, no observer costs a launch its mark, and an accepted resume  *)
(* is not deleted, outside the two cases the property names; with one      *)
(* delete, a child loses its run only to one that moved it.  For every     *)
(* number of contenders and crashes: a live process's lock is not lost,    *)
(* there is one engine, it is reached, and without a crash they do not all *)
(* refuse each other, until a third took the lock from one of two and a    *)
(* window between two calls was hit, or the contenders are a crowd.        *)
(***************************************************************************)
EXTENDS RunHandoff, RunLock, FiniteSetTheorems, TLAPS

DelStates == {"idle", "pre", "lock", "baseline", "check", "rename", "audit", "release",
              "restored", "deleted", "refused", "rolledBack"}

Types ==
    /\ where \in {"runs", "trash"}
    /\ lock \in Launchers \cup Deleters \cup {None}
    /\ marker \in Mark \cup {None}
    /\ claims \subseteq Observers \X Mark
    /\ launch \in [Launchers -> {"idle", "tmp", "renamed", "accepted", "refused"}]
    /\ child \in [Launchers -> {"none", "owns", "running", "over", "lost"} \cup Waiting]
    /\ del \in [Deleters -> DelStates]
    /\ baseline = [d \in Deleters |-> baseline[d]]
    /\ look \in [Observers -> {"off", "starting", "quiet"} \cup Looking]
    /\ holding \in [Observers -> Mark \cup {None}]
    /\ cleared \subseteq Launchers /\ moved \in BOOLEAN

\* A delete that has the lock.
Late == {"baseline", "check", "rename", "audit", "release", "restored"}

\* The lock is its owner's, and only its owner moves the directory; what is deleted
\* is nobody's any more.
Locked ==
    /\ \A l \in Launchers : Owns(l) => lock = l /\ InPlace
    /\ \A d \in Deleters : del[d] \in Late => lock = d /\ (InPlace <=> del[d] # "audit")
    /\ Deleted => ~InPlace /\ lock = None

\* An observer that moves a mark of a launcher finds the name of the marker free, or
\* taken by another launcher: the aged marker is no more.
AgedIsGone == YoungMarks # {} => marker # Aged

Good == cleared = {} /\ ~moved
OnMarker == {<<"marker", None, m>> : m \in Launchers}

\* While no engine cleared it and no observer moved it, a launcher's marker stays; a
\* delete that had it in its baseline has seen it as well, and does not go on.
Watched ==
    Good =>
        /\ \A l \in Launchers : launch[l] \in {"renamed", "accepted"} => marker \in Launchers
        /\ \A d \in Deleters : del[d] \in {"check", "rename", "audit"} /\ baseline[d] \cap OnMarker # {} =>
               del[d] = "check" /\ look[d] \in {"read", "starting"} /\ marker \in Launchers
        /\ Deleted => marker \notin Launchers

IInv == Types /\ Locked /\ AgedIsGone /\ Watched
-----------------------------------------------------------------------------
LEMMA InitInv == Init => IInv
<1> SUFFICES ASSUME Init PROVE IInv
    OBVIOUS
<1>1. Types
    BY HandoffAssumption DEF Init, Types, Mark, DelStates
<1>2. Locked /\ ~Deleted
    BY HandoffAssumption DEF Init, Locked, Owns, Deleted, Late
<1>3. AgedIsGone
    BY HandoffAssumption DEF Init, AgedIsGone, YoungMarks
<1>4. Watched
    BY <1>2 DEF Init, Watched
<1> QED
    BY <1>1, <1>2, <1>3, <1>4 DEF IInv

\* The installation of a marker.
LEMMA InstallStep == ASSUME IInv, NEW l \in Launchers, Install(l) PROVE IInv'
<1> USE HandoffAssumption DEF IInv, Types, Locked, AgedIsGone, Watched, Good, OnMarker, Owns, Deleted,
    InPlace, YoungMarks, Mark, childVars, delVars, lookVars, dirVars, Waiting
<1>1. CASE WriteTmp(l)
    BY <1>1 DEF WriteTmp
<1>2. CASE RenameTmp(l)
    BY <1>2 DEF RenameTmp
<1>3. CASE Verify(l)
    BY <1>3 DEF Verify, StillResolves
<1> QED
    BY <1>1, <1>2, <1>3 DEF Install

\* The child, from its first look at the trash to the end of its run.
LEMMA ChildStep ==
    ASSUME IInv, NEW l \in Launchers, ChildWaits(l) \/ ClearMarker(l) \/ ReleaseRun(l)
    PROVE IInv'
<1> USE HandoffAssumption DEF IInv, Types, Locked, AgedIsGone, Watched, Good, OnMarker, Owns, Deleted,
    InPlace, YoungMarks, Mark, childVars, delVars, lookVars, dirVars, launchVars, Waiting
<1>1. CASE ListTrash(l)
    BY <1>1 DEF ListTrash
<1>2. CASE ReadRuns(l)
    BY <1>2 DEF ReadRuns, Again
<1>3. CASE ReadTrash(l)
    BY <1>3 DEF ReadTrash, Again, FinalClaim
<1>4. CASE LoadJournal(l)
    BY <1>4 DEF LoadJournal
<1>5. CASE Claim(l)
    BY <1>5 DEF Claim, LockFree, Late
<1>6. CASE ClearMarker(l)
    BY <1>6 DEF ClearMarker
<1>7. CASE ReleaseRun(l)
    BY <1>7 DEF ReleaseRun, Late
<1> QED
    BY <1>1, <1>2, <1>3, <1>4, <1>5, <1>6, <1>7 DEF ChildWaits

\* An observer's look.
LEMMA ObserverStep ==
    ASSUME IInv, NEW o \in Observers, LookStep(o) \/ (o \in Readers /\ Observe(o))
    PROVE IInv'
<1> USE HandoffAssumption DEF IInv, Types, Locked, AgedIsGone, Watched, Good, OnMarker, Owns, Deleted,
    InPlace, YoungMarks, Mark, Observers, Looking, childVars, delVars, dirVars, launchVars
<1>1. CASE LookRead(o)
    <2>1. Types'
        BY <1>1 DEF LookRead
    <2>2. Locked'
        BY <1>1 DEF LookRead
    <2>3. AgedIsGone'
        BY <1>1 DEF LookRead
    <2>4. Watched'
        <3>1. UNCHANGED <<launch, marker, cleared, moved, del, baseline, where>>
            BY <1>1 DEF LookRead
        <3>2. \A p \in Observers \ {o} : look'[p] = look[p]
            BY <1>1 DEF LookRead
        <3>3. InPlace /\ marker \in Launchers => look'[o] = "starting"
            BY <1>1 DEF LookRead
        <3>4. ASSUME Good, NEW d \in Deleters, del[d] \in {"check", "rename", "audit"},
                     baseline[d] \cap OnMarker # {}
              PROVE del[d] = "check" /\ look'[d] \in {"read", "starting"} /\ marker \in Launchers
            <4>1. del[d] = "check" /\ look[d] \in {"read", "starting"} /\ marker \in Launchers /\ InPlace
                BY <3>4 DEF Late
            <4> QED
                BY <1>1, <3>2, <3>3, <4>1
        <3> QED
            BY <3>1, <3>4
    <2> QED
        BY <2>1, <2>2, <2>3, <2>4
<1>2. CASE LookClaim(o)
    <2>1. Types'
        <3>1. CASE InPlace /\ marker # None
            <4>1. <<o, marker>> \in Observers \X Mark /\ moved' \in BOOLEAN
                BY <1>2, <3>1 DEF LookClaim
            <4>2. claims' = claims \cup {<<o, marker>>} /\ marker' = None /\ UNCHANGED <<where, lock, cleared>>
                BY <1>2, <3>1 DEF LookClaim
            <4> QED
                BY <1>2, <3>1, <4>1, <4>2 DEF LookClaim
        <3>2. CASE ~(InPlace /\ marker # None)
            BY <1>2, <3>2 DEF LookClaim
        <3> QED
            BY <3>1, <3>2
    <2>2. Locked'
        BY <1>2 DEF LookClaim
    <2>3. AgedIsGone'
        BY <1>2 DEF LookClaim
    <2>4. Watched'
        BY <1>2 DEF LookClaim
    <2> QED
        BY <2>1, <2>2, <2>3, <2>4
<1>3. CASE LookJudge(o)
    <2>1. Types'
        BY <1>3 DEF LookJudge, ClaimHeld, MyClaim, SweepsClaim
    <2>2. Locked'
        BY <1>3 DEF LookJudge
    <2>3. AgedIsGone'
        BY <1>3 DEF LookJudge, ClaimHeld, MyClaim, SweepsClaim
    <2>4. Watched'
        <3>1. UNCHANGED <<launch, cleared, moved, del, baseline, where>>
            BY <1>3 DEF LookJudge
        <3>2. \A p \in Observers \ {o} : look'[p] = look[p]
            BY <1>3 DEF LookJudge
        <3>3. marker' = marker \/ (InPlace /\ marker = None /\ marker' = holding[o] /\ holding[o] \in Launchers)
            BY <1>3 DEF LookJudge, SweepsClaim, ClaimHeld, MyClaim
        <3>4. look[o] = "judge"
            BY <1>3 DEF LookJudge
        <3> QED
            BY <3>1, <3>2, <3>3, <3>4
    <2> QED
        BY <2>1, <2>2, <2>3, <2>4
<1>4. CASE LookList(o)
    BY <1>4 DEF LookList
<1>5. CASE LookStat(o)
    BY <1>5 DEF LookStat
<1>6. CASE o \in Readers /\ Observe(o)
    BY <1>6 DEF Observe, StartLook
<1> QED
    BY <1>1, <1>2, <1>3, <1>4, <1>5, <1>6 DEF LookStep

\* The delete.
LEMMA DeleteStep == ASSUME IInv, NEW d \in Deleters, DelStep(d) PROVE IInv'
<1> USE HandoffAssumption DEF IInv, Types, Locked, AgedIsGone, Watched, Good, OnMarker, Owns, Deleted,
    InPlace, YoungMarks, Mark, Observers, DelStates, Late, Looking, childVars, lookVars, dirVars, launchVars
<1>1. CASE DelStart(d)
    <2>1. Types'
        BY <1>1 DEF DelStart, StartLook
    <2>2. Locked'
        BY <1>1 DEF DelStart, StartLook
    <2>3. AgedIsGone'
        BY <1>1 DEF DelStart, StartLook
    <2>4. Watched'
        BY <1>1 DEF DelStart, StartLook
    <2> QED
        BY <2>1, <2>2, <2>3, <2>4
<1>2. CASE DelPre(d)
    BY <1>2 DEF DelPre
<1>3. CASE DelLock(d)
    <2>1. CASE LockFree
        BY <1>3, <2>1 DEF DelLock, LockFree
    <2>2. CASE ~LockFree
        BY <1>3, <2>2 DEF DelLock
    <2> QED
        BY <2>1, <2>2
<1>4. CASE DelBaseline(d)
    <2>1. Types'
        BY <1>4 DEF DelBaseline, StartLook, Marks
    <2>2. Locked'
        BY <1>4 DEF DelBaseline, StartLook, Marks
    <2>3. AgedIsGone'
        BY <1>4 DEF DelBaseline, StartLook, Marks
    <2>4. Watched'
        BY <1>4 DEF DelBaseline, StartLook, Marks
    <2> QED
        BY <2>1, <2>2, <2>3, <2>4
<1>5. CASE DelCheck(d)
    BY <1>5 DEF DelCheck, FoundLive
<1>6. CASE DelRename(d)
    BY <1>6 DEF DelRename
<1>7. CASE DelAudit(d)
    <2>1. Types'
        BY <1>7 DEF DelAudit, Raced, Marks
    <2>2. Locked'
        BY <1>7 DEF DelAudit, Raced, Marks
    <2>3. AgedIsGone'
        BY <1>7 DEF DelAudit, Raced, Marks
    <2>4. Watched'
        <3>1. CASE Raced(d)
            BY <1>7, <3>1 DEF DelAudit
        <3>2. CASE ~Raced(d)
            <4>1. marker \in Launchers => <<"marker", None, marker>> \in baseline[d] \cap OnMarker
                BY <3>2 DEF Raced, Marks
            <4>2. Good => marker \notin Launchers
                BY <1>7, <4>1 DEF DelAudit
            <4> QED
                BY <1>7, <3>2, <4>2 DEF DelAudit
        <3> QED
            BY <3>1, <3>2
    <2> QED
        BY <2>1, <2>2, <2>3, <2>4
<1>8. CASE DelRelease(d)
    BY <1>8 DEF DelRelease
<1> QED
    BY <1>1, <1>2, <1>3, <1>4, <1>5, <1>6, <1>7, <1>8 DEF DelStep

LEMMA IInvStep == IInv /\ [Next]_vars => IInv'
<1>1. IInv /\ UNCHANGED vars => IInv'
    <2> SUFFICES ASSUME IInv, UNCHANGED vars PROVE IInv'
        OBVIOUS
    <2> USE DEF vars, dirVars, launchVars, childVars, delVars, lookVars, IInv, InPlace, Owns, Deleted
    <2>1. Types'
        BY DEF Types
    <2>2. Locked'
        BY DEF Locked
    <2>3. AgedIsGone' /\ Watched'
        BY DEF AgedIsGone, YoungMarks, Watched, Good, OnMarker
    <2> QED
        BY <2>1, <2>2, <2>3
<1>2. IInv /\ Next => IInv'
    BY InstallStep, ChildStep, ObserverStep, DeleteStep DEF Next, Observers
<1> QED
    BY <1>1, <1>2

LEMMA Invariance == Spec => []IInv
    BY InitInv, IInvStep, PTL DEF Spec
-----------------------------------------------------------------------------
\* An engine owns the run alone, whatever launches and deletes do meanwhile.
THEOREM HandoffOwnerIsAlone == Spec => []OwnerIsAlone
<1>1. IInv => OwnerIsAlone
    BY HandoffAssumption DEF IInv, Locked, OwnerIsAlone, Owns, Late
<1> QED
    BY <1>1, Invariance, PTL

\* An accepted resume that has not reached the run is not deleted, unless an engine has
\* cleared the marker it shared, or an observer has moved it.
THEOREM HandoffAcceptedNotDeleted == Spec => []AcceptedNotDeletedUnlessCleared
<1>1. IInv => AcceptedNotDeletedUnlessCleared
    BY DEF IInv, Types, Watched, Good, AcceptedNotDeletedUnlessCleared, Pending
<1> QED
    BY <1>1, Invariance, PTL

\* Whatever its observers do, a launcher's mark stays on disk until an engine owns the run.
THEOREM HandoffReadersKeep == Spec => ReadersKeepTheHandoff
<1> DEFINE Kept == YoungMarks # {} =>
               YoungMarks' # {} \/ cleared' # cleared \/ \E l \in Launchers : Owns(l)
<1>1. IInv /\ [Next]_vars => [Kept]_vars
    <2> SUFFICES ASSUME IInv, Next, YoungMarks # {}, ~\E l \in Launchers : Owns(l)
                 PROVE YoungMarks' # {}
        OBVIOUS
    <2>1. PICK m \in Launchers : marker = m \/ \E o \in Observers : <<o, m>> \in claims
        BY DEF YoungMarks
    <2>2. CASE UNCHANGED <<marker, claims>>
        BY <2>2 DEF YoungMarks
    <2>3. ASSUME NEW l \in Launchers, RenameTmp(l) PROVE YoungMarks' # {}
        BY <2>1, <2>3 DEF RenameTmp, YoungMarks
    <2>4. ASSUME NEW o \in Observers, LookClaim(o) PROVE YoungMarks' # {}
        BY <2>1, <2>4 DEF LookClaim, YoungMarks
    <2>5. ASSUME NEW o \in Observers, LookJudge(o) PROVE YoungMarks' # {}
        <3>1. marker # Aged
            BY DEF IInv, AgedIsGone
        <3>2. CASE ClaimHeld(o) /\ SweepsClaim(o)
            BY <2>1, <2>5, <3>2, HandoffAssumption DEF LookJudge, YoungMarks, MyClaim, SweepsClaim
        <3>3. CASE ClaimHeld(o) /\ ~SweepsClaim(o)
            <4>1. marker' \in Launchers
                BY <2>5, <3>1, <3>3 DEF LookJudge, ClaimHeld, MyClaim, SweepsClaim, IInv, Types, Mark
            <4> QED
                BY <4>1 DEF YoungMarks
        <3>4. CASE ~ClaimHeld(o)
            BY <2>2, <2>5, <3>4 DEF LookJudge
        <3> QED
            BY <3>2, <3>3, <3>4
    <2>6. ASSUME NEW o \in Observers, LookStat(o) PROVE YoungMarks' # {}
        BY <2>1, <2>6, HandoffAssumption DEF LookStat, YoungMarks
    <2>7. ASSUME NEW l \in Launchers, Install(l) \/ ChildWaits(l) \/ ClearMarker(l) \/ ReleaseRun(l)
          PROVE YoungMarks' # {}
        <3>1. CASE WriteTmp(l) \/ Verify(l) \/ ChildWaits(l)
            BY <2>2, <3>1 DEF WriteTmp, Verify, ChildWaits, ListTrash, ReadRuns, ReadTrash, LoadJournal,
               Claim, dirVars
        <3>2. ~ClearMarker(l) /\ ~ReleaseRun(l)
            BY DEF ClearMarker, ReleaseRun, Owns
        <3> QED
            BY <2>3, <2>7, <3>1, <3>2 DEF Install
    <2>8. ASSUME NEW o \in Observers, LookRead(o) \/ LookList(o) \/ Observe(o) PROVE YoungMarks' # {}
        BY <2>2, <2>8 DEF LookRead, LookList, Observe, dirVars
    <2>9. ASSUME NEW d \in Deleters, DelStep(d) PROVE YoungMarks' # {}
        BY <2>2, <2>9 DEF DelStep, DelStart, DelPre, DelLock, DelBaseline, DelCheck, DelRename, DelAudit,
           DelRelease, dirVars
    <2> QED
        BY <2>4, <2>5, <2>6, <2>7, <2>8, <2>9 DEF Next, LookStep, Observers
<1> QED
    BY <1>1, Invariance, PTL DEF Spec, ReadersKeepTheHandoff
-----------------------------------------------------------------------------
(* The child that lost its run *)

\* The delete is at most one.
OneDelete == \A d, e \in Deleters : d = e

\* The lock names an engine that runs or a delete that is at work, and only a delete
\* takes the directory away.
Holder ==
    /\ lock \in Launchers => Owns(lock)
    /\ lock \in Deleters => del[lock] \in Late
    /\ ~InPlace => \E d \in Deleters : del[d] \in {"audit", "deleted"}

Begun(d) == del[d] \notin {"idle", "pre", "lock"}
MovedIt(d) == del[d] \in {"audit", "restored", "rolledBack", "deleted"}

\* A child asks about a delete once its claim failed, so a delete has begun by then; it
\* comes to its final claim once that delete has let go of the lock.
Asking ==
    \A l \in Launchers :
        /\ launch[l] \in {"idle", "tmp", "renamed"} => child[l] = "none"
        /\ child[l] = "none" => after[l] = "load"
        /\ child[l] \in {"none", "list", "readRuns", "readTrash", "load"} => ~final[l]
        /\ child[l] \in {"list", "readRuns"} /\ after[l] = "claim" =>
               OtherEngine(l) \/ \E d \in Deleters : Begun(d)
        /\ (child[l] = "readTrash" /\ after[l] = "claim") \/ (child[l] = "claim" /\ final[l]) =>
               OtherEngine(l) \/ \E d \in Deleters : MovedIt(d) \/ del[d] = "refused"

AskTypes ==
    /\ after \in [Launchers -> {"load", "claim"}]
    /\ final \in [Launchers -> BOOLEAN]

LostInv == IInv /\ AskTypes /\ Holder /\ Asking /\ LostOnlyIfMoved
-----------------------------------------------------------------------------
\* A delete goes through its checks.
LEMMA DeleteLets ==
    ASSUME LostInv, NEW d \in Deleters, DelStep(d)
    PROVE /\ UNCHANGED <<launch, child, after, final>>
          /\ \A e \in Deleters : Begun(e) => Begun(e)'
          /\ \A e \in Deleters : MovedIt(e) => MovedIt(e)'
          /\ \A e \in Deleters : del[e] = "refused" => del'[e] = "refused"
          /\ \A e \in Deleters \ {d} : del'[e] = del[e]
<1> USE DEF LostInv, IInv, Types, Begun, MovedIt, launchVars, childVars, DelStates
<1>1. CASE DelStart(d)
    BY <1>1 DEF DelStart
<1>2. CASE DelPre(d)
    BY <1>2 DEF DelPre
<1>3. CASE DelLock(d)
    BY <1>3 DEF DelLock
<1>4. CASE DelBaseline(d)
    BY <1>4 DEF DelBaseline
<1>5. CASE DelCheck(d)
    BY <1>5 DEF DelCheck
<1>6. CASE DelRename(d)
    BY <1>6 DEF DelRename
<1>7. CASE DelAudit(d)
    BY <1>7 DEF DelAudit
<1>8. CASE DelRelease(d)
    BY <1>8 DEF DelRelease
<1> QED
    BY <1>1, <1>2, <1>3, <1>4, <1>5, <1>6, <1>7, <1>8 DEF DelStep

LEMMA LostDelete ==
    ASSUME LostInv, NEW d \in Deleters, DelStep(d) PROVE AskTypes' /\ Holder' /\ Asking' /\ LostOnlyIfMoved'
<1> USE DEF LostInv
<1>1. /\ UNCHANGED <<launch, child, after, final>>
      /\ \A e \in Deleters : Begun(e) => Begun(e)'
      /\ \A e \in Deleters : MovedIt(e) => MovedIt(e)'
      /\ \A e \in Deleters : del[e] = "refused" => del'[e] = "refused"
      /\ \A e \in Deleters \ {d} : del'[e] = del[e]
    BY DeleteLets
<1>2. AskTypes'
    BY <1>1 DEF AskTypes
<1>3. \A l \in Launchers : OtherEngine(l)' = OtherEngine(l)
    BY <1>1 DEF OtherEngine
<1>4. Asking'
    BY <1>1, <1>3 DEF Asking
<1>5. LostOnlyIfMoved'
    BY <1>1, <1>3 DEF LostOnlyIfMoved, MovedIt
<1>6. Holder'
    <2> USE HandoffAssumption DEF IInv, Types, Locked, Holder, Owns, InPlace, Late, DelStates, childVars, launchVars, dirVars
    <2>1. CASE DelStart(d)
        BY <2>1 DEF DelStart
    <2>2. CASE DelPre(d)
        BY <2>2 DEF DelPre
    <2>3. CASE DelLock(d)
        BY <2>3 DEF DelLock, LockFree
    <2>4. CASE DelBaseline(d)
        BY <2>4 DEF DelBaseline
    <2>5. CASE DelCheck(d)
        BY <2>5 DEF DelCheck
    <2>6. CASE DelRename(d)
        BY <2>6 DEF DelRename
    <2>7. CASE DelAudit(d)
        BY <2>7 DEF DelAudit
    <2>8. CASE DelRelease(d)
        BY <2>8 DEF DelRelease
    <2> QED
        BY <2>1, <2>2, <2>3, <2>4, <2>5, <2>6, <2>7, <2>8 DEF DelStep
<1> QED
    BY <1>2, <1>4, <1>5, <1>6

\* An observer has no part in it.
LEMMA LostObserver ==
    ASSUME LostInv, NEW o \in Observers, LookStep(o) \/ Observe(o)
    PROVE AskTypes' /\ Holder' /\ Asking' /\ LostOnlyIfMoved'
<1>1. UNCHANGED <<where, lock, launch, childVars, delVars>>
    BY DEF LookStep, Observe, LookRead, LookClaim, LookJudge, LookList, LookStat, StartLook, dirVars, launchVars
<1> QED
    BY <1>1 DEF LostInv, AskTypes, Holder, Asking, LostOnlyIfMoved, Owns, InPlace, OtherEngine, Begun, MovedIt,
        childVars, delVars

\* The installation of a marker: a child that is spawned has everything before it.
LEMMA LostInstall ==
    ASSUME LostInv, NEW l \in Launchers, Install(l) PROVE AskTypes' /\ Holder' /\ Asking' /\ LostOnlyIfMoved'
<1> USE DEF LostInv, IInv
<1>1. UNCHANGED <<where, lock, del, after, final>>
    BY DEF Install, WriteTmp, RenameTmp, Verify, childVars, delVars, dirVars
<1>2. launch'[l] \in {"tmp", "renamed"} => child[l] = "none" /\ UNCHANGED child
    BY DEF Install, WriteTmp, RenameTmp, Verify, Types, childVars, Asking
<1>3. \A m \in Launchers \ {l} : launch'[m] = launch[m] /\ child'[m] = child[m]
    BY DEF Install, WriteTmp, RenameTmp, Verify, Types, childVars
<1>4. UNCHANGED child \/ (child[l] = "none" /\ child'[l] = "list")
    <2>1. WriteTmp(l) \/ RenameTmp(l) => UNCHANGED child
        BY DEF WriteTmp, RenameTmp, childVars
    <2>2. Verify(l) => UNCHANGED child \/ child'[l] = "list"
        BY DEF Verify, Types
    <2>3. Verify(l) => child[l] = "none"
        BY DEF Verify, Asking
    <2> QED
        BY <2>1, <2>2, <2>3 DEF Install
<1>5. launch'[l] # "idle"
    BY DEF Install, WriteTmp, RenameTmp, Verify, Types
<1>6. AskTypes'
    BY <1>1 DEF AskTypes
<1>7. \A m \in Launchers : OtherEngine(m)' = OtherEngine(m)
    BY <1>3, <1>4 DEF OtherEngine
<1>8. Holder'
    BY <1>1, <1>3, <1>4 DEF Holder, Owns, InPlace
<1>9. Asking'
    <2> SUFFICES ASSUME NEW m \in Launchers
                 PROVE /\ launch'[m] \in {"idle", "tmp", "renamed"} => child'[m] = "none"
                       /\ child'[m] = "none" => after[m] = "load"
                       /\ child'[m] \in {"none", "list", "readRuns", "readTrash", "load"} => ~final[m]
                       /\ child'[m] \in {"list", "readRuns"} /\ after[m] = "claim" =>
                              OtherEngine(m) \/ \E d \in Deleters : Begun(d)
                       /\ (child'[m] = "readTrash" /\ after[m] = "claim") \/ (child'[m] = "claim" /\ final[m]) =>
                              OtherEngine(m) \/ \E d \in Deleters : MovedIt(d) \/ del[d] = "refused"
        BY <1>1, <1>7 DEF Asking, Begun, MovedIt
    <2>1. CASE m # l
        BY <2>1, <1>3 DEF Asking
    <2>2. CASE m = l
        BY <2>2, <1>2, <1>4, <1>5 DEF Asking, Types
    <2> QED
        BY <2>1, <2>2
<1>10. LostOnlyIfMoved'
    BY <1>1, <1>3, <1>4, <1>7 DEF LostOnlyIfMoved
<1> QED
    BY <1>6, <1>8, <1>9, <1>10

\* A claim that fails meets another engine, or a delete that is past its lock.
LEMMA ClaimMeets ==
    ASSUME LostInv, NEW l \in Launchers, child[l] = "claim", ~LockFree
    PROVE OtherEngine(l) \/ \E d \in Deleters : del[d] \in Late \cup {"deleted"}
<1> USE DEF LostInv, IInv
<1>1. CASE ~InPlace
    BY <1>1 DEF Holder, Late
<1>2. CASE lock \in Deleters
    BY <1>2 DEF Holder, Late
<1>3. CASE lock \in Launchers
    BY <1>3 DEF Holder, Owns, OtherEngine
<1> QED
    BY <1>1, <1>2, <1>3 DEF LockFree, Types

\* The child asks, claims, runs and is over.
LEMMA LostChild ==
    ASSUME OneDelete, LostInv, NEW l \in Launchers, ChildWaits(l) \/ ClearMarker(l) \/ ReleaseRun(l)
    PROVE AskTypes' /\ Holder' /\ Asking' /\ LostOnlyIfMoved'
<1> DEFINE Before == {"none", "list", "readRuns", "readTrash", "load"}
           Met == OtherEngine(l) \/ \E d \in Deleters : Begun(d)
           Settled == OtherEngine(l) \/ \E d \in Deleters : MovedIt(d) \/ del[d] = "refused"
           Moved == OtherEngine(l) \/ \E d \in Deleters : MovedIt(d)
<1> USE DEF LostInv, IInv
<1>1. UNCHANGED <<where, launch, del>> /\ \A m \in Launchers \ {l} :
          child'[m] = child[m] /\ after'[m] = after[m] /\ final'[m] = final[m]
    BY DEF ChildWaits, ListTrash, ReadRuns, ReadTrash, LoadJournal, Claim, ClearMarker, ReleaseRun, Types, AskTypes,
       dirVars, launchVars, delVars
<1>2. AskTypes'
    BY DEF ChildWaits, ListTrash, ReadRuns, ReadTrash, LoadJournal, Claim, ClearMarker, ReleaseRun, AskTypes, IsFinal
<1>3. child'[l] # "none" /\ child[l] # "none"
    BY DEF ChildWaits, ListTrash, ReadRuns, ReadTrash, LoadJournal, Claim, ClearMarker, ReleaseRun, Types, Again, FinalClaim
<1>4. child[l] \in {"owns", "running", "over"} => child'[l] \in {"owns", "running", "over"}
    BY DEF ChildWaits, ListTrash, ReadRuns, ReadTrash, LoadJournal, Claim, ClearMarker, ReleaseRun, Types
<1>5. OtherEngine(l)' = OtherEngine(l) /\ \A m \in Launchers : OtherEngine(m) => OtherEngine(m)'
    BY <1>1, <1>4 DEF OtherEngine
<1>6. Holder'
    <2>1. CASE UNCHANGED lock /\ ~Owns(l)
        BY <1>1, <2>1 DEF Holder, Owns, InPlace
    <2>2. CASE lock' = l /\ child'[l] = "owns"
        BY <1>1, <2>2, HandoffAssumption DEF Holder, Owns, InPlace
    <2>3. CASE Owns(l) /\ Owns(l)' /\ UNCHANGED lock
        BY <1>1, <2>3 DEF Holder, Owns, InPlace
    <2>4. CASE lock' = None
        BY <1>1, <2>4, HandoffAssumption DEF Holder, InPlace
    <2>5. CASE ListTrash(l) \/ ReadRuns(l) \/ ReadTrash(l) \/ LoadJournal(l)
        BY <2>1, <2>5 DEF ListTrash, ReadRuns, ReadTrash, LoadJournal, Owns, dirVars
    <2>6. CASE Claim(l)
        BY <2>1, <2>2, <2>6 DEF Claim, Owns, Types
    <2>7. CASE ClearMarker(l)
        BY <2>3, <2>7 DEF ClearMarker, Owns, Types
    <2>8. CASE ReleaseRun(l)
        BY <2>4, <2>8 DEF ReleaseRun
    <2> QED
        BY <2>5, <2>6, <2>7, <2>8 DEF ChildWaits
<1>7. /\ child'[l] \in Before => ~final'[l]
      /\ child'[l] \in {"list", "readRuns"} /\ after'[l] = "claim" => Met
      /\ (child'[l] = "readTrash" /\ after'[l] = "claim") \/ (child'[l] = "claim" /\ final'[l]) => Settled
      /\ child'[l] = "lost" => Moved
    <2>1. CASE ListTrash(l)
        BY <2>1 DEF ListTrash, Asking, Types
    <2>2. CASE ReadRuns(l)
        <3>1. child[l] = "readRuns" /\ UNCHANGED <<after, final>> /\ ~final[l]
            BY <2>2 DEF ReadRuns, Asking
        <3>2. CASE InPlace /\ lock \in Deleters
            <4>1. child'[l] = Again(l)
                BY <2>2, <3>2 DEF ReadRuns, Types
            <4> QED
                BY <3>1, <4>1 DEF Again
        <3>3. CASE ~(InPlace /\ lock \in Deleters)
            <4>1. child'[l] = "readTrash"
                BY <2>2, <3>3 DEF ReadRuns, Types
            <4>2. after[l] = "claim" => Settled
                <5> SUFFICES ASSUME NEW d \in Deleters, Begun(d) PROVE Settled
                    BY <3>1 DEF Asking
                <5>1. CASE ~InPlace
                    BY <5>1 DEF Holder, MovedIt
                <5>2. CASE InPlace /\ lock \notin Deleters
                    <6>1. del[d] \notin Late
                        BY <5>2 DEF Locked
                    <6> QED
                        BY <6>1 DEF Begun, Late, MovedIt, Types, DelStates
                <5> QED
                    BY <3>3, <5>1, <5>2
            <4> QED
                BY <3>1, <4>1, <4>2
        <3> QED
            BY <3>2, <3>3
    <2>3. CASE ReadTrash(l)
        <3>1. child[l] = "readTrash" /\ UNCHANGED after /\ ~final[l]
            BY <2>3 DEF ReadTrash, Asking
        <3>2. CASE child'[l] = Again(l) /\ UNCHANGED final
            BY <3>1, <3>2 DEF Again, Asking, AskTypes
        <3>3. CASE /\ child'[l] = IF after[l] = "load" THEN "load" ELSE "claim"
                   /\ final'[l] = (after[l] = "claim")
            BY <3>1, <3>3 DEF Asking, AskTypes
        <3> QED
            BY <2>3, <3>2, <3>3 DEF ReadTrash, FinalClaim, IsFinal, Types, AskTypes
    <2>4. CASE LoadJournal(l)
        <3>1. child[l] = "load" /\ UNCHANGED final /\ ~final[l]
            BY <2>4 DEF LoadJournal, Asking
        <3>2. ~InPlace => Moved
            BY DEF Holder, MovedIt
        <3>3. child'[l] = IF InPlace THEN "claim" ELSE "lost"
            BY <2>4 DEF LoadJournal, Types
        <3> QED
            BY <3>1, <3>2, <3>3
    <2>5. CASE Claim(l)
        <3>1. child[l] = "claim" /\ UNCHANGED <<after, final>>
            BY <2>5 DEF Claim
        <3>2. CASE LockFree /\ child'[l] = "owns"
            BY <3>2
        <3>3. CASE ~LockFree /\ child'[l] = IF final[l] THEN "lost" ELSE "list"
            <4>1. OtherEngine(l) \/ \E d \in Deleters : del[d] \in Late \cup {"deleted"}
                BY <3>1, <3>3, ClaimMeets
            <4>2. Met
                BY <4>1 DEF Begun, Late
            <4>3. final[l] => Moved
                <5> SUFFICES ASSUME final[l], ~OtherEngine(l) PROVE \E d \in Deleters : MovedIt(d)
                    OBVIOUS
                <5>1. PICK d \in Deleters : MovedIt(d) \/ del[d] = "refused"
                    BY <3>1 DEF Asking
                <5>2. PICK e \in Deleters : del[e] \in Late \cup {"deleted"}
                    BY <4>1
                <5>3. d = e
                    BY DEF OneDelete
                <5> QED
                    BY <5>1, <5>2, <5>3 DEF Late
            <4> QED
                BY <3>1, <3>3, <4>2, <4>3
        <3> QED
            BY <2>5, <3>2, <3>3 DEF Claim, Types
    <2>6. CASE ClearMarker(l) \/ ReleaseRun(l)
        BY <2>6 DEF ClearMarker, ReleaseRun, Types
    <2> QED
        BY <2>1, <2>2, <2>3, <2>4, <2>5, <2>6 DEF ChildWaits
<1>8. \A d \in Deleters : Begun(d)' = Begun(d) /\ MovedIt(d)' = MovedIt(d)
    BY <1>1 DEF Begun, MovedIt
<1>9. Asking'
    <2> SUFFICES ASSUME NEW m \in Launchers
                 PROVE /\ launch'[m] \in {"idle", "tmp", "renamed"} => child'[m] = "none"
                       /\ child'[m] = "none" => after'[m] = "load"
                       /\ child'[m] \in {"none", "list", "readRuns", "readTrash", "load"} => ~final'[m]
                       /\ child'[m] \in {"list", "readRuns"} /\ after'[m] = "claim" =>
                              OtherEngine(m)' \/ \E d \in Deleters : Begun(d)
                       /\ (child'[m] = "readTrash" /\ after'[m] = "claim") \/ (child'[m] = "claim" /\ final'[m]) =>
                              OtherEngine(m)' \/ \E d \in Deleters : MovedIt(d) \/ del[d] = "refused"
        BY <1>1, <1>8 DEF Asking
    <2>1. CASE m # l
        BY <1>1, <1>5, <2>1 DEF Asking
    <2>2. CASE m = l
        <3>1. launch[l] \notin {"idle", "tmp", "renamed"}
            BY <1>3 DEF Asking
        <3> QED
            BY <1>1, <1>3, <1>5, <1>7, <2>2, <3>1
    <2> QED
        BY <2>1, <2>2
<1>10. LostOnlyIfMoved'
    <2>1. ASSUME NEW m \in Launchers \ {l}, child'[m] = "lost"
          PROVE OtherEngine(m)' \/ \E d \in Deleters : MovedIt(d)'
        BY <1>1, <1>5, <1>8, <2>1 DEF LostOnlyIfMoved, MovedIt
    <2>2. child'[l] = "lost" => OtherEngine(l)' \/ \E d \in Deleters : MovedIt(d)'
        BY <1>5, <1>7, <1>8
    <2> QED
        BY <2>1, <2>2 DEF LostOnlyIfMoved, MovedIt
<1> QED
    BY <1>2, <1>6, <1>9, <1>10

\* However many launches and observers there are: a child that reports its run lost has
\* met another launch's engine or a delete that moved the run.  With two deletes it is
\* not so: one may be over and refused while the other holds the lock.
THEOREM HandoffLostOnlyIfMoved == OneDelete => (Spec => []LostOnlyIfMoved)
<1> SUFFICES ASSUME OneDelete PROVE Spec => []LostOnlyIfMoved
    OBVIOUS
<1>1. Init => LostInv
    <2> SUFFICES ASSUME Init PROVE LostInv
        OBVIOUS
    <2>1. IInv
        BY InitInv
    <2>2. AskTypes
        BY DEF Init, AskTypes
    <2>3. Holder
        BY HandoffAssumption DEF Init, Holder, InPlace
    <2>4. Asking /\ LostOnlyIfMoved
        BY DEF Init, Asking, LostOnlyIfMoved
    <2> QED
        BY <2>1, <2>2, <2>3, <2>4 DEF LostInv
<1>2. LostInv /\ [Next]_vars => LostInv'
    <2>1. LostInv /\ UNCHANGED vars => AskTypes' /\ Holder' /\ Asking' /\ LostOnlyIfMoved'
        BY DEF LostInv, AskTypes, Holder, Asking, LostOnlyIfMoved, Owns, InPlace, OtherEngine, Begun, MovedIt,
            vars, dirVars, launchVars, childVars, delVars
    <2>2. LostInv /\ Next => AskTypes' /\ Holder' /\ Asking' /\ LostOnlyIfMoved'
        BY LostInstall, LostChild, LostObserver, LostDelete DEF Next, Observers
    <2>3. LostInv /\ [Next]_vars => IInv'
        BY IInvStep DEF LostInv
    <2> QED
        BY <2>1, <2>2, <2>3 DEF LostInv
<1>3. LostInv => LostOnlyIfMoved
    BY DEF LostInv
<1> QED
    BY <1>1, <1>2, <1>3, PTL DEF Spec
-----------------------------------------------------------------------------
(* The child that goes round again, with any number of deletes *)

\* The lock names an engine that runs or a delete that is at work: nobody leaves it
\* behind.  A directory that is away was moved by a delete; a child is spawned once.
AtWork ==
    /\ lock \in Launchers => Owns(lock)
    /\ lock \in Deleters => del[lock] \in Late
    /\ ~InPlace => (\E d \in Deleters : del[d] \in Late) \/ Deleted
    /\ \A l \in Launchers : launch[l] \in {"idle", "tmp", "renamed"} => child[l] = "none"

\* A child asks once more only of a delete that is at work, and so will end.
AsksOfADelete ==
    [][\A l \in Launchers :
          child[l] \in {"readRuns", "readTrash"} /\ child'[l] \in {"list", "claim"} /\ ~final'[l] =>
              \E d \in Deleters : del[d] \in Late]_vars

\* A claim fails only if the run is in other hands: an engine's, or a delete's.
FailsForAReason ==
    [][\A l \in Launchers : child[l] = "claim" /\ child'[l] \in {"list", "lost"} =>
          OtherEngine(l) \/ (\E d \in Deleters : del[d] \in Late) \/ Deleted]_vars

AskInv == IInv /\ AskTypes /\ AtWork

LEMMA AskStep == AskInv /\ [Next]_vars => AskTypes' /\ AtWork'
<1> SUFFICES ASSUME AskInv, [Next]_vars PROVE AskTypes' /\ AtWork'
    OBVIOUS
<1> USE HandoffAssumption DEF AskInv, IInv, Types, AskTypes, AtWork, Owns, Late, InPlace, Deleted
<1>1. CASE UNCHANGED vars
    BY <1>1 DEF vars, dirVars, launchVars, childVars, delVars
<1>2. ASSUME NEW l \in Launchers, Install(l) PROVE AskTypes' /\ AtWork'
    BY <1>2 DEF Install, WriteTmp, RenameTmp, Verify, childVars, delVars, dirVars
<1>3. ASSUME NEW l \in Launchers, ListTrash(l) \/ ReadRuns(l) \/ ReadTrash(l) \/ LoadJournal(l)
      PROVE AskTypes' /\ AtWork'
    <2>1. UNCHANGED <<lock, where, launch, del>> /\ child[l] # "none" /\ ~Owns(l)
        BY <1>3 DEF ListTrash, ReadRuns, ReadTrash, LoadJournal, launchVars, delVars, dirVars
    <2>2. \A m \in Launchers \ {l} : child'[m] = child[m]
        BY <1>3 DEF ListTrash, ReadRuns, ReadTrash, LoadJournal
    <2>3. AtWork'
        BY <2>1, <2>2
    <2>4. AskTypes'
        BY <1>3 DEF ListTrash, ReadRuns, ReadTrash, LoadJournal, IsFinal
    <2> QED
        BY <2>3, <2>4
<1>4. ASSUME NEW l \in Launchers, Claim(l) \/ ClearMarker(l) PROVE AskTypes' /\ AtWork'
    BY <1>4 DEF Claim, ClearMarker, launchVars, delVars
<1>5. ASSUME NEW l \in Launchers, ReleaseRun(l) PROVE AskTypes' /\ AtWork'
    BY <1>5 DEF ReleaseRun, launchVars, delVars
<1>6. ASSUME NEW o \in Observers, LookStep(o) \/ Observe(o) PROVE AskTypes' /\ AtWork'
    BY <1>6 DEF LookStep, LookRead, LookClaim, LookJudge, LookList, LookStat, Observe,
       launchVars, childVars, delVars, dirVars
<1>7. ASSUME NEW d \in Deleters, DelStart(d) \/ DelPre(d) \/ DelLock(d) \/ DelBaseline(d) \/ DelCheck(d)
      PROVE AskTypes' /\ AtWork'
    BY <1>7 DEF DelStart, DelPre, DelLock, LockFree, DelBaseline, DelCheck, launchVars, childVars, dirVars
<1>8. ASSUME NEW d \in Deleters, DelRename(d) \/ DelAudit(d) \/ DelRelease(d) PROVE AskTypes' /\ AtWork'
    BY <1>8 DEF DelRename, DelAudit, DelRelease, Locked, launchVars, childVars
<1> QED
    BY <1>1, <1>2, <1>3, <1>4, <1>5, <1>6, <1>7, <1>8 DEF Next, ChildWaits, DelStep, Observers

LEMMA AskInvariance == Spec => []AskInv
<1>1. Init => AskInv
    <2> SUFFICES ASSUME Init PROVE IInv /\ AskTypes /\ AtWork
        BY DEF AskInv
    <2>1. IInv
        BY InitInv
    <2>2. AskTypes
        BY DEF Init, AskTypes
    <2>3. AtWork
        BY HandoffAssumption DEF Init, AtWork, InPlace
    <2> QED
        BY <2>1, <2>2, <2>3
<1>2. AskInv /\ [Next]_vars => AskInv'
    BY AskStep, IInvStep DEF AskInv
<1> QED
    BY <1>1, <1>2, PTL DEF Spec

\* However many launches and deletes there are: a child that goes round once more, to
\* its questions or to a claim that is not its last, has met a delete that has the lock.
\* That is what it waits for when it waits; that the delete ends is its fairness.
THEOREM HandoffAsksOfADelete == Spec => AsksOfADelete
<1>1. AskInv /\ [Next]_vars =>
        [\A l \in Launchers :
            child[l] \in {"readRuns", "readTrash"} /\ child'[l] \in {"list", "claim"} /\ ~final'[l] =>
                \E d \in Deleters : del[d] \in Late]_vars
    <2> SUFFICES ASSUME AskInv, Next, NEW l \in Launchers, child[l] \in {"readRuns", "readTrash"},
                        child'[l] \in {"list", "claim"}, ~final'[l]
                 PROVE \E d \in Deleters : del[d] \in Late
        OBVIOUS
    <2> USE HandoffAssumption DEF AskInv, IInv, Types, AskTypes, Waiting
    <2>1. child'[l] # child[l]
        OBVIOUS
    <2>2. ReadRuns(l) \/ ReadTrash(l)
        <3>1. ASSUME NEW m \in Launchers, Install(m) \/ ChildWaits(m) \/ ClearMarker(m) \/ ReleaseRun(m)
              PROVE ReadRuns(l) \/ ReadTrash(l)
            <4>1. CASE Install(m)
                BY <2>1, <4>1 DEF Install, WriteTmp, RenameTmp, Verify, childVars, AtWork
            <4>2. CASE m = l
                BY <2>1, <3>1, <4>1, <4>2 DEF ChildWaits, ListTrash, LoadJournal, Claim, ClearMarker, ReleaseRun
            <4>3. CASE m # l /\ ~Install(m)
                BY <2>1, <3>1, <4>3 DEF ChildWaits, ListTrash, ReadRuns, ReadTrash, LoadJournal, Claim,
                   ClearMarker, ReleaseRun
            <4> QED
                BY <4>1, <4>2, <4>3
        <3>2. ASSUME NEW o \in Observers, LookStep(o) \/ Observe(o) PROVE FALSE
            BY <2>1, <3>2 DEF LookStep, LookRead, LookClaim, LookJudge, LookList, LookStat, Observe, childVars
        <3>3. ASSUME NEW d \in Deleters, DelStep(d) PROVE FALSE
            BY <2>1, <3>3 DEF DelStep, DelStart, DelPre, DelLock, DelBaseline, DelCheck, DelRename, DelAudit,
               DelRelease, childVars
        <3> QED
            BY <3>1, <3>2, <3>3 DEF Next, Observers
    <2>3. lock \in Deleters
        BY <2>2 DEF ReadRuns, ReadTrash, Again, FinalClaim, IsFinal
    <2> QED
        BY <2>3 DEF AtWork
<1> QED
    BY <1>1, AskInvariance, PTL DEF Spec, AsksOfADelete

\* However many launches and deletes there are: a claim of a child fails only on another
\* launch's engine, or on a delete that has the lock or is done.
THEOREM HandoffFailsForAReason == Spec => FailsForAReason
<1>1. AskInv /\ [Next]_vars =>
        [\A l \in Launchers : child[l] = "claim" /\ child'[l] \in {"list", "lost"} =>
            OtherEngine(l) \/ (\E d \in Deleters : del[d] \in Late) \/ Deleted]_vars
    <2> SUFFICES ASSUME AskInv, Next, NEW l \in Launchers, child[l] = "claim", child'[l] \in {"list", "lost"}
                 PROVE OtherEngine(l) \/ (\E d \in Deleters : del[d] \in Late) \/ Deleted
        OBVIOUS
    <2> USE HandoffAssumption DEF AskInv, IInv, Types
    <2>1. Claim(l)
        <3>1. ASSUME NEW m \in Launchers, Install(m) \/ ChildWaits(m) \/ ClearMarker(m) \/ ReleaseRun(m)
              PROVE Claim(l)
            <4>1. CASE Install(m)
                BY <4>1 DEF Install, WriteTmp, RenameTmp, Verify, childVars, AtWork
            <4>2. CASE ~Install(m)
                BY <3>1, <4>2 DEF ChildWaits, ListTrash, ReadRuns, ReadTrash, LoadJournal, Claim,
                   ClearMarker, ReleaseRun
            <4> QED
                BY <4>1, <4>2
        <3>2. ASSUME NEW o \in Observers, LookStep(o) \/ Observe(o) PROVE FALSE
            BY <3>2 DEF LookStep, LookRead, LookClaim, LookJudge, LookList, LookStat, Observe, childVars
        <3>3. ASSUME NEW d \in Deleters, DelStep(d) PROVE FALSE
            BY <3>3 DEF DelStep, DelStart, DelPre, DelLock, DelBaseline, DelCheck, DelRename, DelAudit,
               DelRelease, childVars
        <3> QED
            BY <3>1, <3>2, <3>3 DEF Next, Observers
    <2>2. ~LockFree
        BY <2>1 DEF Claim
    <2>3. CASE ~InPlace
        BY <2>3 DEF AtWork
    <2>4. CASE lock \in Deleters
        BY <2>4 DEF AtWork
    <2>5. CASE lock \in Launchers
        <3>1. Owns(lock) /\ lock # l
            BY <2>5 DEF AtWork, Owns
        <3> QED
            BY <2>5, <3>1 DEF Owns, OtherEngine
    <2> QED
        BY <2>2, <2>3, <2>4, <2>5 DEF LockFree
<1> QED
    BY <1>1, AskInvariance, PTL DEF Spec, FailsForAReason
-----------------------------------------------------------------------------
(* The lock itself: contending engines, module RunLock *)

Contending == {"try", "observe", "claim", "verify"}
OnSocket == {"locked", "probe", "putback", "bind", "bound", "listening", "engine",
             "closing", "leaving", "unlock"}
Beyond == OnSocket \cup {"opened"}
Unbound == Contending \cup {"opened", "locked", "probe", "putback", "bind"}
Serving == {"bound", "listening", "engine", "closing"}

Move(p) == TakeLock(p) \/ TakeSocket(p) \/ LetGo(p) \/ Finish(p)

RaceTypes ==
    /\ lockFile \in File \cup {Nobody} /\ sock \in File \cup {Nobody}
    /\ claim \in [Procs -> File \cup {Nobody}] /\ sockClaim \in [Procs -> File \cup {Nobody}]
    /\ observed \in [Procs -> File \cup {Nobody}]
    /\ owner \in [Procs -> File \cup {Nobody}]
    /\ written \subseteq File /\ crashed \subseteq File /\ Dead \in crashed
    /\ missed \in BOOLEAN /\ withdrawn \in BOOLEAN /\ swept \in BOOLEAN
    /\ pc \in [Procs -> Contending \cup Beyond \cup {"refused", "over"}]

\* A contender comes to its rename with no claim in hand, and what it saw there was
\* the lock of a process that is dead.
DeadSeen ==
    \A p \in Procs :
        /\ pc[p] \in {"try", "observe", "claim"} => claim[p] = Nobody
        /\ pc[p] \in {"claim", "verify"} => MayBeGone(observed[p])

\* A lock is kept from its creation on, its body written or not, to its release.
LockKept ==
    \A p \in Procs : Alive(p) /\ pc[p] \in Beyond => lockFile = p \/ \E q \in Procs : claim[q] = p

RaceInv == RaceTypes /\ DeadSeen /\ (swept \/ LockKept)
-----------------------------------------------------------------------------
LEMMA RaceTypesStep ==
    ASSUME RaceTypes, NEW p \in Procs, Move(p) PROVE RaceTypes'
<1> USE RunLockAssumption DEF RaceTypes, Goto, Contending, Beyond, OnSocket
<1> p \in File
    BY DEF File
<1>1. CASE TakeLock(p)
    BY <1>1 DEF TakeLock, Create, WriteBody, ObserveLock, RenameLock, VerifyClaim, sockVars, mishaps
<1>2. CASE RenameSocket(p)
    BY <1>2 DEF RenameSocket, lockVars, mishaps
<1>3. CASE ProbeSocket(p)
    BY <1>3 DEF ProbeSocket, lockVars
<1>4. CASE PutBack(p)
    BY <1>4 DEF PutBack, lockVars
<1>5. CASE Bind(p) \/ Listen(p)
    BY <1>5 DEF Bind, Listen, lockVars, sockVars, mishaps
<1>6. CASE Bound(p)
    BY <1>6 DEF Bound, lockVars, mishaps
<1>7. CASE LetGo(p) \/ Finish(p)
    BY <1>7 DEF LetGo, Close, ReadOwn, Unlock, Ended, Finish, lockVars, sockVars, mishaps
<1> QED
    BY <1>1, <1>2, <1>3, <1>4, <1>5, <1>6, <1>7 DEF Move, TakeSocket

\* A contender moves alone, and from where it is not over yet.
LEMMA MovesAlone ==
    ASSUME RaceTypes, NEW p \in Procs, Move(p)
    PROVE  /\ \A q \in Procs \ {p} : /\ pc'[q] = pc[q] /\ claim'[q] = claim[q]
                                     /\ observed'[q] = observed[q] /\ sockClaim'[q] = sockClaim[q]
                                     /\ owner'[q] = owner[q]
           /\ crashed' = crashed
           /\ written' = written \/ (pc[p] = "opened" /\ written' = written \cup {p})
           /\ pc[p] \notin {"refused", "over"}
           /\ missed => missed'
           /\ swept => swept'
           /\ withdrawn => withdrawn'
<1> USE DEF RaceTypes, Goto
<1>1. CASE Create(p) \/ WriteBody(p) \/ ObserveLock(p)
    BY <1>1 DEF Create, WriteBody, ObserveLock, sockVars, mishaps
<1>2. CASE RenameLock(p)
    BY <1>2 DEF RenameLock, sockVars, mishaps
<1>3. CASE VerifyClaim(p)
    BY <1>3 DEF VerifyClaim, sockVars, mishaps
<1>4. CASE RenameSocket(p)
    BY <1>4 DEF RenameSocket, lockVars, mishaps
<1>5. CASE ProbeSocket(p)
    BY <1>5 DEF ProbeSocket, lockVars
<1>6. CASE PutBack(p)
    BY <1>6 DEF PutBack, lockVars
<1>7. CASE Bind(p) \/ Listen(p)
    BY <1>7 DEF Bind, Listen, lockVars, sockVars, mishaps
<1>8. CASE Bound(p)
    BY <1>8 DEF Bound, lockVars, mishaps
<1>9. CASE LetGo(p) \/ Finish(p)
    BY <1>9 DEF LetGo, Close, ReadOwn, Unlock, Finish, lockVars, sockVars, mishaps
<1> QED
    BY <1>1, <1>2, <1>3, <1>4, <1>5, <1>6, <1>7, <1>8, <1>9 DEF Move, TakeLock, TakeSocket

\* On the way to the socket and back only release() changes the lock.
LEMMA SocketLeavesLock ==
    ASSUME RaceTypes, NEW p \in Procs, TakeSocket(p) \/ LetGo(p) \/ Finish(p)
    PROVE  /\ pc[p] \in OnSocket /\ pc'[p] \in OnSocket \cup {"refused", "over"}
           /\ UNCHANGED <<claim, observed, written>>
           /\ lockFile' = lockFile \/ Unlock(p)
<1> USE DEF RaceTypes, Goto, OnSocket
<1>1. CASE TakeSocket(p)
    BY <1>1 DEF TakeSocket, RenameSocket, ProbeSocket, PutBack, Bind, Listen, Bound, lockVars
<1>2. CASE LetGo(p) \/ Finish(p)
    BY <1>2 DEF LetGo, Close, ReadOwn, Unlock, Ended, Finish, lockVars
<1> QED
    BY <1>1, <1>2

\* The dead stay dead, and the refused refused.
LEMMA GoneStays ==
    ASSUME RaceTypes, NEW p \in Procs, Move(p), NEW f, MayBeGone(f) PROVE MayBeGone(f)'
BY MovesAlone DEF MayBeGone

LEMMA DeadSeenStep ==
    ASSUME RaceTypes, DeadSeen, NEW p \in Procs, Move(p) PROVE DeadSeen'
<1> USE DEF RaceTypes, Goto
<1>1. /\ pc'[p] \in {"try", "observe", "claim"} => claim'[p] = Nobody
      /\ pc'[p] \in {"claim", "verify"} => MayBeGone(observed'[p])
    <2> USE DEF DeadSeen
    <2>1. CASE Create(p) \/ WriteBody(p)
        BY <2>1 DEF Create, WriteBody
    <2>2. CASE ObserveLock(p)
        BY <2>2 DEF ObserveLock
    <2>3. CASE RenameLock(p)
        BY <2>3 DEF RenameLock
    <2>4. CASE VerifyClaim(p)
        BY <2>4 DEF VerifyClaim
    <2>5. CASE TakeSocket(p) \/ LetGo(p) \/ Finish(p)
        BY <2>5, SocketLeavesLock DEF OnSocket
    <2> QED
        BY <2>1, <2>2, <2>3, <2>4, <2>5 DEF Move, TakeLock
<1>2. MayBeGone(observed'[p]) => MayBeGone(observed[p])'
    BY GoneStays DEF MayBeGone
<1>3. \A q \in Procs \ {p} : pc'[q] = pc[q] /\ claim'[q] = claim[q] /\ observed'[q] = observed[q]
    BY MovesAlone
<1> QED
    BY <1>1, <1>2, <1>3, GoneStays DEF DeadSeen, MayBeGone

\* No step destroys a live lock but the release that found its own lock and unlinks
\* another one.
LEMMA LockKeptStep ==
    ASSUME RaceTypes, DeadSeen, LockKept, NEW p \in Procs, Alive(p), Move(p), ~swept'
    PROVE  LockKept'
<1> USE RunLockAssumption DEF RaceTypes, Goto
<1>1. /\ \A q \in Procs \ {p} : pc'[q] = pc[q] /\ claim'[q] = claim[q]
      /\ crashed' = crashed
    BY MovesAlone
<1> SUFFICES ASSUME NEW q \in Procs, Alive(q), pc'[q] \in Beyond
             PROVE  lockFile' = q \/ \E r \in Procs : claim'[r] = q
    BY <1>1 DEF LockKept, Alive
<1>2. pc[q] \in Beyond => lockFile = q \/ \E r \in Procs : claim[r] = q
    BY DEF LockKept
<1>3. CASE Create(p)
    <2>1. CASE q = p
        BY <1>3, <2>1 DEF Create, Beyond, OnSocket
    <2>2. CASE q # p
        BY <1>1, <1>2, <1>3, <2>2 DEF Create
    <2> QED
        BY <2>1, <2>2
<1>4. CASE WriteBody(p) \/ ObserveLock(p)
    BY <1>1, <1>2, <1>4 DEF WriteBody, ObserveLock, Beyond, OnSocket
<1>5. CASE RenameLock(p)
    <2>1. q # p
        BY <1>5 DEF RenameLock, Beyond, OnSocket
    <2>2. claim[p] = Nobody
        BY <1>5 DEF RenameLock, DeadSeen
    <2>3. \/ UNCHANGED <<lockFile, claim>>
          \/ claim'[p] = lockFile /\ \A r \in Procs \ {p} : claim'[r] = claim[r]
        BY <1>5 DEF RenameLock
    <2> QED
        BY <1>1, <1>2, <2>1, <2>2, <2>3
<1>6. CASE VerifyClaim(p)
    <2>1. q # p
        BY <1>6 DEF VerifyClaim, Beyond, OnSocket
    <2>2. lockFile = q \/ \E r \in Procs : claim[r] = q
        BY <1>1, <1>2, <2>1
    <2>3. ~MayBeGone(q)
        BY <1>1, <2>1 DEF MayBeGone, Alive, Beyond, OnSocket
    <2>4. CASE ClaimedTheDead(p)
        <3>1. MayBeGone(observed[p])
            BY <1>6 DEF VerifyClaim, DeadSeen
        <3>2. claim[p] # q
            BY <2>3, <2>4, <3>1 DEF ClaimedTheDead, MayBeGone
        <3>3. lockFile' = lockFile /\ \A r \in Procs \ {p} : claim'[r] = claim[r]
            BY <1>1, <1>6, <2>4 DEF VerifyClaim
        <3> QED
            BY <2>2, <3>2, <3>3
    <2>5. CASE ~ClaimedTheDead(p)
        BY <1>1, <1>6, <2>2, <2>5 DEF VerifyClaim
    <2> QED
        BY <2>4, <2>5
<1>7. CASE TakeSocket(p) \/ LetGo(p) \/ Finish(p)
    <2>1. pc[q] \in Beyond /\ claim' = claim
        BY <1>1, <1>7, SocketLeavesLock DEF Beyond
    <2>2. CASE Unlock(p)
        <3>1. q # p
            BY <2>2 DEF Unlock, Ended, Beyond, OnSocket
        <3>2. lockFile # q
            BY <2>2, <3>1 DEF Unlock
        <3> QED
            BY <1>2, <2>1, <3>2
    <2>3. CASE lockFile' = lockFile
        BY <1>2, <2>1, <2>3
    <2> QED
        BY <1>7, <2>2, <2>3, SocketLeavesLock
<1> QED
    BY <1>3, <1>4, <1>5, <1>6, <1>7 DEF Move, TakeLock

LEMMA RaceStep == RaceInv /\ [LockNext]_raceVars => RaceInv'
<1> SUFFICES ASSUME RaceInv, [LockNext]_raceVars PROVE RaceInv'
    OBVIOUS
<1>1. CASE UNCHANGED raceVars
    BY <1>1 DEF RaceInv, RaceTypes, DeadSeen, LockKept, Alive, MayBeGone, raceVars, lockVars, sockVars, mishaps
<1>2. ASSUME NEW p \in Procs, Crash(p) PROVE RaceInv'
    BY <1>2 DEF File, Crash, lockVars, sockVars, mishaps, RaceInv, RaceTypes, DeadSeen, LockKept, Alive, MayBeGone
<1>3. ASSUME NEW p \in Procs, Alive(p), Move(p) PROVE RaceInv'
    <2>1. RaceTypes' /\ DeadSeen'
        BY <1>3, RaceTypesStep, DeadSeenStep DEF RaceInv
    <2>2. swept => swept'
        BY <1>3, MovesAlone DEF RaceInv
    <2>3. LockKept => swept' \/ LockKept'
        BY <1>3, LockKeptStep DEF RaceInv
    <2> QED
        BY <2>1, <2>2, <2>3 DEF RaceInv
<1> QED
    BY <1>1, <1>2, <1>3 DEF LockNext, Step, Move

LEMMA RaceInvariance == LockSpec => []RaceInv
<1>1. LockInit => RaceInv
    BY RunLockAssumption DEF LockInit, RaceInv, RaceTypes, DeadSeen, LockKept, File, Contending, Beyond, OnSocket
<1> QED
    BY <1>1, RaceStep, PTL DEF LockSpec

\* Two engines, which enough contenders can become, do not come about unseen: unless a
\* lock was swept away, the lock of one of them is then in a contender's claim file.
THEOREM RaceLeavesAClaim ==
    LockSpec => [](\A p, q \in Procs : Engine(p) /\ Engine(q) /\ p # q =>
                     swept \/ \E r \in Procs : claim[r] \in {p, q})
<1>1. RaceInv => \A p, q \in Procs : Engine(p) /\ Engine(q) /\ p # q =>
                     swept \/ \E r \in Procs : claim[r] \in {p, q}
    BY DEF RaceInv, LockKept, Engine, Beyond, OnSocket
<1> QED
    BY <1>1, RaceInvariance, PTL
-----------------------------------------------------------------------------
(* Who has had the lock, and whose sockets are where *)

\* Who has written a lock, who has a claim in hand, and who became the engine.
Entered ==
    \A p \in Procs :
        /\ claim[p] # Nobody => p \notin written /\ pc[p] \in {"verify", "refused"}
        /\ pc[p] = "verify" => claim[p] # Nobody
        /\ pc[p] \in OnSocket \cup {"over"} => p \in written
        /\ pc[p] \in Contending \cup {"opened"} => p \notin written
        /\ pc[p] \in {"engine", "closing", "over"} => owner[p] # Nobody

\* A socket is in one place, and in none before its process has bound it.
OnePlace ==
    /\ \A p \in Procs : sockClaim[p] # Nobody => sockClaim[p] # sock
    /\ \A p, q \in Procs : p # q /\ sockClaim[p] = sockClaim[q] => sockClaim[p] = Nobody
    /\ \A p, q \in Procs : pc[p] \in Unbound => sock # p /\ sockClaim[q] # p

\* Locks that are seen or claimed were created.
Created ==
    \A x \in Procs : x = lockFile \/ (\E p \in Procs : x \in {claim[p], observed[p]}) => HadLock(x)

EntryInv == RaceInv /\ Entered /\ OnePlace /\ Created
-----------------------------------------------------------------------------
LEMMA EnteredStep ==
    ASSUME RaceInv, Entered, NEW p \in Procs, Move(p) PROVE Entered'
<1> USE DEF RaceInv, RaceTypes, Goto
<1> DEFINE Fit(q) == /\ claim[q] # Nobody => q \notin written /\ pc[q] \in {"verify", "refused"}
                     /\ pc[q] = "verify" => claim[q] # Nobody
                     /\ pc[q] \in OnSocket \cup {"over"} => q \in written
                     /\ pc[q] \in Contending \cup {"opened"} => q \notin written
                     /\ pc[q] \in {"engine", "closing", "over"} => owner[q] # Nobody
<1>1. Fit(p)'
    <2>1. Fit(p)
        BY DEF Entered
    <2> USE <2>1 DEF DeadSeen, OnSocket, Contending
    <2>2. CASE Create(p) \/ WriteBody(p) \/ ObserveLock(p)
        BY <2>2 DEF Create, WriteBody, ObserveLock, sockVars
    <2>3. CASE RenameLock(p)
        BY <2>3 DEF RenameLock, sockVars
    <2>4. CASE VerifyClaim(p)
        BY <2>4 DEF VerifyClaim, sockVars
    <2>5. CASE RenameSocket(p) \/ ProbeSocket(p) \/ PutBack(p) \/ Bind(p) \/ Listen(p)
        BY <2>5 DEF RenameSocket, ProbeSocket, PutBack, Bind, Listen, lockVars, sockVars
    <2>6. CASE Bound(p)
        BY <2>6 DEF Bound, StillBound, lockVars
    <2>7. CASE LetGo(p) \/ Finish(p)
        BY <2>7 DEF LetGo, Close, ReadOwn, Unlock, Ended, Finish, lockVars, sockVars
    <2> QED
        BY <2>2, <2>3, <2>4, <2>5, <2>6, <2>7 DEF Move, TakeLock, TakeSocket
<1>2. ASSUME NEW q \in Procs \ {p} PROVE Fit(q)'
    BY <1>2, MovesAlone DEF Entered
<1> QED
    BY <1>1, <1>2 DEF Entered

\* The steps that move no socket.
LEMMA SocketStays ==
    ASSUME RaceInv, OnePlace, NEW p \in Procs, Move(p), UNCHANGED <<sock, sockClaim>>,
           pc'[p] \in Unbound => pc[p] \in Unbound
    PROVE  OnePlace'
BY MovesAlone DEF RaceInv, OnePlace

LEMMA OnePlaceStep ==
    ASSUME RaceInv, OnePlace, NEW p \in Procs, Move(p) PROVE OnePlace'
<1> USE RunLockAssumption DEF RaceInv, RaceTypes, Goto
<1>1. \A q \in Procs \ {p} : pc'[q] = pc[q] /\ sockClaim'[q] = sockClaim[q]
    BY MovesAlone
<1>2. CASE TakeLock(p)
    <2>1. UNCHANGED <<sock, sockClaim>> /\ pc[p] \in Unbound
        BY <1>2 DEF TakeLock, Create, WriteBody, ObserveLock, RenameLock, VerifyClaim, sockVars,
                    Unbound, Contending
    <2> QED
        BY <2>1, SocketStays
<1>3. CASE RenameSocket(p)
    <2>1. pc[p] = "locked" /\ pc[p] \in Unbound
        BY <1>3 DEF RenameSocket, Unbound
    <2>2. CASE sock = Nobody
        BY <1>3, <2>1, <2>2, SocketStays DEF RenameSocket
    <2>3. CASE sock # Nobody
        <3>1. sockClaim'[p] = sock /\ sock' = Nobody
            BY <1>3, <2>3 DEF RenameSocket
        <3> QED
            BY <1>1, <2>1, <2>3, <3>1 DEF OnePlace
    <2> QED
        BY <2>2, <2>3
<1>4. CASE ProbeSocket(p)
    <2>1. pc[p] \in Unbound /\ sock' = sock /\ sockClaim'[p] \in {sockClaim[p], Nobody}
        BY <1>4 DEF ProbeSocket, Unbound
    <2> QED
        BY <1>1, <2>1 DEF OnePlace
<1>5. CASE PutBack(p)
    <2>1. pc[p] \in Unbound /\ pc'[p] = "leaving"
        BY <1>5 DEF PutBack, Unbound
    <2>2. CASE sock # Nobody
        BY <1>5, <2>1, <2>2, SocketStays DEF PutBack
    <2>3. CASE sock = Nobody
        <3>1. sock' = sockClaim[p] /\ sockClaim'[p] = Nobody
            BY <1>5, <2>3 DEF PutBack
        <3> QED
            BY <1>1, <2>1, <3>1 DEF OnePlace, Unbound, Contending
    <2> QED
        BY <2>2, <2>3
<1>6. CASE Bind(p)
    <2>1. pc[p] \in Unbound /\ sockClaim' = sockClaim /\ pc'[p] \in {"bound", "leaving"}
        BY <1>6 DEF Bind, Unbound
    <2>2. CASE sock' = p
        BY <1>1, <2>1, <2>2 DEF OnePlace, Unbound, Contending
    <2>3. CASE sock' = sock
        BY <2>1, <2>3, SocketStays
    <2> QED
        BY <1>6, <2>2, <2>3 DEF Bind
<1>7. CASE Listen(p) \/ Bound(p) \/ Finish(p) \/ LetGo(p)
    <2>1. pc'[p] \notin Unbound /\ sockClaim' = sockClaim /\ sock' \in {sock, Nobody}
        BY <1>7 DEF Listen, Bound, Finish, LetGo, Close, ReadOwn, Unlock, Ended, sockVars,
                    Unbound, Contending
    <2> QED
        BY <1>1, <2>1 DEF OnePlace
<1> QED
    BY <1>2, <1>3, <1>4, <1>5, <1>6, <1>7 DEF Move, TakeSocket

LEMMA HadLockStays ==
    ASSUME RaceInv, NEW p \in Procs, Move(p), NEW x \in Procs, HadLock(x) PROVE HadLock(x)'
<1>1. pc[p] = "opened" => WriteBody(p)
    BY SocketLeavesLock DEF RaceInv, OnSocket, Move, TakeLock, Create, ObserveLock, RenameLock, VerifyClaim
<1> QED
    BY <1>1, MovesAlone DEF RaceInv, HadLock, WriteBody

LEMMA CreatedStep ==
    ASSUME RaceInv, Created, NEW p \in Procs, Move(p) PROVE Created'
<1> USE RunLockAssumption DEF RaceInv, RaceTypes, Goto
<1>1. \A q \in Procs \ {p} : claim'[q] = claim[q] /\ observed'[q] = observed[q]
    BY MovesAlone
<1>2. \A x \in Procs : HadLock(x) => HadLock(x)'
    BY HadLockStays
<1>3. CASE /\ lockFile' \in {lockFile, Nobody, claim[p]}
           /\ claim'[p] \in {claim[p], lockFile, Nobody} /\ observed'[p] \in {observed[p], lockFile}
    BY <1>1, <1>2, <1>3 DEF Created
<1>4. CASE Create(p)
    <2>1. claim' = claim /\ observed' = observed
        BY <1>4 DEF Create
    <2>2. CASE lockFile # Nobody
        BY <1>3, <1>4, <2>2 DEF Create
    <2>3. CASE lockFile = Nobody
        <3>1. lockFile' = p /\ HadLock(p)'
            BY <1>4, <2>3 DEF Create, HadLock
        <3> QED
            BY <1>2, <2>1, <3>1 DEF Created
    <2> QED
        BY <2>2, <2>3
<1>5. CASE WriteBody(p) \/ ObserveLock(p) \/ RenameLock(p) \/ VerifyClaim(p)
    BY <1>3, <1>5 DEF WriteBody, ObserveLock, RenameLock, VerifyClaim
<1>6. CASE TakeSocket(p) \/ LetGo(p) \/ Finish(p)
    BY <1>3, <1>6, SocketLeavesLock DEF Unlock
<1> QED
    BY <1>4, <1>5, <1>6 DEF Move, TakeLock

LEMMA EntryStep == EntryInv /\ [LockNext]_raceVars => EntryInv'
<1> SUFFICES ASSUME EntryInv, [LockNext]_raceVars PROVE EntryInv'
    OBVIOUS
<1>1. RaceInv'
    BY RaceStep DEF EntryInv
<1>2. CASE UNCHANGED raceVars
    BY <1>1, <1>2 DEF EntryInv, Entered, OnePlace, Created, HadLock, raceVars, lockVars, sockVars
<1>3. ASSUME NEW p \in Procs, Crash(p) PROVE Entered' /\ OnePlace' /\ Created'
    BY <1>3 DEF Crash, EntryInv, Entered, OnePlace, Created, HadLock, lockVars, sockVars
<1>4. ASSUME NEW p \in Procs, Move(p) PROVE Entered' /\ OnePlace' /\ Created'
    BY <1>4, EnteredStep, OnePlaceStep, CreatedStep DEF EntryInv
<1> QED
    BY <1>1, <1>2, <1>3, <1>4 DEF EntryInv, LockNext, Step, Move

LEMMA EntryInvariance == LockSpec => []EntryInv
<1>1. LockInit => EntryInv
    <2> SUFFICES ASSUME LockInit PROVE EntryInv
        OBVIOUS
    <2>1. RaceInv
        BY RunLockAssumption DEF LockInit, RaceInv, RaceTypes, DeadSeen, LockKept, File, Contending, Beyond, OnSocket
    <2>2. Entered /\ OnePlace /\ Created
        BY RunLockAssumption DEF LockInit, Entered, OnePlace, Created, File, Contending, OnSocket
    <2> QED
        BY <2>1, <2>2 DEF EntryInv
<1> QED
    BY <1>1, EntryStep, PTL DEF LockSpec
-----------------------------------------------------------------------------
(* Two past the lock: how many it takes *)

\* A contender whose lock another one has claimed while it is past it: that one is turned
\* away, for the lock it saw before was a dead one's.
LEMMA ClaimantIsTurnedAway ==
    ASSUME EntryInv, NEW p \in Procs, Alive(p), pc[p] \in OnSocket, NEW t \in Procs, claim[t] = p
    PROVE  TurnedAway(t) /\ t # p
<1>1. p \in written /\ ~MayBeGone(p)
    BY DEF EntryInv, Entered, MayBeGone, Alive, OnSocket
<1>2. claim[t] # Nobody
    BY RunLockAssumption
<1>3. t \notin written /\ pc[t] \in {"verify", "refused"}
    BY <1>2 DEF EntryInv, Entered
<1>4. pc[t] = "verify" => MayBeGone(observed[t])
    BY DEF EntryInv, RaceInv, DeadSeen
<1> QED
    BY <1>1, <1>3, <1>4 DEF TurnedAway

\* Where the name of the lock is not that of one who lives and is past it, it has been
\* claimed from it; where it is another's, there is an overlap.
LEMMA NotAtName ==
    ASSUME EntryInv, ~swept, NEW p \in Procs, Alive(p), pc[p] \in OnSocket,
           NEW q \in Procs, p # q, HadLock(q), lockFile # p
    PROVE  Overlap
<1>1. PICK t \in Procs : claim[t] = p
    BY DEF EntryInv, RaceInv, LockKept, Beyond
<1>2. HadLock(p)
    BY DEF EntryInv, Entered, HadLock
<1> QED
    BY <1>1, <1>2, ClaimantIsTurnedAway DEF Overlap

LEMMA NoTwo ==
    ASSUME EntryInv, ~swept, NEW p \in Procs, NEW q \in Procs, p # q,
           Alive(p), Alive(q), pc[p] \in OnSocket, pc[q] \in OnSocket
    PROVE  Overlap
<1>1. HadLock(p) /\ HadLock(q)
    BY DEF EntryInv, Entered, HadLock
<1> QED
    BY <1>1, NotAtName

\* Who was turned away stays so.
LEMMA TurnedAwayStays ==
    ASSUME EntryInv, LockNext, NEW t \in Procs, TurnedAway(t) PROVE TurnedAway(t)'
<1>1. ASSUME NEW p \in Procs, Move(p) PROVE TurnedAway(t)'
    <2>1. written \subseteq written'
        BY <1>1, MovesAlone DEF EntryInv, RaceInv
    <2>2. CASE p # t
        BY <1>1, <2>1, <2>2, MovesAlone DEF EntryInv, RaceInv, TurnedAway
    <2>3. CASE p = t
        <3>1. pc[t] = "verify" /\ claim[t] # observed[t] /\ claim[t] \in written
            BY <1>1, <2>3, MovesAlone DEF EntryInv, RaceInv, TurnedAway
        <3>2. VerifyClaim(t)
            BY <1>1, <2>3, <3>1, SocketLeavesLock DEF EntryInv, RaceInv, Move, TakeLock, Create,
               WriteBody, ObserveLock, RenameLock, OnSocket
        <3>3. ~ClaimedTheDead(t)
            BY <3>1 DEF ClaimedTheDead
        <3>4. pc'[t] = "refused" /\ written' = written
            BY <3>2, <3>3 DEF VerifyClaim, Goto, EntryInv, RaceInv, RaceTypes
        <3> QED
            BY <3>4 DEF TurnedAway
    <2> QED
        BY <2>2, <2>3
<1>2. ASSUME NEW p \in Procs, Crash(p) PROVE TurnedAway(t)'
    BY <1>2 DEF Crash, TurnedAway, lockVars
<1> QED
    BY <1>1, <1>2 DEF LockNext, Step, Move

LEMMA OverlapStays ==
    ASSUME EntryInv, LockNext, Overlap PROVE Overlap'
<1>1. \A x \in Procs : HadLock(x) => HadLock(x)'
    BY HadLockStays DEF EntryInv, LockNext, Step, Move, Crash, HadLock, lockVars
<1> QED
    BY <1>1, TurnedAwayStays DEF Overlap

\* Before an overlap nobody meets anybody at the socket: a server's socket is at the
\* path, an engine's is its own, no prober has found one that answers, and no window was hit.
Alone ==
    /\ ~missed /\ ~withdrawn /\ ~swept
    /\ \A p \in Procs : pc[p] # "putback"
    /\ \A p \in Procs : Alive(p) /\ pc[p] \in Serving =>
           sock = p /\ (pc[p] \in {"engine", "closing"} => owner[p] = p)

LEMMA AloneByLock ==
    ASSUME EntryInv, Alone, NEW p \in Procs, Alive(p), TakeLock(p) PROVE Alone'
<1>1. /\ UNCHANGED <<sock, owner, crashed, missed, withdrawn, swept>>
      /\ pc'[p] \notin Serving \cup {"putback"}
    BY DEF TakeLock, Create, WriteBody, ObserveLock, RenameLock, VerifyClaim, sockVars, mishaps, Goto,
           EntryInv, RaceInv, RaceTypes, Serving
<1> QED
    BY <1>1, MovesAlone DEF Alone, Alive, EntryInv, RaceInv, Move

LEMMA AloneBySocket ==
    ASSUME EntryInv, Alone, ~Overlap, NEW p \in Procs, Alive(p), TakeSocket(p) \/ LetGo(p) \/ Finish(p)
    PROVE  Alone'
<1> USE RunLockAssumption DEF EntryInv, RaceInv, RaceTypes, Goto
<1>1. \A q \in Procs \ {p} : pc'[q] = pc[q] /\ owner'[q] = owner[q]
    BY MovesAlone DEF Move
<1>2. crashed' = crashed /\ pc[p] \in OnSocket
    BY MovesAlone, SocketLeavesLock DEF Move
<1>3. \A q \in Procs \ {p} : Alive(q) => pc[q] \notin OnSocket
    BY <1>2, NoTwo DEF Alone
<1>4. SUFFICES /\ ~missed' /\ ~withdrawn' /\ ~swept' /\ pc'[p] # "putback"
               /\ pc'[p] \in Serving =>
                      sock' = p /\ (pc'[p] \in {"engine", "closing"} => owner'[p] = p)
    BY <1>1, <1>2, <1>3 DEF Alone, Alive, OnSocket, Serving
<1>5. pc[p] \in Serving => sock = p /\ (pc[p] \in {"engine", "closing"} => owner[p] = p)
    BY DEF Alone
<1> USE DEF Alone, Serving
<1>6. CASE RenameSocket(p)
    BY <1>6 DEF RenameSocket, mishaps
<1>7. CASE ProbeSocket(p)
    <2>1. \A s \in Procs : sockClaim[p] = s => s # p
        BY <1>7 DEF ProbeSocket, OnePlace, Unbound
    <2>2. ~Answers(sockClaim[p])
        BY <1>3, <2>1 DEF Answers, OnSocket
    <2>3. \A s \in Procs : sockClaim[p] = s /\ Alive(s) => pc[s] # "bound"
        BY <1>3, <2>1 DEF OnSocket
    <2> QED
        BY <1>7, <2>2, <2>3 DEF ProbeSocket
<1>8. CASE PutBack(p)
    BY <1>8 DEF PutBack
<1>9. CASE Bind(p)
    BY <1>9 DEF Bind, mishaps
<1>10. CASE Listen(p)
    BY <1>5, <1>10 DEF Listen, mishaps, sockVars
<1>11. CASE Bound(p)
    BY <1>5, <1>11 DEF Bound, mishaps
<1>12. CASE Finish(p)
    BY <1>5, <1>12 DEF Finish, mishaps, sockVars
<1>13. CASE Close(p)
    BY <1>5, <1>13 DEF Close
<1>14. CASE ReadOwn(p)
    BY <1>14 DEF ReadOwn, Ended, mishaps
<1>15. CASE Unlock(p)
    <2>1. lockFile \notin Procs \ {p}
        <3> SUFFICES ASSUME lockFile \in Procs, lockFile # p PROVE FALSE
            OBVIOUS
        <3>1. HadLock(lockFile)
            BY DEF Created
        <3> QED
            BY <1>2, <3>1, NotAtName
    <2> QED
        BY <1>15, <2>1 DEF Unlock, Ended
<1> QED
    BY <1>6, <1>7, <1>8, <1>9, <1>10, <1>11, <1>12, <1>13, <1>14, <1>15 DEF TakeSocket, LetGo

LEMMA OverlapInvariance == LockSpec => [](Overlap \/ Alone)
<1>1. LockInit => Alone
    BY RunLockAssumption DEF LockInit, Alone, Serving
<1>2. EntryInv /\ (Overlap \/ Alone) /\ [LockNext]_raceVars => (Overlap \/ Alone)'
    <2> SUFFICES ASSUME EntryInv, Overlap \/ Alone, [LockNext]_raceVars PROVE (Overlap \/ Alone)'
        OBVIOUS
    <2>1. CASE UNCHANGED raceVars
        BY <2>1 DEF Overlap, HadLock, TurnedAway, Alone, Alive, raceVars, lockVars, sockVars, mishaps
    <2>2. CASE Overlap /\ LockNext
        BY <2>2, OverlapStays
    <2>3. ASSUME Alone, NEW p \in Procs, Crash(p) PROVE Alone'
        BY <2>3 DEF Crash, Alone, Alive, lockVars, sockVars, mishaps
    <2>4. ASSUME Alone, ~Overlap, NEW p \in Procs, Step(p) \/ (Alive(p) /\ Finish(p)) PROVE Alone'
        BY <2>4, AloneByLock, AloneBySocket DEF Step
    <2> QED
        BY <2>1, <2>2, <2>3, <2>4 DEF LockNext
<1> QED
    BY <1>1, <1>2, EntryInvariance, PTL DEF LockSpec
-----------------------------------------------------------------------------
\* However many contend for the run of a crashed engine, and crash: no window is hit
\* before two have had the lock and a third has taken it from one of them.
THEOREM WindowsNeedAnOverlap == LockSpec => [](missed \/ swept \/ withdrawn => Overlap)
<1>1. Overlap \/ Alone => (missed \/ swept \/ withdrawn => Overlap)
    BY DEF Alone
<1> QED
    BY <1>1, OverlapInvariance, PTL

\* However many contend, and crash: the lock of a process that lives is at its name or in
\* somebody's claim file, but for what the window of release() lets happen in an overlap.
THEOREM RaceKeepsLiveLock == LockSpec => []LiveLockKeptUnlessSwept
<1>1. RaceInv /\ (missed \/ swept \/ withdrawn => Overlap) => LiveLockKeptUnlessSwept
    BY DEF RaceInv, LockKept, LiveLockKept, LiveLockKeptUnlessSwept, PastTheLock, Beyond, OnSocket
<1> QED
    BY <1>1, RaceInvariance, WindowsNeedAnOverlap, PTL

AtMostTwo == \A p, q, r \in Procs : p = q \/ q = r \/ p = r

\* Two contenders, however many of them crash, keep without exception what is claimed: one
\* engine, its lock not destroyed and its socket in reach.
THEOREM TwoKeepTheClaims == AtMostTwo => (LockSpec => [](OneEngine /\ EngineReachable /\ LiveLockKept))
<1> SUFFICES ASSUME AtMostTwo PROVE LockSpec => [](OneEngine /\ EngineReachable /\ LiveLockKept)
    OBVIOUS
<1>1. EntryInv => ~Overlap
    <2> SUFFICES ASSUME EntryInv, NEW p \in Procs, NEW q \in Procs, NEW t \in Procs,
                        p # q, HadLock(p), HadLock(q), TurnedAway(t)
                 PROVE  FALSE
        BY DEF Overlap
    <2>1. t # p /\ t # q
        BY DEF HadLock, TurnedAway
    <2> QED
        BY <2>1 DEF AtMostTwo
<1>2. EntryInv /\ Alone => OneEngine /\ EngineReachable /\ LiveLockKept
    <2> SUFFICES ASSUME EntryInv, Alone PROVE OneEngine /\ EngineReachable /\ LiveLockKept
        OBVIOUS
    <2>1. LiveLockKept
        BY DEF EntryInv, RaceInv, Alone, LockKept, LiveLockKept, PastTheLock, Beyond, OnSocket
    <2>2. OneEngine /\ EngineReachable
        BY DEF Alone, Serving, Engine, OneEngine, EngineReachable
    <2> QED
        BY <2>1, <2>2
<1> QED
    BY <1>1, <1>2, EntryInvariance, OverlapInvariance, PTL
-----------------------------------------------------------------------------
(* Past lock and socket both, where no window was hit: how many it takes *)

\* A server that serves has its socket at the path, or at the claim of a prober that will
\* put it back into the path it left free; and what an engine takes for its own is its own.
Served ==
    /\ \A p \in Procs : Alive(p) /\ pc[p] \in Serving =>
           sock = p \/ (sock = Nobody /\ \E q \in Procs : sockClaim[q] = p)
    /\ \A p, q \in Procs : sockClaim[p] = q /\ Alive(q) /\ pc[q] \in Serving
                             => pc[p] \in {"probe", "putback"}
    /\ \A p \in Procs : Alive(p) /\ pc[p] \in {"engine", "closing"} => owner[p] = p

\* Short of a crowd, three are not on their way to the socket at once, two of them alive.
LEMMA NoThree ==
    ASSUME EntryInv, ~swept, ~Crowded, NEW p \in Procs, NEW q \in Procs, NEW r \in Procs,
           p # q, q # r, p # r, Alive(p), Alive(r),
           pc[p] \in OnSocket, pc[q] \in OnSocket, pc[r] \in OnSocket
    PROVE  FALSE
<1> DEFINE Held(x) == lockFile = x \/ \E t \in Procs : claim[t] = x
<1>1. p \in written /\ q \in written /\ r \in written
    BY DEF EntryInv, Entered
<1>2. \A x \in {p, q, r} : Alive(x) => Held(x)
    BY DEF EntryInv, RaceInv, LockKept, Beyond
<1>3. \A x \in {p, q, r}, t \in Procs : Alive(x) /\ claim[t] = x => TurnedAway(t)
    BY ClaimantIsTurnedAway
<1>4. PICK t \in Procs : TurnedAway(t)
    BY <1>2, <1>3
<1>5. crashed = {Dead} /\ \A u \in Procs \ {t} : ~TurnedAway(u)
    BY <1>1, <1>4 DEF Crowded
<1>6. Alive(q)
    BY <1>5, RunLockAssumption DEF Alive
<1>7. \A x \in {p, q, r} : lockFile = x \/ claim[t] = x
    BY <1>2, <1>3, <1>5, <1>6
<1> QED
    BY <1>7

\* A crowd does not disperse.
LEMMA CrowdStays ==
    ASSUME EntryInv, Crowded, LockNext PROVE Crowded'
<1>1. written \subseteq written' /\ crashed \subseteq crashed'
    BY MovesAlone DEF EntryInv, RaceInv, LockNext, Step, Move, Crash, lockVars
<1>2. crashed # {Dead} => crashed' # {Dead}
    BY <1>1 DEF EntryInv, RaceInv, RaceTypes
<1> QED
    BY <1>1, <1>2, TurnedAwayStays DEF Crowded
-----------------------------------------------------------------------------
\* The steps that move no socket, and take nobody to a socket that serves.
LEMMA ServedUntouched ==
    ASSUME EntryInv, Served, NEW p \in Procs, Move(p), UNCHANGED <<sock, sockClaim, owner>>,
           pc'[p] \in Serving => pc[p] \in Serving,
           pc'[p] \in {"engine", "closing"} => pc[p] \in {"engine", "closing"},
           pc[p] \in {"probe", "putback"} => pc'[p] \in {"probe", "putback"}
    PROVE  Served'
BY MovesAlone DEF EntryInv, RaceInv, Served, Alive

LEMMA ServedByLock ==
    ASSUME EntryInv, Served, NEW p \in Procs, TakeLock(p) PROVE Served'
<1>1. /\ UNCHANGED <<sock, sockClaim, owner>>
      /\ pc[p] \notin {"probe", "putback"} /\ pc'[p] \notin Serving
    BY DEF TakeLock, Create, WriteBody, ObserveLock, RenameLock, VerifyClaim, sockVars, Goto, Serving,
           EntryInv, RaceInv, RaceTypes
<1> QED
    BY <1>1, ServedUntouched DEF Move, Serving

\* A prober takes a socket that is there: nobody else's serves meanwhile.
LEMMA ServedByRename ==
    ASSUME EntryInv, Served, NEW p \in Procs, RenameSocket(p) PROVE Served'
<1> USE DEF EntryInv, RaceInv, RaceTypes
<1>1. \A q \in Procs \ {p} : pc'[q] = pc[q] /\ sockClaim'[q] = sockClaim[q]
    BY MovesAlone DEF Move, TakeSocket
<1>2. pc[p] = "locked" /\ owner' = owner /\ crashed' = crashed
    BY DEF RenameSocket
<1>3. CASE sock = Nobody
    BY <1>2, <1>3, ServedUntouched DEF RenameSocket, Goto, Move, TakeSocket, Serving
<1>4. CASE sock # Nobody
    <2>1. pc'[p] = "probe" /\ sockClaim'[p] = sock /\ sock' = Nobody
        BY <1>4 DEF RenameSocket, Goto
    <2>2. ASSUME NEW q \in Procs, Alive(q), pc'[q] \in Serving
          PROVE  \E r \in Procs : sockClaim'[r] = q
        <3>1. sock = q
            BY <1>1, <1>4, <2>1, <2>2 DEF Served, Serving
        <3> QED
            BY <2>1, <3>1
    <2> QED
        BY <1>1, <1>2, <2>1, <2>2 DEF Served, Alive, Serving
<1> QED
    BY <1>3, <1>4

\* A prober discards what does not serve, or has just missed one that does.
LEMMA ServedByProbe ==
    ASSUME EntryInv, Served, NEW p \in Procs, ProbeSocket(p), ~missed' PROVE Served'
<1> USE DEF EntryInv, RaceInv, RaceTypes
<1>1. \A q \in Procs \ {p} : pc'[q] = pc[q] /\ sockClaim'[q] = sockClaim[q]
    BY MovesAlone DEF Move, TakeSocket
<1>2. pc[p] = "probe" /\ UNCHANGED <<sock, owner, crashed>>
    BY DEF ProbeSocket
<1>3. CASE ~Answers(sockClaim[p])
    <2>1. pc'[p] = "bind" /\ sockClaim'[p] = Nobody
        BY <1>3 DEF ProbeSocket, Goto
    <2>2. ASSUME NEW q \in Procs, Alive(q), pc[q] \in Serving PROVE sockClaim[p] # q
        BY <1>3, <2>2 DEF ProbeSocket, Answers, Serving
    <2> QED
        BY <1>1, <1>2, <2>1, <2>2, RunLockAssumption DEF Served, Alive, Serving
<1>4. CASE Answers(sockClaim[p])
    BY <1>2, <1>4, ServedUntouched DEF ProbeSocket, Goto, Move, TakeSocket, Serving
<1> QED
    BY <1>3, <1>4

\* What it puts back is the only one that serves, or serves no more while no other does.
LEMMA ServedByPutBack ==
    ASSUME EntryInv, ~swept, ~Crowded, Served, NEW p \in Procs, Alive(p), PutBack(p) PROVE Served'
<1> USE DEF EntryInv, RaceInv, RaceTypes
<1>1. \A q \in Procs \ {p} : pc'[q] = pc[q] /\ sockClaim'[q] = sockClaim[q]
    BY MovesAlone DEF Move, TakeSocket
<1>2. pc[p] = "putback" /\ pc'[p] = "leaving" /\ UNCHANGED <<owner, crashed>>
    BY DEF PutBack, Goto
<1>3. CASE sock # Nobody
    <2>1. UNCHANGED <<sock, sockClaim>>
        BY <1>3 DEF PutBack
    <2>2. ASSUME NEW q \in Procs, Alive(q), pc[q] \in Serving PROVE sockClaim[p] # q
        BY <1>3, <2>2, RunLockAssumption DEF Served, OnePlace
    <2> QED
        BY <1>1, <1>2, <2>1, <2>2 DEF Served, Alive, Serving
<1>4. CASE sock = Nobody
    <2>1. sock' = sockClaim[p] /\ sockClaim'[p] = Nobody
        BY <1>4 DEF PutBack
    <2>2. ASSUME NEW q \in Procs, Alive(q), pc'[q] \in Serving PROVE sock' = q
        <3>1. q # p /\ pc[q] \in Serving
            BY <1>1, <1>2, <2>2 DEF Serving
        <3>2. PICK r \in Procs : sockClaim[r] = q
            BY <1>4, <2>2, <3>1, RunLockAssumption DEF Served
        <3>3. pc[r] \in {"probe", "putback"} /\ r # q
            BY <2>2, <3>1, <3>2 DEF Served, Serving
        <3>4. r = p
            BY <1>2, <2>2, <3>1, <3>3, NoThree DEF OnSocket, Serving
        <3> QED
            BY <2>1, <3>2, <3>4
    <2>3. ASSUME NEW r \in Procs, NEW q \in Procs, sockClaim'[r] = q, Alive(q), pc'[q] \in Serving
          PROVE  pc'[r] \in {"probe", "putback"}
        <3>1. r # p /\ sockClaim[r] = q /\ q # p
            BY <1>1, <1>2, <2>1, <2>3, RunLockAssumption DEF Serving
        <3> QED
            BY <1>1, <2>3, <3>1 DEF Served
    <2> QED
        BY <1>1, <1>2, <2>2, <2>3 DEF Served, Alive, Serving
<1> QED
    BY <1>3, <1>4

\* Only one more could bind the path while a prober holds the socket of one that serves.
LEMMA ServedByBind ==
    ASSUME EntryInv, ~swept, ~Crowded, Served, NEW p \in Procs, Alive(p), Bind(p) PROVE Served'
<1> USE DEF EntryInv, RaceInv, RaceTypes
<1>1. \A q \in Procs \ {p} : pc'[q] = pc[q]
    BY MovesAlone DEF Move, TakeSocket
<1>2. pc[p] = "bind" /\ UNCHANGED <<sockClaim, owner, crashed>>
    BY DEF Bind
<1>3. CASE sock = Nobody
    <2>1. pc'[p] = "bound" /\ sock' = p
        BY <1>3 DEF Bind, Goto
    <2>2. \A r \in Procs : sockClaim[r] # p
        BY <1>2 DEF OnePlace, Unbound
    <2>3. ASSUME NEW q \in Procs, Alive(q), pc'[q] \in Serving
          PROVE  q = p
        <3> SUFFICES ASSUME q # p PROVE FALSE
            OBVIOUS
        <3>1. pc[q] \in Serving
            BY <1>1, <2>3
        <3>2. PICK r \in Procs : sockClaim[r] = q
            BY <1>3, <2>3, <3>1, RunLockAssumption DEF Served
        <3>3. pc[r] \in {"probe", "putback"}
            BY <2>3, <3>1, <3>2 DEF Served
        <3> QED
            BY <1>2, <2>3, <3>1, <3>3, NoThree DEF OnSocket, Serving
    <2> QED
        BY <1>1, <1>2, <2>1, <2>2, <2>3 DEF Served, Alive
<1>4. CASE sock # Nobody
    BY <1>2, <1>4, ServedUntouched DEF Bind, Goto, Move, TakeSocket, Serving
<1> QED
    BY <1>3, <1>4

\* What a server finds at the path is its own socket, or nothing.
LEMMA ServedByBound ==
    ASSUME EntryInv, Served, NEW p \in Procs, Alive(p), Bound(p) PROVE Served'
<1> USE DEF EntryInv, RaceInv, RaceTypes
<1>1. \A q \in Procs \ {p} : pc'[q] = pc[q] /\ owner'[q] = owner[q]
    BY MovesAlone DEF Move, TakeSocket
<1>2. pc[p] = "listening" /\ UNCHANGED <<sock, sockClaim, crashed>>
    BY DEF Bound
<1>3. CASE sock # Nobody
    <2>1. pc'[p] = "engine" /\ owner'[p] = sock
        BY <1>3 DEF Bound, StillBound, Goto
    <2>2. sock = p
        BY <1>2, <1>3 DEF Served, Serving
    <2> QED
        BY <1>1, <1>2, <2>1, <2>2 DEF Served, Alive, Serving
<1>4. CASE sock = Nobody
    BY <1>2, <1>4, ServedUntouched DEF Bound, StillBound, Goto, Move, TakeSocket, Serving
<1> QED
    BY <1>3, <1>4

\* An engine that closes takes no socket away but its own.
LEMMA ServedByClose ==
    ASSUME EntryInv, Served, NEW p \in Procs, Alive(p), Close(p) PROVE Served'
<1> USE DEF EntryInv, RaceInv, RaceTypes
<1>1. \A q \in Procs \ {p} : pc'[q] = pc[q]
    BY MovesAlone DEF Move, LetGo
<1>2. /\ pc[p] = "closing" /\ pc'[p] = "leaving" /\ UNCHANGED <<sockClaim, owner, crashed>>
      /\ sock' = Nobody
    BY DEF Close, Goto
<1>3. sock \in {p, Nobody}
    BY <1>2 DEF Served, Serving
<1> QED
    BY <1>1, <1>2, <1>3 DEF Served, Alive, Serving

LEMMA ServedByMove ==
    ASSUME EntryInv, Served, NEW p \in Procs, Alive(p), Move(p), ~Crowded, ~missed', ~swept'
    PROVE  Served'
<1>1. ~swept
    BY MovesAlone DEF EntryInv, RaceInv
<1>2. CASE Listen(p) \/ Finish(p) \/ ReadOwn(p) \/ Unlock(p)
    <2>1. /\ UNCHANGED <<sock, sockClaim, owner>>
          /\ pc'[p] \in Serving => pc[p] \in Serving
          /\ pc'[p] \in {"engine", "closing"} => pc[p] \in {"engine", "closing"}
          /\ pc[p] \notin {"probe", "putback"}
        BY <1>2 DEF Listen, Finish, ReadOwn, Unlock, Ended, Goto, sockVars, Serving, EntryInv, RaceInv, RaceTypes
    <2> QED
        BY <2>1, ServedUntouched
<1> QED
    BY <1>1, <1>2, ServedByLock, ServedByRename, ServedByProbe, ServedByPutBack, ServedByBind,
       ServedByBound, ServedByClose DEF Move, TakeSocket, LetGo

Disturbed == Crowded \/ missed \/ swept

LEMMA CrowdInvariance == LockSpec => [](Disturbed \/ Served)
<1>1. LockInit => Served
    BY RunLockAssumption DEF LockInit, Served, File, Serving
<1>2. EntryInv /\ (Disturbed \/ Served) /\ [LockNext]_raceVars => (Disturbed \/ Served)'
    <2> SUFFICES ASSUME EntryInv, Disturbed \/ Served, [LockNext]_raceVars PROVE (Disturbed \/ Served)'
        OBVIOUS
    <2>1. CASE UNCHANGED raceVars
        BY <2>1 DEF Disturbed, Crowded, TurnedAway, Served, Alive, raceVars, lockVars, sockVars, mishaps
    <2>2. CASE Crowded /\ LockNext
        BY <2>2, CrowdStays DEF Disturbed
    <2>3. ASSUME NEW p \in Procs, Crash(p), missed \/ swept \/ Served
          PROVE  missed' \/ swept' \/ Served'
        BY <2>3 DEF Crash, Served, Alive, lockVars, sockVars, mishaps
    <2>4. ASSUME missed \/ swept, NEW p \in Procs, Move(p) PROVE missed' \/ swept'
        BY <2>4, MovesAlone DEF EntryInv, RaceInv
    <2>5. ASSUME ~Crowded, Served, NEW p \in Procs, Alive(p), Move(p) PROVE missed' \/ swept' \/ Served'
        BY <2>5, ServedByMove
    <2> QED
        BY <2>1, <2>2, <2>3, <2>4, <2>5 DEF LockNext, Step, Move, Disturbed
<1> QED
    BY <1>1, <1>2, EntryInvariance, PTL DEF LockSpec

\* However many contend, and crash: two engines at once, or an engine that nobody reaches,
\* take a window that was hit, or three contenders that had the lock, one that was turned
\* away from it, and a crash or another one turned away.
THEOREM RaceTakesACrowd ==
    LockSpec => [](Crowded \/ missed \/ swept \/ (OneEngine /\ EngineReachable))
<1>1. EntryInv /\ (Disturbed \/ Served) => Crowded \/ missed \/ swept \/ (OneEngine /\ EngineReachable)
    <2> SUFFICES ASSUME EntryInv, Served, ~Crowded, ~swept PROVE OneEngine /\ EngineReachable
        BY DEF Disturbed
    <2>1. EngineReachable
        BY DEF Served, EngineReachable, Engine, Serving
    <2>2. OneEngine
        <3> SUFFICES ASSUME NEW p \in Procs, NEW q \in Procs, Engine(p), Engine(q), p # q PROVE FALSE
            BY DEF OneEngine
        <3>1. sock = Nobody
            BY DEF Served, Engine, Serving
        <3>2. PICK r \in Procs : sockClaim[r] = p
            BY <3>1, RunLockAssumption DEF Served, Engine, Serving
        <3>3. pc[r] \in {"probe", "putback"}
            BY <3>2 DEF Served, Engine, Serving
        <3> QED
            BY <3>3, NoThree DEF Engine, OnSocket
    <2> QED
        BY <2>1, <2>2
<1> QED
    BY <1>1, EntryInvariance, CrowdInvariance, PTL
-----------------------------------------------------------------------------
\* Too few for a crowd: three, or four none of whom crashes.
Few ==
    /\ IsFiniteSet(Procs)
    /\ Cardinality(Procs) <= 3 \/ (Cardinality(Procs) <= 4 /\ MaxCrashes = 0)

LEMMA FourAreFour ==
    ASSUME IsFiniteSet(Procs), NEW a \in Procs, NEW b \in Procs, NEW c \in Procs, NEW d \in Procs,
           a # b, a # c, a # d, b # c, b # d, c # d
    PROVE  IsFiniteSet({a, b, c, d}) /\ Cardinality({a, b, c, d}) = 4 /\ Cardinality(Procs) >= 4
<1>1. IsFiniteSet({a}) /\ Cardinality({a}) = 1
    BY FS_Singleton
<1>2. IsFiniteSet({a, b}) /\ Cardinality({a, b}) = 2
    <2>1. {a, b} = {a} \cup {b}
        OBVIOUS
    <2> QED
        BY <1>1, <2>1, FS_AddElement
<1>3. IsFiniteSet({a, b, c}) /\ Cardinality({a, b, c}) = 3
    <2>1. {a, b, c} = {a, b} \cup {c}
        OBVIOUS
    <2> QED
        BY <1>2, <2>1, FS_AddElement
<1>4. IsFiniteSet({a, b, c, d}) /\ Cardinality({a, b, c, d}) = 4
    <2>1. {a, b, c, d} = {a, b, c} \cup {d} /\ d \notin {a, b, c}
        OBVIOUS
    <2>2. /\ IsFiniteSet({a, b, c} \cup {d})
          /\ Cardinality({a, b, c} \cup {d}) = Cardinality({a, b, c}) + 1
        BY <1>3, <2>1, FS_AddElement
    <2> QED
        BY <1>3, <2>1, <2>2
<1>5. {a, b, c, d} \in SUBSET Procs
    OBVIOUS
<1>6. Cardinality({a, b, c, d}) <= Cardinality(Procs) /\ Cardinality(Procs) \in Nat
    BY <1>5, FS_Subset, FS_CardinalityType
<1> QED
    BY <1>4, <1>6

LEMMA FewAreNoCrowd ==
    ASSUME Few, crashed = {Dead} \/ Cardinality(Procs) <= 3 PROVE ~Crowded
<1> SUFFICES ASSUME NEW p \in Procs \cap written, NEW q \in Procs \cap written,
                    NEW r \in Procs \cap written, NEW t \in Procs,
                    p # q, q # r, p # r, TurnedAway(t),
                    crashed # {Dead} \/ \E u \in Procs \ {t} : TurnedAway(u)
             PROVE  FALSE
    BY DEF Crowded
<1>1. t \notin {p, q, r}
    BY DEF TurnedAway
<1>2. Cardinality(Procs) >= 4 /\ Cardinality(Procs) \in Nat
    BY <1>1, FourAreFour, FS_CardinalityType DEF Few
<1>3. Cardinality(Procs) <= 4
    BY <1>2 DEF Few
<1>4. crashed = {Dead}
    BY <1>2
<1>5. PICK u \in Procs \ {t} : TurnedAway(u)
    BY <1>4
<1>6. u \notin {p, q, r}
    BY <1>5 DEF TurnedAway
<1>7. Cardinality({p, q, r, t}) = 4 /\ {p, q, r, t} \in SUBSET Procs
    BY <1>1, FourAreFour DEF Few
<1>8. {p, q, r, t} = Procs
    BY <1>2, <1>3, <1>7, FS_Subset DEF Few
<1> QED
    BY <1>5, <1>6, <1>8

LEMMA NobodyCrashes == MaxCrashes = 0 => (LockSpec => [](crashed = {Dead}))
<1> SUFFICES ASSUME MaxCrashes = 0 PROVE LockSpec => [](crashed = {Dead})
    OBVIOUS
<1>1. LockInit => crashed = {Dead}
    BY DEF LockInit
<1>2. RaceInv /\ crashed = {Dead} /\ [LockNext]_raceVars => (crashed = {Dead})'
    <2> SUFFICES ASSUME RaceInv, crashed = {Dead}, [LockNext]_raceVars PROVE crashed' = {Dead}
        OBVIOUS
    <2>1. crashed \ {Dead} = {} /\ Cardinality({}) = 0
        BY FS_EmptySet
    <2>2. \A p \in Procs : ~Crash(p)
        BY <2>1 DEF Crash
    <2> QED
        BY <2>2, MovesAlone DEF RaceInv, LockNext, Step, Move, raceVars
<1> QED
    BY <1>1, <1>2, RaceInvariance, PTL DEF LockSpec

LEMMA FewNeverCrowd == Few => (LockSpec => []~Crowded)
<1>1. CASE Few /\ Cardinality(Procs) <= 3
    <2>1. ~Crowded
        BY <1>1, FewAreNoCrowd
    <2> QED
        BY <2>1, PTL
<1>2. CASE Few /\ MaxCrashes = 0
    <2>1. crashed = {Dead} => ~Crowded
        BY <1>2, FewAreNoCrowd
    <2> QED
        BY <1>2, <2>1, NobodyCrashes, PTL
<1> QED
    BY <1>1, <1>2 DEF Few

\* Three contenders, however many crash, or four that do not, become two engines only in
\* an overlap in which a socket or a name was taken in one of the windows.
THEOREM FewHaveOneEngine == Few => (LockSpec => []OneEngineUnlessSlipped)
<1> SUFFICES ASSUME Few PROVE LockSpec => []OneEngineUnlessSlipped
    OBVIOUS
<1>1. /\ ~Crowded
      /\ Crowded \/ missed \/ swept \/ (OneEngine /\ EngineReachable)
      /\ missed \/ swept \/ withdrawn => Overlap
      => OneEngineUnlessSlipped
    BY DEF OneEngineUnlessSlipped
<1> QED
    BY <1>1, FewNeverCrowd, RaceTakesACrowd, WindowsNeedAnOverlap, PTL

\* And only then can the one that is the engine not be reached.
THEOREM FewReachTheirEngine == Few => (LockSpec => []ReachableUnlessSlipped)
<1> SUFFICES ASSUME Few PROVE LockSpec => []ReachableUnlessSlipped
    OBVIOUS
<1>1. /\ ~Crowded
      /\ Crowded \/ missed \/ swept \/ (OneEngine /\ EngineReachable)
      /\ missed \/ swept \/ withdrawn => Overlap
      => ReachableUnlessSlipped
    BY DEF ReachableUnlessSlipped
<1> QED
    BY <1>1, FewNeverCrowd, RaceTakesACrowd, WindowsNeedAnOverlap, PTL
-----------------------------------------------------------------------------
(* Not everybody is refused *)

Entrants == Procs \cap written

\* Refused, or on the way out without having been the engine.
Out(p) == pc[p] = "refused" \/ (pc[p] \in {"leaving", "unlock"} /\ owner[p] = Nobody)

\* Without a crash, and while no prober puts back what its server has given up: the socket
\* at the path is nobody's who is out, a dead one is there only until the first contender
\* comes past the lock, and when all who came past it are out or have just bound, one of
\* their sockets is there.
Hope ==
    /\ sock \in Procs => ~Out(sock)
    /\ sock = Dead => \A p \in Entrants : pc[p] = "locked"
    /\ Entrants # {} => sock # Nobody \/ \E p \in Entrants : ~Out(p) /\ pc[p] \notin {"bound", "listening"}

NotAllRefused == Procs # {} => \E p \in Procs : pc[p] # "refused"

HopeOrNot == crashed = {Dead} => withdrawn \/ (Hope /\ NotAllRefused)

SomebodyIsIn == Entrants # {} => \E p \in Entrants : pc[p] # "refused"

LEMMA SomebodyIn ==
    EntryInv /\ Hope => SomebodyIsIn
<1> USE DEF SomebodyIsIn
<1> SUFFICES ASSUME EntryInv, Hope, Entrants # {} PROVE \E p \in Entrants : pc[p] # "refused"
    OBVIOUS
<1>1. CASE sock = Nobody
    BY <1>1 DEF Hope, Out
<1>2. CASE sock = Dead
    BY <1>2 DEF Hope
<1>3. CASE sock \in Procs
    <2>1. pc[sock] \in OnSocket \cup {"over"}
        BY <1>3 DEF Hope, Out, EntryInv, RaceInv, RaceTypes, OnePlace, Unbound, OnSocket, Beyond
    <2> QED
        BY <1>3, <2>1 DEF EntryInv, Entered, OnSocket, Entrants
<1> QED
    BY <1>1, <1>2, <1>3 DEF EntryInv, RaceInv, RaceTypes, File

\* Those who never bind change nothing at the socket, and those who enter are at its door.
LEMMA HopeByLock ==
    ASSUME EntryInv, Hope, NEW p \in Procs, TakeLock(p) PROVE Hope'
<1> USE DEF EntryInv, RaceInv, RaceTypes
<1>1. \A q \in Procs \ {p} : pc'[q] = pc[q] /\ owner'[q] = owner[q]
    BY MovesAlone DEF Move
<1>2. /\ sock' = sock
      /\ pc[p] \in Contending \cup {"opened"}
      /\ \/ written' = written
         \/ written' = written \cup {p} /\ pc'[p] = "locked"
    BY DEF TakeLock, Create, WriteBody, ObserveLock, RenameLock, VerifyClaim, sockVars, Goto, Contending
<1>3. sock # p /\ p \notin written
    BY <1>2 DEF OnePlace, Entered, Contending, Unbound
<1>4. sock' \in Procs => ~Out(sock)'
    BY <1>1, <1>2, <1>3 DEF Hope, Out
<1>5. sock' = Dead => \A q \in Entrants' : pc'[q] = "locked"
    BY <1>1, <1>2, <1>3 DEF Hope, Entrants
<1>6. Entrants' # {} => sock' # Nobody \/ \E q \in Entrants' : ~Out(q)' /\ pc'[q] \notin {"bound", "listening"}
    BY <1>1, <1>2, <1>3 DEF Hope, Entrants, Out
<1> QED
    BY <1>4, <1>5, <1>6 DEF Hope

LEMMA HopeBySocket ==
    ASSUME EntryInv, Hope, ~withdrawn', NEW p \in Procs, TakeSocket(p) \/ LetGo(p) \/ Finish(p)
    PROVE  Hope'
<1> USE RunLockAssumption DEF EntryInv, RaceInv, RaceTypes
<1>1. \A q \in Procs \ {p} : pc'[q] = pc[q] /\ (Out(q) <=> Out(q)')
    BY MovesAlone DEF Move, Out
<1>2. written' = written /\ p \in Entrants /\ Entrants' = Entrants
    BY SocketLeavesLock DEF Entered, OnSocket, Entrants
<1> SUFFICES /\ sock' \in Procs => ~Out(sock)'
             /\ sock' = Dead => \A q \in Entrants : pc'[q] = "locked"
             /\ sock' # Nobody \/ \E q \in Entrants : ~Out(q)' /\ pc'[q] \notin {"bound", "listening"}
    BY <1>2 DEF Hope
<1>3. CASE RenameSocket(p)
    <2>1. sock' = Nobody /\ pc'[p] \in {"bind", "probe"}
        BY <1>3 DEF RenameSocket, Goto
    <2> QED
        BY <1>2, <2>1 DEF Out
<1> DEFINE Stays == ~Out(p)' /\ pc'[p] \notin {"bound", "listening"}
<1>4. sock = Dead => pc[p] = "locked"
    BY <1>2 DEF Hope
<1>5. CASE ProbeSocket(p)
    <2>1. sock' = sock /\ Stays /\ sock # Dead
        BY <1>4, <1>5 DEF ProbeSocket, Goto, Out
    <2> QED
        BY <1>1, <1>2, <2>1 DEF Hope
<1>6. CASE PutBack(p)
    <2>1. pc[p] = "putback" /\ pc'[p] = "leaving" /\ sock # p /\ sock # Dead
        BY <1>4, <1>6 DEF PutBack, Goto, OnePlace, Unbound
    <2>2. CASE sock # Nobody
        <3>1. sock' = sock /\ sock \in Procs
            BY <1>6, <2>1, <2>2 DEF PutBack, File
        <3> QED
            BY <1>1, <2>1, <2>2, <3>1 DEF Hope
    <2>3. CASE sock = Nobody
        <3>1. sock' = sockClaim[p] /\ Answers(sockClaim[p]) /\ owner' = owner
            BY <1>6, <2>3 DEF PutBack
        <3>2. sock' \in Procs /\ pc[sock'] \in {"listening", "engine", "closing"} /\ sock' # p
            BY <2>1, <3>1 DEF Answers
        <3>3. ~Out(sock)'
            BY <1>1, <3>2 DEF Out
        <3> QED
            BY <3>2, <3>3
    <2> QED
        BY <2>2, <2>3
<1>7. CASE Bind(p)
    <2>1. pc[p] = "bind" /\ sock # p /\ sock # Dead
        BY <1>4, <1>7 DEF Bind, OnePlace, Unbound
    <2>2. CASE sock = Nobody
        <3>1. sock' = p /\ ~Out(p)'
            BY <1>7, <2>2 DEF Bind, Goto, Out
        <3> QED
            BY <3>1, <2>1
    <2>3. CASE sock # Nobody
        <3>1. sock' = sock /\ sock \in Procs
            BY <1>7, <2>1, <2>3 DEF Bind, File
        <3> QED
            BY <1>1, <2>1, <2>3, <3>1 DEF Hope
    <2> QED
        BY <2>2, <2>3
<1>8. CASE Listen(p) \/ Bound(p)
    <2>1. pc[p] \in {"bound", "listening"} /\ sock' = sock /\ sock # Dead
        BY <1>4, <1>8 DEF Listen, Bound, sockVars
    <2>2. CASE sock = Nobody
        <3>1. PICK q \in Entrants : ~Out(q) /\ pc[q] \notin {"bound", "listening"}
            BY <1>2, <2>2 DEF Hope
        <3>2. q # p /\ q \in Procs
            BY <2>1, <3>1 DEF Entrants
        <3> QED
            BY <1>1, <2>1, <2>2, <3>1, <3>2
    <2>3. CASE sock # Nobody
        <3>1. ~Out(p)'
            BY <1>8, <2>3 DEF Listen, Bound, StillBound, Goto, Out
        <3> QED
            BY <1>1, <2>1, <2>3, <3>1 DEF Hope
    <2> QED
        BY <2>2, <2>3
<1>9. CASE Finish(p) \/ Close(p)
    <2>1. sock' \in {sock, Nobody} /\ sock # Dead /\ Stays
        BY <1>4, <1>9 DEF Finish, Close, Goto, Out, Entered, sockVars
    <2> QED
        BY <1>1, <1>2, <2>1 DEF Hope
<1>10. CASE ReadOwn(p) \/ Unlock(p)
    <2>1. pc[p] \in {"leaving", "unlock"} /\ sock' = sock /\ owner' = owner /\ sock # Dead
          /\ (Out(p) <=> Out(p)') /\ pc'[p] \notin {"bound", "listening"}
        BY <1>4, <1>10 DEF ReadOwn, Unlock, Ended, Goto, Out, sockVars
    <2>2. CASE sock = Nobody
        <3>1. PICK q \in Entrants : ~Out(q) /\ pc[q] \notin {"bound", "listening"}
            BY <1>2, <2>2 DEF Hope
        <3>2. ~Out(q)' /\ pc'[q] \notin {"bound", "listening"}
            BY <1>1, <2>1, <3>1 DEF Entrants
        <3> QED
            BY <2>1, <2>2, <3>1, <3>2
    <2>3. CASE sock # Nobody
        BY <1>1, <2>1, <2>3 DEF Hope
    <2> QED
        BY <2>2, <2>3
<1> QED
    BY <1>3, <1>5, <1>6, <1>7, <1>8, <1>9, <1>10 DEF TakeSocket, LetGo

\* Whoever is refused leaves another one behind.
LEMMA RefusedByAnother ==
    ASSUME EntryInv, Hope, Hope', EntryInv', NEW p \in Procs, Move(p)
    PROVE  NotAllRefused'
<1> USE RunLockAssumption DEF EntryInv, RaceInv, RaceTypes
<1>1. \A q \in Procs \ {p} : pc'[q] = pc[q]
    BY MovesAlone
<1>2. CASE pc'[p] # "refused"
    BY <1>2 DEF NotAllRefused
<1>3. CASE Entrants' # {}
    <2>1. (EntryInv /\ Hope => SomebodyIsIn)'
        BY SomebodyIn, PTL
    <2> QED
        BY <1>3, <2>1 DEF SomebodyIsIn, NotAllRefused, Entrants
<1>4. ASSUME NEW x \in Procs, HadLock(x), pc[p] \in Contending PROVE NotAllRefused'
    <2>1. CASE x \in written
        <3>1. PICK q \in Entrants : pc[q] # "refused"
            BY <2>1, SomebodyIn DEF SomebodyIsIn, Entrants
        <3>2. q # p
            BY <1>4 DEF Entered, Entrants
        <3> QED
            BY <1>1, <3>1, <3>2 DEF NotAllRefused, Entrants
    <2>2. CASE pc[x] = "opened"
        BY <1>1, <1>4, <2>2 DEF NotAllRefused, Contending
    <2> QED
        BY <1>4, <2>1, <2>2 DEF HadLock
<1>5. CASE ObserveLock(p) /\ pc'[p] = "refused"
    <2>1. lockFile \in Procs /\ pc[p] \in Contending
        BY <1>5 DEF ObserveLock, Goto, Contending
    <2> QED
        BY <1>4, <2>1 DEF Created
<1>6. CASE VerifyClaim(p) /\ pc'[p] = "refused"
    <2>1. pc[p] = "verify" /\ ~ClaimedTheDead(p)
        BY <1>6 DEF VerifyClaim, Goto
    <2>2. claim[p] \in File /\ observed[p] \in File
        BY <2>1 DEF Entered, DeadSeen, MayBeGone, File
    <2>3. CASE claim[p] \in Procs
        BY <1>4, <2>1, <2>3 DEF Created, Contending
    <2>4. CASE observed[p] \in Procs
        BY <1>4, <2>1, <2>4 DEF Created, Contending
    <2>5. CASE claim[p] = Dead /\ observed[p] = Dead
        BY <2>1, <2>5 DEF ClaimedTheDead
    <2> QED
        BY <2>2, <2>3, <2>4, <2>5 DEF File
<1>7. CASE TakeSocket(p) \/ LetGo(p) \/ Finish(p)
    <2>1. p \in Entrants'
        BY <1>7, SocketLeavesLock DEF Entered, OnSocket, Entrants
    <2> QED
        BY <1>3, <2>1
<1>8. TakeLock(p) /\ pc'[p] = "refused" => ObserveLock(p) \/ VerifyClaim(p)
    BY DEF TakeLock, Create, WriteBody, RenameLock, Goto
<1> QED
    BY <1>2, <1>5, <1>6, <1>7, <1>8 DEF Move

\* However many contend: while nobody crashes, they all refuse each other only in an overlap
\* in which a prober put back the socket of a server that had given up meanwhile.
THEOREM SomebodyStays == LockSpec => [](crashed = {Dead} => NotAllRefused \/ (Overlap /\ withdrawn))
<1>1. LockInit => HopeOrNot
    BY RunLockAssumption DEF LockInit, HopeOrNot, Hope, NotAllRefused, Entrants, File
<1>2. EntryInv /\ EntryInv' /\ HopeOrNot /\ [LockNext]_raceVars => HopeOrNot'
    <2> SUFFICES ASSUME EntryInv, EntryInv', HopeOrNot, [LockNext]_raceVars, crashed' = {Dead}, ~withdrawn'
                 PROVE  Hope' /\ NotAllRefused'
        BY DEF HopeOrNot
    <2>1. CASE UNCHANGED raceVars
        BY <2>1 DEF HopeOrNot, Hope, Out, NotAllRefused, Entrants, raceVars, lockVars, sockVars, mishaps
    <2>2. ASSUME NEW p \in Procs, Crash(p) PROVE FALSE
        BY <2>2, RunLockAssumption DEF Crash
    <2>3. ASSUME NEW p \in Procs, Move(p) PROVE Hope' /\ NotAllRefused'
        <3>1. crashed = {Dead} /\ ~withdrawn
            BY <2>3, MovesAlone DEF EntryInv, RaceInv
        <3>2. Hope
            BY <3>1 DEF HopeOrNot
        <3>3. Hope'
            BY <2>3, <3>2, HopeByLock, HopeBySocket DEF Move
        <3> QED
            BY <2>3, <3>2, <3>3, RefusedByAnother
    <2> QED
        BY <2>1, <2>2, <2>3 DEF LockNext, Step, Move
<1>3. HopeOrNot /\ (missed \/ swept \/ withdrawn => Overlap)
          => (crashed = {Dead} => NotAllRefused \/ (Overlap /\ withdrawn))
    BY DEF HopeOrNot
<1> QED
    BY <1>1, <1>2, <1>3, EntryInvariance, WindowsNeedAnOverlap, PTL DEF LockSpec
=============================================================================
