----------------------------- MODULE RunHandoff -----------------------------
(***************************************************************************)
(* Deleting a run against resuming it (src/run-lock.js, the delete of      *)
(* src/retention.js, claimRun of src/engine.js, resumeIsStarting of        *)
(* src/run-state.js).  A launcher hands a run to a detached child through  *)
(* the marker .resuming and may exit before the child runs; a delete moves *)
(* the run's directory to the trash under the run lock and moves it back   *)
(* when it finds that a marker travelled along; anybody who derives the    *)
(* run's state sweeps a marker that has aged.                              *)
(*                                                                         *)
(* One directory, at runs/<id> or in the trash; what is in it travels with *)
(* it.  All of it is file-system calls of different processes, so an       *)
(* action is one call, or calls between which nobody else can make a       *)
(* difference.  The mark of a launcher is the launcher itself: it is       *)
(* young, no launch outlasts the 30 s of RESUME_LAUNCH_MS.  Aged is the    *)
(* mark of a launch that failed long ago.                                  *)
(***************************************************************************)
EXTENDS Naturals

CONSTANTS
    Launchers,  \* detached resumes of the run, one launch each
    Deleters,   \* deletes of the run, one attempt each
    Readers,    \* processes that derive the run's state again and again
    HasAged,    \* TRUE: a failed launch has left its marker
    None, Aged

ASSUME HandoffAssumption ==
    /\ HasAged \in BOOLEAN
    /\ None # Aged
    /\ {None, Aged} \cap (Launchers \cup Deleters \cup Readers) = {}
    /\ Launchers \cap Deleters = {} /\ (Launchers \cup Deleters) \cap Readers = {}

VARIABLES
    where,      \* the directory is in "runs" or in the "trash"
    lock,       \* who wrote run.lock: a deleter, or the child of a launcher
    marker,     \* whose mark .resuming is
    tmps,       \* launchers whose .resuming.*.tmp exists
    claims,     \* .resuming.claim.* files: who claimed whose mark
    launch,     \* launcher -> where its launch stands
    child,      \* launcher -> where its detached child stands
    after,      \* launcher -> what the child does when no delete is in progress
    sawTrash,   \* launcher -> the child's listing of the trash had the run
    final,      \* launcher -> the child is at its last claim
    del,        \* deleter -> where removeRun stands
    baseline,   \* deleter -> marksBefore
    look,       \* observer -> where its resumeIsStarting stands, or its answer
    pass,       \* observer -> which pass of the loop, 0 or 1
    listed,     \* observer -> the claims its readdir returned
    holding,    \* observer -> the mark it renamed to its claim
    cleared,    \* history: launchers whose engine cleared .resuming
    moved       \* history: an observer moved a young marker to a claim of its own

Observers == Deleters \cup Readers
Mark      == Launchers \cup {Aged}

dirVars    == <<where, lock, marker, tmps, claims>>
launchVars == <<launch>>
childVars  == <<child, after, sawTrash, final, cleared>>
delVars    == <<del, baseline>>
lookVars   == <<look, pass, listed, holding, moved>>
vars       == <<dirVars, launchVars, childVars, delVars, lookVars>>

Looking == {"read", "claim", "judge", "list", "stat"}
Waiting == {"list", "readRuns", "readTrash", "load", "claim"}

\* The names and inodes that count as launch intent.
IsMark(x) ==
    \/ \E l \in Launchers : x = <<"tmp", l, l>>
    \/ \E m \in Mark : x = <<"marker", None, m>>
    \/ \E o \in Observers, m \in Mark : x = <<"claim", o, m>>

TypeOK ==
    /\ where \in {"runs", "trash"}
    /\ lock \in Launchers \cup Deleters \cup {None}
    /\ marker \in Mark \cup {None}
    /\ tmps \subseteq Launchers
    /\ claims \subseteq Observers \X Mark
    /\ launch \in [Launchers -> {"idle", "tmp", "renamed", "accepted", "refused"}]
    /\ child \in [Launchers -> {"none", "owns", "running", "over", "lost"} \cup Waiting]
    /\ after \in [Launchers -> {"load", "claim"}]
    /\ sawTrash \in [Launchers -> BOOLEAN] /\ final \in [Launchers -> BOOLEAN]
    /\ del \in [Deleters -> {"idle", "pre", "lock", "baseline", "check", "rename",
                             "audit", "release", "restored", "deleted", "refused",
                             "rolledBack"}]
    /\ \A d \in Deleters : \A x \in baseline[d] : IsMark(x)
    /\ look \in [Observers -> {"off", "starting", "quiet"} \cup Looking]
    /\ pass \in [Observers -> 0..1]
    /\ \A o \in Observers : listed[o] \subseteq Observers \X Mark
    /\ holding \in [Observers -> Mark \cup {None}]
    /\ cleared \subseteq Launchers /\ moved \in BOOLEAN

Init ==
    /\ where = "runs" /\ lock = None /\ tmps = {} /\ claims = {}
    /\ marker = IF HasAged THEN Aged ELSE None
    /\ launch = [l \in Launchers |-> "idle"]
    /\ child = [l \in Launchers |-> "none"]
    /\ after = [l \in Launchers |-> "load"]
    /\ sawTrash = [l \in Launchers |-> FALSE] /\ final = [l \in Launchers |-> FALSE]
    /\ del = [d \in Deleters |-> "idle"] /\ baseline = [d \in Deleters |-> {}]
    /\ look = [o \in Observers |-> "off"] /\ pass = [o \in Observers |-> 0]
    /\ listed = [o \in Observers |-> {}] /\ holding = [o \in Observers |-> None]
    /\ cleared = {} /\ moved = FALSE

InPlace == where = "runs"
-----------------------------------------------------------------------------
(* A launcher: installResumeMarker(), then the spawn of the child *)

WriteTmp(l) ==
    /\ launch[l] = "idle"
    /\ \/ InPlace /\ tmps' = tmps \cup {l} /\ launch' = [launch EXCEPT ![l] = "tmp"]
       \/ ~InPlace /\ launch' = [launch EXCEPT ![l] = "refused"] /\ UNCHANGED tmps
    /\ UNCHANGED <<where, lock, marker, claims, childVars, delVars, lookVars>>

\* The rename replaces whatever marker is there; in the trash the tmp is stranded.
RenameTmp(l) ==
    /\ launch[l] = "tmp"
    /\ \/ /\ InPlace
          /\ tmps' = tmps \ {l} /\ marker' = l
          /\ launch' = [launch EXCEPT ![l] = "renamed"]
       \/ /\ ~InPlace
          /\ launch' = [launch EXCEPT ![l] = "refused"]
          /\ UNCHANGED <<tmps, marker>>
    /\ UNCHANGED <<where, lock, claims, childVars, delVars, lookVars>>

\* runs/<id>/.resuming resolves, be it another launcher's.
StillResolves == InPlace /\ marker # None

Verify(l) ==
    /\ launch[l] = "renamed"
    /\ \/ /\ StillResolves
          /\ launch' = [launch EXCEPT ![l] = "accepted"]
          /\ child' = [child EXCEPT ![l] = "list"]
       \/ /\ ~StillResolves
          /\ launch' = [launch EXCEPT ![l] = "refused"]
          /\ UNCHANGED child
    /\ UNCHANGED <<dirVars, after, sawTrash, final, cleared, delVars, lookVars>>
-----------------------------------------------------------------------------
(* The child: settleDelete(), the journal, claimRun() *)

\* deleteInProgress(): the trash is listed, the lock is read at runs/<id>, then
\* in the entries of the listing.
ListTrash(l) ==
    /\ child[l] = "list"
    /\ sawTrash' = [sawTrash EXCEPT ![l] = ~InPlace]
    /\ child' = [child EXCEPT ![l] = "readRuns"]
    /\ UNCHANGED <<dirVars, launchVars, after, final, cleared, delVars, lookVars>>

\* While a delete is in progress, ask again (settleDelete) or claim again.
Again(l) == IF after[l] = "load" THEN "list" ELSE "claim"

ReadRuns(l) ==
    /\ child[l] = "readRuns"
    /\ child' = [child EXCEPT ![l] =
                   IF InPlace /\ lock \in Deleters THEN Again(l) ELSE "readTrash"]
    /\ UNCHANGED <<dirVars, launchVars, after, sawTrash, final, cleared, delVars, lookVars>>

\* A slip: the claim that failed decides.
FinalClaim_None == "lost"

\* Once no delete is in progress one more claim decides.
FinalClaim == "claim"

\* A slip: the child claims for as long as it fails.
IsFinal_Never(l) == FALSE

IsFinal(l) == after[l] = "claim"

ReadTrash(l) ==
    /\ child[l] = "readTrash"
    /\ \/ /\ ~InPlace /\ sawTrash[l] /\ lock \in Deleters
          /\ child' = [child EXCEPT ![l] = Again(l)]
          /\ UNCHANGED final
       \/ /\ InPlace \/ ~sawTrash[l] \/ lock \notin Deleters
          /\ child' = [child EXCEPT ![l] = IF after[l] = "load" THEN "load" ELSE FinalClaim]
          /\ final' = [final EXCEPT ![l] = IsFinal(l)]
    /\ UNCHANGED <<dirVars, launchVars, after, sawTrash, cleared, delVars, lookVars>>

LoadJournal(l) ==
    /\ child[l] = "load"
    /\ child' = [child EXCEPT ![l] = IF InPlace THEN "claim" ELSE "lost"]
    /\ after' = [after EXCEPT ![l] = "claim"]
    /\ UNCHANGED <<dirVars, launchVars, sawTrash, final, cleared, delVars, lookVars>>

\* A slip: a delete's lock does not count.
LockFree_OfDelete == InPlace /\ lock \notin Launchers

\* The lock is created with wx: it needs the directory, and no lock in it.
LockFree == InPlace /\ lock = None

Claim(l) ==
    /\ child[l] = "claim"
    /\ \/ /\ LockFree
          /\ lock' = l
          /\ child' = [child EXCEPT ![l] = "owns"]
       \/ /\ ~LockFree
          /\ child' = [child EXCEPT ![l] = IF final[l] THEN "lost" ELSE "list"]
          /\ UNCHANGED lock
    /\ UNCHANGED <<where, marker, tmps, claims, launchVars, after, sawTrash, final,
                   cleared, delVars, lookVars>>

\* The preflight passed: the marker goes, whoever's it is.
ClearMarker(l) ==
    /\ child[l] = "owns"
    /\ marker' = None
    /\ cleared' = cleared \cup {l}
    /\ child' = [child EXCEPT ![l] = "running"]
    /\ UNCHANGED <<where, lock, tmps, claims, launchVars, after, sawTrash, final,
                   delVars, lookVars>>

\* The run ends, or its preflight refuses and leaves the marker to age.
ReleaseRun(l) ==
    /\ child[l] \in {"owns", "running"}
    /\ lock' = None
    /\ child' = [child EXCEPT ![l] = "over"]
    /\ UNCHANGED <<where, marker, tmps, claims, launchVars, after, sawTrash, final,
                   cleared, delVars, lookVars>>
-----------------------------------------------------------------------------
(* resumeIsStarting() by an observer *)

StartLook(o) ==
    /\ look' = [look EXCEPT ![o] = "read"]
    /\ pass' = [pass EXCEPT ![o] = 0]
    /\ UNCHANGED <<listed, holding, moved>>

Observe(r) ==
    /\ look[r] \notin Looking
    /\ StartLook(r)
    /\ UNCHANGED <<dirVars, launchVars, childVars, delVars>>

\* The marker's age decides; without one the claims do.
LookRead(o) ==
    /\ look[o] = "read"
    /\ look' = [look EXCEPT ![o] =
                  IF ~InPlace \/ marker = None THEN "list"
                  ELSE IF marker \in Launchers THEN "starting" ELSE "claim"]
    /\ UNCHANGED <<dirVars, launchVars, childVars, delVars, pass, listed, holding, moved>>

\* A marker that was found aged is renamed to a claim of our own.
LookClaim(o) ==
    /\ look[o] = "claim"
    /\ \/ /\ InPlace /\ marker # None
          /\ claims' = claims \cup {<<o, marker>>}
          /\ holding' = [holding EXCEPT ![o] = marker]
          /\ marker' = None
          /\ moved' = (moved \/ marker \in Launchers)
          /\ look' = [look EXCEPT ![o] = "judge"]
       \/ /\ ~InPlace \/ marker = None
          /\ look' = [look EXCEPT ![o] = "list"]
          /\ UNCHANGED <<claims, holding, marker, moved>>
    /\ UNCHANGED <<where, lock, tmps, launchVars, childVars, delVars, pass, listed>>

MyClaim(o) == <<o, holding[o]>>
ClaimHeld(o) == InPlace /\ MyClaim(o) \in claims

\* A slip: the claim is swept on the strength of the first look.
SweepsClaim_Unjudged(o) == TRUE

SweepsClaim(o) == holding[o] = Aged

\* The claim is judged again: an aged one is swept and the marker's name looked
\* at once more, a young one is linked back unless a newer marker is there.
LookJudge(o) ==
    /\ look[o] = "judge"
    /\ \/ /\ ~ClaimHeld(o)
          /\ look' = [look EXCEPT ![o] = "starting"]
          /\ UNCHANGED <<claims, marker, pass>>
       \/ /\ ClaimHeld(o) /\ SweepsClaim(o)
          /\ claims' = claims \ {MyClaim(o)}
          /\ look' = [look EXCEPT ![o] = IF pass[o] = 0 THEN "read" ELSE "quiet"]
          /\ pass' = [pass EXCEPT ![o] = 1]
          /\ UNCHANGED marker
       \/ /\ ClaimHeld(o) /\ ~SweepsClaim(o)
          /\ claims' = claims \ {MyClaim(o)}
          /\ marker' = IF marker = None THEN holding[o] ELSE marker
          /\ look' = [look EXCEPT ![o] = "starting"]
          /\ UNCHANGED pass
    /\ UNCHANGED <<where, lock, tmps, launchVars, childVars, delVars, listed, holding, moved>>

\* youngClaimIsStarting(): readdir ...
LookList(o) ==
    /\ look[o] = "list"
    /\ listed' = [listed EXCEPT ![o] = IF InPlace THEN claims ELSE {}]
    /\ look' = [look EXCEPT ![o] = "stat"]
    /\ UNCHANGED <<dirVars, launchVars, childVars, delVars, pass, holding, moved>>

\* ... then a stat of each: a young claim counts, an aged one is swept.
LookStat(o) ==
    /\ look[o] = "stat"
    /\ LET found == IF InPlace THEN listed[o] \cap claims ELSE {} IN
          /\ look' = [look EXCEPT ![o] =
                        IF \E c \in found : c[2] # Aged THEN "starting" ELSE "quiet"]
          /\ claims' = claims \ {c \in found : c[2] = Aged}
    /\ UNCHANGED <<where, lock, marker, tmps, launchVars, childVars, delVars,
                   pass, listed, holding, moved>>
-----------------------------------------------------------------------------
(* removeRun() *)

\* The pre-check: the run is there, then its state is derived.
DelStart(d) ==
    /\ del[d] = "idle"
    /\ \/ InPlace /\ del' = [del EXCEPT ![d] = "pre"] /\ StartLook(d)
       \/ ~InPlace /\ del' = [del EXCEPT ![d] = "refused"] /\ UNCHANGED lookVars
    /\ UNCHANGED <<dirVars, launchVars, childVars, baseline>>

\* A run that is starting, or whose engine answers, is refused; an engine that
\* does not answer is left to the lock.
DelPre(d) ==
    /\ del[d] = "pre" /\ look[d] \notin Looking
    /\ \/ look[d] = "quiet" /\ InPlace /\ del' = [del EXCEPT ![d] = "lock"]
       \/ /\ look[d] = "starting" \/ ~InPlace \/ lock \in Launchers
          /\ del' = [del EXCEPT ![d] = "refused"]
    /\ UNCHANGED <<dirVars, launchVars, childVars, baseline, lookVars>>

DelLock(d) ==
    /\ del[d] = "lock"
    /\ \/ LockFree /\ lock' = d /\ del' = [del EXCEPT ![d] = "baseline"]
       \/ ~LockFree /\ del' = [del EXCEPT ![d] = "refused"] /\ UNCHANGED lock
    /\ UNCHANGED <<where, marker, tmps, claims, launchVars, childVars, baseline, lookVars>>

\* resumeMarks()
Marks ==
    {<<"tmp", l, l>> : l \in tmps}
        \cup {<<"marker", None, m>> : m \in {marker} \ {None}}
        \cup {<<"claim", c[1], c[2]>> : c \in claims}

\* The baseline first, then the derivation under the lock.
DelBaseline(d) ==
    /\ del[d] = "baseline"
    /\ baseline' = [baseline EXCEPT ![d] = Marks]
    /\ StartLook(d)
    /\ del' = [del EXCEPT ![d] = "check"]
    /\ UNCHANGED <<dirVars, launchVars, childVars>>

FoundLive(d) == look[d] = "starting"

DelCheck(d) ==
    /\ del[d] = "check" /\ look[d] \notin Looking
    /\ del' = [del EXCEPT ![d] = IF FoundLive(d) THEN "release" ELSE "rename"]
    /\ UNCHANGED <<dirVars, launchVars, childVars, baseline, lookVars>>

DelRename(d) ==
    /\ del[d] = "rename"
    /\ where' = "trash"
    /\ del' = [del EXCEPT ![d] = "audit"]
    /\ UNCHANGED <<lock, marker, tmps, claims, launchVars, childVars, baseline, lookVars>>

\* A slip: what the directory carried into the trash is not looked at.
Raced_Ignored(d) == FALSE

Raced(d) == ~(Marks \subseteq baseline[d])

\* The lock of a committed delete is removed from the trash entry.
DelAudit(d) ==
    /\ del[d] = "audit"
    /\ \/ /\ Raced(d)
          /\ where' = "runs"
          /\ del' = [del EXCEPT ![d] = "restored"]
          /\ UNCHANGED lock
       \/ /\ ~Raced(d)
          /\ lock' = None
          /\ del' = [del EXCEPT ![d] = "deleted"]
          /\ UNCHANGED where
    /\ UNCHANGED <<marker, tmps, claims, launchVars, childVars, baseline, lookVars>>

DelRelease(d) ==
    /\ del[d] \in {"release", "restored"}
    /\ lock' = None
    /\ del' = [del EXCEPT ![d] = IF del[d] = "release" THEN "refused" ELSE "rolledBack"]
    /\ UNCHANGED <<where, marker, tmps, claims, launchVars, childVars, baseline, lookVars>>
-----------------------------------------------------------------------------
Install(l)  == WriteTmp(l) \/ RenameTmp(l) \/ Verify(l)
ChildWaits(l) == ListTrash(l) \/ ReadRuns(l) \/ ReadTrash(l) \/ LoadJournal(l) \/ Claim(l)
LookStep(o) == LookRead(o) \/ LookClaim(o) \/ LookJudge(o) \/ LookList(o) \/ LookStat(o)
DelStep(d)  == DelStart(d) \/ DelPre(d) \/ DelLock(d) \/ DelBaseline(d) \/ DelCheck(d)
                   \/ DelRename(d) \/ DelAudit(d) \/ DelRelease(d)

Next ==
    \/ \E l \in Launchers : Install(l) \/ ChildWaits(l) \/ ClearMarker(l) \/ ReleaseRun(l)
    \/ \E o \in Observers : LookStep(o)
    \/ \E r \in Readers : Observe(r)
    \/ \E d \in Deleters : DelStep(d)

\* A delete and a child that have begun go on.
Spec ==
    /\ Init /\ [][Next]_vars
    /\ \A l \in Launchers : WF_vars(ChildWaits(l))
    /\ \A o \in Deleters : WF_vars(LookStep(o)) /\ WF_vars(del[o] # "idle" /\ DelStep(o))
-----------------------------------------------------------------------------
(* Properties *)

Deleted == \E d \in Deleters : del[d] = "deleted"
Pending(l) == launch[l] = "accepted" /\ child[l] \in Waiting
Owns(l) == child[l] \in {"owns", "running"}

\* An engine owns the run alone: it holds the lock of a directory that is in place,
\* no delete is past its lock, no second engine runs.
OwnerIsAlone ==
    \A l \in Launchers : Owns(l) =>
        /\ lock = l /\ InPlace
        /\ \A d \in Deleters :
              del[d] \notin {"baseline", "check", "rename", "audit", "release", "restored"}
        /\ \A m \in Launchers : Owns(m) => m = l

\* "There is no third ordering, so 'resume accepted AND run deleted' cannot happen"
\* (src/run-lock.js): while an accepted resume has not reached the run, the run is
\* not deleted.
AcceptedNotDeleted == \A l \in Launchers : Pending(l) => ~Deleted

\* ... as far as it holds: unless the engine of another launch has cleared the
\* marker both launches shared, or an observer that meant to sweep an aged marker has
\* renamed the fresh one, which then has no name while the delete looks for it.
AcceptedNotDeletedUnlessCleared ==
    \A l \in Launchers : Pending(l) /\ Deleted => cleared # {} \/ moved

\* Another launch's child became the run's engine.
OtherEngine(l) == \E m \in Launchers \ {l} : child[m] \in {"owns", "running", "over"}

\* A delete that refuses without having moved the run never costs the resume it
\* met, whichever of its checks the child's claims fell between.
LostOnlyIfMoved ==
    \A l \in Launchers : child[l] = "lost" =>
        \/ OtherEngine(l)
        \/ \E d \in Deleters : del[d] \in {"audit", "restored", "rolledBack", "deleted"}

\* Launch intent survives every observer: while a mark of a launcher is on disk, only
\* an engine that owns the run removes the last one.
YoungMarks == {m \in Launchers : marker = m \/ \E o \in Observers : <<o, m>> \in claims}

ReadersKeepTheHandoff ==
    [][YoungMarks # {} => YoungMarks' # {} \/ cleared' # cleared \/ \E l \in Launchers : Owns(l)]_vars

\* An accepted resume does not wait for ever: it owns the run or reports why not.
EveryLaunchSettles == \A l \in Launchers : Pending(l) ~> ~Pending(l)
=============================================================================
