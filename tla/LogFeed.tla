------------------------------- MODULE LogFeed -------------------------------
(***************************************************************************)
(* What following a run promises, without the wire it goes over: each      *)
(* stream has a log that only grows, and a viewer holds a prefix of it.    *)
(* The viewer catches up, starts one stream over without touching the      *)
(* others, or takes a snapshot of all of them.  It never holds a record    *)
(* out of order, twice, or past a gap.                                     *)
(*                                                                         *)
(* A stream may be overtaken: its file was rewritten under a reader that   *)
(* could not tell.  Nothing is promised about it until it starts over.     *)
(***************************************************************************)
EXTENDS Sequences, SequencesExt

CONSTANTS Streams, Items

VARIABLES log, view, overtaken

feedVars == <<log, view, overtaken>>

FeedTypeOK ==
  /\ log \in [Streams -> Seq(Items)]
  /\ view \in [Streams -> Seq(Items)]
  /\ overtaken \subseteq Streams

FeedInit ==
  /\ log = [s \in Streams |-> << >>]
  /\ view = [s \in Streams |-> << >>]
  /\ overtaken = {}

\* The run records something.
Record(s) ==
  /\ log' \in [Streams -> Seq(Items)]
  /\ IsStrictPrefix(log[s], log'[s])
  /\ \A t \in Streams \ {s} : log'[t] = log[t]
  /\ UNCHANGED <<view, overtaken>>

\* The viewer goes on, starts some streams over, or takes a snapshot.
Show ==
  /\ UNCHANGED log
  /\ overtaken' \subseteq overtaken
  /\ \A s \in Streams \ overtaken' :
       (s \notin overtaken /\ view'[s] = view[s]) \/ IsPrefix(view'[s], log[s])
  /\ view' \in [Streams -> Seq(Items)]

\* A reader misses that its files were rewritten.
Overtake ==
  /\ overtaken \subseteq overtaken' /\ overtaken' \subseteq Streams
  /\ UNCHANGED <<log, view>>

FeedNext == Show \/ Overtake \/ \E s \in Streams : Record(s)

FeedSpec == FeedInit /\ [][FeedNext]_feedVars
=============================================================================
