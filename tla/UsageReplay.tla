---------------------------- MODULE UsageReplay -----------------------------
(***************************************************************************)
(* What one agent spent, over turns, retries, sessions, crashes and        *)
(* resumes: handleEvent and the constructor of src/agent-proc.js, the      *)
(* usage part of Journal.load in src/journal.js, the charging in           *)
(* src/engine.js.  A provider reports either what an event cost, or the    *)
(* running total of its thread; the journal keeps a chain of totals, from  *)
(* which a resume must find again everything that was ever reported, and   *)
(* nothing twice.                                                          *)
(*                                                                         *)
(* Tokens of one kind; a crash comes between two segments of JavaScript,   *)
(* and within SessionEvent, where it makes a difference.                   *)
(***************************************************************************)
EXTENDS Integers

CONSTANTS
    Threads,    \* provider threads (sessions) that may be opened
    None,
    MaxReport,  \* bound: tokens of one report
    MaxSpend,   \* bound: tokens ever reported
    MaxEngines  \* bound: engines started for the run

ASSUME UsageAssumption ==
    None \notin Threads \cup Int /\ {MaxReport, MaxSpend, MaxEngines} \subseteq Nat

VARIABLES
    cumulative, \* the provider reports running totals of the thread, fixed
    \* the provider
    total,      \* thread -> tokens it has used
    opened,     \* threads that exist
    thread,     \* the thread of the running turn
    word,       \* the turn's thread: "none" said yet, "named", or "mute" for good
    reported,   \* all tokens ever reported to an engine
    \* the journal
    cum,        \* the last usage-cum record
    chain,      \* Journal.load's chaining of these: [prev, spent]
    recorded,   \* usage summed over the result records
    sessionRec, \* the last session record
    result,
    \* the engine
    pc,         \* "off", "up", "job", "turn", "settled"
    engines,
    usageTotal, \* what the engine charges to the budget
    usage,      \* job.usage
    cumBase,    \* job.cumBase
    sessionId, priorSessionId,
    retried,
    blurred     \* history: one of the two cases the accounting cannot tell apart

provider == <<cumulative, total, opened, thread, word>>
journal  == <<cum, chain, recorded, sessionRec, result>>
job      == <<usage, cumBase, sessionId, priorSessionId, retried>>
vars     == <<provider, reported, journal, pc, engines, usageTotal, job, blurred>>

Live == {"job", "turn"}

TypeOK ==
    /\ cumulative \in BOOLEAN
    /\ total \in [Threads -> Nat] /\ opened \subseteq Threads
    /\ thread \in opened \cup {None} /\ word \in {"none", "named", "mute"}
    /\ reported \in Nat
    /\ cum \in Nat \cup {None} /\ chain \in [prev : Nat, spent : Nat] /\ recorded \in Nat
    /\ sessionRec \in opened \cup {None} /\ result \in {None, "failed", "completed"}
    /\ pc \in {"off", "up", "settled"} \cup Live /\ engines \in Nat
    /\ usageTotal \in Nat /\ usage \in Nat /\ cumBase \in Nat \cup {None}
    /\ sessionId \in opened \cup {None} /\ priorSessionId \in opened \cup {None}
    /\ retried \in BOOLEAN /\ blurred \in BOOLEAN
    /\ pc = "turn" => thread # None

NoJob ==
    /\ usage' = 0 /\ cumBase' = None /\ sessionId' = None /\ priorSessionId' = None
    /\ retried' = FALSE

Init ==
    /\ cumulative \in BOOLEAN
    /\ total = [t \in Threads |-> 0] /\ opened = {} /\ thread = None /\ word = "none"
    /\ reported = 0
    /\ cum = None /\ chain = [prev |-> 0, spent |-> 0] /\ recorded = 0
    /\ sessionRec = None /\ result = None
    /\ pc = "off" /\ engines = 0 /\ usageTotal = 0
    /\ usage = 0 /\ cumBase = None /\ sessionId = None /\ priorSessionId = None
    /\ retried = FALSE /\ blurred = FALSE

Growth(from, to) == IF to > from THEN to - from ELSE 0
OrZero(c) == IF c = None THEN 0 ELSE c

\* One more usage-cum record in cumTrack: only growth counts, a reset costs nothing.
Chained(ch, c) == [prev |-> c, spent |-> ch.spent + Growth(ch.prev, c)]

\* Journal.load: what the result records charged, and the crash window beyond it.
\* A slip: the whole chain counts as crash window.
LoadTotal_Twice == recorded + chain.spent

LoadTotal == recorded + Growth(recorded, chain.spent)
-----------------------------------------------------------------------------
\* runWorkflow(): the totals are seeded with all journaled spend.
Start ==
    /\ pc = "off" /\ engines < MaxEngines
    /\ pc' = "up" /\ engines' = engines + 1
    /\ usageTotal' = LoadTotal
    /\ UNCHANGED <<provider, reported, journal, job, blurred>>

\* A slip: the baseline of a thread nobody can continue is kept.
Baseline_Kept == cum

\* The restored baseline, for a thread that can be continued.
Baseline == IF sessionRec = None THEN None ELSE cum

\* AgentJob's constructor; a baseline that is discarded is reset in the journal.
Construct ==
    /\ pc = "up" /\ result # "completed"
    /\ pc' = "job"
    /\ usage' = 0 /\ retried' = FALSE
    /\ priorSessionId' = sessionRec /\ sessionId' = sessionRec
    /\ cumBase' = Baseline
    /\ IF cum # None /\ sessionRec = None
       THEN cum' = 0 /\ chain' = Chained(chain, 0)
       ELSE UNCHANGED <<cum, chain>>
    /\ UNCHANGED <<provider, reported, recorded, sessionRec, result, engines,
                   usageTotal, blurred>>

\* A turn continues the session the job knows, or the provider opens a new thread.
BeginTurn ==
    /\ pc = "job"
    /\ pc' = "turn" /\ word' = "none"
    /\ \/ thread' = sessionId /\ sessionId # None /\ UNCHANGED opened
       \/ /\ thread' \in Threads \ opened
          /\ opened' = opened \cup {thread'}
    /\ UNCHANGED <<cumulative, total, reported, journal, engines, usageTotal, job, blurred>>

\* A slip: a new thread is charged against the baseline of the old one.
NewThreadResets_Never == FALSE

NewThreadResets == cumBase # None /\ thread # priorSessionId

\* The provider names its thread before it reports usage, or never does.
SessionEvent ==
    /\ pc = "turn" /\ word = "none"
    /\ word' = "named"
    /\ IF thread = sessionId
       THEN UNCHANGED <<cum, chain, sessionRec, cumBase, sessionId>>
       ELSE /\ IF NewThreadResets
               THEN cumBase' = None /\ cum' = 0 /\ chain' = Chained(chain, 0)
               ELSE UNCHANGED <<cumBase, cum, chain>>
            /\ sessionId' = thread /\ sessionRec' = thread
    /\ UNCHANGED <<cumulative, total, opened, thread, reported, recorded, result, pc,
                   engines, usageTotal, usage, priorSessionId, retried, blurred>>

\* ... and the engine dies between its two records.
SessionEventTorn ==
    /\ pc = "turn" /\ word = "none" /\ thread # sessionId /\ NewThreadResets
    /\ cum' = 0 /\ chain' = Chained(chain, 0)
    /\ blurred' = (blurred \/ cumulative)
    /\ pc' = "off" /\ NoJob
    /\ thread' = None /\ word' = "none"
    /\ UNCHANGED <<cumulative, total, opened, reported, recorded, sessionRec, result,
                   engines, usageTotal>>

\* A thread that never names itself is taken for the one the job knows, or for the
\* one its first attempt reported of.
Unnamed ==
    /\ word = "none" /\ thread # sessionId
    /\ sessionId # None \/ (retried /\ cumBase # None)

\* 'usage' of a thread's running total: the growth since the baseline is charged.
CumulativeReport(n) ==
    /\ cumulative
    /\ LET c == total[thread] + n
       IN  /\ usage' = usage + Growth(OrZero(cumBase), c)
           /\ cumBase' = c /\ cum' = c
           /\ chain' = Chained(chain, c)
    /\ blurred' = (blurred \/ Unnamed)

\* A slip: a restored baseline is left standing under totals that begin at zero.
FromZero_Clamped == chain

FromZero == IF cumBase = None THEN chain ELSE Chained(chain, 0)

\* 'usage' of one event: charged as it is, and the job's running total journaled.
EventReport(n) ==
    /\ ~cumulative
    /\ usage' = usage + n
    /\ cumBase' = None /\ cum' = usage'
    /\ chain' = Chained(FromZero, usage')
    /\ UNCHANGED blurred

Report(n) ==
    /\ pc = "turn" /\ reported + n <= MaxSpend
    /\ reported' = reported + n
    /\ CumulativeReport(n) \/ EventReport(n)
    /\ total' = [total EXCEPT ![thread] = @ + n]
    /\ word' = IF word = "none" THEN "mute" ELSE word
    /\ UNCHANGED <<cumulative, opened, thread, recorded, sessionRec, result, pc,
                   engines, usageTotal, sessionId, priorSessionId, retried>>

\* A turn is over, well or badly.  A follow-up turn needs a session; a retry is a
\* second execute() of the same job and may be without one.
TurnEnds ==
    /\ pc = "turn"
    /\ \/ sessionId # None /\ UNCHANGED retried
       \/ sessionId = None /\ ~retried /\ retried' = TRUE
    /\ pc' = "job" /\ thread' = None /\ word' = "none"
    /\ UNCHANGED <<cumulative, total, opened, reported, journal, engines, usageTotal,
                   usage, cumBase, sessionId, priorSessionId, blurred>>

\* The engine charges the job once, whatever the outcome, and journals its result.
Settle ==
    /\ pc \in Live
    /\ \E status \in {"failed", "completed"} : result' = status
    /\ recorded' = recorded + usage
    /\ usageTotal' = usageTotal + usage
    /\ pc' = "settled" /\ NoJob
    /\ thread' = None /\ word' = "none"
    /\ UNCHANGED <<cumulative, total, opened, reported, cum, chain, sessionRec, engines,
                   blurred>>

\* The engine dies, or its run ends.
Stop ==
    /\ pc # "off"
    /\ pc' = "off" /\ NoJob
    /\ thread' = None /\ word' = "none"
    /\ UNCHANGED <<cumulative, total, opened, reported, journal, engines, usageTotal, blurred>>

Next ==
    \/ Start \/ Construct \/ BeginTurn \/ SessionEvent \/ SessionEventTorn
    \/ (\E n \in 0..MaxReport : Report(n))
    \/ TurnEnds \/ Settle \/ Stop

Spec == Init /\ [][Next]_vars
-----------------------------------------------------------------------------
(* Properties *)

\* A resume finds everything that was ever reported, and nothing twice, wherever the
\* runs before it were interrupted.
SpendSurvives == ~blurred => LoadTotal = reported

\* The engine's own total, with what the live job will charge, is everything that was
\* reported: the budget is compared with what was really spent.
EngineSeesAll ==
    ~blurred => CASE pc \in Live           -> usageTotal + usage = reported
                  [] pc \in {"up", "settled"} -> usageTotal = reported
                  [] OTHER -> TRUE

\* A total never shrinks from one load to the next, not even in the blurred cases.
SpendNeverForgotten == [][LoadTotal' >= LoadTotal]_vars
=============================================================================
