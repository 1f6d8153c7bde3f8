------------------------- MODULE ProviderTurn_proofs -------------------------
(***************************************************************************)
(* What a provider's turn owes the engine, for every number of steers and  *)
(* every protocol (module ProcessTurn): a steer is never lost and never in *)
(* two places, and what an accepted turn marks delivered the process has   *)
(* answered; engine and process never wait for each other, and every step  *)
(* leaves less to do.  And for every number of threads, engines and tokens *)
(* (module UsageReplay): nothing that was reported is forgotten or counted *)
(* twice, outside the two cases it names.                                  *)
(***************************************************************************)
EXTENDS ProcessTurn, UsageReplay, FiniteSetTheorems, TLAPS
-----------------------------------------------------------------------------
(* Module UsageReplay *)

\* What is never reported of has used nothing, and an outline of the job's life.
Shape ==
    /\ \A t \in Threads \ opened : total[t] = 0
    /\ pc \in Live => sessionId = sessionRec
    /\ pc \notin Live => usage = 0
    /\ pc = "turn" /\ word = "none" /\ thread # sessionId =>
           total[thread] = 0 /\ thread # priorSessionId
    /\ pc = "turn" /\ word = "named" => thread = sessionId

\* Totals and charges agree with what was reported.
Charges ==
    /\ chain.spent = reported
    /\ recorded + usage <= reported
    /\ pc = "up" => usageTotal = reported
    /\ pc = "settled" => usageTotal = reported
    /\ pc \in Live => usageTotal + usage = reported

\* Running totals: the baseline is the last total of the thread that may go on.
ThreadBaseline ==
    /\ pc \in Live => OrZero(cumBase) = OrZero(cum)
    /\ sessionRec # None => OrZero(cum) = total[sessionRec]
    /\ pc \in Live /\ sessionId = None /\ ~retried
           /\ (pc = "job" \/ word = "none") => cumBase = None
    /\ pc = "turn" /\ word = "mute" =>
           thread = sessionId \/ (sessionId = None /\ OrZero(cumBase) = total[thread])

\* Single events: the chain stands at the job's own total, or at a baseline that the
\* first report resets.
EventBaseline ==
    /\ pc \in Live /\ cumBase = None => chain.prev = usage
    /\ pc \in Live /\ cumBase # None => usage = 0

Accounting ==
    /\ Charges
    /\ chain.prev = OrZero(cum)
    /\ cumulative => ThreadBaseline
    /\ ~cumulative => EventBaseline

IInv == TypeOK /\ Shape /\ (~blurred => Accounting)
-----------------------------------------------------------------------------
\* The chain of totals: what one more record does to it.
LEMMA ChainedType ==
    ASSUME NEW ch \in [prev : Nat, spent : Nat], NEW c \in Nat
    PROVE  /\ Chained(ch, c) \in [prev : Nat, spent : Nat]
           /\ Chained(ch, c).prev = c
           /\ Chained(ch, c).spent >= ch.spent
           /\ c >= ch.prev => Chained(ch, c).spent = ch.spent + (c - ch.prev)
           /\ c <= ch.prev => Chained(ch, c).spent = ch.spent
BY DEF Chained, Growth

LEMMA OrZeroType == ASSUME NEW c \in Nat \cup {None} PROVE OrZero(c) \in Nat
BY DEF OrZero

\* The types, for every step.
LEMMA TypeStep == TypeOK /\ [Next]_vars => TypeOK'
<1> SUFFICES ASSUME TypeOK, [Next]_vars PROVE TypeOK'
    OBVIOUS
<1> USE UsageAssumption DEF TypeOK
<1>1. CASE Start
      BY <1>1 DEF Start, LoadTotal, Growth, provider, journal, job
<1>a. Chained(chain, 0) \in [prev : Nat, spent : Nat]
      BY ChainedType
<1>2. CASE Construct
      <2>1. chain' \in [prev : Nat, spent : Nat] /\ cum' \in Nat \cup {None}
            BY <1>2, <1>a DEF Construct
      <2>2. cumBase' \in Nat \cup {None}
            BY <1>2 DEF Construct, Baseline
      <2> HIDE DEF TypeOK
      <2> QED BY <1>2, <2>1, <2>2 DEF Construct, TypeOK, Live, provider
<1>3. CASE BeginTurn
      BY <1>3 DEF BeginTurn, journal, job, Live
<1>4. CASE SessionEvent
      <2>1. chain' \in [prev : Nat, spent : Nat] /\ cum' \in Nat \cup {None}
            BY <1>4, <1>a DEF SessionEvent
      <2>2. /\ cumBase' \in Nat \cup {None}
            /\ sessionRec' \in opened \cup {None} /\ sessionId' \in opened \cup {None}
            BY <1>4 DEF SessionEvent
      <2> QED BY <1>4, <2>1, <2>2 DEF SessionEvent, Live
<1>5. CASE SessionEventTorn
      <2>1. blurred' \in BOOLEAN
            BY <1>5, Zenon DEF SessionEventTorn
      <2> QED BY <1>5, <1>a, <2>1 DEF SessionEventTorn, NoJob, Live
<1>6. ASSUME NEW n \in 0..MaxReport, Report(n) PROVE TypeOK'
      <2>0. thread \in Threads /\ n \in Nat
            BY <1>6 DEF Report
      <2>1. usage' \in Nat /\ cumBase' \in Nat \cup {None} /\ cum' \in Nat
            <3>1. CASE CumulativeReport(n)
                  BY <2>0, <3>1, OrZeroType DEF CumulativeReport, Growth
            <3>2. CASE EventReport(n)
                  BY <2>0, <3>2 DEF EventReport
            <3> QED BY <1>6, <3>1, <3>2 DEF Report
      <2>2. chain' \in [prev : Nat, spent : Nat]
            <3>1. CASE CumulativeReport(n)
                  <4>1. total[thread] + n \in Nat
                        BY <2>0
                  <4> QED BY <3>1, <4>1, ChainedType DEF CumulativeReport
            <3>2. CASE EventReport(n)
                  <4>1. FromZero \in [prev : Nat, spent : Nat]
                        BY <1>a DEF FromZero
                  <4> QED BY <3>2, <2>1, <4>1, ChainedType DEF EventReport
            <3> QED BY <1>6, <3>1, <3>2 DEF Report
      <2>3. blurred' \in BOOLEAN
            BY <1>6, Zenon DEF Report, CumulativeReport, EventReport
      <2>4. total' \in [Threads -> Nat] /\ word' \in {"none", "named", "mute"}
            BY <1>6, <2>0 DEF Report
      <2> QED BY <1>6, <2>1, <2>2, <2>3, <2>4 DEF Report, Live
<1>7. CASE TurnEnds
      BY <1>7 DEF TurnEnds, journal, Live
<1>8. CASE Settle
      <2>1. result' \in {"failed", "completed"}
            BY <1>8 DEF Settle
      <2>2. recorded' \in Nat /\ usageTotal' \in Nat
            BY <1>8 DEF Settle
      <2> QED BY <1>8, <2>1, <2>2 DEF Settle, NoJob, Live
<1>9. CASE Stop
      BY <1>9 DEF Stop, NoJob, journal, Live
<1>10. CASE UNCHANGED vars
      BY <1>10 DEF vars, provider, journal, job
<1> QED BY <1>1, <1>2, <1>3, <1>4, <1>5, <1>6, <1>7, <1>8, <1>9, <1>10 DEF Next

\* The shape, for every step.
LEMMA ShapeStep == TypeOK /\ Shape /\ [Next]_vars => Shape'
<1> SUFFICES ASSUME TypeOK, Shape, [Next]_vars PROVE Shape'
    OBVIOUS
<1> USE UsageAssumption DEF TypeOK, Shape, Live
<1>1. CASE Start
      BY <1>1 DEF Start, provider, journal, job
<1>2. CASE Construct
      BY <1>2 DEF Construct, provider
<1>3. CASE BeginTurn
      BY <1>3 DEF BeginTurn, journal, job
<1>4. CASE SessionEvent
      BY <1>4 DEF SessionEvent
<1>5. CASE SessionEventTorn
      BY <1>5 DEF SessionEventTorn, NoJob
<1>6. ASSUME NEW n \in 0..MaxReport, Report(n) PROVE Shape'
      BY <1>6 DEF Report
<1>7. CASE TurnEnds
      BY <1>7 DEF TurnEnds, journal
<1>8. CASE Settle
      BY <1>8 DEF Settle, NoJob
<1>9. CASE Stop
      BY <1>9 DEF Stop, NoJob, journal
<1>10. CASE UNCHANGED vars
      BY <1>10 DEF vars, provider, journal, job
<1> QED BY <1>1, <1>2, <1>3, <1>4, <1>5, <1>6, <1>7, <1>8, <1>9, <1>10 DEF Next

\* The accounting, one part at a time.
LEMMA AccountingStep ==
    ASSUME IInv, [Next]_vars, ~blurred'
    PROVE  Accounting'
<1> USE UsageAssumption DEF Live
<1>0. TypeOK /\ Shape /\ TypeOK'
      BY TypeStep DEF IInv
<1>r. chain.prev \in Nat /\ chain.spent \in Nat /\ Chained(chain, 0).prev = 0
      /\ Chained(chain, 0).spent = chain.spent
      BY <1>0 DEF TypeOK, Chained, Growth
<1>b. ~blurred /\ Accounting
      <2>1. ~blurred
            BY <1>0, Zenon DEF Next, vars, Start, Construct, BeginTurn, SessionEvent,
               SessionEventTorn, Report, CumulativeReport, EventReport, TurnEnds, Settle, Stop
      <2> QED BY <2>1 DEF IInv
<1>1. CASE Start
      BY <1>0, <1>r, <1>b, <1>1 DEF Start, LoadTotal, Growth, provider, journal, job, TypeOK, Shape,
         Accounting, Charges, ThreadBaseline, EventBaseline
<1>2. CASE Construct
      BY <1>0, <1>r, <1>b, <1>2 DEF Construct, Baseline, provider, TypeOK, Shape,
         Accounting, Charges, ThreadBaseline, EventBaseline, OrZero
<1>3. CASE BeginTurn
      BY <1>0, <1>r, <1>b, <1>3 DEF BeginTurn, journal, job, TypeOK, Shape,
         Accounting, Charges, ThreadBaseline, EventBaseline
<1>4. CASE SessionEvent
      BY <1>0, <1>r, <1>b, <1>4 DEF SessionEvent, NewThreadResets, TypeOK, Shape,
         Accounting, Charges, ThreadBaseline, EventBaseline, OrZero
<1>5. CASE SessionEventTorn
      BY <1>0, <1>r, <1>b, <1>5 DEF SessionEventTorn, NoJob, TypeOK, Shape,
         Accounting, Charges, ThreadBaseline, EventBaseline, OrZero
<1>6. ASSUME NEW n \in 0..MaxReport, Report(n) PROVE Accounting'
      <2> USE DEF TypeOK, Shape, Accounting
      <2>0. thread \in Threads /\ n \in Nat /\ total[thread] \in Nat
            /\ total' = [total EXCEPT ![thread] = @ + n]
            BY <1>0, <1>6 DEF Report
      <2>1. CASE CumulativeReport(n)
            <3>1. cumulative /\ ThreadBaseline /\ ~Unnamed
                  BY <1>b, <2>1, Zenon DEF CumulativeReport
            <3>2. OrZero(cumBase) = total[thread] /\ (thread = sessionId \/ sessionId = None)
                  BY <1>0, <1>6, <3>1 DEF Report, ThreadBaseline, Unnamed, OrZero
            <3>3. chain.prev = total[thread]
                  BY <1>0, <1>6, <1>b, <3>1, <3>2 DEF Report, ThreadBaseline
            <3>4. /\ usage' = usage + n
                  /\ cumBase' = total[thread] + n /\ cum' = total[thread] + n
                  /\ chain'.spent = chain.spent + n /\ chain'.prev = total[thread] + n
                  BY <1>0, <2>0, <2>1, <3>2, <3>3 DEF CumulativeReport, Growth, Chained
            <3>5. Charges'
                  BY <1>0, <1>6, <1>b, <2>0, <3>4 DEF Report, Charges
            <3>6. ThreadBaseline'
                  BY <1>0, <1>6, <2>0, <3>2, <3>4 DEF Report, ThreadBaseline, OrZero
            <3> QED BY <1>6, <2>0, <3>1, <3>4, <3>5, <3>6 DEF Report, OrZero
      <2>2. CASE EventReport(n)
            <3>1. ~cumulative /\ EventBaseline
                  BY <1>b, <2>2 DEF EventReport
            <3>2. /\ FromZero.spent = chain.spent /\ FromZero.prev = usage
                  /\ FromZero.prev \in Nat
                  BY <1>0, <1>r, <1>6, <3>1 DEF Report, EventBaseline, FromZero
            <3>3. /\ usage' = usage + n /\ cumBase' = None /\ cum' = usage + n
                  /\ chain'.spent = chain.spent + n /\ chain'.prev = usage + n
                  BY <1>0, <1>r, <2>0, <2>2, <3>2 DEF EventReport, Growth, Chained
            <3>4. Charges'
                  BY <1>0, <1>6, <1>b, <2>0, <3>3 DEF Report, Charges
            <3> QED BY <1>0, <1>6, <2>0, <3>1, <3>3, <3>4 DEF Report, OrZero, EventBaseline
      <2> QED BY <1>6, <2>1, <2>2 DEF Report
<1>7. CASE TurnEnds
      BY <1>0, <1>r, <1>b, <1>7 DEF TurnEnds, journal, TypeOK, Shape,
         Accounting, Charges, ThreadBaseline, EventBaseline
<1>8. CASE Settle
      BY <1>0, <1>r, <1>b, <1>8 DEF Settle, NoJob, TypeOK, Shape,
         Accounting, Charges, ThreadBaseline, EventBaseline
<1>9. CASE Stop
      BY <1>0, <1>r, <1>b, <1>9 DEF Stop, NoJob, journal, TypeOK, Shape,
         Accounting, Charges, ThreadBaseline, EventBaseline
<1>10. CASE UNCHANGED vars
      BY <1>b, <1>10 DEF vars, provider, journal, job,
         Accounting, Charges, ThreadBaseline, EventBaseline
<1> QED BY <1>1, <1>2, <1>3, <1>4, <1>5, <1>6, <1>7, <1>8, <1>9, <1>10 DEF Next

\* Initially nothing is reported and nothing charged.
LEMMA InitIInv == Init => IInv
<1> SUFFICES ASSUME Init PROVE IInv
    OBVIOUS
<1> USE UsageAssumption DEF Init, Live
<1>1. TypeOK
      <2>1. blurred \in BOOLEAN /\ retried \in BOOLEAN /\ cumulative \in BOOLEAN
            OBVIOUS
      <2> QED BY <2>1 DEF TypeOK
<1>2. Shape
      BY DEF Shape
<1>3. Accounting
      BY DEF Accounting, Charges, ThreadBaseline, EventBaseline, OrZero
<1> QED BY <1>1, <1>2, <1>3 DEF IInv

\* The invariant is inductive.
LEMMA IInvStep == IInv /\ [Next]_vars => IInv'
BY TypeStep, ShapeStep, AccountingStep DEF IInv

\* Every variable keeps its type, for every number of threads, engines and tokens.
THEOREM TypeCorrect == Spec => []TypeOK
<1>1. Init => TypeOK
      BY InitIInv DEF IInv
<1> QED BY <1>1, TypeStep, PTL DEF Spec

\* A resume finds everything that was ever reported, and nothing twice (the chain of
\* usage-cum records and the crash window of Journal.load).
THEOREM SpendSurvivesAlways == Spec => []SpendSurvives
<1>1. IInv => SpendSurvives
      BY UsageAssumption
      DEF IInv, SpendSurvives, TypeOK, Accounting, Charges, LoadTotal, Growth
<1> QED BY <1>1, InitIInv, IInvStep, PTL DEF Spec

\* The budget is compared with what was really spent (usageTotal and the usage of the
\* job that is running).
THEOREM EngineSeesAllAlways == Spec => []EngineSeesAll
<1>1. IInv => EngineSeesAll
      BY DEF IInv, EngineSeesAll, TypeOK, Accounting, Charges, Live
<1> QED BY <1>1, InitIInv, IInvStep, PTL DEF Spec

\* A total never shrinks from one load to the next, the two blurred cases included.
THEOREM NothingIsForgotten == Spec => SpendNeverForgotten
<1>1. Init => TypeOK
      BY InitIInv DEF IInv
<1>2. TypeOK /\ [Next]_vars => [LoadTotal' >= LoadTotal]_vars
      <2> SUFFICES ASSUME TypeOK, Next PROVE LoadTotal' >= LoadTotal
          OBVIOUS
      <2>0. TypeOK'
            BY TypeStep
      <2>1. recorded' >= recorded
            BY UsageAssumption DEF TypeOK, Next, Start, Construct, BeginTurn, SessionEvent,
               SessionEventTorn, Report, TurnEnds, Settle, Stop, provider, journal
      <2>2. chain'.spent >= chain.spent
            <3> USE UsageAssumption DEF TypeOK
            <3>1. Chained(chain, 0) \in [prev : Nat, spent : Nat]
                  /\ Chained(chain, 0).spent >= chain.spent
                  BY ChainedType
            <3>2. ASSUME NEW n \in 0..MaxReport, Report(n) PROVE chain'.spent >= chain.spent
                  <4>1. CASE CumulativeReport(n)
                        <5>1. total[thread] + n \in Nat
                              BY <3>2 DEF Report
                        <5> QED BY <4>1, <5>1, ChainedType DEF CumulativeReport
                  <4>2. CASE EventReport(n)
                        <5>1. usage' \in Nat
                              BY <4>2 DEF EventReport
                        <5>2. /\ FromZero \in [prev : Nat, spent : Nat]
                              /\ FromZero.spent >= chain.spent
                              BY <3>1 DEF FromZero
                        <5>3. Chained(FromZero, usage').spent >= FromZero.spent
                              BY <5>1, <5>2, ChainedType
                        <5>4. Chained(FromZero, usage') \in [prev : Nat, spent : Nat]
                              BY <5>1, <5>2, ChainedType
                        <5> QED BY <4>2, <5>2, <5>3, <5>4 DEF EventReport
                  <4> QED BY <3>2, <4>1, <4>2 DEF Report
            <3> QED BY <3>1, <3>2 DEF Next, Start, Construct, BeginTurn, SessionEvent,
                    SessionEventTorn, TurnEnds, Settle, Stop, journal
      <2> QED BY <2>0, <2>1, <2>2 DEF TypeOK, LoadTotal, Growth
<1> QED BY <1>1, <1>2, TypeStep, PTL DEF Spec, SpendNeverForgotten
-----------------------------------------------------------------------------
(* Module ProcessTurn *)

Ascending(s) == \A i, j \in 1..Len(s) : i < j => s[i] < s[j]

TurnTypes ==
    /\ protocol \in {"claude", "amp", "ampCoalescing"} /\ steered \in Nat
    /\ liveDelivered \in Seq(Nat) /\ mailQueue \in Seq(Nat)
    /\ outstanding \in Int
    /\ pipe \in Seq(Nat) /\ failing \in Seq(Nat)
    /\ out \in Seq({"ok", "error", "turn-end"})
    /\ turn \subseteq Nat /\ answered \subseteq Nat
    /\ IsFiniteSet(turn) /\ IsFiniteSet(answered)

\* Where the steers are, in order, as long as the turn runs and after.
Placed ==
    /\ ToSet(liveDelivered) \cup ToSet(mailQueue) \cup delivered = 1..steered
    /\ Ascending(liveDelivered) /\ IsInjective(mailQueue)
    /\ ToSet(liveDelivered) \cap ToSet(mailQueue) = {} /\ delivered \cap ToSet(mailQueue) = {}
    /\ outcome = "running" => delivered = {}
    /\ outcome # "running" => liveDelivered = <<>> /\ failing = <<>> /\ ~stdinOpen /\ ~alive

\* The injected messages are in the process's hands, the oldest of them answered.
Unsettled == turn \cup ToSet(pipe) \cup ToSet(failing)
InHand ==
    /\ Ascending(pipe) /\ Ascending(failing)
    /\ failing # <<>> => ~alive
    /\ 0 \in answered \cup turn \cup ToSet(pipe)
    /\ outcome = "running" => ToSet(liveDelivered) = (answered \cup Unsettled) \ {0}
    /\ answered \cup Unsettled \subseteq 0..steered
    /\ \A x \in answered : \A y \in Unsettled : x < y
    /\ \A x \in turn : \A y \in ToSet(pipe) \cup ToSet(failing) : x < y
    /\ \A x \in ToSet(pipe) : \A y \in ToSet(failing) : x < y

EndsIn(o) == {j \in 1..Len(o) : o[j] = "turn-end"}

\* The count of unsettled messages is never too low, for what has been printed of turns; a
\* process that went of itself has read everything.
Settling ==
    outcome = "running" =>
        /\ protocol # "claude" =>
              Cardinality(EndsIn(out)) + 1 + Len(liveDelivered) <= outstanding + Cardinality(answered)
        /\ protocol = "claude" /\ ~alive /\ ~crashed => pipe = <<>> /\ turn = {}

TurnInv == TurnTypes /\ Placed /\ InHand /\ Settling /\ NoFalseDeliveryUnlessCrashed
-----------------------------------------------------------------------------
(* Sequences of messages                                                   *)

LEMMA ToSetAppend ==
    ASSUME NEW S, NEW s \in Seq(S), NEW x
    PROVE ToSet(Append(s, x)) = ToSet(s) \cup {x}
<1>1. /\ DOMAIN Append(s, x) = 1..Len(s) + 1 /\ Append(s, x)[Len(s) + 1] = x /\ Len(s) \in Nat
      /\ DOMAIN s = 1..Len(s)
      /\ \A i \in 1..Len(s) : Append(s, x)[i] = s[i]
    OBVIOUS
<1>2. \A i \in 1..Len(s) + 1 : i \in 1..Len(s) \/ i = Len(s) + 1
    BY <1>1
<1>3. 1..Len(s) \subseteq 1..Len(s) + 1 /\ Len(s) + 1 \in 1..Len(s) + 1
    BY <1>1
<1> HIDE <1>2
<1>4. ToSet(Append(s, x)) \subseteq ToSet(s) \cup {x}
    BY <1>1, <1>2 DEF ToSet
<1>5. ToSet(s) \cup {x} \subseteq ToSet(Append(s, x))
    BY <1>1, <1>3 DEF ToSet
<1> QED
    BY <1>4, <1>5

LEMMA ToSetConcat ==
    ASSUME NEW S, NEW s \in Seq(S), NEW t \in Seq(S)
    PROVE ToSet(s \o t) = ToSet(s) \cup ToSet(t)
<1>1. /\ DOMAIN (s \o t) = 1..Len(s) + Len(t) /\ Len(s) \in Nat /\ Len(t) \in Nat
      /\ DOMAIN s = 1..Len(s) /\ DOMAIN t = 1..Len(t)
    OBVIOUS
<1>2. \A i \in 1..Len(s) : (s \o t)[i] = s[i] /\ i \in 1..Len(s) + Len(t)
    BY <1>1
<1>3. \A i \in 1..Len(t) : (s \o t)[Len(s) + i] = t[i] /\ Len(s) + i \in 1..Len(s) + Len(t)
    BY <1>1
<1>4. ASSUME NEW i \in 1..Len(s) + Len(t) PROVE (s \o t)[i] \in ToSet(s) \cup ToSet(t)
    <2>1. CASE i \in 1..Len(s)
        BY <1>1, <1>2, <2>1 DEF ToSet
    <2>2. CASE i \notin 1..Len(s)
        <3>1. i - Len(s) \in 1..Len(t) /\ Len(s) + (i - Len(s)) = i
            BY <1>1, <2>2
        <3>2. (s \o t)[i] = t[i - Len(s)]
            BY <1>3, <3>1
        <3> QED
            BY <1>1, <3>1, <3>2 DEF ToSet
    <2> QED
        BY <2>1, <2>2
<1>5. ToSet(s \o t) \subseteq ToSet(s) \cup ToSet(t)
    BY <1>1, <1>4 DEF ToSet
<1>6. ToSet(s) \subseteq ToSet(s \o t)
    BY <1>1, <1>2 DEF ToSet
<1>7. ToSet(t) \subseteq ToSet(s \o t)
    BY <1>1, <1>3 DEF ToSet
<1> QED
    BY <1>5, <1>6, <1>7

LEMMA InjectiveConcat ==
    ASSUME NEW S, NEW s \in Seq(S), NEW t \in Seq(S), IsInjective(s), IsInjective(t),
           ToSet(s) \cap ToSet(t) = {}
    PROVE IsInjective(s \o t)
<1>1. /\ DOMAIN (s \o t) = 1..Len(s) + Len(t) /\ Len(s) \in Nat /\ Len(t) \in Nat
      /\ DOMAIN s = 1..Len(s) /\ DOMAIN t = 1..Len(t)
    OBVIOUS
<1>2. ASSUME NEW i \in 1..Len(s) + Len(t)
      PROVE \/ i \in 1..Len(s) /\ (s \o t)[i] = s[i] /\ s[i] \in ToSet(s)
            \/ i - Len(s) \in 1..Len(t) /\ (s \o t)[i] = t[i - Len(s)] /\ t[i - Len(s)] \in ToSet(t)
    BY <1>1 DEF ToSet
<1>3. ASSUME NEW i \in 1..Len(s) + Len(t), NEW j \in 1..Len(s) + Len(t), (s \o t)[i] = (s \o t)[j]
      PROVE i = j
    <2>1. CASE i \in 1..Len(s) /\ j \in 1..Len(s)
        BY <1>1, <1>3, <2>1 DEF IsInjective
    <2>2. CASE i \notin 1..Len(s) /\ j \notin 1..Len(s)
        <3>1. i - Len(s) = j - Len(s)
            BY <1>1, <1>2, <1>3, <2>2 DEF IsInjective
        <3> QED
            BY <1>1, <3>1
    <2>3. CASE i \in 1..Len(s) /\ j \notin 1..Len(s)
        <3>1. (s \o t)[i] = s[i] /\ s[i] \in ToSet(s)
            BY <1>1, <2>3 DEF ToSet
        <3>2. (s \o t)[j] \in ToSet(t)
            BY <1>2, <2>3
        <3> QED
            BY <1>3, <3>1, <3>2
    <2>4. CASE i \notin 1..Len(s) /\ j \in 1..Len(s)
        <3>1. (s \o t)[j] = s[j] /\ s[j] \in ToSet(s)
            BY <1>1, <2>4 DEF ToSet
        <3>2. (s \o t)[i] \in ToSet(t)
            BY <1>2, <2>4
        <3> QED
            BY <1>3, <3>1, <3>2
    <2> QED
        BY <2>1, <2>2, <2>3, <2>4
<1> QED
    BY <1>1, <1>3 DEF IsInjective

LEMMA AscendingIsInjective ==
    ASSUME NEW s \in Seq(Nat), Ascending(s)
    PROVE IsInjective(s)
<1>1. ASSUME NEW i \in 1..Len(s), NEW j \in 1..Len(s), s[i] = s[j] PROVE i = j
    <2>1. s[i] \in Nat /\ s[j] \in Nat /\ Len(s) \in Nat
        OBVIOUS
    <2>2. ~(i < j) /\ ~(j < i)
        BY <1>1, <2>1 DEF Ascending
    <2> QED
        BY <2>1, <2>2
<1>2. DOMAIN s = 1..Len(s)
    OBVIOUS
<1> QED
    BY <1>1, <1>2 DEF IsInjective

LEMMA AscendingAppend ==
    ASSUME NEW s \in Seq(Nat), Ascending(s), NEW x \in Nat, \A y \in ToSet(s) : y < x
    PROVE Ascending(Append(s, x))
<1>1. /\ Len(Append(s, x)) = Len(s) + 1 /\ Append(s, x)[Len(s) + 1] = x /\ Len(s) \in Nat
      /\ \A i \in 1..Len(s) : Append(s, x)[i] = s[i] /\ s[i] \in ToSet(s)
    BY DEF ToSet
<1>2. ASSUME NEW i \in 1..Len(s) + 1, NEW j \in 1..Len(s) + 1, i < j
      PROVE Append(s, x)[i] < Append(s, x)[j]
    <2>1. i \in 1..Len(s)
        BY <1>1, <1>2
    <2>2. CASE j = Len(s) + 1
        BY <1>1, <2>1, <2>2
    <2>3. CASE j \in 1..Len(s)
        BY <1>1, <1>2, <2>1, <2>3 DEF Ascending
    <2> QED
        BY <1>1, <2>2, <2>3
<1> QED
    BY <1>1, <1>2 DEF Ascending

LEMMA TakeHead ==
    ASSUME NEW s \in Seq(Nat), Ascending(s), s # <<>>
    PROVE /\ Head(s) \in ToSet(s) /\ Head(s) \in Nat
          /\ Tail(s) \in Seq(Nat) /\ Ascending(Tail(s))
          /\ ToSet(Tail(s)) = ToSet(s) \ {Head(s)}
          /\ \A y \in ToSet(Tail(s)) : Head(s) < y
<1>1. /\ Len(s) \in Nat /\ Len(s) > 0 /\ DOMAIN s = 1..Len(s) /\ Head(s) = s[1] /\ 1 \in 1..Len(s)
      /\ Tail(s) \in Seq(Nat) /\ Len(Tail(s)) = Len(s) - 1 /\ DOMAIN Tail(s) = 1..Len(s) - 1
    OBVIOUS
<1>2. \A i \in 1..Len(s) - 1 : Tail(s)[i] = s[i + 1] /\ i + 1 \in 1..Len(s) /\ 1 < i + 1
    BY <1>1
<1>3. \A i \in 1..Len(s) : i # 1 => i - 1 \in 1..Len(s) - 1 /\ Tail(s)[i - 1] = s[i]
    BY <1>1
<1>4. Head(s) \in ToSet(s) /\ Head(s) \in Nat
    BY <1>1 DEF ToSet
<1>5. \A y \in ToSet(Tail(s)) : y \in ToSet(s) /\ Head(s) < y
    BY <1>1, <1>2 DEF ToSet, Ascending
<1>6. ASSUME NEW y \in ToSet(s), y # Head(s) PROVE y \in ToSet(Tail(s))
    <2>1. PICK i \in 1..Len(s) : y = s[i]
        BY <1>1 DEF ToSet
    <2>2. i - 1 \in 1..Len(s) - 1 /\ Tail(s)[i - 1] = y
        BY <1>1, <1>3, <1>6, <2>1
    <2> QED
        BY <1>1, <2>2 DEF ToSet
<1>7. Ascending(Tail(s))
    BY <1>1, <1>2 DEF Ascending
<1>8. \A y \in ToSet(Tail(s)) : y # Head(s)
    BY <1>4, <1>5
<1> QED
    BY <1>1, <1>4, <1>5, <1>6, <1>7, <1>8

\* A part of a sequence of messages, and what is in it.
LEMMA Part ==
    ASSUME NEW s \in Seq(Nat), Ascending(s), NEW a \in Nat, NEW b \in Nat, 1 <= a, b <= Len(s), a <= b + 1
    PROVE /\ SubSeq(s, a, b) \in Seq(Nat) /\ Len(SubSeq(s, a, b)) = b + 1 - a
          /\ Ascending(SubSeq(s, a, b))
          /\ ToSet(SubSeq(s, a, b)) = {s[i] : i \in a..b}
<1> DEFINE p == SubSeq(s, a, b)
<1>1. /\ Len(s) \in Nat /\ DOMAIN s = 1..Len(s)
      /\ p \in Seq(Nat) /\ Len(p) = b + 1 - a /\ DOMAIN p = 1..b + 1 - a
      /\ \A i \in 1..b + 1 - a : p[i] = s[a + i - 1] /\ a + i - 1 \in a..b
    OBVIOUS
<1>2. \A i \in a..b : i - a + 1 \in 1..b + 1 - a /\ a + (i - a + 1) - 1 = i /\ i \in 1..Len(s)
    BY <1>1
<1> HIDE DEF p
<1>3. ToSet(p) \subseteq {s[i] : i \in a..b}
    BY <1>1 DEF ToSet
<1>4. {s[i] : i \in a..b} \subseteq ToSet(p)
    <2> SUFFICES ASSUME NEW i \in a..b PROVE s[i] \in ToSet(p)
        OBVIOUS
    <2>1. p[i - a + 1] = s[i]
        BY <1>1, <1>2
    <2> QED
        BY <1>1, <1>2, <2>1 DEF ToSet
<1>5. Ascending(p)
    <2> SUFFICES ASSUME NEW i \in 1..b + 1 - a, NEW j \in 1..b + 1 - a, i < j PROVE p[i] < p[j]
        BY <1>1 DEF Ascending
    <2>1. a + i - 1 \in 1..Len(s) /\ a + j - 1 \in 1..Len(s) /\ a + i - 1 < a + j - 1
        BY <1>1
    <2>2. s[a + i - 1] < s[a + j - 1]
        BY <2>1 DEF Ascending
    <2> QED
        BY <1>1, <2>2
<1> QED
    BY <1>1, <1>3, <1>4, <1>5 DEF p

LEMMA Joined ==
    ASSUME NEW s \in Seq(Nat), NEW t \in Seq(Nat)
    PROVE /\ s \o t \in Seq(Nat) /\ Len(s \o t) = Len(s) + Len(t) /\ Len(s) \in Nat /\ Len(t) \in Nat
          /\ \A j \in 1..Len(s) + Len(t) : (s \o t)[j] = IF j <= Len(s) THEN s[j] ELSE t[j - Len(s)]
OBVIOUS

\* One of the messages is taken out.
LEMMA RemoveOne ==
    ASSUME NEW s \in Seq(Nat), Ascending(s), NEW i \in 1..Len(s), NEW m, m = s[i]
    PROVE /\ RemoveAt(s, i) \in Seq(Nat) /\ Len(RemoveAt(s, i)) = Len(s) - 1
          /\ Ascending(RemoveAt(s, i)) /\ ToSet(RemoveAt(s, i)) = ToSet(s) \ {m}
<1>1. i \in 1..Len(s) /\ s[i] = m /\ Len(s) \in Nat /\ DOMAIN s = 1..Len(s)
    OBVIOUS
<1> DEFINE a == SubSeq(s, 1, i - 1)
           b == SubSeq(s, i + 1, Len(s))
<1>2. /\ a \in Seq(Nat) /\ Len(a) = i - 1 /\ Ascending(a) /\ ToSet(a) = {s[k] : k \in 1..i - 1}
    <2>1. i - 1 \in Nat /\ 1 \in Nat /\ 1 <= 1 /\ i - 1 <= Len(s) /\ 1 <= (i - 1) + 1 /\ (i - 1) + 1 - 1 = i - 1
        BY <1>1
    <2> HIDE DEF a
    <2> QED
        BY <2>1, Part DEF a
<1>3. /\ b \in Seq(Nat) /\ Len(b) = Len(s) - i /\ Ascending(b) /\ ToSet(b) = {s[k] : k \in i + 1..Len(s)}
    <2>1. i \in Nat /\ i <= Len(s) /\ Len(s) \in Nat
        BY <1>1
    <2>2. i + 1 \in Nat /\ 1 <= i + 1 /\ Len(s) <= Len(s) /\ i + 1 <= Len(s) + 1 /\ Len(s) + 1 - (i + 1) = Len(s) - i
        BY <2>1
    <2> HIDE DEF b
    <2> QED
        BY <2>1, <2>2, Part DEF b
<1>4. RemoveAt(s, i) = a \o b
    BY DEF RemoveAt
<1> HIDE DEF a, b
<1>5. a \o b \in Seq(Nat) /\ Len(a \o b) = Len(s) - 1
    <2>1. i \in Nat /\ Len(s) \in Nat
        BY <1>1
    <2>2. a \o b \in Seq(Nat) /\ Len(a \o b) = Len(a) + Len(b)
        BY <1>2, <1>3, Joined
    <2> QED
        BY <1>2, <1>3, <2>1, <2>2
<1>6. ToSet(a \o b) = ToSet(a) \cup ToSet(b)
    BY <1>2, <1>3, ToSetConcat
<1>7. \A k \in 1..Len(s) : s[k] = m => k = i
    BY <1>1, AscendingIsInjective DEF IsInjective
<1>8. ToSet(a \o b) = ToSet(s) \ {m}
    <2>1. \A k \in 1..Len(s) : k \in 1..i - 1 \/ k = i \/ k \in i + 1..Len(s)
        BY <1>1
    <2>2. \A k \in 1..i - 1 : k \in 1..Len(s) /\ k # i
        BY <1>1
    <2>3. \A k \in i + 1..Len(s) : k \in 1..Len(s) /\ k # i
        BY <1>1
    <2>4. ToSet(s) = {s[k] : k \in 1..Len(s)}
        BY <1>1 DEF ToSet
    <2>5. ASSUME NEW y \in ToSet(s), y # m PROVE y \in ToSet(a) \cup ToSet(b)
        <3>1. PICK k \in 1..Len(s) : y = s[k]
            BY <2>4
        <3>2. k # i
            BY <1>1, <2>5, <3>1
        <3> QED
            BY <1>2, <1>3, <2>1, <3>1, <3>2
    <2>6. \A y \in ToSet(a) : y \in ToSet(s) /\ y # m
        BY <1>2, <1>7, <2>2, <2>4
    <2>7. \A y \in ToSet(b) : y \in ToSet(s) /\ y # m
        BY <1>3, <1>7, <2>3, <2>4
    <2> QED
        BY <1>6, <2>5, <2>6, <2>7
<1>9. Ascending(a \o b)
    <2>1. ASSUME NEW x \in ToSet(a), NEW y \in ToSet(b) PROVE x < y
        <3>1. PICK k \in 1..i - 1 : x = s[k]
            BY <1>2
        <3>2. PICK l \in i + 1..Len(s) : y = s[l]
            BY <1>3
        <3>3. k \in 1..Len(s) /\ l \in 1..Len(s) /\ k < l
            BY <1>1, <3>1, <3>2
        <3> QED
            BY <3>1, <3>2, <3>3 DEF Ascending
    <2> SUFFICES ASSUME NEW k \in 1..Len(a \o b), NEW l \in 1..Len(a \o b), k < l PROVE (a \o b)[k] < (a \o b)[l]
        BY DEF Ascending
    <2>2. /\ Len(a) \in Nat /\ Len(b) \in Nat /\ Len(a \o b) = Len(a) + Len(b)
          /\ DOMAIN a = 1..Len(a) /\ DOMAIN b = 1..Len(b)
        <3>1. a \in Seq(Nat) /\ b \in Seq(Nat)
            BY <1>2, <1>3
        <3>2. DOMAIN a = 1..Len(a) /\ DOMAIN b = 1..Len(b)
            BY <3>1
        <3> QED
            BY <3>1, <3>2, Joined
    <2>3. \A j \in 1..Len(a) + Len(b) :
             (a \o b)[j] = IF j <= Len(a) THEN a[j] ELSE b[j - Len(a)]
        BY <1>2, <1>3, Joined
    <2>4. CASE k <= Len(a) /\ l <= Len(a)
        <3>1. k \in 1..Len(a) /\ l \in 1..Len(a)
            BY <2>2, <2>4
        <3>2. a[k] < a[l]
            BY <1>2, <3>1 DEF Ascending
        <3> QED
            BY <2>2, <2>3, <2>4, <3>2
    <2>5. CASE k <= Len(a) /\ ~(l <= Len(a))
        <3>1. k \in 1..Len(a) /\ l - Len(a) \in 1..Len(b)
            BY <2>2, <2>5
        <3>2. a[k] \in ToSet(a) /\ b[l - Len(a)] \in ToSet(b)
            BY <2>2, <3>1 DEF ToSet
        <3> QED
            BY <2>1, <2>2, <2>3, <2>5, <3>2
    <2>6. CASE ~(k <= Len(a)) /\ ~(l <= Len(a))
        <3>1. k - Len(a) \in 1..Len(b) /\ l - Len(a) \in 1..Len(b) /\ k - Len(a) < l - Len(a)
            BY <2>2, <2>6
        <3>2. b[k - Len(a)] < b[l - Len(a)]
            BY <1>3, <3>1 DEF Ascending
        <3> QED
            BY <2>2, <2>3, <2>6, <3>2
    <2> QED
        BY <2>2, <2>4, <2>5, <2>6
<1> QED
    BY <1>4, <1>5, <1>8, <1>9

\* The oldest of the messages: no more of them than there are answered ones, when those are
\* older than the rest.
LEMMA Oldest ==
    ASSUME NEW s \in Seq(Nat), Ascending(s), NEW A, IsFiniteSet(A), A \subseteq ToSet(s),
           \A x \in A : \A y \in ToSet(s) \ A : x < y,
           NEW n \in Nat, n <= Len(s), n <= Cardinality(A), NEW j \in 1..n
    PROVE s[j] \in A
<1> SUFFICES ASSUME s[j] \notin A PROVE FALSE
    OBVIOUS
<1>1. Len(s) \in Nat /\ DOMAIN s = 1..Len(s) /\ j \in 1..Len(s) /\ j - 1 \in Nat
    OBVIOUS
<1> DEFINE older == {s[i] : i \in 1..j - 1}
           f == [i \in 1..j - 1 |-> s[i]]
<1>2. ASSUME NEW x \in A PROVE x \in older
    <2>1. PICK i \in 1..Len(s) : x = s[i]
        BY <1>1 DEF ToSet
    <2>2. s[i] < s[j] /\ s[i] \in Nat /\ s[j] \in Nat
        BY <1>1, <1>2, <2>1 DEF ToSet
    <2>3. i # j /\ ~(j < i)
        BY <1>1, <2>2 DEF Ascending
    <2>4. i \in 1..j - 1
        BY <1>1, <2>3
    <2> QED
        BY <2>1, <2>4
<1>3. f \in Surjection(1..j - 1, older)
    BY DEF Surjection
<1>4. IsFiniteSet(1..j - 1) /\ Cardinality(1..j - 1) = j - 1
    <2>1. 1 \in Int /\ j - 1 \in Int
        BY <1>1
    <2>2. IsFiniteSet(1..j - 1) /\ Cardinality(1..j - 1) = IF 1 > j - 1 THEN 0 ELSE (j - 1) - 1 + 1
        BY <2>1, FS_Interval
    <2> QED
        BY <1>1, <2>2
<1> HIDE DEF f, older
<1>5. IsFiniteSet(older) /\ Cardinality(older) <= j - 1
    BY <1>3, <1>4, FS_Surjection
<1>6. A \subseteq older
    BY <1>2
<1>7. Cardinality(A) <= Cardinality(older) /\ Cardinality(A) \in Nat /\ Cardinality(older) \in Nat
    BY <1>5, <1>6, FS_Subset, FS_CardinalityType
<1> QED
    BY <1>1, <1>5, <1>7

LEMMA EndsAppend ==
    ASSUME NEW S, NEW o \in Seq(S), NEW e
    PROVE /\ IsFiniteSet(EndsIn(o)) /\ Cardinality(EndsIn(o)) \in Nat
          /\ Cardinality(EndsIn(Append(o, e))) \in Nat
          /\ e = "turn-end" => Cardinality(EndsIn(Append(o, e))) = Cardinality(EndsIn(o)) + 1
          /\ e # "turn-end" => EndsIn(Append(o, e)) = EndsIn(o)
<1>1. /\ Len(Append(o, e)) = Len(o) + 1 /\ Append(o, e)[Len(o) + 1] = e /\ Len(o) \in Nat
      /\ \A i \in 1..Len(o) : Append(o, e)[i] = o[i]
    OBVIOUS
<1>2. EndsIn(o) \subseteq 1..Len(o) /\ Len(o) + 1 \notin EndsIn(o)
    BY <1>1 DEF EndsIn
<1>3. IsFiniteSet(1..Len(o))
    BY <1>1, FS_Interval
<1>4. IsFiniteSet(EndsIn(o)) /\ Cardinality(EndsIn(o)) \in Nat
    BY <1>2, <1>3, FS_Subset, FS_CardinalityType
<1>5. e = "turn-end" => EndsIn(Append(o, e)) = EndsIn(o) \cup {Len(o) + 1}
    BY <1>1 DEF EndsIn
<1>6. e # "turn-end" => EndsIn(Append(o, e)) = EndsIn(o)
    BY <1>1 DEF EndsIn
<1>7. Cardinality(EndsIn(o) \cup {Len(o) + 1}) = Cardinality(EndsIn(o)) + 1
    BY <1>2, <1>4, FS_AddElement
<1>8. CASE e = "turn-end"
    <2>1. Cardinality(EndsIn(Append(o, e))) = Cardinality(EndsIn(o)) + 1
        BY <1>5, <1>7, <1>8
    <2>2. Cardinality(EndsIn(Append(o, e))) \in Nat
        BY <1>4, <2>1
    <2> QED
        BY <1>4, <1>8, <2>1, <2>2
<1>9. CASE e # "turn-end"
    BY <1>4, <1>6, <1>9
<1> QED
    BY <1>8, <1>9

LEMMA EndsTail ==
    ASSUME NEW S, NEW o \in Seq(S), o # <<>>
    PROVE /\ Cardinality(EndsIn(o)) \in Nat /\ Cardinality(EndsIn(Tail(o))) \in Nat
          /\ Head(o) = "turn-end" => Cardinality(EndsIn(o)) = Cardinality(EndsIn(Tail(o))) + 1
          /\ Head(o) # "turn-end" => Cardinality(EndsIn(o)) = Cardinality(EndsIn(Tail(o)))
<1>1. /\ Len(o) \in Nat /\ Len(o) > 0 /\ Head(o) = o[1] /\ Len(Tail(o)) = Len(o) - 1
      /\ Tail(o) \in Seq(S)
      /\ \A i \in 1..Len(o) - 1 : Tail(o)[i] = o[i + 1] /\ i + 1 \in 1..Len(o)
    OBVIOUS
<1> DEFINE later == {i \in 2..Len(o) : o[i] = "turn-end"}
           f == [i \in EndsIn(Tail(o)) |-> i + 1]
<1>2. IsFiniteSet(EndsIn(Tail(o))) /\ Cardinality(EndsIn(Tail(o))) \in Nat
      /\ IsFiniteSet(EndsIn(o)) /\ Cardinality(EndsIn(o)) \in Nat
    BY <1>1, EndsAppend
<1>3. f \in Bijection(EndsIn(Tail(o)), later)
    <2>1. f \in [EndsIn(Tail(o)) -> later]
        BY <1>1 DEF EndsIn
    <2>2. IsInjective(f)
        BY <1>1 DEF IsInjective, EndsIn
    <2>3. ASSUME NEW t \in later PROVE \E i \in EndsIn(Tail(o)) : f[i] = t
        <3>1. t - 1 \in 1..Len(o) - 1 /\ (t - 1) + 1 = t
            BY <1>1
        <3>2. Tail(o)[t - 1] = "turn-end"
            BY <1>1, <3>1
        <3>3. t - 1 \in EndsIn(Tail(o))
            BY <1>1, <3>1, <3>2 DEF EndsIn
        <3> QED
            BY <3>1, <3>3
    <2> HIDE DEF f
    <2> QED
        BY <2>1, <2>2, <2>3 DEF Bijection, Injection, Surjection
<1> HIDE DEF f
<1>4. IsFiniteSet(later) /\ Cardinality(later) = Cardinality(EndsIn(Tail(o)))
    BY <1>2, <1>3, FS_Bijection DEF ExistsBijection
<1>5. Head(o) = "turn-end" => EndsIn(o) = later \cup {1}
    BY <1>1 DEF EndsIn
<1>6. Head(o) # "turn-end" => EndsIn(o) = later
    BY <1>1 DEF EndsIn
<1>7. 1 \notin later
    OBVIOUS
<1> HIDE DEF later
<1>8. Cardinality(later \cup {1}) = Cardinality(later) + 1
    BY <1>4, <1>7, FS_AddElement
<1> QED
    BY <1>2, <1>4, <1>5, <1>6, <1>8

LEMMA InjectiveAppend ==
    ASSUME NEW s \in Seq(Nat), IsInjective(s), NEW x, x \notin ToSet(s)
    PROVE IsInjective(Append(s, x))
<1>1. /\ DOMAIN Append(s, x) = 1..Len(s) + 1 /\ Append(s, x)[Len(s) + 1] = x /\ Len(s) \in Nat
      /\ DOMAIN s = 1..Len(s)
      /\ \A i \in 1..Len(s) : Append(s, x)[i] = s[i] /\ s[i] # x
    BY DEF ToSet
<1>2. \A i \in 1..Len(s) + 1 : i \in 1..Len(s) \/ i = Len(s) + 1
    BY <1>1
<1> QED
    BY <1>1, <1>2 DEF IsInjective

\* A message goes back to the front of the queue.
LEMMA PutInFront ==
    ASSUME NEW s \in Seq(Nat), IsInjective(s), NEW x \in Nat, x \notin ToSet(s)
    PROVE /\ <<x>> \o s \in Seq(Nat) /\ IsInjective(<<x>> \o s)
          /\ ToSet(<<x>> \o s) = {x} \cup ToSet(s)
<1>1. <<x>> \in Seq(Nat) /\ IsInjective(<<x>>) /\ ToSet(<<x>>) = {x}
    BY DEF IsInjective, ToSet
<1>2. <<x>> \o s \in Seq(Nat)
    BY <1>1
<1>3. IsInjective(<<x>> \o s)
    BY <1>1, InjectiveConcat
<1>4. ToSet(<<x>> \o s) = {x} \cup ToSet(s)
    <2>1. <<x>> \in Seq(Nat)
        OBVIOUS
    <2>2. ToSet(<<x>> \o s) = ToSet(<<x>>) \cup ToSet(s)
        BY <2>1, ToSetConcat
    <2> QED
        BY <1>1, <2>2
<1> QED
    BY <1>2, <1>3, <1>4
-----------------------------------------------------------------------------
(* Steps                                                                   *)

LEMMA TurnInitInv == TurnInit => TurnInv
<1> SUFFICES ASSUME TurnInit PROVE TurnInv
    OBVIOUS
<1>1. TurnTypes
    <2>1. <<>> \in Seq(Nat) /\ <<0>> \in Seq(Nat) /\ <<>> \in Seq({"ok", "error", "turn-end"})
        OBVIOUS
    <2> QED
        BY <2>1, FS_EmptySet, ProcessTurnAssumption DEF TurnInit, TurnTypes
<1>2. Placed
    BY DEF TurnInit, Placed, ToSet, Ascending, IsInjective
<1>3. InHand
    BY DEF TurnInit, InHand, Unsettled, ToSet, Ascending
<1>4. Settling
    <2>1. EndsIn(<<>>) = {}
        BY DEF EndsIn
    <2>2. Len(<<>>) = 0 /\ Cardinality({}) = 0
        BY FS_EmptySet
    <2>3. /\ out = <<>> /\ liveDelivered = <<>> /\ outstanding = 1 /\ answered = {} /\ alive = TRUE
        BY DEF TurnInit
    <2>4. Cardinality(EndsIn(out)) + 1 + Len(liveDelivered) <= outstanding + Cardinality(answered)
        BY <2>1, <2>2, <2>3
    <2> QED
        BY <2>3, <2>4 DEF Settling
<1>5. NoFalseDeliveryUnlessCrashed
    BY DEF TurnInit, NoFalseDeliveryUnlessCrashed, NoFalseDelivery
<1> QED
    BY <1>1, <1>2, <1>3, <1>4, <1>5 DEF TurnInv

LEMMA Numbers ==
    ASSUME TurnInv
    PROVE /\ Cardinality(EndsIn(out)) \in Nat /\ Cardinality(answered) \in Nat
          /\ outstanding \in Int /\ Len(liveDelivered) \in Nat
<1>1. out \in Seq({"ok", "error", "turn-end"}) /\ IsFiniteSet(answered)
    BY DEF TurnInv, TurnTypes
<1>2. Cardinality(EndsIn(out)) \in Nat
    BY <1>1, EndsAppend
<1>3. Cardinality(answered) \in Nat
    BY <1>1, FS_CardinalityType
<1>4. outstanding \in Int /\ Len(liveDelivered) \in Nat
    BY DEF TurnInv, TurnTypes
<1> QED
    BY <1>2, <1>3, <1>4

LEMMA SteerStep == TurnInv /\ Steer => TurnInv'
<1> SUFFICES ASSUME TurnInv, Steer PROVE TurnInv'
    OBVIOUS
<1> DEFINE m == steered + 1
<1>0. /\ outcome = "running" /\ m \in Nat /\ steered' = m /\ steered \in Nat /\ 1..m = (1..steered) \cup {m}
      /\ delivered = {}
      /\ UNCHANGED <<protocol, outcome, delivered, out, turn, answered, alive, crashed, stdinOpen>>
    BY DEF Steer, TurnInv, TurnTypes, Placed, verdict, process
<1>1. /\ \A y \in ToSet(liveDelivered) \cup ToSet(mailQueue) : y < m /\ y # m
      /\ \A y \in answered \cup Unsettled : y < m /\ y # m /\ y \in Nat
      /\ m # 0 /\ 0..steered \subseteq 0..m
    <2>1. ToSet(liveDelivered) \cup ToSet(mailQueue) \subseteq 1..steered
        BY DEF TurnInv, Placed
    <2>2. answered \cup Unsettled \subseteq 0..steered
        BY DEF TurnInv, InHand
    <2> QED
        BY <1>0, <2>1, <2>2
<1>2. CASE stdinOpen
    <2>1. liveDelivered' = Append(liveDelivered, m) /\ UNCHANGED mailQueue /\ outstanding' = outstanding + 1
        BY <1>2 DEF Steer, Counted
    <2>2. /\ ToSet(liveDelivered') = ToSet(liveDelivered) \cup {m} /\ Ascending(liveDelivered')
          /\ Len(liveDelivered') = Len(liveDelivered) + 1 /\ liveDelivered' \in Seq(Nat)
          /\ Len(liveDelivered) \in Nat
        <3>1. liveDelivered \in Seq(Nat) /\ Ascending(liveDelivered)
            BY DEF TurnInv, TurnTypes, Placed
        <3> QED
            BY <1>0, <1>1, <2>1, <3>1, ToSetAppend, AscendingAppend
    <2>3. Placed'
        BY <1>0, <1>1, <2>1, <2>2 DEF TurnInv, Placed
    <2>4. TurnTypes' /\ InHand'
        <3>1. CASE alive
            <4>1. pipe' = Append(pipe, m) /\ UNCHANGED failing /\ failing = <<>>
                BY <1>2, <3>1 DEF Steer, TurnInv, InHand
            <4>2. pipe \in Seq(Nat) /\ Ascending(pipe) /\ \A y \in ToSet(pipe) : y < m
                BY <1>1 DEF TurnInv, TurnTypes, InHand, Unsettled
            <4>3. ToSet(pipe') = ToSet(pipe) \cup {m} /\ Ascending(pipe') /\ pipe' \in Seq(Nat)
                BY <1>0, <4>1, <4>2, ToSetAppend, AscendingAppend
            <4>4. ToSet(failing) = {}
                BY <4>1 DEF ToSet
            <4>5. TurnTypes'
                BY <1>0, <2>1, <2>2, <4>1, <4>3 DEF TurnInv, TurnTypes
            <4>6. Unsettled' = Unsettled \cup {m}
                BY <1>0, <4>1, <4>3 DEF Unsettled
            <4>7. /\ Ascending(pipe') /\ Ascending(failing') /\ (failing' # <<>> => ~alive')
                  /\ 0 \in answered' \cup turn' \cup ToSet(pipe')
                BY <1>0, <4>1, <4>3 DEF TurnInv, InHand
            <4>8. ToSet(liveDelivered') = (answered' \cup Unsettled') \ {0}
                  /\ answered' \cup Unsettled' \subseteq 0..m
                BY <1>0, <1>1, <2>2, <4>6 DEF TurnInv, InHand
            <4>9. \A x \in answered' : \A y \in Unsettled' : x < y
                BY <1>0, <1>1, <4>6 DEF TurnInv, InHand
            <4>10. /\ \A x \in turn' : \A y \in ToSet(pipe') \cup ToSet(failing') : x < y
                   /\ \A x \in ToSet(pipe') : \A y \in ToSet(failing') : x < y
                BY <1>0, <1>1, <4>1, <4>3, <4>4 DEF TurnInv, InHand, Unsettled
            <4> QED
                BY <1>0, <4>5, <4>7, <4>8, <4>9, <4>10 DEF InHand
        <3>2. CASE ~alive
            <4>1. failing' = Append(failing, m) /\ UNCHANGED pipe
                BY <1>2, <3>2 DEF Steer
            <4>2. failing \in Seq(Nat) /\ Ascending(failing) /\ \A y \in ToSet(failing) : y < m
                BY <1>1 DEF TurnInv, TurnTypes, InHand, Unsettled
            <4>3. ToSet(failing') = ToSet(failing) \cup {m} /\ Ascending(failing') /\ failing' \in Seq(Nat)
                BY <1>0, <4>1, <4>2, ToSetAppend, AscendingAppend
            <4>5. TurnTypes'
                BY <1>0, <2>1, <2>2, <4>1, <4>3 DEF TurnInv, TurnTypes
            <4>6. Unsettled' = Unsettled \cup {m}
                BY <1>0, <4>1, <4>3 DEF Unsettled
            <4>7. /\ Ascending(pipe') /\ Ascending(failing') /\ (failing' # <<>> => ~alive')
                  /\ 0 \in answered' \cup turn' \cup ToSet(pipe')
                BY <1>0, <3>2, <4>1, <4>3 DEF TurnInv, InHand
            <4>8. ToSet(liveDelivered') = (answered' \cup Unsettled') \ {0}
                  /\ answered' \cup Unsettled' \subseteq 0..m
                BY <1>0, <1>1, <2>2, <4>6 DEF TurnInv, InHand
            <4>9. \A x \in answered' : \A y \in Unsettled' : x < y
                BY <1>0, <1>1, <4>6 DEF TurnInv, InHand
            <4>10. /\ \A x \in turn' : \A y \in ToSet(pipe') \cup ToSet(failing') : x < y
                   /\ \A x \in ToSet(pipe') : \A y \in ToSet(failing') : x < y
                BY <1>0, <1>1, <4>1, <4>3 DEF TurnInv, InHand, Unsettled
            <4> QED
                BY <1>0, <4>5, <4>7, <4>8, <4>9, <4>10 DEF InHand
        <3> QED
            BY <3>1, <3>2
    <2>5. Settling'
        <3>1. protocol # "claude" => Cardinality(EndsIn(out)) + 1 + Len(liveDelivered') <= outstanding' + Cardinality(answered)
            <4>1. Cardinality(EndsIn(out)) \in Nat /\ Cardinality(answered) \in Nat /\ outstanding \in Int
                BY Numbers
            <4> QED
                BY <1>0, <2>1, <2>2, <4>1 DEF TurnInv, Settling
        <3>2. ~alive => UNCHANGED pipe
            BY <1>2 DEF Steer
        <3> QED
            BY <1>0, <3>1, <3>2 DEF TurnInv, Settling
    <2> QED
        BY <1>0, <2>3, <2>4, <2>5 DEF TurnInv, NoFalseDeliveryUnlessCrashed, NoFalseDelivery
<1>3. CASE ~stdinOpen
    <2>1. mailQueue' = Append(mailQueue, m) /\ UNCHANGED <<liveDelivered, pipe, failing>> /\ outstanding' = outstanding
        BY <1>3 DEF Steer, Counted, TurnInv, TurnTypes
    <2>2. ToSet(mailQueue') = ToSet(mailQueue) \cup {m} /\ IsInjective(mailQueue') /\ mailQueue' \in Seq(Nat)
        <3>1. mailQueue \in Seq(Nat) /\ IsInjective(mailQueue) /\ m \notin ToSet(mailQueue)
            BY <1>1 DEF TurnInv, TurnTypes, Placed
        <3> QED
            BY <1>0, <2>1, <3>1, ToSetAppend, InjectiveAppend
    <2>3. Placed'
        BY <1>0, <1>1, <2>1, <2>2 DEF TurnInv, Placed
    <2>4. TurnTypes'
        BY <1>0, <2>1, <2>2 DEF TurnInv, TurnTypes
    <2>5. InHand'
        BY <1>0, <1>1, <2>1 DEF TurnInv, InHand, Unsettled
    <2>6. Settling'
        BY <1>0, <2>1 DEF TurnInv, Settling
    <2> QED
        BY <1>0, <2>3, <2>4, <2>5, <2>6 DEF TurnInv, NoFalseDeliveryUnlessCrashed, NoFalseDelivery
<1> QED
    BY <1>2, <1>3

LEMMA WriteFailsStep == TurnInv /\ WriteFails => TurnInv'
<1> SUFFICES ASSUME TurnInv, WriteFails PROVE TurnInv'
    OBVIOUS
<1> DEFINE m == Head(failing)
<1>0. /\ failing # <<>> /\ liveDelivered' = Undone(m) /\ mailQueue' = <<m>> \o mailQueue
      /\ failing' = Tail(failing) /\ outstanding' = outstanding - 1 /\ stdinOpen' = FALSE
      /\ UNCHANGED <<protocol, steered, outcome, delivered, pipe, out, turn, answered, alive, crashed>>
    BY DEF WriteFails, verdict, process
<1>1. outcome = "running" /\ ~alive
    BY <1>0 DEF TurnInv, Placed, InHand
<1>2. /\ m \in ToSet(failing) /\ m \in Nat
      /\ Tail(failing) \in Seq(Nat) /\ Ascending(Tail(failing))
      /\ ToSet(Tail(failing)) = ToSet(failing) \ {m}
    BY <1>0, TakeHead DEF TurnInv, TurnTypes, InHand
<1>3. m \in Unsettled /\ m \notin answered \cup turn \cup ToSet(pipe) /\ m # 0 /\ m \in ToSet(liveDelivered)
    <2>1. m \in Unsettled /\ ~(m < m)
        BY <1>2 DEF Unsettled
    <2>2. m \notin answered \cup turn \cup ToSet(pipe)
        BY <1>2, <2>1 DEF TurnInv, InHand
    <2> QED
        BY <1>1, <2>1, <2>2 DEF TurnInv, InHand
<1>4. /\ liveDelivered' \in Seq(Nat) /\ Len(liveDelivered') = Len(liveDelivered) - 1
      /\ Ascending(liveDelivered') /\ ToSet(liveDelivered') = ToSet(liveDelivered) \ {m}
    <2> DEFINE i == CHOOSE i \in DOMAIN liveDelivered : liveDelivered[i] = m
    <2>1. i \in DOMAIN liveDelivered /\ liveDelivered[i] = m
        BY <1>3 DEF ToSet
    <2>2. liveDelivered \in Seq(Nat) /\ Ascending(liveDelivered)
        BY DEF TurnInv, TurnTypes, Placed
    <2>3. liveDelivered' = RemoveAt(liveDelivered, i)
        BY <1>0, <1>3 DEF Undone
    <2> HIDE DEF i, m
    <2>4. i \in 1..Len(liveDelivered)
        BY <2>1, <2>2
    <2> QED
        BY <2>1, <2>2, <2>3, <2>4, RemoveOne
<1>5. /\ mailQueue' \in Seq(Nat) /\ IsInjective(mailQueue') /\ ToSet(mailQueue') = {m} \cup ToSet(mailQueue)
    <2>1. mailQueue \in Seq(Nat) /\ IsInjective(mailQueue) /\ m \notin ToSet(mailQueue)
        BY <1>3 DEF TurnInv, TurnTypes, Placed
    <2> QED
        BY <1>0, <1>2, <2>1, PutInFront
<1> HIDE DEF m
<1>6. TurnTypes'
    BY <1>0, <1>2, <1>4, <1>5 DEF TurnInv, TurnTypes
<1>7. Placed'
    BY <1>0, <1>1, <1>3, <1>4, <1>5 DEF TurnInv, Placed
<1>8. Unsettled' = Unsettled \ {m}
    BY <1>0, <1>2, <1>3 DEF Unsettled
<1>9. InHand'
    <2>1. ToSet(failing') \subseteq ToSet(failing) /\ Ascending(failing')
        BY <1>0, <1>2
    <2>2. ToSet(liveDelivered') = (answered' \cup Unsettled') \ {0}
        BY <1>0, <1>1, <1>3, <1>4, <1>8 DEF TurnInv, InHand
    <2>3. /\ answered' \cup Unsettled' \subseteq 0..steered
          /\ \A x \in answered' : \A y \in Unsettled' : x < y
        BY <1>0, <1>8 DEF TurnInv, InHand
    <2>4. /\ \A x \in turn' : \A y \in ToSet(pipe') \cup ToSet(failing') : x < y
          /\ \A x \in ToSet(pipe') : \A y \in ToSet(failing') : x < y
        BY <1>0, <2>1 DEF TurnInv, InHand
    <2>5. Ascending(pipe') /\ ~alive' /\ 0 \in answered' \cup turn' \cup ToSet(pipe')
        BY <1>0, <1>1 DEF TurnInv, InHand
    <2> QED
        BY <1>0, <2>1, <2>2, <2>3, <2>4, <2>5 DEF InHand
<1>10. Settling'
    <2>1. Cardinality(EndsIn(out)) \in Nat /\ Cardinality(answered) \in Nat /\ outstanding \in Int
          /\ Len(liveDelivered) \in Nat
        BY Numbers
    <2> QED
        BY <1>0, <1>4, <2>1 DEF TurnInv, Settling
<1> QED
    BY <1>0, <1>6, <1>7, <1>9, <1>10 DEF TurnInv, NoFalseDeliveryUnlessCrashed, NoFalseDelivery

\* Steps that leave the messages where they are.
LEMMA SameHands ==
    ASSUME TurnInv, UNCHANGED <<protocol, steered, mailQueue, liveDelivered, outcome, delivered, pipe, failing>>,
           UNCHANGED <<turn, answered, alive>>
    PROVE /\ InHand'
          /\ (stdinOpen' => stdinOpen) => Placed'
          /\ (crashed => crashed') => NoFalseDeliveryUnlessCrashed'
BY DEF TurnInv, Placed, InHand, Unsettled, NoFalseDeliveryUnlessCrashed, NoFalseDelivery

LEMMA ParseStep == TurnInv /\ (ParseResult \/ ParseTurnEnd \/ Doom) => TurnInv'
<1> SUFFICES ASSUME TurnInv, ParseResult \/ ParseTurnEnd \/ Doom PROVE TurnInv'
    OBVIOUS
<1>1. /\ UNCHANGED <<protocol, steered, mailQueue, liveDelivered, outcome, delivered, pipe, failing>>
      /\ UNCHANGED <<turn, answered, alive, crashed>> /\ (stdinOpen' => stdinOpen)
    <2>1. CASE ParseResult
        BY <2>1, Zenon DEF ParseResult, SettleResult, mail, verdict, process
    <2>2. CASE ParseTurnEnd
        BY <2>2, Zenon DEF ParseTurnEnd, mail, verdict, process
    <2>3. CASE Doom
        BY <2>3, Zenon DEF Doom, engine, mail, verdict, process
    <2> QED
        BY <2>1, <2>2, <2>3
<1>2. InHand' /\ Placed' /\ NoFalseDeliveryUnlessCrashed'
    BY <1>1, SameHands
<1>3. /\ Cardinality(EndsIn(out)) \in Nat /\ Cardinality(answered) \in Nat
      /\ outstanding \in Int /\ Len(liveDelivered) \in Nat
    BY Numbers
<1>4. out \in Seq({"ok", "error", "turn-end"})
    BY DEF TurnInv, TurnTypes
<1>5. CASE ParseResult
    <2>1. /\ out # <<>> /\ Head(out) # "turn-end" /\ out' = Tail(out)
          /\ outstanding' = IF protocol = "claude" THEN 0 ELSE outstanding
        BY <1>5 DEF ParseResult, SettleResult
    <2>2. Cardinality(EndsIn(out')) = Cardinality(EndsIn(out)) /\ out' \in Seq({"ok", "error", "turn-end"})
        BY <1>4, <2>1, EndsTail
    <2>3. TurnTypes'
        BY <1>1, <2>1, <2>2 DEF TurnInv, TurnTypes
    <2>4. Settling'
        BY <1>1, <2>1, <2>2 DEF TurnInv, Settling
    <2> QED
        BY <1>2, <2>3, <2>4 DEF TurnInv
<1>6. CASE ParseTurnEnd
    <2>1. out # <<>> /\ Head(out) = "turn-end" /\ out' = Tail(out) /\ outstanding' = outstanding - 1
        BY <1>6 DEF ParseTurnEnd
    <2>2. /\ Cardinality(EndsIn(out)) = Cardinality(EndsIn(out')) + 1
          /\ Cardinality(EndsIn(out')) \in Nat /\ out' \in Seq({"ok", "error", "turn-end"})
        BY <1>4, <2>1, EndsTail
    <2>3. TurnTypes'
        BY <1>1, <2>1, <2>2 DEF TurnInv, TurnTypes
    <2>4. Settling'
        BY <1>1, <1>3, <2>1, <2>2 DEF TurnInv, Settling
    <2> QED
        BY <1>2, <2>3, <2>4 DEF TurnInv
<1>7. CASE Doom
    <2>1. UNCHANGED <<out, outstanding>>
        BY <1>7 DEF Doom, engine
    <2>2. TurnTypes' /\ Settling'
        BY <1>1, <2>1 DEF TurnInv, TurnTypes, Settling
    <2> QED
        BY <1>2, <2>2 DEF TurnInv
<1> QED
    BY <1>5, <1>6, <1>7

LEMMA AllButOne ==
    ASSUME NEW S, IsFiniteSet(S), NEW x
    PROVE IsFiniteSet(S \ {x}) /\ Cardinality(S \ {x}) \in Nat /\ Cardinality(S) <= Cardinality(S \ {x}) + 1
<1>1. IsFiniteSet(S \ {x}) /\ Cardinality(S \ {x}) \in Nat /\ Cardinality(S) \in Nat
    BY FS_Subset, FS_CardinalityType
<1>2. Cardinality((S \ {x}) \cup {x}) = Cardinality(S \ {x}) + 1
    BY <1>1, FS_AddElement
<1>3. CASE x \in S
    <2>1. (S \ {x}) \cup {x} = S
        BY <1>3
    <2> QED
        BY <1>1, <1>2, <2>1
<1>4. CASE x \notin S
    <2>1. S \ {x} = S
        BY <1>4
    <2> QED
        BY <1>1, <2>1
<1> QED
    BY <1>3, <1>4

\* What an accepted turn marks delivered was answered.
LEMMA AcceptedIsAnswered ==
    ASSUME TurnInv, outcome = "running", ~alive, out = <<>>, failing = <<>>,
           protocol = "claude" => ~crashed,
           NEW j \in 1..Len(liveDelivered) - Unanswered
    PROVE liveDelivered[j] \in answered
<1>1. /\ Cardinality(answered) \in Nat /\ outstanding \in Int /\ Len(liveDelivered) \in Nat
      /\ IsFiniteSet(answered) /\ liveDelivered \in Seq(Nat) /\ Ascending(liveDelivered)
    BY Numbers DEF TurnInv, TurnTypes, Placed
<1>2. ToSet(failing) = {} /\ ToSet(liveDelivered) = (answered \cup turn \cup ToSet(pipe)) \ {0}
    <2>1. ToSet(failing) = {}
        BY DEF ToSet
    <2> QED
        BY <2>1 DEF TurnInv, InHand, Unsettled
<1>3. DOMAIN liveDelivered = 1..Len(liveDelivered)
    BY <1>1
<1>4. Unanswered \in Nat /\ Unanswered <= Len(liveDelivered) /\ j \in 1..Len(liveDelivered)
    BY <1>1 DEF Unanswered
<1>5. CASE protocol = "claude"
    <2>1. pipe = <<>> /\ turn = {}
        BY <1>5 DEF TurnInv, Settling
    <2>2. ToSet(liveDelivered) \subseteq answered
        BY <1>2, <2>1 DEF ToSet
    <2> QED
        BY <1>3, <1>4, <2>2 DEF ToSet
<1>6. CASE protocol # "claude"
    <2> DEFINE A == answered \ {0}
               n == Len(liveDelivered) - Unanswered
    <2>1. 1 + Len(liveDelivered) <= outstanding + Cardinality(answered)
        <3>1. EndsIn(out) = {}
            BY DEF EndsIn
        <3>2. Cardinality(EndsIn(out)) = 0
            BY <3>1, FS_EmptySet
        <3> QED
            BY <1>1, <1>6, <3>2 DEF TurnInv, Settling
    <2>2. IsFiniteSet(A) /\ Cardinality(answered) <= Cardinality(A) + 1 /\ Cardinality(A) \in Nat
        BY <1>1, AllButOne
    <2>3. n \in Nat /\ n <= Len(liveDelivered) /\ j \in 1..n
        BY <1>1, <1>4
    <2>4. n <= Cardinality(A)
        BY <1>1, <1>4, <2>1, <2>2 DEF Unanswered
    <2>5. A \subseteq ToSet(liveDelivered)
        BY <1>2
    <2>6. \A x \in A : \A y \in ToSet(liveDelivered) \ A : x < y
        BY <1>2 DEF TurnInv, InHand, Unsettled
    <2> HIDE DEF A, n
    <2>7. liveDelivered[j] \in A
        BY <1>1, <2>2, <2>3, <2>4, <2>5, <2>6, Oldest
    <2> QED
        BY <2>7 DEF A
<1> QED
    BY <1>5, <1>6

LEMMA CloseStep == TurnInv /\ Close => TurnInv'
<1> SUFFICES ASSUME TurnInv, Close PROVE TurnInv'
    OBVIOUS
<1>0. /\ outcome = "running" /\ ~alive /\ out = <<>> /\ failing = <<>>
      /\ liveDelivered' = <<>> /\ stdinOpen' = FALSE
      /\ UNCHANGED <<protocol, steered, outstanding, pipe, failing, out, turn, answered, alive, crashed>>
      /\ outcome' # "running"
    BY DEF Close, process
<1>1. /\ liveDelivered \in Seq(Nat) /\ Ascending(liveDelivered) /\ Len(liveDelivered) \in Nat
      /\ IsInjective(liveDelivered)
      /\ mailQueue \in Seq(Nat) /\ IsInjective(mailQueue)
      /\ ToSet(liveDelivered) \cap ToSet(mailQueue) = {} /\ delivered = {}
      /\ ToSet(liveDelivered) \cup ToSet(mailQueue) = 1..steered
      /\ outstanding \in Int
    BY <1>0, AscendingIsInjective DEF TurnInv, TurnTypes, Placed
<1> DEFINE n == Len(liveDelivered) - Unanswered
           head == SubSeq(liveDelivered, 1, n)
           tail == SubSeq(liveDelivered, n + 1, Len(liveDelivered))
<1>2. n \in Nat /\ n <= Len(liveDelivered)
    BY <1>1 DEF Unanswered
<1>3. ToSet(<<>>) = {} /\ <<>> \in Seq(Nat)
    BY DEF ToSet
<1>4. CASE Accepts
    <2>1. delivered' = ToSet(head) /\ mailQueue' = tail \o mailQueue
        BY <1>4 DEF Close
    <2> HIDE DEF n
    <2>2. ToSet(head) = {liveDelivered[i] : i \in 1..n}
        <3>1. 1 \in Nat /\ 1 <= 1 /\ 1 <= n + 1
            BY <1>2
        <3> HIDE DEF head
        <3> QED
            BY <1>1, <1>2, <3>1, Part DEF head
    <2>3. /\ tail \in Seq(Nat) /\ Ascending(tail)
          /\ ToSet(tail) = {liveDelivered[i] : i \in n + 1..Len(liveDelivered)}
        <3>1. n + 1 \in Nat /\ 1 <= n + 1 /\ Len(liveDelivered) <= Len(liveDelivered) /\ n + 1 <= Len(liveDelivered) + 1
            BY <1>1, <1>2
        <3> HIDE DEF tail
        <3> QED
            BY <1>1, <3>1, Part DEF tail
    <2> HIDE DEF head, tail
    <2>4. ToSet(head) \cup ToSet(tail) = ToSet(liveDelivered) /\ ToSet(head) \cap ToSet(tail) = {}
        <3>1. DOMAIN liveDelivered = 1..Len(liveDelivered)
            BY <1>1
        <3>2. ToSet(liveDelivered) = {liveDelivered[i] : i \in 1..Len(liveDelivered)}
            BY <3>1 DEF ToSet
        <3>3. 1..Len(liveDelivered) = (1..n) \cup (n + 1..Len(liveDelivered))
            BY <1>1, <1>2
        <3>4. ToSet(head) \cup ToSet(tail) = ToSet(liveDelivered)
            BY <2>2, <2>3, <3>2, <3>3
        <3>5. \A i \in 1..n : \A k \in n + 1..Len(liveDelivered) : i # k
            BY <1>2
        <3>6. ToSet(head) \cap ToSet(tail) = {}
            <4> SUFFICES ASSUME NEW i \in 1..n, NEW k \in n + 1..Len(liveDelivered),
                                liveDelivered[i] = liveDelivered[k]
                         PROVE FALSE
                BY <2>2, <2>3
            <4>1. i \in DOMAIN liveDelivered /\ k \in DOMAIN liveDelivered
                BY <3>1, <3>3
            <4> QED
                BY <1>1, <3>5, <4>1 DEF IsInjective
        <3> QED
            BY <3>4, <3>6
    <2>5. IsInjective(tail)
        BY <2>3, AscendingIsInjective
    <2>6. ToSet(tail) \cap ToSet(mailQueue) = {}
        BY <1>1, <2>4
    <2>7. mailQueue' \in Seq(Nat) /\ IsInjective(mailQueue') /\ ToSet(mailQueue') = ToSet(tail) \cup ToSet(mailQueue)
        <3>1. tail \o mailQueue \in Seq(Nat)
            BY <1>1, <2>3
        <3>2. IsInjective(tail \o mailQueue)
            BY <1>1, <2>3, <2>5, <2>6, InjectiveConcat
        <3>3. ToSet(tail \o mailQueue) = ToSet(tail) \cup ToSet(mailQueue)
            BY <1>1, <2>3, ToSetConcat
        <3> QED
            BY <2>1, <3>1, <3>2, <3>3
    <2>8. TurnTypes'
        BY <1>0, <1>3, <2>7 DEF TurnInv, TurnTypes
    <2>9. Placed'
        <3>1. ToSet(liveDelivered') = {} /\ Ascending(liveDelivered')
            BY <1>0, <1>3 DEF Ascending
        <3>2. ToSet(mailQueue') \cup delivered' = 1..steered' /\ delivered' \cap ToSet(mailQueue') = {}
            BY <1>0, <1>1, <2>1, <2>4, <2>7
        <3> QED
            BY <1>0, <2>7, <3>1, <3>2 DEF Placed
    <2>10. NoFalseDeliveryUnlessCrashed'
        <3> SUFFICES ASSUME protocol = "claude" => ~crashed PROVE ToSet(head) \subseteq answered
            BY <1>0, <2>1 DEF NoFalseDeliveryUnlessCrashed, NoFalseDelivery
        <3>1. \A j \in 1..n : liveDelivered[j] \in answered
            BY <1>0, AcceptedIsAnswered DEF n
        <3> QED
            BY <2>2, <3>1
    <2> QED
        BY <1>0, <2>8, <2>9, <2>10 DEF TurnInv, InHand, Unsettled, Settling
<1>5. CASE ~Accepts
    <2>1. mailQueue' = liveDelivered \o mailQueue /\ delivered' = {}
        BY <1>1, <1>5 DEF Close
    <2>2. mailQueue' \in Seq(Nat) /\ IsInjective(mailQueue')
          /\ ToSet(mailQueue') = ToSet(liveDelivered) \cup ToSet(mailQueue)
        <3>1. liveDelivered \o mailQueue \in Seq(Nat)
            BY <1>1
        <3>2. IsInjective(liveDelivered \o mailQueue)
            BY <1>1, InjectiveConcat
        <3>3. ToSet(liveDelivered \o mailQueue) = ToSet(liveDelivered) \cup ToSet(mailQueue)
            BY <1>1, ToSetConcat
        <3> QED
            BY <2>1, <3>1, <3>2, <3>3
    <2>3. TurnTypes'
        BY <1>0, <1>3, <2>2 DEF TurnInv, TurnTypes
    <2>4. Placed'
        BY <1>0, <1>1, <1>3, <2>1, <2>2 DEF Placed, Ascending
    <2>5. NoFalseDeliveryUnlessCrashed'
        BY <2>1 DEF NoFalseDeliveryUnlessCrashed, NoFalseDelivery
    <2> QED
        BY <1>0, <2>3, <2>4, <2>5 DEF TurnInv, InHand, Unsettled, Settling
<1> QED
    BY <1>4, <1>5

\* The oldest unread message is read into the turn.
LEMMA ReadStep == TurnInv /\ Read => TurnInv'
<1> SUFFICES ASSUME TurnInv, Read PROVE TurnInv'
    OBVIOUS
<1> DEFINE m == Head(pipe)
<1>0. /\ alive /\ pipe # <<>> /\ turn' = turn \cup {m} /\ pipe' = Tail(pipe)
      /\ UNCHANGED <<protocol, steered, liveDelivered, mailQueue, outstanding, stdinOpen, outcome, delivered>>
      /\ UNCHANGED <<failing, answered, out, alive, crashed>>
    BY DEF Read, engine, mail, verdict
<1>1. /\ m \in ToSet(pipe) /\ m \in Nat
      /\ Tail(pipe) \in Seq(Nat) /\ Ascending(Tail(pipe))
      /\ ToSet(Tail(pipe)) = ToSet(pipe) \ {m}
      /\ \A y \in ToSet(Tail(pipe)) : m < y
    BY <1>0, TakeHead DEF TurnInv, TurnTypes, InHand
<1> HIDE DEF m
<1>2. Unsettled' = Unsettled /\ answered' \cup turn' \cup ToSet(pipe') = answered \cup turn \cup ToSet(pipe)
    BY <1>0, <1>1 DEF Unsettled
<1>3. TurnTypes'
    <2>1. IsFiniteSet(turn')
        BY <1>0, FS_AddElement DEF TurnInv, TurnTypes
    <2> QED
        BY <1>0, <1>1, <2>1 DEF TurnInv, TurnTypes
<1>4. InHand'
    <2>1. ToSet(pipe') \subseteq ToSet(pipe) /\ Ascending(pipe')
        BY <1>0, <1>1
    <2>2. \A x \in turn' : \A y \in ToSet(pipe') \cup ToSet(failing') : x < y
        BY <1>0, <1>1, <2>1 DEF TurnInv, InHand
    <2>3. \A x \in ToSet(pipe') : \A y \in ToSet(failing') : x < y
        BY <1>0, <2>1 DEF TurnInv, InHand
    <2> QED
        BY <1>0, <1>2, <2>1, <2>2, <2>3 DEF TurnInv, InHand
<1>5. Placed' /\ Settling' /\ NoFalseDeliveryUnlessCrashed'
    BY <1>0 DEF TurnInv, Placed, Settling, NoFalseDeliveryUnlessCrashed, NoFalseDelivery
<1> QED
    BY <1>3, <1>4, <1>5 DEF TurnInv

LEMMA FinishTurnStep == TurnInv /\ FinishTurn => TurnInv'
<1> SUFFICES ASSUME TurnInv, FinishTurn PROVE TurnInv'
    OBVIOUS
<1>0. /\ alive /\ turn # {} /\ answered' = answered \cup turn /\ turn' = {}
      /\ UNCHANGED <<protocol, steered, liveDelivered, mailQueue, outstanding, stdinOpen, outcome, delivered>>
      /\ UNCHANGED <<failing, pipe, alive, crashed>>
    BY DEF FinishTurn, engine, mail, verdict
<1>1. PICK e \in {"ok", "error", "turn-end"} : out' = Append(out, e)
    BY DEF FinishTurn
<1>2. out \in Seq({"ok", "error", "turn-end"}) /\ IsFiniteSet(turn) /\ IsFiniteSet(answered)
    BY DEF TurnInv, TurnTypes
<1>3. /\ out' \in Seq({"ok", "error", "turn-end"}) /\ Cardinality(EndsIn(out')) \in Nat
      /\ Cardinality(EndsIn(out)) \in Nat
      /\ Cardinality(EndsIn(out')) <= Cardinality(EndsIn(out)) + 1
    <2>1. CASE e = "turn-end"
        BY <1>1, <1>2, <2>1, EndsAppend
    <2>2. CASE e # "turn-end"
        BY <1>1, <1>2, <2>2, EndsAppend
    <2> QED
        BY <2>1, <2>2
<1>4. IsFiniteSet(answered') /\ Cardinality(answered) + 1 <= Cardinality(answered')
      /\ Cardinality(answered') \in Nat /\ Cardinality(answered) \in Nat
    <2>1. PICK x \in turn : TRUE
        BY <1>0
    <2>2. x \notin answered
        <3>1. x \in Unsettled /\ x \in Nat /\ ~(x < x)
            BY DEF Unsettled, TurnInv, TurnTypes
        <3> QED
            BY <3>1 DEF TurnInv, InHand
    <2>3. IsFiniteSet(answered')
        BY <1>0, <1>2, FS_Union
    <2>4. answered \cup {x} \subseteq answered'
        BY <1>0, <2>1
    <2>5. Cardinality(answered \cup {x}) = Cardinality(answered) + 1 /\ Cardinality(answered) \in Nat
        BY <1>2, <2>2, FS_AddElement, FS_CardinalityType
    <2>6. Cardinality(answered \cup {x}) <= Cardinality(answered') /\ Cardinality(answered') \in Nat
        BY <2>3, <2>4, FS_Subset, FS_CardinalityType
    <2> QED
        BY <2>3, <2>5, <2>6
<1>5. TurnTypes'
    BY <1>0, <1>3, <1>4, FS_EmptySet DEF TurnInv, TurnTypes
<1>6. InHand'
    <2>1. answered' \cup Unsettled' = answered \cup Unsettled /\ Unsettled' \subseteq Unsettled
          /\ answered' \cup turn' \cup ToSet(pipe') = answered \cup turn \cup ToSet(pipe)
        BY <1>0 DEF Unsettled
    <2>2. \A x \in answered' : \A y \in Unsettled' : x < y
        BY <1>0 DEF TurnInv, InHand, Unsettled
    <2> QED
        BY <1>0, <2>1, <2>2 DEF TurnInv, InHand
<1>7. Settling'
    <2>1. outstanding \in Int /\ Len(liveDelivered) \in Nat
        BY Numbers
    <2> QED
        BY <1>0, <1>3, <1>4, <2>1 DEF TurnInv, Settling
<1>8. Placed' /\ NoFalseDeliveryUnlessCrashed'
    BY <1>0 DEF TurnInv, Placed, NoFalseDeliveryUnlessCrashed, NoFalseDelivery
<1> QED
    BY <1>5, <1>6, <1>7, <1>8 DEF TurnInv

LEMMA GoneStep == TurnInv /\ (Exit \/ Crash) => TurnInv'
<1> SUFFICES ASSUME TurnInv, Exit \/ Crash PROVE TurnInv'
    OBVIOUS
<1>0. /\ alive /\ alive' = FALSE
      /\ UNCHANGED <<protocol, steered, liveDelivered, mailQueue, outstanding, stdinOpen, outcome, delivered>>
      /\ UNCHANGED <<failing, pipe, turn, answered>>
      /\ (crashed => crashed')
    BY DEF Exit, Crash, engine, mail, verdict
<1>1. out' \in Seq({"ok", "error", "turn-end"}) /\ EndsIn(out') = EndsIn(out)
    <2>1. out \in Seq({"ok", "error", "turn-end"})
        BY DEF TurnInv, TurnTypes
    <2>2. UNCHANGED out \/ \E e \in {"ok", "error"} : out' = Append(out, e)
        BY DEF Exit, Crash
    <2>3. ASSUME NEW e \in {"ok", "error"}, out' = Append(out, e) PROVE EndsIn(out') = EndsIn(out)
        BY <2>1, <2>3, EndsAppend
    <2> QED
        BY <2>1, <2>2, <2>3
<1>2. TurnTypes'
    BY <1>0, <1>1 DEF TurnInv, TurnTypes
<1>3. Placed' /\ InHand' /\ NoFalseDeliveryUnlessCrashed'
    BY <1>0 DEF TurnInv, Placed, InHand, Unsettled, NoFalseDeliveryUnlessCrashed, NoFalseDelivery
<1>4. Settling'
    <2>1. protocol = "claude" /\ ~crashed' => pipe = <<>> /\ turn = {}
        BY DEF Exit, Crash
    <2> QED
        BY <1>0, <1>1, <2>1 DEF TurnInv, Settling
<1> QED
    BY <1>2, <1>3, <1>4 DEF TurnInv

LEMMA TurnQuiet == TurnInv /\ UNCHANGED turnVars => TurnInv'
BY DEF TurnInv, turnVars, engine, mail, verdict, process, TurnTypes, Placed, InHand, Unsettled, Settling,
   NoFalseDeliveryUnlessCrashed, NoFalseDelivery

LEMMA TurnInvariance == TurnSpec => []TurnInv
<1>1. TurnInv /\ [TurnNext]_turnVars => TurnInv'
    BY SteerStep, WriteFailsStep, ParseStep, CloseStep, ReadStep, FinishTurnStep, GoneStep, TurnQuiet
       DEF TurnNext, EngineStep, ProcessStep
<1> QED
    BY <1>1, TurnInitInv, PTL DEF TurnSpec
-----------------------------------------------------------------------------
\* No steer of a turn is lost or in two places, however many there are, whichever writes fail
\* and wherever the process dies.
THEOREM TurnAccountsForSteers == TurnSpec => []SteersAccounted
<1>1. TurnInv => SteersAccounted
    <2> SUFFICES ASSUME TurnInv PROVE SteersAccounted
        OBVIOUS
    <2>1. /\ liveDelivered \in Seq(Nat) /\ IsInjective(liveDelivered) /\ mailQueue \in Seq(Nat) /\ IsInjective(mailQueue)
          /\ ToSet(liveDelivered) \cap ToSet(mailQueue) = {}
        BY AscendingIsInjective DEF TurnInv, TurnTypes, Placed
    <2>2. IsInjective(liveDelivered \o mailQueue)
        BY <2>1, InjectiveConcat
    <2> QED
        BY <2>2 DEF TurnInv, Placed, SteersAccounted
<1> QED
    BY <1>1, TurnInvariance, PTL

\* What an accepted turn marks delivered the process has answered, for every protocol and every
\* order of injections, results and ends of turns.
THEOREM TurnDeliversNothingFalsely == TurnSpec => []NoFalseDeliveryUnlessCrashed
BY TurnInvariance, PTL DEF TurnInv
-----------------------------------------------------------------------------
(* A turn comes to its end: the argument of EveryTurnEnds, but for fairness *)

Claude == protocol = "claude"
Amp == protocol = "amp"

Flag(b) == IF b THEN 1 ELSE 0

\* While stdin is open to a live process, a message it was sent is unread, in its turn, or
\* settled by output that is on its way: for claude until a result is parsed, for amp by
\* the count, which one end of a turn lowers by one.
Open ==
    /\ stdinOpen => outstanding > 0
    /\ Claude => out \in Seq({"ok", "error"})
    /\ Claude /\ stdinOpen /\ answered # {} => out # <<>>
    /\ Amp => \A x, y \in turn : x = y
    /\ Amp /\ alive /\ stdinOpen
           => outstanding <= Len(pipe) + Flag(turn # {}) + Cardinality(EndsIn(out))
    /\ steered <= MaxSteer

\* The engine has something to handle, or the process to do: neither waits for the other.
SomethingToDo ==
    \/ failing # <<>> \/ out # <<>> \/ ~alive
    \/ turn # {} \/ pipe # <<>>
    \/ answered # {} /\ (protocol # "ampCoalescing" => ~stdinOpen)
NoStandoff == outcome = "running" => SomethingToDo

\* What is left to do of a turn: messages to inject, written ones to read or give back, the
\* child's turn and its end, output to parse, the verdict.
ToWrite == 4 * (MaxSteer - steered) + 3 * Len(pipe) + Len(failing)
ToWork == 2 * Flag(alive) + 2 * Flag(turn # {})
ToJudge == Flag(~doomed) + Flag(outcome = "running")
Rank == ToWrite + ToWork + Len(out) + ToJudge

LEMMA OpenInit == TurnInit => Open
<1> SUFFICES ASSUME TurnInit PROVE Open
    OBVIOUS
<1>1. Cardinality(EndsIn(out)) = 0
    <2>1. EndsIn(out) = {}
        BY DEF TurnInit, EndsIn
    <2> QED
        BY <2>1, FS_EmptySet
<1>2. Len(pipe) = 1 /\ turn = {} /\ answered = {} /\ out = <<>>
    BY DEF TurnInit
<1> QED
    BY <1>1, <1>2, ProcessTurnAssumption DEF TurnInit, Open, Flag

LEMMA OpenStep == TurnInv /\ Open /\ [TurnNext]_turnVars => Open'
<1> SUFFICES ASSUME TurnInv, Open, [TurnNext]_turnVars PROVE Open'
    OBVIOUS
<1>0. /\ outstanding \in Int /\ Len(pipe) \in Nat /\ steered \in Nat /\ MaxSteer \in Nat
      /\ Cardinality(EndsIn(out)) \in Nat
      /\ out \in Seq({"ok", "error", "turn-end"}) /\ pipe \in Seq(Nat)
      /\ protocol \in {"claude", "amp", "ampCoalescing"}
    BY Numbers, ProcessTurnAssumption DEF TurnInv, TurnTypes
<1>1. CASE Steer
    <2>1. UNCHANGED <<protocol, out, turn, answered, alive, stdinOpen>>
          /\ steered < MaxSteer /\ steered' = steered + 1
        BY <1>1 DEF Steer, process
    <2>2. outstanding' = outstanding + Flag(stdinOpen)
        BY <1>1 DEF Steer, Counted, Flag
    <2>3. alive /\ stdinOpen => Len(pipe') = Len(pipe) + 1
        BY <1>0, <1>1 DEF Steer
    <2> QED
        BY <1>0, <2>1, <2>2, <2>3 DEF Open, Flag, Claude, Amp
<1>2. CASE WriteFails
    BY <1>0, <1>2 DEF WriteFails, process, Open, Claude, Amp
<1>3. CASE ParseResult
    <2>1. /\ UNCHANGED <<protocol, steered, pipe, turn, answered, alive>>
          /\ out # <<>> /\ Head(out) # "turn-end" /\ out' = Tail(out)
          /\ outstanding' = (IF Claude THEN 0 ELSE outstanding)
          /\ stdinOpen' = (stdinOpen /\ ~Claude)
        BY <1>3 DEF ParseResult, SettleResult, mail, process, Claude
    <2>2. Cardinality(EndsIn(out')) = Cardinality(EndsIn(out))
        BY <1>0, <2>1, EndsTail
    <2>3. Claude => out' \in Seq({"ok", "error"})
        BY <2>1 DEF Open
    <2> QED
        BY <1>0, <2>1, <2>2, <2>3 DEF Open, Claude, Amp
<1>4. CASE ParseTurnEnd
    <2>1. /\ UNCHANGED <<protocol, steered, pipe, turn, answered, alive>>
          /\ out # <<>> /\ Head(out) = "turn-end" /\ out' = Tail(out)
          /\ outstanding' = outstanding - 1
          /\ (stdinOpen' => stdinOpen /\ outstanding > 1)
        BY <1>4 DEF ParseTurnEnd, MoreToCome, mail, process
    <2>2. /\ Cardinality(EndsIn(out)) = Cardinality(EndsIn(out')) + 1
          /\ Cardinality(EndsIn(out')) \in Nat
        BY <1>0, <2>1, EndsTail
    <2>3. ~Claude /\ ~Claude' /\ (Amp' <=> Amp)
        BY <2>1 DEF Open, Claude, Amp
    <2>4. Amp /\ alive /\ stdinOpen'
              => outstanding' <= Len(pipe) + Flag(turn # {}) + Cardinality(EndsIn(out'))
        BY <1>0, <2>1, <2>2 DEF Open, Flag
    <2>5. stdinOpen' => outstanding' > 0
        BY <1>0, <2>1
    <2> QED
        BY <2>1, <2>3, <2>4, <2>5 DEF Open
<1>5. CASE Doom
    BY <1>5 DEF Doom, engine, mail, verdict, process, Open, Claude, Amp
<1>6. CASE Close
    BY <1>0, <1>6 DEF Close, process, Open, Claude, Amp
<1>7. CASE Read
    <2>1. /\ UNCHANGED <<protocol, steered, outstanding, stdinOpen, out, answered, alive>>
          /\ Len(pipe') = Len(pipe) - 1
          /\ turn' = turn \cup {Head(pipe)} /\ (Amp => turn = {})
        BY <1>0, <1>7 DEF Read, engine, mail, Amp
    <2>2. turn' # {} /\ (Amp => \A x, y \in turn' : x = y)
        BY <2>1
    <2> QED
        BY <1>0, <2>1, <2>2 DEF Open, Claude, Amp, Flag
<1>8. CASE FinishTurn
    <2>1. /\ UNCHANGED <<protocol, steered, outstanding, stdinOpen, pipe, alive>>
          /\ turn # {} /\ turn' = {}
        BY <1>8 DEF FinishTurn, engine, mail
    <2>2. PICK e \in (IF protocol = "claude" THEN {"ok", "error"} ELSE {"turn-end"}) : out' = Append(out, e)
        BY <1>8 DEF FinishTurn
    <2>3. out' # <<>>
        BY <1>0, <2>2
    <2>4. Claude => out' \in Seq({"ok", "error"})
        BY <2>2 DEF Claude, Open
    <2>5. Amp => Cardinality(EndsIn(out')) = Cardinality(EndsIn(out)) + 1
        <3>1. SUFFICES ASSUME Amp PROVE Cardinality(EndsIn(out')) = Cardinality(EndsIn(out)) + 1
            OBVIOUS
        <3>2. e = "turn-end"
            BY <2>2, <3>1 DEF Amp
        <3> QED
            BY <1>0, <2>2, <3>2, EndsAppend
    <2> QED
        BY <1>0, <2>1, <2>3, <2>4, <2>5 DEF Open, Claude, Amp, Flag
<1>9. CASE Exit \/ Crash
    <2>1. /\ UNCHANGED <<protocol, steered, outstanding, stdinOpen, pipe, turn, answered>>
          /\ ~alive'
        BY <1>9 DEF Exit, Crash, engine, mail
    <2>2. Claude => out' = out
        BY <1>9 DEF Exit, Crash, Claude
    <2> QED
        BY <1>0, <2>1, <2>2 DEF Open, Claude, Amp
<1>10. CASE UNCHANGED turnVars
    BY <1>10 DEF turnVars, engine, mail, verdict, process, Open, Claude, Amp
<1> QED
    BY <1>1, <1>2, <1>3, <1>4, <1>5, <1>6, <1>7, <1>8, <1>9, <1>10 DEF TurnNext, EngineStep, ProcessStep

LEMMA OpenInvariance == TurnSpec => []Open
    BY OpenInit, OpenStep, TurnInvariance, PTL DEF TurnSpec

\* Engine and process do not wait for each other: as long as a turn runs, something was
\* printed and is to be parsed, a write has failed, or the process is gone, or works, or has
\* input, or may exit since its stdin was closed. For every protocol and any number of steers.
THEOREM TurnNeverStandsOff == TurnSpec => []NoStandoff
<1>1. TurnInv /\ Open => NoStandoff
    <2> SUFFICES ASSUME TurnInv, Open, outcome = "running", ~SomethingToDo PROVE FALSE
        BY DEF NoStandoff
    <2>1. alive /\ out = <<>> /\ pipe = <<>> /\ turn = {}
        BY DEF SomethingToDo
    <2>2. 0 \in answered
        <3>1. ToSet(pipe) = {}
            BY <2>1 DEF ToSet
        <3> QED
            BY <2>1, <3>1 DEF TurnInv, InHand
    <2>3. stdinOpen /\ Amp
        BY <2>1, <2>2 DEF SomethingToDo, Open, Claude, Amp, TurnInv, TurnTypes
    <2>4. Cardinality(EndsIn(out)) = 0
        <3>1. EndsIn(out) = {}
            BY <2>1 DEF EndsIn
        <3> QED
            BY <3>1, FS_EmptySet
    <2>5. outstanding <= 0
        BY <2>1, <2>3, <2>4, Numbers DEF Open, Flag
    <2> QED
        BY <2>3, <2>5, Numbers DEF Open
<1> QED
    BY <1>1, TurnInvariance, OpenInvariance, PTL

LEMMA RankIsNatural == TurnInv /\ Open => Rank \in Nat
    BY ProcessTurnAssumption DEF TurnInv, TurnTypes, Open, Rank, ToWrite, ToWork, ToJudge, Flag

LEMMA RankFalls == TurnInv /\ Open /\ TurnNext => Rank' < Rank
<1> SUFFICES ASSUME TurnInv, Open, TurnNext PROVE Rank' < Rank
    OBVIOUS
<1>0. /\ steered \in Nat /\ MaxSteer \in Nat /\ pipe \in Seq(Nat) /\ failing \in Seq(Nat)
      /\ out \in Seq({"ok", "error", "turn-end"})
      /\ Len(pipe) \in Nat /\ Len(failing) \in Nat /\ Len(out) \in Nat
    BY ProcessTurnAssumption DEF TurnInv, TurnTypes
<1>1. CASE Steer
    <2>1. Len(pipe') + Len(failing') <= Len(pipe) + Len(failing) + 1
          /\ Len(pipe') >= Len(pipe) /\ Len(failing') >= Len(failing)
          /\ Len(pipe') \in Nat /\ Len(failing') \in Nat
        BY <1>0, <1>1 DEF Steer
    <2>2. steered' = steered + 1 /\ UNCHANGED <<alive, turn, out, doomed, outcome>>
        BY <1>1 DEF Steer, process, verdict
    <2> QED
        <3>1. ToWork' = ToWork /\ ToJudge' = ToJudge /\ out' = out
            BY <2>2 DEF ToWork, ToJudge
        <3>2. ToWrite' < ToWrite /\ ToWrite' \in Int /\ ToWrite \in Int
            BY <1>0, <2>1, <2>2 DEF ToWrite
        <3>3. ToWork \in Nat /\ ToJudge \in Nat
            BY DEF ToWork, ToJudge, Flag
        <3> QED
            BY <1>0, <3>1, <3>2, <3>3 DEF Rank
<1>2. CASE WriteFails
    <2>1. Len(failing') = Len(failing) - 1 /\ UNCHANGED <<steered, pipe, alive, turn, out, doomed, outcome>>
        BY <1>0, <1>2 DEF WriteFails, process, verdict
    <2> QED
        BY <1>0, <2>1 DEF Rank, ToWrite, ToWork, ToJudge, Flag
<1>3. CASE ParseResult \/ ParseTurnEnd
    <2>1. Len(out') = Len(out) - 1 /\ UNCHANGED <<steered, pipe, failing, alive, turn, doomed, outcome>>
        BY <1>0, <1>3 DEF ParseResult, ParseTurnEnd, mail, process, verdict
    <2> QED
        BY <1>0, <2>1 DEF Rank, ToWrite, ToWork, ToJudge, Flag
<1>4. CASE Doom \/ Close
    <2>1. /\ UNCHANGED <<steered, pipe, failing, alive, turn, out>>
          /\ \/ ~doomed /\ doomed' /\ UNCHANGED outcome
             \/ outcome = "running" /\ outcome' # "running" /\ UNCHANGED doomed
        BY <1>4 DEF Doom, Close, mail, process, verdict
    <2> QED
        BY <1>0, <2>1 DEF Rank, ToWrite, ToWork, ToJudge, Flag
<1>5. CASE Read
    <2>1. Len(pipe') = Len(pipe) - 1 /\ UNCHANGED <<steered, failing, alive, out, doomed, outcome>>
        BY <1>0, <1>5 DEF Read, mail, verdict
    <2> QED
        BY <1>0, <2>1 DEF Rank, ToWrite, ToWork, ToJudge, Flag
<1>6. CASE FinishTurn
    <2>1. /\ Len(out') = Len(out) + 1 /\ turn # {} /\ turn' = {}
          /\ UNCHANGED <<steered, pipe, failing, alive, doomed, outcome>>
        BY <1>0, <1>6 DEF FinishTurn, mail, verdict
    <2> QED
        BY <1>0, <2>1 DEF Rank, ToWrite, ToWork, ToJudge, Flag
<1>7. CASE Exit \/ Crash
    <2>1. /\ Len(out') <= Len(out) + 1 /\ Len(out') \in Nat /\ alive /\ ~alive'
          /\ UNCHANGED <<steered, pipe, failing, turn, doomed, outcome>>
        BY <1>0, <1>7 DEF Exit, Crash, mail, verdict
    <2> QED
        BY <1>0, <2>1 DEF Rank, ToWrite, ToWork, ToJudge, Flag
<1> QED
    BY <1>1, <1>2, <1>3, <1>4, <1>5, <1>6, <1>7 DEF TurnNext, EngineStep, ProcessStep

\* Every step of a turn leaves less to do than there was: no message is read, parsed or
\* given back again and again. With fair steps of engine and process, of which by
\* TurnNeverStandsOff one is always left, a turn comes to its end.
THEOREM TurnRunsDown == TurnSpec => [][Rank' \in Nat /\ Rank' < Rank]_turnVars
<1>1. (TurnInv /\ Open => Rank \in Nat)'
    BY RankIsNatural, PTL
<1>2. TurnInv /\ Open /\ TurnInv' /\ Open' /\ [TurnNext]_turnVars => [Rank' \in Nat /\ Rank' < Rank]_turnVars
    BY <1>1, RankFalls
<1> QED
    BY <1>2, TurnInvariance, OpenInvariance, PTL DEF TurnSpec
=============================================================================
