------------------------ MODULE SteeringReplay_proofs ------------------------
(***************************************************************************)
(* For every workflow, every number of engines and of messages: accepted   *)
(* mail is neither stranded nor delivered twice, and what counts as        *)
(* delivered is in the session that a resume continues, or was taken by    *)
(* one that the provider gave up for it.                                   *)
(***************************************************************************)
EXTENDS SteeringReplay, FiniteSetTheorems, TLAPS

\* The records of one message: all fields of theirs but the copy agree.
Like(m) == {k \in mail : [m EXCEPT !.copy = 0] = [k EXCEPT !.copy = 0]}

IsRecord(m) ==
    m = [site |-> m.site, seq |-> m.seq, text |-> m.text, send |-> m.send, copy |-> m.copy]

\* Equal records are told apart by a copy number that counts those before.
Numbered ==
    /\ IsFiniteSet(mail)
    /\ \A m \in mail : IsRecord(m) /\ m.copy \in Nat /\ m.copy < Cardinality(Like(m))

\* Nobody's mail: what the lists and the records hold is accepted mail.
Accepted ==
    /\ dropped \subseteq done /\ done \subseteq mail
    /\ mailQueue \cup carried \cup sessionless \subseteq mail
    /\ mailQueue \cap carried = {}

\* What the job's lists hold at each point of its life.
Lists ==
    /\ pc \in {"off", "waiting", "cached"} \cup HasJob
    /\ pc \notin HasJob => mailQueue = {} /\ sessionless = {}
    /\ pc # "turn" => carried = {}
    /\ pc = "returned" => mailQueue = {}
    /\ result = "completed" => pc \in {"off", "cached", "settled"}

\* What was delivered without a session is in the thread the engine is about to
\* record the result of: nothing begins another before, and only a thread that has a
\* session is left for another.
Unsaved ==
    /\ moved => session
    /\ sessionless \subseteq heard
    /\ sessionless # {} => pc \in {"between", "thrown", "returned", "settled"} /\ ~session

IInv ==
    /\ Numbered /\ Accepted /\ Lists /\ Unsaved
    /\ NothingStranded /\ DoneNotRepeated /\ DoneIsInSessionUnlessLeft
-----------------------------------------------------------------------------
LEMMA InitInv == Init => IInv
BY FS_EmptySet DEF Init, IInv, Numbered, Accepted, Lists, Unsaved, NothingStranded, DoneNotRepeated,
   DoneIsInSessionUnlessLeft, HasJob, InLive

LEMMA Unchanged ==
    ASSUME IInv, UNCHANGED <<journal, provider, mailbox, pc>>
    PROVE IInv'
<1>1. Numbered'
    BY DEF IInv, Numbered, Like, journal
<1> QED
    BY <1>1 DEF journal, provider, mailbox, IInv, Accepted, Lists, Unsaved, NothingStranded, DoneNotRepeated, DoneIsInSessionUnlessLeft

\* What is accepted is a new message, and the numbering goes on.
LEMMA AcceptIsNew ==
    ASSUME Numbered, NEW record, IsRecord(record), record.copy = 0,
           NEW m, m = [record EXCEPT !.copy = Cardinality({k \in mail : record = [k EXCEPT !.copy = 0]})],
           mail' = mail \cup {m}
    PROVE m \notin mail /\ Numbered'
<1> DEFINE like == {k \in mail : record = [k EXCEPT !.copy = 0]}
           n == Cardinality(like)
<1>1. like \subseteq mail /\ IsFiniteSet(like) /\ n \in Nat
    BY FS_Subset, FS_CardinalityType DEF Numbered
<1>2. IsRecord(m) /\ m.copy = n /\ [m EXCEPT !.copy = 0] = record
    BY DEF IsRecord
<1>3. Like(m) = like
    BY <1>2 DEF Like
<1>4. m \notin mail
    <2> SUFFICES ASSUME m \in mail PROVE FALSE
        OBVIOUS
    <2>1. m.copy < Cardinality(Like(m))
        BY DEF Numbered
    <2> QED
        BY <1>1, <1>2, <1>3, <2>1
<1>5. IsFiniteSet(mail')
    BY FS_AddElement DEF Numbered
<1>6. ASSUME NEW k \in mail' PROVE IsRecord(k) /\ k.copy \in Nat /\ k.copy < Cardinality(Like(k)')
    <2>1. CASE k = m
        <3>1. Like(m)' = like \cup {m}
            BY <1>2, <1>3 DEF Like
        <3>2. Cardinality(like \cup {m}) = n + 1
            BY <1>1, <1>4, FS_AddElement
        <3>3. IsRecord(m) /\ m.copy \in Nat /\ m.copy < Cardinality(Like(m)')
            BY <1>1, <1>2, <3>1, <3>2
        <3> QED
            BY <2>1, <3>3
    <2>2. CASE k \in mail
        <3>1. Like(k) \subseteq Like(k)' /\ Like(k)' \subseteq mail'
            BY DEF Like
        <3>2. IsFiniteSet(Like(k)')
            BY <1>5, <3>1, FS_Subset
        <3>3. Cardinality(Like(k)) <= Cardinality(Like(k)')
              /\ Cardinality(Like(k)) \in Nat /\ Cardinality(Like(k)') \in Nat
            BY <3>1, <3>2, FS_Subset, FS_CardinalityType
        <3> QED
            BY <2>2, <3>3 DEF Numbered
    <2> QED
        BY <2>1, <2>2
<1> QED
    BY <1>4, <1>5, <1>6 DEF Numbered

\* An accepted message is in the job's hands at once.
LEMMA AcceptStep ==
    ASSUME IInv, NEW record, IsRecord(record), record.copy = 0, Accepts, Accept(record), UNCHANGED pc
    PROVE IInv'
<1> DEFINE like == {k \in mail : record = [k EXCEPT !.copy = 0]}
           m == [record EXCEPT !.copy = Cardinality(like)]
<1>1. /\ mail' = mail \cup {m}
      /\ \/ pc = "turn" /\ carried' = carried \cup {m} /\ UNCHANGED mailQueue
         \/ mailQueue' = mailQueue \cup {m} /\ UNCHANGED carried
      /\ UNCHANGED <<done, dropped, session, result, provider, sessionless>>
    BY DEF Accept
<1>2. m \notin mail /\ Numbered'
    <2> HIDE DEF m
    <2> QED
        BY <1>1, AcceptIsNew DEF IInv, m
<1>3. pc \in InLive /\ pc # "returned" /\ result # "completed"
    BY DEF Accepts, IInv, Lists, InLive
<1> HIDE DEF m
<1> QED
    BY <1>1, <1>2, <1>3 DEF IInv, Accepted, Lists, Unsaved, NothingStranded, DoneNotRepeated,
       DoneIsInSessionUnlessLeft, HasJob, InLive, provider

\* A send of the workflow is absorbed, refused, or accepted.
LEMMA SendStep ==
    ASSUME IInv, NEW s, NEW i, WorkflowSend(s, i), UNCHANGED pc
    PROVE IInv'
<1>1. CASE UNCHANGED <<journal, provider, mailbox>>
    BY <1>1, Unchanged
<1>2. CASE \E n, t : Accepts /\ Accept([site |-> s, seq |-> n, text |-> t, send |-> <<s, i>>, copy |-> 0])
    BY <1>2, AcceptStep DEF IsRecord
<1> QED
    BY <1>1, <1>2 DEF WorkflowSend

LEMMA SendingStep == IInv /\ Sending => IInv'
<1> SUFFICES ASSUME IInv, Sending PROVE IInv'
    OBVIOUS
<1>0. UNCHANGED <<journal, provider, mailbox>> /\ UNCHANGED pc => IInv'
    BY Unchanged
<1>1. ASSUME NEW s \in Sites, SendTo(s) PROVE IInv'
    BY <1>0, <1>1, SendStep DEF SendTo
<1>2. ASSUME NEW s \in Sites, HandleSend(s) PROVE IInv'
    BY <1>0, <1>2, SendStep DEF HandleSend
<1>3. CASE Flush
    BY <1>3, SendStep DEF Flush
<1>4. ASSUME NEW t \in Texts, OperatorSend(t) PROVE IInv'
    BY <1>4, AcceptStep DEF OperatorSend, flow, IsRecord
<1> QED
    BY <1>1, <1>2, <1>3, <1>4 DEF Sending

LEMMA EngineStep == IInv /\ (Start \/ Admit) => IInv'
<1> SUFFICES ASSUME IInv, Start \/ Admit PROVE IInv'
    OBVIOUS
<1> USE DEF IInv, Numbered, Like, Accepted, Lists, Unsaved, NothingStranded, DoneNotRepeated,
    DoneIsInSessionUnlessLeft, HasJob, InLive, provider
<1>1. CASE Start
    BY <1>1 DEF Start, journal, replay, mailbox
<1>2. CASE Admit
    BY <1>2 DEF Admit, LoadPending, journal, history
<1> QED
    BY <1>1, <1>2

\* Whichever segment an engine dies in, it takes nothing back: what is on record
\* stays, and what it had not recorded is pending.
LEMMA Dies ==
    ASSUME IInv, Dying
    PROVE /\ Gone /\ pc # "off" /\ UNCHANGED mail
          /\ dropped \subseteq dropped'
          /\ (pc \in HasJob \/ UNCHANGED journal)
BY DEF Dying, Stop, TurnFulfilsTorn, ReturnTorn, Returning, SealTorn, journal, HasJob, InLive

LEMMA DyingStep == IInv /\ Dying => IInv'
<1> SUFFICES ASSUME IInv, Dying PROVE IInv'
    OBVIOUS
<1>0. Numbered'
    BY Dies DEF IInv, Numbered, Like
<1> USE DEF IInv, Accepted, Lists, Unsaved, NothingStranded, DoneNotRepeated,
    DoneIsInSessionUnlessLeft, HasJob, InLive, journal, Gone
<1>1. CASE Stop
    BY <1>0, <1>1 DEF Stop
<1>2. CASE TurnFulfilsTorn
    BY <1>0, <1>2 DEF TurnFulfilsTorn, Taken
<1>3. CASE ReturnTorn
    BY <1>0, <1>3 DEF ReturnTorn, Returning
<1>4. CASE SealTorn
    BY <1>0, <1>4 DEF SealTorn
<1> QED
    BY <1>1, <1>2, <1>3, <1>4 DEF Dying

LEMMA TurningStep == IInv /\ Turning => IInv'
<1> SUFFICES ASSUME IInv, Turning PROVE IInv'
    OBVIOUS
<1> USE DEF IInv, Accepted, Lists, Unsaved, NothingStranded, DoneNotRepeated,
    DoneIsInSessionUnlessLeft, HasJob, InLive, journal, mailbox, flow, provider
<1>0. UNCHANGED mail => Numbered'
    BY DEF Numbered, Like
<1>1. CASE Execute
    BY <1>0, <1>1 DEF Execute, BeginTurn
<1>2. CASE SessionEvent
    BY <1>0, <1>2 DEF SessionEvent
<1>3. CASE TurnFulfils
    <2>1. carried' = {} /\ pc = "turn" /\ pc' = "between" /\ UNCHANGED <<mail, dropped, session, result, mailQueue>>
          /\ heard \subseteq heard' /\ left \subseteq left' /\ carried \subseteq heard' \cup left'
          /\ sessionless = {}
        BY <1>3 DEF TurnFulfils, Taken
    <2>2. CASE session
        <3>1. done' = done \cup carried /\ sessionless' = sessionless
            BY <1>3, <2>2 DEF TurnFulfils, RecordDelivery
        <3> QED
            BY <1>0, <2>1, <2>2, <3>1
    <2>3. CASE ~session
        <3>1. done' = done /\ sessionless' = carried
            BY <1>3, <2>1, <2>3 DEF TurnFulfils, RecordDelivery
        <3>2. carried \subseteq heard'
            BY <1>3, <2>3 DEF TurnFulfils, Taken
        <3>3. result # "completed" /\ result' # "completed" /\ done \ dropped = {} /\ session' = FALSE
            BY <2>1, <2>3
        <3>4. moved' = FALSE
            BY <1>3 DEF TurnFulfils
        <3>5. Accepted' /\ Lists' /\ Unsaved'
            BY <2>1, <3>1, <3>2, <3>3, <3>4
        <3>6. NothingStranded' /\ DoneNotRepeated' /\ DoneIsInSessionUnlessLeft'
            BY <2>1, <3>1, <3>3
        <3> QED
            BY <1>0, <2>1, <3>5, <3>6
    <2> QED
        BY <2>2, <2>3
<1>4. CASE TurnRejects
    BY <1>0, <1>4 DEF TurnRejects, Requeued
<1>5. CASE FollowUp
    BY <1>0, <1>5 DEF FollowUp, BeginTurn
<1>6. CASE Return
    BY <1>0, <1>6 DEF Return, Returning
<1>7. CASE SchemaInvalid
    BY <1>0, <1>7 DEF SchemaInvalid
<1>8. CASE Seal
    BY <1>0, <1>8 DEF Seal
<1>9. CASE Fail
    BY <1>0, <1>9 DEF Fail
<1> QED
    BY <1>1, <1>2, <1>3, <1>4, <1>5, <1>6, <1>7, <1>8, <1>9 DEF Turning

LEMMA Invariance == Spec => []IInv
<1>1. IInv /\ [Next]_vars => IInv'
    <2>1. IInv /\ UNCHANGED vars => IInv'
        BY Unchanged DEF vars, flow
    <2> QED
        BY <2>1, SendingStep, EngineStep, TurningStep, DyingStep DEF Next
<1> QED
    BY <1>1, InitInv, PTL DEF Spec
-----------------------------------------------------------------------------
(* Acknowledgements                                                        *)

\* What an engine may count on: mail that was not dropped before its time.
Pool == mail \ (dropped \ declared)

Absorbers == delivered \cup restored
AbsorbersOf(t) == {m \in Absorbers : m.text = t}
SendsOf(t) == {l \in acked : Program[l[1]][l[2]] = t}
MailOf(t) == {m \in Workflows(Pool) : m.text = t}

\* The sends that were acknowledged and the messages that may still absorb one are
\* together no more than the messages: no message answers for two sends.
Absorbing ==
    /\ IsFiniteSet(acked)
    /\ delivered \cap restored = {} /\ Absorbers \subseteq Workflows(Pool)
    /\ pc \notin HasJob => acked = {} /\ Absorbers = {}
    /\ \A t \in Texts : Cardinality(SendsOf(t)) + Cardinality(AbsorbersOf(t)) <= Cardinality(MailOf(t))

\* One element more, or less.
LEMMA OneMore ==
    ASSUME NEW A, IsFiniteSet(A), NEW x, NEW B, B \subseteq A \cup {x}
    PROVE IsFiniteSet(B) /\ Cardinality(B) \in Nat /\ Cardinality(B) <= Cardinality(A) + 1
<1>1. /\ IsFiniteSet(A \cup {x}) /\ Cardinality(A) \in Nat
      /\ Cardinality(A \cup {x}) \in Nat /\ Cardinality(A \cup {x}) <= Cardinality(A) + 1
    BY FS_AddElement, FS_CardinalityType
<1>2. IsFiniteSet(B) /\ Cardinality(B) <= Cardinality(A \cup {x})
    BY <1>1, FS_Subset
<1>3. Cardinality(B) \in Nat
    BY <1>2, FS_CardinalityType
<1> QED
    BY <1>1, <1>2, <1>3

LEMMA NoMore ==
    ASSUME NEW A, IsFiniteSet(A), NEW B, B \subseteq A
    PROVE IsFiniteSet(B) /\ Cardinality(A) \in Nat /\ Cardinality(B) \in Nat
          /\ Cardinality(B) <= Cardinality(A)
BY FS_Subset, FS_CardinalityType

LEMMA OneLess ==
    ASSUME NEW A, IsFiniteSet(A), NEW x \in A
    PROVE Cardinality(A \ {x}) \in Nat /\ Cardinality(A \ {x}) = Cardinality(A) - 1
          /\ Cardinality(A) \in Nat
BY FS_RemoveElement, FS_CardinalityType, FS_Subset

LEMMA OneNew ==
    ASSUME NEW A, IsFiniteSet(A), NEW x, x \notin A
    PROVE Cardinality(A \cup {x}) = Cardinality(A) + 1 /\ Cardinality(A) \in Nat
BY FS_AddElement, FS_CardinalityType

\* A message a send is absorbed by has one of the keys, and so its text.
LEMMA Absorbs ==
    ASSUME NEW ms, NEW s, NEW n, NEW t, Matches(ms, s, n, t) # {}
    PROVE \E m \in ms : /\ Consume(ms, s, n, t) = ms \ {m}
                        /\ m.text = t
                        /\ \E k \in 1..4 : Key(m) = KeysOf(s, n, t)[k]
<1> DEFINE m == CHOOSE m \in Matches(ms, s, n, t) : TRUE
<1>1. m \in Matches(ms, s, n, t)
    OBVIOUS
<1>2. m \in ms /\ \E k \in 1..4 : Key(m) = KeysOf(s, n, t)[k]
    BY <1>1 DEF Matches
<1>3. m.text = t
    BY <1>2 DEF Key, KeysOf
<1>4. Consume(ms, s, n, t) = ms \ {m}
    BY DEF Consume
<1> HIDE DEF m
<1> QED
    BY <1>2, <1>3, <1>4

\* What is accepted is one more message, with the record's fields.
LEMMA AcceptAdds ==
    ASSUME IInv, NEW record, IsRecord(record), record.copy = 0, Accept(record)
    PROVE /\ UNCHANGED dropped
          /\ \E m : /\ m \notin mail /\ mail' = mail \cup {m}
                    /\ m.site = record.site /\ m.seq = record.seq
                    /\ m.text = record.text /\ m.send = record.send
<1> DEFINE m == [record EXCEPT !.copy = Cardinality({k \in mail : record = [k EXCEPT !.copy = 0]})]
<1>1. mail' = mail \cup {m} /\ UNCHANGED dropped
    BY DEF Accept
<1>2. m.site = record.site /\ m.seq = record.seq /\ m.text = record.text /\ m.send = record.send
    BY DEF IsRecord
<1>3. m \notin mail
    <2> HIDE DEF m
    <2> QED
        BY <1>1, AcceptIsNew DEF IInv, m
<1> HIDE DEF m
<1> QED
    BY <1>1, <1>2, <1>3
-----------------------------------------------------------------------------
LEMMA Finite ==
    ASSUME IInv, Absorbing
    PROVE /\ IsFiniteSet(mail) /\ IsFiniteSet(Absorbers)
          /\ \A t : IsFiniteSet(SendsOf(t)) /\ IsFiniteSet(AbsorbersOf(t)) /\ IsFiniteSet(MailOf(t))
<1>1. IsFiniteSet(mail)
    BY DEF IInv, Numbered
<1>2. Absorbers \subseteq mail
    BY DEF Absorbing, Workflows, Pool
<1>3. IsFiniteSet(Absorbers)
    BY <1>1, <1>2, FS_Subset
<1>4. ASSUME NEW t PROVE IsFiniteSet(SendsOf(t)) /\ IsFiniteSet(AbsorbersOf(t)) /\ IsFiniteSet(MailOf(t))
    <2>1. SendsOf(t) \subseteq acked /\ AbsorbersOf(t) \subseteq Absorbers /\ MailOf(t) \subseteq mail
        BY DEF SendsOf, AbsorbersOf, MailOf, Workflows, Pool
    <2> QED
        BY <2>1, <1>1, <1>3, FS_Subset DEF Absorbing
<1> QED
    BY <1>1, <1>3, <1>4

\* The pool only grows, and nothing is acknowledged.
LEMMA PoolGrows ==
    ASSUME IInv, Absorbing, IsFiniteSet(mail'), UNCHANGED <<acked, delivered, restored>>,
           Pool \subseteq Pool', pc \in HasJob <=> pc' \in HasJob
    PROVE Absorbing'
<1>1. Workflows(Pool) \subseteq Workflows(Pool)' /\ UNCHANGED Absorbers
    BY DEF Workflows, Absorbers
<1>2. ASSUME NEW t \in Texts
      PROVE Cardinality(SendsOf(t)') + Cardinality(AbsorbersOf(t)') <= Cardinality(MailOf(t)')
    <2>1. SendsOf(t)' = SendsOf(t) /\ AbsorbersOf(t)' = AbsorbersOf(t) /\ MailOf(t) \subseteq MailOf(t)'
        BY <1>1 DEF SendsOf, AbsorbersOf, MailOf
    <2>2. MailOf(t)' \subseteq mail'
        BY DEF MailOf, Workflows, Pool
    <2>3. IsFiniteSet(MailOf(t)')
        BY <2>2, FS_Subset
    <2>4. Cardinality(MailOf(t)) <= Cardinality(MailOf(t)') /\ Cardinality(MailOf(t)) \in Nat
          /\ Cardinality(MailOf(t)') \in Nat
        BY <2>1, <2>3, NoMore
    <2>5. Cardinality(SendsOf(t)) \in Nat /\ Cardinality(AbsorbersOf(t)) \in Nat
        BY Finite, FS_CardinalityType
    <2>6. Cardinality(SendsOf(t)) + Cardinality(AbsorbersOf(t)) <= Cardinality(MailOf(t))
        BY DEF Absorbing
    <2> QED
        BY <2>1, <2>4, <2>5, <2>6
<1>3. UNCHANGED Texts
    BY DEF Texts
<1>4. UNCHANGED HasJob
    BY DEF HasJob, InLive
<1>5. IsFiniteSet(acked') /\ (delivered \cap restored)' = {} /\ Absorbers' \subseteq Workflows(Pool)'
    BY <1>1 DEF Absorbing
<1>6. pc' \notin HasJob => acked' = {} /\ Absorbers' = {}
    BY <1>1 DEF Absorbing
<1> QED
    BY <1>2, <1>3, <1>4, <1>5, <1>6 DEF Absorbing

\* A send that is absorbed takes its message out of the absorbers.
LEMMA AbsorbedStep ==
    ASSUME IInv, Absorbing, pc \in HasJob, NEW l, NEW m \in Absorbers, Absorbers' = Absorbers \ {m},
           delivered' \subseteq delivered, restored' \subseteq restored,
           m.text = Program[l[1]][l[2]], acked' = acked \cup {l}, UNCHANGED <<mail, dropped, declared, pc>>
    PROVE Absorbing'
<1>1. UNCHANGED Pool /\ Absorbers' \subseteq Absorbers
    BY DEF Pool
<1>2. ASSUME NEW t \in Texts
      PROVE Cardinality(SendsOf(t)') + Cardinality(AbsorbersOf(t)') <= Cardinality(MailOf(t)')
    <2>1. MailOf(t)' = MailOf(t)
        BY <1>1 DEF MailOf, Workflows
    <2>2. /\ IsFiniteSet(SendsOf(t)) /\ IsFiniteSet(AbsorbersOf(t))
          /\ Cardinality(MailOf(t)) \in Nat
        BY Finite, FS_CardinalityType
    <2>3. Cardinality(SendsOf(t)) + Cardinality(AbsorbersOf(t)) <= Cardinality(MailOf(t))
        BY DEF Absorbing
    <2>4. CASE m.text = t
        <3>1. SendsOf(t)' \subseteq SendsOf(t) \cup {l}
            BY DEF SendsOf
        <3>2. Cardinality(SendsOf(t)') \in Nat /\ Cardinality(SendsOf(t)') <= Cardinality(SendsOf(t)) + 1
              /\ Cardinality(SendsOf(t)) \in Nat
            BY <2>2, <3>1, OneMore, FS_CardinalityType
        <3>3. AbsorbersOf(t)' = AbsorbersOf(t) \ {m} /\ m \in AbsorbersOf(t)
            BY <2>4 DEF AbsorbersOf
        <3>4. Cardinality(AbsorbersOf(t) \ {m}) = Cardinality(AbsorbersOf(t)) - 1
              /\ Cardinality(AbsorbersOf(t)) \in Nat /\ Cardinality(AbsorbersOf(t) \ {m}) \in Nat
            BY <2>2, <3>3, OneLess
        <3> QED
            BY <2>1, <2>2, <2>3, <3>2, <3>3, <3>4
    <2>5. CASE m.text # t
        <3>1. SendsOf(t)' = SendsOf(t) /\ AbsorbersOf(t)' = AbsorbersOf(t)
            BY <2>5 DEF SendsOf, AbsorbersOf
        <3> QED
            BY <2>1, <2>3, <3>1
    <2> QED
        BY <2>4, <2>5
<1>3. UNCHANGED Texts
    BY DEF Texts
<1>4. IsFiniteSet(acked')
    BY FS_AddElement DEF Absorbing
<1>5. (delivered \cap restored)' = {} /\ Absorbers' \subseteq Workflows(Pool)'
    BY <1>1 DEF Absorbing
<1> QED
    BY <1>2, <1>3, <1>4, <1>5 DEF Absorbing, HasJob, InLive

\* A send that is accepted adds its message.
LEMMA AcceptedStep ==
    ASSUME IInv, Absorbing, pc \in HasJob, NEW l, NEW m, m \notin mail, mail' = mail \cup {m},
           m.site # Operator, m.text = Program[l[1]][l[2]], acked' = acked \cup {l},
           UNCHANGED <<dropped, declared, delivered, restored, pc>>
    PROVE Absorbing'
<1>1. Pool' = Pool \cup {m} /\ m \notin Pool /\ UNCHANGED Absorbers
    BY DEF Pool, Absorbers, IInv, Accepted
<1>2. ASSUME NEW t \in Texts
      PROVE Cardinality(SendsOf(t)') + Cardinality(AbsorbersOf(t)') <= Cardinality(MailOf(t)')
    <2>1. AbsorbersOf(t)' = AbsorbersOf(t)
        BY <1>1 DEF AbsorbersOf
    <2>2. /\ IsFiniteSet(SendsOf(t)) /\ IsFiniteSet(MailOf(t))
          /\ Cardinality(SendsOf(t)) \in Nat /\ Cardinality(AbsorbersOf(t)) \in Nat
        BY Finite, FS_CardinalityType
    <2>3. Cardinality(SendsOf(t)) + Cardinality(AbsorbersOf(t)) <= Cardinality(MailOf(t))
        BY DEF Absorbing
    <2>4. CASE m.text = t
        <3>1. SendsOf(t)' \subseteq SendsOf(t) \cup {l}
            BY DEF SendsOf
        <3>2. Cardinality(SendsOf(t)') \in Nat /\ Cardinality(SendsOf(t)') <= Cardinality(SendsOf(t)) + 1
            BY <2>2, <3>1, OneMore
        <3>3. MailOf(t)' = MailOf(t) \cup {m} /\ m \notin MailOf(t)
            BY <1>1, <2>4 DEF MailOf, Workflows
        <3>4. Cardinality(MailOf(t) \cup {m}) = Cardinality(MailOf(t)) + 1 /\ Cardinality(MailOf(t)) \in Nat
            BY <2>2, <3>3, OneNew
        <3> QED
            BY <2>1, <2>2, <2>3, <3>2, <3>3, <3>4
    <2>5. CASE m.text # t
        <3>1. SendsOf(t)' = SendsOf(t) /\ MailOf(t)' = MailOf(t)
            BY <1>1, <2>5 DEF SendsOf, MailOf, Workflows
        <3> QED
            BY <2>1, <2>3, <3>1
    <2> QED
        BY <2>4, <2>5
<1>3. UNCHANGED Texts
    BY DEF Texts
<1>4. IsFiniteSet(acked')
    BY FS_AddElement DEF Absorbing
<1>5. (delivered \cap restored)' = {} /\ Absorbers' \subseteq Workflows(Pool)'
    BY <1>1 DEF Absorbing, Workflows
<1> QED
    BY <1>2, <1>3, <1>4, <1>5 DEF Absorbing, HasJob, InLive
\* Places in the workflow's sequences of sends.
Types ==
    /\ next \in [Sites -> Nat] /\ sendSeq \in [Sites -> Nat]
    /\ queued \in Seq(Handles \X Nat)

LEMMA OperatorIsNoSite == Operator \notin Sites
<1> SUFFICES ASSUME Operator \in Sites PROVE FALSE
    OBVIOUS
<1>1. Operator = [sender |-> Operator.sender, callsite |-> Operator.callsite]
    BY SitesAssumption
<1>2. DOMAIN Operator = {"sender", "callsite", "source"}
    BY DEF Operator
<1>3. DOMAIN Operator = {"sender", "callsite"}
    BY <1>1
<1> QED
    BY <1>2, <1>3

LEMMA SendTypes ==
    ASSUME sendSeq \in [Sites -> Nat], NEW s \in Sites, NEW i, WorkflowSend(s, i)
    PROVE sendSeq' \in [Sites -> Nat]
<1>1. sendSeq' = [sendSeq EXCEPT ![s] = sendSeq[s] + 1]
    BY DEF WorkflowSend
<1> QED
    BY <1>1

LEMMA FollowTypes ==
    ASSUME next \in [Sites -> Nat], NEW s \in Sites, Following(s)
    PROVE next' \in [Sites -> Nat]
<1>1. next' = [next EXCEPT ![s] = @ + 1]
    BY DEF Following
<1> QED
    BY <1>1

LEMMA TypesStep == IInv /\ Types /\ [Next]_vars => Types'
<1> SUFFICES ASSUME IInv, Types, [Next]_vars PROVE Types'
    OBVIOUS
<1>0. Handles \subseteq Sites
    BY SitesAssumption
<1>1. UNCHANGED <<next, sendSeq, queued>> => Types'
    BY DEF Types
<1>2. CASE Start \/ Admit \/ Dying
    <2>1. <<>> \in Seq(Handles \X Nat) /\ [s \in Sites |-> 0] \in [Sites -> Nat]
        OBVIOUS
    <2> QED
        BY <1>2, <2>1, Dies DEF Start, Admit, Gone, replay, Types
<1>3. ASSUME NEW s \in Sites, SendTo(s) PROVE Types'
    <2>1. next' \in [Sites -> Nat]
        BY <1>3, FollowTypes DEF SendTo, Types
    <2>2. sendSeq' \in [Sites -> Nat]
        BY <1>3, SendTypes DEF SendTo, Types, replay
    <2> QED
        BY <1>3, <2>1, <2>2 DEF SendTo, Types
<1>4. ASSUME NEW s \in Handles, HandleSend(s) PROVE Types'
    <2>1. next' \in [Sites -> Nat] /\ sendSeq' \in [Sites -> Nat]
        BY <1>0, <1>4, FollowTypes, SendTypes DEF HandleSend, Types, replay
    <2>2. queued' \in Seq(Handles \X Nat)
        <3>1. CASE UNCHANGED queued
            BY <3>1 DEF Types
        <3>2. CASE queued' = Append(queued, <<s, next[s] + 1>>)
            <4>1. <<s, next[s] + 1>> \in Handles \X Nat
                BY <1>0 DEF Types
            <4> QED
                BY <3>2, <4>1 DEF Types
        <3> QED
            BY <1>4, <3>1, <3>2 DEF HandleSend
    <2> QED
        BY <2>1, <2>2 DEF Types
<1>5. CASE Flush
    <2>1. Head(queued) \in Handles \X Nat /\ Tail(queued) \in Seq(Handles \X Nat)
        BY <1>5 DEF Flush, Types
    <2>2. Head(queued)[1] \in Sites
        BY <1>0, <2>1
    <2>3. sendSeq' \in [Sites -> Nat]
        BY <1>5, <2>2, SendTypes DEF Flush, Types
    <2> QED
        BY <1>5, <2>1, <2>3 DEF Flush, Types
<1>6. CASE \E t \in Texts : OperatorSend(t)
    BY <1>1, <1>6 DEF OperatorSend, flow, replay
<1>7. CASE Turning
    BY <1>1, <1>7 DEF Turning, Execute, BeginTurn, SessionEvent, TurnFulfils, TurnRejects, FollowUp,
       Return, SchemaInvalid, Seal, Fail, flow, replay
<1>8. CASE UNCHANGED vars
    BY <1>1, <1>8 DEF vars, flow, replay
<1> QED
    BY <1>2, <1>3, <1>4, <1>5, <1>6, <1>7, <1>8 DEF Next, Sending, HandleSend

LEMMA SendAbsorbing ==
    ASSUME IInv, Absorbing, pc \in HasJob, NEW s \in Sites, NEW i, WorkflowSend(s, i),
           UNCHANGED <<pc, declared>>
    PROVE Absorbing'
<1> DEFINE n == sendSeq[s] + 1
           t == Program[s][i]
           l == <<s, i>>
<1>0. t = Program[l[1]][l[2]]
    OBVIOUS
<1>1. CASE /\ Matches(delivered, s, n, t) # {}
           /\ delivered' = Consume(delivered, s, n, t)
           /\ acked' = acked \cup {l}
           /\ UNCHANGED <<restored, journal, provider, mailbox>>
    <2>1. PICK m \in delivered : delivered' = delivered \ {m} /\ m.text = t
        <3> HIDE DEF n, t
        <3> QED
            BY <1>1, Absorbs
    <2>2. m \in Absorbers /\ Absorbers' = Absorbers \ {m}
        BY <1>1, <2>1 DEF Absorbing, Absorbers
    <2> HIDE DEF l
    <2> QED
        BY <1>0, <1>1, <2>1, <2>2, AbsorbedStep DEF journal
<1>2. CASE /\ Matches(restored, s, n, t) # {}
           /\ restored' = Consume(restored, s, n, t)
           /\ acked' = acked \cup {l}
           /\ UNCHANGED <<delivered, journal, provider, mailbox>>
    <2>1. PICK m \in restored : restored' = restored \ {m} /\ m.text = t
        <3> HIDE DEF n, t
        <3> QED
            BY <1>2, Absorbs
    <2>2. m \in Absorbers /\ Absorbers' = Absorbers \ {m}
        BY <1>2, <2>1 DEF Absorbing, Absorbers
    <2> HIDE DEF l
    <2> QED
        BY <1>0, <1>2, <2>1, <2>2, AbsorbedStep DEF journal
<1>3. CASE /\ Accept([site |-> s, seq |-> n, text |-> t, send |-> l, copy |-> 0])
           /\ acked' = acked \cup {l}
           /\ UNCHANGED <<delivered, restored>>
    <2> DEFINE record == [site |-> s, seq |-> n, text |-> t, send |-> l, copy |-> 0]
    <2>1. IsRecord(record) /\ record.copy = 0
        BY DEF IsRecord
    <2>2. record.site = s /\ record.text = t
        OBVIOUS
    <2> HIDE DEF record
    <2>3. /\ UNCHANGED dropped
          /\ \E m : m \notin mail /\ mail' = mail \cup {m} /\ m.site = record.site /\ m.text = record.text
        BY <1>3, <2>1, AcceptAdds DEF record
    <2>4. PICK m : m \notin mail /\ mail' = mail \cup {m} /\ m.site = s /\ m.text = t
        BY <2>2, <2>3
    <2> HIDE DEF l, t
    <2> QED
        BY <1>0, <1>3, <2>3, <2>4, AcceptedStep, OperatorIsNoSite
<1>4. CASE UNCHANGED <<journal, provider, mailbox, acked, delivered, restored>>
    <2>1. IsFiniteSet(mail') /\ Pool \subseteq Pool'
        BY <1>4 DEF IInv, Numbered, journal, Pool
    <2> QED
        BY <1>4, <2>1, PoolGrows
<1> QED
    BY <1>1, <1>2, <1>3, <1>4 DEF WorkflowSend

LEMMA QuietAbsorbing ==
    ASSUME IInv, Absorbing, UNCHANGED <<mail, dropped, declared, acked, delivered, restored>>,
           pc \in HasJob <=> pc' \in HasJob
    PROVE Absorbing'
<1>1. IsFiniteSet(mail') /\ Pool \subseteq Pool'
    BY DEF IInv, Numbered, Pool
<1> QED
    BY <1>1, PoolGrows

LEMMA AbsorbingStep == IInv /\ IInv' /\ Types /\ Absorbing /\ [Next]_vars => Absorbing'
<1> SUFFICES ASSUME IInv, IInv', Types, Absorbing, [Next]_vars PROVE Absorbing'
    OBVIOUS
<1> USE DEF journal, replay, history, flow
<1>0. InLive \subseteq HasJob
    BY DEF HasJob
<1>1. CASE Start
    <2>1. IsFiniteSet(mail') /\ pc \notin HasJob /\ pc' \notin HasJob
        BY <1>1 DEF Start, IInv, Numbered, HasJob, InLive
    <2>2. Absorbers = {} /\ Absorbers' = {} /\ acked' = {} /\ UNCHANGED <<delivered, restored>>
        BY <1>1, <2>1 DEF Start, Absorbing, Absorbers
    <2>3. \A t : SendsOf(t)' = {} /\ AbsorbersOf(t)' = {}
        BY <2>2 DEF SendsOf, AbsorbersOf
    <2>4. \A t : IsFiniteSet(MailOf(t)')
        <3>1. \A t : MailOf(t)' \subseteq mail'
            BY DEF MailOf, Workflows, Pool
        <3> QED
            BY <2>1, <3>1, FS_Subset
    <2>5. Cardinality({}) = 0 /\ IsFiniteSet({}) /\ \A t : Cardinality(MailOf(t)') \in Nat
        BY <2>4, FS_EmptySet, FS_CardinalityType
    <2>6. \A t : Cardinality(SendsOf(t)') + Cardinality(AbsorbersOf(t)') <= Cardinality(MailOf(t)')
        BY <2>3, <2>5
    <2>7. (delivered \cap restored)' = {} /\ Absorbers' \subseteq Workflows(Pool)'
        BY <2>2 DEF Absorbing
    <2> QED
        BY <2>1, <2>2, <2>5, <2>6, <2>7 DEF Absorbing
<1>2. CASE Admit
    <2>1. IsFiniteSet(mail) /\ pc \notin HasJob /\ pc' \in HasJob /\ UNCHANGED <<mail, dropped, declared, acked>>
        BY <1>2 DEF Admit, IInv, Numbered, HasJob, InLive
    <2>2. acked' = {}
        BY <2>1 DEF Absorbing
    <2>3. (delivered \cap restored)' = {} /\ Absorbers' \subseteq Workflows(Pool)'
        BY <1>2 DEF Admit, LoadDelivered, LoadRestored, LoadPending, Workflows, Absorbers, Pool, IInv, Accepted
    <2>4. ASSUME NEW t PROVE Cardinality(SendsOf(t)') + Cardinality(AbsorbersOf(t)') <= Cardinality(MailOf(t)')
        <3>1. SendsOf(t)' = {} /\ AbsorbersOf(t)' \subseteq MailOf(t)'
            BY <2>2, <2>3 DEF SendsOf, AbsorbersOf, MailOf
        <3>2. MailOf(t)' \subseteq mail
            BY <2>1 DEF MailOf, Workflows, Pool
        <3>3. IsFiniteSet(MailOf(t)')
            BY <2>1, <3>2, FS_Subset
        <3>4. Cardinality(AbsorbersOf(t)') <= Cardinality(MailOf(t)') /\ Cardinality(AbsorbersOf(t)') \in Nat
            BY <3>1, <3>3, NoMore
        <3> QED
            BY <3>1, <3>4, FS_EmptySet
    <2> QED
        BY <2>1, <2>2, <2>3, <2>4, FS_EmptySet DEF Absorbing, HasJob, InLive
<1>3. CASE Dying
    <2>1. IsFiniteSet(mail') /\ pc' \notin HasJob /\ Absorbers' = {} /\ acked' = {}
          /\ delivered' = {} /\ restored' = {}
        BY <1>3, Dies DEF Gone, IInv, Numbered, HasJob, InLive, Absorbers
    <2>3. \A t : SendsOf(t)' = {} /\ AbsorbersOf(t)' = {}
        BY <2>1 DEF SendsOf, AbsorbersOf
    <2>4. \A t : IsFiniteSet(MailOf(t)')
        <3>1. \A t : MailOf(t)' \subseteq mail'
            BY DEF MailOf, Workflows, Pool
        <3> QED
            BY <2>1, <3>1, FS_Subset
    <2>5. Cardinality({}) = 0 /\ IsFiniteSet({}) /\ \A t : Cardinality(MailOf(t)') \in Nat
        BY <2>4, FS_EmptySet, FS_CardinalityType
    <2>6. \A t : Cardinality(SendsOf(t)') + Cardinality(AbsorbersOf(t)') <= Cardinality(MailOf(t)')
        BY <2>3, <2>5
    <2> QED
        BY <2>1, <2>5, <2>6 DEF Absorbing
<1>4. ASSUME NEW s \in Sites, SendTo(s) PROVE Absorbing'
    <2>1. CASE pc \in InLive /\ WorkflowSend(s, next[s] + 1)
        BY <1>0, <1>4, <2>1, SendAbsorbing DEF SendTo
    <2>2. CASE UNCHANGED <<journal, provider, replay, mailbox, acked>>
        BY <1>4, <2>2, QuietAbsorbing DEF SendTo
    <2> QED
        BY <1>4, <2>1, <2>2 DEF SendTo
<1>5. ASSUME NEW s \in Sites, HandleSend(s) PROVE Absorbing'
    <2>1. CASE pc \in HasJob /\ WorkflowSend(s, next[s] + 1)
        BY <1>5, <2>1, SendAbsorbing DEF HandleSend
    <2>2. CASE UNCHANGED <<journal, provider, replay, mailbox, acked>>
        BY <1>5, <2>2, QuietAbsorbing DEF HandleSend
    <2> QED
        BY <1>5, <2>1, <2>2 DEF HandleSend
<1>6. CASE Flush
    <2>1. Head(queued) \in Handles \X Nat
        BY <1>6 DEF Flush, Types
    <2>2. Head(queued)[1] \in Sites
        BY <2>1, SitesAssumption
    <2>3. pc \in HasJob
        BY <1>6 DEF Flush, HasJob, InLive
    <2> QED
        BY <1>6, <2>2, <2>3, SendAbsorbing DEF Flush
<1>7. ASSUME NEW t \in Texts, OperatorSend(t) PROVE Absorbing'
    <2>1. IsFiniteSet(mail') /\ mail \subseteq mail' /\ UNCHANGED dropped
        BY <1>7 DEF IInv, Numbered, OperatorSend, Accept
    <2>2. Pool \subseteq Pool'
        BY <1>7, <2>1 DEF Pool, OperatorSend
    <2> QED
        BY <1>7, <2>1, <2>2, PoolGrows DEF OperatorSend
<1>8. CASE Return
    <2>1. Pool \subseteq Pool' /\ IsFiniteSet(mail')
        BY <1>8 DEF Return, Pool, IInv, Numbered
    <2> QED
        BY <1>8, <2>1, PoolGrows DEF Return, Returning, HasJob, InLive
<1>9. CASE Execute \/ SessionEvent \/ TurnFulfils \/ TurnRejects \/ FollowUp \/ SchemaInvalid \/ Seal \/ Fail
    <2>1. UNCHANGED <<mail, dropped, declared, acked, delivered, restored>>
        BY <1>9 DEF Execute, SessionEvent, TurnFulfils, RecordDelivery, TurnRejects, FollowUp, BeginTurn,
           SchemaInvalid, Seal, Fail
    <2>2. pc \in HasJob /\ pc' \in HasJob
        BY <1>9 DEF Execute, SessionEvent, TurnFulfils, TurnRejects, FollowUp, BeginTurn,
           SchemaInvalid, Seal, Fail, HasJob, InLive
    <2> QED
        BY <2>1, <2>2, QuietAbsorbing
<1>10. CASE UNCHANGED vars
    BY <1>10, QuietAbsorbing DEF vars
<1> QED
    BY <1>1, <1>2, <1>3, <1>4, <1>5, <1>6, <1>7, <1>8, <1>9, <1>10 DEF Next, Sending, Turning
-----------------------------------------------------------------------------
(* Sends through handles                                                   *)

\* Every send is made in a context of the workflow, at a position of its file.  A
\* call site that is not known matches messages of others (wfCallsite() says so).
KnownSites == \A s \in Sites : s.sender # None /\ s.callsite # None

\* A message says which send it was, and a handle's message where and what it sent.
Signed ==
    \A m \in mail :
        /\ m.site \in Sites \cup {Operator} /\ m.seq \in Nat /\ m.send = <<m.site, m.send[2]>>
        /\ m.site \in Handles => m.send[2] = m.seq /\ m.text = Program[m.site][m.seq]

\* What a handle keeps for the job are its sends, in their order, that the job has
\* not seen, and all of them.
Waiting ==
    /\ pc \notin HasJob => sendSeq = [s \in Sites |-> 0]
    /\ pc \in {"off", "cached"} \cup (HasJob \ {"ready"}) => queued = <<>>
    /\ pc \in {"waiting"} \cup HasJob =>
          /\ \A s \in Handles : sendSeq[s] <= next[s]
          /\ \A j \in 1..Len(queued) :
                sendSeq[queued[j][1]] < queued[j][2] /\ queued[j][2] <= next[queued[j][1]]
          /\ \A j, k \in 1..Len(queued) :
                j < k /\ queued[j][1] = queued[k][1] => queued[j][2] < queued[k][2]
          /\ \A s \in Handles : \A i \in Nat :
                sendSeq[s] < i /\ i <= next[s] => \E j \in 1..Len(queued) : queued[j] = <<s, i>>

\* A message of a handle that its job has not seen sent again will absorb the send.
Expected ==
    pc \in HasJob =>
        \A m \in mail \ dropped :
            SentThroughHandle(m) /\ m.seq > sendSeq[m.site] => m \in Absorbers

LEMMA WaitingQuiet ==
    ASSUME Waiting, UNCHANGED <<next, queued, sendSeq>>,
           \/ pc' = pc
           \/ pc \in HasJob /\ pc' \in HasJob /\ queued = <<>>
    PROVE Waiting'
BY DEF Waiting, HasJob, InLive

\* The send a job sees next is the next of its handle.
LEMMA HeadIsNext ==
    ASSUME Types, Waiting, pc \in HasJob, queued # <<>>
    PROVE /\ queued[1] \in Handles \X Nat /\ 1 \in 1..Len(queued)
          /\ queued[1][2] = sendSeq[queued[1][1]] + 1
<1>1. 1 \in 1..Len(queued) /\ queued[1] \in Handles \X Nat
    BY DEF Types
<1> DEFINE s == queued[1][1]
           i == queued[1][2]
<1>2. s \in Handles /\ i \in Nat /\ sendSeq[s] \in Nat /\ next[s] \in Nat
    BY <1>1, SitesAssumption DEF Types
<1>3. sendSeq[s] < i /\ i <= next[s]
    BY <1>1 DEF Waiting
<1>4. PICK j \in 1..Len(queued) : queued[j] = <<s, sendSeq[s] + 1>>
    <2>1. sendSeq[s] + 1 \in Nat /\ sendSeq[s] < sendSeq[s] + 1 /\ sendSeq[s] + 1 <= next[s]
        BY <1>2, <1>3
    <2> HIDE DEF s
    <2> QED
        BY <1>2, <2>1 DEF Waiting
<1>5. j # 1 => i < sendSeq[s] + 1
    <2>1. queued[j][1] = s /\ queued[j][2] = sendSeq[s] + 1
        BY <1>4
    <2>2. j # 1 => 1 < j
        BY <1>4
    <2> QED
        BY <1>1, <2>1, <2>2 DEF Waiting
<1>6. i = sendSeq[s] + 1
    BY <1>2, <1>3, <1>4, <1>5
<1> QED
    BY <1>1, <1>6

LEMMA FlushWaiting == IInv /\ Types /\ Waiting /\ Flush => Waiting'
<1> SUFFICES ASSUME IInv, Types, Waiting, Flush PROVE Waiting'
    OBVIOUS
<1>1. pc = "ready" /\ pc' = "ready" /\ queued # <<>> /\ queued' = Tail(queued) /\ next' = next
      /\ "ready" \in HasJob
    BY DEF Flush, HasJob, InLive
<1> DEFINE s == queued[1][1]
           i == queued[1][2]
<1>2. /\ queued[1] \in Handles \X Nat /\ 1 \in 1..Len(queued) /\ i = sendSeq[s] + 1
      /\ s \in Handles /\ s \in Sites /\ i \in Nat
    BY <1>1, HeadIsNext, SitesAssumption
<1>3. sendSeq' = [sendSeq EXCEPT ![s] = i]
    <2>1. Head(queued)[1] = s /\ WorkflowSend(Head(queued)[1], Head(queued)[2])
        BY DEF Flush
    <2>2. sendSeq' = [sendSeq EXCEPT ![s] = sendSeq[s] + 1]
        BY <2>1 DEF WorkflowSend
    <2> QED
        BY <1>2, <2>2
<1>4. /\ Len(queued') = Len(queued) - 1 /\ Len(queued) \in Nat
      /\ \A j \in 1..Len(queued') : queued'[j] = queued[j + 1] /\ j + 1 \in 1..Len(queued)
    BY <1>1 DEF Types
<1>5. sendSeq'[s] = i /\ \A r \in Sites : r # s => sendSeq'[r] = sendSeq[r]
    BY <1>2, <1>3 DEF Types
<1>6. \A j \in 1..Len(queued) : queued[j][1] \in Sites /\ queued[j][2] \in Nat /\ queued[j] = <<queued[j][1], queued[j][2]>>
    BY SitesAssumption DEF Types
<1> HIDE DEF s, i
<1>7. \A r \in Handles : sendSeq'[r] <= next'[r]
    <2>1. i <= next[s]
        BY <1>1, <1>2 DEF Waiting, i, s
    <2> QED
        BY <1>1, <1>5, <2>1, SitesAssumption DEF Waiting
<1>8. ASSUME NEW j \in 1..Len(queued')
      PROVE sendSeq'[queued'[j][1]] < queued'[j][2] /\ queued'[j][2] <= next'[queued'[j][1]]
    <2>1. queued'[j] = queued[j + 1] /\ j + 1 \in 1..Len(queued) /\ 1 < j + 1
        BY <1>4
    <2>2. sendSeq[queued[j + 1][1]] < queued[j + 1][2] /\ queued[j + 1][2] <= next[queued[j + 1][1]]
        BY <1>1, <2>1 DEF Waiting
    <2>3. queued[j + 1][1] = s => i < queued[j + 1][2]
        BY <1>1, <1>2, <2>1 DEF Waiting, s, i
    <2> QED
        BY <1>1, <1>5, <1>6, <2>1, <2>2, <2>3
<1>9. ASSUME NEW j \in 1..Len(queued'), NEW k \in 1..Len(queued'), j < k, queued'[j][1] = queued'[k][1]
      PROVE queued'[j][2] < queued'[k][2]
    <2>1. j + 1 \in 1..Len(queued) /\ k + 1 \in 1..Len(queued) /\ j + 1 < k + 1
        BY <1>4, <1>9
    <2> QED
        BY <1>1, <1>4, <1>9, <2>1 DEF Waiting
<1>10. ASSUME NEW r \in Handles, NEW n \in Nat, sendSeq'[r] < n, n <= next'[r]
       PROVE \E j \in 1..Len(queued') : queued'[j] = <<r, n>>
    <2>1. r \in Sites /\ sendSeq[r] \in Nat
        BY SitesAssumption DEF Types
    <2>2. sendSeq[r] < n
        BY <1>2, <1>5, <1>10, <2>1
    <2>3. PICK k \in 1..Len(queued) : queued[k] = <<r, n>>
        BY <1>1, <1>10, <2>2 DEF Waiting
    <2>4. k # 1
        <3>1. k = 1 => r = s /\ n = i
            BY <2>3 DEF s, i
        <3> QED
            BY <1>2, <1>5, <1>10, <3>1
    <2>5. k - 1 \in 1..Len(queued') /\ queued'[k - 1] = queued[k]
        <3>1. k - 1 \in 1..Len(queued')
            BY <1>4, <2>4
        <3>2. (k - 1) + 1 = k
            OBVIOUS
        <3> QED
            BY <1>4, <3>1, <3>2
    <2> QED
        BY <2>3, <2>5
<1> QED
    BY <1>1, <1>7, <1>8, <1>9, <1>10 DEF Waiting, HasJob, InLive
LEMMA HandleWaiting == IInv /\ Types /\ Waiting /\ (\E s \in Sites : SendTo(s) \/ HandleSend(s)) => Waiting'
<1> SUFFICES ASSUME IInv, Types, Waiting, NEW s \in Sites, SendTo(s) \/ HandleSend(s) PROVE Waiting'
    OBVIOUS
<1>1. /\ next' = [next EXCEPT ![s] = next[s] + 1] /\ pc' = pc /\ pc \notin {"off", "ready"}
      /\ next[s] \in Nat /\ next'[s] = next[s] + 1
      /\ \A r \in Sites : r # s => next'[r] = next[r]
    BY DEF SendTo, HandleSend, Following, Types
<1>2. WorkflowSend(s, next[s] + 1) =>
          sendSeq'[s] = sendSeq[s] + 1 /\ \A r \in Sites : r # s => sendSeq'[r] = sendSeq[r]
    <2>1. WorkflowSend(s, next[s] + 1) => sendSeq' = [sendSeq EXCEPT ![s] = sendSeq[s] + 1]
        BY DEF WorkflowSend
    <2> QED
        BY <2>1 DEF Types
<1>3. \A r \in Sites : sendSeq[r] \in Nat /\ next[r] \in Nat
    BY DEF Types
<1>4. \A j \in 1..Len(queued) : queued[j][1] \in Handles /\ queued[j][2] \in Nat /\ queued[j] = <<queued[j][1], queued[j][2]>>
    BY DEF Types
<1>5. CASE pc \in HasJob
    <2>1. queued = <<>>
        BY <1>1, <1>5 DEF Waiting
    <2>2. queued' = <<>>
        BY <1>5, <2>1 DEF SendTo, HandleSend, HasJob, InLive
    <2>3. \A r \in Handles : sendSeq[r] = next[r]
        <3> SUFFICES ASSUME NEW r \in Handles, sendSeq[r] # next[r] PROVE FALSE
            OBVIOUS
        <3>1. sendSeq[r] < next[r] /\ next[r] \in Nat
            BY <1>3, <1>5, SitesAssumption DEF Waiting
        <3>2. next[r] <= next[r]
            BY <3>1
        <3>3. \E j \in 1..Len(queued) : queued[j] = <<r, next[r]>>
            BY <1>5, <3>1, <3>2 DEF Waiting
        <3> QED
            BY <2>1, <3>3
    <2>4. \A r \in Handles : sendSeq'[r] = next'[r]
        <3>1. CASE SendTo(s)
            <4>1. s \notin Handles /\ (UNCHANGED sendSeq \/ WorkflowSend(s, next[s] + 1))
                BY <3>1 DEF SendTo, replay
            <4> QED
                BY <1>1, <1>2, <2>3, <4>1, SitesAssumption
        <3>2. CASE HandleSend(s)
            <4>1. WorkflowSend(s, next[s] + 1)
                BY <1>5, <3>2 DEF HandleSend, HasJob, InLive
            <4> QED
                BY <1>1, <1>2, <1>3, <2>3, <4>1, SitesAssumption
        <3> QED
            BY <3>1, <3>2
    <2>5. \A r \in Handles : next'[r] \in Nat
        BY <1>1, <1>3, SitesAssumption
    <2>6. ~(pc \notin HasJob)
        BY <1>5
    <2> QED
        BY <1>1, <1>5, <2>2, <2>4, <2>5 DEF Waiting, HasJob, InLive
<1>6. CASE pc = "cached"
    <2>1. UNCHANGED <<queued, sendSeq>>
        BY <1>6 DEF SendTo, HandleSend, replay, HasJob, InLive
    <2> QED
        BY <1>1, <1>6, <2>1 DEF Waiting, HasJob, InLive
<1>7. CASE pc = "waiting"
    <2>1. UNCHANGED sendSeq /\ pc \notin HasJob
        BY <1>7 DEF SendTo, HandleSend, replay, HasJob, InLive
    <2>2. CASE SendTo(s)
        <3>1. s \notin Handles /\ UNCHANGED queued
            BY <2>2 DEF SendTo
        <3>2. \A r \in Handles : next'[r] = next[r]
            BY <1>1, <3>1, SitesAssumption
        <3> QED
            BY <1>1, <1>4, <1>7, <2>1, <3>1, <3>2 DEF Waiting, HasJob, InLive
    <2>3. CASE HandleSend(s)
        <3>1. s \in Handles /\ queued' = Append(queued, <<s, next[s] + 1>>)
            BY <1>7, <2>3 DEF HandleSend, HasJob, InLive
        <3>2. /\ Len(queued) \in Nat /\ Len(queued') = Len(queued) + 1
              /\ queued'[Len(queued')] = <<s, next[s] + 1>>
              /\ \A j \in 1..Len(queued) : queued'[j] = queued[j]
            BY <1>1, <3>1 DEF Types
        <3>3. \A j \in 1..Len(queued') : j \in 1..Len(queued) \/ j = Len(queued')
            BY <3>2
        <3>4. \A r \in Handles : sendSeq'[r] <= next'[r] /\ sendSeq'[r] = sendSeq[r] /\ sendSeq[r] <= next[r]
              /\ r \in Sites /\ next[r] <= next'[r]
            BY <1>1, <1>3, <1>7, <2>1, SitesAssumption DEF Waiting
        <3>5. ASSUME NEW j \in 1..Len(queued')
              PROVE sendSeq'[queued'[j][1]] < queued'[j][2] /\ queued'[j][2] <= next'[queued'[j][1]]
            <4>1. CASE j = Len(queued')
                <5>1. queued'[j][1] = s /\ queued'[j][2] = next[s] + 1
                    BY <3>2, <4>1
                <5> QED
                    BY <1>1, <1>3, <3>1, <3>4, <5>1
            <4>2. CASE j \in 1..Len(queued)
                <5>1. sendSeq[queued[j][1]] < queued[j][2] /\ queued[j][2] <= next[queued[j][1]]
                    BY <1>7, <4>2 DEF Waiting
                <5>2. queued'[j] = queued[j] /\ queued[j][1] \in Handles /\ queued[j][2] \in Nat
                    BY <1>4, <3>2, <4>2
                <5>3. next[queued[j][1]] <= next'[queued[j][1]] /\ next[queued[j][1]] \in Nat
                      /\ next'[queued[j][1]] \in Nat /\ sendSeq'[queued[j][1]] = sendSeq[queued[j][1]]
                    BY <1>1, <1>3, <3>4, <5>2
                <5> QED
                    BY <5>1, <5>2, <5>3
            <4> QED
                BY <3>3, <4>1, <4>2
        <3>6. ASSUME NEW j \in 1..Len(queued'), NEW k \in 1..Len(queued'), j < k, queued'[j][1] = queued'[k][1]
              PROVE queued'[j][2] < queued'[k][2]
            <4>1. j \in 1..Len(queued)
                BY <3>2, <3>6
            <4>2. CASE k = Len(queued')
                <5>1. queued'[k][1] = s /\ queued'[k][2] = next[s] + 1
                    BY <3>2, <4>2
                <5>2. queued'[j] = queued[j]
                    BY <3>2, <4>1
                <5>3. queued[j][2] <= next[queued[j][1]] /\ queued[j][2] \in Nat
                    BY <1>4, <1>7, <4>1 DEF Waiting
                <5> QED
                    BY <1>1, <3>6, <5>1, <5>2, <5>3
            <4>3. CASE k \in 1..Len(queued)
                <5>1. queued[j][1] = queued[k][1]
                    BY <3>2, <3>6, <4>1, <4>3
                <5>2. queued[j][2] < queued[k][2]
                    BY <1>7, <3>6, <4>1, <4>3, <5>1 DEF Waiting
                <5> QED
                    BY <3>2, <4>1, <4>3, <5>2
            <4> QED
                BY <3>3, <4>2, <4>3
        <3>7. ASSUME NEW r \in Handles, NEW n \in Nat, sendSeq'[r] < n, n <= next'[r]
              PROVE \E j \in 1..Len(queued') : queued'[j] = <<r, n>>
            <4>1. CASE n <= next[r]
                <5>1. sendSeq[r] < n
                    BY <3>4, <3>7
                <5>2. PICK j \in 1..Len(queued) : queued[j] = <<r, n>>
                    BY <1>7, <4>1, <5>1 DEF Waiting
                <5> QED
                    BY <3>2, <5>2
            <4>2. CASE ~(n <= next[r])
                <5>1. r = s /\ n = next[s] + 1
                    BY <1>1, <1>3, <3>4, <3>7, <4>2
                <5>2. Len(queued') \in 1..Len(queued')
                    BY <3>2
                <5> QED
                    BY <3>2, <5>1, <5>2
            <4> QED
                BY <4>1, <4>2
        <3>8. sendSeq' = [r \in Sites |-> 0]
            BY <2>1 DEF Waiting
        <3> QED
            BY <1>1, <1>7, <2>1, <3>4, <3>5, <3>6, <3>7, <3>8 DEF Waiting, HasJob, InLive
    <2> QED
        BY <2>2, <2>3
<1> QED
    BY <1>1, <1>5, <1>6, <1>7 DEF IInv, Lists

LEMMA WaitingStep == IInv /\ Types /\ Waiting /\ [Next]_vars => Waiting'
<1> SUFFICES ASSUME IInv, Types, Waiting, [Next]_vars PROVE Waiting'
    OBVIOUS
<1> USE DEF flow, replay
<1>1. CASE Start
    <2>1. /\ pc' \in {"waiting", "cached"} /\ next' = [s \in Sites |-> 0] /\ queued' = <<>>
          /\ sendSeq' = sendSeq /\ sendSeq = [s \in Sites |-> 0]
        BY <1>1 DEF Start, Waiting, HasJob, InLive
    <2>2. \A s \in Handles : sendSeq'[s] = 0 /\ next'[s] = 0
        BY <2>1, SitesAssumption
    <2> QED
        BY <2>1, <2>2 DEF Waiting, HasJob, InLive
<1>2. CASE Admit
    <2>1. /\ pc = "waiting" /\ pc' = "ready" /\ UNCHANGED <<next, queued>>
          /\ sendSeq' = [s \in Sites |-> 0] /\ sendSeq = [s \in Sites |-> 0]
        BY <1>2 DEF Admit, Waiting, HasJob, InLive
    <2> QED
        BY <2>1 DEF Waiting, HasJob, InLive
<1>3. CASE Dying
    BY <1>3, Dies DEF Gone, Waiting, HasJob, InLive
<1>4. CASE Flush
    BY <1>4, FlushWaiting
<1>5. CASE \E s \in Sites : SendTo(s) \/ HandleSend(s)
    BY <1>5, HandleWaiting
<1>6. CASE \E t \in Texts : OperatorSend(t)
    BY <1>6, WaitingQuiet DEF OperatorSend
<1>7. CASE Turning
    <2>1. UNCHANGED <<next, queued, sendSeq>>
        BY <1>7 DEF Turning, Execute, BeginTurn, SessionEvent, TurnFulfils, TurnRejects, FollowUp,
           Return, Returning, SchemaInvalid, Seal, Fail
    <2>2. pc' = pc \/ (pc \in HasJob /\ pc' \in HasJob /\ (pc = "ready" => queued = <<>>))
        BY <1>7 DEF Turning, Execute, BeginTurn, SessionEvent, TurnFulfils, TurnRejects, FollowUp,
           Return, Returning, SchemaInvalid, Seal, Fail, HasJob, InLive
    <2>3. pc \in HasJob /\ pc # "ready" => queued = <<>>
        BY DEF Waiting
    <2> QED
        BY <2>1, <2>2, <2>3, WaitingQuiet
<1>8. CASE UNCHANGED vars
    BY <1>8, WaitingQuiet DEF vars
<1> QED
    BY <1>1, <1>2, <1>3, <1>4, <1>5, <1>6, <1>7, <1>8 DEF Next, Sending
\* With known sites only the first key matches: the send's own.
LEMMA OwnKey ==
    ASSUME KnownSites, Signed, NEW m \in mail, m.site # Operator, NEW s \in Sites, NEW n, NEW t,
           NEW k \in 1..4, Key(m) = KeysOf(s, n, t)[k]
    PROVE m.site = s /\ m.seq = n
<1>1. m.site \in Sites
    BY DEF Signed
<1>2. m.site.sender # None /\ m.site.callsite # None /\ s.callsite # None
    BY <1>1 DEF KnownSites
<1>3. k = 1
    BY <1>2 DEF Key, KeysOf
<1>4. m.site.sender = s.sender /\ m.site.callsite = s.callsite /\ m.seq = n
    BY <1>3 DEF Key, KeysOf
<1>5. m.site = [sender |-> m.site.sender, callsite |-> m.site.callsite]
      /\ s = [sender |-> s.sender, callsite |-> s.callsite]
    BY <1>1, SitesAssumption
<1> QED
    BY <1>4, <1>5

\* A message with the send's own key absorbs it.
LEMMA OwnMatches ==
    ASSUME NEW ms, NEW m \in ms, NEW s, NEW n, NEW t,
           m.site = s, m.seq = n, m.text = t
    PROVE Matches(ms, s, n, t) # {}
<1>1. Key(m) = KeysOf(s, n, t)[1]
    BY DEF Key, KeysOf
<1>2. m \in Matches(ms, s, n, t)
    BY <1>1 DEF Matches
<1> QED
    BY <1>2

\* The parts of HInv that do not concern what waits.
Own == Signed /\ Expected /\ HandleSendsAreTheirOwn

LEMMA OwnQuiet ==
    ASSUME IInv, Own, UNCHANGED mail, dropped \subseteq dropped', UNCHANGED <<sendSeq, delivered, restored>>,
           pc' \in HasJob => pc \in HasJob, acked' \subseteq acked
    PROVE Own'
<1>1. Signed'
    BY DEF Own, Signed
<1>2. Expected'
    BY DEF Own, Expected, Absorbers, HasJob, InLive, SentThroughHandle
<1>3. HandleSendsAreTheirOwn'
    BY DEF Own, HandleSendsAreTheirOwn, SentThroughHandle
<1> QED
    BY <1>1, <1>2, <1>3 DEF Own

\* A message absorbs the send it was recorded for.
LEMMA AbsorbedOwn ==
    ASSUME KnownSites, IInv, Types, Absorbing, Own, pc \in HasJob, NEW s \in Sites, NEW i, NEW m \in Absorbers,
           s \in Handles => i = sendSeq[s] + 1,
           sendSeq' = [sendSeq EXCEPT ![s] = sendSeq[s] + 1],
           NEW k \in 1..4, NEW t, Key(m) = KeysOf(s, sendSeq[s] + 1, t)[k],
           Absorbers' = Absorbers \ {m}, acked' = acked \cup {<<s, i>>},
           UNCHANGED <<mail, dropped, pc>>
    PROVE Own'
<1>1. m \in mail /\ m.site # Operator
    BY DEF Absorbing, Workflows, Pool
<1>2. m.site = s /\ m.seq = sendSeq[s] + 1
    BY <1>1, OwnKey DEF Own
<1>3. Signed'
    BY DEF Own, Signed
<1>4. Expected'
    <2> SUFFICES ASSUME NEW q \in mail \ dropped, SentThroughHandle(q), q.seq > sendSeq'[q.site]
                 PROVE q \in Absorbers \ {m}
        BY DEF Expected, SentThroughHandle, HasJob, InLive
    <2>1. q.site \in Sites /\ q.seq \in Nat
        BY SitesAssumption DEF Own, Signed, SentThroughHandle
    <2>2. CASE q.site = s
        <3>1. sendSeq'[s] = sendSeq[s] + 1 /\ sendSeq[s] \in Nat
            BY DEF Types
        <3>2. q # m
            BY <1>2, <2>2, <3>1
        <3>3. q.seq > sendSeq[q.site]
            BY <2>1, <2>2, <3>1
        <3> QED
            BY <3>2, <3>3 DEF Own, Expected
    <2>3. CASE q.site # s
        <3>1. sendSeq'[q.site] = sendSeq[q.site]
            BY <2>1, <2>3 DEF Types
        <3>2. q \in Absorbers /\ q # m
            BY <1>2, <2>3, <3>1 DEF Own, Expected
        <3> QED
            BY <3>2
    <2> QED
        BY <2>2, <2>3
<1>5. HandleSendsAreTheirOwn'
    <2>1. s \in Handles => m.send = <<s, i>>
        BY <1>1, <1>2 DEF Own, Signed
    <2>2. \A l \in acked' : l[1] \in Handles => \E q \in mail' : q.send = l
        BY <1>1, <2>1 DEF Own, HandleSendsAreTheirOwn
    <2> QED
        BY <2>2 DEF Own, HandleSendsAreTheirOwn, SentThroughHandle
<1> QED
    BY <1>3, <1>4, <1>5 DEF Own

\* A send that nothing absorbs has no message yet, and gets one.
LEMMA AcceptedOwn ==
    ASSUME KnownSites, IInv, Types, Absorbing, Own, pc \in HasJob, NEW s \in Sites, NEW i,
           s \in Handles => i = sendSeq[s] + 1,
           sendSeq' = [sendSeq EXCEPT ![s] = sendSeq[s] + 1],
           Matches(Absorbers, s, sendSeq[s] + 1, Program[s][i]) = {},
           NEW m, m \notin mail, mail' = mail \cup {m},
           m.site = s, m.seq = sendSeq[s] + 1, m.text = Program[s][i], m.send = <<s, i>>,
           acked' = acked \cup {<<s, i>>}, UNCHANGED <<dropped, delivered, restored, pc>>
    PROVE Own'
<1>1. s # Operator /\ sendSeq[s] \in Nat /\ sendSeq'[s] = sendSeq[s] + 1
      /\ \A r \in Sites : r # s => sendSeq'[r] = sendSeq[r]
    BY OperatorIsNoSite DEF Types
<1>2. Signed'
    <2>1. m.site \in Sites \cup {Operator} /\ m.seq \in Nat /\ m.send = <<m.site, m.send[2]>>
          /\ (m.site \in Handles => m.send[2] = m.seq /\ m.text = Program[m.site][m.seq])
        BY <1>1
    <2> QED
        BY <2>1 DEF Own, Signed
<1>3. Expected'
    <2> SUFFICES ASSUME NEW q \in (mail \cup {m}) \ dropped, SentThroughHandle(q), q.seq > sendSeq'[q.site]
                 PROVE q \in Absorbers
        BY DEF Expected, SentThroughHandle, HasJob, InLive, Absorbers
    <2>1. q # m
        BY <1>1
    <2>2. q.site \in Sites /\ q.seq \in Nat /\ sendSeq[q.site] \in Nat
        BY <2>1, SitesAssumption DEF SentThroughHandle, Own, Signed, Types
    <2>3. q.seq > sendSeq[q.site]
        BY <1>1, <2>1, <2>2
    <2> QED
        BY <2>1, <2>3 DEF Own, Expected
<1>4. HandleSendsAreTheirOwn'
    <2>1. \A l \in acked' : l[1] \in Handles => \E q \in mail' : q.send = l
        BY DEF Own, HandleSendsAreTheirOwn
    <2>2. ASSUME NEW q \in mail \ dropped, q.send = <<s, i>>, s \in Handles PROVE FALSE
        <3>1. q.site = s /\ q.send[2] = i
            BY <2>2 DEF Own, Signed
        <3>2. q.seq = i /\ q.text = Program[s][i]
            BY <2>2, <3>1 DEF Own, Signed
        <3>3. q \in Absorbers
            BY <1>1, <2>2, <3>1, <3>2 DEF Own, Expected, SentThroughHandle
        <3> QED
            BY <2>2, <3>1, <3>2, <3>3, OwnMatches
    <2>3. ASSUME NEW q \in mail' \ dropped', NEW k \in mail' \ dropped', SentThroughHandle(q), q.send = k.send
          PROVE q = k
        <3>1. k.send = <<k.site, k.send[2]>> /\ q.send = <<q.site, q.send[2]>>
            BY <1>2 DEF Signed
        <3>2. k.site = q.site
            BY <2>3, <3>1
        <3>3. CASE q = m /\ k # m
            BY <2>2, <2>3, <3>2, <3>3 DEF SentThroughHandle
        <3>4. CASE q # m /\ k = m
            BY <2>2, <2>3, <3>2, <3>4 DEF SentThroughHandle
        <3>5. CASE q # m /\ k # m
            BY <2>3, <3>5 DEF Own, HandleSendsAreTheirOwn
        <3> QED
            BY <3>3, <3>4, <3>5
    <2> QED
        BY <2>1, <2>3 DEF HandleSendsAreTheirOwn, SentThroughHandle
<1> QED
    BY <1>2, <1>3, <1>4 DEF Own
LEMMA SendOwn ==
    ASSUME KnownSites, IInv, Types, Absorbing, Own, pc \in HasJob, NEW s \in Sites, NEW i,
           s \in Handles => i = sendSeq[s] + 1, WorkflowSend(s, i), UNCHANGED pc
    PROVE Own'
<1> DEFINE n == sendSeq[s] + 1
           t == Program[s][i]
           l == <<s, i>>
<1>0. sendSeq' = [sendSeq EXCEPT ![s] = n]
    BY DEF WorkflowSend
<1>1. CASE /\ Matches(delivered, s, n, t) # {}
           /\ delivered' = Consume(delivered, s, n, t)
           /\ acked' = acked \cup {l}
           /\ UNCHANGED <<restored, journal, provider, mailbox>>
    <2>1. PICK m \in delivered : delivered' = delivered \ {m} /\ \E k \in 1..4 : Key(m) = KeysOf(s, n, t)[k]
        <3> HIDE DEF n, t
        <3> QED
            BY <1>1, Absorbs
    <2>2. m \in Absorbers /\ Absorbers' = Absorbers \ {m}
        BY <1>1, <2>1 DEF Absorbing, Absorbers
    <2>3. PICK k \in 1..4 : Key(m) = KeysOf(s, n, t)[k]
        BY <2>1
    <2>4. UNCHANGED <<mail, dropped, pc>>
        BY <1>1 DEF journal
    <2> HIDE DEF t
    <2> QED
        BY <1>0, <1>1, <2>2, <2>3, <2>4, AbsorbedOwn
<1>2. CASE /\ Matches(restored, s, n, t) # {}
           /\ restored' = Consume(restored, s, n, t)
           /\ acked' = acked \cup {l}
           /\ UNCHANGED <<delivered, journal, provider, mailbox>>
    <2>1. PICK m \in restored : restored' = restored \ {m} /\ \E k \in 1..4 : Key(m) = KeysOf(s, n, t)[k]
        <3> HIDE DEF n, t
        <3> QED
            BY <1>2, Absorbs
    <2>2. m \in Absorbers /\ Absorbers' = Absorbers \ {m}
        BY <1>2, <2>1 DEF Absorbing, Absorbers
    <2>3. PICK k \in 1..4 : Key(m) = KeysOf(s, n, t)[k]
        BY <2>1
    <2>4. UNCHANGED <<mail, dropped, pc>>
        BY <1>2 DEF journal
    <2> HIDE DEF t
    <2> QED
        BY <1>0, <1>2, <2>2, <2>3, <2>4, AbsorbedOwn
<1>3. CASE /\ Matches(delivered \cup restored, s, n, t) = {}
           /\ Accept([site |-> s, seq |-> n, text |-> t, send |-> l, copy |-> 0])
           /\ acked' = acked \cup {l}
           /\ UNCHANGED <<delivered, restored>>
    <2> DEFINE record == [site |-> s, seq |-> n, text |-> t, send |-> l, copy |-> 0]
    <2>1. IsRecord(record) /\ record.copy = 0
        BY DEF IsRecord
    <2>2. record.site = s /\ record.seq = n /\ record.text = t /\ record.send = l
        OBVIOUS
    <2> HIDE DEF record
    <2>3. /\ UNCHANGED dropped
          /\ \E m : /\ m \notin mail /\ mail' = mail \cup {m}
                    /\ m.site = record.site /\ m.seq = record.seq
                    /\ m.text = record.text /\ m.send = record.send
        BY <1>3, <2>1, AcceptAdds DEF record
    <2>4. PICK m : /\ m \notin mail /\ mail' = mail \cup {m}
                   /\ m.site = s /\ m.seq = n /\ m.text = t /\ m.send = l
        BY <2>2, <2>3
    <2>5. Matches(Absorbers, s, n, t) = {}
        BY <1>3 DEF Absorbers
    <2> QED
        BY <1>0, <1>3, <2>3, <2>4, <2>5, AcceptedOwn
<1>4. CASE /\ Matches(delivered \cup restored, s, n, t) = {}
           /\ UNCHANGED <<journal, provider, mailbox, acked, delivered, restored>>
    <2>1. Signed' /\ HandleSendsAreTheirOwn'
        BY <1>4 DEF journal, Own, Signed, HandleSendsAreTheirOwn, SentThroughHandle
    <2>2. Expected'
        <3> SUFFICES ASSUME NEW q \in mail \ dropped, SentThroughHandle(q), q.seq > sendSeq'[q.site]
                     PROVE q \in Absorbers
            BY <1>4 DEF journal, Expected, SentThroughHandle, HasJob, InLive, Absorbers
        <3>1. q.site \in Sites /\ q.seq \in Nat /\ sendSeq[q.site] \in Nat
            BY SitesAssumption DEF SentThroughHandle, Own, Signed, Types
        <3>2. q.seq > sendSeq[q.site]
            BY <1>0, <3>1 DEF Types
        <3> QED
            BY <3>2 DEF Own, Expected
    <2> QED
        BY <2>1, <2>2 DEF Own
<1> QED
    BY <1>1, <1>2, <1>3, <1>4 DEF WorkflowSend

LEMMA OwnStep == KnownSites /\ IInv /\ Types /\ Absorbing /\ Waiting /\ Own /\ [Next]_vars => Own'
<1> SUFFICES ASSUME KnownSites, IInv, Types, Absorbing, Waiting, Own, [Next]_vars PROVE Own'
    OBVIOUS
<1> USE DEF journal, replay, history, flow
<1>0. InLive \subseteq HasJob /\ Handles \subseteq Sites
    BY SitesAssumption DEF HasJob
<1>1. CASE Start
    <2>1. acked' = {} /\ pc' \notin HasJob /\ UNCHANGED <<mail, dropped, sendSeq, delivered, restored>>
        BY <1>1 DEF Start, HasJob, InLive
    <2> QED
        BY <2>1, OwnQuiet
<1>2. CASE Admit
    <2>1. UNCHANGED <<mail, dropped, acked>> /\ Absorbers' = Workflows(mail \ dropped)
        BY <1>2 DEF Admit, Absorbers, LoadDelivered, LoadRestored, LoadPending, Workflows, IInv, Accepted
    <2>2. \A q \in mail \ dropped : SentThroughHandle(q) => q \in Absorbers'
        BY <1>0, <2>1, OperatorIsNoSite DEF Workflows, SentThroughHandle
    <2> QED
        BY <2>1, <2>2 DEF Own, Signed, Expected, HandleSendsAreTheirOwn, SentThroughHandle
<1>3. CASE Dying
    <2>1. acked' = {} /\ pc' \notin HasJob /\ UNCHANGED mail /\ dropped \subseteq dropped'
        BY <1>3, Dies DEF Gone, HasJob, InLive
    <2> QED
        BY <2>1 DEF Own, Signed, Expected, HandleSendsAreTheirOwn, SentThroughHandle, HasJob, InLive
<1>4. ASSUME NEW s \in Sites, SendTo(s) PROVE Own'
    <2>1. CASE pc \in InLive /\ WorkflowSend(s, next[s] + 1)
        BY <1>0, <1>4, <2>1, SendOwn DEF SendTo
    <2>2. CASE UNCHANGED <<journal, provider, replay, mailbox, acked>>
        BY <1>4, <2>2, OwnQuiet DEF SendTo
    <2> QED
        BY <1>4, <2>1, <2>2 DEF SendTo
<1>5. ASSUME NEW s \in Sites, HandleSend(s) PROVE Own'
    <2>1. CASE pc \in HasJob /\ WorkflowSend(s, next[s] + 1)
        <3>1. s \in Handles /\ pc # "ready" /\ UNCHANGED pc
            BY <1>5 DEF HandleSend, Following
        <3>2. queued = <<>>
            BY <2>1, <3>1 DEF Waiting
        <3>3. ~(sendSeq[s] < next[s])
            <4>1. next[s] \in Nat /\ next[s] <= next[s]
                BY DEF Types
            <4>2. sendSeq[s] < next[s] => \E j \in 1..Len(queued) : queued[j] = <<s, next[s]>>
                BY <2>1, <3>1, <4>1 DEF Waiting
            <4> QED
                BY <3>2, <4>2
        <3>4. next[s] + 1 = sendSeq[s] + 1
            BY <2>1, <3>1, <3>3 DEF Waiting, Types
        <3> QED
            BY <2>1, <3>1, <3>4, SendOwn
    <2>2. CASE UNCHANGED <<journal, provider, replay, mailbox, acked>>
        BY <1>5, <2>2, OwnQuiet DEF HandleSend
    <2> QED
        BY <1>5, <2>1, <2>2 DEF HandleSend
<1>6. CASE Flush
    <2>1. pc \in HasJob /\ UNCHANGED pc /\ queued # <<>> /\ Head(queued) = queued[1]
          /\ WorkflowSend(queued[1][1], queued[1][2])
        BY <1>6 DEF Flush, HasJob, InLive
    <2>2. queued[1][1] \in Sites /\ queued[1][2] = sendSeq[queued[1][1]] + 1
        BY <1>0, <2>1, HeadIsNext
    <2> QED
        BY <2>1, <2>2, SendOwn
<1>7. ASSUME NEW t \in Texts, OperatorSend(t) PROVE Own'
    <2> DEFINE record == [site |-> Operator, seq |-> 0, text |-> t, send |-> <<Operator, 0>>, copy |-> 0]
    <2>1. IsRecord(record) /\ record.copy = 0 /\ Accept(record)
          /\ UNCHANGED <<acked, sendSeq, delivered, restored, pc>>
        BY <1>7 DEF IsRecord, OperatorSend
    <2>2. record.site = Operator /\ record.seq = 0 /\ record.send = <<Operator, 0>>
        OBVIOUS
    <2> HIDE DEF record
    <2>3. /\ UNCHANGED dropped
          /\ \E m : /\ m \notin mail /\ mail' = mail \cup {m}
                    /\ m.site = record.site /\ m.seq = record.seq
                    /\ m.text = record.text /\ m.send = record.send
        BY <2>1, AcceptAdds
    <2>4. PICK m : /\ m \notin mail /\ mail' = mail \cup {m}
                   /\ m.site = Operator /\ m.seq = 0 /\ m.send = <<Operator, 0>>
        BY <2>2, <2>3
    <2>5. m.site \notin Handles
        BY <1>0, <2>4, OperatorIsNoSite
    <2>6. Signed'
        BY <2>4, <2>5 DEF Own, Signed
    <2>7. Expected'
        BY <2>1, <2>3, <2>4, <2>5 DEF Own, Expected, Absorbers, SentThroughHandle, HasJob, InLive
    <2>8. HandleSendsAreTheirOwn'
        <3>1. \A l \in acked' : l[1] \in Handles => \E q \in mail' : q.send = l
            BY <2>1, <2>4 DEF Own, HandleSendsAreTheirOwn
        <3>2. \A q \in mail : SentThroughHandle(q) => q.send # m.send
            BY <2>4, <2>5 DEF Own, Signed, SentThroughHandle
        <3>3. \A q, k \in (mail \cup {m}) \ dropped : SentThroughHandle(q) /\ q.send = k.send => q = k
            BY <2>5, <3>2 DEF Own, HandleSendsAreTheirOwn, SentThroughHandle
        <3> QED
            BY <2>3, <2>4, <3>1, <3>3 DEF HandleSendsAreTheirOwn, SentThroughHandle
    <2> QED
        BY <2>6, <2>7, <2>8 DEF Own
<1>8. CASE Turning
    <2>1. /\ UNCHANGED <<mail, sendSeq, delivered, restored, acked>> /\ dropped \subseteq dropped'
          /\ pc \in HasJob
        BY <1>8 DEF Turning, Execute, BeginTurn, SessionEvent, TurnFulfils, TurnRejects, FollowUp,
           RecordDelivery, Return, Returning, SchemaInvalid, Seal, Fail, HasJob, InLive
    <2> QED
        BY <2>1, OwnQuiet
<1>9. CASE UNCHANGED vars
    BY <1>9, OwnQuiet DEF vars
<1> QED
    BY <1>1, <1>2, <1>3, <1>4, <1>5, <1>6, <1>7, <1>8, <1>9 DEF Next, Sending

LEMMA AcksInvariance == Spec => [](IInv /\ Types /\ Absorbing)
<1>1. Init => Types /\ Absorbing
    <2> SUFFICES ASSUME Init PROVE Types /\ Absorbing
        OBVIOUS
    <2>1. \A t : SendsOf(t) = {} /\ AbsorbersOf(t) = {} /\ MailOf(t) = {}
        BY DEF Init, SendsOf, AbsorbersOf, MailOf, Absorbers, Workflows, Pool
    <2>2. Types
        <3>1. <<>> \in Seq(Handles \X Nat)
            OBVIOUS
        <3> QED
            BY <3>1 DEF Init, Types
    <2>3. Absorbing
        <3>1. acked = {} /\ delivered = {} /\ restored = {}
            BY DEF Init
        <3>2. IsFiniteSet({}) /\ Cardinality({}) = 0
            BY FS_EmptySet
        <3> QED
            BY <2>1, <3>1, <3>2 DEF Absorbing, Absorbers
    <2> QED
        BY <2>2, <2>3
<1>2. IInv /\ IInv' /\ (Types /\ Absorbing) /\ [Next]_vars => (Types /\ Absorbing)'
    BY TypesStep, AbsorbingStep
<1> QED
    BY <1>1, <1>2, Invariance, PTL DEF Spec

LEMMA OwnInvariance == KnownSites => (Spec => [](Waiting /\ Own))
<1> SUFFICES ASSUME KnownSites PROVE Spec => [](Waiting /\ Own)
    OBVIOUS
<1>1. Init => Waiting /\ Own
    <2> SUFFICES ASSUME Init PROVE Waiting /\ Own
        OBVIOUS
    <2>1. Waiting
        BY DEF Init, Waiting, HasJob, InLive
    <2>2. Own
        BY DEF Init, Own, Signed, Expected, HandleSendsAreTheirOwn, HasJob, InLive
    <2> QED
        BY <2>1, <2>2
<1>2. (IInv /\ Types /\ Absorbing) /\ (Waiting /\ Own) /\ [Next]_vars => (Waiting /\ Own)'
    BY WaitingStep, OwnStep
<1> QED
    BY <1>1, <1>2, AcksInvariance, PTL DEF Spec
-----------------------------------------------------------------------------
\* No accepted message is stranded, whatever its engines go through: a live job has it in
\* hand or on record, and what an agent that completed leaves unrecorded its provider has read,
\* whichever of its appends an engine dies between.
THEOREM ReplayStrandsNothing == Spec => []NothingStranded
BY Invariance, PTL DEF IInv

\* A message that counts as delivered, or was declared dropped, is not delivered again.
THEOREM ReplayRepeatsNothing == Spec => []DoneNotRepeated
BY Invariance, PTL DEF IInv

\* What counts as delivered is in the session that a resume continues, unless the thread
\* that took it is one the provider left for a new one.
THEOREM ReplayDoneIsInSession == Spec => []DoneIsInSessionUnlessLeft
BY Invariance, PTL DEF IInv
\* Suppression never costs a message: of every text there are as many messages as sends of
\* it were acknowledged, whoever sent them and however their identities degrade.
THEOREM ReplayCoversAcks == Spec => []AcksAreCovered
<1>1. IInv /\ Absorbing => AcksAreCovered
    <2> SUFFICES ASSUME IInv, Absorbing, NEW t \in Texts PROVE AckedOf(t) <= CountOf(t, mail \ (dropped \ declared))
        BY DEF AcksAreCovered
    <2>1. Cardinality(SendsOf(t)) \in Nat /\ Cardinality(AbsorbersOf(t)) \in Nat /\ Cardinality(MailOf(t)) \in Nat
        BY Finite, FS_CardinalityType
    <2>2. Cardinality(SendsOf(t)) + Cardinality(AbsorbersOf(t)) <= Cardinality(MailOf(t))
        BY DEF Absorbing
    <2>3. AckedOf(t) = Cardinality(SendsOf(t)) /\ CountOf(t, mail \ (dropped \ declared)) = Cardinality(MailOf(t))
        BY DEF AckedOf, SendsOf, CountOf, MailOf, Pool
    <2> QED
        BY <2>1, <2>2, <2>3
<1> QED
    BY <1>1, AcksInvariance, PTL

\* Where the call sites are known, what is sent through a handle is accepted once, unless it
\* was dropped, and absorbed only by itself, in every re-execution of any workflow.
THEOREM ReplayHandlesOwn == KnownSites => (Spec => []HandleSendsAreTheirOwn)
<1>1. Waiting /\ Own => HandleSendsAreTheirOwn
    BY DEF Own
<1> QED
    BY <1>1, OwnInvariance, PTL
=============================================================================
