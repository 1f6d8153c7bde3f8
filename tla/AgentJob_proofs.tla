--------------------------- MODULE AgentJob_proofs ---------------------------
(***************************************************************************)
(* The mailbox of an agent for every set of adapters and every number of   *)
(* messages: none is lost or carried twice, the journal's records are      *)
(* true, and follow-up turns have the order of acceptance.                 *)
(***************************************************************************)
EXTENDS AgentJob, SequenceTheorems, TLAPS

Types ==
    /\ profile \in Profiles
    /\ mailed \in Nat /\ done \subseteq 1..mailed /\ dropped \subseteq 1..mailed
    /\ mailQueue \in Seq(Nat) /\ pendingDelivery \in Seq(Nat)
    /\ liveDelivered \in Seq(Nat) /\ sessionlessDelivered \in Seq(Nat)
    /\ {waiter, stdinOpen, session, cancelled, settled, retryable, outOfOrder} \subseteq BOOLEAN
    /\ pc \in Live \cup {"completed", "failed"}

\* What the lists hold at each point of the job's life.
Lists ==
    /\ pc # "turn" => pendingDelivery = <<>> /\ liveDelivered = <<>>
    /\ pc \in {"returned", "completed"} => mailQueue = <<>>
    /\ settled <=> pc \in {"returned", "completed", "failed"}
    /\ waiter => mailQueue = <<>> /\ pc = "turn" /\ profile.direct
    /\ dropped # {} => pc \in {"returned", "completed"}

Disjoint(s, t) == ToSet(s) \cap ToSet(t) = {}
Below(s, t) == \A x \in ToSet(s), y \in ToSet(t) : x < y

\* No message is twice in a list, or in two.
Apart ==
    /\ IsInjective(pendingDelivery) /\ IsInjective(liveDelivered)
    /\ IsInjective(mailQueue) /\ IsInjective(sessionlessDelivered)
    /\ Disjoint(pendingDelivery, liveDelivered) /\ Disjoint(pendingDelivery, mailQueue)
    /\ Disjoint(pendingDelivery, sessionlessDelivered) /\ Disjoint(liveDelivered, mailQueue)
    /\ Disjoint(liveDelivered, sessionlessDelivered) /\ Disjoint(mailQueue, sessionlessDelivered)

\* Every message is recorded or held.
Accounted ==
    /\ 1..mailed = done \cup dropped \cup (IF pc = "completed" THEN {} ELSE Held)
    /\ pc # "completed" => Held \cap (done \cup dropped) = {}

\* What a turn carries, what joined it, and what waits are in the order of acceptance.
InOrder ==
    ~outOfOrder =>
        /\ Ascending(pendingDelivery) /\ Ascending(liveDelivered) /\ Ascending(mailQueue)
        /\ Below(pendingDelivery, liveDelivered) /\ Below(pendingDelivery, mailQueue)
        /\ Below(liveDelivered, mailQueue)

IInv == Types /\ Lists /\ Apart /\ Accounted /\ InOrder /\ RecordsAreTrue
-----------------------------------------------------------------------------
(* Lists of messages *)

LEMMA Empty == ToSet(<<>>) = {} /\ IsInjective(<<>>) /\ Ascending(<<>>) /\ <<>> \in Seq(Nat)
BY DEF ToSet, IsInjective, Ascending

LEMMA One ==
    ASSUME NEW x \in Nat
    PROVE ToSet(<<x>>) = {x} /\ IsInjective(<<x>>) /\ Ascending(<<x>>) /\ <<x>> \in Seq(Nat)
<1>1. DOMAIN <<x>> = {1} /\ <<x>>[1] = x
    OBVIOUS
<1> QED
    BY <1>1 DEF ToSet, IsInjective, Ascending

\* Two lists, one after the other.
LEMMA Joined ==
    ASSUME NEW s \in Seq(Nat), NEW t \in Seq(Nat)
    PROVE /\ s \o t \in Seq(Nat)
          /\ ToSet(s \o t) = ToSet(s) \cup ToSet(t)
          /\ IsInjective(s \o t) <=> IsInjective(s) /\ IsInjective(t) /\ Disjoint(s, t)
          /\ Ascending(s \o t) <=> Ascending(s) /\ Ascending(t) /\ Below(s, t)
<1>1. /\ s \o t \in Seq(Nat) /\ DOMAIN s = 1..Len(s) /\ DOMAIN t = 1..Len(t)
      /\ Len(s) \in Nat /\ Len(t) \in Nat /\ DOMAIN (s \o t) = 1..(Len(s) + Len(t))
    OBVIOUS
<1>2. \A i \in DOMAIN s : i \in DOMAIN (s \o t) /\ (s \o t)[i] = s[i]
    BY <1>1
<1>3. \A j \in DOMAIN t : Len(s) + j \in DOMAIN (s \o t) /\ (s \o t)[Len(s) + j] = t[j]
    BY <1>1
<1>4. \A k \in DOMAIN (s \o t) : k \in DOMAIN s \/ (k - Len(s) \in DOMAIN t /\ k = Len(s) + (k - Len(s)))
    BY <1>1
<1>5. ToSet(s \o t) = ToSet(s) \cup ToSet(t)
    <2>1. ToSet(s) \cup ToSet(t) \subseteq ToSet(s \o t)
        BY <1>2, <1>3 DEF ToSet
    <2>2. ASSUME NEW k \in DOMAIN (s \o t) PROVE (s \o t)[k] \in ToSet(s) \cup ToSet(t)
        <3>1. CASE k \in DOMAIN s
            BY <1>2, <3>1 DEF ToSet
        <3>2. CASE k - Len(s) \in DOMAIN t /\ k = Len(s) + (k - Len(s))
            BY <1>3, <3>2 DEF ToSet
        <3> QED
            BY <1>4, <3>1, <3>2
    <2> QED
        BY <2>1, <2>2 DEF ToSet
<1>6. IsInjective(s \o t) <=> IsInjective(s) /\ IsInjective(t) /\ Disjoint(s, t)
    <2>1. ASSUME IsInjective(s \o t) PROVE IsInjective(s) /\ IsInjective(t) /\ Disjoint(s, t)
        <3>1. IsInjective(s)
            BY <1>2, <2>1 DEF IsInjective
        <3>2. IsInjective(t)
            <4> SUFFICES ASSUME NEW i \in DOMAIN t, NEW j \in DOMAIN t, t[i] = t[j] PROVE i = j
                BY DEF IsInjective
            <4>1. Len(s) + i = Len(s) + j
                BY <1>3, <2>1 DEF IsInjective
            <4> QED
                BY <1>1, <4>1
        <3>3. Disjoint(s, t)
            <4> SUFFICES ASSUME NEW i \in DOMAIN s, NEW j \in DOMAIN t, s[i] = t[j] PROVE FALSE
                BY DEF Disjoint, ToSet
            <4>1. i = Len(s) + j
                BY <1>2, <1>3, <2>1 DEF IsInjective
            <4> QED
                BY <1>1, <4>1
        <3> QED
            BY <3>1, <3>2, <3>3
    <2>2. ASSUME IsInjective(s), IsInjective(t), Disjoint(s, t),
                 NEW k \in DOMAIN (s \o t), NEW l \in DOMAIN (s \o t), (s \o t)[k] = (s \o t)[l]
          PROVE k = l
        <3>1. CASE k \in DOMAIN s /\ l \in DOMAIN s
            BY <1>2, <2>2, <3>1 DEF IsInjective
        <3>2. CASE k \notin DOMAIN s /\ l \notin DOMAIN s
            <4>1. k - Len(s) \in DOMAIN t /\ l - Len(s) \in DOMAIN t
                BY <1>4, <3>2
            <4>2. t[k - Len(s)] = t[l - Len(s)]
                BY <1>3, <1>4, <2>2, <3>2, <4>1
            <4>3. k - Len(s) = l - Len(s)
                BY <2>2, <4>1, <4>2 DEF IsInjective
            <4> QED
                BY <1>1, <4>3
        <3>3. ASSUME NEW i \in DOMAIN (s \o t), NEW j \in DOMAIN (s \o t), i \in DOMAIN s, j \notin DOMAIN s,
                     (s \o t)[i] = (s \o t)[j]
              PROVE FALSE
            <4>1. j - Len(s) \in DOMAIN t /\ (s \o t)[j] = t[j - Len(s)]
                BY <1>3, <1>4, <3>3
            <4> QED
                BY <1>2, <2>2, <3>3, <4>1 DEF Disjoint, ToSet
        <3> QED
            BY <2>2, <3>1, <3>2, <3>3
    <2> QED
        BY <2>1, <2>2 DEF IsInjective
<1>7. Ascending(s \o t) <=> Ascending(s) /\ Ascending(t) /\ Below(s, t)
    <2>1. ASSUME Ascending(s \o t) PROVE Ascending(s) /\ Ascending(t) /\ Below(s, t)
        <3>1. Ascending(s)
            BY <1>2, <2>1 DEF Ascending
        <3>2. Ascending(t)
            <4> SUFFICES ASSUME NEW i \in DOMAIN t, NEW j \in DOMAIN t, i < j PROVE t[i] < t[j]
                BY DEF Ascending
            <4>1. Len(s) + i < Len(s) + j
                BY <1>1
            <4> QED
                BY <1>3, <2>1, <4>1 DEF Ascending
        <3>3. Below(s, t)
            <4> SUFFICES ASSUME NEW i \in DOMAIN s, NEW j \in DOMAIN t PROVE s[i] < t[j]
                BY DEF Below, ToSet
            <4>1. i < Len(s) + j
                BY <1>1
            <4> QED
                BY <1>2, <1>3, <2>1, <4>1 DEF Ascending
        <3> QED
            BY <3>1, <3>2, <3>3
    <2>2. ASSUME Ascending(s), Ascending(t), Below(s, t),
                 NEW k \in DOMAIN (s \o t), NEW l \in DOMAIN (s \o t), k < l
          PROVE (s \o t)[k] < (s \o t)[l]
        <3>1. CASE l \in DOMAIN s
            <4>1. k \in DOMAIN s
                BY <1>1, <2>2, <3>1
            <4> QED
                BY <1>2, <2>2, <3>1, <4>1 DEF Ascending
        <3>2. CASE k \notin DOMAIN s /\ l \notin DOMAIN s
            <4>1. k - Len(s) \in DOMAIN t /\ l - Len(s) \in DOMAIN t /\ k - Len(s) < l - Len(s)
                BY <1>1, <1>4, <2>2, <3>2
            <4>2. (s \o t)[k] = t[k - Len(s)] /\ (s \o t)[l] = t[l - Len(s)]
                BY <1>3, <1>4, <3>2
            <4> QED
                BY <2>2, <4>1, <4>2 DEF Ascending
        <3>3. CASE k \in DOMAIN s /\ l \notin DOMAIN s
            <4>1. l - Len(s) \in DOMAIN t /\ (s \o t)[l] = t[l - Len(s)]
                BY <1>3, <1>4, <3>3
            <4> QED
                BY <1>2, <2>2, <3>3, <4>1 DEF Below, ToSet
        <3> QED
            BY <3>1, <3>2, <3>3
    <2> QED
        BY <2>1, <2>2 DEF Ascending
<1> QED
    BY <1>1, <1>5, <1>6, <1>7

\* A list is what its first k elements and the others make.
LEMMA Split ==
    ASSUME NEW s \in Seq(Nat), NEW k \in 0..Len(s)
    PROVE /\ SubSeq(s, 1, k) \in Seq(Nat) /\ SubSeq(s, k + 1, Len(s)) \in Seq(Nat)
          /\ s = SubSeq(s, 1, k) \o SubSeq(s, k + 1, Len(s))
<1>1. Len(s) \in Nat /\ k \in 1 - 1 .. Len(s) /\ Len(s) \in k .. Len(s) /\ 1 \in 1 .. Len(s) + 1
    OBVIOUS
<1>2. \A i \in 1 .. k : s[i] \in Nat
    BY <1>1
<1>3. \A i \in k + 1 .. Len(s) : s[i] \in Nat
    BY <1>1
<1>4. SubSeq(s, 1, k) \in Seq(Nat) /\ SubSeq(s, k + 1, Len(s)) \in Seq(Nat)
    BY <1>1, <1>2, <1>3, SubSeqProperties
<1>5. SubSeq(s, 1, k) \o SubSeq(s, k + 1, Len(s)) = SubSeq(s, 1, Len(s))
    BY <1>1, ConcatAdjacentSubSeq
<1> QED
    BY <1>4, <1>5, SubSeqFull

\* Taking an element out of a list.
LEMMA Removed ==
    ASSUME NEW s \in Seq(Nat), NEW i \in DOMAIN s
    PROVE \E a, b \in Seq(Nat) : s = a \o (<<s[i]>> \o b) /\ RemoveAt(s, i) = a \o b
<1> DEFINE a == SubSeq(s, 1, i - 1)
           b == SubSeq(s, i + 1, Len(s))
<1>1. Len(s) \in Nat /\ i \in 1 .. Len(s) /\ i - 1 \in 0 .. Len(s) /\ (i - 1) + 1 = i
      /\ Len(s) \in i .. Len(s)
    OBVIOUS
<1>2. a \in Seq(Nat) /\ s = a \o SubSeq(s, i, Len(s))
    BY <1>1, Split
<1>3. b \in Seq(Nat)
    BY <1>1, Split
<1>4. SubSeq(s, i, Len(s)) = <<s[i]>> \o b
    BY <1>1, SubSeqRecursiveFirst
<1> QED
    BY <1>2, <1>3, <1>4 DEF RemoveAt

LEMMA HeadAndTail ==
    ASSUME NEW s \in Seq(Nat), s # <<>>
    PROVE Head(s) \in Nat /\ Tail(s) \in Seq(Nat) /\ s = <<Head(s)>> \o Tail(s)
OBVIOUS

LEMMA Added == ASSUME NEW s \in Seq(Nat), NEW x \in Nat PROVE Append(s, x) = s \o <<x>>
OBVIOUS

\* A message that is in no list, at the end of one.
LEMMA Appended ==
    ASSUME NEW s \in Seq(Nat), NEW x \in Nat, x \notin ToSet(s)
    PROVE /\ Append(s, x) \in Seq(Nat) /\ ToSet(Append(s, x)) = ToSet(s) \cup {x}
          /\ IsInjective(s) => IsInjective(Append(s, x))
          /\ Ascending(s) /\ (\A y \in ToSet(s) : y < x) => Ascending(Append(s, x))
<1>1. ToSet(<<x>>) = {x} /\ IsInjective(<<x>>) /\ Ascending(<<x>>) /\ <<x>> \in Seq(Nat)
    BY One
<1>2. /\ s \o <<x>> \in Seq(Nat)
      /\ ToSet(s \o <<x>>) = ToSet(s) \cup ToSet(<<x>>)
      /\ IsInjective(s \o <<x>>) <=> IsInjective(s) /\ IsInjective(<<x>>) /\ Disjoint(s, <<x>>)
      /\ Ascending(s \o <<x>>) <=> Ascending(s) /\ Ascending(<<x>>) /\ Below(s, <<x>>)
    BY <1>1, Joined
<1>3. Disjoint(s, <<x>>) /\ (Below(s, <<x>>) <=> \A y \in ToSet(s) : y < x)
    BY <1>1 DEF Disjoint, Below
<1>4. Append(s, x) = s \o <<x>>
    BY Added
<1> QED
    BY <1>1, <1>2, <1>3, <1>4

\* The head of a list, taken from it.
LEMMA Taken ==
    ASSUME NEW s \in Seq(Nat), s # <<>>
    PROVE /\ Head(s) \in Nat /\ Tail(s) \in Seq(Nat)
          /\ ToSet(s) = {Head(s)} \cup ToSet(Tail(s))
          /\ IsInjective(s) => IsInjective(Tail(s)) /\ Head(s) \notin ToSet(Tail(s))
          /\ Ascending(s) => Ascending(Tail(s)) /\ \A y \in ToSet(Tail(s)) : Head(s) < y
<1>1. Head(s) \in Nat /\ Tail(s) \in Seq(Nat) /\ s = <<Head(s)>> \o Tail(s)
    BY HeadAndTail
<1> DEFINE h == Head(s)
           r == Tail(s)
<1>2. ToSet(<<h>>) = {h} /\ <<h>> \in Seq(Nat)
    BY <1>1, One
<1>3. /\ ToSet(<<h>> \o r) = ToSet(<<h>>) \cup ToSet(r)
      /\ IsInjective(<<h>> \o r) <=> IsInjective(<<h>>) /\ IsInjective(r) /\ Disjoint(<<h>>, r)
      /\ Ascending(<<h>> \o r) <=> Ascending(<<h>>) /\ Ascending(r) /\ Below(<<h>>, r)
    BY <1>1, <1>2, Joined
<1>4. Disjoint(<<h>>, r) => h \notin ToSet(r)
    BY <1>2 DEF Disjoint
<1>5. Below(<<h>>, r) => \A y \in ToSet(r) : h < y
    BY <1>2 DEF Below
<1> QED
    BY <1>1, <1>2, <1>3, <1>4, <1>5
-----------------------------------------------------------------------------
(* The invariant *)

LEMMA Restored ==
    ASSUME NEW n \in Nat
    PROVE LET q == [i \in 1..n |-> i] IN
          q \in Seq(Nat) /\ ToSet(q) = 1..n /\ IsInjective(q) /\ Ascending(q)
<1> DEFINE q == [i \in 1..n |-> i]
<1>1. q \in Seq(Nat) /\ DOMAIN q = 1..n /\ \A i \in 1..n : q[i] = i
    OBVIOUS
<1> HIDE DEF q
<1>2. ToSet(q) = 1..n /\ IsInjective(q) /\ Ascending(q)
    BY <1>1 DEF ToSet, IsInjective, Ascending
<1> QED
    BY <1>1, <1>2 DEF q

LEMMA InitInv == Init => IInv
<1> SUFFICES ASSUME Init PROVE IInv
    OBVIOUS
<1>1. restored \in Nat
    BY BoundsAssumption DEF Init
<1>2. mailQueue \in Seq(Nat) /\ ToSet(mailQueue) = 1..restored /\ IsInjective(mailQueue) /\ Ascending(mailQueue)
    BY <1>1, Restored DEF Init
<1>3. Types
    BY <1>1, <1>2, Empty, ProfilesAssumption DEF Init, Types, Live
<1>4. Lists
    BY DEF Init, Lists
<1>5. Apart
    BY <1>2, Empty DEF Init, Apart, Disjoint
<1>6. Accounted
    BY <1>2, Empty DEF Init, Accounted, Held
<1>7. InOrder
    BY <1>2, Empty DEF Init, InOrder, Below
<1> QED
    BY <1>3, <1>4, <1>5, <1>6, <1>7 DEF IInv, RecordsAreTrue, Init

\* A message that is accepted is in exactly one list.
LEMMA SendStep == IInv /\ Send => IInv'
<1> SUFFICES ASSUME IInv, Send PROVE IInv'
    OBVIOUS
<1> DEFINE m == mailed + 1
<1> USE DEF IInv
<1>1. /\ mailed' = m /\ Place(m) /\ ~settled
      /\ UNCHANGED <<profile, done, dropped, pendingDelivery, sessionlessDelivered, stdinOpen,
                     session, cancelled, settled, retryable, pc>>
    BY DEF Send, fixed, control
<1>2. m \in Nat /\ 1..m = (1..mailed) \cup {m} /\ \A x \in 1..mailed : x < m
    BY DEF Types
<1>3. pc # "completed" /\ pc # "returned"
    BY <1>1 DEF Lists
<1>4. Held \subseteq 1..mailed /\ m \notin Held /\ m \notin done \cup dropped
    BY <1>2, <1>3 DEF Accounted, Types
<1>5. RecordsAreTrue'
    BY <1>1 DEF RecordsAreTrue
<1> HIDE DEF m
<1>6. CASE UNCHANGED mailQueue /\ liveDelivered' = Append(liveDelivered, m) /\ pc = "turn"
           /\ outOfOrder' \in BOOLEAN /\ waiter' \in BOOLEAN /\ (waiter' => waiter)
           /\ (~outOfOrder' => ~outOfOrder /\ mailQueue = <<>>)
    <2>1. /\ liveDelivered' \in Seq(Nat) /\ ToSet(liveDelivered') = ToSet(liveDelivered) \cup {m}
          /\ IsInjective(liveDelivered')
          /\ Ascending(liveDelivered) => Ascending(liveDelivered')
        BY <1>2, <1>4, <1>6, Appended DEF Types, Apart, Held
    <2>2. Types'
        BY <1>1, <1>2, <1>6, <2>1 DEF Types
    <2>3. Lists'
        BY <1>1, <1>6 DEF Lists
    <2>4. Apart'
        BY <1>1, <1>4, <1>6, <2>1 DEF Apart, Disjoint, Held
    <2>5. Accounted'
        BY <1>1, <1>2, <1>3, <1>4, <1>6, <2>1 DEF Accounted, Held
    <2>6. InOrder'
        BY <1>1, <1>2, <1>4, <1>6, <2>1, Empty DEF InOrder, Below, Held
    <2> QED
        BY <1>5, <2>2, <2>3, <2>4, <2>5, <2>6
<1>7. CASE UNCHANGED <<liveDelivered, waiter>> /\ ~waiter /\ mailQueue' = Append(mailQueue, m)
           /\ outOfOrder' \in BOOLEAN /\ (~outOfOrder' => ~outOfOrder)
    <2>1. /\ mailQueue' \in Seq(Nat) /\ ToSet(mailQueue') = ToSet(mailQueue) \cup {m}
          /\ IsInjective(mailQueue')
          /\ Ascending(mailQueue) => Ascending(mailQueue')
        BY <1>2, <1>4, <1>7, Appended DEF Types, Apart, Held
    <2>2. Types'
        BY <1>1, <1>2, <1>7, <2>1 DEF Types
    <2>3. Lists'
        BY <1>1, <1>3, <1>7 DEF Lists
    <2>4. Apart'
        BY <1>1, <1>4, <1>7, <2>1 DEF Apart, Disjoint, Held
    <2>5. Accounted'
        BY <1>1, <1>2, <1>3, <1>4, <1>7, <2>1 DEF Accounted, Held
    <2>6. InOrder'
        BY <1>1, <1>2, <1>4, <1>7, <2>1 DEF InOrder, Below, Held
    <2> QED
        BY <1>5, <2>2, <2>3, <2>4, <2>5, <2>6
<1>8. waiter \in BOOLEAN /\ stdinOpen \in BOOLEAN /\ outOfOrder \in BOOLEAN
      /\ (waiter => mailQueue = <<>> /\ pc = "turn")
    BY DEF Types, Lists
<1>9. CASE pc = "turn" /\ stdinOpen /\ liveDelivered' = Append(liveDelivered, m)
           /\ outOfOrder' = (outOfOrder \/ mailQueue # <<>>) /\ UNCHANGED <<mailQueue, waiter>>
    <2>1. outOfOrder' \in BOOLEAN /\ (~outOfOrder' => ~outOfOrder /\ mailQueue = <<>>)
        BY <1>9
    <2> QED
        BY <1>6, <1>8, <1>9, <2>1
<1>10. CASE waiter /\ liveDelivered' = Append(liveDelivered, m) /\ waiter' = FALSE
            /\ UNCHANGED <<mailQueue, outOfOrder>>
    BY <1>6, <1>8, <1>10
<1>11. CASE ~waiter /\ mailQueue' = Append(mailQueue, m) /\ outOfOrder' = (outOfOrder \/ stdinOpen)
            /\ UNCHANGED <<liveDelivered, waiter>>
    <2>1. outOfOrder' \in BOOLEAN /\ (~outOfOrder' => ~outOfOrder)
        BY <1>8, <1>11
    <2> QED
        BY <1>7, <1>11, <2>1
<1> QED
    BY <1>1, <1>9, <1>10, <1>11 DEF Place

\* A step that leaves lists and records alone, and keeps the order.
LEMMA ListsKept ==
    ASSUME IInv, Types', Lists', UNCHANGED <<holders, records, outOfOrder>>,
           pc = "completed" <=> pc' = "completed",
           session => session', cancelled => cancelled',
           dropped # {} => UNCHANGED session
    PROVE IInv'
<1> USE DEF IInv, holders, records
<1>1. Apart'
    BY DEF Apart, Disjoint
<1>2. Accounted'
    BY DEF Accounted, Held
<1>3. InOrder'
    BY DEF InOrder, Below
<1>4. RecordsAreTrue'
    BY DEF RecordsAreTrue
<1> QED
    BY <1>1, <1>2, <1>3, <1>4

LEMMA QuietStep ==
    IInv /\ (StdinCloses \/ Cancel \/ SessionEvent \/ SchemaInvalid \/ Fail) => IInv'
<1> SUFFICES ASSUME IInv, StdinCloses \/ Cancel \/ SessionEvent \/ SchemaInvalid \/ Fail PROVE IInv'
    OBVIOUS
<1> USE DEF IInv, Live, fixed, records, holders, control, turnIO
<1>1. CASE StdinCloses
    <2>1. Types'
        BY <1>1 DEF StdinCloses, Types
    <2>2. Lists'
        BY <1>1 DEF StdinCloses, Lists
    <2> QED
        BY <1>1, <2>1, <2>2, ListsKept DEF StdinCloses
<1>2. CASE Cancel
    <2>1. Types'
        BY <1>2 DEF Cancel, ReleaseWaiters, Types
    <2>2. Lists'
        BY <1>2 DEF Cancel, ReleaseWaiters, Lists
    <2> QED
        BY <1>2, <2>1, <2>2, ListsKept DEF Cancel
<1>3. CASE SessionEvent
    <2>1. Types'
        BY <1>3 DEF SessionEvent, Types
    <2>2. Lists' /\ dropped = {}
        BY <1>3 DEF SessionEvent, Lists
    <2> QED
        BY <1>3, <2>1, <2>2, ListsKept DEF SessionEvent
<1>4. CASE SchemaInvalid
    <2>1. Types'
        BY <1>4 DEF SchemaInvalid, Types
    <2>2. Lists'
        BY <1>4 DEF SchemaInvalid, Lists
    <2> QED
        BY <1>4, <2>1, <2>2, ListsKept DEF SchemaInvalid
<1>5. CASE Fail
    <2>1. Types'
        BY <1>5 DEF Fail, Types
    <2>2. Lists'
        BY <1>5 DEF Fail, Lists
    <2> QED
        BY <1>5, <2>1, <2>2, ListsKept DEF Fail
<1> QED
    BY <1>1, <1>2, <1>3, <1>4, <1>5

\* A turn begins with nothing live, as the one before has left it.
LEMMA BeginStep == IInv /\ (Execute \/ SchemaRetry \/ Retry) => IInv'
<1> SUFFICES ASSUME IInv, Execute \/ SchemaRetry \/ Retry PROVE IInv'
    OBVIOUS
<1> USE DEF IInv, Live, fixed, records, BeginTurn
<1>1. /\ pc \in {"new", "resolved", "thrown"} /\ pc' = "turn"
      /\ liveDelivered' = <<>> /\ stdinOpen' = profile.keepOpen
      /\ UNCHANGED <<fixed, records, mailQueue, pendingDelivery, sessionlessDelivered, waiter, session,
                     outOfOrder, cancelled, settled, retryable>>
    BY DEF Execute, SchemaRetry, Retry
<1>2. liveDelivered = <<>>
    BY <1>1 DEF Lists
<1>3. Types'
    BY <1>1, Empty, ProfilesAssumption DEF Types, Profile
<1>4. Lists'
    BY <1>1 DEF Lists
<1> QED
    BY <1>1, <1>2, <1>3, <1>4, ListsKept DEF holders

\* A direct adapter takes the head of the queue, or parks.
LEMMA WaitStep == IInv /\ WaitMail => IInv'
<1> SUFFICES ASSUME IInv, WaitMail PROVE IInv'
    OBVIOUS
<1> USE DEF IInv
<1>1. /\ pc = "turn" /\ profile.direct
      /\ UNCHANGED <<fixed, records, control, pendingDelivery, sessionlessDelivered, stdinOpen, session, outOfOrder>>
    BY DEF WaitMail
<1>2. CASE UNCHANGED <<mailQueue, liveDelivered>> /\ mailQueue = <<>> /\ waiter' = TRUE
    <2>1. Types'
        BY <1>1, <1>2 DEF Types, fixed, records, control
    <2>2. Lists'
        BY <1>1, <1>2 DEF Lists, fixed, records, control
    <2> QED
        BY <1>1, <1>2, <2>1, <2>2, ListsKept DEF holders, control
<1>3. CASE mailQueue # <<>> /\ liveDelivered' = Append(liveDelivered, Head(mailQueue))
           /\ mailQueue' = Tail(mailQueue) /\ UNCHANGED waiter
    <2> DEFINE h == Head(mailQueue)
    <2>1. /\ h \in Nat /\ mailQueue' \in Seq(Nat)
          /\ ToSet(mailQueue) = {h} \cup ToSet(mailQueue')
          /\ IsInjective(mailQueue') /\ h \notin ToSet(mailQueue')
          /\ Ascending(mailQueue) => Ascending(mailQueue') /\ \A y \in ToSet(mailQueue') : h < y
        BY <1>3, Taken DEF Types, Apart
    <2>2. h \notin ToSet(liveDelivered)
        BY <2>1 DEF Apart, Disjoint
    <2>3. /\ liveDelivered' \in Seq(Nat) /\ ToSet(liveDelivered') = ToSet(liveDelivered) \cup {h}
          /\ IsInjective(liveDelivered')
          /\ Ascending(liveDelivered) /\ (\A y \in ToSet(liveDelivered) : y < h) => Ascending(liveDelivered')
        BY <1>3, <2>1, <2>2, Appended DEF Types, Apart
    <2> HIDE DEF h
    <2>4. Types'
        BY <1>1, <1>3, <2>1, <2>3 DEF Types, fixed, records, control
    <2>5. Lists'
        BY <1>1, <1>3 DEF Lists, records, control
    <2>6. Apart'
        BY <1>1, <2>1, <2>3 DEF Apart, Disjoint
    <2>7. Held' = Held
        BY <1>1, <2>1, <2>3 DEF Held
    <2>8. Accounted'
        BY <1>1, <2>7 DEF Accounted, records, control
    <2>9. InOrder'
        BY <1>1, <2>1, <2>3 DEF InOrder, Below
    <2> QED
        BY <1>1, <2>4, <2>5, <2>6, <2>8, <2>9 DEF RecordsAreTrue, records, control
<1> QED
    BY <1>2, <1>3 DEF WaitMail

\* A live write that fails puts its message at the front of the queue.
LEMMA WriteFailsStep == IInv /\ WriteFails => IInv'
<1> SUFFICES ASSUME IInv, WriteFails PROVE IInv'
    OBVIOUS
<1> USE DEF IInv
<1>1. PICK i \in DOMAIN liveDelivered :
          /\ liveDelivered' = RemoveAt(liveDelivered, i)
          /\ mailQueue' = <<liveDelivered[i]>> \o mailQueue
    BY DEF WriteFails, Undone
<1>2. /\ pc = "turn" /\ profile.keepOpen /\ outOfOrder' = TRUE
      /\ UNCHANGED <<fixed, records, control, pendingDelivery, sessionlessDelivered, waiter, stdinOpen, session>>
    BY DEF WriteFails
<1> DEFINE m == liveDelivered[i]
<1>3. PICK a \in Seq(Nat), b \in Seq(Nat) :
          liveDelivered = a \o (<<m>> \o b) /\ liveDelivered' = a \o b
    BY <1>1, Removed DEF Types
<1>4. m \in Nat
    BY DEF Types
<1> HIDE DEF m
<1>5. ToSet(<<m>>) = {m} /\ <<m>> \in Seq(Nat) /\ IsInjective(<<m>>)
    BY <1>4, One
<1>6. /\ <<m>> \o b \in Seq(Nat) /\ ToSet(<<m>> \o b) = {m} \cup ToSet(b)
      /\ IsInjective(<<m>> \o b) => IsInjective(b) /\ m \notin ToSet(b)
    BY <1>5, Joined DEF Disjoint
<1>7. /\ ToSet(liveDelivered) = ToSet(a) \cup {m} \cup ToSet(b)
      /\ IsInjective(a) /\ IsInjective(b) /\ m \notin ToSet(b)
      /\ m \notin ToSet(a) /\ ToSet(a) \cap ToSet(b) = {}
    BY <1>3, <1>6, Joined DEF Apart, Disjoint
<1>8. /\ liveDelivered' \in Seq(Nat) /\ ToSet(liveDelivered') = ToSet(liveDelivered) \ {m}
      /\ IsInjective(liveDelivered') /\ m \in ToSet(liveDelivered)
    <2>1. /\ a \o b \in Seq(Nat) /\ ToSet(a \o b) = ToSet(a) \cup ToSet(b)
          /\ IsInjective(a \o b) <=> IsInjective(a) /\ IsInjective(b) /\ Disjoint(a, b)
        BY Joined
    <2>2. Disjoint(a, b)
        BY <1>7 DEF Disjoint
    <2>3. IsInjective(liveDelivered')
        BY <1>3, <1>7, <2>1, <2>2
    <2>4. ToSet(liveDelivered') = ToSet(a) \cup ToSet(b)
        BY <1>3, <2>1
    <2>5. ToSet(liveDelivered') = ToSet(liveDelivered) \ {m} /\ m \in ToSet(liveDelivered)
        BY <1>7, <2>4
    <2> QED
        BY <1>3, <2>1, <2>3, <2>5
<1>9. m \notin ToSet(mailQueue)
    BY <1>8 DEF Apart, Disjoint
<1>10. /\ mailQueue' \in Seq(Nat) /\ ToSet(mailQueue') = {m} \cup ToSet(mailQueue)
       /\ IsInjective(mailQueue')
    <2>1. mailQueue \in Seq(Nat) /\ IsInjective(mailQueue)
        BY DEF Types, Apart
    <2>2. /\ <<m>> \o mailQueue \in Seq(Nat) /\ ToSet(<<m>> \o mailQueue) = ToSet(<<m>>) \cup ToSet(mailQueue)
          /\ IsInjective(<<m>> \o mailQueue)
                <=> IsInjective(<<m>>) /\ IsInjective(mailQueue) /\ Disjoint(<<m>>, mailQueue)
        BY <1>5, <2>1, Joined
    <2>3. Disjoint(<<m>>, mailQueue)
        BY <1>5, <1>9 DEF Disjoint
    <2>4. mailQueue' = <<m>> \o mailQueue
        BY <1>1 DEF m
    <2>5. IsInjective(mailQueue')
        BY <1>5, <2>1, <2>2, <2>3, <2>4
    <2>6. ToSet(mailQueue') = {m} \cup ToSet(mailQueue)
        BY <1>5, <2>2, <2>4
    <2> QED
        BY <2>2, <2>4, <2>5, <2>6
<1>11. ~waiter
    BY <1>2, ProfilesAssumption DEF Types, Lists
<1>12. Types'
    BY <1>2, <1>8, <1>10 DEF Types, fixed, records, control
<1>13. Lists'
    BY <1>2, <1>11 DEF Lists, records, control
<1>14. Apart'
    BY <1>2, <1>8, <1>10 DEF Apart, Disjoint
<1>15. Held' = Held
    BY <1>2, <1>8, <1>10 DEF Held
<1>16. Accounted'
    BY <1>2, <1>15 DEF Accounted, records, control
<1>17. InOrder' /\ RecordsAreTrue'
    BY <1>2 DEF InOrder, RecordsAreTrue, records, control
<1> QED
    BY <1>12, <1>13, <1>14, <1>16, <1>17

\* The end of a turn: what it carried and what joined it is recorded, stashed, or
\* handed back, and the rest waits.
LEMMA FulfilsStep == IInv /\ TurnFulfils => IInv'
<1> SUFFICES ASSUME IInv, TurnFulfils PROVE IInv'
    OBVIOUS
<1> USE DEF IInv
<1>1. PICK k \in 0..Len(liveDelivered) :
          LET answered == Len(liveDelivered) - k IN
          /\ RecordDelivery(pendingDelivery \o SubSeq(liveDelivered, 1, answered))
          /\ mailQueue' = SubSeq(liveDelivered, answered + 1, Len(liveDelivered)) \o mailQueue
    BY DEF TurnFulfils
<1>2. /\ pc = "turn" /\ pc' = "resolved" /\ ~waiter /\ pendingDelivery' = <<>> /\ liveDelivered' = <<>>
      /\ stdinOpen' = FALSE
      /\ UNCHANGED <<fixed, mailed, dropped, waiter, session, outOfOrder, cancelled, settled, retryable>>
    BY DEF TurnFulfils
<1> DEFINE n == Len(liveDelivered) - k
           a == SubSeq(liveDelivered, 1, n)
           b == SubSeq(liveDelivered, n + 1, Len(liveDelivered))
           delivered == pendingDelivery \o a
<1>3. a \in Seq(Nat) /\ b \in Seq(Nat) /\ liveDelivered = a \o b
    <2>1. n \in 0..Len(liveDelivered)
        BY DEF Types
    <2> HIDE DEF n
    <2> QED
        BY <2>1, Split DEF Types
<1>4. RecordDelivery(delivered) /\ mailQueue' = b \o mailQueue
    BY <1>1
<1> HIDE DEF n, a, b
<1>5. /\ ToSet(liveDelivered) = ToSet(a) \cup ToSet(b)
      /\ IsInjective(a) /\ IsInjective(b) /\ ToSet(a) \cap ToSet(b) = {}
      /\ Ascending(liveDelivered) => Ascending(b)
    BY <1>3, Joined DEF Apart, Disjoint
<1>6. /\ delivered \in Seq(Nat) /\ ToSet(delivered) = ToSet(pendingDelivery) \cup ToSet(a)
      /\ IsInjective(delivered)
    BY <1>3, <1>5, Joined DEF Types, Apart, Disjoint
<1>7. /\ mailQueue' \in Seq(Nat) /\ ToSet(mailQueue') = ToSet(b) \cup ToSet(mailQueue)
      /\ IsInjective(mailQueue')
      /\ Ascending(b) /\ Ascending(mailQueue) /\ Below(b, mailQueue) => Ascending(mailQueue')
    BY <1>3, <1>4, <1>5, Joined DEF Types, Apart, Disjoint
<1> HIDE DEF delivered
<1>8. Lists'
    BY <1>2 DEF Lists
<1>9. InOrder'
    <2>1. Below(liveDelivered, mailQueue) => Below(b, mailQueue)
        BY <1>5 DEF Below
    <2> QED
        BY <1>2, <1>5, <1>7, <2>1, Empty DEF InOrder, Below
<1>10. Held \subseteq 1..mailed /\ Held \cap (done \cup dropped) = {} /\ 1..mailed = done \cup dropped \cup Held
    BY <1>2 DEF Accounted
<1>11. ToSet(delivered) \subseteq Held
    BY <1>5, <1>6 DEF Held
<1>12. CASE session
    <2>1. done' = done \cup ToSet(delivered) /\ UNCHANGED sessionlessDelivered
        BY <1>4, <1>12 DEF RecordDelivery
    <2>2. Types'
        BY <1>2, <1>7, <1>10, <1>11, <2>1, Empty DEF Types, fixed, Live
    <2>3. Apart'
        BY <1>2, <1>5, <1>6, <1>7, <2>1, Empty DEF Apart, Disjoint
    <2>4. Held = Held' \cup ToSet(delivered) /\ Held' \cap ToSet(delivered) = {}
        BY <1>2, <1>5, <1>6, <1>7, <2>1, Empty DEF Held, Apart, Disjoint
    <2>5. Accounted'
        BY <1>2, <1>10, <2>1, <2>4 DEF Accounted
    <2>6. RecordsAreTrue'
        BY <1>2, <1>12, <2>1 DEF RecordsAreTrue
    <2> QED
        BY <1>8, <1>9, <2>2, <2>3, <2>5, <2>6
<1>13. CASE ~session
    <2>1. sessionlessDelivered' = sessionlessDelivered \o delivered /\ UNCHANGED done
        BY <1>4, <1>13 DEF RecordDelivery
    <2>2. ToSet(delivered) \cap ToSet(sessionlessDelivered) = {}
        BY <1>5, <1>6 DEF Apart, Disjoint
    <2>3. /\ sessionlessDelivered' \in Seq(Nat)
          /\ ToSet(sessionlessDelivered') = ToSet(sessionlessDelivered) \cup ToSet(delivered)
          /\ IsInjective(sessionlessDelivered')
        BY <1>6, <2>1, <2>2, Joined DEF Types, Apart, Disjoint
    <2>4. Types'
        BY <1>2, <1>7, <2>1, <2>3, Empty DEF Types, fixed, Live
    <2>5. Apart'
        BY <1>2, <1>5, <1>6, <1>7, <2>3, Empty DEF Apart, Disjoint
    <2>6. Held = Held'
        BY <1>2, <1>5, <1>6, <1>7, <2>3, Empty DEF Held
    <2>7. Accounted'
        BY <1>2, <1>10, <2>1, <2>6 DEF Accounted
    <2>8. RecordsAreTrue'
        BY <1>2, <2>1 DEF RecordsAreTrue
    <2> QED
        BY <1>8, <1>9, <2>4, <2>5, <2>7, <2>8
<1> QED
    BY <1>12, <1>13 DEF Types

LEMMA RejectsStep == IInv /\ TurnRejects => IInv'
<1> SUFFICES ASSUME IInv, TurnRejects PROVE IInv'
    OBVIOUS
<1> USE DEF IInv
<1>1. /\ pc = "turn" /\ pc' = "thrown" /\ ~waiter /\ pendingDelivery' = <<>> /\ liveDelivered' = <<>>
      /\ stdinOpen' = FALSE /\ retryable' \in BOOLEAN
      /\ mailQueue' = pendingDelivery \o liveDelivered \o mailQueue
      /\ UNCHANGED <<fixed, records, sessionlessDelivered, waiter, session, outOfOrder, cancelled, settled>>
    BY DEF TurnRejects, Requeued
<1>2. /\ pendingDelivery \o liveDelivered \in Seq(Nat)
      /\ ToSet(pendingDelivery \o liveDelivered) = ToSet(pendingDelivery) \cup ToSet(liveDelivered)
      /\ IsInjective(pendingDelivery \o liveDelivered)
      /\ ~outOfOrder => Ascending(pendingDelivery \o liveDelivered)
    BY Joined DEF Types, Apart, Disjoint, InOrder
<1>3. Disjoint(pendingDelivery \o liveDelivered, mailQueue)
    BY <1>2 DEF Apart, Disjoint
<1>4. ~outOfOrder => Below(pendingDelivery \o liveDelivered, mailQueue)
    BY <1>2 DEF InOrder, Below
<1>5. /\ mailQueue' \in Seq(Nat)
      /\ ToSet(mailQueue') = ToSet(pendingDelivery) \cup ToSet(liveDelivered) \cup ToSet(mailQueue)
      /\ IsInjective(mailQueue')
      /\ ~outOfOrder => Ascending(mailQueue')
    BY <1>1, <1>2, <1>3, <1>4, Joined DEF Types, Apart, InOrder
<1>6. Types'
    BY <1>1, <1>5, Empty DEF Types, fixed, records, Live
<1>7. Lists'
    BY <1>1 DEF Lists, records
<1>8. Apart'
    BY <1>1, <1>5, Empty DEF Apart, Disjoint
<1>9. Held' = Held
    BY <1>1, <1>5, Empty DEF Held
<1>10. Accounted'
    BY <1>1, <1>9 DEF Accounted, records
<1>11. InOrder'
    BY <1>1, <1>5, Empty DEF InOrder, Below
<1>12. RecordsAreTrue'
    BY <1>1 DEF RecordsAreTrue, records
<1> QED
    BY <1>6, <1>7, <1>8, <1>10, <1>11, <1>12

\* The queue rides a follow-up turn.
LEMMA FollowUpStep == IInv /\ FollowUp => IInv'
<1> SUFFICES ASSUME IInv, FollowUp PROVE IInv'
    OBVIOUS
<1> USE DEF IInv
<1>1. /\ pc = "resolved" /\ pc' = "turn" /\ pendingDelivery' = mailQueue /\ mailQueue' = <<>>
      /\ liveDelivered' = <<>> /\ stdinOpen' = profile.keepOpen
      /\ UNCHANGED <<fixed, records, sessionlessDelivered, waiter, session, outOfOrder, cancelled, settled, retryable>>
    BY DEF FollowUp, BeginTurn
<1>2. pendingDelivery = <<>> /\ liveDelivered = <<>>
    BY <1>1 DEF Lists
<1>3. Types'
    BY <1>1, Empty, ProfilesAssumption DEF Types, Profile, fixed, records, Live
<1>4. Lists'
    BY <1>1 DEF Lists, fixed, records
<1>5. Apart'
    BY <1>1, <1>2, Empty DEF Apart, Disjoint
<1>6. Held' = Held
    BY <1>1, <1>2, Empty DEF Held
<1>7. Accounted'
    BY <1>1, <1>6 DEF Accounted, records
<1>8. InOrder'
    BY <1>1, Empty DEF InOrder, Below
<1>9. RecordsAreTrue'
    BY <1>1 DEF RecordsAreTrue, records
<1> QED
    BY <1>3, <1>4, <1>5, <1>7, <1>8, <1>9

\* execute() returns: what waits could not be carried and is dropped.
LEMMA ReturnStep == IInv /\ Return => IInv'
<1> SUFFICES ASSUME IInv, Return PROVE IInv'
    OBVIOUS
<1> USE DEF IInv
<1>1. /\ pc = "resolved" /\ pc' = "returned" /\ mailQueue' = <<>> /\ settled' = TRUE
      /\ dropped' = dropped \cup ToSet(mailQueue)
      /\ UNCHANGED <<fixed, mailed, done, pendingDelivery, liveDelivered, sessionlessDelivered, turnIO,
                     cancelled, retryable>>
      /\ mailQueue = <<>> \/ ~session \/ cancelled
    BY DEF Return, StopAccepting, OwesFollowUp, CanFollowUp
<1>2. pendingDelivery = <<>> /\ liveDelivered = <<>> /\ dropped = {}
    BY <1>1 DEF Lists
<1>3. Types'
    BY <1>1, Empty DEF Types, Accounted, Held, fixed, turnIO, Live
<1>4. Lists'
    BY <1>1 DEF Lists, fixed, turnIO
<1>5. Apart'
    BY <1>1, Empty DEF Apart, Disjoint
<1>6. Held = Held' \cup ToSet(mailQueue) /\ Held' \cap ToSet(mailQueue) = {}
    BY <1>1, <1>2, Empty DEF Held, Apart, Disjoint
<1>7. Accounted'
    BY <1>1, <1>6 DEF Accounted
<1>8. InOrder'
    BY <1>1, Empty DEF InOrder, Below, turnIO
<1>9. RecordsAreTrue'
    BY <1>1, <1>2, Empty DEF RecordsAreTrue, turnIO
<1> QED
    BY <1>3, <1>4, <1>5, <1>7, <1>8, <1>9

LEMMA SealStep == IInv /\ Seal => IInv'
<1> SUFFICES ASSUME IInv, Seal PROVE IInv'
    OBVIOUS
<1> USE DEF IInv
<1>1. /\ pc = "returned" /\ pc' = "completed" /\ done' = done \cup ToSet(sessionlessDelivered)
      /\ UNCHANGED <<fixed, holders, mailed, dropped, turnIO, cancelled, settled, retryable>>
    BY DEF Seal
<1>2. pendingDelivery = <<>> /\ liveDelivered = <<>> /\ mailQueue = <<>>
    BY <1>1 DEF Lists
<1>3. Held = ToSet(sessionlessDelivered)
    BY <1>2, Empty DEF Held
<1>4. Types'
    BY <1>1, <1>3 DEF Types, Accounted, fixed, holders, turnIO, Live
<1>5. Lists'
    BY <1>1 DEF Lists, fixed, holders, turnIO
<1>6. Apart' /\ InOrder'
    BY <1>1 DEF Apart, Disjoint, InOrder, Below, holders, turnIO
<1>7. Accounted'
    BY <1>1, <1>3 DEF Accounted
<1>8. RecordsAreTrue'
    BY <1>1 DEF RecordsAreTrue, turnIO
<1> QED
    BY <1>4, <1>5, <1>6, <1>7, <1>8

LEMMA Invariance == Spec => []IInv
<1>1. IInv /\ [Next]_vars => IInv'
    <2>1. IInv /\ UNCHANGED vars => IInv'
        <3> SUFFICES ASSUME IInv, UNCHANGED vars PROVE IInv'
            OBVIOUS
        <3>1. Types' /\ Lists'
            BY DEF vars, fixed, holders, records, control, turnIO, IInv, Types, Lists
        <3> QED
            BY <3>1, ListsKept DEF vars, fixed, records, control, turnIO
    <2>2. IInv /\ Next => IInv'
        BY SendStep, QuietStep, BeginStep, WaitStep, WriteFailsStep, FulfilsStep, RejectsStep, FollowUpStep,
           ReturnStep, SealStep DEF Next, TurnEnds, EngineStep, Resume
    <2> QED
        BY <2>1, <2>2
<1> QED
    BY <1>1, InitInv, PTL DEF Spec
-----------------------------------------------------------------------------
\* No accepted message is lost or carried twice, through failed turns and writes, retries,
\* follow-up turns and the end of the agent.
THEOREM JobMailAccounted == Spec => []MailAccounted
<1>1. ASSUME IInv PROVE MailAccounted
    <2> DEFINE pl == pendingDelivery \o liveDelivered
               plq == pl \o mailQueue
    <2> USE <1>1 DEF IInv
    <2>1. pl \in Seq(Nat) /\ ToSet(pl) = ToSet(pendingDelivery) \cup ToSet(liveDelivered) /\ IsInjective(pl)
        BY Joined DEF Types, Apart
    <2> HIDE DEF pl
    <2>2. Disjoint(pl, mailQueue)
        BY <2>1 DEF Apart, Disjoint
    <2>3. plq \in Seq(Nat) /\ ToSet(plq) = ToSet(pl) \cup ToSet(mailQueue) /\ IsInjective(plq)
        BY <2>1, <2>2, Joined DEF Types, Apart
    <2> HIDE DEF plq
    <2>4. Disjoint(plq, sessionlessDelivered)
        BY <2>1, <2>3 DEF Apart, Disjoint
    <2>5. IsInjective(plq \o sessionlessDelivered)
        BY <2>3, <2>4, Joined DEF Types, Apart
    <2> QED
        BY <2>5 DEF MailAccounted, Accounted, pl, plq
<1> QED
    BY <1>1, Invariance, PTL

\* A mail-done record is written only for what a resume would find in its session, or of
\* an agent that is completed; mail is dropped only where no turn could carry it.
THEOREM JobRecordsAreTrue == Spec => []RecordsAreTrue
BY Invariance, PTL DEF IInv

\* A follow-up turn applies messages in the order of their acceptance.
THEOREM JobFollowUpInOrder == Spec => []FollowUpInOrder
<1>1. IInv => FollowUpInOrder
    BY DEF IInv, InOrder, FollowUpInOrder
<1> QED
    BY <1>1, Invariance, PTL
-----------------------------------------------------------------------------
(* A cancelled agent settles: the argument of Settles, but for fairness *)

Unparked == cancelled => ~waiter /\ pc # "new"

LEMMA UnparkedAlways == Spec => []Unparked
<1>1. Init => Unparked
    BY DEF Init, Unparked
<1>2. Unparked /\ [Next]_vars => Unparked'
    <2> SUFFICES ASSUME Unparked, [Next]_vars PROVE Unparked'
        OBVIOUS
    <2> USE DEF Unparked
    <2>1. CASE Send
        BY <2>1 DEF Send, Place, control
    <2>2. CASE WriteFails \/ StdinCloses \/ SessionEvent \/ UNCHANGED vars
        BY <2>2 DEF WriteFails, StdinCloses, SessionEvent, control, turnIO, vars
    <2>3. CASE WaitMail
        BY <2>3 DEF WaitMail, MayWait, control
    <2>4. CASE Cancel
        BY <2>4 DEF Cancel, ReleaseWaiters, Live
    <2>5. CASE TurnEnds
        BY <2>5 DEF TurnEnds, TurnFulfils, TurnRejects
    <2>6. CASE Resume
        BY <2>6 DEF Resume, SchemaRetry, SchemaInvalid, FollowUp, Return, BeginTurn, turnIO
    <2>7. CASE Execute \/ Seal \/ Retry \/ Fail
        BY <2>7 DEF Execute, Seal, Retry, Fail, BeginTurn, turnIO
    <2> QED
        BY <2>1, <2>2, <2>3, <2>4, <2>5, <2>6, <2>7 DEF Next, EngineStep
<1> QED
    BY <1>1, <1>2, PTL DEF Spec

\* Nothing but its own next step is awaited: the turn is not parked on mail that may never
\* come. At each of these points the job can go on, whatever its lists hold.
CanGoOn == ~waiter /\ pc \in {"new", "turn", "resolved", "thrown"}
NotParkedForever == (cancelled \/ ~profile.direct) /\ ~settled => CanGoOn

\* How many steps are left of a job that runs no further turn.
Left ==
    IF pc = "turn" THEN 3
    ELSE IF pc = "resolved" THEN 2
    ELSE IF pc \in {"thrown", "returned"} THEN 1 ELSE 0

\* An agent that was cancelled, or runs in a child process, and is not settled can go on.
THEOREM JobIsNotParked == Spec => []NotParkedForever
<1>1. IInv /\ Unparked => NotParkedForever
    BY DEF IInv, Types, Lists, Live, Unparked, CanGoOn, NotParkedForever
<1> QED
    BY <1>1, Invariance, UnparkedAlways, PTL

\* No turn begins once an agent is cancelled, neither a corrective one nor a follow-up nor
\* another attempt: whatever the job does brings it nearer to its end.
THEOREM JobCancelIsFinal == Spec => [][cancelled => cancelled' /\ (pc' = pc \/ Left' < Left)]_vars
<1>1. IInv /\ Unparked /\ [Next]_vars => [cancelled => cancelled' /\ (pc' = pc \/ Left' < Left)]_vars
    <2> SUFFICES ASSUME Unparked, Next, cancelled PROVE cancelled' /\ (pc' = pc \/ Left' < Left)
        OBVIOUS
    <2>1. pc # "new"
        BY DEF Unparked
    <2>2. CASE Send \/ WriteFails \/ StdinCloses \/ WaitMail \/ Cancel \/ SessionEvent
        BY <2>2 DEF Send, WriteFails, StdinCloses, WaitMail, Cancel, SessionEvent, control
    <2>3. CASE TurnEnds
        BY <2>3 DEF TurnEnds, TurnFulfils, TurnRejects, Left
    <2>4. CASE EngineStep
        <3>1. CASE Resume
            <4>1. pc = "resolved" /\ pc' \in {"thrown", "returned"} /\ cancelled' = cancelled
                BY <3>1 DEF Resume, SchemaRetry, SchemaInvalid, FollowUp, OwesFollowUp, Return
            <4> QED
                BY <4>1 DEF Left
        <3>2. CASE Execute \/ Retry
            BY <2>1, <3>2 DEF Execute, Retry, MayRetry
        <3>3. CASE Seal \/ Fail
            <4>1. pc \in {"thrown", "returned"} /\ pc' \in {"completed", "failed"} /\ cancelled' = cancelled
                BY <3>3 DEF Seal, Fail
            <4> QED
                BY <4>1 DEF Left
        <3> QED
            BY <2>4, <3>1, <3>2, <3>3 DEF EngineStep
    <2> QED
        BY <2>2, <2>3, <2>4 DEF Next
<1> QED
    BY <1>1, Invariance, UnparkedAlways, PTL DEF Spec
=============================================================================
