--------------------------- MODULE DurableCalls_proofs ---------------------------
(***************************************************************************)
(* For every workflow, however its calls interleave and wherever its       *)
(* attempts die: every call is given its own result, a sealed one is never *)
(* run again, no two agents share an index, and a seed holds only what is  *)
(* final.                                                                  *)
(***************************************************************************)
EXTENDS DurableCalls, FiniteSetTheorems, WellFoundedInduction, TLAPS

Values == Tasks \X Nat \X Nat
Branches == Nat \X Items
Keys == Branches \X {"agent", "step"} \X Nat \X (Values \cup {None})
Task == [at : {"off", "ready", "queued", "running", "returned"}, branch : Branches \cup {None},
         agents : Nat, steps : Nat, values : Seq(Values), key : Keys \cup {None}, index : Nat]

\* The key of an item's call at a position follows from the program and from the values that
\* the item has been given: from nothing that depends on the order of execution.
Kinds(t, kind, n) == {i \in 1..n : Program[t][i].kind = kind}
Count(t, kind, n) == Cardinality(Kinds(t, kind, n))
BranchOf(t) == <<t[1] - 1, t[2]>>
TextOf(t, p) == IF Program[t][p].chained /\ p > 1 THEN past[t][p - 1] ELSE None
KeyOf(t, p) == <<BranchOf(t), Program[t][p].kind, Count(t, Program[t][p].kind, p - 1), TextOf(t, p)>>

Read(j) ==
  /\ j = [results |-> j.results, index |-> j.index, mailed |-> j.mailed]
  /\ j.results = [k \in DOMAIN j.results |-> j.results[k]]
  /\ \A k \in DOMAIN j.results :
       j.results[k] \in [status : {"completed", "failed"}, value : Values \cup {None}]
  /\ j.index = [k \in DOMAIN j.index |-> j.index[k]]
  /\ \A k \in DOMAIN j.index : j.index[k] \in Nat

Types ==
  /\ Read(journal) /\ Read(prior)
  /\ attempt \in [n : Nat, lives : BOOLEAN]
  /\ root \in [round : 0..Rounds, fanouts : Nat, rejected : BOOLEAN, next : Nat]
  /\ root.fanouts = root.round
  /\ tasks \in [Tasks -> Task]
  /\ past \in [Tasks -> Seq(Values)]
  /\ seed = [at |-> seed.at, results |-> seed.results]

\* The position of the call an item has come to.
Pos(t) == Len(tasks[t].values) + 1
Calling(t) == tasks[t].at \in {"queued", "running"}
\* The calls of a kind that an item has made.
Made(t, kind) == Count(t, kind, IF Calling(t) THEN Pos(t) ELSE Pos(t) - 1)

\* Where an item stands: its branch and counters are those of its program.
Place(t) ==
  /\ tasks[t].at = "off" => tasks[t] = Off
  /\ t[1] > root.round => tasks[t].at = "off"
  /\ tasks[t].at # "off" => tasks[t].branch = BranchOf(t)
  /\ Pos(t) - 1 <= Len(past[t]) /\ Len(past[t]) <= Len(Program[t])
  /\ \A p \in 1 .. Pos(t) - 1 : tasks[t].values[p] = past[t][p]
  /\ tasks[t].at \in {"ready", "queued", "running"} =>
       tasks[t].agents = Made(t, "agent") /\ tasks[t].steps = Made(t, "step")
  /\ Calling(t) => Pos(t) <= Len(Program[t]) /\ tasks[t].key = KeyOf(t, Pos(t))
  /\ tasks[t].at = "queued" => Program[t][Pos(t)].kind = "agent"
Places == \A t \in Tasks : Place(t)

\* What has been given to an item is sealed under the key of its position, and what it will
\* be given again is in the journal that the attempt has read.
Given(t) ==
  \A p \in 1 .. Len(past[t]) :
    /\ past[t][p][1] = t /\ past[t][p][2] = p
    /\ Completed(journal, KeyOf(t, p))
    /\ p >= Pos(t) => Completed(prior, KeyOf(t, p))

\* Nothing else is sealed, and what was sealed when the attempt began still is.
Sealed ==
  /\ \A t \in Tasks : Given(t)
  /\ \A k \in DOMAIN journal.results : Completed(journal, k) =>
       \E t \in Tasks : \E p \in 1 .. Len(past[t]) :
         k = KeyOf(t, p) /\ journal.results[k].value = past[t][p]
  /\ \A k \in DOMAIN prior.results : Completed(prior, k) =>
       Completed(journal, k) /\ journal.results[k].value = prior.results[k].value

\* A call that is under way is not sealed.
Open == \A t \in Tasks : Calling(t) => ~Completed(journal, tasks[t].key)

\* The indexes on record and those handed out since are below the next one; one that is new
\* in this attempt, and whose agent is still queued, is nobody else's.
Fresh(t) == tasks[t].at = "queued" /\ tasks[t].key \notin DOMAIN prior.index
Indexes ==
  /\ \A k \in DOMAIN prior.index : k \in DOMAIN journal.index /\ journal.index[k] = prior.index[k]
  /\ \A k \in DOMAIN journal.index : journal.index[k] < root.next
  /\ \A t \in Tasks :
       /\ tasks[t].at = "queued" /\ tasks[t].key \in DOMAIN prior.index => tasks[t].index = prior.index[tasks[t].key]
       /\ Fresh(t) => /\ tasks[t].index < root.next
                      /\ \A k \in DOMAIN journal.index : journal.index[k] # tasks[t].index
                      /\ \A u \in Tasks \ {t} : Fresh(u) => tasks[u].index # tasks[t].index

\* Also what a seed was read from while somebody still wrote it.
Seeds ==
  seed.at # "none" => \A s \in seed.results :
    /\ Completed(journal, s[1]) /\ journal.results[s[1]].value = s[2]
    /\ s[1] \notin journal.mailed

IInv == Types /\ Places /\ Sealed /\ Open /\ Indexes /\ IndexIsOwn /\ Seeds
-----------------------------------------------------------------------------
(* Sets of numbers *)

\* A non-empty set of numbers has a least one: the well-founded order on Nat of the library,
\* which has an operator for its order, is first named by a relation.
LEMMA Minimal ==
  ASSUME NEW R, \A x, y \in Nat : <<x, y>> \in R <=> x < y, IsWellFoundedOn(R, Nat),
         NEW T, T \subseteq Nat, T # {}
  PROVE \E n \in T : \A m \in T : n <= m
<1>1. \E x \in T : \A y \in T : ~ (<<y, x>> \in R)
  <2>1. T \subseteq Nat /\ T # {} /\ IsWellFoundedOn(R, Nat)
    OBVIOUS
  <2> QED
    BY ONLY <2>1, WFMin, Zenon
<1>2. PICK x \in T : \A y \in T : ~ (<<y, x>> \in R)
  BY <1>1
<1>3. ASSUME NEW y \in T PROVE x <= y
  <2>1. ~(y < x)
    BY <1>2
  <2>2. x \in Nat /\ y \in Nat
    OBVIOUS
  <2> QED
    BY <2>1, <2>2
<1> QED
  BY <1>3

LEMMA WF == \E R : IsWellFoundedOn(R, Nat) /\ \A x, y \in Nat : <<x, y>> \in R <=> x < y
<1>1. IsWellFoundedOn(OpToRel(<, Nat), Nat)
  BY NatLessThanWellFounded
<1>2. \A x, y \in Nat : <<x, y>> \in OpToRel(<, Nat) <=> x < y
  BY DEF OpToRel
<1> QED
  BY <1>1, <1>2, Zenon

LEMMA Least ==
  ASSUME NEW T, T \subseteq Nat, T # {}
  PROVE \E n \in T : \A m \in T : n <= m
BY WF, Minimal

\* One that is bounded has a greatest: the least of its bounds.
LEMMA Greatest ==
  ASSUME NEW N \in Nat, NEW S, S \subseteq Nat, S # {}, \A m \in S : m <= N
  PROVE \E n \in S : \A m \in S : m <= n
<1> DEFINE Bounds == {b \in Nat : \A m \in S : m <= b}
<1>1. PICK n \in Bounds : \A b \in Bounds : n <= b
  <2>1. Bounds \subseteq Nat /\ N \in Bounds
    OBVIOUS
  <2> HIDE DEF Bounds
  <2> QED
    BY <2>1, Least
<1>2. n \in S
  <2> SUFFICES ASSUME n \notin S PROVE FALSE
    OBVIOUS
  <2>1. n \in Nat /\ \A m \in S : m < n /\ m \in Nat
    BY <1>1
  <2>2. n - 1 \in Nat /\ \A m \in S : m <= n - 1
    <3>1. PICK m \in S : m < n /\ m \in Nat
      BY <2>1
    <3>2. n - 1 \in Nat
      BY <2>1, <3>1
    <3>3. \A a, b \in Nat : a < b => a <= b - 1
      OBVIOUS
    <3> QED
      BY <2>1, <3>2, <3>3
  <2> QED
    BY <1>1, <2>1, <2>2
<1> QED
  BY <1>1, <1>2

-----------------------------------------------------------------------------
(* Positions and keys *)

\* One more call of a kind is counted once.
LEMMA Counted ==
  ASSUME NEW t \in Tasks, NEW kind, NEW n \in Nat
  PROVE /\ Count(t, kind, n) \in Nat
        /\ Count(t, kind, 0) = 0
        /\ Count(t, kind, n + 1) = Count(t, kind, n) + (IF Program[t][n + 1].kind = kind THEN 1 ELSE 0)
<1>1. \A m \in Nat : IsFiniteSet(Kinds(t, kind, m)) /\ Cardinality(Kinds(t, kind, m)) \in Nat
  <2> TAKE m \in Nat
  <2>1. IsFiniteSet(1..m)
    BY FS_Interval
  <2>2. Kinds(t, kind, m) \in SUBSET (1..m)
    BY DEF Kinds
  <2> QED
    BY <2>1, <2>2, FS_Subset, FS_CardinalityType
<1>2. Kinds(t, kind, 0) = {}
  BY DEF Kinds
<1>3. CASE Program[t][n + 1].kind = kind
  <2>1. Kinds(t, kind, n + 1) = Kinds(t, kind, n) \cup {n + 1} /\ n + 1 \notin Kinds(t, kind, n)
    BY <1>3 DEF Kinds
  <2> QED
    BY <1>1, <1>2, <1>3, <2>1, FS_AddElement, FS_EmptySet DEF Count
<1>4. CASE Program[t][n + 1].kind # kind
  <2>1. Kinds(t, kind, n + 1) = Kinds(t, kind, n)
    BY <1>4 DEF Kinds
  <2> QED
    BY <1>1, <1>2, <1>4, <2>1, FS_EmptySet DEF Count
<1> QED
  BY <1>3, <1>4

\* Two calls of a kind are not counted alike.
LEMMA CountsDiffer ==
  ASSUME NEW t \in Tasks, NEW kind, NEW p \in Nat \ {0}, NEW q \in Nat, p < q, Program[t][p].kind = kind
  PROVE Count(t, kind, p - 1) < Count(t, kind, q - 1)
<1>1. Count(t, kind, p) = Count(t, kind, p - 1) + 1 /\ Count(t, kind, p - 1) \in Nat
  BY Counted, p - 1 \in Nat, (p - 1) + 1 = p
<1>2. Kinds(t, kind, p) \in SUBSET Kinds(t, kind, q - 1)
  BY DEF Kinds
<1>3. Kinds(t, kind, q - 1) \in SUBSET (1 .. q - 1) /\ IsFiniteSet(1 .. q - 1)
  BY FS_Interval DEF Kinds
<1>4. IsFiniteSet(Kinds(t, kind, q - 1))
  BY <1>3, FS_Subset
<1>5. Count(t, kind, p) <= Count(t, kind, q - 1)
  BY <1>2, <1>4, FS_Subset DEF Count
<1>6. Count(t, kind, q - 1) \in Nat
  BY <1>4, FS_CardinalityType DEF Count
<1> QED
  BY <1>1, <1>5, <1>6

\* A key belongs to one call of one item.
LEMMA KeyIsOwn ==
  ASSUME NEW t \in Tasks, NEW u \in Tasks, NEW p \in Nat \ {0}, NEW q \in Nat \ {0},
         KeyOf(t, p) = KeyOf(u, q)
  PROVE t = u /\ p = q
<1>1. /\ BranchOf(t) = BranchOf(u) /\ Program[t][p].kind = Program[u][q].kind
      /\ Count(t, Program[t][p].kind, p - 1) = Count(u, Program[u][q].kind, q - 1)
  BY DEF KeyOf
<1>2. t = u
  BY <1>1 DEF BranchOf, Tasks
<1>3. ~ (p < q) /\ ~ (q < p)
  <2>1. \A a, b \in Nat : a < b => a # b
    OBVIOUS
  <2> QED
    BY <1>1, <1>2, <2>1, CountsDiffer, Counted, p - 1 \in Nat, q - 1 \in Nat
<1> QED
  BY <1>2, <1>3

\* It stays the same when more values are given.
LEMMA KeyKept ==
  ASSUME NEW t \in Tasks, NEW p \in Nat \ {0}, p > 1 => past'[t][p - 1] = past[t][p - 1]
  PROVE KeyOf(t, p)' = KeyOf(t, p)
BY DEF KeyOf, TextOf, Count, Kinds, BranchOf

\* A call is an agent or a step.
LEMMA Kind ==
  ASSUME NEW t \in Tasks, NEW p \in Nat \ {0}, p <= Len(Program[t])
  PROVE Program[t][p].kind \in {"agent", "step"}
<1> DEFINE Action == [kind : {"agent", "step"}, chained : BOOLEAN]
<1>1. Program[t] \in Seq(Action)
  BY CallsAssumption
<1>2. Program[t][p] \in Action
  <2> HIDE DEF Action
  <2> QED
    BY <1>1
<1> QED
  BY <1>2

\* The key that agentImpl and stepImpl derive is that of the position.
LEMMA Derived ==
  ASSUME Types, Places, NEW t \in Tasks, HasCall(t)
  PROVE /\ Pos(t) \in Nat \ {0} /\ Pos(t) <= Len(Program[t])
        /\ Call(t).kind = Program[t][Pos(t)].kind /\ Call(t).kind \in {"agent", "step"}
        /\ tasks[t].at = "ready"
        /\ Call(t).kind = "agent" => agentKey(tasks[t], Text(t)) = KeyOf(t, Pos(t))
        /\ Call(t).kind = "step" => stepKey(tasks[t], Text(t)) = KeyOf(t, Pos(t))
<1> USE CallsAssumption DEF Types
<1>1. tasks[t] \in Task /\ tasks[t].values \in Seq(Values) /\ Len(tasks[t].values) \in Nat
  BY DEF Task
<1>2. Pos(t) \in Nat \ {0} /\ Pos(t) <= Len(Program[t]) /\ tasks[t].at = "ready"
  BY <1>1 DEF HasCall, Pos
<1>3. Call(t) = Program[t][Pos(t)] /\ Call(t).kind \in {"agent", "step"}
  BY <1>2, Kind DEF Call, Pos
<1>4. Text(t) = TextOf(t, Pos(t))
  <2>1. CASE tasks[t].values = <<>>
    BY <1>1, <1>2, <1>3, <2>1 DEF Text, TextOf, Pos
  <2>2. CASE tasks[t].values # <<>>
    <3>1. Len(tasks[t].values) \in 1 .. Pos(t) - 1 /\ Pos(t) > 1
      BY <1>1, <2>2 DEF Pos
    <3>2. tasks[t].values[Len(tasks[t].values)] = past[t][Len(tasks[t].values)]
      BY <3>1 DEF Places, Place
    <3> QED
      BY <1>1, <1>3, <2>2, <3>1, <3>2 DEF Text, TextOf, Pos
  <2> QED
    BY <2>1, <2>2
<1>5. /\ tasks[t].branch = BranchOf(t)
      /\ tasks[t].agents = Count(t, "agent", Pos(t) - 1) /\ tasks[t].steps = Count(t, "step", Pos(t) - 1)
  BY <1>2 DEF Places, Place, Made, Calling
<1> QED
  BY <1>2, <1>3, <1>4, <1>5 DEF agentKey, stepKey, KeyOf

\* What is put in a function is there, and the rest is as it was.
LEMMA WithIs ==
  ASSUME NEW f, NEW k, NEW v
  PROVE /\ DOMAIN With(f, k, v) = DOMAIN f \cup {k}
        /\ With(f, k, v) = [x \in DOMAIN With(f, k, v) |-> With(f, k, v)[x]]
        /\ With(f, k, v)[k] = v
        /\ \A x \in DOMAIN f : x # k => With(f, k, v)[x] = f[x]
BY DEF With

\* What the types say of one item.
LEMMA ItemTypes ==
  ASSUME Types, NEW t \in Tasks
  PROVE /\ tasks[t] \in Task /\ DOMAIN tasks = Tasks
        /\ tasks[t].values \in Seq(Values) /\ Len(tasks[t].values) \in Nat
        /\ Pos(t) \in Nat \ {0}
        /\ past[t] \in Seq(Values) /\ Len(past[t]) \in Nat
        /\ Len(Program[t]) \in Nat
<1>1. tasks[t] \in Task /\ past[t] \in Seq(Values) /\ DOMAIN tasks = Tasks
  BY DEF Types
<1>2. tasks[t].values \in Seq(Values)
  BY <1>1 DEF Task
<1>3. Program[t] \in Seq([kind : {"agent", "step"}, chained : BOOLEAN])
  BY CallsAssumption
<1> QED
  BY <1>1, <1>2, <1>3 DEF Pos

\* An item that a step leaves alone stands where it stood.
LEMMA PlaceKept ==
  ASSUME NEW t \in Tasks, Place(t), tasks'[t] = tasks[t], past'[t] = past[t], root'.round = root.round
  PROVE Place(t)'
<1>1. Pos(t)' = Pos(t) /\ Calling(t)' = Calling(t)
  BY DEF Pos, Calling
<1>2. \A p : KeyOf(t, p)' = KeyOf(t, p)
  BY DEF KeyOf, TextOf, Count, Kinds, BranchOf
<1>3. \A kind : Made(t, kind)' = Made(t, kind)
  BY <1>1 DEF Made, Count, Kinds
<1> QED
  BY <1>1, <1>2, <1>3 DEF Place, BranchOf

\* It has been given what it had been given, if what was sealed still is.
LEMMA GivenKept ==
  ASSUME NEW t \in Tasks, Given(t), past'[t] = past[t], Pos(t)' = Pos(t), prior' = prior,
         \A k : Completed(journal, k) => Completed(journal', k)
  PROVE Given(t)'
<1>1. \A p : KeyOf(t, p)' = KeyOf(t, p)
  BY DEF KeyOf, TextOf, Count, Kinds, BranchOf
<1> QED
  BY <1>1 DEF Given, Completed

\* If nothing is given in a step and no result is sealed, what is sealed is as it was.
LEMMA SealedStays ==
  ASSUME Sealed, past' = past, prior' = prior, \A t \in Tasks : Pos(t)' = Pos(t),
         \A k : Completed(journal', k) <=> Completed(journal, k),
         \A k : Completed(journal, k) => journal'.results[k].value = journal.results[k].value
  PROVE Sealed'
<1>1. \A t \in Tasks : Given(t)'
  BY GivenKept DEF Sealed
<1>2. \A t, p : KeyOf(t, p)' = KeyOf(t, p)
  BY DEF KeyOf, TextOf, Count, Kinds, BranchOf
<1>3. \A k : Completed(journal, k) =>
        \E t \in Tasks : \E p \in 1 .. Len(past[t]) : k = KeyOf(t, p) /\ journal.results[k].value = past[t][p]
  BY DEF Sealed, Completed
<1>4. \A k \in DOMAIN journal'.results : Completed(journal', k) =>
        \E t \in Tasks : \E p \in 1 .. Len(past[t]) : k = KeyOf(t, p) /\ journal'.results[k].value = past[t][p]
  BY <1>3
<1>5. \A k \in DOMAIN prior.results : Completed(prior, k) =>
        Completed(journal', k) /\ journal'.results[k].value = prior.results[k].value
  BY DEF Sealed
<1> QED
  BY <1>1, <1>2, <1>4, <1>5 DEF Sealed, Completed

\* In particular if no result is recorded.
LEMMA SealedKept ==
  ASSUME Sealed, past' = past, prior' = prior, \A t \in Tasks : Pos(t)' = Pos(t),
         journal'.results = journal.results
  PROVE Sealed'
<1>1. \A k : Completed(journal', k) <=> Completed(journal, k)
  BY DEF Completed
<1> QED
  BY <1>1, SealedStays

\* The indexes stay apart when no agent joins the queue and none is recorded.
LEMMA IndexesKept ==
  ASSUME Indexes, prior' = prior, journal'.index = journal.index, root'.next = root.next,
         \A u \in Tasks : tasks'[u].at = "queued" => tasks'[u] = tasks[u]
  PROVE Indexes'
<1>1. \A u \in Tasks : tasks'[u].at = "queued" /\ tasks'[u].key \in DOMAIN prior.index
                       => tasks'[u].index = prior.index[tasks'[u].key]
  BY DEF Indexes
<1>2. \A u \in Tasks : Fresh(u)' => Fresh(u) /\ tasks'[u] = tasks[u]
  BY DEF Fresh
<1>3. \A u \in Tasks : Fresh(u)' =>
        /\ tasks'[u].index < root.next
        /\ \A k \in DOMAIN journal.index : journal.index[k] # tasks'[u].index
        /\ \A w \in Tasks \ {u} : Fresh(w)' => tasks'[w].index # tasks'[u].index
  BY <1>2 DEF Indexes
<1> QED
  BY <1>1, <1>3 DEF Indexes

-----------------------------------------------------------------------------
(* The root *)

LEMMA OffIs ==
  /\ Off \in Task /\ Off.at = "off" /\ Off.values = <<>> /\ Len(Off.values) = 0
  /\ Off.agents = 0 /\ Off.steps = 0
BY DEF Off, Task, None

LEMMA InitHolds == Init => IInv
<1> SUFFICES ASSUME Init PROVE IInv
  OBVIOUS
<1> USE CallsAssumption DEF Init
<1>1. Off \in Task /\ Off.values = <<>> /\ Len(Off.values) = 0 /\ Off.at = "off"
  BY OffIs
<1>2. Types
  BY <1>1 DEF Types, Read, Empty, Start
<1>3. Places
  <2> SUFFICES ASSUME NEW t \in Tasks PROVE Place(t)
    BY DEF Places
  <2>1. tasks[t] = Off /\ past[t] = <<>> /\ Pos(t) = 1 /\ ~Calling(t)
    BY <1>1 DEF Pos, Calling
  <2> QED
    BY <1>1, <1>2, <2>1, ItemTypes DEF Place
<1>4. Sealed
  BY DEF Sealed, Given, Empty, Completed
<1>5. Open /\ Indexes /\ IndexIsOwn /\ Seeds
  BY <1>1 DEF Open, Calling, Indexes, Fresh, IndexIsOwn, Seeds, Empty
<1> QED
  BY <1>2, <1>3, <1>4, <1>5 DEF IInv

LEMMA FanoutStep ==
  ASSUME IInv, Fanout
  PROVE IInv'
<1> USE CallsAssumption DEF IInv
<1> DEFINE Opened(t) == [Off EXCEPT !.at = "ready", !.branch = deriveBranch(root.fanouts, t[2])]
<1>1. /\ root' = [root EXCEPT !.round = @ + 1, !.fanouts = @ + 1, !.rejected = FALSE]
      /\ tasks' = [t \in Tasks |-> IF t[1] = root.round + 1 THEN Opened(t) ELSE tasks[t]]
      /\ root.round < Rounds /\ UNCHANGED <<journal, prior, attempt, past, seed>>
  BY DEF Fanout
<1>2. /\ root.round \in 0..Rounds /\ root.fanouts = root.round /\ root'.round = root.round + 1
      /\ root'.fanouts = root.fanouts + 1 /\ root'.next = root.next
  BY <1>1 DEF Types
<1>3. \A t \in Tasks : t[1] = root.round + 1 =>
        /\ Opened(t) \in Task /\ Opened(t).values = <<>> /\ Opened(t).at = "ready"
        /\ Opened(t).agents = 0 /\ Opened(t).steps = 0 /\ Opened(t).branch = BranchOf(t)
        /\ tasks[t] = Off /\ tasks[t].values = <<>>
  <2> TAKE t \in Tasks
  <2> HAVE t[1] = root.round + 1
  <2>1. t[2] \in Items /\ BranchOf(t) = <<root.fanouts, t[2]>> /\ BranchOf(t) \in Branches
    BY <1>2 DEF BranchOf, Branches, Tasks
  <2>2. tasks[t] = Off
    BY <1>2 DEF Places, Place
  <2> QED
    <3>1. deriveBranch(root.fanouts, t[2]) \in Branches
      BY <2>1 DEF deriveBranch
    <3>2. Off \in Task /\ Off.values = <<>> /\ Off.agents = 0 /\ Off.steps = 0
      BY OffIs
    <3>3. Opened(t) \in Task
      BY <3>1, <3>2 DEF Task
    <3> QED
      BY <2>1, <2>2, <3>2, <3>3 DEF deriveBranch, Task
<1> HIDE DEF Opened
<1>4. \A t \in Tasks : Pos(t)' = Pos(t) /\ (t[1] = root.round + 1 => Pos(t) = 1 /\ ~Calling(t)')
  <2> TAKE t \in Tasks
  <2>1. tasks'[t] = IF t[1] = root.round + 1 THEN Opened(t) ELSE tasks[t]
    BY <1>1
  <2>2. CASE t[1] = root.round + 1
    <3>1. Opened(t).values = <<>> /\ Opened(t).at = "ready" /\ tasks[t].values = <<>>
      BY <1>3, <2>2
    <3> QED
      BY <2>1, <2>2, <3>1 DEF Pos, Calling
  <2> QED
    BY <2>1, <2>2 DEF Pos
<1>5. Types'
  <2>1. root' \in [round : 0..Rounds, fanouts : Nat, rejected : BOOLEAN, next : Nat]
    <3>1. root \in [round : 0..Rounds, fanouts : Nat, rejected : BOOLEAN, next : Nat]
      BY DEF Types
    <3>2. root.round + 1 \in 0..Rounds /\ root.fanouts + 1 \in Nat
      BY <1>1, <1>2, <3>1
    <3> QED
      BY <1>1, <3>1, <3>2
  <2>2. tasks' \in [Tasks -> Task]
    <3>1. tasks \in [Tasks -> Task]
      BY DEF Types
    <3> QED
      BY <1>1, <1>3, <3>1
  <2> QED
    BY <1>1, <1>2, <2>1, <2>2 DEF Types
<1>6. Places'
  <2> SUFFICES ASSUME NEW t \in Tasks PROVE Place(t)'
    BY DEF Places
  <2>1. CASE t[1] = root.round + 1
    <3>1. Pos(t)' = 1 /\ ~Calling(t)' /\ tasks'[t] = Opened(t)
      BY <1>1, <1>4, <2>1
    <3>2. Made(t, "agent")' = 0 /\ Made(t, "step")' = 0
      <4>1. Made(t, "agent")' = Count(t, "agent", 1 - 1) /\ Made(t, "step")' = Count(t, "step", 1 - 1)
        BY <3>1 DEF Made, Count, Kinds
      <4>2. \A kind : Count(t, kind, 0) = 0
        BY Counted, 0 \in Nat
      <4> QED
        BY <4>1, <4>2, 1 - 1 = 0
    <3>3. BranchOf(t)' = BranchOf(t) /\ Place(t)
      BY DEF BranchOf, Places
    <3> QED
      BY <1>1, <1>2, <1>3, <1>4, <2>1, <3>1, <3>2, <3>3, ItemTypes DEF Place
  <2>2. CASE t[1] # root.round + 1
    <3>1. tasks'[t] = tasks[t] /\ past'[t] = past[t] /\ Place(t)
      BY <1>1, <2>2 DEF Places
    <3>2. Pos(t)' = Pos(t) /\ Calling(t)' = Calling(t)
      BY <3>1 DEF Pos, Calling
    <3>3. \A p : KeyOf(t, p)' = KeyOf(t, p)
      BY <1>1 DEF KeyOf, TextOf, Count, Kinds, BranchOf
    <3>4. \A kind : Made(t, kind)' = Made(t, kind)
      BY <3>2 DEF Made, Count, Kinds
    <3>5. t[1] > root'.round => t[1] > root.round
      BY <1>2 DEF Tasks
    <3> QED
      BY <3>1, <3>2, <3>3, <3>4, <3>5 DEF Place, BranchOf
  <2> QED
    BY <2>1, <2>2
<1>7. Sealed'
  BY <1>1, <1>4, SealedKept
<1>8. Open'
  BY <1>1, <1>4 DEF Open, Calling, Completed
<1>9. Indexes'
  BY <1>1, <1>2, <1>3 DEF Indexes, Fresh
<1>10. IndexIsOwn' /\ Seeds'
  BY <1>1 DEF IndexIsOwn, Seeds, Completed
<1> QED
  BY <1>5, <1>6, <1>7, <1>8, <1>9, <1>10

\* Nothing but the attempt changes when it ends or dies.
LEMMA EndStep ==
  ASSUME IInv, End \/ Crash
  PROVE IInv'
<1>1. /\ attempt' = [attempt EXCEPT !.lives = FALSE]
      /\ UNCHANGED <<journal, prior, root, tasks, past, seed>>
  BY DEF End, Crash
<1>2. Types'
  BY <1>1 DEF IInv, Types
<1>3. Places'
  BY <1>1, PlaceKept DEF IInv, Places
<1>4. \A t \in Tasks : Pos(t)' = Pos(t) /\ Calling(t)' = Calling(t)
  BY <1>1 DEF Pos, Calling
<1>5. Sealed'
  BY <1>1, <1>4, SealedKept DEF IInv
<1>6. Open' /\ Indexes' /\ IndexIsOwn' /\ Seeds'
  BY <1>1, <1>4 DEF IInv, Open, Indexes, Fresh, IndexIsOwn, Seeds, Completed
<1> QED
  BY <1>2, <1>3, <1>5, <1>6 DEF IInv

\* The next index is above all that are on record.
LEMMA NextIndexIs ==
  ASSUME Types, Indexes
  PROVE /\ NextIndex(journal) \in Nat
        /\ \A k \in DOMAIN journal.index : journal.index[k] < NextIndex(journal)
<1> DEFINE S == {journal.index[k] : k \in DOMAIN journal.index}
<1>1. \A k \in DOMAIN journal.index : journal.index[k] \in Nat /\ journal.index[k] < root.next
  BY DEF Types, Read, Indexes
<1>2. root.next \in Nat
  BY DEF Types
<1>3. CASE journal.index = <<>>
  <2>1. DOMAIN journal.index = {}
    BY <1>3
  <2> QED
    BY <1>3, <2>1 DEF NextIndex
<1>4. CASE journal.index # <<>>
  <2>1. DOMAIN journal.index # {}
    <3> SUFFICES ASSUME DOMAIN journal.index = {} PROVE FALSE
      OBVIOUS
    <3>1. journal.index = [k \in DOMAIN journal.index |-> journal.index[k]]
      BY DEF Types, Read
    <3> QED
      BY <1>4, <3>1
  <2>2. S \subseteq Nat /\ S # {} /\ \A m \in S : m <= root.next
    BY <1>1, <1>2, <2>1
  <2>3. PICK n \in S : \A m \in S : m <= n
    <3> HIDE DEF S
    <3> QED
      BY <1>2, <2>2, Greatest
  <2>4. \E m \in S : \A k \in DOMAIN journal.index : journal.index[k] <= m
    BY <2>3
  <2> DEFINE Top == CHOOSE m \in S : \A k \in DOMAIN journal.index : journal.index[k] <= m
  <2>5. Top \in S /\ \A k \in DOMAIN journal.index : journal.index[k] <= Top
    <3> HIDE DEF S
    <3> QED
      BY <2>4
  <2>6. Top \in Nat
    BY <2>2, <2>5
  <2>7. NextIndex(journal) = 1 + Top
    BY <1>4 DEF NextIndex
  <2> HIDE DEF Top
  <2> QED
    BY <1>1, <2>5, <2>6, <2>7
<1> QED
  BY <1>3, <1>4

\* An attempt begins with what is on record.
LEMMA AttemptStep ==
  ASSUME IInv, Attempt
  PROVE IInv'
<1> USE CallsAssumption DEF IInv
<1>1. /\ attempt' = [n |-> attempt.n + 1, lives |-> TRUE] /\ prior' = journal
      /\ root' = [Start EXCEPT !.next = NextIndex(journal)]
      /\ tasks' = [t \in Tasks |-> Off] /\ UNCHANGED <<journal, past, seed>>
  BY DEF Attempt
<1>2. NextIndex(journal) \in Nat /\ \A k \in DOMAIN journal.index : journal.index[k] < NextIndex(journal)
  BY NextIndexIs
<1>3. root' = [round |-> 0, fanouts |-> 0, rejected |-> FALSE, next |-> NextIndex(journal)]
  BY <1>1 DEF Start
<1>4. \A t \in Tasks : tasks'[t] = Off /\ Pos(t)' = 1 /\ ~Calling(t)' /\ ~Fresh(t)' /\ tasks'[t].at # "queued"
  BY <1>1, OffIs DEF Pos, Calling, Fresh
<1>5. \A t, p : KeyOf(t, p)' = KeyOf(t, p)
  BY <1>1 DEF KeyOf, TextOf, Count, Kinds, BranchOf
<1>6. Types'
  <2>1. root' \in [round : 0..Rounds, fanouts : Nat, rejected : BOOLEAN, next : Nat] /\ root'.fanouts = root'.round
    BY <1>2, <1>3
  <2>2. tasks' \in [Tasks -> Task]
    BY <1>1, OffIs
  <2>3. attempt' \in [n : Nat, lives : BOOLEAN]
    BY <1>1 DEF Types
  <2> QED
    BY <1>1, <2>1, <2>2, <2>3 DEF Types
<1>7. Places'
  <2> SUFFICES ASSUME NEW t \in Tasks PROVE Place(t)'
    BY DEF Places
  <2>1. past'[t] = past[t] /\ Place(t)
    BY <1>1 DEF Places
  <2> QED
    BY <1>4, <2>1, OffIs, ItemTypes DEF Place
<1>8. Sealed'
  <2>1. \A k : Completed(prior', k) = Completed(journal, k) /\ Completed(journal', k) = Completed(journal, k)
    BY <1>1 DEF Completed
  <2>2. \A t \in Tasks : Given(t)'
    BY <1>1, <1>5, <2>1 DEF Sealed, Given
  <2> QED
    BY <1>1, <1>5, <2>1, <2>2 DEF Sealed
<1>9. Open' /\ IndexIsOwn' /\ Seeds'
  BY <1>1, <1>4 DEF Open, IndexIsOwn, Seeds, Completed
<1>10. Indexes'
  <2>1. root'.next = NextIndex(journal)
    BY <1>3
  <2> QED
    BY <1>1, <1>2, <1>4, <2>1 DEF Indexes
<1> QED
  BY <1>6, <1>7, <1>8, <1>9, <1>10
-----------------------------------------------------------------------------
(* The calls *)

\* A value more.
LEMMA Appended ==
  ASSUME NEW s \in Seq(Values), NEW v \in Values
  PROVE /\ Append(s, v) \in Seq(Values) /\ Len(Append(s, v)) = Len(s) + 1
        /\ Append(s, v)[Len(s) + 1] = v
        /\ \A p \in 1 .. Len(s) : Append(s, v)[p] = s[p]
OBVIOUS

\* A result that the attempt has read is the one the item was given in an attempt before.
LEMMA Cached ==
  ASSUME IInv, NEW t \in Tasks, Completed(prior, KeyOf(t, Pos(t)))
  PROVE /\ Pos(t) <= Len(past[t])
        /\ prior.results[KeyOf(t, Pos(t))].value = past[t][Pos(t)]
        /\ past[t][Pos(t)] \in Values
<1> DEFINE k == KeyOf(t, Pos(t))
<1>1. Completed(journal, k) /\ journal.results[k].value = prior.results[k].value
  BY DEF IInv, Sealed, Completed
<1>2. PICK u \in Tasks : \E p \in 1 .. Len(past[u]) :
        k = KeyOf(u, p) /\ journal.results[k].value = past[u][p]
  BY <1>1 DEF IInv, Sealed, Completed
<1>7. PICK p \in 1 .. Len(past[u]) : k = KeyOf(u, p) /\ journal.results[k].value = past[u][p]
  BY <1>2
<1>3. Pos(t) \in Nat \ {0} /\ p \in Nat \ {0}
  BY ItemTypes DEF IInv
<1>4. u = t /\ p = Pos(t)
  BY <1>7, <1>3, KeyIsOwn
<1>5. past[t] \in Seq(Values) /\ Pos(t) \in 1 .. Len(past[t])
  BY <1>4, ItemTypes DEF IInv
<1>6. past[t][Pos(t)] \in Values
  BY <1>5
<1> QED
  BY <1>1, <1>7, <1>4, <1>5, <1>6

\* A result that is not in what the attempt has read is not in the journal either.
LEMMA Uncached ==
  ASSUME IInv, NEW t \in Tasks, ~Completed(prior, KeyOf(t, Pos(t)))
  PROVE ~Completed(journal, KeyOf(t, Pos(t))) /\ Len(past[t]) = Pos(t) - 1
<1> DEFINE k == KeyOf(t, Pos(t))
<1>1. Pos(t) \in Nat \ {0} /\ Len(past[t]) \in Nat /\ Pos(t) - 1 <= Len(past[t])
  BY ItemTypes DEF IInv, Places, Place
<1>2. ~ (Pos(t) <= Len(past[t]))
  <2> SUFFICES ASSUME Pos(t) <= Len(past[t]) PROVE FALSE
    OBVIOUS
  <2>1. Pos(t) \in 1 .. Len(past[t]) /\ Pos(t) >= Pos(t)
    BY <1>1
  <2>2. Given(t)
    BY DEF IInv, Sealed
  <2> QED
    BY <2>1, <2>2 DEF Given
<1>3. ASSUME Completed(journal, k) PROVE FALSE
  <2>0. PICK u \in Tasks : \E p \in 1 .. Len(past[u]) : k = KeyOf(u, p)
    BY <1>3 DEF IInv, Sealed, Completed
  <2>1. PICK p \in 1 .. Len(past[u]) : k = KeyOf(u, p)
    BY <2>0
  <2>2. p \in Nat \ {0}
    BY <2>1
  <2>3. u = t /\ p = Pos(t)
    BY <1>1, <2>1, <2>2, KeyIsOwn
  <2> QED
    BY <1>1, <1>2, <2>1, <2>3
<1> QED
  BY <1>1, <1>2, <1>3

\* An item counts the call that it makes.
Counts(t, task) ==
  /\ task \in Task /\ task.values = tasks[t].values /\ task.branch = tasks[t].branch
  /\ task.agents = Count(t, "agent", Pos(t)) /\ task.steps = Count(t, "step", Pos(t))

LEMMA AgentCounts ==
  ASSUME IInv, NEW t \in Tasks, HasCall(t), Call(t).kind = "agent"
  PROVE Counts(t, [tasks[t] EXCEPT !.agents = @ + 1])
<1>1. Pos(t) \in Nat \ {0} /\ Program[t][Pos(t)].kind = "agent" /\ tasks[t].at = "ready" /\ tasks[t] \in Task
  BY Derived, ItemTypes DEF IInv
<1>2. tasks[t].agents = Count(t, "agent", Pos(t) - 1) /\ tasks[t].steps = Count(t, "step", Pos(t) - 1)
  BY <1>1 DEF IInv, Places, Place, Made, Calling
<1>3. Pos(t) - 1 \in Nat /\ (Pos(t) - 1) + 1 = Pos(t)
  BY <1>1
<1>4. /\ Count(t, "agent", Pos(t)) = Count(t, "agent", Pos(t) - 1) + 1
      /\ Count(t, "step", Pos(t)) = Count(t, "step", Pos(t) - 1) + 0
      /\ Count(t, "step", Pos(t) - 1) \in Nat /\ Count(t, "agent", Pos(t) - 1) \in Nat
  BY <1>1, <1>3, Counted, "agent" # "step"
<1> QED
  BY <1>1, <1>2, <1>4 DEF Counts, Task

LEMMA StepCounts ==
  ASSUME IInv, NEW t \in Tasks, HasCall(t), Call(t).kind = "step"
  PROVE Counts(t, [tasks[t] EXCEPT !.steps = @ + 1])
<1>1. Pos(t) \in Nat \ {0} /\ Program[t][Pos(t)].kind = "step" /\ tasks[t].at = "ready" /\ tasks[t] \in Task
  BY Derived, ItemTypes DEF IInv
<1>2. tasks[t].agents = Count(t, "agent", Pos(t) - 1) /\ tasks[t].steps = Count(t, "step", Pos(t) - 1)
  BY <1>1 DEF IInv, Places, Place, Made, Calling
<1>3. Pos(t) - 1 \in Nat /\ (Pos(t) - 1) + 1 = Pos(t)
  BY <1>1
<1>4. /\ Count(t, "step", Pos(t)) = Count(t, "step", Pos(t) - 1) + 1
      /\ Count(t, "agent", Pos(t)) = Count(t, "agent", Pos(t) - 1) + 0
      /\ Count(t, "step", Pos(t) - 1) \in Nat /\ Count(t, "agent", Pos(t) - 1) \in Nat
  BY <1>1, <1>3, Counted, "agent" # "step"
<1> QED
  BY <1>1, <1>2, <1>4 DEF Counts, Task

\* What Give makes of the item.
LEMMA GiveIs ==
  ASSUME NEW t \in Tasks, NEW task \in Task, NEW v \in Values, Give(t, task, v), tasks \in [Tasks -> Task]
  PROVE /\ tasks' \in [Tasks -> Task]
        /\ \A u \in Tasks \ {t} : tasks'[u] = tasks[u]
        /\ tasks'[t].at = "ready" /\ tasks'[t].values = Append(task.values, v)
        /\ tasks'[t].branch = task.branch /\ tasks'[t].agents = task.agents /\ tasks'[t].steps = task.steps
<1> DEFINE values == Append(task.values, v)
           given == [task EXCEPT !.at = "ready", !.values = values, !.key = None, !.index = 0]
<1>1. values \in Seq(Values)
  BY Appended DEF Task
<1>2. tasks' = [tasks EXCEPT ![t] = given]
  BY DEF Give
<1> HIDE DEF values
<1>3. given \in Task /\ given.at = "ready" /\ given.values = values /\ given.branch = task.branch
      /\ given.agents = task.agents /\ given.steps = task.steps
  BY <1>1 DEF Task, None
<1> HIDE DEF given
<1> QED
  BY <1>2, <1>3 DEF values
\* A call whose result the attempt has read is given it again.
LEMMA GivenAgain ==
  ASSUME IInv, NEW t \in Tasks, tasks[t].at = "ready", Completed(prior, KeyOf(t, Pos(t))),
         NEW task, Counts(t, task), Give(t, task, prior.results[KeyOf(t, Pos(t))].value),
         UNCHANGED <<journal, prior, attempt, root, seed>>
  PROVE IInv'
<1> USE CallsAssumption DEF IInv
<1> DEFINE v == past[t][Pos(t)]
<1>1. /\ Pos(t) <= Len(past[t]) /\ v \in Values /\ Give(t, task, v)
  BY Cached
<1>2. /\ Pos(t) \in Nat \ {0} /\ past[t] \in Seq(Values) /\ Len(past[t]) \in Nat
      /\ tasks[t].values \in Seq(Values) /\ Pos(t) = Len(tasks[t].values) + 1 /\ Len(tasks[t].values) \in Nat
  BY ItemTypes DEF Pos
<1> HIDE DEF v
<1>3. /\ tasks' \in [Tasks -> Task]
      /\ \A u \in Tasks \ {t} : tasks'[u] = tasks[u]
      /\ tasks'[t].at = "ready" /\ tasks'[t].values = Append(tasks[t].values, v)
      /\ tasks'[t].branch = tasks[t].branch
      /\ tasks'[t].agents = Count(t, "agent", Pos(t)) /\ tasks'[t].steps = Count(t, "step", Pos(t))
  <2>1. task \in Task /\ tasks \in [Tasks -> Task]
    BY DEF Counts, Types
  <2>2. /\ tasks' \in [Tasks -> Task]
        /\ \A u \in Tasks \ {t} : tasks'[u] = tasks[u]
        /\ tasks'[t].at = "ready" /\ tasks'[t].values = Append(task.values, v)
        /\ tasks'[t].branch = task.branch /\ tasks'[t].agents = task.agents /\ tasks'[t].steps = task.steps
    BY <1>1, <2>1, GiveIs
  <2> QED
    BY <2>2 DEF Counts
<1>4. /\ Pos(t)' = Pos(t) + 1 /\ ~Calling(t)' /\ ~Fresh(t)'
      /\ \A p \in 1 .. Pos(t) - 1 : tasks'[t].values[p] = tasks[t].values[p]
      /\ tasks'[t].values[Pos(t)] = v
  BY <1>1, <1>2, <1>3, Appended DEF Pos, Calling, Fresh
<1>5. past' = past
  <2>1. Len(Append(task.values, v)) = Pos(t)
    BY <1>1, <1>2, Appended DEF Counts
  <2>2. ~ (Pos(t) > Len(past[t]))
    BY <1>1, <1>2
  <2>3. past' = [past EXCEPT ![t] = IF Len(Append(task.values, v)) > Len(past[t]) THEN Append(task.values, v) ELSE past[t]]
    BY <1>1 DEF Give
  <2>4. past' = [past EXCEPT ![t] = past[t]]
    BY <2>1, <2>2, <2>3
  <2> QED
    BY <2>4 DEF Types
<1>6. \A u, p : KeyOf(u, p)' = KeyOf(u, p)
  BY <1>5 DEF KeyOf, TextOf, Count, Kinds, BranchOf
<1>7. \A u \in Tasks \ {t} : Pos(u)' = Pos(u) /\ Calling(u)' = Calling(u) /\ Fresh(u)' = Fresh(u)
  BY <1>3 DEF Pos, Calling, Fresh
<1>8. Types'
  BY <1>3, <1>5 DEF Types
<1>9. Places'
  <2> SUFFICES ASSUME NEW u \in Tasks PROVE Place(u)'
    BY DEF Places
  <2>1. CASE u # t
    BY <1>3, <1>5, <2>1, PlaceKept DEF Places
  <2>2. CASE u = t
    <3>1. Made(t, "agent")' = Count(t, "agent", Pos(t)) /\ Made(t, "step")' = Count(t, "step", Pos(t))
      <4>1. (Pos(t) + 1) - 1 = Pos(t)
        BY <1>2
      <4> QED
        BY <1>4, <4>1 DEF Made, Count, Kinds
    <3>2. Place(t)
      BY DEF Places
    <3>3. \A p \in 1 .. Pos(t)' - 1 : tasks'[t].values[p] = past[t][p]
      <4> SUFFICES ASSUME NEW p \in 1 .. Pos(t)' - 1 PROVE tasks'[t].values[p] = past[t][p]
        OBVIOUS
      <4>1. p = Pos(t) \/ p \in 1 .. Pos(t) - 1
        BY <1>2, <1>4
      <4> QED
        BY <1>4, <3>2, <4>1 DEF Place, v
    <3>4. Pos(t)' - 1 <= Len(past[t]) /\ ~ (t[1] > root.round) /\ tasks'[t].branch = BranchOf(t)
      BY <1>1, <1>2, <1>3, <1>4, <3>2 DEF Place
    <3> QED
      BY <1>3, <1>4, <1>5, <2>2, <3>1, <3>2, <3>3, <3>4 DEF Place, BranchOf
  <2> QED
    BY <2>1, <2>2
<1>10. Sealed'
  <2>1. \A u \in Tasks : Given(u)'
    <3> SUFFICES ASSUME NEW u \in Tasks PROVE Given(u)'
      OBVIOUS
    <3>1. \A p \in 1 .. Len(past[u]) : p >= Pos(u)' => p >= Pos(u)
      BY <1>2, <1>4, <1>7
    <3> QED
      BY <1>5, <1>6, <3>1 DEF Sealed, Given, Completed
  <2> QED
    BY <1>5, <1>6, <2>1 DEF Sealed, Completed
<1>11. Open'
  BY <1>3, <1>4, <1>7 DEF Open, Completed
<1>12. Indexes' /\ IndexIsOwn' /\ Seeds'
  <2>1. \A u \in Tasks : tasks'[u].at = "queued" => u # t /\ tasks'[u] = tasks[u]
    BY <1>3
  <2>2. Indexes'
    BY <2>1, IndexesKept
  <2> QED
    BY <2>2 DEF IndexIsOwn, Seeds, Completed
<1> QED
  BY <1>8, <1>9, <1>10, <1>11, <1>12

\* A call whose result it has not read is made: a step runs, an agent waits for a slot.
LEMMA Begun ==
  ASSUME IInv, NEW t \in Tasks, HasCall(t), ~Completed(prior, KeyOf(t, Pos(t))),
         NEW task \in Task, Counts(t, task), task.at \in {"queued", "running"},
         task.key = KeyOf(t, Pos(t)), task.at = "queued" => Program[t][Pos(t)].kind = "agent",
         tasks' = [tasks EXCEPT ![t] = task],
         root' \in [round : 0..Rounds, fanouts : Nat, rejected : BOOLEAN, next : Nat],
         root'.round = root.round, root'.fanouts = root.fanouts,
         UNCHANGED <<journal, prior, attempt, past, seed>>
  PROVE Types' /\ Places' /\ Sealed' /\ Open' /\ IndexIsOwn' /\ Seeds'
<1> USE CallsAssumption DEF IInv
<1>1. /\ Pos(t) \in Nat \ {0} /\ Pos(t) <= Len(Program[t]) /\ tasks[t].at = "ready"
  BY Derived
<1>2. tasks'[t] = task /\ \A u \in Tasks \ {t} : tasks'[u] = tasks[u]
  BY DEF Types
<1>3. \A u, p : KeyOf(u, p)' = KeyOf(u, p)
  BY DEF KeyOf, TextOf, Count, Kinds, BranchOf
<1>4. Calling(t)' /\ \A u \in Tasks : Pos(u)' = Pos(u) /\ (u # t => Calling(u)' = Calling(u))
  BY <1>2 DEF Calling, Pos, Counts
<1>5. Types'
  BY DEF Types
<1>6. Places'
  <2> SUFFICES ASSUME NEW u \in Tasks PROVE Place(u)'
    BY DEF Places
  <2>1. CASE u # t
    BY <1>2, <2>1, PlaceKept DEF Places
  <2>2. CASE u = t
    <3>1. Made(t, "agent")' = Count(t, "agent", Pos(t)) /\ Made(t, "step")' = Count(t, "step", Pos(t))
      BY <1>4 DEF Made, Count, Kinds
    <3>2. Place(t)
      BY DEF Places
    <3> QED
      BY <1>1, <1>2, <1>3, <1>4, <2>2, <3>1, <3>2 DEF Place, Counts, BranchOf
  <2> QED
    BY <2>1, <2>2
<1>7. Sealed'
  BY <1>4, SealedKept
<1>8. Open'
  <2>1. ~Completed(journal, KeyOf(t, Pos(t)))
    BY Uncached
  <2>2. \A u \in Tasks : Calling(u)' => ~Completed(journal, tasks'[u].key)
    BY <1>2, <1>4, <2>1 DEF Open
  <2> QED
    BY <2>2 DEF Open, Completed
<1> QED
  BY <1>5, <1>6, <1>7, <1>8 DEF IndexIsOwn, Seeds, Completed
\* The key of a call that an item may make.
LEMMA KeyTyped ==
  ASSUME IInv, NEW t \in Tasks, HasCall(t)
  PROVE KeyOf(t, Pos(t)) \in Keys
<1>1. /\ Pos(t) \in Nat \ {0} /\ Pos(t) <= Len(Program[t]) /\ past[t] \in Seq(Values)
      /\ Len(past[t]) \in Nat /\ Pos(t) - 1 <= Len(past[t])
  BY Derived, ItemTypes DEF IInv, Places, Place
<1>2. Program[t][Pos(t)].kind \in {"agent", "step"}
  BY <1>1, Kind
<1>3. BranchOf(t) \in Branches
  BY CallsAssumption DEF BranchOf, Branches, Tasks
<1>4. Count(t, Program[t][Pos(t)].kind, Pos(t) - 1) \in Nat
  BY <1>1, Counted, Pos(t) - 1 \in Nat
<1>5. TextOf(t, Pos(t)) \in Values \cup {None}
  <2>1. CASE Pos(t) > 1
    <3>1. Pos(t) - 1 \in 1 .. Len(past[t])
      BY <1>1, <2>1
    <3>2. past[t][Pos(t) - 1] \in Values
      BY <1>1, <3>1
    <3> QED
      BY <3>2 DEF TextOf
  <2>2. CASE ~ (Pos(t) > 1)
    BY <2>2 DEF TextOf
  <2> QED
    BY <2>1, <2>2
<1> QED
  BY <1>2, <1>3, <1>4, <1>5 DEF KeyOf, Keys

LEMMA AgentStep ==
  ASSUME IInv, NEW t \in Tasks, agentImpl(t)
  PROVE IInv'
<1> USE CallsAssumption
<1> DEFINE key == KeyOf(t, Pos(t))
           task == [tasks[t] EXCEPT !.agents = @ + 1]
<1>1. /\ HasCall(t) /\ Call(t).kind = "agent" /\ agentKey(tasks[t], Text(t)) = key
      /\ tasks[t].at = "ready" /\ Program[t][Pos(t)].kind = "agent"
  BY Derived DEF agentImpl, IInv
<1>2. UNCHANGED <<journal, prior, attempt, seed>>
  BY DEF agentImpl
<1>3. Counts(t, task) /\ task \in Task
  BY <1>1, AgentCounts DEF Counts
<1>4. key \in Keys
  BY <1>1, KeyTyped
<1> HIDE DEF task, key
<1>5. CASE Completed(prior, key)
  <2>1. Give(t, task, prior.results[key].value) /\ UNCHANGED root
    BY <1>1, <1>5 DEF agentImpl, task
  <2> QED
    BY <1>1, <1>2, <1>3, <1>5, <2>1, GivenAgain DEF key
<1>6. CASE ~Completed(prior, key)
  <2> DEFINE index == IF key \in DOMAIN prior.index THEN prior.index[key] ELSE root.next
             queued == [task EXCEPT !.at = "queued", !.key = key, !.index = index]
  <2>1. /\ tasks' = [tasks EXCEPT ![t] = queued] /\ UNCHANGED past
        /\ root' = IF key \in DOMAIN prior.index THEN root ELSE [root EXCEPT !.next = @ + 1]
    BY <1>1, <1>6 DEF agentImpl, task
  <2>2. root.next \in Nat /\ index \in Nat
    BY DEF IInv, Types, Read
  <2> HIDE DEF index
  <2>3. /\ queued \in Task /\ Counts(t, queued) /\ queued.at = "queued" /\ queued.key = key
        /\ queued.index = index
    BY <1>3, <1>4, <2>2 DEF Counts, Task
  <2> HIDE DEF queued
  <2>4. /\ root' \in [round : 0..Rounds, fanouts : Nat, rejected : BOOLEAN, next : Nat]
        /\ root'.round = root.round /\ root'.fanouts = root.fanouts
        /\ root'.next = IF key \in DOMAIN prior.index THEN root.next ELSE root.next + 1
    <3>1. root \in [round : 0..Rounds, fanouts : Nat, rejected : BOOLEAN, next : Nat]
      BY DEF IInv, Types
    <3>2. [root EXCEPT !.next = root.next + 1] \in [round : 0..Rounds, fanouts : Nat, rejected : BOOLEAN, next : Nat]
      BY <2>2, <3>1
    <3> QED
      BY <2>1, <3>1, <3>2
  <2>5. Types' /\ Places' /\ Sealed' /\ Open' /\ IndexIsOwn' /\ Seeds'
    BY <1>1, <1>2, <1>6, <2>1, <2>3, <2>4, Begun DEF key
  <2>6. tasks'[t] = queued /\ \A u \in Tasks \ {t} : tasks'[u] = tasks[u]
    BY <2>1 DEF IInv, Types
  <2>7. /\ \A u \in Tasks \ {t} : Fresh(u)' => Fresh(u)
        /\ Fresh(t)' => key \notin DOMAIN prior.index
    BY <1>2, <2>3, <2>6 DEF Fresh
  <2>8. /\ \A k \in DOMAIN journal.index : journal.index[k] \in Nat /\ journal.index[k] < root.next
        /\ \A u \in Tasks \ {t} : Fresh(u) => tasks[u].index \in Nat /\ tasks[u].index < root.next
    <3>1. \A u \in Tasks : tasks[u].index \in Nat
      BY ItemTypes DEF IInv, Task
    <3> QED
      BY <3>1 DEF IInv, Types, Read, Indexes
  <2>9. \A u \in Tasks : tasks'[u].at = "queued" /\ tasks'[u].key \in DOMAIN prior.index
                         => tasks'[u].index = prior.index[tasks'[u].key]
    BY <2>3, <2>6 DEF IInv, Indexes, index
  <2>10. \A k \in DOMAIN journal.index : journal.index[k] < root'.next
    BY <2>2, <2>4, <2>8
  <2>11. \A u \in Tasks : Fresh(u)' =>
           /\ tasks'[u].index < root'.next
           /\ \A k \in DOMAIN journal.index : journal.index[k] # tasks'[u].index
           /\ \A w \in Tasks \ {u} : Fresh(w)' => tasks'[w].index # tasks'[u].index
    <3>1. Fresh(t)' => tasks'[t].index = root.next /\ root'.next = root.next + 1
      BY <2>3, <2>4, <2>6, <2>7 DEF index
    <3>2. \A u \in Tasks \ {t} : Fresh(u)' =>
            /\ tasks'[u].index \in Nat /\ tasks'[u].index < root.next
            /\ \A k \in DOMAIN journal.index : journal.index[k] # tasks'[u].index
            /\ \A w \in Tasks \ {u, t} : Fresh(w)' => tasks'[w].index # tasks'[u].index
      BY <2>6, <2>7, <2>8 DEF IInv, Indexes
    <3>3. \A n \in Nat : n < root.next => n # root.next /\ n < root'.next
      BY <2>2, <2>4
    <3> QED
      BY <2>2, <2>8, <3>1, <3>2, <3>3
  <2>12. Indexes'
    BY <1>2, <2>9, <2>10, <2>11 DEF IInv, Indexes
  <2> QED
    BY <2>5, <2>12 DEF IInv
<1> QED
  BY <1>5, <1>6

LEMMA StepStep ==
  ASSUME IInv, NEW t \in Tasks, stepImpl(t)
  PROVE IInv'
<1> USE CallsAssumption
<1> DEFINE key == KeyOf(t, Pos(t))
           task == [tasks[t] EXCEPT !.steps = @ + 1]
<1>1. /\ HasCall(t) /\ Call(t).kind = "step" /\ stepKey(tasks[t], Text(t)) = key
      /\ tasks[t].at = "ready" /\ Program[t][Pos(t)].kind = "step"
  BY Derived DEF stepImpl, IInv
<1>2. UNCHANGED <<journal, prior, attempt, root, seed>>
  BY DEF stepImpl
<1>3. Counts(t, task) /\ task \in Task
  BY <1>1, StepCounts DEF Counts
<1>4. key \in Keys
  BY <1>1, KeyTyped
<1> HIDE DEF task, key
<1>5. CASE Completed(prior, key)
  <2>1. Give(t, task, prior.results[key].value)
    BY <1>1, <1>5 DEF stepImpl, task
  <2> QED
    BY <1>1, <1>2, <1>3, <1>5, <2>1, GivenAgain DEF key
<1>6. CASE ~Completed(prior, key)
  <2> DEFINE running == [task EXCEPT !.at = "running", !.key = key]
  <2>1. tasks' = [tasks EXCEPT ![t] = running] /\ UNCHANGED past
    BY <1>1, <1>6 DEF stepImpl, task
  <2>2. running \in Task /\ Counts(t, running) /\ running.at = "running" /\ running.key = key
    BY <1>3, <1>4 DEF Counts, Task
  <2> HIDE DEF running
  <2>3. root' \in [round : 0..Rounds, fanouts : Nat, rejected : BOOLEAN, next : Nat]
    BY <1>2 DEF IInv, Types
  <2>4. Types' /\ Places' /\ Sealed' /\ Open' /\ IndexIsOwn' /\ Seeds'
    BY <1>1, <1>2, <1>6, <2>1, <2>2, <2>3, Begun DEF key
  <2>5. tasks'[t] = running /\ \A u \in Tasks \ {t} : tasks'[u] = tasks[u]
    BY <2>1 DEF IInv, Types
  <2>6. \A u \in Tasks : tasks'[u].at = "queued" => tasks'[u] = tasks[u]
    BY <2>2, <2>5
  <2>7. Indexes'
    BY <1>2, <2>6, IndexesKept DEF IInv
  <2> QED
    BY <2>4, <2>7 DEF IInv
<1> QED
  BY <1>5, <1>6
\* An agent that is admitted puts its index on record: one that the attempt has read, or a new one.
LEMMA AdmitStep ==
  ASSUME IInv, NEW t \in Tasks, Admit(t)
  PROVE IInv'
<1> USE CallsAssumption DEF IInv
<1> DEFINE key == tasks[t].key
           i == tasks[t].index
<1>1. /\ tasks[t].at = "queued" /\ UNCHANGED <<prior, attempt, root, past, seed>>
      /\ journal' = [journal EXCEPT !.index = With(journal.index, key, i)]
      /\ tasks' = [tasks EXCEPT ![t].at = "running"]
  BY DEF Admit
<1>2. tasks[t] \in Task /\ tasks \in [Tasks -> Task] /\ i \in Nat
  BY ItemTypes DEF Types, Task
<1> HIDE DEF key, i
<1>3. /\ tasks' \in [Tasks -> Task] /\ tasks'[t].at = "running" /\ \A u \in Tasks \ {t} : tasks'[u] = tasks[u]
      /\ tasks'[t] = [tasks[t] EXCEPT !.at = "running"]
  <2>1. [tasks[t] EXCEPT !.at = "running"] \in Task
    BY <1>2 DEF Task
  <2> QED
    BY <1>1, <1>2, <2>1
<1>4. /\ tasks'[t].values = tasks[t].values /\ tasks'[t].key = tasks[t].key /\ tasks'[t].branch = tasks[t].branch
      /\ tasks'[t].agents = tasks[t].agents /\ tasks'[t].steps = tasks[t].steps
  BY <1>2, <1>3 DEF Task
<1>5. /\ journal'.results = journal.results /\ journal'.mailed = journal.mailed
      /\ journal' = [results |-> journal'.results, index |-> journal'.index, mailed |-> journal'.mailed]
      /\ journal'.index = With(journal.index, key, i)
  BY <1>1 DEF Types, Read
<1>6. /\ DOMAIN journal'.index = DOMAIN journal.index \cup {key}
      /\ journal'.index = [k \in DOMAIN journal'.index |-> journal'.index[k]]
      /\ journal'.index[key] = i
      /\ \A k \in DOMAIN journal.index : k # key => journal'.index[k] = journal.index[k]
  <2> DEFINE f == With(journal.index, key, i)
  <2>1. /\ DOMAIN f = DOMAIN journal.index \cup {key} /\ f = [k \in DOMAIN f |-> f[k]] /\ f[key] = i
        /\ \A k \in DOMAIN journal.index : k # key => f[k] = journal.index[k]
    BY DEF With
  <2>2. journal'.index = f
    BY <1>5
  <2> HIDE DEF f
  <2> QED
    BY <2>1, <2>2
<1>7. \A k : Completed(journal', k) = Completed(journal, k)
  BY <1>5 DEF Completed
<1>8. /\ \A u \in Tasks : Pos(u)' = Pos(u) /\ Calling(u)' = Calling(u) /\ tasks'[u].key = tasks[u].key
      /\ \A u, p : KeyOf(u, p)' = KeyOf(u, p)
  <2>1. \A u \in Tasks : Pos(u)' = Pos(u) /\ Calling(u)' = Calling(u) /\ tasks'[u].key = tasks[u].key
    BY <1>1, <1>3, <1>4 DEF Pos, Calling
  <2>2. \A u, p : KeyOf(u, p)' = KeyOf(u, p)
    BY <1>1 DEF KeyOf, TextOf, Count, Kinds, BranchOf
  <2> QED
    BY <2>1, <2>2
<1>9. Types'
  <2>1. Read(journal)'
    BY <1>2, <1>5, <1>6 DEF Types, Read
  <2> QED
    BY <1>1, <1>3, <2>1 DEF Types
<1>10. Places'
  <2> SUFFICES ASSUME NEW u \in Tasks PROVE Place(u)'
    BY DEF Places
  <2>1. CASE u # t
    BY <1>1, <1>3, <2>1, PlaceKept DEF Places
  <2>2. CASE u = t
    <3>1. \A kind : Made(t, kind)' = Made(t, kind)
      BY <1>8 DEF Made, Count, Kinds
    <3>2. Place(t)
      BY DEF Places
    <3> QED
      BY <1>1, <1>3, <1>4, <1>8, <2>2, <3>1, <3>2 DEF Place, BranchOf
  <2> QED
    BY <2>1, <2>2
<1>11. Sealed'
  BY <1>1, <1>5, <1>8, SealedKept
<1>12. Open'
  BY <1>7, <1>8 DEF Open
<1>13. /\ \A u \in Tasks : Fresh(u)' => u # t /\ Fresh(u)
       /\ \A u \in Tasks : tasks'[u].at = "queued" => u # t
  BY <1>1, <1>3 DEF Fresh
\* What the invariant says of the index that goes on record.
<1>14. CASE key \in DOMAIN prior.index
  <2>1. key \in DOMAIN journal.index /\ i = journal.index[key]
    BY <1>1, <1>14 DEF Indexes, key, i
  <2>2. DOMAIN journal'.index = DOMAIN journal.index /\ \A k \in DOMAIN journal.index : journal'.index[k] = journal.index[k]
    BY <1>6, <2>1
  <2>3. Indexes'
    BY <1>1, <1>3, <1>13, <2>2 DEF Indexes
  <2>4. IndexIsOwn'
    BY <2>2 DEF IndexIsOwn
  <2> QED
    BY <1>5, <1>7, <1>1, <1>9, <1>10, <1>11, <1>12, <2>3, <2>4 DEF Seeds
<1>15. CASE key \notin DOMAIN prior.index
  <2>1. /\ i < root.next /\ \A k \in DOMAIN journal.index : journal.index[k] # i
        /\ \A u \in Tasks \ {t} : Fresh(u) => tasks[u].index # i
    BY <1>1, <1>15 DEF Indexes, Fresh, key, i
  <2>2. \A k \in DOMAIN prior.index : k \in DOMAIN journal'.index /\ journal'.index[k] = prior.index[k]
    BY <1>6, <1>15 DEF Indexes
  <2>3. \A k \in DOMAIN journal'.index : journal'.index[k] < root.next
    BY <1>6, <2>1 DEF Indexes
  <2>4. \A u \in Tasks : tasks'[u].at = "queued" /\ tasks'[u].key \in DOMAIN prior.index
                         => tasks'[u].index = prior.index[tasks'[u].key]
    BY <1>3, <1>13 DEF Indexes
  <2>5. \A u \in Tasks : Fresh(u)' =>
          /\ tasks'[u].index < root.next
          /\ \A k \in DOMAIN journal'.index : journal'.index[k] # tasks'[u].index
          /\ \A w \in Tasks \ {u} : Fresh(w)' => tasks'[w].index # tasks'[u].index
    <3> SUFFICES ASSUME NEW u \in Tasks, Fresh(u)'
                 PROVE /\ tasks'[u].index < root.next
                       /\ \A k \in DOMAIN journal'.index : journal'.index[k] # tasks'[u].index
                       /\ \A w \in Tasks \ {u} : Fresh(w)' => tasks'[w].index # tasks'[u].index
      OBVIOUS
    <3>1. u # t /\ Fresh(u) /\ tasks'[u] = tasks[u]
      BY <1>3, <1>13
    <3>2. /\ tasks[u].index < root.next
          /\ \A k \in DOMAIN journal.index : journal.index[k] # tasks[u].index
          /\ \A w \in Tasks \ {u} : Fresh(w) => tasks[w].index # tasks[u].index
      BY <3>1 DEF Indexes
    <3>3. \A k \in DOMAIN journal'.index : journal'.index[k] # tasks[u].index
      BY <1>6, <2>1, <3>1, <3>2
    <3>4. \A w \in Tasks \ {u} : Fresh(w)' => Fresh(w) /\ tasks'[w] = tasks[w]
      BY <1>3, <1>13
    <3> QED
      BY <3>1, <3>2, <3>3, <3>4
  <2>6. Indexes'
    BY <1>1, <2>2, <2>3, <2>4, <2>5 DEF Indexes
  <2>7. IndexIsOwn'
    BY <1>6, <2>1 DEF IndexIsOwn
  <2> QED
    BY <1>5, <1>7, <1>1, <1>9, <1>10, <1>11, <1>12, <2>6, <2>7 DEF Seeds
<1> QED
  BY <1>14, <1>15
-----------------------------------------------------------------------------
(* The outcomes *)

\* A record of an outcome.
LEMMA Recorded ==
  ASSUME IInv, NEW t \in Tasks, NEW status \in {"completed", "failed"}, NEW v \in Values \cup {None},
         journal' = [journal EXCEPT !.results = Record(t, status, v)]
  PROVE /\ Read(journal)' /\ journal'.index = journal.index /\ journal'.mailed = journal.mailed
        /\ \A k : k # tasks[t].key =>
             /\ Completed(journal', k) <=> Completed(journal, k)
             /\ Completed(journal, k) => journal'.results[k] = journal.results[k]
        /\ Completed(journal', tasks[t].key) <=> status = "completed"
        /\ journal'.results[tasks[t].key].value = v
<1> DEFINE key == tasks[t].key
           r == [status |-> status, value |-> v]
           f == With(journal.results, key, r)
<1>1. /\ journal'.results = f /\ journal'.index = journal.index /\ journal'.mailed = journal.mailed
      /\ journal' = [results |-> journal'.results, index |-> journal'.index, mailed |-> journal'.mailed]
  BY DEF IInv, Types, Read, Record
<1>2. r \in [status : {"completed", "failed"}, value : Values \cup {None}] /\ r.status = status /\ r.value = v
  OBVIOUS
<1> HIDE DEF r, key
<1>3. /\ DOMAIN f = DOMAIN journal.results \cup {key} /\ f = [k \in DOMAIN f |-> f[k]] /\ f[key] = r
      /\ \A k \in DOMAIN journal.results : k # key => f[k] = journal.results[k]
  BY DEF With
<1> HIDE DEF f
<1>4. Read(journal)'
  BY <1>1, <1>2, <1>3 DEF IInv, Types, Read
<1>5. \A k : k # key =>
             /\ Completed(journal', k) <=> Completed(journal, k)
             /\ Completed(journal, k) => journal'.results[k] = journal.results[k]
  BY <1>1, <1>3 DEF Completed
<1>6. (Completed(journal', key) <=> status = "completed") /\ journal'.results[key].value = v
  BY <1>1, <1>2, <1>3 DEF Completed
<1> QED
  BY <1>1, <1>4, <1>5, <1>6 DEF key

\* A call under way is the one of the item's position, and is not sealed: not in what the
\* attempt has read either, so that no value has been given at the position yet.
LEMMA UnderWay ==
  ASSUME IInv, NEW t \in Tasks, Calling(t)
  PROVE /\ tasks[t].key = KeyOf(t, Pos(t)) /\ Pos(t) <= Len(Program[t])
        /\ ~Completed(journal, tasks[t].key) /\ ~Completed(prior, tasks[t].key)
        /\ Len(past[t]) = Pos(t) - 1
<1>1. tasks[t].key = KeyOf(t, Pos(t)) /\ Pos(t) <= Len(Program[t]) /\ ~Completed(journal, tasks[t].key)
  BY DEF IInv, Places, Place, Open
<1>2. ~Completed(prior, tasks[t].key)
  BY <1>1 DEF IInv, Sealed, Completed
<1> QED
  BY <1>1, <1>2, Uncached

LEMMA FailStep ==
  ASSUME IInv, NEW t \in Tasks, Fail(t)
  PROVE IInv'
<1> USE CallsAssumption DEF IInv
<1>1. /\ tasks[t].at = "running" /\ UNCHANGED <<prior, attempt, past, seed>>
      /\ journal' = [journal EXCEPT !.results = Record(t, "failed", None)]
      /\ tasks' = [tasks EXCEPT ![t].at = "returned"]
      /\ root' = IF IsAgent(t) \/ t[1] # root.round THEN root ELSE [root EXCEPT !.rejected = TRUE]
  BY DEF Fail, Running
<1>2. Calling(t)
  BY <1>1 DEF Calling
<1>3. ~Completed(journal, tasks[t].key)
  BY <1>2, UnderWay
<1>4. /\ Read(journal)' /\ journal'.index = journal.index /\ journal'.mailed = journal.mailed
      /\ \A k : Completed(journal', k) <=> Completed(journal, k)
      /\ \A k : Completed(journal, k) => journal'.results[k].value = journal.results[k].value
  <2>1. "failed" \in {"completed", "failed"} /\ "failed" # "completed" /\ None \in Values \cup {None}
    OBVIOUS
  <2>2. /\ Read(journal)' /\ journal'.index = journal.index /\ journal'.mailed = journal.mailed
        /\ \A k : k # tasks[t].key =>
             /\ Completed(journal', k) <=> Completed(journal, k)
             /\ Completed(journal, k) => journal'.results[k] = journal.results[k]
        /\ Completed(journal', tasks[t].key) <=> "failed" = "completed"
    BY <1>1, <2>1, Recorded
  <2> QED
    BY <1>3, <2>1, <2>2
<1>5. /\ root' \in [round : 0..Rounds, fanouts : Nat, rejected : BOOLEAN, next : Nat]
      /\ root'.round = root.round /\ root'.fanouts = root.fanouts /\ root'.next = root.next
  <2>1. root \in [round : 0..Rounds, fanouts : Nat, rejected : BOOLEAN, next : Nat]
    BY DEF Types
  <2>2. [root EXCEPT !.rejected = TRUE] \in [round : 0..Rounds, fanouts : Nat, rejected : BOOLEAN, next : Nat]
    BY <2>1
  <2> QED
    BY <1>1, <2>1, <2>2
<1>6. /\ tasks' \in [Tasks -> Task] /\ \A u \in Tasks \ {t} : tasks'[u] = tasks[u]
      /\ tasks'[t].at = "returned" /\ tasks'[t].values = tasks[t].values /\ tasks'[t].branch = tasks[t].branch
  <2>1. tasks[t] \in Task /\ tasks \in [Tasks -> Task]
    BY DEF Types
  <2>2. [tasks[t] EXCEPT !.at = "returned"] \in Task
    BY <2>1 DEF Task
  <2>3. tasks' = [tasks EXCEPT ![t] = [tasks[t] EXCEPT !.at = "returned"]]
    BY <1>1
  <2> QED
    BY <2>1, <2>2, <2>3 DEF Task
<1>7. \A u \in Tasks : Pos(u)' = Pos(u) /\ (Calling(u)' => u # t /\ Calling(u) /\ tasks'[u] = tasks[u])
  BY <1>6 DEF Pos, Calling
<1>8. Types'
  BY <1>1, <1>4, <1>5, <1>6 DEF Types
<1>9. Places'
  <2> SUFFICES ASSUME NEW u \in Tasks PROVE Place(u)'
    BY DEF Places
  <2>1. CASE u # t
    BY <1>1, <1>5, <1>6, <2>1, PlaceKept DEF Places
  <2>2. CASE u = t
    <3>1. Place(t)
      BY DEF Places
    <3> QED
      BY <1>1, <1>5, <1>6, <1>7, <2>2, <3>1 DEF Place, BranchOf
  <2> QED
    BY <2>1, <2>2
<1>10. Sealed'
  BY <1>1, <1>4, <1>7, SealedStays
<1>11. Open'
  BY <1>4, <1>7 DEF Open
<1>12. Indexes'
  BY <1>1, <1>4, <1>5, <1>6, IndexesKept
<1>13. IndexIsOwn' /\ Seeds'
  BY <1>1, <1>4 DEF IndexIsOwn, Seeds
<1> QED
  BY <1>8, <1>9, <1>10, <1>11, <1>12, <1>13
\* A call that is sealed gives its item one value more than any attempt has, and only this.
LEMMA SealStep ==
  ASSUME IInv, NEW t \in Tasks, Seal(t)
  PROVE IInv'
<1> USE CallsAssumption DEF IInv
<1> DEFINE key == tasks[t].key
           v == Value(t)
           values == Append(tasks[t].values, v)
<1>1. /\ tasks[t].at = "running" /\ UNCHANGED <<prior, attempt, root, seed>>
      /\ journal' = [journal EXCEPT !.results = Record(t, "completed", v)]
      /\ Give(t, tasks[t], v)
  BY DEF Seal, Running
<1>2. Calling(t)
  BY <1>1 DEF Calling
<1>3. /\ key = KeyOf(t, Pos(t)) /\ Pos(t) <= Len(Program[t])
      /\ ~Completed(journal, key) /\ ~Completed(prior, key) /\ Len(past[t]) = Pos(t) - 1
  BY <1>2, UnderWay
<1>4. /\ Pos(t) \in Nat \ {0} /\ past[t] \in Seq(Values) /\ Len(past[t]) \in Nat
      /\ tasks[t].values \in Seq(Values) /\ Pos(t) = Len(tasks[t].values) + 1 /\ Len(tasks[t].values) \in Nat
      /\ tasks[t] \in Task /\ tasks \in [Tasks -> Task] /\ past \in [Tasks -> Seq(Values)]
  BY ItemTypes DEF Pos, Types
<1>5. v = <<t, Pos(t), attempt.n>> /\ v \in Values /\ v[1] = t /\ v[2] = Pos(t)
  BY <1>4 DEF Value, Pos, Types, Values
<1> HIDE DEF key, v
<1>6. /\ values \in Seq(Values) /\ Len(values) = Pos(t) /\ values[Pos(t)] = v
      /\ \A p \in 1 .. Pos(t) - 1 : values[p] = tasks[t].values[p] /\ values[p] = past[t][p]
  <2>1. \A p \in 1 .. Pos(t) - 1 : tasks[t].values[p] = past[t][p]
    BY DEF Places, Place
  <2> QED
    BY <1>4, <1>5, <2>1, Appended
<1> HIDE DEF values
<1>7. /\ tasks' \in [Tasks -> Task] /\ \A u \in Tasks \ {t} : tasks'[u] = tasks[u]
      /\ tasks'[t].at = "ready" /\ tasks'[t].values = values
      /\ tasks'[t].branch = tasks[t].branch /\ tasks'[t].agents = tasks[t].agents /\ tasks'[t].steps = tasks[t].steps
  BY <1>1, <1>4, <1>5, GiveIs DEF values
<1>8. /\ past' \in [Tasks -> Seq(Values)] /\ past'[t] = values /\ \A u \in Tasks \ {t} : past'[u] = past[u]
  <2>1. past' = [past EXCEPT ![t] = IF Len(values) > Len(past[t]) THEN values ELSE past[t]]
    BY <1>1 DEF Give, values
  <2>2. Len(values) > Len(past[t])
    BY <1>3, <1>4, <1>6
  <2>3. past' = [past EXCEPT ![t] = values]
    BY <2>1, <2>2
  <2> QED
    BY <1>4, <1>6, <2>3
<1>9. /\ Read(journal)' /\ journal'.index = journal.index /\ journal'.mailed = journal.mailed
      /\ \A k : k # key =>
           /\ Completed(journal', k) <=> Completed(journal, k)
           /\ Completed(journal, k) => journal'.results[k] = journal.results[k]
      /\ Completed(journal', key) /\ journal'.results[key].value = v
  BY <1>1, <1>5, Recorded DEF key
<1>10. /\ Pos(t)' = Pos(t) + 1 /\ ~Calling(t)'
       /\ \A u \in Tasks \ {t} : Pos(u)' = Pos(u) /\ Calling(u)' = Calling(u)
  BY <1>4, <1>6, <1>7 DEF Pos, Calling
\* The keys of what has been given are as they were.
<1>11. /\ \A u \in Tasks \ {t} : \A p \in Nat \ {0} : KeyOf(u, p)' = KeyOf(u, p)
       /\ \A p \in 1 .. Pos(t) : KeyOf(t, p)' = KeyOf(t, p)
  <2>1. \A u \in Tasks \ {t} : \A p \in Nat \ {0} : KeyOf(u, p)' = KeyOf(u, p)
    BY <1>8, KeyKept
  <2>2. \A p \in 1 .. Pos(t) : KeyOf(t, p)' = KeyOf(t, p)
    <3> TAKE p \in 1 .. Pos(t)
    <3>1. p > 1 => past'[t][p - 1] = past[t][p - 1]
      BY <1>4, <1>6, <1>8
    <3> QED
      BY <1>4, <3>1, KeyKept
  <2> QED
    BY <2>1, <2>2
<1>12. Types'
  BY <1>1, <1>7, <1>8, <1>9 DEF Types
<1>13. Places'
  <2> SUFFICES ASSUME NEW u \in Tasks PROVE Place(u)'
    BY DEF Places
  <2>1. CASE u # t
    BY <1>1, <1>7, <1>8, <2>1, PlaceKept DEF Places
  <2>2. CASE u = t
    <3>1. /\ Made(t, "agent")' = Count(t, "agent", Pos(t)) /\ Made(t, "step")' = Count(t, "step", Pos(t))
          /\ Made(t, "agent") = Count(t, "agent", Pos(t)) /\ Made(t, "step") = Count(t, "step", Pos(t))
      <4>1. (Pos(t) + 1) - 1 = Pos(t)
        BY <1>4
      <4> QED
        BY <1>2, <1>10, <4>1 DEF Made, Count, Kinds
    <3>2. Place(t)
      BY DEF Places
    <3>3. Pos(t)' - 1 = Pos(t) /\ Len(past'[t]) = Pos(t)
      BY <1>4, <1>6, <1>8, <1>10
    <3>4. ~ (t[1] > root.round) /\ tasks'[t].branch = BranchOf(t)
      BY <1>1, <1>7, <3>2 DEF Place
    <3>5. tasks'[t].agents = Made(t, "agent")' /\ tasks'[t].steps = Made(t, "step")'
      BY <1>1, <1>7, <3>1, <3>2 DEF Place
    <3> QED
      BY <1>1, <1>3, <1>4, <1>7, <1>8, <1>10, <2>2, <3>3, <3>4, <3>5 DEF Place, BranchOf
  <2> QED
    BY <2>1, <2>2
<1>14. \A u \in Tasks : Given(u)'
  <2> SUFFICES ASSUME NEW u \in Tasks, NEW p \in 1 .. Len(past'[u])
               PROVE /\ past'[u][p][1] = u /\ past'[u][p][2] = p
                     /\ Completed(journal', KeyOf(u, p)')
                     /\ p >= Pos(u)' => Completed(prior, KeyOf(u, p)')
    BY <1>1 DEF Given
  <2>1. CASE u # t
    <3>1. Given(u) /\ past'[u] = past[u] /\ p \in Nat \ {0} /\ KeyOf(u, p)' = KeyOf(u, p) /\ Pos(u)' = Pos(u)
      BY <1>8, <1>10, <1>11, <2>1 DEF Sealed
    <3>2. Completed(journal, KeyOf(u, p))
      BY <3>1 DEF Given
    <3> QED
      BY <1>3, <1>9, <3>1, <3>2 DEF Given
  <2>2. CASE u = t
    <3>1. p \in 1 .. Pos(t) /\ p \in Nat \ {0} /\ KeyOf(t, p)' = KeyOf(t, p) /\ ~ (p >= Pos(t)')
      BY <1>4, <1>6, <1>8, <1>10, <1>11, <2>2
    <3>2. CASE p = Pos(t)
      BY <1>3, <1>5, <1>6, <1>8, <1>9, <2>2, <3>1, <3>2
    <3>3. CASE p # Pos(t)
      <4>1. p \in 1 .. Pos(t) - 1 /\ p \in 1 .. Len(past[t])
        BY <1>3, <1>4, <3>1, <3>3
      <4>2. past[t][p][1] = t /\ past[t][p][2] = p /\ Completed(journal, KeyOf(t, p))
        BY <4>1 DEF Sealed, Given
      <4> QED
        BY <1>3, <1>6, <1>8, <1>9, <2>2, <3>1, <4>1, <4>2
    <3> QED
      BY <3>2, <3>3
  <2> QED
    BY <2>1, <2>2
<1>15. ASSUME NEW k \in DOMAIN journal'.results, Completed(journal', k)
       PROVE \E u \in Tasks : \E p \in 1 .. Len(past'[u]) :
               k = KeyOf(u, p)' /\ journal'.results[k].value = past'[u][p]
  <2>1. CASE k = key
    <3>1. Pos(t) \in 1 .. Len(past'[t]) /\ k = KeyOf(t, Pos(t)) /\ journal'.results[k].value = past'[t][Pos(t)]
      BY <1>3, <1>4, <1>6, <1>8, <1>9, <2>1
    <3>2. \A p \in 1 .. Pos(t) : p = Pos(t) => k = KeyOf(t, p)'
      BY <1>11, <3>1
    <3>3. \E p \in 1 .. Len(past'[t]) : k = KeyOf(t, p)' /\ journal'.results[k].value = past'[t][p]
      BY <1>4, <3>1, <3>2
    <3> QED
      BY <3>3
  <2>2. CASE k # key
    <3>1. Completed(journal, k) /\ journal'.results[k].value = journal.results[k].value
      BY <1>9, <1>15, <2>2
    <3>2. PICK u \in Tasks : \E p \in 1 .. Len(past[u]) :
            k = KeyOf(u, p) /\ journal.results[k].value = past[u][p]
      BY <3>1 DEF Sealed, Completed
    <3>3. PICK p \in 1 .. Len(past[u]) : k = KeyOf(u, p) /\ journal.results[k].value = past[u][p]
      BY <3>2
    <3>4. p \in 1 .. Len(past'[u]) /\ past'[u][p] = past[u][p] /\ KeyOf(u, p)' = KeyOf(u, p)
      <4>1. CASE u # t
        BY <1>8, <1>11, <3>3, <4>1
      <4>2. CASE u = t
        <5>1. p \in 1 .. Pos(t) - 1 /\ p \in 1 .. Pos(t)
          BY <1>3, <1>4, <3>3, <4>2
        <5> QED
          BY <1>4, <1>6, <1>8, <1>11, <4>2, <5>1
      <4> QED
        BY <4>1, <4>2
    <3> QED
      BY <3>1, <3>3, <3>4
  <2> QED
    BY <2>1, <2>2
<1>16. Sealed'
  <2>1. \A k \in DOMAIN prior.results : Completed(prior, k) =>
          Completed(journal', k) /\ journal'.results[k].value = prior.results[k].value
    BY <1>3, <1>9 DEF Sealed
  <2> QED
    BY <1>1, <1>14, <1>15, <2>1 DEF Sealed
<1>17. Open'
  <2> SUFFICES ASSUME NEW u \in Tasks, Calling(u)' PROVE ~Completed(journal', tasks'[u].key)
    BY DEF Open
  <2>1. u # t /\ Calling(u) /\ tasks'[u] = tasks[u]
    BY <1>7, <1>10
  <2>2. tasks[u].key = KeyOf(u, Pos(u)) /\ ~Completed(journal, tasks[u].key) /\ Pos(u) \in Nat \ {0}
    BY <2>1, UnderWay, ItemTypes
  <2>3. tasks[u].key # key
    BY <1>3, <1>4, <2>1, <2>2, KeyIsOwn
  <2> QED
    BY <1>9, <2>1, <2>2, <2>3
<1>18. Indexes'
  BY <1>1, <1>7, <1>9, IndexesKept
<1>19. IndexIsOwn' /\ Seeds'
  <2>1. \A k : Completed(journal, k) => k # key
    BY <1>3
  <2> QED
    BY <1>1, <1>9, <2>1 DEF IndexIsOwn, Seeds
<1> QED
  BY <1>12, <1>13, <1>16, <1>17, <1>18, <1>19

\* Mail marks a call that is not sealed.
LEMMA MailStep ==
  ASSUME IInv, NEW t \in Tasks, Mail(t)
  PROVE IInv'
<1> USE CallsAssumption DEF IInv
<1>1. /\ tasks[t].at = "running" /\ UNCHANGED <<prior, attempt, root, tasks, past, seed>>
      /\ journal' = [journal EXCEPT !.mailed = @ \cup {tasks[t].key}]
  BY DEF Mail, Running
<1>2. ~Completed(journal, tasks[t].key)
  BY <1>1 DEF Open, Calling
<1>3. /\ journal'.results = journal.results /\ journal'.index = journal.index
      /\ journal'.mailed = journal.mailed \cup {tasks[t].key}
      /\ journal' = [results |-> journal'.results, index |-> journal'.index, mailed |-> journal'.mailed]
  BY <1>1 DEF Types, Read
<1>4. \A k : Completed(journal', k) <=> Completed(journal, k)
  BY <1>3 DEF Completed
<1>5. \A u \in Tasks : Pos(u)' = Pos(u) /\ Calling(u)' = Calling(u)
  BY <1>1 DEF Pos, Calling
<1>6. Types'
  <2>1. Read(journal)'
    BY <1>3 DEF Types, Read
  <2> QED
    BY <1>1, <2>1 DEF Types
<1>7. Places'
  BY <1>1, PlaceKept DEF Places
<1>8. Sealed'
  BY <1>1, <1>3, <1>5, SealedKept
<1>9. Open'
  BY <1>1, <1>4, <1>5 DEF Open
<1>10. Indexes' /\ IndexIsOwn'
  BY <1>1, <1>3, IndexesKept DEF IndexIsOwn
<1>11. Seeds'
  BY <1>1, <1>2, <1>3, <1>4 DEF Seeds
<1> QED
  BY <1>6, <1>7, <1>8, <1>9, <1>10, <1>11

\* A seed is read and looked over while this run goes on.
LEMMA SeedStep ==
  ASSUME IInv, SeedLoad \/ SeedLook
  PROVE IInv'
<1> USE DEF IInv
<1>1. UNCHANGED <<journal, prior, attempt, root, tasks, past>>
  BY DEF SeedLoad, SeedLook
<1>2. \A u \in Tasks : Pos(u)' = Pos(u) /\ Calling(u)' = Calling(u)
  BY <1>1 DEF Pos, Calling
<1>3. Places' /\ Sealed' /\ Open' /\ Indexes' /\ IndexIsOwn'
  <2>1. Places'
    BY <1>1, PlaceKept DEF Places
  <2>2. Sealed'
    BY <1>1, <1>2, SealedKept
  <2>3. Indexes'
    BY <1>1, IndexesKept
  <2> QED
    BY <1>1, <1>2, <2>1, <2>2, <2>3 DEF Open, Completed, IndexIsOwn
<1>4. CASE SeedLoad
  <2>1. seed' = [at |-> "loaded", results |-> SeedResults]
    BY <1>4 DEF SeedLoad
  <2>2. \A s \in SeedResults :
          Completed(journal, s[1]) /\ journal.results[s[1]].value = s[2] /\ s[1] \notin journal.mailed
    BY DEF SeedResults
  <2>3. Seeds'
    BY <1>1, <2>1, <2>2 DEF Seeds, Completed
  <2>4. Types'
    BY <1>1, <2>1 DEF Types
  <2> QED
    BY <1>3, <2>3, <2>4
<1>5. CASE SeedLook
  <2>1. /\ seed.at = "loaded"
        /\ seed' = [at |-> "none", results |-> {}] \/ seed' = [seed EXCEPT !.at = "taken"]
    BY <1>5 DEF SeedLook
  <2>2. seed' = [at |-> seed'.at, results |-> seed'.results] /\ (seed'.results = {} \/ seed'.results = seed.results)
    BY <2>1 DEF Types
  <2>3. Seeds'
    BY <1>1, <2>1, <2>2 DEF Seeds, Completed
  <2>4. Types'
    BY <1>1, <2>2 DEF Types
  <2> QED
    BY <1>3, <2>3, <2>4
<1> QED
  BY <1>4, <1>5
-----------------------------------------------------------------------------
(* The run *)

LEMMA Stutter ==
  ASSUME IInv, UNCHANGED vars
  PROVE IInv'
<1>1. UNCHANGED <<journal, prior, attempt, root, tasks, past, seed>>
  BY DEF vars
<1>2. \A u \in Tasks : Pos(u)' = Pos(u) /\ Calling(u)' = Calling(u)
  BY <1>1 DEF Pos, Calling
<1>3. Places'
  BY <1>1, PlaceKept DEF IInv, Places
<1>4. Sealed'
  BY <1>1, <1>2, SealedKept DEF IInv
<1>5. Indexes'
  BY <1>1, IndexesKept DEF IInv
<1>6. Types' /\ Open' /\ IndexIsOwn' /\ Seeds'
  BY <1>1, <1>2 DEF IInv, Types, Read, Open, Completed, IndexIsOwn, Seeds
<1> QED
  BY <1>3, <1>4, <1>5, <1>6 DEF IInv

LEMMA Inductive == IInv /\ [Next]_vars => IInv'
<1> SUFFICES ASSUME IInv, [Next]_vars PROVE IInv'
  OBVIOUS
<1>1. CASE Fanout
  BY <1>1, FanoutStep
<1>2. CASE End \/ Crash
  BY <1>2, EndStep
<1>3. CASE Attempt
  BY <1>3, AttemptStep
<1>4. CASE SeedLoad \/ SeedLook
  BY <1>4, SeedStep
<1>5. ASSUME NEW t \in Tasks, agentImpl(t) \/ Admit(t) \/ stepImpl(t) \/ Seal(t) \/ Fail(t) \/ Mail(t)
      PROVE IInv'
  BY <1>5, AgentStep, AdmitStep, StepStep, SealStep, FailStep, MailStep
<1>6. CASE UNCHANGED vars
  BY <1>6, Stutter
<1> QED
  BY <1>1, <1>2, <1>3, <1>4, <1>5, <1>6 DEF Next

\* The invariant holds of every run of every workflow.
THEOREM Invariance == Spec => []IInv
<1>1. Init => IInv
  BY InitHolds
<1>2. IInv /\ [Next]_vars => IInv'
  BY Inductive
<1> QED
  BY <1>1, <1>2, PTL DEF Spec

\* Whatever the order in which the calls of the items interleave, and wherever an attempt
\* dies: an item is given what its own calls produced, and in a later attempt the same again
\* (agentImpl and stepImpl of the toolkit, under the keys of keys.js).
THEOREM ReplayHolds == Spec => []ReplayAgrees
<1>1. IInv => ReplayAgrees
  <2> SUFFICES ASSUME IInv, NEW t \in Tasks, NEW p \in 1 .. Len(tasks[t].values)
               PROVE tasks[t].values[p][1] = t /\ tasks[t].values[p][2] = p /\ tasks[t].values[p] = past[t][p]
    BY DEF ReplayAgrees
  <2>1. /\ Pos(t) - 1 = Len(tasks[t].values) /\ Len(past[t]) \in Nat /\ Len(tasks[t].values) \in Nat
        /\ Len(tasks[t].values) <= Len(past[t])
    BY ItemTypes DEF IInv, Places, Place, Pos
  <2>2. p \in 1 .. Pos(t) - 1 /\ p \in 1 .. Len(past[t])
    BY <2>1
  <2>3. tasks[t].values[p] = past[t][p]
    BY <2>2 DEF IInv, Places, Place
  <2>4. past[t][p][1] = t /\ past[t][p][2] = p
    BY <2>2 DEF IInv, Sealed, Given
  <2> QED
    BY <2>3, <2>4
<1> QED
  BY <1>1, Invariance, PTL

\* No two agents are given one index, though it is handed out when the agent is asked for and
\* put on record only when it is admitted, which an engine that dies may never come to.
THEOREM IndexHolds == Spec => []IndexIsOwn
<1>1. IInv => IndexIsOwn
  BY DEF IInv
<1> QED
  BY <1>1, Invariance, PTL

\* What a run takes as its seed is sealed and no mail has shaped it, though it is read before
\* anybody looks whether this run still lives.
THEOREM SeedHolds == Spec => []SeedIsSealed
<1>1. IInv => SeedIsSealed
  BY DEF IInv, Seeds, SeedIsSealed
<1> QED
  BY <1>1, Invariance, PTL

\* A sealed call is never run again, in this attempt or a later one, and no later record takes
\* the place of its own.
THEOREM SealedHolds == Spec => SealedIsFinal
<1> DEFINE Final == \A k \in DOMAIN journal.results : Completed(journal, k) =>
                      /\ journal'.results[k] = journal.results[k]
                      /\ \A n \in 1 .. MaxAttempts : <<k, n>> \in ran' => <<k, n>> \in ran
<1>1. IInv /\ [Next]_vars => [Final]_vars
  <2> SUFFICES ASSUME IInv, [Next]_vars, NEW k, Completed(journal, k)
               PROVE journal'.results[k] = journal.results[k]
                     /\ \A n \in 1 .. MaxAttempts : <<k, n>> \in ran' => <<k, n>> \in ran
    BY DEF Completed
  <2>1. CASE Fanout \/ End \/ Crash \/ Attempt \/ SeedLoad \/ SeedLook
    BY <2>1 DEF Fanout, End, Crash, Attempt, SeedLoad, SeedLook
  <2>2. ASSUME NEW t \in Tasks, agentImpl(t) \/ Mail(t)
        PROVE UNCHANGED ran /\ journal'.results = journal.results
    BY <2>2 DEF agentImpl, Mail, IInv, Types, Read
  <2>3. ASSUME NEW t \in Tasks, Admit(t)
        PROVE ran' = ran \cup {<<tasks[t].key, attempt.n>>} /\ journal'.results = journal.results /\ k # tasks[t].key
    <3>1. ran' = ran \cup {<<tasks[t].key, attempt.n>>} /\ journal'.results = journal.results /\ Calling(t)
      BY <2>3 DEF Admit, IInv, Types, Read, Calling
    <3> QED
      BY <3>1, UnderWay
  <2>4. ASSUME NEW t \in Tasks, stepImpl(t)
        PROVE journal' = journal /\ \A n : <<k, n>> \in ran' => <<k, n>> \in ran
    <3>1. /\ HasCall(t) /\ Call(t).kind = "step" /\ stepKey(tasks[t], Text(t)) = KeyOf(t, Pos(t))
      BY <2>4, Derived DEF stepImpl, IInv
    <3>2. UNCHANGED journal /\
          IF Completed(prior, KeyOf(t, Pos(t))) THEN UNCHANGED ran
          ELSE ran' = ran \cup {<<KeyOf(t, Pos(t)), attempt.n>>}
      BY <2>4, <3>1 DEF stepImpl
    <3>3. ~Completed(prior, KeyOf(t, Pos(t))) => k # KeyOf(t, Pos(t))
      BY Uncached
    <3> QED
      BY <3>2, <3>3
  <2>5. ASSUME NEW t \in Tasks, Seal(t) \/ Fail(t)
        PROVE UNCHANGED ran /\ journal'.results[k] = journal.results[k]
    <3>1. UNCHANGED ran /\ Calling(t)
      BY <2>5 DEF Seal, Fail, Running, Calling
    <3>2. k # tasks[t].key
      BY <3>1, UnderWay
    <3>3. CASE Seal(t)
      <4>1. Value(t) \in Values \cup {None} /\ journal' = [journal EXCEPT !.results = Record(t, "completed", Value(t))]
        BY <3>3, ItemTypes DEF Seal, Value, Values, IInv, Types
      <4> QED
        BY <3>1, <3>2, <4>1, Recorded
    <3>4. CASE Fail(t)
      <4>1. None \in Values \cup {None} /\ journal' = [journal EXCEPT !.results = Record(t, "failed", None)]
        BY <3>4 DEF Fail
      <4> QED
        BY <3>1, <3>2, <4>1, Recorded
    <3> QED
      BY <2>5, <3>3, <3>4
  <2>6. CASE UNCHANGED vars
    BY <2>6 DEF vars
  <2> QED
    BY <2>1, <2>2, <2>3, <2>4, <2>5, <2>6 DEF Next
<1> QED
  BY <1>1, Invariance, PTL DEF Spec, SealedIsFinal
=============================================================================
