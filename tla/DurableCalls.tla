------------------------------ MODULE DurableCalls ------------------------------
(***************************************************************************)
(* The calls of a workflow, agents and durable steps, over attempts that   *)
(* may die at any point: each call derives a key from its branch and the   *)
(* branch's own counters, runs unless the journal read at the start has    *)
(* its completed result, and seals its outcome in the journal.  The root   *)
(* of the workflow opens one fan-out (parallel) after another; a rejected  *)
(* one lets it go on while the other items still run.  Another run may     *)
(* take this one's results as its seed meanwhile.                          *)
(*                                                                         *)
(* The journal is kept as Journal.load reads it back (the last record of a *)
(* key wins).  Admission, mail and usage are in modules of their own.      *)
(***************************************************************************)
EXTENDS Naturals, Sequences, FiniteSets

CONSTANTS
  Rounds,        \* the fan-outs of the root, in order
  Items,         \* the items of each
  Program,       \* what each item of each fan-out does: its calls in order, each with its
                 \* kind and whether its text has the value of the call before in it
  MaxAttempts,   \* bound: attempts of the run
  MaxMailed      \* bound: calls that mail is accepted for

Tasks == (1 .. Rounds) \X Items

ASSUME CallsAssumption ==
  /\ Rounds \in Nat \ {0} /\ MaxAttempts \in Nat \ {0} /\ MaxMailed \in Nat
  /\ Program \in [Tasks -> Seq([kind : {"agent", "step"}, chained : BOOLEAN])]

None == <<>>

VARIABLES
  journal,   \* results: key -> [status, value]; index: key -> agent index; mailed: keys
  prior,     \* the journal as this attempt has read it
  attempt,   \* its number, and whether its engine lives
  root,      \* the fan-out it has come to, the root branch's counter, and the next agent index
  tasks,     \* the items: where each stands, and the values it has been given
  ran,       \* history: the executions, each a key in an attempt
  past,      \* history: the values an item has been given, in the attempt that got furthest
  seed       \* what another run takes from this one

vars == <<journal, prior, attempt, root, tasks, ran, past, seed>>

Empty == [results |-> <<>>, index |-> <<>>, mailed |-> {}]
Off == [at |-> "off", branch |-> None, agents |-> 0, steps |-> 0, values |-> <<>>,
        key |-> None, index |-> 0]
Start == [round |-> 0, fanouts |-> 0, rejected |-> FALSE, next |-> 0]

Init ==
  /\ journal = Empty /\ prior = Empty
  /\ attempt = [n |-> 0, lives |-> FALSE]
  /\ root = Start
  /\ tasks = [t \in Tasks |-> Off]
  /\ ran = {} /\ past = [t \in Tasks |-> <<>>]
  /\ seed = [at |-> "none", results |-> {}]

With(f, k, v) == [x \in DOMAIN f \cup {k} |-> IF x = k THEN v ELSE f[x]]
Completed(j, k) == k \in DOMAIN j.results /\ j.results[k].status = "completed"

-----------------------------------------------------------------------------
(* Keys: a function of the branch, never of the order in which calls are made *)

\* A slip: one node for every fan-out of the branch.
deriveBranch_NoOrdinal(ordinal, item) == <<0, item>>

deriveBranch(ordinal, item) == <<ordinal, item>>
agentKey(task, text) == <<task.branch, "agent", task.agents, text>>
stepKey(task, text) == <<task.branch, "step", task.steps, text>>

Call(t) == Program[t][Len(tasks[t].values) + 1]
HasCall(t) == tasks[t].at = "ready" /\ Len(tasks[t].values) < Len(Program[t])
Text(t) ==
  IF Call(t).chained /\ tasks[t].values # <<>> THEN tasks[t].values[Len(tasks[t].values)] ELSE None

-----------------------------------------------------------------------------
(* The root *)

Ended(t) == tasks[t].at = "returned" \/ (tasks[t].at = "ready" /\ ~HasCall(t))
Joined == root.rejected \/ \A t \in Tasks : t[1] = root.round => Ended(t)

\* parallel: a node of its own for every fan-out of the branch.
Fanout ==
  /\ attempt.lives /\ Joined /\ root.round < Rounds
  /\ root' = [root EXCEPT !.round = @ + 1, !.fanouts = @ + 1, !.rejected = FALSE]
  /\ tasks' = [t \in Tasks |->
       IF t[1] = root.round + 1
         THEN [Off EXCEPT !.at = "ready", !.branch = deriveBranch(root.fanouts, t[2])] ELSE tasks[t]]
  /\ UNCHANGED <<journal, prior, attempt, ran, past, seed>>

\* The end waits for the items a rejected fan-out has left behind.
Drained == \A t \in Tasks : tasks[t].at = "off" \/ Ended(t)
End ==
  /\ attempt.lives /\ root.round = Rounds /\ Joined /\ Drained
  /\ attempt' = [attempt EXCEPT !.lives = FALSE]
  /\ UNCHANGED <<journal, prior, root, tasks, ran, past, seed>>

Crash ==
  /\ attempt.lives
  /\ attempt' = [attempt EXCEPT !.lives = FALSE]
  /\ UNCHANGED <<journal, prior, root, tasks, ran, past, seed>>

\* A slip: new agents are numbered by how many there are on record.
NextIndex_Count(j) == Cardinality(DOMAIN j.index)

\* The next attempt reads the journal, and numbers new agents from the last it finds.
NextIndex(j) ==
  IF j.index = <<>> THEN 0
  ELSE 1 + CHOOSE n \in {j.index[k] : k \in DOMAIN j.index} : \A k \in DOMAIN j.index : j.index[k] <= n

\* A slip: the journal is read before the lock is held: it may be that of the attempt before.
Attempt_EarlyRead ==
  /\ ~attempt.lives /\ attempt.n < MaxAttempts
  /\ attempt' = [n |-> attempt.n + 1, lives |-> TRUE]
  /\ prior' \in {prior, journal}
  /\ root' = [Start EXCEPT !.next = NextIndex(journal)]
  /\ tasks' = [t \in Tasks |-> Off]
  /\ UNCHANGED <<journal, ran, past, seed>>

Attempt ==
  /\ ~attempt.lives /\ attempt.n < MaxAttempts
  /\ attempt' = [n |-> attempt.n + 1, lives |-> TRUE]
  /\ prior' = journal
  /\ root' = [Start EXCEPT !.next = NextIndex(journal)]
  /\ tasks' = [t \in Tasks |-> Off]
  /\ UNCHANGED <<journal, ran, past, seed>>

-----------------------------------------------------------------------------
(* A call *)

\* An item is given a value, and the workflow goes on from it.
Give(t, task, v) ==
  LET values == Append(task.values, v) IN
  /\ tasks' = [tasks EXCEPT ![t] = [task EXCEPT !.at = "ready", !.values = values, !.key = None, !.index = 0]]
  /\ past' = [past EXCEPT ![t] = IF Len(values) > Len(@) THEN values ELSE @]

Value(t) == <<t, Len(tasks[t].values) + 1, attempt.n>>

agentImpl(t) ==
  /\ attempt.lives /\ HasCall(t) /\ Call(t).kind = "agent"
  /\ LET key == agentKey(tasks[t], Text(t))
         task == [tasks[t] EXCEPT !.agents = @ + 1]
     IN IF Completed(prior, key)
          THEN Give(t, task, prior.results[key].value) /\ UNCHANGED root
          ELSE /\ tasks' = [tasks EXCEPT ![t] =
                    [task EXCEPT !.at = "queued", !.key = key,
                       !.index = IF key \in DOMAIN prior.index THEN prior.index[key] ELSE root.next]]
               /\ root' = IF key \in DOMAIN prior.index THEN root ELSE [root EXCEPT !.next = @ + 1]
               /\ UNCHANGED past
  /\ UNCHANGED <<journal, prior, attempt, ran, seed>>

\* A slot is free: the agent starts, and only now is its index on record.
Admit(t) ==
  /\ attempt.lives /\ tasks[t].at = "queued"
  /\ journal' = [journal EXCEPT !.index = With(@, tasks[t].key, tasks[t].index)]
  /\ tasks' = [tasks EXCEPT ![t].at = "running"]
  /\ ran' = ran \cup {<<tasks[t].key, attempt.n>>}
  /\ UNCHANGED <<prior, attempt, root, past, seed>>

stepImpl(t) ==
  /\ attempt.lives /\ HasCall(t) /\ Call(t).kind = "step"
  /\ LET key == stepKey(tasks[t], Text(t))
         task == [tasks[t] EXCEPT !.steps = @ + 1]
     IN IF Completed(prior, key)
          THEN Give(t, task, prior.results[key].value) /\ UNCHANGED ran
          ELSE /\ tasks' = [tasks EXCEPT ![t] = [task EXCEPT !.at = "running", !.key = key]]
               /\ ran' = ran \cup {<<key, attempt.n>>}
               /\ UNCHANGED past
  /\ UNCHANGED <<journal, prior, attempt, root, seed>>

Running(t) == attempt.lives /\ tasks[t].at = "running"
IsAgent(t) == Call(t).kind = "agent"

Record(t, status, v) == With(journal.results, tasks[t].key, [status |-> status, value |-> v])

\* The completed record seals the outcome: whatever its telemetry runs into afterwards,
\* the call returns.
Seal(t) ==
  /\ Running(t)
  /\ journal' = [journal EXCEPT !.results = Record(t, "completed", Value(t))]
  /\ Give(t, tasks[t], Value(t))
  /\ UNCHANGED <<prior, attempt, root, ran, seed>>

\* A failed agent is null to its fan-out; a failed step rejects it.
Fail(t) ==
  /\ Running(t)
  /\ journal' = [journal EXCEPT !.results = Record(t, "failed", None)]
  /\ tasks' = [tasks EXCEPT ![t].at = "returned"]
  /\ root' = IF IsAgent(t) \/ t[1] # root.round THEN root ELSE [root EXCEPT !.rejected = TRUE]
  /\ UNCHANGED <<prior, attempt, ran, past, seed>>

\* Steering mail is accepted for an agent that runs.
Mail(t) ==
  /\ Running(t) /\ IsAgent(t) /\ Cardinality(journal.mailed) < MaxMailed
  /\ journal' = [journal EXCEPT !.mailed = @ \cup {tasks[t].key}]
  /\ UNCHANGED <<prior, attempt, root, tasks, ran, past, seed>>

-----------------------------------------------------------------------------
(* Another run's --seed-from: the journal is read first, and only then does
   the reader ask whether anybody still writes it. *)

\* A slip: steered results are taken like the others.
SeedResults_Mailed ==
  {<<k, journal.results[k].value>> : k \in
     {x \in DOMAIN journal.results : x[2] = "agent" /\ Completed(journal, x)}}

SeedResults ==
  {<<k, journal.results[k].value>> : k \in
     {x \in DOMAIN journal.results \ journal.mailed : x[2] = "agent" /\ Completed(journal, x)}}

SeedLoad ==
  /\ seed.at = "none" /\ attempt.n > 0
  /\ seed' = [at |-> "loaded", results |-> SeedResults]
  /\ UNCHANGED <<journal, prior, attempt, root, tasks, ran, past>>
SeedLook ==
  /\ seed.at = "loaded"
  /\ seed' = IF attempt.lives THEN [at |-> "none", results |-> {}] ELSE [seed EXCEPT !.at = "taken"]
  /\ UNCHANGED <<journal, prior, attempt, root, tasks, ran, past>>

Next ==
  \/ Fanout \/ End \/ Crash \/ Attempt \/ SeedLoad \/ SeedLook
  \/ \E t \in Tasks : agentImpl(t) \/ Admit(t) \/ stepImpl(t) \/ Seal(t) \/ Fail(t) \/ Mail(t)

Spec == Init /\ [][Next]_vars

-----------------------------------------------------------------------------

\* An item is given what its own calls produced, and the same again in every attempt, as
\* far as one has come: whatever the order in which the items' calls were made, and
\* whichever of them ran on after their fan-out was given up.
ReplayAgrees ==
  \A t \in Tasks :
    \A p \in 1 .. Len(tasks[t].values) :
      /\ tasks[t].values[p][1] = t /\ tasks[t].values[p][2] = p
      /\ tasks[t].values[p] = past[t][p]

\* A sealed call is never run again, and its record is the last word on it.
SealedIsFinal ==
  [][\A k \in DOMAIN journal.results : Completed(journal, k) =>
       /\ journal'.results[k] = journal.results[k]
       /\ \A n \in 1 .. MaxAttempts : <<k, n>> \in ran' => <<k, n>> \in ran]_vars

\* Two agents never share an index (their transcript, and the name mail is sent to).
IndexIsOwn ==
  \A k, l \in DOMAIN journal.index : journal.index[k] = journal.index[l] => k = l

\* What a run takes as its seed are sealed results that no mail has shaped, though it has
\* read them while the run they are of may still have been writing.
SeedIsSealed ==
  seed.at = "taken" => \A s \in seed.results :
    /\ Completed(journal, s[1]) /\ journal.results[s[1]].value = s[2]
    /\ s[1] \notin journal.mailed
=============================================================================
