----------------------------- MODULE ViewerStream -----------------------------
(***************************************************************************)
(* A run page following a run: the engine appends to the run's two files,  *)
(* the viewer server tails them into one stream of server-sent events, and *)
(* the page folds what arrives into what it shows.  Connections drop and   *)
(* are resumed from a cursor; a run ends, which closes the stream, and is  *)
(* resumed, which the page notices by polling; an engine may die in the    *)
(* middle of a record.                                                     *)
(*                                                                         *)
(* A file is a sequence of cells, two to a record, the second ending with  *)
(* the newline: an offset counts cells.  A read returns at most MaxRead    *)
(* cells, a batch holds at most MaxBatch records, and the server stops     *)
(* reading once MaxWire frames are on their way.                           *)
(***************************************************************************)
EXTENDS Integers, Sequences, FiniteSets, SequencesExt

CONSTANTS
  MaxRead,      \* MAX_READ_BYTES, in cells
  MaxBatch,     \* MAX_BATCH_RECORDS and MAX_BATCH_BYTES
  MaxWire,      \* what the sockets of a connection hold
  MaxEvents,    \* bound: records of events.jsonl up to which work is recorded
  MaxFacts,     \* bound: records of journal.jsonl but for the first
  MaxHitches,     \* bound: connections that break, requests that fail, answers that come late
  MaxResumes    \* bound: resumes of the run

ASSUME StreamAssumption ==
  /\ MaxRead \in Nat \ {0} /\ MaxBatch \in Nat \ {0} /\ MaxWire \in Nat \ {0}
  /\ {MaxEvents, MaxFacts, MaxHitches, MaxResumes} \subseteq Nat

Streams == {"e", "j"}
None == "none"
NoId == << >>
NoAsk == [at |-> "none"]

\* A run event opens or ends an attempt; the journal's meta records are not streamed.

VARIABLES
  file,       \* the two files
  engine,     \* the engine: starting, running, ending, done, crashed
  resumes,
  (* the server's side of the connection *)
  up,         \* its phase: down, fresh (nothing drained), drained, live
  read,       \* ByteTail.readOffset
  pend,       \* ByteTail.pending
  cursor,     \* StreamConnection.cursor
  ended,      \* terminalFold: a terminal run event was read
  quiet,      \* quietCloseMs have passed since the last read
  wire,       \* frames written and not received
  hitches,    \* how many of MaxHitches have happened
  (* the page *)
  es,         \* EventSource: none, open, retrying (the browser reconnects), closed (connect() does)
  lastId,     \* its Last-Event-ID
  seen,       \* the client's cursor
  first,      \* firstSeen
  resetHere,  \* resetThisConnection
  status,     \* connecting, ended; endPending
  view,       \* what the page folded
  base,       \* resumeCount of the seeding snapshot, -1 before it
  ask,        \* the newest snapshot request, and its answer
  adrift,     \* history: streams whose tail was overtaken by a rewrite
  misread     \* history: streams of which the page got, or may yet get, what such a tail read

server == <<up, read, pend, cursor, ended, quiet>>
client == <<es, lastId, seen, first, resetHere, status, view, base, ask>>
run == <<file, engine, resumes>>
history == <<adrift, misread>>
vars == <<run, server, wire, hitches, client, history>>

-----------------------------------------------------------------------------
(* Files *)

Body(r) == <<r, "body">>
Close(r) == <<r, "newline">>
Line(r) == <<Body(r), Close(r)>>
Size(s) == Len(file[s])
EndsLine(f, p) == f[p][2] = "newline"
\* The line that ends at p is a record of its own: JSON.parse accepts it.
Parses(f, p) ==
  /\ EndsLine(f, p) /\ p > 1 /\ f[p - 1] = Body(f[p][1])
  /\ (p = 2 \/ EndsLine(f, p - 2))
LastEnd(f) == Max({0} \cup {p \in DOMAIN f : EndsLine(f, p)})
Torn(f) == LastEnd(f) < Len(f)
\* The records of a file that the stream forwards, in order: the journal's meta, its
\* starts and its end the server keeps to itself.
Forwarded(r) == r.kind # "private"
Shows(f, p) == Parses(f, p) /\ Forwarded(f[p][1])
RecordsTo(f) ==
  LET upTo[p \in 0..Len(f)] ==
        IF p = 0 THEN << >>
        ELSE IF Shows(f, p) THEN Append(upTo[p - 1], f[p][1]) ELSE upTo[p - 1]
  IN upTo
Records(f) == RecordsTo(f)[Len(f)]
\* The folded run is over: its last run event is a terminal one.
RunEvents(v) == SelectSeq(v, LAMBDA r : r.kind \in {"open", "end"})
Terminal(v) == RunEvents(v) # << >> /\ Last(RunEvents(v)).kind = "end"
Resumed(v) == Cardinality({k \in DOMAIN v : v[k].kind = "open"})

\* deriveRunState: an engine with the lock is running, whatever it wrote.
Derived ==
  CASE engine \in {"starting", "running", "ending"} -> "running"
    [] engine = "crashed" -> "stale"
    [] engine = "done" -> "completed"

Init ==
  /\ file = [s \in Streams |-> IF s = "j" THEN Line([kind |-> "private", n |-> 1, by |-> 0]) ELSE << >>]
  /\ engine = "starting" /\ resumes = 0
  /\ up = "down" /\ read = [s \in Streams |-> 0] /\ pend = [s \in Streams |-> << >>]
  /\ cursor = [s \in Streams |-> 0] /\ ended = FALSE /\ quiet = FALSE
  /\ wire = << >> /\ hitches = 0
  /\ es = "none" /\ lastId = NoId /\ seen = [s \in Streams |-> 0]
  /\ first = {} /\ resetHere = {} /\ status = "connecting"
  /\ view = [s \in Streams |-> << >>] /\ base = -1 /\ ask = NoAsk
  /\ adrift = {} /\ misread = {}

-----------------------------------------------------------------------------
(* The engine *)

Count(s) == Cardinality({file[s][p][1].n : p \in 1..Size(s)})
NewRecord(s, k) == [kind |-> k, n |-> Count(s) + 1, by |-> resumes]
Kind(s) == IF s = "e" THEN "work" ELSE "fact"
Room(s) == IF s = "e" THEN Count("e") < MaxEvents ELSE Count("j") < 1 + MaxFacts
Append1(s, k) == file' = [file EXCEPT ![s] = @ \o Line(NewRecord(s, k))]

\* The attempt's first run event, started or resumed.
Open ==
  /\ engine = "starting"
  /\ Append1("e", "open") /\ engine' = "running"
  /\ UNCHANGED <<resumes, server, wire, hitches, client, history>>

\* Any other record.  The journal is written before the first event too.
Write(s) ==
  /\ engine = "running" \/ (engine = "starting" /\ s = "j")
  /\ Room(s) /\ Append1(s, Kind(s))
  /\ UNCHANGED <<engine, resumes, server, wire, hitches, client, history>>

\* finalize: result.json, the terminal event, and then the lock.
End ==
  /\ engine = "running"
  /\ Append1("e", "end") /\ engine' = "ending"
  /\ UNCHANGED <<resumes, server, wire, hitches, client, history>>

Release ==
  /\ engine = "ending" /\ engine' = "done"
  /\ UNCHANGED <<file, resumes, server, wire, hitches, client, history>>

\* The engine dies, perhaps in the middle of an append.
Crash ==
  /\ engine \in {"starting", "running"} /\ engine' = "crashed"
  /\ \/ UNCHANGED file
     \/ \E s \in Streams :
          Room(s) /\ file' = [file EXCEPT ![s] = Append(@, Body(NewRecord(s, Kind(s))))]
  /\ UNCHANGED <<resumes, server, wire, hitches, client, history>>

\* A resume takes the lock and repairs the journal: a torn record is cut off, or
\* completed when only its newline is missing.
Resume ==
  /\ engine \in {"done", "crashed"} /\ resumes < MaxResumes
  /\ engine' = "starting" /\ resumes' = resumes + 1
  /\ LET j == file["j"] IN
       IF ~Torn(j) THEN UNCHANGED file
       ELSE \/ file' = [file EXCEPT !["j"] = SubSeq(j, 1, LastEnd(j))]
            \/ file' = [file EXCEPT !["j"] = Append(j, Close(j[Len(j)][1]))]
  /\ UNCHANGED <<server, wire, hitches, client, history>>

-----------------------------------------------------------------------------
(* The server's connection *)

Frame(k, id, x) == [type |-> k, id |-> id, data |-> x]

\* A drain under way: the cursor, the batch not written yet, the frames written.
Flushed(d) ==
  IF d.batch = << >> THEN d
  ELSE [d EXCEPT !.out = Append(@, Frame("batch", d.cur, d.batch)), !.batch = << >>]
SendSys(d, k, x) == LET f == Flushed(d) IN [f EXCEPT !.out = Append(@, Frame(k, f.cur, x))]

\* A slip: the cursor moves before the full batch is flushed: the frame's id covers a record that
\* is not in it.
QueueRecord_EarlyCursor(d, s, r, o) ==
  LET m == [d EXCEPT !.cur[s] = o]
      f == IF Len(d.batch) >= MaxBatch THEN Flushed(m) ELSE m
  IN [f EXCEPT !.batch = Append(@, [s |-> s, o |-> o, r |-> r])]

QueueRecord(d, s, r, o) ==
  LET f == IF Len(d.batch) >= MaxBatch THEN Flushed(d) ELSE d
  IN [f EXCEPT !.batch = Append(@, [s |-> s, o |-> o, r |-> r]), !.cur[s] = o]

\* ByteTail.push and consumeLine: the lines that c completes, c being the pending
\* cells and the chunk, of which the first has offset b.
ConsumeLine(d, s, c, b, p) ==
  LET moved == [d EXCEPT !.cur[s] = b + p] IN
  IF ~Parses(c, p) THEN SendSys(moved, "note", s)
  ELSE IF ~Forwarded(c[p][1]) THEN moved
  ELSE QueueRecord(d, s, c[p][1], b + p)
Pushed(d, s, c, b) ==
  LET pushed[p \in 0..Len(c)] ==
        IF p = 0 THEN d
        ELSE IF EndsLine(c, p) THEN ConsumeLine(pushed[p - 1], s, c, b, p) ELSE pushed[p - 1]
  IN pushed
Push(d, s, c, b) == Pushed(d, s, c, b)[Len(c)]

\* drainOne: a file shorter than what was read starts over; one chunk is read.
Shrunk(s) == Size(s) < read[s]
Drained(d, s, at, held, chunk) ==
  LET d1 == IF Shrunk(s) THEN SendSys([d EXCEPT !.cur[s] = 0], "reset", s) ELSE d
      c == held \o chunk
      d2 == Push(d1, s, c, at - Len(held))
  IN [d2 EXCEPT !.read[s] = at + Len(chunk),
                !.pend[s] = SubSeq(c, LastEnd(c) + 1, Len(c)),
                !.active = @ \/ chunk # << >> \/ Shrunk(s),
                !.ended = IF s = "e" /\ RunEvents(Records(c)) # << >> THEN Terminal(Records(c)) ELSE @,
                !.lost = (IF Shrunk(s) THEN @ \ {s} ELSE @) \cup
                           {t \in {s} : held # SubSeq(file[s], at - Len(held) + 1, at)}]

\* A slip: a torn line is dropped when its newline is missing.
DrainOne_NoPending(d, s) ==
  LET at == IF Shrunk(s) THEN 0 ELSE read[s]
      to == IF Size(s) - at < MaxRead THEN Size(s) ELSE at + MaxRead
  IN Drained(d, s, at, << >>, SubSeq(file[s], at + 1, to))

DrainOne(d, s) ==
  LET at == IF Shrunk(s) THEN 0 ELSE read[s]
      held == IF Shrunk(s) THEN << >> ELSE pend[s]
      to == IF Size(s) - at < MaxRead THEN Size(s) ELSE at + MaxRead
  IN Drained(d, s, at, held, SubSeq(file[s], at + 1, to))

\* A poll or a watch event drains all files, or the one that changed, one after the other.
Drain(ids) ==
  /\ up \in {"fresh", "live"} /\ Len(wire) < MaxWire
  /\ up = "fresh" => ids = {"e", "j"}
  /\ \E d0 \in {[cur |-> cursor, batch |-> << >>, out |-> << >>, read |-> read, pend |-> pend,
                active |-> FALSE, ended |-> ended, lost |-> adrift]} :
     \E d1 \in {IF "e" \in ids THEN DrainOne(d0, "e") ELSE d0} :
     \E d2 \in {IF "j" \in ids THEN DrainOne(d1, "j") ELSE d1} :
     \E d \in {Flushed(d2)} :
        /\ cursor' = d.cur /\ read' = d.read /\ pend' = d.pend /\ ended' = d.ended
        /\ wire' = wire \o d.out
        /\ quiet' = (quiet /\ ~d.active)
        /\ adrift' = d.lost /\ misread' = misread \cup d.lost
  /\ up' = (IF up = "fresh" THEN "drained" ELSE up)
  /\ UNCHANGED <<run, hitches, client>>

\* stateTick: a run that is over for the reader, for its events and for long enough
\* ends the stream.  (The state frames it also sends change only what is displayed.)
StateTick ==
  /\ up \in {"drained", "live"} /\ Len(wire) < MaxWire
  /\ LET over == Derived = "completed"
         fold == ended \/ (over /\ Terminal(Records(file["e"])))
         bye == over /\ fold /\ quiet
     IN /\ ended' = fold
        /\ wire' = (IF bye THEN Append(wire, Frame("end", cursor, None)) ELSE wire)
        /\ up' = (IF bye THEN "down" ELSE "live")
  /\ UNCHANGED <<run, read, pend, cursor, quiet, hitches, client, history>>

\* The clock: two seconds without a read, with nothing to read or waiting for a slow client.
TimePasses ==
  /\ up \in {"drained", "live"} /\ ~quiet /\ quiet' = TRUE
  /\ wire # << >> \/ \A s \in Streams : read[s] = Size(s)
  /\ UNCHANGED <<run, up, read, pend, cursor, ended, wire, hitches, client, history>>

\* initializeSpecs: a cursor past the end of its file starts that stream over.
Accept(c) ==
  LET over == {s \in Streams : c[s] > Size(s)}
      at == [s \in Streams |-> IF s \in over THEN 0 ELSE c[s]]
      Reset(s) == IF s \in over THEN <<Frame("reset", at, s)>> ELSE << >>
  IN /\ up' = "fresh" /\ read' = at /\ cursor' = at
     /\ pend' = [s \in Streams |-> << >>] /\ ended' = FALSE /\ quiet' = FALSE
     /\ wire' = Reset("e") \o Reset("j")
     /\ adrift' = {} /\ UNCHANGED misread

-----------------------------------------------------------------------------
(* The page *)

Merge(c, id) == [s \in Streams |-> IF id[s] > c[s] THEN id[s] ELSE c[s]]

\* A slip: a first record behind the cursor is taken for the next one.
TakeRecord_NoReplay(p, x) ==
  [p EXCEPT !.first = @ \cup {x.s}, !.seen[x.s] = x.o, !.view[x.s] = Append(@, x.r)]

\* One record of a batch: the first of a connection at or behind the cursor means that the
\* stream is replayed from its start; a later one is a duplicate.
TakeRecord(p, x) ==
  LET s == x.s
      behind == x.o <= p.seen[s]
      replay == s \notin p.first /\ s \notin p.reset /\ behind
      stale == s \in p.first /\ behind
  IN IF stale THEN p
     ELSE [p EXCEPT !.first = @ \cup {s},
                    !.reset = IF replay THEN @ \cup {s} ELSE @,
                    !.seen[s] = x.o,
                    !.view[s] = IF replay THEN <<x.r>> ELSE Append(@, x.r)]

Taken(page, xs) ==
  LET took[i \in 0..Len(xs)] == IF i = 0 THEN page ELSE TakeRecord(took[i - 1], xs[i])
  IN took
TakeRecords(page, xs) == Taken(page, xs)[Len(xs)]

\* onBatchEvent, and what runStore does with it.
TakeBatch(f) ==
  \E p \in {TakeRecords([first |-> first, reset |-> resetHere, seen |-> seen, view |-> view], f.data)} :
     /\ first' = p.first /\ resetHere' = p.reset /\ view' = p.view
     /\ seen' = Merge(p.seen, f.id)
     /\ UNCHANGED <<status, es>>

\* A slip: the reset record resets the stream and leaves the cursor.
TakeSys_CursorKept(f) ==
  /\ IF f.type = "reset"
     THEN /\ first' = first \cup {f.data} /\ resetHere' = resetHere \cup {f.data}
          /\ view' = [view EXCEPT ![f.data] = << >>]
     ELSE UNCHANGED <<first, resetHere, view>>
  /\ seen' = Merge(seen, f.id)
  /\ IF f.type = "end"
     THEN IF Terminal(view["e"]) THEN status' = "ended" /\ es' = "none"
          ELSE status' = "endPending" /\ UNCHANGED es
     ELSE UNCHANGED <<status, es>>

\* onSysEvent: a reset drops one stream; an end latches once the fold agrees.
TakeSys(f) ==
  /\ IF f.type = "reset"
     THEN /\ first' = first \cup {f.data} /\ resetHere' = resetHere \cup {f.data}
          /\ seen' = [Merge(seen, f.id) EXCEPT ![f.data] = 0]
          /\ view' = [view EXCEPT ![f.data] = << >>]
     ELSE seen' = Merge(seen, f.id) /\ UNCHANGED <<first, resetHere, view>>
  /\ IF f.type = "end"
     THEN IF Terminal(view["e"]) THEN status' = "ended" /\ es' = "none"
          ELSE status' = "endPending" /\ UNCHANGED es
     ELSE UNCHANGED <<status, es>>

\* History: with this frame the stream starts over, and what follows it comes from one tail
\* that was not overtaken.
Resets(f, s) == f.type = "reset" /\ f.data = s
StartsClean(s) ==
  /\ Resets(Head(wire), s) /\ s \notin adrift
  /\ \A i \in 2..Len(wire) : ~Resets(wire[i], s)

Receive ==
  /\ es = "open" /\ wire # << >>
  /\ LET f == Head(wire) IN
       /\ lastId' = f.id
       /\ IF f.type = "batch" THEN TakeBatch(f) ELSE TakeSys(f)
  /\ wire' = (IF es' = "none" THEN << >> ELSE Tail(wire))
  /\ up' = (IF es' = "none" THEN "down" ELSE up)
  /\ misread' = {s \in misread : ~StartsClean(s)}
  /\ UNCHANGED <<run, read, pend, cursor, ended, quiet, hitches, base, ask, adrift>>

\* settleEnd: an end that waited for the fold latches after the frame that folds it.
Settle ==
  /\ status = "endPending" /\ Terminal(view["e"])
  /\ status' = "ended" /\ es' = "none" /\ up' = "down" /\ wire' = << >>
  /\ UNCHANGED <<run, read, pend, cursor, ended, quiet, hitches,
                 lastId, seen, first, resetHere, view, base, ask, history>>

\* onError: the browser retries with Last-Event-ID, or has given up.
Lost ==
  /\ first' = {} /\ resetHere' = {} /\ es' \in {"retrying", "closed"}
  /\ UNCHANGED <<lastId, seen, status, view, base, ask>>

\* The connection breaks: what was on its way is gone.
Drop ==
  /\ es = "open" /\ hitches < MaxHitches /\ hitches' = hitches + 1
  /\ up' = "down" /\ wire' = << >> /\ Lost
  /\ UNCHANGED <<run, read, pend, cursor, ended, quiet, history>>

\* The server has ended the response and all of it has arrived.
ServerCloses ==
  /\ es = "open" /\ up = "down" /\ wire = << >> /\ Lost
  /\ UNCHANGED <<run, server, wire, hitches, history>>

\* The browser's retry carries Last-Event-ID, which outranks the url's cursor;
\* scheduleRetry's connect() carries the client's cursor in a fresh url.
Reconnect ==
  /\ es \in {"retrying", "closed"} /\ es' = "open"
  /\ Accept(IF es = "retrying" /\ lastId # NoId THEN lastId ELSE seen)
  /\ lastId' = (IF es = "retrying" THEN lastId ELSE NoId)
  /\ first' = {} /\ resetHere' = {}
  /\ UNCHANGED <<run, hitches, seen, status, view, base, ask>>

\* start(), the poll every ten seconds, refresh(): the newest request supersedes the others.
\* SnapshotStore.get answers it with the fold of both files up to their last complete line.
\* The answer to a page that follows a live stream counts only if the stream ends first.
Poll ==
  /\ ask = NoAsk
  /\ IF base = -1 \/ status = "ended" THEN UNCHANGED hitches
     ELSE hitches < MaxHitches /\ hitches' = hitches + 1
  /\ ask' = [at |-> "answered", view |-> [s \in Streams |-> Records(file[s])],
             off |-> [s \in Streams |-> LastEnd(file[s])], state |-> Derived]
  /\ UNCHANGED <<run, server, wire, es, lastId, seen, first, resetHere, status, view, base, history>>

RequestFails ==
  /\ ask # NoAsk /\ ask' = NoAsk /\ hitches < MaxHitches /\ hitches' = hitches + 1
  /\ UNCHANGED <<run, server, wire, es, lastId, seen, first, resetHere, status, view, base, history>>

\* A slip: only a resume revives a page.
Revived_ResumeOnly(a) == a.state = "running" /\ Resumed(a.view["e"]) > base

\* revived(): live again, another attempt, or events past where the page stopped reading.
Revived(a) ==
  \/ a.state = "running"
  \/ Resumed(a.view["e"]) > base
  \/ a.off["e"] > seen["e"]

\* The answer is seeded, and the stream opened after it, if there is no snapshot yet or an
\* ended run has revived; else it is ignored but for the state displayed.
Answer ==
  /\ ask.at = "answered" /\ ask' = NoAsk
  /\ IF base = -1 \/ (status = "ended" /\ Revived(ask))
     THEN /\ view' = ask.view /\ seen' = ask.off /\ base' = Resumed(ask.view["e"])
          /\ es' = "closed" /\ status' = "connecting" /\ lastId' = NoId
          /\ first' = {} /\ resetHere' = {} /\ adrift' = {} /\ misread' = {}
     ELSE UNCHANGED <<es, lastId, seen, first, resetHere, status, view, base, history>>
  /\ UNCHANGED <<run, server, wire, hitches>>

Page == Receive \/ Settle \/ ServerCloses \/ Reconnect
Asking == Poll \/ Answer

Next ==
  \/ Open \/ (\E s \in Streams : Write(s)) \/ End \/ Release \/ Crash \/ Resume
  \/ \E ids \in {{"e"}, {"j"}, {"e", "j"}} : Drain(ids)
  \/ StateTick \/ TimePasses
  \/ Page \/ Drop \/ Asking \/ RequestFails

\* The server's poll and its state timer queue their work whenever a client keeps up; the browser dispatches what
\* arrives and retries; the page asks again after every answer.  Nothing else is
\* promised: not that a run ends or that a stream does.
Fairness ==
  /\ SF_vars(Drain({"e", "j"}) \/ StateTick) /\ WF_vars(Page) /\ WF_vars(Asking)

Spec == Init /\ [][Next]_vars /\ Fairness
-----------------------------------------------------------------------------
(* Properties *)

\* Every variable keeps its type; a connection that is down reads nothing and a page
\* whose stream has ended has no connection (ClientStream.latchEnd).
TypeOK ==
  /\ engine \in {"starting", "running", "ending", "done", "crashed"}
  /\ up \in {"down", "fresh", "drained", "live"} /\ es \in {"none", "open", "retrying", "closed"}
  /\ status \in {"connecting", "endPending", "ended"}
  /\ read \in [Streams -> Nat] /\ cursor \in [Streams -> Nat] /\ seen \in [Streams -> Nat]
  /\ first \subseteq Streams /\ resetHere \subseteq Streams /\ misread \subseteq Streams
  /\ up # "down" => es = "open"
  /\ status = "ended" => es = "none" /\ up = "down"

\* The page's cursor is exact: what it shows of a stream is the records up to its cursor,
\* all of them, once, in order.  So whatever connection is dropped and wherever the next
\* one starts, nothing is lost and nothing is shown twice.
CursorIsExact ==
  \A s \in Streams \ misread :
    seen[s] <= Size(s) /\ view[s] = Records(SubSeq(file[s], 1, seen[s]))

\* The page follows the run as LogFeed promises.  A stream is overtaken when its tail read
\* a torn record that a resume cut off and wrote past before the tail looked again: the
\* size has not shrunk (ByteTail.observe), so the pending bytes are joined with new ones.
ItemsOfFeed == [kind : {"private", "open", "work", "end", "fact"}, n : Nat, by : Nat]
Feed == INSTANCE LogFeed WITH
  Items <- ItemsOfFeed,
  log <- [s \in Streams |-> Records(file[s])],
  view <- view,
  overtaken <- misread
Follows == Feed!FeedSpec

\* Once the run stands still the page shows all of its events, whatever connections were
\* lost, ended early, or outlived a resume; and all of its journal, but for a stream that
\* was overtaken, and for a page that stopped reading: revived() looks at the events only,
\* so what the journal held when an early end latched is not fetched.
CatchesUp ==
  <>[](/\ view["e"] = Records(file["e"])
       /\ view["j"] = Records(file["j"]) \/ "j" \in misread \/ status = "ended")
=============================================================================
