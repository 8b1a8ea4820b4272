-------------------------- MODULE SearchInvariants --------------------------
(***************************************************************************)
(* The inductive invariant of a search and of the writers beside it, KInv  *)
(* and JInv, for SearchJobsProofs, which shows that every step keeps it    *)
(* and that it has the properties of PgEvents and SearchJobs.              *)
(*                                                                         *)
(* A writer: IInv says how far its inserts and deletes are apart at each   *)
(* of its places, FreshIds that it alone has its ids, Adds and InOrder     *)
(* that the events before its position are kept, or held by it.            *)
(* Compilation: a chain of steps is made of the atoms of the text.         *)
(* The search: Shape and WritersAt say where everyone can be, Ended that   *)
(* the steps end one after another, each leaving an empty channel behind,  *)
(* Stops what has stopped the process, Results that all that is on its way *)
(* to the job has times and ids, but for the blank events of Lost.  Flow   *)
(* has the events in line by what clocks show: whatever is nearer to the   *)
(* job is later.  Counted follows the statistics, TextsKept the events     *)
(* that stay from start to end, and Underway those of them that are to be  *)
(* found: each is unread, on a page, in a lane, at the job, or shown.      *)
(***************************************************************************)
EXTENDS SearchJobs

-----------------------------------------------------------------------------
(* The writers                                                             *)

Fields == {"at", "batch", "pos", "id", "events", "raws", "gone", "rawsGone", "reply"}

\* What a transaction has done when it is at r.at; D is the domain of Events.
Place(deletes, w, r, D) ==
  /\ DOMAIN r = Fields
  /\ DOMAIN r.events \cap deletes = {}
  /\ r.at \in {"conflict", "raw"} => r.id \notin deletes
  /\ r.at = "raw" => DOMAIN r.events = DOMAIN r.raws \cup {r.id}
  /\ r.at # "raw" => DOMAIN r.events = DOMAIN r.raws
  /\ r.at \in {"delete", "deleteRaws", "commit"} => w = Deleter
  /\ r.at \notin {"deleteRaws", "commit"} => r.gone = {}
  /\ r.at = "deleteRaws" => r.gone = deletes \cap D
  /\ r.at # "commit" => r.rawsGone = {}
  /\ r.at = "commit" => r.gone = deletes \cap D /\ r.rawsGone = deletes \cap D

\* The two tables agree, and every transaction knows how far it has come.
IInv ==
  /\ load \in Workloads
  /\ Aligned
  /\ seq \in Nat /\ Len(load.stored) <= seq
  /\ DOMAIN writer = Writers
  /\ \A w \in Writers : Place(load.deletes, w, writer[w], DOMAIN Events)

Kept == KeysOf(Events) \cup deleted \cup dropped

\* The ids of a transaction: those of its rows and the one it has just drawn.
Own(r) == DOMAIN r.events \cup { i \in {r.id} : r.at = "conflict" }

FreshIds ==
  /\ DOMAIN Events \subseteq 1 .. seq
  /\ \A w \in Writers :
       /\ Own(writer[w]) \subseteq (1 .. seq) \ DOMAIN Events
       /\ writer[w].at = "conflict" => writer[w].id \notin DOMAIN writer[w].events
  /\ \A v, w \in Writers : v # w => Own(writer[v]) \cap Own(writer[w]) = {}

\* The events before pos are kept or held, as is the one whose text is next.
Adds(batches, w, r, K) ==
  /\ Len(r.batch) \in Nat /\ DOMAIN r.batch = 1 .. Len(r.batch)
  /\ r.at = "idle" => r.pos = 1
  /\ r.at \in {"insert", "conflict", "raw"} =>
       /\ r.pos \in Nat
       /\ \A i \in DOMAIN r.batch : i < r.pos => Key(r.batch[i]) \in K \cup KeysOf(r.events)
       /\ w \in Recipients => r.batch = batches[w]
  /\ r.at = "raw" => Key(r.batch[r.pos]) \in KeysOf(r.events)
  /\ w \in Recipients /\ r.reply = "ok" =>
       \A i \in DOMAIN batches[w] : Key(batches[w][i]) \in K

\* How many events have been published and are no longer in the publisher's hands.
Done == Len(load.publish) - Len(unread) - Len(adder) - Len(writer[Publisher].batch)

Published == { load.publish[i] : i \in DOMAIN load.publish }

\* The publisher has the events in the order in which they were published.
InOrder ==
  LET p == load.publish
      b == writer[Publisher].batch
  IN  /\ p \in Seq(Published) /\ unread \in Seq(Published) /\ adder \in Seq(Published)
      /\ b \in Seq(Published)
      /\ Done \in Nat
      /\ \A i \in 1 .. Done : Key(p[i]) \in Kept
      /\ \A i \in 1 .. Len(b) : b[i] = p[Done + i]
      /\ \A i \in 1 .. Len(adder) : adder[i] = p[Done + Len(b) + i]
      /\ \A i \in 1 .. Len(unread) : unread[i] = p[Done + Len(b) + Len(adder) + i]

\* The invariant of the writers.
KInv ==
  /\ IInv
  /\ FreshIds
  /\ \A w \in Writers : Adds(load.batches, w, writer[w], Kept)
  /\ InOrder

\* What KInv adds to IInv.
Ledger ==
  /\ FreshIds
  /\ \A w \in Writers : Adds(load.batches, w, writer[w], Kept)
  /\ InOrder

-----------------------------------------------------------------------------
(* What compilation makes of a text: its atoms, and a chain of steps       *)

Keys(A) == { Lower(word) : word \in Seq(A) }

FieldMaps(A) == UNION { [K -> SUBSET Seq(A)] : K \in SUBSET Keys(A) }

Searches(A) ==
  [res : {"ok"}, Fragments : SUBSET Seq(A), NotFragments : SUBSET Seq(A),
   Fields : FieldMaps(A), NotFields : FieldMaps(A)]

RexFor(A, rex) == \E value \in DOMAIN Rex : value \in Seq(A) /\ rex = Rex[value]

CountFrom(A, count) ==
  "surrounding" \in A /\ (count = 100 \/ (count \in Integers /\ ToString(count) \in A))

\* A compiled query: a step that reads events, and steps that take them from the
\* step before.
IsChain(A, c) ==
  /\ Len(c) \in Nat \ {0} /\ DOMAIN c = 1 .. Len(c)
  /\ c[1].name \in {"search", "surrounding"}
  /\ c[1].name = "search" => c[1].search \in Searches(A)
  /\ c[1].name = "surrounding" => CountFrom(A, c[1].count)
  /\ \A i \in 2 .. Len(c) :
       /\ c[i].name \in {"rex", "where", "table"}
       /\ c[i].name = "rex" => RexFor(A, c[i].rex)

IsList(s) == s \in Seq({ s[i] : i \in DOMAIN s })

Input == Range(load.text)

Atoms == Input \cup { CutWord(w) : w \in { x \in Input : Quote \in Input } }

-----------------------------------------------------------------------------
(* Where everyone can be                                                   *)

\* The goroutine of a step and the channel it writes to.
Goroutine(i, s, p) ==
  /\ DOMAIN s = {"at", "out"} /\ s.at \in {"start", "select", "send", "end"}
  /\ s.at = "start" => i = 1
  /\ DOMAIN p = {"buffer", "closed"} /\ p.closed \in BOOLEAN
  /\ p.closed <=> s.at = "end"
  /\ IsList(p.buffer) /\ Len(p.buffer) <= PipeBufferSize

StreamIs(s) ==
  /\ DOMAIN s = {"at", "maxId", "last", "page"}
  /\ s.at \in {"off", "max", "query", "send", "end"}
  /\ IsList(s.page) /\ Len(s.page) <= PageSize

EngineIs(e) ==
  /\ DOMAIN e = {"at", "result", "state"}
  /\ e.at \in {"off", "select", "add", "stats", "write", "end"}
  /\ e.state \in {"none", "finished", "aborted"}
  /\ e.at = "write" => e.state # "none"

JobIs(j) ==
  /\ DOMAIN j = {"state", "outputType", "sortMode", "columnOrder", "results", "rows", "stats"}
  /\ j.state \in {"none", "refused", "running", "finished", "aborted"}

\* Where everyone is goes together.
Shape ==
  /\ \/ chain = << >> /\ steps = << >> /\ pipes = << >>
     \/ IsChain(Atoms, chain)
  /\ IsList(pipes)
  /\ DOMAIN steps = DOMAIN chain /\ DOMAIN pipes = DOMAIN chain
  /\ \A i \in DOMAIN chain : Goroutine(i, steps[i], pipes[i])
  /\ StreamIs(stream) /\ EngineIs(engine) /\ JobIs(job)
  /\ cancelled \in BOOLEAN
  /\ chain = << >> => stream.at = "off" /\ engine.at = "off" /\ engine.state = "none"
  /\ job.state \in {"none", "refused"} => chain = << >>

\* Who has ended, and what is then behind him.
StepDone(j) == steps[j].at = "end" /\ pipes[j].buffer = << >>

StepsEndInOrder ==
  \A i \in DOMAIN chain :
    steps[i].at = "end" => cancelled \/ \A j \in DOMAIN chain : j < i => StepDone(j)

ReaderEnds ==
  chain # << >> =>
    /\ steps[1].at = "start" \/ chain[1].name = "surrounding" => stream.at = "off"
    /\ steps[1].at = "end" => stream.at \in {"off", "end"} \/ cancelled

AllDone == engine.state = "finished" => cancelled \/ \A i \in DOMAIN chain : StepDone(i)

Ended == StepsEndInOrder /\ ReaderEnds /\ AllDone

WriterAt(w, r) ==
  /\ DOMAIN r = Fields
  /\ r.at \in {"idle", "insert", "conflict", "raw", "delete", "deleteRaws", "commit"}
  /\ r.reply \in {"none", "ok", "error"}
  /\ Len(r.batch) \in Nat /\ r.pos \in 1 .. Len(r.batch) + 1
  /\ r.at = "idle" => r.pos = 1
  /\ r.at \in {"conflict", "raw"} => r.pos <= Len(r.batch)
  /\ w = Publisher => Len(r.batch) <= BatchSize
  /\ w = Publisher /\ r.at = "idle" => Len(r.batch) < BatchSize

WritersAt ==
  /\ \A w \in Writers : WriterAt(w, writer[w])
  /\ Len(adder) <= AdderSize

-----------------------------------------------------------------------------
(* Results, on their way to the job                                        *)

\* Results with a time.
IsStamped(results) ==
  IsList(results) /\ \A i \in DOMAIN results : "time" \in DOMAIN results[i] /\ results[i].time \in Nat

\* The empty event that may be in the place of another.
Blank(e) ==
  /\ {"words", "source", "host", "fields"} \subseteq DOMAIN e
  /\ e.words = << >> /\ e.source = "" /\ e.host = "" /\ DOMAIN e.fields = {}

\* An event has a time, and a number, unless it is empty and U says that this may be.
IsSeen(U, e) ==
  /\ {"id", "time"} \subseteq DOMAIN e /\ e.time \in Nat /\ Wall(e.time) \in Nat
  /\ e.id = 0 => 0 \in U /\ Blank(e)

IsTimed(U, events) == IsList(events) /\ \A i \in DOMAIN events : IsSeen(U, events[i])

IsResult(U, r) == IsTimed(U, r.events) /\ IsList(r.rows)

TimesIn(rows) == { rows[i].time : i \in DOMAIN rows }

\* What clocks show at the times of events.
WallsIn(events) == { Wall(events[i].time) : i \in DOMAIN events }

AllPlaced(rows) == \A i \in DOMAIN rows : IsPlaced(rows[i]) /\ rows[i] \in Possible

EventsPlaced == AllPlaced(Events) /\ \A w \in Writers : AllPlaced(writer[w].events) /\ AllPlaced(writer[w].batch)

\* There may be empty events on the way.
Lost == chain # << >> /\ chain[1].name = "surrounding" /\ \E e \in Possible : e.source \notin Configured

May == IF Lost THEN {0} ELSE {}

Sent(U, s, p) ==
  (s.at = "send" => IsResult(U, s.out)) /\ \A a \in DOMAIN p.buffer : IsResult(U, p.buffer[a])

Results ==
  /\ stream.at = "send" => IsTimed({}, stream.page)
  /\ \A i \in DOMAIN chain : Sent(May, steps[i], pipes[i])
  /\ engine.at \in {"add", "stats"} => IsResult(May, engine.result)
  /\ IsStamped(job.results) /\ IsList(job.rows) /\ IsList(delivered)

-----------------------------------------------------------------------------
(* What has stopped the process                                            *)

\* Causes that lie in the text, and in what files the events are of.
Ill ==
  \/ Input \cap (Invalid \cup {"!"}) # {}
  \/ Quote \in Input /\ Input \cap DOMAIN Cut # {}
  \/ \E value \in DOMAIN Rex : Rex[value].malformed /\ Range(value) \subseteq Input
  \/ "surrounding" \in Input /\ \E n \in Integers : ~HasRoom(n) /\ ToString(n) \in Input
  \/ /\ "surrounding" \in Input /\ \E e \in Possible : e.source \notin Configured
     /\ \E value \in DOMAIN Rex : "" \in DOMAIN Rex[value].finds /\ Range(value) \subseteq Input

Stops ==
  /\ faults \in 0 .. load.faults
  /\ crash \in {"no", "memory", "pattern"}
  /\ crash # "no" => Ill

-----------------------------------------------------------------------------
(* Events in line, the newest in front                                     *)

LaneHas(s, p, a, t) ==
  \/ a \in DOMAIN p.buffer /\ t \in WallsIn(p.buffer[a].events)
  \/ a = Len(p.buffer) + 1 /\ s.at = "send" /\ t \in WallsIn(s.out.events)

\* An event for the time of which a clock shows t is at place a of lane k.
Has(k, a, t) ==
  \/ k = 0 /\ a = 1 /\ stream.at = "send" /\ t \in WallsIn(stream.page)
  \/ k \in DOMAIN chain /\ LaneHas(steps[k], pipes[k], a, t)
  \/ k = Len(chain) + 1 /\ a = 1 /\ engine.at = "add" /\ t \in WallsIn(engine.result.events)
  \/ k = Len(chain) + 2 /\ a = 1 /\ t \in TimesIn(job.results)

Places == Nat \X (Nat \ {0}) \X Nat

Flight == { f \in Places : Has(f[1], f[2], f[3]) }

InLine(F) ==
  \A f, g \in F : f[1] < g[1] \/ (f[1] = g[1] /\ g[2] < f[2]) => f[3] < g[3]

Flow ==
  /\ InLine(Flight)
  /\ \A t \in stream.last : Wall(t) \in Nat /\ \A f \in Flight : Wall(t) <= f[3]
  /\ stream.at = "off" => stream.last = {}
  /\ chain # << >> /\ steps[1].at = "start" => stream.at = "off"
  /\ chain = << >> \/ steps[1].at = "start" \/ (stream.at # "off" /\ stream.last = {}) => Flight = {}

\* The time the stream has come to is that of an event.
ReadTimes == \A t \in stream.last : \E e \in Possible : e.time = t

-----------------------------------------------------------------------------
(* Statistics                                                              *)

\* What counts of the events or rows of a job are fields with their values.
MapOf(type, e) == IF type = "events" THEN e.fields ELSE e

MapsOf(type, list) == [ i \in DOMAIN list |-> MapOf(type, list[i]) ]

Part(type, r) == IF type = "events" THEN r.events ELSE r.rows

\* All has been counted, but for the result that is being added.
Counts(type, stats, list) == stats = gatherFieldStats(MapsOf(type, list))

Adding == engine.at \in {"add", "stats"}

Counted ==
  /\ job.state \in {"finished", "aborted"} => engine.at = "end"
  /\ chain = << >> => delivered = << >> /\ job.stats = << >>
  /\ faults = 0 /\ ~Adding => Counts(job.outputType, job.stats, delivered)
  /\ faults = 0 /\ Adding =>
       \E front : /\ IsList(front) /\ delivered = front \o Part(job.outputType, engine.result)
                  /\ Counts(job.outputType, job.stats, front)

-----------------------------------------------------------------------------
(* What is in the tables                                                   *)

Staying == DOMAIN load.stored \ load.deletes

\* The rows of a transaction.
OwnTexts(r) ==
  /\ \A i \in DOMAIN r.raws : r.raws[i] = r.events[i].words
  /\ r.at = "raw" => r.events[r.id] = r.batch[r.pos]
  /\ \A id \in Staying : Key(load.stored[id]) \notin KeysOf(r.events)

TablesKeep ==
  /\ \A i \in DOMAIN Events : EventRaws[i] = Events[i].words
  /\ \A id \in Staying :
       /\ id \in DOMAIN Events /\ Events[id] = load.stored[id]
       /\ \A i \in DOMAIN Events : Key(Events[i]) = Key(load.stored[id]) => i = id

TextsKept == TablesKeep /\ \A w \in Writers : OwnTexts(writer[w])

-----------------------------------------------------------------------------
(* What a search is to find, and where it is meanwhile                     *)

Within(q, r) == Range(q.events) \subseteq Range(r.events) /\ Range(q.rows) \subseteq Range(r.rows)

\* What a search step may do with an event of its page.
Outcome(search, e) == IF e.source \in Configured THEN shouldIncludeEvent(search, e) ELSE {"out"}

OwnRow(id) == RowOf(id, load.stored[id])

\* What a search whose first step is c finds of what lasts.
Wants(id) ==
  /\ Steady(id) /\ Finds(chain[1], load.stored[id], load.stored[id].words)
  /\ Outcome(chain[1].search, OwnRow(id)) = {"in"}

Unread(id, s) == id <= s.maxId /\ \A t \in s.last : load.stored[id].time < t

InLane(s, p, r) == (s.at = "send" /\ r = s.out) \/ \E a \in DOMAIN p.buffer : r = p.buffer[a]

Shown(type, r) == IF type = "events" THEN { Stamp(e) : e \in Range(r.events) } ELSE Range(r.rows)

Coming(id) ==
  \/ steps[1].at = "start" \/ stream.at = "max"
  \/ stream.at = "query" /\ Unread(id, stream)
  \/ stream.at = "send" /\ OwnRow(id) \in Range(stream.page)
  \/ stream.at = "send" /\ Len(stream.page) = PageSize /\ Unread(id, stream)

\* With fate, what the chain makes of the event.
InLanes(fate) == \E k \in DOMAIN chain : \E r : InLane(steps[k], pipes[k], r) /\ Within(fate[k], r)

AtJob(fate) ==
  \/ engine.at = "add" /\ Within(fate[Len(chain)], engine.result)
  \/ Shown(job.outputType, fate[Len(chain)]) \subseteq Content

Arrives(id, fate) == Coming(id) \/ InLanes(fate) \/ AtJob(fate)

Untroubled == Up /\ ~cancelled /\ faults = 0 /\ Searching /\ Queryable(chain[1].search)

Underway ==
  /\ stream.at \in {"off", "max"} => stream.last = {}
  /\ job.state = "finished" => engine.state = "finished" /\ engine.at = "end"
  /\ engine.state = "finished" => Up \/ cancelled
  /\ Untroubled => \A id \in DOMAIN load.stored : Wants(id) => Arrives(id, Fate(OwnRow(id)))

-----------------------------------------------------------------------------

\* The rest of the invariant of a search.
JInv ==
  /\ Shape /\ Ended /\ WritersAt /\ Stops
  /\ EventsPlaced /\ ReadTimes /\ Results /\ (ClocksGoOn => Flow) /\ Counted /\ TextsKept /\ Underway

=============================================================================
