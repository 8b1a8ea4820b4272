----------------------------- MODULE SearchJobs -----------------------------
(***************************************************************************)
(* One search, from its text to the pages of its results, over the events  *)
(* in PostgreSQL while they are written: startJob compiles the query; the  *)
(* goroutine of FilterStream reads pages of events; each step of the       *)
(* pipeline is a goroutine between two channels; the goroutine of the job  *)
(* stores what comes out; the GUI asks for pages of that meanwhile, and    *)
(* may abort the job.                                                      *)
(*                                                                         *)
(* JobEngine has the engine with several jobs, restarts and the cancels    *)
(* map, but only counts results; EventStream has FilterStream's paging for *)
(* any timestamps and any number of readers.                               *)
(***************************************************************************)
EXTENDS PgEvents, Pipelines

CONSTANTS PageSize,       \* filterStreamPageSize, 1000
          PipeBufferSize, \* pipeBufferSize, 100
          Wall(_)         \* what the clock on the wall shows at a time

\* Times, what clocks show, and offsets are numbers.
IsPlaced(e) == e.time \in Nat /\ Wall(e.time) \in Nat /\ e.offset \in Nat

\* What has been cut is no UTF-8.  The events of a workload have keys of their own.
ASSUME SearchJobsAssumption ==
  /\ PageSize \in Nat \ {0} /\ PipeBufferSize \in Nat \ {0}
  /\ MaxRows \in Nat /\ MaxRows >= 50
  /\ Range(Cut) \subseteq Invalid /\ Range(Cut) \cap DOMAIN Cut = {}
  /\ Invalid \cap ({Quote, "surrounding"} \cup { ToString(n) : n \in Integers }) = {}
  /\ IsPlaced(NoEvent)
  /\ \A l \in Workloads :
       /\ \A i, j \in DOMAIN l.stored : i # j => Key(l.stored[i]) # Key(l.stored[j])
       /\ \A i \in DOMAIN l.stored : IsPlaced(l.stored[i])
       /\ \A w \in Recipients : \A i \in DOMAIN l.batches[w] : IsPlaced(l.batches[w][i])
       /\ \A i \in DOMAIN l.publish : IsPlaced(l.publish[i])
       /\ l.text \in Seq({ l.text[i] : i \in DOMAIN l.text })

VARIABLES
  chain,     \* the compiled steps
  stream,    \* FilterStream's goroutine
  steps,     \* the goroutine of each step: its place, what it has to send
  pipes,     \* the channel each step writes to
  engine,    \* the goroutine of the job: its place, a result, the state to write
  cancelled, \* is the job's context cancelled?
  job,       \* the rows the job repository has of the job
  delivered  \* history: what the engine has taken from the pipeline

jobVars == << chain, stream, steps, pipes, engine, cancelled, job, delivered >>
allVars == << store, jobVars >>

NoResult == Result(<< >>, << >>)

JobInit ==
  /\ Init
  /\ chain = << >>
  /\ stream = [at |-> "off", maxId |-> 0, last |-> {}, page |-> << >>]
  /\ steps = << >>
  /\ pipes = << >>
  /\ engine = [at |-> "off", result |-> NoResult, state |-> "none"]
  /\ cancelled = FALSE
  /\ job = [state |-> "none", outputType |-> "none", sortMode |-> "none", columnOrder |-> << >>,
            results |-> << >>, rows |-> << >>, stats |-> << >>]
  /\ delivered = << >>

Stored == << load, tables, seq, writer, feed, history >>

-----------------------------------------------------------------------------
(* StartJob                                                                *)

\* Texts the lexer does not come to an end with use up the memory of the process.
StartEndless(compiled) ==
  /\ compiled.res = "endless"
  /\ crash' = "memory"
  /\ UNCHANGED << faults, chain, steps, pipes, engine, job >>

StartRefused(compiled) ==
  /\ compiled.res = "error"
  /\ job' = [job EXCEPT !.state = "refused"]
  /\ UNCHANGED << chain, steps, pipes, engine >> /\ Works

StartRunning(compiled) ==
  /\ compiled.res = "ok"
  /\ chain' = compiled.steps
  /\ steps' = [ i \in DOMAIN chain' |-> [at |-> IF i = 1 THEN "start" ELSE "select", out |-> NoResult] ]
  /\ pipes' = [ i \in DOMAIN chain' |-> [buffer |-> << >>, closed |-> FALSE] ]
  /\ engine' = [engine EXCEPT !.at = "select"]
  /\ job' = [job EXCEPT !.state = "running", !.outputType = OutputType(chain'),
                        !.sortMode = SortMode(chain'), !.columnOrder = ColumnOrder(chain')]
  /\ Works

\* The answer is an error, or the id of the job.
StartJob ==
  /\ Up /\ job.state = "none" /\ load.text # << >>
  /\ \E compiled \in {Compile(load.text, load.times)} :
       StartEndless(compiled) \/ StartRefused(compiled) \/ StartRunning(compiled)
  /\ UNCHANGED << Stored, stream, cancelled, delivered >>

\* The cancels map leads to the context of the job until the engine is done.
Abort ==
  /\ Up /\ load.aborts /\ engine.at \in {"select", "add", "stats"} /\ ~cancelled
  /\ cancelled' = TRUE
  /\ UNCHANGED << Stored, chain, stream, steps, pipes, engine, job, delivered >> /\ Works

-----------------------------------------------------------------------------
(* FilterStream                                                            *)

\* ORDER BY amount DESC LIMIT take OFFSET skip: what may be returned.  A row comes
\* after those that have more and before those that have less; what is equal comes in
\* any order.
Pages(S, amount, skip, take) ==
  LET Over(i)  == Cardinality({ j \in S : amount[j] > amount[i] })
      Under(i) == Cardinality({ j \in S : amount[j] < amount[i] })
      all      == Cardinality(S)
      n        == IF all <= skip THEN 0 ELSE IF all - skip < take THEN all - skip ELSE take
  IN  { page \in [1 .. n -> S] :
          \A k \in 1 .. n :
            /\ Over(page[k]) < skip + k /\ skip + k <= all - Under(page[k])
            /\ \A l \in 1 .. n : page[k] = page[l] => k = l }

\* The tsquery a set of fragments becomes, which must be one, in UTF-8: a "*" may
\* only end a word, and two words need an operator.  All fragments must match.
WellFormed(frags) ==
  \A f \in frags :
    Len(f) = 1 /\ f[1] \notin Range(Cut) /\ (f[1] \in DOMAIN Wild => ~Wild[f[1]].leading)

TextMatches(includes, nots, text) ==
  LET Has(frag) == \E i \in DOMAIN text : MatchesWord(frag[1], text[i])
  IN  (\A f \in includes : Has(f)) /\ (\A f \in nots : ~Has(f))

\* Fragments are looked up in the text, values for host and source in these.
Source(map, key) == Values(map, << key >>)

Queryable(s) ==
  WellFormed(s.Fragments \cup s.NotFragments \cup
    UNION { Source(s.Fields, k) \cup Source(s.NotFields, k) : k \in {"host", "source"} })

Finds(step, e, text) ==
  LET s == step.search
  IN  /\ \A t \in step.from : e.time >= t
      /\ \A t \in step.to : e.time <= t
      /\ TextMatches(s.Fragments, s.NotFragments, text)
      /\ TextMatches(Source(s.Fields, "host"), Source(s.NotFields, "host"), << e.host >>)
      /\ TextMatches(Source(s.Fields, "source"), Source(s.NotFields, "source"), << e.source >>)

Matches(step, id) == id \in DOMAIN EventRaws /\ Finds(step, Events[id], EventRaws[id])

RowOf(id, e) ==
  [id |-> id, host |-> e.host, source |-> e.source, sourceId |-> e.sourceId, time |-> e.time,
   offset |-> e.offset, words |-> e.words, fields |-> e.fields]

Row(id) == RowOf(id, Events[id])

TimesOf(rows) == [ i \in DOMAIN rows |-> rows[i].time ]

\* Fault: ORDER BY timestamp
OldestOfAll(ids, take) == Pages(ids, [ i \in ids |-> 0 - Events[i].time ], 0, take)

\* ORDER BY timestamp DESC LIMIT take
Newest(ids, take) == Pages(ids, TimesOf(Events), 0, take)

Rows(ids) == [ n \in DOMAIN ids |-> Row(ids[n]) ]

Page(step, maxId, last) ==
  Newest({ i \in DOMAIN Events :
             i <= maxId /\ Matches(step, i) /\ \A t \in last : Events[i].time < t }, PageSize)

StreamOnly == UNCHANGED << Stored, chain, pipes, engine, cancelled, job, delivered >>

\* SELECT MAX(id), which is NULL when there are no events, and that cannot be read.
OpenStream ==
  /\ Up /\ stream.at = "max"
  /\ \/ Events # << >> /\ stream' = [stream EXCEPT !.at = "query",
                            !.maxId = CHOOSE i \in DOMAIN Events : \A j \in DOMAIN Events : j <= i] /\ Works
     \/ Events = << >> /\ stream' = [stream EXCEPT !.at = "end"] /\ Works
     \/ stream' = [stream EXCEPT !.at = "end"] /\ Fails
  /\ UNCHANGED steps /\ StreamOnly

HasRead(ids) ==
  stream' = [stream EXCEPT !.at = "send", !.page = Rows(ids),
               !.last = IF ids = << >> THEN @ ELSE {Events[ids[Len(ids)]].time}]

\* A query that is wrong or fails is logged, and the stream ends.  One that fails
\* while its rows are read gives fewer rows, and is taken for the last page.
QueryPage ==
  /\ Up /\ stream.at = "query"
  /\ \/ /\ Queryable(chain[1].search)
        /\ \E ids \in Page(chain[1], stream.maxId, stream.last) :
             \/ HasRead(ids) /\ Works
             \/ \E n \in 0 .. Len(ids) - 1 : HasRead(SubSeq(ids, 1, n)) /\ Fails
     \/ ~Queryable(chain[1].search) /\ stream' = [stream EXCEPT !.at = "end"] /\ Works
     \/ stream' = [stream EXCEPT !.at = "end"] /\ Fails
  /\ UNCHANGED steps /\ StreamOnly

-----------------------------------------------------------------------------
(* Steps.  A step that waits sees that it is cancelled, and ends; one that *)
(* sends does not.  At its end it closes its channel.                      *)

StepsOnly == UNCHANGED << Stored, chain, engine, cancelled, job, delivered >>

Ends(i) ==
  /\ steps' = [steps EXCEPT ![i].at = "end"]
  /\ pipes' = [pipes EXCEPT ![i].closed = TRUE]

ToSend(i, result) == steps' = [steps EXCEPT ![i].at = "send", ![i].out = result]

\* ConfigSource.Get, then the call that starts FilterStream.
StartSearch ==
  /\ Up /\ steps # << >> /\ steps[1].at = "start" /\ chain[1].name = "search"
  /\ \/ /\ steps' = [steps EXCEPT ![1].at = "select"]
        /\ stream' = [stream EXCEPT !.at = "max"]
        /\ UNCHANGED pipes /\ Works
     \/ Ends(1) /\ UNCHANGED stream /\ Fails
  /\ StepsOnly

\* The page goes from the stream's goroutine to the step, which may be stopped
\* by a nil regular expression.
SearchPage ==
  /\ Up /\ steps # << >> /\ steps[1].at = "select" /\ chain[1].name = "search"
  /\ stream.at = "send"
  /\ stream' = [stream EXCEPT !.at = IF Len(stream.page) < PageSize THEN "end" ELSE "query"]
  /\ \/ /\ \E r \in SearchResults(chain[1].search, stream.page) : ToSend(1, r)
        /\ Works
     \/ /\ SearchPanics(chain[1].search, stream.page)
        /\ crash' = "pattern" /\ UNCHANGED << faults, steps >>
  /\ UNCHANGED pipes /\ StepsOnly

SearchEnds ==
  /\ Up /\ steps # << >> /\ steps[1].at = "select" /\ chain[1].name = "search"
  /\ stream.at = "end" \/ cancelled
  /\ Ends(1)
  /\ UNCHANGED stream /\ StepsOnly /\ Works

\* Lists are made with room for half of count events, before the database is asked.
HasRoom(count) == Half(count) \in 0 .. MaxRows

\* A list of one set, then one of the other.
Joint(S, T) == { s \o t : s \in S, t \in T }

\* GetSurroundingEvents: half of count events of the same source id after the
\* event, then it and those before, all by descending offset.
Surrounding(id, count) ==
  LET half       == Half(count)
      Near(op(_, _)) == { i \in DOMAIN Events \cap DOMAIN EventRaws :
                            /\ Events[i].sourceId = Events[id].sourceId
                            /\ op(Events[i].offset, Events[id].offset) }
      offsets    == [ i \in DOMAIN Events |-> Events[i].offset ]
      behind     == Cardinality(Near(>))
  IN  Joint(Pages(Near(>), offsets, IF behind < half THEN 0 ELSE behind - half, half),
            Pages(Near(<=), offsets, 0, half))

StartSurrounding ==
  /\ Up /\ steps # << >> /\ steps[1].at = "start" /\ chain[1].name = "surrounding"
  /\ \/ /\ chain[1].eventId \in DOMAIN Events /\ HasRoom(chain[1].count)
        /\ \E ids \in Surrounding(chain[1].eventId, chain[1].count) :
             ToSend(1, SurroundingResult(Rows(ids)))
        /\ UNCHANGED pipes /\ Works
     \/ /\ chain[1].eventId \in DOMAIN Events /\ ~HasRoom(chain[1].count)
        /\ crash' = "memory" /\ UNCHANGED << faults, steps, pipes >>
     \/ chain[1].eventId \notin DOMAIN Events /\ Ends(1) /\ Works
     \/ Ends(1) /\ Fails
  /\ UNCHANGED stream /\ StepsOnly

\* The next result is taken from the step before.
Receives(i) ==
  /\ Up /\ i > 1 /\ steps[i].at = "select" /\ pipes[i - 1].buffer # << >>
  /\ LET r == Head(pipes[i - 1].buffer)
     IN  IF chain[i].name = "rex" /\ RexPanics(chain[i], r)
           THEN crash' = "pattern" /\ UNCHANGED << faults, steps >>
           ELSE ToSend(i, StepResult(chain[i], r)) /\ Works
  /\ pipes' = [pipes EXCEPT ![i - 1].buffer = Tail(@)]
  /\ UNCHANGED stream /\ StepsOnly

\* Fault: an empty channel is taken for a closed one.
InputEndsEarly(i) ==
  /\ Up /\ i > 1 /\ steps[i].at = "select"
  /\ pipes[i - 1].buffer = << >> \/ cancelled
  /\ Ends(i)
  /\ UNCHANGED stream /\ StepsOnly /\ Works

InputEnds(i) ==
  /\ Up /\ i > 1 /\ steps[i].at = "select"
  /\ (pipes[i - 1].closed /\ pipes[i - 1].buffer = << >>) \/ cancelled
  /\ Ends(i)
  /\ UNCHANGED stream /\ StepsOnly /\ Works

\* Fault: the channel is only closed when the step is cancelled.
SendsAndForgets(i) ==
  /\ Up /\ steps[i].at = "send" /\ Len(pipes[i].buffer) < PipeBufferSize
  /\ pipes' = [pipes EXCEPT ![i].buffer = Append(@, steps[i].out)]
  /\ steps' = [steps EXCEPT ![i].at = IF chain[i].name = "surrounding" THEN "end" ELSE "select",
                            ![i].out = NoResult]
  /\ UNCHANGED stream /\ StepsOnly /\ Works

\* A surrounding step is done then.
Sends(i) ==
  /\ Up /\ steps[i].at = "send" /\ Len(pipes[i].buffer) < PipeBufferSize
  /\ LET last == chain[i].name = "surrounding"
     IN  /\ pipes' = [pipes EXCEPT ![i].buffer = Append(@, steps[i].out), ![i].closed = last]
         /\ steps' = [steps EXCEPT ![i].at = IF last THEN "end" ELSE "select", ![i].out = NoResult]
  /\ UNCHANGED stream /\ StepsOnly /\ Works

-----------------------------------------------------------------------------
(* The goroutine of the job, and the job repository                        *)

EngineOnly == UNCHANGED << Stored, chain, stream, steps, cancelled >>

Out == pipes[Len(pipes)]

\* What the job has of a result: events or rows, by its output type.
Share(result) == IF job.outputType = "events" THEN result.events ELSE result.rows

\* Results that have nothing for the job are passed over.
TakeResult ==
  /\ Up /\ engine.at = "select" /\ Out.buffer # << >>
  /\ LET r == Head(Out.buffer)
     IN  /\ engine' = IF Share(r) = << >> THEN engine ELSE [engine EXCEPT !.at = "add", !.result = r]
         /\ delivered' = delivered \o Share(r)
  /\ pipes' = [pipes EXCEPT ![Len(pipes)].buffer = Tail(@)]
  /\ UNCHANGED job /\ EngineOnly /\ Works

\* The column has no zone: what is stored is what a clock shows.
Stamp(e) == [id |-> e.id, time |-> Wall(e.time)]

\* AddResults or AddTableResults; when it fails the result is given up.
AddResults ==
  /\ Up /\ engine.at = "add"
  /\ \/ /\ job' = IF job.outputType = "events"
                  THEN [job EXCEPT !.results = @ \o
                          [ i \in DOMAIN engine.result.events |-> Stamp(engine.result.events[i]) ]]
                  ELSE [job EXCEPT !.rows = @ \o engine.result.rows]
        /\ engine' = [engine EXCEPT !.at = "stats"] /\ Works
     \/ engine' = [engine EXCEPT !.at = "select", !.result = NoResult] /\ UNCHANGED job /\ Fails
  /\ UNCHANGED << pipes, delivered >> /\ EngineOnly

Maps(result) ==
  IF job.outputType = "events" THEN [ i \in DOMAIN result.events |-> result.events[i].fields ]
  ELSE result.rows

\* Fault: ON CONFLICT ... SET occurrences = excluded.occurrences.
Replaced(stats, new) == new @@ stats

\* ON CONFLICT ... SET occurrences = jfv.occurrences + excluded.occurrences
Added(stats, new) ==
  [ p \in DOMAIN stats \cup DOMAIN new |->
      (IF p \in DOMAIN stats THEN stats[p] ELSE 0) + (IF p \in DOMAIN new THEN new[p] ELSE 0) ]

AddFieldStats ==
  /\ Up /\ engine.at = "stats"
  /\ \/ job' = [job EXCEPT !.stats = Added(@, gatherFieldStats(Maps(engine.result)))] /\ Works
     \/ UNCHANGED job /\ Fails
  /\ engine' = [engine EXCEPT !.at = "select", !.result = NoResult]
  /\ UNCHANGED << pipes, delivered >> /\ EngineOnly

SeeClosed ==
  /\ Up /\ engine.at = "select" /\ Out.closed /\ Out.buffer = << >>
  /\ engine' = [engine EXCEPT !.at = "write", !.state = "finished"]
  /\ UNCHANGED << pipes, job, delivered >> /\ EngineOnly /\ Works

SeeCancelled ==
  /\ Up /\ engine.at = "select" /\ cancelled
  /\ engine' = [engine EXCEPT !.at = "write", !.state = "aborted"]
  /\ UNCHANGED << pipes, job, delivered >> /\ EngineOnly /\ Works

UpdateState ==
  /\ Up /\ engine.at = "write"
  /\ job' = [job EXCEPT !.state = engine.state] \/ UNCHANGED job
  /\ IF job' = job THEN Fails ELSE Works
  /\ engine' = [engine EXCEPT !.at = "end"]
  /\ UNCHANGED << pipes, delivered >> /\ EngineOnly

-----------------------------------------------------------------------------

\* What the goroutines of a search do.
Goroutines ==
  \/ OpenStream \/ QueryPage
  \/ StartSearch \/ SearchPage \/ SearchEnds \/ StartSurrounding
  \/ \E i \in DOMAIN chain : Receives(i) \/ InputEnds(i) \/ Sends(i)
  \/ TakeResult \/ AddResults \/ AddFieldStats \/ SeeClosed \/ SeeCancelled \/ UpdateState

Next ==
  \/ Write /\ UNCHANGED jobVars
  \/ StartJob \/ Abort
  \/ Goroutines

Spec == JobInit /\ [][Next]_allVars

\* While some goroutine or transaction can go on, one of them does; the scheduler
\* and the database are fairer than that.
Fairness ==
  WF_allVars(Goroutines \/ (UNCHANGED jobVars /\ \E w \in Writers : Statement(w)))

FairSpec == Spec /\ Fairness

-----------------------------------------------------------------------------
(* What the GUI is shown                                                   *)

IdsOf(rows, page) == [ k \in DOMAIN page |-> rows[page[k]].id ]

\* Fault: ORDER BY timestamp
OldestResults(j, skip, take) ==
  { IdsOf(j.results, page) :
      page \in Pages(DOMAIN j.results, [ i \in DOMAIN j.results |-> 0 - j.results[i].time ], skip, take) }

\* GetResults: ORDER BY timestamp DESC LIMIT take OFFSET skip.
GetResults(j, skip, take) ==
  { IdsOf(j.results, page) : page \in Pages(DOMAIN j.results, TimesOf(j.results), skip, take) }

FirstN(s, n) == SubSeq(s, 1, IF Len(s) < n THEN Len(s) ELSE n)

\* GetTableResults: ORDER BY row_number LIMIT take OFFSET skip.
GetTableResults(j, skip, take) == FirstN(SubSeq(j.rows, skip + 1, Len(j.rows)), take)

\* What of these can still be found, in the order of the sort mode.
GetByIds(ids, sortMode) ==
  LET found == SelectSeq(ids, LAMBDA id : id \in DOMAIN Events \cap DOMAIN EventRaws)
  IN  IF sortMode = "timestampDesc" THEN Newest(Range(found), Len(found)) ELSE {found}

getJobResults(j, skip, take) == UNION { GetByIds(ids, j.sortMode) : ids \in GetResults(j, skip, take) }

GetFieldOccurences(j) ==
  [ key \in { p[1] : p \in DOMAIN j.stats } |-> Cardinality({ p \in DOMAIN j.stats : p[1] = key }) ]

GetFieldValues(j, key) ==
  [ value \in { p[2] : p \in { q \in DOMAIN j.stats : q[1] = key } } |-> j.stats[<< key, value >>] ]

GetNumMatchedEvents(j) == IF j.outputType = "table" THEN Len(j.rows) ELSE Len(j.results)

-----------------------------------------------------------------------------
(* Properties                                                              *)

Running == engine.at \in {"select", "add", "stats", "write"}

TypeOK ==
  /\ seq \in Nat /\ DOMAIN Events \cup DOMAIN EventRaws \subseteq 1 .. seq
  /\ \A w \in Writers :
       /\ writer[w].at \in {"idle", "insert", "conflict", "raw", "delete", "deleteRaws", "commit"}
       /\ writer[w].reply \in {"none", "ok", "error"}
       /\ writer[w].pos \in 1 .. Len(writer[w].batch) + 1
       /\ DOMAIN writer[w].events \cap DOMAIN Events = {}
  /\ Len(adder) <= AdderSize /\ Len(writer[Publisher].batch) <= BatchSize
  /\ faults \in 0 .. load.faults /\ crash \in {"no", "memory", "pattern"}
  /\ stream.at \in {"off", "max", "query", "send", "end"} /\ Len(stream.page) <= PageSize
  /\ DOMAIN steps = DOMAIN chain /\ DOMAIN pipes = DOMAIN chain
  /\ \A i \in DOMAIN chain :
       /\ steps[i].at \in {"start", "select", "send", "end"}
       /\ steps[i].at = "start" => i = 1
       /\ pipes[i].closed <=> steps[i].at = "end"
       /\ Len(pipes[i].buffer) <= PipeBufferSize
  /\ engine.at \in {"off", "select", "add", "stats", "write", "end"}
  /\ job.state \in {"none", "refused", "running", "finished", "aborted"}

\* When a job is finished nobody works for it any more: each step has ended, the
\* reader of the events too, and every result has been taken from every channel.
FinishedIsDone ==
  engine.state = "finished" =>
    /\ stream.at \in {"off", "end"} \/ cancelled
    /\ cancelled \/ \A i \in DOMAIN chain : steps[i].at = "end" /\ pipes[i].buffer = << >>

\* The fields beside the results, how many values each has and how often each
\* value occurs, are those of the results as a whole, although they are added up
\* batch by batch.
StatsMatchResults ==
  job.state = "finished" /\ faults = 0 =>
    LET Map(i) == IF job.outputType = "events" THEN delivered[i].fields ELSE delivered[i]
        Having(key) == { i \in DOMAIN delivered : key \in DOMAIN Map(i) }
    IN  /\ DOMAIN GetFieldOccurences(job) = UNION { DOMAIN Map(i) : i \in DOMAIN delivered }
        /\ \A key \in DOMAIN GetFieldOccurences(job) :
             LET values == { Map(i)[key] : i \in Having(key) }
             IN  /\ GetFieldOccurences(job)[key] = Cardinality(values)
                 /\ GetFieldValues(job, key) =
                      [ v \in values |-> Cardinality({ i \in Having(key) : Map(i)[key] = v }) ]

\* The events that are written while others search, and all there may be.
Written == Range(load.publish) \cup UNION { Range(load.batches[w]) : w \in Recipients }

Possible == Range(load.stored) \cup Written

\* No clock was set back between any two of the events.
ClocksGoOn == \A d, e \in Possible : d.time < e.time => Wall(d.time) < Wall(e.time)

\* A page of results that is full stays as it is while the search goes on: what
\* comes later belongs behind it, unless clocks were set back.  Events with the same time
\* may change places on it, as they may when it is asked for again, but none comes to it.
StablePages ==
  [][\A skip \in 0 .. Len(job.results) + Len(job.rows), take \in 1 .. 2 :
       /\ ClocksGoOn /\ skip + take <= Len(job.results) =>
            GetResults(job', skip, take) = GetResults(job, skip, take)
       /\ skip + take <= Len(job.rows) =>
            GetTableResults(job', skip, take) = GetTableResults(job, skip, take)]_job

\* What the first n steps make of one event on its own, and what the job gets of it.
Fate(row) ==
  LET upTo[n \in DOMAIN chain] ==
        IF n = 1 THEN Result(<< [row EXCEPT !.fields = ExtractFields(row)] >>, << >>)
        ELSE StepResult(chain[n], upTo[n - 1])
  IN  upTo

Yield(row) ==
  LET r == Fate(row)[Len(chain)]
  IN  IF job.outputType = "events" THEN { Stamp(e) : e \in Range(r.events) } ELSE Range(r.rows)

Content == IF job.outputType = "events" THEN Range(job.results) ELSE Range(job.rows)

\* An event that is stored from the start to the end, and has its time for itself.
Steady(id) ==
  /\ id \in DOMAIN load.stored \ load.deletes
  /\ \A e \in Possible : e.time = load.stored[id].time => Key(e) = Key(load.stored[id])

\* What the search step makes of an event it has been given.
Outcomes(row) ==
  IF row.source \in Configured THEN shouldIncludeEvent(chain[1].search, row) ELSE {"out"}

Searching == chain # << >> /\ chain[1].name = "search"

\* A search that finishes, not aborted and with nothing having failed, has missed
\* nothing: whatever the goroutines, the channels and the writers did meanwhile,
\* the job has what the chain of steps makes of each event that the query finds, that was
\* stored all the while and that has its time for itself.
NothingMissed ==
  job.state = "finished" /\ Searching /\ Queryable(chain[1].search) /\ ~cancelled /\ faults = 0 =>
    \A id \in DOMAIN load.stored :
      Steady(id) /\ Matches(chain[1], id) /\ Outcomes(Row(id)) = {"in"} => Yield(Row(id)) \subseteq Content

\* What was typed has a rex, made of what is in the text, that does this.
RexTyped(Does(_)) ==
  \E value \in DOMAIN Rex : Does(Rex[value]) /\ Range(value) \subseteq Range(load.text)

\* No text that is typed into the search field stops the process, but these: a "!"
\* without "="; a value that is no regular expression; a quoted one that is cut at its
\* end; a rex with groups that are of no use; a surrounding with a count that is below
\* zero or more than there is memory for; and a rex that finds something where there is no
\* text, with a surrounding that may come to an event whose file is not configured.
StopsOnlyOnIllQuery ==
  ~Up =>
    LET typed == Range(load.text)
    IN  \/ typed \cap (Invalid \cup {"!"}) # {}
        \/ Quote \in typed /\ typed \cap DOMAIN Cut # {}
        \/ RexTyped(LAMBDA rex : rex.malformed)
        \/ "surrounding" \in typed /\ \E n \in Integers : ~HasRoom(n) /\ ToString(n) \in typed
        \/ /\ "surrounding" \in typed /\ \E e \in Possible : e.source \notin Configured
           /\ RexTyped(LAMBDA rex : "" \in DOMAIN rex.finds)

\* A job that was started ends, aborted or not, whatever fails on the way, and
\* its state says so if it could be written.
JobEnds ==
  engine.at = "select" ~>
    ~Up \/ (engine.at = "end" /\ (job.state \in {"finished", "aborted"} \/ faults > 0))

\* A transaction that has begun comes to an end: writers that wait for each other
\* are told apart.
WritersEnd ==
  \A w \in Writers : writer[w].at # "idle" ~> ~Up \/ writer[w].at = "idle"

=============================================================================
