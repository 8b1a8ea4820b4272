# Logsuck: specifications, model checking, proofs

Logsuck collects log lines, indexes them in a database and lets people search
them from a browser. This directory holds TLA+ specifications of the parts of it
whose correctness depends on the order things happen in, the TLC configurations
that check them on small instances, and proofs, checked by TLAPS, about the
event repositories, the paged reads, the forwarder, the job engine, the task
manager, the file watcher and the configuration. `PROJECT.json` lists the components, the runs, the seeded
faults, the theorems, and for each definition the lines of Go it stands for.

Paths below are relative to the repository.

- [1. The system](#1-the-system)
- [2. Modules](#2-modules)
- [3. Runs](#3-runs)
- [4. Seeded faults](#4-seeded-faults)
- [5. Fairness](#5-fairness)
- [6. Proofs](#6-proofs)
- [7. Disagreements between code and text](#7-disagreements-between-code-and-text)
- [8. Plan](#8-plan)
- [9. What is not modelled, and why](#9-what-is-not-modelled-and-why)

## 1. The system

One program (`cmd/logsuck`) runs in one of three modes: single, forwarder
(reads files and posts their events to a recipient) and recipient.

    files -> glob watcher -> file watcher -> event publisher -+-> repository   (single)
                                                              +-> HTTP -> recipient -> repository
    browser -> web -> job engine -> pipeline -> FilterStream -> repository
                          |
                          +-> job repository <- web <- polling browser
    settings page -> config repository -> broadcaster -> file reader, task manager, ...
    task manager -> DeleteOldEventsTask -> FilterStream / DeleteBatch -> repository

| component | state | operations | what is hard, and what must hold |
|---|---|---|---|
| **SQLite event repository** `plugins/sqlite_events` | `Events` (AUTOINCREMENT id, UNIQUE host/source/timestamp/offset) and the full text table `EventRaws`, joined on rowid = id | `AddBatch` (two variants), `DeleteBatch`, `FilterStream`, `GetByIds`, `GetSurroundingEvents` | Two tables tied by a number; failing statements, commits, crashes; duplicates. The tables stay in step; an id names one event for ever; a batch is stored as a whole and a duplicate skipped. |
| **FilterStream and its readers** | per stream: snapshot id, timestamp of the last row, the page in hand | page query, send | Pages are separate queries over a table that changes meanwhile, and timestamps are compared as texts. In the order of the time of day shown, nothing twice, nothing missed but ties. |
| **DeleteOldEventsTask** `plugins/tasks` | none between runs | `Run` | Deletes from the table it reads, by a time it prints. Only old events go, but for what zones differ; all of them go in the end. |
| **Forwarding publisher** `internal/forwarder` | the buffer, time of the last error | `PublishEvent`, timeout, `forward`, `dropExcessEvents` | Requests are lost, repeated, answered late. Nothing disappears but by overflow and by two errors of the recipient's repository; everything arrives. |
| **Recipient endpoint** `plugins/recipient` | none (repository, configuration) | `/v1/receiveEvents`, `/v1/config` | Repeated and late chunks; an event without a file configuration. |
| **Job engine** `internal/jobs` | the `cancels` map, a goroutine per job | `StartJob`, its loop, `Abort` | A map shared without a lock, a select with two ready cases, a process that dies. A final job never changes; a finished one is complete; an abort takes effect. |
| **Job repositories** `plugins/sqlite_jobs`, `plugins/postgres` | rows of jobs, results, field statistics | `Insert`, `AddResults`, `AddFieldStats`, `UpdateState`, `Get`, `GetResults`, ... | Each write can fail alone. |
| **Task manager** `internal/tasks` | `taskData`, a goroutine and a context per task | `UpdateConfig`, `ScheduleTask`, tick, run | `UpdateConfig` waits for goroutines that may be running, ticking or gone. One goroutine per task; the goroutines follow the configuration; no wait is in vain. |
| **Configuration** `plugins/sqlite_config`, `plugins/postgres`, `util.Broadcaster`, `internal/web/ConfigWeb.go`, `RemoteConfigSource` | the saved configuration; subscribers' channels; what a forwarder has cached | `Get`, `Upsert`, `Changes`, `Broadcast`, the poll | Blocking sends to each subscriber in turn, conversions there and back. What is saved is what is read; every change arrives. |
| **Static configuration and JSON** `pkg/logsuck/config` | `defaultConfig` | `FromJSON`, `ToJSON`, the command line | Defaults filled in on one way and left out on the other. A document that was accepted can be read again. |
| **File reader** `plugins/filereader` | per glob: watchers and their command channels; per file: offset, read buffer | coordinator, `UpdateConfig`, `Start`, `handleEvents` | Commands to goroutines that may have returned; files that are replaced; lines cut by reads. The watchers follow the configuration; every line is published whole. |
| **Batched publisher** `internal/events` | a batch | `PublishEvent`, timeout | A batch that fails to be added. |
| **Search and pipeline parsers** `pkg/logsuck/parser` | none | `tokenize`, `ParseSearch`, `ParsePipeline` | Texts users type. No text stops the process but some that can be named; a search finds what its text means, but for differences that can be named. |
| **Pipeline and steps** `internal/pipeline`, `plugins/steps` | channels between steps | `CompilePipeline`, `Execute` | A goroutine per step, channels that are closed one behind the other, a context that is cancelled. Nothing is lost between steps, and every job ends. |
| **Indexed files configuration** `pkg/logsuck/indexedfiles` | none | `ReadFileConfig`, `mergeConfigs` | The merge has cases that leave a parser half configured, or none. |
| **Search page** `internal/web/static/src/pages/SearchPage.tsx` | the search, its poller | search, poll, cancel | Answers that arrive after the search they belong to was replaced. |
| **Web server, enum provider** | none | | Decoding of requests; no state. |
| **PostgreSQL repositories** `plugins/postgres*` | the same tables in another database | the same | Transactions run side by side, wait for each other's keys and may be ended as a deadlock; a search is no snapshot. |

### How the parts interact

- *Calls:* web to job engine and repositories; publisher and recipient to
  `AddBatch`; the delete task to `FilterStream` and `DeleteBatch`.
- *Channels:* readers to a publisher (unbuffered), `FilterStream` to its reader
  (unbuffered), step to step, broadcaster to each subscriber (unbuffered),
  coordinator to watchers (unbuffered), goroutine to `UpdateConfig`
  (`isCancelled`, room for one).
- *Shared state:* `Engine.cancels` (no lock), `TaskManager.taskData`
  (`sync.Map`), the database (SQLite's locks).
- *Messages:* a forwarder's HTTP posts.
- *Restarts:* only the database survives.

## 2. Modules

| module | about | uses |
|---|---|---|
| `EventIndex` | what a repository promises: an index that batches are added to and sets deleted from, each as a whole | |
| `SqliteEvents` | the two tables, statement by statement; `TameNext`, the calls that keep the batch variant right | `EventIndex` (refinement) |
| `MCSqliteEvents` | its batches for TLC | `SqliteEvents` |
| `SqliteEventsProofs` | theorems and proofs, the refinement of `EventIndex` among them | `SqliteEvents` |
| `EventStream`, `EventStreamProofs` | `FilterStream` with a search and the delete task | |
| `MCEventStream` | timestamps in two zones | `EventStream` |
| `Forwarding`, `ForwardingProofs` | publisher, network and recipient | |
| `JobEngine`, `JobEngineProofs` | jobs, aborts, restarts | |
| `TaskManager`, `TaskManagerProofs` | schedules and configuration changes | |
| `FileWatcher`, `FileWatcherProofs` | one log file and its watcher | |
| `ConfigJson` | `FromJSON`, `ToJSON` and the command line, as operators | |
| `IndexedFiles` | `ReadFileConfig` and `mergeConfigs`, as operators | `ConfigJson` |
| `ConfigChanges`, `ConfigChangesProofs` | how a configuration is saved, told and followed | `IndexedFiles` |
| `MCConfigChanges` | documents, good and bad | `ConfigChanges` |
| `PgEvents` | the tables in PostgreSQL and those who write them | |
| `Query` | lexer and parsers, as operators | |
| `Pipelines` | compilation, and what each step makes of a batch, as operators | `Query` |
| `SearchJobs` | one search from its text to the pages of its results | `PgEvents`, `Pipelines` |
| `SearchInvariants`, `SearchJobsProofs` | its inductive invariant; theorems and proofs | `SearchJobs` |
| `QueryMeaning` | what the manual promises of a search, and where the code differs | `SearchJobs` |
| `MCSearchJobs` | events, queries, writers | `QueryMeaning` |

`EventStream` and `Forwarding` rest on `SqliteEvents`: they treat an `AddBatch`
or a `DeleteBatch` as one step on a set of events, which is what the refinement
to `EventIndex` says it is. `SearchJobs` does not: it composes the pipeline and the
job with the transactions of `PgEvents` statement by statement. The steps of a
search leave the tables alone (`Elsewhere` of `PgEvents`), so `SearchJobs`'
specification implies `WriteSpec`, the specification of the writers; this is the theorem
`SearchLeavesStore`.

### SqliteEvents

State: the committed tables `db`, the tables of the open transaction `work`, the
statement it is at (`phase`), the batch and the loop index, the ids to delete,
and what the last call returned. `db.issued` is a history variable: the event
every id was first given to. One transaction is open at a time, which is
SQLite's write lock; a call that does not get it ends as in `RollBack`.

| action | code (`SqliteEventRepository.go`) |
|---|---|
| `BeginAdd` | `AddBatch`, `BeginTx` |
| `SkipDuplicate`, `InsertEvent`, `InsertRaw`, `LoopDone` | the loop of `addBatchOneByOne`; the unique constraint, `INSERT INTO Events`, `INSERT INTO EventRaws` under `LAST_INSERT_ROWID()` |
| `InsertAllEvents`, `InsertAllRaws`, `CleanUp` | the three statements of `addBatchTrueBatch` |
| `BeginDelete`, `DeleteEvents`, `DeleteRaws` | `DeleteBatch` |
| `Commit`, `CommitFails`, `RollBack`, `Crash` | the ends of a transaction |

What SQLite itself does is modelled from its documented behaviour: AUTOINCREMENT
gives an id above all ids ever committed, an ignored row of a multi-row `INSERT
OR IGNORE` uses one up, a full text table continues from `MAX(rowid)`. Two
errors the code ignores are behind `SwallowedErrors`: a failing clean-up
(logged), and a failing `COMMIT` of `AddBatch` (its result is dropped).

### EventStream

`stream[r]` is the goroutine behind one call of `FilterStream`: `Open` is the
query for `MAX(id)`, `QueryPage` one page, `SendPage` the hand-over on the
unbuffered channel. A reader is a search, or `Task`, the delete task, which can
take a page only when it has deleted the one before (`DeletePage`,
`DeleteFails`). The `MATCH` string and the include/exclude lists are left out,
because they only choose which events the whole thing is about.

A timestamp is a text: the time of day in some zone, then the zone. `wall[i]` is the
first and `zone[i]` the second, so `Time(i) == wall[i] - zone[i]` is when event `i`
happened. An event has the zone its line's layout gives it, UTC if it gives none, the
host's for UNIX times. sqlite compares the texts, not the times: a stored
`2023-01-02 10:00:00+02:00` and a printed `2023-01-02 10:00:00 +0100 CET` differ first
in the time of day, and if that is the same in the character behind it, where ' '
sorts before '+' and '-'. So `Matches` and `IsPage` go by `wall`, and both bounds are
exclusive although the SQL says `<=` for one of them. `cutoff`, the time of
the delete task, is a time; `TaskStarts` prints it in a zone the host has
(`HostZones`: two where clocks are set forward and back), and from there on it is a
time of day.

### Forwarding

`accumulated`, `pc`, `recentError` are the publisher goroutine; `chunk`,
`response`, `strays` the network; the rest is the recipient: `configured`, its
configuration, and of its repository `known`, what is in the table `Events`, and
`stored`, what has its text too, which is what a search can find. Events
are numbers in the order they are published. A post ends in an answer
(`Accepted`, `Refused`) or breaks (`ConnectionBreaks`), at any time: before the
request arrived, while it is under way (it becomes a stray and may be served
later), or after it was served. `NumOver` and `ForwardEnds` are `dropExcessEvents` and the way back
to the select.

`Serve` adds the chunk as one batch (`AddBatch`): of its events those that are known are
skipped as duplicates, and the texts of the others are kept. `SqliteEvents` shows two ways in
which that is not so, and both are here. `ServeUncommitted`: `COMMIT` fails, `AddBatch`
returns nil, and the request is answered as one that was served; the history variable
`uncommitted` has its events. And under `TrueBatch`, the default, a batch that ends in
a duplicate, as one sent again after a lost answer does, sets the counters of the two tables apart
(`drifted`); from then on the clean-up may delete any text of a batch, so `AddBatch`
keeps any set of them. `CountersDrift` is the same through another client's
batch, at any time.

### JobEngine

A job is a row (`state`, `results`, `stats`), an entry of `cancels`, and a
goroutine (`pc`, `outcome`) that reads a channel (`pipe`). The content of results
is not kept, only their number. A handler in `Abort` takes one step per access to
shared state. `Crash` is a restart: it also stands for the runtime stopping the
process because of two unsynchronised accesses to the map.

### TaskManager

`schedules` records every call of `ScheduleTask`: its task, the configuration it
was made under, where its goroutine is, whether its context is cancelled and
whether `isCancelled` holds its token. `taskData` maps a task to the latest
stored `TaskData`; a goroutine's own copy is the pair `[schedule, running]` that
`Tick` and `RunReturns` store. `pc`, `todo` and `waitsFor` are `UpdateConfig`. A
`Broadcast` is a goroutine of its own in the code, so those under way are
counted, and one that runs before `Subscribe` finds nobody.

### FileWatcher

`files` are all files ever created at the path, `current` the one there now; a
file is a sequence of text and delimiters. A program that logs may write to
a file after it was removed or renamed. `notices` counts what fsnotify reported
and the glob watcher has yet to pass on; removals and creations both become
`CommandReopen`, renamings are not looked at. `pc`, `file`, `readPos`,
`workingBuf` and `currentOffset` are the watcher. `handleEvents` is a step per
event: `workingBuf` is what is left to publish and `splitOffset` its place in the
buffer, which `Split` puts into `res.Offset`. `published` keeps, for each source id
(each opening of the file), its events in order; `sources` the file it was.

### ConfigJson, IndexedFiles, ConfigChanges

A document is a record of the fields the rest of the program acts on; what is only
copied is left out. `FromJSON` fills in defaults, `Rejects` and `PanicsReading` are
its errors and its panics; `ToJSON` is what `Upsert` writes. Optional parts are
sets of at most one element. `ReadFileConfig` gives for each file the merged
configuration, or says that its types conflict. `IsDocument` is what every document
has: lists are lists, and the core plugins are at the top level, as in the schema the
settings form is made from. `Chosen`, and the loop of `mergeConfigs`, are recursive
functions over the entries seen so far, about which there can be lemmas.

`ConfigChanges` is a process that has its configuration from one of three
sources (`mode`): a forced static configuration, its own `Config` table, or the
recipient it polls.

| action | code |
|---|---|
| `BuildAndSaveFirst`, `BuildOnStatic`, `BuildOnTable`, `BuildOnRemote` | `provideConfigSource`, and the order in which `main` builds things |
| `Post` | `POST /config` (`ConfigWeb.go`) |
| `Refresh` | the poller of `RemoteConfigSource` |
| `CastStarts`, `ReaderHears`, `TasksHear` | `Broadcaster`'s goroutine, a channel at a time |
| `TasksStart`, `TasksUpdate` | the task manager, of which only what a broadcast sees is kept |
| `ReaderGet`, `CancelWatcher`, `VisitWatcher`, `SendReload`, `AddWatchers`, `Subscribe` | `GlobWatcherCoordinator` and `reloadFileWatchers` |
| `SubscribeBoth` | `Subscribe` of the coordinator and of the task manager at once, one of which is lost |
| `GlobStarts`, `FileAppears`, `GlobDone`, `FileWatcherSplits` | `GlobWatcher` and the state of its `FileWatcher` |
| `Restart` | the process is started again, after a panic or otherwise |

`crash` says why the process stopped. "config": a configuration it cannot run on. "get":
the first `Get` of the coordinator failed, whose error `ReaderGet` drops as the code does, and
the nil it returned was used. "race": two unsynchronised accesses, of the coordinator and
a glob watcher to a map, which the runtime may notice, or of `Broadcast` and
`Subscribe` to the slice of subscribers, for which stopping stands as the worst.

### PgEvents

`writer[w]` is a transaction: a forwarder's request, the publisher of local files
(`adder` is its channel), or a delete. Its own inserts and deletes are kept in the
record and reach `Events` and `EventRaws` when it commits. An insert whose key
another transaction has inserted or deleted waits; `Deadlock` fails one of those
that wait for each other. `Statement(w)` is what a transaction does next. The rules
of the unique index and the sequence are PostgreSQL's.

### Query, Pipelines, SearchJobs, QueryMeaning

A text is a sequence of atoms: words, blanks and symbols. `tokenize`, the search
parser and the pipeline parser are recursive functions over it, a round of a loop
at each number (`upTo`, `items`), with the results "ok", "error" and "endless". `Compile` gives the chain of steps.
`SearchResults`, `StepResult` and `SurroundingResult` are what `search`, `where`,
`rex`, `table` and `surrounding` make of a batch; where the code goes over a map in
any order there is a set of outcomes. What a regular expression finds in a word, what
a file's parser extracts and what a word with `*` stands for are data of the MC
module. So is `Cut`: the lexer ends a quoted value one byte behind the beginning of the
character before the closing quote, so of a last character of several bytes only the first
is left, and the word that it ends (`CutWord`) is no regular expression. Numbers
have a sign, as for `strconv.Atoi`; a count that is below zero, or more than `MaxRows`
after it is halved, is one `make` cannot be given (`HasRoom`). `NoEvent` is what
`surrounding` makes of an event whose file is not configured: a zero value, to whose
nil map of fields `rex` cannot add (`RexPanics`).

`SearchJobs` has a goroutine per step (`steps[i]`), the channel each writes to
(`pipes[i]`), `FilterStream`'s goroutine (`stream`), the goroutine of the job
(`engine`) and the job's rows (`job`). `StartJob` compiles the query. A step that
waits sees a cancelled context, one that sends does not. The operators `GetResults`,
`GetTableResults`, `GetByIds`, `GetFieldOccurences`, `GetFieldValues` and
`getJobResults` are what the GUI is given.

Events may share a time, and no query of the code says in which order these come. `Pages`
is the set of lists that an `ORDER BY ... LIMIT ... OFFSET` by some amount may return, and a page of events
(`QueryPage`) or of results (`GetResults`) is any of them. The rows of a page are read one by one,
and a read that fails in between ends the stream with a part of the page that looks like a
last one (`HasRead`). The times of results are
stored without their zone: `AddResults` keeps `Wall(time)`, what a clock shows, which is not in
the order of the times where clocks are set back. (PostgreSQL compares the times of *events* as
times: their column has a zone.)

`QueryMeaning` is the other side: a query as clauses, a time range and commands;
`Render`, the text a user types for it; and `Meant`, the events he means according to
the README's "Search syntax". No definition of `Meant` uses the lexer, the parsers,
the steps or the SQL. Where the code differs from the manual the promise has an exception,
which is stated on the query and the events alone:

- `FindsNothing`: a pattern that begins with `*` and is looked up in the database, a phrase in the
  quotes of a `| search` command, a list of sources or hosts;
- `PassesNothing`: a `where` on a field that `rex` has made and whose name has a capital, or on a value
  that is cut at its end;
- `Overlooked`: clauses an event need not satisfy: all but the last `=` on the same field,
  the order of the words of a phrase, one of two excluded fields if the event lacks the other.

`Allowed` is what the query means without the clauses that are overlooked, `owed` what it has
to find: what is meant, lasts, and has a time of its own, and nothing when one of the first two holds.
`Shows(S)` says that the job shows the events of `S`, in what pages and in which order, and
`ResultIsMeaning` that it shows `owed` and some of the rest of `Allowed`.

## 3. Runs

`tlc -workers 2 -config <run>.cfg <module>` in this directory.

| run | module | bounds | properties |
|---|---|---|---|
| `SqliteOneByOne` | `MCSqliteEvents` | 2 identities, 2 texts, batches of up to 2, 4 ids, all errors | `Aligned`, `IdNamesItsEvent`, `ImplementsIndex` |
| `SqliteTrueBatchTame` | `MCSqliteEvents` | 3 identities, 2 texts, batches of up to 2, 5 ids, no ignored errors, callers as in `TameNext` | `ImplementsIndex`, `AckMeansIndexed` |
| `SqliteTrueBatch` | `MCSqliteEvents` | as the first, no ignored errors | `OnlyDuplicatesSkipped` is violated |
| `Stream` | `MCEventStream` | one search and the task, pages of 1, timestamps in the host's zone and in one behind it, 3 events, failing queries | `PagesDescend`, `OnlyTiesMissed`, `OnlyOldDeleted`, `OldEventsGo` |
| `Forward` | `Forwarding` | 3 events, chunks of 2, buffer of 2, changing configuration, the batch variant at the recipient | `NothingLost`, `BufferIsNewest`, `Delivered` |
| `ForwardQueue` | `Forwarding` | 5 events, chunks of 2, buffer of 3 | `QueueBounded` is violated |
| `Jobs` | `JobEngine` | 1 job of 2 results, 2 handlers, failing writes, 2 restarts | `NotStillRunning`, `FrozenWhenFinal`, `AbortTakesEffect` |
| `Tasks` | `TaskManager` | 2 tasks, 2 changes, failing `Get` | `OneGoroutine`, `FollowsConfig`, `WaitIsAnswered`, `AppliesChanges` |
| `Reader` | `FileWatcher` | buffers of 2, 3 bytes, 2 files, 1 restart | `WholeLines`, `OffsetsAscend`, `LinesPublished`, `FollowsRotation` |
| `ReaderOffsets` | `FileWatcher` | one file | `OffsetIsPosition` is violated |
| `Config` | `MCConfigChanges` | 3 sources, up to 2 changes by users, 1 restart, 1 failure | `TypeOK`, `SavedIsRead`, `SettingsReachRepository`, `WatchersFollowConfig`, `SendIsReceived`, `StopsHaveCause`, `ChangesArrive` |
| `Search` | `MCSearchJobs` | 51 workloads over 5 stored events; pages of 2, channels of 1, batches of 2 | `NothingMissed`, `Aligned`, `AckedIsStored`, `FinishedIsDone`, `StatsMatchResults`, `StopsOnlyOnIllQuery`, `ResultIsMeaning`, `StablePages`, `JobEnds`, `WritersEnd` |

The type invariants of the other modules are proved, as are `NoRowidConflict`,
`ChunkIsHead`, `FinishedIsComplete` and `SingleLines`, which no run needs to check.

Why the bounds are enough to see the interesting cases:

- *SQLite:* a batch of two holds a duplicate within the batch, a duplicate of a
  stored event, and either with a new event before or behind it. Four ids leave
  room for a second batch after one that was deleted, rolled back, or partly
  skipped, which is when the counters of the two tables can part. A third
  identity in the tame run gives a batch with a duplicate in front and a new event
  behind a table that is not empty.
- *Stream:* pages of one make every page end a possible tie; with three events a
  stream has a page read ahead, one at the reader and one to come. Ids and
  timestamps are independent, so late events are among them. Two zones are what it takes for
  two events at the same time to show different times of day; the event in the zone behind the
  host's is deleted an hour early. Some 313,000 states.
- *Forward:* a buffer of two holds one chunk, a third event overflows
  it. Strays can hold every chunk that was ever posted, so a chunk is served twice, which is what
  sets the counters apart, and the event behind it meets the clean-up. Some 138,000 states.
- *Jobs:* jobs share nothing but the handlers, so one job shows what a job can
  meet; two handlers race with each other and with the goroutine. With two
  restarts an abort can be cut off by one and repeated after it.
- *Tasks:* each change finds goroutines of the first or the second configuration,
  ticking, running or gone; two tasks are what it takes to wait for one while
  the other moves.
- *Reader:* three bytes and a buffer of two give a line cut by a read, two lines in
  one read and a remainder; two files a rotation, with either order of the notices
  and the watcher's ticks.

- *Config:* two documents in a row are what it takes to meet a watcher of the first
  with the second; each document of `MCConfigChanges` is one way a configuration can
  go right or wrong (types that conflict, an interval of zero, an invalid delimiter,
  a host type with files, plugins left out), and one restart shows whether the
  saved row can be started from; the one failure can be that of the `Get` at the start.
  Some 186,000 states.
- *Search:* pages of two over five events need three pages, channels of one fill up
  between steps, and the result spans batches. Each workload asks one question: a
  query that can be typed in several ways, a text that is wrong in one way, an abort, a
  failure, events that come or go meanwhile, writers with the same events in
  opposite orders. Each of the exceptions of `QueryMeaning` has a query that needs it, and each of
  the ways a text can stop the process a text that does: counts of -1 (half of which is 0, so
  nothing happens), -2 and more than there is memory for, a `rex` behind a `surrounding` that
  comes to an event of a file that is not configured, a quoted word whose last letter has
  several bytes. `Ties` has two events with the same time on both sides of a page's end,
  `Autumn` events from before and after clocks were set back by two. Timestamps are below 14.
  Some 13,300 states.

`CHECK_DEADLOCK FALSE` is given for `Jobs`, `Tasks`, `Config`, `Search` and the two of
`FileWatcher`, which may stop: every job is final and no one asks, no configuration
enables a task, users have saved what they may, the process has stopped, no file
exists.

The properties, one line each; the comments in the modules say more.

- `Aligned`: an event is in both tables or in neither.
- `IdNamesItsEvent`: what is read under an id is what was first stored under it.
- `ImplementsIndex`: the tables implement `EventIndex`.
- `AckMeansIndexed`: nil from `AddBatch` means the batch can be read.
- `PagesDescend`, `OnlyTiesMissed`: nothing twice, nothing out of the order of the time of
  day shown, nothing missed but what shows the time of day at which a full page ended.
- `OnlyOldDeleted`: an event goes through the task only, and not before its time but by what its zone
  is behind a zone of the host. For a host and events in one zone, without summer time,
  this is "only old events are deleted".
- `OldEventsGo`: retention is, in however many runs, complete, for any zones.
- `NothingLost`: a published event is in the buffer, stored with its text, dropped by overflow, or
  lost in one of the two ways in which `AddBatch` acknowledges what it does not keep: its
  `COMMIT` had failed (and it is in no table), or its text was deleted with those of duplicates
  (and then some batch had ended in a duplicate, under `TrueBatch`).
- `BufferIsNewest`: the buffer holds the newest events, without a gap.
- `Delivered`: each event reaches the recipient or is dropped in the end, stored there or lost in one
  of the ways of `NothingLost`, unless the recipient has
  no configuration for an event in the buffer; that one is refused with its whole
  chunk each time and holds up all behind it until it overflows.
- `NotStillRunning`: `Abort` warns that a job whose row it sets "may actually still be
  running"; it never is.
- `FrozenWhenFinal`: a client that reads a final state has all there will be.
- `AbortTakesEffect`: an acknowledged abort takes effect, unless the write of the
  final state failed or the process died. A job left running by a process that died
  stays so until it is aborted.
- `OneGoroutine`: a task never runs twice at once.
- `FollowsConfig`: after `UpdateConfig` the live goroutines are those the
  configuration asks for.
- `WaitIsAnswered`, `AppliesChanges`: `UpdateConfig` is never stuck, and changes
  made after `Start` subscribed are applied unless `Get` fails.
- `WholeLines`: the events of a source and the buffer are exactly what was read of its
  file, however it was cut.
- `OffsetsAscend`: `GetSurroundingEvents` sorts by offset; this never contradicts the
  order of the lines, although the offsets are not where the lines are.
- `LinesPublished`: a line in a file the watcher has open is published, also when the
  file is removed or replaced.
- `FollowsRotation`: a new file at the path is opened in the end.
- `SavedIsRead`: a saved row can be read again, as the configuration that was
  accepted, also after the second conversion by which a forwarder gets it.
- `SettingsReachRepository`: the event repository gets the settings of its plugin, but
  in the process that filled an empty table.
- `WatchersFollowConfig`: a configuration that was applied has a live watcher for each of
  its files, and no other.
- `SendIsReceived`: the coordinator never waits for a file watcher that is gone.
- `StopsHaveCause`: the process stops itself only for a configuration it was about to use, or had
  started a file watcher with, that is ill in one of the ways listed in `Ill`; for a `Get` that fails
  at the coordinator's start, with a table of its own; or for one of two races, a change
  after the first with a glob watcher about to find its file, and a broadcast with a
  subscription.
- `ChangesArrive`: the coordinator ends up with the newest configuration, a forwarder
  with its recipient's.
- `Aligned` (of `PgEvents`): as in SQLite, with transactions side by side.
- `AckedIsStored`: an acknowledged batch is stored, unless the program gave it up.
- `WritersEnd`: every transaction comes to an end.
- `FinishedIsDone`: when a job is finished, every step has ended and every channel is
  empty.
- `NothingMissed`: a search that finishes, not aborted and with nothing having failed, shows
  what its chain makes of each event the query finds, if the event is stored from the start to
  the end (`Steady`) and no other event that may be written has its time.
- `StatsMatchResults`: the counts beside the results are those of the results.
- `StopsOnlyOnIllQuery`: no text stops the process but those the property lists: a `!` without
  `=`, a value that is no regular expression, a quoted value that is cut at its end, a `rex` with
  useless groups, a `surrounding` with a count there is no memory for, and a `rex` that finds
  something in no text, behind a `surrounding` that may come to an event whose file is not configured.
- `ResultIsMeaning`: a finished search has found what its text means, but for the named exceptions;
  of events that come or go meanwhile, or share a time, each may be in it or not.
- `StablePages`: a full page of results stays as it is while the search goes on, unless clocks
  were set back between two of the events. Events with the same time may change places on it.
- `JobEnds`: a job that was started ends.

## 4. Seeded faults

Each module has operators whose comment begins with "Fault:". No action uses them.
Each is a variant of the definition that follows it, as a plausible mistake would
make it: a plain INTEGER PRIMARY KEY, a page query with `<=`, a status that is not
looked at, host types left out of a conversion, a channel that is never closed, a
cancel that does not wait. `PROJECT.json` pairs each with the property that catches it: put in
place of the definition, it makes TLC report that property in the same run.

## 5. Fairness

- *Stream:* weak fairness on the goroutine, the task and its restart by the
  ticker; strong fairness on the query and the delete that succeed, as each may
  fail now and then but not always. None for searches, which nobody has to start.
- *Forward:* weak fairness on the publisher's steps (its timer ticks) and on the
  end of each post; strong fairness on being served and on receiving the answer:
  the network is not down for ever. None for `Publish`, `SecondPasses` or strays.
- *Jobs:* weak fairness on goroutine, pipeline and handlers. Strong fairness
  on `SeeDone`: Go's select chooses at random among the ready cases, so a context
  that is done is not passed over for ever. None for crashes, failures or requests.
- *Tasks:* weak fairness on the updating goroutine and on a task's `Run` returning
  (a task that never returns does hold up `UpdateConfig`, by design); strong
  fairness on `SeeDone`, for the same reason as above. None for ticks or changes.
- *Reader:* weak fairness on the watcher (its ticker ticks) and on the start of one;
  strong fairness on `Reopen`: select takes a command that is offered again and
  again. None for the programs that log.
- *Config:* weak fairness on the poll (its ticker ticks), on broadcasts, on the task
  manager and on the coordinator. None for users, files, failures and restarts.
- *Search:* one weak fairness: while some goroutine or transaction can go on, one of
  them does. Go's scheduler and the database give more, but the properties need no more.
  None for users and for requests to come.

## 6. Proofs

Eight modules hold theorems. Each has an inductive invariant `IInv` that
strengthens what is proved, a lemma per action that the action keeps it, and
theorems read off from it. Liveness and ENABLED are beyond this prover.

**`SqliteEventsProofs`**, first under `~TrueBatch`, the variant that adds one event at a time. `Aligned` is about the committed tables, and what makes the next
commit keep it is the state of the open transaction: `IInv` adds, by `phase`, how
`work` may differ from `db`. Between statements the two tables agree, after
`InsertEvent` they differ by the one id just given, after `DeleteEvents` by the doomed
ids; ids and rowids are at most `seq`, so the next id is fresh in both; and every row
is what `issued` says of its id.

- `TypeCorrect`, `TablesAligned`, `IdsNameTheirEvents`, `RowidsNeverConflict`: type
  correctness, `Aligned`, `IdNamesItsEvent`, `NoRowidConflict`.
- `Refinement`: `Spec => ImplementsIndex`. The committed tables, read through the join,
  start as the empty index, and a step either adds the batch as a whole, deletes a set
  as a whole, or leaves the index alone. `RInv` adds that identities are unique in both
  copies, and, by `phase`, what of the batch `work` holds.
- `AckSound`: `AckMeansIndexed`, assuming `~SwallowedErrors`: with a `COMMIT` that may
  fail unnoticed it does not hold.

Then under `TrueBatch`, the default, from `TameSpec`: the run `SqliteTrueBatch` shows that
without conditions on the callers it does not hold. The events of a batch get the ids behind the
last one given, and skipped ones use up an id; their texts get the rowids behind the greatest in
`EventRaws`. `BInv` has what keeps the two together: `Level`, the last id given has a text, so
that both count on from the same number; after the first statement the new events have the ids
`NewIds`; after the second every text is under the id its event has or would have; so the clean-up
takes the texts of those that were skipped and no other.

- `BatchTablesAligned`, `BatchIdsNameTheirEvents`, `BatchSkipsDuplicates`: `Aligned`,
  `IdNamesItsEvent`, and `OnlyDuplicatesSkipped`, which is refuted for other callers.
- `BatchRefinement`, `BatchAckSound`: `ImplementsIndex` and `AckMeansIndexed`.

**`SearchJobsProofs`**, whose inductive invariant is stated in `SearchInvariants`: `KInv` for the
writers, and with it `JInv` for the search. First the writers: `TablesAligned`, for any set of
writers and workloads, from
`WriteSpec`. For each place a transaction can be at, `Place` says how far its inserts
and deletes in the two tables are apart. The step that matters is the second statement
of a delete: what it finds in `EventRaws` is what the first found in `Events`, because
no id that is inserted is one to be deleted (ids are drawn from a sequence that is at
or above every stored id), whatever was committed in between.
`AcknowledgedIsStored` (`AckedIsStored`) needs `KInv`. A key is `Kept` when it is in the
table, was deleted, or was given up. `FreshIds`: the ids a transaction has drawn are
in nobody else's rows, so a commit overwrites nothing and what is kept stays kept. `Adds`:
every event before a transaction's position is kept, or among its own inserts. The rest
follows the batch of the local publisher from the channel through `adder` to its writer.

`SearchLeavesStore`: `Spec => WriteSpec`, so that both hold while anyone searches.

**`SearchJobsProofs`**, the search, for any texts, steps, events and sizes of pages and
channels. In this order:

- The text. `Tokens(A)`, `Searches(A)`, `Args(A)` and `IsChain(A, c)` are the tokens, searches,
  options and chains that are made of atoms of `A`. Each function of `Query` and
  `Pipelines` keeps within these, up to `CompileIs`: `Compile` runs for ever, which takes a
  `!` among the atoms, or returns an error, or a chain whose first step is `search` or
  `surrounding` and no other is. That the loops have values at all is shown once (`Runs`):
  a loop whose round maps a set of states into itself can be run any number of times.
- `Shape` and `WritersAt`, which say where each goroutine and each transaction can be and what it
  then has: `SearchTypes`, which says `TypeOK`.
- `Ended`: the steps end in order. A step that has ended, unless the job was cancelled, has
  only ended steps with empty channels before it, and the reader of the events ends before the
  first step. `FinishedJobsAreDone` (`FinishedIsDone`) is what this says of the last step.
- `Stops`: the process has stopped only for one of the causes in `Ill`, which are those of
  `StopsOnlyOnIllQuery`. A search that panics has in `Fields` or `NotFields` a value with an
  invalid atom (`PanicIsIll`), which was typed, or is what `CutWord` left of one that was typed
  beside a quote: the atoms of a chain are `Atoms`, those of the text and what is left of them. A
  `rex` that panics was made of what is in the text, and if it does so for a blank event,
  `Results` has it that the first step is a `surrounding` and that there may be events of
  files that are not configured (`Lost`). A `surrounding` for whose count there is no room was
  given that count, with its sign, in the text (`CountFrom`).
  `OnlyIllQueriesStop` (`StopsOnlyOnIllQuery`).

- `EventsPlaced` and `Results`: what is written, and whatever is on its way from the stream
  to the job, has times and offsets, but for blank events where `Lost` allows them; `StepResultIs`
  says for each step that what it makes of a batch has no times but those of the batch.
- `Flow`, assuming `ClocksGoOn`: the events go to the job in line. A place in line is the page that
  is sent, an element of a channel, what a step has to send behind it, what the goroutine of the job
  adds, or what the job has; what a clock shows for an event in one of them (`Flight`) is less than
  for any event in a place ahead, and at most that of the last row read
  for what is ahead of the stream. It is strict because the first row of the next page is older than the last
  one of a page (`ReadTimes` says whose time that is), however many events share a time. So what
  `AddResults` adds is strictly older than all that is there, and `Pages` of as many
  as there were is the same set as before: `StablePagesOfResults` (`StablePages`), by `PagesStay`,
  for pages of any size. Without `Flow` nothing is known of what is in the channels, and
  `StablePages` is not inductive; without `ClocksGoOn` it is not true.
- `Counted`: the statistics of the job are those of what was taken (`Counts`), but for the
  batch that is being added. `StatsBoth` says that adding up two batches counts both, `StatsMatch`
  that counting the pairs of field and value is counting values field by field:
  `StatsOfJobsMatch` (`StatsMatchResults`).
- `TextsKept`: each event has its own text, and an event that is stored at the start and in no
  delete stays, the only one with its key, because no transaction has an insert of
  that key.
- `Underway`: what such an event becomes is always somewhere. It is still to be read
  (`Unread`), in the page that is sent, in a channel or with a step, where the batch has what the
  steps so far make of the event on its own (`Fate`), with the goroutine of the job, or shown.
  Three facts carry an event along: a page has all that is newer than its last row and is
  not empty while there is something to find (`PageHas`); what a step makes of a batch has
  what it makes of each part (`StepWithin`, from `StepElements`, which gives the result of each
  kind of step as a set); and the search step lets the event through (`SearchElements`).
  When the job is finished, `Ended` leaves only the last of these places:
  `FinishedSearchesMissNothing` (`NothingMissed`). Without `Underway` nothing is known of what
  has left the table and not reached the job.

Of a workload `SearchJobsAssumption` says that times, offsets and what clocks show are numbers,
and that no two stored events have the same key, which is the unique key of the table. Events may share
a time; `Underway` is about those that have one for themselves (`Steady`).

The proof made `StopsOnlyOnIllQuery` say more: a `rex` may only stop the process if it is
made of what is in the text, where before it was enough that there is one.

**`EventStreamProofs`**: `TypeCorrect`, `Descending` (`PagesDescend`), `TiesAtMost`
(`OnlyTiesMissed`), `DeletedWhenDue` (`OnlyOldDeleted`), for events and hosts in any zones. Times
in what follows are times of day. `Above`: what a stream has sent, and
the page in hand, is at or above the time of the last row read. `Below`: what it has not
sent of the events it began with is below that, or has the time of a last row of a
full page. The proof needs the oldest row of a page, so that a finite set of numbers
has a least element, which comes from the library's theorem on well-founded relations.

**`ForwardingProofs`**: `TypeCorrect`, `NeverLost` (`NothingLost`), `NewestBuffered`
(`BufferIsNewest`), `HeadAnswered` (`ChunkIsHead`: an answer is about the head of the
buffer). An "ok" does not mean that the chunk is stored. What it does mean is `AnswerIsTrue`:
each event of the chunk is `Taken`, known to the recipient or in `uncommitted`, and that stays so, since what
leaves `uncommitted` is known then. What is known and has no text was in a batch whose counters had
run apart. So what is cut off after an "ok" is stored, or lost in one of the two ways
`NothingLost` names. Strays may be served at any time, which only adds to `known`.

**`JobEngineProofs`**: `TypeCorrect`, `StoppedBeforeMarked` (`NotStillRunning`), `Frozen`
(`FrozenWhenFinal`), `Complete` (`FinishedIsComplete`: a finished job that was not cancelled,
with nothing having failed, has all results). `Placed`: a cancel function is registered
as long as the goroutine takes results, and a row is final only when it is past that.
`HandlerPast`: a request that goes by the row has found no cancel function, so its job
is past its loop too. `Counted` and `Gapless` relate what was yielded, taken and stored.

**`TaskManagerProofs`**: `TypeCorrect`, `NeverTwice` (`OneGoroutine`), `ConfigFollowed`
(`FollowsConfig`), `WaitAnswered` (`WaitIsAnswered`). `DataIsOwn`: `taskData` knows the live
goroutine of each task, and nobody else's. `EndsWhenAsked`: a goroutine that is alive
and cancelled is the one waited for, and a token means its goroutine is gone.
`Cancelling`, `Removing` and `Scheduling` say for each phase of `UpdateConfig` which
goroutines are alive.

**`FileWatcherProofs`**: `TypeCorrect`, `OffsetsOrdered` (`OffsetsAscend`), `LinesApart`
(`SingleLines`: no event holds a delimiter), `LinesWhole` (`WholeLines`). `Reached`: the
offset reached is at or after that of every event of the source that still grows.
`WholeLines` says of each source that its events, each with its delimiter, followed by
the buffer if it is the one that is open, are the first bytes of its file; `Contents` adds
that the last source is the file that is open. The steps that matter are `Publish`, where the first line of the buffer moves to the
events (`LineAndRest`), and `Read`, where the next bytes of the file join the buffer
(`FirstPart`); `FlattenLonger` says what the library's `FlattenSeq` gives for a sequence
with one more element.
An attempt to prove more showed that `OffsetsAscend` had said too much: its second
half, that an offset is never past its line, held only because the run's buffers are small.
With lines of 2, 1, 1 and 1 bytes in one buffer, the fourth event is at 4 and has offset 5.
That half is gone.

**`ConfigChangesProofs`**: all six safety properties of the run `Config`, for every
document a user can post (`IsDocument`), good or ill, from the assumption that the document
the process is started with can be read and written. In this order:

- `ReadAgain`: `FromJSON(ToJSON(c)) = c` for every `c` that `FromJSON` can return
  (`IsConfig`). `ToJSON` writes maps as lists in any order
  and `FromJSON` makes maps of lists; `ByNameAsList` says that this is the same map.
- `IInv`. `Places`, `Channels` and `Casting` say where everyone is and what channels
  a broadcast has. `Sources`: every configuration that anyone holds is the static one
  or an accepted one, and is what its number says. `Globs`: a watcher's file and parser are
  those of a configuration there was. `Matched`: the map of watchers and the watchers that are
  not cancelled are one to one. `Going`: while the coordinator goes over its watchers, those
  it has been to are in the new configuration; when it is done, the map has its files.
  Without `Matched` and `Going` `WatchersFollowConfig` is not inductive: it says nothing
  of the time between two of its states.
- `MergedIs`: what `mergeConfigs` has gathered after `n` file types, by induction over
  `n`; from it `FileIs`: a file whose merged configuration has a conflict, no parser settings, no
  delimiter or an interval of zero is `IllFile`, which looks at the types alone.
- `StopsOnIll`, `StopsOnGet` and `StopsOnRace`, one for each kind of stop. `Reloading`: a
  coordinator that has watchers to go over has subscribed.
- `TypeCorrect` (`TypeOK`), `SavedRead` (`SavedIsRead`), `SettingsReach`
  (`SettingsReachRepository`), `WatchersFollow` (`WatchersFollowConfig`), `SendReceived`
  (`SendIsReceived`), `EveryStopHasCause` (`StopsHaveCause`), which has one conjunct for each
  kind of stop.

*Induction over data.* The library's induction theorems take an operator, which no
prover here can instantiate. `Induction` in the last three modules is about a set of natural numbers
instead (a set that has 0 and, with `n`, `n + 1`, is all of them), from the library's
theorem that a set of numbers has a least element; the property of `n` is the set of those that
have it. That a recursive function has the values its definition says is proved the same way
(`ChoosingExists`, `MergingExists`, `FlattensExists`, `Runs`). Definitions that had to be within
reach were rewritten for this: `Chosen` and the loop of `mergeConfigs` in place of
`SelectSeq` and `FoldLeft`, `Stored` in place of `@@`, the recursive functions of `Query` in
place of recursive operators, `Descending` in place of `SortSeq`.

Only model-checked, and why: `ResultIsMeaning` of `QueryMeaning`. That no event is lost between the
table and the job is proved (`NothingMissed`); what is missing are lemmas about what the lexer and
the parsers make of a rendered query, and that what a job shows is a result of the chain for a
single event. And the liveness properties `OldEventsGo`, `Delivered`,
`AbortTakesEffect`, `AppliesChanges`, `LinesPublished`, `FollowsRotation`, `ChangesArrive`,
`JobEnds` and `WritersEnd`.

## 7. Disagreements between code and text

- `SqliteTrueBatch`: the clean-up of `addBatchTrueBatch` takes texts of new events
  for texts of duplicates once the id counter has run ahead of the rowids. The
  counterexample: a batch that ends in a duplicate, then a batch with a new event;
  the new event's text is put under the rowid its event does not have, and is
  deleted with the log line "Skipped adding events as they appear to be
  duplicates". `TameNext` has only calls that keep the two counters
  together, and `SqliteTrueBatchTame` shows that then nothing goes wrong.
- `ForwardQueue`: "maxBufferedEvents is the maximum size of that queue", but excess
  events are dropped only after a forward, and after an error `PublishEvent`
  appends for a second without one.
- `ReaderOffsets`: `handleEvents` finds out where each event begins "to get the offset
  right", but adds up offsets that already count from the start of the buffer. Two
  lines read at once both get the offset of the first; if their timestamps are equal
  the repository skips the second as a duplicate. From the fourth line of a buffer on the
  offset can be past the line. And a line read again after a
  restart, in other pieces, gets another offset and is stored twice.

The following were met while translating the code, and the models have them as
they are: as an error, as a stop of the process that a property names, or as a
case a property leaves out. No run is about them alone.

Configuration:

- A `readInterval` of a file's own types is ignored: `mergeConfigs` takes the address of
  its loop variable (`IndexedFileConfig.go:61`; `logsuck-config.schema.json:80`).
- The flag `-forceStaticConfig` does not stop `POST /config` from saving a row
  (`ConfigWeb.go:65`, which looks at the key in the configuration in use), and a saved
  `forceStaticConfig: true` locks the settings page (`docs/Configuration.md:27`).
- `ReadFileConfig` logs that a file whose types conflict "will be ignored"
  (`IndexedFileConfig.go:206`) and then uses the nil result (`:210`); the process panics,
  at every start. A JSON `DEFAULT` beside a Regex type leaves a JSON parser without
  settings; an interval of zero panics in `time.NewTicker`; a JSON parser accepts a
  delimiter that does not compile and has none. All are in `Ill`.
- A file watcher does nothing with `CommandReloadConfig` (`FileWatcher.go:43`): a changed
  parser has no effect until the file is forgotten or the process restarted
  (`docs/Configuration.md:5`). `WatchersFollowConfig` is about which files are watched.
- `ToJSON` deletes the core plugins from the map it is given (`JsonConverter.go:463`),
  `FromJSON` writes to the default it copies from.
- The errors of `GlobWatcher.Start` go nowhere.
- The coordinator drops the error of its first `Get` and dereferences the nil it then got
  (`FileWatcher.go:85`): a configuration that is good, and a table that cannot be read for a moment, and
  the process stops.
- `Subscribe` appends to a slice that a broadcast or another subscriber may be using
  (`Broadcaster.go:17`); of two subscribers at once one may never hear of a change.

Searching:

- A `!` without `=` outside of quotes keeps the lexer from coming to an end
  (`Lexer.go:131`), also inside the quotes of a first step, which `ParsePipeline` drops:
  the README's quoted phrases (`README.md:171`) become words there.
- A value that is no regular expression, and a `rex` whose groups are of no use,
  dereference nil (`Fragments.go:66`, `RegexFileParser.go:52`).
- With two excluded fields, one that an event does not have ends the loop over the
  others, in the order of a map (`Fragments.go:121`).
- `source IN (a, b)` finds nothing, since the terms are joined by "and"
  (`README.md:187`); a pattern that begins with `*` is no tsquery.
- A quoted value loses all but the first byte of a last character that has several
  (`Lexer.go:122`), and is then no regular expression (above).
- `surrounding` makes room for `count/2` events, so a `count` of -2, or a very large one, stops the
  process (`PostgresEventRepository.go:352`, `:365`). A `rex` behind it writes to the nil map of an
  event whose file is not configured (`RexPipelineStep.go:68`).
- `where` compares keys in lower case and values as they are; `table` and `rex` use names
  as they are. `| table x | where ...` has no column order. A time range chosen in the GUI
  is lost if the query names a `| search` of its own.
- `surrounding` gives an empty event for one whose file is not configured, and its pages
  are ordered by time although its sort mode is the order given.
- A page of which the rows can be read only in part is sent as the last one
  (`PostgresEventRepository.go:245` does not ask for the error), and the job is finished.
- The times of results are stored without their zone (`PostgresJobRepository.go:48`, `:72`): in the
  hour in which a clock is set back, what a later batch brings goes in between what a full page
  has shown. Nor is there a second sort key for results with the same time.
- A value with an apostrophe breaks the statement of `AddTableResults`
  (`PostgresJobRepository.go:85`), and the rows of that batch are lost.
- An aborted job may end as "finished" with a part of its results: its steps close
  their channels when they see the cancel, and the engine may see that first.
- Steps and `FilterStream` send without looking at their context; what is behind a full
  channel of an aborted job stays for ever.

Writing and deleting:

- `AddBatch` returns nil when `COMMIT` fails, in SQLite (`SqliteEventRepository.go:152`, `:193`) as
  in PostgreSQL: a forwarder is told that its chunk is stored. The publisher of local files
  drops a batch whose `AddBatch` failed.
- What `SqliteTrueBatch` shows is what a forwarder meets whose answer was lost: the chunk it sends
  again ends in duplicates, and texts of what comes after are deleted. `NothingLost` has both.
- sqlite compares timestamps in different zones as texts (`SqliteEventRepository.go:297`,
  `DeleteOldEventsTask.go:68`): an event whose zone is behind the host's is deleted early by the
  difference (`docs/Tasks.md`), one ahead of it late, and results of several zones are not
  newest first.

## 8. Plan

In this order; all but item 8 are done (section 9 says what item 8 would look at).

1. `EventIndex`, `SqliteEvents`, its proofs: the index is what everything serves.
2. `EventStream`: reads and retention.
3. `Forwarding`: the one distributed protocol.
4. `JobEngine`.
5. `TaskManager`.
6. `FileWatcher`: lines, offsets, rotation.
7. `ConfigJson`, `IndexedFiles`, `ConfigChanges`: from a saved document to the watchers
   that follow it.
8. `SearchPage`: search, poll and cancel against `SearchJobs`' promises.
9. `Query`, `Pipelines`, `SearchJobs`: the search itself, with `JobEngine`'s `pipe` as the
   abstraction of its channels; `QueryMeaning` as what it is held to.
10. `PgEvents`: the batched publisher, `GetByIds`, `GetSurroundingEvents`, and PostgreSQL's
    transactions.
11. Proofs about each of these but for what section 6 leaves to TLC.

What would come next, besides 8: `ResultIsMeaning` proved.

## 9. What is not modelled, and why

- The search page's poller, item 8 of the plan. `JobEngine` lets any client start and abort
  jobs at any time, so what the page can do to the server is covered; what it shows its
  user is not. Read from `SearchPage.tsx`, checked by no run:
  - a poll whose `pollJob` fails (line 561) arms no new timer, and the page stays in
    `SEARCHED_POLLING` with nothing under way;
  - the next timer is armed before `getResults` is awaited (589, 596), so with an answer
    slower than 500 ms two polls overlap and the older one's `setState` (606) can undo
    the newer one's `SEARCHED_POLLING_FINISHED`;
  - a poll that is in flight during `onSearch` can arm a timer that fires in
    `WAITING_FOR_SEARCH`, where `poll` throws (552);
  - `onPageChanged` does not look at `jobId` again after its request (446-454), so a late
    answer shows an older search's page under a newer one.
- Files truncated in place: the code does not notice.
- What file parsers and regular expressions find in a text, and the parsing of times and
  durations: data of the models.
- PostgreSQL's `LISTEN`, by which subscribers hear of a change a second time.
- Results of an aborted job, and of one during which something failed, in
  `ResultIsMeaning`. Queries on which manual and program differ are among the workloads, each under
  the exception of `QueryMeaning` that has its name.
- Rendering, forms and styles of the frontend; request decoding in the web server.
- Wiring: dependency injection and `main`, but for the order in which `main` starts
  things, which is in the `Init` of `TaskManager`.
- The database engines themselves: transactions are atomic and readers see
  committed data.
- Undefined behaviour of the unsynchronised `cancels` map beyond a crash: Go's maps
  detect concurrent writes and stop the process.
- The load generators (`cmd/SUCKHAMMER5000`, `cmd/accessdunk`, `cmd/logdunk`).
