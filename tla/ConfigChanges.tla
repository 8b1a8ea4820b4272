---------------------------- MODULE ConfigChanges ----------------------------
(***************************************************************************)
(* The dynamic configuration of a running Logsuck: how it is saved, how    *)
(* the subscribers of a config.Source hear of it, and how the file reader  *)
(* (GlobWatcherCoordinator, GlobWatcher, FileWatcher) follows it.          *)
(*                                                                         *)
(* A process has its configuration from one of three sources: a forced     *)
(* static configuration, the Config table it keeps itself ("local"), or,   *)
(* as a forwarder, the recipient whose table it polls.  In the last case   *)
(* rows and GUI belong to the recipient's process, which does not stop     *)
(* here.  Every glob stands for one file, which may come and go.           *)
(***************************************************************************)
EXTENDS IndexedFiles, FiniteSets

CONSTANTS Static,      \* the document the process is started with ...
          Flags,       \* ... or its command line, if that forces a static configuration
          Posts,       \* bound: those users may save in the GUI first, second, ..., by mode
          MaxRestarts, \* bound: restarts of the process
          MaxFaults    \* bound: failures of the Config table, fsnotify and the recipient

\* The rows the Config table can have.
MaxRows == 1 + Len(Posts["local"])

\* A process whose own static document cannot be read or written does not get as
\* far as these steps; what users post may be ill in any way the schema allows.
ASSUME ConfigChangesAssumption ==
  /\ IsDocument(Static) /\ ~Rejects(Static) /\ ~PanicsReading(Static)
  /\ ~PanicsWriting(FromJSON(Static, DefaultWeb))
  /\ IsList(Flags.files)
  /\ DOMAIN Posts = {"static", "local", "forwarder"}
  /\ \A m \in DOMAIN Posts :
       /\ IsList(Posts[m]) /\ Len(Posts[m]) <= Len(Posts["local"])
       /\ \A n \in DOMAIN Posts[m] : \A doc \in Posts[m][n] : IsDocument(doc)
  /\ MaxRestarts \in Nat
  /\ MaxFaults \in Nat

VARIABLES
  mode,       \* "static", "local" or "forwarder"
  row,        \* the latest row of the Config table, as the process reads it
  defaultWeb, \* defaultConfig.Web of the process that serves the GUI
  static,     \* the static configuration as it is now
  settings,   \* what the sqlite_events plugin was given as its configuration
  cached,     \* RemoteConfigSource.cached
  subs,       \* the channels of the Broadcaster, in the order of Subscribe
  casts,      \* Broadcast goroutines: the channel each one is at, 0 at first
  reader,     \* the coordinator: place, configuration, names to visit
  files,      \* gwc.indexedFiles, by name
  watchers,   \* gwc.watchers: name -> position in globs
  globs,      \* every GlobWatcher so far and its FileWatcher
  tasks,      \* the TaskManager: place, configuration it was built with
  crash,      \* why the process has stopped, "no" while it runs: a configuration, a
              \* race of two goroutines, a Get whose error nobody looks at
  restarts,
  faults,     \* failures so far
  accepted,   \* history: the configurations saved, as they were accepted
  missed      \* history: a Get failed after a change

repo == << row, defaultWeb, accepted >>
start == << mode, static, settings, restarts, cached >>
fate == << crash, faults >>
follower == << reader, files, watchers, globs, missed >>
vars == << repo, start, subs, casts, follower, tasks, fate >>

StaticConfig == IF mode = "static" THEN FromFlags(Flags) ELSE FromJSON(Static, DefaultWeb)

\* ReadFileConfig, by name: of two entries the last one counts.
Indexed(c) ==
  LET list == ReadFileConfig(c)
  IN  [ f \in { list[i].filename : i \in DOMAIN list } |->
          list[SelectLastInSeq(list, LAMBDA e : e.filename = f)] ]

\* A configuration: the number of its row, 0 for the static one, and its files.
Version(number, c) == [number |-> number, cfg |-> c, files |-> Indexed(c)]

\* A row of the table: the document in it, and what Get makes of that.
Stored(doc, number, c) == [doc |-> doc, number |-> number, cfg |-> c, files |-> Indexed(c)]

\* The row of a configuration that is saved.  A forwarder gets it by /v1/config, where the
\* recipient reads it and writes it once more.
Row(number, c) ==
  LET read == FromJSON(ToJSON(c), DefaultWeb)
  IN  Stored(ToJSON(c), number,
             IF mode = "forwarder" THEN FromJSON(ToJSON(read), DefaultWeb) ELSE read)

Idle == [at |-> "off", applied |-> 0, todo |-> {}, target |-> 0]

\* A recipient has saved the configuration it was started with.
Init ==
  /\ mode \in {"static", "local", "forwarder"}
  /\ accepted = IF mode = "forwarder" THEN << StaticConfig >> ELSE << >>
  /\ row = IF mode = "forwarder" THEN Row(1, StaticConfig)
           ELSE Stored(Static, 0, StaticConfig)
  /\ defaultWeb = IF mode = "static" THEN DefaultWeb ELSE DefaultWebAfter(Static, DefaultWeb)
  /\ static = Version(0, StaticConfig)
  /\ settings = {}
  /\ cached = Version(0, StaticConfig)
  /\ subs = << >>
  /\ casts = {}
  /\ reader = Idle
  /\ files = << >>
  /\ watchers = << >>
  /\ globs = << >>
  /\ tasks = [at |-> "off", initial |-> 0]
  /\ crash = "no"
  /\ restarts = 0
  /\ faults = 0
  /\ missed = FALSE

Up == crash = "no" /\ reader.at # "off"

\* Something the process needs does not work, and it goes on.
Fails == faults < MaxFaults /\ faults' = faults + 1 /\ crash' = crash

Works == UNCHANGED fate

\* A Get fails, and what it returned is used all the same: nil.
FailsUnnoticed == faults < MaxFaults /\ faults' = faults + 1 /\ crash' = "get"

\* A goroutine panics, and the process stops.
Panics == crash' = "config" /\ UNCHANGED faults

-----------------------------------------------------------------------------
(* The source                                                              *)

\* What configSource.Get returns.
Current == CASE mode = "static" -> static
             [] mode = "local" -> row
             [] mode = "forwarder" -> cached

Upsert(c) ==
  /\ row' = Row(row.number + 1, c)
  /\ accepted' = Append(accepted, c)

\* Broadcast starts a goroutine.
Broadcast(number) ==
  casts' = casts \cup {[number |-> number, at |-> 0, last |-> 0]}

\* main builds everything: the source first, then the event repository, which
\* asks for its settings, and the TaskManager, which gets the configuration.  A
\* start that fails before that ends main, and is none.
Build(number) ==
  /\ reader.at = "off" /\ crash = "no"
  /\ settings' = { ps["sqlite_events"] :
                     ps \in { q \in static'.cfg.plugins : "sqlite_events" \in DOMAIN q } }
  /\ reader' = [Idle EXCEPT !.at = "boot"]
  /\ tasks' = [at |-> "boot", initial |-> number]
  /\ UNCHANGED << mode, defaultWeb, restarts, subs, casts, files, watchers, globs,
                  missed >>

\* Fault: the static configuration is saved at every start.
BuildAndSave ==
  /\ mode = "local" /\ row.number < MaxRows
  /\ Upsert(static.cfg)
  /\ static' = [static EXCEPT !.cfg = AfterToJSON(@)]
  /\ Build(row.number + 1)
  /\ UNCHANGED cached /\ Works

\* An empty table gets the static configuration.
BuildAndSaveFirst ==
  /\ mode = "local" /\ row.number = 0
  /\ Upsert(static.cfg)
  /\ static' = [static EXCEPT !.cfg = AfterToJSON(@)]
  /\ Build(1)
  /\ UNCHANGED cached /\ Works

BuildOnStatic ==
  /\ mode = "static"
  /\ UNCHANGED << row, accepted, static, cached >> /\ Works
  /\ Build(0)

BuildOnTable ==
  /\ mode = "local" /\ row.number > 0
  /\ UNCHANGED << row, accepted, static, cached >> /\ Works
  /\ Build(row.number)

\* A forwarder asks the recipient's /v1/config once before it goes on.
BuildOnRemote ==
  /\ mode = "forwarder"
  /\ (cached' = row /\ Works) \/ (UNCHANGED cached /\ Fails)
  /\ UNCHANGED << row, accepted, static >>
  /\ Build(cached'.number)

\* POST /config.  It is refused if forceStaticConfig is in the configuration in
\* use; the flag of that name on the command line does not count.  So is a
\* document FromJSON rejects; a panic is caught by gin and saves nothing.
Post(doc) ==
  /\ Up \/ mode = "forwarder"
  /\ ~(IF mode = "static" THEN static ELSE row).cfg.force
  /\ ~Rejects(doc)
  /\ defaultWeb' = DefaultWebAfter(doc, defaultWeb)
  /\ LET c == FromJSON(doc, defaultWeb)
     IN  IF PanicsReading(doc) \/ PanicsWriting(c)
           THEN UNCHANGED << row, accepted, casts >>
           ELSE /\ Upsert(c)
                /\ IF mode = "local" THEN Broadcast(row.number + 1) ELSE UNCHANGED casts
  /\ UNCHANGED << start, subs, follower, tasks, fate >>

\* The poller of RemoteConfigSource, at a tick that finds its configuration
\* more than a minute old: Modified and configuration are taken over, with a
\* broadcast if Modified is another.  A new poll interval gets a new ticker,
\* which must not be 0.
Refresh ==
  /\ mode = "forwarder" /\ Up /\ row.number > cached.number
  /\ cached' = row
  /\ Broadcast(row.number)
  /\ IF /\ row.cfg.forwarder.configPollInterval = "0s"
        /\ cached.cfg.forwarder.configPollInterval # "0s"
       THEN Panics ELSE Works
  /\ UNCHANGED << repo, mode, static, settings, restarts, subs, follower, tasks >>

-----------------------------------------------------------------------------
(* Broadcaster: a goroutine sends to one channel after the other.          *)

Others == << repo, start >>

Config(number) == IF number = 0 THEN StaticConfig ELSE accepted[number]

\* A ticker's interval must not be 0.
BadTask(c) == \E t \in DOMAIN c.tasks : c.tasks[t].enabled /\ c.tasks[t].interval = "0s"

\* A goroutine is about to append its channel.
TasksSubscribe == tasks.at = "boot" /\ ~BadTask(Config(tasks.initial))
Subscribing == reader.at = "subscribe" \/ TasksSubscribe

\* It looks at the slice of channels once, when it begins.  A goroutine that
\* subscribes meanwhile has written a part of the slice, and may stop the process.
CastStarts(c) ==
  /\ Up /\ c.at = 0
  /\ \/ /\ casts' = (casts \ {c}) \cup
            (IF subs = << >> THEN {} ELSE {[c EXCEPT !.at = 1, !.last = Len(subs)]})
        /\ Works
     \/ /\ Subscribing /\ UNCHANGED casts
        /\ crash' = "race" /\ UNCHANGED faults
  /\ UNCHANGED << Others, subs, follower, tasks >>

\* Fault: one channel too many.
SentPastLast(c) ==
  casts' = (casts \ {c}) \cup
    (IF c.at > c.last THEN {} ELSE {[c EXCEPT !.at = @ + 1]})

\* The next channel, or the end.
Sent(c) ==
  casts' = (casts \ {c}) \cup
    (IF c.at = c.last THEN {} ELSE {[c EXCEPT !.at = @ + 1]})

\* Fault: a subscriber that is busy is passed over.
PassesOver(c) ==
  /\ Up /\ c.at > 0
  /\ Sent(c)
  /\ IF subs[c.at] = "reader" /\ reader.at = "wait"
       THEN reader' = [reader EXCEPT !.at = "get"] ELSE UNCHANGED reader
  /\ UNCHANGED << Others, subs, files, watchers, globs, missed, tasks, fate >>

ReaderHears(c) ==
  /\ Up /\ c.at > 0 /\ subs[c.at] = "reader"
  /\ reader.at = "wait"
  /\ reader' = [reader EXCEPT !.at = "get"]
  /\ Sent(c)
  /\ UNCHANGED << Others, subs, files, watchers, globs, missed, tasks, fate >>

TasksHear(c) ==
  /\ Up /\ c.at > 0 /\ subs[c.at] = "tasks"
  /\ tasks.at = "wait"
  /\ tasks' = [tasks EXCEPT !.at = "get"]
  /\ Sent(c)
  /\ UNCHANGED << Others, subs, follower, fate >>

-----------------------------------------------------------------------------
(* The TaskManager, of which the module TaskManager has the details.       *)

\* What NewTaskManager has read is applied, then come the changes.
TasksStart ==
  /\ Up /\ tasks.at = "boot"
  /\ IF BadTask(Config(tasks.initial)) THEN Panics /\ UNCHANGED << tasks, subs >>
     ELSE /\ tasks' = [tasks EXCEPT !.at = "wait"]
          /\ subs' = Append(subs, "tasks")
          /\ Works
  /\ UNCHANGED << Others, casts, follower >>

TasksUpdate ==
  /\ Up /\ tasks.at = "get"
  /\ \/ IF BadTask(Current.cfg) THEN Panics /\ UNCHANGED tasks
        ELSE tasks' = [tasks EXCEPT !.at = "wait"] /\ Works
     \/ mode = "local" /\ Fails /\ tasks' = [tasks EXCEPT !.at = "wait"]
  /\ UNCHANGED << Others, subs, casts, follower >>

-----------------------------------------------------------------------------
(* GlobWatcherCoordinator                                                  *)

Elsewhere == << Others, subs, casts, tasks >>

\* The configuration is read and reloadFileWatchers begins with the watchers
\* there are.  At the start it does without a broadcast, and does not look at the
\* error of Get.  ReadFileConfig goes on with the result of mergeConfigs after an
\* error of it, nil.
ReaderGet ==
  /\ Up /\ reader.at \in {"boot", "get"}
  /\ \/ /\ IF \E f \in DOMAIN Current.files : Current.files[f].conflict
             THEN Panics /\ UNCHANGED << reader, files >>
             ELSE /\ files' = Current.files
                  /\ reader' = [reader EXCEPT !.at = "old", !.applied = Current.number,
                                              !.todo = DOMAIN watchers]
                  /\ Works
        /\ missed' = FALSE
     \/ /\ mode = "local" /\ reader.at = "get" /\ Fails
        /\ reader' = [reader EXCEPT !.at = "wait"]
        /\ missed' = TRUE
        /\ UNCHANGED files
     \/ /\ mode = "local" /\ reader.at = "boot" /\ FailsUnnoticed
        /\ UNCHANGED << reader, files, missed >>
  /\ UNCHANGED << Elsewhere, watchers, globs >>

\* Fault: the entry of a cancelled watcher stays in the map.
CancelOnly(f) ==
  /\ Up /\ reader.at = "old" /\ f \in reader.todo
  /\ f \notin DOMAIN files
  /\ globs' = [globs EXCEPT ![watchers[f]].cancelled = TRUE]
  /\ reader' = [reader EXCEPT !.todo = @ \ {f}]
  /\ UNCHANGED << Elsewhere, files, watchers, missed, fate >>

\* A file that is no longer configured: its watcher is cancelled and forgotten.
CancelWatcher(f) ==
  /\ Up /\ reader.at = "old" /\ f \in reader.todo
  /\ f \notin DOMAIN files
  /\ globs' = [globs EXCEPT ![watchers[f]].cancelled = TRUE]
  /\ watchers' = Restrict(watchers, DOMAIN watchers \ {f})
  /\ reader' = [reader EXCEPT !.todo = @ \ {f}]
  /\ UNCHANGED << Elsewhere, files, missed, fate >>

\* A file that is still configured: UpdateConfig goes over gw.m and sends to the
\* file watcher in it, unless the configurations are the same.  They are only
\* without a parser, since parsers are compared as pointers.  If the glob watcher
\* puts its file watcher in the map meanwhile, the runtime may notice and stop
\* the process.
VisitWatcher(f) ==
  /\ Up /\ reader.at = "old" /\ f \in reader.todo
  /\ f \in DOMAIN files
  /\ LET i == watchers[f]
         same == files[f] = globs[i].config /\ files[f].parser = NoParser
         send == ~same /\ globs[i].fw # "none"
     IN  /\ reader' = [reader EXCEPT !.todo = @ \ {f},
                                     !.at = IF send THEN "send" ELSE "old",
                                     !.target = IF send THEN i ELSE 0]
         /\ \/ Works
            \/ /\ ~same /\ ~send /\ globs[i].at # "gone"
               /\ crash' = "race" /\ UNCHANGED faults
  /\ UNCHANGED << Elsewhere, files, watchers, globs, missed >>

\* CommandReloadConfig is received, and nothing is done with newFileConfig.
SendReload ==
  /\ Up /\ reader.at = "send"
  /\ globs[reader.target].fw = "select"
  /\ reader' = [reader EXCEPT !.at = "old", !.target = 0]
  /\ UNCHANGED << Elsewhere, files, watchers, globs, missed, fate >>

\* Files that have no watcher get one; then the coordinator waits, the first
\* time after Subscribe.
AddWatchers ==
  /\ Up /\ reader.at = "old" /\ reader.todo = {}
  /\ LET new == SetToSeq(DOMAIN files \ DOMAIN watchers)
         old == Len(globs)
     IN  /\ globs' = globs \o [ i \in DOMAIN new |->
                [file |-> new[i], config |-> files[new[i]], since |-> reader.applied, at |-> "start",
                 cancelled |-> FALSE, fw |-> "none"] ]
         /\ watchers' = [ f \in DOMAIN files \cup DOMAIN watchers |->
                IF f \in DOMAIN watchers THEN watchers[f]
                ELSE old + SelectInSeq(new, LAMBDA g : g = f) ]
  /\ reader' = [reader EXCEPT !.at = IF Contains(subs, "reader") THEN "wait" ELSE "subscribe"]
  /\ UNCHANGED << Elsewhere, files, missed, fate >>

Subscribe ==
  /\ Up /\ reader.at = "subscribe"
  /\ subs' = Append(subs, "reader")
  /\ reader' = [reader EXCEPT !.at = "wait"]
  /\ UNCHANGED << Others, casts, tasks, files, watchers, globs, missed, fate >>

\* Both append to the same slice at the same time: one of the channels is lost,
\* and with it every change for the goroutine that waits there.
SubscribeBoth ==
  /\ Up /\ mode # "static"
  /\ reader.at = "subscribe" /\ TasksSubscribe
  /\ \E kept \in {"reader", "tasks"} : subs' = Append(subs, kept)
  /\ reader' = [reader EXCEPT !.at = "wait"]
  /\ tasks' = [tasks EXCEPT !.at = "wait"]
  /\ UNCHANGED << Others, casts, files, watchers, globs, missed, fate >>

-----------------------------------------------------------------------------
(* GlobWatcher and FileWatcher                                             *)

\* Only the glob watcher's own goroutine and its file watcher's move.
Glob(i) ==
  /\ Up
  /\ UNCHANGED << Elsewhere, reader, files, watchers, missed >>

\* gw.m gets its file watcher, which gives up without a parser, and needs an
\* interval for its ticker.
Watch(i) ==
  LET c == globs[i].config
  IN  IF c.parser # NoParser /\ c.readInterval = "0s" THEN Panics /\ UNCHANGED globs
      ELSE /\ globs' = [globs EXCEPT ![i].at = "watching",
                          ![i].fw = IF c.parser = NoParser THEN "ended" ELSE "select"]
           /\ Works

\* Start: files that match already are watched at once.  Its errors go nowhere.
GlobStarts(i) ==
  /\ Glob(i) /\ globs[i].at = "start"
  /\ \/ Watch(i)
     \/ globs' = [globs EXCEPT ![i].at = "watching"] /\ Works
     \/ globs' = [globs EXCEPT ![i].at = "gone"] /\ Fails

\* A file is created; one that has a file watcher is opened again by it.
FileAppears(i) ==
  /\ Glob(i) /\ globs[i].at = "watching" /\ globs[i].fw = "none"
  /\ Watch(i)

\* Both goroutines see that they are cancelled.
GlobDone(i) ==
  /\ Glob(i) /\ globs[i].at = "watching" /\ globs[i].cancelled
  /\ globs' = [globs EXCEPT ![i].at = "gone",
                            ![i].fw = IF @ = "none" THEN "none" ELSE "ended"]
  /\ Works

\* The first bytes read are split with the delimiter.
FileWatcherSplits(i) ==
  /\ Glob(i) /\ globs[i].fw = "select"
  /\ globs[i].config.parser.delimiter = "nil"
  /\ Panics
  /\ UNCHANGED globs

-----------------------------------------------------------------------------

\* The process is started again, after a panic or at any other time.
Restart ==
  /\ reader.at # "off" /\ restarts < MaxRestarts
  /\ restarts' = restarts + 1
  /\ static' = Version(0, StaticConfig)
  /\ defaultWeb' = IF mode = "local" THEN DefaultWebAfter(Static, DefaultWeb) ELSE defaultWeb
  /\ settings' = {}
  /\ cached' = Version(0, StaticConfig)
  /\ subs' = << >> /\ casts' = {}
  /\ reader' = Idle
  /\ files' = << >> /\ watchers' = << >> /\ globs' = << >>
  /\ tasks' = [at |-> "off", initial |-> 0]
  /\ crash' = "no"
  /\ missed' = FALSE
  /\ UNCHANGED << mode, row, accepted, faults >>

BuildAny == BuildAndSaveFirst \/ BuildOnStatic \/ BuildOnTable \/ BuildOnRemote

Reader ==
  \/ ReaderGet \/ SendReload \/ AddWatchers \/ Subscribe
  \/ \E f \in reader.todo : CancelWatcher(f) \/ VisitWatcher(f)

\* What users save next, once the table has its first row.
Offered ==
  LET n == IF mode = "static" THEN row.number + 1 ELSE row.number
  IN  IF n \in DOMAIN Posts[mode] THEN Posts[mode][n] ELSE {}

Next ==
  \/ BuildAny
  \/ \E doc \in Offered : Post(doc)
  \/ Refresh
  \/ \E c \in casts : CastStarts(c) \/ ReaderHears(c) \/ TasksHear(c)
  \/ TasksStart \/ TasksUpdate
  \/ Reader
  \/ SubscribeBoth
  \/ \E i \in DOMAIN globs :
       \/ GlobStarts(i) \/ FileAppears(i) \/ GlobDone(i)
       \/ FileWatcherSplits(i)
  \/ Restart

Spec == Init /\ [][Next]_vars

\* Goroutines run, and the poller's ticker ticks.  Nothing is asked of users,
\* files and restarts.
Fairness ==
  /\ WF_vars(Refresh)
  /\ WF_vars(\E c \in casts : CastStarts(c) \/ ReaderHears(c) \/ TasksHear(c))
  /\ WF_vars(TasksStart) /\ WF_vars(TasksUpdate)
  /\ WF_vars(Reader)

FairSpec == Spec /\ Fairness

-----------------------------------------------------------------------------
(* Properties                                                              *)

Settled == Up /\ reader.at \in {"subscribe", "wait", "get"}

TypeOK ==
  /\ mode \in {"static", "local", "forwarder"}
  /\ row.number \in 0 .. MaxRows /\ Len(accepted) = row.number
  /\ static.number = 0 /\ cached.number \in 0 .. row.number
  /\ Range(subs) \subseteq {"reader", "tasks"} /\ Len(subs) = Cardinality(Range(subs))
  /\ \A c \in casts : c.number \in 1 .. row.number /\ c.at <= c.last /\ c.last <= Len(subs)
  /\ reader.at \in {"off", "boot", "get", "old", "send", "subscribe", "wait"}
  /\ reader.applied \in 0 .. row.number /\ reader.target \in 0 .. Len(globs)
  /\ Range(watchers) \subseteq DOMAIN globs
  /\ \A i \in DOMAIN globs :
       /\ globs[i].at \in {"start", "watching", "gone"}
       /\ globs[i].cancelled \in BOOLEAN
       /\ globs[i].fw \in {"none", "select", "ended"}
  /\ tasks.at \in {"off", "boot", "wait", "get"} /\ tasks.initial \in 0 .. row.number
  /\ crash \in {"no", "config", "race", "get"}
  /\ restarts \in 0 .. MaxRestarts /\ faults \in 0 .. MaxFaults /\ defaultWeb.enabled \in BOOLEAN

\* What a user saved is what everyone reads: a row can always be read again,
\* and FromJSON makes of it the configuration that was accepted, also after
\* the second round by which a forwarder gets it.
SavedIsRead ==
  row.number > 0 =>
    /\ ~Rejects(row.doc) /\ ~PanicsReading(row.doc)
    /\ row.cfg = accepted[row.number]

\* The event repository runs with the plugin settings the static configuration
\* gives it, except in the process that filled an empty Config table.
SettingsReachRepository ==
  LET given == { ps["sqlite_events"] : ps \in { q \in StaticConfig.plugins : "sqlite_events" \in DOMAIN q } }
  IN  Up => settings = given \/ (mode = "local" /\ restarts = 0)

\* The files a configuration makes its host type read.
Read(c) ==
  { f \in DOMAIN c.files : f \in Range(HostFiles(c, c.hostType)) \cup Range(HostFiles(c, DEFAULT)) }

\* When the coordinator is done with a configuration, exactly the files that
\* configuration names have a watcher that is not cancelled, one for each.
WatchersFollowConfig ==
  Settled =>
    /\ { globs[i].file : i \in { j \in DOMAIN globs : ~globs[j].cancelled } }
         = Read(Config(reader.applied))
    /\ \A i, j \in DOMAIN globs :
         ~globs[i].cancelled /\ ~globs[j].cancelled /\ globs[i].file = globs[j].file => i = j

\* The coordinator never waits for a file watcher that is gone: with it every
\* subscriber behind it in the broadcaster would wait for ever.
SendIsReceived ==
  Up /\ reader.at = "send" => globs[reader.target].fw # "ended"

\* A configuration no part of the process can run on: a task has no interval,
\* or the DEFAULT file type, a file has types of both kinds or a JSON DEFAULT beside its
\* Regex types, or a delimiter that is no regular expression.
IllFile(c, f) ==
  LET own   == { c.fileTypes[n] : n \in Range(c.files[f].fileTypes) \cap DOMAIN c.fileTypes }
      base  == { c.fileTypes[n] : n \in {DEFAULT} \cap DOMAIN c.fileTypes }
      kinds == { t.parser.kind : t \in own }
  IN  \/ Cardinality(kinds) > 1
      \/ kinds = {"Regex"} /\ \E t \in base : t.parser.kind = "JSON"
      \/ \E t \in own \cup base : t.parser.delimiter = "nil"
      \/ \E t \in base : t.readInterval = "0s"

Ill(c) ==
  \/ BadTask(c)
  \/ c.forwarder.configPollInterval = "0s"
  \/ \E f \in Read(c) : IllFile(c, f)

\* The process stops itself for one of four causes.  A configuration makes it stop
\* only if it is such a one, about to be used or one a file watcher was started with;
\* whatever else a user saves is applied or turned down.  A Get that fails does so
\* at the coordinator's start only, in a process with a table of its own.  The
\* races are that of a change after the first with a glob watcher that is about to
\* find its file, and that of a broadcast with a subscription.
StopsHaveCause ==
  /\ crash = "config" =>
       \E n \in {tasks.initial, Current.number} \cup { globs[i].since : i \in DOMAIN globs } :
         Ill(Config(n))
  /\ crash = "get" => mode = "local" /\ reader.at = "boot" /\ faults > 0
  /\ crash = "race" =>
       \/ /\ reader.at = "old" /\ Contains(subs, "reader")
          /\ \E i \in DOMAIN globs : globs[i].at # "gone" /\ globs[i].fw = "none"
       \/ Subscribing /\ casts # {}

\* Every change arrives.  The coordinator ends up with the newest configuration
\* once a broadcast is on its way to it, unless the process stops or is restarted
\* or a Get fails; a forwarder ends up with the configuration saved at its recipient.
ChangesArrive ==
  /\ (\E c \in casts : c.at > 0 /\ \E k \in c.at .. c.last : subs[k] = "reader")
       ~> \/ reader.at = "wait" /\ (reader.applied = Current.number \/ missed)
          \/ ~Up \/ ~Contains(subs, "reader")
  /\ \A n \in 1 .. MaxRows :
       (mode = "forwarder" /\ row.number = n) ~> (cached.number >= n \/ ~Up)

=============================================================================
