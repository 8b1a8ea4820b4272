---------------------------- MODULE EventStream ----------------------------
(***************************************************************************)
(* Reading events while they come and go: FilterStream of the SQLite       *)
(* repository, its pages, and its two kinds of consumer, a search and      *)
(* DeleteOldEventsTask, which deletes each page it is sent while the next  *)
(* one is read.                                                            *)
(*                                                                         *)
(* FilterStream is a goroutine that notes MAX(id), then repeats one query: *)
(* the newest filterStreamPageSize events below the timestamp of the last  *)
(* row of the page before.  Pages go over an unbuffered channel, so the    *)
(* goroutine reads a page ahead of its consumer.  Every query sees what is *)
(* committed then (SqliteEvents shows a commit to be atomic and the two    *)
(* tables to be one).                                                      *)
(*                                                                         *)
(* A timestamp is kept as a text: the time of day in the zone the event's  *)
(* line gave it, then the zone.  sqlite compares these texts as texts, so  *)
(* what orders events, ends a page and decides what is old is the time on  *)
(* the wall, wherever the wall is.                                         *)
(***************************************************************************)
EXTENDS Integers, FiniteSets

CONSTANTS Searches,       \* the searches that may run
          Task,           \* the run of DeleteOldEventsTask
          PageSize,       \* filterStreamPageSize
          Stamps,         \* timestamps: a time of day and the zone it is in
          HostZones,      \* the zones of this host, in summer and in winter
          MaxId,          \* bound: events ever added
          QueriesMayFail  \* can a page query or a DeleteBatch fail?

Readers == Searches \cup {Task}

ASSUME EventStreamAssumption ==
  /\ Task \notin Searches
  /\ PageSize \in Nat \ {0}
  /\ Stamps \subseteq [wall : Nat \ {0}, zone : Nat]
  /\ HostZones \subseteq Nat
  /\ MaxId \in Nat
  /\ QueriesMayFail \in BOOLEAN

\* What a clock on a wall may show.
Walls == { t.wall : t \in Stamps }

VARIABLES
  stored,   \* the ids of the committed events
  wall,     \* id -> time of day of its timestamp, for every id given out
  zone,     \* id -> zone of its timestamp, as an offset from the westernmost
  cutoff,   \* now - minAge, a time: events before it are to be deleted
  stream,   \* per reader, its FilterStream goroutine
  seen      \* per reader, the events it was sent; for Task, those it is to delete

vars == << stored, wall, zone, cutoff, stream, seen >>

\* pc: where the goroutine is; maxId, end: the snapshot and upper bound of the
\* stream; last: timestamp of the last row read, 0 before the first page;
\* page: the rows to send.  Two history fields: start, the matching events
\* when the stream opened; edges, the timestamps at which a full page ended.
Idle == [pc |-> "off", maxId |-> 0, end |-> 0, last |-> 0, page |-> {},
         start |-> {}, edges |-> {}]

Ids == DOMAIN wall

\* When an event happened, wherever it did.
Time(i) == wall[i] - zone[i]

Oldest(S) == CHOOSE t \in { wall[i] : i \in S } : \A i \in S : t <= wall[i]

\* Fault: "timestamp <= last".
MatchesTies(s, id) ==
  /\ id <= s.maxId
  /\ wall[id] < s.end
  /\ s.last # 0 => wall[id] <= s.last

\* Fault: the end of the range is not passed on.
MatchesWithoutEnd(s, id) ==
  /\ id <= s.maxId
  /\ s.last # 0 => wall[id] < s.last

\* The WHERE clause.  It compares a stored "2023-01-02 10:00:00+02:00" with a
\* printed "2023-01-02 10:00:00 +0100 CET" as strings: the first difference is
\* in the time of day, or else '+' or '-' sorts after ' ', so a row is below
\* the end or the last row just when it shows an earlier time of day.
Matches(s, id) ==
  /\ id <= s.maxId
  /\ wall[id] < s.end
  /\ s.last # 0 => wall[id] < s.last

\* Fault: no ORDER BY.
IsPageUnordered(s, page) ==
  LET matching == { id \in stored : Matches(s, id) }
  IN  /\ page \subseteq matching
      /\ Cardinality(page) <= PageSize
      /\ Cardinality(page) < PageSize => page = matching

\* ORDER BY timestamp DESC LIMIT PageSize; rows with equal times of day come in
\* any order (that of their zones, as texts).
IsPage(s, page) ==
  LET matching == { id \in stored : Matches(s, id) }
  IN  /\ page \subseteq matching
      /\ Cardinality(page) <= PageSize
      /\ Cardinality(page) < PageSize => page = matching
      /\ \A i \in page, j \in matching \ page : wall[j] <= wall[i]

-----------------------------------------------------------------------------

Init ==
  /\ stored = {}
  /\ wall = [i \in {} |-> 0]
  /\ zone = [i \in {} |-> 0]
  /\ cutoff = 0
  /\ stream = [r \in Readers |-> Idle]
  /\ seen = [r \in Readers |-> {}]

\* A commit of AddBatch, one event at a time: files are read late and sent
\* late, so any timestamp may turn up, in any zone: that of the line's layout,
\* UTC when it has none, the host's for UNIX times.
AddEvent(t) ==
  LET id == Cardinality(Ids) + 1
  IN  /\ id <= MaxId
      /\ stored' = stored \cup {id}
      /\ wall' = [i \in Ids \cup {id} |-> IF i = id THEN t.wall ELSE wall[i]]
      /\ zone' = [i \in Ids \cup {id} |-> IF i = id THEN t.zone ELSE zone[i]]
      /\ UNCHANGED << cutoff, stream, seen >>

\* Time passes, until the clocks of this host show more than any timestamp.
Age ==
  /\ \E w \in Walls, z \in HostZones : cutoff + z <= w
  /\ cutoff' = cutoff + 1
  /\ UNCHANGED << stored, wall, zone, stream, seen >>

\* Fault: COUNT(*) taken for MAX(id).
OpenByCount(r, end) ==
  /\ stream[r].pc = "off"
  /\ IF stored = {}
       THEN stream' = [stream EXCEPT ![r].pc = "done"]
       ELSE stream' = [stream EXCEPT
              ![r] = [Idle EXCEPT !.pc = "query", !.maxId = Cardinality(stored),
                                  !.end = end,
                                  !.start = { i \in stored : wall[i] < end }]]
  /\ seen' = [seen EXCEPT ![r] = {}]
  /\ UNCHANGED << stored, wall, zone, cutoff >>

\* FilterStream's first query.  No event in the table: the channel is closed
\* with nothing sent.
Open(r, end) ==
  /\ stream[r].pc = "off"
  /\ IF stored = {}
       THEN stream' = [stream EXCEPT ![r].pc = "done"]
       ELSE LET maxId == CHOOSE i \in stored : \A j \in stored : j <= i
            IN  stream' = [stream EXCEPT
                  ![r] = [Idle EXCEPT !.pc = "query", !.maxId = maxId,
                                      !.end = end,
                                      !.start = { i \in stored : wall[i] < end }]]
  /\ seen' = [seen EXCEPT ![r] = {}]
  /\ UNCHANGED << stored, wall, zone, cutoff >>

\* The task prints the time up to which events are old in the zone the host
\* has at that time.
TaskStarts == \E z \in HostZones : Open(Task, cutoff + z)

QueryPage(r) ==
  /\ stream[r].pc = "query"
  /\ \E page \in SUBSET stored :
       /\ IsPage(stream[r], page)
       /\ stream' = [stream EXCEPT
            ![r].pc = "send",
            ![r].page = page,
            ![r].last = IF page = {} THEN @ ELSE Oldest(page),
            ![r].edges = IF Cardinality(page) < PageSize
                           THEN @ ELSE @ \cup {Oldest(page)}]
  /\ UNCHANGED << stored, wall, zone, cutoff, seen >>

\* The query fails: logged, the channel is closed, the consumer cannot tell
\* this end from any other.
QueryFails(r) ==
  /\ QueriesMayFail
  /\ stream[r].pc = "query"
  /\ stream' = [stream EXCEPT ![r].pc = "failed"]
  /\ UNCHANGED << stored, wall, zone, cutoff, seen >>

\* The page is handed over, to a search or to an idle Task; a short page is
\* the last one.
SendPage(r) ==
  /\ stream[r].pc = "send"
  /\ r = Task => seen[r] = {}
  /\ seen' = [seen EXCEPT ![r] = @ \cup stream[r].page]
  /\ stream' = [stream EXCEPT
       ![r].pc = IF Cardinality(stream[r].page) < PageSize THEN "done" ELSE "query",
       ![r].page = {}]
  /\ UNCHANGED << stored, wall, zone, cutoff >>

\* DeleteOldEventsTask deletes the page it was sent.
DeletePage ==
  /\ seen[Task] # {}
  /\ stored' = stored \ seen[Task]
  /\ seen' = [seen EXCEPT ![Task] = {}]
  /\ UNCHANGED << wall, zone, cutoff, stream >>

\* DeleteBatch fails: logged, the task goes on to the next page.
DeleteFails ==
  /\ QueriesMayFail
  /\ seen[Task] # {}
  /\ seen' = [seen EXCEPT ![Task] = {}]
  /\ UNCHANGED << stored, wall, zone, cutoff, stream >>

\* The task ends when its channel is closed; TaskManager runs it again.
TaskReturns ==
  /\ stream[Task].pc \in {"done", "failed"}
  /\ seen[Task] = {}
  /\ stream' = [stream EXCEPT ![Task] = Idle]
  /\ UNCHANGED << stored, wall, zone, cutoff, seen >>

Next ==
  \/ \E t \in Stamps : AddEvent(t)
  \/ Age
  \/ \E s \in Searches, end \in { w + 1 : w \in Walls } : Open(s, end)
  \/ TaskStarts
  \/ \E r \in Readers : QueryPage(r) \/ QueryFails(r) \/ SendPage(r)
  \/ DeletePage \/ DeleteFails \/ TaskReturns

Spec == Init /\ [][Next]_vars

\* The scheduler runs every goroutine that can run, time passes and
\* TaskManager's ticker starts the task again and again; queries and deletes
\* may fail, though not every time.
Fairness ==
  /\ WF_vars(Age)
  /\ WF_vars(TaskStarts) /\ WF_vars(SendPage(Task))
  /\ WF_vars(QueryPage(Task) \/ QueryFails(Task)) /\ SF_vars(QueryPage(Task))
  /\ WF_vars(DeletePage \/ DeleteFails) /\ SF_vars(DeletePage)
  /\ WF_vars(TaskReturns)

FairSpec == Spec /\ Fairness

-----------------------------------------------------------------------------
(* Properties                                                              *)

TypeOK ==
  /\ Ids = 1 .. Cardinality(Ids)
  /\ wall \in [Ids -> Walls]
  /\ zone \in [Ids -> Nat]
  /\ stored \subseteq Ids
  /\ cutoff \in Nat
  /\ stream \in [Readers ->
       [pc : {"off", "query", "send", "done", "failed"}, maxId : 0 .. MaxId,
        end : Nat, last : Walls \cup {0}, page : SUBSET Ids,
        start : SUBSET Ids, edges : SUBSET Walls]]
  /\ \A r \in Readers : stream[r].page # {} => stream[r].pc = "send"
  /\ seen \in [Readers -> SUBSET Ids]

\* Pages go strictly back in the time of day their events show, whatever is
\* added and deleted between them: no event is sent twice, and results that
\* share a zone come newest first.
PagesDescend ==
  \A r \in Searches :
    stream[r].pc = "send" =>
      \A i \in stream[r].page, j \in seen[r] : wall[i] < wall[j]

\* A search whose queries succeed misses no event that was there from its
\* beginning to its end, but for events that show the time of day at which a
\* full page ended, in whatever zone: "timestamp < last" passes over those.
OnlyTiesMissed ==
  \A r \in Searches :
    stream[r].pc = "done" =>
      \A i \in (stream[r].start \cap stored) \ seen[r] :
        wall[i] \in stream[r].edges

\* No event is deleted but through the task, and none before its time, but for
\* what its zone is behind the host's: an event that names a zone three hours
\* to the west of the host's goes three hours early, one that names the host's
\* zone or one to the east of it never does.
OnlyOldDeleted ==
  [][ \A i \in stored \ stored' :
        \E z \in HostZones : Time(i) < cutoff + (z - zone[i]) ]_vars

\* "Any event older than this will be deleted" (docs/Tasks.md), in however
\* many runs: those passed over at a page's end go in a later one, and those
\* whose zone is ahead of the host's once the host's clock has caught up.
OldEventsGo ==
  \A i \in 1 .. MaxId :
    (i \in stored /\ Time(i) < cutoff) ~> (i \notin stored)

=============================================================================
