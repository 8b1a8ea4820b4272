------------------------------ MODULE PgEvents ------------------------------
(***************************************************************************)
(* The events in PostgreSQL, and those who write them: requests of         *)
(* forwarders to a recipient, the publisher of the files read on this      *)
(* host (BatchedRepositoryPublisher), and a delete of old events.          *)
(*                                                                         *)
(* Unlike SQLite, PostgreSQL runs their transactions side by side.  A      *)
(* transaction does not see what others have not committed, but the unique *)
(* index does: an insert whose key another transaction has inserted, or    *)
(* deleted, waits for its end.  Transactions that wait for each other are  *)
(* a deadlock, which the database ends by failing one of them.  Ids are    *)
(* drawn from a sequence: those of duplicates and failed transactions are  *)
(* not used again.                                                         *)
(***************************************************************************)
EXTENDS Naturals, Sequences, Relation

CONSTANTS Recipients,  \* the handlers of /v1/receiveEvents, one batch each
          Publisher,   \* the goroutine of BatchedRepositoryPublisher
          Deleter,     \* a task that calls DeleteBatch
          Workloads,   \* what there is to do: events stored and to be written, ...
          AdderSize,   \* the capacity of adder, 5000
          BatchSize    \* how many events the publisher adds at a time, 5000

Writers == Recipients \cup {Publisher, Deleter}

ASSUME PgEventsAssumption ==
  /\ Publisher \notin Recipients /\ Deleter \notin Recipients /\ Publisher # Deleter
  /\ AdderSize \in Nat \ {0} /\ BatchSize \in Nat \ {0}
  /\ \A l \in Workloads :
       /\ l.deletes \subseteq DOMAIN l.stored /\ l.faults \in Nat
       /\ DOMAIN l.batches = Recipients
       /\ Len(l.stored) \in Nat /\ DOMAIN l.stored = 1 .. Len(l.stored)
       /\ \A w \in Recipients :
            Len(l.batches[w]) \in Nat /\ DOMAIN l.batches[w] = 1 .. Len(l.batches[w])
       /\ l.publish \in Seq({ l.publish[i] : i \in DOMAIN l.publish })

VARIABLES
  load,      \* the workload of this behaviour
  Events,    \* the committed rows of each table, by id
  EventRaws,
  seq,       \* the last id drawn
  writer,    \* per writer, its place in AddBatch or DeleteBatch and its transaction
  unread,    \* events the file reader has yet to publish
  adder,     \* the publisher's channel
  dropped,   \* history: keys the program has given up
  deleted,   \* history: keys deleted
  faults,    \* failures so far
  crash      \* why the process has stopped, "no" while it runs

tables == << Events, EventRaws >>
feed == << unread, adder >>
history == << dropped, deleted >>

Key(e) == << e.host, e.source, e.time, e.offset >>

KeysOf(table) == { Key(table[i]) : i \in DOMAIN table }

Put(table, id, row) == [ i \in DOMAIN table \cup {id} |-> IF i = id THEN row ELSE table[i] ]

\* A table after a transaction that has deleted and inserted rows.
Applied(table, gone, new) ==
  [ i \in (DOMAIN table \ gone) \cup DOMAIN new |-> IF i \in DOMAIN new THEN new[i] ELSE table[i] ]

\* Nothing to do, or a transaction: the event it is at, the rows it has inserted
\* and those it has deleted.
Idle ==
  [at |-> "idle", batch |-> << >>, pos |-> 1, id |-> 0, events |-> << >>, raws |-> << >>,
   gone |-> {}, rawsGone |-> {}, reply |-> "none"]

Init ==
  /\ load \in Workloads
  /\ Events = load.stored
  /\ EventRaws = [ i \in DOMAIN load.stored |-> load.stored[i].words ]
  /\ seq = Len(load.stored)
  /\ writer = [ w \in Writers |-> Idle ]
  /\ unread = load.publish
  /\ adder = << >>
  /\ dropped = {}
  /\ deleted = {}
  /\ faults = 0
  /\ crash = "no"

Up == crash = "no"
Works == UNCHANGED << faults, crash >>
Fails == faults < load.faults /\ faults' = faults + 1 /\ UNCHANGED crash

-----------------------------------------------------------------------------
(* Who begins what                                                         *)

Starts(w, batch) == writer' = [writer EXCEPT ![w].at = "insert", ![w].batch = batch]

\* A recipient answers one request.
Receive(w) ==
  /\ Up /\ w \in Recipients
  /\ writer[w].at = "idle" /\ writer[w].reply = "none" /\ load.batches[w] # << >>
  /\ Starts(w, load.batches[w])
  /\ UNCHANGED << load, tables, seq, feed, history >> /\ Works

\* PublishEvent blocks while adder is full.
PublishEvent ==
  /\ Up /\ unread # << >> /\ Len(adder) < AdderSize
  /\ adder' = Append(adder, Head(unread))
  /\ unread' = Tail(unread)
  /\ UNCHANGED << load, tables, seq, writer, history >> /\ Works

\* The publisher's loop takes an event, and adds what it has when that is enough
\* or time is up.  It takes nothing else meanwhile.
TakeEvent ==
  /\ Up /\ adder # << >> /\ writer[Publisher].at = "idle"
  /\ LET batch == Append(writer[Publisher].batch, Head(adder))
     IN  IF Len(batch) >= BatchSize THEN Starts(Publisher, batch)
         ELSE writer' = [writer EXCEPT ![Publisher].batch = batch]
  /\ adder' = Tail(adder)
  /\ UNCHANGED << load, tables, seq, unread, history >> /\ Works

Timeout ==
  /\ Up /\ writer[Publisher].at = "idle" /\ writer[Publisher].batch # << >>
  /\ Starts(Publisher, writer[Publisher].batch)
  /\ UNCHANGED << load, tables, seq, feed, history >> /\ Works

-----------------------------------------------------------------------------
(* AddBatch                                                                *)

Same == << load, tables, feed, history >>

More(w) == writer[w].at = "insert" /\ writer[w].pos <= Len(writer[w].batch)
Current(w) == writer[w].batch[writer[w].pos]

\* INSERT INTO Events: the id is drawn before the unique index is looked at.
DrawId(w) ==
  /\ Up /\ More(w)
  /\ seq' = seq + 1
  /\ writer' = [writer EXCEPT ![w].at = "conflict", ![w].id = seq + 1]
  /\ UNCHANGED Same /\ Works

\* The transactions that have inserted key k or deleted its row.
Holders(w, k) ==
  { v \in Writers \ {w} :
      \/ k \in KeysOf(writer[v].events)
      \/ \E i \in writer[v].gone \cap DOMAIN Events : Key(Events[i]) = k }

Blocked(w) == writer[w].at = "conflict" /\ Holders(w, Key(Current(w))) # {}

Known(w, k) == k \in KeysOf(Events) \cup KeysOf(writer[w].events)

\* ON CONFLICT DO NOTHING returns no row, and the loop goes on.
SkipDuplicate(w) ==
  /\ Up /\ writer[w].at = "conflict" /\ ~Blocked(w)
  /\ Known(w, Key(Current(w)))
  /\ writer' = [writer EXCEPT ![w].at = "insert", ![w].pos = @ + 1]
  /\ UNCHANGED << Same, seq >> /\ Works

InsertEvent(w) ==
  /\ Up /\ writer[w].at = "conflict" /\ ~Blocked(w)
  /\ ~Known(w, Key(Current(w)))
  /\ writer' = [writer EXCEPT ![w].at = "raw", ![w].events = Put(@, writer[w].id, Current(w))]
  /\ UNCHANGED << Same, seq >> /\ Works

InsertRaw(w) ==
  /\ Up /\ writer[w].at = "raw"
  /\ writer' = [writer EXCEPT ![w].at = "insert", ![w].pos = @ + 1,
                  ![w].raws = Put(@, writer[w].id, Current(w).words)]
  /\ UNCHANGED << Same, seq >> /\ Works

-----------------------------------------------------------------------------
(* DeleteBatch, of ids read from the table before                          *)

BeginDelete ==
  /\ Up /\ writer[Deleter].at = "idle" /\ writer[Deleter].reply = "none" /\ load.deletes # {}
  /\ writer' = [writer EXCEPT ![Deleter].at = "delete"]
  /\ UNCHANGED << Same, seq >> /\ Works

DeleteEvents ==
  /\ Up /\ writer[Deleter].at = "delete"
  /\ writer' = [writer EXCEPT ![Deleter].at = "deleteRaws",
                  ![Deleter].gone = load.deletes \cap DOMAIN Events]
  /\ UNCHANGED << Same, seq >> /\ Works

\* Fault: the texts are left behind.
DeleteNoRaws ==
  /\ Up /\ writer[Deleter].at = "deleteRaws"
  /\ writer' = [writer EXCEPT ![Deleter].at = "commit"]
  /\ UNCHANGED << Same, seq >> /\ Works

DeleteRaws ==
  /\ Up /\ writer[Deleter].at = "deleteRaws"
  /\ writer' = [writer EXCEPT ![Deleter].at = "commit",
                  ![Deleter].rawsGone = load.deletes \cap DOMAIN EventRaws]
  /\ UNCHANGED << Same, seq >> /\ Works

-----------------------------------------------------------------------------
(* Ends of a transaction.  The publisher forgets the batch in any case.    *)

Complete(w) ==
  \/ writer[w].at = "insert" /\ writer[w].pos > Len(writer[w].batch)
  \/ writer[w].at = "commit"

Answered(w, reply) ==
  writer' = [writer EXCEPT ![w] = [Idle EXCEPT !.reply = IF w = Publisher THEN "none" ELSE reply]]

GiveUp(w) ==
  /\ dropped' = dropped \cup { Key(writer[w].batch[i]) : i \in DOMAIN writer[w].batch }
  /\ UNCHANGED deleted

Commit(w) ==
  /\ Up /\ Complete(w)
  /\ Events' = Applied(Events, writer[w].gone, writer[w].events)
  /\ EventRaws' = Applied(EventRaws, writer[w].rawsGone, writer[w].raws)
  /\ deleted' = deleted \cup { Key(Events[i]) : i \in writer[w].gone }
  /\ Answered(w, "ok")
  /\ UNCHANGED << load, seq, feed, dropped >> /\ Works

\* AddBatch returns nil all the same, DeleteBatch the error.
CommitFails(w) ==
  /\ Up /\ Complete(w)
  /\ Answered(w, IF w = Deleter THEN "error" ELSE "ok")
  /\ GiveUp(w)
  /\ UNCHANGED << load, tables, seq, feed >> /\ Fails

\* The transaction is rolled back and the error returned: a forwarder will send
\* its batch again, the publisher does not keep it.
RollBack(w) ==
  /\ Answered(w, "error")
  /\ IF w = Publisher THEN GiveUp(w) ELSE UNCHANGED history
  /\ UNCHANGED << load, tables, seq, feed >>

\* Fault: an error counts as a duplicate.
StatementSkipped(w) ==
  /\ Up /\ writer[w].at \in {"conflict", "raw", "delete", "deleteRaws"} /\ ~Blocked(w)
  /\ writer' = [writer EXCEPT ![w].at = "insert", ![w].pos = @ + 1]
  /\ UNCHANGED << Same, seq >> /\ Fails

StatementFails(w) ==
  /\ Up /\ writer[w].at \in {"conflict", "raw", "delete", "deleteRaws"} /\ ~Blocked(w)
  /\ RollBack(w) /\ Fails

WaitsFor == [ v, u \in Writers |-> Blocked(v) /\ u \in Holders(v, Key(Current(v))) ]

InCircle(w) == TransitiveClosure(WaitsFor, Writers)[w, w]

\* Fault: the error is returned with the transaction still open.
DeadlockLeftOpen(w) ==
  /\ Up /\ Blocked(w)
  /\ InCircle(w)
  /\ writer' = [writer EXCEPT ![w].at = "open", ![w].reply = "error"]
  /\ UNCHANGED << Same, seq >> /\ Works

\* One of those that wait in a circle fails.
Deadlock(w) ==
  /\ Up /\ Blocked(w)
  /\ InCircle(w)
  /\ RollBack(w) /\ Works

-----------------------------------------------------------------------------

\* What a writer does in a transaction.
Statement(w) ==
  \/ DrawId(w) \/ SkipDuplicate(w) \/ InsertEvent(w) \/ InsertRaw(w)
  \/ w = Deleter /\ (DeleteEvents \/ DeleteRaws)
  \/ Commit(w) \/ Deadlock(w)

Write ==
  \/ PublishEvent \/ TakeEvent \/ Timeout \/ BeginDelete
  \/ \E w \in Writers : Receive(w) \/ Statement(w) \/ CommitFails(w) \/ StatementFails(w)

\* The rest of the process may fail or stop it.
Elsewhere == UNCHANGED << load, tables, seq, writer, feed, history >>

store == << load, Events, EventRaws, seq, writer, feed, history, faults, crash >>

WriteSpec == Init /\ [][Write \/ Elsewhere]_store

-----------------------------------------------------------------------------
(* Properties                                                              *)

\* Every event that can be found has its text and every text its event,
\* whatever transactions run side by side, fail or are rolled back.
Aligned == DOMAIN Events = DOMAIN EventRaws

\* What a forwarder was told is stored, and what the file reader has published
\* and the publisher has taken, is in the table, unless it was deleted or the
\* program has given it up: for the publisher when AddBatch returns an error,
\* for both when the commit fails.
AckedIsStored ==
  LET kept == KeysOf(Events) \cup deleted \cup dropped
      done == SubSeq(load.publish, 1, Len(load.publish) - Len(unread) - Len(adder)
                                        - Len(writer[Publisher].batch))
  IN  /\ \A w \in Recipients :
           writer[w].reply = "ok" =>
             \A i \in DOMAIN load.batches[w] : Key(load.batches[w][i]) \in kept
      /\ \A i \in DOMAIN done : Key(done[i]) \in kept

=============================================================================
