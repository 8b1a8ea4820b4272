---------------------------- MODULE SqliteEvents ----------------------------
(***************************************************************************)
(* The SQLite event repository, plugins/sqlite_events.  An event is stored *)
(* in two tables that share nothing but a row number: Events holds its     *)
(* identity under an AUTOINCREMENT id, the full text table EventRaws its   *)
(* text under a rowid.  Every read joins the two on rowid = id.            *)
(*                                                                         *)
(* AddBatch writes both tables in one transaction, in one of two ways:     *)
(* one event at a time (addBatchOneByOne), or all events in one INSERT OR  *)
(* IGNORE and all texts in one INSERT followed by a clean-up of the texts  *)
(* whose event was ignored (addBatchTrueBatch, the default).               *)
(*                                                                         *)
(* One transaction writes at a time (SQLite's write lock); readers see the *)
(* committed tables only (WAL).  A transaction refused the lock, or whose  *)
(* snapshot went stale before its first write, ends as RollBack does.      *)
(***************************************************************************)
EXTENDS Naturals, Sequences

CONSTANTS Key, Raw, Batches,
          TrueBatch,        \* Config.TrueBatch
          SwallowedErrors,  \* can the errors happen that AddBatch ignores?
          MaxSeq            \* bound: ids handed out

Event == [key : Key, raw : Raw]

ASSUME SqliteEventsAssumption ==
  /\ Batches \subseteq Seq(Event)
  /\ TrueBatch \in BOOLEAN
  /\ SwallowedErrors \in BOOLEAN
  /\ MaxSeq \in Nat

VARIABLES
  db,      \* the committed tables
  work,    \* the tables as the open transaction sees them
  phase,   \* the statement the open transaction is at
  batch,   \* the batch being added
  pos,     \* addBatchOneByOne: the loop's index in the batch
  doomed,  \* DeleteBatch: the ids to delete
  reply    \* what the last call returned to its caller

vars == << db, work, phase, batch, pos, doomed, reply >>

\* events: id -> identity; raws: rowid -> text; seq: the AUTOINCREMENT
\* counter; issued: a history variable, every id ever given out and the
\* event it was first given to.
Tables == [events : UNION {[S -> Key] : S \in SUBSET (1 .. MaxSeq)},
           raws   : UNION {[S -> Raw] : S \in SUBSET (1 .. MaxSeq)},
           seq    : 0 .. MaxSeq,
           issued : UNION {[S -> Event] : S \in SUBSET (1 .. MaxSeq)}]

Phases == {"idle", "event", "raw", "allEvents", "allRaws", "cleanUp",
           "delEvents", "delRaws", "commit"}

Put(f, x, v) == [y \in DOMAIN f \cup {x} |-> IF y = x THEN v ELSE f[y]]

Note(f, x, v) == IF x \in DOMAIN f THEN f ELSE Put(f, x, v)

Without(f, S) == [x \in DOMAIN f \ S |-> f[x]]

KeysIn(t) == { t.events[i] : i \in DOMAIN t.events }

\* The ids a read can return: those with a row in both tables.
Visible(t) == DOMAIN t.events \cap DOMAIN t.raws

\* MAX(rowid), 0 for an empty table.
MaxRow(f) ==
  IF DOMAIN f = {} THEN 0
  ELSE CHOOSE i \in DOMAIN f : \A j \in DOMAIN f : j <= i

-----------------------------------------------------------------------------

NoRows == [i \in {} |-> i]

EmptyTables ==
  [events |-> NoRows, raws |-> NoRows, seq |-> 0, issued |-> NoRows]

Init ==
  /\ db = EmptyTables
  /\ work = EmptyTables
  /\ phase = "idle"
  /\ batch = << >>
  /\ pos = 1
  /\ doomed = {}
  /\ reply = "none"

\* The transaction ends: the call returns, the variables of it are gone.
EndWith(tables, answer) ==
  /\ db' = tables
  /\ work' = tables
  /\ phase' = "idle"
  /\ batch' = << >>
  /\ pos' = 1
  /\ doomed' = {}
  /\ reply' = answer

\* AddBatch begins a transaction.
BeginAdd(b) ==
  /\ phase = "idle"
  /\ db.seq + Len(b) <= MaxSeq
  /\ batch' = b
  /\ phase' = IF TrueBatch THEN "allEvents" ELSE "event"
  /\ reply' = "none"
  /\ UNCHANGED << db, work, pos, doomed >>

-----------------------------------------------------------------------------
(* addBatchOneByOne                                                        *)

\* The unique constraint refuses the event: counted and skipped.
SkipDuplicate ==
  /\ phase = "event"
  /\ pos <= Len(batch)
  /\ batch[pos].key \in KeysIn(work)
  /\ pos' = pos + 1
  /\ UNCHANGED << db, work, phase, batch, doomed, reply >>

\* Fault: id is a plain INTEGER PRIMARY KEY, not AUTOINCREMENT.
InsertEventReusingIds ==
  /\ phase = "event"
  /\ pos <= Len(batch)
  /\ batch[pos].key \notin KeysIn(work)
  /\ LET id == MaxRow(work.events) + 1
     IN  work' = [work EXCEPT !.events = Put(@, id, batch[pos].key),
                              !.seq = id,
                              !.issued = Note(@, id, batch[pos])]
  /\ phase' = "raw"
  /\ UNCHANGED << db, batch, pos, doomed, reply >>

\* Fault: no UNIQUE constraint.
InsertEventUnchecked ==
  /\ phase = "event"
  /\ pos <= Len(batch)
  /\ LET id == work.seq + 1
     IN  work' = [work EXCEPT !.events = Put(@, id, batch[pos].key),
                              !.seq = id,
                              !.issued = Note(@, id, batch[pos])]
  /\ phase' = "raw"
  /\ UNCHANGED << db, batch, pos, doomed, reply >>

\* INSERT INTO Events: the event gets the next id.
InsertEvent ==
  /\ phase = "event"
  /\ pos <= Len(batch)
  /\ batch[pos].key \notin KeysIn(work)
  /\ LET id == work.seq + 1
     IN  work' = [work EXCEPT !.events = Put(@, id, batch[pos].key),
                              !.seq = id,
                              !.issued = Note(@, id, batch[pos])]
  /\ phase' = "raw"
  /\ UNCHANGED << db, batch, pos, doomed, reply >>

\* INSERT INTO EventRaws under LAST_INSERT_ROWID(), the id just given; a
\* rowid already taken is an error, which leaves only RollBack.
InsertRaw ==
  /\ phase = "raw"
  /\ work.seq \notin DOMAIN work.raws
  /\ work' = [work EXCEPT !.raws = Put(@, work.seq, batch[pos].raw)]
  /\ pos' = pos + 1
  /\ phase' = "event"
  /\ UNCHANGED << db, batch, doomed, reply >>

LoopDone ==
  /\ phase = "event"
  /\ pos > Len(batch)
  /\ phase' = "commit"
  /\ UNCHANGED << db, work, batch, pos, doomed, reply >>

-----------------------------------------------------------------------------
(* addBatchTrueBatch                                                       *)

\* Fault: stored duplicates are kept.
KeptDespiteStored ==
  { i \in DOMAIN batch : \A j \in 1 .. (i - 1) : batch[j].key # batch[i].key }

\* The rows of the batch that INSERT OR IGNORE keeps: the first with their
\* identity, when no stored event has it.
Kept ==
  { i \in DOMAIN batch :
      /\ batch[i].key \notin KeysIn(work)
      /\ \A j \in 1 .. (i - 1) : batch[j].key # batch[i].key }

\* INSERT OR IGNORE INTO Events of the whole batch.  An ignored row uses up
\* an id all the same.  An empty batch is a syntax error.
InsertAllEvents ==
  /\ phase = "allEvents"
  /\ batch # << >>
  /\ LET ids == { work.seq + i : i \in Kept }
         row(id) == batch[id - work.seq]
     IN  work' =
           [work EXCEPT
              !.events = [id \in DOMAIN @ \cup ids |->
                            IF id \in ids THEN row(id).key ELSE @[id]],
              !.seq = @ + Len(batch),
              !.issued = [id \in DOMAIN @ \cup ids |->
                            IF id \in DOMAIN @ THEN @[id] ELSE row(id)]]
  /\ phase' = "allRaws"
  /\ UNCHANGED << db, batch, pos, doomed, reply >>

\* INSERT INTO EventRaws of every text of the batch, duplicates included: a
\* full text table numbers its rows from MAX(rowid) + 1.
InsertAllRaws ==
  /\ phase = "allRaws"
  /\ LET prevMax == MaxRow(work.raws)
     IN  work' = [work EXCEPT
                    !.raws = [r \in DOMAIN @ \cup
                                    (prevMax + 1) .. (prevMax + Len(batch)) |->
                                IF r > prevMax THEN batch[r - prevMax].raw
                                               ELSE @[r]]]
  /\ phase' = "cleanUp"
  /\ UNCHANGED << db, batch, pos, doomed, reply >>

\* Fault: no NOT IN (SELECT id FROM Events).
OrphansAll == { r \in DOMAIN work.raws : r > MaxRow(db.raws) }

\* The texts the clean-up deletes: added by this batch (rowid in
\* prevMaxID + 1 .. newMaxID), with no event under their rowid.
Orphans ==
  LET prevMaxID == MaxRow(db.raws)
  IN  { r \in DOMAIN work.raws : r > prevMaxID /\ r \notin DOMAIN work.events }

\* DELETE FROM EventRaws; when it fails the error is logged and the
\* transaction goes on.
CleanUp ==
  /\ phase = "cleanUp"
  /\ \/ work' = [work EXCEPT !.raws = Without(@, Orphans)]
     \/ SwallowedErrors /\ UNCHANGED work
  /\ phase' = "commit"
  /\ UNCHANGED << db, batch, pos, doomed, reply >>

-----------------------------------------------------------------------------
(* DeleteBatch                                                             *)

\* Callers pass ids a read returned to them, now or long ago.
BeginDelete(ids) ==
  /\ phase = "idle"
  /\ ids # {}
  /\ doomed' = ids
  /\ phase' = "delEvents"
  /\ reply' = "none"
  /\ UNCHANGED << db, work, batch, pos >>

DeleteEvents ==
  /\ phase = "delEvents"
  /\ work' = [work EXCEPT !.events = Without(@, doomed)]
  /\ phase' = "delRaws"
  /\ UNCHANGED << db, batch, pos, doomed, reply >>

\* Fault: the texts are forgotten.
DeleteEventsOnly ==
  /\ phase = "delRaws"
  /\ phase' = "commit"
  /\ UNCHANGED << db, work, batch, pos, doomed, reply >>

DeleteRaws ==
  /\ phase = "delRaws"
  /\ work' = [work EXCEPT !.raws = Without(@, doomed)]
  /\ phase' = "commit"
  /\ UNCHANGED << db, batch, pos, doomed, reply >>

-----------------------------------------------------------------------------

Commit ==
  /\ phase = "commit"
  /\ EndWith(work, "ok")

\* COMMIT fails and the driver rolls back: DeleteBatch returns the error,
\* AddBatch drops it and returns nil.
CommitFails ==
  /\ phase = "commit"
  /\ SwallowedErrors
  /\ EndWith(db, IF doomed = {} THEN "ok" ELSE "error")

\* A statement fails; the transaction is rolled back, the call returns it.
RollBack ==
  /\ phase \notin {"idle", "cleanUp", "commit"}
  /\ EndWith(db, "error")

\* The process stops: SQLite drops the transaction, no one gets an answer.
Crash ==
  /\ phase # "idle"
  /\ EndWith(db, "none")

Next ==
  \/ \E b \in Batches : BeginAdd(b)
  \/ SkipDuplicate \/ InsertEvent \/ InsertRaw \/ LoopDone
  \/ InsertAllEvents \/ InsertAllRaws \/ CleanUp
  \/ \E ids \in SUBSET DOMAIN db.issued : BeginDelete(ids)
  \/ DeleteEvents \/ DeleteRaws
  \/ Commit \/ CommitFails \/ RollBack \/ Crash

Spec == Init /\ [][Next]_vars

(***************************************************************************)
(* addBatchTrueBatch keeps the two tables in step only while the counter   *)
(* of Events and the highest rowid of EventRaws agree.  TameNext has only  *)
(* callers that keep them so: no batch ends in a duplicate, and the newest *)
(* event is never deleted.                                                 *)
(***************************************************************************)
LastIsNew(b) ==
  /\ b # << >>
  /\ b[Len(b)].key \notin KeysIn(db)
  /\ \A i \in 1 .. (Len(b) - 1) : b[i].key # b[Len(b)].key

TameNext ==
  \/ \E b \in Batches : LastIsNew(b) /\ BeginAdd(b)
  \/ InsertAllEvents \/ InsertAllRaws \/ CleanUp
  \/ \E ids \in SUBSET (DOMAIN db.issued \ {db.seq}) : BeginDelete(ids)
  \/ DeleteEvents \/ DeleteRaws
  \/ Commit \/ RollBack \/ Crash

TameSpec == Init /\ [][TameNext]_vars

-----------------------------------------------------------------------------
(* Properties                                                              *)

TypeOK ==
  /\ db \in Tables
  /\ work \in Tables
  /\ phase \in Phases
  /\ batch \in Batches \cup {<< >>}
  /\ pos \in 1 .. (Len(batch) + 1)
  /\ doomed \subseteq 1 .. MaxSeq
  /\ reply \in {"none", "ok", "error"}

\* Every committed event has its text and every committed text its event:
\* no event that the joins of FilterStream and GetByIds can never return, no
\* text left behind that a later id would adopt.
Aligned == DOMAIN db.events = DOMAIN db.raws

\* An id names one event for ever: what a read returns for it is what was
\* stored under it, however many deletes, duplicates and failed batches came
\* between.  Job results keep ids and fetch the events by them later.
IdNamesItsEvent ==
  \A id \in Visible(db) :
    /\ id \in DOMAIN db.issued
    /\ db.issued[id] = [key |-> db.events[id], raw |-> db.raws[id]]

\* The rowid taken for a text is never in use, so addBatchOneByOne never
\* loses a batch to a conflict in EventRaws.
NoRowidConflict == phase = "raw" => work.seq \notin DOMAIN work.raws

\* When AddBatch returns nil, every event of the batch, or the one it
\* duplicates, can be read.
AckMeansIndexed ==
  [][ phase = "commit" /\ doomed = {} /\ reply' = "ok"
        => \A i \in DOMAIN batch :
             \E id \in Visible(db') : db'.events[id] = batch[i].key ]_vars

\* The clean-up removes texts of duplicates only, as its log line says:
\* "Skipped adding events as they appear to be duplicates" counts its rows.
OnlyDuplicatesSkipped ==
  phase = "cleanUp" =>
    \A r \in Orphans :
      LET i == r - MaxRow(db.raws)
      IN  \/ batch[i].key \in KeysIn(db)
          \/ \E j \in 1 .. (i - 1) : batch[j].key = batch[i].key

-----------------------------------------------------------------------------
(* The index the tables implement.                                         *)

IdOf(t, k) == CHOOSE id \in Visible(t) : t.events[id] = k

IndexOf(t) == [k \in { t.events[id] : id \in Visible(t) } |-> t.raws[IdOf(t, k)]]

Index == INSTANCE EventIndex WITH index <- IndexOf(db)

\* The committed tables behave as an EventIndex: every commit adds a batch or
\* deletes a set of events as a whole, everything else leaves it alone.
ImplementsIndex == Index!Spec

=============================================================================
