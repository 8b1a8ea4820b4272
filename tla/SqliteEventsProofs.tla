------------------------- MODULE SqliteEventsProofs -------------------------
(***************************************************************************)
(* Proofs about SqliteEvents: when batches are added one event at a time,  *)
(* for all callers; when a batch is added in one statement, for the calls  *)
(* of TameNext, the others being what the runs refute.                     *)
(* The invariants are not inductive by themselves: between its statements  *)
(* a transaction's own tables are out of step, so IInv and BInv say, for   *)
(* every statement, how far they are.                                      *)
(***************************************************************************)
EXTENDS SqliteEvents, WellFoundedInduction, TLAPS

PartialFns(S, R) == UNION {[D -> R] : D \in SUBSET S}

\* The ids stored are ids given out, and the row under an id is of the event
\* the id was given to.
Named(t) ==
  /\ DOMAIN t.events \subseteq DOMAIN t.issued
  /\ DOMAIN t.raws \subseteq DOMAIN t.issued
  /\ \A id \in DOMAIN t.issued : id <= t.seq
  /\ \A id \in DOMAIN t.events : t.issued[id].key = t.events[id]
  /\ \A id \in DOMAIN t.raws : t.issued[id].raw = t.raws[id]

Paired(t) == DOMAIN t.events = DOMAIN t.raws

\* The statement the transaction is at, and what it has done so far.
Progress ==
  /\ phase \notin {"allEvents", "allRaws", "cleanUp"}
  /\ phase = "idle" => work = db /\ pos = 1
  /\ phase \in {"event", "raw"} => db.seq + Len(batch) <= MaxSeq
  /\ phase = "event" => Paired(work) /\ work.seq < db.seq + pos
  /\ phase = "raw" => /\ pos <= Len(batch)
                      /\ work.seq <= db.seq + pos
                      /\ work.seq \in 1 .. MaxSeq
                      /\ work.seq \in DOMAIN work.issued
                      /\ work.issued[work.seq] = batch[pos]
                      /\ work.seq \notin DOMAIN work.raws
                      /\ DOMAIN work.events = DOMAIN work.raws \cup {work.seq}
  /\ phase = "delEvents" => Paired(work)
  /\ phase = "delRaws" => DOMAIN work.events = DOMAIN work.raws \ doomed
  /\ phase = "commit" => Paired(work)

IInv ==
  /\ TypeOK
  /\ Paired(db)
  /\ Named(db)
  /\ Named(work)
  /\ Progress

-----------------------------------------------------------------------------

LEMMA PartialFnsDef ==
  ASSUME NEW S, NEW R, NEW f
  PROVE  f \in PartialFns(S, R) <=> DOMAIN f \subseteq S /\ f \in [DOMAIN f -> R]
BY DEF PartialFns

\* Put and Without stay within the partial functions they start from.
LEMMA PutType ==
  ASSUME NEW S, NEW R, NEW f \in PartialFns(S, R), NEW x \in S, NEW v \in R
  PROVE  Put(f, x, v) \in PartialFns(S, R)
<1>1. DOMAIN Put(f, x, v) = DOMAIN f \cup {x}
  BY DEF Put
<1>2. Put(f, x, v) \in [DOMAIN f \cup {x} -> R]
  BY PartialFnsDef DEF Put
<1>3. QED
  BY <1>1, <1>2, PartialFnsDef

LEMMA WithoutType ==
  ASSUME NEW S, NEW R, NEW f \in PartialFns(S, R), NEW D
  PROVE  Without(f, D) \in PartialFns(S, R)
<1>1. DOMAIN Without(f, D) = DOMAIN f \ D
  BY DEF Without
<1>2. Without(f, D) \in [DOMAIN f \ D -> R]
  BY PartialFnsDef DEF Without
<1>3. QED
  BY <1>1, <1>2, PartialFnsDef

LEMMA TablesDef ==
  Tables = [events : PartialFns(1 .. MaxSeq, Key),
            raws   : PartialFns(1 .. MaxSeq, Raw),
            seq    : 0 .. MaxSeq,
            issued : PartialFns(1 .. MaxSeq, Event)]
BY DEF Tables, PartialFns

\* An element of a batch is an event.
LEMMA BatchElement ==
  ASSUME batch \in Batches \cup {<< >>}, pos \in 1 .. (Len(batch) + 1), pos <= Len(batch)
  PROVE  /\ batch[pos] \in Event
         /\ batch[pos].key \in Key
         /\ batch[pos].raw \in Raw
<1>1. batch \in Seq(Event)
  BY SqliteEventsAssumption
<1>2. batch[pos] \in Event
  BY <1>1
<1>3. QED
  BY <1>2 DEF Event

-----------------------------------------------------------------------------

LEMMA InitTypes == Init => TypeOK
<1> SUFFICES ASSUME Init PROVE TypeOK
  OBVIOUS
<1>1. /\ NoRows \in PartialFns(1 .. MaxSeq, Key)
      /\ NoRows \in PartialFns(1 .. MaxSeq, Raw)
      /\ NoRows \in PartialFns(1 .. MaxSeq, Event)
  BY PartialFnsDef DEF NoRows
<1>2. EmptyTables \in Tables
  BY <1>1, TablesDef, SqliteEventsAssumption DEF EmptyTables, NoRows
<1>3. QED
  BY <1>2 DEF Init, TypeOK, Phases

LEMMA InitIInv == Init /\ ~TrueBatch => IInv
<1>1. Paired(EmptyTables) /\ Named(EmptyTables)
  BY DEF Paired, Named, EmptyTables, NoRows
<1>2. QED
  BY <1>1, InitTypes DEF Init, IInv, Progress

-----------------------------------------------------------------------------

\* A transaction that ends leaves good tables behind, those it changed or
\* those it started from.
LEMMA EndWithIInv ==
  ASSUME NEW t \in Tables, Paired(t), Named(t),
         NEW answer \in {"none", "ok", "error"}, EndWith(t, answer)
  PROVE  IInv'
<1>1. TypeOK'
  BY DEF EndWith, TypeOK, Phases
<1>2. Paired(db)' /\ Named(db)' /\ Named(work)'
  BY DEF EndWith, Paired, Named
<1>3. Progress'
  BY DEF EndWith, Progress
<1>4. QED
  BY <1>1, <1>2, <1>3 DEF IInv

LEMMA BeginAddIInv ==
  ASSUME IInv, ~TrueBatch, NEW b \in Batches, BeginAdd(b)
  PROVE  IInv'
<1>1. Len(b) \in Nat
  BY SqliteEventsAssumption
<1>2. db.seq \in Nat
  BY SqliteEventsAssumption DEF IInv, TypeOK, Tables
<1>3. pos = 1
  BY DEF BeginAdd, IInv, Progress
<1>4. TypeOK'
  BY <1>1, <1>3 DEF BeginAdd, IInv, TypeOK, Phases
<1>5. Progress'
  BY <1>1, <1>2, <1>3 DEF BeginAdd, IInv, TypeOK, Progress
<1>6. QED
  BY <1>4, <1>5 DEF BeginAdd, IInv, Paired, Named

LEMMA SkipDuplicateIInv ==
  ASSUME IInv, SkipDuplicate
  PROVE  IInv'
<1>1. Len(batch) \in Nat /\ db.seq \in Nat /\ work.seq \in Nat /\ pos \in Nat
  BY SqliteEventsAssumption DEF IInv, TypeOK, Tables
<1>2. TypeOK'
  BY <1>1 DEF SkipDuplicate, IInv, TypeOK
<1>3. Progress'
  BY <1>1 DEF SkipDuplicate, IInv, Progress, Paired
<1>4. QED
  BY <1>2, <1>3 DEF SkipDuplicate, IInv, Paired, Named

LEMMA InsertEventIInv ==
  ASSUME IInv, InsertEvent
  PROVE  IInv'
<1> DEFINE id == work.seq + 1
<1>1. Len(batch) \in Nat /\ db.seq \in Nat /\ work.seq \in Nat /\ pos \in Nat
  BY SqliteEventsAssumption DEF IInv, TypeOK, Tables
<1>2. id \in 1 .. MaxSeq
  BY <1>1, SqliteEventsAssumption, SMTT(30) DEF InsertEvent, IInv, Progress
<1>3. batch[pos] \in Event /\ batch[pos].key \in Key
  BY BatchElement DEF InsertEvent, IInv, TypeOK
<1>4. /\ work.events \in PartialFns(1 .. MaxSeq, Key)
      /\ work.issued \in PartialFns(1 .. MaxSeq, Event)
      /\ work \in Tables
  BY TablesDef DEF IInv, TypeOK
<1>5. id \notin DOMAIN work.issued /\ id \notin DOMAIN work.raws
  BY <1>1 DEF IInv, Named
<1>6. /\ work'.events = Put(work.events, id, batch[pos].key)
      /\ work'.issued = Put(work.issued, id, batch[pos])
      /\ work'.seq = id
      /\ work'.raws = work.raws
      /\ work' = [work EXCEPT !.events = work'.events, !.seq = id,
                              !.issued = work'.issued]
  BY <1>4, <1>5 DEF InsertEvent, Tables, Note
<1>7. work' \in Tables
  <2>1. Put(work.events, id, batch[pos].key) \in PartialFns(1 .. MaxSeq, Key)
    BY <1>2, <1>3, <1>4, PutType
  <2>2. Put(work.issued, id, batch[pos]) \in PartialFns(1 .. MaxSeq, Event)
    BY <1>2, <1>3, <1>4, PutType
  <2>3. QED
    BY <1>2, <1>4, <1>6, <2>1, <2>2, TablesDef, SqliteEventsAssumption
<1>8. TypeOK'
  BY <1>7 DEF InsertEvent, IInv, TypeOK, Phases
<1>9. Named(work)'
  BY <1>1, <1>4, <1>5, <1>6 DEF IInv, Named, Put, Tables
<1>10. Progress'
  BY <1>1, <1>2, <1>5, <1>6 DEF InsertEvent, IInv, Progress, Paired, Put
<1>11. QED
  BY <1>8, <1>9, <1>10 DEF InsertEvent, IInv, Paired, Named

LEMMA InsertRawIInv ==
  ASSUME IInv, InsertRaw
  PROVE  IInv'
<1>1. Len(batch) \in Nat /\ db.seq \in Nat /\ work.seq \in Nat /\ pos \in Nat
  BY SqliteEventsAssumption DEF IInv, TypeOK, Tables
<1>2. pos <= Len(batch) /\ batch[pos].raw \in Raw
  BY BatchElement DEF InsertRaw, IInv, TypeOK, Progress
<1>3. /\ work.raws \in PartialFns(1 .. MaxSeq, Raw)
      /\ work.seq \in 1 .. MaxSeq
      /\ work \in Tables
  BY TablesDef DEF InsertRaw, IInv, TypeOK, Progress
<1>4. /\ work'.raws = Put(work.raws, work.seq, batch[pos].raw)
      /\ work'.events = work.events
      /\ work'.issued = work.issued
      /\ work'.seq = work.seq
      /\ work' = [work EXCEPT !.raws = work'.raws]
  BY <1>3 DEF InsertRaw, Tables
<1>5. work' \in Tables
  <2>1. Put(work.raws, work.seq, batch[pos].raw) \in PartialFns(1 .. MaxSeq, Raw)
    BY <1>2, <1>3, PutType
  <2>2. QED
    BY <1>3, <1>4, <2>1, TablesDef
<1>6. TypeOK'
  BY <1>1, <1>2, <1>5 DEF InsertRaw, IInv, TypeOK, Phases
<1>7. Named(work)'
  BY <1>4 DEF InsertRaw, IInv, Named, Put, Progress
<1>8. Progress'
  BY <1>1, <1>4 DEF InsertRaw, IInv, Progress, Paired, Put
<1>9. QED
  BY <1>6, <1>7, <1>8 DEF InsertRaw, IInv, Paired, Named

LEMMA LoopDoneIInv ==
  ASSUME IInv, LoopDone
  PROVE  IInv'
<1>1. TypeOK'
  BY DEF LoopDone, IInv, TypeOK, Phases
<1>2. Progress'
  BY DEF LoopDone, IInv, Progress, Paired
<1>3. QED
  BY <1>1, <1>2 DEF LoopDone, IInv, Paired, Named

LEMMA BeginDeleteIInv ==
  ASSUME IInv, NEW ids \in SUBSET DOMAIN db.issued, BeginDelete(ids)
  PROVE  IInv'
<1>1. ids \subseteq 1 .. MaxSeq
  <2>1. db.issued \in PartialFns(1 .. MaxSeq, Event)
    BY TablesDef DEF IInv, TypeOK
  <2>2. QED
    BY <2>1, PartialFnsDef
<1>2. TypeOK'
  BY <1>1 DEF BeginDelete, IInv, TypeOK, Phases
<1>3. Progress'
  BY DEF BeginDelete, IInv, Progress, Paired
<1>4. QED
  BY <1>2, <1>3 DEF BeginDelete, IInv, Paired, Named

LEMMA DeleteEventsIInv ==
  ASSUME IInv, DeleteEvents
  PROVE  IInv'
<1>1. work \in Tables /\ work.events \in PartialFns(1 .. MaxSeq, Key)
  BY TablesDef DEF IInv, TypeOK
<1>2. /\ work'.events = Without(work.events, doomed)
      /\ work'.raws = work.raws
      /\ work'.issued = work.issued
      /\ work'.seq = work.seq
      /\ work' = [work EXCEPT !.events = work'.events]
  BY <1>1 DEF DeleteEvents, Tables
<1>3. work' \in Tables
  BY <1>1, <1>2, WithoutType, TablesDef
<1>4. TypeOK'
  BY <1>3 DEF DeleteEvents, IInv, TypeOK, Phases
<1>5. Named(work)'
  BY <1>2 DEF IInv, Named, Without
<1>6. Progress'
  BY <1>2 DEF DeleteEvents, IInv, Progress, Paired, Without
<1>7. QED
  BY <1>4, <1>5, <1>6 DEF DeleteEvents, IInv, Paired, Named

LEMMA DeleteRawsIInv ==
  ASSUME IInv, DeleteRaws
  PROVE  IInv'
<1>1. work \in Tables /\ work.raws \in PartialFns(1 .. MaxSeq, Raw)
  BY TablesDef DEF IInv, TypeOK
<1>2. /\ work'.raws = Without(work.raws, doomed)
      /\ work'.events = work.events
      /\ work'.issued = work.issued
      /\ work'.seq = work.seq
      /\ work' = [work EXCEPT !.raws = work'.raws]
  BY <1>1 DEF DeleteRaws, Tables
<1>3. work' \in Tables
  BY <1>1, <1>2, WithoutType, TablesDef
<1>4. TypeOK'
  BY <1>3 DEF DeleteRaws, IInv, TypeOK, Phases
<1>5. Named(work)'
  BY <1>2 DEF IInv, Named, Without
<1>6. Progress'
  BY <1>2 DEF DeleteRaws, IInv, Progress, Paired, Without
<1>7. QED
  BY <1>4, <1>5, <1>6 DEF DeleteRaws, IInv, Paired, Named

LEMMA NextIInv ==
  ASSUME IInv, ~TrueBatch, [Next]_vars
  PROVE  IInv'
<1>1. ASSUME NEW b \in Batches, BeginAdd(b) PROVE IInv'
  BY <1>1, BeginAddIInv
<1>2. CASE SkipDuplicate
  BY <1>2, SkipDuplicateIInv
<1>3. CASE InsertEvent
  BY <1>3, InsertEventIInv
<1>4. CASE InsertRaw
  BY <1>4, InsertRawIInv
<1>5. CASE LoopDone
  BY <1>5, LoopDoneIInv
<1>6. CASE InsertAllEvents \/ InsertAllRaws \/ CleanUp
  BY <1>6 DEF InsertAllEvents, InsertAllRaws, CleanUp, IInv, Progress
<1>7. ASSUME NEW ids \in SUBSET DOMAIN db.issued, BeginDelete(ids) PROVE IInv'
  BY <1>7, BeginDeleteIInv
<1>8. CASE DeleteEvents
  BY <1>8, DeleteEventsIInv
<1>9. CASE DeleteRaws
  BY <1>9, DeleteRawsIInv
<1>10. CASE Commit
  <2>1. work \in Tables /\ Paired(work) /\ Named(work)
    BY <1>10 DEF Commit, IInv, TypeOK, Progress
  <2>2. QED
    BY <1>10, <2>1, EndWithIInv DEF Commit
<1>11. CASE CommitFails \/ RollBack \/ Crash
  <2>1. db \in Tables /\ Paired(db) /\ Named(db)
    BY DEF IInv, TypeOK
  <2>2. \E answer \in {"none", "ok", "error"} : EndWith(db, answer)
    BY <1>11 DEF CommitFails, RollBack, Crash
  <2>3. QED
    BY <2>1, <2>2, EndWithIInv
<1>12. CASE UNCHANGED vars
  BY <1>12 DEF vars, IInv, TypeOK, Paired, Named, Progress
<1>13. QED
  BY <1>1, <1>2, <1>3, <1>4, <1>5, <1>6, <1>7, <1>8, <1>9, <1>10, <1>11, <1>12
  DEF Next

-----------------------------------------------------------------------------

\* The inductive invariant holds when events are added one at a time.
THEOREM Invariance ==
  ASSUME ~TrueBatch
  PROVE  Spec => []IInv
<1>1. Init => IInv
  BY InitIInv
<1>2. IInv /\ [Next]_vars => IInv'
  BY NextIInv
<1>3. QED
  BY <1>1, <1>2, PTL DEF Spec

\* Type correctness of the repository.
THEOREM TypeCorrect ==
  ASSUME ~TrueBatch
  PROVE  Spec => []TypeOK
<1>1. IInv => TypeOK
  BY DEF IInv
<1>2. QED
  BY <1>1, Invariance, PTL

\* Every committed event has its text and every text its event.
THEOREM TablesAligned ==
  ASSUME ~TrueBatch
  PROVE  Spec => []Aligned
<1>1. IInv => Aligned
  BY DEF IInv, Paired, Aligned
<1>2. QED
  BY <1>1, Invariance, PTL

LEMMA NamesKept ==
  ASSUME db \in Tables, Named(db)
  PROVE  IdNamesItsEvent
<1> SUFFICES ASSUME NEW id \in Visible(db)
             PROVE  /\ id \in DOMAIN db.issued
                    /\ db.issued[id] = [key |-> db.events[id], raw |-> db.raws[id]]
  BY DEF IdNamesItsEvent
<1>1. /\ id \in DOMAIN db.issued
      /\ db.issued[id].key = db.events[id]
      /\ db.issued[id].raw = db.raws[id]
  BY DEF Named, Visible
<1>2. db.issued[id] \in Event
  <2>1. db.issued \in PartialFns(1 .. MaxSeq, Event)
    BY TablesDef
  <2>2. QED
    BY <1>1, <2>1, PartialFnsDef
<1>3. QED
  BY <1>1, <1>2 DEF Event

\* An id names one event for ever.
THEOREM IdsNameTheirEvents ==
  ASSUME ~TrueBatch
  PROVE  Spec => []IdNamesItsEvent
<1>1. IInv => IdNamesItsEvent
  BY NamesKept DEF IInv, TypeOK
<1>2. QED
  BY <1>1, Invariance, PTL

\* addBatchOneByOne never loses a batch to a conflict in EventRaws.
THEOREM RowidsNeverConflict ==
  ASSUME ~TrueBatch
  PROVE  Spec => []NoRowidConflict
<1>1. IInv => NoRowidConflict
  BY DEF IInv, Progress, NoRowidConflict
<1>2. QED
  BY <1>1, Invariance, PTL

-----------------------------------------------------------------------------
(* The tables implement EventIndex.  IInv says the two are in step;        *)
(* Contents adds what the open transaction has made of the committed       *)
(* tables: those tables and the events of the batch before pos, or those   *)
(* tables without the doomed ids.                                          *)

Unique(t) == \A i, j \in DOMAIN t.events : t.events[i] = t.events[j] => i = j

\* Nothing committed is touched.
Extends ==
  /\ DOMAIN db.events \subseteq DOMAIN work.events
  /\ \A id \in DOMAIN db.events : /\ work.events[id] = db.events[id]
                                  /\ work.raws[id] = db.raws[id]

FirstInBatch(i) == \A j \in 1 .. (i - 1) : batch[j].key # batch[i].key

\* The first n events of the batch are stored, and what is new is the first
\* of them with its identity.
Merged(n) ==
  /\ Extends
  /\ \A i \in 1 .. n : batch[i].key \in KeysIn(work)
  /\ \A id \in DOMAIN work.events \ DOMAIN db.events :
       \E i \in 1 .. n : work.issued[id] = batch[i] /\ FirstInBatch(i)

Contents ==
  /\ Unique(db)
  /\ Unique(work)
  /\ phase = "idle" => doomed = {}
  /\ phase \in {"event", "raw"} => doomed = {} /\ batch \in Batches
  /\ phase \in {"delEvents", "delRaws"} => doomed # {}
  /\ phase = "event" => Merged(pos - 1)
  /\ phase = "raw" => Merged(pos) /\ work.seq \notin DOMAIN db.events
  /\ phase = "delEvents" => work = db
  /\ phase = "delRaws" => /\ work.events = Without(db.events, doomed)
                          /\ work.raws = db.raws
  /\ phase = "commit" =>
       \/ doomed = {} /\ batch \in Batches /\ Merged(Len(batch))
       \/ /\ doomed # {}
          /\ work.events = Without(db.events, doomed)
          /\ work.raws = Without(db.raws, doomed)

RInv == IInv /\ Contents

-----------------------------------------------------------------------------

LEMMA InitContents == Init => Contents
BY DEF Init, Contents, Unique, EmptyTables, NoRows

LEMMA EndWithContents ==
  ASSUME NEW t, Unique(t), NEW answer, EndWith(t, answer)
  PROVE  Contents'
BY DEF EndWith, Contents, Unique

LEMMA BeginAddContents ==
  ASSUME RInv, ~TrueBatch, NEW b \in Batches, BeginAdd(b)
  PROVE  Contents'
<1>1. work = db /\ pos = 1
  BY DEF BeginAdd, RInv, IInv, Progress
<1>2. Merged(pos - 1)'
  BY <1>1 DEF BeginAdd, Merged, Extends, FirstInBatch
<1>3. QED
  BY <1>2 DEF BeginAdd, RInv, Contents, Unique


LEMMA SkipDuplicateContents ==
  ASSUME RInv, SkipDuplicate
  PROVE  Contents'
<1>1. pos \in Nat
  BY SqliteEventsAssumption DEF RInv, IInv, TypeOK
<1>2. Merged(pos - 1) /\ batch[pos].key \in KeysIn(work)
  BY DEF SkipDuplicate, RInv, Contents
<1>3. \A i \in 1 .. pos : i = pos \/ i \in 1 .. (pos - 1)
  BY <1>1
<1>4. Merged(pos)
  BY <1>1, <1>2, <1>3 DEF Merged
<1>5. pos' - 1 = pos /\ batch' = batch /\ work' = work /\ db' = db
  BY <1>1 DEF SkipDuplicate
<1>6. Merged(pos - 1)'
  <2>1. 1 .. (pos' - 1) = 1 .. pos
    BY <1>5
  <2>2. Extends'
    BY <1>4, <1>5 DEF Merged, Extends
  <2>3. \A i \in 1 .. (pos' - 1) : batch'[i].key \in KeysIn(work')
    BY <1>4, <1>5, <2>1 DEF Merged
  <2>4. \A i : FirstInBatch(i)' <=> FirstInBatch(i)
    BY <1>5 DEF FirstInBatch
  <2>5. \A id \in DOMAIN work'.events \ DOMAIN db'.events :
          \E i \in 1 .. (pos' - 1) : work'.issued[id] = batch'[i] /\ FirstInBatch(i)'
    BY <1>4, <1>5, <2>1, <2>4 DEF Merged
  <2>6. QED
    BY <2>2, <2>3, <2>5 DEF Merged
<1>7. QED
  BY <1>6 DEF SkipDuplicate, RInv, Contents, Unique

LEMMA InsertEventContents ==
  ASSUME RInv, InsertEvent
  PROVE  Contents'
<1> DEFINE new == work.seq + 1
<1>1. pos \in Nat /\ work.seq \in Nat
  BY SqliteEventsAssumption DEF RInv, IInv, TypeOK, Tables
<1>2. new \notin DOMAIN work.events /\ new \notin DOMAIN work.issued
  BY <1>1 DEF RInv, IInv, Named
<1>3. /\ work'.events = Put(work.events, new, batch[pos].key)
      /\ work'.issued = Put(work.issued, new, batch[pos])
      /\ work'.raws = work.raws
  BY <1>2 DEF InsertEvent, Note, RInv, IInv, TypeOK, Tables
<1>4. Merged(pos - 1) /\ batch[pos].key \notin KeysIn(work)
  BY DEF InsertEvent, RInv, Contents
<1>5. Unique(work)'
  BY <1>2, <1>3, <1>4 DEF Unique, Put, KeysIn, RInv, Contents
<1>6. Extends'
  BY <1>2, <1>3, <1>4 DEF Merged, Extends, Put, InsertEvent
<1>7. DOMAIN work'.events = DOMAIN work.events \cup {new}
  BY <1>3 DEF Put
<1>8. ASSUME NEW i \in 1 .. pos PROVE batch[i].key \in KeysIn(work')
  <2>1. CASE i = pos
    BY <1>3, <2>1 DEF KeysIn, Put
  <2>2. CASE i \in 1 .. (pos - 1)
    <3>1. PICK id \in DOMAIN work.events : work.events[id] = batch[i].key
      BY <1>4, <2>2 DEF Merged, KeysIn
    <3>2. id \in DOMAIN work'.events /\ work'.events[id] = batch[i].key
      BY <1>2, <1>3, <3>1 DEF Put
    <3>3. QED
      BY <3>2 DEF KeysIn
  <2>3. QED
    BY <1>1, <2>1, <2>2
<1>9. FirstInBatch(pos)
  <2>1. \A j \in 1 .. (pos - 1) : batch[j].key \in KeysIn(work)
    BY <1>4 DEF Merged
  <2>2. QED
    BY <1>4, <2>1 DEF FirstInBatch
<1>10. ASSUME NEW id \in DOMAIN work'.events \ DOMAIN db.events
       PROVE  \E i \in 1 .. pos : work'.issued[id] = batch[i] /\ FirstInBatch(i)
  <2>1. CASE id = new
    <3>1. work'.issued[id] = batch[pos]
      BY <1>3, <2>1 DEF Put
    <3>2. pos \in 1 .. pos
      BY <1>1 DEF RInv, IInv, TypeOK
    <3>3. QED
      BY <1>9, <3>1, <3>2
  <2>2. CASE id # new
    <3>1. id \in DOMAIN work.events
      BY <1>7, <2>2
    <3>2. PICK i \in 1 .. (pos - 1) : work.issued[id] = batch[i] /\ FirstInBatch(i)
      BY <1>4, <3>1 DEF Merged
    <3>3. id \in DOMAIN work.issued
      BY <3>1 DEF RInv, IInv, Named
    <3>4. work'.issued[id] = batch[i]
      BY <1>3, <2>2, <3>2, <3>3 DEF Put
    <3>5. i \in 1 .. pos
      BY <1>1
    <3>6. QED
      BY <3>2, <3>4, <3>5
  <2>3. QED
    BY <2>1, <2>2
<1>11. Merged(pos)'
  BY <1>6, <1>8, <1>10 DEF Merged, FirstInBatch, InsertEvent, KeysIn
<1>12. (work.seq \notin DOMAIN db.events)'
  BY <1>2, <1>4 DEF InsertEvent, Merged, Extends, RInv, IInv, TypeOK, Tables
<1>13. QED
  BY <1>5, <1>11, <1>12 DEF InsertEvent, RInv, Contents, Unique

LEMMA InsertRawContents ==
  ASSUME RInv, InsertRaw
  PROVE  Contents'
<1>1. pos \in Nat
  BY SqliteEventsAssumption DEF RInv, IInv, TypeOK
<1>2. /\ work'.events = work.events
      /\ work'.issued = work.issued
      /\ work'.raws = Put(work.raws, work.seq, batch[pos].raw)
  BY DEF InsertRaw, RInv, IInv, TypeOK, Tables
<1>3. Merged(pos)
  BY DEF InsertRaw, RInv, Contents
<1>4. Merged(pos - 1)'
  <2>1. work.seq \notin DOMAIN db.events
    BY DEF InsertRaw, RInv, Contents
  <2>2. Extends'
    BY <1>2, <1>3, <2>1 DEF InsertRaw, Merged, Extends, Put, RInv, IInv, Paired, Progress
  <2>3. pos' - 1 = pos /\ batch' = batch
    BY <1>1 DEF InsertRaw
  <2>4. 1 .. (pos' - 1) = 1 .. pos
    BY <2>3
  <2>5. \A i \in 1 .. (pos' - 1) : batch'[i].key \in KeysIn(work')
    BY <1>2, <1>3, <2>3, <2>4 DEF Merged, KeysIn
  <2>6. \A i : FirstInBatch(i)' <=> FirstInBatch(i)
    BY <2>3 DEF FirstInBatch
  <2>7. db' = db
    BY DEF InsertRaw
  <2>8. \A id \in DOMAIN work'.events \ DOMAIN db'.events :
          \E i \in 1 .. (pos' - 1) : work'.issued[id] = batch'[i] /\ FirstInBatch(i)'
    BY <1>2, <1>3, <2>3, <2>4, <2>6, <2>7 DEF Merged
  <2>9. QED
    BY <2>2, <2>5, <2>8 DEF Merged
<1>5. QED
  BY <1>2, <1>4 DEF InsertRaw, RInv, Contents, Unique

LEMMA LoopDoneContents ==
  ASSUME RInv, LoopDone
  PROVE  Contents'
<1>1. Len(batch) \in Nat
  BY SqliteEventsAssumption DEF RInv, IInv, TypeOK
<1>2. pos - 1 = Len(batch)
  BY <1>1 DEF LoopDone, RInv, IInv, TypeOK
<1>3. Merged(Len(batch))
  BY <1>2 DEF LoopDone, RInv, Contents
<1>4. Merged(Len(batch))'
  BY <1>3 DEF LoopDone, Merged, Extends, FirstInBatch, KeysIn
<1>5. QED
  BY <1>4 DEF LoopDone, RInv, Contents, Unique

LEMMA DeleteContents ==
  ASSUME RInv,
         \/ \E ids \in SUBSET DOMAIN db.issued : BeginDelete(ids)
         \/ DeleteEvents
         \/ DeleteRaws
  PROVE  Contents'
<1>1. ASSUME NEW ids \in SUBSET DOMAIN db.issued, BeginDelete(ids) PROVE Contents'
  BY <1>1 DEF BeginDelete, RInv, IInv, Progress, Contents, Unique
<1>2. CASE DeleteEvents
  <2>1. /\ work'.events = Without(db.events, doomed)
        /\ work'.raws = db.raws
    BY <1>2 DEF DeleteEvents, RInv, IInv, TypeOK, Tables, Contents
  <2>2. Unique(work)'
    BY <2>1 DEF Unique, Without, RInv, Contents
  <2>3. QED
    BY <1>2, <2>1, <2>2 DEF DeleteEvents, RInv, Contents, Unique
<1>3. CASE DeleteRaws
  <2>1. /\ work'.events = Without(db.events, doomed)
        /\ work'.raws = Without(db.raws, doomed)
    BY <1>3 DEF DeleteRaws, RInv, IInv, TypeOK, Tables, Contents
  <2>2. Unique(work)'
    BY <2>1 DEF Unique, Without, RInv, Contents
  <2>3. QED
    BY <1>3, <2>1, <2>2 DEF DeleteRaws, RInv, Contents, Unique
<1>4. QED
  BY <1>1, <1>2, <1>3

LEMMA NextRInv ==
  ASSUME RInv, ~TrueBatch, [Next]_vars
  PROVE  RInv'
<1>1. IInv'
  BY NextIInv DEF RInv
<1>2. Contents'
  <2>1. ASSUME NEW b \in Batches, BeginAdd(b) PROVE Contents'
    BY <2>1, BeginAddContents
  <2>2. CASE SkipDuplicate
    BY <2>2, SkipDuplicateContents
  <2>3. CASE InsertEvent
    BY <2>3, InsertEventContents
  <2>4. CASE InsertRaw
    BY <2>4, InsertRawContents
  <2>5. CASE LoopDone
    BY <2>5, LoopDoneContents
  <2>6. CASE InsertAllEvents \/ InsertAllRaws \/ CleanUp
    BY <2>6 DEF InsertAllEvents, InsertAllRaws, CleanUp, RInv, IInv, Progress
  <2>7. CASE \/ \E ids \in SUBSET DOMAIN db.issued : BeginDelete(ids)
             \/ DeleteEvents
             \/ DeleteRaws
    BY <2>7, DeleteContents
  <2>8. CASE Commit
    <3>1. Unique(work)
      BY DEF RInv, Contents
    <3>2. QED
      BY <2>8, <3>1, EndWithContents DEF Commit
  <2>9. CASE CommitFails \/ RollBack \/ Crash
    <3>1. Unique(db)
      BY DEF RInv, Contents
    <3>2. \E answer : EndWith(db, answer)
      BY <2>9 DEF CommitFails, RollBack, Crash
    <3>3. QED
      BY <3>1, <3>2, EndWithContents
  <2>10. CASE UNCHANGED vars
    BY <2>10 DEF vars, RInv, Contents, Unique, Merged, Extends, FirstInBatch, KeysIn
  <2>11. QED
    BY <2>1, <2>2, <2>3, <2>4, <2>5, <2>6, <2>7, <2>8, <2>9, <2>10 DEF Next
<1>3. QED
  BY <1>1, <1>2 DEF RInv

LEMMA RInvariance ==
  ASSUME ~TrueBatch
  PROVE  Spec => []RInv
<1>1. Init => RInv
  BY InitIInv, InitContents DEF RInv
<1>2. RInv /\ [Next]_vars => RInv'
  BY NextRInv
<1>3. QED
  BY <1>1, <1>2, PTL DEF Spec

-----------------------------------------------------------------------------

\* Where identities are unique and the tables paired, the index maps each
\* identity to the text stored under its id.
LEMMA IndexLookup ==
  ASSUME NEW t, Unique(t), Paired(t)
  PROVE  /\ DOMAIN IndexOf(t) = KeysIn(t)
         /\ \A id \in DOMAIN t.events : IndexOf(t)[t.events[id]] = t.raws[id]
<1>1. Visible(t) = DOMAIN t.events
  BY DEF Paired, Visible
<1>2. DOMAIN IndexOf(t) = KeysIn(t)
  BY <1>1 DEF IndexOf, KeysIn
<1>3. ASSUME NEW id \in DOMAIN t.events
      PROVE  IndexOf(t)[t.events[id]] = t.raws[id]
  <2>1. IdOf(t, t.events[id]) = id
    BY <1>1 DEF IdOf, Unique
  <2>2. QED
    BY <1>1, <2>1 DEF IndexOf
<1>4. QED
  BY <1>2, <1>3

\* The first event of the batch with its identity gives the index its text.
LEMMA FirstGivesText ==
  ASSUME batch \in Batches, NEW i \in 1 .. Len(batch), FirstInBatch(i)
  PROVE  Index!FirstRaw(batch, batch[i].key) = batch[i].raw
<1>1. batch \in Seq(Event) /\ DOMAIN batch = 1 .. Len(batch) /\ Len(batch) \in Nat
  BY SqliteEventsAssumption
<1> DEFINE IsFirst(n) == /\ batch[n].key = batch[i].key
                         /\ \A j \in DOMAIN batch :
                              batch[j].key = batch[i].key => n <= j
<1>2. i \in DOMAIN batch /\ IsFirst(i)
  BY <1>1 DEF FirstInBatch
<1>3. \A n \in DOMAIN batch : IsFirst(n) => n = i
  BY <1>1, <1>2
<1>4. (CHOOSE n \in DOMAIN batch : IsFirst(n)) = i
  BY <1>2, <1>3
<1>5. QED
  BY <1>4 DEF Index!FirstRaw

\* The commit of a batch merges it into the index.
LEMMA CommitMerges ==
  ASSUME batch \in Batches, Merged(Len(batch)),
         Unique(db), Unique(work), Paired(db), Paired(work), Named(work)
  PROVE  IndexOf(work) = Index!Merge(IndexOf(db), batch)
<1>1. /\ batch \in Batches
      /\ Merged(Len(batch))
      /\ Unique(db) /\ Unique(work)
      /\ Paired(db) /\ Paired(work)
      /\ Named(work)
  OBVIOUS
<1>2. batch \in Seq(Event) /\ DOMAIN batch = 1 .. Len(batch)
  BY <1>1, SqliteEventsAssumption
<1>3. KeysIn(work) = KeysIn(db) \cup Index!KeysOf(batch)
  <2>1. KeysIn(db) \subseteq KeysIn(work)
    BY <1>1 DEF Merged, Extends, KeysIn
  <2>2. Index!KeysOf(batch) \subseteq KeysIn(work)
    BY <1>1, <1>2 DEF Merged, Index!KeysOf
  <2>3. ASSUME NEW id \in DOMAIN work.events
        PROVE  work.events[id] \in KeysIn(db) \cup Index!KeysOf(batch)
    <3>1. CASE id \in DOMAIN db.events
      BY <1>1, <3>1 DEF Merged, Extends, KeysIn
    <3>2. CASE id \notin DOMAIN db.events
      BY <1>1, <1>2, <3>2 DEF Merged, Named, Index!KeysOf
    <3>3. QED
      BY <3>1, <3>2
  <2>4. QED
    BY <2>1, <2>2, <2>3 DEF KeysIn
<1> DEFINE merged == Index!Merge(IndexOf(db), batch)
<1>4. DOMAIN IndexOf(work) = DOMAIN merged
  BY <1>1, <1>3, IndexLookup DEF Index!Merge
<1>5. ASSUME NEW id \in DOMAIN work.events
      PROVE  IndexOf(work)[work.events[id]] = merged[work.events[id]]
  <2>1. IndexOf(work)[work.events[id]] = work.raws[id]
    BY <1>1, IndexLookup
  <2>2. work.events[id] \in KeysIn(db) \cup Index!KeysOf(batch)
    BY <1>3 DEF KeysIn
  <2>3. CASE id \in DOMAIN db.events
    <3>1. work.events[id] = db.events[id] /\ work.raws[id] = db.raws[id]
      BY <1>1, <2>3 DEF Merged, Extends
    <3>2. db.events[id] \in DOMAIN IndexOf(db)
      BY <1>1, <2>3, IndexLookup DEF KeysIn
    <3>3. IndexOf(db)[db.events[id]] = db.raws[id]
      BY <1>1, <2>3, IndexLookup
    <3>4. QED
      BY <2>1, <3>1, <3>2, <3>3 DEF Index!Merge
  <2>4. CASE id \notin DOMAIN db.events
    <3>1. work.events[id] \notin KeysIn(db)
      BY <1>1, <2>4 DEF Merged, Extends, Unique, KeysIn
    <3>2. PICK i \in 1 .. Len(batch) : work.issued[id] = batch[i] /\ FirstInBatch(i)
      BY <1>1, <2>4 DEF Merged
    <3>3. work.events[id] = batch[i].key /\ work.raws[id] = batch[i].raw
      BY <1>1, <3>2 DEF Named, Paired
    <3>4. Index!FirstRaw(batch, work.events[id]) = work.raws[id]
      BY <1>1, <3>2, <3>3, FirstGivesText
    <3>5. work.events[id] \notin DOMAIN IndexOf(db)
      BY <1>1, <3>1, IndexLookup
    <3>6. work.events[id] \in DOMAIN IndexOf(db) \cup Index!KeysOf(batch)
      BY <2>2, <3>1
    <3>7. QED
      BY <2>1, <3>4, <3>5, <3>6 DEF Index!Merge
  <2>5. QED
    BY <2>3, <2>4
<1>6. ASSUME NEW k \in DOMAIN IndexOf(work) PROVE IndexOf(work)[k] = merged[k]
  <2>1. k \in KeysIn(work)
    BY <1>1, IndexLookup
  <2>2. PICK id \in DOMAIN work.events : work.events[id] = k
    BY <2>1 DEF KeysIn
  <2>3. QED
    BY <1>5, <2>2
<1>7. QED
  BY <1>4, <1>6 DEF IndexOf, Index!Merge

\* The commit of a delete takes the identities of the doomed ids out of it.
LEMMA CommitDeletes ==
  ASSUME work.events = Without(db.events, doomed), work.raws = Without(db.raws, doomed),
         Unique(db), Unique(work), Paired(db), Paired(work)
  PROVE  \E K \in SUBSET DOMAIN IndexOf(db) :
           IndexOf(work) = Index!Without(IndexOf(db), K)
<1>1. /\ work.events = Without(db.events, doomed)
      /\ work.raws = Without(db.raws, doomed)
      /\ Unique(db) /\ Unique(work)
      /\ Paired(db) /\ Paired(work)
  OBVIOUS
<1> DEFINE K == { db.events[id] : id \in DOMAIN db.events \cap doomed }
<1>2. K \in SUBSET DOMAIN IndexOf(db)
  <2>1. DOMAIN IndexOf(db) = KeysIn(db)
    BY <1>1, IndexLookup
  <2>2. K \subseteq KeysIn(db)
    BY DEF KeysIn
  <2>3. QED
    BY <2>1, <2>2
<1>3. DOMAIN work.events = DOMAIN db.events \ doomed
  BY <1>1 DEF Without
<1>4. \A id \in DOMAIN work.events : /\ work.events[id] = db.events[id]
                                     /\ work.raws[id] = db.raws[id]
  BY <1>1, <1>3 DEF Without, Paired
<1>5. KeysIn(work) = KeysIn(db) \ K
  BY <1>1, <1>3, <1>4 DEF KeysIn, Unique
<1> DEFINE left == Index!Without(IndexOf(db), K)
<1>6. DOMAIN IndexOf(work) = DOMAIN left
  BY <1>1, <1>5, IndexLookup DEF Index!Without
<1>7. ASSUME NEW k \in DOMAIN IndexOf(work) PROVE IndexOf(work)[k] = left[k]
  <2>1. k \in KeysIn(work)
    BY <1>1, IndexLookup
  <2>2. PICK id \in DOMAIN work.events : work.events[id] = k
    BY <2>1 DEF KeysIn
  <2>3. IndexOf(work)[k] = work.raws[id]
    BY <1>1, <2>2, IndexLookup
  <2>4. id \in DOMAIN db.events /\ db.events[id] = k /\ work.raws[id] = db.raws[id]
    BY <1>3, <1>4, <2>2
  <2>5. IndexOf(db)[k] = db.raws[id]
    BY <1>1, <2>4, IndexLookup
  <2>6. left[k] = IndexOf(db)[k]
    BY <1>6 DEF Index!Without
  <2>7. QED
    BY <2>3, <2>4, <2>5, <2>6
<1>8. IndexOf(work) = left
  BY <1>6, <1>7 DEF IndexOf, Index!Without
<1>9. QED
  BY <1>2, <1>8

-----------------------------------------------------------------------------

\* The tables implement the index: nothing but a commit changes it, and a
\* commit adds the batch or deletes the doomed events as a whole.
THEOREM Refinement ==
  ASSUME ~TrueBatch
  PROVE  Spec => ImplementsIndex
<1>1. Init => Index!Init
  BY DEF Init, Index!Init, EmptyTables, NoRows, IndexOf, Visible
<1>2. ASSUME RInv, [Next]_vars
      PROVE  [Index!Next]_(IndexOf(db))
  <2>1. CASE Commit /\ doomed = {}
    <3>1. /\ batch \in Batches /\ Merged(Len(batch))
          /\ Unique(db) /\ Unique(work) /\ Paired(db) /\ Paired(work) /\ Named(work)
      BY <1>2, <2>1 DEF Commit, RInv, IInv, Contents, Progress
    <3>2. IndexOf(work) = Index!Merge(IndexOf(db), batch)
      BY <3>1, CommitMerges
    <3>3. IndexOf(db)' = IndexOf(work)
      BY <2>1 DEF Commit, EndWith, IndexOf, IdOf, Visible
    <3>4. QED
      BY <3>1, <3>2, <3>3 DEF Index!AddBatch, Index!Next
  <2>2. CASE Commit /\ doomed # {}
    <3>1. /\ work.events = Without(db.events, doomed) /\ work.raws = Without(db.raws, doomed)
          /\ Unique(db) /\ Unique(work) /\ Paired(db) /\ Paired(work)
      BY <1>2, <2>2 DEF Commit, RInv, IInv, Contents, Progress
    <3>2. PICK K \in SUBSET DOMAIN IndexOf(db) :
            IndexOf(work) = Index!Without(IndexOf(db), K)
      BY <3>1, CommitDeletes
    <3>3. IndexOf(db)' = IndexOf(work)
      BY <2>2 DEF Commit, EndWith, IndexOf, IdOf, Visible
    <3>4. QED
      BY <3>2, <3>3 DEF Index!DeleteBatch, Index!Next
  <2>3. CASE ~Commit
    <3>1. db' = db
      BY <1>2, <2>3
      DEF Next, vars, BeginAdd, SkipDuplicate, InsertEvent, InsertRaw, LoopDone,
          InsertAllEvents, InsertAllRaws, CleanUp, BeginDelete, DeleteEvents,
          DeleteRaws, CommitFails, RollBack, Crash, EndWith
    <3>2. QED
      BY <3>1 DEF IndexOf, IdOf, Visible
  <2>4. QED
    BY <2>1, <2>2, <2>3
<1>3. QED
  BY <1>1, <1>2, RInvariance, PTL DEF Spec, ImplementsIndex, Index!Spec

\* When AddBatch returns nil, the whole batch can be read, as long as COMMIT
\* does not fail.
THEOREM AckSound ==
  ASSUME ~TrueBatch, ~SwallowedErrors
  PROVE  Spec => AckMeansIndexed
<1>1. ASSUME RInv, Next, phase = "commit", doomed = {}, reply' = "ok"
      PROVE  \A i \in DOMAIN batch :
               \E id \in Visible(db') : db'.events[id] = batch[i].key
  <2>1. db' = work
    BY <1>1
    DEF Next, BeginAdd, SkipDuplicate, InsertEvent, InsertRaw, LoopDone,
        InsertAllEvents, InsertAllRaws, CleanUp, BeginDelete, DeleteEvents,
        DeleteRaws, Commit, CommitFails, RollBack, Crash, EndWith
  <2>2. batch \in Seq(Event) /\ Paired(work) /\ Merged(Len(batch))
    BY <1>1, SqliteEventsAssumption DEF RInv, IInv, Progress, Contents
  <2>3. \A i \in DOMAIN batch : batch[i].key \in KeysIn(work)
    BY <2>2 DEF Merged
  <2>4. QED
    BY <2>1, <2>2, <2>3 DEF KeysIn, Visible, Paired
<1>2. RInv /\ [Next]_vars =>
        [ phase = "commit" /\ doomed = {} /\ reply' = "ok"
            => \A i \in DOMAIN batch :
                 \E id \in Visible(db') : db'.events[id] = batch[i].key ]_vars
  BY <1>1
<1>3. QED
  BY <1>2, RInvariance, PTL DEF Spec, AckMeansIndexed

-----------------------------------------------------------------------------
(* All events of a batch in one statement (TrueBatch), for the calls of    *)
(* TameNext.  BInv says of every statement what the transaction has made   *)
(* of the committed tables.  That the texts get the ids of their events    *)
(* rests on Level: the counter of Events is the highest rowid of EventRaws.*)

Level(t) == IF t.seq = 0 THEN DOMAIN t.raws = {} ELSE t.seq \in DOMAIN t.raws

\* The rows of the batch that the index has to get.
FirstNew(i) == i \in DOMAIN batch /\ batch[i].key \notin KeysIn(db) /\ FirstInBatch(i)

NewIds == { db.seq + i : i \in { j \in DOMAIN batch : FirstNew(j) } }

\* What INSERT OR IGNORE of the whole batch has done.
EventsAdded ==
  /\ work.seq = db.seq + Len(batch)
  /\ DOMAIN work.events = DOMAIN db.events \cup NewIds
  /\ DOMAIN work.issued = DOMAIN db.issued \cup NewIds
  /\ \A id \in DOMAIN db.events : work.events[id] = db.events[id]
  /\ \A id \in DOMAIN db.issued : work.issued[id] = db.issued[id]
  /\ \A i \in DOMAIN batch : FirstNew(i) => /\ work.events[db.seq + i] = batch[i].key
                                            /\ work.issued[db.seq + i] = batch[i]

\* What the INSERT of all the texts has done.
RawsAdded ==
  /\ DOMAIN work.raws = DOMAIN db.raws \cup (db.seq + 1) .. (db.seq + Len(batch))
  /\ \A id \in DOMAIN db.raws : work.raws[id] = db.raws[id]
  /\ \A i \in DOMAIN batch : work.raws[db.seq + i] = batch[i].raw

\* The tables an addition or a deletion is about to commit.
Added ==
  /\ batch \in Batches
  /\ Merged(Len(batch))

Deleted ==
  /\ work.events = Without(db.events, doomed)
  /\ work.raws = Without(db.raws, doomed)

BatchProgress ==
  /\ phase \notin {"event", "raw"}
  /\ phase \in {"idle", "allEvents", "delEvents"} => work = db
  /\ phase \in {"idle", "allEvents", "allRaws", "cleanUp"} => doomed = {}
  /\ phase \in {"allEvents", "allRaws", "cleanUp"} =>
       /\ batch \in Batches
       /\ LastIsNew(batch)
       /\ db.seq + Len(batch) <= MaxSeq
  /\ phase = "allRaws" => EventsAdded /\ work.raws = db.raws
  /\ phase = "cleanUp" => EventsAdded /\ RawsAdded
  /\ phase \in {"delEvents", "delRaws"} => doomed # {} /\ db.seq \notin doomed
  /\ phase = "delRaws" => /\ work.events = Without(db.events, doomed)
                          /\ work.raws = db.raws
                          /\ work.seq = db.seq /\ work.issued = db.issued
  /\ phase = "commit" => /\ Paired(work) /\ Named(work) /\ Level(work)
                         /\ IF doomed = {} THEN Added ELSE Deleted

BInv ==
  /\ TypeOK
  /\ pos = 1
  /\ Paired(db) /\ Named(db) /\ Unique(db) /\ Level(db)
  /\ Unique(work)
  /\ BatchProgress

\* A set of numbers that is not empty has a least one.
LEMMA LeastNumber ==
  ASSUME NEW S \in SUBSET Nat, S # {}
  PROVE  \E n \in S : \A m \in S : n <= m
<1>1. PICK R : IsWellFoundedOn(R, Nat) /\ \A m, n \in Nat : m < n => << m, n >> \in R
  <2>1. \A m, n \in Nat : m < n => << m, n >> \in OpToRel(<, Nat)
    BY DEF OpToRel
  <2>2. QED
    BY <2>1, NatLessThanWellFounded
<1>2. PICK n \in S : \A m \in S : ~ (<< m, n >> \in R)
  <2>1. IsWellFoundedOn(R, Nat) /\ S \subseteq Nat
    BY <1>1
  <2>2. QED
    BY <2>1, WFMin, Zenon
<1>3. ASSUME NEW m \in S PROVE n <= m
  <2>1. n \in Nat /\ m \in Nat
    OBVIOUS
  <2>2. ~ (m < n)
    BY <1>1, <1>2, <2>1, Zenon
  <2>3. QED
    BY <2>1, <2>2
<1>4. QED
  BY <1>3

\* Every identity of a batch has a first event.
LEMMA FirstWithIdentity ==
  ASSUME batch \in Batches, NEW i \in DOMAIN batch
  PROVE  \E j \in DOMAIN batch : batch[j].key = batch[i].key /\ FirstInBatch(j)
<1> DEFINE S == { j \in DOMAIN batch : batch[j].key = batch[i].key }
<1>1. DOMAIN batch = 1 .. Len(batch) /\ Len(batch) \in Nat
  BY SqliteEventsAssumption
<1>2. S \in SUBSET Nat /\ S # {}
  BY <1>1
<1>3. PICK n \in S : \A m \in S : n <= m
  <2> HIDE DEF S
  <2>1. QED
    BY <1>2, LeastNumber
<1>4. ASSUME NEW j \in 1 .. (n - 1) PROVE batch[j].key # batch[n].key
  <2>1. j \in DOMAIN batch /\ ~ (n <= j)
    BY <1>1, <1>2, <1>3
  <2>2. QED
    BY <1>3, <2>1
<1>5. QED
  BY <1>3, <1>4 DEF FirstInBatch

\* The highest rowid is the counter of Events.
LEMMA HighestRow ==
  ASSUME NEW t \in Tables, Named(t), Level(t)
  PROVE  MaxRow(t.raws) = t.seq
<1>1. t.seq \in Nat
  BY SqliteEventsAssumption DEF Tables
<1>2. DOMAIN t.raws \subseteq 1 .. MaxSeq /\ \A r \in DOMAIN t.raws : r <= t.seq
  BY TablesDef, PartialFnsDef DEF Named
<1>3. CASE t.seq = 0
  BY <1>3 DEF Level, MaxRow
<1>4. CASE t.seq # 0
  <2>1. t.seq \in DOMAIN t.raws
    BY <1>4 DEF Level
  <2>2. \A i \in DOMAIN t.raws : (\A j \in DOMAIN t.raws : j <= i) => i = t.seq
    BY <1>1, <1>2, <2>1, SqliteEventsAssumption
  <2>3. QED
    BY <1>2, <2>1, <2>2 DEF MaxRow
<1>5. QED
  BY <1>3, <1>4

\* What the names in BInv say of the numbers in it.
LEMMA BatchNumbers ==
  ASSUME BInv
  PROVE  /\ db \in Tables /\ work \in Tables
         /\ db.seq \in Nat /\ work.seq \in Nat /\ MaxSeq \in Nat
         /\ DOMAIN db.events \subseteq 1 .. MaxSeq
         /\ DOMAIN db.issued \subseteq 1 .. MaxSeq
         /\ \A id \in DOMAIN db.issued : id <= db.seq
         /\ \A id \in DOMAIN db.raws : id <= db.seq
         /\ \A id \in DOMAIN db.events : id <= db.seq
         /\ MaxRow(db.raws) = db.seq
<1>1. db \in Tables /\ work \in Tables /\ Named(db) /\ Level(db)
  BY DEF BInv, TypeOK
<1>2. MaxRow(db.raws) = db.seq
  BY <1>1, HighestRow
<1>3. /\ DOMAIN db.events \subseteq 1 .. MaxSeq
      /\ DOMAIN db.issued \subseteq 1 .. MaxSeq
  BY <1>1, TablesDef, PartialFnsDef
<1>4. db.seq \in Nat /\ work.seq \in Nat /\ MaxSeq \in Nat
  BY <1>1, SqliteEventsAssumption DEF Tables
<1>5. QED
  BY <1>1, <1>2, <1>3, <1>4 DEF Named

-----------------------------------------------------------------------------

LEMMA InitBInv == Init => BInv
<1> SUFFICES ASSUME Init PROVE BInv
  OBVIOUS
<1>1. TypeOK
  BY InitTypes
<1>2. Paired(EmptyTables) /\ Named(EmptyTables) /\ Unique(EmptyTables) /\ Level(EmptyTables)
  BY DEF Paired, Named, Unique, Level, EmptyTables, NoRows
<1>3. BatchProgress
  BY DEF Init, BatchProgress
<1>4. QED
  BY <1>1, <1>2, <1>3 DEF Init, BInv

LEMMA EndWithBInv ==
  ASSUME NEW t \in Tables, Paired(t), Named(t), Unique(t), Level(t),
         NEW answer \in {"none", "ok", "error"}, EndWith(t, answer)
  PROVE  BInv'
<1>1. TypeOK'
  BY DEF EndWith, TypeOK, Phases
<1>2. Paired(db)' /\ Named(db)' /\ Unique(db)' /\ Level(db)' /\ Unique(work)'
  BY DEF EndWith, Paired, Named, Unique, Level
<1>3. BatchProgress'
  BY DEF EndWith, BatchProgress
<1>4. QED
  BY <1>1, <1>2, <1>3 DEF BInv, EndWith

\* A step of the open transaction leaves what is said of the committed tables.
LEMMA CommittedKept ==
  ASSUME BInv, UNCHANGED db
  PROVE  Paired(db)' /\ Named(db)' /\ Unique(db)' /\ Level(db)'
BY DEF BInv, Paired, Named, Unique, Level

LEMMA BeginBatchBInv ==
  ASSUME BInv, TrueBatch, NEW b \in Batches, LastIsNew(b), BeginAdd(b)
  PROVE  BInv'
<1>1. phase' = "allEvents" /\ UNCHANGED << db, work, pos, doomed >> /\ batch' = b /\ reply' = "none"
      /\ phase = "idle" /\ db.seq + Len(b) <= MaxSeq
  BY DEF BeginAdd
<1>2. Len(b) \in Nat
  BY SqliteEventsAssumption
<1>3. TypeOK'
  BY <1>1, <1>2 DEF BInv, TypeOK, Phases
<1>4. LastIsNew(batch)'
  BY <1>1 DEF LastIsNew, KeysIn
<1>5. work = db /\ doomed = {}
  BY <1>1 DEF BInv, BatchProgress
<1>6. BatchProgress'
  BY <1>1, <1>4, <1>5 DEF BatchProgress
<1>7. QED
  BY <1>1, <1>3, <1>6, CommittedKept DEF BInv, Unique

LEMMA InsertAllEventsBInv ==
  ASSUME BInv, InsertAllEvents
  PROVE  BInv'
<1>1. /\ phase = "allEvents" /\ phase' = "allRaws"
      /\ UNCHANGED << db, batch, pos, doomed, reply >>
      /\ work = db /\ batch \in Batches /\ LastIsNew(batch) /\ doomed = {}
      /\ db.seq + Len(batch) <= MaxSeq
  BY DEF InsertAllEvents, BInv, BatchProgress
<1>2. batch \in Seq(Event) /\ DOMAIN batch = 1 .. Len(batch) /\ Len(batch) \in Nat
  BY <1>1, SqliteEventsAssumption
<1>3. { db.seq + i : i \in Kept } = NewIds
  BY <1>1 DEF Kept, NewIds, FirstNew, FirstInBatch
<1>4. /\ db.seq \in Nat /\ MaxSeq \in Nat /\ db \in Tables
      /\ DOMAIN db.events \subseteq 1 .. MaxSeq /\ DOMAIN db.issued \subseteq 1 .. MaxSeq
      /\ \A id \in DOMAIN db.events : id <= db.seq
      /\ \A id \in DOMAIN db.issued : id <= db.seq
  BY BatchNumbers
<1> DEFINE row(id) == batch[id - db.seq]
           events == [ id \in DOMAIN db.events \cup NewIds |->
                         IF id \in NewIds THEN row(id).key ELSE db.events[id] ]
           issued == [ id \in DOMAIN db.issued \cup NewIds |->
                         IF id \in DOMAIN db.issued THEN db.issued[id] ELSE row(id) ]
<1>5. work' = [db EXCEPT !.events = events, !.seq = @ + Len(batch), !.issued = issued]
  <2> DEFINE table(t, ids) ==
               [t EXCEPT !.events = [ id \in DOMAIN @ \cup ids |->
                                        IF id \in ids THEN batch[id - t.seq].key ELSE @[id] ],
                         !.seq = @ + Len(batch),
                         !.issued = [ id \in DOMAIN @ \cup ids |->
                                        IF id \in DOMAIN @ THEN @[id] ELSE batch[id - t.seq] ]]
  <2>1. work' = table(work, { work.seq + i : i \in Kept })
    BY Zenon DEF InsertAllEvents
  <2>2. work' = table(db, NewIds)
    <3> HIDE DEF table
    <3>1. QED
      BY <1>1, <1>3, <2>1
  <2>3. QED
    BY <2>2, Zenon
<1>6. /\ work'.events = events /\ work'.issued = issued /\ work'.raws = db.raws
      /\ work'.seq = db.seq + Len(batch)
  BY <1>4, <1>5 DEF Tables
<1>7. ASSUME NEW id \in NewIds
      PROVE  /\ id \in 1 .. MaxSeq /\ id > db.seq /\ id - db.seq \in DOMAIN batch
             /\ FirstNew(id - db.seq) /\ row(id) \in Event /\ row(id).key \in Key
             /\ id \notin DOMAIN db.events /\ id \notin DOMAIN db.issued
  <2>1. PICK i \in DOMAIN batch : FirstNew(i) /\ id = db.seq + i
    BY DEF NewIds
  <2>2. i \in Nat /\ i >= 1 /\ i <= Len(batch) /\ id - db.seq = i
    BY <1>2, <1>4, <2>1
  <2>3. batch[i] \in Event
    BY <1>2, <2>1
  <2>4. batch[i].key \in Key
    BY <2>3 DEF Event
  <2>5. QED
    BY <1>1, <1>2, <1>4, <2>1, <2>2, <2>3, <2>4
<1>8. work' \in Tables
  <2>1. db.events \in PartialFns(1 .. MaxSeq, Key) /\ db.issued \in PartialFns(1 .. MaxSeq, Event)
    BY <1>4, TablesDef
  <2>2. events \in PartialFns(1 .. MaxSeq, Key)
    <3>1. DOMAIN events \subseteq 1 .. MaxSeq
      BY <1>4, <1>7
    <3>2. \A id \in DOMAIN events : events[id] \in Key
      BY <1>7, <2>1, PartialFnsDef
    <3>3. events = [ id \in DOMAIN events |-> events[id] ]
      OBVIOUS
    <3> HIDE DEF events
    <3>4. QED
      BY <3>1, <3>2, <3>3, PartialFnsDef
  <2>3. issued \in PartialFns(1 .. MaxSeq, Event)
    <3>1. DOMAIN issued \subseteq 1 .. MaxSeq
      BY <1>4, <1>7
    <3>2. \A id \in DOMAIN issued : issued[id] \in Event
      BY <1>7, <2>1, PartialFnsDef
    <3>3. issued = [ id \in DOMAIN issued |-> issued[id] ]
      OBVIOUS
    <3> HIDE DEF issued
    <3>4. QED
      BY <3>1, <3>2, <3>3, PartialFnsDef
  <2>4. db.seq + Len(batch) \in 0 .. MaxSeq
    BY <1>1, <1>2, <1>4
  <2> HIDE DEF events, issued
  <2>5. QED
    BY <1>4, <1>5, <2>2, <2>3, <2>4, TablesDef
<1>9. TypeOK'
  BY <1>1, <1>8 DEF BInv, TypeOK, Phases
<1>10. EventsAdded'
  <2>1. \A i \in DOMAIN batch : FirstNew(i) => /\ db.seq + i \in NewIds
                                               /\ events[db.seq + i] = batch[i].key
                                               /\ issued[db.seq + i] = batch[i]
    <3> SUFFICES ASSUME NEW i \in DOMAIN batch, FirstNew(i)
                 PROVE  /\ db.seq + i \in NewIds
                        /\ events[db.seq + i] = batch[i].key
                        /\ issued[db.seq + i] = batch[i]
      OBVIOUS
    <3>1. db.seq + i \in NewIds
      BY DEF NewIds
    <3>2. (db.seq + i) - db.seq = i
      BY <1>2, <1>4
    <3>3. db.seq + i \notin DOMAIN db.issued
      BY <1>7, <3>1
    <3> HIDE DEF NewIds
    <3>4. QED
      BY <3>1, <3>2, <3>3
  <2>2. \A id \in DOMAIN db.events : id \notin NewIds
    BY <1>7
  <2>3. \A i \in DOMAIN batch : FirstNew(i)' <=> FirstNew(i)
    BY <1>1 DEF FirstNew, FirstInBatch, KeysIn
  <2>4. NewIds' = NewIds
    BY <1>1, <2>3 DEF NewIds
  <2>5. \A id \in DOMAIN db.events : events[id] = db.events[id]
    BY <2>2
  <2>6. \A id \in DOMAIN db.issued : issued[id] = db.issued[id]
    OBVIOUS
  <2>7. DOMAIN events = DOMAIN db.events \cup NewIds /\ DOMAIN issued = DOMAIN db.issued \cup NewIds
    OBVIOUS
  <2> HIDE DEF events, issued
  <2>8. QED
    BY <1>1, <1>6, <2>1, <2>3, <2>4, <2>5, <2>6, <2>7 DEF EventsAdded
<1>11. LastIsNew(batch)'
  BY <1>1 DEF LastIsNew, KeysIn
<1>12. BatchProgress'
  BY <1>1, <1>6, <1>10, <1>11 DEF BatchProgress
<1>13. Unique(work)'
  <2> SUFFICES ASSUME NEW i \in DOMAIN events, NEW j \in DOMAIN events, events[i] = events[j]
               PROVE  i = j
    <3> HIDE DEF events
    <3>1. QED
      BY <1>6 DEF Unique
  <2>1. ASSUME NEW k \in DOMAIN events
        PROVE  \/ k \in DOMAIN db.events /\ k \notin NewIds /\ events[k] = db.events[k]
               \/ k \in NewIds /\ events[k] = batch[k - db.seq].key /\ events[k] \notin KeysIn(db)
    BY <1>7 DEF FirstNew
  <2>2. CASE i \notin NewIds /\ j \notin NewIds
    BY <2>1, <2>2 DEF BInv, Unique
  <2>3. CASE i \in NewIds /\ j \notin NewIds
    BY <2>1, <2>3 DEF KeysIn
  <2>4. CASE i \notin NewIds /\ j \in NewIds
    BY <2>1, <2>4 DEF KeysIn
  <2>5. CASE i \in NewIds /\ j \in NewIds
    <3>1. /\ i - db.seq \in DOMAIN batch /\ FirstInBatch(i - db.seq)
          /\ j - db.seq \in DOMAIN batch /\ FirstInBatch(j - db.seq)
          /\ i \in Nat /\ j \in Nat
      BY <1>7, <2>5 DEF FirstNew
    <3>2. batch[i - db.seq].key = batch[j - db.seq].key
      BY <2>1, <2>5, <1>7
    <3>3. ~ (i - db.seq \in 1 .. ((j - db.seq) - 1)) /\ ~ (j - db.seq \in 1 .. ((i - db.seq) - 1))
      BY <3>1, <3>2 DEF FirstInBatch
    <3>4. QED
      BY <1>2, <1>4, <3>1, <3>3
  <2>6. QED
    BY <2>2, <2>3, <2>4, <2>5
<1>14. QED
  BY <1>1, <1>9, <1>12, <1>13, CommittedKept DEF BInv

LEMMA InsertAllRawsBInv ==
  ASSUME BInv, InsertAllRaws
  PROVE  BInv'
<1>1. /\ phase = "allRaws" /\ phase' = "cleanUp"
      /\ UNCHANGED << db, batch, pos, doomed, reply >>
      /\ EventsAdded /\ work.raws = db.raws
      /\ batch \in Batches /\ LastIsNew(batch) /\ doomed = {}
      /\ db.seq + Len(batch) <= MaxSeq
  BY DEF InsertAllRaws, BInv, BatchProgress
<1>2. batch \in Seq(Event) /\ DOMAIN batch = 1 .. Len(batch) /\ Len(batch) \in Nat
  BY <1>1, SqliteEventsAssumption
<1>3. /\ db.seq \in Nat /\ MaxSeq \in Nat /\ db \in Tables /\ work \in Tables
      /\ \A id \in DOMAIN db.raws : id <= db.seq
      /\ MaxRow(db.raws) = db.seq
  BY BatchNumbers
<1> DEFINE new == (db.seq + 1) .. (db.seq + Len(batch))
           raws == [ r \in DOMAIN db.raws \cup new |->
                       IF r > db.seq THEN batch[r - db.seq].raw ELSE db.raws[r] ]
<1>4. work' = [work EXCEPT !.raws = raws]
  BY <1>1, <1>3 DEF InsertAllRaws
<1>5. /\ work'.raws = raws /\ work'.events = work.events /\ work'.issued = work.issued
      /\ work'.seq = work.seq
  BY <1>3, <1>4 DEF Tables
<1>6. db.raws \in PartialFns(1 .. MaxSeq, Raw)
  BY <1>3, TablesDef
<1>7. ASSUME NEW r \in new
      PROVE  /\ r \in 1 .. MaxSeq /\ r > db.seq /\ r - db.seq \in DOMAIN batch
             /\ batch[r - db.seq].raw \in Raw
  <2>1. r \in 1 .. MaxSeq /\ r > db.seq /\ r - db.seq \in 1 .. Len(batch)
    BY <1>1, <1>2, <1>3
  <2>2. batch[r - db.seq] \in Event
    BY <1>2, <2>1
  <2>3. QED
    BY <1>2, <2>1, <2>2 DEF Event
<1>8. ASSUME NEW r \in DOMAIN db.raws PROVE ~ (r > db.seq) /\ r \in 1 .. MaxSeq /\ db.raws[r] \in Raw
  <2>1. r <= db.seq /\ r \in 1 .. MaxSeq /\ db.raws[r] \in Raw
    BY <1>3, <1>6, PartialFnsDef
  <2>2. QED
    BY <1>3, <2>1
<1>9. work' \in Tables
  <2>1. raws \in PartialFns(1 .. MaxSeq, Raw)
    <3>1. DOMAIN raws \subseteq 1 .. MaxSeq
      <4> HIDE DEF new
      <4>1. QED
        BY <1>7, <1>8
    <3>2. \A r \in DOMAIN raws : raws[r] \in Raw
      <4> HIDE DEF new
      <4>1. QED
        BY <1>7, <1>8
    <3>3. QED
      BY <3>1, <3>2, PartialFnsDef
  <2> HIDE DEF raws
  <2>2. QED
    BY <1>3, <1>4, <2>1, TablesDef
<1>10. TypeOK'
  BY <1>1, <1>9 DEF BInv, TypeOK, Phases
<1>11. RawsAdded'
  <2>1. \A i \in DOMAIN batch : db.seq + i \in new /\ (db.seq + i) - db.seq = i /\ db.seq + i > db.seq
    BY <1>2, <1>3
  <2>2. \A i \in DOMAIN batch : raws[db.seq + i] = batch[i].raw
    <3> HIDE DEF new
    <3>1. QED
      BY <2>1
  <2>3. \A id \in DOMAIN db.raws : raws[id] = db.raws[id]
    <3> HIDE DEF new
    <3>1. QED
      BY <1>8
  <2>4. DOMAIN raws = DOMAIN db.raws \cup new
    OBVIOUS
  <2> HIDE DEF raws
  <2>5. QED
    BY <1>1, <1>5, <2>2, <2>3, <2>4 DEF RawsAdded
<1>12. EventsAdded' /\ LastIsNew(batch)'
  <2>1. \A i \in DOMAIN batch : FirstNew(i)' <=> FirstNew(i)
    BY <1>1 DEF FirstNew, FirstInBatch, KeysIn
  <2>2. NewIds' = NewIds
    BY <1>1, <2>1 DEF NewIds
  <2>3. EventsAdded'
    BY <1>1, <1>5, <2>1, <2>2 DEF EventsAdded
  <2>4. QED
    BY <1>1, <2>3 DEF LastIsNew, KeysIn
<1>13. BatchProgress'
  BY <1>1, <1>11, <1>12 DEF BatchProgress
<1>14. Unique(work)'
  BY <1>5 DEF BInv, Unique
<1>15. QED
  BY <1>1, <1>10, <1>13, <1>14, CommittedKept DEF BInv

\* The clean-up leaves the tables paired, with the whole batch merged.
LEMMA CleanUpBInv ==
  ASSUME BInv, ~SwallowedErrors, CleanUp
  PROVE  BInv'
<1>1. /\ phase = "cleanUp" /\ phase' = "commit"
      /\ UNCHANGED << db, batch, pos, doomed, reply >>
      /\ EventsAdded /\ RawsAdded
      /\ batch \in Batches /\ LastIsNew(batch) /\ doomed = {}
      /\ work' = [work EXCEPT !.raws = Without(@, Orphans)]
  BY DEF CleanUp, BInv, BatchProgress
<1>2. batch \in Seq(Event) /\ DOMAIN batch = 1 .. Len(batch) /\ Len(batch) \in Nat
  BY <1>1, SqliteEventsAssumption
<1>3. /\ db.seq \in Nat /\ MaxSeq \in Nat /\ db \in Tables /\ work \in Tables
      /\ DOMAIN db.events \subseteq 1 .. MaxSeq /\ DOMAIN db.issued \subseteq 1 .. MaxSeq
      /\ \A id \in DOMAIN db.raws : id <= db.seq
      /\ \A id \in DOMAIN db.issued : id <= db.seq
      /\ \A id \in DOMAIN db.events : id <= db.seq
      /\ MaxRow(db.raws) = db.seq
  BY BatchNumbers
<1>4. /\ work'.raws = Without(work.raws, Orphans) /\ work'.events = work.events
      /\ work'.issued = work.issued /\ work'.seq = work.seq
  BY <1>1, <1>3 DEF Tables
<1>5. TypeOK'
  <2>1. work.raws \in PartialFns(1 .. MaxSeq, Raw)
    BY <1>3, TablesDef
  <2>2. Without(work.raws, Orphans) \in PartialFns(1 .. MaxSeq, Raw)
    BY <2>1, WithoutType
  <2>3. work' \in Tables
    BY <1>1, <1>3, <2>2, TablesDef
  <2>4. QED
    BY <1>1, <2>3 DEF BInv, TypeOK, Phases
<1>6. /\ Paired(db) /\ Named(db)
      /\ DOMAIN db.events \subseteq DOMAIN db.issued
  BY DEF BInv, Named
<1>7. NewIds \subseteq (db.seq + 1) .. (db.seq + Len(batch))
  BY <1>2, <1>3 DEF NewIds
<1>8. Orphans = { r \in DOMAIN work.raws : r > db.seq /\ r \notin DOMAIN work.events }
  BY <1>3 DEF Orphans
<1>9. DOMAIN work.events \subseteq DOMAIN work.raws
  BY <1>1, <1>6, <1>7 DEF EventsAdded, RawsAdded, Paired
<1>10. ASSUME NEW r \in DOMAIN work.raws, ~ (r > db.seq) PROVE r \in DOMAIN work.events
  <2>1. r \notin (db.seq + 1) .. (db.seq + Len(batch))
    BY <1>2, <1>3, <1>10
  <2>2. r \in DOMAIN db.raws
    BY <1>1, <2>1 DEF RawsAdded
  <2>3. QED
    BY <1>1, <1>6, <2>2 DEF EventsAdded, Paired
<1>11. DOMAIN work'.raws = DOMAIN work.events
  BY <1>4, <1>8, <1>9, <1>10 DEF Without
<1>12. \A r \in DOMAIN work'.raws : work'.raws[r] = work.raws[r]
  BY <1>4 DEF Without
<1>13. Paired(work)'
  BY <1>4, <1>11 DEF Paired
<1>14. ASSUME NEW id \in NewIds
       PROVE  \E i \in DOMAIN batch :
                /\ FirstNew(i) /\ id = db.seq + i
                /\ work.events[id] = batch[i].key /\ work.issued[id] = batch[i]
                /\ work.raws[id] = batch[i].raw
                /\ id \notin DOMAIN db.events /\ id \notin DOMAIN db.issued
  <2>1. PICK i \in DOMAIN batch : FirstNew(i) /\ id = db.seq + i
    BY DEF NewIds
  <2>2. id > db.seq
    BY <1>2, <1>3, <2>1
  <2>3. id \notin DOMAIN db.events /\ id \notin DOMAIN db.issued
    <3>1. \A n \in 1 .. MaxSeq : n <= db.seq => n # id
      BY <1>3, <2>2
    <3>2. QED
      BY <1>3, <3>1
  <2>4. QED
    BY <1>1, <2>1, <2>3 DEF EventsAdded, RawsAdded
<1>15. ASSUME NEW id \in DOMAIN db.events
       PROVE  /\ id \in DOMAIN work.events /\ id \notin NewIds
              /\ work.events[id] = db.events[id] /\ work.issued[id] = db.issued[id]
              /\ work.raws[id] = db.raws[id]
  BY <1>1, <1>6, <1>14 DEF EventsAdded, RawsAdded, Paired
<1>16. Named(work)'
  <2>1. \A id \in DOMAIN work.issued : id <= work.seq
    <3>1. \A id \in DOMAIN db.issued : id <= db.seq + Len(batch)
      <4>1. ASSUME NEW id \in DOMAIN db.issued PROVE id <= db.seq + Len(batch)
        <5>1. id \in Nat /\ id <= db.seq
          BY <1>3, BatchNumbers
        <5>2. QED
          BY <1>2, <1>3, <5>1
      <4>2. QED
        BY <4>1
    <3>2. \A id \in NewIds : id <= db.seq + Len(batch)
      BY <1>2, <1>3, <1>7
    <3>3. QED
      BY <1>1, <3>1, <3>2 DEF EventsAdded
  <2>2. DOMAIN work.events \subseteq DOMAIN work.issued
    BY <1>1, <1>6 DEF EventsAdded
  <2>3. \A id \in DOMAIN work.events : /\ work.issued[id].key = work.events[id]
                                       /\ work.issued[id].raw = work.raws[id]
    <3>1. ASSUME NEW id \in DOMAIN db.events
          PROVE  work.issued[id].key = work.events[id] /\ work.issued[id].raw = work.raws[id]
      BY <1>6, <1>15 DEF Named, Paired
    <3>2. ASSUME NEW id \in NewIds
          PROVE  work.issued[id].key = work.events[id] /\ work.issued[id].raw = work.raws[id]
      BY <1>14
    <3>3. DOMAIN work.events = DOMAIN db.events \cup NewIds
      BY <1>1 DEF EventsAdded
    <3>4. QED
      BY <3>1, <3>2, <3>3
  <2>4. QED
    BY <1>4, <1>11, <1>12, <2>1, <2>2, <2>3 DEF Named
<1>17. Level(work)'
  <2>1. FirstNew(Len(batch)) /\ Len(batch) \in DOMAIN batch /\ Len(batch) > 0
    BY <1>1, <1>2 DEF LastIsNew, FirstNew, FirstInBatch
  <2>2. db.seq + Len(batch) \in NewIds
    BY <2>1 DEF NewIds
  <2>3. work'.seq \in DOMAIN work'.raws /\ work'.seq # 0
    BY <1>1, <1>2, <1>3, <1>4, <1>11, <2>1, <2>2 DEF EventsAdded
  <2>4. QED
    BY <2>3 DEF Level
<1>18. Added'
  <2>1. Extends'
    BY <1>1, <1>4, <1>11, <1>12, <1>15 DEF Extends
  <2>2. ASSUME NEW i \in DOMAIN batch PROVE batch[i].key \in KeysIn(work)
    <3>1. PICK j \in DOMAIN batch : batch[j].key = batch[i].key /\ FirstInBatch(j)
      BY <1>1, FirstWithIdentity
    <3>2. CASE batch[i].key \in KeysIn(db)
      BY <1>15, <3>2 DEF KeysIn
    <3>3. CASE batch[i].key \notin KeysIn(db)
      <4>1. db.seq + j \in NewIds /\ FirstNew(j)
        BY <3>1, <3>3 DEF FirstNew, NewIds
      <4>2. db.seq + j \in DOMAIN work.events /\ work.events[db.seq + j] = batch[j].key
        BY <1>1, <4>1 DEF EventsAdded
      <4>3. QED
        BY <3>1, <4>2 DEF KeysIn
    <3>4. QED
      BY <3>2, <3>3
  <2>3. \A id \in DOMAIN work.events \ DOMAIN db.events :
          \E i \in 1 .. Len(batch) : work.issued[id] = batch[i] /\ FirstInBatch(i)
    <3>1. DOMAIN work.events = DOMAIN db.events \cup NewIds
      BY <1>1 DEF EventsAdded
    <3>2. QED
      BY <1>2, <1>14, <3>1 DEF FirstNew
  <2>4. \A i : FirstInBatch(i)' <=> FirstInBatch(i)
    BY <1>1 DEF FirstInBatch
  <2>5. KeysIn(work') = KeysIn(work)
    BY <1>4 DEF KeysIn
  <2>6. Merged(Len(batch))'
    BY <1>1, <1>2, <1>4, <2>1, <2>2, <2>3, <2>4, <2>5 DEF Merged
  <2>7. QED
    BY <1>1, <2>6 DEF Added
<1>19. BatchProgress'
  BY <1>1, <1>13, <1>16, <1>17, <1>18 DEF BatchProgress
<1>20. Unique(work)'
  BY <1>4 DEF BInv, Unique
<1>21. QED
  BY <1>1, <1>5, <1>19, <1>20, CommittedKept DEF BInv

LEMMA BeginDeleteBInv ==
  ASSUME BInv, NEW ids \in SUBSET (DOMAIN db.issued \ {db.seq}), BeginDelete(ids)
  PROVE  BInv'
<1>1. /\ phase = "idle" /\ phase' = "delEvents" /\ ids # {} /\ doomed' = ids /\ reply' = "none"
      /\ UNCHANGED << db, work, batch, pos >>
  BY DEF BeginDelete
<1>2. ids \subseteq 1 .. MaxSeq /\ db.seq \notin ids
  BY BatchNumbers
<1>3. TypeOK'
  BY <1>1, <1>2 DEF BInv, TypeOK, Phases
<1>4. BatchProgress'
  BY <1>1, <1>2 DEF BInv, BatchProgress
<1>5. QED
  BY <1>1, <1>3, <1>4, CommittedKept DEF BInv, Unique

LEMMA DeleteEventsBInv ==
  ASSUME BInv, DeleteEvents
  PROVE  BInv'
<1>1. /\ phase = "delEvents" /\ phase' = "delRaws" /\ work = db
      /\ doomed # {} /\ db.seq \notin doomed
      /\ UNCHANGED << db, batch, pos, doomed, reply >>
      /\ work' = [db EXCEPT !.events = Without(@, doomed)]
  BY DEF DeleteEvents, BInv, BatchProgress
<1>2. db \in Tables /\ db.events \in PartialFns(1 .. MaxSeq, Key)
  BY BatchNumbers, TablesDef
<1>3. /\ work'.events = Without(db.events, doomed) /\ work'.raws = db.raws
      /\ work'.issued = db.issued /\ work'.seq = db.seq
  BY <1>1, <1>2 DEF Tables
<1>4. work' \in Tables
  BY <1>1, <1>2, WithoutType, TablesDef
<1>5. TypeOK'
  BY <1>1, <1>4 DEF BInv, TypeOK, Phases
<1>6. BatchProgress'
  BY <1>1, <1>3 DEF BatchProgress
<1>7. Unique(work)'
  BY <1>3 DEF BInv, Unique, Without
<1>8. QED
  BY <1>1, <1>5, <1>6, <1>7, CommittedKept DEF BInv

LEMMA DeleteRawsBInv ==
  ASSUME BInv, DeleteRaws
  PROVE  BInv'
<1>1. /\ phase = "delRaws" /\ phase' = "commit"
      /\ work.events = Without(db.events, doomed) /\ work.raws = db.raws
      /\ work.seq = db.seq /\ work.issued = db.issued
      /\ doomed # {} /\ db.seq \notin doomed
      /\ UNCHANGED << db, batch, pos, doomed, reply >>
      /\ work' = [work EXCEPT !.raws = Without(@, doomed)]
  BY DEF DeleteRaws, BInv, BatchProgress
<1>2. work \in Tables /\ work.raws \in PartialFns(1 .. MaxSeq, Raw)
  BY BatchNumbers, TablesDef
<1>3. /\ work'.events = Without(db.events, doomed) /\ work'.raws = Without(db.raws, doomed)
      /\ work'.issued = db.issued /\ work'.seq = db.seq
  BY <1>1, <1>2 DEF Tables
<1>4. work' \in Tables
  BY <1>1, <1>2, WithoutType, TablesDef
<1>5. TypeOK'
  BY <1>1, <1>4 DEF BInv, TypeOK, Phases
<1>6. Paired(db) /\ Named(db) /\ Level(db) /\ Unique(db)
  BY DEF BInv
<1>7. Paired(work)' /\ Level(work)' /\ Unique(work)'
  BY <1>1, <1>3, <1>6 DEF Paired, Level, Unique, Without
<1>8. Named(work)'
  BY <1>3, <1>6 DEF Named, Without
<1>9. Deleted'
  BY <1>1, <1>3 DEF Deleted
<1>10. BatchProgress'
  BY <1>1, <1>7, <1>8, <1>9 DEF BatchProgress
<1>11. QED
  BY <1>1, <1>5, <1>7, <1>10, CommittedKept DEF BInv

LEMMA NextBInv ==
  ASSUME BInv, TrueBatch, ~SwallowedErrors, [TameNext]_vars
  PROVE  BInv'
<1>1. ASSUME NEW b \in Batches, LastIsNew(b), BeginAdd(b) PROVE BInv'
  BY <1>1, BeginBatchBInv
<1>2. CASE InsertAllEvents
  BY <1>2, InsertAllEventsBInv
<1>3. CASE InsertAllRaws
  BY <1>3, InsertAllRawsBInv
<1>4. CASE CleanUp
  BY <1>4, CleanUpBInv
<1>5. ASSUME NEW ids \in SUBSET (DOMAIN db.issued \ {db.seq}), BeginDelete(ids) PROVE BInv'
  BY <1>5, BeginDeleteBInv
<1>6. CASE DeleteEvents
  BY <1>6, DeleteEventsBInv
<1>7. CASE DeleteRaws
  BY <1>7, DeleteRawsBInv
<1>8. CASE Commit
  <2>1. work \in Tables /\ Paired(work) /\ Named(work) /\ Unique(work) /\ Level(work)
    BY <1>8 DEF Commit, BInv, TypeOK, BatchProgress
  <2>2. QED
    BY <1>8, <2>1, EndWithBInv DEF Commit
<1>9. CASE RollBack \/ Crash
  <2>1. db \in Tables /\ Paired(db) /\ Named(db) /\ Unique(db) /\ Level(db)
    BY DEF BInv, TypeOK
  <2>2. \E answer \in {"none", "ok", "error"} : EndWith(db, answer)
    BY <1>9 DEF RollBack, Crash
  <2>3. QED
    BY <2>1, <2>2, EndWithBInv
<1>10. CASE UNCHANGED vars
  <2>1. UNCHANGED << db, work, phase, batch, pos, doomed, reply >>
    BY <1>10 DEF vars
  <2>2. TypeOK' /\ Unique(work)'
    BY <2>1 DEF BInv, TypeOK, Unique
  <2>3. /\ KeysIn(db)' = KeysIn(db) /\ KeysIn(work)' = KeysIn(work)
        /\ \A i : FirstInBatch(i)' <=> FirstInBatch(i)
    BY <2>1 DEF KeysIn, FirstInBatch
  <2>4. /\ \A i : FirstNew(i)' <=> FirstNew(i)
        /\ LastIsNew(batch)' <=> LastIsNew(batch)
    BY <2>1, <2>3 DEF FirstNew, LastIsNew
  <2>5. NewIds' = NewIds
    BY <2>1, <2>4 DEF NewIds
  <2>6. (EventsAdded' <=> EventsAdded) /\ (RawsAdded' <=> RawsAdded)
    BY <2>1, <2>4, <2>5 DEF EventsAdded, RawsAdded
  <2>7. (Added' <=> Added) /\ (Deleted' <=> Deleted)
    BY <2>1, <2>3 DEF Added, Deleted, Merged, Extends
  <2>8. BatchProgress'
    BY <2>1, <2>4, <2>6, <2>7 DEF BInv, BatchProgress, Paired, Named, Level
  <2>9. QED
    BY <2>1, <2>2, <2>8, CommittedKept DEF BInv
<1>11. QED
  BY <1>1, <1>2, <1>3, <1>4, <1>5, <1>6, <1>7, <1>8, <1>9, <1>10 DEF TameNext

\* The invariant of the batch variant, for callers that keep the counters level.
THEOREM BatchInvariance ==
  ASSUME TrueBatch, ~SwallowedErrors
  PROVE  TameSpec => []BInv
<1>1. Init => BInv
  BY InitBInv
<1>2. BInv /\ [TameNext]_vars => BInv'
  BY NextBInv
<1>3. QED
  BY <1>1, <1>2, PTL DEF TameSpec

\* Under these calls too every committed event has its text and every text its
\* event, although the two tables are numbered apart.
THEOREM BatchTablesAligned ==
  ASSUME TrueBatch, ~SwallowedErrors
  PROVE  TameSpec => []Aligned
<1>1. BInv => Aligned
  BY DEF BInv, Paired, Aligned
<1>2. QED
  BY <1>1, BatchInvariance, PTL

\* An id names one event for ever, its text included: no text is left under
\* an id that another event gets.
THEOREM BatchIdsNameTheirEvents ==
  ASSUME TrueBatch, ~SwallowedErrors
  PROVE  TameSpec => []IdNamesItsEvent
<1>1. BInv => IdNamesItsEvent
  BY NamesKept DEF BInv, TypeOK
<1>2. QED
  BY <1>1, BatchInvariance, PTL

\* The clean-up deletes the texts of duplicates and no others.
THEOREM BatchSkipsDuplicates ==
  ASSUME TrueBatch, ~SwallowedErrors
  PROVE  TameSpec => []OnlyDuplicatesSkipped
<1>1. BInv => OnlyDuplicatesSkipped
  <2> SUFFICES ASSUME BInv, phase = "cleanUp", NEW r \in Orphans
               PROVE  LET i == r - MaxRow(db.raws)
                      IN  \/ batch[i].key \in KeysIn(db)
                          \/ \E j \in 1 .. (i - 1) : batch[j].key = batch[i].key
    BY DEF OnlyDuplicatesSkipped
  <2>1. EventsAdded /\ RawsAdded /\ batch \in Batches
    BY DEF BInv, BatchProgress
  <2>2. MaxRow(db.raws) = db.seq /\ db.seq \in Nat /\ \A id \in DOMAIN db.raws : id <= db.seq
    BY BatchNumbers
  <2>3. DOMAIN batch = 1 .. Len(batch) /\ Len(batch) \in Nat
    BY <2>1, SqliteEventsAssumption
  <2>4. r \in DOMAIN work.raws /\ r > db.seq /\ r \notin DOMAIN work.events
    BY <2>2 DEF Orphans
  <2>5. r \in (db.seq + 1) .. (db.seq + Len(batch))
    <3>1. r \notin DOMAIN db.raws
      <4>1. ASSUME r \in DOMAIN db.raws PROVE FALSE
        <5>1. r \in Nat /\ r <= db.seq
          BY <2>2, <4>1, BatchNumbers, TablesDef, PartialFnsDef
        <5>2. QED
          BY <2>2, <2>4, <5>1
      <4>2. QED
        BY <4>1
    <3>2. QED
      BY <2>1, <2>4, <3>1 DEF RawsAdded
  <2>6. r - db.seq \in DOMAIN batch /\ r = db.seq + (r - db.seq)
    BY <2>2, <2>3, <2>5
  <2>7. ~ FirstNew(r - db.seq)
    BY <2>1, <2>4, <2>6 DEF EventsAdded, NewIds
  <2>8. QED
    BY <2>2, <2>6, <2>7 DEF FirstNew, FirstInBatch
<1>2. QED
  BY <1>1, BatchInvariance, PTL

\* The tables implement the index: a batch is merged into it as a whole.
THEOREM BatchRefinement ==
  ASSUME TrueBatch, ~SwallowedErrors
  PROVE  TameSpec => ImplementsIndex
<1>1. Init => Index!Init
  BY DEF Init, Index!Init, EmptyTables, NoRows, IndexOf, Visible
<1>2. ASSUME BInv, [TameNext]_vars
      PROVE  [Index!Next]_(IndexOf(db))
  <2>1. ASSUME Commit
        PROVE  /\ Unique(db) /\ Unique(work) /\ Paired(db) /\ Paired(work) /\ Named(work)
               /\ IF doomed = {} THEN Added ELSE Deleted
    BY <1>2, <2>1 DEF Commit, BInv, BatchProgress
  <2>2. CASE Commit /\ doomed = {}
    <3>1. batch \in Batches /\ Merged(Len(batch))
      BY <2>1, <2>2 DEF Added
    <3>2. IndexOf(work) = Index!Merge(IndexOf(db), batch)
      BY <2>1, <2>2, <3>1, CommitMerges
    <3>3. IndexOf(db)' = IndexOf(work)
      BY <2>2 DEF Commit, EndWith, IndexOf, IdOf, Visible
    <3>4. QED
      BY <3>1, <3>2, <3>3 DEF Index!AddBatch, Index!Next
  <2>3. CASE Commit /\ doomed # {}
    <3>1. PICK K \in SUBSET DOMAIN IndexOf(db) :
            IndexOf(work) = Index!Without(IndexOf(db), K)
      BY <2>1, <2>3, CommitDeletes DEF Deleted
    <3>2. IndexOf(db)' = IndexOf(work)
      BY <2>3 DEF Commit, EndWith, IndexOf, IdOf, Visible
    <3>3. QED
      BY <3>1, <3>2 DEF Index!DeleteBatch, Index!Next
  <2>4. CASE ~Commit
    <3>1. db' = db
      BY <1>2, <2>4
      DEF TameNext, vars, BeginAdd, InsertAllEvents, InsertAllRaws, CleanUp, BeginDelete,
          DeleteEvents, DeleteRaws, RollBack, Crash, EndWith
    <3>2. QED
      BY <3>1 DEF IndexOf, IdOf, Visible
  <2>5. QED
    BY <2>2, <2>3, <2>4
<1>3. QED
  BY <1>1, <1>2, BatchInvariance, PTL DEF TameSpec, ImplementsIndex, Index!Spec

\* When AddBatch returns nil, the whole batch can be read.
THEOREM BatchAckSound ==
  ASSUME TrueBatch, ~SwallowedErrors
  PROVE  TameSpec => AckMeansIndexed
<1>1. ASSUME BInv, TameNext, phase = "commit", doomed = {}, reply' = "ok"
      PROVE  \A i \in DOMAIN batch :
               \E id \in Visible(db') : db'.events[id] = batch[i].key
  <2>1. db' = work
    BY <1>1 DEF TameNext, BeginAdd, InsertAllEvents, InsertAllRaws, CleanUp, BeginDelete,
                DeleteEvents, DeleteRaws, Commit, RollBack, Crash, EndWith
  <2>2. batch \in Seq(Event) /\ Paired(work) /\ Merged(Len(batch))
    BY <1>1, SqliteEventsAssumption DEF BInv, BatchProgress, Added
  <2>3. \A i \in DOMAIN batch : batch[i].key \in KeysIn(work)
    BY <2>2 DEF Merged
  <2>4. QED
    BY <2>1, <2>2, <2>3 DEF KeysIn, Visible, Paired
<1>2. BInv /\ [TameNext]_vars =>
        [ phase = "commit" /\ doomed = {} /\ reply' = "ok"
            => \A i \in DOMAIN batch :
                 \E id \in Visible(db') : db'.events[id] = batch[i].key ]_vars
  BY <1>1
<1>3. QED
  BY <1>2, BatchInvariance, PTL DEF TameSpec, AckMeansIndexed

=============================================================================
