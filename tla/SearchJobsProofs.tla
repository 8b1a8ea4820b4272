-------------------------- MODULE SearchJobsProofs --------------------------
(***************************************************************************)
(* Proofs about a search while the events are written.                     *)
(*                                                                         *)
(* The writers (PgEvents): the two tables agree after every commit,        *)
(* however many transactions run side by side, and what was acknowledged   *)
(* is stored.  A transaction of the deleter finds in EventRaws what it     *)
(* found in Events before, whatever others have committed in between,      *)
(* since no id that is inserted is one to be deleted (IInv).  A search     *)
(* leaves all that alone: SearchJobs implements WriteSpec, so that it has  *)
(* the same properties.                                                    *)
(*                                                                         *)
(* The text (Query, Pipelines): all that the lexer, the parsers and the    *)
(* compiler make of a text is made of the atoms of the text, a cut one     *)
(* among them if it has a quote, and the chain of steps they come to       *)
(* begins with a step without input, with no other.  The loops of the      *)
(* parsers are recursive functions; that they have values is shown once,   *)
(* for any loop (Runs).                                                    *)
(*                                                                         *)
(* The search (SearchJobs): one section for each part of JInv shows that   *)
(* every step keeps it.  What ORDER BY, OFFSET and LIMIT may return is a   *)
(* set of pages; what is shown of them is what all of them have in common. *)
(***************************************************************************)
EXTENDS SearchInvariants, TLAPS, NaturalsInduction, WellFoundedInduction, FiniteSetTheorems

-----------------------------------------------------------------------------
(* Writers: the tables agree                                              *)

-----------------------------------------------------------------------------

\* The ids to be deleted are among those stored at the start.
LEMMA DeletesAreStored ==
  ASSUME load \in Workloads
  PROVE  Len(load.stored) \in Nat /\ load.deletes \subseteq 1 .. Len(load.stored)
BY PgEventsAssumption

\* The record of a writer that has nothing to do.
LEMMA IdlePlace ==
  ASSUME NEW deletes, NEW w, NEW D, NEW reply
  PROVE  Place(deletes, w, [Idle EXCEPT !.reply = reply], D)
<1> DEFINE r == [Idle EXCEPT !.reply = reply]
<1>1. /\ DOMAIN r = Fields /\ r.at = "idle" /\ r.gone = {} /\ r.rawsGone = {}
      /\ r.events = << >> /\ r.raws = << >>
  BY DEF Idle, Fields
<1>2. DOMAIN << >> = {}
  OBVIOUS
<1>3. QED
  BY <1>1, <1>2 DEF Place

\* A step of one transaction that commits nothing.
LEMMA OwnStep ==
  ASSUME IInv, NEW w \in Writers, NEW r, writer' = [writer EXCEPT ![w] = r],
         UNCHANGED << load, Events, EventRaws >>, seq' \in Nat, seq <= seq',
         Place(load.deletes, w, r, DOMAIN Events)
  PROVE  IInv'
<1>1. Len(load.stored) \in Nat
  BY DeletesAreStored DEF IInv
<1>2. load' \in Workloads /\ Aligned' /\ seq' \in Nat /\ Len(load'.stored) <= seq'
  BY <1>1 DEF IInv, Aligned
<1>3. DOMAIN writer' = Writers
  BY DEF IInv
<1>4. ASSUME NEW v \in Writers
      PROVE  Place(load'.deletes, v, writer'[v], DOMAIN Events')
  BY DEF IInv
<1>5. QED
  BY <1>2, <1>3, <1>4 DEF IInv

LEMMA NoStep ==
  ASSUME IInv, UNCHANGED << load, Events, EventRaws, seq, writer >>
  PROVE  IInv'
BY DEF IInv, Aligned

LEMMA InitIInv == Init => IInv
<1> SUFFICES ASSUME Init PROVE IInv
  OBVIOUS
<1>1. load \in Workloads /\ seq = Len(load.stored) /\ seq \in Nat
  BY DeletesAreStored DEF Init
<1>2. DOMAIN EventRaws = DOMAIN Events
  BY DEF Init
<1>3. Idle = [Idle EXCEPT !.reply = "none"]
  BY DEF Idle
<1>4. ASSUME NEW w \in Writers
      PROVE  Place(load.deletes, w, writer[w], DOMAIN Events)
  <2>1. Place(load.deletes, w, [Idle EXCEPT !.reply = "none"], DOMAIN Events)
    BY IdlePlace
  <2>2. writer[w] = Idle
    BY DEF Init
  <2>3. QED
    BY <1>3, <2>1, <2>2
<1>5. DOMAIN writer = Writers
  BY DEF Init
<1>6. QED
  BY <1>1, <1>2, <1>4, <1>5 DEF IInv, Aligned

-----------------------------------------------------------------------------
(* One step per action.                                                    *)

LEMMA ReceiveStep ==
  ASSUME IInv, NEW w \in Writers, Receive(w)
  PROVE  IInv'
<1> DEFINE r == [writer[w] EXCEPT !.at = "insert", !.batch = load.batches[w]]
<1>1. writer' = [writer EXCEPT ![w] = r]
  BY DEF Receive, Starts
<1>2. Place(load.deletes, w, writer[w], DOMAIN Events) /\ writer[w].at = "idle"
  BY DEF IInv, Receive
<1>3. Place(load.deletes, w, r, DOMAIN Events)
  BY <1>2 DEF Place, Fields
<1>4. UNCHANGED << load, Events, EventRaws >> /\ seq' \in Nat /\ seq <= seq'
  BY DEF Receive, tables, IInv
<1> HIDE DEF r
<1>5. QED
  BY <1>1, <1>3, <1>4, OwnStep

LEMMA TakeEventStep ==
  ASSUME IInv, TakeEvent
  PROVE  IInv'
<1> DEFINE batch == Append(writer[Publisher].batch, Head(adder))
           full  == [writer[Publisher] EXCEPT !.at = "insert", !.batch = batch]
           more  == [writer[Publisher] EXCEPT !.batch = batch]
<1>1. Publisher \in Writers
  BY DEF Writers
<1>2. Place(load.deletes, Publisher, writer[Publisher], DOMAIN Events) /\ writer[Publisher].at = "idle"
  BY <1>1 DEF IInv, TakeEvent
<1>3. /\ Place(load.deletes, Publisher, full, DOMAIN Events)
      /\ Place(load.deletes, Publisher, more, DOMAIN Events)
  BY <1>2 DEF Place, Fields
<1>4. \/ writer' = [writer EXCEPT ![Publisher] = full]
      \/ writer' = [writer EXCEPT ![Publisher] = more]
  BY DEF TakeEvent, Starts
<1>5. UNCHANGED << load, Events, EventRaws >> /\ seq' \in Nat /\ seq <= seq'
  BY DEF TakeEvent, tables, IInv
<1> HIDE DEF full, more
<1>6. QED
  BY <1>1, <1>3, <1>4, <1>5, OwnStep

LEMMA TimeoutStep ==
  ASSUME IInv, Timeout
  PROVE  IInv'
<1> DEFINE r == [writer[Publisher] EXCEPT !.at = "insert", !.batch = writer[Publisher].batch]
<1>1. Publisher \in Writers /\ writer' = [writer EXCEPT ![Publisher] = r]
  BY DEF Writers, Timeout, Starts
<1>2. Place(load.deletes, Publisher, writer[Publisher], DOMAIN Events) /\ writer[Publisher].at = "idle"
  BY <1>1 DEF IInv, Timeout
<1>3. Place(load.deletes, Publisher, r, DOMAIN Events)
  BY <1>2 DEF Place, Fields
<1>4. UNCHANGED << load, Events, EventRaws >> /\ seq' \in Nat /\ seq <= seq'
  BY DEF Timeout, tables, IInv
<1> HIDE DEF r
<1>5. QED
  BY <1>1, <1>3, <1>4, OwnStep

\* The id drawn is greater than those of all events stored at the start.
LEMMA DrawIdStep ==
  ASSUME IInv, NEW w \in Writers, DrawId(w)
  PROVE  IInv'
<1> DEFINE r == [writer[w] EXCEPT !.at = "conflict", !.id = seq + 1]
<1>1. writer' = [writer EXCEPT ![w] = r]
  BY DEF DrawId
<1>2. Place(load.deletes, w, writer[w], DOMAIN Events) /\ writer[w].at = "insert"
  BY DEF IInv, DrawId, More
<1>3. seq + 1 \notin load.deletes
  BY DeletesAreStored DEF IInv
<1>4. Place(load.deletes, w, r, DOMAIN Events)
  BY <1>2, <1>3 DEF Place, Fields
<1>5. UNCHANGED << load, Events, EventRaws >> /\ seq' \in Nat /\ seq <= seq'
  BY DEF DrawId, Same, tables, IInv
<1> HIDE DEF r
<1>6. QED
  BY <1>1, <1>4, <1>5, OwnStep

LEMMA SkipDuplicateStep ==
  ASSUME IInv, NEW w \in Writers, SkipDuplicate(w)
  PROVE  IInv'
<1> DEFINE r == [writer[w] EXCEPT !.at = "insert", !.pos = @ + 1]
<1>1. writer' = [writer EXCEPT ![w] = r]
  BY DEF SkipDuplicate
<1>2. Place(load.deletes, w, writer[w], DOMAIN Events) /\ writer[w].at = "conflict"
  BY DEF IInv, SkipDuplicate
<1>3. Place(load.deletes, w, r, DOMAIN Events)
  BY <1>2 DEF Place, Fields
<1>4. UNCHANGED << load, Events, EventRaws >> /\ seq' \in Nat /\ seq <= seq'
  BY DEF SkipDuplicate, Same, tables, IInv
<1> HIDE DEF r
<1>5. QED
  BY <1>1, <1>3, <1>4, OwnStep

LEMMA InsertEventStep ==
  ASSUME IInv, NEW w \in Writers, InsertEvent(w)
  PROVE  IInv'
<1> DEFINE r == [writer[w] EXCEPT !.at = "raw",
                   !.events = Put(@, writer[w].id, Current(w))]
<1>1. writer' = [writer EXCEPT ![w] = r]
  BY DEF InsertEvent
<1>2. Place(load.deletes, w, writer[w], DOMAIN Events) /\ writer[w].at = "conflict"
  BY DEF IInv, InsertEvent
<1>3. /\ r.at = "raw" /\ r.id = writer[w].id /\ r.raws = writer[w].raws
      /\ r.gone = {} /\ r.rawsGone = {} /\ DOMAIN r = Fields
      /\ r.events = Put(writer[w].events, writer[w].id, Current(w))
  BY <1>2 DEF Place, Fields
<1> HIDE DEF r
<1>4. DOMAIN r.events = DOMAIN writer[w].events \cup {writer[w].id}
  <2>1. DOMAIN Put(writer[w].events, writer[w].id, Current(w))
          = DOMAIN writer[w].events \cup {writer[w].id}
    BY DEF Put
  <2>2. QED
    BY <1>3, <2>1
<1>5. Place(load.deletes, w, r, DOMAIN Events)
  BY <1>2, <1>3, <1>4 DEF Place
<1>6. UNCHANGED << load, Events, EventRaws >> /\ seq' \in Nat /\ seq <= seq'
  BY DEF InsertEvent, Same, tables, IInv
<1>7. QED
  BY <1>1, <1>5, <1>6, OwnStep

LEMMA InsertRawStep ==
  ASSUME IInv, NEW w \in Writers, InsertRaw(w)
  PROVE  IInv'
<1> DEFINE r == [writer[w] EXCEPT !.at = "insert", !.pos = @ + 1,
                   !.raws = Put(@, writer[w].id, Current(w).words)]
<1>1. writer' = [writer EXCEPT ![w] = r]
  BY DEF InsertRaw
<1>2. Place(load.deletes, w, writer[w], DOMAIN Events) /\ writer[w].at = "raw"
  BY DEF IInv, InsertRaw
<1>3. /\ r.at = "insert" /\ r.events = writer[w].events
      /\ r.gone = {} /\ r.rawsGone = {} /\ DOMAIN r = Fields
      /\ r.raws = Put(writer[w].raws, writer[w].id, Current(w).words)
  BY <1>2 DEF Place, Fields
<1> HIDE DEF r
<1>4. DOMAIN r.raws = DOMAIN writer[w].raws \cup {writer[w].id}
  <2>1. DOMAIN Put(writer[w].raws, writer[w].id, Current(w).words)
          = DOMAIN writer[w].raws \cup {writer[w].id}
    BY DEF Put
  <2>2. QED
    BY <1>3, <2>1
<1>5. Place(load.deletes, w, r, DOMAIN Events)
  BY <1>2, <1>3, <1>4 DEF Place
<1>6. UNCHANGED << load, Events, EventRaws >> /\ seq' \in Nat /\ seq <= seq'
  BY DEF InsertRaw, Same, tables, IInv
<1>7. QED
  BY <1>1, <1>5, <1>6, OwnStep

LEMMA DeleteSteps ==
  ASSUME IInv, BeginDelete \/ DeleteEvents \/ DeleteRaws
  PROVE  IInv'
<1> DEFINE d  == writer[Deleter]
           r1 == [d EXCEPT !.at = "delete"]
           r2 == [d EXCEPT !.at = "deleteRaws", !.gone = load.deletes \cap DOMAIN Events]
           r3 == [d EXCEPT !.at = "commit", !.rawsGone = load.deletes \cap DOMAIN EventRaws]
<1>1. Deleter \in Writers
  BY DEF Writers
<1>2. Place(load.deletes, Deleter, d, DOMAIN Events) /\ DOMAIN EventRaws = DOMAIN Events
  BY <1>1 DEF IInv, Aligned
<1>3. CASE BeginDelete
  <2>1. writer' = [writer EXCEPT ![Deleter] = r1] /\ d.at = "idle"
    BY <1>3 DEF BeginDelete
  <2>2. Place(load.deletes, Deleter, r1, DOMAIN Events)
    BY <1>2, <2>1 DEF Place, Fields
  <2>3. UNCHANGED << load, Events, EventRaws >> /\ seq' \in Nat /\ seq <= seq'
    BY <1>3 DEF BeginDelete, Same, tables, IInv
  <2> HIDE DEF r1
  <2>4. QED
    BY <1>1, <2>1, <2>2, <2>3, OwnStep
<1>4. CASE DeleteEvents
  <2>1. writer' = [writer EXCEPT ![Deleter] = r2] /\ d.at = "delete"
    BY <1>4 DEF DeleteEvents
  <2>2. Place(load.deletes, Deleter, r2, DOMAIN Events)
    BY <1>2, <2>1 DEF Place, Fields
  <2>3. UNCHANGED << load, Events, EventRaws >> /\ seq' \in Nat /\ seq <= seq'
    BY <1>4 DEF DeleteEvents, Same, tables, IInv
  <2> HIDE DEF r2
  <2>4. QED
    BY <1>1, <2>1, <2>2, <2>3, OwnStep
<1>5. CASE DeleteRaws
  <2>1. writer' = [writer EXCEPT ![Deleter] = r3] /\ d.at = "deleteRaws"
    BY <1>5 DEF DeleteRaws
  <2>2. Place(load.deletes, Deleter, r3, DOMAIN Events)
    BY <1>2, <2>1 DEF Place, Fields
  <2>3. UNCHANGED << load, Events, EventRaws >> /\ seq' \in Nat /\ seq <= seq'
    BY <1>5 DEF DeleteRaws, Same, tables, IInv
  <2> HIDE DEF r3
  <2>4. QED
    BY <1>1, <2>1, <2>2, <2>3, OwnStep
<1>6. QED
  BY <1>3, <1>4, <1>5

\* Whatever a writer answers, its record is that of one with nothing to do.
LEMMA AnsweredStep ==
  ASSUME IInv, NEW w \in Writers, NEW reply, Answered(w, reply),
         UNCHANGED << load, Events, EventRaws, seq >>
  PROVE  IInv'
<1> DEFINE r == [Idle EXCEPT !.reply = IF w = Publisher THEN "none" ELSE reply]
<1>1. writer' = [writer EXCEPT ![w] = r]
  BY DEF Answered
<1>2. Place(load.deletes, w, r, DOMAIN Events)
  BY IdlePlace
<1>3. seq' \in Nat /\ seq <= seq'
  BY DEF IInv
<1> HIDE DEF r
<1>4. QED
  BY <1>1, <1>2, <1>3, OwnStep

\* A commit takes the same ids from both tables and adds the same to both, none of
\* them to be deleted, so that the deleter, if it has begun, is not disturbed.
LEMMA CommitStep ==
  ASSUME IInv, NEW w \in Writers, Commit(w)
  PROVE  IInv'
<1> DEFINE D == DOMAIN Events
           r == writer[w]
           i == [Idle EXCEPT !.reply = IF w = Publisher THEN "none" ELSE "ok"]
<1>1. Place(load.deletes, w, r, D) /\ DOMAIN EventRaws = D
  BY DEF IInv, Aligned
<1>2. r.at = "insert" \/ r.at = "commit"
  BY DEF Commit, Complete
<1>3. r.gone = r.rawsGone /\ DOMAIN r.events = DOMAIN r.raws /\ DOMAIN r.events \cap load.deletes = {}
  BY <1>1, <1>2 DEF Place
<1>4. /\ DOMAIN Events' = (D \ r.gone) \cup DOMAIN r.events
      /\ DOMAIN EventRaws' = (D \ r.gone) \cup DOMAIN r.events
  <2>1. Events' = Applied(Events, r.gone, r.events) /\ EventRaws' = Applied(EventRaws, r.gone, r.raws)
    BY <1>3 DEF Commit
  <2>2. /\ DOMAIN Applied(Events, r.gone, r.events) = (D \ r.gone) \cup DOMAIN r.events
        /\ DOMAIN Applied(EventRaws, r.gone, r.raws) = (DOMAIN EventRaws \ r.gone) \cup DOMAIN r.raws
    BY DEF Applied
  <2>3. QED
    BY <1>1, <1>3, <2>1, <2>2
<1>5. writer' = [writer EXCEPT ![w] = i] /\ load' = load /\ seq' = seq
  BY DEF Commit, Answered
<1>6. ASSUME NEW v \in Writers
      PROVE  Place(load.deletes, v, writer'[v], DOMAIN Events')
  <2>1. CASE v = w
    BY <1>5, <2>1, IdlePlace DEF IInv
  <2>2. CASE v # w
    <3>1. writer'[v] = writer[v] /\ Place(load.deletes, v, writer[v], D)
      BY <1>5, <2>2 DEF IInv
    <3>2. CASE v = Deleter
      <4>1. r.gone = {}
        BY <1>1, <1>2, <2>2, <3>2 DEF Place
      <4>2. load.deletes \cap DOMAIN Events' = load.deletes \cap D
        BY <1>3, <1>4, <4>1
      <4>3. QED
        BY <3>1, <4>2 DEF Place
    <3>3. CASE v # Deleter
      BY <3>1, <3>3 DEF Place
    <3>4. QED
      BY <3>2, <3>3
  <2>3. QED
    BY <2>1, <2>2
<1>7. QED
  BY <1>4, <1>5, <1>6 DEF IInv, Aligned

LEMMA StepIInv == IInv /\ [Write \/ Elsewhere]_store => IInv'
<1> SUFFICES ASSUME IInv, [Write \/ Elsewhere]_store PROVE IInv'
  OBVIOUS
<1>1. CASE PublishEvent
  BY <1>1, NoStep DEF PublishEvent, tables
<1>2. CASE TakeEvent
  BY <1>2, TakeEventStep
<1>3. CASE Timeout
  BY <1>3, TimeoutStep
<1>4. CASE BeginDelete
  BY <1>4, DeleteSteps
<1>5. ASSUME NEW w \in Writers, Receive(w) \/ Statement(w)
      PROVE  IInv'
  <2>1. CASE Deadlock(w)
    BY <2>1, AnsweredStep DEF Deadlock, RollBack, tables, Works
  <2>2. QED
    BY <1>5, <2>1, ReceiveStep, DrawIdStep, SkipDuplicateStep, InsertEventStep, InsertRawStep,
       DeleteSteps, CommitStep DEF Statement
<1>6. ASSUME NEW w \in Writers, CommitFails(w)
      PROVE  IInv'
  BY <1>6, AnsweredStep DEF CommitFails, tables
<1>7. ASSUME NEW w \in Writers, StatementFails(w)
      PROVE  IInv'
  BY <1>7, AnsweredStep DEF StatementFails, RollBack, tables
<1>8. CASE Elsewhere \/ UNCHANGED store
  BY <1>8, NoStep DEF Elsewhere, store, tables
<1>9. QED
  BY <1>1, <1>2, <1>3, <1>4, <1>5, <1>6, <1>7, <1>8 DEF Write

\* Every event that can be found in PostgreSQL has its text and every text its
\* event, for any number of forwarders, any batches, and any failures: what
\* AddBatch and DeleteBatch do to one table they do to the other, in one
\* transaction (PostgresEventRepository.go:73-165).
THEOREM TablesAligned == WriteSpec => []Aligned
<1>1. IInv => Aligned
  BY DEF IInv
<1>2. QED
  BY <1>1, InitIInv, StepIInv, PTL DEF WriteSpec

-----------------------------------------------------------------------------
(* What was acknowledged is kept.  An id is drawn once: it is that of one  *)
(* row, of one transaction, so that a commit overwrites nothing.  Then a   *)
(* key that is kept once stays kept, and each writer can count on every    *)
(* event before its position: it is kept, or the transaction holds it.     *)

\* A writer's step that leaves the committed rows alone and takes no id but those
\* it has or those just drawn.
LEMMA OwnIds ==
  ASSUME KInv, NEW w \in Writers, NEW r, writer' = [writer EXCEPT ![w] = r],
         UNCHANGED Events, seq' \in Nat, seq <= seq',
         Own(r) \subseteq Own(writer[w]) \cup ((seq + 1) .. seq'),
         r.at = "conflict" => r.id \notin DOMAIN r.events
  PROVE  FreshIds'
<1>1. seq \in Nat /\ DOMAIN writer = Writers /\ FreshIds
  BY DEF KInv, IInv
<1>2. writer'[w] = r /\ \A v \in Writers : v # w => writer'[v] = writer[v]
  BY <1>1
<1>3. /\ DOMAIN Events \subseteq 1 .. seq
      /\ \A v \in Writers : Own(writer[v]) \subseteq (1 .. seq) \ DOMAIN Events
      /\ \A v \in Writers : writer[v].at = "conflict" => writer[v].id \notin DOMAIN writer[v].events
      /\ \A v, u \in Writers : v # u => Own(writer[v]) \cap Own(writer[u]) = {}
  BY <1>1 DEF FreshIds
<1>4. 1 .. seq \subseteq 1 .. seq' /\ (1 .. seq) \cap ((seq + 1) .. seq') = {}
      /\ (seq + 1) .. seq' \subseteq 1 .. seq'
  BY <1>1
<1>5. DOMAIN Events' \subseteq 1 .. seq'
  BY <1>3, <1>4
<1>6. Own(r) \subseteq (1 .. seq') \ DOMAIN Events'
  BY <1>3, <1>4
<1>7. ASSUME NEW v \in Writers
      PROVE  /\ Own(writer'[v]) \subseteq (1 .. seq') \ DOMAIN Events'
             /\ writer'[v].at = "conflict" => writer'[v].id \notin DOMAIN writer'[v].events
  BY <1>2, <1>3, <1>4, <1>6
<1>8. ASSUME NEW v \in Writers, v # w
      PROVE  Own(r) \cap Own(writer[v]) = {}
  <2>1. Own(writer[w]) \cap Own(writer[v]) = {}
    BY <1>3, <1>8
  <2>2. Own(writer[v]) \subseteq 1 .. seq
    BY <1>3
  <2>3. QED
    BY <1>4, <2>1, <2>2
<1>9. ASSUME NEW v \in Writers, NEW u \in Writers, v # u
      PROVE  Own(writer'[v]) \cap Own(writer'[u]) = {}
  <2>1. CASE v = w
    BY <1>2, <1>8, <1>9, <2>1
  <2>2. CASE u = w
    BY <1>2, <1>8, <1>9, <2>2
  <2>3. CASE v # w /\ u # w
    BY <1>2, <1>3, <1>9, <2>3
  <2>4. QED
    BY <2>1, <2>2, <2>3
<1>10. QED
  BY <1>5, <1>7, <1>9 DEF FreshIds

LEMMA AddsGrows ==
  ASSUME NEW batches, NEW w, NEW r, NEW K, NEW L, K \subseteq L, Adds(batches, w, r, K)
  PROVE  Adds(batches, w, r, L)
BY DEF Adds

\* Each writer but the one that takes the step is where it was.
LEMMA OwnAdds ==
  ASSUME KInv, NEW w \in Writers, NEW r, writer' = [writer EXCEPT ![w] = r],
         UNCHANGED load, Kept \subseteq Kept', Adds(load.batches, w, r, Kept')
  PROVE  \A v \in Writers : Adds(load'.batches, v, writer'[v], Kept')
<1>1. DOMAIN writer = Writers /\ load'.batches = load.batches
  BY DEF KInv, IInv
<1>2. ASSUME NEW v \in Writers
      PROVE  Adds(load'.batches, v, writer'[v], Kept')
  <2>1. CASE v = w
    BY <1>1, <2>1
  <2>2. CASE v # w
    <3>1. writer'[v] = writer[v] /\ Adds(load.batches, v, writer[v], Kept)
      BY <1>1, <2>2 DEF KInv
    <3>2. Adds(load.batches, v, writer[v], Kept')
      BY <3>1, AddsGrows
    <3>3. QED
      BY <1>1, <3>1, <3>2
  <2>3. QED
    BY <2>1, <2>2
<1>3. QED
  BY <1>2

\* Whatever others do, the publisher's events stay where they are.
LEMMA SameOrder ==
  ASSUME KInv, UNCHANGED << load, unread, adder >>, Kept \subseteq Kept',
         writer'[Publisher].batch = writer[Publisher].batch
  PROVE  InOrder'
<1>1. load' = load /\ unread' = unread /\ adder' = adder /\ Done' = Done /\ Published' = Published
  BY DEF Done, Published
<1>2. InOrder
  BY DEF KInv
<1>3. QED
  BY <1>1, <1>2 DEF InOrder

\* A step of a transaction that commits nothing and does not touch the batch.
LEMMA OwnLedger ==
  ASSUME KInv, NEW w \in Writers, NEW r, writer' = [writer EXCEPT ![w] = r],
         UNCHANGED << load, Events, unread, adder, deleted, dropped >>,
         seq' \in Nat, seq <= seq',
         Own(r) \subseteq Own(writer[w]) \cup ((seq + 1) .. seq'),
         r.at = "conflict" => r.id \notin DOMAIN r.events,
         Adds(load.batches, w, r, Kept),
         w = Publisher => r.batch = writer[w].batch
  PROVE  Ledger'
<1>1. Kept' = Kept
  BY DEF Kept
<1>2. FreshIds'
  BY OwnIds
<1>3. \A v \in Writers : Adds(load'.batches, v, writer'[v], Kept')
  BY <1>1, OwnAdds
<1>4. writer'[Publisher].batch = writer[Publisher].batch
  BY DEF KInv, IInv
<1>5. InOrder'
  BY <1>1, <1>4, SameOrder
<1>6. QED
  BY <1>2, <1>3, <1>5 DEF Ledger

LEMMA ReceiveLedger ==
  ASSUME KInv, NEW w \in Writers, Receive(w)
  PROVE  Ledger'
<1> DEFINE r == [writer[w] EXCEPT !.at = "insert", !.batch = load.batches[w]]
<1>1. writer' = [writer EXCEPT ![w] = r]
  BY DEF Receive, Starts
<1>2. /\ DOMAIN writer[w] = Fields /\ writer[w].at = "idle" /\ writer[w].reply = "none"
      /\ w \in Recipients /\ w # Publisher /\ load \in Workloads
      /\ Adds(load.batches, w, writer[w], Kept)
  BY PgEventsAssumption DEF KInv, IInv, Place, Receive
<1>3. Len(load.batches[w]) \in Nat /\ DOMAIN load.batches[w] = 1 .. Len(load.batches[w])
  BY <1>2, PgEventsAssumption
<1>4. /\ r.at = "insert" /\ r.batch = load.batches[w] /\ r.pos = 1 /\ r.reply = "none"
      /\ r.events = writer[w].events
  BY <1>2 DEF Adds, Fields
<1> HIDE DEF r
<1>5. Own(r) = Own(writer[w])
  BY <1>2, <1>4 DEF Own
<1>6. Adds(load.batches, w, r, Kept)
  BY <1>3, <1>4 DEF Adds
<1>7. /\ UNCHANGED << load, Events, unread, adder, deleted, dropped >>
      /\ seq' \in Nat /\ seq <= seq'
  BY DEF Receive, tables, feed, history, KInv, IInv
<1>8. QED
  BY <1>1, <1>2, <1>4, <1>5, <1>6, <1>7, OwnLedger

LEMMA DrawIdLedger ==
  ASSUME KInv, NEW w \in Writers, DrawId(w)
  PROVE  Ledger'
<1> DEFINE r == [writer[w] EXCEPT !.at = "conflict", !.id = seq + 1]
<1>1. writer' = [writer EXCEPT ![w] = r]
  BY DEF DrawId
<1>2. /\ DOMAIN writer[w] = Fields /\ writer[w].at = "insert"
      /\ Adds(load.batches, w, writer[w], Kept)
      /\ seq \in Nat /\ Own(writer[w]) \subseteq 1 .. seq
  BY DEF KInv, IInv, Place, DrawId, More, FreshIds
<1>3. /\ r.at = "conflict" /\ r.id = seq + 1 /\ r.batch = writer[w].batch
      /\ r.pos = writer[w].pos /\ r.reply = writer[w].reply /\ r.events = writer[w].events
  BY <1>2 DEF Fields
<1> HIDE DEF r
<1>4. DOMAIN writer[w].events \subseteq 1 .. seq
  BY <1>2 DEF Own
<1>5. /\ UNCHANGED << load, Events, unread, adder, deleted, dropped >>
      /\ seq' = seq + 1 /\ seq' \in Nat /\ seq <= seq'
  BY <1>2 DEF DrawId, Same, tables, feed, history
<1>6. Own(r) \subseteq Own(writer[w]) \cup ((seq + 1) .. seq')
  BY <1>2, <1>3, <1>5 DEF Own
<1>7. r.id \notin DOMAIN r.events
  BY <1>2, <1>3, <1>4
<1>8. Adds(load.batches, w, r, Kept)
  BY <1>2, <1>3 DEF Adds
<1>9. QED
  BY <1>1, <1>3, <1>5, <1>6, <1>7, <1>8, OwnLedger

\* A duplicate is of an event that is kept, or of one in the transaction itself.
LEMMA SkipDuplicateLedger ==
  ASSUME KInv, NEW w \in Writers, SkipDuplicate(w)
  PROVE  Ledger'
<1> DEFINE r == [writer[w] EXCEPT !.at = "insert", !.pos = @ + 1]
<1>1. writer' = [writer EXCEPT ![w] = r]
  BY DEF SkipDuplicate
<1>2. /\ DOMAIN writer[w] = Fields /\ writer[w].at = "conflict"
      /\ Adds(load.batches, w, writer[w], Kept)
  BY DEF KInv, IInv, Place, SkipDuplicate
<1>3. /\ r.at = "insert" /\ r.batch = writer[w].batch
      /\ r.pos = writer[w].pos + 1 /\ r.reply = writer[w].reply /\ r.events = writer[w].events
  BY <1>2 DEF Fields
<1> HIDE DEF r
<1>4. Key(writer[w].batch[writer[w].pos]) \in Kept \cup KeysOf(writer[w].events)
  BY DEF SkipDuplicate, Known, Current, Kept
<1>5. Adds(load.batches, w, r, Kept)
  <2>1. /\ Len(r.batch) \in Nat /\ DOMAIN r.batch = 1 .. Len(r.batch) /\ writer[w].pos \in Nat /\ r.pos \in Nat
        /\ w \in Recipients => r.batch = load.batches[w]
    BY <1>2, <1>3 DEF Adds
  <2>2. ASSUME NEW i \in DOMAIN r.batch, i < r.pos
        PROVE  Key(r.batch[i]) \in Kept \cup KeysOf(r.events)
    <3>1. i < writer[w].pos \/ i = writer[w].pos
      BY <1>3, <2>1, <2>2
    <3>2. CASE i < writer[w].pos
      BY <1>2, <1>3, <3>2 DEF Adds
    <3>3. CASE i = writer[w].pos
      BY <1>3, <1>4, <3>3
    <3>4. QED
      BY <3>1, <3>2, <3>3
  <2>3. w \in Recipients /\ r.reply = "ok" => \A i \in DOMAIN load.batches[w] : Key(load.batches[w][i]) \in Kept
    BY <1>2, <1>3 DEF Adds
  <2>4. QED
    BY <1>3, <2>1, <2>2, <2>3 DEF Adds
<1>6. Own(r) \subseteq Own(writer[w])
  BY <1>3 DEF Own
<1>7. /\ UNCHANGED << load, Events, unread, adder, deleted, dropped >>
      /\ seq' \in Nat /\ seq <= seq'
  BY DEF SkipDuplicate, Same, tables, feed, history, KInv, IInv
<1>8. QED
  BY <1>1, <1>3, <1>5, <1>6, <1>7, OwnLedger

LEMMA InsertEventLedger ==
  ASSUME KInv, NEW w \in Writers, InsertEvent(w)
  PROVE  Ledger'
<1> DEFINE e == Current(w)
           r == [writer[w] EXCEPT !.at = "raw", !.events = Put(@, writer[w].id, e)]
<1>1. writer' = [writer EXCEPT ![w] = r]
  BY DEF InsertEvent
<1>2. /\ DOMAIN writer[w] = Fields /\ writer[w].at = "conflict"
      /\ writer[w].id \notin DOMAIN writer[w].events
      /\ Adds(load.batches, w, writer[w], Kept)
  BY DEF KInv, IInv, Place, InsertEvent, FreshIds
<1>3. /\ r.at = "raw" /\ r.batch = writer[w].batch
      /\ r.pos = writer[w].pos /\ r.reply = writer[w].reply
      /\ r.events = Put(writer[w].events, writer[w].id, e)
  BY <1>2 DEF Fields
<1> HIDE DEF r
<1>4. /\ DOMAIN r.events = DOMAIN writer[w].events \cup {writer[w].id}
      /\ r.events[writer[w].id] = e
      /\ \A i \in DOMAIN writer[w].events : r.events[i] = writer[w].events[i]
  BY <1>2, <1>3 DEF Put
<1>5. KeysOf(writer[w].events) \subseteq KeysOf(r.events) /\ Key(e) \in KeysOf(r.events)
  BY <1>4 DEF KeysOf
<1>6. Adds(load.batches, w, r, Kept)
  BY <1>2, <1>3, <1>5 DEF Adds, Current
<1>7. Own(r) \subseteq Own(writer[w])
  BY <1>2, <1>3, <1>4 DEF Own
<1>8. /\ UNCHANGED << load, Events, unread, adder, deleted, dropped >>
      /\ seq' \in Nat /\ seq <= seq'
  BY DEF InsertEvent, Same, tables, feed, history, KInv, IInv
<1>9. QED
  BY <1>1, <1>3, <1>6, <1>7, <1>8, OwnLedger

LEMMA InsertRawLedger ==
  ASSUME KInv, NEW w \in Writers, InsertRaw(w)
  PROVE  Ledger'
<1> DEFINE r == [writer[w] EXCEPT !.at = "insert", !.pos = @ + 1,
                   !.raws = Put(@, writer[w].id, Current(w).words)]
<1>1. writer' = [writer EXCEPT ![w] = r]
  BY DEF InsertRaw
<1>2. /\ DOMAIN writer[w] = Fields /\ writer[w].at = "raw"
      /\ Adds(load.batches, w, writer[w], Kept)
  BY DEF KInv, IInv, Place, InsertRaw
<1>3. /\ r.at = "insert" /\ r.batch = writer[w].batch
      /\ r.pos = writer[w].pos + 1 /\ r.reply = writer[w].reply /\ r.events = writer[w].events
  BY <1>2 DEF Fields
<1> HIDE DEF r
<1>4. Key(writer[w].batch[writer[w].pos]) \in KeysOf(writer[w].events)
  BY <1>2 DEF Adds
<1>5. Adds(load.batches, w, r, Kept)
  <2>1. /\ Len(r.batch) \in Nat /\ DOMAIN r.batch = 1 .. Len(r.batch) /\ writer[w].pos \in Nat /\ r.pos \in Nat
        /\ w \in Recipients => r.batch = load.batches[w]
    BY <1>2, <1>3 DEF Adds
  <2>2. ASSUME NEW i \in DOMAIN r.batch, i < r.pos
        PROVE  Key(r.batch[i]) \in Kept \cup KeysOf(r.events)
    <3>1. i < writer[w].pos \/ i = writer[w].pos
      BY <1>3, <2>1, <2>2
    <3>2. CASE i < writer[w].pos
      BY <1>2, <1>3, <3>2 DEF Adds
    <3>3. CASE i = writer[w].pos
      BY <1>3, <1>4, <3>3
    <3>4. QED
      BY <3>1, <3>2, <3>3
  <2>3. w \in Recipients /\ r.reply = "ok" => \A i \in DOMAIN load.batches[w] : Key(load.batches[w][i]) \in Kept
    BY <1>2, <1>3 DEF Adds
  <2>4. QED
    BY <1>3, <2>1, <2>2, <2>3 DEF Adds
<1>6. Own(r) \subseteq Own(writer[w])
  BY <1>3 DEF Own
<1>7. /\ UNCHANGED << load, Events, unread, adder, deleted, dropped >>
      /\ seq' \in Nat /\ seq <= seq'
  BY DEF InsertRaw, Same, tables, feed, history, KInv, IInv
<1>8. QED
  BY <1>1, <1>3, <1>5, <1>6, <1>7, OwnLedger

LEMMA DeleteLedger ==
  ASSUME KInv, BeginDelete \/ DeleteEvents \/ DeleteRaws
  PROVE  Ledger'
<1> DEFINE d  == writer[Deleter]
           r1 == [d EXCEPT !.at = "delete"]
           r2 == [d EXCEPT !.at = "deleteRaws", !.gone = load.deletes \cap DOMAIN Events]
           r3 == [d EXCEPT !.at = "commit", !.rawsGone = load.deletes \cap DOMAIN EventRaws]
<1>1. Deleter \in Writers /\ Deleter \notin Recipients /\ Deleter # Publisher
  BY PgEventsAssumption DEF Writers
<1>2. DOMAIN d = Fields /\ Adds(load.batches, Deleter, d, Kept)
  BY <1>1 DEF KInv, IInv, Place
<1>3. PICK r \in {r1, r2, r3} : writer' = [writer EXCEPT ![Deleter] = r]
  BY DEF BeginDelete, DeleteEvents, DeleteRaws
<1>4. /\ r.at \in {"delete", "deleteRaws", "commit"} /\ r.batch = d.batch
      /\ r.events = d.events
  BY <1>2 DEF Fields
<1>5. /\ UNCHANGED << load, Events, unread, adder, deleted, dropped >>
      /\ seq' \in Nat /\ seq <= seq'
  BY DEF BeginDelete, DeleteEvents, DeleteRaws, Same, tables, feed, history, KInv, IInv
<1> HIDE DEF r1, r2, r3
<1>6. Own(r) \subseteq Own(d) /\ Adds(load.batches, Deleter, r, Kept)
  BY <1>1, <1>2, <1>4 DEF Own, Adds
<1>7. QED
  BY <1>1, <1>3, <1>4, <1>5, <1>6, OwnLedger

-----------------------------------------------------------------------------
(* The publisher's events: from unread to adder to the batch.              *)

LEMMA PublishEventLedger ==
  ASSUME KInv, PublishEvent
  PROVE  Ledger'
<1> DEFINE p == load.publish
           b == writer[Publisher].batch
           n == Done + Len(b) + Len(adder)
<1>1. /\ UNCHANGED << load, Events, seq, writer, deleted, dropped >>
      /\ unread # << >> /\ adder' = Append(adder, Head(unread)) /\ unread' = Tail(unread)
  BY DEF PublishEvent, tables, history
<1>2. Kept' = Kept /\ FreshIds' /\ \A w \in Writers : Adds(load'.batches, w, writer'[w], Kept')
  BY <1>1 DEF Kept, KInv, FreshIds
<1>3. /\ p \in Seq(Published) /\ unread \in Seq(Published) /\ adder \in Seq(Published)
      /\ b \in Seq(Published) /\ Done \in Nat
  BY DEF KInv, InOrder
<1>4. /\ \A i \in 1 .. Done : Key(p[i]) \in Kept
      /\ \A i \in 1 .. Len(b) : b[i] = p[Done + i]
  BY DEF KInv, InOrder
<1>5. /\ \A i \in 1 .. Len(adder) : adder[i] = p[Done + Len(b) + i]
      /\ \A i \in 1 .. Len(unread) : unread[i] = p[n + i]
  BY DEF KInv, InOrder
<1>6. Published' = Published /\ p' = p /\ b' = b /\ load' = load /\ writer' = writer
  BY <1>1 DEF Published
<1>7. Len(unread) \in Nat /\ Len(adder) \in Nat /\ Len(b) \in Nat /\ Len(p) \in Nat
  BY <1>3
<1>8. /\ unread' \in Seq(Published) /\ Len(unread') = Len(unread) - 1 /\ Len(unread) >= 1
      /\ \A i \in 1 .. Len(unread') : unread'[i] = unread[i + 1]
  BY <1>1, <1>3
<1>9. /\ adder' \in Seq(Published) /\ Len(adder') = Len(adder) + 1
      /\ \A i \in 1 .. Len(adder) : adder'[i] = adder[i]
      /\ adder'[Len(adder) + 1] = unread[1]
  BY <1>1, <1>3
<1>10. Done' = Done
  <2>1. Len(unread') = Len(unread) - 1 /\ Len(adder') = Len(adder) + 1
    BY <1>8, <1>9
  <2>2. Done = Len(p) - Len(unread) - Len(adder) - Len(b)
        /\ Done' = Len(p) - Len(unread') - Len(adder') - Len(b)
    BY <1>6 DEF Done
  <2> HIDE DEF p, b
  <2> QED
    BY <1>7, <2>1, <2>2
<1> HIDE DEF p, b
<1>11. ASSUME NEW i \in 1 .. Len(adder')
       PROVE  adder'[i] = p[Done + Len(b) + i]
  <2>1. i \in 1 .. Len(adder) \/ i = Len(adder) + 1
    BY <1>7, <1>9
  <2>2. CASE i \in 1 .. Len(adder)
    BY <1>5, <1>9, <2>2
  <2>3. CASE i = Len(adder) + 1
    <3>1. unread[1] = p[n + 1] /\ n + 1 = Done + Len(b) + i
      BY <1>3, <1>5, <1>7, <1>8, <2>3
    <3> QED
      BY <1>9, <2>3, <3>1
  <2> QED
    BY <2>1, <2>2, <2>3
<1>12. ASSUME NEW i \in 1 .. Len(unread')
       PROVE  unread'[i] = p[Done + Len(b) + Len(adder') + i]
  <2>1. i + 1 \in 1 .. Len(unread) /\ unread'[i] = unread[i + 1]
    BY <1>7, <1>8, SMTT(30)
  <2>2. unread[i + 1] = p[n + (i + 1)]
    BY <1>5, <2>1
  <2>3. Len(adder') = Len(adder) + 1 /\ i \in Nat
    BY <1>7, <1>9
  <2>4. n + (i + 1) = Done + Len(b) + Len(adder') + i
    BY <1>3, <1>7, <2>3
  <2> QED
    BY <2>1, <2>2, <2>4
<1>13. InOrder'
  BY <1>2, <1>3, <1>4, <1>6, <1>8, <1>9, <1>10, <1>11, <1>12 DEF InOrder, p, b
<1>14. QED
  BY <1>2, <1>13 DEF Ledger

LEMMA TakeEventLedger ==
  ASSUME KInv, TakeEvent
  PROVE  Ledger'
<1> DEFINE p == load.publish
           w == writer[Publisher]
           b == w.batch
           c == Append(b, Head(adder))
           full == [w EXCEPT !.at = "insert", !.batch = c]
           more == [w EXCEPT !.batch = c]
<1>1. /\ UNCHANGED << load, Events, seq, unread, deleted, dropped >>
      /\ adder # << >> /\ adder' = Tail(adder) /\ w.at = "idle"
      /\ \/ writer' = [writer EXCEPT ![Publisher] = full]
         \/ writer' = [writer EXCEPT ![Publisher] = more]
  BY DEF TakeEvent, Starts, tables, history
<1>2. /\ p \in Seq(Published) /\ unread \in Seq(Published) /\ adder \in Seq(Published)
      /\ b \in Seq(Published) /\ Done \in Nat
  BY DEF KInv, InOrder
<1>3. /\ \A i \in 1 .. Done : Key(p[i]) \in Kept
      /\ \A i \in 1 .. Len(b) : b[i] = p[Done + i]
  BY DEF KInv, InOrder
<1>4. /\ \A i \in 1 .. Len(adder) : adder[i] = p[Done + Len(b) + i]
      /\ \A i \in 1 .. Len(unread) : unread[i] = p[Done + Len(b) + Len(adder) + i]
  BY DEF KInv, InOrder
<1>5. /\ Publisher \in Writers /\ Publisher \notin Recipients /\ DOMAIN writer = Writers
      /\ DOMAIN w = Fields /\ Adds(load.batches, Publisher, w, Kept) /\ seq \in Nat
  BY PgEventsAssumption DEF Writers, KInv, IInv, Place
<1>6. PICK r \in {full, more} : writer' = [writer EXCEPT ![Publisher] = r]
  BY <1>1
<1>7. /\ r.at \in {"idle", "insert"} /\ r.batch = c /\ r.events = w.events /\ r.pos = 1
  BY <1>1, <1>5 DEF Fields, Adds
<1>8. /\ c \in Seq(Published) /\ Len(c) = Len(b) + 1 /\ DOMAIN c = 1 .. Len(c)
      /\ \A i \in 1 .. Len(b) : c[i] = b[i]
      /\ c[Len(b) + 1] = adder[1]
  BY <1>1, <1>2, SMTT(30)
<1>9. Len(unread) \in Nat /\ Len(adder) \in Nat /\ Len(b) \in Nat /\ Len(p) \in Nat
  BY <1>2
<1>10. /\ adder' \in Seq(Published) /\ Len(adder') = Len(adder) - 1 /\ Len(adder) >= 1
       /\ \A i \in 1 .. Len(adder') : adder'[i] = adder[i + 1]
  BY <1>1, <1>2
<1> HIDE DEF full, more, c
<1>11. Own(r) \subseteq Own(w) /\ Adds(load.batches, Publisher, r, Kept) /\ Kept' = Kept
  <2>1. Own(r) \subseteq Own(w)
    BY <1>1, <1>7 DEF Own
  <2>2. Adds(load.batches, Publisher, r, Kept)
    BY <1>5, <1>7, <1>8 DEF Adds
  <2> QED
    BY <1>1, <2>1, <2>2 DEF Kept
<1>12. FreshIds'
  <2>1. seq' \in Nat /\ seq <= seq' /\ Events' = Events /\ r.at # "conflict"
    BY <1>1, <1>5, <1>7
  <2>2. Own(r) \subseteq Own(writer[Publisher]) \cup ((seq + 1) .. seq')
    BY <1>11
  <2> QED
    BY <1>5, <1>6, <2>1, <2>2, OwnIds
<1>13. \A v \in Writers : Adds(load'.batches, v, writer'[v], Kept')
  BY <1>1, <1>5, <1>6, <1>11, OwnAdds
<1>14. Published' = Published /\ load' = load /\ unread' = unread /\ writer'[Publisher].batch = c
  BY <1>1, <1>5, <1>6, <1>7 DEF Published
<1>15. Done' = Done
  <2>1. Len(c) = Len(b) + 1 /\ Len(adder') = Len(adder) - 1
    BY <1>8, <1>10
  <2>2. Done = Len(p) - Len(unread) - Len(adder) - Len(b)
        /\ Done' = Len(p) - Len(unread) - Len(adder') - Len(c)
    BY <1>14 DEF Done
  <2> HIDE DEF p, b
  <2> QED
    BY <1>9, <2>1, <2>2
<1> HIDE DEF p, b
<1>16. ASSUME NEW i \in 1 .. Len(c)
       PROVE  c[i] = p[Done + i]
  <2>1. i \in 1 .. Len(b) \/ i = Len(b) + 1
    BY <1>8, <1>9
  <2>2. CASE i \in 1 .. Len(b)
    BY <1>3, <1>8, <2>2
  <2>3. CASE i = Len(b) + 1
    <3>1. adder[1] = p[Done + Len(b) + 1] /\ Done + Len(b) + 1 = Done + i
      BY <1>2, <1>4, <1>9, <1>10, <2>3
    <3> QED
      BY <1>8, <2>3, <3>1
  <2> QED
    BY <2>1, <2>2, <2>3
<1>17. ASSUME NEW i \in 1 .. Len(adder')
       PROVE  adder'[i] = p[Done + Len(c) + i]
  <2>1. i + 1 \in 1 .. Len(adder) /\ adder'[i] = adder[i + 1]
    BY <1>9, <1>10, SMTT(30)
  <2>2. adder[i + 1] = p[Done + Len(b) + (i + 1)]
    BY <1>4, <2>1
  <2>3. Len(c) = Len(b) + 1 /\ i \in Nat
    BY <1>8
  <2>4. Done + Len(b) + (i + 1) = Done + Len(c) + i
    BY <1>2, <1>9, <2>3
  <2> QED
    BY <2>1, <2>2, <2>4
<1>18. \A i \in 1 .. Len(unread) : unread[i] = p[Done + Len(c) + Len(adder') + i]
  <2>1. Len(c) = Len(b) + 1 /\ Len(adder') = Len(adder) - 1
    BY <1>8, <1>10
  <2>2. Done + Len(c) + Len(adder') = Done + Len(b) + Len(adder)
    BY <1>2, <1>9, <2>1
  <2> QED
    BY <1>4, <2>2
<1>19. InOrder'
  BY <1>2, <1>3, <1>8, <1>10, <1>11, <1>14, <1>15, <1>16, <1>17, <1>18 DEF InOrder, p, b
<1>20. QED
  BY <1>12, <1>13, <1>19 DEF Ledger

LEMMA TimeoutLedger ==
  ASSUME KInv, Timeout
  PROVE  Ledger'
<1> DEFINE w == writer[Publisher]
           r == [w EXCEPT !.at = "insert", !.batch = w.batch]
<1>1. Publisher \in Writers /\ Publisher \notin Recipients /\ writer' = [writer EXCEPT ![Publisher] = r]
  BY PgEventsAssumption DEF Writers, Timeout, Starts
<1>2. DOMAIN w = Fields /\ w.at = "idle" /\ Adds(load.batches, Publisher, w, Kept)
  BY <1>1 DEF KInv, IInv, Place, Timeout
<1>3. r.at = "insert" /\ r.batch = w.batch /\ r.events = w.events /\ r.pos = 1
  BY <1>2 DEF Fields, Adds
<1> HIDE DEF r
<1>4. Own(r) \subseteq Own(w) /\ Adds(load.batches, Publisher, r, Kept)
  BY <1>1, <1>2, <1>3 DEF Own, Adds
<1>5. /\ UNCHANGED << load, Events, unread, adder, deleted, dropped >>
      /\ seq' \in Nat /\ seq <= seq'
  BY DEF Timeout, tables, feed, history, KInv, IInv
<1>6. QED
  BY <1>1, <1>3, <1>4, <1>5, OwnLedger

-----------------------------------------------------------------------------
(* The end of a transaction                                                *)

\* An answer leaves nothing open if what it speaks for is kept: the whole batch,
\* for the publisher in any case, for a recipient when it is told "ok".
LEMMA AnsweredLedger ==
  ASSUME KInv, NEW w \in Writers, NEW reply, Answered(w, reply),
         UNCHANGED << load, unread, adder >>, Kept \subseteq Kept',
         w = Publisher \/ (w \in Recipients /\ reply = "ok") =>
           \A i \in DOMAIN writer[w].batch : Key(writer[w].batch[i]) \in Kept',
         w \in Recipients /\ reply = "ok" => writer[w].batch = load.batches[w]
  PROVE  /\ \A v \in Writers : Adds(load'.batches, v, writer'[v], Kept')
         /\ InOrder'
<1> DEFINE r == [Idle EXCEPT !.reply = IF w = Publisher THEN "none" ELSE reply]
           p == load.publish
           b == writer[Publisher].batch
<1>1. writer' = [writer EXCEPT ![w] = r] /\ DOMAIN writer = Writers /\ Publisher \in Writers
  BY DEF Answered, KInv, IInv, Writers
<1>2. /\ r.at = "idle" /\ r.batch = << >> /\ r.pos = 1
      /\ w # Publisher => r.reply = reply
      /\ Publisher \notin Recipients
  BY PgEventsAssumption DEF Idle
<1> HIDE DEF r
<1>3. Adds(load.batches, w, r, Kept')
  BY <1>2 DEF Adds
<1>4. \A v \in Writers : Adds(load'.batches, v, writer'[v], Kept')
  BY <1>1, <1>3, OwnAdds
<1>5. CASE w # Publisher
  <2>1. writer'[Publisher].batch = b
    BY <1>1, <1>5
  <2>2. InOrder'
    BY <2>1, SameOrder
  <2>3. QED
    BY <1>4, <2>2
<1>6. CASE w = Publisher
  <2>1. writer'[Publisher].batch = << >> /\ Published' = Published /\ load' = load
        /\ unread' = unread /\ adder' = adder
    BY <1>1, <1>2, <1>6 DEF Published
  <2>2. /\ p \in Seq(Published) /\ unread \in Seq(Published) /\ adder \in Seq(Published)
        /\ b \in Seq(Published) /\ Done \in Nat
        /\ \A i \in 1 .. Done : Key(p[i]) \in Kept
        /\ \A i \in 1 .. Len(b) : b[i] = p[Done + i]
        /\ \A i \in 1 .. Len(adder) : adder[i] = p[Done + Len(b) + i]
        /\ \A i \in 1 .. Len(unread) : unread[i] = p[Done + Len(b) + Len(adder) + i]
    BY DEF KInv, InOrder
  <2>3. /\ Len(unread) \in Nat /\ Len(adder) \in Nat /\ Len(b) \in Nat /\ Len(p) \in Nat
        /\ DOMAIN b = 1 .. Len(b)
    BY <2>2
  <2>4. Done' = Done + Len(b) /\ Done' \in Nat
    BY <2>1, <2>2, <2>3 DEF Done
  <2>5. ASSUME NEW i \in 1 .. Done'
        PROVE  Key(p[i]) \in Kept'
    <3>1. CASE i <= Done
      <4>1. i \in 1 .. Done
        BY <2>2, <2>4, <3>1
      <4>2. QED
        BY <2>2, <4>1
    <3>2. CASE i > Done
      <4>1. i - Done \in 1 .. Len(b) /\ Done + (i - Done) = i
        BY <2>2, <2>3, <2>4, <3>2
      <4>2. b[i - Done] = p[i]
        BY <2>2, <4>1
      <4>3. Key(b[i - Done]) \in Kept'
        BY <1>6, <2>3, <4>1
      <4>4. QED
        BY <4>2, <4>3
    <3>3. QED
      BY <2>2, <2>4, <3>1, <3>2
  <2>6. << >> \in Seq(Published) /\ Len(<< >>) = 0
    OBVIOUS
  <2>7. Done' + 0 = Done + Len(b)
    BY <2>2, <2>3, <2>4
  <2>8. /\ \A i \in 1 .. Len(adder) : adder[i] = p[Done' + 0 + i]
        /\ \A i \in 1 .. Len(unread) : unread[i] = p[Done' + 0 + Len(adder) + i]
    BY <2>2, <2>7
  <2>9. InOrder'
    BY <2>1, <2>2, <2>4, <2>5, <2>6, <2>7, <2>8 DEF InOrder
  <2>10. QED
    BY <1>4, <2>9
<1>7. QED
  BY <1>5, <1>6

\* A commit adds rows and takes away those it says are deleted, but replaces none.
LEMMA CommitKeeps ==
  ASSUME KInv, NEW w \in Writers, Commit(w)
  PROVE  /\ FreshIds'
         /\ Kept \subseteq Kept'
         /\ KeysOf(writer[w].events) \subseteq Kept'
<1> DEFINE r == writer[w]
           D == DOMAIN Events
           idle == [Idle EXCEPT !.reply = IF w = Publisher THEN "none" ELSE "ok"]
<1>1. /\ Events' = Applied(Events, r.gone, r.events)
      /\ deleted' = deleted \cup { Key(Events[i]) : i \in r.gone }
      /\ dropped' = dropped /\ seq' = seq
      /\ writer' = [writer EXCEPT ![w] = idle]
  BY DEF Commit, Answered
<1>2. /\ r.at # "conflict" /\ DOMAIN writer = Writers
      /\ D \subseteq 1 .. seq
      /\ \A v \in Writers :
           /\ Own(writer[v]) \subseteq (1 .. seq) \ D
           /\ writer[v].at = "conflict" => writer[v].id \notin DOMAIN writer[v].events
      /\ \A v, u \in Writers : v # u => Own(writer[v]) \cap Own(writer[u]) = {}
  BY DEF Commit, Complete, KInv, IInv, FreshIds
<1>3. DOMAIN r.events = Own(r) /\ DOMAIN r.events \cap D = {}
  BY <1>2 DEF Own
<1>4. /\ DOMAIN Events' = (D \ r.gone) \cup DOMAIN r.events
      /\ \A i \in DOMAIN r.events : Events'[i] = r.events[i]
      /\ \A i \in D \ r.gone : Events'[i] = Events[i]
  BY <1>1, <1>3 DEF Applied
<1>5. KeysOf(r.events) \subseteq KeysOf(Events')
  BY <1>4 DEF KeysOf
<1>6. KeysOf(Events) \subseteq KeysOf(Events') \cup deleted'
  BY <1>1, <1>4 DEF KeysOf
<1>7. Kept \subseteq Kept' /\ KeysOf(r.events) \subseteq Kept'
  BY <1>1, <1>5, <1>6 DEF Kept
<1>8. idle.at = "idle" /\ DOMAIN idle.events = {}
  BY DEF Idle
<1> HIDE DEF idle
<1>9. Own(idle) = {}
  BY <1>8 DEF Own
<1>10. DOMAIN Events' \subseteq 1 .. seq
  BY <1>2, <1>3, <1>4
<1>11. ASSUME NEW v \in Writers
       PROVE  /\ Own(writer'[v]) \subseteq (1 .. seq) \ DOMAIN Events'
              /\ writer'[v].at = "conflict" => writer'[v].id \notin DOMAIN writer'[v].events
              /\ Own(writer'[v]) \subseteq Own(writer[v])
  <2>1. CASE v = w
    BY <1>1, <1>2, <1>8, <1>9, <2>1
  <2>2. CASE v # w
    <3>1. writer'[v] = writer[v] /\ Own(writer[v]) \cap Own(r) = {}
      BY <1>1, <1>2, <2>2
    <3>2. QED
      BY <1>2, <1>3, <1>4, <3>1
  <2>3. QED
    BY <2>1, <2>2
<1>12. \A v, u \in Writers : v # u => Own(writer'[v]) \cap Own(writer'[u]) = {}
  BY <1>2, <1>11
<1>13. FreshIds'
  BY <1>1, <1>10, <1>11, <1>12 DEF FreshIds
<1>14. QED
  BY <1>7, <1>13

LEMMA CommitLedger ==
  ASSUME KInv, NEW w \in Writers, Commit(w)
  PROVE  Ledger'
<1> DEFINE r == writer[w]
<1>1. FreshIds' /\ Kept \subseteq Kept' /\ KeysOf(r.events) \subseteq Kept'
  BY CommitKeeps
<1>2. Answered(w, "ok") /\ UNCHANGED << load, unread, adder >> /\ (r.at = "insert" \/ r.at = "commit")
  BY DEF Commit, Complete, feed
<1>3. ASSUME w # Deleter
      PROVE  /\ \A i \in DOMAIN r.batch : Key(r.batch[i]) \in Kept'
             /\ w \in Recipients => r.batch = load.batches[w]
  <2>1. Place(load.deletes, w, r, DOMAIN Events) /\ Adds(load.batches, w, r, Kept)
    BY DEF KInv, IInv
  <2>2. r.at = "insert"
    BY <1>2, <1>3, <2>1 DEF Place
  <2>3. r.pos > Len(r.batch)
    BY <2>2 DEF Commit, Complete
  <2>4. /\ Len(r.batch) \in Nat /\ DOMAIN r.batch = 1 .. Len(r.batch) /\ r.pos \in Nat
        /\ \A i \in DOMAIN r.batch : i < r.pos => Key(r.batch[i]) \in Kept \cup KeysOf(r.events)
        /\ w \in Recipients => r.batch = load.batches[w]
    BY <2>1, <2>2 DEF Adds
  <2>5. ASSUME NEW i \in DOMAIN r.batch
        PROVE  Key(r.batch[i]) \in Kept'
    <3>1. i \in Nat /\ i <= Len(r.batch)
      BY <2>3, <2>4
    <3>2. i < r.pos
      BY <2>3, <2>4, <3>1
    <3>3. QED
      BY <1>1, <2>4, <3>2
  <2>6. QED
    BY <2>4, <2>5
<1>4. w \in Recipients => w # Deleter
  BY PgEventsAssumption
<1>5. w = Publisher => w # Deleter
  BY PgEventsAssumption
<1>6. /\ \A v \in Writers : Adds(load'.batches, v, writer'[v], Kept')
      /\ InOrder'
  BY <1>1, <1>2, <1>3, <1>4, <1>5, AnsweredLedger
<1>7. QED
  BY <1>1, <1>6 DEF Ledger

\* A transaction that ends without a commit gives its ids up.
LEMMA AnsweredIds ==
  ASSUME KInv, NEW w \in Writers, NEW reply, Answered(w, reply), UNCHANGED << Events, seq >>
  PROVE  FreshIds'
<1> DEFINE r == [Idle EXCEPT !.reply = IF w = Publisher THEN "none" ELSE reply]
<1>1. writer' = [writer EXCEPT ![w] = r] /\ seq' \in Nat /\ seq <= seq'
  BY DEF Answered, KInv, IInv
<1>2. r.at = "idle" /\ DOMAIN r.events = {}
  BY DEF Idle
<1> HIDE DEF r
<1>3. Own(r) = {}
  BY <1>2 DEF Own
<1>4. QED
  BY <1>1, <1>2, <1>3, OwnIds

LEMMA CommitFailsLedger ==
  ASSUME KInv, NEW w \in Writers, CommitFails(w)
  PROVE  Ledger'
<1> DEFINE reply == IF w = Deleter THEN "error" ELSE "ok"
<1>1. /\ Answered(w, reply) /\ UNCHANGED << load, unread, adder, Events, seq, deleted >>
      /\ dropped' = dropped \cup { Key(writer[w].batch[i]) : i \in DOMAIN writer[w].batch }
      /\ writer[w].at \in {"insert", "commit"}
  BY DEF CommitFails, GiveUp, Complete, tables, feed
<1>2. Kept \subseteq Kept' /\ \A i \in DOMAIN writer[w].batch : Key(writer[w].batch[i]) \in Kept'
  BY <1>1 DEF Kept
<1>3. ASSUME w \in Recipients PROVE writer[w].batch = load.batches[w]
  <2>1. w # Deleter /\ Place(load.deletes, w, writer[w], DOMAIN Events)
        /\ Adds(load.batches, w, writer[w], Kept)
    BY <1>3, PgEventsAssumption DEF KInv, IInv
  <2>2. writer[w].at = "insert"
    BY <1>1, <2>1 DEF Place
  <2>3. QED
    BY <1>3, <2>1, <2>2 DEF Adds
<1> HIDE DEF reply
<1>4. FreshIds'
  BY <1>1, AnsweredIds
<1>5. /\ \A v \in Writers : Adds(load'.batches, v, writer'[v], Kept')
      /\ InOrder'
  BY <1>1, <1>2, <1>3, AnsweredLedger
<1>6. QED
  BY <1>4, <1>5 DEF Ledger

\* Nobody is told "ok" when a transaction is rolled back, and what the publisher
\* loses by it is given up.
LEMMA RollBackLedger ==
  ASSUME KInv, NEW w \in Writers, RollBack(w)
  PROVE  Ledger'
<1>1. /\ Answered(w, "error") /\ UNCHANGED << load, unread, adder, Events, seq, deleted >>
      /\ dropped \subseteq dropped'
      /\ w = Publisher =>
           dropped' = dropped \cup { Key(writer[w].batch[i]) : i \in DOMAIN writer[w].batch }
  BY DEF RollBack, GiveUp, tables, feed, history
<1>2. /\ Kept \subseteq Kept'
      /\ w = Publisher => \A i \in DOMAIN writer[w].batch : Key(writer[w].batch[i]) \in Kept'
  BY <1>1 DEF Kept
<1>3. FreshIds'
  BY <1>1, AnsweredIds
<1>4. /\ \A v \in Writers : Adds(load'.batches, v, writer'[v], Kept')
      /\ InOrder'
  BY <1>1, <1>2, AnsweredLedger
<1>5. QED
  BY <1>3, <1>4 DEF Ledger

-----------------------------------------------------------------------------

LEMMA InitLedger == Init => Ledger
<1> SUFFICES ASSUME Init PROVE Ledger
  OBVIOUS
<1>1. /\ load \in Workloads /\ Events = load.stored /\ seq = Len(load.stored)
      /\ unread = load.publish /\ adder = << >> /\ \A w \in Writers : writer[w] = Idle
  BY DEF Init
<1>2. Idle.at = "idle" /\ Idle.batch = << >> /\ Idle.pos = 1 /\ Idle.reply = "none" /\ DOMAIN Idle.events = {}
  BY DEF Idle
<1>3. seq \in Nat /\ DOMAIN Events = 1 .. seq
  BY <1>1, PgEventsAssumption
<1>4. Own(Idle) = {}
  BY <1>2 DEF Own
<1>5. FreshIds
  BY <1>1, <1>2, <1>3, <1>4 DEF FreshIds
<1>6. ASSUME NEW w \in Writers PROVE Adds(load.batches, w, writer[w], Kept)
  <2>1. Len(<< >>) \in Nat /\ DOMAIN << >> = 1 .. Len(<< >>)
    OBVIOUS
  <2>2. QED
    BY <1>1, <1>2, <2>1 DEF Adds
<1>7. load.publish \in Seq(Published)
  BY <1>1, PgEventsAssumption DEF Published
<1>8. writer[Publisher].batch = << >>
  BY <1>1, <1>2 DEF Writers
<1>9. Len(unread) \in Nat /\ Len(adder) = 0 /\ Len(writer[Publisher].batch) = 0
  BY <1>1, <1>7, <1>8
<1>10. Done = 0
  <2>1. Done = Len(unread) - Len(unread) - 0 - 0
    BY <1>1, <1>9 DEF Done
  <2>2. QED
    BY <1>9, <2>1
<1>11. InOrder
  <2>1. << >> \in Seq(Published)
    OBVIOUS
  <2>2. \A i \in 1 .. Len(unread) : unread[i] = load.publish[0 + 0 + 0 + i]
    BY <1>1
  <2>3. QED
    BY <1>1, <1>7, <1>8, <1>9, <1>10, <2>1, <2>2 DEF InOrder
<1>12. QED
  BY <1>5, <1>6, <1>11 DEF Ledger

LEMMA NoStepLedger ==
  ASSUME KInv, UNCHANGED << load, tables, seq, writer, feed, history >>
  PROVE  Ledger'
<1>1. Kept' = Kept /\ Done' = Done /\ Published' = Published
  BY DEF Kept, Done, Published, tables, feed, history
<1>2. QED
  BY <1>1 DEF KInv, Ledger, FreshIds, InOrder, tables, feed, history

LEMMA StepLedger == KInv /\ [Write \/ Elsewhere]_store => Ledger'
<1> SUFFICES ASSUME KInv, [Write \/ Elsewhere]_store PROVE Ledger'
  OBVIOUS
<1>1. CASE PublishEvent
  BY <1>1, PublishEventLedger
<1>2. CASE TakeEvent
  BY <1>2, TakeEventLedger
<1>3. CASE Timeout
  BY <1>3, TimeoutLedger
<1>4. CASE BeginDelete
  BY <1>4, DeleteLedger
<1>5. ASSUME NEW w \in Writers, Receive(w) \/ Statement(w)
      PROVE  Ledger'
  <2>1. CASE Deadlock(w)
    BY <2>1, RollBackLedger DEF Deadlock
  <2>2. QED
    BY <1>5, <2>1, ReceiveLedger, DrawIdLedger, SkipDuplicateLedger, InsertEventLedger,
       InsertRawLedger, DeleteLedger, CommitLedger DEF Statement
<1>6. ASSUME NEW w \in Writers, CommitFails(w)
      PROVE  Ledger'
  BY <1>6, CommitFailsLedger
<1>7. ASSUME NEW w \in Writers, StatementFails(w)
      PROVE  Ledger'
  BY <1>7, RollBackLedger DEF StatementFails
<1>8. CASE Elsewhere \/ UNCHANGED store
  BY <1>8, NoStepLedger DEF Elsewhere, store, tables, feed, history
<1>9. QED
  BY <1>1, <1>2, <1>3, <1>4, <1>5, <1>6, <1>7, <1>8 DEF Write

\* What Ledger says of the writers is what AckedIsStored asks.
LEMMA LedgerAcked == KInv => AckedIsStored
<1> SUFFICES ASSUME KInv PROVE AckedIsStored
  OBVIOUS
<1> DEFINE p == load.publish
           done == SubSeq(p, 1, Done)
<1>1. \A w \in Recipients : Adds(load.batches, w, writer[w], Kept)
  BY DEF KInv, Writers
<1>2. \A w \in Recipients :
        writer[w].reply = "ok" => \A i \in DOMAIN load.batches[w] : Key(load.batches[w][i]) \in Kept
  BY <1>1 DEF Adds
<1>3. p \in Seq(Published) /\ Done \in Nat /\ \A i \in 1 .. Done : Key(p[i]) \in Kept
  BY DEF KInv, InOrder
<1>4. DOMAIN done = 1 .. Done /\ \A i \in 1 .. Done : done[i] = p[i]
  BY <1>3
<1>5. \A i \in DOMAIN done : Key(done[i]) \in Kept
  BY <1>3, <1>4
<1> HIDE DEF done
<1>6. QED
  BY <1>2, <1>5 DEF AckedIsStored, Kept, Done, done

\* No forwarder is told that a batch is stored, and no event of the files read
\* here leaves the publisher's hands, without being in the table, unless it was
\* deleted or the program has given it up: for any number of forwarders and any
\* batches, whatever the transactions do to each other, and whatever statements,
\* commits and deadlocks fail (PostgresEventRepository.go:73-165,
\* EventPublishers.go:31-92, RecipientEndpoint.go:93-162).
THEOREM AcknowledgedIsStored == WriteSpec => []AckedIsStored
<1>1. Init => KInv
  BY InitIInv, InitLedger DEF KInv, Ledger
<1>2. KInv /\ [Write \/ Elsewhere]_store => KInv'
  BY StepIInv, StepLedger DEF KInv, Ledger
<1>3. QED
  BY <1>1, <1>2, LedgerAcked, PTL DEF WriteSpec

-----------------------------------------------------------------------------
(* A search and the writers                                                *)

\* Whatever the search does, it leaves the writers and what they write alone.
LEMMA JobSteps == StartJob \/ Abort \/ Goroutines => UNCHANGED Stored
<1> SUFFICES ASSUME StartJob \/ Abort \/ Goroutines PROVE UNCHANGED Stored
  OBVIOUS
<1>1. CASE StartJob \/ Abort
  BY <1>1, Zenon DEF StartJob, Abort, Stored
<1>2. CASE OpenStream \/ QueryPage
  BY <1>2, Zenon DEF OpenStream, QueryPage, StreamOnly, Stored
<1>3. CASE StartSearch \/ SearchPage \/ SearchEnds \/ StartSurrounding
  BY <1>3, Zenon DEF StartSearch, SearchPage, SearchEnds, StartSurrounding, StepsOnly, Stored
<1>4. CASE \E i \in DOMAIN chain : Receives(i) \/ InputEnds(i) \/ Sends(i)
  BY <1>4, Zenon DEF Receives, InputEnds, Sends, StepsOnly, Stored
<1>5. CASE TakeResult \/ AddResults \/ AddFieldStats \/ SeeClosed \/ SeeCancelled \/ UpdateState
  BY <1>5, Zenon DEF TakeResult, AddResults, AddFieldStats, SeeClosed, SeeCancelled, UpdateState,
     EngineOnly, Stored
<1>6. QED
  BY <1>1, <1>2, <1>3, <1>4, <1>5, Zenon DEF Goroutines

LEMMA NextWrites == [Next]_allVars => [Write \/ Elsewhere]_store
<1> SUFFICES ASSUME [Next]_allVars PROVE [Write \/ Elsewhere]_store
  OBVIOUS
<1>1. CASE StartJob \/ Abort \/ Goroutines
  BY <1>1, JobSteps DEF Elsewhere, Stored, tables
<1>2. CASE Write
  BY <1>2
<1>3. CASE UNCHANGED allVars
  BY <1>3 DEF allVars, store
<1>4. QED
  BY <1>1, <1>2, <1>3 DEF Next

\* A search with its writers implements the specification of the writers: for the
\* tables, a search is one of those who may fail or stop the process, and no more.
THEOREM SearchLeavesStore == Spec => WriteSpec
<1>1. JobInit => Init
  BY DEF JobInit
<1>2. QED
  BY <1>1, NextWrites, PTL DEF Spec, WriteSpec

-----------------------------------------------------------------------------
(* Numbers.  There are least and greatest ones, and induction.             *)

LEMMA LeastNumber ==
  ASSUME NEW S \in SUBSET Nat, S # {}
  PROVE  \E n \in S : \A m \in S : n <= m
<1>1. PICK R : IsWellFoundedOn(R, Nat) /\ \A m, n \in Nat : m < n => << m, n >> \in R
  <2>1. \A m, n \in Nat : m < n => << m, n >> \in OpToRel(<, Nat)
    BY DEF OpToRel
  <2>2. QED
    BY <2>1, NatLessThanWellFounded
<1>2. PICK n \in S : \A m \in S : ~ (<< m, n >> \in R)
  <2>1. IsWellFoundedOn(R, Nat) /\ S \subseteq Nat
    BY <1>1
  <2>2. QED
    BY <2>1, WFMin, Zenon
<1>3. ASSUME NEW m \in S PROVE n <= m
  <2>1. n \in Nat /\ m \in Nat
    OBVIOUS
  <2>2. ~ (m < n)
    BY <1>1, <1>2, <2>1, Zenon
  <2>3. QED
    BY <2>1, <2>2
<1>4. QED
  BY <1>3

\* Induction over the natural numbers, for the set of those that have a property.
LEMMA Induction ==
  ASSUME NEW S \in SUBSET Nat, 0 \in S, \A n \in S : n + 1 \in S
  PROVE  S = Nat
<1> SUFFICES ASSUME S # Nat PROVE FALSE
  OBVIOUS
<1>1. PICK n \in Nat \ S : \A m \in Nat \ S : n <= m
  BY LeastNumber
<1>2. n # 0 /\ n - 1 \in Nat /\ n - 1 < n /\ (n - 1) + 1 = n
  BY <1>1
<1>3. n - 1 \in S
  BY <1>1, <1>2
<1>4. QED
  BY <1>1, <1>2, <1>3

LEMMA GreatestNumber ==
  ASSUME NEW n \in Nat, NEW S \in SUBSET (1 .. n), S # {}
  PROVE  Max(S) \in S /\ \A m \in S : m <= Max(S)
<1> DEFINE T == { k \in Nat : n - k \in S }
<1>1. T # {}
  <2>1. PICK m \in S : TRUE
    OBVIOUS
  <2>2. n - m \in Nat /\ n - (n - m) = m
    OBVIOUS
  <2>3. QED
    BY <2>2
<1>2. PICK k \in T : \A j \in T : k <= j
  BY <1>1, LeastNumber
<1>3. n - k \in S
  BY <1>2
<1>4. ASSUME NEW m \in S PROVE n - k >= m
  <2>1. n - m \in T
    <3>1. n - m \in Nat /\ n - (n - m) = m
      OBVIOUS
    <3>2. QED
      BY <3>1
  <2>2. k <= n - m /\ k \in Nat
    BY <1>2, <2>1
  <2>3. QED
    BY <2>2
<1> HIDE DEF T
<1>5. Max(S) \in S /\ \A m \in S : Max(S) >= m
  BY <1>3, <1>4 DEF Max
<1>6. QED
  BY <1>5

LEMMA SmallestNumber ==
  ASSUME NEW n \in Nat, NEW S \in SUBSET (1 .. n), S # {}
  PROVE  Min(S) \in S /\ \A m \in S : Min(S) <= m
<1>1. S \in SUBSET Nat
  OBVIOUS
<1>2. PICK k \in S : \A m \in S : k <= m
  BY <1>1, LeastNumber
<1>3. QED
  BY <1>2 DEF Min

-----------------------------------------------------------------------------
(* Loops.  A loop that stays within a set of states can be run for any     *)
(* number of rounds, and is in one of these states after each.             *)

Run(f, T, start, step, n) ==
  /\ f \in [0 .. n -> T] /\ f[0] = start
  /\ \A i \in 1 .. n : f[i] = step[i][f[i - 1]]

LEMMA Runs ==
  ASSUME NEW T, NEW start \in T, NEW step \in [Nat -> [T -> T]], NEW n \in Nat
  PROVE  \E f : Run(f, T, start, step, n)
<1> DEFINE N == { m \in Nat : \E f : Run(f, T, start, step, m) }
<1>1. 0 \in N
  <2>1. Run([ i \in 0 .. 0 |-> start ], T, start, step, 0)
    BY DEF Run
  <2>2. QED
    BY <2>1
<1>2. ASSUME NEW m \in N PROVE m + 1 \in N
  <2>1. m \in Nat /\ m + 1 \in Nat
    OBVIOUS
  <2>2. PICK f : Run(f, T, start, step, m)
    OBVIOUS
  <2> DEFINE g == [ i \in 0 .. m + 1 |-> IF i = m + 1 THEN step[m + 1][f[m]] ELSE f[i] ]
  <2>3. f[m] \in T /\ step[m + 1][f[m]] \in T
    BY <2>1, <2>2 DEF Run
  <2>4. g \in [0 .. m + 1 -> T]
    BY <2>1, <2>2, <2>3 DEF Run
  <2>5. g[0] = start
    BY <2>1, <2>2 DEF Run
  <2>6. ASSUME NEW i \in 1 .. m + 1 PROVE g[i] = step[i][g[i - 1]]
    <3>1. CASE i = m + 1
      <4>1. i - 1 = m /\ m \in 0 .. m + 1 /\ m # m + 1 /\ i \in 0 .. m + 1
        BY <2>1, <3>1
      <4>2. g[m] = f[m] /\ g[i] = step[m + 1][f[m]]
        BY <3>1, <4>1
      <4>3. QED
        BY <3>1, <4>1, <4>2
    <3>2. CASE i # m + 1
      <4>1. i \in 1 .. m /\ i - 1 \in 0 .. m /\ i - 1 # m + 1
        BY <2>1, <3>2
      <4>2. g[i] = f[i] /\ g[i - 1] = f[i - 1]
        BY <2>1, <3>2, <4>1
      <4>3. QED
        BY <2>2, <4>1, <4>2 DEF Run
    <3>3. QED
      BY <3>1, <3>2
  <2> HIDE DEF g
  <2>7. Run(g, T, start, step, m + 1)
    BY <2>4, <2>5, <2>6 DEF Run
  <2>8. QED
    BY <2>1, <2>7
<1>3. N = Nat
  <2> HIDE DEF N
  <2>1. N \in SUBSET Nat
    BY DEF N
  <2>2. QED
    BY <1>1, <1>2, <2>1, Induction
<1>4. QED
  BY <1>3

LEMMA Stays ==
  ASSUME NEW T, NEW n \in Nat, NEW f, f[0] \in T,
         \A i \in 1 .. n : f[i - 1] \in T => f[i] \in T
  PROVE  \A i \in 0 .. n : f[i] \in T
<1> DEFINE N == { i \in Nat : i <= n => f[i] \in T }
<1>1. 0 \in N
  OBVIOUS
<1>2. ASSUME NEW i \in N PROVE i + 1 \in N
  <2>1. i \in Nat /\ (i + 1) - 1 = i
    OBVIOUS
  <2>2. ASSUME i + 1 <= n PROVE f[i + 1] \in T
    <3>1. i + 1 \in 1 .. n /\ f[i] \in T
      BY <2>1, <2>2
    <3>2. QED
      BY <2>1, <3>1
  <2>3. QED
    BY <2>1, <2>2
<1>3. N = Nat
  <2> HIDE DEF N
  <2>1. N \in SUBSET Nat
    BY DEF N
  <2>2. QED
    BY <1>1, <1>2, <2>1, Induction
<1>4. QED
  BY <1>3

-----------------------------------------------------------------------------
(* The lexer, for a text of atoms in A                                     *)

Typ == { Symbols[c] : c \in DOMAIN Symbols } \cup {"keyword", "string", "quoted"}

Tokens(A) == [typ : Typ, value : Seq(A)]

LexStates(A) ==
  { s \in [tokens : Seq(Tokens(A)), word : Seq(A), open : BOOLEAN] : s.open => Quote \in A }

\* Where there are quotes, words may be cut.
Closed(A) == Quote \in A => \A w \in A : CutWord(w) \in A

LEMMA TokenIs ==
  ASSUME NEW A, NEW typ \in Typ, NEW value \in Seq(A)
  PROVE  Token(typ, value) \in Tokens(A)
BY DEF Token, Tokens

\* A state of the lexer with another value of one of its parts.
LEMMA LexTokens ==
  ASSUME NEW A, NEW s \in LexStates(A), NEW tokens \in Seq(Tokens(A))
  PROVE  /\ [s EXCEPT !.tokens = tokens] \in LexStates(A)
         /\ [s EXCEPT !.word = << >>, !.tokens = tokens] \in LexStates(A)
         /\ [s EXCEPT !.open = FALSE, !.word = << >>, !.tokens = tokens] \in LexStates(A)
<1>1. << >> \in Seq(A)
  OBVIOUS
<1>2. /\ [s EXCEPT !.tokens = tokens] \in LexStates(A)
      /\ [s EXCEPT !.word = << >>, !.tokens = tokens] \in LexStates(A)
  BY <1>1 DEF LexStates
<1>3. [s EXCEPT !.open = FALSE, !.word = << >>, !.tokens = tokens] \in LexStates(A)
  BY <1>1 DEF LexStates
<1>4. QED
  BY <1>2, <1>3

LEMMA LexWord ==
  ASSUME NEW A, NEW s \in LexStates(A), NEW word \in Seq(A)
  PROVE  [s EXCEPT !.word = word] \in LexStates(A)
BY DEF LexStates

LEMMA AddWordIs ==
  ASSUME NEW A, NEW s \in LexStates(A)
  PROVE  AddWord(s) \in LexStates(A)
<1> DEFINE typ == IF s.word \in {<< "IN" >>, << "NOT" >>} THEN "keyword" ELSE "string"
           token == Token(typ, s.word)
<1>1. s.word \in Seq(A) /\ s.tokens \in Seq(Tokens(A)) /\ << >> \in Seq(A)
  BY DEF LexStates
<1>2. typ \in Typ
  BY DEF Typ
<1> HIDE DEF typ
<1>3. token \in Tokens(A)
  BY <1>1, <1>2, TokenIs
<1> HIDE DEF token
<1>4. Append(s.tokens, token) \in Seq(Tokens(A))
  BY <1>1, <1>3
<1>5. [s EXCEPT !.word = << >>, !.tokens = Append(s.tokens, token)] \in LexStates(A)
  BY <1>4, LexTokens
<1>6. QED
  BY <1>5 DEF AddWord, token, typ

LEMMA LexAtomIs ==
  ASSUME NEW A, Closed(A), NEW s \in LexStates(A), NEW c \in A
  PROVE  LexAtom(s, c) \in LexStates(A)
<1>1. s.word \in Seq(A) /\ s.tokens \in Seq(Tokens(A)) /\ << >> \in Seq(A) /\ s.open \in BOOLEAN
      /\ (s.open => Quote \in A)
  BY DEF LexStates
<1>2. CASE s.open /\ c = Quote
  <2> DEFINE token == Token("quoted", Between(s.word))
  <2>1. "quoted" \in Typ
    BY DEF Typ
  <2>2. Between(s.word) \in Seq(A)
    <3>1. CASE s.word = << >>
      BY <1>2, <3>1 DEF Between
    <3>2. CASE s.word # << >>
      <4>1. Len(s.word) \in DOMAIN s.word /\ s.word[Len(s.word)] \in A
        BY <1>1, <3>2
      <4>2. CutWord(s.word[Len(s.word)]) \in A
        BY <1>2, <4>1 DEF Closed
      <4>3. QED
        BY <1>1, <3>2, <4>1, <4>2 DEF Between
    <3>3. QED
      BY <3>1, <3>2
  <2>3. token \in Tokens(A)
    BY <2>1, <2>2, TokenIs
  <2> HIDE DEF token
  <2>4. Append(s.tokens, token) \in Seq(Tokens(A))
    BY <1>1, <2>3
  <2>5. [s EXCEPT !.open = FALSE, !.word = << >>, !.tokens = Append(s.tokens, token)] \in LexStates(A)
    BY <2>4, LexTokens
  <2>6. LexAtom(s, c) = [s EXCEPT !.open = FALSE, !.word = << >>, !.tokens = Append(s.tokens, token)]
    BY <1>2 DEF LexAtom, token
  <2>7. QED
    BY <2>5, <2>6
<1>3. CASE s.open /\ c # Quote
  <2> DEFINE word == Append(s.word, IF c = Escaped THEN Quote ELSE c)
  <2>1. word \in Seq(A)
    BY <1>1, <1>3
  <2>2. LexAtom(s, c) = [s EXCEPT !.word = word]
    BY <1>3 DEF LexAtom
  <2> HIDE DEF word
  <2>3. QED
    BY <2>1, <2>2, LexWord
<1>4. CASE ~s.open /\ c = Quote /\ s.word = << >>
  <2>1. LexAtom(s, c) = [s EXCEPT !.open = TRUE]
    <3>1. c \notin DOMAIN Symbols
      BY <1>4 DEF Symbols, Quote
    <3>2. QED
      BY <1>4, <3>1 DEF LexAtom
  <2>2. QED
    BY <1>4, <2>1 DEF LexStates
<1>5. CASE ~s.open /\ ~(c = Quote /\ s.word = << >>) /\ c \in DOMAIN Symbols
  <2> DEFINE token == Token(Symbols[c], << c >>)
             t == AddWord(s)
  <2>1. t \in LexStates(A) /\ t.tokens \in Seq(Tokens(A))
    BY AddWordIs DEF LexStates
  <2>2. Symbols[c] \in Typ /\ << c >> \in Seq(A)
    BY <1>5 DEF Typ
  <2>3. token \in Tokens(A)
    BY <2>2, TokenIs
  <2>4. LexAtom(s, c) = [t EXCEPT !.tokens = Append(t.tokens, token)]
    BY <1>5 DEF LexAtom
  <2> HIDE DEF token, t
  <2>5. Append(t.tokens, token) \in Seq(Tokens(A))
    BY <2>1, <2>3
  <2>6. QED
    BY <2>1, <2>4, <2>5, LexTokens, ZenonT(30)
<1>6. CASE ~s.open /\ ~(c = Quote /\ s.word = << >>) /\ c \notin DOMAIN Symbols
  <2>1. LexAtom(s, c) = [s EXCEPT !.word = Append(s.word, c)]
    BY <1>6 DEF LexAtom
  <2>2. Append(s.word, c) \in Seq(A)
    BY <1>1
  <2>3. QED
    BY <2>1, <2>2, LexWord
<1>7. QED
  BY <1>1, <1>2, <1>3, <1>4, <1>5, <1>6

Lexing(f, text) ==
  f = [ n \in 0 .. Len(text) |-> IF n = 0 THEN LexStart ELSE LexAtom(f[n - 1], text[n]) ]

\* The lexer comes to an end with every text but one with a "!"; what its tokens
\* are made of was in the text.
LEMMA TokenizeIs ==
  ASSUME NEW A, Closed(A), NEW text \in Seq(A)
  PROVE  \/ tokenize(text).res = "endless" /\ "!" \in A
         \/ tokenize(text).res = "error"
         \/ tokenize(text).res = "ok" /\ tokenize(text).tokens \in Seq(Tokens(A))
<1> DEFINE n == Len(text)
           T == LexStates(A)
           step == [ i \in Nat |-> [ s \in T |-> IF i \in 1 .. n THEN LexAtom(s, text[i]) ELSE s ] ]
<1>1. n \in Nat /\ \A i \in 1 .. n : text[i] \in A
  OBVIOUS
<1>2. LexStart \in T
  BY DEF LexStart, LexStates
<1>3. step \in [Nat -> [T -> T]]
  BY <1>1, LexAtomIs
<1>4. PICK f : Run(f, T, LexStart, step, n)
  <2> HIDE DEF T, step, n
  <2>1. QED
    BY <1>1, <1>2, <1>3, Runs
<1>5. f \in [0 .. n -> T] /\ f[0] = LexStart /\ \A i \in 1 .. n : f[i] = LexAtom(f[i - 1], text[i])
  BY <1>1, <1>4, SMTT(30) DEF Run
<1>6. Lexing(f, text)
  BY <1>1, <1>5 DEF Lexing
<1> DEFINE g == CHOOSE h : Lexing(h, text)
<1>7. Lexing(g, text)
  BY <1>6
<1> HIDE DEF g, T, step
<1>8. g[0] \in T
  BY <1>1, <1>2, <1>7 DEF Lexing
<1>9. ASSUME NEW i \in 1 .. n, g[i - 1] \in T
      PROVE  g[i] \in T
  <2>1. g[i] = LexAtom(g[i - 1], text[i])
    BY <1>1, <1>7 DEF Lexing
  <2>2. QED
    BY <1>1, <1>9, <2>1, LexAtomIs DEF T
<1>10. g[n] \in T
  <2>1. \A i \in 0 .. n : g[i] \in T
    BY <1>1, <1>8, <1>9, Stays
  <2>2. QED
    BY <1>1, <2>1
<1>11. AddWord(g[n]).tokens \in Seq(Tokens(A))
  BY <1>10, AddWordIs DEF T, LexStates
<1>12. tokenize(text) =
        CASE \E i \in DOMAIN text : text[i] = "!" /\ ~g[i - 1].open -> [res |-> "endless", tokens |-> << >>]
          [] g[n].open -> [res |-> "error", tokens |-> << >>]
          [] OTHER -> [res |-> "ok", tokens |-> AddWord(g[n]).tokens]
  BY DEF tokenize, g, Lexing
<1>13. QED
  BY <1>1, <1>11, <1>12

-----------------------------------------------------------------------------
(* The parsers, for tokens of atoms in A                                   *)

LEMMA FromIs ==
  ASSUME NEW X, NEW s \in Seq(X), NEW n \in 1 .. Len(s) + 1
  PROVE  SubSeq(s, n, Len(s)) \in Seq(X)
OBVIOUS

LEMMA SkipSpaceIs ==
  ASSUME NEW X, NEW toks \in Seq(X)
  PROVE  SkipSpace(toks) \in Seq(X)
<1> DEFINE I == { i \in 1 .. Len(toks) : toks[i].typ # "whitespace" }
           first == IF I # {} THEN Min(I) ELSE 0
<1>1. Len(toks) \in Nat
  OBVIOUS
<1>2. first = 0 \/ first \in 1 .. Len(toks)
  <2>1. I \in SUBSET (1 .. Len(toks))
    OBVIOUS
  <2> HIDE DEF I
  <2>2. I # {} => Min(I) \in I
    BY <1>1, <2>1, SmallestNumber
  <2>3. QED
    BY <2>1, <2>2
<1>3. SkipSpace(toks) = IF first = 0 THEN << >> ELSE SubSeq(toks, first, Len(toks))
  BY DEF SkipSpace, SelectInSeq
<1> HIDE DEF first
<1>4. CASE first = 0
  BY <1>3, <1>4
<1>5. CASE first \in 1 .. Len(toks)
  <2>1. first # 0 /\ first \in 1 .. Len(toks) + 1
    BY <1>1, <1>5
  <2>2. QED
    BY <1>3, <2>1, FromIs
<1>6. QED
  BY <1>2, <1>4, <1>5

\* A token that is looked at, and what is behind it.
LEMMA PeekIs ==
  ASSUME NEW A, NEW toks \in Seq(Tokens(A)), Peek(toks) # "invalid"
  PROVE  /\ toks # << >> /\ Len(toks) \in Nat \ {0}
         /\ Head(toks).value \in Seq(A)
         /\ Tail(toks) \in Seq(Tokens(A))
<1>1. toks # << >>
  BY DEF Peek
<1>2. Head(toks) \in Tokens(A) /\ Tail(toks) \in Seq(Tokens(A)) /\ Len(toks) \in Nat \ {0}
  BY <1>1
<1>3. QED
  BY <1>1, <1>2 DEF Tokens

LEMMA BehindIs ==
  ASSUME NEW A, NEW toks \in Seq(Tokens(A)), Peek(toks) # "invalid"
  PROVE  SkipSpace(Tail(toks)) \in Seq(Tokens(A))
BY PeekIs, SkipSpaceIs

Lists(A) == { l \in [ok : BOOLEAN, values : SUBSET Seq(A), rest : Seq(Tokens(A)), more : BOOLEAN] :
                l.more => IsString(l.rest) }

LEMMA ListIs ==
  ASSUME NEW A, NEW values \in SUBSET Seq(A), NEW rest \in Seq(Tokens(A))
  PROVE  /\ List(values, rest, FALSE) \in Lists(A)
         /\ IsString(rest) => List(values, rest, TRUE) \in Lists(A)
         /\ NoList \in Lists(A)
BY DEF List, NoList, Lists

LEMMA NextItemIs ==
  ASSUME NEW A, NEW list \in Lists(A), list.more
  PROVE  NextItem(list) \in Lists(A)
<1> DEFINE vs    == list.values \cup {Head(list.rest).value}
           after == SkipSpace(Tail(list.rest))
           next  == SkipSpace(Tail(after))
<1>1. list.rest \in Seq(Tokens(A)) /\ list.values \in SUBSET Seq(A) /\ Peek(list.rest) # "invalid"
  BY DEF Lists, IsString
<1>2. vs \in SUBSET Seq(A) /\ after \in Seq(Tokens(A))
  BY <1>1, PeekIs, BehindIs
<1>3. NextItem(list) = CASE Peek(after) = "rparen" -> List(vs, Tail(after), FALSE)
                         [] Peek(after) = "comma" /\ IsString(next) -> List(vs, next, TRUE)
                         [] OTHER -> NoList
  BY DEF NextItem
<1> HIDE DEF vs, after
<1>4. CASE Peek(after) = "rparen"
  <2>1. Tail(after) \in Seq(Tokens(A))
    BY <1>2, <1>4, PeekIs
  <2>2. QED
    BY <1>2, <1>3, <1>4, <2>1, ListIs
<1>5. CASE Peek(after) = "comma" /\ IsString(next)
  <2>1. next \in Seq(Tokens(A))
    BY <1>2, <1>5, BehindIs
  <2> HIDE DEF next
  <2>2. QED
    BY <1>2, <1>3, <1>5, <2>1, ListIs
<1>6. CASE ~(Peek(after) = "rparen") /\ ~(Peek(after) = "comma" /\ IsString(next))
  BY <1>2, <1>3, <1>6, ListIs
<1>7. QED
  BY <1>4, <1>5, <1>6

Listing(f, toks) ==
  f = [ n \in 0 .. Len(toks) |->
          IF n = 0 THEN List({}, toks, TRUE)
          ELSE LET list == f[n - 1] IN IF list.more THEN NextItem(list) ELSE list ]

LEMMA ListItemsIs ==
  ASSUME NEW A, NEW toks \in Seq(Tokens(A)), IsString(toks)
  PROVE  ListItems(toks) \in Lists(A)
<1> DEFINE n == Len(toks)
           T == Lists(A)
           Next1(list) == IF list.more THEN NextItem(list) ELSE list
           step == [ i \in Nat |-> [ list \in T |-> Next1(list) ] ]
<1>1. n \in Nat
  OBVIOUS
<1>2. List({}, toks, TRUE) \in T
  BY ListIs
<1>3. step \in [Nat -> [T -> T]]
  BY NextItemIs
<1>4. PICK f : Run(f, T, List({}, toks, TRUE), step, n)
  <2> HIDE DEF T, step, n
  <2>1. QED
    BY <1>1, <1>2, <1>3, Runs
<1>5. ASSUME NEW i \in 1 .. n PROVE f[i] = Next1(f[i - 1])
  <2>1. i \in Nat /\ f[i - 1] \in T /\ f[i] = step[i][f[i - 1]]
    <3> HIDE DEF T, step, n
    <3>1. i \in Nat /\ i - 1 \in 0 .. n
      BY <1>1
    <3>2. QED
      BY <1>4, <3>1 DEF Run
  <2>2. QED
    BY <2>1
<1>6. Listing(f, toks)
  <2>1. f = [ i \in 0 .. n |-> f[i] ] /\ f[0] = List({}, toks, TRUE)
    BY <1>4 DEF Run
  <2> DEFINE item(i) == IF i = 0 THEN List({}, toks, TRUE)
                        ELSE LET list == f[i - 1] IN IF list.more THEN NextItem(list) ELSE list
  <2>2. \A i \in 0 .. n : f[i] = item(i)
    <3>1. \A i \in 0 .. n : i = 0 \/ i \in 1 .. n
      BY <1>1
    <3>2. QED
      BY <1>5, <2>1, <3>1
  <2>3. f = [ i \in 0 .. n |-> item(i) ]
    <3> HIDE DEF item, n
    <3>1. QED
      BY <2>1, <2>2
  <2>4. QED
    BY <2>3, Zenon DEF Listing
<1> DEFINE g == CHOOSE h : Listing(h, toks)
<1>7. Listing(g, toks)
  BY <1>6
<1> HIDE DEF g, T, step
<1>8. g[0] \in T
  BY <1>1, <1>2, <1>7 DEF Listing
<1>9. ASSUME NEW i \in 1 .. n, g[i - 1] \in T
      PROVE  g[i] \in T
  <2>1. g[i] = Next1(g[i - 1])
    BY <1>1, <1>7, SMTT(30) DEF Listing
  <2>2. QED
    BY <1>9, <2>1, NextItemIs DEF T
<1>10. g[n] \in T
  <2>1. \A i \in 0 .. n : g[i] \in T
    BY <1>1, <1>8, <1>9, Stays
  <2>2. QED
    BY <1>1, <2>1
<1>11. ListItems(toks) = g[n]
  BY DEF ListItems, g, Listing
<1>12. QED
  BY <1>10, <1>11 DEF T

LEMMA ParenListIs ==
  ASSUME NEW A, NEW toks \in Seq(Tokens(A))
  PROVE  parseParenList(toks) \in Lists(A)
<1> DEFINE first == SkipSpace(Tail(toks))
<1>1. {} \in SUBSET Seq(A)
  OBVIOUS
<1>2. parseParenList(toks) =
        CASE Peek(toks) # "lparen" -> NoList
          [] Peek(toks) = "lparen" /\ IsString(first) -> ListItems(first)
          [] Peek(toks) = "lparen" /\ Peek(first) = "rparen" -> List({}, Tail(first), FALSE)
          [] OTHER -> NoList
  BY DEF parseParenList
<1>3. Peek(toks) = "lparen" => first \in Seq(Tokens(A))
  BY BehindIs
<1> HIDE DEF first
<1>4. CASE Peek(toks) = "lparen" /\ IsString(first)
  BY <1>2, <1>3, <1>4, ListItemsIs DEF IsString
<1>5. CASE Peek(toks) = "lparen" /\ Peek(first) = "rparen"
  <2>1. Tail(first) \in Seq(Tokens(A)) /\ ~IsString(first)
    BY <1>3, <1>5, PeekIs DEF IsString
  <2>2. QED
    BY <1>1, <1>2, <1>5, <2>1, ListIs
<1>6. CASE ~(Peek(toks) = "lparen" /\ (IsString(first) \/ Peek(first) = "rparen"))
  BY <1>1, <1>2, <1>6, ListIs
<1>7. QED
  BY <1>4, <1>5, <1>6

-----------------------------------------------------------------------------

Parses(A) ==
  { c \in [toks : Seq(Tokens(A)), s : Searches(A) \cup {NoSearch}] :
      c.toks # << >> => c.s \in Searches(A) }

LEMMA WithIs ==
  ASSUME NEW A, NEW map \in FieldMaps(A), NEW key \in Keys(A), NEW values \in SUBSET Seq(A)
  PROVE  /\ With(map, key, values) \in FieldMaps(A)
         /\ Values(map, key) \in SUBSET Seq(A)
<1>1. PICK K \in SUBSET Keys(A) : map \in [K -> SUBSET Seq(A)]
  BY DEF FieldMaps
<1>2. K \cup {key} \in SUBSET Keys(A) /\ With(map, key, values) \in [K \cup {key} -> SUBSET Seq(A)]
  BY <1>1 DEF With
<1>3. Values(map, key) \in SUBSET Seq(A)
  BY <1>1 DEF Values
<1>4. QED
  BY <1>2, <1>3 DEF FieldMaps

LEMMA SearchIs ==
  ASSUME NEW A, NEW s \in Searches(A), NEW value \in Seq(A)
  PROVE  /\ Fragment(s, value) \in Searches(A)
         /\ NotFragment(s, value) \in Searches(A)
BY DEF Fragment, NotFragment, Searches

LEMMA FieldsAre ==
  ASSUME NEW A, NEW s \in Searches(A), NEW key \in Keys(A), NEW values \in SUBSET Seq(A)
  PROVE  /\ FieldIs(s, key, values) \in Searches(A)
         /\ FieldIsNot(s, key, values) \in Searches(A)
<1>1. s.Fields \in FieldMaps(A) /\ s.NotFields \in FieldMaps(A)
  BY DEF Searches
<1>2. With(s.Fields, key, values) \in FieldMaps(A)
  BY <1>1, WithIs
<1>3. Values(s.NotFields, key) \cup values \in SUBSET Seq(A)
  BY <1>1, WithIs
<1>4. With(s.NotFields, key, Values(s.NotFields, key) \cup values) \in FieldMaps(A)
  BY <1>1, <1>3, WithIs
<1>5. FieldIs(s, key, values) \in Searches(A)
  BY <1>2 DEF FieldIs, Searches
<1>6. FieldIsNot(s, key, values) \in Searches(A)
  BY <1>4 DEF FieldIsNot, Searches
<1>7. QED
  BY <1>5, <1>6

LEMMA ClauseIs ==
  ASSUME NEW A, NEW toks \in Seq(Tokens(A)), NEW s \in Searches(A)
  PROVE  Clause(toks, s) \in Parses(A) /\ Failed \in Parses(A)
BY DEF Clause, Failed, Parses

LEMMA FieldListIs ==
  ASSUME NEW A, NEW toks \in Seq(Tokens(A)), NEW s \in Searches(A), NEW key \in Keys(A)
  PROVE  /\ FieldList(s, toks, key, FieldIs) \in Parses(A)
         /\ FieldList(s, toks, key, FieldIsNot) \in Parses(A)
<1> DEFINE list == parseParenList(toks)
<1>1. list.values \in SUBSET Seq(A) /\ list.rest \in Seq(Tokens(A))
  BY ParenListIs DEF Lists
<1>2. /\ FieldList(s, toks, key, FieldIs) =
           IF list.ok THEN Clause(list.rest, FieldIs(s, key, list.values)) ELSE Failed
      /\ FieldList(s, toks, key, FieldIsNot) =
           IF list.ok THEN Clause(list.rest, FieldIsNot(s, key, list.values)) ELSE Failed
  BY DEF FieldList
<1> HIDE DEF list
<1>3. FieldIs(s, key, list.values) \in Searches(A) /\ FieldIsNot(s, key, list.values) \in Searches(A)
  BY <1>1, FieldsAre
<1>4. QED
  BY <1>1, <1>2, <1>3, ClauseIs

LEMMA WordClauseIs ==
  ASSUME NEW A, NEW word \in Seq(A), NEW toks \in Seq(Tokens(A)), NEW s \in Searches(A)
  PROVE  WordClause(word, toks, s) \in Parses(A)
<1> DEFINE key   == Lower(word)
           value == Tail(toks)
           next  == SkipSpace(toks)
           negated == SkipSpace(Tail(next))
<1>1. key \in Keys(A) /\ next \in Seq(Tokens(A)) /\ Failed \in Parses(A)
  BY SkipSpaceIs, ClauseIs DEF Keys
<1>2. CASE Peek(toks) = "equals" \/ Peek(toks) = "notequals"
  <2>1. value \in Seq(Tokens(A))
    BY <1>2, PeekIs
  <2>2. CASE IsString(value)
    <3>1. Tail(value) \in Seq(Tokens(A)) /\ {Head(value).value} \in SUBSET Seq(A)
      BY <2>1, <2>2, PeekIs DEF IsString
    <3>2. \/ WordClause(word, toks, s) = Clause(Tail(value), FieldIs(s, key, {Head(value).value}))
          \/ WordClause(word, toks, s) = Clause(Tail(value), FieldIsNot(s, key, {Head(value).value}))
      BY <1>2, <2>2 DEF WordClause
    <3> HIDE DEF key, value
    <3>3. /\ FieldIs(s, key, {Head(value).value}) \in Searches(A)
          /\ FieldIsNot(s, key, {Head(value).value}) \in Searches(A)
      BY <1>1, <3>1, FieldsAre
    <3>4. QED
      BY <3>1, <3>2, <3>3, ClauseIs
  <2>3. CASE ~IsString(value)
    <3>1. WordClause(word, toks, s) = Failed
      BY <1>2, <2>3 DEF WordClause
    <3>2. QED
      BY <1>1, <3>1
  <2>4. QED
    BY <2>2, <2>3
<1>3. CASE Peek(toks) = "whitespace" /\ IsKeyword(next, "IN")
  <2>1. negated \in Seq(Tokens(A))
    BY <1>1, <1>3, BehindIs DEF IsKeyword
  <2>2. ~IsKeyword(next, "NOT")
    BY <1>3 DEF IsKeyword
  <2>3. WordClause(word, toks, s) = FieldList(s, negated, key, FieldIs)
    BY <1>3, <2>2 DEF WordClause
  <2> HIDE DEF key, negated
  <2>4. QED
    BY <1>1, <2>1, <2>3, FieldListIs
<1>4. CASE Peek(toks) = "whitespace" /\ ~IsKeyword(next, "IN") /\ IsKeyword(next, "NOT")
  <2>1. negated \in Seq(Tokens(A))
    BY <1>1, <1>4, BehindIs DEF IsKeyword
  <2>2. CASE IsKeyword(negated, "IN")
    <3>1. SkipSpace(Tail(negated)) \in Seq(Tokens(A))
      BY <2>1, <2>2, BehindIs DEF IsKeyword
    <3>2. WordClause(word, toks, s) = FieldList(s, SkipSpace(Tail(negated)), key, FieldIsNot)
      BY <1>4, <2>2 DEF WordClause
    <3> HIDE DEF key, negated
    <3>3. QED
      BY <1>1, <3>1, <3>2, FieldListIs
  <2>3. CASE ~IsKeyword(negated, "IN") /\ IsString(negated)
    <3>1. Tail(negated) \in Seq(Tokens(A)) /\ Head(negated).value \in Seq(A)
      BY <2>1, <2>3, PeekIs DEF IsString
    <3>2. WordClause(word, toks, s) =
            Clause(Tail(negated), NotFragment(Fragment(s, word), Head(negated).value))
      BY <1>4, <2>3 DEF WordClause
    <3> HIDE DEF negated
    <3>3. NotFragment(Fragment(s, word), Head(negated).value) \in Searches(A)
      BY <3>1, SearchIs
    <3>4. QED
      BY <3>1, <3>2, <3>3, ClauseIs
  <2>4. CASE ~IsKeyword(negated, "IN") /\ ~IsString(negated)
    <3>1. WordClause(word, toks, s) = Failed
      BY <1>4, <2>4 DEF WordClause
    <3>2. QED
      BY <1>1, <3>1
  <2>5. QED
    BY <2>2, <2>3, <2>4
<1>5. CASE /\ ~(Peek(toks) = "equals" \/ Peek(toks) = "notequals")
           /\ ~(Peek(toks) = "whitespace" /\ (IsKeyword(next, "IN") \/ IsKeyword(next, "NOT")))
  <2>1. WordClause(word, toks, s) = Clause(next, Fragment(s, word))
    BY <1>5 DEF WordClause
  <2> HIDE DEF next
  <2>2. Fragment(s, word) \in Searches(A)
    BY SearchIs
  <2>3. QED
    BY <1>1, <2>1, <2>2, ClauseIs
<1>6. QED
  BY <1>2, <1>3, <1>4, <1>5

LEMMA NextClauseIs ==
  ASSUME NEW A, NEW toks \in Seq(Tokens(A)), toks # << >>, NEW s \in Searches(A)
  PROVE  NextClause(toks, s) \in Parses(A)
<1> DEFINE rest == Tail(toks)
           behind == SkipSpace(rest)
<1>1. rest \in Seq(Tokens(A)) /\ Head(toks).value \in Seq(A)
  <2>1. rest \in Seq(Tokens(A)) /\ Head(toks) \in Tokens(A)
    OBVIOUS
  <2>2. QED
    BY <2>1 DEF Tokens
<1>2. behind \in Seq(Tokens(A))
  BY <1>1, SkipSpaceIs
<1>3. CASE Peek(toks) = "string"
  <2>1. NextClause(toks, s) = WordClause(Head(toks).value, rest, s)
    BY <1>3 DEF NextClause, IsKeyword
  <2>2. QED
    BY <1>1, <2>1, WordClauseIs
<1>4. CASE Peek(toks) = "quoted"
  <2>1. NextClause(toks, s) = Clause(rest, Fragment(s, Head(toks).value))
    BY <1>4 DEF NextClause, IsKeyword
  <2>2. QED
    BY <1>1, <2>1, ClauseIs, SearchIs
<1>5. CASE IsKeyword(toks, "NOT")
  <2>1. CASE IsString(behind)
    <3>1. NextClause(toks, s) = Clause(Tail(behind), NotFragment(s, Head(behind).value))
      BY <1>5, <2>1 DEF NextClause, IsKeyword
    <3>2. Tail(behind) \in Seq(Tokens(A)) /\ Head(behind).value \in Seq(A)
      BY <1>2, <2>1, PeekIs DEF IsString
    <3> HIDE DEF behind
    <3>3. QED
      BY <3>1, <3>2, ClauseIs, SearchIs
  <2>2. CASE ~IsString(behind)
    <3>1. NextClause(toks, s) = Failed
      BY <1>5, <2>2 DEF NextClause, IsKeyword
    <3>2. QED
      BY <1>1, <3>1, ClauseIs
  <2>3. QED
    BY <2>1, <2>2
<1>6. CASE Peek(toks) # "string" /\ Peek(toks) # "quoted" /\ ~IsKeyword(toks, "NOT")
  <2>1. NextClause(toks, s) = Clause(rest, s)
    BY <1>6 DEF NextClause
  <2>2. QED
    BY <1>1, <2>1, ClauseIs
<1>7. QED
  BY <1>3, <1>4, <1>5, <1>6

ParsingSearch(f, toks) ==
  f = [ n \in 0 .. Len(toks) |->
          IF n = 0 THEN Clause(toks, EmptySearch)
          ELSE LET c == f[n - 1] IN IF c.toks = << >> THEN c ELSE NextClause(c.toks, c.s) ]

LEMMA ClausesAre ==
  ASSUME NEW A, NEW toks \in Seq(Tokens(A))
  PROVE  Clauses(toks) \in Searches(A) \cup {NoSearch}
<1> DEFINE n == Len(toks)
           T == Parses(A)
           start == Clause(toks, EmptySearch)
           More1(c) == IF c.toks = << >> THEN c ELSE NextClause(c.toks, c.s)
           step == [ i \in Nat |-> [ c \in T |-> More1(c) ] ]
<1>1. n \in Nat
  OBVIOUS
<1>2. start \in T
  <2>1. << >> \in FieldMaps(A)
    <3>1. << >> \in [{} -> SUBSET Seq(A)] /\ {} \in SUBSET Keys(A)
      OBVIOUS
    <3>2. QED
      BY <3>1 DEF FieldMaps
  <2>2. EmptySearch \in Searches(A)
    BY <2>1 DEF EmptySearch, Searches
  <2>3. QED
    BY <2>2, ClauseIs
<1>3. ASSUME NEW c \in T PROVE More1(c) \in T
  <2>1. c.toks \in Seq(Tokens(A)) /\ (c.toks # << >> => c.s \in Searches(A))
    BY DEF Parses
  <2>2. QED
    BY <2>1, NextClauseIs
<1>4. step \in [Nat -> [T -> T]]
  <2> HIDE DEF T, More1
  <2>1. QED
    BY <1>3
<1>5. PICK f : Run(f, T, start, step, n)
  <2> HIDE DEF T, step, n, start
  <2>1. QED
    BY <1>1, <1>2, <1>4, Runs
<1>6. ASSUME NEW i \in 1 .. n PROVE f[i] = More1(f[i - 1])
  <2>1. i \in Nat /\ f[i - 1] \in T /\ f[i] = step[i][f[i - 1]]
    <3> HIDE DEF T, step, n
    <3>1. i \in Nat /\ i - 1 \in 0 .. n
      BY <1>1
    <3>2. QED
      BY <1>5, <3>1 DEF Run
  <2>2. QED
    BY <2>1
<1>7. ParsingSearch(f, toks)
  <2>1. f = [ i \in 0 .. n |-> f[i] ] /\ f[0] = start
    BY <1>5 DEF Run
  <2> DEFINE clause(i) == IF i = 0 THEN Clause(toks, EmptySearch)
                          ELSE LET c == f[i - 1] IN IF c.toks = << >> THEN c ELSE NextClause(c.toks, c.s)
  <2>2. \A i \in 0 .. n : f[i] = clause(i)
    <3>1. \A i \in 0 .. n : i = 0 \/ i \in 1 .. n
      BY <1>1
    <3>2. QED
      BY <1>6, <2>1, <3>1
  <2>3. f = [ i \in 0 .. n |-> clause(i) ]
    <3> HIDE DEF clause, n
    <3>1. QED
      BY <2>1, <2>2
  <2>4. QED
    BY <2>3, Zenon DEF ParsingSearch
<1> DEFINE g == CHOOSE h : ParsingSearch(h, toks)
<1>8. ParsingSearch(g, toks)
  BY <1>7
<1> HIDE DEF g, T, step
<1>9. g[0] \in T
  BY <1>1, <1>2, <1>8 DEF ParsingSearch
<1>10. ASSUME NEW i \in 1 .. n, g[i - 1] \in T
      PROVE  g[i] \in T
  <2>1. g[i] = More1(g[i - 1])
    BY <1>1, <1>8 DEF ParsingSearch
  <2> HIDE DEF More1
  <2>2. QED
    BY <1>3, <1>10, <2>1
<1>11. g[n] \in T
  <2>1. \A i \in 0 .. n : g[i] \in T
    BY <1>1, <1>9, <1>10, Stays
  <2>2. QED
    BY <1>1, <2>1
<1>12. Clauses(toks) = g[n].s
  BY DEF Clauses, g, ParsingSearch
<1>13. QED
  BY <1>11, <1>12 DEF T, Parses

LEMMA ParseSearchIs ==
  ASSUME NEW A, Closed(A), NEW text \in Seq(A)
  PROVE  \/ ParseSearch(text).res = "endless" /\ "!" \in A
         \/ ParseSearch(text).res = "error"
         \/ ParseSearch(text).res = "ok" /\ ParseSearch(text) \in Searches(A)
<1>1. CASE tokenize(text).res = "ok" /\ tokenize(text).tokens \in Seq(Tokens(A))
  <2>1. ParseSearch(text) = Clauses(tokenize(text).tokens)
    BY <1>1 DEF ParseSearch
  <2>2. ParseSearch(text) \in Searches(A) \cup {NoSearch}
    BY <1>1, <2>1, ClausesAre
  <2>3. QED
    BY <2>2 DEF Searches, NoSearch
<1>2. CASE tokenize(text).res # "ok"
  <2>1. ParseSearch(text) = [res |-> tokenize(text).res]
    BY <1>2 DEF ParseSearch
  <2>2. QED
    BY <1>2, <2>1, TokenizeIs
<1>3. QED
  BY <1>1, <1>2, TokenizeIs

-----------------------------------------------------------------------------

Args(A) == UNION { [K -> Seq(A)] : K \in SUBSET Seq(A) }

OptionStates(A) == [ok : BOOLEAN, args : Args(A), rest : Seq(Tokens(A)), more : BOOLEAN]

LEMMA OptsIs ==
  ASSUME NEW A, NEW args \in Args(A), NEW toks \in Seq(Tokens(A)), NEW more \in BOOLEAN
  PROVE  Opts(args, toks, more) \in OptionStates(A)
BY DEF Opts, OptionStates

LEMMA NoArgs == \A A : << >> \in Args(A)
<1> TAKE A
<1>1. << >> \in [{} -> Seq(A)] /\ {} \in SUBSET Seq(A)
  OBVIOUS
<1>2. QED
  BY <1>1 DEF Args

LEMMA NextOptionIs ==
  ASSUME NEW A, NEW opts \in OptionStates(A)
  PROVE  NextOption(opts) \in OptionStates(A)
<1> DEFINE toks  == opts.rest
           after == SkipSpace(Tail(toks))
           value == SkipSpace(Tail(after))
<1>1. toks \in Seq(Tokens(A)) /\ opts.args \in Args(A)
  BY DEF OptionStates
<1>2. CASE Peek(toks) # "string"
  <2>1. NextOption(opts) = Opts(opts.args, toks, FALSE)
    BY <1>2 DEF NextOption
  <2>2. QED
    BY <1>1, <2>1, OptsIs
<1>3. CASE Peek(toks) = "string" /\ Peek(after) # "equals"
  <2>1. NextOption(opts) = Opts(opts.args, after, FALSE)
    BY <1>3 DEF NextOption
  <2>2. after \in Seq(Tokens(A))
    BY <1>1, <1>3, BehindIs
  <2>3. QED
    BY <1>1, <2>1, <2>2, OptsIs
<1>4. CASE Peek(toks) = "string" /\ Peek(after) = "equals" /\ IsString(value)
  <2> DEFINE args == With(opts.args, Head(toks).value, Head(value).value)
             rest == SkipSpace(Tail(value))
  <2>1. NextOption(opts) = Opts(args, rest, TRUE)
    BY <1>4 DEF NextOption
  <2>2. after \in Seq(Tokens(A)) /\ Head(toks).value \in Seq(A)
    BY <1>1, <1>4, BehindIs, PeekIs
  <2>3. value \in Seq(Tokens(A))
    BY <1>4, <2>2, BehindIs
  <2>4. rest \in Seq(Tokens(A)) /\ Head(value).value \in Seq(A)
    BY <1>4, <2>3, BehindIs, PeekIs DEF IsString
  <2>5. args \in Args(A)
    <3>1. PICK K \in SUBSET Seq(A) : opts.args \in [K -> Seq(A)]
      BY <1>1 DEF Args
    <3> DEFINE k == Head(toks).value
               v == Head(value).value
    <3>2. k \in Seq(A) /\ v \in Seq(A)
      BY <2>2, <2>4
    <3> HIDE DEF k, v
    <3>3. K \cup {k} \in SUBSET Seq(A) /\ With(opts.args, k, v) \in [K \cup {k} -> Seq(A)]
      BY <3>1, <3>2 DEF With
    <3>4. QED
      BY <3>3 DEF Args, k, v
  <2> HIDE DEF args, rest
  <2>6. QED
    BY <2>1, <2>4, <2>5, OptsIs
<1>5. CASE Peek(toks) = "string" /\ Peek(after) = "equals" /\ ~IsString(value)
  <2>1. NextOption(opts) = NoOptions
    BY <1>5 DEF NextOption
  <2>2. QED
    BY <2>1, NoArgs DEF NoOptions, OptionStates
<1>6. QED
  BY <1>2, <1>3, <1>4, <1>5

ParsingOptions(f, toks) ==
  f = [ n \in 0 .. Len(toks) |->
          IF n = 0 THEN Opts(<< >>, toks, TRUE)
          ELSE LET opts == f[n - 1] IN IF opts.more THEN NextOption(opts) ELSE opts ]

LEMMA OptionsAre ==
  ASSUME NEW A, NEW toks \in Seq(Tokens(A))
  PROVE  Options(toks) \in OptionStates(A)
<1> DEFINE n == Len(toks)
           T == OptionStates(A)
           start == Opts(<< >>, toks, TRUE)
           More1(opts) == IF opts.more THEN NextOption(opts) ELSE opts
           step == [ i \in Nat |-> [ opts \in T |-> More1(opts) ] ]
<1>1. n \in Nat
  OBVIOUS
<1>2. start \in T
  BY NoArgs, OptsIs
<1>3. ASSUME NEW opts \in T PROVE More1(opts) \in T
  BY NextOptionIs
<1>4. step \in [Nat -> [T -> T]]
  <2> HIDE DEF T, More1
  <2>1. QED
    BY <1>3
<1>5. PICK f : Run(f, T, start, step, n)
  <2> HIDE DEF T, step, n, start
  <2>1. QED
    BY <1>1, <1>2, <1>4, Runs
<1>6. ASSUME NEW i \in 1 .. n PROVE f[i] = More1(f[i - 1])
  <2>1. i \in Nat /\ f[i - 1] \in T /\ f[i] = step[i][f[i - 1]]
    <3> HIDE DEF T, step, n
    <3>1. i \in Nat /\ i - 1 \in 0 .. n
      BY <1>1
    <3>2. QED
      BY <1>5, <3>1 DEF Run
  <2>2. QED
    BY <2>1
<1>7. ParsingOptions(f, toks)
  <2>1. f = [ i \in 0 .. n |-> f[i] ] /\ f[0] = start
    BY <1>5 DEF Run
  <2>2. QED
    BY <1>1, <1>6, <2>1 DEF ParsingOptions
<1> DEFINE g == CHOOSE h : ParsingOptions(h, toks)
<1>8. ParsingOptions(g, toks)
  BY <1>7
<1> HIDE DEF g, T, step
<1>9. g[0] \in T
  BY <1>1, <1>2, <1>8 DEF ParsingOptions
<1>10. ASSUME NEW i \in 1 .. n, g[i - 1] \in T
      PROVE  g[i] \in T
  <2>1. g[i] = More1(g[i - 1])
    BY <1>1, <1>8 DEF ParsingOptions
  <2> HIDE DEF More1
  <2>2. QED
    BY <1>3, <1>10, <2>1
<1>11. g[n] \in T
  <2>1. \A i \in 0 .. n : g[i] \in T
    BY <1>1, <1>9, <1>10, Stays
  <2>2. QED
    BY <1>1, <2>1
<1>12. Options(toks) = g[n]
  BY DEF Options, g, ParsingOptions
<1>13. QED
  BY <1>11, <1>12 DEF T

Flattening(f, s) ==
  f = [ i \in 1 .. Len(s) |-> IF i = 1 THEN s[i] ELSE f[i - 1] \o s[i] ]

LEMMA FlattenIs ==
  ASSUME NEW A, NEW s \in Seq(Seq(A))
  PROVE  FlattenSeq(s) \in Seq(A)
<1> DEFINE n == Len(s)
           T == Seq(A)
           More1(i, t) == IF i = 1 THEN s[i] ELSE t \o s[i]
           step == [ i \in Nat |-> [ t \in T |-> IF i \in 1 .. n THEN More1(i, t) ELSE t ] ]
<1>1. n \in Nat /\ \A i \in 1 .. n : s[i] \in Seq(A)
  OBVIOUS
<1>2. << >> \in T
  OBVIOUS
<1>3. ASSUME NEW i \in 1 .. n, NEW t \in T PROVE More1(i, t) \in T
  BY <1>1
<1>4. step \in [Nat -> [T -> T]]
  <2> HIDE DEF T, More1, n
  <2>1. QED
    BY <1>3
<1>5. PICK f : Run(f, T, << >>, step, n)
  <2> HIDE DEF T, step, n
  <2>1. QED
    BY <1>1, <1>2, <1>4, Runs
<1>6. ASSUME NEW i \in 1 .. n PROVE f[i] = More1(i, f[i - 1])
  <2>1. i \in Nat /\ f[i - 1] \in T /\ f[i] = step[i][f[i - 1]]
    <3> HIDE DEF T, step, n
    <3>1. i \in Nat /\ i - 1 \in 0 .. n
      BY <1>1
    <3>2. QED
      BY <1>5, <3>1 DEF Run
  <2>2. QED
    BY <2>1
<1> DEFINE h == [ i \in 1 .. n |-> f[i] ]
<1>7. Flattening(h, s)
  <2>1. ASSUME NEW i \in 1 .. n
        PROVE  h[i] = IF i = 1 THEN s[i] ELSE h[i - 1] \o s[i]
    <3>1. i # 1 => i - 1 \in 1 .. n
      BY <1>1
    <3>2. QED
      BY <1>6, <3>1
  <2>2. QED
    BY <2>1 DEF Flattening
<1> DEFINE g == CHOOSE e : Flattening(e, s)
<1>8. Flattening(g, s)
  BY <1>7
<1> HIDE DEF g, step, h
<1>9. ASSUME NEW i \in 1 .. n, i = 1 \/ g[i - 1] \in T
      PROVE  g[i] \in T
  <2>1. g[i] = IF i = 1 THEN s[i] ELSE g[i - 1] \o s[i]
    BY <1>8 DEF Flattening
  <2>2. QED
    BY <1>1, <1>9, <2>1
<1>10. n # 0 => g[n] \in T
  <2> DEFINE e == [ i \in 0 .. n |-> IF i = 0 THEN << >> ELSE g[i] ]
  <2>1. e[0] \in T
    BY <1>1
  <2>2. ASSUME NEW i \in 1 .. n, e[i - 1] \in T
        PROVE  e[i] \in T
    <3>1. i \in 0 .. n /\ i # 0 /\ i - 1 \in 0 .. n /\ (i # 1 => i - 1 # 0)
      BY <1>1
    <3>2. i # 1 => g[i - 1] \in T
      BY <2>2, <3>1
    <3>3. QED
      BY <1>9, <3>1, <3>2
  <2> HIDE DEF e
  <2>3. \A i \in 0 .. n : e[i] \in T
    BY <1>1, <2>1, <2>2, Stays
  <2>4. n # 0 => e[n] = g[n] /\ n \in 0 .. n
    BY <1>1 DEF e
  <2>5. QED
    BY <2>3, <2>4
<1>11. FlattenSeq(s) = IF Len(s) = 0 THEN s ELSE g[Len(s)]
  BY DEF FlattenSeq, g, Flattening
<1>12. Len(s) = 0 => s = << >>
  OBVIOUS
<1>13. QED
  BY <1>2, <1>10, <1>11, <1>12

LEMMA TextIs ==
  ASSUME NEW A, NEW toks \in Seq(Tokens(A))
  PROVE  Text(toks) \in Seq(A)
<1> DEFINE s == [ i \in DOMAIN toks |-> toks[i].value ]
<1>1. DOMAIN toks = 1 .. Len(toks) /\ Len(toks) \in Nat /\ \A i \in 1 .. Len(toks) : toks[i] \in Tokens(A)
  OBVIOUS
<1>2. \A i \in 1 .. Len(toks) : toks[i].value \in Seq(A)
  BY <1>1 DEF Tokens
<1>3. s \in Seq(Seq(A))
  BY <1>1, <1>2
<1>4. Text(toks) = FlattenSeq(s)
  BY DEF Text
<1> HIDE DEF s
<1>5. QED
  BY <1>3, <1>4, FlattenIs

-----------------------------------------------------------------------------

ParsedSteps(A) == [StepType : Seq(A) \cup {<< "search" >>}, Args : Args(A), Value : Seq(A)]

ParseStates(A, first) ==
  { p \in [res : {"ok", "error"}, steps : Seq(ParsedSteps(A)), toks : Seq(Tokens(A))] :
      /\ p.res = "ok" => p.steps # << >> /\ p.steps[1] = first
      /\ p.res = "error" => p.toks = << >> }

LEMMA NextStepIs ==
  ASSUME NEW A, NEW first, NEW p \in ParseStates(A, first), p.toks # << >>
  PROVE  NextStep(p) \in ParseStates(A, first)
<1> DEFINE toks == SkipSpace(p.toks)
           name == SkipSpace(Tail(toks))
           opts == Options(SkipSpace(Tail(name)))
           has  == IsString(opts.rest)
           new  == [StepType |-> Head(name).value, Args |-> opts.args,
                    Value |-> IF has THEN Head(opts.rest).value ELSE << >>]
           goes == Peek(toks) = "pipe" /\ Peek(name) = "string" /\ opts.ok
           left == IF has THEN Tail(opts.rest) ELSE opts.rest
<1>1. NextStep(p) = IF goes THEN [res |-> "ok", steps |-> Append(p.steps, new), toks |-> left]
                    ELSE [res |-> "error", steps |-> << >>, toks |-> << >>]
  BY DEF NextStep
<1>2. CASE ~goes
  <2>1. << >> \in Seq(ParsedSteps(A)) /\ << >> \in Seq(Tokens(A))
    OBVIOUS
  <2> HIDE DEF goes
  <2>2. QED
    BY <1>1, <1>2, <2>1 DEF ParseStates
<1>3. CASE goes
  <2>1. /\ p.res = "ok" /\ p.steps \in Seq(ParsedSteps(A)) /\ p.steps # << >> /\ p.steps[1] = first
        /\ p.toks \in Seq(Tokens(A))
    BY DEF ParseStates
  <2>2. toks \in Seq(Tokens(A))
    BY <2>1, SkipSpaceIs
  <2>3. name \in Seq(Tokens(A))
    <3> HIDE DEF toks
    <3>1. QED
      BY <1>3, <2>2, BehindIs
  <2>4. Head(name).value \in Seq(A) /\ SkipSpace(Tail(name)) \in Seq(Tokens(A))
    <3> HIDE DEF name
    <3>1. QED
      BY <1>3, <2>3, BehindIs, PeekIs
  <2>5. opts \in OptionStates(A)
    BY <2>4, OptionsAre
  <2> HIDE DEF name, opts
  <2>6. opts.args \in Args(A) /\ opts.rest \in Seq(Tokens(A))
    BY <2>5 DEF OptionStates
  <2>7. has => Head(opts.rest).value \in Seq(A) /\ Tail(opts.rest) \in Seq(Tokens(A))
    BY <2>6, PeekIs DEF IsString
  <2>8. new \in ParsedSteps(A) /\ left \in Seq(Tokens(A))
    BY <2>4, <2>6, <2>7 DEF ParsedSteps
  <2> HIDE DEF new, left, goes
  <2>9. /\ Append(p.steps, new) \in Seq(ParsedSteps(A)) /\ Append(p.steps, new) # << >>
        /\ Append(p.steps, new)[1] = first
    BY <2>1, <2>8, SMTT(30)
  <2>10. QED
    BY <1>1, <1>3, <2>8, <2>9, SMTT(30) DEF ParseStates
<1>4. QED
  BY <1>2, <1>3

ParsingSteps(f, toks, first) ==
  f = [ n \in 0 .. Len(toks) |->
          IF n = 0 THEN [res |-> "ok", steps |-> << first >>, toks |-> toks]
          ELSE LET p == f[n - 1] IN IF p.toks = << >> THEN p ELSE NextStep(p) ]

LEMMA StepsAre ==
  ASSUME NEW A, NEW toks \in Seq(Tokens(A)), NEW first \in ParsedSteps(A)
  PROVE  Steps(toks, first) \in ParseStates(A, first)
<1> DEFINE n == Len(toks)
           T == ParseStates(A, first)
           start == [res |-> "ok", steps |-> << first >>, toks |-> toks]
           More1(p) == IF p.toks = << >> THEN p ELSE NextStep(p)
           step == [ i \in Nat |-> [ p \in T |-> More1(p) ] ]
<1>1. n \in Nat
  OBVIOUS
<1>2. start \in T
  <2>1. << first >> \in Seq(ParsedSteps(A)) /\ << first >> # << >> /\ << first >>[1] = first
    OBVIOUS
  <2>2. QED
    BY <2>1 DEF ParseStates
<1>3. ASSUME NEW p \in T PROVE More1(p) \in T
  BY NextStepIs
<1>4. step \in [Nat -> [T -> T]]
  <2> HIDE DEF T, More1
  <2>1. QED
    BY <1>3
<1>5. PICK f : Run(f, T, start, step, n)
  <2> HIDE DEF T, step, n, start
  <2>1. QED
    BY <1>1, <1>2, <1>4, Runs
<1>6. ASSUME NEW i \in 1 .. n PROVE f[i] = More1(f[i - 1])
  <2>1. i \in Nat /\ f[i - 1] \in T /\ f[i] = step[i][f[i - 1]]
    <3> HIDE DEF T, step, n
    <3>1. i \in Nat /\ i - 1 \in 0 .. n
      BY <1>1
    <3>2. QED
      BY <1>5, <3>1 DEF Run
  <2>2. QED
    BY <2>1
<1>7. ParsingSteps(f, toks, first)
  <2>1. f = [ i \in 0 .. n |-> f[i] ] /\ f[0] = start
    BY <1>5 DEF Run
  <2>2. f = [ i \in 0 .. n |-> IF i = 0 THEN start ELSE More1(f[i - 1]) ]
    <3> HIDE DEF start, More1
    <3>1. QED
      BY <1>1, <1>6, <2>1
  <2>3. QED
    BY <2>2 DEF ParsingSteps
<1> DEFINE g == CHOOSE h : ParsingSteps(h, toks, first)
<1>8. ParsingSteps(g, toks, first)
  BY <1>7
<1> HIDE DEF g, T, step
<1>9. g[0] \in T
  BY <1>1, <1>2, <1>8 DEF ParsingSteps
<1>10. ASSUME NEW i \in 1 .. n, g[i - 1] \in T
      PROVE  g[i] \in T
  <2>1. g[i] = More1(g[i - 1])
    BY <1>1, <1>8, SMTT(30) DEF ParsingSteps
  <2> HIDE DEF More1
  <2>2. QED
    BY <1>3, <1>10, <2>1
<1>11. g[n] \in T
  <2>1. \A i \in 0 .. n : g[i] \in T
    BY <1>1, <1>9, <1>10, Stays
  <2>2. QED
    BY <1>1, <2>1
<1>12. Steps(toks, first) = g[n]
  BY DEF Steps, g, ParsingSteps
<1>13. QED
  BY <1>11, <1>12 DEF T

\* A query is a list of steps that begins with a search; what they say was in the
\* text.
LEMMA ParsePipelineIs ==
  ASSUME NEW A, Closed(A), NEW text \in Seq(A)
  PROVE  \/ ParsePipeline(text).res = "endless" /\ "!" \in A
         \/ ParsePipeline(text).res = "error"
         \/ /\ ParsePipeline(text).res = "ok"
            /\ ParsePipeline(text).steps \in Seq(ParsedSteps(A))
            /\ ParsePipeline(text).steps # << >>
            /\ ParsePipeline(text).steps[1].StepType = << "search" >>
<1> DEFINE lexed == tokenize(text)
           toks  == lexed.tokens
           I     == { i \in 1 .. Len(toks) : toks[i].typ = "pipe" }
           pipe  == IF I # {} THEN Min(I) ELSE 0
           head  == IF pipe = 0 THEN Len(toks) ELSE pipe - 1
           first == [StepType |-> << "search" >>, Args |-> << >>, Value |-> Text(SubSeq(toks, 1, head))]
<1>1. ParsePipeline(text) =
        IF lexed.res = "ok" THEN Steps(SubSeq(toks, head + 1, Len(toks)), first)
        ELSE [res |-> lexed.res]
  BY DEF ParsePipeline, SelectInSeq
<1>2. CASE lexed.res = "ok"
  <2>1. toks \in Seq(Tokens(A)) /\ Len(toks) \in Nat
    BY <1>2, TokenizeIs
  <2>2. pipe \in 0 .. Len(toks)
    <3>1. I \in SUBSET (1 .. Len(toks))
      OBVIOUS
    <3> HIDE DEF I, toks
    <3>2. I # {} => Min(I) \in I
      BY <2>1, <3>1, SmallestNumber
    <3>3. pipe = 0 \/ pipe \in 1 .. Len(toks)
      BY <3>1, <3>2
    <3>4. QED
      BY <2>1, <3>3
  <2> HIDE DEF toks, pipe
  <2>3. head \in 0 .. Len(toks)
    BY <2>1, <2>2
  <2> HIDE DEF head
  <2>4. SubSeq(toks, 1, head) \in Seq(Tokens(A)) /\ SubSeq(toks, head + 1, Len(toks)) \in Seq(Tokens(A))
    BY <2>1, <2>3
  <2>5. first \in ParsedSteps(A)
    BY <2>4, TextIs, NoArgs DEF ParsedSteps
  <2>6. first.StepType = << "search" >>
    OBVIOUS
  <2> HIDE DEF first
  <2>7. Steps(SubSeq(toks, head + 1, Len(toks)), first) \in ParseStates(A, first)
    BY <2>4, <2>5, StepsAre
  <2>8. QED
    BY <1>1, <1>2, <2>6, <2>7 DEF ParseStates
<1>3. CASE lexed.res # "ok"
  BY <1>1, <1>3, TokenizeIs
<1>4. QED
  BY <1>2, <1>3

-----------------------------------------------------------------------------
(* Compilation                                                             *)

\* What a step is compiled to.
Compiled(A, c) ==
  /\ c.res \in {"ok", "error", "endless"}
  /\ c.res = "endless" => "!" \in A
  /\ c.res = "ok" =>
       \/ c.in = "none" /\ c.name = "search" /\ c.search \in Searches(A)
       \/ c.in = "none" /\ c.name = "surrounding" /\ CountFrom(A, c.count)
       \/ c.in # "none" /\ c.name = "rex" /\ RexFor(A, c.rex)
       \/ c.in # "none" /\ c.name \in {"where", "table"}

LEMMA BadIs == \A A : Compiled(A, Bad)
BY DEF Bad, Compiled

LEMMA SearchStepIs ==
  ASSUME NEW A, Closed(A), NEW value \in Seq(A), NEW args
  PROVE  /\ Compiled(A, compileSearchStep(value, args))
         /\ compileSearchStep(value, args).res = "ok" => compileSearchStep(value, args).in = "none"
<1> DEFINE search == ParseSearch(value)
           c == compileSearchStep(value, args)
           bad == BadNumber(args, << "startTime" >>) \/ BadNumber(args, << "endTime" >>)
           step == [res |-> "ok", name |-> "search", in |-> "none", out |-> "events", search |-> search,
                    from |-> Option(args, << "startTime" >>), to |-> Option(args, << "endTime" >>)]
<1>1. \/ search.res = "endless" /\ "!" \in A
      \/ search.res = "error"
      \/ search.res = "ok" /\ search \in Searches(A)
  BY ParseSearchIs
<1>2. \/ c = Bad
      \/ search.res # "ok" /\ c = [res |-> search.res]
      \/ search.res = "ok" /\ c = step
  <2>1. c = CASE bad -> Bad [] search.res # "ok" -> [res |-> search.res] [] OTHER -> step
    BY DEF compileSearchStep, SearchStep
  <2> HIDE DEF c, bad, step, search
  <2>2. QED
    BY <2>1
<1> HIDE DEF c, search
<1>3. Compiled(A, c) /\ (c.res = "ok" => c.in = "none")
  <2>1. CASE c = Bad
    BY <2>1, BadIs DEF Bad
  <2>2. CASE search.res # "ok" /\ c = [res |-> search.res]
    BY <1>1, <2>2 DEF Compiled
  <2>3. CASE search.res = "ok" /\ c = step
    BY <1>1, <2>3 DEF Compiled
  <2>4. QED
    BY <1>2, <2>1, <2>2, <2>3
<1>4. QED
  BY <1>3 DEF c

LEMMA RexStepIs ==
  ASSUME NEW A, NEW value \in Seq(A), NEW args
  PROVE  Compiled(A, compileRexStep(value, args))
<1>1. CASE value \notin DOMAIN Rex
  BY <1>1, BadIs DEF compileRexStep
<1>2. CASE value \in DOMAIN Rex
  <2> DEFINE c == compileRexStep(value, args)
  <2>1. c.res = "ok" /\ c.in = "events" /\ c.name = "rex" /\ c.rex = Rex[value]
    BY <1>2 DEF compileRexStep
  <2> HIDE DEF c
  <2>2. Compiled(A, c)
    BY <1>2, <2>1 DEF Compiled, RexFor
  <2>3. QED
    BY <2>2 DEF c
<1>3. QED
  BY <1>1, <1>2

LEMMA OtherStepsAre ==
  ASSUME NEW A, NEW value, NEW args
  PROVE  /\ Compiled(A, compileTableStep(value))
         /\ Compiled(A, compileWhereStep(args))
         /\ args \in Args(A) /\ "surrounding" \in A => Compiled(A, compileSurroundingStep(args))
<1>1. Compiled(A, compileTableStep(value))
  <2>1. \/ compileTableStep(value) = Bad
        \/ /\ compileTableStep(value).res = "ok" /\ compileTableStep(value).in = "events"
           /\ compileTableStep(value).name = "table"
    BY DEF compileTableStep
  <2>2. QED
    BY <2>1, BadIs DEF Compiled
<1>2. Compiled(A, compileWhereStep(args))
  BY DEF compileWhereStep, Compiled
<1>3. ASSUME args \in Args(A), "surrounding" \in A PROVE Compiled(A, compileSurroundingStep(args))
  <2> DEFINE key == << "count" >>
             count == IF key \in DOMAIN args THEN CHOOSE n \in Integer(args[key]) : TRUE ELSE 100
  <2>1. \/ compileSurroundingStep(args) = Bad
        \/ /\ compileSurroundingStep(args).res = "ok" /\ compileSurroundingStep(args).in = "none"
           /\ compileSurroundingStep(args).name = "surrounding"
           /\ ~BadInteger(args, key) /\ compileSurroundingStep(args).count = count
    BY DEF compileSurroundingStep
  <2>2. ASSUME key \in DOMAIN args, ~BadInteger(args, key) PROVE count \in Integers /\ ToString(count) \in A
    <3>1. PICK K \in SUBSET Seq(A) : args \in [K -> Seq(A)]
      BY <1>3 DEF Args
    <3>2. args[key] \in Seq(A) /\ count \in Integer(args[key])
      BY <2>2, <3>1 DEF BadInteger
    <3>3. count \in Integers /\ args[key] = << ToString(count) >>
      BY <3>2 DEF Integer
    <3>4. QED
      BY <3>2, <3>3
  <2>3. QED
    BY <1>3, <2>1, <2>2, BadIs DEF Compiled, CountFrom
<1>4. QED
  BY <1>1, <1>2, <1>3

LEMMA CompileStepIs ==
  ASSUME NEW A, Closed(A), NEW step, step.Value \in Seq(A),
         step.StepType = << "surrounding" >> => "surrounding" \in A /\ step.Args \in Args(A)
  PROVE  /\ Compiled(A, compileStep(step))
         /\ step.StepType = << "search" >> /\ compileStep(step).res = "ok" => compileStep(step).in = "none"
<1> DEFINE t == step.StepType
<1>1. CASE t = << "search" >>
  <2>1. compileStep(step) = compileSearchStep(step.Value, step.Args)
    BY <1>1 DEF compileStep
  <2>2. QED
    BY <1>1, <2>1, SearchStepIs
<1>2. CASE t # << "search" >>
  <2>1. \/ compileStep(step) = compileRexStep(step.Value, step.Args)
        \/ compileStep(step) = compileTableStep(step.Value)
        \/ compileStep(step) = compileWhereStep(step.Args)
        \/ t = << "surrounding" >> /\ compileStep(step) = compileSurroundingStep(step.Args)
        \/ compileStep(step) = Bad
    BY <1>2 DEF compileStep
  <2>2. QED
    BY <1>2, <2>1, RexStepIs, OtherStepsAre, BadIs
<1>3. QED
  BY <1>1, <1>2

LEMMA GeneratedIs ==
  ASSUME NEW A, NEW c, NEW n \in Nat, n # 0, c \in Seq({ c[i] : i \in 1 .. n }), Len(c) = n,
         \A i \in 1 .. n : Compiled(A, c[i]) /\ c[i].res = "ok",
         c[1].in = "none"
  PROVE  IsChain(A, Generated(c))
<1> DEFINE I == { i \in 1 .. Len(c) : c[i].in = "none" }
           last == IF I # {} THEN Max(I) ELSE 0
           g == SubSeq(c, last, n)
<1>1. I \in SUBSET (1 .. n) /\ 1 \in I
  OBVIOUS
<1>2. Max(I) \in I /\ \A m \in I : m <= Max(I)
  <2> HIDE DEF I
  <2>1. QED
    BY <1>1, GreatestNumber
<1>3. last = Max(I)
  BY <1>1
<1>4. last \in 1 .. n /\ c[last].in = "none" /\ \A i \in 1 .. n : i > last => c[i].in # "none"
  <2>1. last \in 1 .. n /\ c[last].in = "none"
    BY <1>2, <1>3
  <2>2. ASSUME NEW i \in 1 .. n, i > last PROVE c[i].in # "none"
    <3> HIDE DEF last
    <3>1. i \notin I
      BY <1>2, <1>3, <2>1, <2>2
    <3>2. QED
      BY <3>1
  <2>3. QED
    BY <2>1, <2>2
<1>5. Generated(c) = g
  BY DEF Generated, SelectLastInSeq
<1> HIDE DEF last, I
<1>6. /\ Len(g) = n - last + 1 /\ DOMAIN g = 1 .. (n - last + 1)
      /\ \A i \in 1 .. (n - last + 1) : g[i] = c[last + i - 1]
  BY <1>4, SMTT(30)
<1> HIDE DEF g
<1>7. g[1] = c[last] /\ Len(g) \in Nat \ {0}
  BY <1>4, <1>6
<1>8. ASSUME NEW i \in 2 .. Len(g)
      PROVE  \E j \in 1 .. n : g[i] = c[j] /\ c[j].in # "none"
  <2>1. last + i - 1 \in 1 .. n /\ last + i - 1 > last /\ i \in 1 .. (n - last + 1)
    BY <1>4, <1>6
  <2>2. QED
    BY <1>4, <1>6, <2>1
<1>9. /\ g[1].name \in {"search", "surrounding"}
      /\ g[1].name = "search" => g[1].search \in Searches(A)
      /\ g[1].name = "surrounding" => CountFrom(A, g[1].count)
  <2>1. Compiled(A, c[last]) /\ c[last].res = "ok" /\ c[last].in = "none"
    BY <1>4
  <2>2. QED
    BY <1>7, <2>1 DEF Compiled
<1>10. ASSUME NEW i \in 2 .. Len(g)
       PROVE  g[i].name \in {"rex", "where", "table"} /\ (g[i].name = "rex" => RexFor(A, g[i].rex))
  <2>1. PICK j \in 1 .. n : g[i] = c[j] /\ c[j].in # "none"
    BY <1>8
  <2>2. Compiled(A, c[j]) /\ c[j].res = "ok"
    OBVIOUS
  <2>3. QED
    BY <2>1, <2>2 DEF Compiled
<1>11. QED
  BY <1>5, <1>6, <1>7, <1>9, <1>10 DEF IsChain

\* A query that is compiled is a chain; one that cannot be is refused, unless there
\* is a "!" in it.
LEMMA CompileIs ==
  ASSUME NEW A, Closed(A), NEW text \in Seq(A), NEW times
  PROVE  \/ Compile(text, times).res = "endless" /\ "!" \in A
         \/ Compile(text, times).res = "error"
         \/ Compile(text, times).res = "ok" /\ IsChain(A, Compile(text, times).steps)
<1> DEFINE parsed == ParsePipeline(text)
           steps1 == WithTimes(parsed.steps, times)
           n == Len(parsed.steps)
           c == [ i \in DOMAIN steps1 |-> compileStep(steps1[i]) ]
           r == Compile(text, times)
<1>1. CASE parsed.res # "ok"
  <2>1. r = [res |-> parsed.res]
    BY <1>1 DEF Compile, CompileParsed
  <2>2. QED
    BY <1>1, <2>1, ParsePipelineIs
<1>2. CASE parsed.res = "ok"
  <2>1. /\ parsed.steps \in Seq(ParsedSteps(A)) /\ parsed.steps # << >>
        /\ parsed.steps[1].StepType = << "search" >>
    BY <1>2, ParsePipelineIs
  <2>2. r = Checked(c)
    BY <1>2 DEF Compile, CompileParsed, CompileSteps
  <2> HIDE DEF parsed, r
  <2>3. n \in Nat /\ n # 0 /\ DOMAIN parsed.steps = 1 .. n
        /\ \A i \in 1 .. n : parsed.steps[i] \in ParsedSteps(A)
    BY <2>1
  <2>4. /\ DOMAIN steps1 = 1 .. n
        /\ \A i \in 1 .. n : steps1[i].Value \in Seq(A)
        /\ steps1[1].StepType = << "search" >>
        /\ \A i \in 1 .. n : i # 1 => steps1[i] = parsed.steps[i]
    BY <2>1, <2>3 DEF WithTimes, ParsedSteps
  <2>11. ASSUME NEW i \in 1 .. n, steps1[i].StepType = << "surrounding" >>
         PROVE  "surrounding" \in A /\ steps1[i].Args \in Args(A)
    <3>1. << "surrounding" >> # << "search" >>
      OBVIOUS
    <3>2. steps1[i] \in ParsedSteps(A)
      BY <2>3, <2>4, <2>11, <3>1
    <3>3. steps1[i].Args \in Args(A) /\ << "surrounding" >> \in Seq(A)
      BY <2>11, <3>1, <3>2 DEF ParsedSteps
    <3>4. QED
      BY <3>3
  <2> HIDE DEF steps1
  <2>5. /\ \A i \in 1 .. n : Compiled(A, c[i])
        /\ c[1].res = "ok" => c[1].in = "none"
    <3>1. \A i \in 1 .. n : c[i] = compileStep(steps1[i])
      BY <2>4
    <3>2. ASSUME NEW i \in 1 .. n
          PROVE  /\ Compiled(A, compileStep(steps1[i]))
                 /\ steps1[i].StepType = << "search" >> /\ compileStep(steps1[i]).res = "ok" =>
                      compileStep(steps1[i]).in = "none"
      BY <2>4, <2>11, CompileStepIs
    <3> HIDE DEF c
    <3>3. QED
      BY <2>3, <2>4, <3>1, <3>2
  <2>6. c \in Seq({ c[i] : i \in 1 .. n }) /\ Len(c) = n
    BY <2>3, <2>4
  <2> DEFINE I == { i \in 1 .. Len(c) : c[i].res # "ok" }
             bad == IF I # {} THEN Min(I) ELSE 0
  <2>7. r = IF bad # 0 THEN [res |-> c[bad].res] ELSE Connected(Generated(c))
    BY <2>2 DEF Checked, SelectInSeq
  <2> HIDE DEF c, n
  <2>8. CASE I # {}
    <3>1. I \in SUBSET (1 .. n)
      BY <2>6
    <3>2. bad = Min(I)
      BY <2>8
    <3>3. Min(I) \in I
      <4> HIDE DEF I
      <4>1. QED
        BY <2>3, <2>8, <3>1, SmallestNumber
    <3>4. bad # 0 /\ bad \in 1 .. n /\ c[bad].res # "ok"
      BY <2>3, <2>6, <3>2, <3>3
    <3> HIDE DEF bad
    <3>5. r = [res |-> c[bad].res] /\ Compiled(A, c[bad])
      BY <2>5, <2>7, <3>4
    <3>6. QED
      BY <3>4, <3>5 DEF Compiled, r
  <2>9. CASE I = {}
    <3>1. \A i \in 1 .. n : c[i].res = "ok"
      BY <2>6, <2>9
    <3>2. r = Connected(Generated(c))
      BY <2>7, <2>9
    <3>3. c[1].in = "none"
      BY <2>3, <2>5, <3>1
    <3>4. IsChain(A, Generated(c))
      BY <2>3, <2>5, <2>6, <3>1, <3>3, GeneratedIs
    <3>5. r = Bad \/ r = [res |-> "ok", steps |-> Generated(c)]
      BY <3>2 DEF Connected
    <3>6. QED
      BY <3>4, <3>5 DEF Bad, r
  <2>10. QED
    BY <2>8, <2>9
<1>3. QED
  BY <1>1, <1>2

-----------------------------------------------------------------------------
(* Where the goroutines of a search are                                    *)

LEMMA ListIsList ==
  ASSUME NEW s, IsList(s)
  PROVE  Len(s) \in Nat /\ DOMAIN s = 1 .. Len(s)
BY DEF IsList

LEMMA FunctionIsList ==
  ASSUME NEW s, NEW n \in Nat, s = [ i \in 1 .. n |-> s[i] ]
  PROVE  IsList(s) /\ Len(s) = n /\ DOMAIN s = 1 .. n
<1>1. DOMAIN s = 1 .. n
  OBVIOUS
<1>2. s \in Seq({ s[i] : i \in 1 .. n })
  OBVIOUS
<1>3. Len(s) = n
  BY <1>1, <1>2
<1>4. QED
  BY <1>1, <1>2, <1>3 DEF IsList

LEMMA SeqIsList ==
  ASSUME NEW X, NEW s \in Seq(X)
  PROVE  IsList(s)
BY DEF IsList

LEMMA AppendIsList ==
  ASSUME NEW s, IsList(s), NEW e
  PROVE  /\ IsList(Append(s, e)) /\ Len(Append(s, e)) = Len(s) + 1
         /\ Append(s, e)[Len(s) + 1] = e
         /\ \A i \in 1 .. Len(s) : Append(s, e)[i] = s[i]
<1> DEFINE X == { s[i] : i \in DOMAIN s } \cup {e}
<1>1. s \in Seq(X) /\ e \in X
  BY DEF IsList
<1> HIDE DEF X
<1>2. /\ Append(s, e) \in Seq(X) /\ Len(Append(s, e)) = Len(s) + 1
      /\ Append(s, e)[Len(s) + 1] = e
      /\ \A i \in 1 .. Len(s) : Append(s, e)[i] = s[i]
  BY <1>1
<1>3. IsList(Append(s, e))
  BY <1>2, SeqIsList
<1>4. QED
  BY <1>2, <1>3

LEMMA TailIsList ==
  ASSUME NEW s, IsList(s), s # << >>
  PROVE  /\ Len(s) \in Nat \ {0} /\ IsList(Tail(s)) /\ Len(Tail(s)) = Len(s) - 1
         /\ \A i \in 1 .. Len(s) - 1 : Tail(s)[i] = s[i + 1]
<1> DEFINE X == { s[i] : i \in DOMAIN s }
<1>1. s \in Seq(X)
  BY DEF IsList
<1> HIDE DEF X
<1>2. /\ Len(s) \in Nat \ {0} /\ Tail(s) \in Seq(X) /\ Len(Tail(s)) = Len(s) - 1
      /\ \A i \in 1 .. Len(s) - 1 : Tail(s)[i] = s[i + 1]
  BY <1>1
<1>3. IsList(Tail(s))
  BY <1>2, SeqIsList
<1>4. QED
  BY <1>2, <1>3

LEMMA ChainIs ==
  ASSUME Shape, chain # << >>
  PROVE  /\ IsChain(Atoms, chain) /\ Len(chain) \in Nat \ {0} /\ DOMAIN chain = 1 .. Len(chain)
         /\ Len(pipes) = Len(chain) /\ DOMAIN steps = 1 .. Len(chain)
         /\ 1 \in DOMAIN chain /\ Len(pipes) \in DOMAIN chain
<1>1. IsChain(Atoms, chain) /\ IsList(pipes) /\ DOMAIN steps = DOMAIN chain /\ DOMAIN pipes = DOMAIN chain
  BY DEF Shape
<1>2. Len(chain) \in Nat \ {0} /\ DOMAIN chain = 1 .. Len(chain)
  BY <1>1 DEF IsChain
<1>3. Len(pipes) = Len(chain)
  BY <1>1, <1>2, ListIsList
<1>4. QED
  BY <1>1, <1>2, <1>3

\* A step of the stream or of the goroutine of a step.
LEMMA ShapeMoves ==
  ASSUME Shape, chain # << >>, UNCHANGED << load, chain, engine, cancelled, job >>,
         DOMAIN steps' = DOMAIN chain, pipes' = [ i \in DOMAIN chain |-> pipes'[i] ],
         \A i \in DOMAIN chain : Goroutine(i, steps'[i], pipes'[i]),
         StreamIs(stream')
  PROVE  Shape'
<1>1. Atoms' = Atoms
  BY DEF Atoms, Input
<1>2. IsList(pipes') /\ DOMAIN pipes' = DOMAIN chain
  BY ChainIs, FunctionIsList
<1>3. IsChain(Atoms, chain)
  BY ChainIs
<1>4. QED
  BY <1>1, <1>2, <1>3 DEF Shape

\* A step of the goroutine of step i that leaves other channels alone.
LEMMA ShapeOwn ==
  ASSUME Shape, NEW i \in DOMAIN chain, UNCHANGED << load, chain, engine, cancelled, job >>,
         NEW s, NEW p, steps' = [steps EXCEPT ![i] = s], pipes' = [pipes EXCEPT ![i] = p],
         Goroutine(i, s, p), StreamIs(stream')
  PROVE  Shape'
<1>1. chain # << >> /\ DOMAIN steps = DOMAIN chain /\ DOMAIN pipes = DOMAIN chain
      /\ \A j \in DOMAIN chain : Goroutine(j, steps[j], pipes[j])
  <2>1. DOMAIN << >> = {}
    OBVIOUS
  <2>2. QED
    BY <2>1 DEF Shape
<1>2. DOMAIN steps' = DOMAIN chain /\ pipes' = [ j \in DOMAIN chain |-> pipes'[j] ]
  BY <1>1
<1>3. ASSUME NEW j \in DOMAIN chain PROVE Goroutine(j, steps'[j], pipes'[j])
  BY <1>1
<1>4. QED
  BY <1>1, <1>2, <1>3, ShapeMoves

\* Numbers that have amounts.
Amounts(S, amount) == IsFiniteSet(S) /\ \A i \in S : i \in Nat /\ amount[i] \in Nat

Greater(S, amount, a) == { j \in S : amount[j] > a }

AtLeast(S, amount, a) == { j \in S : amount[j] >= a }

Many(all, skip, take) == IF all <= skip THEN 0 ELSE IF all - skip < take THEN all - skip ELSE take

\* What ORDER BY, LIMIT and OFFSET may return, by what is not below a row.
Paged(S, amount, skip, take, page) ==
  LET n == Many(Cardinality(S), skip, take)
  IN  /\ page \in [1 .. n -> S]
      /\ \A k \in 1 .. n :
           /\ Cardinality(Greater(S, amount, amount[page[k]])) < skip + k
           /\ skip + k <= Cardinality(AtLeast(S, amount, amount[page[k]]))
           /\ \A l \in 1 .. n : page[k] = page[l] => k = l

LEMMA PartsAre ==
  ASSUME NEW S, NEW amount, Amounts(S, amount), NEW a \in Nat
  PROVE  /\ Greater(S, amount, a) \subseteq S /\ AtLeast(S, amount, a) \subseteq S
         /\ IsFiniteSet(Greater(S, amount, a)) /\ Cardinality(Greater(S, amount, a)) \in Nat
         /\ IsFiniteSet(AtLeast(S, amount, a)) /\ Cardinality(AtLeast(S, amount, a)) \in Nat
         /\ Cardinality({ j \in S : amount[j] < a }) = Cardinality(S) - Cardinality(AtLeast(S, amount, a))
         /\ Cardinality(S) \in Nat
<1> DEFINE G == Greater(S, amount, a)
           L == AtLeast(S, amount, a)
<1>1. IsFiniteSet(S) /\ G \in SUBSET S /\ L \in SUBSET S
  BY DEF Amounts, Greater, AtLeast
<1>2. S \ L = { j \in S : amount[j] < a } /\ S \cap L = L
  BY DEF AtLeast, Amounts
<1> HIDE DEF G, L
<1>3. IsFiniteSet(G) /\ IsFiniteSet(L)
  BY <1>1, FS_Subset
<1>4. Cardinality(S \ L) = Cardinality(S) - Cardinality(S \cap L)
  BY <1>1, FS_Difference
<1>5. Cardinality(G) \in Nat /\ Cardinality(L) \in Nat /\ Cardinality(S) \in Nat
  BY <1>1, <1>3, FS_CardinalityType
<1>6. QED
  BY <1>1, <1>2, <1>3, <1>4, <1>5 DEF G, L

LEMMA PagesAre ==
  ASSUME NEW S, NEW amount, Amounts(S, amount), NEW skip \in Nat, NEW take \in Nat, NEW page
  PROVE  page \in Pages(S, amount, skip, take) <=> Paged(S, amount, skip, take, page)
<1> DEFINE n == Many(Cardinality(S), skip, take)
<1>1. page \in Pages(S, amount, skip, take) <=>
        /\ page \in [1 .. n -> S]
        /\ \A k \in 1 .. n :
             /\ Cardinality(Greater(S, amount, amount[page[k]])) < skip + k
             /\ skip + k <= Cardinality(S) - Cardinality({ j \in S : amount[j] < amount[page[k]] })
             /\ \A l \in 1 .. n : page[k] = page[l] => k = l
  BY DEF Pages, Greater, Many
<1>2. ASSUME page \in [1 .. n -> S], NEW k \in 1 .. n
      PROVE  Cardinality(S) - Cardinality({ j \in S : amount[j] < amount[page[k]] })
               = Cardinality(AtLeast(S, amount, amount[page[k]]))
  <2> DEFINE a == amount[page[k]]
  <2>1. a \in Nat
    BY <1>2 DEF Amounts
  <2> HIDE DEF a
  <2>2. QED
    BY <2>1, PartsAre DEF a
<1> HIDE DEF n
<1>3. QED
  BY <1>1, <1>2 DEF Paged, n

LEMMA PageIsList ==
  ASSUME NEW S, NEW amount, IsFiniteSet(S), NEW skip \in Nat, NEW take \in Nat,
         NEW page \in Pages(S, amount, skip, take)
  PROVE  /\ IsList(page) /\ Len(page) = Many(Cardinality(S), skip, take) /\ Len(page) <= take
         /\ page \in Seq(S)
<1> DEFINE n == Many(Cardinality(S), skip, take)
<1>1. page \in [1 .. n -> S]
  BY DEF Pages, Many
<1>2. Cardinality(S) \in Nat
  BY FS_CardinalityType
<1>3. n \in Nat /\ n <= take
  BY <1>2 DEF Many
<1> HIDE DEF n
<1>4. page \in Seq(S) /\ Len(page) = n
  BY <1>1, <1>3
<1>5. QED
  BY <1>3, <1>4, SeqIsList DEF n

\* A page is in order.
LEMMA PageDescends ==
  ASSUME NEW S, NEW amount, Amounts(S, amount), NEW skip \in Nat, NEW take \in Nat,
         NEW page \in Pages(S, amount, skip, take),
         NEW k \in DOMAIN page, NEW l \in DOMAIN page, k < l
  PROVE  amount[page[k]] >= amount[page[l]]
<1> DEFINE a == amount[page[k]]
           b == amount[page[l]]
<1>1. /\ k \in Nat /\ l \in Nat /\ a \in Nat /\ b \in Nat
      /\ Cardinality(Greater(S, amount, a)) < skip + k
      /\ skip + l <= Cardinality(AtLeast(S, amount, b))
  <2>1. Paged(S, amount, skip, take, page)
    BY PagesAre
  <2>2. QED
    BY <2>1 DEF Paged, Amounts
<1> HIDE DEF a, b
<1>2. ASSUME a < b PROVE FALSE
  <2>1. AtLeast(S, amount, b) \subseteq Greater(S, amount, a)
    BY <1>1, <1>2 DEF AtLeast, Greater, Amounts
  <2>2. /\ IsFiniteSet(Greater(S, amount, a)) /\ Cardinality(Greater(S, amount, a)) \in Nat
        /\ Cardinality(AtLeast(S, amount, b)) \in Nat
    BY <1>1, PartsAre
  <2>3. Cardinality(AtLeast(S, amount, b)) <= Cardinality(Greater(S, amount, a))
    BY <2>1, <2>2, FS_Subset
  <2>4. QED
    BY <1>1, <2>2, <2>3
<1>3. QED
  BY <1>1, <1>2 DEF a, b

\* What is not on the first page is not above it, and the page is full.
LEMMA PageMisses ==
  ASSUME NEW S, NEW amount, Amounts(S, amount), NEW take \in Nat,
         NEW page \in Pages(S, amount, 0, take),
         NEW i \in S, \A k \in DOMAIN page : page[k] # i
  PROVE  Len(page) = take /\ \A k \in DOMAIN page : amount[page[k]] >= amount[i]
<1> DEFINE n == Many(Cardinality(S), 0, take)
<1>1. /\ page \in [1 .. n -> S] /\ \A k, l \in 1 .. n : page[k] = page[l] => k = l
      /\ \A k \in 1 .. n : Cardinality(Greater(S, amount, amount[page[k]])) < 0 + k
  <2>1. 0 \in Nat
    OBVIOUS
  <2>2. Paged(S, amount, 0, take, page)
    BY <2>1, PagesAre
  <2>3. QED
    BY <2>2 DEF Paged
<1>2. Len(page) = n /\ DOMAIN page = 1 .. n
  BY <1>1, PageIsList DEF Amounts
<1>3. IsFiniteSet(S) /\ Cardinality(S) \in Nat
  BY FS_CardinalityType DEF Amounts
<1>4. n \in Nat /\ (n = take \/ n = Cardinality(S))
  BY <1>3 DEF Many
<1> HIDE DEF n
\* Different numbers at the first m places are m numbers.
<1>5. ASSUME NEW m \in 0 .. n
      PROVE  /\ IsFiniteSet({ page[k] : k \in 1 .. m })
             /\ Cardinality({ page[k] : k \in 1 .. m }) = m
  <2> DEFINE T == { page[k] : k \in 1 .. m }
             f == [ k \in 1 .. m |-> page[k] ]
  <2>1. m \in Nat /\ 1 .. m \subseteq 1 .. n /\ 1 \in Int /\ m \in Int
    BY <1>4
  <2>2. IsFiniteSet(1 .. m) /\ Cardinality(1 .. m) = m
    BY <2>1, FS_Interval
  <2>3. f \in Surjection(1 .. m, T) /\ f \in Injection(1 .. m, T)
    BY <1>1, <2>1 DEF Surjection, Injection, IsInjective
  <2> HIDE DEF T, f
  <2>4. IsFiniteSet(T) /\ Cardinality(T) = m
    BY <2>2, <2>3, FS_Surjection
  <2>5. QED
    BY <2>4 DEF T
<1>6. n # Cardinality(S)
  <2> DEFINE T == { page[k] : k \in 1 .. n }
  <2>1. IsFiniteSet(T) /\ Cardinality(T) = n
    BY <1>4, <1>5
  <2>2. T \in SUBSET S /\ i \notin T
    BY <1>1, <1>2
  <2> HIDE DEF T
  <2>3. QED
    BY <1>3, <2>1, <2>2, FS_Subset
<1>7. ASSUME NEW m \in 1 .. n, ~(amount[page[m]] >= amount[i]) PROVE FALSE
  <2> DEFINE B == { k \in 1 .. n : ~(amount[page[k]] >= amount[i]) }
  <2>1. B \in SUBSET (1 .. n) /\ B # {}
    BY <1>7
  <2> HIDE DEF B
  <2>2. PICK k \in B : \A j \in B : k <= j
    BY <1>4, <2>1, SmallestNumber
  <2> DEFINE a == amount[page[k]]
             T == { page[j] : j \in 1 .. (k - 1) }
  <2>3. k \in 1 .. n /\ a < amount[i] /\ k - 1 \in 0 .. n /\ i \notin T /\ a \in Nat /\ amount[i] \in Nat
    BY <1>1, <1>2, <1>4, <2>1, <2>2 DEF B, Amounts
  <2>4. \A j \in 1 .. (k - 1) : j \in 1 .. n /\ amount[page[j]] >= amount[i] /\ amount[page[j]] > a
    BY <1>1, <1>4, <2>2, <2>3 DEF B, Amounts
  <2>5. IsFiniteSet(T) /\ Cardinality(T) = k - 1
    BY <1>5, <2>3
  <2>6. T \cup {i} \subseteq Greater(S, amount, a)
    BY <1>1, <2>3, <2>4 DEF Greater
  <2>7. Cardinality(Greater(S, amount, a)) < 0 + k /\ k \in Nat
    BY <1>1, <2>3
  <2> HIDE DEF a, T
  <2>8. IsFiniteSet(T \cup {i}) /\ Cardinality(T \cup {i}) = k - 1 + 1
    BY <2>3, <2>5, FS_AddElement
  <2>9. IsFiniteSet(Greater(S, amount, a)) /\ Cardinality(Greater(S, amount, a)) \in Nat
    BY <2>3, PartsAre
  <2>10. Cardinality(T \cup {i}) <= Cardinality(Greater(S, amount, a))
    BY <2>6, <2>9, FS_Subset
  <2>11. QED
    BY <2>7, <2>8, <2>9, <2>10
<1>8. QED
  BY <1>2, <1>4, <1>6, <1>7

\* What is added below all there is leaves full pages as they are.
LEMMA MoreBelow ==
  ASSUME NEW S, NEW T, S \subseteq T, NEW old, NEW new, Amounts(T, new),
         \A i \in S : old[i] = new[i],
         \A i \in S, k \in T \ S : new[k] < new[i],
         NEW skip \in Nat, NEW take \in Nat, skip + take <= Cardinality(S)
  PROVE  Pages(T, new, skip, take) = Pages(S, old, skip, take)
<1>1. Amounts(S, old) /\ IsFiniteSet(T) /\ IsFiniteSet(S)
  BY FS_Subset DEF Amounts
<1>2. Cardinality(S) \in Nat /\ Cardinality(T) \in Nat /\ Cardinality(S) <= Cardinality(T)
  BY <1>1, FS_CardinalityType, FS_Subset
<1>3. Many(Cardinality(S), skip, take) = take /\ Many(Cardinality(T), skip, take) = take
  BY <1>2 DEF Many
<1>4. \A i \in S : /\ Greater(T, new, new[i]) = Greater(S, old, old[i])
                   /\ AtLeast(T, new, new[i]) = AtLeast(S, old, old[i])
  BY <1>1 DEF Greater, AtLeast, Amounts
<1>5. ASSUME NEW page, Paged(T, new, skip, take, page) PROVE page \in [1 .. take -> S]
  <2>1. ASSUME NEW k \in 1 .. take, page[k] \notin S PROVE FALSE
    <3> DEFINE a == new[page[k]]
    <3>1. page[k] \in T /\ Cardinality(Greater(T, new, a)) < skip + k /\ a \in Nat /\ k <= take
      BY <1>3, <1>5 DEF Paged, Amounts
    <3>2. S \subseteq Greater(T, new, a)
      BY <2>1, <3>1 DEF Greater, Amounts
    <3> HIDE DEF a
    <3>3. IsFiniteSet(Greater(T, new, a)) /\ Cardinality(Greater(T, new, a)) \in Nat
      BY <3>1, PartsAre
    <3>4. Cardinality(S) <= Cardinality(Greater(T, new, a))
      BY <3>2, <3>3, FS_Subset
    <3>5. QED
      BY <1>2, <3>1, <3>3, <3>4
  <2>2. QED
    BY <1>3, <1>5, <2>1 DEF Paged
<1>6. \A page : Paged(T, new, skip, take, page) <=> Paged(S, old, skip, take, page)
  <2> SUFFICES ASSUME NEW page
               PROVE  Paged(T, new, skip, take, page) <=> Paged(S, old, skip, take, page)
    OBVIOUS
  <2>1. ASSUME page \in [1 .. take -> S]
        PROVE  Paged(T, new, skip, take, page) <=> Paged(S, old, skip, take, page)
    <3>1. \A k \in 1 .. take :
            /\ page[k] \in S
            /\ Greater(T, new, new[page[k]]) = Greater(S, old, old[page[k]])
            /\ AtLeast(T, new, new[page[k]]) = AtLeast(S, old, old[page[k]])
      BY <1>4, <2>1
    <3>2. page \in [1 .. take -> T]
      BY <2>1
    <3>3. QED
      BY <1>3, <2>1, <3>1, <3>2 DEF Paged
  <2>2. QED
    BY <1>3, <1>5, <2>1 DEF Paged
<1>7. \A page : page \in Pages(T, new, skip, take) <=> page \in Pages(S, old, skip, take)
  BY <1>1, <1>6, PagesAre
<1>8. QED
  <2> DEFINE P == Pages(T, new, skip, take)
             Q == Pages(S, old, skip, take)
  <2>1. \A page \in P : page \in Q
    BY <1>7
  <2>2. \A page \in Q : page \in P
    BY <1>7
  <2> HIDE DEF P, Q
  <2>3. P = Q
    BY <2>1, <2>2
  <2>4. QED
    BY <2>3 DEF P, Q

LEMMA RowsAre ==
  ASSUME NEW ids, IsList(ids)
  PROVE  IsList(Rows(ids)) /\ Len(Rows(ids)) = Len(ids)
<1> DEFINE s == Rows(ids)
<1>1. Len(ids) \in Nat /\ DOMAIN ids = 1 .. Len(ids)
  BY ListIsList
<1>2. s = [ i \in 1 .. Len(ids) |-> s[i] ]
  BY <1>1 DEF Rows
<1> HIDE DEF s
<1>3. IsList(s) /\ Len(s) = Len(ids)
  BY <1>1, <1>2, FunctionIsList
<1>4. QED
  BY <1>3 DEF s

\* A page, or what of it was read, has no more events than were asked for.
LEMMA PageIs ==
  ASSUME KInv, NEW step, NEW maxId, NEW last, NEW all \in Page(step, maxId, last)
  PROVE  IsList(all) /\ Len(all) <= PageSize /\ DOMAIN all = 1 .. Len(all) /\ Len(all) \in Nat
<1> DEFINE ids == { i \in DOMAIN Events :
                      i <= maxId /\ Matches(step, i) /\ \A t \in last : Events[i].time < t }
<1>1. ids \subseteq 1 .. seq /\ 1 \in Int /\ seq \in Int
  BY DEF KInv, IInv, FreshIds
<1>2. all \in Pages(ids, TimesOf(Events), 0, PageSize)
  BY DEF Page, Newest
<1> HIDE DEF ids
<1>3. IsFiniteSet(ids)
  BY <1>1, FS_Interval, FS_Subset
<1>4. 0 \in Nat /\ PageSize \in Nat
  BY SearchJobsAssumption
<1>5. QED
  BY <1>2, <1>3, <1>4, PageIsList, ListIsList

LEMMA PartIs ==
  ASSUME NEW all, IsList(all), NEW n \in 0 .. Len(all)
  PROVE  /\ IsList(SubSeq(all, 1, n)) /\ Len(SubSeq(all, 1, n)) = n
         /\ \A i \in 1 .. n : i \in DOMAIN all /\ SubSeq(all, 1, n)[i] = all[i]
         /\ n = Len(all) => SubSeq(all, 1, n) = all
<1> DEFINE X == { all[i] : i \in DOMAIN all }
<1>1. all \in Seq(X) /\ DOMAIN all = 1 .. Len(all) /\ Len(all) \in Nat /\ n \in Nat /\ n <= Len(all)
  BY ListIsList DEF IsList
<1> HIDE DEF X
<1>2. /\ SubSeq(all, 1, n) \in Seq(X) /\ Len(SubSeq(all, 1, n)) = n
      /\ \A i \in 1 .. n : SubSeq(all, 1, n)[i] = all[i]
  BY <1>1
<1>3. n = Len(all) => SubSeq(all, 1, n) = all
  BY <1>1, <1>2
<1>4. \A i \in 1 .. n : i \in DOMAIN all
  BY <1>1
<1>5. QED
  BY <1>2, <1>3, <1>4, SeqIsList

LEMMA QueryReads ==
  ASSUME KInv, QueryPage
  PROVE  \/ stream' = [stream EXCEPT !.at = "end"] /\ (Fails \/ ~Queryable(chain[1].search))
         \/ \E all \in Page(chain[1], stream.maxId, stream.last) : \E n \in 0 .. Len(all) :
              HasRead(SubSeq(all, 1, n)) /\ (Fails \/ n = Len(all))
<1>1. ASSUME NEW all \in Page(chain[1], stream.maxId, stream.last), HasRead(all)
      PROVE  Len(all) \in 0 .. Len(all) /\ HasRead(SubSeq(all, 1, Len(all)))
  <2>1. IsList(all) /\ Len(all) \in 0 .. Len(all)
    BY PageIs
  <2>2. SubSeq(all, 1, Len(all)) = all
    BY <2>1, PartIs
  <2>3. QED
    BY <1>1, <2>1, <2>2
<1>2. QED
  BY <1>1 DEF QueryPage

-----------------------------------------------------------------------------
(* Every step keeps this shape.                                            *)

LEMMA StreamShape ==
  ASSUME KInv, Shape, OpenStream \/ QueryPage
  PROVE  Shape'
<1>1. chain # << >>
  BY DEF OpenStream, QueryPage, Shape
<1>2. /\ UNCHANGED << load, chain, engine, cancelled, job >> /\ UNCHANGED << steps, pipes >>
  BY DEF OpenStream, QueryPage, StreamOnly, Stored
<1>3. StreamIs(stream')
  <2>1. StreamIs(stream)
    BY DEF Shape
  <2>2. CASE OpenStream
    BY <2>1, <2>2 DEF OpenStream, StreamIs
  <2>3. CASE QueryPage
    <3>1. ASSUME NEW all \in Page(chain[1], stream.maxId, stream.last), NEW n \in 0 .. Len(all),
                 HasRead(SubSeq(all, 1, n))
          PROVE  StreamIs(stream')
      <4> DEFINE ids == SubSeq(all, 1, n)
      <4>1. IsList(ids) /\ Len(ids) <= PageSize
        BY PageIs, PartIs, SearchJobsAssumption
      <4>2. IsList(Rows(ids)) /\ Len(Rows(ids)) <= PageSize
        BY <4>1, RowsAre
      <4> HIDE DEF ids
      <4>3. QED
        BY <2>1, <3>1, <4>2 DEF StreamIs, HasRead, ids
    <3>2. QED
      BY <2>1, <2>3, <3>1, QueryReads DEF StreamIs
  <2>4. QED
    BY <2>2, <2>3
<1>4. QED
  <2>1. DOMAIN steps' = DOMAIN chain /\ pipes' = [ i \in DOMAIN chain |-> pipes'[i] ]
        /\ \A i \in DOMAIN chain : Goroutine(i, steps'[i], pipes'[i])
    <3>1. IsList(pipes)
      BY DEF Shape
    <3>2. pipes = [ i \in DOMAIN pipes |-> pipes[i] ]
      BY <3>1 DEF IsList
    <3>3. QED
      BY <1>2, <3>2 DEF Shape
  <2>2. QED
    BY <1>1, <1>2, <1>3, <2>1, ShapeMoves

LEMMA EndsShape ==
  ASSUME Shape, NEW i \in DOMAIN chain, Ends(i), StreamIs(stream'),
         UNCHANGED << load, chain, engine, cancelled, job >>
  PROVE  Shape'
<1> DEFINE s == [steps[i] EXCEPT !.at = "end"]
           p == [pipes[i] EXCEPT !.closed = TRUE]
<1>1. steps' = [steps EXCEPT ![i] = s] /\ pipes' = [pipes EXCEPT ![i] = p]
  BY DEF Ends
<1>2. Goroutine(i, steps[i], pipes[i])
  BY DEF Shape
<1>3. s.at = "end" /\ DOMAIN s = {"at", "out"} /\ p.buffer = pipes[i].buffer /\ DOMAIN p = {"buffer", "closed"}
  BY <1>2 DEF Goroutine
<1>4. p.closed = TRUE
  BY <1>2 DEF Goroutine
<1> HIDE DEF s, p
<1>5. Goroutine(i, s, p)
  BY <1>2, <1>3, <1>4 DEF Goroutine
<1>6. QED
  BY <1>1, <1>5, ShapeOwn

LEMMA ToSendShape ==
  ASSUME Shape, NEW i \in DOMAIN chain, NEW result, ToSend(i, result), steps[i].at # "end",
         UNCHANGED pipes, StreamIs(stream'),
         UNCHANGED << load, chain, engine, cancelled, job >>
  PROVE  Shape'
<1> DEFINE s == [steps[i] EXCEPT !.at = "send", !.out = result]
<1>1. steps' = [steps EXCEPT ![i] = s] /\ pipes' = [pipes EXCEPT ![i] = pipes[i]]
  <2>1. IsList(pipes)
    BY DEF Shape
  <2>2. pipes = [pipes EXCEPT ![i] = pipes[i]]
    BY <2>1 DEF IsList
  <2>3. QED
    BY <2>2 DEF ToSend
<1>2. Goroutine(i, steps[i], pipes[i])
  BY DEF Shape
<1>3. s.at = "send" /\ DOMAIN s = {"at", "out"}
  BY <1>2 DEF Goroutine
<1> HIDE DEF s
<1>4. Goroutine(i, s, pipes[i])
  BY <1>2, <1>3 DEF Goroutine
<1>5. QED
  BY <1>1, <1>4, ShapeOwn

\* There is a first step when one of its actions is taken.
LEMMA FirstStep ==
  ASSUME Shape, steps # << >>
  PROVE  1 \in DOMAIN chain /\ chain # << >>
BY ChainIs DEF Shape

LEMMA SearchShape ==
  ASSUME Shape, StartSearch \/ SearchPage \/ SearchEnds \/ StartSurrounding
  PROVE  Shape'
<1>1. UNCHANGED << load, chain, engine, cancelled, job >> /\ steps # << >> /\ 1 \in DOMAIN chain
  BY FirstStep DEF StartSearch, SearchPage, SearchEnds, StartSurrounding, StepsOnly, Stored
<1>2. StreamIs(stream) /\ Goroutine(1, steps[1], pipes[1]) /\ IsList(pipes)
  BY <1>1 DEF Shape
<1>3. StreamIs(stream')
  <2>1. \/ UNCHANGED stream
        \/ stream' = [stream EXCEPT !.at = "max"]
        \/ stream' = [stream EXCEPT !.at = IF Len(stream.page) < PageSize THEN "end" ELSE "query"]
    BY DEF StartSearch, SearchPage, SearchEnds, StartSurrounding
  <2>2. QED
    BY <1>2, <2>1 DEF StreamIs
<1>4. CASE Ends(1)
  BY <1>1, <1>3, <1>4, EndsShape
<1>5. CASE UNCHANGED << steps, pipes >>
  <2>1. pipes = [ i \in DOMAIN pipes |-> pipes[i] ]
    BY <1>2 DEF IsList
  <2>2. chain # << >>
    BY <1>1, FirstStep
  <2>3. DOMAIN steps' = DOMAIN chain /\ pipes' = [ i \in DOMAIN chain |-> pipes'[i] ]
        /\ \A i \in DOMAIN chain : Goroutine(i, steps'[i], pipes'[i])
    BY <1>5, <2>1 DEF Shape
  <2>4. QED
    BY <1>1, <1>3, <2>2, <2>3, ShapeMoves
<1>6. ASSUME NEW result, ToSend(1, result), UNCHANGED pipes, steps[1].at # "end"
      PROVE  Shape'
  BY <1>1, <1>3, <1>6, ToSendShape
<1>7. CASE steps' = [steps EXCEPT ![1].at = "select"] /\ UNCHANGED pipes /\ steps[1].at = "start"
  <2> DEFINE s == [steps[1] EXCEPT !.at = "select"]
  <2>1. steps' = [steps EXCEPT ![1] = s] /\ pipes' = [pipes EXCEPT ![1] = pipes[1]]
    <3>1. pipes = [pipes EXCEPT ![1] = pipes[1]]
      BY <1>2 DEF IsList
    <3>2. QED
      BY <1>7, <3>1
  <2>2. s.at = "select" /\ DOMAIN s = {"at", "out"}
    BY <1>2 DEF Goroutine
  <2> HIDE DEF s
  <2>3. Goroutine(1, s, pipes[1])
    BY <1>2, <1>7, <2>2 DEF Goroutine
  <2>4. QED
    BY <1>1, <1>3, <2>1, <2>3, ShapeOwn
<1>8. CASE StartSearch
  BY <1>4, <1>7, <1>8 DEF StartSearch
<1>9. CASE SearchPage
  <2>1. \/ UNCHANGED << steps, pipes >>
        \/ \E r : ToSend(1, r) /\ UNCHANGED pipes /\ steps[1].at # "end"
    BY <1>9 DEF SearchPage
  <2>2. QED
    BY <1>5, <1>6, <2>1
<1>10. CASE SearchEnds
  BY <1>4, <1>10 DEF SearchEnds
<1>11. CASE StartSurrounding
  <2>1. \/ Ends(1) \/ UNCHANGED << steps, pipes >>
        \/ \E r : ToSend(1, r) /\ UNCHANGED pipes /\ steps[1].at # "end"
    BY <1>11 DEF StartSurrounding
  <2>2. QED
    BY <1>4, <1>5, <1>6, <2>1
<1>12. QED
  BY <1>8, <1>9, <1>10, <1>11

-----------------------------------------------------------------------------

LEMMA PipesAre ==
  ASSUME Shape
  PROVE  pipes = [ i \in DOMAIN chain |-> pipes[i] ]
<1>1. IsList(pipes) /\ DOMAIN pipes = DOMAIN chain
  BY DEF Shape
<1>2. pipes = [ i \in DOMAIN pipes |-> pipes[i] ]
  BY <1>1 DEF IsList
<1>3. QED
  BY <1>1, <1>2

\* A result has been taken from the channel of a step.
LEMMA TakenIs ==
  ASSUME NEW i, NEW s, NEW p, Goroutine(i, s, p), p.buffer # << >>
  PROVE  Goroutine(i, s, [p EXCEPT !.buffer = Tail(@)])
<1> DEFINE q == [p EXCEPT !.buffer = Tail(@)]
<1>1. DOMAIN q = {"buffer", "closed"} /\ q.closed = p.closed /\ q.buffer = Tail(p.buffer)
  BY DEF Goroutine
<1>2. IsList(Tail(p.buffer)) /\ Len(Tail(p.buffer)) = Len(p.buffer) - 1 /\ Len(p.buffer) \in Nat
  BY TailIsList DEF Goroutine
<1> HIDE DEF q
<1>3. Len(q.buffer) <= PipeBufferSize
  BY <1>1, <1>2, SearchJobsAssumption DEF Goroutine
<1>4. Goroutine(i, s, q)
  BY <1>1, <1>2, <1>3 DEF Goroutine
<1>5. QED
  BY <1>4 DEF q

LEMMA ReceivesShape ==
  ASSUME Shape, NEW i \in DOMAIN chain, Receives(i)
  PROVE  Shape'
<1>1. /\ UNCHANGED << load, chain, engine, cancelled, job, stream >>
      /\ i > 1 /\ steps[i].at = "select" /\ pipes[i - 1].buffer # << >>
      /\ pipes' = [pipes EXCEPT ![i - 1].buffer = Tail(@)]
      /\ steps' = steps \/ \E r : ToSend(i, r)
  BY DEF Receives, StepsOnly, Stored
<1>2. chain # << >>
  OBVIOUS
<1>3. DOMAIN chain = 1 .. Len(chain) /\ Len(chain) \in Nat /\ DOMAIN steps = DOMAIN chain
  BY <1>2, ChainIs
<1>4. i - 1 \in DOMAIN chain /\ i - 1 # i
  BY <1>1, <1>3
<1> DEFINE q == [pipes[i - 1] EXCEPT !.buffer = Tail(@)]
<1>5. pipes' = [ j \in DOMAIN chain |-> IF j = i - 1 THEN q ELSE pipes[j] ]
  BY <1>1, <1>4, PipesAre
<1>6. \A j \in DOMAIN chain : Goroutine(j, steps[j], pipes[j])
  BY DEF Shape
<1>7. Goroutine(i - 1, steps[i - 1], q)
  BY <1>1, <1>4, <1>6, TakenIs
<1> HIDE DEF q
<1>8. ASSUME NEW r, ToSend(i, r)
      PROVE  /\ steps' = [ j \in DOMAIN chain |-> IF j = i THEN steps'[i] ELSE steps[j] ]
             /\ steps'[i].at = "send" /\ DOMAIN steps'[i] = {"at", "out"}
  <2>1. Goroutine(i, steps[i], pipes[i])
    BY <1>6
  <2>2. steps' = [steps EXCEPT ![i].at = "send", ![i].out = r]
    BY <1>8 DEF ToSend
  <2>3. steps'[i] = [steps[i] EXCEPT !.at = "send", !.out = r]
    BY <1>3, <2>2
  <2>4. steps'[i].at = "send" /\ DOMAIN steps'[i] = {"at", "out"}
    BY <2>1, <2>3 DEF Goroutine
  <2>5. DOMAIN steps' = DOMAIN chain /\ \A j \in DOMAIN chain : j # i => steps'[j] = steps[j]
    BY <1>3, <2>2
  <2>6. steps' = [ j \in DOMAIN steps' |-> steps'[j] ]
    BY <2>2
  <2>7. QED
    BY <2>4, <2>5, <2>6
<1>9. DOMAIN steps' = DOMAIN chain /\ \A j \in DOMAIN chain : Goroutine(j, steps'[j], pipes'[j])
  <2>1. CASE steps' = steps
    BY <1>3, <1>5, <1>6, <1>7, <2>1
  <2>2. CASE \E r : ToSend(i, r)
    <3>1. /\ steps' = [ j \in DOMAIN chain |-> IF j = i THEN steps'[i] ELSE steps[j] ]
          /\ steps'[i].at = "send" /\ DOMAIN steps'[i] = {"at", "out"}
      BY <1>8, <2>2
    <3>2. Goroutine(i, steps'[i], pipes'[i])
      <4>1. pipes'[i] = pipes[i] /\ Goroutine(i, steps[i], pipes[i])
        BY <1>4, <1>5, <1>6
      <4>2. QED
        BY <1>1, <3>1, <4>1 DEF Goroutine
    <3>3. DOMAIN steps' = DOMAIN chain /\ \A j \in DOMAIN chain : j # i => steps'[j] = steps[j]
      BY <3>1
    <3>4. ASSUME NEW j \in DOMAIN chain, j # i
          PROVE  Goroutine(j, steps[j], pipes'[j])
      BY <1>5, <1>6, <1>7, <3>4
    <3>5. QED
      BY <3>2, <3>3, <3>4
  <2>3. QED
    BY <1>1, <2>1, <2>2
<1>10. StreamIs(stream') /\ pipes' = [ j \in DOMAIN chain |-> pipes'[j] ]
  BY <1>1, <1>5 DEF Shape
<1>11. QED
  BY <1>1, <1>2, <1>9, <1>10, ShapeMoves

LEMMA InputEndsShape ==
  ASSUME Shape, NEW i \in DOMAIN chain, InputEnds(i)
  PROVE  Shape'
<1>1. Ends(i) /\ UNCHANGED << load, chain, engine, cancelled, job, stream >>
  BY DEF InputEnds, StepsOnly, Stored
<1>2. StreamIs(stream')
  BY <1>1 DEF Shape
<1>3. QED
  BY <1>1, <1>2, EndsShape

LEMMA SendsShape ==
  ASSUME Shape, NEW i \in DOMAIN chain, Sends(i)
  PROVE  Shape'
<1> DEFINE last == chain[i].name = "surrounding"
           s == [steps[i] EXCEPT !.at = IF last THEN "end" ELSE "select", !.out = NoResult]
           p == [pipes[i] EXCEPT !.buffer = Append(@, steps[i].out), !.closed = last]
<1>1. steps' = [steps EXCEPT ![i] = s] /\ pipes' = [pipes EXCEPT ![i] = p]
      /\ UNCHANGED << load, chain, engine, cancelled, job, stream >>
      /\ Len(pipes[i].buffer) < PipeBufferSize
  BY DEF Sends, StepsOnly, Stored
<1>2. Goroutine(i, steps[i], pipes[i]) /\ StreamIs(stream')
  BY <1>1 DEF Shape
<1>3. /\ DOMAIN s = {"at", "out"} /\ s.at = IF last THEN "end" ELSE "select"
      /\ DOMAIN p = {"buffer", "closed"} /\ p.closed = last /\ p.buffer = Append(pipes[i].buffer, steps[i].out)
  BY <1>2 DEF Goroutine
<1>4. last \in BOOLEAN
  OBVIOUS
<1> HIDE DEF s, p, last
<1>5. IsList(p.buffer) /\ Len(p.buffer) = Len(pipes[i].buffer) + 1 /\ Len(pipes[i].buffer) \in Nat
  BY <1>2, <1>3, AppendIsList, ListIsList DEF Goroutine
<1>6. Len(p.buffer) <= PipeBufferSize
  BY <1>1, <1>5, SearchJobsAssumption
<1>7. Goroutine(i, s, p)
  BY <1>3, <1>4, <1>5, <1>6, SMTT(30) DEF Goroutine
<1>8. QED
  BY <1>1, <1>2, <1>7, ShapeOwn

\* The engine takes a result from the last channel.
LEMMA TakeShape ==
  ASSUME Shape, TakeResult
  PROVE  Shape'
<1>1. /\ UNCHANGED << load, chain, stream, steps, cancelled, job >>
      /\ engine.at = "select" /\ Out.buffer # << >>
      /\ pipes' = [pipes EXCEPT ![Len(pipes)].buffer = Tail(@)]
      /\ engine' = engine \/ \E r : engine' = [engine EXCEPT !.at = "add", !.result = r]
  BY DEF TakeResult, EngineOnly, Stored
<1>2. chain # << >>
  BY <1>1 DEF Shape
<1> DEFINE n == Len(pipes)
           q == [pipes[n] EXCEPT !.buffer = Tail(@)]
<1>3. n \in DOMAIN chain /\ DOMAIN steps = DOMAIN chain
  BY <1>2, ChainIs
<1>4. pipes' = [ j \in DOMAIN chain |-> IF j = n THEN q ELSE pipes[j] ]
  BY <1>1, <1>3, PipesAre
<1>5. \A j \in DOMAIN chain : Goroutine(j, steps[j], pipes[j])
  BY DEF Shape
<1>6. Goroutine(n, steps[n], q)
  BY <1>1, <1>3, <1>5, TakenIs DEF Out
<1> HIDE DEF n, q
<1>7. \A j \in DOMAIN chain : Goroutine(j, steps[j], pipes'[j])
  BY <1>4, <1>5, <1>6
<1>8. IsList(pipes') /\ DOMAIN pipes' = DOMAIN chain
  <2>1. pipes' = [ j \in 1 .. Len(chain) |-> pipes'[j] ] /\ DOMAIN chain = 1 .. Len(chain) /\ Len(chain) \in Nat
    BY <1>2, <1>4, ChainIs
  <2>2. QED
    BY <2>1, FunctionIsList
<1>9. EngineIs(engine')
  <2>1. EngineIs(engine)
    BY DEF Shape
  <2>2. QED
    BY <1>1, <2>1 DEF EngineIs
<1>10. Atoms' = Atoms
  BY <1>1 DEF Atoms, Input
<1>11. QED
  BY <1>1, <1>2, <1>3, <1>7, <1>8, <1>9, <1>10 DEF Shape

LEMMA EngineShape ==
  ASSUME Shape, AddResults \/ AddFieldStats \/ SeeClosed \/ SeeCancelled \/ UpdateState
  PROVE  Shape'
<1>1. /\ UNCHANGED << load, chain, stream, steps, cancelled, pipes >>
      /\ engine.at # "off"
  BY DEF AddResults, AddFieldStats, SeeClosed, SeeCancelled, UpdateState, EngineOnly, Stored
<1>2. chain # << >>
  BY <1>1 DEF Shape
<1>3. EngineIs(engine')
  <2>1. EngineIs(engine)
    BY DEF Shape
  <2>2. \/ \E at \in {"select", "stats"} : engine' = [engine EXCEPT !.at = at]
        \/ engine' = [engine EXCEPT !.at = "select", !.result = NoResult]
        \/ \E state \in {"finished", "aborted"} : engine' = [engine EXCEPT !.at = "write", !.state = state]
        \/ engine' = [engine EXCEPT !.at = "end"]
    BY DEF AddResults, AddFieldStats, SeeClosed, SeeCancelled, UpdateState
  <2>3. QED
    BY <2>1, <2>2 DEF EngineIs
<1>4. JobIs(job') /\ (job'.state \in {"none", "refused"} => job.state \in {"none", "refused"})
  <2>1. JobIs(job) /\ EngineIs(engine)
    BY DEF Shape
  <2>2. \/ job' = job
        \/ \E new : job' = [job EXCEPT !.results = new] \/ job' = [job EXCEPT !.rows = new]
                    \/ job' = [job EXCEPT !.stats = new]
        \/ engine.at = "write" /\ job' = [job EXCEPT !.state = engine.state]
    BY DEF AddResults, AddFieldStats, SeeClosed, SeeCancelled, UpdateState
  <2>3. QED
    BY <2>1, <2>2 DEF JobIs, EngineIs
<1>5. Atoms' = Atoms
  BY <1>1 DEF Atoms, Input
<1>6. QED
  BY <1>1, <1>2, <1>3, <1>4, <1>5, SMTT(30) DEF Shape

LEMMA AbortShape ==
  ASSUME Shape, Abort
  PROVE  Shape'
<1>1. UNCHANGED << load, chain, stream, steps, pipes, engine, job >> /\ cancelled' = TRUE
  BY DEF Abort, Stored
<1>2. Atoms' = Atoms
  BY <1>1 DEF Atoms, Input
<1>3. QED
  BY <1>1, <1>2 DEF Shape

\* The writers leave the search alone.
LEMMA WriteShape ==
  ASSUME Shape, UNCHANGED << load, jobVars >>
  PROVE  Shape'
<1>1. Atoms' = Atoms
  BY DEF Atoms, Input
<1>2. QED
  BY <1>1 DEF Shape, jobVars

LEMMA CutOnce == \A w : CutWord(CutWord(w)) = CutWord(w) /\ (CutWord(w) = w \/ (w \in DOMAIN Cut /\ CutWord(w) \in Invalid))
<1> SUFFICES ASSUME NEW w
             PROVE  CutWord(CutWord(w)) = CutWord(w) /\ (CutWord(w) = w \/ (w \in DOMAIN Cut /\ CutWord(w) \in Invalid))
  OBVIOUS
<1>1. CASE w \notin DOMAIN Cut
  BY <1>1 DEF CutWord
<1>2. CASE w \in DOMAIN Cut
  <2>1. Cut[w] \in Range(Cut)
    BY <1>2 DEF Range
  <2>2. QED
    BY <1>2, <2>1, SearchJobsAssumption DEF CutWord
<1>3. QED
  BY <1>1, <1>2

LEMMA TextIsOfAtoms ==
  ASSUME load \in Workloads
  PROVE  load.text \in Seq(Atoms) /\ Closed(Atoms)
<1> DEFINE X == { load.text[i] : i \in DOMAIN load.text }
<1>1. load.text \in Seq(X)
  BY SearchJobsAssumption
<1>2. X \subseteq Atoms
  BY DEF Atoms, Input, Range
<1>3. ASSUME Quote \in Atoms, NEW w \in Atoms PROVE CutWord(w) \in Atoms
  <2>1. Quote \in Input
    BY <1>3 DEF Atoms
  <2>2. CASE w \in Input
    BY <2>1, <2>2 DEF Atoms
  <2>3. CASE \E x \in Input : w = CutWord(x)
    BY <1>3, <2>3, CutOnce
  <2>4. QED
    BY <2>2, <2>3 DEF Atoms
<1> HIDE DEF X
<1>4. QED
  BY <1>1, <1>2, <1>3 DEF Closed

LEMMA EmptyBuffer == IsList(<< >>) /\ Len(<< >>) = 0
BY DEF IsList

LEMMA StartShape ==
  ASSUME KInv, Shape, StartJob
  PROVE  Shape'
<1> DEFINE compiled == Compile(load.text, load.times)
<1>1. /\ UNCHANGED << load, stream, cancelled >> /\ job.state = "none"
      /\ StartEndless(compiled) \/ StartRefused(compiled) \/ StartRunning(compiled)
  BY DEF StartJob, Stored
<1>2. load \in Workloads
  BY DEF KInv, IInv
<1>3. \/ compiled.res = "endless" /\ "!" \in Atoms
      \/ compiled.res = "error"
      \/ compiled.res = "ok" /\ IsChain(Atoms, compiled.steps)
  BY <1>2, TextIsOfAtoms, CompileIs
<1>4. Atoms' = Atoms
  BY <1>1 DEF Atoms, Input
<1> HIDE DEF compiled
<1>5. chain = << >> /\ stream.at = "off" /\ engine.at = "off" /\ engine.state = "none"
  BY <1>1 DEF Shape
<1>6. CASE StartEndless(compiled)
  BY <1>1, <1>4, <1>6 DEF StartEndless, Shape
<1>7. CASE StartRefused(compiled)
  <2>1. job' = [job EXCEPT !.state = "refused"] /\ UNCHANGED << chain, steps, pipes, engine >>
    BY <1>7 DEF StartRefused
  <2>2. JobIs(job')
    BY <2>1 DEF Shape, JobIs
  <2>3. QED
    BY <1>1, <1>4, <1>5, <2>1, <2>2 DEF Shape
<1>8. CASE StartRunning(compiled)
  <2>1. IsChain(Atoms, chain')
    BY <1>3, <1>8 DEF StartRunning
  <2>2. Len(chain') \in Nat \ {0} /\ DOMAIN chain' = 1 .. Len(chain')
    BY <2>1 DEF IsChain
  <2>3. /\ steps' = [ i \in DOMAIN chain' |-> [at |-> IF i = 1 THEN "start" ELSE "select", out |-> NoResult] ]
        /\ pipes' = [ i \in DOMAIN chain' |-> [buffer |-> << >>, closed |-> FALSE] ]
        /\ engine' = [engine EXCEPT !.at = "select"]
    BY <1>8 DEF StartRunning
  <2>4. chain' # << >>
    BY <2>2
  <2>5. JobIs(job') /\ job'.state = "running"
    <3>1. job' = [job EXCEPT !.state = "running", !.outputType = OutputType(chain'),
                        !.sortMode = SortMode(chain'), !.columnOrder = ColumnOrder(chain')]
      BY <1>8 DEF StartRunning
    <3>2. JobIs(job)
      BY DEF Shape
    <3>3. QED
      BY <3>1, <3>2 DEF JobIs
  <2>6. IsList(pipes')
    <3>1. pipes' = [ i \in 1 .. Len(chain') |-> pipes'[i] ]
      BY <2>2, <2>3
    <3>2. QED
      BY <2>2, <3>1, FunctionIsList
  <2>7. ASSUME NEW i \in DOMAIN chain' PROVE Goroutine(i, steps'[i], pipes'[i])
    <3>1. steps'[i] = [at |-> IF i = 1 THEN "start" ELSE "select", out |-> NoResult]
          /\ pipes'[i] = [buffer |-> << >>, closed |-> FALSE]
      BY <2>3
    <3>2. IsList(<< >>) /\ Len(<< >>) <= PipeBufferSize
      BY EmptyBuffer, SearchJobsAssumption
    <3>3. QED
      BY <3>1, <3>2 DEF Goroutine
  <2>8. EngineIs(engine')
    BY <2>3 DEF Shape, EngineIs
  <2>9. DOMAIN steps' = DOMAIN chain' /\ DOMAIN pipes' = DOMAIN chain'
    BY <2>3
  <2>10. StreamIs(stream') /\ cancelled' \in BOOLEAN
    BY <1>1 DEF Shape
  <2>11. QED
    BY <1>4, <2>1, <2>4, <2>5, <2>6, <2>7, <2>8, <2>9, <2>10 DEF Shape
<1>9. QED
  BY <1>1, <1>6, <1>7, <1>8

LEMMA InitShape == JobInit => Shape
<1> SUFFICES ASSUME JobInit PROVE Shape
  OBVIOUS
<1>1. StreamIs(stream)
  BY EmptyBuffer, SearchJobsAssumption DEF JobInit, StreamIs
<1>2. EngineIs(engine) /\ JobIs(job)
  BY DEF JobInit, EngineIs, JobIs
<1>3. IsList(pipes)
  BY EmptyBuffer DEF JobInit
<1>4. DOMAIN << >> = {}
  OBVIOUS
<1>5. chain = << >> /\ steps = << >> /\ pipes = << >> /\ stream.at = "off" /\ engine.at = "off"
      /\ engine.state = "none" /\ cancelled = FALSE
  BY DEF JobInit
<1>6. QED
  BY <1>1, <1>2, <1>3, <1>4, <1>5 DEF Shape

LEMMA NextShape == KInv /\ Shape /\ [Next]_allVars => Shape'
<1> SUFFICES ASSUME KInv, Shape, [Next]_allVars PROVE Shape'
  OBVIOUS
<1>1. CASE Write /\ UNCHANGED jobVars
  <2>1. UNCHANGED load
    BY <1>1, ZenonT(30) DEF Write, PublishEvent, TakeEvent, Timeout, BeginDelete, Receive, Statement, CommitFails,
       StatementFails, DrawId, SkipDuplicate, InsertEvent, InsertRaw, DeleteEvents, DeleteRaws, Commit,
       Deadlock, RollBack, Same
  <2>2. QED
    BY <1>1, <2>1, WriteShape, SMTT(60)
<1>2. CASE StartJob \/ Abort
  BY <1>2, StartShape, AbortShape
<1>3. CASE Goroutines
  BY <1>3, StreamShape, SearchShape, ReceivesShape, InputEndsShape, SendsShape, TakeShape, EngineShape
     DEF Goroutines
<1>4. CASE UNCHANGED allVars
  BY <1>4, WriteShape DEF allVars, store
<1>5. QED
  BY <1>1, <1>2, <1>3, <1>4 DEF Next

-----------------------------------------------------------------------------
(* The steps end one after another                                         *)

\* A step i that has not ended moves.
LEMMA OwnEnded ==
  ASSUME Shape, Ended, NEW i \in DOMAIN chain, steps[i].at # "end",
         UNCHANGED << chain, engine, cancelled >>,
         \A j \in DOMAIN chain : j # i => steps'[j] = steps[j],
         \A j \in DOMAIN chain : j < i /\ pipes[j].buffer = << >> => pipes'[j].buffer = << >>,
         steps'[i].at = "end" => cancelled \/ \A j \in DOMAIN chain : j < i => StepDone(j),
         ReaderEnds'
  PROVE  Ended'
<1>1. DOMAIN chain = 1 .. Len(chain) /\ Len(chain) \in Nat
  <2>1. chain # << >>
    OBVIOUS
  <2>2. QED
    BY <2>1, ChainIs
<1>2. StepsEndInOrder'
  <2> SUFFICES ASSUME NEW k \in DOMAIN chain, steps'[k].at = "end", ~cancelled,
                      NEW j \in DOMAIN chain, j < k
               PROVE  StepDone(j)'
    BY DEF StepsEndInOrder, StepDone
  <2>1. CASE k = i
    <3>1. StepDone(j)
      BY <2>1
    <3>2. steps'[j] = steps[j] /\ pipes'[j].buffer = << >>
      BY <1>1, <2>1, <3>1 DEF StepDone
    <3>3. QED
      BY <3>1, <3>2 DEF StepDone
  <2>2. CASE k # i
    <3>1. \A l \in DOMAIN chain : l < k => StepDone(l)
      BY <2>2 DEF Ended, StepsEndInOrder
    <3>2. ~(i < k)
      BY <3>1 DEF StepDone
    <3>3. j < i
      BY <1>1, <2>2, <3>2
    <3>4. steps'[j] = steps[j] /\ pipes'[j].buffer = << >>
      BY <1>1, <3>1, <3>3 DEF StepDone
    <3>5. QED
      BY <3>1, <3>4 DEF StepDone
  <2>3. QED
    BY <2>1, <2>2
<1>3. AllDone'
  BY DEF Ended, AllDone, StepDone
<1>4. QED
  BY <1>2, <1>3 DEF Ended

LEMMA StreamEnded ==
  ASSUME Shape, Ended, OpenStream \/ QueryPage
  PROVE  Ended'
<1>1. UNCHANGED << chain, engine, cancelled, steps, pipes >> /\ stream.at \in {"max", "query"}
  BY DEF OpenStream, QueryPage, StreamOnly
<1>2. chain # << >> /\ steps[1].at # "start" /\ chain[1].name # "surrounding"
  BY <1>1 DEF Shape, Ended, ReaderEnds
<1>3. ReaderEnds'
  BY <1>1, <1>2 DEF Ended, ReaderEnds
<1>4. StepsEndInOrder' /\ AllDone'
  BY <1>1 DEF Ended, StepsEndInOrder, AllDone, StepDone
<1>5. QED
  BY <1>3, <1>4 DEF Ended

LEMMA EndsIs ==
  ASSUME Shape, NEW i \in DOMAIN chain, Ends(i)
  PROVE  /\ steps'[i].at = "end"
         /\ \A j \in DOMAIN chain : j # i => steps'[j] = steps[j]
         /\ \A j \in DOMAIN chain : pipes'[j].buffer = pipes[j].buffer
<1>1. DOMAIN steps = DOMAIN chain /\ DOMAIN pipes = DOMAIN chain /\ Goroutine(i, steps[i], pipes[i])
  BY DEF Shape
<1>2. steps'[i] = [steps[i] EXCEPT !.at = "end"]
      /\ \A j \in DOMAIN chain : j # i => steps'[j] = steps[j]
  BY <1>1 DEF Ends
<1>3. pipes'[i] = [pipes[i] EXCEPT !.closed = TRUE]
      /\ \A j \in DOMAIN chain : j # i => pipes'[j] = pipes[j]
  BY <1>1 DEF Ends
<1>4. QED
  BY <1>1, <1>2, <1>3 DEF Goroutine

LEMMA SearchEnded ==
  ASSUME Shape, Ended, StartSearch \/ SearchPage \/ SearchEnds \/ StartSurrounding
  PROVE  Ended'
<1>1. UNCHANGED << chain, engine, cancelled >> /\ steps # << >> /\ 1 \in DOMAIN chain /\ chain # << >>
  BY FirstStep DEF StartSearch, SearchPage, SearchEnds, StartSurrounding, StepsOnly
<1>2. DOMAIN chain = 1 .. Len(chain) /\ Len(chain) \in Nat /\ DOMAIN steps = DOMAIN chain
  BY <1>1, ChainIs
<1>3. Goroutine(1, steps[1], pipes[1]) /\ DOMAIN stream = {"at", "maxId", "last", "page"}
  BY <1>1 DEF Shape, StreamIs
<1>4. steps[1].at # "end"
  BY DEF StartSearch, SearchPage, SearchEnds, StartSurrounding
<1>5. /\ \A j \in DOMAIN chain : j # 1 => steps'[j] = steps[j]
      /\ UNCHANGED stream \/ stream'.at \in {"max", "end", "query"}
      /\ ReaderEnds'
  <2>1. CASE StartSearch
    <3>1. \/ /\ steps' = [steps EXCEPT ![1].at = "select"]
             /\ stream' = [stream EXCEPT !.at = "max"]
          \/ Ends(1) /\ UNCHANGED stream
      BY <2>1 DEF StartSearch
    <3>2. stream.at = "off" /\ chain[1].name # "surrounding"
      BY <1>1, <2>1 DEF StartSearch, Ended, ReaderEnds
    <3>3. CASE Ends(1) /\ UNCHANGED stream
      BY <1>1, <3>2, <3>3, EndsIs DEF ReaderEnds
    <3>4. CASE /\ steps' = [steps EXCEPT ![1].at = "select"]
               /\ stream' = [stream EXCEPT !.at = "max"]
      <4>1. steps'[1].at = "select" /\ stream'.at = "max"
        BY <1>1, <1>2, <1>3, <3>4 DEF Goroutine
      <4>2. \A j \in DOMAIN chain : j # 1 => steps'[j] = steps[j]
        BY <1>2, <3>4
      <4>3. QED
        BY <1>1, <3>2, <4>1, <4>2 DEF ReaderEnds
    <3>5. QED
      BY <3>1, <3>3, <3>4
  <2>2. CASE SearchPage
    <3>1. \/ steps' = steps
          \/ \E r : ToSend(1, r)
      BY <2>2 DEF SearchPage
    <3>2. stream'.at \in {"end", "query"}
      BY <1>3, <2>2 DEF SearchPage
    <3>3. steps[1].at = "select" /\ chain[1].name # "surrounding"
      BY <2>2 DEF SearchPage
    <3>4. \A j \in DOMAIN chain : j # 1 => steps'[j] = steps[j]
      BY <1>2, <3>1 DEF ToSend
    <3>5. steps'[1].at \in {"select", "send"}
      BY <1>1, <1>2, <1>3, <3>1, <3>3 DEF ToSend, Goroutine
    <3>6. QED
      BY <1>1, <3>2, <3>3, <3>4, <3>5 DEF ReaderEnds
  <2>3. CASE SearchEnds
    <3>1. Ends(1) /\ UNCHANGED stream /\ (stream.at = "end" \/ cancelled) /\ chain[1].name # "surrounding"
      BY <2>3 DEF SearchEnds
    <3>2. QED
      BY <1>1, <3>1, EndsIs DEF ReaderEnds
  <2>4. CASE StartSurrounding
    <3>1. stream.at = "off" /\ UNCHANGED stream
      BY <1>1, <2>4 DEF StartSurrounding, Ended, ReaderEnds
    <3>2. \/ Ends(1) \/ UNCHANGED steps
          \/ \E r : ToSend(1, r)
      BY <2>4 DEF StartSurrounding
    <3>3. \A j \in DOMAIN chain : j # 1 => steps'[j] = steps[j]
      BY <1>1, <1>2, <3>2, EndsIs DEF ToSend
    <3>4. QED
      BY <1>1, <3>1, <3>3 DEF ReaderEnds
  <2>5. QED
    BY <2>1, <2>2, <2>3, <2>4
<1>6. \A j \in DOMAIN chain : ~(j < 1)
  BY <1>2
<1>7. QED
  BY <1>1, <1>4, <1>5, <1>6, OwnEnded

\* A step that is not the first leaves the reader alone.
LEMMA ReaderKept ==
  ASSUME Shape, Ended, NEW i \in DOMAIN chain, i # 1, UNCHANGED << chain, cancelled, stream >>,
         \A j \in DOMAIN chain : j # i => steps'[j] = steps[j]
  PROVE  ReaderEnds'
<1>1. chain # << >>
  OBVIOUS
<1>2. 1 \in DOMAIN chain
  BY <1>1, ChainIs
<1>3. QED
  BY <1>2 DEF Ended, ReaderEnds

LEMMA ReceivesEnded ==
  ASSUME Shape, Ended, NEW i \in DOMAIN chain, Receives(i)
  PROVE  Ended'
<1>1. /\ UNCHANGED << chain, engine, cancelled, stream >>
      /\ i > 1 /\ steps[i].at = "select" /\ pipes[i - 1].buffer # << >>
      /\ pipes' = [pipes EXCEPT ![i - 1].buffer = Tail(@)]
      /\ steps' = steps \/ \E r : ToSend(i, r)
  BY DEF Receives, StepsOnly
<1>2. DOMAIN chain = 1 .. Len(chain) /\ Len(chain) \in Nat /\ DOMAIN steps = DOMAIN chain
      /\ DOMAIN pipes = DOMAIN chain /\ Goroutine(i, steps[i], pipes[i])
  <2>1. chain # << >>
    OBVIOUS
  <2>2. QED
    BY <2>1, ChainIs DEF Shape
<1>3. \A j \in DOMAIN chain : j # i => steps'[j] = steps[j]
  BY <1>1, <1>2 DEF ToSend
<1>4. steps'[i].at \in {"select", "send"}
  BY <1>1, <1>2 DEF ToSend, Goroutine
<1>5. \A j \in DOMAIN chain : j # i - 1 => pipes'[j] = pipes[j]
  BY <1>1, <1>2
<1>6. i # 1 /\ UNCHANGED << chain, engine, cancelled, stream >>
  BY <1>1, <1>2
<1>7. ReaderEnds'
  BY <1>3, <1>6, ReaderKept
<1>8. QED
  BY <1>1, <1>3, <1>4, <1>5, <1>7, OwnEnded

LEMMA InputEndsEnded ==
  ASSUME Shape, Ended, NEW i \in DOMAIN chain, InputEnds(i)
  PROVE  Ended'
<1>1. /\ UNCHANGED << chain, engine, cancelled, stream >>
      /\ i > 1 /\ steps[i].at = "select" /\ Ends(i)
      /\ (pipes[i - 1].closed /\ pipes[i - 1].buffer = << >>) \/ cancelled
  BY DEF InputEnds, StepsOnly
<1>2. DOMAIN chain = 1 .. Len(chain) /\ Len(chain) \in Nat
  <2>1. chain # << >>
    OBVIOUS
  <2>2. QED
    BY <2>1, ChainIs
<1>3. ASSUME ~cancelled, NEW j \in DOMAIN chain, j < i
      PROVE  StepDone(j)
  <2>1. i - 1 \in DOMAIN chain /\ (j = i - 1 \/ j < i - 1)
    BY <1>1, <1>2, <1>3
  <2>2. Goroutine(i - 1, steps[i - 1], pipes[i - 1])
    BY <2>1 DEF Shape
  <2>3. StepDone(i - 1)
    BY <1>1, <1>3, <2>2 DEF Goroutine, StepDone
  <2>4. QED
    BY <1>3, <2>1, <2>3 DEF Ended, StepsEndInOrder, StepDone
<1>4. /\ \A j \in DOMAIN chain : j # i => steps'[j] = steps[j]
      /\ \A j \in DOMAIN chain : pipes'[j].buffer = pipes[j].buffer
  BY <1>1, EndsIs
<1>5. ReaderEnds'
  BY <1>1, <1>2, <1>4, ReaderKept
<1>6. QED
  BY <1>1, <1>3, <1>4, <1>5, OwnEnded

LEMMA SendsEnded ==
  ASSUME Shape, Ended, NEW i \in DOMAIN chain, Sends(i)
  PROVE  Ended'
<1> DEFINE last == chain[i].name = "surrounding"
<1>1. /\ UNCHANGED << chain, engine, cancelled, stream >> /\ steps[i].at = "send"
      /\ pipes' = [pipes EXCEPT ![i].buffer = Append(@, steps[i].out), ![i].closed = last]
      /\ steps' = [steps EXCEPT ![i].at = IF last THEN "end" ELSE "select", ![i].out = NoResult]
  BY DEF Sends, StepsOnly
<1>2. IsChain(Atoms, chain) /\ DOMAIN chain = 1 .. Len(chain) /\ Len(chain) \in Nat
      /\ DOMAIN steps = DOMAIN chain /\ DOMAIN pipes = DOMAIN chain /\ Goroutine(i, steps[i], pipes[i])
      /\ chain # << >> /\ 1 \in DOMAIN chain
  <2>1. chain # << >>
    OBVIOUS
  <2>2. QED
    BY <2>1, ChainIs DEF Shape
<1>3. last => i = 1
  BY <1>2 DEF IsChain
<1>4. /\ \A j \in DOMAIN chain : j # i => steps'[j] = steps[j]
      /\ \A j \in DOMAIN chain : j # i => pipes'[j] = pipes[j]
  BY <1>1, <1>2
<1>5. steps'[i].at = IF last THEN "end" ELSE "select"
  BY <1>1, <1>2 DEF Goroutine
<1> HIDE DEF last
<1>6. ReaderEnds'
  <2>1. CASE i # 1
    BY <1>1, <1>4, <2>1, ReaderKept
  <2>2. CASE i = 1
    <3>1. last => stream.at = "off"
      BY <1>2, <2>2 DEF Ended, ReaderEnds, last
    <3>2. chain[1].name = "surrounding" => last
      BY <2>2 DEF last
    <3>3. CASE last
      BY <1>1, <3>1, <3>3 DEF ReaderEnds
    <3>4. CASE ~last
      BY <1>1, <1>5, <2>2, <3>2, <3>4 DEF ReaderEnds
    <3>5. QED
      BY <3>3, <3>4
  <2>3. QED
    BY <2>1, <2>2
<1>7. steps'[i].at = "end" => \A j \in DOMAIN chain : ~(j < i)
  BY <1>2, <1>3, <1>5
<1>8. \A j \in DOMAIN chain : j < i => pipes'[j] = pipes[j]
  BY <1>2, <1>4
<1>9. QED
  BY <1>1, <1>4, <1>6, <1>7, <1>8, OwnEnded

LEMMA EngineEnded ==
  ASSUME Shape, Ended,
         TakeResult \/ AddResults \/ AddFieldStats \/ SeeClosed \/ SeeCancelled \/ UpdateState
  PROVE  Ended'
<1>1. UNCHANGED << chain, stream, steps, cancelled >> /\ engine.at # "off"
  BY DEF TakeResult, AddResults, AddFieldStats, SeeClosed, SeeCancelled, UpdateState, EngineOnly
<1>2. chain # << >> /\ EngineIs(engine)
  BY <1>1 DEF Shape
<1>3. ReaderEnds'
  BY <1>1 DEF Ended, ReaderEnds
<1>4. Len(pipes) \in DOMAIN chain /\ DOMAIN pipes = DOMAIN chain /\ DOMAIN chain = 1 .. Len(pipes)
      /\ Len(pipes) \in Nat
  BY <1>2, ChainIs DEF Shape
<1> DEFINE n == Len(pipes)
<1>5. CASE TakeResult
  <2>1. /\ pipes[n].buffer # << >>
        /\ pipes' = [pipes EXCEPT ![n].buffer = Tail(@)]
        /\ engine' = engine \/ \E r : engine' = [engine EXCEPT !.at = "add", !.result = r]
    BY <1>5 DEF TakeResult, Out
  <2>2. engine'.state = engine.state
    BY <1>2, <2>1 DEF EngineIs
  <2>3. \A j \in DOMAIN chain : j # n => pipes'[j] = pipes[j]
    BY <1>4, <2>1
  <2> HIDE DEF n
  <2>4. StepsEndInOrder'
    <3> SUFFICES ASSUME NEW i \in DOMAIN chain, steps[i].at = "end", ~cancelled,
                        NEW j \in DOMAIN chain, j < i
                 PROVE  StepDone(j)'
      BY <1>1 DEF StepsEndInOrder, StepDone
    <3>1. StepDone(j)
      BY DEF Ended, StepsEndInOrder
    <3>2. j # n
      BY <2>1, <3>1 DEF StepDone
    <3>3. QED
      BY <1>1, <2>3, <3>1, <3>2 DEF StepDone
  <2>5. AllDone'
    <3>1. CASE engine.state # "finished" \/ cancelled
      BY <1>1, <2>2, <3>1 DEF AllDone
    <3>2. CASE \A i \in DOMAIN chain : StepDone(i)
      BY <1>4, <2>1, <3>2 DEF StepDone, n
    <3>3. QED
      BY <3>1, <3>2 DEF Ended, AllDone
  <2>6. QED
    BY <1>3, <2>4, <2>5 DEF Ended
<1>6. CASE SeeClosed
  <2>1. pipes[n].closed /\ pipes[n].buffer = << >> /\ UNCHANGED pipes
    BY <1>6 DEF SeeClosed, Out
  <2>2. Goroutine(n, steps[n], pipes[n])
    BY <1>4 DEF Shape
  <2>3. StepDone(n)
    BY <2>1, <2>2 DEF Goroutine, StepDone
  <2>4. cancelled \/ \A i \in DOMAIN chain : StepDone(i)
    <3> SUFFICES ASSUME ~cancelled, NEW i \in DOMAIN chain PROVE StepDone(i)
      OBVIOUS
    <3>1. i = n \/ i < n
      <4>1. i \in 1 .. n /\ n \in Nat
        BY <1>4
      <4> HIDE DEF n
      <4>2. QED
        BY <4>1
    <3>2. QED
      BY <1>4, <2>3, <3>1 DEF Ended, StepsEndInOrder, StepDone
  <2>5. QED
    BY <1>1, <1>3, <2>1, <2>4 DEF Ended, StepsEndInOrder, AllDone, StepDone
<1>7. CASE AddResults \/ AddFieldStats \/ SeeCancelled \/ UpdateState
  <2>1. \/ engine' = [engine EXCEPT !.at = "stats"]
        \/ engine' = [engine EXCEPT !.at = "select", !.result = NoResult]
        \/ engine' = [engine EXCEPT !.at = "write", !.state = "aborted"]
        \/ engine' = [engine EXCEPT !.at = "end"]
    BY <1>7 DEF AddResults, AddFieldStats, SeeCancelled, UpdateState
  <2>2. engine'.state \in {engine.state, "aborted"}
    BY <1>2, <2>1 DEF EngineIs
  <2>3. UNCHANGED pipes
    BY <1>7 DEF AddResults, AddFieldStats, SeeCancelled, UpdateState
  <2>4. StepsEndInOrder'
    BY <1>1, <2>3, SMTT(30) DEF Ended, StepsEndInOrder, StepDone
  <2>5. AllDone'
    BY <1>1, <2>2, <2>3, SMTT(30) DEF Ended, AllDone, StepDone
  <2>6. QED
    BY <1>3, <2>4, <2>5 DEF Ended
<1>8. QED
  BY <1>5, <1>6, <1>7, SMTT(30)

LEMMA StartEnded ==
  ASSUME KInv, Shape, Ended, StartJob
  PROVE  Ended'
<1> DEFINE compiled == Compile(load.text, load.times)
<1>1. /\ UNCHANGED << stream, cancelled >> /\ job.state = "none"
      /\ StartEndless(compiled) \/ StartRefused(compiled) \/ StartRunning(compiled)
  BY DEF StartJob
<1> HIDE DEF compiled
<1>2. stream.at = "off" /\ engine.state = "none" /\ EngineIs(engine)
  BY <1>1 DEF Shape
<1>3. CASE UNCHANGED << chain, steps, pipes, engine >>
  BY <1>1, <1>3 DEF Ended, StepsEndInOrder, ReaderEnds, AllDone, StepDone
<1>4. CASE StartRunning(compiled)
  <2>1. /\ steps' = [ i \in DOMAIN chain' |-> [at |-> IF i = 1 THEN "start" ELSE "select", out |-> NoResult] ]
        /\ engine' = [engine EXCEPT !.at = "select"]
    BY <1>4 DEF StartRunning
  <2>2. engine'.state = "none"
    BY <1>2, <2>1 DEF EngineIs
  <2>3. \A i \in DOMAIN chain' : steps'[i].at # "end"
    BY <2>1
  <2>4. chain' # << >> => steps'[1].at # "end"
    <3>1. Shape'
      BY StartShape
    <3>2. ASSUME chain' # << >> PROVE 1 \in DOMAIN chain'
      <4>1. IsChain(Atoms, chain)'
        BY <3>1, <3>2 DEF Shape
      <4>2. QED
        BY <4>1 DEF IsChain
    <3>3. QED
      BY <2>3, <3>2
  <2>5. QED
    BY <1>1, <1>2, <2>2, <2>3, <2>4 DEF Ended, StepsEndInOrder, ReaderEnds, AllDone
<1>5. QED
  BY <1>1, <1>3, <1>4 DEF StartEndless, StartRefused

LEMMA NextEnded == KInv /\ Shape /\ Ended /\ [Next]_allVars => Ended'
<1> SUFFICES ASSUME KInv, Shape, Ended, [Next]_allVars PROVE Ended'
  OBVIOUS
<1>1. CASE UNCHANGED jobVars
  BY <1>1 DEF jobVars, Ended, StepsEndInOrder, ReaderEnds, AllDone, StepDone
<1>2. CASE Abort
  BY <1>2 DEF Abort, Ended, StepsEndInOrder, ReaderEnds, AllDone, StepDone
<1>3. CASE StartJob
  BY <1>3, StartEnded
<1>4. CASE Goroutines
  BY <1>4, StreamEnded, SearchEnded, ReceivesEnded, InputEndsEnded, SendsEnded, EngineEnded DEF Goroutines
<1>5. QED
  BY <1>1, <1>2, <1>3, <1>4 DEF Next, allVars

LEMMA InitEnded == JobInit => Ended
<1> SUFFICES ASSUME JobInit PROVE Ended
  OBVIOUS
<1>1. chain = << >> /\ engine.state = "none"
  BY DEF JobInit
<1>2. DOMAIN << >> = {}
  OBVIOUS
<1>3. QED
  BY <1>1, <1>2 DEF Ended, StepsEndInOrder, ReaderEnds, AllDone

LEMMA Finished == Shape /\ Ended => FinishedIsDone
<1> SUFFICES ASSUME Shape, Ended, engine.state = "finished", ~cancelled
             PROVE  /\ stream.at \in {"off", "end"}
                    /\ \A i \in DOMAIN chain : steps[i].at = "end" /\ pipes[i].buffer = << >>
  BY DEF FinishedIsDone
<1>1. \A i \in DOMAIN chain : StepDone(i)
  BY DEF Ended, AllDone
<1>2. chain # << >>
  BY DEF Shape
<1>3. StepDone(1)
  BY <1>1, <1>2, ChainIs
<1>4. QED
  BY <1>1, <1>2, <1>3 DEF Ended, ReaderEnds, StepDone

-----------------------------------------------------------------------------
(* Where the writers are                                                   *)

LEMMA OwnAt ==
  ASSUME KInv, WritersAt, NEW w \in Writers, NEW r, writer' = [writer EXCEPT ![w] = r],
         WriterAt(w, r), UNCHANGED adder
  PROVE  WritersAt'
<1>1. DOMAIN writer = Writers
  BY DEF KInv, IInv
<1>2. ASSUME NEW v \in Writers PROVE WriterAt(v, writer'[v])
  BY <1>1 DEF WritersAt
<1>3. QED
  BY <1>2 DEF WritersAt

LEMMA AnsweredAt ==
  ASSUME NEW w, NEW reply \in {"none", "ok", "error"}
  PROVE  WriterAt(w, [Idle EXCEPT !.reply = reply])
<1> DEFINE r == [Idle EXCEPT !.reply = reply]
<1>1. /\ DOMAIN r = Fields /\ r.at = "idle" /\ r.reply = reply /\ r.batch = << >> /\ r.pos = 1
  BY DEF Idle, Fields
<1> HIDE DEF r
<1>2. Len(r.batch) = 0
  BY <1>1
<1>3. WriterAt(w, r)
  BY <1>1, <1>2, PgEventsAssumption DEF WriterAt
<1>4. QED
  BY <1>3 DEF r

LEMMA StatementAt ==
  ASSUME KInv, WritersAt, NEW w \in Writers,
         Statement(w) \/ CommitFails(w) \/ StatementFails(w) \/ Receive(w)
  PROVE  WritersAt'
<1>1. WriterAt(w, writer[w]) /\ UNCHANGED adder
  BY DEF WritersAt, Statement, CommitFails, StatementFails, Receive, DrawId, SkipDuplicate, InsertEvent,
     InsertRaw, DeleteEvents, DeleteRaws, Commit, Deadlock, RollBack, Same, feed
<1>2. ASSUME NEW r, writer' = [writer EXCEPT ![w] = r], WriterAt(w, r)
      PROVE  WritersAt'
  BY <1>1, <1>2, OwnAt
<1>3. CASE Receive(w)
  <2> DEFINE r == [writer[w] EXCEPT !.at = "insert", !.batch = load.batches[w]]
  <2>1. writer' = [writer EXCEPT ![w] = r] /\ w \in Recipients /\ writer[w].at = "idle"
    BY <1>3 DEF Receive, Starts
  <2>2. Len(load.batches[w]) \in Nat
    BY <2>1, PgEventsAssumption DEF KInv, IInv
  <2>3. /\ DOMAIN r = Fields /\ r.at = "insert" /\ r.reply = writer[w].reply /\ r.batch = load.batches[w]
        /\ r.pos = 1
    BY <1>1, <2>1 DEF WriterAt, Fields
  <2> HIDE DEF r
  <2>4. WriterAt(w, r)
    BY <1>1, <2>1, <2>2, <2>3, PgEventsAssumption DEF WriterAt
  <2>5. QED
    BY <1>2, <2>1, <2>4
<1>4. CASE DrawId(w)
  <2> DEFINE r == [writer[w] EXCEPT !.at = "conflict", !.id = seq + 1]
  <2>1. writer' = [writer EXCEPT ![w] = r] /\ writer[w].pos <= Len(writer[w].batch)
    BY <1>4 DEF DrawId, More
  <2>2. /\ DOMAIN r = Fields /\ r.at = "conflict" /\ r.reply = writer[w].reply
        /\ r.batch = writer[w].batch /\ r.pos = writer[w].pos
    BY <1>1 DEF WriterAt, Fields
  <2> HIDE DEF r
  <2>3. WriterAt(w, r)
    BY <1>1, <2>1, <2>2 DEF WriterAt
  <2>4. QED
    BY <1>2, <2>1, <2>3
<1>5. CASE SkipDuplicate(w) \/ InsertRaw(w)
  <2>1. /\ writer[w].at \in {"conflict", "raw"}
        /\ \E raws : writer' = [writer EXCEPT ![w] =
              [writer[w] EXCEPT !.at = "insert", !.pos = @ + 1, !.raws = raws]]
    <3>1. CASE SkipDuplicate(w)
      <4>1. [writer[w] EXCEPT !.at = "insert", !.pos = @ + 1]
              = [writer[w] EXCEPT !.at = "insert", !.pos = @ + 1, !.raws = writer[w].raws]
        BY <1>1 DEF WriterAt, Fields
      <4>2. QED
        BY <3>1, <4>1, ZenonT(30) DEF SkipDuplicate
    <3>2. CASE InsertRaw(w)
      BY <3>2 DEF InsertRaw
    <3>3. QED
      BY <1>5, <3>1, <3>2
  <2>2. PICK raws : writer' = [writer EXCEPT ![w] =
              [writer[w] EXCEPT !.at = "insert", !.pos = @ + 1, !.raws = raws]]
    BY <2>1
  <2> DEFINE r == [writer[w] EXCEPT !.at = "insert", !.pos = @ + 1, !.raws = raws]
  <2>3. /\ DOMAIN r = Fields /\ r.at = "insert" /\ r.reply = writer[w].reply
        /\ r.batch = writer[w].batch /\ r.pos = writer[w].pos + 1
    BY <1>1 DEF WriterAt, Fields
  <2>4. writer' = [writer EXCEPT ![w] = r]
    BY <2>2
  <2> HIDE DEF r
  <2>5. WriterAt(w, r)
    BY <1>1, <2>1, <2>3 DEF WriterAt
  <2>6. QED
    BY <1>2, <2>4, <2>5
<1>6. CASE InsertEvent(w)
  <2> DEFINE r == [writer[w] EXCEPT !.at = "raw", !.events = Put(@, writer[w].id, Current(w))]
  <2>1. writer' = [writer EXCEPT ![w] = r] /\ writer[w].at = "conflict"
    BY <1>6 DEF InsertEvent
  <2>2. /\ DOMAIN r = Fields /\ r.at = "raw" /\ r.reply = writer[w].reply
        /\ r.batch = writer[w].batch /\ r.pos = writer[w].pos
    BY <1>1 DEF WriterAt, Fields
  <2> HIDE DEF r
  <2>3. WriterAt(w, r)
    BY <1>1, <2>1, <2>2, SMTT(30) DEF WriterAt
  <2>4. QED
    BY <1>2, <2>1, <2>3
<1>7. CASE w = Deleter /\ (DeleteEvents \/ DeleteRaws)
  <2>1. \/ \E gone : writer' = [writer EXCEPT ![w] = [writer[w] EXCEPT !.at = "deleteRaws", !.gone = gone]]
        \/ \E gone : writer' = [writer EXCEPT ![w] = [writer[w] EXCEPT !.at = "commit", !.rawsGone = gone]]
    BY <1>7, ZenonT(60) DEF DeleteEvents, DeleteRaws
  <2>2. ASSUME NEW r, r.at \in {"deleteRaws", "commit"}, DOMAIN r = Fields,
               r.reply = writer[w].reply, r.batch = writer[w].batch, r.pos = writer[w].pos
        PROVE  WriterAt(w, r)
    BY <1>1, <2>2 DEF WriterAt
  <2>3. ASSUME NEW gone
        PROVE  /\ WriterAt(w, [writer[w] EXCEPT !.at = "deleteRaws", !.gone = gone])
               /\ WriterAt(w, [writer[w] EXCEPT !.at = "commit", !.rawsGone = gone])
    <3> DEFINE a == [writer[w] EXCEPT !.at = "deleteRaws", !.gone = gone]
               b == [writer[w] EXCEPT !.at = "commit", !.rawsGone = gone]
    <3>1. /\ DOMAIN a = Fields /\ a.at = "deleteRaws" /\ a.reply = writer[w].reply
          /\ a.batch = writer[w].batch /\ a.pos = writer[w].pos
      BY <1>1 DEF WriterAt, Fields
    <3>2. /\ DOMAIN b = Fields /\ b.at = "commit" /\ b.reply = writer[w].reply
          /\ b.batch = writer[w].batch /\ b.pos = writer[w].pos
      BY <1>1 DEF WriterAt, Fields
    <3> HIDE DEF a, b
    <3>3. WriterAt(w, a) /\ WriterAt(w, b)
      BY <2>2, <3>1, <3>2
    <3>4. QED
      BY <3>3 DEF a, b
  <2>4. QED
    BY <1>2, <2>1, <2>3
<1>8. CASE Commit(w) \/ CommitFails(w) \/ Deadlock(w) \/ StatementFails(w)
  <2>1. \E reply \in {"none", "ok", "error"} : writer' = [writer EXCEPT ![w] = [Idle EXCEPT !.reply = reply]]
    BY <1>8 DEF Commit, CommitFails, Deadlock, StatementFails, RollBack, Answered
  <2>2. QED
    BY <1>2, <2>1, AnsweredAt
<1>9. QED
  BY <1>3, <1>4, <1>5, <1>6, <1>7, <1>8 DEF Statement

LEMMA FeedAt ==
  ASSUME KInv, WritersAt, PublishEvent \/ TakeEvent \/ Timeout \/ BeginDelete
  PROVE  WritersAt'
<1>1. Publisher \in Writers /\ Deleter \in Writers /\ Publisher # Deleter
  BY PgEventsAssumption DEF Writers
<1>2. adder \in Seq(Published) /\ unread \in Seq(Published) /\ writer[Publisher].batch \in Seq(Published)
      /\ DOMAIN writer = Writers
  BY DEF KInv, IInv, InOrder
<1>3. WriterAt(Publisher, writer[Publisher]) /\ WriterAt(Deleter, writer[Deleter]) /\ Len(adder) <= AdderSize
  BY <1>1 DEF WritersAt
<1>4. CASE PublishEvent
  <2>1. UNCHANGED writer /\ unread # << >> /\ Len(adder) < AdderSize /\ adder' = Append(adder, Head(unread))
    BY <1>4 DEF PublishEvent
  <2>2. Len(adder') <= AdderSize
    BY <1>2, <2>1, PgEventsAssumption
  <2>3. QED
    BY <2>1, <2>2 DEF WritersAt
<1>5. CASE TakeEvent
  <2> DEFINE batch == Append(writer[Publisher].batch, Head(adder))
             full == Len(batch) >= BatchSize
             r == [writer[Publisher] EXCEPT !.at = IF full THEN "insert" ELSE @, !.batch = batch]
  <2>1. /\ adder # << >> /\ writer[Publisher].at = "idle" /\ adder' = Tail(adder)
    BY <1>5 DEF TakeEvent
  <2>2. writer' = [writer EXCEPT ![Publisher] = r]
    <3>1. CASE full
      BY <1>5, <3>1 DEF TakeEvent, Starts
    <3>2. CASE ~full
      <4>1. r = [writer[Publisher] EXCEPT !.batch = batch]
        BY <1>3, <3>2 DEF WriterAt, Fields
      <4>2. QED
        BY <1>5, <3>2, <4>1 DEF TakeEvent
    <3>3. QED
      BY <3>1, <3>2
  <2>3. /\ DOMAIN r = Fields /\ r.at = (IF full THEN "insert" ELSE "idle") /\ r.reply = writer[Publisher].reply
        /\ r.batch = batch /\ r.pos = 1
    BY <1>3, <2>1 DEF WriterAt, Fields
  <2>4. Len(batch) = Len(writer[Publisher].batch) + 1 /\ Len(writer[Publisher].batch) \in Nat
    BY <1>2, <2>1
  <2>5. Len(batch) <= BatchSize
    BY <1>3, <2>1, <2>4, PgEventsAssumption DEF WriterAt
  <2>6. full \/ Len(batch) < BatchSize
    BY <2>4, PgEventsAssumption
  <2> HIDE DEF r, batch, full
  <2>7. WriterAt(Publisher, r)
    BY <1>3, <2>3, <2>4, <2>5, <2>6 DEF WriterAt
  <2>8. Len(adder') <= AdderSize
    BY <1>2, <1>3, <2>1, PgEventsAssumption
  <2>9. ASSUME NEW v \in Writers PROVE WriterAt(v, writer'[v])
    BY <1>2, <2>2, <2>7 DEF WritersAt
  <2>10. QED
    BY <2>8, <2>9 DEF WritersAt
<1>6. CASE Timeout
  <2> DEFINE r == [writer[Publisher] EXCEPT !.at = "insert", !.batch = writer[Publisher].batch]
  <2>1. writer' = [writer EXCEPT ![Publisher] = r] /\ UNCHANGED adder
    BY <1>6 DEF Timeout, Starts, feed
  <2>2. /\ DOMAIN r = Fields /\ r.at = "insert" /\ r.reply = writer[Publisher].reply
        /\ r.batch = writer[Publisher].batch /\ r.pos = writer[Publisher].pos
    BY <1>3 DEF WriterAt, Fields
  <2> HIDE DEF r
  <2>3. WriterAt(Publisher, r)
    BY <1>3, <2>2 DEF WriterAt
  <2>4. QED
    BY <1>1, <2>1, <2>3, OwnAt
<1>7. CASE BeginDelete
  <2> DEFINE r == [writer[Deleter] EXCEPT !.at = "delete"]
  <2>1. writer' = [writer EXCEPT ![Deleter] = r] /\ UNCHANGED adder
    BY <1>7 DEF BeginDelete, Same, feed
  <2>2. /\ DOMAIN r = Fields /\ r.at = "delete" /\ r.reply = writer[Deleter].reply
        /\ r.batch = writer[Deleter].batch /\ r.pos = writer[Deleter].pos
    BY <1>3 DEF WriterAt, Fields
  <2> HIDE DEF r
  <2>3. WriterAt(Deleter, r)
    BY <1>1, <1>3, <2>2 DEF WriterAt
  <2>4. QED
    BY <1>1, <2>1, <2>3, OwnAt
<1>8. QED
  BY <1>4, <1>5, <1>6, <1>7

LEMMA NextAt == KInv /\ WritersAt /\ [Next]_allVars => WritersAt'
<1> SUFFICES ASSUME KInv, WritersAt, [Next]_allVars PROVE WritersAt'
  OBVIOUS
<1>1. CASE UNCHANGED << writer, adder >>
  BY <1>1 DEF WritersAt
<1>2. CASE Write
  BY <1>2, StatementAt, FeedAt DEF Write
<1>3. CASE StartJob \/ Abort \/ Goroutines
  BY <1>1, <1>3, JobSteps DEF Stored, feed
<1>4. CASE UNCHANGED allVars
  BY <1>1, <1>4 DEF allVars, store, feed
<1>5. QED
  BY <1>2, <1>3, <1>4 DEF Next

LEMMA InitAt == JobInit => WritersAt
<1> SUFFICES ASSUME JobInit PROVE WritersAt
  OBVIOUS
<1>1. writer = [ w \in Writers |-> Idle ] /\ adder = << >>
  BY DEF JobInit, Init
<1>2. ASSUME NEW w \in Writers PROVE WriterAt(w, writer[w])
  <2>1. Idle = [Idle EXCEPT !.reply = "none"]
    BY DEF Idle
  <2>2. WriterAt(w, [Idle EXCEPT !.reply = "none"])
    BY AnsweredAt
  <2>3. QED
    BY <1>1, <2>1, <2>2
<1>3. Len(adder) <= AdderSize
  BY <1>1, PgEventsAssumption
<1>4. QED
  BY <1>2, <1>3 DEF WritersAt

-----------------------------------------------------------------------------
(* Writes beside a search do not stop the process.                         *)

LEMMA WriteWorks == Write => UNCHANGED load /\ (Works \/ Fails)
<1> SUFFICES ASSUME Write PROVE UNCHANGED load /\ (Works \/ Fails)
  OBVIOUS
<1>1. CASE PublishEvent \/ TakeEvent \/ Timeout \/ BeginDelete
  BY <1>1, Zenon DEF PublishEvent, TakeEvent, Timeout, BeginDelete, Same
<1>2. ASSUME NEW w, Receive(w) \/ CommitFails(w) \/ StatementFails(w)
      PROVE  UNCHANGED load /\ (Works \/ Fails)
  BY <1>2, Zenon DEF Receive, CommitFails, StatementFails, RollBack
<1>3. ASSUME NEW w, Statement(w)
      PROVE  UNCHANGED load /\ (Works \/ Fails)
  BY <1>3, Zenon DEF Statement, DrawId, SkipDuplicate, InsertEvent, InsertRaw, DeleteEvents, DeleteRaws,
     Commit, Deadlock, RollBack, Same
<1>4. QED
  BY <1>1, <1>2, <1>3, Zenon DEF Write

LEMMA NextLoad == [Next]_allVars => UNCHANGED load
<1>1. CASE UNCHANGED allVars
  BY <1>1 DEF allVars, store
<1>2. CASE Next
  BY <1>2, WriteWorks, JobSteps DEF Next, Stored
<1>3. QED
  BY <1>1, <1>2

-----------------------------------------------------------------------------
(* What Descending comes to: the numbers of a set, each at its rank        *)

Before(S, amount, i) ==
  { j \in S : amount[j] > amount[i] \/ (amount[j] = amount[i] /\ j < i) }

LEMMA BeforeIs ==
  ASSUME NEW S, NEW amount, Amounts(S, amount), NEW i \in S
  PROVE  /\ IsFiniteSet(Before(S, amount, i))
         /\ Cardinality(Before(S, amount, i)) \in 0 .. Cardinality(S) - 1
<1> DEFINE T == Before(S, amount, i)
<1>1. T \in SUBSET S /\ i \notin T
  BY DEF Before, Amounts
<1>2. IsFiniteSet(S)
  BY DEF Amounts
<1> HIDE DEF T
<1>3. IsFiniteSet(T) /\ Cardinality(T) <= Cardinality(S) /\ (Cardinality(S) = Cardinality(T) => S = T)
  BY <1>1, <1>2, FS_Subset
<1>4. Cardinality(T) \in Nat /\ Cardinality(S) \in Nat
  BY <1>2, <1>3, FS_CardinalityType
<1>5. QED
  BY <1>1, <1>3, <1>4 DEF T

\* What comes before has the lower rank.
LEMMA BeforeRanks ==
  ASSUME NEW S, NEW amount, Amounts(S, amount), NEW i \in S, NEW j \in Before(S, amount, i)
  PROVE  Cardinality(Before(S, amount, j)) < Cardinality(Before(S, amount, i))
<1> DEFINE A == Before(S, amount, i)
           B == Before(S, amount, j)
<1>1. j \in S /\ j \in A /\ j \notin B /\ B \subseteq A
  BY DEF Before, Amounts
<1>2. /\ IsFiniteSet(A) /\ Cardinality(A) \in 0 .. Cardinality(S) - 1
      /\ Cardinality(B) \in 0 .. Cardinality(S) - 1
  BY <1>1, BeforeIs
<1>3. Cardinality(S) \in Nat
  BY FS_CardinalityType DEF Amounts
<1> HIDE DEF A, B
<1>4. Cardinality(B) <= Cardinality(A) /\ (Cardinality(A) = Cardinality(B) => A = B)
  BY <1>1, <1>2, FS_Subset
<1>5. QED
  BY <1>1, <1>2, <1>3, <1>4 DEF A, B

LEMMA RanksDiffer ==
  ASSUME NEW S, NEW amount, Amounts(S, amount), NEW i \in S, NEW j \in S,
         Cardinality(Before(S, amount, i)) = Cardinality(Before(S, amount, j))
  PROVE  i = j
<1> SUFFICES ASSUME i # j PROVE FALSE
  OBVIOUS
<1>1. i \in Before(S, amount, j) \/ j \in Before(S, amount, i)
  BY DEF Before, Amounts
<1>2. /\ Cardinality(Before(S, amount, i)) \in 0 .. Cardinality(S) - 1
      /\ Cardinality(Before(S, amount, j)) \in 0 .. Cardinality(S) - 1
  BY BeforeIs
<1>3. Cardinality(S) \in Nat
  BY FS_CardinalityType DEF Amounts
<1>4. QED
  BY <1>1, <1>2, <1>3, BeforeRanks

\* Every rank is somebody's.
LEMMA RankTaken ==
  ASSUME NEW S, NEW amount, Amounts(S, amount), NEW k \in 0 .. Cardinality(S) - 1
  PROVE  \E i \in S : Cardinality(Before(S, amount, i)) = k
<1> DEFINE n == Cardinality(S)
           T == 0 .. n - 1
           rank == [ i \in S |-> Cardinality(Before(S, amount, i)) ]
<1>1. n \in Nat /\ IsFiniteSet(S)
  BY FS_CardinalityType DEF Amounts
<1>2. IsFiniteSet(T) /\ Cardinality(T) = n
  BY <1>1, FS_Interval
<1>3. rank \in [S -> T]
  BY BeforeIs
<1>4. \A i, j \in S : rank[i] = rank[j] => i = j
  BY RanksDiffer
<1> HIDE DEF T, rank
<1>5. rank \in Injection(S, T)
  BY <1>3, <1>4 DEF Injection, IsInjective
<1>6. rank \in Surjection(S, T)
  BY <1>2, <1>5, FS_Injection
<1>7. \E i \in S : rank[i] = k
  BY <1>6 DEF Surjection, T
<1>8. QED
  BY <1>7 DEF rank

LEMMA DescendingAt ==
  ASSUME NEW S, NEW amount, Amounts(S, amount), NEW n \in 1 .. Cardinality(S)
  PROVE  /\ Descending(S, amount)[n] \in S
         /\ Cardinality(Before(S, amount, Descending(S, amount)[n])) = n - 1
<1>1. Cardinality(S) \in Nat
  BY FS_CardinalityType DEF Amounts
<1>2. \E i \in S : Cardinality(Before(S, amount, i)) = n - 1
  BY <1>1, RankTaken
<1>3. Descending(S, amount)[n] = CHOOSE i \in S : Cardinality(Before(S, amount, i)) = n - 1
  BY Zenon DEF Descending, Before
<1>4. QED
  BY <1>2, <1>3, Zenon

LEMMA ConcatIsList ==
  ASSUME NEW s, IsList(s), NEW t, IsList(t)
  PROVE  /\ IsList(s \o t) /\ Len(s \o t) = Len(s) + Len(t)
         /\ \A i \in 1 .. Len(s) : (s \o t)[i] = s[i]
         /\ \A i \in 1 .. Len(t) : (s \o t)[Len(s) + i] = t[i]
<1> DEFINE X == { s[i] : i \in DOMAIN s } \cup { t[i] : i \in DOMAIN t }
<1>1. s \in Seq(X) /\ t \in Seq(X)
  BY DEF IsList
<1> HIDE DEF X
<1>2. s \o t \in Seq(X)
  BY <1>1
<1>3. /\ Len(s \o t) = Len(s) + Len(t)
      /\ \A i \in 1 .. Len(s) : (s \o t)[i] = s[i]
      /\ \A i \in 1 .. Len(t) : (s \o t)[Len(s) + i] = t[i]
  BY <1>1
<1>4. QED
  BY <1>2, <1>3, SeqIsList

LEMMA SameFirst ==
  ASSUME NEW s, IsList(s), NEW t, IsList(t), NEW n \in Nat, n <= Len(s), n <= Len(t),
         \A k \in 1 .. n : s[k] = t[k]
  PROVE  FirstN(t, n) = FirstN(s, n)
<1> DEFINE X == { s[i] : i \in DOMAIN s } \cup { t[i] : i \in DOMAIN t }
<1>1. s \in Seq(X) /\ t \in Seq(X)
  BY DEF IsList
<1> HIDE DEF X
<1>2. Len(s) \in Nat /\ Len(t) \in Nat
  BY <1>1
<1>3. FirstN(s, n) = SubSeq(s, 1, n) /\ FirstN(t, n) = SubSeq(t, 1, n)
  <2>1. (IF Len(s) < n THEN Len(s) ELSE n) = n /\ (IF Len(t) < n THEN Len(t) ELSE n) = n
    BY <1>2
  <2>2. QED
    BY <2>1, Zenon DEF FirstN
<1>4. /\ SubSeq(s, 1, n) \in Seq(X) /\ Len(SubSeq(s, 1, n)) = n
      /\ SubSeq(t, 1, n) \in Seq(X) /\ Len(SubSeq(t, 1, n)) = n
      /\ \A k \in 1 .. n : SubSeq(s, 1, n)[k] = s[k] /\ SubSeq(t, 1, n)[k] = t[k]
  BY <1>1, <1>2
<1>5. QED
  BY <1>2, <1>3, <1>4

-----------------------------------------------------------------------------
(* Pages of results                                                        *)

LEMMA StampedAmounts ==
  ASSUME NEW results, IsStamped(results)
  PROVE  /\ Amounts(DOMAIN results, TimesOf(results)) /\ Cardinality(DOMAIN results) = Len(results)
         /\ Len(results) \in Nat /\ DOMAIN results = 1 .. Len(results)
         /\ \A i \in DOMAIN results : TimesOf(results)[i] = results[i].time
<1> DEFINE n == Len(results)
<1>1. n \in Nat /\ DOMAIN results = 1 .. n
  BY ListIsList DEF IsStamped
<1>2. \A i \in DOMAIN results : TimesOf(results)[i] = results[i].time
  BY DEF TimesOf
<1>3. \A i \in DOMAIN results : i \in Nat
  BY <1>1
<1> HIDE DEF n
<1>4. 1 \in Int /\ n \in Int
  BY <1>1
<1>5. IsFiniteSet(1 .. n) /\ Cardinality(1 .. n) = n
  BY <1>1, <1>4, FS_Interval
<1>6. QED
  BY <1>1, <1>2, <1>3, <1>5 DEF Amounts, IsStamped, n

\* A list, and another behind it.
Joined(s, t, u) ==
  /\ DOMAIN s \subseteq DOMAIN u /\ \A i \in DOMAIN s : u[i] = s[i]
  /\ \A i \in DOMAIN u : i \in DOMAIN s \/ \E k \in DOMAIN t : u[i] = t[k]

LEMMA StampedConcat ==
  ASSUME NEW s, IsStamped(s), NEW t, IsStamped(t), NEW u, u = s \o t
  PROVE  IsStamped(u) /\ Len(u) = Len(s) + Len(t) /\ Joined(s, t, u)
<1>1. IsList(s) /\ IsList(t) /\ Len(s) \in Nat /\ Len(t) \in Nat /\ DOMAIN s = 1 .. Len(s) /\ DOMAIN t = 1 .. Len(t)
  BY ListIsList DEF IsStamped
<1>2. /\ IsList(u) /\ Len(u) = Len(s) + Len(t) /\ \A i \in 1 .. Len(s) : u[i] = s[i]
      /\ \A i \in 1 .. Len(t) : u[Len(s) + i] = t[i]
  BY <1>1, ConcatIsList
<1>3. DOMAIN u = 1 .. Len(s) + Len(t)
  BY <1>2, ListIsList
<1>4. \A i \in DOMAIN s : i \in DOMAIN u /\ u[i] = s[i]
  BY <1>1, <1>2, <1>3
<1>5. ASSUME NEW i \in DOMAIN u, i \notin DOMAIN s
      PROVE  i - Len(s) \in DOMAIN t /\ u[i] = t[i - Len(s)]
  <2>1. i - Len(s) \in DOMAIN t /\ Len(s) + (i - Len(s)) = i
    BY <1>1, <1>3, <1>5
  <2>2. QED
    BY <1>1, <1>2, <2>1
<1>6. IsStamped(u)
  BY <1>2, <1>4, <1>5 DEF IsStamped
<1>7. QED
  BY <1>2, <1>4, <1>5, <1>6 DEF Joined

\* Results that are earlier than those there are leave a full page as it is.
LEMMA PageStays ==
  ASSUME NEW j, NEW k, NEW new, IsStamped(j.results), IsStamped(new), k.results = j.results \o new,
         \A i \in DOMAIN j.results, l \in DOMAIN new : new[l].time < j.results[i].time,
         NEW skip \in Nat, NEW take \in Nat, skip + take <= Len(j.results)
  PROVE  GetResults(k, skip, take) = GetResults(j, skip, take)
<1> DEFINE a == j.results
           b == k.results
           P == Pages(DOMAIN a, TimesOf(a), skip, take)
<1>1. /\ IsStamped(b) /\ DOMAIN a \subseteq DOMAIN b /\ \A i \in DOMAIN a : b[i] = a[i]
      /\ \A i \in DOMAIN b : i \in DOMAIN a \/ \E l \in DOMAIN new : b[i] = new[l]
  <2>1. b = a \o new /\ IsStamped(a) /\ IsStamped(new)
    OBVIOUS
  <2> HIDE DEF a, b
  <2>2. IsStamped(b) /\ Joined(a, new, b)
    BY <2>1, StampedConcat
  <2>3. QED
    BY <2>2 DEF Joined
<1>2. /\ Amounts(DOMAIN a, TimesOf(a)) /\ Cardinality(DOMAIN a) = Len(a)
      /\ \A i \in DOMAIN a : TimesOf(a)[i] = a[i].time
  BY StampedAmounts
<1>3. Amounts(DOMAIN b, TimesOf(b)) /\ \A i \in DOMAIN b : TimesOf(b)[i] = b[i].time
  BY <1>1, StampedAmounts
<1>4. \A i \in DOMAIN a, l \in DOMAIN b \ DOMAIN a : TimesOf(b)[l] < TimesOf(b)[i]
  BY <1>1, <1>3
<1>5. \A i \in DOMAIN a : TimesOf(a)[i] = TimesOf(b)[i]
  BY <1>1, <1>2, <1>3
<1>6. Pages(DOMAIN b, TimesOf(b), skip, take) = P
  <2> DEFINE S == DOMAIN a
             T == DOMAIN b
             old == TimesOf(a)
             all == TimesOf(b)
  <2>1. /\ S \subseteq T /\ Amounts(T, all) /\ skip + take <= Cardinality(S)
        /\ \A i \in S : old[i] = all[i]
        /\ \A i \in S, l \in T \ S : all[l] < all[i]
    BY <1>1, <1>2, <1>3, <1>4, <1>5
  <2> HIDE DEF S, T, old, all
  <2>2. Pages(T, all, skip, take) = Pages(S, old, skip, take)
    BY <2>1, MoreBelow
  <2>3. QED
    BY <2>2 DEF S, T, old, all
<1>7. ASSUME NEW page \in P PROVE IdsOf(b, page) = IdsOf(a, page)
  <2>1. page \in Seq(DOMAIN a)
    BY <1>2, PageIsList DEF Amounts
  <2>2. \A m \in DOMAIN page : b[page[m]].id = a[page[m]].id
    BY <1>1, <2>1
  <2>3. QED
    BY <2>2 DEF IdsOf
<1>8. GetResults(k, skip, take) = { IdsOf(b, page) : page \in P }
      /\ GetResults(j, skip, take) = { IdsOf(a, page) : page \in P }
  BY <1>6 DEF GetResults
<1> HIDE DEF a, b, P
<1>9. QED
  BY <1>7, <1>8

\* The rows of a table are shown in the order they came.
LEMMA RowsStay ==
  ASSUME NEW j, NEW k, NEW new, IsList(j.rows), IsList(new), k.rows = j.rows \o new,
         NEW skip \in Nat, NEW take \in Nat, skip + take <= Len(j.rows)
  PROVE  GetTableResults(k, skip, take) = GetTableResults(j, skip, take)
<1> DEFINE a == j.rows
           b == k.rows
           s == SubSeq(a, skip + 1, Len(a))
           t == SubSeq(b, skip + 1, Len(b))
           X == { a[i] : i \in DOMAIN a } \cup { b[i] : i \in DOMAIN b }
<1>1. /\ IsList(a) /\ IsList(b) /\ Len(b) = Len(a) + Len(new) /\ \A i \in 1 .. Len(a) : b[i] = a[i]
      /\ Len(a) \in Nat /\ Len(new) \in Nat
  <2>1. IsList(a) /\ IsList(new) /\ b = a \o new
    OBVIOUS
  <2> HIDE DEF a, b
  <2>2. QED
    BY <2>1, ConcatIsList, ListIsList
<1>2. a \in Seq(X) /\ b \in Seq(X)
  <2>1. IsList(a) /\ IsList(b)
    BY <1>1
  <2> HIDE DEF a, b
  <2>2. a \in Seq({ a[i] : i \in DOMAIN a }) /\ b \in Seq({ b[i] : i \in DOMAIN b })
    BY <2>1 DEF IsList
  <2>3. QED
    BY <2>2
<1> HIDE DEF X
<1>3. GetTableResults(j, skip, take) = FirstN(s, take) /\ GetTableResults(k, skip, take) = FirstN(t, take)
  BY Zenon DEF GetTableResults
<1> HIDE DEF a, b
<1>4. /\ s \in Seq(X) /\ Len(s) = IF skip < Len(a) THEN Len(a) - skip ELSE 0
      /\ \A i \in 1 .. Len(a) - skip : s[i] = a[skip + i]
  BY <1>1, <1>2
<1>5. /\ t \in Seq(X) /\ Len(t) = IF skip < Len(b) THEN Len(b) - skip ELSE 0
      /\ \A i \in 1 .. Len(b) - skip : t[i] = b[skip + i]
  BY <1>1, <1>2
<1>6. IsList(s) /\ IsList(t)
  BY <1>4, <1>5, SeqIsList
<1> HIDE DEF s, t
<1>7. skip + take <= Len(a)
  BY DEF a
<1>8. take <= Len(s) /\ take <= Len(t)
  BY <1>1, <1>4, <1>5, <1>7
<1>9. \A i \in 1 .. take : s[i] = t[i]
  <2> SUFFICES ASSUME NEW i \in 1 .. take PROVE s[i] = t[i]
    OBVIOUS
  <2>1. i \in 1 .. Len(a) - skip /\ i \in 1 .. Len(b) - skip /\ skip + i \in 1 .. Len(a)
    BY <1>1, <1>7, SMTT(30)
  <2>2. QED
    BY <1>1, <1>4, <1>5, <2>1
<1>10. FirstN(t, take) = FirstN(s, take)
  BY <1>6, <1>8, <1>9, SameFirst
<1>11. QED
  BY <1>3, <1>10

-----------------------------------------------------------------------------
(* Results: what a step makes of one has the times of the one it got       *)

LEMMA PickedIs ==
  ASSUME NEW list, IsList(list), NEW S \in SUBSET DOMAIN list
  PROVE  /\ IsList(Picked(list, S))
         /\ \A n \in DOMAIN Picked(list, S) : \E i \in S : Picked(list, S)[n] = list[i]
<1> DEFINE zero == [ i \in DOMAIN list |-> 0 ]
           numbers == Descending(S, zero)
           k == Cardinality(S)
           s == Picked(list, S)
<1>1. Len(list) \in Nat /\ DOMAIN list = 1 .. Len(list)
  BY ListIsList
<1>2. IsFiniteSet(S)
  <2> DEFINE n == Len(list)
  <2>1. n \in Nat /\ S \in SUBSET (1 .. n)
    BY <1>1
  <2> HIDE DEF n
  <2>2. 1 \in Int /\ n \in Int
    BY <2>1
  <2>3. IsFiniteSet(1 .. n)
    BY <2>2, FS_Interval
  <2>4. QED
    BY <2>1, <2>3, FS_Subset
<1>3. Amounts(S, zero) /\ k \in Nat
  BY <1>1, <1>2, FS_CardinalityType DEF Amounts
<1>4. s = [ n \in 1 .. k |-> list[numbers[n]] ]
  BY Zenon DEF Picked
<1> HIDE DEF zero, k, s
<1>5. \A n \in 1 .. k : numbers[n] \in S
  BY <1>3, DescendingAt DEF k
<1> HIDE DEF numbers
<1>6. s = [ n \in 1 .. k |-> s[n] ] /\ \A n \in 1 .. k : s[n] = list[numbers[n]]
  BY <1>4
<1>7. IsList(s) /\ DOMAIN s = 1 .. k
  BY <1>3, <1>6, FunctionIsList
<1>8. QED
  BY <1>5, <1>6, <1>7 DEF s

LEMMA PickedTimes ==
  ASSUME NEW U, NEW list, IsTimed(U, list), NEW S \in SUBSET DOMAIN list
  PROVE  IsTimed(U, Picked(list, S)) /\ WallsIn(Picked(list, S)) \subseteq WallsIn(list)
<1> DEFINE s == Picked(list, S)
<1>1. IsList(s) /\ \A n \in DOMAIN s : \E i \in S : s[n] = list[i]
  BY PickedIs DEF IsTimed
<1> HIDE DEF s
<1>2. IsTimed(U, s) /\ WallsIn(s) \subseteq WallsIn(list)
  BY <1>1 DEF IsTimed, WallsIn
<1>3. QED
  BY <1>2 DEF s

\* The same times, whatever else is different.
LEMMA SameTimes ==
  ASSUME NEW U, NEW list, IsTimed(U, list), NEW s, s = [ i \in DOMAIN list |-> s[i] ],
         \A i \in DOMAIN list : IsSeen(U, s[i]) /\ s[i].time = list[i].time
  PROVE  IsTimed(U, s) /\ WallsIn(s) = WallsIn(list)
<1>1. Len(list) \in Nat /\ DOMAIN list = 1 .. Len(list)
  BY ListIsList DEF IsTimed
<1>2. IsList(s) /\ DOMAIN s = DOMAIN list
  BY <1>1, FunctionIsList
<1>3. QED
  BY <1>2 DEF IsTimed, WallsIn

LEMMA SearchResultIs ==
  ASSUME NEW U, NEW search, NEW page, IsTimed({}, page), NEW r \in SearchResults(search, page)
  PROVE  IsResult(U, r) /\ WallsIn(r.events) \subseteq WallsIn(page)
<1> DEFINE extracted == [ i \in DOMAIN page |-> [page[i] EXCEPT !.fields = ExtractFields(page[i])] ]
<1>1. PICK S \in SUBSET DOMAIN page : r = Result(Picked(extracted, S), << >>)
  BY Zenon DEF SearchResults
<1>2. /\ extracted = [ i \in DOMAIN page |-> extracted[i] ]
      /\ \A i \in DOMAIN page : IsSeen({}, extracted[i]) /\ extracted[i].time = page[i].time
  <2>1. ASSUME NEW i \in DOMAIN page PROVE IsSeen({}, extracted[i]) /\ extracted[i].time = page[i].time
    <3>1. IsSeen({}, page[i])
      BY DEF IsTimed
    <3>2. extracted[i] = [page[i] EXCEPT !.fields = ExtractFields(page[i])]
      OBVIOUS
    <3> HIDE DEF extracted
    <3>3. /\ extracted[i].time = page[i].time /\ extracted[i].id = page[i].id
          /\ DOMAIN extracted[i] = DOMAIN page[i]
      BY <3>1, <3>2 DEF IsSeen
    <3>4. QED
      BY <3>1, <3>3 DEF IsSeen
  <2>2. QED
    BY <2>1
<1>3. DOMAIN extracted = DOMAIN page
  OBVIOUS
<1> HIDE DEF extracted
<1>4. IsTimed({}, extracted) /\ WallsIn(extracted) = WallsIn(page)
  BY <1>2, SameTimes
<1>5. IsTimed({}, Picked(extracted, S)) /\ WallsIn(Picked(extracted, S)) \subseteq WallsIn(page)
  BY <1>3, <1>4, PickedTimes
<1>6. r.events = Picked(extracted, S) /\ r.rows = << >>
  BY <1>1 DEF Result
<1>7. QED
  BY <1>5, <1>6, EmptyBuffer DEF IsResult, IsTimed, IsSeen

LEMMA WhereResultIs ==
  ASSUME NEW U, NEW args, NEW r, IsResult(U, r)
  PROVE  IsResult(U, WhereResult(args, r)) /\ WallsIn(WhereResult(args, r).events) \subseteq WallsIn(r.events)
<1> DEFINE w == WhereResult(args, r)
<1>1. PICK S \in SUBSET DOMAIN r.events, T \in SUBSET DOMAIN r.rows :
        w = Result(Picked(r.events, S), Picked(r.rows, T))
  <2> DEFINE S == { i \in DOMAIN r.events : Holds(args, r.events[i].fields, Lower) }
             T == { i \in DOMAIN r.rows : Holds(args, r.rows[i], LAMBDA k : k) }
  <2>2. w = Result(Picked(r.events, S), Picked(r.rows, T))
    BY Zenon DEF WhereResult
  <2>3. S \in SUBSET DOMAIN r.events /\ T \in SUBSET DOMAIN r.rows
    OBVIOUS
  <2> HIDE DEF S, T, w
  <2>4. QED
    BY <2>2, <2>3
<1> HIDE DEF w
<1>2. w.events = Picked(r.events, S) /\ w.rows = Picked(r.rows, T)
  BY <1>1 DEF Result
<1>3. IsTimed(U, Picked(r.events, S)) /\ WallsIn(Picked(r.events, S)) \subseteq WallsIn(r.events)
  BY PickedTimes DEF IsResult
<1>4. IsList(Picked(r.rows, T))
  BY PickedIs DEF IsResult
<1>5. IsResult(U, w) /\ WallsIn(w.events) \subseteq WallsIn(r.events)
  BY <1>2, <1>3, <1>4 DEF IsResult
<1>6. QED
  BY <1>5 DEF w

LEMMA TableResultIs ==
  ASSUME NEW U, NEW fields, NEW r, IsResult(U, r)
  PROVE  IsResult(U, TableResult(fields, r)) /\ TableResult(fields, r).events = r.events
<1> DEFINE w == TableResult(fields, r)
<1>1. w.events = r.events /\ w.rows = [ i \in DOMAIN r.events |-> w.rows[i] ]
  BY DEF TableResult, Result
<1>2. Len(r.events) \in Nat /\ DOMAIN r.events = 1 .. Len(r.events)
  BY ListIsList DEF IsResult, IsTimed
<1> HIDE DEF w
<1>3. w.rows = [ i \in 1 .. Len(r.events) |-> w.rows[i] ]
  BY <1>1, <1>2
<1>4. IsList(w.rows)
  BY <1>2, <1>3, FunctionIsList
<1>5. IsResult(U, w)
  BY <1>1, <1>4 DEF IsResult
<1>6. QED
  BY <1>1, <1>5 DEF w

LEMMA RexResultIs ==
  ASSUME NEW U, NEW step, NEW r, IsResult(U, r), 0 \in U => ~RexPanics(step, r)
  PROVE  IsResult(U, RexResult(step, r)) /\ WallsIn(RexResult(step, r).events) = WallsIn(r.events)
<1> DEFINE found(i) == Found(step.rex, RexText(step.field, r.events[i]))
           w == RexResult(step, r)
           s == [ i \in DOMAIN r.events |-> [r.events[i] EXCEPT !.fields = Merged(found(i), @)] ]
<1>1. w = Result(s, r.rows)
  BY Zenon DEF RexResult
<1>2. ASSUME NEW i \in DOMAIN r.events, r.events[i].id = 0, 0 \in U PROVE DOMAIN found(i) = {}
  BY <1>2 DEF RexPanics, NoEvent
<1> HIDE DEF found
<1>3. ASSUME NEW i \in DOMAIN r.events
      PROVE  IsSeen(U, s[i]) /\ s[i].time = r.events[i].time
  <2>1. IsSeen(U, r.events[i])
    BY DEF IsResult, IsTimed
  <2>2. \A f, g : DOMAIN f = {} /\ DOMAIN g = {} => DOMAIN Merged(f, g) = {}
    BY DEF Merged
  <2>3. s[i] = [r.events[i] EXCEPT !.fields = Merged(found(i), @)]
    OBVIOUS
  <2> HIDE DEF s
  <2>4. /\ s[i].time = r.events[i].time /\ s[i].id = r.events[i].id /\ DOMAIN s[i] = DOMAIN r.events[i]
    BY <2>1, <2>3 DEF IsSeen
  <2>5. ASSUME s[i].id = 0 PROVE 0 \in U /\ Blank(s[i])
    <3>1. r.events[i].id = 0 /\ 0 \in U /\ Blank(r.events[i])
      BY <2>1, <2>4, <2>5 DEF IsSeen
    <3>2. DOMAIN found(i) = {}
      BY <1>2, <3>1
    <3>3. s[i].fields = Merged(found(i), r.events[i].fields)
          /\ s[i].words = << >> /\ s[i].source = "" /\ s[i].host = ""
      BY <2>3, <3>1 DEF Blank
    <3>4. DOMAIN s[i].fields = {}
      BY <2>2, <3>1, <3>2, <3>3 DEF Blank
    <3>5. QED
      BY <2>4, <3>1, <3>3, <3>4 DEF Blank
  <2>6. QED
    BY <2>1, <2>4, <2>5 DEF IsSeen
<1>4. s = [ i \in DOMAIN r.events |-> s[i] ]
  OBVIOUS
<1> HIDE DEF s, w
<1>5. IsTimed(U, s) /\ WallsIn(s) = WallsIn(r.events)
  BY <1>3, <1>4, SameTimes DEF IsResult
<1>6. IsResult(U, w) /\ WallsIn(w.events) = WallsIn(r.events)
  BY <1>1, <1>5 DEF IsResult, Result
<1>7. QED
  BY <1>6 DEF w

LEMMA StepResultIs ==
  ASSUME NEW U, NEW step, step.name \in {"rex", "where", "table"}, NEW r, IsResult(U, r),
         step.name = "rex" /\ 0 \in U => ~RexPanics(step, r)
  PROVE  IsResult(U, StepResult(step, r)) /\ WallsIn(StepResult(step, r).events) \subseteq WallsIn(r.events)
<1>1. CASE step.name = "where"
  <2>1. StepResult(step, r) = WhereResult(step.args, r)
    BY <1>1 DEF StepResult
  <2>2. QED
    BY <2>1, WhereResultIs
<1>2. CASE step.name = "table"
  <2>1. StepResult(step, r) = TableResult(step.fields, r)
    BY <1>2 DEF StepResult
  <2>2. QED
    BY <2>1, TableResultIs
<1>3. CASE step.name = "rex"
  <2>1. StepResult(step, r) = RexResult(step, r)
    BY <1>3 DEF StepResult
  <2>2. QED
    BY <1>3, <2>1, RexResultIs
<1>4. QED
  BY <1>1, <1>2, <1>3

-----------------------------------------------------------------------------
(* All that is written or to be written was stored or in a batch at the    *)
(* start, and has a time and an offset.                                    *)

LEMMA NothingPlaced == AllPlaced(<< >>)
<1>1. DOMAIN << >> = {}
  OBVIOUS
<1>2. QED
  BY <1>1 DEF AllPlaced

\* A step of a transaction that inserts no event.
LEMMA QuietIs ==
  ASSUME NEW w, DOMAIN writer[w] = Fields,
         DrawId(w) \/ SkipDuplicate(w) \/ InsertRaw(w) \/ (w = Deleter /\ (DeleteEvents \/ DeleteRaws))
  PROVE  \E r : /\ writer' = [writer EXCEPT ![w] = r] /\ r.at # "raw"
               /\ r.events = writer[w].events /\ r.batch = writer[w].batch
               /\ \/ r.raws = writer[w].raws
                  \/ /\ writer[w].at = "raw"
                     /\ r.raws = Put(writer[w].raws, writer[w].id, Current(w).words)
<1>1. CASE DrawId(w)
  <2> DEFINE r == [writer[w] EXCEPT !.at = "conflict", !.id = seq + 1]
  <2>1. writer' = [writer EXCEPT ![w] = r]
    BY <1>1 DEF DrawId
  <2>2. r.events = writer[w].events /\ r.batch = writer[w].batch /\ r.raws = writer[w].raws /\ r.at # "raw"
    BY DEF Fields
  <2> HIDE DEF r
  <2>3. QED
    BY <2>1, <2>2
<1>2. CASE SkipDuplicate(w)
  <2> DEFINE r == [writer[w] EXCEPT !.at = "insert", !.pos = @ + 1]
  <2>1. writer' = [writer EXCEPT ![w] = r]
    BY <1>2 DEF SkipDuplicate
  <2>2. r.events = writer[w].events /\ r.batch = writer[w].batch /\ r.raws = writer[w].raws /\ r.at # "raw"
    BY DEF Fields
  <2> HIDE DEF r
  <2>3. QED
    BY <2>1, <2>2
<1>3. CASE InsertRaw(w)
  <2> DEFINE r == [writer[w] EXCEPT !.at = "insert", !.pos = @ + 1,
                             !.raws = Put(@, writer[w].id, Current(w).words)]
  <2>1. writer' = [writer EXCEPT ![w] = r] /\ writer[w].at = "raw"
    BY <1>3 DEF InsertRaw
  <2>2. r.events = writer[w].events /\ r.batch = writer[w].batch /\ r.at # "raw"
      /\ r.raws = Put(writer[w].raws, writer[w].id, Current(w).words)
    BY DEF Fields
  <2> HIDE DEF r
  <2>3. QED
    BY <2>1, <2>2
<1>4. CASE w = Deleter /\ DeleteEvents
  <2> DEFINE r == [writer[w] EXCEPT !.at = "deleteRaws", !.gone = load.deletes \cap DOMAIN Events]
  <2>1. writer' = [writer EXCEPT ![w] = r]
    BY <1>4 DEF DeleteEvents
  <2>2. r.events = writer[w].events /\ r.batch = writer[w].batch /\ r.raws = writer[w].raws /\ r.at # "raw"
    BY DEF Fields
  <2> HIDE DEF r
  <2>3. QED
    BY <2>1, <2>2
<1>5. CASE w = Deleter /\ DeleteRaws
  <2> DEFINE r == [writer[w] EXCEPT !.at = "commit", !.rawsGone = load.deletes \cap DOMAIN EventRaws]
  <2>1. writer' = [writer EXCEPT ![w] = r]
    BY <1>5 DEF DeleteRaws
  <2>2. r.events = writer[w].events /\ r.batch = writer[w].batch /\ r.raws = writer[w].raws /\ r.at # "raw"
    BY DEF Fields
  <2> HIDE DEF r
  <2>3. QED
    BY <2>1, <2>2
<1>6. QED
  BY <1>1, <1>2, <1>3, <1>4, <1>5

\* What leads to a transaction, but for a recipient.
LEMMA FeedIs ==
  ASSUME KInv, WritersAt, PublishEvent \/ TakeEvent \/ Timeout \/ BeginDelete, NEW w \in Writers
  PROVE  \/ writer'[w] = writer[w]
         \/ /\ writer'[w].at # "raw" /\ writer'[w].events = writer[w].events
            /\ writer'[w].raws = writer[w].raws
            /\ w # Publisher => writer'[w].batch = writer[w].batch
<1>1. DOMAIN writer[w] = Fields /\ DOMAIN writer = Writers /\ Publisher # Deleter
  <2>1. DOMAIN writer[w] = Fields
    BY DEF WritersAt, WriterAt
  <2>2. QED
    BY <2>1, PgEventsAssumption DEF KInv, IInv
<1>2. \/ writer'[w] = writer[w]
      \/ writer'[w] = [writer[w] EXCEPT !.at = "delete"]
      \/ w = Publisher /\ writer[w].at = "idle" /\ \E batch : writer'[w] = [writer[w] EXCEPT !.batch = batch]
      \/ w = Publisher /\ \E batch : writer'[w] = [writer[w] EXCEPT !.at = "insert", !.batch = batch]
  <2>1. CASE PublishEvent
    BY <2>1 DEF PublishEvent
  <2>2. CASE TakeEvent
    <3> DEFINE batch == Append(writer[Publisher].batch, Head(adder))
    <3>1. /\ writer[Publisher].at = "idle"
          /\ \/ writer' = [writer EXCEPT ![Publisher].at = "insert", ![Publisher].batch = batch]
             \/ writer' = [writer EXCEPT ![Publisher].batch = batch]
      BY <2>2 DEF TakeEvent, Starts
    <3> HIDE DEF batch
    <3>2. \/ writer'[w] = writer[w]
          \/ w = Publisher /\ writer'[w] = [writer[w] EXCEPT !.at = "insert", !.batch = batch]
          \/ w = Publisher /\ writer'[w] = [writer[w] EXCEPT !.batch = batch]
      BY <1>1, <3>1
    <3>3. QED
      BY <3>1, <3>2
  <2>3. CASE Timeout
    <3> DEFINE batch == writer[Publisher].batch
    <3>1. writer' = [writer EXCEPT ![Publisher].at = "insert", ![Publisher].batch = batch]
      BY <2>3 DEF Timeout, Starts
    <3> HIDE DEF batch
    <3>2. \/ writer'[w] = writer[w]
          \/ w = Publisher /\ writer'[w] = [writer[w] EXCEPT !.at = "insert", !.batch = batch]
      BY <1>1, <3>1
    <3>3. QED
      BY <3>2
  <2>5. CASE BeginDelete
    BY <1>1, <2>5 DEF BeginDelete
  <2>4. QED
    BY <2>1, <2>2, <2>3, <2>5
<1>3. QED
  BY <1>1, <1>2 DEF Fields

LEMMA OwnPlaced ==
  ASSUME KInv, EventsPlaced, NEW w \in Writers, NEW r, writer' = [writer EXCEPT ![w] = r],
         AllPlaced(r.events), AllPlaced(r.batch), AllPlaced(Events'), UNCHANGED load
  PROVE  EventsPlaced'
<1>1. DOMAIN writer = Writers /\ Possible' = Possible
  BY DEF KInv, IInv, Possible, Written
<1>2. ASSUME NEW v \in Writers PROVE AllPlaced(writer'[v].events) /\ AllPlaced(writer'[v].batch)
  BY <1>1 DEF EventsPlaced
<1>3. QED
  BY <1>1, <1>2 DEF EventsPlaced, AllPlaced

LEMMA StatementPlaced ==
  ASSUME KInv, WritersAt, EventsPlaced, NEW w \in Writers,
         Statement(w) \/ CommitFails(w) \/ StatementFails(w) \/ Receive(w)
  PROVE  EventsPlaced'
<1>1. /\ DOMAIN writer[w] = Fields /\ AllPlaced(writer[w].events) /\ AllPlaced(writer[w].batch)
      /\ AllPlaced(Events) /\ load \in Workloads
  BY DEF WritersAt, WriterAt, EventsPlaced, KInv, IInv
<1>0. UNCHANGED load
  BY WriteWorks DEF Write
<1>2. ASSUME NEW r, writer' = [writer EXCEPT ![w] = r], AllPlaced(r.events), AllPlaced(r.batch),
             UNCHANGED Events
      PROVE  EventsPlaced'
  BY <1>0, <1>1, <1>2, OwnPlaced
<1>3. CASE Receive(w)
  <2> DEFINE r == [writer[w] EXCEPT !.at = "insert", !.batch = load.batches[w]]
  <2>1. writer' = [writer EXCEPT ![w] = r] /\ w \in Recipients /\ UNCHANGED Events
    BY <1>3 DEF Receive, Starts, tables
  <2>2. r.events = writer[w].events /\ r.batch = load.batches[w]
    BY <1>1 DEF Fields
  <2>3. AllPlaced(load.batches[w])
    <3>1. \A i \in DOMAIN load.batches[w] : load.batches[w][i] \in Possible
      BY <2>1 DEF Possible, Written, Range
    <3>2. QED
      BY <1>1, <2>1, <3>1, SearchJobsAssumption DEF AllPlaced
  <2> HIDE DEF r
  <2>4. QED
    BY <1>1, <1>2, <2>1, <2>2, <2>3
<1>4. CASE InsertEvent(w)
  <2> DEFINE r == [writer[w] EXCEPT !.at = "raw", !.events = Put(@, writer[w].id, Current(w))]
  <2>1. writer' = [writer EXCEPT ![w] = r] /\ writer[w].at = "conflict" /\ UNCHANGED Events
    BY <1>4 DEF InsertEvent, Same, tables
  <2>2. r.events = Put(writer[w].events, writer[w].id, Current(w)) /\ r.batch = writer[w].batch
    BY <1>1 DEF Fields
  <2>3. writer[w].pos \in DOMAIN writer[w].batch
    BY <2>1 DEF WritersAt, WriterAt, KInv, Adds
  <2>4. IsPlaced(Current(w)) /\ Current(w) \in Possible
    BY <1>1, <2>3 DEF AllPlaced, Current
  <2> HIDE DEF r
  <2>5. AllPlaced(r.events)
    BY <1>1, <2>2, <2>4 DEF Put, AllPlaced
  <2>6. QED
    BY <1>1, <1>2, <2>1, <2>2, <2>5
<1>5. CASE DrawId(w) \/ SkipDuplicate(w) \/ InsertRaw(w) \/ (w = Deleter /\ (DeleteEvents \/ DeleteRaws))
  <2>1. \E r : writer' = [writer EXCEPT ![w] = r] /\ r.events = writer[w].events /\ r.batch = writer[w].batch
    BY <1>1, <1>5, QuietIs
  <2>2. UNCHANGED Events
    BY <1>5 DEF DrawId, SkipDuplicate, InsertRaw, DeleteEvents, DeleteRaws, Same, tables
  <2>3. QED
    BY <1>1, <1>2, <2>1, <2>2
<1>6. CASE Commit(w) \/ CommitFails(w) \/ Deadlock(w) \/ StatementFails(w)
  <2>1. PICK reply : writer' = [writer EXCEPT ![w] = [Idle EXCEPT !.reply = reply]]
    BY <1>6 DEF Commit, CommitFails, Deadlock, StatementFails, RollBack, Answered
  <2> DEFINE r == [Idle EXCEPT !.reply = reply]
  <2>2. r.events = << >> /\ r.batch = << >>
    BY DEF Idle
  <2>3. AllPlaced(Events')
    <3>1. CASE Commit(w)
      <4>1. Events' = Applied(Events, writer[w].gone, writer[w].events)
        BY <3>1 DEF Commit
      <4>2. QED
        BY <1>1, <4>1 DEF Applied, AllPlaced
    <3>2. CASE CommitFails(w) \/ Deadlock(w) \/ StatementFails(w)
      <4>1. UNCHANGED Events
        BY <3>2 DEF CommitFails, Deadlock, StatementFails, RollBack, tables
      <4>2. QED
        BY <1>1, <4>1
    <3>3. QED
      BY <1>6, <3>1, <3>2
  <2> HIDE DEF r
  <2>4. AllPlaced(r.events) /\ AllPlaced(r.batch)
    BY <2>2, NothingPlaced
  <2>5. writer' = [writer EXCEPT ![w] = r]
    BY <2>1 DEF r
  <2>6. QED
    BY <1>0, <2>3, <2>4, <2>5, OwnPlaced
<1>7. QED
  BY <1>3, <1>4, <1>5, <1>6 DEF Statement

LEMMA FeedPlaced ==
  ASSUME KInv, KInv', WritersAt, EventsPlaced, PublishEvent \/ TakeEvent \/ Timeout \/ BeginDelete
  PROVE  EventsPlaced'
<1>1. UNCHANGED << Events, load >> /\ DOMAIN writer = Writers /\ load \in Workloads
  BY DEF PublishEvent, TakeEvent, Timeout, BeginDelete, Same, tables, KInv, IInv
<1>2. ASSUME NEW w \in Writers
      PROVE  /\ writer'[w].events = writer[w].events
             /\ w # Publisher => writer'[w].batch = writer[w].batch
  BY <1>2, FeedIs
<1>4. AllPlaced(writer'[Publisher].batch)
  <2>1. writer'[Publisher].batch \in Seq(Published)
    BY <1>1 DEF KInv, InOrder, Published
  <2>2. \A e \in Published : IsPlaced(e) /\ e \in Possible
    BY <1>1, SearchJobsAssumption DEF Published, Possible, Written, Range
  <2>3. QED
    BY <2>1, <2>2 DEF AllPlaced
<1>5. ASSUME NEW w \in Writers PROVE AllPlaced(writer'[w].events) /\ AllPlaced(writer'[w].batch)
  <2>1. CASE w = Publisher
    BY <1>2, <1>4, <2>1 DEF EventsPlaced
  <2>2. CASE w # Publisher
    BY <1>2, <2>2 DEF EventsPlaced
  <2>3. QED
    BY <2>1, <2>2
<1>6. AllPlaced(Events')
  BY <1>1 DEF EventsPlaced
<1>7. Possible' = Possible
  BY <1>1 DEF Possible, Written
<1>8. QED
  BY <1>5, <1>6, <1>7 DEF EventsPlaced, AllPlaced

LEMMA NextPlaced == KInv /\ KInv' /\ WritersAt /\ EventsPlaced /\ [Next]_allVars => EventsPlaced'
<1> SUFFICES ASSUME KInv, KInv', WritersAt, EventsPlaced, [Next]_allVars PROVE EventsPlaced'
  OBVIOUS
<1>0. Possible' = Possible
  <2>1. UNCHANGED load
    BY NextLoad
  <2>2. QED
    BY <2>1 DEF Possible, Written
<1>1. CASE UNCHANGED << Events, writer >>
  BY <1>0, <1>1 DEF EventsPlaced, AllPlaced
<1>2. CASE Write
  BY <1>2, StatementPlaced, FeedPlaced DEF Write
<1>3. CASE StartJob \/ Abort \/ Goroutines
  BY <1>1, <1>3, JobSteps DEF Stored, tables
<1>4. CASE UNCHANGED allVars
  BY <1>1, <1>4 DEF allVars, store
<1>5. QED
  BY <1>2, <1>3, <1>4 DEF Next

LEMMA InitPlaced == JobInit => EventsPlaced
<1> SUFFICES ASSUME JobInit PROVE EventsPlaced
  OBVIOUS
<1>1. writer = [ w \in Writers |-> Idle ] /\ Events = load.stored /\ load \in Workloads
  BY DEF JobInit, Init
<1>2. AllPlaced(Events)
  BY <1>1, SearchJobsAssumption DEF AllPlaced, Possible, Range
<1>3. Idle.events = << >> /\ Idle.batch = << >>
  BY DEF Idle
<1>4. QED
  BY <1>1, <1>2, <1>3, NothingPlaced DEF EventsPlaced

-----------------------------------------------------------------------------
(* What is read from the events                                            *)

\* Some of the numbers of the committed rows.
LEMMA IdsAre ==
  ASSUME KInv, NEW ids \in SUBSET DOMAIN Events
  PROVE  IsFiniteSet(ids) /\ ids \subseteq Nat
<1>1. ids \subseteq 1 .. seq /\ 1 \in Int /\ seq \in Int
  BY DEF KInv, IInv, FreshIds
<1>2. IsFiniteSet(1 .. seq)
  BY <1>1, FS_Interval
<1>3. QED
  BY <1>1, <1>2, FS_Subset

\* Committed rows, the latest first, and none as late as the last of the page before.
OfPage(last, ids) ==
  /\ IsTimed({}, Rows(ids)) /\ IsList(ids) /\ DOMAIN Rows(ids) = DOMAIN ids
  /\ \A i \in DOMAIN ids : ids[i] \in DOMAIN Events /\ Rows(ids)[i].time = Events[ids[i]].time
  /\ \A i \in DOMAIN ids, t \in last : Rows(ids)[i].time < t
  /\ ids # << >> =>
       /\ Len(ids) \in DOMAIN ids
       /\ \A i \in DOMAIN ids : Events[ids[Len(ids)]].time <= Rows(ids)[i].time

LEMMA PageRows ==
  ASSUME KInv, EventsPlaced, NEW step, NEW maxId, NEW last, NEW all \in Page(step, maxId, last),
         NEW n \in 0 .. Len(all), NEW ids, ids = SubSeq(all, 1, n)
  PROVE  OfPage(last, ids)
<1> DEFINE S == { i \in DOMAIN Events :
                    i <= maxId /\ Matches(step, i) /\ \A t \in last : Events[i].time < t }
           times == TimesOf(Events)
<1>1. all \in Pages(S, times, 0, PageSize)
  BY DEF Page, Newest
<1>2. S \in SUBSET DOMAIN Events /\ \A i \in S, t \in last : Events[i].time < t
  OBVIOUS
<1> HIDE DEF S
<1>3. \A i \in DOMAIN Events : /\ times[i] = Events[i].time /\ times[i] \in Nat
                               /\ Wall(Events[i].time) \in Nat
  BY DEF TimesOf, EventsPlaced, AllPlaced, IsPlaced
<1>4. Amounts(S, times)
  BY <1>2, <1>3, IdsAre DEF Amounts
<1> HIDE DEF times
<1>5. 0 \in Nat /\ PageSize \in Nat
  BY SearchJobsAssumption
<1>6. IsList(all) /\ all \in Seq(S) /\ DOMAIN all = 1 .. Len(all)
  BY <1>1, <1>4, <1>5, PageIsList, ListIsList DEF Amounts
<1>7. \A k, l \in DOMAIN all : k < l => times[all[k]] >= times[all[l]]
  BY <1>1, <1>4, <1>5, PageDescends
<1>8. /\ IsList(ids) /\ Len(ids) = n /\ \A i \in 1 .. n : i \in DOMAIN all /\ ids[i] = all[i]
  BY <1>6, PartIs
<1>9. DOMAIN ids = 1 .. n /\ n \in Nat
  BY <1>8, ListIsList
<1>10. \A i \in DOMAIN ids : ids[i] \in S
  BY <1>6, <1>8, <1>9
<1>11. \A i, k \in DOMAIN ids : i < k => times[ids[i]] >= times[ids[k]]
  BY <1>7, <1>8, <1>9
<1>12. DOMAIN Rows(ids) = DOMAIN ids
       /\ \A i \in DOMAIN ids : /\ {"id", "time"} \subseteq DOMAIN Rows(ids)[i]
                                /\ Rows(ids)[i].time = Events[ids[i]].time /\ Rows(ids)[i].id = ids[i]
  BY DEF Rows, Row, RowOf
<1>13. \A i \in DOMAIN Events : i # 0
  <2>1. DOMAIN Events \subseteq 1 .. seq /\ seq \in Int
    BY DEF KInv, IInv, FreshIds
  <2>2. QED
    BY <2>1
<1>14. IsTimed({}, Rows(ids))
  <2>1. IsList(Rows(ids))
    BY <1>8, RowsAre
  <2>2. ASSUME NEW i \in DOMAIN ids PROVE IsSeen({}, Rows(ids)[i])
    BY <1>2, <1>3, <1>10, <1>12, <1>13 DEF IsSeen
  <2>3. QED
    BY <1>12, <2>1, <2>2 DEF IsTimed
<1>15. \A i \in DOMAIN ids, t \in last : Rows(ids)[i].time < t
  BY <1>2, <1>10, <1>12
<1>16. \A i \in DOMAIN ids : ids[i] \in DOMAIN Events
  BY <1>2, <1>10
<1>17. ASSUME ids # << >>
       PROVE  /\ Len(ids) \in DOMAIN ids
              /\ \A i \in DOMAIN ids : Events[ids[Len(ids)]].time <= Rows(ids)[i].time
  <2>1. n \in DOMAIN ids /\ \A i \in DOMAIN ids : i < n \/ i = n
    BY <1>8, <1>9, <1>17 DEF IsList
  <2>2. ASSUME NEW i \in DOMAIN ids PROVE Events[ids[n]].time <= Rows(ids)[i].time
    <3>1. times[ids[i]] \in Nat /\ times[ids[n]] \in Nat /\ times[ids[i]] >= times[ids[n]]
      <4>1. times[ids[i]] \in Nat /\ times[ids[n]] \in Nat
        BY <1>3, <1>16, <2>1
      <4>2. i < n => times[ids[i]] >= times[ids[n]]
        BY <1>11, <2>1
      <4>3. QED
        BY <2>1, <4>1, <4>2
    <3>2. times[ids[i]] = Events[ids[i]].time /\ times[ids[n]] = Events[ids[n]].time
      BY <1>3, <1>16, <2>1
    <3>3. QED
      BY <1>12, <3>1, <3>2
  <2>3. QED
    BY <1>8, <2>1, <2>2
<1>18. QED
  BY <1>8, <1>12, <1>14, <1>15, <1>16, <1>17 DEF OfPage

\* What surrounds an event is committed too, or empty if there may be an event whose
\* file is not configured.
LEMMA SurroundingRows ==
  ASSUME KInv, EventsPlaced, NEW id, NEW count, HasRoom(count), NEW ids \in Surrounding(id, count),
         NEW U, (\E e \in Possible : e.source \notin Configured) => 0 \in U
  PROVE  IsResult(U, SurroundingResult(Rows(ids)))
<1> DEFINE offsets == [ i \in DOMAIN Events |-> Events[i].offset ]
           A == { i \in DOMAIN Events \cap DOMAIN EventRaws :
                    /\ Events[i].sourceId = Events[id].sourceId
                    /\ Events[i].offset > Events[id].offset }
           B == { i \in DOMAIN Events \cap DOMAIN EventRaws :
                    /\ Events[i].sourceId = Events[id].sourceId
                    /\ Events[i].offset <= Events[id].offset }
           half == Half(count)
           skip == IF Cardinality(A) < half THEN 0 ELSE Cardinality(A) - half
<1>1. PICK a \in Pages(A, offsets, skip, half), b \in Pages(B, offsets, 0, half) : ids = a \o b
  <2> DEFINE X == Pages(A, offsets, skip, half)
             Y == Pages(B, offsets, 0, half)
  <2>1. ids \in Joint(X, Y)
    BY Zenon DEF Surrounding
  <2> HIDE DEF X, Y
  <2>2. \E a \in X, b \in Y : ids = a \o b
    BY <2>1 DEF Joint
  <2>3. QED
    BY <2>2 DEF X, Y
<1>2. A \in SUBSET DOMAIN Events /\ B \in SUBSET DOMAIN Events
  OBVIOUS
<1>3. half \in Nat
  BY SearchJobsAssumption DEF HasRoom
<1> HIDE DEF A, B, half, offsets
<1>4. IsFiniteSet(A) /\ IsFiniteSet(B) /\ Cardinality(A) \in Nat
  BY <1>2, IdsAre, FS_CardinalityType
<1>5. skip \in Nat /\ 0 \in Nat
  BY <1>3, <1>4
<1> HIDE DEF skip
<1>6. a \in Seq(A) /\ b \in Seq(B)
  BY <1>1, <1>3, <1>4, <1>5, PageIsList
<1>7. IsList(ids) /\ \A i \in DOMAIN ids : ids[i] \in DOMAIN Events
  <2>1. a \in Seq(DOMAIN Events) /\ b \in Seq(DOMAIN Events)
    BY <1>2, <1>6
  <2>2. ids \in Seq(DOMAIN Events)
    BY <1>1, <2>1
  <2>3. QED
    BY <2>2, SeqIsList
<1> DEFINE rows == Rows(ids)
           events == [ i \in DOMAIN rows |-> IF rows[i].source \in Configured THEN rows[i] ELSE NoEvent ]
<1>8. SurroundingResult(rows).events = events /\ SurroundingResult(rows).rows = << >>
  BY DEF SurroundingResult, Result
<1>9. IsList(rows) /\ DOMAIN rows = DOMAIN ids /\ \A i \in DOMAIN ids : rows[i] = Row(ids[i])
  BY <1>7, RowsAre DEF Rows
<1>10. \A i \in DOMAIN Events : i # 0 /\ IsPlaced(Events[i]) /\ Events[i] \in Possible
  <2>1. DOMAIN Events \subseteq 1 .. seq /\ seq \in Int
    BY DEF KInv, IInv, FreshIds
  <2>2. QED
    BY <2>1 DEF EventsPlaced, AllPlaced
<1> HIDE DEF rows
<1>11. ASSUME NEW i \in DOMAIN rows
       PROVE  /\ IsSeen(U, rows[i])
              /\ rows[i].source \notin Configured => \E e \in Possible : e.source \notin Configured
  <2>1. rows[i] = Row(ids[i]) /\ ids[i] \in DOMAIN Events
    BY <1>7, <1>9
  <2>2. QED
    BY <1>10, <2>1 DEF Row, RowOf, IsSeen, IsPlaced
<1>12. 0 \in U => IsSeen(U, NoEvent)
  <2>1. DOMAIN << >> = {}
    OBVIOUS
  <2>2. IsPlaced(NoEvent)
    BY SearchJobsAssumption
  <2>3. QED
    BY <2>1, <2>2 DEF IsSeen, Blank, NoEvent, IsPlaced
<1>13. IsTimed(U, events)
  <2>1. Len(rows) \in Nat /\ DOMAIN rows = 1 .. Len(rows)
    BY <1>9, ListIsList
  <2>2. events = [ i \in 1 .. Len(rows) |-> events[i] ]
        /\ \A i \in 1 .. Len(rows) :
             \/ events[i] = rows[i]
             \/ events[i] = NoEvent /\ rows[i].source \notin Configured
    BY <2>1
  <2> HIDE DEF events
  <2>3. IsList(events) /\ DOMAIN events = 1 .. Len(rows)
    BY <2>1, <2>2, FunctionIsList
  <2>4. QED
    BY <1>11, <1>12, <2>1, <2>2, <2>3 DEF IsTimed
<1>14. IsResult(U, SurroundingResult(rows))
  BY <1>8, <1>13, EmptyBuffer DEF IsResult
<1>15. QED
  BY <1>14 DEF rows

-----------------------------------------------------------------------------
(* Whatever is on its way to the job is a result.                          *)

\* What is left of a channel: as it was, or without its first.
Less(b, c) == c = b \/ (b # << >> /\ c = Tail(b))

LEMMA MayStays ==
  ASSUME UNCHANGED << Stored, chain >>
  PROVE  May' = May
BY DEF May, Lost, Possible, Written, Stored

LEMMA StreamResults ==
  ASSUME KInv, EventsPlaced, Shape, Results, OpenStream \/ QueryPage
  PROVE  Results'
<1>1. UNCHANGED << Stored, chain, steps, pipes, engine, job, delivered >>
  BY SMTT(30) DEF OpenStream, QueryPage, StreamOnly
<1>2. stream'.at = "send" => IsTimed({}, stream'.page)
  <2>1. DOMAIN stream = {"at", "maxId", "last", "page"}
    BY SMTT(30) DEF Shape, StreamIs
  <2>2. CASE \E maxId : \E at \in {"end", "query"} : stream' = [stream EXCEPT !.at = at, !.maxId = maxId]
    BY <2>1, <2>2
  <2>3. CASE stream' = [stream EXCEPT !.at = "end"]
    BY <2>1, <2>3
  <2>4. ASSUME NEW all \in Page(chain[1], stream.maxId, stream.last), NEW n \in 0 .. Len(all),
               HasRead(SubSeq(all, 1, n))
        PROVE  IsTimed({}, stream'.page)
    <3> DEFINE ids == SubSeq(all, 1, n)
    <3>1. ids = SubSeq(all, 1, n) /\ HasRead(ids)
      BY <2>4
    <3> HIDE DEF ids
    <3>2. OfPage(stream.last, ids)
      BY <3>1, PageRows
    <3>3. QED
      BY <2>1, <3>1, <3>2 DEF HasRead, OfPage
  <2>5. CASE QueryPage
    BY <2>3, <2>4, <2>5, QueryReads
  <2>6. CASE OpenStream
    BY <2>2, <2>3, <2>6 DEF OpenStream
  <2>7. QED
    BY <2>5, <2>6
<1>3. May' = May
  BY <1>1, MayStays
<1>4. QED
  BY <1>1, <1>2, <1>3 DEF Results

\* A step moves on its own.
LEMMA OwnResults ==
  ASSUME Shape, Results, NEW i \in DOMAIN chain, UNCHANGED << Stored, chain, engine, job, delivered >>,
         stream'.at = "send" => stream' = stream,
         \A j \in DOMAIN chain : j # i => steps'[j] = steps[j],
         \A j \in DOMAIN chain : j # i => Less(pipes[j].buffer, pipes'[j].buffer),
         Sent(May, steps'[i], pipes'[i])
  PROVE  Results'
<1>1. ASSUME NEW j \in DOMAIN chain, j # i PROVE Sent(May, steps'[j], pipes'[j])
  <2>1. Goroutine(j, steps[j], pipes[j]) /\ Sent(May, steps[j], pipes[j]) /\ steps'[j] = steps[j]
    BY <1>1 DEF Shape, Results
  <2>2. CASE pipes'[j].buffer = pipes[j].buffer
    BY <2>1, <2>2 DEF Sent
  <2>3. CASE pipes'[j].buffer = Tail(pipes[j].buffer) /\ pipes[j].buffer # << >>
    <3> DEFINE b == pipes[j].buffer
    <3>1. IsList(b) /\ b # << >>
      BY <2>1, <2>3 DEF Goroutine
    <3> HIDE DEF b
    <3>2. Len(b) \in Nat /\ DOMAIN b = 1 .. Len(b)
          /\ DOMAIN Tail(b) = 1 .. Len(b) - 1 /\ \A a \in 1 .. Len(b) - 1 : Tail(b)[a] = b[a + 1]
      BY <3>1, ListIsList, TailIsList
    <3>3. \A a \in DOMAIN Tail(b) : a + 1 \in DOMAIN b
      BY <3>2
    <3>4. \A a \in DOMAIN Tail(b) : IsResult(May, Tail(b)[a])
      BY <2>1, <3>2, <3>3 DEF Sent, b
    <3>5. QED
      BY <2>1, <2>3, <3>4 DEF Sent, b
  <2>4. Less(pipes[j].buffer, pipes'[j].buffer)
    BY <1>1
  <2>5. QED
    BY <2>2, <2>3, <2>4 DEF Less
<1>2. \A j \in DOMAIN chain : Sent(May, steps'[j], pipes'[j])
  BY <1>1
<1>3. May' = May
  BY MayStays
<1>4. QED
  BY <1>2, <1>3 DEF Results

LEMMA EndsResults ==
  ASSUME Shape, Results, NEW i \in DOMAIN chain, Ends(i), UNCHANGED << Stored, chain, engine, job, delivered >>,
         stream'.at = "send" => stream' = stream
  PROVE  Results'
<1>1. /\ steps'[i].at = "end"
      /\ \A j \in DOMAIN chain : j # i => steps'[j] = steps[j]
      /\ \A j \in DOMAIN chain : pipes'[j].buffer = pipes[j].buffer
  BY EndsIs
<1>2. Sent(May, steps[i], pipes[i])
  BY DEF Results
<1>3. Sent(May, steps'[i], pipes'[i])
  BY <1>1, <1>2 DEF Sent
<1>4. \A j \in DOMAIN chain : j # i => steps'[j] = steps[j]
  BY <1>1
<1>5. \A j \in DOMAIN chain : j # i => Less(pipes[j].buffer, pipes'[j].buffer)
  BY <1>1 DEF Less
<1>6. QED
  BY <1>3, <1>4, <1>5, OwnResults

\* What a step that has something to send has done.
LEMMA ToSendIs ==
  ASSUME Shape, NEW i \in DOMAIN chain, NEW r, ToSend(i, r)
  PROVE  steps'[i].at = "send" /\ steps'[i].out = r /\ \A j \in DOMAIN chain : j # i => steps'[j] = steps[j]
<1>1. DOMAIN steps = DOMAIN chain /\ Goroutine(i, steps[i], pipes[i])
  BY DEF Shape
<1>2. steps' = [steps EXCEPT ![i].at = "send", ![i].out = r]
  BY DEF ToSend
<1>3. steps'[i] = [steps[i] EXCEPT !.at = "send", !.out = r]
  BY <1>1, <1>2
<1>4. steps'[i].at = "send" /\ steps'[i].out = r
  BY <1>1, <1>3 DEF Goroutine
<1>5. QED
  BY <1>1, <1>2, <1>4

LEMMA ToSendResults ==
  ASSUME Shape, Results, NEW i \in DOMAIN chain, NEW r, IsResult(May, r), ToSend(i, r),
         UNCHANGED << Stored, chain, engine, job, delivered >>,
         pipes'[i].buffer = pipes[i].buffer,
         \A j \in DOMAIN chain : j # i => Less(pipes[j].buffer, pipes'[j].buffer),
         stream'.at = "send" => stream' = stream
  PROVE  Results'
<1>1. steps'[i].at = "send" /\ steps'[i].out = r /\ \A j \in DOMAIN chain : j # i => steps'[j] = steps[j]
  BY ToSendIs
<1>2. Sent(May, steps[i], pipes[i])
  BY DEF Results
<1>3. Sent(May, steps'[i], pipes'[i])
  BY <1>1, <1>2 DEF Sent
<1>4. \A j \in DOMAIN chain : j # i => steps'[j] = steps[j]
  BY <1>1
<1>5. QED
  BY <1>3, <1>4, OwnResults

LEMMA SearchStepResults ==
  ASSUME KInv, EventsPlaced, Shape, Results, StartSearch \/ SearchPage \/ SearchEnds \/ StartSurrounding
  PROVE  Results'
<1>1. UNCHANGED << Stored, chain, engine, job, delivered >> /\ steps # << >> /\ 1 \in DOMAIN chain
  BY FirstStep DEF StartSearch, SearchPage, SearchEnds, StartSurrounding, StepsOnly
<1>2. DOMAIN stream = {"at", "maxId", "last", "page"} /\ DOMAIN steps = DOMAIN chain /\ chain # << >>
      /\ Goroutine(1, steps[1], pipes[1]) /\ Sent(May, steps[1], pipes[1])
  BY <1>1, FirstStep DEF Shape, StreamIs, Results
<1>3. stream'.at = "send" => stream' = stream
  <2>1. \/ UNCHANGED stream
        \/ stream' = [stream EXCEPT !.at = "max"]
        \/ stream' = [stream EXCEPT !.at = IF Len(stream.page) < PageSize THEN "end" ELSE "query"]
    BY DEF StartSearch, SearchPage, SearchEnds, StartSurrounding
  <2>2. QED
    BY <1>2, <2>1
<1>4. UNCHANGED << Stored, chain, engine, job, delivered >>
  BY <1>1
<1>5. 1 \in DOMAIN chain
  BY <1>1
<1>6. CASE Ends(1)
  BY <1>4, <1>5, <1>3, <1>6, EndsResults
<1>7. ASSUME UNCHANGED pipes PROVE \A j \in DOMAIN chain : j # 1 => Less(pipes[j].buffer, pipes'[j].buffer)
  BY <1>7 DEF Less
<1>8. ASSUME NEW r, IsResult(May, r), ToSend(1, r), UNCHANGED pipes
      PROVE  Results'
  <2>1. \A j \in DOMAIN chain : j # 1 => Less(pipes[j].buffer, pipes'[j].buffer)
    BY <1>8, <1>7
  <2>2. pipes'[1].buffer = pipes[1].buffer
    BY <1>8
  <2>3. QED
    BY <1>4, <1>5, <1>3, <1>8, <2>1, <2>2, ToSendResults
<1>9. ASSUME UNCHANGED << steps, pipes >> PROVE Results'
  <2>1. \A j \in DOMAIN chain : j # 1 => Less(pipes[j].buffer, pipes'[j].buffer)
    BY <1>9, <1>7
  <2>2. \A j \in DOMAIN chain : j # 1 => steps'[j] = steps[j]
    BY <1>9
  <2>3. Sent(May, steps'[1], pipes'[1])
    BY <1>2, <1>9
  <2>4. QED
    BY <1>4, <1>5, <1>3, <2>1, <2>2, <2>3, OwnResults
<1>10. CASE StartSearch
  <2>1. CASE steps' = [steps EXCEPT ![1].at = "select"] /\ UNCHANGED pipes
    <3>1. steps'[1] = [steps[1] EXCEPT !.at = "select"] /\ \A j \in DOMAIN chain : j # 1 => steps'[j] = steps[j]
      BY <1>1, <1>2, <2>1
    <3>2. steps'[1].at = "select"
      BY <1>2, <3>1 DEF Goroutine
    <3>3. Sent(May, steps'[1], pipes'[1])
      BY <1>2, <2>1, <3>2 DEF Sent
    <3>4. \A j \in DOMAIN chain : j # 1 => Less(pipes[j].buffer, pipes'[j].buffer)
      BY <2>1, <1>7
    <3>5. \A j \in DOMAIN chain : j # 1 => steps'[j] = steps[j]
      BY <3>1
    <3>6. QED
      BY <1>4, <1>5, <1>3, <3>3, <3>4, <3>5, OwnResults
  <2>2. QED
    BY <1>6, <1>10, <2>1 DEF StartSearch
<1>11. CASE SearchPage
  <2>1. \/ UNCHANGED << steps, pipes >>
        \/ \E r \in SearchResults(chain[1].search, stream.page) : ToSend(1, r) /\ UNCHANGED pipes
    BY <1>11 DEF SearchPage
  <2>2. IsTimed({}, stream.page)
    BY <1>11 DEF SearchPage, Results
  <2>3. \A r \in SearchResults(chain[1].search, stream.page) : IsResult(May, r)
    BY <2>2, SearchResultIs
  <2>4. CASE UNCHANGED << steps, pipes >>
    BY <1>9, <2>4
  <2>5. QED
    BY <1>8, <2>1, <2>3, <2>4
<1>12. CASE SearchEnds
  BY <1>6, <1>12 DEF SearchEnds
<1>13. CASE StartSurrounding
  <2>1. chain[1].name = "surrounding"
    BY <1>13 DEF StartSurrounding
  <2>2. (\E e \in Possible : e.source \notin Configured) => 0 \in May
    BY <1>2, <2>1 DEF May, Lost
  <2>3. ASSUME HasRoom(chain[1].count), NEW ids \in Surrounding(chain[1].eventId, chain[1].count)
        PROVE  IsResult(May, SurroundingResult(Rows(ids)))
    BY <2>2, <2>3, SurroundingRows
  <2>4. CASE UNCHANGED << steps, pipes >>
    BY <1>9, <2>4
  <2>5. QED
    BY <1>6, <1>8, <1>13, <2>3, <2>4 DEF StartSurrounding
<1>14. QED
  BY <1>10, <1>11, <1>12, <1>13

\* The first of a channel, and what is left.
LEMMA HeadIs ==
  ASSUME NEW s, IsList(s), s # << >>
  PROVE  /\ Head(s) = s[1] /\ 1 \in DOMAIN s /\ Len(s) \in Nat \ {0}
         /\ DOMAIN s = 1 .. Len(s) /\ DOMAIN Tail(s) = 1 .. Len(s) - 1
         /\ \A a \in DOMAIN Tail(s) : a + 1 \in DOMAIN s /\ Tail(s)[a] = s[a + 1]
<1>1. Len(s) \in Nat \ {0} /\ DOMAIN s = 1 .. Len(s) /\ IsList(Tail(s)) /\ Len(Tail(s)) = Len(s) - 1
      /\ \A i \in 1 .. Len(s) - 1 : Tail(s)[i] = s[i + 1]
  BY TailIsList, ListIsList
<1>2. DOMAIN Tail(s) = 1 .. Len(s) - 1
  BY <1>1, ListIsList
<1>3. QED
  BY <1>1, <1>2

\* A step has taken a result from the channel before it.
LEMMA ReceivesIs ==
  ASSUME Shape, Results, NEW i \in DOMAIN chain, Receives(i)
  PROVE  /\ i - 1 \in DOMAIN chain /\ i - 1 # i
         /\ pipes[i - 1].buffer # << >> /\ IsList(pipes[i - 1].buffer) /\ IsResult(May, Head(pipes[i - 1].buffer))
         /\ pipes'[i - 1].buffer = Tail(pipes[i - 1].buffer)
         /\ \A j \in DOMAIN chain : j # i - 1 => pipes'[j] = pipes[j]
         /\ steps[i].at = "select"
         /\ \/ UNCHANGED steps
            \/ /\ ToSend(i, StepResult(chain[i], Head(pipes[i - 1].buffer)))
               /\ chain[i].name = "rex" => ~RexPanics(chain[i], Head(pipes[i - 1].buffer))
         /\ chain[i].name \in {"rex", "where", "table"}
<1>1. chain # << >>
  OBVIOUS
<1>2. IsChain(Atoms, chain) /\ DOMAIN chain = 1 .. Len(chain) /\ Len(chain) \in Nat
  BY <1>1, ChainIs
<1>3. /\ i > 1 /\ steps[i].at = "select" /\ pipes[i - 1].buffer # << >>
      /\ pipes' = [pipes EXCEPT ![i - 1].buffer = Tail(@)]
      /\ \/ UNCHANGED steps
         \/ /\ ToSend(i, StepResult(chain[i], Head(pipes[i - 1].buffer)))
            /\ chain[i].name = "rex" => ~RexPanics(chain[i], Head(pipes[i - 1].buffer))
  BY DEF Receives
<1>4. i - 1 \in DOMAIN chain /\ i - 1 # i /\ i \in 2 .. Len(chain)
  BY <1>2, <1>3
<1>5. DOMAIN pipes = DOMAIN chain /\ Goroutine(i - 1, steps[i - 1], pipes[i - 1]) /\ Sent(May, steps[i - 1], pipes[i - 1])
  BY <1>4 DEF Shape, Results
<1>6. pipes'[i - 1].buffer = Tail(pipes[i - 1].buffer) /\ \A j \in DOMAIN chain : j # i - 1 => pipes'[j] = pipes[j]
  BY <1>3, <1>4, <1>5 DEF Goroutine
<1>7. IsList(pipes[i - 1].buffer)
  BY <1>5 DEF Goroutine
<1>8. IsResult(May, Head(pipes[i - 1].buffer))
  BY <1>3, <1>5, <1>7, HeadIs DEF Sent
<1>9. chain[i].name \in {"rex", "where", "table"}
  BY <1>2, <1>4 DEF IsChain
<1>10. QED
  BY <1>3, <1>4, <1>6, <1>7, <1>8, <1>9

LEMMA ReceivesResults ==
  ASSUME Shape, Results, NEW i \in DOMAIN chain, Receives(i)
  PROVE  Results'
<1> DEFINE h == Head(pipes[i - 1].buffer)
           r == StepResult(chain[i], h)
<1>1. /\ i - 1 \in DOMAIN chain /\ i - 1 # i /\ pipes[i - 1].buffer # << >>
      /\ IsResult(May, h) /\ pipes'[i - 1].buffer = Tail(pipes[i - 1].buffer)
      /\ \A j \in DOMAIN chain : j # i - 1 => pipes'[j] = pipes[j]
      /\ \/ UNCHANGED steps
         \/ ToSend(i, r) /\ (chain[i].name = "rex" => ~RexPanics(chain[i], h))
      /\ chain[i].name \in {"rex", "where", "table"}
  BY ReceivesIs
<1>2. UNCHANGED << Stored, chain, engine, job, delivered, stream >>
  BY DEF Receives, StepsOnly
<1> HIDE DEF h
<1>3. (chain[i].name = "rex" => ~RexPanics(chain[i], h)) => IsResult(May, r)
  BY <1>1, StepResultIs
<1> HIDE DEF r
<1>4. \A j \in DOMAIN chain : j # i => Less(pipes[j].buffer, pipes'[j].buffer)
  BY <1>1 DEF Less
<1>5. stream'.at = "send" => stream' = stream
  BY <1>2
<1>6. UNCHANGED << Stored, chain, engine, job, delivered >>
  BY <1>2
<1>7. pipes'[i] = pipes[i]
  BY <1>1
<1>8. CASE UNCHANGED steps
  <2>1. Sent(May, steps'[i], pipes'[i])
    BY <1>7, <1>8 DEF Results
  <2>2. \A j \in DOMAIN chain : j # i => steps'[j] = steps[j]
    BY <1>8
  <2>3. QED
    BY <1>4, <1>5, <1>6, <2>1, <2>2, OwnResults
<1>9. CASE ToSend(i, r) /\ IsResult(May, r)
  <2>1. pipes'[i].buffer = pipes[i].buffer
    BY <1>7
  <2>2. QED
    BY <1>4, <1>5, <1>6, <1>9, <2>1, ToSendResults
<1>10. QED
  BY <1>1, <1>3, <1>8, <1>9

\* A step has sent its result.
LEMMA SendsIs ==
  ASSUME Shape, NEW i \in DOMAIN chain, Sends(i)
  PROVE  /\ steps[i].at = "send" /\ steps'[i].at # "send"
         /\ IsList(pipes[i].buffer) /\ pipes'[i].buffer = Append(pipes[i].buffer, steps[i].out)
         /\ \A j \in DOMAIN chain : j # i => steps'[j] = steps[j] /\ pipes'[j] = pipes[j]
<1> DEFINE last == chain[i].name = "surrounding"
<1>1. /\ steps[i].at = "send"
      /\ pipes' = [pipes EXCEPT ![i].buffer = Append(@, steps[i].out), ![i].closed = last]
      /\ steps' = [steps EXCEPT ![i].at = IF last THEN "end" ELSE "select", ![i].out = NoResult]
  BY DEF Sends
<1>2. DOMAIN steps = DOMAIN chain /\ DOMAIN pipes = DOMAIN chain /\ Goroutine(i, steps[i], pipes[i])
  BY DEF Shape
<1> HIDE DEF last
<1>3. \A j \in DOMAIN chain : j # i => steps'[j] = steps[j] /\ pipes'[j] = pipes[j]
  BY <1>1, <1>2
<1>4. steps'[i].at # "send"
  BY <1>1, <1>2 DEF Goroutine
<1>5. pipes'[i].buffer = Append(pipes[i].buffer, steps[i].out) /\ IsList(pipes[i].buffer)
  BY <1>1, <1>2 DEF Goroutine
<1>6. QED
  BY <1>1, <1>3, <1>4, <1>5

LEMMA SendsResults ==
  ASSUME Shape, Results, NEW i \in DOMAIN chain, Sends(i)
  PROVE  Results'
<1> DEFINE b == pipes[i].buffer
           e == steps[i].out
<1>1. /\ steps[i].at = "send" /\ steps'[i].at # "send"
      /\ IsList(b) /\ pipes'[i].buffer = Append(b, e)
      /\ \A j \in DOMAIN chain : j # i => steps'[j] = steps[j] /\ pipes'[j] = pipes[j]
  BY SendsIs
<1>2. UNCHANGED << Stored, chain, engine, job, delivered, stream >>
  BY DEF Sends, StepsOnly
<1>3. IsResult(May, e) /\ \A a \in DOMAIN b : IsResult(May, b[a])
  BY <1>1 DEF Results, Sent
<1> HIDE DEF b, e
<1>4. Len(b) \in Nat /\ DOMAIN b = 1 .. Len(b) /\ DOMAIN Append(b, e) = 1 .. Len(b) + 1
      /\ Append(b, e)[Len(b) + 1] = e /\ \A a \in 1 .. Len(b) : Append(b, e)[a] = b[a]
  BY <1>1, AppendIsList, ListIsList
<1>5. \A a \in DOMAIN Append(b, e) : IsResult(May, Append(b, e)[a])
  <2>1. \A a \in DOMAIN Append(b, e) : a = Len(b) + 1 \/ a \in 1 .. Len(b)
    BY <1>4
  <2>2. QED
    BY <1>3, <1>4, <2>1
<1>6. Sent(May, steps'[i], pipes'[i])
  BY <1>1, <1>5 DEF Sent
<1>7. \A j \in DOMAIN chain : j # i => Less(pipes[j].buffer, pipes'[j].buffer)
  BY <1>1 DEF Less
<1>8. \A j \in DOMAIN chain : j # i => steps'[j] = steps[j]
  BY <1>1
<1>9. stream'.at = "send" => stream' = stream
  BY <1>2
<1>10. UNCHANGED << Stored, chain, engine, job, delivered >>
  BY <1>2
<1>11. QED
  BY <1>6, <1>7, <1>8, <1>9, <1>10, OwnResults

\* The last step's channel is read by the goroutine of the job.
LEMMA TakesIs ==
  ASSUME Shape, TakeResult
  PROVE  LET n == Len(pipes)
             r == Head(pipes[n].buffer)
         IN  /\ chain # << >> /\ n = Len(chain) /\ n \in DOMAIN chain
             /\ IsList(pipes[n].buffer) /\ pipes[n].buffer # << >>
             /\ pipes'[n].buffer = Tail(pipes[n].buffer)
             /\ \A j \in DOMAIN chain : j # n => pipes'[j] = pipes[j]
             /\ engine.at = "select" /\ delivered' = delivered \o Share(r)
             /\ \/ Share(r) = << >> /\ engine' = engine
                \/ Share(r) # << >> /\ engine'.at = "add" /\ engine'.result = r
             /\ UNCHANGED << chain, stream, steps, job >>
<1> DEFINE n == Len(pipes)
           r == Head(pipes[n].buffer)
<1>1. /\ engine.at = "select" /\ pipes[n].buffer # << >>
      /\ pipes' = [pipes EXCEPT ![n].buffer = Tail(@)] /\ delivered' = delivered \o Share(r)
      /\ UNCHANGED << chain, stream, steps, job >>
      /\ engine' = IF Share(r) = << >> THEN engine ELSE [engine EXCEPT !.at = "add", !.result = r]
  BY DEF TakeResult, EngineOnly, Out
<1>2. chain # << >>
  BY <1>1 DEF Shape
<1>3. n = Len(chain) /\ n \in DOMAIN chain
  BY <1>2, ChainIs
<1>4. DOMAIN pipes = DOMAIN chain /\ Goroutine(n, steps[n], pipes[n]) /\ EngineIs(engine)
  BY <1>3 DEF Shape
<1> HIDE DEF r, n
<1>5. pipes'[n].buffer = Tail(pipes[n].buffer) /\ \A j \in DOMAIN chain : j # n => pipes'[j] = pipes[j]
  BY <1>1, <1>3, <1>4 DEF Goroutine
<1>6. \/ Share(r) = << >> /\ engine' = engine
      \/ Share(r) # << >> /\ engine'.at = "add" /\ engine'.result = r
  BY <1>1, <1>4 DEF EngineIs
<1>7. IsList(pipes[n].buffer)
  BY <1>4 DEF Goroutine
<1>8. QED
  BY <1>1, <1>2, <1>3, <1>5, <1>6, <1>7 DEF r, n

LEMMA ShareIs ==
  ASSUME NEW U, NEW r, IsResult(U, r)
  PROVE  IsList(Share(r))
BY DEF Share, IsResult, IsTimed

\* The part of a channel that is left.
LEMMA SentLess ==
  ASSUME NEW U, NEW s, NEW p, NEW q, Sent(U, s, p), IsList(p.buffer), p.buffer # << >>, q.buffer = Tail(p.buffer)
  PROVE  Sent(U, s, q)
<1> DEFINE b == p.buffer
<1>1. \A a \in DOMAIN Tail(b) : a + 1 \in DOMAIN b /\ Tail(b)[a] = b[a + 1]
  BY HeadIs
<1> HIDE DEF b
<1>2. \A a \in DOMAIN Tail(b) : IsResult(U, Tail(b)[a])
  BY <1>1 DEF Sent, b
<1>3. QED
  BY <1>2 DEF Sent, b

LEMMA TakeResults ==
  ASSUME Shape, Results, TakeResult
  PROVE  Results'
<1> DEFINE n == Len(pipes)
           r == Head(pipes[n].buffer)
<1>1. /\ n \in DOMAIN chain /\ IsList(pipes[n].buffer) /\ pipes[n].buffer # << >>
      /\ pipes'[n].buffer = Tail(pipes[n].buffer)
      /\ \A j \in DOMAIN chain : j # n => pipes'[j] = pipes[j]
      /\ engine.at = "select" /\ delivered' = delivered \o Share(r)
      /\ \/ engine' = engine
         \/ engine'.at = "add" /\ engine'.result = r
      /\ UNCHANGED << chain, stream, steps, job >>
  BY TakesIs
<1>2. Sent(May, steps[n], pipes[n])
  BY <1>1 DEF Results
<1>3. IsResult(May, r)
  <2>1. r = pipes[n].buffer[1] /\ 1 \in DOMAIN pipes[n].buffer
    BY <1>1, HeadIs
  <2>2. QED
    BY <1>2, <2>1 DEF Sent
<1> HIDE DEF r, n
<1>4. IsList(delivered')
  <2>1. IsList(Share(r)) /\ IsList(delivered)
    BY <1>3, ShareIs DEF Results
  <2>2. QED
    BY <1>1, <2>1, ConcatIsList
<1>5. ASSUME NEW j \in DOMAIN chain PROVE Sent(May, steps'[j], pipes'[j])
  <2>1. Sent(May, steps[j], pipes[j]) /\ steps'[j] = steps[j]
    BY <1>1 DEF Results
  <2>2. CASE j = n
    <3>1. Sent(May, steps[n], pipes'[n])
      BY <1>1, <1>2, SentLess
    <3>2. QED
      BY <2>1, <2>2, <3>1
  <2>3. CASE j # n
    BY <1>1, <2>1, <2>3
  <2>4. QED
    BY <2>2, <2>3
<1>6. engine'.at \in {"add", "stats"} => IsResult(May, engine'.result)
  BY <1>1, <1>3 DEF Results
<1>7. May' = May
  BY MayStays DEF TakeResult, EngineOnly
<1>8. QED
  BY <1>1, <1>4, <1>5, <1>6, <1>7 DEF Results

\* What AddResults writes.
Stamps(events) == [ i \in DOMAIN events |-> Stamp(events[i]) ]

LEMMA StampsAre ==
  ASSUME NEW U, NEW events, IsTimed(U, events)
  PROVE  /\ IsStamped(Stamps(events)) /\ TimesIn(Stamps(events)) = WallsIn(events)
         /\ DOMAIN Stamps(events) = DOMAIN events
         /\ \A i \in DOMAIN events : Stamps(events)[i] = Stamp(events[i]) /\ Stamps(events)[i].time = Wall(events[i].time)
<1> DEFINE s == Stamps(events)
<1>1. /\ s = [ i \in DOMAIN events |-> s[i] ] /\ DOMAIN s = DOMAIN events
      /\ \A i \in DOMAIN events :
           s[i] = Stamp(events[i]) /\ "time" \in DOMAIN s[i] /\ s[i].time = Wall(events[i].time)
  BY DEF Stamps, Stamp
<1> HIDE DEF s
<1>2. Len(events) \in Nat /\ DOMAIN events = 1 .. Len(events)
  BY ListIsList DEF IsTimed
<1>3. IsList(s)
  BY <1>1, <1>2, FunctionIsList
<1>4. IsStamped(s)
  BY <1>1, <1>3 DEF IsStamped, IsTimed, IsSeen
<1>5. TimesIn(s) = WallsIn(events)
  BY <1>1 DEF TimesIn, WallsIn
<1>6. QED
  BY <1>1, <1>4, <1>5 DEF s

\* What the goroutine of the job writes: nothing but results or rows at the end.
LEMMA EngineIsResults ==
  ASSUME Shape, AddResults \/ AddFieldStats \/ SeeClosed \/ SeeCancelled \/ UpdateState
  PROVE  /\ UNCHANGED << chain, stream, steps, pipes, delivered >>
         /\ engine'.at = "stats" => engine.at = "add" /\ engine'.result = engine.result
         /\ engine'.at # "add"
         /\ \/ job'.results = job.results /\ job'.rows = job.rows
            \/ /\ engine.at = "add" /\ job'.results = job.results \o Stamps(engine.result.events)
               /\ job'.rows = job.rows
            \/ /\ engine.at = "add" /\ job'.results = job.results
               /\ job'.rows = job.rows \o engine.result.rows
<1>1. UNCHANGED << chain, stream, steps, pipes, delivered >>
  BY ZenonT(60) DEF AddResults, AddFieldStats, SeeClosed, SeeCancelled, UpdateState, EngineOnly
<1>2. JobIs(job) /\ EngineIs(engine)
  BY DEF Shape
<1>3. \/ engine.at = "add" /\ engine' = [engine EXCEPT !.at = "stats"]
      \/ engine' = [engine EXCEPT !.at = "select", !.result = NoResult]
      \/ \E state : engine' = [engine EXCEPT !.at = "write", !.state = state]
      \/ engine' = [engine EXCEPT !.at = "end"]
  BY DEF AddResults, AddFieldStats, SeeClosed, SeeCancelled, UpdateState
<1>4. \/ job' = job
      \/ engine.at = "add" /\ job' = [job EXCEPT !.results = @ \o Stamps(engine.result.events)]
      \/ engine.at = "add" /\ job' = [job EXCEPT !.rows = @ \o engine.result.rows]
      \/ \E new : job' = [job EXCEPT !.stats = new] \/ job' = [job EXCEPT !.state = new]
  BY DEF AddResults, AddFieldStats, SeeClosed, SeeCancelled, UpdateState, Stamps
<1>5. (engine'.at = "stats" => engine.at = "add" /\ engine'.result = engine.result) /\ engine'.at # "add"
  BY <1>2, <1>3 DEF EngineIs
<1>6. \/ job'.results = job.results /\ job'.rows = job.rows
      \/ /\ engine.at = "add" /\ job'.results = job.results \o Stamps(engine.result.events)
         /\ job'.rows = job.rows
      \/ /\ engine.at = "add" /\ job'.results = job.results
         /\ job'.rows = job.rows \o engine.result.rows
  BY <1>2, <1>4 DEF JobIs
<1>7. QED
  BY <1>1, <1>5, <1>6, ZenonT(60)

LEMMA EngineResults ==
  ASSUME Shape, Results, AddResults \/ AddFieldStats \/ SeeClosed \/ SeeCancelled \/ UpdateState
  PROVE  Results'
<1>1. /\ UNCHANGED << chain, stream, steps, pipes, delivered >>
      /\ engine'.at = "stats" => engine.at = "add" /\ engine'.result = engine.result
      /\ engine'.at # "add"
      /\ \/ job'.results = job.results /\ job'.rows = job.rows
         \/ /\ engine.at = "add" /\ job'.results = job.results \o Stamps(engine.result.events)
            /\ job'.rows = job.rows
         \/ /\ engine.at = "add" /\ job'.results = job.results
            /\ job'.rows = job.rows \o engine.result.rows
  BY EngineIsResults
<1>2. engine.at = "add" => IsTimed(May, engine.result.events) /\ IsList(engine.result.rows)
  BY DEF Results, IsResult
<1>3. IsStamped(job.results) /\ IsList(job.rows)
  BY DEF Results
<1>4. engine.at = "add" => IsStamped(job.results \o Stamps(engine.result.events))
  BY <1>2, <1>3, StampsAre, StampedConcat
<1>5. engine.at = "add" => IsList(job.rows \o engine.result.rows)
  BY <1>2, <1>3, ConcatIsList
<1>6. IsStamped(job'.results) /\ IsList(job'.rows)
  BY <1>1, <1>3, <1>4, <1>5
<1>7. May' = May
  BY <1>1, MayStays, ZenonT(60) DEF AddResults, AddFieldStats, SeeClosed, SeeCancelled, UpdateState, EngineOnly
<1>8. engine'.at \in {"add", "stats"} => IsResult(May', engine'.result)
  BY <1>1, <1>7 DEF Results
<1>9. QED
  BY <1>1, <1>6, <1>7, <1>8 DEF Results

\* A job begins with nothing.
LEMMA StartsIs ==
  ASSUME KInv, Shape, StartJob
  PROVE  /\ UNCHANGED << stream, delivered >> /\ stream.at = "off" /\ engine.at = "off" /\ chain = << >>
         /\ job'.results = job.results /\ job'.rows = job.rows
         /\ \/ chain' = << >> /\ engine' = engine /\ UNCHANGED << steps, pipes >>
            \/ /\ engine'.at = "select" /\ chain' # << >>
               /\ \A i \in DOMAIN chain' :
                    steps'[i].at # "send" /\ steps'[i].out = NoResult /\ pipes'[i].buffer = << >>
<1> DEFINE compiled == Compile(load.text, load.times)
<1>1. /\ UNCHANGED << stream, delivered >> /\ job.state = "none"
      /\ StartEndless(compiled) \/ StartRefused(compiled) \/ StartRunning(compiled)
  BY DEF StartJob
<1> HIDE DEF compiled
<1>2. chain = << >> /\ stream.at = "off" /\ engine.at = "off" /\ JobIs(job) /\ EngineIs(engine)
  BY <1>1 DEF Shape
<1>3. CASE StartEndless(compiled)
  BY <1>1, <1>2, <1>3 DEF StartEndless
<1>4. CASE StartRefused(compiled)
  <2>1. job'.results = job.results /\ job'.rows = job.rows
    BY <1>2, <1>4 DEF StartRefused, JobIs
  <2>2. QED
    BY <1>1, <1>2, <1>4, <2>1 DEF StartRefused
<1>5. CASE StartRunning(compiled)
  <2>1. /\ steps' = [ i \in DOMAIN chain' |-> [at |-> IF i = 1 THEN "start" ELSE "select", out |-> NoResult] ]
        /\ pipes' = [ i \in DOMAIN chain' |-> [buffer |-> << >>, closed |-> FALSE] ]
        /\ engine' = [engine EXCEPT !.at = "select"]
        /\ job' = [job EXCEPT !.state = "running", !.outputType = OutputType(chain'),
                              !.sortMode = SortMode(chain'), !.columnOrder = ColumnOrder(chain')]
    BY <1>5 DEF StartRunning
  <2>2. job'.results = job.results /\ job'.rows = job.rows /\ engine'.at = "select"
    BY <1>2, <2>1 DEF JobIs, EngineIs
  <2>3. ASSUME NEW i \in DOMAIN chain'
        PROVE  steps'[i].at # "send" /\ steps'[i].out = NoResult /\ pipes'[i].buffer = << >>
    BY <2>1
  <2>4. chain' # << >>
    <3>1. Shape'
      BY StartShape
    <3>2. QED
      BY <2>2, <3>1 DEF Shape
  <2>5. QED
    BY <1>1, <1>2, <2>2, <2>3, <2>4
<1>6. QED
  BY <1>1, <1>3, <1>4, <1>5

LEMMA StartResults ==
  ASSUME KInv, Shape, Results, StartJob
  PROVE  Results'
<1>1. /\ UNCHANGED << stream, delivered >> /\ stream.at = "off" /\ engine.at = "off" /\ chain = << >>
      /\ job'.results = job.results /\ job'.rows = job.rows
      /\ \/ chain' = << >> /\ engine' = engine /\ UNCHANGED << steps, pipes >>
         \/ /\ engine'.at = "select"
            /\ \A i \in DOMAIN chain' :
                 steps'[i].at # "send" /\ steps'[i].out = NoResult /\ pipes'[i].buffer = << >>
  BY StartsIs
<1>2. DOMAIN << >> = {}
  OBVIOUS
<1>3. \A i \in DOMAIN chain' : Sent(May', steps'[i], pipes'[i])
  BY <1>1, <1>2 DEF Sent
<1>4. engine'.at \notin {"add", "stats"}
  BY <1>1
<1>5. IsStamped(job'.results) /\ IsList(job'.rows)
  BY <1>1 DEF Results
<1>6. QED
  BY <1>1, <1>3, <1>4, <1>5 DEF Results

LEMMA InitResults == JobInit => Results
<1> SUFFICES ASSUME JobInit PROVE Results
  OBVIOUS
<1>1. DOMAIN << >> = {} /\ IsList(<< >>)
  BY EmptyBuffer
<1>2. IsStamped(<< >>)
  BY <1>1 DEF IsStamped
<1>3. stream.at = "off" /\ chain = << >> /\ engine.at = "off" /\ job.results = << >> /\ job.rows = << >>
      /\ delivered = << >>
  BY DEF JobInit
<1>4. QED
  BY <1>1, <1>2, <1>3 DEF Results

LEMMA StepResults ==
  ASSUME Shape, Results, NEW i \in DOMAIN chain, InputEnds(i)
  PROVE  Results'
<1>1. UNCHANGED << Stored, chain, engine, job, delivered >>
  BY DEF InputEnds, StepsOnly
<1>2. stream'.at = "send" => stream' = stream
  BY DEF InputEnds
<1>3. Ends(i)
  BY DEF InputEnds
<1>4. QED
  BY <1>1, <1>2, <1>3, EndsResults

LEMMA NextResults == KInv /\ Shape /\ EventsPlaced /\ Results /\ [Next]_allVars => Results'
<1> SUFFICES ASSUME KInv, Shape, EventsPlaced, Results, [Next]_allVars PROVE Results'
  OBVIOUS
<1>1. CASE UNCHANGED jobVars
  <2>1. UNCHANGED load
    BY <1>1, NextLoad
  <2>2. May' = May
    BY <1>1, <2>1 DEF May, Lost, Possible, Written, jobVars
  <2>3. QED
    BY <1>1, <2>2 DEF Results, jobVars
<1>2. CASE Abort
  BY <1>2, MayStays DEF Results, Abort
<1>3. CASE StartJob
  BY <1>3, StartResults
<1>4. CASE Goroutines
  BY <1>4, StreamResults, SearchStepResults, ReceivesResults, StepResults, SendsResults, TakeResults,
     EngineResults DEF Goroutines
<1>5. QED
  BY <1>1, <1>2, <1>3, <1>4 DEF Next, allVars

-----------------------------------------------------------------------------
(* What stops the process                                                  *)

\* Unless a word is cut, a query is made of what is typed.
LEMMA AtomsAreTyped == Ill \/ Atoms = Input
<1> SUFFICES ASSUME NEW x \in Input, Quote \in Input, CutWord(x) \notin Input
             PROVE  Ill
  BY DEF Atoms
<1>1. x \in DOMAIN Cut
  BY CutOnce
<1>2. QED
  BY <1>1 DEF Ill

LEMMA AtomIsTyped ==
  ASSUME NEW a \in Atoms, a \in Invalid \cup {"!"}
  PROVE  Ill
BY AtomsAreTyped DEF Ill

LEMMA FragIsIll ==
  ASSUME NEW frags \in SUBSET Seq(Atoms), AnyNil(frags)
  PROVE  Ill
<1>1. PICK frag \in frags : compileFrag(frag) = {}
  BY DEF AnyNil
<1>2. frag \in Seq(Atoms)
  BY <1>1
<1>3. \E i \in DOMAIN frag : frag[i] \in Invalid
  BY <1>1 DEF compileFrag
<1>4. PICK i \in DOMAIN frag : frag[i] \in Invalid
  BY <1>3
<1>5. frag[i] \in Atoms
  BY <1>2
<1>6. QED
  BY <1>4, <1>5, AtomIsTyped

LEMMA MapIs ==
  ASSUME NEW A, NEW map \in FieldMaps(A), NEW k \in DOMAIN map
  PROVE  map[k] \in SUBSET Seq(A)
<1>1. PICK K \in SUBSET Keys(A) : map \in [K -> SUBSET Seq(A)]
  BY DEF FieldMaps
<1>2. QED
  BY <1>1

\* A search that panics has a value that is no regular expression.
LEMMA PanicIsIll ==
  ASSUME NEW s \in Searches(Atoms), NEW page, SearchPanics(s, page)
  PROVE  Ill
<1>1. s.Fields \in FieldMaps(Atoms) /\ s.NotFields \in FieldMaps(Atoms)
  BY DEF Searches
<1>2. PICK i \in DOMAIN page : "panic" \in shouldIncludeEvent(s, page[i])
  BY DEF SearchPanics
<1> DEFINE fields == ExtractFields(page[i])
<1>3. "panic" \in FieldsOutcomes(s, fields) \cup NotFieldsOutcomes(s, fields)
  BY <1>2 DEF shouldIncludeEvent
<1> HIDE DEF fields
<1>4. \/ \E k \in DOMAIN s.Fields : AnyNil(s.Fields[k])
      \/ \E k \in DOMAIN s.NotFields : AnyNil(s.NotFields[k])
  BY <1>3 DEF FieldsOutcomes, NotFieldsOutcomes
<1>5. ASSUME NEW k \in DOMAIN s.Fields, AnyNil(s.Fields[k]) PROVE Ill
  BY <1>1, <1>5, MapIs, FragIsIll
<1>6. ASSUME NEW k \in DOMAIN s.NotFields, AnyNil(s.NotFields[k]) PROVE Ill
  BY <1>1, <1>6, MapIs, FragIsIll
<1>7. QED
  BY <1>4, <1>5, <1>6

\* A surrounding step has room for its events, or an ill count.
LEMMA RoomOrIll ==
  ASSUME NEW count, CountFrom(Atoms, count), ~HasRoom(count)
  PROVE  Ill
<1> SUFFICES ASSUME ~Ill PROVE FALSE
  OBVIOUS
<1>1. Atoms = Input
  BY AtomsAreTyped
<1>2. 100 \div 2 = 50 /\ ~(100 < 0)
  OBVIOUS
<1>3. HasRoom(100)
  BY <1>2, SearchJobsAssumption DEF HasRoom, Half
<1>4. count # 100
  BY <1>3
<1>5. "surrounding" \in Input /\ count \in Integers /\ ToString(count) \in Input
  BY <1>1, <1>4 DEF CountFrom
<1>6. QED
  BY <1>5 DEF Ill

LEMMA OneWord == \A w : \A j \in DOMAIN << w >> : << w >>[j] = w
OBVIOUS

\* In an empty event rex sees at most the word without letters.
LEMMA BlankHas ==
  ASSUME NEW rex, NEW field, NEW e, Blank(e), DOMAIN Found(rex, RexText(field, e)) # {}
  PROVE  "" \in DOMAIN rex.finds
<1> DEFINE text == RexText(field, e)
<1>1. text = << "" >> \/ text = << >>
  BY DEF RexText, Looked, Blank
<1>2. DOMAIN Found(rex, text) = UNION { DOMAIN rex.finds[w] : w \in Range(text) \cap DOMAIN rex.finds }
  BY DEF Found
<1> HIDE DEF text
<1>3. PICK w \in Range(text) : w \in DOMAIN rex.finds
  BY <1>2 DEF text
<1>4. w = ""
  <2>1. PICK k \in DOMAIN text : w = text[k]
    BY <1>3 DEF Range
  <2>2. CASE text = << "" >>
    <3>1. \A j \in DOMAIN << "" >> : << "" >>[j] = ""
      BY OneWord
    <3>2. QED
      BY <2>1, <2>2, <3>1
  <2>3. CASE text = << >>
    <3>1. DOMAIN << >> = {}
      OBVIOUS
    <3>2. QED
      BY <2>1, <2>3, <3>1
  <2>4. QED
    BY <1>1, <2>2, <2>3
<1>5. QED
  BY <1>3, <1>4

LEMMA RexIsIll ==
  ASSUME Shape, NEW i \in DOMAIN chain, i \in 2 .. Len(chain), chain[i].name = "rex",
         NEW r, IsResult(May, r), RexPanics(chain[i], r)
  PROVE  Ill
<1> SUFFICES ASSUME ~Ill PROVE FALSE
  OBVIOUS
<1>1. Atoms = Input /\ IsChain(Atoms, chain)
  BY AtomsAreTyped, ChainIs
<1>2. RexFor(Input, chain[i].rex)
  BY <1>1 DEF IsChain
<1>3. PICK value \in DOMAIN Rex : value \in Seq(Input) /\ chain[i].rex = Rex[value]
  BY <1>2 DEF RexFor
<1>4. Range(value) \subseteq Input
  BY <1>3 DEF Range
<1>5. PICK k \in DOMAIN r.events :
        \/ chain[i].rex.malformed
        \/ /\ r.events[k].id = NoEvent.id
           /\ DOMAIN Found(chain[i].rex, RexText(chain[i].field, r.events[k])) # {}
  BY DEF RexPanics
<1>6. CASE chain[i].rex.malformed
  BY <1>3, <1>4, <1>6 DEF Ill
<1>7. CASE /\ r.events[k].id = NoEvent.id
           /\ DOMAIN Found(chain[i].rex, RexText(chain[i].field, r.events[k])) # {}
  <2>1. 0 \in May /\ Blank(r.events[k])
    BY <1>7 DEF IsResult, IsTimed, IsSeen, NoEvent
  <2>2. chain[1].name = "surrounding" /\ \E e \in Possible : e.source \notin Configured
    BY <2>1 DEF May, Lost
  <2>3. "surrounding" \in Input
    BY <1>1, <2>2 DEF IsChain, CountFrom
  <2>4. "" \in DOMAIN chain[i].rex.finds
    BY <1>7, <2>1, BlankHas
  <2>5. QED
    BY <1>3, <1>4, <2>2, <2>3, <2>4 DEF Ill
<1>8. QED
  BY <1>5, <1>6, <1>7

\* The goroutines stop the process where a text is ill.
LEMMA JobWorks ==
  ASSUME KInv, Shape, Results, StartJob \/ Abort \/ Goroutines
  PROVE  Works \/ Fails \/ (UNCHANGED faults /\ crash' \in {"memory", "pattern"} /\ Ill)
<1>1. CASE StartJob
  <2> DEFINE compiled == Compile(load.text, load.times)
  <2>1. StartEndless(compiled) \/ StartRefused(compiled) \/ StartRunning(compiled)
    BY <1>1 DEF StartJob
  <2>2. load \in Workloads
    BY DEF KInv, IInv
  <2>3. \/ compiled.res = "endless" /\ "!" \in Atoms
        \/ compiled.res = "error"
        \/ compiled.res = "ok" /\ IsChain(Atoms, compiled.steps)
    BY <2>2, TextIsOfAtoms, CompileIs
  <2> HIDE DEF compiled
  <2>4. CASE StartEndless(compiled)
    BY <2>3, <2>4, AtomIsTyped DEF StartEndless
  <2>5. CASE StartRefused(compiled) \/ StartRunning(compiled)
    BY <2>5 DEF StartRefused, StartRunning
  <2>6. QED
    BY <2>1, <2>4, <2>5
<1>2. CASE Abort \/ OpenStream \/ QueryPage \/ StartSearch \/ SearchEnds
  <2>1. CASE QueryPage
    BY <2>1, Zenon DEF QueryPage
  <2>2. QED
    BY <1>2, <2>1, Zenon DEF Abort, OpenStream, StartSearch, SearchEnds
<1>3. CASE SearchPage
  <2>1. \/ Works
        \/ SearchPanics(chain[1].search, stream.page) /\ crash' = "pattern" /\ UNCHANGED faults
    BY <1>3 DEF SearchPage
  <2>2. chain[1].name = "search" /\ steps # << >>
    BY <1>3 DEF SearchPage
  <2>3. chain[1].search \in Searches(Atoms)
    BY <2>2, FirstStep, ChainIs DEF IsChain
  <2>4. QED
    BY <2>1, <2>3, PanicIsIll
<1>4. ASSUME NEW i \in DOMAIN chain, Receives(i)
      PROVE  Works \/ (UNCHANGED faults /\ crash' = "pattern" /\ Ill)
  <2>1. \/ Works
        \/ /\ i > 1 /\ chain[i].name = "rex" /\ RexPanics(chain[i], Head(pipes[i - 1].buffer))
           /\ crash' = "pattern" /\ UNCHANGED faults
    BY <1>4 DEF Receives
  <2>2. CASE i > 1 /\ chain[i].name = "rex" /\ RexPanics(chain[i], Head(pipes[i - 1].buffer))
    <3>1. chain # << >>
      OBVIOUS
    <3>2. i \in 2 .. Len(chain)
      BY <2>2, <3>1, ChainIs
    <3>3. IsResult(May, Head(pipes[i - 1].buffer))
      BY <1>4, ReceivesIs
    <3>4. QED
      BY <2>1, <2>2, <3>2, <3>3, RexIsIll
  <2>3. QED
    BY <2>1, <2>2
<1>5. ASSUME NEW i \in DOMAIN chain, InputEnds(i) \/ Sends(i)
      PROVE  Works
  BY <1>5 DEF InputEnds, Sends
<1>6. CASE TakeResult \/ AddResults \/ AddFieldStats \/ SeeClosed \/ SeeCancelled
  BY <1>6, Zenon DEF TakeResult, AddResults, AddFieldStats, SeeClosed, SeeCancelled
<1>7. CASE UpdateState
  BY <1>7 DEF UpdateState
<1>8. CASE StartSurrounding
  <2>1. \/ Works \/ Fails
        \/ ~HasRoom(chain[1].count) /\ crash' = "memory" /\ UNCHANGED faults
    BY <1>8, Zenon DEF StartSurrounding
  <2>2. chain[1].name = "surrounding" /\ steps # << >>
    BY <1>8 DEF StartSurrounding
  <2>3. CountFrom(Atoms, chain[1].count)
    BY <2>2, FirstStep, ChainIs DEF IsChain
  <2>4. QED
    BY <2>1, <2>3, RoomOrIll
<1>9. QED
  BY <1>1, <1>2, <1>3, <1>4, <1>5, <1>6, <1>7, <1>8 DEF Goroutines

LEMMA NextStops == KInv /\ Shape /\ Results /\ Stops /\ [Next]_allVars => Stops'
<1> SUFFICES ASSUME KInv, Shape, Results, Stops, [Next]_allVars PROVE Stops'
  OBVIOUS
<1>1. UNCHANGED load
  BY NextLoad
<1>2. Works \/ Fails \/ (UNCHANGED faults /\ crash' \in {"memory", "pattern"} /\ Ill)
  BY WriteWorks, JobWorks DEF Next, allVars, store, Works
<1>3. Input' = Input /\ Possible' = Possible
  BY <1>1 DEF Input, Possible, Written
<1>4. Ill' <=> Ill
  BY <1>3 DEF Ill
<1>5. load.faults \in Nat
  BY PgEventsAssumption DEF KInv, IInv
<1>6. QED
  BY <1>1, <1>2, <1>4, <1>5 DEF Stops, Works, Fails

LEMMA InitStops == JobInit => Stops
<1> SUFFICES ASSUME JobInit PROVE Stops
  OBVIOUS
<1>1. faults = 0 /\ crash = "no" /\ load.faults \in Nat
  BY PgEventsAssumption DEF JobInit, Init
<1>2. QED
  BY <1>1 DEF Stops

LEMMA Typed == KInv /\ Shape /\ WritersAt /\ Stops => TypeOK
<1> SUFFICES ASSUME KInv, Shape, WritersAt, Stops PROVE TypeOK
  OBVIOUS
<1>1. seq \in Nat /\ DOMAIN Events \cup DOMAIN EventRaws \subseteq 1 .. seq
  BY DEF KInv, IInv, Aligned, FreshIds
<1>2. ASSUME NEW w \in Writers
      PROVE  /\ writer[w].at \in {"idle", "insert", "conflict", "raw", "delete", "deleteRaws", "commit"}
             /\ writer[w].reply \in {"none", "ok", "error"}
             /\ writer[w].pos \in 1 .. Len(writer[w].batch) + 1
             /\ DOMAIN writer[w].events \cap DOMAIN Events = {}
  BY DEF KInv, FreshIds, Own, WritersAt, WriterAt
<1>3. Len(adder) <= AdderSize /\ Len(writer[Publisher].batch) <= BatchSize
  BY DEF WritersAt, WriterAt, Writers
<1>4. faults \in 0 .. load.faults /\ crash \in {"no", "memory", "pattern"}
  BY DEF Stops
<1>5. stream.at \in {"off", "max", "query", "send", "end"} /\ Len(stream.page) <= PageSize
  BY DEF Shape, StreamIs
<1>6. DOMAIN steps = DOMAIN chain /\ DOMAIN pipes = DOMAIN chain
  BY DEF Shape
<1>7. ASSUME NEW i \in DOMAIN chain
      PROVE  /\ steps[i].at \in {"start", "select", "send", "end"}
             /\ steps[i].at = "start" => i = 1
             /\ pipes[i].closed <=> steps[i].at = "end"
             /\ Len(pipes[i].buffer) <= PipeBufferSize
  BY DEF Shape, Goroutine
<1>8. engine.at \in {"off", "select", "add", "stats", "write", "end"}
      /\ job.state \in {"none", "refused", "running", "finished", "aborted"}
  BY DEF Shape, EngineIs, JobIs
<1>9. QED
  BY <1>1, <1>2, <1>3, <1>4, <1>5, <1>6, <1>7, <1>8 DEF TypeOK

LEMMA Stopped == Stops => StopsOnlyOnIllQuery
BY DEF Stops, Ill, Input, Up, StopsOnlyOnIllQuery, RexTyped

-----------------------------------------------------------------------------
(* Events go from the stream to the job in line, the newest in front: lane *)
(* 0 is the page that is sent, lane i the channel of step i with what step *)
(* i has to send behind it, then comes what the goroutine of the job adds, *)
(* and then what the job has.                                              *)

\* The place g of an event after the first of lane n has gone to place p of the next.
Came(F, g, n, p) ==
  \/ g \in F /\ g[1] # n
  \/ g[1] = n /\ << n, g[2] + 1, g[3] >> \in F
  \/ g[1] = n + 1 /\ g[2] = p /\ << n, 1, g[3] >> \in F

LEMMA InLineMoves ==
  ASSUME NEW F \in SUBSET Places, NEW G \in SUBSET Places, InLine(F), NEW n \in Nat, NEW p \in Nat,
         \A f \in F : f[1] = n + 1 => f[2] <= p,
         \A g \in G : Came(F, g, n, p)
  PROVE  InLine(G) /\ \A g \in G : \E f \in F : f[3] = g[3]
<1>1. \A g \in G : g[1] \in Nat /\ g[2] \in Nat \ {0} /\ g[3] \in Nat
  BY DEF Places
<1>2. \A f \in F : f[1] \in Nat /\ f[2] \in Nat \ {0} /\ f[3] \in Nat
  BY DEF Places
<1>3. ASSUME NEW g \in G PROVE \E f \in F : f[3] = g[3]
  BY DEF Came
<1>4. ASSUME NEW f \in G, NEW g \in G, f[1] < g[1] \/ (f[1] = g[1] /\ g[2] < f[2])
      PROVE  f[3] < g[3]
  <2>1. PICK v \in F : /\ v[3] = f[3]
                       /\ \/ v[1] = f[1] /\ v[2] = f[2] /\ f[1] # n
                          \/ f[1] = n /\ v[1] = n /\ v[2] = f[2] + 1
                          \/ f[1] = n + 1 /\ f[2] = p /\ v[1] = n /\ v[2] = 1
    BY DEF Came
  <2>2. PICK w \in F : /\ w[3] = g[3]
                       /\ \/ w[1] = g[1] /\ w[2] = g[2] /\ g[1] # n
                          \/ g[1] = n /\ w[1] = n /\ w[2] = g[2] + 1
                          \/ g[1] = n + 1 /\ g[2] = p /\ w[1] = n /\ w[2] = 1
    BY DEF Came
  <2>3. v[1] < w[1] \/ (v[1] = w[1] /\ w[2] < v[2])
    BY <1>1, <1>2, <1>4, <2>1, <2>2
  <2>4. QED
    BY <2>1, <2>2, <2>3 DEF InLine
<1>5. InLine(G)
  BY <1>4 DEF InLine
<1>6. QED
  BY <1>3, <1>5

\* One event or batch goes a lane further.
LEMMA FlowMoves ==
  ASSUME Flow, chain # << >>, UNCHANGED chain, stream'.last = stream.last,
         stream'.at = "off" <=> stream.at = "off",
         steps'[1].at = "start" => steps[1].at = "start",
         NEW n \in Nat, NEW p \in Nat,
         \A f \in Flight : f[1] = n + 1 => f[2] <= p,
         \A g \in Flight' : Came(Flight, g, n, p)
  PROVE  Flow'
<1> DEFINE F == Flight
           G == Flight'
<1>1. F \in SUBSET Places /\ G \in SUBSET Places /\ InLine(F)
  BY DEF Flight, Flow
<1>2. InLine(G) /\ \A g \in G : \E f \in F : f[3] = g[3]
  <2>1. \A f \in F : f[1] = n + 1 => f[2] <= p
    OBVIOUS
  <2>2. \A g \in G : Came(F, g, n, p)
    OBVIOUS
  <2> HIDE DEF F, G
  <2>3. QED
    BY <1>1, <2>1, <2>2, InLineMoves
<1>3. \A t \in stream'.last : Wall(t) \in Nat /\ \A f \in G : Wall(t) <= f[3]
  <2>1. \A t \in stream'.last : Wall(t) \in Nat /\ \A f \in F : Wall(t) <= f[3]
    BY DEF Flow
  <2> HIDE DEF F, G
  <2>2. QED
    BY <1>2, <2>1
<1>4. F = {} => G = {}
  BY <1>2
<1>5. QED
  BY <1>2, <1>3, <1>4 DEF Flow

\* Nothing new, and nothing has moved.
LEMMA FlowStays ==
  ASSUME Flow, chain # << >>, UNCHANGED chain, stream'.last = stream.last,
         stream'.at = "off" <=> stream.at = "off",
         steps'[1].at = "start" => steps[1].at = "start",
         Flight' \subseteq Flight
  PROVE  Flow'
<1>1. InLine(Flight')
  BY DEF Flow, InLine
<1>2. \A t \in stream'.last : Wall(t) \in Nat /\ \A f \in Flight' : Wall(t) <= f[3]
  BY DEF Flow
<1>3. Flight = {} => Flight' = {}
  OBVIOUS
<1>4. QED
  BY <1>1, <1>2, <1>3 DEF Flow

LEMMA FlightIs ==
  ASSUME NEW k \in Nat, NEW a \in Nat \ {0}, NEW t \in Nat, Has(k, a, t)
  PROVE  << k, a, t >> \in Flight
BY DEF Flight, Places

LEMMA TailHas ==
  ASSUME NEW s, NEW p, NEW q, IsList(p.buffer), p.buffer # << >>, q.buffer = Tail(p.buffer),
         NEW a, NEW t, LaneHas(s, q, a, t)
  PROVE  LaneHas(s, p, a + 1, t)
<1> DEFINE b == p.buffer
<1>1. Len(b) \in Nat \ {0} /\ \A i \in DOMAIN Tail(b) : i + 1 \in DOMAIN b /\ Tail(b)[i] = b[i + 1]
  BY HeadIs
<1>2. Len(Tail(b)) = Len(b) - 1
  BY TailIsList
<1> HIDE DEF b
<1>3. CASE a \in DOMAIN Tail(b) /\ t \in WallsIn(Tail(b)[a].events)
  BY <1>1, <1>3 DEF LaneHas, b
<1>4. CASE a = Len(Tail(b)) + 1 /\ s.at = "send" /\ t \in WallsIn(s.out.events)
  <2>1. a + 1 = Len(b) + 1
    BY <1>1, <1>2, <1>4
  <2>2. QED
    BY <1>4, <2>1 DEF LaneHas, b
<1>5. QED
  BY <1>3, <1>4 DEF LaneHas, b

LEMMA AppendHas ==
  ASSUME NEW s, NEW r, NEW p, NEW q, IsList(p.buffer), q.buffer = Append(p.buffer, s.out),
         s.at = "send", r.at # "send", NEW a, NEW t, LaneHas(r, q, a, t)
  PROVE  LaneHas(s, p, a, t)
<1> DEFINE b == p.buffer
           c == Append(b, s.out)
<1>1. Len(b) \in Nat /\ DOMAIN b = 1 .. Len(b) /\ DOMAIN c = 1 .. Len(b) + 1
      /\ c[Len(b) + 1] = s.out /\ \A i \in 1 .. Len(b) : c[i] = b[i]
  BY AppendIsList, ListIsList
<1>2. a \in DOMAIN c /\ t \in WallsIn(c[a].events)
  BY DEF LaneHas
<1> HIDE DEF b, c
<1>3. CASE a = Len(b) + 1
  BY <1>1, <1>2, <1>3 DEF LaneHas, b
<1>4. CASE a \in 1 .. Len(b)
  BY <1>1, <1>2, <1>4 DEF LaneHas, b
<1>5. QED
  BY <1>1, <1>2, <1>3, <1>4

LEMMA LaneIs ==
  ASSUME NEW s, NEW p, IsList(p.buffer), NEW a, NEW t, LaneHas(s, p, a, t)
  PROVE  a \in Nat \ {0} /\ a <= Len(p.buffer) + 1 /\ (s.at # "send" => a <= Len(p.buffer))
<1>1. Len(p.buffer) \in Nat /\ DOMAIN p.buffer = 1 .. Len(p.buffer)
  BY ListIsList
<1>2. QED
  BY <1>1 DEF LaneHas

\* Steps only start once, and all that moves leaves the rest as it is.
LEMMA FlightHas ==
  ASSUME NEW f \in Flight
  PROVE  /\ f[1] \in Nat /\ f[2] \in Nat \ {0} /\ f[3] \in Nat /\ f = << f[1], f[2], f[3] >>
         /\ Has(f[1], f[2], f[3])
BY DEF Flight, Places

LEMMA LanesApart ==
  ASSUME Shape, chain # << >>
  PROVE  Len(chain) \in Nat \ {0} /\ DOMAIN chain = 1 .. Len(chain)
BY ChainIs

\* Where the next state has an event: what has not changed is where it was.
LEMMA FlightNext ==
  ASSUME Shape, Shape', UNCHANGED chain, NEW g \in Flight'
  PROVE  /\ g[1] \in Nat /\ g[2] \in Nat \ {0} /\ g[3] \in Nat /\ g = << g[1], g[2], g[3] >>
         /\ \/ g[1] = 0 /\ g[2] = 1 /\ stream'.at = "send" /\ g[3] \in WallsIn(stream'.page)
            \/ g[1] \in DOMAIN chain /\ LaneHas(steps'[g[1]], pipes'[g[1]], g[2], g[3])
            \/ g[1] = Len(chain) + 1 /\ g[2] = 1 /\ engine'.at = "add" /\ g[3] \in WallsIn(engine'.result.events)
            \/ g[1] = Len(chain) + 2 /\ g[2] = 1 /\ g[3] \in TimesIn(job'.results)
<1>1. g \in Places /\ Has(g[1], g[2], g[3])'
  BY DEF Flight
<1>2. g[1] \in Nat /\ g[2] \in Nat \ {0} /\ g[3] \in Nat /\ g = << g[1], g[2], g[3] >>
  BY <1>1 DEF Places
<1>3. \/ g[1] = 0 /\ g[2] = 1 /\ stream'.at = "send" /\ g[3] \in WallsIn(stream'.page)
      \/ g[1] \in DOMAIN chain /\ LaneHas(steps'[g[1]], pipes'[g[1]], g[2], g[3])
      \/ g[1] = Len(chain) + 1 /\ g[2] = 1 /\ engine'.at = "add" /\ g[3] \in WallsIn(engine'.result.events)
      \/ g[1] = Len(chain) + 2 /\ g[2] = 1 /\ g[3] \in TimesIn(job'.results)
  BY <1>1 DEF Has
<1>4. QED
  BY <1>2, <1>3

\* All but the lanes of the steps are as they were, and what a lane has, it had.
LEMMA LanesStay ==
  ASSUME Shape, Shape', Flow, chain # << >>, UNCHANGED << chain, engine, job >>,
         stream'.last = stream.last, stream'.at = "off" <=> stream.at = "off",
         stream'.at = "send" => stream' = stream,
         steps'[1].at = "start" => steps[1].at = "start",
         \A j \in DOMAIN chain : \A a, t : LaneHas(steps'[j], pipes'[j], a, t) => LaneHas(steps[j], pipes[j], a, t)
  PROVE  Flow'
<1>1. ASSUME NEW g \in Flight' PROVE g \in Flight
  <2>1. /\ g[1] \in Nat /\ g[2] \in Nat \ {0} /\ g[3] \in Nat /\ g = << g[1], g[2], g[3] >>
        /\ \/ g[1] = 0 /\ g[2] = 1 /\ stream'.at = "send" /\ g[3] \in WallsIn(stream'.page)
           \/ g[1] \in DOMAIN chain /\ LaneHas(steps'[g[1]], pipes'[g[1]], g[2], g[3])
           \/ g[1] = Len(chain) + 1 /\ g[2] = 1 /\ engine'.at = "add" /\ g[3] \in WallsIn(engine'.result.events)
           \/ g[1] = Len(chain) + 2 /\ g[2] = 1 /\ g[3] \in TimesIn(job'.results)
    BY FlightNext
  <2>2. Has(g[1], g[2], g[3])
    BY <2>1 DEF Has
  <2>3. << g[1], g[2], g[3] >> \in Flight
    BY <2>1, <2>2, FlightIs
  <2>4. QED
    BY <2>1, <2>3
<1>2. QED
  BY <1>1, FlowStays

LEMMA SameLane ==
  ASSUME NEW s, NEW p, NEW q, q.buffer = p.buffer, NEW a, NEW t
  PROVE  LaneHas(s, p, a, t) <=> LaneHas(s, q, a, t)
BY DEF LaneHas

\* A step that is not about to send any more.
LEMMA LessLane ==
  ASSUME NEW s, NEW r, NEW p, NEW q, q.buffer = p.buffer, r.at # "send", NEW a, NEW t, LaneHas(r, q, a, t)
  PROVE  LaneHas(s, p, a, t)
BY DEF LaneHas

LEMMA StreamLast ==
  ASSUME Shape, OpenStream \/ SearchPage
  PROVE  /\ stream'.last = stream.last /\ stream'.page = stream.page
         /\ stream'.at = "off" <=> stream.at = "off"
         /\ stream'.at = "send" => stream' = stream
<1>1. StreamIs(stream)
  BY SMTT(30) DEF Shape
<1>2. \/ UNCHANGED stream
      \/ /\ stream.at # "off"
         /\ \E maxId : \E at \in {"end", "query"} : stream' = [stream EXCEPT !.at = at, !.maxId = maxId]
      \/ stream.at # "off" /\ \E at \in {"end", "query"} : stream' = [stream EXCEPT !.at = at]
  BY DEF OpenStream, SearchPage
<1>3. QED
  BY <1>1, <1>2 DEF StreamIs

LEMMA EndsFlow ==
  ASSUME Shape, Shape', Flow, NEW i \in DOMAIN chain, Ends(i), UNCHANGED << chain, stream, engine, job >>
  PROVE  Flow'
<1>1. /\ steps'[i].at = "end"
      /\ \A j \in DOMAIN chain : j # i => steps'[j] = steps[j]
      /\ \A j \in DOMAIN chain : pipes'[j].buffer = pipes[j].buffer
  BY EndsIs
<1>2. ASSUME NEW j \in DOMAIN chain, NEW a, NEW t, LaneHas(steps'[j], pipes'[j], a, t)
      PROVE  LaneHas(steps[j], pipes[j], a, t)
  <2>1. CASE j = i
    BY <1>1, <1>2, <2>1, LessLane
  <2>2. CASE j # i
    BY <1>1, <1>2, <2>2, SameLane
  <2>3. QED
    BY <2>1, <2>2
<1>3. chain # << >> /\ 1 \in DOMAIN chain
  <2>1. chain # << >>
    OBVIOUS
  <2>2. QED
    BY <2>1, LanesApart
<1>4. steps'[1].at = "start" => steps[1].at = "start"
  BY <1>1, <1>3
<1>5. /\ UNCHANGED << chain, engine, job >>
      /\ stream'.last = stream.last /\ stream' = stream /\ (stream'.at = "off" <=> stream.at = "off")
  OBVIOUS
<1>6. QED
  BY <1>2, <1>3, <1>4, <1>5, LanesStay

LEMMA SendsFlow ==
  ASSUME Shape, Shape', Flow, NEW i \in DOMAIN chain, Sends(i)
  PROVE  Flow'
<1>1. /\ steps[i].at = "send" /\ steps'[i].at # "send"
      /\ IsList(pipes[i].buffer) /\ pipes'[i].buffer = Append(pipes[i].buffer, steps[i].out)
      /\ \A j \in DOMAIN chain : j # i => steps'[j] = steps[j] /\ pipes'[j] = pipes[j]
  BY SendsIs
<1>2. ASSUME NEW j \in DOMAIN chain, NEW a, NEW t, LaneHas(steps'[j], pipes'[j], a, t)
      PROVE  LaneHas(steps[j], pipes[j], a, t)
  <2>1. CASE j = i
    BY <1>1, <1>2, <2>1, AppendHas
  <2>2. CASE j # i
    BY <1>1, <1>2, <2>2
  <2>3. QED
    BY <2>1, <2>2
<1>3. chain # << >> /\ 1 \in DOMAIN chain
  <2>1. chain # << >>
    OBVIOUS
  <2>2. QED
    BY <2>1, LanesApart
<1>4. steps'[1].at = "start" => steps[1].at = "start"
  <2>1. steps' = [steps EXCEPT ![i].at = IF chain[i].name = "surrounding" THEN "end" ELSE "select",
                               ![i].out = NoResult]
    BY DEF Sends
  <2>2. DOMAIN steps = DOMAIN chain /\ Goroutine(i, steps[i], pipes[i])
    BY DEF Shape
  <2>3. steps'[i].at # "start"
    BY <2>1, <2>2 DEF Goroutine
  <2>4. QED
    BY <1>1, <1>3, <2>3
<1>5. UNCHANGED << chain, stream, engine, job >>
  BY DEF Sends, StepsOnly
<1>6. /\ UNCHANGED << chain, engine, job >>
      /\ stream'.last = stream.last /\ stream' = stream /\ (stream'.at = "off" <=> stream.at = "off")
  BY <1>5
<1>7. QED
  BY <1>2, <1>3, <1>4, <1>6, LanesStay

LEMMA InputEndsFlow ==
  ASSUME Shape, Shape', Flow, NEW i \in DOMAIN chain, InputEnds(i)
  PROVE  Flow'
<1>1. Ends(i) /\ UNCHANGED << chain, stream, engine, job >>
  BY DEF InputEnds, StepsOnly
<1>2. QED
  BY <1>1, EndsFlow

\* The stream goes on, but has sent nothing.
LEMMA SilentFlow ==
  ASSUME Shape, Shape', Flow, chain # << >>, UNCHANGED << chain, steps, pipes, engine, job >>,
         stream'.last = stream.last, stream'.at = "off" <=> stream.at = "off", stream'.at = "send" => stream' = stream
  PROVE  Flow'
<1>1. \A j \in DOMAIN chain : \A a, t : LaneHas(steps'[j], pipes'[j], a, t) => LaneHas(steps[j], pipes[j], a, t)
  OBVIOUS
<1>2. steps'[1].at = "start" => steps[1].at = "start"
  OBVIOUS
<1>3. UNCHANGED << chain, engine, job >>
  OBVIOUS
<1>4. QED
  BY <1>1, <1>2, <1>3, LanesStay

\* A page is older than all that is in line.
LEMMA PageFlow ==
  ASSUME ClocksGoOn, EventsPlaced, ReadTimes, Shape, Shape', Flow, chain # << >>,
         UNCHANGED << chain, steps, pipes, engine, job >>,
         stream.at = "query", NEW ids, OfPage(stream.last, ids), HasRead(ids)
  PROVE  Flow'
<1> DEFINE e == Events[ids[Len(ids)]].time
<1>1. /\ IsTimed({}, Rows(ids)) /\ DOMAIN Rows(ids) = DOMAIN ids
      /\ \A i \in DOMAIN ids : ids[i] \in DOMAIN Events /\ Rows(ids)[i].time = Events[ids[i]].time
      /\ \A i \in DOMAIN ids, t \in stream.last : Rows(ids)[i].time < t
      /\ ids # << >> => Len(ids) \in DOMAIN ids /\ \A i \in DOMAIN ids : e <= Rows(ids)[i].time
  BY DEF OfPage
<1>2. /\ stream'.at = "send" /\ stream'.page = Rows(ids)
      /\ stream'.last = IF ids = << >> THEN stream.last ELSE {e}
  BY DEF Shape, StreamIs, HasRead
<1>3. ids = << >> => DOMAIN ids = {}
  OBVIOUS
<1>4. WallsIn(Rows(ids)) \in SUBSET Nat
  BY <1>1 DEF WallsIn, IsTimed, IsSeen
\* What is earlier is shown to be by the clocks.
<1>5. \A c, d \in Possible : c.time < d.time => Wall(c.time) < Wall(d.time)
  BY DEF ClocksGoOn
<1>6. \A i \in DOMAIN ids : /\ Events[ids[i]] \in Possible /\ Events[ids[i]].time \in Nat
                            /\ Wall(Events[ids[i]].time) \in Nat
  BY <1>1 DEF EventsPlaced, AllPlaced, IsPlaced
<1>7. ASSUME ids # << >>
      PROVE  Wall(e) \in Nat /\ \A u \in stream.last : Wall(e) < Wall(u)
  BY <1>1, <1>5, <1>6, <1>7 DEF ReadTimes
<1>8. ASSUME NEW w \in WallsIn(Rows(ids))
      PROVE  ids # << >> /\ Wall(e) <= w /\ \A u \in stream.last : w < Wall(u)
  <2>1. PICK i \in DOMAIN ids : w = Wall(Events[ids[i]].time)
    BY <1>1, <1>8 DEF WallsIn
  <2>2. ids # << >>
    BY <1>3
  <2>3. \A u \in stream.last : w < Wall(u)
    BY <1>1, <1>5, <1>6, <2>1 DEF ReadTimes
  <2>4. e \in Nat /\ e <= Events[ids[i]].time /\ Events[ids[Len(ids)]] \in Possible
    BY <1>1, <1>6, <2>2
  <2>5. Wall(e) <= w
    <3>1. CASE e = Events[ids[i]].time
      BY <1>6, <2>1, <3>1
    <3>2. CASE e < Events[ids[i]].time
      BY <1>5, <1>6, <1>7, <2>1, <2>2, <2>4, <3>2
    <3>3. QED
      BY <1>6, <2>4, <3>1, <3>2
  <2>6. QED
    BY <2>2, <2>3, <2>5
<1> HIDE DEF e
<1>9. ASSUME NEW g \in Flight'
      PROVE  /\ g[1] \in Nat /\ g[2] \in Nat /\ g[3] \in Nat
             /\ \/ g[1] = 0 /\ g[2] = 1 /\ g[3] \in WallsIn(Rows(ids))
                \/ g \in Flight
  <2>1. /\ g[1] \in Nat /\ g[2] \in Nat \ {0} /\ g[3] \in Nat /\ g = << g[1], g[2], g[3] >>
        /\ \/ g[1] = 0 /\ g[2] = 1 /\ stream'.at = "send" /\ g[3] \in WallsIn(stream'.page)
           \/ g[1] \in DOMAIN chain /\ LaneHas(steps'[g[1]], pipes'[g[1]], g[2], g[3])
           \/ g[1] = Len(chain) + 1 /\ g[2] = 1 /\ engine'.at = "add" /\ g[3] \in WallsIn(engine'.result.events)
           \/ g[1] = Len(chain) + 2 /\ g[2] = 1 /\ g[3] \in TimesIn(job'.results)
    BY FlightNext
  <2>2. CASE g[1] = 0 /\ g[2] = 1 /\ g[3] \in WallsIn(stream'.page)
    BY <1>2, <2>1, <2>2
  <2>3. CASE Has(g[1], g[2], g[3])
    BY <2>1, <2>3, FlightIs
  <2>4. QED
    BY <2>1, <2>2, <2>3 DEF Has
<1>10. \A f \in Flight : f[1] \in Nat /\ f[2] \in Nat /\ f[3] \in Nat /\ (f[1] # 0)
  <2>1. ASSUME NEW f \in Flight PROVE f[1] \in Nat /\ f[2] \in Nat /\ f[3] \in Nat /\ f[1] # 0
    <3>1. f[1] \in Nat /\ f[2] \in Nat \ {0} /\ f[3] \in Nat /\ Has(f[1], f[2], f[3])
      BY FlightHas
    <3>2. DOMAIN chain = 1 .. Len(chain) /\ Len(chain) \in Nat
      BY LanesApart
    <3>3. QED
      BY <3>1, <3>2 DEF Has
  <2>2. QED
    BY <2>1
<1>11. stream.last = {} => Flight = {}
  BY DEF Flow
<1>12. \A f \in Flight : \A t \in WallsIn(Rows(ids)) : t < f[3]
  <2>1. ASSUME NEW f \in Flight, NEW t \in WallsIn(Rows(ids)) PROVE t < f[3]
    <3>1. PICK u \in stream.last : TRUE
      BY <1>11
    <3>2. Wall(u) \in Nat /\ Wall(u) <= f[3] /\ t < Wall(u) /\ t \in Nat /\ f[3] \in Nat
      BY <1>4, <1>8, <1>10 DEF Flow
    <3>3. QED
      BY <3>2
  <2>2. QED
    BY <2>1
<1>13. InLine(Flight')
  <2>1. ASSUME NEW f \in Flight', NEW g \in Flight', f[1] < g[1] \/ (f[1] = g[1] /\ g[2] < f[2])
        PROVE  f[3] < g[3]
    <3>1. CASE g[1] = 0
      BY <1>9, <1>10, <2>1, <3>1
    <3>2. CASE g \in Flight /\ f[1] = 0 /\ f[3] \in WallsIn(Rows(ids))
      BY <1>12, <3>2
    <3>3. CASE g \in Flight /\ f \in Flight
      BY <2>1, <3>3 DEF Flow, InLine
    <3>4. QED
      BY <1>9, <3>1, <3>2, <3>3
  <2>2. QED
    BY <2>1 DEF InLine
<1>14. \A t \in stream'.last : Wall(t) \in Nat /\ \A g \in Flight' : Wall(t) <= g[3]
  <2>1. CASE ids = << >>
    <3>1. \A g \in Flight' : g \in Flight
      BY <1>8, <1>9, <2>1
    <3>2. QED
      BY <1>2, <2>1, <3>1 DEF Flow
  <2>2. CASE ids # << >>
    <3>1. Wall(e) \in Nat /\ stream'.last = {e}
      BY <1>2, <1>7, <2>2
    <3>2. ASSUME NEW g \in Flight' PROVE Wall(e) <= g[3]
      <4>1. CASE g[3] \in WallsIn(Rows(ids))
        BY <1>8, <4>1
      <4>2. CASE g \in Flight
        <5>1. PICK u \in stream.last : TRUE
          BY <1>11, <4>2
        <5>2. Wall(u) \in Nat /\ Wall(u) <= g[3] /\ Wall(e) < Wall(u) /\ g[3] \in Nat
          BY <1>7, <1>10, <2>2, <4>2 DEF Flow
        <5>3. QED
          BY <3>1, <5>2
      <4>3. QED
        BY <1>9, <4>1, <4>2
    <3>3. QED
      BY <3>1, <3>2
  <2>3. QED
    BY <2>1, <2>2
<1>15. steps'[1].at # "start"
  BY DEF Flow
<1>16. stream'.at # "off" /\ (stream'.last = {} => Flight' = {})
  <2>1. ASSUME stream'.last = {} PROVE Flight' = {}
    <3>1. ids = << >> /\ stream.last = {}
      BY <1>2, <2>1
    <3>2. Flight = {}
      BY <1>11, <3>1
    <3>3. QED
      BY <1>8, <1>9, <3>1, <3>2
  <2>2. QED
    BY <1>2, <2>1
<1>17. QED
  BY <1>13, <1>14, <1>15, <1>16 DEF Flow

LEMMA NextReads ==
  ASSUME KInv, EventsPlaced, Shape, ReadTimes, [Next]_allVars
  PROVE  ReadTimes'
<1>1. Possible' = Possible
  BY NextLoad DEF Possible, Written
<1>2. DOMAIN stream = {"at", "maxId", "last", "page"}
  BY DEF Shape, StreamIs
<1>3. CASE stream'.last = stream.last
  BY <1>1, <1>3 DEF ReadTimes
<1>4. CASE QueryPage
  <2>1. ASSUME NEW all \in Page(chain[1], stream.maxId, stream.last), NEW n \in 0 .. Len(all),
               HasRead(SubSeq(all, 1, n))
        PROVE  ReadTimes'
    <3> DEFINE ids == SubSeq(all, 1, n)
    <3>1. ids = SubSeq(all, 1, n) /\ HasRead(ids)
      BY <2>1
    <3> HIDE DEF ids
    <3>2. OfPage(stream.last, ids)
      BY <3>1, PageRows
    <3>3. ids # << >> => Events[ids[Len(ids)]] \in Possible
      BY <3>2 DEF OfPage, EventsPlaced, AllPlaced
    <3>4. stream'.last = IF ids = << >> THEN stream.last ELSE {Events[ids[Len(ids)]].time}
      BY <1>2, <3>1 DEF HasRead
    <3>5. QED
      BY <1>1, <3>3, <3>4 DEF ReadTimes
  <2>2. stream' = [stream EXCEPT !.at = "end"] => stream'.last = stream.last
    BY <1>2
  <2>3. QED
    BY <1>3, <1>4, <2>1, <2>2, QueryReads
<1>5. CASE OpenStream \/ SearchPage
  BY <1>3, <1>5, StreamLast
<1>6. CASE StartSearch
  <2>1. UNCHANGED stream \/ stream' = [stream EXCEPT !.at = "max"]
    BY <1>6 DEF StartSearch
  <2>2. QED
    BY <1>2, <1>3, <2>1
<1>7. CASE UNCHANGED stream
  BY <1>3, <1>7
<1>8. CASE Goroutines
  BY <1>4, <1>5, <1>6, <1>7, <1>8 DEF Goroutines, SearchEnds, StartSurrounding, Receives, InputEnds, Sends,
     TakeResult, AddResults, AddFieldStats, SeeClosed, SeeCancelled, UpdateState, EngineOnly
<1>9. QED
  BY <1>7, <1>8 DEF Next, allVars, jobVars, StartJob, Abort

LEMMA StreamFlow ==
  ASSUME ClocksGoOn, KInv, EventsPlaced, ReadTimes, Shape, Shape', Flow, OpenStream \/ QueryPage
  PROVE  Flow'
<1>1. UNCHANGED << chain, steps, pipes, engine, job >> /\ stream.at \in {"max", "query"}
  BY DEF OpenStream, QueryPage, StreamOnly
<1>2. chain # << >>
  BY <1>1 DEF Shape
<1>3. CASE OpenStream
  <2>1. /\ stream'.last = stream.last /\ (stream'.at = "off" <=> stream.at = "off")
        /\ (stream'.at = "send" => stream' = stream)
    BY <1>3, StreamLast
  <2>2. QED
    BY <1>1, <1>2, <2>1, SilentFlow
<1>4. CASE QueryPage /\ stream' = [stream EXCEPT !.at = "end"]
  <2>1. /\ stream'.last = stream.last /\ (stream'.at = "off" <=> stream.at = "off")
        /\ (stream'.at = "send" => stream' = stream)
    BY <1>1, <1>4 DEF Shape, StreamIs
  <2>2. QED
    BY <1>1, <1>2, <2>1, SilentFlow
<1>5. ASSUME NEW all \in Page(chain[1], stream.maxId, stream.last), NEW n \in 0 .. Len(all),
             HasRead(SubSeq(all, 1, n)), stream.at = "query"
      PROVE  Flow'
  <2> DEFINE ids == SubSeq(all, 1, n)
  <2>1. ids = SubSeq(all, 1, n) /\ HasRead(ids)
    BY <1>5
  <2> HIDE DEF ids
  <2>2. OfPage(stream.last, ids)
    BY <2>1, PageRows
  <2>3. QED
    BY <1>1, <1>2, <1>5, <2>1, <2>2, PageFlow
<1>6. CASE QueryPage
  <2>1. stream.at = "query"
    BY <1>6, Zenon DEF QueryPage
  <2>2. QED
    BY <1>4, <1>5, <1>6, <2>1, QueryReads
<1>7. QED
  BY <1>3, <1>6

\* Nothing is in line but what the first step has to send.
LEMMA FirstFlow ==
  ASSUME Flow, Shape, Shape', chain # << >>, UNCHANGED << chain, pipes, engine, job >>,
         stream.at = "off" \/ stream.last = {}, stream'.last = stream.last, stream.last = {},
         stream'.at # "send", Flight = {}, steps'[1].at # "start",
         \A j \in DOMAIN chain : j # 1 => steps'[j] = steps[j],
         stream'.at = "off" \/ steps'[1].at # "send"
  PROVE  Flow'
<1>1. ASSUME NEW g \in Flight'
      PROVE  steps'[1].at = "send" /\ g[1] = 1 /\ g[2] = Len(pipes[1].buffer) + 1
  <2>1. /\ g[1] \in Nat /\ g[2] \in Nat \ {0} /\ g[3] \in Nat /\ g = << g[1], g[2], g[3] >>
        /\ \/ g[1] = 0 /\ g[2] = 1 /\ stream'.at = "send" /\ g[3] \in WallsIn(stream'.page)
           \/ g[1] \in DOMAIN chain /\ LaneHas(steps'[g[1]], pipes'[g[1]], g[2], g[3])
           \/ g[1] = Len(chain) + 1 /\ g[2] = 1 /\ engine'.at = "add" /\ g[3] \in WallsIn(engine'.result.events)
           \/ g[1] = Len(chain) + 2 /\ g[2] = 1 /\ g[3] \in TimesIn(job'.results)
    BY FlightNext
  <2>2. ~Has(g[1], g[2], g[3])
    BY <2>1, FlightIs
  <2>3. g[1] \in DOMAIN chain /\ LaneHas(steps'[g[1]], pipes[g[1]], g[2], g[3])
        /\ ~LaneHas(steps[g[1]], pipes[g[1]], g[2], g[3])
    BY <2>1, <2>2 DEF Has
  <2>4. g[1] = 1
    BY <2>3
  <2>5. QED
    BY <2>3, <2>4 DEF LaneHas
<1>2. InLine(Flight')
  <2>1. ASSUME NEW f \in Flight', NEW g \in Flight', f[1] < g[1] \/ (f[1] = g[1] /\ g[2] < f[2])
        PROVE  f[3] < g[3]
    <3>1. f[1] = 1 /\ g[1] = 1 /\ f[2] = g[2] /\ g[2] \in Nat
      <4>1. g[2] \in Nat
        BY DEF Flight, Places
      <4>2. QED
        BY <1>1, <4>1
    <3>2. QED
      BY <2>1, <3>1
  <2>2. QED
    BY <2>1 DEF InLine
<1>3. stream'.at # "off" => Flight' = {}
  BY <1>1
<1>4. QED
  BY <1>2, <1>3 DEF Flow

LEMMA SearchPageFlow ==
  ASSUME Results, Shape, Shape', Flow, SearchPage
  PROVE  Flow'
<1> DEFINE p == Len(pipes[1].buffer) + 1
<1>1. /\ UNCHANGED << chain, pipes, engine, job >> /\ steps # << >> /\ steps[1].at = "select" /\ stream.at = "send"
      /\ UNCHANGED steps \/ \E r \in SearchResults(chain[1].search, stream.page) : ToSend(1, r)
  BY DEF SearchPage, StepsOnly
<1>2. 1 \in DOMAIN chain /\ chain # << >>
  BY <1>1, FirstStep
<1>3. stream'.last = stream.last /\ stream'.at # "send" /\ stream'.at # "off"
  BY DEF SearchPage, Shape, StreamIs
<1>4. Goroutine(1, steps[1], pipes[1])
  BY <1>2 DEF Shape
<1>5. IsList(pipes[1].buffer) /\ p \in Nat \ {0}
  BY <1>4, ListIsList DEF Goroutine
<1>6. IsTimed({}, stream.page)
  BY <1>1 DEF Results
<1>7. /\ \A j \in DOMAIN chain : j # 1 => steps'[j] = steps[j]
      /\ \/ steps'[1] = steps[1]
         \/ steps'[1].at = "send" /\ WallsIn(steps'[1].out.events) \subseteq WallsIn(stream.page)
  <2>1. CASE UNCHANGED steps
    BY <2>1
  <2>2. ASSUME NEW r \in SearchResults(chain[1].search, stream.page), ToSend(1, r)
        PROVE  /\ \A j \in DOMAIN chain : j # 1 => steps'[j] = steps[j]
               /\ steps'[1].at = "send" /\ WallsIn(steps'[1].out.events) \subseteq WallsIn(stream.page)
    <3>1. steps'[1].at = "send" /\ steps'[1].out = r /\ \A j \in DOMAIN chain : j # 1 => steps'[j] = steps[j]
      BY <1>2, <2>2, ToSendIs
    <3>2. WallsIn(r.events) \subseteq WallsIn(stream.page)
      BY <1>6, SearchResultIs
    <3>3. QED
      BY <3>1, <3>2
  <2>3. QED
    BY <1>1, <2>1, <2>2
<1>8. \A f \in Flight : f[1] = 0 + 1 => f[2] <= p
  <2>1. ASSUME NEW f \in Flight, f[1] = 1 PROVE f[2] <= p
    <3>1. Has(1, f[2], f[3])
      BY <2>1, FlightHas
    <3>2. LaneHas(steps[1], pipes[1], f[2], f[3])
      BY <1>2, <3>1, LanesApart DEF Has
    <3>3. QED
      BY <1>5, <3>2, LaneIs
  <2>2. QED
    BY <2>1
<1> HIDE DEF p
<1>9. \A g \in Flight' : Came(Flight, g, 0, p)
  <2>1. ASSUME NEW g \in Flight' PROVE Came(Flight, g, 0, p)
    <3>1. /\ g[1] \in Nat /\ g[2] \in Nat \ {0} /\ g[3] \in Nat /\ g = << g[1], g[2], g[3] >>
          /\ \/ g[1] = 0 /\ g[2] = 1 /\ stream'.at = "send" /\ g[3] \in WallsIn(stream'.page)
             \/ g[1] \in DOMAIN chain /\ LaneHas(steps'[g[1]], pipes'[g[1]], g[2], g[3])
             \/ g[1] = Len(chain) + 1 /\ g[2] = 1 /\ engine'.at = "add" /\ g[3] \in WallsIn(engine'.result.events)
             \/ g[1] = Len(chain) + 2 /\ g[2] = 1 /\ g[3] \in TimesIn(job'.results)
      BY <1>1, FlightNext
    <3>2. DOMAIN chain = 1 .. Len(chain) /\ Len(chain) \in Nat
      BY <1>2, LanesApart
    <3>3. g[1] # 0
      BY <1>3, <3>1, <3>2
    <3>4. CASE Has(g[1], g[2], g[3])
      BY <3>1, <3>3, <3>4, FlightIs DEF Came
    <3>5. CASE g[1] = 1 /\ g[2] = p /\ g[3] \in WallsIn(stream.page)
      <4>1. Has(0, 1, g[3])
        BY <1>1, <3>5 DEF Has
      <4>2. 0 \in Nat /\ 1 \in Nat \ {0} /\ g[3] \in Nat
        BY <3>1
      <4>3. << 0, 1, g[3] >> \in Flight
        BY <4>1, <4>2, FlightIs
      <4>4. QED
        BY <3>5, <4>3 DEF Came
    <3>6. CASE g[1] \in DOMAIN chain /\ LaneHas(steps'[g[1]], pipes'[g[1]], g[2], g[3])
      <4>1. CASE steps'[g[1]] = steps[g[1]]
        BY <1>1, <3>4, <3>6, <4>1 DEF Has
      <4>2. CASE g[1] = 1 /\ steps'[1].at = "send" /\ WallsIn(steps'[1].out.events) \subseteq WallsIn(stream.page)
        <5>1. LaneHas(steps[1], pipes[1], g[2], g[3]) \/ (g[2] = p /\ g[3] \in WallsIn(stream.page))
          BY <1>1, <3>6, <4>2 DEF LaneHas, p
        <5>2. QED
          BY <1>2, <3>4, <3>5, <4>2, <5>1 DEF Has
      <4>3. QED
        BY <1>7, <3>6, <4>1, <4>2
    <3>7. QED
      BY <1>1, <3>1, <3>3, <3>4, <3>6 DEF Has
  <2>2. QED
    BY <2>1
<1>10. 0 \in Nat /\ p \in Nat
  BY <1>5
<1>11. steps'[1].at = "start" => steps[1].at = "start"
  BY <1>7
<1>12. stream'.at = "off" <=> stream.at = "off"
  BY <1>1, <1>3
<1>13. UNCHANGED chain
  BY <1>1
<1>14. QED
  BY <1>2, <1>3, <1>8, <1>9, <1>10, <1>11, <1>12, <1>13, FlowMoves

LEMMA SearchStepFlow ==
  ASSUME Results, Shape, Shape', Flow, StartSearch \/ SearchPage \/ SearchEnds \/ StartSurrounding
  PROVE  Flow'
<1>1. UNCHANGED << chain, engine, job >> /\ steps # << >> /\ 1 \in DOMAIN chain /\ chain # << >>
  BY FirstStep DEF StartSearch, SearchPage, SearchEnds, StartSurrounding, StepsOnly
<1>2. DOMAIN steps = DOMAIN chain /\ Goroutine(1, steps[1], pipes[1]) /\ StreamIs(stream)
  BY <1>1 DEF Shape
<1>3. CASE Ends(1) /\ UNCHANGED stream
  <2>1. UNCHANGED << chain, stream, engine, job >>
    BY <1>1, <1>3
  <2>2. QED
    BY <1>1, <1>3, <2>1, EndsFlow
<1>4. CASE steps[1].at = "start" /\ UNCHANGED pipes /\ steps' = [steps EXCEPT ![1].at = "select"]
           /\ stream' = [stream EXCEPT !.at = "max"]
  <2>1. stream.at = "off" /\ stream.last = {} /\ Flight = {}
    BY <1>1, <1>4 DEF Flow
  <2>2. stream'.at = "max" /\ stream'.last = stream.last
    BY <1>2, <1>4 DEF StreamIs
  <2>3. steps'[1].at = "select" /\ \A j \in DOMAIN chain : j # 1 => steps'[j] = steps[j]
    BY <1>1, <1>2, <1>4 DEF Goroutine
  <2>4. UNCHANGED << chain, pipes, engine, job >>
    BY <1>1, <1>4
  <2>5. QED
    BY <1>1, <2>1, <2>2, <2>3, <2>4, FirstFlow
<1>5. ASSUME NEW r, steps[1].at = "start", UNCHANGED << pipes, stream >>, ToSend(1, r)
      PROVE  Flow'
  <2>1. stream.at = "off" /\ stream.last = {} /\ Flight = {}
    BY <1>1, <1>5 DEF Flow
  <2>2. steps'[1].at = "send" /\ \A j \in DOMAIN chain : j # 1 => steps'[j] = steps[j]
    BY <1>1, <1>5, ToSendIs
  <2>3. UNCHANGED << chain, pipes, engine, job >>
    BY <1>1, <1>5
  <2>4. stream'.at = "off" /\ stream'.last = stream.last
    BY <1>5, <2>1
  <2>5. QED
    BY <1>1, <2>1, <2>2, <2>3, <2>4, FirstFlow
<1>6. CASE StartSearch
  BY <1>3, <1>4, <1>6 DEF StartSearch
<1>7. CASE SearchEnds
  BY <1>3, <1>7 DEF SearchEnds
<1>8. CASE StartSurrounding
  <2>1. \/ Ends(1) /\ UNCHANGED stream
        \/ UNCHANGED << steps, pipes, stream >>
        \/ \E r : ToSend(1, r) /\ UNCHANGED << pipes, stream >> /\ steps[1].at = "start"
    BY <1>8 DEF StartSurrounding
  <2>2. CASE UNCHANGED << steps, pipes, stream >>
    BY <1>1, <2>2, SilentFlow
  <2>3. QED
    BY <1>3, <1>5, <2>1, <2>2
<1>9. QED
  BY <1>6, <1>7, <1>8, SearchPageFlow

\* What a step before the last makes of the first in its channel.
LEMMA ReceivesFlow ==
  ASSUME Results, Shape, Shape', Flow, NEW i \in DOMAIN chain, Receives(i)
  PROVE  Flow'
<1> DEFINE n == i - 1
           p == Len(pipes[i].buffer) + 1
           h == Head(pipes[n].buffer)
<1>1. /\ n \in DOMAIN chain /\ n # i
      /\ pipes[n].buffer # << >> /\ IsList(pipes[n].buffer) /\ IsResult(May, h)
      /\ pipes'[n].buffer = Tail(pipes[n].buffer)
      /\ \A j \in DOMAIN chain : j # n => pipes'[j] = pipes[j]
      /\ \/ UNCHANGED steps
         \/ ToSend(i, StepResult(chain[i], h)) /\ (chain[i].name = "rex" => ~RexPanics(chain[i], h))
      /\ chain[i].name \in {"rex", "where", "table"} /\ steps[i].at = "select"
  BY ReceivesIs
<1>2. UNCHANGED << chain, engine, job, stream >>
  BY DEF Receives, StepsOnly
<1>3. chain # << >>
  OBVIOUS
<1>4. Len(chain) \in Nat \ {0} /\ DOMAIN chain = 1 .. Len(chain) /\ i \in Nat \ {0, 1} /\ n \in Nat \ {0} /\ i = n + 1
      /\ n < Len(chain)
  <2>1. Len(chain) \in Nat \ {0} /\ DOMAIN chain = 1 .. Len(chain)
    BY <1>3, LanesApart
  <2>2. QED
    BY <1>1, <2>1
<1>5. IsList(pipes[i].buffer) /\ p \in Nat \ {0}
  <2>1. Goroutine(i, steps[i], pipes[i])
    BY DEF Shape
  <2>2. QED
    BY <2>1, ListIsList DEF Goroutine
<1>6. /\ \A j \in DOMAIN chain : j # i => steps'[j] = steps[j]
      /\ \/ steps'[i] = steps[i]
         \/ steps'[i].at = "send" /\ WallsIn(steps'[i].out.events) \subseteq WallsIn(h.events)
  <2>1. CASE UNCHANGED steps
    BY <2>1
  <2>2. CASE ToSend(i, StepResult(chain[i], h)) /\ (chain[i].name = "rex" => ~RexPanics(chain[i], h))
    <3> DEFINE r == StepResult(chain[i], h)
    <3>1. /\ IsResult(May, h) /\ chain[i].name \in {"rex", "where", "table"}
          /\ chain[i].name = "rex" => ~RexPanics(chain[i], h)
      BY <1>1, <2>2
    <3>2. ToSend(i, r)
      BY <2>2
    <3> HIDE DEF h
    <3>3. WallsIn(r.events) \subseteq WallsIn(h.events)
      BY <3>1, StepResultIs
    <3> HIDE DEF r
    <3>4. steps'[i].at = "send" /\ steps'[i].out = r /\ \A j \in DOMAIN chain : j # i => steps'[j] = steps[j]
      BY <3>2, ToSendIs
    <3>5. QED
      BY <3>3, <3>4
  <2>3. QED
    BY <1>1, <2>1, <2>2
<1>7. h = pipes[n].buffer[1] /\ 1 \in DOMAIN pipes[n].buffer
  BY <1>1, HeadIs
<1> HIDE DEF n, h
<1>8. \A f \in Flight : f[1] = n + 1 => f[2] <= p
  <2>1. ASSUME NEW f \in Flight, f[1] = n + 1 PROVE f[2] <= p
    <3>1. Has(i, f[2], f[3])
      BY <1>4, <2>1, FlightHas
    <3>2. LaneHas(steps[i], pipes[i], f[2], f[3])
      BY <1>4, <3>1 DEF Has
    <3>3. QED
      BY <1>5, <3>2, LaneIs
  <2>2. QED
    BY <2>1
<1> HIDE DEF p
<1>9. \A g \in Flight' : Came(Flight, g, n, p)
  <2>1. ASSUME NEW g \in Flight' PROVE Came(Flight, g, n, p)
    <3>1. /\ g[1] \in Nat /\ g[2] \in Nat \ {0} /\ g[3] \in Nat /\ g = << g[1], g[2], g[3] >>
          /\ \/ g[1] = 0 /\ g[2] = 1 /\ stream'.at = "send" /\ g[3] \in WallsIn(stream'.page)
             \/ g[1] \in DOMAIN chain /\ LaneHas(steps'[g[1]], pipes'[g[1]], g[2], g[3])
             \/ g[1] = Len(chain) + 1 /\ g[2] = 1 /\ engine'.at = "add" /\ g[3] \in WallsIn(engine'.result.events)
             \/ g[1] = Len(chain) + 2 /\ g[2] = 1 /\ g[3] \in TimesIn(job'.results)
      BY <1>2, FlightNext
    <3>2. CASE Has(g[1], g[2], g[3]) /\ g[1] # n
      BY <3>1, <3>2, FlightIs DEF Came
    <3>3. CASE g[1] = i /\ g[2] = p /\ g[3] \in WallsIn(h.events)
      <4>1. Has(n, 1, g[3])
        BY <1>1, <1>7, <3>3 DEF Has, LaneHas
      <4>2. n \in Nat /\ 1 \in Nat \ {0} /\ g[3] \in Nat
        BY <1>4, <3>1
      <4>3. << n, 1, g[3] >> \in Flight
        BY <4>1, <4>2, FlightIs
      <4>4. QED
        BY <1>4, <3>3, <4>3 DEF Came
    <3>4. CASE g[1] = n
      <4>1. LaneHas(steps[n], pipes'[n], g[2], g[3])
        BY <1>1, <1>4, <1>6, <3>1, <3>4
      <4>2. LaneHas(steps[n], pipes[n], g[2] + 1, g[3])
        BY <1>1, <4>1, TailHas
      <4>3. n \in Nat /\ g[2] + 1 \in Nat \ {0} /\ g[3] \in Nat
        BY <1>4, <3>1
      <4>4. Has(n, g[2] + 1, g[3])
        BY <1>1, <4>2 DEF Has
      <4>5. << n, g[2] + 1, g[3] >> \in Flight
        BY <4>3, <4>4, FlightIs
      <4>6. QED
        BY <3>4, <4>5 DEF Came
    <3>5. CASE g[1] \in DOMAIN chain /\ g[1] # n /\ LaneHas(steps'[g[1]], pipes'[g[1]], g[2], g[3])
      <4>1. pipes'[g[1]] = pipes[g[1]]
        BY <1>1, <3>5
      <4>2. CASE steps'[g[1]] = steps[g[1]]
        BY <3>2, <3>5, <4>1, <4>2 DEF Has
      <4>3. CASE g[1] = i /\ steps'[i].at = "send" /\ WallsIn(steps'[i].out.events) \subseteq WallsIn(h.events)
        <5>1. LaneHas(steps[i], pipes[i], g[2], g[3]) \/ (g[2] = p /\ g[3] \in WallsIn(h.events))
          BY <3>5, <4>1, <4>3 DEF LaneHas, p
        <5>2. QED
          BY <3>2, <3>3, <3>5, <4>3, <5>1 DEF Has
      <4>4. QED
        BY <1>6, <3>5, <4>2, <4>3
    <3>6. QED
      BY <1>2, <3>1, <3>2, <3>4, <3>5 DEF Has
  <2>2. QED
    BY <2>1
<1>10. n \in Nat /\ p \in Nat
  BY <1>4, <1>5
<1>11. steps'[1].at = "start" => steps[1].at = "start"
  <2>1. 1 \in DOMAIN chain /\ 1 # i
    BY <1>4
  <2>2. QED
    BY <1>6, <2>1
<1>12. (stream'.at = "off" <=> stream.at = "off") /\ stream'.last = stream.last
  BY <1>2
<1>13. UNCHANGED chain
  BY <1>2
<1>14. QED
  BY <1>3, <1>8, <1>9, <1>10, <1>11, <1>12, <1>13, FlowMoves

LEMMA TakeFlow ==
  ASSUME Results, Shape, Shape', Flow, TakeResult
  PROVE  Flow'
<1> DEFINE n == Len(pipes)
           h == Head(pipes[n].buffer)
<1>1. /\ chain # << >> /\ n = Len(chain) /\ n \in DOMAIN chain
      /\ IsList(pipes[n].buffer) /\ pipes[n].buffer # << >>
      /\ pipes'[n].buffer = Tail(pipes[n].buffer)
      /\ \A j \in DOMAIN chain : j # n => pipes'[j] = pipes[j]
      /\ engine.at = "select"
      /\ \/ engine' = engine
         \/ engine'.at = "add" /\ engine'.result = h
      /\ UNCHANGED << chain, stream, steps, job >>
  BY TakesIs
<1>2. Len(chain) \in Nat \ {0} /\ DOMAIN chain = 1 .. Len(chain)
  BY <1>1, LanesApart
<1>3. h = pipes[n].buffer[1] /\ 1 \in DOMAIN pipes[n].buffer
  BY <1>1, HeadIs
<1> HIDE DEF n, h
<1>4. \A f \in Flight : f[1] = n + 1 => f[2] <= 1
  <2>1. ASSUME NEW f \in Flight, f[1] = n + 1 PROVE f[2] <= 1
    <3>1. Has(f[1], f[2], f[3]) /\ f[1] = Len(chain) + 1
      BY <1>1, <2>1, FlightHas
    <3>2. QED
      BY <1>1, <1>2, <3>1 DEF Has
  <2>2. QED
    BY <2>1
<1>5. \A g \in Flight' : Came(Flight, g, n, 1)
  <2>1. ASSUME NEW g \in Flight' PROVE Came(Flight, g, n, 1)
    <3>1. /\ g[1] \in Nat /\ g[2] \in Nat \ {0} /\ g[3] \in Nat /\ g = << g[1], g[2], g[3] >>
          /\ \/ g[1] = 0 /\ g[2] = 1 /\ stream'.at = "send" /\ g[3] \in WallsIn(stream'.page)
             \/ g[1] \in DOMAIN chain /\ LaneHas(steps'[g[1]], pipes'[g[1]], g[2], g[3])
             \/ g[1] = Len(chain) + 1 /\ g[2] = 1 /\ engine'.at = "add" /\ g[3] \in WallsIn(engine'.result.events)
             \/ g[1] = Len(chain) + 2 /\ g[2] = 1 /\ g[3] \in TimesIn(job'.results)
      BY <1>1, FlightNext
    <3>2. CASE Has(g[1], g[2], g[3]) /\ g[1] # n
      BY <3>1, <3>2, FlightIs DEF Came
    <3>3. CASE g[1] = n + 1 /\ g[2] = 1 /\ g[3] \in WallsIn(h.events)
      <4>1. Has(n, 1, g[3])
        BY <1>1, <1>3, <3>3 DEF Has, LaneHas
      <4>2. n \in Nat /\ 1 \in Nat \ {0} /\ g[3] \in Nat
        BY <1>1, <1>2, <3>1
      <4>3. << n, 1, g[3] >> \in Flight
        BY <4>1, <4>2, FlightIs
      <4>4. QED
        BY <3>3, <4>3 DEF Came
    <3>4. CASE g[1] = n
      <4>1. LaneHas(steps[n], pipes'[n], g[2], g[3])
        BY <1>1, <1>2, <3>1, <3>4
      <4>2. LaneHas(steps[n], pipes[n], g[2] + 1, g[3])
        BY <1>1, <4>1, TailHas
      <4>3. n \in Nat /\ g[2] + 1 \in Nat \ {0} /\ g[3] \in Nat
        BY <1>1, <1>2, <3>1
      <4>4. Has(n, g[2] + 1, g[3])
        BY <1>1, <4>2 DEF Has
      <4>5. << n, g[2] + 1, g[3] >> \in Flight
        BY <4>3, <4>4, FlightIs
      <4>6. QED
        BY <3>4, <4>5 DEF Came
    <3>5. CASE g[1] \in DOMAIN chain /\ g[1] # n /\ LaneHas(steps'[g[1]], pipes'[g[1]], g[2], g[3])
      BY <1>1, <3>2, <3>5 DEF Has
    <3>6. CASE g[1] = Len(chain) + 1 /\ g[2] = 1 /\ engine'.at = "add" /\ g[3] \in WallsIn(engine'.result.events)
      BY <1>1, <3>3, <3>6
    <3>7. CASE g[1] = 0 /\ g[2] = 1 /\ stream'.at = "send" /\ g[3] \in WallsIn(stream'.page)
      BY <1>1, <1>2, <3>2, <3>7 DEF Has
    <3>8. CASE g[1] = Len(chain) + 2 /\ g[2] = 1 /\ g[3] \in TimesIn(job'.results)
      BY <1>1, <1>2, <3>2, <3>8 DEF Has
    <3>9. QED
      BY <3>1, <3>4, <3>5, <3>6, <3>7, <3>8
  <2>2. QED
    BY <2>1
<1>6. n \in Nat /\ 1 \in Nat
  BY <1>1, <1>2
<1>7. steps'[1].at = "start" => steps[1].at = "start"
  BY <1>1
<1>8. (stream'.at = "off" <=> stream.at = "off") /\ stream'.last = stream.last
  BY <1>1
<1>9. UNCHANGED chain
  BY <1>1
<1>10. QED
  BY <1>1, <1>4, <1>5, <1>6, <1>7, <1>8, <1>9, FlowMoves

LEMMA EngineFlow ==
  ASSUME Results, Shape, Shape', Flow, AddResults \/ AddFieldStats \/ SeeClosed \/ SeeCancelled \/ UpdateState
  PROVE  Flow'
<1> DEFINE n == Len(chain) + 1
<1>1. /\ UNCHANGED << chain, stream, steps, pipes >> /\ engine'.at # "add"
      /\ \/ job'.results = job.results
         \/ engine.at = "add" /\ job'.results = job.results \o Stamps(engine.result.events)
  BY EngineIsResults
<1>2. chain # << >>
  <2>1. engine.at # "off"
    BY DEF AddResults, AddFieldStats, SeeClosed, SeeCancelled, UpdateState
  <2>2. QED
    BY <2>1 DEF Shape
<1>3. Len(chain) \in Nat \ {0} /\ DOMAIN chain = 1 .. Len(chain)
  BY <1>2, LanesApart
<1>4. \A t \in TimesIn(job'.results) :
        t \in TimesIn(job.results) \/ (engine.at = "add" /\ t \in WallsIn(engine.result.events))
  <2>1. CASE job'.results = job.results
    BY <2>1
  <2>2. CASE engine.at = "add" /\ job'.results = job.results \o Stamps(engine.result.events)
    <3> DEFINE new == Stamps(engine.result.events)
    <3>1. IsStamped(job.results) /\ IsTimed(May, engine.result.events)
      BY <2>2 DEF Results, IsResult
    <3>2. IsStamped(new) /\ TimesIn(new) = WallsIn(engine.result.events)
      BY <3>1, StampsAre
    <3>3. job'.results = job.results \o new
      BY <2>2
    <3> HIDE DEF new
    <3>4. Joined(job.results, new, job'.results)
      BY <3>1, <3>2, <3>3, StampedConcat
    <3>5. \A t \in TimesIn(job'.results) : t \in TimesIn(job.results) \cup TimesIn(new)
      BY <3>4 DEF Joined, TimesIn
    <3>6. QED
      BY <2>2, <3>2, <3>5
  <2>3. QED
    BY <1>1, <2>1, <2>2
<1> HIDE DEF n
<1>5. \A f \in Flight : f[1] = n + 1 => f[2] <= 1
  <2>1. ASSUME NEW f \in Flight, f[1] = n + 1 PROVE f[2] <= 1
    <3>1. Has(f[1], f[2], f[3]) /\ f[1] = Len(chain) + 2
      BY <1>3, <2>1, FlightHas DEF n
    <3>2. QED
      BY <1>3, <3>1 DEF Has
  <2>2. QED
    BY <2>1
<1>6. \A g \in Flight' : Came(Flight, g, n, 1)
  <2>1. ASSUME NEW g \in Flight' PROVE Came(Flight, g, n, 1)
    <3>1. /\ g[1] \in Nat /\ g[2] \in Nat \ {0} /\ g[3] \in Nat /\ g = << g[1], g[2], g[3] >>
          /\ \/ g[1] = 0 /\ g[2] = 1 /\ stream'.at = "send" /\ g[3] \in WallsIn(stream'.page)
             \/ g[1] \in DOMAIN chain /\ LaneHas(steps'[g[1]], pipes'[g[1]], g[2], g[3])
             \/ g[1] = Len(chain) + 1 /\ g[2] = 1 /\ engine'.at = "add" /\ g[3] \in WallsIn(engine'.result.events)
             \/ g[1] = Len(chain) + 2 /\ g[2] = 1 /\ g[3] \in TimesIn(job'.results)
      BY <1>1, FlightNext
    <3>2. CASE Has(g[1], g[2], g[3]) /\ g[1] # n
      BY <3>1, <3>2, FlightIs DEF Came
    <3>3. CASE g[1] = n + 1 /\ g[2] = 1 /\ engine.at = "add" /\ g[3] \in WallsIn(engine.result.events)
      <4>1. Has(n, 1, g[3])
        BY <3>3 DEF Has, n
      <4>2. n \in Nat /\ 1 \in Nat \ {0} /\ g[3] \in Nat
        BY <1>3, <3>1 DEF n
      <4>3. << n, 1, g[3] >> \in Flight
        BY <4>1, <4>2, FlightIs
      <4>4. QED
        BY <3>3, <4>3 DEF Came
    <3>4. CASE g[1] = Len(chain) + 2 /\ g[2] = 1 /\ g[3] \in TimesIn(job'.results)
      <4>1. CASE g[3] \in TimesIn(job.results)
        BY <1>3, <3>2, <3>4, <4>1 DEF Has, n
      <4>2. CASE engine.at = "add" /\ g[3] \in WallsIn(engine.result.events)
        BY <1>3, <3>3, <3>4, <4>2 DEF n
      <4>3. QED
        BY <1>4, <3>4, <4>1, <4>2
    <3>5. CASE g[1] \in DOMAIN chain /\ LaneHas(steps'[g[1]], pipes'[g[1]], g[2], g[3])
      BY <1>1, <1>3, <3>2, <3>5 DEF Has, n
    <3>6. CASE g[1] = 0 /\ g[2] = 1 /\ stream'.at = "send" /\ g[3] \in WallsIn(stream'.page)
      BY <1>1, <1>3, <3>2, <3>6 DEF Has, n
    <3>7. QED
      BY <1>1, <3>1, <3>4, <3>5, <3>6
  <2>2. QED
    BY <2>1
<1>7. n \in Nat /\ 1 \in Nat
  BY <1>3 DEF n
<1>8. steps'[1].at = "start" => steps[1].at = "start"
  BY <1>1
<1>9. (stream'.at = "off" <=> stream.at = "off") /\ stream'.last = stream.last
  BY <1>1
<1>10. UNCHANGED chain
  BY <1>1
<1>11. QED
  BY <1>2, <1>5, <1>6, <1>7, <1>8, <1>9, <1>10, FlowMoves

LEMMA StartFlow ==
  ASSUME KInv, Shape, Shape', Flow, StartJob
  PROVE  Flow'
<1>1. /\ UNCHANGED << stream, delivered >> /\ stream.at = "off" /\ engine.at = "off" /\ chain = << >>
      /\ job'.results = job.results /\ job'.rows = job.rows
      /\ \/ chain' = << >> /\ engine' = engine /\ UNCHANGED << steps, pipes >>
         \/ /\ engine'.at = "select" /\ chain' # << >>
            /\ \A i \in DOMAIN chain' :
                 steps'[i].at # "send" /\ steps'[i].out = NoResult /\ pipes'[i].buffer = << >>
  BY StartsIs
<1>2. Flight = {} /\ stream.last = {}
  BY <1>1 DEF Flow
<1>3. DOMAIN << >> = {} /\ Len(<< >>) = 0
  OBVIOUS
<1>4. TimesIn(job.results) \cap Nat = {}
  <2>1. ASSUME NEW t \in TimesIn(job.results), t \in Nat PROVE FALSE
    <3>1. Has(2, 1, t)
      BY <1>1, <1>3 DEF Has
    <3>2. 2 \in Nat /\ 1 \in Nat \ {0} /\ t \in Nat
      BY <2>1
    <3>3. << 2, 1, t >> \in Flight
      BY <3>1, <3>2, FlightIs
    <3>4. QED
      BY <1>2, <3>3
  <2>2. QED
    BY <2>1
<1>5. Flight' = {}
  <2>1. ASSUME NEW g \in Flight' PROVE FALSE
    <3>1. g \in Places /\ Has(g[1], g[2], g[3])'
      BY <2>1 DEF Flight
    <3>2. g[3] \in Nat
      BY <3>1 DEF Places
    <3>3. g[3] \notin TimesIn(job'.results)
      BY <1>1, <1>4, <3>2
    <3>4. \A i \in DOMAIN chain' : ~LaneHas(steps'[i], pipes'[i], g[2], g[3])
      BY <1>1, <1>3 DEF LaneHas
    <3>5. stream'.at # "send" /\ engine'.at # "add"
      BY <1>1
    <3>6. QED
      BY <3>1, <3>3, <3>4, <3>5 DEF Has
  <2>2. QED
    BY <2>1
<1>6. stream'.at = "off" /\ stream'.last = {}
  BY <1>1, <1>2
<1>7. InLine(Flight')
  BY <1>5 DEF InLine
<1>8. QED
  BY <1>5, <1>6, <1>7 DEF Flow

LEMMA InitFlow == JobInit => Flow
<1> SUFFICES ASSUME JobInit PROVE Flow
  OBVIOUS
<1>1. chain = << >> /\ stream.at = "off" /\ stream.last = {} /\ engine.at = "off" /\ job.results = << >>
  BY DEF JobInit
<1>2. DOMAIN << >> = {}
  OBVIOUS
<1>3. TimesIn(job.results) = {}
  BY <1>1, <1>2 DEF TimesIn
<1>4. Flight = {}
  <2>1. \A k, a, t : ~Has(k, a, t)
    BY <1>1, <1>2, <1>3 DEF Has
  <2>2. QED
    BY <2>1 DEF Flight
<1>5. InLine(Flight)
  BY <1>4 DEF InLine
<1>6. QED
  BY <1>1, <1>4, <1>5 DEF Flow

LEMMA NextFlow ==
  ASSUME ClocksGoOn, KInv, EventsPlaced, ReadTimes, Results, Shape, Shape', Flow, [Next]_allVars
  PROVE  Flow'
<1>1. CASE UNCHANGED jobVars
  BY <1>1 DEF Flow, Flight, Has, jobVars
<1>2. CASE Abort
  BY <1>2 DEF Flow, Flight, Has, Abort
<1>3. CASE StartJob
  BY <1>3, StartFlow
<1>4. CASE Goroutines
  BY <1>4, StreamFlow, SearchStepFlow, ReceivesFlow, InputEndsFlow, SendsFlow, TakeFlow, EngineFlow
     DEF Goroutines
<1>5. QED
  BY <1>1, <1>2, <1>3, <1>4 DEF Next, allVars

\* What is appended to the results is earlier than what is there.
LEMMA LaterIsBehind ==
  ASSUME Shape, Results, Flow, engine.at = "add"
  PROVE  \A i \in DOMAIN job.results, l \in DOMAIN engine.result.events :
           Wall(engine.result.events[l].time) < job.results[i].time
<1> DEFINE n == Len(chain)
<1>1. IsStamped(job.results) /\ IsTimed(May, engine.result.events)
  BY DEF Results, IsResult
<1>2. n \in Nat
  <2>1. chain # << >>
    BY DEF Shape
  <2>2. QED
    BY <2>1, LanesApart
<1>3. ASSUME NEW i \in DOMAIN job.results, NEW l \in DOMAIN engine.result.events
      PROVE  Wall(engine.result.events[l].time) < job.results[i].time
  <2> DEFINE s == Wall(engine.result.events[l].time)
             t == job.results[i].time
  <2>1. s \in Nat /\ t \in Nat
    BY <1>1 DEF IsTimed, IsSeen, IsStamped
  <2>2. Has(n + 1, 1, s) /\ Has(n + 2, 1, t)
    BY DEF Has, TimesIn, WallsIn
  <2> HIDE DEF n, s, t
  <2>3. n + 1 \in Nat /\ n + 2 \in Nat /\ 1 \in Nat \ {0}
    BY <1>2
  <2>4. << n + 1, 1, s >> \in Flight /\ << n + 2, 1, t >> \in Flight
    BY <2>1, <2>2, <2>3, FlightIs
  <2>5. n + 1 < n + 2
    BY <1>2
  <2>6. InLine(Flight)
    BY DEF Flow
  <2>7. s < t
    BY <2>4, <2>5, <2>6 DEF InLine
  <2>8. QED
    BY <2>7 DEF s, t
<1>4. QED
  BY <1>3

\* Full pages stay, whatever is done.
LEMMA PagesStay ==
  ASSUME Shape, KInv, Results, ClocksGoOn => Flow, [Next]_allVars, NEW skip \in Nat, NEW take \in Nat
  PROVE  /\ ClocksGoOn /\ skip + take <= Len(job.results) =>
              GetResults(job', skip, take) = GetResults(job, skip, take)
         /\ skip + take <= Len(job.rows) =>
              GetTableResults(job', skip, take) = GetTableResults(job, skip, take)
<1>1. \/ job'.results = job.results /\ job'.rows = job.rows
      \/ /\ engine.at = "add" /\ job'.results = job.results \o Stamps(engine.result.events)
         /\ job'.rows = job.rows
      \/ /\ engine.at = "add" /\ job'.results = job.results
         /\ job'.rows = job.rows \o engine.result.rows
  <2>1. CASE UNCHANGED job
    BY <2>1
  <2>2. CASE StartJob
    BY <2>2, StartsIs
  <2>3. CASE AddResults \/ AddFieldStats \/ SeeClosed \/ SeeCancelled \/ UpdateState
    BY <2>3, EngineIsResults
  <2>4. CASE UNCHANGED jobVars \/ Abort
    BY <2>1, <2>4 DEF jobVars, Abort
  <2>5. CASE Goroutines
    BY <2>1, <2>3, <2>5 DEF Goroutines, OpenStream, QueryPage, StreamOnly, StartSearch, SearchPage, SearchEnds,
       StartSurrounding, Receives, InputEnds, Sends, StepsOnly, TakeResult
  <2>6. QED
    BY <2>2, <2>4, <2>5 DEF Next, allVars
<1>2. ASSUME job'.results = job.results
      PROVE  GetResults(job', skip, take) = GetResults(job, skip, take)
  BY <1>2 DEF GetResults
<1>3. ASSUME job'.rows = job.rows
      PROVE  GetTableResults(job', skip, take) = GetTableResults(job, skip, take)
  BY <1>3 DEF GetTableResults
<1>4. ASSUME engine.at = "add", job'.results = job.results \o Stamps(engine.result.events),
             ClocksGoOn, skip + take <= Len(job.results)
      PROVE  GetResults(job', skip, take) = GetResults(job, skip, take)
  <2> DEFINE new == Stamps(engine.result.events)
  <2>1. IsStamped(job.results) /\ IsTimed(May, engine.result.events)
    BY <1>4 DEF Results, IsResult
  <2>2. /\ IsStamped(new) /\ DOMAIN new = DOMAIN engine.result.events
        /\ \A l \in DOMAIN engine.result.events : new[l].time = Wall(engine.result.events[l].time)
    BY <2>1, StampsAre
  <2>3. \A i \in DOMAIN job.results, l \in DOMAIN engine.result.events :
          Wall(engine.result.events[l].time) < job.results[i].time
    BY <1>4, LaterIsBehind
  <2>4. job'.results = job.results \o new
    BY <1>4
  <2> HIDE DEF new
  <2>5. \A i \in DOMAIN job.results, l \in DOMAIN new : new[l].time < job.results[i].time
    BY <2>2, <2>3
  <2>6. QED
    BY <1>4, <2>1, <2>2, <2>4, <2>5, PageStays, ZenonT(30)
<1>5. ASSUME engine.at = "add", job'.rows = job.rows \o engine.result.rows,
             skip + take <= Len(job.rows)
      PROVE  GetTableResults(job', skip, take) = GetTableResults(job, skip, take)
  <2>1. IsList(job.rows) /\ IsList(engine.result.rows)
    BY <1>5 DEF Results, IsResult
  <2>2. QED
    BY <1>5, <2>1, RowsStay, ZenonT(30)
<1>6. QED
  BY <1>1, <1>2, <1>3, <1>4, <1>5

LEMMA StableStep == KInv /\ Shape /\ Results /\ (ClocksGoOn => Flow) /\ [Next]_allVars =>
  [\A skip \in 0 .. Len(job.results) + Len(job.rows), take \in 1 .. 2 :
     /\ ClocksGoOn /\ skip + take <= Len(job.results) =>
          GetResults(job', skip, take) = GetResults(job, skip, take)
     /\ skip + take <= Len(job.rows) =>
          GetTableResults(job', skip, take) = GetTableResults(job, skip, take)]_job
<1> SUFFICES ASSUME KInv, Shape, Results, ClocksGoOn => Flow, [Next]_allVars,
                    NEW skip \in 0 .. Len(job.results) + Len(job.rows), NEW take \in 1 .. 2
             PROVE  /\ ClocksGoOn /\ skip + take <= Len(job.results) =>
                         GetResults(job', skip, take) = GetResults(job, skip, take)
                    /\ skip + take <= Len(job.rows) =>
                         GetTableResults(job', skip, take) = GetTableResults(job, skip, take)
  OBVIOUS
<1>1. skip \in Nat /\ take \in Nat
  <2>1. Len(job.results) \in Nat /\ Len(job.rows) \in Nat
    BY ListIsList DEF Results, IsStamped
  <2>2. QED
    BY <2>1
<1>2. QED
  BY <1>1, PagesStay

-----------------------------------------------------------------------------
(* How often fields have values: of two batches it is the sum              *)

\* The fields of some maps with their values, and the maps that have one of them.
PairsOf(maps) == UNION { { << k, maps[i][k] >> : k \in DOMAIN maps[i] } : i \in DOMAIN maps }

Where(maps, p) == { i \in DOMAIN maps : p[1] \in DOMAIN maps[i] /\ maps[i][p[1]] = p[2] }

LEMMA StatsIs ==
  ASSUME NEW maps
  PROVE  gatherFieldStats(maps) = [ p \in PairsOf(maps) |-> Cardinality(Where(maps, p)) ]
BY DEF gatherFieldStats, PairsOf, Where

LEMMA PairsAre ==
  ASSUME NEW maps, NEW p
  PROVE  p \in PairsOf(maps) <=> \E i \in DOMAIN maps : \E k \in DOMAIN maps[i] : p = << k, maps[i][k] >>
BY DEF PairsOf

\* One map at least has a field with its value.
LEMMA PairHas ==
  ASSUME NEW maps, NEW p, p = << p[1], p[2] >>
  PROVE  p \in PairsOf(maps) <=> Where(maps, p) # {}
<1>1. ASSUME p \in PairsOf(maps) PROVE Where(maps, p) # {}
  <2>1. PICK i \in DOMAIN maps : \E k \in DOMAIN maps[i] : p = << k, maps[i][k] >>
    BY <1>1, PairsAre
  <2>2. i \in Where(maps, p)
    BY <2>1 DEF Where
  <2>3. QED
    BY <2>2
<1>2. ASSUME NEW i \in Where(maps, p) PROVE p \in PairsOf(maps)
  <2>1. i \in DOMAIN maps /\ p[1] \in DOMAIN maps[i] /\ p = << p[1], maps[i][p[1]] >>
    BY <1>2 DEF Where
  <2>2. QED
    BY <2>1, PairsAre
<1>3. QED
  BY <1>1, <1>2

LEMMA ListFinite ==
  ASSUME NEW s, IsList(s), NEW S \in SUBSET DOMAIN s
  PROVE  IsFiniteSet(S) /\ Cardinality(S) \in Nat
<1> DEFINE n == Len(s)
<1>1. n \in Nat /\ DOMAIN s = 1 .. n
  BY ListIsList
<1> HIDE DEF n
<1>2. 1 \in Int /\ n \in Int
  BY <1>1
<1>3. IsFiniteSet(1 .. n)
  BY <1>2, FS_Interval
<1>4. IsFiniteSet(S)
  BY <1>1, <1>3, FS_Subset
<1>5. QED
  BY <1>4, FS_CardinalityType

LEMMA WhereBoth ==
  ASSUME NEW a, IsList(a), NEW b, IsList(b), NEW p
  PROVE  Cardinality(Where(a \o b, p)) = Cardinality(Where(a, p)) + Cardinality(Where(b, p))
<1> DEFINE c == a \o b
           S == Where(a, p)
           T == Where(b, p)
           U == { Len(a) + i : i \in T }
           f == [ i \in T |-> Len(a) + i ]
<1>1. Len(a) \in Nat /\ DOMAIN a = 1 .. Len(a) /\ Len(b) \in Nat /\ DOMAIN b = 1 .. Len(b)
  BY ListIsList
<1>2. /\ IsList(c) /\ Len(c) = Len(a) + Len(b)
      /\ \A i \in 1 .. Len(a) : c[i] = a[i]
      /\ \A i \in 1 .. Len(b) : c[Len(a) + i] = b[i]
  BY ConcatIsList
<1> HIDE DEF c
<1>3. DOMAIN c = 1 .. Len(a) + Len(b)
  BY <1>2, ListIsList
<1>4. S \in SUBSET (1 .. Len(a)) /\ T \in SUBSET (1 .. Len(b))
  BY <1>1 DEF Where
<1>5. Where(c, p) = S \cup U
  <2>1. ASSUME NEW i \in Where(c, p) PROVE i \in S \cup U
    <3>1. i \in 1 .. Len(a) + Len(b) /\ p[1] \in DOMAIN c[i] /\ c[i][p[1]] = p[2]
      BY <1>3, <2>1 DEF Where
    <3>2. CASE i <= Len(a)
      <4>1. i \in DOMAIN a /\ c[i] = a[i]
        BY <1>1, <1>2, <3>1, <3>2
      <4>2. QED
        BY <3>1, <4>1 DEF Where
    <3>3. CASE i > Len(a)
      <4> DEFINE l == i - Len(a)
      <4>1. l \in 1 .. Len(b) /\ i = Len(a) + l
        BY <1>1, <3>1, <3>3
      <4> HIDE DEF l
      <4>2. l \in DOMAIN b /\ c[i] = b[l]
        BY <1>1, <1>2, <4>1
      <4>3. l \in T
        BY <3>1, <4>2 DEF Where
      <4>4. QED
        BY <4>1, <4>3
    <3>4. QED
      BY <1>1, <3>1, <3>2, <3>3
  <2>2. ASSUME NEW i \in S PROVE i \in Where(c, p)
    <3>1. i \in 1 .. Len(a) /\ p[1] \in DOMAIN a[i] /\ a[i][p[1]] = p[2]
      BY <1>1, <2>2 DEF Where
    <3>2. i \in DOMAIN c /\ c[i] = a[i]
      BY <1>1, <1>2, <1>3, <3>1
    <3>3. QED
      BY <3>1, <3>2 DEF Where
  <2>3. ASSUME NEW l \in T PROVE Len(a) + l \in Where(c, p)
    <3>1. l \in 1 .. Len(b) /\ p[1] \in DOMAIN b[l] /\ b[l][p[1]] = p[2]
      BY <1>1, <2>3 DEF Where
    <3>2. Len(a) + l \in DOMAIN c /\ c[Len(a) + l] = b[l]
      BY <1>1, <1>2, <1>3, <3>1
    <3>3. QED
      BY <3>1, <3>2 DEF Where
  <2>4. QED
    BY <2>1, <2>2, <2>3
<1>6. S \in SUBSET DOMAIN a /\ T \in SUBSET DOMAIN b
  BY <1>1, <1>4
<1> HIDE DEF S, T
<1>7. IsFiniteSet(S) /\ Cardinality(S) \in Nat /\ IsFiniteSet(T) /\ Cardinality(T) \in Nat
  BY <1>6, ListFinite
<1>8. f \in Bijection(T, U)
  <2>1. f \in [T -> U]
    OBVIOUS
  <2>2. \A i, l \in T : f[i] = f[l] => i = l
    BY <1>1, <1>4
  <2>3. \A u \in U : \E i \in T : f[i] = u
    OBVIOUS
  <2>4. QED
    BY <2>1, <2>2, <2>3 DEF Bijection, Injection, Surjection, IsInjective
<1>9. \A i \in S, u \in U : i # u
  BY <1>1, <1>4
<1> HIDE DEF U, f
<1>10. IsFiniteSet(U) /\ Cardinality(U) = Cardinality(T)
  <2>1. ExistsBijection(T, U)
    BY <1>8 DEF ExistsBijection
  <2>2. QED
    BY <1>7, <2>1, FS_Bijection
<1>11. S \cap U = {}
  BY <1>9
<1>12. Cardinality(S \cup U) = Cardinality(S) + Cardinality(U) - Cardinality(S \cap U)
  BY <1>7, <1>10, FS_Union
<1>13. Cardinality(S \cap U) = 0
  BY <1>11, FS_EmptySet
<1>14. QED
  BY <1>5, <1>7, <1>10, <1>12, <1>13 DEF S, T, c

LEMMA WhereNone ==
  ASSUME NEW maps, NEW p, p = << p[1], p[2] >>, p \notin PairsOf(maps)
  PROVE  Cardinality(Where(maps, p)) = 0
BY PairHas, FS_EmptySet

LEMMA PairsBoth ==
  ASSUME NEW a, IsList(a), NEW b, IsList(b)
  PROVE  PairsOf(a \o b) = PairsOf(a) \cup PairsOf(b)
<1> DEFINE c == a \o b
<1>1. Len(a) \in Nat /\ DOMAIN a = 1 .. Len(a) /\ Len(b) \in Nat /\ DOMAIN b = 1 .. Len(b)
  BY ListIsList
<1>2. /\ IsList(c) /\ Len(c) = Len(a) + Len(b)
      /\ \A i \in 1 .. Len(a) : c[i] = a[i]
      /\ \A i \in 1 .. Len(b) : c[Len(a) + i] = b[i]
  BY ConcatIsList
<1> HIDE DEF c
<1>3. DOMAIN c = 1 .. Len(a) + Len(b)
  BY <1>2, ListIsList
<1>4. \A i \in DOMAIN a : i \in DOMAIN c /\ c[i] = a[i]
  BY <1>1, <1>2, <1>3
<1>5. \A i \in DOMAIN b : Len(a) + i \in DOMAIN c /\ c[Len(a) + i] = b[i]
  BY <1>1, <1>2, <1>3
<1>6. ASSUME NEW i \in DOMAIN c
      PROVE  (\E l \in DOMAIN a : c[i] = a[l]) \/ (\E l \in DOMAIN b : c[i] = b[l])
  <2>1. CASE i <= Len(a)
    BY <1>1, <1>2, <1>3, <2>1
  <2>2. CASE i > Len(a)
    <3>1. i - Len(a) \in DOMAIN b /\ Len(a) + (i - Len(a)) = i
      BY <1>1, <1>3, <2>2
    <3>2. QED
      BY <1>5, <3>1
  <2>3. QED
    BY <1>1, <1>3, <2>1, <2>2
<1>7. ASSUME NEW p \in PairsOf(c) PROVE p \in PairsOf(a) \cup PairsOf(b)
  <2>1. PICK i \in DOMAIN c : \E k \in DOMAIN c[i] : p = << k, c[i][k] >>
    BY <1>7, PairsAre
  <2>2. CASE \E l \in DOMAIN a : c[i] = a[l]
    BY <2>1, <2>2, PairsAre
  <2>3. CASE \E l \in DOMAIN b : c[i] = b[l]
    BY <2>1, <2>3, PairsAre
  <2>4. QED
    BY <1>6, <2>2, <2>3
<1>8. ASSUME NEW p \in PairsOf(a) PROVE p \in PairsOf(c)
  <2>1. PICK i \in DOMAIN a : \E k \in DOMAIN a[i] : p = << k, a[i][k] >>
    BY <1>8, PairsAre
  <2>2. QED
    BY <1>4, <2>1, PairsAre
<1>9. ASSUME NEW p \in PairsOf(b) PROVE p \in PairsOf(c)
  <2>1. PICK i \in DOMAIN b : \E k \in DOMAIN b[i] : p = << k, b[i][k] >>
    BY <1>9, PairsAre
  <2>2. Len(a) + i \in DOMAIN c /\ c[Len(a) + i] = b[i]
    BY <1>5
  <2>3. QED
    BY <2>1, <2>2, PairsAre
<1>10. QED
  BY <1>7, <1>8, <1>9 DEF c

\* What AddFieldStats makes of the statistics of two batches is that of both.
LEMMA StatsBoth ==
  ASSUME NEW a, IsList(a), NEW b, IsList(b)
  PROVE  Added(gatherFieldStats(a), gatherFieldStats(b)) = gatherFieldStats(a \o b)
<1> DEFINE A == PairsOf(a)
           B == PairsOf(b)
           s == gatherFieldStats(a)
           t == gatherFieldStats(b)
<1>1. /\ s = [ p \in A |-> Cardinality(Where(a, p)) ]
      /\ t = [ p \in B |-> Cardinality(Where(b, p)) ]
      /\ gatherFieldStats(a \o b) = [ p \in PairsOf(a \o b) |-> Cardinality(Where(a \o b, p)) ]
  BY StatsIs
<1>2. PairsOf(a \o b) = A \cup B
  BY PairsBoth
<1>3. ASSUME NEW p \in A \cup B
      PROVE  (IF p \in A THEN s[p] ELSE 0) + (IF p \in B THEN t[p] ELSE 0) = Cardinality(Where(a \o b, p))
  <2>1. p = << p[1], p[2] >>
    BY <1>3, PairsAre
  <2>2. p \notin A => Cardinality(Where(a, p)) = 0
    BY <2>1, WhereNone
  <2>3. p \notin B => Cardinality(Where(b, p)) = 0
    BY <2>1, WhereNone
  <2>4. Cardinality(Where(a \o b, p)) = Cardinality(Where(a, p)) + Cardinality(Where(b, p))
    BY WhereBoth
  <2> HIDE DEF A, B, s, t
  <2>5. QED
    BY <1>1, <2>2, <2>3, <2>4
<1> HIDE DEF A, B, s, t
<1>4. Added(s, t) = [ p \in A \cup B |-> (IF p \in A THEN s[p] ELSE 0) + (IF p \in B THEN t[p] ELSE 0) ]
  BY <1>1 DEF Added
<1>5. QED
  BY <1>1, <1>2, <1>3, <1>4 DEF s, t

LEMMA NoStats == gatherFieldStats(<< >>) = << >>
<1>1. DOMAIN << >> = {}
  OBVIOUS
<1>2. PairsOf(<< >>) = {}
  BY <1>1 DEF PairsOf
<1>3. gatherFieldStats(<< >>) = [ p \in {} |-> Cardinality(Where(<< >>, p)) ]
  BY <1>2, StatsIs
<1>4. QED
  BY <1>3

-----------------------------------------------------------------------------
(* The statistics of a job are those of what it has taken                  *)

LEMMA MapsAre ==
  ASSUME NEW type, NEW s, IsList(s)
  PROVE  /\ IsList(MapsOf(type, s)) /\ Len(MapsOf(type, s)) = Len(s)
         /\ \A i \in 1 .. Len(s) : MapsOf(type, s)[i] = MapOf(type, s[i])
<1> DEFINE m == MapsOf(type, s)
<1>1. Len(s) \in Nat /\ DOMAIN s = 1 .. Len(s)
  BY ListIsList
<1>2. m = [ i \in 1 .. Len(s) |-> m[i] ] /\ \A i \in 1 .. Len(s) : m[i] = MapOf(type, s[i])
  BY <1>1 DEF MapsOf
<1> HIDE DEF m
<1>3. IsList(m) /\ Len(m) = Len(s)
  BY <1>1, <1>2, FunctionIsList
<1>4. QED
  BY <1>2, <1>3 DEF m

LEMMA SameList ==
  ASSUME NEW s, IsList(s), NEW t, IsList(t), Len(s) = Len(t), \A i \in 1 .. Len(s) : s[i] = t[i]
  PROVE  s = t
<1>1. Len(s) \in Nat /\ s = [ i \in 1 .. Len(s) |-> s[i] ] /\ t = [ i \in 1 .. Len(t) |-> t[i] ]
  BY DEF IsList
<1>2. QED
  BY <1>1

\* A list that begins with one and ends with another is both.
LEMMA ConcatIs ==
  ASSUME NEW u, IsList(u), NEW v, IsList(v), NEW w, IsList(w), Len(w) = Len(u) + Len(v),
         \A i \in 1 .. Len(u) : w[i] = u[i], \A i \in 1 .. Len(v) : w[Len(u) + i] = v[i]
  PROVE  w = u \o v
<1>1. Len(u) \in Nat /\ Len(v) \in Nat
  BY ListIsList
<1>2. /\ IsList(u \o v) /\ Len(u \o v) = Len(u) + Len(v)
      /\ \A i \in 1 .. Len(u) : (u \o v)[i] = u[i]
      /\ \A i \in 1 .. Len(v) : (u \o v)[Len(u) + i] = v[i]
  BY ConcatIsList
<1> DEFINE x == u \o v
<1> HIDE DEF x
<1>3. ASSUME NEW i \in 1 .. Len(w) PROVE w[i] = x[i]
  <2>1. CASE i <= Len(u)
    <3>1. i \in 1 .. Len(u)
      BY <1>1, <2>1
    <3>2. QED
      BY <1>2, <3>1 DEF x
  <2>2. CASE i > Len(u)
    <3> DEFINE l == i - Len(u)
    <3>1. l \in 1 .. Len(v) /\ i = Len(u) + l
      BY <1>1, <2>2
    <3> HIDE DEF l
    <3>2. QED
      BY <1>2, <3>1 DEF x
  <2>3. QED
    BY <1>1, <2>1, <2>2
<1>4. QED
  BY <1>2, <1>3, SameList DEF x

LEMMA MapsBoth ==
  ASSUME NEW type, NEW a, IsList(a), NEW b, IsList(b)
  PROVE  MapsOf(type, a \o b) = MapsOf(type, a) \o MapsOf(type, b)
<1>1. Len(a) \in Nat /\ Len(b) \in Nat
  BY ListIsList
<1>2. /\ IsList(a \o b) /\ Len(a \o b) = Len(a) + Len(b)
      /\ \A i \in 1 .. Len(a) : (a \o b)[i] = a[i]
      /\ \A i \in 1 .. Len(b) : (a \o b)[Len(a) + i] = b[i]
  BY ConcatIsList
<1>3. /\ IsList(MapsOf(type, a)) /\ Len(MapsOf(type, a)) = Len(a)
      /\ \A i \in 1 .. Len(a) : MapsOf(type, a)[i] = MapOf(type, a[i])
      /\ IsList(MapsOf(type, b)) /\ Len(MapsOf(type, b)) = Len(b)
      /\ \A i \in 1 .. Len(b) : MapsOf(type, b)[i] = MapOf(type, b[i])
      /\ IsList(MapsOf(type, a \o b)) /\ Len(MapsOf(type, a \o b)) = Len(a) + Len(b)
      /\ \A i \in 1 .. Len(a) + Len(b) : MapsOf(type, a \o b)[i] = MapOf(type, (a \o b)[i])
  <2>1. /\ IsList(MapsOf(type, a)) /\ Len(MapsOf(type, a)) = Len(a)
        /\ \A i \in 1 .. Len(a) : MapsOf(type, a)[i] = MapOf(type, a[i])
    BY MapsAre
  <2>2. /\ IsList(MapsOf(type, b)) /\ Len(MapsOf(type, b)) = Len(b)
        /\ \A i \in 1 .. Len(b) : MapsOf(type, b)[i] = MapOf(type, b[i])
    BY MapsAre
  <2>3. IsList(a \o b)
    BY <1>2
  <2>4. /\ IsList(MapsOf(type, a \o b)) /\ Len(MapsOf(type, a \o b)) = Len(a \o b)
        /\ \A i \in 1 .. Len(a \o b) : MapsOf(type, a \o b)[i] = MapOf(type, (a \o b)[i])
    BY <2>3, MapsAre
  <2>5. QED
    BY <1>2, <2>1, <2>2, <2>4
<1>4. ASSUME NEW i \in 1 .. Len(a) PROVE MapsOf(type, a \o b)[i] = MapsOf(type, a)[i]
  <2>1. i \in 1 .. Len(a) + Len(b)
    BY <1>1
  <2>2. QED
    BY <1>2, <1>3, <2>1
<1>5. ASSUME NEW i \in 1 .. Len(b) PROVE MapsOf(type, a \o b)[Len(a) + i] = MapsOf(type, b)[i]
  <2>1. Len(a) + i \in 1 .. Len(a) + Len(b)
    BY <1>1
  <2>2. QED
    BY <1>2, <1>3, <2>1
<1>6. /\ IsList(MapsOf(type, a)) /\ IsList(MapsOf(type, b)) /\ IsList(MapsOf(type, a \o b))
      /\ Len(MapsOf(type, a \o b)) = Len(MapsOf(type, a)) + Len(MapsOf(type, b))
      /\ \A i \in 1 .. Len(MapsOf(type, a)) : MapsOf(type, a \o b)[i] = MapsOf(type, a)[i]
      /\ \A i \in 1 .. Len(MapsOf(type, b)) : MapsOf(type, a \o b)[Len(MapsOf(type, a)) + i] = MapsOf(type, b)[i]
  BY <1>3, <1>4, <1>5
<1>7. QED
  BY <1>6, ConcatIs, ZenonT(30)

LEMMA MapsShare ==
  ASSUME NEW r, IsList(Share(r))
  PROVE  Share(r) = Part(job.outputType, r) /\ Maps(r) = MapsOf(job.outputType, Share(r))
<1>1. Share(r) = Part(job.outputType, r)
  BY DEF Share, Part
<1>2. CASE job.outputType = "events"
  BY <1>1, <1>2 DEF Maps, MapsOf, MapOf, Share
<1>3. CASE job.outputType # "events"
  <2>1. Maps(r) = r.rows /\ Share(r) = r.rows
    BY <1>3 DEF Maps, Share
  <2>2. MapsOf(job.outputType, r.rows) = [ i \in DOMAIN r.rows |-> r.rows[i] ]
    BY <1>3 DEF MapsOf, MapOf
  <2>3. r.rows = [ i \in DOMAIN r.rows |-> r.rows[i] ]
    BY <2>1 DEF IsList
  <2>4. QED
    BY <1>1, <2>1, <2>2, <2>3
<1>4. QED
  BY <1>2, <1>3

\* With the counts of a result a job has those of all it has taken.
LEMMA CountsBoth ==
  ASSUME NEW type, NEW front, IsList(front), NEW part, IsList(part), NEW stats, Counts(type, stats, front)
  PROVE  Counts(type, Added(stats, gatherFieldStats(MapsOf(type, part))), front \o part)
<1>1. IsList(MapsOf(type, front)) /\ IsList(MapsOf(type, part))
  BY MapsAre
<1>2. MapsOf(type, front \o part) = MapsOf(type, front) \o MapsOf(type, part)
  BY MapsBoth
<1>3. Added(gatherFieldStats(MapsOf(type, front)), gatherFieldStats(MapsOf(type, part)))
        = gatherFieldStats(MapsOf(type, front) \o MapsOf(type, part))
  BY <1>1, StatsBoth
<1>4. QED
  BY <1>2, <1>3 DEF Counts

LEMMA NoCounts ==
  ASSUME NEW type
  PROVE  Counts(type, << >>, << >>)
<1>1. DOMAIN << >> = {}
  OBVIOUS
<1>2. MapsOf(type, << >>) = [ i \in {} |-> MapOf(type, << >>[i]) ]
  BY <1>1 DEF MapsOf
<1>3. MapsOf(type, << >>) = << >>
  BY <1>2
<1>4. QED
  BY <1>3, NoStats DEF Counts

LEMMA StartCounted ==
  ASSUME KInv, Shape, Counted, StartJob
  PROVE  Counted'
<1> DEFINE compiled == Compile(load.text, load.times)
<1>1. /\ UNCHANGED << delivered >> /\ job.state = "none"
      /\ StartEndless(compiled) \/ StartRefused(compiled) \/ StartRunning(compiled)
  BY DEF StartJob
<1> HIDE DEF compiled
<1>2. chain = << >> /\ engine.at = "off" /\ JobIs(job) /\ EngineIs(engine)
  BY <1>1 DEF Shape
<1>3. delivered = << >> /\ job.stats = << >>
  BY <1>2 DEF Counted
<1>4. job'.stats = job.stats /\ job'.state \in {"none", "refused", "running"} /\ engine'.at \in {"off", "select"}
  <2>1. CASE StartEndless(compiled)
    BY <1>1, <1>2, <2>1 DEF StartEndless
  <2>2. CASE StartRefused(compiled)
    BY <1>2, <2>2 DEF StartRefused, JobIs
  <2>3. CASE StartRunning(compiled)
    <3>1. /\ engine' = [engine EXCEPT !.at = "select"]
          /\ job' = [job EXCEPT !.state = "running", !.outputType = OutputType(chain'),
                                !.sortMode = SortMode(chain'), !.columnOrder = ColumnOrder(chain')]
      BY <2>3 DEF StartRunning
    <3>2. QED
      BY <1>2, <3>1 DEF JobIs, EngineIs
  <2>4. QED
    BY <1>1, <2>1, <2>2, <2>3
<1>5. Counts(job'.outputType, << >>, << >>)
  BY NoCounts
<1>6. QED
  BY <1>1, <1>3, <1>4, <1>5 DEF Counted, Adding

\* What the goroutine of the job does, while nothing fails.
LEMMA EngineIsCounted ==
  ASSUME Shape, AddResults \/ AddFieldStats \/ SeeClosed \/ SeeCancelled \/ UpdateState,
         faults \in Nat, faults' = 0
  PROVE  /\ UNCHANGED << chain, delivered >> /\ faults = 0
         /\ job'.outputType = job.outputType
         /\ \/ /\ engine.at = "add" /\ engine'.at = "stats" /\ engine'.result = engine.result
               /\ job'.stats = job.stats
            \/ /\ engine.at = "stats" /\ engine'.at = "select"
               /\ job'.stats = Added(job.stats, gatherFieldStats(Maps(engine.result)))
            \/ engine.at \in {"select", "write"} /\ engine'.at \in {"write", "end"} /\ job'.stats = job.stats
<1>1. JobIs(job) /\ EngineIs(engine)
  BY SMTT(30) DEF Shape
<1>2. UNCHANGED << chain, delivered >>
  BY DEF AddResults, AddFieldStats, SeeClosed, SeeCancelled, UpdateState, EngineOnly
<1>3. Fails => faults' # 0
  BY DEF Fails
<1>4. Works => faults = 0
  BY DEF Works
<1>5. CASE AddResults
  <2>1. /\ engine.at = "add" /\ engine' = [engine EXCEPT !.at = "stats"] /\ faults = 0
        /\ \/ job' = [job EXCEPT !.results = @ \o Stamps(engine.result.events)]
           \/ job' = [job EXCEPT !.rows = @ \o engine.result.rows]
    BY <1>3, <1>4, <1>5 DEF AddResults, Stamps
  <2>2. QED
    BY <1>1, <1>2, <2>1 DEF JobIs, EngineIs
<1>6. CASE AddFieldStats
  <2>1. /\ engine.at = "stats" /\ engine' = [engine EXCEPT !.at = "select", !.result = NoResult] /\ faults = 0
        /\ job' = [job EXCEPT !.stats = Added(@, gatherFieldStats(Maps(engine.result)))]
    BY <1>3, <1>4, <1>6 DEF AddFieldStats
  <2>2. QED
    BY <1>1, <1>2, <2>1 DEF JobIs, EngineIs
<1>7. CASE SeeClosed \/ SeeCancelled
  <2>1. engine.at = "select" /\ faults = 0 /\ job' = job
        /\ \E state : engine' = [engine EXCEPT !.at = "write", !.state = state]
    BY <1>4, <1>7 DEF SeeClosed, SeeCancelled
  <2>2. QED
    BY <1>1, <1>2, <2>1 DEF EngineIs
<1>8. CASE UpdateState
  <2>1. /\ engine.at = "write" /\ engine' = [engine EXCEPT !.at = "end"] /\ faults = 0
        /\ job' = [job EXCEPT !.state = engine.state] \/ job' = job
    BY <1>3, <1>4, <1>8 DEF UpdateState
  <2>2. QED
    BY <1>1, <1>2, <2>1 DEF JobIs, EngineIs
<1>9. QED
  BY <1>5, <1>6, <1>7, <1>8

LEMMA TakeCounted ==
  ASSUME Shape, Results, Counted, TakeResult
  PROVE  Counted'
<1> DEFINE n == Len(pipes)
           h == Head(pipes[n].buffer)
<1>1. /\ chain # << >> /\ engine.at = "select" /\ delivered' = delivered \o Share(h)
      /\ \/ Share(h) = << >> /\ engine' = engine
         \/ engine'.at = "add" /\ engine'.result = h
      /\ UNCHANGED << chain, job >>
  BY TakesIs
<1> HIDE DEF n, h
<1>2. UNCHANGED faults
  BY DEF TakeResult, Works
<1>3. IsList(delivered)
  BY DEF Results
<1>4. ASSUME Share(h) = << >>
      PROVE  delivered' = delivered
  <2>1. delivered \in Seq({ delivered[i] : i \in DOMAIN delivered })
    BY <1>3 DEF IsList
  <2>2. delivered \o << >> = delivered
    BY <2>1
  <2>3. QED
    BY <1>1, <1>4, <2>2
<1>5. job.state \notin {"finished", "aborted"}
  BY <1>1 DEF Counted
<1>6. faults = 0 => Counts(job.outputType, job.stats, delivered)
  BY <1>1 DEF Counted, Adding
<1>7. CASE Share(h) = << >> /\ engine' = engine
  <2>1. delivered' = delivered
    BY <1>4, <1>7
  <2>2. QED
    BY <1>1, <1>2, <1>7, <2>1 DEF Counted, Adding
<1>8. CASE engine'.at = "add" /\ engine'.result = h
  <2>1. delivered' = delivered \o Part(job'.outputType, engine'.result)
    BY <1>1, <1>8 DEF Share, Part
  <2>2. faults' = 0 => Counts(job'.outputType, job'.stats, delivered)
    BY <1>1, <1>2, <1>6
  <2>3. QED
    BY <1>1, <1>3, <1>5, <1>8, <2>1, <2>2 DEF Counted, Adding
<1>9. QED
  BY <1>1, <1>7, <1>8

LEMMA EngineCounted ==
  ASSUME Shape, Results, Counted, faults \in Nat,
         AddResults \/ AddFieldStats \/ SeeClosed \/ SeeCancelled \/ UpdateState
  PROVE  Counted'
<1>1. UNCHANGED << chain, delivered >>
  BY DEF AddResults, AddFieldStats, SeeClosed, SeeCancelled, UpdateState, EngineOnly
<1>2. engine.at \in {"select", "add", "stats", "write"} /\ chain # << >>
  <2>1. engine.at \in {"select", "add", "stats", "write"}
    BY DEF AddResults, AddFieldStats, SeeClosed, SeeCancelled, UpdateState
  <2>2. QED
    BY <2>1 DEF Shape
<1>3. job'.state \in {"finished", "aborted"} => engine'.at = "end"
  <2>1. job.state \notin {"finished", "aborted"} /\ JobIs(job) /\ EngineIs(engine)
    BY <1>2 DEF Counted, Shape
  <2>2. \/ \E new : job' = job \/ job' = [job EXCEPT !.results = new] \/ job' = [job EXCEPT !.rows = new]
                  \/ job' = [job EXCEPT !.stats = new]
        \/ engine' = [engine EXCEPT !.at = "end"]
    BY DEF AddResults, AddFieldStats, SeeClosed, SeeCancelled, UpdateState
  <2>3. QED
    BY <2>1, <2>2 DEF JobIs, EngineIs
<1>4. ASSUME faults' = 0
      PROVE  /\ ~Adding' => Counts(job'.outputType, job'.stats, delivered')
             /\ Adding' =>
                  \E front : /\ IsList(front) /\ delivered' = front \o Part(job'.outputType, engine'.result)
                             /\ Counts(job'.outputType, job'.stats, front)
  <2>1. /\ faults = 0 /\ job'.outputType = job.outputType
        /\ \/ /\ engine.at = "add" /\ engine'.at = "stats" /\ engine'.result = engine.result
              /\ job'.stats = job.stats
           \/ /\ engine.at = "stats" /\ engine'.at = "select"
              /\ job'.stats = Added(job.stats, gatherFieldStats(Maps(engine.result)))
           \/ engine.at \in {"select", "write"} /\ engine'.at \in {"write", "end"} /\ job'.stats = job.stats
    BY <1>4, EngineIsCounted
  <2>2. CASE /\ engine.at = "add" /\ engine'.at = "stats" /\ engine'.result = engine.result
             /\ job'.stats = job.stats
    BY <1>1, <2>1, <2>2 DEF Counted, Adding
  <2>3. CASE /\ engine.at = "stats" /\ engine'.at = "select"
             /\ job'.stats = Added(job.stats, gatherFieldStats(Maps(engine.result)))
    <3>1. PICK front : /\ IsList(front) /\ delivered = front \o Part(job.outputType, engine.result)
                       /\ Counts(job.outputType, job.stats, front)
      BY <2>1, <2>3 DEF Counted, Adding
    <3>2. IsResult(May, engine.result)
      BY <2>3 DEF Results
    <3>3. IsList(Share(engine.result))
      BY <3>2, ShareIs
    <3>4. /\ Share(engine.result) = Part(job.outputType, engine.result)
          /\ Maps(engine.result) = MapsOf(job.outputType, Share(engine.result))
      BY <3>3, MapsShare
    <3>5. Counts(job.outputType, Added(job.stats, gatherFieldStats(MapsOf(job.outputType, Share(engine.result)))),
                 front \o Share(engine.result))
      BY <3>1, <3>3, CountsBoth
    <3>6. QED
      BY <1>1, <2>1, <2>3, <3>1, <3>4, <3>5 DEF Adding
  <2>4. CASE engine.at \in {"select", "write"} /\ engine'.at \in {"write", "end"} /\ job'.stats = job.stats
    BY <1>1, <2>1, <2>4 DEF Counted, Adding
  <2>5. QED
    BY <2>1, <2>2, <2>3, <2>4
<1>5. QED
  BY <1>1, <1>2, <1>3, <1>4, SMTT(30) DEF Counted

\* Who else takes a step leaves the job alone, and has no fault undone.
LEMMA OthersCounted ==
  ASSUME Counted, UNCHANGED << chain, engine, job, delivered >>, faults' = 0 => faults = 0
  PROVE  Counted'
BY DEF Counted, Adding

LEMMA NextCounted ==
  KInv /\ Shape /\ Stops /\ Stops' /\ Results /\ Counted /\ [Next]_allVars => Counted'
<1> SUFFICES ASSUME KInv, Shape, Stops, Stops', Results, Counted, [Next]_allVars PROVE Counted'
  OBVIOUS
<1>1. faults \in Nat /\ (faults' = 0 => faults = 0)
  <2>1. load.faults \in Nat
    BY PgEventsAssumption DEF KInv, IInv
  <2>2. faults \in Nat
    BY <2>1 DEF Stops
  <2>3. Works \/ Fails \/ UNCHANGED faults
    BY WriteWorks, JobWorks DEF Next, allVars, store, Works
  <2>4. QED
    BY <2>2, <2>3 DEF Works, Fails
<1>2. CASE UNCHANGED jobVars \/ Abort
  <2>1. UNCHANGED << chain, engine, job, delivered >>
    BY <1>2 DEF jobVars, Abort
  <2>2. QED
    BY <1>1, <2>1, OthersCounted
<1>3. CASE StartJob
  BY <1>3, StartCounted
<1>4. CASE Goroutines
  <2>1. CASE TakeResult
    BY <2>1, TakeCounted
  <2>2. CASE AddResults \/ AddFieldStats \/ SeeClosed \/ SeeCancelled \/ UpdateState
    BY <1>1, <2>2, EngineCounted
  <2>3. CASE OpenStream \/ QueryPage \/ StartSearch \/ SearchPage \/ SearchEnds \/ StartSurrounding
    <3>1. UNCHANGED << chain, engine, job, delivered >>
      BY <2>3 DEF OpenStream, QueryPage, StreamOnly, StartSearch, SearchPage, SearchEnds, StartSurrounding, StepsOnly
    <3>2. QED
      BY <1>1, <3>1, OthersCounted
  <2>4. CASE \E i \in DOMAIN chain : Receives(i) \/ InputEnds(i) \/ Sends(i)
    <3>1. UNCHANGED << chain, engine, job, delivered >>
      BY <2>4 DEF Receives, InputEnds, Sends, StepsOnly
    <3>2. QED
      BY <1>1, <3>1, OthersCounted
  <2>5. QED
    BY <1>4, <2>1, <2>2, <2>3, <2>4 DEF Goroutines
<1>5. QED
  BY <1>2, <1>3, <1>4 DEF Next, allVars

LEMMA InitCounted == JobInit => Counted
<1> SUFFICES ASSUME JobInit PROVE Counted
  OBVIOUS
<1>1. job.state = "none" /\ job.stats = << >> /\ delivered = << >> /\ engine.at = "off"
  BY DEF JobInit
<1>2. QED
  BY <1>1, NoCounts DEF Counted, Adding

\* What the fields beside the results show: the values of a field.
HavingKey(maps, key) == { i \in DOMAIN maps : key \in DOMAIN maps[i] }
ValuesOf(maps, key) == { maps[i][key] : i \in HavingKey(maps, key) }
CountOf(maps, key, v) == Cardinality({ i \in HavingKey(maps, key) : maps[i][key] = v })
PairsWith(maps, key) == { p \in PairsOf(maps) : p[1] = key }

LEMMA KeysAre ==
  ASSUME NEW maps
  PROVE  { p[1] : p \in PairsOf(maps) } = UNION { DOMAIN maps[i] : i \in DOMAIN maps }
<1>1. ASSUME NEW p \in PairsOf(maps) PROVE \E i \in DOMAIN maps : p[1] \in DOMAIN maps[i]
  BY PairsAre
<1>2. ASSUME NEW i \in DOMAIN maps, NEW k \in DOMAIN maps[i]
      PROVE  \E p \in PairsOf(maps) : p[1] = k
  <2>1. << k, maps[i][k] >> \in PairsOf(maps)
    BY <1>2, PairsAre
  <2>2. QED
    BY <2>1
<1>3. QED
  BY <1>1, <1>2

LEMMA PairsWithAre ==
  ASSUME NEW maps, NEW key, NEW p
  PROVE  p \in PairsWith(maps, key) <=> \E v \in ValuesOf(maps, key) : p = << key, v >>
<1>1. ASSUME p \in PairsWith(maps, key) PROVE \E v \in ValuesOf(maps, key) : p = << key, v >>
  <2>1. p[1] = key /\ \E i \in DOMAIN maps : \E k \in DOMAIN maps[i] : p = << k, maps[i][k] >>
    BY <1>1, PairsAre DEF PairsWith
  <2>2. PICK i \in DOMAIN maps : key \in DOMAIN maps[i] /\ p = << key, maps[i][key] >>
    BY <2>1
  <2>3. QED
    BY <2>2 DEF ValuesOf, HavingKey
<1>2. ASSUME NEW v \in ValuesOf(maps, key), p = << key, v >> PROVE p \in PairsWith(maps, key)
  <2>1. PICK i \in DOMAIN maps : key \in DOMAIN maps[i] /\ v = maps[i][key]
    BY <1>2 DEF ValuesOf, HavingKey
  <2>2. p \in PairsOf(maps)
    BY <1>2, <2>1, PairsAre
  <2>3. QED
    BY <1>2, <2>2 DEF PairsWith
<1>3. QED
  BY <1>1, <1>2

LEMMA ValuesFinite ==
  ASSUME NEW maps, IsList(maps), NEW key
  PROVE  IsFiniteSet(ValuesOf(maps, key))
<1> DEFINE S == HavingKey(maps, key)
           T == ValuesOf(maps, key)
           f == [ i \in S |-> maps[i][key] ]
<1>1. f \in Surjection(S, T)
  BY DEF Surjection, ValuesOf
<1>2. S \in SUBSET DOMAIN maps
  BY DEF HavingKey
<1> HIDE DEF S, T, f
<1>3. IsFiniteSet(S)
  BY <1>2, ListFinite
<1>4. IsFiniteSet(T)
  BY <1>1, <1>3, FS_Surjection
<1>5. QED
  BY <1>4 DEF T

\* A field has as many pairs as values.
LEMMA ValuesCount ==
  ASSUME NEW maps, IsList(maps), NEW key
  PROVE  Cardinality(PairsWith(maps, key)) = Cardinality(ValuesOf(maps, key))
<1> DEFINE S == ValuesOf(maps, key)
           T == PairsWith(maps, key)
           f == [ v \in S |-> << key, v >> ]
<1>1. \A p : p \in T <=> \E v \in S : p = << key, v >>
  BY PairsWithAre
<1>2. IsFiniteSet(S)
  BY ValuesFinite
<1> HIDE DEF S, T
<1>3. f \in Bijection(S, T)
  <2>1. f \in [S -> T]
    BY <1>1
  <2>2. \A i, l \in S : f[i] = f[l] => i = l
    OBVIOUS
  <2>3. \A p \in T : \E v \in S : f[v] = p
    BY <1>1
  <2>4. QED
    BY <2>1, <2>2, <2>3 DEF Bijection, Injection, Surjection, IsInjective
<1> HIDE DEF f
<1>4. ExistsBijection(S, T)
  BY <1>3 DEF ExistsBijection
<1>5. Cardinality(S) = Cardinality(T)
  BY <1>2, <1>4, FS_Bijection
<1>6. QED
  BY <1>5 DEF S, T

\* What is shown of the fields, from the statistics of some maps.
LEMMA ShownIs ==
  ASSUME NEW maps, IsList(maps), NEW j, j.stats = gatherFieldStats(maps)
  PROVE  /\ DOMAIN GetFieldOccurences(j) = UNION { DOMAIN maps[i] : i \in DOMAIN maps }
         /\ \A key \in DOMAIN GetFieldOccurences(j) :
              /\ GetFieldOccurences(j)[key] = Cardinality(ValuesOf(maps, key))
              /\ GetFieldValues(j, key) =
                   [ v \in ValuesOf(maps, key) |-> CountOf(maps, key, v) ]
<1> DEFINE P == PairsOf(maps)
<1>1. j.stats = [ p \in P |-> Cardinality(Where(maps, p)) ] /\ DOMAIN j.stats = P
  BY StatsIs
<1>2. /\ DOMAIN GetFieldOccurences(j) = { p[1] : p \in P }
      /\ \A key \in { p[1] : p \in P } : GetFieldOccurences(j)[key] = Cardinality(PairsWith(maps, key))
  <2> HIDE DEF P
  <2>1. GetFieldOccurences(j) = [ key \in { p[1] : p \in P } |-> Cardinality({ p \in P : p[1] = key }) ]
    BY <1>1 DEF GetFieldOccurences
  <2>2. \A key : PairsWith(maps, key) = { p \in P : p[1] = key }
    BY DEF PairsWith, P
  <2>3. QED
    BY <2>1, <2>2
<1>3. ASSUME NEW key
      PROVE  GetFieldValues(j, key) =
               [ v \in ValuesOf(maps, key) |-> CountOf(maps, key, v) ]
  <2> DEFINE V == ValuesOf(maps, key)
  <2>1. { p[2] : p \in { q \in DOMAIN j.stats : q[1] = key } } = V
    <3>1. { q \in DOMAIN j.stats : q[1] = key } = PairsWith(maps, key)
      BY <1>1 DEF PairsWith
    <3>2. { p[2] : p \in PairsWith(maps, key) } = V
      <4>1. \A p : p \in PairsWith(maps, key) <=> \E v \in V : p = << key, v >>
        BY PairsWithAre
      <4> HIDE DEF V
      <4>2. \A v \in V : << key, v >> \in PairsWith(maps, key)
        BY <4>1
      <4>3. ASSUME NEW p \in PairsWith(maps, key) PROVE p[2] \in V
        BY <4>1
      <4>4. ASSUME NEW v \in V PROVE \E p \in PairsWith(maps, key) : p[2] = v
        BY <4>2
      <4>5. QED
        BY <4>3, <4>4
    <3>3. QED
      BY <3>1, <3>2
  <2>2. ASSUME NEW v \in V
        PROVE  j.stats[<< key, v >>] = CountOf(maps, key, v)
    <3>1. << key, v >> \in P
      BY PairsWithAre DEF PairsWith
    <3>2. Where(maps, << key, v >>) = { i \in HavingKey(maps, key) : maps[i][key] = v }
      BY DEF Where, HavingKey
    <3> HIDE DEF P
    <3>3. QED
      BY <1>1, <3>1, <3>2 DEF CountOf
  <2>3. GetFieldValues(j, key) = [ v \in V |-> j.stats[<< key, v >>] ]
    BY <2>1, Zenon DEF GetFieldValues
  <2> HIDE DEF V
  <2>4. GetFieldValues(j, key) = [ v \in V |-> CountOf(maps, key, v) ]
    BY <2>2, <2>3
  <2>5. QED
    BY <2>4 DEF V
<1>4. { p[1] : p \in P } = UNION { DOMAIN maps[i] : i \in DOMAIN maps }
  BY KeysAre
<1>5. \A key : Cardinality(PairsWith(maps, key)) = Cardinality(ValuesOf(maps, key))
  BY ValuesCount
<1> HIDE DEF P
<1>6. QED
  BY <1>2, <1>3, <1>4, <1>5

LEMMA StatsMatch == Results /\ Counted => StatsMatchResults
<1> SUFFICES ASSUME Results, Counted, job.state = "finished", faults = 0
             PROVE  LET Map(i) == IF job.outputType = "events" THEN delivered[i].fields ELSE delivered[i]
                        Having(key) == { i \in DOMAIN delivered : key \in DOMAIN Map(i) }
                    IN  /\ DOMAIN GetFieldOccurences(job) = UNION { DOMAIN Map(i) : i \in DOMAIN delivered }
                        /\ \A key \in DOMAIN GetFieldOccurences(job) :
                             LET values == { Map(i)[key] : i \in Having(key) }
                             IN  /\ GetFieldOccurences(job)[key] = Cardinality(values)
                                 /\ GetFieldValues(job, key) =
                                      [ v \in values |-> Cardinality({ i \in Having(key) : Map(i)[key] = v }) ]
  BY DEF StatsMatchResults
<1> DEFINE Map(i) == IF job.outputType = "events" THEN delivered[i].fields ELSE delivered[i]
           Having(key) == { i \in DOMAIN delivered : key \in DOMAIN Map(i) }
           values(key) == { Map(i)[key] : i \in Having(key) }
           maps == MapsOf(job.outputType, delivered)
<1>1. job.stats = gatherFieldStats(maps)
  BY DEF Counted, Adding, Counts
<1>2. IsList(maps)
  BY MapsAre DEF Results
<1>3. DOMAIN maps = DOMAIN delivered /\ \A i \in DOMAIN delivered : maps[i] = Map(i)
  BY DEF MapsOf, MapOf
<1> HIDE DEF maps, Map
<1>4. UNION { DOMAIN maps[i] : i \in DOMAIN maps } = UNION { DOMAIN Map(i) : i \in DOMAIN delivered }
  BY <1>3
<1>5. ASSUME NEW key
      PROVE  HavingKey(maps, key) = Having(key) /\ ValuesOf(maps, key) = values(key)
  <2>1. HavingKey(maps, key) = Having(key)
    BY <1>3 DEF HavingKey
  <2>2. ValuesOf(maps, key) = { maps[i][key] : i \in Having(key) }
    BY <2>1 DEF ValuesOf
  <2>3. \A i \in Having(key) : maps[i] = Map(i)
    BY <1>3
  <2> HIDE DEF Having
  <2>4. QED
    BY <2>1, <2>2, <2>3
<1>6. ASSUME NEW key, NEW v
      PROVE  CountOf(maps, key, v) = Cardinality({ i \in Having(key) : Map(i)[key] = v })
  <2>1. { i \in HavingKey(maps, key) : maps[i][key] = v } = { i \in Having(key) : Map(i)[key] = v }
    BY <1>3, <1>5
  <2>2. QED
    BY <2>1 DEF CountOf
<1>7. /\ DOMAIN GetFieldOccurences(job) = UNION { DOMAIN maps[i] : i \in DOMAIN maps }
      /\ \A key \in DOMAIN GetFieldOccurences(job) :
           /\ GetFieldOccurences(job)[key] = Cardinality(ValuesOf(maps, key))
           /\ GetFieldValues(job, key) =
                [ v \in ValuesOf(maps, key) |-> CountOf(maps, key, v) ]
  BY <1>1, <1>2, ShownIs
<1> HIDE DEF Having, values
<1>8. ASSUME NEW key \in DOMAIN GetFieldOccurences(job)
      PROVE  /\ GetFieldOccurences(job)[key] = Cardinality(values(key))
             /\ GetFieldValues(job, key) =
                  [ v \in values(key) |-> Cardinality({ i \in Having(key) : Map(i)[key] = v }) ]
  <2>1. GetFieldOccurences(job)[key] = Cardinality(values(key))
    BY <1>5, <1>7
  <2>2. GetFieldValues(job, key) =
          [ v \in values(key) |-> CountOf(maps, key, v) ]
    BY <1>5, <1>7
  <2>3. QED
    BY <1>6, <2>1, <2>2
<1>9. QED
  BY <1>4, <1>7, <1>8 DEF Map, Having, values

-----------------------------------------------------------------------------
(* What is in the tables: each event has its own text, and what was stored *)
(* at the start and is not deleted stays, with its key for itself.         *)

LEMMA OwnTextsKept ==
  ASSUME KInv, TextsKept, UNCHANGED load, TablesKeep', DOMAIN writer' = Writers,
         \A w \in Writers : \/ writer'[w] = writer[w]
                            \/ /\ writer'[w].events = writer[w].events /\ writer'[w].at # "raw"
                               /\ writer'[w].raws = writer[w].raws
                            \/ OwnTexts(writer'[w])
  PROVE  TextsKept'
<1>1. Staying' = Staying
  BY DEF Staying
<1>2. ASSUME NEW w \in Writers PROVE OwnTexts(writer'[w])
  BY DEF TextsKept, OwnTexts
<1>3. QED
  BY <1>1, <1>2 DEF TextsKept, OwnTexts, KeysOf

LEMMA SameTables ==
  ASSUME TextsKept, UNCHANGED << load, Events, EventRaws >>
  PROVE  TablesKeep'
BY DEF TextsKept, TablesKeep, Staying

LEMMA StatementTexts ==
  ASSUME KInv, WritersAt, TextsKept, NEW w \in Writers,
         Statement(w) \/ CommitFails(w) \/ StatementFails(w) \/ Receive(w)
  PROVE  TextsKept'
<1> DEFINE old == writer[w]
<1>1. /\ Place(load.deletes, w, old, DOMAIN Events) /\ OwnTexts(old) /\ DOMAIN writer = Writers
      /\ DOMAIN old = Fields
  BY DEF KInv, IInv, TextsKept, WritersAt, WriterAt
<1>2. UNCHANGED load
  BY WriteWorks DEF Write
<1>3. ASSUME NEW r, writer' = [writer EXCEPT ![w] = r], TablesKeep',
             \/ r.events = old.events /\ r.at # "raw" /\ r.raws = old.raws
             \/ OwnTexts(r)
      PROVE  TextsKept'
  <2>1. DOMAIN writer' = Writers /\ writer'[w] = r /\ \A v \in Writers : v # w => writer'[v] = writer[v]
    BY <1>1, <1>3
  <2>2. QED
    BY <1>2, <1>3, <2>1, OwnTextsKept
<1>4. CASE Receive(w)
  <2> DEFINE r == [old EXCEPT !.at = "insert", !.batch = load.batches[w]]
  <2>1. writer' = [writer EXCEPT ![w] = r] /\ UNCHANGED << load, Events, EventRaws >>
    BY <1>4 DEF Receive, Starts, tables
  <2>2. r.events = old.events /\ r.raws = old.raws /\ r.at # "raw"
    BY <1>1 DEF Fields
  <2> HIDE DEF r
  <2>3. QED
    BY <1>3, <2>1, <2>2, SameTables
<1>5. CASE InsertEvent(w)
  <2> DEFINE e == Current(w)
             r == [old EXCEPT !.at = "raw", !.events = Put(@, old.id, e)]
  <2>1. /\ writer' = [writer EXCEPT ![w] = r] /\ old.at = "conflict" /\ ~Known(w, Key(e))
        /\ UNCHANGED << load, Events, EventRaws >>
    BY <1>5 DEF InsertEvent, Same, tables
  <2>2. /\ r.at = "raw" /\ r.id = old.id /\ r.batch = old.batch /\ r.pos = old.pos /\ r.raws = old.raws
        /\ r.events = Put(old.events, old.id, e)
    BY <1>1 DEF Fields
  <2>3. old.id \notin DOMAIN old.raws /\ DOMAIN old.raws = DOMAIN old.events
    BY <1>1, <2>1 DEF Place, KInv, FreshIds
  <2> HIDE DEF r
  <2>4. /\ DOMAIN r.events = DOMAIN old.events \cup {old.id} /\ r.events[old.id] = e
        /\ \A i \in DOMAIN old.events : i # old.id => r.events[i] = old.events[i]
    BY <2>2 DEF Put
  <2>5. \A id \in Staying : Key(load.stored[id]) # Key(e)
    BY <2>1 DEF TextsKept, TablesKeep, Known, KeysOf
  <2>6. \A id \in Staying : Key(load.stored[id]) \notin KeysOf(r.events)
    BY <1>1, <2>4, <2>5 DEF OwnTexts, KeysOf
  <2>7. OwnTexts(r)
    BY <1>1, <2>2, <2>3, <2>4, <2>6 DEF OwnTexts, Current
  <2>8. QED
    BY <1>3, <2>1, <2>7, SameTables
<1>6. CASE DrawId(w) \/ SkipDuplicate(w) \/ InsertRaw(w) \/ (w = Deleter /\ (DeleteEvents \/ DeleteRaws))
  <2>1. PICK r : /\ writer' = [writer EXCEPT ![w] = r] /\ r.at # "raw"
                 /\ r.events = old.events
                 /\ \/ r.raws = old.raws
                    \/ old.at = "raw" /\ r.raws = Put(old.raws, old.id, Current(w).words)
    BY <1>1, <1>6, QuietIs
  <2>2. UNCHANGED << load, Events, EventRaws >>
    BY <1>6 DEF DrawId, SkipDuplicate, InsertRaw, DeleteEvents, DeleteRaws, Same, tables
  <2>3. CASE old.at = "raw" /\ r.raws = Put(old.raws, old.id, Current(w).words)
    <3>1. \A i \in DOMAIN r.raws : r.raws[i] = r.events[i].words
      BY <1>1, <2>1, <2>3 DEF OwnTexts, Current, Put
    <3>2. OwnTexts(r)
      BY <1>1, <2>1, <3>1 DEF OwnTexts
    <3>3. QED
      BY <1>3, <2>1, <2>2, <3>2, SameTables
  <2>4. QED
    BY <1>3, <2>1, <2>2, <2>3, SameTables
<1>7. CASE Commit(w) \/ CommitFails(w) \/ Deadlock(w) \/ StatementFails(w)
  <2>1. PICK reply : writer' = [writer EXCEPT ![w] = [Idle EXCEPT !.reply = reply]]
    BY <1>7 DEF Commit, CommitFails, Deadlock, StatementFails, RollBack, Answered
  <2> DEFINE r == [Idle EXCEPT !.reply = reply]
  <2>2. r.events = << >> /\ r.raws = << >> /\ r.at = "idle"
    BY DEF Idle
  <2>3. writer' = [writer EXCEPT ![w] = r]
    BY <2>1
  <2> HIDE DEF r
  <2>4. OwnTexts(r)
    <3>1. DOMAIN << >> = {}
      OBVIOUS
    <3>2. QED
      BY <2>2, <3>1 DEF OwnTexts, KeysOf
  <2>5. CASE Commit(w)
    <3>1. /\ Events' = Applied(Events, old.gone, old.events) /\ EventRaws' = Applied(EventRaws, old.rawsGone, old.raws)
          /\ old.at # "raw"
      BY <2>5 DEF Commit, Complete
    <3>2. /\ old.gone \subseteq load.deletes /\ old.rawsGone = old.gone /\ DOMAIN old.raws = DOMAIN old.events
          /\ DOMAIN EventRaws = DOMAIN Events
      BY <1>1, <2>5 DEF Commit, Complete, Place, KInv, IInv, Aligned
    <3>3. DOMAIN old.events \cap DOMAIN Events = {}
      BY DEF KInv, FreshIds, Own
    <3>4. /\ DOMAIN Events' = (DOMAIN Events \ old.gone) \cup DOMAIN old.events
          /\ \A i \in DOMAIN Events' :
               \/ i \in DOMAIN old.events /\ Events'[i] = old.events[i] /\ EventRaws'[i] = old.raws[i]
               \/ /\ i \in DOMAIN Events \ old.gone /\ i \notin DOMAIN old.events
                  /\ Events'[i] = Events[i] /\ EventRaws'[i] = EventRaws[i]
      BY <3>1, <3>2 DEF Applied
    <3>5. \A i \in DOMAIN Events' : EventRaws'[i] = Events'[i].words
      BY <1>1, <3>2, <3>4 DEF OwnTexts, TextsKept, TablesKeep
    <3>6. ASSUME NEW id \in Staying
          PROVE  /\ id \in DOMAIN Events' /\ Events'[id] = load.stored[id]
                 /\ \A i \in DOMAIN Events' : Key(Events'[i]) = Key(load.stored[id]) => i = id
      <4>1. id \in DOMAIN Events /\ id \notin old.gone /\ Events[id] = load.stored[id]
        BY <3>2 DEF Staying, TextsKept, TablesKeep
      <4>2. id \in DOMAIN Events' /\ Events'[id] = load.stored[id]
        BY <3>3, <3>4, <4>1
      <4>3. \A i \in DOMAIN old.events : Key(old.events[i]) # Key(load.stored[id])
        BY <1>1 DEF OwnTexts, KeysOf
      <4>4. QED
        BY <3>4, <4>2, <4>3 DEF TextsKept, TablesKeep
    <3>7. TablesKeep'
      BY <1>2, <3>5, <3>6 DEF TablesKeep, Staying
    <3>8. QED
      BY <1>3, <2>3, <2>4, <3>7
  <2>6. CASE ~Commit(w)
    <3>1. UNCHANGED << Events, EventRaws >>
      BY <1>7, <2>6 DEF CommitFails, Deadlock, StatementFails, RollBack, tables
    <3>2. QED
      BY <1>2, <1>3, <2>3, <2>4, <3>1, SameTables
  <2>7. QED
    BY <2>5, <2>6
<1>8. QED
  BY <1>4, <1>5, <1>6, <1>7 DEF Statement

LEMMA NextTexts == KInv /\ WritersAt /\ TextsKept /\ [Next]_allVars => TextsKept'
<1> SUFFICES ASSUME KInv, WritersAt, TextsKept, [Next]_allVars PROVE TextsKept'
  OBVIOUS
<1>1. CASE UNCHANGED << load, Events, EventRaws, writer >>
  BY <1>1 DEF TextsKept, TablesKeep, Staying, OwnTexts
<1>2. CASE PublishEvent \/ TakeEvent \/ Timeout \/ BeginDelete
  <2>1. UNCHANGED << load, Events, EventRaws >> /\ DOMAIN writer' = Writers
    BY <1>2 DEF PublishEvent, TakeEvent, Timeout, BeginDelete, Starts, Same, tables, KInv, IInv
  <2>2. QED
    BY <1>2, <2>1, FeedIs, SameTables, OwnTextsKept
<1>3. CASE StartJob \/ Abort \/ Goroutines
  BY <1>1, <1>3, JobSteps DEF Stored, tables
<1>4. CASE UNCHANGED allVars
  BY <1>1, <1>4 DEF allVars, store
<1>5. QED
  BY <1>2, <1>3, <1>4, StatementTexts DEF Next, Write

LEMMA InitTexts == JobInit => TextsKept
<1> SUFFICES ASSUME JobInit PROVE TextsKept
  OBVIOUS
<1>1. /\ writer = [ w \in Writers |-> Idle ] /\ Events = load.stored /\ load \in Workloads
      /\ EventRaws = [ i \in DOMAIN load.stored |-> load.stored[i].words ]
  BY DEF JobInit, Init
<1>2. \A i, j \in DOMAIN load.stored : i # j => Key(load.stored[i]) # Key(load.stored[j])
  BY <1>1, SearchJobsAssumption
<1>3. TablesKeep
  BY <1>1, <1>2 DEF TablesKeep, Staying
<1>4. Idle.events = << >> /\ Idle.raws = << >> /\ Idle.at = "idle" /\ DOMAIN << >> = {}
  BY DEF Idle
<1>5. OwnTexts(Idle)
  BY <1>4 DEF OwnTexts, KeysOf
<1>6. QED
  BY <1>1, <1>3, <1>5 DEF TextsKept

-----------------------------------------------------------------------------
(* What a step makes of a result, element by element                       *)

LEMMA DescendingHas ==
  ASSUME NEW S, NEW amount, Amounts(S, amount), NEW i \in S
  PROVE  \E n \in 1 .. Cardinality(S) :
           /\ Descending(S, amount)[n] = i /\ Cardinality(Before(S, amount, i)) = n - 1
<1> DEFINE n == Cardinality(Before(S, amount, i)) + 1
<1>1. n \in 1 .. Cardinality(S) /\ Cardinality(Before(S, amount, i)) = n - 1
  <2>1. Cardinality(S) \in Nat
    BY FS_CardinalityType DEF Amounts
  <2>2. QED
    BY <2>1, BeforeIs
<1> HIDE DEF n
<1>2. /\ Descending(S, amount)[n] \in S
      /\ Cardinality(Before(S, amount, Descending(S, amount)[n])) = n - 1
  BY <1>1, DescendingAt
<1>3. Descending(S, amount)[n] = i
  BY <1>1, <1>2, RanksDiffer
<1>4. QED
  BY <1>1, <1>3

LEMMA PickedHas ==
  ASSUME NEW list, IsList(list), NEW S \in SUBSET DOMAIN list
  PROVE  Range(Picked(list, S)) = { list[i] : i \in S }
<1> DEFINE zero == [ i \in DOMAIN list |-> 0 ]
           s == Picked(list, S)
<1>1. \A n \in DOMAIN s : \E i \in S : s[n] = list[i]
  BY PickedIs
<1>2. Amounts(S, zero)
  <2>1. DOMAIN list = 1 .. Len(list) /\ 1 \in Int /\ Len(list) \in Int
    BY ListIsList
  <2>2. IsFiniteSet(S)
    BY <2>1, FS_Interval, FS_Subset
  <2>3. QED
    BY <2>1, <2>2 DEF Amounts
<1>3. s = [ n \in 1 .. Cardinality(S) |-> list[Descending(S, zero)[n]] ]
  BY Zenon DEF Picked
<1> HIDE DEF zero, s
<1>4. ASSUME NEW i \in S PROVE \E n \in DOMAIN s : s[n] = list[i]
  <2>1. PICK n \in 1 .. Cardinality(S) : Descending(S, zero)[n] = i
    BY <1>2, DescendingHas
  <2>2. QED
    BY <1>3, <2>1
<1>5. Range(s) = { list[i] : i \in S }
  BY <1>1, <1>4 DEF Range
<1>6. QED
  BY <1>5 DEF s

HoldsOf(args, e) == Holds(args, e.fields, Lower)
HoldsOn(args, m) == Holds(args, m, LAMBDA k : k)

Rexed(c, e) == [e EXCEPT !.fields = Merged(Found(c.rex, RexText(c.field, e)), @)]

Columns(c, e) ==
  [ f \in Range(c.fields) |-> IF f \in DOMAIN e.fields THEN e.fields[f] ELSE << >> ]

\* The events and the rows a step makes of these.
StepEvents(c, E) ==
  CASE c.name = "where" -> { e \in E : HoldsOf(c.args, e) }
    [] c.name = "table" -> E
    [] c.name = "rex"   -> { Rexed(c, e) : e \in E }

StepRows(c, E, R) ==
  CASE c.name = "where" -> { m \in R : HoldsOn(c.args, m) }
    [] c.name = "table" -> { Columns(c, e) : e \in E }
    [] c.name = "rex"   -> R

LEMMA StepElements ==
  ASSUME NEW c, c.name \in {"rex", "where", "table"}, NEW U, NEW r, IsResult(U, r)
  PROVE  /\ Range(StepResult(c, r).events) = StepEvents(c, Range(r.events))
         /\ Range(StepResult(c, r).rows) = StepRows(c, Range(r.events), Range(r.rows))
<1>1. IsList(r.events) /\ IsList(r.rows)
  BY DEF IsResult, IsTimed
<1>2. CASE c.name = "where"
  <2> DEFINE S == { i \in DOMAIN r.events : HoldsOf(c.args, r.events[i]) }
             T == { i \in DOMAIN r.rows : HoldsOn(c.args, r.rows[i]) }
  <2>1. StepResult(c, r) = WhereResult(c.args, r)
    BY <1>2 DEF StepResult
  <2>2. StepResult(c, r).events = Picked(r.events, S) /\ StepResult(c, r).rows = Picked(r.rows, T)
    BY <2>1 DEF WhereResult, Result, HoldsOf, HoldsOn
  <2>3. Range(Picked(r.events, S)) = { r.events[i] : i \in S } /\ Range(Picked(r.rows, T)) = { r.rows[i] : i \in T }
    BY <1>1, PickedHas
  <2>4. StepEvents(c, Range(r.events)) = { e \in Range(r.events) : HoldsOf(c.args, e) }
        /\ StepRows(c, Range(r.events), Range(r.rows)) = { m \in Range(r.rows) : HoldsOn(c.args, m) }
    BY <1>2 DEF StepEvents, StepRows
  <2>5. { r.events[i] : i \in S } = { e \in Range(r.events) : HoldsOf(c.args, e) }
    BY DEF Range
  <2>6. { r.rows[i] : i \in T } = { m \in Range(r.rows) : HoldsOn(c.args, m) }
    BY DEF Range
  <2> HIDE DEF S, T
  <2>7. QED
    BY <2>2, <2>3, <2>4, <2>5, <2>6
<1>3. CASE c.name = "table"
  <2>1. StepResult(c, r) = TableResult(c.fields, r)
    BY <1>3 DEF StepResult
  <2>2. StepResult(c, r).events = r.events /\ StepResult(c, r).rows = [ i \in DOMAIN r.events |-> Columns(c, r.events[i]) ]
    BY <2>1 DEF TableResult, Result, Columns
  <2>3. QED
    BY <1>3, <2>2 DEF StepEvents, StepRows, Range
<1>4. CASE c.name = "rex"
  <2>1. StepResult(c, r) = RexResult(c, r)
    BY <1>4 DEF StepResult
  <2>2. RexResult(c, r) = Result([ i \in DOMAIN r.events |-> Rexed(c, r.events[i]) ], r.rows)
    BY Zenon DEF RexResult, Rexed
  <2>3. StepResult(c, r).events = [ i \in DOMAIN r.events |-> Rexed(c, r.events[i]) ] /\ StepResult(c, r).rows = r.rows
    BY <2>1, <2>2 DEF Result
  <2>4. QED
    BY <1>4, <2>3 DEF StepEvents, StepRows, Range
<1>5. QED
  BY <1>2, <1>3, <1>4

LEMMA StepWithin ==
  ASSUME NEW c, c.name \in {"rex", "where", "table"}, NEW U, NEW V, NEW q, IsResult(U, q),
         NEW r, IsResult(V, r), Within(q, r)
  PROVE  Within(StepResult(c, q), StepResult(c, r))
<1> DEFINE E == Range(q.events)
           F == Range(r.events)
           R == Range(q.rows)
           T == Range(r.rows)
<1>1. E \subseteq F /\ R \subseteq T
  BY DEF Within
<1> HIDE DEF E, F, R, T
<1>2. StepEvents(c, E) \subseteq StepEvents(c, F) /\ StepRows(c, E, R) \subseteq StepRows(c, F, T)
  BY <1>1 DEF StepEvents, StepRows
<1>3. QED
  BY <1>2, StepElements DEF Within, E, F, R, T

Extracted(e) == [e EXCEPT !.fields = ExtractFields(e)]

LEMMA SearchElements ==
  ASSUME NEW search, NEW page, IsTimed({}, page), NEW r \in SearchResults(search, page)
  PROVE  /\ r.rows = << >>
         /\ \A x \in Range(r.events) : \E i \in DOMAIN page : "in" \in Outcome(search, page[i]) /\ x = Extracted(page[i])
         /\ \A i \in DOMAIN page : Outcome(search, page[i]) = {"in"} => Extracted(page[i]) \in Range(r.events)
<1> DEFINE extracted == [ i \in DOMAIN page |-> [page[i] EXCEPT !.fields = ExtractFields(page[i])] ]
           outcomes == [ i \in DOMAIN page |-> Outcome(search, page[i]) ]
<1>1. PICK S \in SUBSET DOMAIN page :
        /\ r = Result(Picked(extracted, S), << >>)
        /\ \A i \in DOMAIN page : (IF i \in S THEN "in" ELSE "out") \in outcomes[i]
  BY Zenon DEF SearchResults, Outcome
<1>2. \A i \in DOMAIN page : (IF i \in S THEN "in" ELSE "out") \in Outcome(search, page[i])
  BY <1>1
<1>3. DOMAIN extracted = DOMAIN page /\ \A i \in DOMAIN page : extracted[i] = Extracted(page[i])
  BY DEF Extracted
<1>4. IsList(extracted)
  <2>1. Len(page) \in Nat /\ DOMAIN page = 1 .. Len(page)
    BY ListIsList DEF IsTimed
  <2>2. extracted = [ i \in 1 .. Len(page) |-> extracted[i] ]
    BY <2>1
  <2> HIDE DEF extracted
  <2>3. QED
    BY <2>1, <2>2, FunctionIsList
<1> HIDE DEF extracted
<1>5. r.rows = << >> /\ Range(r.events) = { extracted[i] : i \in S }
  BY <1>1, <1>3, <1>4, PickedHas DEF Result
<1>6. QED
  BY <1>2, <1>3, <1>5
-----------------------------------------------------------------------------
(* What the chain makes of one event                                       *)

Fating(f, row) ==
  f = [ n \in DOMAIN chain |-> IF n = 1 THEN Result(<< Extracted(row) >>, << >>)
                               ELSE StepResult(chain[n], f[n - 1]) ]

LEMMA FateIs ==
  ASSUME Shape, chain # << >>, NEW row, IsSeen({}, row)
  PROVE  /\ Fate(row)[1] = Result(<< Extracted(row) >>, << >>)
         /\ \A n \in DOMAIN chain : n > 1 => Fate(row)[n] = StepResult(chain[n], Fate(row)[n - 1])
         /\ \A n \in DOMAIN chain : IsResult({}, Fate(row)[n])
<1> DEFINE first == Result(<< Extracted(row) >>, << >>)
           Goes(f, m) == f = [ n \in 1 .. m |-> IF n = 1 THEN first ELSE StepResult(chain[n], f[n - 1]) ]
           N == { m \in Nat : \E f : Goes(f, m) }
           length == Len(chain)
<1>1. length \in Nat \ {0} /\ DOMAIN chain = 1 .. length /\ IsChain(Atoms, chain)
  BY ChainIs
<1> HIDE DEF length, first
<1>2. 0 \in N
  <2>1. Goes(<< >>, 0)
    OBVIOUS
  <2>2. QED
    BY <2>1
<1>3. ASSUME NEW m \in N PROVE m + 1 \in N
  <2>1. m \in Nat
    OBVIOUS
  <2>2. PICK f : Goes(f, m)
    OBVIOUS
  <2> DEFINE new(n) == IF n = m + 1 THEN (IF n = 1 THEN first ELSE StepResult(chain[n], f[m])) ELSE f[n]
             g == [ n \in 1 .. m + 1 |-> new(n) ]
  <2>3. ASSUME NEW n \in 1 .. m + 1
        PROVE  g[n] = IF n = 1 THEN first ELSE StepResult(chain[n], g[n - 1])
    <3>1. CASE n = m + 1
      <4>1. n # 1 => n - 1 \in 1 .. m + 1 /\ n - 1 = m /\ m # m + 1
        BY <2>1, <3>1
      <4>2. QED
        BY <3>1, <4>1
    <3>2. CASE n # m + 1
      <4>1. n \in 1 .. m /\ (n # 1 => n - 1 \in 1 .. m + 1 /\ n - 1 # m + 1)
        BY <2>1, <3>2
      <4>2. f[n] = IF n = 1 THEN first ELSE StepResult(chain[n], f[n - 1])
        BY <2>2, <4>1
      <4>3. QED
        BY <3>2, <4>1, <4>2
    <3>3. QED
      BY <3>1, <3>2
  <2>4. g = [ n \in 1 .. m + 1 |-> g[n] ]
    OBVIOUS
  <2> HIDE DEF g
  <2>5. Goes(g, m + 1)
    BY <2>3, <2>4
  <2>6. QED
    BY <2>1, <2>5
<1>4. \E f : Goes(f, length)
  <2> HIDE DEF N
  <2>1. N \in SUBSET Nat
    BY DEF N
  <2>2. length \in N
    BY <1>1, <1>2, <1>3, <2>1, Induction
  <2>3. QED
    BY <2>2 DEF N
<1>5. \E f : Fating(f, row)
  BY <1>1, <1>4 DEF Fating, first
<1>6. Fate(row) = CHOOSE f : Fating(f, row)
  BY DEF Fate, Fating, Extracted
<1> DEFINE f == Fate(row)
<1>7. Fating(f, row)
  BY <1>5, <1>6
<1> HIDE DEF f, N, Goes
<1>8. f[1] = first
  BY <1>1, <1>7 DEF Fating, first
<1>9. \A n \in DOMAIN chain : n > 1 => f[n] = StepResult(chain[n], f[n - 1])
  BY <1>1, <1>7, SMTT(30) DEF Fating
<1>10. \A n \in DOMAIN chain : IsResult({}, f[n])
  <2> DEFINE M == { m \in Nat : m + 1 \in 1 .. length => IsResult({}, f[m + 1]) }
  <2>1. 0 \in M
    <3>1. IsTimed({}, << Extracted(row) >>)
      <4>1. IsList(<< Extracted(row) >>)
        BY DEF IsList
      <4>2. IsSeen({}, Extracted(row))
        BY DEF IsSeen, Extracted
      <4> DEFINE e == Extracted(row)
      <4> HIDE DEF e
      <4>3. \A i \in DOMAIN << e >> : << e >>[i] = e
        OBVIOUS
      <4>4. QED
        BY <4>1, <4>2, <4>3 DEF IsTimed, e
    <3>2. IsResult({}, first)
      BY <3>1, EmptyBuffer DEF first, Result, IsResult
    <3>3. QED
      BY <1>8, <3>2
  <2>2. ASSUME NEW m \in M PROVE m + 1 \in M
    <3>1. m \in Nat
      OBVIOUS
    <3>2. ASSUME (m + 1) + 1 \in 1 .. length PROVE IsResult({}, f[(m + 1) + 1])
      <4> DEFINE n == m + 2
      <4>1. n \in 2 .. length /\ n - 1 = m + 1 /\ m + 1 \in 1 .. length /\ n = (m + 1) + 1
        BY <1>1, <3>1, <3>2
      <4>2. IsResult({}, f[n - 1])
        BY <4>1
      <4> HIDE DEF n
      <4>3. f[n] = StepResult(chain[n], f[n - 1]) /\ n \in 1 .. length
        BY <1>1, <1>9, <4>1
      <4>4. chain[n].name \in {"rex", "where", "table"}
        BY <1>1, <4>1 DEF IsChain, length
      <4>5. QED
        BY <4>1, <4>2, <4>3, <4>4, StepResultIs
    <3>3. QED
      BY <3>1, <3>2
  <2>3. M = Nat
    <3> HIDE DEF M
    <3>1. M \in SUBSET Nat
      BY DEF M
    <3>2. QED
      BY <2>1, <2>2, <3>1, Induction
  <2>4. ASSUME NEW n \in 1 .. length PROVE IsResult({}, f[n])
    <3>1. n - 1 \in Nat /\ (n - 1) + 1 = n
      BY <1>1
    <3>2. n - 1 \in M
      BY <2>3, <3>1
    <3>3. QED
      BY <3>1, <3>2
  <2>5. QED
    BY <1>1, <2>4
<1>11. QED
  BY <1>8, <1>9, <1>10 DEF f, first

-----------------------------------------------------------------------------
(* A page has what is to be found                                          *)

LEMMA SteadyStays ==
  ASSUME KInv, TextsKept, NEW id \in DOMAIN load.stored, Steady(id)
  PROVE  /\ id \in DOMAIN Events /\ Events[id] = load.stored[id] /\ id \in DOMAIN EventRaws
         /\ EventRaws[id] = load.stored[id].words /\ IsPlaced(load.stored[id]) /\ id # 0
         /\ \A j \in DOMAIN Events : Events[j] \in Possible /\ Events[j].time = load.stored[id].time => j = id
<1>1. id \in Staying /\ load \in Workloads
  BY DEF Steady, Staying, KInv, IInv
<1>2. /\ id \in DOMAIN Events /\ Events[id] = load.stored[id] /\ EventRaws[id] = load.stored[id].words
      /\ \A j \in DOMAIN Events : Key(Events[j]) = Key(load.stored[id]) => j = id
  BY <1>1 DEF TextsKept, TablesKeep
<1>3. id \in DOMAIN EventRaws /\ IsPlaced(load.stored[id])
  BY <1>1, <1>2, SearchJobsAssumption DEF KInv, IInv, Aligned
<1>4. id # 0
  <2>1. DOMAIN Events \subseteq 1 .. seq /\ seq \in Int
    BY DEF KInv, IInv, FreshIds
  <2>2. QED
    BY <1>2, <2>1
<1>5. \A e \in Possible : e.time = load.stored[id].time => Key(e) = Key(load.stored[id])
  BY DEF Steady
<1>6. QED
  BY <1>2, <1>3, <1>4, <1>5

\* It is on the page, or the page is full of what is later.
LEMMA PageHas ==
  ASSUME KInv, EventsPlaced, TextsKept, NEW id \in DOMAIN load.stored, Steady(id), NEW step,
         Finds(step, load.stored[id], load.stored[id].words), NEW maxId, id <= maxId,
         NEW last, \A t \in last : load.stored[id].time < t,
         NEW all \in Page(step, maxId, last)
  PROVE  /\ IsList(all) /\ all # << >> /\ Len(all) \in DOMAIN all
         /\ \/ \E n \in DOMAIN all : all[n] = id
            \/ Len(all) = PageSize /\ load.stored[id].time < Events[all[Len(all)]].time
<1> DEFINE S == { i \in DOMAIN Events :
                    i <= maxId /\ Matches(step, i) /\ \A t \in last : Events[i].time < t }
           times == TimesOf(Events)
           n == Len(all)
<1>1. all \in Pages(S, times, 0, PageSize)
  BY DEF Page, Newest
<1>2. id \in S /\ S \in SUBSET DOMAIN Events /\ Events[id] = load.stored[id]
  BY SteadyStays DEF Matches
<1> HIDE DEF S
<1>3. \A i \in DOMAIN Events : times[i] = Events[i].time /\ times[i] \in Nat /\ Events[i] \in Possible
  BY DEF TimesOf, EventsPlaced, AllPlaced, IsPlaced
<1>4. Amounts(S, times)
  BY <1>2, <1>3, IdsAre DEF Amounts
<1> HIDE DEF times
<1>5. PageSize \in Nat \ {0} /\ 0 \in Nat
  BY SearchJobsAssumption
<1>6. IsList(all) /\ all \in Seq(S) /\ DOMAIN all = 1 .. n /\ n \in Nat
  BY <1>1, <1>4, <1>5, PageIsList, ListIsList DEF Amounts
<1> HIDE DEF n
<1>7. ASSUME \A k \in DOMAIN all : all[k] # id
      PROVE  n = PageSize /\ n \in DOMAIN all /\ load.stored[id].time < Events[all[n]].time
  <2>1. n = PageSize /\ \A k \in DOMAIN all : times[all[k]] >= times[id]
    BY <1>1, <1>2, <1>4, <1>5, <1>7, PageMisses DEF n
  <2>2. n \in DOMAIN all
    BY <1>5, <1>6, <2>1
  <2> DEFINE j == all[n]
  <2>3. j \in S /\ j # id /\ times[j] >= times[id]
    BY <1>6, <1>7, <2>1, <2>2
  <2> HIDE DEF j
  <2>4. /\ times[j] = Events[j].time /\ times[j] \in Nat /\ Events[j] \in Possible
        /\ times[id] = load.stored[id].time /\ times[id] \in Nat
    BY <1>2, <1>3, <2>3
  <2>5. Events[j].time # load.stored[id].time
    BY <1>2, <2>3, <2>4, SteadyStays
  <2>6. load.stored[id].time < Events[j].time
    BY <2>3, <2>4, <2>5
  <2>7. QED
    BY <2>1, <2>2, <2>6 DEF j
<1>8. n \in DOMAIN all
  BY <1>6, <1>7
<1>9. QED
  BY <1>6, <1>7, <1>8 DEF n

-----------------------------------------------------------------------------
(* Nothing is missed.  What a search wants is ahead of the stream, or on   *)
(* the page, or in a lane, or with the goroutine of the job, or shown.     *)

LEMMA ShownWithin ==
  ASSUME NEW q, NEW r, Within(q, r), NEW type
  PROVE  Shown(type, q) \subseteq Shown(type, r)
BY DEF Shown, Within

\* What does not change with the state of the goroutines.
LEMMA SameWants ==
  ASSUME UNCHANGED << load, chain >>, NEW id
  PROVE  /\ Wants(id)' <=> Wants(id)
         /\ OwnRow(id)' = OwnRow(id) /\ Fate(OwnRow(id))' = Fate(OwnRow(id))
<1>1. OwnRow(id)' = OwnRow(id)
  BY DEF OwnRow
<1>2. Fate(OwnRow(id))' = Fate(OwnRow(id))
  BY <1>1 DEF Fate
<1>3. Steady(id)' <=> Steady(id)
  BY DEF Steady, Possible, Written
<1>4. Wants(id)' <=> Wants(id)
  BY <1>1, <1>3 DEF Wants
<1>5. QED
  BY <1>1, <1>2, <1>4

\* The way of one event is enough, where the chain stays.
LEMMA UnderwayMoves ==
  ASSUME KInv, Shape, Underway, UNCHANGED << load, chain >>, chain # << >>,
         stream'.at \in {"off", "max"} => stream'.last = {},
         job'.state = "finished" => engine'.state = "finished" /\ engine'.at = "end",
         engine'.state = "finished" => Up' \/ cancelled',
         Untroubled' => Untroubled,
         \A id \in DOMAIN load.stored : \A fate :
           Untroubled /\ Untroubled' /\ Wants(id) /\ Arrives(id, fate) /\ fate = Fate(OwnRow(id))
             => Arrives(id, fate)'
  PROVE  Underway'
<1>1. ASSUME Untroubled', NEW id \in DOMAIN load.stored, Wants(id)'
      PROVE  Arrives(id, Fate(OwnRow(id)))'
  <2>1. PICK fate : fate = Fate(OwnRow(id))
    OBVIOUS
  <2>2. Wants(id) /\ Fate(OwnRow(id))' = fate /\ Untroubled
    BY <1>1, <2>1, SameWants
  <2>3. Arrives(id, fate)
    BY <2>1, <2>2 DEF Underway
  <2>4. Arrives(id, fate)'
    BY <1>1, <2>1, <2>2, <2>3
  <2>5. QED
    BY <2>2, <2>4 DEF Arrives, InLanes, AtJob
<1>2. QED
  BY <1>1 DEF Underway

LEMMA Untroubles ==
  ASSUME Stops, UNCHANGED << chain, cancelled >>, Up,
         Works \/ Fails \/ (UNCHANGED faults /\ crash' # "no"), Untroubled'
  PROVE  Untroubled /\ Works
<1>1. faults \in Nat
  BY SMTT(30) DEF Stops
<1>2. Works
  BY <1>1 DEF Works, Fails, Untroubled, Up
<1>3. QED
  BY <1>2 DEF Works, Untroubled, Up, Searching

\* A step of the stream or of a step of the chain.
LEMMA OwnUnderway ==
  ASSUME KInv, Shape, Ended, Stops, Underway, chain # << >>,
         UNCHANGED << load, chain, engine, cancelled, job >>, Up,
         Works \/ Fails \/ (UNCHANGED faults /\ crash' # "no" /\ \E i \in DOMAIN chain : steps[i].at # "end"),
         stream'.at \in {"off", "max"} => stream'.last = {},
         \A id \in DOMAIN load.stored : \A fate :
           Untroubled /\ Works /\ Wants(id) /\ (Coming(id) \/ InLanes(fate)) /\ fate = Fate(OwnRow(id))
             => Coming(id)' \/ InLanes(fate)' \/ AtJob(fate)'
  PROVE  Underway'
<1>1. ASSUME Untroubled' PROVE Untroubled /\ Works
  BY <1>1, Untroubles, Zenon
<1>2. engine'.state = "finished" => Up' \/ cancelled'
  <2>1. CASE Works \/ Fails
    BY <2>1 DEF Works, Fails, Up
  <2>2. CASE \E i \in DOMAIN chain : steps[i].at # "end"
    BY <2>2 DEF Ended, AllDone, StepDone
  <2>3. QED
    BY <2>1, <2>2
<1>3. ASSUME NEW id \in DOMAIN load.stored, NEW fate, Untroubled, Untroubled', Wants(id), Arrives(id, fate),
             fate = Fate(OwnRow(id))
      PROVE  Arrives(id, fate)'
  <2>1. CASE AtJob(fate)
    BY <2>1 DEF Arrives, AtJob, Content, Shown
  <2>2. CASE Coming(id) \/ InLanes(fate)
    BY <1>1, <1>3, <2>2 DEF Arrives
  <2>3. QED
    BY <1>3, <2>1, <2>2 DEF Arrives
<1>4. job'.state = "finished" => engine'.state = "finished" /\ engine'.at = "end"
  BY DEF Underway
<1>5. \A id \in DOMAIN load.stored : \A fate :
        Untroubled /\ Untroubled' /\ Wants(id) /\ Arrives(id, fate) /\ fate = Fate(OwnRow(id))
          => Arrives(id, fate)'
  BY <1>3
<1>6. Untroubled' => Untroubled
  BY <1>1
<1>7. QED
  BY <1>2, <1>4, <1>5, <1>6, UnderwayMoves

LEMMA LanesMove ==
  ASSUME UNCHANGED chain, NEW fate, InLanes(fate),
         \A k \in DOMAIN chain : \A r : InLane(steps[k], pipes[k], r) => InLane(steps'[k], pipes'[k], r)
  PROVE  InLanes(fate)'
BY DEF InLanes

LEMMA StreamUnderway ==
  ASSUME KInv, EventsPlaced, TextsKept, Shape, Ended, Stops, Underway, OpenStream \/ QueryPage
  PROVE  Underway'
<1>1. /\ UNCHANGED << load, chain, steps, pipes, engine, cancelled, job >> /\ Up
      /\ (Works \/ Fails) /\ stream.at \in {"max", "query"}
  BY SMTT(30) DEF OpenStream, QueryPage, StreamOnly, Stored
<1>2. chain # << >> /\ DOMAIN stream = {"at", "maxId", "last", "page"}
  BY <1>1 DEF Shape, StreamIs
<1>3. stream'.at \notin {"off", "max"}
  <2>1. \/ \E maxId : stream' = [stream EXCEPT !.at = "query", !.maxId = maxId]
        \/ stream' = [stream EXCEPT !.at = "end"]
        \/ \E page, last : stream' = [stream EXCEPT !.at = "send", !.page = page, !.last = last]
    BY QueryReads DEF OpenStream, HasRead
  <2>2. QED
    BY <1>2, <2>1
<1>4. ASSUME NEW id \in DOMAIN load.stored, NEW fate, Untroubled, Works, Wants(id), Coming(id) \/ InLanes(fate)
      PROVE  Coming(id)' \/ InLanes(fate)'
  <2>0. /\ id \in DOMAIN Events /\ Events[id] = load.stored[id] /\ faults' = faults
        /\ Steady(id) /\ OwnRow(id)' = OwnRow(id) /\ ~Fails
    <3>1. faults' = faults
      BY <1>4 DEF Works
    <3>2. ~Fails
      BY <1>4, <3>1 DEF Fails, Untroubled
    <3>3. QED
      BY <1>1, <1>4, <3>1, <3>2, SteadyStays DEF Wants, OwnRow
  <2>1. CASE InLanes(fate)
    BY <1>1, <2>1 DEF InLanes
  <2>2. CASE steps[1].at = "start"
    BY <1>1, <2>2 DEF Coming
  <2>3. CASE stream.at = "max"
    <3>1. OpenStream /\ stream.last = {}
      BY <2>3 DEF QueryPage, Underway
    <3>2. Events # << >>
      <4>1. DOMAIN << >> = {}
        OBVIOUS
      <4>2. QED
        BY <2>0, <4>1
    <3> DEFINE maxId == CHOOSE i \in DOMAIN Events : \A j \in DOMAIN Events : j <= i
    <3>3. stream' = [stream EXCEPT !.at = "query", !.maxId = maxId]
      BY <2>0, <3>1, <3>2 DEF OpenStream
    <3>4. \E i \in DOMAIN Events : \A j \in DOMAIN Events : j <= i
      <4>1. DOMAIN Events \in SUBSET (1 .. seq) /\ seq \in Nat /\ DOMAIN Events # {}
        BY <2>0 DEF KInv, IInv, FreshIds
      <4>2. QED
        BY <4>1, GreatestNumber
    <3>5. id <= maxId
      BY <2>0, <3>4
    <3> HIDE DEF maxId
    <3>6. stream'.at = "query" /\ stream'.maxId = maxId /\ stream'.last = {}
      BY <1>2, <3>1, <3>3
    <3>7. QED
      BY <3>5, <3>6 DEF Coming, Unread
  <2>4. CASE stream.at = "query" /\ Unread(id, stream)
    <3>1. QueryPage
      BY <2>4 DEF OpenStream
    <3>2. PICK all \in Page(chain[1], stream.maxId, stream.last) : \E n \in 0 .. Len(all) :
            HasRead(SubSeq(all, 1, n)) /\ n = Len(all)
      BY <1>4, <2>0, <3>1, QueryReads DEF Untroubled
    <3>3. /\ IsList(all) /\ all # << >>
          /\ \/ \E n \in DOMAIN all : all[n] = id
             \/ Len(all) = PageSize /\ load.stored[id].time < Events[all[Len(all)]].time
      BY <1>4, <2>0, <2>4, PageHas DEF Wants, Unread
    <3>4. SubSeq(all, 1, Len(all)) = all
      <4>1. Len(all) \in 0 .. Len(all)
        BY <3>3, ListIsList
      <4>2. QED
        BY <3>3, <4>1, PartIs
    <3>5. HasRead(all)
      BY <3>2, <3>4
    <3>6. /\ stream'.at = "send" /\ stream'.page = Rows(all) /\ stream'.maxId = stream.maxId
          /\ stream'.last = {Events[all[Len(all)]].time}
      BY <1>2, <3>3, <3>5 DEF HasRead
    <3>7. CASE \E n \in DOMAIN all : all[n] = id
      <4>1. OwnRow(id) \in Range(Rows(all))
        BY <2>0, <3>7 DEF Range, Rows, Row, OwnRow
      <4>2. OwnRow(id)' \in Range(stream'.page)
        BY <2>0, <3>6, <4>1
      <4>3. QED
        BY <3>6, <4>2 DEF Coming
    <3>8. CASE Len(all) = PageSize /\ load.stored[id].time < Events[all[Len(all)]].time
      <4>1. Len(Rows(all)) = Len(all)
        BY <3>3, RowsAre
      <4>2. Unread(id, stream)'
        BY <1>1, <2>4, <3>6, <3>8 DEF Unread
      <4>3. QED
        BY <3>6, <3>8, <4>1, <4>2 DEF Coming, Unread
    <3>9. QED
      BY <3>3, <3>7, <3>8
  <2>5. QED
    BY <1>1, <1>4, <2>1, <2>2, <2>3, <2>4 DEF Coming
<1>5. \A id \in DOMAIN load.stored : \A fate :
        Untroubled /\ Works /\ Wants(id) /\ (Coming(id) \/ InLanes(fate)) /\ fate = Fate(OwnRow(id))
          => Coming(id)' \/ InLanes(fate)' \/ AtJob(fate)'
  BY <1>4
<1>6. /\ UNCHANGED << load, chain, engine, cancelled, job >> /\ Up
      /\ Works \/ Fails \/ (UNCHANGED faults /\ crash' # "no" /\ \E i \in DOMAIN chain : steps[i].at # "end")
      /\ stream'.at \in {"off", "max"} => stream'.last = {}
  BY <1>1, <1>3
<1>7. QED
  BY <1>2, <1>5, <1>6, OwnUnderway

LEMMA EndsLanes ==
  ASSUME Shape, UNCHANGED chain, NEW i \in DOMAIN chain, Ends(i), steps[i].at # "send", NEW fate, InLanes(fate)
  PROVE  InLanes(fate)'
<1>1. /\ \A j \in DOMAIN chain : j # i => steps'[j] = steps[j]
      /\ \A j \in DOMAIN chain : pipes'[j].buffer = pipes[j].buffer
  BY EndsIs
<1>2. \A k \in DOMAIN chain : \A r : InLane(steps[k], pipes[k], r) => InLane(steps'[k], pipes'[k], r)
  BY <1>1 DEF InLane
<1>3. QED
  BY <1>2, LanesMove

\* The fate of what is wanted.
LEMMA OwnFate ==
  ASSUME KInv, TextsKept, Shape, chain # << >>, NEW id \in DOMAIN load.stored, Wants(id)
  PROVE  LET fate == Fate(OwnRow(id))
         IN  /\ Range(fate[1].events) = {Extracted(OwnRow(id))} /\ Range(fate[1].rows) = {}
             /\ \A n \in DOMAIN chain : n > 1 => fate[n] = StepResult(chain[n], fate[n - 1])
             /\ \A n \in DOMAIN chain : IsResult({}, fate[n])
<1> DEFINE row == OwnRow(id)
<1>1. IsSeen({}, row)
  BY SteadyStays DEF Wants, OwnRow, RowOf, IsSeen, IsPlaced
<1> HIDE DEF row
<1>2. /\ Fate(row)[1] = Result(<< Extracted(row) >>, << >>)
      /\ \A n \in DOMAIN chain : n > 1 => Fate(row)[n] = StepResult(chain[n], Fate(row)[n - 1])
      /\ \A n \in DOMAIN chain : IsResult({}, Fate(row)[n])
  BY <1>1, FateIs
<1>3. Fate(row)[1].events = << Extracted(row) >> /\ Fate(row)[1].rows = << >>
  BY <1>2 DEF Result
<1>4. Range(Fate(row)[1].events) = {Extracted(row)} /\ Range(Fate(row)[1].rows) = {}
  BY <1>3 DEF Range
<1>5. QED
  BY <1>2, <1>4 DEF row

LEMMA SearchUnderway ==
  ASSUME KInv, TextsKept, Shape, Results, Ended, Stops, Underway,
         StartSearch \/ SearchPage \/ SearchEnds \/ StartSurrounding
  PROVE  Underway'
<1>1. /\ UNCHANGED << load, chain, engine, cancelled, job >> /\ Up /\ steps # << >>
      /\ steps[1].at \in {"start", "select"}
  BY DEF StartSearch, SearchPage, SearchEnds, StartSurrounding, StepsOnly, Stored
<1>2. 1 \in DOMAIN chain /\ chain # << >> /\ DOMAIN stream = {"at", "maxId", "last", "page"} /\ DOMAIN steps = DOMAIN chain
      /\ StreamIs(stream) /\ Goroutine(1, steps[1], pipes[1])
  BY <1>1, FirstStep DEF Shape, StreamIs
<1>3. Works \/ Fails \/ (UNCHANGED faults /\ crash' # "no" /\ \E i \in DOMAIN chain : steps[i].at # "end")
  BY <1>1, <1>2 DEF StartSearch, SearchPage, SearchEnds, StartSurrounding
<1>4. stream'.at \in {"off", "max"} => stream'.last = {}
  <2>1. \/ UNCHANGED stream
        \/ StartSearch /\ stream' = [stream EXCEPT !.at = "max"]
        \/ stream' = [stream EXCEPT !.at = IF Len(stream.page) < PageSize THEN "end" ELSE "query"]
    BY DEF StartSearch, SearchPage, SearchEnds, StartSurrounding
  <2>2. StartSearch => stream.at = "off"
    BY <1>2 DEF StartSearch, Ended, ReaderEnds
  <2>3. QED
    BY <1>2, <2>1, <2>2 DEF Underway
<1>5. ASSUME NEW id \in DOMAIN load.stored, NEW fate, Untroubled, Works, Wants(id), Coming(id) \/ InLanes(fate),
             fate = Fate(OwnRow(id))
      PROVE  Coming(id)' \/ InLanes(fate)'
  <2>1. chain[1].name = "search" /\ ~Fails /\ crash' = "no" /\ ~cancelled
    BY <1>5 DEF Fails, Works, Untroubled, Searching, Up
  <2>2. OwnRow(id)' = OwnRow(id)
    BY <1>1 DEF OwnRow
  <2>3. CASE StartSearch
    <3>1. stream' = [stream EXCEPT !.at = "max"]
      BY <2>1, <2>3 DEF StartSearch
    <3>2. QED
      BY <1>2, <3>1 DEF Coming
  <2>4. CASE SearchPage
    <3>1. /\ stream.at = "send" /\ steps[1].at = "select" /\ UNCHANGED pipes
          /\ stream' = [stream EXCEPT !.at = IF Len(stream.page) < PageSize THEN "end" ELSE "query"]
      BY <2>4 DEF SearchPage
    <3>2. PICK r \in SearchResults(chain[1].search, stream.page) : ToSend(1, r)
      BY <2>1, <2>4 DEF SearchPage
    <3>3. steps'[1].at = "send" /\ steps'[1].out = r /\ \A j \in DOMAIN chain : j # 1 => steps'[j] = steps[j]
      BY <1>2, <3>2, ToSendIs
    <3>4. CASE InLanes(fate)
      <4>1. \A k \in DOMAIN chain : \A q : InLane(steps[k], pipes[k], q) => InLane(steps'[k], pipes'[k], q)
        BY <3>1, <3>3 DEF InLane
      <4>2. QED
        BY <1>1, <3>4, <4>1, LanesMove
    <3>5. CASE OwnRow(id) \in Range(stream.page)
      <4>1. PICK i \in DOMAIN stream.page : stream.page[i] = OwnRow(id)
        BY <3>5 DEF Range
      <4>2. IsTimed({}, stream.page)
        BY <3>1 DEF Results
      <4>3. Outcome(chain[1].search, stream.page[i]) = {"in"}
        BY <1>5, <4>1 DEF Wants
      <4>4. Extracted(OwnRow(id)) \in Range(r.events)
        BY <4>1, <4>2, <4>3, SearchElements
      <4>5. Within(fate[1], r)
        BY <1>2, <1>5, <4>4, OwnFate DEF Within
      <4>6. InLane(steps'[1], pipes'[1], r)
        BY <3>3 DEF InLane
      <4>7. QED
        BY <1>1, <1>2, <4>5, <4>6 DEF InLanes
    <3>6. CASE Len(stream.page) = PageSize /\ Unread(id, stream)
      <4>1. ~(Len(stream.page) < PageSize)
        BY <3>6, SearchJobsAssumption
      <4>2. stream'.at = "query" /\ stream'.maxId = stream.maxId /\ stream'.last = stream.last
        BY <1>2, <3>1, <4>1
      <4>3. QED
        BY <1>1, <3>6, <4>2 DEF Coming, Unread
    <3>7. QED
      BY <1>5, <3>1, <3>4, <3>5, <3>6 DEF Coming
  <2>5. CASE SearchEnds
    <3>1. Ends(1) /\ steps[1].at = "select" /\ stream.at = "end"
      BY <2>1, <2>5 DEF SearchEnds
    <3>2. InLanes(fate)
      BY <1>5, <3>1 DEF Coming
    <3>3. QED
      BY <1>1, <1>2, <3>1, <3>2, EndsLanes
  <2>6. QED
    BY <1>1, <2>1, <2>3, <2>4, <2>5 DEF StartSurrounding
<1>6. \A id \in DOMAIN load.stored : \A fate :
        Untroubled /\ Works /\ Wants(id) /\ (Coming(id) \/ InLanes(fate)) /\ fate = Fate(OwnRow(id))
          => Coming(id)' \/ InLanes(fate)' \/ AtJob(fate)'
  BY <1>5
<1>7. UNCHANGED << load, chain, engine, cancelled, job >> /\ Up
  BY <1>1
<1>8. QED
  BY <1>2, <1>3, <1>4, <1>6, <1>7, OwnUnderway

\* What is left of a lane whose first has been taken.
LEMMA LessInLane ==
  ASSUME NEW s, NEW p, NEW q, IsList(p.buffer), p.buffer # << >>, q.buffer = Tail(p.buffer)
  PROVE  /\ \A r : InLane(s, p, r) => r = Head(p.buffer) \/ InLane(s, q, r)
         /\ \A r : InLane(s, q, r) => InLane(s, p, r)
         /\ InLane(s, p, Head(p.buffer))
<1> DEFINE b == p.buffer
<1>1. /\ Head(b) = b[1] /\ 1 \in DOMAIN b /\ Len(b) \in Nat \ {0}
      /\ DOMAIN b = 1 .. Len(b) /\ DOMAIN Tail(b) = 1 .. Len(b) - 1
      /\ \A a \in DOMAIN Tail(b) : a + 1 \in DOMAIN b /\ Tail(b)[a] = b[a + 1]
  BY HeadIs
<1> HIDE DEF b
<1>2. ASSUME NEW a \in DOMAIN b PROVE a = 1 \/ (a - 1 \in DOMAIN Tail(b) /\ Tail(b)[a - 1] = b[a])
  <2>1. a # 1 => a - 1 \in DOMAIN Tail(b) /\ (a - 1) + 1 = a
    BY <1>1
  <2>2. QED
    BY <1>1, <2>1
<1>3. q.buffer = Tail(b) /\ p.buffer = b
  BY DEF b
<1>4. ASSUME NEW r, InLane(s, p, r) PROVE r = Head(b) \/ InLane(s, q, r)
  <2>1. CASE s.at = "send" /\ r = s.out
    BY <2>1 DEF InLane
  <2>2. CASE \E a \in DOMAIN b : r = b[a]
    <3>1. PICK a \in DOMAIN b : r = b[a]
      BY <2>2
    <3>2. a = 1 \/ (a - 1 \in DOMAIN Tail(b) /\ Tail(b)[a - 1] = b[a])
      BY <1>2
    <3>3. QED
      BY <1>1, <1>3, <3>1, <3>2 DEF InLane
  <2>3. QED
    BY <1>3, <1>4, <2>1, <2>2 DEF InLane
<1>5. ASSUME NEW r, InLane(s, q, r) PROVE InLane(s, p, r)
  <2>1. \A a \in DOMAIN Tail(b) : \E c \in DOMAIN b : b[c] = Tail(b)[a]
    BY <1>1
  <2>2. QED
    BY <1>3, <1>5, <2>1 DEF InLane
<1>6. InLane(s, p, Head(b))
  BY <1>1, <1>3 DEF InLane
<1>7. QED
  BY <1>4, <1>5, <1>6 DEF b

\* A step takes a result, and has then its own to send.
LEMMA ReceivesUnderway ==
  ASSUME KInv, TextsKept, Shape, Results, Ended, Stops, Underway, NEW i \in DOMAIN chain, Receives(i)
  PROVE  Underway'
<1> DEFINE h == Head(pipes[i - 1].buffer)
           c == StepResult(chain[i], h)
<1>1. /\ i - 1 \in DOMAIN chain /\ i - 1 # i
      /\ pipes[i - 1].buffer # << >> /\ IsList(pipes[i - 1].buffer) /\ IsResult(May, h)
      /\ pipes'[i - 1].buffer = Tail(pipes[i - 1].buffer)
      /\ \A j \in DOMAIN chain : j # i - 1 => pipes'[j] = pipes[j]
      /\ steps[i].at = "select" /\ (UNCHANGED steps \/ ToSend(i, c))
      /\ chain[i].name \in {"rex", "where", "table"}
  BY ReceivesIs
<1>2. UNCHANGED << load, chain, engine, cancelled, job, stream >> /\ Up /\ chain # << >> /\ i > 1
  BY DEF Receives, StepsOnly, Stored
<1>3. (Works /\ ToSend(i, c)) \/ (UNCHANGED faults /\ crash' # "no" /\ \E j \in DOMAIN chain : steps[j].at # "end")
  BY <1>1 DEF Receives
<1>4. ASSUME NEW id \in DOMAIN load.stored, NEW fate, Untroubled, Works, Wants(id), Coming(id) \/ InLanes(fate),
             fate = Fate(OwnRow(id))
      PROVE  Coming(id)' \/ InLanes(fate)'
  <2>1. ToSend(i, c)
    BY <1>3, <1>4 DEF Works, Untroubled, Up
  <2>2. steps'[i].at = "send" /\ steps'[i].out = c /\ \A j \in DOMAIN chain : j # i => steps'[j] = steps[j]
    BY <2>1, ToSendIs
  <2> HIDE DEF c
  <2>3. CASE Coming(id)
    <3>1. steps[1].at = "start" => steps'[1].at = "start"
      BY <1>2, <2>2, ChainIs
    <3>2. QED
      BY <1>2, <2>3, <3>1 DEF Coming, Unread, OwnRow
  <2>4. CASE InLanes(fate)
    <3>1. PICK k \in DOMAIN chain : \E r : InLane(steps[k], pipes[k], r) /\ Within(fate[k], r)
      BY <2>4 DEF InLanes
    <3>2. PICK r : InLane(steps[k], pipes[k], r) /\ Within(fate[k], r)
      BY <3>1
    <3>3. CASE InLane(steps'[k], pipes'[k], r)
      BY <1>2, <3>2, <3>3 DEF InLanes
    <3>4. CASE k = i - 1 /\ r = h
      <4>1. fate[i] = StepResult(chain[i], fate[i - 1]) /\ IsResult({}, fate[i - 1])
        BY <1>1, <1>2, <1>4, OwnFate
      <4>2. Within(fate[i - 1], h)
        BY <3>2, <3>4
      <4>3. Within(StepResult(chain[i], fate[i - 1]), StepResult(chain[i], h))
        BY <1>1, <4>1, <4>2, StepWithin
      <4>4. Within(fate[i], c) /\ InLane(steps'[i], pipes'[i], c)
        BY <2>2, <4>1, <4>3 DEF c, InLane
      <4>5. QED
        BY <1>2, <4>4 DEF InLanes
    <3>5. CASE k # i - 1
      BY <1>1, <2>2, <3>2, <3>3, <3>5 DEF InLane
    <3>6. CASE k = i - 1 /\ r # h
      BY <1>1, <2>2, <3>2, <3>3, <3>6, LessInLane
    <3>7. QED
      BY <3>4, <3>5, <3>6
  <2>5. QED
    BY <1>4, <2>3, <2>4
<1>5. \A id \in DOMAIN load.stored : \A fate :
        Untroubled /\ Works /\ Wants(id) /\ (Coming(id) \/ InLanes(fate)) /\ fate = Fate(OwnRow(id))
          => Coming(id)' \/ InLanes(fate)' \/ AtJob(fate)'
  BY <1>4
<1>6. /\ UNCHANGED << load, chain, engine, cancelled, job >> /\ Up /\ chain # << >>
      /\ Works \/ Fails \/ (UNCHANGED faults /\ crash' # "no" /\ \E j \in DOMAIN chain : steps[j].at # "end")
      /\ stream'.at \in {"off", "max"} => stream'.last = {}
  BY <1>2, <1>3 DEF Underway
<1>7. QED
  BY <1>5, <1>6, OwnUnderway

\* A step ends, or passes on what it has.
LEMMA StepUnderway ==
  ASSUME KInv, Shape, Ended, Stops, Underway, NEW i \in DOMAIN chain, InputEnds(i) \/ Sends(i)
  PROVE  Underway'
<1>1. UNCHANGED << load, chain, engine, cancelled, job, stream >> /\ Up /\ Works /\ chain # << >>
  BY DEF InputEnds, Sends, StepsOnly, Stored
<1> DEFINE Moves == /\ steps[1].at = "start" => steps'[1].at = "start"
                    /\ \A fate : InLanes(fate) => InLanes(fate)'
<1>2. ASSUME InputEnds(i) PROVE Moves
  <2>1. Ends(i) /\ steps[i].at # "send" /\ i # 1
    BY <1>2 DEF InputEnds
  <2>2. ASSUME NEW fate, InLanes(fate) PROVE InLanes(fate)'
    BY <1>1, <2>1, <2>2, EndsLanes
  <2>3. steps'[1] = steps[1]
    BY <1>1, <2>1, EndsIs, ChainIs
  <2>4. QED
    BY <2>2, <2>3
<1>3. ASSUME Sends(i) PROVE Moves
  <2>1. /\ steps[i].at = "send"
        /\ IsList(pipes[i].buffer) /\ pipes'[i].buffer = Append(pipes[i].buffer, steps[i].out)
        /\ \A j \in DOMAIN chain : j # i => steps'[j] = steps[j] /\ pipes'[j] = pipes[j]
    BY <1>3, SendsIs
  <2>2. \A r : InLane(steps[i], pipes[i], r) => InLane(steps'[i], pipes'[i], r)
    <3> DEFINE b == pipes[i].buffer
               c == pipes'[i].buffer
    <3>1. /\ DOMAIN b = 1 .. Len(b) /\ Len(b) \in Nat /\ DOMAIN c = 1 .. Len(b) + 1
          /\ c[Len(b) + 1] = steps[i].out /\ \A a \in 1 .. Len(b) : c[a] = b[a]
      BY <2>1, AppendIsList, ListIsList
    <3> HIDE DEF b, c
    <3>2. Len(b) + 1 \in DOMAIN c /\ \A a \in DOMAIN b : a \in DOMAIN c /\ c[a] = b[a]
      BY <3>1
    <3>3. QED
      BY <3>1, <3>2 DEF InLane, b, c
  <2>3. ASSUME NEW k \in DOMAIN chain, NEW r, InLane(steps[k], pipes[k], r)
        PROVE  InLane(steps'[k], pipes'[k], r)
    BY <2>1, <2>2, <2>3
  <2>4. ASSUME NEW fate, InLanes(fate) PROVE InLanes(fate)'
    BY <1>1, <2>3, <2>4, LanesMove
  <2>5. steps[1].at = "start" => steps'[1] = steps[1]
    BY <1>1, <2>1, ChainIs
  <2>6. QED
    BY <2>4, <2>5
<1>4. (steps[1].at = "start" => steps'[1].at = "start") /\ \A fate : InLanes(fate) => InLanes(fate)'
  BY <1>2, <1>3
<1>5. ASSUME NEW id \in DOMAIN load.stored, Coming(id)
      PROVE  Coming(id)'
  BY <1>1, <1>4, <1>5 DEF Coming, Unread, OwnRow
<1>6. \A id \in DOMAIN load.stored : \A fate :
        Untroubled /\ Works /\ Wants(id) /\ (Coming(id) \/ InLanes(fate)) /\ fate = Fate(OwnRow(id))
          => Coming(id)' \/ InLanes(fate)' \/ AtJob(fate)'
  BY <1>4, <1>5
<1>7. /\ UNCHANGED << load, chain, engine, cancelled, job >> /\ Up /\ chain # << >>
      /\ Works \/ Fails \/ (UNCHANGED faults /\ crash' # "no" /\ \E j \in DOMAIN chain : steps[j].at # "end")
      /\ stream'.at \in {"off", "max"} => stream'.last = {}
  BY <1>1 DEF Underway
<1>8. QED
  BY <1>6, <1>7, OwnUnderway

\* The goroutine of the job takes a result.
LEMMA TakeUnderway ==
  ASSUME KInv, Shape, Results, Stops, Underway, TakeResult
  PROVE  Underway'
<1> DEFINE n == Len(pipes)
           h == Head(pipes[n].buffer)
<1>1. /\ chain # << >> /\ n = Len(chain) /\ n \in DOMAIN chain
      /\ IsList(pipes[n].buffer) /\ pipes[n].buffer # << >>
      /\ pipes'[n].buffer = Tail(pipes[n].buffer)
      /\ \A j \in DOMAIN chain : j # n => pipes'[j] = pipes[j]
      /\ engine.at = "select"
      /\ \/ Share(h) = << >> /\ engine' = engine
         \/ Share(h) # << >> /\ engine'.at = "add" /\ engine'.result = h
      /\ UNCHANGED << chain, stream, steps, job >>
  BY TakesIs
<1>2. UNCHANGED << load, cancelled >> /\ Up /\ Works
  BY DEF TakeResult, EngineOnly, Stored
<1>3. engine'.state = engine.state
  <2>1. engine' = engine \/ engine' = [engine EXCEPT !.at = "add", !.result = h]
    BY DEF TakeResult, Out
  <2>2. QED
    BY <2>1 DEF Shape, EngineIs
<1>4. IsTimed(May, h.events) /\ IsList(h.rows)
  <2>1. h = pipes[n].buffer[1] /\ 1 \in DOMAIN pipes[n].buffer
    BY <1>1, HeadIs
  <2>2. QED
    BY <1>1, <2>1 DEF Results, Sent, IsResult
<1> HIDE DEF n, h
<1>5. ASSUME Share(h) = << >> PROVE Shown(job.outputType, h) = {}
  <2>1. DOMAIN << >> = {}
    OBVIOUS
  <2>2. CASE job.outputType = "events"
    <3>1. Range(h.events) = {}
      BY <1>5, <2>1, <2>2 DEF Share, Range
    <3>2. QED
      BY <2>2, <3>1 DEF Shown
  <2>3. CASE job.outputType # "events"
    BY <1>5, <2>1, <2>3 DEF Share, Shown, Range
  <2>4. QED
    BY <2>2, <2>3
<1>6. ASSUME NEW id \in DOMAIN load.stored, NEW fate, Arrives(id, fate)
      PROVE  Arrives(id, fate)'
  <2>1. CASE Coming(id)
    BY <1>1, <1>2, <2>1 DEF Arrives, Coming, Unread, OwnRow
  <2>2. CASE AtJob(fate)
    BY <1>1, <2>2 DEF Arrives, AtJob, Content, Shown
  <2>3. CASE InLanes(fate)
    <3>1. PICK k \in DOMAIN chain : \E r : InLane(steps[k], pipes[k], r) /\ Within(fate[k], r)
      BY <2>3 DEF InLanes
    <3>2. PICK r : InLane(steps[k], pipes[k], r) /\ Within(fate[k], r)
      BY <3>1
    <3>3. CASE InLane(steps'[k], pipes'[k], r)
      BY <1>1, <3>2, <3>3 DEF InLanes, Arrives
    <3>4. CASE k = n /\ r = h
      <4>1. Within(fate[Len(chain)], h)
        BY <1>1, <3>2, <3>4
      <4>2. CASE engine'.at = "add" /\ engine'.result = h
        BY <1>1, <4>1, <4>2 DEF Arrives, AtJob
      <4>3. CASE Share(h) = << >>
        <5>1. Shown(job.outputType, fate[Len(chain)]) \subseteq Content
          BY <1>5, <4>1, <4>3, ShownWithin
        <5>2. QED
          BY <1>1, <5>1 DEF Arrives, AtJob, Content, Shown
      <4>4. QED
        BY <1>1, <4>2, <4>3
    <3>5. CASE k # n
      BY <1>1, <3>2, <3>3, <3>5 DEF InLane
    <3>6. CASE k = n /\ r # h
      <4>1. \A q : InLane(steps[n], pipes[n], q) => q = h \/ InLane(steps[n], pipes'[n], q)
        BY <1>1, LessInLane DEF h
      <4>2. QED
        BY <1>1, <3>2, <3>3, <3>6, <4>1
    <3>7. QED
      BY <3>4, <3>5, <3>6
  <2>4. QED
    BY <1>6, <2>1, <2>2, <2>3 DEF Arrives
<1>7. stream'.at \in {"off", "max"} => stream'.last = {}
  BY <1>1 DEF Underway
<1>8. job'.state = "finished" => engine'.state = "finished" /\ engine'.at = "end"
  BY <1>1 DEF Underway
<1>9. engine'.state = "finished" => Up' \/ cancelled'
  BY <1>2, <1>3 DEF Works, Up
<1>10. Untroubled' => Untroubled
  BY <1>1, <1>2, Untroubles
<1>11. \A id \in DOMAIN load.stored : \A fate :
         Untroubled /\ Untroubled' /\ Wants(id) /\ Arrives(id, fate) /\ fate = Fate(OwnRow(id))
           => Arrives(id, fate)'
  BY <1>6
<1>12. UNCHANGED << load, chain >> /\ chain # << >>
  BY <1>1, <1>2
<1>13. QED
  BY <1>7, <1>8, <1>9, <1>10, <1>11, <1>12, UnderwayMoves

LEMMA RangeBoth ==
  ASSUME NEW s, IsList(s), NEW t, IsList(t)
  PROVE  Range(s \o t) = Range(s) \cup Range(t)
<1>1. /\ IsList(s \o t) /\ Len(s \o t) = Len(s) + Len(t) /\ \A i \in 1 .. Len(s) : (s \o t)[i] = s[i]
      /\ \A i \in 1 .. Len(t) : (s \o t)[Len(s) + i] = t[i]
  BY ConcatIsList
<1> DEFINE u == s \o t
<1> HIDE DEF u
<1>2. /\ DOMAIN s = 1 .. Len(s) /\ DOMAIN t = 1 .. Len(t) /\ DOMAIN u = 1 .. Len(s) + Len(t)
      /\ Len(s) \in Nat /\ Len(t) \in Nat
  BY <1>1, ListIsList DEF u
<1>3. \A i \in DOMAIN u : (i \in DOMAIN s /\ u[i] = s[i]) \/ (i - Len(s) \in DOMAIN t /\ u[i] = t[i - Len(s)])
  <2>1. \A i \in DOMAIN u : i \notin DOMAIN s => i - Len(s) \in DOMAIN t /\ Len(s) + (i - Len(s)) = i
    BY <1>2
  <2>2. QED
    BY <1>1, <1>2, <2>1 DEF u
<1>4. \A i \in DOMAIN s : i \in DOMAIN u /\ u[i] = s[i]
  BY <1>1, <1>2 DEF u
<1>5. \A i \in DOMAIN t : Len(s) + i \in DOMAIN u /\ u[Len(s) + i] = t[i]
  BY <1>1, <1>2 DEF u
<1>6. Range(u) = Range(s) \cup Range(t)
  <2>1. Range(u) \subseteq Range(s) \cup Range(t)
    BY <1>3 DEF Range
  <2>2. Range(s) \subseteq Range(u)
    BY <1>4 DEF Range
  <2>3. Range(t) \subseteq Range(u)
    BY <1>5 DEF Range
  <2>4. QED
    BY <2>1, <2>2, <2>3
<1>7. QED
  BY <1>6 DEF u

\* AddResults shows what it has, unless it fails.
LEMMA AddShows ==
  ASSUME Shape, Results, AddResults, ~Fails
  PROVE  Content' = Content \cup Shown(job.outputType, engine.result)
<1>0. engine.at = "add"
  BY DEF AddResults
<1>1. /\ IsList(job.results) /\ IsList(job.rows) /\ JobIs(job)
      /\ IsTimed(May, engine.result.events) /\ IsList(engine.result.rows)
  <2>1. IsStamped(job.results) /\ IsList(job.rows) /\ IsResult(May, engine.result)
    BY <1>0 DEF Results
  <2>2. QED
    BY <2>1 DEF IsResult, IsStamped, Shape
<1>2. job' = IF job.outputType = "events"
             THEN [job EXCEPT !.results = @ \o Stamps(engine.result.events)]
             ELSE [job EXCEPT !.rows = @ \o engine.result.rows]
  BY DEF AddResults, Stamps
<1> DEFINE stamps == Stamps(engine.result.events)
<1>3. CASE job.outputType = "events"
  <2>1. IsList(stamps) /\ DOMAIN stamps = DOMAIN engine.result.events
    BY <1>1, StampsAre DEF IsStamped
  <2>2. \A i \in DOMAIN engine.result.events : stamps[i] = Stamp(engine.result.events[i])
    BY DEF Stamps, Stamp
  <2> HIDE DEF stamps
  <2>3. Range(stamps) = { Stamp(e) : e \in Range(engine.result.events) }
    BY <2>1, <2>2 DEF Range
  <2>4. Range(job.results \o stamps) = Range(job.results) \cup Range(stamps)
    BY <1>1, <2>1, RangeBoth
  <2>5. job'.outputType = job.outputType /\ job'.results = job.results \o stamps
    BY <1>1, <1>2, <1>3 DEF JobIs, stamps
  <2>6. QED
    BY <1>3, <2>3, <2>4, <2>5 DEF Content, Shown
<1>4. CASE job.outputType # "events"
  <2>1. Range(job.rows \o engine.result.rows) = Range(job.rows) \cup Range(engine.result.rows)
    BY <1>1, RangeBoth
  <2>2. job'.outputType = job.outputType /\ job'.rows = job.rows \o engine.result.rows
    BY <1>1, <1>2, <1>4 DEF JobIs
  <2>3. QED
    BY <1>4, <2>1, <2>2 DEF Content, Shown
<1>5. QED
  BY <1>3, <1>4, Zenon

LEMMA EngineUnderway ==
  ASSUME KInv, Shape, Results, Stops, Underway, AddResults \/ AddFieldStats \/ SeeClosed \/ SeeCancelled \/ UpdateState
  PROVE  Underway'
<1>0. UNCHANGED pipes /\ EngineOnly /\ Up /\ (Works \/ Fails)
  BY Zenon DEF AddResults, AddFieldStats, SeeClosed, SeeCancelled, UpdateState
<1>1. UNCHANGED << load, chain, stream, steps, pipes, cancelled >> /\ Up /\ (Works \/ Fails)
  BY <1>0, Zenon DEF EngineOnly, Stored
<1>2. chain # << >>
  BY DEF AddResults, AddFieldStats, SeeClosed, SeeCancelled, UpdateState, Shape
<1>3. JobIs(job) /\ EngineIs(engine)
  BY DEF Shape
<1>4. job'.outputType = job.outputType
  <2>1. \/ job' = job
        \/ \E new : \/ job' = [job EXCEPT !.results = new] \/ job' = [job EXCEPT !.rows = new]
                    \/ job' = [job EXCEPT !.stats = new] \/ job' = [job EXCEPT !.state = new]
    BY DEF AddResults, AddFieldStats, SeeClosed, SeeCancelled, UpdateState
  <2>2. QED
    BY <1>3, <2>1 DEF JobIs
<1>5. job'.state = "finished" => engine'.state = "finished" /\ engine'.at = "end"
  <2>1. CASE UpdateState
    <3>1. /\ engine' = [engine EXCEPT !.at = "end"] /\ engine.at = "write"
          /\ job' = [job EXCEPT !.state = engine.state] \/ UNCHANGED job
      BY <2>1 DEF UpdateState
    <3>2. QED
      BY <1>3, <3>1 DEF JobIs, EngineIs, Underway
  <2>2. CASE ~UpdateState
    <3>1. engine.at # "end"
      BY DEF AddResults, AddFieldStats, SeeClosed, SeeCancelled, UpdateState
    <3>2. \/ job' = job
          \/ \E new : \/ job' = [job EXCEPT !.results = new] \/ job' = [job EXCEPT !.rows = new]
                      \/ job' = [job EXCEPT !.stats = new]
      BY <2>2 DEF AddResults, AddFieldStats, SeeClosed, SeeCancelled
    <3>3. job'.state = job.state
      BY <1>3, <3>2 DEF JobIs
    <3>4. job.state # "finished"
      BY <3>1 DEF Underway
    <3>5. QED
      BY <3>3, <3>4
  <2>3. QED
    BY <2>1, <2>2
<1>6. engine'.state = "finished" => Up' \/ cancelled'
  BY <1>1 DEF Works, Fails, Up
<1>7. Untroubled' => Untroubled /\ Works
  BY <1>1, Untroubles
<1>8. ASSUME NEW id \in DOMAIN load.stored, NEW fate, Untroubled, Works, Arrives(id, fate)
      PROVE  Arrives(id, fate)'
  <2>1. CASE Coming(id) \/ InLanes(fate)
    BY <1>1, <2>1 DEF Arrives, Coming, Unread, OwnRow, InLanes
  <2>2. ~Fails
    BY <1>8 DEF Works, Fails, Untroubled
  <2>3. CASE Shown(job.outputType, fate[Len(chain)]) \subseteq Content
    <3>1. Content \subseteq Content'
      <4>1. CASE AddResults
        BY <2>2, <4>1, AddShows
      <4>2. CASE ~AddResults
        <5>1. job' = job \/ \E new : job' = [job EXCEPT !.stats = new] \/ job' = [job EXCEPT !.state = new]
          BY <4>2 DEF AddFieldStats, SeeClosed, SeeCancelled, UpdateState
        <5>2. job'.results = job.results /\ job'.rows = job.rows
          BY <1>3, <5>1 DEF JobIs
        <5>3. QED
          BY <1>4, <5>2 DEF Content
      <4>3. QED
        BY <4>1, <4>2
    <3>2. QED
      BY <1>1, <1>4, <2>3, <3>1 DEF Arrives, AtJob, Shown
  <2>4. CASE engine.at = "add" /\ Within(fate[Len(chain)], engine.result)
    <3>1. AddResults
      BY <2>4 DEF AddFieldStats, SeeClosed, SeeCancelled, UpdateState
    <3>2. Shown(job.outputType, fate[Len(chain)]) \subseteq Content'
      BY <2>2, <2>4, <3>1, AddShows, ShownWithin
    <3>3. QED
      BY <1>1, <1>4, <3>2 DEF Arrives, AtJob, Shown
  <2>5. QED
    BY <1>8, <2>1, <2>3, <2>4 DEF Arrives, AtJob
<1>9. \A id \in DOMAIN load.stored : \A fate :
        Untroubled /\ Untroubled' /\ Wants(id) /\ Arrives(id, fate) /\ fate = Fate(OwnRow(id))
          => Arrives(id, fate)'
  BY <1>7, <1>8
<1>10. stream'.at \in {"off", "max"} => stream'.last = {}
  BY <1>1 DEF Underway
<1>11. UNCHANGED << load, chain >> /\ (Untroubled' => Untroubled)
  BY <1>1, <1>7
<1>12. QED
  BY <1>2, <1>5, <1>6, <1>9, <1>10, <1>11, UnderwayMoves

LEMMA StartUnderway ==
  ASSUME KInv, Shape, Underway, StartJob
  PROVE  Underway'
<1> DEFINE compiled == Compile(load.text, load.times)
<1>1. /\ UNCHANGED stream /\ stream.at = "off" /\ chain = << >> /\ job.state = "none" /\ JobIs(job)
      /\ EngineIs(engine) /\ engine.state = "none"
      /\ StartEndless(compiled) \/ StartRefused(compiled) \/ StartRunning(compiled)
  BY StartsIs DEF StartJob, Shape
<1> HIDE DEF compiled
<1>2. job'.state # "finished" /\ engine'.state = "none"
  BY <1>1 DEF StartEndless, StartRefused, StartRunning, JobIs, EngineIs
<1>3. Searching' => steps'[1].at = "start"
  <2>1. CASE StartRunning(compiled)
    <3>1. chain' = << >> \/ 1 \in DOMAIN chain'
      <4>1. Shape'
        BY StartShape
      <4>2. QED
        BY <4>1 DEF Shape, IsChain
    <3>2. QED
      BY <2>1, <3>1 DEF StartRunning, Searching
  <2>2. QED
    BY <1>1, <2>1 DEF StartEndless, StartRefused, Searching
<1>4. stream'.last = {}
  BY <1>1 DEF Underway
<1>5. Untroubled' => steps'[1].at = "start"
  BY <1>3 DEF Untroubled
<1>6. QED
  BY <1>2, <1>4, <1>5 DEF Underway, Arrives, Coming

LEMMA NextUnderway ==
  ASSUME KInv, EventsPlaced, TextsKept, Shape, Results, Ended, Stops, Underway, [Next]_allVars
  PROVE  Underway'
<1>1. CASE UNCHANGED jobVars /\ UNCHANGED load /\ (Works \/ Fails)
  <2>1. UNCHANGED << chain, stream, steps, pipes, engine, cancelled, job >>
    BY <1>1 DEF jobVars
  <2>2. faults \in Nat
    BY SMTT(30) DEF Stops
  <2>3. (Untroubled' => Untroubled) /\ (Up' <=> Up)
    BY <1>1, <2>1, <2>2 DEF Untroubled, Searching, Works, Fails, Up
  <2>4. ASSUME NEW id \in DOMAIN load.stored, NEW fate, Arrives(id, fate) PROVE Arrives(id, fate)'
    <3>1. Coming(id)' <=> Coming(id)
      BY <1>1, <2>1 DEF Coming, Unread, OwnRow
    <3>2. InLanes(fate)' <=> InLanes(fate)
      BY <2>1 DEF InLanes
    <3>3. AtJob(fate)' <=> AtJob(fate)
      BY <2>1 DEF AtJob, Content
    <3>4. QED
      BY <2>4, <3>1, <3>2, <3>3 DEF Arrives
  <2>5. /\ stream'.at \in {"off", "max"} => stream'.last = {}
        /\ job'.state = "finished" => engine'.state = "finished" /\ engine'.at = "end"
    BY <2>1 DEF Underway
  <2>6. engine'.state = "finished" => Up' \/ cancelled'
    BY <2>1, <2>3 DEF Underway
  <2>7. \A id \in DOMAIN load.stored : \A fate :
          Untroubled /\ Untroubled' /\ Wants(id) /\ Arrives(id, fate) /\ fate = Fate(OwnRow(id))
            => Arrives(id, fate)'
    BY <2>4
  <2>8. chain # << >> => Underway'
    BY <1>1, <2>1, <2>3, <2>5, <2>6, <2>7, UnderwayMoves
  <2>9. chain = << >> => ~Untroubled'
    BY <2>1 DEF Untroubled, Searching
  <2>10. QED
    BY <2>5, <2>6, <2>8, <2>9 DEF Underway
<1>2. CASE Abort
  <2>1. cancelled' /\ UNCHANGED << stream, engine, job >>
    BY <1>2 DEF Abort
  <2>2. QED
    BY <2>1 DEF Underway, Untroubled
<1>3. CASE StartJob
  BY <1>3, StartUnderway
<1>4. CASE Goroutines
  BY <1>4, StreamUnderway, SearchUnderway, ReceivesUnderway, StepUnderway, TakeUnderway, EngineUnderway, Zenon
  DEF Goroutines
<1>5. UNCHANGED allVars => UNCHANGED jobVars /\ UNCHANGED load /\ (Works \/ Fails)
  BY DEF allVars, store, Works
<1>6. Write => UNCHANGED load /\ (Works \/ Fails)
  BY WriteWorks
<1>7. QED
  BY <1>1, <1>2, <1>3, <1>4, <1>5, <1>6 DEF Next

LEMMA InitUnderway == JobInit => Underway
BY DEF JobInit, Underway, Untroubled, Searching

LEMMA NothingIsMissed ==
  ASSUME KInv, TextsKept, Shape, Ended, Results, Underway
  PROVE  NothingMissed
<1> SUFFICES ASSUME job.state = "finished", Searching, Queryable(chain[1].search), ~cancelled, faults = 0,
                    NEW id \in DOMAIN load.stored, Steady(id), Matches(chain[1], id), Outcomes(Row(id)) = {"in"}
             PROVE  Yield(Row(id)) \subseteq Content
  BY DEF NothingMissed
<1>1. engine.state = "finished" /\ engine.at = "end" /\ Untroubled
  BY DEF Underway, Untroubled
<1>2. Row(id) = OwnRow(id) /\ Wants(id)
  BY SteadyStays DEF Wants, Row, OwnRow, Matches, Outcomes, Outcome
<1>3. PICK fate : fate = Fate(OwnRow(id))
  OBVIOUS
<1>4. Arrives(id, fate)
  BY <1>1, <1>2, <1>3 DEF Underway
<1>5. \A i \in DOMAIN chain : steps[i].at = "end" /\ pipes[i].buffer = << >>
  BY <1>1 DEF Ended, AllDone, StepDone
<1>6. ~Coming(id)
  <2>1. 1 \in DOMAIN chain /\ chain # << >>
    BY ChainIs DEF Searching
  <2>2. stream.at \in {"off", "end"} /\ steps[1].at = "end"
    BY <1>5, <2>1 DEF Ended, ReaderEnds
  <2>3. QED
    BY <2>2 DEF Coming
<1>7. ~InLanes(fate)
  <2>1. DOMAIN << >> = {}
    OBVIOUS
  <2>2. QED
    BY <1>5, <2>1 DEF InLanes, InLane
<1>8. Shown(job.outputType, fate[Len(chain)]) \subseteq Content
  BY <1>1, <1>4, <1>6, <1>7 DEF Arrives, AtJob
<1>9. QED
  BY <1>2, <1>3, <1>8 DEF Yield, Shown

-----------------------------------------------------------------------------

\* The invariant of a search, which begins with that of the writers.
LEMMA SearchInvariant == Spec => [](KInv /\ JInv)
<1>1. JobInit => KInv /\ JInv
  <2>1. JobInit => KInv
    BY InitIInv, InitLedger DEF JobInit, KInv, Ledger
  <2>2. JobInit => ReadTimes
    BY DEF JobInit, ReadTimes
  <2>3. QED
    BY <2>1, <2>2, InitShape, InitEnded, InitAt, InitStops, InitPlaced, InitResults, InitFlow,
       InitCounted, InitTexts, InitUnderway DEF JInv
<1>2. KInv /\ [Next]_allVars => KInv'
  BY NextWrites, StepIInv, StepLedger DEF KInv, Ledger
<1>3. KInv /\ JInv /\ [Next]_allVars => JInv'
  <2> SUFFICES ASSUME KInv, JInv, [Next]_allVars PROVE JInv'
    OBVIOUS
  <2>1. KInv'
    BY <1>2
  <2>2. Shape' /\ Ended' /\ WritersAt' /\ Stops'
    BY NextShape, NextEnded, NextAt, NextStops DEF JInv
  <2>3. EventsPlaced' /\ ReadTimes' /\ Results'
    BY <2>1, NextPlaced, NextReads, NextResults DEF JInv
  <2>4. (ClocksGoOn' => Flow') /\ Counted'
    <3>1. ClocksGoOn' <=> ClocksGoOn
      BY NextLoad DEF ClocksGoOn, Possible, Written
    <3>2. QED
      BY <2>2, <3>1, NextFlow, NextCounted DEF JInv
  <2>5. TextsKept' /\ Underway'
    BY NextTexts, NextUnderway DEF JInv
  <2>6. QED
    BY <2>2, <2>3, <2>4, <2>5 DEF JInv
<1>4. QED
  BY <1>1, <1>2, <1>3, PTL DEF Spec

\* Whoever searches, the two tables of the events agree at any time: AddBatch and
\* DeleteBatch change both or none, side by side with each other and with the
\* queries of a search.
THEOREM TablesAlignedInSearch == Spec => []Aligned
BY TablesAligned, SearchLeavesStore, PTL

\* What a recipient or the publisher has acknowledged while a search runs is
\* stored, deleted or was given up.
THEOREM AcknowledgedInSearch == Spec => []AckedIsStored
BY AcknowledgedIsStored, SearchLeavesStore, PTL

\* Everything has its type: channels, pages, batches and adder have no more than
\* fits, only the first step starts, and a step's channel is closed when it has
\* ended and not before, which is what "close of closed channel" and a send on a
\* closed one would come from.
THEOREM SearchTypes == Spec => []TypeOK
BY SearchInvariant, Typed, PTL DEF JInv

\* A job whose state becomes finished has nobody left who works for it: every step
\* has ended, every channel is empty, and so is the reader's end, unless the job
\* was aborted meanwhile.
THEOREM FinishedJobsAreDone == Spec => []FinishedIsDone
BY SearchInvariant, Finished, PTL DEF JInv

\* No text stops the process but the ill ones.  The endless loop of the lexer needs a
\* "!" that is not followed by "="; the nil regular expression a value that is none,
\* or one that Lexer.go:122 has cut; the nil logger a rex with groups that are of no
\* use; make, in PostgresEventRepository.go:352 and 365, a count that it cannot make room
\* for; and the nil map a rex that finds something in a blank event, which only a
\* surrounding step sends.  All of it must have been typed.
THEOREM OnlyIllQueriesStop == Spec => []StopsOnlyOnIllQuery
BY SearchInvariant, Stopped, PTL DEF JInv

\* A page of results that is full stays as it is, unless a clock was set back between
\* two of the events: whatever comes later goes behind it, because the stream sends the
\* newest events first, each page below the last time of the one before, and the batches
\* reach the job in the order in which they were sent, so that AddResults only adds
\* what is older, on the wall too.  Many events may have the same time.
THEOREM StablePagesOfResults == Spec => StablePages
<1> DEFINE Step == \A skip \in 0 .. Len(job.results) + Len(job.rows), take \in 1 .. 2 :
             /\ ClocksGoOn /\ skip + take <= Len(job.results) =>
                  GetResults(job', skip, take) = GetResults(job, skip, take)
             /\ skip + take <= Len(job.rows) =>
                  GetTableResults(job', skip, take) = GetTableResults(job, skip, take)
<1>1. KInv /\ JInv /\ [Next]_allVars => [Step]_job
  BY StableStep DEF JInv
<1>2. StablePages <=> [][Step]_job
  BY DEF StablePages
<1> HIDE DEF Step
<1>3. QED
  BY <1>1, <1>2, SearchInvariant, PTL DEF Spec

\* The statistics that are shown beside the results are those of the results: after
\* every AddResults they count each field of each event or row once.
THEOREM StatsOfJobsMatch == Spec => []StatsMatchResults
BY SearchInvariant, StatsMatch, PTL DEF JInv

\* A search that is finished has missed nothing that was stored all the while: an
\* event the query finds stays unread, in a page, in a channel, with a step or with
\* the goroutine of the job until what the chain makes of it is shown, whatever
\* the writers, the other goroutines and the sizes of pages and channels are.
THEOREM FinishedSearchesMissNothing == Spec => []NothingMissed
BY SearchInvariant, NothingIsMissed, PTL DEF JInv

=============================================================================
