-------------------------- MODULE EventStreamProofs --------------------------
(***************************************************************************)
(* Proofs about EventStream, for any searches, page size, timestamps,      *)
(* zones and number of events.  "Above" and "below" are about the time of  *)
(* day an event shows.  The invariant says how far down a stream has       *)
(* come: everything it has sent is at or above the timestamp of its last   *)
(* row, and what it has not sent of the events it began with is below it   *)
(* or tied with the last row of a full page.                               *)
(***************************************************************************)
EXTENDS EventStream, FiniteSetTheorems, WellFoundedInduction, TLAPS

\* Ids are given out one by one, up to the bound.
Numbered == \E n \in 0 .. MaxId : Ids = 1 .. n

\* A stream that was not opened is as it was at first.
Unopened == \A r \in Readers : stream[r].pc = "off" => stream[r] = Idle

\* What was sent and what is about to be are at or above the last row read.
Above(r) ==
  /\ \A i \in seen[r] \cup stream[r].page : stream[r].last # 0 /\ stream[r].last <= wall[i]
  /\ \A i \in stream[r].page, j \in seen[r] : wall[i] < wall[j]

\* The page in hand is the last one.
LastPage(r) == stream[r].pc = "send" /\ Cardinality(stream[r].page) < PageSize

\* What a search has not been sent of the events it began with.
Below(r) ==
  /\ \A i \in stream[r].start : i <= stream[r].maxId /\ wall[i] < stream[r].end
  /\ \A i \in (stream[r].start \cap stored) \ (seen[r] \cup stream[r].page) :
       /\ stream[r].pc \in {"query", "send"} /\ stream[r].last # 0
            => wall[i] < stream[r].last \/ wall[i] \in stream[r].edges
       /\ stream[r].pc = "done" \/ LastPage(r) => wall[i] \in stream[r].edges

\* The host's clocks have shown n.
Reached(n) == n = 0 \/ \E z \in HostZones : n <= cutoff + z

\* The task is sent what is due.
Due ==
  /\ Reached(stream[Task].end)
  /\ \A i \in seen[Task] \cup stream[Task].page : Reached(wall[i] + 1)

IInv ==
  /\ TypeOK
  /\ Numbered
  /\ Unopened
  /\ \A r \in Searches : Above(r) /\ Below(r)
  /\ Due

-----------------------------------------------------------------------------
(* The least and the greatest of a set of numbers                          *)

LEMMA Least ==
  ASSUME NEW S \in SUBSET Nat, S # {}
  PROVE  \E n \in S : \A m \in S : n <= m
<1>1. PICK R : IsWellFoundedOn(R, Nat) /\ \A m, n \in Nat : m < n => << m, n >> \in R
  <2>1. \A m, n \in Nat : m < n => << m, n >> \in OpToRel(<, Nat)
    BY DEF OpToRel
  <2> QED
    BY <2>1, NatLessThanWellFounded
<1>2. S \subseteq Nat
  OBVIOUS
<1>3. \E n \in S : \A m \in S : ~ (<< m, n >> \in R)
  <2>1. IsWellFoundedOn(R, Nat)
    BY <1>1
  <2> QED
    BY <1>2, <2>1, WFMin, Zenon
<1>4. PICK n \in S : \A m \in S : ~ (<< m, n >> \in R)
  BY <1>3
<1>5. ASSUME NEW m \in S PROVE n <= m
  <2>1. n \in Nat /\ m \in Nat
    BY <1>2
  <2>2. ~ (m < n)
    BY <1>1, <1>4, <2>1, Zenon
  <2> QED
    BY <2>1, <2>2
<1> QED
  BY <1>5

LEMMA Greatest ==
  ASSUME NEW S \in SUBSET Nat, S # {}, NEW b \in Nat, \A m \in S : m <= b
  PROVE  \E n \in S : \A m \in S : m <= n
<1> DEFINE D == { b - m : m \in S }
<1>1. D \subseteq Nat
  OBVIOUS
<1>2. D # {}
  OBVIOUS
<1>3. PICK d \in D : \A e \in D : d <= e
  BY <1>1, <1>2, Least
<1>4. PICK n \in S : d = b - n
  OBVIOUS
<1>5. \A m \in S : b - n <= b - m
  BY <1>3, <1>4
<1> QED
  BY <1>5

\* What clocks show.
LEMMA WallsShow ==
  /\ Walls \subseteq Nat /\ 0 \notin Walls
  /\ \A t \in Stamps : t.wall \in Walls /\ t.zone \in Nat
BY EventStreamAssumption DEF Walls

\* The oldest timestamp of a page is that of one of its rows.
LEMMA OldestOfPage ==
  ASSUME TypeOK, NEW page \in SUBSET Ids, page # {}
  PROVE  /\ Oldest(page) \in Walls
         /\ \E i \in page : Oldest(page) = wall[i]
         /\ \A i \in page : Oldest(page) <= wall[i]
<1> DEFINE T == { wall[i] : i \in page }
<1>1. \A i \in page : wall[i] \in Walls /\ wall[i] \in Nat
  BY WallsShow DEF TypeOK
<1>2. T \subseteq Nat /\ T # {}
  BY <1>1
<1>3. PICK t \in T : \A u \in T : t <= u
  BY <1>2, Least
<1>4. \E u \in T : \A i \in page : u <= wall[i]
  BY <1>3
<1>5. Oldest(page) \in T /\ \A i \in page : Oldest(page) <= wall[i]
  BY <1>4 DEF Oldest
<1> QED
  BY <1>1, <1>5

-----------------------------------------------------------------------------
(* What types say, in the form the steps need                              *)

Stream == [pc : {"off", "query", "send", "done", "failed"}, maxId : 0 .. MaxId,
           end : Nat, last : Walls \cup {0}, page : SUBSET Ids,
           start : SUBSET Ids, edges : SUBSET Walls]

LEMMA Typing ==
  ASSUME IInv
  PROVE  /\ Searches \subseteq Readers /\ Task \in Readers /\ Task \notin Searches
         /\ Walls \subseteq Nat /\ 0 \notin Walls /\ PageSize \in Nat \ {0} /\ MaxId \in Nat
         /\ stored \subseteq Ids /\ Ids \subseteq 1 .. MaxId
         /\ cutoff \in Nat
         /\ \A i \in Ids : wall[i] \in Walls /\ zone[i] \in Nat
         /\ \A r \in Readers : /\ stream[r] \in Stream
                               /\ seen[r] \subseteq Ids
                               /\ stream[r].page \subseteq Ids
                               /\ stream[r].start \subseteq Ids
                               /\ stream[r].page # {} => stream[r].pc = "send"
         /\ stream \in [Readers -> Stream] /\ seen \in [Readers -> SUBSET Ids]
<1>1. /\ stream \in [Readers -> Stream] /\ seen \in [Readers -> SUBSET Ids]
      /\ \A r \in Readers : stream[r].page # {} => stream[r].pc = "send"
      /\ wall \in [Ids -> Walls] /\ zone \in [Ids -> Nat]
      /\ stored \subseteq Ids /\ cutoff \in Nat
  BY DEF IInv, TypeOK, Stream
<1>2. \A r \in Readers : stream[r] \in Stream /\ seen[r] \subseteq Ids
  BY <1>1
<1>3. \A r \in Readers : stream[r].page \subseteq Ids /\ stream[r].start \subseteq Ids
  BY <1>2 DEF Stream
<1>4. Ids \subseteq 1 .. MaxId
  BY EventStreamAssumption DEF IInv, Numbered
<1> QED
  BY <1>1, <1>2, <1>3, <1>4, WallsShow, EventStreamAssumption DEF Readers

LEMMA IdleIsStream == Idle \in Stream
BY EventStreamAssumption DEF Idle, Stream

\* Typing gives TypeOK back, while ids and timestamps stay as they are.
LEMMA Retyping ==
  ASSUME IInv, UNCHANGED << wall, zone >>, stored' \subseteq Ids, cutoff' \in Nat,
         stream' \in [Readers -> Stream], seen' \in [Readers -> SUBSET Ids],
         \A r \in Readers : stream'[r].page # {} => stream'[r].pc = "send"
  PROVE  TypeOK' /\ Numbered'
<1>1. /\ wall \in [Ids -> Walls] /\ zone \in [Ids -> Nat]
      /\ Ids = 1 .. Cardinality(Ids) /\ Numbered
  BY DEF IInv, TypeOK
<1>0. Ids' = Ids
  BY DEF Ids
<1>2. Numbered'
  BY <1>0, <1>1 DEF Numbered
<1> QED
  BY <1>0, <1>1, <1>2 DEF TypeOK, Stream

-----------------------------------------------------------------------------
(* The table and the clock                                                 *)

LEMMA AddEventKeeps ==
  ASSUME IInv, NEW t \in Stamps, AddEvent(t)
  PROVE  IInv'
<1> DEFINE id == Cardinality(Ids) + 1
<1>1. PICK n \in 0 .. MaxId : Ids = 1 .. n
  BY DEF IInv, Numbered
<1>2. n \in Nat /\ Cardinality(Ids) = n
  BY <1>1, FS_Interval, EventStreamAssumption
<1>3. /\ id = n + 1 /\ id <= MaxId /\ id \notin Ids
      /\ stored' = stored \cup {id}
      /\ Ids' = Ids \cup {id} /\ Ids' = 1 .. n + 1
      /\ wall' \in [Ids' -> Walls] /\ \A i \in Ids : wall'[i] = wall[i]
      /\ zone' \in [Ids' -> Nat]
      /\ UNCHANGED << cutoff, stream, seen >>
  <2>1. /\ id = n + 1 /\ id <= MaxId /\ id \notin Ids
        /\ stored' = stored \cup {id}
        /\ UNCHANGED << cutoff, stream, seen >>
    BY <1>1, <1>2 DEF AddEvent
  <2>2. /\ wall' = [i \in Ids \cup {id} |-> IF i = id THEN t.wall ELSE wall[i]]
        /\ zone' = [i \in Ids \cup {id} |-> IF i = id THEN t.zone ELSE zone[i]]
    BY DEF AddEvent
  <2>3. Ids' = Ids \cup {id}
    BY <2>2 DEF Ids
  <2>4. /\ wall' \in [Ids' -> Walls] /\ \A i \in Ids : wall'[i] = wall[i]
        /\ zone' \in [Ids' -> Nat]
    BY <2>1, <2>2, <2>3, Typing, WallsShow
  <2>5. Ids' = 1 .. n + 1
    BY <1>1, <1>2, <2>1, <2>3
  <2> QED
    BY <2>1, <2>3, <2>4, <2>5
<1>4. Cardinality(Ids') = n + 1
  <2>1. 1 \in Int /\ n + 1 \in Int /\ ~ (1 > n + 1) /\ n + 1 - 1 + 1 = n + 1
    BY <1>2
  <2>2. Cardinality(1 .. n + 1) = n + 1
    BY <2>1, FS_Interval
  <2> QED
    BY <1>3, <2>2
<1>5. Numbered'
  BY <1>2, <1>3, EventStreamAssumption DEF Numbered
<1>6. stream' \in [Readers -> Stream'] /\ seen' \in [Readers -> SUBSET Ids']
  <2>1. \A r \in Readers : stream[r] \in Stream'
    BY <1>3, Typing DEF Stream
  <2> QED
    BY <1>3, <2>1, Typing
<1>7. TypeOK'
  BY <1>3, <1>4, <1>6, Typing DEF TypeOK, Stream
<1>8. ASSUME NEW r \in Searches PROVE Above(r)' /\ Below(r)'
  <2>1. r \in Readers /\ Above(r) /\ Below(r)
    BY Typing DEF IInv
  <2>2. /\ seen[r] \subseteq Ids /\ stream[r].page \subseteq Ids
        /\ stream[r].start \subseteq Ids
    BY <2>1, Typing
  <2>3. stream[r].start \cap stored' = stream[r].start \cap stored
    BY <1>3, <2>2
  <2> QED
    BY <1>3, <2>1, <2>2, <2>3 DEF Above, Below, LastPage
<1>9. Due'
  BY <1>3, Typing DEF IInv, Due, Reached
<1> QED
  BY <1>3, <1>5, <1>7, <1>8, <1>9 DEF IInv, Unopened

LEMMA AgeKeeps ==
  ASSUME IInv, Age
  PROVE  IInv'
<1>1. cutoff' = cutoff + 1 /\ UNCHANGED << stored, wall, zone, stream, seen >>
  BY DEF Age
<1>2. TypeOK' /\ Numbered'
  BY <1>1, Typing, Retyping
<1>3. Due'
  <2>1. \A i \in seen[Task] \cup stream[Task].page : wall[i] \in Nat
    BY Typing
  <2>2. stream[Task].end \in Nat
    BY Typing DEF Stream
  <2>3. ASSUME NEW n \in Nat, Reached(n) PROVE Reached(n)'
    BY <1>1, <2>3, Typing, EventStreamAssumption DEF Reached
  <2>4. \A i \in seen[Task] \cup stream[Task].page : Reached(wall[i] + 1)'
    <3> SUFFICES ASSUME NEW i \in seen[Task] \cup stream[Task].page
                 PROVE  Reached(wall[i] + 1)'
      OBVIOUS
    <3>1. PICK z \in HostZones : wall[i] + 1 <= cutoff + z
      BY <2>1 DEF IInv, Due, Reached
    <3>2. wall[i] + 1 <= cutoff + 1 + z
      BY <2>1, <3>1, Typing, EventStreamAssumption
    <3> QED
      BY <1>1, <3>2 DEF Reached
  <2> QED
    BY <1>1, <2>2, <2>3, <2>4 DEF IInv, Due, Reached
<1> QED
  BY <1>1, <1>2, <1>3 DEF IInv, Unopened, Above, Below, LastPage

\* The task deletes what it was sent, or fails to.
LEMMA DeleteKeeps ==
  ASSUME IInv, DeletePage \/ DeleteFails
  PROVE  IInv'
<1>1. /\ stored' \subseteq stored /\ seen' = [seen EXCEPT ![Task] = {}]
      /\ UNCHANGED << wall, zone, cutoff, stream >>
  BY DEF DeletePage, DeleteFails
<1>2. /\ seen' \in [Readers -> SUBSET Ids] /\ seen'[Task] = {}
      /\ \A r \in Searches : seen'[r] = seen[r]
  BY <1>1, Typing
<1>3. TypeOK' /\ Numbered'
  BY <1>1, <1>2, Typing, Retyping
<1>4. ASSUME NEW r \in Searches PROVE Above(r)' /\ Below(r)'
  BY <1>1, <1>2, <1>4 DEF IInv, Above, Below, LastPage
<1> QED
  BY <1>1, <1>2, <1>3, <1>4 DEF IInv, Unopened, Due, Reached

-----------------------------------------------------------------------------
(* A stream                                                                *)

\* A stream is replaced; nothing else but what its reader has seen.
LEMMA OwnStep ==
  ASSUME IInv, NEW r \in Readers, NEW new \in Stream, NEW sent \in SUBSET Ids,
         stream' = [stream EXCEPT ![r] = new], seen' = [seen EXCEPT ![r] = sent],
         UNCHANGED << stored, wall, zone, cutoff >>,
         new.page # {} => new.pc = "send",
         new.pc = "off" => new = Idle,
         r \in Searches => Above(r)' /\ Below(r)',
         r = Task => /\ Reached(new.end)
                     /\ \A i \in sent \cup new.page : Reached(wall[i] + 1)
  PROVE  IInv'
<1>1. /\ stream' \in [Readers -> Stream] /\ seen' \in [Readers -> SUBSET Ids]
      /\ stream'[r] = new /\ seen'[r] = sent
      /\ \A s \in Readers : s # r => stream'[s] = stream[s] /\ seen'[s] = seen[s]
  BY Typing
<1>2. TypeOK' /\ Numbered'
  BY <1>1, Typing, Retyping
<1>3. Unopened'
  BY <1>1 DEF IInv, Unopened
<1>4. ASSUME NEW s \in Searches PROVE Above(s)' /\ Below(s)'
  <2>1. CASE s = r
    BY <2>1
  <2>2. CASE s # r
    BY <1>1, <2>2, Typing DEF IInv, Above, Below, LastPage
  <2> QED
    BY <2>1, <2>2
<1>5. Due'
  <2>1. CASE r = Task
    BY <1>1, <2>1 DEF Due, Reached
  <2>2. CASE r # Task
    BY <1>1, <2>2, Typing DEF IInv, Due, Reached
  <2> QED
    BY <2>1, <2>2
<1> QED
  BY <1>2, <1>3, <1>4, <1>5 DEF IInv

\* FilterStream's first query.
LEMMA OpenKeeps ==
  ASSUME IInv, NEW r \in Readers, NEW end \in Nat, Open(r, end), r = Task => Reached(end)
  PROVE  IInv'
<1>1. /\ stream[r] = Idle /\ seen' = [seen EXCEPT ![r] = {}]
      /\ UNCHANGED << stored, wall, zone, cutoff >>
  BY DEF Open, IInv, Unopened
<1>2. CASE stored = {}
  <2> DEFINE new == [stream[r] EXCEPT !.pc = "done"]
  <2>1. stream' = [stream EXCEPT ![r] = new]
    BY <1>2 DEF Open
  <2>2. /\ new \in Stream /\ new.page = {} /\ new.start = {} /\ new.end = 0
        /\ new.pc = "done"
    BY <1>1, IdleIsStream DEF Idle, Stream
  <2> HIDE DEF new
  <2>3. stream'[r] = new /\ seen'[r] = {}
    BY <1>1, <2>1, Typing
  <2>4. Above(r)' /\ Below(r)'
    BY <2>2, <2>3 DEF Above, Below
  <2>5. /\ Reached(new.end) /\ {} \in SUBSET Ids
        /\ \A i \in {} \cup new.page : Reached(wall[i] + 1)
        /\ new.pc # "off" /\ (new.page # {} => new.pc = "send")
    BY <2>2, Typing DEF Reached
  <2> QED
    BY <1>1, <2>1, <2>2, <2>4, <2>5, OwnStep
<1>3. CASE stored # {}
  <2> DEFINE maxId == CHOOSE i \in stored : \A j \in stored : j <= i
             new == [Idle EXCEPT !.pc = "query", !.maxId = maxId, !.end = end,
                                 !.start = { i \in stored : wall[i] < end }]
  <2>1. maxId \in 0 .. MaxId /\ \A j \in stored : j <= maxId
    <3>1. stored \in SUBSET Nat /\ \A j \in stored : j <= MaxId
      BY Typing
    <3>2. \E i \in stored : \A j \in stored : j <= i
      BY <1>3, <3>1, Greatest, EventStreamAssumption
    <3>3. maxId \in stored /\ \A j \in stored : j <= maxId
      BY <3>2
    <3> QED
      BY <3>3, Typing
  <2>2. stream' = [stream EXCEPT ![r] = new]
    BY <1>3 DEF Open
  <2> HIDE DEF maxId
  <2>3. /\ new \in Stream /\ new.pc = "query" /\ new.page = {} /\ new.last = 0
        /\ new.end = end /\ new.maxId = maxId
        /\ new.start = { i \in stored : wall[i] < end }
    <3>1. { i \in stored : wall[i] < end } \in SUBSET Ids
      BY Typing
    <3> QED
      BY <2>1, <3>1, EventStreamAssumption DEF Idle, Stream
  <2> HIDE DEF new
  <2>4. stream'[r] = new /\ seen'[r] = {}
    BY <1>1, <2>2, Typing
  <2>5. Above(r)' /\ Below(r)'
    BY <1>1, <2>1, <2>3, <2>4 DEF Above, Below, LastPage
  <2> QED
    BY <1>1, <2>2, <2>3, <2>5, Typing, OwnStep
<1> QED
  BY <1>2, <1>3

\* The next page: strictly below the last row, and nothing left out but ties.
LEMMA QueryPageKeeps ==
  ASSUME IInv, NEW r \in Readers, QueryPage(r)
  PROVE  IInv'
<1>1. /\ stream[r].pc = "query" /\ stream[r].page = {}
      /\ UNCHANGED << stored, wall, zone, cutoff, seen >>
  BY Typing DEF QueryPage
<1>2. PICK page \in SUBSET stored :
        /\ IsPage(stream[r], page)
        /\ stream' = [stream EXCEPT
             ![r].pc = "send", ![r].page = page,
             ![r].last = IF page = {} THEN @ ELSE Oldest(page),
             ![r].edges = IF Cardinality(page) < PageSize THEN @ ELSE @ \cup {Oldest(page)}]
  BY DEF QueryPage
<1> DEFINE s == stream[r]
           last == IF page = {} THEN s.last ELSE Oldest(page)
           edges == IF Cardinality(page) < PageSize THEN s.edges
                    ELSE s.edges \cup {Oldest(page)}
           new == [s EXCEPT !.pc = "send", !.page = page, !.last = last, !.edges = edges]
<1>3. stream' = [stream EXCEPT ![r] = new]
  BY <1>2
<1>4. /\ s \in Stream /\ page \subseteq Ids
      /\ page # {} => Oldest(page) \in Walls /\ \A i \in page : Oldest(page) <= wall[i]
      /\ ~ (Cardinality(page) < PageSize) => page # {}
  <2>1. page \subseteq Ids
    BY Typing
  <2>2. page = {} => Cardinality(page) < PageSize
    BY FS_EmptySet, EventStreamAssumption
  <2> QED
    BY <2>1, <2>2, Typing, OldestOfPage DEF IInv
<1>5. last \in Walls \cup {0} /\ edges \subseteq Walls
  BY <1>4 DEF Stream
<1> HIDE DEF last, edges
<1>6. /\ new \in Stream /\ new.pc = "send" /\ new.page = page /\ new.last = last
      /\ new.edges = edges /\ new.start = s.start /\ new.maxId = s.maxId /\ new.end = s.end
  BY <1>4, <1>5 DEF Stream
<1> HIDE DEF new
<1>7. stream'[r] = new /\ seen'[r] = seen[r] /\ seen' = [seen EXCEPT ![r] = seen[r]]
  BY <1>1, <1>3, Typing
<1>8. /\ \A i \in page : /\ wall[i] < s.end
                         /\ s.last # 0 => wall[i] < s.last
      /\ \A i \in Ids : wall[i] \in Nat /\ wall[i] # 0
      /\ s.last \in Nat
  <2>1. \A i \in page : wall[i] < s.end /\ (s.last # 0 => wall[i] < s.last)
    BY <1>2 DEF IsPage, Matches
  <2>2. \A i \in Ids : wall[i] \in Nat /\ wall[i] # 0
    BY Typing
  <2>3. s.last \in Nat
    <3>1. s.last \in Walls \cup {0}
      BY <1>4 DEF Stream
    <3>2. Walls \subseteq Nat /\ 0 \in Nat
      BY WallsShow
    <3> QED
      BY <3>1, <3>2, Zenon
  <2> QED
    BY <2>1, <2>2, <2>3
<1>9. ASSUME r \in Searches PROVE Above(r)'
  <2>1. \A i \in seen[r] : s.last # 0 /\ s.last <= wall[i] /\ wall[i] \in Nat
    BY <1>8, <1>9, Typing DEF IInv, Above
  <2>2. \A i \in page, j \in seen[r] : wall[i] < wall[j]
    <3> SUFFICES ASSUME NEW i \in page, NEW j \in seen[r] PROVE wall[i] < wall[j]
      OBVIOUS
    <3>1. wall[i] < s.last /\ s.last <= wall[j]
      BY <1>8, <2>1
    <3> QED
      BY <1>4, <1>8, <2>1, <3>1
  <2>3. CASE page = {}
    <3>1. last = s.last
      BY <2>3 DEF last
    <3> QED
      BY <1>1, <1>6, <1>7, <2>1, <2>3, <3>1 DEF Above
  <2>4. CASE page # {}
    <3>1. last = Oldest(page) /\ last # 0 /\ last \in Nat /\ \A i \in page : last <= wall[i]
      BY <1>4, <2>4, WallsShow DEF last
    <3>2. ASSUME NEW j \in seen[r] PROVE last <= wall[j]
      <4>1. PICK i \in page : TRUE
        BY <2>4
      <4>2. last <= wall[i] /\ wall[i] < wall[j]
        BY <2>2, <3>1, <3>2
      <4>3. wall[i] \in Nat /\ wall[j] \in Nat
        BY <1>4, <1>8, <2>1, <3>2
      <4> QED
        BY <3>1, <4>2, <4>3
    <3> QED
      BY <1>1, <1>6, <1>7, <2>2, <3>1, <3>2 DEF Above
  <2> QED
    BY <2>3, <2>4
<1>10. ASSUME r \in Searches PROVE Below(r)'
  <2> SUFFICES ASSUME NEW i \in (s.start \cap stored) \ (seen[r] \cup page)
               PROVE  /\ last # 0 => wall[i] < last \/ wall[i] \in edges
                      /\ Cardinality(page) < PageSize => wall[i] \in edges
    BY <1>1, <1>6, <1>7, <1>10 DEF IInv, Below, LastPage
  <2>1. i \in stored /\ i <= s.maxId /\ wall[i] < s.end /\ wall[i] \in Nat /\ i \in Ids
    BY <1>8, <1>10, Typing DEF IInv, Below
  <2>2. s.last # 0 => wall[i] < s.last \/ wall[i] \in s.edges
    BY <1>1, <1>10 DEF IInv, Below
  <2>3. s.edges \subseteq edges
    BY DEF edges
  <2>4. CASE ~ Matches(s, i)
    <3>1. s.last # 0 /\ ~ (wall[i] < s.last)
      BY <2>1, <2>4 DEF Matches
    <3> QED
      BY <2>2, <2>3, <3>1
  <2>5. CASE Matches(s, i)
    <3>1. ~ (Cardinality(page) < PageSize) /\ \A j \in page : wall[i] <= wall[j]
      BY <1>2, <2>1, <2>5 DEF IsPage
    <3>2. /\ page # {} /\ last = Oldest(page) /\ last \in edges
      BY <1>4, <3>1 DEF last, edges
    <3>3. wall[i] <= last
      BY <1>4, <2>1, <3>1, <3>2, OldestOfPage DEF IInv
    <3>4. last \in Nat
      BY <1>5, WallsShow
    <3>5. wall[i] < last \/ wall[i] = last
      BY <2>1, <3>3, <3>4
    <3> QED
      BY <3>1, <3>2, <3>5
  <2> QED
    BY <2>4, <2>5
<1>11. ASSUME r = Task
       PROVE  Reached(new.end) /\ \A i \in seen[r] \cup new.page : Reached(wall[i] + 1)
  <2>1. Reached(s.end) /\ s.end \in Nat /\ cutoff \in Nat
    BY <1>4, <1>11, Typing DEF IInv, Due, Stream
  <2>2. ASSUME NEW i \in page PROVE Reached(wall[i] + 1)
    <3>1. wall[i] < s.end /\ wall[i] \in Nat
      BY <1>4, <1>8
    <3>2. PICK z \in HostZones : s.end <= cutoff + z
      BY <2>1, <3>1 DEF Reached
    <3>3. wall[i] + 1 <= cutoff + z
      BY <2>1, <3>1, <3>2, EventStreamAssumption
    <3> QED
      BY <3>3 DEF Reached
  <2> QED
    BY <1>6, <1>11, <2>1, <2>2 DEF IInv, Due, Reached
<1>12. new.page # {} => new.pc = "send"
  BY <1>6
<1>13. new.pc # "off"
  BY <1>6
<1>14. seen[r] \in SUBSET Ids
  BY Typing
<1> QED
  BY <1>1, <1>3, <1>6, <1>7, <1>9, <1>10, <1>11, <1>12, <1>13, <1>14, OwnStep

LEMMA QueryFailsKeeps ==
  ASSUME IInv, NEW r \in Readers, QueryFails(r)
  PROVE  IInv'
<1> DEFINE s == stream[r]
           new == [s EXCEPT !.pc = "failed"]
<1>1. /\ s.pc = "query" /\ stream' = [stream EXCEPT ![r] = new]
      /\ UNCHANGED << stored, wall, zone, cutoff, seen >>
  BY DEF QueryFails
<1>2. /\ s \in Stream /\ s.page = {} /\ seen[r] \in SUBSET Ids
  BY <1>1, Typing
<1>3. /\ new \in Stream /\ new.pc = "failed" /\ new.page = {} /\ new.last = s.last
      /\ new.edges = s.edges /\ new.start = s.start /\ new.maxId = s.maxId /\ new.end = s.end
  BY <1>2 DEF Stream
<1> HIDE DEF new
<1>4. stream'[r] = new /\ seen' = [seen EXCEPT ![r] = seen[r]]
  BY <1>1, Typing
<1>5. r \in Searches => Above(r)' /\ Below(r)'
  BY <1>1, <1>2, <1>3, <1>4 DEF IInv, Above, Below, LastPage
<1>6. r = Task => Reached(new.end) /\ \A i \in seen[r] \cup new.page : Reached(wall[i] + 1)
  BY <1>3 DEF IInv, Due, Reached
<1> QED
  BY <1>1, <1>2, <1>3, <1>4, <1>5, <1>6, OwnStep

\* The page is handed over.
LEMMA SendPageKeeps ==
  ASSUME IInv, NEW r \in Readers, SendPage(r)
  PROVE  IInv'
<1> DEFINE s == stream[r]
           after == IF Cardinality(s.page) < PageSize THEN "done" ELSE "query"
           new == [s EXCEPT !.pc = after, !.page = {}]
           sent == seen[r] \cup s.page
<1>1. /\ s.pc = "send" /\ stream' = [stream EXCEPT ![r] = new]
      /\ seen' = [seen EXCEPT ![r] = sent]
      /\ UNCHANGED << stored, wall, zone, cutoff >>
  BY DEF SendPage
<1>2. /\ s \in Stream /\ sent \in SUBSET Ids
  BY Typing
<1>3. after \in {"done", "query"} /\ (after = "done" => LastPage(r))
  BY <1>1 DEF LastPage
<1> HIDE DEF after
<1>4. /\ new \in Stream /\ new.pc = after /\ new.page = {} /\ new.last = s.last
      /\ new.edges = s.edges /\ new.start = s.start /\ new.maxId = s.maxId /\ new.end = s.end
  BY <1>2, <1>3 DEF Stream
<1> HIDE DEF new
<1>5. stream'[r] = new /\ seen'[r] = sent
  BY <1>1, Typing
<1>6. r \in Searches => Above(r)' /\ Below(r)'
  <2> SUFFICES ASSUME r \in Searches PROVE Above(r)' /\ Below(r)'
    OBVIOUS
  <2>1. Above(r) /\ Below(r)
    BY DEF IInv
  <2>2. Above(r)'
    BY <1>1, <1>4, <1>5, <2>1 DEF Above
  <2>3. Below(r)'
    BY <1>1, <1>3, <1>4, <1>5, <2>1 DEF Below, LastPage
  <2> QED
    BY <2>2, <2>3
<1>7. r = Task => Reached(new.end) /\ \A i \in sent \cup new.page : Reached(wall[i] + 1)
  BY <1>4 DEF IInv, Due, Reached
<1>8. new.pc # "off" /\ (new.page # {} => new.pc = "send")
  BY <1>3, <1>4
<1> HIDE DEF sent
<1> QED
  BY <1>1, <1>2, <1>4, <1>6, <1>7, <1>8, OwnStep

LEMMA TaskReturnsKeeps ==
  ASSUME IInv, TaskReturns
  PROVE  IInv'
<1>1. /\ stream' = [stream EXCEPT ![Task] = Idle] /\ seen[Task] = {}
      /\ UNCHANGED << stored, wall, zone, cutoff, seen >>
  BY DEF TaskReturns
<1>2. /\ Idle.page = {} /\ Idle.end = 0 /\ Idle.pc = "off" /\ cutoff \in Nat
      /\ seen' = [seen EXCEPT ![Task] = seen[Task]] /\ seen[Task] \in SUBSET Ids
  BY <1>1, Typing DEF Idle
<1>3. Reached(Idle.end) /\ \A i \in seen[Task] \cup Idle.page : Reached(wall[i] + 1)
  BY <1>1, <1>2 DEF Reached
<1> QED
  BY <1>1, <1>2, <1>3, IdleIsStream, Typing, OwnStep

-----------------------------------------------------------------------------
(* The invariant                                                           *)

LEMMA InitHolds == Init => IInv
<1> SUFFICES ASSUME Init PROVE IInv
  OBVIOUS
<1>1. Ids = {} /\ 1 .. 0 = {} /\ Cardinality(Ids) = 0
  <2>1. Ids = {}
    BY DEF Init, Ids
  <2> QED
    BY <2>1, FS_EmptySet
<1>2. Numbered
  BY <1>1, EventStreamAssumption DEF Numbered
<1>3. \A r \in Readers : stream[r] = Idle /\ seen[r] = {}
  BY DEF Init
<1>4. stream \in [Readers -> Stream] /\ seen \in [Readers -> SUBSET Ids]
  BY IdleIsStream DEF Init
<1>5. TypeOK
  <2>1. wall \in [Ids -> Walls] /\ zone \in [Ids -> Nat]
    BY <1>1 DEF Init
  <2>2. \A r \in Readers : stream[r].page # {} => stream[r].pc = "send"
    BY <1>3 DEF Idle
  <2>3. Ids = 1 .. Cardinality(Ids) /\ stored \subseteq Ids /\ cutoff \in Nat
    BY <1>1 DEF Init
  <2> QED
    BY <1>4, <2>1, <2>2, <2>3 DEF TypeOK, Stream
<1>6. /\ Searches \subseteq Readers /\ Task \in Readers
  BY DEF Readers
<1>7. /\ Idle.page = {} /\ Idle.start = {} /\ Idle.end = 0
  BY DEF Idle
<1> QED
  BY <1>2, <1>3, <1>5, <1>6, <1>7 DEF Init, IInv, Unopened, Above, Below, Due, Reached

LEMMA StepHolds == IInv /\ [Next]_vars => IInv'
<1> SUFFICES ASSUME IInv, [Next]_vars PROVE IInv'
  OBVIOUS
<1>1. ASSUME NEW t \in Stamps, AddEvent(t) PROVE IInv'
  BY <1>1, AddEventKeeps
<1>2. CASE Age
  BY <1>2, AgeKeeps
<1>3. ASSUME NEW s \in Searches, NEW t \in Walls, Open(s, t + 1) PROVE IInv'
  <2>1. s \in Readers /\ s # Task /\ t + 1 \in Nat
    BY Typing
  <2> QED
    BY <1>3, <2>1, OpenKeeps
<1>4. CASE TaskStarts
  <2>1. PICK z \in HostZones : Open(Task, cutoff + z)
    BY <1>4 DEF TaskStarts
  <2>2. Task \in Readers /\ cutoff + z \in Nat /\ cutoff + z <= cutoff + z
    BY Typing, EventStreamAssumption
  <2>3. Reached(cutoff + z)
    BY <2>2 DEF Reached
  <2> QED
    BY <2>1, <2>2, <2>3, OpenKeeps
<1>5. ASSUME NEW r \in Readers, QueryPage(r) \/ QueryFails(r) \/ SendPage(r) PROVE IInv'
  BY <1>5, QueryPageKeeps, QueryFailsKeeps, SendPageKeeps
<1>6. CASE DeletePage \/ DeleteFails
  BY <1>6, DeleteKeeps
<1>7. CASE TaskReturns
  BY <1>7, TaskReturnsKeeps
<1>8. CASE UNCHANGED vars
  <2>1. TypeOK' /\ Numbered'
    BY <1>8, Typing, Retyping DEF vars
  <2> QED
    BY <1>8, <2>1 DEF vars, IInv, Unopened, Above, Below, LastPage, Due, Reached
<1> QED
  BY <1>1, <1>2, <1>3, <1>4, <1>5, <1>6, <1>7, <1>8 DEF Next

LEMMA Inductive == Spec => []IInv
BY InitHolds, StepHolds, PTL DEF Spec

\* Variables keep their types.
THEOREM TypeCorrect == Spec => []TypeOK
<1>1. IInv => TypeOK
  BY DEF IInv
<1> QED
  BY <1>1, Inductive, PTL

\* A search is sent its events in strictly descending pages.
THEOREM Descending == Spec => []PagesDescend
<1>1. IInv => PagesDescend
  BY DEF IInv, Above, PagesDescend
<1> QED
  BY <1>1, Inductive, PTL

\* A search that came to its end missed nothing but ties at the end of a page.
THEOREM TiesAtMost == Spec => []OnlyTiesMissed
<1>1. ASSUME IInv PROVE OnlyTiesMissed
  <2> SUFFICES ASSUME NEW r \in Searches, stream[r].pc = "done",
                      NEW i \in (stream[r].start \cap stored) \ seen[r]
               PROVE  wall[i] \in stream[r].edges
    BY DEF OnlyTiesMissed
  <2>1. stream[r].page = {}
    BY <1>1, Typing
  <2> QED
    BY <1>1, <2>1 DEF IInv, Below
<1> QED
  BY <1>1, Inductive, PTL

\* No event is deleted before its time, but for what its zone is behind the
\* host's.
THEOREM DeletedWhenDue == Spec => OnlyOldDeleted
<1> DEFINE Step == \A i \in stored \ stored' :
                     \E z \in HostZones : Time(i) < cutoff + (z - zone[i])
<1>1. ASSUME IInv, [Next]_vars PROVE [Step]_vars
  <2>1. CASE DeletePage
    <3> SUFFICES ASSUME NEW i \in stored \ stored'
                 PROVE  \E z \in HostZones : Time(i) < cutoff + (z - zone[i])
      OBVIOUS
    <3>1. i \in seen[Task] /\ Reached(wall[i] + 1)
      BY <1>1, <2>1 DEF DeletePage, IInv, Due, Reached
    <3>2. i \in Ids /\ wall[i] \in Nat /\ zone[i] \in Nat /\ cutoff \in Nat
      BY <1>1, <3>1, Typing DEF IInv, TypeOK
    <3>3. PICK z \in HostZones : wall[i] + 1 <= cutoff + z
      BY <3>1, <3>2 DEF Reached
    <3>4. z \in Nat
      BY EventStreamAssumption
    <3> QED
      BY <3>2, <3>3, <3>4 DEF Time
  <2>2. CASE ~DeletePage /\ Next
    <3>1. stored \subseteq stored'
      BY <2>2 DEF Next, AddEvent, Age, TaskStarts, Open, QueryPage, QueryFails, SendPage,
                  DeleteFails, TaskReturns
    <3>2. stored \ stored' = {}
      BY <3>1
    <3> QED
      BY <3>2
  <2> QED
    BY <1>1, <2>1, <2>2
<1>2. OnlyOldDeleted <=> [][Step]_vars
  BY PTL DEF OnlyOldDeleted
<1> QED
  BY <1>1, <1>2, Inductive, PTL DEF Spec

=============================================================================
