------------------------- MODULE FileWatcherProofs -------------------------
(***************************************************************************)
(* Proofs about FileWatcher, for any buffer size and any number of bytes,  *)
(* files and restarts.  The offset the watcher has reached is at or after  *)
(* that of every event of the source it is at, which is the only one that  *)
(* still grows (IInv).  What was published for a source and what is in the *)
(* buffer make up the bytes read of its file: what FlattenSeq makes of a   *)
(* sequence with one more event is by induction over the number of events. *)
(***************************************************************************)
EXTENDS FileWatcher, SequenceTheorems, WellFoundedInduction, TLAPS

Event == [raw : Seq(Bytes), offset : Nat]

\* Every event has been published at the offset reached, or before it.
Reached ==
  file # 0 => \A i \in DOMAIN published[Len(sources)] :
                published[Len(sources)][i].offset <= currentOffset

IInv ==
  /\ TypeOK
  /\ readPos \in Nat
  /\ Len(files) <= MaxFiles
  /\ published \in Seq(Seq(Event)) /\ Len(published) = Len(sources)
  /\ OffsetsAscend
  /\ Reached
  /\ SingleLines

-----------------------------------------------------------------------------
(* The end of the first line                                               *)

LEMMA Least ==
  ASSUME NEW S \in SUBSET Nat, S # {}
  PROVE  \E n \in S : \A m \in S : n <= m
<1>1. PICK R : IsWellFoundedOn(R, Nat) /\ \A m, n \in Nat : m < n => << m, n >> \in R
  <2>1. \A m, n \in Nat : m < n => << m, n >> \in OpToRel(<, Nat)
    BY DEF OpToRel
  <2> QED
    BY <2>1, NatLessThanWellFounded
<1>2. S \subseteq Nat
  OBVIOUS
<1>3. \E n \in S : \A m \in S : ~ (<< m, n >> \in R)
  <2>1. IsWellFoundedOn(R, Nat)
    BY <1>1
  <2> QED
    BY <1>2, <2>1, WFMin, Zenon
<1>4. PICK n \in S : \A m \in S : ~ (<< m, n >> \in R)
  BY <1>3
<1>5. ASSUME NEW m \in S PROVE n <= m
  <2>1. n \in Nat /\ m \in Nat
    BY <1>2
  <2>2. ~ (m < n)
    BY <1>1, <1>4, <2>1, Zenon
  <2> QED
    BY <2>1, <2>2
<1> QED
  BY <1>5

\* The first event ends at a delimiter and has none before it.
LEMMA FirstLine ==
  ASSUME NEW buf \in Seq(Bytes), CanSplit(buf)
  PROVE  /\ EndOfEvent(buf) \in 1 .. Len(buf)
         /\ buf[EndOfEvent(buf)] = "delimiter"
         /\ \A i \in 1 .. EndOfEvent(buf) - 1 : buf[i] # "delimiter"
<1> DEFINE I == { i \in 1 .. Len(buf) : buf[i] = "delimiter" }
<1>1. I \in SUBSET Nat /\ I # {}
  BY DEF CanSplit, Contains
<1>2. PICK n \in I : \A m \in I : n <= m
  BY <1>1, Least
<1>3. EndOfEvent(buf) = CHOOSE x \in I : \A y \in I : x <= y
  BY <1>1 DEF EndOfEvent, SelectInSeq, Min
<1>4. EndOfEvent(buf) \in I /\ \A m \in I : EndOfEvent(buf) <= m
  BY <1>2, <1>3
<1> QED
  BY <1>4

\* What SubSeq takes from the front, and what it leaves at the back.
LEMMA Cut ==
  ASSUME NEW s \in Seq(Bytes), NEW m \in Nat \ {0}, NEW n \in Nat, n <= Len(s)
  PROVE  /\ SubSeq(s, m, n) \in Seq(Bytes)
         /\ Len(SubSeq(s, m, n)) = IF m <= n THEN n - m + 1 ELSE 0
         /\ \A i \in 1 .. n - m + 1 : SubSeq(s, m, n)[i] = s[m + i - 1]
<1>1. \A i \in m .. n : s[i] \in Bytes
  OBVIOUS
<1> QED
  BY <1>1, SubSeqProperties

\* The first line of a buffer has no delimiter.
LEMMA LineIsSingle ==
  ASSUME NEW buf \in Seq(Bytes), CanSplit(buf)
  PROVE  LET raw == SubSeq(buf, 1, EndOfEvent(buf) - 1)
         IN  raw \in Seq(Bytes) /\ ~ Contains(raw, "delimiter")
<1> DEFINE n == EndOfEvent(buf) - 1
           raw == SubSeq(buf, 1, n)
<1>1. n \in Nat /\ n <= Len(buf) /\ \A i \in 1 .. n : buf[i] # "delimiter"
  BY FirstLine
<1> HIDE DEF n
<1>2. /\ raw \in Seq(Bytes) /\ Len(raw) = n
      /\ \A i \in 1 .. n : raw[i] = buf[i]
  BY <1>1, Cut
<1>3. ~ Contains(raw, "delimiter")
  BY <1>1, <1>2 DEF Contains
<1> QED
  BY <1>2, <1>3 DEF n

-----------------------------------------------------------------------------
(* The file and its names                                                  *)

LEMMA WriteKeeps ==
  ASSUME IInv, NEW n \in DOMAIN files, NEW b \in Bytes, Write(n, b)
  PROVE  IInv'
<1>1. /\ files' = [files EXCEPT ![n] = Append(files[n], b)]
      /\ UNCHANGED << current, notices, pc, reading, output, restarts >>
  BY DEF Write
<1>2. files \in Seq(Seq(Bytes)) /\ files[n] \in Seq(Bytes) /\ n \in 1 .. Len(files)
  BY SMTT(30) DEF IInv, TypeOK
<1>3. /\ Append(files[n], b) \in Seq(Bytes)
      /\ Len(Append(files[n], b)) = Len(files[n]) + 1
  BY <1>2
<1>4. /\ files' \in Seq(Seq(Bytes)) /\ Len(files') = Len(files)
      /\ \A m \in 1 .. Len(files) : files'[m] = IF m = n THEN Append(files[n], b) ELSE files[m]
  BY <1>1, <1>2, <1>3, ExceptSeq
<1>5. ASSUME NEW m \in 1 .. Len(files) PROVE Len(files[m]) <= Len(files'[m])
  <2>1. files[m] \in Seq(Bytes) /\ Len(files[m]) \in Nat /\ Len(files[n]) \in Nat
    BY <1>2
  <2>2. CASE m = n
    <3>1. Len(files'[m]) = Len(files[m]) + 1
      BY <1>3, <1>4, <2>2
    <3> QED
      BY <2>1, <3>1
  <2>3. CASE m # n
    BY <1>4, <2>1, <2>3
  <2> QED
    BY <2>2, <2>3
<1>6. file # 0 => readPos <= Len(files'[file])
  <2>1. file # 0 => file \in 1 .. Len(files) /\ readPos <= Len(files[file])
    BY DEF IInv, TypeOK
  <2>2. \A m \in 1 .. Len(files) : Len(files[m]) \in Nat /\ Len(files'[m]) \in Nat
    BY <1>2, <1>4
  <2> QED
    BY <1>5, <2>1, <2>2 DEF IInv
<1>7. TypeOK'
  BY <1>1, <1>4, <1>6 DEF IInv, TypeOK, reading, output
<1> QED
  BY <1>1, <1>4, <1>7 DEF IInv, reading, output, OffsetsAscend, Reached, SingleLines

\* A file is removed or renamed.
LEMMA GoneKeeps ==
  ASSUME IInv, RemoveFile \/ RenameFile
  PROVE  IInv'
<1>1. /\ current' = 0 /\ notices' \in Nat
      /\ UNCHANGED << files, pc, reading, output, restarts >>
  BY DEF RemoveFile, RenameFile, IInv, TypeOK
<1>2. TypeOK'
  BY <1>1 DEF IInv, TypeOK, reading, output
<1> QED
  BY <1>1, <1>2 DEF IInv, reading, output, OffsetsAscend, Reached, SingleLines

LEMMA CreateFileKeeps ==
  ASSUME IInv, CreateFile
  PROVE  IInv'
<1>1. /\ files' = Append(files, << >>) /\ current' = Len(files) + 1
      /\ Len(files) < MaxFiles /\ notices' \in Nat
      /\ UNCHANGED << pc, reading, output, restarts >>
  BY DEF CreateFile, IInv, TypeOK
<1>2. files \in Seq(Seq(Bytes)) /\ << >> \in Seq(Bytes) /\ MaxFiles \in Nat
  BY FileWatcherAssumption DEF IInv, TypeOK
<1>3. /\ files' \in Seq(Seq(Bytes)) /\ Len(files') = Len(files) + 1
      /\ \A m \in 1 .. Len(files) : files'[m] = files[m]
  BY <1>1, <1>2, AppendProperties
<1>4. file # 0 => readPos <= Len(files'[file])
  <2>1. file # 0 => file \in 1 .. Len(files) /\ readPos <= Len(files[file])
    BY DEF IInv, TypeOK
  <2> QED
    BY <1>3, <2>1
<1>5. Len(files') <= MaxFiles /\ Len(files) \in Nat
  BY <1>1, <1>2, <1>3
<1>6. TypeOK'
  <2>1. current' \in {0, Len(files')} /\ file \in 0 .. Len(files')
    BY <1>1, <1>3, <1>5 DEF IInv, TypeOK
  <2> QED
    BY <1>1, <1>3, <1>4, <2>1 DEF IInv, TypeOK, reading, output
<1> QED
  BY <1>1, <1>5, <1>6 DEF IInv, reading, output, OffsetsAscend, Reached, SingleLines

-----------------------------------------------------------------------------
(* The watcher                                                             *)

\* It is told of the file, finds nothing to open, or a tick begins.
LEMMA TurnKeeps ==
  ASSUME IInv, StartWatcher \/ Tick \/ OpenFails
  PROVE  IInv'
<1>1. /\ UNCHANGED << files, current, reading, output, restarts >> /\ notices' \in Nat
      /\ \/ pc = "none" /\ pc' = "select"
         \/ pc = "open" /\ pc' = "select"
         \/ pc = "select" /\ pc' = IF file = 0 THEN "open" ELSE "read"
  BY DEF StartWatcher, Tick, OpenFails, disk, IInv, TypeOK
<1>2. TypeOK'
  BY <1>1 DEF IInv, TypeOK, reading, output
<1> QED
  BY <1>1, <1>2 DEF IInv, reading, output, OffsetsAscend, Reached, SingleLines

LEMMA ReopenKeeps ==
  ASSUME IInv, Reopen
  PROVE  IInv'
<1>1. /\ pc = "select" /\ notices' \in Nat /\ reopening' = (file # 0)
      /\ pc' = IF file = 0 THEN "open" ELSE "read"
      /\ UNCHANGED << files, current, file, readPos, workingBuf, splitOffset,
                      currentOffset, sources, published, restarts >>
  BY DEF Reopen, IInv, TypeOK, output
<1>2. /\ pc' \in {"none", "select", "open", "read", "events"}
      /\ pc' \in {"read", "events"} => file' # 0
      /\ pc' \in {"none", "open"} => file' = 0
      /\ reopening' => pc' \in {"read", "events"}
      /\ pc' # "events" => splitOffset' = 0
  BY <1>1 DEF IInv, TypeOK
<1>3. TypeOK'
  BY <1>1, <1>2 DEF IInv, TypeOK
<1> QED
  BY <1>3 DEF Reopen, IInv, output, OffsetsAscend, Reached, SingleLines

\* The file gets a new source, which has no event yet.
LEMMA OpenKeeps ==
  ASSUME IInv, Open
  PROVE  IInv'
<1>1. /\ pc = "open" /\ current # 0 /\ file' = current /\ readPos' = 0 /\ currentOffset' = 0
      /\ workingBuf' = << >> /\ pc' = "read"
      /\ sources' = Append(sources, current) /\ published' = Append(published, << >>)
      /\ UNCHANGED << files, current, notices, reopening, splitOffset, restarts >>
  BY DEF Open, disk
<1>2. /\ sources \in Seq(1 .. MaxFiles) /\ published \in Seq(Seq(Event))
      /\ Len(published) = Len(sources) /\ << >> \in Seq(Event) /\ << >> \in Seq(Bytes)
      /\ files \in Seq(Seq(Bytes)) /\ MaxFiles \in Nat /\ Len(files) <= MaxFiles
      /\ current = Len(files)
  BY <1>1, FileWatcherAssumption DEF IInv, TypeOK
<1>3. current \in 1 .. MaxFiles /\ current \in 1 .. Len(files)
  BY <1>1, <1>2
<1>4. /\ sources' \in Seq(1 .. MaxFiles) /\ sources' # << >>
      /\ Len(sources') = Len(sources) + 1
  BY <1>1, <1>2, <1>3, AppendProperties, SMTT(30)
<1>5. /\ published' \in Seq(Seq(Event)) /\ Len(published') = Len(published) + 1
      /\ \A i \in 1 .. Len(published) : published'[i] = published[i]
      /\ published'[Len(published) + 1] = << >>
  BY <1>1, <1>2, AppendProperties
<1>6. readPos' <= Len(files'[file'])
  BY <1>1, <1>2, <1>3
<1>7. \A s \in DOMAIN published' : published'[s] \in Seq(Event)
  BY <1>5
<1>8. DOMAIN published' = DOMAIN sources'
  BY <1>2, <1>4, <1>5
<1>9. TypeOK'
  <2>1. /\ pc' = "read" /\ file' # 0 /\ file' \in 0 .. Len(files')
        /\ current' \in {0, Len(files')}
        /\ splitOffset' = 0 /\ currentOffset' \in Nat /\ workingBuf' \in Seq(Bytes)
    BY <1>1, <1>2, <1>3 DEF IInv, TypeOK
  <2>2. /\ files' \in Seq(Seq(Bytes)) /\ notices' \in Nat
        /\ restarts' \in 0 .. MaxRestarts
    BY <1>1 DEF IInv, TypeOK
  <2> QED
    BY <1>4, <1>6, <1>7, <1>8, <2>1, <2>2 DEF TypeOK, Event
<1>10. ASSUME NEW s \in DOMAIN published'
       PROVE  published'[s] = << >> \/ (s \in DOMAIN published /\ published'[s] = published[s])
  <2>1. Len(published) \in Nat /\ s \in 1 .. Len(published) + 1
        /\ DOMAIN published = 1 .. Len(published)
    BY <1>2, <1>5
  <2>2. s \in 1 .. Len(published) \/ s = Len(published) + 1
    BY <2>1
  <2> QED
    BY <1>5, <2>1, <2>2
<1>11. OffsetsAscend' /\ SingleLines'
  <2>1. OffsetsAscend'
    BY <1>10 DEF IInv, OffsetsAscend
  <2>2. SingleLines'
    BY <1>10 DEF IInv, SingleLines
  <2> QED
    BY <2>1, <2>2
<1>12. Reached'
  BY <1>2, <1>4, <1>5 DEF Reached
<1> QED
  BY <1>1, <1>2, <1>4, <1>5, <1>9, <1>11, <1>12 DEF IInv

LEMMA ReadKeeps ==
  ASSUME IInv, Read
  PROVE  IInv'
<1> DEFINE upTo == IF Len(files[file]) < readPos + ReadSize
                     THEN Len(files[file]) ELSE readPos + ReadSize
           buf == workingBuf \o SubSeq(files[file], readPos + 1, upTo)
<1>1. /\ pc = "read" /\ readPos' = upTo /\ workingBuf' = buf
      /\ pc' \in {"events", "read"}
      /\ UNCHANGED << files, current, notices, file, reopening, splitOffset,
                      currentOffset, sources, published, restarts >>
  BY DEF Read, disk, output
<1>2. /\ file \in 1 .. Len(files) /\ files[file] \in Seq(Bytes) /\ readPos \in Nat
      /\ readPos <= Len(files[file]) /\ workingBuf \in Seq(Bytes) /\ ReadSize \in Nat
      /\ Len(files[file]) \in Nat
  BY <1>1, FileWatcherAssumption, SMTT(30) DEF IInv, TypeOK
<1>3. upTo \in Nat /\ upTo <= Len(files[file])
  BY <1>2
<1> HIDE DEF upTo
<1>4. buf \in Seq(Bytes)
  <2>1. SubSeq(files[file], readPos + 1, upTo) \in Seq(Bytes)
    BY <1>2, <1>3, Cut
  <2> QED
    BY <1>2, <2>1, ConcatProperties
<1> HIDE DEF buf
<1>5. TypeOK'
  BY <1>1, <1>2, <1>3, <1>4 DEF IInv, TypeOK
<1> QED
  BY <1>1, <1>3, <1>5 DEF IInv, OffsetsAscend, Reached, SingleLines

LEMMA ReadNothingKeeps ==
  ASSUME IInv, ReadNothing
  PROVE  IInv'
<1>1. /\ pc = "read"
      /\ \/ file' = 0 /\ reopening' = FALSE /\ pc' = "open"
         \/ file' = file /\ reopening = FALSE /\ reopening' = FALSE /\ pc' = "select"
      /\ UNCHANGED << files, current, notices, readPos, workingBuf, splitOffset,
                      currentOffset, sources, published, restarts >>
  BY DEF ReadNothing, IInv, TypeOK, disk, output
<1>2. /\ pc' \in {"none", "select", "open", "read", "events"}
      /\ file' \in 0 .. Len(files)
      /\ pc' \in {"read", "events"} => file' # 0
      /\ pc' \in {"none", "open"} => file' = 0
      /\ reopening' => pc' \in {"read", "events"}
      /\ splitOffset' = 0
  BY <1>1, SMTT(30) DEF IInv, TypeOK
<1>3. file' # 0 => readPos' <= Len(files'[file']) /\ sources' # << >>
  BY <1>1 DEF IInv, TypeOK
<1>4. TypeOK'
  BY <1>1, <1>2, <1>3 DEF IInv, TypeOK
<1> QED
  BY <1>4 DEF ReadNothing, IInv, disk, output, OffsetsAscend, Reached, SingleLines

\* The next event goes to the source of the open file.
LEMMA PublishKeeps ==
  ASSUME IInv, Publish
  PROVE  IInv'
<1> DEFINE end == EndOfEvent(workingBuf)
           event == [raw |-> SubSeq(workingBuf, 1, end - 1), offset |-> currentOffset]
           last == Len(sources)
           events == published[last]
<1>1. /\ pc = "events" /\ CanSplit(workingBuf)
      /\ published' = [published EXCEPT ![last] = Append(events, event)]
      /\ currentOffset' = currentOffset + splitOffset
      /\ workingBuf' = SubSeq(workingBuf, end + 1, Len(workingBuf))
      /\ splitOffset' = splitOffset + end
      /\ UNCHANGED << files, current, notices, pc, file, readPos, reopening, sources, restarts >>
  BY DEF Publish, disk
<1>2. /\ workingBuf \in Seq(Bytes) /\ currentOffset \in Nat /\ splitOffset \in Nat
      /\ published \in Seq(Seq(Event)) /\ file # 0
      /\ sources \in Seq(1 .. MaxFiles) /\ sources # << >> /\ Len(published) = Len(sources)
  BY <1>1 DEF IInv, TypeOK
<1>3. end \in 1 .. Len(workingBuf) /\ Len(workingBuf) \in Nat
  BY <1>1, <1>2, FirstLine
<1>4. /\ event \in Event /\ event.offset = currentOffset
      /\ ~ Contains(event.raw, "delimiter")
  BY <1>1, <1>2, LineIsSingle DEF Event
<1> HIDE DEF event
<1>5. SubSeq(workingBuf, end + 1, Len(workingBuf)) \in Seq(Bytes)
  BY <1>2, <1>3, Cut
<1>6. last \in 1 .. Len(published) /\ events \in Seq(Event)
  BY <1>2, EmptySeq
<1>7. /\ Append(events, event) \in Seq(Event)
      /\ Len(Append(events, event)) = Len(events) + 1
      /\ \A i \in 1 .. Len(events) : Append(events, event)[i] = events[i]
      /\ Append(events, event)[Len(events) + 1] = event
  BY <1>4, <1>6, AppendProperties
<1>8. /\ published' \in Seq(Seq(Event)) /\ Len(published') = Len(published)
      /\ published'[last] = Append(events, event)
      /\ \A s \in 1 .. Len(published) : s # last => published'[s] = published[s]
  BY <1>1, <1>2, <1>6, <1>7, ExceptSeq
<1> HIDE DEF end
<1>9. TypeOK'
  <2>1. splitOffset' \in Nat /\ currentOffset' \in Nat /\ workingBuf' \in Seq(Bytes)
    BY <1>1, <1>2, <1>3, <1>5
  <2>2. /\ DOMAIN published' = DOMAIN sources'
        /\ \A s \in DOMAIN published' : published'[s] \in Seq(Event)
    BY <1>1, <1>2, <1>8
  <2> QED
    BY <1>1, <2>1, <2>2 DEF IInv, TypeOK, Event
<1>10. \A i \in 1 .. Len(events) : events[i].offset <= currentOffset /\ events[i].offset \in Nat
  <2>1. \A i \in DOMAIN events : events[i].offset <= currentOffset
    BY <1>2 DEF IInv, Reached
  <2>2. \A i \in 1 .. Len(events) : events[i] \in Event
    BY <1>6
  <2> QED
    BY <1>6, <2>1, <2>2 DEF Event
<1>11. DOMAIN published = 1 .. Len(published) /\ DOMAIN published' = 1 .. Len(published)
       /\ DOMAIN events = 1 .. Len(events) /\ Len(events) \in Nat
       /\ DOMAIN Append(events, event) = 1 .. Len(events) + 1
  BY <1>2, <1>6, <1>7, <1>8
<1>12. OffsetsAscend'
  <2>0. DOMAIN published' = 1 .. Len(published)
    BY <1>11
  <2> SUFFICES ASSUME NEW s \in 1 .. Len(published), NEW i \in DOMAIN published'[s], i > 1
               PROVE  published'[s][i - 1].offset <= published'[s][i].offset
    BY <2>0, SMTT(30) DEF OffsetsAscend
  <2>1. CASE s # last
    BY <1>8, <1>11, <2>1 DEF IInv, OffsetsAscend
  <2>2. CASE s = last
    <3>1. i \in 1 .. Len(events) + 1 /\ i - 1 \in 1 .. Len(events)
      BY <1>8, <1>11, <2>2
    <3>2. published'[s][i - 1] = events[i - 1]
      BY <1>7, <1>8, <2>2, <3>1
    <3>3. CASE i = Len(events) + 1
      BY <1>4, <1>7, <1>8, <1>10, <2>2, <3>1, <3>2, <3>3
    <3>4. CASE i \in 1 .. Len(events)
      <4>1. events[i - 1].offset <= events[i].offset
        BY <1>6, <1>11, <3>4 DEF IInv, OffsetsAscend
      <4> QED
        BY <1>7, <1>8, <2>2, <3>2, <3>4, <4>1
    <3> QED
      BY <1>11, <3>1, <3>3, <3>4
  <2> QED
    BY <2>1, <2>2
<1>13. Reached'
  <2> SUFFICES ASSUME NEW i \in 1 .. Len(events) + 1
               PROVE  Append(events, event)[i].offset <= currentOffset + splitOffset
    BY <1>1, <1>8, <1>11 DEF Reached
  <2>1. CASE i = Len(events) + 1
    BY <1>2, <1>4, <1>7, <2>1
  <2>2. CASE i \in 1 .. Len(events)
    BY <1>2, <1>7, <1>10, <2>2
  <2> QED
    BY <1>11, <2>1, <2>2
<1>14. SingleLines'
  <2>0. DOMAIN published' = 1 .. Len(published)
    BY <1>11
  <2> SUFFICES ASSUME NEW s \in 1 .. Len(published), NEW i \in DOMAIN published'[s]
               PROVE  ~ Contains(published'[s][i].raw, "delimiter")
    BY <2>0 DEF SingleLines
  <2>1. CASE s # last
    <3>1. s \in DOMAIN published /\ published'[s] = published[s]
      BY <1>8, <1>11, <2>1
    <3> QED
      BY <3>1 DEF IInv, SingleLines
  <2>2. CASE s = last /\ i = Len(events) + 1
    BY <1>4, <1>7, <1>8, <2>2
  <2>3. CASE s = last /\ i \in 1 .. Len(events)
    <3>1. published'[s][i] = published[s][i]
      BY <1>7, <1>8, <2>3
    <3> QED
      BY <1>6, <1>11, <2>3, <3>1 DEF IInv, SingleLines
  <2> QED
    BY <1>8, <1>11, <2>1, <2>2, <2>3
<1> QED
  BY <1>1, <1>8, <1>9, <1>12, <1>13, <1>14 DEF IInv

LEMMA PublishedKeeps ==
  ASSUME IInv, Published
  PROVE  IInv'
<1>1. TypeOK'
  BY DEF Published, IInv, TypeOK, disk, output
<1> QED
  BY <1>1 DEF Published, IInv, disk, output, OffsetsAscend, Reached, SingleLines

LEMMA RestartKeeps ==
  ASSUME IInv, Restart
  PROVE  IInv'
<1>1. << >> \in Seq(Bytes) /\ restarts' \in 0 .. MaxRestarts
  BY FileWatcherAssumption DEF Restart, IInv, TypeOK
<1>2. /\ file' = 0 /\ readPos' = 0 /\ reopening' = FALSE /\ workingBuf' = << >>
      /\ splitOffset' = 0 /\ currentOffset' = 0 /\ notices' = 0
      /\ pc' \in {"none", "select"}
      /\ UNCHANGED << files, current, sources, published >>
  BY DEF Restart, NewWatcher, output
<1>3. TypeOK'
  <2>1. /\ files \in Seq(Seq(Bytes)) /\ current \in {0, Len(files)}
        /\ sources \in Seq(1 .. MaxFiles) /\ DOMAIN published = DOMAIN sources
        /\ \A s \in DOMAIN published : published[s] \in Seq([raw : Seq(Bytes), offset : Nat])
    BY Zenon DEF IInv, TypeOK
  <2>2. /\ file' \in 0 .. Len(files) /\ file' = 0 /\ ~ reopening'
        /\ pc' \in {"none", "select"} /\ pc' \notin {"read", "events"}
        /\ splitOffset' \in Nat /\ currentOffset' \in Nat /\ notices' \in Nat
    BY <1>2, <2>1
  <2>3. /\ files' \in Seq(Seq(Bytes)) /\ current' \in {0, Len(files')}
        /\ sources' \in Seq(1 .. MaxFiles) /\ DOMAIN published' = DOMAIN sources'
        /\ \A s \in DOMAIN published' : published'[s] \in Seq([raw : Seq(Bytes), offset : Nat])
    BY <1>2, <2>1, Zenon
  <2> QED
    BY <1>1, <1>2, <2>2, <2>3 DEF TypeOK
<1> QED
  BY <1>3 DEF Restart, NewWatcher, IInv, output, OffsetsAscend, Reached, SingleLines

-----------------------------------------------------------------------------
(* The invariant                                                           *)

LEMMA InitHolds == Init => IInv
<1> SUFFICES ASSUME Init PROVE IInv
  OBVIOUS
<1>1. /\ << >> \in Seq(Bytes) /\ << >> \in Seq(Seq(Bytes)) /\ << << >> >> \in Seq(Seq(Bytes))
      /\ Len(<< >>) = 0 /\ Len(<< << >> >>) = 1
      /\ << >> \in Seq(1 .. MaxFiles) /\ << >> \in Seq(Seq(Event)) /\ DOMAIN << >> = {}
  OBVIOUS
<1>2. /\ \/ files = << >> /\ current = 0 /\ pc = "none"
         \/ files = << << >> >> /\ current = 1 /\ pc = "select"
      /\ notices = 0 /\ file = 0 /\ readPos = 0 /\ reopening = FALSE
      /\ workingBuf = << >> /\ splitOffset = 0 /\ currentOffset = 0
      /\ sources = << >> /\ published = << >> /\ restarts = 0
  BY DEF Init
<1>3. /\ files \in Seq(Seq(Bytes)) /\ current \in {0, Len(files)}
      /\ Len(files) \in Nat /\ Len(files) <= MaxFiles
  <2>1. MaxFiles \in Nat /\ MaxFiles >= 1
    BY FileWatcherAssumption
  <2>2. CASE files = << >> /\ current = 0
    BY <1>1, <2>1, <2>2
  <2>3. CASE files = << << >> >> /\ current = 1
    BY <1>1, <2>1, <2>3
  <2> QED
    BY <1>2, <2>2, <2>3
<1>4. DOMAIN published = {} /\ DOMAIN sources = {} /\ restarts \in 0 .. MaxRestarts
  BY <1>1, <1>2, FileWatcherAssumption
<1>5. TypeOK
  BY <1>1, <1>2, <1>3, <1>4 DEF TypeOK
<1>6. OffsetsAscend /\ Reached /\ SingleLines
  BY <1>2, <1>4 DEF OffsetsAscend, Reached, SingleLines
<1> QED
  BY <1>1, <1>2, <1>3, <1>5, <1>6 DEF IInv

LEMMA StepHolds == IInv /\ [Next]_vars => IInv'
<1> SUFFICES ASSUME IInv, [Next]_vars PROVE IInv'
  OBVIOUS
<1>1. ASSUME NEW n \in DOMAIN files, NEW b \in Bytes, Write(n, b) PROVE IInv'
  BY <1>1, WriteKeeps
<1>2. CASE RemoveFile \/ RenameFile
  BY <1>2, GoneKeeps
<1>3. CASE CreateFile
  BY <1>3, CreateFileKeeps
<1>4. CASE StartWatcher \/ Tick \/ OpenFails
  BY <1>4, TurnKeeps
<1>5. CASE Reopen
  BY <1>5, ReopenKeeps
<1>6. CASE Open
  BY <1>6, OpenKeeps
<1>7. CASE Read
  BY <1>7, ReadKeeps
<1>8. CASE ReadNothing
  BY <1>8, ReadNothingKeeps
<1>9. CASE Publish
  BY <1>9, PublishKeeps
<1>10. CASE Published
  BY <1>10, PublishedKeeps
<1>11. CASE Restart
  BY <1>11, RestartKeeps
<1>12. CASE UNCHANGED vars
  BY <1>12 DEF vars, disk, reading, output, IInv, TypeOK, OffsetsAscend, Reached, SingleLines
<1> QED
  BY <1>1, <1>2, <1>3, <1>4, <1>5, <1>6, <1>7, <1>8, <1>9, <1>10, <1>11, <1>12
     DEF Next, Watch

LEMMA Inductive == Spec => []IInv
BY InitHolds, StepHolds, PTL DEF Spec

\* Induction over the natural numbers, for the set of those that have a property.
LEMMA Induction ==
  ASSUME NEW S \in SUBSET Nat, 0 \in S, \A n \in S : n + 1 \in S
  PROVE  S = Nat
<1> SUFFICES ASSUME S # Nat PROVE FALSE
  OBVIOUS
<1>1. PICK n \in Nat \ S : \A m \in Nat \ S : n <= m
  BY Least
<1>2. n # 0 /\ n - 1 \in Nat /\ n - 1 < n
  BY <1>1
<1>3. n - 1 \in S
  BY <1>1, <1>2
<1>4. (n - 1) + 1 = n
  BY <1>1
<1> QED
  BY <1>1, <1>3, <1>4

\* What FlattenSeq computes its result with.
Flattens(f, s, n) == f = [i \in 1 .. n |-> IF i = 1 THEN s[i] ELSE f[i - 1] \o s[i]]

LEMMA FlattensAt ==
  ASSUME NEW f, NEW s, NEW n, Flattens(f, s, n), NEW i \in 1 .. n
  PROVE  f[i] = IF i = 1 THEN s[i] ELSE f[i - 1] \o s[i]
<1> DEFINE g == [j \in 1 .. n |-> IF j = 1 THEN s[j] ELSE f[j - 1] \o s[j]]
<1>1. f = g
  BY DEF Flattens
<1>2. g[i] = IF i = 1 THEN s[i] ELSE f[i - 1] \o s[i]
  OBVIOUS
<1> HIDE DEF g
<1> QED
  BY <1>1, <1>2

LEMMA FlattensExists ==
  ASSUME NEW s, NEW n \in Nat
  PROVE  \E f : Flattens(f, s, n)
<1> DEFINE S == { m \in Nat : \E f : Flattens(f, s, m) }
<1>1. 0 \in S
  <2>1. Flattens([i \in 1 .. 0 |-> 0], s, 0)
    BY DEF Flattens
  <2> QED
    BY <2>1
<1>2. ASSUME NEW m \in S PROVE m + 1 \in S
  <2>1. PICK f : Flattens(f, s, m)
    OBVIOUS
  <2> DEFINE g == [i \in 1 .. m + 1 |-> IF i <= m THEN f[i] ELSE IF i = 1 THEN s[i] ELSE f[m] \o s[i]]
  <2>2. ASSUME NEW i \in 1 .. m + 1
        PROVE  g[i] = IF i = 1 THEN s[i] ELSE g[i - 1] \o s[i]
    <3>1. CASE i <= m
      <4>1. f[i] = IF i = 1 THEN s[i] ELSE f[i - 1] \o s[i]
        BY <2>1, <3>1, FlattensAt
      <4> QED
        BY <3>1, <4>1
    <3>2. CASE i = m + 1
      BY <3>2
    <3> QED
      BY <3>1, <3>2
  <2>3. Flattens(g, s, m + 1)
    BY <2>2 DEF Flattens
  <2> QED
    BY <2>3
<1> HIDE DEF S
<1>3. S = Nat
  BY <1>1, <1>2, Induction DEF S
<1> QED
  BY <1>3 DEF S

SameStart(s, t, n) == \A i \in 1 .. n : s[i] = t[i]

\* Two of them agree as far as their sequences do.
LEMMA FlattensUnique ==
  ASSUME NEW s, NEW t, NEW n \in Nat, NEW m \in Nat, n <= m, SameStart(s, t, n),
         NEW f, Flattens(f, s, n), NEW g, Flattens(g, t, m)
  PROVE  \A i \in 1 .. n : f[i] = g[i]
<1> DEFINE S == { k \in Nat : k \in 1 .. n => f[k] = g[k] }
<1>1. 0 \in S
  OBVIOUS
<1>2. ASSUME NEW k \in S PROVE k + 1 \in S
  <2> SUFFICES ASSUME k + 1 \in 1 .. n PROVE f[k + 1] = g[k + 1]
    OBVIOUS
  <2>1. /\ f[k + 1] = IF k + 1 = 1 THEN s[k + 1] ELSE f[k] \o s[k + 1]
        /\ g[k + 1] = IF k + 1 = 1 THEN t[k + 1] ELSE g[k] \o t[k + 1]
    <3>1. k + 1 \in 1 .. m /\ (k + 1) - 1 = k
      OBVIOUS
    <3> QED
      BY <3>1, FlattensAt
  <2>2. k + 1 # 1 => f[k] = g[k]
    OBVIOUS
  <2>3. s[k + 1] = t[k + 1]
    BY DEF SameStart
  <2> QED
    BY <2>1, <2>2, <2>3
<1> HIDE DEF S
<1>3. S = Nat
  BY <1>1, <1>2, Induction DEF S
<1> QED
  BY <1>3 DEF S

LEMMA FlattenIs ==
  ASSUME NEW s, Len(s) \in Nat \ {0}
  PROVE  \E f : Flattens(f, s, Len(s)) /\ FlattenSeq(s) = f[Len(s)]
<1> DEFINE f == CHOOSE g : Flattens(g, s, Len(s))
<1>1. Flattens(f, s, Len(s))
  BY FlattensExists
<1>2. FlattenSeq(s) = f[Len(s)]
  BY DEF FlattenSeq, Flattens
<1> QED
  BY <1>1, <1>2

\* One sequence more at the end.
LEMMA FlattenLonger ==
  ASSUME NEW n \in Nat \ {0}, NEW s, Len(s) = n, NEW t, Len(t) = n + 1,
         \A i \in 1 .. n : s[i] = t[i]
  PROVE  FlattenSeq(t) = FlattenSeq(s) \o t[n + 1]
<1>1. PICK f : Flattens(f, s, n) /\ FlattenSeq(s) = f[n]
  BY FlattenIs
<1>2. PICK g : Flattens(g, t, n + 1) /\ FlattenSeq(t) = g[n + 1]
  <2>1. n + 1 \in Nat \ {0}
    OBVIOUS
  <2> QED
    BY <2>1, FlattenIs
<1>3. f[n] = g[n]
  <2>1. n \in Nat /\ n + 1 \in Nat /\ n <= n + 1 /\ n \in 1 .. n
    OBVIOUS
  <2>2. Flattens(f, s, n) /\ Flattens(g, t, n + 1)
    BY <1>1, <1>2
  <2>3. \A i \in 1 .. n : f[i] = g[i]
    <3> DEFINE m == n + 1
    <3>1. /\ n \in Nat /\ m \in Nat /\ n <= m
          /\ SameStart(s, t, n) /\ Flattens(f, s, n) /\ Flattens(g, t, m)
      BY <2>1, <2>2 DEF SameStart
    <3> HIDE DEF m
    <3> QED
      BY <3>1, FlattensUnique
  <2> QED
    BY <2>1, <2>3
<1>4. g[n + 1] = g[n] \o t[n + 1]
  <2>1. n + 1 \in 1 .. n + 1 /\ n + 1 # 1 /\ (n + 1) - 1 = n
    OBVIOUS
  <2>2. Flattens(g, t, n + 1)
    BY <1>2
  <2>3. \A i \in 1 .. n + 1 : g[i] = IF i = 1 THEN t[i] ELSE g[i - 1] \o t[i]
    BY <2>2, FlattensAt
  <2> QED
    BY <2>1, <2>3
<1> QED
  BY <1>1, <1>2, <1>3, <1>4
-----------------------------------------------------------------------------
(* The bytes that events stand for                                         *)

LEMMA NoEventsNoBytes == BytesOf(<< >>) = << >>
<1> DEFINE lines == [i \in DOMAIN << >> |-> Append(<< >>[i].raw, "delimiter")]
<1>1. lines = << >>
  OBVIOUS
<1>2. Len(lines) = 0
  BY <1>1, EmptySeq
<1>3. FlattenSeq(lines) = lines
  BY <1>2 DEF FlattenSeq
<1> QED
  BY <1>1, <1>3 DEF BytesOf

LEMMA BytesOfMore ==
  ASSUME NEW events \in Seq(Event), NEW e \in Event, BytesOf(events) \in Seq(Bytes)
  PROVE  BytesOf(Append(events, e)) = BytesOf(events) \o Append(e.raw, "delimiter")
<1> DEFINE n == Len(events)
           more == Append(events, e)
           s == [i \in DOMAIN events |-> Append(events[i].raw, "delimiter")]
           t == [i \in DOMAIN more |-> Append(more[i].raw, "delimiter")]
<1>1. /\ n \in Nat /\ DOMAIN events = 1 .. n /\ DOMAIN more = 1 .. n + 1
      /\ more[n + 1] = e /\ \A i \in 1 .. n : more[i] = events[i]
  BY AppendProperties, LenProperties
<1> HIDE DEF n, more
<1>2. /\ Len(s) = n /\ Len(t) = n + 1 /\ t[n + 1] = Append(e.raw, "delimiter")
      /\ \A i \in 1 .. n : s[i] = t[i]
  BY <1>1
<1>3. BytesOf(events) = FlattenSeq(s) /\ BytesOf(more) = FlattenSeq(t)
  BY DEF BytesOf
<1>4. CASE n = 0
  <2>1. t = << Append(e.raw, "delimiter") >>
    BY <1>1, <1>4
  <2>2. FlattenSeq(t) = t[1]
    <3> HIDE DEF t
    <3>1. Len(t) \in Nat \ {0} /\ Len(t) = 1 /\ 1 \in 1 .. Len(t)
      BY <1>2, <1>4
    <3>2. PICK f : Flattens(f, t, Len(t)) /\ FlattenSeq(t) = f[Len(t)]
      BY <3>1, FlattenIs
    <3>3. \A i \in 1 .. Len(t) : f[i] = IF i = 1 THEN t[i] ELSE f[i - 1] \o t[i]
      BY <3>2, FlattensAt
    <3> QED
      BY <3>1, <3>2, <3>3
  <2>3. events = << >>
    BY <1>4, EmptySeq DEF n
  <2>4. Append(e.raw, "delimiter") \in Seq(Bytes)
    BY DEF Event, Bytes
  <2> QED
    BY <1>3, <2>1, <2>2, <2>3, <2>4, NoEventsNoBytes, ConcatEmptySeq, ZenonT(30) DEF more
<1>5. CASE n # 0
  <2>1. n \in Nat \ {0}
    BY <1>1, <1>5
  <2> HIDE DEF s, t
  <2>2. FlattenSeq(t) = FlattenSeq(s) \o t[n + 1]
    BY <1>2, <2>1, FlattenLonger
  <2> QED
    BY <1>2, <1>3, <2>2 DEF more
<1> QED
  BY <1>4, <1>5

-----------------------------------------------------------------------------
(* Parts of a file                                                         *)

\* What stays when bytes are added at the end of a file.
LEMMA StartStays ==
  ASSUME NEW f \in Seq(Bytes), NEW g \in Seq(Bytes), Len(f) <= Len(g),
         \A i \in 1 .. Len(f) : g[i] = f[i]
  PROVE  /\ \A p \in 0 .. Len(f) : SubSeq(g, 1, p) = SubSeq(f, 1, p)
         /\ \A b \in Seq(Bytes) : IsPrefix(b, f) => IsPrefix(b, g)
<1>1. ASSUME NEW p \in 0 .. Len(f) PROVE SubSeq(g, 1, p) = SubSeq(f, 1, p)
  <2>1. p \in Nat /\ p <= Len(f) /\ p <= Len(g) /\ Len(f) \in Nat /\ Len(g) \in Nat
    OBVIOUS
  <2>2. /\ SubSeq(f, 1, p) \in Seq(Bytes) /\ Len(SubSeq(f, 1, p)) = p
        /\ \A i \in 1 .. p : SubSeq(f, 1, p)[i] = f[i]
    BY <2>1, Cut
  <2>3. /\ SubSeq(g, 1, p) \in Seq(Bytes) /\ Len(SubSeq(g, 1, p)) = p
        /\ \A i \in 1 .. p : SubSeq(g, 1, p)[i] = g[i]
    BY <2>1, Cut
  <2>4. \A i \in 1 .. p : g[i] = f[i]
    BY <2>1
  <2> QED
    BY <2>2, <2>3, <2>4, SeqEqual
<1>2. ASSUME NEW b \in Seq(Bytes), IsPrefix(b, f) PROVE IsPrefix(b, g)
  <2>1. Len(b) \in 0 .. Len(f) /\ Len(b) <= Len(g)
    BY <1>2 DEF IsPrefix
  <2>2. SubSeq(g, 1, Len(b)) = SubSeq(f, 1, Len(b))
    BY <1>1, <2>1
  <2> QED
    BY <1>2, <2>1, <2>2 DEF IsPrefix
<1> QED
  BY <1>1, <1>2

\* The first of two parts a file begins with.
LEMMA FirstPart ==
  ASSUME NEW f \in Seq(Bytes), NEW p \in 0 .. Len(f), NEW b \in Seq(Bytes), NEW r \in Seq(Bytes),
         b \o r = SubSeq(f, 1, p)
  PROVE  IsPrefix(b, f)
<1>1. p \in Nat /\ p <= Len(f) /\ Len(b) \in Nat /\ Len(r) \in Nat /\ Len(f) \in Nat
  OBVIOUS
<1>2. Len(SubSeq(f, 1, p)) = p /\ \A i \in 1 .. p : SubSeq(f, 1, p)[i] = f[i]
  BY <1>1, Cut
<1>3. /\ Len(b \o r) = Len(b) + Len(r)
      /\ \A i \in 1 .. Len(b) + Len(r) : (b \o r)[i] = IF i <= Len(b) THEN b[i] ELSE r[i - Len(b)]
  BY ConcatProperties
<1>4. Len(b) <= Len(f) /\ \A i \in 1 .. Len(b) : f[i] = b[i]
  BY <1>1, <1>2, <1>3
<1>5. SubSeq(b, 1, Len(b)) = b /\ IsPrefix(b, b)
  BY SubSeqFull DEF IsPrefix
<1>6. Len(b) \in 0 .. Len(b)
  BY <1>1
<1> QED
  BY <1>4, <1>5, StartStays

LEMMA Regroup ==
  ASSUME NEW a \in Seq(Bytes), NEW b \in Seq(Bytes), NEW c \in Seq(Bytes)
  PROVE  a \o b \in Seq(Bytes) /\ (a \o b) \o c = a \o (b \o c)
BY ConcatAssociative, ConcatProperties, SMTT(30)

\* A buffer is its first line, with the delimiter, and the rest.
LEMMA LineAndRest ==
  ASSUME NEW buf \in Seq(Bytes), CanSplit(buf)
  PROVE  LET end == EndOfEvent(buf)
         IN  Append(SubSeq(buf, 1, end - 1), "delimiter") \o SubSeq(buf, end + 1, Len(buf)) = buf
<1> DEFINE end == EndOfEvent(buf)
<1>1. end \in 1 .. Len(buf) /\ buf[end] = "delimiter" /\ Len(buf) \in Nat
  BY FirstLine
<1> HIDE DEF end
<1>2. SubSeq(buf, 1, end) = SubSeq(buf, 1, end - 1) \o << buf[end] >>
  <2>1. 1 \in 1 .. Len(buf) /\ end \in 1 .. Len(buf)
    BY <1>1
  <2> QED
    BY <2>1, SubSeqRecursiveSecond
<1>3. SubSeq(buf, 1, end - 1) \in Seq(Bytes)
  <2>1. end - 1 \in Nat /\ end - 1 <= Len(buf)
    BY <1>1
  <2> QED
    BY <2>1, Cut
<1>4. Append(SubSeq(buf, 1, end - 1), "delimiter") = SubSeq(buf, 1, end)
  <2>1. "delimiter" \in Bytes
    BY DEF Bytes
  <2> QED
    BY <1>1, <1>2, <1>3, <2>1, AppendIsConcat
<1>5. SubSeq(buf, 1, end) \o SubSeq(buf, end + 1, Len(buf)) = SubSeq(buf, 1, Len(buf))
  <2>1. 1 \in 1 .. Len(buf) + 1 /\ end \in 1 - 1 .. Len(buf) /\ Len(buf) \in end .. Len(buf)
    BY <1>1
  <2> QED
    BY <2>1, ConcatAdjacentSubSeq
<1> QED
  BY <1>4, <1>5, SubSeqFull DEF end

-----------------------------------------------------------------------------
(* Events are the lines of their file                                      *)

\* The last source is the one of the file that is open.
Contents ==
  /\ \A s \in DOMAIN sources :
       sources[s] \in 1 .. Len(files) /\ BytesOf(published[s]) \in Seq(Bytes)
  /\ file # 0 => sources[Len(sources)] = file
  /\ WholeLines

\* The files grow at their end, and there may be more of them.
LEMMA FilesGrow ==
  ASSUME IInv, Contents, files' \in Seq(Seq(Bytes)), Len(files) <= Len(files'),
         \A m \in 1 .. Len(files) : /\ Len(files[m]) <= Len(files'[m])
                                    /\ \A i \in 1 .. Len(files[m]) : files'[m][i] = files[m][i],
         UNCHANGED << sources, published, file, readPos, workingBuf >>
  PROVE  Contents'
<1>1. /\ files \in Seq(Seq(Bytes)) /\ Len(files) \in Nat /\ Len(files') \in Nat
      /\ readPos \in Nat /\ file \in 0 .. Len(files)
      /\ file # 0 => readPos <= Len(files[file])
  BY SMTT(30) DEF IInv, TypeOK
<1>2. \A m \in 1 .. Len(files) : files[m] \in Seq(Bytes) /\ files'[m] \in Seq(Bytes)
  BY <1>1, SMTT(30)
<1>3. ASSUME NEW m \in 1 .. Len(files)
      PROVE  /\ \A p \in 0 .. Len(files[m]) : SubSeq(files'[m], 1, p) = SubSeq(files[m], 1, p)
             /\ \A b \in Seq(Bytes) : IsPrefix(b, files[m]) => IsPrefix(b, files'[m])
  BY <1>2, StartStays
<1>4. \A s \in DOMAIN sources :
        sources[s] \in 1 .. Len(files') /\ IsPrefix(BytesOf(published[s]), files'[sources[s]])
  <2> SUFFICES ASSUME NEW s \in DOMAIN sources
               PROVE  sources[s] \in 1 .. Len(files') /\ IsPrefix(BytesOf(published[s]), files'[sources[s]])
    OBVIOUS
  <2>1. /\ sources[s] \in 1 .. Len(files) /\ BytesOf(published[s]) \in Seq(Bytes)
        /\ IsPrefix(BytesOf(published[s]), files[sources[s]])
    BY DEF Contents, WholeLines
  <2>2. IsPrefix(BytesOf(published[s]), files'[sources[s]])
    BY <1>3, <2>1
  <2> QED
    BY <1>1, <2>1, <2>2
<1>5. file # 0 => SubSeq(files'[file], 1, readPos) = SubSeq(files[file], 1, readPos)
  <2>1. file # 0 => file \in 1 .. Len(files) /\ readPos \in 0 .. Len(files[file])
    BY <1>1, <1>2
  <2> QED
    BY <1>3, <2>1
<1>6. WholeLines'
  BY <1>4, <1>5 DEF Contents, WholeLines
<1> QED
  BY <1>4, <1>6 DEF Contents

\* What the watcher has read, published and kept is as before, but that it may
\* have closed the file.
LEMMA ContentsStay ==
  ASSUME Contents, file' \in {0, file},
         UNCHANGED << files, sources, published >>,
         file' # 0 => UNCHANGED << readPos, workingBuf >>
  PROVE  Contents'
BY DEF Contents, WholeLines

LEMMA OpenContents ==
  ASSUME IInv, Contents, Open
  PROVE  Contents'
<1>1. /\ current # 0 /\ file' = current /\ readPos' = 0 /\ workingBuf' = << >>
      /\ sources' = Append(sources, current) /\ published' = Append(published, << >>)
      /\ files' = files
  BY DEF Open, disk
<1>2. /\ files \in Seq(Seq(Bytes)) /\ current \in 1 .. Len(files) /\ Len(files) \in Nat
      /\ Len(files) <= MaxFiles /\ MaxFiles \in Nat
      /\ sources \in Seq(1 .. MaxFiles) /\ published \in Seq(Seq(Event)) /\ Len(published) = Len(sources)
      /\ << >> \in Seq(Event) /\ << >> \in Seq(Bytes)
  BY <1>1, FileWatcherAssumption, SMTT(30) DEF IInv, TypeOK
<1> DEFINE n == Len(sources)
<1>3. /\ n \in Nat /\ DOMAIN sources = 1 .. n /\ DOMAIN sources' = 1 .. n + 1
      /\ Len(sources') = n + 1 /\ sources'[n + 1] = current /\ published'[n + 1] = << >>
      /\ \A s \in 1 .. n : sources'[s] = sources[s] /\ published'[s] = published[s]
  <2>1. current \in 1 .. MaxFiles
    BY <1>2
  <2> QED
    BY <1>1, <1>2, <2>1, AppendProperties, LenProperties
<1> HIDE DEF n
<1>4. /\ files[current] \in Seq(Bytes) /\ SubSeq(files[current], 1, 0) = << >>
      /\ << >> \o << >> = << >> /\ BytesOf(<< >>) = << >>
  BY <1>2, NoEventsNoBytes
<1>5. IsPrefix(<< >>, files[current])
  <2>1. 0 \in 0 .. Len(files[current])
    BY <1>4
  <2> QED
    BY <1>2, <1>4, <2>1, FirstPart
<1>6. ASSUME NEW s \in 1 .. n + 1
      PROVE  /\ sources'[s] \in 1 .. Len(files) /\ BytesOf(published'[s]) \in Seq(Bytes)
             /\ IsPrefix(BytesOf(published'[s]), files[sources'[s]])
  <2>1. CASE s = n + 1
    BY <1>2, <1>3, <1>4, <1>5, <2>1
  <2>2. CASE s \in 1 .. n
    BY <1>3, <2>2 DEF Contents, WholeLines
  <2> QED
    BY <1>3, <2>1, <2>2
<1>7. BytesOf(published'[n + 1]) \o workingBuf' = SubSeq(files[current], 1, readPos')
  BY <1>1, <1>3, <1>4
<1> QED
  BY <1>1, <1>3, <1>6, <1>7 DEF Contents, WholeLines

LEMMA ReadContents ==
  ASSUME IInv, Contents, Read
  PROVE  Contents'
<1> DEFINE f == files[file]
           upTo == IF Len(f) < readPos + ReadSize THEN Len(f) ELSE readPos + ReadSize
           part == SubSeq(f, readPos + 1, upTo)
           bytes == BytesOf(published[Len(sources)])
<1>1. /\ pc = "read" /\ readPos' = upTo /\ workingBuf' = workingBuf \o part
      /\ UNCHANGED << files, file, sources, published >>
  BY DEF Read, disk, output
<1>2. /\ file \in 1 .. Len(files) /\ f \in Seq(Bytes) /\ readPos \in Nat /\ Len(f) \in Nat
      /\ readPos <= Len(f) /\ workingBuf \in Seq(Bytes) /\ ReadSize \in Nat
      /\ sources \in Seq(1 .. MaxFiles) /\ sources # << >>
  BY <1>1, FileWatcherAssumption, SMTT(30) DEF IInv, TypeOK
<1>3. bytes \in Seq(Bytes) /\ bytes \o workingBuf = SubSeq(f, 1, readPos)
  <2>1. Len(sources) \in DOMAIN sources
    BY <1>2, EmptySeq, LenProperties
  <2> QED
    BY <1>2, <2>1 DEF Contents, WholeLines
<1>4. upTo \in readPos .. Len(f)
  BY <1>2
<1> HIDE DEF upTo, f
<1>5. part \in Seq(Bytes)
  BY <1>2, <1>4, Cut
<1>6. bytes \o (workingBuf \o part) = SubSeq(f, 1, upTo)
  <2>1. (bytes \o workingBuf) \o part = bytes \o (workingBuf \o part)
    <3> HIDE DEF part, bytes
    <3> QED
      BY <1>2, <1>3, <1>5, Regroup, ZenonT(30)
  <2>2. SubSeq(f, 1, readPos) \o part = SubSeq(f, 1, upTo)
    <3>1. 1 \in 1 .. Len(f) + 1 /\ readPos \in 1 - 1 .. Len(f)
      BY <1>2
    <3> QED
      BY <1>2, <1>4, <3>1, ConcatAdjacentSubSeq
  <2> QED
    BY <1>3, <2>1, <2>2
<1> QED
  BY <1>1, <1>6 DEF Contents, WholeLines, f

LEMMA PublishContents ==
  ASSUME IInv, Contents, Publish
  PROVE  Contents'
<1> DEFINE end == EndOfEvent(workingBuf)
           event == [raw |-> SubSeq(workingBuf, 1, end - 1), offset |-> currentOffset]
           rest == SubSeq(workingBuf, end + 1, Len(workingBuf))
           line == Append(SubSeq(workingBuf, 1, end - 1), "delimiter")
           last == Len(sources)
           events == published[last]
<1>1. /\ pc = "events" /\ CanSplit(workingBuf)
      /\ published' = [published EXCEPT ![last] = Append(events, event)]
      /\ workingBuf' = rest
      /\ UNCHANGED << files, file, readPos, sources >>
  BY DEF Publish, disk
<1>2. /\ workingBuf \in Seq(Bytes) /\ currentOffset \in Nat
      /\ published \in Seq(Seq(Event)) /\ file \in 1 .. Len(files) /\ files[file] \in Seq(Bytes)
      /\ readPos \in 0 .. Len(files[file])
      /\ sources \in Seq(1 .. MaxFiles) /\ sources # << >> /\ Len(published) = Len(sources)
  BY <1>1, SMTT(30) DEF IInv, TypeOK
<1>3. last \in DOMAIN sources /\ DOMAIN sources = DOMAIN published /\ events \in Seq(Event)
  BY <1>2, EmptySeq, LenProperties
<1>4. BytesOf(events) \in Seq(Bytes) /\ BytesOf(events) \o workingBuf = SubSeq(files[file], 1, readPos)
  BY <1>2, <1>3, SMTT(30) DEF Contents, WholeLines
<1>5. end \in 1 .. Len(workingBuf) /\ line \o rest = workingBuf
  BY <1>1, <1>2, FirstLine, LineAndRest
<1>6. event \in Event /\ event.raw \in Seq(Bytes)
  BY <1>1, <1>2, LineIsSingle DEF Event
<1>7. rest \in Seq(Bytes) /\ line \in Seq(Bytes)
  <2>1. rest \in Seq(Bytes)
    BY <1>2, <1>5, Cut, SMTT(20)
  <2>2. line \in Seq(Bytes)
    BY <1>6 DEF Bytes
  <2> QED
    BY <2>1, <2>2
<1>8. BytesOf(Append(events, event)) = BytesOf(events) \o line
  <2>1. event.raw = SubSeq(workingBuf, 1, end - 1)
    OBVIOUS
  <2> HIDE DEF event
  <2> QED
    BY <1>3, <1>4, <1>6, <2>1, BytesOfMore
<1> HIDE DEF event, line, rest, end
<1>9. /\ BytesOf(Append(events, event)) \in Seq(Bytes)
      /\ BytesOf(Append(events, event)) \o rest = SubSeq(files[file], 1, readPos)
  <2> HIDE DEF events
  <2>1. /\ BytesOf(events) \o line \in Seq(Bytes)
        /\ (BytesOf(events) \o line) \o rest = BytesOf(events) \o (line \o rest)
    BY <1>4, <1>7, Regroup
  <2> QED
    BY <1>4, <1>5, <1>8, <2>1
<1>10. IsPrefix(BytesOf(Append(events, event)), files[file])
  BY <1>2, <1>7, <1>9, FirstPart
<1>11. /\ published'[last] = Append(events, event)
       /\ \A s \in DOMAIN sources : s # last => published'[s] = published[s]
  BY <1>1, <1>3
<1>12. sources[last] = file
  BY <1>2 DEF Contents
<1> QED
  BY <1>1, <1>3, <1>9, <1>10, <1>11, <1>12 DEF Contents, WholeLines

LEMMA InitContents == Init => Contents
<1> SUFFICES ASSUME Init PROVE Contents
  OBVIOUS
<1>1. sources = << >> /\ file = 0 /\ DOMAIN << >> = {}
  BY DEF Init
<1> QED
  BY <1>1 DEF Contents, WholeLines

LEMMA StepContents == IInv /\ Contents /\ [Next]_vars => Contents'
<1> SUFFICES ASSUME IInv, Contents, [Next]_vars PROVE Contents'
  OBVIOUS
<1>1. ASSUME NEW n \in DOMAIN files, NEW b \in Bytes, Write(n, b) PROVE Contents'
  <2>1. /\ files' = [files EXCEPT ![n] = Append(files[n], b)]
        /\ UNCHANGED << sources, published, file, readPos, workingBuf >>
    BY <1>1 DEF Write, reading, output
  <2>2. files \in Seq(Seq(Bytes)) /\ files[n] \in Seq(Bytes) /\ n \in 1 .. Len(files)
    BY SMTT(30) DEF IInv, TypeOK
  <2>3. /\ Append(files[n], b) \in Seq(Bytes) /\ Len(files[n]) \in Nat
        /\ Len(Append(files[n], b)) = Len(files[n]) + 1
        /\ \A i \in 1 .. Len(files[n]) : Append(files[n], b)[i] = files[n][i]
    BY <2>2, AppendProperties
  <2>4. /\ files' \in Seq(Seq(Bytes)) /\ Len(files') = Len(files)
        /\ \A m \in 1 .. Len(files) : files'[m] = IF m = n THEN Append(files[n], b) ELSE files[m]
    BY <2>1, <2>2, <2>3, ExceptSeq
  <2>5. ASSUME NEW m \in 1 .. Len(files)
        PROVE  /\ Len(files[m]) <= Len(files'[m])
               /\ \A i \in 1 .. Len(files[m]) : files'[m][i] = files[m][i]
    <3>1. files[m] \in Seq(Bytes) /\ Len(files[m]) \in Nat
      BY <2>2
    <3>2. CASE m = n
      <4>1. files'[m] = Append(files[n], b)
        BY <2>4, <3>2
      <4> QED
        BY <2>3, <3>2, <4>1
    <3>3. CASE m # n
      BY <2>4, <3>1, <3>3
    <3> QED
      BY <3>2, <3>3
  <2>6. Len(files) <= Len(files')
    BY <2>2, <2>4
  <2> QED
    BY <2>1, <2>4, <2>5, <2>6, FilesGrow
<1>2. CASE RemoveFile \/ RenameFile \/ StartWatcher \/ Reopen \/ Tick \/ OpenFails \/ Published
  BY <1>2, ContentsStay DEF RemoveFile, RenameFile, StartWatcher, Reopen, Tick, OpenFails, Published,
     disk, reading, output
<1>3. CASE CreateFile
  <2>1. files' = Append(files, << >>) /\ UNCHANGED << sources, published, file, readPos, workingBuf >>
    BY <1>3 DEF CreateFile, reading, output
  <2>2. files \in Seq(Seq(Bytes)) /\ << >> \in Seq(Bytes) /\ Len(files) \in Nat
    BY DEF IInv, TypeOK
  <2>3. /\ files' \in Seq(Seq(Bytes)) /\ Len(files') = Len(files) + 1
        /\ \A m \in 1 .. Len(files) : files'[m] = files[m]
    BY <2>1, <2>2, AppendProperties
  <2>4. \A m \in 1 .. Len(files) : Len(files[m]) \in Nat
    BY <2>2
  <2> QED
    BY <2>1, <2>2, <2>3, <2>4, FilesGrow
<1>4. CASE Open
  BY <1>4, OpenContents
<1>5. CASE Read
  BY <1>5, ReadContents
<1>6. CASE ReadNothing
  BY <1>6, ContentsStay DEF ReadNothing, disk, output
<1>7. CASE Publish
  BY <1>7, PublishContents
<1>8. CASE Restart
  BY <1>8, ContentsStay DEF Restart, NewWatcher, output
<1>9. CASE UNCHANGED vars
  BY <1>9, ContentsStay DEF vars, disk, reading, output
<1> QED
  BY <1>1, <1>2, <1>3, <1>4, <1>5, <1>6, <1>7, <1>8, <1>9 DEF Next, Watch

\* Variables keep their types: the position is within the file that is open.
THEOREM TypeCorrect == Spec => []TypeOK
<1>1. IInv => TypeOK
  BY DEF IInv
<1> QED
  BY <1>1, Inductive, PTL

\* The offsets of a source's events never go down, however reads cut the file.
THEOREM OffsetsOrdered == Spec => []OffsetsAscend
<1>1. IInv => OffsetsAscend
  BY DEF IInv
<1> QED
  BY <1>1, Inductive, PTL

\* Two lines are never published as one event.
THEOREM LinesApart == Spec => []SingleLines
<1>1. IInv => SingleLines
  BY DEF IInv
<1> QED
  BY <1>1, Inductive, PTL

\* However reads cut a file, whatever its size and the buffer's: the events
\* published for a source are the lines of its file from the beginning, whole,
\* once each and in order (handleEvents, FileWatcher.go:422).
THEOREM LinesWhole == Spec => []WholeLines
<1>1. Spec => []Contents
  BY Inductive, InitContents, StepContents, PTL DEF Spec
<1>2. Contents => WholeLines
  BY DEF Contents
<1> QED
  BY <1>1, <1>2, PTL

=============================================================================
