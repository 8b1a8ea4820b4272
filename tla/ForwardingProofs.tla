-------------------------- MODULE ForwardingProofs --------------------------
(***************************************************************************)
(* Proofs about Forwarding, for every number of events, chunk size and     *)
(* limit.  The invariant adds to the properties what an answer is about:   *)
(* the chunk waited on is the head of the buffer, and an answer of "ok"    *)
(* means that the recipient has all of it, or failed to commit it.         *)
(***************************************************************************)
EXTENDS Forwarding, SequenceTheorems, TLAPS

\* What the recipient has acknowledged: in its table of events, or in a batch
\* whose COMMIT failed unnoticed.
Taken == known \cup uncommitted

\* A chunk that was answered with "ok" has been taken.
AnswerIsTrue == response = "ok" => ToSet(chunk) \subseteq Taken

IInv ==
  /\ TypeOK
  /\ Len(accumulated) <= published
  /\ BufferIsNewest
  /\ ChunkIsHead
  /\ AnswerIsTrue
  /\ NothingLost

-----------------------------------------------------------------------------
(* The ends of a sequence                                                  *)

\* What SubSeq takes from the front, and what it leaves at the back.
LEMMA Cut ==
  ASSUME NEW S, NEW s \in Seq(S), NEW k \in 0 .. Len(s)
  PROVE  /\ SubSeq(s, 1, k) \in Seq(S) /\ Len(SubSeq(s, 1, k)) = k
         /\ \A i \in 1 .. k : SubSeq(s, 1, k)[i] = s[i]
         /\ SubSeq(s, k + 1, Len(s)) \in Seq(S)
         /\ Len(SubSeq(s, k + 1, Len(s))) = Len(s) - k
         /\ \A i \in 1 .. Len(s) - k : SubSeq(s, k + 1, Len(s))[i] = s[k + i]
<1>1. /\ 1 \in Int /\ k \in Int /\ k + 1 \in Int /\ Len(s) \in Nat
      /\ \A i \in 1 .. Len(s) : s[i] \in S
  OBVIOUS
<1>2. \A i \in 1 .. k : s[i] \in S
  BY <1>1
<1>3. \A i \in k + 1 .. Len(s) : s[i] \in S
  BY <1>1
<1>4. /\ SubSeq(s, 1, k) \in Seq(S)
      /\ Len(SubSeq(s, 1, k)) = IF 1 <= k THEN k - 1 + 1 ELSE 0
      /\ \A i \in 1 .. k - 1 + 1 : SubSeq(s, 1, k)[i] = s[1 + i - 1]
  BY <1>1, <1>2, SubSeqProperties
<1>5. /\ SubSeq(s, k + 1, Len(s)) \in Seq(S)
      /\ Len(SubSeq(s, k + 1, Len(s))) =
           IF k + 1 <= Len(s) THEN Len(s) - (k + 1) + 1 ELSE 0
      /\ \A i \in 1 .. Len(s) - (k + 1) + 1 :
           SubSeq(s, k + 1, Len(s))[i] = s[k + 1 + i - 1]
  BY <1>1, <1>3, SubSeqProperties
<1>6. /\ Len(SubSeq(s, 1, k)) = k
      /\ \A i \in 1 .. k : SubSeq(s, 1, k)[i] = s[i]
  BY <1>1, <1>4
<1>7. /\ Len(SubSeq(s, k + 1, Len(s))) = Len(s) - k
      /\ \A i \in 1 .. Len(s) - k : SubSeq(s, k + 1, Len(s))[i] = s[k + i]
  BY <1>1, <1>5
<1> QED
  BY <1>4, <1>5, <1>6, <1>7

\* No element is lost when a sequence is cut in two.
LEMMA CutKeepsAll ==
  ASSUME NEW S, NEW s \in Seq(S), NEW k \in 0 .. Len(s)
  PROVE  ToSet(s) \subseteq ToSet(SubSeq(s, 1, k)) \cup ToSet(SubSeq(s, k + 1, Len(s)))
<1> SUFFICES ASSUME NEW i \in 1 .. Len(s)
             PROVE  s[i] \in ToSet(SubSeq(s, 1, k)) \cup ToSet(SubSeq(s, k + 1, Len(s)))
  BY SMTT(30) DEF ToSet
<1>1. CASE i <= k
  <2>1. /\ i \in DOMAIN SubSeq(s, 1, k) /\ SubSeq(s, 1, k)[i] = s[i]
    BY <1>1, Cut
  <2> QED
    BY <2>1 DEF ToSet
<1>2. CASE i > k
  <2>1. /\ i - k \in 1 .. Len(s) - k /\ k + (i - k) = i
    BY <1>2
  <2>2. /\ i - k \in DOMAIN SubSeq(s, k + 1, Len(s))
        /\ SubSeq(s, k + 1, Len(s))[i - k] = s[i]
    BY <2>1, Cut
  <2> QED
    BY <2>2 DEF ToSet
<1> QED
  BY <1>1, <1>2

\* The elements of a sequence are of its type.
LEMMA ToSetType ==
  ASSUME NEW S, NEW s \in Seq(S)
  PROVE  ToSet(s) \subseteq S
BY DEF ToSet

-----------------------------------------------------------------------------
(* The actions that change the buffer                                      *)

\* The buffer without its oldest k events, all of which are accounted for.
LEMMA Shortened ==
  ASSUME IInv, NEW k \in 0 .. Len(accumulated),
         published' = published,
         accumulated' = SubSeq(accumulated, k + 1, Len(accumulated)),
         UNCHANGED repository, dropped \subseteq dropped',
         ToSet(SubSeq(accumulated, 1, k)) \subseteq Taken \cup dropped'
  PROVE  /\ accumulated' \in Seq(Events)
         /\ Len(accumulated)' <= published'
         /\ BufferIsNewest'
         /\ NothingLost'
<1>0. accumulated \in Seq(Events) /\ published \in Nat /\ Len(accumulated) \in Nat
  BY ForwardingAssumption DEF IInv, TypeOK
<1>1. /\ accumulated' \in Seq(Events) /\ Len(accumulated') = Len(accumulated) - k
      /\ \A i \in 1 .. Len(accumulated) - k : accumulated'[i] = accumulated[k + i]
  BY <1>0, Cut
<1>2. Len(accumulated') <= published'
  BY <1>0, <1>1 DEF IInv
<1>3. BufferIsNewest'
  <2> SUFFICES ASSUME NEW i \in 1 .. Len(accumulated')
               PROVE  accumulated'[i] = published - (Len(accumulated) - k) + i
    BY <1>1 DEF BufferIsNewest
  <2>1. k + i \in 1 .. Len(accumulated)
    BY <1>0, <1>1
  <2>2. accumulated[k + i] = published - Len(accumulated) + (k + i)
    BY <2>1 DEF IInv, BufferIsNewest
  <2> QED
    BY <1>0, <1>1, <2>2
<1>4. NothingLost'
  <2>1. ToSet(accumulated) \subseteq ToSet(accumulated') \cup Taken \cup dropped'
    BY <1>0, CutKeepsAll
  <2> QED
    BY <2>1 DEF IInv, TypeOK, NothingLost, Misfiled, Taken, repository
<1> QED
  BY <1>1, <1>2, <1>3, <1>4

\* forward ends and the oldest events over the limit are dropped.
LEMMA EndingKeeps ==
  ASSUME IInv, NEW failed \in BOOLEAN, ForwardEnds(failed),
         UNCHANGED << published, recipient >>, \A s \in strays' : s \in Seq(Events)
  PROVE  IInv'
<1>0. /\ accumulated \in Seq(Events) /\ Len(accumulated) \in Nat
      /\ NumOver \in 0 .. Len(accumulated)
  BY ForwardingAssumption DEF IInv, TypeOK, NumOver
<1>1. ToSet(SubSeq(accumulated, 1, NumOver)) \subseteq Events
  BY <1>0, Cut, ToSetType
<1>2. /\ accumulated' \in Seq(Events)
      /\ Len(accumulated)' <= published'
      /\ BufferIsNewest'
      /\ NothingLost'
  BY <1>0, Shortened DEF ForwardEnds, recipient, repository
<1>3. TypeOK'
  BY <1>1, <1>2 DEF IInv, TypeOK, ForwardEnds, recipient, repository
<1>4. ChunkIsHead' /\ AnswerIsTrue'
  BY DEF ForwardEnds, ChunkIsHead, AnswerIsTrue
<1> QED
  BY <1>2, <1>3, <1>4 DEF IInv

\* A batch is added to the repository, whatever becomes of its texts.
LEMMA AddBatchKeeps ==
  ASSUME IInv, NEW s \in Seq(Events), NEW keeps, AddBatch(s, keeps)
  PROVE  /\ known' = known \cup ToSet(s) /\ known' \subseteq Events
         /\ stored' \subseteq known' /\ drifted' \in BOOLEAN /\ (drifted' => TrueBatch)
         /\ uncommitted' \subseteq Events /\ uncommitted' \cap known' = {}
         /\ Misfiled' # {} => TrueBatch /\ drifted'
         /\ Taken \subseteq Taken' /\ ToSet(s) \subseteq Taken'
<1>1. /\ ToSet(s) \subseteq Events
      /\ known \subseteq Events /\ stored \subseteq known
      /\ uncommitted \subseteq Events /\ uncommitted \cap known = {}
      /\ drifted \in BOOLEAN /\ (drifted => TrueBatch) /\ TrueBatch \in BOOLEAN
      /\ Misfiled # {} => TrueBatch /\ drifted
  BY ToSetType, ForwardingAssumption DEF IInv, TypeOK, NothingLost
<1>2. /\ keeps \subseteq ToSet(s)
      /\ known' = known \cup ToSet(s) /\ stored' = stored \cup keeps
      /\ uncommitted' = uncommitted \ ToSet(s)
      /\ drifted' = (drifted \/ (TrueBatch /\ Last(s) \in known))
  BY DEF AddBatch
<1>3. drifted' \in BOOLEAN /\ (drifted' => TrueBatch)
  BY <1>1, <1>2
<1>4. Misfiled' # {} => TrueBatch /\ drifted'
  <2>1. CASE drifted
    BY <1>1, <1>2, <2>1
  <2>2. CASE ~drifted
    <3>1. keeps = ToSet(s) \ known /\ Misfiled = {}
      BY <1>1, <2>2 DEF AddBatch
    <3> QED
      BY <1>1, <1>2, <3>1 DEF Misfiled
  <2> QED
    BY <2>1, <2>2
<1> QED
  BY <1>1, <1>2, <1>3, <1>4 DEF Taken

\* A request is served: nothing but the repository and the answer changes.
LEMMA ServedKeeps ==
  ASSUME IInv, NEW s \in Seq(Events), NEW keeps, AddBatch(s, keeps),
         UNCHANGED << published, accumulated, pc, recentError, chunk,
                      configured, dropped >>,
         \/ response' = response
         \/ response' = "ok" /\ pc = "answer" /\ chunk = s,
         \A r \in strays' : r \in Seq(Events)
  PROVE  IInv'
<1>1. /\ known' = known \cup ToSet(s) /\ known' \subseteq Events
      /\ stored' \subseteq known' /\ drifted' \in BOOLEAN /\ (drifted' => TrueBatch)
      /\ uncommitted' \subseteq Events /\ uncommitted' \cap known' = {}
      /\ Misfiled' # {} => TrueBatch /\ drifted'
      /\ Taken \subseteq Taken' /\ ToSet(s) \subseteq Taken'
  BY AddBatchKeeps
<1>2. TypeOK'
  BY <1>1 DEF IInv, TypeOK
<1>3. AnswerIsTrue'
  BY <1>1 DEF IInv, AnswerIsTrue
<1>4. NothingLost'
  <2>1. 1 .. published \subseteq ToSet(accumulated) \cup dropped \cup Taken'
    BY <1>1 DEF IInv, TypeOK, NothingLost, Misfiled, Taken
  <2> QED
    BY <1>1, <2>1 DEF NothingLost, Misfiled, Taken
<1>5. Len(accumulated)' <= published' /\ BufferIsNewest' /\ ChunkIsHead'
  BY DEF IInv, BufferIsNewest, ChunkIsHead
<1> QED
  BY <1>2, <1>3, <1>4, <1>5 DEF IInv

\* The chunk waited on, in terms of its elements.
LEMMA HeadOfBuffer ==
  ASSUME IInv, pc = "answer"
  PROVE  /\ Len(chunk) \in 1 .. Len(accumulated)
         /\ chunk = SubSeq(accumulated, 1, Len(chunk))
<1>1. /\ chunk \in Seq(Events) /\ accumulated \in Seq(Events)
      /\ chunk # << >> /\ Len(chunk) <= Len(accumulated)
      /\ SubSeq(chunk, 1, Len(chunk)) = SubSeq(accumulated, 1, Len(chunk))
  BY DEF IInv, TypeOK, ChunkIsHead, IsPrefix
<1>2. SubSeq(chunk, 1, Len(chunk)) = chunk
  BY <1>1, SubSeqFull
<1>3. Len(chunk) \in Nat \ {0} /\ Len(accumulated) \in Nat
  BY <1>1, EmptySeq
<1> QED
  BY <1>1, <1>2, <1>3

\* A reader's event joins the buffer.
LEMMA PublishKeeps ==
  ASSUME IInv, Publish
  PROVE  IInv'
<1>0. /\ accumulated \in Seq(Events) /\ Len(accumulated) \in Nat
      /\ published \in Nat /\ published + 1 \in Events /\ published < MaxEvents
      /\ published' = published + 1 /\ accumulated' = Append(accumulated, published + 1)
  BY ForwardingAssumption DEF IInv, TypeOK, Publish, Events
<1>1. /\ accumulated' \in Seq(Events) /\ Len(accumulated') = Len(accumulated) + 1
      /\ \A i \in 1 .. Len(accumulated) : accumulated'[i] = accumulated[i]
      /\ accumulated'[Len(accumulated) + 1] = published + 1
  BY <1>0, AppendProperties
<1>2. TypeOK'
  BY <1>0, <1>1, ForwardingAssumption DEF IInv, TypeOK, Publish, recipient, repository
<1>3. Len(accumulated') <= published'
  BY <1>0, <1>1 DEF IInv
<1>4. BufferIsNewest'
  <2> SUFFICES ASSUME NEW i \in 1 .. Len(accumulated) + 1
               PROVE  accumulated'[i] = published + 1 - (Len(accumulated) + 1) + i
    BY <1>0, <1>1 DEF BufferIsNewest
  <2>1. CASE i = Len(accumulated) + 1
    BY <1>0, <1>1, <2>1
  <2>2. CASE i \in 1 .. Len(accumulated)
    <3>1. accumulated[i] = published - Len(accumulated) + i
      BY <2>2 DEF IInv, BufferIsNewest
    <3> QED
      BY <1>0, <1>1, <2>2, <3>1
  <2> QED
    BY <1>0, <2>1, <2>2
<1>5. ChunkIsHead' /\ AnswerIsTrue'
  BY DEF IInv, TypeOK, Publish, recipient, repository, ChunkIsHead, AnswerIsTrue
<1>6. NothingLost'
  <2>1. ToSet(accumulated) \subseteq ToSet(accumulated') /\ published + 1 \in ToSet(accumulated')
    BY <1>0, <1>1 DEF ToSet
  <2>2. 1 .. published' = (1 .. published) \cup {published + 1}
    BY <1>0
  <2> QED
    BY <2>1, <2>2 DEF IInv, NothingLost, Misfiled, Publish, recipient, repository
<1> QED
  BY <1>2, <1>3, <1>4, <1>5, <1>6 DEF IInv

\* The next chunk is taken from the head of the buffer.
LEMMA PostKeeps ==
  ASSUME IInv, Post
  PROVE  IInv'
<1> DEFINE k == IF Len(accumulated) < ChunkSize THEN Len(accumulated) ELSE ChunkSize
<1>0. /\ accumulated \in Seq(Events) /\ Len(accumulated) \in Nat \ {0}
      /\ k \in 1 .. Len(accumulated)
  BY ForwardingAssumption, EmptySeq DEF IInv, TypeOK, Post
<1>1. chunk' = SubSeq(accumulated, 1, k) /\ UNCHANGED << accumulated, response, repository >>
  BY DEF Post, recipient, repository
<1>2. /\ chunk' \in Seq(Events) /\ Len(chunk') = k
      /\ SubSeq(chunk', 1, Len(chunk')) = chunk'
  BY <1>0, <1>1, Cut, SubSeqFull
<1>3. TypeOK'
  BY <1>2 DEF IInv, TypeOK, Post, recipient, repository
<1>4. ChunkIsHead'
  BY <1>0, <1>1, <1>2, EmptySeq DEF ChunkIsHead, IsPrefix
<1>5. AnswerIsTrue'
  BY <1>1 DEF IInv, TypeOK, AnswerIsTrue, Post
<1>6. Len(accumulated)' <= published' /\ BufferIsNewest' /\ NothingLost'
  BY DEF IInv, Post, recipient, repository, BufferIsNewest, NothingLost, Misfiled
<1> QED
  BY <1>3, <1>4, <1>5, <1>6 DEF IInv

\* An accepted chunk leaves the buffer.
LEMMA AcceptedKeeps ==
  ASSUME IInv, Accepted
  PROVE  IInv'
<1>0. /\ accumulated \in Seq(Events)
      /\ Len(chunk) \in 0 .. Len(accumulated)
      /\ chunk = SubSeq(accumulated, 1, Len(chunk))
      /\ ToSet(chunk) \subseteq Taken
  BY HeadOfBuffer DEF IInv, TypeOK, AnswerIsTrue, Accepted
<1>1. /\ accumulated' \in Seq(Events)
      /\ Len(accumulated)' <= published'
      /\ BufferIsNewest'
      /\ NothingLost'
  BY <1>0, Shortened DEF Accepted, recipient, repository
<1>2. TypeOK'
  BY <1>1 DEF IInv, TypeOK, Accepted, recipient, repository
<1>3. ChunkIsHead' /\ AnswerIsTrue'
  BY DEF Accepted, ChunkIsHead, AnswerIsTrue
<1> QED
  BY <1>1, <1>2, <1>3 DEF IInv

-----------------------------------------------------------------------------
(* The invariant                                                           *)

LEMMA InitHolds == Init => IInv
<1> SUFFICES ASSUME Init PROVE IInv
  OBVIOUS
<1>1. /\ accumulated \in Seq(Events) /\ Len(accumulated) = 0
      /\ chunk \in Seq(Events)
  BY DEF Init
<1>2. TypeOK
  <2>1. published \in 0 .. MaxEvents
    BY ForwardingAssumption DEF Init
  <2>2. /\ configured \subseteq Events /\ dropped \subseteq Events
        /\ known \subseteq Events /\ stored \subseteq known
        /\ drifted \in BOOLEAN /\ (drifted => TrueBatch) /\ uncommitted \subseteq Events
    BY DEF Init
  <2> QED
    BY <1>1, <2>1, <2>2, Zenon DEF Init, TypeOK
<1>3. BufferIsNewest /\ ChunkIsHead /\ AnswerIsTrue /\ NothingLost
  BY <1>1 DEF Init, BufferIsNewest, ChunkIsHead, AnswerIsTrue, NothingLost, Misfiled
<1>4. Len(accumulated) <= published
  BY <1>1 DEF Init
<1> QED
  BY <1>2, <1>3, <1>4 DEF IInv

LEMMA StepHolds == IInv /\ [Next]_vars => IInv'
<1> SUFFICES ASSUME IInv, [Next]_vars PROVE IInv'
  OBVIOUS
<1> USE DEF recipient, repository, Taken, Misfiled
<1>1. CASE Publish
  BY <1>1, PublishKeeps
<1>2. CASE Timeout
  BY <1>2 DEF Timeout, IInv, TypeOK, BufferIsNewest, ChunkIsHead, AnswerIsTrue, NothingLost
<1>3. CASE SecondPasses
  BY <1>3 DEF SecondPasses, IInv, TypeOK, BufferIsNewest, ChunkIsHead, AnswerIsTrue, NothingLost
<1>4. CASE Post
  BY <1>4, PostKeeps
<1>5. CASE AllSent
  BY <1>5, EndingKeeps DEF AllSent, IInv, TypeOK
<1>6. CASE Accepted
  BY <1>6, AcceptedKeeps
<1>7. CASE Refused
  BY <1>7, EndingKeeps DEF Refused, IInv, TypeOK
<1>8. CASE ConnectionBreaks
  BY <1>8, EndingKeeps DEF ConnectionBreaks, IInv, TypeOK
<1>9. CASE Serve
  <2>1. PICK keeps \in SUBSET ToSet(chunk) : AddBatch(chunk, keeps)
    BY <1>9 DEF Serve
  <2>2. /\ chunk \in Seq(Events) /\ \A r \in strays' : r \in Seq(Events)
        /\ UNCHANGED << published, accumulated, pc, recentError, chunk,
                        configured, dropped >>
        /\ response' = "ok" /\ pc = "answer"
    BY <1>9 DEF Serve, IInv, TypeOK
  <2> QED
    BY <2>1, <2>2, ServedKeeps
<1>14. CASE ServeUncommitted
  <2>1. ToSet(chunk) \subseteq Events
    BY ToSetType DEF IInv, TypeOK
  <2> QED
    BY <1>14, <2>1
       DEF ServeUncommitted, IInv, TypeOK, BufferIsNewest, ChunkIsHead, AnswerIsTrue, NothingLost
<1>15. CASE CountersDrift
  BY <1>15 DEF CountersDrift, IInv, TypeOK, BufferIsNewest, ChunkIsHead, AnswerIsTrue, NothingLost
<1>10. CASE ServeFails
  BY <1>10 DEF ServeFails, IInv, TypeOK, BufferIsNewest, ChunkIsHead, AnswerIsTrue, NothingLost
<1>11. ASSUME NEW s \in strays, ServeStray(s) PROVE IInv'
  <2>1. /\ s \in Seq(Events) /\ \A r \in strays' : r \in Seq(Events)
        /\ UNCHANGED << published, accumulated, pc, recentError, chunk,
                        response, configured, dropped >>
    BY <1>11 DEF ServeStray, IInv, TypeOK
  <2>2. CASE \E keeps \in SUBSET ToSet(s) : AddBatch(s, keeps)
    BY <2>1, <2>2, ServedKeeps
  <2>3. CASE UNCHANGED << known, stored, drifted, uncommitted >>
    BY <2>1, <2>3
       DEF IInv, TypeOK, BufferIsNewest, ChunkIsHead, AnswerIsTrue, NothingLost
  <2> QED
    BY <1>11, <2>2, <2>3 DEF ServeStray
<1>12. ASSUME NEW C \in SUBSET Events, Reconfigure(C) PROVE IInv'
  BY <1>12 DEF Reconfigure, IInv, TypeOK, BufferIsNewest, ChunkIsHead, AnswerIsTrue, NothingLost
<1>13. CASE UNCHANGED vars
  BY <1>13 DEF vars, IInv, TypeOK, BufferIsNewest, ChunkIsHead, AnswerIsTrue, NothingLost
<1> QED
  BY <1>1, <1>2, <1>3, <1>4, <1>5, <1>6, <1>7, <1>8, <1>9, <1>10, <1>11, <1>12, <1>13,
     <1>14, <1>15 DEF Next

LEMMA Inductive == Spec => []IInv
BY InitHolds, StepHolds, PTL DEF Spec

\* Variables keep their types: whatever answers come back, the publisher waits
\* for one only while it has a request under way.
THEOREM TypeCorrect == Spec => []TypeOK
<1>1. IInv => TypeOK
  BY DEF IInv
<1> QED
  BY <1>1, Inductive, PTL

\* However requests fail, are lost or are served twice, an event is buffered,
\* stored, dropped for lack of room, or lost in one of the two ways in which
\* AddBatch acknowledges what it does not keep, the second only by the batch
\* variant once its counters have run apart.
THEOREM NeverLost == Spec => []NothingLost
<1>1. IInv => NothingLost
  BY DEF IInv
<1> QED
  BY <1>1, Inductive, PTL

\* The buffer holds the newest events, in order and without a gap.
THEOREM NewestBuffered == Spec => []BufferIsNewest
<1>1. IInv => BufferIsNewest
  BY DEF IInv
<1> QED
  BY <1>1, Inductive, PTL

\* An answer is about the head of the buffer, which it removes.
THEOREM HeadAnswered == Spec => []ChunkIsHead
<1>1. IInv => ChunkIsHead
  BY DEF IInv
<1> QED
  BY <1>1, Inductive, PTL

=============================================================================
