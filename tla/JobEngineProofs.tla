-------------------------- MODULE JobEngineProofs --------------------------
(***************************************************************************)
(* Proofs about JobEngine, for any number of jobs, results, handlers and   *)
(* restarts.  The invariant relates, for each job, its row and its results *)
(* to where its goroutine is: a cancel function is registered while it     *)
(* takes results, a row is final only when it is past that, and a request  *)
(* to abort that goes by the row has found no cancel function.             *)
(***************************************************************************)
EXTENDS JobEngine, TLAPS

\* How the results stored for a job relate to those its pipeline yielded.
Counted(j) ==
  /\ pipe[j].taken <= pipe[j].sent
  /\ pc[j] \in {"none", "inserted"} =>
       results[j] = 0 /\ stats[j] = 0 /\ pipe[j] = EmptyPipe
  /\ Running(j) => stats[j] <= results[j] /\ results[j] <= pipe[j].taken
  /\ pc[j] = "stats" => stats[j] < results[j]

\* How its row, its outcome and its cancel function relate to its goroutine.
Placed(j) ==
  /\ state[j] = "none" => pc[j] = "none"
  /\ state[j] \in Final => pc[j] \in {"update", "gone"}
  /\ pc[j] \in {"left", "update"} => outcome[j] \in Final
  /\ pc[j] \in {"loop", "stats", "left"} => cancels[j] = "func"
  /\ j \in known => pc[j] \notin {"none", "inserted"}

\* As long as nothing has failed, nothing is missing.
Gapless(j) ==
  failed = {} /\ crashes = 0 =>
    /\ Running(j) => results[j] = pipe[j].taken
    /\ pc[j] = "loop" => stats[j] = results[j]
    /\ pc[j] = "stats" => stats[j] + 1 = results[j]
    /\ pipe[j].closed /\ ~cancelled[j] => pipe[j].sent = Batches
    /\ pc[j] \in {"left", "update", "gone"} /\ outcome[j] = "finished" /\ ~cancelled[j]
         => results[j] = Batches /\ stats[j] = Batches
    /\ state[j] = "finished" => outcome[j] = "finished"

\* A request that goes by the row is about a job past its loop.
HandlerPast(h) == handler[h].at # "idle" =>
                    handler[h].job \in Jobs /\ pc[handler[h].job] \in {"update", "gone"}

IInv ==
  /\ TypeOK
  /\ \A j \in Jobs : Counted(j) /\ Placed(j) /\ Gapless(j)
  /\ \A h \in Handlers : HandlerPast(h)

-----------------------------------------------------------------------------
(* The steps of a job                                                      *)

\* A row and no results yet.
LEMMA InsertKeeps ==
  ASSUME IInv, NEW j \in Jobs, Insert(j)
  PROVE  IInv'
<1> USE JobEngineAssumption DEF IInv, Insert, repo, aborts, history, Running, Final
<1>1. TypeOK'
  BY DEF TypeOK, Counted, Placed
<1>2. ASSUME NEW i \in Jobs PROVE Counted(i)'
  BY <1>2 DEF TypeOK, Counted, Placed, EmptyPipe
<1>3. ASSUME NEW i \in Jobs PROVE Placed(i)'
  BY <1>3 DEF TypeOK, Placed
<1>4. ASSUME NEW i \in Jobs PROVE Gapless(i)'
  BY <1>4 DEF TypeOK, Counted, Placed, Gapless, EmptyPipe
<1>5. ASSUME NEW h \in Handlers PROVE HandlerPast(h)'
  BY <1>5 DEF TypeOK, HandlerPast, Placed
<1> QED
  BY <1>1, <1>2, <1>3, <1>4, <1>5

\* The cancel function is there before the goroutine is.
LEMMA LaunchKeeps ==
  ASSUME IInv, NEW j \in Jobs, Launch(j)
  PROVE  IInv'
<1> USE JobEngineAssumption DEF IInv, Launch, repo, aborts, history, Running, Final
<1>1. TypeOK'
  BY DEF TypeOK, Counted, Placed
<1>2. ASSUME NEW i \in Jobs PROVE Counted(i)'
  BY <1>2 DEF TypeOK, Counted, Placed, EmptyPipe
<1>3. ASSUME NEW i \in Jobs PROVE Placed(i)'
  BY <1>3 DEF TypeOK, Placed
<1>4. ASSUME NEW i \in Jobs PROVE Gapless(i)'
  BY <1>4 DEF TypeOK, Counted, Placed, Gapless, EmptyPipe
<1>5. ASSUME NEW h \in Handlers PROVE HandlerPast(h)'
  BY <1>5 DEF TypeOK, HandlerPast, Placed
<1> QED
  BY <1>1, <1>2, <1>3, <1>4, <1>5

\* The pipeline sends a result.
LEMMA YieldKeeps ==
  ASSUME IInv, NEW j \in Jobs, Yield(j)
  PROVE  IInv'
<1> USE JobEngineAssumption DEF IInv, Yield, repo, aborts, history, Running, Final
<1>0. /\ pipe' \in [Jobs -> [sent : 0 .. Batches, taken : 0 .. Batches, closed : BOOLEAN]]
      /\ pipe'[j].sent = pipe[j].sent + 1 /\ pipe'[j].taken = pipe[j].taken
      /\ pipe'[j].closed = pipe[j].closed
      /\ \A i \in Jobs : i # j => pipe'[i] = pipe[i]
  <2>1. /\ pipe \in [Jobs -> [sent : 0 .. Batches, taken : 0 .. Batches, closed : BOOLEAN]] /\ Batches \in Nat
        /\ pipe[j] \in [sent : 0 .. Batches, taken : 0 .. Batches, closed : BOOLEAN]
    BY DEF TypeOK
  <2>2. pipe[j].sent \in 0 .. Batches /\ pipe[j].taken \in 0 .. Batches
    BY <2>1
  <2> QED
    BY <2>1, <2>2
<1>1. TypeOK'
  BY <1>0 DEF TypeOK, Counted, Placed
<1>2. ASSUME NEW i \in Jobs PROVE Counted(i)'
  <2>1. /\ results[j] \in Nat /\ stats[j] \in Nat /\ Batches \in Nat
        /\ pipe[j].sent \in 0 .. Batches /\ pipe[j].taken \in Nat
        /\ results[j] <= Batches /\ stats[j] <= Batches
    BY DEF TypeOK
  <2>2. CASE i # j
    BY <1>0, <1>2, <2>2 DEF TypeOK, Counted, EmptyPipe
  <2>3. CASE i = j
    BY <1>0, <2>1, <2>3 DEF TypeOK, Counted
  <2> QED
    BY <2>2, <2>3
<1>3. ASSUME NEW i \in Jobs PROVE Placed(i)'
  BY <1>3 DEF TypeOK, Placed
<1>4. ASSUME NEW i \in Jobs PROVE Gapless(i)'
  BY <1>0, <1>4 DEF TypeOK, Counted, Placed, Gapless, EmptyPipe
<1>5. ASSUME NEW h \in Handlers PROVE HandlerPast(h)'
  BY <1>5 DEF TypeOK, HandlerPast, Placed
<1> QED
  BY <1>1, <1>2, <1>3, <1>4, <1>5

\* The pipeline closes its channel: at its end, cancelled, or failed.
LEMMA CloseKeeps ==
  ASSUME IInv, NEW j \in Jobs, Close(j)
  PROVE  IInv'
<1> USE JobEngineAssumption DEF IInv, Close, repo, aborts, history, Running, Final
<1>0. /\ pipe' \in [Jobs -> [sent : 0 .. Batches, taken : 0 .. Batches, closed : BOOLEAN]]
      /\ pipe'[j].sent = pipe[j].sent /\ pipe'[j].taken = pipe[j].taken
      /\ pipe'[j].closed = TRUE
      /\ \A i \in Jobs : i # j => pipe'[i] = pipe[i]
  <2>1. /\ pipe \in [Jobs -> [sent : 0 .. Batches, taken : 0 .. Batches, closed : BOOLEAN]] /\ Batches \in Nat
        /\ pipe[j] \in [sent : 0 .. Batches, taken : 0 .. Batches, closed : BOOLEAN]
    BY DEF TypeOK
  <2>2. pipe[j].sent \in 0 .. Batches /\ pipe[j].taken \in 0 .. Batches
    BY <2>1
  <2> QED
    BY <2>1, <2>2
<1>1. TypeOK'
  BY <1>0 DEF TypeOK, Counted, Placed
<1>2. ASSUME NEW i \in Jobs PROVE Counted(i)'
  <2>1. /\ results[j] \in Nat /\ stats[j] \in Nat /\ Batches \in Nat
        /\ pipe[j].sent \in 0 .. Batches /\ pipe[j].taken \in Nat
        /\ results[j] <= Batches /\ stats[j] <= Batches
    BY DEF TypeOK
  <2>2. CASE i # j
    BY <1>0, <1>2, <2>2 DEF TypeOK, Counted, EmptyPipe
  <2>3. CASE i = j
    BY <1>0, <2>1, <2>3 DEF TypeOK, Counted
  <2> QED
    BY <2>2, <2>3
<1>3. ASSUME NEW i \in Jobs PROVE Placed(i)'
  BY <1>3 DEF TypeOK, Placed
<1>4. ASSUME NEW i \in Jobs PROVE Gapless(i)'
  BY <1>0, <1>4 DEF TypeOK, Counted, Placed, Gapless, EmptyPipe
<1>5. ASSUME NEW h \in Handlers PROVE HandlerPast(h)'
  BY <1>5 DEF TypeOK, HandlerPast, Placed
<1> QED
  BY <1>1, <1>2, <1>3, <1>4, <1>5

\* A result is stored, or given up after a failure.
LEMMA TakeResultKeeps ==
  ASSUME IInv, NEW j \in Jobs, TakeResult(j)
  PROVE  IInv'
<1> USE JobEngineAssumption DEF IInv, TakeResult, repo, aborts, history, Running, Final
<1>0. /\ pipe' \in [Jobs -> [sent : 0 .. Batches, taken : 0 .. Batches, closed : BOOLEAN]]
      /\ pipe'[j].sent = pipe[j].sent /\ pipe'[j].taken = pipe[j].taken + 1
      /\ pipe'[j].closed = pipe[j].closed
      /\ \A i \in Jobs : i # j => pipe'[i] = pipe[i]
  <2>1. /\ pipe \in [Jobs -> [sent : 0 .. Batches, taken : 0 .. Batches, closed : BOOLEAN]] /\ Batches \in Nat
        /\ pipe[j] \in [sent : 0 .. Batches, taken : 0 .. Batches, closed : BOOLEAN]
    BY DEF TypeOK
  <2>2. pipe[j].sent \in 0 .. Batches /\ pipe[j].taken \in 0 .. Batches
    BY <2>1
  <2> QED
    BY <2>1, <2>2
<1>1. TypeOK'
  <2>1. /\ results[j] \in Nat /\ stats[j] \in Nat /\ Batches \in Nat
        /\ pipe[j].sent \in 0 .. Batches /\ pipe[j].taken \in Nat
        /\ results[j] <= Batches /\ stats[j] <= Batches
    BY DEF TypeOK
  <2>2. results[j] + 1 \in 0 .. Batches
    BY <2>1 DEF Counted
  <2>3. results' \in [Jobs -> 0 .. Batches]
    BY <2>2 DEF TypeOK
  <2>4. /\ pc' \in [Jobs -> {"none", "inserted", "loop", "stats", "left", "update", "gone"}]
        /\ failed' \subseteq {"read", "results", "state"}
    BY ZenonT(30) DEF TypeOK
  <2>5. UNCHANGED << state, stats, cancels, cancelled, outcome, handler, known, acked, crashes >>
    OBVIOUS
  <2>6. TypeOK
    OBVIOUS
  <2> HIDE DEF TakeResult
  <2> QED
    BY <1>0, <2>3, <2>4, <2>5, <2>6 DEF TypeOK
<1>2. ASSUME NEW i \in Jobs PROVE Counted(i)'
  <2>1. /\ results[j] \in Nat /\ stats[j] \in Nat /\ Batches \in Nat
        /\ pipe[j].sent \in 0 .. Batches /\ pipe[j].taken \in Nat
        /\ results[j] <= Batches /\ stats[j] <= Batches
    BY DEF TypeOK
  <2>2. CASE i # j
    BY <1>0, <1>2, <2>2 DEF TypeOK, Counted, EmptyPipe
  <2>3. CASE i = j
    BY <1>0, <2>1, <2>3 DEF TypeOK, Counted
  <2> QED
    BY <2>2, <2>3
<1>3. ASSUME NEW i \in Jobs PROVE Placed(i)'
  BY <1>3 DEF TypeOK, Placed
<1>4. ASSUME NEW i \in Jobs PROVE Gapless(i)'
  BY <1>0, <1>4 DEF TypeOK, Counted, Placed, Gapless, EmptyPipe
<1>5. ASSUME NEW h \in Handlers PROVE HandlerPast(h)'
  BY <1>5 DEF TypeOK, HandlerPast, Placed
<1> QED
  BY <1>1, <1>2, <1>3, <1>4, <1>5

\* Its statistics are counted, or given up after a failure.
LEMMA AddStatsKeeps ==
  ASSUME IInv, NEW j \in Jobs, AddStats(j)
  PROVE  IInv'
<1> USE JobEngineAssumption DEF IInv, AddStats, repo, aborts, history, Running, Final
<1>1. TypeOK'
  <2>1. /\ results[j] \in Nat /\ stats[j] \in Nat /\ Batches \in Nat
        /\ pipe[j].sent \in 0 .. Batches /\ pipe[j].taken \in Nat
        /\ results[j] <= Batches /\ stats[j] <= Batches
    BY DEF TypeOK
  <2>2. stats[j] + 1 \in 0 .. Batches
    BY <2>1 DEF Counted
  <2>3. stats' \in [Jobs -> 0 .. Batches]
    BY <2>2 DEF TypeOK
  <2> QED
    BY <2>3 DEF TypeOK
<1>2. ASSUME NEW i \in Jobs PROVE Counted(i)'
  BY <1>2 DEF TypeOK, Counted, Placed, EmptyPipe
<1>3. ASSUME NEW i \in Jobs PROVE Placed(i)'
  BY <1>3 DEF TypeOK, Placed
<1>4. ASSUME NEW i \in Jobs PROVE Gapless(i)'
  BY <1>4 DEF TypeOK, Counted, Placed, Gapless, EmptyPipe
<1>5. ASSUME NEW h \in Handlers PROVE HandlerPast(h)'
  BY <1>5 DEF TypeOK, HandlerPast, Placed
<1> QED
  BY <1>1, <1>2, <1>3, <1>4, <1>5

\* The loop is left when all results are taken.
LEMMA SeeClosedKeeps ==
  ASSUME IInv, NEW j \in Jobs, SeeClosed(j)
  PROVE  IInv'
<1> USE JobEngineAssumption DEF IInv, SeeClosed, Leave, repo, aborts, history, Running, Final
<1>1. TypeOK'
  BY DEF TypeOK, Counted, Placed
<1>2. ASSUME NEW i \in Jobs PROVE Counted(i)'
  BY <1>2 DEF TypeOK, Counted, Placed, EmptyPipe
<1>3. ASSUME NEW i \in Jobs PROVE Placed(i)'
  BY <1>3 DEF TypeOK, Placed
<1>4. ASSUME NEW i \in Jobs PROVE Gapless(i)'
  BY <1>4 DEF TypeOK, Counted, Placed, Gapless, EmptyPipe
<1>5. ASSUME NEW h \in Handlers PROVE HandlerPast(h)'
  BY <1>5 DEF TypeOK, HandlerPast, Placed
<1> QED
  BY <1>1, <1>2, <1>3, <1>4, <1>5

\* The loop is left when the job is cancelled.
LEMMA SeeDoneKeeps ==
  ASSUME IInv, NEW j \in Jobs, SeeDone(j)
  PROVE  IInv'
<1> USE JobEngineAssumption DEF IInv, SeeDone, Leave, repo, aborts, history, Running, Final
<1>1. TypeOK'
  BY DEF TypeOK, Counted, Placed
<1>2. ASSUME NEW i \in Jobs PROVE Counted(i)'
  BY <1>2 DEF TypeOK, Counted, Placed, EmptyPipe
<1>3. ASSUME NEW i \in Jobs PROVE Placed(i)'
  BY <1>3 DEF TypeOK, Placed
<1>4. ASSUME NEW i \in Jobs PROVE Gapless(i)'
  BY <1>4 DEF TypeOK, Counted, Placed, Gapless, EmptyPipe
<1>5. ASSUME NEW h \in Handlers PROVE HandlerPast(h)'
  BY <1>5 DEF TypeOK, HandlerPast, Placed
<1> QED
  BY <1>1, <1>2, <1>3, <1>4, <1>5

\* The cancel function goes when the loop is left.
LEMMA ClearCancelKeeps ==
  ASSUME IInv, NEW j \in Jobs, ClearCancel(j)
  PROVE  IInv'
<1> USE JobEngineAssumption DEF IInv, ClearCancel, repo, aborts, history, Running, Final
<1>1. TypeOK'
  BY DEF TypeOK, Counted, Placed
<1>2. ASSUME NEW i \in Jobs PROVE Counted(i)'
  BY <1>2 DEF TypeOK, Counted, Placed, EmptyPipe
<1>3. ASSUME NEW i \in Jobs PROVE Placed(i)'
  BY <1>3 DEF TypeOK, Placed
<1>4. ASSUME NEW i \in Jobs PROVE Gapless(i)'
  BY <1>4 DEF TypeOK, Counted, Placed, Gapless, EmptyPipe
<1>5. ASSUME NEW h \in Handlers PROVE HandlerPast(h)'
  BY <1>5 DEF TypeOK, HandlerPast, Placed
<1> QED
  BY <1>1, <1>2, <1>3, <1>4, <1>5

\* The row becomes final, or stays running after a failure.
LEMMA WriteOutcomeKeeps ==
  ASSUME IInv, NEW j \in Jobs, WriteOutcome(j)
  PROVE  IInv'
<1> USE JobEngineAssumption DEF IInv, WriteOutcome, repo, aborts, history, Running, Final
<1>1. TypeOK'
  BY ZenonT(30) DEF TypeOK, Counted, Placed
<1>2. ASSUME NEW i \in Jobs PROVE Counted(i)'
  BY <1>2 DEF TypeOK, Counted, Placed, EmptyPipe
<1>3. ASSUME NEW i \in Jobs PROVE Placed(i)'
  BY <1>3 DEF TypeOK, Placed
<1>4. ASSUME NEW i \in Jobs PROVE Gapless(i)'
  BY <1>4 DEF TypeOK, Counted, Placed, Gapless, EmptyPipe
<1>5. ASSUME NEW h \in Handlers PROVE HandlerPast(h)'
  BY <1>5 DEF TypeOK, HandlerPast, Placed
<1> QED
  BY <1>1, <1>2, <1>3, <1>4, <1>5

-----------------------------------------------------------------------------
(* The steps of Abort, and a restart                                       *)

\* The cancel function is called.
LEMMA CancelKeeps ==
  ASSUME IInv, NEW h \in Handlers, NEW k \in known, Cancel(h, k)
  PROVE  IInv'
<1> USE JobEngineAssumption DEF IInv, Cancel, repo, aborts, history, Running, Final, NoCall
<1>1. TypeOK'
  BY DEF TypeOK, HandlerPast
<1>2. ASSUME NEW i \in Jobs PROVE Counted(i)'
  BY <1>2 DEF TypeOK, Counted, EmptyPipe
<1>3. ASSUME NEW i \in Jobs PROVE Placed(i)'
  BY <1>3 DEF TypeOK, Placed, HandlerPast
<1>4. ASSUME NEW i \in Jobs PROVE Gapless(i)'
  BY <1>4 DEF TypeOK, Gapless, HandlerPast, Placed
<1>5. ASSUME NEW g \in Handlers PROVE HandlerPast(g)'
  BY <1>5 DEF TypeOK, HandlerPast, Placed
<1> QED
  BY <1>1, <1>2, <1>3, <1>4, <1>5

\* There is none: the job is past its loop.
LEMMA NoCancelKeeps ==
  ASSUME IInv, NEW h \in Handlers, NEW k \in known, NoCancel(h, k)
  PROVE  IInv'
<1> USE JobEngineAssumption DEF IInv, NoCancel, repo, aborts, history, Running, Final, NoCall
<1>1. TypeOK'
  BY DEF TypeOK, HandlerPast
<1>2. ASSUME NEW i \in Jobs PROVE Counted(i)'
  BY <1>2 DEF TypeOK, Counted, EmptyPipe
<1>3. ASSUME NEW i \in Jobs PROVE Placed(i)'
  BY <1>3 DEF TypeOK, Placed, HandlerPast
<1>4. ASSUME NEW i \in Jobs PROVE Gapless(i)'
  BY <1>4 DEF TypeOK, Gapless, HandlerPast, Placed
<1>5. ASSUME NEW g \in Handlers PROVE HandlerPast(g)'
  BY <1>5 DEF TypeOK, HandlerPast, Placed
<1> QED
  BY <1>1, <1>2, <1>3, <1>4, <1>5

\* The row is read.
LEMMA GetRowKeeps ==
  ASSUME IInv, NEW h \in Handlers, GetRow(h)
  PROVE  IInv'
<1> USE JobEngineAssumption DEF IInv, GetRow, repo, aborts, history, Running, Final, NoCall
<1>1. TypeOK'
  BY SMTT(30) DEF TypeOK, HandlerPast
<1>2. ASSUME NEW i \in Jobs PROVE Counted(i)'
  BY <1>2 DEF TypeOK, Counted, EmptyPipe
<1>3. ASSUME NEW i \in Jobs PROVE Placed(i)'
  BY <1>3 DEF TypeOK, Placed, HandlerPast
<1>4. ASSUME NEW i \in Jobs PROVE Gapless(i)'
  BY <1>4 DEF TypeOK, Gapless, HandlerPast, Placed
<1>5. ASSUME NEW g \in Handlers PROVE HandlerPast(g)'
  BY <1>5, SMTT(30) DEF TypeOK, HandlerPast, Placed
<1> QED
  BY <1>1, <1>2, <1>3, <1>4, <1>5

\* The row is written.
LEMMA SetAbortedKeeps ==
  ASSUME IInv, NEW h \in Handlers, SetAborted(h)
  PROVE  IInv'
<1> USE JobEngineAssumption DEF IInv, SetAborted, repo, aborts, history, Running, Final, NoCall
<1>1. TypeOK'
  BY DEF TypeOK, HandlerPast
<1>2. ASSUME NEW i \in Jobs PROVE Counted(i)'
  BY <1>2 DEF TypeOK, Counted, EmptyPipe
<1>3. ASSUME NEW i \in Jobs PROVE Placed(i)'
  BY <1>3 DEF TypeOK, Placed, HandlerPast
<1>4. ASSUME NEW i \in Jobs PROVE Gapless(i)'
  BY <1>4 DEF TypeOK, Gapless, HandlerPast, Placed
<1>5. ASSUME NEW g \in Handlers PROVE HandlerPast(g)'
  BY <1>5 DEF TypeOK, HandlerPast, Placed
<1> QED
  BY <1>1, <1>2, <1>3, <1>4, <1>5

\* The repository fails.
LEMMA AbortFailsKeeps ==
  ASSUME IInv, NEW h \in Handlers, AbortFails(h)
  PROVE  IInv'
<1> USE JobEngineAssumption DEF IInv, AbortFails, repo, aborts, history, Running, Final, NoCall
<1>1. TypeOK'
  BY DEF TypeOK, HandlerPast
<1>2. ASSUME NEW i \in Jobs PROVE Counted(i)'
  BY <1>2 DEF TypeOK, Counted, EmptyPipe
<1>3. ASSUME NEW i \in Jobs PROVE Placed(i)'
  BY <1>3 DEF TypeOK, Placed, HandlerPast
<1>4. ASSUME NEW i \in Jobs PROVE Gapless(i)'
  BY <1>4 DEF TypeOK, Gapless, HandlerPast, Placed
<1>5. ASSUME NEW g \in Handlers PROVE HandlerPast(g)'
  BY <1>5 DEF TypeOK, HandlerPast, Placed
<1> QED
  BY <1>1, <1>2, <1>3, <1>4, <1>5

\* A restart leaves the rows, and no goroutine.
LEMMA CrashKeeps ==
  ASSUME IInv, Crash
  PROVE  IInv'
<1> USE JobEngineAssumption DEF IInv, Crash, repo, history, Running, Final, NoCall
<1>1. TypeOK'
  BY DEF TypeOK, EmptyPipe
<1>2. ASSUME NEW i \in Jobs PROVE Counted(i)' /\ Placed(i)'
  <2>1. /\ pipe'[i] = EmptyPipe /\ pc'[i] = (IF pc[i] = "none" THEN "none" ELSE "gone")
        /\ state'[i] = state[i] /\ results'[i] = results[i] /\ stats'[i] = stats[i]
        /\ known' = known
    BY <1>2
  <2>2. Counted(i)'
    BY <1>2, <2>1 DEF Counted, EmptyPipe
  <2>3. Placed(i)'
    BY <1>2, <2>1 DEF Placed
  <2> QED
    BY <2>2, <2>3
<1>3. crashes' # 0
  BY DEF TypeOK
<1>4. ASSUME NEW i \in Jobs PROVE Gapless(i)'
  BY <1>3, <1>4 DEF Gapless
<1>5. ASSUME NEW g \in Handlers PROVE HandlerPast(g)'
  BY <1>5 DEF HandlerPast
<1> QED
  BY <1>1, <1>2, <1>4, <1>5

-----------------------------------------------------------------------------
(* The invariant                                                           *)

LEMMA InitHolds == Init => IInv
<1> SUFFICES ASSUME Init PROVE IInv
  OBVIOUS
<1> USE JobEngineAssumption DEF Init
<1>1. TypeOK
  BY DEF TypeOK, EmptyPipe, NoCall, Final
<1>2. ASSUME NEW i \in Jobs PROVE Counted(i) /\ Placed(i) /\ Gapless(i)
  BY <1>2 DEF Counted, Placed, Gapless, EmptyPipe, Running, Final
<1>3. ASSUME NEW h \in Handlers PROVE HandlerPast(h)
  BY <1>3 DEF HandlerPast, NoCall
<1> QED
  BY <1>1, <1>2, <1>3 DEF IInv

LEMMA StepHolds == IInv /\ [Next]_vars => IInv'
<1> SUFFICES ASSUME IInv, [Next]_vars PROVE IInv'
  OBVIOUS
<1>1. ASSUME NEW j \in Jobs, Insert(j) \/ Launch(j) \/ Yield(j) \/ Close(j) PROVE IInv'
  BY <1>1, InsertKeeps, LaunchKeeps, YieldKeeps, CloseKeeps
<1>2. ASSUME NEW j \in Jobs, JobStep(j) PROVE IInv'
  BY <1>2, TakeResultKeeps, AddStatsKeeps, SeeClosedKeeps, SeeDoneKeeps,
     ClearCancelKeeps, WriteOutcomeKeeps DEF JobStep
<1>3. ASSUME NEW h \in Handlers, NEW k \in known, Cancel(h, k) \/ NoCancel(h, k) PROVE IInv'
  BY <1>3, CancelKeeps, NoCancelKeeps
<1>4. ASSUME NEW h \in Handlers, GetRow(h) \/ SetAborted(h) \/ AbortFails(h) PROVE IInv'
  BY <1>4, GetRowKeeps, SetAbortedKeeps, AbortFailsKeeps
<1>5. CASE Crash
  BY <1>5, CrashKeeps
<1>6. CASE UNCHANGED vars
  BY <1>6 DEF vars, IInv, TypeOK, Counted, Placed, Gapless, HandlerPast, Running
<1> QED
  BY <1>1, <1>2, <1>3, <1>4, <1>5, <1>6 DEF Next

LEMMA Inductive == Spec => []IInv
BY InitHolds, StepHolds, PTL DEF Spec

\* Variables keep their types: no job ever stores more than its pipeline yields.
THEOREM TypeCorrect == Spec => []TypeOK
<1>1. IInv => TypeOK
  BY DEF IInv
<1> QED
  BY <1>1, Inductive, PTL

\* A job that Abort is about to mark as aborted takes no more results.
THEOREM StoppedBeforeMarked == Spec => []NotStillRunning
<1>1. ASSUME IInv PROVE NotStillRunning
  BY <1>1 DEF IInv, HandlerPast, NotStillRunning, Running
<1> QED
  BY <1>1, Inductive, PTL

\* A job that finished uncancelled, with nothing failing, is complete.
THEOREM Complete == Spec => []FinishedIsComplete
<1>1. ASSUME IInv PROVE FinishedIsComplete
  BY <1>1 DEF IInv, Gapless, Placed, FinishedIsComplete, Final
<1> QED
  BY <1>1, Inductive, PTL

\* Results and statistics never change again once the row is final.
THEOREM Frozen == Spec => FrozenWhenFinal
<1> DEFINE Step == \A j \in Jobs :
             state[j] \in Final => results'[j] = results[j] /\ stats'[j] = stats[j]
<1>1. ASSUME IInv, [Next]_vars PROVE [Step]_vars
  <2> SUFFICES ASSUME NEW j \in Jobs, state[j] \in Final, Next
               PROVE  results'[j] = results[j] /\ stats'[j] = stats[j]
    BY <1>1
  <2>1. pc[j] \in {"update", "gone"}
    BY <1>1 DEF IInv, Placed
  <2>2. ASSUME NEW i \in Jobs, Insert(i) \/ Launch(i) \/ Yield(i) \/ Close(i)
        PROVE  results' = results /\ stats' = stats
    BY <2>2 DEF Insert, Launch, Yield, Close, repo
  <2>3. ASSUME NEW i \in Jobs, JobStep(i)
        PROVE  results'[j] = results[j] /\ stats'[j] = stats[j]
    BY <1>1, <2>1, <2>3
       DEF IInv, TypeOK, JobStep, TakeResult, AddStats, SeeClosed, SeeDone, Leave,
           ClearCancel, WriteOutcome, repo
  <2>4. ASSUME NEW h \in Handlers,
               \/ \E k \in known : Cancel(h, k) \/ NoCancel(h, k)
               \/ GetRow(h) \/ SetAborted(h) \/ AbortFails(h)
        PROVE  results' = results /\ stats' = stats
    BY <2>4 DEF Cancel, NoCancel, GetRow, SetAborted, AbortFails, repo
  <2>5. CASE Crash
    BY <2>5 DEF Crash, repo
  <2> QED
    BY <2>2, <2>3, <2>4, <2>5 DEF Next
<1>2. FrozenWhenFinal <=> [][Step]_vars
  BY PTL DEF FrozenWhenFinal
<1> QED
  BY <1>1, <1>2, Inductive, PTL DEF Spec

=============================================================================
