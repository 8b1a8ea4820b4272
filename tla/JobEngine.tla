----------------------------- MODULE JobEngine -----------------------------
(***************************************************************************)
(* Search jobs: Engine.StartJob, the goroutine it leaves behind, and       *)
(* Engine.Abort, over the rows the job repository keeps.                   *)
(*                                                                         *)
(* A job is known in two places.  Its row in the repository survives the   *)
(* process; the cancels map, through which Abort reaches the goroutine,    *)
(* does not, and is read and written by request handlers and job           *)
(* goroutines without a lock, one entry at a time.                         *)
(***************************************************************************)
EXTENDS Naturals

CONSTANTS MaxJobs,      \* bound: jobs started
          Batches,      \* bound: results the pipeline of a job yields
          Handlers,     \* request handlers that may be in Abort
          RepoMayFail,  \* can the repositories fail?
          MaxCrashes    \* bound: restarts of the process

ASSUME JobEngineAssumption ==
  /\ MaxJobs \in Nat
  /\ Batches \in Nat
  /\ RepoMayFail \in BOOLEAN
  /\ MaxCrashes \in Nat

Jobs == 1 .. MaxJobs

VARIABLES
  state,     \* the row of each job: its State, "none" before Insert
  results,   \* ... the batches AddResults stored for it
  stats,     \* ... the batches AddFieldStats counted for it
  cancels,   \* e.cancels: "absent", "func" or "nil"
  pc,        \* where each job's goroutine (first, its StartJob) is
  cancelled, \* has the job's context been cancelled?
  pipe,      \* its results channel: batches sent, batches taken, closed?
  outcome,   \* the state the goroutine is going to write
  handler,   \* per handler, its place in Abort and the job
  known,     \* the jobs whose id a client was told
  acked,     \* history: Abort returned nil for these, in this process
  failed,    \* history: what has failed: reading, storing results, a job's state
  crashes

vars == << state, results, stats, cancels, pc, cancelled, pipe, outcome,
           handler, known, acked, failed, crashes >>

repo == << state, results, stats >>
aborts == << handler, acked >>

history == << failed, crashes >>

Final == {"finished", "aborted"}

EmptyPipe == [sent |-> 0, taken |-> 0, closed |-> FALSE]

NoCall == [at |-> "idle", job |-> 0]

Init ==
  /\ state = [j \in Jobs |-> "none"]
  /\ results = [j \in Jobs |-> 0]
  /\ stats = [j \in Jobs |-> 0]
  /\ cancels = [j \in Jobs |-> "absent"]
  /\ pc = [j \in Jobs |-> "none"]
  /\ cancelled = [j \in Jobs |-> FALSE]
  /\ pipe = [j \in Jobs |-> EmptyPipe]
  /\ outcome = [j \in Jobs |-> "none"]
  /\ handler = [h \in Handlers |-> NoCall]
  /\ known = {}
  /\ acked = {}
  /\ failed = {}
  /\ crashes = 0

-----------------------------------------------------------------------------
(* StartJob                                                                *)

\* jobRepo.Insert: ids are given out in order.
Insert(j) ==
  /\ state[j] = "none"
  /\ \A i \in Jobs : i < j => state[i] # "none"
  /\ state' = [state EXCEPT ![j] = "running"]
  /\ pc' = [pc EXCEPT ![j] = "inserted"]
  /\ UNCHANGED << results, stats, cancels, cancelled, pipe, outcome, aborts,
                  known, history >>

\* Fault: the cancel function is not registered.
LaunchUnregistered(j) ==
  /\ pc[j] = "inserted"
  /\ pc' = [pc EXCEPT ![j] = "loop"]
  /\ known' = known \cup {j}
  /\ UNCHANGED << repo, cancels, cancelled, pipe, outcome, aborts, history >>

\* The cancel function is registered, the goroutine started, the id returned.
Launch(j) ==
  /\ pc[j] = "inserted"
  /\ cancels' = [cancels EXCEPT ![j] = "func"]
  /\ pc' = [pc EXCEPT ![j] = "loop"]
  /\ known' = known \cup {j}
  /\ UNCHANGED << repo, cancelled, pipe, outcome, aborts, history >>

-----------------------------------------------------------------------------
(* The pipeline, as the engine sees it: a channel.                         *)

Running(j) == pc[j] \in {"loop", "stats"}

Yield(j) ==
  /\ Running(j)
  /\ ~pipe[j].closed
  /\ pipe[j].sent < Batches
  /\ pipe' = [pipe EXCEPT ![j].sent = @ + 1]
  /\ UNCHANGED << repo, cancels, pc, cancelled, outcome, aborts, known, history >>

\* The last step closes the channel at its end, early once cancelled, or early
\* because the configuration or the events could not be read, which is logged.
Close(j) ==
  /\ Running(j)
  /\ ~pipe[j].closed
  /\ pipe' = [pipe EXCEPT ![j].closed = TRUE]
  /\ \/ (pipe[j].sent = Batches \/ cancelled[j]) /\ UNCHANGED failed
     \/ pipe[j].sent < Batches /\ RepoMayFail /\ failed' = failed \cup {"read"}
  /\ UNCHANGED << repo, cancels, pc, cancelled, outcome, aborts, known, crashes >>

-----------------------------------------------------------------------------
(* The goroutine's loop                                                    *)

\* A result arrives and AddResults stores it.  When that fails the result is
\* given up, its field stats with it.
TakeResult(j) ==
  /\ pc[j] = "loop"
  /\ pipe[j].taken < pipe[j].sent
  /\ pipe' = [pipe EXCEPT ![j].taken = @ + 1]
  /\ \/ /\ results' = [results EXCEPT ![j] = @ + 1]
        /\ pc' = [pc EXCEPT ![j] = "stats"]
        /\ UNCHANGED failed
     \/ /\ RepoMayFail
        /\ failed' = failed \cup {"results"}
        /\ UNCHANGED << results, pc >>
  /\ UNCHANGED << state, stats, cancels, cancelled, outcome, aborts, known,
                  crashes >>

\* AddFieldStats; an error is logged.
AddStats(j) ==
  /\ pc[j] = "stats"
  /\ \/ stats' = [stats EXCEPT ![j] = @ + 1] /\ UNCHANGED failed
     \/ RepoMayFail /\ failed' = failed \cup {"results"} /\ UNCHANGED stats
  /\ pc' = [pc EXCEPT ![j] = "loop"]
  /\ UNCHANGED << state, results, cancels, cancelled, pipe, outcome, aborts,
                  known, crashes >>

Leave(j, verdict) ==
  /\ pc[j] = "loop"
  /\ outcome' = [outcome EXCEPT ![j] = verdict]
  /\ pc' = [pc EXCEPT ![j] = "left"]
  /\ UNCHANGED << repo, cancels, cancelled, pipe, aborts, known, history >>

\* The select sees the channel closed, or the context done; with both ready
\* it takes either.
SeeClosed(j) ==
  /\ pipe[j].closed
  /\ pipe[j].taken = pipe[j].sent
  /\ Leave(j, "finished")

SeeDone(j) ==
  /\ cancelled[j]
  /\ Leave(j, "aborted")

\* e.cancels[id] = nil.
ClearCancel(j) ==
  /\ pc[j] = "left"
  /\ cancels' = [cancels EXCEPT ![j] = "nil"]
  /\ pc' = [pc EXCEPT ![j] = "update"]
  /\ UNCHANGED << repo, cancelled, pipe, outcome, aborts, known, history >>

\* UpdateState, and the goroutine is gone; an error is logged.
WriteOutcome(j) ==
  /\ pc[j] = "update"
  /\ \/ state' = [state EXCEPT ![j] = outcome[j]] /\ UNCHANGED failed
     \/ RepoMayFail /\ failed' = failed \cup {"state"} /\ UNCHANGED state
  /\ pc' = [pc EXCEPT ![j] = "gone"]
  /\ UNCHANGED << results, stats, cancels, cancelled, pipe, outcome, aborts,
                  known, crashes >>

-----------------------------------------------------------------------------
(* Abort                                                                   *)

\* Fault: the row is set to aborted before the goroutine stops.
CancelAndMark(h, j) ==
  /\ handler[h] = NoCall
  /\ cancels[j] = "func"
  /\ cancelled' = [cancelled EXCEPT ![j] = TRUE]
  /\ state' = [state EXCEPT ![j] = "aborted"]
  /\ acked' = acked \cup {j}
  /\ UNCHANGED << results, stats, cancels, pc, pipe, outcome, handler, known,
                  history >>

\* There is a cancel function: it is called, and Abort returns nil.
Cancel(h, j) ==
  /\ handler[h] = NoCall
  /\ cancels[j] = "func"
  /\ cancelled' = [cancelled EXCEPT ![j] = TRUE]
  /\ acked' = acked \cup {j}
  /\ UNCHANGED << repo, cancels, pc, pipe, outcome, handler, known, history >>

\* There is none: the row decides.
NoCancel(h, j) ==
  /\ handler[h] = NoCall
  /\ cancels[j] # "func"
  /\ handler' = [handler EXCEPT ![h] = [at |-> "get", job |-> j]]
  /\ UNCHANGED << repo, cancels, pc, cancelled, pipe, outcome, known, acked,
                  history >>

\* Fault: a running row is left as it is.
GetRowOnly(h) ==
  /\ handler[h].at = "get"
  /\ handler' = [handler EXCEPT ![h] = NoCall]
  /\ acked' = acked \cup {handler[h].job}
  /\ UNCHANGED << repo, cancels, pc, cancelled, pipe, outcome, known, history >>

\* jobRepo.Get: a running job is to be set to aborted, any other needs nothing.
GetRow(h) ==
  /\ handler[h].at = "get"
  /\ IF state[handler[h].job] = "running"
       THEN /\ handler' = [handler EXCEPT ![h].at = "update"]
            /\ UNCHANGED acked
       ELSE /\ handler' = [handler EXCEPT ![h] = NoCall]
            /\ acked' = acked \cup {handler[h].job}
  /\ UNCHANGED << repo, cancels, pc, cancelled, pipe, outcome, known, history >>

SetAborted(h) ==
  /\ handler[h].at = "update"
  /\ state' = [state EXCEPT ![handler[h].job] = "aborted"]
  /\ acked' = acked \cup {handler[h].job}
  /\ handler' = [handler EXCEPT ![h] = NoCall]
  /\ UNCHANGED << results, stats, cancels, pc, cancelled, pipe, outcome, known,
                  history >>

\* Get or UpdateState fails: Abort returns the error.
AbortFails(h) ==
  /\ RepoMayFail
  /\ handler[h] # NoCall
  /\ handler' = [handler EXCEPT ![h] = NoCall]
  /\ UNCHANGED << repo, cancels, pc, cancelled, pipe, outcome, known, acked,
                  history >>

-----------------------------------------------------------------------------

\* The process stops and starts again: the rows are all that is left.
Crash ==
  /\ crashes < MaxCrashes
  /\ crashes' = crashes + 1
  /\ cancels' = [j \in Jobs |-> "absent"]
  /\ pc' = [j \in Jobs |-> IF pc[j] = "none" THEN "none" ELSE "gone"]
  /\ cancelled' = [j \in Jobs |-> FALSE]
  /\ pipe' = [j \in Jobs |-> EmptyPipe]
  /\ outcome' = [j \in Jobs |-> "none"]
  /\ handler' = [h \in Handlers |-> NoCall]
  /\ acked' = {}
  /\ UNCHANGED << repo, known, failed >>

JobStep(j) ==
  \/ TakeResult(j) \/ AddStats(j) \/ SeeClosed(j) \/ SeeDone(j)
  \/ ClearCancel(j) \/ WriteOutcome(j)

Next ==
  \/ \E j \in Jobs : Insert(j) \/ Launch(j) \/ Yield(j) \/ Close(j) \/ JobStep(j)
  \/ \E h \in Handlers :
       \/ \E j \in known : Cancel(h, j) \/ NoCancel(h, j)
       \/ GetRow(h) \/ SetAborted(h) \/ AbortFails(h)
  \/ Crash

Spec == Init /\ [][Next]_vars

\* Goroutines run; a pipeline yields its results and closes its channel; the
\* random choice of select does not pass over a cancelled context for ever.
Fairness ==
  /\ \A j \in Jobs : /\ WF_vars(Launch(j))
                     /\ WF_vars(Yield(j)) /\ WF_vars(Close(j))
                     /\ WF_vars(JobStep(j)) /\ SF_vars(SeeDone(j))
  /\ \A h \in Handlers : WF_vars(GetRow(h)) /\ WF_vars(SetAborted(h))

FairSpec == Spec /\ Fairness

-----------------------------------------------------------------------------
(* Properties                                                              *)

TypeOK ==
  /\ state \in [Jobs -> {"none", "running"} \cup Final]
  /\ results \in [Jobs -> 0 .. Batches]
  /\ stats \in [Jobs -> 0 .. Batches]
  /\ cancels \in [Jobs -> {"absent", "func", "nil"}]
  /\ pc \in [Jobs -> {"none", "inserted", "loop", "stats", "left", "update", "gone"}]
  /\ cancelled \in [Jobs -> BOOLEAN]
  /\ pipe \in [Jobs -> [sent : 0 .. Batches, taken : 0 .. Batches, closed : BOOLEAN]]
  /\ outcome \in [Jobs -> {"none"} \cup Final]
  /\ handler \in [Handlers -> [at : {"idle", "get", "update"}, job : Jobs \cup {0}]]
  /\ known \subseteq Jobs
  /\ acked \subseteq Jobs
  /\ failed \subseteq {"read", "results", "state"}
  /\ crashes \in 0 .. MaxCrashes

\* Once a client can read that a job is finished or aborted, its results and
\* statistics never change again: the client stops polling then.  Abort may
\* write the row itself, but only when the goroutine is past its loop or died
\* with an earlier process.
FrozenWhenFinal ==
  [][ \A j \in Jobs :
        state[j] \in Final => results'[j] = results[j] /\ stats'[j] = stats[j] ]_vars

\* The warning in Abort, "the job may actually still be running", is never
\* justified: whoever is about to set a job to aborted, it has stopped.
NotStillRunning ==
  \A h \in Handlers :
    handler[h].at = "update" => ~Running(handler[h].job)

\* A job that finished without being cancelled has every result of its
\* pipeline, and the statistics of every result, unless a repository failed.
FinishedIsComplete ==
  \A j \in Jobs :
    state[j] = "finished" /\ ~cancelled[j] /\ failed = {} /\ crashes = 0
      => results[j] = Batches /\ stats[j] = Batches

\* An abort that was acknowledged takes effect, also on a job left running by
\* a process that died, unless that job's last write fails or this process dies too.
AbortTakesEffect ==
  \A j \in Jobs :
    (j \in acked) ~> (state[j] \in Final \/ "state" \in failed \/ j \notin acked)

=============================================================================
