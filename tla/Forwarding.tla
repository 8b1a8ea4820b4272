----------------------------- MODULE Forwarding -----------------------------
(***************************************************************************)
(* Forwarder mode: ForwardingEventPublisher buffers the events its file    *)
(* readers publish and posts them, in chunks, to the recipient's           *)
(* /v1/receiveEvents, which adds each chunk to its repository.             *)
(*                                                                         *)
(* The publisher is one goroutine around a select: a ticking timeout or an *)
(* event from the unbuffered adder channel.  Forwarding happens inside the *)
(* select's cases, so while it posts nobody can publish.  The network and  *)
(* the recipient may fail a request at any point, before or after the      *)
(* chunk was stored, and a request given up on may still be served later.  *)
(***************************************************************************)
EXTENDS Naturals, Sequences, SequencesExt

CONSTANTS MaxEvents,          \* bound: events published, in the order 1, 2, ..
          ChunkSize,          \* forwardChunkSize
          MaxBufferedEvents,  \* cfg.Forwarder.MaxBufferedEvents
          ConfigChanges,      \* can the recipient's file list change?
          TrueBatch           \* Config.TrueBatch of the recipient's repository

ASSUME ForwardingAssumption ==
  /\ MaxEvents \in Nat
  /\ ChunkSize \in Nat \ {0}
  /\ MaxBufferedEvents \in Nat
  /\ ConfigChanges \in BOOLEAN
  /\ TrueBatch \in BOOLEAN

Events == 1 .. MaxEvents

VARIABLES
  published,    \* how many events the readers have published
  accumulated,  \* ep.accumulated, oldest first
  pc,           \* "select", "post" (in forward) or "answer" (in http.Post)
  recentError,  \* has an error occurred less than a second ago?
  chunk,        \* the request http.Post waits on
  response,     \* the recipient's answer to it, on its way
  strays,       \* requests given up on that the recipient may still serve
  configured,   \* the events whose file is in the recipient's configuration
  known,        \* the recipient's table Events: what it takes for a duplicate
  stored,       \* those of them whose text is kept too: what a search can find
  drifted,      \* have the counters of its two tables run apart?
  uncommitted,  \* a history variable: acknowledged, but the COMMIT had failed
  dropped       \* events dropExcessEvents gave up

vars == << published, accumulated, pc, recentError, chunk, response, strays,
           configured, known, stored, drifted, uncommitted, dropped >>

repository == << known, stored, drifted, uncommitted >>

recipient == << configured, repository >>

Init ==
  /\ published = 0
  /\ accumulated = << >>
  /\ pc = "select"
  /\ recentError = FALSE
  /\ chunk = << >>
  /\ response = "none"
  /\ strays = {}
  /\ configured = Events
  /\ known = {}
  /\ stored = {}
  /\ drifted = FALSE
  /\ uncommitted = {}
  /\ dropped = {}

-----------------------------------------------------------------------------
(* The publisher                                                           *)

\* The number of events over the limit, all at the old end of the buffer.
NumOver == IF Len(accumulated) > MaxBufferedEvents
             THEN Len(accumulated) - MaxBufferedEvents ELSE 0

\* Fault: the newest events are dropped.
ForwardEndsDroppingNewest(failed) ==
  LET kept == Len(accumulated) - NumOver
  IN  /\ pc' = "select"
      /\ recentError' = (failed \/ recentError)
      /\ accumulated' = SubSeq(accumulated, 1, kept)
      /\ dropped' = dropped \cup ToSet(SubSeq(accumulated, kept + 1, Len(accumulated)))
      /\ chunk' = << >>
      /\ response' = "none"

\* forward and dropExcessEvents are done: back to the select.
ForwardEnds(failed) ==
  /\ pc' = "select"
  /\ recentError' = (failed \/ recentError)
  /\ accumulated' = SubSeq(accumulated, NumOver + 1, Len(accumulated))
  /\ dropped' = dropped \cup ToSet(SubSeq(accumulated, 1, NumOver))
  /\ chunk' = << >>
  /\ response' = "none"

\* A reader's PublishEvent meets the select.  A full chunk is forwarded at
\* once, unless the last error is recent.
Publish ==
  /\ pc = "select"
  /\ published < MaxEvents
  /\ published' = published + 1
  /\ accumulated' = Append(accumulated, published + 1)
  /\ pc' = IF Len(accumulated) + 1 >= ChunkSize /\ ~recentError
             THEN "post" ELSE "select"
  /\ UNCHANGED << recentError, chunk, response, strays, recipient, dropped >>

\* Fault: the timeout too waits for a full chunk.
TimeoutFullChunk ==
  /\ pc = "select"
  /\ Len(accumulated) >= ChunkSize
  /\ pc' = "post"
  /\ UNCHANGED << published, accumulated, recentError, chunk, response, strays,
                  recipient, dropped >>

\* The timeout forwards whatever there is.
Timeout ==
  /\ pc = "select"
  /\ accumulated # << >>
  /\ pc' = "post"
  /\ UNCHANGED << published, accumulated, recentError, chunk, response, strays,
                  recipient, dropped >>

\* More than a second has gone by since the last error.
SecondPasses ==
  /\ recentError
  /\ recentError' = FALSE
  /\ UNCHANGED << published, accumulated, pc, chunk, response, strays,
                  recipient, dropped >>

\* forward's loop posts the next chunk.
Post ==
  /\ pc = "post"
  /\ accumulated # << >>
  /\ pc' = "answer"
  /\ chunk' = SubSeq(accumulated, 1,
                IF Len(accumulated) < ChunkSize THEN Len(accumulated) ELSE ChunkSize)
  /\ UNCHANGED << published, accumulated, recentError, response, strays,
                  recipient, dropped >>

\* The loop finds nothing left.
AllSent ==
  /\ pc = "post"
  /\ accumulated = << >>
  /\ ForwardEnds(FALSE)
  /\ UNCHANGED << published, strays, recipient >>

\* A 2xx answer: the chunk leaves the buffer.
Accepted ==
  /\ pc = "answer"
  /\ response = "ok"
  /\ accumulated' = SubSeq(accumulated, Len(chunk) + 1, Len(accumulated))
  /\ pc' = "post"
  /\ chunk' = << >>
  /\ response' = "none"
  /\ UNCHANGED << published, recentError, strays, recipient, dropped >>

\* Fault: the status of the answer is not looked at.
RefusedUnnoticed ==
  /\ pc = "answer"
  /\ response = "error"
  /\ accumulated' = SubSeq(accumulated, Len(chunk) + 1, Len(accumulated))
  /\ pc' = "post"
  /\ chunk' = << >>
  /\ response' = "none"
  /\ UNCHANGED << published, recentError, strays, recipient, dropped >>

\* Any other answer: the chunk stays in the buffer.
Refused ==
  /\ pc = "answer"
  /\ response = "error"
  /\ ForwardEnds(TRUE)
  /\ UNCHANGED << published, strays, recipient >>

\* The connection breaks: before the request arrived, while it is served
\* (and may still be), or after it was.
ConnectionBreaks ==
  /\ pc = "answer"
  /\ ForwardEnds(TRUE)
  /\ \/ UNCHANGED strays
     \/ response = "none" /\ strays' = strays \cup {chunk}
  /\ UNCHANGED << published, recipient >>

-----------------------------------------------------------------------------
(* The recipient                                                           *)

\* AddBatch commits: of the batch s the table Events has every event now, and
\* the texts of those in keeps are there.  addBatchOneByOne keeps the text of
\* every event that is new.  addBatchTrueBatch does while its counters agree;
\* a batch that ends in a duplicate sets them apart, and from then on the
\* clean-up may take any text of a batch for one of a duplicate.
AddBatch(s, keeps) ==
  /\ IF drifted THEN keeps \subseteq ToSet(s) ELSE keeps = ToSet(s) \ known
  /\ known' = known \cup ToSet(s)
  /\ stored' = stored \cup keeps
  /\ drifted' = (drifted \/ (TrueBatch /\ Last(s) \in known))
  /\ uncommitted' = uncommitted \ ToSet(s)

\* /v1/receiveEvents adds the chunk as one batch; events already known are
\* skipped as duplicates.  An event whose file has no configuration has no
\* parser either: the handler panics, which gin answers with a 500.
Serve ==
  /\ pc = "answer"
  /\ response = "none"
  /\ ToSet(chunk) \subseteq configured
  /\ \E keeps \in SUBSET ToSet(chunk) : AddBatch(chunk, keeps)
  /\ response' = "ok"
  /\ UNCHANGED << published, accumulated, pc, recentError, chunk, strays,
                  configured, dropped >>

\* COMMIT fails: the tables are as before, but AddBatch returns nil and the
\* request is answered like one that was served.
ServeUncommitted ==
  /\ pc = "answer"
  /\ response = "none"
  /\ ToSet(chunk) \subseteq configured
  /\ uncommitted' = uncommitted \cup (ToSet(chunk) \ known)
  /\ response' = "ok"
  /\ UNCHANGED << published, accumulated, pc, recentError, chunk, strays,
                  configured, known, stored, drifted, dropped >>

\* The panic, or an error of the configuration or of AddBatch.
ServeFails ==
  /\ pc = "answer"
  /\ response = "none"
  /\ response' = "error"
  /\ UNCHANGED << published, accumulated, pc, recentError, chunk, strays,
                  recipient, dropped >>

\* A request the forwarder has given up on comes through after all, or fails.
ServeStray(s) ==
  /\ strays' = strays \ {s}
  /\ \/ /\ ToSet(s) \subseteq configured
        /\ \E keeps \in SUBSET ToSet(s) : AddBatch(s, keeps)
     \/ UNCHANGED repository
  /\ UNCHANGED << published, accumulated, pc, recentError, chunk, response,
                  configured, dropped >>

\* Another client's batch ends in a duplicate.
CountersDrift ==
  /\ TrueBatch
  /\ drifted' = TRUE
  /\ UNCHANGED << published, accumulated, pc, recentError, chunk, response,
                  strays, configured, known, stored, uncommitted, dropped >>

\* Somebody takes a file out of the recipient's configuration, or puts it back.
Reconfigure(C) ==
  /\ ConfigChanges
  /\ configured' = C
  /\ UNCHANGED << published, accumulated, pc, recentError, chunk, response,
                  strays, repository, dropped >>

Next ==
  \/ Publish \/ Timeout \/ SecondPasses \/ Post \/ AllSent
  \/ Accepted \/ Refused \/ ConnectionBreaks
  \/ Serve \/ ServeUncommitted \/ ServeFails \/ CountersDrift
  \/ \E s \in strays : ServeStray(s)
  \/ \E C \in SUBSET Events : Reconfigure(C)

Spec == Init /\ [][Next]_vars

\* The publisher's goroutine runs, its timer ticks, and a post is answered or
\* breaks; what can be served is served now and then.
Fairness ==
  /\ WF_vars(Timeout) /\ WF_vars(Post) /\ WF_vars(AllSent)
  /\ WF_vars(Accepted \/ Refused \/ ConnectionBreaks) /\ SF_vars(Accepted)
  /\ WF_vars(Serve \/ ServeFails \/ ConnectionBreaks) /\ SF_vars(Serve)

FairSpec == Spec /\ Fairness

-----------------------------------------------------------------------------
(* Properties                                                              *)

TypeOK ==
  /\ published \in 0 .. MaxEvents
  /\ accumulated \in Seq(Events)
  /\ pc \in {"select", "post", "answer"}
  /\ recentError \in BOOLEAN
  /\ chunk \in Seq(Events)
  /\ response \in {"none", "ok", "error"}
  /\ pc # "answer" => chunk = << >> /\ response = "none"
  /\ \A s \in strays : s \in Seq(Events)
  /\ configured \subseteq Events
  /\ known \subseteq Events
  /\ stored \subseteq known
  /\ drifted \in BOOLEAN /\ (drifted => TrueBatch)
  /\ uncommitted \subseteq Events
  /\ dropped \subseteq Events

\* The recipient has the event, and will take it for a duplicate whenever it
\* comes again, but the text is not there: no search finds it.
Misfiled == known \ stored

\* However requests fail, are lost or are served twice, a published event is
\* in the buffer, in the recipient's repository with its text, or among those
\* dropped because the buffer overflowed, but for two ways in which AddBatch
\* acknowledges what it does not keep: a COMMIT that failed, and the clean-up
\* of addBatchTrueBatch once its counters have run apart.  Nothing else is
\* lost, and no event is misfiled before a batch has ended in a duplicate.
NothingLost ==
  /\ 1 .. published \subseteq ToSet(accumulated) \cup dropped \cup stored
                                \cup uncommitted \cup Misfiled
  /\ uncommitted \cap known = {}
  /\ Misfiled # {} => TrueBatch /\ drifted

\* The buffer is the newest events published, in order and without a gap:
\* what was acknowledged or dropped was always the oldest.
BufferIsNewest ==
  \A i \in 1 .. Len(accumulated) :
    accumulated[i] = published - Len(accumulated) + i

\* The chunk waited on is the head of the buffer when its answer comes, so an
\* answer never removes events it was not about.
ChunkIsHead == pc = "answer" => chunk # << >> /\ IsPrefix(chunk, accumulated)

\* While the recipient answers now and then, every event published reaches it
\* or is dropped for lack of room, unless the recipient's configuration has
\* lost the file of some buffered event: that one holds up all behind it.  An
\* event that reached it is stored, or lost there in one of the two ways of
\* NothingLost.
Delivered ==
  \A e \in Events :
    (e <= published) ~> \/ e \in dropped \cup stored
                        \/ e \in uncommitted \cup Misfiled
                        \/ ~ (ToSet(accumulated) \subseteq configured)

\* "maxBufferedEvents is the maximum size of that queue"
\* (internal/config/logsuck-config.schema.json).
QueueBounded == Len(accumulated) <= MaxBufferedEvents

=============================================================================
