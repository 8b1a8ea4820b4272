---------------------------- MODULE FileWatcher ----------------------------
(***************************************************************************)
(* Reading one log file: FileWatcher's loop, the commands its GlobWatcher  *)
(* sends it, and the file itself, which is written to, removed, renamed    *)
(* and created while it is read.                                           *)
(*                                                                         *)
(* The watcher reads its open file to the end at every tick, a buffer at a *)
(* time, and publishes an event for every delimiter read.  It is told to   *)
(* reopen the file whenever fsnotify reports that a file was created or    *)
(* removed at the path; a renaming is not reported to it.                  *)
(***************************************************************************)
EXTENDS Naturals, Sequences, SequencesExt

CONSTANTS ReadSize,     \* len(readBuf)
          MaxBytes,     \* bound: bytes ever written
          MaxFiles,     \* bound: files ever created at the path
          MaxRestarts   \* bound: restarts of the process

ASSUME FileWatcherAssumption ==
  /\ ReadSize \in Nat \ {0}
  /\ MaxBytes \in Nat
  /\ MaxFiles \in Nat \ {0}
  /\ MaxRestarts \in Nat

\* A file is a sequence of text and delimiters.
Bytes == {"text", "delimiter"}

VARIABLES
  files,          \* the contents of every file created at the path, in order
  current,        \* the one that is there now, 0 if none
  notices,        \* fsnotify events the GlobWatcher has yet to pass on
  pc,             \* where the watcher is; "none" when there is no watcher
  file,           \* fw.file: the file it has open, 0 for nil
  readPos,        \* the position in it
  reopening,      \* does it read to the end before it closes the file?
  workingBuf,     \* fw.workingBuf; in handleEvents, what is left of it
  splitOffset,    \* in handleEvents, the position of that in the whole
  currentOffset,  \* fw.currentOffset
  sources,        \* per source id, the file it was made for
  published,      \* per source id, its events in the order published
  restarts

disk == << files, current, notices >>
reading == << file, readPos, reopening, workingBuf, splitOffset, currentOffset >>
output == << sources, published >>

vars == << disk, pc, reading, output, restarts >>

Written == Len(FlattenSeq(files))

\* The file parser: is there a whole event in the buffer, and where does the
\* first one end?
CanSplit(buf) == Contains(buf, "delimiter")

EndOfEvent(buf) == SelectInSeq(buf, LAMBDA b : b = "delimiter")

\* What the watcher is before it has opened anything.
NewWatcher ==
  /\ file' = 0
  /\ readPos' = 0
  /\ reopening' = FALSE
  /\ workingBuf' = << >>
  /\ splitOffset' = 0
  /\ currentOffset' = 0

Init ==
  /\ \/ files = << >> /\ current = 0 /\ pc = "none"
     \/ files = << << >> >> /\ current = 1 /\ pc = "select"
  /\ notices = 0
  /\ file = 0
  /\ readPos = 0
  /\ reopening = FALSE
  /\ workingBuf = << >>
  /\ splitOffset = 0
  /\ currentOffset = 0
  /\ sources = << >>
  /\ published = << >>
  /\ restarts = 0

-----------------------------------------------------------------------------
(* The programs that log.                                                  *)

\* A file may be written to after it was removed or renamed.
Write(n, b) ==
  /\ Written < MaxBytes
  /\ files' = [files EXCEPT ![n] = Append(@, b)]
  /\ UNCHANGED << current, notices, pc, reading, output, restarts >>

RemoveFile ==
  /\ current # 0
  /\ current' = 0
  /\ notices' = notices + 1
  /\ UNCHANGED << files, pc, reading, output, restarts >>

\* fsnotify.Rename is not among the operations looked at.
RenameFile ==
  /\ current # 0
  /\ current' = 0
  /\ UNCHANGED << files, notices, pc, reading, output, restarts >>

CreateFile ==
  /\ current = 0
  /\ Len(files) < MaxFiles
  /\ files' = Append(files, << >>)
  /\ current' = Len(files) + 1
  /\ notices' = notices + 1
  /\ UNCHANGED << pc, reading, output, restarts >>

-----------------------------------------------------------------------------
(* GlobWatcher.Start: fsnotify reports a matching path.                    *)

\* There is no watcher for the path yet.
StartWatcher ==
  /\ pc = "none"
  /\ notices > 0
  /\ notices' = notices - 1
  /\ pc' = "select"
  /\ UNCHANGED << files, current, reading, output, restarts >>

\* Fault: the file is closed without being read to its end.
ReopenAtOnce ==
  /\ pc = "select"
  /\ notices > 0
  /\ notices' = notices - 1
  /\ file' = 0
  /\ pc' = "open"
  /\ UNCHANGED << files, current, readPos, reopening, workingBuf, splitOffset,
                  currentOffset, output, restarts >>

\* Fault: the command is taken for a tick.
ReopenIgnored ==
  /\ pc = "select"
  /\ notices > 0
  /\ notices' = notices - 1
  /\ pc' = IF file = 0 THEN "open" ELSE "read"
  /\ UNCHANGED << files, current, reading, output, restarts >>

\* CommandReopen meets the watcher's select.
Reopen ==
  /\ pc = "select"
  /\ notices > 0
  /\ notices' = notices - 1
  /\ reopening' = (file # 0)
  /\ pc' = IF file = 0 THEN "open" ELSE "read"
  /\ UNCHANGED << files, current, file, readPos, workingBuf, splitOffset,
                  currentOffset, output, restarts >>

-----------------------------------------------------------------------------
(* FileWatcher.Start, readToEnd and handleEvents.                          *)

Tick ==
  /\ pc = "select"
  /\ pc' = IF file = 0 THEN "open" ELSE "read"
  /\ UNCHANGED << disk, reading, output, restarts >>

\* Fault: what was left of the file before stays in the buffer.
OpenKeepingBuffer ==
  /\ pc = "open"
  /\ current # 0
  /\ file' = current
  /\ readPos' = 0
  /\ currentOffset' = 0
  /\ sources' = Append(sources, current)
  /\ published' = Append(published, << >>)
  /\ pc' = "read"
  /\ UNCHANGED << disk, reopening, workingBuf, splitOffset, restarts >>

\* os.Open: the file gets a new source id.
Open ==
  /\ pc = "open"
  /\ current # 0
  /\ file' = current
  /\ readPos' = 0
  /\ currentOffset' = 0
  /\ workingBuf' = << >>
  /\ sources' = Append(sources, current)
  /\ published' = Append(published, << >>)
  /\ pc' = "read"
  /\ UNCHANGED << disk, reopening, splitOffset, restarts >>

\* There is nothing to open: retried at the next tick.
OpenFails ==
  /\ pc = "open"
  /\ current = 0
  /\ pc' = "select"
  /\ UNCHANGED << disk, reading, output, restarts >>

\* A Read returns up to a buffer; CanSplit asks for a delimiter.
Read ==
  /\ pc = "read"
  /\ readPos < Len(files[file])
  /\ LET upTo == IF Len(files[file]) < readPos + ReadSize
                   THEN Len(files[file]) ELSE readPos + ReadSize
         buf == workingBuf \o SubSeq(files[file], readPos + 1, upTo)
     IN  /\ readPos' = upTo
         /\ workingBuf' = buf
         /\ pc' = IF CanSplit(buf) THEN "events" ELSE "read"
  /\ UNCHANGED << disk, file, reopening, splitOffset, currentOffset, output,
                  restarts >>

\* Read returns 0.  A file to be reopened is closed.
ReadNothing ==
  /\ pc = "read"
  /\ readPos = Len(files[file])
  /\ IF reopening
       THEN /\ file' = 0
            /\ reopening' = FALSE
            /\ pc' = "open"
       ELSE /\ pc' = "select"
            /\ UNCHANGED << file, reopening >>
  /\ UNCHANGED << disk, readPos, workingBuf, splitOffset, currentOffset, output,
                  restarts >>

\* Fault: the event is given its offset in the buffer.
PublishWithin ==
  /\ pc = "events"
  /\ CanSplit(workingBuf)
  /\ LET end == EndOfEvent(workingBuf)
         event == [raw |-> SubSeq(workingBuf, 1, end - 1), offset |-> splitOffset]
     IN  /\ published' = [published EXCEPT ![Len(sources)] = Append(@, event)]
         /\ workingBuf' = SubSeq(workingBuf, end + 1, Len(workingBuf))
         /\ splitOffset' = splitOffset + end
  /\ UNCHANGED << disk, pc, file, readPos, reopening, currentOffset, sources,
                  restarts >>

\* handleEvents publishes the next event that Split found.  Its offset,
\* res.Offset, is that from the beginning of the buffer that was split.
Publish ==
  /\ pc = "events"
  /\ CanSplit(workingBuf)
  /\ LET end == EndOfEvent(workingBuf)
         event == [raw |-> SubSeq(workingBuf, 1, end - 1), offset |-> currentOffset]
     IN  /\ published' = [published EXCEPT ![Len(sources)] = Append(@, event)]
         /\ currentOffset' = currentOffset + splitOffset
         /\ workingBuf' = SubSeq(workingBuf, end + 1, Len(workingBuf))
         /\ splitOffset' = splitOffset + end
  /\ UNCHANGED << disk, pc, file, readPos, reopening, sources, restarts >>

\* The remainder stays in the buffer.
Published ==
  /\ pc = "events"
  /\ ~CanSplit(workingBuf)
  /\ splitOffset' = 0
  /\ pc' = "read"
  /\ UNCHANGED << disk, file, readPos, reopening, workingBuf, currentOffset,
                  output, restarts >>

\* The process stops and starts again: the initial glob finds the file that
\* is there now.
Restart ==
  /\ restarts < MaxRestarts
  /\ restarts' = restarts + 1
  /\ NewWatcher
  /\ pc' = IF current = 0 THEN "none" ELSE "select"
  /\ notices' = 0
  /\ UNCHANGED << files, current, output >>

-----------------------------------------------------------------------------

Watch == Tick \/ Open \/ OpenFails \/ Read \/ ReadNothing \/ Publish \/ Published

Next ==
  \/ \E n \in DOMAIN files, b \in Bytes : Write(n, b)
  \/ RemoveFile \/ RenameFile \/ CreateFile
  \/ StartWatcher \/ Reopen \/ Watch
  \/ Restart

Spec == Init /\ [][Next]_vars

\* The goroutines run, the ticker ticks, and select does not pass over a
\* command that is offered for ever.
Fairness == WF_vars(Watch) /\ WF_vars(StartWatcher) /\ SF_vars(Reopen)

FairSpec == Spec /\ Fairness

-----------------------------------------------------------------------------
(* Properties                                                              *)

\* The bytes that events stand for.
BytesOf(events) ==
  FlattenSeq([i \in DOMAIN events |-> Append(events[i].raw, "delimiter")])

TypeOK ==
  /\ files \in Seq(Seq(Bytes))
  /\ current \in {0, Len(files)}
  /\ notices \in Nat
  /\ pc \in {"none", "select", "open", "read", "events"}
  /\ file \in 0 .. Len(files)
  /\ pc \in {"read", "events"} => file # 0
  /\ pc \in {"none", "open"} => file = 0
  /\ reopening => pc \in {"read", "events"}
  /\ file # 0 => readPos <= Len(files[file]) /\ sources # << >>
  /\ workingBuf \in Seq(Bytes)
  /\ splitOffset \in Nat
  /\ pc # "events" => splitOffset = 0
  /\ currentOffset \in Nat
  /\ sources \in Seq(1 .. MaxFiles)
  /\ DOMAIN published = DOMAIN sources
  /\ \A s \in DOMAIN published :
       published[s] \in Seq([raw : Seq(Bytes), offset : Nat])
  /\ restarts \in 0 .. MaxRestarts

\* However reads cut the file, the events published for a source are the
\* lines of its file from the beginning, whole, once each and in order, and
\* what has been read of the next line is in the buffer.
WholeLines ==
  /\ \A s \in DOMAIN sources : IsPrefix(BytesOf(published[s]), files[sources[s]])
  /\ file # 0 =>
       BytesOf(published[Len(sources)]) \o workingBuf
         = SubSeq(files[file], 1, readPos)

\* The offsets of a source's events never go down: GetSurroundingEvents takes
\* their order for that of the lines.
OffsetsAscend ==
  \A s \in DOMAIN published :
    \A i \in DOMAIN published[s] :
      i > 1 => published[s][i - 1].offset <= published[s][i].offset

\* An event is one line: no delimiter is left in it.
SingleLines ==
  \A s \in DOMAIN published :
    \A i \in DOMAIN published[s] : ~ Contains(published[s][i].raw, "delimiter")

\* "so we need to look them up to get the offset right" (handleEvents): the
\* offset of an event is the position of its line in the file.
OffsetIsPosition ==
  \A s \in DOMAIN published :
    \A i \in DOMAIN published[s] :
      published[s][i].offset = Len(BytesOf(SubSeq(published[s], 1, i - 1)))

PublishedUpTo(n, p) ==
  \E s \in DOMAIN sources :
    sources[s] = n /\ Len(BytesOf(published[s])) >= p

\* A line that ends in the file the watcher has open is published, even when
\* the file is removed or replaced before it was read.
LinesPublished ==
  \A n \in 1 .. MaxFiles, p \in 1 .. MaxBytes, r \in 0 .. MaxRestarts :
    (/\ restarts = r
     /\ file = n
     /\ p <= Len(files[n])
     /\ files[n][p] = "delimiter")
      ~> (PublishedUpTo(n, p) \/ restarts # r)

\* A file that is created at the path, and stays, is opened in the end, also
\* when the one before it was moved away unnoticed.
FollowsRotation ==
  \A n \in 1 .. MaxFiles :
    (current = n) ~> (n \in ToSet(sources) \/ current # n)

=============================================================================
