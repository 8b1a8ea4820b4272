----------------------------- MODULE QueryMeaning -----------------------------
(***************************************************************************)
(* What a search promises, as the manual tells it (README, "Search         *)
(* syntax"), beside SearchJobs, which does it.  A query is a set of        *)
(* clauses, a time range and a sequence of commands; Render is the text a  *)
(* user types for it, and Meant the events he means.  Where the code and   *)
(* the manual disagree, the promise has an exception, each with a name.    *)
(***************************************************************************)
EXTENDS SearchJobs

NoQuery == [clauses |-> << >>, range |-> << >>, commands |-> << >>, as |-> "none"]

-----------------------------------------------------------------------------
(* The text                                                                *)

Joined(texts, separator) ==
  FlattenSeq([ i \in DOMAIN texts |-> (IF i = 1 THEN << >> ELSE separator) \o texts[i] ])

Listed(values) ==
  << "(" >> \o Joined([ i \in DOMAIN values |-> << values[i] >> ], << ",", " " >>) \o << ")" >>

Words(c) == Joined([ i \in DOMAIN c.values |-> << c.values[i] >> ], << " " >>)

RenderClause(c, quote) ==
  CASE c.op = "word"                             -> << c.values[1] >>
    [] c.op = "not"                              -> << "NOT", " ", c.values[1] >>
    [] c.op = "phrase"                           -> << quote >> \o Words(c) \o << quote >>
    [] c.op = "is" /\ Len(c.values) = 1          -> << c.key, "=", c.values[1] >>
    [] c.op = "isnot" /\ Len(c.values) = 1       -> << c.key, "!=", c.values[1] >>
    [] c.op = "is" /\ Len(c.values) > 1          -> << c.key, " ", "IN", " " >> \o Listed(c.values)
    [] c.op = "isnot" /\ Len(c.values) > 1       -> << c.key, " ", "NOT", " ", "IN", " " >> \o Listed(c.values)

RenderClauses(q, quote) ==
  Joined([ i \in DOMAIN q.clauses |-> RenderClause(q.clauses[i], quote) ], << " " >>)

Quoted(text) == << Quote >> \o text \o << Quote >>

RenderCommand(c) ==
  << " ", "|", " ", c.name >> \o
  CASE c.name = "where" -> << " ", c.key, "=" >> \o Quoted(<< c.value >>)
    [] c.name = "rex"   -> << " " >> \o Quoted(<< c.regex >>)
    [] c.name = "table" -> << " " >> \o Quoted(Joined([ i \in DOMAIN c.columns |-> << c.columns[i] >> ], << ",", " " >>))

\* A time range is chosen beside the search field, or typed with a command that
\* starts a new search.
Render(q) ==
  (IF q.as = "command"
     THEN << "|", " ", "search" >> \o
          FlattenSeq([ i \in DOMAIN q.range |-> << " ", q.range[i][1], "=" >> \o Quoted(<< q.range[i][2] >>) ]) \o
          << " " >> \o Quoted(RenderClauses(q, Escaped))
     ELSE RenderClauses(q, Quote)) \o
  FlattenSeq([ i \in DOMAIN q.commands |-> RenderCommand(q.commands[i]) ])

Times(q) ==
  IF q.as = "command" THEN << >>
  ELSE FoldLeft(LAMBDA times, r : (<< r[1] >> :> << r[2] >>) @@ times, << >>, q.range)

-----------------------------------------------------------------------------
(* The meaning                                                             *)

\* Case does not matter, and "*" stands for anything.
StandsFor(pattern, word) ==
  IF pattern \in DOMAIN Wild THEN LowerWord(word) \in Wild[pattern].words
  ELSE LowerWord(word) = LowerWord(pattern)

Has(text, values) == \E i \in DOMAIN text, p \in Range(values) : StandsFor(p, text[i])

HasPhrase(text, words) ==
  \E start \in 0 .. Len(text) - Len(words) :
    \A i \in DOMAIN words : StandsFor(words[i], text[start + i])

\* The fields of an event that have this name.
Named(fields, key) == { k \in DOMAIN fields : Lower(k) = Lower(<< key >>) }

Satisfies(e, c) ==
  LET fields   == ExtractFields(e)
      HasField == \E k \in Named(fields, c.key) : Has(fields[k], c.values)
  IN  CASE c.op = "word"   -> Has(e.words, c.values)
        [] c.op = "not"    -> ~Has(e.words, c.values)
        [] c.op = "phrase" -> HasPhrase(e.words, c.values)
        [] c.op = "is"     -> HasField
        [] c.op = "isnot"  -> ~HasField

InRange(e, r) ==
  \E t \in Digits : r[2] = ToString(t) /\ IF r[1] = "startTime" THEN e.time >= t ELSE e.time <= t

After(command, es) ==
  CASE command.name = "where" ->
         { e \in es : \E k \in Named(e.fields, command.key) : e.fields[k] = << command.value >> }
    [] command.name = "rex" ->
         { [e EXCEPT !.fields =
              FoldLeft(LAMBDA fields, w : IF w \in DOMAIN Rex[<< command.regex >>].finds
                                            THEN Rex[<< command.regex >>].finds[w] @@ fields ELSE fields,
                       @, e.words)] : e \in es }
    [] command.name = "table" ->
         { [e EXCEPT !.fields =
              [ f \in { << c >> : c \in Range(command.columns) } |-> IF f \in DOMAIN @ THEN @[f] ELSE << >> ]] : e \in es }

\* What the query makes of those of the events that hold up.
Answer(q, stored, HoldsUp(_)) ==
  FoldLeft(LAMBDA es, command : After(command, es),
           { [e EXCEPT !.fields = ExtractFields(e)] :
               e \in { x \in stored : /\ x.source \in Configured /\ HoldsUp(x)
                                      /\ \A r \in Range(q.range) : InRange(x, r) } },
           q.commands)

Meant(q, stored) == Answer(q, stored, LAMBDA e : \A c \in Range(q.clauses) : Satisfies(e, c))

-----------------------------------------------------------------------------
(* The exceptions                                                          *)

\* PostgreSQL looks these up, the steps all other fields.
Indexed == {"host", "source"}

BeginsWithStar(c) == \E w \in Range(c.values) : w \in DOMAIN Wild /\ Wild[w].leading

\* Nothing is found: a word, a host or a source that begins with "*", and a phrase where a
\* command takes it, are no tsquery; of a list of hosts or sources all are asked for.
FindsNothing(q) ==
  \E c \in Range(q.clauses) :
    \/ BeginsWithStar(c) /\ (c.op \in {"word", "not", "phrase"} \/ c.key \in Indexed)
    \/ c.op = "phrase" /\ q.as = "command" /\ Len(c.values) > 1
    \/ c.op = "is" /\ c.key \in Indexed /\ Len(c.values) > 1

\* Nothing passes a where: rex has made the field, and its name has a capital, or the value
\* ends in a character of several bytes, of which the quote leaves one.
PassesNothing(q) ==
  \E w \in { c \in Range(q.commands) : c.name = "where" } :
    \/ LowerWord(w.key) # w.key /\ \E r \in Range(q.commands) : r.name = "rex"
    \/ w.value \in DOMAIN Cut

\* A clause that some of the events need not satisfy.  The last of those that say what a
\* field is counts; of a phrase only the words; and the exclusion of a field may not be
\* looked at for an event that does not have another field that is excluded.
Overlooked(q, i, e) ==
  LET c == q.clauses[i]
  IN  \/ c.op = "is" /\ \E j \in i + 1 .. Len(q.clauses) : q.clauses[j].op = "is" /\ q.clauses[j].key = c.key
      \/ c.op = "phrase" /\ \A w \in Range(c.values) : Has(e.words, << w >>)
      \/ /\ c.op = "isnot" /\ c.key \notin Indexed
         /\ \E d \in Range(q.clauses) : d.op = "isnot" /\ Named(ExtractFields(e), d.key) = {}

Allowed(q, stored) ==
  Answer(q, stored, LAMBDA e : \A i \in DOMAIN q.clauses : Satisfies(e, q.clauses[i]) \/ Overlooked(q, i, e))

-----------------------------------------------------------------------------
(* The promise                                                             *)

\* Events that are stored from the start to the end, and those of which each may
\* come too late for a search, or be deleted too early.
Lasting == { load.stored[i] : i \in DOMAIN load.stored \ load.deletes }

Passing == Possible \ Lasting

\* The first row of the next page is older than the last of a full one, so that
\* events which share a time may be left out at its end.
HasOwnTime(e) == \A d \in Possible : d.time = e.time => Key(d) = Key(e)

\* Each is counted once, and the GUI is shown pages of them, in the order of what a clock
\* has shown, each page newest first, but for those that were deleted since; or the rows
\* made of them, newest first.
Shows(found) ==
  LET clock == [ e \in found |-> Wall(e.time) ]
      time  == [ e \in found |-> e.time ]
  IN  /\ GetNumMatchedEvents(job) = Cardinality(found)
      /\ job.outputType = "events" =>
           \A skip \in 0 .. Cardinality(found), take \in 1 .. 2 :
             \A page \in getJobResults(job, skip, take) :
               /\ \E some \in Pages(found, clock, skip, take) :
                    LET keys == { Key(e) : e \in Range(some) }
                        seen == { Key(Events[id]) : id \in Range(page) }
                    IN  seen \subseteq keys /\ keys \ seen \subseteq deleted
               /\ \A k \in 2 .. Len(page) : Events[page[k]].time <= Events[page[k - 1]].time
      /\ job.outputType = "table" =>
           \A n \in 1 .. Cardinality(found) :
             \E some \in Pages(found, time, n - 1, 1) : GetTableResults(job, n - 1, 1) = << some[1].fields >>

\* A search that finishes, not aborted and with nothing having failed, has found what its
\* text means, but for the exceptions above: nothing that they do not allow, and all
\* that was there from the start to the end, has a time of its own and is meant, unless
\* they say that nothing is found.
ResultIsMeaning ==
  job.state = "finished" /\ ~cancelled /\ faults = 0 /\ load.query # NoQuery =>
    LET q       == load.query
        allowed == Allowed(q, Possible)
        owed    == IF FindsNothing(q) \/ PassesNothing(q) THEN {}
                   ELSE { e \in Meant(q, Lasting) : HasOwnTime(e) }
    IN  owed \subseteq allowed /\ \E some \in SUBSET (allowed \ owed) : Shows(owed \cup some)

=============================================================================
