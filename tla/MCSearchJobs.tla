----------------------------- MODULE MCSearchJobs -----------------------------
(***************************************************************************)
(* Events, queries and writers for SearchJobs.  A workload has one         *)
(* question each: a query that can be typed in several ways, one that      *)
(* goes wrong, a search that is aborted or fails, writers that meet.       *)
(***************************************************************************)
EXTENDS QueryMeaning

CONSTANTS r1, r2

MCRecipients == {r1, r2}

MCLowered == ("Error" :> "error") @@ ("Level" :> "level") @@ ("userId" :> "userid")

MCWild ==
  ("dis*" :> [leading |-> FALSE, words |-> {"disk", "dish"}]) @@
  ("*isk" :> [leading |-> TRUE, words |-> {"disk", "risk"}]) @@
  ("*a" :> [leading |-> TRUE, words |-> {"a"}]) @@ ("*b" :> [leading |-> TRUE, words |-> {"b"}])

\* The last letter of the word has several bytes.
MCCut == "cafe'" :> "caf~"

MCInvalid == {"[", "caf~"}

\* Clocks are set back by two at 12.
MCWall(t) == IF t < 12 THEN t ELSE t - 2

MCRex ==
  (<< "part" >> :> [malformed |-> FALSE,
                    finds |-> ("disk" :> (<< "part" >> :> << "disk" >>)) @@ ("net" :> (<< "part" >> :> << "net" >>))]) @@
  (<< "user" >> :> [malformed |-> FALSE, finds |-> ("disk" :> (<< "userId" >> :> << "disk" >>))]) @@
  (<< "any" >> :> [malformed |-> FALSE, finds |-> ("" :> (<< "any" >> :> << >>))]) @@
  (<< "group" >> :> [malformed |-> TRUE, finds |-> ("disk" :> << >>)])

MCConfigured == {"a", "b"}

Level(l) == << "level" >> :> << l >>

Event(source, time, words, fields) ==
  [host |-> "h", source |-> source, sourceId |-> source, time |-> time, offset |-> time,
   words |-> words, fields |-> fields]

\* The file of the last is not configured any more.
Log ==
  << Event("a", 2, << "Error", "disk" >>, Level("error") @@ (<< "code" >> :> << "7" >>)),
     Event("b", 4, << "ok", "disk" >>, Level("info")),
     Event("a", 6, << "Error", "net" >>, Level("error")),
     Event("a", 7, << "boot" >>, << "name" >> :> << "cafe'" >>),
     Event("c", 3, << "Error", "disk" >>, Level("error")) >>

Early == Event("b", 1, << "error", "dish" >>, << >>)
Late  == Event("a", 5, << "error" >>, Level("error"))
Last9 == Event("b", 9, << "error", "disk" >>, << >>)

\* The same time for two, where a page ends.
Ties ==
  << Event("a", 4, << "error" >>, << >>), Event("b", 2, << "error" >>, << >>),
     Event("a", 2, << "error" >>, << >>), Event("a", 1, << "error" >>, << >>) >>

\* Before and after the clocks are set back.
Autumn ==
  << Event("a", 10, << "error" >>, << >>), Event("a", 11, << "error" >>, << >>),
     Event("a", 12, << "error" >>, << >>), Event("a", 13, << "error" >>, << >>) >>

Quiet ==
  [stored |-> Log, batches |-> [ r \in MCRecipients |-> << >> ], deletes |-> {}, publish |-> << >>,
   faults |-> 0, text |-> << >>, times |-> << >>, aborts |-> FALSE, query |-> NoQuery]

-----------------------------------------------------------------------------
(* Queries                                                                 *)

Word(w) == [op |-> "word", key |-> "", values |-> << w >>]
Not(w) == [op |-> "not", key |-> "", values |-> << w >>]
Phrase(words) == [op |-> "phrase", key |-> "", values |-> words]
Is(key, values) == [op |-> "is", key |-> key, values |-> values]
IsNot(key, values) == [op |-> "isnot", key |-> key, values |-> values]

Where(key, value) == [name |-> "where", key |-> key, value |-> value]
RexOf(regex) == [name |-> "rex", regex |-> regex]
Table(columns) == [name |-> "table", columns |-> columns]

Query(clauses, commands) == [clauses |-> clauses, range |-> << >>, commands |-> commands, as |-> "field"]

Ranged(q, range, as) == [q EXCEPT !.range = range, !.as = as]

ErrorQuery == Query(<< Word("Error") >>, << >>)
TableQuery ==
  Query(<< Word("disk") >>, << RexOf("part"), Where("part", "disk"), Table(<< "part", "level" >>) >>)

Queries ==
  { ErrorQuery,
    TableQuery,
    Query(<< Word("disk"), Not("ok") >>, << Where("level", "error") >>),
    Query(<< Is("level", << "error" >>), IsNot("code", << "7" >>) >>, << >>),
    Query(<< Is("level", << "info", "error" >>), IsNot("source", << "b" >>) >>, << >>),
    Query(<< IsNot("level", << "info" >>), IsNot("level", << "error" >>) >>, << >>),
    Query(<< IsNot("level", << "info", "debug" >>), Word("dis*") >>, << >>),
    Query(<< >>, << Table(<< "level" >>) >>),
    \* the exceptions
    Query(<< Word("*isk") >>, << >>),
    Query(<< Is("source", << "*a", "*b" >>) >>, << >>),
    Query(<< Is("source", << "*a" >>) >>, << >>),
    Query(<< Is("source", << "a", "b" >>) >>, << >>),
    Query(<< Is("level", << "info" >>), Is("level", << "error" >>) >>, << >>),
    Query(<< IsNot("code", << "7" >>), IsNot("level", << "error" >>) >>, << >>),
    Query(<< Phrase(<< "disk", "error" >>) >>, << >>),
    Ranged(Query(<< Phrase(<< "error", "disk" >>) >>, << >>), << >>, "command"),
    Query(<< Word("disk") >>, << RexOf("user"), Where("userId", "disk") >>),
    Query(<< Word("boot") >>, << Where("name", "cafe'") >>),
    \* with a time range
    Ranged(ErrorQuery, << << "startTime", "3" >>, << "endTime", "7" >> >>, "command"),
    Ranged(TableQuery, << << "startTime", "3" >> >>, "field") }

For(q) == [Quiet EXCEPT !.text = Render(q), !.times = Times(q), !.query = q]

Texts ==
  { << Quote, "disk", " ", "!", Quote >>,
    << "disk", Quote, "ok" >>,
    << Quote, "disk" >>,
    << "Level", "=", Quote, "[", Quote >>,
    << "level", "=", " ", "error" >>,
    << "level", " ", "IN", " ", "(", "error" >>,
    << "disk", " ", "NOT", " ", "|", " ", "where" >>,
    << "disk", " ", "|", " ", "sort" >>,
    << "disk", " ", "|", " ", "table", " ", "level" >>,
    << "disk", " ", "|", " ", "table", " ", Quote, "level", Quote, "|", "rex", " ", Quote, "part", Quote >>,
    << "disk", " ", "|", " ", "rex", " ", Quote, "group", Quote >>,
    << "name", "=", Quote, "cafe'", Quote >>,
    << Quote, "cafe'", Quote >>,
    << "|", " ", "surrounding", " ", "eventId", "=", "9" >>,
    << "|", " ", "surrounding", " ", "eventId", "=", "x" >>,
    << "|", " ", "surrounding", " ", "eventId", "=", "3", " ", "count", "=", "-1" >>,
    << "|", " ", "surrounding", " ", "eventId", "=", "3", " ", "count", "=", "-2" >>,
    << "|", " ", "surrounding", " ", "eventId", "=", "3", " ", "count", "=", "102" >>,
    << "|", " ", "surrounding", " ", "eventId", "=", "5", " ", "|", " ", "rex", " ", Quote, "any", Quote >> }

SurroundingText ==
  << "|", " ", "surrounding", " ", "eventId", "=", "3", " ", "count", "=", "2" >>

-----------------------------------------------------------------------------
(* Workloads                                                               *)

Batches(first, second) == (r1 :> first) @@ (r2 :> second)

MCWorkloads ==
  { For(q) : q \in Queries } \cup
  { [Quiet EXCEPT !.text = text] : text \in Texts } \cup
  { \* aborted, and with a failure
    [For(TableQuery) EXCEPT !.aborts = TRUE],
    [For(ErrorQuery) EXCEPT !.aborts = TRUE, !.faults = 1],
    [Quiet EXCEPT !.text = SurroundingText, !.faults = 1],
    [For(ErrorQuery) EXCEPT !.stored = << >>],
    [For(ErrorQuery) EXCEPT !.stored = Ties],
    [For(ErrorQuery) EXCEPT !.stored = Autumn],
    \* events come and go meanwhile
    [For(ErrorQuery) EXCEPT !.batches = Batches(<< Late, Last9 >>, << >>)],
    [For(Query(<< Word("Error") >>, << Table(<< "level" >>) >>)) EXCEPT !.publish = << Late, Last9 >>],
    [For(ErrorQuery) EXCEPT !.deletes = {1}, !.batches = Batches(<< Early >>, << >>)],
    \* two forwarders have the same events in another order, one and the reader too
    [Quiet EXCEPT !.batches = Batches(<< Early, Late >>, << Late, Early >>), !.faults = 1],
    [Quiet EXCEPT !.publish = << Late, Early, Last9 >>, !.batches = Batches(<< Early, Late >>, << >>), !.faults = 1],
    \* an event that is deleted comes again
    [Quiet EXCEPT !.deletes = {1, 2}, !.batches = Batches(<< Log[1], Early >>, << Early >>), !.faults = 1] }

=============================================================================
