----------------------------- MODULE Pipelines -----------------------------
(***************************************************************************)
(* internal/pipeline and plugins/steps: how a query is compiled into a     *)
(* chain of steps, and what each step makes of a batch of events.          *)
(*                                                                         *)
(* The text of an event is a sequence of words; fields holds what the      *)
(* parser of its file extracts from the text in lower case.  Keys, values  *)
(* and words searched for are pieces of text, as in Query.                 *)
(***************************************************************************)
EXTENDS Query, FiniteSets, Integers

CONSTANTS Wild,       \* words with "*": the words they stand for, and whether "*" is first
          Invalid,    \* words no regular expression can be made of
          Rex,        \* arguments of rex: what they find in a word, are they malformed?
          Configured, \* the sources for which there is a file configuration
          MaxRows     \* the rows there is memory for

Digits == 0 .. 9

\* dateparse.ParseStrict: the times a text can be read as.
Number(text) == { n \in Digits : text = << ToString(n) >> }

\* Numbers with a sign, and one of which half is too many rows.
Integers == (-9 .. 9) \cup {2 * (MaxRows + 1)}

\* strconv.ParseInt and Atoi: the numbers a text can be read as.
Integer(text) == { n \in Integers : text = << ToString(n) >> }

\* Division in Go is towards zero.
Half(n) == IF n < 0 THEN -((-n) \div 2) ELSE n \div 2

\* A set of numbers in descending order of an amount each has, and of equals the
\* smaller number first: every number at its rank.
Descending(S, amount) ==
  [ n \in 1 .. Cardinality(S) |->
      CHOOSE i \in S :
        Cardinality({ j \in S : amount[j] > amount[i] \/ (amount[j] = amount[i] /\ j < i) }) = n - 1 ]

\* Those entries of a list that have their number in S.
Picked(list, S) ==
  LET numbers == Descending(S, [ i \in DOMAIN list |-> 0 ])
  IN  [ n \in 1 .. Cardinality(S) |-> list[numbers[n]] ]

-----------------------------------------------------------------------------
(* Regular expressions made of fragments                                   *)

\* The words of a fragment, {} in place of the nil pointer left when it does not
\* compile.
compileFrag(frag) ==
  IF \E i \in DOMAIN frag : frag[i] \in Invalid THEN {}
  ELSE {SelectSeq(frag, LAMBDA w : w # " ")}

\* Case does not matter, except after a leading "*", which takes "(?i)" away too.
MatchesWord(pattern, word) ==
  IF pattern \in DOMAIN Wild
    THEN (IF Wild[pattern].leading THEN word ELSE LowerWord(word)) \in Wild[pattern].words
    ELSE LowerWord(pattern) = LowerWord(word)

MatchString(frag, text) ==
  \E words \in compileFrag(frag), start \in 0 .. Len(text) :
    /\ start + Len(words) <= Len(text)
    /\ \A i \in DOMAIN words : MatchesWord(words[i], text[start + i])

AnyMatch(frags, text) == \E frag \in frags : MatchString(frag, text)

\* A nil regular expression is dereferenced.
AnyNil(frags) == \E frag \in frags : compileFrag(frag) = {}

-----------------------------------------------------------------------------
(* Steps: compilation                                                      *)

Bad == [res |-> "error"]

\* What of a step's options is in the way of its compilation.
BadNumber(args, key) == key \in DOMAIN args /\ Number(args[key]) = {}

BadInteger(args, key) == key \in DOMAIN args /\ Integer(args[key]) = {}

\* No option, or what it says.
Option(args, key) == IF key \in DOMAIN args THEN Number(args[key]) ELSE {}

SearchStep(search, args) ==
  CASE BadNumber(args, << "startTime" >>) \/ BadNumber(args, << "endTime" >>) -> Bad
    [] search.res # "ok" -> [res |-> search.res]
    [] OTHER ->
         [res |-> "ok", name |-> "search", in |-> "none", out |-> "events", search |-> search,
          from |-> Option(args, << "startTime" >>), to |-> Option(args, << "endTime" >>)]

compileSearchStep(value, args) == SearchStep(ParseSearch(value), args)

compileRexStep(value, args) ==
  IF value \notin DOMAIN Rex THEN Bad
  ELSE [res |-> "ok", name |-> "rex", in |-> "events", out |-> "events", rex |-> Rex[value],
        field |-> IF << "field" >> \in DOMAIN args THEN args[<< "field" >>] ELSE << "_raw" >>]

TrimSpace(text) ==
  LET ends == { i \in DOMAIN text : text[i] # " " }
  IN  IF ends = {} THEN << >>
      ELSE LET first == CHOOSE i \in ends : \A j \in ends : i <= j
               last  == CHOOSE i \in ends : \A j \in ends : j <= i
           IN  SubSeq(text, first, last)

SplitAtCommas(text) ==
  FoldLeft(LAMBDA parts, c : IF c = "," THEN Append(parts, << >>)
                             ELSE [parts EXCEPT ![Len(parts)] = Append(@, c)],
           << << >> >>, text)

compileTableStep(value) ==
  LET parts  == SplitAtCommas(value)
      fields == SelectSeq([ i \in DOMAIN parts |-> TrimSpace(parts[i]) ], LAMBDA f : f # << >>)
  IN  IF fields = << >> THEN Bad
      ELSE [res |-> "ok", name |-> "table", in |-> "events", out |-> "table", fields |-> fields]

compileWhereStep(args) ==
  [res |-> "ok", name |-> "where", in |-> "propagate", out |-> "propagate", args |-> args]

compileSurroundingStep(args) ==
  IF << "eventId" >> \notin DOMAIN args \/ BadInteger(args, << "eventId" >>) \/ BadInteger(args, << "count" >>)
    THEN Bad
    ELSE [res |-> "ok", name |-> "surrounding", in |-> "none", out |-> "events",
          eventId |-> CHOOSE n \in Integer(args[<< "eventId" >>]) : TRUE,
          count |-> IF << "count" >> \in DOMAIN args
                      THEN CHOOSE n \in Integer(args[<< "count" >>]) : TRUE ELSE 100]

compileStep(step) ==
  CASE step.StepType = << "search" >>      -> compileSearchStep(step.Value, step.Args)
    [] step.StepType = << "rex" >>         -> compileRexStep(step.Value, step.Args)
    [] step.StepType = << "table" >>       -> compileTableStep(step.Value)
    [] step.StepType = << "where" >>       -> compileWhereStep(step.Args)
    [] step.StepType = << "surrounding" >> -> compileSurroundingStep(step.Args)
    [] OTHER -> Bad

-----------------------------------------------------------------------------
(* Pipelines: compilation                                                  *)

\* The type of what comes out of step i of a chain.
TypeAfter(chain, i) ==
  chain[CHOOSE j \in 1 .. i :
          /\ chain[j].out # "propagate"
          /\ \A k \in j + 1 .. i : chain[k].out = "propagate"].out

Mismatch(chain) ==
  \E i \in 2 .. Len(chain) : chain[i].in \notin {"propagate", TypeAfter(chain, i - 1)}

\* The time range chosen in the GUI goes to the first step.
WithTimes(steps, times) == [steps EXCEPT ![1].Args = times @@ @]

\* The last step without input is where the chain starts: what comes before is
\* forgotten.
Generated(compiled) ==
  SubSeq(compiled, SelectLastInSeq(compiled, LAMBDA s : s.in = "none"), Len(compiled))

Connected(chain) == IF Mismatch(chain) THEN Bad ELSE [res |-> "ok", steps |-> chain]

\* Steps are compiled in order, up to the first that cannot be.
Checked(compiled) ==
  LET bad == SelectInSeq(compiled, LAMBDA s : s.res # "ok")
  IN  IF bad # 0 THEN [res |-> compiled[bad].res] ELSE Connected(Generated(compiled))

CompileSteps(steps) == Checked([ i \in DOMAIN steps |-> compileStep(steps[i]) ])

CompileParsed(parsed, times) ==
  IF parsed.res = "ok" THEN CompileSteps(WithTimes(parsed.steps, times)) ELSE [res |-> parsed.res]

Compile(text, times) == CompileParsed(ParsePipeline(text), times)

OutputType(chain) == TypeAfter(chain, Len(chain))

\* Only the last step is asked for its columns.
ColumnOrder(chain) == IF Last(chain).name = "table" THEN Last(chain).fields ELSE << >>

\* A surrounding step keeps its events in the order they are in their file.
SortMode(chain) ==
  IF \E i \in DOMAIN chain : chain[i].name = "surrounding" THEN "argOrder" ELSE "timestampDesc"

-----------------------------------------------------------------------------
(* Steps: one batch                                                        *)

Result(events, rows) == [events |-> events, rows |-> rows]

ExtractFields(e) ==
  (<< "host" >> :> << e.host >>) @@ (<< "source" >> :> << e.source >>) @@ e.fields

\* What the loop over the fields comes to.  It takes them in any order and stops
\* at the first that is missing or does not match.
FieldsOutcomes(search, fields) ==
  LET keys  == DOMAIN search.Fields
      nil   == { k \in keys \cap DOMAIN fields : AnyNil(search.Fields[k]) }
      fails == { k \in keys \ nil : k \in DOMAIN fields => ~AnyMatch(search.Fields[k], fields[k]) }
  IN  (IF nil # {} THEN {"panic"} ELSE {}) \cup
      (IF fails # {} THEN {"out"} ELSE {}) \cup
      (IF nil \cup fails = {} THEN {"in"} ELSE {})

\* The other loop stops at the first field that matches, but also at the first
\* the event does not have, and what it has not looked at by then excludes nothing.
NotFieldsOutcomes(search, fields) ==
  LET keys    == DOMAIN search.NotFields
      missing == keys \ DOMAIN fields
      nil     == { k \in keys \ missing : AnyNil(search.NotFields[k]) }
      hit     == { k \in keys \ (missing \cup nil) : AnyMatch(search.NotFields[k], fields[k]) }
  IN  (IF nil # {} THEN {"panic"} ELSE {}) \cup
      (IF hit # {} THEN {"out"} ELSE {}) \cup
      (IF missing # {} \/ nil \cup hit = {} THEN {"in"} ELSE {})

\* What may become of an event.
shouldIncludeEvent(search, e) ==
  LET fields == ExtractFields(e)
      Both(a, b) == IF "panic" \in {a, b} THEN "panic" ELSE IF "out" \in {a, b} THEN "out" ELSE "in"
  IN  { Both(a, b) : a \in FieldsOutcomes(search, fields), b \in NotFieldsOutcomes(search, fields) }

\* What a search step may send for a page: events of files that are no longer
\* configured are passed over.
SearchResults(search, page) ==
  LET outcomes == [ i \in DOMAIN page |->
                      IF page[i].source \in Configured THEN shouldIncludeEvent(search, page[i])
                      ELSE {"out"} ]
      extracted == [ i \in DOMAIN page |-> [page[i] EXCEPT !.fields = ExtractFields(page[i])] ]
  IN  { Result(Picked(extracted, S), << >>) :
          S \in { T \in SUBSET DOMAIN page :
                    \A i \in DOMAIN page : (IF i \in T THEN "in" ELSE "out") \in outcomes[i] } }

SearchPanics(search, page) ==
  \E i \in DOMAIN page : page[i].source \in Configured /\ "panic" \in shouldIncludeEvent(search, page[i])

\* All values of the options must be the fields' values, to the letter.
Holds(args, fields, Name(_)) ==
  \A k \in DOMAIN args : (IF Name(k) \in DOMAIN fields THEN fields[Name(k)] ELSE << >>) = args[k]

WhereResult(args, r) ==
  Result(Picked(r.events, { i \in DOMAIN r.events : Holds(args, r.events[i].fields, Lower) }),
         Picked(r.rows, { i \in DOMAIN r.rows : Holds(args, r.rows[i], LAMBDA k : k) }))

TableResult(fields, r) ==
  Result(r.events,
         [ i \in DOMAIN r.events |->
             [ f \in Range(fields) |->
                 IF f \in DOMAIN r.events[i].fields THEN r.events[i].fields[f] ELSE << >> ] ])

\* Text without words is one word without letters: there are expressions that match it.
Looked(text) == IF text = << >> THEN << "" >> ELSE text

\* The words rex looks at, none if the event has no such field.
RexText(field, e) ==
  CASE field = << "_raw" >>   -> Looked(e.words)
    [] field = << "source" >> -> << e.source >>
    [] field = << "host" >>   -> << e.host >>
    [] OTHER -> IF field \in DOMAIN e.fields THEN Looked(e.fields[field]) ELSE << >>

\* All the names it finds, each with the value that is found last.
Found(rex, text) ==
  LET Having(name) == { i \in DOMAIN text : text[i] \in DOMAIN rex.finds /\ name \in DOMAIN rex.finds[text[i]] }
  IN  [ name \in UNION { DOMAIN rex.finds[w] : w \in Range(text) \cap DOMAIN rex.finds } |->
          rex.finds[text[Max(Having(name))]][name] ]

\* Fields with new ones written over them.
Merged(new, old) ==
  [ name \in DOMAIN new \cup DOMAIN old |-> IF name \in DOMAIN new THEN new[name] ELSE old[name] ]

RexResult(step, r) ==
  Result([ i \in DOMAIN r.events |->
             [r.events[i] EXCEPT !.fields = Merged(Found(step.rex, RexText(step.field, r.events[i])), @)] ],
         r.rows)

\* The place of an event whose file is not configured is taken by an empty event.
\* Its map of fields is nil: it can be read, and is empty, but not written to.
NoEvent == [id |-> 0, host |-> "", source |-> "", sourceId |-> "", time |-> 0, offset |-> 0,
            words |-> << >>, fields |-> << >>]

\* The parser rex makes has no logger, which it needs for groups it cannot use; and
\* what it has found is written to the event's map.
RexPanics(step, r) ==
  \E i \in DOMAIN r.events :
    LET text == RexText(step.field, r.events[i])
    IN  \/ step.rex.malformed /\ Range(text) \cap DOMAIN step.rex.finds # {}
        \/ r.events[i].id = NoEvent.id /\ DOMAIN Found(step.rex, text) # {}

StepResult(step, r) ==
  CASE step.name = "where" -> WhereResult(step.args, r)
    [] step.name = "table" -> TableResult(step.fields, r)
    [] step.name = "rex"   -> RexResult(step, r)

\* A surrounding step sends one batch.
SurroundingResult(events) ==
  Result([ i \in DOMAIN events |->
             IF events[i].source \in Configured THEN events[i] ELSE NoEvent ], << >>)

-----------------------------------------------------------------------------

\* gatherFieldStats, also ...FromTable: how often each field has each value.
gatherFieldStats(maps) ==
  [ p \in UNION { { << k, maps[i][k] >> : k \in DOMAIN maps[i] } : i \in DOMAIN maps } |->
      Cardinality({ i \in DOMAIN maps : p[1] \in DOMAIN maps[i] /\ maps[i][p[1]] = p[2] }) ]

=============================================================================
