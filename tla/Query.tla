------------------------------- MODULE Query -------------------------------
(***************************************************************************)
(* pkg/logsuck/parser: what the text of a search means to the program.     *)
(* The lexer is run twice over most of it: once over the whole text, which *)
(* splits it into steps, and once over the value of each search step.      *)
(*                                                                         *)
(* A text is a sequence of atoms: words, blanks, and the symbols below     *)
(* ("!=" is one atom, and "!" is one that is not followed by "=").  What a *)
(* token or an option holds is a piece of text again.                      *)
(***************************************************************************)
EXTENDS Naturals, Sequences, SequencesExt, Functions, TLC

CONSTANTS Lowered, \* strings.ToLower, for the words that have capitals
          Cut      \* words that end in a character of several bytes: what is left when
                   \* all but its first byte is cut off

Quote   == "\""
Escaped == "\\\""

LowerWord(w) == IF w \in DOMAIN Lowered THEN Lowered[w] ELSE w

Lower(text) == [ i \in DOMAIN text |-> LowerWord(text[i]) ]

CutWord(w) == IF w \in DOMAIN Cut THEN Cut[w] ELSE w

-----------------------------------------------------------------------------
(* Lexer                                                                   *)

Symbols ==
  [ c \in {" ", "=", "!=", "(", ")", "|", ","} |->
      CASE c = " " -> "whitespace" [] c = "=" -> "equals" [] c = "!=" -> "notequals"
        [] c = "(" -> "lparen"     [] c = ")" -> "rparen" [] c = "|"  -> "pipe"
        [] c = "," -> "comma" ]

Token(typ, value) == [typ |-> typ, value |-> value]

AddWord(s) ==
  IF s.word = << >> THEN s
  ELSE [s EXCEPT !.word = << >>,
          !.tokens = Append(@, Token(IF s.word \in {<< "IN" >>, << "NOT" >>} THEN "keyword" ELSE "string", s.word))]

\* What stands between two quotes: all up to the first byte of its last character.
\* Two quotes in a row are a string that consists of a quote.
Between(word) ==
  IF word = << >> THEN << Quote >> ELSE [word EXCEPT ![Len(word)] = CutWord(@)]

\* The next atom.  A quote opens a string unless a word has begun.
LexAtom(s, c) ==
  CASE s.open /\ c = Quote ->
         [s EXCEPT !.open = FALSE, !.word = << >>,
            !.tokens = Append(@, Token("quoted", Between(s.word)))]
    [] s.open /\ c # Quote ->
         [s EXCEPT !.word = Append(@, IF c = Escaped THEN Quote ELSE c)]
    [] ~s.open /\ c = Quote /\ s.word = << >> -> [s EXCEPT !.open = TRUE]
    [] ~s.open /\ c \in DOMAIN Symbols ->
         [AddWord(s) EXCEPT !.tokens = Append(@, Token(Symbols[c], << c >>))]
    [] OTHER -> [s EXCEPT !.word = Append(@, c)]

LexStart == [tokens |-> << >>, word |-> << >>, open |-> FALSE]

\* Fault: the lexer looks for "=" one character too early.
tokenizeWithoutNotEquals(text) ==
  IF "!" \in Range(text) \/ "!=" \in Range(text) THEN [res |-> "endless", tokens |-> << >>]
  ELSE [res |-> "error", tokens |-> << >>]

\* A lone "!" outside of quotes is a word of no length, over and over again; what
\* comes before it decides whether the lexer gets there.
tokenize(text) ==
  LET upTo[n \in 0 .. Len(text)] == IF n = 0 THEN LexStart ELSE LexAtom(upTo[n - 1], text[n])
      end == upTo[Len(text)]
  IN  CASE \E i \in DOMAIN text : text[i] = "!" /\ ~upTo[i - 1].open -> [res |-> "endless", tokens |-> << >>]
        [] end.open -> [res |-> "error", tokens |-> << >>]
        [] OTHER -> [res |-> "ok", tokens |-> AddWord(end).tokens]

-----------------------------------------------------------------------------
(* What both parsers use.  A parser that cannot go on fails as a whole.    *)

Peek(toks) == IF toks = << >> THEN "invalid" ELSE Head(toks).typ

IsString(toks) == Peek(toks) \in {"string", "quoted"}

IsKeyword(toks, word) == Peek(toks) = "keyword" /\ Head(toks).value = << word >>

SkipSpace(toks) ==
  LET first == SelectInSeq(toks, LAMBDA t : t.typ # "whitespace")
  IN  IF first = 0 THEN << >> ELSE SubSeq(toks, first, Len(toks))

\* The values of a list so far, and whether it goes on with what is left.
List(values, toks, more) == [ok |-> TRUE, values |-> values, rest |-> toks, more |-> more]

NoList == [ok |-> FALSE, values |-> {}, rest |-> << >>, more |-> FALSE]

NextItem(list) ==
  LET vs    == list.values \cup {Head(list.rest).value}
      after == SkipSpace(Tail(list.rest))
      next  == SkipSpace(Tail(after))
  IN  CASE Peek(after) = "rparen" -> List(vs, Tail(after), FALSE)
        [] Peek(after) = "comma" /\ IsString(next) -> List(vs, next, TRUE)
        [] OTHER -> NoList

\* As all loops here, it takes a token at least each time.
ListItems(toks) ==
  LET items[n \in 0 .. Len(toks)] ==
        IF n = 0 THEN List({}, toks, TRUE)
        ELSE LET list == items[n - 1] IN IF list.more THEN NextItem(list) ELSE list
  IN  items[Len(toks)]

parseParenList(toks) ==
  LET first == SkipSpace(Tail(toks))
  IN  CASE Peek(toks) # "lparen" -> NoList
        [] Peek(toks) = "lparen" /\ IsString(first) -> ListItems(first)
        [] Peek(toks) = "lparen" /\ Peek(first) = "rparen" -> List({}, Tail(first), FALSE)
        [] OTHER -> NoList

-----------------------------------------------------------------------------
(* Searches.  Fields has the values one of which a field must match, and   *)
(* NotFields those none of which it may.                                   *)

NoSearch == [res |-> "error"]

EmptySearch ==
  [res |-> "ok", Fragments |-> {}, NotFragments |-> {}, Fields |-> << >>, NotFields |-> << >>]

Values(map, key) == IF key \in DOMAIN map THEN map[key] ELSE {}

With(map, key, value) ==
  [ k \in DOMAIN map \cup {key} |-> IF k = key THEN value ELSE map[k] ]

Fragment(s, value) == [s EXCEPT !.Fragments = @ \cup {value}]
NotFragment(s, value) == [s EXCEPT !.NotFragments = @ \cup {value}]

\* A second clause for a field replaces the first ...
FieldIs(s, key, values) == [s EXCEPT !.Fields = With(@, key, values)]

\* Fault: here too.
FieldIsNotReplaces(s, key, values) == [s EXCEPT !.NotFields = With(@, key, values)]

\* ... but adds to those that exclude.
FieldIsNot(s, key, values) ==
  [s EXCEPT !.NotFields = With(@, key, Values(@, key) \cup values)]

Failed == [toks |-> << >>, s |-> NoSearch]

Clause(toks, s) == [toks |-> toks, s |-> s]

FieldList(s, toks, key, Op(_, _, _)) ==
  LET list == parseParenList(toks)
  IN  IF list.ok THEN Clause(list.rest, Op(s, key, list.values)) ELSE Failed

\* "word ..." where more than a blank may follow.
WordClause(word, toks, s) ==
  LET key    == Lower(word)
      value  == Tail(toks)
      next   == SkipSpace(toks)
      negated == SkipSpace(Tail(next))
      alone  == Clause(next, Fragment(s, word))
  IN  CASE Peek(toks) = "equals" ->
             IF IsString(value) THEN Clause(Tail(value), FieldIs(s, key, {Head(value).value})) ELSE Failed
        [] Peek(toks) = "notequals" ->
             IF IsString(value) THEN Clause(Tail(value), FieldIsNot(s, key, {Head(value).value})) ELSE Failed
        [] Peek(toks) = "whitespace" /\ IsKeyword(next, "IN") ->
             FieldList(s, negated, key, FieldIs)
        [] Peek(toks) = "whitespace" /\ IsKeyword(next, "NOT") /\ IsKeyword(negated, "IN") ->
             FieldList(s, SkipSpace(Tail(negated)), key, FieldIsNot)
        [] Peek(toks) = "whitespace" /\ IsKeyword(next, "NOT") /\ ~IsKeyword(negated, "IN") ->
             IF IsString(negated)
               THEN Clause(Tail(negated), NotFragment(Fragment(s, word), Head(negated).value))
               ELSE Failed
        [] OTHER -> alone

\* Symbols with no word before them, and IN, are passed over.
NextClause(toks, s) ==
  LET rest == Tail(toks)
  IN  CASE Peek(toks) = "string" -> WordClause(Head(toks).value, rest, s)
        [] Peek(toks) = "quoted" -> Clause(rest, Fragment(s, Head(toks).value))
        [] IsKeyword(toks, "NOT") ->
             IF IsString(SkipSpace(rest))
               THEN Clause(Tail(SkipSpace(rest)), NotFragment(s, Head(SkipSpace(rest)).value))
               ELSE Failed
        [] OTHER -> Clause(rest, s)

Clauses(toks) ==
  LET upTo[n \in 0 .. Len(toks)] ==
        IF n = 0 THEN Clause(toks, EmptySearch)
        ELSE LET c == upTo[n - 1] IN IF c.toks = << >> THEN c ELSE NextClause(c.toks, c.s)
  IN  upTo[Len(toks)].s

ParseSearch(text) ==
  LET lexed == tokenize(text)
  IN  IF lexed.res = "ok" THEN Clauses(lexed.tokens) ELSE [res |-> lexed.res]

-----------------------------------------------------------------------------
(* Pipelines                                                               *)

\* The options so far, and whether there may be more in what is left.
Opts(args, toks, more) == [ok |-> TRUE, args |-> args, rest |-> toks, more |-> more]

NoOptions == [ok |-> FALSE, args |-> << >>, rest |-> << >>, more |-> FALSE]

\* name=value; a name without "=" ends the options and is forgotten.
NextOption(opts) ==
  LET toks  == opts.rest
      after == SkipSpace(Tail(toks))
      value == SkipSpace(Tail(after))
  IN  CASE Peek(toks) # "string" -> Opts(opts.args, toks, FALSE)
        [] Peek(toks) = "string" /\ Peek(after) # "equals" -> Opts(opts.args, after, FALSE)
        [] Peek(toks) = "string" /\ Peek(after) = "equals" /\ IsString(value) ->
             Opts(With(opts.args, Head(toks).value, Head(value).value), SkipSpace(Tail(value)), TRUE)
        [] OTHER -> NoOptions

Options(toks) ==
  LET upTo[n \in 0 .. Len(toks)] ==
        IF n = 0 THEN Opts(<< >>, toks, TRUE)
        ELSE LET opts == upTo[n - 1] IN IF opts.more THEN NextOption(opts) ELSE opts
  IN  upTo[Len(toks)]

Text(toks) == FlattenSeq([ i \in DOMAIN toks |-> toks[i].value ])

\* A step and what is behind it.
NextStep(p) ==
  LET name == SkipSpace(Tail(SkipSpace(p.toks)))
      opts == Options(SkipSpace(Tail(name)))
      has  == IsString(opts.rest)
      step == [StepType |-> Head(name).value, Args |-> opts.args,
               Value |-> IF has THEN Head(opts.rest).value ELSE << >>]
  IN  IF Peek(SkipSpace(p.toks)) = "pipe" /\ Peek(name) = "string" /\ opts.ok
        THEN [res |-> "ok", steps |-> Append(p.steps, step),
              toks |-> IF has THEN Tail(opts.rest) ELSE opts.rest]
        ELSE [res |-> "error", steps |-> << >>, toks |-> << >>]

Steps(toks, first) ==
  LET upTo[n \in 0 .. Len(toks)] ==
        IF n = 0 THEN [res |-> "ok", steps |-> << first >>, toks |-> toks]
        ELSE LET p == upTo[n - 1] IN IF p.toks = << >> THEN p ELSE NextStep(p)
  IN  upTo[Len(toks)]

\* All up to the first pipe is the value of a search step: the values of its
\* tokens, from which the quotes are gone.
ParsePipeline(text) ==
  LET lexed == tokenize(text)
      toks  == lexed.tokens
      pipe  == SelectInSeq(toks, LAMBDA t : t.typ = "pipe")
      head  == IF pipe = 0 THEN Len(toks) ELSE pipe - 1
      first == [StepType |-> << "search" >>, Args |-> << >>, Value |-> Text(SubSeq(toks, 1, head))]
  IN  IF lexed.res = "ok" THEN Steps(SubSeq(toks, head + 1, Len(toks)), first)
      ELSE [res |-> lexed.res]

=============================================================================
