----------------------------- MODULE ConfigJson -----------------------------
(***************************************************************************)
(* pkg/logsuck/config: a configuration as a JSON document, and as the      *)
(* Config the program runs on.  Config files, the GUI, the Config table    *)
(* and the forwarders all exchange documents, so each configuration goes   *)
(* through FromJSON and ToJSON several times before it is used.            *)
(*                                                                         *)
(* A key that a document may lack is a set: {} when absent, {v} for v.     *)
(* Maps are functions; values that are only passed on (time layouts,       *)
(* delimiters, extractors, plugin settings) are short names.               *)
(***************************************************************************)
EXTENDS Naturals, Sequences, SequencesExt, Functions

DEFAULT == "DEFAULT"

IsList(list) == list \in Seq(Range(list))

\* Those entries of a list that are in S.
Chosen(list, S) ==
  LET chosen[n \in 0 .. Len(list)] ==
        IF n = 0 THEN << >>
        ELSE IF list[n] \in S THEN Append(chosen[n - 1], list[n]) ELSE chosen[n - 1]
  IN  chosen[Len(list)]

\* What is in an optional key, or what stands for it.
Or(option, default) ==
  IF option = {} THEN default ELSE CHOOSE v \in option : TRUE

\* The last entry of a list wins, as when it is put in a map entry by entry.
ByName(list) ==
  [ n \in { list[i].name : i \in DOMAIN list } |->
      list[SelectLastInSeq(list, LAMBDA e : e.name = n)] ]

-----------------------------------------------------------------------------
(* Durations and file types                                                *)

\* time.ParseDuration reads "0s", "1s" and "1m", not "soon"; "" is no key.
Parses(duration) == duration # "soon"

DefaultParser ==
  [kind |-> "Regex", delimiter |-> "newline", timeField |-> "_time",
   extractors |-> << "keyvalue", "date" >>]

DefaultFileType ==
  [name |-> DEFAULT, timeLayout |-> "standard", readInterval |-> "1s",
   parser |-> DefaultParser]

\* FileTypeConfigFromJSON gives up on the whole document for one of these.  An
\* invalid delimiter of a JSON parser is only logged.
RejectedFileType(ft) ==
  \/ ~Parses(ft.readInterval)
  \/ \E p \in ft.parser :
       \/ p.kind \notin {"JSON", "Regex"}
       \/ p.config = {}
       \/ p.kind = "Regex" /\ \E c \in p.config : c.delimiter = "invalid"

\* The parser of a file type, its regular expressions compiled.
CompiledParser(p) ==
  LET c == Or(p.config, {})
  IN  [kind |-> p.kind,
       delimiter |-> IF c.delimiter = "invalid" THEN "nil" ELSE c.delimiter,
       timeField |-> IF p.kind = "Regex" /\ c.timeField = "" THEN "_time"
                     ELSE c.timeField,
       extractors |-> Chosen(c.extractors, Range(c.extractors) \ {"invalid"})]

FileTypeFromJSON(ft) ==
  [name |-> ft.name, timeLayout |-> ft.timeLayout,
   readInterval |-> IF ft.readInterval = "" THEN "1s" ELSE ft.readInterval,
   parser |-> IF ft.parser = {} THEN DefaultParser
              ELSE CompiledParser(Or(ft.parser, {}))]

\* Fault: no file type stands in for a missing DEFAULT.
FileTypesAsListed(list) ==
  LET listed == ByName(list)
  IN  [ n \in DOMAIN listed |-> FileTypeFromJSON(listed[n]) ]

FileTypesFromJSON(list) ==
  LET listed == ByName(list)
  IN  [ n \in DOMAIN listed \cup {DEFAULT} |->
          IF n \in DOMAIN listed THEN FileTypeFromJSON(listed[n])
          ELSE DefaultFileType ]

-----------------------------------------------------------------------------
(* Documents to configurations.  Of the sections that are only read from   *)
(* the static configuration the keys are kept that others depend on.       *)

DefaultForwarder == [enabled |-> FALSE, configPollInterval |-> "1m"]
DefaultRecipient == [enabled |-> FALSE]

\* The packaged defaultConfig.Web: FromJSON itself changes it, see DefaultWebAfter.
DefaultWeb == [enabled |-> TRUE]

Filled(section, defaults) ==
  [ key \in DOMAIN defaults |-> Or(section[key], defaults[key]) ]

ForwarderFromJSON(doc) ==
  IF doc.forwarder = {} THEN DefaultForwarder
  ELSE LET f == Filled(Or(doc.forwarder, {}), DefaultForwarder)
       IN  IF Parses(f.configPollInterval) THEN f
           ELSE [f EXCEPT !.configPollInterval = "1m"]

RecipientFromJSON(doc) ==
  IF doc.recipient = {} THEN DefaultRecipient
  ELSE Filled(Or(doc.recipient, {}), DefaultRecipient)

\* Without a web section the default of the process is used, and switched off
\* in place when this document makes the process a forwarder.
DefaultWebAfter(doc, defaultWeb) ==
  IF doc.web = {} /\ ForwarderFromJSON(doc).enabled THEN [enabled |-> FALSE]
  ELSE defaultWeb

WebFromJSON(doc, defaultWeb) ==
  IF doc.web = {} THEN DefaultWebAfter(doc, defaultWeb)
  ELSE Filled(Or(doc.web, {}), [enabled |-> ~ForwarderFromJSON(doc).enabled])

\* A task whose interval cannot be parsed is disabled.
TaskFromJSON(task) ==
  IF Parses(task.interval) THEN task
  ELSE [task EXCEPT !.enabled = FALSE, !.interval = "0s"]

CorePlugins == {"sqlite_common", "sqlite_events"}

\* Lists are lists, tasks have their keys, and the core plugins have their settings
\* at the top level: the schema has no place for them among the plugins.
IsDocument(doc) ==
  /\ IsList(doc.files) /\ \A f \in Range(doc.files) : IsList(f.fileTypes)
  /\ IsList(doc.hostTypes) /\ \A h \in Range(doc.hostTypes) : IsList(h.files)
  /\ IsList(doc.fileTypes)
  /\ \A ft \in Range(doc.fileTypes) : \A p \in ft.parser : \A c \in p.config : IsList(c.extractors)
  /\ \A t \in DOMAIN doc.tasks : {"enabled", "interval"} \subseteq DOMAIN doc.tasks[t]
  /\ \A ps \in doc.plugins : ps \in [DOMAIN ps \ CorePlugins -> Range(ps)]

PluginsFromJSON(doc) ==
  IF doc.sqlite = {} THEN doc.plugins
  ELSE { [ p \in DOMAIN Or(doc.plugins, << >>) \cup CorePlugins |->
             IF p \in CorePlugins THEN Or(doc.sqlite, {})
             ELSE Or(doc.plugins, << >>)[p] ] }

\* FromJSON returns an error ...
Rejects(doc) == \E i \in DOMAIN doc.fileTypes : RejectedFileType(doc.fileTypes[i])

\* ... or assigns to an entry of a nil map ...
PanicsReading(doc) == ~Rejects(doc) /\ doc.plugins = {} /\ doc.sqlite # {}

\* ... or returns this.
FromJSON(doc, defaultWeb) ==
  [force     |-> doc.force,
   hostType  |-> IF doc.hostType = "" THEN DEFAULT ELSE doc.hostType,
   forwarder |-> ForwarderFromJSON(doc),
   recipient |-> RecipientFromJSON(doc),
   web       |-> WebFromJSON(doc, defaultWeb),
   files     |-> ByName(doc.files),
   fileTypes |-> FileTypesFromJSON(doc.fileTypes),
   hostTypes |-> ByName(doc.hostTypes),
   tasks     |-> [ t \in DOMAIN doc.tasks |-> TaskFromJSON(doc.tasks[t]) ],
   plugins   |-> PluginsFromJSON(doc)]

\* Without a configuration file the process goes by its command line: all files
\* named there are of the DEFAULT type the flags describe.
FromFlags(flags) ==
  [force     |-> FALSE,
   hostType  |-> DEFAULT,
   forwarder |-> [DefaultForwarder EXCEPT !.enabled = flags.forwarder # ""],
   recipient |-> [enabled |-> flags.recipient # ""],
   web       |-> [enabled |-> flags.forwarder = ""],
   files     |-> [ f \in Range(flags.files) |-> [name |-> f, fileTypes |-> << DEFAULT >>] ],
   fileTypes |-> [ n \in {DEFAULT} |->
                     [DefaultFileType EXCEPT !.parser =
                        [kind |-> IF flags.json THEN "JSON" ELSE "Regex",
                         delimiter |-> flags.delimiter, timeField |-> "_time",
                         extractors |-> IF flags.json THEN << >> ELSE flags.extractors]] ],
   hostTypes |-> [ n \in {DEFAULT} |-> [name |-> DEFAULT, files |-> flags.files] ],
   tasks     |-> << >>,
   plugins   |-> {[sqlite_common |-> flags.database]}]

-----------------------------------------------------------------------------
(* Configurations to documents                                             *)

\* The delimiter of a JSON parser is the one that may be nil.
PanicsWriting(c) == \E n \in DOMAIN c.fileTypes : c.fileTypes[n].parser.delimiter = "nil"

FileTypeToJSON(ft) ==
  LET p == ft.parser
  IN  [ft EXCEPT !.parser =
         {[kind |-> p.kind,
           config |-> {[delimiter |-> p.delimiter, timeField |-> p.timeField,
                        extractors |-> p.extractors]}]}]

\* A map becomes a list, in any order: no two entries have one name.
AsList(map) == SetToSeq(Range(map))

Present(section) == { [ key \in DOMAIN section |-> {section[key]} ] }

\* Fault: the list of host types is left out.
ToJSONWithoutHostTypes(c) ==
  [force |-> c.force, hostType |-> c.hostType, forwarder |-> Present(c.forwarder),
   recipient |-> Present(c.recipient), web |-> Present(c.web),
   files |-> AsList(c.files),
   fileTypes |-> AsList([ n \in DOMAIN c.fileTypes |-> FileTypeToJSON(c.fileTypes[n]) ]),
   hostTypes |-> << >>, tasks |-> c.tasks, plugins |-> c.plugins, sqlite |-> {}]

ToJSON(c) ==
  LET core == { p \in CorePlugins : \E ps \in c.plugins : p \in DOMAIN ps }
  IN  [force     |-> c.force,
       hostType  |-> c.hostType,
       forwarder |-> Present(c.forwarder),
       recipient |-> Present(c.recipient),
       web       |-> Present(c.web),
       files     |-> AsList(c.files),
       fileTypes |-> AsList([ n \in DOMAIN c.fileTypes |-> FileTypeToJSON(c.fileTypes[n]) ]),
       hostTypes |-> AsList(c.hostTypes),
       tasks     |-> c.tasks,
       plugins   |-> { Restrict(ps, DOMAIN ps \ CorePlugins) : ps \in c.plugins },
       sqlite    |-> { Or(c.plugins, << >>)[p] : p \in core }]

\* What ToJSON leaves of the configuration it was given: it takes the core
\* plugins out of the map itself.
AfterToJSON(c) ==
  [c EXCEPT !.plugins = { Restrict(ps, DOMAIN ps \ CorePlugins) : ps \in @ }]

=============================================================================
