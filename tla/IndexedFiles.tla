---------------------------- MODULE IndexedFiles ----------------------------
(***************************************************************************)
(* pkg/logsuck/indexedfiles: which files a configuration makes a host      *)
(* read, and how.  A file is read the way its file types, merged with the  *)
(* DEFAULT file type, say.                                                 *)
(***************************************************************************)
EXTENDS ConfigJson

NoParser == [kind |-> "none", delimiter |-> "nil", timeField |-> "", extractors |-> << >>]

\* What mergeConfigs has gathered: the parser of each kind, {} while nil.
Unmerged ==
  [timeLayout |-> "", readInterval |-> "1s", JSON |-> {}, Regex |-> {}, conflict |-> FALSE]

EmptyOf(kind) == [NoParser EXCEPT !.kind = kind]

\* A file type of its own overrides the delimiter and the time field merged so
\* far, the DEFAULT type only fills them in.
Absorb(merged, ft) ==
  [kind |-> merged.kind,
   delimiter |-> IF merged.delimiter = "nil" \/ ft.name # DEFAULT THEN ft.parser.delimiter
                 ELSE merged.delimiter,
   timeField |-> IF merged.timeField = "" \/ ft.name # DEFAULT THEN ft.parser.timeField
                 ELSE merged.timeField,
   extractors |-> merged.extractors \o ft.parser.extractors]

\* Fault: the DEFAULT type conflicts like any other.
MergeTypeStrictly(m, ft) ==
  LET kind  == ft.parser.kind
      other == IF kind = "JSON" THEN m.Regex ELSE m.JSON
      mine  == Or(m[kind], EmptyOf(kind))
  IN  [m EXCEPT !.timeLayout = IF @ = "" THEN ft.timeLayout ELSE @,
                !.readInterval = ft.readInterval,
                ![kind] = {Absorb(mine, ft)},
                !.conflict = @ \/ other # {}]

\* One turn of the loop of mergeConfigs.  The layout is that of the first file
\* type, the interval that of the last one: a pointer to the loop's variable is
\* kept, of which there is one in Go 1.21.  A parser of the other kind is passed over if it is
\* DEFAULT's, but an empty one of its kind has been made by then.  Comparing
\* with a nil delimiter is fatal in the way a conflict is, as both end in a nil pointer.
MergeType(m, ft) ==
  LET kind  == ft.parser.kind
      other == IF kind = "JSON" THEN m.Regex ELSE m.JSON
      mine  == Or(m[kind], EmptyOf(kind))
      fatal == ft.name # DEFAULT
                 /\ (other # {} \/ (mine.delimiter # "nil" /\ ft.parser.delimiter = "nil"))
  IN  [m EXCEPT !.timeLayout = IF @ = "" THEN ft.timeLayout ELSE @,
                !.readInterval = ft.readInterval,
                ![kind] = {IF other = {} THEN Absorb(mine, ft) ELSE mine},
                !.conflict = @ \/ fatal]

mergeConfigs(filename, fileTypes) ==
  LET merged[n \in 0 .. Len(fileTypes)] ==
        IF n = 0 THEN Unmerged ELSE MergeType(merged[n - 1], fileTypes[n])
      m == merged[Len(fileTypes)]
  IN  [filename |-> filename,
       timeLayout |-> IF m.timeLayout = "" THEN "standard" ELSE m.timeLayout,
       readInterval |-> m.readInterval,
       parser |-> Or(m.JSON, Or(m.Regex, NoParser)),
       conflict |-> m.conflict]

\* The file types of file f that exist, DEFAULT after its own.
TypesOf(c, f) ==
  LET names == Chosen(c.files[f].fileTypes \o << DEFAULT >>, DOMAIN c.fileTypes)
  IN  [ i \in DOMAIN names |-> c.fileTypes[names[i]] ]

HostFiles(c, hostType) ==
  IF hostType \in DOMAIN c.hostTypes THEN c.hostTypes[hostType].files ELSE << >>

\* ReadFileConfig: the files of the configuration's host type, then those of
\* DEFAULT; files without a configuration are ignored.
ReadFileConfig(c) ==
  LET names == Chosen(HostFiles(c, c.hostType) \o HostFiles(c, DEFAULT), DOMAIN c.files)
  IN  [ i \in DOMAIN names |-> mergeConfigs(names[i], TypesOf(c, names[i])) ]

=============================================================================
