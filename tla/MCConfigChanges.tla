-------------------------- MODULE MCConfigChanges --------------------------
(***************************************************************************)
(* Documents for ConfigChanges: one per way a configuration can go right   *)
(* or wrong.                                                               *)
(***************************************************************************)
EXTENDS ConfigChanges

Types(kind, delimiter) ==
  {[kind |-> kind, config |-> {[delimiter |-> delimiter, timeField |-> "", extractors |-> << >>]}]}

FileType(name, parser) ==
  [name |-> name, timeLayout |-> "standard", readInterval |-> "", parser |-> parser]

File(name, types) == [name |-> name, fileTypes |-> types]

HostType(name, names) == [name |-> name, files |-> names]

\* One file, f, of type "text".
OneFile ==
  [force |-> FALSE, hostType |-> "", forwarder |-> {}, recipient |-> {}, web |-> {},
   files |-> << File("f", << "text" >>) >>,
   fileTypes |-> << FileType("text", Types("Regex", "newline")) >>,
   hostTypes |-> << HostType(DEFAULT, << "f" >>) >>,
   tasks |-> [t |-> [enabled |-> TRUE, interval |-> "soon"]],
   plugins |-> {[steps |-> "s"]}, sqlite |-> {}]

\* g of a host type, f of DEFAULT; plugins are not mentioned.  The interval of
\* type json is not used, since DEFAULT has one too.
TwoHostTypes ==
  [OneFile EXCEPT !.hostType = "web", !.plugins = {},
     !.files = << File("f", << "json" >>), File("g", << "text" >>) >>,
     !.fileTypes = << [FileType("json", Types("JSON", "newline")) EXCEPT !.readInterval = "0s"],
                      FileType("text", Types("Regex", "newline")) >>,
     !.hostTypes = << HostType("web", << "g" >>), HostType(DEFAULT, << "f", "h" >>) >>]

\* f is read as JSON and as text.
Conflict ==
  [TwoHostTypes EXCEPT !.files = << File("f", << "json", "text" >>) >>]

\* The type of f is text, DEFAULT is JSON.
JsonDefault ==
  [OneFile EXCEPT !.fileTypes = @ \o << FileType(DEFAULT, Types("JSON", "newline")) >>]

\* A JSON parser with a delimiter that does not compile.
InvalidDelimiter ==
  [OneFile EXCEPT !.fileTypes = << FileType("text", Types("JSON", "invalid")) >>]

\* No files; a task and a forwarder that wait for nothing.
NoFiles ==
  [OneFile EXCEPT !.hostTypes = << >>,
     !.tasks = [t |-> [enabled |-> TRUE, interval |-> "0s"]],
     !.forwarder = {[enabled |-> {TRUE}, configPollInterval |-> {"0s"}]}]

NoPlugins == [OneFile EXCEPT !.plugins = {}, !.sqlite = {"s"}]

MCStatic == [OneFile EXCEPT !.sqlite = {"s"}, !.fileTypes = << >>]

MCFlags ==
  [forwarder |-> "", recipient |-> "", files |-> << "f", "g" >>, json |-> TRUE,
   delimiter |-> "newline", extractors |-> << >>, database |-> "file"]

\* Files are read without a pause.
Hasty ==
  [OneFile EXCEPT !.fileTypes =
     << [FileType(DEFAULT, Types("Regex", "newline")) EXCEPT !.readInterval = "0s"] >>]

\* The GUI is closed from then on.
Forced == [OneFile EXCEPT !.force = TRUE]

MCPosts ==
  [static |-> << {TwoHostTypes} >>,
   local |-> << {OneFile, TwoHostTypes, Conflict, JsonDefault, InvalidDelimiter, NoFiles,
                 NoPlugins, Hasty, Forced}, {OneFile} >>,
   forwarder |-> << {TwoHostTypes, Conflict, NoFiles} >>]

=============================================================================
