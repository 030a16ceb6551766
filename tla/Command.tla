------------------------------ MODULE Command ------------------------------
(***************************************************************************)
(* internal/app/command.go, verify.go, healthcheck.go, app.go (load) and   *)
(* internal/config/load.go: the commands of the program from their         *)
(* arguments to the end, several of them at a time, over one configuration *)
(* directory that somebody may change while they read it.                  *)
(*                                                                         *)
(* What a serving exporter does is modules Lifecycle, Router and           *)
(* Connection, what discover and capture do module Follow; here they may   *)
(* end at any time, well or not.  Which sources Validate accepts is module *)
(* Config, here a source is bad or not.  Reading a file, replacing what    *)
(* refers to the environment and decoding YAML is an outcome.              *)
(***************************************************************************)
EXTENDS Topics

CONSTANTS
  Process,    \* processes, one command each
  Line,       \* command lines
  Directory,  \* what the configuration directory may hold
  MaxEdits,   \* bound: how often it changes
  Topic,      \* the topics that are published
  Filter,     \* the filters a source may subscribe to
  MaxDepth    \* bound: the depths with which discover is looked at

(***************************************************************************)
(* A command line has a name, what becomes of its flags, how many          *)
(* arguments follow them, the first argument, the flags -depth, -count and *)
(* -for, and whether the directory is set in the environment.              *)
(*                                                                         *)
(* A directory has a main file and a sequence of source files.  Each has   *)
(* an outcome, read; the main file also the pattern of its sources, whether *)
(* a setting is missing or wrong, and where to listen, a source file a     *)
(* name and whether something is wrong with it.                            *)
(***************************************************************************)
ASSUME CommandAssumption ==
  /\ \A d \in Directory : d.files \in Seq(Range(d.files))
  /\ \A topic \in Topic : isTopic(topic)
  /\ \A filter \in Filter : isFilter(filter)

VARIABLES
  dir, edits,  \* the directory, and how often it changed
  line,        \* the command line of each process,
  stage,       \* where it is, or where it was when it ended,
  loads,       \* how many loads it has finished,
  main,        \* the main file as it read it,
  paths,       \* how many source files it will read,
  files,       \* the source files it has read,
  exit,        \* its exit code,
  since        \* and, for the properties only, edits when it began to load

vars == <<dir, edits, line, stage, loads, main, paths, files, exit, since>>

NoMain == [read |-> "not yet"]

Init ==
  /\ dir \in Directory /\ edits = 0
  /\ line \in [Process -> Line]
  /\ stage = [p \in Process |-> "arguments"]
  /\ loads = [p \in Process |-> 0]
  /\ main = [p \in Process |-> NoMain]
  /\ paths = [p \in Process |-> 0]
  /\ files = [p \in Process |-> <<>>]
  /\ exit = [p \in Process |-> "none"]
  /\ since = [p \in Process |-> 0]

Edit ==
  /\ edits < MaxEdits
  /\ dir' \in Directory \ {dir} /\ edits' = edits + 1
  /\ UNCHANGED <<line, stage, loads, main, paths, files, exit, since>>

at(p, where) == stage[p] = where /\ exit[p] = "none"

loadedSoFar == <<loads, main, paths, files, since>>
setting     == <<dir, edits, line>>

goesTo(p, where) == stage' = [stage EXCEPT ![p] = where] /\ UNCHANGED exit

ends(p, code) == exit' = [exit EXCEPT ![p] = code] /\ UNCHANGED stage

-----------------------------------------------------------------------------
(***************************************************************************)
(* Execute, dispatch, parse and the checks of the commands: what is wrong  *)
(* with the arguments.  Usage is written for an unknown command and for    *)
(* flags that do not parse, and only an error in writing it takes its      *)
(* place; -h is no error.                                                  *)
(***************************************************************************)
maxArgs(l) == IF l.name \in {"discover", "capture"} THEN 1 ELSE 0

known(l) ==
  l.name \in {"run", "verify", "healthcheck", "version", "discover", "capture"}

showsUsage(l) == ~known(l) \/ l.flags # "good"

badUse(l) ==
  \/ l.args > maxArgs(l)
  \/ l.name = "discover" /\ l.depth < 1
  \/ l.name = "capture" /\ l.first = <<>>
  \/ l.name \in {"discover", "capture"} /\ (l.count < 0 \/ l.window < 0)

ShowUsage(p) ==
  /\ at(p, "arguments") /\ showsUsage(line[p])
  /\ \/ ends(p, IF known(line[p]) /\ line[p].flags = "help" THEN "0" ELSE "2")
     \/ ends(p, "1")
  /\ UNCHANGED <<setting, loadedSoFar>>

BadUse(p) ==
  /\ at(p, "arguments") /\ ~showsUsage(line[p]) /\ badUse(line[p])
  /\ ends(p, "2")
  /\ UNCHANGED <<setting, loadedSoFar>>

goodUse(l) == ~showsUsage(l) /\ ~badUse(l)

Version(p) ==
  /\ at(p, "arguments") /\ goodUse(line[p]) /\ line[p].name = "version"
  /\ \E code \in {"0", "1"} : ends(p, code)
  /\ UNCHANGED <<setting, loadedSoFar>>

ConfigDir(p) ==
  /\ at(p, "arguments") /\ goodUse(line[p]) /\ line[p].name # "version"
  /\ IF line[p].env THEN goesTo(p, "main") ELSE ends(p, "1")
  /\ UNCHANGED <<setting, loadedSoFar>>

-----------------------------------------------------------------------------
(***************************************************************************)
(* Load: the main file, the paths its pattern matches, the source files.   *)
(* Each is read at a time of its own.                                      *)
(***************************************************************************)
ReadMain(p) ==
  /\ at(p, "main")
  /\ IF dir.main.read = "decoded" /\ dir.main.sources # ""
     THEN goesTo(p, "glob") ELSE ends(p, "1")
  /\ main' = [main EXCEPT ![p] = dir.main]
  /\ files' = [files EXCEPT ![p] = <<>>]
  /\ since' = [since EXCEPT ![p] = edits]
  /\ UNCHANGED <<setting, loads, paths>>

Glob(p) ==
  /\ at(p, "glob")
  /\ IF main[p].sources # "malformed" /\ dir.files # <<>>
     THEN goesTo(p, "files") ELSE ends(p, "1")
  /\ paths' = [paths EXCEPT ![p] = Len(dir.files)]
  /\ UNCHANGED <<setting, loads, main, files, since>>

next(p) == Len(files[p]) + 1

readable(p) == next(p) \in DOMAIN dir.files /\ dir.files[next(p)].read = "decoded"

ReadSource(p) ==
  /\ at(p, "files") /\ next(p) <= paths[p]
  /\ IF readable(p)
     THEN files' = [files EXCEPT ![p] = Append(@, dir.files[next(p)])] /\ UNCHANGED <<stage, exit>>
     ELSE ends(p, "1") /\ UNCHANGED files
  /\ UNCHANGED <<setting, loads, main, paths, since>>

\* Mutant: run validates its first load only.
acceptsFirst(p) ==
  \/ line[p].name = "healthcheck" \/ loads[p] = 1
  \/ ~main[p].bad /\ \A i \in DOMAIN files[p] : ~files[p][i].bad

\* Mutant: verify decodes the files and no more.
acceptsForVerify(p) ==
  \/ line[p].name \in {"healthcheck", "verify"}
  \/ ~main[p].bad /\ \A i \in DOMAIN files[p] : ~files[p][i].bad

(***************************************************************************)
(* Validate; healthcheck only loads.  That the metrics of several files    *)
(* must agree is left to Config.                                           *)
(***************************************************************************)
accepts(p) ==
  \/ line[p].name = "healthcheck"
  \/ /\ ~main[p].bad
     /\ \A i \in DOMAIN files[p] : ~files[p][i].bad
     /\ \A i, j \in DOMAIN files[p] : i # j => files[p][i].name # files[p][j].name

(***************************************************************************)
(* Command.run loads for the level of the log, which it keeps, and App.Run *)
(* loads again for everything else.                                        *)
(***************************************************************************)
after(p) ==
  CASE line[p].name = "run" -> IF loads[p] = 0 THEN "main" ELSE "listen"
    [] line[p].name = "verify" -> "report"
    [] line[p].name = "healthcheck" -> "probe"
    [] OTHER -> "following"

Loaded(p) ==
  /\ at(p, "files") /\ next(p) > paths[p]
  /\ IF accepts(p) THEN goesTo(p, after(p)) ELSE ends(p, "1")
  /\ loads' = [loads EXCEPT ![p] = @ + 1]
  /\ UNCHANGED <<setting, main, paths, files, since>>

-----------------------------------------------------------------------------
(***************************************************************************)
(* An address is a host, "" for all, and a port, 0 if it has none: then    *)
(* nothing can listen there.  The address ":0", for which the system picks *)
(* a port, is not among them.                                              *)
(***************************************************************************)
serves(p) == at(p, "serving")

reaches(host, port, p) ==
  LET listen == main[p].listen IN port = listen.port /\ listen.host \in {"", host}

usable(p) ==
  LET mine == main[p].listen
      taken == {main[q].listen : q \in {r \in Process : serves(r)}}
  IN  /\ mine.port # 0
      /\ \A other \in taken :
           mine.port = other.port => "" \notin {mine.host, other.host} /\ mine.host # other.host

Listen(p) ==
  /\ at(p, "listen")
  /\ IF usable(p) THEN goesTo(p, "serving") ELSE ends(p, "1")
  /\ UNCHANGED <<setting, loadedSoFar>>

(***************************************************************************)
(* Verify: compileSources has nothing left to refuse, and writing the      *)
(* report may fail.  The other two end as Lifecycle and Follow say.        *)
(***************************************************************************)
Ends(p) ==
  /\ at(p, "report") \/ at(p, "serving") \/ at(p, "following")
  /\ \E code \in {"0", "1"} : ends(p, code)
  /\ UNCHANGED <<setting, loadedSoFar>>

\* Mutant: what cannot be split into host and port and what can are mixed up.
healthURLDefault(listen) ==
  [host |-> IF listen.host = "" \/ listen.port = 0 THEN "127.0.0.1" ELSE listen.host,
   port |-> IF listen.host = "" \/ listen.port = 0 THEN 9000 ELSE listen.port]

healthURL(listen) ==
  [host |-> IF listen.host = "" \/ listen.port = 0 THEN "127.0.0.1" ELSE listen.host,
   port |-> IF listen.port = 0 THEN 9000 ELSE listen.port]

(***************************************************************************)
(* The request is answered in time if a server of this program hears it.   *)
(***************************************************************************)
Probe(p) ==
  /\ at(p, "probe")
  /\ LET url == healthURL(main[p].listen)
     IN  ends(p, IF \E q \in Process : serves(q) /\ reaches(url.host, url.port, q)
                 THEN "0" ELSE "1")
  /\ UNCHANGED <<setting, loadedSoFar>>

Step(p) ==
  \/ ShowUsage(p) \/ BadUse(p) \/ Version(p) \/ ConfigDir(p)
  \/ ReadMain(p) \/ Glob(p) \/ ReadSource(p) \/ Loaded(p)
  \/ Listen(p) \/ Ends(p) \/ Probe(p)

Next == Edit \/ \E p \in Process : Step(p)

Spec == Init /\ [][Next]_vars

-----------------------------------------------------------------------------
sound(p) ==
  /\ ~main[p].bad
  /\ \A i \in DOMAIN files[p] : ~files[p][i].bad
  /\ Cardinality({files[p][i].name : i \in DOMAIN files[p]}) = paths[p]

(***************************************************************************)
(* What the exporter, discover and capture work with was validated as it   *)
(* is, though the exporter reads the directory twice, file by file, and    *)
(* somebody may change it after the first time or between two files.       *)
(***************************************************************************)
WorksWithAccepted ==
  \A p \in Process : stage[p] \in {"listen", "serving", "following"} => sound(p)

(***************************************************************************)
(* README.md: "Verify it, then restart the container."  As long as nobody  *)
(* changes the directory, verify gets through its load exactly if the      *)
(* exporter, discover and capture do, and then healthcheck does too.       *)
(***************************************************************************)
loading(p) == stage[p] \in {"main", "glob", "files"}
refused(p) == loading(p) /\ exit[p] = "1"
through(p) == ~loading(p) /\ stage[p] # "arguments"

VerifyPredicts ==
  \A p, q \in Process :
    line[p].name = "verify" /\ since[p] = edits /\ since[q] = edits =>
      /\ through(p) => ~refused(q)
      /\ refused(p) /\ line[q].name # "healthcheck" => ~through(q)

(***************************************************************************)
(* Beside an exporter whose directory nobody changed, a healthcheck finds  *)
(* it, at whatever address it listens, and discover and capture use a      *)
(* client id of their own, without which the broker would cut it off.      *)
(***************************************************************************)
suffix(p) ==
  CASE line[p].name = "discover" -> "-discover"
    [] line[p].name = "capture" -> "-capture"
    [] OTHER -> ""

beside(p, q) == serves(q) /\ since[p] = edits /\ since[q] = edits

ExporterUndisturbed ==
  [][\A p, q \in Process : beside(p, q) =>
       /\ at(p, "probe") /\ exit'[p] # "none" => exit'[p] = "0"
       /\ at(p, "following") => suffix(p) # suffix(q)]_vars

(***************************************************************************)
(* A serving exporter hands every message to the source that subscribed to *)
(* it, except as HandedToItsSource says, whatever its filters.             *)
(***************************************************************************)
allHanded == \A filter \in Filter, topic \in Topic : HandedToItsSource(filter, topic)

SourcesGetTheirs == \A p \in Process : serves(p) => allHanded

(***************************************************************************)
(* What a running discover prints can be typed again, LeadsBack, whatever  *)
(* topics it hears of and whatever its depth.                              *)
(***************************************************************************)
allLeadBack == \A topic \in Topic, depth \in 1 .. MaxDepth : LeadsBack(topic, depth, Topic)

discovering(p) == at(p, "following") /\ line[p].name = "discover"

DiscoverLeadsBack == \A p \in Process : discovering(p) => allLeadBack
=============================================================================
