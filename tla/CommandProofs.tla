--------------------------- MODULE CommandProofs ---------------------------
(***************************************************************************)
(* Theorems about Command for any number of processes, command lines and   *)
(* configuration directories, and any number of changes to them.           *)
(***************************************************************************)
EXTENDS Command, TLAPS, FiniteSetTheorems, SequenceTheorems, NaturalsInduction,
        WellFoundedInduction

File == UNION {Range(d.files) : d \in Directory}

(***************************************************************************)
(* The inductive invariant, process by process.  First what has the type   *)
(* it should have, and which commands come to which stage.                 *)
(***************************************************************************)
Typed(p) ==
  /\ files[p] \in Seq(File) /\ paths[p] \in Nat
  /\ since[p] \in Nat /\ since[p] <= edits
  /\ stage[p] \in {"arguments", "main", "glob", "files", "listen", "serving",
                   "report", "probe", "following"}

Command(p) ==
  /\ stage[p] # "arguments" => known(line[p]) /\ line[p].name # "version"
  /\ stage[p] \in {"listen", "serving"} => line[p].name = "run"
  /\ stage[p] = "report" => line[p].name = "verify"
  /\ stage[p] = "probe" => line[p].name = "healthcheck"
  /\ stage[p] = "following" => line[p].name \notin {"run", "verify", "healthcheck"}

(***************************************************************************)
(* Load reads as many files as its pattern matched, and what it returned   *)
(* to these commands Validate has accepted.                                *)
(***************************************************************************)
Reading(p) ==
  /\ stage[p] = "glob" => files[p] = <<>>
  /\ stage[p] = "files" => Len(files[p]) <= paths[p]

Accepted(p) ==
  /\ stage[p] \in {"listen", "serving", "following"} =>
       /\ Len(files[p]) = paths[p]
       /\ ~main[p].bad
       /\ \A i \in DOMAIN files[p] : ~files[p][i].bad
       /\ \A i, j \in DOMAIN files[p] : i # j => files[p][i].name # files[p][j].name
  /\ stage[p] = "serving" => main[p].listen.port # 0

(***************************************************************************)
(* What Load and Validate make of a directory that nobody changes.         *)
(***************************************************************************)
mainLoads(d) == d.main.read = "decoded" /\ d.main.sources # ""
globs(d)     == d.main.sources # "malformed" /\ d.files # <<>>
loadable(d)  == mainLoads(d) /\ globs(d) /\ \A i \in DOMAIN d.files : d.files[i].read = "decoded"
valid(d) ==
  /\ ~d.main.bad
  /\ \A i \in DOMAIN d.files : ~d.files[i].bad
  /\ \A i, j \in DOMAIN d.files : i # j => d.files[i].name # d.files[j].name

(***************************************************************************)
(* How far a process whose directory is still the one it began to load has *)
(* come with it, and why it ended if it did.                               *)
(***************************************************************************)
prefix(p) ==
  /\ paths[p] = Len(dir.files)
  /\ Len(files[p]) <= Len(dir.files)
  /\ \A i \in 1 .. Len(files[p]) : files[p][i] = dir.files[i] /\ dir.files[i].read = "decoded"

UpToDate(p) ==
  since[p] = edits =>
    /\ stage[p] = "main" /\ exit[p] # "none" => ~mainLoads(dir)
    /\ stage[p] = "glob" =>
         /\ main[p] = dir.main /\ mainLoads(dir)
         /\ exit[p] # "none" => ~globs(dir)
    /\ stage[p] = "files" =>
         /\ main[p] = dir.main /\ mainLoads(dir) /\ globs(dir) /\ prefix(p)
         /\ exit[p] # "none" /\ loadable(dir) =>
              line[p].name # "healthcheck" /\ ~valid(dir)
    /\ through(p) =>
         /\ stage[p] # "main"
         /\ main[p] = dir.main /\ loadable(dir)
         /\ line[p].name # "healthcheck" => valid(dir)

Works(p) == Typed(p) /\ Command(p) /\ Reading(p) /\ Accepted(p) /\ UpToDate(p)

Functions ==
  /\ dir \in Directory /\ edits \in Nat
  /\ DOMAIN stage = Process /\ DOMAIN exit = Process /\ DOMAIN main = Process
  /\ DOMAIN paths = Process /\ DOMAIN files = Process /\ DOMAIN since = Process
  /\ DOMAIN loads = Process

Inv == Functions /\ \A p \in Process : Works(p)

-----------------------------------------------------------------------------
(***************************************************************************)
(* The files of a directory are files.                                     *)
(***************************************************************************)
LEMMA DirectoryFiles ==
  ASSUME NEW d \in Directory
  PROVE  /\ d.files \in Seq(File)
         /\ \A i \in DOMAIN d.files : d.files[i] \in File
         /\ d.files # <<>> <=> Len(d.files) # 0
<1>1. d.files \in Seq(Range(d.files))
  BY CommandAssumption
<1>2. Range(d.files) \subseteq File
  BY DEF File
<1>3. \A i \in DOMAIN d.files : d.files[i] \in Range(d.files)
  BY DEF Range
<1> DEFINE f == d.files
<1>4. f \in Seq(Range(f))
  BY <1>1
<1>5. f # <<>> <=> Len(f) # 0
  <2> DEFINE S == Range(f)
  <2>1. f \in Seq(S)
    BY <1>4
  <2> HIDE DEF f, S
  <2> QED BY <2>1
<1>6. f \in Seq(File)
  <2> DEFINE S == Range(f)
  <2>1. f \in Seq(S) /\ S \subseteq File
    BY <1>4, <1>2
  <2> HIDE DEF f, S
  <2> QED BY <2>1
<1> QED BY <1>2, <1>3, <1>5, <1>6

(***************************************************************************)
(* A process changes what is its own, and not the directory.               *)
(***************************************************************************)
LEMMA OthersKeep ==
  ASSUME Functions, NEW p \in Process, Step(p)
  PROVE  /\ UNCHANGED <<dir, edits, line>> /\ Functions'
         /\ \A q \in Process \ {p} :
              /\ stage'[q] = stage[q] /\ exit'[q] = exit[q] /\ main'[q] = main[q]
              /\ paths'[q] = paths[q] /\ files'[q] = files[q] /\ since'[q] = since[q]
<1> USE DEF Functions, setting, loadedSoFar, goesTo, ends
<1>1. CASE ShowUsage(p)
  BY <1>1 DEF ShowUsage
<1>2. CASE BadUse(p)
  BY <1>2 DEF BadUse
<1>3. CASE Version(p)
  BY <1>3 DEF Version
<1>4. CASE ConfigDir(p)
  BY <1>4 DEF ConfigDir
<1>5. CASE ReadMain(p)
  BY <1>5 DEF ReadMain
<1>6. CASE Glob(p)
  BY <1>6 DEF Glob
<1>7. CASE ReadSource(p)
  BY <1>7 DEF ReadSource
<1>8. CASE Loaded(p)
  BY <1>8 DEF Loaded
<1>9. CASE Listen(p)
  BY <1>9 DEF Listen
<1>10. CASE Ends(p)
  BY <1>10 DEF Ends
<1>11. CASE Probe(p)
  BY <1>11 DEF Probe
<1> QED BY <1>1, <1>2, <1>3, <1>4, <1>5, <1>6, <1>7, <1>8, <1>9, <1>10, <1>11 DEF Step

(***************************************************************************)
(* What is known of a process only speaks of what is its own, and of the   *)
(* directory as long as nobody changes it.                                 *)
(***************************************************************************)
LEMMA WorksStays ==
  ASSUME NEW q \in Process, Works(q),
         line' = line, stage'[q] = stage[q], main'[q] = main[q], paths'[q] = paths[q],
         files'[q] = files[q], since'[q] = since[q], edits \in Nat,
         \/ dir' = dir /\ edits' = edits /\ exit'[q] = exit[q]
         \/ edits' = edits + 1
  PROVE  Works(q)'
<1>1. Typed(q)'
  BY DEF Works, Typed
<1>2. Command(q)' /\ Reading(q)' /\ Accepted(q)'
  BY DEF Works, Command, Reading, Accepted
<1>3. UpToDate(q)'
  <2>1. CASE dir' = dir /\ edits' = edits /\ exit'[q] = exit[q]
    BY <2>1 DEF Works, UpToDate, prefix, through, loading
  <2>2. CASE edits' = edits + 1
    BY <2>2 DEF Works, Typed, UpToDate
  <2> QED BY <2>1, <2>2
<1> QED BY <1>1, <1>2, <1>3 DEF Works
(***************************************************************************)
(* Each step of a process keeps what is known of it.                       *)
(***************************************************************************)
LEMMA ArgumentSteps ==
  ASSUME Functions, NEW p \in Process, Works(p),
         ShowUsage(p) \/ BadUse(p) \/ Version(p) \/ ConfigDir(p)
  PROVE  Works(p)'
<1>1. stage[p] = "arguments" /\ exit[p] = "none"
  BY DEF ShowUsage, BadUse, Version, ConfigDir, at
<1>2. UNCHANGED <<setting, loadedSoFar>>
  BY DEF ShowUsage, BadUse, Version, ConfigDir
<1>3. CASE stage' = stage
  BY <1>1, <1>2, <1>3 DEF Works, Typed, Command, Reading, Accepted, UpToDate,
     prefix, through, loading, setting, loadedSoFar
<1>4. CASE stage' # stage
  <2>1. ConfigDir(p) /\ stage' = [stage EXCEPT ![p] = "main"] /\ exit' = exit
    BY <1>4 DEF ShowUsage, BadUse, Version, ConfigDir, goesTo, ends
  <2>2. known(line[p]) /\ line[p].name # "version"
    BY <2>1 DEF ConfigDir, goodUse, showsUsage
  <2>3. stage'[p] = "main" /\ exit'[p] = "none"
    BY <1>1, <2>1 DEF Functions
  <2> QED BY <1>2, <2>2, <2>3 DEF Works, Typed, Command, Reading, Accepted, UpToDate,
             prefix, through, loading, setting, loadedSoFar, known
<1> QED BY <1>3, <1>4

LEMMA ReadMainStep ==
  ASSUME Functions, NEW p \in Process, Works(p), ReadMain(p)
  PROVE  Works(p)'
<1>1. /\ stage[p] = "main" /\ exit[p] = "none"
      /\ UNCHANGED <<dir, edits, line, paths>>
      /\ main'[p] = dir.main /\ files'[p] = <<>> /\ since'[p] = edits
  BY DEF ReadMain, at, setting, Functions
<1>2. IF mainLoads(dir) THEN stage'[p] = "glob" /\ exit'[p] = "none"
      ELSE stage'[p] = "main" /\ exit'[p] = "1"
  BY <1>1 DEF ReadMain, mainLoads, goesTo, ends, Functions
<1>3. files'[p] \in Seq(File) /\ paths'[p] \in Nat /\ edits \in Nat
  BY <1>1 DEF Works, Typed, Functions
<1>4. Typed(p)' /\ Command(p)' /\ Reading(p)' /\ Accepted(p)'
  BY <1>1, <1>2, <1>3 DEF Works, Typed, Command, Reading, Accepted
<1>5. UpToDate(p)'
  BY <1>1, <1>2 DEF UpToDate, through, loading
<1> QED BY <1>4, <1>5 DEF Works

LEMMA GlobStep ==
  ASSUME Functions, NEW p \in Process, Works(p), Glob(p)
  PROVE  Works(p)'
<1>1. /\ stage[p] = "glob" /\ exit[p] = "none"
      /\ UNCHANGED <<dir, edits, line, main, files, since>>
      /\ paths'[p] = Len(dir.files)
  BY DEF Glob, at, setting, Functions
<1>2. IF main[p].sources # "malformed" /\ dir.files # <<>>
      THEN stage'[p] = "files" /\ exit'[p] = "none"
      ELSE stage'[p] = "glob" /\ exit'[p] = "1"
  BY <1>1 DEF Glob, goesTo, ends, Functions
<1>3. files[p] = <<>> /\ Len(files[p]) = 0
  BY <1>1 DEF Works, Reading
<1>4. dir.files \in Seq(File) /\ Len(dir.files) \in Nat
  <2>1. dir.files \in Seq(File)
    BY DirectoryFiles DEF Functions
  <2> QED BY <2>1
<1>5. Typed(p)' /\ Command(p)' /\ Reading(p)' /\ Accepted(p)'
  BY <1>1, <1>2, <1>3, <1>4 DEF Works, Typed, Command, Reading, Accepted
<1>6. UpToDate(p)'
  BY <1>1, <1>2, <1>3, <1>4 DEF Works, UpToDate, through, loading, globs, prefix
<1> QED BY <1>5, <1>6 DEF Works

LEMMA ReadSourceStep ==
  ASSUME Functions, NEW p \in Process, Works(p), ReadSource(p)
  PROVE  Works(p)'
<1>1. /\ stage[p] = "files" /\ exit[p] = "none" /\ next(p) <= paths[p]
      /\ UNCHANGED <<dir, edits, line, main, paths, since>> /\ stage'[p] = "files"
  BY DEF ReadSource, at, ends, setting, Functions
<1>2. files[p] \in Seq(File) /\ paths[p] \in Nat /\ Len(files[p]) \in Nat
  BY DEF Works, Typed
<1>3. dir.files \in Seq(File) /\ \A i \in DOMAIN dir.files : dir.files[i] \in File
  BY DirectoryFiles DEF Functions
<1>4. CASE readable(p)
  <2> DEFINE f == dir.files[next(p)]
  <2>1. f \in File /\ f.read = "decoded" /\ next(p) \in 1 .. Len(dir.files)
    BY <1>3, <1>4 DEF readable
  <2>2. files'[p] = Append(files[p], f) /\ exit'[p] = "none"
    BY <1>1, <1>4 DEF ReadSource, Functions
  <2>3. /\ files'[p] \in Seq(File) /\ Len(files'[p]) = next(p)
        /\ \A i \in 1 .. Len(files[p]) : files'[p][i] = files[p][i]
        /\ files'[p][next(p)] = f
    <3> HIDE DEF f
    <3> QED BY <1>2, <2>1, <2>2 DEF next
  <2>4. Typed(p)' /\ Command(p)' /\ Reading(p)' /\ Accepted(p)'
    BY <1>1, <2>3 DEF Works, Typed, Command, Reading, Accepted
  <2>5. prefix(p) => prefix(p)'
    <3>1. Len(files'[p]) <= Len(dir.files)
      BY <1>3, <2>1, <2>3
    <3>2. \A i \in 1 .. Len(files'[p]) : i \in 1 .. Len(files[p]) \/ i = next(p)
      BY <1>2, <2>3 DEF next
    <3> QED BY <1>1, <2>1, <2>3, <3>1, <3>2 DEF prefix
  <2>6. UpToDate(p)'
    BY <1>1, <2>2, <2>5 DEF Works, UpToDate, through, loading
  <2> QED BY <2>4, <2>6 DEF Works
<1>5. CASE ~readable(p)
  <2>1. files'[p] = files[p]
    BY <1>5 DEF ReadSource
  <2>2. Typed(p)' /\ Command(p)' /\ Reading(p)' /\ Accepted(p)'
    BY <1>1, <2>1 DEF Works, Typed, Command, Reading, Accepted
  <2>3. prefix(p) => ~loadable(dir)
    <3> SUFFICES ASSUME prefix(p) PROVE ~loadable(dir)
      OBVIOUS
    <3>1. next(p) \in DOMAIN dir.files
      BY <1>1, <1>2, <1>3 DEF prefix, next
    <3> QED BY <1>5, <3>1 DEF readable, loadable
  <2>4. prefix(p) => prefix(p)'
    BY <1>1, <2>1 DEF prefix
  <2>5. UpToDate(p)'
    BY <1>1, <2>3, <2>4 DEF Works, UpToDate, through, loading
  <2> QED BY <2>2, <2>5 DEF Works
<1> QED BY <1>4, <1>5

LEMMA LoadedStep ==
  ASSUME Functions, NEW p \in Process, Works(p), Loaded(p)
  PROVE  Works(p)'
<1>1. /\ stage[p] = "files" /\ exit[p] = "none" /\ next(p) > paths[p]
      /\ UNCHANGED <<dir, edits, line, main, paths, files, since>>
  BY DEF Loaded, at, setting
<1>2. IF accepts(p) THEN stage'[p] = after(p) /\ exit'[p] = "none"
      ELSE stage'[p] = "files" /\ exit'[p] = "1"
  BY <1>1 DEF Loaded, goesTo, ends, Functions
<1>3. files[p] \in Seq(File) /\ paths[p] \in Nat /\ Len(files[p]) = paths[p]
  BY <1>1 DEF Works, Typed, Reading, next
<1>4. after(p) \in {"main", "listen", "report", "probe", "following"}
  BY DEF after
<1>5. Typed(p)'
  BY <1>1, <1>2, <1>4 DEF Works, Typed
<1>6. Command(p)'
  BY <1>1, <1>2 DEF Works, Command, after
<1>7. Reading(p)'
  BY <1>1, <1>2, <1>4 DEF Works, Reading
<1>8. Accepted(p)'
  <2>1. after(p) \in {"listen", "following"} => line[p].name # "healthcheck"
    BY DEF after
  <2> QED BY <1>1, <1>2, <1>3, <1>4, <2>1 DEF Accepted, accepts
<1>9. UpToDate(p)'
  <2> SUFFICES ASSUME since[p] = edits PROVE UpToDate(p)'
    BY <1>1 DEF UpToDate
  <2>1. main[p] = dir.main /\ mainLoads(dir) /\ globs(dir) /\ prefix(p)
    BY <1>1 DEF Works, UpToDate
  <2>2. dir.files \in Seq(File)
    BY DirectoryFiles DEF Functions
  <2>3. DOMAIN files[p] = DOMAIN dir.files
    BY <1>3, <2>1, <2>2 DEF prefix
  <2>4. \A i \in DOMAIN dir.files : files[p][i] = dir.files[i] /\ dir.files[i].read = "decoded"
    BY <1>3, <2>1, <2>3 DEF prefix
  <2>5. loadable(dir)
    BY <2>1, <2>4 DEF loadable
  <2>6. accepts(p) <=> line[p].name = "healthcheck" \/ valid(dir)
    BY <2>1, <2>3, <2>4 DEF accepts, valid
  <2>7. CASE accepts(p)
    BY <1>1, <1>2, <1>4, <2>1, <2>5, <2>6, <2>7 DEF UpToDate, through, loading
  <2>8. CASE ~accepts(p)
    BY <1>1, <1>2, <2>1, <2>6, <2>8 DEF UpToDate, through, loading, prefix
  <2> QED BY <2>7, <2>8
<1> QED BY <1>5, <1>6, <1>7, <1>8, <1>9 DEF Works

LEMMA LastSteps ==
  ASSUME Functions, NEW p \in Process, Works(p), Listen(p) \/ Ends(p) \/ Probe(p)
  PROVE  Works(p)'
<1>1. /\ stage[p] \in {"listen", "serving", "report", "probe", "following"}
      /\ UNCHANGED <<setting, loadedSoFar>>
  BY DEF Listen, Ends, Probe, at
<1>2. CASE stage' = stage
  BY <1>1, <1>2 DEF Works, Typed, Command, Reading, Accepted, UpToDate,
     prefix, through, loading, setting, loadedSoFar
<1>3. CASE stage' # stage
  <2>1. Listen(p) /\ usable(p) /\ stage[p] = "listen" /\ stage'[p] = "serving"
    BY <1>3 DEF Listen, Ends, Probe, goesTo, ends, at, Functions
  <2>2. main[p].listen.port # 0
    BY <2>1 DEF usable
  <2> QED BY <1>1, <2>1, <2>2 DEF Works, Typed, Command, Reading, Accepted, UpToDate,
             prefix, through, loading, setting, loadedSoFar
<1> QED BY <1>2, <1>3

LEMMA InvStep ==
  ASSUME Inv, [Next]_vars
  PROVE  Inv'
<1>1. ASSUME NEW p \in Process, Step(p)
      PROVE  Inv'
  <2>1. Works(p)'
    BY <1>1, ArgumentSteps, ReadMainStep, GlobStep, ReadSourceStep, LoadedStep, LastSteps
       DEF Inv, Step
  <2>2. ASSUME NEW q \in Process \ {p}
        PROVE  Works(q)'
    BY <1>1, OthersKeep, WorksStays DEF Inv, Functions
  <2>3. Functions'
    BY <1>1, OthersKeep DEF Inv
  <2> QED BY <2>1, <2>2, <2>3 DEF Inv
<1>2. CASE Edit
  <2>1. Functions'
    BY <1>2 DEF Edit, Inv, Functions
  <2> QED BY <1>2, <2>1, WorksStays DEF Edit, Inv, Functions
<1>3. CASE UNCHANGED vars
  BY <1>3, WorksStays DEF vars, Inv, Functions
<1> QED BY <1>1, <1>2, <1>3 DEF Next

LEMMA InvAlways == Spec => []Inv
<1>1. Init => Inv
  <2> SUFFICES ASSUME Init PROVE Inv
    OBVIOUS
  <2>1. Functions
    BY DEF Init, Functions
  <2>2. \A p \in Process : Works(p)
    BY DEF Init, Works, Typed, Command, Reading, Accepted, UpToDate, through, loading
  <2> QED BY <2>1, <2>2 DEF Inv
<1> QED BY <1>1, InvStep, PTL DEF Spec
-----------------------------------------------------------------------------
(***************************************************************************)
(* As many names as sources, if no two sources have the same name.         *)
(***************************************************************************)
LEMMA DistinctNames ==
  ASSUME NEW f \in Seq(File), \A i, j \in DOMAIN f : i # j => f[i].name # f[j].name
  PROVE  Cardinality({f[i].name : i \in DOMAIN f}) = Len(f)
<1> DEFINE S == {f[i].name : i \in DOMAIN f}
           g == [i \in 1 .. Len(f) |-> f[i].name]
<1>1. DOMAIN f = 1 .. Len(f) /\ Len(f) \in Nat
  OBVIOUS
<1>2. g \in [1 .. Len(f) -> S]
  BY <1>1
<1>3. g \in Injection(1 .. Len(f), S)
  BY <1>1, <1>2 DEF Injection, IsInjective
<1>4. g \in Surjection(1 .. Len(f), S)
  BY <1>1, <1>2 DEF Surjection
<1>5. ExistsBijection(1 .. Len(f), S)
  BY <1>3, <1>4 DEF Bijection, ExistsBijection
<1> HIDE DEF S
<1>6. Cardinality(S) = Len(f)
  BY <1>1, <1>5, FS_CountingElements
<1> QED BY <1>6 DEF S

(***************************************************************************)
(* What the exporter, discover and capture work with was validated as it   *)
(* is, whenever and however often the directory changed while they read    *)
(* it: what run validated first, for its log, is not what it serves.       *)
(***************************************************************************)
THEOREM OnlyAcceptedWorks == Spec => []WorksWithAccepted
<1>1. Inv => WorksWithAccepted
  <2> SUFFICES ASSUME Inv, NEW p \in Process,
                      stage[p] \in {"listen", "serving", "following"}
               PROVE  sound(p)
    BY DEF WorksWithAccepted
  <2>1. /\ files[p] \in Seq(File) /\ Len(files[p]) = paths[p] /\ ~main[p].bad
        /\ \A i \in DOMAIN files[p] : ~files[p][i].bad
        /\ \A i, j \in DOMAIN files[p] : i # j => files[p][i].name # files[p][j].name
    BY DEF Inv, Works, Typed, Accepted
  <2> QED BY <2>1, DistinctNames DEF sound
<1> QED BY <1>1, InvAlways, PTL

(***************************************************************************)
(* As long as nobody changes the directory, verify gets through its load   *)
(* exactly if the exporter, discover and capture do.                       *)
(***************************************************************************)
THEOREM VerifyIsRight == Spec => []VerifyPredicts
<1>1. Inv => VerifyPredicts
  <2> SUFFICES ASSUME Inv, NEW p \in Process, NEW q \in Process,
                      line[p].name = "verify", since[p] = edits, since[q] = edits
               PROVE  /\ through(p) => ~refused(q)
                      /\ refused(p) /\ line[q].name # "healthcheck" => ~through(q)
    BY DEF VerifyPredicts
  <2>1. ASSUME NEW r \in {p, q}, refused(r)
        PROVE  loadable(dir) => line[r].name # "healthcheck" /\ ~valid(dir)
    BY <2>1 DEF Inv, Works, UpToDate, refused, loading, loadable
  <2>2. ASSUME NEW r \in {p, q}, through(r)
        PROVE  loadable(dir) /\ (line[r].name # "healthcheck" => valid(dir))
    BY <2>2 DEF Inv, Works, UpToDate
  <2> QED BY <2>1, <2>2
<1> QED BY <1>1, InvAlways, PTL

-----------------------------------------------------------------------------
(***************************************************************************)
(* The address healthcheck asks is one at which such an exporter listens.  *)
(***************************************************************************)
LEMMA ProbeReaches ==
  ASSUME Inv, NEW p \in Process, NEW q \in Process,
         stage[p] = "probe", serves(q), since[p] = edits, since[q] = edits
  PROVE  LET url == healthURL(main[p].listen) IN reaches(url.host, url.port, q)
<1>1. through(p) /\ through(q)
  BY DEF through, loading, serves, at
<1>2. main[p] = dir.main /\ main[q] = dir.main
  BY <1>1 DEF Inv, Works, UpToDate
<1>3. main[q].listen.port # 0
  BY DEF Inv, Works, Accepted, serves, at
<1> DEFINE l == main[q].listen
<1>4. healthURL(l).port = l.port /\ l.host \in {"", healthURL(l).host}
  <2> HIDE DEF l
  <2>1. l.port # 0
    BY <1>3 DEF l
  <2> DEFINE host == IF l.host = "" \/ l.port = 0 THEN "127.0.0.1" ELSE l.host
             port == IF l.port = 0 THEN 9000 ELSE l.port
  <2>2. healthURL(l) = [host |-> host, port |-> port]
    BY DEF healthURL
  <2>3. port = l.port
    <3>1. ASSUME NEW d PROVE (IF l.port = 0 THEN d ELSE l.port) = l.port
      BY <2>1
    <3> QED BY <3>1
  <2>4. l.host = "" \/ l.host = host
    BY <2>1, Zenon
  <2> HIDE DEF host, port
  <2>5. healthURL(l).port = port /\ healthURL(l).host = host
    BY <2>2
  <2> QED BY <2>3, <2>4, <2>5
<1>5. main[p].listen = l
  BY <1>2
<1> QED BY <1>4, <1>5 DEF reaches

(***************************************************************************)
(* Beside an exporter whose directory nobody changed, a healthcheck finds  *)
(* it, and discover and capture use a client id of their own.              *)
(***************************************************************************)
THEOREM ExporterIsUndisturbed == Spec => ExporterUndisturbed
<1> DEFINE Undisturbed ==
      \A p, q \in Process : beside(p, q) =>
        /\ at(p, "probe") /\ exit'[p] # "none" => exit'[p] = "0"
        /\ at(p, "following") => suffix(p) # suffix(q)
<1>1. Inv /\ [Next]_vars => Undisturbed
  <2> SUFFICES ASSUME Inv, [Next]_vars, NEW p \in Process, NEW q \in Process, beside(p, q)
               PROVE  /\ at(p, "probe") /\ exit'[p] # "none" => exit'[p] = "0"
                      /\ at(p, "following") => suffix(p) # suffix(q)
    OBVIOUS
  <2>1. serves(q) /\ since[p] = edits /\ since[q] = edits
    BY DEF beside
  <2>2. ASSUME at(p, "probe"), exit'[p] # "none"
        PROVE  exit'[p] = "0"
    <3>1. stage[p] = "probe" /\ exit[p] = "none"
      BY <2>2 DEF at
    <3>2. ~Edit /\ ~UNCHANGED vars
      BY <2>2, <3>1 DEF Edit, vars
    <3>3. \A r \in Process \ {p} : ~Step(r)
      BY <2>2, <3>1, OthersKeep DEF Inv
    <3>4. Step(p)
      BY <3>2, <3>3 DEF Next
    <3>5. Probe(p)
      BY <3>1, <3>4 DEF Step, ShowUsage, BadUse, Version, ConfigDir, ReadMain, Glob,
         ReadSource, Loaded, Listen, Ends, at
    <3> QED BY <2>1, <3>1, <3>5, ProbeReaches DEF Probe, ends, Inv, Functions
  <2>3. ASSUME at(p, "following")
        PROVE  suffix(p) # suffix(q)
    <3>1. line[p].name \in {"discover", "capture"}
      BY <2>3 DEF at, Inv, Works, Command, known
    <3>2. line[q].name = "run"
      BY <2>1 DEF serves, at, Inv, Works, Command
    <3> QED BY <3>1, <3>2 DEF suffix
  <2> QED BY <2>2, <2>3
<1> QED BY <1>1, InvAlways, PTL DEF Spec, ExporterUndisturbed

-----------------------------------------------------------------------------
(***************************************************************************)
(* Texts and their levels.  How many slashes a text has up to a place.     *)
(***************************************************************************)
rank(text, i) == Cardinality({j \in slashes(text) : j <= i})

\* No prover knows that "/" is a string.
Character == STRING \cup {"/", "#"}

Texts == Seq(Character)

(***************************************************************************)
(* A set of naturals that is not empty has a least element.                *)
(***************************************************************************)
LEMMA Least ==
  ASSUME NEW T, T \subseteq Nat, T # {}
  PROVE  \E n \in T : \A m \in T : n <= m
<1> DEFINE R == OpToRel(<, Nat)
<1>1. IsWellFoundedOn(R, Nat)
  BY NatLessThanWellFounded, Zenon
<1>2. \A x, y \in Nat : <<x, y>> \in R <=> x < y
  BY Zenon DEF OpToRel
<1> HIDE DEF R
<1>3. PICK x \in T : \A y \in T : ~(<<y, x>> \in R)
  BY <1>1, WFMin
<1>4. ASSUME NEW m \in T
      PROVE  x <= m
  <2>1. m \in Nat /\ x \in Nat
    OBVIOUS
  <2>2. ~(m < x)
    BY <1>2, <1>3, <2>1
  <2> QED BY <2>1, <2>2
<1> QED BY <1>4

(***************************************************************************)
(* The slashes of a text are places of it, finitely many.                  *)
(***************************************************************************)
LEMMA SlashesFinite ==
  ASSUME NEW text \in Texts
  PROVE  /\ Len(text) \in Nat
         /\ DOMAIN text = 1 .. Len(text)
         /\ slashes(text) \subseteq 1 .. Len(text)
         /\ IsFiniteSet(slashes(text))
         /\ levels(text) \in Nat \ {0}
         /\ \A i : IsFiniteSet({j \in slashes(text) : j <= i}) /\ rank(text, i) \in Nat
<1>1. Len(text) \in Nat /\ DOMAIN text = 1 .. Len(text)
  BY LenProperties DEF Texts
<1>2. slashes(text) \subseteq 1 .. Len(text)
  BY <1>1 DEF slashes
<1>3. IsFiniteSet(1 .. Len(text))
  BY <1>1, FS_Interval
<1>4. IsFiniteSet(slashes(text))
  BY <1>2, <1>3, FS_Subset
<1>5. Cardinality(slashes(text)) \in Nat
  BY <1>4, FS_CardinalityType
<1>6. ASSUME NEW i
      PROVE  IsFiniteSet({j \in slashes(text) : j <= i}) /\ rank(text, i) \in Nat
  <2> DEFINE J == {j \in slashes(text) : j <= i}
  <2>1. J \in SUBSET slashes(text)
    OBVIOUS
  <2> HIDE DEF J
  <2>2. IsFiniteSet(J)
    BY <1>4, <2>1, FS_Subset
  <2>3. Cardinality(J) \in Nat
    BY <2>2, FS_CardinalityType
  <2> QED BY <2>2, <2>3 DEF J, rank
<1> QED BY <1>1, <1>2, <1>4, <1>5, <1>6 DEF levels

(***************************************************************************)
(* The rank begins with 0, ends with the number of the levels but one, and *)
(* goes up by one at every slash, and there only.                          *)
(***************************************************************************)
LEMMA RankSteps ==
  ASSUME NEW text \in Texts
  PROVE  /\ rank(text, 0) = 0
         /\ rank(text, Len(text)) = levels(text) - 1
         /\ \A i \in 1 .. Len(text) :
              rank(text, i) = IF i \in slashes(text) THEN rank(text, i - 1) + 1
                              ELSE rank(text, i - 1)
<1>1. Len(text) \in Nat /\ slashes(text) \subseteq 1 .. Len(text)
      /\ IsFiniteSet(slashes(text)) /\ Cardinality(slashes(text)) \in Nat
  BY SlashesFinite, FS_CardinalityType
<1>2. {j \in slashes(text) : j <= 0} = {}
  BY <1>1
<1>3. {j \in slashes(text) : j <= Len(text)} = slashes(text)
  BY <1>1
<1>4. ASSUME NEW i \in 1 .. Len(text)
      PROVE  rank(text, i) = IF i \in slashes(text) THEN rank(text, i - 1) + 1
                             ELSE rank(text, i - 1)
  <2> DEFINE J == {j \in slashes(text) : j <= i - 1}
             K == {j \in slashes(text) : j <= i}
  <2>1. i \notin J
    BY <1>1
  <2>2. IsFiniteSet(J)
    BY SlashesFinite
  <2>3. CASE i \in slashes(text)
    <3>1. K = J \cup {i}
      BY <1>1, <2>3
    <3> HIDE DEF J, K
    <3>2. Cardinality(K) = Cardinality(J) + 1
      BY <2>1, <2>2, <3>1, FS_AddElement
    <3> QED BY <2>3, <3>2 DEF rank, J, K
  <2>4. CASE i \notin slashes(text)
    <3>1. K = J
      BY <1>1, <2>4
    <3> HIDE DEF J, K
    <3> QED BY <2>4, <3>1 DEF rank, J, K
  <2> QED BY <2>3, <2>4
<1>5. rank(text, 0) = 0
  BY <1>2, FS_EmptySet DEF rank
<1>6. rank(text, Len(text)) = levels(text) - 1
  <2>1. rank(text, Len(text)) = Cardinality(slashes(text))
    BY <1>3 DEF rank
  <2> QED BY <1>1, <2>1 DEF levels
<1> QED BY <1>4, <1>5, <1>6

(***************************************************************************)
(* It never goes down.                                                     *)
(***************************************************************************)
LEMMA RankGrows ==
  ASSUME NEW text \in Texts, NEW i \in 0 .. Len(text), NEW k \in 0 .. Len(text), i <= k
  PROVE  rank(text, i) <= rank(text, k)
<1> DEFINE I == {j \in slashes(text) : j <= i}
           K == {j \in slashes(text) : j <= k}
<1>1. IsFiniteSet(K)
  BY SlashesFinite
<1>2. I \in SUBSET K
  <2>1. slashes(text) \subseteq Nat /\ Len(text) \in Nat
    BY SlashesFinite
  <2> QED BY <2>1
<1> HIDE DEF I, K
<1>3. Cardinality(I) <= Cardinality(K)
  BY <1>1, <1>2, FS_Subset
<1> QED BY <1>3 DEF rank, I, K

(***************************************************************************)
(* A level ends at the slash with its number, and nowhere else.            *)
(***************************************************************************)
LEMMA SlashIsEnd ==
  ASSUME NEW text \in Texts, NEW i \in slashes(text)
  PROVE  rank(text, i) \in 1 .. levels(text) - 1 /\ end(text, rank(text, i)) = i
<1>1. Len(text) \in Nat /\ slashes(text) \subseteq 1 .. Len(text)
      /\ levels(text) \in Nat \ {0} /\ \A j : rank(text, j) \in Nat
  BY SlashesFinite
<1>2. i \in 1 .. Len(text) /\ i - 1 \in 0 .. Len(text) /\ i \in 0 .. Len(text)
      /\ Len(text) \in 0 .. Len(text) /\ i <= Len(text)
  BY <1>1
<1>3. rank(text, i) = rank(text, i - 1) + 1
  BY <1>2, RankSteps
<1>4. rank(text, i) <= levels(text) - 1
  <2>1. rank(text, i) <= rank(text, Len(text))
    BY <1>2, RankGrows
  <2> QED BY <2>1, RankSteps
<1>5. rank(text, i) \in 1 .. levels(text) - 1
  <2>1. rank(text, i) \in Nat /\ rank(text, i - 1) \in Nat
    BY <1>1
  <2> QED BY <1>1, <1>3, <1>4, <2>1
<1>6. ASSUME NEW m \in slashes(text), rank(text, m) = rank(text, i), m < i
      PROVE  FALSE
  <2>1. m \in 0 .. Len(text) /\ m <= i - 1
    BY <1>1, <1>2, <1>6
  <2>2. rank(text, m) <= rank(text, i - 1)
    BY <1>2, <2>1, RankGrows
  <2>3. rank(text, m) \in Nat /\ rank(text, i - 1) \in Nat
    BY <1>1
  <2> QED BY <1>3, <1>6, <2>2, <2>3
<1>7. ASSUME NEW m \in slashes(text), rank(text, m) = rank(text, i), i < m
      PROVE  FALSE
  <2>1. m \in 1 .. Len(text) /\ m - 1 \in 0 .. Len(text) /\ i <= m - 1
    BY <1>1, <1>2, <1>7
  <2>2. rank(text, m) = rank(text, m - 1) + 1
    BY <2>1, <1>7, RankSteps
  <2>3. rank(text, i) <= rank(text, m - 1)
    BY <1>2, <2>1, RankGrows
  <2>4. rank(text, m) \in Nat /\ rank(text, m - 1) \in Nat /\ rank(text, i) \in Nat
    BY <1>1
  <2> QED BY <1>7, <2>2, <2>3, <2>4
<1>8. \A m \in slashes(text) : rank(text, m) = rank(text, i) => m = i
  <2> SUFFICES ASSUME NEW m \in slashes(text), rank(text, m) = rank(text, i)
               PROVE  m = i
    OBVIOUS
  <2>1. m \in Nat /\ i \in Nat
    BY <1>1
  <2> QED BY <1>6, <1>7, <2>1
<1>9. (CHOOSE m \in slashes(text) : rank(text, m) = rank(text, i)) = i
  BY <1>8
<1>10. rank(text, i) # 0 /\ ~(rank(text, i) >= levels(text))
  BY <1>1, <1>5
<1>11. end(text, rank(text, i))
         = CHOOSE m \in slashes(text) :
             Cardinality({j \in slashes(text) : j <= m}) = rank(text, i)
  BY <1>10, Zenon DEF end
<1> QED BY <1>5, <1>9, <1>11 DEF rank

LEMMA EndIsSlash ==
  ASSUME NEW text \in Texts, NEW k \in 1 .. levels(text) - 1
  PROVE  end(text, k) \in slashes(text) /\ rank(text, end(text, k)) = k
<1>1. Len(text) \in Nat /\ slashes(text) \subseteq 1 .. Len(text)
      /\ levels(text) \in Nat \ {0} /\ \A j : rank(text, j) \in Nat
  BY SlashesFinite
<1> DEFINE T == {i \in 0 .. Len(text) : rank(text, i) >= k}
<1>2. T \subseteq Nat /\ T # {}
  <2>1. Len(text) \in T
    BY <1>1, RankSteps
  <2> QED BY <1>1, <2>1
<1>3. PICK i \in T : \A j \in T : i <= j
  BY <1>2, Least
<1>4. i # 0
  <2>1. rank(text, 0) = 0
    BY RankSteps
  <2> QED BY <2>1
<1>5. i \in 1 .. Len(text) /\ i - 1 \in 0 .. Len(text)
  BY <1>1, <1>4
<1>6. rank(text, i - 1) < k
  <2>1. i - 1 \notin T
    BY <1>1, <1>3, <1>5
  <2>2. rank(text, i - 1) \in Nat
    BY <1>1
  <2> QED BY <1>5, <2>1, <2>2
<1>7. rank(text, i) >= k
  OBVIOUS
<1>8. i \in slashes(text) /\ rank(text, i) = k
  <2>1. rank(text, i) \in Nat /\ rank(text, i - 1) \in Nat
    BY <1>1
  <2>2. CASE i \in slashes(text)
    <3>1. rank(text, i) = rank(text, i - 1) + 1
      BY <1>5, <2>2, RankSteps
    <3> HIDE DEF T
    <3> QED BY <1>6, <1>7, <2>1, <2>2, <3>1
  <2>3. CASE i \notin slashes(text)
    <3>1. rank(text, i) = rank(text, i - 1)
      BY <1>5, <2>3, RankSteps
    <3> HIDE DEF T
    <3> QED BY <1>6, <1>7, <2>1, <3>1
  <2> QED BY <2>2, <2>3
<1>9. end(text, k) = i
  BY <1>8, SlashIsEnd
<1> QED BY <1>8, <1>9

(***************************************************************************)
(* The levels follow each other, each but the last with the slash that     *)
(* ends it.                                                                *)
(***************************************************************************)
LEMMA LevelsEnd ==
  ASSUME NEW text \in Texts
  PROVE  /\ end(text, 0) = 0
         /\ end(text, levels(text)) = Len(text) + 1
         /\ \A k \in 1 .. levels(text) - 1 :
              end(text, k) \in 1 .. Len(text) /\ text[end(text, k)] = "/"
         /\ \A k \in 0 .. levels(text) : end(text, k) \in 0 .. Len(text) + 1
         /\ \A k \in 1 .. levels(text) :
              end(text, k - 1) \in 0 .. Len(text) /\ end(text, k - 1) < end(text, k)
<1>1. Len(text) \in Nat /\ slashes(text) \subseteq 1 .. Len(text)
      /\ levels(text) \in Nat \ {0} /\ \A j : rank(text, j) \in Nat
  BY SlashesFinite
<1>2. end(text, 0) = 0
  BY DEF end
<1>3. end(text, levels(text)) = Len(text) + 1
  BY <1>1 DEF end
<1>4. \A k \in 1 .. levels(text) - 1 :
         end(text, k) \in 1 .. Len(text) /\ text[end(text, k)] = "/"
  BY <1>1, EndIsSlash DEF slashes
<1>5. \A k \in 0 .. levels(text) : end(text, k) \in 0 .. Len(text) + 1
  <2> SUFFICES ASSUME NEW k \in 0 .. levels(text)
               PROVE  end(text, k) \in 0 .. Len(text) + 1
    OBVIOUS
  <2>1. k = 0 \/ k = levels(text) \/ k \in 1 .. levels(text) - 1
    BY <1>1
  <2> QED BY <1>1, <1>2, <1>3, <1>4, <2>1
<1>6. ASSUME NEW k \in 1 .. levels(text)
      PROVE  end(text, k - 1) \in 0 .. Len(text) /\ end(text, k - 1) < end(text, k)
  <2>1. end(text, k - 1) \in 0 .. Len(text)
    <3>1. k - 1 = 0 \/ k - 1 \in 1 .. levels(text) - 1
      BY <1>1
    <3> QED BY <1>1, <1>2, <1>4, <3>1
  <2>2. CASE k = levels(text)
    BY <1>1, <1>3, <2>1, <2>2
  <2>3. CASE k # levels(text) /\ k = 1
    BY <1>1, <1>2, <1>4, <2>3
  <2>4. CASE k # levels(text) /\ k # 1
    <3>1. k \in 1 .. levels(text) - 1 /\ k - 1 \in 1 .. levels(text) - 1
      BY <1>1, <2>4
    <3>2. rank(text, end(text, k)) = k /\ rank(text, end(text, k - 1)) = k - 1
      BY <3>1, EndIsSlash
    <3>3. end(text, k) \in 0 .. Len(text)
      BY <1>1, <1>4, <3>1
    <3>4. ~(end(text, k) <= end(text, k - 1))
      <4> SUFFICES ASSUME end(text, k) <= end(text, k - 1)
                   PROVE  FALSE
        OBVIOUS
      <4>1. rank(text, end(text, k)) <= rank(text, end(text, k - 1))
        BY <2>1, <3>3, RankGrows
      <4> QED BY <3>1, <3>2, <4>1
    <3> QED BY <1>1, <2>1, <3>3, <3>4
  <2> QED BY <2>1, <2>2, <2>3, <2>4
<1> QED BY <1>2, <1>3, <1>4, <1>5, <1>6

(***************************************************************************)
(* What a level is made of.                                                *)
(***************************************************************************)
LEMMA LevelIs ==
  ASSUME NEW text \in Texts, NEW k \in 1 .. levels(text)
  PROVE  /\ level(text, k) \in Texts
         /\ Len(level(text, k)) = end(text, k) - 1 - end(text, k - 1)
         /\ \A i \in 1 .. end(text, k) - 1 - end(text, k - 1) :
              /\ end(text, k - 1) + i \in 1 .. Len(text)
              /\ level(text, k)[i] = text[end(text, k - 1) + i]
<1>1. Len(text) \in Nat /\ levels(text) \in Nat \ {0}
  BY SlashesFinite
<1> DEFINE a == end(text, k - 1)
           b == end(text, k)
<1>2. a \in 0 .. Len(text) /\ b \in 0 .. Len(text) + 1 /\ a < b
  BY <1>1, LevelsEnd
<1>3. level(text, k) = SubSeq(text, a + 1, b - 1)
  BY DEF level
<1> HIDE DEF a, b
<1>4. \A i \in a + 1 .. b - 1 : text[i] \in Character
  <2> SUFFICES ASSUME NEW i \in a + 1 .. b - 1
               PROVE  text[i] \in Character
    OBVIOUS
  <2>1. i \in 1 .. Len(text)
    BY <1>1, <1>2
  <2> QED BY <2>1, ElementOfSeq DEF Texts
<1>5. a + 1 \in Int /\ b - 1 \in Int
  BY <1>1, <1>2
<1>6. /\ SubSeq(text, a + 1, b - 1) \in Seq(Character)
      /\ Len(SubSeq(text, a + 1, b - 1)) = IF a + 1 <= b - 1 THEN b - 1 - (a + 1) + 1 ELSE 0
      /\ \A i \in 1 .. b - 1 - (a + 1) + 1 :
           SubSeq(text, a + 1, b - 1)[i] = text[a + 1 + i - 1]
  BY <1>4, <1>5, SubSeqProperties
<1>7. Len(SubSeq(text, a + 1, b - 1)) = b - 1 - a
  BY <1>1, <1>2, <1>6
<1>8. ASSUME NEW i \in 1 .. b - 1 - a
      PROVE  a + i \in 1 .. Len(text) /\ level(text, k)[i] = text[a + i]
  <2>1. i \in 1 .. b - 1 - (a + 1) + 1 /\ a + 1 + i - 1 = a + i
    BY <1>1, <1>2
  <2> QED BY <1>1, <1>2, <1>3, <1>6, <2>1
<1> QED BY <1>3, <1>6, <1>7, <1>8 DEF a, b, Texts

LEMMA OneCharacter ==
  ASSUME NEW text \in Texts, NEW k \in 1 .. levels(text), NEW c, level(text, k) = <<c>>
  PROVE  /\ end(text, k - 1) + 1 \in 1 .. Len(text)
         /\ text[end(text, k - 1) + 1] = c
         /\ end(text, k) = end(text, k - 1) + 2
<1>1. Len(text) \in Nat /\ levels(text) \in Nat \ {0}
  BY SlashesFinite
<1>2. end(text, k - 1) \in 0 .. Len(text) /\ end(text, k) \in 0 .. Len(text) + 1
  BY <1>1, LevelsEnd
<1>3. end(text, k) - 1 - end(text, k - 1) = 1
  BY LevelIs
<1>4. 1 \in 1 .. end(text, k) - 1 - end(text, k - 1)
  BY <1>3
<1>5. level(text, k)[1] = text[end(text, k - 1) + 1] /\ end(text, k - 1) + 1 \in 1 .. Len(text)
  BY <1>4, LevelIs
<1> QED BY <1>1, <1>2, <1>3, <1>5

(***************************************************************************)
(* Two texts that agree up to a place have the same slashes before it, and *)
(* their levels end at the same places.                                    *)
(***************************************************************************)
Agree(text, other, m) ==
  /\ m \in 0 .. Len(text) /\ m \in 0 .. Len(other)
  /\ \A i \in 1 .. m : text[i] = other[i]

LEMMA SameEnds ==
  ASSUME NEW text \in Texts, NEW other \in Texts, NEW m \in Nat, Agree(text, other, m),
         NEW k \in 0 .. levels(text) - 1, end(text, k) <= m
  PROVE  k <= levels(other) - 1 /\ end(other, k) = end(text, k)
<1>1. /\ Len(text) \in Nat /\ levels(text) \in Nat \ {0}
      /\ Len(other) \in Nat /\ levels(other) \in Nat \ {0}
      /\ slashes(text) \subseteq 1 .. Len(text) /\ slashes(other) \subseteq 1 .. Len(other)
      /\ DOMAIN text = 1 .. Len(text) /\ DOMAIN other = 1 .. Len(other)
  BY SlashesFinite
<1>2. CASE k = 0
  BY <1>1, <1>2, LevelsEnd
<1>3. CASE k # 0
  <2>1. k \in 1 .. levels(text) - 1
    BY <1>1, <1>3
  <2> DEFINE e == end(text, k)
  <2>2. e \in slashes(text) /\ rank(text, e) = k /\ e <= m
    BY <2>1, EndIsSlash
  <2> HIDE DEF e
  <2>3. e \in 1 .. m /\ m <= Len(other) /\ m <= Len(text)
    BY <1>1, <2>2 DEF Agree
  <2>4. e \in slashes(other)
    BY <1>1, <2>2, <2>3 DEF Agree, slashes
  <2>5. {j \in slashes(text) : j <= e} = {j \in slashes(other) : j <= e}
    <3>1. ASSUME NEW j, j \in Nat, j <= e
          PROVE  j \in slashes(text) <=> j \in slashes(other)
      <4>1. CASE j = 0
        BY <1>1, <4>1
      <4>2. CASE j # 0
        <5>1. j \in 1 .. m /\ j \in DOMAIN text /\ j \in DOMAIN other
          BY <1>1, <2>3, <3>1, <4>2
        <5> QED BY <5>1 DEF Agree, slashes
      <4> QED BY <4>1, <4>2
    <3>2. slashes(text) \subseteq Nat /\ slashes(other) \subseteq Nat
      BY <1>1
    <3> QED BY <3>1, <3>2
  <2>6. rank(other, e) = k
    BY <2>2, <2>5 DEF rank
  <2>7. k \in 1 .. levels(other) - 1 /\ end(other, k) = e
    BY <2>4, <2>6, SlashIsEnd
  <2> QED BY <1>1, <2>7 DEF e
<1> QED BY <1>2, <1>3

LEMMA SameLevel ==
  ASSUME NEW text \in Texts, NEW other \in Texts,
         NEW k \in 1 .. levels(text), k <= levels(other),
         end(text, k - 1) = end(other, k - 1), end(text, k) = end(other, k),
         Agree(text, other, end(text, k) - 1)
  PROVE  level(text, k) = level(other, k)
<1>1. Len(text) \in Nat /\ levels(text) \in Nat \ {0} /\ levels(other) \in Nat \ {0}
  BY SlashesFinite
<1>2. k \in 1 .. levels(other)
  BY <1>1
<1> DEFINE a == end(text, k - 1)
           b == end(text, k)
<1>3. a \in 0 .. Len(text) /\ b \in 0 .. Len(text) + 1 /\ a < b
  BY <1>1, LevelsEnd
<1>4. /\ level(text, k) \in Texts /\ Len(level(text, k)) = b - 1 - a
      /\ \A i \in 1 .. b - 1 - a : level(text, k)[i] = text[a + i]
  BY LevelIs
<1>5. /\ level(other, k) \in Texts /\ Len(level(other, k)) = b - 1 - a
      /\ \A i \in 1 .. b - 1 - a : level(other, k)[i] = other[a + i]
  BY <1>2, LevelIs
<1>6. \A i \in 1 .. b - 1 : text[i] = other[i]
  BY DEF Agree
<1> HIDE DEF a, b
<1>7. \A i \in 1 .. b - 1 - a : a + i \in 1 .. b - 1
  BY <1>1, <1>3
<1>8. \A i \in 1 .. Len(level(text, k)) : level(text, k)[i] = level(other, k)[i]
  BY <1>4, <1>5, <1>6, <1>7
<1> QED BY <1>4, <1>5, <1>8, SeqEqual DEF Texts

(***************************************************************************)
(* And the other way round: texts whose first levels are the same agree    *)
(* until these end.                                                        *)
(***************************************************************************)
LEMMA SameLevels ==
  ASSUME NEW text \in Texts, NEW other \in Texts,
         NEW n \in 1 .. levels(text), n <= levels(other),
         \A k \in 1 .. n : level(text, k) = level(other, k)
  PROVE  end(other, n) = end(text, n) /\ Agree(text, other, end(text, n) - 1)
<1>1. /\ Len(text) \in Nat /\ levels(text) \in Nat \ {0}
      /\ Len(other) \in Nat /\ levels(other) \in Nat \ {0}
  BY SlashesFinite
<1> DEFINE Good(k) == /\ end(other, k) = end(text, k)
                      /\ \A i \in 1 .. end(text, k) - 1 : text[i] = other[i]
           T == {k \in 1 .. n : ~Good(k)}
<1>2. ASSUME NEW k \in 1 .. n, k = 1 \/ (k - 1 \in 1 .. n /\ Good(k - 1))
      PROVE  Good(k)
  <2> DEFINE a == end(text, k - 1)
             b == end(text, k)
  <2>1. k \in 1 .. levels(text) /\ k \in 1 .. levels(other)
    BY <1>1
  <2>2. a \in 0 .. Len(text) /\ b \in 0 .. Len(text) + 1 /\ a < b
    BY <1>1, <2>1, LevelsEnd
  <2>3. end(other, k) \in 0 .. Len(other) + 1
    BY <1>1, <2>1, LevelsEnd
  <2>4. end(other, k - 1) = a
    <3>1. CASE k = 1
      BY <3>1, LevelsEnd
    <3>2. CASE k # 1
      BY <1>2, <3>2
    <3> QED BY <3>1, <3>2
  <2>5. /\ Len(level(text, k)) = b - 1 - a
        /\ \A i \in 1 .. b - 1 - a : level(text, k)[i] = text[a + i]
    BY <2>1, LevelIs
  <2>6. Len(level(other, k)) = end(other, k) - 1 - a
    BY <2>1, <2>4, LevelIs
  <2>7. \A i \in 1 .. end(other, k) - 1 - a : level(other, k)[i] = other[a + i]
    BY <2>1, <2>4, LevelIs
  <2>8. level(text, k) = level(other, k)
    OBVIOUS
  <2>9. \A i \in 1 .. a : text[i] = other[i]
    <3>1. CASE k = 1
      BY <3>1, LevelsEnd
    <3>2. CASE k # 1
      <4>1. k - 1 \in 1 .. levels(text) - 1 /\ k - 1 \in 1 .. levels(other) - 1
        BY <1>1, <2>1, <3>2
      <4>2. text[a] = "/"
        BY <4>1, LevelsEnd
      <4>3. other[a] = "/"
        BY <2>4, <4>1, LevelsEnd
      <4>4. \A i \in 1 .. a - 1 : text[i] = other[i]
        BY <1>2, <3>2
      <4> HIDE DEF a
      <4> QED BY <1>1, <2>2, <4>2, <4>3, <4>4
    <3> QED BY <3>1, <3>2
  <2> HIDE DEF a, b
  <2>10. end(other, k) = b
    BY <1>1, <2>2, <2>3, <2>5, <2>6, <2>8
  <2>11. \A i \in 1 .. b - 1 - a : text[a + i] = other[a + i]
    BY <2>5, <2>7, <2>8, <2>10
  <2>12. \A i \in 1 .. b - 1 : text[i] = other[i]
    <3> SUFFICES ASSUME NEW i \in 1 .. b - 1
                 PROVE  text[i] = other[i]
      OBVIOUS
    <3>1. CASE i <= a
      BY <1>1, <2>2, <2>9, <3>1
    <3>2. CASE ~(i <= a)
      <4>1. i - a \in 1 .. b - 1 - a /\ a + (i - a) = i
        BY <1>1, <2>2, <3>2
      <4> QED BY <2>11, <4>1
    <3> QED BY <3>1, <3>2
  <2> QED BY <2>10, <2>12 DEF b
<1>3. T = {}
  <2> SUFFICES ASSUME T # {}
               PROVE  FALSE
    OBVIOUS
  <2>1. T \subseteq Nat
    BY <1>1
  <2>2. PICK k \in T : \A j \in T : k <= j
    BY <2>1, Least
  <2>3. k \in 1 .. n /\ ~Good(k)
    OBVIOUS
  <2>4. k = 1 \/ (k - 1 \in 1 .. n /\ k - 1 \notin T)
    <3> HIDE DEF T
    <3> QED BY <1>1, <2>2, <2>3
  <2>5. k = 1 \/ (k - 1 \in 1 .. n /\ Good(k - 1))
    BY <2>4
  <2> HIDE DEF T, Good
  <2> QED BY <1>2, <2>3, <2>5
<1>4. Good(n)
  <2>1. n \in 1 .. n
    BY <1>1
  <2> QED BY <1>3, <2>1
<1>5. end(text, n) - 1 \in 0 .. Len(text) /\ end(text, n) - 1 \in 0 .. Len(other)
  <2>1. end(text, n) \in 0 .. Len(text) + 1 /\ end(other, n) \in 0 .. Len(other) + 1
    BY <1>1, LevelsEnd
  <2>2. end(text, n - 1) \in 0 .. Len(text) /\ end(text, n - 1) < end(text, n)
    BY LevelsEnd
  <2> QED BY <1>1, <1>4, <2>1, <2>2
<1> QED BY <1>4, <1>5 DEF Agree

(***************************************************************************)
(* A text that begins another, up to its end or to a slash, is its first   *)
(* levels.                                                                 *)
(***************************************************************************)
Begins(text, other) ==
  /\ Agree(text, other, Len(text))
  /\ Len(other) = Len(text) \/ other[Len(text) + 1] = "/"

LEMMA FirstLevels ==
  ASSUME NEW text \in Texts, NEW other \in Texts, Begins(text, other)
  PROVE  /\ levels(text) <= levels(other)
         /\ \A k \in 0 .. levels(text) : end(other, k) = end(text, k)
         /\ \A k \in 1 .. levels(text) : level(other, k) = level(text, k)
<1>1. /\ Len(text) \in Nat /\ levels(text) \in Nat \ {0}
      /\ Len(other) \in Nat /\ levels(other) \in Nat \ {0}
      /\ DOMAIN other = 1 .. Len(other)
  BY SlashesFinite
<1> DEFINE n == levels(text)
           m == Len(text)
<1>2. Agree(text, other, m) /\ m <= Len(other)
  BY DEF Begins, Agree
<1>3. ASSUME NEW k \in 0 .. n - 1
      PROVE  k <= levels(other) - 1 /\ end(other, k) = end(text, k)
  <2>1. end(text, k) <= m
    <3>1. k = 0 \/ k \in 1 .. n - 1
      BY <1>1
    <3> QED BY <1>1, <3>1, LevelsEnd
  <2> QED BY <1>1, <1>2, <2>1, SameEnds
<1>4. rank(text, m) = n - 1
  BY RankSteps
<1>5. rank(other, m) = n - 1
  <2>1. n - 1 \in 0 .. n - 1 /\ n \in 1 .. n /\ m \in 0 .. m
    BY <1>1
  <2>2. {j \in slashes(text) : j <= m} = {j \in slashes(other) : j <= m}
    <3>1. slashes(text) \subseteq 1 .. m /\ slashes(other) \subseteq 1 .. Len(other)
          /\ DOMAIN text = 1 .. m
      BY SlashesFinite
    <3>2. ASSUME NEW j \in 1 .. m
          PROVE  j \in slashes(text) <=> j \in slashes(other)
      BY <1>1, <1>2, <3>1 DEF Agree, slashes
    <3> HIDE DEF m
    <3> QED BY <1>1, <1>2, <3>1, <3>2
  <2> QED BY <1>4, <2>2 DEF rank
<1>6. n <= levels(other) /\ end(other, n) = m + 1
  <2>1. CASE Len(other) = m
    <3>1. levels(other) = n
      <4>1. rank(other, Len(other)) = levels(other) - 1
        BY RankSteps
      <4> HIDE DEF m, n
      <4> QED BY <1>1, <1>5, <2>1, <4>1 DEF m, n
    <3>2. end(other, levels(other)) = Len(other) + 1
      BY LevelsEnd
    <3> QED BY <1>1, <2>1, <3>1, <3>2
  <2>2. CASE Len(other) # m
    <3>1. other[m + 1] = "/" /\ m + 1 \in 1 .. Len(other)
      BY <1>1, <1>2, <2>2 DEF Begins
    <3>2. m + 1 \in slashes(other)
      BY <1>1, <3>1 DEF slashes
    <3>3. rank(other, m + 1) = rank(other, m + 1 - 1) + 1
      BY <3>1, <3>2, RankSteps
    <3>4. m + 1 - 1 = m
      BY <1>1
    <3>5. rank(other, m + 1) = n
      <4>1. rank(other, m + 1) = rank(other, m) + 1
        BY <3>3, <3>4
      <4> QED BY <1>1, <1>5, <4>1
    <3>6. n \in 1 .. levels(other) - 1 /\ end(other, n) = m + 1
      BY <3>2, <3>5, SlashIsEnd
    <3> QED BY <1>1, <3>6
  <2> QED BY <2>1, <2>2
<1>7. \A k \in 0 .. n : end(other, k) = end(text, k)
  <2> SUFFICES ASSUME NEW k \in 0 .. n
               PROVE  end(other, k) = end(text, k)
    OBVIOUS
  <2>1. CASE k = n
    BY <1>6, <2>1, LevelsEnd
  <2>2. CASE k # n
    BY <1>1, <1>3, <2>2
  <2> QED BY <2>1, <2>2
<1>8. ASSUME NEW k \in 1 .. n
      PROVE  level(other, k) = level(text, k)
  <2>1. k - 1 \in 0 .. n /\ k \in 0 .. n /\ k <= levels(other)
    BY <1>1, <1>6
  <2>2. end(text, k - 1) = end(other, k - 1) /\ end(text, k) = end(other, k)
    BY <1>7, <2>1
  <2>3. end(text, k) \in 0 .. m + 1 /\ end(text, k - 1) \in 0 .. m
        /\ end(text, k - 1) < end(text, k)
    BY <2>1, LevelsEnd
  <2> DEFINE b == end(text, k)
  <2>4. b - 1 \in 0 .. m
    BY <1>1, <2>3
  <2> HIDE DEF b
  <2>5. Agree(text, other, b - 1)
    BY <1>1, <1>2, <2>4 DEF Agree
  <2> QED BY <2>1, <2>2, <2>5, SameLevel DEF b
<1> QED BY <1>6, <1>7, <1>8

(***************************************************************************)
(* A text followed by "/#" has one level more, which is "#".               *)
(***************************************************************************)
LEMMA OpenFilter ==
  ASSUME NEW text \in Texts
  PROVE  /\ text \o <<"/", "#">> \in Texts
         /\ Len(text \o <<"/", "#">>) = Len(text) + 2
         /\ \A i \in 1 .. Len(text) : (text \o <<"/", "#">>)[i] = text[i]
         /\ (text \o <<"/", "#">>)[Len(text) + 1] = "/"
         /\ (text \o <<"/", "#">>)[Len(text) + 2] = "#"
         /\ Begins(text, text \o <<"/", "#">>)
         /\ levels(text \o <<"/", "#">>) = levels(text) + 1
         /\ level(text \o <<"/", "#">>, levels(text) + 1) = <<"#">>
<1> DEFINE F == text \o <<"/", "#">>
           n == levels(text)
           m == Len(text)
<1>1. m \in Nat /\ n \in Nat \ {0}
  BY SlashesFinite
<1>2. <<"/", "#">> \in Seq(Character) /\ Len(<<"/", "#">>) = 2
  <2>1. "/" \in Character /\ "#" \in Character
    BY DEF Character
  <2> QED BY <2>1
<1>3. /\ F \in Texts /\ Len(F) = m + 2
      /\ \A i \in 1 .. m + 2 : F[i] = IF i <= m THEN text[i] ELSE <<"/", "#">>[i - m]
  BY <1>2, ConcatProperties DEF Texts
<1> HIDE DEF F
<1>4. \A i \in 1 .. m : F[i] = text[i]
  BY <1>1, <1>3
<1>5. F[m + 1] = "/"
  <2>1. m + 1 \in 1 .. m + 2 /\ ~(m + 1 <= m) /\ m + 1 - m = 1
    BY <1>1
  <2>2. F[m + 1] = <<"/", "#">>[m + 1 - m]
    BY <1>3, <2>1
  <2> QED BY <2>1, <2>2
<1>6. F[m + 2] = "#"
  <2>1. m + 2 \in 1 .. m + 2 /\ ~(m + 2 <= m) /\ m + 2 - m = 2
    BY <1>1
  <2>2. F[m + 2] = <<"/", "#">>[m + 2 - m]
    BY <1>3, <2>1
  <2> QED BY <2>1, <2>2
<1>7. Begins(text, F)
  BY <1>1, <1>3, <1>4, <1>5 DEF Begins, Agree
<1>8. n <= levels(F) /\ end(F, n) = m + 1
  <2>1. n \in 0 .. n
    BY <1>1
  <2>2. end(F, n) = end(text, n)
    BY <1>3, <1>7, <2>1, FirstLevels
  <2> QED BY <1>3, <1>7, <2>2, FirstLevels, LevelsEnd
<1>9. DOMAIN F = 1 .. m + 2 /\ levels(F) \in Nat \ {0}
  BY <1>3, SlashesFinite
<1>10. levels(F) = n + 1
  <2>1. m + 1 \in slashes(F)
    BY <1>1, <1>5, <1>9 DEF slashes
  <2>2. m + 2 \notin slashes(F)
    BY <1>6 DEF slashes
  <2>3. rank(F, m + 2) = rank(F, m + 2 - 1) /\ rank(F, Len(F)) = levels(F) - 1
    <3>1. m + 2 \in 1 .. Len(F)
      BY <1>1, <1>3
    <3> QED BY <1>3, <2>2, <3>1, RankSteps
  <2>4. rank(F, m + 1) = levels(F) - 1
    <3>1. m + 2 - 1 = m + 1
      BY <1>1
    <3>2. rank(F, m + 2) = rank(F, m + 1)
      BY <2>3, <3>1
    <3>3. rank(F, m + 2) = levels(F) - 1
      BY <1>3, <2>3
    <3> QED BY <3>2, <3>3
  <2>5. end(F, levels(F) - 1) = m + 1 /\ levels(F) - 1 \in 1 .. levels(F) - 1
    BY <1>3, <2>1, <2>4, SlashIsEnd
  <2>6. n # levels(F)
    <3>1. end(F, levels(F)) = m + 3
      <4>1. end(F, levels(F)) = Len(F) + 1
        BY <1>3, LevelsEnd
      <4> QED BY <1>1, <1>3, <4>1
    <3> QED BY <1>1, <1>8, <3>1
  <2>7. n \in 1 .. levels(F) - 1
    BY <1>1, <1>8, <1>9, <2>6
  <2>8. rank(F, end(F, n)) = n
    BY <1>3, <2>7, EndIsSlash
  <2>9. n = levels(F) - 1
    BY <1>8, <2>4, <2>8
  <2> QED BY <1>1, <1>9, <2>9
<1>11. level(F, n + 1) = <<"#">>
  <2>1. n + 1 \in 1 .. levels(F) /\ n + 1 - 1 = n
    BY <1>1, <1>10
  <2>2. end(F, n + 1) = m + 3
    <3>1. end(F, levels(F)) = Len(F) + 1
      BY <1>3, LevelsEnd
    <3> QED BY <1>1, <1>3, <1>10, <3>1
  <2>3. level(F, n + 1) = SubSeq(F, m + 2, m + 2)
    <3> DEFINE k == n + 1
    <3>1. k - 1 = n /\ end(F, k) = m + 3
      <4>1. k - 1 = n
        BY <1>1
      <4>2. end(F, k) = m + 3
        BY <2>2, Zenon
      <4> QED BY <4>1, <4>2
    <3> HIDE DEF k
    <3>2. level(F, k) = SubSeq(F, end(F, k - 1) + 1, end(F, k) - 1)
      BY DEF level
    <3>3. end(F, k - 1) + 1 = m + 2 /\ end(F, k) - 1 = m + 2
      BY <1>1, <1>8, <3>1
    <3>4. level(F, k) = SubSeq(F, m + 2, m + 2)
      BY <3>2, <3>3, Zenon
    <3> QED BY <3>4 DEF k
  <2>4. F[m + 2] \in Character /\ m + 2 \in Int
    BY <1>1, <1>6 DEF Character
  <2>5. \A i \in m + 2 .. m + 2 : F[i] \in Character
    BY <1>1, <2>4
  <2>6. /\ SubSeq(F, m + 2, m + 2) \in Seq(Character)
        /\ Len(SubSeq(F, m + 2, m + 2)) = 1
        /\ SubSeq(F, m + 2, m + 2)[1] = F[m + 2]
    <3>1. /\ SubSeq(F, m + 2, m + 2) \in Seq(Character)
          /\ Len(SubSeq(F, m + 2, m + 2))
               = IF m + 2 <= m + 2 THEN m + 2 - (m + 2) + 1 ELSE 0
          /\ \A i \in 1 .. m + 2 - (m + 2) + 1 :
               SubSeq(F, m + 2, m + 2)[i] = F[m + 2 + i - 1]
      BY <2>4, <2>5, SubSeqProperties
    <3>2. 1 \in 1 .. m + 2 - (m + 2) + 1 /\ m + 2 + 1 - 1 = m + 2 /\ m + 2 <= m + 2
          /\ m + 2 - (m + 2) + 1 = 1
      BY <1>1
    <3> QED BY <3>1, <3>2
  <2>7. SubSeq(F, m + 2, m + 2) = <<"#">>
    <3> DEFINE u == SubSeq(F, m + 2, m + 2)
    <3>1. u \in Seq(Character) /\ Len(u) = 1 /\ u[1] = "#"
      BY <1>6, <2>6
    <3> HIDE DEF u
    <3>2. <<"#">> \in Seq(Character) /\ Len(<<"#">>) = 1 /\ <<"#">>[1] = "#"
      BY <1>6, <2>4
    <3>3. \A i \in 1 .. 1 : u[i] = <<"#">>[i]
      BY <3>1, <3>2
    <3>4. u = <<"#">>
      BY <3>1, <3>2, <3>3, SeqEqual
    <3> QED BY <3>4 DEF u
  <2> QED BY <2>3, <2>7
<1> QED BY <1>3, <1>4, <1>5, <1>6, <1>7, <1>10, <1>11 DEF F

-----------------------------------------------------------------------------
(***************************************************************************)
(* A text without a wildcard is matched by itself only, as a filter.       *)
(***************************************************************************)
plain(text) == \A i \in DOMAIN text : text[i] \notin {"+", "#"}

LEMMA PlainLevels ==
  ASSUME NEW text \in Texts, NEW k \in 1 .. levels(text),
         \A i \in DOMAIN text : i < end(text, k) => text[i] \notin {"+", "#"}
  PROVE  level(text, k) # <<"+">> /\ level(text, k) # <<"#">>
<1> SUFFICES ASSUME NEW c \in {"+", "#"}, level(text, k) = <<c>>
             PROVE  FALSE
  OBVIOUS
<1>1. Len(text) \in Nat /\ DOMAIN text = 1 .. Len(text) /\ levels(text) \in Nat \ {0}
  BY SlashesFinite
<1> DEFINE a == end(text, k - 1)
<1>2. a + 1 \in 1 .. Len(text) /\ text[a + 1] = c /\ end(text, k) = a + 2
  BY OneCharacter
<1>3. a \in 0 .. Len(text)
  BY LevelsEnd
<1> HIDE DEF a
<1>4. a + 1 < end(text, k)
  BY <1>1, <1>2, <1>3
<1> QED BY <1>1, <1>2, <1>4

(***************************************************************************)
(* What matchesUnshared says, without its definitions.                     *)
(***************************************************************************)
isOpen(filter) == level(filter, levels(filter)) = <<"#">>

fixedLevels(filter) == IF isOpen(filter) THEN levels(filter) - 1 ELSE levels(filter)

LEMMA MatchesIs ==
  ASSUME NEW filter, NEW topic
  PROVE  matchesUnshared(filter, topic) <=>
           /\ IF isOpen(filter) THEN levels(topic) >= fixedLevels(filter)
              ELSE levels(topic) = fixedLevels(filter)
           /\ \A k \in 1 .. fixedLevels(filter) : level(filter, k) \in {<<"+">>, level(topic, k)}
BY Zenon DEF matchesUnshared, isOpen, fixedLevels

(***************************************************************************)
(* A filter with a wildcard, unshared: what comes before the wildcard ends *)
(* with a slash, and a topic it matches agrees with it up to that slash.   *)
(***************************************************************************)
LEMMA UpToWildcard ==
  ASSUME NEW filter, isFilter(filter), ~isShared(filter),
         NEW topic, isTopic(topic), Matches(filter, topic),
         NEW w \in DOMAIN filter, filter[w] \in {"+", "#"}, w # 1,
         \A i \in DOMAIN filter : i < w => filter[i] \notin {"+", "#"}
  PROVE  /\ filter[w - 1] = "/" /\ w \in Nat /\ w - 1 \in 1 .. Len(filter)
         /\ rank(filter, w - 1) \in 1 .. levels(filter) - 1
         /\ rank(filter, w - 1) <= levels(topic)
         /\ end(filter, rank(filter, w - 1)) = w - 1
         /\ end(topic, rank(filter, w - 1)) = w - 1
         /\ Agree(filter, topic, w - 2)
<1>1. filter \in Texts /\ topic \in Texts
  BY SeqMonotonic DEF isFilter, isTopic, isText, Texts, Character
<1>2. /\ Len(filter) \in Nat /\ DOMAIN filter = 1 .. Len(filter) /\ levels(filter) \in Nat \ {0}
      /\ Len(topic) \in Nat /\ DOMAIN topic = 1 .. Len(topic) /\ levels(topic) \in Nat \ {0}
  BY <1>1, SlashesFinite
<1>3. w \in Nat /\ w - 1 \in 1 .. Len(filter) /\ w - 1 \in DOMAIN filter
  BY <1>2
<1>4. filter[w - 1] = "/"
  <2>1. filter[w - 1] \in {"/", Shared}
    BY DEF isFilter
  <2>2. filter[w - 1] # Shared
    <3>1. SUFFICES ASSUME filter[w - 1] = Shared
                   PROVE  FALSE
      OBVIOUS
    <3>2. w - 1 = 1
      BY <1>3, <3>1 DEF isFilter
    <3>3. Head(filter) = filter[1] /\ filter # <<>>
      BY <1>1, <1>2, <1>3 DEF Texts
    <3> QED BY <3>1, <3>2, <3>3 DEF isShared
  <2> QED BY <2>1, <2>2
<1> DEFINE k == rank(filter, w - 1)
<1>5. k \in 1 .. levels(filter) - 1 /\ end(filter, k) = w - 1
  <2>1. w - 1 \in slashes(filter)
    BY <1>3, <1>4 DEF slashes
  <2> QED BY <1>1, <2>1, SlashIsEnd
<1>6. matchesUnshared(filter, topic)
  BY DEF Matches
<1>7. fixedLevels(filter) \in {levels(filter) - 1, levels(filter)}
      /\ levels(topic) >= fixedLevels(filter)
  BY <1>1, <1>2, <1>6, MatchesIs DEF fixedLevels
<1> HIDE DEF k
<1>8. k <= levels(topic) /\ k <= fixedLevels(filter) /\ k \in 1 .. levels(filter)
  BY <1>2, <1>5, <1>7
<1>9. ASSUME NEW j \in 1 .. k
      PROVE  level(filter, j) = level(topic, j)
  <2>1. j \in 1 .. fixedLevels(filter) /\ j \in 1 .. levels(filter)
    BY <1>2, <1>5, <1>7, <1>8
  <2>2. level(filter, j) \in {<<"+">>, level(topic, j)}
    BY <1>6, <2>1, MatchesIs
  <2>3. end(filter, j) <= w - 1
    <3>1. CASE j = k
      BY <1>3, <1>5, <3>1
    <3>2. CASE j # k
      <4>1. j \in 1 .. levels(filter) - 1 /\ k \in 1 .. levels(filter) - 1 /\ j < k
        BY <1>2, <1>5, <3>2
      <4>2. rank(filter, end(filter, j)) = j /\ rank(filter, end(filter, k)) = k
        BY <1>1, <4>1, EndIsSlash
      <4>3. end(filter, j) \in 0 .. Len(filter) /\ end(filter, k) \in 0 .. Len(filter)
        BY <1>1, <1>2, <4>1, LevelsEnd
      <4>4. ~(end(filter, k) <= end(filter, j))
        <5>1. SUFFICES ASSUME end(filter, k) <= end(filter, j)
                       PROVE  FALSE
          OBVIOUS
        <5>2. rank(filter, end(filter, k)) <= rank(filter, end(filter, j))
          BY <1>1, <4>3, <5>1, RankGrows
        <5> QED BY <4>1, <4>2, <5>2
      <4> QED BY <1>2, <1>5, <4>3, <4>4
    <3> QED BY <3>1, <3>2
  <2>4. end(filter, j) \in 0 .. Len(filter) + 1
    BY <1>1, <1>2, <2>1, LevelsEnd
  <2>5. \A i \in DOMAIN filter : i < end(filter, j) => filter[i] \notin {"+", "#"}
    <3> SUFFICES ASSUME NEW i \in DOMAIN filter, i < end(filter, j)
                 PROVE  filter[i] \notin {"+", "#"}
      OBVIOUS
    <3>1. i < w
      BY <1>2, <1>3, <2>3, <2>4
    <3> QED BY <3>1
  <2>6. level(filter, j) # <<"+">>
    BY <1>1, <2>1, <2>5, PlainLevels
  <2> QED BY <2>2, <2>6
<1>10. end(topic, k) = end(filter, k) /\ Agree(filter, topic, end(filter, k) - 1)
  BY <1>1, <1>8, <1>9, SameLevels
<1>11. w - 1 - 1 = w - 2
  BY <1>3
<1>12. end(topic, k) = w - 1 /\ Agree(filter, topic, w - 2)
  BY <1>5, <1>10, <1>11
<1> QED BY <1>3, <1>4, <1>5, <1>8, <1>12 DEF k

(***************************************************************************)
(* Prefixes, character by character.                                       *)
(***************************************************************************)
LEMMA FirstCharacters ==
  ASSUME NEW text \in Texts, NEW m \in 0 .. Len(text)
  PROVE  /\ SubSeq(text, 1, m) \in Texts /\ Len(SubSeq(text, 1, m)) = m
         /\ \A i \in 1 .. m : SubSeq(text, 1, m)[i] = text[i]
<1>1. Len(text) \in Nat
  BY SlashesFinite
<1>2. \A i \in 1 .. m : text[i] \in Character
  <2>1. \A i \in 1 .. m : i \in 1 .. Len(text)
    BY <1>1
  <2> QED BY <2>1, ElementOfSeq DEF Texts
<1>3. 1 \in Int /\ m \in Int
  BY <1>1
<1>4. /\ SubSeq(text, 1, m) \in Seq(Character)
      /\ Len(SubSeq(text, 1, m)) = IF 1 <= m THEN m - 1 + 1 ELSE 0
      /\ \A i \in 1 .. m - 1 + 1 : SubSeq(text, 1, m)[i] = text[1 + i - 1]
  BY <1>2, <1>3, SubSeqProperties
<1>5. Len(SubSeq(text, 1, m)) = m
  BY <1>1, <1>4
<1>6. ASSUME NEW i \in 1 .. m
      PROVE  SubSeq(text, 1, m)[i] = text[i]
  <2>1. i \in 1 .. m - 1 + 1 /\ 1 + i - 1 = i
    BY <1>1
  <2> QED BY <1>4, <2>1
<1> QED BY <1>4, <1>5, <1>6 DEF Texts

LEMMA PrefixIs ==
  ASSUME NEW text \in Texts, NEW other \in Texts
  PROVE  IsPrefix(text, other) <=> Agree(text, other, Len(text))
<1>1. Len(text) \in Nat /\ Len(other) \in Nat
  BY SlashesFinite
<1>2. ASSUME Len(text) <= Len(other)
      PROVE  SubSeq(text, 1, Len(text)) = SubSeq(other, 1, Len(text))
               <=> \A i \in 1 .. Len(text) : text[i] = other[i]
  <2> DEFINE m == Len(text)
             s == SubSeq(text, 1, m)
             t == SubSeq(other, 1, m)
  <2>1. m \in 0 .. Len(text) /\ m \in 0 .. Len(other)
    BY <1>1, <1>2
  <2>2. s \in Texts /\ Len(s) = m /\ \A i \in 1 .. m : s[i] = text[i]
    BY <2>1, FirstCharacters
  <2>3. t \in Texts /\ Len(t) = m /\ \A i \in 1 .. m : t[i] = other[i]
    BY <2>1, FirstCharacters
  <2> HIDE DEF s, t
  <2>4. s = t => \A i \in 1 .. m : text[i] = other[i]
    BY <2>2, <2>3
  <2>5. (\A i \in 1 .. m : text[i] = other[i]) => s = t
    <3>1. SUFFICES ASSUME \A i \in 1 .. m : text[i] = other[i]
                   PROVE  s = t
      OBVIOUS
    <3>2. Len(s) = Len(t) /\ \A i \in 1 .. Len(s) : s[i] = t[i]
      BY <2>2, <2>3, <3>1
    <3> QED BY <2>2, <2>3, <3>2, SeqEqual DEF Texts
  <2> QED BY <2>4, <2>5 DEF s, t
<1>3. IsPrefix(text, other) <=>
        Len(text) <= Len(other) /\ SubSeq(text, 1, Len(text)) = SubSeq(other, 1, Len(text))
  BY Zenon DEF IsPrefix
<1> QED BY <1>1, <1>2, <1>3 DEF Agree

LEMMA MinIs ==
  ASSUME NEW T, T \subseteq Nat, T # {}
  PROVE  Min(T) \in T /\ \A n \in T : Min(T) <= n
<1>1. PICK m \in T : \A n \in T : m <= n
  BY Least
<1> QED BY <1>1 DEF Min

-----------------------------------------------------------------------------
(***************************************************************************)
(* For every filter and every topic, HandedToItsSource.                    *)
(***************************************************************************)
LEMMA Handed ==
  ASSUME NEW filter, isFilter(filter), NEW topic, isTopic(topic)
  PROVE  HandedToItsSource(filter, topic)
<1> SUFFICES ASSUME Matches(filter, topic)
             PROVE  owns(filter, topic) <=>
                      ~isShared(filter) /\ filter # topic \o <<"/", "#">>
  BY DEF HandedToItsSource
<1> DEFINE wild == {i \in DOMAIN filter : filter[i] \in {"+", "#"}}
           open == topic \o <<"/", "#">>
<1>1. filter \in Texts /\ topic \in Texts /\ filter # <<>> /\ topic # <<>>
  BY SeqMonotonic DEF isFilter, isTopic, isText, Texts, Character
<1>2. /\ Len(filter) \in Nat /\ DOMAIN filter = 1 .. Len(filter) /\ levels(filter) \in Nat \ {0}
      /\ Len(topic) \in Nat /\ DOMAIN topic = 1 .. Len(topic) /\ levels(topic) \in Nat \ {0}
  BY <1>1, SlashesFinite
<1>3. 1 \in DOMAIN filter /\ 1 \in DOMAIN topic
  <2>1. Len(filter) # 0 /\ Len(topic) # 0
    BY <1>1, EmptySeq DEF Texts
  <2> QED BY <1>2, <2>1
<1>4. Head(filter) = filter[1]
  BY <1>1 DEF Texts
<1>5. wild \subseteq Nat
  BY <1>2
<1>6. topicPrefix(filter) = IF wild = {} THEN filter ELSE SubSeq(filter, 1, Min(wild) - 1)
  BY Zenon DEF topicPrefix
<1>7. /\ open \in Texts /\ Len(open) = Len(topic) + 2
      /\ \A i \in 1 .. Len(topic) : open[i] = topic[i]
      /\ open[Len(topic) + 1] = "/" /\ open[Len(topic) + 2] = "#"
  BY <1>1, OpenFilter
<1>8. \A i \in DOMAIN topic : topic[i] \notin {"+", "#", Shared}
  BY DEF isTopic
<1>9. ASSUME wild # {}
      PROVE  /\ Min(wild) \in DOMAIN filter /\ filter[Min(wild)] \in {"+", "#"}
             /\ \A i \in DOMAIN filter : i < Min(wild) => filter[i] \notin {"+", "#"}
             /\ Min(wild) - 1 \in 0 .. Len(filter)
  <2>1. Min(wild) \in wild /\ \A i \in wild : Min(wild) <= i
    BY <1>5, <1>9, MinIs
  <2> DEFINE w == Min(wild)
  <2>2. w \in DOMAIN filter /\ filter[w] \in {"+", "#"} /\ \A i \in wild : w <= i
    BY <2>1
  <2> HIDE DEF w
  <2>3. \A i \in DOMAIN filter : i < w => filter[i] \notin {"+", "#"}
    <3> SUFFICES ASSUME NEW i \in DOMAIN filter, i < w, filter[i] \in {"+", "#"}
                 PROVE  FALSE
      OBVIOUS
    <3>1. i \in wild
      OBVIOUS
    <3>2. w <= i
      BY <2>2, <3>1
    <3> QED BY <1>2, <2>2, <3>2
  <2>4. w - 1 \in 0 .. Len(filter)
    BY <1>2, <2>2
  <2> QED BY <2>2, <2>3, <2>4 DEF w
<1>10. CASE isShared(filter)
  <2>1. filter[1] = Shared
    BY <1>4, <1>10 DEF isShared
  <2>2. topic[1] # Shared
    BY <1>3, <1>8
  <2>3. ~IsPrefix(topicPrefix(filter), topic)
    <3>1. CASE wild = {}
      <4>1. topicPrefix(filter) = filter
        BY <1>6, <3>1
      <4>2. ~Agree(filter, topic, Len(filter))
        BY <1>2, <1>3, <2>1, <2>2 DEF Agree
      <4> QED BY <1>1, <4>1, <4>2, PrefixIs
    <3>2. CASE wild # {}
      <4> DEFINE w == Min(wild)
                 s == SubSeq(filter, 1, w - 1)
      <4>1. w \in DOMAIN filter /\ filter[w] \in {"+", "#"} /\ w - 1 \in 0 .. Len(filter)
        BY <1>9, <3>2
      <4>2. topicPrefix(filter) = s
        BY <1>6, <3>2
      <4> HIDE DEF w, wild
      <4>3. s \in Texts /\ Len(s) = w - 1 /\ \A i \in 1 .. w - 1 : s[i] = filter[i]
        BY <1>1, <4>1, FirstCharacters
      <4>4. w # 1
        BY <2>1, <4>1 DEF Shared
      <4>5. 1 \in 1 .. w - 1
        BY <1>2, <4>1, <4>4
      <4>6. s[1] # topic[1]
        BY <2>1, <2>2, <4>3, <4>5
      <4> HIDE DEF s
      <4>7. ~Agree(s, topic, Len(s))
        BY <4>3, <4>5, <4>6 DEF Agree
      <4> QED BY <1>1, <4>2, <4>3, <4>7, PrefixIs
    <3> QED BY <3>1, <3>2
  <2> QED BY <1>10, <2>3 DEF owns
<1>11. CASE ~isShared(filter) /\ wild = {}
  <2>1. matchesUnshared(filter, topic)
    BY <1>11 DEF Matches
  <2>2. \A k \in 1 .. levels(filter) : level(filter, k) # <<"+">> /\ level(filter, k) # <<"#">>
    <3>1. \A i \in DOMAIN filter : filter[i] \notin {"+", "#"}
      BY <1>11
    <3> HIDE DEF wild
    <3> QED BY <1>1, <3>1, PlainLevels
  <2>3. ~isOpen(filter)
    BY <1>2, <2>2 DEF isOpen
  <2>4. levels(topic) = levels(filter)
    BY <2>1, <2>3, MatchesIs DEF fixedLevels
  <2>5. \A k \in 1 .. levels(filter) : level(filter, k) = level(topic, k)
    BY <2>1, <2>2, <2>3, MatchesIs DEF fixedLevels
  <2>6. /\ end(topic, levels(filter)) = end(filter, levels(filter))
        /\ Agree(filter, topic, end(filter, levels(filter)) - 1)
    <3>1. levels(filter) \in 1 .. levels(filter) /\ levels(filter) <= levels(topic)
      BY <1>2, <2>4
    <3> QED BY <1>1, <2>5, <3>1, SameLevels
  <2>7. Len(topic) + 1 = Len(filter) + 1
    <3>1. /\ end(topic, levels(topic)) = Len(topic) + 1
          /\ end(filter, levels(filter)) = Len(filter) + 1
      BY <1>1, LevelsEnd
    <3> QED BY <2>4, <2>6, <3>1
  <2>8. Len(topic) = Len(filter)
    <3>1. Len(topic) \in Nat /\ Len(filter) \in Nat
      BY <1>2
    <3> QED BY <2>7, <3>1
  <2>9. Len(filter) + 1 - 1 = Len(filter)
    BY <1>2
  <2>10. Agree(filter, topic, Len(filter))
    BY <1>1, <2>6, <2>9, LevelsEnd
  <2>11. owns(filter, topic)
    <3>1. topicPrefix(filter) = filter
      BY <1>6, <1>11
    <3> QED BY <1>1, <2>10, <3>1, PrefixIs DEF owns
  <2>12. Len(filter) # Len(open)
    <3>1. Len(topic) \in Nat
      BY <1>2
    <3> HIDE DEF open
    <3> QED BY <1>7, <2>8, <3>1
  <2> QED BY <1>11, <2>11, <2>12
<1>12. CASE ~isShared(filter) /\ wild # {}
  <2> DEFINE w == Min(wild)
             s == SubSeq(filter, 1, w - 1)
  <2>1. /\ w \in DOMAIN filter /\ filter[w] \in {"+", "#"} /\ w - 1 \in 0 .. Len(filter)
        /\ \A i \in DOMAIN filter : i < w => filter[i] \notin {"+", "#"}
    BY <1>9, <1>12
  <2>2. topicPrefix(filter) = s
    BY <1>6, <1>12
  <2> HIDE DEF w, wild
  <2>3. s \in Texts /\ Len(s) = w - 1 /\ \A i \in 1 .. w - 1 : s[i] = filter[i]
    BY <1>1, <2>1, FirstCharacters
  <2>4. owns(filter, topic) <=> Agree(s, topic, w - 1)
    <3> HIDE DEF s
    <3> QED BY <1>1, <2>2, <2>3, PrefixIs DEF owns
  <2>5. CASE w = 1
    <3>1. Agree(s, topic, w - 1)
      <4> HIDE DEF s
      <4> QED BY <1>2, <2>3, <2>5 DEF Agree
    <3>2. filter[1] # open[1]
      <4>1. open[1] = topic[1]
        BY <1>2, <1>3, <1>7
      <4> QED BY <1>3, <1>8, <2>1, <2>5, <4>1
    <3> QED BY <1>12, <2>4, <3>1, <3>2
  <2>6. CASE w # 1
    <3> DEFINE k == rank(filter, w - 1)
    <3>1. /\ filter[w - 1] = "/" /\ w \in Nat /\ w - 1 \in 1 .. Len(filter)
          /\ k \in 1 .. levels(filter) - 1 /\ k <= levels(topic)
          /\ end(filter, k) = w - 1 /\ end(topic, k) = w - 1
          /\ Agree(filter, topic, w - 2)
      BY <1>12, <2>1, <2>6, UpToWildcard
    <3> HIDE DEF k, s
    <3>2. CASE k < levels(topic)
      <4>1. k \in 1 .. levels(topic) - 1
        BY <1>2, <3>1, <3>2
      <4>2. topic[w - 1] = "/" /\ w - 1 \in 1 .. Len(topic)
        BY <1>1, <3>1, <4>1, LevelsEnd
      <4>3. \A i \in 1 .. w - 1 : s[i] = topic[i]
        <5> SUFFICES ASSUME NEW i \in 1 .. w - 1
                     PROVE  s[i] = topic[i]
          OBVIOUS
        <5>1. CASE i = w - 1
          BY <2>3, <3>1, <4>2, <5>1
        <5>2. CASE i # w - 1
          <6>1. i \in 1 .. w - 2
            BY <3>1, <5>2
          <6> QED BY <2>3, <3>1, <6>1 DEF Agree
        <5> QED BY <5>1, <5>2
      <4>4. Agree(s, topic, w - 1)
        BY <1>2, <2>3, <3>1, <4>2, <4>3 DEF Agree
      <4>5. filter # open
        <5>1. SUFFICES ASSUME filter = open
                       PROVE  FALSE
          OBVIOUS
        <5>2. w \in 1 .. Len(topic) + 1
          BY <1>2, <3>1, <4>2
        <5>3. w \notin 1 .. Len(topic)
          <6>1. SUFFICES ASSUME w \in 1 .. Len(topic)
                         PROVE  FALSE
            OBVIOUS
          <6>2. open[w] = topic[w] /\ w \in DOMAIN topic
            BY <1>2, <1>7, <6>1
          <6> HIDE DEF open
          <6> QED BY <1>8, <2>1, <5>1, <6>2
        <5>4. w = Len(topic) + 1
          BY <1>2, <5>2, <5>3
        <5> HIDE DEF open
        <5> QED BY <1>7, <2>1, <5>1, <5>4
      <4> QED BY <1>12, <2>4, <4>4, <4>5
    <3>3. CASE ~(k < levels(topic))
      <4>1. k = levels(topic)
        BY <1>2, <3>1, <3>3
      <4>2. w - 1 = Len(topic) + 1
        BY <1>1, <3>1, <4>1, LevelsEnd
      <4>3. ~Agree(s, topic, w - 1)
        <5>1. w - 1 \notin 0 .. Len(topic)
          BY <1>2, <4>2
        <5> QED BY <5>1 DEF Agree
      <4>4. matchesUnshared(filter, topic)
        BY <1>12 DEF Matches
      <4>5. isOpen(filter) /\ levels(filter) = k + 1
        <5>1. CASE isOpen(filter)
          <6>1. levels(topic) >= levels(filter) - 1
            BY <4>4, <5>1, MatchesIs DEF fixedLevels
          <6> QED BY <1>2, <3>1, <4>1, <5>1, <6>1
        <5>2. CASE ~isOpen(filter)
          <6>1. levels(topic) = levels(filter)
            BY <4>4, <5>2, MatchesIs DEF fixedLevels
          <6> QED BY <1>2, <3>1, <4>1, <6>1
        <5> QED BY <5>1, <5>2
      <4>6. filter[w] = "#" /\ Len(filter) = w
        <5> DEFINE n == levels(filter)
        <5>1. n \in 1 .. n /\ level(filter, n) = <<"#">>
          BY <1>2, <4>5 DEF isOpen
        <5> HIDE DEF n
        <5>2. filter[end(filter, n - 1) + 1] = "#" /\ end(filter, n) = end(filter, n - 1) + 2
          BY <1>1, <5>1, OneCharacter DEF n
        <5>3. n - 1 = k
          BY <1>2, <3>1, <4>5 DEF n
        <5>4. end(filter, n) = Len(filter) + 1
          BY <1>1, LevelsEnd DEF n
        <5>5. end(filter, n - 1) = w - 1
          BY <3>1, <5>3
        <5>6. w - 1 + 1 = w
          BY <3>1
        <5>7. filter[w] = "#"
          BY <5>2, <5>5, <5>6
        <5>8. Len(filter) + 1 = w - 1 + 2
          BY <5>2, <5>4, <5>5
        <5>9. Len(filter) \in Nat /\ w \in Nat
          BY <1>2, <3>1
        <5> QED BY <5>7, <5>8, <5>9
      <4>7. filter = open
        <5>1. Len(filter) = Len(open) /\ w = Len(topic) + 2
          BY <1>2, <1>7, <3>1, <4>2, <4>6
        <5>2. ASSUME NEW i \in 1 .. Len(filter)
              PROVE  filter[i] = open[i]
          <6>1. CASE i = w
            BY <1>7, <4>6, <5>1, <6>1
          <6>2. CASE i = w - 1
            BY <1>7, <3>1, <4>2, <6>2
          <6>3. CASE i # w /\ i # w - 1
            <7>1. i \in 1 .. w - 2 /\ i \in 1 .. Len(topic)
              BY <1>2, <3>1, <4>6, <5>1, <6>3
            <7> QED BY <1>7, <3>1, <7>1 DEF Agree
          <6> QED BY <6>1, <6>2, <6>3
        <5> HIDE DEF open
        <5> QED BY <1>1, <1>7, <5>1, <5>2, SeqEqual DEF Texts
      <4> QED BY <2>4, <4>3, <4>7
    <3> QED BY <3>2, <3>3
  <2> QED BY <2>5, <2>6
<1> QED BY <1>10, <1>11, <1>12

-----------------------------------------------------------------------------
(***************************************************************************)
(* What discover prints begins the topic, and ends where a level does.     *)
(***************************************************************************)
LEMMA PrefixBegins ==
  ASSUME NEW topic \in Texts, NEW depth \in Nat \ {0}
  PROVE  prefixOf(topic, depth) \in Texts /\ Begins(prefixOf(topic, depth), topic)
<1>1. Len(topic) \in Nat /\ levels(topic) \in Nat \ {0}
  BY SlashesFinite
<1>2. CASE levels(topic) <= depth
  <2>1. prefixOf(topic, depth) = topic
    BY <1>2 DEF prefixOf
  <2>2. Begins(topic, topic)
    BY <1>1 DEF Begins, Agree
  <2> QED BY <2>1, <2>2
<1>3. CASE ~(levels(topic) <= depth)
  <2> DEFINE e == end(topic, depth)
             s == SubSeq(topic, 1, e - 1)
  <2>1. prefixOf(topic, depth) = s
    BY <1>3 DEF prefixOf
  <2>2. depth \in 1 .. levels(topic) - 1
    BY <1>1, <1>3
  <2>3. e \in 1 .. Len(topic) /\ topic[e] = "/"
    BY <2>2, LevelsEnd
  <2> HIDE DEF e
  <2>4. e - 1 \in 0 .. Len(topic) /\ e - 1 + 1 = e
    BY <1>1, <2>3
  <2>5. s \in Texts /\ Len(s) = e - 1 /\ \A i \in 1 .. e - 1 : s[i] = topic[i]
    BY <2>4, FirstCharacters
  <2> HIDE DEF s
  <2>6. Begins(s, topic)
    BY <1>1, <2>3, <2>4, <2>5 DEF Begins, Agree
  <2> QED BY <2>1, <2>5, <2>6
<1> QED BY <1>2, <1>3

(***************************************************************************)
(* A filter that is open after some levels matches what begins with them.  *)
(***************************************************************************)
LEMMA OpenMatches ==
  ASSUME NEW text \in Texts, NEW topic, isTopic(topic), Begins(text, topic)
  PROVE  Matches(text \o <<"/", "#">>, topic)
<1> DEFINE F == text \o <<"/", "#">>
           n == levels(text)
<1>1. topic \in Texts /\ topic # <<>>
  BY SeqMonotonic DEF isTopic, isText, Texts, Character
<1>2. /\ Len(text) \in Nat /\ n \in Nat \ {0}
      /\ Len(topic) \in Nat /\ DOMAIN topic = 1 .. Len(topic) /\ levels(topic) \in Nat \ {0}
  BY <1>1, SlashesFinite
<1>3. /\ F \in Texts /\ Len(F) = Len(text) + 2
      /\ \A i \in 1 .. Len(text) : F[i] = text[i]
      /\ F[Len(text) + 1] = "/" /\ F[Len(text) + 2] = "#"
      /\ Begins(text, F) /\ levels(F) = n + 1 /\ level(F, n + 1) = <<"#">>
  BY OpenFilter
<1> HIDE DEF F
<1>4. F[1] # Shared
  <2>1. CASE Len(text) = 0
    BY <1>3, <2>1 DEF Shared
  <2>2. CASE Len(text) # 0
    <3>1. 1 \in 1 .. Len(text) /\ 1 \in DOMAIN topic
      BY <1>2, <2>2 DEF Begins, Agree
    <3>2. F[1] = text[1] /\ text[1] = topic[1]
      BY <1>3, <3>1 DEF Begins, Agree
    <3> QED BY <3>1, <3>2 DEF isTopic
  <2> QED BY <2>1, <2>2
<1>5. ~isShared(F)
  <2>1. F # <<>> => Head(F) = F[1]
    BY <1>3 DEF Texts
  <2> QED BY <1>4, <2>1 DEF isShared
<1>6. isOpen(F) /\ fixedLevels(F) = n
  <2>1. isOpen(F)
    BY <1>3 DEF isOpen
  <2>2. fixedLevels(F) = levels(F) - 1
    BY <2>1 DEF fixedLevels
  <2>3. n \in Nat /\ levels(F) = n + 1
    BY <1>2, <1>3
  <2> HIDE DEF n
  <2> QED BY <2>1, <2>2, <2>3
<1>7. levels(topic) >= n
  BY <1>1, <1>2, FirstLevels
<1>8. ASSUME NEW k \in 1 .. n
      PROVE  level(F, k) = level(topic, k)
  <2>1. level(F, k) = level(text, k)
    BY <1>3, FirstLevels
  <2>2. level(topic, k) = level(text, k)
    BY <1>1, FirstLevels
  <2> QED BY <2>1, <2>2
<1>9. matchesUnshared(F, topic)
  <2> HIDE DEF n
  <2> QED BY <1>6, <1>7, <1>8, MatchesIs
<1>10. Matches(F, topic)
  BY <1>5, <1>9 DEF Matches
<1> QED BY <1>10 DEF F

(***************************************************************************)
(* The filter that discover makes of a prefix that is not empty.           *)
(***************************************************************************)
LEMMA FilterOf ==
  ASSUME NEW text \in Texts, text # <<>>, NEW topic \in Texts, Begins(text, topic)
  PROVE  \E stem \in Texts :
           /\ topicFilter(text) = stem \o <<"/", "#">>
           /\ Begins(stem, topic)
           /\ text[Len(text)] # "/" => stem = text
<1>1. Len(text) \in Nat /\ Len(topic) \in Nat
  BY SlashesFinite
<1> DEFINE m == Len(text)
<1>2. m \in 1 .. m
  <2>1. m # 0
    BY EmptySeq DEF Texts
  <2> QED BY <1>1, <2>1
<1>3. topicFilter(text) = (IF text[m] = "/" THEN Front(text) ELSE text) \o <<"/", "#">>
  BY DEF topicFilter, Last
<1>4. CASE text[m] # "/"
  BY <1>3, <1>4
<1>5. CASE text[m] = "/"
  <2> DEFINE s == SubSeq(text, 1, m - 1)
  <2>1. topicFilter(text) = s \o <<"/", "#">>
    BY <1>3, <1>5 DEF Front
  <2>2. m - 1 \in 0 .. m
    BY <1>1, <1>2
  <2>3. s \in Texts /\ Len(s) = m - 1 /\ \A i \in 1 .. m - 1 : s[i] = text[i]
    BY <2>2, FirstCharacters
  <2> HIDE DEF s
  <2>4. m - 1 + 1 = m /\ m \in 0 .. Len(topic) /\ \A i \in 1 .. m : text[i] = topic[i]
    BY <1>1 DEF Begins, Agree
  <2>5. topic[m] = "/"
    BY <1>2, <1>5, <2>4
  <2>6. Begins(s, topic)
    BY <1>1, <1>2, <2>3, <2>4, <2>5 DEF Begins, Agree
  <2> QED BY <1>5, <2>1, <2>3, <2>6
<1> QED BY <1>4, <1>5

(***************************************************************************)
(* The last level of a text is empty if the text is, or ends with a slash. *)
(***************************************************************************)
LEMMA LastLevel ==
  ASSUME NEW text \in Texts, level(text, levels(text)) # <<>>
  PROVE  text # <<>> /\ text[Len(text)] # "/"
<1> DEFINE m == Len(text)
           n == levels(text)
<1>1. m \in Nat /\ n \in Nat \ {0} /\ DOMAIN text = 1 .. m
  BY SlashesFinite
<1>2. n \in 1 .. n /\ end(text, n) = m + 1
  BY <1>1, LevelsEnd
<1>3. level(text, n) \in Texts /\ Len(level(text, n)) = end(text, n) - 1 - end(text, n - 1)
  BY <1>2, LevelIs
<1>4. end(text, n - 1) \in 0 .. m
  BY <1>2, LevelsEnd
<1>5. Len(level(text, n)) # 0
  BY <1>3, EmptySeq DEF Texts
<1>6. end(text, n - 1) # m
  <2> DEFINE a == end(text, n - 1)
             b == end(text, n)
  <2>1. Len(level(text, n)) = b - 1 - a /\ b = m + 1 /\ a \in 0 .. m
    BY <1>2, <1>3, <1>4
  <2> HIDE DEF a, b, m, n
  <2>2. a # m
    BY <1>1, <1>5, <2>1
  <2> QED BY <2>2 DEF a
<1>7. m # 0
  <2> DEFINE a == end(text, n - 1)
  <2>1. a \in 0 .. m /\ a # m
    BY <1>4, <1>6
  <2> HIDE DEF a, m
  <2> QED BY <1>1, <2>1
<1>8. text[m] # "/"
  <2> SUFFICES ASSUME text[m] = "/"
               PROVE  FALSE
    OBVIOUS
  <2>1. m \in slashes(text)
    BY <1>1, <1>7 DEF slashes
  <2>2. end(text, rank(text, m)) = m
    BY <2>1, SlashIsEnd
  <2>3. rank(text, m) = n - 1
    BY RankSteps
  <2> QED BY <1>6, <2>2, <2>3
<1>9. text # <<>>
  BY <1>7, EmptySeq
<1> QED BY <1>8, <1>9

(***************************************************************************)
(* A topic that matches what was typed begins with it.                     *)
(***************************************************************************)
LEMMA OnlyThese ==
  ASSUME NEW text \in Texts, plain(text), NEW other \in Texts,
         matchesUnshared(text \o <<"/", "#">>, other)
  PROVE  prefixOf(other, levels(text)) = text
<1> DEFINE F == text \o <<"/", "#">>
           n == levels(text)
           m == Len(text)
<1>1. /\ m \in Nat /\ n \in Nat \ {0} /\ DOMAIN text = 1 .. m
      /\ Len(other) \in Nat /\ levels(other) \in Nat \ {0}
  BY SlashesFinite
<1>2. F \in Texts /\ Begins(text, F) /\ levels(F) = n + 1 /\ level(F, n + 1) = <<"#">>
  BY OpenFilter
<1> HIDE DEF F
<1>3. isOpen(F) /\ fixedLevels(F) = n
  <2>1. isOpen(F)
    BY <1>2 DEF isOpen
  <2>2. fixedLevels(F) = levels(F) - 1
    BY <2>1 DEF fixedLevels
  <2>3. n \in Nat /\ levels(F) = n + 1
    BY <1>1, <1>2
  <2> HIDE DEF n
  <2> QED BY <2>1, <2>2, <2>3
<1>4. matchesUnshared(F, other)
  BY DEF F
<1>5. levels(other) >= n /\ \A k \in 1 .. n : level(F, k) \in {<<"+">>, level(other, k)}
  <2> HIDE DEF n
  <2> QED BY <1>3, <1>4, MatchesIs
<1>6. ASSUME NEW k \in 1 .. n
      PROVE  level(text, k) = level(other, k)
  <2>1. level(F, k) = level(text, k)
    BY <1>2, FirstLevels
  <2>2. level(text, k) # <<"+">>
    BY PlainLevels DEF plain
  <2> QED BY <1>5, <2>1, <2>2
<1>7. end(other, n) = end(text, n) /\ Agree(text, other, end(text, n) - 1)
  <2>1. n \in 1 .. n /\ n <= levels(other)
    BY <1>1, <1>5
  <2> QED BY <1>6, <2>1, SameLevels
<1>8. end(text, n) = m + 1 /\ m + 1 - 1 = m
  BY <1>1, LevelsEnd
<1>9. end(other, n) = m + 1 /\ Agree(text, other, m)
  BY <1>7, <1>8
<1>10. m \in 0 .. Len(other) /\ \A i \in 1 .. m : text[i] = other[i]
  BY <1>9 DEF Agree
<1>11. CASE levels(other) <= n
  <2>1. prefixOf(other, n) = other
    BY <1>11 DEF prefixOf
  <2>2. levels(other) = n
    BY <1>1, <1>5, <1>11
  <2>3. Len(other) + 1 = m + 1
    BY <1>9, <2>2, LevelsEnd
  <2>4. Len(other) = m
    BY <1>1, <2>3
  <2>5. text = other
    BY <1>10, <2>4, SeqEqual DEF Texts
  <2> QED BY <2>1, <2>5
<1>12. CASE ~(levels(other) <= n)
  <2> DEFINE s == SubSeq(other, 1, m)
  <2>1. prefixOf(other, n) = s
    BY <1>8, <1>9, <1>12 DEF prefixOf
  <2>2. s \in Texts /\ Len(s) = m /\ \A i \in 1 .. m : s[i] = other[i]
    BY <1>10, FirstCharacters
  <2> HIDE DEF s
  <2>3. text = s
    BY <1>10, <2>2, SeqEqual DEF Texts
  <2> QED BY <2>1, <2>3
<1> QED BY <1>11, <1>12

(***************************************************************************)
(* For every topic, every depth and any other topics, LeadsBack.           *)
(***************************************************************************)
LEMMA Back ==
  ASSUME NEW topic, isTopic(topic), NEW depth \in Nat \ {0},
         NEW topics, \A other \in topics : isTopic(other)
  PROVE  LeadsBack(topic, depth, topics)
<1> DEFINE P == prefixOf(topic, depth)
           F == topicFilter(P)
<1>1. /\ topic \in Texts /\ \A i \in DOMAIN topic : topic[i] \notin {"+", "#", Shared}
      /\ \A other \in topics : other \in Texts
  BY SeqMonotonic DEF isTopic, isText, Texts, Character
<1>2. P \in Texts /\ Begins(P, topic)
  BY <1>1, PrefixBegins
<1> HIDE DEF P
<1>3. Len(topic) \in Nat /\ DOMAIN topic = 1 .. Len(topic)
      /\ Len(P) \in Nat /\ DOMAIN P = 1 .. Len(P) /\ levels(topic) \in Nat \ {0}
  BY <1>1, <1>2, SlashesFinite
<1>4. Matches(F, topic)
  <2>1. CASE P = <<>>
    <3> DEFINE all == <<"#">>
    <3>1. F = all
      BY <2>1 DEF topicFilter
    <3>2. all \in Texts /\ Len(all) = 1 /\ all[1] = "#" /\ DOMAIN all = 1 .. 1 /\ all # <<>>
      <4>1. "#" \in Character
        BY DEF Character
      <4> QED BY <4>1 DEF Texts
    <3>3. ~isShared(all)
      <4>1. Head(all) = "#"
        OBVIOUS
      <4> QED BY <4>1 DEF isShared, Shared
    <3> HIDE DEF all
    <3>4. slashes(all) = {}
      BY <3>2 DEF slashes
    <3>5. levels(all) = 1
      BY <3>4, FS_EmptySet DEF levels
    <3>6. level(all, 1) = all
      <4>1. end(all, 1) = 2
        <5>1. end(all, levels(all)) = Len(all) + 1
          BY <3>2, LevelsEnd
        <5> QED BY <3>2, <3>5, <5>1
      <4>2. 1 \in 1 .. levels(all) /\ 1 - 1 = 0 /\ end(all, 0) = 0
        BY <3>2, <3>5, LevelsEnd
      <4>3. end(all, 1 - 1) = 0
        BY <4>2
      <4> DEFINE u == level(all, 1)
      <4>4. u \in Texts /\ Len(u) = 1 /\ u[1] = all[1]
        <5>1. 1 \in 1 .. end(all, 1) - 1 - end(all, 1 - 1)
          BY <4>1, <4>3
        <5>2. /\ u \in Texts /\ Len(u) = end(all, 1) - 1 - end(all, 1 - 1)
              /\ u[1] = all[end(all, 1 - 1) + 1]
          BY <3>2, <4>2, <5>1, LevelIs
        <5>3. end(all, 1) - 1 - end(all, 1 - 1) = 1 /\ end(all, 1 - 1) + 1 = 1
          BY <4>1, <4>3
        <5> QED BY <5>2, <5>3
      <4> HIDE DEF u
      <4>5. \A i \in 1 .. 1 : u[i] = all[i]
        BY <4>4
      <4>6. u = all
        BY <3>2, <4>4, <4>5, SeqEqual DEF Texts
      <4> QED BY <4>6 DEF u
    <3>7. isOpen(all) /\ fixedLevels(all) = 0
      <4>1. isOpen(all)
        BY <3>5, <3>6 DEF isOpen, all
      <4> QED BY <3>5, <4>1 DEF fixedLevels
    <3>8. matchesUnshared(all, topic)
      BY <1>3, <3>7, MatchesIs
    <3> QED BY <3>1, <3>3, <3>8 DEF Matches
  <2>2. CASE P # <<>>
    <3>1. PICK stem \in Texts : F = stem \o <<"/", "#">> /\ Begins(stem, topic)
      BY <1>1, <1>2, <2>2, FilterOf
    <3>2. Matches(stem \o <<"/", "#">>, topic)
      BY <3>1, OpenMatches
    <3> QED BY <3>1, <3>2
  <2> QED BY <2>1, <2>2
<1>5. \A i \in 1 .. Len(P) : i \in DOMAIN topic /\ P[i] = topic[i]
  <2>1. Len(P) \in 0 .. Len(topic) /\ \A i \in 1 .. Len(P) : P[i] = topic[i]
    BY <1>2 DEF Begins, Agree
  <2>2. Len(P) \in Nat /\ Len(topic) \in Nat /\ DOMAIN topic = 1 .. Len(topic)
    BY <1>3
  <2> QED BY <2>1, <2>2
<1>6. ASSUME level(P, levels(P)) # <<>>, NEW other \in topics, Matches(F, other)
      PROVE  prefixOf(other, levels(P)) = P
  <2>1. P # <<>> /\ P[Len(P)] # "/"
    BY <1>2, <1>6, LastLevel
  <2>2. F = P \o <<"/", "#">>
    BY <1>1, <1>2, <2>1, FilterOf
  <2>3. ~isShared(F)
    <3> DEFINE G == P \o <<"/", "#">>
    <3>1. /\ G \in Texts /\ Len(G) = Len(P) + 2 /\ \A i \in 1 .. Len(P) : G[i] = P[i]
      BY <1>2, OpenFilter
    <3>2. 1 \in 1 .. Len(P)
      <4>1. Len(P) # 0
        BY <1>2, <2>1, EmptySeq DEF Texts
      <4> QED BY <1>3, <4>1
    <3>3. 1 \in DOMAIN topic /\ P[1] = topic[1]
      BY <1>5, <3>2
    <3> HIDE DEF G
    <3>4. G[1] # Shared
      BY <1>1, <3>1, <3>2, <3>3
    <3>5. G # <<>> => Head(G) = G[1]
      BY <3>1 DEF Texts
    <3>6. ~isShared(G)
      BY <3>4, <3>5 DEF isShared
    <3> QED BY <2>2, <3>6 DEF G
  <2>4. matchesUnshared(P \o <<"/", "#">>, other)
    BY <1>6, <2>2, <2>3 DEF Matches
  <2>5. plain(P)
    <3>1. DOMAIN P = 1 .. Len(P)
      BY <1>3
    <3> QED BY <1>1, <1>5, <3>1 DEF plain
  <2> QED BY <1>1, <1>2, <2>4, <2>5, OnlyThese
<1> QED BY <1>4, <1>6, Zenon DEF LeadsBack, P, F

(***************************************************************************)
(* Whatever the filters of the sources and whatever is published, a        *)
(* running exporter hands what the broker sends it to the source that      *)
(* subscribed, with the two exceptions of HandedToItsSource: the prefix    *)
(* that owns compares is enough of the filter.                             *)
(***************************************************************************)
THEOREM MessagesFindTheirSource == Spec => []SourcesGetTheirs
<1>1. allHanded
  BY CommandAssumption, Handed DEF allHanded
<1>2. SourcesGetTheirs
  BY <1>1 DEF SourcesGetTheirs
<1> QED BY <1>2, PTL

(***************************************************************************)
(* Whatever topics discover hears of and whatever its depth, what it       *)
(* prints leads back to them, LeadsBack.                                   *)
(***************************************************************************)
THEOREM PrefixesLeadBack == Spec => []DiscoverLeadsBack
<1>1. allLeadBack
  BY CommandAssumption, Back DEF allLeadBack
<1>2. DiscoverLeadsBack
  BY <1>1 DEF DiscoverLeadsBack
<1> QED BY <1>2, PTL
=============================================================================
