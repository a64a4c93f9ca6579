-------------------------------- MODULE Build --------------------------------
(***************************************************************************)
(* `vredrs build <dir>`, src/driver/build.rs: build_project checks every   *)
(* source against a cache kept on disk, compiles the stale ones serially   *)
(* or with a pool of threads popping one locked queue, and links.  Sources *)
(* are saved by an editor that knows nothing of the build, and the process *)
(* may be killed at any point; sources, cache, objects and the executable  *)
(* outlive it.                                                             *)
(*                                                                         *)
(* A text is <<f, v>>, file f as saved for the v-th time: its content hash *)
(* and mtime.  .veds and .vraw files take the same path.  The .cpps path   *)
(* (one .bin each, neither cached nor linked) is left out.                 *)
(***************************************************************************)
EXTENDS Naturals, Sequences, FiniteSets, Functions

CONSTANTS Files,          \* the .veds and .vraw files scan_dir finds
          Stems,          \* their names without directory and extension
          Stem,           \* file |-> stem
          Jobs,           \* opts.jobs
          Broken,         \* the texts that do not parse
          Refused,        \* the texts whose assembly clang or as refuses
          MaxSaves,       \* bound: times a file is saved
          MaxCrashes,     \* bound: builds killed
          MayEdit         \* whether files are saved while a build runs

ASSUME BuildAssumption ==
    /\ IsFiniteSet(Files)
    /\ Stem \in [Files -> Stems]
    /\ Jobs \in Nat
    /\ MaxSaves \in Nat \ {0}
    /\ Broken \cup Refused \subseteq Files \X (1..MaxSaves)
    /\ MaxCrashes \in Nat
    /\ MayEdit \in BOOLEAN

VARIABLES source,         \* file |-> its current save
          cache,          \* stem |-> the text <stem>.cache names, or None
          ir,             \* stem |-> the text <stem>.ll or .s was made from, or None
          obj,            \* stem |-> the text <stem>.o was made from, or None
          exe,            \* the objects linked into the executable
          phase,          \* what build_project is doing
          opts,           \* the options of this build: clean
          unchecked,      \* files the cache check has yet to look at
          tasks,          \* the queue of files to compile
          linked,         \* cached_objs: the files whose objects will be linked
          results,        \* the files whose threads reported Ok
          worker,         \* per thread: its place in the loop, file and text
          crashes

disk == <<source, cache, ir, obj, exe>>
vars == <<source, cache, ir, obj, exe, phase, opts, unchecked, tasks, linked,
          results, worker, crashes>>

None == <<>>
Workers == 1..(IF Jobs = 0 THEN 1 ELSE Jobs)
Saves == 1..MaxSaves
Text == Files \X Saves
Options == [clean : BOOLEAN]
Phase == {"idle", "clean", "check", "serial", "parallel", "link"}
Place == {"off", "take", "lower", "assemble", "hash", "store", "report"}
Off == [at |-> "off", text |-> None]

TextOf(f) == <<f, source[f]>>
Compiles(f) == TextOf(f) \notin Broken \cup Refused
FileOf(w) == worker[w].text[1]
StemOf(w) == Stem[FileOf(w)]
Goto(w, place) == worker' = [worker EXCEPT ![w].at = place]

Init ==
    /\ source \in [Files -> Saves]
    /\ cache = [s \in Stems |-> None]
    /\ ir = [s \in Stems |-> None]
    /\ obj = [s \in Stems |-> None]
    /\ exe = {}
    /\ phase = "idle"
    /\ opts \in Options
    /\ unchecked = {}
    /\ tasks = <<>>
    /\ linked = {}
    /\ results = {}
    /\ worker = [w \in Workers |-> Off]
    /\ crashes = 0

(***************************************************************************)
(* The main thread                                                         *)
(***************************************************************************)

\* --clean removes the cache first ...
Begin(o) ==
    /\ phase = "idle"
    /\ phase' = IF o.clean THEN "clean" ELSE "check"
    /\ opts' = o
    /\ unchecked' = Files
    /\ linked' = {}
    /\ results' = {}
    /\ cache' = IF o.clean THEN [s \in Stems |-> None] ELSE cache
    /\ UNCHANGED <<source, ir, obj, exe, tasks, worker, crashes>>

\* ... and then what builds have made
Clean ==
    /\ phase = "clean"
    /\ phase' = "check"
    /\ ir' = [s \in Stems |-> None]
    /\ obj' = [s \in Stems |-> None]
    /\ UNCHANGED <<source, cache, exe, opts, unchecked, tasks, linked, results, worker, crashes>>

\* [mutant] an object file is enough
ValidIfPresent(f) == obj[Stem[f]] # None

Valid(f) == cache[Stem[f]] = TextOf(f) /\ obj[Stem[f]] # None

CheckFile(f) ==
    /\ phase = "check"
    /\ f \in unchecked
    /\ unchecked' = unchecked \ {f}
    /\ IF ~opts.clean /\ Valid(f)
       THEN linked' = linked \cup {f} /\ UNCHANGED tasks
       ELSE tasks' = Append(tasks, f) /\ UNCHANGED linked
    /\ UNCHANGED <<disk, phase, opts, results, worker, crashes>>

\* nothing to do, the serial loop, or the threads
Started == IF tasks = <<>> THEN 0 ELSE IF Len(tasks) = 1 \/ Jobs <= 1 THEN 1
           ELSE IF Jobs < Len(tasks) THEN Jobs ELSE Len(tasks)

Start ==
    /\ phase = "check"
    /\ unchecked = {}
    /\ phase' = IF Started = 0 THEN "link" ELSE IF Started = 1 THEN "serial" ELSE "parallel"
    /\ worker' = [w \in Workers |-> IF w <= Started THEN [Off EXCEPT !.at = "take"] ELSE Off]
    /\ UNCHANGED <<disk, opts, unchecked, tasks, linked, results, crashes>>

\* [mutant] results collected when the first thread has ended
JoinFirst ==
    /\ phase \in {"serial", "parallel"}
    /\ \E w \in Workers : worker[w].at = "off"
    /\ phase' = "link"
    /\ linked' = linked \cup results
    /\ UNCHANGED <<disk, opts, unchecked, tasks, results, worker, crashes>>

\* the loop, or every thread, has ended; only threads leave results
Join ==
    /\ phase \in {"serial", "parallel"}
    /\ \A w \in Workers : worker[w].at = "off"
    /\ phase' = "link"
    /\ linked' = linked \cup results
    /\ UNCHANGED <<disk, opts, unchecked, tasks, results, worker, crashes>>

\* the linker refuses an object it is given twice (its symbols clash)
Link ==
    /\ phase = "link"
    /\ phase' = "idle"
    /\ exe' = IF linked # {} /\ IsInjective([f \in linked |-> Stem[f]])
              THEN {obj[Stem[f]] : f \in linked}
              ELSE exe
    /\ UNCHANGED <<source, cache, ir, obj, opts, unchecked, tasks, linked, results, worker, crashes>>

(***************************************************************************)
(* One turn of the loop of a thread, or of the serial loop: take a task    *)
(* and read its source, write the assembly, run clang or as on it, then    *)
(* hash the source again for the cache.                                    *)
(***************************************************************************)

\* a source that does not parse leaves a warning and the files as they were
Reading(f) == [at |-> IF TextOf(f) \in Broken THEN "take" ELSE "lower", text |-> TextOf(f)]

\* [mutant] a task looked at under the lock but not removed
TakePeek(w) ==
    /\ worker[w].at = "take"
    /\ tasks # <<>>
    /\ worker' = [worker EXCEPT ![w] = Reading(Head(tasks))]
    /\ UNCHANGED <<disk, phase, opts, unchecked, tasks, linked, results, crashes>>

\* [mutant] the cache entry written when the source is read
TakeStoring(w) ==
    /\ worker[w].at = "take"
    /\ IF tasks = <<>>
       THEN worker' = [worker EXCEPT ![w] = Off] /\ UNCHANGED <<tasks, cache>>
       ELSE /\ tasks' = Tail(tasks)
            /\ worker' = [worker EXCEPT ![w] = Reading(Head(tasks))]
            /\ cache' = [cache EXCEPT ![Stem[Head(tasks)]] = TextOf(Head(tasks))]
    /\ UNCHANGED <<source, ir, obj, exe, phase, opts, unchecked, linked, results, crashes>>

\* [mutant] a file that does not compile put back into the queue
TakeRetrying(w) ==
    /\ worker[w].at = "take"
    /\ IF tasks = <<>>
       THEN worker' = [worker EXCEPT ![w] = Off] /\ UNCHANGED tasks
       ELSE /\ tasks' = IF TextOf(Head(tasks)) \in Broken
                        THEN Append(Tail(tasks), Head(tasks)) ELSE Tail(tasks)
            /\ worker' = [worker EXCEPT ![w] = Reading(Head(tasks))]
    /\ UNCHANGED <<disk, phase, opts, unchecked, linked, results, crashes>>

Take(w) ==
    /\ worker[w].at = "take"
    /\ IF tasks = <<>>
       THEN worker' = [worker EXCEPT ![w] = Off] /\ UNCHANGED tasks
       ELSE /\ tasks' = Tail(tasks)
            /\ worker' = [worker EXCEPT ![w] = Reading(Head(tasks))]
    /\ UNCHANGED <<disk, phase, opts, unchecked, linked, results, crashes>>

Lower(w) ==
    /\ worker[w].at = "lower"
    /\ ir' = [ir EXCEPT ![StemOf(w)] = worker[w].text]
    /\ Goto(w, "assemble")
    /\ UNCHANGED <<source, cache, obj, exe, phase, opts, unchecked, tasks, linked, results, crashes>>

Assemble(w) ==
    /\ worker[w].at = "assemble"
    /\ ir[StemOf(w)] \notin Refused
    /\ obj' = [obj EXCEPT ![StemOf(w)] = ir[StemOf(w)]]
    /\ Goto(w, "hash")
    /\ UNCHANGED <<source, cache, ir, exe, phase, opts, unchecked, tasks, linked, results, crashes>>

\* [mutant] a failure of the tool taken for a success
RefuseGoesOn(w) ==
    /\ worker[w].at = "assemble"
    /\ ir[StemOf(w)] \in Refused
    /\ \E left \in {obj[StemOf(w)], None} : obj' = [obj EXCEPT ![StemOf(w)] = left]
    /\ Goto(w, "hash")
    /\ UNCHANGED <<source, cache, ir, exe, phase, opts, unchecked, tasks, linked, results, crashes>>

\* the tool fails: a warning, the assembly stays, and the old object stays or is
\* gone, as the tool leaves it
Refuse(w) ==
    /\ worker[w].at = "assemble"
    /\ ir[StemOf(w)] \in Refused
    /\ \E left \in {obj[StemOf(w)], None} : obj' = [obj EXCEPT ![StemOf(w)] = left]
    /\ Goto(w, "take")
    /\ UNCHANGED <<source, cache, ir, exe, phase, opts, unchecked, tasks, linked, results, crashes>>

\* write_cache: the source is hashed as it now is ...
Hash(w) ==
    /\ worker[w].at = "hash"
    /\ worker' = [worker EXCEPT ![w] = [at |-> "store", text |-> TextOf(FileOf(w))]]
    /\ UNCHANGED <<disk, phase, opts, unchecked, tasks, linked, results, crashes>>

\* ... and the cache entry written
Store(w) ==
    /\ worker[w].at = "store"
    /\ cache' = [cache EXCEPT ![StemOf(w)] = worker[w].text]
    /\ Goto(w, IF phase = "parallel" THEN "report" ELSE "take")
    /\ UNCHANGED <<source, ir, obj, exe, phase, opts, unchecked, tasks, linked, results, crashes>>

Report(w) ==
    /\ worker[w].at = "report"
    /\ results' = results \cup {FileOf(w)}
    /\ Goto(w, "take")
    /\ UNCHANGED <<disk, phase, opts, unchecked, tasks, linked, crashes>>

Work(w) ==
    \/ Take(w) \/ Lower(w) \/ Assemble(w) \/ Refuse(w)
    \/ Hash(w) \/ Store(w) \/ Report(w)

(***************************************************************************)
(* The surroundings                                                        *)
(***************************************************************************)

Save(f) ==
    /\ MayEdit \/ phase = "idle"
    /\ source[f] < MaxSaves
    /\ source' = [source EXCEPT ![f] = @ + 1]
    /\ UNCHANGED <<cache, ir, obj, exe, phase, opts, unchecked, tasks, linked, results, worker, crashes>>

\* the process is killed: what it had in memory is gone
Crash ==
    /\ phase # "idle"
    /\ crashes < MaxCrashes
    /\ crashes' = crashes + 1
    /\ phase' = "idle"
    /\ unchecked' = {}
    /\ tasks' = <<>>
    /\ linked' = {}
    /\ results' = {}
    /\ worker' = [w \in Workers |-> Off]
    /\ UNCHANGED <<disk, opts>>

Main == Clean \/ (\E f \in Files : CheckFile(f)) \/ Start \/ Join \/ Link

Next ==
    \/ \E o \in Options : Begin(o)
    \/ Main
    \/ \E w \in Workers : Work(w)
    \/ \E f \in Files : Save(f)
    \/ Crash

Spec == Init /\ [][Next]_vars

\* the scheduler runs the main thread and every thread it has started
Fairness == WF_vars(Main) /\ \A w \in Workers : WF_vars(Work(w))

FairSpec == Spec /\ Fairness

-----------------------------------------------------------------------------

TypeOK ==
    /\ source \in [Files -> Saves]
    /\ cache \in [Stems -> Text \cup {None}]
    /\ ir \in [Stems -> Text \cup {None}]
    /\ obj \in [Stems -> Text \cup {None}]
    /\ exe \subseteq Text \cup {None}
    /\ phase \in Phase
    /\ opts \in Options
    /\ unchecked \subseteq Files
    /\ tasks \in Seq(Files)
    /\ linked \subseteq Files
    /\ results \subseteq Files
    /\ worker \in [Workers -> [at : Place, text : Text \cup {None}]]
    /\ \A w \in Workers : worker[w].at \notin {"off", "take"} => worker[w].text \in Text
    /\ crashes \in 0..MaxCrashes

\* What the cache would accept is what the source compiles to, at every point
\* where the process may be killed (is_cache_valid, build.rs:121).
CacheSound ==
    \A f \in Files : Valid(f) => obj[Stem[f]] = TextOf(f)

\* No two threads write the assembly, the object and the cache entry of one
\* name at a time (the queue of build.rs:284).
OneWriter ==
    \A v, w \in Workers :
        v # w /\ worker[v].at \in Place \ {"off", "take"} /\ worker[w].at \in Place \ {"off", "take"}
            => StemOf(v) # StemOf(w)

\* Whatever mix of cached and compiled files, no object given to the linker is
\* older than its source or another file's (build.rs:222, 312).
LinksFresh ==
    phase = "link" => \A f \in linked : obj[Stem[f]] = TextOf(f)

\* A build that used threads, or had nothing to compile, gives the linker every
\* file that compiles: none is lost between queue, threads and results.
ThreadsLinkAll ==
    [][(phase \in {"check", "parallel"} /\ phase' = "link")
          => linked' = {f \in Files : Compiles(f)}]_vars

\* A build comes to its end, however many threads it starts.
BuildEnds == phase # "idle" ~> phase = "idle"

\* A build links every file it compiled, as the head of build.rs says.
LinksAll == phase = "link" => linked = {f \in Files : Compiles(f)}
=============================================================================
