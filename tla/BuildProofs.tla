----------------------------- MODULE BuildProofs -----------------------------
(***************************************************************************)
(* The builder for any number of files, threads and kills, when every file *)
(* has a name of its own.  The queue gives a file to one thread at most,   *)
(* whatever an editor does meanwhile; without saves during a build, the    *)
(* cache is sound because the object of a name is never older than what    *)
(* its cache entry says.                                                   *)
(***************************************************************************)
EXTENDS Build, SequenceTheorems, TLAPS

OwnStems == \A f, g \in Files : Stem[f] = Stem[g] => f = g

Busy(w) == worker[w].at \notin {"off", "take"}
Queued == {tasks[j] : j \in DOMAIN tasks}

\* threads run between Start and Join only
Quiet == phase \in {"idle", "clean", "check", "link"} => \A w \in Workers : worker[w].at = "off"
\* the queue is empty when the threads have ended
Drained ==
    /\ phase \in {"idle", "clean", "link"} => tasks = <<>>
    /\ phase \in {"serial", "parallel"} /\ tasks # <<>> => \E w \in Workers : worker[w].at # "off"
\* a file has one place: it is yet to be checked, once in the queue, or with one thread
OnePlace ==
    /\ \A j, k \in DOMAIN tasks : tasks[j] = tasks[k] => j = k
    /\ phase = "check" => Queued \cap unchecked = {}
    /\ \A w \in Workers : Busy(w) => FileOf(w) \notin Queued
    /\ \A v, w \in Workers : Busy(v) /\ Busy(w) /\ FileOf(v) = FileOf(w) => v = w

QInv == TypeOK /\ Quiet /\ Drained /\ OnePlace

\* what the disk holds of a file was made from it, and not of a later save
Past ==
    \A f \in Files :
        /\ cache[Stem[f]] # None =>
             cache[Stem[f]][1] = f /\ cache[Stem[f]][2] <= source[f] /\ cache[Stem[f]] \notin Broken \cup Refused
        /\ obj[Stem[f]] # None => obj[Stem[f]][1] = f /\ obj[Stem[f]][2] <= source[f]
\* an object is never older than the cache entry beside it
Newer ==
    \A f \in Files :
        cache[Stem[f]] # None /\ obj[Stem[f]] # None => cache[Stem[f]][2] <= obj[Stem[f]][2]
\* what a thread has made of its file is on the disk
Made ==
    \A w \in Workers : Busy(w) =>
        /\ worker[w].text = TextOf(FileOf(w)) /\ TextOf(FileOf(w)) \notin Broken
        /\ worker[w].at = "assemble" => ir[StemOf(w)] = worker[w].text
        /\ worker[w].at \in {"hash", "store", "report"} =>
              obj[StemOf(w)] = worker[w].text /\ Compiles(FileOf(w))
\* what is to be linked is fresh, and nobody is going to write it again
Settled ==
    /\ phase = "clean" => linked = {} /\ results = {}
    /\ phase # "idle" =>
        \A f \in linked \cup results :
            /\ obj[Stem[f]] = TextOf(f) /\ Compiles(f)
            /\ f \notin Queued /\ (phase = "check" => f \notin unchecked)
            /\ \A w \in Workers : Busy(w) => FileOf(w) # f
\* no file that compiles is lost
Kept ==
    \A f \in Files : Compiles(f) =>
        /\ phase = "clean" => f \in unchecked
        /\ phase = "check" => f \in unchecked \cup Queued \cup linked
        /\ phase = "parallel" => f \in linked \cup results \cup Queued \cup {FileOf(w) : w \in {w \in Workers : Busy(w)}}

DInv == Past /\ Newer /\ Made /\ Settled /\ Kept

-----------------------------------------------------------------------------
LEMMA TextShape ==
    ASSUME NEW t \in Text
    PROVE  t[1] \in Files /\ t[2] \in Saves /\ t = <<t[1], t[2]>> /\ t # None
BY DEF Text, None

LEMMA QueueGrows ==
    ASSUME tasks \in Seq(Files), NEW f \in Files, f \notin Queued, tasks' = Append(tasks, f),
           \A j, k \in DOMAIN tasks : tasks[j] = tasks[k] => j = k
    PROVE  /\ tasks' \in Seq(Files) /\ Queued' = Queued \cup {f}
           /\ \A j, k \in DOMAIN tasks' : tasks'[j] = tasks'[k] => j = k
<1>1. /\ DOMAIN tasks = 1..Len(tasks) /\ Len(tasks) \in Nat
      /\ DOMAIN tasks' = 1..(Len(tasks) + 1)
      /\ \A j \in 1..Len(tasks) : tasks'[j] = tasks[j]
      /\ tasks'[Len(tasks) + 1] = f
  OBVIOUS
<1>2. \A j \in DOMAIN tasks : tasks[j] # f
  BY DEF Queued
<1> QED
  BY <1>1, <1>2 DEF Queued

LEMMA QueueShrinks ==
    ASSUME tasks \in Seq(Files), tasks # <<>>, tasks' = Tail(tasks),
           \A j, k \in DOMAIN tasks : tasks[j] = tasks[k] => j = k
    PROVE  /\ tasks' \in Seq(Files) /\ Head(tasks) \in Files /\ Head(tasks) \in Queued
           /\ Queued' = Queued \ {Head(tasks)}
           /\ \A j, k \in DOMAIN tasks' : tasks'[j] = tasks'[k] => j = k
<1>1. /\ DOMAIN tasks = 1..Len(tasks) /\ Len(tasks) \in Nat \ {0}
      /\ DOMAIN tasks' = 1..(Len(tasks) - 1)
      /\ \A j \in 1..(Len(tasks) - 1) : tasks'[j] = tasks[j + 1]
      /\ Head(tasks) = tasks[1] /\ tasks' \in Seq(Files)
  OBVIOUS
<1>2. Queued' \subseteq Queued \ {Head(tasks)}
  BY <1>1 DEF Queued
<1>3. ASSUME NEW j \in DOMAIN tasks, tasks[j] # Head(tasks) PROVE tasks[j] \in Queued'
  <2>1. j - 1 \in DOMAIN tasks' /\ tasks'[j - 1] = tasks[j]
    BY <1>1, <1>3
  <2> QED
    BY <2>1 DEF Queued
<1>4. tasks[1] \in Files /\ tasks[1] \in Queued
  BY <1>1 DEF Queued
<1>5. Queued \ {Head(tasks)} \subseteq Queued'
  BY <1>3 DEF Queued
<1>6. \A j, k \in DOMAIN tasks' : tasks'[j] = tasks'[k] => j = k
  <2> SUFFICES ASSUME NEW j \in DOMAIN tasks', NEW k \in DOMAIN tasks', tasks'[j] = tasks'[k] PROVE j = k
    OBVIOUS
  <2>1. /\ j + 1 \in DOMAIN tasks /\ k + 1 \in DOMAIN tasks /\ j \in Int /\ k \in Int
        /\ tasks[j + 1] = tasks[k + 1]
    BY <1>1
  <2>2. j + 1 = k + 1
    BY <2>1
  <2> QED
    BY ONLY <2>1, <2>2
<1> QED
  BY ONLY <1>1, <1>2, <1>4, <1>5, <1>6

LEMMA ThreadChanges ==
    ASSUME TypeOK, NEW w \in Workers, NEW r, worker' = [worker EXCEPT ![w] = r]
    PROVE  worker'[w] = r /\ \A v \in Workers : v # w => worker'[v] = worker[v]
BY DEF TypeOK

LEMMA BusyFile ==
    ASSUME TypeOK, NEW w \in Workers, Busy(w)
    PROVE  worker[w].text \in Text /\ FileOf(w) \in Files /\ StemOf(w) \in Stems
BY TextShape, BuildAssumption DEF TypeOK, Busy, FileOf, StemOf

(***************************************************************************)
(* The types                                                               *)
(***************************************************************************)

LEMMA InitType == Init => TypeOK
BY BuildAssumption DEF Init, TypeOK, Off, None, Place, Phase, Text

LEMMA MainType ==
    ASSUME TypeOK, (\E o \in Options : Begin(o)) \/ Main
    PROVE  TypeOK'
<1>1. ASSUME NEW o \in Options, Begin(o) PROVE TypeOK'
  BY <1>1 DEF Begin, TypeOK, Phase
<1>6. CASE Clean
  BY <1>6 DEF Clean, TypeOK, Phase
<1>2. ASSUME NEW f \in Files, CheckFile(f) PROVE TypeOK'
  <2>1. tasks' \in Seq(Files) /\ linked' \subseteq Files
    <3>1. Append(tasks, f) \in Seq(Files)
      BY DEF TypeOK
    <3>2. linked \cup {f} \subseteq Files
      BY DEF TypeOK
    <3> QED
      BY <1>2, <3>1, <3>2 DEF CheckFile, TypeOK
  <2> QED
    BY <1>2, <2>1 DEF CheckFile, TypeOK, disk
<1>3. CASE Start
  <2>1. worker' \in [Workers -> [at : Place, text : Text \cup {None}]] /\ \A w \in Workers : worker'[w].at \in {"off", "take"}
    BY <1>3 DEF Start, Off, Place, None
  <2>2. phase' \in Phase
    BY <1>3 DEF Start, Phase
  <2> QED
    BY <1>3, <2>1, <2>2 DEF Start, TypeOK, disk
<1>4. CASE Join
  BY <1>4 DEF Join, TypeOK, disk, Phase
<1>5. CASE Link
  <2>1. exe' \subseteq Text \cup {None}
    <3>1. \A f \in linked : obj[Stem[f]] \in Text \cup {None}
      BY BuildAssumption DEF TypeOK
    <3> QED
      BY <1>5, <3>1 DEF Link, TypeOK
  <2> QED
    BY <1>5, <2>1 DEF Link, TypeOK, Phase
<1> QED
  BY <1>1, <1>2, <1>3, <1>4, <1>5, <1>6 DEF Main

LEMMA WorkType ==
    ASSUME TypeOK, NEW w \in Workers, Work(w)
    PROVE  TypeOK'
<1>1. CASE Take(w)
  <2>1. CASE tasks = <<>>
    <3>1. worker' \in [Workers -> [at : Place, text : Text \cup {None}]]
      BY <1>1, <2>1 DEF Take, TypeOK, Off, Place
    <3>2. \A v \in Workers : worker'[v] = Off \/ worker'[v] = worker[v]
      BY <1>1, <2>1 DEF Take, TypeOK
    <3>3. \A v \in Workers : worker'[v].at \notin {"off", "take"} => worker'[v].text \in Text
      BY <3>2 DEF TypeOK, Off
    <3> QED
      BY <1>1, <2>1, <3>1, <3>3 DEF Take, TypeOK, disk
  <2>2. CASE tasks # <<>>
    <3>1. tasks' \in Seq(Files) /\ Head(tasks) \in Files
      <4>1. tasks \in Seq(Files) /\ tasks' = Tail(tasks)
        BY <1>1, <2>2 DEF Take, TypeOK
      <4> QED
        BY <4>1, <2>2
    <3>2. Reading(Head(tasks)) \in [at : Place, text : Text \cup {None}] /\ Reading(Head(tasks)).text \in Text
      BY <3>1 DEF Reading, TextOf, Text, TypeOK, Place
    <3>3. worker' = [worker EXCEPT ![w] = Reading(Head(tasks))]
      BY <1>1, <2>2 DEF Take
    <3>4. worker' \in [Workers -> [at : Place, text : Text \cup {None}]]
      BY <3>2, <3>3 DEF TypeOK
    <3>5. worker'[w] = Reading(Head(tasks)) /\ \A v \in Workers : v # w => worker'[v] = worker[v]
      BY <3>3, ThreadChanges
    <3> QED
      BY <1>1, <3>1, <3>2, <3>4, <3>5 DEF Take, TypeOK, disk
  <2> QED
    BY <2>1, <2>2
<1>2. CASE Lower(w)
  <2>1. worker[w].text \in Text
    BY <1>2 DEF Lower, TypeOK
  <2> QED
    BY <1>2, <2>1, BusyFile DEF Lower, Goto, TypeOK, Place, Busy
<1>3. CASE Assemble(w)
  <2>1. StemOf(w) \in Stems
    BY <1>3, BusyFile DEF Assemble, Busy
  <2> QED
    BY <1>3, <2>1 DEF Assemble, Goto, TypeOK, Place
<1>7. CASE Refuse(w)
  <2>1. StemOf(w) \in Stems
    BY <1>7, BusyFile DEF Refuse, Busy
  <2>2. obj' \in [Stems -> Text \cup {None}]
    BY <1>7, <2>1 DEF Refuse, TypeOK
  <2> QED
    BY <1>7, <2>2 DEF Refuse, Goto, TypeOK, Place
<1>4. CASE Hash(w)
  <2>1. TextOf(FileOf(w)) \in Text
    BY <1>4, BusyFile DEF Hash, Busy, TextOf, Text, TypeOK
  <2> QED
    BY <1>4, <2>1 DEF Hash, TypeOK, Place, disk
<1>5. CASE Store(w)
  <2>1. worker[w].text \in Text
    BY <1>5 DEF Store, TypeOK
  <2> QED
    BY <1>5, <2>1, BusyFile DEF Store, Goto, TypeOK, Place, Busy
<1>6. CASE Report(w)
  <2>1. FileOf(w) \in Files
    BY <1>6, BusyFile DEF Report, Busy
  <2> QED
    BY <1>6, <2>1 DEF Report, Goto, TypeOK, Place, disk
<1> QED
  BY <1>1, <1>2, <1>3, <1>4, <1>5, <1>6, <1>7 DEF Work

LEMMA OtherType ==
    ASSUME TypeOK, (\E f \in Files : Save(f)) \/ Crash \/ UNCHANGED vars
    PROVE  TypeOK'
<1>1. ASSUME NEW f \in Files, Save(f) PROVE TypeOK'
  <2>1. source[f] + 1 \in Saves
    BY <1>1, BuildAssumption DEF Save, TypeOK, Saves
  <2> QED
    BY <1>1, <2>1 DEF Save, TypeOK
<1>2. CASE Crash
  <2>1. crashes' \in 0..MaxCrashes
    BY <1>2, BuildAssumption DEF Crash, TypeOK
  <2> QED
    BY <1>2, <2>1 DEF Crash, TypeOK, disk, Phase, Off, Place, None
<1>3. CASE UNCHANGED vars
  BY <1>3 DEF vars, TypeOK
<1> QED
  BY <1>1, <1>2, <1>3

(***************************************************************************)
(* The queue and the threads                                               *)
(***************************************************************************)

LEMMA InitQueue == Init => QInv
<1> SUFFICES ASSUME Init PROVE QInv
  OBVIOUS
<1>1. Queued = {} /\ tasks = <<>> /\ \A w \in Workers : worker[w].at = "off"
  BY DEF Init, Queued, Off
<1> QED
  BY <1>1, InitType DEF Init, QInv, Quiet, Drained, OnePlace, Busy

\* no thread runs and nothing is queued
LEMMA Resting ==
    ASSUME TypeOK', tasks' = <<>>, \A w \in Workers : worker'[w].at = "off"
    PROVE  QInv'
<1>1. Queued' = {}
  BY DEF Queued
<1> QED
  BY <1>1 DEF QInv, Quiet, Drained, OnePlace, Busy

LEMMA MainQueue ==
    ASSUME QInv, (\E o \in Options : Begin(o)) \/ Main
    PROVE  QInv'
<1> USE DEF QInv
<1>0. TypeOK'
  BY MainType
<1>1. ASSUME NEW o \in Options, Begin(o) PROVE QInv'
  <2>1. tasks' = <<>> /\ \A w \in Workers : worker'[w].at = "off"
    BY <1>1 DEF Begin, Quiet, Drained
  <2> QED
    BY <1>0, <2>1, Resting
<1>2. ASSUME NEW f \in Files, CheckFile(f) PROVE QInv'
  <2>1. \A w \in Workers : worker[w].at = "off" /\ worker'[w].at = "off"
    BY <1>2 DEF CheckFile, Quiet
  <2>2. /\ phase' = "check" /\ f \in unchecked /\ unchecked' = unchecked \ {f}
        /\ Queued \cap unchecked = {} /\ f \notin Queued
    BY <1>2 DEF CheckFile, OnePlace
  <2>3. /\ Queued' \subseteq Queued \cup {f}
        /\ \A j, k \in DOMAIN tasks' : tasks'[j] = tasks'[k] => j = k
    <3>1. CASE tasks' = tasks
      BY <3>1 DEF OnePlace, Queued
    <3>2. CASE tasks' = Append(tasks, f)
      BY <2>2, <3>2, QueueGrows DEF TypeOK, OnePlace
    <3> QED
      BY <1>2, <3>1, <3>2 DEF CheckFile
  <2> QED
    BY <1>0, <2>1, <2>2, <2>3 DEF Quiet, Drained, OnePlace, Busy
<1>3. CASE Start
  <2>1. Started \in Nat /\ (Started = 0 <=> tasks = <<>>)
    <3>1. Len(tasks) \in Nat /\ Jobs \in Nat /\ (Len(tasks) = 0 <=> tasks = <<>>)
      BY BuildAssumption DEF TypeOK
    <3> QED
      BY <3>1 DEF Started
  <2>2. \A w \in Workers : worker'[w].at = IF w <= Started THEN "take" ELSE "off"
    BY <1>3 DEF Start, Off
  <2>3. tasks' = tasks /\ phase' = IF Started = 0 THEN "link" ELSE IF Started = 1 THEN "serial" ELSE "parallel"
    BY <1>3 DEF Start
  <2>4. \A w \in Workers : w \in Nat /\ w >= 1
    BY BuildAssumption DEF Workers
  <2>5. Quiet'
    BY <2>1, <2>2, <2>3, <2>4 DEF Quiet
  <2>6. Drained'
    <3>1. 1 \in Workers
      BY BuildAssumption DEF Workers
    <3>2. tasks # <<>> => worker'[1].at = "take"
      BY <2>1, <2>2, <3>1
    <3> QED
      BY <2>1, <2>3, <3>1, <3>2 DEF Drained
  <2>7. OnePlace'
    BY <2>2, <2>3 DEF OnePlace, Busy, Queued
  <2> QED
    BY <1>0, <2>5, <2>6, <2>7
<1>4. CASE Join
  BY <1>0, <1>4, Resting DEF Join, Drained
<1>5. CASE Link
  BY <1>0, <1>5, Resting DEF Link, Drained, Quiet
<1>6. CASE Clean
  <2>1. tasks' = <<>> /\ \A w \in Workers : worker'[w].at = "off"
    BY <1>6 DEF Clean, Quiet, Drained
  <2> QED
    BY <1>0, <2>1, Resting
<1> QED
  BY <1>1, <1>2, <1>3, <1>4, <1>5, <1>6 DEF Main

\* a thread goes on with its file, or leaves it
LEMMA GoesOn ==
    ASSUME QInv, TypeOK', NEW w \in Workers, Busy(w),
           UNCHANGED <<phase, unchecked, tasks>>,
           \A v \in Workers : v # w => worker'[v] = worker[v],
           worker'[w].at # "off", worker'[w].at = "take" \/ FileOf(w)' = FileOf(w)
    PROVE  QInv'
<1> USE DEF QInv
<1>1. phase \in {"serial", "parallel"}
  BY DEF Quiet, Busy, TypeOK, Phase
<1>2. \A v \in Workers : Busy(v)' => Busy(v) /\ FileOf(v)' = FileOf(v)
  BY DEF Busy, FileOf
<1>3. Queued' = Queued
  BY DEF Queued
<1>4. OnePlace'
  BY <1>2, <1>3 DEF OnePlace
<1> QED
  BY <1>1, <1>4 DEF Quiet, Drained

LEMMA TakeQueue ==
    ASSUME QInv, NEW w \in Workers, Take(w)
    PROVE  QInv'
<1> USE DEF QInv
<1>0. TypeOK'
  BY WorkType DEF Work
<1>1. phase \in {"serial", "parallel"} /\ phase' = phase
  BY DEF Take, Quiet, TypeOK, Phase
<1>2. CASE tasks = <<>>
  <2>1. tasks' = tasks /\ worker'[w].at = "off" /\ \A v \in Workers : v # w => worker'[v] = worker[v]
    BY <1>2, ThreadChanges DEF Take, Off
  <2>2. \A v \in Workers : Busy(v)' => Busy(v) /\ FileOf(v)' = FileOf(v)
    BY <2>1 DEF Busy, FileOf
  <2>3. OnePlace'
    BY <1>1, <2>1, <2>2 DEF OnePlace, Queued
  <2> QED
    BY <1>0, <1>1, <1>2, <2>1, <2>3 DEF Quiet, Drained
<1>3. CASE tasks # <<>>
  <2>1. tasks' = Tail(tasks) /\ worker'[w] = Reading(Head(tasks)) /\ \A v \in Workers : v # w => worker'[v] = worker[v]
    BY <1>3, ThreadChanges DEF Take
  <2>2. /\ Head(tasks) \in Queued /\ Queued' = Queued \ {Head(tasks)}
        /\ \A j, k \in DOMAIN tasks' : tasks'[j] = tasks'[k] => j = k
    BY <1>3, <2>1, QueueShrinks DEF TypeOK, OnePlace
  <2>3. worker'[w].at # "off" /\ FileOf(w)' = Head(tasks)
    BY <2>1 DEF Reading, FileOf, TextOf
  <2>4. \A v \in Workers : v # w => (Busy(v)' <=> Busy(v)) /\ FileOf(v)' = FileOf(v)
    BY <2>1 DEF Busy, FileOf
  <2>5. OnePlace'
    BY <1>1, <2>2, <2>3, <2>4 DEF OnePlace
  <2> QED
    BY <1>0, <1>1, <2>3, <2>5 DEF Quiet, Drained
<1> QED
  BY <1>2, <1>3

LEMMA WorkQueue ==
    ASSUME QInv, NEW w \in Workers, Work(w)
    PROVE  QInv'
<1>0. TypeOK /\ TypeOK'
  BY WorkType DEF QInv
<1>1. CASE Take(w)
  BY <1>1, TakeQueue
<1>2. CASE Lower(w) \/ Assemble(w) \/ Refuse(w) \/ Store(w) \/ Report(w)
  <2>1. PICK place \in {"assemble", "hash", "report", "take"} : Goto(w, place)
    BY <1>2 DEF Lower, Assemble, Refuse, Store, Report
  <2>2. /\ \A v \in Workers : v # w => worker'[v] = worker[v]
        /\ worker'[w].at = place /\ FileOf(w)' = FileOf(w)
    BY <1>0, <2>1 DEF Goto, TypeOK, FileOf
  <2>3. Busy(w) /\ UNCHANGED <<phase, unchecked, tasks>>
    BY <1>2 DEF Lower, Assemble, Refuse, Store, Report, Busy
  <2> QED
    BY <1>0, <2>2, <2>3, GoesOn
<1>3. CASE Hash(w)
  <2>1. /\ \A v \in Workers : v # w => worker'[v] = worker[v]
        /\ worker'[w] = [at |-> "store", text |-> TextOf(FileOf(w))]
    BY <1>0, <1>3, ThreadChanges DEF Hash
  <2>2. worker'[w].at = "store" /\ FileOf(w)' = FileOf(w)
    BY <2>1 DEF FileOf, TextOf
  <2>3. Busy(w) /\ UNCHANGED <<phase, unchecked, tasks>>
    BY <1>3 DEF Hash, Busy
  <2> QED
    BY <1>0, <2>1, <2>2, <2>3, GoesOn
<1> QED
  BY <1>1, <1>2, <1>3 DEF Work

LEMMA OtherQueue ==
    ASSUME QInv, (\E f \in Files : Save(f)) \/ Crash \/ UNCHANGED vars
    PROVE  QInv'
<1> USE DEF QInv
<1>0. TypeOK'
  BY OtherType
<1>1. CASE Crash
  <2>1. tasks' = <<>> /\ \A w \in Workers : worker'[w].at = "off"
    BY <1>1 DEF Crash, Off
  <2> QED
    BY <1>0, <2>1, Resting
<1>2. CASE UNCHANGED <<phase, unchecked, tasks, worker>>
  BY <1>0, <1>2 DEF Quiet, Drained, OnePlace, Queued, Busy, FileOf
<1> QED
  BY <1>1, <1>2 DEF Save, vars

LEMMA QueueInductive == Spec => []QInv
<1>1. Init => QInv
  BY InitQueue
<1>2. QInv /\ [Next]_vars => QInv'
  BY MainQueue, WorkQueue, OtherQueue DEF Next
<1> QED
  BY <1>1, <1>2, PTL DEF Spec

(***************************************************************************)
(* The disk                                                                *)
(***************************************************************************)

\* what is_cache_valid accepts
LEMMA ValidFresh ==
    ASSUME TypeOK, Past, Newer, NEW f \in Files, Valid(f)
    PROVE  obj[Stem[f]] = TextOf(f) /\ Compiles(f)
<1>1. Stem[f] \in Stems /\ source[f] \in Nat /\ TextOf(f) \in Text
  BY BuildAssumption DEF TypeOK, TextOf, Text, Saves
<1>2. cache[Stem[f]] = TextOf(f) /\ cache[Stem[f]] # None /\ cache[Stem[f]][2] = source[f]
  BY <1>1, TextShape DEF Valid, TextOf
<1>3. obj[Stem[f]] \in Text /\ obj[Stem[f]] # None
  BY <1>1 DEF Valid, TypeOK
<1>4. obj[Stem[f]] = <<obj[Stem[f]][1], obj[Stem[f]][2]>> /\ obj[Stem[f]][2] \in Nat
  BY <1>3, TextShape, BuildAssumption DEF Saves
<1>5. obj[Stem[f]][1] = f /\ obj[Stem[f]][2] <= source[f] /\ source[f] <= obj[Stem[f]][2]
  BY <1>2, <1>3 DEF Past, Newer
<1> QED
  BY <1>1, <1>2, <1>4, <1>5 DEF Past, TextOf, Compiles

LEMMA InitDisk == Init => DInv
<1> SUFFICES ASSUME Init PROVE DInv
  OBVIOUS
<1>1. \A f \in Files : cache[Stem[f]] = None /\ obj[Stem[f]] = None
  BY BuildAssumption DEF Init
<1> QED
  BY <1>1 DEF Init, DInv, Past, Newer, Made, Settled, Kept, Busy, Off, TextOf, Compiles

LEMMA MainDisk ==
    ASSUME QInv, DInv, (\E o \in Options : Begin(o)) \/ Main
    PROVE  DInv'
<1> USE DEF DInv
<1>0. TypeOK /\ QInv'
  BY MainQueue DEF QInv
<1>1. ASSUME NEW o \in Options, Begin(o) PROVE DInv'
  <2>1. /\ \A f \in Files : cache'[Stem[f]] \in {None, cache[Stem[f]]} /\ obj'[Stem[f]] \in {None, obj[Stem[f]]}
        /\ source' = source
    BY <1>1, BuildAssumption DEF Begin
  <2>2. \A w \in Workers : ~Busy(w)'
    BY <1>1 DEF Begin, QInv, Quiet, Busy
  <2>3. Past' /\ Newer'
    BY <2>1 DEF Past, Newer
  <2> QED
    BY <1>1, <2>2, <2>3 DEF Begin, Made, Settled, Kept, TextOf, Compiles
<1>2. ASSUME NEW f \in Files, CheckFile(f) PROVE DInv'
  <2>1. \A w \in Workers : ~Busy(w)'
    BY <1>2 DEF CheckFile, QInv, Quiet, Busy
  <2>2. /\ phase = "check" /\ phase' = "check" /\ UNCHANGED <<source, cache, ir, obj, results>>
        /\ unchecked' = unchecked \ {f} /\ f \in unchecked /\ f \notin Queued
    BY <1>2 DEF CheckFile, disk, QInv, OnePlace
  <2>3. Past' /\ Newer'
    BY <2>2 DEF Past, Newer
  <2>4. CASE Valid(f) /\ linked' = linked \cup {f} /\ tasks' = tasks
    <3>1. Queued' = Queued
      BY <2>4 DEF Queued
    <3>2. obj[Stem[f]] = TextOf(f) /\ Compiles(f)
      BY <1>0, <2>4, ValidFresh
    <3>3. Settled'
      BY <2>1, <2>2, <2>4, <3>1, <3>2 DEF Settled, TextOf, Compiles
    <3>4. Kept'
      BY <2>2, <2>4, <3>1 DEF Kept, Compiles, TextOf
    <3> QED
      BY <2>1, <2>3, <3>3, <3>4 DEF Made
  <2>5. CASE tasks' = Append(tasks, f) /\ linked' = linked
    <3>1. Queued' = Queued \cup {f}
      BY <2>2, <2>5, QueueGrows DEF QInv, TypeOK, OnePlace
    <3>2. f \notin linked \cup results
      BY <2>2 DEF Settled
    <3>3. Settled'
      BY <2>1, <2>2, <2>5, <3>1, <3>2 DEF Settled, TextOf, Compiles
    <3>4. Kept'
      BY <2>2, <2>5, <3>1 DEF Kept, Compiles, TextOf
    <3> QED
      BY <2>1, <2>3, <3>3, <3>4 DEF Made
  <2> QED
    BY <1>2, <2>4, <2>5 DEF CheckFile
<1>3. CASE Start
  <2>1. \A w \in Workers : ~Busy(w)'
    BY <1>3 DEF Start, Busy, Off
  <2>2. /\ phase = "check" /\ unchecked = {} /\ phase' \in {"link", "serial", "parallel"}
        /\ UNCHANGED <<source, cache, ir, obj, results, linked, tasks>>
    BY <1>3 DEF Start, disk
  <2>3. Queued' = Queued
    BY <2>2 DEF Queued
  <2>4. Past' /\ Newer' /\ Settled' /\ Kept'
    BY <2>1, <2>2, <2>3 DEF Past, Newer, Settled, Kept, TextOf, Compiles
  <2> QED
    BY <2>1, <2>4 DEF Made
<1>4. CASE Join
  <2>1. \A w \in Workers : ~Busy(w)'
    BY <1>4 DEF Join, Busy
  <2>2. /\ phase # "idle" /\ phase' = "link" /\ linked' \cup results' = linked \cup results
        /\ UNCHANGED <<source, cache, ir, obj, tasks>>
    BY <1>4 DEF Join, disk
  <2>3. Queued' = Queued
    BY <2>2 DEF Queued
  <2>4. Past' /\ Newer' /\ Settled' /\ Kept'
    BY <2>1, <2>2, <2>3 DEF Past, Newer, Settled, Kept, TextOf, Compiles
  <2> QED
    BY <2>1, <2>4 DEF Made
<1>5. CASE Link
  <2>1. \A w \in Workers : ~Busy(w)'
    BY <1>5 DEF Link, QInv, Quiet, Busy
  <2> QED
    BY <1>5, <2>1 DEF Link, Past, Newer, Made, Settled, Kept, TextOf, Compiles
<1>6. CASE Clean
  <2>1. /\ \A f \in Files : obj'[Stem[f]] = None
        /\ phase = "clean" /\ phase' = "check" /\ UNCHANGED <<source, cache, unchecked, linked, results>>
    BY <1>6, BuildAssumption DEF Clean
  <2>2. \A w \in Workers : ~Busy(w)'
    BY <1>6 DEF Clean, QInv, Quiet, Busy
  <2>3. Past' /\ Newer'
    BY <2>1 DEF Past, Newer
  <2> QED
    BY <2>1, <2>2, <2>3 DEF Made, Settled, Kept, TextOf, Compiles
<1> QED
  BY <1>1, <1>2, <1>3, <1>4, <1>5, <1>6 DEF Main

LEMMA TakeDisk ==
    ASSUME QInv, DInv, NEW w \in Workers, Take(w)
    PROVE  DInv'
<1> USE DEF DInv
<1>1. /\ UNCHANGED <<source, cache, ir, obj, phase, unchecked, linked, results>> /\ ~Busy(w)
      /\ phase \in {"serial", "parallel"}
  BY DEF Take, disk, Busy, QInv, Quiet, TypeOK, Phase
<1>2. Past' /\ Newer'
  BY <1>1 DEF Past, Newer
<1>3. CASE tasks = <<>>
  <2>1. tasks' = tasks /\ worker'[w].at = "off" /\ \A v \in Workers : v # w => worker'[v] = worker[v]
    <3>1. tasks' = tasks /\ worker' = [worker EXCEPT ![w] = Off]
      BY <1>3 DEF Take
    <3>2. worker'[w] = Off /\ \A v \in Workers : v # w => worker'[v] = worker[v]
      BY <3>1, ThreadChanges DEF QInv
    <3> QED
      BY <3>1, <3>2 DEF Off
  <2>2. \A v \in Workers : (Busy(v)' <=> Busy(v)) /\ (Busy(v) => FileOf(v)' = FileOf(v) /\ worker'[v] = worker[v])
    BY <1>1, <2>1 DEF Busy, FileOf
  <2>3. Queued' = Queued
    BY <2>1 DEF Queued
  <2>4. Made'
    BY <1>1, <2>2 DEF Made, TextOf, Compiles, StemOf
  <2>5. Settled' /\ Kept'
    BY <1>1, <2>2, <2>3 DEF Settled, Kept, TextOf, Compiles
  <2> QED
    BY <1>2, <2>4, <2>5
<1>4. CASE tasks # <<>>
  <2> DEFINE f == Head(tasks)
  <2>1. tasks' = Tail(tasks) /\ worker'[w] = Reading(f) /\ \A v \in Workers : v # w => worker'[v] = worker[v]
    BY <1>4, ThreadChanges DEF Take, QInv
  <2>2. f \in Files /\ f \in Queued /\ Queued' = Queued \ {f}
    BY <1>4, <2>1, QueueShrinks DEF QInv, TypeOK, OnePlace
  <2>3. /\ worker'[w].text = TextOf(f) /\ FileOf(w)' = f
        /\ worker'[w].at = IF TextOf(f) \in Broken THEN "take" ELSE "lower"
    BY <2>1 DEF Reading, FileOf, TextOf
  <2> HIDE DEF f
  <2>4. \A v \in Workers : v # w => (Busy(v)' <=> Busy(v)) /\ FileOf(v)' = FileOf(v) /\ worker'[v] = worker[v]
    BY <2>1 DEF Busy, FileOf
  <2>5. Busy(w)' <=> TextOf(f) \notin Broken
    BY <2>3 DEF Busy
  <2>6. Made'
    BY <1>1, <2>3, <2>4, <2>5 DEF Made, TextOf, Compiles, StemOf
  <2>7. Settled'
    BY <1>1, <2>2, <2>3, <2>4 DEF Settled, TextOf, Compiles
  <2>8. Kept'
    BY <1>1, <2>2, <2>3, <2>4, <2>5 DEF Kept, Compiles, TextOf
  <2> QED
    BY <1>2, <2>6, <2>7, <2>8
<1> QED
  BY <1>3, <1>4

\* a thread that writes a file of its own, from lower to report
LEMMA WriteDisk ==
    ASSUME OwnStems, QInv, DInv, NEW w \in Workers, Lower(w) \/ Assemble(w) \/ Refuse(w) \/ Hash(w) \/ Store(w)
    PROVE  DInv'
<1> USE DEF DInv
<1> DEFINE f == FileOf(w)
<1>1. Busy(w) /\ UNCHANGED <<source, phase, unchecked, tasks, linked, results>>
  BY DEF Lower, Assemble, Refuse, Hash, Store, Busy, disk
<1>2. /\ phase \in {"serial", "parallel"} /\ f \in Files /\ StemOf(w) = Stem[f] /\ Stem[f] \in Stems
      /\ worker[w].text = TextOf(f) /\ TextOf(f) \notin Broken /\ source[f] \in Nat
  BY <1>1, BusyFile, BuildAssumption DEF QInv, Quiet, TypeOK, Phase, Busy, Made, StemOf, Saves
<1>3. TextOf(f) # None /\ TextOf(f)[1] = f /\ TextOf(f)[2] = source[f]
  BY <1>2, TextShape DEF QInv, TypeOK, TextOf, Text
<1> HIDE DEF f
<1>4. \A g \in Files : g # f => Stem[g] # Stem[f]
  BY <1>2 DEF OwnStems
<1>5. \A v \in Workers : Busy(v) /\ v # w => FileOf(v) # f /\ FileOf(v) \in Files /\ StemOf(v) = Stem[FileOf(v)]
  BY <1>1, BusyFile DEF QInv, OnePlace, f, StemOf
<1>6. \A g \in linked \cup results : g \in Files /\ g # f
  <2>1. \A g \in linked \cup results : g \in Files
    BY DEF QInv, TypeOK
  <2>2. Settled /\ phase # "idle"
    BY <1>2
  <2> QED
    BY <1>1, <2>1, <2>2 DEF Settled, f
<1>7. /\ \A v \in Workers : v # w => worker'[v] = worker[v]
      /\ worker'[w].text = TextOf(f)
      /\ Lower(w) => worker'[w].at = "assemble"
      /\ Assemble(w) => worker'[w].at = "hash"
      /\ Refuse(w) => worker'[w].at = "take"
      /\ Hash(w) => worker'[w].at = "store"
      /\ Store(w) => worker'[w].at = IF phase = "parallel" THEN "report" ELSE "take"
  <2>1. CASE Hash(w)
    <3> DEFINE r == [at |-> "store", text |-> TextOf(FileOf(w))]
    <3>1. worker' = [worker EXCEPT ![w] = r] /\ ~Lower(w) /\ ~Assemble(w) /\ ~Refuse(w) /\ ~Store(w)
      BY <2>1 DEF Hash, Lower, Assemble, Refuse, Store
    <3>2. r.at = "store" /\ r.text = TextOf(f)
      BY DEF f
    <3> HIDE DEF r
    <3>3. worker'[w] = r /\ \A v \in Workers : v # w => worker'[v] = worker[v]
      BY <3>1, ThreadChanges DEF QInv
    <3> QED
      BY <3>1, <3>2, <3>3
  <2>2. CASE Lower(w)
    BY <1>2, <2>2 DEF Lower, Goto, QInv, TypeOK, Assemble, Refuse, Hash, Store
  <2>3. CASE Assemble(w)
    BY <1>2, <2>3 DEF Lower, Goto, QInv, TypeOK, Assemble, Refuse, Hash, Store
  <2>4. CASE Store(w)
    BY <1>2, <2>4 DEF Lower, Goto, QInv, TypeOK, Assemble, Refuse, Hash, Store
  <2>5. CASE Refuse(w)
    BY <1>2, <2>5 DEF Lower, Goto, QInv, TypeOK, Assemble, Refuse, Hash, Store
  <2> QED
    BY <2>1, <2>2, <2>3, <2>4, <2>5
<1>8. /\ FileOf(w)' = f /\ StemOf(w)' = Stem[f]
      /\ \A v \in Workers : v # w => FileOf(v)' = FileOf(v) /\ StemOf(v)' = StemOf(v) /\ (Busy(v)' <=> Busy(v))
  BY <1>3, <1>7 DEF FileOf, StemOf, Busy
<1>9. Queued' = Queued
  BY <1>1 DEF Queued
<1>10. Kept'
  <2>1. CASE Refuse(w)
    <3>1. ir[StemOf(w)] = TextOf(f) /\ ir[StemOf(w)] \in Refused
      BY <1>1, <1>2, <2>1 DEF Refuse, Made
    <3>2. ~Compiles(f)
      BY <3>1 DEF Compiles
    <3>3. {FileOf(v) : v \in {v \in Workers : Busy(v)}} \subseteq {FileOf(v) : v \in {v \in Workers : Busy(v)}}' \cup {f}
      BY <1>8 DEF f
    <3> QED
      BY <1>1, <1>2, <1>9, <3>2, <3>3 DEF Kept, Compiles, TextOf
  <2>2. CASE ~Refuse(w)
    <3>1. phase = "parallel" => Busy(w)'
      BY <1>1, <1>7, <2>2 DEF Busy
    <3>2. phase = "parallel" => {FileOf(v) : v \in {v \in Workers : Busy(v)}}' = {FileOf(v) : v \in {v \in Workers : Busy(v)}}
      BY <1>1, <1>8, <3>1 DEF f
    <3> QED
      BY <1>1, <1>2, <1>9, <3>2 DEF Kept, Compiles, TextOf
  <2> QED
    BY <2>1, <2>2
<1>11. CASE Lower(w)
  <2>1. UNCHANGED <<cache, obj>> /\ ir' = [ir EXCEPT ![Stem[f]] = TextOf(f)]
    BY <1>2, <1>11 DEF Lower
  <2>2. ir'[Stem[f]] = TextOf(f) /\ \A g \in Files : g # f => ir'[Stem[g]] = ir[Stem[g]]
    BY <1>2, <1>4, <2>1 DEF QInv, TypeOK
  <2>3. Past' /\ Newer'
    BY <1>1, <2>1 DEF Past, Newer
  <2>4. Settled'
    BY <1>1, <1>6, <1>8, <1>9, <2>1 DEF Settled, TextOf, Compiles
  <2>5. Made'
    BY <1>1, <1>2, <1>5, <1>7, <1>8, <1>11, <2>1, <2>2 DEF Made, TextOf, Compiles
  <2> QED
    BY <1>10, <2>3, <2>4, <2>5
<1>12. CASE Assemble(w)
  <2>1. UNCHANGED <<cache, ir>> /\ obj' = [obj EXCEPT ![Stem[f]] = TextOf(f)]
    <3>1. ir[StemOf(w)] = TextOf(f)
      BY <1>1, <1>2, <1>12 DEF Assemble, Made
    <3> QED
      BY <1>2, <1>12, <3>1 DEF Assemble
  <2>6. Compiles(f)
    BY <1>1, <1>2, <1>12 DEF Assemble, Made, Compiles
  <2>2. obj'[Stem[f]] = TextOf(f) /\ \A g \in Files : g # f => obj'[Stem[g]] = obj[Stem[g]]
    BY <1>2, <1>4, <2>1 DEF QInv, TypeOK
  <2>3. Past' /\ Newer'
    BY <1>1, <1>2, <1>3, <2>1, <2>2 DEF Past, Newer
  <2>4. Settled'
    BY <1>1, <1>6, <1>8, <1>9, <2>2 DEF Settled, TextOf, Compiles
  <2>5. Made'
    BY <1>1, <1>2, <1>5, <1>7, <1>8, <1>12, <2>1, <2>2, <2>6 DEF Made, TextOf, Compiles
  <2> QED
    BY <1>10, <2>3, <2>4, <2>5
<1>13. CASE Hash(w)
  <2>1. UNCHANGED <<cache, ir, obj>> /\ worker[w].at = "hash"
    BY <1>13 DEF Hash, disk
  <2>2. Past' /\ Newer'
    BY <1>1, <2>1 DEF Past, Newer
  <2>3. Settled'
    BY <1>1, <1>6, <1>8, <1>9, <2>1 DEF Settled, TextOf, Compiles
  <2>4. Made'
    <3>1. obj[Stem[f]] = TextOf(f) /\ Compiles(f)
      BY <1>1, <1>2, <2>1 DEF Made, f, Compiles
    <3>2. \A g : TextOf(g)' = TextOf(g) /\ (Compiles(g)' <=> Compiles(g))
      BY <1>1 DEF TextOf, Compiles
    <3> SUFFICES ASSUME NEW v \in Workers, Busy(v)'
                 PROVE  /\ (worker[v].text = TextOf(FileOf(v)) /\ TextOf(FileOf(v)) \notin Broken)'
                        /\ (worker[v].at = "assemble" => ir[StemOf(v)] = worker[v].text)'
                        /\ (worker[v].at \in {"hash", "store", "report"} =>
                              obj[StemOf(v)] = worker[v].text /\ Compiles(FileOf(v)))'
      BY DEF Made
    <3>3. CASE v = w
      BY <1>2, <1>7, <1>8, <1>13, <2>1, <3>1, <3>2, <3>3
    <3>4. CASE v # w
      BY <1>7, <1>8, <2>1, <3>2, <3>4 DEF Made
    <3> QED
      BY <3>3, <3>4
  <2> QED
    BY <1>10, <2>2, <2>3, <2>4
<1>14. CASE Store(w)
  <2>1. UNCHANGED <<obj, ir>> /\ worker[w].at = "store" /\ cache' = [cache EXCEPT ![Stem[f]] = TextOf(f)]
    BY <1>2, <1>14 DEF Store
  <2>2. cache'[Stem[f]] = TextOf(f) /\ \A g \in Files : g # f => cache'[Stem[g]] = cache[Stem[g]]
    BY <1>2, <1>4, <2>1 DEF QInv, TypeOK
  <2>3. obj[Stem[f]] = TextOf(f) /\ Compiles(f) /\ TextOf(f) \notin Broken \cup Refused
    BY <1>1, <1>2, <2>1 DEF Made, f, Compiles
  <2>4. Past' /\ Newer'
    BY <1>1, <1>2, <1>3, <2>1, <2>2, <2>3 DEF Past, Newer
  <2>5. Settled'
    BY <1>1, <1>6, <1>8, <1>9, <2>1 DEF Settled, TextOf, Compiles
  <2>6. Made'
    BY <1>1, <1>2, <1>5, <1>7, <1>8, <1>14, <2>1, <2>3 DEF Made, TextOf, Compiles
  <2> QED
    BY <1>10, <2>4, <2>5, <2>6
<1>15. CASE Refuse(w)
  <2>1. PICK left \in {obj[Stem[f]], None} : UNCHANGED <<cache, ir>> /\ obj' = [obj EXCEPT ![Stem[f]] = left]
    BY <1>2, <1>15 DEF Refuse
  <2>2. obj'[Stem[f]] \in {obj[Stem[f]], None} /\ \A g \in Files : g # f => obj'[Stem[g]] = obj[Stem[g]]
    BY <1>2, <1>4, <2>1 DEF QInv, TypeOK
  <2>3. Past' /\ Newer'
    BY <1>1, <1>2, <2>1, <2>2 DEF Past, Newer
  <2>4. Settled'
    BY <1>1, <1>6, <1>8, <1>9, <2>2 DEF Settled, TextOf, Compiles
  <2>5. ~Busy(w)'
    BY <1>7, <1>15 DEF Busy
  <2>6. Made'
    BY <1>1, <1>2, <1>5, <1>7, <1>8, <2>1, <2>2, <2>5 DEF Made, TextOf, Compiles
  <2> QED
    BY <1>10, <2>3, <2>4, <2>6
<1> QED
  BY <1>11, <1>12, <1>13, <1>14, <1>15

LEMMA ReportDisk ==
    ASSUME QInv, DInv, NEW w \in Workers, Report(w)
    PROVE  DInv'
<1> USE DEF DInv
<1> DEFINE f == FileOf(w)
<1>1. /\ Busy(w) /\ UNCHANGED <<source, cache, ir, obj, phase, unchecked, tasks, linked>>
      /\ results' = results \cup {f} /\ worker[w].at = "report"
  BY DEF Report, Busy, disk
<1>2. /\ f \in Files /\ obj[Stem[f]] = TextOf(f) /\ Compiles(f)
      /\ f \notin Queued /\ phase \notin {"clean", "check"}
  BY <1>1, BusyFile DEF QInv, Made, OnePlace, Quiet, Busy, StemOf
<1>3. worker'[w].at = "take" /\ \A v \in Workers : v # w => worker'[v] = worker[v]
  BY DEF Report, Goto, QInv, TypeOK
<1>4. ~Busy(w)' /\ \A v \in Workers : v # w => (Busy(v)' <=> Busy(v)) /\ FileOf(v)' = FileOf(v)
  BY <1>3 DEF Busy, FileOf
<1>5. \A v \in Workers : Busy(v) /\ v # w => FileOf(v) # f
  BY <1>1 DEF QInv, OnePlace
<1> HIDE DEF f
<1>6. Queued' = Queued
  BY <1>1 DEF Queued
<1>7. Past' /\ Newer'
  BY <1>1 DEF Past, Newer
<1>8. Made'
  BY <1>1, <1>3, <1>4 DEF Made, TextOf, Compiles, StemOf
<1>9. Settled'
  BY <1>1, <1>2, <1>4, <1>5, <1>6 DEF Settled, TextOf, Compiles
<1>10. Kept'
  BY <1>1, <1>4, <1>6 DEF Kept, f, Compiles, TextOf
<1> QED
  BY <1>7, <1>8, <1>9, <1>10

LEMMA OtherDisk ==
    ASSUME ~MayEdit, QInv, DInv, (\E f \in Files : Save(f)) \/ Crash \/ UNCHANGED vars
    PROVE  DInv'
<1> USE DEF DInv
<1>1. ASSUME NEW f \in Files, Save(f) PROVE DInv'
  <2>1. phase = "idle" /\ phase' = "idle" /\ \A w \in Workers : ~Busy(w)'
    BY <1>1 DEF Save, QInv, Quiet, Busy
  <2>2. UNCHANGED <<cache, obj>> /\ \A g \in Files : source[g] \in Nat /\ source'[g] \in Nat /\ source[g] <= source'[g]
    BY <1>1, BuildAssumption DEF Save, QInv, TypeOK, Saves
  <2>3. \A g \in Files : /\ cache[Stem[g]] # None => cache[Stem[g]][2] \in Nat
                         /\ obj[Stem[g]] # None => obj[Stem[g]][2] \in Nat
    <3>1. \A g \in Files : cache[Stem[g]] \in Text \cup {None} /\ obj[Stem[g]] \in Text \cup {None}
      BY BuildAssumption DEF QInv, TypeOK
    <3> QED
      BY <3>1, TextShape, BuildAssumption DEF Saves
  <2>4. Past' /\ Newer'
    BY <2>2, <2>3 DEF Past, Newer
  <2> QED
    BY <2>1, <2>4 DEF Made, Settled, Kept, TextOf, Compiles
<1>2. CASE Crash
  <2>1. phase' = "idle" /\ \A w \in Workers : ~Busy(w)'
    BY <1>2 DEF Crash, Busy, Off
  <2>2. UNCHANGED <<source, cache, obj>>
    BY <1>2 DEF Crash, disk
  <2> QED
    BY <2>1, <2>2 DEF Past, Newer, Made, Settled, Kept, TextOf, Compiles
<1>3. CASE UNCHANGED vars
  <2>1. Past' /\ Newer'
    BY <1>3 DEF vars, Past, Newer
  <2>2. Made'
    BY <1>3 DEF vars, Made, Busy, FileOf, StemOf, TextOf, Compiles
  <2>3. Settled'
    BY <1>3 DEF vars, Settled, Busy, FileOf, TextOf, Compiles, Queued
  <2>4. Kept'
    BY <1>3 DEF vars, Kept, Busy, FileOf, TextOf, Compiles, Queued
  <2> QED
    BY <2>1, <2>2, <2>3, <2>4
<1> QED
  BY <1>1, <1>2, <1>3

LEMMA DiskInductive == ASSUME OwnStems, ~MayEdit PROVE Spec => [](QInv /\ DInv)
<1>1. Init => DInv
  BY InitDisk
<1>2. QInv /\ DInv /\ [Next]_vars => DInv'
  BY MainDisk, TakeDisk, WriteDisk, ReportDisk, OtherDisk DEF Next, Work
<1> QED
  BY <1>1, <1>2, QueueInductive, PTL DEF Spec

(***************************************************************************)
(* The theorems                                                            *)
(***************************************************************************)

\* Every variable of the builder keeps its type.
THEOREM Typing == Spec => []TypeOK
<1>1. QInv => TypeOK
  BY DEF QInv
<1> QED
  BY <1>1, QueueInductive, PTL

\* No two threads write the files of one name at a time, whatever is saved
\* meanwhile: the queue holds a file once and none that a thread has.
THEOREM OneThreadPerName == ASSUME OwnStems PROVE Spec => []OneWriter
<1>1. QInv => OneWriter
  <2> SUFFICES ASSUME QInv, NEW v \in Workers, NEW w \in Workers, v # w, Busy(v), Busy(w)
               PROVE  StemOf(v) # StemOf(w)
    BY DEF OneWriter, Busy
  <2>1. FileOf(v) \in Files /\ FileOf(w) \in Files
    BY BusyFile DEF QInv
  <2>2. FileOf(v) # FileOf(w)
    BY DEF QInv, OnePlace
  <2> QED
    BY <2>1, <2>2 DEF OwnStems, StemOf
<1> QED
  BY <1>1, QueueInductive, PTL

\* What the cache would accept is what the source compiles to, wherever the
\* process is killed, when nobody saves a source while a build runs.
THEOREM CacheIsSound == ASSUME OwnStems, ~MayEdit PROVE Spec => []CacheSound
<1>1. QInv /\ DInv => CacheSound
  BY ValidFresh DEF QInv, DInv, CacheSound
<1> QED
  BY <1>1, DiskInductive, PTL

\* No object given to the linker is older than its source or another file's.
THEOREM LinksAreFresh == ASSUME OwnStems, ~MayEdit PROVE Spec => []LinksFresh
<1>1. DInv => LinksFresh
  BY DEF DInv, Settled, LinksFresh
<1> QED
  BY <1>1, DiskInductive, PTL

\* A build that used threads, or had nothing to compile, links every file that
\* compiles and no other.
THEOREM ThreadsLinkEverything == ASSUME OwnStems, ~MayEdit PROVE Spec => ThreadsLinkAll
<1> DEFINE Good == {f \in Files : Compiles(f)}
           Step == phase \in {"check", "parallel"} /\ phase' = "link" => linked' = Good
<1>1. ASSUME QInv, DInv, [Next]_vars PROVE Step
  <2> SUFFICES ASSUME phase \in {"check", "parallel"}, phase' = "link" PROVE linked' = Good
    OBVIOUS
  <2>1. linked \subseteq Files /\ results \subseteq Files
    BY <1>1 DEF QInv, TypeOK
  <2>2. \A f \in linked \cup results : Compiles(f)
    BY <1>1 DEF DInv, Settled
  <2>3. CASE Start
    <3>1. phase = "check" /\ unchecked = {} /\ tasks = <<>> /\ linked' = linked
      <4>1. phase = "check" /\ unchecked = {} /\ linked' = linked /\ Started = 0
        BY <2>3 DEF Start
      <4>2. Len(tasks) \in Nat /\ (tasks # <<>> => Len(tasks) # 0)
        BY <1>1 DEF QInv, TypeOK
      <4> QED
        BY <4>1, <4>2, BuildAssumption DEF Started
    <3>2. Queued = {}
      BY <3>1 DEF Queued
    <3>3. \A f \in Good : f \in linked
      BY <1>1, <3>1, <3>2 DEF DInv, Kept
    <3> QED
      BY <2>1, <2>2, <3>1, <3>3
  <2>4. CASE Join
    <3>1. /\ phase = "parallel" /\ linked' = linked \cup results
          /\ \A w \in Workers : worker[w].at = "off"
      BY <2>4 DEF Join
    <3>2. tasks = <<>> /\ \A w \in Workers : ~Busy(w)
      BY <1>1, <3>1 DEF QInv, Drained, Busy
    <3>3. Queued = {}
      BY <3>2 DEF Queued
    <3>4. \A f \in Good : f \in linked \cup results
      BY <1>1, <3>1, <3>2, <3>3 DEF DInv, Kept
    <3> QED
      BY <2>1, <2>2, <3>1, <3>4
  <2>5. Start \/ Join
    <3>1. \A o \in Options : ~Begin(o)
      BY DEF Begin
    <3>2. \A f \in Files : ~CheckFile(f)
      BY DEF CheckFile
    <3>3. ~Link /\ ~Crash /\ ~Clean
      BY DEF Link, Crash, Clean
    <3>4. \A f \in Files : ~Save(f)
      BY DEF Save
    <3>5. \A w \in Workers : ~Work(w)
      BY DEF Work, Take, Lower, Assemble, Refuse, Hash, Store, Report, disk
    <3>6. ~UNCHANGED vars
      BY DEF vars
    <3> QED
      BY <1>1, <3>1, <3>2, <3>3, <3>4, <3>5, <3>6 DEF Next, Main
  <2> QED
    BY <2>3, <2>4, <2>5
<1>2. QInv /\ DInv /\ [Next]_vars => [Step]_vars
  BY <1>1
<1>3. Spec => [][Step]_vars
  BY <1>2, DiskInductive, PTL DEF Spec
<1> QED
  BY <1>3, PTL DEF ThreadsLinkAll

=============================================================================
