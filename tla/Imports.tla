------------------------------- MODULE Imports -------------------------------
(***************************************************************************)
(* The import system of the interpreter (src/bytecode/vm.rs).  Each import *)
(* of a module, and each call of an imported function, builds a fresh VM   *)
(* inside the Rust stack frame of the one that asked for it: the VMs form  *)
(* a stack.  A VM first loads the imports of its program, each unless its  *)
(* OWN cache has it, then runs.  What an import binds is a function value, *)
(* which is no more than a name; the VM looks for the name again when it   *)
(* calls it.                                                               *)
(*                                                                         *)
(* A project is a record: for each module, what it imports (a sequence of  *)
(* [from, names], import, "m", f, g), the functions it defines, with the   *)
(* names each calls, and the names its top level calls.  Built-in modules  *)
(* and the `as alias` form are left out.                                   *)
(***************************************************************************)
EXTENDS Naturals, Sequences, FiniteSets, Functions

CONSTANTS Projects,       \* the projects to run
          Root,           \* the module given on the command line
          MaxDepth        \* VMs the native stack has room for

ASSUME ImportsAssumption ==
    /\ MaxDepth \in Nat \ {0}
    /\ \A p \in Projects :
          /\ Root \in DOMAIN p.imports
          /\ \A m \in DOMAIN p.imports :
                /\ p.imports[m] \in Seq(Range(p.imports[m]))
                /\ p.top[m] \in Seq(Range(p.top[m]))
                /\ \A imp \in Range(p.imports[m]) : imp.from \in DOMAIN p.imports
                /\ \A f \in DOMAIN p.body[m] : p.body[m][f] \in Seq(Range(p.body[m][f]))

\* what calls need to go where the imports say: an import names functions of
\* its module, and no two modules that one imports define the same name
Unambiguous(p) ==
    \A m \in DOMAIN p.imports : \A imp, other \in Range(p.imports[m]) :
        /\ imp.names \subseteq DOMAIN p.body[imp.from]
        /\ DOMAIN p.body[imp.from] \cap DOMAIN p.body[other.from] # {} => imp.from = other.from

VARIABLES project,        \* the sources, as they are on disk
          vms,            \* the stack of VMs
          status,         \* "running", "done", "error" or "overflow"
          reads           \* history: module |-> times its source was read

vars == <<project, vms, status, reads>>

Modules == DOMAIN project.imports
Defines(m) == DOMAIN project.body[m]
ImportsOf(m) == Range(project.imports[m])
\* every name a module calls
Names == UNION {Range(project.top[m]) \cup UNION {Range(project.body[m][f]) : f \in Defines(m)} : m \in Modules}
Top == vms[Len(vms)]
Below == SubSeq(vms, 1, Len(vms) - 1)
With(vm) == Append(Below, vm)

(***************************************************************************)
(* A VM: the module it runs, the imports still to load, its module_cache   *)
(* (module |-> exports), its function globals (name |-> the module whose   *)
(* function the import meant), and the names it has still to call.         *)
(***************************************************************************)
NewVM(m, job, code) ==
    [mod |-> m, pending |-> project.imports[m], cache |-> [x \in {} |-> {}],
     globals |-> [f \in {} |-> m], job |-> job, ready |-> FALSE, code |-> code]

Override(g, h) == [x \in DOMAIN g \cup DOMAIN h |-> IF x \in DOMAIN h THEN h[x] ELSE g[x]]

\* bind_module_exports: a name the module does not export is bound all the same
Bind(vm, imp, exports) ==
    [vm EXCEPT !.pending = Tail(@),
               !.globals = Override(@, [f \in imp.names |->
                               IF f \in DOMAIN exports THEN exports[f] ELSE imp.from])]

Init ==
    /\ project \in Projects
    /\ vms = <<NewVM(Root, "run", project.top[Root])>>
    /\ status = "running"
    /\ reads = [m \in Modules |-> IF m = Root THEN 1 ELSE 0]

\* a VM built inside the current one, if the native stack has room for it
Enter(vm) ==
    IF Len(vms) < MaxDepth
    THEN vms' = Append(vms, vm) /\ UNCHANGED status
    ELSE status' = "overflow" /\ UNCHANGED vms

(***************************************************************************)
(* preprocess_top_level                                                    *)
(***************************************************************************)

\* load_module, the module being in this VM's cache
ImportCached ==
    /\ status = "running"
    /\ Top.pending # <<>>
    /\ LET imp == Head(Top.pending) IN
         /\ imp.from \in DOMAIN Top.cache
         /\ vms' = With(Bind(Top, imp, Top.cache[imp.from]))
    /\ UNCHANGED <<project, status, reads>>

\* load_module, up to sub_vm.run()
ImportRead ==
    /\ status = "running"
    /\ Top.pending # <<>>
    /\ LET m == Head(Top.pending).from IN
         /\ m \notin DOMAIN Top.cache
         /\ reads' = [reads EXCEPT ![m] = @ + 1]
         /\ Enter(NewVM(m, "load", project.top[m]))
    /\ UNCHANGED project

\* the module's own functions become globals
Ready ==
    /\ status = "running"
    /\ Top.pending = <<>>
    /\ ~Top.ready
    /\ vms' = With([Top EXCEPT !.ready = TRUE,
                               !.globals = Override(@, [f \in Defines(Top.mod) |-> Top.mod])])
    /\ UNCHANGED <<project, status, reads>>

(***************************************************************************)
(* The run of a program, reduced to its calls                              *)
(***************************************************************************)

AtCall == status = "running" /\ Top.ready /\ Top.code # <<>>
Callee == Head(Top.code)

\* CallByName of a function of this program: a frame of this VM
CallOwn ==
    /\ AtCall
    /\ Callee \in Defines(Top.mod)
    /\ vms' = With([Top EXCEPT !.code = project.body[Top.mod][Callee] \o Tail(@)])
    /\ UNCHANGED <<project, status, reads>>

\* the modules of the cache whose program defines the name
Candidates == {m \in DOMAIN Top.cache : Callee \in Defines(m)}

\* [mutant] every module of the project searched, not those of this VM
CallImportedAny ==
    /\ AtCall
    /\ Callee \notin Defines(Top.mod)
    /\ \E m \in Modules :
          /\ Callee \in Defines(m)
          /\ Enter(NewVM(m, "call", project.body[m][Callee]))
    /\ UNCHANGED <<project, reads>>

\* [mutant] the module read again for every call, as it once was
CallImportedReading ==
    /\ AtCall
    /\ Callee \notin Defines(Top.mod)
    /\ \E m \in Candidates :
          /\ Enter(NewVM(m, "call", project.body[m][Callee]))
          /\ reads' = [reads EXCEPT ![m] = @ + 1]
    /\ UNCHANGED project

\* call_imported_function takes the first it meets in a HashMap
CallImported ==
    /\ AtCall
    /\ Callee \notin Defines(Top.mod)
    /\ \E m \in Candidates : Enter(NewVM(m, "call", project.body[m][Callee]))
    /\ UNCHANGED <<project, reads>>

\* "function not defined (not in program or any imported module)"
CallUndefined ==
    /\ AtCall
    /\ Callee \notin Defines(Top.mod)
    /\ Candidates = {}
    /\ status' = "error"
    /\ UNCHANGED <<project, vms, reads>>

Finished == status = "running" /\ Top.ready /\ Top.code = <<>>

\* [mutant] the exports not kept for the next import of the module
LoadedUncached ==
    /\ Finished
    /\ Top.job = "load"
    /\ LET vm == Below[Len(Below)] IN
         vms' = Append(SubSeq(Below, 1, Len(Below) - 1), Bind(vm, Head(vm.pending), Top.globals))
    /\ UNCHANGED <<project, status, reads>>

\* load_module, from the return of sub_vm.run()
Loaded ==
    /\ Finished
    /\ Top.job = "load"
    /\ LET vm == Below[Len(Below)]
           cached == [vm EXCEPT !.cache = Override(@, [m \in {Top.mod} |-> Top.globals])]
       IN vms' = Append(SubSeq(Below, 1, Len(Below) - 1), Bind(cached, Head(vm.pending), Top.globals))
    /\ UNCHANGED <<project, status, reads>>

\* [mutant] the caller left at the call
ReturnedStays ==
    /\ Finished
    /\ Top.job = "call"
    /\ vms' = Below
    /\ UNCHANGED <<project, status, reads>>

\* the sub-VM is dropped with everything its globals held
Returned ==
    /\ Finished
    /\ Top.job = "call"
    /\ LET vm == Below[Len(Below)] IN
         vms' = Append(SubSeq(Below, 1, Len(Below) - 1), [vm EXCEPT !.code = Tail(@)])
    /\ UNCHANGED <<project, status, reads>>

Done ==
    /\ Finished
    /\ Top.job = "run"
    /\ status' = "done"
    /\ UNCHANGED <<project, vms, reads>>

Ended == status # "running" /\ UNCHANGED vars

Next ==
    \/ ImportCached \/ ImportRead \/ Ready
    \/ CallOwn \/ CallImported \/ CallUndefined
    \/ Loaded \/ Returned \/ Done \/ Ended

Spec == Init /\ [][Next]_vars

\* the interpreter is one thread: it goes on as long as it can
FairSpec == Spec /\ WF_vars(Next)

-----------------------------------------------------------------------------

VMRecord(vm) ==
    /\ vm \in [mod : Modules, pending : Seq(ImportsOf(vm.mod)), cache : {vm.cache}, globals : {vm.globals},
                job : {"run", "load", "call"}, ready : BOOLEAN, code : Seq(Names)]
    /\ DOMAIN vm.cache \subseteq Modules
    /\ \A m \in DOMAIN vm.cache : Range(vm.cache[m]) \subseteq Modules
    /\ Range(vm.globals) \subseteq Modules

TypeOK ==
    /\ project \in Projects
    /\ vms \in Seq(Range(vms))
    /\ Len(vms) \in 1..MaxDepth
    /\ \A i \in DOMAIN vms : VMRecord(vms[i]) /\ (vms[i].job = "run" <=> i = 1)
    /\ status \in {"running", "done", "error", "overflow"}
    /\ reads \in [Modules -> Nat]

\* A VM runs nothing of its own before it has loaded each of its imports, and
\* it has loaded nothing else: what another VM loaded does not leak into it
\* (vm.rs:1008, 1849).
OwnImports ==
    \A i \in DOMAIN vms :
        /\ \A m \in DOMAIN vms[i].cache : \E imp \in ImportsOf(vms[i].mod) : imp.from = m
        /\ vms[i].ready => \A imp \in ImportsOf(vms[i].mod) :
                              imp.from \in DOMAIN vms[i].cache

\* A call of a name that an import bound runs the function it was bound to
\* (bind_module_exports, vm.rs:1879).
CalleeBound ==
    \A i \in 2..Len(vms) :
        LET called == Head(vms[i - 1].code)
        IN vms[i].job = "call" /\ called \in DOMAIN vms[i - 1].globals
               => vms[i - 1].globals[called] = vms[i].mod

\* Once the imports of the program are loaded no library that imports nothing
\* of its own is read from disk again by a call of one of its functions
\* (vm.rs:380).
LoadedOnce ==
    [][(\A m \in Modules \ {Root} : project.imports[m] = <<>>) /\ vms[1].ready => reads' = reads]_vars

\* Loading and running a program comes to an end.
Finishes == <>(status # "running")
=============================================================================
