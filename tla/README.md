# A verification project for vredrs

vredrs is a compiler and interpreter for the Vredrs language, written in Rust
(`src/src/`, about 67 000 lines), with a runtime in C and a standard library in
Vredrs. This directory holds TLA+ models of the parts of it that keep state
across steps, TLC configurations that check them, and TLAPS proofs.

Paths are relative to the directory that holds `src/` and `tla/`.

## 1. Inventory

| component | files under `src/src` | state it keeps | operations | what makes it correct |
|---|---|---|---|---|
| channel | `runtime/channel.rs` | buffer, `closed`, sender count, one Mutex and one Condvar | make, clone, send, recv, try_recv, drop | messages arrive once, in order; nobody sleeps while it could run; closed exactly when no sender is left |
| coroutine scheduler | `runtime/coroutine.rs` | coroutines, ready queue, live count | spawn, run, resume_coro | the queue is the set of ready coroutines, each once; run returns when nothing is ready; round robin |
| bytecode compiler | `bytecode/compiler.rs`, `instr.rs` | the code being emitted, loop stack, pending defers | one lowering per statement | the code does what the statement means |
| bytecode interpreter | `bytecode/vm.rs` | pc, stack, frames, handlers, iterators, globals, caches | one handler per instruction, in the loop of `run()` or in a loop nested in a Rust call | operands, frames, handlers and loops stay in step however control leaves a construct |
| interpreter imports | `bytecode/vm.rs`, `lib.rs` | per VM: module cache, compiled-module cache, globals | load_module, bind_module_exports, call_imported_function | a name runs the function it was imported as; a module is loaded once; cycles are reported |
| project builder | `driver/build.rs` | cache, assembly and objects on disk, task queue, results | check, compile (serial or threads), write cache, link | no stale object is ever linked; every file that compiles is linked |
| multi-file native backend | `backend/*.rs` | module list, link table | collect_modules, from_programs | dependency order; one vtable layout per class |
| lexer | `lexer/mod.rs`, `token.rs` | indentation levels, open brackets, tokens | one step per line, the end of the file | every Indent has its Dedent; the tokens are those of the text, however it is laid out |
| parser | `parser/mod.rs`, `ast.rs` | position in the tokens | one production per construct | what is written as the grammar has it is read back; no text makes it index past its tokens |
| semantic analyzer | `semantic/mod.rs`, `symbol.rs`, `resolver.rs`, `type_checker.rs` | scopes of symbols, the type of each name | passes over the tree | well-typed programs are let through, ill-typed ones are not |
| borrow and linearity checkers | `semantic/borrow_checker.rs`, `linearity.rs` | ownership of each variable | passes over the tree | no use after move, no conflicting borrow is accepted |
| C* ownership checker | `codegen/cstar/linear.rs` | state of each pointer variable | one check per node of the lowered body | what it accepts neither frees again nor uses a block it freed itself |
| register allocator | `codegen/cstar/raw/regalloc.rs` | held registers, locations given, position | allocate, advance, expire, mark_last_use, reset | live variables never share a place; no spill while a register is free |
| native code generator | `codegen/lower.rs`, `ir.rs`, `emit_raw_x86.rs` and its runtime stub | virtual registers, labels, classes of variables; at run time the stack, the registers, the heap, catch depth and throw flag | lower_* per construct, emit_insn per instruction, one stub per runtime call | output means what the input means; calling convention and frames agree |
| other code generators | `codegen/emit_llvm.rs`, `emit_raw_arm.rs`, `llvm*`, `cstar/` | the text or machine code emitted | lowering passes | output means what the input means |
| monomorphizer | `codegen/raw/monomorphization.rs` | worklist of instances | one instance per step | ends; every call has its instance |
| native runtime | `codegen/runtime/vredrs_runtime.c` (LLVM path) | heap values, exception stack | library calls | |
| standard library | `runtime/std/*.veds` | none: Vredrs source | | |
| package manager | `vpm.rs` | manifest and package directory | init, install, remove, update | manifest and directory agree |
| command line, REPL, editor services | `lib.rs`, `main.rs`, `cli_simple.rs`, `lsp.rs`, `dap.rs`, `fmt.rs`, `line_editor.rs` | session globals, open documents | request loops | |

How they interact. `vredrs run` parses and analyses one file, appends
`core.veds`, compiles it to a `Module` and runs a `VM` on it
(`lib.rs:503`). A VM meets an import by building another VM inside the Rust
frame that asked for it, and does the same again for each call of an imported
function: VMs form a stack and share nothing but the files on disk.
`vredrs build` hands every file to a code generator in a thread; the threads
share the task queue, the result list and, on disk, the cache and the objects,
and an editor may save sources meanwhile. Channel and scheduler are library
types of the crate (the interpreter itself runs `spawn` synchronously,
`compiler.rs:765`).

What is hard here: threads in the channel and the builder; a process killed
between two writes of the builder; control leaving several constructs of the
interpreter at once (a throw through frames, Rust loops, iterators, handlers
and deferred blocks); state that is stale when it is used (cached objects,
functions found by name at the call); decisions taken variable by variable
about something variables share, the heap blocks of the ownership checker and the
registers of the allocator; and the long way of a program through lexer, parser,
analyzer, compiler or lowering, and interpreter or machine, where each part takes
for granted what another keeps (a made-up Newline, the order of operands, a slot
number, a cached global, a callee-saved register). `PROJECT.json` lists each hazard at its
line with the properties that cover it.

## 2. Plan

1. **Channel**, with the abstract **Pipe** it implements, and **Scheduler** —
   done, with proofs.
2. **VM**, the control core of the interpreter, with **Compiler** to give it
   real code and **Semantics** to say what that code should do — done; proofs of
   the control invariants.
3. **Imports**, **Build**, **RegAlloc** and **Linear** — done, with proofs.
4. **Lower** and **Native**: the native path, executed — modelled and checked;
   proofs about the stack and the registers of **Native**.
5. **Lexer**, **Parser**, **Front** and **Printer**: the front end — modelled and
   checked.
6. **Bytecode**, **Values**, **Builtins**, **Interp**, **Analyzer**, composed with
   the front end in **Vredrs**: `vredrs run` as a whole, with globals and their
   cache, closures, classes, generators — modelled and checked.
7. Left: `LinkTable` (the fixpoint over class metadata) and `Resolver`
   (depth-first order, de-duplication by content) of `backend/`; module variables
   across calls; the ownership automaton of `borrow_checker.rs` and
   `linearity.rs`; the monomorphizer's worklist; the package manager's steps over
   its directory; the locations `x86.rs` keeps beside the allocator's.
8. Proofs still wanted: `OwnIterator` of the VM, from the same plan; that every
   layout `emit_function` makes has its slots apart when the parameters are the
   first virtual registers (`AllApart`), which needs an induction over `SelectSeq`.

## 3. Modules

### Channel, Pipe, ChannelProofs (`runtime/channel.rs`)

`buffer`, `closed`, `senders` are the fields of `ChannelInner`; `pc` is what the
thread of each handle is doing. The mutex is held from the first line of an
operation to its return or to `Condvar::wait`, so that region is one action:
`Send`/`SendResume` (before and after a wait), `Recv`/`RecvResume`, `TryRecv`,
`Clone`, `Drop`, `DropReceiver`. `NotifyAll` wakes every waiting thread;
`SpuriousWake` is what the standard library allows. `sent`, `received`,
`refused` are history variables. `Pipe` is the promise: a sequence of messages
put in at one end and taken out at the other, in order, once, closed once the
senders are gone. `PipeSpec` in Channel is its instance over the histories.

### Scheduler, SchedulerProofs (`runtime/coroutine.rs`)

The variables are the fields of `Scheduler`, the state of each coroutine, and
`in_run`: `run` takes `&mut self`, so `Spawn` and `ResumeCoro` happen between
calls of `run` only. `RunStep` is one turn of the loop, with the call of the
body; `RunExit` its end. `served` is history: who ran since a coroutine was last
enqueued.

### Compiler, VM, VMPlan, VMProofs, Semantics, Programs, MCVM (`bytecode/`)

`Compiler` is a function from syntax to code, statement by statement as
`compile_stmt` and the `compile_*` methods emit it, with the jump patching, the
epilogues and the flushing of deferred blocks. Expressions are reduced to
constants and calls. `VM` has one action per instruction. Its state:

| TLA+ | Rust |
|---|---|
| `pc`, `stack`, `frames`, `handler_stack`, `iterators` | the fields of `VM` of the same names |
| `native` | the Rust loops that run instructions inside `run()`: one record per `call_method_on_class` in progress, and one for the deferred blocks of a `Return` |
| `self` | `globals["self"]` |
| `out` | what was printed |
| `status` | whether `run()` has returned, and how |

`run()` and the nested loops treat some instructions differently; the guard
`native = <<>>` tells them apart (`ReturnPlain` and `ReturnDefers` against
`ReturnNested`; `MulError` against `MulNull`). `Raise` is the `Err` arm of
`run()`: every nested loop is left through `?`, one handler is popped, the
frames are cut to its depth, nothing is cut from the stack.

`Semantics` is the reference: a structured interpreter without stack, handlers
or jumps, which says what the statements mean according to the comments of the
compiler and instruction set. `Programs` builds the families of programs that
are run, and defines `Tame`, the programs on which code and meaning agree; each
of its conditions names the thing the code does outside of it (section 4). Compiler and VM are
kept small, for the proofs; Bytecode and Interp below have the rest of the same two
files.

`VMPlan` has no code behind it: it says what a plan of a module is, how many operands
and which handlers the compiler arranged for each instruction to find and where
deferred blocks are and may run (`Fits`), and when a state is as planned (`Arranged`). MCVM computes a plan of each
compiled module where there is one (`PlanOf`) and marks the module `ordered`; of
the 13 621 modules of the family 12 929 have a plan, the tame ones (4 469) among them.
The others are programs that leave a construct without undoing it: in

    def f() { for x in [1, 2] { try { return 1 } catch { print(14) } } }
    f(); throw 1

the `return` leaves the handler of its `try` installed (`compiler.rs:611`), the throw in the main program resumes at the catch of `f`, and the loop there looks for its
iterator on a stack that has none: `Underflow`, an error that no handler catches.
(`Pop` and `Return` in `run()` do without their operand.) `OwnOperands` and `HandlersLive` speak of ordered
modules.

### Build, MCBuild, BuildProofs (`driver/build.rs`)

A text is a pair of a file and the number of times it was saved; it stands for
content hash and mtime. `cache`, `ir`, `obj`, `exe` are what is on disk;
`unchecked`, `tasks`, `linked`, `results`, `worker` what the process has in
memory. `Begin`, `Clean`, `CheckFile`, `Start`, `Join`, `Link` are the main thread, `Take`,
`Lower`, `Assemble`, `Hash`, `Store`, `Report` one turn of a thread (or of the serial
loop), cut where another thread, an editor or a kill can come in between. `--clean`
removes the cache in `Begin` and what was built in `Clean`, each directory in one step.
A compile fails in one of two places: before anything is written (`Broken`), or when
clang or the assembler refuses the `.ll` that was (`Refuse`), which leaves the old
object or none. `Save` and `Crash` are the surroundings. All files of one kind take one
path; the `.cpps` firmware path, which is neither cached nor linked, is left
out.

### Imports, MCImports, ImportsProofs (`bytecode/vm.rs`, `lib.rs`)

`vms` is the stack of VMs. A VM has the imports it has still to load, its module
cache, what its function globals were bound to, and the calls it has still to
make. `ImportRead` .. `Loaded` is `load_module` around the `run()` of the
module, `CallImported` .. `Returned` is `call_imported_function`. A run of a
program is reduced to its calls. The native stack has room for `MaxDepth` VMs.
Imports are taken to stand before the functions of a file.

### RegAlloc, RegAllocProofs (`codegen/cstar/raw/regalloc.rs`)

One action per method that changes the allocator: `Allocate` (which finds a free
register, `TakeFree`, or spills the new variable, `SpillSelf`, or another,
`Evict`), `Advance`, `ExpireOldIntervals`, `MarkLastUse`, `Reset`. `active`,
`allocations`, `next_stack_offset`, `current_pos` are its fields; `life` is
history: the interval each variable was asked for with, as `mark_last_use` cut
it. Intervals start at the current position, which is how the one caller,
`alloc_var` of `x86.rs`, asks. Which of several equally long intervals is evicted
depends on the order of a hash map: any of them.

### Linear, MCLinear, LinearProofs (`codegen/cstar/linear.rs`)

`resources` and `verdict` are the checker's; `names` is the map from variables to
LLVM values of the emitter (`codegen/cstar/codegen.rs`), `heap` and `faults` what
the emitted code does. Each action is one node, checked, and executed as it is
emitted; a body is any sequence of them. The checker and the emitter both go
through a loop body once. `AllocLinear`, `Move`, `Consume`, `Load` are the nodes of
these names, `Free` and `Call` the two cases of a call node, `Access` the nodes
that only read pointers, `FinishScope` the end of the function. `Call` lets the callee free any
of the blocks it is given (`gone`), as each C* callee has to consume its pointer parameters
(`linear.rs:50`), or not; what this function frees is `freed`. `faults` tells
whose free a block had seen that is freed again or used.

### IR, Lower, Native, NativePlan, NativeMeaning, NativePrograms, MCNative, NativeProofs (`codegen/`)

`Lower` is `lower.rs`: an operator per `lower_*` function, which takes the
`Lowerer` (its fields as a record) and returns it with the instructions emitted.
An instruction is a record of `ir.rs`; `IR` has their constructors. `Native` is `emit_raw_x86.rs` with the C
text of `minimal_runtime_stub`: `Assembled` gives each function its registers,
slots and frame (`emit_function`), the actions execute one IR instruction with the
words it is emitted as. Its state:

| TLA+ | what it stands for |
|---|---|
| `program`, `pc` | the linked module; the function and instruction the machine is at |
| `args`, `rax`, `saved`, `fp` | the argument registers, the result, the five callee-saved registers that hold virtual registers, `rbp` |
| `mem` | the words of the stack, as the prologue, the pushes and the calls leave them |
| `heap` | the string pool, then lists, strings, dicts, objects, channels, mutexes of the stub |
| `exc` | catch depth, throw flag and thrown value, the globals of the stub |
| `out`, `status` | what was printed; how the process ended |
| `frames` | history: what each call under way has to find again when it returns |

A word is a number or an address; addresses of code, strings and heap blocks lie
in ranges of their own, so that a program that computes with one is seen to.
`Junk` is what a register holds that nothing was put in. A call of a function the
stub does not define does not link: `Callees` against `StubFunctions`.
A coroutine that would run a function on a stack of its own ends the run as
`outside`, a call of a word that is no function as a fault. An assertion without a
message may print what it finds or fault.
`NativePlan` says why a program pops the catch frames it pushes: a plan of a function
gives each instruction that control may reach the number of frames pushed above the
caller's, and whether the throw flag has been read since anything that may raise
it (`Balances`). MCNative computes the plans by data flow and marks a module `balanced` if
all its functions have one. `ServedIsBalanced` says that all served ones do; a
`return` out of a `try` has none.
`NativeMeaning` says what the source means (a structured evaluator, without
registers, labels or frames) and `NativePrograms` holds the programs: `Served`,
on which code and meaning agree, and `Unserved`, on which they do not (section 4):
of those only the stack and the registers are claimed.

### Lexer, Tokens, Parser, Front, Printer (`lexer/`, `parser/`)

A line is a column and a sequence of items; an item is what one lexeme would
be (a word, an operator, a number, a string with its interpolations, a
directive, a comment). `Lexer` has `ScanLine` (indentation, brackets, the
Newline), `ScanEnd` and `EndOfFile`. `Parser` has an operator per production of
`parser/mod.rs`, under the same names; it takes the tokens and a position and
answers a tree and a position, an error, or a panic (`adv_tok` past the last
token). `Front` is the front end on one file, which somebody may edit before it
is read: `Edit`, `Keep`, `Scan`, `Finish`, `Parse`. `Printer` writes a program in
a layout (with or without `/end`, with `then`, comments and blank lines, other
indentation) and says which tree that is.

### Analyzer (`semantic/`)

`analyze_with_mode` for a `.veds` file: declarations and scopes (`symbol.rs`), the
type checker with what each assignment makes of a name, the validation of
statements (`break` outside a loop, `return` outside a function). `Accepted` is its
verdict; what only warns is left out, and so are the resolver's errors (a name
declared twice), which the code drops.

### Bytecode, Values, Builtins, Interp (`bytecode/`)

`Bytecode` is `compiler.rs` on the whole language: an operator per `compile_*`,
over the record of the `Compiler` (pool, code, slots, loop stack, pending defers
and lambdas). `Interp` executes an instruction: `Step(u, m)` for the program `u`
and the interpreter `m`, whose fields are those of `VM` (`stack`, `frames`,
`handlers`, `iters`, `globals`, `cache`, the heap of objects, generators) and
`native`, the stack of Rust: the loops in progress with what each is to do with
its value, since methods, lambdas, generators and builtins that call back run
loops of their own. `Values` has truth, text, equality, order and arithmetic of
`Value`; floats are exact fractions. `Builtins` has the methods of strings,
lists, dicts and sets and the core functions in Rust. `m.turn` says in which of
two orders a HashMap is enumerated.

### Interpreted, CoreLibrary, Vredrs, MCVredrs (`lib.rs`, `runtime/std/core.veds`)

`Vredrs` extends `Front` with what `run_bytecode_vm` does next: `Compile` (a file
after analysis, with the library behind it; a text without either), `Refuse`,
one action per group of instructions, `CallMain`, `Stop`. What a step computes
is a constant operator (`TreeOf`, `Analyzed`, `Compiled`, `Stepped`, ...), given by
MCVredrs from the modules above: TLC then counts the actions and not every
expression of the compiler. `CoreLibrary` holds the functions of `core.veds` as
trees. `Interpreted` holds programs next to what they print, taken from the
language's tests where there is one; the programs of the native run are run
here too, and what they print is their meaning (`NativeMeaning`).

## 4. What is checked

### Passing runs

| run | question | bounds |
|---|---|---|
| `channel` | is the channel a bounded FIFO pipe that ends once, with every sleeper woken and everything delivered? | 2 senders, 2 receivers, capacity 2, 3 sends each: full and empty buffers, a thread woken to find nothing, close with messages left, clones while others sleep all happen |
| `scheduler` | is the queue exact and fair, does `run` return? | 3 coroutines of up to 2 turns each: a coroutine waits, is resumed and finishes while others are in the queue |
| `vm` | does the interpreter keep its frames and loops in step on every program, its handlers and operands on every ordered one? does a tame program end, and do what its source means? | every program of the family: each compound statement around each leaf, nested once, with 11 function bodies and 6 method bodies; at most 40 lines of output, which cuts the programs that never end |
| `build` | is the cache sound at every point a kill can hit, does a threaded build link everything, fresh, and end? | 3 files, 2 threads, 2 saves of each, 2 kills; the first text of one file does not parse, clang refuses what the second of another was lowered to |
| `regalloc` | do live variables ever share a place, is a register ever left unused? | 4 variables, 2 registers, intervals of 1, 2 and 4 positions out of 5: expiry, both kinds of spill, two evictions in a row, a shortened interval and a second function all happen |
| `linear` | does the checker accept a function whose code frees again or uses what it freed itself? | 3 variables, one a parameter, 3 blocks: chains of moves, names used again, everything freed in any order, callees that free what they are given or not |
| `imports` | does every VM load its own imports first, does a call reach the function that was imported, are libraries read once, does every run end? | three modules; flat, nested and circular imports; room for 5 VMs on the native stack |
| `native` | does a program that is lowered, assembled and linked print what it means, with every register, frame and catch frame given back? | some 550 programs: every operator on every kind of operand, each statement in each other, nested loops left by break and continue, calls of up to 6 arguments, closures of up to 4 captures and parameters, classes, tries; both outcomes of `realloc` |
| `vredrs` | does the front end read a program back however it is laid out, and survive one slip? does `vredrs run` do what the source says, and refuse what is ill typed? | the programs above and 12 drafts of other declarations, in 4 layouts, with a last newline or without; one slip of a draft at any item or line (dropped, doubled, replaced by one of 6 lexemes, cut off after, line removed or shifted); 240 runs in one layout each, as file and as text, both orders of a HashMap |

Some properties speak of the programs or projects on which code and words agree: `Correct`,
`TameIterators` and `TameTerminates` of `vm` of the tame ones, `Correct`, `CatchBalanced` and
`Terminates` of `native` of the served ones, `CalleeBound` of projects without a name
in two modules. There they say that nothing else goes wrong. The cases the code itself gets
wrong (a jump out of a `try` or out of a `for` in a `for`, `finally` after a
throw, a name looked up in the wrong module, an overridden method called on `self`, a
fourth field, a full channel) are outside of them: no passing run reports these, they are
listed below.

Channel handles and threads, coroutines, files and variables are interchangeable, so a
disagreement between two of them, and a third that looks on, is the whole of
what more of them could do; the statements interact in pairs (one construct left
by a jump of another), which nesting them once covers. The proofs of section 5
remove the bounds where they apply.

`CHECK_DEADLOCK FALSE` stands in `Channel`, where all handles may be dropped or a
sender may wait for ever on a receiver that is gone, in `VM`, where output is cut at
its bound, in `Linear`, where a function
ends when it is accepted or rejected, and in `Native`, `Vredrs` and `Elif`, where a
program ends.

### Runs that find the code at odds with its own words

Each checks one property, a sentence of the repository; the finding in
`PROJECT.json` quotes it.

| run | what the code does |
|---|---|
| `vm_defer` | a throw skips the deferred blocks of the frames it cuts |
| `build_serial` | a serial build does not link what it compiled |
| `elif` | an `else` after an `elif` does not run: the last false jump is patched twice |

### Other places where code and words differ

Met while modelling, kept in the models as the code has them, and outside of
what the passing runs claim by the condition named:

- `channel.rs:48`: capacity 0 never makes `send` wait; the channel is unbounded,
  not unbuffered (`Bounded` promises nothing at capacity 0).
- `build.rs:162`: the text is hashed after the compilation, so a save meanwhile makes
  the cache accept an object of the text before it (`MayEdit = FALSE` in the runs).
- `linear.rs:142`: a pointer passed to a call stays with the caller, though the callee has
  to consume it (`linear.rs:50`): two frees of one block are accepted, which
  `linear.rs:5` says cannot be. The model has these behaviours, `faults` then holds
  `"callee"`; `MemorySafe` claims that no other double free or use after free is
  accepted.
- `compiler.rs:1095`: `break` leaves its loop's iterator handle on the stack; the
  enclosing loop's `IterNext` advances that one (`Tame`, case `for`).
- `compiler.rs:611`: `return` in a `try` leaves its handler installed; a later
  throw continues in the catch of a function that has returned (`Tame`, case
  `try`).
- `compiler.rs:676`: `finally` is plain code after the catch body; a throw in a
  catch, or a jump out, goes past it (`Tame`, case `try`).
- `vm.rs:1091`, `1118`, `1159`: a type error of the fast path of `+`, `-`, `*`
  leaves `run()` past every handler; in a method, `vm.rs:2121`, the same
  multiplication is null (`Tame`, cases `try` and `method`).
- `build.rs:221`: object and cache entry are named by the stem, so files of one
  name in two directories take each other's (files have stems of their own in
  the runs).
- `build.rs:143`: `--release` is not in the cache key; a release build links the
  debug objects it finds (the model has no option but `--clean`).
- `vm.rs:3209`: a call of an imported function runs the function of that name of
  the first module in a hash map that has one, whichever it was imported from (in
  the run no two modules a VM imports share a name).
- `vm.rs:3209`: a name a module re-exports is bound by the import and undefined
  when called (no re-exports in the projects of the run).
- `vm.rs:3285`: each call of an imported function loads its module's own imports
  again (`LoadedOnce` speaks of libraries that import nothing).
- `vm.rs:1870`: circular imports run until the native stack is exhausted (status
  `overflow`; `Finishes` counts it as an end).
- `regalloc.rs:112`: the comment says that the variable which ends furthest is
  spilled; the code spills the one that ends first (`Furthest`, `SpillSelf`).
- `x86.rs:690`, `730`: parameters are put in callee-saved registers without the
  allocator's knowledge, so the first local takes that of the first parameter;
  `x86.rs:2390` keeps the first answer for a variable, so an eviction leaves two in
  one register; `mark_last_use` and `expire_old_intervals` have no caller. RegAlloc
  speaks of the allocator's own answers only. No build command reaches `x86.rs`
  any more.
- `codegen/cstar/codegen.rs:1370`: the statement `free(p)` emits nothing, only
  `set, r = free(p)` does; a live pointer is also lost when its name is given an
  integer (`set, p = f()`) or moved to an integer type. `linear.rs:5` calls leaks
  hard errors; no property here speaks of them.
- `linear.rs:218`: operands of arithmetic are not looked at, so a moved pointer may
  be used there; LLVM refuses most such text.

In the native path (left out of `Served`; some are in `Unserved`):

- `lower.rs:565`: a call on `self` in an inherited method is bound to the class that
  holds the text of the method, though `src/README.md:44` speaks of vtable dispatch: an
  overriding method is not called.
- `lower.rs:2393`: `and` and `or` evaluate both operands, against their comment.
- `lower.rs:1578`: a throw sets a flag that is read at the end of the try body only; what
  follows the throw is executed. `lower.rs:614`: a jump out of a try leaves its catch
  frame; after 64 of them `push_catch` does nothing and `pop_catch` pops another's.
- `lower.rs:163`: the lambdas are handed over before the top-level statements are lowered,
  so a lambda of the top level does not link. `lower.rs:3178`: a third of the builtin
  names have no function in the stub. An inherited `__enter__` or constructor is an
  undefined symbol too.
- `lower.rs:1205`: the else of a `while` stands behind the jump back and never runs.
  `lower.rs:776`: `select` runs the bodies of all its cases.
- `emit_raw_x86.rs:150`: the slots of a lambda whose captures and parameters need more
  than five registers lie on the saved registers.
- `emit_raw_x86.rs:1293`: the table of an object holds four entries, its class among
  them, and never grows: the fourth field probes for ever (status `hang`; `Terminates` does not count it as an end, and no
  served program has a fourth field).
- `emit_raw_x86.rs:1538`: append may move the list under its other names; `:1649`: send on
  a full channel drops the value; `:1719`: a second lock spins for ever.
- A compound `+=` of strings adds addresses, an interpolated string prints one, an
  assignment to an index can overwrite the length, `defer` runs at once.

In the front end:

- `parser/mod.rs:1752`: `break` and `continue` take a name at the start of the next line
  for their label. `:4504`: a one-line body after `;` goes on over the following lines.
- `a; b` without `/=` drops `b`; a range that ends before a comma eats it
  (`f(1..3, x)` is an error); `f(x) + 1` as a statement splits in two; `f(a)(b)` and
  `f[i](x)` are not calls; `-a.b` is `(-a).b`, `not a < b` is `(not a) < b`.
- `{x y}` in a string keeps `x`; an `@if` with an indented body and `/end` is rejected,
  though `parser/mod.rs:1188` and `compiler.rs:357` describe it; an interface with two
  methods without bodies is rejected.

In the analyzer (a `.veds` file only; a text is not analyzed):

- `type_checker.rs:411`: a sum of strings is an `int`, so `s = s + "b"` is refused.
- `symbol.rs:199`: "Same types are compatible", but dicts, sets, functions and generic
  types are compatible with nothing.
- A variable that was given a value may not be set to `null`, but may be deleted.
- `resolver.rs:88`: the errors of the resolver are dropped; methods of classes are not
  type checked.

In compiler and interpreter (left out of `Interpreted`, beside those above):

- `compiler.rs:1360`: `o.f += v` pushes object and value in the order `StoreField` does not
  take them. `compiler.rs:2223`: a dict comprehension gives null. Nested
  `m[i][j] += v` stores in the wrong place. `in`, `is` and `**` evaluate twice and leave a
  value. The else of `while` and `loop` is not compiled.
- The variable and the result of a comprehension are globals. A lambda in a lambda has
  no code; a lambda in a method captures no locals.
- The cache of the globals does not hear of names that patterns and deferred blocks bind.
- An inherited `super` runs the method twice; a raising `__str__` leaves its frame; a
  second generator run within another takes its buffer; an error in `main` is
  swallowed; whether an error can be caught is decided by a part of its message.
- `core.veds`: `core_trim` never ends on text that is not blank, `core_replace` reads an
  undefined name, `Ok` and `Err` are dicts that `?` does not know.

### Fairness

- Channel: weak fairness of each thread's step. A thread that can run is run by
  the operating system; `notify_all` wakes all sleepers, and the mutex is
  free between actions.
- Scheduler: weak fairness of the loop of `run`, which is a plain `while` in one
  thread. Nothing is assumed of the caller: coroutines that wait may wait for
  ever, and `run` need not be called again, so `ReadyRuns` speaks of one call of `run`:
  who is ready in it gets its next step from it.
- VM, Imports, Native: weak fairness of `Next`: one thread, which goes on as long as it
  can.
- Build: weak fairness of the main thread (`Clean` included) and of each thread. None of `Begin`,
  `Save`, `Crash`.

## 5. What is proved

For every value of the constants that satisfies the module's `ASSUME`:

- **ChannelProofs**: `IInv`, inductive, is the safety properties together with
  what they lack: each sent message's number is its sender's count, what was
  received followed by the buffer is what was sent, and a sleeping thread has
  not missed the change it waits for. From it `TypeOK`, `CloseIffNoSender`,
  `NoLostWakeup`, `FifoExactlyOnce`, and three that no run checks by name:
  `SendNeverRefused`, `Bounded` and `NoneMeansDrained` (the pipe promises the
  last two, so the run checks them as part of `PipeSpec`). Then `PipeSpec`, step
  by step, with the histories as the refinement mapping. Assumed of the
  constants: finitely many senders, the first of them among them, senders are not
  receivers. The condition variable is taken to be what the standard library
  documents.
- **SchedulerProofs**: the inductive invariant says that the queue holds exactly
  the ready coroutines, without repetition, that the count is the number of the
  unfinished ones, and bounds who was served since. From it the five safety
  properties, two of them about steps.
- **VMProofs**: for every module whose jumps and entries lie in its code
  (`ModulesAssumption`, which is what `Compile` makes; TLC evaluates it on all
  programs of the runs): the pc stays in the code (`TypeOK`), the Rust loops
  mirror the frames (`LoopsNest`), `self` is unbound without a method
  (`SelfRestored`). `VMInv` is the conjunction, itself inductive: an error may
  cut the frames only because it leaves every loop, and a method's loop ends
  only because the frame it waits for is still there.

  For every module that has a plan (`PlansExist`: the modules marked `ordered` have one)
  also `OwnOperands`, an instruction finds its operands above the base of its own
  frame, and `HandlersLive`, the handlers belong to frames that are still there. Neither is
  inductive: whether an instruction has its operands depends on all that was
  pushed on the way to it, and a handler's depth on the depth of the handlers under
  it. `PlanInv` says where the machine is in the plan: each frame's part of the stack
  is at least what the plan says of the instruction the frame will go on with
  (`FramesFit`), the handlers are those of the `try` blocks the frames are in, in
  their order (`HandlersFit`), and while deferred blocks run, one frame is in a block
  and the plan of every frame above it knows (`BlocksFit`). An error keeps it since the plan of a `catch` is that of its `try`.
  TLC checked the same invariant, with the computed plans, on the whole family
  before it was proved.
- **ImportsProofs**: for any project, any set of names and any room on the native stack.
  `TypeOK` bounds the stack of VMs. `OwnImports` needs beside it what each VM does for
  the one below (`Links`: it loads the first import that one has still to load, or runs
  the function that one calls and has in its cache), and that a VM has each of its
  imports in its cache or still to load, and nothing else in its cache (`Kept`).
  `CalleeBound` is proved of projects in which no two modules that one module imports
  define the same name (`Unambiguous`; section 4 says what the code does elsewhere):
  the search over the loaded modules finds the one that the import bound because
  every loaded module is one of the imports, and globals and exports mean functions
  that are defined where they say (`Bound`). `LoadedOnce`, an action property, follows
  from the root never being loaded by its own libraries (`FInv`).
- **NativeProofs**: for any functions that are laid out as `emit_function` does it:
  control stays in the code (`Contained`), every virtual register has its place in a
  register that is saved or in a word of the frame (`Placed`). MCNative evaluates both,
  as `Layout`, on every function the run assembles. Then the stack is aligned at every
  call (`StackAligned`), at any depth. `Shape`, inductive, describes the whole stack:
  below the newest activation each one waits at a call instruction for the return
  address that the next one holds, its saved `rbp` and the next one's depth are where
  prologue, frame, padding and pushed arguments put them (`Waits`), and no depth is
  below an earlier one (`Depths`). `RegistersKept`, an action property, also needs that
  no slot lies among the saved registers (`AllApart`; the lambdas of section 4 are those
  where one does). `Holding` adds to `Shape` what each activation owes its
  caller: the registers its function uses are in its frame, the others as they
  were. TLC checked both invariants on the programs of the run first. The runtime's functions
  enter these proofs by one thing only, that they leave the stack and the
  callee-saved registers alone.

  For modules whose functions have plans (`PlansExist`: those marked `balanced`) also
  `CatchBalanced`: a program that ends has popped every catch frame it pushed, and no
  exception is pending. It is far from inductive, since a frame may be pushed in one function
  and the flag of its throw be raised many calls below. `CatchInv` says that there are numbers,
  one for each activation, of the frames below its own, each that of its caller and what
  the caller's plan has at the call it waits at (`Offsets`); that the depth is at most the newest
  number and what the plan has at the pc; that a raised flag has a frame to be read in; and
  that the flag is down where the plan says it was read (`Caught`). At the last return both
  numbers are 0, so depth and flag are too. The depth may be less than the plan says,
  because the runtime does not push beyond 64 frames; a flag that is up then still finds a
  plan with a frame, so the theorem holds beyond 64 nested tries. `StubPlain`
  goes through the runtime's functions: only the four of the exceptions change `exc`, and only
  `sys_exit`, which no plan admits, ends the process as a success. TLC checked `CatchInv` with
  the computed plans on all programs of the run first.

- **RegAllocProofs**: for any finite set of variables, any number of registers and
  any intervals. `IInv` adds to `NoSharing` and `ActiveExact` that slots given lie
  above the next one and that a variable without a location has none of the
  registers. `SpillsNeeded` follows from it by counting: with every register held
  by a variable that is live, and one more variable, there are more live variables
  than registers.
- **LinearProofs**: for any variables, parameters that point to blocks of their own,
  and blocks, whatever callees free. `IInv` is `OneOwner` (one live variable at most
  reaches a block, and the function has not freed that block), with: no variable points to a
  block that was not allocated yet, and the function met no block it had freed
  itself. The checker's states are of variables and the claim is of blocks;
  `OneOwner` ties the two. `MemorySafe` follows: where the checker lets a block be
  freed twice, a callee was the first to do it.
- **BuildProofs**: for any finite set of files, any number of threads and of kills.
  `QInv` needs nothing more: threads run between `Start` and `Join` only, the queue
  is empty when they have ended, and a file is in one place, unchecked, queued or
  with one thread. If files have names of their own (`OwnStems`), `OneWriter`
  follows, saves during a build included. The rest holds without such saves
  (`~MayEdit`; section 4 says what they break). `DInv` says of the disk that what
  it holds of a file was made from it and from no later save, and of the threads
  that what they have made is there. `CacheSound` alone is not inductive, since a
  kill may leave an object without its entry; what it lacks is `Newer`: an object
  is never older than the entry beside it, which the order of `write_cache` after
  the assembler ensures. `LinksFresh` and `ThreadsLinkAll` come from `Settled`
  (nobody writes again what is to be linked) and `Kept` (a file that compiles is
  linked, reported, queued or with a thread).

Only model-checked: the liveness properties (the prover does not handle
`ENABLED`); what `Compile` and the reference semantics compute, which are
recursive operators over programs (`TameIterators` and `Correct` of the VM depend on
them, and so does that a compiled program has a plan); that
the code `Assembled` makes is laid out as the proofs assume (`SelectSeq` is recursive);
that a native program prints what it means (`Correct` of MCNative: it depends on what
`Lower` makes, as does that a served program is balanced); and the front
end and `Vredrs`: `Lower`, `Parser`, `Analyzer`, `Bytecode` and `Interp` recurse over
syntax trees, and what a recursive operator computes for every tree is an induction
over data, out of the prover's reach.

## 6. What is not modelled

- The scanning inside one lexeme (digits, escapes), spans, the formatter, the text of
  generated assembly. The parser's recovery after an error (`parser/mod.rs:91`).
- Natively: generators, `coro` and `resume`, floats, qualified names, tuple targets,
  inline assembly; the LLVM and ARM emitters of the same IR, and the C runtime that
  only the LLVM path links.
- In the analyzer: warnings (linearity, matches without all variants), type parameters
  and constraints, the annotations that a `.veds` file refuses (`@pipeline`, `@link`,
  ...), the types of fields, the modes for firmware.
- In the interpreter: builtins with the prefixes math_, json_, os_, time_, rand_, fs_,
  net_ and the like, built-in object classes (Time, Regex, Mutex), file handles, SQL,
  externs, constraints, async methods, macros; imports are in Imports, with built-in
  modules, `as` aliases, module variables and the search path left out. Floats are exact
  fractions, integers do not overflow in the programs that are run.
- In CoreLibrary: the functions on characters and case, and the rest of `core.veds`
  that no program reaches.
- In the builder: cross compilation, the partial write of a cache entry (a part
  of one is refused by the three-line test of `is_cache_valid`), hash
  collisions.
- In the ownership checker's programs: nodes whose operands have a type LLVM
  refuses there, pointers passed twice to one function, local slots of integers.
- The components `PROJECT.json` lists as `not_modelled`, each with its reason.
