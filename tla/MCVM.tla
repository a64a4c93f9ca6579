-------------------------------- MODULE MCVM --------------------------------
(***************************************************************************)
(* The interpreter run on the modules the compiler makes of the programs   *)
(* of a family, and what those runs are checked against.                   *)
(***************************************************************************)
EXTENDS VMPlan, Programs, Semantics, TLC

(***************************************************************************)
(* The plan of a module, if it has one: what flows into each pc, joined.   *)
(***************************************************************************)

Join(x, y) == [height |-> IF x.height < y.height THEN x.height ELSE y.height, tries |-> x.tries,
               block |-> x.block, busy |-> x.busy \/ y.busy, defers |-> x.defers \/ y.defers]

\* the edges still to follow
RECURSIVE Spread(_, _, _)
Spread(m, plan, edges) ==
    IF edges = {} THEN plan
    ELSE LET e == CHOOSE e \in edges : TRUE
             x == IF e[1] \in DOMAIN plan THEN Join(plan[e[1]], e[2]) ELSE e[2]
         IN IF e[1] \in DOMAIN plan /\ plan[e[1]] = x THEN Spread(m, plan, edges \ {e})
            ELSE Spread(m, (e[1] :> x) @@ plan,
                        (edges \ {e}) \cup Flow(m, e[1], x) \cup Thrown(m.code[e[1] + 1].op, x))
PlanOf(m) == Spread(m, <<>>, {<<0, Start>>})

\* a compiled module, marked with whether its source is Tame and its code has a plan
Marked(p) ==
    LET m == Compile(p)
    IN [tame |-> Tame(p), ordered |-> Fits(m, PlanOf(m)), src |-> p, code |-> m.code,
        fn_entry_pcs |-> m.fn_entry_pcs]
CompiledOf(sources) == {Marked(p) : p \in sources}

AllModules == CompiledOf(Everything)

\* what is Tame has a plan; and some that is not
ASSUME TameIsOrdered ==
    /\ \A m \in AllModules : m.tame => m.ordered
    /\ \E m \in AllModules : m.ordered /\ ~m.tame

\* a single statement in main, with the functions it calls
Alone(s, fb) == Program(<<s, Say(9)>>, <<Fn("f", fb)>>)

DeferModules == CompiledOf({Alone(Try(<<Call("f")>>, <<Say(1)>>, <<>>), <<Defer(Say(11)), s>>) :
                              s \in {Return1, Raise1}})

-----------------------------------------------------------------------------
\* In a tame program each loop advances the iterator it made (OwnIterator).
TameIterators == module.tame => OwnIterator

\* A tame program prints what its source means and ends as it does.
Correct ==
    module.tame /\ status # "running" =>
        LET m == Meaning(module.src) IN out = m.out /\ status = m.end

\* A tame program ends: every loop of the interpreter makes progress.
TameTerminates == module.tame ~> status # "running"

\* A deferred block (it prints 11) that the source runs has run when the program
\* ends: a function that returns or throws runs its deferred blocks (instr.rs:112).
DeferRuns ==
    status # "running" => (IntV(11) \in Range(Meaning(module.src).out) => IntV(11) \in Range(out))
=============================================================================
