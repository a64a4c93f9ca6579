------------------------------ MODULE MCNative ------------------------------
(***************************************************************************)
(* The native path run on the programs of a family: lowered, assembled,    *)
(* linked and executed, against what the programs mean.                    *)
(***************************************************************************)
EXTENDS NativePlan, Lower, NativePrograms, FiniteSetsExt

Reference == INSTANCE NativeMeaning

Listed(set) == FoldSet(LAMBDA x, acc : Append(acc, x), <<>>, set)

\* a plan of f by data flow from its first instruction, if f has one: where two
\* paths meet the flag is read only if both read it
Meet(x, y) == [depth |-> x.depth, quiet |-> x.quiet /\ y.quiet]

RECURSIVE Spread(_, _, _)
Spread(f, plan, edges) ==
    IF edges = {} THEN plan
    ELSE LET e == CHOOSE e \in edges : TRUE
             k == e[1]
             x == IF k \in DOMAIN plan THEN Meet(plan[k], e[2]) ELSE e[2]
         IN IF k \in DOMAIN plan /\ plan[k] = x THEN Spread(f, plan, edges \ {e})
            ELSE Spread(f, (k :> x) @@ plan,
                        (edges \ {e}) \cup {<<to, Passed(f.code[k], x)>> : to \in Successors(f, k)})

Balanced(fns) == Linked(fns) /\ \A j \in DOMAIN fns : Balances(fns[j], Spread(fns[j], <<>>, {<<1, Outermost>>}))

\* the string pool and the functions of a module
ModuleOf(src, served) ==
    LET ir == Lowered(src)
        fns == Evaluated([j \in DOMAIN ir |-> Assembled(ir[j])])
        strings == UNION {Strings(fns[j].code) : j \in DOMAIN fns}
    IN [fns |-> fns, pool |-> Listed(strings), served |-> served, balanced |-> Balanced(fns),
        meaning |-> IF served THEN Reference!MeaningOf(src) ELSE <<>>]

FamiliesOf(served, unserved) ==
    {{ModuleOf(src, TRUE) : src \in family} : family \in served} \cup {{ModuleOf(src, FALSE) : src \in unserved}}

\* the LET keeps the lowering out of what TLC counts expression by expression
AllFamilies == LET all == FamiliesOf(Served, Unserved) IN all

\* what the proofs take of the layout, and of the plans: a module is marked
\* balanced when its functions have them, and every served one is
ASSUME Layout == AllLaidOut /\ AllApart
ASSUME ServedIsBalanced == \A family \in Families : \A p \in family : p.served => p.balanced
-----------------------------------------------------------------------------
\* A program of the served language links, prints what its source means and
\* ends as it does: lowering, register and frame layout, calling convention and
\* runtime stub together keep the meaning.
Correct ==
    program.served /\ status # "running" => out = program.meaning.out /\ status = program.meaning.end

\* A served program comes to an end of its own: no loop loses its step, no probe
\* goes round a table without a free place (up to the third field of an object),
\* no lock waits for itself. A probe or a lock that spins leaves the status at
\* "hang", which is no end.
Terminates == program.served ~> status \notin {"running", "hang"}
=============================================================================
