----------------------------- MODULE MCImports -----------------------------
(***************************************************************************)
(* Projects of three modules: r, the program, a with function f (and a     *)
(* helper k), and b with function g.                                       *)
(***************************************************************************)
EXTENDS Imports

CONSTANTS r, a, b, f, g, k

From(m, names) == [from |-> m, names |-> names]
Project(ri, rt, ai, fBody, at, bi, bDefs, bt) ==
    [imports |-> [m \in {r, a, b} |-> IF m = r THEN ri ELSE IF m = a THEN ai ELSE bi],
     top |-> [m \in {r, a, b} |-> IF m = r THEN rt ELSE IF m = a THEN at ELSE bt],
     body |-> [m \in {r, a, b} |->
                 IF m = r THEN [x \in {} |-> <<>>]
                 ELSE IF m = a THEN [x \in {f, k} |-> IF x = f THEN fBody ELSE <<>>]
                 ELSE [x \in bDefs |-> <<>>]]]

RootImports == {<<>>, <<From(a, {f})>>, <<From(a, {f}), From(a, {k})>>, <<From(b, {g}), From(a, {f})>>}
RootCalls == {<<>>, <<f>>, <<f, g>>, <<f, k, f>>}

\* libraries that import nothing
FlatProjects ==
    {Project(ri, rt, <<>>, fBody, at, <<>>, {g}, bt) :
        ri \in RootImports, rt \in RootCalls, fBody \in {<<>>, <<k>>}, at \in {<<>>, <<f>>},
        bt \in {<<>>, <<g>>}}

\* some where a imports b, which may have an f of its own
NestedProjects ==
    {Project(ri, rt, <<From(b, {g})>>, fBody, at, <<>>, bDefs, bt) :
        ri \in {<<From(a, {f})>>, <<From(a, {f}), From(a, {k})>>}, rt \in RootCalls,
        fBody \in {<<k, g>>, <<g, g>>}, at \in {<<>>, <<f, k>>}, bDefs \in {{g}, {f, g}},
        bt \in {<<>>, <<g>>}}

\* a and b import each other
CyclicProjects ==
    {Project(<<From(a, {f})>>, <<f>>, <<From(b, {g})>>, <<>>, <<>>, <<From(a, {f})>>, {g}, <<>>)}

EveryProject == FlatProjects \cup NestedProjects \cup CyclicProjects

ASSUME AllUnambiguous == \A p \in Projects : Unambiguous(p)
=============================================================================
