------------------------------ MODULE MCBuild ------------------------------
(***************************************************************************)
(* The project builder on a small directory, every file with a name of its *)
(* own.                                                                    *)
(***************************************************************************)
EXTENDS Build

CONSTANTS a, b, c

OwnStem == [f \in Files |-> f]

\* a does not parse until it is saved again, and b does not assemble from then on
BrokenSaves == {<<a, 1>>}
RefusedSaves == {<<b, 2>>}
=============================================================================
