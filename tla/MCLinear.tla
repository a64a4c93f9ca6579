------------------------------ MODULE MCLinear ------------------------------
(***************************************************************************)
(* A function of one ptr parameter.                                        *)
(***************************************************************************)
EXTENDS Linear

CONSTANTS p, b1

TheParams == {p}
TheParamBlock == [v \in TheParams |-> b1]
=============================================================================
