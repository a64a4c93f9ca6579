---------------------------------- MODULE IR ----------------------------------
(***************************************************************************)
(* The intermediate representation of the native back ends,                *)
(* src/codegen/ir.rs: type hints, operands and instructions, with what     *)
(* their operators compute.  Lower.tla writes it, Native.tla runs it.      *)
(* Floats are left out; numbers are not cut to 64 bits, and a shift by a   *)
(* negative count or by more than 63 is not modelled.                      *)
(***************************************************************************)
EXTENDS Integers, Sequences, TLC

Static(ty) == ty \in {"i64", "bool", "str", "ptr", "unit"}

Reg(n, ty) == [o |-> "reg", n |-> n, ty |-> ty]
Imm(n, ty) == [o |-> "imm", n |-> n, ty |-> ty]
ImmI64(n) == Imm(n, "i64")
ImmBool(b) == Imm(IF b THEN 1 ELSE 0, "bool")
Null == Imm(0, "dyn")
ImmStr(s) == [o |-> "str", s |-> s, ty |-> "str"]
Sym(f) == [o |-> "sym", f |-> f, ty |-> "ptr"]

Mov(d, s) == [i |-> "mov", d |-> d, s |-> s]
Jump(l) == [i |-> "jump", to |-> l]
Label(l) == [i |-> "label", l |-> l]
Branch(cond, l, r, to) == [i |-> "branch", cond |-> cond, l |-> l, r |-> r, to |-> to]
Bin(op, dyn, d, l, r) == [i |-> "bin", op |-> op, dyn |-> dyn, d |-> d, l |-> l, r |-> r]
\* dst is <<>> or <<register>>
Rt(dst, f, args) == [i |-> "rt", d |-> dst, f |-> f, args |-> args]
CallFn(dst, f, args) == [i |-> "call", d |-> dst, fn |-> f, args |-> args]
CallDyn(dst, callee, args) == [i |-> "calldyn", d |-> dst, callee |-> callee, args |-> args]
RetVal(v) == [i |-> "ret", v |-> v]

Conds == {"Eq", "Ne", "Lt", "Le", "Gt", "Ge"}
Negated(cond) ==
    CASE cond = "Eq" -> "Ne" [] cond = "Ne" -> "Eq" [] cond = "Lt" -> "Ge"
      [] cond = "Le" -> "Gt" [] cond = "Gt" -> "Le" [] cond = "Ge" -> "Lt"

CmpStub == [Eq |-> "vredrs_value_eq", Ne |-> "vredrs_value_ne", Lt |-> "vredrs_value_lt",
            Le |-> "vredrs_value_le", Gt |-> "vredrs_value_gt", Ge |-> "vredrs_value_ge"]

Compare(cond, a, b) ==
    CASE cond = "Eq" -> a = b [] cond = "Ne" -> a # b [] cond = "Lt" -> a < b
      [] cond = "Le" -> a <= b [] cond = "Gt" -> a > b [] cond = "Ge" -> a >= b

Truncated(a, b) == LET q == (IF a < 0 THEN -a ELSE a) \div (IF b < 0 THEN -b ELSE b)
                   IN IF (a < 0) # (b < 0) THEN -q ELSE q

\* of numbers that are not negative
BitAnd(a, b) ==
    LET f[ab \in Nat \X Nat] ==
          IF ab[1] = 0 \/ ab[2] = 0 THEN 0
          ELSE 2 * f[<<ab[1] \div 2, ab[2] \div 2>>] + (ab[1] % 2) * (ab[2] % 2)
    IN f[<<a, b>>]

Arith(op, a, b) ==
    CASE op = "Add" -> a + b
      [] op = "Sub" -> a - b
      [] op = "Mul" -> a * b
      [] op \in {"Div", "FloorDiv"} -> Truncated(a, b)
      [] op = "Mod" -> a - b * Truncated(a, b)
      [] op \in {"And", "BitAnd"} -> BitAnd(a, b)
      [] op \in {"Or", "BitOr"} -> a + b - BitAnd(a, b)
      [] op = "BitXor" -> a + b - 2 * BitAnd(a, b)
      [] op = "Shl" -> a * 2 ^ b
      [] op = "Shr" -> a \div 2 ^ b
      [] op \in Conds -> IF Compare(op, a, b) THEN 1 ELSE 0

\* the function f, with v at x
Put(f, x, v) == (x :> v) @@ f
=============================================================================
