---------------------------------- MODULE IR ----------------------------------
(* The linear intermediate representation (opt_ir.hpp): instructions over    *)
(* virtual registers, local slots and labels, in the order they are executed *)
(* unless a jump says otherwise.  The arithmetic and comparison opcodes are  *)
(* one opcode here, BINARY, with the operator in f; the constants of all     *)
(* types are one, CONST.  A label allocated by the builder is a natural      *)
(* number; a block without one is known by a negative number.                *)
EXTENDS Integers, Sequences

NoOperand == [k |-> "none"]
Reg(n)    == [k |-> "vreg", n |-> n]
Slot(n)   == [k |-> "slot", n |-> n]
Imm(n)    == [k |-> "int", n |-> n]
ImmBool(n) == [k |-> "bool", n |-> n]
Name(s)   == [k |-> "name", s |-> s]
Label(l)  == [k |-> "label", l |-> l]

IsReg(o)   == o.k = "vreg"
IsConst(o) == o.k \in {"int", "bool", "name"}

Ins(op, dst, src1, src2) ==
    [op |-> op, f |-> "", dst |-> dst, src1 |-> src1, src2 |-> src2, args |-> <<>>]
Nullary(op, src1) == Ins(op, NoOperand, src1, NoOperand)
BinaryIns(f, dst, a, b)   == [Ins("BINARY", dst, a, b) EXCEPT !.f = f]
CallIns(dst, callee, args) == [Ins("CALL", dst, Name(callee), NoOperand) EXCEPT !.args = args]

Branches    == {"BRANCH_IF_FALSE", "BRANCH_IF_TRUE"}
Terminators == Branches \cup {"JUMP", "BRANCH3", "RETURN"}

(* The labels an instruction may jump to. *)
Targets(i) ==
    CASE i.op = "JUMP"       -> {i.src1.l}
      [] i.op \in Branches   -> {i.src2.l}
      [] i.op = "BRANCH3"    -> {i.args[n].l : n \in DOMAIN i.args}
      [] OTHER               -> {}

(* The registers an instruction reads. *)
Reads(i) ==
    {o.n : o \in {p \in {i.src1, i.src2} \cup {i.args[n] : n \in DOMAIN i.args} : IsReg(p)}}

HasSideEffect(i) == i.op = "CALL"

MayTrap(i) == i.op = "BINARY" /\ i.f = "div"

(* A function of the module: its parameters are the first of its local slots.*)
FunctionOf(name, params, locals, code) ==
    [name |-> name, params |-> params, locals |-> locals, code |-> code]
===============================================================================
