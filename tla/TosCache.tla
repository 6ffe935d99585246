------------------------------ MODULE TosCache ------------------------------
(* The top of the operand stack in registers (src/vm/vm.cpp, the macros of   *)
(* run_optimized): the topmost two values at most live in r_tos0 and r_tos1, *)
(* the others in the stack's memory.  A cache is <<mem, regs>>, where regs   *)
(* lists the live registers from the bottom: <<>>, <<r_tos0>> or             *)
(* <<r_tos1, r_tos0>>; its length is r_depth.  No handler may care how many  *)
(* of its operands are in registers.                                         *)
EXTENDS Integers, Sequences

IsCache(c, S) == c \in Seq(S) \X Seq(S) /\ Len(c[2]) <= 2

(* The operand stack a cache stands for. *)
Contents(c) == c[1] \o c[2]

(* Mutant: the registers are not spilled. *)
PUSH_TOS_Deep(c, v) == <<c[1], Append(c[2], v)>>

PUSH_TOS(c, v) ==
    IF Len(c[2]) < 2 THEN <<c[1], Append(c[2], v)>>
    ELSE <<Append(c[1], c[2][1]), <<c[2][2], v>>>>

PEEK_TOS(c) == IF Len(c[2]) >= 1 THEN c[2][Len(c[2])] ELSE c[1][Len(c[1])]

DISCARD_TOS(c) ==
    IF Len(c[2]) >= 1 THEN <<c[1], SubSeq(c[2], 1, Len(c[2]) - 1)>>
    ELSE <<SubSeq(c[1], 1, Len(c[1]) - 1), c[2]>>

DUP_TOS(c) == PUSH_TOS(c, PEEK_TOS(c))

(* The two topmost values, the upper one last. *)
TopTwo(c) ==
    IF Len(c[2]) = 2 THEN c[2]
    ELSE IF Len(c[2]) = 1 THEN <<c[1][Len(c[1])], c[2][1]>>
    ELSE <<c[1][Len(c[1]) - 1], c[1][Len(c[1])]>>

(* POP_TWO_TOS leaves the registers empty whatever was in memory. *)
POP_TWO_TOS(c) ==
    <<SubSeq(c[1], 1, Len(c[1]) - (2 - Len(c[2]))), <<>>>>

(* BINARY_OP_FETCH and the result of the operation: it is the one value      *)
(* left in a register.                                                       *)
BINARY_OP(c, v) == <<POP_TWO_TOS(c)[1], <<v>>>>

(* LOAD_LOAD_LOCAL fills both registers. *)
PUSH_TWO(c, a, b) == <<c[1] \o c[2], <<a, b>>>>

FLUSH_TOS(c) == <<c[1] \o c[2], <<>>>>

(* The arguments of a call are taken from the registers first; what is left  *)
(* there is flushed.                                                         *)
TAKE_ARGS(c, n) ==
    IF n >= Len(c[2])
    THEN <<SubSeq(c[1], 1, Len(c[1]) - (n - Len(c[2]))), <<>>>>
    ELSE <<c[1] \o SubSeq(c[2], 1, Len(c[2]) - n), <<>>>>

Arguments(c, n) ==
    [k \in 1 .. n |->
        IF n - k < Len(c[2]) THEN c[2][Len(c[2]) - (n - k)]
        ELSE c[1][Len(c[1]) - (n - k - Len(c[2]))]]

(* Returning from a frame that began at the given depth of the stack. *)
RETURN_TOS(c, depth) == <<SubSeq(c[1], 1, depth), <<PEEK_TOS(c)>>>>
=============================================================================
