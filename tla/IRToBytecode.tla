----------------------------- MODULE IRToBytecode -----------------------------
(* From the intermediate representation to bytecode (ir_to_bytecode.cpp).    *)
(* Every register is a local slot of the frame, after the variables: an      *)
(* instruction loads its operands, computes on the operand stack and stores. *)
(*                                                                           *)
(* The members of the C++ object are the fields of a record e:               *)
(*   code         the bytecode written so far                                *)
(*   functions    function table: entry point and frame size                 *)
(*   names        functions_: index of each function by name                 *)
(*   globals      globals_: slot of each global by name                      *)
(*   labels       label_offsets_ of the function at work                     *)
(*   from         where the code of that function begins                     *)
(*   bad          an error was reported (CompilerException)                  *)
(* A jump written has a label as its target, resolved when the function is   *)
(* complete; a call has a name until the end.                                *)
EXTENDS IR, FiniteSets, TLC

LOCAL INSTANCE SequencesExt
LOCAL INSTANCE FiniteSetsExt

Fresh == [code |-> <<>>, functions |-> <<>>, names |-> <<>>, globals |-> <<>>,
          labels |-> <<>>, from |-> 1, bad |-> FALSE]

Here(e) == Len(e.code) + 1
Write(e, is) == [e EXCEPT !.code = @ \o is]

(* The local slot of an operand. *)
SlotOf(o, fun) == IF o.k = "slot" THEN o.n ELSE fun.locals + o.n

PushInt(n) == <<[op |-> "Push", v |-> [t |-> "int", n |-> n]]>>

PushOperand(o, fun) ==
    CASE o.k \in {"int", "bool"}  -> PushInt(o.n)
      [] o.k \in {"slot", "vreg"} -> <<[op |-> "LoadLocal", slot |-> SlotOf(o, fun)]>>
      [] OTHER                    -> PushInt(0)

PushAll(os, fun) == FoldLeft(LAMBDA a, o : a \o PushOperand(o, fun), <<>>, os)

(* Mutant: registers take the slots of the variables. *)
StoreDst_Overlapping(dst, fun) ==
    IF dst = NoOperand THEN <<[op |-> "Pop"]>>
    ELSE <<[op |-> "StoreLocal", slot |-> dst.n], [op |-> "Pop"]>>

(* A store leaves the value on the operand stack: it is dropped.             *)
StoreDst(dst, fun) ==
    IF dst = NoOperand THEN <<[op |-> "Pop"]>>
    ELSE <<[op |-> "StoreLocal", slot |-> SlotOf(dst, fun)], [op |-> "Pop"]>>

GlobalSlot(e, name) ==
    IF name \in DOMAIN e.globals THEN e
    ELSE [e EXCEPT !.globals = (name :> Cardinality(DOMAIN e.globals)) @@ @]

(* print gives the destination 0; the nil its opcode yields stays on the     *)
(* operand stack.                                                            *)
EmitPrint(e, i, fun) ==
    Write(e, PushAll(i.args, fun) \o <<[op |-> "Print"]>> \o PushInt(0)
             \o StoreDst(i.dst, fun))

EmitCall(e, i, fun) ==
    Write(e, PushAll(i.args, fun)
             \o <<[op |-> "Call", name |-> i.src1.s, argc |-> Len(i.args), fn |-> 0]>>
             \o StoreDst(i.dst, fun))

EmitLoadGlobal(e, i, fun) ==
    LET known == GlobalSlot(e, i.src1.s)
    IN  Write(known, <<[op |-> "LoadGlobal", slot |-> known.globals[i.src1.s]]>>
                     \o StoreDst(i.dst, fun))

(* The first target of a BRANCH3 is read from src2, where the builder never  *)
(* puts one.                                                                 *)
EmitBranch3(e, i, fun) ==
    IF i.src2.k = "label" /\ Len(i.args) >= 2
    THEN Write(e, PushOperand(i.src1, fun)
                  \o <<[op |-> "Branch3", neg |-> i.src2.l, zero |-> i.args[1].l,
                        pos |-> i.args[2].l]>>)
    ELSE [e EXCEPT !.bad = TRUE]

EmitInstruction(e, i, fun) ==
    LET Pushed(o) == PushOperand(o, fun)
        stored    == StoreDst(i.dst, fun)
    IN
    CASE i.op = "LABEL" -> [e EXCEPT !.labels = (i.dst.l :> Here(e)) @@ @]
      [] i.op \in {"CONST", "MOVE", "LOAD_LOCAL", "STORE_LOCAL"}
                        -> Write(e, Pushed(i.src1) \o stored)
      [] i.op = "LOAD_GLOBAL" -> EmitLoadGlobal(e, i, fun)
      [] i.op = "BINARY" -> Write(e, Pushed(i.src1) \o Pushed(i.src2)
                                     \o <<[op |-> "Binary", f |-> i.f]>> \o stored)
      [] i.op = "JUMP"  -> Write(e, <<[op |-> "Jump", to |-> i.src1.l]>>)
      [] i.op = "BRANCH_IF_FALSE"
                        -> Write(e, Pushed(i.src1)
                                    \o <<[op |-> "JumpIfFalse", to |-> i.src2.l]>>)
      [] i.op = "BRANCH_IF_TRUE"
                        -> Write(e, Pushed(i.src1) \o PushInt(0)
                                    \o <<[op |-> "Binary", f |-> "eq"],
                                         [op |-> "JumpIfFalse", to |-> i.src2.l]>>)
      [] i.op = "BRANCH3" -> EmitBranch3(e, i, fun)
      [] i.op = "CALL"  -> IF i.src1.s = "print" THEN EmitPrint(e, i, fun)
                           ELSE EmitCall(e, i, fun)
      [] i.op = "RETURN" -> Write(e, Pushed(i.src1) \o <<[op |-> "Ret"]>>)
      [] OTHER          -> e

-----------------------------------------------------------------------------
(* Functions. *)

(* The slots that an instruction names. *)
SlotsNamed(i, fun) ==
    {SlotOf(o, fun) : o \in {p \in {i.dst, i.src1, i.src2} \cup {i.args[n] : n \in DOMAIN i.args} :
                                p.k \in {"slot", "vreg"}}}

(* Mutant: the frame is as large as the variables need. *)
FrameSize_VariablesOnly(fun) == fun.locals

(* All of them fit into the frame. *)
FrameSize(fun) ==
    LET named == UNION {SlotsNamed(fun.code[n], fun) : n \in DOMAIN fun.code}
    IN  Max({fun.locals} \cup {s + 1 : s \in named}) + 16

(* The fields of an instruction that hold a label. *)
JumpFields(op) ==
    CASE op \in {"Jump", "JumpIfFalse"} -> {"to"}
      [] op = "Branch3"                 -> {"neg", "zero", "pos"}
      [] OTHER                          -> {}

(* Jumps of the function get the addresses of their labels. *)
PatchJumps(e) ==
    LET Fields(n) == IF n < e.from THEN {} ELSE JumpFields(e.code[n].op)
        known     == \A n \in DOMAIN e.code : \A x \in Fields(n) :
                         e.code[n][x] \in DOMAIN e.labels
    IN  IF ~known THEN [e EXCEPT !.bad = TRUE]
        ELSE [e EXCEPT !.code = [n \in DOMAIN @ |-> [x \in DOMAIN @[n] |->
                IF x \in Fields(n) THEN e.labels[@[n][x]] ELSE @[n][x]]]]

RECURSIVE EmitInstructions(_, _, _)

(* One half after the other: no evaluation is as deep as the code is long.   *)
EmitInstructions(e, code, fun) ==
    LET half == Len(code) \div 2
    IN  CASE code = <<>>   -> e
          [] Len(code) = 1 -> EmitInstruction(e, code[1], fun)
          [] OTHER -> EmitInstructions(EmitInstructions(e, SubSeq(code, 1, half), fun),
                                       SubSeq(code, half + 1, Len(code)), fun)

EmitCode(e, code, fun) ==
    PatchJumps(EmitInstructions([e EXCEPT !.labels = <<>>, !.from = Here(e)], code, fun))

EndsWithReturn(code) == code # <<>> /\ Last(code).op = "RETURN"

(* A function that does not end with a return gets one. *)
EmitFunction(e, fun) ==
    LET entered == [e EXCEPT
            !.functions = Append(@, [entry |-> Here(e), size |-> FrameSize(fun)]),
            !.names     = (fun.name :> Len(e.functions) + 1) @@ @]
        return  == Nullary("RETURN", NoOperand)
    IN  EmitCode(entered, IF EndsWithReturn(fun.code) THEN fun.code
                          ELSE Append(fun.code, return), fun)

(* The top level goes on to the call of main and OP_HALT: its last return    *)
(* writes nothing.                                                           *)
EmitTopLevel(e, fun) ==
    EmitCode(e, IF EndsWithReturn(fun.code) THEN Front(fun.code) ELSE fun.code, fun)

CallMain ==
    <<[op |-> "Call", name |-> "main", argc |-> 0, fn |-> 0], [op |-> "Pop"]>>

(* The module: top level, call of main if there is one and halt come first,  *)
(* then the functions.                                                       *)
EmitHead(module) ==
    LET main == \E n \in DOMAIN module : module[n].name = "main"
    IN  Write(EmitTopLevel(Fresh, Last(module)),
              (IF main THEN CallMain ELSE <<>>) \o <<[op |-> "Halt"]>>)

Complete(e, module) == Len(e.functions) = Len(module) - 1

EmitNextFunction(e, module) == EmitFunction(e, module[Len(e.functions) + 1])

(* Calls are resolved last.                                                  *)
ChunkOfCode(e, module) ==
    LET Calls == {n \in DOMAIN e.code : e.code[n].op = "Call"}
    IN  IF e.bad \/ \E n \in Calls : e.code[n].name \notin DOMAIN e.names
        THEN [bad |-> TRUE]
        ELSE [bad |-> FALSE, functions |-> e.functions, topSize |-> FrameSize(Last(module)),
              code |-> [n \in DOMAIN e.code |->
                           IF n \in Calls THEN [e.code[n] EXCEPT !.fn = e.names[e.code[n].name]]
                                          ELSE e.code[n]]]
===============================================================================
