------------------------------ MODULE Bytecode ------------------------------
(* Chunks of Tersun bytecode as the bytes they are (include/vm/opcode.hpp),  *)
(* and what the canonical instructions do when run_optimized (src/vm/vm.cpp) *)
(* executes them without any rewriting, as under OptFlags::baseline_v3().    *)
(*                                                                           *)
(* A machine has the fields                                                  *)
(*   ip      offset of the next instruction                                  *)
(*   ops     the operand stack                                               *)
(*   locals  the cells of locals_ written so far                             *)
(*   top     local_top_, where the next frame starts                         *)
(*   calls   call_stack_                                                     *)
(*   tries   try_stack_                                                      *)
(*   heap    the objects: class name, names of the fields in slot order,     *)
(*           their values; an object with fields has a shape of its own      *)
(*   out     what was printed                                                *)
(*   outcome "running", "halted" or "escaped" (an exception left the loop)   *)
(* and a chunk has code, function_table (entries), function_frame_sizes      *)
(* (frames), vtables and string_table (strings).                             *)
EXTENDS Integers, Sequences

Op == [PUSH_INT |-> 1, PUSH_STRING |-> 5, PUSH_BOOL |-> 6, POP |-> 7,
       DUP |-> 8, LOAD_LOCAL |-> 16, STORE_LOCAL |-> 17,
       ADD |-> 32, SUB |-> 33, MUL |-> 34,
       TERNARY_MIN |-> 39, TERNARY_MAX |-> 40,
       EQ |-> 48, NEQ |-> 49, LT |-> 50, LE |-> 51, GT |-> 52, GE |-> 53,
       JUMP |-> 80, JUMP_IF_FALSE |-> 81, BRANCH_3 |-> 82,
       CALL |-> 96, RET |-> 97,
       CALL_FAST_0 |-> 98, CALL_FAST_1 |-> 99, RET_FAST |-> 100,
       PRINTLN |-> 113,
       GET_FIELD |-> 160, NEW_INSTANCE |-> 161, SET_FIELD |-> 163,
       INVOKE_METHOD |-> 164, TRY |-> 167, THROW |-> 168, POP_TRY |-> 169,
       LOAD_LOCAL_0 |-> 176, STORE_LOCAL_0 |-> 180, INCR_LOCAL_IMM |-> 184,
       LOOP_RANGE_FAST |-> 187,
       QUICK_ADD_INT |-> 188, QUICK_SUB_INT |-> 189, QUICK_MUL_INT |-> 190,
       QUICK_LT_INT |-> 191, QUICK_LE_INT |-> 192, QUICK_EQ_INT |-> 193,
       GET_FIELD_IC |-> 194, SET_FIELD_IC |-> 195,
       STORE_LOCAL_POP |-> 196, STORE_LOCAL_0_POP |-> 197,
       LOAD_LOAD_LOCAL |-> 201, FUSED_ADD_LOCAL_LOCAL_STORE |-> 202,
       FUSED_MUL_ADD_I64 |-> 203,
       QUICK_GT_INT |-> 206, QUICK_GE_INT |-> 207,
       INVOKE_METHOD_IC |-> 208, HALT |-> 255]

Jumps == {Op.JUMP, Op.JUMP_IF_FALSE, Op.TRY}
Binaries == {Op.ADD, Op.SUB, Op.MUL, Op.TERNARY_MIN, Op.TERNARY_MAX,
             Op.EQ, Op.NEQ, Op.LT, Op.LE, Op.GT, Op.GE}

CanonicalLen(op) ==
    CASE op = Op.PUSH_INT -> 9
      [] op \in {Op.PUSH_STRING, Op.LOAD_LOCAL, Op.STORE_LOCAL, Op.GET_FIELD,
                 Op.SET_FIELD} \cup Jumps -> 3
      [] op \in {Op.NEW_INSTANCE, Op.INVOKE_METHOD, Op.INVOKE_METHOD_IC,
                 Op.CALL, Op.CALL_FAST_0, Op.CALL_FAST_1} -> 4
      [] op = Op.PUSH_BOOL -> 2
      [] op = Op.BRANCH_3 -> 7
      [] OTHER -> 1

(* Offsets count from 0.  Int64 reads the 8 bytes of an integer literal that *)
(* is less than 2^16 and not less than -2^16.                                *)
Byte(code, p)   == code[p + 1]
UInt16(code, p) == Byte(code, p) + 256 * Byte(code, p + 1)
Int16(code, p)  == LET u == UInt16(code, p)
                   IN  IF u > 32767 THEN u - 65536 ELSE u
Int64(code, p)  == UInt16(code, p) - (IF Byte(code, p + 7) = 255 THEN 65536
                                                                 ELSE 0)
Bytes16(n)      == <<n % 256, (n \div 256) % 256>>

-----------------------------------------------------------------------------
(* Values: <<"int", n>>, <<"bool", 0 or 1>>, <<"obj", id>>, <<"nil", 0>> and *)
(* <<"text", s>>, where s is the sequence of the values joined and a literal *)
(* is <<"str", its name>>.                                                   *)
Number(n) == <<"int", n>>
Bool(b) == <<"bool", IF b THEN 1 ELSE 0>>
Text(s) == <<"text", s>>
Nil     == <<"nil", 0>>
Literal(name) == Text(<< <<"str", name>> >>)

IsInt(v)  == v[1] = "int"
IsText(v) == v[1] = "text"
IsObj(v)  == v[1] = "obj"
AsInt(v)  == IF v[1] \in {"int", "bool"} THEN v[2] ELSE 0
AsBool(v) == AsInt(v) # 0 \/ IsObj(v)
Pieces(v) == IF IsText(v) THEN v[2] ELSE <<v>>

MinMax(n, a, b) == IF a[1] = "bool" /\ b[1] = "bool" THEN Bool(n # 0) ELSE Number(n)

(* LT, LE, GT and GE are those of numbers. *)
Apply(op, a, b) ==
    CASE op = Op.ADD -> IF IsText(a) \/ IsText(b) THEN Text(Pieces(a) \o Pieces(b))
                                                  ELSE Number(AsInt(a) + AsInt(b))
      [] op = Op.SUB -> Number(AsInt(a) - AsInt(b))
      [] op = Op.MUL -> Number(AsInt(a) * AsInt(b))
      [] op = Op.TERNARY_MIN ->
            MinMax(IF AsInt(a) < AsInt(b) THEN AsInt(a) ELSE AsInt(b), a, b)
      [] op = Op.TERNARY_MAX ->
            MinMax(IF AsInt(a) > AsInt(b) THEN AsInt(a) ELSE AsInt(b), a, b)
      [] op = Op.EQ  -> Bool(IF IsText(a) \/ IsText(b) THEN Pieces(a) = Pieces(b)
                                                       ELSE AsInt(a) = AsInt(b))
      [] op = Op.NEQ -> Bool(IF IsText(a) \/ IsText(b) THEN Pieces(a) # Pieces(b)
                                                       ELSE AsInt(a) # AsInt(b))
      [] op = Op.LT  -> Bool(AsInt(a) < AsInt(b))
      [] op = Op.LE  -> Bool(AsInt(a) <= AsInt(b))
      [] op = Op.GT  -> Bool(AsInt(a) > AsInt(b))
      [] op = Op.GE  -> Bool(AsInt(a) >= AsInt(b))

-----------------------------------------------------------------------------
(* Operands, local variables and fields. *)

Peek(ops)    == ops[Len(ops)]
Drop(ops, n) == SubSeq(ops, 1, Len(ops) - n)
Args(ops, n) == SubSeq(ops, Len(ops) - n + 1, Len(ops))

LocalBase(m) == IF m.calls = <<>> THEN 0 ELSE m.calls[Len(m.calls)].base

Cell(locals, idx) == IF idx \in DOMAIN locals THEN locals[idx] ELSE Nil

WriteCells(locals, base, vals) ==
    [i \in DOMAIN locals \cup (base .. base + Len(vals) - 1) |->
        IF i \in base .. base + Len(vals) - 1 THEN vals[i - base + 1]
                                              ELSE locals[i]]

Local(m, slot) == Cell(m.locals, LocalBase(m) + slot)

(* A slot outside the frame moves the start of the next frame above it. *)
SetLocal(m, slot, v) ==
    LET idx == LocalBase(m) + slot
    IN  [m EXCEPT !.locals = WriteCells(@, idx, <<v>>),
                  !.top = IF idx >= @ THEN idx + 8 ELSE @]

SlotOf(obj, field) == CHOOSE k \in DOMAIN obj.names : obj.names[k] = field
HasField(obj, field) == \E k \in DOMAIN obj.names : obj.names[k] = field

(* Mutant: a new field takes the first slot. *)
SetField_InFront(obj, field, v) ==
    IF HasField(obj, field)
    THEN [obj EXCEPT !.vals[SlotOf(obj, field)] = v]
    ELSE [obj EXCEPT !.names = <<field>> \o @, !.vals = <<v>> \o @]

(* VMObject::set_field: the first field gives the object its shape. *)
SetField(obj, field, v) ==
    IF HasField(obj, field)
    THEN [obj EXCEPT !.vals[SlotOf(obj, field)] = v]
    ELSE [obj EXCEPT !.names = Append(@, field), !.vals = Append(@, v)]

(* Bytes of an instruction passed, and the operands it leaves. *)
Advance(m, len, ops) == [m EXCEPT !.ip = @ + len, !.ops = ops]

-----------------------------------------------------------------------------
(* Calls and exceptions. *)

FrameSize(ch, fn, needed) ==
    LET size == IF fn \in DOMAIN ch.frames /\ ch.frames[fn] > 0
                THEN ch.frames[fn] ELSE 32
    IN  IF size < needed + 8 THEN needed + 8 ELSE size

Enter(m, len, entry, size, rest, args) ==
    [m EXCEPT !.calls = Append(@, [ret |-> m.ip + len, base |-> m.top,
                                   depth |-> Len(rest), size |-> size]),
              !.locals = WriteCells(@, m.top, args),
              !.top = @ + size,
              !.ops = rest,
              !.ip = entry]

Return(m, v) ==
    IF m.calls = <<>>
    THEN [m EXCEPT !.outcome = "halted"]
    ELSE LET f == m.calls[Len(m.calls)]
         IN  [m EXCEPT !.calls = SubSeq(@, 1, Len(@) - 1),
                       !.top = f.base,
                       !.ops = Append(SubSeq(@, 1, f.depth), v),
                       !.ip = f.ret]

(* c_lbl_catch: the message is replaced by a fixed one. *)
Caught == Literal("VM Exception caught")

Raise(m, rest) ==
    IF m.tries = <<>>
    THEN [m EXCEPT !.ops = rest, !.outcome = "escaped"]
    ELSE LET t == m.tries[Len(m.tries)]
         IN  [m EXCEPT !.tries = SubSeq(@, 1, Len(@) - 1),
                       !.calls = SubSeq(@, 1, t.calls),
                       !.top = t.top,
                       !.ops = Append(SubSeq(rest, 1, t.depth), Caught),
                       !.ip = t.catch]

EnterTry(m, len, to) ==
    [m EXCEPT !.tries = Append(@, [catch |-> to, depth |-> Len(m.ops),
                                   top |-> m.top, calls |-> Len(m.calls)]),
              !.ip = @ + len]

PopTry(m, len) ==
    [m EXCEPT !.tries = SubSeq(@, 1, Len(@) - 1), !.ip = @ + len]

(* A method of an object, found through the vtable of its class. *)
Method(ch, obj, name) == ch.vtables[obj.cls][name]
HasMethod(ch, obj, name) == /\ obj.cls \in DOMAIN ch.vtables
                            /\ name \in DOMAIN ch.vtables[obj.cls]

-----------------------------------------------------------------------------
(* One canonical instruction; p is its offset and op its opcode. *)

ExecGetField(ch, m, field) ==
    LET v == Peek(m.ops)
    IN  IF ~IsObj(v) THEN Advance(m, 3, Append(Drop(m.ops, 1), Number(0)))
        ELSE IF HasField(m.heap[v[2]], field)
        THEN Advance(m, 3, Append(Drop(m.ops, 1),
                 m.heap[v[2]].vals[SlotOf(m.heap[v[2]], field)]))
        ELSE Raise(m, Drop(m.ops, 1))

ExecSetField(ch, m, field) ==
    LET target == Args(m.ops, 2)[1]
        done   == Advance(m, 3, Drop(m.ops, 2))
    IN  IF ~IsObj(target) THEN done
        ELSE [done EXCEPT !.heap[target[2]] = SetField(@, field, Peek(m.ops))]

ExecInvoke(ch, m, name, argc) ==
    LET target == Args(m.ops, argc + 1)[1]
        rest   == Drop(m.ops, argc + 1)
    IN  IF IsObj(target) /\ HasMethod(ch, m.heap[target[2]], name)
        THEN LET fn == Method(ch, m.heap[target[2]], name)
             IN  Enter(m, 4, ch.functions[fn], FrameSize(ch, fn, argc + 1),
                       rest, Args(m.ops, argc + 1))
        ELSE Advance(m, 4, Append(rest, Nil))

ExecBranch3(code, m, n) ==
    LET p   == m.ip
        arm == CASE n < 0 -> 1 [] n = 0 -> 3 [] n > 0 -> 5
    IN  [m EXCEPT !.ip = p + arm + 2 + Int16(code, p + arm),
                  !.ops = Drop(@, 1)]

ExecCall(ch, m, fn, argc) ==
    Enter(m, 4, ch.functions[fn], FrameSize(ch, fn, argc),
          Drop(m.ops, argc), Args(m.ops, argc))

ExecAt(ch, m, p, op) ==
    CASE op = Op.PUSH_INT ->
            Advance(m, 9, Append(m.ops, Number(Int64(ch.code, p + 1))))
      [] op = Op.PUSH_STRING ->
            Advance(m, 3, Append(m.ops, Literal(ch.strings[UInt16(ch.code, p + 1)])))
      [] op = Op.PUSH_BOOL ->
            Advance(m, 2, Append(m.ops, Bool(Byte(ch.code, p + 1) # 0)))
      [] op = Op.POP -> Advance(m, 1, Drop(m.ops, 1))
      [] op = Op.DUP -> Advance(m, 1, Append(m.ops, Peek(m.ops)))
      [] op = Op.LOAD_LOCAL ->
            Advance(m, 3, Append(m.ops, Local(m, UInt16(ch.code, p + 1))))
      [] op = Op.STORE_LOCAL ->
            Advance(SetLocal(m, UInt16(ch.code, p + 1), Peek(m.ops)), 3, m.ops)
      [] op \in Binaries ->
            Advance(m, 1, Append(Drop(m.ops, 2),
                Apply(op, Args(m.ops, 2)[1], Peek(m.ops))))
      [] op = Op.JUMP ->
            [m EXCEPT !.ip = p + 3 + Int16(ch.code, p + 1)]
      [] op = Op.JUMP_IF_FALSE ->
            [m EXCEPT !.ip = p + 3 + (IF AsBool(Peek(m.ops)) THEN 0
                                      ELSE Int16(ch.code, p + 1)),
                      !.ops = Drop(@, 1)]
      [] op = Op.BRANCH_3 -> ExecBranch3(ch.code, m, AsInt(Peek(m.ops)))
      [] op = Op.CALL ->
            ExecCall(ch, m, UInt16(ch.code, p + 1), Byte(ch.code, p + 3))
      [] op = Op.RET -> Return(m, Peek(m.ops))
      [] op = Op.PRINTLN ->
            [Advance(m, 1, Append(Drop(m.ops, 1), Nil))
                EXCEPT !.out = Append(@, Peek(m.ops))]
      [] op = Op.NEW_INSTANCE ->
            [Advance(m, 4, Append(m.ops, <<"obj", Len(m.heap) + 1>>))
                EXCEPT !.heap = Append(@,
                    [cls |-> ch.strings[UInt16(ch.code, p + 1)],
                     names |-> <<>>, vals |-> <<>>])]
      [] op = Op.GET_FIELD ->
            ExecGetField(ch, m, ch.strings[UInt16(ch.code, p + 1)])
      [] op = Op.SET_FIELD ->
            ExecSetField(ch, m, ch.strings[UInt16(ch.code, p + 1)])
      [] op = Op.INVOKE_METHOD ->
            ExecInvoke(ch, m, ch.strings[UInt16(ch.code, p + 1)],
                       Byte(ch.code, p + 3))
      [] op = Op.TRY -> EnterTry(m, 3, p + 3 + Int16(ch.code, p + 1))
      [] op = Op.POP_TRY -> PopTry(m, 1)
      [] op = Op.THROW -> Raise(m, Drop(m.ops, 1))
      [] op = Op.HALT -> [m EXCEPT !.outcome = "halted"]

Canonical(ch, m) == ExecAt(ch, m, m.ip, Byte(ch.code, m.ip))
=============================================================================
