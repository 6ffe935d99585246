---------------------------- MODULE OptimizedVM ----------------------------
(* run_cached (src/vm/vm.cpp): a canonical chunk is translated by            *)
(* OptBytecodeOptimizer and run by run_optimized, which keeps the top of the *)
(* operand stack in registers, fills the inline caches of field and method   *)
(* accesses, and rewrites arithmetic instructions that saw only small        *)
(* integers (quickening) and back when another value comes (deoptimisation). *)
(* An action is one instruction of the translated code.                      *)
EXTENDS OptBytecodeOptimizer, TosCache

CONSTANTS
    Chunks,        \* the canonical chunks that may be run
    WarmupLimit,   \* executions before an instruction is quickened: 8
    MaxImmediate   \* largest integer that is not boxed: 2^47 - 1

ASSUME LimitsAssumption == WarmupLimit \in Nat \ {0} /\ MaxImmediate \in Nat

VARIABLES
    chunk,      \* the canonical chunk
    opt,        \* what it was translated to
    code,       \* the code of the translated chunk, rewritten as it runs
    warmup,     \* warmup_counters of the instructions that ran
    fieldICs,   \* ic_sites: shape expected (0 for none) and slot
    methodICs,  \* method_ic_sites: shape expected, entry and frame size
    vm,         \* ip, locals, top, calls, tries, heap, out, outcome
    cache       \* the operand stack, its top in registers

vars == <<chunk, opt, code, warmup, fieldICs, methodICs, vm, cache>>
sites == <<warmup, fieldICs, methodICs>>

-----------------------------------------------------------------------------
(* run_cached: the chunk is translated before the loop starts. *)
Init ==
    /\ chunk \in Chunks
    /\ opt = Optimize(chunk)
    /\ code = opt.code
    /\ warmup = [p \in {} |-> 0]
    /\ fieldICs = [k \in DOMAIN opt.fields |-> [shape |-> 0, slot |-> 0]]
    /\ methodICs = [k \in DOMAIN opt.methods |->
                       [shape |-> 0, entry |-> 0, size |-> 32]]
    /\ vm = [ip |-> 0, locals |-> [i \in {} |-> Nil], top |-> opt.topSize,
             calls |-> <<>>, tries |-> <<>>, heap |-> <<>>, out |-> <<>>,
             outcome |-> "running"]
    /\ cache = << <<>>, <<>> >>

-----------------------------------------------------------------------------
(* The instruction at ip, and its operands. *)
op     == Byte(code, vm.ip)
At(o)  == vm.outcome = "running" /\ op = o
U(k)   == UInt16(code, vm.ip + k)
S(k)   == Int16(code, vm.ip + k)

Small(v) == IsInt(v) /\ v[2] \in -MaxImmediate .. MaxImmediate

(* What most instructions do: go on after len bytes with another stack. *)
Go(m, len, c) ==
    /\ vm' = [m EXCEPT !.ip = vm.ip + len]
    /\ cache' = c

Plain == UNCHANGED <<chunk, opt, code, sites>>

(* The machine with its whole operand stack in memory: what a handler called *)
(* after SYNC_TO_VM sees, and back.                                          *)
Synced == [ops |-> Contents(cache), ip |-> vm.ip, locals |-> vm.locals,
           top |-> vm.top, calls |-> vm.calls, tries |-> vm.tries,
           heap |-> vm.heap, out |-> vm.out, outcome |-> vm.outcome]

Resume(m) ==
    /\ vm' = [f \in DOMAIN m \ {"ops"} |-> m[f]]
    /\ cache' = <<m.ops, <<>>>>

-----------------------------------------------------------------------------
(* Literals, variables and jumps. *)

PushInt == /\ At(Op.PUSH_INT) /\ Plain
           /\ Go(vm, 9, PUSH_TOS(cache, Number(Int64(code, vm.ip + 1))))

PushBool == /\ At(Op.PUSH_BOOL) /\ Plain
            /\ Go(vm, 2, PUSH_TOS(cache, Bool(Byte(code, vm.ip + 1) # 0)))

Pop == At(Op.POP) /\ Plain /\ Go(vm, 1, DISCARD_TOS(cache))

Dup == At(Op.DUP) /\ Plain /\ Go(vm, 1, DUP_TOS(cache))

LoadLocal == /\ At(Op.LOAD_LOCAL) /\ Plain
             /\ Go(vm, 3, PUSH_TOS(cache, Local(vm, U(1))))

StoreLocal == /\ At(Op.STORE_LOCAL) /\ Plain
              /\ Go(SetLocal(vm, U(1), PEEK_TOS(cache)), 3, cache)

(* OP_LOAD_LOCAL_0 to 3 and OP_STORE_LOCAL_0 to 3 do not look at local_top_. *)
LoadSlot ==
    \E n \in 0 .. 3 : /\ At(Op.LOAD_LOCAL_0 + n) /\ Plain
                      /\ Go(vm, 1, PUSH_TOS(cache, Local(vm, n)))

SetSlot(n, v) == [vm EXCEPT !.locals = WriteCells(@, LocalBase(vm) + n, <<v>>)]

StoreSlot ==
    \E n \in 0 .. 3 : /\ At(Op.STORE_LOCAL_0 + n) /\ Plain
                      /\ Go(SetSlot(n, PEEK_TOS(cache)), 1, cache)

StoreSlotPop ==
    \E n \in 0 .. 3 :
        /\ At(Op.STORE_LOCAL_0_POP + n) /\ Plain
        /\ Go(SetSlot(n, PEEK_TOS(cache)), 1, DISCARD_TOS(cache))

StoreLocalPop ==
    /\ At(Op.STORE_LOCAL_POP) /\ Plain
    /\ Go(SetLocal(vm, U(1), PEEK_TOS(cache)), 3, DISCARD_TOS(cache))

LoadLoadLocal ==
    /\ At(Op.LOAD_LOAD_LOCAL) /\ Plain
    /\ Go(vm, 5, PUSH_TWO(cache, Local(vm, U(1)), Local(vm, U(3))))

(* Mutant: the sum is not stored. *)
IncrLocalImm_Unstored ==
    /\ At(Op.INCR_LOCAL_IMM) /\ Plain
    /\ Go(vm, 5, cache)

IncrLocalImm ==
    /\ At(Op.INCR_LOCAL_IMM) /\ Plain
    /\ Go(SetLocal(vm, U(1), Apply(Op.ADD, Local(vm, U(1)), Number(S(3)))),
          5, cache)

FusedAddStore ==
    /\ At(Op.FUSED_ADD_LOCAL_LOCAL_STORE) /\ Plain
    /\ Go(SetLocal(vm, U(5), Apply(Op.ADD, Local(vm, U(1)), Local(vm, U(3)))),
          7, cache)

FusedMulAdd ==
    /\ At(Op.FUSED_MUL_ADD_I64) /\ Plain
    /\ Go(SetLocal(vm, U(7), Apply(Op.ADD,
                Apply(Op.MUL, Local(vm, U(1)), Local(vm, U(3))),
                Local(vm, U(5)))),
          9, cache)

(* A step of zero ends the program with an exception that no try block of    *)
(* the program can take.                                                     *)
LoopRangeFast ==
    /\ At(Op.LOOP_RANGE_FAST) /\ Plain
    /\ LET var  == AsInt(Local(vm, U(1)))
           stop == AsInt(Local(vm, U(3)))
           step == AsInt(Local(vm, U(5)))
           goesOn == IF step > 0 THEN var < stop ELSE var > stop
       IN  IF step = 0
           THEN /\ vm' = [vm EXCEPT !.outcome = "escaped"]
                /\ cache' = FLUSH_TOS(cache)
           ELSE Go(vm, 9 + (IF goesOn THEN 0 ELSE S(7)), cache)

Jump == At(Op.JUMP) /\ Plain /\ Go(vm, 3 + S(1), cache)

JumpIfFalse ==
    /\ At(Op.JUMP_IF_FALSE) /\ Plain
    /\ Go(vm, 3 + (IF AsBool(PEEK_TOS(cache)) THEN 0 ELSE S(1)),
          DISCARD_TOS(cache))

Branch3 ==
    /\ At(Op.BRANCH_3) /\ Plain
    /\ LET n == AsInt(PEEK_TOS(cache)) IN
          Go(vm, IF n < 0 THEN 3 + S(1) ELSE IF n = 0 THEN 5 + S(3) ELSE 7 + S(5),
             DISCARD_TOS(cache))

-----------------------------------------------------------------------------
(* Arithmetic, quickening and deoptimisation. *)

QuickOf ==
    [o \in {Op.ADD, Op.SUB, Op.MUL, Op.LT, Op.LE, Op.EQ, Op.GT, Op.GE} |->
        CASE o = Op.ADD -> Op.QUICK_ADD_INT [] o = Op.SUB -> Op.QUICK_SUB_INT
          [] o = Op.MUL -> Op.QUICK_MUL_INT [] o = Op.LT -> Op.QUICK_LT_INT
          [] o = Op.LE -> Op.QUICK_LE_INT [] o = Op.EQ -> Op.QUICK_EQ_INT
          [] o = Op.GT -> Op.QUICK_GT_INT [] o = Op.GE -> Op.QUICK_GE_INT]

(* Both operands small, and an arithmetic result small as well. *)
Fits(o, two) ==
    /\ Small(two[1]) /\ Small(two[2])
    /\ o \in {Op.ADD, Op.SUB, Op.MUL} => Small(Apply(o, two[1], two[2]))

Rewritten(o) == code' = [code EXCEPT ![vm.ip + 1] = o]

(* The counter of an instruction whose operands fit; the model stops         *)
(* counting at WarmupLimit.                                                  *)
Warm(o) ==
    LET n == (IF vm.ip \in DOMAIN warmup THEN warmup[vm.ip] ELSE 0) + 1
        k == IF n > WarmupLimit THEN WarmupLimit ELSE n
    IN  /\ warmup' = [p \in DOMAIN warmup \cup {vm.ip} |->
                         IF p = vm.ip THEN k ELSE warmup[p]]
        /\ IF k = WarmupLimit THEN Rewritten(QuickOf[o]) ELSE UNCHANGED code

Compute(o) == Go(vm, 1, BINARY_OP(cache, Apply(o, TopTwo(cache)[1],
                                                  TopTwo(cache)[2])))

Binary ==
    \E o \in Binaries :
        /\ At(o)
        /\ Compute(o)
        /\ IF o \in DOMAIN QuickOf /\ Fits(o, TopTwo(cache))
           THEN Warm(o) ELSE UNCHANGED <<warmup, code>>
        /\ UNCHANGED <<chunk, opt, fieldICs, methodICs>>

(* Mutant: the operands are not looked at again. *)
Quick_Trusting ==
    \E o \in DOMAIN QuickOf :
        /\ At(QuickOf[o])
        /\ Go(vm, 1, BINARY_OP(cache, Apply(o, Number(AsInt(TopTwo(cache)[1])),
                                               Number(AsInt(TopTwo(cache)[2])))))
        /\ UNCHANGED <<chunk, opt, code, sites>>

Quick ==
    \E o \in DOMAIN QuickOf :
        /\ At(QuickOf[o])
        /\ Compute(o)
        /\ IF Fits(o, TopTwo(cache)) THEN UNCHANGED code ELSE Rewritten(o)
        /\ UNCHANGED <<chunk, opt, sites>>

-----------------------------------------------------------------------------
(* Fields.  An object without fields has no shape; one with fields has its   *)
(* own, number id.                                                           *)

Shape(id) == IF vm.heap[id].names = <<>> THEN 0 ELSE id

Hit(site, v) == IsObj(v) /\ site.shape # 0 /\ Shape(v[2]) = site.shape

(* A field that is missing raises an exception outside every try block of    *)
(* the loop.                                                                 *)
GetFieldIC ==
    /\ At(Op.GET_FIELD_IC)
    /\ LET k     == U(1) + 1
           field == opt.strings[opt.fields[k]]
           v     == PEEK_TOS(cache)
           rest  == DISCARD_TOS(cache)
           obj   == vm.heap[v[2]]
       IN  IF ~IsObj(v)
           THEN Go(vm, 3, PUSH_TOS(rest, Number(0))) /\ UNCHANGED fieldICs
           ELSE IF Hit(fieldICs[k], v)
           THEN /\ Go(vm, 3, PUSH_TOS(rest, obj.vals[fieldICs[k].slot]))
                /\ UNCHANGED fieldICs
           ELSE IF HasField(obj, field)
           THEN /\ Go(vm, 3, PUSH_TOS(rest, obj.vals[SlotOf(obj, field)]))
                /\ fieldICs' = [fieldICs EXCEPT ![k] =
                        [shape |-> v[2], slot |-> SlotOf(obj, field)]]
           ELSE /\ vm' = [vm EXCEPT !.outcome = "escaped"]
                /\ cache' = FLUSH_TOS(rest)
                /\ UNCHANGED fieldICs
    /\ UNCHANGED <<chunk, opt, code, warmup, methodICs>>

(* A field that is new to the object is given a slot, and a shape to an      *)
(* object that had none, before the cache is filled.                         *)
SetFieldIC ==
    /\ At(Op.SET_FIELD_IC)
    /\ LET k     == U(1) + 1
           field == opt.strings[opt.fields[k]]
           v     == TopTwo(cache)[1]
           new   == TopTwo(cache)[2]
           done  == SetField(vm.heap[v[2]], field, new)
       IN  IF ~IsObj(v)
           THEN Go(vm, 3, POP_TWO_TOS(cache)) /\ UNCHANGED fieldICs
           ELSE IF Hit(fieldICs[k], v)
           THEN /\ Go([vm EXCEPT !.heap[v[2]].vals[fieldICs[k].slot] = new],
                      3, POP_TWO_TOS(cache))
                /\ UNCHANGED fieldICs
           ELSE /\ Go([vm EXCEPT !.heap[v[2]] = done], 3, POP_TWO_TOS(cache))
                /\ fieldICs' = [fieldICs EXCEPT ![k] =
                        [shape |-> v[2], slot |-> SlotOf(done, field)]]
    /\ UNCHANGED <<chunk, opt, code, warmup, methodICs>>

-----------------------------------------------------------------------------
(* Calls. *)

(* Mutant: the frame has the default size. *)
EnterFast_Default(len, entry, size, n) ==
    /\ vm' = [vm EXCEPT !.calls = Append(@, [ret |-> vm.ip + len, base |-> vm.top,
                                   depth |-> Len(TAKE_ARGS(cache, n)[1]),
                                   size |-> 32]),
                        !.locals = WriteCells(@, vm.top, Arguments(cache, n)),
                        !.top = @ + 32,
                        !.ip = entry]
    /\ cache' = TAKE_ARGS(cache, n)

(* A frame for a function at entry whose n arguments are on the stack. *)
EnterFast(len, entry, size, n) ==
    /\ vm' = [vm EXCEPT !.calls = Append(@, [ret |-> vm.ip + len, base |-> vm.top,
                                   depth |-> Len(TAKE_ARGS(cache, n)[1]),
                                   size |-> size]),
                        !.locals = WriteCells(@, vm.top, Arguments(cache, n)),
                        !.top = @ + size,
                        !.ip = entry]
    /\ cache' = TAKE_ARGS(cache, n)

Call ==
    /\ At(Op.CALL) /\ Plain
    /\ LET argc == Byte(code, vm.ip + 3)
       IN  EnterFast(4, opt.functions[U(1)], FrameSize(opt, U(1), argc), argc)

CallFast ==
    \E argc \in 0 .. 1 :
        /\ At(Op.CALL_FAST_0 + argc) /\ Plain
        /\ EnterFast(4, U(1), Byte(code, vm.ip + 3), argc)

(* The site remembers the function of an object that has a shape; for others *)
(* and for receivers that are no objects the general handler is called.      *)
InvokeMethodIC ==
    /\ At(Op.INVOKE_METHOD_IC)
    /\ LET k    == U(1) + 1
           argc == Byte(code, vm.ip + 3)
           name == opt.strings[opt.methods[k]]
           v    == Arguments(cache, argc + 1)[1]
       IN  IF Hit(methodICs[k], v)
           THEN /\ EnterFast(4, methodICs[k].entry, methodICs[k].size, argc + 1)
                /\ UNCHANGED methodICs
           ELSE IF /\ IsObj(v)
                   /\ Shape(v[2]) # 0
                   /\ HasMethod(opt, vm.heap[v[2]], name)
           THEN LET fn   == Method(opt, vm.heap[v[2]], name)
                    size == FrameSize(opt, fn, argc + 1)
                IN  /\ EnterFast(4, opt.functions[fn], size, argc + 1)
                    /\ methodICs' = [methodICs EXCEPT ![k] =
                          [shape |-> v[2], entry |-> opt.functions[fn],
                           size |-> size]]
           ELSE Resume(ExecInvoke(opt, Synced, name, argc)) /\ UNCHANGED methodICs
    /\ UNCHANGED <<chunk, opt, code, warmup, fieldICs>>

Ret ==
    /\ (At(Op.RET) \/ At(Op.RET_FAST)) /\ Plain
    /\ IF vm.calls = <<>>
       THEN /\ vm' = [vm EXCEPT !.outcome = "halted"]
            /\ cache' = FLUSH_TOS(cache)
       ELSE LET f == vm.calls[Len(vm.calls)]
            IN  /\ vm' = [vm EXCEPT !.calls = SubSeq(@, 1, Len(@) - 1),
                                    !.top = f.base, !.ip = f.ret]
                /\ cache' = RETURN_TOS(cache, f.depth)

(* Instructions that go through DELEGATE_OP: the registers are flushed and a *)
(* handler of the portable loops does the work.                              *)
Delegate ==
    /\ \E o \in {Op.PUSH_STRING, Op.PRINTLN, Op.NEW_INSTANCE, Op.TRY, Op.POP_TRY,
                 Op.THROW, Op.HALT} :
          /\ At(o)
          /\ Resume(ExecAt([opt EXCEPT !.code = code], Synced, vm.ip, o))
    /\ Plain

Finished == vm.outcome \in {"halted", "escaped"} /\ UNCHANGED vars

Step ==
    \/ PushInt \/ PushBool \/ Pop \/ Dup \/ LoadLocal \/ StoreLocal
    \/ LoadSlot \/ StoreSlot \/ StoreSlotPop \/ StoreLocalPop \/ LoadLoadLocal
    \/ IncrLocalImm \/ FusedAddStore \/ FusedMulAdd \/ LoopRangeFast
    \/ Jump \/ JumpIfFalse \/ Branch3 \/ Binary \/ Quick
    \/ GetFieldIC \/ SetFieldIC \/ Call \/ CallFast \/ InvokeMethodIC \/ Ret
    \/ Delegate

Next == Step \/ Finished

Spec == Init /\ [][Next]_vars /\ WF_vars(Step)

-----------------------------------------------------------------------------
(* Code that can be verified, as the class files of a JVM are: a labelling   *)
(* of its instructions with what every way of reaching them guarantees,      *)
(*   depth   values on the stack above those of the caller,                  *)
(*   room    slots of the frame,                                             *)
(*   tries   the try blocks of the function that are open, each with its     *)
(*           handler and the depth where it was opened.                      *)
(* The loop checks none of this; it relies on what the emitter writes.       *)

Labels == [depth : Nat, room : Nat, tries : Seq([catch : Nat, depth : Nat])]

\* What the translation writes: instructions not quickened yet, and those for
\* fields and methods with a cache.
Translated ==
    {Op.PUSH_INT, Op.PUSH_STRING, Op.PUSH_BOOL, Op.POP, Op.DUP, Op.LOAD_LOCAL,
     Op.STORE_LOCAL, Op.STORE_LOCAL_POP, Op.INCR_LOCAL_IMM, Op.LOAD_LOAD_LOCAL,
     Op.FUSED_ADD_LOCAL_LOCAL_STORE, Op.FUSED_MUL_ADD_I64, Op.LOOP_RANGE_FAST,
     Op.BRANCH_3, Op.CALL, Op.CALL_FAST_0, Op.CALL_FAST_1, Op.RET, Op.RET_FAST,
     Op.PRINTLN, Op.GET_FIELD_IC, Op.SET_FIELD_IC, Op.NEW_INSTANCE,
     Op.INVOKE_METHOD_IC, Op.THROW, Op.POP_TRY, Op.HALT}
        \cup Binaries \cup Jumps
        \cup Op.LOAD_LOCAL_0 .. Op.LOAD_LOCAL_0 + 3
        \cup Op.STORE_LOCAL_0 .. Op.STORE_LOCAL_0 + 3
        \cup Op.STORE_LOCAL_0_POP .. Op.STORE_LOCAL_0_POP + 3

Width(o) == IF o \in {Op.GET_FIELD_IC, Op.SET_FIELD_IC} THEN 3 ELSE OptLen(o)

\* The values an instruction takes from the stack or looks at, and leaves.
Takes(o, argc) ==
    CASE o \in {Op.SET_FIELD_IC} \cup Binaries -> 2
      [] o \in {Op.POP, Op.DUP, Op.STORE_LOCAL, Op.STORE_LOCAL_POP, Op.JUMP_IF_FALSE,
                Op.BRANCH_3, Op.RET, Op.RET_FAST, Op.CALL_FAST_1, Op.PRINTLN,
                Op.GET_FIELD_IC, Op.THROW}
              \cup Op.STORE_LOCAL_0 .. Op.STORE_LOCAL_0 + 3
              \cup Op.STORE_LOCAL_0_POP .. Op.STORE_LOCAL_0_POP + 3 -> 1
      [] o = Op.CALL -> argc
      [] o = Op.INVOKE_METHOD_IC -> argc + 1
      [] OTHER -> 0

Leaves(o) ==
    CASE o \in {Op.DUP, Op.LOAD_LOAD_LOCAL} -> 2
      [] o \in {Op.PUSH_INT, Op.PUSH_STRING, Op.PUSH_BOOL, Op.LOAD_LOCAL, Op.STORE_LOCAL,
                Op.CALL, Op.CALL_FAST_0, Op.CALL_FAST_1, Op.PRINTLN, Op.GET_FIELD_IC,
                Op.NEW_INSTANCE, Op.INVOKE_METHOD_IC} \cup Binaries
              \cup Op.LOAD_LOCAL_0 .. Op.LOAD_LOCAL_0 + 3
              \cup Op.STORE_LOCAL_0 .. Op.STORE_LOCAL_0 + 3 -> 1
      [] OTHER -> 0

\* Where the frame goes on after the instruction at p, try blocks aside.
Successors(bytes, p, o) ==
    CASE o = Op.JUMP -> {p + 3 + Int16(bytes, p + 1)}
      [] o = Op.JUMP_IF_FALSE -> {p + 3, p + 3 + Int16(bytes, p + 1)}
      [] o = Op.BRANCH_3 -> {p + a + 2 + Int16(bytes, p + a) : a \in {1, 3, 5}}
      [] o = Op.LOOP_RANGE_FAST -> {p + 9, p + 9 + Int16(bytes, p + 7)}
      [] o \in {Op.RET, Op.RET_FAST, Op.THROW, Op.HALT, Op.TRY, Op.POP_TRY} -> {}
      [] OTHER -> {p + Width(o)}

\* The label of q is no more than what is sure there when it follows p.
Follows(L, p, q, depth, tries) ==
    /\ q \in DOMAIN L
    /\ L[q].depth <= depth
    /\ L[q].room <= L[p].room
    /\ L[q].tries = tries

Enterable(L, q, size) ==
    q \in DOMAIN L /\ L[q].depth = 0 /\ L[q].room <= size /\ L[q].tries = <<>>

\* The tables an instruction refers to.
Resolved(o, L, p, instr) ==
    LET n == UInt16(o.code, p + 1) IN
    CASE instr \in {Op.PUSH_STRING, Op.NEW_INSTANCE} -> n \in DOMAIN o.strings
      [] instr \in {Op.GET_FIELD_IC, Op.SET_FIELD_IC} ->
            n + 1 \in DOMAIN o.fields /\ o.fields[n + 1] \in DOMAIN o.strings
      [] instr = Op.INVOKE_METHOD_IC ->
            n + 1 \in DOMAIN o.methods /\ o.methods[n + 1] \in DOMAIN o.strings
      [] instr = Op.CALL ->
            /\ n \in DOMAIN o.functions
            /\ Enterable(L, o.functions[n], FrameSize(o, n, Byte(o.code, p + 3)))
      [] instr \in {Op.CALL_FAST_0, Op.CALL_FAST_1} ->
            Enterable(L, n, Byte(o.code, p + 3))
      [] OTHER -> TRUE

TryBlocks(o, L, p, instr) ==
    LET depth == L[p].depth
        tries == L[p].tries
        catch == p + 3 + Int16(o.code, p + 1)
        inner == Append(tries, [catch |-> catch, depth |-> depth])
    IN  /\ \A i \in DOMAIN tries :
              Follows(L, p, tries[i].catch, tries[i].depth + 1, SubSeq(tries, 1, i - 1))
        /\ instr = Op.TRY =>
              Follows(L, p, p + 3, depth, inner) /\ Follows(L, p, catch, depth + 1, tries)
        /\ instr = Op.POP_TRY =>
              tries # <<>> /\ Follows(L, p, p + 1, depth, SubSeq(tries, 1, Len(tries) - 1))
        /\ instr \in {Op.RET, Op.RET_FAST} => tries = <<>>

Checked(o, L, p) ==
    LET instr == Byte(o.code, p)
        left  == L[p].depth - Takes(instr, Byte(o.code, p + 3))
    IN  /\ instr \in Translated
        /\ p + Width(instr) <= Len(o.code)
        /\ \A k \in 1 .. Width(instr) - 1 : p + k \notin DOMAIN L
        /\ \A s \in SlotsNamed(o.code, p, instr) : s < L[p].room
        /\ left >= 0 /\ \A i \in DOMAIN L[p].tries : L[p].tries[i].depth <= left
        /\ \A q \in Successors(o.code, p, instr) :
              Follows(L, p, q, left + Leaves(instr), L[p].tries)
        /\ Resolved(o, L, p, instr)
        /\ TryBlocks(o, L, p, instr)

Verified(o, L) ==
    /\ o.code \in Seq(0 .. 255) /\ DOMAIN L \subseteq 0 .. Len(o.code) - 1
    /\ o.topSize \in Nat /\ \A f \in DOMAIN o.frames : o.frames[f] \in Nat
    /\ \A p \in DOMAIN L : L[p] \in Labels
    /\ Enterable(L, 0, o.topSize)
    /\ \A p \in DOMAIN L : Checked(o, L, p)
    /\ \A c \in DOMAIN o.vtables : \A name \in DOMAIN o.vtables[c] :
          /\ o.vtables[c][name] \in DOMAIN o.functions
          /\ Enterable(L, o.functions[o.vtables[c][name]],
                       FrameSize(o, o.vtables[c][name], 0))
    /\ \A p, r \in DOMAIN L :
          /\ Byte(o.code, p) = Op.INVOKE_METHOD_IC /\ Byte(o.code, r) = Op.INVOKE_METHOD_IC
          /\ UInt16(o.code, p + 1) + 1 = UInt16(o.code, r + 1) + 1
          => Byte(o.code, p + 3) = Byte(o.code, r + 3)

-----------------------------------------------------------------------------
(* What the translated code was made from, read off the two codes: the       *)
(* instruction at p stands for the canonical ones from where it comes from,  *)
(* with the operands they have, and both go on at the same places.  The      *)
(* translation does not check this; its scans may take an operand for an     *)
(* opcode.                                                                   *)

StandsFor(c, o, p) ==
    LET i == Byte(o.code, p)
        q == o.origin[p]
        N(k) == UInt16(c.code, q + k)
        Is(instr)         == Byte(c.code, q) = instr
        Made(pattern)     == \A x \in pattern : Byte(c.code, q + x[1]) = x[2]
        Operand(k, from)  == UInt16(o.code, p + k) = N(from)
        GoesOn(len, run)  == o.origin[p + len] = q + run
        SameJump(k, from) ==
            o.origin[p + k + 2 + Int16(o.code, p + k)] = q + from + 2 + Int16(c.code, q + from)
    IN
    /\ i = Op.PUSH_INT =>
          Is(i) /\ Int64(o.code, p + 1) = Int64(c.code, q + 1) /\ GoesOn(9, 9)
    /\ i = Op.PUSH_BOOL =>
          Is(i) /\ Byte(o.code, p + 1) = Byte(c.code, q + 1) /\ GoesOn(2, 2)
    /\ i \in {Op.PUSH_STRING, Op.LOAD_LOCAL, Op.STORE_LOCAL} =>
          Is(i) /\ Operand(1, 1) /\ GoesOn(3, 3)
    /\ i \in {Op.POP, Op.DUP, Op.PRINTLN, Op.POP_TRY} \cup Binaries => Is(i) /\ GoesOn(1, 1)
    /\ i = Op.NEW_INSTANCE => Is(i) /\ Operand(1, 1) /\ GoesOn(4, 4)
    /\ \A n \in 0 .. 3 :
          /\ i = Op.LOAD_LOCAL_0 + n => Is(Op.LOAD_LOCAL) /\ N(1) = n /\ GoesOn(1, 3)
          /\ i = Op.STORE_LOCAL_0 + n => Is(Op.STORE_LOCAL) /\ N(1) = n /\ GoesOn(1, 3)
          /\ i = Op.STORE_LOCAL_0_POP + n => Made(StorePop) /\ N(1) = n /\ GoesOn(1, 4)
    /\ i = Op.STORE_LOCAL_POP => Made(StorePop) /\ Operand(1, 1) /\ GoesOn(3, 4)
    /\ i = Op.LOAD_LOAD_LOCAL =>
          Made(LoadLoad) /\ Operand(1, 1) /\ Operand(3, 4) /\ GoesOn(5, 6)
    /\ i = Op.INCR_LOCAL_IMM =>
          /\ Made(Increment) /\ Operand(1, 1) /\ N(14) = N(1)
          /\ Int16(o.code, p + 3) = Int64(c.code, q + 4) /\ GoesOn(5, 16)
    /\ i = Op.FUSED_ADD_LOCAL_LOCAL_STORE =>
          /\ Made(AddStore) /\ GoesOn(7, 11)
          /\ Operand(1, 1) /\ Operand(3, 4) /\ Operand(5, 8)
    /\ i = Op.FUSED_MUL_ADD_I64 =>
          /\ GoesOn(9, 15) /\ Operand(7, 12)
          /\ \/ Made(MulThenAdd) /\ Operand(1, 1) /\ Operand(3, 4) /\ Operand(5, 8)
             \/ Made(AddOfMul) /\ Operand(1, 4) /\ Operand(3, 7) /\ Operand(5, 1)
    /\ i = Op.LOOP_RANGE_FAST =>
          /\ Made(LoopHeader) /\ Operand(1, 14) /\ Operand(3, 17) /\ Operand(5, 1)
          /\ Int64(c.code, q + 4) = 0 /\ Int64(c.code, q + 25) = 0
          /\ N(22) = N(1) /\ N(35) = N(14) /\ N(38) = N(17)
          /\ GoesOn(9, 46) /\ SameJump(7, 44) /\ Int16(c.code, q + 44) \in Nat
    /\ i = Op.JUMP => Is(i) /\ SameJump(1, 1)
    /\ i \in {Op.JUMP_IF_FALSE, Op.TRY} => Is(i) /\ SameJump(1, 1) /\ GoesOn(3, 3)
    /\ i = Op.BRANCH_3 => Is(i) /\ \A a \in {1, 3, 5} : SameJump(a, a)
    /\ i = Op.GET_FIELD_IC =>
          Is(Op.GET_FIELD) /\ o.fields[UInt16(o.code, p + 1) + 1] = N(1) /\ GoesOn(3, 3)
    /\ i = Op.SET_FIELD_IC =>
          Is(Op.SET_FIELD) /\ o.fields[UInt16(o.code, p + 1) + 1] = N(1) /\ GoesOn(3, 3)
    /\ i = Op.INVOKE_METHOD_IC =>
          /\ Is(Op.INVOKE_METHOD) /\ o.methods[UInt16(o.code, p + 1) + 1] = N(1)
          /\ Byte(o.code, p + 3) = Byte(c.code, q + 3) /\ GoesOn(4, 4)
    /\ i = Op.CALL =>
          /\ Is(i) /\ Operand(1, 1) /\ Byte(o.code, p + 3) = Byte(c.code, q + 3)
          /\ GoesOn(4, 4)
    /\ \A argc \in 0 .. 1 : i = Op.CALL_FAST_0 + argc =>
          /\ Is(Op.CALL) /\ Byte(c.code, q + 3) = argc
          /\ N(1) \in DOMAIN o.functions /\ UInt16(o.code, p + 1) = o.functions[N(1)]
          /\ Byte(o.code, p + 3) = FrameSize(o, N(1), argc)
          /\ GoesOn(4, 4)
    /\ i \in {Op.RET, Op.RET_FAST} => Is(Op.RET)
    /\ i \in {Op.THROW, Op.HALT} => Is(i)

Faithful(c, o, L) ==
    /\ {"code", "functions", "frames", "vtables", "strings"} \subseteq DOMAIN c
    /\ \A f \in DOMAIN o.functions : o.origin[o.functions[f]] = c.functions[f]
    /\ \A p \in DOMAIN L : o.origin[p] \in Nat /\ StandsFor(c, o, p)

-----------------------------------------------------------------------------
(* Properties. *)

TypeOK ==
    /\ Len(cache[2]) <= 2
    /\ vm.outcome \in {"running", "halted", "escaped"}
    /\ vm.outcome = "running" => vm.ip \in DOMAIN opt.origin
    /\ \A k \in DOMAIN fieldICs : fieldICs[k].shape \in 0 .. Len(vm.heap)
    /\ \A k \in DOMAIN methodICs : methodICs[k].shape \in 0 .. Len(vm.heap)

(* The machine that runs the canonical code, in the state that a state of    *)
(* run_optimized stands for: registers back on the stack, offsets of the     *)
(* translated code replaced by those of the instructions they come from.     *)
Origin(p) == opt.origin[p]

CallFrom(f) == [f EXCEPT !.ret = Origin(@)]
TryFrom(t)  == [t EXCEPT !.catch = Origin(@)]

Meaning ==
    [Synced EXCEPT
        !.ip = IF vm.outcome = "running" THEN Origin(@) ELSE 0,
        !.calls = [k \in DOMAIN @ |-> CallFrom(@[k])],
        !.tries = [k \in DOMAIN @ |-> TryFrom(@[k])]]

(* The canonical chunk, run in frames of the size that was checked. *)
Reference == [chunk EXCEPT !.frames = opt.frames]

(* Canonical instructions from m until one ends at target, 20 at most. *)
RunTo(m, target) ==
    LET after[n \in Nat] ==
            IF n = 0 THEN m
            ELSE LET before == after[n - 1]
                 IN  IF before.outcome # "running" \/ (n > 1 /\ before.ip = target)
                     THEN before ELSE Canonical(Reference, before)
        reached == after[20]
    IN  IF reached.outcome = "running" THEN reached ELSE [reached EXCEPT !.ip = 0]

(* The increment of a variable in place leaves nothing on the stack, where   *)
(* the canonical statement leaves the value it stored.                       *)
SameUpTo(m, reached) ==
    \/ m = reached
    \/ /\ op = Op.INCR_LOCAL_IMM
       /\ reached = [m EXCEPT !.ops = Append(@, Peek(reached.ops))]

(* Whatever was fused, cached, quickened or kept in registers, a step does   *)
(* what the canonical instructions it stands for do from the same state      *)
(* (opt_bytecode.hpp, "Canonical Bytecode -> OptBytecode").                  *)
StepsAsCanonical ==
    [][Step => SameUpTo(Meaning', RunTo(Meaning, Meaning'.ip))]_vars

(* Where it does not: run_optimized ends the program where the canonical     *)
(* loop goes on.  A range whose step is zero is an error to                  *)
(* OP_LOOP_RANGE_FAST and an empty loop to the comparisons it replaced; a    *)
(* missing field is an exception that no try block of the loop takes; and    *)
(* the fused multiplication puts a text that was the left operand of the     *)
(* addition on the right.                                                    *)
Departs ==
    /\ vm.outcome = "running"
    /\ \/ op = Op.LOOP_RANGE_FAST /\ AsInt(Local(vm, U(5))) = 0
       \/ /\ op = Op.GET_FIELD_IC /\ vm.tries # <<>> /\ IsObj(PEEK_TOS(cache))
          /\ ~HasField(vm.heap[PEEK_TOS(cache)[2]], opt.strings[opt.fields[U(1) + 1]])
       \/ /\ op = Op.FUSED_MUL_ADD_I64 /\ Byte(chunk.code, Origin(vm.ip) + 6) # Op.MUL
          /\ IsText(Local(vm, U(5)))

(* Every slot an instruction names lies inside the frame it runs in          *)
(* (opt_bytecode.hpp, the frame size check), also when the chunk came from a *)
(* file, which does not keep the frame sizes; and the frames lie end to end  *)
(* in locals_: each starts where the one below it ends, local_top_ is where  *)
(* the running one ends, and a try block will set it back to the end of the  *)
(* frame that opened it (local_top_, call_stack_ and try_stack_ in           *)
(* run_optimized).                                                           *)
FrameRunning == IF vm.calls = <<>> THEN opt.topSize
                ELSE vm.calls[Len(vm.calls)].size

SlotsInFrame ==
    vm.outcome = "running" =>
        \A s \in SlotsNamed(code, vm.ip, op) : s < FrameRunning

\* Where frame k ends; size is that of the top level.
RoofOf(size, calls, k) == IF k = 0 THEN size ELSE calls[k].base + calls[k].size

Abut(size, top, calls, tries) ==
    /\ top = RoofOf(size, calls, Len(calls))
    /\ \A k \in 1 .. Len(calls) :
          /\ calls[k].base = RoofOf(size, calls, k - 1)
          /\ \A j \in 0 .. k - 1 : RoofOf(size, calls, j) <= calls[k].base
    /\ \A i \in 1 .. Len(tries) :
          /\ tries[i].calls \in 0 .. Len(calls)
          /\ tries[i].top = RoofOf(size, calls, tries[i].calls)

FramesAbut == Abut(opt.topSize, vm.top, vm.calls, vm.tries)

FramesHoldSlots == SlotsInFrame /\ FramesAbut

(* A filled cache says what a lookup in the object of that shape would say,  *)
(* although the fields and the variables were assigned since.                *)
CachesAgree ==
    /\ \A k \in DOMAIN fieldICs :
          fieldICs[k].shape # 0 =>
            LET obj == vm.heap[fieldICs[k].shape]
            IN  /\ HasField(obj, opt.strings[opt.fields[k]])
                /\ fieldICs[k].slot = SlotOf(obj, opt.strings[opt.fields[k]])
    /\ \A k \in DOMAIN methodICs :
          methodICs[k].shape # 0 =>
            methodICs[k].entry = opt.functions[Method(opt,
                vm.heap[methodICs[k].shape], opt.strings[opt.methods[k]])]

(* Every program of the model is left, by its end or by an exception.        *)
Terminates == <>(vm.outcome \in {"halted", "escaped"})
=============================================================================
