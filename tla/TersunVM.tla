------------------------------ MODULE TersunVM ------------------------------
(* The interpreter of Tersun bytecode (src/vm/vm.cpp): operand stack, locals *)
(* in one vector shared by all frames, call frames in a bounded arena, and   *)
(* the stack of active try blocks (try_stack_) used to unwind on a throw.    *)
(*                                                                           *)
(* There are two families of interpreter loop, and "mode" says which runs:   *)
(*   "portable"   run_function_pointer, run_switch, run_threaded: every      *)
(*                instruction is a handler call inside one try block;        *)
(*   "optimized"  run_optimized, which inlines the hot instructions and has  *)
(*                its own landing pad for exceptions.                        *)
(* An action is one instruction.  Fast frames are on, as in every default    *)
(* configuration, and the compiled tiers are off.                            *)
EXTENDS Integers, Sequences

CONSTANTS
    Programs,       \* names of the programs that may be loaded
    ChunkOf,        \* the chunk each of them was compiled to
    Modes,          \* a subset of {"portable", "optimized"}
    InitialTop,     \* local_top_ after reset(): 64
    InitialLocals,  \* size of locals_ after reset(): 65536
    Headroom,       \* slack kept above local_top_ in locals_: 64
    MaxCallDepth,   \* FixedFrameArena::kMaxCallDepth: 2048
    MaxInputs       \* bound of the model: later inputs are zero

ASSUME BoundsAssumption ==
    /\ Modes \subseteq {"portable", "optimized"}
    /\ InitialTop \in Nat /\ InitialLocals \in Nat /\ Headroom \in Nat
    /\ MaxCallDepth \in Nat /\ MaxInputs \in Nat

Operators == {"add", "sub", "mul", "div", "lt", "gt", "eq", "min", "max"}

(* A chunk has code, a function table with entry points and frame sizes, and *)
(* the size of the frame of the top level.                                   *)
IsInstruction(c, i) ==
    CASE i.op = "Push"         -> i.v.t # "closure"
      [] i.op = "Binary"       -> i.f \in Operators
      [] i.op = "Call"         -> i.fn \in DOMAIN c.functions /\ i.argc \in Nat
      [] i.op = "CallIndirect" -> i.argc \in Nat
      [] i.op = "Closure"      -> i.fn \in DOMAIN c.functions /\ i.count \in Nat
      [] i.op \in {"LoadLocal", "StoreLocal"} -> i.slot \in Nat
      [] i.op = "Try"          -> i.to \in Nat
      [] OTHER                 -> TRUE

IsChunk(c) ==
    /\ c.topSize \in Nat
    /\ DOMAIN c.code \subseteq Nat
    /\ \A n \in DOMAIN c.code : IsInstruction(c, c.code[n])
    /\ \A f \in DOMAIN c.functions :
          c.functions[f].entry \in Nat /\ c.functions[f].size \in Nat

ASSUME ChunkAssumption == \A p \in Programs : IsChunk(ChunkOf[p])

VARIABLES
    program,    \* the program loaded, and
    chunk,      \* current_chunk_: what it was compiled to
    mode,       \* the loop that interprets it
    ip,         \* index of the next instruction
    operands,   \* stack_
    locals,     \* the cells of locals_ that were written; the others are nil
    localsLen,  \* locals_.size()
    localTop,   \* local_top_: where the next frame starts
    globals,    \* globals_
    calls,      \* call_stack_
    handlers,   \* try_stack_
    inputs,     \* history: what the natives have answered
    out,        \* output_buffer_
    outcome     \* "running", "halted", "uncaught" or "escaped"

data    == <<operands, locals, localsLen, globals>>
control == <<localTop, calls, handlers>>
world   == <<inputs, out>>
loaded  == <<program, chunk, mode>>
vars    == <<loaded, ip, data, control, world, outcome>>

-----------------------------------------------------------------------------
(* Values.  A boolean is the integer it converts to. *)
Int64(n)  == [t |-> "int", n |-> n]
Nil       == [t |-> "nil"]
Text(s)   == [t |-> "text", s |-> s]
AsInt(v)  == IF v.t = "int" THEN v.n ELSE 0
Truthy(v) == AsInt(v) # 0
Bool(b)   == Int64(IF b THEN 1 ELSE 0)

Min2(a, b) == IF a <= b THEN a ELSE b
Max2(a, b) == IF a >= b THEN a ELSE b

(* Division of int64_t: towards zero. *)
Quotient(a, b) ==
    LET Abs(n) == IF n < 0 THEN -n ELSE n
        q      == Abs(a) \div Abs(b)
    IN  IF (a < 0) = (b < 0) THEN q ELSE -q

Apply(f, a, b) ==
    CASE f = "add" -> Int64(AsInt(a) + AsInt(b))
      [] f = "sub" -> Int64(AsInt(a) - AsInt(b))
      [] f = "mul" -> Int64(AsInt(a) * AsInt(b))
      [] f = "div" -> Int64(Quotient(AsInt(a), AsInt(b)))
      [] f = "lt"  -> Bool(AsInt(a) < AsInt(b))
      [] f = "gt"  -> Bool(AsInt(a) > AsInt(b))
      [] f = "eq"  -> Bool(a = b)
      [] f = "min" -> Int64(Min2(AsInt(a), AsInt(b)))
      [] f = "max" -> Int64(Max2(AsInt(a), AsInt(b)))

(* The next instruction. *)
I      == chunk.code[ip]
At(op) == outcome = "running" /\ ip \in DOMAIN chunk.code /\ I.op = op

(* The n topmost operands, and what is below them. *)
Top(n)   == SubSeq(operands, Len(operands) - n + 1, Len(operands))
Below(n) == SubSeq(operands, 1, Len(operands) - n)
Has(n)   == Len(operands) >= n

Truncate(s, n) == SubSeq(s, 1, Min2(n, Len(s)))

(* Where the running function's locals begin. *)
LocalBase == IF calls = <<>> THEN 0 ELSE calls[Len(calls)].base

(* The cells of locals_ after its size became n and vals were written from   *)
(* base on.  What is at or above n is gone: a cell written through           *)
(* operator[] past the end is not an element, and when the vector grows over *)
(* it the cell is value-initialised to nil.                                  *)
Cells(base, vals, n) ==
    LET new == base .. base + Len(vals) - 1
    IN  [i \in {j \in DOMAIN locals \cup new : j < n} |->
            IF i \in new THEN vals[i - base + 1] ELSE locals[i]]

Cell(i) == IF i \in DOMAIN locals THEN locals[i] ELSE Nil

-----------------------------------------------------------------------------
Init ==
    /\ program \in Programs
    /\ chunk = ChunkOf[program]
    /\ mode \in Modes
    /\ ip = 1
    /\ operands = <<>>
    /\ locals = [i \in {} |-> Nil]
    /\ localsLen = InitialLocals
    /\ localTop = IF mode = "optimized" THEN Max2(chunk.topSize, 32)
                                        ELSE InitialTop
    /\ globals = [i \in {} |-> Nil]
    /\ calls = <<>>
    /\ handlers = <<>>
    /\ inputs = <<>>
    /\ out = <<>>
    /\ outcome = "running"

(* Most instructions only turn operands into operands. *)
Yield(rest, v) ==
    /\ operands' = Append(rest, v)
    /\ ip' = ip + 1
    /\ UNCHANGED <<loaded, locals, localsLen, globals, control, outcome>>

(* An exception with the given message leaves a handler that had already     *)
(* moved local_top_ and locals_.size() and left the operands rest.  The      *)
(* innermost active try block takes it: operand stack and call stack are cut *)
(* back to where they were at its OP_TRY.  The portable loops shrink locals_ *)
(* to the local_top_ of that moment and leave local_top_ as it is;           *)
(* run_optimized resets local_top_ and replaces the message by its own.      *)
(* Without an active try block the program ends.                             *)
Raise(message, rest, top, len) ==
    /\ UNCHANGED <<loaded, globals, world>>
    /\ IF handlers = <<>>
       THEN /\ outcome' = "uncaught"
            /\ operands' = rest
            /\ localTop' = top /\ localsLen' = len
            /\ UNCHANGED <<ip, locals, calls, handlers>>
       ELSE LET h == handlers[Len(handlers)] IN
            /\ handlers' = SubSeq(handlers, 1, Len(handlers) - 1)
            /\ calls' = Truncate(calls, h.calls)
            /\ ip' = h.catchIp
            /\ operands' = Append(Truncate(rest, h.depth),
                   IF mode = "optimized" THEN Text("VM Exception caught")
                                         ELSE message)
            /\ localTop' = IF mode = "optimized" THEN h.localsLen ELSE top
            /\ localsLen' = IF mode = "portable" THEN Min2(h.localsLen, len)
                                                 ELSE len
            /\ locals' = Cells(0, <<>>, localsLen')
            /\ UNCHANGED outcome

-----------------------------------------------------------------------------
(* Operands, variables and output. *)

Push == At("Push") /\ Yield(operands, I.v) /\ UNCHANGED world

Dup == At("Dup") /\ Has(1) /\ Yield(operands, Top(1)[1]) /\ UNCHANGED world

DividesByZero == I.f = "div" /\ AsInt(Top(1)[1]) = 0

Binary ==
    /\ At("Binary") /\ Has(2) /\ ~DividesByZero
    /\ Yield(Below(2), Apply(I.f, Top(2)[1], Top(2)[2]))
    /\ UNCHANGED world

(* A native that asks the world: setun2d_is_running(), setun2d_get_key(). *)
Input ==
    /\ At("Input")
    /\ \E n \in IF Len(inputs) < MaxInputs THEN I.range ELSE {0} :
          /\ inputs' = Append(inputs, n)
          /\ Yield(operands, Int64(n))
    /\ UNCHANGED out

PrintValue ==
    /\ At("Print") /\ Has(1)
    /\ out' = Append(out, Top(1)[1])
    /\ Yield(Below(1), Nil)
    /\ UNCHANGED inputs

Pop ==
    /\ At("Pop") /\ Has(1)
    /\ operands' = Below(1)
    /\ ip' = ip + 1
    /\ UNCHANGED <<loaded, locals, localsLen, globals, control, world,
                   outcome>>

LoadLocal ==
    /\ At("LoadLocal")
    /\ LET idx == LocalBase + I.slot IN
          /\ operands' = Append(operands, Cell(idx))
          /\ localsLen' = IF idx >= localsLen THEN idx + 32 ELSE localsLen
    /\ ip' = ip + 1
    /\ UNCHANGED <<loaded, locals, globals, control, world, outcome>>

(* A store leaves the value on the operand stack.  run_optimized moves       *)
(* local_top_ above a slot that lies outside the frame.                      *)
StoreLocal ==
    /\ At("StoreLocal") /\ Has(1)
    /\ LET idx   == LocalBase + I.slot
           grows == mode = "optimized" /\ idx >= localTop
           len   == IF grows /\ idx + 8 + Headroom >= localsLen
                    THEN 2 * localsLen ELSE localsLen
       IN  /\ localTop' = IF grows THEN idx + 8 ELSE localTop
           /\ localsLen' = IF idx >= len THEN idx + 32 ELSE len
           /\ locals' = Cells(idx, Top(1), localsLen')
    /\ ip' = ip + 1
    /\ UNCHANGED <<loaded, operands, globals, calls, handlers, world,
                   outcome>>

LoadGlobal ==
    /\ At("LoadGlobal")
    /\ Yield(operands, IF I.slot \in DOMAIN globals THEN globals[I.slot] ELSE Nil)
    /\ UNCHANGED world

StoreGlobal ==
    /\ At("StoreGlobal") /\ Has(1)
    /\ globals' = [i \in DOMAIN globals \cup {I.slot} |->
                      IF i = I.slot THEN Top(1)[1] ELSE globals[i]]
    /\ ip' = ip + 1
    /\ UNCHANGED <<loaded, operands, locals, localsLen, control, world,
                   outcome>>

-----------------------------------------------------------------------------
(* Jumps. *)

GoTo(target) ==
    /\ ip' = target
    /\ UNCHANGED <<loaded, locals, localsLen, globals, control, world,
                   outcome>>

Jump == At("Jump") /\ GoTo(I.to) /\ UNCHANGED operands

JumpIfFalse ==
    /\ At("JumpIfFalse") /\ Has(1)
    /\ operands' = Below(1)
    /\ GoTo(IF Truthy(Top(1)[1]) THEN ip + 1 ELSE I.to)

Branch3 ==
    /\ At("Branch3") /\ Has(1)
    /\ operands' = Below(1)
    /\ LET n == AsInt(Top(1)[1])
       IN  GoTo(CASE n < 0 -> I.neg [] n = 0 -> I.zero [] OTHER -> I.pos)

-----------------------------------------------------------------------------
(* Calls. *)

(* Mutants: operators named <Operator>_<Bug> are faulty versions of the next *)
(* operator that nothing uses.  Here room is made for the arguments only.    *)
Enter_NoTemporaries(entry, size, rest, args, inlined) ==
    LET top == localTop + Len(args)
        len == IF top + Headroom >= localsLen THEN 2 * localsLen ELSE localsLen
    IN  IF Len(calls) < MaxCallDepth
        THEN /\ localTop' = top
             /\ localsLen' = len
             /\ locals' = Cells(localTop, args, len)
             /\ operands' = rest
             /\ calls' = Append(calls, [ret |-> ip + 1, base |-> localTop,
                                        depth |-> Len(rest), size |-> size])
             /\ ip' = entry
             /\ UNCHANGED <<loaded, globals, handlers, world, outcome>>
        ELSE IF inlined
        THEN /\ outcome' = "escaped"
             /\ UNCHANGED <<loaded, ip, data, control, world>>
        ELSE Raise(Text("CallStack depth limit exceeded"), rest, top, len)

(* A frame of the given size for a function that takes argc operands and the *)
(* captured values.  The frame arena checks its limit last: when it is full, *)
(* local_top_ has moved and the operands are gone.  A handler called inside  *)
(* a try block turns that into a catchable exception; the calls inlined in   *)
(* run_optimized do not, and the exception leaves the interpreter.           *)
Enter(entry, size, rest, args, inlined) ==
    LET top == localTop + size
        len == IF top + Headroom >= localsLen THEN 2 * localsLen ELSE localsLen
    IN  IF Len(calls) < MaxCallDepth
        THEN /\ localTop' = top
             /\ localsLen' = len
             /\ locals' = Cells(localTop, args, len)
             /\ operands' = rest
             /\ calls' = Append(calls, [ret |-> ip + 1, base |-> localTop,
                                        depth |-> Len(rest), size |-> size])
             /\ ip' = entry
             /\ UNCHANGED <<loaded, globals, handlers, world, outcome>>
        ELSE IF inlined
        THEN /\ outcome' = "escaped"
             /\ UNCHANGED <<loaded, ip, data, control, world>>
        ELSE Raise(Text("CallStack depth limit exceeded"), rest, top, len)

Call ==
    /\ At("Call") /\ Has(I.argc)
    /\ LET f == chunk.functions[I.fn]
       IN  Enter(f.entry, Max2(f.size, I.argc + 8), Below(I.argc), Top(I.argc),
                 mode = "optimized")

(* The closure is on top of its arguments; its captured values follow them   *)
(* in the new frame.                                                         *)
CallIndirect ==
    /\ At("CallIndirect") /\ Has(1)
    /\ LET c    == Top(1)[1]
           rest == Below(1)
           args == SubSeq(rest, Len(rest) - I.argc + 1, Len(rest))
       IN  IF c.t # "closure"
           THEN Raise(Text("not a function"), rest, localTop, localsLen)
           ELSE /\ Len(rest) >= I.argc
                /\ Enter(c.entry,
                         Max2(c.size, I.argc + Len(c.captures) + 8),
                         SubSeq(rest, 1, Len(rest) - I.argc),
                         args \o c.captures, FALSE)

Closure ==
    /\ At("Closure") /\ Has(I.count)
    /\ LET f == chunk.functions[I.fn]
       IN  Yield(Below(I.count), [t |-> "closure", entry |-> f.entry,
                                  size |-> f.size, captures |-> Top(I.count)])
    /\ UNCHANGED world


(* What the callee left on the operand stack is dropped. *)
Ret ==
    /\ At("Ret") /\ calls # <<>> /\ Has(1)
    /\ LET frame == calls[Len(calls)] IN
          /\ calls' = SubSeq(calls, 1, Len(calls) - 1)
          /\ localTop' = frame.base
          /\ operands' = Append(Truncate(Below(1), frame.depth), Top(1)[1])
          /\ ip' = frame.ret
    /\ UNCHANGED <<loaded, locals, localsLen, globals, handlers, world,
                   outcome>>

(* Returning from the top level, and OP_HALT, end the program. *)
Stop ==
    /\ At("Halt") \/ (At("Ret") /\ calls = <<>>)
    /\ outcome' = "halted"
    /\ UNCHANGED <<loaded, ip, data, control, world>>

-----------------------------------------------------------------------------
(* Exceptions. *)

Try ==
    /\ At("Try")
    /\ handlers' = Append(handlers, [catchIp |-> I.to, depth |-> Len(operands),
                                     localsLen |-> localTop,
                                     calls |-> Len(calls)])
    /\ ip' = ip + 1
    /\ UNCHANGED <<loaded, data, localTop, calls, world, outcome>>

PopTry ==
    /\ At("PopTry")
    /\ handlers' = SubSeq(handlers, 1, Len(handlers) - 1)
    /\ ip' = ip + 1
    /\ UNCHANGED <<loaded, data, localTop, calls, world, outcome>>

Throw ==
    /\ At("Throw") /\ Has(1)
    /\ Raise(Top(1)[1], Below(1), localTop, localsLen)

(* A handler has taken both operands when it throws.  The division inlined   *)
(* in run_optimized is in no try block: the exception leaves the interpreter.*)
DivideByZero ==
    /\ At("Binary") /\ Has(2) /\ DividesByZero
    /\ IF mode = "optimized"
       THEN /\ outcome' = "escaped"
            /\ UNCHANGED <<loaded, ip, data, control, world>>
       ELSE Raise(Text("Division by zero in integer arithmetic."), Below(2),
                  localTop, localsLen)

-----------------------------------------------------------------------------
Step ==
    \/ Push \/ Dup \/ Binary \/ Input \/ PrintValue \/ Pop
    \/ LoadLocal \/ StoreLocal \/ LoadGlobal \/ StoreGlobal
    \/ Jump \/ JumpIfFalse \/ Branch3
    \/ Call \/ CallIndirect \/ Closure \/ Ret \/ Stop
    \/ Try \/ PopTry \/ Throw \/ DivideByZero

(* The host has its answer; nothing runs any more. *)
Ended == outcome # "running" /\ UNCHANGED vars

Next == Step \/ Ended

(* The loop goes on while the program runs: nothing else competes with it. *)
Spec == Init /\ [][Next]_vars /\ WF_vars(Step)

-----------------------------------------------------------------------------
FrameType == [ret : Nat, base : Nat, depth : Nat, size : Nat]
HandlerType == [catchIp : Nat, depth : Nat, localsLen : Nat, calls : Nat]

(* The shape of the interpreter's bookkeeping. *)
TypeOK ==
    /\ program \in Programs
    /\ mode \in Modes
    /\ outcome \in {"running", "halted", "uncaught", "escaped"}
    /\ localTop \in Nat
    /\ localsLen \in Nat
    /\ calls \in Seq(FrameType)
    /\ handlers \in Seq(HandlerType)
    /\ Len(calls) <= MaxCallDepth

(* Where frame i of the call stack ends; frame 0 is the top level. *)
FrameEnd(i) == IF i = 0 THEN chunk.topSize ELSE calls[i].base + calls[i].size

(* No two activations share a local variable: each frame begins at or above  *)
(* the ends of all frames below it, and local_top_ is above them all: the    *)
(* assertion "Frame overlap invariant" of vm.cpp:1692, 3515, 4583 and 4733.  *)
(* It must survive calls, returns, and throws across any number of frames, so*)
(* what a handler will make of local_top_ lies above the frames it keeps.    *)
FramesApart ==
    /\ \A i \in 0 .. Len(calls) :
          /\ localTop >= FrameEnd(i)
          /\ \A j \in i + 1 .. Len(calls) : calls[j].base >= FrameEnd(i)
    /\ \A h \in 1 .. Len(handlers) :
          \A i \in 0 .. Min2(handlers[h].calls, Len(calls)) :
              handlers[h].localsLen >= FrameEnd(i)

(* Every active try block belongs to a function that has not returned, and   *)
(* inner blocks to the same or to later activations.  A handler that outlives*)
(* its function would land a later throw in a dead frame: OP_POP_TRY must be *)
(* executed on every way out of the block (emitter.cpp:1052, 1087).          *)
HandlersLive ==
    /\ \A i \in 1 .. Len(handlers) : handlers[i].calls <= Len(calls)
    /\ \A i \in 1 .. Len(handlers) - 1 : handlers[i].calls <= handlers[i + 1].calls

(* A throw written inside a try body is caught by that try's catch, or the   *)
(* body of an inner one's: when it executes, the innermost active handler is *)
(* the one the enclosing OP_TRY of the same activation installed.            *)
ThrowReachesEnclosingCatch ==
    At("Throw") /\ I.try # 0 =>
        /\ handlers # <<>>
        /\ LET h == handlers[Len(handlers)]
           IN  h.catchIp = chunk.code[I.try].to /\ h.calls = Len(calls)

(* What makes these two true is in the code alone: every instruction is      *)
(* reached with the same try blocks of its activation open, whichever way    *)
(* control comes, functions begin and return with none, only an open block   *)
(* is closed, and a throw lies in the innermost.  d gives, for each          *)
(* instruction reached, the OP_TRYs of the open blocks, the innermost last.  *)
NextOf(c, n) ==
    LET i == c.code[n]
    IN  CASE i.op = "Jump"        -> {i.to}
          [] i.op = "JumpIfFalse" -> {n + 1, i.to}
          [] i.op = "Branch3"     -> {i.neg, i.zero, i.pos}
          [] i.op \in {"Ret", "Halt", "Throw"} -> {}
          [] OTHER                -> {n + 1}

After(c, d, n) ==
    CASE c.code[n].op = "Try"    -> Append(d[n], n)
      [] c.code[n].op = "PopTry" -> SubSeq(d[n], 1, Len(d[n]) - 1)
      [] OTHER                   -> d[n]

EntriesOf(c) == {c.functions[f].entry : f \in DOMAIN c.functions}

Bracketed(c, d) ==
    /\ DOMAIN d \subseteq DOMAIN c.code
    /\ \A n \in DOMAIN d : d[n] \in Seq(DOMAIN c.code)
    /\ \A e \in {1} \cup EntriesOf(c) : e \in DOMAIN d /\ d[e] = <<>>
    /\ \A n \in DOMAIN d :
          /\ \A m \in NextOf(c, n) : m \in DOMAIN d /\ d[m] = After(c, d, n)
          /\ c.code[n].op = "Try" => c.code[n].to \in DOMAIN d /\ d[c.code[n].to] = d[n]
          /\ c.code[n].op = "PopTry" => d[n] # <<>>
          /\ c.code[n].op = "Ret" => d[n] = <<>>
          /\ c.code[n].op = "Throw" /\ c.code[n].try # 0 =>
                d[n] # <<>> /\ c.code[n].try = d[n][Len(d[n])]
=============================================================================
