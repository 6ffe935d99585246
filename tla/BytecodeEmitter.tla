--------------------------- MODULE BytecodeEmitter ---------------------------
(* The one-pass compiler from syntax trees to bytecode (emitter.cpp), for    *)
(* variables, control flow, functions, lambdas and exceptions.               *)
(*                                                                           *)
(* The members of the C++ object are the fields of a record e that every     *)
(* emit operator takes and returns:                                          *)
(*   code        the instructions written so far (addresses are indices)     *)
(*   functions   function table: entry point and frame size                  *)
(*   names       functions_: index of each function by name                  *)
(*   scopes      symbol_table_: a stack of scopes from names to slots        *)
(*   nextLocal, nextGlobal, tryDepth                                         *)
(*   loops       loop_stack_: label and pending break and continue jumps     *)
(*   bad         an error was reported (CompilerException)                   *)
(*   bodies      not in the code: the OP_TRY of each try body around the     *)
(*               statement, in the same function.  A Throw records the       *)
(*               innermost, for a property to read.                          *)
EXTENDS Integers, Sequences, FiniteSets, TLC

LOCAL INSTANCE SequencesExt

Fresh == [code |-> <<>>, functions |-> <<>>, names |-> <<>>,
          scopes |-> << <<>> >>, nextLocal |-> 0, nextGlobal |-> 0,
          tryDepth |-> 0, loops |-> <<>>, bad |-> FALSE, bodies |-> <<>>]

-----------------------------------------------------------------------------
(* Writing and patching. *)

Here(e)     == Len(e.code) + 1
Write(e, i) == [e EXCEPT !.code = Append(@, i)]

(* A jump to be patched, and patching the jump at an address to land here. *)
EmitJump(e, op) == Write(e, [op |-> op, to |-> 0])
PatchJump(e, at) == [e EXCEPT !.code[at].to = Len(e.code) + 1]
PatchJumps(e, ats) == FoldLeft(PatchJump, e, ats)

PushInt(e, n) == Write(e, [op |-> "Push", v |-> [t |-> "int", n |-> n]])
Op(e, op)     == Write(e, [op |-> op])
Operator(e, f) == Write(e, [op |-> "Binary", f |-> f])

-----------------------------------------------------------------------------
(* The symbol table. *)

EnterScope(e) == [e EXCEPT !.scopes = Append(@, <<>>)]
ExitScope(e)  == [e EXCEPT !.scopes = SubSeq(@, 1, Len(@) - 1)]

(* Definitions in the innermost scope, at a local slot or a global one.  A   *)
(* name already there keeps its slot.                                        *)
Define(e, name, slot, global) ==
    [e EXCEPT !.scopes[Len(e.scopes)] =
        @ @@ (name :> [slot |-> slot, global |-> global])]

DefineLocal(e, name) ==
    [Define(e, name, e.nextLocal, FALSE) EXCEPT !.nextLocal = @ + 1]

(* The depths of the scopes that know the name; the innermost one wins. *)
Knows(e, name) == {d \in DOMAIN e.scopes : name \in DOMAIN e.scopes[d]}

Resolve(e, name) ==
    LET d == CHOOSE d \in Knows(e, name) : \A x \in Knows(e, name) : x <= d
    IN  e.scopes[d][name]

(* Reading or writing a variable.  A function is a value too. *)
Access(e, kind, name) ==
    IF Knows(e, name) # {}
    THEN LET sym == Resolve(e, name)
         IN  Write(e, [op   |-> kind \o (IF sym.global THEN "Global" ELSE "Local"),
                       slot |-> sym.slot])
    ELSE IF kind = "Load" /\ name \in DOMAIN e.names
    THEN Write(e, [op |-> "Closure", fn |-> e.names[name], count |-> 0])
    ELSE [e EXCEPT !.bad = TRUE]

LoadSlot(e, slot)  == Write(e, [op |-> "LoadLocal", slot |-> slot])
StoreSlot(e, slot) == Write(e, [op |-> "StoreLocal", slot |-> slot])

(* The variables a lambda captures: those its body reads and neither it nor  *)
(* its parameters declare, in the order of their first use.                  *)
Captured(e, lambda) ==
    SelectSeq(lambda.uses,
              LAMBDA n : n \notin Range(lambda.params) /\ Knows(e, n) # {})

-----------------------------------------------------------------------------
RECURSIVE EmitExpr(_, _), EmitStmt(_, _), EmitStmts(_, _), EmitExprs(_, _)

EmitExprs(e, xs) ==
    IF e.bad \/ xs = <<>> THEN e ELSE EmitExprs(EmitExpr(e, xs[1]), Tail(xs))
EmitStmts(e, ss) ==
    IF e.bad \/ ss = <<>> THEN e ELSE EmitStmts(EmitStmt(e, ss[1]), Tail(ss))

(* A function or lambda body, jumped over by the code around it: it gets a   *)
(* table entry, its own numbering of local slots and a final "return 0".     *)
(* try_depth_ and loop_stack_ stay as they are outside.                      *)
OpenFunction(over, name) ==
    [EnterScope(over) EXCEPT
        !.functions = Append(@, [entry |-> Here(over), size |-> 32]),
        !.names     = IF name = "" THEN @ ELSE (name :> Len(over.functions) + 1) @@ @,
        !.nextLocal = 0,
        !.bodies    = <<>>]

CloseFunction(e, done) ==
    PatchJump([ExitScope(done) EXCEPT
                  !.functions[Len(e.functions) + 1].size = done.nextLocal + 8,
                  !.nextLocal = e.nextLocal,
                  !.bodies    = e.bodies],
              Here(e))

EmitFunction(e, name, params, body) ==
    LET begin == FoldLeft(DefineLocal, OpenFunction(EmitJump(e, "Jump"), name), params)
    IN  CloseFunction(e, Op(PushInt(EmitStmt(begin, body), 0), "Ret"))

EmitLambda(e, x) ==
    LET captured == Captured(e, x)
        made     == EmitFunction(e, "", x.params \o captured, x.body)
        loaded   == FoldLeft(LAMBDA a, n : Access(a, "Load", n), made, captured)
    IN  Write(loaded, [op |-> "Closure", fn |-> Len(e.functions) + 1,
                       count |-> Len(captured)])

(* A name that is a variable in scope is called through its closure, pushed  *)
(* after the arguments; any other name is a function, resolved at the end    *)
(* if it is not known yet.                                                   *)
EmitCall(e, x) ==
    LET args == EmitExprs(e, x.args)
    IN  IF Knows(e, x.callee) # {}
        THEN Write(Access(args, "Load", x.callee),
                   [op |-> "CallIndirect", argc |-> Len(x.args)])
        ELSE Write(args, [op |-> "Call", name |-> x.callee, argc |-> Len(x.args),
                          fn |-> IF x.callee \in DOMAIN e.names
                                 THEN e.names[x.callee] ELSE 0])

EmitExpr(e, x) ==
    CASE x.k = "int"    -> PushInt(e, x.n)
      [] x.k = "ident"  -> Access(e, "Load", x.name)
      [] x.k = "input"  -> Write(e, [op |-> "Input", range |-> x.range])
      [] x.k = "binary" -> Operator(EmitExpr(EmitExpr(e, x.left), x.right), x.f)
      [] x.k = "print"  -> Op(EmitExpr(e, x.arg), "Print")
      [] x.k = "call"   -> EmitCall(e, x)
      [] x.k = "lambda" -> EmitLambda(e, x)

-----------------------------------------------------------------------------
(* Statements. *)

EmitVarDecl(e, s) ==
    LET global == Len(e.scopes) = 1
        named  == IF global
                  THEN [Define(e, s.name, e.nextGlobal, TRUE) EXCEPT !.nextGlobal = @ + 1]
                  ELSE DefineLocal(e, s.name)
    IN  IF s.name \in DOMAIN Last(e.scopes) THEN [e EXCEPT !.bad = TRUE]
        ELSE Access(EmitExpr(named, s.init), "Store", s.name)

EmitAssign(e, s) == Access(EmitExpr(e, s.value), "Store", s.name)

EmitBlock(e, s) == ExitScope(EmitStmts(EnterScope(e), s.body))

(* What follows the condition of an if, a branch3 or a match; e is the       *)
(* emitter after the condition.                                              *)
EmitIf(e, s) ==
    LET then  == EmitStmt(EmitJump(e, "JumpIfFalse"), s.then)
        leave == EmitJump(then, "Jump")
        other == EmitStmt(PatchJump(leave, Here(e)), s.else)
    IN  IF s.else.k = "none" THEN PatchJump(then, Here(e))
        ELSE PatchJump(other, Here(then))

EmitBranch3(e, s) ==
    LET at   == Here(e)
        head == Write(e, [op |-> "Branch3", neg |-> at + 1, zero |-> 0, pos |-> 0])
        neg  == EmitJump(EmitStmt(head, s.neg), "Jump")
        zero == EmitJump(EmitStmt([neg EXCEPT !.code[at].zero = Here(neg)], s.zero), "Jump")
        pos  == EmitStmt([zero EXCEPT !.code[at].pos = Here(zero)], s.pos)
    IN  PatchJumps(pos, <<Len(neg.code), Len(zero.code)>>)

(* Each arm compares a copy of the value; the arm taken drops the value      *)
(* first, and without one it is dropped at the end.                          *)
EmitMatch(e, s) ==
    LET Arm(st, arm) ==
            LET test == Operator(EmitExpr(Op(st.e, "Dup"), arm.pattern), "eq")
                body == EmitStmt(Op(EmitJump(test, "JumpIfFalse"), "Pop"), arm.body)
                next == EmitJump(body, "Jump")
            IN  [e |-> PatchJump(next, Here(test)), exits |-> Append(st.exits, Here(body))]
        arms == FoldLeft(Arm, [e |-> e, exits |-> <<>>], s.arms)
    IN  PatchJumps(Op(arms.e, "Pop"), arms.exits)

-----------------------------------------------------------------------------
(* Loops.  The three forms are while, for (init; cond; update) and            *)
(* for v in range(start, stop, step), which keeps stop and step in two       *)
(* hidden slots after that of v; a start or step that is not given is a      *)
(* literal.                                                                  *)
RangeSlot(e, s) == Resolve(e, s.name).slot

(* (step > 0 && v < stop) || (step < 0 && v > stop) *)
RangeCond(e, s) ==
    LET v == RangeSlot(e, s)
        Side(a, f, g) ==
            Operator(Operator(LoadSlot(LoadSlot(
                Operator(PushInt(LoadSlot(a, v + 2), 0), f), v), v + 1), g), "min")
    IN  Operator(Side(Side(e, "gt", "lt"), "lt", "gt"), "max")

LoopCond(e, s) == IF s.k = "forrange" THEN RangeCond(e, s) ELSE EmitExpr(e, s.cond)

LoopStep(e, s) ==
    CASE s.k = "while"    -> e
      [] s.k = "for"      -> EmitStmt(e, s.update)
      [] s.k = "forrange" -> LET v == RangeSlot(e, s)
                             IN  StoreSlot(Operator(LoadSlot(LoadSlot(e, v), v + 2), "add"), v)

OpenLoop(e, s) ==
    [e EXCEPT !.loops =
        Append(@, [label |-> s.label, breaks |-> <<>>, continues |-> <<>>])]

(* Mutants: operators named <Operator>_<Bug> are faulty versions of the next *)
(* operator that nothing uses.  Here the exit jump is patched before the     *)
(* jump back is written, so that it lands on it.                             *)
CloseLoop_NoExit(start, exit, run, s) ==
    LET next == LoopStep(PatchJumps(run, Last(run.loops).continues), s)
        back == Write(PatchJump(next, exit), [op |-> "Jump", to |-> start])
        out  == PatchJumps(back, Last(back.loops).breaks)
    IN  [out EXCEPT !.loops = Front(@)]

(* After the body: where continue lands, the step, the jump back, and where  *)
(* break and the exit jump land.                                             *)
CloseLoop(start, exit, run, s) ==
    LET next == LoopStep(PatchJumps(run, Last(run.loops).continues), s)
        back == Write(next, [op |-> "Jump", to |-> start])
        out  == PatchJumps(PatchJump(back, exit), Last(back.loops).breaks)
    IN  [out EXCEPT !.loops = Front(@)]

EmitLoopBody(start, test, s) ==
    CloseLoop(start, Here(test), EmitStmt(EmitJump(test, "JumpIfFalse"), s.body), s)

EmitLoop(e, s) == EmitLoopBody(Here(e), LoopCond(OpenLoop(e, s), s), s)

EmitFor(e, s) == ExitScope(EmitLoop(EmitStmt(EnterScope(e), s.init), s))

EmitForRange(e, s) ==
    LET v    == e.nextLocal
        open == [DefineLocal(EnterScope(e), s.name) EXCEPT !.nextLocal = v + 3]
        init == StoreSlot(EmitExpr(StoreSlot(EmitExpr(StoreSlot(EmitExpr(
                    open, s.step), v + 2), s.stop), v + 1), s.start), v)
    IN  ExitScope(EmitLoop(init, s))

RECURSIVE PopTries(_, _)
PopTries(e, n) == IF n = 0 THEN e ELSE PopTries(Op(e, "PopTry"), n - 1)

(* break and continue, to the innermost loop or the innermost one so         *)
(* labelled.  One OP_POP_TRY for each enclosing try body.                    *)
EmitBreakContinue(e, s) ==
    LET fit == {d \in DOMAIN e.loops : s.label \in {"", e.loops[d].label}}
        out == EmitJump(PopTries(e, e.tryDepth), "Jump")
    IN  IF fit = {} THEN [e EXCEPT !.bad = TRUE]
        ELSE LET d == CHOOSE d \in fit : \A x \in fit : x <= d
             IN  IF s.break
                 THEN [out EXCEPT !.loops[d].breaks = Append(@, Len(out.code))]
                 ELSE [out EXCEPT !.loops[d].continues = Append(@, Len(out.code))]

-----------------------------------------------------------------------------
(* Exceptions and return. *)

(* Mutant: a body that ends normally leaves its handler active. *)
EmitTryCatch_NoPopTry(e, s) ==
    LET at    == Here(e)
        open  == [EmitJump(e, "Try") EXCEPT !.tryDepth = @ + 1,
                                            !.bodies = Append(@, at)]
        body  == EmitStmt(open, s.body)
        end   == EmitJump([body EXCEPT !.tryDepth = @ - 1, !.bodies = e.bodies], "Jump")
        land  == EnterScope(PatchJump(end, at))
        bound == IF s.var = "" THEN land
                 ELSE StoreSlot(DefineLocal(land, s.var), land.nextLocal)
    IN  PatchJump(ExitScope(EmitStmt(bound, s.catch)), Len(end.code))

EmitTryCatch(e, s) ==
    LET at    == Here(e)
        open  == [EmitJump(e, "Try") EXCEPT !.tryDepth = @ + 1,
                                            !.bodies = Append(@, at)]
        body  == EmitStmt(open, s.body)
        end   == EmitJump(Op([body EXCEPT !.tryDepth = @ - 1, !.bodies = e.bodies],
                             "PopTry"), "Jump")
        land  == EnterScope(PatchJump(end, at))
        bound == IF s.var = "" THEN land
                 ELSE StoreSlot(DefineLocal(land, s.var), land.nextLocal)
    IN  PatchJump(ExitScope(EmitStmt(bound, s.catch)), Len(end.code))

EmitThrow(e, s) ==
    Write(EmitExpr(e, s.value),
          [op |-> "Throw", try |-> IF e.bodies = <<>> THEN 0 ELSE Last(e.bodies)])

(* Mutant: the try bodies that are left stay active. *)
EmitReturn_KeepsTries(e, s) == Op(EmitExpr(e, s.value), "Ret")

EmitReturn(e, s) == Op(PopTries(EmitExpr(e, s.value), e.tryDepth), "Ret")

EmitStmt(e, s) ==
    CASE s.k = "let"      -> EmitVarDecl(e, s)
      [] s.k = "assign"   -> EmitAssign(e, s)
      [] s.k = "expr"     -> Op(EmitExpr(e, s.expr), "Pop")
      [] s.k = "block"    -> EmitBlock(e, s)
      [] s.k = "if"       -> EmitIf(EmitExpr(e, s.cond), s)
      [] s.k = "branch3"  -> EmitBranch3(EmitExpr(e, s.cond), s)
      [] s.k = "match"    -> EmitMatch(EmitExpr(e, s.cond), s)
      [] s.k = "while"    -> EmitLoop(e, s)
      [] s.k = "for"      -> EmitFor(e, s)
      [] s.k = "forrange" -> EmitForRange(e, s)
      [] s.k = "jump"     -> EmitBreakContinue(e, s)
      [] s.k = "try"      -> EmitTryCatch(e, s)
      [] s.k = "throw"    -> EmitThrow(e, s)
      [] s.k = "return"   -> EmitReturn(e, s)
      [] s.k = "fn"       -> EmitFunction(e, s.name, s.params, s.body)

(* The whole program: its statements, a call of main if there is one, and    *)
(* the calls of functions that were not yet known resolved.                  *)
Unresolved(e) == {i \in DOMAIN e.code : e.code[i].op = "Call" /\ e.code[i].fn = 0}

ResolveCalls(e) ==
    [i \in DOMAIN e.code |->
        IF i \in Unresolved(e) THEN [e.code[i] EXCEPT !.fn = e.names[e.code[i].name]]
                               ELSE e.code[i]]

Finish(e) ==
    Op(IF "main" \in DOMAIN e.names
       THEN Op(Write(e, [op |-> "Call", fn |-> e.names["main"], argc |-> 0]), "Pop")
       ELSE e, "Halt")

Link(e) ==
    IF e.bad \/ \E i \in Unresolved(e) : e.code[i].name \notin DOMAIN e.names
    THEN [bad |-> TRUE]
    ELSE [bad |-> FALSE, code |-> ResolveCalls(e), functions |-> e.functions,
          topSize |-> e.nextLocal + 16]

Compile(statements) == Link(Finish(EmitStmts(Fresh, statements)))
=============================================================================
