------------------------------ MODULE IRBuilder ------------------------------
(* From syntax trees to the intermediate representation (opt_ir.cpp).        *)
(*                                                                           *)
(* The members of the C++ object are the fields of a record b that every     *)
(* lower operator takes and returns:                                         *)
(*   code     the instructions of the function at work                       *)
(*   slots    local_slots_: names to slots, one scope for a whole function   *)
(*   regs, labels        next_vreg_, next_label_                             *)
(*   breaks, continues   break_labels_, continue_labels_                     *)
(*   val      the operand that holds the value of the last expression        *)
(* Statements the builder has no case for (try, throw, match, declarations   *)
(* inside a function) leave no code at all.                                  *)
EXTENDS IR, FiniteSets, TLC

LOCAL INSTANCE SequencesExt

Fresh(params, labels) ==
    [code |-> <<>>, slots |-> [p \in {params[i] : i \in DOMAIN params} |->
                                  (CHOOSE i \in DOMAIN params : params[i] = p) - 1],
     regs |-> 0, labels |-> labels, breaks |-> <<>>, continues |-> <<>>,
     val |-> NoOperand]

Emit(b, i) == [b EXCEPT !.code = Append(@, i)]

(* An instruction whose result goes to a new register. *)
Result(b)     == Reg(b.regs)
Compute(b, i) == [Emit(b, i) EXCEPT !.regs = @ + 1, !.val = i.dst]

EmitLabel(b, l) == Emit(b, Ins("LABEL", Label(l), NoOperand, NoOperand))
EmitJump(b, l)  == Emit(b, Nullary("JUMP", Label(l)))
EmitTest(b, l)  == Emit(b, Ins("BRANCH_IF_FALSE", NoOperand, b.val, Label(l)))

AllocLabels(b, n) == [b EXCEPT !.labels = @ + n]

(* A name that is not known yet gets the next slot. *)
WithSlot(b, name) ==
    IF name \in DOMAIN b.slots THEN b
    ELSE [b EXCEPT !.slots = (name :> Cardinality(DOMAIN b.slots)) @@ @]

Load(b, name) ==
    IF name \in DOMAIN b.slots
    THEN Compute(b, Ins("LOAD_LOCAL", Result(b), Slot(b.slots[name]), NoOperand))
    ELSE Compute(b, Ins("LOAD_GLOBAL", Result(b), Name(name), NoOperand))

Store(b, name) == Emit(b, Ins("STORE_LOCAL", Slot(b.slots[name]), b.val, NoOperand))

-----------------------------------------------------------------------------
RECURSIVE LowerExpr(_, _), LowerExprs(_, _), LowerStmt(_, _), LowerStmts(_, _)

(* Several expressions, left to right, and the operands that hold them.      *)
LowerExprs(b, xs) ==
    IF xs = <<>> THEN [b |-> b, vals |-> <<>>]
    ELSE LET before == LowerExprs(b, Front(xs))
             last   == LowerExpr(before.b, Last(xs))
         IN  [vals |-> Append(before.vals, last.val), b |-> last]

LowerCall(st, callee) == Compute(st.b, CallIns(Result(st.b), callee, st.vals))

LowerBinary(st, f) ==
    Compute(st.b, BinaryIns(f, Result(st.b), st.vals[1], st.vals[2]))

Lowered == {"add", "sub", "mul", "div", "lt", "gt", "eq"}

LowerExpr(b, x) ==
    CASE x.k = "int"   -> Compute(b, Ins("CONST", Result(b), Imm(x.n), NoOperand))
      [] x.k = "bool"  -> Compute(b, Ins("CONST", Result(b), ImmBool(x.n), NoOperand))
      [] x.k = "ident" -> Load(b, x.name)
      [] x.k = "print" -> LowerCall(LowerExprs(b, <<x.arg>>), "print")
      [] x.k = "call"  -> LowerCall(LowerExprs(b, x.args), x.callee)
      [] x.k = "binary" /\ x.f \in Lowered
                       -> LowerBinary(LowerExprs(b, <<x.left, x.right>>), x.f)
      [] OTHER         -> Compute(b, Ins("VM_FALLBACK", Result(b), NoOperand, NoOperand))

-----------------------------------------------------------------------------
(* Statements. *)

(* One half after the other: no evaluation is as deep as the list is long.   *)
LowerStmts(b, ss) ==
    LET half == Len(ss) \div 2
    IN  CASE ss = <<>>    -> b
          [] Len(ss) = 1  -> LowerStmt(b, ss[1])
          [] OTHER        -> LowerStmts(LowerStmts(b, SubSeq(ss, 1, half)),
                                        SubSeq(ss, half + 1, Len(ss)))

(* The slot comes first, then the value. *)
LowerAssign(b, name, value) == Store(LowerExpr(WithSlot(b, name), value), name)

(* Of the three labels of an if the first is for the then branch. *)
LowerIf(b, s) ==
    LET l     == b.labels
        else  == l + 1
        end   == l + 2
        has   == s.else.k # "none"
        then  == LowerStmt(EmitLabel(EmitTest(AllocLabels(b, 3), IF has THEN else ELSE end), l),
                           s.then)
        other == LowerStmt(EmitLabel(EmitJump(then, end), else), s.else)
    IN  EmitLabel(IF has THEN other ELSE then, end)

(* The labels are allocated and known to break and continue. *)
OpenLoop(b, labels, continue, break) ==
    [AllocLabels(b, labels) EXCEPT !.breaks = Append(@, break),
                                   !.continues = Append(@, continue)]
CloseLoop(b) == [b EXCEPT !.breaks = Front(@), !.continues = Front(@)]

LowerWhile(b, s) ==
    LET l    == b.labels
        end  == l + 2
        test == EmitTest(LowerExpr(EmitLabel(OpenLoop(b, 3, l, end), l), s.cond), end)
        body == LowerStmt(EmitLabel(test, l + 1), s.body)
    IN  CloseLoop(EmitLabel(EmitJump(body, l), end))

(* Mutant: continue goes back to the condition, past the update. *)
OpenFor_SkipsUpdate(b) == OpenLoop(b, 4, b.labels, b.labels + 3)

(* The labels of a for are header, body, increment and end. *)
OpenFor(b) == OpenLoop(b, 4, b.labels + 2, b.labels + 3)

(* The rest of a for, whose labels start at l and whose test has been        *)
(* written.                                                                  *)
ForBody(b, l, s) == EmitLabel(LowerStmt(EmitLabel(b, l + 1), s.body), l + 2)
ForEnd(b, l)     == CloseLoop(EmitLabel(EmitJump(b, l), l + 3))

LowerFor(b, s) ==
    LET init == LowerStmt(b, s.init)
        l    == init.labels
        test == EmitTest(LowerExpr(EmitLabel(OpenFor(init), l), s.cond), l + 3)
    IN  ForEnd(LowerStmt(ForBody(test, l, s), s.update), l)

(* for v in range(...): a missing start is 0, a missing step 1, both         *)
(* immediate; given is how many arguments the call has.  Only a growing v is *)
(* tested.                                                                   *)
LowerForRange(b, s) ==
    LET args  == LowerExprs(b, CASE s.given = 1 -> <<s.stop>>
                                 [] s.given = 2 -> <<s.start, s.stop>>
                                 [] s.given = 3 -> <<s.start, s.stop, s.step>>)
        start == IF s.given = 1 THEN Imm(0) ELSE args.vals[1]
        stop  == IF s.given = 1 THEN args.vals[1] ELSE args.vals[2]
        step  == IF s.given = 3 THEN args.vals[3] ELSE Imm(1)
        init  == Store([WithSlot(args.b, s.name) EXCEPT !.val = start], s.name)
        l     == init.labels
        v     == Load(EmitLabel(OpenFor(init), l), s.name)
        test  == EmitTest(Compute(v, BinaryIns("lt", Result(v), v.val, stop)), l + 3)
        again == Load(ForBody(test, l, s), s.name)
        next  == Compute(again, BinaryIns("add", Result(again), again.val, step))
    IN  ForEnd(Store(next, s.name), l)

(* branch3 names its three targets in args. *)
LowerBranch3(b, s) ==
    LET l    == b.labels
        head == Emit(AllocLabels(b, 4),
                     [Nullary("BRANCH3", b.val) EXCEPT
                         !.args = <<Label(l), Label(l + 1), Label(l + 2)>>])
        neg  == EmitJump(LowerStmt(EmitLabel(head, l), s.neg), l + 3)
        zero == EmitJump(LowerStmt(EmitLabel(neg, l + 1), s.zero), l + 3)
    IN  EmitLabel(LowerStmt(EmitLabel(zero, l + 2), s.pos), l + 3)

(* The innermost loop, whatever the label of the statement. *)
LowerJump(b, s) ==
    LET labels == IF s.break THEN b.breaks ELSE b.continues
    IN  IF labels = <<>> THEN b ELSE EmitJump(b, Last(labels))

LowerStmt(b, s) ==
    CASE s.k = "let"      -> LowerAssign(b, s.name, s.init)
      [] s.k = "assign"   -> LowerAssign(b, s.name, s.value)
      [] s.k = "expr"     -> LowerExpr(b, s.expr)
      [] s.k = "block"    -> LowerStmts(b, s.body)
      [] s.k = "if"       -> LowerIf(LowerExpr(b, s.cond), s)
      [] s.k = "while"    -> LowerWhile(b, s)
      [] s.k = "for"      -> LowerFor(b, s)
      [] s.k = "forrange" -> LowerForRange(b, s)
      [] s.k = "branch3"  -> LowerBranch3(LowerExpr(b, s.cond), s)
      [] s.k = "jump"     -> LowerJump(b, s)
      [] s.k = "return"   -> LET value == LowerExpr(b, s.value)
                             IN  Emit(value, Nullary("RETURN", value.val))
      [] OTHER            -> b

-----------------------------------------------------------------------------
(* Functions and the module. *)

(* Code ends with a return. *)
Closed(b) ==
    IF b.code # <<>> /\ Last(b.code).op = "RETURN" THEN b
    ELSE Emit(b, Nullary("RETURN", NoOperand))

Lower(name, params, b) ==
    LET done == Closed(b)
    IN  FunctionOf(name, params, Cardinality(DOMAIN done.slots), done.code)

TopLevel == "__toplevel__"

(* Functions in the order of the program, and the top level last: what the   *)
(* statements outside of functions do.                                       *)
BuildModule(statements) ==
    LET fns  == SelectSeq(statements, LAMBDA s : s.k = "fn")
        rest == SelectSeq(statements, LAMBDA s : s.k # "fn")
    IN  Append([i \in DOMAIN fns |->
                   Lower(fns[i].name, fns[i].params,
                         LowerStmt(Fresh(fns[i].params, 0), fns[i].body))],
               Lower(TopLevel, <<>>, LowerStmts(Fresh(<<>>, 0), rest)))
===============================================================================
