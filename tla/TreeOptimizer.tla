----------------------------- MODULE TreeOptimizer -----------------------------
(* The passes over the syntax tree: tree_canonicalize.cpp, which gives every *)
(* expression one of the forms it can be written in, and tree_optimizer.cpp, *)
(* which computes what is known before the program runs.  "min" and "max"    *)
(* are && and || here, which the emitter writes as OP_TERNARY_MIN and _MAX.  *)
EXTENDS Integers, Sequences, TLC

CONSTANT NameOrder  \* the names of the programs, in alphabetical order

LOCAL INSTANCE SequencesExt

IntLit(n)  == [k |-> "int", n |-> n]
BoolLit(b) == [k |-> "bool", n |-> IF b THEN 1 ELSE 0]

IsInt(x, n) == x.k = "int" /\ x.n = n

(* Division of int64_t: towards zero. *)
Quotient(a, b) ==
    LET Abs(n) == IF n < 0 THEN -n ELSE n
        q      == Abs(a) \div Abs(b)
    IN  IF (a < 0) = (b < 0) THEN q ELSE -q

RECURSIVE HasSideEffects(_), MayTrap(_), Compare(_, _), CanonicalExpr(_),
          CanonicalStmt(_), Fold(_), Propagate(_, _), Simplify(_), OptimizeStmt(_, _)

HasSideEffects(x) ==
    \/ x.k \in {"call", "print"}
    \/ x.k = "binary" /\ (HasSideEffects(x.left) \/ HasSideEffects(x.right))

(* A division by anything but a literal that is not zero may trap. *)
MayTrap(x) ==
    \/ x.k \in {"call", "print"}
    \/ /\ x.k = "binary"
       /\ \/ MayTrap(x.left)
          \/ IF x.f = "div" THEN ~(x.right.k = "int" /\ x.right.n # 0) ELSE MayTrap(x.right)

-----------------------------------------------------------------------------
(* Canonical forms. *)

(* The order of the alternatives of ExprData and of the enumeration BinaryOp.*)
Kinds == <<"int", "bool", "ident", "binary", "call">>
Ops   == <<"add", "sub", "mul", "div", "eq", "lt", "gt", "min", "max">>

Position(s, e) == SelectInSeq(s, LAMBDA d : d = e)
KindOf(x)      == Position(Kinds, IF x.k = "print" THEN "call" ELSE x.k)

(* Negative, zero or positive, as a comes before b, is like b, or comes after*)
(* it.  Two calls are alike, whatever they call.                             *)
Compare(a, b) ==
    IF KindOf(a) # KindOf(b) THEN KindOf(a) - KindOf(b)
    ELSE CASE a.k \in {"int", "bool"} -> a.n - b.n
           [] a.k = "ident"  -> Position(NameOrder, a.name) - Position(NameOrder, b.name)
           [] a.k = "binary" -> LET left == Compare(a.left, b.left)
                                IN  CASE a.f # b.f -> Position(Ops, a.f) - Position(Ops, b.f)
                                      [] a.f = b.f /\ left # 0 -> left
                                      [] OTHER -> Compare(a.right, b.right)
           [] OTHER          -> 0

Commutes(f) == f \in {"add", "mul", "eq"}

(* The operands of an operator that commutes change places if nothing        *)
(* happens when they are evaluated: literals go right, others into order.    *)
Swapped(x) ==
    LET swap == /\ Commutes(x.f) /\ ~HasSideEffects(x.left) /\ ~HasSideEffects(x.right)
                /\ x.right.k # "int"
                /\ x.left.k = "int" \/ Compare(x.left, x.right) > 0
    IN  IF swap THEN [x EXCEPT !.left = x.right, !.right = x.left] ELSE x

(* An operand that changes nothing goes; (x + c) + d becomes x + (c + d).    *)
Identity(x) ==
    LET l == x.left
        r == x.right
        pure == ~HasSideEffects(l)
    IN  CASE x.f \in {"add", "sub"} /\ IsInt(r, 0) /\ pure -> l
          [] x.f = "mul" /\ IsInt(r, 1) /\ pure -> l
          [] x.f = "mul" /\ IsInt(r, 0) /\ pure /\ ~MayTrap(l) -> r
          [] /\ x.f = "add" /\ r.k = "int" /\ ~(r.n = 0 /\ pure)
             /\ l.k = "binary" /\ l.f = "add" /\ l.right.k = "int"
               -> [x EXCEPT !.left = l.left, !.right = IntLit(l.right.n + r.n)]
          [] OTHER -> x

CanonicalExpr(x) ==
    CASE x.k = "binary" ->
            Identity(Swapped([x EXCEPT !.left = CanonicalExpr(@), !.right = CanonicalExpr(@)]))
      [] x.k = "call"  -> [x EXCEPT !.args = [n \in DOMAIN @ |-> CanonicalExpr(@[n])]]
      [] x.k = "print" -> [x EXCEPT !.arg = CanonicalExpr(@)]
      [] OTHER         -> x

CanonicalStmts(ss) == [n \in DOMAIN ss |-> CanonicalStmt(ss[n])]

CanonicalStmt(s) ==
    CASE s.k = "let"  -> [s EXCEPT !.init = CanonicalExpr(@)]
      [] s.k = "expr" -> [s EXCEPT !.expr = CanonicalExpr(@)]
      [] s.k \in {"assign", "return"} -> [s EXCEPT !.value = CanonicalExpr(@)]
      [] s.k = "block" -> [s EXCEPT !.body = CanonicalStmts(@)]
      [] s.k = "if"    -> [s EXCEPT !.cond = CanonicalExpr(@), !.then = CanonicalStmt(@),
                                    !.else = CanonicalStmt(@)]
      [] s.k = "while" -> [s EXCEPT !.cond = CanonicalExpr(@), !.body = CanonicalStmt(@)]
      [] s.k = "for"   -> [s EXCEPT !.init = CanonicalStmt(@), !.cond = CanonicalExpr(@),
                                    !.update = CanonicalStmt(@), !.body = CanonicalStmt(@)]
      [] s.k = "forrange" -> [s EXCEPT !.start = CanonicalExpr(@), !.stop = CanonicalExpr(@),
                                       !.step = CanonicalExpr(@), !.body = CanonicalStmt(@)]
      [] s.k = "fn"    -> [s EXCEPT !.body = CanonicalStmt(@)]
      [] OTHER         -> s

-----------------------------------------------------------------------------
(* The passes over an expression. *)

(* Constant folding: below operators only, never into the arguments of calls.*)
Literals(f, a, b) ==
    CASE f = "add" -> IntLit(a + b)
      [] f = "sub" -> IntLit(a - b)
      [] f = "mul" -> IntLit(a * b)
      [] f = "div" -> IntLit(Quotient(a, b))
      [] f = "eq"  -> BoolLit(a = b)
      [] f = "lt"  -> BoolLit(a < b)
      [] f = "gt"  -> BoolLit(a > b)
      [] f = "min" -> BoolLit(a = 1 /\ b = 1)
      [] f = "max" -> BoolLit(a = 1 \/ b = 1)

Folds(f, l, r) ==
    \/ l.k = "int" /\ r.k = "int" /\ f \notin {"min", "max"} /\ ~(f = "div" /\ r.n = 0)
    \/ l.k = "bool" /\ r.k = "bool" /\ f \in {"eq", "min", "max"}

Fold(x) ==
    LET l == Fold(x.left)
        r == Fold(x.right)
    IN  IF x.k # "binary" THEN x
        ELSE IF Folds(x.f, l, r) THEN Literals(x.f, l.n, r.n)
        ELSE [x EXCEPT !.left = l, !.right = r]

(* What is known of constants: const_ints and const_bools. *)
NothingKnown == [int |-> <<>>, bool |-> <<>>]

Known(ctx, x) ==
    CASE x.k = "ident" /\ x.name \in DOMAIN ctx.int  -> [k |-> "int", n |-> ctx.int[x.name]]
      [] x.k = "ident" /\ x.name \notin DOMAIN ctx.int /\ x.name \in DOMAIN ctx.bool
                                                     -> [k |-> "bool", n |-> ctx.bool[x.name]]
      [] OTHER -> x

Propagate(ctx, x) ==
    CASE x.k = "binary" -> [x EXCEPT !.left = Propagate(ctx, @), !.right = Propagate(ctx, @)]
      [] x.k = "call"   -> [x EXCEPT !.args = [n \in DOMAIN @ |-> Propagate(ctx, @[n])]]
      [] x.k = "print"  -> [x EXCEPT !.arg = Propagate(ctx, @)]
      [] OTHER          -> Known(ctx, x)

(* Algebraic simplification of an operator whose operands are simple.  What  *)
(* goes has no side effects; what is computed no longer may not trap.        *)
Simpler(x) ==
    LET l == x.left
        r == x.right
        Goes(e) == ~HasSideEffects(e)
        Lost(e) == ~HasSideEffects(e) /\ ~MayTrap(e)
    IN  CASE x.f \in {"add", "sub"} /\ IsInt(r, 0) /\ Goes(l) -> l
          [] x.f = "add" /\ IsInt(l, 0) /\ Goes(r)            -> r
          [] x.f = "sub" /\ Compare(l, r) = 0 /\ Lost(l)      -> IntLit(0)
          [] x.f \in {"mul", "div"} /\ IsInt(r, 1) /\ Goes(l) -> l
          [] x.f = "mul" /\ IsInt(l, 1) /\ Goes(r)            -> r
          [] x.f = "mul" /\ IsInt(r, 0) /\ Lost(l)            -> r
          [] x.f = "mul" /\ IsInt(l, 0) /\ Lost(r)            -> l
          [] OTHER                                            -> x

Simplify(x) ==
    IF x.k # "binary" THEN x
    ELSE Simpler([x EXCEPT !.left = Simplify(@), !.right = Simplify(@)])

OptimizeExpr(ctx, x) == Simplify(Propagate(ctx, Fold(x)))

-----------------------------------------------------------------------------
(* The passes over a statement: st is the context and the statement. *)

Of(ctx, s) == [ctx |-> ctx, s |-> s]

Forget(ctx, names) ==
    [k \in DOMAIN ctx |-> [n \in DOMAIN ctx[k] \ names |-> ctx[k][n]]]

(* A constant whose value is a literal is known from its declaration on, to  *)
(* whatever follows in the text of the function.                             *)
Declared(ctx, s, init) ==
    IF s.const /\ init.k \in {"int", "bool"}
    THEN [ctx EXCEPT ![init.k] = (s.name :> init.n) @@ @]
    ELSE ctx

OptimizeStmts(ctx, ss) ==
    LET Next(st, s) == LET done == OptimizeStmt(st.ctx, s)
                       IN  [ctx |-> done.ctx, ss |-> Append(st.ss, done.s)]
    IN  FoldLeft(Next, [ctx |-> ctx, ss |-> <<>>], ss)

(* Mutant: a statement whose value nobody uses goes even if it may trap. *)
Dead_MayTrap(s) == s.k = "expr" /\ ~HasSideEffects(s.expr)

(* A statement that does nothing. *)
Dead(s) == s.k = "expr" /\ ~HasSideEffects(s.expr) /\ ~MayTrap(s.expr)

(* An if whose condition is a literal is the branch it takes. *)
Branch(s) ==
    IF s.cond.k # "bool" THEN s
    ELSE IF s.cond.n = 1 THEN s.then
    ELSE IF s.else.k # "none" THEN s.else ELSE [k |-> "block", body |-> <<>>]

(* The parts of a for in the order they are optimised. *)
OptimizeFor(ctx, s) ==
    LET init   == OptimizeStmt(ctx, s.init)
        update == OptimizeStmt(init.ctx, s.update)
        body   == OptimizeStmt(update.ctx, s.body)
    IN  Of(body.ctx, [s EXCEPT !.init = init.s, !.cond = OptimizeExpr(init.ctx, @),
                               !.update = update.s, !.body = body.s])

OptimizeIf(ctx, s) ==
    LET then == OptimizeStmt(ctx, s.then)
        else == OptimizeStmt(then.ctx, s.else)
    IN  Of(else.ctx, Branch([s EXCEPT !.cond = OptimizeExpr(ctx, @),
                                      !.then = then.s, !.else = else.s]))

(* What is known outside of a function is known inside, but for its          *)
(* parameters; what its body declares is forgotten.                          *)
OptimizeFn(ctx, s) ==
    LET params == {s.params[n] : n \in DOMAIN s.params}
    IN  Of(ctx, [s EXCEPT !.body = OptimizeStmt(Forget(ctx, params), @).s])

OptimizeBlock(ctx, s) ==
    LET done == OptimizeStmts(ctx, s.body)
    IN  Of(done.ctx, [s EXCEPT !.body = SelectSeq(done.ss, LAMBDA t : ~Dead(t))])

(* A loop: its expressions, and then its body. *)
WithBody(ctx, s) ==
    LET body == OptimizeStmt(ctx, s.body)
    IN  Of(body.ctx, [s EXCEPT !.body = body.s])

OptimizeStmt(ctx, s) ==
    LET Opt(x) == OptimizeExpr(ctx, x)
    IN
    CASE s.k = "let"    -> Of(Declared(ctx, s, Opt(s.init)), [s EXCEPT !.init = Opt(@)])
      [] s.k = "assign" -> Of(Forget(ctx, {s.name}), [s EXCEPT !.value = Opt(@)])
      [] s.k = "expr"   -> Of(ctx, [s EXCEPT !.expr = Opt(@)])
      [] s.k = "return" -> Of(ctx, [s EXCEPT !.value = Opt(@)])
      [] s.k = "block"  -> OptimizeBlock(ctx, s)
      [] s.k = "if"     -> OptimizeIf(ctx, s)
      [] s.k = "while"  -> WithBody(ctx, [s EXCEPT !.cond = Opt(@)])
      [] s.k = "for"    -> OptimizeFor(ctx, s)
      [] s.k = "forrange" -> WithBody(ctx, [s EXCEPT !.start = Propagate(ctx, @),
                                   !.stop = Propagate(ctx, @), !.step = Propagate(ctx, @)])
      [] s.k = "fn"     -> OptimizeFn(ctx, s)
      [] OTHER          -> Of(ctx, s)
===============================================================================
