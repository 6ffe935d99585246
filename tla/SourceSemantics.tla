--------------------------- MODULE SourceSemantics ---------------------------
(* What a Tersun program means: a definitional interpreter over the syntax   *)
(* tree, with scopes and a store instead of slots, and structured outcomes   *)
(* instead of jumps.  It is the reference the compiled program is compared   *)
(* with, and knows nothing of code, slots, frames or handlers.               *)
(*                                                                           *)
(* A state m has                                                             *)
(*   env     the scopes in force, names to cells of the store, outermost     *)
(*           (global) first                                                  *)
(*   store   the value of every variable ever declared                       *)
(*   fns     the program's functions                                         *)
(*   out     what was printed                                                *)
(*   ins, used   the answers of the natives, and how many were asked for     *)
(*   depth   functions active                                                *)
(*   st      "go", or why the statement stopped: "break", "continue" (with   *)
(*           the label), "return" (with val), "throw" (with val)             *)
(*   val     the value of the last expression                                *)
EXTENDS Integers, Sequences, TLC

CONSTANT Apply(_, _, _), MaxCallDepth

LOCAL INSTANCE SequencesExt

Num(n) == [t |-> "int", n |-> n]

Go(m) == m.st = "go"

Stopped(m, why, val) == [m EXCEPT !.st = why, !.val = val]

(* The cell of a variable: the innermost scope that declares it. *)
CellOf(m, name) ==
    LET d == CHOOSE d \in DOMAIN m.env :
                 /\ name \in DOMAIN m.env[d]
                 /\ \A x \in DOMAIN m.env : name \in DOMAIN m.env[x] => x <= d
    IN  m.env[d][name]

Declared(m, name) == \E d \in DOMAIN m.env : name \in DOMAIN m.env[d]

Declare(m, name, val) ==
    [m EXCEPT !.store = Append(@, val),
              !.env[Len(m.env)] = (name :> Len(m.store) + 1) @@ @]

DeclareAll(m, names, vals) ==
    FoldLeft(LAMBDA a, i : Declare(a, names[i], vals[i]), m,
             [i \in DOMAIN names |-> i])

Inner(m)    == [m EXCEPT !.env = Append(@, <<>>)]
Back(m, to) == [m EXCEPT !.env = to.env, !.depth = to.depth]

RECURSIVE Eval(_, _), Evaluated(_, _, _), Exec(_, _), ExecAll(_, _), Loop(_, _, _)

-----------------------------------------------------------------------------
(* Expressions. *)

(* Several expressions, left to right: the state after them, their values. *)
Evaluated(m, xs, vals) ==
    IF ~Go(m) \/ xs = <<>> THEN [m |-> m, vals |-> vals]
    ELSE LET first == Eval(m, Head(xs))
         IN  Evaluated(first, Tail(xs), Append(vals, first.val))

EvalAll(m, xs) == Evaluated(m, xs, <<>>)

(* What a call leaves of the callee's outcome r: the value of its return, or *)
(* 0, or its throw; the caller's scopes are in force again.                  *)
Returned(r, m) ==
    CASE r.st = "go"     -> [Back(r, m) EXCEPT !.val = Num(0)]
      [] r.st = "return" -> [Back(r, m) EXCEPT !.st = "go"]
      [] OTHER           -> Back(r, m)

(* A body runs with the global scope and its parameters. *)
Invoke(m, f, vals) ==
    IF m.depth >= MaxCallDepth THEN Stopped(m, "throw", [t |-> "nil"])
    ELSE Returned(Exec(DeclareAll([m EXCEPT !.env = <<m.env[1], <<>>>>, !.depth = @ + 1],
                                  f.params, vals), f.body), m)

Callee(m, name) == IF Declared(m, name) THEN m.store[CellOf(m, name)] ELSE m.fns[name]

(* A lambda copies the variables it uses when it is created. *)
Captures(m, x) ==
    SelectSeq(x.uses, LAMBDA n : n \notin Range(x.params) /\ Declared(m, n))

Lambda(m, x, names) ==
    [params |-> x.params \o names, body |-> x.body,
     captures |-> [i \in DOMAIN names |-> m.store[CellOf(m, names[i])]]]

Divides(x, vals) == x.k = "binary" /\ x.f = "div" /\ vals[2] = Num(0)

(* The value of x in state m, vals being the values of its operands. *)
Valued(m, x, vals) ==
    CASE x.k \in {"int", "bool"} -> [m EXCEPT !.val = Num(x.n)]
      [] x.k = "ident"  -> [m EXCEPT !.val = m.store[CellOf(m, x.name)]]
      [] x.k = "input"  -> [m EXCEPT !.used = @ + 1,
                                     !.val = Num(IF m.used < Len(m.ins)
                                                 THEN m.ins[m.used + 1] ELSE 0)]
      [] x.k = "binary" /\ ~Divides(x, vals) -> [m EXCEPT !.val = Apply(x.f, vals[1], vals[2])]
      [] Divides(x, vals)
           -> Stopped(m, "throw", [t |-> "text", s |-> "Division by zero in integer arithmetic."])
      [] x.k = "print"  -> [m EXCEPT !.out = Append(@, vals[1]), !.val = [t |-> "nil"]]
      [] x.k = "lambda" -> [m EXCEPT !.val = Lambda(m, x, Captures(m, x))]
      [] x.k = "call"   -> Invoke(m, Callee(m, x.callee),
                                  vals \o Callee(m, x.callee).captures)

Operands(x) ==
    CASE x.k = "binary" -> <<x.left, x.right>>
      [] x.k = "print"  -> <<x.arg>>
      [] x.k = "call"   -> x.args
      [] OTHER          -> <<>>

Eval(m, x) ==
    LET Applied(a) == IF Go(a.m) THEN Valued(a.m, x, a.vals) ELSE a.m
    IN  Applied(EvalAll(m, Operands(x)))

-----------------------------------------------------------------------------
(* Statements. *)

ExecAll(m, ss) == IF ~Go(m) \/ ss = <<>> THEN m ELSE ExecAll(Exec(m, Head(ss)), Tail(ss))

(* A body of the loop labelled label has run, from state m to r.  break and  *)
(* continue are for this loop when they carry no label or its own; a loop    *)
(* that was left has st "left".                                              *)
Turned(r, m, label) ==
    IF r.st \in {"break", "continue"} /\ r.val \in {"", label}
    THEN [Back(r, m) EXCEPT !.st = IF r.st = "break" THEN "left" ELSE "go"]
    ELSE Back(r, m)

Ended(m) == IF m.st = "left" THEN [m EXCEPT !.st = "go"] ELSE m

(* The body as long as the condition holds, bump after each turn. *)
Loop(m, s, bump) ==
    LET AfterTurn(r) == IF Go(r) THEN Loop(Exec(r, bump), s, bump) ELSE r
        AfterTest(t) == IF Go(t) /\ t.val.n # 0
                        THEN AfterTurn(Turned(Exec(t, s.body), t, s.label)) ELSE t
    IN  IF Go(m) THEN AfterTest(Eval(m, s.cond)) ELSE m

(* The values that start, start + step, ... takes before stop. *)
Counted(start, stop, step) ==
    LET n == CASE step > 0 /\ start < stop -> (stop - start + step - 1) \div step
               [] step < 0 /\ start > stop -> (start - stop - step - 1) \div (-step)
               [] OTHER                    -> 0
    IN  [i \in 1 .. n |-> start + (i - 1) * step]

(* for v in range(start, stop, step): bounds are evaluated before the body   *)
(* first runs, in the order of the code.                                     *)
ExecRange(a, s) ==
    LET Turn(m, v) == IF Go(m)
                      THEN Turned(Exec(Declare(Inner(m), s.name, Num(v)), s.body), m, s.label)
                      ELSE m
    IN  IF Go(a.m)
        THEN Ended(FoldLeft(Turn, a.m, Counted(a.vals[3].n, a.vals[2].n, a.vals[1].n)))
        ELSE a.m

(* The catch runs where the try began, with the thrown value. *)
Caught(r, m, s) ==
    LET again == Inner([Back(r, m) EXCEPT !.st = "go"])
    IN  IF r.st # "throw" THEN r
        ELSE Back(Exec(IF s.var = "" THEN again ELSE Declare(again, s.var, r.val), s.catch), m)

None == [k |-> "none"]

(* The statement a condition with value n chooses. *)
Chosen(s, n) ==
    CASE s.k = "if"      -> IF n # 0 THEN s.then ELSE s.else
      [] s.k = "branch3" -> (CASE n < 0 -> s.neg [] n = 0 -> s.zero [] n > 0 -> s.pos)
      [] s.k = "match"   -> LET hits == SelectSeq(s.arms, LAMBDA arm : arm.pattern.n = n)
                            IN  IF hits = <<>> THEN None ELSE hits[1].body

(* The expression a statement starts with. *)
Subject(s) ==
    CASE s.k = "expr" -> s.expr
      [] s.k = "let"  -> s.init
      [] s.k \in {"assign", "throw", "return"}  -> s.value
      [] s.k \in {"if", "branch3", "match"}     -> s.cond

(* The rest of such a statement, m.val being the value of that expression. *)
Finished(m, s) ==
    CASE s.k = "expr"   -> m
      [] s.k = "let"    -> Declare(m, s.name, m.val)
      [] s.k = "assign" -> [m EXCEPT !.store[CellOf(m, s.name)] = m.val]
      [] s.k \in {"throw", "return"} -> [m EXCEPT !.st = s.k]
      [] OTHER          -> Exec(m, Chosen(s, m.val.n))

Exec(m, s) ==
    LET AfterSubject(v) == IF Go(v) THEN Finished(v, s) ELSE v
    IN
    CASE s.k \in {"none", "fn"} -> m
      [] s.k = "block"    -> Back(ExecAll(Inner(m), s.body), m)
      [] s.k = "while"    -> Ended(Loop(m, s, None))
      [] s.k = "for"      -> Ended(Back(Loop(Exec(Inner(m), s.init), s, s.update), m))
      [] s.k = "forrange" -> ExecRange(EvalAll(m, <<s.step, s.stop, s.start>>), s)
      [] s.k = "jump"     -> Stopped(m, IF s.break THEN "break" ELSE "continue", s.label)
      [] s.k = "try"      -> Caught(Exec(m, s.body), m, s)
      [] OTHER            -> AfterSubject(Eval(m, Subject(s)))

(* The program's functions are known everywhere; main runs last. *)
Meaning(statements, ins) ==
    LET fns   == SelectSeq(statements, LAMBDA s : s.k = "fn")
        fnOf  == [n \in {fns[i].name : i \in DOMAIN fns} |->
                     LET f == fns[SelectLastInSeq(fns, LAMBDA g : g.name = n)]
                     IN  [params |-> f.params, body |-> f.body, captures |-> <<>>]]
        start == [env |-> << <<>> >>, store |-> <<>>, out |-> <<>>, fns |-> fnOf,
                  ins |-> ins, used |-> 0, depth |-> 0, st |-> "go", val |-> Num(0)]
        main  == [k |-> "call", callee |-> "main", args |-> <<>>]
    IN  ExecAll(start, IF "main" \in DOMAIN fnOf
                       THEN Append(statements, [k |-> "expr", expr |-> main])
                       ELSE statements)
=============================================================================
