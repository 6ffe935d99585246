-------------------------- MODULE MCCompilerPipeline --------------------------
(* Programs to check: a function f whose statements (a fragment) stand in a  *)
(* construct (a shape) that is followed by more of them, called with every   *)
(* pair of arguments 0 and 1.                                                *)
EXTENDS CompilerPipeline

Lit(n)      == [k |-> "int", n |-> n]
Var(n)      == [k |-> "ident", name |-> n]
Bin(f, a, b) == [k |-> "binary", f |-> f, left |-> a, right |-> b]
CallOf(f, args) == [k |-> "call", callee |-> f, args |-> args]
Expr(x)     == [k |-> "expr", expr |-> x]
Show(x)     == Expr([k |-> "print", arg |-> x])
Block(ss)   == [k |-> "block", body |-> ss]
None        == [k |-> "none"]
Let(n, x)   == [k |-> "let", name |-> n, init |-> x, const |-> FALSE]
Const(n, x) == [k |-> "let", name |-> n, init |-> x, const |-> TRUE]
Set(n, x)   == [k |-> "assign", name |-> n, value |-> x]
Return(x)   == [k |-> "return", value |-> x]
Fn(f, ps, ss) == [k |-> "fn", name |-> f, params |-> ps, body |-> Block(ss)]
If(c, a, b) == [k |-> "if", cond |-> c, then |-> a, else |-> b]
While(c, ss) == [k |-> "while", label |-> "", cond |-> c, body |-> Block(ss)]
For(n, to, ss) ==
    [k |-> "for", label |-> "", init |-> Let(n, Lit(0)), cond |-> Bin("lt", Var(n), to),
     update |-> Set(n, Bin("add", Var(n), Lit(1))), body |-> Block(ss)]
Range(n, given, start, stop, step, ss) ==
    [k |-> "forrange", label |-> "", name |-> n, given |-> given, start |-> start,
     stop |-> stop, step |-> step, body |-> Block(ss)]
Break    == [k |-> "jump", break |-> TRUE, label |-> ""]
Continue == [k |-> "jump", break |-> FALSE, label |-> ""]

x == Var("x")
y == Var("y")
z == Var("z")
k == Var("k")

(* What a fragment does with x and y; k is 3 everywhere, c is 2 in f.        *)
Fragment ==
    [again   |-> <<Show(Bin("add", x, y)), Show(Bin("add", y, x))>>,
     between |-> <<Show(Bin("sub", x, y)), Set("x", Bin("add", x, Lit(1))),
                   Show(Bin("sub", x, y))>>,
     unused  |-> <<Let("z", Bin("sub", x, y)), Set("z", x), Show(z)>>,
     call    |-> <<Show(CallOf("g", <<x, Bin("add", x, y)>>)), Show(Bin("add", x, y)),
                   Show(Bin("sub", CallOf("g", <<y, x>>), CallOf("g", <<x, y>>)))>>,
     leave   |-> <<If(x, Return(Bin("add", y, Lit(5))), None)>>,
     choose  |-> <<If(Bin("lt", x, y), Block(<<Set("y", Lit(7))>>), Block(<<Set("y", x)>>)),
                   Show(y)>>,
     trap    |-> <<Let("z", Bin("sub", x, Lit(1))), Expr(Bin("add", Bin("div", y, z), x)), Show(y),
                   Show(Bin("mul", Bin("div", x, z), Lit(0)))>>,
     known   |-> <<Show(Bin("mul", k, Bin("sub", Var("c"), Lit(4)))),
                   If(Bin("lt", k, Var("c")), Show(x), Show(y)),
                   If(Bin("eq", k, Lit(3)), Show(Bin("div", Bin("sub", Lit(0), k), Var("c"))), None)>>,
     simple  |-> <<Show(Bin("sub", Bin("add", Bin("add", Lit(1), x), Lit(2)), Bin("mul", Lit(1), y))),
                   Show(Bin("sub", Bin("mul", x, y), Bin("mul", y, x))), Expr(Bin("sub", x, y)),
                   Show(Bin("add", CallOf("g", <<x, Lit(0)>>), Lit(0)))>>]

(* The fragment ss in a construct. *)
Within(shape, ss) ==
    CASE shape = "plain" -> ss
      [] shape = "if"    -> <<If(x, Block(ss), None), Show(x)>>
      [] shape = "else"  -> <<If(x, Block(<<Show(y)>>), Block(ss)), Show(x)>>
      [] shape = "while" -> <<Let("i", Lit(0)),
                              While(Bin("lt", Var("i"), Lit(2)),
                                    <<Set("i", Bin("add", Var("i"), Lit(1)))>> \o ss),
                              Show(Var("i"))>>
      [] shape = "break" -> <<Let("i", Lit(2)),
                              While(Lit(1), ss \o <<Set("i", Bin("sub", Var("i"), Lit(1))),
                                                    If(Bin("lt", Var("i"), y), Break, None)>>),
                              Show(Var("i"))>>
      [] shape = "for"   -> <<For("j", Lit(3), <<If(Bin("eq", Var("j"), y), Continue, None)>> \o ss)>>
      [] shape = "range" -> <<Range("r", 2, y, Lit(3), Lit(1),
                                    <<Show(Var("r")), If(Bin("eq", Var("r"), Lit(2)), Break, None)>>
                                    \o ss)>>
      [] shape = "steps" -> <<Range("r", 1, Lit(0), Lit(1), Lit(1),
                                    <<Range("j", 3, Var("r"), Lit(4), Lit(2), ss \o <<Show(Var("j"))>>)>>)>>

ProgramOf(ss) ==
    LET Probe(m, n) == Show(CallOf("f", <<Lit(m), Lit(n)>>))
    IN  <<Const("k", Lit(3)),
          Fn("g", <<"x", "y">>, <<Show(y), Return(Bin("add", x, Lit(1)))>>),
          Fn("f", <<"x", "y">>, <<Const("c", Lit(2))>> \o ss \o <<Return(x)>>),
          Fn("main", <<>>, <<Probe(0, 0), Probe(0, 1), Probe(1, 0), Probe(1, 1)>>),
          Show(k)>>

Shapes == {"plain", "if", "else", "while", "break", "for", "range", "steps"}
Shaped == Shapes \X DOMAIN Fragment

(* Programs the pipeline refuses or gets wrong. *)
Alone(name) ==
    CASE name = "merge"   -> <<If(x, Show(y), Return(y)), If(y, Show(x), None)>>
      [] name = "branch3" -> <<[k |-> "branch3", cond |-> Bin("sub", x, y), neg |-> Show(y),
                                zero |-> Show(x), pos |-> Show(Lit(1))]>>

MCPrograms == Shaped \cup {<<"alone", "branch3">>}
MCMerge    == {<<"alone", "merge">>}

MCNameOrder == <<"c", "i", "j", "k", "r", "x", "y", "z">>

(* After a fragment the first one comes again. *)
MCSourceOf ==
    [p \in Programs |-> ProgramOf(IF p \in Shaped THEN Within(p[1], Fragment[p[2]]) \o Fragment.again
                                                   ELSE Alone(p[2]))]

(* The chunk is made by the pipeline. *)
MCChunkOf == [p \in Programs |-> [code |-> <<>>, functions |-> <<>>, topSize |-> 0]]
===============================================================================
