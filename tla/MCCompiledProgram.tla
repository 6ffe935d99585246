------------------------- MODULE MCCompiledProgram -------------------------
(* Programs to check: three constructs nested in one another around a        *)
(* statement that may leave them, each construct with something to print     *)
(* before and after, and a last call that prints its argument.               *)
EXTENDS CompiledProgram

Lit(n)      == [k |-> "int", n |-> n]
Var(n)      == [k |-> "ident", name |-> n]
AskBool     == [k |-> "input", range |-> {0, 1}]
AskTrit     == [k |-> "input", range |-> {-1, 0, 1}]
Bin(f, a, b) == [k |-> "binary", f |-> f, left |-> a, right |-> b]
CallOf(f, args) == [k |-> "call", callee |-> f, args |-> args]
Expr(x)     == [k |-> "expr", expr |-> x]
Show(x)     == Expr([k |-> "print", arg |-> x])
Mark(n)     == Show(Lit(n))
Block(ss)   == [k |-> "block", body |-> ss]
None        == [k |-> "none"]
Let(n, x)   == [k |-> "let", name |-> n, init |-> x]
Set(n, x)   == [k |-> "assign", name |-> n, value |-> x]
ThrowOf(x)  == [k |-> "throw", value |-> x]
Fn(f, ps, ss) == [k |-> "fn", name |-> f, params |-> ps, body |-> Block(ss)]
If(c, a, b) == [k |-> "if", cond |-> c, then |-> a, else |-> b]
TryOf(b, v, c) == [k |-> "try", body |-> b, var |-> v, catch |-> c]
Leave(br, l) == [k |-> "jump", break |-> br, label |-> l]

Loops == {"while", "for", "range"}

(* The statement at the centre. *)
Centre ==
    [none |-> Mark(7), throw |-> ThrowOf(Lit(8)),
     divide |-> Show(Bin("div", Lit(6), Bin("sub", Lit(2), Lit(2)))),
     break |-> Leave(TRUE, ""), continue |-> Leave(FALSE, ""),
     breakOuter |-> Leave(TRUE, "outer"), continueOuter |-> Leave(FALSE, "outer"),
     return |-> [k |-> "return", value |-> Lit(9)],
     runaway |-> Expr(CallOf("runaway", <<>>))]

Label(d)   == IF d = 1 THEN "outer" ELSE "inner"
Name(s, d) == s \o <<"1", "2", "3">>[d]

(* The statements that put ss inside a construct at depth d; functions are   *)
(* collected apart, for the top level.                                       *)
Within(c, d, st) ==
    LET m     == 10 * d
        inner == Block(<<Mark(m)>> \o st.stmts \o <<Mark(m + 1)>>)
        Put(ss) == [stmts |-> ss, fns |-> st.fns]
    IN  CASE c = "while" -> Put(<<[k |-> "while", label |-> Label(d),
                                   cond |-> AskBool, body |-> inner]>>)
          [] c = "for"   -> LET i == Name("i", d) IN
                Put(<<[k |-> "for", label |-> Label(d), init |-> Let(i, Lit(0)),
                       cond |-> Bin("lt", Var(i), Lit(2)),
                       update |-> Set(i, Bin("add", Var(i), Lit(1))),
                       body |-> inner]>>)
          [] c = "range" ->
                Put(<<[k |-> "forrange", label |-> Label(d), name |-> Name("r", d),
                       start |-> Lit(2), stop |-> Lit(0), step |-> Lit(-1),
                       body |-> Block(<<Show(Var(Name("r", d)))>> \o st.stmts
                                      \o <<Mark(m + 1)>>)]>>)
          [] c = "try"   ->
                Put(<<TryOf(Block(<<inner, If(AskBool, ThrowOf(Lit(m)), None)>>), "e",
                            Mark(m + 2))>>)
          [] c = "catch" -> Put(<<TryOf(Block(<<ThrowOf(Lit(m))>>), "", inner)>>)
          [] c = "if"    -> Put(<<If(AskBool, inner, Mark(m + 2))>>)
          [] c = "branch3" -> Put(<<[k |-> "branch3", cond |-> AskTrit,
                                     neg |-> Mark(m + 2), zero |-> inner,
                                     pos |-> Mark(m + 3)]>>)
          [] c = "match" -> Put(<<[k |-> "match", cond |-> AskTrit, arms |-> <<
                                     [pattern |-> Lit(0), body |-> Mark(m + 2)],
                                     [pattern |-> Lit(1), body |-> inner]>>]>>)
          [] c = "call"  -> LET f == Name("f", d) y == Name("y", d) IN
                [stmts |-> <<Show(Bin("add", Lit(100), CallOf(f, <<Lit(m)>>)))>>,
                 fns   |-> st.fns \o <<Fn(f, <<"x">>,
                              <<Let(y, Bin("add", Var("x"), Lit(5))), inner,
                                Show(Var(y)), Show(Var("x"))>>)>>]
          [] c = "lambda" -> LET h == Name("h", d) v == Name("v", d) IN
                Put(<<Block(<<Let(v, Lit(m + 4)),
                        Let(h, [k |-> "lambda", params |-> <<"q">>, uses |-> <<v, "q">>,
                                body |-> Block(<<Show(Var(v)), inner, Show(Var("q"))>>)]),
                        Show(CallOf(h, <<Lit(m + 5)>>))>>)>>)

Nested(shape) ==
    LET st == Within(shape[1], 1, Within(shape[2], 2, Within(shape[3], 3,
                  [stmts |-> <<Centre[shape[4]]>>, fns |-> <<>>])))
        probe   == Fn("probe", <<"p">>, <<Show(Var("p"))>>)
        runaway == Fn("runaway", <<>>, <<Expr(CallOf("runaway", <<>>))>>)
    IN  <<Let("g", Lit(3)), probe, runaway>> \o st.fns
        \o <<Block(st.stmts), Expr(CallOf("probe", <<Var("g")>>))>>

-----------------------------------------------------------------------------
(* Which shapes are programs at all, and which the emitter gets right. *)

(* Functions are compiled apart: what surrounds a call surrounds its body no *)
(* more.                                                                     *)
CallDepthOf(s) == CHOOSE i \in 0 .. 3 : /\ i > 0 => s[i] = "call"
                                        /\ \A j \in i + 1 .. 3 : s[j] # "call"
LambdaOf(s) == CHOOSE i \in 0 .. 3 : /\ i > 0 => s[i] = "lambda"
                                     /\ \A j \in i + 1 .. 3 : s[j] # "lambda"

(* The loop a break or continue at the centre is for; 0 if there is none. *)
TargetOf(s) ==
    LET loops == {i \in CallDepthOf(s) + 1 .. 3 : s[i] \in Loops}
    IN  IF s[4] \in {"breakOuter", "continueOuter"}
        THEN (IF 1 \in loops THEN 1 ELSE 0)
        ELSE IF loops = {} THEN 0 ELSE CHOOSE i \in loops : \A j \in loops : j <= i

Jumps == {"break", "continue", "breakOuter", "continueOuter"}

(* break and continue have a loop, in the same function or lambda. *)
Legal(s) == s[4] \in Jumps => TargetOf(s) > 0 /\ TargetOf(s) > LambdaOf(s)

(* No try body encloses what a jump stays inside of: neither the loop that a *)
(* break or continue is for, nor the lambda that a return leaves.            *)
WithinTry(s, i) == \E j \in CallDepthOf(s) + 1 .. i - 1 : s[j] = "try"
JumpsLeaveEveryTry(s) ==
    /\ s[4] \in Jumps => ~WithinTry(s, TargetOf(s))
    /\ s[4] = "return" => ~WithinTry(s, LambdaOf(s))

Shapes ==
    {"while", "range", "try", "call"}
    \X {"while", "for", "try", "catch", "call", "lambda"}
    \X {"while", "try", "catch", "if", "branch3", "match", "call"}
    \X DOMAIN Centre

(* The portable loops do not survive unwinding many frames more than once.   *)
UnwindsOnce(s) == s[4] = "runaway" => \A i \in 1 .. 3 : s[i] \notin Loops

MCPrograms == {s \in Shapes : Legal(s) /\ JumpsLeaveEveryTry(s) /\ UnwindsOnce(s)}

MCSourceOf == [s \in Programs |-> Nested(s)]
MCChunkOf  == [s \in Programs |-> Compile(SourceOf[s])]

(* Every program checked is one the emitter accepts. *)
ASSUME \A s \in Programs : ~ChunkOf[s].bad
=============================================================================
