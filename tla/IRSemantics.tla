------------------------------ MODULE IRSemantics ------------------------------
(* What a module of the intermediate representation means: a definitional    *)
(* interpreter of the control flow graphs of its functions.  Control follows *)
(* the edges of the graph, wherever the code of a block is kept; a register  *)
(* exists once it has been written, and only in its own activation.          *)
(*                                                                           *)
(* A state s has                                                             *)
(*   regs, locals   the registers and local slots of the activation          *)
(*   out            what was printed                                         *)
(*   depth          functions active                                         *)
(*   at             the block to run next                                    *)
(*   st             "go", or why it stopped: "return" (with val), "throw",   *)
(*                  "undefined" (a register was read before it was written), *)
(*                  "lost" (no block to go to), "endless" (2^BlocksRun       *)
(*                  blocks of an activation, a bound of the model)           *)
EXTENDS ControlFlowGraph, TLC

CONSTANTS Apply(_, _, _), MaxCallDepth, BlocksRun

LOCAL INSTANCE SequencesExt

Num(n) == [t |-> "int", n |-> n]
Nil    == [t |-> "nil"]

Go(s) == s.st = "go"
Stopped(s, why, val) == [s EXCEPT !.st = why, !.val = val]

Value(s, o) ==
    CASE o.k \in {"int", "bool"} -> Num(o.n)
      [] o.k = "vreg"            -> s.regs[o.n]
      [] o.k = "slot"            -> IF o.n \in DOMAIN s.locals THEN s.locals[o.n] ELSE Nil
      [] OTHER                   -> Num(0)

Values(s, os) == [n \in DOMAIN os |-> Value(s, os[n])]

Written(s, dst, v) ==
    CASE dst.k = "vreg" -> [s EXCEPT !.regs = (dst.n :> v) @@ @]
      [] dst.k = "slot" -> [s EXCEPT !.locals = (dst.n :> v) @@ @]
      [] OTHER          -> s

(* The function of that name among the functions fs, each with its graph.    *)
Callee(fs, name) == fs[SelectLastInSeq(fs, LAMBDA f : f.name = name)]

(* Where control goes from block b, after its code.                          *)
Labelled(g, b, l)  == {x \in g.succ[b] : g.label[x] = l}
Otherwise(g, b, l) == IF g.succ[b] = Labelled(g, b, l) THEN g.succ[b]
                      ELSE g.succ[b] \ Labelled(g, b, l)

NextBlocks(g, b, s) ==
    LET i == IF g.code[b] = <<>> THEN Nullary("NOP", NoOperand) ELSE Last(g.code[b])
        Sign(n) == CASE n < 0 -> 1 [] n = 0 -> 2 [] n > 0 -> 3
        If(c) == IF c THEN Labelled(g, b, i.src2.l) ELSE Otherwise(g, b, i.src2.l)
        Truth == Value(s, i.src1).n # 0
    IN  CASE i.op = "JUMP"            -> Labelled(g, b, i.src1.l)
          [] i.op = "BRANCH_IF_FALSE" -> If(~Truth)
          [] i.op = "BRANCH_IF_TRUE"  -> If(Truth)
          [] i.op = "BRANCH3"         -> Labelled(g, b, i.args[Sign(Value(s, i.src1).n)].l)
          [] OTHER                    -> g.succ[b]

RECURSIVE RunCode(_, _, _), Run(_, _, _, _), Step(_, _, _)

(* Code runs one half after the other, so that no evaluation is as deep as   *)
(* the code is long.                                                         *)
RunCode(fs, s, code) ==
    LET half == Len(code) \div 2
    IN  IF ~Go(s) \/ code = <<>> THEN s
        ELSE IF Len(code) = 1 THEN Step(fs, s, code[1])
        ELSE RunCode(fs, RunCode(fs, s, SubSeq(code, 1, half)), SubSeq(code, half + 1, Len(code)))

RunBlock(fs, g, s) ==
    LET after == RunCode(fs, s, g.code[s.at])
        next  == NextBlocks(g, s.at, after)
    IN  IF ~Go(after) THEN after
        ELSE IF Cardinality(next) # 1 THEN Stopped(after, "lost", Nil)
        ELSE [after EXCEPT !.at = CHOOSE x \in next : TRUE]

(* Up to 2^n blocks of graph g. *)
Run(fs, g, s, n) ==
    IF ~Go(s) THEN s
    ELSE IF n = 0 THEN RunBlock(fs, g, s)
    ELSE Run(fs, g, Run(fs, g, s, n - 1), n - 1)

(* A call: the callee begins with its arguments in its first slots.          *)
Invoke(fs, s, f, vals) ==
    LET inside == [s EXCEPT !.regs = <<>>, !.depth = @ + 1, !.at = Entry,
                            !.locals = [n \in 0 .. Len(vals) - 1 |-> vals[n + 1]]]
        r      == Run(fs, f.cfg, inside, BlocksRun)
    IN  IF s.depth >= MaxCallDepth THEN Stopped(s, "throw", Nil)
        ELSE [r EXCEPT !.regs = s.regs, !.locals = s.locals, !.depth = s.depth, !.at = s.at,
                       !.st = CASE @ = "return" -> "go" [] @ = "go" -> "endless" [] OTHER -> @]

Called(fs, s, i) ==
    LET r == Invoke(fs, s, Callee(fs, i.src1.s), Values(s, i.args))
    IN  IF i.src1.s = "print"
        THEN Written([s EXCEPT !.out = Append(@, Value(s, i.args[1]))], i.dst, Num(0))
        ELSE IF Go(r) THEN Written(r, i.dst, r.val) ELSE r

Computed(s, i) ==
    IF i.f = "div" /\ Value(s, i.src2) = Num(0) THEN Stopped(s, "throw", Nil)
    ELSE Written(s, i.dst, Apply(i.f, Value(s, i.src1), Value(s, i.src2)))

Step(fs, s, i) ==
    IF ~(Reads(i) \subseteq DOMAIN s.regs) THEN Stopped(s, "undefined", Nil)
    ELSE CASE i.op \in {"CONST", "MOVE", "LOAD_LOCAL", "STORE_LOCAL"}
                               -> Written(s, i.dst, Value(s, i.src1))
           [] i.op = "LOAD_GLOBAL" -> Written(s, i.dst, Nil)
           [] i.op = "BINARY"  -> Computed(s, i)
           [] i.op = "CALL"    -> Called(fs, s, i)
           [] i.op = "RETURN"  -> Stopped(s, "return", Value(s, i.src1))
           [] OTHER            -> s

(* The top level runs first, then main if there is one. *)
Meaning(fs) ==
    LET start == [regs |-> <<>>, locals |-> <<>>, out |-> <<>>, depth |-> 0,
                  at |-> Entry, st |-> "go", val |-> Nil]
        top   == Invoke(fs, start, Last(fs), <<>>)
        main  == \E n \in DOMAIN fs : fs[n].name = "main"
    IN  IF Go(top) /\ main THEN Invoke(fs, top, Callee(fs, "main"), <<>>) ELSE top
===============================================================================
