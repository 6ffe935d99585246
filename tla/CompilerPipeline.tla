--------------------------- MODULE CompilerPipeline ---------------------------
(* The default way from a program to its output (main.cpp:143-156): the tree *)
(* is brought into canonical form and simplified, lowered to the intermediate*)
(* representation, that is optimised and written as bytecode, and the        *)
(* bytecode is run.  What comes out of each stage is compared with what the  *)
(* program says.                                                             *)
EXTENDS TersunVM

CONSTANTS
    SourceOf,       \* the statements of each program
    NameOrder,      \* the names in them, in alphabetical order
    MaxOptRounds,   \* MAX_OPT_ROUNDS: 8
    BlocksRun       \* bound of the model: the reference runs 2^BlocksRun blocks
                    \* of an activation

ASSUME RoundsAssumption == MaxOptRounds \in Nat \ {0}

VARIABLES
    stage,      \* what comes next: "canonicalize", "simplify", "lower",
                \* "optimize", "emit" or "run"
    tree,       \* the statements
    known,      \* the constants the tree optimiser has met
    treeRound,  \* its rounds so far
    meant,      \* history: what the program means
    written,    \* the bytecode emitter: the code so far
    mod, fn, phase, cfg, round, changed, reached

optimizer == <<mod, fn, phase, cfg, round, changed, reached>>
trees     == <<tree, known, treeRound, meant, written>>
machine   == vars
all       == <<vars, trees, optimizer, stage>>

(* Until the tree has been lowered the optimiser waits, with no module.      *)
NoModule == <<>>

Tree    == INSTANCE TreeOptimizer
Build   == INSTANCE IRBuilder
Emitter == INSTANCE IRToBytecode
Opt     == INSTANCE IROptimizer WITH Modules <- {NoModule}
IRMeaning == INSTANCE IRSemantics
Meant     == INSTANCE SourceSemantics

(* Which interpreter loop runs the program is open until it is loaded.       *)
CompilerInit ==
    /\ Init /\ mode = CHOOSE m \in Modes : TRUE
    /\ stage = "canonicalize"
    /\ tree = SourceOf[program] /\ known = Tree!NothingKnown /\ treeRound = 0
    /\ meant = Meant!Meaning(SourceOf[program], <<>>)
    /\ written = Emitter!Fresh
    /\ Opt!OptimizerInit

Canonicalize ==
    /\ stage = "canonicalize" /\ stage' = "simplify"
    /\ tree' = Tree!CanonicalStmts(tree)
    /\ UNCHANGED <<machine, known, treeRound, meant, written, optimizer>>

(* One round over the whole program; what is known outlives it.              *)
Simplify ==
    /\ stage = "simplify"
    /\ LET done == Tree!OptimizeStmts(known, tree)
       IN  /\ tree' = done.ss
           /\ known' = done.ctx
           /\ treeRound' = treeRound + 1
           /\ stage' = IF done.ss # tree /\ treeRound' < MaxOptRounds
                       THEN "simplify" ELSE "lower"
    /\ UNCHANGED <<machine, meant, written, optimizer>>

Lower ==
    /\ stage = "lower" /\ stage' = "optimize"
    /\ mod' = Build!BuildModule(tree)
    /\ UNCHANGED <<machine, trees, fn, phase, cfg, round, changed, reached>>

Optimize == stage = "optimize" /\ Opt!OptimizerNext /\ UNCHANGED <<machine, trees, stage>>

(* The emitter takes one function after the other, the top level first.      *)
EmitTop ==
    /\ stage = "optimize" /\ phase = "start" /\ fn \notin DOMAIN mod
    /\ stage' = "emit"
    /\ written' = Emitter!EmitHead(mod)
    /\ UNCHANGED <<machine, tree, known, treeRound, meant, optimizer>>

EmitFunction ==
    /\ stage = "emit" /\ ~Emitter!Complete(written, mod)
    /\ written' = Emitter!EmitNextFunction(written, mod)
    /\ UNCHANGED <<machine, tree, known, treeRound, meant, optimizer, stage>>

ChunkMade == Emitter!ChunkOfCode(written, mod)

(* The interpreter starts with the chunk.                                    *)
Load ==
    /\ stage = "emit" /\ Emitter!Complete(written, mod) /\ ~ChunkMade.bad
    /\ stage' = "run"
    /\ chunk' = ChunkMade
    /\ mode' \in Modes
    /\ localTop' = IF mode' = "optimized" THEN Max2(chunk'.topSize, 32) ELSE InitialTop
    /\ UNCHANGED <<program, ip, data, calls, handlers, world, outcome, trees, optimizer>>

(* An unresolved label or call ends the compilation with an exception.       *)
Refuse ==
    /\ stage = "emit" /\ Emitter!Complete(written, mod) /\ ChunkMade.bad
    /\ stage' = "run"
    /\ outcome' = "refused"
    /\ UNCHANGED <<program, mode, chunk, ip, data, calls, handlers, localTop, world,
                   trees, optimizer>>

Execute == stage = "run" /\ Step /\ UNCHANGED <<trees, optimizer, stage>>

Compile == Canonicalize \/ Simplify \/ Lower \/ Optimize \/ EmitTop \/ EmitFunction
           \/ Load \/ Refuse

CompilerNext == Compile \/ Execute \/ (Ended /\ UNCHANGED <<trees, optimizer, stage>>)

(* Compiler and interpreter go on while there is something to do.  The       *)
(* second conjunct is WF_all(Compile) written out: Compile is enabled until  *)
(* the program runs.                                                         *)
Fairness ==
    /\ WF_all(Execute)
    /\ []<>(stage = "run") \/ []<><<Compile>>_all

CompilerSpec == CompilerInit /\ [][CompilerNext]_all /\ Fairness

-----------------------------------------------------------------------------
(* What every stage must keep. *)

(* The functions with their graphs: that of the function at work is cfg.     *)
Graphs ==
    [n \in DOMAIN mod |->
        [name |-> mod[n].name,
         cfg  |-> IF n = fn /\ phase # "start" THEN cfg
                  ELSE Opt!BuildFromFunction(mod[n].code)]]

(* Canonical order, folding, propagation and removal leave what the program  *)
(* prints, and whether it ends with an exception, after every round.         *)
TreeKeepsMeaning ==
    stage \in {"simplify", "lower"} =>
        LET m == Meant!Meaning(tree, <<>>)
        IN  m.out = meant.out /\ m.st = meant.st

(* So do lowering and the passes over the graphs, whichever function they    *)
(* are at; the other functions are as they were or already optimised.        *)
PassesKeepMeaning ==
    stage = "optimize" /\ phase \notin {"cse", "reach", "rebuild"} =>
        LET m == IRMeaning!Meaning(Graphs)
        IN  m.out = meant.out /\ m.st = meant.st

(* Where the code of block b, and its place before the next one, let control *)
(* go.                                                                       *)
ByCode(b) ==
    LET code  == cfg.code[b]
        last  == IF code = <<>> THEN Opt!Nullary("NOP", Opt!NoOperand) ELSE code[Len(code)]
        stays == last.op \in {"JUMP", "BRANCH3", "RETURN"}
        n     == Opt!PlaceOf(cfg, b)
    IN  {x \in Opt!Blocks(cfg) : cfg.label[x] \in Opt!Targets(last)}
        \cup (IF ~stays /\ n < Len(cfg.order) THEN {cfg.order[n + 1]} ELSE {})

(* When a graph is flattened that is where its edges say control goes: a     *)
(* block that was merged away leaves no gap to fall through.                 *)
LayoutMatchesEdges ==
    phase = "rebuild" => \A b \in Opt!Blocks(cfg) : ByCode(b) = cfg.succ[b]

(* Each edge of the graph is in both lists, after every pass and merge.      *)
EdgesPaired == Opt!EdgesPaired

(* The bytecode prints what the program says and ends with an exception if   *)
(* and only if the program does, in both families of interpreter loops.      *)
MeansWhatItSays ==
    outcome \in {"halted", "uncaught", "escaped"} =>
        /\ out = meant.out
        /\ outcome # "halted" <=> meant.st = "throw"

(* Every program, none of which loops for ever, is compiled and comes to an  *)
(* end.                                                                      *)
Terminates == <>(outcome # "running")
=============================================================================
