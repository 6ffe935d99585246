--------------------------- MODULE CompiledProgram ---------------------------
(* Source to output: programs written as syntax trees, compiled by the       *)
(* emitter, run by the interpreter.  What the code does is compared with     *)
(* what the program says.                                                    *)
EXTENDS TersunVM, BytecodeEmitter

CONSTANT SourceOf   \* the statements of each program

Meant == INSTANCE SourceSemantics

(* A program that stops has printed what its source says, in the same order, *)
(* asked for the same inputs and failed if and only if the source fails.     *)
(* Compilation to jumps and slots, frames sharing one vector, operands left  *)
(* by stores and the unwinding of throws are invisible.  A program that      *)
(* exceeds the call depth in run_optimized is left out: see the README.      *)
MeansWhatItSays ==
    outcome \in {"halted", "uncaught"} =>
        LET m == Meant!Meaning(SourceOf[program], inputs)
        IN  /\ out = m.out
            /\ m.used = Len(inputs)
            /\ outcome = "uncaught" <=> m.st = "throw"

(* The try blocks open at each instruction of a chunk that control can       *)
(* reach, by the first way found; todo pairs the instructions to go on from  *)
(* with those blocks.                                                        *)
Ways(c, d, n) ==
    {<<m, After(c, d, n)>> : m \in NextOf(c, n)}
    \cup IF c.code[n].op = "Try" THEN {<<c.code[n].to, d[n]>>} ELSE {}

RECURSIVE Reach(_, _, _)
Reach(c, d, todo) ==
    LET new == {x[1] : x \in todo} \cap (DOMAIN c.code \ DOMAIN d)
        e   == [n \in DOMAIN d \cup new |->
                   IF n \in new THEN (CHOOSE x \in todo : x[1] = n)[2] ELSE d[n]]
    IN  IF new = {} THEN d ELSE Reach(c, e, UNION {Ways(c, e, n) : n \in new})

OpenTries(c) == Reach(c, <<>>, {<<e, <<>>>> : e \in {1} \cup EntriesOf(c)})

(* Try blocks are bracketed in the code the emitter makes, whatever leaves   *)
(* them: the end of the body, break, continue and return across any number   *)
(* of them (emitter.cpp:1052, 1087), and the exceptions caught.  This is all *)
(* that HandlersLive and ThrowReachesEnclosingCatch rest on (VMHandlersLive, *)
(* VMThrowReachesEnclosingCatch).  It is a matter of the chunk alone, so it  *)
(* is looked at before the first instruction.                                *)
CodeBracketed == ip = 1 => Bracketed(chunk, OpenTries(chunk))

(* Every program here stops once its inputs are zero: jumps of loops, the    *)
(* returns of functions and the landing of exceptions never make it run in   *)
(* circles.                                                                  *)
Terminates == <>(outcome # "running")
=============================================================================
