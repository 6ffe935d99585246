--------------------------- MODULE ControlFlowGraph ---------------------------
(* The control flow graph of one function (cfg.cpp).  A graph has            *)
(*   order   the blocks that are left, in the order of their code: numbers   *)
(*   code    the instructions of each                                        *)
(*   label   the name of each                                                *)
(*   succ, pred   the edges, kept twice                                      *)
(* Block 1 is the entry.                                                     *)
EXTENDS IR, FiniteSets

LOCAL INSTANCE SequencesExt

Entry == 1

Blocks(g) == DOMAIN g.code

-----------------------------------------------------------------------------
(* Building the graph. *)

(* A block begins at the first instruction, at a label and after a           *)
(* terminator.                                                               *)
Leaders(code) ==
    {n \in DOMAIN code : \/ n = 1
                         \/ code[n].op = "LABEL"
                         \/ code[n - 1].op \in Terminators}

(* The instructions from each leader to the next. *)
Split(code) ==
    LET starts == SelectSeq([n \in DOMAIN code |-> n], LAMBDA n : n \in Leaders(code))
        End(k) == IF k = Len(starts) THEN Len(code) ELSE starts[k + 1] - 1
    IN  [k \in DOMAIN starts |-> SubSeq(code, starts[k], End(k))]

LabelOf(blocks, k) ==
    IF blocks[k][1].op = "LABEL" THEN blocks[k][1].dst.l ELSE -k

FallsThrough(code) == code = <<>> \/ Last(code).op \notin {"JUMP", "BRANCH3", "RETURN"}

(* Where control may go after block k: to the labels its last instruction    *)
(* names, and to the next block unless that instruction never falls through. *)
EdgesOf(blocks, k) ==
    {j \in DOMAIN blocks :
        \/ blocks[j][1].op = "LABEL" /\ blocks[j][1].dst.l \in Targets(Last(blocks[k]))
        \/ j = k + 1 /\ FallsThrough(blocks[k])}

BuildFromFunction(code) ==
    LET blocks == Split(code)
        succ   == [k \in DOMAIN blocks |-> EdgesOf(blocks, k)]
    IN  [order |-> [k \in DOMAIN blocks |-> k],
         code  |-> [k \in DOMAIN blocks |-> blocks[k]],
         label |-> [k \in DOMAIN blocks |-> LabelOf(blocks, k)],
         succ  |-> succ,
         pred  |-> [k \in DOMAIN blocks |-> {j \in DOMAIN blocks : k \in succ[j]}]]

-----------------------------------------------------------------------------
(* Simplifying it. *)

(* What is left of a graph when only the blocks in S remain. *)
Restricted(g, S) ==
    [order |-> SelectSeq(g.order, LAMBDA b : b \in S),
     code  |-> [b \in S |-> g.code[b]],
     label |-> [b \in S |-> g.label[b]],
     succ  |-> [b \in S |-> g.succ[b]],
     pred  |-> [b \in S |-> g.pred[b] \cap S]]

(* b is the only block after a, and a the only one before b. *)
Mergeable(g, a, b) ==
    g.succ[a] = {b} /\ b # a /\ b # Entry /\ g.pred[b] = {a}

(* The code of a and b in one block: without a jump from a to b, and without *)
(* the label of b.                                                           *)
Joined(g, a, b) ==
    LET jumps == g.code[a] # <<>> /\ Last(g.code[a]) = Nullary("JUMP", Label(g.label[b]))
    IN  (IF jumps THEN Front(g.code[a]) ELSE g.code[a])
        \o SelectSeq(g.code[b], LAMBDA i : ~(i.op = "LABEL" /\ i.dst.l = g.label[b]))

(* Mutant: the blocks after b still name b as the block before them. *)
Merged_KeepsPredecessors(g, a, b) ==
    Restricted([g EXCEPT !.code[a] = Joined(g, a, b), !.succ[a] = g.succ[b]],
               Blocks(g) \ {b})

(* a takes the code of b and its place in the graph; b disappears. *)
Merged(g, a, b) ==
    Restricted([g EXCEPT !.code[a] = Joined(g, a, b),
                         !.succ[a] = g.succ[b],
                         !.pred    = [s \in Blocks(g) |->
                                         IF s \in g.succ[b] THEN (@[s] \ {b}) \cup {a}
                                                            ELSE @[s]]],
               Blocks(g) \ {b})

(* The pairs that can be merged.                                             *)
MergeablePairs(g) == {p \in Blocks(g) \X Blocks(g) : Mergeable(g, p[1], p[2])}

(* Where the code of block b is among that of the others. *)
PlaceOf(g, b) == CHOOSE n \in DOMAIN g.order : g.order[n] = b

(* The blocks one edge away from those in S. *)
After(g, S) == UNION {g.succ[b] : b \in S}

-----------------------------------------------------------------------------
(* The code of the whole graph, block after block.  A block that has lost    *)
(* its label gets it back if it can be jumped to.                            *)
Flattened(g, b) ==
    IF /\ g.pred[b] # {} /\ b # Entry
       /\ ~\E n \in DOMAIN g.code[b] :
              g.code[b][n].op = "LABEL" /\ g.code[b][n].dst.l = g.label[b]
    THEN <<Ins("LABEL", Label(g.label[b]), NoOperand, NoOperand)>> \o g.code[b]
    ELSE g.code[b]

RebuildInstructions(g) == FoldLeft(LAMBDA code, b : code \o Flattened(g, b), <<>>, g.order)
===============================================================================
