------------------------------ MODULE IROptimizer ------------------------------
(* The optimiser of the intermediate representation (ir_optimizer.cpp).  One *)
(* function of the module after another is split into a graph, simplified in *)
(* rounds of passes until a round changes nothing or the rounds are used up, *)
(* and flattened again.  An action is one pass, one merge of two blocks, or  *)
(* one sweep of the search for unreachable blocks.                           *)
EXTENDS ControlFlowGraph

CONSTANTS
    Modules,        \* the modules that may be optimised: sequences of functions
    MaxOptRounds    \* MAX_OPT_ROUNDS: 8

LOCAL INSTANCE SequencesExt

VARIABLES
    mod,        \* the module
    fn,         \* the function at work
    phase,      \* the pass that is next
    cfg,        \* the graph of that function
    round,      \* round_count_
    changed,    \* round_changed
    reached     \* the blocks eliminate_unreachable() has seen

optimizerVars == <<mod, fn, phase, cfg, round, changed, reached>>

-----------------------------------------------------------------------------
(* Local common subexpressions.  Two instructions compute the same if they   *)
(* have the same operator and operands, in either order if it commutes.      *)
Commutative == {"add", "mul", "eq"}

IsCandidate(i) ==
    /\ IsReg(i.dst)
    /\ i.op = "LOAD_LOCAL" \/ (i.op = "BINARY" /\ i.f # "div")

SameExpr(i, j) ==
    /\ i.op = j.op /\ i.f = j.f
    /\ \/ i.src1 = j.src1 /\ i.src2 = j.src2
       \/ i.f \in Commutative /\ i.src1 = j.src2 /\ i.src2 = j.src1

(* Mutant: a store leaves what was loaded from the slot in the cache. *)
CseStep_StaleLoad(st, i) ==
    LET known == {j \in st.cache : SameExpr(i, j)}
        Out(cache, as) == [cache |-> cache, code |-> Append(st.code, as)]
    IN  IF HasSideEffect(i) THEN Out({}, i)
        ELSE IF ~IsCandidate(i) THEN Out(st.cache, i)
        ELSE IF known = {} THEN Out(st.cache \cup {i}, i)
        ELSE Out(st.cache, Ins("MOVE", i.dst, (CHOOSE j \in known : TRUE).dst, NoOperand))

(* A store invalidates what was loaded from the slot, a call everything; a   *)
(* known expression becomes a copy of the register that has its value.       *)
CseStep(st, i) ==
    LET known == {j \in st.cache : SameExpr(i, j)}
        Out(cache, as) == [cache |-> cache, code |-> Append(st.code, as)]
    IN  IF i.op = "STORE_LOCAL" THEN Out({j \in st.cache : j.src1 # i.dst}, i)
        ELSE IF HasSideEffect(i) THEN Out({}, i)
        ELSE IF ~IsCandidate(i) THEN Out(st.cache, i)
        ELSE IF known = {} THEN Out(st.cache \cup {i}, i)
        ELSE Out(st.cache, Ins("MOVE", i.dst, (CHOOSE j \in known : TRUE).dst, NoOperand))

LocalCse(code) == FoldLeft(CseStep, [cache |-> {}, code |-> <<>>], code).code

-----------------------------------------------------------------------------
(* Copy propagation: copies is the registers known to be copies, and of what.*)
CopyStep(st, i) ==
    LET Of(o) == IF IsReg(o) /\ o.n \in DOMAIN st.copies THEN st.copies[o.n] ELSE o
        used  == [i EXCEPT !.src1 = Of(@), !.src2 = Of(@),
                           !.args = [n \in DOMAIN @ |-> Of(@[n])]]
    IN  [code   |-> Append(st.code, used),
         copies |-> IF /\ used.op = "MOVE" /\ IsReg(used.dst)
                       /\ IsReg(used.src1) \/ IsConst(used.src1)
                    THEN [n \in DOMAIN st.copies \cup {used.dst.n} |->
                             IF n = used.dst.n THEN used.src1 ELSE st.copies[n]]
                    ELSE st.copies]

CopyPropagation(code) ==
    FoldLeft(CopyStep, [copies |-> [n \in {} |-> NoOperand], code |-> <<>>], code).code

-----------------------------------------------------------------------------
(* Dead code: a register that no block reads.                                *)
ReadsOf(code) == UNION {Reads(code[n]) : n \in DOMAIN code}

Removable(i) == IsReg(i.dst) /\ ~HasSideEffect(i) /\ ~MayTrap(i)

(* Mutant: only the reads of the block itself count. *)
WithoutDeadCode_PerBlock(g) ==
    [g EXCEPT !.code = [b \in Blocks(g) |->
        SelectSeq(@[b], LAMBDA i : Removable(i) => i.dst.n \in ReadsOf(g.code[b]))]]

WithoutDeadCode(g) ==
    LET read == UNION {ReadsOf(g.code[b]) : b \in Blocks(g)}
    IN  [g EXCEPT !.code = [b \in Blocks(g) |->
            SelectSeq(@[b], LAMBDA i : Removable(i) => i.dst.n \in read)]]

(* A branch on a literal becomes a jump or disappears; the edges stay.       *)
Folded(code) ==
    IF code = <<>> \/ Last(code).op \notin Branches \/ Last(code).src1.k # "bool"
    THEN code
    ELSE IF (Last(code).src1.n # 0) = (Last(code).op = "BRANCH_IF_TRUE")
    THEN Append(Front(code), Nullary("JUMP", Last(code).src2))
    ELSE Front(code)

InEachBlock(Pass(_), g) == [g EXCEPT !.code = [b \in Blocks(g) |-> Pass(@[b])]]

-----------------------------------------------------------------------------
NoGraph == BuildFromFunction(<<>>)

OptimizerInit ==
    /\ mod \in Modules
    /\ fn = 1
    /\ phase = "start"
    /\ cfg = NoGraph
    /\ round = 0
    /\ changed = FALSE
    /\ reached = {}

Start ==
    /\ phase = "start" /\ fn \in DOMAIN mod
    /\ cfg' = BuildFromFunction(mod[fn].code)
    /\ phase' = "cse"
    /\ round' = 1 /\ changed' = FALSE
    /\ UNCHANGED <<mod, fn, reached>>

(* A pass turns the graph into g; the round has changed something if it is   *)
(* another one.                                                              *)
Pass(now, g, next) ==
    /\ phase = now /\ phase' = next
    /\ cfg' = g
    /\ changed' = (changed \/ g # cfg)
    /\ UNCHANGED <<mod, fn, round>>

Cse   == Pass("cse", InEachBlock(LocalCse, cfg), "copy") /\ UNCHANGED reached
Copy  == Pass("copy", InEachBlock(CopyPropagation, cfg), "dce") /\ UNCHANGED reached
Dce   == Pass("dce", WithoutDeadCode(cfg), "fold") /\ UNCHANGED reached
Fold  == Pass("fold", InEachBlock(Folded, cfg), "merge") /\ UNCHANGED reached

(* The first block in the order of the code that can take its successor.     *)
Merge ==
    /\ phase = "merge"
    /\ \E p \in MergeablePairs(cfg) :
          /\ \A q \in MergeablePairs(cfg) : PlaceOf(cfg, p[1]) <= PlaceOf(cfg, q[1])
          /\ Pass("merge", Merged(cfg, p[1], p[2]), "merge")
    /\ UNCHANGED reached

Merges ==
    /\ phase = "merge" /\ MergeablePairs(cfg) = {}
    /\ phase' = "reach"
    /\ reached' = {Entry} \cap Blocks(cfg)
    /\ UNCHANGED <<mod, fn, cfg, round, changed>>

(* A sweep of the search: the blocks after those that were seen.             *)
Visit ==
    /\ phase = "reach" /\ ~(After(cfg, reached) \subseteq reached)
    /\ reached' = reached \cup After(cfg, reached)
    /\ UNCHANGED <<mod, fn, phase, cfg, round, changed>>

Prune ==
    /\ phase = "reach" /\ After(cfg, reached) \subseteq reached
    /\ Pass("reach", Restricted(cfg, reached), "again")
    /\ UNCHANGED reached

Again ==
    /\ phase = "again" /\ changed /\ round < MaxOptRounds
    /\ phase' = "cse"
    /\ round' = round + 1 /\ changed' = FALSE
    /\ UNCHANGED <<mod, fn, cfg, reached>>

Enough ==
    /\ phase = "again" /\ ~(changed /\ round < MaxOptRounds)
    /\ phase' = "rebuild"
    /\ UNCHANGED <<mod, fn, cfg, round, changed, reached>>

Rebuild ==
    /\ phase = "rebuild"
    /\ mod' = [mod EXCEPT ![fn].code = RebuildInstructions(cfg)]
    /\ fn' = fn + 1
    /\ phase' = "start"
    /\ cfg' = NoGraph
    /\ UNCHANGED <<round, changed, reached>>

OptimizerNext ==
    \/ Start \/ Cse \/ Copy \/ Dce \/ Fold \/ Merge \/ Merges
    \/ Visit \/ Prune \/ Again \/ Enough \/ Rebuild

OptimizerSpec == OptimizerInit /\ [][OptimizerNext]_optimizerVars

-----------------------------------------------------------------------------
(* The graph keeps every edge twice, and merge_blocks() and                  *)
(* eliminate_unreachable() change both lists by hand: a block that another   *)
(* names as its successor is there and names it as its predecessor.  Which   *)
(* blocks may be merged, and which labels are written, is read from the      *)
(* second list, where control really goes is in the first.                   *)
EdgesPaired ==
    \A a \in Blocks(cfg) :
        /\ cfg.succ[a] \subseteq Blocks(cfg)
        /\ \A b \in Blocks(cfg) : b \in cfg.succ[a] <=> a \in cfg.pred[b]
===============================================================================
