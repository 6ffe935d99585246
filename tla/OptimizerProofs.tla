--------------------------- MODULE OptimizerProofs ---------------------------
(* What is proved of the two optimisers: the passes over the intermediate    *)
(* representation (IROptimizer), and the loop that runs rewritten bytecode   *)
(* (OptimizedVM) with the top of its stack in registers (TosCache).          *)
EXTENDS OptimizedVM, IROptimizer, SequenceTheorems, TLAPS

-----------------------------------------------------------------------------
(* The graph of the function at work has every edge in both lists, whatever  *)
(* the code of the modules and however many rounds there are: merge_blocks() *)
(* and eliminate_unreachable() keep the lists in step by hand.               *)

(* EdgesPaired of any graph, with what makes it inductive: the lists are     *)
(* kept for the blocks that are left and for no others.                      *)
Paired(g) ==
    /\ DOMAIN g = {"order", "code", "label", "succ", "pred"}
    /\ DOMAIN g.succ = Blocks(g)
    /\ DOMAIN g.pred = Blocks(g)
    /\ \A a \in Blocks(g) : g.succ[a] \subseteq Blocks(g)
    /\ \A a, b \in Blocks(g) : b \in g.succ[a] <=> a \in g.pred[b]

(* The search has seen only blocks of the graph.                             *)
Searching == phase = "reach" => reached \subseteq Blocks(cfg)

PairedInv == Paired(cfg) /\ Searching

(* A graph as it is built has every edge in both lists.                      *)
LEMMA BuiltPaired ==
    ASSUME NEW body
    PROVE  Paired(BuildFromFunction(body))
<1> DEFINE blocks == Split(body)
           succ   == [k \in DOMAIN blocks |-> EdgesOf(blocks, k)]
           pred   == [k \in DOMAIN blocks |-> {j \in DOMAIN blocks : k \in succ[j]}]
           g      == BuildFromFunction(body)
<1>1. g = [order |-> [k \in DOMAIN blocks |-> k],
           code  |-> [k \in DOMAIN blocks |-> blocks[k]],
           label |-> [k \in DOMAIN blocks |-> LabelOf(blocks, k)],
           succ  |-> succ,
           pred  |-> pred]
  BY DEF BuildFromFunction
<1>2. \A k \in DOMAIN blocks : succ[k] \subseteq DOMAIN blocks
  BY DEF EdgesOf
<1>3. \A a, b \in DOMAIN blocks : b \in succ[a] <=> a \in pred[b]
  OBVIOUS
<1> HIDE DEF succ, pred, blocks, g
<1>4. DOMAIN succ = DOMAIN blocks /\ DOMAIN pred = DOMAIN blocks
  BY DEF succ, pred
<1>5. /\ DOMAIN g = {"order", "code", "label", "succ", "pred"}
      /\ g.succ = succ /\ g.pred = pred /\ Blocks(g) = DOMAIN blocks
  BY <1>1 DEF Blocks
<1> QED
  BY <1>2, <1>3, <1>4, <1>5 DEF Paired, g

(* A pass that only rewrites the code of the blocks keeps the edges.         *)
LEMMA RecodedPaired ==
    ASSUME NEW g, Paired(g), NEW c, DOMAIN c = Blocks(g)
    PROVE  Paired([g EXCEPT !.code = c]) /\ Blocks([g EXCEPT !.code = c]) = Blocks(g)
  BY DEF Paired, Blocks

(* Merging a block with its only successor, when it is the only block before *)
(* that one, keeps the lists in step.                                        *)
LEMMA MergedPaired ==
    ASSUME NEW g, Paired(g), NEW a \in Blocks(g), NEW b \in Blocks(g), Mergeable(g, a, b)
    PROVE  Paired(Merged(g, a, b))
<1> DEFINE left    == Blocks(g) \ {b}
           succ == [x \in left |-> IF x = a THEN g.succ[b] ELSE g.succ[x]]
           pred == [y \in left |-> (IF y \in g.succ[b] THEN (g.pred[y] \ {b}) \cup {a}
                                                    ELSE g.pred[y]) \cap left]
           m    == Merged(g, a, b)
<1>1. /\ DOMAIN m = {"order", "code", "label", "succ", "pred"}
      /\ m.succ = succ /\ m.pred = pred /\ Blocks(m) = left
  BY DEF Merged, Restricted, Paired, Blocks
<1>2. g.succ[a] = {b} /\ g.pred[b] = {a} /\ a # b
  BY DEF Mergeable
<1>3. \A x \in left : succ[x] \subseteq left
  <2> SUFFICES ASSUME NEW x \in left, NEW y \in succ[x] PROVE y \in Blocks(g) /\ y # b
    OBVIOUS
  <2>1. y \in Blocks(g)
    BY DEF Paired
  <2>2. CASE x = a
    BY <1>2, <2>2 DEF Paired
  <2>3. CASE x # a
    BY <1>2, <2>3 DEF Paired
  <2> QED
    BY <2>1, <2>2, <2>3
<1>4. \A x, y \in left : y \in succ[x] <=> x \in pred[y]
  <2> SUFFICES ASSUME NEW x \in left, NEW y \in left PROVE y \in succ[x] <=> x \in pred[y]
    OBVIOUS
  <2>1. CASE x = a
    BY <1>2, <2>1 DEF Paired
  <2>2. CASE x # a
    BY <1>2, <2>2 DEF Paired
  <2> QED
    BY <2>1, <2>2
<1> HIDE DEF succ, pred, m
<1>5. DOMAIN succ = left /\ DOMAIN pred = left
  BY DEF succ, pred
<1>6. Paired(m)
  BY <1>1, <1>3, <1>4, <1>5 DEF Paired
<1> QED
  BY <1>6 DEF m

(* So does leaving only blocks whose successors are left.                    *)
LEMMA RestrictedPaired ==
    ASSUME NEW g, Paired(g), NEW left, left \subseteq Blocks(g), After(g, left) \subseteq left
    PROVE  Paired(Restricted(g, left))
<1> DEFINE r == Restricted(g, left)
<1>1. /\ DOMAIN r = {"order", "code", "label", "succ", "pred"}
      /\ r.succ = [b \in left |-> g.succ[b]]
      /\ r.pred = [b \in left |-> g.pred[b] \cap left]
      /\ Blocks(r) = left
  BY DEF Restricted, Blocks
<1>2. \A a \in left : g.succ[a] \subseteq left
  BY DEF After
<1> QED
  BY <1>1, <1>2 DEF Paired

-----------------------------------------------------------------------------
LEMMA InitPaired == OptimizerInit => PairedInv
<1> SUFFICES ASSUME OptimizerInit PROVE PairedInv
  OBVIOUS
<1>1. Paired(cfg)
  BY BuiltPaired DEF OptimizerInit, NoGraph
<1> QED
  BY <1>1 DEF OptimizerInit, PairedInv, Searching

LEMMA NextPaired == PairedInv /\ [OptimizerNext]_optimizerVars => PairedInv'
<1> SUFFICES ASSUME PairedInv, [OptimizerNext]_optimizerVars PROVE PairedInv'
  OBVIOUS
<1> USE DEF Blocks
<1>1. CASE Start
  <2>1. Paired(cfg')
    BY <1>1, BuiltPaired DEF Start
  <2> QED
    BY <1>1, <2>1 DEF Start, PairedInv, Searching, Paired
<1>2. ASSUME NEW next, NEW c, DOMAIN c = Blocks(cfg), next # "reach",
             cfg' = [cfg EXCEPT !.code = c], phase' = next
      PROVE  PairedInv'
  <2>1. Paired(cfg')
    BY <1>2, RecodedPaired DEF PairedInv
  <2> QED
    BY <1>2, <2>1 DEF PairedInv, Searching, Paired
<1>3. CASE Cse
  <2>1. /\ cfg' = [cfg EXCEPT !.code = [b \in Blocks(cfg) |-> LocalCse(cfg.code[b])]]
        /\ phase' = "copy"
    BY <1>3 DEF Cse, Pass, InEachBlock
  <2> QED
    BY <1>2, <2>1
<1>4. CASE Copy
  <2>1. /\ cfg' = [cfg EXCEPT !.code = [b \in Blocks(cfg) |-> CopyPropagation(cfg.code[b])]]
        /\ phase' = "dce"
    BY <1>4 DEF Copy, Pass, InEachBlock
  <2> QED
    BY <1>2, <2>1
<1>5. CASE Dce
  <2> DEFINE read == UNION {ReadsOf(cfg.code[b]) : b \in Blocks(cfg)}
             c    == [b \in Blocks(cfg) |->
                         SelectSeq(cfg.code[b], LAMBDA i : Removable(i) => i.dst.n \in read)]
  <2>1. cfg' = [cfg EXCEPT !.code = c] /\ phase' = "fold"
    BY <1>5 DEF Dce, Pass, WithoutDeadCode
  <2>2. DOMAIN c = Blocks(cfg)
    OBVIOUS
  <2> HIDE DEF c
  <2> QED
    BY <1>2, <2>1, <2>2
<1>6. CASE Fold
  <2>1. /\ cfg' = [cfg EXCEPT !.code = [b \in Blocks(cfg) |-> Folded(cfg.code[b])]]
        /\ phase' = "merge"
    BY <1>6 DEF Fold, Pass, InEachBlock
  <2> QED
    BY <1>2, <2>1
<1>7. CASE Merge
  <2>1. PICK p \in MergeablePairs(cfg) : Pass("merge", Merged(cfg, p[1], p[2]), "merge")
    BY <1>7 DEF Merge
  <2>2. p[1] \in Blocks(cfg) /\ p[2] \in Blocks(cfg) /\ Mergeable(cfg, p[1], p[2])
    BY DEF MergeablePairs
  <2>3. Paired(cfg')
    BY <2>1, <2>2, MergedPaired DEF PairedInv, Pass
  <2> QED
    BY <2>1, <2>3 DEF Pass, PairedInv, Searching, Paired
<1>8. CASE Merges
  BY <1>8 DEF Merges, PairedInv, Searching, Paired
<1>9. CASE Visit
  <2>1. After(cfg, reached) \subseteq Blocks(cfg)
    BY <1>9 DEF Visit, After, PairedInv, Searching, Paired
  <2> QED
    BY <1>9, <2>1 DEF Visit, PairedInv, Searching, Paired
<1>10. CASE Prune
  <2>1. Paired(cfg')
    BY <1>10, RestrictedPaired DEF Prune, Pass, PairedInv, Searching
  <2> QED
    BY <1>10, <2>1 DEF Prune, Pass, PairedInv, Searching, Paired
<1>11. CASE Again
  BY <1>11 DEF Again, PairedInv, Searching, Paired
<1>12. CASE Enough
  BY <1>12 DEF Enough, PairedInv, Searching, Paired
<1>13. CASE Rebuild
  <2>1. Paired(cfg')
    BY <1>13, BuiltPaired DEF Rebuild, NoGraph
  <2> QED
    BY <1>13, <2>1 DEF Rebuild, PairedInv, Searching, Paired
<1>14. CASE UNCHANGED optimizerVars
  BY <1>14 DEF optimizerVars, PairedInv, Searching, Paired
<1> QED
  BY <1>1, <1>3, <1>4, <1>5, <1>6, <1>7, <1>8, <1>9, <1>10, <1>11, <1>12, <1>13, <1>14
  DEF OptimizerNext

(* Optimising any module, whatever its code: the blocks one edge away from a *)
(* block are there, and each names the block among those before it.          *)
THEOREM EdgesArePaired == OptimizerSpec => []EdgesPaired
<1>1. PairedInv => EdgesPaired
  BY DEF PairedInv, Paired, EdgesPaired
<1> QED
  BY <1>1, InitPaired, NextPaired, PTL DEF OptimizerSpec

-----------------------------------------------------------------------------
(* Whatever part of the operand stack is in registers, an operation of       *)
(* TosCache does to the stack it stands for (Contents) what the instruction  *)
(* of the portable loops does to a stack in memory.                          *)

(* Two sequences joined: the facts the provers need about mem \o regs.        *)
LEMMA JoinedSeqs ==
    ASSUME NEW V, NEW s \in Seq(V), NEW t \in Seq(V)
    PROVE  /\ Len(s) \in Nat /\ Len(t) \in Nat
           /\ s \o t \in Seq(V) /\ Len(s \o t) = Len(s) + Len(t)
           /\ \A i \in 1 .. Len(s) : (s \o t)[i] = s[i]
           /\ \A i \in Len(s) + 1 .. Len(s) + Len(t) : (s \o t)[i] = t[i - Len(s)]
<1>1. Len(s) \in Nat /\ Len(t) \in Nat
  BY LenProperties
<1> QED
  BY <1>1, ConcatProperties

(* A pair of sequences is a cache when the second is short enough. *)
LEMMA IsPair ==
    ASSUME NEW V, NEW s \in Seq(V), NEW t \in Seq(V), Len(t) <= 2
    PROVE  /\ IsCache(<<s, t>>, V)
           /\ Contents(<<s, t>>) = s \o t
BY DEF IsCache, Contents

(* A sequence extended on the right. *)
LEMMA ConcatAppend ==
    ASSUME NEW V, NEW s \in Seq(V), NEW t \in Seq(V), NEW v \in V
    PROVE  s \o Append(t, v) = Append(s \o t, v)
<1>1. <<v>> \in Seq(V)
  OBVIOUS
<1>2. Append(t, v) = t \o <<v>> /\ s \o t \in Seq(V)
  BY AppendIsConcat, ConcatProperties
<1>3. Append(s \o t, v) = (s \o t) \o <<v>>
  BY <1>2, AppendIsConcat
<1> QED
  BY <1>1, <1>2, <1>3, ConcatAssociative

(* A sequence of two values. *)
LEMMA TwoJoined ==
    ASSUME NEW V, NEW a \in V, NEW b \in V
    PROVE  <<a, b>> = <<a>> \o <<b>>
<1>1. <<a>> \in Seq(V) /\ <<b>> \in Seq(V) /\ <<a, b>> \in Seq(V)
  OBVIOUS
<1>2. Append(<<a>>, b) = <<a>> \o <<b>>
  BY <1>1, AppendIsConcat
<1> DEFINE p == Append(<<a>>, b)
           q == <<a, b>>
<1>3. p \in Seq(V) /\ Len(p) = 2 /\ p[1] = a /\ p[2] = b
  BY <1>1, AppendProperties
<1>4. q \in Seq(V) /\ Len(q) = 2 /\ q[1] = a /\ q[2] = b
  OBVIOUS
<1>5. \A i \in 1 .. Len(p) : p[i] = q[i]
  <2>1. \A i \in 1 .. Len(p) : i = 1 \/ i = 2
    BY <1>3
  <2> QED
    BY <2>1, <1>3, <1>4
<1> HIDE DEF p, q
<1>6. p = q
  BY <1>3, <1>4, <1>5, SeqEqual
<1> QED
  BY <1>2, <1>6 DEF p, q

(* A prefix of a sequence. *)
LEMMA Prefix ==
    ASSUME NEW V, NEW s \in Seq(V), NEW n \in 0 .. Len(s)
    PROVE  /\ SubSeq(s, 1, n) \in Seq(V)
           /\ Len(SubSeq(s, 1, n)) = n
           /\ \A i \in 1 .. n : SubSeq(s, 1, n)[i] = s[i]
<1>1. Len(s) \in Nat /\ \A i \in 1 .. n : s[i] \in V
  BY LenProperties, ElementOfSeq
<1> QED
  BY <1>1, SubSeqProperties

(* A prefix of two sequences joined. *)
LEMMA PrefixOfConcat ==
    ASSUME NEW V, NEW s \in Seq(V), NEW t \in Seq(V),
           NEW n \in 0 .. Len(s) + Len(t)
    PROVE  /\ n <= Len(s) => SubSeq(s \o t, 1, n) = SubSeq(s, 1, n)
           /\ n >= Len(s) => SubSeq(s \o t, 1, n) = s \o SubSeq(t, 1, n - Len(s))
<1>0. Len(s) \in Nat /\ Len(t) \in Nat
  BY LenProperties
<1>1. /\ s \o t \in Seq(V) /\ Len(s \o t) = Len(s) + Len(t)
      /\ \A i \in 1 .. Len(s) + Len(t) :
            (s \o t)[i] = IF i <= Len(s) THEN s[i] ELSE t[i - Len(s)]
  BY ConcatProperties
<1> DEFINE p == SubSeq(s \o t, 1, n)
<1>2. \A i \in 1 .. n : (s \o t)[i] \in V
  BY <1>0, <1>1, ElementOfSeq
<1>3. p \in Seq(V) /\ Len(p) = n /\ \A i \in 1 .. n : p[i] = (s \o t)[i]
  BY <1>0, <1>2, SubSeqProperties
<1>4. ASSUME n <= Len(s) PROVE p = SubSeq(s, 1, n)
  <2>1. \A i \in 1 .. n : s[i] \in V
    BY <1>0, <1>4, ElementOfSeq
  <2>2. /\ SubSeq(s, 1, n) \in Seq(V) /\ Len(SubSeq(s, 1, n)) = n
        /\ \A i \in 1 .. n : SubSeq(s, 1, n)[i] = s[i]
    BY <1>0, <2>1, SubSeqProperties
  <2>3. \A i \in 1 .. n : p[i] = SubSeq(s, 1, n)[i]
    BY <1>0, <1>1, <1>3, <1>4, <2>2
  <2> HIDE DEF p
  <2> QED
    BY <1>3, <2>2, <2>3, SeqEqual
<1>5. ASSUME n >= Len(s) PROVE p = s \o SubSeq(t, 1, n - Len(s))
  <2> DEFINE m == n - Len(s)
             u == SubSeq(t, 1, m)
  <2>0. m \in 0 .. Len(t)
    BY <1>0, <1>5
  <2>1. \A i \in 1 .. m : t[i] \in V
    BY <1>0, <2>0, ElementOfSeq
  <2>2. u \in Seq(V) /\ Len(u) = m /\ \A i \in 1 .. m : u[i] = t[i]
    BY <1>0, <2>0, <2>1, SubSeqProperties
  <2> HIDE DEF u
  <2>3. /\ s \o u \in Seq(V) /\ Len(s \o u) = Len(s) + Len(u)
        /\ \A i \in 1 .. Len(s) + Len(u) :
              (s \o u)[i] = IF i <= Len(s) THEN s[i] ELSE u[i - Len(s)]
    BY <2>2, ConcatProperties
  <2>4. \A i \in 1 .. n : p[i] = (s \o u)[i]
    BY <1>0, <1>1, <1>3, <1>5, <2>2, <2>3
  <2> HIDE DEF p
  <2>5. p = s \o u
    <3>1. Len(p) = Len(s \o u)
      BY <1>0, <1>3, <1>5, <2>2, <2>3
    <3>2. \A i \in 1 .. Len(p) : p[i] = (s \o u)[i]
      BY <1>3, <2>4
    <3> DEFINE r == s \o u
    <3>3. r \in Seq(V) /\ Len(p) = Len(r) /\ \A i \in 1 .. Len(p) : p[i] = r[i]
      BY <2>3, <3>1, <3>2
    <3> HIDE DEF r
    <3>4. p = r
      BY <1>3, <3>3, SeqEqual
    <3> QED
      BY <3>4 DEF r
  <2> QED
    BY <2>5 DEF u
<1> QED
  BY <1>4, <1>5

(* A value pushed comes on top; the registers are never more than two. *)
THEOREM PushIsPush ==
    ASSUME NEW V, NEW mem \in Seq(V), NEW regs \in Seq(V), Len(regs) <= 2,
           NEW v \in V
    PROVE  /\ IsCache(PUSH_TOS(<<mem, regs>>, v), V)
           /\ Contents(PUSH_TOS(<<mem, regs>>, v)) = Append(mem \o regs, v)
<1>1. Len(regs) \in Nat
  BY LenProperties
<1>2. CASE Len(regs) < 2
  <2>1. PUSH_TOS(<<mem, regs>>, v) = <<mem, Append(regs, v)>>
    BY <1>2 DEF PUSH_TOS
  <2>2. Append(regs, v) \in Seq(V) /\ Len(Append(regs, v)) <= 2
    BY <1>1, <1>2, AppendProperties
  <2> QED
    <3>1. /\ IsCache(<<mem, Append(regs, v)>>, V)
          /\ Contents(<<mem, Append(regs, v)>>) = mem \o Append(regs, v)
      BY <2>2, IsPair
    <3>2. mem \o Append(regs, v) = Append(mem \o regs, v)
      BY ConcatAppend
    <3> QED
      BY <2>1, <3>1, <3>2
<1>3. CASE Len(regs) = 2
  <2>1. regs[1] \in V /\ regs[2] \in V
    <3>1. 1 \in 1 .. Len(regs) /\ 2 \in 1 .. Len(regs)
      BY <1>3
    <3> QED
      BY <3>1, ElementOfSeq
  <2> DEFINE low == regs[1]  high == regs[2]
  <2>2. regs = <<low, high>>
    BY <1>3, <2>1, SeqEqual
  <2>3. PUSH_TOS(<<mem, regs>>, v) = <<Append(mem, low), <<high, v>>>>
    BY <1>3 DEF PUSH_TOS
  <2>4. low \in V /\ high \in V
    BY <2>1
  <2> HIDE DEF low, high
  <2>5. Append(mem, low) \in Seq(V)
    BY <2>4, AppendProperties
  <2>6. <<high, v>> \in Seq(V) /\ Len(<<high, v>>) <= 2
    BY <2>4
  <2>7. Append(mem, low) \o <<high, v>> = Append(mem \o regs, v)
    <3>1. <<low>> \in Seq(V) /\ <<high>> \in Seq(V) /\ <<v>> \in Seq(V)
      BY <2>4
    <3>2. <<high, v>> = <<high>> \o <<v>> /\ regs = <<low>> \o <<high>>
      BY <2>2, <2>4, TwoJoined
    <3>3. Append(mem, low) = mem \o <<low>> /\ mem \o <<low>> \in Seq(V)
      BY <2>4, <3>1, AppendIsConcat, ConcatProperties
    <3>4. (mem \o <<low>>) \o (<<high>> \o <<v>>)
            = ((mem \o <<low>>) \o <<high>>) \o <<v>>
      BY <3>1, <3>3, ConcatAssociative
    <3>5. (mem \o <<low>>) \o <<high>> = mem \o regs
      BY <3>1, <3>2, ConcatAssociative
    <3>6. Append(mem \o regs, v) = (mem \o regs) \o <<v>>
      BY ConcatProperties, AppendIsConcat
    <3> QED
      BY <3>2, <3>3, <3>4, <3>5, <3>6
  <2> QED
    BY <2>3, <2>5, <2>6, <2>7, IsPair
<1>4. Len(regs) < 2 \/ Len(regs) = 2
  <2>1. PICK n \in Nat : n = Len(regs)
    BY <1>1
  <2>2. n <= 2
    BY <2>1
  <2>3. n < 2 \/ n = 2
    BY <2>2
  <2> QED
    BY <2>1, <2>3
<1> QED
  BY <1>2, <1>3, <1>4

(* The topmost value, wherever it is. *)
THEOREM PeekIsTop ==
    ASSUME NEW V, NEW mem \in Seq(V), NEW regs \in Seq(V),
           mem \o regs # <<>>
    PROVE  PEEK_TOS(<<mem, regs>>) = (mem \o regs)[Len(mem \o regs)]
<1>1. mem \o regs \in Seq(V)
  BY ConcatProperties
<1>2. Len(mem \o regs) \in Nat \ {0}
  BY <1>1, EmptySeq
<1>3. PEEK_TOS(<<mem, regs>>) =
         IF Len(regs) >= 1 THEN regs[Len(regs)] ELSE mem[Len(mem)]
  BY DEF PEEK_TOS
<1> QED
  BY <1>2, <1>3, JoinedSeqs

(* One value less. *)
THEOREM DiscardIsPop ==
    ASSUME NEW V, NEW mem \in Seq(V), NEW regs \in Seq(V), Len(regs) <= 2,
           mem \o regs # <<>>
    PROVE  /\ IsCache(DISCARD_TOS(<<mem, regs>>), V)
           /\ Contents(DISCARD_TOS(<<mem, regs>>)) =
                 SubSeq(mem \o regs, 1, Len(mem \o regs) - 1)
<1>0. Len(regs) \in Nat /\ Len(mem) \in Nat /\ Len(mem \o regs) = Len(mem) + Len(regs)
  BY JoinedSeqs
<1>1. Len(mem) + Len(regs) > 0
  BY <1>0, EmptySeq, ConcatProperties
<1>2. CASE Len(regs) >= 1
  <2>1. DISCARD_TOS(<<mem, regs>>) = <<mem, SubSeq(regs, 1, Len(regs) - 1)>>
    BY <1>2 DEF DISCARD_TOS
  <2>2. /\ SubSeq(regs, 1, Len(regs) - 1) \in Seq(V)
        /\ Len(SubSeq(regs, 1, Len(regs) - 1)) <= 2
    BY <1>0, <1>2, Prefix
  <2> DEFINE n == Len(mem) + Len(regs) - 1
  <2>3. n \in 0 .. Len(mem) + Len(regs) /\ n >= Len(mem) /\ n - Len(mem) = Len(regs) - 1
    BY <1>0, <1>2
  <2> HIDE DEF n
  <2>4. SubSeq(mem \o regs, 1, n) = mem \o SubSeq(regs, 1, Len(regs) - 1)
    BY <2>3, PrefixOfConcat
  <2>5. n = Len(mem \o regs) - 1
    BY <1>0 DEF n
  <2>6. IsCache(<<mem, SubSeq(regs, 1, Len(regs) - 1)>>, V)
        /\ Contents(<<mem, SubSeq(regs, 1, Len(regs) - 1)>>)
             = mem \o SubSeq(regs, 1, Len(regs) - 1)
    BY <2>2, IsPair
  <2> QED
    BY <2>1, <2>4, <2>5, <2>6
<1>3. CASE Len(regs) = 0
  <2> DEFINE n == Len(mem) - 1
  <2>1. DISCARD_TOS(<<mem, regs>>) = <<SubSeq(mem, 1, n), regs>>
    BY <1>3 DEF DISCARD_TOS
  <2>2. n \in 0 .. Len(mem) /\ n = Len(mem \o regs) - 1
    BY <1>0, <1>1, <1>3
  <2> HIDE DEF n
  <2>3. SubSeq(mem, 1, n) \in Seq(V)
    BY <2>2, Prefix
  <2>4. SubSeq(mem \o regs, 1, n) = SubSeq(mem, 1, n)
    BY <1>0, <1>3, <2>2, PrefixOfConcat
  <2>5. SubSeq(mem, 1, n) \o regs = SubSeq(mem, 1, n)
    BY <1>3, <2>3, EmptySeq, ConcatEmptySeq
  <2> QED
    BY <1>3, <2>1, <2>2, <2>3, <2>4, <2>5, IsPair
<1>4. Len(regs) >= 1 \/ Len(regs) = 0
  BY <1>0
<1> QED
  BY <1>2, <1>3, <1>4

(* The two operands of a binary instruction are the two topmost values. *)
THEOREM OperandsAreTopTwo ==
    ASSUME NEW V, NEW mem \in Seq(V), NEW regs \in Seq(V), Len(regs) <= 2,
           Len(mem \o regs) >= 2
    PROVE  LET l == Len(mem \o regs) IN
              /\ TopTwo(<<mem, regs>>)[1] = (mem \o regs)[l - 1]
              /\ TopTwo(<<mem, regs>>)[2] = (mem \o regs)[l]
<1>0. /\ Len(regs) \in Nat /\ Len(mem) \in Nat
      /\ Len(mem \o regs) = Len(mem) + Len(regs)
  BY JoinedSeqs
<1>1. /\ \A i \in 1 .. Len(mem) : (mem \o regs)[i] = mem[i]
      /\ \A i \in Len(mem) + 1 .. Len(mem) + Len(regs) :
            (mem \o regs)[i] = regs[i - Len(mem)]
  BY JoinedSeqs
<1>2. CASE Len(regs) = 2
  <2>1. TopTwo(<<mem, regs>>) = regs
    BY <1>2 DEF TopTwo
  <2> QED
    BY <1>0, <1>1, <1>2, <2>1
<1>3. CASE Len(regs) = 1
  <2>1. TopTwo(<<mem, regs>>) = <<mem[Len(mem)], regs[1]>>
    <3>1. Len(regs) # 2
      BY <1>3
    <3> QED
      BY <1>3, <3>1 DEF TopTwo
  <2> QED
    BY <1>0, <1>1, <1>3, <2>1
<1>4. CASE Len(regs) = 0
  <2>1. TopTwo(<<mem, regs>>) = <<mem[Len(mem) - 1], mem[Len(mem)]>>
    <3>1. Len(regs) # 2 /\ Len(regs) # 1
      BY <1>4
    <3> QED
      BY <3>1 DEF TopTwo
  <2> QED
    BY <1>0, <1>1, <1>4, <2>1
<1>5. Len(regs) = 2 \/ Len(regs) = 1 \/ Len(regs) = 0
  <2> DEFINE lr == Len(regs)
  <2>1. lr \in Nat /\ lr <= 2
    BY <1>0
  <2> HIDE DEF lr
  <2>2. lr = 2 \/ lr = 1 \/ lr = 0
    BY <2>1
  <2> QED
    BY <2>2 DEF lr
<1> QED
  BY <1>2, <1>3, <1>4, <1>5

(* A call takes its n arguments off the stack, in whichever of the two       *)
(* places they are, and leaves no value in a register.                       *)
THEOREM ArgumentsLeaveTheStack ==
    ASSUME NEW V, NEW mem \in Seq(V), NEW regs \in Seq(V), Len(regs) <= 2,
           NEW n \in 0 .. Len(mem \o regs)
    PROVE  /\ IsCache(TAKE_ARGS(<<mem, regs>>, n), V)
           /\ TAKE_ARGS(<<mem, regs>>, n)[2] = <<>>
           /\ Contents(TAKE_ARGS(<<mem, regs>>, n)) =
                 SubSeq(mem \o regs, 1, Len(mem \o regs) - n)
           /\ \A k \in 1 .. n :
                 Arguments(<<mem, regs>>, n)[k] =
                    (mem \o regs)[Len(mem \o regs) - n + k]
<1> DEFINE lm == Len(mem)
           lr == Len(regs)
<1>0. lr \in Nat /\ lm \in Nat /\ Len(mem \o regs) = lm + lr /\ n \in 0 .. lm + lr
  BY JoinedSeqs
<1>1. /\ \A i \in 1 .. lm : (mem \o regs)[i] = mem[i]
      /\ \A i \in lm + 1 .. lm + lr : (mem \o regs)[i] = regs[i - lm]
  BY JoinedSeqs
<1>2. ASSUME NEW left \in Seq(V), TAKE_ARGS(<<mem, regs>>, n) = <<left, <<>>>>
      PROVE  /\ IsCache(TAKE_ARGS(<<mem, regs>>, n), V)
             /\ TAKE_ARGS(<<mem, regs>>, n)[2] = <<>>
             /\ Contents(TAKE_ARGS(<<mem, regs>>, n)) = left
  <2> DEFINE none == <<>>
  <2>1. none \in Seq(V) /\ Len(none) = 0 /\ left \o none = left
    BY EmptySeq, ConcatEmptySeq
  <2> HIDE DEF none
  <2>2. Len(none) <= 2
    BY <2>1
  <2>3. IsCache(<<left, none>>, V) /\ Contents(<<left, none>>) = left \o none
    BY <2>1, <2>2, IsPair
  <2>4. TAKE_ARGS(<<mem, regs>>, n) = <<left, none>>
    BY <1>2 DEF none
  <2>5. TAKE_ARGS(<<mem, regs>>, n)[2] = <<>>
    BY <1>2
  <2> QED
    BY <2>1, <2>3, <2>4, <2>5
<1>3. ASSUME n >= lr
      PROVE  /\ IsCache(TAKE_ARGS(<<mem, regs>>, n), V)
             /\ TAKE_ARGS(<<mem, regs>>, n)[2] = <<>>
             /\ Contents(TAKE_ARGS(<<mem, regs>>, n)) =
                   SubSeq(mem \o regs, 1, Len(mem \o regs) - n)
  <2> DEFINE m == lm - (n - lr)
  <2>1. TAKE_ARGS(<<mem, regs>>, n) = <<SubSeq(mem, 1, m), <<>>>>
    BY <1>3 DEF TAKE_ARGS
  <2>2. m \in 0 .. lm /\ m = lm + lr - n
    BY <1>0, <1>3
  <2> HIDE DEF m
  <2>3. SubSeq(mem, 1, m) \in Seq(V)
    BY <1>0, <2>2, Prefix
  <2>4. m \in 0 .. Len(mem) + Len(regs) /\ m <= Len(mem)
    BY <1>0, <2>2
  <2>5. SubSeq(mem \o regs, 1, m) = SubSeq(mem, 1, m)
    BY <2>4, PrefixOfConcat
  <2>6. m = Len(mem \o regs) - n
    BY <1>0, <2>2
  <2> QED
    BY <1>2, <2>1, <2>3, <2>5, <2>6
<1>4. ASSUME n < lr
      PROVE  /\ IsCache(TAKE_ARGS(<<mem, regs>>, n), V)
             /\ TAKE_ARGS(<<mem, regs>>, n)[2] = <<>>
             /\ Contents(TAKE_ARGS(<<mem, regs>>, n)) =
                   SubSeq(mem \o regs, 1, Len(mem \o regs) - n)
  <2> DEFINE m == lr - n
             q == lm + lr - n
  <2>1. TAKE_ARGS(<<mem, regs>>, n) = <<mem \o SubSeq(regs, 1, m), <<>>>>
    <3>1. ~(n >= Len(regs))
      BY <1>0, <1>4
    <3> QED
      BY <3>1 DEF TAKE_ARGS
  <2>2. m \in 0 .. lr /\ q = Len(mem \o regs) - n /\ m = q - lm /\ q >= lm
        /\ q \in 0 .. lm + lr
    BY <1>0, <1>4
  <2> HIDE DEF m, q
  <2>3. SubSeq(regs, 1, m) \in Seq(V)
    BY <2>2, Prefix
  <2>4. mem \o SubSeq(regs, 1, m) \in Seq(V)
    BY <2>3, ConcatProperties
  <2>5. SubSeq(mem \o regs, 1, q) = mem \o SubSeq(regs, 1, m)
    BY <2>2, PrefixOfConcat
  <2> QED
    BY <1>2, <2>1, <2>2, <2>4, <2>5
<1>5. /\ IsCache(TAKE_ARGS(<<mem, regs>>, n), V)
      /\ TAKE_ARGS(<<mem, regs>>, n)[2] = <<>>
      /\ Contents(TAKE_ARGS(<<mem, regs>>, n)) =
            SubSeq(mem \o regs, 1, Len(mem \o regs) - n)
  <2>1. n >= lr \/ n < lr
    BY <1>0
  <2> QED
    BY <2>1, <1>3, <1>4
<1>6. ASSUME NEW k \in 1 .. n
      PROVE  Arguments(<<mem, regs>>, n)[k] =
                (mem \o regs)[Len(mem \o regs) - n + k]
  <2>1. Arguments(<<mem, regs>>, n)[k] =
           IF n - k < lr THEN regs[lr - (n - k)]
           ELSE mem[lm - (n - k - lr)]
    BY <1>6 DEF Arguments
  <2> QED
    BY <1>0, <1>1, <1>6, <2>1
<1> QED
  BY <1>5, <1>6

-----------------------------------------------------------------------------
(* The instruction set as numbers, and what the check says of each of them.  *)

LEMMA OpNumbers ==
    /\ Op.PUSH_INT = 1 /\ Op.PUSH_STRING = 5 /\ Op.PUSH_BOOL = 6 /\ Op.POP = 7
    /\ Op.DUP = 8 /\ Op.LOAD_LOCAL = 16 /\ Op.STORE_LOCAL = 17
    /\ Op.ADD = 32 /\ Op.SUB = 33 /\ Op.MUL = 34
    /\ Op.TERNARY_MIN = 39 /\ Op.TERNARY_MAX = 40
    /\ Op.EQ = 48 /\ Op.NEQ = 49 /\ Op.LT = 50 /\ Op.LE = 51 /\ Op.GT = 52 /\ Op.GE = 53
    /\ Op.JUMP = 80 /\ Op.JUMP_IF_FALSE = 81 /\ Op.BRANCH_3 = 82
    /\ Op.CALL = 96 /\ Op.RET = 97
    /\ Op.CALL_FAST_0 = 98 /\ Op.CALL_FAST_1 = 99 /\ Op.RET_FAST = 100
    /\ Op.PRINTLN = 113
    /\ Op.GET_FIELD = 160 /\ Op.NEW_INSTANCE = 161 /\ Op.SET_FIELD = 163
    /\ Op.INVOKE_METHOD = 164 /\ Op.TRY = 167 /\ Op.THROW = 168 /\ Op.POP_TRY = 169
    /\ Op.LOAD_LOCAL_0 = 176 /\ Op.STORE_LOCAL_0 = 180 /\ Op.INCR_LOCAL_IMM = 184
    /\ Op.LOOP_RANGE_FAST = 187
    /\ Op.QUICK_ADD_INT = 188 /\ Op.QUICK_SUB_INT = 189 /\ Op.QUICK_MUL_INT = 190
    /\ Op.QUICK_LT_INT = 191 /\ Op.QUICK_LE_INT = 192 /\ Op.QUICK_EQ_INT = 193
    /\ Op.GET_FIELD_IC = 194 /\ Op.SET_FIELD_IC = 195
    /\ Op.STORE_LOCAL_POP = 196 /\ Op.STORE_LOCAL_0_POP = 197
    /\ Op.LOAD_LOAD_LOCAL = 201 /\ Op.FUSED_ADD_LOCAL_LOCAL_STORE = 202
    /\ Op.FUSED_MUL_ADD_I64 = 203
    /\ Op.QUICK_GT_INT = 206 /\ Op.QUICK_GE_INT = 207
    /\ Op.INVOKE_METHOD_IC = 208 /\ Op.HALT = 255
BY DEF Op

-----------------------------------------------------------------------------
(* Frames.  Number 0 is the top level, number k the k-th call; the last one  *)
(* is at ip and the operands it may use end at height.                       *)

FrameRecords == Seq([ret : Nat, base : Nat, depth : Nat, size : Nat])
TryRecords == Seq([catch : Nat, depth : Nat, top : Nat, calls : Nat])

Place(ip, calls, k) == IF k = Len(calls) THEN ip ELSE calls[k + 1].ret
Bottom(calls, k)    == IF k = 0 THEN 0 ELSE calls[k].depth
RoomOf(top, calls, k) == IF k = 0 THEN top ELSE calls[k].size
HeightOf(calls, height, k) ==
    IF k = Len(calls) THEN height ELSE calls[k + 1].depth + 1

(* A frame is at a labelled instruction and has what the label promises.     *)
FrameOK(L, top, ip, calls, height, k) ==
    LET p == Place(ip, calls, k) IN
    /\ p \in DOMAIN L
    /\ L[p].room <= RoomOf(top, calls, k)
    /\ Bottom(calls, k) + L[p].depth <= HeightOf(calls, height, k)

FramesOK(L, top, ip, calls, height) ==
    /\ \A k \in 0 .. Len(calls) : FrameOK(L, top, ip, calls, height, k)
    /\ \A j, k \in 1 .. Len(calls) : j <= k => calls[j].depth <= calls[k].depth

(* The try blocks frame k has open are those the label of its instruction    *)
(* lists.  start[k] is how many the frames below it have.  What the stack    *)
(* holds beyond the labels never shrinks from one block to the block inside. *)
TryOK(L, ip, calls, tries, height, start, k, j) ==
    LET l == L[Place(ip, calls, k)]
        t == tries[start[k] + j]
    IN  /\ t.calls = k
        /\ t.catch = l.tries[j].catch
        /\ Bottom(calls, k) + l.tries[j].depth <= t.depth
        /\ t.depth + l.depth <= HeightOf(calls, height, k) + l.tries[j].depth
        /\ k < Len(calls) => t.depth <= calls[k + 1].depth
        /\ \A i \in 1 .. j - 1 :
              tries[start[k] + i].depth + l.tries[j].depth <= t.depth + l.tries[i].depth

TriesOK(L, ip, calls, tries, height, start) ==
    /\ start \in [0 .. Len(calls) + 1 -> Nat]
    /\ start[0] = 0 /\ start[Len(calls) + 1] = Len(tries)
    /\ \A j, k \in 0 .. Len(calls) + 1 : j <= k => start[j] <= start[k]
    /\ \A i \in 1 .. Len(tries) : \E k \in 0 .. Len(calls) : i \in start[k] + 1 .. start[k + 1]
    /\ \A k \in 0 .. Len(calls) :
          LET n == Len(L[Place(ip, calls, k)].tries) IN
          /\ start[k + 1] = start[k] + n
          /\ \A j \in 1 .. n : TryOK(L, ip, calls, tries, height, start, k, j)

Control(L, top, ip, calls, tries, height) ==
    /\ FramesOK(L, top, ip, calls, height)
    /\ \E start : TriesOK(L, ip, calls, tries, height, start)

Labelled(L) == DOMAIN L \subseteq Nat /\ \A p \in DOMAIN L : L[p] \in Labels

LEMMA FrameTypes ==
    ASSUME NEW calls \in FrameRecords
    PROVE  /\ Len(calls) \in Nat
           /\ \A k \in 1 .. Len(calls) :
                 /\ calls[k].ret \in Nat /\ calls[k].base \in Nat
                 /\ calls[k].depth \in Nat /\ calls[k].size \in Nat
           /\ \A k \in 0 .. Len(calls) : Bottom(calls, k) \in Nat
<1>1. Len(calls) \in Nat
  BY LenProperties DEF FrameRecords
<1>2. \A k \in 1 .. Len(calls) : calls[k] \in [ret : Nat, base : Nat, depth : Nat, size : Nat]
  BY ElementOfSeq DEF FrameRecords
<1>3. \A k \in 0 .. Len(calls) : k # 0 => k \in 1 .. Len(calls)
  BY <1>1
<1> QED
  BY <1>1, <1>2, <1>3 DEF Bottom

LEMMA LabelTypes ==
    ASSUME NEW L, Labelled(L), NEW p \in DOMAIN L
    PROVE  /\ p \in Nat /\ L[p].depth \in Nat /\ L[p].room \in Nat
           /\ L[p].tries \in Seq([catch : Nat, depth : Nat])
           /\ Len(L[p].tries) \in Nat
           /\ \A j \in 1 .. Len(L[p].tries) :
                 L[p].tries[j].catch \in Nat /\ L[p].tries[j].depth \in Nat
<1>1. /\ p \in Nat /\ L[p].depth \in Nat /\ L[p].room \in Nat
      /\ L[p].tries \in Seq([catch : Nat, depth : Nat])
  BY DEF Labelled, Labels
<1>2. \A j \in 1 .. Len(L[p].tries) : L[p].tries[j] \in [catch : Nat, depth : Nat]
  BY <1>1, ElementOfSeq
<1> QED
  BY <1>1, <1>2, LenProperties

LEMMA TryTypes ==
    ASSUME NEW tries \in TryRecords
    PROVE  /\ Len(tries) \in Nat
           /\ \A i \in 1 .. Len(tries) :
                 /\ tries[i].catch \in Nat /\ tries[i].depth \in Nat
                 /\ tries[i].top \in Nat /\ tries[i].calls \in Nat
<1>1. \A i \in 1 .. Len(tries) :
         tries[i] \in [catch : Nat, depth : Nat, top : Nat, calls : Nat]
  BY ElementOfSeq DEF TryRecords
<1> QED
  BY <1>1, LenProperties DEF TryRecords

(* Where the blocks of a frame are. *)
LEMMA TryPlaces ==
    ASSUME NEW L, Labelled(L), NEW ip, NEW calls \in FrameRecords, NEW tries \in TryRecords,
           NEW height, NEW start, TriesOK(L, ip, calls, tries, height, start),
           NEW k \in 0 .. Len(calls), Place(ip, calls, k) \in DOMAIN L
    PROVE  LET n == Len(L[Place(ip, calls, k)].tries) IN
           /\ start[k] \in Nat /\ start[k + 1] = start[k] + n
           /\ start[k + 1] <= Len(tries)
           /\ \A j \in 1 .. n : start[k] + j \in 1 .. Len(tries)
<1> DEFINE n == Len(L[Place(ip, calls, k)].tries)
<1>1. Len(calls) \in Nat /\ n \in Nat /\ Len(tries) \in Nat
  BY FrameTypes, LabelTypes, TryTypes
<1>2. k \in 0 .. Len(calls) + 1 /\ k + 1 \in 0 .. Len(calls) + 1 /\ Len(calls) + 1 \in 0 .. Len(calls) + 1
      /\ k + 1 <= Len(calls) + 1
  BY <1>1
<1>3. start[k] \in Nat /\ start[k + 1] = start[k] + n
  BY <1>2 DEF TriesOK
<1>4. start[k + 1] <= Len(tries)
  BY <1>2 DEF TriesOK
<1> HIDE DEF n
<1>5. \A j \in 1 .. n : start[k] + j \in 1 .. Len(tries)
  BY <1>1, <1>3, <1>4
<1> QED
  BY <1>3, <1>4, <1>5 DEF n

(* The last frame goes on in the same function. *)
LEMMA GoesOn ==
    ASSUME NEW L, Labelled(L), NEW top \in Nat, NEW ip \in DOMAIN L, NEW q \in DOMAIN L,
           NEW calls \in FrameRecords, NEW tries \in TryRecords, NEW height \in Nat,
           NEW height1 \in Nat,
           Control(L, top, ip, calls, tries, height),
           L[q].room <= L[ip].room, L[q].tries = L[ip].tries,
           L[q].depth + height <= L[ip].depth + height1
    PROVE  Control(L, top, q, calls, tries, height1)
<1> DEFINE n == Len(calls)
<1>0. n \in Nat /\ Bottom(calls, n) \in Nat /\ RoomOf(top, calls, n) \in Nat
  BY FrameTypes DEF RoomOf
<1>1. PICK start : TriesOK(L, ip, calls, tries, height, start)
  BY DEF Control
<1>2. /\ L[ip].depth \in Nat /\ L[ip].room \in Nat /\ L[q].depth \in Nat /\ L[q].room \in Nat
      /\ \A j \in 1 .. Len(L[ip].tries) : L[ip].tries[j].depth \in Nat
  BY LabelTypes
<1>3. \A k \in 0 .. n : k # n => Place(q, calls, k) = Place(ip, calls, k)
        /\ HeightOf(calls, height1, k) = HeightOf(calls, height, k)
  BY DEF Place, HeightOf
<1>4. /\ Place(q, calls, n) = q /\ Place(ip, calls, n) = ip
      /\ HeightOf(calls, height1, n) = height1 /\ HeightOf(calls, height, n) = height
  BY DEF Place, HeightOf
<1>5. FramesOK(L, top, q, calls, height1)
  <2>1. FrameOK(L, top, q, calls, height1, n)
    <3>1. FrameOK(L, top, ip, calls, height, n)
      BY <1>0 DEF Control, FramesOK
    <3>2. L[ip].room <= RoomOf(top, calls, n) /\ Bottom(calls, n) + L[ip].depth <= height
      BY <1>4, <3>1 DEF FrameOK
    <3>3. L[q].room <= RoomOf(top, calls, n) /\ Bottom(calls, n) + L[q].depth <= height1
      <4>1. \A b, d, e, h, i \in Nat : b + d <= h /\ e + h <= d + i => b + e <= i
        OBVIOUS
      <4>2. Bottom(calls, n) + L[q].depth <= height1
        BY <1>0, <1>2, <3>2, <4>1
      <4>3. \A a, b, c \in Nat : a <= b /\ b <= c => a <= c
        OBVIOUS
      <4> QED
        BY <1>0, <1>2, <3>2, <4>2, <4>3
    <3> QED
      BY <1>4, <3>3 DEF FrameOK
  <2>2. ASSUME NEW k \in 0 .. n, k # n PROVE FrameOK(L, top, q, calls, height1, k)
    <3>1. FrameOK(L, top, ip, calls, height, k)
      BY DEF Control, FramesOK
    <3> QED
      BY <1>3, <2>2, <3>1 DEF FrameOK
  <2> QED
    BY <2>1, <2>2 DEF FramesOK, Control
<1>6. TriesOK(L, q, calls, tries, height1, start)
  <2>1. ASSUME NEW k \in 0 .. n
        PROVE  L[Place(q, calls, k)].tries = L[Place(ip, calls, k)].tries
    BY <1>3, <1>4
  <2>2. ASSUME NEW k \in 0 .. n, NEW j \in 1 .. Len(L[Place(ip, calls, k)].tries)
        PROVE  TryOK(L, q, calls, tries, height1, start, k, j)
    <3>1. TryOK(L, ip, calls, tries, height, start, k, j)
      BY <1>1 DEF TriesOK
    <3>2. CASE k # n
      BY <1>3, <3>1, <3>2 DEF TryOK
    <3>3. CASE k = n
      <4> DEFINE d == tries[start[n] + j].depth
                 r == L[ip].tries[j].depth
      <4>1. d + L[ip].depth <= height + r
        BY <1>4, <3>1, <3>3 DEF TryOK
      <4>2. d \in Nat
        <5>1. start[n] + j \in 1 .. Len(tries)
          BY <1>0, <1>1, <1>4, <3>3, TryPlaces
        <5> QED
          BY <5>1, TryTypes
      <4>3. r \in Nat
        BY <1>2, <1>4, <3>3
      <4> HIDE DEF d, r
      <4>4. d + L[q].depth <= height1 + r
        BY <1>2, <4>1, <4>2, <4>3
      <4> QED
        BY <1>4, <3>1, <3>3, <4>4 DEF TryOK, d, r
    <3> QED
      BY <3>2, <3>3
  <2> QED
    BY <1>1, <2>1, <2>2 DEF TriesOK
<1> QED
  BY <1>5, <1>6 DEF Control

(* The block of a number belongs to the frame it names. *)
LEMMA FrameOfBlock ==
    ASSUME NEW L, Labelled(L), NEW top, NEW ip, NEW calls \in FrameRecords,
           NEW tries \in TryRecords, NEW height, NEW start,
           FramesOK(L, top, ip, calls, height),
           TriesOK(L, ip, calls, tries, height, start), NEW i \in 1 .. Len(tries)
    PROVE  /\ tries[i].calls \in 0 .. Len(calls)
           /\ i \in start[tries[i].calls] + 1 .. start[tries[i].calls + 1]
           /\ \E j \in 1 .. Len(L[Place(ip, calls, tries[i].calls)].tries) :
                 /\ i = start[tries[i].calls] + j
                 /\ TryOK(L, ip, calls, tries, height, start, tries[i].calls, j)
<1>1. PICK k \in 0 .. Len(calls) : i \in start[k] + 1 .. start[k + 1]
  BY DEF TriesOK
<1>2. Place(ip, calls, k) \in DOMAIN L
  BY DEF FramesOK, FrameOK
<1> DEFINE m == Len(L[Place(ip, calls, k)].tries)
<1>3. start[k] \in Nat /\ start[k + 1] = start[k] + m /\ m \in Nat
  <2>1. m \in Nat
    BY <1>2, LabelTypes
  <2>2. Len(calls) \in Nat /\ k \in 0 .. Len(calls) + 1
    BY FrameTypes
  <2>3. start[k] \in Nat /\ start[k + 1] = start[k] + m
    BY <2>2 DEF TriesOK
  <2> QED
    BY <2>1, <2>3
<1>4. PICK j \in 1 .. m : i = start[k] + j
  <2> HIDE DEF m
  <2>1. \A x, y \in Nat : \A z \in x + 1 .. x + y : \E w \in 1 .. y : z = x + w
    <3> SUFFICES ASSUME NEW x \in Nat, NEW y \in Nat, NEW z \in x + 1 .. x + y
                 PROVE  \E w \in 1 .. y : z = x + w
      OBVIOUS
    <3>1. z - x \in 1 .. y /\ z = x + (z - x)
      OBVIOUS
    <3> QED
      BY <3>1
  <2>2. i \in start[k] + 1 .. start[k] + m
    BY <1>1, <1>3
  <2> QED
    BY <1>3, <2>1, <2>2
<1>5. \A x \in 1 .. m : TryOK(L, ip, calls, tries, height, start, k, x)
  BY DEF TriesOK
<1>6. TryOK(L, ip, calls, tries, height, start, k, j)
  BY <1>5
<1>7. tries[i].calls = k
  BY <1>4, <1>6 DEF TryOK
<1> QED
  BY <1>1, <1>4, <1>6, <1>7

(* Every block a frame has open was opened with no more on the stack than    *)
(* what an instruction leaves there that leaves what the block needs.        *)
LEMMA Capped ==
    ASSUME NEW L, Labelled(L), NEW top \in Nat, NEW ip \in DOMAIN L,
           NEW calls \in FrameRecords, NEW tries \in TryRecords,
           NEW height \in Nat, NEW left \in Nat,
           Control(L, top, ip, calls, tries, height),
           \A j \in 1 .. Len(L[ip].tries) :
               L[ip].tries[j].depth + height <= left + L[ip].depth
    PROVE  \A i \in 1 .. Len(tries) :
               tries[i].calls = Len(calls) => tries[i].depth <= left
<1> DEFINE n == Len(calls)
<1>0. n \in Nat /\ Place(ip, calls, n) = ip /\ HeightOf(calls, height, n) = height
  BY FrameTypes DEF Place, HeightOf
<1>1. PICK start : TriesOK(L, ip, calls, tries, height, start)
  BY DEF Control
<1> SUFFICES ASSUME NEW i \in 1 .. Len(tries), tries[i].calls = n PROVE tries[i].depth <= left
  OBVIOUS
<1>2. PICK j \in 1 .. Len(L[Place(ip, calls, tries[i].calls)].tries) :
         /\ i = start[tries[i].calls] + j
         /\ TryOK(L, ip, calls, tries, height, start, tries[i].calls, j)
  BY <1>1, FrameOfBlock DEF Control
<1>3. j \in 1 .. Len(L[ip].tries) /\ i = start[n] + j
      /\ TryOK(L, ip, calls, tries, height, start, n, j)
  BY <1>0, <1>2
<1>8. tries[i].depth + L[ip].depth <= height + L[ip].tries[j].depth
  BY <1>0, <1>3 DEF TryOK
<1>9. L[ip].tries[j].depth + height <= left + L[ip].depth
  BY <1>3
<1>10. \A t, d, h, r, l \in Nat : t + d <= h + r /\ r + h <= l + d => t <= l
  OBVIOUS
<1>11. tries[i].depth \in Nat /\ L[ip].depth \in Nat /\ L[ip].tries[j].depth \in Nat
  BY <1>3, TryTypes, LabelTypes
<1> QED
  BY <1>8, <1>9, <1>10, <1>11

(* A call: the caller waits at ret for one value, the callee starts at q. *)
LEMMA EntersFrame ==
    ASSUME NEW L, Labelled(L), NEW top \in Nat, NEW ret \in DOMAIN L, NEW q \in DOMAIN L,
           NEW calls \in FrameRecords, NEW tries \in TryRecords, NEW left \in Nat,
           NEW base \in Nat, NEW size \in Nat,
           Control(L, top, ret, calls, tries, left + 1),
           Bottom(calls, Len(calls)) <= left,
           \A i \in 1 .. Len(tries) :
               tries[i].calls = Len(calls) => tries[i].depth <= left,
           Enterable(L, q, size)
    PROVE  LET f == [ret |-> ret, base |-> base, depth |-> left, size |-> size] IN
           /\ Append(calls, f) \in FrameRecords
           /\ Control(L, top, q, Append(calls, f), tries, left)
<1> DEFINE n == Len(calls)
           f == [ret |-> ret, base |-> base, depth |-> left, size |-> size]
           c == Append(calls, f)
<1>0. n \in Nat /\ ret \in Nat /\ Bottom(calls, n) \in Nat
      /\ \A k \in 0 .. n : Bottom(calls, k) \in Nat
  BY FrameTypes, LabelTypes
<1>1. c \in FrameRecords /\ Len(c) = n + 1 /\ c[n + 1] = f /\ \A k \in 1 .. n : c[k] = calls[k]
  <2>1. f \in [ret : Nat, base : Nat, depth : Nat, size : Nat]
    BY <1>0
  <2> HIDE DEF f
  <2> QED
    BY <2>1, AppendProperties DEF FrameRecords
<1>2. f.ret = ret /\ f.depth = left /\ f.size = size
  OBVIOUS
<1> HIDE DEF f, c
<1>3. PICK start : TriesOK(L, ret, calls, tries, left + 1, start)
  BY DEF Control
<1>4. ASSUME NEW k \in 0 .. n
      PROVE  /\ Place(q, c, k) = Place(ret, calls, k)
             /\ Bottom(c, k) = Bottom(calls, k)
             /\ RoomOf(top, c, k) = RoomOf(top, calls, k)
             /\ HeightOf(c, left, k) = HeightOf(calls, left + 1, k)
  <2>1. CASE k = n
    BY <1>0, <1>1, <1>2, <2>1 DEF Place, Bottom, RoomOf, HeightOf
  <2>2. CASE k # n
    <3>1. k + 1 \in 1 .. n /\ k # n + 1 /\ (k # 0 => k \in 1 .. n)
      BY <1>0, <2>2
    <3> QED
      BY <1>1, <2>2, <3>1 DEF Place, Bottom, RoomOf, HeightOf
  <2> QED
    BY <2>1, <2>2
<1>5. /\ Place(q, c, n + 1) = q /\ Bottom(c, n + 1) = left /\ RoomOf(top, c, n + 1) = size
      /\ HeightOf(c, left, n + 1) = left
  BY <1>0, <1>1, <1>2 DEF Place, Bottom, RoomOf, HeightOf
<1>6. L[q].depth = 0 /\ L[q].room <= size /\ L[q].tries = <<>>
  BY DEF Enterable
<1>7. \A k \in 0 .. n + 1 : k \in 0 .. n \/ k = n + 1
  BY <1>0
<1>8. FramesOK(L, top, q, c, left)
  <2>1. ASSUME NEW k \in 0 .. n PROVE FrameOK(L, top, q, c, left, k)
    <3>1. FrameOK(L, top, ret, calls, left + 1, k)
      BY DEF Control, FramesOK
    <3> QED
      BY <1>4, <3>1 DEF FrameOK
  <2>2. FrameOK(L, top, q, c, left, n + 1)
    BY <1>5, <1>6 DEF FrameOK
  <2>3. ASSUME NEW j \in 1 .. n + 1, NEW k \in 1 .. n + 1, j <= k
        PROVE  c[j].depth <= c[k].depth
    <3>1. CASE k \in 1 .. n
      <4>1. j \in 1 .. n /\ calls[j].depth <= calls[k].depth
        BY <1>0, <2>3, <3>1 DEF Control, FramesOK
      <4> QED
        BY <1>1, <3>1, <4>1
    <3>2. CASE k = n + 1 /\ j = n + 1
      BY <1>0, <1>1, <1>2, <3>2
    <3>3. CASE k = n + 1 /\ j \in 1 .. n
      <4>1. calls[j].depth <= calls[n].depth /\ n # 0 /\ n \in 1 .. n
        BY <1>0, <3>3 DEF Control, FramesOK
      <4>2. calls[n].depth <= left
        BY <4>1 DEF Bottom
      <4>3. calls[j].depth \in Nat /\ calls[n].depth \in Nat
        BY <3>3, <4>1, FrameTypes
      <4>4. \A x, y, z \in Nat : x <= y /\ y <= z => x <= z
        OBVIOUS
      <4>5. calls[j].depth <= left
        BY <4>1, <4>2, <4>3, <4>4
      <4> QED
        BY <1>1, <1>2, <3>3, <4>5
    <3>4. (k \in 1 .. n \/ k = n + 1) /\ (j \in 1 .. n \/ j = n + 1)
      <4>1. \A a \in Nat : \A x \in 1 .. a + 1 : x \in 1 .. a \/ x = a + 1
        OBVIOUS
      <4>2. n \in Nat
        BY <1>0
      <4> HIDE DEF n
      <4> QED
        BY <4>1, <4>2
    <3> QED
      BY <3>1, <3>2, <3>3, <3>4, <2>3, <1>0
  <2> QED
    BY <1>1, <1>7, <2>1, <2>2, <2>3 DEF FramesOK
<1>9. \A k \in 0 .. n : Place(ret, calls, k) \in DOMAIN L
  BY DEF Control, FramesOK, FrameOK
<1> DEFINE s == [k \in 0 .. n + 2 |-> IF k = n + 2 THEN Len(tries) ELSE start[k]]
<1>10. /\ start \in [0 .. n + 1 -> Nat] /\ start[0] = 0 /\ start[n + 1] = Len(tries)
       /\ Len(tries) \in Nat
       /\ \A j, k \in 0 .. n + 1 : j <= k => start[j] <= start[k]
  BY <1>3, TryTypes DEF TriesOK
<1>11. /\ s \in [0 .. n + 2 -> Nat] /\ s[n + 2] = Len(tries)
       /\ \A k \in 0 .. n + 1 : s[k] = start[k]
  BY <1>0, <1>10
<1> HIDE DEF s
<1>12. \A j, k \in 0 .. n + 2 : j <= k => s[j] <= s[k]
  <2> SUFFICES ASSUME NEW j \in 0 .. n + 2, NEW k \in 0 .. n + 2, j <= k PROVE s[j] <= s[k]
    OBVIOUS
  <2>1. CASE k \in 0 .. n + 1
    <3>1. j \in 0 .. n + 1
      BY <1>0, <2>1
    <3> QED
      BY <1>10, <1>11, <2>1, <3>1
  <2>2. CASE k = n + 2 /\ j = n + 2
    BY <1>11, <1>10, <2>2
  <2>3. CASE k = n + 2 /\ j \in 0 .. n + 1
    <3>1. n + 1 \in 0 .. n + 1 /\ j <= n + 1
      BY <1>0, <2>3
    <3>2. start[j] <= start[n + 1]
      BY <1>10, <2>3, <3>1
    <3> QED
      BY <1>10, <1>11, <2>3, <3>2
  <2>4. (k \in 0 .. n + 1 \/ k = n + 2) /\ (j \in 0 .. n + 1 \/ j = n + 2)
    BY <1>0
  <2>5. j = n + 2 => k = n + 2
    BY <1>0
  <2> QED
    BY <1>0, <2>1, <2>2, <2>3, <2>4, <2>5
<1>13. ASSUME NEW i \in 1 .. Len(tries) PROVE \E k \in 0 .. n + 1 : i \in s[k] + 1 .. s[k + 1]
  <2>1. PICK k \in 0 .. n : i \in start[k] + 1 .. start[k + 1]
    BY <1>3 DEF TriesOK
  <2>2. k \in 0 .. n + 1 /\ k + 1 \in 0 .. n + 1
    BY <1>0
  <2> QED
    BY <1>11, <2>1, <2>2
<1>14. ASSUME NEW k \in 0 .. n
       PROVE  LET m == Len(L[Place(q, c, k)].tries) IN
              /\ s[k + 1] = s[k] + m
              /\ \A j \in 1 .. m : TryOK(L, q, c, tries, left, s, k, j)
  <2> DEFINE m == Len(L[Place(ret, calls, k)].tries)
  <2>0. k \in 0 .. n + 1 /\ k + 1 \in 0 .. n + 1
    BY <1>0
  <2>1. s[k + 1] = s[k] + m
    BY <1>3, <1>11, <2>0 DEF TriesOK
  <2>2. ASSUME NEW j \in 1 .. m PROVE TryOK(L, q, c, tries, left, s, k, j)
    <3>1. TryOK(L, ret, calls, tries, left + 1, start, k, j)
      BY <1>3 DEF TriesOK
    <3>2. s[k] = start[k]
      BY <1>11, <2>0
    <3>3. k < Len(c) => tries[start[k] + j].depth <= c[k + 1].depth
      <4>1. CASE k < n
        <5>1. k + 1 \in 1 .. n
          BY <1>0, <4>1
        <5> QED
          BY <1>1, <3>1, <4>1, <5>1 DEF TryOK
      <4>2. CASE k = n
        <5>1. start[k] + j \in 1 .. Len(tries)
          BY <1>3, <1>9, TryPlaces
        <5>2. tries[start[k] + j].calls = n
          BY <3>1, <4>2 DEF TryOK
        <5>3. tries[start[k] + j].depth <= left
          BY <5>1, <5>2
        <5> QED
          BY <1>1, <1>2, <4>2, <5>3
      <4> QED
        BY <1>0, <4>1, <4>2
    <3> QED
      BY <1>4, <3>1, <3>2, <3>3 DEF TryOK
  <2> QED
    BY <1>4, <2>1, <2>2
<1>15. LET m == Len(L[Place(q, c, n + 1)].tries) IN
       /\ s[n + 2] = s[n + 1] + m
       /\ \A j \in 1 .. m : TryOK(L, q, c, tries, left, s, n + 1, j)
  <2>1. Len(L[Place(q, c, n + 1)].tries) = 0 /\ n + 1 \in 0 .. n + 1
    BY <1>0, <1>5, <1>6
  <2> QED
    BY <1>10, <1>11, <2>1
<1>16. TriesOK(L, q, c, tries, left, s)
  <2>1. s[0] = 0 /\ Len(c) + 1 = n + 2 /\ (n + 1) + 1 = n + 2
    BY <1>0, <1>1, <1>10, <1>11
  <2> QED
    BY <1>1, <1>7, <1>11, <1>12, <1>13, <1>14, <1>15, <2>1 DEF TriesOK
<1> QED
  BY <1>1, <1>8, <1>16 DEF Control, c, f

(* Frames are left: the frames up to number k remain, which own every block. *)
LEMMA LeavesFrames ==
    ASSUME NEW L, Labelled(L), NEW top, NEW ip,
           NEW calls \in FrameRecords, NEW tries \in TryRecords, NEW height,
           Control(L, top, ip, calls, tries, height),
           NEW k \in 0 .. Len(calls),
           \A i \in 1 .. Len(tries) : tries[i].calls <= k
    PROVE  /\ SubSeq(calls, 1, k) \in FrameRecords /\ Len(SubSeq(calls, 1, k)) = k
           /\ Control(L, top, Place(ip, calls, k), SubSeq(calls, 1, k), tries,
                      HeightOf(calls, height, k))
<1> DEFINE n == Len(calls)
           c == SubSeq(calls, 1, k)
           q == Place(ip, calls, k)
           h == HeightOf(calls, height, k)
<1>0. n \in Nat /\ k \in Nat /\ k <= n /\ Len(tries) \in Nat
  BY FrameTypes, TryTypes
<1>1. c \in FrameRecords /\ Len(c) = k /\ \A i \in 1 .. k : c[i] = calls[i]
  BY Prefix DEF FrameRecords
<1>2. PICK start : TriesOK(L, ip, calls, tries, height, start)
  BY DEF Control
<1>3. FramesOK(L, top, ip, calls, height)
  BY DEF Control
<1> DEFINE Q == q
           H == h
<1>4. ASSUME NEW j \in 0 .. k
      PROVE  /\ Place(q, c, j) = Place(ip, calls, j)
             /\ Bottom(c, j) = Bottom(calls, j)
             /\ RoomOf(top, c, j) = RoomOf(top, calls, j)
             /\ HeightOf(c, h, j) = HeightOf(calls, height, j)
  <2>1. j # 0 => j \in 1 .. k
    BY <1>0
  <2>2. j # k => j + 1 \in 1 .. k /\ j # n
    BY <1>0
  <2>3. Bottom(c, j) = Bottom(calls, j) /\ RoomOf(top, c, j) = RoomOf(top, calls, j)
    BY <1>1, <2>1 DEF Bottom, RoomOf
  <2>4. CASE j = k
    BY <1>1, <2>3, <2>4 DEF Place, HeightOf
  <2>5. CASE j # k
    <3> HIDE DEF c, q, h
    <3>1. Place(q, c, j) = c[j + 1].ret /\ Place(ip, calls, j) = calls[j + 1].ret
      BY <1>1, <2>2, <2>5 DEF Place
    <3>2. HeightOf(c, h, j) = c[j + 1].depth + 1 /\ HeightOf(calls, height, j) = calls[j + 1].depth + 1
      BY <1>1, <2>2, <2>5 DEF HeightOf
    <3> QED
      BY <1>1, <2>2, <2>3, <2>5, <3>1, <3>2
  <2> QED
    BY <2>4, <2>5
<1>5. \A j \in 0 .. k : j \in 0 .. n /\ j \in 0 .. n + 1 /\ j + 1 \in 0 .. n + 1
  BY <1>0
<1>6. start[k + 1] = Len(tries)
  <2>1. start \in [0 .. n + 1 -> Nat] /\ start[n + 1] = Len(tries)
        /\ \A x, y \in 0 .. n + 1 : x <= y => start[x] <= start[y]
    BY <1>2 DEF TriesOK
  <2>2. k + 1 \in 0 .. n + 1 /\ n + 1 \in 0 .. n + 1 /\ k + 1 <= n + 1
    BY <1>0
  <2>3. start[k + 1] \in Nat /\ start[k + 1] <= Len(tries)
    BY <2>1, <2>2
  <2> SUFFICES ASSUME start[k + 1] < Len(tries) PROVE FALSE
    BY <1>0, <2>3
  <2>4. Len(tries) \in 1 .. Len(tries)
    BY <1>0, <2>3
  <2>5. LET f == tries[Len(tries)].calls IN
        f \in 0 .. n /\ Len(tries) \in start[f] + 1 .. start[f + 1]
    BY <1>2, <1>3, <2>4, FrameOfBlock
  <2> DEFINE f == tries[Len(tries)].calls
  <2>6. f <= k
    BY <2>4
  <2>7. f + 1 \in 0 .. n + 1 /\ f + 1 <= k + 1
    BY <1>0, <2>5, <2>6
  <2>8. start[f + 1] <= start[k + 1] /\ start[f + 1] \in Nat
    BY <2>1, <2>2, <2>7
  <2>9. start[f + 1] >= Len(tries)
    <3>1. f \in 0 .. n + 1 /\ start[f] \in Nat
      BY <1>0, <2>1, <2>5
    <3> QED
      BY <1>0, <2>5, <2>8, <3>1
  <2> HIDE DEF f
  <2> QED
    BY <1>0, <2>3, <2>8, <2>9
<1> HIDE DEF c, q, h, Q, H
<1>7. FramesOK(L, top, q, c, h)
  <2>1. ASSUME NEW j \in 0 .. k PROVE FrameOK(L, top, q, c, h, j)
    <3>1. FrameOK(L, top, ip, calls, height, j)
      BY <1>3, <1>5 DEF FramesOK
    <3> QED
      BY <1>4, <3>1 DEF FrameOK
  <2>2. \A x, y \in 1 .. k : x <= y => c[x].depth <= c[y].depth
    <3>1. \A x \in 1 .. k : x \in 1 .. n
      BY <1>0
    <3> QED
      BY <1>1, <1>3, <3>1 DEF FramesOK
  <2> QED
    BY <1>1, <2>1, <2>2 DEF FramesOK
<1> DEFINE s == [j \in 0 .. k + 1 |-> start[j]]
<1>8. /\ s \in [0 .. k + 1 -> Nat] /\ s[0] = 0 /\ s[k + 1] = Len(tries)
      /\ \A x, y \in 0 .. k + 1 : x <= y => s[x] <= s[y]
      /\ \A j \in 0 .. k : s[j] = start[j] /\ s[j + 1] = start[j + 1]
  <2>1. \A j \in 0 .. k + 1 : j \in 0 .. n + 1
    BY <1>0
  <2>2. \A j \in 0 .. k : j \in 0 .. k + 1 /\ j + 1 \in 0 .. k + 1
    BY <1>0
  <2>3. 0 \in 0 .. k + 1 /\ k + 1 \in 0 .. k + 1
    BY <1>0
  <2>4. start \in [0 .. n + 1 -> Nat] /\ start[0] = 0
        /\ \A x, y \in 0 .. n + 1 : x <= y => start[x] <= start[y]
    BY <1>2 DEF TriesOK
  <2> QED
    BY <1>6, <2>1, <2>2, <2>3, <2>4
<1> HIDE DEF s
<1>9. ASSUME NEW i \in 1 .. Len(tries) PROVE \E j \in 0 .. k : i \in s[j] + 1 .. s[j + 1]
  <2>1. LET f == tries[i].calls IN f \in 0 .. n /\ i \in start[f] + 1 .. start[f + 1] /\ f <= k
    BY <1>2, <1>3, FrameOfBlock
  <2>2. tries[i].calls \in 0 .. k
    BY <1>0, <2>1
  <2> QED
    BY <1>8, <2>1, <2>2
<1>10. ASSUME NEW j \in 0 .. k
       PROVE  LET m == Len(L[Place(q, c, j)].tries) IN
              /\ s[j + 1] = s[j] + m
              /\ \A x \in 1 .. m : TryOK(L, q, c, tries, h, s, j, x)
  <2> DEFINE m == Len(L[Place(ip, calls, j)].tries)
  <2>1. s[j + 1] = s[j] + m
    BY <1>2, <1>5, <1>8 DEF TriesOK
  <2>2. ASSUME NEW x \in 1 .. m PROVE TryOK(L, q, c, tries, h, s, j, x)
    <3>1. TryOK(L, ip, calls, tries, height, start, j, x)
      BY <1>2, <1>5 DEF TriesOK
    <3>2. j < k => j < n /\ c[j + 1] = calls[j + 1]
      <4>1. j < k => j < n /\ j + 1 \in 1 .. k
        BY <1>0
      <4> QED
        BY <1>1, <4>1
    <3> QED
      BY <1>1, <1>4, <1>8, <3>1, <3>2 DEF TryOK
  <2> QED
    BY <1>4, <2>1, <2>2
<1>11. TriesOK(L, q, c, tries, h, s)
  BY <1>1, <1>8, <1>9, <1>10 DEF TriesOK
<1>12. Control(L, top, q, c, tries, h)
  BY <1>7, <1>11 DEF Control
<1> QED
  BY <1>1, <1>12 DEF c, q, h

(* The sums that compare the depths of handlers.                             *)
LEMMA LessDeep ==
    \A d, x, y, h, e \in Nat : x <= y /\ d + y <= h + e => d + x <= h + e
OBVIOUS

LEMMA OneDeeper ==
    \A d, x, r, t, e \in Nat : x <= r + 1 /\ d + r <= t + e => d + x <= (t + 1) + e
OBVIOUS

(* The innermost block of the last frame is closed, or left by an exception  *)
(* with the stack cut to where the block was opened and a value put on it.   *)
LEMMA LeavesBlock ==
    ASSUME NEW L, Labelled(L), NEW top \in Nat, NEW ip \in DOMAIN L, NEW q \in DOMAIN L,
           NEW calls \in FrameRecords, NEW tries \in TryRecords, NEW height \in Nat,
           NEW height1 \in Nat,
           Control(L, top, ip, calls, tries, height),
           L[ip].tries # <<>>,
           L[q].room <= L[ip].room,
           L[q].tries = SubSeq(L[ip].tries, 1, Len(L[ip].tries) - 1),
           \/ L[q].depth <= L[ip].depth /\ height1 = height
           \/ /\ L[q].depth <= L[ip].tries[Len(L[ip].tries)].depth + 1
              /\ height1 = tries[Len(tries)].depth + 1
    PROVE  /\ tries # <<>>
           /\ SubSeq(tries, 1, Len(tries) - 1) \in TryRecords
           /\ Control(L, top, q, calls, SubSeq(tries, 1, Len(tries) - 1), height1)
<1> DEFINE n == Len(calls)
           m == Len(L[ip].tries)
           z == Len(tries)
           less == SubSeq(tries, 1, z - 1)
           r == L[ip].tries[m].depth
           t == tries[z].depth
<1>0. n \in Nat /\ z \in Nat /\ Bottom(calls, n) \in Nat /\ RoomOf(top, calls, n) \in Nat
  <2>1. n \in Nat /\ Bottom(calls, n) \in Nat /\ (n # 0 => calls[n].size \in Nat)
    <3>1. /\ n \in Nat /\ \A k \in 1 .. n : calls[k].size \in Nat
          /\ \A k \in 0 .. n : Bottom(calls, k) \in Nat
      BY FrameTypes
    <3> QED
      BY ONLY <3>1
  <2>2. z \in Nat
    BY TryTypes
  <2> QED
    BY <2>1, <2>2 DEF RoomOf
<1>1. /\ L[ip].depth \in Nat /\ L[ip].room \in Nat /\ L[q].depth \in Nat /\ L[q].room \in Nat
      /\ \A j \in 1 .. m : L[ip].tries[j].depth \in Nat
      /\ m \in Nat /\ L[ip].tries \in Seq([catch : Nat, depth : Nat])
  BY LabelTypes
<1>2. m \in Nat \ {0}
  BY <1>1, EmptySeq
<1>3. /\ Len(L[q].tries) = m - 1
      /\ \A j \in 1 .. m - 1 : L[q].tries[j] = L[ip].tries[j]
  BY <1>1, <1>2, Prefix
<1>4. PICK start : TriesOK(L, ip, calls, tries, height, start)
  BY DEF Control
<1>5. Place(ip, calls, n) = ip /\ Place(q, calls, n) = q
      /\ HeightOf(calls, height, n) = height /\ HeightOf(calls, height1, n) = height1
  BY DEF Place, HeightOf
<1>6. start[n] \in Nat /\ start[n] + m = z
  <2>1. n \in 0 .. n /\ n \in 0 .. n + 1
    BY <1>0
  <2>2. start[n + 1] = start[n] + m /\ start[n] \in Nat /\ start[n + 1] = z
    BY <1>4, <1>5, <2>1 DEF TriesOK
  <2> QED
    BY <2>2
<1>7. z # 0 /\ z - 1 = start[n] + (m - 1)
  <2> HIDE DEF n, m, z
  <2>1. \A x, w \in Nat : \A v \in Nat \ {0} : x + v = w => w # 0 /\ w - 1 = x + (v - 1)
    OBVIOUS
  <2> QED
    BY <1>0, <1>2, <1>6, <2>1
<1>8. /\ less \in TryRecords /\ Len(less) = z - 1
      /\ \A i \in 1 .. z - 1 : less[i] = tries[i]
  <2>1. z - 1 \in 0 .. z
    BY <1>0, <1>7
  <2> QED
    BY <2>1, Prefix DEF TryRecords
<1>9. TryOK(L, ip, calls, tries, height, start, n, m)
  <2>1. n \in 0 .. n /\ m \in 1 .. m
    BY <1>0, <1>2
  <2> QED
    BY <1>4, <1>5, <2>1 DEF TriesOK
<1>10. /\ Bottom(calls, n) + r <= t /\ t \in Nat /\ r \in Nat
       /\ \A i \in 1 .. m - 1 :
             tries[start[n] + i].depth + r <= t + L[ip].tries[i].depth
  <2>1. t \in Nat /\ r \in Nat
    <3>1. m \in 1 .. m /\ z \in 1 .. z
      BY <1>0, <1>2, <1>7
    <3> QED
      BY <1>1, <3>1, TryTypes
  <2> QED
    BY <1>5, <1>6, <1>9, <2>1 DEF TryOK
<1>11. FrameOK(L, top, ip, calls, height, n)
  BY <1>0 DEF Control, FramesOK
<1>12. L[ip].room <= RoomOf(top, calls, n) /\ Bottom(calls, n) + L[ip].depth <= height
  BY <1>5, <1>11 DEF FrameOK
<1> HIDE DEF n, m, z, less, r, t
<1>13. \A k \in 0 .. n : k # n => Place(q, calls, k) = Place(ip, calls, k)
        /\ HeightOf(calls, height1, k) = HeightOf(calls, height, k)
  BY DEF Place, HeightOf, n
<1>14. FramesOK(L, top, q, calls, height1)
  <2>1. FrameOK(L, top, q, calls, height1, n)
    <3>1. (L[q].depth <= L[ip].depth /\ height1 = height) \/ (L[q].depth <= r + 1 /\ height1 = t + 1)
      BY DEF r, t, m, z
    <3>2. Bottom(calls, n) + L[q].depth <= height1
      <4>1. \A b, d, e, h \in Nat : b + d <= h /\ e <= d => b + e <= h
        OBVIOUS
      <4>2. \A b, d, e, h \in Nat : b + d <= h /\ e <= d + 1 => b + e <= h + 1
        OBVIOUS
      <4>3. Bottom(calls, n) + r <= t /\ r \in Nat /\ t \in Nat
        BY <1>10
      <4>4. CASE L[q].depth <= L[ip].depth /\ height1 = height
        BY <1>0, <1>1, <1>12, <4>1, <4>4
      <4>5. CASE L[q].depth <= r + 1 /\ height1 = t + 1
        BY <1>0, <1>1, <4>2, <4>3, <4>5
      <4> QED
        BY <3>1, <4>4, <4>5
    <3>3. L[q].room <= RoomOf(top, calls, n)
      <4>1. \A x, y, w \in Nat : x <= y /\ y <= w => x <= w
        OBVIOUS
      <4> QED
        BY <1>0, <1>1, <1>12, <4>1
    <3> QED
      BY <1>5, <3>2, <3>3 DEF FrameOK
  <2>2. ASSUME NEW k \in 0 .. n, k # n PROVE FrameOK(L, top, q, calls, height1, k)
    <3>1. FrameOK(L, top, ip, calls, height, k)
      BY DEF Control, FramesOK, n
    <3> QED
      BY <1>13, <2>2, <3>1 DEF FrameOK
  <2> QED
    BY <2>1, <2>2 DEF FramesOK, Control, n
<1> DEFINE s == [start EXCEPT ![n + 1] = z - 1]
<1>15. /\ s \in [0 .. n + 1 -> Nat] /\ s[0] = 0 /\ s[n + 1] = z - 1
       /\ \A x, y \in 0 .. n + 1 : x <= y => s[x] <= s[y]
       /\ \A k \in 0 .. n : s[k] = start[k]
  <2>1. /\ start \in [0 .. n + 1 -> Nat] /\ start[0] = 0
        /\ \A x, y \in 0 .. n + 1 : x <= y => start[x] <= start[y]
    BY <1>4 DEF TriesOK, n
  <2>2. \A k \in 0 .. n : k \in 0 .. n + 1 /\ k # n + 1
    BY <1>0
  <2>3. z - 1 \in Nat /\ n + 1 \in 0 .. n + 1 /\ 0 \in 0 .. n /\ n \in 0 .. n + 1
    BY <1>0, <1>7
  <2>4. s \in [0 .. n + 1 -> Nat] /\ s[n + 1] = z - 1 /\ \A k \in 0 .. n : s[k] = start[k]
    BY <2>1, <2>2, <2>3
  <2>5. \A k \in 0 .. n : start[k] <= z - 1
    <3> SUFFICES ASSUME NEW k \in 0 .. n PROVE start[k] <= z - 1
      OBVIOUS
    <3>1. start[k] <= start[n] /\ start[k] \in Nat
      BY <1>0, <2>1, <2>2, <2>3
    <3> QED
      <4>1. \A x, y, w \in Nat : \A v \in Nat \ {0} : x <= y /\ y + v = w => x <= w - 1
        OBVIOUS
      <4> QED
        BY <1>0, <1>2, <1>6, <3>1, <4>1
  <2> HIDE DEF s
  <2>6. ASSUME NEW x \in 0 .. n + 1, NEW y \in 0 .. n + 1, x <= y PROVE s[x] <= s[y]
    <3>1. (x \in 0 .. n \/ x = n + 1) /\ (y \in 0 .. n \/ y = n + 1) /\ (x = n + 1 => y = n + 1)
      BY <1>0, <2>6
    <3> QED
      BY <2>1, <2>2, <2>3, <2>4, <2>5, <2>6, <3>1
  <2> QED
    BY <2>1, <2>3, <2>4, <2>6
<1> HIDE DEF s
<1>16. ASSUME NEW i \in 1 .. z - 1 PROVE \E k \in 0 .. n : i \in s[k] + 1 .. s[k + 1]
  <2>1. i \in 1 .. z
    BY <1>0
  <2>2. PICK k \in 0 .. n : i \in start[k] + 1 .. start[k + 1]
    BY <1>4, <2>1 DEF TriesOK, n, z
  <2>3. CASE k = n
    <3>1. i \in s[n] + 1 .. s[n + 1]
      BY <1>0, <1>15, <2>2, <2>3, <1>6
    <3> QED
      BY <2>3, <3>1
  <2>4. CASE k # n
    <3>1. k + 1 \in 0 .. n
      BY <1>0, <2>4
    <3> QED
      BY <1>15, <2>2, <3>1
  <2> QED
    BY <2>3, <2>4
<1>17. ASSUME NEW k \in 0 .. n, k # n
       PROVE  LET l == Len(L[Place(q, calls, k)].tries) IN
              /\ s[k + 1] = s[k] + l
              /\ \A j \in 1 .. l : TryOK(L, q, calls, less, height1, s, k, j)
  <2> DEFINE l == Len(L[Place(ip, calls, k)].tries)
  <2>1. k + 1 \in 0 .. n
    BY <1>0, <1>17
  <2>2. s[k + 1] = s[k] + l
    BY <1>4, <1>15, <2>1 DEF TriesOK, n
  <2>3. Place(ip, calls, k) \in DOMAIN L
    BY DEF Control, FramesOK, FrameOK, n
  <2>4. ASSUME NEW j \in 1 .. l PROVE TryOK(L, q, calls, less, height1, s, k, j)
    <3>1. TryOK(L, ip, calls, tries, height, start, k, j)
      BY <1>4 DEF TriesOK, n
    <3>2. \A i \in 1 .. j : start[k] + i \in 1 .. z - 1
      <4>1. l \in Nat
        BY <2>3, LabelTypes
      <4>2. start[k + 1] <= z - 1 /\ start[k + 1] \in Nat /\ start[k] \in Nat
        <5>1. s[k + 1] <= s[n + 1] /\ s[k + 1] = start[k + 1] /\ s[k + 1] \in Nat
              /\ s[k] = start[k] /\ s[k] \in Nat
          <6>1. k + 1 <= n + 1 /\ k + 1 \in 0 .. n + 1 /\ n + 1 \in 0 .. n + 1 /\ k \in 0 .. n + 1
            BY <1>0
          <6> QED
            BY <1>15, <2>1, <6>1
        <5> QED
          BY <1>15, <5>1
      <4>3. start[k + 1] = start[k] + l
        BY <1>15, <2>1, <2>2
      <4>4. PICK x, c : x = start[k] /\ c = l
        OBVIOUS
      <4> HIDE DEF l
      <4>5. PICK w : w = z - 1
        OBVIOUS
      <4>6. x \in Nat /\ c \in Nat /\ w \in Int /\ x + c <= w /\ j \in 1 .. c
        BY <1>0, <4>1, <4>2, <4>3, <4>4, <4>5
      <4>7. \A i \in 1 .. j : x + i \in 1 .. w
        BY ONLY <4>6
      <4> QED
        BY ONLY <4>4, <4>5, <4>7
    <3>3. \A i \in 1 .. j : less[start[k] + i] = tries[start[k] + i]
      BY <1>8, <3>2
    <3>4. j \in 1 .. j /\ \A i \in 1 .. j - 1 : i \in 1 .. j
      OBVIOUS
    <3> QED
      BY <1>13, <1>15, <1>17, <3>1, <3>3, <3>4 DEF TryOK
  <2> QED
    BY <1>13, <1>17, <2>2, <2>4
<1>18. ASSUME NEW j \in 1 .. m - 1 PROVE TryOK(L, q, calls, less, height1, s, n, j)
  <2>1. TryOK(L, ip, calls, tries, height, start, n, j)
    <3>1. n \in 0 .. n /\ j \in 1 .. m
      BY <1>0, <1>1, <1>2 DEF m
    <3> QED
      BY <1>4, <1>5, <3>1 DEF TriesOK, n, m
  <2>2. \A i \in 1 .. j : start[n] + i \in 1 .. z - 1
    BY <1>6, <1>7, <1>2
  <2>3. \A i \in 1 .. j : less[start[n] + i] = tries[start[n] + i]
    BY <1>8, <2>2
  <2>4. j \in 1 .. j /\ \A i \in 1 .. j - 1 : i \in 1 .. j /\ i \in 1 .. m - 1
    BY <1>2
  <2>5. \A i \in 1 .. j : L[q].tries[i] = L[ip].tries[i]
    <3>1. \A i \in 1 .. j : i \in 1 .. m - 1
      BY <1>2
    <3> QED
      BY <1>3, <3>1 DEF m
  <2> DEFINE d == tries[start[n] + j].depth
             e == L[ip].tries[j].depth
  <2>6. d \in Nat /\ e \in Nat
    <3>1. start[n] + j \in 1 .. z /\ j \in 1 .. m
      BY <1>2, <1>6
    <3> QED
      BY <1>1, <3>1, TryTypes DEF z, m
  <2>7. d + L[ip].depth <= height + e
    BY <1>5, <2>1 DEF TryOK
  <2>8. d + r <= t + e
    BY <1>10
  <2>9. d + L[q].depth <= height1 + e
    <3>1. (L[q].depth <= L[ip].depth /\ height1 = height) \/ (L[q].depth <= r + 1 /\ height1 = t + 1)
      BY DEF r, t, m, z
    <3> HIDE DEF d, e, r, t
    <3>2. /\ L[ip].depth \in Nat /\ L[q].depth \in Nat /\ height \in Nat
          /\ r \in Nat /\ t \in Nat
      BY <1>1, <1>10
    <3>3. CASE L[q].depth <= L[ip].depth /\ height1 = height
      BY ONLY <2>6, <2>7, <3>2, <3>3, LessDeep
    <3>4. CASE L[q].depth <= r + 1 /\ height1 = t + 1
      BY ONLY <2>6, <2>8, <3>2, <3>4, OneDeeper
    <3> QED
      BY <3>1, <3>3, <3>4
  <2> HIDE DEF d, e
  <2>10. s[n] = start[n]
    <3>1. n \in 0 .. n
      BY <1>0
    <3>2. \A k \in 0 .. n : s[k] = start[k]
      BY <1>15
    <3> QED
      BY ONLY <3>1, <3>2
  <2>11. less[start[n] + j] = tries[start[n] + j] /\ L[q].tries[j] = L[ip].tries[j]
    BY <2>3, <2>4, <2>5
  <2>12. /\ tries[start[n] + j].calls = n
         /\ tries[start[n] + j].catch = L[ip].tries[j].catch
         /\ Bottom(calls, n) + e <= d
         /\ \A i \in 1 .. j - 1 :
              tries[start[n] + i].depth + e <= d + L[ip].tries[i].depth
    BY <1>5, <2>1 DEF TryOK, d, e
  <2>13. \A i \in 1 .. j - 1 : less[start[n] + i] = tries[start[n] + i] /\ L[q].tries[i] = L[ip].tries[i]
    BY <2>3, <2>4, <2>5
  <2>14. ~(n < Len(calls))
    BY <1>0 DEF n
  <2> QED
    BY <1>5, <2>9, <2>10, <2>11, <2>12, <2>13, <2>14 DEF TryOK, d, e
<1>19. /\ s[n + 1] = s[n] + Len(L[Place(q, calls, n)].tries)
       /\ \A j \in 1 .. Len(L[Place(q, calls, n)].tries) :
             TryOK(L, q, calls, less, height1, s, n, j)
  <2>1. Len(L[Place(q, calls, n)].tries) = m - 1
    BY <1>3, <1>5 DEF m
  <2>2. s[n] = start[n]
    BY <1>0, <1>15
  <2> QED
    BY <1>7, <1>15, <1>18, <2>1, <2>2
<1>20. TriesOK(L, q, calls, less, height1, s)
  BY <1>8, <1>15, <1>16, <1>17, <1>19 DEF TriesOK, n
<1>21. Control(L, top, q, calls, less, height1)
  BY <1>14, <1>20 DEF Control
<1> QED
  BY <1>0, <1>7, <1>8, <1>21 DEF less, z

(* A block is opened in the last frame. *)
LEMMA OpensBlock ==
    ASSUME NEW L, Labelled(L), NEW top \in Nat, NEW ip \in DOMAIN L, NEW q \in DOMAIN L,
           NEW calls \in FrameRecords, NEW tries \in TryRecords, NEW height \in Nat,
           NEW catch \in Nat, NEW base \in Nat,
           Control(L, top, ip, calls, tries, height),
           L[q].room <= L[ip].room, L[q].depth <= L[ip].depth,
           L[q].tries = Append(L[ip].tries, [catch |-> catch, depth |-> L[ip].depth])
    PROVE  LET t == [catch |-> catch, depth |-> height, top |-> base, calls |-> Len(calls)] IN
           /\ Append(tries, t) \in TryRecords
           /\ Control(L, top, q, calls, Append(tries, t), height)
<1> DEFINE n == Len(calls)
           m == Len(L[ip].tries)
           z == Len(tries)
           t == [catch |-> catch, depth |-> height, top |-> base, calls |-> Len(calls)]
           more == Append(tries, t)
           b == [catch |-> catch, depth |-> L[ip].depth]
<1>0. n \in Nat /\ z \in Nat /\ Bottom(calls, n) \in Nat /\ RoomOf(top, calls, n) \in Nat
  <2>1. n \in Nat /\ Bottom(calls, n) \in Nat /\ (n # 0 => calls[n].size \in Nat)
    <3>1. /\ n \in Nat /\ \A k \in 1 .. n : calls[k].size \in Nat
          /\ \A k \in 0 .. n : Bottom(calls, k) \in Nat
      BY FrameTypes
    <3> QED
      BY ONLY <3>1
  <2>2. z \in Nat
    BY TryTypes
  <2> QED
    BY <2>1, <2>2 DEF RoomOf
<1>1. /\ L[ip].depth \in Nat /\ L[ip].room \in Nat /\ L[q].depth \in Nat /\ L[q].room \in Nat
      /\ \A j \in 1 .. m : L[ip].tries[j].depth \in Nat
      /\ m \in Nat /\ L[ip].tries \in Seq([catch : Nat, depth : Nat])
  BY LabelTypes
<1>2. /\ Len(L[q].tries) = m + 1 /\ L[q].tries[m + 1] = b
      /\ \A j \in 1 .. m : L[q].tries[j] = L[ip].tries[j]
  <2>1. b \in [catch : Nat, depth : Nat]
    BY <1>1
  <2> HIDE DEF b
  <2>2. L[q].tries = Append(L[ip].tries, b)
    BY DEF b
  <2> QED
    BY <1>1, <2>1, <2>2, AppendProperties
<1>3. b.catch = catch /\ b.depth = L[ip].depth
  OBVIOUS
<1>4. more \in TryRecords /\ Len(more) = z + 1 /\ more[z + 1] = t /\ \A i \in 1 .. z : more[i] = tries[i]
  <2>1. t \in [catch : Nat, depth : Nat, top : Nat, calls : Nat]
    BY <1>0
  <2> HIDE DEF t
  <2> QED
    BY <2>1, AppendProperties DEF TryRecords
<1>5. t.catch = catch /\ t.depth = height /\ t.calls = n
  OBVIOUS
<1>6. PICK start : TriesOK(L, ip, calls, tries, height, start)
  BY DEF Control
<1>7. Place(ip, calls, n) = ip /\ Place(q, calls, n) = q /\ HeightOf(calls, height, n) = height
  BY DEF Place, HeightOf
<1>8. \A k \in 0 .. n : k # n => Place(q, calls, k) = Place(ip, calls, k)
  BY DEF Place
<1>9. start[n] \in Nat /\ start[n] + m = z /\ start[n + 1] = z
  <2>1. n \in 0 .. n /\ n \in 0 .. n + 1
    BY <1>0
  <2> QED
    BY <1>6, <1>7, <2>1 DEF TriesOK
<1>10. FrameOK(L, top, ip, calls, height, n)
  BY <1>0 DEF Control, FramesOK
<1>11. L[ip].room <= RoomOf(top, calls, n) /\ Bottom(calls, n) + L[ip].depth <= height
  BY <1>7, <1>10 DEF FrameOK
<1> HIDE DEF n, m, z, t, more, b
<1>12. Bottom(calls, n) + L[q].depth <= height /\ L[q].room <= RoomOf(top, calls, n)
  <2>1. \A x, y, w \in Nat : x <= y /\ y <= w => x <= w
    OBVIOUS
  <2>2. \A x, y, w, v \in Nat : x + y <= w /\ v <= y => x + v <= w
    OBVIOUS
  <2> QED
    BY <1>0, <1>1, <1>11, <2>1, <2>2
<1>13. FramesOK(L, top, q, calls, height)
  <2>1. FrameOK(L, top, q, calls, height, n)
    BY <1>7, <1>12 DEF FrameOK
  <2>2. ASSUME NEW k \in 0 .. n, k # n PROVE FrameOK(L, top, q, calls, height, k)
    <3>1. FrameOK(L, top, ip, calls, height, k)
      BY DEF Control, FramesOK, n
    <3> QED
      BY <1>8, <2>2, <3>1 DEF FrameOK
  <2> QED
    BY <2>1, <2>2 DEF FramesOK, Control, n
<1> DEFINE s == [start EXCEPT ![n + 1] = z + 1]
<1>14. /\ s \in [0 .. n + 1 -> Nat] /\ s[0] = 0 /\ s[n + 1] = z + 1
       /\ \A x, y \in 0 .. n + 1 : x <= y => s[x] <= s[y]
       /\ \A k \in 0 .. n : s[k] = start[k] /\ s[k] \in 0 .. z
       /\ \A k \in 0 .. n : start[k + 1] \in 0 .. z
  <2>1. /\ start \in [0 .. n + 1 -> Nat] /\ start[0] = 0
        /\ \A x, y \in 0 .. n + 1 : x <= y => start[x] <= start[y]
    BY <1>6 DEF TriesOK, n
  <2>2. \A k \in 0 .. n : k \in 0 .. n + 1 /\ k # n + 1 /\ k + 1 \in 0 .. n + 1
    BY <1>0
  <2>3. z + 1 \in Nat /\ n + 1 \in 0 .. n + 1 /\ 0 \in 0 .. n
    BY <1>0
  <2>4. s \in [0 .. n + 1 -> Nat] /\ s[n + 1] = z + 1 /\ \A k \in 0 .. n : s[k] = start[k]
    BY <2>1, <2>2, <2>3
  <2>5. \A k \in 0 .. n + 1 : start[k] \in 0 .. z
    <3> SUFFICES ASSUME NEW k \in 0 .. n + 1 PROVE start[k] \in 0 .. z
      OBVIOUS
    <3>1. start[k] <= start[n + 1] /\ start[k] \in Nat
      BY <1>0, <2>1, <2>3
    <3> QED
      BY <1>0, <1>9, <3>1
  <2> HIDE DEF s
  <2>6. ASSUME NEW x \in 0 .. n + 1, NEW y \in 0 .. n + 1, x <= y PROVE s[x] <= s[y]
    <3>1. (x \in 0 .. n \/ x = n + 1) /\ (y \in 0 .. n \/ y = n + 1) /\ (x = n + 1 => y = n + 1)
      BY <1>0, <2>6
    <3>2. x \in 0 .. n /\ y = n + 1 => s[x] <= s[y]
      BY <1>0, <2>2, <2>4, <2>5
    <3>3. x \in 0 .. n /\ y \in 0 .. n => s[x] <= s[y]
      BY <2>1, <2>2, <2>4, <2>6
    <3> QED
      BY <1>0, <2>4, <3>1, <3>2, <3>3
  <2> QED
    BY <2>1, <2>2, <2>3, <2>4, <2>5, <2>6
<1> HIDE DEF s
<1>15. ASSUME NEW i \in 1 .. z + 1 PROVE \E k \in 0 .. n : i \in s[k] + 1 .. s[k + 1]
  <2>1. CASE i = z + 1
    <3>1. n \in 0 .. n
      BY <1>0
    <3>2. s[n] \in 0 .. z /\ s[n + 1] = z + 1
      BY <1>14, <3>1
    <3>3. i \in s[n] + 1 .. s[n + 1]
      BY <1>0, <2>1, <3>2
    <3> QED
      BY <3>1, <3>3
  <2>2. CASE i \in 1 .. z
    <3>1. PICK k \in 0 .. n : i \in start[k] + 1 .. start[k + 1]
      BY <1>6, <2>2 DEF TriesOK, n, z
    <3>2. CASE k = n
      <4>1. i \in s[n] + 1 .. s[n + 1]
        BY <1>0, <1>9, <1>14, <3>1, <3>2
      <4> QED
        BY <3>2, <4>1
    <3>3. CASE k # n
      <4>1. k + 1 \in 0 .. n
        BY <1>0, <3>3
      <4> QED
        BY <1>14, <3>1, <4>1
    <3> QED
      BY <3>2, <3>3
  <2>3. i = z + 1 \/ i \in 1 .. z
    BY <1>0
  <2> QED
    BY <2>1, <2>2, <2>3
<1>16. ASSUME NEW k \in 0 .. n, NEW j \in 1 .. Len(L[Place(ip, calls, k)].tries)
       PROVE  /\ TryOK(L, ip, calls, tries, height, start, k, j)
              /\ s[k] = start[k]
              /\ \A i \in 1 .. j : more[start[k] + i] = tries[start[k] + i]
  <2> DEFINE l == Len(L[Place(ip, calls, k)].tries)
  <2>1. TryOK(L, ip, calls, tries, height, start, k, j)
    BY <1>6 DEF TriesOK, n
  <2>2. Place(ip, calls, k) \in DOMAIN L
    BY DEF Control, FramesOK, FrameOK, n
  <2>3. l \in Nat /\ start[k + 1] = start[k] + l /\ j \in 1 .. l
    <3>1. l \in Nat
      BY <2>2, LabelTypes
    <3>2. start[k + 1] = start[k] + l
      BY <1>6 DEF TriesOK, n
    <3> QED
      BY <3>1, <3>2
  <2>4. start[k + 1] \in 0 .. z /\ start[k] \in 0 .. z /\ s[k] = start[k]
    BY <1>14
  <2> HIDE DEF l
  <2>5. \A i \in 1 .. j : start[k] + i \in 1 .. z
    <3>1. \A x, y, w \in Nat : x + y <= w => \A u \in 1 .. y : \A v \in 1 .. u : x + v \in 1 .. w
      OBVIOUS
    <3>2. start[k] \in Nat /\ start[k] + l <= z
      BY <1>0, <2>3, <2>4
    <3> QED
      BY <1>0, <2>3, <3>1, <3>2
  <2> QED
    BY <1>4, <2>1, <2>4, <2>5
<1>17. ASSUME NEW k \in 0 .. n, k # n
       PROVE  LET l == Len(L[Place(q, calls, k)].tries) IN
              /\ s[k + 1] = s[k] + l
              /\ \A j \in 1 .. l : TryOK(L, q, calls, more, height, s, k, j)
  <2> DEFINE l == Len(L[Place(ip, calls, k)].tries)
  <2>1. k + 1 \in 0 .. n
    BY <1>0, <1>17
  <2>2. s[k + 1] = s[k] + l
    BY <1>6, <1>14, <2>1 DEF TriesOK, n
  <2>4. ASSUME NEW j \in 1 .. l PROVE TryOK(L, q, calls, more, height, s, k, j)
    <3>1. j \in 1 .. j /\ \A i \in 1 .. j - 1 : i \in 1 .. j
      OBVIOUS
    <3>2. /\ TryOK(L, ip, calls, tries, height, start, k, j)
          /\ s[k] = start[k]
          /\ \A i \in 1 .. j : more[start[k] + i] = tries[start[k] + i]
      BY <1>16
    <3>3. /\ more[start[k] + j] = tries[start[k] + j]
          /\ \A i \in 1 .. j - 1 : more[start[k] + i] = tries[start[k] + i]
      BY <3>1, <3>2
    <3> HIDE DEF l
    <3> QED
      BY <1>8, <1>17, <3>2, <3>3 DEF TryOK
  <2> QED
    BY <1>8, <1>17, <2>2, <2>4
<1>18. ASSUME NEW j \in 1 .. m PROVE TryOK(L, q, calls, more, height, s, n, j)
  <2>1. /\ TryOK(L, ip, calls, tries, height, start, n, j) /\ s[n] = start[n]
        /\ \A i \in 1 .. j : more[start[n] + i] = tries[start[n] + i]
    <3>1. n \in 0 .. n /\ j \in 1 .. Len(L[Place(ip, calls, n)].tries)
      BY <1>0, <1>7 DEF m
    <3> QED
      BY <1>16, <3>1
  <2>2. j \in 1 .. j /\ \A i \in 1 .. j - 1 : i \in 1 .. j
    OBVIOUS
  <2>3. \A i \in 1 .. j : L[q].tries[i] = L[ip].tries[i]
    <3>1. \A i \in 1 .. j : i \in 1 .. m
      BY <1>1 DEF m
    <3> QED
      BY <1>2, <3>1 DEF m
  <2> DEFINE d == tries[start[n] + j].depth
             e == L[ip].tries[j].depth
  <2>6. d \in Nat /\ e \in Nat
    <3>1. start[n] + j \in 1 .. z
      <4>1. \A x, y, w \in Nat : x + y = w => \A u \in 1 .. y : x + u \in 1 .. w
        OBVIOUS
      <4>2. m \in Nat
        BY <1>1 DEF m
      <4> QED
        BY <1>0, <1>9, <4>1, <4>2
    <3>2. j \in 1 .. Len(L[ip].tries)
      BY DEF m
    <3> QED
      BY <1>1, <3>1, <3>2, TryTypes DEF z, m
  <2>7. /\ d + L[ip].depth <= height + e
        /\ tries[start[n] + j].calls = n
        /\ tries[start[n] + j].catch = L[ip].tries[j].catch
        /\ Bottom(calls, n) + e <= d
        /\ \A i \in 1 .. j - 1 :
             tries[start[n] + i].depth + e <= d + L[ip].tries[i].depth
    BY <1>7, <2>1 DEF TryOK
  <2>8. d + L[q].depth <= height + e
    <3> HIDE DEF d, e
    <3>1. /\ L[ip].depth \in Nat /\ L[q].depth \in Nat /\ height \in Nat
          /\ L[q].depth <= L[ip].depth
      BY <1>1
    <3> QED
      BY ONLY <2>6, <2>7, <3>1, LessDeep
  <2>9. ~(n < Len(calls))
    BY <1>0 DEF n
  <2>10. more[start[n] + j] = tries[start[n] + j] /\ L[q].tries[j] = L[ip].tries[j]
    BY <2>1, <2>2, <2>3
  <2>11. \A i \in 1 .. j - 1 : more[start[n] + i] = tries[start[n] + i] /\ L[q].tries[i] = L[ip].tries[i]
    BY <2>1, <2>2, <2>3
  <2> QED
    BY <1>7, <2>1, <2>7, <2>8, <2>9, <2>10, <2>11 DEF TryOK
<1>19. TryOK(L, q, calls, more, height, s, n, m + 1)
  <2>1. s[n] = start[n] /\ start[n] + (m + 1) = z + 1 /\ (m + 1) - 1 = m
    <3>1. n \in 0 .. n
      BY <1>0
    <3>2. \A x, y, w \in Nat : x + y = w => x + (y + 1) = w + 1
      OBVIOUS
    <3>3. m \in Nat /\ (m + 1) - 1 = m
      BY <1>1 DEF m
    <3>4. s[n] = start[n]
      BY <1>14, <3>1
    <3>5. start[n] + (m + 1) = z + 1
      BY <1>0, <1>9, <3>2, <3>3
    <3> QED
      BY <3>3, <3>4, <3>5
  <2>2. ~(n < Len(calls))
    BY <1>0 DEF n
  <2>3. ASSUME NEW i \in 1 .. m
        PROVE  more[start[n] + i].depth + L[ip].depth <= height + L[q].tries[i].depth
    <3>1. n \in 0 .. n /\ i \in 1 .. Len(L[Place(ip, calls, n)].tries)
      BY <1>0, <1>7 DEF m
    <3>2. i \in 1 .. i
      BY <1>1 DEF m
    <3>3. TryOK(L, ip, calls, tries, height, start, n, i)
          /\ more[start[n] + i] = tries[start[n] + i]
      BY <1>16, <3>1, <3>2
    <3>4. tries[start[n] + i].depth + L[ip].depth <= height + L[ip].tries[i].depth
      BY <1>7, <3>3 DEF TryOK
    <3> QED
      BY <1>2, <3>3, <3>4 DEF m
  <2>4. more[s[n] + (m + 1)] = t
    BY <1>4, <2>1
  <2>5. L[q].tries[m + 1].depth = L[ip].depth /\ L[q].tries[m + 1].catch = catch
    BY <1>2, <1>3 DEF m
  <2>6. height + L[q].depth <= height + L[ip].depth
    BY <1>1
  <2> QED
    BY <1>5, <1>7, <1>11, <2>1, <2>2, <2>3, <2>4, <2>5, <2>6 DEF TryOK
<1>20. /\ s[n + 1] = s[n] + Len(L[Place(q, calls, n)].tries)
       /\ \A j \in 1 .. Len(L[Place(q, calls, n)].tries) :
             TryOK(L, q, calls, more, height, s, n, j)
  <2>1. Len(L[Place(q, calls, n)].tries) = m + 1
    BY <1>2, <1>7 DEF m
  <2>2. s[n] = start[n] /\ z + 1 = start[n] + (m + 1)
    <3>1. n \in 0 .. n
      BY <1>0
    <3>2. \A x, y, w \in Nat : x + y = w => x + (y + 1) = w + 1
      OBVIOUS
    <3>3. m \in Nat /\ (m + 1) - 1 = m
      BY <1>1 DEF m
    <3>4. s[n] = start[n]
      BY <1>14, <3>1
    <3>5. start[n] + (m + 1) = z + 1
      BY <1>0, <1>9, <3>2, <3>3
    <3> QED
      BY <3>3, <3>4, <3>5
  <2>3. \A j \in 1 .. m + 1 : j \in 1 .. m \/ j = m + 1
    BY <1>1 DEF m
  <2> QED
    BY <1>14, <1>18, <1>19, <2>1, <2>2, <2>3
<1>21. TriesOK(L, q, calls, more, height, s)
  BY <1>4, <1>14, <1>15, <1>17, <1>20 DEF TriesOK, n
<1>22. Control(L, top, q, calls, more, height)
  BY <1>13, <1>21 DEF Control
<1> QED
  BY <1>4, <1>22 DEF more, t

(* A function with no block open returns to its caller. *)
LEMMA ReturnsFromFrame ==
    ASSUME NEW L, Labelled(L), NEW top, NEW ip \in DOMAIN L,
           NEW calls \in FrameRecords, NEW tries \in TryRecords, NEW height,
           Control(L, top, ip, calls, tries, height),
           calls # <<>>, L[ip].tries = <<>>
    PROVE  LET n == Len(calls)
               c == SubSeq(calls, 1, n - 1)
           IN  /\ n \in Nat \ {0} /\ c \in FrameRecords /\ Len(c) = n - 1
               /\ calls[n].base \in Nat /\ calls[n].depth \in Nat
               /\ Bottom(calls, n) = calls[n].depth
               /\ Bottom(c, Len(c)) <= calls[n].depth
               /\ Control(L, top, calls[n].ret, c, tries, calls[n].depth + 1)
<1> DEFINE n == Len(calls)
           c == SubSeq(calls, 1, n - 1)
<1>0. n \in Nat \ {0} /\ n - 1 \in 0 .. n /\ n \in 1 .. n /\ n # 0
  <2>1. n \in Nat /\ n # 0
    BY EmptySeq, FrameTypes DEF FrameRecords
  <2> QED
    BY <2>1
<1>1. PICK start : TriesOK(L, ip, calls, tries, height, start)
  BY DEF Control
<1>2. FramesOK(L, top, ip, calls, height)
  BY DEF Control
<1>3. ASSUME NEW i \in 1 .. Len(tries) PROVE tries[i].calls <= n - 1
  <2>1. PICK j \in 1 .. Len(L[Place(ip, calls, tries[i].calls)].tries) : TRUE
    BY <1>1, <1>2, FrameOfBlock
  <2>2. tries[i].calls \in 0 .. n
    BY <1>1, <1>2, FrameOfBlock
  <2>3. tries[i].calls # n
    <3> SUFFICES ASSUME tries[i].calls = n PROVE FALSE
      OBVIOUS
    <3>1. Place(ip, calls, tries[i].calls) = ip
      BY DEF Place
    <3>2. j \in 1 .. Len(L[ip].tries) /\ Len(L[ip].tries) = 0
      BY <2>1, <3>1
    <3> QED
      BY <3>2
  <2> HIDE DEF n
  <2> QED
    BY <1>0, <2>2, <2>3
<1>4. /\ c \in FrameRecords /\ Len(c) = n - 1
      /\ Control(L, top, Place(ip, calls, n - 1), c, tries, HeightOf(calls, height, n - 1))
  <2> HIDE DEF n
  <2> QED
    BY <1>0, <1>3, LeavesFrames DEF n
<1>5. n - 1 # n /\ n - 1 + 1 = n
  BY <1>0
<1>6. Place(ip, calls, n - 1) = calls[n].ret /\ HeightOf(calls, height, n - 1) = calls[n].depth + 1
  BY <1>5 DEF Place, HeightOf
<1>7. calls[n].base \in Nat /\ calls[n].depth \in Nat
  BY <1>0, FrameTypes
<1>8. Bottom(calls, n) = calls[n].depth
  BY <1>0 DEF Bottom
<1>9. Bottom(c, n - 1) <= calls[n].depth
  <2>1. CASE n - 1 = 0
    BY <1>7, <2>1 DEF Bottom
  <2>2. CASE n - 1 # 0
    <3>1. n - 1 \in 1 .. n - 1 /\ n - 1 \in 1 .. n /\ n - 1 <= n /\ n - 1 \in 1 .. Len(calls)
      <4>1. \A x \in Nat \ {0} :
              x - 1 # 0 => x - 1 \in 1 .. x - 1 /\ x - 1 \in 1 .. x /\ x - 1 <= x
        OBVIOUS
      <4> QED
        BY <1>0, <2>2, <4>1
    <3>2. calls[n - 1].depth <= calls[n].depth
      BY <1>0, <1>2, <3>1 DEF FramesOK
    <3>3. c[n - 1] = calls[n - 1]
      <4>1. \A i \in 1 .. n - 1 : SubSeq(calls, 1, n - 1)[i] = calls[i]
        BY <1>0, Prefix DEF FrameRecords
      <4> QED
        BY <3>1, <4>1
    <3> HIDE DEF c
    <3> QED
      BY <2>2, <3>2, <3>3 DEF Bottom
  <2> QED
    BY <2>1, <2>2
<1> QED
  BY <1>0, <1>4, <1>6, <1>7, <1>8, <1>9

(* The handlers of a function are where their blocks lead to. *)
Handled(L) ==
    \A p \in DOMAIN L : \A j \in 1 .. Len(L[p].tries) :
        Follows(L, p, L[p].tries[j].catch, L[p].tries[j].depth + 1,
                SubSeq(L[p].tries, 1, j - 1))

(* An exception is caught by the innermost block that is open. *)
LEMMA CaughtByBlock ==
    ASSUME NEW L, Labelled(L), Handled(L), NEW top \in Nat, NEW ip \in DOMAIN L,
           NEW calls \in FrameRecords, NEW tries \in TryRecords, NEW height \in Nat,
           NEW left \in Nat,
           Control(L, top, ip, calls, tries, height),
           Bottom(calls, Len(calls)) <= left,
           \A i \in 1 .. Len(tries) :
               tries[i].calls = Len(calls) => tries[i].depth <= left,
           tries # <<>>
    PROVE  LET t == tries[Len(tries)] IN
           /\ t.depth \in 0 .. left /\ t.top \in Nat
           /\ SubSeq(calls, 1, t.calls) \in FrameRecords
           /\ SubSeq(tries, 1, Len(tries) - 1) \in TryRecords
           /\ Control(L, top, t.catch, SubSeq(calls, 1, t.calls),
                      SubSeq(tries, 1, Len(tries) - 1), t.depth + 1)
<1> DEFINE n == Len(calls)
           z == Len(tries)
           t == tries[z]
           k == t.calls
           c == SubSeq(calls, 1, k)
           p == Place(ip, calls, k)
           h == HeightOf(calls, height, k)
           m == Len(L[p].tries)
<1>0. z \in Nat \ {0} /\ z \in 1 .. z /\ n \in Nat
  <2>1. z \in Nat /\ z # 0 /\ n \in Nat
    BY EmptySeq, FrameTypes, TryTypes DEF TryRecords
  <2> QED
    BY <2>1
<1>1. PICK start : TriesOK(L, ip, calls, tries, height, start)
  BY DEF Control
<1>2. FramesOK(L, top, ip, calls, height)
  BY DEF Control
<1>3. PICK j \in 1 .. m : z = start[k] + j /\ TryOK(L, ip, calls, tries, height, start, k, j)
  BY <1>0, <1>1, <1>2, FrameOfBlock
<1>4. k \in 0 .. n /\ z \in start[k] + 1 .. start[k + 1]
  BY <1>0, <1>1, <1>2, FrameOfBlock
<1>5. p \in DOMAIN L
  BY <1>2, <1>4 DEF FramesOK, FrameOK
<1>6. start \in [0 .. n + 1 -> Nat] /\ start[n + 1] = z
      /\ \A x, y \in 0 .. n + 1 : x <= y => start[x] <= start[y]
  BY <1>1 DEF TriesOK
<1>7. m \in Nat /\ start[k + 1] = start[k] + m
  <2>1. m \in Nat
    BY <1>5, LabelTypes
  <2>2. start[k + 1] = start[k] + m
    BY <1>1, <1>4 DEF TriesOK
  <2> QED
    BY <2>1, <2>2
<1>8. t.depth \in Nat /\ t.catch \in Nat /\ t.top \in Nat
  BY <1>0, TryTypes
<1> HIDE DEF n, z, t, k, c, p, h, m
<1>9. start[k] \in Nat /\ start[k + 1] \in Nat /\ start[k + 1] = z
  <2>1. k \in 0 .. n + 1 /\ k + 1 \in 0 .. n + 1 /\ n + 1 \in 0 .. n + 1 /\ k + 1 <= n + 1
    BY <1>0, <1>4
  <2>2. start[k] \in Nat /\ start[k + 1] \in Nat /\ start[k + 1] <= z
    BY <1>6, <2>1
  <2> QED
    BY <1>0, <1>4, <2>2
<1>10. j = m /\ m \in Nat \ {0} /\ m \in 1 .. m
  <2>1. \A a, b, d \in Nat : a + b = d => \A x \in 1 .. b : d = a + x => x = b /\ b # 0
    OBVIOUS
  <2>2. j = m /\ m # 0
    BY <1>0, <1>3, <1>7, <1>9, <2>1
  <2> QED
    BY <1>7, <2>2
<1>11. ASSUME NEW i \in 1 .. z PROVE tries[i].calls <= k
  <2> DEFINE f == tries[i].calls
  <2>1. f \in 0 .. n /\ i \in start[f] + 1 .. start[f + 1]
    BY <1>1, <1>2, FrameOfBlock DEF n, z
  <2> HIDE DEF f
  <2> SUFFICES ASSUME k < f PROVE FALSE
    BY <1>0, <1>4, <2>1 DEF f
  <2>2. k + 1 \in 0 .. n + 1 /\ f \in 0 .. n + 1 /\ k + 1 <= f
    BY <1>0, <1>4, <2>1
  <2>3. start[k + 1] <= start[f] /\ start[f] \in Nat
    BY <1>6, <2>2
  <2> QED
    BY <1>0, <1>9, <2>1, <2>3
<1>12. /\ c \in FrameRecords /\ Len(c) = k /\ Control(L, top, p, c, tries, h)
  BY <1>4, <1>11, LeavesFrames DEF c, p, h, n, z
<1>13. h \in Nat
  <2>1. k # n => k + 1 \in 1 .. n
    BY <1>0, <1>4
  <2>2. k # n => calls[k + 1].depth \in Nat
    BY <2>1, FrameTypes DEF n
  <2> QED
    BY <2>2 DEF h, HeightOf, n
<1>14. t.depth <= left
  <2>1. CASE k = n
    <3>1. tries[z].calls = Len(calls) /\ z \in 1 .. Len(tries)
      BY <2>1, <1>0 DEF k, n, z, t
    <3> QED
      BY <3>1 DEF t
  <2>2. CASE k # n
    <3>1. k < Len(calls) /\ k + 1 \in 1 .. Len(calls) /\ Len(calls) # 0
          /\ Len(calls) \in 1 .. Len(calls) /\ k + 1 <= Len(calls)
      BY <1>0, <1>4, <2>2 DEF n
    <3>2. t.depth <= calls[k + 1].depth
      BY <1>3, <3>1 DEF TryOK, t
    <3>3. calls[k + 1].depth <= calls[Len(calls)].depth
      BY <1>2, <3>1 DEF FramesOK
    <3>4. calls[Len(calls)].depth <= left
      BY <3>1 DEF Bottom
    <3>5. calls[k + 1].depth \in Nat /\ calls[Len(calls)].depth \in Nat
      BY <3>1, FrameTypes
    <3>6. \A x, y, w, v \in Nat : x <= y /\ y <= w /\ w <= v => x <= v
      OBVIOUS
    <3> QED
      BY <1>8, <3>2, <3>3, <3>4, <3>5, <3>6
  <2> QED
    BY <2>1, <2>2
<1>15. Follows(L, p, t.catch, L[p].tries[m].depth + 1, SubSeq(L[p].tries, 1, m - 1))
  <2>1. t.catch = L[p].tries[m].catch
    BY <1>3, <1>10 DEF TryOK, t, p
  <2>2. m \in 1 .. Len(L[p].tries)
    BY <1>10 DEF m
  <2> QED
    BY <1>5, <2>1, <2>2 DEF Handled
<1>16. L[p].tries # <<>>
  BY <1>10 DEF m
<1>17. /\ SubSeq(tries, 1, z - 1) \in TryRecords
       /\ Control(L, top, t.catch, c, SubSeq(tries, 1, z - 1), t.depth + 1)
  <2>1. t.depth + 1 \in Nat /\ t.catch \in DOMAIN L
        /\ L[t.catch].room <= L[p].room /\ L[t.catch].tries = SubSeq(L[p].tries, 1, m - 1)
        /\ L[t.catch].depth <= L[p].tries[m].depth + 1
    BY <1>8, <1>15 DEF Follows
  <2> QED
    BY <1>5, <1>12, <1>13, <1>16, <2>1, LeavesBlock DEF m, z, t
<1> QED
  BY <1>8, <1>12, <1>14, <1>17 DEF t, z, c, k

-----------------------------------------------------------------------------
(* What the operations on the cache do to the height of the stack and to the *)
(* part of it that is in memory.                                             *)

Height(c) == Len(c[1]) + Len(c[2])

\* c1 is a cache of that height; what of c was in memory and is below low
\* still is.
Stacked(c, c1, V, height, low) ==
    /\ IsCache(c1, V) /\ Height(c1) = height
    /\ \A b \in Nat : b <= Len(c[1]) /\ b <= low => b <= Len(c1[1])

LEMMA CacheTypes ==
    ASSUME NEW V, NEW c, IsCache(c, V)
    PROVE  /\ c[1] \in Seq(V) /\ c[2] \in Seq(V) /\ c = <<c[1], c[2]>>
           /\ \E a \in Nat : \E z \in 0 .. 2 :
                 /\ Len(c[1]) = a /\ Len(c[2]) = z /\ Height(c) = a + z
                 /\ \A i \in 1 .. a : c[1][i] \in V
                 /\ \A i \in 1 .. z : c[2][i] \in V
<1>1. c[1] \in Seq(V) /\ c[2] \in Seq(V) /\ c = <<c[1], c[2]>> /\ Len(c[2]) <= 2
  BY DEF IsCache
<1>2. PICK a \in Nat : Len(c[1]) = a
  BY <1>1, LenProperties
<1>3. PICK z \in Nat : Len(c[2]) = z
  BY <1>1, LenProperties
<1>4. z \in 0 .. 2
  BY <1>1, <1>3
<1>5. Height(c) = a + z
  BY <1>2, <1>3 DEF Height
<1>6. /\ \A i \in 1 .. a : c[1][i] \in V
      /\ \A i \in 1 .. z : c[2][i] \in V
  BY <1>1, <1>2, <1>3, ElementOfSeq
<1> QED
  BY <1>1, <1>2, <1>3, <1>4, <1>5, <1>6

LEMMA StackedPair ==
    ASSUME NEW V, NEW c, IsCache(c, V), NEW mem \in Seq(V), NEW regs \in Seq(V),
           NEW low \in Int, Len(regs) <= 2, Len(c[1]) <= Len(mem) \/ low <= Len(mem)
    PROVE  Stacked(c, <<mem, regs>>, V, Len(mem) + Len(regs), low)
<1> DEFINE d == <<mem, regs>>
<1>1. d[1] = mem /\ d[2] = regs /\ d \in Seq(V) \X Seq(V)
  OBVIOUS
<1> HIDE DEF d
<1>2. IsCache(d, V) /\ Height(d) = Len(mem) + Len(regs)
  BY <1>1 DEF IsCache, Height
<1>3. PICK k \in Nat : Len(mem) = k
  BY LenProperties
<1>4. PICK a \in Nat : Len(c[1]) = a
  BY CacheTypes
<1>5. \A b \in Nat : b <= a /\ b <= low => b <= k
  BY <1>3, <1>4
<1>6. Stacked(c, d, V, Len(mem) + Len(regs), low)
  BY <1>1, <1>2, <1>3, <1>4, <1>5 DEF Stacked
<1> QED
  BY <1>6 DEF d

LEMMA PushStacks ==
    ASSUME NEW V, NEW c, IsCache(c, V), NEW v \in V
    PROVE  Stacked(c, PUSH_TOS(c, v), V, Height(c) + 1, Height(c) + 1)
<1>00. PICK a \in Nat, z \in 0 .. 2 :
          /\ Len(c[1]) = a /\ Len(c[2]) = z /\ Height(c) = a + z
          /\ \A i \in 1 .. a : c[1][i] \in V
          /\ \A i \in 1 .. z : c[2][i] \in V
  BY CacheTypes
<1>01. c[1] \in Seq(V) /\ c[2] \in Seq(V)
  BY CacheTypes
<1>02. Height(c) + 1 \in Int
  BY <1>00
<1>1. CASE z < 2
  <2> DEFINE r == Append(c[2], v)
  <2>1. r \in Seq(V) /\ Len(r) = z + 1
    BY <1>00, <1>01, AppendProperties
  <2>2. PUSH_TOS(c, v) = <<c[1], r>>
    BY <1>00, <1>1 DEF PUSH_TOS
  <2> HIDE DEF r
  <2>3. Len(r) <= 2 /\ Len(c[1]) + Len(r) = Height(c) + 1
    BY <1>00, <1>1, <2>1
  <2>4. Len(c[1]) <= Len(c[1])
    BY <1>00
  <2>5. Stacked(c, <<c[1], r>>, V, Len(c[1]) + Len(r), Height(c) + 1)
    BY <1>01, <1>02, <2>1, <2>3, <2>4, StackedPair
  <2> QED
    BY <2>2, <2>3, <2>5
<1>2. CASE z = 2
  <2> DEFINE m == Append(c[1], c[2][1])
             r == <<c[2][2], v>>
  <2>1. c[2][1] \in V /\ c[2][2] \in V
    BY <1>00, <1>2
  <2>2. m \in Seq(V) /\ Len(m) = a + 1
    BY <1>00, <1>01, <2>1, AppendProperties
  <2>3. r \in Seq(V) /\ Len(r) = 2
    BY <2>1
  <2>4. PUSH_TOS(c, v) = <<m, r>>
    BY <1>00, <1>2 DEF PUSH_TOS
  <2> HIDE DEF m, r
  <2>5. Len(r) <= 2 /\ Len(c[1]) <= Len(m) /\ Len(m) + Len(r) = Height(c) + 1
    BY <1>00, <1>2, <2>2, <2>3
  <2>6. Stacked(c, <<m, r>>, V, Len(m) + Len(r), Height(c) + 1)
    BY <1>02, <2>2, <2>3, <2>5, StackedPair
  <2> QED
    BY <2>4, <2>5, <2>6
<1>3. z < 2 \/ z = 2
  BY <1>00
<1> QED
  BY <1>1, <1>2, <1>3

LEMMA PeekIn ==
    ASSUME NEW V, NEW c, IsCache(c, V), Height(c) >= 1
    PROVE  PEEK_TOS(c) \in V
<1>00. PICK a \in Nat, z \in 0 .. 2 :
          /\ Len(c[1]) = a /\ Len(c[2]) = z /\ Height(c) = a + z
          /\ \A i \in 1 .. a : c[1][i] \in V
          /\ \A i \in 1 .. z : c[2][i] \in V
  BY CacheTypes
<1>01. c[1] \in Seq(V) /\ c[2] \in Seq(V)
  BY CacheTypes
<1>1. CASE z >= 1
  BY <1>00, <1>1 DEF PEEK_TOS
<1>2. CASE ~(z >= 1)
  BY <1>00, <1>2 DEF PEEK_TOS
<1> QED
  BY <1>1, <1>2

LEMMA DiscardStacks ==
    ASSUME NEW V, NEW c, IsCache(c, V), Height(c) >= 1
    PROVE  Stacked(c, DISCARD_TOS(c), V, Height(c) - 1, Height(c) - 1)
<1>00. PICK a \in Nat, z \in 0 .. 2 :
          /\ Len(c[1]) = a /\ Len(c[2]) = z /\ Height(c) = a + z
          /\ \A i \in 1 .. a : c[1][i] \in V
          /\ \A i \in 1 .. z : c[2][i] \in V
  BY CacheTypes
<1>01. c[1] \in Seq(V) /\ c[2] \in Seq(V)
  BY CacheTypes
<1>02. Height(c) - 1 \in Int
  BY <1>00
<1>1. CASE z >= 1
  <2> DEFINE r == SubSeq(c[2], 1, Len(c[2]) - 1)
  <2>1. Len(c[2]) - 1 \in 0 .. Len(c[2])
    BY <1>00, <1>1
  <2>2. r \in Seq(V) /\ Len(r) = z - 1
    BY <1>00, <1>01, <2>1, Prefix
  <2>3. DISCARD_TOS(c) = <<c[1], r>>
    BY <1>00, <1>1 DEF DISCARD_TOS
  <2> HIDE DEF r
  <2>4. Len(r) <= 2 /\ Len(c[1]) + Len(r) = Height(c) - 1 /\ Len(c[1]) <= Len(c[1])
    BY <1>00, <1>1, <2>2
  <2>5. Stacked(c, <<c[1], r>>, V, Len(c[1]) + Len(r), Height(c) - 1)
    BY <1>01, <1>02, <2>2, <2>4, StackedPair
  <2> QED
    BY <2>3, <2>4, <2>5
<1>2. CASE ~(z >= 1)
  <2> DEFINE m == SubSeq(c[1], 1, Len(c[1]) - 1)
  <2>1. Len(c[1]) - 1 \in 0 .. Len(c[1])
    BY <1>00, <1>2
  <2>2. m \in Seq(V) /\ Len(m) = a - 1
    BY <1>00, <1>01, <2>1, Prefix
  <2>3. DISCARD_TOS(c) = <<m, c[2]>>
    BY <1>00, <1>2 DEF DISCARD_TOS
  <2> HIDE DEF m
  <2>4. Len(c[2]) <= 2 /\ Len(m) + Len(c[2]) = Height(c) - 1 /\ Height(c) - 1 <= Len(m)
    BY <1>00, <1>2, <2>2
  <2>5. Stacked(c, <<m, c[2]>>, V, Len(m) + Len(c[2]), Height(c) - 1)
    BY <1>01, <1>02, <2>2, <2>4, StackedPair
  <2> QED
    BY <2>3, <2>4, <2>5
<1> QED
  BY <1>1, <1>2

LEMMA TopTwoIn ==
    ASSUME NEW V, NEW c, IsCache(c, V), Height(c) >= 2
    PROVE  TopTwo(c)[1] \in V /\ TopTwo(c)[2] \in V
<1>00. PICK a \in Nat, z \in 0 .. 2 :
          /\ Len(c[1]) = a /\ Len(c[2]) = z /\ Height(c) = a + z
          /\ \A i \in 1 .. a : c[1][i] \in V
          /\ \A i \in 1 .. z : c[2][i] \in V
  BY CacheTypes
<1>01. c[1] \in Seq(V) /\ c[2] \in Seq(V)
  BY CacheTypes
<1>1. CASE z = 2
  BY <1>00, <1>01, <1>1 DEF TopTwo
<1>2. CASE z = 1
  BY <1>00, <1>01, <1>2 DEF TopTwo
<1>3. CASE z = 0
  BY <1>00, <1>01, <1>3 DEF TopTwo
<1> QED
  BY <1>00, <1>01, <1>1, <1>2, <1>3

LEMMA PopTwoStacks ==
    ASSUME NEW V, NEW c, IsCache(c, V), Height(c) >= 2
    PROVE  /\ Stacked(c, POP_TWO_TOS(c), V, Height(c) - 2, Height(c) - 2)
           /\ \A v \in V : Stacked(c, BINARY_OP(c, v), V, Height(c) - 1, Height(c) - 2)
<1>00. PICK a \in Nat, z \in 0 .. 2 :
          /\ Len(c[1]) = a /\ Len(c[2]) = z /\ Height(c) = a + z
          /\ \A i \in 1 .. a : c[1][i] \in V
          /\ \A i \in 1 .. z : c[2][i] \in V
  BY CacheTypes
<1>01. c[1] \in Seq(V) /\ c[2] \in Seq(V)
  BY CacheTypes
<1> DEFINE m == SubSeq(c[1], 1, Len(c[1]) - (2 - Len(c[2])))
           e == <<>>
<1>02. Height(c) - 2 \in Int
  BY <1>00
<1>1. Len(c[1]) - (2 - Len(c[2])) \in 0 .. Len(c[1])
  BY <1>00
<1>2. m \in Seq(V) /\ Len(m) = Len(c[1]) - (2 - Len(c[2]))
  BY <1>01, <1>1, Prefix
<1>3. POP_TWO_TOS(c) = <<m, e>> /\ \A v : BINARY_OP(c, v) = <<m, <<v>>>>
  BY DEF POP_TWO_TOS, BINARY_OP
<1>4. e \in Seq(V) /\ Len(e) = 0
  OBVIOUS
<1> HIDE DEF m, e
<1>5. Len(m) = Height(c) - 2 /\ Height(c) - 2 <= Len(m)
  BY <1>00, <1>2
<1>6. Stacked(c, POP_TWO_TOS(c), V, Height(c) - 2, Height(c) - 2)
  <2>1. Len(e) <= 2 /\ Len(m) + Len(e) = Height(c) - 2
    BY <1>02, <1>4, <1>5
  <2>2. Stacked(c, <<m, e>>, V, Len(m) + Len(e), Height(c) - 2)
    BY <1>02, <1>2, <1>4, <1>5, <2>1, StackedPair
  <2> QED
    BY <1>3, <2>1, <2>2
<1>7. ASSUME NEW v \in V PROVE Stacked(c, BINARY_OP(c, v), V, Height(c) - 1, Height(c) - 2)
  <2> DEFINE r == <<v>>
  <2>1. r \in Seq(V) /\ Len(r) = 1
    OBVIOUS
  <2>2. BINARY_OP(c, v) = <<m, r>>
    BY <1>3
  <2> HIDE DEF r
  <2>3. Len(r) <= 2 /\ Len(m) + Len(r) = Height(c) - 1
    BY <1>00, <1>5, <2>1
  <2>4. Stacked(c, <<m, r>>, V, Len(m) + Len(r), Height(c) - 2)
    BY <1>02, <1>2, <1>5, <2>1, <2>3, StackedPair
  <2> QED
    BY <2>2, <2>3, <2>4
<1> QED
  BY <1>6, <1>7

LEMMA FlushStacks ==
    ASSUME NEW V, NEW c, IsCache(c, V)
    PROVE  /\ Stacked(c, FLUSH_TOS(c), V, Height(c), Height(c))
           /\ \A v, w \in V : Stacked(c, PUSH_TWO(c, v, w), V, Height(c) + 2, Height(c))
           /\ Contents(c) \in Seq(V) /\ Len(Contents(c)) = Height(c)
<1>00. PICK a \in Nat, z \in 0 .. 2 :
          /\ Len(c[1]) = a /\ Len(c[2]) = z /\ Height(c) = a + z
          /\ \A i \in 1 .. a : c[1][i] \in V
          /\ \A i \in 1 .. z : c[2][i] \in V
  BY CacheTypes
<1>01. c[1] \in Seq(V) /\ c[2] \in Seq(V)
  BY CacheTypes
<1> DEFINE m == c[1] \o c[2]
           e == <<>>
<1>02. Height(c) \in Int
  BY <1>00
<1>1. m \in Seq(V) /\ Len(m) = Height(c)
  BY <1>01, JoinedSeqs DEF Height
<1>2. /\ FLUSH_TOS(c) = <<m, e>> /\ \A v, w : PUSH_TWO(c, v, w) = <<m, <<v, w>>>>
      /\ Contents(c) = m
  BY DEF FLUSH_TOS, PUSH_TWO, Contents
<1>3. e \in Seq(V) /\ Len(e) = 0
  OBVIOUS
<1> HIDE DEF m, e
<1>4. Height(c) <= Len(m)
  BY <1>00, <1>1
<1>5. Stacked(c, FLUSH_TOS(c), V, Height(c), Height(c))
  <2>1. Len(e) <= 2 /\ Len(m) + Len(e) = Height(c)
    BY <1>02, <1>1, <1>3
  <2>2. Stacked(c, <<m, e>>, V, Len(m) + Len(e), Height(c))
    BY <1>02, <1>1, <1>3, <1>4, <2>1, StackedPair
  <2> QED
    BY <1>2, <2>1, <2>2
<1>6. ASSUME NEW v \in V, NEW w \in V
      PROVE  Stacked(c, PUSH_TWO(c, v, w), V, Height(c) + 2, Height(c))
  <2> DEFINE r == <<v, w>>
  <2>1. r \in Seq(V) /\ Len(r) = 2
    OBVIOUS
  <2>2. PUSH_TWO(c, v, w) = <<m, r>>
    BY <1>2
  <2> HIDE DEF r
  <2>3. Len(r) <= 2 /\ Len(m) + Len(r) = Height(c) + 2
    BY <1>00, <1>1, <2>1
  <2>4. Stacked(c, <<m, r>>, V, Len(m) + Len(r), Height(c))
    BY <1>02, <1>1, <1>4, <2>1, <2>3, StackedPair
  <2> QED
    BY <2>2, <2>3, <2>4
<1> QED
  BY <1>1, <1>2, <1>5, <1>6

LEMMA TakeArgsStacks ==
    ASSUME NEW V, NEW c, IsCache(c, V), NEW n \in 0 .. Height(c)
    PROVE  /\ IsCache(TAKE_ARGS(c, n), V)
           /\ Len(TAKE_ARGS(c, n)[1]) = Height(c) - n
           /\ Height(TAKE_ARGS(c, n)) = Height(c) - n
           /\ Arguments(c, n) \in Seq(V) /\ Len(Arguments(c, n)) = n
<1>00. PICK a \in Nat, z \in 0 .. 2 :
          /\ Len(c[1]) = a /\ Len(c[2]) = z /\ Height(c) = a + z
          /\ \A i \in 1 .. a : c[1][i] \in V
          /\ \A i \in 1 .. z : c[2][i] \in V
  BY CacheTypes
<1>01. c[1] \in Seq(V) /\ c[2] \in Seq(V)
  BY CacheTypes
<1>1. PICK m \in Seq(V) : TAKE_ARGS(c, n) = <<m, <<>>>> /\ Len(m) = Height(c) - n
  <2>1. CASE n >= z
    <3> DEFINE m == SubSeq(c[1], 1, Len(c[1]) - (n - Len(c[2])))
    <3>1. Len(c[1]) - (n - Len(c[2])) \in 0 .. Len(c[1])
          /\ Len(c[1]) - (n - Len(c[2])) = Height(c) - n
      BY <1>00, <2>1
    <3>2. m \in Seq(V) /\ Len(m) = Len(c[1]) - (n - Len(c[2]))
      BY <1>01, <3>1, Prefix
    <3>3. TAKE_ARGS(c, n) = <<m, <<>>>>
      BY <1>00, <2>1 DEF TAKE_ARGS
    <3> HIDE DEF m
    <3> QED
      BY <3>1, <3>2, <3>3
  <2>2. CASE ~(n >= z)
    <3> DEFINE r == SubSeq(c[2], 1, Len(c[2]) - n)
               m == c[1] \o r
    <3>1. Len(c[2]) - n \in 0 .. Len(c[2])
      BY <1>00, <2>2
    <3>2. r \in Seq(V) /\ Len(r) = Len(c[2]) - n
      BY <1>01, <3>1, Prefix
    <3>3. TAKE_ARGS(c, n) = <<m, <<>>>>
      BY <1>00, <2>2 DEF TAKE_ARGS
    <3> HIDE DEF r
    <3>4. m \in Seq(V) /\ Len(m) = Len(c[1]) + Len(r)
      BY <1>01, <3>2, JoinedSeqs
    <3> HIDE DEF m
    <3>5. Len(m) = Height(c) - n
      BY <1>00, <3>2, <3>4
    <3> QED
      BY <3>3, <3>4, <3>5
  <2> QED
    BY <2>1, <2>2
<1>2. n \in Nat
  BY <1>00
<1>3. ASSUME NEW k \in 1 .. n PROVE Arguments(c, n)[k] \in V
  <2>1. CASE n - k < z
    <3>1. z - (n - k) \in 1 .. z
      BY <1>00, <1>2, <2>1
    <3> QED
      BY <1>00, <2>1, <3>1 DEF Arguments
  <2>2. CASE ~(n - k < z)
    <3>1. a - (n - k - z) \in 1 .. a
      BY <1>00, <2>2
    <3> QED
      BY <1>00, <2>2, <3>1 DEF Arguments
  <2> QED
    BY <2>1, <2>2
<1>4. Arguments(c, n) \in Seq(V) /\ Len(Arguments(c, n)) = n
  <2> DEFINE s == Arguments(c, n)
  <2>1. s \in [1 .. n -> V]
    BY <1>3 DEF Arguments
  <2> HIDE DEF s
  <2>2. s \in Seq(V) /\ Len(s) = n
    BY <1>2, <2>1
  <2> QED
    BY <2>2 DEF s
<1> DEFINE e == <<>>
           d == <<m, e>>
<1>5. e \in Seq(V) /\ Len(e) = 0
  OBVIOUS
<1>6. d[1] = m /\ d[2] = e /\ d \in Seq(V) \X Seq(V)
  BY <1>5
<1>7. d = TAKE_ARGS(c, n)
  BY <1>1
<1> HIDE DEF d, e
<1>8. IsCache(d, V)
  BY <1>5, <1>6 DEF IsCache
<1>9. Height(d) = Height(c) - n
  BY <1>00, <1>1, <1>2, <1>5, <1>6 DEF Height
<1> QED
  BY <1>1, <1>4, <1>6, <1>7, <1>8, <1>9

LEMMA ReturnStacks ==
    ASSUME NEW V, NEW c, IsCache(c, V), Height(c) >= 1, NEW depth \in 0 .. Len(c[1])
    PROVE  /\ IsCache(RETURN_TOS(c, depth), V)
           /\ Len(RETURN_TOS(c, depth)[1]) = depth
           /\ Height(RETURN_TOS(c, depth)) = depth + 1
<1>00. PICK a \in Nat, z \in 0 .. 2 :
          /\ Len(c[1]) = a /\ Len(c[2]) = z /\ Height(c) = a + z
          /\ \A i \in 1 .. a : c[1][i] \in V
          /\ \A i \in 1 .. z : c[2][i] \in V
  BY CacheTypes
<1>01. c[1] \in Seq(V) /\ c[2] \in Seq(V)
  BY CacheTypes
<1> DEFINE m == SubSeq(c[1], 1, depth)
           r == <<PEEK_TOS(c)>>
           d == <<m, r>>
<1>1. m \in Seq(V) /\ Len(m) = depth
  BY <1>01, Prefix
<1>2. PEEK_TOS(c) \in V
  BY PeekIn
<1>3. r \in Seq(V) /\ Len(r) = 1
  BY <1>2
<1>4. RETURN_TOS(c, depth) = d
  BY DEF RETURN_TOS
<1> HIDE DEF m, r
<1>5. d[1] = m /\ d[2] = r /\ d \in Seq(V) \X Seq(V)
  BY <1>1, <1>3
<1> HIDE DEF d
<1>6. IsCache(d, V)
  <2>1. Len(d[2]) <= 2
    BY <1>3, <1>5
  <2> QED
    BY <1>5, <2>1 DEF IsCache
<1>7. Height(d) = depth + 1
  BY <1>00, <1>1, <1>3, <1>5 DEF Height
<1> QED
  BY <1>1, <1>4, <1>5, <1>6, <1>7

-----------------------------------------------------------------------------
(* The invariant: L labels the code, V holds every value there is.           *)

VMFields == {"ip", "locals", "top", "calls", "tries", "heap", "out", "outcome"}

Strings == {opt.strings[i] : i \in DOMAIN opt.strings}

(* The code is the translated one but for instructions that were quickened. *)
Quickened(L) ==
    /\ "code" \in DOMAIN opt /\ DOMAIN code = DOMAIN opt.code
    /\ \A p \in 0 .. Len(opt.code) - 1 :
          \/ Byte(code, p) = Byte(opt.code, p)
          \/ /\ p \in DOMAIN L /\ Byte(opt.code, p) \in DOMAIN QuickOf
             /\ Byte(code, p) = QuickOf[Byte(opt.code, p)]

ValuesOK(V, heap) ==
    /\ Nil \in V
    /\ \A v \in V : AsInt(v) \in Int /\ (IsObj(v) => v[2] \in 1 .. Len(heap))

Records(V) == [cls : Strings, names : Seq(Strings), vals : Seq(V)]

ObjectOK(obj) ==
    /\ Len(obj.names) = Len(obj.vals)
    /\ \A i, j \in 1 .. Len(obj.names) : obj.names[i] = obj.names[j] => i = j

HeapOK(V, heap) ==
    /\ heap \in Seq(Records(V))
    /\ \A id \in 1 .. Len(heap) : ObjectOK(heap[id])

FieldSiteOK(heap, k, site) ==
    site.shape # 0 =>
        /\ site.shape \in 1 .. Len(heap)
        /\ site.slot \in 1 .. Len(heap[site.shape].names)
        /\ heap[site.shape].names[site.slot] = opt.strings[opt.fields[k]]

MethodSiteOK(L, heap, k, site) ==
    site.shape # 0 =>
        /\ site.shape \in 1 .. Len(heap)
        /\ HasMethod(opt, heap[site.shape], opt.strings[opt.methods[k]])
        /\ site.entry = opt.functions[Method(opt, heap[site.shape],
                                             opt.strings[opt.methods[k]])]
        /\ site.size \in Nat /\ Enterable(L, site.entry, site.size)
        /\ \A r \in DOMAIN L :
              Byte(opt.code, r) = Op.INVOKE_METHOD_IC /\ UInt16(opt.code, r + 1) + 1 = k
              => site.size = FrameSize(opt, Method(opt, heap[site.shape],
                                                   opt.strings[opt.methods[k]]),
                                       Byte(opt.code, r + 3) + 1)

SitesOK(L, heap) ==
    /\ DOMAIN fieldICs = DOMAIN opt.fields /\ DOMAIN methodICs = DOMAIN opt.methods
    /\ \A k \in DOMAIN fieldICs : FieldSiteOK(heap, k, fieldICs[k])
    /\ \A k \in DOMAIN methodICs : MethodSiteOK(L, heap, k, methodICs[k])

MachineOK(V) ==
    /\ DOMAIN vm = VMFields /\ vm.top \in Nat
    /\ vm.calls \in FrameRecords /\ vm.tries \in TryRecords
    /\ \A i \in DOMAIN vm.locals : vm.locals[i] \in V
    /\ IsCache(cache, V)

Running(L) ==
    vm.outcome = "running" =>
        /\ Control(L, opt.topSize, vm.ip, vm.calls, vm.tries, Height(cache))
        /\ Bottom(vm.calls, Len(vm.calls)) <= Len(cache[1])

VMInv(L, V) ==
    /\ Verified(opt, L) /\ Quickened(L)
    /\ ValuesOK(V, vm.heap) /\ HeapOK(V, vm.heap) /\ SitesOK(L, vm.heap)
    /\ MachineOK(V) /\ Running(L)

-----------------------------------------------------------------------------
LEMMA VerifiedLabels ==
    ASSUME NEW L, Verified(opt, L)
    PROVE  /\ Labelled(L) /\ Handled(L) /\ opt.topSize \in Nat
           /\ \A p \in DOMAIN L : p \in 0 .. Len(opt.code) - 1 /\ Checked(opt, L, p)
           /\ Len(opt.code) \in Nat /\ DOMAIN opt.code = 1 .. Len(opt.code)
           /\ \A n \in 1 .. Len(opt.code) : opt.code[n] \in 0 .. 255
<1>1. opt.code \in Seq(0 .. 255) /\ DOMAIN L \subseteq 0 .. Len(opt.code) - 1
      /\ opt.topSize \in Nat /\ \A p \in DOMAIN L : L[p] \in Labels /\ Checked(opt, L, p)
  BY DEF Verified
<1>2. Len(opt.code) \in Nat /\ DOMAIN opt.code = 1 .. Len(opt.code)
      /\ \A n \in 1 .. Len(opt.code) : opt.code[n] \in 0 .. 255
  BY <1>1, LenProperties, ElementOfSeq
<1>3. Labelled(L)
  <2>1. \A p \in 0 .. Len(opt.code) - 1 : p \in Nat
    BY <1>2
  <2> QED
    BY <1>1, <2>1 DEF Labelled
<1>4. Handled(L)
  <2> SUFFICES ASSUME NEW p \in DOMAIN L, NEW j \in 1 .. Len(L[p].tries)
               PROVE  Follows(L, p, L[p].tries[j].catch, L[p].tries[j].depth + 1,
                              SubSeq(L[p].tries, 1, j - 1))
    BY DEF Handled
  <2>1. TryBlocks(opt, L, p, Byte(opt.code, p))
    BY <1>1 DEF Checked
  <2>2. j \in DOMAIN L[p].tries
    BY <1>3, LabelTypes, LenProperties
  <2> QED
    BY <2>1, <2>2 DEF TryBlocks
<1> QED
  BY <1>1, <1>2, <1>3, <1>4

(* The instructions that may be quickened and the quickened ones. *)
LEMMA QuickTable ==
    /\ DOMAIN QuickOf = {Op.ADD, Op.SUB, Op.MUL, Op.LT, Op.LE, Op.EQ, Op.GT, Op.GE}
    /\ DOMAIN QuickOf \subseteq Binaries
    /\ \A o \in DOMAIN QuickOf : QuickOf[o] \notin Translated
    /\ \A o, x \in DOMAIN QuickOf : QuickOf[o] = QuickOf[x] => o = x
    /\ \A o \in DOMAIN QuickOf : QuickOf[o] # o
<1>1. DOMAIN QuickOf = {Op.ADD, Op.SUB, Op.MUL, Op.LT, Op.LE, Op.EQ, Op.GT, Op.GE}
  BY DEF QuickOf
<1>2. DOMAIN QuickOf \subseteq Binaries
  BY <1>1 DEF Binaries
<1>3. /\ QuickOf[Op.ADD] = 188 /\ QuickOf[Op.SUB] = 189 /\ QuickOf[Op.MUL] = 190
      /\ QuickOf[Op.LT] = 191 /\ QuickOf[Op.LE] = 192 /\ QuickOf[Op.EQ] = 193
      /\ QuickOf[Op.GT] = 206 /\ QuickOf[Op.GE] = 207
  BY OpNumbers DEF QuickOf
<1>4. \A o \in DOMAIN QuickOf : QuickOf[o] \in 188 .. 193 \cup {206, 207} /\ o \in 32 .. 53
  BY <1>1, <1>3, OpNumbers
<1>5. \A x \in 188 .. 193 \cup {206, 207} : x \notin Translated
  BY OpNumbers DEF Translated, Binaries, Jumps
<1>6. \A o, x \in DOMAIN QuickOf : QuickOf[o] = QuickOf[x] => o = x
  BY <1>1, <1>3, OpNumbers
<1> QED
  BY <1>1, <1>2, <1>4, <1>5, <1>6

(* What an instruction is about to do, from the translated code alone. *)
LEMMA Decoded ==
    ASSUME NEW L, NEW V, VMInv(L, V), vm.outcome = "running"
    PROVE  LET i == Byte(opt.code, vm.ip) IN
           /\ vm.ip \in DOMAIN L /\ vm.ip \in Nat /\ i \in Translated
           /\ op = i \/ (i \in DOMAIN QuickOf /\ op = QuickOf[i])
           /\ \A k \in 1 .. Width(i) - 1 : Byte(code, vm.ip + k) = Byte(opt.code, vm.ip + k)
           /\ vm.ip + 1 \in DOMAIN code
<1> DEFINE p == vm.ip
           i == Byte(opt.code, p)
<1>1. Control(L, opt.topSize, p, vm.calls, vm.tries, Height(cache))
  BY DEF VMInv, Running
<1>2. p \in DOMAIN L
  <2>1. Len(vm.calls) \in 0 .. Len(vm.calls) /\ Place(p, vm.calls, Len(vm.calls)) = p
    BY FrameTypes DEF VMInv, MachineOK, Place
  <2>2. FrameOK(L, opt.topSize, p, vm.calls, Height(cache), Len(vm.calls))
    BY <1>1, <2>1 DEF Control, FramesOK
  <2> QED
    BY <2>1, <2>2 DEF FrameOK
<1>3. p \in 0 .. Len(opt.code) - 1 /\ Checked(opt, L, p) /\ Len(opt.code) \in Nat
      /\ DOMAIN opt.code = 1 .. Len(opt.code)
  BY <1>2, VerifiedLabels DEF VMInv
<1>4. i \in Translated /\ p + Width(i) <= Len(opt.code)
      /\ \A k \in 1 .. Width(i) - 1 : p + k \notin DOMAIN L
  BY <1>3 DEF Checked
<1>5. op = i \/ (i \in DOMAIN QuickOf /\ op = QuickOf[i])
  BY <1>3 DEF VMInv, Quickened, op
<1>6. ASSUME NEW k \in 1 .. Width(i) - 1 PROVE Byte(code, p + k) = Byte(opt.code, p + k)
  <2>1. Width(i) \in Int
    BY OpNumbers, <1>4 DEF Width, OptLen, CanonicalLen
  <2>2. p + k \in 0 .. Len(opt.code) - 1
    BY <1>3, <1>4, <2>1
  <2> QED
    BY <1>4, <2>2 DEF VMInv, Quickened
<1>7. p + 1 \in DOMAIN code
  BY <1>3 DEF VMInv, Quickened
<1> QED
  BY <1>2, <1>3, <1>4, <1>5, <1>6, <1>7

LEMMA LargerSeq ==
    ASSUME NEW V, NEW W, V \subseteq W
    PROVE  Seq(V) \subseteq Seq(W)
<1> SUFFICES ASSUME NEW s \in Seq(V) PROVE s \in Seq(W)
  OBVIOUS
<1>1. Len(s) \in Nat /\ s \in [1 .. Len(s) -> V]
  BY LenProperties
<1>2. s \in [1 .. Len(s) -> W]
  BY <1>1
<1> QED
  BY <1>1, <1>2

(* A value that names no object, or one there is, may be added to V. *)
LEMMA Grown ==
    ASSUME NEW L, NEW V, VMInv(L, V), NEW v, AsInt(v) \in Int,
           IsObj(v) => v[2] \in 1 .. Len(vm.heap)
    PROVE  VMInv(L, V \cup {v})
<1> DEFINE W == V \cup {v}
<1>1. V \subseteq W /\ Seq(V) \subseteq Seq(W)
  BY LargerSeq
<1>2. ValuesOK(W, vm.heap)
  BY DEF VMInv, ValuesOK
<1>3. HeapOK(W, vm.heap)
  <2>1. Records(V) \subseteq Records(W)
    BY <1>1 DEF Records
  <2>2. Seq(Records(V)) \subseteq Seq(Records(W))
    BY <2>1, LargerSeq
  <2> QED
    BY <2>2 DEF VMInv, HeapOK
<1>4. MachineOK(W)
  BY <1>1 DEF VMInv, MachineOK, IsCache
<1> QED
  BY <1>2, <1>3, <1>4 DEF VMInv

(* An instruction that leaves the frames alone. *)
LEMMA StaysInFrame ==
    ASSUME NEW L, NEW V, NEW W, VMInv(L, V), vm.outcome = "running",
           NEW q, NEW takes \in Nat, NEW leaves \in Nat,
           q \in Successors(opt.code, vm.ip, Byte(opt.code, vm.ip)),
           takes = Takes(Byte(opt.code, vm.ip), Byte(opt.code, vm.ip + 3)),
           leaves = Leaves(Byte(opt.code, vm.ip)),
           opt' = opt, vm'.ip = q, vm'.calls = vm.calls, vm'.tries = vm.tries,
           Stacked(cache, cache', W, Height(cache) + leaves - takes, Height(cache) - takes)
    PROVE  Running(L)'
<1> DEFINE p == vm.ip
           n == Len(vm.calls)
           b == Bottom(vm.calls, n)
<1>1. p \in DOMAIN L /\ Labelled(L) /\ opt.topSize \in Nat /\ Checked(opt, L, p)
  BY Decoded, VerifiedLabels DEF VMInv
<1>2. vm.calls \in FrameRecords /\ vm.tries \in TryRecords /\ IsCache(cache, V)
  BY DEF VMInv, MachineOK
<1>3. PICK h \in Nat : Height(cache) = h
  BY <1>2, CacheTypes
<1>4. Control(L, opt.topSize, p, vm.calls, vm.tries, h) /\ b <= Len(cache[1])
  BY <1>3 DEF VMInv, Running
<1>5. b \in Nat /\ b + L[p].depth <= h
  <2>1. n \in Nat /\ n \in 0 .. n /\ Place(p, vm.calls, n) = p /\ HeightOf(vm.calls, h, n) = h
    BY <1>2, FrameTypes DEF Place, HeightOf
  <2>2. FrameOK(L, opt.topSize, p, vm.calls, h, n)
    BY <1>4, <2>1 DEF Control, FramesOK
  <2>3. b \in Nat
    BY <1>2, <2>1, FrameTypes
  <2> QED
    BY <2>1, <2>2, <2>3 DEF FrameOK
<1>6. PICK d \in Nat : L[p].depth = d
  BY <1>1, LabelTypes
<1>7. d - takes >= 0 /\ Follows(L, p, q, d - takes + leaves, L[p].tries)
  BY <1>1, <1>6 DEF Checked
<1>8. q \in DOMAIN L /\ L[q].depth <= d - takes + leaves /\ L[q].room <= L[p].room
      /\ L[q].tries = L[p].tries
  BY <1>7 DEF Follows
<1>9. L[q].depth \in Nat
  BY <1>1, <1>8, LabelTypes
<1> DEFINE g == h + leaves - takes
<1>10. g \in Nat /\ L[q].depth + h <= L[p].depth + g /\ b <= h - takes
  <2>1. g \in Nat /\ L[q].depth + h <= d + g /\ b <= h - takes
    <3> DEFINE e == L[q].depth
               x == b
    <3>1. x \in Nat /\ x + d <= h /\ d - takes >= 0 /\ e \in Nat /\ e <= d - takes + leaves
      BY <1>5, <1>6, <1>7, <1>8, <1>9
    <3> HIDE DEF e, x
    <3>2. g \in Nat /\ e + h <= d + g /\ x <= h - takes
      BY <3>1
    <3> QED
      BY <3>2 DEF e, x
  <2> QED
    BY <1>6, <2>1
<1>11. Height(cache') = g
  BY <1>3 DEF Stacked
<1> HIDE DEF g
<1>12. Control(L, opt.topSize, q, vm.calls, vm.tries, g)
  BY <1>1, <1>2, <1>4, <1>8, <1>10, GoesOn
<1>13. b <= Len(cache'[1])
  BY <1>3, <1>4, <1>5, <1>10 DEF Stacked
<1> QED
  BY <1>11, <1>12, <1>13 DEF Running

(* The stack holds what an instruction takes. *)
LEMMA EnoughOnStack ==
    ASSUME NEW L, NEW V, VMInv(L, V), vm.outcome = "running"
    PROVE  /\ Height(cache) \in Nat
           /\ L[vm.ip].depth \in Nat
           /\ Bottom(vm.calls, Len(vm.calls)) \in Nat
           /\ Bottom(vm.calls, Len(vm.calls)) + L[vm.ip].depth <= Height(cache)
           /\ \A takes \in Nat :
                takes = Takes(Byte(opt.code, vm.ip), Byte(opt.code, vm.ip + 3)) =>
                    /\ Height(cache) >= takes /\ L[vm.ip].depth >= takes
                    /\ \A j \in 1 .. Len(L[vm.ip].tries) :
                          L[vm.ip].tries[j].depth <= L[vm.ip].depth - takes
<1> DEFINE p == vm.ip
           n == Len(vm.calls)
           b == Bottom(vm.calls, n)
<1>1. p \in DOMAIN L /\ Labelled(L) /\ Checked(opt, L, p)
  BY Decoded, VerifiedLabels DEF VMInv
<1>2. vm.calls \in FrameRecords /\ IsCache(cache, V)
  BY DEF VMInv, MachineOK
<1>3. PICK h \in Nat : Height(cache) = h
  BY <1>2, CacheTypes
<1>4. b \in Nat /\ b + L[p].depth <= h
  <2>1. n \in Nat /\ n \in 0 .. n /\ Place(p, vm.calls, n) = p /\ HeightOf(vm.calls, h, n) = h
    BY <1>2, FrameTypes DEF Place, HeightOf
  <2>2. FrameOK(L, opt.topSize, p, vm.calls, h, n)
    BY <1>3, <2>1 DEF VMInv, Running, Control, FramesOK
  <2>3. b \in Nat
    BY <1>2, <2>1, FrameTypes
  <2> QED
    BY <2>1, <2>2, <2>3 DEF FrameOK
<1>5. PICK d \in Nat : L[p].depth = d
  BY <1>1, LabelTypes
<1>6. ASSUME NEW takes \in Nat,
             takes = Takes(Byte(opt.code, vm.ip), Byte(opt.code, vm.ip + 3))
      PROVE  /\ Height(cache) >= takes /\ d >= takes
             /\ \A j \in 1 .. Len(L[p].tries) : L[p].tries[j].depth <= d - takes
  <2>1. d - takes >= 0 /\ \A j \in DOMAIN L[p].tries : L[p].tries[j].depth <= d - takes
    BY <1>1, <1>5, <1>6 DEF Checked
  <2>2. Height(cache) >= takes
    BY <1>3, <1>4, <1>5, <1>6, <2>1
  <2>3. DOMAIN L[p].tries = 1 .. Len(L[p].tries)
    BY <1>1, LabelTypes, LenProperties
  <2> QED
    BY <1>5, <1>6, <2>1, <2>2, <2>3
<1> QED
  BY <1>3, <1>4, <1>5, <1>6

(* Instructions that go on behind themselves. *)
Straight(o, takes, leaves, len) ==
    /\ o \in Translated /\ Width(o) = len /\ Leaves(o) = leaves
    /\ \A n : Takes(o, n) = takes
    /\ \A bytes, p : p + len \in Successors(bytes, p, o)

LEMMA StraightTable ==
    /\ Straight(Op.PUSH_INT, 0, 1, 9) /\ Straight(Op.PUSH_STRING, 0, 1, 3)
    /\ Straight(Op.PUSH_BOOL, 0, 1, 2) /\ Straight(Op.POP, 1, 0, 1)
    /\ Straight(Op.DUP, 1, 2, 1) /\ Straight(Op.LOAD_LOCAL, 0, 1, 3)
    /\ Straight(Op.STORE_LOCAL, 1, 1, 3) /\ Straight(Op.STORE_LOCAL_POP, 1, 0, 3)
    /\ Straight(Op.INCR_LOCAL_IMM, 0, 0, 5) /\ Straight(Op.LOAD_LOAD_LOCAL, 0, 2, 5)
    /\ Straight(Op.FUSED_ADD_LOCAL_LOCAL_STORE, 0, 0, 7)
    /\ Straight(Op.FUSED_MUL_ADD_I64, 0, 0, 9)
    /\ Straight(Op.PRINTLN, 1, 1, 1) /\ Straight(Op.NEW_INSTANCE, 0, 1, 4)
    /\ Straight(Op.GET_FIELD_IC, 1, 1, 3) /\ Straight(Op.SET_FIELD_IC, 2, 0, 3)
    /\ \A o \in Binaries : Straight(o, 2, 1, 1)
    /\ \A n \in 0 .. 3 : /\ Straight(Op.LOAD_LOCAL_0 + n, 0, 1, 1)
                         /\ Straight(Op.STORE_LOCAL_0 + n, 1, 1, 1)
                         /\ Straight(Op.STORE_LOCAL_0_POP + n, 1, 0, 1)
<1>1. Straight(Op.PUSH_INT, 0, 1, 9) /\ Straight(Op.PUSH_STRING, 0, 1, 3)
      /\ Straight(Op.PUSH_BOOL, 0, 1, 2) /\ Straight(Op.POP, 1, 0, 1)
  BY OpNumbers DEF Straight, Translated, Width, OptLen, CanonicalLen, Takes, Leaves,
     Successors, Binaries, Jumps
<1>2. Straight(Op.DUP, 1, 2, 1) /\ Straight(Op.LOAD_LOCAL, 0, 1, 3)
      /\ Straight(Op.STORE_LOCAL, 1, 1, 3) /\ Straight(Op.STORE_LOCAL_POP, 1, 0, 3)
  BY OpNumbers DEF Straight, Translated, Width, OptLen, CanonicalLen, Takes, Leaves,
     Successors, Binaries, Jumps
<1>3. Straight(Op.INCR_LOCAL_IMM, 0, 0, 5) /\ Straight(Op.LOAD_LOAD_LOCAL, 0, 2, 5)
      /\ Straight(Op.FUSED_ADD_LOCAL_LOCAL_STORE, 0, 0, 7)
      /\ Straight(Op.FUSED_MUL_ADD_I64, 0, 0, 9)
  BY OpNumbers DEF Straight, Translated, Width, OptLen, CanonicalLen, Takes, Leaves,
     Successors, Binaries, Jumps
<1>4. Straight(Op.PRINTLN, 1, 1, 1) /\ Straight(Op.NEW_INSTANCE, 0, 1, 4)
      /\ Straight(Op.GET_FIELD_IC, 1, 1, 3) /\ Straight(Op.SET_FIELD_IC, 2, 0, 3)
  BY OpNumbers DEF Straight, Translated, Width, OptLen, CanonicalLen, Takes, Leaves,
     Successors, Binaries, Jumps
<1>5. \A o \in Binaries : Straight(o, 2, 1, 1)
  BY OpNumbers DEF Straight, Translated, Width, OptLen, CanonicalLen, Takes, Leaves,
     Successors, Binaries, Jumps
<1>6. \A n \in 0 .. 3 : Straight(Op.LOAD_LOCAL_0 + n, 0, 1, 1)
  BY OpNumbers DEF Straight, Translated, Width, OptLen, CanonicalLen, Takes, Leaves,
     Successors, Binaries, Jumps
<1>7. \A n \in 0 .. 3 : Straight(Op.STORE_LOCAL_0 + n, 1, 1, 1)
  BY OpNumbers DEF Straight, Translated, Width, OptLen, CanonicalLen, Takes, Leaves,
     Successors, Binaries, Jumps
<1>8. \A n \in 0 .. 3 : Straight(Op.STORE_LOCAL_0_POP + n, 1, 0, 1)
  BY OpNumbers DEF Straight, Translated, Width, OptLen, CanonicalLen, Takes, Leaves,
     Successors, Binaries, Jumps
<1> QED
  BY <1>1, <1>2, <1>3, <1>4, <1>5, <1>6, <1>7, <1>8

LEMMA Recognised ==
    ASSUME NEW L, NEW V, VMInv(L, V), NEW o \in Translated, At(o)
    PROVE  vm.outcome = "running" /\ Byte(opt.code, vm.ip) = o
<1>1. vm.outcome = "running" /\ op = o
  BY DEF At
<1>2. LET i == Byte(opt.code, vm.ip) IN op = i \/ (i \in DOMAIN QuickOf /\ op = QuickOf[i])
  BY <1>1, Decoded
<1> QED
  BY <1>1, <1>2, QuickTable

(* The operands of an instruction are those of the translated code, bytes. *)
LEMMA Operands ==
    ASSUME NEW L, NEW V, VMInv(L, V), vm.outcome = "running",
           NEW len \in Nat, Width(Byte(opt.code, vm.ip)) = len
    PROVE  /\ \A k \in 1 .. len - 1 : /\ Byte(code, vm.ip + k) = Byte(opt.code, vm.ip + k)
                                      /\ Byte(code, vm.ip + k) \in 0 .. 255
           /\ \A k \in 1 .. len - 2 : /\ U(k) = UInt16(opt.code, vm.ip + k)
                                      /\ U(k) \in Nat
                                      /\ S(k) = Int16(opt.code, vm.ip + k)
                                      /\ S(k) \in Int
<1>1. /\ vm.ip \in DOMAIN L /\ vm.ip \in Nat
      /\ \A k \in 1 .. len - 1 : Byte(code, vm.ip + k) = Byte(opt.code, vm.ip + k)
  BY Decoded
<1>2. vm.ip + len <= Len(opt.code) /\ Len(opt.code) \in Nat
      /\ \A n \in 1 .. Len(opt.code) : opt.code[n] \in 0 .. 255
  BY <1>1, VerifiedLabels DEF VMInv, Checked
<1>3. ASSUME NEW k \in 1 .. len - 1 PROVE Byte(opt.code, vm.ip + k) \in 0 .. 255
  <2>1. (vm.ip + k) + 1 \in 1 .. Len(opt.code)
    BY <1>1, <1>2
  <2> QED
    BY <1>2, <2>1 DEF Byte
<1>4. ASSUME NEW k \in 1 .. len - 2
      PROVE  /\ U(k) = UInt16(opt.code, vm.ip + k) /\ U(k) \in Nat
             /\ S(k) = Int16(opt.code, vm.ip + k) /\ S(k) \in Int
  <2>1. k \in 1 .. len - 1 /\ k + 1 \in 1 .. len - 1 /\ vm.ip + (k + 1) = (vm.ip + k) + 1
    BY <1>1
  <2>2. /\ Byte(code, vm.ip + k) = Byte(opt.code, vm.ip + k)
        /\ Byte(code, (vm.ip + k) + 1) = Byte(opt.code, (vm.ip + k) + 1)
        /\ Byte(opt.code, vm.ip + k) \in 0 .. 255
        /\ Byte(opt.code, (vm.ip + k) + 1) \in 0 .. 255
    BY <1>1, <1>3, <2>1
  <2>3. UInt16(code, vm.ip + k) = UInt16(opt.code, vm.ip + k)
        /\ UInt16(opt.code, vm.ip + k) \in Nat
    <3> DEFINE x == Byte(opt.code, vm.ip + k)
               y == Byte(opt.code, (vm.ip + k) + 1)
    <3>1. x \in 0 .. 255 /\ y \in 0 .. 255 /\ Byte(code, vm.ip + k) = x
          /\ Byte(code, (vm.ip + k) + 1) = y
      BY <2>2
    <3> HIDE DEF x, y
    <3>2. x + 256 * y \in Nat
      BY <3>1
    <3> QED
      BY <3>1, <3>2 DEF UInt16, x, y
  <2>4. Int16(code, vm.ip + k) = Int16(opt.code, vm.ip + k)
        /\ Int16(opt.code, vm.ip + k) \in Int
    BY <2>3 DEF Int16
  <2> QED
    BY <2>3, <2>4 DEF U, S
<1> QED
  BY <1>1, <1>3, <1>4

-----------------------------------------------------------------------------
(* A machine that differs in its variables and perhaps in its objects. *)
Kept(m, V) ==
    /\ DOMAIN m = VMFields /\ m.top \in Nat
    /\ m.calls = vm.calls /\ m.tries = vm.tries
    /\ \A i \in DOMAIN m.locals : m.locals[i] \in V

Reassigned(m, V) == Kept(m, V) /\ m.heap = vm.heap

LEMMA Balance == \A a, b, x, y \in Int : a + b = x + y => a = x + y - b
OBVIOUS

(* The machine goes on at q, with another stack. *)
LEMMA Continues ==
    ASSUME NEW L, NEW V, VMInv(L, V), vm.outcome = "running",
           Kept(vm', V), NEW q, vm'.ip = q, NEW c, NEW takes \in Nat, NEW leaves \in Nat,
           NEW height \in Int, NEW low \in Int,
           cache' = c, opt' = opt, Quickened(L)',
           ValuesOK(V, vm.heap)', HeapOK(V, vm.heap)', SitesOK(L, vm.heap)',
           q \in Successors(opt.code, vm.ip, Byte(opt.code, vm.ip)),
           takes = Takes(Byte(opt.code, vm.ip), Byte(opt.code, vm.ip + 3)),
           leaves = Leaves(Byte(opt.code, vm.ip)),
           Stacked(cache, c, V, height, low),
           height + takes = Height(cache) + leaves, low + takes >= Height(cache)
    PROVE  VMInv(L, V)'
<1>1. /\ DOMAIN vm' = VMFields /\ vm'.ip = q /\ vm'.top \in Nat
      /\ vm'.calls = vm.calls /\ vm'.tries = vm.tries
      /\ \A i \in DOMAIN vm'.locals : vm'.locals[i] \in V
  BY DEF Kept
<1>2. PICK h \in Nat : Height(cache) = h
  BY CacheTypes DEF VMInv, MachineOK
<1>3. Stacked(cache, cache', V, Height(cache) + leaves - takes, Height(cache) - takes)
  <2>1. \A x \in Nat : x <= h - takes => x <= low
    BY <1>2
  <2>2. height = h + leaves - takes
    <3>1. height + takes = h + leaves
      BY <1>2
    <3> QED
      BY <3>1, Balance
  <2> QED
    BY <1>2, <2>1, <2>2 DEF Stacked
<1>4. Running(L)'
  BY <1>1, <1>3, StaysInFrame
<1>5. MachineOK(V)'
  BY <1>1, <1>3 DEF VMInv, MachineOK, Stacked
<1>6. Verified(opt, L)'
  BY DEF VMInv
<1> QED
  BY <1>4, <1>5, <1>6 DEF VMInv

LEMMA Proceeds ==
    ASSUME NEW L, NEW V, VMInv(L, V), vm.outcome = "running",
           NEW m, Kept(m, V), NEW q, NEW c, NEW takes \in Nat, NEW leaves \in Nat,
           NEW height \in Int, NEW low \in Int,
           vm' = [m EXCEPT !.ip = q], cache' = c, opt' = opt, Quickened(L)',
           ValuesOK(V, vm.heap)', HeapOK(V, vm.heap)', SitesOK(L, vm.heap)',
           q \in Successors(opt.code, vm.ip, Byte(opt.code, vm.ip)),
           takes = Takes(Byte(opt.code, vm.ip), Byte(opt.code, vm.ip + 3)),
           leaves = Leaves(Byte(opt.code, vm.ip)),
           Stacked(cache, c, V, height, low),
           height + takes = Height(cache) + leaves, low + takes >= Height(cache)
    PROVE  VMInv(L, V)'
<1>1. Kept(vm', V) /\ vm'.ip = q
  BY DEF Kept, VMFields
<1> QED
  BY <1>1, Continues

LEMMA GoesAhead ==
    ASSUME NEW L, NEW V, VMInv(L, V), vm.outcome = "running",
           NEW m, Reassigned(m, V), NEW q, NEW c, NEW takes \in Nat, NEW leaves \in Nat,
           NEW height \in Int, NEW low \in Int,
           vm' = [m EXCEPT !.ip = q], cache' = c,
           opt' = opt, Quickened(L)', fieldICs' = fieldICs, methodICs' = methodICs,
           q \in Successors(opt.code, vm.ip, Byte(opt.code, vm.ip)),
           takes = Takes(Byte(opt.code, vm.ip), Byte(opt.code, vm.ip + 3)),
           leaves = Leaves(Byte(opt.code, vm.ip)),
           Stacked(cache, c, V, height, low),
           height + takes = Height(cache) + leaves, low + takes >= Height(cache)
    PROVE  VMInv(L, V)'
<1>1. vm'.heap = vm.heap /\ Kept(m, V)
  BY DEF Reassigned, Kept, VMFields
<1>2. SitesOK(L, vm.heap)'
  BY <1>1 DEF VMInv, SitesOK, FieldSiteOK, MethodSiteOK
<1>3. ValuesOK(V, vm.heap)' /\ HeapOK(V, vm.heap)'
  BY <1>1 DEF VMInv, ValuesOK, HeapOK, Records, Strings
<1> QED
  BY <1>1, <1>2, <1>3, Proceeds

LEMMA PlainCode ==
    ASSUME NEW L, NEW V, VMInv(L, V), opt' = opt, code' = code
    PROVE  Quickened(L)'
BY DEF VMInv, Quickened

(* An instruction that goes on behind itself, other variables and stack. *)
LEMMA GoesStraight ==
    ASSUME NEW L, NEW V, VMInv(L, V), NEW o, NEW takes \in Nat, NEW leaves \in Nat,
           NEW len, Straight(o, takes, leaves, len), At(o), Plain,
           NEW m, Reassigned(m, V), NEW c, Go(m, len, c),
           NEW height \in Int, NEW low \in Int, Stacked(cache, c, V, height, low),
           height + takes = Height(cache) + leaves, low + takes >= Height(cache)
    PROVE  VMInv(L, V)'
<1>1. o \in Translated /\ Leaves(o) = leaves
      /\ (\A n : Takes(o, n) = takes) /\ vm.ip + len \in Successors(opt.code, vm.ip, o)
  BY DEF Straight
<1>2. vm.outcome = "running" /\ Byte(opt.code, vm.ip) = o
  BY <1>1, Recognised
<1>3. takes = Takes(Byte(opt.code, vm.ip), Byte(opt.code, vm.ip + 3))
      /\ leaves = Leaves(Byte(opt.code, vm.ip))
      /\ vm.ip + len \in Successors(opt.code, vm.ip, Byte(opt.code, vm.ip))
  BY <1>1, <1>2
<1>4. /\ vm' = [m EXCEPT !.ip = vm.ip + len] /\ cache' = c
      /\ opt' = opt /\ fieldICs' = fieldICs /\ methodICs' = methodICs
  BY DEF Go, Plain, sites
<1>5. Quickened(L)'
  BY PlainCode DEF Plain
<1> QED
  BY <1>2, <1>3, <1>4, <1>5, GoesAhead

LEMMA Untouched ==
    ASSUME NEW L, NEW V, VMInv(L, V)
    PROVE  /\ Reassigned(vm, V) /\ IsCache(cache, V) /\ Nil \in V
           /\ \A n : Local(vm, n) \in V
           /\ \E h \in Nat : Height(cache) = h
<1>1. Reassigned(vm, V) /\ IsCache(cache, V) /\ Nil \in V
  BY DEF VMInv, MachineOK, ValuesOK, Reassigned, Kept
<1>2. \A n : Local(vm, n) \in V
  BY <1>1 DEF Local, Cell, Reassigned, Kept
<1> QED
  BY <1>1, <1>2, CacheTypes

LEMMA BaseType ==
    ASSUME NEW L, NEW V, VMInv(L, V)
    PROVE  LocalBase(vm) \in Nat
<1>1. vm.calls \in FrameRecords
  BY DEF VMInv, MachineOK
<1>2. CASE vm.calls = <<>>
  BY <1>2 DEF LocalBase
<1>3. CASE vm.calls # <<>>
  <2>1. Len(vm.calls) \in 1 .. Len(vm.calls)
    <3>1. Len(vm.calls) \in Nat /\ Len(vm.calls) # 0
      BY <1>1, <1>3, FrameTypes, EmptySeq DEF FrameRecords
    <3> QED
      BY <3>1
  <2> QED
    BY <1>1, <1>3, <2>1, FrameTypes DEF LocalBase
<1> QED
  BY <1>2, <1>3

LEMMA CellsIn ==
    ASSUME NEW V, NEW locals, NEW base \in Nat, NEW vals \in Seq(V),
           \A i \in DOMAIN locals : locals[i] \in V
    PROVE  LET w == WriteCells(locals, base, vals) IN \A i \in DOMAIN w : w[i] \in V
<1> DEFINE n == Len(vals)
<1>1. n \in Nat /\ \A i \in 1 .. n : vals[i] \in V
  BY LenProperties, ElementOfSeq
<1>2. ASSUME NEW i \in base .. base + n - 1 PROVE vals[i - base + 1] \in V
  <2>1. i - base + 1 \in 1 .. n
    BY <1>1
  <2> QED
    BY <1>1, <2>1
<1> QED
  BY <1>2 DEF WriteCells

LEMMA Assigns ==
    ASSUME NEW L, NEW V, VMInv(L, V), NEW n \in Nat, NEW v \in V
    PROVE  Reassigned(SetLocal(vm, n, v), V) /\ Reassigned(SetSlot(n, v), V)
<1>1. LocalBase(vm) + n \in Nat
  BY BaseType
<1> DEFINE w == WriteCells(vm.locals, LocalBase(vm) + n, <<v>>)
<1>2. \A i \in DOMAIN w : w[i] \in V
  <2>1. <<v>> \in Seq(V) /\ \A i \in DOMAIN vm.locals : vm.locals[i] \in V
    BY DEF VMInv, MachineOK
  <2> QED
    BY <1>1, <2>1, CellsIn
<1> HIDE DEF w
<1>3. DOMAIN vm = VMFields /\ vm.top \in Nat
  BY DEF VMInv, MachineOK
<1>4. Reassigned(SetSlot(n, v), V)
  <2>1. SetSlot(n, v) = [vm EXCEPT !.locals = w]
    BY DEF SetSlot, w
  <2> QED
    BY <1>2, <1>3, <2>1 DEF Reassigned, Kept, VMFields
<1>5. Reassigned(SetLocal(vm, n, v), V)
  <2> DEFINE t == IF LocalBase(vm) + n >= vm.top THEN LocalBase(vm) + n + 8 ELSE vm.top
  <2>1. t \in Nat
    BY <1>1, <1>3
  <2>2. SetLocal(vm, n, v) = [vm EXCEPT !.locals = w, !.top = t]
    BY DEF SetLocal, w
  <2> HIDE DEF t
  <2> QED
    BY <1>2, <1>3, <2>1, <2>2 DEF Reassigned, Kept, VMFields
<1> QED
  BY <1>4, <1>5

(* What instructions compute is no object, and a number where one is asked   *)
(* for.                                                                      *)
Simple(v) == ~IsObj(v) /\ AsInt(v) \in Int

LEMMA SimpleValues ==
    /\ \A n \in Int : Simple(Number(n))
    /\ \A b : Simple(Bool(b))
    /\ \A s : Simple(Text(s))
    /\ Simple(Nil) /\ Simple(Caught) /\ \A name : Simple(Literal(name))
<1>1. \A n \in Int : Simple(Number(n))
  BY DEF Simple, IsObj, AsInt, Number
<1>2. \A b : Simple(Bool(b))
  BY DEF Simple, IsObj, AsInt, Bool
<1>3. \A s : Simple(Text(s))
  BY DEF Simple, IsObj, AsInt, Text
<1>4. Simple(Nil) /\ Simple(Caught) /\ \A name : Simple(Literal(name))
  <2>1. Simple(Nil)
    BY DEF Simple, IsObj, AsInt, Nil
  <2>2. \A name : Simple(Literal(name))
    BY <1>3 DEF Literal
  <2> QED
    BY <2>1, <2>2 DEF Caught
<1> QED
  BY <1>1, <1>2, <1>3, <1>4

LEMMA SimpleResults ==
    ASSUME NEW o \in Binaries, NEW a, NEW b, AsInt(a) \in Int, AsInt(b) \in Int,
           NEW v, v = Apply(o, a, b)
    PROVE  Simple(v)
<1>1. PICK x \in Int, y \in Int : x = AsInt(a) /\ y = AsInt(b)
  OBVIOUS
<1>2. x + y \in Int /\ x - y \in Int /\ x * y \in Int
  OBVIOUS
<1>3. \A n \in Int : Simple(MinMax(n, a, b))
  BY SimpleValues DEF MinMax
<1>4. CASE o = Op.ADD
  <2>1. PICK z, u : z = x + y /\ u = Pieces(a) \o Pieces(b)
    OBVIOUS
  <2>2. v = IF IsText(a) \/ IsText(b) THEN Text(u) ELSE Number(z)
    BY <1>1, <1>4, <2>1, OpNumbers DEF Apply
  <2> QED
    BY <1>2, <2>1, <2>2, SimpleValues
<1>5. CASE o = Op.SUB
  <2>1. v = Number(x - y)
    BY <1>1, <1>5, OpNumbers DEF Apply
  <2> QED
    BY <1>2, <2>1, SimpleValues
<1>6. CASE o = Op.MUL
  <2>1. PICK z : z = x * y
    OBVIOUS
  <2>2. v = Number(z)
    BY <1>1, <1>6, <2>1, OpNumbers DEF Apply
  <2> QED
    BY <1>2, <2>1, <2>2, SimpleValues
<1>7. CASE o = Op.TERNARY_MIN
  <2>1. PICK z \in Int : z = (IF x < y THEN x ELSE y)
    OBVIOUS
  <2>2. v = MinMax(z, a, b)
    BY <1>1, <1>7, <2>1, OpNumbers DEF Apply
  <2> QED
    BY <1>3, <2>2
<1>8. CASE o = Op.TERNARY_MAX
  <2>1. PICK z \in Int : z = (IF x > y THEN x ELSE y)
    OBVIOUS
  <2>2. v = MinMax(z, a, b)
    BY <1>1, <1>8, <2>1, OpNumbers DEF Apply
  <2> QED
    BY <1>3, <2>2
<1>9. CASE o = Op.EQ
  <2>1. PICK t : t = (IF IsText(a) \/ IsText(b) THEN Pieces(a) = Pieces(b)
                                              ELSE AsInt(a) = AsInt(b))
    OBVIOUS
  <2>2. v = Bool(t)
    BY <1>9, <2>1, OpNumbers DEF Apply
  <2> QED
    BY <2>2, SimpleValues
<1>10. CASE o = Op.NEQ
  BY <1>10, OpNumbers, SimpleValues DEF Apply
<1>11. CASE o = Op.LT
  BY <1>11, OpNumbers, SimpleValues DEF Apply
<1>12. CASE o = Op.LE
  BY <1>12, OpNumbers, SimpleValues DEF Apply
<1>13. CASE o = Op.GT
  BY <1>13, OpNumbers, SimpleValues DEF Apply
<1>14. CASE o = Op.GE
  BY <1>14, OpNumbers, SimpleValues DEF Apply
<1> QED
  BY <1>4, <1>5, <1>6, <1>7, <1>8, <1>9, <1>10, <1>11, <1>12, <1>13, <1>14 DEF Binaries

(* So whatever is computed may be added to the values. *)
LEMMA Computes ==
    ASSUME NEW L, NEW V, VMInv(L, V), NEW v, Simple(v)
    PROVE  \E W : VMInv(L, W) /\ v \in W /\ V \subseteq W
<1>1. VMInv(L, V \cup {v})
  BY Grown DEF Simple
<1> QED
  BY <1>1

(* The numbers values stand for. *)
LEMMA HasNumber ==
    ASSUME NEW L, NEW V, VMInv(L, V), NEW v \in V
    PROVE  AsInt(v) \in Int
BY DEF VMInv, ValuesOK

LEMMA Pushes ==
    ASSUME NEW L, NEW V, VMInv(L, V), NEW o, NEW len, Straight(o, 0, 1, len), At(o), Plain,
           NEW v \in V, Go(vm, len, PUSH_TOS(cache, v))
    PROVE  VMInv(L, V)'
<1>1. PICK h \in Nat : Height(cache) = h
  BY Untouched
<1>2. Stacked(cache, PUSH_TOS(cache, v), V, h + 1, h + 1)
  BY <1>1, Untouched, PushStacks
<1>3. Reassigned(vm, V)
  BY Untouched
<1>4. h + 1 \in Int /\ (h + 1) + 0 = Height(cache) + 1 /\ (h + 1) + 0 >= Height(cache)
  BY <1>1
<1> QED
  BY <1>2, <1>3, <1>4, GoesStraight

LEMMA Pops ==
    ASSUME NEW L, NEW V, VMInv(L, V), NEW o, NEW len, Straight(o, 1, 0, len), At(o), Plain,
           NEW m, Reassigned(m, V), Go(m, len, DISCARD_TOS(cache))
    PROVE  VMInv(L, V)'
<1>1. PICK h \in Nat : Height(cache) = h
  BY Untouched
<1>2. h >= 1
  BY <1>1, EnoughOnStack, Recognised DEF Straight
<1>3. Stacked(cache, DISCARD_TOS(cache), V, h - 1, h - 1)
  BY <1>1, <1>2, Untouched, DiscardStacks
<1>4. h - 1 \in Int /\ (h - 1) + 1 = Height(cache) + 0 /\ (h - 1) + 1 >= Height(cache)
  BY <1>1
<1> QED
  BY <1>3, <1>4, GoesStraight

LEMMA Keeps ==
    ASSUME NEW L, NEW V, VMInv(L, V), NEW o, NEW n \in Nat, NEW len, Straight(o, n, n, len),
           At(o), Plain, NEW m, Reassigned(m, V), Go(m, len, cache)
    PROVE  VMInv(L, V)'
<1>1. PICK h \in Nat : Height(cache) = h
  BY Untouched
<1>2. Stacked(cache, cache, V, h, h)
  BY <1>1, Untouched DEF Stacked
<1>3. h + n = Height(cache) + n /\ h + n >= Height(cache)
  BY <1>1
<1> QED
  BY <1>2, <1>3, GoesStraight

(* What an instruction looks at on top of the stack is a value there is. *)
LEMMA TopIn ==
    ASSUME NEW L, NEW V, VMInv(L, V), NEW o, NEW leaves, NEW len, Straight(o, 1, leaves, len),
           At(o)
    PROVE  PEEK_TOS(cache) \in V
<1>1. Height(cache) >= 1
  BY EnoughOnStack, Recognised DEF Straight
<1> QED
  BY <1>1, Untouched, PeekIn

LEMMA PushIntInv ==
    ASSUME NEW L, NEW V, VMInv(L, V), PushInt
    PROVE  \E W : VMInv(L, W)'
<1>1. PICK v : v = Number(Int64(code, vm.ip + 1))
  OBVIOUS
<1>2. PICK W : VMInv(L, W) /\ v \in W
  <2>1. vm.outcome = "running" /\ Width(Byte(opt.code, vm.ip)) = 9
    BY Recognised, StraightTable DEF PushInt, Straight
  <2>2. U(1) \in Nat
    BY <2>1, Operands
  <2>3. Int64(code, vm.ip + 1) \in Int
    BY <2>2 DEF Int64, U
  <2> QED
    BY <1>1, <2>3, SimpleValues, Computes
<1>3. VMInv(L, W)'
  BY <1>1, <1>2, StraightTable, Pushes DEF PushInt
<1> QED
  BY <1>3

LEMMA PushBoolInv ==
    ASSUME NEW L, NEW V, VMInv(L, V), PushBool
    PROVE  \E W : VMInv(L, W)'
<1>1. PICK v : v = Bool(Byte(code, vm.ip + 1) # 0)
  OBVIOUS
<1>2. PICK W : VMInv(L, W) /\ v \in W
  BY <1>1, SimpleValues, Computes
<1>3. VMInv(L, W)'
  BY <1>1, <1>2, StraightTable, Pushes DEF PushBool
<1> QED
  BY <1>3

LEMMA PopInv ==
    ASSUME NEW L, NEW V, VMInv(L, V), Pop
    PROVE  VMInv(L, V)'
BY Untouched, StraightTable, Pops DEF Pop

LEMMA DupInv ==
    ASSUME NEW L, NEW V, VMInv(L, V), Dup
    PROVE  VMInv(L, V)'
<1>1. PICK h \in Nat : Height(cache) = h
  BY Untouched
<1>2. PICK v : v = PEEK_TOS(cache)
  OBVIOUS
<1>3. v \in V /\ Straight(Op.DUP, 1, 2, 1) /\ At(Op.DUP)
  BY <1>2, StraightTable, TopIn DEF Dup
<1>4. Stacked(cache, PUSH_TOS(cache, v), V, h + 1, h + 1)
  BY <1>1, <1>3, Untouched, PushStacks
<1>5. Go(vm, 1, PUSH_TOS(cache, v)) /\ Plain
  BY <1>2 DEF Dup, DUP_TOS
<1>6. Reassigned(vm, V)
  BY Untouched
<1>7. h + 1 \in Int /\ (h + 1) + 1 = Height(cache) + 2 /\ (h + 1) + 1 >= Height(cache)
  BY <1>1
<1> QED
  BY <1>3, <1>4, <1>5, <1>6, <1>7, GoesStraight

LEMMA LoadLocalInv ==
    ASSUME NEW L, NEW V, VMInv(L, V), LoadLocal
    PROVE  VMInv(L, V)'
<1>1. PICK v \in V : v = Local(vm, U(1))
  BY Untouched
<1> QED
  BY <1>1, StraightTable, Pushes DEF LoadLocal

LEMMA LoadSlotInv ==
    ASSUME NEW L, NEW V, VMInv(L, V), LoadSlot
    PROVE  VMInv(L, V)'
<1>1. PICK n \in 0 .. 3 : /\ At(Op.LOAD_LOCAL_0 + n) /\ Plain
                          /\ Go(vm, 1, PUSH_TOS(cache, Local(vm, n)))
  BY DEF LoadSlot
<1>2. PICK v \in V : v = Local(vm, n)
  BY Untouched
<1> QED
  BY <1>1, <1>2, StraightTable, Pushes

(* The slot an instruction names is a number. *)
LEMMA SlotTypes ==
    ASSUME NEW L, NEW V, VMInv(L, V), NEW o, NEW takes, NEW leaves, NEW len \in Nat,
           Straight(o, takes, leaves, len), At(o)
    PROVE  \A k \in 1 .. len - 2 : U(k) \in Nat
<1>1. vm.outcome = "running" /\ Width(Byte(opt.code, vm.ip)) = len
  BY Recognised DEF Straight
<1> QED
  BY <1>1, Operands

LEMMA StoreLocalInv ==
    ASSUME NEW L, NEW V, VMInv(L, V), StoreLocal
    PROVE  VMInv(L, V)'
<1>1. PICK v, n : v = PEEK_TOS(cache) /\ n = U(1)
  OBVIOUS
<1>2. Straight(Op.STORE_LOCAL, 1, 1, 3) /\ At(Op.STORE_LOCAL) /\ Plain
      /\ Go(SetLocal(vm, n, v), 3, cache)
  BY <1>1, StraightTable DEF StoreLocal
<1>3. v \in V /\ n \in Nat
  BY <1>1, <1>2, TopIn, SlotTypes
<1>4. Reassigned(SetLocal(vm, n, v), V)
  BY <1>3, Assigns
<1> QED
  BY <1>2, <1>4, Keeps

LEMMA StoreLocalPopInv ==
    ASSUME NEW L, NEW V, VMInv(L, V), StoreLocalPop
    PROVE  VMInv(L, V)'
<1>1. PICK v, n : v = PEEK_TOS(cache) /\ n = U(1)
  OBVIOUS
<1>2. Straight(Op.STORE_LOCAL_POP, 1, 0, 3) /\ At(Op.STORE_LOCAL_POP) /\ Plain
      /\ Go(SetLocal(vm, n, v), 3, DISCARD_TOS(cache))
  BY <1>1, StraightTable DEF StoreLocalPop
<1>3. v \in V /\ n \in Nat
  BY <1>1, <1>2, TopIn, SlotTypes
<1>4. Reassigned(SetLocal(vm, n, v), V)
  BY <1>3, Assigns
<1> QED
  BY <1>2, <1>4, Pops

LEMMA StoreSlotInv ==
    ASSUME NEW L, NEW V, VMInv(L, V), StoreSlot
    PROVE  VMInv(L, V)'
<1>1. PICK n \in 0 .. 3 : /\ At(Op.STORE_LOCAL_0 + n) /\ Plain
                          /\ Go(SetSlot(n, PEEK_TOS(cache)), 1, cache)
  BY DEF StoreSlot
<1>2. PICK v : v = PEEK_TOS(cache)
  OBVIOUS
<1>3. Straight(Op.STORE_LOCAL_0 + n, 1, 1, 1)
  BY StraightTable
<1>4. v \in V
  BY <1>1, <1>2, <1>3, TopIn
<1>5. Reassigned(SetSlot(n, v), V) /\ Go(SetSlot(n, v), 1, cache)
  BY <1>1, <1>2, <1>4, Assigns
<1> QED
  BY <1>1, <1>3, <1>5, Keeps

LEMMA StoreSlotPopInv ==
    ASSUME NEW L, NEW V, VMInv(L, V), StoreSlotPop
    PROVE  VMInv(L, V)'
<1>1. PICK n \in 0 .. 3 : /\ At(Op.STORE_LOCAL_0_POP + n) /\ Plain
                          /\ Go(SetSlot(n, PEEK_TOS(cache)), 1, DISCARD_TOS(cache))
  BY DEF StoreSlotPop
<1>2. PICK v : v = PEEK_TOS(cache)
  OBVIOUS
<1>3. Straight(Op.STORE_LOCAL_0_POP + n, 1, 0, 1)
  BY StraightTable
<1>4. v \in V
  BY <1>1, <1>2, <1>3, TopIn
<1>5. Reassigned(SetSlot(n, v), V) /\ Go(SetSlot(n, v), 1, DISCARD_TOS(cache))
  BY <1>1, <1>2, <1>4, Assigns
<1> QED
  BY <1>1, <1>3, <1>5, Pops

LEMMA LoadLoadLocalInv ==
    ASSUME NEW L, NEW V, VMInv(L, V), LoadLoadLocal
    PROVE  VMInv(L, V)'
<1>1. PICK h \in Nat : Height(cache) = h
  BY Untouched
<1>2. PICK v \in V, w \in V : v = Local(vm, U(1)) /\ w = Local(vm, U(3))
  BY Untouched
<1>3. Stacked(cache, PUSH_TWO(cache, v, w), V, h + 2, h)
  BY <1>1, <1>2, Untouched, FlushStacks
<1>4. Go(vm, 5, PUSH_TWO(cache, v, w)) /\ At(Op.LOAD_LOAD_LOCAL) /\ Plain
      /\ Straight(Op.LOAD_LOAD_LOCAL, 0, 2, 5) /\ Reassigned(vm, V)
  BY <1>2, StraightTable, Untouched DEF LoadLoadLocal
<1>5. h + 2 \in Int /\ (h + 2) + 0 = Height(cache) + 2 /\ h + 0 >= Height(cache)
  BY <1>1
<1> QED
  BY <1>3, <1>4, <1>5, GoesStraight

(* Fused instructions that assign what they compute. *)
LEMMA Fuses ==
    ASSUME NEW L, NEW V, VMInv(L, V), NEW o, NEW len \in Nat, Straight(o, 0, 0, len), At(o),
           Plain, NEW k \in 1 .. len - 2, NEW n, n = U(k), NEW v, Simple(v),
           Go(SetLocal(vm, n, v), len, cache)
    PROVE  \E W : VMInv(L, W)'
<1>1. PICK W : VMInv(L, W) /\ v \in W
  BY Computes
<1>2. n \in Nat
  BY SlotTypes
<1>3. Reassigned(SetLocal(vm, n, v), W)
  BY <1>1, <1>2, Assigns
<1>4. VMInv(L, W)'
  BY <1>1, <1>3, Keeps
<1> QED
  BY <1>4

LEMMA FusedInv ==
    ASSUME NEW L, NEW V, VMInv(L, V), IncrLocalImm \/ FusedAddStore \/ FusedMulAdd
    PROVE  \E W : VMInv(L, W)'
<1>1. Op.ADD \in Binaries
  BY DEF Binaries
<1>2. ASSUME IncrLocalImm PROVE \E W : VMInv(L, W)'
  <2>1. PICK n, v : n = U(1) /\ v = Apply(Op.ADD, Local(vm, U(1)), Number(S(3)))
    OBVIOUS
  <2>2. Straight(Op.INCR_LOCAL_IMM, 0, 0, 5) /\ At(Op.INCR_LOCAL_IMM) /\ Plain
        /\ Go(SetLocal(vm, n, v), 5, cache)
    BY <1>2, <2>1, StraightTable DEF IncrLocalImm
  <2>3. 5 \in Nat /\ 1 \in 1 .. 5 - 2 /\ 3 \in 1 .. 5 - 2
    OBVIOUS
  <2>4. S(3) \in Int
    BY <2>2, <2>3, Recognised, Operands DEF Straight
  <2>5. AsInt(Local(vm, U(1))) \in Int /\ AsInt(Number(S(3))) \in Int
    BY <2>4, Untouched, HasNumber, SimpleValues DEF Simple
  <2>6. Simple(v)
    BY <1>1, <2>1, <2>5, SimpleResults
  <2> QED
    BY <2>1, <2>2, <2>3, <2>6, Fuses
<1>3. ASSUME FusedAddStore PROVE \E W : VMInv(L, W)'
  <2>1. PICK n, v : n = U(5) /\ v = Apply(Op.ADD, Local(vm, U(1)), Local(vm, U(3)))
    OBVIOUS
  <2>2. Straight(Op.FUSED_ADD_LOCAL_LOCAL_STORE, 0, 0, 7)
        /\ At(Op.FUSED_ADD_LOCAL_LOCAL_STORE) /\ Plain
        /\ Go(SetLocal(vm, n, v), 7, cache)
    BY <1>3, <2>1, StraightTable DEF FusedAddStore
  <2>3. 7 \in Nat /\ 5 \in 1 .. 7 - 2
    OBVIOUS
  <2>4. \A k : AsInt(Local(vm, k)) \in Int
    BY Untouched, HasNumber
  <2>5. Simple(v)
    BY <1>1, <2>1, <2>4, SimpleResults
  <2> QED
    BY <2>1, <2>2, <2>3, <2>5, Fuses
<1>4. ASSUME FusedMulAdd PROVE \E W : VMInv(L, W)'
  <2>1. PICK n, v : n = U(7) /\ v = Apply(Op.ADD,
                Apply(Op.MUL, Local(vm, U(1)), Local(vm, U(3))),
                Local(vm, U(5)))
    OBVIOUS
  <2>2. Straight(Op.FUSED_MUL_ADD_I64, 0, 0, 9) /\ At(Op.FUSED_MUL_ADD_I64) /\ Plain
        /\ Go(SetLocal(vm, n, v), 9, cache)
    BY <1>4, <2>1, StraightTable DEF FusedMulAdd
  <2>3. 9 \in Nat /\ 7 \in 1 .. 9 - 2
    OBVIOUS
  <2>4. \A k : AsInt(Local(vm, k)) \in Int
    BY Untouched, HasNumber
  <2>5. PICK w : w = Apply(Op.MUL, Local(vm, U(1)), Local(vm, U(3)))
    OBVIOUS
  <2>6. AsInt(w) \in Int
    BY <2>4, <2>5, SimpleResults DEF Simple, Binaries
  <2>7. Simple(v)
    BY <1>1, <2>1, <2>4, <2>5, <2>6, SimpleResults
  <2> QED
    BY <2>1, <2>2, <2>3, <2>7, Fuses
<1> QED
  BY <1>2, <1>3, <1>4

(* A jump, which may take the condition from the stack. *)
LEMMA TakesBranch ==
    ASSUME NEW L, NEW V, VMInv(L, V), NEW o \in Translated, At(o), Plain, NEW takes \in 0 .. 1,
           \A n : Takes(o, n) = takes, Leaves(o) = 0,
           NEW q, q \in Successors(opt.code, vm.ip, o), vm' = [vm EXCEPT !.ip = q],
           cache' = IF takes = 0 THEN cache ELSE DISCARD_TOS(cache)
    PROVE  VMInv(L, V)'
<1>1. vm.outcome = "running" /\ Byte(opt.code, vm.ip) = o
  BY Recognised
<1>2. PICK h \in Nat : Height(cache) = h
  BY Untouched
<1>3. takes \in Nat /\ 0 \in Nat /\ h >= takes
      /\ takes = Takes(Byte(opt.code, vm.ip), Byte(opt.code, vm.ip + 3))
      /\ 0 = Leaves(Byte(opt.code, vm.ip))
  <2>1. takes \in Nat
    OBVIOUS
  <2>2. takes = Takes(Byte(opt.code, vm.ip), Byte(opt.code, vm.ip + 3))
        /\ 0 = Leaves(Byte(opt.code, vm.ip))
    BY <1>1
  <2> QED
    BY <1>1, <1>2, <2>1, <2>2, EnoughOnStack
<1>4. PICK c : c = cache'
  OBVIOUS
<1>5. Stacked(cache, c, V, h - takes, h - takes)
  <2>1. CASE takes = 0
    <3>1. h - takes = h
      BY <2>1
    <3> QED
      BY <1>2, <1>4, <2>1, <3>1, Untouched DEF Stacked
  <2>2. CASE takes = 1
    BY <1>2, <1>3, <1>4, <2>2, Untouched, DiscardStacks
  <2> QED
    BY <2>1, <2>2
<1>6. h - takes \in Int /\ (h - takes) + takes = Height(cache) + 0
      /\ (h - takes) + takes >= Height(cache)
  BY <1>2
<1>7. opt' = opt /\ Quickened(L)' /\ fieldICs' = fieldICs /\ methodICs' = methodICs
  BY PlainCode DEF Plain, sites
<1>8. q \in Successors(opt.code, vm.ip, Byte(opt.code, vm.ip)) /\ Reassigned(vm, V)
  BY <1>1, Untouched
<1> QED
  BY <1>1, <1>3, <1>4, <1>5, <1>6, <1>7, <1>8, GoesAhead

(* The program ends. *)
LEMMA Stops ==
    ASSUME NEW L, NEW V, VMInv(L, V), opt' = opt, Quickened(L)', fieldICs' = fieldICs,
           methodICs' = methodICs, NEW x, x # "running", vm' = [vm EXCEPT !.outcome = x],
           IsCache(cache', V)
    PROVE  VMInv(L, V)'
<1>1. /\ DOMAIN vm' = VMFields /\ vm'.top \in Nat /\ vm'.outcome = x
      /\ vm'.calls = vm.calls /\ vm'.tries = vm.tries /\ vm'.heap = vm.heap
      /\ \A i \in DOMAIN vm'.locals : vm'.locals[i] \in V
  BY DEF VMInv, MachineOK, VMFields
<1>2. Running(L)' /\ MachineOK(V)'
  BY <1>1 DEF VMInv, MachineOK, Running
<1>3. SitesOK(L, vm.heap)'
  BY <1>1 DEF VMInv, SitesOK, FieldSiteOK, MethodSiteOK
<1>4. Verified(opt, L)'
  BY DEF VMInv
<1>5. ValuesOK(V, vm.heap)' /\ HeapOK(V, vm.heap)'
  BY <1>1 DEF VMInv, ValuesOK, HeapOK, Records, Strings
<1> QED
  BY <1>2, <1>3, <1>4, <1>5 DEF VMInv

LEMMA JumpTable ==
    /\ {Op.JUMP, Op.JUMP_IF_FALSE, Op.BRANCH_3, Op.LOOP_RANGE_FAST} \subseteq Translated
    /\ Width(Op.JUMP) = 3 /\ Width(Op.JUMP_IF_FALSE) = 3
    /\ Width(Op.BRANCH_3) = 7 /\ Width(Op.LOOP_RANGE_FAST) = 9
    /\ \A n : /\ Takes(Op.JUMP, n) = 0 /\ Takes(Op.JUMP_IF_FALSE, n) = 1
              /\ Takes(Op.BRANCH_3, n) = 1 /\ Takes(Op.LOOP_RANGE_FAST, n) = 0
    /\ Leaves(Op.JUMP) = 0 /\ Leaves(Op.JUMP_IF_FALSE) = 0
    /\ Leaves(Op.BRANCH_3) = 0 /\ Leaves(Op.LOOP_RANGE_FAST) = 0
    /\ \A bytes, p :
          /\ Successors(bytes, p, Op.JUMP) = {p + 3 + Int16(bytes, p + 1)}
          /\ Successors(bytes, p, Op.JUMP_IF_FALSE) = {p + 3, p + 3 + Int16(bytes, p + 1)}
          /\ \A a \in {1, 3, 5} :
                p + a + 2 + Int16(bytes, p + a) \in Successors(bytes, p, Op.BRANCH_3)
          /\ Successors(bytes, p, Op.LOOP_RANGE_FAST) = {p + 9, p + 9 + Int16(bytes, p + 7)}
<1>1. {Op.JUMP, Op.JUMP_IF_FALSE, Op.BRANCH_3, Op.LOOP_RANGE_FAST} \subseteq Translated
  BY OpNumbers DEF Translated, Jumps
<1>2. /\ Width(Op.JUMP) = 3 /\ Width(Op.JUMP_IF_FALSE) = 3
      /\ Width(Op.BRANCH_3) = 7 /\ Width(Op.LOOP_RANGE_FAST) = 9
  BY OpNumbers DEF Width, OptLen, CanonicalLen, Jumps
<1>3. \A n : /\ Takes(Op.JUMP, n) = 0 /\ Takes(Op.JUMP_IF_FALSE, n) = 1
             /\ Takes(Op.BRANCH_3, n) = 1 /\ Takes(Op.LOOP_RANGE_FAST, n) = 0
  BY OpNumbers DEF Takes, Binaries
<1>4. /\ Leaves(Op.JUMP) = 0 /\ Leaves(Op.JUMP_IF_FALSE) = 0
      /\ Leaves(Op.BRANCH_3) = 0 /\ Leaves(Op.LOOP_RANGE_FAST) = 0
  BY OpNumbers DEF Leaves, Binaries
<1>5. \A bytes, p :
          /\ Successors(bytes, p, Op.JUMP) = {p + 3 + Int16(bytes, p + 1)}
          /\ Successors(bytes, p, Op.JUMP_IF_FALSE) = {p + 3, p + 3 + Int16(bytes, p + 1)}
  BY OpNumbers DEF Successors
<1>6. \A bytes, p : \A a \in {1, 3, 5} :
          p + a + 2 + Int16(bytes, p + a) \in Successors(bytes, p, Op.BRANCH_3)
  BY OpNumbers DEF Successors
<1>7. \A bytes, p :
          Successors(bytes, p, Op.LOOP_RANGE_FAST) = {p + 9, p + 9 + Int16(bytes, p + 7)}
  BY OpNumbers DEF Successors
<1> QED
  BY <1>1, <1>2, <1>3, <1>4, <1>5, <1>6, <1>7

(* The distances of a jump. *)
LEMMA Distances ==
    ASSUME NEW L, NEW V, VMInv(L, V), NEW o \in Translated, At(o),
           NEW len \in Nat, Width(o) = len
    PROVE  /\ vm.ip \in Nat
           /\ \A k \in 1 .. len - 2 : S(k) \in Int /\ S(k) = Int16(opt.code, vm.ip + k)
BY Recognised, Operands, Decoded

LEMMA JumpInv ==
    ASSUME NEW L, NEW V, VMInv(L, V), Jump
    PROVE  VMInv(L, V)'
<1>1. Op.JUMP \in Translated /\ At(Op.JUMP) /\ Plain /\ Width(Op.JUMP) = 3
  BY JumpTable DEF Jump
<1>2. PICK p, s : p = vm.ip /\ s = S(1)
  OBVIOUS
<1>3. p \in Nat /\ s \in Int /\ s = Int16(opt.code, p + 1)
  <2>1. 3 \in Nat /\ 1 \in 1 .. 3 - 2
    OBVIOUS
  <2> QED
    BY <1>1, <1>2, <2>1, Distances
<1>4. PICK q : q = p + (3 + s)
  OBVIOUS
<1>5. q = p + 3 + s
  BY <1>3, <1>4
<1>6. q \in Successors(opt.code, vm.ip, Op.JUMP)
  BY <1>2, <1>3, <1>5, JumpTable
<1>7. vm' = [vm EXCEPT !.ip = q] /\ cache' = cache
  BY <1>2, <1>4 DEF Jump, Go
<1>8. 0 \in 0 .. 1 /\ (\A n : Takes(Op.JUMP, n) = 0) /\ Leaves(Op.JUMP) = 0
  BY JumpTable
<1> QED
  BY <1>1, <1>6, <1>7, <1>8, TakesBranch

LEMMA JumpIfFalseInv ==
    ASSUME NEW L, NEW V, VMInv(L, V), JumpIfFalse
    PROVE  VMInv(L, V)'
<1> DEFINE o == Op.JUMP_IF_FALSE
<1>1. o \in Translated /\ At(o) /\ Plain /\ Width(o) = 3
  BY JumpTable DEF JumpIfFalse
<1>2. PICK p, s : p = vm.ip /\ s = S(1)
  OBVIOUS
<1>3. p \in Nat /\ s \in Int /\ s = Int16(opt.code, p + 1)
  <2>1. 3 \in Nat /\ 1 \in 1 .. 3 - 2
    OBVIOUS
  <2> QED
    BY <1>1, <1>2, <2>1, Distances
<1>4. PICK q : q = p + (3 + (IF AsBool(PEEK_TOS(cache)) THEN 0 ELSE s))
  OBVIOUS
<1>5. q = p + 3 \/ q = p + 3 + s
  BY <1>3, <1>4
<1>6. q \in Successors(opt.code, vm.ip, o)
  BY <1>2, <1>3, <1>5, JumpTable
<1>7. vm' = [vm EXCEPT !.ip = q] /\ cache' = DISCARD_TOS(cache)
  BY <1>2, <1>4 DEF JumpIfFalse, Go
<1>8. 1 \in 0 .. 1 /\ (\A n : Takes(o, n) = 1) /\ Leaves(o) = 0
  BY JumpTable
<1> HIDE DEF o
<1> QED
  BY <1>1, <1>6, <1>7, <1>8, TakesBranch

LEMMA Branch3Inv ==
    ASSUME NEW L, NEW V, VMInv(L, V), Branch3
    PROVE  VMInv(L, V)'
<1> DEFINE o == Op.BRANCH_3
<1>1. o \in Translated /\ At(o) /\ Plain /\ Width(o) = 7
  BY JumpTable DEF Branch3
<1>2. PICK p, s1, s3, s5 : p = vm.ip /\ s1 = S(1) /\ s3 = S(3) /\ s5 = S(5)
  OBVIOUS
<1>3. p \in Nat /\ s1 \in Int /\ s1 = Int16(opt.code, p + 1)
      /\ s3 \in Int /\ s3 = Int16(opt.code, p + 3)
      /\ s5 \in Int /\ s5 = Int16(opt.code, p + 5)
  <2>1. 7 \in Nat /\ 1 \in 1 .. 7 - 2 /\ 3 \in 1 .. 7 - 2 /\ 5 \in 1 .. 7 - 2
    OBVIOUS
  <2> QED
    BY <1>1, <1>2, <2>1, Distances
<1>4. PICK n : n = AsInt(PEEK_TOS(cache))
  OBVIOUS
<1>5. PICK q : q = p + (IF n < 0 THEN 3 + s1 ELSE IF n = 0 THEN 5 + s3 ELSE 7 + s5)
  OBVIOUS
<1>6. q = p + 1 + 2 + s1 \/ q = p + 3 + 2 + s3 \/ q = p + 5 + 2 + s5
  BY <1>3, <1>5
<1>7. q \in Successors(opt.code, vm.ip, o)
  <2>1. 1 \in {1, 3, 5} /\ 3 \in {1, 3, 5} /\ 5 \in {1, 3, 5}
    OBVIOUS
  <2> QED
    BY <1>2, <1>3, <1>6, <2>1, JumpTable
<1>8. vm' = [vm EXCEPT !.ip = q] /\ cache' = DISCARD_TOS(cache)
  BY <1>2, <1>4, <1>5 DEF Branch3, Go
<1>9. 1 \in 0 .. 1 /\ (\A k : Takes(o, k) = 1) /\ Leaves(o) = 0
  BY JumpTable
<1> HIDE DEF o
<1> QED
  BY <1>1, <1>7, <1>8, <1>9, TakesBranch

LEMMA LoopRangeFastInv ==
    ASSUME NEW L, NEW V, VMInv(L, V), LoopRangeFast
    PROVE  VMInv(L, V)'
<1> DEFINE o == Op.LOOP_RANGE_FAST
<1>1. o \in Translated /\ At(o) /\ Plain /\ Width(o) = 9
  BY JumpTable DEF LoopRangeFast
<1>2. PICK p, s : p = vm.ip /\ s = S(7)
  OBVIOUS
<1>3. p \in Nat /\ s \in Int /\ s = Int16(opt.code, p + 7)
  <2>1. 9 \in Nat /\ 7 \in 1 .. 9 - 2
    OBVIOUS
  <2> QED
    BY <1>1, <1>2, <2>1, Distances
<1>4. PICK var, stop, step : /\ var = AsInt(Local(vm, U(1))) /\ stop = AsInt(Local(vm, U(3)))
                             /\ step = AsInt(Local(vm, U(5)))
  OBVIOUS
<1>5. CASE step = 0
  <2>1. vm' = [vm EXCEPT !.outcome = "escaped"] /\ cache' = FLUSH_TOS(cache)
    BY <1>4, <1>5 DEF LoopRangeFast
  <2>2. IsCache(cache', V)
    BY <2>1, Untouched, FlushStacks DEF Stacked
  <2>3. opt' = opt /\ Quickened(L)' /\ fieldICs' = fieldICs /\ methodICs' = methodICs
    BY <1>1, PlainCode DEF Plain, sites
  <2> QED
    BY <2>1, <2>2, <2>3, Stops
<1>6. CASE step # 0
  <2>1. PICK goesOn : goesOn = IF step > 0 THEN var < stop ELSE var > stop
    OBVIOUS
  <2>2. PICK q : q = p + (9 + (IF goesOn THEN 0 ELSE s))
    OBVIOUS
  <2>3. q = p + 9 \/ q = p + 9 + s
    BY <1>3, <2>2
  <2>4. q \in Successors(opt.code, vm.ip, o)
    BY <1>2, <1>3, <2>3, JumpTable
  <2>5. vm' = [vm EXCEPT !.ip = q] /\ cache' = cache
    BY <1>2, <1>4, <1>6, <2>1, <2>2 DEF LoopRangeFast, Go
  <2>6. 0 \in 0 .. 1 /\ (\A n : Takes(o, n) = 0) /\ Leaves(o) = 0
    BY JumpTable
  <2> HIDE DEF o
  <2> QED
    BY <1>1, <2>4, <2>5, <2>6, TakesBranch
<1> QED
  BY <1>5, <1>6

(* An instruction is quickened, or put back. *)
LEMMA RewritesCode ==
    ASSUME NEW L, NEW V, VMInv(L, V), vm.outcome = "running", opt' = opt, NEW x, Rewritten(x),
           \/ x = Byte(opt.code, vm.ip)
           \/ /\ Byte(opt.code, vm.ip) \in DOMAIN QuickOf
              /\ x = QuickOf[Byte(opt.code, vm.ip)]
    PROVE  Quickened(L)'
<1>1. vm.ip \in DOMAIN L /\ vm.ip \in Nat /\ vm.ip + 1 \in DOMAIN code
  BY Decoded
<1>2. "code" \in DOMAIN opt /\ DOMAIN code = DOMAIN opt.code /\ Len(opt.code) \in Nat
  BY VerifiedLabels DEF VMInv, Quickened
<1>3. DOMAIN code' = DOMAIN code /\ code'[vm.ip + 1] = x
      /\ \A n \in DOMAIN code : n # vm.ip + 1 => code'[n] = code[n]
  BY <1>1 DEF Rewritten
<1>4. DOMAIN opt.code = 1 .. Len(opt.code)
  BY VerifiedLabels DEF VMInv
<1>5. ASSUME NEW p \in 0 .. Len(opt.code) - 1
      PROVE  \/ code'[p + 1] = Byte(opt.code, p)
             \/ /\ p \in DOMAIN L /\ Byte(opt.code, p) \in DOMAIN QuickOf
                /\ code'[p + 1] = QuickOf[Byte(opt.code, p)]
  <2>1. CASE p = vm.ip
    BY <1>1, <1>3, <2>1
  <2>2. CASE p # vm.ip
    <3>1. p + 1 # vm.ip + 1 /\ p + 1 \in DOMAIN code
      BY <1>1, <1>2, <1>4, <2>2
    <3>2. code'[p + 1] = code[p + 1]
      BY <1>3, <3>1
    <3>3. \/ code[p + 1] = Byte(opt.code, p)
          \/ /\ p \in DOMAIN L /\ Byte(opt.code, p) \in DOMAIN QuickOf
             /\ code[p + 1] = QuickOf[Byte(opt.code, p)]
      BY DEF VMInv, Quickened, Byte
    <3> QED
      BY <3>2, <3>3
  <2> QED
    BY <2>1, <2>2
<1> QED
  BY <1>2, <1>3, <1>5 DEF Quickened, Byte

(* An instruction that computes, whatever becomes of the code. *)
LEMMA Calculates ==
    ASSUME NEW L, NEW V, VMInv(L, V), vm.outcome = "running", NEW o \in Binaries,
           Byte(opt.code, vm.ip) = o, Compute(o), Quickened(L)', opt' = opt,
           fieldICs' = fieldICs, methodICs' = methodICs
    PROVE  \E W : VMInv(L, W)'
<1>1. PICK h \in Nat : Height(cache) = h
  BY Untouched
<1>2. PICK v : v = Apply(o, TopTwo(cache)[1], TopTwo(cache)[2])
  OBVIOUS
<1>3. PICK W : VMInv(L, W) /\ v \in W
  <2>1. 2 = Takes(Byte(opt.code, vm.ip), Byte(opt.code, vm.ip + 3)) /\ 2 \in Nat
    BY StraightTable DEF Straight
  <2>2. Height(cache) >= 2
    BY <2>1, EnoughOnStack
  <2>3. PICK a, b : a = TopTwo(cache)[1] /\ b = TopTwo(cache)[2]
    OBVIOUS
  <2>4. a \in V /\ b \in V
    BY <2>2, <2>3, Untouched, TopTwoIn
  <2>5. Simple(v)
    BY <1>2, <2>3, <2>4, HasNumber, SimpleResults
  <2> QED
    BY <2>5, Computes
<1>4. /\ vm.ip + 1 \in Successors(opt.code, vm.ip, Byte(opt.code, vm.ip))
      /\ 2 = Takes(Byte(opt.code, vm.ip), Byte(opt.code, vm.ip + 3))
      /\ 1 = Leaves(Byte(opt.code, vm.ip))
  BY StraightTable DEF Straight
<1>5. h >= 2
  BY <1>1, <1>4, EnoughOnStack
<1>6. PICK c : c = BINARY_OP(cache, v)
  OBVIOUS
<1>7. Stacked(cache, c, W, h - 1, h - 2)
  BY <1>1, <1>3, <1>5, <1>6, Untouched, PopTwoStacks
<1>8. h - 1 \in Int /\ h - 2 \in Int /\ (h - 1) + 2 = Height(cache) + 1
      /\ (h - 2) + 2 >= Height(cache)
  BY <1>1
<1>9. PICK q : q = vm.ip + 1
  OBVIOUS
<1>10. vm' = [vm EXCEPT !.ip = q] /\ cache' = c /\ Reassigned(vm, W)
  BY <1>2, <1>3, <1>6, <1>9, Untouched DEF Compute, Go
<1>11. 2 \in Nat /\ 1 \in Nat /\ q \in Successors(opt.code, vm.ip, Byte(opt.code, vm.ip))
  BY <1>4, <1>9
<1>12. VMInv(L, W)'
  BY <1>3, <1>4, <1>7, <1>8, <1>10, <1>11, GoesAhead
<1> QED
  BY <1>12

LEMMA BinaryInv ==
    ASSUME NEW L, NEW V, VMInv(L, V), Binary
    PROVE  \E W : VMInv(L, W)'
<1>1. PICK o \in Binaries :
        /\ At(o)
        /\ Compute(o)
        /\ IF o \in DOMAIN QuickOf /\ Fits(o, TopTwo(cache))
           THEN Warm(o) ELSE UNCHANGED <<warmup, code>>
        /\ UNCHANGED <<chunk, opt, fieldICs, methodICs>>
  BY DEF Binary
<1>2. o \in Translated
  BY DEF Translated
<1>3. vm.outcome = "running" /\ Byte(opt.code, vm.ip) = o
  BY <1>1, <1>2, Recognised
<1>4. Quickened(L)'
  <2>1. CASE code' = code
    BY <1>1, <2>1, PlainCode
  <2>2. CASE o \in DOMAIN QuickOf /\ Rewritten(QuickOf[o])
    BY <1>1, <1>3, <2>2, RewritesCode
  <2> QED
    BY <1>1, <2>1, <2>2 DEF Warm
<1> QED
  BY <1>1, <1>3, <1>4, Calculates

LEMMA QuickInv ==
    ASSUME NEW L, NEW V, VMInv(L, V), Quick
    PROVE  \E W : VMInv(L, W)'
<1>1. PICK o \in DOMAIN QuickOf :
        /\ At(QuickOf[o])
        /\ Compute(o)
        /\ IF Fits(o, TopTwo(cache)) THEN UNCHANGED code ELSE Rewritten(o)
        /\ UNCHANGED <<chunk, opt, sites>>
  BY DEF Quick
<1>2. o \in Binaries
  BY QuickTable
<1>3. vm.outcome = "running" /\ op = QuickOf[o]
  BY <1>1 DEF At
<1>4. Byte(opt.code, vm.ip) = o
  <2> DEFINE i == Byte(opt.code, vm.ip)
  <2>1. i \in Translated /\ (op = i \/ (i \in DOMAIN QuickOf /\ op = QuickOf[i]))
    BY <1>3, Decoded
  <2> HIDE DEF i
  <2>2. i = o
    BY <1>3, <2>1, QuickTable
  <2> QED
    BY <2>2 DEF i
<1>5. Quickened(L)'
  <2>1. CASE code' = code
    BY <1>1, <2>1, PlainCode
  <2>2. CASE Rewritten(o)
    BY <1>1, <1>3, <1>4, <2>2, RewritesCode
  <2> QED
    BY <1>1, <2>1, <2>2
<1>6. fieldICs' = fieldICs /\ methodICs' = methodICs /\ opt' = opt
  BY <1>1 DEF sites
<1> QED
  BY <1>1, <1>2, <1>3, <1>4, <1>5, <1>6, Calculates

-----------------------------------------------------------------------------
(* Objects and their caches.                                                 *)

LEMMA RecordTypes ==
    ASSUME NEW V, NEW obj \in Records(V), ObjectOK(obj)
    PROVE  \E n \in Nat : /\ Len(obj.names) = n /\ Len(obj.vals) = n
                          /\ DOMAIN obj.names = 1 .. n /\ DOMAIN obj.vals = 1 .. n
                          /\ \A i \in 1 .. n : obj.names[i] \in Strings /\ obj.vals[i] \in V
                          /\ obj.names \in Seq(Strings) /\ obj.vals \in Seq(V)
<1>1. obj.names \in Seq(Strings) /\ obj.vals \in Seq(V) /\ Len(obj.names) = Len(obj.vals)
  BY DEF Records, ObjectOK
<1>2. Len(obj.names) \in Nat /\ DOMAIN obj.names = 1 .. Len(obj.names)
      /\ DOMAIN obj.vals = 1 .. Len(obj.vals)
      /\ (\A i \in 1 .. Len(obj.names) : obj.names[i] \in Strings)
      /\ \A i \in 1 .. Len(obj.vals) : obj.vals[i] \in V
  BY <1>1, LenProperties, ElementOfSeq
<1> QED
  BY <1>1, <1>2

LEMMA SlotFound ==
    ASSUME NEW obj, NEW field, HasField(obj, field)
    PROVE  SlotOf(obj, field) \in DOMAIN obj.names
           /\ obj.names[SlotOf(obj, field)] = field
BY DEF HasField, SlotOf

(* An object is assigned a field it may not have had. *)
LEMMA AssignsField ==
    ASSUME NEW V, NEW obj \in Records(V), ObjectOK(obj), NEW field \in Strings, NEW v \in V
    PROVE  LET new == SetField(obj, field, v) IN
           /\ new \in Records(V) /\ ObjectOK(new) /\ HasField(new, field)
           /\ new.cls = obj.cls
           /\ Len(obj.names) <= Len(new.names)
           /\ \A i \in 1 .. Len(obj.names) : new.names[i] = obj.names[i]
<1> DEFINE new == SetField(obj, field, v)
<1>1. PICK n \in Nat : /\ Len(obj.names) = n /\ Len(obj.vals) = n
                       /\ DOMAIN obj.names = 1 .. n /\ DOMAIN obj.vals = 1 .. n
                       /\ \A i \in 1 .. n : obj.names[i] \in Strings /\ obj.vals[i] \in V
                       /\ obj.names \in Seq(Strings) /\ obj.vals \in Seq(V)
  BY RecordTypes
<1>2. obj = [cls |-> obj.cls, names |-> obj.names, vals |-> obj.vals] /\ obj.cls \in Strings
  BY DEF Records
<1>3. \A i, j \in 1 .. n : obj.names[i] = obj.names[j] => i = j
  BY <1>1 DEF ObjectOK
<1>4. CASE HasField(obj, field)
  <2> DEFINE vals == [obj.vals EXCEPT ![SlotOf(obj, field)] = v]
  <2>1. vals \in Seq(V) /\ Len(vals) = n
    BY <1>1, <1>4, SlotFound, ExceptSeq
  <2> HIDE DEF vals
  <2>2. new = [obj EXCEPT !.vals = vals]
    BY <1>4 DEF SetField, vals
  <2>3. new = [cls |-> obj.cls, names |-> obj.names, vals |-> vals]
    BY <1>2, <2>2
  <2> HIDE DEF new
  <2>4. HasField(new, field)
    BY <1>4, <2>3 DEF HasField
  <2>5. new \in Records(V) /\ ObjectOK(new)
    BY <1>1, <1>2, <1>3, <2>1, <2>3 DEF Records, ObjectOK
  <2> QED
    BY <1>1, <2>3, <2>4, <2>5 DEF new
<1>5. CASE ~HasField(obj, field)
  <2> DEFINE names == Append(obj.names, field)
             vals == Append(obj.vals, v)
  <2>1. names \in Seq(Strings) /\ vals \in Seq(V) /\ Len(names) = n + 1 /\ Len(vals) = n + 1
        /\ (\A i \in 1 .. n : names[i] = obj.names[i]) /\ names[n + 1] = field
        /\ DOMAIN names = 1 .. n + 1
    BY <1>1, AppendProperties
  <2>2. \A i, j \in 1 .. n + 1 : names[i] = names[j] => i = j
    <3>1. \A i \in 1 .. n : obj.names[i] # field
      BY <1>1, <1>5 DEF HasField
    <3>2. \A i \in 1 .. n + 1 : i \in 1 .. n \/ i = n + 1
      BY <1>1
    <3> HIDE DEF names
    <3> QED
      BY <1>3, <2>1, <3>1, <3>2
  <2> HIDE DEF names, vals
  <2>3. new = [obj EXCEPT !.names = names, !.vals = vals]
    BY <1>5 DEF SetField, names, vals
  <2>4. new = [cls |-> obj.cls, names |-> names, vals |-> vals]
    BY <1>2, <2>3
  <2> HIDE DEF new
  <2>5. HasField(new, field)
    <3>1. n + 1 \in DOMAIN names
      BY <1>1, <2>1
    <3> QED
      BY <2>1, <2>4, <3>1 DEF HasField
  <2>6. new \in Records(V) /\ ObjectOK(new)
    BY <1>1, <1>2, <2>1, <2>2, <2>4 DEF Records, ObjectOK
  <2> QED
    BY <1>1, <2>1, <2>4, <2>5, <2>6 DEF new
<1> QED
  BY <1>4, <1>5

(* Objects only gain fields: what a cache remembers of them stays true. *)
LEMMA ChangesObject ==
    ASSUME NEW L, NEW V, NEW heap, ValuesOK(V, heap), HeapOK(V, heap), SitesOK(L, heap),
           NEW id \in 1 .. Len(heap), NEW new \in Records(V), ObjectOK(new),
           new.cls = heap[id].cls, Len(heap[id].names) <= Len(new.names),
           \A i \in 1 .. Len(heap[id].names) : new.names[i] = heap[id].names[i]
    PROVE  LET heap1 == [heap EXCEPT ![id] = new] IN
           /\ ValuesOK(V, heap1) /\ HeapOK(V, heap1) /\ SitesOK(L, heap1)
           /\ Len(heap1) = Len(heap) /\ heap1[id] = new
<1> DEFINE heap1 == [heap EXCEPT ![id] = new]
<1>1. heap \in Seq(Records(V)) /\ Len(heap) \in Nat
      /\ \A i \in 1 .. Len(heap) : heap[i] \in Records(V) /\ ObjectOK(heap[i])
  BY LenProperties, ElementOfSeq DEF HeapOK
<1>2. heap1 \in Seq(Records(V)) /\ Len(heap1) = Len(heap) /\ heap1[id] = new
      /\ \A i \in 1 .. Len(heap) : i # id => heap1[i] = heap[i]
  BY <1>1, ExceptSeq
<1> HIDE DEF heap1
<1>3. ValuesOK(V, heap1) /\ HeapOK(V, heap1)
  BY <1>1, <1>2 DEF ValuesOK, HeapOK
<1>4. ASSUME NEW i \in 1 .. Len(heap)
      PROVE  /\ heap1[i].cls = heap[i].cls
             /\ Len(heap[i].names) \in Nat /\ Len(heap1[i].names) \in Nat
             /\ Len(heap[i].names) <= Len(heap1[i].names)
             /\ \A j \in 1 .. Len(heap[i].names) : heap1[i].names[j] = heap[i].names[j]
  <2>1. Len(heap[i].names) \in Nat /\ Len(new.names) \in Nat
    BY <1>1, RecordTypes
  <2>2. CASE i = id
    BY <1>2, <2>1, <2>2
  <2>3. CASE i # id
    BY <1>2, <2>1, <2>3
  <2> QED
    BY <2>2, <2>3
<1>5. ASSUME NEW k \in DOMAIN fieldICs PROVE FieldSiteOK(heap1, k, fieldICs[k])
  <2> DEFINE site == fieldICs[k]
  <2> SUFFICES ASSUME site.shape # 0
               PROVE  /\ site.shape \in 1 .. Len(heap1)
                      /\ site.slot \in 1 .. Len(heap1[site.shape].names)
                      /\ heap1[site.shape].names[site.slot] = opt.strings[opt.fields[k]]
    BY DEF FieldSiteOK
  <2>1. /\ site.shape \in 1 .. Len(heap)
        /\ site.slot \in 1 .. Len(heap[site.shape].names)
        /\ heap[site.shape].names[site.slot] = opt.strings[opt.fields[k]]
    BY DEF SitesOK, FieldSiteOK
  <2>2. site.slot \in 1 .. Len(heap1[site.shape].names)
    BY <1>4, <2>1
  <2> QED
    BY <1>2, <1>4, <2>1, <2>2
<1>6. ASSUME NEW k \in DOMAIN methodICs PROVE MethodSiteOK(L, heap1, k, methodICs[k])
  <2> SUFFICES ASSUME methodICs[k].shape # 0 PROVE MethodSiteOK(L, heap1, k, methodICs[k])
    BY DEF MethodSiteOK
  <2>1. PICK i, name : i = methodICs[k].shape /\ name = opt.strings[opt.methods[k]]
    OBVIOUS
  <2>2. MethodSiteOK(L, heap, k, methodICs[k])
    BY DEF SitesOK
  <2>3. i \in 1 .. Len(heap) /\ heap1[i].cls = heap[i].cls /\ Len(heap1) = Len(heap)
    BY <1>2, <1>4, <2>1, <2>2 DEF MethodSiteOK
  <2>4. Method(opt, heap1[i], name) = Method(opt, heap[i], name)
        /\ (HasMethod(opt, heap1[i], name) <=> HasMethod(opt, heap[i], name))
    BY <2>3 DEF Method, HasMethod
  <2> QED
    BY <2>1, <2>2, <2>3, <2>4 DEF MethodSiteOK
<1>7. SitesOK(L, heap1)
  BY <1>5, <1>6 DEF SitesOK
<1> QED
  BY <1>2, <1>3, <1>7 DEF heap1

(* Two steps on the stack. *)
LEMMA StackedTwice ==
    ASSUME NEW V, NEW c, NEW c1, NEW c2, NEW height1, NEW height2, NEW low1 \in Int,
           NEW low2 \in Int,
           Stacked(c, c1, V, height1, low1), Stacked(c1, c2, V, height2, low2), low1 <= low2
    PROVE  Stacked(c, c2, V, height2, low1)
<1> SUFFICES ASSUME NEW b \in Nat, b <= Len(c[1]), b <= low1 PROVE b <= Len(c2[1])
  BY DEF Stacked
<1>1. b <= Len(c1[1])
  BY DEF Stacked
<1>2. b <= low2
  OBVIOUS
<1> QED
  BY <1>1, <1>2 DEF Stacked

(* The field an instruction with a cache is about. *)
LEMMA FieldNamed ==
    ASSUME NEW L, NEW V, VMInv(L, V), NEW o \in {Op.GET_FIELD_IC, Op.SET_FIELD_IC}, At(o)
    PROVE  /\ U(1) + 1 \in DOMAIN opt.fields /\ U(1) + 1 \in DOMAIN fieldICs
           /\ opt.strings[opt.fields[U(1) + 1]] \in Strings
<1>1. o \in Translated /\ Width(o) = 3
  BY StraightTable DEF Straight
<1>2. vm.outcome = "running" /\ Byte(opt.code, vm.ip) = o
  BY <1>1, Recognised
<1>3. U(1) = UInt16(opt.code, vm.ip + 1)
  <2>1. 3 \in Nat /\ 1 \in 1 .. 3 - 2
    OBVIOUS
  <2> QED
    BY <1>1, <1>2, <2>1, Operands
<1>4. Resolved(opt, L, vm.ip, o)
  BY <1>2, Decoded, VerifiedLabels DEF VMInv, Checked
<1>5. U(1) + 1 \in DOMAIN opt.fields /\ opt.fields[U(1) + 1] \in DOMAIN opt.strings
  BY <1>3, <1>4, OpNumbers DEF Resolved
<1> QED
  BY <1>5 DEF VMInv, SitesOK, Strings

(* The receiver on the stack is replaced by a value. *)
LEMMA GetsField ==
    ASSUME NEW L, NEW V, VMInv(L, V), At(Op.GET_FIELD_IC), NEW w \in V,
           Go(vm, 3, PUSH_TOS(DISCARD_TOS(cache), w)), opt' = opt, code' = code,
           SitesOK(L, vm.heap)'
    PROVE  VMInv(L, V)'
<1>1. Straight(Op.GET_FIELD_IC, 1, 1, 3)
  BY StraightTable
<1>2. vm.outcome = "running" /\ Byte(opt.code, vm.ip) = Op.GET_FIELD_IC
  BY <1>1, Recognised DEF Straight
<1>3. PICK q : q = vm.ip + 3
  OBVIOUS
<1>4. /\ q \in Successors(opt.code, vm.ip, Byte(opt.code, vm.ip))
      /\ 1 = Takes(Byte(opt.code, vm.ip), Byte(opt.code, vm.ip + 3))
      /\ 1 = Leaves(Byte(opt.code, vm.ip)) /\ 1 \in Nat
  BY <1>1, <1>2, <1>3 DEF Straight
<1>5. PICK h \in Nat : Height(cache) = h
  BY Untouched
<1>6. h >= 1
  BY <1>2, <1>4, <1>5, EnoughOnStack
<1>7. PICK rest, c : rest = DISCARD_TOS(cache) /\ c = PUSH_TOS(rest, w)
  OBVIOUS
<1>8. Stacked(cache, rest, V, h - 1, h - 1)
  BY <1>5, <1>6, <1>7, Untouched, DiscardStacks
<1>9. Stacked(rest, c, V, h, h)
  <2>1. IsCache(rest, V) /\ Height(rest) = h - 1
    BY <1>8 DEF Stacked
  <2>2. (h - 1) + 1 = h
    BY <1>5
  <2> QED
    BY <1>7, <2>1, <2>2, PushStacks
<1>10. Stacked(cache, c, V, h, h - 1)
  <2>1. h - 1 \in Int /\ h \in Int /\ h - 1 <= h
    BY <1>5
  <2> QED
    BY <1>8, <1>9, <2>1, StackedTwice
<1>11. h \in Int /\ h - 1 \in Int /\ h + 1 = Height(cache) + 1 /\ (h - 1) + 1 >= Height(cache)
  BY <1>5
<1>12. vm' = [vm EXCEPT !.ip = q] /\ cache' = c
  BY <1>3, <1>7 DEF Go
<1>13. Kept(vm, V) /\ Quickened(L)'
  BY Untouched, PlainCode DEF Reassigned
<1>14. ValuesOK(V, vm.heap)' /\ HeapOK(V, vm.heap)'
  <2>1. vm'.heap = vm.heap
    BY <1>12, <1>13 DEF Kept, VMFields
  <2> QED
    BY <2>1 DEF VMInv, ValuesOK, HeapOK, Records, Strings
<1> QED
  BY <1>2, <1>4, <1>10, <1>11, <1>12, <1>13, <1>14, Proceeds

(* A cache of a field is filled, or left as it was; the heap is as in heap1. *)
LEMMA FillsSite ==
    ASSUME NEW L, NEW V, VMInv(L, V), NEW heap1, SitesOK(L, heap1), vm'.heap = heap1,
           opt' = opt, methodICs' = methodICs, NEW k \in DOMAIN fieldICs, NEW id, NEW slot,
           id \in 1 .. Len(heap1), slot \in 1 .. Len(heap1[id].names),
           heap1[id].names[slot] = opt.strings[opt.fields[k]],
           \/ fieldICs' = fieldICs
           \/ fieldICs' = [fieldICs EXCEPT ![k] = [shape |-> id, slot |-> slot]]
    PROVE  SitesOK(L, vm.heap)'
<1>1. DOMAIN fieldICs' = DOMAIN opt.fields /\ DOMAIN methodICs' = DOMAIN opt.methods
  BY DEF SitesOK
<1>2. ASSUME NEW j \in DOMAIN fieldICs PROVE FieldSiteOK(heap1, j, fieldICs'[j])
  <2>1. CASE fieldICs' = fieldICs \/ j # k
    <3>1. fieldICs'[j] = fieldICs[j]
      BY <2>1
    <3> QED
      BY <3>1 DEF SitesOK
  <2>2. CASE fieldICs' = [fieldICs EXCEPT ![k] = [shape |-> id, slot |-> slot]] /\ j = k
    <3>1. fieldICs'[j] = [shape |-> id, slot |-> slot]
      BY <2>2
    <3> QED
      BY <2>2, <3>1 DEF FieldSiteOK
  <2> QED
    BY <2>1, <2>2
<1>3. \A j \in DOMAIN methodICs : MethodSiteOK(L, heap1, j, methodICs[j])
  BY DEF SitesOK
<1> QED
  BY <1>1, <1>2, <1>3 DEF SitesOK, FieldSiteOK, MethodSiteOK

(* A value that is an object is one there is. *)
LEMMA ObjectThere ==
    ASSUME NEW L, NEW V, VMInv(L, V), NEW v \in V, IsObj(v)
    PROVE  /\ v[2] \in 1 .. Len(vm.heap) /\ vm.heap[v[2]] \in Records(V)
           /\ ObjectOK(vm.heap[v[2]])
<1>1. v[2] \in 1 .. Len(vm.heap)
  BY DEF VMInv, ValuesOK
<1> QED
  BY <1>1, ElementOfSeq DEF VMInv, HeapOK

(* A hit: the slot of the cache is that of the field. *)
LEMMA HitTells ==
    ASSUME NEW L, NEW V, VMInv(L, V), NEW v \in V, NEW k \in DOMAIN fieldICs,
           Hit(fieldICs[k], v)
    PROVE  /\ IsObj(v) /\ v[2] = fieldICs[k].shape
           /\ fieldICs[k].slot \in 1 .. Len(vm.heap[v[2]].names)
           /\ vm.heap[v[2]].names[fieldICs[k].slot] = opt.strings[opt.fields[k]]
<1>1. IsObj(v) /\ fieldICs[k].shape # 0 /\ v[2] = fieldICs[k].shape
  BY DEF Hit, Shape
<1>2. FieldSiteOK(vm.heap, k, fieldICs[k])
  BY DEF VMInv, SitesOK
<1> QED
  BY <1>1, <1>2 DEF FieldSiteOK

LEMMA GetFieldICInv ==
    ASSUME NEW L, NEW V, VMInv(L, V), GetFieldIC
    PROVE  \E W : VMInv(L, W)'
<1>1. PICK k, v : k = U(1) + 1 /\ v = PEEK_TOS(cache)
  OBVIOUS
<1>2. At(Op.GET_FIELD_IC) /\ Straight(Op.GET_FIELD_IC, 1, 1, 3)
  BY StraightTable DEF GetFieldIC
<1>3. v \in V
  BY <1>1, <1>2, TopIn
<1>4. k \in DOMAIN opt.fields /\ k \in DOMAIN fieldICs
      /\ opt.strings[opt.fields[k]] \in Strings
  BY <1>1, <1>2, FieldNamed
<1>5. opt' = opt /\ code' = code /\ methodICs' = methodICs
  BY DEF GetFieldIC
<1> DEFINE obj == vm.heap[v[2]]
           field == opt.strings[opt.fields[k]]
           rest == DISCARD_TOS(cache)
<1>6. ASSUME NEW w, Go(vm, 3, PUSH_TOS(rest, w)) PROVE vm'.heap = vm.heap
  <2>1. DOMAIN vm = VMFields
    BY DEF VMInv, MachineOK
  <2> QED
    BY <1>6, <2>1 DEF Go, VMFields
<1>7. ASSUME vm'.heap = vm.heap, fieldICs' = fieldICs PROVE SitesOK(L, vm.heap)'
  BY <1>5, <1>7 DEF VMInv, SitesOK, FieldSiteOK, MethodSiteOK
<1>8. CASE ~IsObj(v)
  <2>1. PICK w : w = Number(0)
    OBVIOUS
  <2>2. Go(vm, 3, PUSH_TOS(rest, w)) /\ fieldICs' = fieldICs
    BY <1>1, <1>8, <2>1 DEF GetFieldIC
  <2>3. PICK W : VMInv(L, W) /\ w \in W
    BY <2>1, SimpleValues, Computes
  <2>4. SitesOK(L, vm.heap)'
    BY <1>6, <1>7, <2>2
  <2>5. VMInv(L, W)'
    BY <1>2, <1>5, <2>2, <2>3, <2>4, GetsField
  <2> QED
    BY <2>5
<1>9. CASE IsObj(v) /\ Hit(fieldICs[k], v)
  <2>1. PICK w : w = obj.vals[fieldICs[k].slot]
    OBVIOUS
  <2>2. Go(vm, 3, PUSH_TOS(rest, w)) /\ fieldICs' = fieldICs
    BY <1>1, <1>9, <2>1 DEF GetFieldIC
  <2>3. w \in V
    <3>1. fieldICs[k].slot \in 1 .. Len(obj.names)
      BY <1>3, <1>4, <1>9, HitTells
    <3>2. \A i \in 1 .. Len(obj.names) : obj.vals[i] \in V
      BY <1>3, <1>9, ObjectThere, RecordTypes
    <3> QED
      BY <2>1, <3>1, <3>2
  <2>4. SitesOK(L, vm.heap)'
    BY <1>6, <1>7, <2>2
  <2>5. VMInv(L, V)'
    BY <1>2, <1>5, <2>2, <2>3, <2>4, GetsField
  <2> QED
    BY <2>5
<1>10. CASE IsObj(v) /\ ~Hit(fieldICs[k], v) /\ HasField(obj, field)
  <2>1. PICK slot : slot = SlotOf(obj, field)
    OBVIOUS
  <2>2. PICK w : w = obj.vals[slot]
    OBVIOUS
  <2>3. Go(vm, 3, PUSH_TOS(rest, w))
        /\ fieldICs' = [fieldICs EXCEPT ![k] = [shape |-> v[2], slot |-> slot]]
    BY <1>1, <1>10, <2>1, <2>2 DEF GetFieldIC
  <2>4. slot \in 1 .. Len(obj.names) /\ obj.names[slot] = field /\ w \in V
    <3>1. DOMAIN obj.names = 1 .. Len(obj.names)
          /\ \A i \in 1 .. Len(obj.names) : obj.vals[i] \in V
      BY <1>3, <1>10, ObjectThere, RecordTypes
    <3> QED
      BY <1>10, <2>1, <2>2, <3>1, SlotFound
  <2>5. SitesOK(L, vm.heap)'
    <3>1. vm'.heap = vm.heap /\ v[2] \in 1 .. Len(vm.heap) /\ SitesOK(L, vm.heap)
      BY <1>3, <1>6, <1>10, <2>3, ObjectThere DEF VMInv
    <3>2. PICK heap1, id : heap1 = vm.heap /\ id = v[2]
      OBVIOUS
    <3>3. /\ SitesOK(L, heap1) /\ vm'.heap = heap1 /\ id \in 1 .. Len(heap1)
          /\ slot \in 1 .. Len(heap1[id].names)
          /\ heap1[id].names[slot] = opt.strings[opt.fields[k]]
          /\ fieldICs' = [fieldICs EXCEPT ![k] = [shape |-> id, slot |-> slot]]
      BY <2>3, <2>4, <3>1, <3>2
    <3> QED
      BY <1>4, <1>5, <3>3, FillsSite
  <2>6. VMInv(L, V)'
    BY <1>2, <1>5, <2>3, <2>4, <2>5, GetsField
  <2> QED
    BY <2>6
<1>11. CASE IsObj(v) /\ ~Hit(fieldICs[k], v) /\ ~HasField(obj, field)
  <2>1. vm' = [vm EXCEPT !.outcome = "escaped"] /\ cache' = FLUSH_TOS(rest)
        /\ fieldICs' = fieldICs
    BY <1>1, <1>11 DEF GetFieldIC
  <2>2. IsCache(rest, V)
    <3>1. vm.outcome = "running" /\ Byte(opt.code, vm.ip) = Op.GET_FIELD_IC
      BY <1>2, Recognised DEF Straight
    <3>2. Height(cache) >= 1
      BY <1>2, <3>1, EnoughOnStack DEF Straight
    <3> QED
      BY <3>2, Untouched, DiscardStacks DEF Stacked
  <2>3. IsCache(cache', V)
    BY <2>1, <2>2, FlushStacks DEF Stacked
  <2>4. Quickened(L)'
    BY <1>5, PlainCode
  <2>5. VMInv(L, V)'
    BY <1>5, <2>1, <2>3, <2>4, Stops
  <2> QED
    BY <2>5
<1> QED
  BY <1>8, <1>9, <1>10, <1>11

(* The two operands of SET_FIELD are taken; m is the machine with the object. *)
LEMMA SetsField ==
    ASSUME NEW L, NEW V, VMInv(L, V), At(Op.SET_FIELD_IC), NEW m, Kept(m, V),
           Go(m, 3, POP_TWO_TOS(cache)), opt' = opt, code' = code,
           ValuesOK(V, vm.heap)', HeapOK(V, vm.heap)', SitesOK(L, vm.heap)'
    PROVE  VMInv(L, V)'
<1>1. Straight(Op.SET_FIELD_IC, 2, 0, 3)
  BY StraightTable
<1>2. vm.outcome = "running" /\ Byte(opt.code, vm.ip) = Op.SET_FIELD_IC
  BY <1>1, Recognised DEF Straight
<1>3. PICK q : q = vm.ip + 3
  OBVIOUS
<1>4. /\ q \in Successors(opt.code, vm.ip, Byte(opt.code, vm.ip))
      /\ 2 = Takes(Byte(opt.code, vm.ip), Byte(opt.code, vm.ip + 3))
      /\ 0 = Leaves(Byte(opt.code, vm.ip)) /\ 2 \in Nat /\ 0 \in Nat
  BY <1>1, <1>2, <1>3 DEF Straight
<1>5. PICK h \in Nat : Height(cache) = h
  BY Untouched
<1>6. h >= 2
  BY <1>2, <1>4, <1>5, EnoughOnStack
<1>7. PICK c : c = POP_TWO_TOS(cache)
  OBVIOUS
<1>8. Stacked(cache, c, V, h - 2, h - 2)
  BY <1>5, <1>6, <1>7, Untouched, PopTwoStacks
<1>9. h - 2 \in Int /\ (h - 2) + 2 = Height(cache) + 0 /\ (h - 2) + 2 >= Height(cache)
  BY <1>5
<1>10. vm' = [m EXCEPT !.ip = q] /\ cache' = c
  BY <1>3, <1>7 DEF Go
<1>11. Quickened(L)'
  BY PlainCode
<1> QED
  BY <1>2, <1>4, <1>8, <1>9, <1>10, <1>11, Proceeds

(* A hit assigns what SetField would: no other slot has the name. *)
LEMMA HitAssigns ==
    ASSUME NEW V, NEW obj \in Records(V), ObjectOK(obj), NEW field, NEW slot,
           slot \in 1 .. Len(obj.names), obj.names[slot] = field, NEW new
    PROVE  SetField(obj, field, new) = [obj EXCEPT !.vals[slot] = new]
<1>1. DOMAIN obj.names = 1 .. Len(obj.names)
  BY RecordTypes
<1>2. HasField(obj, field)
  BY <1>1 DEF HasField
<1>3. SlotOf(obj, field) = slot
  BY <1>1, <1>2, SlotFound DEF ObjectOK
<1> QED
  BY <1>2, <1>3 DEF SetField

LEMMA AssignedObject ==
    ASSUME NEW L, NEW V, VMInv(L, V), At(Op.SET_FIELD_IC), NEW k, k = U(1) + 1,
           NEW id \in 1 .. Len(vm.heap), NEW new \in V, NEW done,
           done = SetField(vm.heap[id], opt.strings[opt.fields[k]], new),
           Go([vm EXCEPT !.heap = [vm.heap EXCEPT ![id] = done]], 3, POP_TWO_TOS(cache)),
           opt' = opt, code' = code, methodICs' = methodICs,
           \/ fieldICs' = fieldICs
           \/ fieldICs' = [fieldICs EXCEPT ![k] =
                   [shape |-> id, slot |-> SlotOf(done, opt.strings[opt.fields[k]])]]
    PROVE  VMInv(L, V)'
<1> DEFINE field == opt.strings[opt.fields[k]]
<1>1. k \in DOMAIN fieldICs /\ field \in Strings
  BY FieldNamed
<1>2. vm.heap[id] \in Records(V) /\ ObjectOK(vm.heap[id])
  BY ElementOfSeq DEF VMInv, HeapOK
<1>3. /\ done \in Records(V) /\ ObjectOK(done) /\ HasField(done, field)
      /\ done.cls = vm.heap[id].cls
      /\ Len(vm.heap[id].names) <= Len(done.names)
      /\ \A i \in 1 .. Len(vm.heap[id].names) : done.names[i] = vm.heap[id].names[i]
  BY <1>1, <1>2, AssignsField
<1>4. PICK heap0, heap1 : heap0 = vm.heap /\ heap1 = [heap0 EXCEPT ![id] = done]
  OBVIOUS
<1>5. /\ ValuesOK(V, heap1) /\ HeapOK(V, heap1) /\ SitesOK(L, heap1)
      /\ Len(heap1) = Len(heap0) /\ heap1[id] = done
  <2>1. ValuesOK(V, heap0) /\ HeapOK(V, heap0) /\ SitesOK(L, heap0) /\ id \in 1 .. Len(heap0)
    BY <1>4 DEF VMInv
  <2>2. /\ done \in Records(V) /\ ObjectOK(done) /\ done.cls = heap0[id].cls
        /\ Len(heap0[id].names) <= Len(done.names)
        /\ \A i \in 1 .. Len(heap0[id].names) : done.names[i] = heap0[id].names[i]
    BY <1>3, <1>4
  <2> QED
    BY ONLY <1>4, <2>1, <2>2, ChangesObject
<1>6. PICK m : m = [vm EXCEPT !.heap = heap1]
  OBVIOUS
<1>7. Kept(m, V) /\ m.heap = heap1
  BY <1>6 DEF VMInv, MachineOK, Kept, VMFields
<1>8. Go(m, 3, POP_TWO_TOS(cache))
  BY <1>4, <1>6
<1>9. vm'.heap = heap1
  BY <1>7, <1>8 DEF Go, Kept, VMFields
<1>10. ValuesOK(V, vm.heap)' /\ HeapOK(V, vm.heap)'
  BY <1>5, <1>9 DEF ValuesOK, HeapOK, Records, Strings
<1>11. SitesOK(L, vm.heap)'
  <2>1. PICK slot : slot = SlotOf(done, field)
    OBVIOUS
  <2>2. slot \in 1 .. Len(heap1[id].names) /\ heap1[id].names[slot] = field
    <3>1. DOMAIN done.names = 1 .. Len(done.names)
      <4>1. done \in Records(V) /\ ObjectOK(done)
        BY <1>3
      <4> QED
        BY ONLY <4>1, RecordTypes
    <3> HIDE DEF field
    <3>2. slot \in DOMAIN done.names /\ done.names[slot] = field
      <4>1. HasField(done, field)
        BY <1>3
      <4> QED
        BY ONLY <2>1, <4>1, SlotFound
    <3> QED
      BY <1>5, <3>1, <3>2
  <2>3. \/ fieldICs' = fieldICs
        \/ fieldICs' = [fieldICs EXCEPT ![k] = [shape |-> id, slot |-> slot]]
    BY <2>1
  <2>4. id \in 1 .. Len(heap1)
    BY <1>4, <1>5
  <2> QED
    BY <1>1, <1>5, <1>9, <2>2, <2>3, <2>4, FillsSite
<1> QED
  BY <1>7, <1>8, <1>10, <1>11, SetsField

LEMMA SetFieldICInv ==
    ASSUME NEW L, NEW V, VMInv(L, V), SetFieldIC
    PROVE  VMInv(L, V)'
<1>1. PICK k, v, new : k = U(1) + 1 /\ v = TopTwo(cache)[1] /\ new = TopTwo(cache)[2]
  OBVIOUS
<1>2. At(Op.SET_FIELD_IC) /\ Straight(Op.SET_FIELD_IC, 2, 0, 3)
      /\ opt' = opt /\ code' = code /\ methodICs' = methodICs
  BY StraightTable DEF SetFieldIC
<1>3. v \in V /\ new \in V
  <2>1. vm.outcome = "running" /\ Byte(opt.code, vm.ip) = Op.SET_FIELD_IC
    BY <1>2, Recognised DEF Straight
  <2>2. Height(cache) >= 2
    BY <1>2, <2>1, EnoughOnStack DEF Straight
  <2> QED
    BY <1>1, <2>2, Untouched, TopTwoIn
<1> DEFINE obj == vm.heap[v[2]]
           field == opt.strings[opt.fields[k]]
<1>4. PICK done : done = SetField(obj, field, new)
  OBVIOUS
<1>5. k \in DOMAIN fieldICs
  BY <1>1, <1>2, FieldNamed
<1>6. CASE ~IsObj(v)
  <2>1. Go(vm, 3, POP_TWO_TOS(cache)) /\ fieldICs' = fieldICs
    BY <1>1, <1>6 DEF SetFieldIC
  <2>2. Kept(vm, V)
    BY Untouched DEF Reassigned
  <2>3. vm'.heap = vm.heap
    BY <2>1, <2>2 DEF Go, Kept, VMFields
  <2>4. ValuesOK(V, vm.heap)' /\ HeapOK(V, vm.heap)'
    BY <1>2, <2>3 DEF VMInv, ValuesOK, HeapOK, Records, Strings
  <2>5. SitesOK(L, vm.heap)'
    BY <1>2, <2>1, <2>3 DEF VMInv, SitesOK, FieldSiteOK, MethodSiteOK
  <2> QED
    BY <1>2, <2>1, <2>2, <2>4, <2>5, SetsField
<1>7. CASE IsObj(v)
  <2>1. PICK id : id = v[2]
    OBVIOUS
  <2>2. id \in 1 .. Len(vm.heap) /\ obj \in Records(V) /\ ObjectOK(obj)
    BY <1>3, <1>7, <2>1, ObjectThere
  <2>3. done = SetField(vm.heap[id], opt.strings[opt.fields[k]], new)
    BY <1>4, <2>1
  <2>4. CASE Hit(fieldICs[k], v)
    <3>1. PICK slot : slot = fieldICs[k].slot
      OBVIOUS
    <3>2. slot \in 1 .. Len(obj.names) /\ obj.names[slot] = field
      BY <1>3, <1>5, <2>4, <3>1, HitTells
    <3>3. done = [obj EXCEPT !.vals[slot] = new]
      <4>1. PICK old, name : old = obj /\ name = field
        OBVIOUS
      <4>2. old \in Records(V) /\ ObjectOK(old) /\ slot \in 1 .. Len(old.names)
            /\ old.names[slot] = name
        BY <2>2, <3>2, <4>1
      <4>3. SetField(old, name, new) = [old EXCEPT !.vals[slot] = new]
        BY <4>2, HitAssigns
      <4> QED
        BY <1>4, <4>1, <4>3
    <3>4. Go([vm EXCEPT !.heap[v[2]].vals[slot] = new], 3, POP_TWO_TOS(cache))
          /\ fieldICs' = fieldICs
      BY <1>1, <1>7, <2>4, <3>1 DEF SetFieldIC
    <3>5. [vm EXCEPT !.heap[v[2]].vals[slot] = new] =
              [vm EXCEPT !.heap = [vm.heap EXCEPT ![id] = done]]
      BY <2>1, <3>3
    <3>6. Go([vm EXCEPT !.heap = [vm.heap EXCEPT ![id] = done]], 3, POP_TWO_TOS(cache))
      BY <3>4, <3>5
    <3> QED
      BY <1>1, <1>2, <1>3, <2>2, <2>3, <3>4, <3>6, AssignedObject
  <2>5. CASE ~Hit(fieldICs[k], v)
    <3>1. /\ Go([vm EXCEPT !.heap[v[2]] = done], 3, POP_TWO_TOS(cache))
          /\ fieldICs' = [fieldICs EXCEPT ![k] =
                   [shape |-> v[2], slot |-> SlotOf(done, field)]]
      BY <1>1, <1>4, <1>7, <2>5 DEF SetFieldIC
    <3>2. [vm EXCEPT !.heap[v[2]] = done] =
              [vm EXCEPT !.heap = [vm.heap EXCEPT ![id] = done]]
      BY <2>1
    <3>3. /\ Go([vm EXCEPT !.heap = [vm.heap EXCEPT ![id] = done]], 3, POP_TWO_TOS(cache))
          /\ fieldICs' = [fieldICs EXCEPT ![k] =
                   [shape |-> id, slot |-> SlotOf(done, opt.strings[opt.fields[k]])]]
      BY <2>1, <3>1, <3>2
    <3> QED
      BY <1>1, <1>2, <1>3, <2>2, <2>3, <3>3, AssignedObject
  <2> QED
    BY <2>4, <2>5
<1> QED
  BY <1>6, <1>7

-----------------------------------------------------------------------------
(* Calls.                                                                    *)

(* An instruction that calls: n arguments are taken, a frame is entered.     *)
Calls == {Op.CALL, Op.CALL_FAST_0, Op.CALL_FAST_1, Op.INVOKE_METHOD_IC}

LEMMA CallTable ==
    /\ Calls \subseteq Translated
    /\ \A o \in Calls : /\ Width(o) = 4 /\ Leaves(o) = 1
                        /\ \A bytes, p : Successors(bytes, p, o) = {p + 4}
    /\ \A n : /\ Takes(Op.CALL, n) = n /\ Takes(Op.INVOKE_METHOD_IC, n) = n + 1
              /\ Takes(Op.CALL_FAST_0, n) = 0 /\ Takes(Op.CALL_FAST_1, n) = 1
<1>1. Calls \subseteq Translated
  BY DEF Calls, Translated
<1>2. \A o \in Calls : Width(o) = 4
  BY OpNumbers DEF Calls, Width, OptLen, CanonicalLen, Jumps
<1>3. \A o \in Calls : Leaves(o) = 1
  BY OpNumbers DEF Calls, Leaves, Binaries
<1>4. \A o \in Calls : \A bytes, p : Successors(bytes, p, o) = {p + 4}
  BY <1>2, OpNumbers DEF Calls, Successors
<1>5. \A n : /\ Takes(Op.CALL, n) = n /\ Takes(Op.INVOKE_METHOD_IC, n) = n + 1
             /\ Takes(Op.CALL_FAST_0, n) = 0 /\ Takes(Op.CALL_FAST_1, n) = 1
  BY OpNumbers DEF Takes, Binaries
<1> QED
  BY <1>1, <1>2, <1>3, <1>4, <1>5

(* The caller waits behind the call, and its blocks are deep enough. *)
LEMMA CallerWaits ==
    ASSUME NEW L, NEW V, VMInv(L, V), vm.outcome = "running",
           Byte(opt.code, vm.ip) \in Calls, NEW n \in Nat,
           n = Takes(Byte(opt.code, vm.ip), Byte(opt.code, vm.ip + 3)),
           NEW left \in Int, left + n = Height(cache)
    PROVE  /\ left \in Nat /\ vm.ip + 4 \in DOMAIN L
           /\ Control(L, opt.topSize, vm.ip + 4, vm.calls, vm.tries, left + 1)
           /\ Bottom(vm.calls, Len(vm.calls)) <= left
           /\ \A i \in 1 .. Len(vm.tries) :
                 vm.tries[i].calls = Len(vm.calls) => vm.tries[i].depth <= left
<1> DEFINE p == vm.ip
           o == Byte(opt.code, p)
           b == Bottom(vm.calls, Len(vm.calls))
<1>1. p \in DOMAIN L /\ Labelled(L) /\ opt.topSize \in Nat /\ Checked(opt, L, p)
  BY Decoded, VerifiedLabels DEF VMInv
<1>2. vm.calls \in FrameRecords /\ vm.tries \in TryRecords
  BY DEF VMInv, MachineOK
<1>3. PICK h \in Nat : Height(cache) = h
  BY Untouched
<1>4. PICK d \in Nat : L[p].depth = d
  BY <1>1, LabelTypes
<1>5. b \in Nat /\ b + d <= h /\ h >= n /\ d >= n
      /\ \A j \in 1 .. Len(L[p].tries) : L[p].tries[j].depth <= d - n
  BY <1>3, <1>4, EnoughOnStack
<1> HIDE DEF b
<1>6. left \in Nat /\ b <= left /\ left = h - n
  BY <1>3, <1>5
<1>7. PICK q : q = p + 4
  OBVIOUS
<1>8. Follows(L, p, q, d - n + 1, L[p].tries)
  <2>1. Successors(opt.code, p, o) = {q} /\ Leaves(o) = 1
    BY <1>7, CallTable
  <2> QED
    BY <1>1, <1>4, <2>1 DEF Checked
<1>9. /\ q \in DOMAIN L /\ L[q].depth <= d - n + 1 /\ L[q].room <= L[p].room
      /\ L[q].tries = L[p].tries
  BY <1>8 DEF Follows
<1>10. L[q].depth + h <= L[p].depth + (left + 1)
  <2>1. PICK e \in Nat : L[q].depth = e
    BY <1>1, <1>9, LabelTypes
  <2>2. e <= d - n + 1
    BY <1>9, <2>1
  <2>3. e + h <= d + (left + 1)
    BY <1>6, <2>2
  <2> QED
    BY <1>4, <2>1, <2>3
<1>11. Control(L, opt.topSize, p, vm.calls, vm.tries, h)
  BY <1>3 DEF VMInv, Running
<1>12. Control(L, opt.topSize, q, vm.calls, vm.tries, left + 1)
  BY <1>1, <1>2, <1>6, <1>9, <1>10, <1>11, GoesOn
<1>13. \A i \in 1 .. Len(vm.tries) :
          vm.tries[i].calls = Len(vm.calls) => vm.tries[i].depth <= left
  <2>1. ASSUME NEW j \in 1 .. Len(L[p].tries)
        PROVE  L[p].tries[j].depth + h <= left + L[p].depth
    <3>1. PICK e \in Nat : L[p].tries[j].depth = e
      BY <1>1, LabelTypes
    <3>2. e <= d - n
      BY <1>5, <3>1
    <3>3. e + h <= left + d
      BY <1>6, <3>2
    <3> QED
      BY <1>4, <3>1, <3>3
  <2> QED
    BY <1>1, <1>2, <1>6, <1>11, <2>1, Capped
<1> QED
  BY <1>6, <1>7, <1>9, <1>12, <1>13 DEF b

LEMMA CallsFunction ==
    ASSUME NEW L, NEW V, VMInv(L, V), vm.outcome = "running",
           Byte(opt.code, vm.ip) \in Calls, NEW n \in Nat,
           n = Takes(Byte(opt.code, vm.ip), Byte(opt.code, vm.ip + 3)),
           NEW left \in Int, left + n = Height(cache),
           NEW q, NEW size \in Nat, Enterable(L, q, size), NEW args \in Seq(V),
           DOMAIN vm' = VMFields,
           vm'.calls = Append(vm.calls, [ret |-> vm.ip + 4, base |-> vm.top,
                                         depth |-> left, size |-> size]),
           vm'.locals = WriteCells(vm.locals, vm.top, args),
           vm'.top = vm.top + size, vm'.ip = q, vm'.tries = vm.tries, vm'.heap = vm.heap,
           IsCache(cache', V), Len(cache'[1]) = left, Height(cache') = left,
           opt' = opt, code' = code, SitesOK(L, vm.heap)'
    PROVE  VMInv(L, V)'
<1>1. /\ left \in Nat /\ vm.ip + 4 \in DOMAIN L
      /\ Control(L, opt.topSize, vm.ip + 4, vm.calls, vm.tries, left + 1)
      /\ Bottom(vm.calls, Len(vm.calls)) <= left
      /\ \A i \in 1 .. Len(vm.tries) :
            vm.tries[i].calls = Len(vm.calls) => vm.tries[i].depth <= left
  BY CallerWaits
<1>2. vm.calls \in FrameRecords /\ vm.tries \in TryRecords /\ vm.top \in Nat
      /\ \A i \in DOMAIN vm.locals : vm.locals[i] \in V
  BY DEF VMInv, MachineOK
<1>3. Labelled(L) /\ opt.topSize \in Nat /\ q \in DOMAIN L
  BY VerifiedLabels DEF VMInv, Enterable
<1>4. PICK f : f = [ret |-> vm.ip + 4, base |-> vm.top, depth |-> left, size |-> size]
  OBVIOUS
<1>5. PICK calls : calls = Append(vm.calls, f)
  OBVIOUS
<1>6. calls \in FrameRecords /\ Control(L, opt.topSize, q, calls, vm.tries, left)
  <2>1. PICK ret : ret = vm.ip + 4
    OBVIOUS
  <2>2. /\ ret \in DOMAIN L
        /\ Control(L, opt.topSize, ret, vm.calls, vm.tries, left + 1)
    BY <1>1, <2>1
  <2>3. f = [ret |-> ret, base |-> vm.top, depth |-> left, size |-> size]
    BY <1>4, <2>1
  <2>4. LET g == [ret |-> ret, base |-> vm.top, depth |-> left, size |-> size] IN
           /\ Append(vm.calls, g) \in FrameRecords
           /\ Control(L, opt.topSize, q, Append(vm.calls, g), vm.tries, left)
    BY <1>1, <1>2, <1>3, <2>2, EntersFrame
  <2> QED
    BY <1>5, <2>3, <2>4
<1>7. vm'.calls = calls
  BY <1>4, <1>5
<1>8. Bottom(calls, Len(calls)) = left
  <2>1. Len(vm.calls) \in Nat /\ Len(calls) = Len(vm.calls) + 1
        /\ calls[Len(vm.calls) + 1] = f
    BY <1>2, <1>5, FrameTypes DEF FrameRecords
  <2> QED
    BY <1>4, <2>1 DEF Bottom
<1>9. Running(L)'
  <2>1. Control(L, opt'.topSize, vm'.ip, vm'.calls, vm'.tries, Height(cache'))
    BY <1>6, <1>7
  <2>2. left <= left
    BY <1>1
  <2>3. Bottom(vm'.calls, Len(vm'.calls)) <= Len(cache'[1])
    BY <1>7, <1>8, <2>2
  <2> QED
    BY <2>1, <2>3 DEF Running
<1>10. MachineOK(V)'
  <2>1. \A i \in DOMAIN vm'.locals : vm'.locals[i] \in V
    BY <1>2, CellsIn
  <2>2. vm'.top \in Nat
    BY <1>2
  <2> QED
    BY <1>2, <1>6, <1>7, <2>1, <2>2 DEF MachineOK
<1>11. ValuesOK(V, vm.heap)' /\ HeapOK(V, vm.heap)'
  BY DEF VMInv, ValuesOK, HeapOK, Records, Strings
<1>12. Verified(opt, L)' /\ Quickened(L)'
  BY PlainCode DEF VMInv
<1> QED
  BY <1>9, <1>10, <1>11, <1>12 DEF VMInv

(* The arguments are on the stack, in registers or not. *)
LEMMA EntersFast ==
    ASSUME NEW L, NEW V, VMInv(L, V), vm.outcome = "running",
           Byte(opt.code, vm.ip) \in Calls, NEW n \in Nat,
           n = Takes(Byte(opt.code, vm.ip), Byte(opt.code, vm.ip + 3)),
           NEW q, NEW size \in Nat, Enterable(L, q, size), EnterFast(4, q, size, n),
           opt' = opt, code' = code, SitesOK(L, vm.heap)'
    PROVE  VMInv(L, V)'
<1>1. PICK h \in Nat : Height(cache) = h
  BY Untouched
<1>2. h >= n /\ IsCache(cache, V)
  BY <1>1, EnoughOnStack, Untouched
<1>3. PICK left : left = h - n
  OBVIOUS
<1>4. left \in Int /\ left + n = Height(cache)
  BY <1>1, <1>3
<1>5. n \in 0 .. Height(cache)
  BY <1>1, <1>2
<1>6. PICK args : args = Arguments(cache, n)
  OBVIOUS
<1>7. /\ IsCache(cache', V) /\ Len(TAKE_ARGS(cache, n)[1]) = left
      /\ Len(cache'[1]) = left /\ Height(cache') = left /\ args \in Seq(V)
  <2>1. cache' = TAKE_ARGS(cache, n)
    BY DEF EnterFast
  <2> QED
    BY <1>1, <1>2, <1>3, <1>5, <1>6, <2>1, TakeArgsStacks
<1>8. /\ DOMAIN vm' = VMFields
      /\ vm'.calls = Append(vm.calls, [ret |-> vm.ip + 4, base |-> vm.top,
                                       depth |-> left, size |-> size])
      /\ vm'.locals = WriteCells(vm.locals, vm.top, args)
      /\ vm'.top = vm.top + size /\ vm'.ip = q /\ vm'.tries = vm.tries
      /\ vm'.heap = vm.heap
  <2>1. DOMAIN vm = VMFields
    BY DEF VMInv, MachineOK
  <2>2. vm' = [vm EXCEPT !.calls = Append(@, [ret |-> vm.ip + 4, base |-> vm.top,
                                              depth |-> left, size |-> size]),
                         !.locals = WriteCells(@, vm.top, args),
                         !.top = @ + size,
                         !.ip = q]
    BY <1>6, <1>7 DEF EnterFast
  <2> QED
    BY <2>1, <2>2 DEF VMFields
<1> QED
  BY <1>4, <1>7, <1>8, CallsFunction

LEMMA FrameSizes ==
    ASSUME NEW ch, \A f \in DOMAIN ch.frames : ch.frames[f] \in Nat, NEW f, NEW n \in Nat
    PROVE  FrameSize(ch, f, n) \in Nat /\ FrameSize(ch, f, 0) <= FrameSize(ch, f, n)
<1> DEFINE size == IF f \in DOMAIN ch.frames /\ ch.frames[f] > 0 THEN ch.frames[f] ELSE 32
<1>1. size \in Nat
  OBVIOUS
<1>2. \A k : FrameSize(ch, f, k) = IF size < k + 8 THEN k + 8 ELSE size
  BY DEF FrameSize
<1> HIDE DEF size
<1> QED
  BY <1>1, <1>2

(* The number of arguments a call names. *)
LEMMA ArgumentCount ==
    ASSUME NEW L, NEW V, VMInv(L, V), NEW o \in Calls, At(o)
    PROVE  /\ vm.outcome = "running" /\ Byte(opt.code, vm.ip) = o
           /\ Byte(code, vm.ip + 3) = Byte(opt.code, vm.ip + 3)
           /\ Byte(opt.code, vm.ip + 3) \in Nat
           /\ U(1) = UInt16(opt.code, vm.ip + 1)
           /\ Resolved(opt, L, vm.ip, o)
<1>1. vm.outcome = "running" /\ Byte(opt.code, vm.ip) = o
  BY CallTable, Recognised
<1>2. Width(Byte(opt.code, vm.ip)) = 4
  BY <1>1, CallTable
<1>3. 4 \in Nat /\ 3 \in 1 .. 4 - 1 /\ 1 \in 1 .. 4 - 2
  OBVIOUS
<1>4. /\ Byte(code, vm.ip + 3) = Byte(opt.code, vm.ip + 3)
      /\ Byte(code, vm.ip + 3) \in 0 .. 255
      /\ U(1) = UInt16(opt.code, vm.ip + 1)
  BY <1>1, <1>2, <1>3, Operands
<1>5. Resolved(opt, L, vm.ip, o)
  BY <1>1, Decoded, VerifiedLabels DEF VMInv, Checked
<1> QED
  BY <1>1, <1>4, <1>5

LEMMA FrameTable ==
    ASSUME NEW L, NEW V, VMInv(L, V)
    PROVE  \A f : \A n \in Nat :
              FrameSize(opt, f, n) \in Nat /\ FrameSize(opt, f, 0) <= FrameSize(opt, f, n)
<1>1. \A f \in DOMAIN opt.frames : opt.frames[f] \in Nat
  BY DEF VMInv, Verified
<1> QED
  BY <1>1, FrameSizes

LEMMA SitesKept ==
    ASSUME NEW L, NEW V, VMInv(L, V), vm'.heap = vm.heap, opt' = opt, fieldICs' = fieldICs,
           methodICs' = methodICs
    PROVE  SitesOK(L, vm.heap)'
BY DEF VMInv, SitesOK, FieldSiteOK, MethodSiteOK

LEMMA HeapOfCall ==
    ASSUME NEW L, NEW V, VMInv(L, V), NEW len, NEW q, NEW size, NEW n, EnterFast(len, q, size, n)
    PROVE  vm'.heap = vm.heap
<1>1. DOMAIN vm = VMFields
  BY DEF VMInv, MachineOK
<1> QED
  BY <1>1 DEF EnterFast, VMFields

LEMMA CallInv ==
    ASSUME NEW L, NEW V, VMInv(L, V), Call
    PROVE  VMInv(L, V)'
<1>1. PICK n, f : n = Byte(code, vm.ip + 3) /\ f = U(1)
  OBVIOUS
<1>2. At(Op.CALL) /\ Op.CALL \in Calls
  BY DEF Call, Calls
<1>3. /\ vm.outcome = "running" /\ Byte(opt.code, vm.ip) = Op.CALL
      /\ n = Byte(opt.code, vm.ip + 3) /\ n \in Nat
      /\ f = UInt16(opt.code, vm.ip + 1) /\ Resolved(opt, L, vm.ip, Op.CALL)
  BY <1>1, <1>2, ArgumentCount
<1>4. PICK q, size : q = opt.functions[f] /\ size = FrameSize(opt, f, n)
  OBVIOUS
<1>5. Enterable(L, q, size) /\ size \in Nat
  <2>1. Enterable(L, opt.functions[f], FrameSize(opt, f, n))
    BY <1>3, OpNumbers DEF Resolved
  <2> QED
    BY <1>3, <1>4, <2>1, FrameTable
<1>6. EnterFast(4, q, size, n) /\ opt' = opt /\ code' = code
      /\ fieldICs' = fieldICs /\ methodICs' = methodICs
  BY <1>1, <1>4 DEF Call, Plain, sites
<1>7. SitesOK(L, vm.heap)'
  BY <1>6, HeapOfCall, SitesKept
<1>8. n = Takes(Byte(opt.code, vm.ip), Byte(opt.code, vm.ip + 3))
      /\ Byte(opt.code, vm.ip) \in Calls
  BY <1>2, <1>3, CallTable
<1> QED
  BY <1>3, <1>5, <1>6, <1>7, <1>8, EntersFast

LEMMA CallFastInv ==
    ASSUME NEW L, NEW V, VMInv(L, V), CallFast
    PROVE  VMInv(L, V)'
<1>1. PICK n \in 0 .. 1 : At(Op.CALL_FAST_0 + n) /\ Plain
                          /\ EnterFast(4, U(1), Byte(code, vm.ip + 3), n)
  BY DEF CallFast
<1>2. PICK o : o = Op.CALL_FAST_0 + n
  OBVIOUS
<1>3. o = IF n = 0 THEN Op.CALL_FAST_0 ELSE Op.CALL_FAST_1
  BY <1>2, OpNumbers
<1>4. o \in Calls /\ At(o)
  BY <1>1, <1>2, <1>3 DEF Calls
<1>5. PICK q, size : q = U(1) /\ size = Byte(code, vm.ip + 3)
  OBVIOUS
<1>6. /\ vm.outcome = "running" /\ Byte(opt.code, vm.ip) = o
      /\ size = Byte(opt.code, vm.ip + 3) /\ size \in Nat
      /\ q = UInt16(opt.code, vm.ip + 1) /\ Resolved(opt, L, vm.ip, o)
  BY <1>4, <1>5, ArgumentCount
<1>7. Enterable(L, q, size)
  BY <1>3, <1>6, OpNumbers DEF Resolved
<1>8. EnterFast(4, q, size, n) /\ opt' = opt /\ code' = code
      /\ fieldICs' = fieldICs /\ methodICs' = methodICs
  BY <1>1, <1>5 DEF Plain, sites
<1>9. SitesOK(L, vm.heap)'
  BY <1>8, HeapOfCall, SitesKept
<1>10. n = Takes(Byte(opt.code, vm.ip), Byte(opt.code, vm.ip + 3)) /\ n \in Nat
      /\ Byte(opt.code, vm.ip) \in Calls
  <2>1. Takes(o, Byte(opt.code, vm.ip + 3)) = n
    BY <1>3, CallTable
  <2> QED
    BY <1>4, <1>6, <2>1
<1> QED
  BY <1>6, <1>7, <1>8, <1>9, <1>10, EntersFast

(* The stack in memory, as a handler called from the loop sees it. *)
LEMMA OperandsHeld ==
    ASSUME NEW V, NEW ops \in Seq(V), NEW h \in Nat, Len(ops) = h, NEW n \in 0 .. h
    PROVE  /\ Drop(ops, n) \in Seq(V) /\ Len(Drop(ops, n)) = h - n
           /\ Args(ops, n) \in Seq(V) /\ Len(Args(ops, n)) = n
           /\ n # 0 => Args(ops, n)[1] \in V /\ Peek(ops) \in V
<1>1. h - n \in 0 .. h /\ (h - n) + 1 \in 1 .. h + 1
  OBVIOUS
<1>2. \A i \in 1 .. h : ops[i] \in V
  BY ElementOfSeq
<1>3. Drop(ops, n) \in Seq(V) /\ Len(Drop(ops, n)) = h - n
  <2>1. PICK m \in 0 .. h : m = h - n
    BY <1>1
  <2>2. \A i \in 1 .. m : ops[i] \in V
    BY <1>2, <2>1
  <2>3. SubSeq(ops, 1, m) \in Seq(V) /\ Len(SubSeq(ops, 1, m)) = m
    BY <1>2, <2>1, <2>2
  <2> QED
    BY <2>1, <2>3 DEF Drop
<1>4. Args(ops, n) \in Seq(V) /\ Len(Args(ops, n)) = n
  <2>1. PICK m \in 1 .. h + 1 : m = h - n + 1
    BY <1>1
  <2>2. \A i \in m .. h : ops[i] \in V
    BY <1>2, <2>1
  <2>3. SubSeq(ops, m, h) \in Seq(V) /\ Len(SubSeq(ops, m, h)) = h - m + 1
    BY <1>2, <2>1, <2>2, SubSeqProperties
  <2>4. h - m + 1 = n
    BY <2>1
  <2> QED
    BY <2>1, <2>3, <2>4 DEF Args
<1>5. ASSUME n # 0 PROVE Args(ops, n)[1] \in V /\ Peek(ops) \in V
  <2>1. 1 \in 1 .. n /\ h \in 1 .. h
    BY <1>5
  <2> QED
    BY <1>2, <1>4, <2>1, ElementOfSeq DEF Peek
<1> QED
  BY <1>3, <1>4, <1>5

SyncedFields == VMFields \cup {"ops"}

LEMMA Resumed ==
    ASSUME NEW m, DOMAIN m = SyncedFields, Resume(m)
    PROVE  /\ DOMAIN vm' = VMFields /\ cache' = <<m.ops, <<>>>>
           /\ vm'.ip = m.ip /\ vm'.locals = m.locals /\ vm'.top = m.top
           /\ vm'.calls = m.calls /\ vm'.tries = m.tries /\ vm'.heap = m.heap
           /\ vm'.out = m.out /\ vm'.outcome = m.outcome
<1>1. DOMAIN m \ {"ops"} = VMFields
  BY DEF SyncedFields, VMFields
<1>2. vm' = [f \in VMFields |-> m[f]]
  BY <1>1 DEF Resume
<1> QED
  BY <1>2 DEF Resume, VMFields

LEMMA SyncedIs ==
    ASSUME NEW L, NEW V, VMInv(L, V)
    PROVE  /\ DOMAIN Synced = SyncedFields
           /\ Synced.ops \in Seq(V) /\ Len(Synced.ops) = Height(cache)
           /\ Synced.ip = vm.ip /\ Synced.locals = vm.locals /\ Synced.top = vm.top
           /\ Synced.calls = vm.calls /\ Synced.tries = vm.tries /\ Synced.heap = vm.heap
           /\ Synced.out = vm.out /\ Synced.outcome = vm.outcome
<1>1. DOMAIN Synced = SyncedFields /\ Synced.ops = Contents(cache)
  BY DEF Synced, SyncedFields, VMFields
<1>2. Contents(cache) \in Seq(V) /\ Len(Contents(cache)) = Height(cache)
  BY Untouched, FlushStacks
<1> QED
  BY <1>1, <1>2 DEF Synced

(* A stack all of which is in memory. *)
LEMMA AllInMemory ==
    ASSUME NEW V, NEW ops \in Seq(V), NEW n \in Nat, Len(ops) = n
    PROVE  /\ IsCache(<<ops, <<>>>>, V) /\ Height(<<ops, <<>>>>) = n
           /\ Len(<<ops, <<>>>>[1]) = n
           /\ \A c : \A low \in Int : low <= n => Stacked(c, <<ops, <<>>>>, V, n, low)
<1> DEFINE c1 == <<ops, <<>>>>
<1>1. c1[1] = ops /\ c1[2] = <<>> /\ c1 \in Seq(V) \X Seq(V)
  BY EmptySeq
<1>2. Len(c1[2]) = 0
  BY <1>1
<1> HIDE DEF c1
<1>3. IsCache(c1, V) /\ Height(c1) = n /\ Len(c1[1]) = n
  BY <1>1, <1>2 DEF IsCache, Height
<1>4. \A c : \A low \in Int : low <= n => Stacked(c, c1, V, n, low)
  <2> SUFFICES ASSUME NEW c, NEW low \in Int, low <= n PROVE Stacked(c, c1, V, n, low)
    OBVIOUS
  <2>1. \A b \in Nat : b <= low => b <= n
    OBVIOUS
  <2> QED
    BY <1>3, <2>1 DEF Stacked
<1> QED
  BY <1>3, <1>4 DEF c1

(* A handler goes on behind the instruction. *)
LEMMA HandlerGoesOn ==
    ASSUME NEW L, NEW V, VMInv(L, V), vm.outcome = "running",
           NEW m, DOMAIN m = SyncedFields, Resume(m), NEW W, VMInv(L, W),
           NEW takes \in Nat, NEW leaves \in Nat,
           m.ip \in Successors(opt.code, vm.ip, Byte(opt.code, vm.ip)),
           takes = Takes(Byte(opt.code, vm.ip), Byte(opt.code, vm.ip + 3)),
           leaves = Leaves(Byte(opt.code, vm.ip)),
           m.calls = vm.calls, m.tries = vm.tries, m.top = vm.top, m.locals = vm.locals,
           m.ops \in Seq(W), Len(m.ops) + takes = Height(cache) + leaves,
           ValuesOK(W, vm.heap)', HeapOK(W, vm.heap)', SitesOK(L, vm.heap)',
           opt' = opt, code' = code
    PROVE  VMInv(L, W)'
<1>1. /\ DOMAIN vm' = VMFields /\ cache' = <<m.ops, <<>>>>
      /\ vm'.ip = m.ip /\ vm'.locals = m.locals /\ vm'.top = m.top
      /\ vm'.calls = m.calls /\ vm'.tries = m.tries
  BY Resumed
<1>2. PICK h \in Nat : Height(cache) = h
  BY Untouched
<1>3. PICK n \in Nat : Len(m.ops) = n
  BY LenProperties
<1>4. n + takes = h + leaves
  BY <1>2, <1>3
<1>5. PICK low \in Int : low = h - takes
  OBVIOUS
<1>6. PICK q, c : q = m.ip /\ c = cache'
  OBVIOUS
<1>7. Stacked(cache, c, W, n, low)
  <2>1. low <= n
    BY <1>4, <1>5
  <2> QED
    BY <1>1, <1>3, <1>6, <2>1, AllInMemory
<1>8. n \in Int /\ n + takes = Height(cache) + leaves /\ low + takes >= Height(cache)
  BY <1>2, <1>4, <1>5
<1>9. Kept(vm', W) /\ vm'.ip = q /\ cache' = c
  <2>1. vm.top \in Nat /\ \A i \in DOMAIN vm.locals : vm.locals[i] \in W
    BY DEF VMInv, MachineOK
  <2> QED
    BY <1>1, <1>6, <2>1 DEF Kept
<1>10. Quickened(L)' /\ q \in Successors(opt.code, vm.ip, Byte(opt.code, vm.ip))
  BY <1>6, PlainCode
<1> QED
  BY <1>7, <1>8, <1>9, <1>10, Continues

(* The methods of a class may be entered with any number of arguments. *)
LEMMA MethodEnters ==
    ASSUME NEW L, NEW V, VMInv(L, V), NEW obj, NEW name, HasMethod(opt, obj, name),
           NEW n \in Nat
    PROVE  LET method == Method(opt, obj, name) IN
           /\ FrameSize(opt, method, n) \in Nat
           /\ Enterable(L, opt.functions[method], FrameSize(opt, method, n))
<1>1. PICK method : method = Method(opt, obj, name)
  OBVIOUS
<1>2. obj.cls \in DOMAIN opt.vtables /\ name \in DOMAIN opt.vtables[obj.cls]
      /\ method = opt.vtables[obj.cls][name]
  BY <1>1 DEF HasMethod, Method
<1>3. Enterable(L, opt.functions[method], FrameSize(opt, method, 0))
  BY <1>2 DEF VMInv, Verified
<1>4. FrameSize(opt, method, n) \in Nat /\ FrameSize(opt, method, 0) \in Nat
      /\ FrameSize(opt, method, 0) <= FrameSize(opt, method, n)
  BY FrameTable
<1>5. L[opt.functions[method]].room \in Nat
  BY <1>3, VerifiedLabels, LabelTypes DEF VMInv, Enterable
<1>6. Enterable(L, opt.functions[method], FrameSize(opt, method, n))
  <2>1. \A a, b, c \in Nat : a <= b /\ b <= c => a <= c
    OBVIOUS
  <2>2. L[opt.functions[method]].room <= FrameSize(opt, method, n)
    BY <1>3, <1>4, <1>5, <2>1 DEF Enterable
  <2> QED
    BY <1>3, <2>2 DEF Enterable
<1> QED
  BY <1>1, <1>4, <1>6

LEMMA SitesLater ==
    ASSUME NEW L, opt' = opt, vm'.heap = vm.heap,
           \A j \in DOMAIN methodICs' : MethodSiteOK(L, vm.heap, j, methodICs'[j])
    PROVE  \A j \in DOMAIN methodICs' : MethodSiteOK(L, vm.heap, j, methodICs[j])'
BY DEF MethodSiteOK

LEMMA OneArgumentCount ==
    ASSUME NEW L, NEW V, VMInv(L, V), vm.ip \in DOMAIN L,
           Byte(opt.code, vm.ip) = Op.INVOKE_METHOD_IC, NEW r \in DOMAIN L,
           Byte(opt.code, r) = Op.INVOKE_METHOD_IC,
           UInt16(opt.code, r + 1) + 1 = UInt16(opt.code, vm.ip + 1) + 1
    PROVE  Byte(opt.code, r + 3) = Byte(opt.code, vm.ip + 3)
BY DEF VMInv, Verified

LEMMA FillsMethodSite ==
    ASSUME NEW L, NEW V, VMInv(L, V), vm'.heap = vm.heap, opt' = opt, fieldICs' = fieldICs,
           NEW k \in DOMAIN methodICs, NEW site, MethodSiteOK(L, vm.heap, k, site),
           methodICs' = [methodICs EXCEPT ![k] = site]
    PROVE  SitesOK(L, vm.heap)'
<1>1. DOMAIN fieldICs' = DOMAIN opt.fields /\ DOMAIN methodICs' = DOMAIN opt.methods
      /\ DOMAIN methodICs' = DOMAIN methodICs
  BY DEF VMInv, SitesOK
<1>2. ASSUME NEW j \in DOMAIN methodICs PROVE MethodSiteOK(L, vm.heap, j, methodICs'[j])
  <2>1. CASE j # k
    <3>1. methodICs'[j] = methodICs[j]
      BY <2>1
    <3> QED
      BY <3>1 DEF VMInv, SitesOK
  <2>2. CASE j = k
    BY <2>2
  <2> QED
    BY <2>1, <2>2
<1>3. \A j \in DOMAIN fieldICs : FieldSiteOK(vm.heap, j, fieldICs[j])
  BY DEF VMInv, SitesOK
<1>4. \A j \in DOMAIN fieldICs' : FieldSiteOK(vm.heap, j, fieldICs[j])'
  BY <1>3 DEF FieldSiteOK
<1>5. \A j \in DOMAIN methodICs' : MethodSiteOK(L, vm.heap, j, methodICs'[j])
  BY <1>1, <1>2
<1>6. \A j \in DOMAIN methodICs' : MethodSiteOK(L, vm.heap, j, methodICs[j])'
  BY <1>5, SitesLater
<1> QED
  BY <1>1, <1>4, <1>6 DEF SitesOK

(* The handler of a call: it finds the method or leaves nil. *)
LEMMA InvokesAnyway ==
    ASSUME NEW L, NEW V, VMInv(L, V), vm.outcome = "running",
           Byte(opt.code, vm.ip) = Op.INVOKE_METHOD_IC, NEW argc \in Nat,
           argc = Byte(opt.code, vm.ip + 3), NEW name,
           Resume(ExecInvoke(opt, Synced, name, argc)),
           opt' = opt, code' = code, fieldICs' = fieldICs, methodICs' = methodICs
    PROVE  VMInv(L, V)'
<1>1. PICK n \in Nat : n = argc + 1
  OBVIOUS
<1>2. /\ Byte(opt.code, vm.ip) \in Calls
      /\ n = Takes(Byte(opt.code, vm.ip), Byte(opt.code, vm.ip + 3))
      /\ 1 = Leaves(Byte(opt.code, vm.ip)) /\ 1 \in Nat
      /\ vm.ip + 4 \in Successors(opt.code, vm.ip, Byte(opt.code, vm.ip))
  <2>1. Byte(opt.code, vm.ip) \in Calls
    BY DEF Calls
  <2> QED
    BY <1>1, <2>1, CallTable
<1>3. PICK h \in Nat : Height(cache) = h
  BY Untouched
<1>4. h >= n
  BY <1>2, <1>3, EnoughOnStack
<1>5. PICK ops : ops = Synced.ops
  OBVIOUS
<1>6. ops \in Seq(V) /\ Len(ops) = h
  BY <1>3, <1>5, SyncedIs
<1>7. PICK left \in Nat : left = h - n
  BY <1>3, <1>4
<1>8. left + n = Height(cache)
  BY <1>3, <1>7
<1>9. PICK rest, args : rest = Drop(ops, n) /\ args = Args(ops, n)
  OBVIOUS
<1>10. rest \in Seq(V) /\ Len(rest) = left /\ args \in Seq(V) /\ Len(args) = n
       /\ args[1] \in V
  <2>1. n \in 0 .. h /\ n # 0
    BY <1>1, <1>4
  <2>2. /\ Drop(ops, n) \in Seq(V) /\ Len(Drop(ops, n)) = h - n
        /\ Args(ops, n) \in Seq(V) /\ Len(Args(ops, n)) = n
        /\ n # 0 => Args(ops, n)[1] \in V /\ Peek(ops) \in V
    <3>1. \A s \in Seq(V), k \in Nat : \A i \in 0 .. k : Len(s) = k =>
              /\ Drop(s, i) \in Seq(V) /\ Len(Drop(s, i)) = k - i
              /\ Args(s, i) \in Seq(V) /\ Len(Args(s, i)) = i
              /\ i # 0 => Args(s, i)[1] \in V /\ Peek(s) \in V
      BY OperandsHeld
    <3> QED
      BY <1>6, <2>1, <3>1
  <2> QED
    BY <1>7, <1>9, <2>1, <2>2
<1>11. PICK target : target = args[1]
  OBVIOUS
<1>12. PICK obj : obj = Synced.heap[target[2]]
  OBVIOUS
<1>13. PICK m : m = ExecInvoke(opt, Synced, name, argc)
  OBVIOUS
<1>14. /\ DOMAIN Synced = SyncedFields
       /\ Synced.ip = vm.ip /\ Synced.locals = vm.locals /\ Synced.top = vm.top
       /\ Synced.calls = vm.calls /\ Synced.tries = vm.tries /\ Synced.heap = vm.heap
  BY SyncedIs
<1>15. CASE IsObj(target) /\ HasMethod(opt, obj, name)
  <2>1. PICK method, size, q : /\ method = Method(opt, obj, name)
                           /\ size = FrameSize(opt, method, n) /\ q = opt.functions[method]
    OBVIOUS
  <2>2. size \in Nat /\ Enterable(L, q, size)
    BY <1>15, <2>1, MethodEnters
  <2>3. m = Enter(Synced, 4, q, size, rest, args)
    BY <1>1, <1>5, <1>9, <1>11, <1>12, <1>13, <1>15, <2>1 DEF ExecInvoke
  <2>4. /\ DOMAIN m = SyncedFields /\ m.ops = rest /\ m.ip = q
        /\ m.calls = Append(vm.calls, [ret |-> vm.ip + 4, base |-> vm.top,
                                       depth |-> left, size |-> size])
        /\ m.locals = WriteCells(vm.locals, vm.top, args)
        /\ m.top = vm.top + size /\ m.tries = vm.tries /\ m.heap = vm.heap
    BY <1>10, <1>14, <2>3 DEF Enter, SyncedFields, VMFields
  <2>5. /\ DOMAIN vm' = VMFields /\ cache' = <<rest, <<>>>>
        /\ vm'.calls = Append(vm.calls, [ret |-> vm.ip + 4, base |-> vm.top,
                                         depth |-> left, size |-> size])
        /\ vm'.locals = WriteCells(vm.locals, vm.top, args)
        /\ vm'.top = vm.top + size
        /\ vm'.ip = q /\ vm'.tries = vm.tries /\ vm'.heap = vm.heap
    BY <1>13, <2>4, Resumed
  <2>6. IsCache(cache', V) /\ Len(cache'[1]) = left /\ Height(cache') = left
    BY <1>10, <2>5, AllInMemory
  <2>7. SitesOK(L, vm.heap)'
    BY <2>5, SitesKept
  <2>8. left \in Int
    OBVIOUS
  <2> QED
    BY <1>2, <1>8, <1>10, <2>2, <2>5, <2>6, <2>7, <2>8, CallsFunction
<1>16. CASE ~(IsObj(target) /\ HasMethod(opt, obj, name))
  <2>1. PICK ops1 : ops1 = Append(rest, Nil)
    OBVIOUS
  <2>2. ops1 \in Seq(V) /\ Len(ops1) = left + 1
    BY <1>10, <2>1, AppendProperties, Untouched
  <2>3. m = Advance(Synced, 4, ops1)
    BY <1>1, <1>5, <1>9, <1>11, <1>12, <1>13, <1>16, <2>1 DEF ExecInvoke
  <2>4. /\ DOMAIN m = SyncedFields /\ m.ops = ops1 /\ m.ip = vm.ip + 4
        /\ m.calls = vm.calls /\ m.locals = vm.locals
        /\ m.top = vm.top /\ m.tries = vm.tries /\ m.heap = vm.heap
    BY <1>14, <2>3 DEF Advance, SyncedFields, VMFields
  <2>5. vm'.heap = vm.heap /\ Resume(m)
    BY <1>13, <2>4, Resumed
  <2>6. SitesOK(L, vm.heap)'
    BY <2>5, SitesKept
  <2>7. ValuesOK(V, vm.heap)' /\ HeapOK(V, vm.heap)'
    BY <2>5 DEF VMInv, ValuesOK, HeapOK, Records, Strings
  <2>8. Len(m.ops) + n = Height(cache) + 1 /\ m.ops \in Seq(V)
    BY <1>8, <2>2, <2>4
  <2>9. m.ip \in Successors(opt.code, vm.ip, Byte(opt.code, vm.ip))
    BY <1>2, <2>4
  <2> QED
    BY <1>2, <2>4, <2>5, <2>6, <2>7, <2>8, <2>9, HandlerGoesOn
<1> QED
  BY <1>15, <1>16

LEMMA InvokeMethodICInv ==
    ASSUME NEW L, NEW V, VMInv(L, V), InvokeMethodIC
    PROVE  VMInv(L, V)'
<1>1. PICK k, argc : k = U(1) + 1 /\ argc = Byte(code, vm.ip + 3)
  OBVIOUS
<1>2. At(Op.INVOKE_METHOD_IC) /\ Op.INVOKE_METHOD_IC \in Calls
  BY DEF InvokeMethodIC, Calls
<1>3. /\ vm.outcome = "running" /\ Byte(opt.code, vm.ip) = Op.INVOKE_METHOD_IC
      /\ argc = Byte(opt.code, vm.ip + 3) /\ argc \in Nat
      /\ U(1) = UInt16(opt.code, vm.ip + 1)
      /\ Resolved(opt, L, vm.ip, Op.INVOKE_METHOD_IC)
  BY <1>1, <1>2, ArgumentCount
<1>4. k \in DOMAIN methodICs
  <2>1. k \in DOMAIN opt.methods
    BY <1>1, <1>3, OpNumbers DEF Resolved
  <2> QED
    BY <2>1 DEF VMInv, SitesOK
<1>5. PICK n \in Nat : n = argc + 1
  BY <1>3
<1>6. PICK v, name : v = Arguments(cache, n)[1] /\ name = opt.strings[opt.methods[k]]
  OBVIOUS
<1>7. /\ Byte(opt.code, vm.ip) \in Calls
      /\ n = Takes(Byte(opt.code, vm.ip), Byte(opt.code, vm.ip + 3))
  BY <1>2, <1>3, <1>5, CallTable
<1>8. v \in V
  <2>1. PICK h \in Nat : Height(cache) = h
    BY Untouched
  <2>2. h >= n
    BY <1>3, <1>7, <2>1, EnoughOnStack
  <2>3. n \in 0 .. Height(cache) /\ 1 \in 1 .. n
    BY <1>3, <1>5, <2>1, <2>2
  <2>4. Arguments(cache, n) \in Seq(V) /\ Len(Arguments(cache, n)) = n
    BY <2>3, Untouched, TakeArgsStacks
  <2> QED
    BY <1>6, <2>3, <2>4, ElementOfSeq
<1>9. opt' = opt /\ code' = code /\ fieldICs' = fieldICs
  BY DEF InvokeMethodIC
<1> DEFINE obj == vm.heap[v[2]]
<1>10. CASE Hit(methodICs[k], v)
  <2>1. PICK q, size : q = methodICs[k].entry /\ size = methodICs[k].size
    OBVIOUS
  <2>2. EnterFast(4, q, size, n) /\ methodICs' = methodICs
    BY <1>1, <1>5, <1>6, <1>10, <2>1 DEF InvokeMethodIC
  <2>3. MethodSiteOK(L, vm.heap, k, methodICs[k]) /\ methodICs[k].shape # 0
    BY <1>4, <1>10 DEF VMInv, SitesOK, Hit
  <2>4. size \in Nat /\ Enterable(L, q, size)
    BY <2>1, <2>3 DEF MethodSiteOK
  <2>5. SitesOK(L, vm.heap)'
    BY <1>9, <2>2, HeapOfCall, SitesKept
  <2> QED
    BY <1>3, <1>7, <1>9, <2>2, <2>4, <2>5, EntersFast
<1>11. CASE ~Hit(methodICs[k], v) /\ IsObj(v) /\ Shape(v[2]) # 0 /\ HasMethod(opt, obj, name)
  <2>1. PICK method, size, q : /\ method = Method(opt, obj, name)
                           /\ size = FrameSize(opt, method, n) /\ q = opt.functions[method]
    OBVIOUS
  <2>2. size \in Nat /\ Enterable(L, q, size)
    BY <1>11, <2>1, MethodEnters
  <2>3. /\ EnterFast(4, q, size, n)
        /\ methodICs' = [methodICs EXCEPT ![k] =
               [shape |-> v[2], entry |-> q, size |-> size]]
    BY <1>1, <1>5, <1>6, <1>11, <2>1 DEF InvokeMethodIC
  <2>4. v[2] \in 1 .. Len(vm.heap) /\ vm'.heap = vm.heap
    BY <1>8, <1>11, <2>3, ObjectThere, HeapOfCall
  <2>5. SitesOK(L, vm.heap)'
    <3>1. PICK id, site : id = v[2] /\ site = [shape |-> id, entry |-> q, size |-> size]
      OBVIOUS
    <3>2. /\ id \in 1 .. Len(vm.heap) /\ vm.ip \in DOMAIN L
          /\ k = UInt16(opt.code, vm.ip + 1) + 1 /\ HasMethod(opt, vm.heap[id], name)
          /\ method = Method(opt, vm.heap[id], name)
          /\ size = FrameSize(opt, method, Byte(opt.code, vm.ip + 3) + 1)
      BY <1>1, <1>3, <1>5, <1>11, <2>1, <2>4, <3>1, Decoded
    <3>3. MethodSiteOK(L, vm.heap, k, site)
      <4>1. site.shape = id /\ site.entry = q /\ site.size = size
        BY <3>1
      <4>2. ASSUME NEW r \in DOMAIN L, Byte(opt.code, r) = Op.INVOKE_METHOD_IC,
                   UInt16(opt.code, r + 1) + 1 = k
            PROVE  size = FrameSize(opt, method, Byte(opt.code, r + 3) + 1)
        <5>1. Byte(opt.code, r + 3) = Byte(opt.code, vm.ip + 3)
          BY <1>3, <3>2, <4>2, OneArgumentCount
        <5> QED
          BY <3>2, <5>1
      <4>3. PICK heap : heap = vm.heap
        OBVIOUS
      <4>4. /\ id \in 1 .. Len(heap) /\ HasMethod(opt, heap[id], name)
            /\ method = Method(opt, heap[id], name)
        BY <3>2, <4>3
      <4>5. \A r \in DOMAIN L :
               Byte(opt.code, r) = Op.INVOKE_METHOD_IC /\ UInt16(opt.code, r + 1) + 1 = k
               => size = FrameSize(opt, method, Byte(opt.code, r + 3) + 1)
        BY <4>2
      <4>6. name = opt.strings[opt.methods[k]] /\ q = opt.functions[method]
            /\ size \in Nat /\ Enterable(L, q, size)
        BY <1>6, <2>1, <2>2
      <4>7. MethodSiteOK(L, heap, k, site)
        BY ONLY <4>1, <4>4, <4>5, <4>6 DEF MethodSiteOK
      <4> QED
        BY <4>3, <4>7
    <3>4. methodICs' = [methodICs EXCEPT ![k] = site]
      BY <2>3, <3>1
    <3> QED
      BY <1>4, <1>9, <2>4, <3>3, <3>4, FillsMethodSite
  <2> QED
    BY <1>3, <1>7, <1>9, <2>2, <2>3, <2>5, EntersFast
<1>12. CASE /\ ~Hit(methodICs[k], v)
            /\ ~(IsObj(v) /\ Shape(v[2]) # 0 /\ HasMethod(opt, obj, name))
  <2>1. Resume(ExecInvoke(opt, Synced, name, argc)) /\ methodICs' = methodICs
    BY <1>1, <1>5, <1>6, <1>12 DEF InvokeMethodIC
  <2> QED
    BY <1>3, <1>9, <2>1, InvokesAnyway
<1> QED
  BY <1>10, <1>11, <1>12

(* A frame that is left in good order has its operands above its bottom. *)
LEMMA BottomBelow ==
    ASSUME NEW L, Labelled(L), NEW top, NEW ip, NEW calls \in FrameRecords, NEW tries,
           NEW height \in Nat, Control(L, top, ip, calls, tries, height)
    PROVE  Bottom(calls, Len(calls)) <= height
<1> DEFINE n == Len(calls)
<1>1. n \in Nat /\ n \in 0 .. n /\ Place(ip, calls, n) = ip /\ HeightOf(calls, height, n) = height
  BY FrameTypes DEF Place, HeightOf
<1>2. FrameOK(L, top, ip, calls, height, n)
  BY <1>1 DEF Control, FramesOK
<1>3. ip \in DOMAIN L /\ Bottom(calls, n) + L[ip].depth <= height
  BY <1>1, <1>2 DEF FrameOK
<1>4. L[ip].depth \in Nat /\ Bottom(calls, n) \in Nat
  BY <1>1, <1>3, LabelTypes, FrameTypes
<1>5. \A a, b, c \in Nat : a + b <= c => a <= c
  OBVIOUS
<1> QED
  BY <1>3, <1>4, <1>5

LEMMA RetTable ==
    \A o \in {Op.RET, Op.RET_FAST} : o \in Translated /\ \A n : Takes(o, n) = 1
BY OpNumbers DEF Translated, Takes, Binaries

LEMMA RetInv ==
    ASSUME NEW L, NEW V, VMInv(L, V), Ret
    PROVE  VMInv(L, V)'
<1>1. PICK o \in {Op.RET, Op.RET_FAST} : At(o)
  BY DEF Ret
<1>2. vm.outcome = "running" /\ Byte(opt.code, vm.ip) = o
  BY <1>1, RetTable, Recognised
<1>3. PICK h \in Nat : Height(cache) = h
  BY Untouched
<1>4. h >= 1
  <2>1. 1 = Takes(Byte(opt.code, vm.ip), Byte(opt.code, vm.ip + 3)) /\ 1 \in Nat
    BY <1>2, RetTable
  <2> QED
    BY <1>2, <1>3, <2>1, EnoughOnStack
<1>5. opt' = opt /\ Quickened(L)' /\ fieldICs' = fieldICs /\ methodICs' = methodICs
  BY PlainCode DEF Ret, Plain, sites
<1>6. CASE vm.calls = <<>>
  <2>1. vm' = [vm EXCEPT !.outcome = "halted"] /\ cache' = FLUSH_TOS(cache)
    BY <1>6 DEF Ret
  <2>2. IsCache(cache', V)
    BY <2>1, Untouched, FlushStacks DEF Stacked
  <2> QED
    BY <1>5, <2>1, <2>2, Stops
<1>7. CASE vm.calls # <<>>
  <2>1. PICK n, f, c : /\ n = Len(vm.calls) /\ f = vm.calls[n]
                       /\ c = SubSeq(vm.calls, 1, n - 1)
    OBVIOUS
  <2>2. /\ DOMAIN vm' = VMFields /\ vm'.calls = c /\ vm'.top = f.base /\ vm'.ip = f.ret
        /\ vm'.tries = vm.tries /\ vm'.heap = vm.heap /\ vm'.locals = vm.locals
        /\ vm'.outcome = "running" /\ cache' = RETURN_TOS(cache, f.depth)
    <3>1. DOMAIN vm = VMFields
      BY DEF VMInv, MachineOK
    <3> QED
      BY <1>2, <1>7, <2>1, <3>1 DEF Ret, VMFields
  <2>3. /\ vm.ip \in DOMAIN L /\ Labelled(L) /\ L[vm.ip].tries = <<>>
        /\ opt.topSize \in Nat
    <3>1. vm.ip \in DOMAIN L /\ Labelled(L) /\ Checked(opt, L, vm.ip) /\ opt.topSize \in Nat
      BY <1>2, Decoded, VerifiedLabels DEF VMInv
    <3>2. TryBlocks(opt, L, vm.ip, o)
      BY <1>2, <3>1 DEF Checked
    <3> QED
      BY <3>1, <3>2 DEF TryBlocks
  <2>4. vm.calls \in FrameRecords /\ vm.tries \in TryRecords
        /\ \A i \in DOMAIN vm.locals : vm.locals[i] \in V
    BY DEF VMInv, MachineOK
  <2>5. Control(L, opt.topSize, vm.ip, vm.calls, vm.tries, h)
        /\ Bottom(vm.calls, n) <= Len(cache[1])
    BY <1>2, <1>3, <2>1 DEF VMInv, Running
  <2>6. /\ n \in Nat \ {0} /\ c \in FrameRecords /\ Len(c) = n - 1
        /\ f.base \in Nat /\ f.depth \in Nat
        /\ Bottom(vm.calls, n) = f.depth
        /\ Bottom(c, Len(c)) <= f.depth
        /\ Control(L, opt.topSize, f.ret, c, vm.tries, f.depth + 1)
    BY <1>7, <2>1, <2>3, <2>4, <2>5, ReturnsFromFrame
  <2>7. PICK d \in Nat : d = f.depth
    BY <2>6
  <2>8. IsCache(cache', V) /\ Len(cache'[1]) = d /\ Height(cache') = d + 1
    <3>1. d \in 0 .. Len(cache[1])
      <4>1. PICK a \in Nat : Len(cache[1]) = a
        BY Untouched, CacheTypes
      <4> QED
        BY <2>5, <2>6, <2>7, <4>1
    <3> QED
      BY <1>3, <1>4, <2>2, <2>7, <3>1, Untouched, ReturnStacks
  <2>9. Running(L)'
    <3>1. Control(L, opt'.topSize, vm'.ip, vm'.calls, vm'.tries, Height(cache'))
      BY <1>5, <2>2, <2>6, <2>7, <2>8
    <3>2. Bottom(vm'.calls, Len(vm'.calls)) <= Len(cache'[1])
      BY <2>2, <2>6, <2>7, <2>8
    <3> QED
      BY <3>1, <3>2 DEF Running
  <2>10. MachineOK(V)'
    BY <2>2, <2>4, <2>6, <2>8 DEF MachineOK
  <2>11. ValuesOK(V, vm.heap)' /\ HeapOK(V, vm.heap)'
    BY <1>5, <2>2 DEF VMInv, ValuesOK, HeapOK, Records, Strings
  <2>12. SitesOK(L, vm.heap)' /\ Verified(opt, L)'
    BY <1>5, <2>2, SitesKept DEF VMInv
  <2> QED
    BY <1>5, <2>9, <2>10, <2>11, <2>12 DEF VMInv
<1> QED
  BY <1>6, <1>7

-----------------------------------------------------------------------------
(* The handlers of the portable loops. *)

(* A handler moves the machine somewhere else, or ends it. *)
LEMMA HandlerMoves ==
    ASSUME NEW L, NEW V, VMInv(L, V), NEW m, DOMAIN m = SyncedFields, Resume(m),
           m.calls \in FrameRecords, m.tries \in TryRecords, m.top \in Nat,
           m.locals = vm.locals, m.heap = vm.heap,
           m.ops \in Seq(V), NEW n \in Nat, Len(m.ops) = n,
           m.outcome = "running" => Control(L, opt.topSize, m.ip, m.calls, m.tries, n),
           Plain
    PROVE  VMInv(L, V)'
<1>1. /\ DOMAIN vm' = VMFields /\ cache' = <<m.ops, <<>>>>
      /\ vm'.ip = m.ip /\ vm'.locals = vm.locals /\ vm'.top = m.top
      /\ vm'.calls = m.calls /\ vm'.tries = m.tries /\ vm'.heap = vm.heap
      /\ vm'.outcome = m.outcome
  BY Resumed
<1>2. opt' = opt /\ Quickened(L)' /\ fieldICs' = fieldICs /\ methodICs' = methodICs
  BY PlainCode DEF Plain, sites
<1>3. IsCache(cache', V) /\ Height(cache') = n /\ Len(cache'[1]) = n
  BY <1>1, AllInMemory
<1>4. Running(L)'
  <2> SUFFICES ASSUME vm'.outcome = "running"
               PROVE  /\ Control(L, opt'.topSize, vm'.ip, vm'.calls, vm'.tries, Height(cache'))
                      /\ Bottom(vm'.calls, Len(vm'.calls)) <= Len(cache'[1])
    BY DEF Running
  <2>1. Control(L, opt.topSize, m.ip, m.calls, m.tries, n)
    BY <1>1
  <2>2. Labelled(L)
    BY VerifiedLabels DEF VMInv
  <2>3. Bottom(m.calls, Len(m.calls)) <= n
    BY <2>1, <2>2, BottomBelow
  <2> QED
    BY <1>1, <1>2, <1>3, <2>1, <2>3
<1>5. MachineOK(V)'
  <2>1. \A i \in DOMAIN vm.locals : vm.locals[i] \in V
    BY DEF VMInv, MachineOK
  <2> QED
    BY <1>1, <1>3, <2>1 DEF MachineOK
<1>6. ValuesOK(V, vm.heap)' /\ HeapOK(V, vm.heap)'
  BY <1>1, <1>2 DEF VMInv, ValuesOK, HeapOK, Records, Strings
<1>7. SitesOK(L, vm.heap)' /\ Verified(opt, L)'
  BY <1>1, <1>2, SitesKept DEF VMInv
<1> QED
  BY <1>2, <1>4, <1>5, <1>6, <1>7 DEF VMInv

Delegated == {Op.PUSH_STRING, Op.PRINTLN, Op.NEW_INSTANCE, Op.TRY, Op.POP_TRY, Op.THROW,
              Op.HALT}

LEMMA HandlerTable ==
    /\ Delegated \subseteq Translated
    /\ \A ch, m, p :
          /\ ExecAt(ch, m, p, Op.PUSH_STRING) =
                Advance(m, 3, Append(m.ops, Literal(ch.strings[UInt16(ch.code, p + 1)])))
          /\ ExecAt(ch, m, p, Op.PRINTLN) =
                [Advance(m, 1, Append(Drop(m.ops, 1), Nil))
                    EXCEPT !.out = Append(@, Peek(m.ops))]
          /\ ExecAt(ch, m, p, Op.TRY) = EnterTry(m, 3, p + 3 + Int16(ch.code, p + 1))
          /\ ExecAt(ch, m, p, Op.POP_TRY) = PopTry(m, 1)
          /\ ExecAt(ch, m, p, Op.THROW) = Raise(m, Drop(m.ops, 1))
          /\ ExecAt(ch, m, p, Op.HALT) = [m EXCEPT !.outcome = "halted"]
    /\ \A n : Takes(Op.THROW, n) = 1
<1>1. Delegated \subseteq Translated
  BY DEF Delegated, Translated, Jumps
<1>2. \A n : Takes(Op.THROW, n) = 1
  BY OpNumbers DEF Takes, Binaries
<1> SUFFICES ASSUME NEW ch, NEW m, NEW p
             PROVE
          /\ ExecAt(ch, m, p, Op.PUSH_STRING) =
                Advance(m, 3, Append(m.ops, Literal(ch.strings[UInt16(ch.code, p + 1)])))
          /\ ExecAt(ch, m, p, Op.PRINTLN) =
                [Advance(m, 1, Append(Drop(m.ops, 1), Nil))
                    EXCEPT !.out = Append(@, Peek(m.ops))]
          /\ ExecAt(ch, m, p, Op.TRY) = EnterTry(m, 3, p + 3 + Int16(ch.code, p + 1))
          /\ ExecAt(ch, m, p, Op.POP_TRY) = PopTry(m, 1)
          /\ ExecAt(ch, m, p, Op.THROW) = Raise(m, Drop(m.ops, 1))
          /\ ExecAt(ch, m, p, Op.HALT) = [m EXCEPT !.outcome = "halted"]
  BY <1>1, <1>2
<1>3. ExecAt(ch, m, p, Op.PUSH_STRING) =
          Advance(m, 3, Append(m.ops, Literal(ch.strings[UInt16(ch.code, p + 1)])))
  BY OpNumbers DEF ExecAt, Binaries
<1>4. ExecAt(ch, m, p, Op.PRINTLN) =
          [Advance(m, 1, Append(Drop(m.ops, 1), Nil)) EXCEPT !.out = Append(@, Peek(m.ops))]
  BY OpNumbers DEF ExecAt, Binaries
<1>6. ExecAt(ch, m, p, Op.TRY) = EnterTry(m, 3, p + 3 + Int16(ch.code, p + 1))
  BY OpNumbers DEF ExecAt, Binaries
<1>7. ExecAt(ch, m, p, Op.POP_TRY) = PopTry(m, 1)
  BY OpNumbers DEF ExecAt, Binaries
<1>8. ExecAt(ch, m, p, Op.THROW) = Raise(m, Drop(m.ops, 1))
  BY OpNumbers DEF ExecAt, Binaries
<1>9. ExecAt(ch, m, p, Op.HALT) = [m EXCEPT !.outcome = "halted"]
  BY OpNumbers DEF ExecAt, Binaries
<1> QED
  BY <1>3, <1>4, <1>6, <1>7, <1>8, <1>9

(* What a handler is given, with the code as it stands. *)
LEMMA HandlerGiven ==
    ASSUME NEW L, NEW V, VMInv(L, V), NEW o \in Delegated, At(o), Plain,
           Resume(ExecAt([opt EXCEPT !.code = code], Synced, vm.ip, o))
    PROVE  /\ vm.outcome = "running" /\ Byte(opt.code, vm.ip) = o
           /\ vm.ip \in DOMAIN L /\ vm.ip \in Nat /\ Labelled(L) /\ Handled(L)
           /\ opt.topSize \in Nat /\ Checked(opt, L, vm.ip)
           /\ [opt EXCEPT !.code = code].strings = opt.strings
           /\ opt' = opt /\ code' = code /\ fieldICs' = fieldICs /\ methodICs' = methodICs
           /\ Width(o) = 3 \/ Width(o) = 4 =>
                 /\ UInt16([opt EXCEPT !.code = code].code, vm.ip + 1) =
                        UInt16(opt.code, vm.ip + 1)
                 /\ Int16([opt EXCEPT !.code = code].code, vm.ip + 1) =
                        Int16(opt.code, vm.ip + 1)
                 /\ Int16(opt.code, vm.ip + 1) \in Int
<1>1. vm.outcome = "running" /\ Byte(opt.code, vm.ip) = o
  BY HandlerTable, Recognised
<1>2. /\ vm.ip \in DOMAIN L /\ vm.ip \in Nat /\ Labelled(L) /\ Handled(L)
      /\ opt.topSize \in Nat /\ Checked(opt, L, vm.ip)
  BY <1>1, Decoded, VerifiedLabels DEF VMInv
<1>3. opt' = opt /\ code' = code /\ fieldICs' = fieldICs /\ methodICs' = methodICs
  BY DEF Plain, sites
<1>4. [opt EXCEPT !.code = code].strings = opt.strings
  OBVIOUS
<1>5. ASSUME Width(o) = 3 \/ Width(o) = 4
      PROVE  /\ UInt16([opt EXCEPT !.code = code].code, vm.ip + 1) = UInt16(opt.code, vm.ip + 1)
             /\ Int16([opt EXCEPT !.code = code].code, vm.ip + 1) = Int16(opt.code, vm.ip + 1)
             /\ Int16(opt.code, vm.ip + 1) \in Int
  <2>1. PICK len \in Nat : len = Width(o) /\ 1 \in 1 .. len - 2
    BY <1>5
  <2>2. U(1) = UInt16(opt.code, vm.ip + 1) /\ S(1) = Int16(opt.code, vm.ip + 1) /\ S(1) \in Int
    BY <1>1, <2>1, Operands
  <2>3. [opt EXCEPT !.code = code].code = code
    <3>1. "code" \in DOMAIN opt
      BY DEF VMInv, Quickened
    <3> QED
      BY <3>1
  <2> QED
    BY <2>2, <2>3 DEF U, S
<1> QED
  BY <1>1, <1>2, <1>3, <1>4, <1>5

HandledAt(o) == /\ At(o) /\ Plain
                /\ Resume(ExecAt([opt EXCEPT !.code = code], Synced, vm.ip, o))

LEMMA PushStringInv ==
    ASSUME NEW L, NEW V, VMInv(L, V), HandledAt(Op.PUSH_STRING)
    PROVE  \E W : VMInv(L, W)'
<1> DEFINE o == Op.PUSH_STRING
<1>1. Straight(o, 0, 1, 3) /\ o \in Delegated
  BY StraightTable DEF Delegated
<1>2. /\ vm.outcome = "running" /\ Byte(opt.code, vm.ip) = o /\ opt' = opt /\ code' = code
      /\ fieldICs' = fieldICs /\ methodICs' = methodICs
  BY <1>1, HandlerGiven DEF HandledAt
<1> DEFINE ch == [opt EXCEPT !.code = code]
<1>3. PICK v : v = Literal(ch.strings[UInt16(ch.code, vm.ip + 1)])
  OBVIOUS
<1>4. PICK W : VMInv(L, W) /\ v \in W
  BY <1>3, SimpleValues, Computes
<1>5. PICK m : m = ExecAt([opt EXCEPT !.code = code], Synced, vm.ip, o)
  OBVIOUS
<1>6. m = Advance(Synced, 3, Append(Synced.ops, v))
  <2>1. PICK c, s, p : c = ch /\ s = Synced /\ p = vm.ip
    OBVIOUS
  <2>2. ExecAt(c, s, p, o) = Advance(s, 3, Append(s.ops, Literal(c.strings[UInt16(c.code, p + 1)])))
    BY HandlerTable
  <2> QED
    BY <1>3, <1>5, <2>1, <2>2
<1>7. PICK h \in Nat : Height(cache) = h
  BY Untouched
<1>8. PICK ops : ops = Append(Synced.ops, v)
  OBVIOUS
<1>9. ops \in Seq(W) /\ Len(ops) = h + 1
  <2>1. Synced.ops \in Seq(W) /\ Len(Synced.ops) = h
    BY <1>4, <1>7, SyncedIs
  <2> QED
    BY <1>4, <1>8, <2>1, AppendProperties
<1>10. /\ DOMAIN m = SyncedFields /\ m.ops = ops /\ m.ip = vm.ip + 3
       /\ m.calls = vm.calls /\ m.tries = vm.tries /\ m.top = vm.top
       /\ m.locals = vm.locals /\ m.heap = vm.heap
  <2>1. /\ DOMAIN Synced = SyncedFields /\ Synced.ip = vm.ip /\ Synced.locals = vm.locals
        /\ Synced.top = vm.top /\ Synced.calls = vm.calls /\ Synced.tries = vm.tries
        /\ Synced.heap = vm.heap
    BY SyncedIs
  <2> QED
    BY <1>6, <1>8, <2>1 DEF Advance, SyncedFields, VMFields
<1>11. Resume(m) /\ vm'.heap = vm.heap
  BY <1>5, <1>10, Resumed DEF HandledAt
<1>12. ValuesOK(W, vm.heap)' /\ HeapOK(W, vm.heap)' /\ SitesOK(L, vm.heap)'
  <2>1. SitesOK(L, vm.heap)'
    BY <1>2, <1>11, SitesKept
  <2> QED
    BY <1>2, <1>4, <1>11, <2>1 DEF VMInv, ValuesOK, HeapOK, Records, Strings
<1>13. /\ m.ip \in Successors(opt.code, vm.ip, Byte(opt.code, vm.ip))
       /\ 0 = Takes(Byte(opt.code, vm.ip), Byte(opt.code, vm.ip + 3))
       /\ 1 = Leaves(Byte(opt.code, vm.ip)) /\ 0 \in Nat /\ 1 \in Nat
  BY <1>1, <1>2, <1>10 DEF Straight
<1>14. m.ops \in Seq(W) /\ Len(m.ops) + 0 = Height(cache) + 1
  BY <1>7, <1>9, <1>10
<1>15. VMInv(L, W)'
  BY <1>2, <1>4, <1>10, <1>11, <1>12, <1>13, <1>14, HandlerGoesOn
<1> QED
  BY <1>15

LEMMA OneDropped ==
    ASSUME NEW V, NEW ops \in Seq(V), NEW h \in Nat, Len(ops) = h, 1 \in 0 .. h
    PROVE  Drop(ops, 1) \in Seq(V) /\ Len(Drop(ops, 1)) = h - 1
BY OperandsHeld

LEMMA PrintlnInv ==
    ASSUME NEW L, NEW V, VMInv(L, V), HandledAt(Op.PRINTLN)
    PROVE  VMInv(L, V)'
<1> DEFINE o == Op.PRINTLN
<1>1. Straight(o, 1, 1, 1) /\ o \in Delegated
  BY StraightTable DEF Delegated
<1>2. /\ vm.outcome = "running" /\ Byte(opt.code, vm.ip) = o /\ opt' = opt /\ code' = code
      /\ fieldICs' = fieldICs /\ methodICs' = methodICs
  BY <1>1, HandlerGiven DEF HandledAt
<1>3. PICK m : m = ExecAt([opt EXCEPT !.code = code], Synced, vm.ip, o)
  OBVIOUS
<1>4. PICK ops : ops = Append(Drop(Synced.ops, 1), Nil)
  OBVIOUS
<1>5. m = [Advance(Synced, 1, ops) EXCEPT !.out = Append(@, Peek(Synced.ops))]
  <2>1. PICK c, s, p : c = [opt EXCEPT !.code = code] /\ s = Synced /\ p = vm.ip
    OBVIOUS
  <2>2. ExecAt(c, s, p, o) = [Advance(s, 1, Append(Drop(s.ops, 1), Nil))
                                 EXCEPT !.out = Append(@, Peek(s.ops))]
    BY HandlerTable
  <2> QED
    BY <1>3, <1>4, <2>1, <2>2
<1>6. PICK h \in Nat : Height(cache) = h
  BY Untouched
<1>7. h >= 1 /\ 1 = Takes(Byte(opt.code, vm.ip), Byte(opt.code, vm.ip + 3))
  BY <1>1, <1>2, <1>6, EnoughOnStack DEF Straight
<1>8. ops \in Seq(V) /\ Len(ops) = h
  <2>1. PICK s : s = Synced.ops
    OBVIOUS
  <2>2. s \in Seq(V) /\ Len(s) = h
    BY <1>6, <2>1, SyncedIs
  <2>3. 1 \in 0 .. h
    BY <1>7
  <2>4. Drop(s, 1) \in Seq(V) /\ Len(Drop(s, 1)) = h - 1
    BY <2>2, <2>3, OneDropped
  <2> QED
    BY <1>4, <1>7, <2>1, <2>4, AppendProperties, Untouched
<1>9. /\ DOMAIN m = SyncedFields /\ m.ops = ops /\ m.ip = vm.ip + 1
      /\ m.calls = vm.calls /\ m.tries = vm.tries /\ m.top = vm.top
      /\ m.locals = vm.locals /\ m.heap = vm.heap
  <2>1. /\ DOMAIN Synced = SyncedFields /\ Synced.ip = vm.ip /\ Synced.locals = vm.locals
        /\ Synced.top = vm.top /\ Synced.calls = vm.calls /\ Synced.tries = vm.tries
        /\ Synced.heap = vm.heap
    BY SyncedIs
  <2> QED
    BY <1>5, <2>1 DEF Advance, SyncedFields, VMFields
<1>10. Resume(m) /\ vm'.heap = vm.heap
  BY <1>3, <1>9, Resumed DEF HandledAt
<1>11. ValuesOK(V, vm.heap)' /\ HeapOK(V, vm.heap)' /\ SitesOK(L, vm.heap)'
  <2>1. SitesOK(L, vm.heap)'
    BY <1>2, <1>10, SitesKept
  <2> QED
    BY <1>2, <1>10, <2>1 DEF VMInv, ValuesOK, HeapOK, Records, Strings
<1>12. /\ m.ip \in Successors(opt.code, vm.ip, Byte(opt.code, vm.ip))
       /\ 1 = Leaves(Byte(opt.code, vm.ip)) /\ 1 \in Nat
  BY <1>1, <1>2, <1>9 DEF Straight
<1>13. m.ops \in Seq(V) /\ Len(m.ops) + 1 = Height(cache) + 1
  BY <1>6, <1>8, <1>9
<1> QED
  BY <1>2, <1>7, <1>9, <1>10, <1>11, <1>12, <1>13, HandlerGoesOn

HandlerWidths == Width(Op.TRY) = 3 /\ Width(Op.NEW_INSTANCE) = 4

LEMMA HandlerWide == HandlerWidths
BY OpNumbers DEF HandlerWidths, Width, OptLen, CanonicalLen, Jumps

(* Where the machine is, for a handler that leaves the instruction. *)
LEMMA HandlerPlace ==
    ASSUME NEW L, NEW V, VMInv(L, V), vm.outcome = "running"
    PROVE  /\ vm.calls \in FrameRecords /\ vm.tries \in TryRecords /\ vm.top \in Nat
           /\ Control(L, opt.topSize, vm.ip, vm.calls, vm.tries, Height(cache))
           /\ TryBlocks(opt, L, vm.ip, Byte(opt.code, vm.ip))
<1>1. Checked(opt, L, vm.ip)
  BY Decoded, VerifiedLabels DEF VMInv
<1> QED
  BY <1>1 DEF VMInv, MachineOK, Running, Checked

LEMMA HaltInv ==
    ASSUME NEW L, NEW V, VMInv(L, V), HandledAt(Op.HALT)
    PROVE  VMInv(L, V)'
<1>1. vm.outcome = "running"
  BY DEF HandledAt, At
<1>2. PICK c, s, p : c = [opt EXCEPT !.code = code] /\ s = Synced /\ p = vm.ip
  OBVIOUS
<1>3. PICK m : m = ExecAt(c, s, p, Op.HALT)
  OBVIOUS
<1>4. m = [s EXCEPT !.outcome = "halted"]
  BY <1>3, HandlerTable
<1>5. PICK h \in Nat : Height(cache) = h
  BY Untouched
<1>6. /\ DOMAIN m = SyncedFields /\ m.outcome = "halted"
      /\ m.calls = vm.calls /\ m.tries = vm.tries /\ m.top = vm.top
      /\ m.locals = vm.locals /\ m.heap = vm.heap
      /\ m.ops \in Seq(V) /\ Len(m.ops) = h
  <2>1. /\ DOMAIN s = SyncedFields /\ s.ops \in Seq(V) /\ Len(s.ops) = h /\ s.locals = vm.locals
        /\ s.top = vm.top /\ s.calls = vm.calls /\ s.tries = vm.tries /\ s.heap = vm.heap
    BY <1>2, <1>5, SyncedIs
  <2> QED
    BY <1>4, <2>1 DEF SyncedFields, VMFields
<1>7. Resume(m) /\ Plain
  BY <1>2, <1>3 DEF HandledAt
<1>8. m.calls \in FrameRecords /\ m.tries \in TryRecords /\ m.top \in Nat
  BY <1>1, <1>6, HandlerPlace
<1>9. m.outcome = "running" => Control(L, opt.topSize, m.ip, m.calls, m.tries, h)
  BY <1>6
<1> QED
  BY <1>6, <1>7, <1>8, <1>9, HandlerMoves

LEMMA TryInv ==
    ASSUME NEW L, NEW V, VMInv(L, V), HandledAt(Op.TRY)
    PROVE  VMInv(L, V)'
<1>1. /\ vm.outcome = "running" /\ Byte(opt.code, vm.ip) = Op.TRY
      /\ vm.ip \in DOMAIN L /\ vm.ip \in Nat /\ Labelled(L) /\ opt.topSize \in Nat
      /\ Int16([opt EXCEPT !.code = code].code, vm.ip + 1) = Int16(opt.code, vm.ip + 1)
      /\ Int16(opt.code, vm.ip + 1) \in Int
  BY HandlerWide, HandlerGiven DEF HandlerWidths, Delegated, HandledAt
<1>2. PICK c, s, p : c = [opt EXCEPT !.code = code] /\ s = Synced /\ p = vm.ip
  OBVIOUS
<1>3. PICK m : m = ExecAt(c, s, p, Op.TRY)
  OBVIOUS
<1>4. PICK catch, q : catch = p + 3 + Int16(opt.code, p + 1) /\ q = p + 3
  OBVIOUS
<1>5. m = EnterTry(s, 3, catch)
  <2>1. m = EnterTry(s, 3, p + 3 + Int16(c.code, p + 1))
    BY <1>3, HandlerTable
  <2>2. Int16(c.code, p + 1) = Int16(opt.code, p + 1)
    BY <1>1, <1>2
  <2> QED
    BY <1>4, <2>1, <2>2
<1>6. PICK h \in Nat : Height(cache) = h
  BY Untouched
<1>7. /\ DOMAIN s = SyncedFields /\ s.ops \in Seq(V) /\ Len(s.ops) = h /\ s.locals = vm.locals
      /\ s.top = vm.top /\ s.calls = vm.calls /\ s.tries = vm.tries /\ s.heap = vm.heap
      /\ s.ip = p
  BY <1>2, <1>6, SyncedIs
<1>8. PICK t : t = [catch |-> catch, depth |-> h, top |-> vm.top, calls |-> Len(vm.calls)]
  OBVIOUS
<1>9. /\ DOMAIN m = SyncedFields /\ m.ip = q
      /\ m.calls = vm.calls /\ m.tries = Append(vm.tries, t) /\ m.top = vm.top
      /\ m.locals = vm.locals /\ m.heap = vm.heap
      /\ m.ops \in Seq(V) /\ Len(m.ops) = h
  BY <1>4, <1>5, <1>7, <1>8 DEF EnterTry, SyncedFields, VMFields
<1>10. /\ vm.calls \in FrameRecords /\ vm.tries \in TryRecords /\ vm.top \in Nat
       /\ Control(L, opt.topSize, p, vm.calls, vm.tries, h)
       /\ TryBlocks(opt, L, p, Op.TRY)
  BY <1>1, <1>2, <1>6, HandlerPlace
<1>11. PICK b : b = [catch |-> catch, depth |-> L[p].depth]
  OBVIOUS
<1>12. /\ Follows(L, p, q, L[p].depth, Append(L[p].tries, b))
       /\ Follows(L, p, catch, L[p].depth + 1, L[p].tries)
  BY <1>4, <1>10, <1>11 DEF TryBlocks
<1>13. /\ q \in DOMAIN L /\ L[q].depth <= L[p].depth /\ L[q].room <= L[p].room
       /\ L[q].tries = Append(L[p].tries, b) /\ catch \in Nat
  BY <1>1, <1>12, LabelTypes DEF Follows
<1>14. Append(vm.tries, t) \in TryRecords
       /\ Control(L, opt.topSize, q, vm.calls, Append(vm.tries, t), h)
  BY <1>1, <1>2, <1>8, <1>10, <1>11, <1>13, OpensBlock
<1>15. Resume(m) /\ Plain
  BY <1>2, <1>3 DEF HandledAt
<1>16. m.calls \in FrameRecords /\ m.tries \in TryRecords /\ m.top \in Nat
  BY <1>9, <1>10, <1>14
<1>17. m.outcome = "running" => Control(L, opt.topSize, m.ip, m.calls, m.tries, h)
  BY <1>9, <1>14
<1> QED
  BY <1>9, <1>15, <1>16, <1>17, HandlerMoves

LEMMA PopTryInv ==
    ASSUME NEW L, NEW V, VMInv(L, V), HandledAt(Op.POP_TRY)
    PROVE  VMInv(L, V)'
<1>1. /\ vm.outcome = "running" /\ Byte(opt.code, vm.ip) = Op.POP_TRY
      /\ vm.ip \in DOMAIN L /\ vm.ip \in Nat /\ Labelled(L) /\ opt.topSize \in Nat
  BY HandlerGiven DEF Delegated, HandledAt
<1>2. PICK c, s, p : c = [opt EXCEPT !.code = code] /\ s = Synced /\ p = vm.ip
  OBVIOUS
<1>3. PICK m : m = ExecAt(c, s, p, Op.POP_TRY)
  OBVIOUS
<1>4. PICK q : q = p + 1
  OBVIOUS
<1>5. m = PopTry(s, 1)
  BY <1>3, HandlerTable
<1>6. PICK h \in Nat : Height(cache) = h
  BY Untouched
<1>7. /\ DOMAIN s = SyncedFields /\ s.ops \in Seq(V) /\ Len(s.ops) = h /\ s.locals = vm.locals
      /\ s.top = vm.top /\ s.calls = vm.calls /\ s.tries = vm.tries /\ s.heap = vm.heap
      /\ s.ip = p
  BY <1>2, <1>6, SyncedIs
<1>8. PICK less : less = SubSeq(vm.tries, 1, Len(vm.tries) - 1)
  OBVIOUS
<1>9. /\ DOMAIN m = SyncedFields /\ m.ip = q
      /\ m.calls = vm.calls /\ m.tries = less /\ m.top = vm.top
      /\ m.locals = vm.locals /\ m.heap = vm.heap
      /\ m.ops \in Seq(V) /\ Len(m.ops) = h
  BY <1>4, <1>5, <1>7, <1>8 DEF PopTry, SyncedFields, VMFields
<1>10. /\ vm.calls \in FrameRecords /\ vm.tries \in TryRecords /\ vm.top \in Nat
       /\ Control(L, opt.topSize, p, vm.calls, vm.tries, h)
       /\ TryBlocks(opt, L, p, Op.POP_TRY)
  BY <1>1, <1>2, <1>6, HandlerPlace
<1>11. /\ L[p].tries # <<>>
       /\ Follows(L, p, q, L[p].depth, SubSeq(L[p].tries, 1, Len(L[p].tries) - 1))
  BY <1>4, <1>10 DEF TryBlocks
<1>12. /\ q \in DOMAIN L /\ L[q].depth <= L[p].depth /\ L[q].room <= L[p].room
       /\ L[q].tries = SubSeq(L[p].tries, 1, Len(L[p].tries) - 1)
  BY <1>11 DEF Follows
<1>13. less \in TryRecords /\ Control(L, opt.topSize, q, vm.calls, less, h)
  BY <1>1, <1>2, <1>8, <1>10, <1>11, <1>12, LeavesBlock
<1>14. Resume(m) /\ Plain
  BY <1>2, <1>3 DEF HandledAt
<1>15. m.calls \in FrameRecords /\ m.tries \in TryRecords /\ m.top \in Nat
  BY <1>9, <1>10, <1>13
<1>16. m.outcome = "running" => Control(L, opt.topSize, m.ip, m.calls, m.tries, h)
  BY <1>9, <1>13
<1> QED
  BY <1>9, <1>14, <1>15, <1>16, HandlerMoves

(* The blocks of the frame that throws are no deeper than what is left. *)
LEMMA ThrowerHolds ==
    ASSUME NEW L, NEW V, VMInv(L, V), vm.outcome = "running",
           Byte(opt.code, vm.ip) = Op.THROW, NEW h \in Nat, Height(cache) = h
    PROVE  /\ h - 1 \in Nat /\ Bottom(vm.calls, Len(vm.calls)) <= h - 1
           /\ \A i \in 1 .. Len(vm.tries) :
                 vm.tries[i].calls = Len(vm.calls) => vm.tries[i].depth <= h - 1
<1> DEFINE p == vm.ip
           b == Bottom(vm.calls, Len(vm.calls))
<1>1. p \in DOMAIN L /\ Labelled(L) /\ opt.topSize \in Nat
  BY Decoded, VerifiedLabels DEF VMInv
<1>2. PICK d \in Nat : L[p].depth = d
  BY <1>1, LabelTypes
<1>3. b \in Nat /\ b + d <= h /\ h >= 1 /\ d >= 1
      /\ \A j \in 1 .. Len(L[p].tries) : L[p].tries[j].depth <= d - 1
  <2>1. 1 = Takes(Byte(opt.code, vm.ip), Byte(opt.code, vm.ip + 3)) /\ 1 \in Nat
    BY HandlerTable
  <2> QED
    BY <1>2, <2>1, EnoughOnStack
<1>4. /\ vm.calls \in FrameRecords /\ vm.tries \in TryRecords
      /\ Control(L, opt.topSize, p, vm.calls, vm.tries, h)
  BY HandlerPlace
<1> HIDE DEF b
<1>5. PICK left \in Nat : left = h - 1
  BY <1>3
<1>6. b <= left
  BY <1>3, <1>5
<1>7. ASSUME NEW j \in 1 .. Len(L[p].tries)
      PROVE  L[p].tries[j].depth + h <= left + L[p].depth
  <2>1. PICK e \in Nat : L[p].tries[j].depth = e
    BY <1>1, LabelTypes
  <2>2. e <= d - 1
    BY <1>3, <2>1
  <2>3. e + h <= left + d
    BY <1>5, <2>2
  <2> QED
    BY <1>2, <2>1, <2>3
<1>8. \A i \in 1 .. Len(vm.tries) :
         vm.tries[i].calls = Len(vm.calls) => vm.tries[i].depth <= left
  BY <1>1, <1>4, <1>5, <1>7, Capped
<1> QED
  BY <1>5, <1>6, <1>8 DEF b

LEMMA ThrowInv ==
    ASSUME NEW L, NEW V, VMInv(L, V), HandledAt(Op.THROW)
    PROVE  \E W : VMInv(L, W)'
<1>1. /\ vm.outcome = "running" /\ Byte(opt.code, vm.ip) = Op.THROW
      /\ vm.ip \in DOMAIN L /\ vm.ip \in Nat /\ Labelled(L) /\ Handled(L)
      /\ opt.topSize \in Nat
  BY HandlerGiven DEF Delegated, HandledAt
<1>2. PICK c, s, p : c = [opt EXCEPT !.code = code] /\ s = Synced /\ p = vm.ip
  OBVIOUS
<1>3. PICK m : m = ExecAt(c, s, p, Op.THROW)
  OBVIOUS
<1>4. m = Raise(s, Drop(s.ops, 1))
  BY <1>3, HandlerTable
<1>5. PICK h \in Nat : Height(cache) = h
  BY Untouched
<1>6. PICK W : VMInv(L, W) /\ Caught \in W
  BY SimpleValues, Computes
<1>7. /\ DOMAIN s = SyncedFields /\ s.ops \in Seq(W) /\ Len(s.ops) = h /\ s.locals = vm.locals
      /\ s.top = vm.top /\ s.calls = vm.calls /\ s.tries = vm.tries /\ s.heap = vm.heap
      /\ s.outcome = "running"
  BY <1>1, <1>2, <1>5, <1>6, SyncedIs
<1>8. /\ h - 1 \in Nat /\ Bottom(vm.calls, Len(vm.calls)) <= h - 1
      /\ \A i \in 1 .. Len(vm.tries) :
            vm.tries[i].calls = Len(vm.calls) => vm.tries[i].depth <= h - 1
  BY <1>1, <1>5, ThrowerHolds
<1>9. PICK left \in Nat : left = h - 1
  BY <1>8
<1>10. PICK rest : rest = Drop(s.ops, 1)
  OBVIOUS
<1>11. rest \in Seq(W) /\ Len(rest) = left
  <2>1. 1 \in 0 .. h
    BY <1>9
  <2> QED
    BY <1>7, <1>9, <1>10, <2>1, OneDropped
<1>12. Resume(m) /\ Plain
  BY <1>2, <1>3 DEF HandledAt
<1>13. /\ vm.calls \in FrameRecords /\ vm.tries \in TryRecords /\ vm.top \in Nat
       /\ Control(L, opt.topSize, vm.ip, vm.calls, vm.tries, h)
  BY <1>1, <1>5, HandlerPlace
<1>14. CASE vm.tries = <<>>
  <2>1. m = [s EXCEPT !.ops = rest, !.outcome = "escaped"]
    BY <1>4, <1>7, <1>10, <1>14 DEF Raise
  <2>2. /\ DOMAIN m = SyncedFields /\ m.outcome = "escaped"
        /\ m.calls = vm.calls /\ m.tries = vm.tries /\ m.top = vm.top
        /\ m.locals = vm.locals /\ m.heap = vm.heap
        /\ m.ops \in Seq(W) /\ Len(m.ops) = left
    BY <1>7, <1>11, <2>1 DEF SyncedFields, VMFields
  <2>3. m.calls \in FrameRecords /\ m.tries \in TryRecords /\ m.top \in Nat
    BY <1>13, <2>2
  <2>4. m.outcome = "running" => Control(L, opt.topSize, m.ip, m.calls, m.tries, left)
    BY <2>2
  <2> QED
    BY <1>6, <1>12, <2>2, <2>3, <2>4, HandlerMoves
<1>15. CASE vm.tries # <<>>
  <2>1. PICK t, calls, tries : /\ t = vm.tries[Len(vm.tries)]
                               /\ calls = SubSeq(vm.calls, 1, t.calls)
                               /\ tries = SubSeq(vm.tries, 1, Len(vm.tries) - 1)
    OBVIOUS
  <2>2. /\ t.depth \in 0 .. left /\ t.top \in Nat
        /\ calls \in FrameRecords /\ tries \in TryRecords
        /\ Control(L, opt.topSize, t.catch, calls, tries, t.depth + 1)
    BY <1>1, <1>8, <1>9, <1>13, <1>15, <2>1, CaughtByBlock
  <2>3. PICK n \in 0 .. left : n = t.depth
    BY <2>2
  <2>4. PICK ops : ops = Append(SubSeq(rest, 1, n), Caught)
    OBVIOUS
  <2>5. ops \in Seq(W) /\ Len(ops) = n + 1
    <3>1. \A i \in 1 .. n : rest[i] \in W
      BY <1>11, <2>3, ElementOfSeq
    <3>2. SubSeq(rest, 1, n) \in Seq(W) /\ Len(SubSeq(rest, 1, n)) = n
      BY <1>11, <2>3, <3>1
    <3> QED
      BY <1>6, <2>4, <3>2, AppendProperties
  <2>6. m = [s EXCEPT !.tries = tries, !.calls = calls, !.top = t.top,
                      !.ops = ops, !.ip = t.catch]
    BY <1>4, <1>7, <1>10, <1>15, <2>1, <2>3, <2>4 DEF Raise
  <2>7. /\ DOMAIN m = SyncedFields /\ m.outcome = "running" /\ m.ip = t.catch
        /\ m.calls = calls /\ m.tries = tries /\ m.top = t.top
        /\ m.locals = vm.locals /\ m.heap = vm.heap
        /\ m.ops \in Seq(W) /\ Len(m.ops) = n + 1
    BY <1>7, <2>5, <2>6 DEF SyncedFields, VMFields
  <2>8. PICK n1 \in Nat : n1 = n + 1
    OBVIOUS
  <2>9. /\ m.calls \in FrameRecords /\ m.tries \in TryRecords /\ m.top \in Nat
        /\ Len(m.ops) = n1
        /\ m.outcome = "running" => Control(L, opt.topSize, m.ip, m.calls, m.tries, n1)
    BY <2>2, <2>3, <2>7, <2>8
  <2> QED
    BY <1>6, <1>12, <2>7, <2>9, HandlerMoves
<1> QED
  BY <1>14, <1>15

(* An object that is allocated behind the others, without a field. *)
LEMMA Allocated ==
    ASSUME NEW L, NEW V, VMInv(L, V), NEW name \in Strings, NEW n \in Nat, Len(vm.heap) = n,
           NEW obj, obj = [cls |-> name, names |-> <<>>, vals |-> <<>>],
           NEW v, v = <<"obj", n + 1>>, vm'.heap = Append(vm.heap, obj),
           opt' = opt, fieldICs' = fieldICs, methodICs' = methodICs
    PROVE  LET W == V \cup {v} IN
           ValuesOK(W, vm.heap)' /\ HeapOK(W, vm.heap)' /\ SitesOK(L, vm.heap)'
<1>0. PICK W : W = V \cup {v}
  OBVIOUS
<1> DEFINE heap == vm.heap
           heap1 == Append(vm.heap, obj)
<1>1. heap \in Seq(Records(V)) /\ \A id \in 1 .. n : ObjectOK(heap[id])
  BY DEF VMInv, HeapOK
<1>2. V \subseteq W /\ Seq(V) \subseteq Seq(W)
  BY <1>0, LargerSeq
<1>3. Records(V) \subseteq Records(W)
  BY <1>2 DEF Records
<1>4. heap \in Seq(Records(W))
  BY <1>1, <1>3, LargerSeq
<1>5. obj \in Records(W) /\ ObjectOK(obj)
  <2>1. <<>> \in Seq(Strings) /\ <<>> \in Seq(W) /\ Len(<<>>) = 0
    BY EmptySeq
  <2>2. obj \in Records(W)
    BY <2>1 DEF Records
  <2>3. 1 .. 0 = {}
    OBVIOUS
  <2> QED
    BY <2>1, <2>2, <2>3 DEF ObjectOK
<1>6. /\ heap1 \in Seq(Records(W)) /\ Len(heap1) = n + 1
      /\ \A i \in 1 .. n : heap1[i] = heap[i]
      /\ heap1[n + 1] = obj
  BY <1>4, <1>5, AppendProperties
<1>7. /\ 1 .. n \subseteq 1 .. n + 1 /\ n + 1 \in 1 .. n + 1
      /\ \A id \in 1 .. n + 1 : id \in 1 .. n \/ id = n + 1
  OBVIOUS
<1> HIDE DEF heap1
<1>8. ValuesOK(W, heap1)
  <2>1. Nil \in V /\ \A x \in V : AsInt(x) \in Int /\ (IsObj(x) => x[2] \in 1 .. n)
    BY DEF VMInv, ValuesOK
  <2>2. v[2] = n + 1 /\ AsInt(v) \in Int
    BY DEF AsInt
  <2>3. \A x \in W : AsInt(x) \in Int /\ (IsObj(x) => x[2] \in 1 .. n + 1)
    BY <1>0, <1>7, <2>1, <2>2
  <2> QED
    BY <1>2, <1>6, <2>1, <2>3 DEF ValuesOK
<1>9. \A id \in 1 .. Len(heap1) : ObjectOK(heap1[id])
  BY <1>1, <1>5, <1>6, <1>7
<1>10. \A k \in DOMAIN fieldICs : FieldSiteOK(heap1, k, fieldICs[k])
  <2>1. \A k \in DOMAIN fieldICs : FieldSiteOK(heap, k, fieldICs[k])
    BY DEF VMInv, SitesOK
  <2> QED
    BY <1>6, <1>7, <2>1 DEF FieldSiteOK
<1>11. \A k \in DOMAIN methodICs : MethodSiteOK(L, heap1, k, methodICs[k])
  <2>1. \A k \in DOMAIN methodICs : MethodSiteOK(L, heap, k, methodICs[k])
    BY DEF VMInv, SitesOK
  <2> QED
    BY <1>6, <1>7, <2>1 DEF MethodSiteOK
<1>12. vm'.heap = heap1
  BY DEF heap1
<1>13. ValuesOK(W, vm.heap)' /\ HeapOK(W, vm.heap)'
  <2>1. ValuesOK(W, vm.heap)'
    BY <1>8, <1>12 DEF ValuesOK
  <2>2. Records(W)' = Records(W)
    BY DEF Records, Strings
  <2>3. vm'.heap \in Seq(Records(W)')
    BY <1>6, <1>12, <2>2
  <2> QED
    BY <1>9, <1>12, <2>1, <2>3 DEF HeapOK, ObjectOK
<1>14. SitesOK(L, vm.heap)'
  <2>1. DOMAIN fieldICs = DOMAIN opt.fields /\ DOMAIN methodICs = DOMAIN opt.methods
    BY DEF VMInv, SitesOK
  <2>2. \A k \in DOMAIN fieldICs : FieldSiteOK(vm.heap, k, fieldICs[k])'
    BY <1>10, <1>12 DEF FieldSiteOK
  <2>3. \A k \in DOMAIN methodICs : MethodSiteOK(L, vm.heap, k, methodICs[k])'
    BY <1>11, <1>12 DEF MethodSiteOK
  <2> QED
    BY <2>1, <2>2, <2>3 DEF SitesOK
<1> QED
  BY <1>0, <1>13, <1>14

LEMMA NewInstanceInv ==
    ASSUME NEW L, NEW V, VMInv(L, V), HandledAt(Op.NEW_INSTANCE)
    PROVE  \E W : VMInv(L, W)'
<1> DEFINE o == Op.NEW_INSTANCE
<1>1. Straight(o, 0, 1, 4)
  BY StraightTable
<1>2. /\ vm.outcome = "running" /\ Byte(opt.code, vm.ip) = o /\ opt' = opt /\ code' = code
      /\ fieldICs' = fieldICs /\ methodICs' = methodICs /\ Checked(opt, L, vm.ip)
      /\ [opt EXCEPT !.code = code].strings = opt.strings
      /\ UInt16([opt EXCEPT !.code = code].code, vm.ip + 1) = UInt16(opt.code, vm.ip + 1)
  BY HandlerWide, HandlerGiven DEF HandlerWidths, Delegated, HandledAt
<1>3. PICK c, s, p : c = [opt EXCEPT !.code = code] /\ s = Synced /\ p = vm.ip
  OBVIOUS
<1>4. PICK m : m = ExecAt(c, s, p, o)
  OBVIOUS
<1>5. PICK name \in Strings : name = c.strings[UInt16(c.code, p + 1)]
  <2>1. Resolved(opt, L, p, o)
    BY <1>2, <1>3 DEF Checked
  <2>2. UInt16(opt.code, p + 1) \in DOMAIN opt.strings
    BY <2>1, OpNumbers DEF Resolved
  <2> QED
    BY <1>2, <1>3, <2>2 DEF Strings
<1>6. PICK h \in Nat : Height(cache) = h
  BY Untouched
<1>7. PICK n \in Nat : n = Len(vm.heap)
  BY LenProperties DEF VMInv, HeapOK
<1>8. PICK v, obj : v = <<"obj", n + 1>> /\ obj = [cls |-> name, names |-> <<>>, vals |-> <<>>]
  OBVIOUS
<1>9. PICK W : W = V \cup {v}
  OBVIOUS
<1>10. /\ DOMAIN s = SyncedFields /\ s.ops \in Seq(V) /\ Len(s.ops) = h /\ s.locals = vm.locals
       /\ s.top = vm.top /\ s.calls = vm.calls /\ s.tries = vm.tries /\ s.heap = vm.heap
       /\ s.ip = p
  BY <1>3, <1>6, SyncedIs
<1>11. PICK ops : ops = Append(s.ops, v)
  OBVIOUS
<1>12. ops \in Seq(W) /\ Len(ops) = h + 1
  <2>1. v \in W /\ s.ops \in Seq(W)
    BY <1>9, <1>10, LargerSeq
  <2> QED
    BY <1>10, <1>11, <2>1, AppendProperties
<1>13. m = [Advance(s, 4, ops) EXCEPT !.heap = Append(@, obj)]
  <2>1. ExecAt(c, s, p, o) =
           [Advance(s, 4, Append(s.ops, <<"obj", Len(s.heap) + 1>>))
               EXCEPT !.heap = Append(@, [cls |-> c.strings[UInt16(c.code, p + 1)],
                                          names |-> <<>>, vals |-> <<>>])]
    BY OpNumbers DEF ExecAt, Binaries
  <2> QED
    BY <1>4, <1>5, <1>7, <1>8, <1>10, <1>11, <2>1
<1>14. /\ DOMAIN m = SyncedFields /\ m.ops = ops /\ m.ip = vm.ip + 4
       /\ m.calls = vm.calls /\ m.tries = vm.tries /\ m.top = vm.top
       /\ m.locals = vm.locals /\ m.heap = Append(vm.heap, obj)
  BY <1>3, <1>10, <1>13 DEF Advance, SyncedFields, VMFields
<1>15. /\ DOMAIN vm' = VMFields /\ cache' = <<ops, <<>>>>
       /\ vm'.ip = vm.ip + 4 /\ vm'.locals = vm.locals /\ vm'.top = vm.top
       /\ vm'.calls = vm.calls /\ vm'.tries = vm.tries /\ vm'.heap = Append(vm.heap, obj)
  <2>1. Resume(m)
    BY <1>3, <1>4 DEF HandledAt
  <2> QED
    BY <1>14, <2>1, Resumed
<1>16. ValuesOK(W, vm.heap)' /\ HeapOK(W, vm.heap)' /\ SitesOK(L, vm.heap)'
  BY <1>2, <1>7, <1>8, <1>9, <1>15, Allocated
<1>17. PICK takes \in Nat, leaves \in Nat : takes = 0 /\ leaves = 1
  OBVIOUS
<1>18. /\ IsCache(cache', W)
       /\ Stacked(cache, cache', W, Height(cache) + leaves - takes, Height(cache) - takes)
  <2>1. PICK n1 \in Nat : n1 = h + 1
    OBVIOUS
  <2>2. h \in Int /\ h <= n1
    BY <2>1
  <2>3. IsCache(<<ops, <<>>>>, W) /\ Stacked(cache, <<ops, <<>>>>, W, n1, h)
    BY <1>12, <2>1, <2>2, AllInMemory
  <2>4. h + leaves - takes = n1 /\ h - takes = h
    BY <1>17, <2>1
  <2> QED
    BY <1>6, <1>15, <2>3, <2>4
<1>19. Running(L)'
  <2>1. PICK q : q = vm.ip + 4
    OBVIOUS
  <2>2. /\ q \in Successors(opt.code, vm.ip, Byte(opt.code, vm.ip))
        /\ takes = Takes(Byte(opt.code, vm.ip), Byte(opt.code, vm.ip + 3))
        /\ leaves = Leaves(Byte(opt.code, vm.ip)) /\ vm'.ip = q
    BY <1>1, <1>2, <1>15, <1>17, <2>1 DEF Straight
  <2> QED
    BY <1>2, <1>15, <1>18, <2>2, StaysInFrame
<1>20. MachineOK(W)'
  <2>1. /\ vm.calls \in FrameRecords /\ vm.tries \in TryRecords /\ vm.top \in Nat
        /\ \A i \in DOMAIN vm.locals : vm.locals[i] \in V
    BY DEF VMInv, MachineOK
  <2> QED
    BY <1>9, <1>15, <1>18, <2>1 DEF MachineOK
<1>21. Verified(opt, L)' /\ Quickened(L)'
  <2>1. Verified(opt, L)'
    BY <1>2 DEF VMInv
  <2> QED
    BY <1>2, <2>1, PlainCode
<1> QED
  BY <1>16, <1>19, <1>20, <1>21 DEF VMInv

LEMMA DelegateInv ==
    ASSUME NEW L, NEW V, VMInv(L, V), Delegate
    PROVE  \E W : VMInv(L, W)'
<1>1. PICK o \in Delegated : HandledAt(o)
  BY DEF Delegate, Delegated, HandledAt
<1>2. CASE o = Op.PUSH_STRING
  BY <1>1, <1>2, PushStringInv
<1>3. CASE o = Op.PRINTLN
  BY <1>1, <1>3, PrintlnInv
<1>4. CASE o = Op.NEW_INSTANCE
  BY <1>1, <1>4, NewInstanceInv
<1>5. CASE o = Op.TRY
  BY <1>1, <1>5, TryInv
<1>6. CASE o = Op.POP_TRY
  BY <1>1, <1>6, PopTryInv
<1>7. CASE o = Op.THROW
  BY <1>1, <1>7, ThrowInv
<1>8. CASE o = Op.HALT
  BY <1>1, <1>8, HaltInv
<1> QED
  BY <1>2, <1>3, <1>4, <1>5, <1>6, <1>7, <1>8 DEF Delegated

LEMMA StepInv ==
    ASSUME NEW L, NEW V, VMInv(L, V), Step
    PROVE  \E W : VMInv(L, W)'
<1>1. CASE PushInt \/ PushBool \/ Pop \/ Dup
  BY <1>1, PushIntInv, PushBoolInv, PopInv, DupInv
<1>2. CASE LoadLocal \/ StoreLocal \/ LoadSlot \/ StoreSlot
  BY <1>2, LoadLocalInv, StoreLocalInv, LoadSlotInv, StoreSlotInv
<1>3. CASE StoreSlotPop \/ StoreLocalPop \/ LoadLoadLocal
  BY <1>3, StoreSlotPopInv, StoreLocalPopInv, LoadLoadLocalInv
<1>4. CASE IncrLocalImm \/ FusedAddStore \/ FusedMulAdd
  BY <1>4, FusedInv
<1>5. CASE LoopRangeFast \/ Jump \/ JumpIfFalse \/ Branch3
  BY <1>5, LoopRangeFastInv, JumpInv, JumpIfFalseInv, Branch3Inv
<1>6. CASE Binary \/ Quick
  BY <1>6, BinaryInv, QuickInv
<1>7. CASE GetFieldIC \/ SetFieldIC
  BY <1>7, GetFieldICInv, SetFieldICInv
<1>8. CASE Call \/ CallFast \/ InvokeMethodIC \/ Ret
  BY <1>8, CallInv, CallFastInv, InvokeMethodICInv, RetInv
<1>9. CASE Delegate
  BY <1>9, DelegateInv
<1> QED
  BY <1>1, <1>2, <1>3, <1>4, <1>5, <1>6, <1>7, <1>8, <1>9 DEF Step

(* Some labelling and some set of values always fit. *)
Fitting == \E L, V : VMInv(L, V)

LEMMA StartFits ==
    ASSUME Init, NEW L, Verified(opt, L)
    PROVE  \E V : VMInv(L, V)
<1> DEFINE V == {Nil}
<1>1. /\ opt = Optimize(chunk) /\ code = opt.code
      /\ fieldICs = [k \in DOMAIN opt.fields |-> [shape |-> 0, slot |-> 0]]
      /\ methodICs = [k \in DOMAIN opt.methods |-> [shape |-> 0, entry |-> 0, size |-> 32]]
      /\ vm = [ip |-> 0, locals |-> [i \in {} |-> Nil], top |-> opt.topSize,
               calls |-> <<>>, tries |-> <<>>, heap |-> <<>>, out |-> <<>>,
               outcome |-> "running"]
      /\ cache = << <<>>, <<>> >>
  BY DEF Init
<1>2. Quickened(L)
  <2>1. "code" \in DOMAIN opt
    BY <1>1 DEF Optimize, AfterPass1, AfterPass2, AfterScan, Optimized
  <2> QED
    BY <1>1, <2>1 DEF Quickened
<1>3. ValuesOK(V, vm.heap)
  BY SimpleValues DEF ValuesOK, Simple
<1>4. HeapOK(V, vm.heap)
  <2>1. vm.heap = <<>> /\ <<>> \in Seq(Records(V)) /\ Len(<<>>) = 0
    BY <1>1, EmptySeq
  <2>2. 1 .. 0 = {}
    OBVIOUS
  <2> QED
    BY <2>1, <2>2 DEF HeapOK
<1>5. SitesOK(L, vm.heap)
  BY <1>1 DEF SitesOK, FieldSiteOK, MethodSiteOK
<1>6. /\ Labelled(L) /\ opt.topSize \in Nat /\ Enterable(L, 0, opt.topSize)
  BY VerifiedLabels DEF Verified
<1>7. MachineOK(V) /\ Height(cache) = 0 /\ Len(cache[1]) = 0
  <2>1. DOMAIN vm = VMFields /\ vm.top \in Nat /\ DOMAIN vm.locals = {}
    BY <1>1, <1>6 DEF VMFields
  <2>2. vm.calls \in FrameRecords /\ vm.tries \in TryRecords
    BY <1>1, EmptySeq DEF FrameRecords, TryRecords
  <2>3. <<>> \in Seq(V) /\ Len(<<>>) = 0
    BY EmptySeq
  <2>4. IsCache(cache, V) /\ Height(cache) = 0 /\ Len(cache[1]) = 0
    BY <1>1, <2>3, AllInMemory
  <2> QED
    BY <2>1, <2>2, <2>4 DEF MachineOK
<1>8. Control(L, opt.topSize, 0, <<>>, <<>>, 0)
  <2>1. Len(<<>>) = 0 /\ 0 .. 0 = {0} /\ 1 .. 0 = {} /\ 0 .. 0 + 1 = {0, 1}
    BY EmptySeq
  <2>2. /\ 0 \in DOMAIN L /\ L[0].depth = 0 /\ L[0].room <= opt.topSize
        /\ L[0].tries = <<>>
    BY <1>6 DEF Enterable
  <2>3. FramesOK(L, opt.topSize, 0, <<>>, 0)
    BY <2>1, <2>2 DEF FramesOK, FrameOK, Place, Bottom, RoomOf, HeightOf
  <2>4. PICK start : start = [k \in 0 .. 1 |-> 0]
    OBVIOUS
  <2>5. TriesOK(L, 0, <<>>, <<>>, 0, start)
    <3>1. start \in [0 .. Len(<<>>) + 1 -> Nat] /\ start[0] = 0 /\ start[1] = 0
      BY <2>1, <2>4
    <3>2. Place(0, <<>>, 0) = 0 /\ Len(L[0].tries) = 0
      BY <2>1, <2>2 DEF Place
    <3> QED
      BY <2>1, <3>1, <3>2 DEF TriesOK
  <2> QED
    BY <2>3, <2>5 DEF Control
<1>9. Running(L)
  <2>1. Bottom(<<>>, Len(<<>>)) = 0
    BY EmptySeq DEF Bottom
  <2> QED
    BY <1>1, <1>7, <1>8, <2>1 DEF Running
<1>10. VMInv(L, V)
  BY <1>2, <1>3, <1>4, <1>5, <1>7, <1>9 DEF VMInv
<1> QED
  BY <1>10

LEMMA StandsStill ==
    ASSUME NEW L, NEW V, VMInv(L, V), UNCHANGED vars
    PROVE  VMInv(L, V)'
<1>1. opt' = opt /\ code' = code /\ fieldICs' = fieldICs /\ methodICs' = methodICs
      /\ vm' = vm /\ cache' = cache
  BY DEF vars
<1>2. Verified(opt, L)'
  BY <1>1 DEF VMInv, Verified
<1>3. Quickened(L)'
  BY <1>1 DEF VMInv, Quickened
<1>4. ValuesOK(V, vm.heap)'
  BY <1>1 DEF VMInv, ValuesOK
<1>5. HeapOK(V, vm.heap)'
  BY <1>1 DEF VMInv, HeapOK, Records, Strings, ObjectOK
<1>6. SitesOK(L, vm.heap)'
  BY <1>1 DEF VMInv, SitesOK, FieldSiteOK, MethodSiteOK
<1>7. MachineOK(V)' /\ Running(L)'
  BY <1>1 DEF VMInv, MachineOK, Running
<1> QED
  BY <1>2, <1>3, <1>4, <1>5, <1>6, <1>7 DEF VMInv

LEMMA FitsOn == Fitting /\ [Next]_vars => Fitting'
<1> SUFFICES ASSUME Fitting, [Next]_vars PROVE Fitting'
  OBVIOUS
<1>1. PICK L, V : VMInv(L, V)
  BY DEF Fitting
<1>2. CASE Step
  <2>1. \E W : VMInv(L, W)'
    BY <1>1, <1>2, StepInv
  <2> QED
    BY <2>1 DEF Fitting
<1>3. CASE UNCHANGED vars
  <2>1. VMInv(L, V)'
    BY <1>1, <1>3, StandsStill
  <2> QED
    BY <2>1 DEF Fitting
<1> QED
  BY <1>2, <1>3 DEF Next, Finished

(* The slots an instruction names, by its kind. *)
LEMMA SlotTable ==
    \A bytes, p :
        /\ \A o \in {Op.LOAD_LOCAL, Op.STORE_LOCAL, Op.STORE_LOCAL_POP, Op.INCR_LOCAL_IMM} :
              SlotsNamed(bytes, p, o) = {UInt16(bytes, p + 1)} /\ Width(o) \in {3, 5}
        /\ \A n \in 0 .. 3 : /\ SlotsNamed(bytes, p, Op.LOAD_LOCAL_0 + n) = {n}
                             /\ SlotsNamed(bytes, p, Op.STORE_LOCAL_0 + n) = {n}
                             /\ SlotsNamed(bytes, p, Op.STORE_LOCAL_0_POP + n) = {n}
        /\ /\ SlotsNamed(bytes, p, Op.LOAD_LOAD_LOCAL) = {UInt16(bytes, p + k) : k \in {1, 3}}
           /\ Width(Op.LOAD_LOAD_LOCAL) = 5
        /\ /\ SlotsNamed(bytes, p, Op.FUSED_ADD_LOCAL_LOCAL_STORE) =
                 {UInt16(bytes, p + k) : k \in {1, 3, 5}}
           /\ SlotsNamed(bytes, p, Op.LOOP_RANGE_FAST) = {UInt16(bytes, p + k) : k \in {1, 3, 5}}
           /\ Width(Op.FUSED_ADD_LOCAL_LOCAL_STORE) = 7 /\ Width(Op.LOOP_RANGE_FAST) = 9
        /\ /\ SlotsNamed(bytes, p, Op.FUSED_MUL_ADD_I64) =
                 {UInt16(bytes, p + k) : k \in {1, 3, 5, 7}}
           /\ Width(Op.FUSED_MUL_ADD_I64) = 9
<1> SUFFICES ASSUME NEW bytes, NEW p
             PROVE
        /\ \A o \in {Op.LOAD_LOCAL, Op.STORE_LOCAL, Op.STORE_LOCAL_POP, Op.INCR_LOCAL_IMM} :
              SlotsNamed(bytes, p, o) = {UInt16(bytes, p + 1)} /\ Width(o) \in {3, 5}
        /\ \A n \in 0 .. 3 : /\ SlotsNamed(bytes, p, Op.LOAD_LOCAL_0 + n) = {n}
                             /\ SlotsNamed(bytes, p, Op.STORE_LOCAL_0 + n) = {n}
                             /\ SlotsNamed(bytes, p, Op.STORE_LOCAL_0_POP + n) = {n}
        /\ /\ SlotsNamed(bytes, p, Op.LOAD_LOAD_LOCAL) = {UInt16(bytes, p + k) : k \in {1, 3}}
           /\ Width(Op.LOAD_LOAD_LOCAL) = 5
        /\ /\ SlotsNamed(bytes, p, Op.FUSED_ADD_LOCAL_LOCAL_STORE) =
                 {UInt16(bytes, p + k) : k \in {1, 3, 5}}
           /\ SlotsNamed(bytes, p, Op.LOOP_RANGE_FAST) = {UInt16(bytes, p + k) : k \in {1, 3, 5}}
           /\ Width(Op.FUSED_ADD_LOCAL_LOCAL_STORE) = 7 /\ Width(Op.LOOP_RANGE_FAST) = 9
        /\ /\ SlotsNamed(bytes, p, Op.FUSED_MUL_ADD_I64) =
                 {UInt16(bytes, p + k) : k \in {1, 3, 5, 7}}
           /\ Width(Op.FUSED_MUL_ADD_I64) = 9
  OBVIOUS
<1>1. \A o \in {Op.LOAD_LOCAL, Op.STORE_LOCAL, Op.STORE_LOCAL_POP, Op.INCR_LOCAL_IMM} :
          SlotsNamed(bytes, p, o) = {UInt16(bytes, p + 1)} /\ Width(o) \in {3, 5}
  BY OpNumbers DEF SlotsNamed, Width, OptLen, CanonicalLen, Jumps
<1>2. \A n \in 0 .. 3 : /\ SlotsNamed(bytes, p, Op.LOAD_LOCAL_0 + n) = {n}
                        /\ SlotsNamed(bytes, p, Op.STORE_LOCAL_0 + n) = {n}
                        /\ SlotsNamed(bytes, p, Op.STORE_LOCAL_0_POP + n) = {n}
  BY OpNumbers DEF SlotsNamed
<1>3. SlotsNamed(bytes, p, Op.LOAD_LOAD_LOCAL) = {UInt16(bytes, p + k) : k \in {1, 3}}
  BY OpNumbers DEF SlotsNamed
<1>4. /\ SlotsNamed(bytes, p, Op.FUSED_ADD_LOCAL_LOCAL_STORE) =
            {UInt16(bytes, p + k) : k \in {1, 3, 5}}
      /\ SlotsNamed(bytes, p, Op.LOOP_RANGE_FAST) = {UInt16(bytes, p + k) : k \in {1, 3, 5}}
  BY OpNumbers DEF SlotsNamed
<1>5. SlotsNamed(bytes, p, Op.FUSED_MUL_ADD_I64) = {UInt16(bytes, p + k) : k \in {1, 3, 5, 7}}
  BY OpNumbers DEF SlotsNamed
<1>6. /\ Width(Op.LOAD_LOAD_LOCAL) = 5 /\ Width(Op.FUSED_MUL_ADD_I64) = 9
      /\ Width(Op.FUSED_ADD_LOCAL_LOCAL_STORE) = 7 /\ Width(Op.LOOP_RANGE_FAST) = 9
  BY OpNumbers DEF Width, OptLen, CanonicalLen, Jumps
<1> QED
  BY <1>1, <1>2, <1>3, <1>4, <1>5, <1>6

(* Every other instruction names none; a quickened one neither. *)
LEMMA NoSlots ==
    ASSUME NEW o, NEW bytes, NEW p, SlotsNamed(bytes, p, o) # {}
    PROVE  \/ o \in {Op.LOAD_LOCAL, Op.STORE_LOCAL, Op.STORE_LOCAL_POP, Op.INCR_LOCAL_IMM}
           \/ \E n \in 0 .. 3 : o \in {Op.LOAD_LOCAL_0 + n, Op.STORE_LOCAL_0 + n,
                                       Op.STORE_LOCAL_0_POP + n}
           \/ o = Op.LOAD_LOAD_LOCAL \/ o = Op.FUSED_ADD_LOCAL_LOCAL_STORE
           \/ o = Op.LOOP_RANGE_FAST \/ o = Op.FUSED_MUL_ADD_I64
BY OpNumbers DEF SlotsNamed

LEMMA QuickNamesNone ==
    \A o \in DOMAIN QuickOf : \A bytes, p : SlotsNamed(bytes, p, QuickOf[o]) = {}
<1>1. /\ QuickOf[Op.ADD] = 188 /\ QuickOf[Op.SUB] = 189 /\ QuickOf[Op.MUL] = 190
      /\ QuickOf[Op.LT] = 191 /\ QuickOf[Op.LE] = 192 /\ QuickOf[Op.EQ] = 193
      /\ QuickOf[Op.GT] = 206 /\ QuickOf[Op.GE] = 207
  BY OpNumbers DEF QuickOf
<1>2. \A o \in DOMAIN QuickOf : QuickOf[o] \in 188 .. 193 \cup {206, 207}
  BY <1>1, QuickTable
<1>3. \A x \in 188 .. 193 \cup {206, 207} : \A bytes, p : SlotsNamed(bytes, p, x) = {}
  BY OpNumbers DEF SlotsNamed
<1> QED
  BY <1>2, <1>3

(* The operands that name slots were not rewritten. *)
LEMMA SameSlots ==
    ASSUME NEW L, NEW V, VMInv(L, V), vm.outcome = "running",
           op = Byte(opt.code, vm.ip)
    PROVE  /\ SlotsNamed(code, vm.ip, op) \subseteq SlotsNamed(opt.code, vm.ip, op)
           /\ SlotsNamed(code, vm.ip, op) \subseteq Nat
<1>1. ASSUME NEW len \in Nat, Width(op) = len, NEW k \in 1 .. len - 2
      PROVE  UInt16(code, vm.ip + k) = UInt16(opt.code, vm.ip + k)
             /\ UInt16(code, vm.ip + k) \in Nat
  <2>1. U(k) = UInt16(opt.code, vm.ip + k) /\ U(k) \in Nat
    BY <1>1, Operands
  <2> QED
    BY <2>1 DEF U
<1>2. PICK p, o : p = vm.ip /\ o = op
  OBVIOUS
<1>3. ASSUME NEW len \in {3, 5, 7, 9}, Width(o) = len, NEW k \in 1 .. len - 2
      PROVE  UInt16(code, p + k) = UInt16(opt.code, p + k) /\ UInt16(code, p + k) \in Nat
  <2>1. len \in Nat
    OBVIOUS
  <2> QED
    BY <1>1, <1>2, <1>3, <2>1
<1>4. CASE o \in {Op.LOAD_LOCAL, Op.STORE_LOCAL, Op.STORE_LOCAL_POP, Op.INCR_LOCAL_IMM}
  <2>1. /\ SlotsNamed(code, p, o) = {UInt16(code, p + 1)}
        /\ SlotsNamed(opt.code, p, o) = {UInt16(opt.code, p + 1)} /\ Width(o) \in {3, 5}
    BY <1>4, SlotTable
  <2>2. UInt16(code, p + 1) = UInt16(opt.code, p + 1) /\ UInt16(code, p + 1) \in Nat
    <3>1. PICK len \in {3, 5} : Width(o) = len
      BY <2>1
    <3>2. len \in {3, 5, 7, 9} /\ 1 \in 1 .. len - 2
      OBVIOUS
    <3> QED
      BY <1>3, <3>1, <3>2
  <2> QED
    BY <1>2, <2>1, <2>2
<1>5. ASSUME NEW n \in 0 .. 3, o \in {Op.LOAD_LOCAL_0 + n, Op.STORE_LOCAL_0 + n,
                                      Op.STORE_LOCAL_0_POP + n}
      PROVE  /\ SlotsNamed(code, p, o) \subseteq SlotsNamed(opt.code, p, o)
             /\ SlotsNamed(code, p, o) \subseteq Nat
  <2>1. SlotsNamed(code, p, o) = {n} /\ SlotsNamed(opt.code, p, o) = {n}
    BY <1>5, SlotTable
  <2> QED
    BY <2>1
<1>6. CASE o = Op.LOAD_LOAD_LOCAL
  <2>1. /\ SlotsNamed(code, p, o) = {UInt16(code, p + k) : k \in {1, 3}}
        /\ SlotsNamed(opt.code, p, o) = {UInt16(opt.code, p + k) : k \in {1, 3}}
        /\ Width(o) = 5
    BY <1>6, SlotTable
  <2>2. \A k \in {1, 3} : k \in 1 .. 5 - 2
    OBVIOUS
  <2>3. \A k \in {1, 3} : UInt16(code, p + k) = UInt16(opt.code, p + k)
                          /\ UInt16(code, p + k) \in Nat
    BY <1>3, <2>1, <2>2
  <2> QED
    BY <1>2, <2>1, <2>3
<1>7. CASE o = Op.FUSED_ADD_LOCAL_LOCAL_STORE \/ o = Op.LOOP_RANGE_FAST
  <2>1. /\ SlotsNamed(code, p, o) = {UInt16(code, p + k) : k \in {1, 3, 5}}
        /\ SlotsNamed(opt.code, p, o) = {UInt16(opt.code, p + k) : k \in {1, 3, 5}}
        /\ Width(o) \in {7, 9}
    BY <1>7, SlotTable
  <2>2. \A k \in {1, 3, 5} : \A len \in {7, 9} : k \in 1 .. len - 2
    OBVIOUS
  <2>3. \A k \in {1, 3, 5} : UInt16(code, p + k) = UInt16(opt.code, p + k)
                             /\ UInt16(code, p + k) \in Nat
    BY <1>3, <2>1, <2>2
  <2> QED
    BY <1>2, <2>1, <2>3
<1>8. CASE o = Op.FUSED_MUL_ADD_I64
  <2>1. /\ SlotsNamed(code, p, o) = {UInt16(code, p + k) : k \in {1, 3, 5, 7}}
        /\ SlotsNamed(opt.code, p, o) = {UInt16(opt.code, p + k) : k \in {1, 3, 5, 7}}
        /\ Width(o) = 9
    BY <1>8, SlotTable
  <2>2. \A k \in {1, 3, 5, 7} : k \in 1 .. 9 - 2
    OBVIOUS
  <2>3. \A k \in {1, 3, 5, 7} : UInt16(code, p + k) = UInt16(opt.code, p + k)
                                /\ UInt16(code, p + k) \in Nat
    BY <1>3, <2>1, <2>2
  <2> QED
    BY <1>2, <2>1, <2>3
<1>9. CASE SlotsNamed(code, p, o) = {}
  BY <1>2, <1>9
<1> QED
  <2>1. /\ SlotsNamed(code, p, o) \subseteq SlotsNamed(opt.code, p, o)
        /\ SlotsNamed(code, p, o) \subseteq Nat
    <3>1. CASE SlotsNamed(code, p, o) # {}
      <4>1. \/ o \in {Op.LOAD_LOCAL, Op.STORE_LOCAL, Op.STORE_LOCAL_POP, Op.INCR_LOCAL_IMM}
            \/ \E n \in 0 .. 3 : o \in {Op.LOAD_LOCAL_0 + n, Op.STORE_LOCAL_0 + n,
                                        Op.STORE_LOCAL_0_POP + n}
            \/ o = Op.LOAD_LOAD_LOCAL \/ o = Op.FUSED_ADD_LOCAL_LOCAL_STORE
            \/ o = Op.LOOP_RANGE_FAST \/ o = Op.FUSED_MUL_ADD_I64
        BY <3>1, NoSlots
      <4> QED
        BY <1>2, <1>4, <1>5, <1>6, <1>7, <1>8, <4>1
    <3> QED
      BY <1>2, <1>9, <3>1
  <2> QED
    BY <1>2, <2>1

LEMMA RoomForSlots ==
    ASSUME NEW L, NEW V, VMInv(L, V)
    PROVE  SlotsInFrame
<1> SUFFICES ASSUME vm.outcome = "running", NEW s \in SlotsNamed(code, vm.ip, op)
             PROVE  s < FrameRunning
  BY DEF SlotsInFrame
<1> DEFINE p == vm.ip
           i == Byte(opt.code, p)
           n == Len(vm.calls)
<1>1. op = i
  BY Decoded, QuickNamesNone
<1>2. s \in SlotsNamed(opt.code, p, i) /\ s \in Nat
  BY <1>1, SameSlots
<1>3. p \in DOMAIN L /\ Labelled(L) /\ Checked(opt, L, p)
  BY Decoded, VerifiedLabels DEF VMInv
<1>4. PICK room \in Nat : room = L[p].room
  BY <1>3, LabelTypes
<1>5. s < room
  BY <1>2, <1>3, <1>4 DEF Checked
<1>6. vm.calls \in FrameRecords /\ Control(L, opt.topSize, p, vm.calls, vm.tries, Height(cache))
      /\ opt.topSize \in Nat
  BY VerifiedLabels, HandlerPlace DEF VMInv
<1>7. room <= RoomOf(opt.topSize, vm.calls, n) /\ n \in Nat
  <2>1. n \in Nat /\ n \in 0 .. n /\ Place(p, vm.calls, n) = p
    BY <1>6, FrameTypes DEF Place
  <2>2. FrameOK(L, opt.topSize, p, vm.calls, Height(cache), n)
    BY <1>6, <2>1 DEF Control, FramesOK
  <2> QED
    BY <1>4, <2>1, <2>2 DEF FrameOK
<1>8. RoomOf(opt.topSize, vm.calls, n) = FrameRunning /\ FrameRunning \in Nat
  <2>1. CASE vm.calls = <<>>
    <3>1. n = 0
      BY <2>1, EmptySeq
    <3> QED
      BY <1>6, <2>1, <3>1 DEF RoomOf, FrameRunning
  <2>2. CASE vm.calls # <<>>
    <3>1. n # 0 /\ n \in 1 .. n
      <4>1. n # 0
        BY <1>6, <2>2, EmptySeq DEF FrameRecords
      <4> QED
        BY <1>7, <4>1
    <3> QED
      BY <1>6, <2>2, <3>1, FrameTypes DEF RoomOf, FrameRunning
  <2> QED
    BY <2>1, <2>2
<1> QED
  BY <1>2, <1>5, <1>7, <1>8

LEMMA SitesTell ==
    ASSUME NEW L, NEW V, VMInv(L, V)
    PROVE  CachesAgree
<1>1. ASSUME NEW k \in DOMAIN fieldICs, fieldICs[k].shape # 0
      PROVE  LET obj == vm.heap[fieldICs[k].shape] IN
             /\ HasField(obj, opt.strings[opt.fields[k]])
             /\ fieldICs[k].slot = SlotOf(obj, opt.strings[opt.fields[k]])
  <2>1. PICK id, field, slot : /\ id = fieldICs[k].shape /\ slot = fieldICs[k].slot
                               /\ field = opt.strings[opt.fields[k]]
    OBVIOUS
  <2>2. PICK obj : obj = vm.heap[id]
    OBVIOUS
  <2>3. FieldSiteOK(vm.heap, k, fieldICs[k])
    BY DEF VMInv, SitesOK
  <2>4. id \in 1 .. Len(vm.heap) /\ slot \in 1 .. Len(obj.names) /\ obj.names[slot] = field
    BY <1>1, <2>1, <2>2, <2>3 DEF FieldSiteOK
  <2>5. obj \in Records(V) /\ ObjectOK(obj)
    BY <2>2, <2>4, ElementOfSeq DEF VMInv, HeapOK
  <2>6. DOMAIN obj.names = 1 .. Len(obj.names)
    BY <2>5, LenProperties DEF Records
  <2>7. HasField(obj, field)
    BY <2>4, <2>6 DEF HasField
  <2>8. SlotOf(obj, field) \in 1 .. Len(obj.names) /\ obj.names[SlotOf(obj, field)] = field
    BY <2>6, <2>7, SlotFound
  <2>9. slot = SlotOf(obj, field)
    BY <2>4, <2>5, <2>8 DEF ObjectOK
  <2> QED
    BY <2>1, <2>2, <2>7, <2>9
<1>2. \A k \in DOMAIN methodICs : methodICs[k].shape # 0 =>
          methodICs[k].entry = opt.functions[Method(opt, vm.heap[methodICs[k].shape],
                                                    opt.strings[opt.methods[k]])]
  BY DEF VMInv, SitesOK, MethodSiteOK
<1> QED
  BY <1>1, <1>2 DEF CachesAgree

-----------------------------------------------------------------------------
(* The frames in locals_. *)

LEMMA RoofTypes ==
    ASSUME NEW size \in Nat, NEW calls \in FrameRecords, NEW k \in 0 .. Len(calls)
    PROVE  RoofOf(size, calls, k) \in Nat
<1>1. Len(calls) \in Nat
  BY FrameTypes
<1>2. CASE k = 0
  BY <1>2 DEF RoofOf
<1>3. CASE k # 0
  <2>1. k \in 1 .. Len(calls)
    BY <1>1, <1>3
  <2>2. calls[k].base \in Nat /\ calls[k].size \in Nat
    BY <2>1, FrameTypes
  <2> QED
    BY <1>3, <2>2 DEF RoofOf
<1> QED
  BY <1>2, <1>3

LEMMA AbutEnter ==
    ASSUME NEW size \in Nat, NEW top, NEW calls \in FrameRecords, NEW tries,
           Abut(size, top, calls, tries), NEW f, f.base = top, f.size \in Nat,
           Append(calls, f) \in FrameRecords
    PROVE  Abut(size, top + f.size, Append(calls, f), tries)
<1>1. PICK n \in Nat : n = Len(calls)
  BY FrameTypes
<1>2. PICK c : c = Append(calls, f)
  OBVIOUS
<1>3. /\ Len(c) = n + 1 /\ c[n + 1] = f /\ c \in FrameRecords
      /\ \A k \in 1 .. n : c[k] = calls[k]
  BY <1>1, <1>2, AppendProperties DEF FrameRecords
<1>4. \A k \in 0 .. n : RoofOf(size, c, k) = RoofOf(size, calls, k)
  <2> SUFFICES ASSUME NEW k \in 0 .. n PROVE RoofOf(size, c, k) = RoofOf(size, calls, k)
    OBVIOUS
  <2>1. k = 0 \/ k \in 1 .. n
    OBVIOUS
  <2> QED
    BY <1>3, <2>1 DEF RoofOf
<1>5. top = RoofOf(size, calls, n) /\ top \in Nat
  <2>1. n \in 0 .. Len(calls) /\ top = RoofOf(size, calls, n)
    BY <1>1 DEF Abut
  <2> QED
    BY <2>1, RoofTypes
<1>6. RoofOf(size, c, n + 1) = top + f.size
  <2>1. n + 1 # 0
    OBVIOUS
  <2> QED
    BY <1>3, <2>1 DEF RoofOf
<1>7. \A j \in 0 .. n : RoofOf(size, calls, j) <= top
  <2> SUFFICES ASSUME NEW j \in 0 .. n PROVE RoofOf(size, calls, j) <= top
    OBVIOUS
  <2>1. CASE j = n
    BY <1>5, <2>1
  <2>2. CASE j # n
    <3>1. n \in 1 .. n /\ j \in 0 .. n - 1
      BY <2>2
    <3>2. RoofOf(size, calls, j) <= calls[n].base
      BY <1>1, <3>1 DEF Abut
    <3>3. /\ calls[n].base \in Nat /\ calls[n].size \in Nat /\ RoofOf(size, calls, j) \in Nat
      BY <1>1, <3>1, FrameTypes, RoofTypes
    <3>4. top = calls[n].base + calls[n].size
      BY <1>5, <3>1 DEF RoofOf
    <3>5. \A a, b, d \in Nat : a <= b => a <= b + d
      OBVIOUS
    <3> QED
      BY <3>2, <3>3, <3>4, <3>5
  <2> QED
    BY <2>1, <2>2
<1>8. ASSUME NEW k \in 1 .. n + 1
      PROVE  /\ c[k].base = RoofOf(size, c, k - 1)
             /\ \A j \in 0 .. k - 1 : RoofOf(size, c, j) <= c[k].base
  <2>1. CASE k = n + 1
    <3>1. k - 1 = n /\ c[k].base = top
      BY <1>3, <2>1
    <3> QED
      BY <1>4, <1>5, <1>7, <3>1
  <2>2. CASE k # n + 1
    <3>1. k \in 1 .. n /\ k - 1 \in 0 .. n /\ 0 .. k - 1 \subseteq 0 .. n
      BY <2>2
    <3>2. /\ calls[k].base = RoofOf(size, calls, k - 1)
          /\ \A j \in 0 .. k - 1 : RoofOf(size, calls, j) <= calls[k].base
      BY <1>1, <3>1 DEF Abut
    <3> QED
      BY <1>3, <1>4, <3>1, <3>2
  <2> QED
    BY <2>1, <2>2
<1>9. \A i \in 1 .. Len(tries) : /\ tries[i].calls \in 0 .. n + 1
                                 /\ tries[i].top = RoofOf(size, c, tries[i].calls)
  <2> SUFFICES ASSUME NEW i \in 1 .. Len(tries)
               PROVE  /\ tries[i].calls \in 0 .. n + 1
                      /\ tries[i].top = RoofOf(size, c, tries[i].calls)
    OBVIOUS
  <2>1. tries[i].calls \in 0 .. n /\ tries[i].top = RoofOf(size, calls, tries[i].calls)
    BY <1>1 DEF Abut
  <2> QED
    BY <1>4, <2>1
<1> QED
  BY <1>2, <1>3, <1>6, <1>8, <1>9 DEF Abut

LEMMA AbutCut ==
    ASSUME NEW size \in Nat, NEW top, NEW calls \in FrameRecords, NEW tries,
           Abut(size, top, calls, tries), NEW k \in 0 .. Len(calls), NEW fewer,
           \A i \in 1 .. Len(fewer) : /\ fewer[i].calls \in 0 .. k
                                      /\ i \in 1 .. Len(tries) /\ fewer[i] = tries[i]
    PROVE  Abut(size, RoofOf(size, calls, k), SubSeq(calls, 1, k), fewer)
<1>1. PICK n \in Nat : n = Len(calls)
  BY FrameTypes
<1>2. PICK c : c = SubSeq(calls, 1, k)
  OBVIOUS
<1>3. /\ Len(c) = k /\ \A j \in 1 .. k : c[j] = calls[j]
  BY <1>2, Prefix DEF FrameRecords
<1>4. k \in Nat /\ k <= n
  BY <1>1
<1>5. \A j \in 0 .. k : RoofOf(size, c, j) = RoofOf(size, calls, j)
  <2> SUFFICES ASSUME NEW j \in 0 .. k PROVE RoofOf(size, c, j) = RoofOf(size, calls, j)
    OBVIOUS
  <2>1. j = 0 \/ j \in 1 .. k
    BY <1>4
  <2> QED
    BY <1>3, <2>1 DEF RoofOf
<1>6. ASSUME NEW j \in 1 .. k
      PROVE  /\ c[j].base = RoofOf(size, c, j - 1)
             /\ \A h \in 0 .. j - 1 : RoofOf(size, c, h) <= c[j].base
  <2>1. j \in 1 .. n /\ j - 1 \in 0 .. k /\ 0 .. j - 1 \subseteq 0 .. k
    BY <1>4
  <2>2. /\ calls[j].base = RoofOf(size, calls, j - 1)
        /\ \A h \in 0 .. j - 1 : RoofOf(size, calls, h) <= calls[j].base
    BY <1>1, <2>1 DEF Abut
  <2> QED
    BY <1>3, <1>5, <2>1, <2>2
<1>7. ASSUME NEW i \in 1 .. Len(fewer)
      PROVE  fewer[i].calls \in 0 .. k /\ fewer[i].top = RoofOf(size, c, fewer[i].calls)
  <2>1. /\ fewer[i].calls \in 0 .. k /\ i \in 1 .. Len(tries) /\ fewer[i] = tries[i]
        /\ tries[i].top = RoofOf(size, calls, tries[i].calls)
    BY DEF Abut
  <2> QED
    BY <1>5, <2>1
<1>8. k \in 0 .. k
  BY <1>4
<1> QED
  BY <1>2, <1>3, <1>5, <1>6, <1>7, <1>8 DEF Abut

LEMMA AbutTry ==
    ASSUME NEW size \in Nat, NEW top, NEW calls \in FrameRecords, NEW tries \in TryRecords,
           Abut(size, top, calls, tries), NEW t, t.top = top, t.calls = Len(calls),
           Append(tries, t) \in TryRecords
    PROVE  Abut(size, top, calls, Append(tries, t))
<1>1. PICK n \in Nat, l \in Nat : n = Len(calls) /\ l = Len(tries)
  BY FrameTypes, TryTypes
<1>2. PICK s : s = Append(tries, t)
  OBVIOUS
<1>3. Len(s) = l + 1 /\ s[l + 1] = t /\ \A i \in 1 .. l : s[i] = tries[i]
  BY <1>1, <1>2, AppendProperties DEF TryRecords
<1>4. ASSUME NEW i \in 1 .. l + 1
      PROVE  s[i].calls \in 0 .. n /\ s[i].top = RoofOf(size, calls, s[i].calls)
  <2>1. CASE i = l + 1
    <3>1. n \in 0 .. n /\ top = RoofOf(size, calls, n)
      BY <1>1 DEF Abut
    <3> QED
      BY <1>1, <1>3, <2>1, <3>1
  <2>2. CASE i # l + 1
    <3>1. i \in 1 .. l
      BY <2>2
    <3>2. tries[i].calls \in 0 .. n /\ tries[i].top = RoofOf(size, calls, tries[i].calls)
      BY <1>1, <3>1 DEF Abut
    <3> QED
      BY <1>3, <3>1, <3>2
  <2> QED
    BY <2>1, <2>2
<1> QED
  BY <1>1, <1>2, <1>3, <1>4 DEF Abut

(* Every open try block belongs to a frame there is. *)
LEMMA BlocksWithin ==
    ASSUME NEW L, Labelled(L), NEW top, NEW ip, NEW calls \in FrameRecords,
           NEW tries \in TryRecords, NEW height,
           Control(L, top, ip, calls, tries, height), NEW i \in 1 .. Len(tries)
    PROVE  tries[i].calls \in 0 .. Len(calls)
<1>1. PICK start : TriesOK(L, ip, calls, tries, height, start)
  BY DEF Control
<1>2. FramesOK(L, top, ip, calls, height)
  BY DEF Control
<1> QED
  BY <1>1, <1>2, FrameOfBlock

LEMMA AbutStays ==
    ASSUME FramesAbut, opt' = opt, vm'.calls = vm.calls, vm'.tries = vm.tries,
           vm'.top = vm.top
    PROVE  FramesAbut'
BY DEF FramesAbut, Abut, RoofOf

(* Instructions that stay in their frame and write no slot, or one that the  *)
(* short forms of a store name.                                              *)
LEMMA FramesLeftAlone ==
    ASSUME DOMAIN vm = VMFields,
           \/ PushInt \/ PushBool \/ Pop \/ Dup \/ LoadLocal \/ LoadSlot \/ StoreSlot
           \/ StoreSlotPop \/ LoadLoadLocal \/ LoopRangeFast \/ Jump \/ JumpIfFalse \/ Branch3
           \/ Binary \/ Quick \/ GetFieldIC \/ SetFieldIC
    PROVE  /\ opt' = opt /\ vm'.calls = vm.calls /\ vm'.tries = vm.tries
           /\ vm'.top = vm.top
<1> DEFINE Alone == /\ opt' = opt /\ vm'.calls = vm.calls /\ vm'.tries = vm.tries
                    /\ vm'.top = vm.top
<1>1. \A len, c : Go(vm, len, c) /\ opt' = opt => Alone
  BY DEF Go, VMFields
<1>2. CASE PushInt \/ PushBool \/ Pop \/ Dup \/ LoadLocal \/ LoadSlot \/ LoadLoadLocal
           \/ Jump \/ JumpIfFalse \/ Branch3
  BY <1>1, <1>2 DEF PushInt, PushBool, Pop, Dup, LoadLocal, LoadSlot, LoadLoadLocal,
     Jump, JumpIfFalse, Branch3, Plain
<1>3. CASE StoreSlot \/ StoreSlotPop
  BY <1>3 DEF StoreSlot, StoreSlotPop, SetSlot, Go, Plain, VMFields
<1>4. CASE LoopRangeFast
  BY <1>1, <1>4 DEF LoopRangeFast, Plain, VMFields
<1>5. CASE Binary \/ Quick
  BY <1>1, <1>5 DEF Binary, Quick, Compute
<1>6. CASE GetFieldIC
  BY <1>1, <1>6 DEF GetFieldIC, VMFields
<1>7. CASE SetFieldIC
  <2>1. opt' = opt
    BY <1>7 DEF SetFieldIC
  <2>2. \A h, len, c : Go([vm EXCEPT !.heap = h], len, c) => Alone
    BY <2>1 DEF Go, VMFields
  <2> QED
    BY <1>1, <1>7, <2>1, <2>2 DEF SetFieldIC
<1> QED
  BY <1>2, <1>3, <1>4, <1>5, <1>6, <1>7

(* Where the running frame starts and ends. *)
LEMMA FrameOfSlots ==
    ASSUME FramesAbut, vm.calls \in FrameRecords, opt.topSize \in Nat, NEW slot \in Nat,
           slot < FrameRunning
    PROVE  LocalBase(vm) \in Nat /\ vm.top \in Nat /\ LocalBase(vm) + slot < vm.top
<1>1. vm.top = RoofOf(opt.topSize, vm.calls, Len(vm.calls))
  BY DEF FramesAbut, Abut
<1>2. CASE vm.calls = <<>>
  <2>1. Len(vm.calls) = 0
    BY <1>2, EmptySeq
  <2>2. vm.top = opt.topSize /\ LocalBase(vm) = 0 /\ FrameRunning = opt.topSize
    BY <1>1, <1>2, <2>1 DEF RoofOf, LocalBase, FrameRunning
  <2> QED
    BY <2>2
<1>3. CASE vm.calls # <<>>
  <2>1. PICK n \in Nat : n = Len(vm.calls)
    BY FrameTypes
  <2>2. n # 0
    BY <1>3, <2>1, EmptySeq DEF FrameRecords
  <2>3. n \in 1 .. n
    BY <2>2
  <2>4. PICK b \in Nat, s \in Nat : b = vm.calls[n].base /\ s = vm.calls[n].size
    BY <2>1, <2>3, FrameTypes
  <2>5. vm.top = b + s /\ LocalBase(vm) = b /\ FrameRunning = s
    BY <1>1, <1>3, <2>1, <2>2, <2>4 DEF RoofOf, LocalBase, FrameRunning
  <2> QED
    BY <2>4, <2>5
<1> QED
  BY <1>2, <1>3

(* A slot of the frame is set without local_top_ being moved. *)
LEMMA SlotSetInFrame ==
    ASSUME FramesAbut, DOMAIN vm = VMFields, vm.calls \in FrameRecords, opt.topSize \in Nat,
           NEW slot \in Nat, slot < FrameRunning, NEW v
    PROVE  /\ SetLocal(vm, slot, v) =
                  [vm EXCEPT !.locals = WriteCells(@, LocalBase(vm) + slot, <<v>>)]
           /\ \A len, c : Go(SetLocal(vm, slot, v), len, c) =>
                  /\ vm'.calls = vm.calls /\ vm'.tries = vm.tries /\ vm'.top = vm.top
<1>1. LocalBase(vm) \in Nat /\ vm.top \in Nat /\ LocalBase(vm) + slot < vm.top
  BY FrameOfSlots
<1>2. PICK idx : idx = LocalBase(vm) + slot
  OBVIOUS
<1>3. ~(idx >= vm.top)
  BY <1>1, <1>2
<1>4. PICK cells : cells = WriteCells(vm.locals, idx, <<v>>)
  OBVIOUS
<1>5. SetLocal(vm, slot, v) = [vm EXCEPT !.locals = cells, !.top = vm.top]
  BY <1>2, <1>3, <1>4 DEF SetLocal
<1>6. SetLocal(vm, slot, v) = [vm EXCEPT !.locals = cells]
  BY <1>5 DEF VMFields
<1>7. \A len, c : Go(SetLocal(vm, slot, v), len, c) =>
          /\ vm'.calls = vm.calls /\ vm'.tries = vm.tries /\ vm'.top = vm.top
  BY <1>6 DEF Go, VMFields
<1> QED
  BY <1>2, <1>4, <1>6, <1>7

(* The slot an instruction writes is one of those it names. *)
LEMMA SlotsWritten ==
    ASSUME NEW L, NEW V, VMInv(L, V)
    PROVE  /\ At(Op.STORE_LOCAL) \/ At(Op.STORE_LOCAL_POP) \/ At(Op.INCR_LOCAL_IMM) =>
                  U(1) \in Nat /\ U(1) < FrameRunning
           /\ At(Op.FUSED_ADD_LOCAL_LOCAL_STORE) => U(5) \in Nat /\ U(5) < FrameRunning
           /\ At(Op.FUSED_MUL_ADD_I64) => U(7) \in Nat /\ U(7) < FrameRunning
<1>1. ASSUME NEW o \in Translated, At(o)
      PROVE  /\ SlotsNamed(code, vm.ip, o) \subseteq Nat
             /\ \A s \in SlotsNamed(code, vm.ip, o) : s < FrameRunning
  <2>1. vm.outcome = "running" /\ Byte(opt.code, vm.ip) = o /\ op = o
    BY <1>1, Recognised DEF At
  <2> QED
    BY <2>1, SameSlots, RoomForSlots DEF SlotsInFrame
<1>2. /\ {Op.STORE_LOCAL, Op.STORE_LOCAL_POP, Op.INCR_LOCAL_IMM} \subseteq Translated
      /\ Op.FUSED_ADD_LOCAL_LOCAL_STORE \in Translated /\ Op.FUSED_MUL_ADD_I64 \in Translated
  BY DEF Translated
<1>3. ASSUME NEW o \in {Op.STORE_LOCAL, Op.STORE_LOCAL_POP, Op.INCR_LOCAL_IMM}, At(o)
      PROVE  U(1) \in Nat /\ U(1) < FrameRunning
  <2>1. SlotsNamed(code, vm.ip, o) = {U(1)}
    BY <1>3, SlotTable DEF U
  <2> QED
    BY <1>1, <1>2, <1>3, <2>1
<1>4. ASSUME At(Op.FUSED_ADD_LOCAL_LOCAL_STORE)
      PROVE  U(5) \in Nat /\ U(5) < FrameRunning
  <2>1. U(5) \in SlotsNamed(code, vm.ip, Op.FUSED_ADD_LOCAL_LOCAL_STORE)
    BY SlotTable DEF U
  <2> QED
    BY <1>1, <1>2, <1>4, <2>1
<1>5. ASSUME At(Op.FUSED_MUL_ADD_I64)
      PROVE  U(7) \in Nat /\ U(7) < FrameRunning
  <2>1. U(7) \in SlotsNamed(code, vm.ip, Op.FUSED_MUL_ADD_I64)
    BY SlotTable DEF U
  <2> QED
    BY <1>1, <1>2, <1>5, <2>1
<1> QED
  BY <1>3, <1>4, <1>5

LEMMA StoresAbut ==
    ASSUME NEW L, NEW V, VMInv(L, V), FramesAbut,
           \/ StoreLocal \/ StoreLocalPop \/ IncrLocalImm \/ FusedAddStore \/ FusedMulAdd
    PROVE  FramesAbut'
<1>1. DOMAIN vm = VMFields /\ vm.calls \in FrameRecords /\ opt.topSize \in Nat
  BY VerifiedLabels DEF VMInv, MachineOK
<1>2. opt' = opt
  BY DEF StoreLocal, StoreLocalPop, IncrLocalImm, FusedAddStore, FusedMulAdd, Plain
<1>3. PICK slot \in Nat : /\ slot < FrameRunning
                          /\ \E v, len, c : Go(SetLocal(vm, slot, v), len, c)
  BY SlotsWritten DEF StoreLocal, StoreLocalPop, IncrLocalImm, FusedAddStore, FusedMulAdd
<1>4. vm'.calls = vm.calls /\ vm'.tries = vm.tries /\ vm'.top = vm.top
  BY <1>1, <1>3, SlotSetInFrame
<1> QED
  BY <1>2, <1>4, AbutStays

(* A call puts the frame of the callee where the running one ends. *)
LEMMA EnteredAbuts ==
    ASSUME FramesAbut, NEW ret, NEW left, NEW size \in Nat, NEW L, NEW V, VMInv(L, V),
           NEW W, VMInv(L, W)', opt' = opt,
           vm'.calls = Append(vm.calls, [ret |-> ret, base |-> vm.top,
                                         depth |-> left, size |-> size]),
           vm'.top = vm.top + size, vm'.tries = vm.tries
    PROVE  FramesAbut'
<1>1. PICK f : f = [ret |-> ret, base |-> vm.top, depth |-> left, size |-> size]
  OBVIOUS
<1>2. vm.calls \in FrameRecords /\ vm'.calls \in FrameRecords /\ opt.topSize \in Nat
  BY VerifiedLabels DEF VMInv, MachineOK
<1>3. f.base = vm.top /\ f.size = size /\ vm'.calls = Append(vm.calls, f)
  BY <1>1
<1>4. Abut(opt.topSize, vm.top + f.size, Append(vm.calls, f), vm.tries)
  BY <1>2, <1>3, AbutEnter DEF FramesAbut
<1> QED
  BY <1>3, <1>4 DEF FramesAbut

LEMMA FastAbuts ==
    ASSUME NEW L, NEW V, VMInv(L, V), NEW W, VMInv(L, W)', FramesAbut, opt' = opt,
           NEW q, NEW size \in Nat, NEW n, EnterFast(4, q, size, n)
    PROVE  FramesAbut'
<1>1. PICK left, args : left = Len(TAKE_ARGS(cache, n)[1]) /\ args = Arguments(cache, n)
  OBVIOUS
<1>2. vm' = [vm EXCEPT !.calls = Append(@, [ret |-> vm.ip + 4, base |-> vm.top,
                                            depth |-> left, size |-> size]),
                       !.locals = WriteCells(@, vm.top, args),
                       !.top = @ + size,
                       !.ip = q]
  BY <1>1 DEF EnterFast
<1>3. DOMAIN vm = VMFields
  BY DEF VMInv, MachineOK
<1>4. /\ vm'.calls = Append(vm.calls, [ret |-> vm.ip + 4, base |-> vm.top,
                                       depth |-> left, size |-> size])
      /\ vm'.top = vm.top + size /\ vm'.tries = vm.tries
  BY <1>2, <1>3 DEF VMFields
<1> QED
  BY <1>4, EnteredAbuts

LEMMA CallsAbut ==
    ASSUME NEW L, NEW V, VMInv(L, V), NEW W, VMInv(L, W)', FramesAbut, Call \/ CallFast
    PROVE  FramesAbut'
<1>1. CASE Call
  <2>1. PICK n, f : n = Byte(code, vm.ip + 3) /\ f = U(1)
    OBVIOUS
  <2>2. At(Op.CALL) /\ Op.CALL \in Calls
    BY <1>1 DEF Call, Calls
  <2>3. n \in Nat
    BY <2>1, <2>2, ArgumentCount
  <2>4. PICK q, size : q = opt.functions[f] /\ size = FrameSize(opt, f, n)
    OBVIOUS
  <2>5. size \in Nat
    BY <2>3, <2>4, FrameTable
  <2>6. EnterFast(4, q, size, n) /\ opt' = opt
    BY <1>1, <2>1, <2>4 DEF Call, Plain
  <2> QED
    BY <2>5, <2>6, FastAbuts
<1>2. CASE CallFast
  <2>1. PICK n \in 0 .. 1 : At(Op.CALL_FAST_0 + n) /\ Plain
                            /\ EnterFast(4, U(1), Byte(code, vm.ip + 3), n)
    BY <1>2 DEF CallFast
  <2>2. PICK o : o = Op.CALL_FAST_0 + n
    OBVIOUS
  <2>3. o \in Calls /\ At(o)
    BY <2>1, <2>2, OpNumbers DEF Calls
  <2>4. PICK q, size : q = U(1) /\ size = Byte(code, vm.ip + 3)
    OBVIOUS
  <2>5. size \in Nat
    BY <2>3, <2>4, ArgumentCount
  <2>6. EnterFast(4, q, size, n) /\ opt' = opt
    BY <2>1, <2>4 DEF Plain
  <2> QED
    BY <2>5, <2>6, FastAbuts
<1> QED
  BY <1>1, <1>2

(* The general handler of a method call. *)
LEMMA InvokeAbuts ==
    ASSUME NEW L, NEW V, VMInv(L, V), NEW W, VMInv(L, W)', FramesAbut, opt' = opt,
           NEW argc \in Nat, NEW name, Resume(ExecInvoke(opt, Synced, name, argc))
    PROVE  FramesAbut'
<1>1. PICK n \in Nat : n = argc + 1
  OBVIOUS
<1>2. PICK s, m : s = Synced /\ m = ExecInvoke(opt, s, name, argc)
  OBVIOUS
<1>3. /\ DOMAIN s = SyncedFields /\ s.ip = vm.ip /\ s.top = vm.top
      /\ s.calls = vm.calls /\ s.tries = vm.tries
  BY <1>2, SyncedIs
<1>4. PICK rest, args : rest = Drop(s.ops, n) /\ args = Args(s.ops, n)
  OBVIOUS
<1>5. PICK obj : obj = s.heap[args[1][2]]
  OBVIOUS
<1>6. CASE IsObj(args[1]) /\ HasMethod(opt, obj, name)
  <2>1. PICK method, size, q : /\ method = Method(opt, obj, name)
                           /\ size = FrameSize(opt, method, n) /\ q = opt.functions[method]
    OBVIOUS
  <2>2. size \in Nat
    BY <2>1, FrameTable
  <2>3. m = Enter(s, 4, q, size, rest, args)
    BY <1>1, <1>2, <1>4, <1>5, <1>6, <2>1 DEF ExecInvoke
  <2>4. PICK left : left = Len(rest)
    OBVIOUS
  <2>5. /\ DOMAIN m = SyncedFields /\ m.tries = vm.tries /\ m.top = vm.top + size
        /\ m.calls = Append(vm.calls, [ret |-> vm.ip + 4, base |-> vm.top,
                                       depth |-> left, size |-> size])
    BY <1>3, <2>3, <2>4 DEF Enter, SyncedFields, VMFields
  <2>6. /\ vm'.tries = vm.tries /\ vm'.top = vm.top + size
        /\ vm'.calls = Append(vm.calls, [ret |-> vm.ip + 4, base |-> vm.top,
                                         depth |-> left, size |-> size])
    BY <1>2, <2>5, Resumed
  <2> QED
    BY <2>2, <2>6, EnteredAbuts
<1>7. CASE ~(IsObj(args[1]) /\ HasMethod(opt, obj, name))
  <2>1. m = Advance(s, 4, Append(rest, Nil))
    BY <1>1, <1>2, <1>4, <1>5, <1>7 DEF ExecInvoke
  <2>2. /\ DOMAIN m = SyncedFields /\ m.tries = vm.tries /\ m.top = vm.top
        /\ m.calls = vm.calls
    BY <1>3, <2>1 DEF Advance, SyncedFields, VMFields
  <2>3. vm'.tries = vm.tries /\ vm'.top = vm.top /\ vm'.calls = vm.calls
    BY <1>2, <2>2, Resumed
  <2> QED
    BY <2>3, AbutStays
<1> QED
  BY <1>6, <1>7

LEMMA MethodsAbut ==
    ASSUME NEW L, NEW V, VMInv(L, V), NEW W, VMInv(L, W)', FramesAbut, InvokeMethodIC
    PROVE  FramesAbut'
<1>1. PICK k, argc : k = U(1) + 1 /\ argc = Byte(code, vm.ip + 3)
  OBVIOUS
<1>2. At(Op.INVOKE_METHOD_IC) /\ Op.INVOKE_METHOD_IC \in Calls
  BY DEF InvokeMethodIC, Calls
<1>3. argc \in Nat /\ U(1) = UInt16(opt.code, vm.ip + 1)
      /\ Resolved(opt, L, vm.ip, Op.INVOKE_METHOD_IC)
  BY <1>1, <1>2, ArgumentCount
<1>4. k \in DOMAIN methodICs
  <2>1. k \in DOMAIN opt.methods
    BY <1>1, <1>3, OpNumbers DEF Resolved
  <2> QED
    BY <2>1 DEF VMInv, SitesOK
<1>5. PICK n \in Nat : n = argc + 1
  BY <1>3
<1>6. PICK v, name : v = Arguments(cache, n)[1] /\ name = opt.strings[opt.methods[k]]
  OBVIOUS
<1>7. opt' = opt
  BY DEF InvokeMethodIC
<1>8. CASE Hit(methodICs[k], v)
  <2>1. PICK q, size : q = methodICs[k].entry /\ size = methodICs[k].size
    OBVIOUS
  <2>2. EnterFast(4, q, size, n)
    BY <1>1, <1>5, <1>6, <1>8, <2>1 DEF InvokeMethodIC
  <2>3. MethodSiteOK(L, vm.heap, k, methodICs[k]) /\ methodICs[k].shape # 0
    BY <1>4, <1>8 DEF VMInv, SitesOK, Hit
  <2>4. size \in Nat
    BY <2>1, <2>3 DEF MethodSiteOK
  <2> QED
    BY <1>7, <2>2, <2>4, FastAbuts
<1>9. CASE /\ ~Hit(methodICs[k], v)
           /\ IsObj(v) /\ Shape(v[2]) # 0 /\ HasMethod(opt, vm.heap[v[2]], name)
  <2>1. PICK method, size, q : /\ method = Method(opt, vm.heap[v[2]], name)
                           /\ size = FrameSize(opt, method, n) /\ q = opt.functions[method]
    OBVIOUS
  <2>2. size \in Nat
    BY <2>1, FrameTable
  <2>3. EnterFast(4, q, size, n)
    BY <1>1, <1>5, <1>6, <1>9, <2>1 DEF InvokeMethodIC
  <2> QED
    BY <1>7, <2>2, <2>3, FastAbuts
<1>10. CASE /\ ~Hit(methodICs[k], v)
            /\ ~(IsObj(v) /\ Shape(v[2]) # 0 /\ HasMethod(opt, vm.heap[v[2]], name))
  <2>1. Resume(ExecInvoke(opt, Synced, name, argc))
    BY <1>1, <1>5, <1>6, <1>10 DEF InvokeMethodIC
  <2> QED
    BY <1>3, <1>7, <2>1, InvokeAbuts
<1> QED
  BY <1>8, <1>9, <1>10

(* Frames are left: the k below remain, and none of the blocks that remain   *)
(* belongs to one that was left.                                             *)
LEMMA CutAbuts ==
    ASSUME NEW L, NEW V, VMInv(L, V), NEW W, VMInv(L, W)', FramesAbut, opt' = opt,
           vm'.outcome = "running", NEW k \in 0 .. Len(vm.calls),
           vm'.calls = SubSeq(vm.calls, 1, k), vm'.top = RoofOf(opt.topSize, vm.calls, k),
           \A i \in 1 .. Len(vm'.tries) : i \in 1 .. Len(vm.tries) /\ vm'.tries[i] = vm.tries[i]
    PROVE  FramesAbut'
<1>1. PICK calls, tries, top, ip, h :
          /\ calls = vm'.calls /\ tries = vm'.tries /\ top = opt'.topSize /\ ip = vm'.ip
          /\ h = Height(cache')
  OBVIOUS
<1>2. /\ calls \in FrameRecords /\ tries \in TryRecords /\ Labelled(L)
      /\ Control(L, top, ip, calls, tries, h)
  <2>1. MachineOK(W)' /\ Running(L)'
    BY DEF VMInv
  <2>2. calls \in FrameRecords /\ tries \in TryRecords
    BY <1>1, <2>1 DEF MachineOK
  <2>3. Control(L, opt'.topSize, vm'.ip, vm'.calls, vm'.tries, Height(cache'))
    BY <2>1 DEF Running
  <2> QED
    BY <1>1, <2>2, <2>3, VerifiedLabels DEF VMInv
<1>3. vm.calls \in FrameRecords /\ opt.topSize \in Nat
  BY VerifiedLabels DEF VMInv, MachineOK
<1>4. Len(calls) = k
  BY <1>1, <1>3, Prefix DEF FrameRecords
<1>5. \A i \in 1 .. Len(tries) : /\ tries[i].calls \in 0 .. k
                                 /\ i \in 1 .. Len(vm.tries) /\ tries[i] = vm.tries[i]
  BY <1>1, <1>2, <1>4, BlocksWithin
<1>6. Abut(opt.topSize, RoofOf(opt.topSize, vm.calls, k), SubSeq(vm.calls, 1, k), tries)
  BY <1>3, <1>5, AbutCut DEF FramesAbut
<1> QED
  BY <1>1, <1>6 DEF FramesAbut

LEMMA ReturnAbuts ==
    ASSUME NEW L, NEW V, VMInv(L, V), NEW W, VMInv(L, W)', FramesAbut, Ret
    PROVE  FramesAbut'
<1>1. DOMAIN vm = VMFields /\ vm.calls \in FrameRecords
  BY DEF VMInv, MachineOK
<1>2. opt' = opt /\ vm.outcome = "running"
  BY DEF Ret, Plain, At
<1>3. CASE vm.calls = <<>>
  <2>1. vm' = [vm EXCEPT !.outcome = "halted"]
    BY <1>3 DEF Ret
  <2>2. vm'.calls = vm.calls /\ vm'.tries = vm.tries /\ vm'.top = vm.top
    BY <1>1, <2>1 DEF VMFields
  <2> QED
    BY <1>2, <2>2, AbutStays
<1>4. CASE vm.calls # <<>>
  <2>1. PICK n \in Nat : n = Len(vm.calls)
    BY <1>1, FrameTypes
  <2>2. n # 0
    BY <1>1, <1>4, <2>1, EmptySeq DEF FrameRecords
  <2>3. n \in 1 .. n /\ n - 1 \in 0 .. n
    BY <2>2
  <2>4. /\ vm'.calls = SubSeq(vm.calls, 1, n - 1) /\ vm'.top = vm.calls[n].base
        /\ vm'.tries = vm.tries /\ vm'.outcome = "running"
    BY <1>1, <1>2, <1>4, <2>1 DEF Ret, VMFields
  <2>5. vm.calls[n].base = RoofOf(opt.topSize, vm.calls, n - 1)
    BY <2>1, <2>3 DEF FramesAbut, Abut
  <2>6. PICK k \in 0 .. Len(vm.calls) : k = n - 1
    BY <2>1, <2>3
  <2>7. vm'.calls = SubSeq(vm.calls, 1, k) /\ vm'.top = RoofOf(opt.topSize, vm.calls, k)
    BY <2>4, <2>5, <2>6
  <2> QED
    BY <1>2, <2>4, <2>7, CutAbuts
<1> QED
  BY <1>3, <1>4

(* A handler of the portable loops, as run_optimized calls it. *)
LEMMA HandlerRuns ==
    ASSUME NEW L, NEW V, VMInv(L, V), NEW o, HandledAt(o)
    PROVE  \E c, s, m :
              /\ m = ExecAt(c, s, vm.ip, o) /\ DOMAIN s = SyncedFields
              /\ s.calls = vm.calls /\ s.tries = vm.tries /\ s.top = vm.top
              /\ s.outcome = "running" /\ Resume(m) /\ opt' = opt
<1>1. PICK c, s, m : /\ c = [opt EXCEPT !.code = code] /\ s = Synced
                     /\ m = ExecAt(c, s, vm.ip, o)
  OBVIOUS
<1>2. Resume(m) /\ opt' = opt /\ vm.outcome = "running"
  BY <1>1 DEF HandledAt, Plain, At
<1>3. /\ DOMAIN s = SyncedFields /\ s.calls = vm.calls /\ s.tries = vm.tries /\ s.top = vm.top
      /\ s.outcome = vm.outcome
  BY <1>1, SyncedIs
<1> QED
  BY <1>1, <1>2, <1>3

LEMMA QuietHandlersAbut ==
    ASSUME NEW L, NEW V, VMInv(L, V), FramesAbut,
           NEW o \in {Op.PUSH_STRING, Op.PRINTLN, Op.NEW_INSTANCE, Op.HALT}, HandledAt(o)
    PROVE  FramesAbut'
<1>1. PICK c, s, m :
          /\ m = ExecAt(c, s, vm.ip, o) /\ DOMAIN s = SyncedFields
          /\ s.calls = vm.calls /\ s.tries = vm.tries /\ s.top = vm.top
          /\ Resume(m) /\ opt' = opt
  BY HandlerRuns
<1>2. /\ DOMAIN m = SyncedFields /\ m.calls = s.calls /\ m.tries = s.tries /\ m.top = s.top
  <2>1. CASE o = Op.PUSH_STRING
    <3>1. \E ops : m = Advance(s, 3, ops)
      BY <1>1, <2>1, HandlerTable
    <3> QED
      BY <1>1, <3>1 DEF Advance, SyncedFields, VMFields
  <2>2. CASE o = Op.PRINTLN
    <3>1. PICK ops, v : ops = Append(Drop(s.ops, 1), Nil) /\ v = Peek(s.ops)
      OBVIOUS
    <3>2. ExecAt(c, s, vm.ip, Op.PRINTLN) =
             [Advance(s, 1, Append(Drop(s.ops, 1), Nil)) EXCEPT !.out = Append(@, Peek(s.ops))]
      BY HandlerTable
    <3>3. m = [Advance(s, 1, ops) EXCEPT !.out = Append(@, v)]
      BY <1>1, <2>2, <3>1, <3>2
    <3> QED
      BY <1>1, <3>3 DEF Advance, SyncedFields, VMFields
  <2>3. CASE o = Op.NEW_INSTANCE
    <3>1. PICK ops, obj : /\ ops = Append(s.ops, <<"obj", Len(s.heap) + 1>>)
                          /\ obj = [cls |-> c.strings[UInt16(c.code, vm.ip + 1)],
                                    names |-> <<>>, vals |-> <<>>]
      OBVIOUS
    <3>2. ExecAt(c, s, vm.ip, Op.NEW_INSTANCE) =
             [Advance(s, 4, Append(s.ops, <<"obj", Len(s.heap) + 1>>))
                 EXCEPT !.heap = Append(@, [cls |-> c.strings[UInt16(c.code, vm.ip + 1)],
                                            names |-> <<>>, vals |-> <<>>])]
      BY OpNumbers DEF ExecAt, Binaries
    <3>3. m = [Advance(s, 4, ops) EXCEPT !.heap = Append(@, obj)]
      BY <1>1, <2>3, <3>1, <3>2
    <3> QED
      BY <1>1, <3>3 DEF Advance, SyncedFields, VMFields
  <2>4. CASE o = Op.HALT
    <3>1. m = [s EXCEPT !.outcome = "halted"]
      BY <1>1, <2>4, HandlerTable
    <3> QED
      BY <1>1, <3>1 DEF SyncedFields, VMFields
  <2> QED
    BY <2>1, <2>2, <2>3, <2>4
<1>3. vm'.calls = vm.calls /\ vm'.tries = vm.tries /\ vm'.top = vm.top
  BY <1>1, <1>2, Resumed
<1> QED
  BY <1>1, <1>3, AbutStays

LEMMA BlockOpenedAbuts ==
    ASSUME NEW L, NEW V, VMInv(L, V), NEW W, VMInv(L, W)', FramesAbut, HandledAt(Op.TRY)
    PROVE  FramesAbut'
<1>1. PICK c, s, m :
          /\ m = ExecAt(c, s, vm.ip, Op.TRY) /\ DOMAIN s = SyncedFields
          /\ s.calls = vm.calls /\ s.tries = vm.tries /\ s.top = vm.top
          /\ Resume(m) /\ opt' = opt
  BY HandlerRuns
<1>2. PICK catch : m = EnterTry(s, 3, catch)
  BY <1>1, HandlerTable
<1>3. PICK t : t = [catch |-> catch, depth |-> Len(s.ops), top |-> s.top,
                    calls |-> Len(s.calls)]
  OBVIOUS
<1>4. /\ DOMAIN m = SyncedFields /\ m.calls = vm.calls /\ m.top = vm.top
      /\ m.tries = Append(vm.tries, t) /\ t.top = vm.top /\ t.calls = Len(vm.calls)
  BY <1>1, <1>2, <1>3 DEF EnterTry, SyncedFields, VMFields
<1>5. vm'.calls = vm.calls /\ vm'.tries = Append(vm.tries, t) /\ vm'.top = vm.top
  BY <1>1, <1>4, Resumed
<1>6. /\ vm.calls \in FrameRecords /\ vm.tries \in TryRecords /\ vm'.tries \in TryRecords
      /\ opt.topSize \in Nat
  BY VerifiedLabels DEF VMInv, MachineOK
<1>7. Abut(opt.topSize, vm.top, vm.calls, Append(vm.tries, t))
  BY <1>4, <1>5, <1>6, AbutTry DEF FramesAbut
<1> QED
  BY <1>1, <1>5, <1>7 DEF FramesAbut

(* The blocks but for the innermost. *)
LEMMA OuterBlocks ==
    ASSUME NEW tries \in TryRecords, NEW less, less = SubSeq(tries, 1, Len(tries) - 1)
    PROVE  \A i \in 1 .. Len(less) : i \in 1 .. Len(tries) /\ less[i] = tries[i]
<1>1. PICK z \in Nat : z = Len(tries)
  BY TryTypes
<1>2. CASE z = 0
  <2>1. less = <<>>
    <3>1. tries = <<>>
      BY <1>1, <1>2, EmptySeq DEF TryRecords
    <3>2. 1 .. 0 - 1 = {}
      OBVIOUS
    <3>3. Len(less) = 0
      BY <1>1, <1>2, SubSeqProperties DEF TryRecords
    <3> QED
      BY <1>1, <1>2, <3>3, SubSeqProperties, EmptySeq DEF TryRecords
  <2>2. Len(less) = 0
    BY <2>1, EmptySeq
  <2> QED
    BY <2>2
<1>3. CASE z # 0
  <2>1. z - 1 \in 0 .. z
    BY <1>3
  <2>2. Len(less) = z - 1 /\ \A i \in 1 .. z - 1 : less[i] = tries[i]
    BY <1>1, <2>1, Prefix DEF TryRecords
  <2> QED
    BY <1>1, <2>1, <2>2
<1> QED
  BY <1>2, <1>3

LEMMA BlockLeftAbuts ==
    ASSUME NEW L, NEW V, VMInv(L, V), NEW W, VMInv(L, W)', FramesAbut, HandledAt(Op.POP_TRY)
    PROVE  FramesAbut'
<1>1. PICK c, s, m :
          /\ m = ExecAt(c, s, vm.ip, Op.POP_TRY) /\ DOMAIN s = SyncedFields
          /\ s.calls = vm.calls /\ s.tries = vm.tries /\ s.top = vm.top
          /\ Resume(m) /\ opt' = opt
  BY HandlerRuns
<1>2. m = PopTry(s, 1)
  BY <1>1, HandlerTable
<1>3. PICK less : less = SubSeq(vm.tries, 1, Len(vm.tries) - 1)
  OBVIOUS
<1>4. DOMAIN m = SyncedFields /\ m.calls = vm.calls /\ m.top = vm.top /\ m.tries = less
  BY <1>1, <1>2, <1>3 DEF PopTry, SyncedFields, VMFields
<1>5. vm'.calls = vm.calls /\ vm'.tries = less /\ vm'.top = vm.top
  BY <1>1, <1>4, Resumed
<1>6. \A i \in 1 .. Len(less) : i \in 1 .. Len(vm.tries) /\ less[i] = vm.tries[i]
  BY <1>3, OuterBlocks DEF VMInv, MachineOK
<1>7. \A i \in 1 .. Len(less) : /\ less[i].calls \in 0 .. Len(vm.calls)
                                /\ less[i].top = RoofOf(opt.topSize, vm.calls, less[i].calls)
  BY <1>6 DEF FramesAbut, Abut
<1>8. Abut(opt.topSize, vm.top, vm.calls, less)
  BY <1>7 DEF FramesAbut, Abut
<1> QED
  BY <1>1, <1>5, <1>8 DEF FramesAbut

LEMMA ThrowAbuts ==
    ASSUME NEW L, NEW V, VMInv(L, V), NEW W, VMInv(L, W)', FramesAbut, HandledAt(Op.THROW)
    PROVE  FramesAbut'
<1>1. PICK c, s, m :
          /\ m = ExecAt(c, s, vm.ip, Op.THROW) /\ DOMAIN s = SyncedFields
          /\ s.calls = vm.calls /\ s.tries = vm.tries /\ s.top = vm.top
          /\ s.outcome = "running" /\ Resume(m) /\ opt' = opt
  BY HandlerRuns
<1>2. PICK rest : m = Raise(s, rest)
  BY <1>1, HandlerTable
<1>3. vm.calls \in FrameRecords /\ vm.tries \in TryRecords
  BY DEF VMInv, MachineOK
<1>4. CASE vm.tries = <<>>
  <2>1. m = [s EXCEPT !.ops = rest, !.outcome = "escaped"]
    BY <1>1, <1>2, <1>4 DEF Raise
  <2>2. DOMAIN m = SyncedFields /\ m.calls = vm.calls /\ m.tries = vm.tries /\ m.top = vm.top
    BY <1>1, <2>1 DEF SyncedFields, VMFields
  <2>3. vm'.calls = vm.calls /\ vm'.tries = vm.tries /\ vm'.top = vm.top
    BY <1>1, <2>2, Resumed
  <2> QED
    BY <1>1, <2>3, AbutStays
<1>5. CASE vm.tries # <<>>
  <2>1. PICK z \in Nat : z = Len(vm.tries)
    BY <1>3, TryTypes
  <2>2. z # 0
    BY <1>3, <1>5, <2>1, EmptySeq DEF TryRecords
  <2>3. z \in 1 .. z
    BY <2>2
  <2>4. PICK t, k, less, ops : /\ t = vm.tries[z] /\ k = t.calls
                               /\ less = SubSeq(vm.tries, 1, z - 1)
                               /\ ops = Append(SubSeq(rest, 1, t.depth), Caught)
    OBVIOUS
  <2>5. m = [s EXCEPT !.tries = less, !.calls = SubSeq(vm.calls, 1, k), !.top = t.top,
                      !.ops = ops, !.ip = t.catch]
    BY <1>1, <1>2, <1>5, <2>1, <2>4 DEF Raise
  <2>6. /\ DOMAIN m = SyncedFields /\ m.calls = SubSeq(vm.calls, 1, k) /\ m.top = t.top
        /\ m.tries = less /\ m.outcome = "running"
    BY <1>1, <2>5 DEF SyncedFields, VMFields
  <2>7. /\ vm'.calls = SubSeq(vm.calls, 1, k) /\ vm'.top = t.top /\ vm'.tries = less
        /\ vm'.outcome = "running"
    BY <1>1, <2>6, Resumed
  <2>8. k \in 0 .. Len(vm.calls) /\ t.top = RoofOf(opt.topSize, vm.calls, k)
    BY <2>1, <2>3, <2>4 DEF FramesAbut, Abut
  <2>9. \A i \in 1 .. Len(less) : i \in 1 .. Len(vm.tries) /\ less[i] = vm.tries[i]
    BY <1>3, <2>1, <2>4, OuterBlocks
  <2>10. vm'.top = RoofOf(opt.topSize, vm.calls, k)
         /\ \A i \in 1 .. Len(vm'.tries) : i \in 1 .. Len(vm.tries) /\ vm'.tries[i] = vm.tries[i]
    BY <2>7, <2>8, <2>9
  <2> QED
    BY <1>1, <2>7, <2>8, <2>10, CutAbuts
<1> QED
  BY <1>4, <1>5

LEMMA HandlersAbut ==
    ASSUME NEW L, NEW V, VMInv(L, V), NEW W, VMInv(L, W)', FramesAbut, Delegate
    PROVE  FramesAbut'
<1>1. PICK o \in Delegated : HandledAt(o)
  BY DEF Delegate, Delegated, HandledAt
<1>2. CASE o \in {Op.PUSH_STRING, Op.PRINTLN, Op.NEW_INSTANCE, Op.HALT}
  BY <1>1, <1>2, QuietHandlersAbut
<1>3. CASE o = Op.TRY
  BY <1>1, <1>3, BlockOpenedAbuts
<1>4. CASE o = Op.POP_TRY
  BY <1>1, <1>4, BlockLeftAbuts
<1>5. CASE o = Op.THROW
  BY <1>1, <1>5, ThrowAbuts
<1> QED
  BY <1>2, <1>3, <1>4, <1>5 DEF Delegated

LEMMA StepAbuts ==
    ASSUME NEW L, NEW V, VMInv(L, V), FramesAbut, Step
    PROVE  FramesAbut'
<1>1. PICK W : VMInv(L, W)'
  BY StepInv
<1>2. CASE \/ PushInt \/ PushBool \/ Pop \/ Dup \/ LoadLocal \/ LoadSlot \/ StoreSlot
           \/ StoreSlotPop \/ LoadLoadLocal \/ LoopRangeFast \/ Jump \/ JumpIfFalse \/ Branch3
           \/ Binary \/ Quick \/ GetFieldIC \/ SetFieldIC
  <2>1. DOMAIN vm = VMFields
    BY DEF VMInv, MachineOK
  <2> QED
    BY <1>2, <2>1, FramesLeftAlone, AbutStays
<1>3. CASE StoreLocal \/ StoreLocalPop \/ IncrLocalImm \/ FusedAddStore \/ FusedMulAdd
  BY <1>3, StoresAbut
<1>4. CASE Call \/ CallFast \/ InvokeMethodIC \/ Ret
  BY <1>1, <1>4, CallsAbut, MethodsAbut, ReturnAbuts
<1>5. CASE Delegate
  BY <1>1, <1>5, HandlersAbut
<1> QED
  BY <1>2, <1>3, <1>4, <1>5 DEF Step

-----------------------------------------------------------------------------
(* Code that can be verified (OptimizedVM's Verified: a labelling of the     *)
(* instructions with the depth of the stack, the room of the frame and the   *)
(* open try blocks) keeps a state the labelling describes, for every step of *)
(* run_optimized: instructions rewritten as they run, operands in registers, *)
(* calls, returns, exceptions and the caches of fields and methods included. *)
THEOREM VerifiedCodeFits ==
    ASSUME \A c \in Chunks : \E L : Verified(Optimize(c), L)
    PROVE  Spec => []Fitting
<1>1. Init => Fitting
  <2> SUFFICES ASSUME Init PROVE Fitting
    OBVIOUS
  <2>1. PICK L : Verified(opt, L)
    BY DEF Init
  <2> QED
    BY <2>1, StartFits DEF Fitting
<1>2. Fitting /\ [Next]_vars => Fitting'
  BY FitsOn
<1> QED
  BY <1>1, <1>2, PTL DEF Spec

(* The frames of the loop lie end to end in locals_ (the code can be         *)
(* verified): each starts where the one below it ends, whatever was called,  *)
(* returned from or thrown through; local_top_ is where the running one ends,*)
(* so none of its stores moves local_top_ and the next call overwrites no    *)
(* slot in use; and a try block that is open will set local_top_ back to the *)
(* end of the frame that opened it.                                          *)
THEOREM FramesLieEndToEnd ==
    ASSUME \A c \in Chunks : \E L : Verified(Optimize(c), L)
    PROVE  Spec => []FramesAbut
<1>1. Init => FramesAbut
  <2> SUFFICES ASSUME Init PROVE FramesAbut
    OBVIOUS
  <2>1. vm.top = opt.topSize /\ vm.calls = <<>> /\ vm.tries = <<>>
    BY DEF Init
  <2>2. Len(<<>>) = 0 /\ 1 .. 0 = {}
    BY EmptySeq
  <2> QED
    BY <2>1, <2>2 DEF FramesAbut, Abut, RoofOf
<1>2. Fitting /\ FramesAbut /\ [Next]_vars => FramesAbut'
  <2> SUFFICES ASSUME Fitting, FramesAbut, [Next]_vars PROVE FramesAbut'
    OBVIOUS
  <2>1. CASE Step
    BY <2>1, StepAbuts DEF Fitting
  <2>2. CASE UNCHANGED vars
    BY <2>2, AbutStays DEF vars
  <2> QED
    BY <2>1, <2>2 DEF Next, Finished
<1> QED
  BY <1>1, <1>2, VerifiedCodeFits, PTL DEF Spec

(* So every slot an instruction of the loop names lies inside the frame it   *)
(* runs in, after any calls, returns and exceptions (opt_bytecode.hpp).      *)
THEOREM SlotsStayInFrames ==
    ASSUME \A c \in Chunks : \E L : Verified(Optimize(c), L)
    PROVE  Spec => []FramesHoldSlots
<1>1. Fitting => SlotsInFrame
  BY RoomForSlots DEF Fitting
<1>2. SlotsInFrame /\ FramesAbut => FramesHoldSlots
  BY DEF FramesHoldSlots
<1> QED
  BY <1>1, <1>2, VerifiedCodeFits, FramesLieEndToEnd, PTL

(* And an inline cache that is filled names the slot, or the entry, that a   *)
(* lookup in the object of its shape would find, whatever was assigned since.*)
THEOREM InlineCachesAgree ==
    ASSUME \A c \in Chunks : \E L : Verified(Optimize(c), L)
    PROVE  Spec => []CachesAgree
<1>1. Fitting => CachesAgree
  BY SitesTell DEF Fitting
<1> QED
  BY <1>1, VerifiedCodeFits, PTL

=============================================================================
